----------------------------- MODULE TimerProofs -----------------------------
(***************************************************************************)
(* Proofs about Timer: its variables keep their types whatever the program *)
(* calls; and in a program that keeps the rules of Timer, for any number   *)
(* of threads and timers and any timing, the array stays sorted and agrees *)
(* with the flags but for timers that were overtaken, and no callback runs *)
(* early.                                                                  *)
(***************************************************************************)
EXTENDS Timer, Lists

\* The rules of MayCall, and that all timers repeat, or none does, because the loop reads the
\* flag of another timer than the one it schedules again.
RulesAreKept ==
    /\ Disciplined
    /\ \A r \in Repeats : \A x, y \in Timers : r[x] = r[y]

IsWhole(c) ==
    \/ c.fn = "none" /\ c.at = "none" /\ c.of = NoTimer
    \/ /\ c.of \in Timers
       /\ \/ c.fn = "schedule" /\ c.at \in {"check", "guard", "enter", "set", "insert", "mark", "unguard"}
          \/ c.fn = "reschedule" /\ c.at \in {"check", "remove", "unmark", "guard", "enter", "set",
                                             "insert", "mark", "unguard"}
          \/ c.fn = "invalidate" /\ c.at \in {"check", "guard", "enter", "remove", "unmark", "unguard"}
          \/ c.fn = "expire" /\ c.at \in {"remove", "unmark"}
          \/ c.fn = "repeat" /\ c.at \in {"set", "insert", "mark"}

FiringPlaces == {"fire", "callback", "fired"}
UserFunctions == {"schedule", "reschedule", "invalidate"}

\* Each call is at one of its steps, and the loop has a timer while it fires one.
CallsAreWhole ==
    /\ \A a \in Actors : IsWhole(call[a])
    /\ loop \in FiringPlaces => firing \in Timers

TypeInv == TypeOK /\ CallsAreWhole /\ timers \in Seq(Timers)

CallRecord == [fn : Calls, of : Timers \cup {NoTimer}, at : Steps]

-----------------------------------------------------------------------------
(* The inductive invariant *)

\* The timer is in the array, or about to leave its call with it there.
Late(c) == c.at \in {"mark", "unguard"}

\* One user thread works on a timer, and only schedules it.  Where the timer thread works on the
\* same timer it has overtaken that call behind the insertion.
CallsAreApart ==
    /\ \A u, v \in Users : call[u].of = call[v].of /\ call[u].of # NoTimer => u = v
    /\ \A u \in Users : call[u].fn \in {"none", "schedule"}
    /\ \A a \in Actors : call[a].of # NoTimer => call[a].of \in started
    /\ \A u \in Users : call[u].of # NoTimer /\ call[u].of \in {firing, call[TimerThread].of} =>
           call[u].of \in overtaken /\ Late(call[u])

\* Where the loop is while the timer thread is in a call, and which timer it fires.
LoopIsPlaced ==
    /\ call[TimerThread].fn = "expire" => loop = "fire" /\ call[TimerThread].of = firing
    /\ call[TimerThread].fn = "repeat" => loop = "look"
    /\ call[TimerThread].fn \in UserFunctions => loop = "callback"
    /\ loop \notin FiringPlaces => firing = NoTimer
    /\ loop \in FiringPlaces => firing \in started
    /\ \A x \in Timers : incallback[x] <=> loop = "callback" /\ x = firing

Taken(c) ==
    \/ c.at = "unguard"
    \/ c.fn \in {"schedule", "reschedule"} /\ c.at \in {"set", "insert", "mark"}
    \/ c.fn = "invalidate" /\ c.at \in {"remove", "unmark"}

\* A call has the lock between its guard and its unlock, unless it is of the running callback on
\* its own timer.
Guarded(a) ==
    call[a].fn # "none" =>
        IF incallback[call[a].of] THEN phase[a] = "out" /\ call[a].at # "enter"
        ELSE phase[a] = IF call[a].at = "enter" THEN "lock"
                        ELSE IF Taken(call[a]) THEN "in" ELSE "out"

\* Between calls only the loop has the lock; a user thread may break that once a call was
\* overtaken.
LockIsTaken ==
    /\ Guarded(TimerThread)
    /\ call[TimerThread].fn = "none" =>
           CASE loop = "wait"   -> phase[TimerThread] \in {"when", "asleep"}
             [] loop = "locked" -> phase[TimerThread] = "in"
             [] OTHER           -> phase[TimerThread] = "out"
    /\ overtaken = {} =>
           /\ ~asserted
           /\ \A u \in Users : Guarded(u) /\ (call[u].fn = "none" => phase[u] = "out")

Sorted ==
    \A i, j \in DOMAIN timers :
        i < j => timers[i] # timers[j] /\ fire[timers[i]] <= fire[timers[j]]

\* What a call of the timer thread, and of a user thread, has made so far of the array.
LoopCallAgrees(c) ==
    /\ c.at \in {"set", "insert", "unmark"} => c.of \notin Range(timers)
    /\ c.at \in {"guard", "enter"} /\ c.fn # "invalidate" => c.of \notin Range(timers)
    /\ Late(c) /\ c.fn # "invalidate" => c.of \in Range(timers)
    /\ c.fn = "invalidate" /\ c.at # "check" => c.of \in stopped

UserCallAgrees(c) ==
    /\ ~Late(c) => c.of \notin Range(timers) /\ ~scheduled[c.of] /\ c.of \notin overtaken
    /\ c.at = "mark" => c.of \in Range(timers) \/ c.of \in overtaken

\* The flag of a timer in the array is still to be assigned by the thread that put it there, or
\* the timer thread is about to take it out; a flag without a place in the array was assigned too
\* late, or is about to go.
FlagAgrees(x) ==
    /\ x \in Range(timers) =>
           \/ scheduled[x]
           \/ /\ call[TimerThread].of = x
              /\ call[TimerThread].at = "mark" \/ call[TimerThread].fn = "expire"
           \/ x \notin overtaken /\ \E u \in Users : call[u].of = x /\ call[u].at = "mark"
    /\ scheduled[x] =>
           \/ x \in Range(timers) \/ x \in overtaken
           \/ call[TimerThread].of = x /\ call[TimerThread].at = "unmark"
    /\ x \in Range(timers) \/ scheduled[x] \/ x \in overtaken => x \in started

MembersAgree ==
    /\ call[TimerThread].fn # "none" => LoopCallAgrees(call[TimerThread])
    /\ \A u \in Users : call[u].fn # "none" => UserCallAgrees(call[u])
    /\ \A x \in Timers : FlagAgrees(x)

\* A repeating timer that is fired stays out of the array until it is scheduled again.
FiredIsOut ==
    loop \in FiringPlaces /\ call[TimerThread].fn # "expire" /\ repeats[firing] =>
        /\ firing \notin Range(timers)
        /\ call[TimerThread].of = firing => call[TimerThread].fn = "invalidate"

\* RepeatingStays, up to the check of a call in a callback and behind the insertion of a user's.
Decided(x) ==
    /\ call[TimerThread].of = x => call[TimerThread].at = "check"
    /\ \A u \in Users : call[u].of = x => Late(call[u])

StaysInside ==
    /\ \A x \in started \ stopped : repeats[x] /\ Decided(x) /\ firing # x => x \in Range(timers)
    /\ \A x, y \in Timers : repeats[x] = repeats[y]

\* The timer the loop waits for is still in the array, and the one it fires is due.
TimesAgree ==
    /\ loop \in FiringPlaces \cup {"late"} => timer # NoTimer
    /\ loop = "wait" => (timed[TimerThread] <=> timer # NoTimer)
    /\ loop \in {"wait", "late"} /\ timer # NoTimer =>
           timer \in Range(timers) /\ fire[timer] = deadline
    /\ loop = "late" => deadline <= now
    /\ loop = "fire" => Due(firing)

IInv ==
    /\ TypeInv /\ CallsAreApart /\ LoopIsPlaced /\ LockIsTaken /\ Sorted /\ MembersAgree
    /\ FiredIsOut /\ StaysInside /\ TimesAgree

-----------------------------------------------------------------------------
(* Types *)

LEMMA CallIs ==
    ASSUME TypeInv, NEW a \in Actors
    PROVE  /\ call[a] \in CallRecord /\ call[a].fn \in Calls /\ call[a].at \in Steps
           /\ call[a].of \in Timers \cup {NoTimer} /\ IsWhole(call[a])
           /\ call[a].fn = "none" <=> call[a] = NoCall
           /\ call[a].fn = "none" <=> call[a].of = NoTimer
           /\ call[a].fn = "none" <=> call[a].at = "none"
<1>1. call[a] \in CallRecord /\ IsWhole(call[a])
  BY DEF TypeInv, TypeOK, CallsAreWhole, CallRecord
<1>2. call[a].fn \in Calls /\ call[a].at \in Steps /\ call[a].of \in Timers \cup {NoTimer}
  BY <1>1 DEF CallRecord
<1>3. call[a].fn = "none" => call[a].of = NoTimer /\ call[a].at = "none"
  BY <1>1 DEF IsWhole
<1>4. call[a].fn # "none" => call[a].of # NoTimer /\ call[a].at # "none"
  BY <1>1, TimerAssumption DEF IsWhole
<1>5. call[a].fn = "none" => call[a] = NoCall
  BY <1>1, <1>3 DEF CallRecord, NoCall
<1>6. NoCall.fn = "none"
  BY DEF NoCall
<1> QED
  BY <1>1, <1>2, <1>3, <1>4, <1>5, <1>6

LEMMA NoCallIs ==
    NoCall \in CallRecord /\ NoCall.fn = "none" /\ NoCall.of = NoTimer /\ NoCall.at = "none"
    /\ IsWhole(NoCall)
BY DEF NoCall, CallRecord, Calls, Steps, IsWhole

LEMMA Proceeding ==
    ASSUME TypeInv, NEW a \in Actors, NEW to \in Steps, Proceed(a, to)
    PROVE  /\ call' \in [Actors -> CallRecord]
           /\ \A b \in Actors \ {a} : call'[b] = call[b]
           /\ to = "none" => call'[a] = NoCall
           /\ to # "none" => /\ call'[a].fn = call[a].fn /\ call'[a].of = call[a].of
                             /\ call'[a].at = to
<1> DEFINE m == [call[a] EXCEPT !.at = to]
<1>1. call' = [call EXCEPT ![a] = IF to = "none" THEN NoCall ELSE m]
  BY Zenon DEF Proceed
<1>2. call[a] \in CallRecord
  BY CallIs
<1>3. m \in CallRecord /\ m.fn = call[a].fn /\ m.of = call[a].of /\ m.at = to
  BY <1>2, Zenon DEF CallRecord
<1> HIDE DEF m
<1>4. call \in [Actors -> CallRecord]
  BY DEF TypeInv, TypeOK, CallRecord
<1> QED
  BY <1>1, <1>3, <1>4, NoCallIs

LEMMA Beginning ==
    ASSUME TypeInv, NEW a \in Actors, NEW fn \in Calls, NEW x \in Timers, NEW at \in Steps,
           Begin(a, fn, x, at)
    PROVE  /\ call' \in [Actors -> CallRecord]
           /\ \A b \in Actors \ {a} : call'[b] = call[b]
           /\ call'[a].fn = fn /\ call'[a].of = x /\ call'[a].at = at
<1> DEFINE m == [fn |-> fn, of |-> x, at |-> at]
<1>1. call' = [call EXCEPT ![a] = m]
  BY DEF Begin
<1>2. m \in CallRecord /\ m.fn = fn /\ m.of = x /\ m.at = at
  BY DEF CallRecord
<1> HIDE DEF m
<1>3. call \in [Actors -> CallRecord]
  BY DEF TypeInv, TypeOK, CallRecord
<1> QED
  BY <1>1, <1>2, <1>3

\* A step of a thread with the lock changes the phase of no other.
LockStep(a) ==
    \/ Lock!Request(a) \/ Lock!Enter(a)
    \/ \E c \in {0, 1} : Lock!LeaveWith(a, c) \/ \E limit \in BOOLEAN : Lock!RequestWhen(a, c, limit)
    \/ Lock!EnterWhen(a) \/ Lock!Block(a) \/ Lock!Awake(a) \/ Lock!GiveUp(a)

LEMMA LockTypes ==
    ASSUME Lock!TypeOK, NEW a \in Actors, LockStep(a)
    PROVE  Lock!TypeOK' /\ \A b \in Actors \ {a} : phase'[b] = phase[b]
<1>1. CASE Lock!Request(a)
  BY <1>1 DEF Lock!TypeOK, Lock!Request, Lock!Move, Lock!Phases
<1>2. CASE Lock!Enter(a)
  BY <1>2 DEF Lock!TypeOK, Lock!Enter, Lock!Move, Lock!Phases
<1>3. ASSUME NEW c \in {0, 1}, Lock!LeaveWith(a, c)
      PROVE  Lock!TypeOK' /\ \A b \in Actors \ {a} : phase'[b] = phase[b]
  BY <1>3 DEF Lock!TypeOK, Lock!LeaveWith, Lock!Move, Lock!Phases
<1>4. ASSUME NEW c \in {0, 1}, NEW limit \in BOOLEAN, Lock!RequestWhen(a, c, limit)
      PROVE  Lock!TypeOK' /\ \A b \in Actors \ {a} : phase'[b] = phase[b]
  BY <1>4 DEF Lock!TypeOK, Lock!RequestWhen, Lock!Move, Lock!Phases
<1>5. CASE Lock!EnterWhen(a)
  BY <1>5 DEF Lock!TypeOK, Lock!EnterWhen, Lock!Move, Lock!Phases, Lock!Forget
<1>6. CASE Lock!Block(a)
  BY <1>6 DEF Lock!TypeOK, Lock!Block, Lock!Move, Lock!Phases
<1>7. CASE Lock!Awake(a)
  BY <1>7 DEF Lock!TypeOK, Lock!Awake, Lock!Move, Lock!Phases, Lock!Forget
<1>8. CASE Lock!GiveUp(a)
  BY <1>8 DEF Lock!TypeOK, Lock!GiveUp, Lock!Move, Lock!Phases, Lock!Forget
<1> QED
  BY <1>1, <1>2, <1>3, <1>4, <1>5, <1>6, <1>7, <1>8 DEF LockStep

LEMMA FirstIsTimer ==
    ASSUME TypeInv
    PROVE  /\ First \in Timers \cup {NoTimer}
           /\ First # NoTimer => First \in Timers /\ timers # <<>> /\ First = timers[1]
           /\ First = NoTimer => timers = <<>>
BY TimerAssumption DEF TypeInv, First

CallsAreTyped == call \in [Actors -> CallRecord] /\ \A a \in Actors : IsWhole(call[a])

LEMMA Moving ==
    ASSUME TypeInv, NEW a \in Actors, NEW to \in Steps, Proceed(a, to),
           to = "none" \/ IsWhole([fn |-> call[a].fn, of |-> call[a].of, at |-> to])
    PROVE  CallsAreTyped'
<1>1. to # "none" => (IsWhole(call'[a]) <=> IsWhole([fn |-> call[a].fn, of |-> call[a].of, at |-> to]))
  BY Proceeding DEF IsWhole
<1>2. IsWhole(call'[a])
  BY <1>1, Proceeding, NoCallIs
<1>3. \A b \in Actors : IsWhole(call'[b])
  BY <1>2, Proceeding, CallIs
<1> QED
  BY <1>3, Proceeding DEF CallsAreTyped

LEMMA Opening ==
    ASSUME TypeInv, NEW a \in Actors, NEW fn \in Calls, NEW x \in Timers, NEW at \in Steps,
           Begin(a, fn, x, at), IsWhole([fn |-> fn, of |-> x, at |-> at])
    PROVE  CallsAreTyped'
<1>1. IsWhole(call'[a]) <=> IsWhole([fn |-> fn, of |-> x, at |-> at])
  BY Beginning DEF IsWhole
<1>2. \A b \in Actors : IsWhole(call'[b])
  BY <1>1, Beginning, CallIs
<1> QED
  BY <1>2, Beginning DEF CallsAreTyped

\* What is left of TypeInv for a step that changes the calls as a step of a call does.
LEMMA TypesOf ==
    ASSUME TypeInv, CallsAreTyped', timers' \in Seq(Timers),
           scheduled' \in [Timers -> BOOLEAN], fire' \in [Timers -> Nat],
           Lock!TypeOK', loop' = loop \/ loop' = "look", asserted' \in BOOLEAN,
           stopped' \subseteq Timers,
           UNCHANGED <<now, interval, repeats, incallback, timer, firing, called, started, overtaken>>
    PROVE  TypeInv'
<1>1. \A i \in DOMAIN timers' : timers'[i] \in Timers
  BY ElementOfSeq
<1>2. loop' \in Places /\ (loop' \in FiringPlaces => firing' \in Timers)
  BY DEF TypeInv, TypeOK, CallsAreWhole, Places, FiringPlaces
<1>3. TypeOK'
  BY <1>1, <1>2 DEF TypeInv, TypeOK, CallsAreTyped, CallRecord
<1> QED
  BY <1>2, <1>3 DEF TypeInv, CallsAreWhole, CallsAreTyped

LEMMA AddSortedTypes ==
    ASSUME TypeInv, NEW x \in Timers, AddSorted(x)
    PROVE  timers' \in Seq(Timers)
<1> DEFINE later == {i \in DOMAIN timers : fire[x] < fire[timers[i]]}
<1>1. timers \in Seq(Timers) /\ DOMAIN timers = 1 .. Len(timers)
  BY DEF TypeInv
<1>2. timers' = IF later = {} THEN Append(timers, x) ELSE InsertAt(timers, Min(later), x)
  BY DEF AddSorted
<1>3. CASE later = {}
  BY <1>1, <1>2, <1>3
<1>4. CASE later # {}
  <2>1. later \in SUBSET Nat /\ \A i \in later : i \in 1 .. Len(timers)
    BY <1>1
  <2> HIDE DEF later
  <2>2. Min(later) \in 1 .. Len(timers)
    BY <1>4, <2>1, LeastNumber
  <2> QED
    BY <1>1, <1>2, <1>4, <2>2, InsertAtInserts
<1> QED
  BY <1>3, <1>4

LEMMA CallStepTypes ==
    ASSUME TypeInv, NEW a \in Actors, CallStep(a)
    PROVE  TypeInv'
<1> PICK x \in Timers :
        \/ CheckScheduled(a, x) \/ CheckLock(a, x) \/ Enter(a, x)
        \/ SetFire(a, x) \/ Insert(a, x) \/ Mark(a, x)
        \/ RemoveData(a, x) \/ Unmark(a, x) \/ CheckUnlock(a, x)
  BY DEF CallStep
<1>1. /\ call[a].fn \in Calls /\ IsWhole(call[a]) /\ Lock!TypeOK
      /\ timers \in Seq(Timers) /\ scheduled \in [Timers -> BOOLEAN] /\ fire \in [Timers -> Nat]
      /\ interval \in [Timers -> Nat \ {0}] /\ now \in Nat /\ asserted \in BOOLEAN
      /\ stopped \subseteq Timers
  BY CallIs, TimerAssumption DEF TypeInv, TypeOK
<1>2. CASE CheckScheduled(a, x)
  <2>1. PICK to \in {"none", "guard", "remove"} :
            /\ Proceed(a, to) /\ call[a].at = "check" /\ call[a].of = x
            /\ to = "remove" => call[a].fn = "reschedule"
    BY <1>2 DEF CheckScheduled, At
  <2>2. to \in Steps /\ (to = "none" \/ IsWhole([fn |-> call[a].fn, of |-> call[a].of, at |-> to]))
    BY <1>1, <2>1 DEF Steps, IsWhole
  <2>3. CallsAreTyped'
    BY <2>1, <2>2, Moving
  <2>4. /\ UNCHANGED <<now, timers, fields, lock, timer, firing, called, started, overtaken, asserted>>
        /\ loop' = loop \/ loop' = "look"
        /\ stopped' \subseteq Timers
    BY <1>1, <1>2 DEF CheckScheduled, ghosts, counts
  <2>5. Lock!TypeOK'
    BY <1>1, <2>4 DEF lock, Lock!TypeOK
  <2> QED
    BY <1>1, <2>3, <2>4, <2>5, TypesOf DEF fields
<1>3. CASE CheckLock(a, x)
  <2>1. PICK to \in {"enter", "set", "remove"} :
            /\ Proceed(a, to) /\ call[a].at = "guard" /\ call[a].of = x
            /\ to = "remove" => call[a].fn = "invalidate"
            /\ to = "set" => call[a].fn # "invalidate"
    BY <1>3 DEF CheckLock, At, Body
  <2>2. to \in Steps /\ IsWhole([fn |-> call[a].fn, of |-> call[a].of, at |-> to])
    BY <1>1, <2>1 DEF Steps, IsWhole
  <2>3. CallsAreTyped'
    BY <2>1, <2>2, Moving
  <2>4. /\ UNCHANGED <<now, timers, fields, loop, timer, firing, called, started, overtaken, stopped>>
        /\ asserted' \in BOOLEAN
        /\ UNCHANGED lock \/ Lock!Request(a)
    BY <1>1, <1>3 DEF CheckLock, locals, ghosts, counts
  <2>5. Lock!TypeOK'
    BY <1>1, <2>4, LockTypes DEF lock, Lock!TypeOK, LockStep
  <2> QED
    BY <1>1, <2>3, <2>4, <2>5, TypesOf DEF fields
<1>4. CASE Enter(a, x)
  <2>1. PICK to \in {"set", "remove"} :
            /\ Proceed(a, to) /\ call[a].at = "enter" /\ call[a].of = x
            /\ to = "remove" <=> call[a].fn = "invalidate"
    BY <1>4 DEF Enter, At, Body
  <2>2. to \in Steps /\ IsWhole([fn |-> call[a].fn, of |-> call[a].of, at |-> to])
    BY <1>1, <2>1 DEF Steps, IsWhole
  <2>3. CallsAreTyped'
    BY <2>1, <2>2, Moving
  <2>4. /\ UNCHANGED <<now, timers, fields, loop, timer, firing, called, started, overtaken, stopped, asserted>>
        /\ Lock!Enter(a)
    BY <1>4 DEF Enter, locals, ghosts, counts
  <2>5. Lock!TypeOK'
    BY <1>1, <2>4, LockTypes DEF LockStep
  <2> QED
    BY <1>1, <2>3, <2>4, <2>5, TypesOf DEF fields
<1>5. CASE SetFire(a, x)
  <2>1. Proceed(a, "insert") /\ call[a].at = "set" /\ call[a].of = x
    BY <1>5 DEF SetFire, At
  <2>2. "insert" \in Steps /\ IsWhole([fn |-> call[a].fn, of |-> call[a].of, at |-> "insert"])
    BY <1>1, <2>1 DEF Steps, IsWhole
  <2>3. CallsAreTyped'
    BY <2>1, <2>2, Moving
  <2>4. /\ UNCHANGED <<now, timers, interval, repeats, scheduled, incallback, lock, loop, timer,
                       firing, called, started, overtaken, stopped, asserted>>
        /\ fire' \in [Timers -> Nat]
    BY <1>1, <1>5 DEF SetFire, locals, ghosts, counts
  <2>5. Lock!TypeOK'
    BY <1>1, <2>4 DEF lock, Lock!TypeOK
  <2> QED
    BY <1>1, <2>3, <2>4, <2>5, TypesOf
<1>6. CASE Insert(a, x)
  <2>1. Proceed(a, "mark") /\ call[a].at = "insert" /\ call[a].of = x
    BY <1>6 DEF Insert, At
  <2>2. "mark" \in Steps /\ IsWhole([fn |-> call[a].fn, of |-> call[a].of, at |-> "mark"])
    BY <1>1, <2>1 DEF Steps, IsWhole
  <2>3. CallsAreTyped'
    BY <2>1, <2>2, Moving
  <2>4. /\ UNCHANGED <<now, fields, lock, loop, timer, firing, called, started, overtaken, stopped, asserted>>
        /\ timers' \in Seq(Timers)
    BY <1>6, AddSortedTypes DEF Insert, locals, ghosts, counts
  <2>5. Lock!TypeOK'
    BY <1>1, <2>4 DEF lock, Lock!TypeOK
  <2> QED
    BY <1>1, <2>3, <2>4, <2>5, TypesOf DEF fields
<1>7. CASE Mark(a, x)
  <2>1. PICK to \in {"none", "unguard"} :
            /\ Proceed(a, to) /\ call[a].at = "mark" /\ call[a].of = x
            /\ to = "none" <=> call[a].fn = "repeat"
    BY <1>7 DEF Mark, At
  <2>2. to \in Steps /\ (to = "none" \/ IsWhole([fn |-> call[a].fn, of |-> call[a].of, at |-> to]))
    BY <1>1, <2>1 DEF Steps, IsWhole
  <2>3. CallsAreTyped'
    BY <2>1, <2>2, Moving
  <2>4. /\ UNCHANGED <<now, timers, interval, repeats, incallback, fire, lock, loop, timer,
                       firing, called, started, overtaken, stopped, asserted>>
        /\ scheduled' \in [Timers -> BOOLEAN]
    BY <1>1, <1>7 DEF Mark, locals, ghosts, counts
  <2>5. Lock!TypeOK'
    BY <1>1, <2>4 DEF lock, Lock!TypeOK
  <2> QED
    BY <1>1, <2>3, <2>4, <2>5, TypesOf
<1>8. CASE RemoveData(a, x)
  <2>1. Proceed(a, "unmark") /\ call[a].at = "remove" /\ call[a].of = x
    BY <1>8 DEF RemoveData, At
  <2>2. "unmark" \in Steps /\ IsWhole([fn |-> call[a].fn, of |-> call[a].of, at |-> "unmark"])
    BY <1>1, <2>1 DEF Steps, IsWhole
  <2>3. CallsAreTyped'
    BY <2>1, <2>2, Moving
  <2>4. /\ UNCHANGED <<now, fields, lock, loop, timer, firing, called, started, overtaken, stopped, asserted>>
        /\ timers' \in Seq(Timers)
    BY <1>1, <1>8, RemoveFirstKeeps DEF RemoveData, locals, ghosts, counts
  <2>5. Lock!TypeOK'
    BY <1>1, <2>4 DEF lock, Lock!TypeOK
  <2> QED
    BY <1>1, <2>3, <2>4, <2>5, TypesOf DEF fields
<1>9. CASE Unmark(a, x)
  <2>1. /\ call[a].at = "unmark" /\ call[a].of = x
        /\ call[a].fn \in {"expire", "reschedule", "invalidate"}
    BY <1>1, <1>9 DEF Unmark, At, IsWhole
  <2>2. PICK to \in {"none", "guard", "unguard"} :
            /\ Proceed(a, to)
            /\ to = "guard" <=> call[a].fn = "reschedule"
            /\ to = "unguard" <=> call[a].fn = "invalidate"
    BY <1>9, <2>1 DEF Unmark
  <2>3. to \in Steps /\ (to = "none" \/ IsWhole([fn |-> call[a].fn, of |-> call[a].of, at |-> to]))
    BY <1>1, <2>1, <2>2 DEF Steps, IsWhole
  <2>4. CallsAreTyped'
    BY <2>2, <2>3, Moving
  <2>5. /\ UNCHANGED <<now, timers, interval, repeats, incallback, fire, lock, loop, timer,
                       firing, called, started, overtaken, stopped, asserted>>
        /\ scheduled' \in [Timers -> BOOLEAN]
    BY <1>1, <1>9 DEF Unmark, locals, ghosts, counts
  <2>6. Lock!TypeOK'
    BY <1>1, <2>5 DEF lock, Lock!TypeOK
  <2> QED
    BY <1>1, <2>4, <2>5, <2>6, TypesOf
<1>10. CASE CheckUnlock(a, x)
  <2>1. Proceed(a, "none") /\ "none" \in Steps
    BY <1>10 DEF CheckUnlock, Steps
  <2>2. CallsAreTyped'
    BY <2>1, Moving
  <2>3. /\ UNCHANGED <<now, timers, fields, loop, timer, firing, called, started, overtaken, stopped>>
        /\ asserted' \in BOOLEAN
        /\ UNCHANGED lock \/ Lock!LeaveWith(a, 1)
    BY <1>1, <1>10 DEF CheckUnlock, locals, ghosts, counts
  <2>4. Lock!TypeOK'
    BY <1>1, <2>3, LockTypes DEF lock, Lock!TypeOK, LockStep
  <2> QED
    BY <1>1, <2>2, <2>3, <2>4, TypesOf DEF fields
<1> QED
  BY <1>2, <1>3, <1>4, <1>5, <1>6, <1>7, <1>8, <1>9, <1>10

\* The same for a step of the loop, or for the beginning of a call.
LEMMA LoopTypesOf ==
    ASSUME TypeInv, CallsAreTyped', interval' \in [Timers -> Nat \ {0}],
           incallback' \in [Timers -> BOOLEAN], Lock!TypeOK', loop' \in Places,
           timer' \in Timers \cup {NoTimer}, firing' \in Timers \cup {NoTimer},
           loop' \in FiringPlaces => firing' \in Timers,
           called' \in BOOLEAN, started' \subseteq Timers, overtaken' \subseteq Timers,
           UNCHANGED <<now, timers, repeats, scheduled, fire, stopped, asserted>>
    PROVE  TypeInv'
<1>1. TypeOK'
  BY DEF TypeInv, TypeOK, CallsAreTyped, CallRecord
<1> QED
  BY <1>1 DEF TypeInv, CallsAreWhole, CallsAreTyped

LEMMA CallsBegin ==
    ASSUME TypeInv, NEW a \in Actors, NEW fn \in UserFunctions, NEW x \in Timers,
           BeginCall(a, fn, x)
    PROVE  CallsAreTyped' /\ interval' \in [Timers -> Nat \ {0}]
<1>1. Begin(a, fn, x, "check") /\ interval \in [Timers -> Nat \ {0}]
  BY DEF BeginCall, TypeInv, TypeOK
<1>2. fn \in Calls /\ "check" \in Steps /\ IsWhole([fn |-> fn, of |-> x, at |-> "check"])
  BY DEF UserFunctions, Calls, Steps, IsWhole
<1>3. CallsAreTyped'
  BY <1>1, <1>2, Opening
<1>4. \A i \in Nat : AtLeastMinimum(i) \in Nat \ {0}
  BY DEF AtLeastMinimum, Minimum
<1>5. \A i \in NewIntervals : AtLeastMinimum(i) \in Nat \ {0}
  BY <1>4, TimerAssumption
<1>6. interval' \in [Timers -> Nat \ {0}]
  BY <1>1, <1>5 DEF BeginCall
<1> QED
  BY <1>3, <1>6

LEMMA ExpireTypes ==
    ASSUME TypeInv, First # NoTimer, Expire(First)
    PROVE  CallsAreTyped' /\ firing' \in Timers /\ loop' = "fire" /\ overtaken' \subseteq Timers
<1>1. First \in Timers /\ overtaken \subseteq Timers
  BY FirstIsTimer DEF TypeInv, TypeOK
<1>2. /\ "expire" \in Calls /\ "remove" \in Steps /\ TimerThread \in Actors
      /\ IsWhole([fn |-> "expire", of |-> First, at |-> "remove"])
  BY <1>1 DEF Calls, Steps, Actors, IsWhole
<1> QED
  BY <1>1, <1>2, Opening DEF Expire

LEMMA LoopTypes == ASSUME TypeInv, Loop PROVE TypeInv'
<1>1. /\ CallsAreTyped /\ interval \in [Timers -> Nat \ {0}] /\ incallback \in [Timers -> BOOLEAN]
      /\ Lock!TypeOK /\ loop \in Places /\ timer \in Timers \cup {NoTimer}
      /\ firing \in Timers \cup {NoTimer} /\ (loop \in FiringPlaces => firing \in Timers)
      /\ called \in BOOLEAN /\ started \cup overtaken \subseteq Timers /\ TimerThread \in Actors
      /\ First \in Timers \cup {NoTimer}
  BY FirstIsTimer DEF TypeInv, TypeOK, CallsAreWhole, CallsAreTyped, CallRecord, Actors
<1>2. UNCHANGED call => CallsAreTyped'
  BY <1>1 DEF CallsAreTyped
<1>3. UNCHANGED lock => Lock!TypeOK'
  BY <1>1 DEF lock, Lock!TypeOK
<1>4. LockStep(TimerThread) => Lock!TypeOK'
  BY <1>1, LockTypes
<1>5. CASE Look
  <2>1. /\ UNCHANGED <<now, timers, fields, counts, stopped, asserted>> /\ timer' = First
        /\ \/ First # NoTimer /\ Expire(First) /\ UNCHANGED lock
           \/ /\ loop' = "wait" /\ UNCHANGED <<firing, call, overtaken>>
              /\ \E limit \in BOOLEAN : Lock!RequestWhen(TimerThread, 1, limit)
    BY <1>5 DEF Look
  <2>2. Lock!TypeOK'
    BY <1>3, <1>4, <2>1 DEF LockStep
  <2>3. /\ CallsAreTyped' /\ loop' \in Places /\ firing' \in Timers \cup {NoTimer}
        /\ loop' \in FiringPlaces => firing' \in Timers
        /\ overtaken' \subseteq Timers
    BY <1>1, <1>2, <2>1, ExpireTypes DEF Places, FiringPlaces
  <2> QED
    BY <1>1, <2>1, <2>2, <2>3, LoopTypesOf DEF fields, ghosts, counts
<1>6. CASE Sleep
  <2>1. /\ UNCHANGED <<now, timers, fields, locals, call, ghosts, stopped, asserted>>
        /\ LockStep(TimerThread)
    BY <1>6 DEF Sleep, LockStep
  <2> QED
    BY <1>1, <1>2, <1>4, <2>1, LoopTypesOf DEF fields, ghosts, counts, locals
<1>7. CASE Changed
  <2>1. /\ UNCHANGED <<now, timers, fields, timer, firing, deadline, call, ghosts, stopped, asserted>>
        /\ LockStep(TimerThread) /\ loop' = "locked"
    BY <1>7 DEF Changed, LockStep
  <2> QED
    BY <1>1, <1>2, <1>4, <2>1, LoopTypesOf DEF fields, ghosts, counts, Places, FiringPlaces
<1>8. CASE Reset
  <2>1. /\ UNCHANGED <<now, timers, fields, deadline, counts, stopped, asserted>>
        /\ timer' \in {timer, First} /\ LockStep(TimerThread)
        /\ \/ First # NoTimer /\ Expire(First)
           \/ loop' = "look" /\ UNCHANGED <<firing, call, overtaken>>
    BY <1>8 DEF Reset, LockStep
  <2>2. /\ CallsAreTyped' /\ loop' \in Places /\ firing' \in Timers \cup {NoTimer}
        /\ loop' \in FiringPlaces => firing' \in Timers
        /\ overtaken' \subseteq Timers
    BY <1>1, <1>2, <2>1, ExpireTypes DEF Places, FiringPlaces
  <2> QED
    BY <1>1, <1>4, <2>1, <2>2, LoopTypesOf DEF fields, ghosts, counts
<1>9. CASE TimedOut
  <2>1. /\ UNCHANGED <<now, timers, fields, timer, firing, deadline, call, ghosts, stopped, asserted>>
        /\ LockStep(TimerThread) /\ loop' = "late"
    BY <1>9 DEF TimedOut, LockStep
  <2> QED
    BY <1>1, <1>2, <1>4, <2>1, LoopTypesOf DEF fields, ghosts, counts, Places, FiringPlaces
<1>10. CASE LookAfterTimeout
  <2>1. /\ UNCHANGED <<now, timers, fields, timer, deadline, lock, counts, stopped, asserted>>
        /\ \/ First # NoTimer /\ Expire(First)
           \/ loop' = "look" /\ UNCHANGED <<firing, call, overtaken>>
    BY <1>10 DEF LookAfterTimeout
  <2>2. /\ CallsAreTyped' /\ loop' \in Places /\ firing' \in Timers \cup {NoTimer}
        /\ loop' \in FiringPlaces => firing' \in Timers
        /\ overtaken' \subseteq Timers
    BY <1>1, <1>2, <2>1, ExpireTypes DEF Places, FiringPlaces
  <2> QED
    BY <1>1, <1>3, <2>1, <2>2, LoopTypesOf DEF fields, ghosts, counts
<1>11. CASE Fire
  <2>1. /\ UNCHANGED <<now, timers, interval, repeats, scheduled, fire, lock, timer, firing,
                       call, started, overtaken, stopped, asserted>>
        /\ incallback' \in [Timers -> BOOLEAN] /\ loop' = "callback" /\ called' = FALSE
        /\ firing \in Timers
    BY <1>1, <1>11 DEF Fire, LoopAt, FiringPlaces
  <2> QED
    BY <1>1, <1>2, <1>3, <2>1, LoopTypesOf DEF Places, FiringPlaces
<1>12. CASE CallbackCall
  <2>1. /\ UNCHANGED <<now, timers, repeats, scheduled, incallback, fire, lock, locals,
                       started, overtaken, stopped, asserted>>
        /\ called' = TRUE /\ firing \in Timers
    BY <1>1, <1>12 DEF CallbackCall, LoopAt, FiringPlaces
  <2>2. PICK c \in CallbackCalls[firing] : BeginCall(TimerThread, c[1], c[2])
    BY <1>12 DEF CallbackCall
  <2>3. c[1] \in UserFunctions /\ c[2] \in Timers
    BY <2>1, <2>2, TimerAssumption DEF UserFunctions
  <2>4. CallsAreTyped' /\ interval' \in [Timers -> Nat \ {0}]
    BY <1>1, <2>2, <2>3, CallsBegin
  <2> QED
    BY <1>1, <1>3, <2>1, <2>4, LoopTypesOf DEF locals
<1>13. CASE Fired
  <2>1. /\ UNCHANGED <<now, timers, interval, repeats, scheduled, fire, lock, timer, firing,
                       call, ghosts, stopped, asserted>>
        /\ incallback' \in [Timers -> BOOLEAN] /\ loop' = "fired" /\ firing \in Timers
    BY <1>1, <1>13 DEF Fired, LoopAt, FiringPlaces
  <2> QED
    BY <1>1, <1>2, <1>3, <2>1, LoopTypesOf DEF Places, FiringPlaces, ghosts, counts
<1>14. CASE Repeat
  <2>1. /\ UNCHANGED <<now, timers, fields, lock, ghosts, stopped, asserted>>
        /\ loop' = "look" /\ timer' = NoTimer /\ firing' = NoTimer /\ firing \in Timers
        /\ Begin(TimerThread, "repeat", firing, "set") \/ UNCHANGED call
    BY <1>1, <1>14 DEF Repeat, LoopAt, FiringPlaces
  <2>2. "repeat" \in Calls /\ "set" \in Steps /\ IsWhole([fn |-> "repeat", of |-> firing, at |-> "set"])
    BY <2>1 DEF Calls, Steps, IsWhole
  <2>3. CallsAreTyped'
    BY <1>1, <1>2, <2>1, <2>2, Opening
  <2> QED
    BY <1>1, <1>3, <2>1, <2>3, LoopTypesOf DEF Places, FiringPlaces, fields, ghosts, counts
<1> QED
  BY <1>5, <1>6, <1>7, <1>8, <1>9, <1>10, <1>11, <1>12, <1>13, <1>14 DEF Loop

LEMMA UserCallTypes == ASSUME TypeInv, NEW u \in Users, UserCall(u) PROVE TypeInv'
<1> PICK c \in UserCalls[u] : BeginCall(u, c[1], c[2]) /\ started' = started \cup {c[2]}
  BY DEF UserCall
<1>1. u \in Actors /\ c[1] \in UserFunctions /\ c[2] \in Timers
  BY TimerAssumption DEF Actors, UserFunctions
<1>2. CallsAreTyped' /\ interval' \in [Timers -> Nat \ {0}]
  BY <1>1, CallsBegin
<1>3. UNCHANGED <<now, timers, repeats, scheduled, incallback, fire, lock, locals, called,
                  overtaken, stopped, asserted>>
  BY DEF UserCall
<1>4. Lock!TypeOK'
  BY <1>3 DEF TypeInv, TypeOK, Lock!TypeOK, lock
<1> QED
  BY <1>1, <1>2, <1>3, <1>4, LoopTypesOf DEF TypeInv, TypeOK, CallsAreWhole, locals

LEMMA TypesStart == Init => TypeInv
<1> SUFFICES ASSUME Init PROVE TypeInv
  OBVIOUS
<1>1. Lock!TypeOK
  BY DEF Init, Lock!Init, Lock!TypeOK, Lock!Phases
<1>2. CallsAreTyped
  BY NoCallIs DEF Init, CallsAreTyped
<1>3. interval \in [Timers -> Nat \ {0}]
  <2>1. \A i \in Nat : AtLeastMinimum(i) \in Nat \ {0}
    BY DEF AtLeastMinimum, Minimum
  <2> QED
    BY <2>1, TimerAssumption DEF Init
<1>4. TypeOK
  <2>1. now \in 0 .. MaxTime /\ timers = <<>>
    BY TimerAssumption DEF Init
  <2>2. repeats \in [Timers -> BOOLEAN]
    BY TimerAssumption DEF Init
  <2>3. /\ scheduled \in [Timers -> BOOLEAN] /\ incallback \in [Timers -> BOOLEAN]
        /\ fire \in [Timers -> Nat]
    BY DEF Init
  <2>4. /\ loop \in Places /\ {timer, firing} \subseteq Timers \cup {NoTimer}
        /\ {called, asserted} \subseteq BOOLEAN /\ started \cup stopped \cup overtaken \subseteq Timers
    BY DEF Init, Places
  <2> QED
    BY <1>1, <1>2, <1>3, <2>1, <2>2, <2>3, <2>4 DEF TypeOK, CallsAreTyped, CallRecord
<1> QED
  BY <1>2, <1>4 DEF TypeInv, CallsAreWhole, CallsAreTyped, Init, FiringPlaces

LEMMA TypesStay == TypeInv /\ [Next]_vars => TypeInv'
<1> SUFFICES ASSUME TypeInv, [Next]_vars PROVE TypeInv'
  OBVIOUS
<1>1. CASE Tick
  <2>1. /\ UNCHANGED <<timers, fields, lock, locals, call, ghosts, stopped, asserted>>
        /\ now' \in 0 .. MaxTime
    BY <1>1, TimerAssumption DEF Tick, TypeInv, TypeOK
  <2>2. TypeOK'
    BY <2>1 DEF TypeInv, TypeOK, Lock!TypeOK, fields, lock, locals, ghosts, counts
  <2> QED
    BY <2>1, <2>2 DEF TypeInv, CallsAreWhole, locals
<1>2. CASE UNCHANGED vars
  <2>1. TypeOK'
    BY <1>2 DEF TypeInv, TypeOK, Lock!TypeOK, vars, fields, lock, locals, ghosts, counts
  <2> QED
    BY <1>2, <2>1 DEF TypeInv, CallsAreWhole, vars, locals
<1> QED
  BY <1>1, <1>2, LoopTypes, UserCallTypes, CallStepTypes DEF Next

\* Whatever the program calls, from any of its threads and callbacks, each call is at a step of
\* its own, and the variables of the timer thread and its lock keep their types (wi-timer.c).
THEOREM TypeCorrect == Spec => []TypeOK
<1>1. Spec => []TypeInv
  BY TypesStart, TypesStay, PTL DEF Spec
<1>2. TypeInv => TypeOK
  BY DEF TypeInv
<1> QED
  BY <1>1, <1>2, PTL

-----------------------------------------------------------------------------
(* The steps of a call *)

\* What a step of the call of a, which works on x, leaves of everything else.
StepOf(a, x) ==
    /\ call[a].of = x /\ call'[a].at # "check"
    /\ \A b \in Actors \ {a} : call'[b] = call[b] /\ phase'[b] = phase[b]
    /\ call'[a].fn = "none" \/ (call'[a].fn = call[a].fn /\ call'[a].of = x)
    /\ \A y \in Timers \ {x} : /\ y \in Range(timers') <=> y \in Range(timers)
                               /\ scheduled'[y] = scheduled[y] /\ fire'[y] = fire[y]
                               /\ y \in stopped' <=> y \in stopped
    /\ UNCHANGED <<now, interval, repeats, incallback, timed, timer, firing, deadline, started,
                   overtaken>>
    /\ loop' = loop \/ (loop = "none" /\ loop' = "look")

\* What the step of a user's call leaves of x.
UserLeaves(a, x) ==
    /\ x \in Range(timers) => x \in Range(timers') /\ fire'[x] = fire[x]
    /\ Late(call[a]) => /\ call'[a].fn = "none" \/ Late(call'[a])
                        /\ x \in Range(timers') => x \in Range(timers)
                        /\ x \in stopped' <=> x \in stopped
                        /\ fire'[x] = fire[x]

\* What a step makes of the call, and of x.
StepAgrees(a, x) ==
    /\ Sorted' /\ FlagAgrees(x)'
    /\ a = TimerThread \/ overtaken = {} =>
           Guarded(a)' /\ (call'[a].fn = "none" => phase'[a] = "out")
    /\ overtaken = {} => ~asserted'
    /\ a = TimerThread => /\ call'[a].fn # "none" => LoopCallAgrees(call[a])'
                          /\ x = firing /\ repeats[x] =>
                                 call'[a].fn = "expire" \/ x \notin Range(timers')
                          /\ x = firing /\ loop = "fire" => fire'[x] = fire[x]
    /\ a \in Users => /\ call'[a].fn # "none" => UserCallAgrees(call[a])'
                      /\ UserLeaves(a, x)
    /\ x \notin stopped' /\ repeats[x] /\ Decided(x)' /\ x # firing => x \in Range(timers')

\* Who the actors are.
LEMMA ActorsAre ==
    /\ TimerThread \in Actors /\ Users \subseteq Actors /\ TimerThread \notin Users
    /\ \A a \in Actors : a = TimerThread \/ a \in Users
    /\ NoTimer \notin Timers
BY TimerAssumption DEF Actors

LEMMA WholeCalls ==
    ASSUME TypeInv
    PROVE  \A b \in Actors : /\ IsWhole(call[b]) /\ call[b].of \in Timers \cup {NoTimer}
                             /\ call[b].fn = "none" <=> call[b].of = NoTimer
                             /\ call[b].fn = "none" <=> call[b].at = "none"
                             /\ call[b].fn = "none" <=> call[b] = NoCall
BY CallIs

\* The users that work on a timer of the timer thread are late, and overtaken.
LEMMA UsersAreLate ==
    ASSUME IInv, NEW u \in Users, call[u].of # NoTimer,
           call[u].of = call[TimerThread].of \/ call[u].of = firing
    PROVE  call[u].of \in overtaken /\ Late(call[u]) /\ call[u].fn = "schedule"
<1>1. call[u].fn # "none"
  BY WholeCalls, ActorsAre DEF IInv
<1> QED
  BY <1>1 DEF IInv, CallsAreApart

LEMMA StepKeeps ==
    ASSUME IInv, TypeInv', NEW a \in Actors, NEW x \in Timers, StepOf(a, x), StepAgrees(a, x)
    PROVE  IInv'
<1>1. /\ \A b \in Actors : /\ IsWhole(call[b]) /\ call[b].of \in Timers \cup {NoTimer}
                           /\ call[b].fn = "none" <=> call[b].of = NoTimer
      /\ TimerThread \in Actors /\ Users \subseteq Actors /\ x # NoTimer /\ TimerThread \notin Users
      /\ a = TimerThread \/ a \in Users
      /\ \A b \in Actors : call'[b].fn = "none" <=> call'[b].of = NoTimer
      /\ call[a].of = x /\ call[a].fn # "none" /\ x \in started
  <2>1. \A b \in Actors : /\ IsWhole(call[b]) /\ call[b].of \in Timers \cup {NoTimer}
                          /\ call[b].fn = "none" <=> call[b].of = NoTimer
    BY WholeCalls DEF IInv
  <2>2. \A b \in Actors : IsWhole(call'[b])
    BY DEF TypeInv, CallsAreWhole
  <2>3. \A b \in Actors : call'[b].fn = "none" <=> call'[b].of = NoTimer
    BY <2>2, ActorsAre DEF IsWhole
  <2>4. x \in started /\ x # NoTimer
    BY ActorsAre DEF IInv, CallsAreApart, StepOf
  <2> QED
    BY <2>1, <2>3, <2>4, ActorsAre DEF StepOf
<1>2. /\ \A b \in Actors : call'[b].of = NoTimer \/ call'[b].of = call[b].of
      /\ \A b \in Actors : call'[b].fn = "none" \/ call'[b].fn = call[b].fn
  BY <1>1 DEF StepOf
<1>3. CallsAreApart'
  <2>1. ASSUME NEW u \in Users, call'[u].of # NoTimer,
               call'[u].of \in {firing', call'[TimerThread].of}
        PROVE  call'[u].of \in overtaken' /\ Late(call'[u])
    <3>1. call[u].of = call'[u].of /\ call[u].of \in {firing, call[TimerThread].of}
      BY <1>1, <1>2, <2>1 DEF StepOf
    <3>2. call[u].of \in overtaken /\ Late(call[u])
      BY <2>1, <3>1, UsersAreLate
    <3>3. CASE u = a
      <4>1. call'[a].fn # "none"
        BY <1>1, <2>1, <3>3
      <4>2. Late(call'[a])
        BY <3>2, <3>3, <4>1 DEF StepAgrees, UserLeaves
      <4> QED
        BY <3>1, <3>2, <3>3, <4>2 DEF StepOf
    <3>4. CASE u # a
      BY <1>1, <3>1, <3>2, <3>4 DEF StepOf
    <3> QED
      BY <3>3, <3>4
  <2>2. UNCHANGED started
    BY DEF StepOf
  <2>3. /\ \A u, v \in Users : call'[u].of = call'[v].of /\ call'[u].of # NoTimer => u = v
        /\ \A u \in Users : call'[u].fn \in {"none", "schedule"}
        /\ \A b \in Actors : call'[b].of # NoTimer => call'[b].of \in started'
    BY <1>1, <1>2, <2>2 DEF IInv, CallsAreApart
  <2> QED
    BY <2>1, <2>3 DEF CallsAreApart
<1>4. LoopIsPlaced'
  <2>1. call'[TimerThread].fn = "none" \/ (/\ call'[TimerThread].fn = call[TimerThread].fn
                                           /\ call'[TimerThread].of = call[TimerThread].of)
    BY <1>1 DEF StepOf
  <2>2. \A y \in Timers : incallback[y] <=> loop = "callback" /\ y = firing
    BY DEF IInv, LoopIsPlaced
  <2>3. UNCHANGED <<firing, incallback, started>> /\ (loop' = loop \/ (loop = "none" /\ loop' = "look"))
    BY DEF StepOf
  <2>4. \A y \in Timers : incallback'[y] <=> loop' = "callback" /\ y = firing'
    BY <2>2, <2>3
  <2> QED
    BY <2>1, <2>3, <2>4 DEF IInv, LoopIsPlaced, FiringPlaces, UserFunctions
<1>5. LockIsTaken'
  <2>1. ASSUME NEW b \in Actors \ {a} PROVE Guarded(b)' <=> Guarded(b)
    <3>1. call'[b] = call[b] /\ phase'[b] = phase[b] /\ incallback' = incallback
      BY DEF StepOf
    <3> QED
      BY <3>1 DEF Guarded, Taken
  <2>2. overtaken' = overtaken
    BY DEF StepOf
  <2>3. ASSUME overtaken' = {}
        PROVE  ~asserted' /\ \A u \in Users : Guarded(u)' /\ (call'[u].fn = "none" => phase'[u] = "out")
    <3>1. ~asserted' /\ Guarded(a)' /\ (call'[a].fn = "none" => phase'[a] = "out")
      BY <2>2, <2>3 DEF StepAgrees
    <3>2. ASSUME NEW u \in Users, u # a
          PROVE  Guarded(u)' /\ (call'[u].fn = "none" => phase'[u] = "out")
      <4>1. Guarded(u) /\ (call[u].fn = "none" => phase[u] = "out")
        BY <2>2, <2>3 DEF IInv, LockIsTaken
      <4>2. u \in Actors \ {a} /\ call'[u] = call[u] /\ phase'[u] = phase[u]
        BY <1>1, <3>2 DEF StepOf
      <4> QED
        BY <2>1, <4>1, <4>2
    <3> QED
      BY <3>1, <3>2
  <2>4. Guarded(TimerThread)'
    <3>1. CASE a = TimerThread
      BY <3>1 DEF StepAgrees
    <3>2. CASE a # TimerThread
      BY <1>1, <2>1, <3>2 DEF IInv, LockIsTaken
    <3> QED
      BY <3>1, <3>2
  <2>5. call'[TimerThread].fn = "none" =>
            CASE loop' = "wait"   -> phase'[TimerThread] \in {"when", "asleep"}
              [] loop' = "locked" -> phase'[TimerThread] = "in"
              [] OTHER            -> phase'[TimerThread] = "out"
    <3>1. CASE a = TimerThread
      <4>1. loop \notin {"wait", "locked"} /\ loop' \notin {"wait", "locked"}
        BY <1>1, <3>1 DEF IInv, LoopIsPlaced, IsWhole, StepOf, UserFunctions
      <4> QED
        BY <3>1, <4>1 DEF StepAgrees
    <3>2. CASE a # TimerThread
      <4>1. call'[TimerThread] = call[TimerThread] /\ phase'[TimerThread] = phase[TimerThread]
        BY <1>1, <3>2 DEF StepOf
      <4>2. CASE loop' = loop
        BY <4>1, <4>2 DEF IInv, LockIsTaken
      <4>3. CASE loop = "none" /\ loop' = "look"
        BY <4>1, <4>3 DEF IInv, LockIsTaken
      <4> QED
        BY <4>2, <4>3 DEF StepOf
    <3> QED
      BY <3>1, <3>2
  <2> QED
    BY <2>3, <2>4, <2>5 DEF LockIsTaken
<1>6. MembersAgree'
  <2>1. ASSUME call'[TimerThread].fn # "none" PROVE LoopCallAgrees(call[TimerThread])'
    <3>1. CASE a = TimerThread
      BY <2>1, <3>1 DEF StepAgrees
    <3>2. CASE a # TimerThread
      <4>1. /\ call'[TimerThread] = call[TimerThread] /\ a \in Users
            /\ LoopCallAgrees(call[TimerThread]) /\ call[TimerThread].of \in Timers
        BY <1>1, <2>1, <3>2 DEF StepOf, IInv, MembersAgree
      <4>2. /\ call[TimerThread].of \in Range(timers') <=> call[TimerThread].of \in Range(timers)
            /\ call[TimerThread].of \in stopped' <=> call[TimerThread].of \in stopped
        <5>1. CASE call[TimerThread].of = x
          <6>1. Late(call[a])
            BY <1>1, <4>1, <5>1, UsersAreLate
          <6> QED
            BY <4>1, <5>1, <6>1 DEF StepAgrees, UserLeaves
        <5>2. CASE call[TimerThread].of # x
          BY <4>1, <5>2 DEF StepOf
        <5> QED
          BY <5>1, <5>2
      <4> QED
        BY <4>1, <4>2 DEF LoopCallAgrees, Late
    <3> QED
      BY <3>1, <3>2
  <2>2. ASSUME NEW u \in Users, call'[u].fn # "none" PROVE UserCallAgrees(call[u])'
    <3>1. CASE u = a
      BY <2>2, <3>1 DEF StepAgrees
    <3>2. CASE u # a
      <4>1. /\ call'[u] = call[u] /\ UserCallAgrees(call[u]) /\ call[u].of \in Timers
            /\ overtaken' = overtaken
        BY <1>1, <2>2, <3>2 DEF StepOf, IInv, MembersAgree
      <4>2. CASE call[u].of = x
        <5>1. a = TimerThread
          BY <1>1, <3>2, <4>2 DEF IInv, CallsAreApart
        <5>2. x \in overtaken /\ Late(call[u])
          BY <1>1, <4>2, <5>1, UsersAreLate
        <5> QED
          BY <4>1, <4>2, <5>2 DEF UserCallAgrees, Late
      <4>3. CASE call[u].of # x
        <5>1. /\ call[u].of \in Range(timers') <=> call[u].of \in Range(timers)
              /\ scheduled'[call[u].of] = scheduled[call[u].of]
          BY <4>1, <4>3 DEF StepOf
        <5> QED
          BY <4>1, <5>1 DEF UserCallAgrees, Late
      <4> QED
        BY <4>2, <4>3
    <3> QED
      BY <3>1, <3>2
  <2>3. ASSUME NEW y \in Timers PROVE FlagAgrees(y)'
    <3>1. CASE y = x
      BY <3>1 DEF StepAgrees
    <3>2. CASE y # x
      <4>1. FlagAgrees(y) /\ y # NoTimer
        BY ActorsAre DEF IInv, MembersAgree
      <4>2. /\ y \in Range(timers') <=> y \in Range(timers)
            /\ scheduled'[y] = scheduled[y] /\ UNCHANGED <<overtaken, started>>
        BY <3>2 DEF StepOf
      <4>3. \A b \in Actors : call[b].of = y => call'[b] = call[b]
        BY <1>1, <3>2 DEF StepOf
      <4> QED
        BY <1>1, <4>1, <4>2, <4>3 DEF FlagAgrees
    <3> QED
      BY <3>1, <3>2
  <2> QED
    BY <2>1, <2>2, <2>3 DEF MembersAgree
<1>7. FiredIsOut'
  <2>1. SUFFICES ASSUME loop' \in FiringPlaces, call'[TimerThread].fn # "expire", repeats'[firing']
                 PROVE  /\ firing' \notin Range(timers')
                        /\ call'[TimerThread].of = firing' => call'[TimerThread].fn = "invalidate"
    BY DEF FiredIsOut
  <2>2. loop = loop' /\ firing' = firing /\ repeats[firing] /\ firing \in Timers
    BY <2>1 DEF StepOf, FiringPlaces, IInv, TypeInv, CallsAreWhole
  <2>3. call[TimerThread].fn = "expire" => call'[TimerThread].fn = "none" /\ a = TimerThread
    BY <1>1, <1>2, <2>1 DEF StepOf
  <2>4. call'[TimerThread].of = firing => call'[TimerThread].fn = "invalidate"
    <3>1. SUFFICES ASSUME call'[TimerThread].of = firing PROVE call'[TimerThread].fn = "invalidate"
      OBVIOUS
    <3>2. call'[TimerThread].fn # "none" /\ call[TimerThread].of = firing
      BY <1>1, <1>2, <2>2, <3>1, ActorsAre
    <3>3. call'[TimerThread].fn = call[TimerThread].fn
      BY <1>1, <1>2, <3>2
    <3> QED
      BY <2>1, <2>2, <3>2, <3>3 DEF IInv, FiredIsOut
  <2>5. firing \notin Range(timers')
    <3>1. CASE x = firing /\ a = TimerThread
      BY <2>1, <2>2, <3>1 DEF StepAgrees
    <3>2. CASE x = firing /\ a # TimerThread
      <4>1. firing \notin Range(timers)
        BY <2>1, <2>2, <2>3, <3>2 DEF IInv, FiredIsOut
      <4>2. Late(call[a]) /\ a \in Users
        BY <1>1, <3>2, UsersAreLate
      <4> QED
        BY <3>2, <4>1, <4>2 DEF StepAgrees, UserLeaves
    <3>3. CASE x # firing
      <4>1. call[TimerThread].fn # "expire"
        BY <1>1, <2>3, <3>3 DEF IInv, LoopIsPlaced
      <4> QED
        BY <2>1, <2>2, <3>3, <4>1 DEF IInv, FiredIsOut, StepOf
    <3> QED
      BY <3>1, <3>2, <3>3
  <2> QED
    BY <2>2, <2>4, <2>5
<1>8. StaysInside'
  <2>1. ASSUME NEW y \in started \ stopped', repeats[y], Decided(y)', firing # y
        PROVE  y \in Range(timers')
    <3>1. y \in Timers /\ y # NoTimer
      BY ActorsAre DEF IInv, TypeInv, TypeOK
    <3>2. CASE y = x
      BY <2>1, <3>2 DEF StepAgrees
    <3>3. CASE y # x
      <4>1. \A b \in Actors : call[b].of = y => call'[b] = call[b]
        BY <1>1, <3>1, <3>3 DEF StepOf
      <4>2. Decided(y)
        BY <1>1, <2>1, <4>1 DEF Decided, Late
      <4> QED
        BY <2>1, <3>1, <3>3, <4>2 DEF IInv, StaysInside, StepOf
    <3> QED
      BY <3>2, <3>3
  <2> QED
    BY <2>1 DEF StaysInside, IInv, StepOf
<1>9. TimesAgree'
  <2>1. /\ UNCHANGED <<now, timer, firing, deadline, timed>>
        /\ loop' = loop \/ (loop = "none" /\ loop' = "look")
    BY DEF StepOf
  <2>2. /\ loop' \in FiringPlaces \cup {"late"} => timer # NoTimer
        /\ loop' = "wait" => (timed[TimerThread] <=> timer # NoTimer)
        /\ loop' = "late" => deadline <= now
    BY <2>1 DEF IInv, TimesAgree, FiringPlaces
  <2>3. ASSUME loop' \in {"wait", "late"}, timer # NoTimer
        PROVE  timer \in Range(timers') /\ fire'[timer] = deadline
    <3>1. loop = loop' /\ timer \in Range(timers) /\ fire[timer] = deadline /\ timer \in Timers
      BY <2>1, <2>3 DEF IInv, TimesAgree, TypeInv, TypeOK
    <3>2. CASE timer = x
      <4>1. a # TimerThread
        BY <1>1, <2>3, <3>1 DEF IInv, LoopIsPlaced, IsWhole, UserFunctions, FiringPlaces
      <4> QED
        BY <1>1, <3>1, <3>2, <4>1 DEF StepAgrees, UserLeaves
    <3>3. CASE timer # x
      BY <3>1, <3>3 DEF StepOf
    <3> QED
      BY <3>2, <3>3
  <2>4. ASSUME loop' = "fire" PROVE Due(firing)'
    <3>1. loop = "fire" /\ Due(firing) /\ firing \in Timers
      BY <2>1, <2>4 DEF IInv, TimesAgree, TypeInv, CallsAreWhole, FiringPlaces
    <3>2. fire'[firing] = fire[firing]
      <4>1. CASE x = firing /\ a = TimerThread
        BY <3>1, <4>1 DEF StepAgrees
      <4>2. CASE x = firing /\ a # TimerThread
        <5>1. Late(call[a]) /\ a \in Users
          BY <1>1, <4>2, UsersAreLate
        <5> QED
          BY <4>2, <5>1 DEF StepAgrees, UserLeaves
      <4>3. CASE x # firing
        BY <3>1, <4>3 DEF StepOf
      <4> QED
        BY <4>1, <4>2, <4>3
    <3> QED
      BY <2>1, <3>1, <3>2 DEF Due
  <2> QED
    BY <2>1, <2>2, <2>3, <2>4 DEF TimesAgree
<1> QED
  BY <1>3, <1>4, <1>5, <1>6, <1>7, <1>8, <1>9 DEF IInv, StepAgrees

\* Where a thread is that works on x.
LEMMA Here ==
    ASSUME IInv, NEW a \in Actors, NEW x \in Timers, call[a].of = x
    PROVE  /\ call[a].fn # "none" /\ IsWhole(call[a]) /\ x \in started /\ FlagAgrees(x)
           /\ a = TimerThread \/ overtaken = {} => Guarded(a)
           /\ overtaken = {} => ~asserted
           /\ a = TimerThread =>
                  /\ a \notin Users /\ LoopCallAgrees(call[a])
                  /\ \A u \in Users : call[u].of = x => x \in overtaken /\ Late(call[u])
                  /\ x = firing => loop \in FiringPlaces
                  /\ x = firing /\ repeats[x] /\ call[a].fn # "expire" =>
                         call[a].fn = "invalidate" /\ x \notin Range(timers)
           /\ a # TimerThread =>
                  /\ a \in Users /\ call[a].fn = "schedule" /\ UserCallAgrees(call[a])
                  /\ ~Late(call[a]) => x # firing /\ call[TimerThread].of # x /\ ~incallback[x]
           /\ \A u \in Users : call[u].of = x /\ a \in Users => u = a
           /\ incallback[x] \in BOOLEAN /\ repeats[x] \in BOOLEAN /\ scheduled[x] \in BOOLEAN
<1>1. /\ x # NoTimer /\ call[a].fn # "none" /\ IsWhole(call[a])
      /\ a = TimerThread \/ a \in Users
  BY WholeCalls, ActorsAre DEF IInv
<1>2. x \in started /\ FlagAgrees(x)
  BY <1>1 DEF IInv, MembersAgree, CallsAreApart
<1>3. (a = TimerThread \/ overtaken = {} => Guarded(a)) /\ (overtaken = {} => ~asserted)
  BY <1>1 DEF IInv, LockIsTaken
<1>4. ASSUME a = TimerThread
      PROVE  /\ a \notin Users /\ LoopCallAgrees(call[a])
             /\ \A u \in Users : call[u].of = x => x \in overtaken /\ Late(call[u])
             /\ x = firing => loop \in FiringPlaces
             /\ x = firing /\ repeats[x] /\ call[a].fn # "expire" =>
                    call[a].fn = "invalidate" /\ x \notin Range(timers)
  <2>1. a \notin Users /\ LoopCallAgrees(call[a])
    BY <1>1, <1>4, ActorsAre DEF IInv, MembersAgree
  <2>2. \A u \in Users : call[u].of = x => x \in overtaken /\ Late(call[u])
    BY <1>1, <1>4, UsersAreLate
  <2>3. x = firing => loop \in FiringPlaces
    BY <1>1 DEF IInv, LoopIsPlaced
  <2>4. x = firing /\ repeats[x] /\ call[a].fn # "expire" =>
            call[a].fn = "invalidate" /\ x \notin Range(timers)
    BY <1>4, <2>3 DEF IInv, FiredIsOut
  <2> QED
    BY <2>1, <2>2, <2>3, <2>4
<1>5. ASSUME a # TimerThread
      PROVE  /\ a \in Users /\ call[a].fn = "schedule" /\ UserCallAgrees(call[a])
             /\ ~Late(call[a]) => x # firing /\ call[TimerThread].of # x /\ ~incallback[x]
  <2>1. a \in Users /\ call[a].fn = "schedule" /\ UserCallAgrees(call[a])
    BY <1>1, <1>5 DEF IInv, MembersAgree, CallsAreApart
  <2>2. ~Late(call[a]) => x # firing /\ call[TimerThread].of # x
    BY <1>1, <2>1, UsersAreLate
  <2>3. incallback[x] => x = firing
    BY DEF IInv, LoopIsPlaced
  <2> QED
    BY <2>1, <2>2, <2>3
<1>6. \A u \in Users : call[u].of = x /\ a \in Users => u = a
  BY <1>1 DEF IInv, CallsAreApart
<1>7. incallback[x] \in BOOLEAN /\ repeats[x] \in BOOLEAN /\ scheduled[x] \in BOOLEAN
  BY DEF IInv, TypeInv, TypeOK
<1> QED
  BY <1>1, <1>2, <1>3, <1>4, <1>5, <1>6, <1>7

LEMMA Framed ==
    ASSUME IInv, NEW a \in Actors, NEW x \in Timers, call[a].of = x,
           NEW to \in Steps \ {"check"}, Proceed(a, to),
           \A b \in Actors \ {a} : phase'[b] = phase[b],
           \A y \in Timers \ {x} : /\ y \in Range(timers') <=> y \in Range(timers)
                                   /\ scheduled'[y] = scheduled[y] /\ fire'[y] = fire[y]
                                   /\ y \in stopped' <=> y \in stopped,
           UNCHANGED <<now, interval, repeats, incallback, timed, timer, firing, deadline, started,
                       overtaken>>,
           loop' = loop \/ (loop = "none" /\ loop' = "look")
    PROVE  /\ StepOf(a, x)
           /\ to = "none" => call'[a].fn = "none" /\ call'[a].at = "none" /\ call'[a].of = NoTimer
           /\ to # "none" => call'[a].fn = call[a].fn /\ call'[a].at = to /\ call'[a].of = x
<1>1. to \in Steps /\ TypeInv
  BY DEF IInv
<1>2. /\ \A b \in Actors \ {a} : call'[b] = call[b]
      /\ to = "none" => call'[a].fn = "none" /\ call'[a].at = "none" /\ call'[a].of = NoTimer
      /\ to # "none" => call'[a].fn = call[a].fn /\ call'[a].at = to /\ call'[a].of = x
  BY <1>1, Proceeding, NoCallIs
<1> QED
  BY <1>2 DEF StepOf

\* A step that is neither at the array nor at the flag.
LEMMA FlagStays ==
    ASSUME IInv, NEW a \in Actors, NEW x \in Timers, StepOf(a, x),
           call[a].at \notin {"mark", "unmark"}, call[a].fn # "expire",
           UNCHANGED <<timers, scheduled>>
    PROVE  FlagAgrees(x)'
<1>1. FlagAgrees(x) /\ call[a].of = x
  BY Here DEF StepOf
<1>2. \A b \in Actors \ {a} : call'[b] = call[b]
  BY DEF StepOf
<1>3. UNCHANGED <<overtaken, started>>
  BY DEF StepOf
<1> QED
  BY <1>1, <1>2, <1>3, ActorsAre DEF FlagAgrees

LEMMA CheckScheduledKeeps ==
    ASSUME IInv, NEW a \in Actors, NEW x \in Timers, CheckScheduled(a, x), TypeInv'
    PROVE  IInv'
<1>1. /\ call[a].of = x /\ call[a].at = "check"
      /\ UNCHANGED <<now, timers, fields, lock, timer, firing, deadline, ghosts, asserted>>
  BY DEF CheckScheduled, At
<1>2. call[a].fn \in UserFunctions /\ ~Late(call[a])
  BY <1>1, Here DEF IsWhole, UserFunctions, Late
<1>3. PICK to \in {"none", "guard", "remove"} :
          /\ Proceed(a, to)
          /\ call[a].fn = "schedule" =>
                 /\ to = IF scheduled[x] THEN "none" ELSE "guard"
                 /\ stopped' = IF scheduled[x] THEN stopped ELSE stopped \ {x}
          /\ call[a].fn = "reschedule" => /\ to = IF scheduled[x] THEN "remove" ELSE "guard"
                                          /\ stopped' = stopped \ {x}
          /\ call[a].fn = "invalidate" =>
                 /\ to = IF scheduled[x] THEN "guard" ELSE "none"
                 /\ stopped' = IF scheduled[x] THEN stopped \cup {x} ELSE stopped
          /\ loop' = loop \/ (loop = "none" /\ loop' = "look")
  BY <1>1, <1>2 DEF CheckScheduled, UserFunctions
<1>4. /\ StepOf(a, x)
      /\ to = "none" => call'[a].fn = "none" /\ call'[a].at = "none" /\ call'[a].of = NoTimer
      /\ to # "none" => call'[a].fn = call[a].fn /\ call'[a].at = to /\ call'[a].of = x
  <2>1. to \in Steps \ {"check"}
    BY DEF Steps
  <2>2. \A y \in Timers \ {x} : y \in stopped' <=> y \in stopped
    BY <1>2, <1>3 DEF UserFunctions
  <2> QED
    BY <1>1, <1>3, <2>1, <2>2, Framed DEF fields, lock, ghosts, counts
<1>5. UNCHANGED <<timers, scheduled, fire, incallback, phase, asserted, repeats, firing, overtaken>>
  BY <1>1 DEF fields, lock, ghosts
<1>6. Sorted' /\ FlagAgrees(x)'
  <2>1. Sorted'
    BY <1>5 DEF Sorted, IInv
  <2> QED
    BY <1>1, <1>2, <1>4, <1>5, <2>1, FlagStays DEF UserFunctions
<1>7. a = TimerThread \/ overtaken = {} => Guarded(a)' /\ (call'[a].fn = "none" => phase'[a] = "out")
  <2>1. SUFFICES ASSUME a = TimerThread \/ overtaken = {} PROVE phase'[a] = "out" /\ Guarded(a)'
    OBVIOUS
  <2>2. phase[a] = "out"
    BY <1>1, <2>1, Here DEF Guarded, Taken
  <2>3. to # "none" => ~Taken(call'[a]) /\ call'[a].at # "enter"
    BY <1>2, <1>3, <1>4 DEF UserFunctions, Taken
  <2> QED
    BY <1>4, <1>5, <2>2, <2>3 DEF Guarded
<1>8. scheduled[x] \/ x \notin Range(timers)
  BY <1>1, <1>2, Here DEF FlagAgrees, UserFunctions, UserCallAgrees
<1>9. overtaken = {} => ~asserted'
  BY <1>1, <1>5, Here
<1>10. ASSUME a = TimerThread
       PROVE  /\ call'[a].fn # "none" => LoopCallAgrees(call[a])'
              /\ x = firing /\ repeats[x] => call'[a].fn = "expire" \/ x \notin Range(timers')
              /\ x = firing /\ loop = "fire" => fire'[x] = fire[x]
  <2>1. ASSUME to # "none" PROVE LoopCallAgrees(call[a])'
    <3>1. to = "guard" /\ call[a].fn # "invalidate" => x \notin Range(timers)
      BY <1>2, <1>3, <1>8 DEF UserFunctions
    <3>2. call[a].fn = "invalidate" => x \in stopped' /\ to = "guard"
      BY <1>3, <2>1
    <3> QED
      BY <1>4, <1>5, <2>1, <3>1, <3>2 DEF LoopCallAgrees, Late
  <2>2. x = firing /\ repeats[x] => x \notin Range(timers)
    BY <1>1, <1>2, <1>10, Here DEF UserFunctions
  <2> QED
    BY <1>4, <1>5, <2>1, <2>2
<1>11. ASSUME a \in Users
       PROVE  (call'[a].fn # "none" => UserCallAgrees(call[a])') /\ UserLeaves(a, x)
  <2>1. UserCallAgrees(call[a]) /\ call[a].fn = "schedule"
    BY <1>1, <1>11, Here, ActorsAre
  <2>2. to # "none" => to = "guard"
    BY <1>3, <2>1
  <2> QED
    BY <1>1, <1>2, <1>4, <1>5, <2>1, <2>2 DEF UserCallAgrees, UserLeaves, Late
<1>12. ASSUME x \notin stopped', repeats[x], Decided(x)', x # firing PROVE x \in Range(timers')
  <2>1. CASE a \in Users
    <3>1. call[a].fn = "schedule" /\ ~scheduled[x]
      BY <1>1, <1>2, <2>1, Here, ActorsAre DEF UserCallAgrees
    <3>2. call'[a].of = x /\ call'[a].at = "guard"
      BY <1>3, <1>4, <3>1
    <3> QED
      BY <1>12, <2>1, <3>2 DEF Decided, Late
  <2>2. CASE a = TimerThread
    <3>1. to = "none"
      BY <1>3, <1>4, <1>12, <2>2 DEF Decided
    <3>2. stopped' = stopped
      BY <1>2, <1>3, <3>1 DEF UserFunctions
    <3>3. Decided(x) /\ x \in started
      BY <1>1, <2>2, Here DEF Decided
    <3> QED
      BY <1>5, <1>12, <3>2, <3>3 DEF IInv, StaysInside
  <2> QED
    BY <2>1, <2>2, ActorsAre
<1>13. StepAgrees(a, x)
  BY <1>6, <1>7, <1>9, <1>10, <1>11, <1>12 DEF StepAgrees
<1> QED
  BY <1>4, <1>13, StepKeeps

\* The array after an insertion and a removal.
LEMMA AddSortedAdds ==
    ASSUME TypeInv, Sorted, NEW x \in Timers, x \notin Range(timers), AddSorted(x), UNCHANGED fire
    PROVE  Sorted' /\ \A y : y \in Range(timers') <=> y \in Range(timers) \/ y = x
<1> DEFINE n == Len(timers)
           later == {i \in DOMAIN timers : fire[x] < fire[timers[i]]}
<1>1. /\ timers \in Seq(Timers) /\ n \in Nat /\ DOMAIN timers = 1 .. n
      /\ \A i \in 1 .. n : timers[i] \in Timers
      /\ \A y \in Timers : fire[y] \in Nat
  BY DEF TypeInv, TypeOK
<1>2. PICK k \in 1 .. n + 1 :
          /\ timers' \in Seq(Timers) /\ Len(timers') = n + 1
          /\ \A j \in 1 .. n + 1 :
                 timers'[j] = IF j < k THEN timers[j] ELSE IF j = k THEN x ELSE timers[j - 1]
          /\ \A i \in 1 .. n : i < k => fire[timers[i]] <= fire[x]
          /\ \A i \in 1 .. n : i >= k => fire[x] <= fire[timers[i]]
  <2>1. timers' = IF later = {} THEN Append(timers, x) ELSE InsertAt(timers, Min(later), x)
    BY DEF AddSorted
  <2>2. CASE later = {}
    <3>1. /\ timers' \in Seq(Timers) /\ Len(timers') = n + 1 /\ timers'[n + 1] = x
          /\ \A j \in 1 .. n : timers'[j] = timers[j]
      BY <1>1, <2>1, <2>2
    <3>2. \A i \in 1 .. n : fire[timers[i]] <= fire[x]
      BY <1>1, <2>2
    <3> HIDE DEF n, later
    <3>3. n + 1 \in 1 .. n + 1
      BY <1>1
    <3> QED
      BY <1>1, <3>1, <3>2, <3>3
  <2>3. CASE later # {}
    <3>1. /\ later \in SUBSET Nat /\ \A i \in later : i \in 1 .. n /\ fire[x] < fire[timers[i]]
          /\ \A i \in 1 .. n : fire[x] < fire[timers[i]] => i \in later
      BY <1>1
    <3> HIDE DEF n, later
    <3>2. Min(later) \in later /\ \A i \in later : Min(later) <= i
      BY <2>3, <3>1, LeastNumber
    <3>3. PICK k \in 1 .. n : /\ k = Min(later) /\ fire[x] < fire[timers[k]]
                             /\ \A i \in later : k <= i
      BY <3>1, <3>2
    <3>4. \A i \in 1 .. n : fire[x] < fire[timers[i]] => k <= i
      BY <3>1, <3>3
    <3>5. timers' = InsertAt(timers, k, x)
      BY <2>1, <2>3, <3>3
    <3>6. ASSUME NEW i \in 1 .. n, i < k PROVE fire[timers[i]] <= fire[x]
      <4>1. fire[timers[i]] \in Nat /\ fire[x] \in Nat
        BY <1>1
      <4>2. ~ (k <= i)
        BY <3>6
      <4> QED
        BY <3>4, <4>1, <4>2
    <3>7. ASSUME NEW i \in 1 .. n, i >= k PROVE fire[x] <= fire[timers[i]]
      <4>1. i = k \/ k < i
        BY <3>7
      <4>2. fire[timers[k]] <= fire[timers[i]]
        BY <1>1, <4>1 DEF Sorted
      <4> QED
        BY <1>1, <3>3, <4>2
    <3>8. /\ InsertAt(timers, k, x) \in Seq(Timers) /\ Len(InsertAt(timers, k, x)) = n + 1
          /\ \A j \in 1 .. n + 1 : InsertAt(timers, k, x)[j] =
                 IF j < k THEN timers[j] ELSE IF j = k THEN x ELSE timers[j - 1]
      <4>1. timers \in Seq(Timers) /\ k \in 1 .. Len(timers) /\ Len(timers) = n
        BY <1>1 DEF n
      <4>2. \A s \in Seq(Timers) : \A q \in 1 .. Len(s) :
                /\ InsertAt(s, q, x) \in Seq(Timers) /\ Len(InsertAt(s, q, x)) = Len(s) + 1
                /\ \A j \in 1 .. Len(s) + 1 :
                       InsertAt(s, q, x)[j] = IF j < q THEN s[j] ELSE IF j = q THEN x ELSE s[j - 1]
        BY InsertAtInserts
      <4> QED
        BY <4>1, <4>2, Zenon
    <3>9. k \in 1 .. n + 1
      BY <1>1
    <3> QED
      BY <3>5, <3>6, <3>7, <3>8, <3>9
  <2> QED
    BY <2>2, <2>3
<1> HIDE DEF n, later
<1>3. DOMAIN timers' = 1 .. n + 1
  BY <1>2
<1>4. \A i \in 1 .. n : timers[i] # x
  BY <1>1 DEF Range
<1>5. Sorted'
  <2>1. SUFFICES ASSUME NEW i \in 1 .. n + 1, NEW j \in 1 .. n + 1, i < j
                 PROVE  timers'[i] # timers'[j] /\ fire[timers'[i]] <= fire[timers'[j]]
    BY <1>3 DEF Sorted
  <2>2. CASE j < k
    <3>1. i \in 1 .. n /\ j \in 1 .. n /\ i < k
      BY <1>1, <2>1, <2>2
    <3>2. timers'[i] = timers[i] /\ timers'[j] = timers[j]
      BY <1>2, <2>2, <3>1
    <3> QED
      BY <1>1, <2>1, <3>1, <3>2 DEF Sorted
  <2>3. CASE j = k
    BY <1>1, <1>2, <1>4, <2>1, <2>3
  <2>4. CASE i < k /\ j > k
    <3>1. j - 1 \in 1 .. n /\ i \in 1 .. n /\ i < j - 1
      BY <1>1, <2>1, <2>4
    <3>2. timers'[i] = timers[i] /\ timers'[j] = timers[j - 1]
      BY <1>2, <2>4
    <3> QED
      BY <1>1, <3>1, <3>2 DEF Sorted
  <2>5. CASE i = k
    <3>1. j - 1 \in 1 .. n /\ j - 1 >= k
      BY <1>1, <2>1, <2>5
    <3>2. timers'[i] = x /\ timers'[j] = timers[j - 1]
      BY <1>2, <2>1, <2>5
    <3> QED
      BY <1>2, <1>4, <3>1, <3>2
  <2>6. CASE i > k
    <3>1. j - 1 \in 1 .. n /\ i - 1 \in 1 .. n /\ i - 1 < j - 1
      BY <1>1, <2>1, <2>6
    <3>2. timers'[i] = timers[i - 1] /\ timers'[j] = timers[j - 1]
      BY <1>2, <2>1, <2>6
    <3> QED
      BY <1>1, <3>1, <3>2 DEF Sorted
  <2> QED
    BY <2>1, <2>2, <2>3, <2>4, <2>5, <2>6
<1>6. ASSUME NEW y PROVE y \in Range(timers') <=> y \in Range(timers) \/ y = x
  <2>1. ASSUME y \in Range(timers') PROVE y \in Range(timers) \/ y = x
    <3>1. PICK j \in 1 .. n + 1 : y = timers'[j]
      BY <1>3, <2>1 DEF Range
    <3>2. CASE j = k
      BY <1>2, <3>1, <3>2
    <3>3. CASE j < k
      <4>1. j \in 1 .. n /\ y = timers[j]
        BY <1>1, <1>2, <3>1, <3>3
      <4> QED
        BY <1>1, <4>1 DEF Range
    <3>4. CASE j > k
      <4>1. j - 1 \in 1 .. n /\ y = timers[j - 1]
        BY <1>1, <1>2, <3>1, <3>4
      <4> QED
        BY <1>1, <4>1 DEF Range
    <3> QED
      BY <1>1, <3>2, <3>3, <3>4
  <2>2. ASSUME y \in Range(timers) PROVE y \in Range(timers')
    <3>1. PICK i \in 1 .. n : y = timers[i]
      BY <1>1, <2>2 DEF Range
    <3>2. CASE i < k
      <4>1. i \in 1 .. n + 1 /\ timers'[i] = y
        BY <1>1, <1>2, <3>1, <3>2
      <4> QED
        BY <1>3, <4>1 DEF Range
    <3>3. CASE i >= k
      <4>1. i + 1 \in 1 .. n + 1 /\ ~ (i + 1 < k) /\ i + 1 # k /\ (i + 1) - 1 = i
        BY <1>1, <3>3
      <4>2. timers'[i + 1] = y
        BY <1>2, <3>1, <4>1
      <4> QED
        BY <1>3, <4>1, <4>2 DEF Range
    <3> QED
      BY <1>1, <3>2, <3>3
  <2>3. timers'[k] = x
    BY <1>2
  <2> QED
    BY <1>3, <2>1, <2>2, <2>3 DEF Range
<1> QED
  BY <1>5, <1>6

LEMMA RemoveFirstAbsent ==
    ASSUME TypeInv, NEW x \in Timers, x \notin Range(timers)
    PROVE  RemoveFirst(timers, x) = timers
<1>1. DOMAIN timers = 1 .. Len(timers)
  BY DEF TypeInv
<1>2. \A i \in 1 .. Len(timers) : timers[i] # x
  BY <1>1 DEF Range
<1> QED
  BY <1>2 DEF RemoveFirst

LEMMA RemoveFirstSorts ==
    ASSUME TypeInv, Sorted, NEW x \in Timers, x \in Range(timers),
           timers' = RemoveFirst(timers, x), UNCHANGED fire
    PROVE  Sorted' /\ \A y : y \in Range(timers') <=> y \in Range(timers) /\ y # x
<1> DEFINE n == Len(timers)
<1>1. /\ timers \in Seq(Timers) /\ n \in Nat /\ DOMAIN timers = 1 .. n
      /\ \A i \in 1 .. n : timers[i] \in Timers
  BY DEF TypeInv
<1>2. PICK k \in 1 .. n : timers[k] = x
  BY <1>1 DEF Range
<1>3. \A j \in 1 .. n : timers[j] = x => j = k
  BY <1>1, <1>2 DEF Sorted
<1>4. /\ timers' \in Seq(Timers) /\ Len(timers') = n - 1
      /\ \A j \in 1 .. n - 1 : timers'[j] = IF j < k THEN timers[j] ELSE timers[j + 1]
  <2>1. timers \in Seq(Timers) /\ k \in 1 .. Len(timers) /\ timers[k] = x
    BY <1>1, <1>2
  <2>2. \A j \in 1 .. Len(timers) : timers[j] = x => k <= j
    BY <1>2, <1>3
  <2> QED
    BY <2>1, <2>2, RemoveFirstRemoves
<1> HIDE DEF n
<1>5. DOMAIN timers' = 1 .. n - 1
  BY <1>1, <1>4
<1>6. Sorted'
  <2>1. SUFFICES ASSUME NEW i \in 1 .. n - 1, NEW j \in 1 .. n - 1, i < j
                 PROVE  timers'[i] # timers'[j] /\ fire[timers'[i]] <= fire[timers'[j]]
    BY <1>5 DEF Sorted
  <2>2. CASE j < k
    BY <1>1, <1>4, <2>1, <2>2 DEF Sorted
  <2>3. CASE i < k /\ j >= k
    <3>1. i \in 1 .. n /\ j + 1 \in 1 .. n /\ i < j + 1
      BY <1>1, <2>1, <2>3
    <3>2. timers'[i] = timers[i] /\ timers'[j] = timers[j + 1]
      BY <1>4, <2>3
    <3> QED
      BY <1>1, <3>1, <3>2 DEF Sorted
  <2>4. CASE i >= k
    <3>1. i + 1 \in 1 .. n /\ j + 1 \in 1 .. n /\ i + 1 < j + 1
      BY <1>1, <2>1, <2>4
    <3>2. timers'[i] = timers[i + 1] /\ timers'[j] = timers[j + 1]
      BY <1>4, <2>1, <2>4
    <3> QED
      BY <1>1, <3>1, <3>2 DEF Sorted
  <2> QED
    BY <1>1, <2>1, <2>2, <2>3, <2>4
<1>7. ASSUME NEW y PROVE y \in Range(timers') <=> y \in Range(timers) /\ y # x
  <2>1. ASSUME y \in Range(timers') PROVE y \in Range(timers) /\ y # x
    <3>1. PICK j \in 1 .. n - 1 : y = timers'[j]
      BY <1>5, <2>1 DEF Range
    <3>2. (j < k /\ j \in 1 .. n) \/ (j >= k /\ j + 1 \in 1 .. n)
      BY <1>1
    <3>3. PICK i \in 1 .. n : y = timers[i] /\ i # k
      BY <1>4, <3>1, <3>2
    <3> QED
      BY <1>1, <1>3, <3>3 DEF Range
  <2>2. ASSUME y \in Range(timers), y # x PROVE y \in Range(timers')
    <3>1. PICK i \in 1 .. n : y = timers[i]
      BY <1>1, <2>2 DEF Range
    <3>2. i # k
      BY <1>2, <2>2, <3>1
    <3>3. CASE i < k
      <4>1. i \in 1 .. n - 1 /\ timers'[i] = y
        BY <1>1, <1>4, <3>1, <3>3
      <4> QED
        BY <1>5, <4>1 DEF Range
    <3>4. CASE i > k
      <4>1. i - 1 \in 1 .. n - 1 /\ ~ (i - 1 < k) /\ (i - 1) + 1 = i
        BY <1>1, <3>4
      <4>2. timers'[i - 1] = y
        BY <1>4, <3>1, <4>1
      <4> QED
        BY <1>5, <4>1, <4>2 DEF Range
    <3> QED
      BY <1>1, <3>2, <3>3, <3>4
  <2> QED
    BY <2>1, <2>2
<1> QED
  BY <1>6, <1>7

LEMMA RemoveFirstSorted ==
    ASSUME TypeInv, Sorted, NEW x \in Timers, timers' = RemoveFirst(timers, x), UNCHANGED fire
    PROVE  Sorted' /\ \A y : y \in Range(timers') <=> y \in Range(timers) /\ y # x
<1>1. CASE x \in Range(timers)
  BY <1>1, RemoveFirstSorts
<1>2. CASE x \notin Range(timers)
  <2>1. timers' = timers
    BY <1>2, RemoveFirstAbsent
  <2> QED
    BY <1>2, <2>1 DEF Sorted
<1> QED
  BY <1>1, <1>2

\* A step that takes or gives back the lock, or passes it by in a callback.
LEMMA QuietStepKeeps ==
    ASSUME IInv, TypeInv', NEW a \in Actors, NEW x \in Timers, call[a].of = x,
           NEW to \in {"enter", "set", "remove", "none"}, Proceed(a, to),
           UNCHANGED <<now, timers, fields, locals, timed, ghosts, stopped>>,
           \A b \in Actors \ {a} : phase'[b] = phase[b],
           overtaken = {} => UNCHANGED asserted,
           to = "none" => call[a].at = "unguard",
           to # "none" => /\ call[a].at \in {"guard", "enter"}
                          /\ to \in {"enter", Body(a)}
                          /\ to = "enter" => ~incallback[x],
           a = TimerThread \/ overtaken = {} =>
               phase'[a] = IF to = "none" \/ incallback[x] THEN "out"
                           ELSE IF to = "enter" THEN "lock" ELSE "in"
    PROVE  IInv'
<1>1. /\ IsWhole(call[a]) /\ call[a].fn \in UserFunctions
      /\ call[a].at \in {"guard", "enter", "unguard"}
      /\ to # "none" => ~Late(call[a])
      /\ to = "none" => Late(call[a])
  BY Here DEF IsWhole, UserFunctions, Late
<1>2. /\ StepOf(a, x)
      /\ to = "none" => call'[a].fn = "none" /\ call'[a].at = "none" /\ call'[a].of = NoTimer
      /\ to # "none" => call'[a].fn = call[a].fn /\ call'[a].at = to /\ call'[a].of = x
  <2>1. to \in Steps \ {"check"}
    BY DEF Steps
  <2> QED
    BY <2>1, Framed DEF fields, locals, ghosts, counts
<1>3. UNCHANGED <<timers, scheduled, fire, incallback, repeats, firing, loop, overtaken, stopped>>
  BY DEF fields, ghosts, locals
<1>4. Sorted' /\ FlagAgrees(x)'
  <2>1. Sorted'
    BY <1>3 DEF Sorted, IInv
  <2> QED
    BY <1>1, <1>2, <1>3, <2>1, FlagStays DEF UserFunctions
<1>5. a = TimerThread \/ overtaken = {} => Guarded(a)' /\ (call'[a].fn = "none" => phase'[a] = "out")
  BY <1>1, <1>2, <1>3, SMTT(30) DEF Guarded, Taken, Body, UserFunctions
<1>6. overtaken = {} => ~asserted'
  BY Here
<1>7. to # "none" => to = "enter" \/ (to = "remove" <=> call[a].fn = "invalidate")
  BY DEF Body
<1>8. ASSUME a = TimerThread
      PROVE  /\ call'[a].fn # "none" => LoopCallAgrees(call[a])'
             /\ x = firing /\ repeats[x] => call'[a].fn = "expire" \/ x \notin Range(timers')
             /\ x = firing /\ loop = "fire" => fire'[x] = fire[x]
  <2>1. LoopCallAgrees(call[a])
    BY <1>8, Here
  <2>2. to # "none" => LoopCallAgrees(call[a])'
    BY <1>1, <1>2, <1>3, <1>7, <2>1, SMTT(30) DEF LoopCallAgrees, Late
  <2>3. x = firing /\ repeats[x] => x \notin Range(timers)
    BY <1>1, <1>8, Here DEF UserFunctions
  <2> QED
    BY <1>2, <1>3, <2>2, <2>3
<1>9. ASSUME a \in Users
      PROVE  (call'[a].fn # "none" => UserCallAgrees(call[a])') /\ UserLeaves(a, x)
  <2>1. UserCallAgrees(call[a])
    BY <1>9, Here, ActorsAre
  <2> QED
    BY <1>1, <1>2, <1>3, <2>1 DEF UserCallAgrees, UserLeaves, Late
<1>10. ASSUME x \notin stopped', repeats[x], Decided(x)', x # firing PROVE x \in Range(timers')
  <2>1. CASE a \in Users
    <3>1. to = "none"
      <4>1. to # "none" => ~Late(call'[a])
        BY <1>2 DEF Late
      <4> QED
        BY <1>2, <1>10, <2>1, <4>1 DEF Decided
    <3>2. Decided(x)
      <4>1. \A b \in Actors : b # a => call'[b] = call[b]
        BY <1>2 DEF StepOf
      <4>2. Late(call[a]) /\ a # TimerThread
        BY <1>1, <2>1, <3>1, ActorsAre
      <4> QED
        BY <1>10, <4>1, <4>2, ActorsAre DEF Decided
    <3> QED
      BY <1>3, <1>10, <3>2, Here DEF IInv, StaysInside
  <2>2. CASE a = TimerThread
    <3>1. to = "none"
      BY <1>2, <1>10, <2>2 DEF Decided
    <3>2. Late(call[a]) /\ LoopCallAgrees(call[a]) /\ call[a].at # "check"
      BY <1>1, <2>2, <3>1, Here
    <3> QED
      BY <1>3, <1>10, <3>2 DEF LoopCallAgrees
  <2> QED
    BY <2>1, <2>2, ActorsAre
<1>11. StepAgrees(a, x)
  BY <1>4, <1>5, <1>6, <1>8, <1>9, <1>10 DEF StepAgrees
<1> QED
  BY <1>2, <1>11, StepKeeps

LEMMA CheckLockKeeps ==
    ASSUME IInv, NEW a \in Actors, NEW x \in Timers, CheckLock(a, x), TypeInv'
    PROVE  IInv'
<1>1. /\ call[a].of = x /\ call[a].at = "guard"
      /\ UNCHANGED <<now, timers, fields, locals, ghosts, stopped>>
  BY DEF CheckLock, At
<1>2. Body(a) \in {"remove", "set"} /\ (a = TimerThread \/ overtaken = {} => phase[a] = "out")
  BY <1>1, Here DEF Guarded, Taken, Body
<1>3. CASE incallback[x]
  <2>1. Proceed(a, Body(a)) /\ UNCHANGED <<lock, asserted>>
    BY <1>3 DEF CheckLock
  <2> QED
    BY <1>1, <1>2, <1>3, <2>1, QuietStepKeeps DEF lock
<1>4. CASE ~incallback[x] /\ Lock!Request(a) /\ Proceed(a, "enter") /\ UNCHANGED asserted
  <2>1. phase'[a] = "lock" /\ UNCHANGED timed /\ \A b \in Actors \ {a} : phase'[b] = phase[b]
    BY <1>4 DEF Lock!Request, Lock!Move, IInv, TypeInv, TypeOK, Lock!TypeOK
  <2> QED
    BY <1>1, <1>4, <2>1, QuietStepKeeps
<1>5. CASE ~incallback[x] /\ phase[a] = "in" /\ Proceed(a, Body(a)) /\ UNCHANGED lock
  BY <1>1, <1>2, <1>5, QuietStepKeeps DEF lock
<1> QED
  BY <1>3, <1>4, <1>5 DEF CheckLock

LEMMA EnterKeeps ==
    ASSUME IInv, NEW a \in Actors, NEW x \in Timers, Enter(a, x), TypeInv'
    PROVE  IInv'
<1>1. /\ call[a].of = x /\ call[a].at = "enter" /\ Lock!Enter(a) /\ Proceed(a, Body(a))
      /\ UNCHANGED <<now, timers, fields, locals, ghosts, stopped, asserted>>
  BY DEF Enter, At
<1>2. Body(a) \in {"remove", "set"} /\ (a = TimerThread \/ overtaken = {} => ~incallback[x])
  BY <1>1, Here DEF Guarded, Body
<1>3. phase'[a] = "in" /\ UNCHANGED timed /\ \A b \in Actors \ {a} : phase'[b] = phase[b]
  BY <1>1 DEF Lock!Enter, Lock!Move, IInv, TypeInv, TypeOK, Lock!TypeOK
<1> QED
  BY <1>1, <1>2, <1>3, QuietStepKeeps

LEMMA CheckUnlockKeeps ==
    ASSUME IInv, NEW a \in Actors, NEW x \in Timers, CheckUnlock(a, x), TypeInv'
    PROVE  IInv'
<1>1. /\ call[a].of = x /\ call[a].at = "unguard" /\ Proceed(a, "none")
      /\ UNCHANGED <<now, timers, fields, locals, ghosts, stopped>>
  BY DEF CheckUnlock, At
<1>2. a = TimerThread \/ overtaken = {} => phase[a] = IF incallback[x] THEN "out" ELSE "in"
  BY <1>1, Here DEF Guarded, Taken
<1>3. CASE incallback[x] /\ UNCHANGED <<lock, asserted>>
  BY <1>1, <1>2, <1>3, QuietStepKeeps DEF lock
<1>4. CASE ~incallback[x] /\ phase[a] # "in" /\ UNCHANGED lock
  BY <1>1, <1>2, <1>4, QuietStepKeeps DEF lock
<1>5. CASE ~incallback[x] /\ Lock!LeaveWith(a, 1) /\ UNCHANGED asserted
  <2>1. phase'[a] = "out" /\ UNCHANGED timed /\ \A b \in Actors \ {a} : phase'[b] = phase[b]
    BY <1>5 DEF Lock!LeaveWith, Lock!Move, IInv, TypeInv, TypeOK, Lock!TypeOK
  <2> QED
    BY <1>1, <1>5, <2>1, QuietStepKeeps
<1> QED
  BY <1>3, <1>4, <1>5 DEF CheckUnlock

\* The fire date of a timer that is not in the array.
LEMMA SetFireKeeps ==
    ASSUME IInv, NEW a \in Actors, NEW x \in Timers, SetFire(a, x), TypeInv'
    PROVE  IInv'
<1>1. /\ call[a].of = x /\ call[a].at = "set" /\ Proceed(a, "insert")
      /\ fire' = [fire EXCEPT ![x] = now + interval[x]]
      /\ UNCHANGED <<now, timers, interval, repeats, scheduled, incallback, lock, locals,
                     ghosts, stopped, asserted>>
  BY DEF SetFire, At
<1>2. /\ call[a].fn \in {"schedule", "reschedule", "repeat"} /\ x \notin Range(timers)
      /\ ~Late(call[a])
  BY <1>1, Here DEF IsWhole, LoopCallAgrees, UserCallAgrees, Late
<1>3. \A y \in Timers \ {x} : fire'[y] = fire[y]
  BY <1>1 DEF IInv, TypeInv, TypeOK
<1>4. StepOf(a, x) /\ call'[a].fn = call[a].fn /\ call'[a].at = "insert" /\ call'[a].of = x
  <2>1. "insert" \in Steps \ {"check"}
    BY DEF Steps
  <2> QED
    BY <1>1, <1>3, <2>1, Framed DEF lock, locals, ghosts, counts
<1>5. UNCHANGED <<timers, scheduled, incallback, phase, asserted, loop, overtaken, stopped>>
  BY <1>1 DEF lock, locals, ghosts
<1>6. Sorted' /\ FlagAgrees(x)'
  <2>1. \A i \in DOMAIN timers : timers[i] \in Timers \ {x}
    BY <1>2 DEF IInv, TypeInv, TypeOK, Range
  <2>2. Sorted'
    BY <1>3, <1>5, <2>1 DEF IInv, Sorted
  <2> QED
    BY <1>1, <1>2, <1>4, <1>5, <2>2, FlagStays
<1>7. a = TimerThread \/ overtaken = {} => Guarded(a)'
  BY <1>1, <1>2, <1>4, <1>5, Here DEF Guarded, Taken
<1>8. overtaken = {} => ~asserted'
  BY <1>1, <1>5, Here
<1>9. ASSUME a = TimerThread
      PROVE  /\ LoopCallAgrees(call[a])' /\ ~(x = firing /\ repeats[x])
             /\ ~(x = firing /\ loop = "fire")
  <2>1. ~(x = firing /\ repeats[x])
    BY <1>1, <1>2, <1>9, Here
  <2>2. loop = "fire" => call[a].fn \in {"none", "expire"}
    BY <1>9 DEF IInv, LoopIsPlaced, TypeInv, CallsAreWhole, IsWhole, UserFunctions
  <2> QED
    BY <1>2, <1>4, <1>5, <2>1, <2>2 DEF LoopCallAgrees, Late
<1>10. ASSUME a \in Users PROVE UserCallAgrees(call[a])' /\ UserLeaves(a, x)
  <2>1. UserCallAgrees(call[a])
    BY <1>1, <1>10, Here, ActorsAre
  <2> QED
    BY <1>1, <1>2, <1>4, <1>5, <2>1 DEF UserCallAgrees, UserLeaves, Late
<1>11. ~Decided(x)'
  BY <1>4, ActorsAre DEF Decided, Late
<1>12. call'[a].fn # "none"
  BY <1>2, <1>4
<1>13. StepAgrees(a, x)
  BY <1>6, <1>7, <1>8, <1>9, <1>10, <1>11, <1>12 DEF StepAgrees
<1> QED
  BY <1>4, <1>13, StepKeeps

LEMMA InsertKeeps ==
    ASSUME IInv, NEW a \in Actors, NEW x \in Timers, Insert(a, x), TypeInv'
    PROVE  IInv'
<1>1. /\ call[a].of = x /\ call[a].at = "insert" /\ Proceed(a, "mark") /\ AddSorted(x)
      /\ UNCHANGED <<now, fields, lock, locals, ghosts, stopped, asserted>>
  BY DEF Insert, At
<1>2. /\ call[a].fn \in {"schedule", "reschedule", "repeat"} /\ x \notin Range(timers)
      /\ ~Late(call[a]) /\ x \in started
  BY <1>1, Here DEF IsWhole, LoopCallAgrees, UserCallAgrees, Late
<1>3. Sorted' /\ \A y : y \in Range(timers') <=> y \in Range(timers) \/ y = x
  BY <1>1, <1>2, AddSortedAdds DEF IInv, fields
<1>4. StepOf(a, x) /\ call'[a].fn = call[a].fn /\ call'[a].at = "mark" /\ call'[a].of = x
  <2>1. "mark" \in Steps \ {"check"}
    BY DEF Steps
  <2> QED
    BY <1>1, <1>3, <2>1, Framed DEF fields, lock, locals, ghosts, counts
<1>5. UNCHANGED <<scheduled, fire, incallback, phase, asserted, loop, started, overtaken, stopped>>
  BY <1>1 DEF fields, lock, locals, ghosts, counts
<1>6. FlagAgrees(x)'
  <2>1. a \in Users => x \notin overtaken
    BY <1>1, <1>2, Here, ActorsAre DEF UserCallAgrees
  <2>2. x \in Range(timers')
    BY <1>3
  <2> QED
    BY <1>2, <1>4, <1>5, <2>1, <2>2, ActorsAre DEF FlagAgrees
<1>7. a = TimerThread \/ overtaken = {} => Guarded(a)'
  BY <1>1, <1>2, <1>4, <1>5, Here DEF Guarded, Taken
<1>8. overtaken = {} => ~asserted'
  BY <1>1, <1>5, Here
<1>9. ASSUME a = TimerThread PROVE LoopCallAgrees(call[a])' /\ ~(x = firing /\ repeats[x])
  <2>1. ~(x = firing /\ repeats[x])
    BY <1>1, <1>2, <1>9, Here
  <2> QED
    BY <1>2, <1>3, <1>4, <2>1 DEF LoopCallAgrees, Late
<1>10. ASSUME a \in Users PROVE UserCallAgrees(call[a])' /\ UserLeaves(a, x)
  BY <1>2, <1>3, <1>4, <1>5 DEF UserCallAgrees, UserLeaves, Late
<1>11. call'[a].fn # "none"
  BY <1>2, <1>4
<1>12. StepAgrees(a, x)
  BY <1>3, <1>5, <1>6, <1>7, <1>8, <1>9, <1>10, <1>11 DEF StepAgrees
<1> QED
  BY <1>4, <1>12, StepKeeps

LEMMA MarkKeeps ==
    ASSUME IInv, NEW a \in Actors, NEW x \in Timers, Mark(a, x), TypeInv'
    PROVE  IInv'
<1>1. /\ call[a].of = x /\ call[a].at = "mark"
      /\ scheduled' = [scheduled EXCEPT ![x] = TRUE]
      /\ UNCHANGED <<now, timers, interval, repeats, incallback, fire, lock, locals, ghosts,
                     stopped, asserted>>
  BY DEF Mark, At
<1>2. /\ call[a].fn \in {"schedule", "reschedule", "repeat"} /\ Late(call[a])
      /\ x \in started /\ (x \in Range(timers) \/ x \in overtaken)
      /\ a = TimerThread => x \in Range(timers)
  BY <1>1, Here DEF IsWhole, LoopCallAgrees, UserCallAgrees, Late
<1>3. PICK to \in {"none", "unguard"} :
          Proceed(a, to) /\ to = IF call[a].fn = "repeat" THEN "none" ELSE "unguard"
  BY DEF Mark
<1>4. scheduled'[x] /\ \A y \in Timers \ {x} : scheduled'[y] = scheduled[y]
  BY <1>1 DEF IInv, TypeInv, TypeOK
<1>5. /\ StepOf(a, x)
      /\ to = "none" => call'[a].fn = "none" /\ call'[a].at = "none" /\ call'[a].of = NoTimer
      /\ to # "none" => call'[a].fn = call[a].fn /\ call'[a].at = to /\ call'[a].of = x
  <2>1. to \in Steps \ {"check"}
    BY DEF Steps
  <2>2. Proceed(a, to)
    BY <1>3
  <2>3. /\ UNCHANGED <<now, interval, repeats, incallback, timed, timer, firing, deadline, started,
                       overtaken>>
        /\ UNCHANGED loop /\ \A b \in Actors \ {a} : phase'[b] = phase[b]
    BY <1>1 DEF lock, locals, ghosts, counts
  <2>4. \A y \in Timers \ {x} : /\ y \in Range(timers') <=> y \in Range(timers)
                                /\ scheduled'[y] = scheduled[y] /\ fire'[y] = fire[y]
                                /\ y \in stopped' <=> y \in stopped
    BY <1>1, <1>4
  <2> QED
    BY <1>1, <2>1, <2>2, <2>3, <2>4, Framed
<1>6. /\ UNCHANGED <<timers, fire, incallback, repeats, phase, asserted, loop, firing>>
      /\ UNCHANGED <<started, overtaken, stopped>>
  BY <1>1 DEF lock, locals, ghosts, counts
<1>7. Sorted' /\ FlagAgrees(x)'
  BY <1>2, <1>4, <1>6 DEF IInv, Sorted, FlagAgrees
<1>8. a = TimerThread \/ overtaken = {} => Guarded(a)' /\ (call'[a].fn = "none" => phase'[a] = "out")
  <2>1. SUFFICES ASSUME a = TimerThread \/ overtaken = {}
                 PROVE  Guarded(a)' /\ (call'[a].fn = "none" => phase'[a] = "out")
    OBVIOUS
  <2>2. Guarded(a)
    BY <1>1, <2>1, Here
  <2> QED
    BY <1>1, <1>2, <1>3, <1>5, <1>6, <2>2 DEF Guarded, Taken
<1>9. overtaken = {} => ~asserted'
  BY <1>1, <1>6, Here
<1>10. ASSUME a = TimerThread
       PROVE  /\ call'[a].fn # "none" => LoopCallAgrees(call[a])'
              /\ ~(x = firing /\ repeats[x]) /\ fire'[x] = fire[x]
  <2>1. ~(x = firing /\ repeats[x])
    BY <1>1, <1>2, <1>10, Here
  <2> QED
    BY <1>2, <1>5, <1>6, <1>10, <2>1 DEF LoopCallAgrees, Late
<1>11. ASSUME a \in Users
       PROVE  (call'[a].fn # "none" => UserCallAgrees(call[a])') /\ UserLeaves(a, x)
  BY <1>2, <1>5, <1>6 DEF UserCallAgrees, UserLeaves, Late
<1>12. ASSUME x \notin stopped', repeats[x], Decided(x)', x # firing PROVE x \in Range(timers')
  <2>1. CASE a = TimerThread
    BY <1>2, <1>6, <2>1
  <2>2. CASE a \in Users
    <3>1. \A b \in Actors : b # a => call'[b] = call[b]
      BY <1>5 DEF StepOf
    <3>2. Decided(x)
      BY <1>2, <1>12, <2>2, <3>1, ActorsAre DEF Decided
    <3> QED
      BY <1>2, <1>6, <1>12, <3>2 DEF IInv, StaysInside
  <2> QED
    BY <2>1, <2>2, ActorsAre
<1>13. StepAgrees(a, x)
  BY <1>7, <1>8, <1>9, <1>10, <1>11, <1>12 DEF StepAgrees
<1> QED
  BY <1>5, <1>13, StepKeeps

\* Only the timer thread takes timers out of the array.
LEMMA RemoveDataKeeps ==
    ASSUME IInv, NEW a \in Actors, NEW x \in Timers, RemoveData(a, x), TypeInv'
    PROVE  IInv'
<1>1. /\ call[a].of = x /\ call[a].at = "remove" /\ Proceed(a, "unmark")
      /\ timers' = RemoveFirst(timers, x)
      /\ UNCHANGED <<now, fields, lock, locals, ghosts, stopped, asserted>>
  BY DEF RemoveData, At
<1>2. /\ call[a].fn \in {"reschedule", "invalidate", "expire"}
      /\ a = TimerThread /\ a \notin Users /\ x \in started /\ LoopCallAgrees(call[a])
  BY <1>1, Here, ActorsAre DEF IsWhole
<1>3. Sorted' /\ \A y : y \in Range(timers') <=> y \in Range(timers) /\ y # x
  BY <1>1, <1>2, RemoveFirstSorted DEF IInv, fields
<1>4. StepOf(a, x) /\ call'[a].fn = call[a].fn /\ call'[a].at = "unmark" /\ call'[a].of = x
  <2>1. "unmark" \in Steps \ {"check"}
    BY DEF Steps
  <2> QED
    BY <1>1, <1>3, <2>1, Framed DEF fields, lock, locals, ghosts, counts
<1>5. UNCHANGED <<scheduled, fire, incallback, phase, asserted, loop, started, overtaken, stopped>>
  BY <1>1 DEF fields, lock, locals, ghosts, counts
<1>6. LoopCallAgrees(call[a])' /\ FlagAgrees(x)'
  BY <1>1, <1>2, <1>3, <1>4, <1>5 DEF LoopCallAgrees, FlagAgrees, Late
<1>7. Guarded(a)'
  BY <1>1, <1>2, <1>4, <1>5, Here DEF Guarded, Taken
<1>8. overtaken = {} => ~asserted'
  BY <1>1, <1>5, Here
<1>9. ~Decided(x)' /\ call'[a].fn # "none" /\ x \notin Range(timers') /\ fire'[x] = fire[x]
  BY <1>2, <1>3, <1>4, <1>5 DEF Decided
<1>10. StepAgrees(a, x)
  BY <1>2, <1>3, <1>6, <1>7, <1>8, <1>9 DEF StepAgrees
<1> QED
  BY <1>4, <1>10, StepKeeps

LEMMA UnmarkKeeps ==
    ASSUME IInv, NEW a \in Actors, NEW x \in Timers, Unmark(a, x), TypeInv'
    PROVE  IInv'
<1>1. /\ call[a].of = x /\ call[a].at = "unmark"
      /\ scheduled' = [scheduled EXCEPT ![x] = FALSE]
      /\ UNCHANGED <<now, timers, interval, repeats, incallback, fire, lock, locals, ghosts,
                     stopped, asserted>>
  BY DEF Unmark, At
<1>2. /\ call[a].fn \in {"reschedule", "invalidate", "expire"} /\ x \notin Range(timers)
      /\ a = TimerThread /\ a \notin Users /\ x \in started
      /\ call[a].fn = "invalidate" => x \in stopped
  BY <1>1, Here, ActorsAre DEF IsWhole, LoopCallAgrees
<1>3. call[a].fn = "expire" => x = firing
  BY <1>1, <1>2 DEF IInv, LoopIsPlaced
<1>4. PICK to \in {"none", "guard", "unguard"} :
          /\ Proceed(a, to)
          /\ to = "none" <=> call[a].fn = "expire"
          /\ to = "guard" <=> call[a].fn = "reschedule"
          /\ to = "unguard" <=> call[a].fn = "invalidate"
  BY <1>2 DEF Unmark
<1>5. ~scheduled'[x] /\ \A y \in Timers \ {x} : scheduled'[y] = scheduled[y]
  BY <1>1 DEF IInv, TypeInv, TypeOK
<1>6. /\ StepOf(a, x)
      /\ to = "none" => call'[a].fn = "none" /\ call'[a].at = "none" /\ call'[a].of = NoTimer
      /\ to # "none" => call'[a].fn = call[a].fn /\ call'[a].at = to /\ call'[a].of = x
  <2>1. to \in Steps \ {"check"}
    BY DEF Steps
  <2> QED
    BY <1>1, <1>4, <1>5, <2>1, Framed DEF lock, locals, ghosts, counts
<1>7. UNCHANGED <<timers, fire, incallback, phase, asserted, loop, started, overtaken, stopped>>
  BY <1>1 DEF lock, locals, ghosts, counts
<1>8. Sorted' /\ FlagAgrees(x)'
  BY <1>2, <1>5, <1>7 DEF IInv, Sorted, FlagAgrees
<1>9. to # "none" => LoopCallAgrees(call[a])'
  BY <1>1, <1>2, <1>4, <1>6, <1>7 DEF LoopCallAgrees, Late
<1>10. Guarded(a)' /\ (call'[a].fn = "none" => phase'[a] = "out")
  <2>1. Guarded(a)
    BY <1>1, <1>2, Here
  <2>2. call[a].fn = "expire" => ~incallback[x]
    BY <1>2 DEF IInv, LoopIsPlaced
  <2> QED
    BY <1>1, <1>2, <1>4, <1>6, <1>7, <2>1, <2>2, SMTT(30) DEF Guarded, Taken
<1>11. overtaken = {} => ~asserted'
  BY <1>1, <1>7, Here
<1>12. x \notin stopped' /\ repeats[x] /\ Decided(x)' => x = firing
  <2>1. to # "none" => ~Decided(x)'
    BY <1>2, <1>6 DEF Decided
  <2> QED
    BY <1>3, <1>4, <2>1
<1>13. StepAgrees(a, x)
  BY <1>2, <1>6, <1>7, <1>8, <1>9, <1>10, <1>11, <1>12 DEF StepAgrees
<1> QED
  BY <1>6, <1>13, StepKeeps

LEMMA CallStepKeeps == ASSUME IInv, NEW a \in Actors, CallStep(a) PROVE IInv'
<1>1. TypeInv'
  BY CallStepTypes DEF IInv
<1> QED
  BY <1>1, CheckScheduledKeeps, CheckLockKeeps, EnterKeeps, SetFireKeeps, InsertKeeps,
     MarkKeeps, RemoveDataKeeps, UnmarkKeeps, CheckUnlockKeeps DEF CallStep

-----------------------------------------------------------------------------
(* The steps of the loop *)

\* Between its calls the timer thread is at its place in the loop.
LEMMA AtLoop ==
    ASSUME IInv, NEW from, LoopAt(from)
    PROVE  /\ loop = from /\ call[TimerThread].fn = "none" /\ call[TimerThread].of = NoTimer
           /\ call[TimerThread].at = "none" /\ ~asserted
           /\ from = "wait" => phase[TimerThread] \in {"when", "asleep"}
           /\ from = "locked" => phase[TimerThread] = "in"
           /\ from \notin {"wait", "locked"} => phase[TimerThread] = "out"
           /\ from \notin FiringPlaces => firing = NoTimer
           /\ from \in FiringPlaces => firing \in Timers /\ firing \in started
           /\ \A x \in Timers : incallback[x] <=> from = "callback" /\ x = firing
<1>1. loop = from /\ call[TimerThread] = NoCall /\ ~asserted
  BY DEF LoopAt, Running
<1>2. /\ from = "wait" => phase[TimerThread] \in {"when", "asleep"}
      /\ from = "locked" => phase[TimerThread] = "in"
      /\ from \notin {"wait", "locked"} => phase[TimerThread] = "out"
  BY <1>1, NoCallIs DEF IInv, LockIsTaken
<1>3. /\ from \notin FiringPlaces => firing = NoTimer
      /\ from \in FiringPlaces => firing \in Timers /\ firing \in started
      /\ \A x \in Timers : incallback[x] <=> from = "callback" /\ x = firing
  BY <1>1 DEF IInv, LoopIsPlaced, TypeInv, CallsAreWhole
<1> QED
  BY <1>1, <1>2, <1>3, NoCallIs

\* The first timer of the array is the first to be due; a call on it is past the insertion.
LEMMA FirstIsFirst ==
    ASSUME IInv, First # NoTimer
    PROVE  /\ First \in Timers /\ First \in Range(timers) /\ First \in started
           /\ \A x \in Range(timers) : fire[First] <= fire[x]
           /\ \A u \in Users : call[u].of = First => Late(call[u])
<1>1. /\ timers \in Seq(Timers) /\ timers # <<>> /\ First = timers[1] /\ First \in Timers
      /\ \A x \in Timers : fire[x] \in Nat
  BY FirstIsTimer DEF IInv, TypeInv, TypeOK
<1>2. First \in Range(timers) /\ First \in started
  <2>1. 1 \in DOMAIN timers
    BY <1>1
  <2> QED
    BY <1>1, <2>1 DEF Range, IInv, MembersAgree, FlagAgrees
<1>3. ASSUME NEW x \in Range(timers) PROVE fire[First] <= fire[x]
  <2>1. PICK i \in 1 .. Len(timers) : x = timers[i]
    BY <1>1 DEF Range
  <2>2. x \in Timers /\ (i = 1 \/ 1 < i) /\ 1 \in DOMAIN timers /\ i \in DOMAIN timers
    BY <1>1, <2>1
  <2> QED
    BY <1>1, <2>1, <2>2 DEF IInv, Sorted
<1>4. ASSUME NEW u \in Users, call[u].of = First PROVE Late(call[u])
  <2>1. call[u].fn # "none"
    BY <1>1, <1>4, WholeCalls, ActorsAre DEF IInv
  <2> QED
    BY <1>2, <1>4, <2>1 DEF IInv, MembersAgree, UserCallAgrees
<1> QED
  BY <1>1, <1>2, <1>3, <1>4

\* What a step leaves of a lock that the other threads may have.
LEMMA LocksStay ==
    ASSUME IInv, UNCHANGED <<incallback, asserted>>, overtaken' = {} => overtaken = {},
           \A u \in Users : phase'[u] = phase[u] /\ call'[u] = call[u]
    PROVE  overtaken' = {} =>
               /\ ~asserted'
               /\ \A u \in Users : Guarded(u)' /\ (call'[u].fn = "none" => phase'[u] = "out")
<1>1. \A u \in Users : Guarded(u)' <=> Guarded(u)
  BY DEF Guarded, Taken
<1> QED
  BY <1>1 DEF IInv, LockIsTaken

\* A step that neither begins a call nor fires.
LEMMA IdleStepKeeps ==
    ASSUME IInv, TypeInv', NEW from \in {"look", "wait", "locked", "late"}, LoopAt(from),
           loop' \in {"look", "wait", "locked", "late"}, TimesAgree',
           CASE loop' = "wait"   -> phase'[TimerThread] \in {"when", "asleep"}
             [] loop' = "locked" -> phase'[TimerThread] = "in"
             [] OTHER            -> phase'[TimerThread] = "out",
           \A b \in Actors \ {TimerThread} : phase'[b] = phase[b],
           UNCHANGED <<timers, fields, firing, call, started, overtaken, stopped, asserted>>
    PROVE  IInv'
<1>1. call[TimerThread].fn = "none" /\ firing = NoTimer /\ TimerThread \notin Users
      /\ from \notin FiringPlaces /\ loop' \notin FiringPlaces /\ from # "callback"
      /\ loop' # "callback" /\ \A x \in Timers : ~incallback[x]
  BY AtLoop, ActorsAre DEF FiringPlaces
<1>2. CallsAreApart'
  BY DEF IInv, CallsAreApart
<1>3. LoopIsPlaced'
  BY <1>1 DEF LoopIsPlaced, fields, UserFunctions
<1>4. LockIsTaken'
  <2>1. \A u \in Users : phase'[u] = phase[u] /\ call'[u] = call[u]
    BY ActorsAre
  <2>2. Guarded(TimerThread)'
    BY <1>1 DEF Guarded
  <2> QED
    BY <1>1, <2>1, <2>2, LocksStay DEF LockIsTaken, fields
<1>5. Sorted' /\ StaysInside'
  BY DEF IInv, Sorted, StaysInside, Decided, fields
<1>6. MembersAgree'
  BY DEF IInv, MembersAgree, LoopCallAgrees, UserCallAgrees, FlagAgrees, fields
<1>7. FiredIsOut'
  BY <1>1 DEF FiredIsOut
<1> QED
  BY <1>2, <1>3, <1>4, <1>5, <1>6, <1>7 DEF IInv

\* A call that begins on a timer on which only late calls of users are, or none.
LEMMA BegunIsApart ==
    ASSUME IInv, NEW a \in Actors, NEW fn \in Calls \ {"none"}, NEW x \in Timers,
           NEW at \in Steps \ {"mark", "unguard"}, Begin(a, fn, x, at), call[a].fn = "none",
           a = TimerThread => \A u \in Users : call[u].of = x => x \in overtaken /\ Late(call[u]),
           a \in Users => /\ fn = "schedule" /\ \A b \in Actors : call[b].of # x
                          /\ x # firing /\ x \notin Range(timers) /\ ~scheduled[x]
                          /\ x \notin overtaken,
           x \in started', started \subseteq started', firing' \in {firing, NoTimer},
           a = TimerThread => LoopCallAgrees(call[a])',
           UNCHANGED <<timers, scheduled, stopped, overtaken>>
    PROVE  /\ CallsAreApart' /\ MembersAgree'
           /\ call'[a].fn = fn /\ call'[a].of = x /\ call'[a].at = at
           /\ \A b \in Actors \ {a} : call'[b] = call[b]
           /\ \A y \in Timers : Decided(y)' => Decided(y)
<1>1. /\ call'[a].fn = fn /\ call'[a].of = x /\ call'[a].at = at
      /\ \A b \in Actors \ {a} : call'[b] = call[b]
  BY Beginning DEF IInv
<1>2. call[a].of = NoTimer /\ call[a].at = "none" /\ x # NoTimer /\ ~Late(call'[a])
  BY <1>1, WholeCalls, ActorsAre DEF IInv, Late
<1>3. CallsAreApart'
  <2>1. ASSUME NEW u \in Users, call'[u].of # NoTimer,
               call'[u].of \in {firing', call'[TimerThread].of}
        PROVE  call'[u].of \in overtaken' /\ Late(call'[u])
    <3>1. u # a
      <4>1. SUFFICES ASSUME u = a PROVE FALSE
        OBVIOUS
      <4>2. call'[a].of = x /\ a \in Users /\ a # TimerThread
        BY <1>1, <2>1, <4>1, ActorsAre
      <4>3. call'[TimerThread] = call[TimerThread]
        BY <1>1, <4>2, ActorsAre
      <4> QED
        BY <1>2, <2>1, <4>1, <4>2, <4>3, ActorsAre
    <3>2. call'[u] = call[u]
      BY <1>1, <3>1, ActorsAre
    <3>3. CASE call[u].of \in {firing, call[TimerThread].of}
      BY <2>1, <3>2, <3>3, UsersAreLate
    <3>4. CASE a = TimerThread /\ call[u].of = x
      BY <3>2, <3>4
    <3>5. call[u].of \in {firing, call[TimerThread].of} \/ (a = TimerThread /\ call[u].of = x)
      BY <1>1, <2>1, <3>2, ActorsAre
    <3> QED
      BY <3>3, <3>4, <3>5
  <2>2. \A u, v \in Users : call'[u].of = call'[v].of /\ call'[u].of # NoTimer => u = v
    BY <1>1, <1>2, ActorsAre DEF IInv, CallsAreApart
  <2>3. /\ \A u \in Users : call'[u].fn \in {"none", "schedule"}
        /\ \A b \in Actors : call'[b].of # NoTimer => call'[b].of \in started'
    BY <1>1, ActorsAre DEF IInv, CallsAreApart
  <2> QED
    BY <2>1, <2>2, <2>3 DEF CallsAreApart
<1>4. MembersAgree'
  <2>1. ASSUME call'[TimerThread].fn # "none" PROVE LoopCallAgrees(call[TimerThread])'
    <3>1. CASE a = TimerThread
      BY <3>1
    <3>2. CASE a # TimerThread
      <4>1. call'[TimerThread] = call[TimerThread] /\ LoopCallAgrees(call[TimerThread])
        BY <1>1, <2>1, <3>2, ActorsAre DEF IInv, MembersAgree
      <4> QED
        BY <4>1 DEF LoopCallAgrees, Late
    <3> QED
      BY <3>1, <3>2
  <2>2. ASSUME NEW u \in Users, call'[u].fn # "none" PROVE UserCallAgrees(call[u])'
    <3>1. CASE u = a
      BY <1>1, <1>2, <3>1 DEF UserCallAgrees, Late
    <3>2. CASE u # a
      <4>1. call'[u] = call[u] /\ UserCallAgrees(call[u])
        BY <1>1, <2>2, <3>2, ActorsAre DEF IInv, MembersAgree
      <4> QED
        BY <4>1 DEF UserCallAgrees, Late
    <3> QED
      BY <3>1, <3>2
  <2>3. ASSUME NEW y \in Timers PROVE FlagAgrees(y)'
    <3>1. FlagAgrees(y) /\ y # NoTimer
      BY ActorsAre DEF IInv, MembersAgree
    <3>2. \A b \in Actors : call[b].of = y => call'[b] = call[b]
      BY <1>1, <1>2, <3>1
    <3> QED
      BY <3>1, <3>2, ActorsAre DEF FlagAgrees
  <2> QED
    BY <2>1, <2>2, <2>3 DEF MembersAgree
<1>5. ASSUME NEW y \in Timers, Decided(y)' PROVE Decided(y)
  <2>1. \A b \in Actors : call[b].of = y => call'[b] = call[b]
    BY <1>1, <1>2, ActorsAre
  <2> QED
    BY <1>5, <2>1, ActorsAre DEF Decided, Late
<1> QED
  BY <1>1, <1>3, <1>4, <1>5

LEMMA ExpireKeeps ==
    ASSUME IInv, TypeInv', NEW from \in {"look", "locked", "late"}, LoopAt(from),
           First # NoTimer, Due(First), Expire(First), timer' # NoTimer,
           phase'[TimerThread] = "out", \A b \in Actors \ {TimerThread} : phase'[b] = phase[b],
           UNCHANGED <<now, timers, fields, started, stopped, asserted>>
    PROVE  IInv'
<1> DEFINE x == First
<1>1. /\ x \in Timers /\ x \in started /\ x \in Range(timers) /\ x # NoTimer
      /\ call[TimerThread].fn = "none" /\ call[TimerThread].of = NoTimer /\ firing = NoTimer
      /\ \A u \in Users : call[u].of = x => Late(call[u])
      /\ \A y \in Timers : ~incallback[y]
      /\ firing' = x /\ loop' = "fire" /\ Begin(TimerThread, "expire", x, "remove")
      /\ "expire" \in Calls /\ "remove" \in Steps
  BY AtLoop, FirstIsFirst DEF Expire, FiringPlaces, Calls, Steps
<1>2. /\ \A u \in Users : call[u].of = x => x \in overtaken'
      /\ overtaken \subseteq overtaken' /\ overtaken' \subseteq overtaken \cup {x}
  BY DEF Expire, InCall
<1> HIDE DEF x
<1>3. /\ call'[TimerThread].fn = "expire" /\ call'[TimerThread].of = x
      /\ call'[TimerThread].at = "remove"
      /\ \A b \in Actors \ {TimerThread} : call'[b] = call[b]
      /\ \A u \in Users : call'[u] = call[u] /\ phase'[u] = phase[u]
  BY <1>1, Beginning, ActorsAre DEF IInv
<1>4. UNCHANGED <<scheduled, fire, incallback, repeats>>
  BY DEF fields
<1>5. CallsAreApart'
  BY <1>1, <1>2, <1>3, ActorsAre DEF IInv, CallsAreApart
<1>6. MembersAgree'
  <2>1. LoopCallAgrees(call[TimerThread])'
    BY <1>3 DEF LoopCallAgrees, Late
  <2>2. ASSUME NEW u \in Users, call'[u].fn # "none" PROVE UserCallAgrees(call[u])'
    <3>1. call'[u] = call[u] /\ UserCallAgrees(call[u])
      BY <1>3, <2>2 DEF IInv, MembersAgree
    <3> QED
      BY <1>1, <1>2, <1>4, <3>1 DEF UserCallAgrees, Late
  <2>3. ASSUME NEW y \in Timers PROVE FlagAgrees(y)'
    <3>1. FlagAgrees(y) /\ y # NoTimer
      BY ActorsAre DEF IInv, MembersAgree
    <3>2. CASE y = x
      BY <1>1, <1>3, <1>4, <3>2 DEF FlagAgrees
    <3>3. CASE y # x
      BY <1>1, <1>2, <1>3, <1>4, <3>1, <3>3 DEF FlagAgrees
    <3> QED
      BY <3>2, <3>3
  <2> QED
    BY <2>1, <2>2, <2>3 DEF MembersAgree
<1>7. LoopIsPlaced'
  BY <1>1, <1>3, <1>4 DEF LoopIsPlaced, FiringPlaces, UserFunctions
<1>8. LockIsTaken'
  <2>1. Guarded(TimerThread)'
    BY <1>1, <1>3, <1>4 DEF Guarded, Taken
  <2>2. overtaken' = {} => overtaken = {}
    BY <1>2
  <2> QED
    BY <1>3, <1>4, <2>1, <2>2, LocksStay DEF LockIsTaken
<1>9. Sorted' /\ FiredIsOut'
  BY <1>3, <1>4 DEF IInv, Sorted, FiredIsOut
<1>10. StaysInside'
  <2>1. ASSUME NEW y \in started \ stopped, repeats[y], Decided(y)', firing' # y
        PROVE  y \in Range(timers)
    <3>1. y \in Timers /\ y # NoTimer
      BY ActorsAre DEF IInv, TypeInv, TypeOK
    <3>2. Decided(y) /\ firing # y
      BY <1>1, <1>3, <2>1, <3>1 DEF Decided, Late
    <3> QED
      BY <2>1, <3>2 DEF IInv, StaysInside
  <2> QED
    BY <1>4, <2>1 DEF IInv, StaysInside
<1>11. TimesAgree'
  <2>1. Due(x)'
    BY <1>4 DEF Due, First, x
  <2> QED
    BY <1>1, <1>4, <2>1 DEF TimesAgree, FiringPlaces, Due, First, x
<1> QED
  BY <1>5, <1>6, <1>7, <1>8, <1>9, <1>10, <1>11 DEF IInv

\* What an idle step leaves of the times.
LEMMA TimesStay ==
    ASSUME IInv, UNCHANGED <<now, timers, fields>>,
           loop' \in {"look", "wait", "locked", "late"}, loop' = "late" => timer' # NoTimer,
           loop' = "wait" => (timed'[TimerThread] <=> timer' # NoTimer),
           loop' \in {"wait", "late"} /\ timer' # NoTimer =>
               timer' \in Range(timers) /\ fire[timer'] = deadline',
           loop' = "late" => deadline' <= now
    PROVE  TimesAgree'
BY DEF IInv, TimesAgree, fields, FiringPlaces

LEMMA LookKeeps == ASSUME IInv, TypeInv', Look PROVE IInv'
<1>1. /\ LoopAt("look") /\ timer' = First
      /\ UNCHANGED <<now, timers, fields, counts, stopped, asserted>>
  BY DEF Look
<1>2. phase[TimerThread] = "out" /\ TimerThread \in Actors /\ Lock!TypeOK
  <2>1. Lock!TypeOK
    BY DEF IInv, TypeInv, TypeOK
  <2> QED
    BY <1>1, <2>1, AtLoop, ActorsAre
<1>3. CASE First # NoTimer /\ Due(First) /\ Expire(First) /\ UNCHANGED lock
  BY <1>1, <1>2, <1>3, ExpireKeeps DEF lock, counts
<1>4. ASSUME NEW limit \in BOOLEAN, Lock!RequestWhen(TimerThread, 1, limit), loop' = "wait",
             limit <=> First # NoTimer, First # NoTimer => deadline' = fire[First],
             UNCHANGED <<firing, call, overtaken>>
      PROVE  IInv'
  <2>1. /\ phase'[TimerThread] = "when" /\ timed'[TimerThread] = limit
        /\ \A b \in Actors \ {TimerThread} : phase'[b] = phase[b]
    BY <1>2, <1>4 DEF Lock!RequestWhen, Lock!Move, Lock!TypeOK
  <2>2. First # NoTimer => First \in Range(timers)
    BY <1>1, FirstIsFirst
  <2>3. TimesAgree'
    BY <1>1, <1>4, <2>1, <2>2, TimesStay
  <2> QED
    BY <1>1, <1>4, <2>1, <2>3, IdleStepKeeps DEF counts
<1> QED
  BY <1>3, <1>4 DEF Look

LEMMA SleepKeeps == ASSUME IInv, TypeInv', Sleep PROVE IInv'
<1>1. /\ LoopAt("wait") /\ Lock!Block(TimerThread)
      /\ UNCHANGED <<now, timers, fields, locals, call, ghosts, stopped, asserted>>
  BY DEF Sleep
<1>2. TimerThread \in Actors /\ Lock!TypeOK /\ loop = "wait"
  BY <1>1, AtLoop, ActorsAre DEF IInv, TypeInv, TypeOK
<1>3. /\ phase'[TimerThread] = "asleep" /\ UNCHANGED timed
      /\ \A b \in Actors \ {TimerThread} : phase'[b] = phase[b]
  BY <1>1, <1>2 DEF Lock!Block, Lock!Move, Lock!TypeOK
<1>4. TimesAgree'
  BY <1>1, <1>2, <1>3, TimesStay DEF IInv, TimesAgree, locals
<1> QED
  BY <1>1, <1>2, <1>3, <1>4, IdleStepKeeps DEF locals, ghosts, counts

LEMMA ChangedKeeps == ASSUME IInv, TypeInv', Changed PROVE IInv'
<1>1. /\ LoopAt("wait") /\ loop' = "locked"
      /\ Lock!EnterWhen(TimerThread) \/ Lock!Awake(TimerThread)
      /\ UNCHANGED <<now, timers, fields, timer, firing, deadline, call, ghosts, stopped, asserted>>
  BY DEF Changed
<1>2. TimerThread \in Actors /\ Lock!TypeOK
  BY <1>1, AtLoop, ActorsAre DEF IInv, TypeInv, TypeOK
<1>3. phase'[TimerThread] = "in" /\ \A b \in Actors \ {TimerThread} : phase'[b] = phase[b]
  BY <1>1, <1>2 DEF Lock!EnterWhen, Lock!Awake, Lock!Move, Lock!TypeOK
<1>4. TimesAgree'
  BY <1>1, TimesStay
<1> QED
  BY <1>1, <1>3, <1>4, IdleStepKeeps DEF ghosts, counts

LEMMA ResetKeeps == ASSUME IInv, TypeInv', Reset PROVE IInv'
<1>1. /\ LoopAt("locked") /\ Lock!LeaveWith(TimerThread, 0)
      /\ timer' = IF timer = NoTimer THEN First ELSE timer
      /\ UNCHANGED <<now, timers, fields, deadline, counts, stopped, asserted>>
  BY DEF Reset
<1>2. TimerThread \in Actors /\ Lock!TypeOK
  BY <1>1, AtLoop, ActorsAre DEF IInv, TypeInv, TypeOK
<1>3. phase'[TimerThread] = "out" /\ \A b \in Actors \ {TimerThread} : phase'[b] = phase[b]
  BY <1>1, <1>2 DEF Lock!LeaveWith, Lock!Move, Lock!TypeOK
<1>4. CASE timer = NoTimer /\ First # NoTimer /\ Due(First)
  <2>1. Expire(First) /\ timer' # NoTimer
    BY <1>1, <1>4 DEF Reset
  <2> QED
    BY <1>1, <1>3, <1>4, <2>1, ExpireKeeps DEF counts
<1>5. CASE ~ (timer = NoTimer /\ First # NoTimer /\ Due(First))
  <2>1. loop' = "look" /\ UNCHANGED <<firing, call, overtaken>>
    BY <1>5 DEF Reset
  <2>2. TimesAgree'
    BY <1>1, <2>1, TimesStay
  <2> QED
    BY <1>1, <1>3, <2>1, <2>2, IdleStepKeeps DEF counts
<1> QED
  BY <1>4, <1>5

LEMMA TimedOutKeeps == ASSUME IInv, TypeInv', TimedOut PROVE IInv'
<1>1. /\ LoopAt("wait") /\ now >= deadline /\ Lock!GiveUp(TimerThread) /\ loop' = "late"
      /\ UNCHANGED <<now, timers, fields, timer, firing, deadline, call, ghosts, stopped, asserted>>
  BY DEF TimedOut
<1>2. TimerThread \in Actors /\ Lock!TypeOK /\ loop = "wait"
  BY <1>1, AtLoop, ActorsAre DEF IInv, TypeInv, TypeOK
<1>3. /\ phase'[TimerThread] = "out" /\ timed[TimerThread]
      /\ \A b \in Actors \ {TimerThread} : phase'[b] = phase[b]
  BY <1>1, <1>2 DEF Lock!GiveUp, Lock!Move, Lock!TypeOK
<1>4. timer # NoTimer /\ timer \in Range(timers) /\ fire[timer] = deadline
  BY <1>2, <1>3 DEF IInv, TimesAgree
<1>5. deadline <= now
  <2>1. fire[timer] \in Nat /\ now \in Nat
    BY <1>4, TimerAssumption DEF IInv, TypeInv, TypeOK
  <2> QED
    BY <1>1, <1>4, <2>1
<1>6. TimesAgree'
  BY <1>1, <1>4, <1>5, TimesStay
<1> QED
  BY <1>1, <1>3, <1>6, IdleStepKeeps DEF ghosts, counts

LEMMA LookAfterTimeoutKeeps == ASSUME IInv, TypeInv', LookAfterTimeout PROVE IInv'
<1>1. /\ LoopAt("late")
      /\ UNCHANGED <<now, timers, fields, timer, deadline, lock, counts, stopped, asserted>>
  BY DEF LookAfterTimeout
<1>2. phase[TimerThread] = "out" /\ loop = "late"
  BY <1>1, AtLoop
<1>3. timer # NoTimer /\ timer \in Range(timers) /\ fire[timer] = deadline /\ deadline <= now
  BY <1>2 DEF IInv, TimesAgree
<1>4. CASE First = NoTimer
  <2>1. loop' = "look" /\ UNCHANGED <<firing, call, overtaken>>
    BY <1>4 DEF LookAfterTimeout
  <2>2. TimesAgree'
    BY <1>1, <2>1, TimesStay
  <2> QED
    BY <1>1, <1>2, <2>1, <2>2, IdleStepKeeps DEF lock, counts
<1>5. CASE First # NoTimer
  <2>1. Expire(First)
    BY <1>5 DEF LookAfterTimeout
  <2>2. First \in Timers /\ fire[First] <= fire[timer]
    BY <1>1, <1>3, <1>5, FirstIsFirst
  <2>3. fire[First] \in Nat /\ fire[timer] \in Nat /\ now \in Nat
    BY <1>3, <2>2, TimerAssumption DEF IInv, TypeInv, TypeOK
  <2>4. Due(First)
    BY <1>3, <2>2, <2>3 DEF Due, Minimum
  <2> QED
    BY <1>1, <1>2, <1>3, <1>5, <2>1, <2>4, ExpireKeeps DEF lock, counts
<1> QED
  BY <1>4, <1>5

\* The two steps between which the callback runs.
LEMMA FiringStepKeeps ==
    ASSUME IInv, TypeInv', NEW from \in {"fire", "callback"}, LoopAt(from),
           loop' = IF from = "fire" THEN "callback" ELSE "fired",
           incallback' = [incallback EXCEPT ![firing] = (from = "fire")],
           UNCHANGED <<now, timers, interval, repeats, scheduled, fire, lock, timer, firing,
                       deadline, call, started, overtaken, stopped, asserted>>
    PROVE  IInv'
<1>1. /\ loop = from /\ call[TimerThread].fn = "none"
      /\ firing \in Timers /\ firing \in started /\ firing # NoTimer
      /\ phase[TimerThread] = "out"
  BY AtLoop, ActorsAre DEF FiringPlaces
<1>2. \A x \in Timers : incallback[x] <=> from = "callback" /\ x = firing
  BY AtLoop
<1>3. incallback \in [Timers -> BOOLEAN] /\ UNCHANGED <<phase, timed>>
  BY DEF IInv, TypeInv, TypeOK, lock
<1>4. \A x \in Timers : incallback'[x] <=> from = "fire" /\ x = firing
  BY <1>1, <1>2, <1>3
<1>5. CallsAreApart' /\ Sorted' /\ StaysInside'
  BY DEF IInv, CallsAreApart, Sorted, StaysInside, Decided
<1>6. LoopIsPlaced'
  BY <1>1, <1>4 DEF LoopIsPlaced, FiringPlaces, UserFunctions
<1>7. LockIsTaken'
  <2>1. ASSUME overtaken = {}, NEW u \in Users PROVE Guarded(u)'
    <3>1. SUFFICES ASSUME call[u].fn # "none"
                   PROVE  Guarded(u)'
      BY DEF Guarded
    <3>2. call[u].of \in Timers \ {firing}
      BY <1>1, <2>1, <3>1, UsersAreLate, WholeCalls, ActorsAre DEF IInv
    <3>3. ~incallback[call[u].of] /\ ~incallback'[call[u].of]
      BY <1>2, <1>4, <3>2
    <3>4. Guarded(u)
      BY <2>1 DEF IInv, LockIsTaken
    <3> QED
      BY <1>3, <3>3, <3>4 DEF Guarded, Taken
  <2>2. Guarded(TimerThread)'
    BY <1>1 DEF Guarded
  <2> QED
    BY <1>1, <1>3, <2>1, <2>2 DEF IInv, LockIsTaken
<1>8. MembersAgree'
  BY DEF IInv, MembersAgree, LoopCallAgrees, UserCallAgrees, FlagAgrees
<1>9. FiredIsOut'
  BY <1>1 DEF IInv, FiredIsOut, FiringPlaces
<1>10. TimesAgree'
  BY <1>1 DEF IInv, TimesAgree, FiringPlaces
<1> QED
  BY <1>5, <1>6, <1>7, <1>8, <1>9, <1>10 DEF IInv

LEMMA FireKeeps == ASSUME IInv, TypeInv', Fire PROVE IInv'
BY FiringStepKeeps DEF Fire

LEMMA FiredKeeps == ASSUME IInv, TypeInv', Fired PROVE IInv'
BY FiringStepKeeps DEF Fired, ghosts, counts

\* A callback begins a call.
LEMMA CallbackCallKeeps ==
    ASSUME RulesAreKept, IInv, TypeInv', CallbackCall
    PROVE  IInv'
<1>1. /\ LoopAt("callback")
      /\ UNCHANGED <<now, timers, repeats, scheduled, incallback, fire, lock, locals, calls,
                     started, overtaken, stopped, asserted>>
  BY DEF CallbackCall
<1>2. /\ loop = "callback" /\ call[TimerThread].fn = "none" /\ call[TimerThread].of = NoTimer
      /\ firing \in Timers /\ firing \in started /\ firing # NoTimer
      /\ phase[TimerThread] = "out"
      /\ \A x \in Timers : incallback[x] <=> x = firing
  BY <1>1, AtLoop, ActorsAre DEF FiringPlaces
<1>3. PICK c \in CallbackCalls[firing] : BeginCall(TimerThread, c[1], c[2])
  BY DEF CallbackCall
<1>4. PICK fn \in UserFunctions, x \in Timers : BeginCall(TimerThread, fn, x)
  BY <1>2, <1>3, TimerAssumption DEF UserFunctions
<1>5. /\ Begin(TimerThread, fn, x, "check") /\ MayCall(TimerThread, fn, x)
      /\ fn \in Calls \ {"none"} /\ "check" \in Steps \ {"mark", "unguard"}
  BY <1>4 DEF BeginCall, RulesAreKept, UserFunctions, Calls, Steps
<1>6. /\ x \in started
      /\ x = firing => fn = "invalidate" \/ ~repeats[x]
      /\ \A u \in Users : call[u].of = x => x \in overtaken /\ Late(call[u])
  <2>1. CASE x = firing
    BY <1>2, <1>5, <2>1, UsersAreLate DEF MayCall
  <2>2. CASE x # firing
    BY <1>2, <1>5, <2>2 DEF MayCall, InCall
  <2> QED
    BY <2>1, <2>2
<1>7. UNCHANGED <<loop, firing, timer, deadline, phase, timed>>
  BY <1>1 DEF locals, lock
<1>8. LoopCallAgrees(call[TimerThread])'
  <2>1. call'[TimerThread].at = "check"
    BY <1>5, Beginning, ActorsAre DEF IInv
  <2> QED
    BY <2>1 DEF LoopCallAgrees, Late
<1>9. /\ CallsAreApart' /\ MembersAgree'
      /\ call'[TimerThread].fn = fn /\ call'[TimerThread].of = x
      /\ call'[TimerThread].at = "check"
      /\ \A b \in Actors \ {TimerThread} : call'[b] = call[b]
      /\ \A y \in Timers : Decided(y)' => Decided(y)
  BY <1>1, <1>2, <1>5, <1>6, <1>7, <1>8, ActorsAre, BegunIsApart
<1>10. \A u \in Users : call'[u] = call[u]
  BY <1>9, ActorsAre
<1>11. LoopIsPlaced'
  BY <1>1, <1>2, <1>4, <1>7, <1>9, AtLoop DEF LoopIsPlaced, FiringPlaces, UserFunctions
<1>12. LockIsTaken'
  <2>1. Guarded(TimerThread)'
    BY <1>1, <1>2, <1>7, <1>9 DEF Guarded, Taken
  <2> QED
    BY <1>1, <1>5, <1>7, <1>9, <1>10, <2>1, LocksStay DEF LockIsTaken
<1>13. Sorted'
  BY <1>1 DEF IInv, Sorted
<1>14. FiredIsOut'
  <2>1. repeats[firing] => firing \notin Range(timers)
    BY <1>2 DEF IInv, FiredIsOut, FiringPlaces
  <2> QED
    BY <1>1, <1>6, <1>7, <1>9, <2>1 DEF FiredIsOut
<1>15. StaysInside'
  <2>1. ASSUME NEW y \in started \ stopped, repeats[y], Decided(y)', firing # y
        PROVE  y \in Range(timers)
    <3>1. Decided(y)
      BY <1>9, <2>1 DEF IInv, TypeInv, TypeOK
    <3> QED
      BY <2>1, <3>1 DEF IInv, StaysInside
  <2> QED
    BY <1>1, <1>7, <2>1 DEF IInv, StaysInside
<1>16. TimesAgree'
  BY <1>1, <1>2, <1>7 DEF IInv, TimesAgree, FiringPlaces
<1> QED
  BY <1>9, <1>11, <1>12, <1>13, <1>14, <1>15, <1>16 DEF IInv

LEMMA RepeatKeeps == ASSUME IInv, TypeInv', Repeat PROVE IInv'
<1>1. /\ LoopAt("fired") /\ loop' = "look" /\ timer' = NoTimer /\ firing' = NoTimer
      /\ UNCHANGED <<now, timers, interval, repeats, scheduled, incallback, fire, phase, timed,
                     started, overtaken, stopped, asserted>>
  BY DEF Repeat, fields, lock, ghosts, counts
<1>2. /\ loop = "fired" /\ call[TimerThread].fn = "none" /\ call[TimerThread].of = NoTimer
      /\ firing \in Timers /\ firing \in started /\ firing # NoTimer
      /\ phase[TimerThread] = "out" /\ \A x \in Timers : ~incallback[x]
  BY <1>1, AtLoop, ActorsAre DEF FiringPlaces
<1>3. timer \in Timers /\ repeats[timer] = repeats[firing]
  BY <1>2 DEF IInv, TimesAgree, FiringPlaces, TypeInv, TypeOK, StaysInside
<1>4. Sorted' /\ FiredIsOut' /\ TimesAgree'
  BY <1>1 DEF IInv, Sorted, FiredIsOut, TimesAgree, FiringPlaces
<1>5. CASE repeats[firing]
  <2>1. Begin(TimerThread, "repeat", firing, "set")
    BY <1>3, <1>5 DEF Repeat
  <2>2. firing \notin Range(timers)
    BY <1>2, <1>5 DEF IInv, FiredIsOut, FiringPlaces
  <2>3. "repeat" \in Calls \ {"none"} /\ "set" \in Steps \ {"mark", "unguard"}
    BY DEF Calls, Steps
  <2>4. LoopCallAgrees(call[TimerThread])'
    <3>1. /\ call'[TimerThread].fn = "repeat" /\ call'[TimerThread].of = firing
          /\ call'[TimerThread].at = "set"
      BY <1>2, <2>1, <2>3, Beginning, ActorsAre DEF IInv
    <3> QED
      BY <1>1, <2>2, <3>1 DEF LoopCallAgrees, Late
  <2>5. \A u \in Users : call[u].of = firing => firing \in overtaken /\ Late(call[u])
    BY <1>2, UsersAreLate
  <2>6. /\ CallsAreApart' /\ MembersAgree'
        /\ call'[TimerThread].fn = "repeat" /\ call'[TimerThread].of = firing
        /\ call'[TimerThread].at = "set"
        /\ \A b \in Actors \ {TimerThread} : call'[b] = call[b]
        /\ \A y \in Timers : Decided(y)' => Decided(y)
    BY <1>1, <1>2, <2>1, <2>3, <2>4, <2>5, ActorsAre, BegunIsApart
  <2>7. \A u \in Users : call'[u] = call[u]
    BY <2>6, ActorsAre
  <2>8. LoopIsPlaced'
    BY <1>1, <1>2, <2>6 DEF LoopIsPlaced, FiringPlaces, UserFunctions
  <2>9. LockIsTaken'
    <3>1. Guarded(TimerThread)'
      BY <1>1, <1>2, <2>6 DEF Guarded, Taken
    <3> QED
      BY <1>1, <2>6, <2>7, <3>1, LocksStay DEF LockIsTaken
  <2>10. StaysInside'
    <3>1. ASSUME NEW y \in started \ stopped, repeats[y], Decided(y)'
          PROVE  y \in Range(timers)
      <4>1. y \in Timers /\ Decided(y)
        BY <2>6, <3>1 DEF IInv, TypeInv, TypeOK
      <4>2. y # firing
        BY <2>6, <3>1 DEF Decided
      <4> QED
        BY <3>1, <4>1, <4>2 DEF IInv, StaysInside
    <3> QED
      BY <1>1, <3>1 DEF IInv, StaysInside
  <2> QED
    BY <1>4, <2>6, <2>8, <2>9, <2>10 DEF IInv
<1>6. CASE ~repeats[firing]
  <2>1. UNCHANGED call
    BY <1>3, <1>6 DEF Repeat
  <2>2. CallsAreApart'
    BY <1>1, <2>1, ActorsAre DEF IInv, CallsAreApart
  <2>3. MembersAgree'
    BY <1>1, <2>1 DEF IInv, MembersAgree, LoopCallAgrees, UserCallAgrees, FlagAgrees
  <2>4. LoopIsPlaced'
    BY <1>1, <1>2, <2>1 DEF LoopIsPlaced, FiringPlaces, UserFunctions
  <2>5. LockIsTaken'
    <3>1. Guarded(TimerThread)'
      BY <1>2, <2>1 DEF Guarded
    <3> QED
      BY <1>1, <1>2, <2>1, <3>1, LocksStay DEF LockIsTaken
  <2>6. StaysInside'
    BY <1>1, <1>6, <2>1 DEF IInv, StaysInside, Decided
  <2> QED
    BY <1>4, <2>2, <2>3, <2>4, <2>5, <2>6 DEF IInv
<1> QED
  BY <1>5, <1>6

LEMMA LoopKeeps == ASSUME RulesAreKept, IInv, Loop PROVE IInv'
<1>1. TypeInv'
  BY LoopTypes DEF IInv
<1> QED
  BY <1>1, LookKeeps, SleepKeeps, ChangedKeeps, ResetKeeps, TimedOutKeeps,
     LookAfterTimeoutKeeps, FireKeeps, CallbackCallKeeps, FiredKeeps, RepeatKeeps DEF Loop

-----------------------------------------------------------------------------
(* User threads, and time *)

LEMMA UserCallKeeps ==
    ASSUME RulesAreKept, IInv, NEW u \in Users, UserCall(u)
    PROVE  IInv'
<1>1. TypeInv'
  BY UserCallTypes DEF IInv
<1>2. UNCHANGED <<now, timers, repeats, scheduled, incallback, fire, phase, timed, loop, timer,
                  firing, deadline, overtaken, stopped, asserted>>
  BY DEF UserCall, lock, locals
<1>3. PICK c \in UserCalls[u] : BeginCall(u, c[1], c[2]) /\ started' = started \cup {c[2]}
  BY DEF UserCall
<1> DEFINE x == c[2]
<1>4. u \in Actors /\ u # TimerThread /\ x \in Timers /\ c[1] \in UserFunctions
  BY <1>3, ActorsAre, TimerAssumption DEF UserFunctions
<1>5. /\ Begin(u, "schedule", x, "check") /\ x \notin started
      /\ call[u] = NoCall /\ x \in started' /\ started \subseteq started'
      /\ started' = started \cup {x}
  BY <1>3, <1>4 DEF BeginCall, RulesAreKept, MayCall
<1> HIDE DEF x
<1>6. "schedule" \in Calls \ {"none"} /\ "check" \in Steps \ {"mark", "unguard"}
  BY DEF Calls, Steps
<1>7. /\ call[u].fn = "none" /\ \A b \in Actors : call[b].of # x
      /\ x # firing /\ x \notin Range(timers) /\ ~scheduled[x] /\ x \notin overtaken
      /\ ~incallback[x]
  <2>1. call[u].fn = "none" /\ \A b \in Actors : call[b].of # x
    BY <1>4, <1>5, NoCallIs, ActorsAre DEF IInv, CallsAreApart
  <2>2. x \notin Range(timers) /\ ~scheduled[x] /\ x \notin overtaken
    BY <1>4, <1>5 DEF IInv, MembersAgree, FlagAgrees
  <2>3. x # firing /\ ~incallback[x]
    BY <1>4, <1>5, ActorsAre DEF IInv, LoopIsPlaced
  <2> QED
    BY <2>1, <2>2, <2>3
<1>8. /\ CallsAreApart' /\ MembersAgree'
      /\ call'[u].fn = "schedule" /\ call'[u].of = x /\ call'[u].at = "check"
      /\ \A b \in Actors \ {u} : call'[b] = call[b]
      /\ \A y \in Timers : Decided(y)' => Decided(y)
  BY <1>2, <1>4, <1>5, <1>6, <1>7, BegunIsApart
<1>9. call'[TimerThread] = call[TimerThread]
  BY <1>4, <1>8, ActorsAre
<1>10. LoopIsPlaced'
  BY <1>2, <1>5, <1>9 DEF IInv, LoopIsPlaced
<1>11. LockIsTaken'
  <2>1. Guarded(TimerThread)' <=> Guarded(TimerThread)
    BY <1>2, <1>9 DEF Guarded, Taken
  <2>2. ASSUME overtaken = {}, NEW v \in Users
        PROVE  Guarded(v)' /\ (call'[v].fn = "none" => phase'[v] = "out")
    <3>1. Guarded(v) /\ (call[v].fn = "none" => phase[v] = "out")
      BY <2>2 DEF IInv, LockIsTaken
    <3>2. CASE v = u
      BY <1>2, <1>7, <1>8, <3>1, <3>2 DEF Guarded, Taken
    <3>3. CASE v # u
      BY <1>2, <1>8, <3>1, <3>3, ActorsAre DEF Guarded, Taken
    <3> QED
      BY <3>2, <3>3
  <2> QED
    BY <1>2, <1>9, <2>1, <2>2 DEF IInv, LockIsTaken
<1>12. Sorted' /\ FiredIsOut' /\ TimesAgree'
  BY <1>2, <1>9 DEF IInv, Sorted, FiredIsOut, TimesAgree, Due
<1>13. StaysInside'
  <2>1. ASSUME NEW y \in started' \ stopped, repeats[y], Decided(y)', firing # y
        PROVE  y \in Range(timers)
    <3>1. y \in Timers /\ y \in started
      BY <1>4, <1>5, <1>8, <2>1 DEF Decided, Late, IInv, TypeInv, TypeOK
    <3> QED
      BY <1>8, <2>1, <3>1 DEF IInv, StaysInside
  <2> QED
    BY <1>2, <2>1 DEF IInv, StaysInside
<1> QED
  BY <1>1, <1>8, <1>10, <1>11, <1>12, <1>13 DEF IInv

LEMMA TickKeeps == ASSUME IInv, Tick PROVE IInv'
<1>1. /\ UNCHANGED <<timers, fields, lock, locals, call, ghosts, stopped, asserted>>
      /\ now' = now + 1
  BY DEF Tick
<1>2. TypeInv'
  BY TypesStay DEF IInv, Next
<1>3. CallsAreApart' /\ LoopIsPlaced' /\ Sorted' /\ FiredIsOut' /\ StaysInside'
  BY <1>1 DEF IInv, CallsAreApart, LoopIsPlaced, Sorted, FiredIsOut, StaysInside, Decided,
              fields, locals, ghosts, counts
<1>4. LockIsTaken'
  BY <1>1 DEF IInv, LockIsTaken, Guarded, Taken, fields, lock, locals, ghosts
<1>5. MembersAgree'
  BY <1>1 DEF IInv, MembersAgree, LoopCallAgrees, UserCallAgrees, FlagAgrees, fields, ghosts,
              counts
<1>6. now \in Nat
  BY TimerAssumption DEF IInv, TypeInv, TypeOK
<1>7. loop = "fire" => Due(firing)'
  <2>1. SUFFICES ASSUME loop = "fire" PROVE Due(firing)'
    OBVIOUS
  <2>2. firing \in Timers /\ Due(firing)
    BY <2>1 DEF IInv, TimesAgree, TypeInv, CallsAreWhole, FiringPlaces
  <2>3. fire[firing] \in Nat
    BY <2>2 DEF IInv, TypeInv, TypeOK
  <2>4. firing' = firing /\ fire'[firing] = fire[firing]
    BY <1>1 DEF fields, locals
  <2> QED
    BY <1>1, <1>6, <2>2, <2>3, <2>4 DEF Due, Minimum
<1>8. loop = "late" => deadline <= now'
  <2>1. SUFFICES ASSUME loop = "late" PROVE deadline <= now'
    OBVIOUS
  <2>2. timer \in Range(timers) /\ fire[timer] = deadline /\ deadline <= now
    BY <2>1 DEF IInv, TimesAgree
  <2>3. fire[timer] \in Nat
    BY <2>2 DEF IInv, TypeInv, TypeOK, Range
  <2> QED
    BY <1>1, <1>6, <2>2, <2>3
<1>9. TimesAgree'
  BY <1>1, <1>7, <1>8 DEF IInv, TimesAgree, fields, locals, lock
<1> QED
  BY <1>2, <1>3, <1>4, <1>5, <1>9 DEF IInv

LEMMA StutterKeeps == ASSUME IInv, UNCHANGED vars PROVE IInv'
<1>1. UNCHANGED <<now, timers, fields, lock, locals, call, ghosts, stopped, asserted>>
  BY DEF vars
<1>2. TypeInv'
  BY TypesStay DEF IInv
<1>3. CallsAreApart' /\ LoopIsPlaced' /\ Sorted' /\ FiredIsOut' /\ StaysInside'
  BY <1>1 DEF IInv, CallsAreApart, LoopIsPlaced, Sorted, FiredIsOut, StaysInside, Decided,
              fields, locals, ghosts, counts
<1>4. LockIsTaken' /\ TimesAgree'
  BY <1>1 DEF IInv, LockIsTaken, TimesAgree, Due, Guarded, Taken, fields, lock, locals, ghosts
<1>5. MembersAgree'
  BY <1>1 DEF IInv, MembersAgree, LoopCallAgrees, UserCallAgrees, FlagAgrees, fields, ghosts,
              counts
<1> QED
  BY <1>2, <1>3, <1>4, <1>5 DEF IInv

-----------------------------------------------------------------------------
(* The theorems *)

LEMMA StartsRight == ASSUME RulesAreKept, Init PROVE IInv
<1>1. TypeInv
  BY TypesStart
<1>2. /\ timers = <<>> /\ Range(timers) = {} /\ started = {} /\ stopped = {} /\ ~asserted
      /\ overtaken = {} /\ loop = "none" /\ timer = NoTimer /\ firing = NoTimer
      /\ \A a \in Actors : /\ call[a].fn = "none" /\ call[a].of = NoTimer /\ call[a].at = "none"
                           /\ phase[a] = "out"
      /\ \A x \in Timers : ~scheduled[x] /\ ~incallback[x]
      /\ TimerThread \in Actors /\ Users \subseteq Actors
  <2>1. timers = <<>> /\ Range(timers) = {}
    BY DEF Init, Range
  <2>2. \A a \in Actors : call[a].fn = "none" /\ call[a].of = NoTimer /\ call[a].at = "none"
    BY NoCallIs DEF Init
  <2>3. \A a \in Actors : phase[a] = "out"
    BY DEF Init, Lock!Init
  <2> QED
    BY <2>1, <2>2, <2>3 DEF Init, Actors
<1>3. CallsAreApart /\ LoopIsPlaced /\ LockIsTaken /\ FiredIsOut
  BY <1>2 DEF CallsAreApart, LoopIsPlaced, LockIsTaken, Guarded, FiredIsOut, FiringPlaces,
              UserFunctions
<1>4. Sorted /\ MembersAgree
  BY <1>2 DEF Sorted, MembersAgree, FlagAgrees
<1>5. StaysInside
  BY <1>2 DEF StaysInside, Init, RulesAreKept
<1>6. TimesAgree
  BY <1>2 DEF TimesAgree, FiringPlaces
<1> QED
  BY <1>1, <1>3, <1>4, <1>5, <1>6 DEF IInv

LEMMA StepsKeep == ASSUME RulesAreKept, IInv, [Next]_vars PROVE IInv'
BY LoopKeeps, UserCallKeeps, CallStepKeeps, TickKeeps, StutterKeeps DEF Next

LEMMA Agrees == ASSUME IInv PROVE ArrayAgrees
<1>1. ASSUME NEW x \in Timers, ~Busy(x)
      PROVE  /\ x \in Range(timers) => scheduled[x]
             /\ scheduled[x] => x \in Range(timers) \/ x \in overtaken
  <2>1. \A a \in Actors : call[a].of # x
    BY <1>1 DEF Busy
  <2> QED
    BY <2>1, ActorsAre DEF IInv, MembersAgree, FlagAgrees
<1>2. RepeatingStays
  <2>1. \A x \in Timers : ~Busy(x) => Decided(x)
    BY ActorsAre DEF Busy, Decided
  <2>2. started \subseteq Timers
    BY DEF IInv, TypeInv, TypeOK
  <2> QED
    BY <2>1, <2>2 DEF RepeatingStays, IInv, StaysInside
<1>3. overtaken = {} => ~asserted /\ ~LockIsKept
  BY NoCallIs DEF IInv, LockIsTaken, LockIsKept
<1> QED
  BY <1>1, <1>2, <1>3 DEF ArrayAgrees, IInv, Sorted

\* In a program that keeps the rules, however time passes and the threads interleave, the array
\* the timer thread fires from stays sorted and holds no timer twice, a timer in it is marked
\* between calls, and a repeating timer stays in it; and while no timer was fired before the call
\* that scheduled it was over, a marked timer is in the array, no call leaves the lock behind and
\* no mutex reports an error (wi-timer.c).
THEOREM ArrayAlwaysAgrees == ASSUME RulesAreKept PROVE Spec => []ArrayAgrees
<1>1. Init => IInv
  BY StartsRight
<1>2. IInv /\ [Next]_vars => IInv'
  BY StepsKeep
<1>3. IInv => ArrayAgrees
  BY Agrees
<1> QED
  BY <1>1, <1>2, <1>3, PTL DEF Spec

\* In a program that keeps the rules, no callback begins before its timer is due: neither after
\* a timeout, when the timer thread fires the first timer without looking at its date, nor when a
\* callback has moved the timer the thread went to sleep for (wi-timer.c).
THEOREM NeverFiresEarly == ASSUME RulesAreKept PROVE Spec => NeverEarly
<1> DEFINE A == \A x \in Timers : ~incallback[x] /\ incallback'[x] => fire[x] - now <= Minimum
<1>1. Init => IInv
  BY StartsRight
<1>2. IInv /\ [Next]_vars => IInv'
  BY StepsKeep
<1>3. IInv /\ [Next]_vars => [A]_vars
  <2> SUFFICES ASSUME IInv, Next, NEW x \in Timers, ~incallback[x], incallback'[x]
               PROVE  fire[x] - now <= Minimum
    OBVIOUS
  <2>1. incallback \in [Timers -> BOOLEAN]
    BY DEF IInv, TypeInv, TypeOK
  <2>2. CASE Fire
    <3>1. loop = "fire" /\ firing \in Timers
      BY <2>2, AtLoop DEF Fire, LoopAt, FiringPlaces
    <3>2. x = firing
      BY <2>1, <2>2, <3>1 DEF Fire
    <3> QED
      BY <3>1, <3>2 DEF IInv, TimesAgree, Due
  <2>3. CASE Fired
    BY <2>1, <2>3 DEF Fired
  <2>4. CASE UNCHANGED incallback
    BY <2>4
  <2>5. Fire \/ Fired \/ UNCHANGED incallback
    <3>1. CASE Loop
      BY <3>1 DEF Loop, Look, Sleep, Changed, Reset, TimedOut, LookAfterTimeout, CallbackCall,
                  Repeat, fields
    <3>2. CASE \E a \in Actors : CallStep(a)
      BY <3>2 DEF CallStep, CheckScheduled, CheckLock, Enter, SetFire, Insert, Mark, RemoveData,
                  Unmark, CheckUnlock, fields
    <3>3. CASE Tick \/ \E u \in Users : UserCall(u)
      BY <3>3 DEF Tick, UserCall, fields
    <3> QED
      BY <3>1, <3>2, <3>3 DEF Next
  <2> QED
    BY <2>2, <2>3, <2>4, <2>5
<1> QED
  BY <1>1, <1>2, <1>3, PTL DEF Spec, NeverEarly

===============================================================================
