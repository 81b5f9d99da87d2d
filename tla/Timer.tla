-------------------------------- MODULE Timer --------------------------------
(***************************************************************************)
(* thread/wi-timer.c: the timer thread, the sorted array of scheduled      *)
(* timers it fires from, and the threads and callbacks that schedule,      *)
(* reschedule and invalidate timers meanwhile.                             *)
(*                                                                         *)
(* A call of wi_timer_schedule, wi_timer_reschedule or wi_timer_invalidate *)
(* is a sequence of steps (`call'), one for each access to state that      *)
(* other threads read.  _wi_timer_lock is the monitor that ConditionLock   *)
(* is proved to implement; _wi_timers_lock is held around single array     *)
(* operations only, which makes each of those one step.  Time is `now', in *)
(* units of the 0.001 s minimum interval.                                  *)
(***************************************************************************)
EXTENDS Integers, SequencesExt

CONSTANTS Users,         \* the threads that schedule timers
          TimerThread,   \* the thread of _wi_timer_thread
          Timers,        \* the timer instances
          NoTimer,       \* a NULL timer
          Interval,      \* Interval[x]: the interval x is created with
          Repeats,       \* the values `repeats' may have: a set of functions
          NewIntervals,  \* the intervals given to wi_timer_reschedule
          UserCalls,     \* UserCalls[u]: <<function, timer>> pairs thread u may call
          CallbackCalls, \* CallbackCalls[y]: the pairs y's callback may call
          CallbackMust,  \* whether a callback always makes a call
          Disciplined,   \* whether callers keep the rules of MayCall
          MaxCalls,      \* bound: calls each user thread makes
          MaxTime        \* bound: the last instant of the clock

Minimum == 1            \* _WI_TIMER_MINIMUM_INTERVAL
Actors == Users \cup {TimerThread}

ASSUME TimerAssumption ==
    /\ TimerThread \notin Users
    /\ NoTimer \notin Timers
    /\ Interval \in [Timers -> Nat]
    /\ Repeats \subseteq [Timers -> BOOLEAN]
    /\ NewIntervals \subseteq Nat
    /\ UserCalls \in [Users -> SUBSET ({"schedule", "reschedule", "invalidate"} \X Timers)]
    /\ CallbackCalls \in [Timers -> SUBSET ({"schedule", "reschedule", "invalidate"} \X Timers)]
    /\ CallbackMust \in BOOLEAN /\ Disciplined \in BOOLEAN
    /\ MaxCalls \in Nat /\ MaxTime \in Nat

VARIABLES
    now,            \* wi_time_interval()
    timers,         \* _wi_timers
    interval, repeats, scheduled, incallback, fire,    \* the fields of each timer
    cond, phase, want, timed,                          \* _wi_timer_lock
    loop,           \* where the timer thread is in its loop
    timer,          \* its locals `timer'
    firing,         \*     and `fire_timer'
    deadline,       \* when its timed wait for the lock ends
    call,           \* the call each thread is in: [fn, of, at]
    calls,          \* the calls each user thread has made
    called,         \* whether the running callback has made its call
    started,        \* the timers a user thread has scheduled
    stopped,        \* the timers last taken out by wi_timer_invalidate
    overtaken,      \* the timers fired before the call that scheduled them was over
    asserted        \* whether a WI_ASSERT of wi-condition-lock.c has failed

fields == <<interval, repeats, scheduled, incallback, fire>>
lock   == <<cond, phase, want, timed>>
locals == <<loop, timer, firing, deadline>>
counts == <<calls, called, started>>
ghosts == <<counts, overtaken>>
vars   == <<now, timers, fields, lock, locals, call, ghosts, stopped, asserted>>

Lock == INSTANCE AbstractConditionLock
            WITH Threads <- Actors, Conditions <- {0, 1}, Initial <- 0

NoCall == [fn |-> "none", of |-> NoTimer, at |-> "none"]

AtLeastMinimum(i) == IF i > Minimum THEN i ELSE Minimum

\* wi_timer_register, wi_timer_initialize, wi_timer_init_with_function
Init ==
    /\ now = 0
    /\ timers = <<>>
    /\ interval = [x \in Timers |-> AtLeastMinimum(Interval[x])]
    /\ repeats \in Repeats
    /\ scheduled = [x \in Timers |-> FALSE]
    /\ incallback = [x \in Timers |-> FALSE]
    /\ fire = [x \in Timers |-> 0]
    /\ Lock!Init
    /\ loop = "none"
    /\ timer = NoTimer /\ firing = NoTimer /\ deadline = 0
    /\ call = [a \in Actors |-> NoCall]
    /\ calls = [u \in Users |-> 0]
    /\ called = FALSE
    /\ started = {} /\ stopped = {} /\ overtaken = {}
    /\ asserted = FALSE

First == IF timers = <<>> THEN NoTimer ELSE timers[1]

\* wi_assert_default_handler crashes the process.
Running == ~asserted

\* A bug: a timer counts as due one unit too early.
DueEarly(x) == fire[x] - now <= Minimum + 1

Due(x) == fire[x] - now <= Minimum

-----------------------------------------------------------------------------
(* The steps of a call.  The thread a is at step `from' of a call that works *)
(* on timer x and goes on to `to'; "none" returns.                           *)

At(a, x, from) == Running /\ call[a].at = from /\ call[a].of = x

Proceed(a, to) ==
    call' = [call EXCEPT ![a] = IF to = "none" THEN NoCall ELSE [@ EXCEPT !.at = to]]

Begin(a, fn, x, at) == call' = [call EXCEPT ![a] = [fn |-> fn, of |-> x, at |-> at]]

\* if(!timer->scheduled) in wi_timer_schedule, and the creation of the timer
\* thread; if(timer->scheduled) in the other two.
CheckScheduled(a, x) ==
    /\ At(a, x, "check")
    /\ \/ /\ call[a].fn = "schedule"
          /\ Proceed(a, IF scheduled[x] THEN "none" ELSE "guard")
          /\ loop' = IF ~scheduled[x] /\ loop = "none" THEN "look" ELSE loop
          /\ stopped' = IF scheduled[x] THEN stopped ELSE stopped \ {x}
       \/ /\ call[a].fn = "reschedule"
          /\ Proceed(a, IF scheduled[x] THEN "remove" ELSE "guard")
          /\ stopped' = stopped \ {x}
          /\ UNCHANGED loop
       \/ /\ call[a].fn = "invalidate"
          /\ Proceed(a, IF scheduled[x] THEN "guard" ELSE "none")
          /\ stopped' = IF scheduled[x] THEN stopped \cup {x} ELSE stopped
          /\ UNCHANGED loop
    /\ UNCHANGED <<now, timers, fields, lock, timer, firing, deadline, ghosts, asserted>>

\* What a call does once it is past its lock.
Body(a) == IF call[a].fn = "invalidate" THEN "remove" ELSE "set"

\* A bug: the lock is taken in the timer's own callback too.
LockAlways(a, x) ==
    /\ At(a, x, "guard")
    /\ \/ phase[a] = "in" /\ Proceed(a, Body(a)) /\ asserted' = TRUE /\ UNCHANGED lock
       \/ Lock!Request(a) /\ Proceed(a, "enter") /\ UNCHANGED asserted
    /\ UNCHANGED <<now, timers, fields, locals, ghosts, stopped>>

\* if(!timer->incallback) wi_condition_lock_lock(_wi_timer_lock): an error
\* of the mutex, already held by this thread, is an assertion failure.
CheckLock(a, x) ==
    /\ At(a, x, "guard")
    /\ \/ /\ incallback[x]
          /\ Proceed(a, Body(a))
          /\ UNCHANGED <<lock, asserted>>
       \/ /\ ~incallback[x]
          /\ phase[a] = "in"
          /\ Proceed(a, Body(a))
          /\ asserted' = TRUE
          /\ UNCHANGED lock
       \/ /\ ~incallback[x]
          /\ Lock!Request(a)
          /\ Proceed(a, "enter")
          /\ UNCHANGED asserted
    /\ UNCHANGED <<now, timers, fields, locals, ghosts, stopped>>

Enter(a, x) ==
    /\ At(a, x, "enter")
    /\ Lock!Enter(a)
    /\ Proceed(a, Body(a))
    /\ UNCHANGED <<now, timers, fields, locals, ghosts, stopped, asserted>>

\* _wi_timer_schedule: the fire date, ...
SetFire(a, x) ==
    /\ At(a, x, "set")
    /\ fire' = [fire EXCEPT ![x] = now + interval[x]]
    /\ Proceed(a, "insert")
    /\ UNCHANGED <<now, timers, interval, repeats, scheduled, incallback, lock, locals,
                   ghosts, stopped, asserted>>

\* A bug: the timer goes to the end of the array.
AppendTimer(x) == timers' = Append(timers, x)

\* wi_mutable_array_add_data_sorted: in front of the first timer that fires
\* later.
AddSorted(x) ==
    LET later == {i \in DOMAIN timers : fire[x] < fire[timers[i]]}
    IN  timers' = IF later = {} THEN Append(timers, x) ELSE InsertAt(timers, Min(later), x)

\* ... the array, under _wi_timers_lock, ...
Insert(a, x) ==
    /\ At(a, x, "insert")
    /\ AddSorted(x)
    /\ Proceed(a, "mark")
    /\ UNCHANGED <<now, fields, lock, locals, ghosts, stopped, asserted>>

\* ... and the flag, after the array lock is gone.
Mark(a, x) ==
    /\ At(a, x, "mark")
    /\ scheduled' = [scheduled EXCEPT ![x] = TRUE]
    /\ Proceed(a, IF call[a].fn = "repeat" THEN "none" ELSE "unguard")
    /\ UNCHANGED <<now, timers, interval, repeats, incallback, fire, lock, locals, ghosts,
                   stopped, asserted>>

\* A bug: the slot of the removed item stays in the array.
LeaveHole(a, x) ==
    /\ At(a, x, "remove")
    /\ timers' = [i \in DOMAIN timers |-> IF timers[i] = x THEN NoTimer ELSE timers[i]]
    /\ Proceed(a, "unmark")
    /\ UNCHANGED <<now, fields, lock, locals, ghosts, stopped, asserted>>

\* _wi_timer_invalidate: the first occurrence in the array, then the flag.
RemoveData(a, x) ==
    /\ At(a, x, "remove")
    /\ timers' = RemoveFirst(timers, x)
    /\ Proceed(a, "unmark")
    /\ UNCHANGED <<now, fields, lock, locals, ghosts, stopped, asserted>>

Unmark(a, x) ==
    /\ At(a, x, "unmark")
    /\ scheduled' = [scheduled EXCEPT ![x] = FALSE]
    /\ Proceed(a, CASE call[a].fn = "expire"     -> "none"
                    [] call[a].fn = "reschedule" -> "guard"
                    [] call[a].fn = "invalidate" -> "unguard")
    /\ UNCHANGED <<now, timers, interval, repeats, incallback, fire, lock, locals, ghosts,
                   stopped, asserted>>

\* A bug: the lock is released without saying that the timers changed.
UnlockQuietly(a, x) ==
    /\ At(a, x, "unguard")
    /\ \/ incallback[x] /\ UNCHANGED <<lock, asserted>>
       \/ ~incallback[x] /\ phase[a] # "in" /\ asserted' = TRUE /\ UNCHANGED lock
       \/ ~incallback[x] /\ Lock!Leave(a) /\ UNCHANGED asserted
    /\ Proceed(a, "none")
    /\ UNCHANGED <<now, timers, fields, locals, ghosts, stopped>>

\* if(!timer->incallback) wi_condition_lock_unlock_with_condition(.., 1): the
\* flag is read a second time, and unlocking a mutex this thread does not own
\* is an assertion failure.
CheckUnlock(a, x) ==
    /\ At(a, x, "unguard")
    /\ \/ incallback[x] /\ UNCHANGED <<lock, asserted>>
       \/ ~incallback[x] /\ phase[a] # "in" /\ asserted' = TRUE /\ UNCHANGED lock
       \/ ~incallback[x] /\ Lock!LeaveWith(a, 1) /\ UNCHANGED asserted
    /\ Proceed(a, "none")
    /\ UNCHANGED <<now, timers, fields, locals, ghosts, stopped>>

CallStep(a) ==
    \E x \in Timers :
        \/ CheckScheduled(a, x) \/ CheckLock(a, x) \/ Enter(a, x)
        \/ SetFire(a, x) \/ Insert(a, x) \/ Mark(a, x)
        \/ RemoveData(a, x) \/ Unmark(a, x) \/ CheckUnlock(a, x)

-----------------------------------------------------------------------------
(* The calls user threads and callbacks make *)

InCall(x) == \E u \in Users : call[u].of = x

\* The rules of a disciplined program: a user thread only schedules timers, each
\* once, and from then on a timer is left to callbacks; the callback of a
\* repeating timer does not schedule it again.
MayCall(a, fn, x) ==
    IF a = TimerThread
    THEN IF x = firing THEN fn = "invalidate" \/ ~repeats[x]
                       ELSE x \in started /\ ~InCall(x)
    ELSE fn = "schedule" /\ x \notin started

\* wi_timer_reschedule assigns the interval before anything else.
BeginCall(a, fn, x) ==
    /\ call[a] = NoCall
    /\ Disciplined => MayCall(a, fn, x)
    /\ Begin(a, fn, x, "check")
    /\ IF fn = "reschedule"
       THEN \E i \in NewIntervals : interval' = [interval EXCEPT ![x] = AtLeastMinimum(i)]
       ELSE UNCHANGED interval

UserCall(u) ==
    /\ Running
    /\ calls[u] < MaxCalls
    /\ \E c \in UserCalls[u] :
          /\ BeginCall(u, c[1], c[2])
          /\ started' = started \cup {c[2]}
    /\ calls' = [calls EXCEPT ![u] = @ + 1]
    /\ UNCHANGED <<now, timers, repeats, scheduled, incallback, fire, lock, locals, called,
                   overtaken, stopped, asserted>>

-----------------------------------------------------------------------------
(* The loop of _wi_timer_thread *)

LoopAt(from) == Running /\ loop = from /\ call[TimerThread] = NoCall

\* The timer to fire is taken out of the array by _wi_timer_invalidate, with
\* no hold on _wi_timer_lock, and the loop goes on to fire it: it may overtake
\* a call that has not yet assigned `scheduled' or unlocked.
Expire(x) ==
    /\ firing' = x
    /\ loop' = "fire"
    /\ Begin(TimerThread, "expire", x, "remove")
    /\ overtaken' = IF InCall(x) THEN overtaken \cup {x} ELSE overtaken

\* The top of the loop: the first timer is due, or the thread asks for the lock
\* with condition 1, with no time limit if there is no timer.
Look ==
    /\ LoopAt("look")
    /\ timer' = First
    /\ \/ /\ First # NoTimer /\ Due(First)
          /\ Expire(First)
          /\ UNCHANGED <<deadline, lock>>
       \/ /\ First # NoTimer /\ ~Due(First)
          /\ Lock!RequestWhen(TimerThread, 1, TRUE)
          /\ deadline' = fire[First]
          /\ loop' = "wait"
          /\ UNCHANGED <<firing, call, overtaken>>
       \/ /\ First = NoTimer
          /\ Lock!RequestWhen(TimerThread, 1, FALSE)
          /\ loop' = "wait"
          /\ UNCHANGED <<firing, deadline, call, overtaken>>
    /\ UNCHANGED <<now, timers, fields, counts, stopped, asserted>>

Sleep ==
    /\ LoopAt("wait")
    /\ Lock!Block(TimerThread)
    /\ UNCHANGED <<now, timers, fields, locals, call, ghosts, stopped, asserted>>

\* The lock is obtained, because somebody changed the timers, ...
Changed ==
    /\ LoopAt("wait")
    /\ Lock!EnterWhen(TimerThread) \/ Lock!Awake(TimerThread)
    /\ loop' = "locked"
    /\ UNCHANGED <<now, timers, fields, timer, firing, deadline, call, ghosts, stopped,
                   asserted>>

\* ... and is given back with condition 0.  After a wait with no time limit the
\* first timer is read again, and fired if it is due.
Reset ==
    /\ LoopAt("locked")
    /\ Lock!LeaveWith(TimerThread, 0)
    /\ timer' = IF timer = NoTimer THEN First ELSE timer
    /\ IF timer = NoTimer /\ First # NoTimer /\ Due(First)
       THEN Expire(First)
       ELSE loop' = "look" /\ UNCHANGED <<firing, call, overtaken>>
    /\ UNCHANGED <<now, timers, fields, deadline, counts, stopped, asserted>>

\* The timed wait for the lock ends without it.
TimedOut ==
    /\ LoopAt("wait")
    /\ now >= deadline
    /\ Lock!GiveUp(TimerThread)
    /\ loop' = "late"
    /\ UNCHANGED <<now, timers, fields, timer, firing, deadline, call, ghosts, stopped,
                   asserted>>

\* The timer that is first by then is fired, due or not.
LookAfterTimeout ==
    /\ LoopAt("late")
    /\ IF First = NoTimer
       THEN loop' = "look" /\ UNCHANGED <<firing, call, overtaken>>
       ELSE Expire(First)
    /\ UNCHANGED <<now, timers, fields, timer, deadline, lock, counts, stopped, asserted>>

\* wi_timer_fire: the callback runs between the two assignments of incallback.
Fire ==
    /\ LoopAt("fire")
    /\ incallback' = [incallback EXCEPT ![firing] = TRUE]
    /\ loop' = "callback"
    /\ called' = FALSE
    /\ UNCHANGED <<now, timers, interval, repeats, scheduled, fire, lock, timer, firing,
                   deadline, call, calls, started, overtaken, stopped, asserted>>

CallbackCall ==
    /\ LoopAt("callback")
    /\ ~called
    /\ \E c \in CallbackCalls[firing] : BeginCall(TimerThread, c[1], c[2])
    /\ called' = TRUE
    /\ UNCHANGED <<now, timers, repeats, scheduled, incallback, fire, lock, locals, calls,
                   started, overtaken, stopped, asserted>>

Fired ==
    /\ LoopAt("callback")
    /\ CallbackMust => called
    /\ incallback' = [incallback EXCEPT ![firing] = FALSE]
    /\ loop' = "fired"
    /\ UNCHANGED <<now, timers, interval, repeats, scheduled, fire, lock, timer, firing,
                   deadline, call, ghosts, stopped, asserted>>

\* A bug: the repeating timer that has been fired is not scheduled again.
ForgetRepeat ==
    /\ LoopAt("fired")
    /\ loop' = "look"
    /\ timer' = NoTimer /\ firing' = NoTimer /\ deadline' = 0
    /\ UNCHANGED <<now, timers, fields, lock, call, ghosts, stopped, asserted>>

\* if(timer->repeats) _wi_timer_schedule(fire_timer): the flag is that of
\* `timer', the timer that is scheduled is `fire_timer'.
Repeat ==
    /\ LoopAt("fired")
    /\ IF repeats[timer] THEN Begin(TimerThread, "repeat", firing, "set") ELSE UNCHANGED call
    /\ loop' = "look"
    /\ timer' = NoTimer /\ firing' = NoTimer /\ deadline' = 0
    /\ UNCHANGED <<now, timers, fields, lock, ghosts, stopped, asserted>>

Loop ==
    \/ Look \/ Sleep \/ Changed \/ Reset \/ TimedOut \/ LookAfterTimeout
    \/ Fire \/ CallbackCall \/ Fired \/ Repeat

\* Time passes, whatever the threads are doing.
Tick ==
    /\ Running
    /\ now < MaxTime
    /\ now' = now + 1
    /\ UNCHANGED <<timers, fields, lock, locals, call, ghosts, stopped, asserted>>

Next ==
    \/ Tick
    \/ Loop
    \/ \E u \in Users : UserCall(u)
    \/ \E a \in Actors : CallStep(a)

Spec == Init /\ [][Next]_vars

\* Threads are scheduled, time passes, and a thread that waits for the lock
\* gets it some time (strong fairness on the steps that take it).
Fairness ==
    /\ WF_vars(Tick)
    /\ WF_vars(Look \/ Sleep \/ Reset \/ LookAfterTimeout \/ Fire \/ CallbackCall \/ Fired
              \/ Repeat)
    /\ SF_vars(Changed \/ TimedOut)
    /\ \A a \in Actors : SF_vars(CallStep(a))

FairSpec == Spec /\ Fairness

-----------------------------------------------------------------------------
(* Properties *)

Calls == {"none", "schedule", "reschedule", "invalidate", "expire", "repeat"}
Steps == {"none", "check", "guard", "enter", "set", "insert", "mark", "remove", "unmark",
          "unguard"}
Places == {"none", "look", "wait", "locked", "late", "fire", "callback", "fired"}

\* Every variable keeps its type.
TypeOK ==
    /\ now \in 0 .. MaxTime
    /\ \A i \in DOMAIN timers : timers[i] \in Timers
    /\ interval \in [Timers -> Nat \ {0}]
    /\ repeats \in [Timers -> BOOLEAN]
    /\ scheduled \in [Timers -> BOOLEAN]
    /\ incallback \in [Timers -> BOOLEAN]
    /\ fire \in [Timers -> Nat]
    /\ Lock!TypeOK
    /\ loop \in Places
    /\ {timer, firing} \subseteq Timers \cup {NoTimer}
    /\ call \in [Actors -> [fn : Calls, of : Timers \cup {NoTimer}, at : Steps]]
    /\ {called, asserted} \subseteq BOOLEAN
    /\ started \cup stopped \cup overtaken \subseteq Timers

\* Whether some thread is inside a call that works on x.
Busy(x) == \E a \in Actors : call[a].of = x

\* A thread has the lock outside of any call: nobody gives it back before that
\* thread makes another one.
LockIsKept == \E u \in Users : phase[u] = "in" /\ call[u] = NoCall

\* A repeating timer stays scheduled from its first call on, except while it is
\* being fired, until another timer's callback invalidates it.
RepeatingStays ==
    \A x \in started \ stopped :
        repeats[x] /\ ~Busy(x) /\ firing # x => x \in Range(timers)

\* The array the thread fires from is sorted by fire date and holds no timer
\* twice, and what is in it is marked between calls on it.  Only a timer that was
\* fired before its call was over can be marked without being there; only then
\* the second read of `incallback' in that call differs from the first, a thread
\* leaves its call with the lock held, and a mutex reports an error later.
ArrayAgrees ==
    /\ \A i, j \in DOMAIN timers :
          i < j => timers[i] # timers[j] /\ fire[timers[i]] <= fire[timers[j]]
    /\ \A x \in Timers : ~Busy(x) =>
          /\ x \in Range(timers) => scheduled[x]
          /\ scheduled[x] => x \in Range(timers) \/ x \in overtaken
    /\ RepeatingStays
    /\ overtaken = {} => ~asserted /\ ~LockIsKept

\* A callback does not run before its timer is due.
NeverEarly ==
    [][\A x \in Timers : ~incallback[x] /\ incallback'[x] => fire[x] - now <= Minimum]_vars

\* No timer is slept through: a timer in the array whose date the clock reaches
\* is taken out, to be fired or because a callback moved it, unless a thread has
\* left its call with the lock held, or an assertion has ended the process, after
\* a timer was fired before the call that scheduled it was over.
EventuallyFires ==
    \A x \in Timers :
        x \in Range(timers) /\ fire[x] <= MaxTime ~>
            x \notin Range(timers) \/ LockIsKept \/ asserted

\* A one-shot timer whose callback schedules it each time, as the one of
\* wi_test_timer_scheduling does, is fired again and again.
KeepsFiring == []<>(started # {}) => []<>(loop = "callback")

=============================================================================
