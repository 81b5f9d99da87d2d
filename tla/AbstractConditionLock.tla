------------------------ MODULE AbstractConditionLock ------------------------
(***************************************************************************)
(* What a condition lock promises the threads that use it: a monitor with  *)
(* one holder, a condition value that only the holder changes (and only as *)
(* it leaves), and a conditional entry that lets a thread in while the     *)
(* condition has the value the thread asked for.  A conditional entry with *)
(* a time limit may give up; without one it never returns empty-handed.    *)
(* Mutexes, condition variables and wake-ups belong to ConditionLock.      *)
(***************************************************************************)

CONSTANTS Threads,      \* the threads that use the lock
          Conditions,   \* the values the condition may take
          Initial       \* the condition the lock is created with

VARIABLES cond,         \* the condition
          phase,        \* what each thread is doing with the lock
          want,         \* the condition a conditional entry asked for
          timed         \* whether its request has a time limit

vars == <<cond, phase, want, timed>>

Phases == {"out", "lock", "when", "asleep", "in"}

TypeOK ==
    /\ cond \in Conditions
    /\ phase \in [Threads -> Phases]
    /\ want \in [Threads -> Conditions]
    /\ timed \in [Threads -> BOOLEAN]

Init ==
    /\ cond = Initial
    /\ phase = [t \in Threads |-> "out"]
    /\ want = [t \in Threads |-> Initial]
    /\ timed = [t \in Threads |-> FALSE]

Free == \A u \in Threads : phase[u] # "in"

Move(t, from, to) ==
    /\ phase[t] = from
    /\ phase' = [phase EXCEPT ![t] = to]

Request(t) ==
    /\ Move(t, "out", "lock")
    /\ UNCHANGED <<cond, want, timed>>

RequestWhen(t, c, limit) ==
    /\ Move(t, "out", "when")
    /\ want' = [want EXCEPT ![t] = c]
    /\ timed' = [timed EXCEPT ![t] = limit]
    /\ UNCHANGED cond

Enter(t) ==
    /\ Free
    /\ Move(t, "lock", "in")
    /\ UNCHANGED <<cond, want, timed>>

\* The request is over and its arguments are gone.
Forget(t) ==
    /\ want' = [want EXCEPT ![t] = Initial]
    /\ timed' = [timed EXCEPT ![t] = FALSE]

EnterWhen(t) ==
    /\ Free
    /\ cond = want[t]
    /\ Move(t, "when", "in")
    /\ Forget(t)
    /\ UNCHANGED cond

\* Another condition holds: the thread goes to sleep.
Block(t) ==
    /\ Free
    /\ cond # want[t]
    /\ Move(t, "when", "asleep")
    /\ UNCHANGED <<cond, want, timed>>

Awake(t) ==
    /\ Free
    /\ cond = want[t]
    /\ Move(t, "asleep", "in")
    /\ Forget(t)
    /\ UNCHANGED cond

\* A sleep with a time limit ends without the lock, but never while another
\* thread is inside; by then the condition may be the one asked for.
GiveUp(t) ==
    /\ Free
    /\ timed[t]
    /\ Move(t, "asleep", "out")
    /\ Forget(t)
    /\ UNCHANGED cond

TryEnter(t) ==
    /\ Free
    /\ Move(t, "out", "in")
    /\ UNCHANGED <<cond, want, timed>>

TryEnterWhen(t, c) ==
    /\ cond = c
    /\ TryEnter(t)

Leave(t) ==
    /\ Move(t, "in", "out")
    /\ UNCHANGED <<cond, want, timed>>

LeaveWith(t, c) ==
    /\ Move(t, "in", "out")
    /\ cond' = c
    /\ UNCHANGED <<want, timed>>

Next ==
    \E t \in Threads :
        \/ Request(t)
        \/ Enter(t)
        \/ EnterWhen(t) \/ Block(t) \/ Awake(t) \/ GiveUp(t)
        \/ TryEnter(t)
        \/ Leave(t)
        \/ \E c \in Conditions :
              \/ \E limit \in BOOLEAN : RequestWhen(t, c, limit)
              \/ TryEnterWhen(t, c)
              \/ LeaveWith(t, c)

Spec == Init /\ [][Next]_vars

=============================================================================
