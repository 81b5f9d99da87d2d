---------------------------- MODULE ConditionLock ----------------------------
(***************************************************************************)
(* thread/wi-condition-lock.c: one condition lock and the threads that     *)
(* call it.  The lock is an error-checking pthread mutex (`owner'), a      *)
(* pthread condition variable (the threads whose pc is "wait") and an      *)
(* integer condition.  Each pthread call is a step of its own, so that     *)
(* wake-ups, time-outs and the race for the mutex after a wait interleave. *)
(*                                                                         *)
(* Callers are held to the lock's own rule, which the error-checking mutex *)
(* asserts: a thread unlocks only what it holds and never locks twice.     *)
(***************************************************************************)

CONSTANTS Threads,      \* the threads that use the lock
          NoThread,     \* the owner of a free mutex
          Conditions,   \* the values the int condition may take
          Initial       \* the condition of wi_condition_lock_init_with_condition

ASSUME NoThreadAssumption == NoThread \notin Threads
ASSUME InitialAssumption == Initial \in Conditions

VARIABLES owner,        \* the thread that owns the mutex, or NoThread
          condition,    \* lock->condition
          pc,           \* where each thread is in its call
          want,         \* argument `condition' of lock_when_condition
          timed,        \* whether its argument `time' is > 0.0
          expired       \* whether its last timed wait ended with ETIMEDOUT

vars == <<owner, condition, pc, want, timed, expired>>

Init ==
    /\ owner = NoThread
    /\ condition = Initial
    /\ pc = [t \in Threads |-> "idle"]
    /\ want = [t \in Threads |-> Initial]
    /\ timed = [t \in Threads |-> FALSE]
    /\ expired = [t \in Threads |-> FALSE]

Goto(t, from, to) ==
    /\ pc[t] = from
    /\ pc' = [pc EXCEPT ![t] = to]

\* The arguments and locals of lock_when_condition end with the call.
Forget(t) ==
    /\ want' = [want EXCEPT ![t] = Initial]
    /\ timed' = [timed EXCEPT ![t] = FALSE]
    /\ expired' = [expired EXCEPT ![t] = FALSE]

\* pthread_mutex_lock returning, pthread_mutex_unlock.
Take(t) == owner = NoThread /\ owner' = t
Drop(t) == owner = t /\ owner' = NoThread

-----------------------------------------------------------------------------
(* wi_condition_lock_lock *)

CallLock(t) ==
    /\ Goto(t, "idle", "lock")
    /\ UNCHANGED <<owner, condition, want, timed, expired>>

Lock(t) ==
    /\ Take(t)
    /\ Goto(t, "lock", "held")
    /\ UNCHANGED <<condition, want, timed, expired>>

-----------------------------------------------------------------------------
(* wi_condition_lock_lock_when_condition *)

CallLockWhen(t, c, limit) ==
    /\ Goto(t, "idle", "lockwhen")
    /\ want' = [want EXCEPT ![t] = c]
    /\ timed' = [timed EXCEPT ![t] = limit]
    /\ UNCHANGED <<owner, condition, expired>>

LockWhen(t) ==
    /\ Take(t)
    /\ Goto(t, "lockwhen", "test")
    /\ UNCHANGED <<condition, want, timed, expired>>

\* The first look at the condition, before any wait.  pthread_cond_wait and
\* pthread_cond_timedwait release the mutex and block in one step.
Obtain(t) ==
    /\ owner = t
    /\ condition = want[t]
    /\ Goto(t, "test", "held")
    /\ Forget(t)
    /\ UNCHANGED <<owner, condition>>

Block(t) ==
    /\ condition # want[t]
    /\ Drop(t)
    /\ Goto(t, "test", "wait")
    /\ UNCHANGED <<condition, want, timed, expired>>

\* A bug: `if' for `while', the condition is not tested again after a wait.
ObtainUntested(t) ==
    /\ owner = t
    /\ ~expired[t]
    /\ Goto(t, "retest", "held")
    /\ Forget(t)
    /\ UNCHANGED <<owner, condition>>

\* After a wait the call returns true with the mutex held, ...
ObtainAfterWait(t) ==
    /\ owner = t
    /\ condition = want[t] /\ ~expired[t]
    /\ Goto(t, "retest", "held")
    /\ Forget(t)
    /\ UNCHANGED <<owner, condition>>

\* A bug: the mutex is still held when the call returns false.
GiveUpHolding(t) ==
    /\ owner = t
    /\ expired[t]
    /\ Goto(t, "retest", "idle")
    /\ Forget(t)
    /\ UNCHANGED <<owner, condition>>

\* ... or false after ETIMEDOUT, even if the condition has come true meanwhile,
\* or it waits again.
GiveUp(t) ==
    /\ expired[t]
    /\ Drop(t)
    /\ Goto(t, "retest", "idle")
    /\ Forget(t)
    /\ UNCHANGED condition

BlockAgain(t) ==
    /\ condition # want[t] /\ ~expired[t]
    /\ Drop(t)
    /\ Goto(t, "retest", "wait")
    /\ UNCHANGED <<condition, want, timed, expired>>

\* The wait ends with no broadcast, as POSIX allows.
SpuriousWake(t) ==
    /\ Goto(t, "wait", "woken")
    /\ UNCHANGED <<owner, condition, want, timed, expired>>

\* A bug: ETIMEDOUT is not told from an ordinary return.
ExpireUnnoticed(t) ==
    /\ timed[t]
    /\ Goto(t, "wait", "woken")
    /\ UNCHANGED <<owner, condition, want, timed, expired>>

Expire(t) ==
    /\ timed[t]
    /\ Goto(t, "wait", "woken")
    /\ expired' = [expired EXCEPT ![t] = TRUE]
    /\ UNCHANGED <<owner, condition, want, timed>>

\* The wait returns only once it has the mutex again.
Reacquire(t) ==
    /\ Take(t)
    /\ Goto(t, "woken", "retest")
    /\ UNCHANGED <<condition, want, timed, expired>>

-----------------------------------------------------------------------------
(* wi_condition_lock_try_lock and wi_condition_lock_try_lock_when_condition. *)
(* A call that finds the mutex taken returns false and changes nothing.      *)

TryLock(t) ==
    /\ Take(t)
    /\ Goto(t, "idle", "held")
    /\ UNCHANGED <<condition, want, timed, expired>>

\* With another condition the lock is given back by wi_condition_lock_unlock,
\* which wakes every waiter.
TryLockWhen(t, c) ==
    /\ Take(t)
    /\ Goto(t, "idle", IF condition = c THEN "held" ELSE "broadcast")
    /\ UNCHANGED <<condition, want, timed, expired>>

-----------------------------------------------------------------------------
(* wi_condition_lock_unlock and wi_condition_lock_unlock_with_condition *)

Unlock(t) ==
    /\ owner = t
    /\ Goto(t, "held", "broadcast")
    /\ UNCHANGED <<owner, condition, want, timed, expired>>

\* A bug: the condition is set and the mutex released, but nobody is told.
UnlockSilently(t, c) ==
    /\ owner = t
    /\ Goto(t, "held", "unlock")
    /\ condition' = c
    /\ UNCHANGED <<owner, want, timed, expired>>

UnlockWithCondition(t, c) ==
    /\ owner = t
    /\ Goto(t, "held", "broadcast")
    /\ condition' = c
    /\ UNCHANGED <<owner, want, timed, expired>>

\* A bug: pthread_cond_signal, which wakes a single waiter.
Signal(t) ==
    /\ pc[t] = "broadcast"
    /\ LET waiters == {u \in Threads : pc[u] = "wait"}
       IN  \E woken \in {{u} : u \in waiters} \cup (IF waiters = {} THEN {{}} ELSE {}) :
             pc' = [u \in Threads |-> IF u = t THEN "unlock"
                                      ELSE IF u \in woken THEN "woken" ELSE pc[u]]
    /\ UNCHANGED <<owner, condition, want, timed, expired>>

Broadcast(t) ==
    /\ pc[t] = "broadcast"
    /\ pc' = [u \in Threads |-> IF u = t THEN "unlock"
                                ELSE IF pc[u] = "wait" THEN "woken" ELSE pc[u]]
    /\ UNCHANGED <<owner, condition, want, timed, expired>>

MutexUnlock(t) ==
    /\ Drop(t)
    /\ Goto(t, "unlock", "idle")
    /\ UNCHANGED <<condition, want, timed, expired>>

-----------------------------------------------------------------------------

Next ==
    \E t \in Threads :
        \/ CallLock(t) \/ Lock(t)
        \/ LockWhen(t) \/ Obtain(t) \/ Block(t)
        \/ ObtainAfterWait(t) \/ GiveUp(t) \/ BlockAgain(t)
        \/ SpuriousWake(t) \/ Expire(t) \/ Reacquire(t)
        \/ TryLock(t)
        \/ Unlock(t) \/ Broadcast(t) \/ MutexUnlock(t)
        \/ \E c \in Conditions :
              \/ \E limit \in BOOLEAN : CallLockWhen(t, c, limit)
              \/ TryLockWhen(t, c)
              \/ UnlockWithCondition(t, c)

Spec == Init /\ [][Next]_vars

\* A thread that can take its next step takes it, and a holder leaves in the
\* end.  The mutex is granted to each thread that asks for ever (strong
\* fairness on taking it), and a time limit passes: the deadline is absolute,
\* so a wait that is resumed again and again still expires.  Nobody is made to
\* call the lock.
Fairness ==
    \A t \in Threads :
        /\ WF_vars(Obtain(t) \/ Block(t))
        /\ WF_vars(ObtainAfterWait(t) \/ GiveUp(t) \/ BlockAgain(t))
        /\ WF_vars(Broadcast(t) \/ MutexUnlock(t))
        /\ WF_vars(Unlock(t) \/ \E c \in Conditions : UnlockWithCondition(t, c))
        /\ SF_vars(Lock(t) \/ LockWhen(t) \/ Reacquire(t))
        /\ SF_vars(Expire(t))

FairSpec == Spec /\ Fairness

-----------------------------------------------------------------------------
(* Properties *)

Inside == {"test", "retest", "held", "broadcast", "unlock"}

\* The variables keep to their types, and the mutex belongs to exactly the
\* thread that is between a take and the matching release.
TypeOK ==
    /\ owner \in Threads \cup {NoThread}
    /\ condition \in Conditions
    /\ pc \in [Threads -> {"idle", "lock", "lockwhen", "wait", "woken"} \cup Inside]
    /\ want \in [Threads -> Conditions]
    /\ timed \in [Threads -> BOOLEAN]
    /\ expired \in [Threads -> BOOLEAN]
    /\ \A t \in Threads : pc[t] \in Inside <=> owner = t

\* No lost wake-up: a thread asleep in lock_when_condition whose condition has
\* come true is about to be woken, for whoever set the condition still has the
\* broadcast of unlock_with_condition ahead of it.
NoLostWakeup ==
    \A t \in Threads :
        pc[t] = "wait" /\ condition = want[t] => \E u \in Threads : pc[u] = "broadcast"

Asleep(t) == pc[t] \in {"wait", "woken", "retest"}
Waiting(t) == pc[t] \in {"lockwhen", "test"} \/ Asleep(t)

\* lock_when_condition with a time limit returns, whatever the other threads do.
TimedCallReturns ==
    \A t \in Threads : Waiting(t) /\ timed[t] ~> ~Waiting(t)

\* No thread waits for ever for a condition that stays true.
ServedWhenStable ==
    \A t \in Threads : []<>~(Waiting(t) /\ condition = want[t])

\* Seen from outside, a thread is inside from the return of its call until it
\* starts to unlock.
Phase ==
    [t \in Threads |->
        IF pc[t] = "lock" THEN "lock"
        ELSE IF pc[t] = "held" THEN "in"
        ELSE IF Asleep(t) THEN "asleep"
        ELSE IF Waiting(t) THEN "when"
        ELSE "out"]

Monitor == INSTANCE AbstractConditionLock
               WITH cond <- condition, phase <- Phase

\* The lock implements the monitor AbstractConditionLock describes: one thread
\* inside at a time, conditional entry only while the condition is the one
\* asked for, and a call with no time limit that never comes back without it.
Implements == Monitor!Spec

=============================================================================
