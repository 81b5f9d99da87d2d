------------------------- MODULE ConditionLockProofs -------------------------
(***************************************************************************)
(* Theorems about wi-condition-lock.c, for any set of threads and of       *)
(* conditions: the types and the ownership of the mutex, the absence of    *)
(* lost wake-ups, and that the lock implements the monitor of              *)
(* AbstractConditionLock.                                                  *)
(***************************************************************************)
EXTENDS ConditionLock, TLAPS

\* What the steps of one thread are: Next without its quantifiers.
Step(t) ==
    \/ CallLock(t) \/ Lock(t)
    \/ LockWhen(t) \/ Obtain(t) \/ Block(t)
    \/ ObtainAfterWait(t) \/ GiveUp(t) \/ BlockAgain(t)
    \/ SpuriousWake(t) \/ Expire(t) \/ Reacquire(t)
    \/ TryLock(t)
    \/ Unlock(t) \/ Broadcast(t) \/ MutexUnlock(t)
    \/ \E c \in Conditions :
          \/ \E limit \in BOOLEAN : CallLockWhen(t, c, limit)
          \/ TryLockWhen(t, c)
          \/ UnlockWithCondition(t, c)

\* Every step is a step of one thread, and conversely.
LEMMA NextIsStep == Next <=> \E t \in Threads : Step(t)
  BY DEF Next, Step

\* The initial values have their types and nobody owns the mutex.
LEMMA TypeInit == Init => TypeOK
  BY NoThreadAssumption, InitialAssumption DEF Init, TypeOK, Inside

\* Each step of wi-condition-lock.c preserves the types and keeps the owner of
\* the mutex the one thread between its take and its release.
LEMMA TypeStep == TypeOK /\ [Next]_vars => TypeOK'
  <1> SUFFICES ASSUME TypeOK, [Next]_vars
               PROVE  TypeOK'
    OBVIOUS
  <1> USE NoThreadAssumption, InitialAssumption DEF TypeOK, Inside, Goto, Take, Drop, Forget
  <1>1. ASSUME NEW t \in Threads, CallLock(t)
        PROVE  TypeOK'
    BY <1>1 DEF CallLock
  <1>2. ASSUME NEW t \in Threads, Lock(t)
        PROVE  TypeOK'
    BY <1>2 DEF Lock
  <1>3. ASSUME NEW t \in Threads, LockWhen(t)
        PROVE  TypeOK'
    BY <1>3 DEF LockWhen
  <1>4. ASSUME NEW t \in Threads, Obtain(t) \/ ObtainAfterWait(t)
        PROVE  TypeOK'
    <2>1. CASE Obtain(t)
      BY <2>1 DEF Obtain
    <2>2. CASE ObtainAfterWait(t)
      BY <2>2 DEF ObtainAfterWait
    <2>3. QED
      BY <1>4, <2>1, <2>2
  <1>5. ASSUME NEW t \in Threads, GiveUp(t)
        PROVE  TypeOK'
    BY <1>5 DEF GiveUp
  <1>6. ASSUME NEW t \in Threads, Block(t) \/ BlockAgain(t)
        PROVE  TypeOK'
    BY <1>6 DEF Block, BlockAgain
  <1>7. ASSUME NEW t \in Threads, SpuriousWake(t)
        PROVE  TypeOK'
    BY <1>7 DEF SpuriousWake
  <1>8. ASSUME NEW t \in Threads, Expire(t)
        PROVE  TypeOK'
    BY <1>8 DEF Expire
  <1>9. ASSUME NEW t \in Threads, Reacquire(t)
        PROVE  TypeOK'
    BY <1>9 DEF Reacquire
  <1>10. ASSUME NEW t \in Threads, TryLock(t)
         PROVE  TypeOK'
    BY <1>10 DEF TryLock
  <1>11. ASSUME NEW t \in Threads, Unlock(t)
         PROVE  TypeOK'
    BY <1>11 DEF Unlock
  <1>12. ASSUME NEW t \in Threads, Broadcast(t)
         PROVE  TypeOK'
    BY <1>12 DEF Broadcast
  <1>13. ASSUME NEW t \in Threads, MutexUnlock(t)
         PROVE  TypeOK'
    BY <1>13 DEF MutexUnlock
  <1>14. ASSUME NEW t \in Threads, NEW c \in Conditions, NEW limit \in BOOLEAN,
                CallLockWhen(t, c, limit)
         PROVE  TypeOK'
    BY <1>14 DEF CallLockWhen
  <1>15. ASSUME NEW t \in Threads, NEW c \in Conditions, TryLockWhen(t, c)
         PROVE  TypeOK'
    BY <1>15 DEF TryLockWhen
  <1>16. ASSUME NEW t \in Threads, NEW c \in Conditions, UnlockWithCondition(t, c)
         PROVE  TypeOK'
    BY <1>16 DEF UnlockWithCondition
  <1>17. CASE UNCHANGED vars
    BY <1>17 DEF vars
  <1>18. QED
    BY <1>1, <1>2, <1>3, <1>4, <1>5, <1>6, <1>7, <1>8, <1>9, <1>10, <1>11, <1>12,
       <1>13, <1>14, <1>15, <1>16, <1>17, NextIsStep DEF Step

\* Every variable keeps its type, and at most one thread is between taking the
\* mutex and releasing it: the one that owns it.
THEOREM TypeCorrect == Spec => []TypeOK
  <1>1. QED
    BY TypeInit, TypeStep, PTL DEF Spec

-----------------------------------------------------------------------------

\* A sleeper whose condition is true has a broadcast coming, after every step:
\* only unlock_with_condition makes a condition true, and it moves to its
\* broadcast; only the broadcast leaves that point, and no sleeper survives it.
LEMMA WakeupStep == TypeOK /\ NoLostWakeup /\ [Next]_vars => NoLostWakeup'
  <1> SUFFICES ASSUME TypeOK, NoLostWakeup, [Next]_vars
               PROVE  NoLostWakeup'
    OBVIOUS
  <1> USE DEF TypeOK, NoLostWakeup, Goto, Forget
  <1>1. ASSUME NEW t \in Threads, CallLock(t) \/ Lock(t) \/ TryLock(t)
        PROVE  NoLostWakeup'
    BY <1>1 DEF CallLock, Lock, TryLock
  <1>2. ASSUME NEW t \in Threads, LockWhen(t) \/ SpuriousWake(t) \/ Expire(t) \/ Reacquire(t)
        PROVE  NoLostWakeup'
    BY <1>2 DEF LockWhen, SpuriousWake, Expire, Reacquire
  <1>3. ASSUME NEW t \in Threads, Obtain(t) \/ ObtainAfterWait(t)
        PROVE  NoLostWakeup'
    BY <1>3 DEF Obtain, ObtainAfterWait
  <1>4. ASSUME NEW t \in Threads, GiveUp(t)
        PROVE  NoLostWakeup'
    BY <1>4 DEF GiveUp
  <1>5. ASSUME NEW t \in Threads, Block(t) \/ BlockAgain(t)
        PROVE  NoLostWakeup'
    BY <1>5 DEF Block, BlockAgain
  <1>6. ASSUME NEW t \in Threads, Unlock(t) \/ MutexUnlock(t)
        PROVE  NoLostWakeup'
    BY <1>6 DEF Unlock, MutexUnlock
  <1>7. ASSUME NEW t \in Threads, Broadcast(t)
        PROVE  NoLostWakeup'
    BY <1>7 DEF Broadcast
  <1>8. ASSUME NEW t \in Threads, NEW c \in Conditions, NEW limit \in BOOLEAN,
               CallLockWhen(t, c, limit)
        PROVE  NoLostWakeup'
    BY <1>8 DEF CallLockWhen
  <1>9. ASSUME NEW t \in Threads, NEW c \in Conditions, TryLockWhen(t, c)
        PROVE  NoLostWakeup'
    BY <1>9 DEF TryLockWhen
  <1>10. ASSUME NEW t \in Threads, NEW c \in Conditions, UnlockWithCondition(t, c)
         PROVE  NoLostWakeup'
    <2>1. pc'[t] = "broadcast"
      BY <1>10 DEF UnlockWithCondition
    <2>2. QED
      BY <2>1
  <1>11. CASE UNCHANGED vars
    BY <1>11 DEF vars
  <1>12. QED
    BY <1>1, <1>2, <1>3, <1>4, <1>5, <1>6, <1>7, <1>8, <1>9, <1>10, <1>11, NextIsStep
       DEF Step

\* No wake-up is lost: a thread asleep in wi_condition_lock_lock_when_condition
\* whose condition holds is about to be woken.
THEOREM WakeupsAreNotLost == Spec => []NoLostWakeup
  <1>1. Init => NoLostWakeup
    BY DEF Init, NoLostWakeup
  <1>2. QED
    BY <1>1, TypeInit, TypeStep, WakeupStep, PTL DEF Spec

-----------------------------------------------------------------------------

\* ETIMEDOUT is the end of a call with a time limit, between its wait and its
\* return: what makes an empty-handed return legal.
Expiry == \A t \in Threads : expired[t] => timed[t] /\ pc[t] \in {"woken", "retest"}

\* Only a timed wait expires, and the return that follows forgets it.
LEMMA ExpiryStep == TypeOK /\ Expiry /\ [Next]_vars => Expiry'
  <1> SUFFICES ASSUME TypeOK, Expiry, [Next]_vars
               PROVE  Expiry'
    OBVIOUS
  <1> USE DEF TypeOK, Expiry, Goto, Forget
  <1>1. ASSUME NEW t \in Threads, CallLock(t) \/ Lock(t) \/ TryLock(t) \/ LockWhen(t)
        PROVE  Expiry'
    BY <1>1 DEF CallLock, Lock, TryLock, LockWhen
  <1>2. ASSUME NEW t \in Threads, SpuriousWake(t) \/ Reacquire(t) \/ Block(t) \/ BlockAgain(t)
        PROVE  Expiry'
    BY <1>2 DEF SpuriousWake, Reacquire, Block, BlockAgain
  <1>3. ASSUME NEW t \in Threads, Expire(t)
        PROVE  Expiry'
    BY <1>3 DEF Expire
  <1>4. ASSUME NEW t \in Threads, Obtain(t) \/ ObtainAfterWait(t) \/ GiveUp(t)
        PROVE  Expiry'
    BY <1>4 DEF Obtain, ObtainAfterWait, GiveUp
  <1>5. ASSUME NEW t \in Threads, Unlock(t) \/ MutexUnlock(t)
        PROVE  Expiry'
    BY <1>5 DEF Unlock, MutexUnlock
  <1>6. ASSUME NEW t \in Threads, Broadcast(t)
        PROVE  Expiry'
    BY <1>6 DEF Broadcast
  <1>7. ASSUME NEW t \in Threads, NEW c \in Conditions, NEW limit \in BOOLEAN,
               CallLockWhen(t, c, limit)
        PROVE  Expiry'
    BY <1>7 DEF CallLockWhen
  <1>8. ASSUME NEW t \in Threads, NEW c \in Conditions,
               TryLockWhen(t, c) \/ UnlockWithCondition(t, c)
        PROVE  Expiry'
    BY <1>8 DEF TryLockWhen, UnlockWithCondition
  <1>9. CASE UNCHANGED vars
    BY <1>9 DEF vars
  <1>10. QED
    BY <1>1, <1>2, <1>3, <1>4, <1>5, <1>6, <1>7, <1>8, <1>9, NextIsStep DEF Step

-----------------------------------------------------------------------------

\* Where a thread is in the code decides which phase of the monitor it is in.
LEMMA PhaseOf ==
  ASSUME NEW t \in Threads
  PROVE  /\ pc[t] = "lock" => Phase[t] = "lock"
         /\ pc[t] = "held" => Phase[t] = "in"
         /\ pc[t] \in {"lockwhen", "test"} => Phase[t] = "when"
         /\ pc[t] \in {"wait", "woken", "retest"} => Phase[t] = "asleep"
         /\ pc[t] \in {"idle", "broadcast", "unlock"} => Phase[t] = "out"
  BY DEF Phase, Waiting, Asleep

\* A thread that owns the mutex finds nobody else inside the monitor, and a
\* free mutex means that nobody is.
LEMMA FreeMutex ==
  ASSUME TypeOK,
         owner = NoThread \/ \E t \in Threads : owner = t /\ pc[t] # "held"
  PROVE  Monitor!Free
  <1> SUFFICES ASSUME NEW u \in Threads, Phase[u] = "in"
               PROVE  FALSE
    BY DEF Monitor!Free
  <1>1. pc[u] = "held"
    BY PhaseOf DEF TypeOK, Inside
  <1>2. owner = u
    BY <1>1 DEF TypeOK, Inside
  <1>3. QED
    BY <1>1, <1>2, NoThreadAssumption

\* A step that moves one thread in the code moves that thread, and no other,
\* in the monitor.
LEMMA PhaseMove ==
  ASSUME TypeOK, NEW t \in Threads, NEW to, pc' = [pc EXCEPT ![t] = to]
  PROVE  /\ to = "lock" => Phase' = [Phase EXCEPT ![t] = "lock"]
         /\ to = "held" => Phase' = [Phase EXCEPT ![t] = "in"]
         /\ to \in {"lockwhen", "test"} => Phase' = [Phase EXCEPT ![t] = "when"]
         /\ to \in {"wait", "woken", "retest"} => Phase' = [Phase EXCEPT ![t] = "asleep"]
         /\ to \in {"idle", "broadcast", "unlock"} => Phase' = [Phase EXCEPT ![t] = "out"]
  <1>1. pc'[t] = to /\ \A u \in Threads \ {t} : pc'[u] = pc[u]
    BY DEF TypeOK
  <1>2. QED
    BY <1>1 DEF Phase, Waiting, Asleep

\* A step that moves a thread without changing its phase does not show in the
\* monitor.
LEMMA PhaseSame ==
  ASSUME NEW t \in Threads, NEW ph, Phase[t] = ph
  PROVE  [Phase EXCEPT ![t] = ph] = Phase
  BY DEF Phase

\* The initial state of the lock is the initial state of the monitor.
LEMMA RefineInit == Init => Monitor!Init
  BY DEF Init, Monitor!Init, Phase, Waiting, Asleep

\* Every step of the code is a step of the monitor or leaves it alone.
LEMMA RefineStep == TypeOK /\ Expiry /\ [Next]_vars => [Monitor!Next]_(Monitor!vars)
  <1> SUFFICES ASSUME TypeOK, Expiry, [Next]_vars
               PROVE  Monitor!Next \/ UNCHANGED Monitor!vars
    OBVIOUS
  <1> USE DEF Goto, Monitor!Move
  <1>1. ASSUME NEW t \in Threads, CallLock(t)
        PROVE  Monitor!Request(t)
    BY <1>1, PhaseMove, PhaseOf DEF CallLock, Monitor!Request
  <1>2. ASSUME NEW t \in Threads, Lock(t)
        PROVE  Monitor!Enter(t)
    BY <1>2, PhaseMove, PhaseOf, FreeMutex DEF Lock, Take, Monitor!Enter
  <1>3. ASSUME NEW t \in Threads,
               LockWhen(t) \/ SpuriousWake(t) \/ Expire(t) \/ Reacquire(t) \/ BlockAgain(t)
        PROVE  UNCHANGED Monitor!vars
    <2>1. Phase' = [Phase EXCEPT ![t] = Phase[t]]
      BY <1>3, PhaseMove, PhaseOf
         DEF LockWhen, SpuriousWake, Expire, Reacquire, BlockAgain
    <2>2. Phase' = Phase
      BY <2>1, PhaseSame
    <2>3. UNCHANGED <<condition, want, timed>>
      BY <1>3 DEF LockWhen, SpuriousWake, Expire, Reacquire, BlockAgain
    <2>4. QED
      BY <2>2, <2>3 DEF Monitor!vars
  <1>4. ASSUME NEW t \in Threads, Obtain(t)
        PROVE  Monitor!EnterWhen(t)
    <2>1. Monitor!Free
      BY <1>4, FreeMutex DEF Obtain
    <2>2. Phase[t] = "when" /\ Phase' = [Phase EXCEPT ![t] = "in"]
      BY <1>4, PhaseMove, PhaseOf DEF Obtain
    <2>3. QED
      BY <1>4, <2>1, <2>2 DEF Obtain, Forget, Monitor!EnterWhen, Monitor!Forget
  <1>5. ASSUME NEW t \in Threads, Block(t)
        PROVE  Monitor!Block(t)
    <2>1. Monitor!Free
      BY <1>5, FreeMutex DEF Block, Drop
    <2>2. Phase[t] = "when" /\ Phase' = [Phase EXCEPT ![t] = "asleep"]
      BY <1>5, PhaseMove, PhaseOf DEF Block
    <2>3. QED
      BY <1>5, <2>1, <2>2 DEF Block, Monitor!Block
  <1>14. ASSUME NEW t \in Threads, ObtainAfterWait(t)
         PROVE  Monitor!Awake(t)
    <2>1. Monitor!Free
      BY <1>14, FreeMutex DEF ObtainAfterWait
    <2>2. Phase[t] = "asleep" /\ Phase' = [Phase EXCEPT ![t] = "in"]
      BY <1>14, PhaseMove, PhaseOf DEF ObtainAfterWait
    <2>3. QED
      BY <1>14, <2>1, <2>2 DEF ObtainAfterWait, Forget, Monitor!Awake, Monitor!Forget
  <1>15. ASSUME NEW t \in Threads, GiveUp(t)
         PROVE  Monitor!GiveUp(t)
    <2>1. Monitor!Free
      BY <1>15, FreeMutex DEF GiveUp, Drop
    <2>2. Phase[t] = "asleep" /\ Phase' = [Phase EXCEPT ![t] = "out"]
      BY <1>15, PhaseMove, PhaseOf DEF GiveUp
    <2>3. QED
      BY <1>15, <2>1, <2>2 DEF GiveUp, Forget, Expiry, Monitor!GiveUp, Monitor!Forget
  <1>6. ASSUME NEW t \in Threads, Unlock(t)
        PROVE  Monitor!Leave(t)
    BY <1>6, PhaseMove, PhaseOf DEF Unlock, Monitor!Leave
  <1>7. ASSUME NEW t \in Threads, Broadcast(t)
        PROVE  UNCHANGED Monitor!vars
    <2>1. \A u \in Threads : \/ pc'[u] = pc[u]
                             \/ pc[u] = "broadcast" /\ pc'[u] = "unlock"
                             \/ pc[u] = "wait" /\ pc'[u] = "woken"
      BY <1>7 DEF Broadcast
    <2>2. Phase' = Phase
      BY <2>1 DEF Phase, Waiting, Asleep
    <2>3. QED
      BY <1>7, <2>2 DEF Broadcast, Monitor!vars
  <1>8. ASSUME NEW t \in Threads, MutexUnlock(t)
        PROVE  UNCHANGED Monitor!vars
    <2>1. Phase' = [Phase EXCEPT ![t] = "out"] /\ Phase[t] = "out"
      BY <1>8, PhaseMove, PhaseOf DEF MutexUnlock
    <2>2. QED
      BY <1>8, <2>1, PhaseSame DEF MutexUnlock, Monitor!vars
  <1>9. ASSUME NEW t \in Threads, TryLock(t)
        PROVE  Monitor!TryEnter(t)
    BY <1>9, PhaseMove, PhaseOf, FreeMutex DEF TryLock, Take, Monitor!TryEnter
  <1>10. ASSUME NEW t \in Threads, NEW c \in Conditions, NEW limit \in BOOLEAN,
                CallLockWhen(t, c, limit)
         PROVE  Monitor!RequestWhen(t, c, limit)
    BY <1>10, PhaseMove, PhaseOf DEF CallLockWhen, Monitor!RequestWhen
  <1>11. ASSUME NEW t \in Threads, NEW c \in Conditions, TryLockWhen(t, c)
         PROVE  Monitor!TryEnterWhen(t, c) \/ UNCHANGED Monitor!vars
    <2>1. Monitor!Free /\ Phase[t] = "out"
      BY <1>11, FreeMutex, PhaseOf DEF TryLockWhen, Take
    <2>2. CASE condition = c
      <3>1. Phase' = [Phase EXCEPT ![t] = "in"]
        BY <1>11, <2>2, PhaseMove DEF TryLockWhen
      <3>2. QED
        BY <1>11, <2>1, <2>2, <3>1 DEF TryLockWhen, Monitor!TryEnterWhen, Monitor!TryEnter
    <2>3. CASE condition # c
      <3>1. Phase' = [Phase EXCEPT ![t] = "out"]
        BY <1>11, <2>3, PhaseMove DEF TryLockWhen
      <3>2. QED
        BY <1>11, <2>1, <3>1, PhaseSame DEF TryLockWhen, Monitor!vars
    <2>4. QED
      BY <2>2, <2>3
  <1>12. ASSUME NEW t \in Threads, NEW c \in Conditions, UnlockWithCondition(t, c)
         PROVE  Monitor!LeaveWith(t, c)
    BY <1>12, PhaseMove, PhaseOf DEF UnlockWithCondition, Monitor!LeaveWith
  <1>13. CASE UNCHANGED vars
    BY <1>13 DEF vars, Monitor!vars, Phase, Waiting, Asleep
  <1>16. QED
    BY <1>1, <1>2, <1>3, <1>4, <1>5, <1>6, <1>7, <1>8, <1>9, <1>10, <1>11, <1>12,
       <1>13, <1>14, <1>15, NextIsStep DEF Step, Monitor!Next

\* wi-condition-lock.c implements the monitor: mutual exclusion, entry only
\* while the condition is the one asked for, and no empty return from a call
\* without a time limit, for any number of threads and any conditions.
THEOREM ImplementsMonitor == Spec => Implements
  <1>1. Init => Expiry
    BY DEF Init, Expiry
  <1>2. QED
    BY <1>1, RefineInit, TypeInit, TypeStep, ExpiryStep, RefineStep, PTL
       DEF Spec, Implements, Monitor!Spec
=============================================================================
