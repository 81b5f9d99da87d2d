--------------------------- MODULE MCConditionLock ---------------------------
(* ConditionLock with three threads and the two conditions the library uses. *)
EXTENDS ConditionLock, TLC

CONSTANTS t1, t2, t3

MCThreads == {t1, t2, t3}
MCConditions == {0, 1}
=============================================================================
