------------------------------- MODULE MCTimer -------------------------------
(* Two user threads schedule timers; then the callback of a moves b about, and *)
(* that of b moves b itself.  All the timers repeat, or none does.             *)
EXTENDS Timer, TLC

CONSTANTS u1, u2, a, b

MCUsers == {u1, u2}
MCTimers == {a, b}
MCInterval == [x \in MCTimers |-> IF x = a THEN 2 ELSE 3]
MCRepeats == {[x \in MCTimers |-> r] : r \in BOOLEAN}
MCUserCalls ==
    [u \in MCUsers |-> {<<"schedule", x>> : x \in IF u = u1 THEN MCTimers ELSE {b}}]
MCNewIntervals == {2}
MCCallbackCalls ==
    [y \in MCTimers |-> {"schedule", "reschedule", "invalidate"} \X {b}]

\* The program of wi_test_timer_scheduling: one timer of the minimum interval.
TestTimers == {a}
TestUsers == {u1}
TestInterval == [x \in TestTimers |-> 1]
TestRepeats == {[x \in TestTimers |-> FALSE]}
TestUserCalls == [u \in TestUsers |-> {<<"schedule", a>>}]
TestCallbackCalls == [y \in TestTimers |-> {<<"schedule", a>>}]
=============================================================================
