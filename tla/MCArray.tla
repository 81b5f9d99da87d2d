------------------------------- MODULE MCArray -------------------------------
EXTENDS Array

CONSTANTS a1, a2, b

MCData == {a1, a2, b}

\* Two equal instances, and one that comes first.
MCValue == [d \in MCData |-> IF d = b THEN 1 ELSE 2]

\* WI_MAX(wi_exp2m1(wi_log2(n) + 1), 1)
MCCapacity == [n \in 0 .. MaxLength |-> CASE n < 2 -> 1 [] n \in 2 .. 3 -> 3 [] n \in 4 .. 7 -> 7]

MCOthers == {<<>>, <<b>>, <<b, a1>>, <<a2, a2>>}

MCIndexSets == {<<>>, <<2>>, <<1, 2>>, <<1, 3>>}

=============================================================================
