-------------------------------- MODULE Lists --------------------------------
(***************************************************************************)
(* Lemmas about the operators on sequences and numbers that the models     *)
(* take from the community modules.                                        *)
(***************************************************************************)
EXTENDS Integers, SequencesExt, SequenceTheorems, NaturalsInduction, WellFoundedInduction, TLAPS

(* The least and the greatest number *)

LEMMA MaxOfTwo ==
    ASSUME NEW a \in Int, NEW b \in Int
    PROVE  Max({a, b}) = IF a >= b THEN a ELSE b
<1> DEFINE m == IF a >= b THEN a ELSE b
<1>1. m \in {a, b} /\ \A y \in {a, b} : m >= y
  OBVIOUS
<1>2. \A x \in {a, b} : (\A y \in {a, b} : x >= y) => x = m
  OBVIOUS
<1> QED
  BY <1>1, <1>2 DEF Max

LEMMA MinOfTwo ==
    ASSUME NEW a \in Int, NEW b \in Int
    PROVE  Min({a, b}) = IF a <= b THEN a ELSE b
<1> DEFINE m == IF a <= b THEN a ELSE b
<1>1. m \in {a, b} /\ \A y \in {a, b} : m <= y
  OBVIOUS
<1>2. \A x \in {a, b} : (\A y \in {a, b} : x <= y) => x = m
  OBVIOUS
<1> QED
  BY <1>1, <1>2 DEF Min

LEMMA LeastNumber ==
    ASSUME NEW S \in SUBSET Nat, S # {}
    PROVE  Min(S) \in S /\ \A n \in S : Min(S) <= n
<1> DEFINE R == {ss \in Nat \X Nat : ss[1] < ss[2]}
<1>1. IsWellFoundedOn(R, Nat)
  BY NatLessThanWellFounded DEF OpToRel
<1> HIDE DEF R
<1>2. \E m \in S : \A n \in S : ~ (<<n, m>> \in R)
  BY <1>1, WFMin
<1>3. PICK m \in S : \A n \in S : ~ (<<n, m>> \in R)
  BY <1>2
<1>4. \A n \in S : ~ (n < m)
  BY <1>3 DEF R
<1>5. \A n \in S : m <= n
  BY <1>4
<1> QED
  BY <1>5 DEF Min

(* Induction, with the set of the numbers that have the property *)

LEMMA InductionUpTo ==
    ASSUME NEW n \in Nat, NEW S, 0 \in S, \A i \in 0 .. n - 1 : i \in S => i + 1 \in S
    PROVE  \A i \in 0 .. n : i \in S
<1> DEFINE Without == {i \in 0 .. n : i \notin S}
<1> SUFFICES ASSUME Without # {} PROVE FALSE
  OBVIOUS
<1>1. PICK m \in Without : \A i \in Without : m <= i
  <2>1. Without \in SUBSET Nat
    OBVIOUS
  <2> QED
    BY <2>1, LeastNumber
<1>2. m \in Nat /\ m # 0 /\ m <= n /\ m \notin S
  OBVIOUS
<1>3. m - 1 \in 0 .. n - 1 /\ m - 1 \notin Without
  BY <1>1, <1>2
<1>4. m - 1 \in S
  BY <1>3
<1>5. m - 1 + 1 \in S
  BY <1>3, <1>4
<1> QED
  BY <1>2, <1>5

\* The first place of e is taken out.
LEMMA RemoveFirstRemoves ==
    ASSUME NEW S, NEW s \in Seq(S), NEW e, NEW k \in 1 .. Len(s), s[k] = e,
           \A j \in 1 .. Len(s) : s[j] = e => k <= j
    PROVE  /\ RemoveFirst(s, e) \in Seq(S) /\ Len(RemoveFirst(s, e)) = Len(s) - 1
           /\ \A j \in 1 .. Len(s) - 1 : RemoveFirst(s, e)[j] = IF j < k THEN s[j] ELSE s[j + 1]
<1> DEFINE I == {i \in 1 .. Len(s) : s[i] = e}
<1>1. Min(I) = k
  <2>1. I \in SUBSET Nat /\ k \in I
    OBVIOUS
  <2>2. Min(I) \in I /\ Min(I) <= k
    BY <2>1, LeastNumber
  <2> QED
    BY <2>2
<1>2. SelectInSeq(s, LAMBDA v : v = e) = Min(I)
  BY DEF SelectInSeq
<1>3. RemoveFirst(s, e) = SubSeq(s, 1, k - 1) \o SubSeq(s, k + 1, Len(s))
  BY <1>1, <1>2 DEF RemoveFirst, RemoveAt
<1> DEFINE front == SubSeq(s, 1, k - 1)
           back == SubSeq(s, k + 1, Len(s))
<1>4. /\ front \in Seq(S) /\ Len(front) = k - 1 /\ \A j \in 1 .. k - 1 : front[j] = s[j]
      /\ back \in Seq(S) /\ Len(back) = Len(s) - k
      /\ \A j \in 1 .. Len(s) - k : back[j] = s[j + k]
  OBVIOUS
<1> HIDE DEF front, back
<1>5. /\ front \o back \in Seq(S) /\ Len(front \o back) = Len(front) + Len(back)
      /\ \A j \in 1 .. Len(front) + Len(back) :
            (front \o back)[j] = IF j <= Len(front) THEN front[j] ELSE back[j - Len(front)]
  BY <1>4, ConcatProperties
<1>6. Len(s) \in Nat /\ Len(front) + Len(back) = Len(s) - 1
  BY <1>4
<1>7. ASSUME NEW j \in 1 .. Len(s) - 1
      PROVE  (front \o back)[j] = IF j < k THEN s[j] ELSE s[j + 1]
  <2>1. CASE j < k
    BY <1>4, <1>5, <1>6, <2>1
  <2>2. CASE ~ (j < k)
    <3>1. j - (k - 1) \in 1 .. Len(s) - k /\ (j - (k - 1)) + k = j + 1 /\ ~ (j <= k - 1)
      BY <1>6, <2>2
    <3>2. (front \o back)[j] = back[j - (k - 1)]
      BY <1>4, <1>5, <1>6, <3>1
    <3> QED
      BY <1>4, <2>2, <3>1, <3>2
  <2> QED
    BY <2>1, <2>2
<1> QED
  BY <1>3, <1>5, <1>6, <1>7 DEF front, back

LEMMA RemoveFirstKeeps ==
    ASSUME NEW S, NEW s \in Seq(S), NEW e
    PROVE  RemoveFirst(s, e) \in Seq(S)
<1> DEFINE I == {i \in 1 .. Len(s) : s[i] = e}
<1>1. CASE I = {}
  BY <1>1 DEF RemoveFirst
<1>2. CASE I # {}
  <2>1. I \in SUBSET Nat
    OBVIOUS
  <2>2. Min(I) \in I
    BY <1>2, <2>1, LeastNumber
  <2>3. SelectInSeq(s, LAMBDA v : v = e) = Min(I)
    BY <1>2 DEF SelectInSeq
  <2> DEFINE k == Min(I)
  <2>4. RemoveFirst(s, e) = SubSeq(s, 1, k - 1) \o SubSeq(s, k + 1, Len(s))
    BY <2>2, <2>3 DEF RemoveFirst, RemoveAt
  <2>5. k \in 1 .. Len(s)
    BY <2>2
  <2> HIDE DEF k
  <2>6. SubSeq(s, 1, k - 1) \in Seq(S) /\ SubSeq(s, k + 1, Len(s)) \in Seq(S)
    BY <2>5
  <2> QED
    BY <2>4, <2>6
<1> QED
  BY <1>1, <1>2

LEMMA Joined ==
    ASSUME NEW S, NEW s \in Seq(S), NEW t \in Seq(S)
    PROVE  /\ s \o t \in Seq(S) /\ Len(s \o t) = Len(s) + Len(t)
           /\ \A j \in 1 .. Len(s) : (s \o t)[j] = s[j]
           /\ \A j \in Len(s) + 1 .. Len(s) + Len(t) : (s \o t)[j] = t[j - Len(s)]
BY ConcatProperties

\* Behind the last item
LEMMA InsertAtEnd ==
    ASSUME NEW S, NEW s \in Seq(S), NEW e \in S
    PROVE  InsertAt(s, Len(s) + 1, e) = Append(s, e)
<1> DEFINE front == SubSeq(s, 1, Len(s) + 1 - 1)
           back == SubSeq(s, Len(s) + 1, Len(s))
<1>1. front = s /\ back = <<>>
  OBVIOUS
<1>2. InsertAt(s, Len(s) + 1, e) = front \o <<e>> \o back
  BY DEF InsertAt
<1> HIDE DEF front, back
<1> QED
  BY <1>1, <1>2

\* The items behind the place k go one further.
LEMMA InsertAtInserts ==
    ASSUME NEW S, NEW s \in Seq(S), NEW e \in S, NEW k \in 1 .. Len(s)
    PROVE  /\ InsertAt(s, k, e) \in Seq(S) /\ Len(InsertAt(s, k, e)) = Len(s) + 1
           /\ \A j \in 1 .. Len(s) + 1 :
                  InsertAt(s, k, e)[j] = IF j < k THEN s[j] ELSE IF j = k THEN e ELSE s[j - 1]
<1> DEFINE front == SubSeq(s, 1, k - 1)
           back == SubSeq(s, k, Len(s))
           one == <<e>>
           most == front \o one
<1>1. /\ front \in Seq(S) /\ Len(front) = k - 1 /\ \A j \in 1 .. k - 1 : front[j] = s[j]
      /\ back \in Seq(S) /\ Len(back) = Len(s) - k + 1
      /\ \A j \in 1 .. Len(s) - k + 1 : back[j] = s[j + k - 1]
      /\ one \in Seq(S) /\ Len(one) = 1 /\ one[1] = e
  OBVIOUS
<1>2. InsertAt(s, k, e) = most \o back
  BY DEF InsertAt
<1> HIDE DEF front, back, one
<1>3. /\ most \in Seq(S) /\ Len(most) = Len(front) + Len(one)
      /\ \A j \in 1 .. Len(front) : most[j] = front[j]
      /\ \A j \in Len(front) + 1 .. Len(front) + Len(one) : most[j] = one[j - Len(front)]
  <2>1. front \in Seq(S) /\ one \in Seq(S)
    BY <1>1
  <2> QED
    BY <2>1, Joined
<1> HIDE DEF most
<1>4. /\ most \o back \in Seq(S) /\ Len(most \o back) = Len(most) + Len(back)
      /\ \A j \in 1 .. Len(most) : (most \o back)[j] = most[j]
      /\ \A j \in Len(most) + 1 .. Len(most) + Len(back) : (most \o back)[j] = back[j - Len(most)]
  <2>1. most \in Seq(S) /\ back \in Seq(S)
    BY <1>1, <1>3
  <2> QED
    BY <2>1, Joined
<1>5. Len(s) \in Nat /\ Len(most) = k /\ Len(most) + Len(back) = Len(s) + 1
  BY <1>1, <1>3
<1>6. ASSUME NEW j \in 1 .. Len(s) + 1
      PROVE  (most \o back)[j] = IF j < k THEN s[j] ELSE IF j = k THEN e ELSE s[j - 1]
  <2>1. CASE j < k
    <3>1. j \in 1 .. k - 1 /\ j \in 1 .. k
      BY <1>5, <2>1
    <3>2. (most \o back)[j] = most[j] /\ most[j] = front[j] /\ front[j] = s[j]
      BY <1>1, <1>3, <1>4, <1>5, <3>1
    <3> QED
      BY <2>1, <3>2
  <2>2. CASE j = k
    <3>1. k \in (k - 1) + 1 .. (k - 1) + 1 /\ k - (k - 1) = 1 /\ k \in 1 .. k
      OBVIOUS
    <3>2. (most \o back)[k] = most[k] /\ most[k] = one[1]
      BY <1>1, <1>3, <1>4, <1>5, <3>1
    <3> QED
      BY <1>1, <2>2, <3>2
  <2>3. CASE j > k
    <3>1. /\ j \in k + 1 .. Len(s) + 1
          /\ j - k \in 1 .. Len(s) - k + 1 /\ (j - k) + k - 1 = j - 1
      BY <1>5, <2>3
    <3>2. (most \o back)[j] = back[j - k] /\ back[j - k] = s[j - 1]
      BY <1>1, <1>4, <1>5, <3>1
    <3>3. ~ (j < k) /\ j # k
      BY <2>3
    <3> QED
      BY <3>2, <3>3
  <2> QED
    BY <1>5, <2>1, <2>2, <2>3
<1> QED
  BY <1>1, <1>2, <1>4, <1>5, <1>6

=============================================================================
