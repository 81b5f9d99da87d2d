---------------------------- MODULE HashTableProofs ----------------------------
(***************************************************************************)
(* Proofs about HashTable, for any keys, values, hash and sizes: every     *)
(* bucket is in the chain of its key or free, an entry holds what it       *)
(* refers to once, tables are told apart by their contents, the table      *)
(* implements the map of AbstractTable, and an enumerator hands out every  *)
(* key; and about IndexSet, that it is sorted.                             *)
(*                                                                         *)
(* A table is right when there are sequences of cells, one per chain, that *)
(* the pointers follow and that share no cell and no key (Right); what an  *)
(* edit does to these sequences is one lemma per edit.                     *)
(***************************************************************************)
EXTENDS Collections, Lists, FiniteSetTheorems

-----------------------------------------------------------------------------
(* The recursive functions of the operators are there *)

LEMMA Exp2m1Unfolds ==
    ASSUME NEW n \in Nat
    PROVE  \E exp : /\ exp[0] = 0 /\ Exp2m1(n) = exp[n]
                    /\ \A i \in 1 .. n : exp[i] = 2 * exp[i - 1] + 1
<1> DEFINE Is(f, k) == f = [m \in 0 .. k |-> IF m = 0 THEN 0 ELSE 2 * f[m - 1] + 1]
           Has(k) == \E f : Is(f, k)
           There == {k \in Nat : Has(k)}
<1>1. 0 \in There
  <2>1. Is([m \in 0 .. 0 |-> 0], 0)
    OBVIOUS
  <2> QED
    BY <2>1
<1>2. ASSUME NEW k \in 0 .. n - 1, Has(k) PROVE Has(k + 1)
  <2>1. PICK f : Is(f, k)
    BY <1>2
  <2> DEFINE g == [m \in 0 .. k + 1 |-> IF m = 0 THEN 0 ELSE 2 * f[m - 1] + 1]
  <2>2. \A m \in 0 .. k : g[m] = f[m]
    BY <2>1
  <2>3. \A m \in 0 .. k + 1 : m # 0 => m - 1 \in 0 .. k
    OBVIOUS
  <2>4. g = [m \in 0 .. k + 1 |-> IF m = 0 THEN 0 ELSE 2 * g[m - 1] + 1]
    BY <2>2, <2>3
  <2> HIDE DEF g
  <2> QED
    BY <2>4
<1> HIDE DEF Has
<1>3. \A k \in 0 .. n : k \in There
  <2>1. \A k \in 0 .. n - 1 : k \in There => k + 1 \in There
    BY <1>2
  <2> HIDE DEF There
  <2> QED
    BY <1>1, <2>1, InductionUpTo
<1>4. Has(n)
  BY <1>3
<1> HIDE DEF Is
<1> DEFINE exp == CHOOSE f : Is(f, n)
<1>5. Is(exp, n)
  BY <1>4 DEF Has
<1>6. Exp2m1(n) = exp[n]
  BY DEF Exp2m1, Is
<1> HIDE DEF exp
<1>7. exp[0] = 0 /\ \A i \in 1 .. n : exp[i] = 2 * exp[i - 1] + 1
  BY <1>5 DEF Is
<1> QED
  BY <1>6, <1>7

LEMMA Exp2m1IsNatural ==
    ASSUME NEW n \in Nat
    PROVE  Exp2m1(n) \in Nat
<1>1. PICK exp : /\ exp[0] = 0 /\ Exp2m1(n) = exp[n]
                 /\ \A i \in 1 .. n : exp[i] = 2 * exp[i - 1] + 1
  BY Exp2m1Unfolds
<1> DEFINE Natural == {k \in 0 .. n : exp[k] \in Nat}
<1>2. 0 \in Natural
  BY <1>1
<1>3. ASSUME NEW k \in 0 .. n - 1, k \in Natural PROVE k + 1 \in Natural
  <2>1. k + 1 \in 1 .. n /\ k + 1 - 1 = k
    OBVIOUS
  <2>2. exp[k + 1] = 2 * exp[k] + 1
    BY <1>1, <2>1
  <2> QED
    BY <1>3, <2>1, <2>2
<1> HIDE DEF Natural
<1>4. \A k \in 0 .. n : k \in Natural
  BY <1>2, <1>3, InductionUpTo
<1> QED
  BY <1>1, <1>4 DEF Natural

LEMMA Exp2m1Doubles ==
    ASSUME NEW n \in Nat
    PROVE  Exp2m1(0) = 0 /\ Exp2m1(n + 1) = 2 * Exp2m1(n) + 1
<1>0. n + 1 \in Nat /\ n + 1 \in 1 .. n + 1 /\ n + 1 - 1 = n
  OBVIOUS
<1>1. PICK f : /\ f[0] = 0 /\ Exp2m1(n) = f[n]
               /\ \A i \in 1 .. n : f[i] = 2 * f[i - 1] + 1
  BY Exp2m1Unfolds
<1>2. PICK g : /\ g[0] = 0 /\ Exp2m1(n + 1) = g[n + 1]
               /\ \A i \in 1 .. n + 1 : g[i] = 2 * g[i - 1] + 1
  BY <1>0, Exp2m1Unfolds
<1> DEFINE Same == {k \in 0 .. n : g[k] = f[k]}
<1>3. 0 \in Same
  BY <1>1, <1>2
<1>4. ASSUME NEW k \in 0 .. n - 1, k \in Same PROVE k + 1 \in Same
  <2>1. k + 1 \in 1 .. n /\ k + 1 \in 1 .. n + 1 /\ k + 1 - 1 = k
    OBVIOUS
  <2>2. f[k + 1] = 2 * f[k] + 1 /\ g[k + 1] = 2 * g[k] + 1
    BY <1>1, <1>2, <2>1
  <2> QED
    BY <1>4, <2>1, <2>2
<1> HIDE DEF Same
<1>5. \A k \in 0 .. n : k \in Same
  BY <1>3, <1>4, InductionUpTo
<1>6. g[n] = f[n]
  BY <1>5 DEF Same
<1>7. g[n + 1] = 2 * g[n] + 1
  BY <1>0, <1>2
<1>8. Exp2m1(0) = 0
  <2>1. \E exp : exp[0] = 0 /\ Exp2m1(0) = exp[0]
    BY Exp2m1Unfolds
  <2> QED
    BY <2>1
<1> QED
  BY <1>1, <1>2, <1>6, <1>7, <1>8

\* made has the table after each of the cells of s that are relinked.
Relinks(u, s, made) ==
    /\ made[0] = u /\ RelinkAll(u, s) = made[Len(s)]
    /\ \A i \in 1 .. Len(s) : made[i] = Relink(made[i - 1], s[i])

LEMMA RelinkAllUnfolds ==
    ASSUME NEW u, NEW s, Len(s) \in Nat
    PROVE  \E made : Relinks(u, s, made)
<1> DEFINE n == Len(s)
           Is(f, k) == f = [i \in 0 .. k |-> IF i = 0 THEN u ELSE Relink(f[i - 1], s[i])]
           Has(k) == \E f : Is(f, k)
           There == {k \in Nat : Has(k)}
<1>1. 0 \in There
  <2>1. Is([i \in 0 .. 0 |-> u], 0)
    OBVIOUS
  <2> QED
    BY <2>1
<1>2. ASSUME NEW k \in 0 .. n - 1, Has(k) PROVE Has(k + 1)
  <2>1. PICK f : Is(f, k)
    BY <1>2
  <2> DEFINE g == [i \in 0 .. k + 1 |-> IF i = 0 THEN u ELSE Relink(f[i - 1], s[i])]
  <2>2. \A i \in 0 .. k : g[i] = f[i]
    BY <2>1
  <2>3. \A i \in 0 .. k + 1 : i # 0 => i - 1 \in 0 .. k
    OBVIOUS
  <2>4. g = [i \in 0 .. k + 1 |-> IF i = 0 THEN u ELSE Relink(g[i - 1], s[i])]
    BY <2>2, <2>3
  <2> HIDE DEF g
  <2> QED
    BY <2>4
<1> HIDE DEF Has
<1>3. \A k \in 0 .. n : k \in There
  <2>1. \A k \in 0 .. n - 1 : k \in There => k + 1 \in There
    BY <1>2
  <2> HIDE DEF There
  <2> QED
    BY <1>1, <2>1, InductionUpTo
<1>4. Has(n)
  BY <1>3
<1> HIDE DEF Is
<1> DEFINE made == CHOOSE f : Is(f, n)
<1>5. Is(made, n)
  BY <1>4 DEF Has
<1>6. RelinkAll(u, s) = made[n]
  BY DEF RelinkAll, Is
<1> HIDE DEF made
<1>7. made[0] = u /\ \A i \in 1 .. n : made[i] = Relink(made[i - 1], s[i])
  BY <1>5 DEF Is
<1> QED
  BY <1>6, <1>7 DEF Relinks

LEMMA BucketRemoveAllUnfolds ==
    ASSUME NEW u, NEW s, Len(s) \in Nat
    PROVE  \E made : /\ made[0] = u /\ BucketRemoveAll(u, s) = made[Len(s)]
                     /\ \A i \in 1 .. Len(s) : made[i] = BucketRemove(made[i - 1], s[i])
<1> DEFINE n == Len(s)
           Is(f, k) == f = [i \in 0 .. k |-> IF i = 0 THEN u ELSE BucketRemove(f[i - 1], s[i])]
           Has(k) == \E f : Is(f, k)
           There == {k \in Nat : Has(k)}
<1>1. 0 \in There
  <2>1. Is([i \in 0 .. 0 |-> u], 0)
    OBVIOUS
  <2> QED
    BY <2>1
<1>2. ASSUME NEW k \in 0 .. n - 1, Has(k) PROVE Has(k + 1)
  <2>1. PICK f : Is(f, k)
    BY <1>2
  <2> DEFINE g == [i \in 0 .. k + 1 |-> IF i = 0 THEN u ELSE BucketRemove(f[i - 1], s[i])]
  <2>2. \A i \in 0 .. k : g[i] = f[i]
    BY <2>1
  <2>3. \A i \in 0 .. k + 1 : i # 0 => i - 1 \in 0 .. k
    OBVIOUS
  <2>4. g = [i \in 0 .. k + 1 |-> IF i = 0 THEN u ELSE BucketRemove(g[i - 1], s[i])]
    BY <2>2, <2>3
  <2> HIDE DEF g
  <2> QED
    BY <2>4
<1> HIDE DEF Has
<1>3. \A k \in 0 .. n : k \in There
  <2>1. \A k \in 0 .. n - 1 : k \in There => k + 1 \in There
    BY <1>2
  <2> HIDE DEF There
  <2> QED
    BY <1>1, <2>1, InductionUpTo
<1>4. Has(n)
  BY <1>3
<1> HIDE DEF Is
<1> DEFINE made == CHOOSE f : Is(f, n)
<1>5. Is(made, n)
  BY <1>4 DEF Has
<1>6. BucketRemoveAll(u, s) = made[n]
  BY DEF BucketRemoveAll, Is
<1> HIDE DEF made
<1>7. made[0] = u /\ \A i \in 1 .. n : made[i] = BucketRemove(made[i - 1], s[i])
  BY <1>5 DEF Is
<1> QED
  BY <1>6, <1>7

LEMMA AddAllUnfolds ==
    ASSUME NEW u, NEW s, Len(s) \in Nat
    PROVE  \E made : /\ made[0] = u /\ AddAll(u, s) = made[Len(s)]
                     /\ \A i \in 1 .. Len(s) : made[i] = Add(made[i - 1], s[i])
<1> DEFINE n == Len(s)
           Is(f, k) == f = [i \in 0 .. k |-> IF i = 0 THEN u ELSE Add(f[i - 1], s[i])]
           Has(k) == \E f : Is(f, k)
           There == {k \in Nat : Has(k)}
<1>1. 0 \in There
  <2>1. Is([i \in 0 .. 0 |-> u], 0)
    OBVIOUS
  <2> QED
    BY <2>1
<1>2. ASSUME NEW k \in 0 .. n - 1, Has(k) PROVE Has(k + 1)
  <2>1. PICK f : Is(f, k)
    BY <1>2
  <2> DEFINE g == [i \in 0 .. k + 1 |-> IF i = 0 THEN u ELSE Add(f[i - 1], s[i])]
  <2>2. \A i \in 0 .. k : g[i] = f[i]
    BY <2>1
  <2>3. \A i \in 0 .. k + 1 : i # 0 => i - 1 \in 0 .. k
    OBVIOUS
  <2>4. g = [i \in 0 .. k + 1 |-> IF i = 0 THEN u ELSE Add(g[i - 1], s[i])]
    BY <2>2, <2>3
  <2> HIDE DEF g
  <2> QED
    BY <2>4
<1> HIDE DEF Has
<1>3. \A k \in 0 .. n : k \in There
  <2>1. \A k \in 0 .. n - 1 : k \in There => k + 1 \in There
    BY <1>2
  <2> HIDE DEF There
  <2> QED
    BY <1>1, <2>1, InductionUpTo
<1>4. Has(n)
  BY <1>3
<1> HIDE DEF Is
<1> DEFINE made == CHOOSE f : Is(f, n)
<1>5. Is(made, n)
  BY <1>4 DEF Has
<1>6. AddAll(u, s) = made[n]
  BY DEF AddAll, Is
<1> HIDE DEF made
<1>7. made[0] = u /\ \A i \in 1 .. n : made[i] = Add(made[i - 1], s[i])
  BY <1>5 DEF Is
<1> QED
  BY <1>6, <1>7

LEMMA AddTimesUnfolds ==
    ASSUME NEW u, NEW arg, NEW times \in Nat
    PROVE  \E made : /\ made[0] = u /\ AddTimes(u, arg, times) = made[times]
                     /\ \A i \in 1 .. times : made[i] = Add(made[i - 1], arg)
<1> DEFINE n == times
           Is(f, k) == f = [i \in 0 .. k |-> IF i = 0 THEN u ELSE Add(f[i - 1], arg)]
           Has(k) == \E f : Is(f, k)
           There == {k \in Nat : Has(k)}
<1>1. 0 \in There
  <2>1. Is([i \in 0 .. 0 |-> u], 0)
    OBVIOUS
  <2> QED
    BY <2>1
<1>2. ASSUME NEW k \in 0 .. n - 1, Has(k) PROVE Has(k + 1)
  <2>1. PICK f : Is(f, k)
    BY <1>2
  <2> DEFINE g == [i \in 0 .. k + 1 |-> IF i = 0 THEN u ELSE Add(f[i - 1], arg)]
  <2>2. \A i \in 0 .. k : g[i] = f[i]
    BY <2>1
  <2>3. \A i \in 0 .. k + 1 : i # 0 => i - 1 \in 0 .. k
    OBVIOUS
  <2>4. g = [i \in 0 .. k + 1 |-> IF i = 0 THEN u ELSE Add(g[i - 1], arg)]
    BY <2>2, <2>3
  <2> HIDE DEF g
  <2> QED
    BY <2>4
<1> HIDE DEF Has
<1>3. \A k \in 0 .. n : k \in There
  <2>1. \A k \in 0 .. n - 1 : k \in There => k + 1 \in There
    BY <1>2
  <2> HIDE DEF There
  <2> QED
    BY <1>1, <2>1, InductionUpTo
<1>4. Has(n)
  BY <1>3
<1> HIDE DEF Is
<1> DEFINE made == CHOOSE f : Is(f, n)
<1>5. Is(made, n)
  BY <1>4 DEF Has
<1>6. AddTimes(u, arg, times) = made[n]
  BY DEF AddTimes, Is
<1> HIDE DEF made
<1>7. made[0] = u /\ \A i \in 1 .. n : made[i] = Add(made[i - 1], arg)
  BY <1>5 DEF Is
<1> QED
  BY <1>6, <1>7

LEMMA CopiedUnfolds ==
    ASSUME NEW u, NEW s, Len(s) \in Nat
    PROVE  \E made : /\ made[0] = u /\ Copied(u, s) = made[Len(s)]
                     /\ \A i \in 1 .. Len(s) : made[i] = AddTimes(made[i - 1], s[i], IF kind = "dictionary" THEN 1 ELSE s[i][2])
<1> DEFINE n == Len(s)
           Is(f, k) == f = [i \in 0 .. k |-> IF i = 0 THEN u ELSE AddTimes(f[i - 1], s[i], IF kind = "dictionary" THEN 1 ELSE s[i][2])]
           Has(k) == \E f : Is(f, k)
           There == {k \in Nat : Has(k)}
<1>1. 0 \in There
  <2>1. Is([i \in 0 .. 0 |-> u], 0)
    OBVIOUS
  <2> QED
    BY <2>1
<1>2. ASSUME NEW k \in 0 .. n - 1, Has(k) PROVE Has(k + 1)
  <2>1. PICK f : Is(f, k)
    BY <1>2
  <2> DEFINE g == [i \in 0 .. k + 1 |-> IF i = 0 THEN u ELSE AddTimes(f[i - 1], s[i], IF kind = "dictionary" THEN 1 ELSE s[i][2])]
  <2>2. \A i \in 0 .. k : g[i] = f[i]
    BY <2>1
  <2>3. \A i \in 0 .. k + 1 : i # 0 => i - 1 \in 0 .. k
    OBVIOUS
  <2>4. g = [i \in 0 .. k + 1 |-> IF i = 0 THEN u ELSE AddTimes(g[i - 1], s[i], IF kind = "dictionary" THEN 1 ELSE s[i][2])]
    BY <2>2, <2>3
  <2> HIDE DEF g
  <2> QED
    BY <2>4
<1> HIDE DEF Has
<1>3. \A k \in 0 .. n : k \in There
  <2>1. \A k \in 0 .. n - 1 : k \in There => k + 1 \in There
    BY <1>2
  <2> HIDE DEF There
  <2> QED
    BY <1>1, <2>1, InductionUpTo
<1>4. Has(n)
  BY <1>3
<1> HIDE DEF Is
<1> DEFINE made == CHOOSE f : Is(f, n)
<1>5. Is(made, n)
  BY <1>4 DEF Has
<1>6. Copied(u, s) = made[n]
  BY DEF Copied, Is
<1> HIDE DEF made
<1>7. made[0] = u /\ \A i \in 1 .. n : made[i] = AddTimes(made[i - 1], s[i], IF kind = "dictionary" THEN 1 ELSE s[i][2])
  BY <1>5 DEF Is
<1> QED
  BY <1>6, <1>7

LEMMA AddedAllUnfolds ==
    ASSUME NEW c, NEW s, Len(s) \in Nat
    PROVE  \E made : /\ made[0] = c /\ Map!AddedAll(c, s) = made[Len(s)]
                     /\ \A i \in 1 .. Len(s) : made[i] = Map!Added(made[i - 1], s[i])
<1> DEFINE n == Len(s)
           Is(f, k) == f = [i \in 0 .. k |-> IF i = 0 THEN c ELSE Map!Added(f[i - 1], s[i])]
           Has(k) == \E f : Is(f, k)
           There == {k \in Nat : Has(k)}
<1>1. 0 \in There
  <2>1. Is([i \in 0 .. 0 |-> c], 0)
    OBVIOUS
  <2> QED
    BY <2>1
<1>2. ASSUME NEW k \in 0 .. n - 1, Has(k) PROVE Has(k + 1)
  <2>1. PICK f : Is(f, k)
    BY <1>2
  <2> DEFINE g == [i \in 0 .. k + 1 |-> IF i = 0 THEN c ELSE Map!Added(f[i - 1], s[i])]
  <2>2. \A i \in 0 .. k : g[i] = f[i]
    BY <2>1
  <2>3. \A i \in 0 .. k + 1 : i # 0 => i - 1 \in 0 .. k
    OBVIOUS
  <2>4. g = [i \in 0 .. k + 1 |-> IF i = 0 THEN c ELSE Map!Added(g[i - 1], s[i])]
    BY <2>2, <2>3
  <2> HIDE DEF g
  <2> QED
    BY <2>4
<1> HIDE DEF Has
<1>3. \A k \in 0 .. n : k \in There
  <2>1. \A k \in 0 .. n - 1 : k \in There => k + 1 \in There
    BY <1>2
  <2> HIDE DEF There
  <2> QED
    BY <1>1, <2>1, InductionUpTo
<1>4. Has(n)
  BY <1>3
<1> HIDE DEF Is
<1> DEFINE made == CHOOSE f : Is(f, n)
<1>5. Is(made, n)
  BY <1>4 DEF Has
<1>6. Map!AddedAll(c, s) = made[n]
  BY DEF Map!AddedAll, Is
<1> HIDE DEF made
<1>7. made[0] = c /\ \A i \in 1 .. n : made[i] = Map!Added(made[i - 1], s[i])
  BY <1>5 DEF Is
<1> QED
  BY <1>6, <1>7

LEMMA EntriesUnfold ==
    ASSUME NEW u, u.size \in Nat
    PROVE  \E made : /\ made[0] = <<>> /\ Entries(u) = made[u.size]
                     /\ \A i \in 1 .. u.size : made[i] = (made[i - 1] \o Chain(u, u.heads[i - 1]))
<1> DEFINE n == u.size
           Is(f, k) == f = [i \in 0 .. k |-> IF i = 0 THEN <<>> ELSE (f[i - 1] \o Chain(u, u.heads[i - 1]))]
           Has(k) == \E f : Is(f, k)
           There == {k \in Nat : Has(k)}
<1>1. 0 \in There
  <2>1. Is([i \in 0 .. 0 |-> <<>>], 0)
    OBVIOUS
  <2> QED
    BY <2>1
<1>2. ASSUME NEW k \in 0 .. n - 1, Has(k) PROVE Has(k + 1)
  <2>1. PICK f : Is(f, k)
    BY <1>2
  <2> DEFINE g == [i \in 0 .. k + 1 |-> IF i = 0 THEN <<>> ELSE (f[i - 1] \o Chain(u, u.heads[i - 1]))]
  <2>2. \A i \in 0 .. k : g[i] = f[i]
    BY <2>1
  <2>3. \A i \in 0 .. k + 1 : i # 0 => i - 1 \in 0 .. k
    OBVIOUS
  <2>4. g = [i \in 0 .. k + 1 |-> IF i = 0 THEN <<>> ELSE (g[i - 1] \o Chain(u, u.heads[i - 1]))]
    BY <2>2, <2>3
  <2> HIDE DEF g
  <2> QED
    BY <2>4
<1> HIDE DEF Has
<1>3. \A k \in 0 .. n : k \in There
  <2>1. \A k \in 0 .. n - 1 : k \in There => k + 1 \in There
    BY <1>2
  <2> HIDE DEF There
  <2> QED
    BY <1>1, <2>1, InductionUpTo
<1>4. Has(n)
  BY <1>3
<1> HIDE DEF Is
<1> DEFINE made == CHOOSE f : Is(f, n)
<1>5. Is(made, n)
  BY <1>4 DEF Has
<1>6. Entries(u) = made[n]
  BY DEF Entries, Is
<1> HIDE DEF made
<1>7. made[0] = <<>> /\ \A i \in 1 .. n : made[i] = (made[i - 1] \o Chain(u, u.heads[i - 1]))
  BY <1>5 DEF Is
<1> QED
  BY <1>6, <1>7

LEMMA ChainUnfolds ==
    ASSUME NEW u, Len(u.cells) \in Nat
    PROVE  \E walk :
              /\ \A c : Chain(u, c) = walk[Len(u.cells)][c]
              /\ \A i \in 0 .. Len(u.cells) : \A d \in DOMAIN u.cells \cup {Nil} :
                    walk[i][d] = IF i = 0 \/ d = Nil THEN <<>>
                                 ELSE <<d>> \o walk[i - 1][u.cells[d].next]
<1> DEFINE n == Len(u.cells)
           Cells == DOMAIN u.cells \cup {Nil}
           From(i, before) == [d \in Cells |-> IF i = 0 \/ d = Nil THEN <<>>
                                               ELSE <<d>> \o before[u.cells[d].next]]
           Is(f, k) == f = [i \in 0 .. k |-> From(i, f[i - 1])]
           Has(k) == \E f : Is(f, k)
           There == {k \in Nat : Has(k)}
<1>1. 0 \in There
  <2>1. Is([i \in 0 .. 0 |-> [d \in Cells |-> <<>>]], 0)
    OBVIOUS
  <2> QED
    BY <2>1
<1>2. \A a, b : From(0, a) = From(0, b)
  OBVIOUS
<1>3. ASSUME NEW k \in 0 .. n - 1, Has(k) PROVE Has(k + 1)
  <2>1. PICK f : Is(f, k)
    BY <1>3
  <2> HIDE DEF From
  <2> DEFINE g == [i \in 0 .. k + 1 |-> From(i, f[i - 1])]
  <2>2. \A i \in 0 .. k : g[i] = f[i]
    BY <2>1
  <2>3. \A i \in 0 .. k + 1 : i # 0 => i - 1 \in 0 .. k
    OBVIOUS
  <2>4. \A i \in 0 .. k + 1 : From(i, f[i - 1]) = From(i, g[i - 1])
    BY <1>2, <2>2, <2>3
  <2>5. g = [i \in 0 .. k + 1 |-> From(i, g[i - 1])]
    BY <2>4
  <2> HIDE DEF g
  <2> QED
    BY <2>5
<1> HIDE DEF Has
<1>4. \A k \in 0 .. n : k \in There
  <2>1. \A k \in 0 .. n - 1 : k \in There => k + 1 \in There
    BY <1>3
  <2> HIDE DEF There
  <2> QED
    BY <1>1, <2>1, InductionUpTo
<1>5. Has(n)
  BY <1>4
<1> HIDE DEF Is
<1> DEFINE walk == CHOOSE f : Is(f, n)
<1>6. Is(walk, n)
  BY <1>5 DEF Has
<1>7. \A c : Chain(u, c) = walk[n][c]
  BY DEF Chain, Is
<1> HIDE DEF walk
<1>8. \A i \in 0 .. n : walk[i] = From(i, walk[i - 1])
  <2> HIDE DEF From
  <2> QED
    BY <1>6 DEF Is
<1>9. \A i \in 0 .. n : \A d \in Cells :
         walk[i][d] = IF i = 0 \/ d = Nil THEN <<>> ELSE <<d>> \o walk[i - 1][u.cells[d].next]
  BY <1>8
<1> QED
  BY <1>7, <1>9

LEMMA Log2Unfolds ==
    ASSUME NEW n \in Nat
    PROVE  \E log : /\ Log2(n) = log[n]
                    /\ \A m \in 0 .. n : log[m] = IF m < 2 THEN 0 ELSE log[m \div 2] + 1
<1> DEFINE Is(f, k) == f = [m \in 0 .. k |-> IF m < 2 THEN 0 ELSE f[m \div 2] + 1]
           Has(k) == \E f : Is(f, k)
           There == {k \in Nat : Has(k)}
<1>1. 0 \in There
  <2>1. Is([m \in 0 .. 0 |-> 0], 0)
    OBVIOUS
  <2> QED
    BY <2>1
<1>2. \A m \in Nat : m >= 2 => m \div 2 \in 0 .. m - 1
  OBVIOUS
<1>3. ASSUME NEW k \in 0 .. n - 1, Has(k) PROVE Has(k + 1)
  <2>1. PICK f : Is(f, k)
    BY <1>3
  <2> DEFINE g == [m \in 0 .. k + 1 |-> IF m < 2 THEN 0 ELSE f[m \div 2] + 1]
  <2>2. \A m \in 0 .. k : g[m] = f[m]
    BY <2>1
  <2>3. \A m \in 0 .. k + 1 : ~ m < 2 => m \div 2 \in 0 .. k
    BY <1>2
  <2>4. g = [m \in 0 .. k + 1 |-> IF m < 2 THEN 0 ELSE g[m \div 2] + 1]
    BY <2>2, <2>3
  <2> HIDE DEF g
  <2> QED
    BY <2>4
<1> HIDE DEF Has
<1>4. \A k \in 0 .. n : k \in There
  <2>1. \A k \in 0 .. n - 1 : k \in There => k + 1 \in There
    BY <1>3
  <2> HIDE DEF There
  <2> QED
    BY <1>1, <2>1, InductionUpTo
<1>5. Has(n)
  BY <1>4
<1> HIDE DEF Is
<1> DEFINE log == CHOOSE f : Is(f, n)
<1>6. Is(log, n)
  BY <1>5 DEF Has
<1>7. Log2(n) = log[n]
  BY DEF Log2, Is
<1> HIDE DEF log
<1>8. \A m \in 0 .. n : log[m] = IF m < 2 THEN 0 ELSE log[m \div 2] + 1
  BY <1>6 DEF Is
<1> QED
  BY <1>7, <1>8

\* A table has room for its entries, and less than two chains for each.
LEMMA CapacityBounds ==
    ASSUME NEW n \in Nat
    PROVE  /\ Capacity(n) \in Nat /\ n <= Capacity(n)
           /\ Capacity(n) <= IF n = 0 THEN 1 ELSE 2 * n - 1
<1>1. PICK log : /\ Log2(n) = log[n]
                 /\ \A m \in 0 .. n : log[m] = IF m < 2 THEN 0 ELSE log[m \div 2] + 1
  BY Log2Unfolds
<1> DEFINE Bounded(m) == /\ log[m] \in Nat /\ Exp2m1(log[m] + 1) \in Nat /\ m <= Exp2m1(log[m] + 1)
                         /\ Exp2m1(log[m] + 1) <= IF m = 0 THEN 1 ELSE 2 * m - 1
           There == {k \in 0 .. n : \A m \in 0 .. k : Bounded(m)}
<1>2. \A m \in Nat : m >= 2 => m \div 2 \in 1 .. m - 1 /\ 2 * (m \div 2) <= m /\ m <= 2 * (m \div 2) + 1
  OBVIOUS
<1>3. ASSUME NEW m \in 0 .. n, m < 2 PROVE Bounded(m)
  <2>1. log[m] = 0
    BY <1>1, <1>3
  <2>2. Exp2m1(0) = 0 /\ Exp2m1(0 + 1) = 2 * Exp2m1(0) + 1
    BY Exp2m1Doubles
  <2>3. log[m] + 1 = 0 + 1
    BY <2>1
  <2> QED
    BY <1>3, <2>1, <2>2, <2>3
<1>4. 0 \in There
  BY <1>3
<1>5. ASSUME NEW k \in 0 .. n - 1, k \in There PROVE k + 1 \in There
  <2> DEFINE m == k + 1
  <2>1. m \in 0 .. n /\ m \in Nat /\ \A j \in 0 .. m : j \in 0 .. k \/ j = m
    OBVIOUS
  <2>2. \A j \in 0 .. k : Bounded(j)
    BY <1>5
  <2>3. Bounded(m)
    <3>1. CASE m < 2
      BY <1>3, <2>1, <3>1
    <3>2. CASE ~ m < 2
      <4> DEFINE h == m \div 2
                 l == log[h]
                 x == Exp2m1(l + 1)
      <4>1. m >= 2
        BY <2>1, <3>2
      <4>2. h \in 1 .. m - 1 /\ 2 * h <= m /\ m <= 2 * h + 1
        BY <1>2, <2>1, <4>1
      <4>3. h \in 0 .. k /\ h # 0 /\ h \in Nat
        BY <2>1, <4>2
      <4>4. log[m] = l + 1
        BY <1>1, <2>1, <3>2
      <4>5. l \in Nat /\ x \in Nat /\ h <= x /\ x <= 2 * h - 1
        BY <2>2, <4>3
      <4>6. l + 1 \in Nat
        BY <4>5
      <4>7. Exp2m1(l + 1 + 1) = 2 * x + 1
        BY <4>6, Exp2m1Doubles
      <4> HIDE DEF h, l, x, m
      <4>8. 2 * x + 1 \in Nat /\ m <= 2 * x + 1 /\ 2 * x + 1 <= 2 * m - 1 /\ m # 0
        BY <2>1, <4>1, <4>2, <4>3, <4>5
      <4> QED
        BY <4>4, <4>6, <4>7, <4>8
    <3> QED
      BY <3>1, <3>2
  <2> HIDE DEF Bounded
  <2> QED
    BY <2>1, <2>2, <2>3
<1> HIDE DEF There
<1>6. \A k \in 0 .. n : k \in There
  BY <1>4, <1>5, InductionUpTo
<1>7. Bounded(n)
  BY <1>6 DEF There
<1> QED
  BY <1>1, <1>7 DEF Capacity

-----------------------------------------------------------------------------
(* Tables whose buckets are linked as they should be *)

Cell == [key : Keys \cup {Nil}, val : Vals \cup Nat \cup {Nil}, next : Nat \cup {Nil}]
Heads == UNION {[0 .. n - 1 -> Nat \cup {Nil}] : n \in Nat}
Table == [heads : Heads, size : Nat, min : Nat, count : Int, cells : Seq(Cell),
          free : Seq(Nat), refs : [Keys \cup Vals -> Int]]

\* The cells that hold an entry
Used(u) == {c \in DOMAIN u.cells : u.cells[c].key # Nil}

Injective(p) == \A i, j \in 1 .. Len(p) : p[i] = p[j] => i = j

\* The pointers lead from c through p and no further.
Path(u, c, p) ==
    /\ c = IF Len(p) = 0 THEN Nil ELSE p[1]
    /\ \A i \in 1 .. Len(p) : u.cells[p[i]].next = IF i = Len(p) THEN Nil ELSE p[i + 1]

\* All but the chains: no key twice, each unused cell on the free list once, the count.
Pool(u) ==
    /\ u \in Table /\ u.size > 0 /\ u.min > 0 /\ DOMAIN u.heads = 0 .. u.size - 1
    /\ \A c \in DOMAIN u.cells : IF u.cells[c].key = Nil THEN u.cells[c].next = Nil
                                 ELSE u.cells[c].val \in IF kind = "dictionary" THEN Vals ELSE Nat \ {0}
    /\ \A c, d \in Used(u) : u.cells[c].key = u.cells[d].key => c = d
    /\ Injective(u.free)
    /\ \A i \in 1 .. Len(u.free) : u.free[i] \in DOMAIN u.cells \ Used(u)
    /\ \A c \in DOMAIN u.cells \ Used(u) : \E i \in 1 .. Len(u.free) : u.free[i] = c
    /\ u.count = Cardinality(Used(u))

\* Each cell that holds an entry is in the chain of its index, once, but for those in W, which
\* are in no chain.
Chained(u, ch, W) ==
    /\ W \subseteq Used(u)
    /\ ch \in [0 .. u.size - 1 -> Seq(DOMAIN u.cells)]
    /\ \A i \in 0 .. u.size - 1 : Path(u, u.heads[i], ch[i]) /\ Injective(ch[i])
    /\ \A i \in 0 .. u.size - 1 : \A n \in 1 .. Len(ch[i]) :
          ch[i][n] \in Used(u) \ W /\ Index(u, u.cells[ch[i][n]].key) = i
    /\ \A c \in Used(u) \ W : \E n \in 1 .. Len(ch[Index(u, u.cells[c].key)]) :
          ch[Index(u, u.cells[c].key)][n] = c

Right(u) == Pool(u) /\ \E ch : Chained(u, ch, {})

\* The size is one that _WI_DICTIONARY_CHECK_OPTIMIZE leaves alone.
NotDue(u) ==
    /\ ~ (u.size >= 3 * u.count /\ u.size > u.min)
    /\ ~ (u.count >= 3 * u.size /\ u.size < MaxCount)

Settled(u) == Right(u) /\ NotDue(u)

-----------------------------------------------------------------------------
(* Chains, lookups and loops over all buckets *)

LEMMA TableParts ==
    ASSUME NEW u, Pool(u)
    PROVE  /\ u \in Table /\ u.cells \in Seq(Cell) /\ Len(u.cells) \in Nat
           /\ DOMAIN u.cells = 1 .. Len(u.cells) /\ Nil \notin DOMAIN u.cells
           /\ u.size \in Nat \ {0} /\ u.min \in Nat \ {0} /\ u.free \in Seq(Nat)
           /\ u.heads \in [0 .. u.size - 1 -> Nat \cup {Nil}]
           /\ u.refs \in [Keys \cup Vals -> Int] /\ u.count \in Int
           /\ \A c \in DOMAIN u.cells : u.cells[c] \in Cell
           /\ \A c \in Used(u) : /\ c \in DOMAIN u.cells /\ c \in Nat /\ c # Nil
                                /\ u.cells[c] \in Cell /\ u.cells[c].key \in Keys
<1>1. u \in Table /\ u.size > 0 /\ u.min > 0 /\ DOMAIN u.heads = 0 .. u.size - 1
  BY DEF Pool
<1>2. /\ u.cells \in Seq(Cell) /\ u.size \in Nat /\ u.min \in Nat /\ u.free \in Seq(Nat)
      /\ u.heads \in Heads /\ u.refs \in [Keys \cup Vals -> Int] /\ u.count \in Int
  BY <1>1 DEF Table
<1>3. u.heads \in [0 .. u.size - 1 -> Nat \cup {Nil}]
  <2>1. PICK n \in Nat : u.heads \in [0 .. n - 1 -> Nat \cup {Nil}]
    BY <1>2 DEF Heads
  <2>2. 0 .. n - 1 = 0 .. u.size - 1
    BY <1>1, <2>1
  <2> QED
    BY <2>1, <2>2
<1>4. Len(u.cells) \in Nat /\ DOMAIN u.cells = 1 .. Len(u.cells)
  BY <1>2
<1>5. Nil \notin DOMAIN u.cells
  BY <1>4, KeyAssumption
<1>6. \A c \in DOMAIN u.cells : u.cells[c] \in Cell
  BY <1>2, <1>4
<1>7. \A c \in Used(u) : c \in DOMAIN u.cells /\ u.cells[c] \in Cell /\ u.cells[c].key # Nil
  BY <1>6 DEF Used
<1>8. \A c \in Used(u) : c \in Nat /\ c # Nil /\ u.cells[c].key \in Keys
  BY <1>4, <1>5, <1>7 DEF Cell
<1> QED
  BY <1>1, <1>2, <1>3, <1>4, <1>5, <1>6, <1>7, <1>8

LEMMA IndexInRange ==
    ASSUME NEW u, u.size \in Nat \ {0}, NEW k \in Keys
    PROVE  Index(u, k) \in 0 .. u.size - 1
<1>1. Hash[k] \in Nat
  BY KeyAssumption
<1> QED
  BY <1>1 DEF Index

LEMMA InjectiveLength ==
    ASSUME NEW n \in Nat, NEW p \in Seq(1 .. n), Injective(p)
    PROVE  Len(p) <= n
<1>0. Len(p) \in Nat /\ p \in [1 .. Len(p) -> 1 .. n]
  OBVIOUS
<1>1. p \in Injection(1 .. Len(p), 1 .. n)
  BY <1>0 DEF Injective, Injection, IsInjective
<1>2. IsFiniteSet(1 .. n) /\ Cardinality(1 .. n) = n
  BY FS_Interval
<1>3. Cardinality(1 .. Len(p)) = Len(p)
  <2>1. 1 \in Int /\ Len(p) \in Int
    BY <1>0
  <2>2. Cardinality(1 .. Len(p)) = IF 1 > Len(p) THEN 0 ELSE Len(p) - 1 + 1
    BY <2>1, FS_Interval
  <2> QED
    BY <1>0, <2>2
<1>4. Cardinality(1 .. Len(p)) <= Cardinality(1 .. n)
  BY <1>1, <1>2, FS_Injection
<1> QED
  BY <1>2, <1>3, <1>4

LEMMA ChainIs ==
    ASSUME NEW u, Pool(u), NEW c, NEW p \in Seq(DOMAIN u.cells), Path(u, c, p), Injective(p)
    PROVE  Chain(u, c) = p
<1> DEFINE n == Len(u.cells)
           D == DOMAIN u.cells
<1>1. n \in Nat /\ D = 1 .. n /\ Nil \notin D
  BY TableParts
<1>2. Len(p) <= n
  BY <1>1, InjectiveLength
<1>3. PICK walk : /\ \A d : Chain(u, d) = walk[n][d]
                  /\ \A i \in 0 .. n : \A d \in D \cup {Nil} :
                        walk[i][d] = IF i = 0 \/ d = Nil THEN <<>>
                                     ELSE <<d>> \o walk[i - 1][u.cells[d].next]
  BY <1>1, ChainUnfolds
<1> HIDE DEF n, D
<1>a. \A d \in D \cup {Nil} : walk[0][d] = <<>>
  <2>1. 0 \in 0 .. n
    BY <1>1
  <2>2. \A d \in D \cup {Nil} : walk[0][d] = IF 0 = 0 \/ d = Nil THEN <<>>
                                             ELSE <<d>> \o walk[0 - 1][u.cells[d].next]
    BY <1>3, <2>1
  <2> QED
    BY <2>2
<1>b. \A i \in 0 .. n : walk[i][Nil] = <<>>
  BY <1>1, <1>3
<1>c. \A i \in 0 .. n - 1 : \A d \in D : walk[i + 1][d] = <<d>> \o walk[i][u.cells[d].next]
  <2> SUFFICES ASSUME NEW i \in 0 .. n - 1, NEW d \in D
               PROVE  walk[i + 1][d] = <<d>> \o walk[i][u.cells[d].next]
    OBVIOUS
  <2>1. i + 1 \in 0 .. n /\ i + 1 # 0 /\ i + 1 - 1 = i /\ d # Nil
    BY <1>1
  <2>2. walk[i + 1][d] = IF i + 1 = 0 \/ d = Nil THEN <<>>
                         ELSE <<d>> \o walk[i + 1 - 1][u.cells[d].next]
    BY <1>3, <2>1
  <2> QED
    BY <2>1, <2>2
<1> DEFINE Good(i) == \A d : \A q \in Seq(D) : Path(u, d, q) /\ Len(q) <= i => walk[i][d] = q
           There == {i \in 0 .. n : Good(i)}
<1>4. Good(0)
  <2> SUFFICES ASSUME NEW d, NEW q \in Seq(D), Path(u, d, q), Len(q) <= 0 PROVE walk[0][d] = q
    OBVIOUS
  <2>1. Len(q) = 0 /\ d = Nil
    BY DEF Path
  <2>2. q = <<>>
    BY <2>1
  <2> QED
    BY <1>a, <2>1, <2>2
<1>5. ASSUME NEW i \in 0 .. n - 1, Good(i) PROVE Good(i + 1)
  <2> SUFFICES ASSUME NEW d, NEW q \in Seq(D), Path(u, d, q), Len(q) <= i + 1 PROVE walk[i + 1][d] = q
    OBVIOUS
  <2>0. i + 1 \in 0 .. n /\ i + 1 # 0 /\ i + 1 - 1 = i
    BY <1>1
  <2>1. CASE Len(q) = 0
    <3>1. d = Nil /\ q = <<>>
      BY <2>1 DEF Path
    <3> QED
      BY <1>b, <2>0, <3>1
  <2>2. CASE Len(q) # 0
    <3>1. d = q[1] /\ d \in D /\ d # Nil
      BY <1>1, <2>2 DEF Path
    <3>2. walk[i + 1][d] = <<d>> \o walk[i][u.cells[d].next]
      BY <1>c, <3>1
    <3> DEFINE r == Tail(q)
    <3>3. r \in Seq(D) /\ Len(r) = Len(q) - 1 /\ \A j \in 1 .. Len(r) : r[j] = q[j + 1]
      BY <2>2
    <3>4. q = <<d>> \o r
      BY <2>2, <3>1
    <3> HIDE DEF r
    <3>5. Path(u, u.cells[d].next, r)
      <4>1. u.cells[d].next = IF Len(r) = 0 THEN Nil ELSE r[1]
        BY <2>2, <3>1, <3>3 DEF Path
      <4>2. ASSUME NEW j \in 1 .. Len(r)
            PROVE  u.cells[r[j]].next = IF j = Len(r) THEN Nil ELSE r[j + 1]
        <5>1. j + 1 \in 1 .. Len(q) /\ r[j] = q[j + 1]
          BY <3>3
        <5>2. u.cells[q[j + 1]].next = IF j + 1 = Len(q) THEN Nil ELSE q[j + 1 + 1]
          BY <5>1 DEF Path
        <5>3. CASE j = Len(r)
          BY <3>3, <5>1, <5>2, <5>3
        <5>4. CASE j # Len(r)
          <6>1. j + 1 \in 1 .. Len(r) /\ j + 1 # Len(q)
            BY <3>3, <5>4
          <6>2. r[j + 1] = q[j + 1 + 1]
            BY <3>3, <6>1
          <6> QED
            BY <5>1, <5>2, <5>4, <6>1, <6>2
        <5> QED
          BY <5>3, <5>4
      <4> QED
        BY <4>1, <4>2 DEF Path
    <3>6. walk[i][u.cells[d].next] = r
      BY <1>5, <3>3, <3>5
    <3> QED
      BY <3>2, <3>4, <3>6
  <2> QED
    BY <2>1, <2>2
<1> HIDE DEF Good
<1>6. \A i \in 0 .. n : i \in There
  <2>1. 0 \in There
    BY <1>1, <1>4
  <2>2. \A i \in 0 .. n - 1 : i \in There => i + 1 \in There
    BY <1>1, <1>5
  <2> HIDE DEF There
  <2> QED
    BY <1>1, <2>1, <2>2, InductionUpTo
<1>7. Good(n)
  BY <1>1, <1>6
<1> QED
  BY <1>2, <1>3, <1>7 DEF Good, D, n

LEMMA ChainOfHead ==
    ASSUME NEW u, Pool(u), NEW ch, NEW W, Chained(u, ch, W), NEW i \in 0 .. u.size - 1
    PROVE  /\ Chain(u, u.heads[i]) = ch[i] /\ ch[i] \in Seq(DOMAIN u.cells) /\ Len(ch[i]) \in Nat
           /\ Injective(ch[i])
<1>1. ch[i] \in Seq(DOMAIN u.cells) /\ Path(u, u.heads[i], ch[i]) /\ Injective(ch[i])
  BY DEF Chained
<1> QED
  BY <1>1, ChainIs

\* A lookup finds the cell with the key.
LEMMA BucketIs ==
    ASSUME NEW u, Pool(u), NEW ch, Chained(u, ch, {}), NEW k \in Keys
    PROVE  /\ \A c \in Used(u) : u.cells[c].key = k => BucketFor(u, k) = c
           /\ (\A c \in Used(u) : u.cells[c].key # k) => BucketFor(u, k) = Nil
<1> DEFINE i == Index(u, k)
           p == ch[i]
           equal == {n \in DOMAIN p : u.cells[p[n]].key = k}
<1>1. i \in 0 .. u.size - 1
  BY TableParts, IndexInRange
<1> HIDE DEF i
<1>2. Chain(u, u.heads[i]) = p /\ p \in Seq(DOMAIN u.cells) /\ Len(p) \in Nat /\ DOMAIN p = 1 .. Len(p)
  BY <1>1, ChainOfHead
<1>3. \A n \in 1 .. Len(p) : p[n] \in Used(u)
  BY <1>1 DEF Chained
<1>4. \A c \in Used(u) : u.cells[c].key = k => \E n \in 1 .. Len(p) : p[n] = c
  BY DEF Chained, i
<1>5. \A c, d \in Used(u) : u.cells[c].key = u.cells[d].key => c = d
  BY DEF Pool
<1> HIDE DEF p
<1>6. BucketFor(u, k) = IF equal = {} THEN Nil ELSE p[Min(equal)]
  BY <1>2 DEF BucketFor, i
<1>7. ASSUME NEW c \in Used(u), u.cells[c].key = k PROVE BucketFor(u, k) = c
  <2>1. equal # {}
    BY <1>2, <1>4, <1>7
  <2>2. equal \in SUBSET Nat
    BY <1>2
  <2>3. Min(equal) \in equal
    BY <2>1, <2>2, LeastNumber
  <2>4. Min(equal) \in 1 .. Len(p) /\ u.cells[p[Min(equal)]].key = k
    BY <1>2, <2>3
  <2>5. p[Min(equal)] = c
    BY <1>3, <1>5, <1>7, <2>4
  <2> HIDE DEF equal
  <2> QED
    BY <1>6, <2>1, <2>5
<1>8. ASSUME \A c \in Used(u) : u.cells[c].key # k PROVE BucketFor(u, k) = Nil
  <2>1. equal = {}
    BY <1>2, <1>3, <1>8
  <2> QED
    BY <1>6, <2>1
<1> QED
  BY <1>7, <1>8

\* What the table holds, for each key
LEMMA ContentsAre ==
    ASSUME NEW u, Right(u)
    PROVE  \A k \in Keys :
              /\ \A c \in Used(u) : u.cells[c].key = k =>
                    Contents(u)[k] = IF kind = "set" THEN 1 ELSE u.cells[c].val
              /\ (\A c \in Used(u) : u.cells[c].key # k) => Contents(u)[k] = Nil
<1> SUFFICES ASSUME NEW k \in Keys
             PROVE  /\ \A c \in Used(u) : u.cells[c].key = k =>
                          Contents(u)[k] = IF kind = "set" THEN 1 ELSE u.cells[c].val
                    /\ (\A c \in Used(u) : u.cells[c].key # k) => Contents(u)[k] = Nil
  OBVIOUS
<1>1. PICK ch : Chained(u, ch, {})
  BY DEF Right
<1>2. Pool(u)
  BY DEF Right
<1>3. /\ \A c \in Used(u) : u.cells[c].key = k => BucketFor(u, k) = c
      /\ (\A c \in Used(u) : u.cells[c].key # k) => BucketFor(u, k) = Nil
  BY <1>1, <1>2, BucketIs
<1>4. Contents(u)[k] = IF BucketFor(u, k) = Nil THEN Nil
                       ELSE IF kind = "set" THEN 1 ELSE u.cells[BucketFor(u, k)].val
  BY DEF Contents
<1>5. \A c \in Used(u) : c # Nil
  BY <1>2, TableParts DEF Used
<1> QED
  BY <1>3, <1>4, <1>5

\* The loops over all buckets see each cell that holds an entry, once.
LEMMA EntriesAre ==
    ASSUME NEW u, Right(u)
    PROVE  /\ Entries(u) \in Seq(DOMAIN u.cells) /\ Len(Entries(u)) \in Nat /\ Injective(Entries(u))
           /\ \A n \in 1 .. Len(Entries(u)) : Entries(u)[n] \in Used(u)
           /\ \A c \in Used(u) : \E n \in 1 .. Len(Entries(u)) : Entries(u)[n] = c
<1>1. Pool(u)
  BY DEF Right
<1>2. PICK ch : Chained(u, ch, {})
  BY DEF Right
<1> DEFINE D == DOMAIN u.cells
           At(c) == Index(u, u.cells[c].key)
<1>3. u.size \in Nat
  BY <1>1, TableParts
<1>4. PICK made : /\ made[0] = <<>> /\ Entries(u) = made[u.size]
                  /\ \A i \in 1 .. u.size : made[i] = (made[i - 1] \o Chain(u, u.heads[i - 1]))
  BY <1>3, EntriesUnfold
<1> DEFINE UpTo(i, s) ==
              /\ s \in Seq(D) /\ Injective(s)
              /\ \A n \in 1 .. Len(s) : s[n] \in Used(u) /\ At(s[n]) < i
              /\ \A c \in Used(u) : At(c) < i => \E n \in 1 .. Len(s) : s[n] = c
           There == {i \in 0 .. u.size : UpTo(i, made[i])}
<1>5. \A c \in Used(u) : At(c) \in 0 .. u.size - 1
  BY <1>1, TableParts, IndexInRange
<1>6. UpTo(0, made[0])
  <2>1. UpTo(0, <<>>)
    BY <1>5 DEF Injective
  <2> QED
    BY <1>4, <2>1
<1>7. ASSUME NEW i \in 0 .. u.size - 1, UpTo(i, made[i]) PROVE UpTo(i + 1, made[i + 1])
  <2> DEFINE s == made[i]
             p == ch[i]
  <2>1. made[i + 1] = s \o p
    <3> DEFINE j == i + 1
    <3>1. j \in 1 .. u.size /\ j - 1 = i
      BY <1>3
    <3> HIDE DEF j
    <3>2. made[j] = (made[j - 1] \o Chain(u, u.heads[j - 1]))
      BY <1>4, <3>1
    <3>3. Chain(u, u.heads[i]) = p
      BY <1>1, <1>2, ChainOfHead
    <3> QED
      BY <3>1, <3>2, <3>3 DEF j
  <2>2. /\ p \in Seq(D) /\ Injective(p)
        /\ \A n \in 1 .. Len(p) : p[n] \in Used(u) /\ At(p[n]) = i
        /\ \A c \in Used(u) : At(c) = i => \E n \in 1 .. Len(p) : p[n] = c
    BY <1>2 DEF Chained
  <2>3. UpTo(i, s)
    BY <1>7
  <2> HIDE DEF s, p, At, D
  <2> DEFINE r == s \o p
  <2>4. /\ Len(s) \in Nat /\ Len(p) \in Nat /\ r \in Seq(D) /\ Len(r) = Len(s) + Len(p)
        /\ \A n \in 1 .. Len(r) : r[n] = IF n <= Len(s) THEN s[n] ELSE p[n - Len(s)]
    BY <2>2, <2>3
  <2> HIDE DEF r
  <2>5. \A n \in 1 .. Len(s) : n \in 1 .. Len(r) /\ r[n] = s[n]
    BY <2>4
  <2>6. \A n \in 1 .. Len(p) : n + Len(s) \in 1 .. Len(r) /\ r[n + Len(s)] = p[n]
    BY <2>4
  <2>7. \A n \in 1 .. Len(r) : n \in 1 .. Len(s) \/ n - Len(s) \in 1 .. Len(p)
    BY <2>4
  <2>8. \A n \in 1 .. Len(r) : r[n] \in Used(u) /\ At(r[n]) < i + 1
    <3> SUFFICES ASSUME NEW n \in 1 .. Len(r) PROVE r[n] \in Used(u) /\ At(r[n]) < i + 1
      OBVIOUS
    <3>1. CASE n \in 1 .. Len(s)
      <4>1. r[n] = s[n] /\ s[n] \in Used(u) /\ At(s[n]) < i
        BY <2>3, <2>5, <3>1
      <4>2. At(s[n]) \in Nat
        BY <1>5, <4>1 DEF At
      <4> QED
        BY <4>1, <4>2
    <3>2. CASE n - Len(s) \in 1 .. Len(p)
      <4>1. n - Len(s) + Len(s) = n
        BY <2>4
      <4>2. r[n] = p[n - Len(s)] /\ p[n - Len(s)] \in Used(u) /\ At(p[n - Len(s)]) = i
        BY <2>2, <2>6, <3>2, <4>1
      <4> QED
        BY <4>2
    <3> QED
      BY <2>7, <3>1, <3>2
  <2>9. ASSUME NEW c \in Used(u), At(c) < i + 1 PROVE \E n \in 1 .. Len(r) : r[n] = c
    <3>1. At(c) \in Nat
      BY <1>5 DEF At
    <3>2. At(c) < i \/ At(c) = i
      BY <2>9, <3>1
    <3>3. CASE At(c) < i
      BY <2>3, <2>5, <3>3
    <3>4. CASE At(c) = i
      BY <2>2, <2>6, <3>4
    <3> QED
      BY <3>2, <3>3, <3>4
  <2>10. Injective(r)
    <3> SUFFICES ASSUME NEW m \in 1 .. Len(r), NEW n \in 1 .. Len(r), r[m] = r[n] PROVE m = n
      BY DEF Injective
    <3>1. ASSUME NEW a \in 1 .. Len(r), NEW b \in 1 .. Len(r), a \in 1 .. Len(s),
                 b - Len(s) \in 1 .. Len(p)
          PROVE  r[a] # r[b]
      <4>1. r[a] = s[a] /\ s[a] \in Used(u) /\ At(s[a]) < i
        BY <2>3, <2>5, <3>1
      <4>2. b - Len(s) + Len(s) = b
        BY <2>4
      <4>3. r[b] = p[b - Len(s)] /\ At(p[b - Len(s)]) = i
        BY <2>2, <2>6, <3>1, <4>2
      <4>4. At(s[a]) \in Nat
        BY <1>5, <4>1 DEF At
      <4> QED
        BY <4>1, <4>3, <4>4
    <3>2. CASE m \in 1 .. Len(s) /\ n \in 1 .. Len(s)
      BY <2>3, <2>5, <3>2 DEF Injective
    <3>3. CASE m - Len(s) \in 1 .. Len(p) /\ n - Len(s) \in 1 .. Len(p)
      <4>1. m - Len(s) + Len(s) = m /\ n - Len(s) + Len(s) = n
        BY <2>4
      <4>2. r[m] = p[m - Len(s)] /\ r[n] = p[n - Len(s)]
        BY <2>6, <3>3, <4>1
      <4>3. m - Len(s) = n - Len(s)
        BY <2>2, <3>3, <4>2 DEF Injective
      <4> QED
        BY <4>1, <4>3
    <3> QED
      BY <2>7, <3>1, <3>2, <3>3
  <2> QED
    BY <2>1, <2>4, <2>8, <2>9, <2>10 DEF r
<1> HIDE DEF UpTo
<1>8. \A i \in 0 .. u.size : i \in There
  <2>1. 0 \in There
    BY <1>3, <1>6
  <2>2. \A i \in 0 .. u.size - 1 : i \in There => i + 1 \in There
    BY <1>3, <1>7
  <2> HIDE DEF There
  <2> QED
    BY <1>3, <2>1, <2>2, InductionUpTo
<1>9. UpTo(u.size, Entries(u))
  BY <1>3, <1>4, <1>8
<1>10. \A c \in Used(u) : At(c) < u.size
  BY <1>3, <1>5
<1> QED
  BY <1>9, <1>10 DEF UpTo

-----------------------------------------------------------------------------
(* Relinking a cell: the buckets of a table that is resized *)

\* w has the entries of u, in the same cells.
Same(u, w) ==
    /\ DOMAIN w.cells = DOMAIN u.cells
    /\ \A c \in DOMAIN u.cells : w.cells[c].key = u.cells[c].key /\ w.cells[c].val = u.cells[c].val
    /\ w.count = u.count /\ w.free = u.free /\ w.min = u.min /\ w.refs = u.refs

LEMMA SameUsed ==
    ASSUME NEW u, NEW w, Same(u, w)
    PROVE  Used(w) = Used(u)
BY DEF Same, Used

LEMMA PoolKept ==
    ASSUME NEW u, Pool(u), NEW w \in Table, Same(u, w), w.size > 0, DOMAIN w.heads = 0 .. w.size - 1,
           \A c \in DOMAIN u.cells : u.cells[c].key = Nil => w.cells[c].next = Nil
    PROVE  Pool(w)
<1>1. Used(w) = Used(u)
  BY SameUsed
<1>2. \A c \in DOMAIN w.cells : IF w.cells[c].key = Nil THEN w.cells[c].next = Nil
                               ELSE w.cells[c].val \in IF kind = "dictionary" THEN Vals ELSE Nat \ {0}
  BY DEF Pool, Same
<1>3. \A c, d \in Used(w) : w.cells[c].key = w.cells[d].key => c = d
  <2>1. \A c \in Used(u) : w.cells[c].key = u.cells[c].key
    BY DEF Same, Used
  <2> QED
    BY <1>1, <2>1 DEF Pool
<1>4. /\ w.min > 0 /\ Injective(w.free)
      /\ \A i \in 1 .. Len(w.free) : w.free[i] \in DOMAIN w.cells \ Used(w)
      /\ \A c \in DOMAIN w.cells \ Used(w) : \E i \in 1 .. Len(w.free) : w.free[i] = c
      /\ w.count = Cardinality(Used(w))
  BY <1>1 DEF Pool, Same
<1> QED
  BY <1>2, <1>3, <1>4 DEF Pool

LEMMA RelinkFields ==
    ASSUME NEW u, Pool(u), NEW c \in Used(u)
    PROVE  LET i == Index(u, u.cells[c].key)
               w == Relink(u, c)
           IN  /\ w \in Table
               /\ w.heads = [u.heads EXCEPT ![i] = c] /\ w.size = u.size
               /\ Same(u, w)
               /\ \A d \in DOMAIN u.cells : w.cells[d].next = IF d = c THEN u.heads[i] ELSE u.cells[d].next
<1> DEFINE i == Index(u, u.cells[c].key)
           cell == [key |-> u.cells[c].key, val |-> u.cells[c].val, next |-> u.heads[i]]
           hs == [u.heads EXCEPT ![i] = c]
           cs == [u.cells EXCEPT ![c] = cell]
<1>1. /\ u \in Table /\ u.cells \in Seq(Cell) /\ DOMAIN u.cells = 1 .. Len(u.cells)
      /\ u.size \in Nat \ {0} /\ u.heads \in [0 .. u.size - 1 -> Nat \cup {Nil}]
      /\ u.cells[c] \in Cell /\ u.cells[c].key \in Keys /\ c \in DOMAIN u.cells /\ c \in Nat
      /\ Len(u.cells) \in Nat
  BY TableParts DEF Used
<1>2. i \in 0 .. u.size - 1
  BY <1>1, IndexInRange
<1>3. cell = [u.cells[c] EXCEPT !.next = u.heads[i]] /\ cell \in Cell
  BY <1>1, <1>2 DEF Cell
<1>4. Relink(u, c) = [u EXCEPT !.cells = cs, !.heads = hs]
  BY <1>1, <1>3 DEF Relink, Table
<1> HIDE DEF i
<1>5. cs \in Seq(Cell) /\ DOMAIN cs = DOMAIN u.cells /\ \A d \in DOMAIN u.cells : cs[d] = IF d = c THEN cell ELSE u.cells[d]
  BY <1>1, <1>3
<1>6. hs \in Heads
  <2>1. hs \in [0 .. u.size - 1 -> Nat \cup {Nil}]
    BY <1>1
  <2> QED
    BY <1>1, <2>1 DEF Heads
<1> HIDE DEF cs, hs
<1> DEFINE w == Relink(u, c)
<1>7. /\ w \in Table /\ w.cells = cs /\ w.heads = hs /\ w.size = u.size /\ w.min = u.min
      /\ w.count = u.count /\ w.free = u.free /\ w.refs = u.refs
  BY <1>1, <1>4, <1>5, <1>6 DEF Table
<1> HIDE DEF w
<1>8. Same(u, w)
  BY <1>5, <1>7 DEF Same
<1> QED
  BY <1>5, <1>7, <1>8 DEF w, hs, i

LEMMA Prepended ==
    ASSUME NEW S, NEW p \in Seq(S), NEW c \in S
    PROVE  LET q == <<c>> \o p
           IN  /\ q \in Seq(S) /\ Len(p) \in Nat /\ Len(q) = Len(p) + 1 /\ q[1] = c
               /\ \A n \in 1 .. Len(p) : n + 1 \in 1 .. Len(q) /\ q[n + 1] = p[n]
               /\ \A n \in 1 .. Len(q) : n # 1 => n - 1 \in 1 .. Len(p) /\ q[n] = p[n - 1]
OBVIOUS

LEMMA PathKept ==
    ASSUME NEW u, NEW w, NEW c, NEW p, Path(u, c, p),
           \A n \in 1 .. Len(p) : w.cells[p[n]].next = u.cells[p[n]].next
    PROVE  Path(w, c, p)
BY DEF Path

LEMMA PathLonger ==
    ASSUME NEW u, NEW S, NEW p \in Seq(S), NEW c \in S, NEW d, Path(u, d, p), u.cells[c].next = d
    PROVE  Path(u, c, <<c>> \o p)
<1> DEFINE q == <<c>> \o p
<1>1. /\ q \in Seq(S) /\ Len(p) \in Nat /\ Len(q) = Len(p) + 1 /\ q[1] = c
      /\ \A n \in 1 .. Len(p) : n + 1 \in 1 .. Len(q) /\ q[n + 1] = p[n]
      /\ \A n \in 1 .. Len(q) : n # 1 => n - 1 \in 1 .. Len(p) /\ q[n] = p[n - 1]
  BY Prepended
<1> HIDE DEF q
<1>2. ASSUME NEW n \in 1 .. Len(q) PROVE u.cells[q[n]].next = IF n = Len(q) THEN Nil ELSE q[n + 1]
  <2>1. CASE n = 1
    <3>1. u.cells[q[n]].next = IF Len(p) = 0 THEN Nil ELSE p[1]
      BY <1>1, <2>1 DEF Path
    <3>2. CASE Len(p) = 0
      BY <1>1, <2>1, <3>1, <3>2
    <3>3. CASE Len(p) # 0
      <4>1. q[1 + 1] = p[1] /\ Len(q) # 1
        BY <1>1, <3>3
      <4> QED
        BY <2>1, <3>1, <3>3, <4>1
    <3> QED
      BY <3>2, <3>3
  <2>2. CASE n # 1
    <3> DEFINE m == n - 1
    <3>1. m \in 1 .. Len(p) /\ q[n] = p[m] /\ n = m + 1
      BY <1>1, <2>2
    <3> HIDE DEF m
    <3>2. u.cells[p[m]].next = IF m = Len(p) THEN Nil ELSE p[m + 1]
      BY <3>1 DEF Path
    <3>3. CASE m = Len(p)
      BY <1>1, <3>1, <3>2, <3>3
    <3>4. CASE m # Len(p)
      <4>1. m + 1 \in 1 .. Len(p) /\ n # Len(q)
        BY <1>1, <3>1, <3>4
      <4>2. q[m + 1 + 1] = p[m + 1]
        BY <1>1, <4>1
      <4> QED
        BY <3>1, <3>2, <3>4, <4>1, <4>2
    <3> QED
      BY <3>3, <3>4
  <2> QED
    BY <2>1, <2>2
<1>3. c = IF Len(q) = 0 THEN Nil ELSE q[1]
  BY <1>1
<1>4. Path(u, c, q)
  BY <1>2, <1>3 DEF Path
<1> QED
  BY <1>4 DEF q

LEMMA PrependedInjective ==
    ASSUME NEW S, NEW p \in Seq(S), NEW c \in S, Injective(p), \A n \in 1 .. Len(p) : p[n] # c
    PROVE  Injective(<<c>> \o p)
<1> DEFINE q == <<c>> \o p
<1>1. /\ Len(p) \in Nat /\ Len(q) = Len(p) + 1 /\ q[1] = c
      /\ \A n \in 1 .. Len(q) : n # 1 => n - 1 \in 1 .. Len(p) /\ q[n] = p[n - 1]
  BY Prepended
<1> HIDE DEF q
<1> SUFFICES ASSUME NEW m \in 1 .. Len(q), NEW n \in 1 .. Len(q), q[m] = q[n] PROVE m = n
  BY DEF Injective, q
<1>2. CASE m = 1 \/ n = 1
  BY <1>1, <1>2
<1>3. CASE m # 1 /\ n # 1
  <2>1. m - 1 = n - 1
    BY <1>1, <1>3 DEF Injective
  <2> QED
    BY <2>1
<1> QED
  BY <1>2, <1>3

\* A cell that waits goes to the head of its chain.
LEMMA RelinkIs ==
    ASSUME NEW u, Pool(u), NEW ch, NEW W, Chained(u, ch, W), NEW c \in W
    PROVE  LET w == Relink(u, c)
           IN  Pool(w) /\ Same(u, w) /\ w.size = u.size /\ \E ch2 : Chained(w, ch2, W \ {c})
<1> DEFINE i == Index(u, u.cells[c].key)
           w == Relink(u, c)
           D == DOMAIN u.cells
           ch2 == [ch EXCEPT ![i] = <<c>> \o ch[i]]
<1>1. c \in Used(u) /\ c \in D /\ u.cells[c].key # Nil
  BY DEF Chained, Used
<1>2. /\ u.size \in Nat \ {0} /\ u.cells[c].key \in Keys
      /\ u.heads \in [0 .. u.size - 1 -> Nat \cup {Nil}]
  BY <1>1, TableParts
<1>3. i \in 0 .. u.size - 1
  BY <1>2, IndexInRange
<1>4. /\ w \in Table /\ w.heads = [u.heads EXCEPT ![i] = c] /\ w.size = u.size /\ Same(u, w)
      /\ \A d \in D : w.cells[d].next = IF d = c THEN u.heads[i] ELSE u.cells[d].next
  BY <1>1, RelinkFields
<1> HIDE DEF w
<1>5. Pool(w)
  <2>1. DOMAIN w.heads = 0 .. w.size - 1 /\ w.size > 0
    BY <1>2, <1>4
  <2>2. \A d \in D : u.cells[d].key = Nil => w.cells[d].next = Nil
    BY <1>1, <1>4 DEF Pool
  <2> QED
    BY <1>4, <2>1, <2>2, PoolKept
<1>6. Used(w) = Used(u) /\ DOMAIN w.cells = D /\ \A d \in D : w.cells[d].key = u.cells[d].key
  BY <1>4, SameUsed DEF Same
<1>7. /\ ch \in [0 .. u.size - 1 -> Seq(D)]
      /\ \A j \in 0 .. u.size - 1 : /\ ch[j] \in Seq(D) /\ Path(u, u.heads[j], ch[j])
                                    /\ Injective(ch[j])
      /\ \A j \in 0 .. u.size - 1 : \A n \in 1 .. Len(ch[j]) :
            ch[j][n] \in Used(u) \ W /\ Index(u, u.cells[ch[j][n]].key) = j
      /\ \A d \in Used(u) \ W : \E n \in 1 .. Len(ch[Index(u, u.cells[d].key)]) :
            ch[Index(u, u.cells[d].key)][n] = d
  BY DEF Chained
<1> DEFINE p == ch[i]
           q == <<c>> \o p
<1>8. p \in Seq(D)
  BY <1>3, <1>7
<1>9. /\ q \in Seq(D) /\ Len(p) \in Nat /\ Len(q) = Len(p) + 1 /\ q[1] = c
      /\ \A n \in 1 .. Len(p) : n + 1 \in 1 .. Len(q) /\ q[n + 1] = p[n]
      /\ \A n \in 1 .. Len(q) : n # 1 => n - 1 \in 1 .. Len(p) /\ q[n] = p[n - 1]
  <2> HIDE DEF p, D
  <2> QED
    BY <1>1, <1>8, Prepended
<1>10. \A j \in 0 .. u.size - 1 : \A n \in 1 .. Len(ch[j]) : ch[j][n] # c /\ ch[j][n] \in D
  BY <1>7 DEF Used
<1>11. \A j \in 0 .. u.size - 1 : Path(w, u.heads[j], ch[j])
  <2> SUFFICES ASSUME NEW j \in 0 .. u.size - 1 PROVE Path(w, u.heads[j], ch[j])
    OBVIOUS
  <2>1. \A n \in 1 .. Len(ch[j]) : w.cells[ch[j][n]].next = u.cells[ch[j][n]].next
    BY <1>4, <1>10
  <2> QED
    BY <1>7, <2>1, PathKept
<1>12. Path(w, c, q)
  <2>1. w.cells[c].next = u.heads[i] /\ Path(w, u.heads[i], p)
    BY <1>1, <1>3, <1>4, <1>11
  <2> QED
    BY <1>1, <1>8, <2>1, PathLonger
<1>13. Injective(q)
  BY <1>1, <1>3, <1>7, <1>8, <1>10, PrependedInjective
<1> HIDE DEF q, p
<1>14. ch2 \in [0 .. u.size - 1 -> Seq(D)] /\ \A j \in 0 .. u.size - 1 : ch2[j] = IF j = i THEN q ELSE ch[j]
  BY <1>3, <1>7, <1>9 DEF p, q
<1> HIDE DEF ch2
<1>15. \A j \in 0 .. u.size - 1 : Path(w, w.heads[j], ch2[j]) /\ Injective(ch2[j])
  BY <1>2, <1>3, <1>4, <1>7, <1>11, <1>12, <1>13, <1>14
<1>16. \A k : Index(w, k) = Index(u, k)
  BY <1>4 DEF Index
<1>17. ASSUME NEW j \in 0 .. u.size - 1, NEW n \in 1 .. Len(ch2[j])
       PROVE  ch2[j][n] \in Used(u) \ (W \ {c}) /\ Index(w, w.cells[ch2[j][n]].key) = j
  <2>0. \A d \in Used(u) : w.cells[d].key = u.cells[d].key
    BY <1>6 DEF Used
  <2>1. CASE j # i
    BY <1>7, <1>14, <1>16, <1>17, <2>0, <2>1
  <2>2. CASE j = i /\ n = 1
    BY <1>1, <1>9, <1>14, <1>16, <2>0, <2>2 DEF i
  <2>3. CASE j = i /\ n # 1
    <3>1. n - 1 \in 1 .. Len(p) /\ ch2[j][n] = p[n - 1]
      BY <1>9, <1>14, <1>17, <2>3
    <3>2. p[n - 1] \in Used(u) \ W /\ Index(u, u.cells[p[n - 1]].key) = i
      BY <1>3, <1>7, <3>1 DEF p
    <3> QED
      BY <1>16, <2>0, <2>3, <3>1, <3>2
  <2> QED
    BY <2>1, <2>2, <2>3
<1>18. ASSUME NEW d \in Used(u) \ (W \ {c})
       PROVE  \E n \in 1 .. Len(ch2[Index(w, w.cells[d].key)]) : ch2[Index(w, w.cells[d].key)][n] = d
  <2> DEFINE j == Index(u, u.cells[d].key)
  <2>1. j \in 0 .. u.size - 1 /\ Index(w, w.cells[d].key) = j
    <3>1. u.cells[d].key \in Keys /\ w.cells[d].key = u.cells[d].key
      BY <1>6, TableParts DEF Used
    <3> QED
      BY <1>2, <1>16, <3>1, IndexInRange
  <2>2. CASE d = c
    <3>1. j = i /\ 1 \in 1 .. Len(q) /\ q[1] = c
      BY <1>9, <2>2
    <3> QED
      BY <1>14, <2>1, <2>2, <3>1
  <2>3. CASE d # c
    <3>1. PICK n \in 1 .. Len(ch[j]) : ch[j][n] = d
      BY <1>7, <2>3
    <3>2. CASE j # i
      BY <1>14, <2>1, <3>1, <3>2
    <3>3. CASE j = i
      <4>1. n \in 1 .. Len(p) /\ p[n] = d
        BY <3>1, <3>3 DEF p
      <4>2. n + 1 \in 1 .. Len(q) /\ q[n + 1] = d
        BY <1>9, <4>1
      <4> QED
        BY <1>14, <2>1, <3>3, <4>2
    <3> QED
      BY <3>2, <3>3
  <2> QED
    BY <2>2, <2>3
<1>19. Chained(w, ch2, W \ {c})
  <2>1. W \ {c} \subseteq Used(w)
    BY <1>6 DEF Chained
  <2> QED
    BY <1>4, <1>6, <1>14, <1>15, <1>17, <1>18, <2>1 DEF Chained
<1>20. \E ch3 : Chained(w, ch3, W \ {c})
  BY <1>19
<1> QED
  BY <1>4, <1>5, <1>20 DEF w

-----------------------------------------------------------------------------
(* Resizing *)

LEMMA UsedFinite ==
    ASSUME NEW u, Pool(u)
    PROVE  IsFiniteSet(Used(u)) /\ u.count = Cardinality(Used(u)) /\ u.count \in Nat
<1>1. DOMAIN u.cells = 1 .. Len(u.cells) /\ Len(u.cells) \in Nat
  BY TableParts
<1>2. IsFiniteSet(1 .. Len(u.cells))
  BY <1>1, FS_Interval
<1>3. Used(u) \in SUBSET (1 .. Len(u.cells))
  BY <1>1 DEF Used
<1>4. IsFiniteSet(Used(u))
  BY <1>2, <1>3, FS_Subset
<1> QED
  BY <1>4, FS_CardinalityType DEF Pool

LEMMA SameTwice ==
    ASSUME NEW u, NEW v, NEW w, Same(u, v), Same(v, w)
    PROVE  Same(u, w)
BY DEF Same

\* All chains are empty, and all cells wait.
LEMMA EmptyHeads ==
    ASSUME NEW u, Pool(u), NEW n \in Nat \ {0}
    PROVE  LET w == [u EXCEPT !.heads = [i \in 0 .. n - 1 |-> Nil], !.size = n]
           IN  /\ Pool(w) /\ Same(u, w) /\ w.size = n
               /\ \E ch : Chained(w, ch, Used(u))
<1> DEFINE hs == [i \in 0 .. n - 1 |-> Nil]
           w == [u EXCEPT !.heads = hs, !.size = n]
           ch == [i \in 0 .. n - 1 |-> <<>>]
<1>1. u \in Table
  BY TableParts
<1>2. hs \in Heads
  <2>1. hs \in [0 .. n - 1 -> Nat \cup {Nil}]
    OBVIOUS
  <2> QED
    BY <2>1 DEF Heads
<1>3. DOMAIN hs = 0 .. n - 1 /\ \A i \in 0 .. n - 1 : hs[i] = Nil
  OBVIOUS
<1> HIDE DEF hs
<1>4. /\ w \in Table /\ w.heads = hs /\ w.size = n /\ w.cells = u.cells /\ w.min = u.min
      /\ w.count = u.count /\ w.free = u.free /\ w.refs = u.refs
  BY <1>1, <1>2 DEF Table
<1> HIDE DEF w
<1>5. Same(u, w)
  BY <1>4 DEF Same
<1>6. Pool(w)
  <2>1. \A c \in DOMAIN u.cells : u.cells[c].key = Nil => w.cells[c].next = Nil
    BY <1>4 DEF Pool
  <2> QED
    BY <1>3, <1>4, <1>5, <2>1, PoolKept
<1>7. Used(w) = Used(u)
  BY <1>5, SameUsed
<1>8. Chained(w, ch, Used(u))
  <2>1. ch \in [0 .. w.size - 1 -> Seq(DOMAIN w.cells)] /\ \A i \in 0 .. w.size - 1 : Len(ch[i]) = 0
    BY <1>4
  <2>2. \A i \in 0 .. w.size - 1 : Path(w, w.heads[i], ch[i]) /\ Injective(ch[i])
    BY <1>3, <1>4, <2>1 DEF Path, Injective
  <2>3. \A i \in 0 .. w.size - 1 : \A m \in 1 .. Len(ch[i]) :
           ch[i][m] \in Used(w) \ Used(u) /\ Index(w, w.cells[ch[i][m]].key) = i
    BY <2>1
  <2> QED
    BY <1>7, <2>1, <2>2, <2>3 DEF Chained
<1>9. \E ch2 : Chained(w, ch2, Used(u))
  BY <1>8
<1> QED
  BY <1>4, <1>5, <1>6, <1>9 DEF w, hs

\* Cells that wait are linked one after the other.
LEMMA RelinkAllIs ==
    ASSUME NEW u, Pool(u), NEW s, Len(s) \in Nat, \E ch : Chained(u, ch, Used(u)), Injective(s),
           \A n \in 1 .. Len(s) : s[n] \in Used(u),
           \A c \in Used(u) : \E n \in 1 .. Len(s) : s[n] = c
    PROVE  LET w == RelinkAll(u, s)
           IN  Right(w) /\ Same(u, w) /\ w.size = u.size
<1>0. PICK made : Relinks(u, s, made)
  BY RelinkAllUnfolds
<1>1. /\ made[0] = u /\ RelinkAll(u, s) = made[Len(s)]
      /\ \A i \in 1 .. Len(s) : made[i] = Relink(made[i - 1], s[i])
  BY <1>0 DEF Relinks
<1> DEFINE Left(i) == {c \in Used(u) : \A m \in 1 .. i : s[m] # c}
           Good(i, w) == Pool(w) /\ Same(u, w) /\ w.size = u.size /\ \E ch : Chained(w, ch, Left(i))
           There == {i \in 0 .. Len(s) : Good(i, made[i])}
<1>2. Good(0, made[0])
  <2>1. Left(0) = Used(u)
    OBVIOUS
  <2>2. Same(u, u)
    BY DEF Same
  <2> HIDE DEF Left
  <2> QED
    BY <1>1, <2>1, <2>2
<1>3. ASSUME NEW i \in 0 .. Len(s) - 1, Good(i, made[i]) PROVE Good(i + 1, made[i + 1])
  <2> DEFINE j == i + 1
  <2>1. j \in 1 .. Len(s) /\ j - 1 = i
    OBVIOUS
  <2>2. \A m \in 1 .. j : m \in 1 .. i \/ m = j
    BY <2>1
  <2>3. \A m \in 1 .. i : m \in 1 .. j /\ m \in 1 .. Len(s) /\ m # j
    BY <2>1
  <2>4. j \in 1 .. j
    BY <2>1
  <2> HIDE DEF j
  <2>5. made[j] = Relink(made[i], s[j])
    BY <1>1, <2>1
  <2>6. s[j] \in Left(i)
    BY <2>1, <2>3 DEF Injective
  <2>7. Left(j) = Left(i) \ {s[j]}
    BY <2>2, <2>3, <2>4
  <2> HIDE DEF Left
  <2>8. PICK ch : Chained(made[i], ch, Left(i))
    BY <1>3
  <2>9. Pool(made[i]) /\ Same(u, made[i]) /\ made[i].size = u.size
    BY <1>3
  <2>10. /\ Pool(made[j]) /\ Same(made[i], made[j]) /\ made[j].size = made[i].size
         /\ \E ch2 : Chained(made[j], ch2, Left(i) \ {s[j]})
    <3> DEFINE v == made[i]
               c == s[j]
               R == Left(i)
    <3> HIDE DEF v, c, R
    <3>1. Pool(v) /\ Chained(v, ch, R) /\ c \in R
      BY <2>6, <2>8, <2>9 DEF v, c, R
    <3>2. /\ Pool(Relink(v, c)) /\ Same(v, Relink(v, c)) /\ Relink(v, c).size = v.size
          /\ \E ch2 : Chained(Relink(v, c), ch2, R \ {c})
      BY <3>1, RelinkIs
    <3> QED
      BY <2>5, <3>2 DEF v, c, R
  <2>11. Same(u, made[j])
    BY <2>9, <2>10, SameTwice
  <2> QED
    BY <2>7, <2>9, <2>10, <2>11 DEF j
<1> HIDE DEF Good
<1>4. \A i \in 0 .. Len(s) : i \in There
  <2>1. 0 \in There
    BY <1>2
  <2>2. \A i \in 0 .. Len(s) - 1 : i \in There => i + 1 \in There
    BY <1>3
  <2> HIDE DEF There
  <2> QED
    BY <2>1, <2>2, InductionUpTo
<1>5. Good(Len(s), RelinkAll(u, s))
  BY <1>1, <1>4
<1>6. Left(Len(s)) = {}
  OBVIOUS
<1> HIDE DEF Left
<1> QED
  BY <1>5, <1>6 DEF Good, Right

LEMMA SizeIs ==
    ASSUME NEW u, Pool(u)
    PROVE  Clamp(Capacity(u.count), u.min, MaxCount) \in Nat \ {0}
<1>1. Capacity(u.count) \in Nat /\ u.min \in Nat \ {0} /\ MaxCount \in Nat \ {0}
  BY UsedFinite, CapacityBounds, TableParts, CountAssumption
<1> QED
  BY <1>1 DEF Clamp

\* A table that was resized is not due for another resize.
LEMMA SizeNotDue ==
    ASSUME NEW u, Pool(u)
    PROVE  LET n == Clamp(Capacity(u.count), u.min, MaxCount)
           IN  ~ (n >= 3 * u.count /\ n > u.min) /\ ~ (u.count >= 3 * n /\ n < MaxCount)
<1> DEFINE m == u.count
           x == Capacity(m)
<1>1. m \in Nat /\ u.min \in Nat \ {0} /\ MaxCount \in Nat \ {0}
  BY UsedFinite, TableParts, CountAssumption
<1>2. x \in Nat /\ m <= x /\ x <= IF m = 0 THEN 1 ELSE 2 * m - 1
  BY <1>1, CapacityBounds
<1> HIDE DEF m, x
<1>3. /\ ~ (Clamp(x, u.min, MaxCount) >= 3 * m /\ Clamp(x, u.min, MaxCount) > u.min)
      /\ ~ (m >= 3 * Clamp(x, u.min, MaxCount) /\ Clamp(x, u.min, MaxCount) < MaxCount)
  BY <1>1, <1>2 DEF Clamp
<1> QED
  BY <1>3 DEF m, x

LEMMA CheckOptimizeIs ==
    ASSUME NEW u, Right(u)
    PROVE  Settled(CheckOptimize(u)) /\ Same(u, CheckOptimize(u))
<1>1. Pool(u)
  BY DEF Right
<1>2. Right(Optimize(u)) /\ Same(u, Optimize(u)) /\ NotDue(Optimize(u))
  <2> DEFINE n == Clamp(Capacity(u.count), u.min, MaxCount)
             w == [u EXCEPT !.heads = [i \in 0 .. n - 1 |-> Nil], !.size = n]
             s == Entries(u)
  <2>1. n \in Nat \ {0}
    BY <1>1, SizeIs
  <2>2. Optimize(u) = RelinkAll(w, s)
    BY DEF Optimize
  <2> HIDE DEF n
  <2>3. Pool(w) /\ Same(u, w) /\ w.size = n /\ \E ch : Chained(w, ch, Used(u))
    BY <1>1, <2>1, EmptyHeads
  <2> HIDE DEF w, s
  <2>4. Used(w) = Used(u)
    BY <2>3, SameUsed
  <2>5. /\ Len(s) \in Nat /\ Injective(s) /\ \A m \in 1 .. Len(s) : s[m] \in Used(u)
        /\ \A c \in Used(u) : \E m \in 1 .. Len(s) : s[m] = c
    BY EntriesAre DEF s
  <2> DEFINE v == RelinkAll(w, s)
  <2>6. Right(v) /\ Same(w, v) /\ v.size = w.size
    BY <2>3, <2>4, <2>5, RelinkAllIs
  <2> HIDE DEF v
  <2>7. Same(u, v)
    BY <2>3, <2>6, SameTwice
  <2>8. NotDue(v)
    <3>1. v.size = n /\ v.count = u.count /\ v.min = u.min
      BY <2>3, <2>6, <2>7 DEF Same
    <3> QED
      BY <1>1, <3>1, SizeNotDue DEF NotDue, n
  <2> QED
    BY <2>2, <2>6, <2>7, <2>8 DEF v
<1>3. Same(u, u)
  BY DEF Same
<1> QED
  BY <1>2, <1>3 DEF CheckOptimize, Settled, NotDue

-----------------------------------------------------------------------------
(* References, and cells that go to the free list *)

\* The cells that refer to x
Holds(u, x) == {c \in Used(u) : u.cells[c].key = x \/ (kind = "dictionary" /\ u.cells[c].val = x)}

\* The references to x are those of the table and d[x] others.
Referred(u, d) ==
    \A x \in Keys \cup Vals : d[x] \in Int /\ u.refs[x] = Cardinality(Holds(u, x)) + d[x]

\* The entries of w are those of u in the cells S.
Kept(u, w, S) ==
    /\ Used(w) = S
    /\ \A c \in S : w.cells[c].key = u.cells[c].key /\ w.cells[c].val = u.cells[c].val

LEMMA HoldsFinite ==
    ASSUME NEW u, Pool(u), NEW x
    PROVE  IsFiniteSet(Holds(u, x)) /\ Cardinality(Holds(u, x)) \in Nat
<1>1. Holds(u, x) \in SUBSET Used(u)
  BY DEF Holds
<1>2. IsFiniteSet(Holds(u, x))
  BY <1>1, UsedFinite, FS_Subset
<1> QED
  BY <1>2, FS_CardinalityType

LEMMA SameKept ==
    ASSUME NEW u, NEW w, Same(u, w)
    PROVE  Kept(u, w, Used(u)) /\ \A d : Referred(u, d) => Referred(w, d)
<1>1. Used(w) = Used(u) /\ w.refs = u.refs
  BY SameUsed DEF Same
<1>2. \A c \in Used(u) : w.cells[c].key = u.cells[c].key /\ w.cells[c].val = u.cells[c].val
  BY DEF Same, Used
<1>3. \A x : Holds(w, x) = Holds(u, x)
  BY <1>1, <1>2 DEF Holds
<1> QED
  BY <1>1, <1>2, <1>3 DEF Kept, Referred

LEMMA BucketRemoveFields ==
    ASSUME NEW u, Pool(u), NEW c \in Used(u)
    PROVE  LET w == BucketRemove(u, c)
           IN  /\ w \in Table /\ w.heads = u.heads /\ w.size = u.size /\ w.min = u.min
               /\ w.cells = [u.cells EXCEPT ![c] = Unused]
               /\ w.free = <<c>> \o u.free /\ w.count = u.count - 1
               /\ \A x \in Keys \cup Vals :
                     w.refs[x] = IF c \in Holds(u, x) THEN u.refs[x] - 1 ELSE u.refs[x]
<1> DEFINE k == u.cells[c].key
           v == u.cells[c].val
           cs == [u.cells EXCEPT ![c] = Unused]
           fs == <<c>> \o u.free
           r1 == IF kind = "dictionary" THEN [u.refs EXCEPT ![v] = @ - 1] ELSE u.refs
           r2 == [r1 EXCEPT ![k] = @ - 1]
           w == BucketRemove(u, c)
           n == u.count - 1
<1>1. /\ u \in Table /\ u.cells \in Seq(Cell) /\ DOMAIN u.cells = 1 .. Len(u.cells) /\ c \in Nat
      /\ Len(u.cells) \in Nat /\ u.free \in Seq(Nat) /\ u.refs \in [Keys \cup Vals -> Int]
      /\ k \in Keys /\ c \in DOMAIN u.cells /\ u.count \in Int
  BY TableParts
<1>2. kind = "dictionary" => v \in Vals
  BY <1>1, KeyAssumption DEF Pool
<1>3. r1 \in [Keys \cup Vals -> Int] /\ r2 \in [Keys \cup Vals -> Int]
  <2> HIDE DEF k, v
  <2>1. r1 \in [Keys \cup Vals -> Int]
    BY <1>1, <1>2
  <2> HIDE DEF r1
  <2> QED
    BY <1>1, <2>1
<1>4. \A x \in Keys \cup Vals :
         r2[x] = IF x = k \/ (kind = "dictionary" /\ x = v) THEN u.refs[x] - 1 ELSE u.refs[x]
  <2>1. kind = "dictionary" => k # v
    BY <1>1, <1>2, KindAssumption
  <2>2. r1[k] = u.refs[k]
    BY <1>1, <1>2, <2>1
  <2>3. \A x \in Keys \cup Vals : r1[x] = IF kind = "dictionary" /\ x = v THEN u.refs[x] - 1 ELSE u.refs[x]
    BY <1>1
  <2> HIDE DEF k, v, r1
  <2>4. \A x \in Keys \cup Vals : r2[x] = IF x = k THEN r1[k] - 1 ELSE r1[x]
    BY <1>3
  <2> QED
    BY <2>1, <2>2, <2>3, <2>4
<1>5. w = [u EXCEPT !.refs = r2, !.cells = cs, !.free = fs, !.count = n]
  <2>1. CASE kind = "dictionary"
    BY <1>1, <2>1 DEF BucketRemove, Released, Table
  <2>2. CASE kind # "dictionary"
    BY <1>1, <2>2 DEF BucketRemove, Released, Table
  <2> QED
    BY <2>1, <2>2
<1>6. cs \in Seq(Cell)
  <2>1. Unused \in Cell
    BY DEF Unused, Cell
  <2> QED
    BY <1>1, <2>1
<1>7. fs \in Seq(Nat)
  BY <1>1
<1>8. \A x \in Keys \cup Vals : c \in Holds(u, x) <=> x = k \/ (kind = "dictionary" /\ x = v)
  BY DEF Holds
<1>a. n \in Int
  BY <1>1
<1> HIDE DEF cs, fs, r2, r1, w, k, v, n
<1>9. /\ w \in Table /\ w.heads = u.heads /\ w.size = u.size /\ w.min = u.min /\ w.cells = cs
      /\ w.free = fs /\ w.count = n /\ w.refs = r2
  BY <1>1, <1>3, <1>5, <1>6, <1>7, <1>a DEF Table
<1> QED
  BY <1>4, <1>8, <1>9 DEF cs, fs, w, n

LEMMA BucketRemoveIs ==
    ASSUME NEW u, Pool(u), NEW c \in Used(u)
    PROVE  LET w == BucketRemove(u, c)
           IN  /\ Pool(w) /\ w.heads = u.heads /\ w.size = u.size /\ w.min = u.min
               /\ DOMAIN w.cells = DOMAIN u.cells
               /\ \A d \in DOMAIN u.cells \ {c} : w.cells[d] = u.cells[d]
               /\ Kept(u, w, Used(u) \ {c})
               /\ \A d : Referred(u, d) => Referred(w, d)
<1> DEFINE w == BucketRemove(u, c)
           D == DOMAIN u.cells
<1>1. /\ w \in Table /\ w.heads = u.heads /\ w.size = u.size /\ w.min = u.min
      /\ w.cells = [u.cells EXCEPT ![c] = Unused]
      /\ w.free = <<c>> \o u.free /\ w.count = u.count - 1
      /\ \A x \in Keys \cup Vals :
            w.refs[x] = IF c \in Holds(u, x) THEN u.refs[x] - 1 ELSE u.refs[x]
  BY BucketRemoveFields
<1> HIDE DEF w
<1>2. /\ u.cells \in Seq(Cell) /\ c \in D /\ c \in Nat /\ u.free \in Seq(Nat) /\ D = 1 .. Len(u.cells)
      /\ u.refs \in [Keys \cup Vals -> Int]
  BY TableParts
<1>3. DOMAIN w.cells = D /\ w.cells[c] = Unused /\ \A d \in D \ {c} : w.cells[d] = u.cells[d]
  BY <1>1, <1>2
<1>4. Used(w) = Used(u) \ {c}
  BY <1>3 DEF Used, Unused
<1>5. Kept(u, w, Used(u) \ {c})
  BY <1>3, <1>4 DEF Kept, Used
<1>6. Pool(w)
  <2>1. \A d \in DOMAIN w.cells :
           IF w.cells[d].key = Nil THEN w.cells[d].next = Nil
           ELSE w.cells[d].val \in IF kind = "dictionary" THEN Vals ELSE Nat \ {0}
    <3>1. \A d \in D : IF u.cells[d].key = Nil THEN u.cells[d].next = Nil
                       ELSE u.cells[d].val \in IF kind = "dictionary" THEN Vals ELSE Nat \ {0}
      BY DEF Pool
    <3>2. w.cells[c].key = Nil /\ w.cells[c].next = Nil
      BY <1>3 DEF Unused
    <3> QED
      BY <1>3, <3>1, <3>2
  <2>2. \A a, b \in Used(w) : w.cells[a].key = w.cells[b].key => a = b
    BY <1>4, <1>5 DEF Pool, Kept
  <2> DEFINE f == u.free
             g == <<c>> \o f
  <2>3. /\ g \in Seq(Nat) /\ Len(f) \in Nat /\ Len(g) = Len(f) + 1 /\ g[1] = c
        /\ \A n \in 1 .. Len(f) : n + 1 \in 1 .. Len(g) /\ g[n + 1] = f[n]
        /\ \A n \in 1 .. Len(g) : n # 1 => n - 1 \in 1 .. Len(f) /\ g[n] = f[n - 1]
    <3> HIDE DEF f
    <3>1. f \in Seq(Nat)
      BY <1>2 DEF f
    <3> QED
      BY <1>2, <3>1, Prepended
  <2>4. /\ Injective(f)
        /\ \A i \in 1 .. Len(f) : f[i] \in D \ Used(u)
        /\ \A d \in D \ Used(u) : \E i \in 1 .. Len(f) : f[i] = d
    BY DEF Pool
  <2>5. w.free = g
    BY <1>1
  <2>6. Injective(g)
    <3>1. \A n \in 1 .. Len(f) : f[n] # c
      BY <2>4
    <3>2. f \in Seq(Nat)
      BY <1>2
    <3> HIDE DEF f
    <3> QED
      BY <1>2, <2>4, <3>1, <3>2, PrependedInjective
  <2> HIDE DEF f, g
  <2>7. \A i \in 1 .. Len(g) : g[i] \in D \ Used(w)
    BY <1>2, <1>4, <2>3, <2>4
  <2>8. \A d \in D \ Used(w) : \E i \in 1 .. Len(g) : g[i] = d
    <3> SUFFICES ASSUME NEW d \in D \ Used(w) PROVE \E i \in 1 .. Len(g) : g[i] = d
      OBVIOUS
    <3>1. CASE d = c
      <4>1. 1 \in 1 .. Len(g)
        BY <2>3
      <4> QED
        BY <2>3, <3>1, <4>1
    <3>2. CASE d # c
      <4>1. PICK i \in 1 .. Len(f) : f[i] = d
        BY <1>4, <2>4, <3>2
      <4> QED
        BY <2>3, <4>1
    <3> QED
      BY <3>1, <3>2
  <2>9. w.count = Cardinality(Used(w))
    <3>1. Cardinality(Used(u) \ {c}) = Cardinality(Used(u)) - 1
      BY UsedFinite, FS_RemoveElement
    <3> QED
      BY <1>1, <1>4, <3>1, UsedFinite
  <2>10. w.size > 0 /\ w.min > 0 /\ DOMAIN w.heads = 0 .. w.size - 1
    BY <1>1 DEF Pool
  <2> QED
    BY <1>1, <1>3, <2>1, <2>2, <2>5, <2>6, <2>7, <2>8, <2>9, <2>10 DEF Pool
<1>7. ASSUME NEW d, Referred(u, d) PROVE Referred(w, d)
  <2> SUFFICES ASSUME NEW x \in Keys \cup Vals
               PROVE  d[x] \in Int /\ w.refs[x] = Cardinality(Holds(w, x)) + d[x]
    BY DEF Referred
  <2>1. d[x] \in Int /\ u.refs[x] = Cardinality(Holds(u, x)) + d[x]
    BY <1>7 DEF Referred
  <2>2. Holds(w, x) = Holds(u, x) \ {c}
    BY <1>4, <1>5 DEF Holds, Kept
  <2>3. IsFiniteSet(Holds(u, x)) /\ Cardinality(Holds(u, x)) \in Nat
    BY HoldsFinite
  <2>4. Cardinality(Holds(u, x) \ {c}) = IF c \in Holds(u, x) THEN Cardinality(Holds(u, x)) - 1
                                         ELSE Cardinality(Holds(u, x))
    BY <2>3, FS_RemoveElement
  <2>5. w.refs[x] = IF c \in Holds(u, x) THEN u.refs[x] - 1 ELSE u.refs[x]
    BY <1>1
  <2> QED
    BY <2>1, <2>2, <2>3, <2>4, <2>5
<1> QED
  BY <1>1, <1>3, <1>5, <1>6, <1>7 DEF w

\* The loop over all buckets that removes them leaves no entry and no reference.
LEMMA BucketRemoveAllIs ==
    ASSUME NEW u, Pool(u), NEW s, Len(s) \in Nat, Injective(s),
           \A n \in 1 .. Len(s) : s[n] \in Used(u),
           \A c \in Used(u) : \E n \in 1 .. Len(s) : s[n] = c
    PROVE  LET w == BucketRemoveAll(u, s)
           IN  /\ Pool(w) /\ w.heads = u.heads /\ w.size = u.size /\ Used(w) = {}
               /\ \A d : Referred(u, d) => Referred(w, d)
<1>1. PICK made : /\ made[0] = u /\ BucketRemoveAll(u, s) = made[Len(s)]
                  /\ \A i \in 1 .. Len(s) : made[i] = BucketRemove(made[i - 1], s[i])
  BY BucketRemoveAllUnfolds
<1> DEFINE Left(i) == {c \in Used(u) : \A m \in 1 .. i : s[m] # c}
           Good(i, w) == /\ Pool(w) /\ w.heads = u.heads /\ w.size = u.size /\ Used(w) = Left(i)
                         /\ \A d : Referred(u, d) => Referred(w, d)
           There == {i \in 0 .. Len(s) : Good(i, made[i])}
<1>2. Good(0, made[0])
  <2>1. Left(0) = Used(u)
    OBVIOUS
  <2> HIDE DEF Left
  <2> QED
    BY <1>1, <2>1
<1>3. ASSUME NEW i \in 0 .. Len(s) - 1, Good(i, made[i]) PROVE Good(i + 1, made[i + 1])
  <2> DEFINE j == i + 1
             v == made[i]
             c == s[j]
  <2>1. j \in 1 .. Len(s) /\ j - 1 = i
    OBVIOUS
  <2>2. \A m \in 1 .. j : m \in 1 .. i \/ m = j
    BY <2>1
  <2>3. \A m \in 1 .. i : m \in 1 .. j /\ m \in 1 .. Len(s) /\ m # j
    BY <2>1
  <2>4. j \in 1 .. j
    BY <2>1
  <2> HIDE DEF j
  <2>5. made[j] = BucketRemove(v, c)
    BY <1>1, <2>1
  <2>6. c \in Left(i)
    BY <2>1, <2>3 DEF Injective
  <2>7. Left(j) = Left(i) \ {c}
    BY <2>2, <2>3, <2>4
  <2> HIDE DEF Left
  <2>8. Good(i, v)
    BY <1>3
  <2> HIDE DEF v, c
  <2>9. Pool(v) /\ c \in Used(v)
    BY <2>6, <2>8
  <2> DEFINE w == BucketRemove(v, c)
  <2>10. /\ Pool(w) /\ w.heads = v.heads /\ w.size = v.size
         /\ Kept(v, w, Used(v) \ {c})
         /\ \A d : Referred(v, d) => Referred(w, d)
    BY <2>9, BucketRemoveIs
  <2>11. made[j] = w
    BY <2>5
  <2> HIDE DEF w
  <2>12. Good(j, w)
    BY <2>7, <2>8, <2>10 DEF Kept
  <2> QED
    BY <2>11, <2>12 DEF j
<1> HIDE DEF Good
<1>4. \A i \in 0 .. Len(s) : i \in There
  <2>1. 0 \in There
    BY <1>2
  <2>2. \A i \in 0 .. Len(s) - 1 : i \in There => i + 1 \in There
    BY <1>3
  <2> HIDE DEF There
  <2> QED
    BY <2>1, <2>2, InductionUpTo
<1>5. Good(Len(s), BucketRemoveAll(u, s))
  BY <1>1, <1>4
<1>6. Left(Len(s)) = {}
  OBVIOUS
<1> HIDE DEF Left
<1> QED
  BY <1>5, <1>6 DEF Good

LEMMA EntriesRemoved ==
    ASSUME NEW u, Right(u)
    PROVE  LET w == BucketRemoveAll(u, Entries(u))
           IN  /\ Pool(w) /\ w.heads = u.heads /\ w.size = u.size /\ Used(w) = {}
               /\ \A d : Referred(u, d) => Referred(w, d)
<1>1. Pool(u)
  BY DEF Right
<1> DEFINE s == Entries(u)
<1>2. /\ Len(s) \in Nat /\ Injective(s) /\ \A m \in 1 .. Len(s) : s[m] \in Used(u)
      /\ \A c \in Used(u) : \E m \in 1 .. Len(s) : s[m] = c
  BY EntriesAre
<1> HIDE DEF s
<1>3. LET w == BucketRemoveAll(u, s)
      IN  /\ Pool(w) /\ w.heads = u.heads /\ w.size = u.size /\ Used(w) = {}
          /\ \A d : Referred(u, d) => Referred(w, d)
  BY <1>1, <1>2, BucketRemoveAllIs
<1> QED
  BY <1>3 DEF s

\* A table that is emptied is right and empty, and holds no references.
LEMMA RemoveAllDataIs ==
    ASSUME NEW u, Right(u)
    PROVE  LET w == RemoveAllData(u)
           IN  Settled(w) /\ Used(w) = {} /\ \A d : Referred(u, d) => Referred(w, d)
<1> DEFINE v == BucketRemoveAll(u, Entries(u))
           x == [v EXCEPT !.heads = [i \in 0 .. v.size - 1 |-> Nil], !.size = v.size]
<1>1. /\ Pool(v) /\ v.heads = u.heads /\ v.size = u.size /\ Used(v) = {}
      /\ \A d : Referred(u, d) => Referred(v, d)
  BY EntriesRemoved
<1> HIDE DEF v
<1>2. v \in Table /\ v.size \in Nat \ {0}
  BY <1>1, TableParts
<1>3. DOMAIN u.heads = 0 .. v.size - 1
  BY <1>1 DEF Pool
<1>4. [v EXCEPT !.heads = [i \in DOMAIN u.heads |-> Nil]] = x
  BY <1>2, <1>3 DEF Table
<1>5. Pool(x) /\ Same(v, x) /\ \E ch : Chained(x, ch, Used(v))
  <2> DEFINE n == v.size
  <2> HIDE DEF n
  <2>1. n \in Nat \ {0}
    BY <1>2 DEF n
  <2>2. LET y == [v EXCEPT !.heads = [i \in 0 .. n - 1 |-> Nil], !.size = n]
        IN  Pool(y) /\ Same(v, y) /\ y.size = n /\ \E ch : Chained(y, ch, Used(v))
    BY <1>1, <2>1, EmptyHeads
  <2> QED
    BY <2>2 DEF n
<1> HIDE DEF x
<1>6. Right(x) /\ Used(x) = {}
  BY <1>1, <1>5, SameUsed DEF Right
<1>7. \A d : Referred(u, d) => Referred(x, d)
  BY <1>1, <1>5, SameKept
<1> DEFINE w == CheckOptimize(x)
<1>8. RemoveAllData(u) = w
  BY <1>4 DEF RemoveAllData, v
<1>9. Settled(w) /\ Same(x, w)
  BY <1>6, CheckOptimizeIs
<1> HIDE DEF w
<1>10. Used(w) = {} /\ \A d : Referred(u, d) => Referred(w, d)
  BY <1>6, <1>7, <1>9, SameUsed, SameKept
<1> QED
  BY <1>8, <1>9, <1>10

LEMMA DeallocIs ==
    ASSUME NEW u, Right(u), NEW d, Referred(u, d)
    PROVE  /\ Dealloc(u) \in [Keys \cup Vals -> Int]
           /\ \A x \in Keys \cup Vals : Dealloc(u)[x] = d[x]
<1> DEFINE v == BucketRemoveAll(u, Entries(u))
<1>1. Pool(v) /\ Used(v) = {} /\ Referred(v, d)
  BY EntriesRemoved
<1>2. Dealloc(u) = v.refs
  BY DEF Dealloc
<1> HIDE DEF v
<1>3. v.refs \in [Keys \cup Vals -> Int]
  BY <1>1, TableParts
<1>4. ASSUME NEW x \in Keys \cup Vals PROVE v.refs[x] = d[x]
  <2>1. Holds(v, x) = {}
    BY <1>1 DEF Holds
  <2>2. Cardinality(Holds(v, x)) = 0
    BY <2>1, FS_EmptySet
  <2>3. d[x] \in Int /\ v.refs[x] = Cardinality(Holds(v, x)) + d[x]
    BY <1>1 DEF Referred
  <2> QED
    BY <2>2, <2>3
<1> QED
  BY <1>2, <1>3, <1>4

-----------------------------------------------------------------------------
(* Taking a cell out of its chain *)

\* r is p without its k-th cell, and what led to the cell leads to the next.
Shorter(u, w, p, r, k, h, g) ==
    /\ k \in 1 .. Len(p) /\ Injective(p) /\ Path(u, h, p) /\ Len(r) = Len(p) - 1
    /\ \A j \in 1 .. Len(p) - 1 : r[j] = IF j < k THEN p[j] ELSE p[j + 1]
    /\ g = IF k = 1 THEN u.cells[p[k]].next ELSE h
    /\ \A j \in 1 .. Len(p) : j # k - 1 => w.cells[p[j]].next = u.cells[p[j]].next
    /\ k # 1 => w.cells[p[k - 1]].next = u.cells[p[k]].next

LEMMA PathShorter ==
    ASSUME NEW u, NEW w, NEW p, Len(p) \in Nat, NEW r, NEW k, NEW h, NEW g, Shorter(u, w, p, r, k, h, g)
    PROVE  Path(w, g, r)
<1> DEFINE n == Len(p)
<1>1. n \in Nat /\ k \in Nat /\ k >= 1 /\ k <= n
  BY DEF Shorter
<1>2. /\ h = IF n = 0 THEN Nil ELSE p[1]
      /\ \A j \in 1 .. n : u.cells[p[j]].next = IF j = n THEN Nil ELSE p[j + 1]
  BY DEF Path, Shorter
<1>3. Len(r) = n - 1 /\ \A j \in 1 .. n - 1 : r[j] = IF j < k THEN p[j] ELSE p[j + 1]
  BY DEF Shorter
<1>4. /\ \A j \in 1 .. n : j # k - 1 => w.cells[p[j]].next = u.cells[p[j]].next
      /\ k # 1 => w.cells[p[k - 1]].next = u.cells[p[k]].next
  BY DEF Shorter
<1>a. g = IF k = 1 THEN u.cells[p[k]].next ELSE h
  BY DEF Shorter
<1> HIDE DEF n
<1>5. g = IF Len(r) = 0 THEN Nil ELSE r[1]
  <2>1. CASE k = 1
    <3>1. g = IF 1 = n THEN Nil ELSE p[1 + 1]
      BY <1>1, <1>2, <1>a, <2>1
    <3>2. CASE n = 1
      BY <1>3, <3>1, <3>2
    <3>3. CASE n # 1
      <4>1. 1 \in 1 .. n - 1 /\ ~ 1 < k /\ Len(r) # 0
        BY <1>1, <1>3, <2>1, <3>3
      <4>2. r[1] = p[1 + 1]
        BY <1>3, <4>1
      <4> QED
        BY <3>1, <3>3, <4>1, <4>2
    <3> QED
      BY <3>2, <3>3
  <2>2. CASE k # 1
    <3>1. 1 \in 1 .. n - 1 /\ 1 < k /\ Len(r) # 0 /\ n # 0
      BY <1>1, <1>3, <2>2
    <3>2. r[1] = p[1]
      BY <1>3, <3>1
    <3> QED
      BY <1>2, <1>a, <2>2, <3>1, <3>2
  <2> QED
    BY <2>1, <2>2
<1>6. ASSUME NEW j \in 1 .. Len(r) PROVE w.cells[r[j]].next = IF j = Len(r) THEN Nil ELSE r[j + 1]
  <2>0. j \in 1 .. n - 1 /\ j \in Nat /\ j \in 1 .. n /\ j + 1 \in 1 .. n
    BY <1>1, <1>3
  <2>1. CASE j < k - 1
    <3>1. j < k /\ j # k - 1 /\ j # n /\ j + 1 \in 1 .. n - 1 /\ j + 1 < k /\ j # Len(r)
      BY <1>1, <1>3, <2>0, <2>1
    <3>2. r[j] = p[j] /\ r[j + 1] = p[j + 1]
      BY <1>3, <2>0, <3>1
    <3>3. w.cells[p[j]].next = p[j + 1]
      BY <1>2, <1>4, <2>0, <3>1
    <3> QED
      BY <3>1, <3>2, <3>3
  <2>2. CASE j = k - 1
    <3>1. k # 1 /\ j < k /\ k \in 1 .. n
      BY <1>1, <2>0, <2>2
    <3>2. r[j] = p[k - 1] /\ w.cells[p[k - 1]].next = IF k = n THEN Nil ELSE p[k + 1]
      BY <1>2, <1>3, <1>4, <2>0, <2>2, <3>1
    <3>3. CASE k = n
      <4>1. j = Len(r)
        BY <1>1, <1>3, <2>2, <3>3
      <4> QED
        BY <3>2, <3>3, <4>1
    <3>4. CASE k # n
      <4>1. k \in 1 .. n - 1 /\ ~ k < k /\ j + 1 = k /\ j # Len(r)
        BY <1>1, <1>3, <2>2, <3>4
      <4>2. r[k] = p[k + 1]
        BY <1>3, <4>1
      <4> QED
        BY <3>2, <3>4, <4>1, <4>2
    <3> QED
      BY <3>3, <3>4
  <2>3. CASE j > k - 1
    <3> DEFINE m == j + 1
    <3>1. m \in 1 .. n /\ m # k - 1 /\ ~ j < k /\ m \in Nat
      BY <1>1, <2>0, <2>3
    <3>2. r[j] = p[m]
      BY <1>3, <2>0, <3>1
    <3>3. (m = n) <=> (j = Len(r))
      BY <1>1, <1>3, <2>0
    <3>4. m # n => m \in 1 .. n - 1 /\ ~ m < k
      BY <1>1, <2>3, <3>1
    <3> HIDE DEF m
    <3>5. w.cells[p[m]].next = IF m = n THEN Nil ELSE p[m + 1]
      BY <1>2, <1>4, <3>1
    <3>6. m # n => r[m] = p[m + 1]
      BY <1>3, <3>4
    <3>7. m = j + 1
      BY DEF m
    <3> QED
      BY <3>2, <3>3, <3>5, <3>6, <3>7
  <2> QED
    BY <1>1, <2>0, <2>1, <2>2, <2>3
<1> QED
  BY <1>5, <1>6 DEF Path

\* The table from which the chain of c no longer leads to c
Detached(u, i, k, p) ==
    IF k = 1 THEN [u EXCEPT !.heads[i] = u.cells[p[k]].next]
    ELSE [u EXCEPT !.cells[p[k - 1]].next = u.cells[p[k]].next]

LEMMA DetachedFields ==
    ASSUME NEW u, Pool(u), NEW i \in 0 .. u.size - 1, NEW p \in Seq(DOMAIN u.cells), NEW k \in 1 .. Len(p),
           Injective(p), u.cells[p[k]].next \in Nat \cup {Nil}
    PROVE  LET w == Detached(u, i, k, p)
               next == u.cells[p[k]].next
           IN  /\ w \in Table /\ w.size = u.size /\ Same(u, w)
               /\ w.heads = IF k = 1 THEN [u.heads EXCEPT ![i] = next] ELSE u.heads
               /\ \A d \in DOMAIN u.cells :
                     w.cells[d].next = IF k # 1 /\ d = p[k - 1] THEN next ELSE u.cells[d].next
<1> DEFINE next == u.cells[p[k]].next
           hs == [u.heads EXCEPT ![i] = next]
           b == p[k - 1]
           cell == [key |-> u.cells[b].key, val |-> u.cells[b].val, next |-> next]
           cs == [u.cells EXCEPT ![b] = cell]
           w == Detached(u, i, k, p)
<1>1. /\ u \in Table /\ u.cells \in Seq(Cell) /\ DOMAIN u.cells = 1 .. Len(u.cells)
      /\ Len(u.cells) \in Nat /\ u.size \in Nat \ {0}
      /\ u.heads \in [0 .. u.size - 1 -> Nat \cup {Nil}]
      /\ \A d \in DOMAIN u.cells : u.cells[d] \in Cell
  BY TableParts
<1>2. next \in Nat \cup {Nil}
  OBVIOUS
<1>3. CASE k = 1
  <2>1. w = [u EXCEPT !.heads = hs]
    BY <1>1, <1>3 DEF Detached, Table
  <2>2. hs \in Heads
    <3>1. hs \in [0 .. u.size - 1 -> Nat \cup {Nil}]
      BY <1>1, <1>2
    <3> QED
      BY <1>1, <3>1 DEF Heads
  <2> HIDE DEF hs, w
  <2>3. /\ w \in Table /\ w.heads = hs /\ w.size = u.size /\ w.cells = u.cells /\ w.min = u.min
        /\ w.count = u.count /\ w.free = u.free /\ w.refs = u.refs
    BY <1>1, <2>1, <2>2 DEF Table
  <2>4. Same(u, w)
    BY <2>3 DEF Same
  <2> QED
    BY <1>3, <2>3, <2>4 DEF w, hs
<1>4. CASE k # 1
  <2>1. b \in DOMAIN u.cells /\ b \in Nat
    <3>1. k - 1 \in 1 .. Len(p)
      BY <1>4
    <3> QED
      BY <1>1, <3>1, SMTT(30)
  <2>2. u.cells[b] \in Cell
    BY <1>1, <2>1
  <2> HIDE DEF b, next
  <2>3. cell = [u.cells[b] EXCEPT !.next = next] /\ cell \in Cell
    BY <1>2, <2>2 DEF Cell
  <2>4. w = [u EXCEPT !.cells = cs]
    BY <1>1, <1>4, <2>1, <2>3 DEF Detached, Table, b, next
  <2>5. cs \in Seq(Cell) /\ DOMAIN cs = DOMAIN u.cells /\ \A d \in DOMAIN u.cells : cs[d] = IF d = b THEN cell ELSE u.cells[d]
    BY <1>1, <2>1, <2>3
  <2> HIDE DEF cs, w
  <2>6. /\ w \in Table /\ w.heads = u.heads /\ w.size = u.size /\ w.cells = cs /\ w.min = u.min
        /\ w.count = u.count /\ w.free = u.free /\ w.refs = u.refs
    BY <1>1, <2>4, <2>5 DEF Table
  <2>7. Same(u, w)
    BY <2>5, <2>6 DEF Same
  <2>8. \A d \in DOMAIN u.cells : w.cells[d].next = IF k # 1 /\ d = b THEN next ELSE u.cells[d].next
    BY <1>4, <2>5, <2>6
  <2> QED
    BY <1>4, <2>6, <2>7, <2>8 DEF w, b, next
<1> QED
  BY <1>3, <1>4

\* c is the k-th cell of chain i.
At(u, ch, c, i, k) == i = Index(u, u.cells[c].key) /\ k \in 1 .. Len(ch[i]) /\ ch[i][k] = c

\* Once detached, the cell waits.
LEMMA DetachedIs ==
    ASSUME NEW u, Pool(u), NEW ch, Chained(u, ch, {}), NEW c \in Used(u), NEW i, NEW k, At(u, ch, c, i, k)
    PROVE  LET w == Detached(u, i, k, ch[i])
           IN  Pool(w) /\ Same(u, w) /\ w.size = u.size /\ \E ch2 : Chained(w, ch2, {c})
<1> DEFINE p == ch[i]
           w == Detached(u, i, k, p)
           D == DOMAIN u.cells
           r == RemoveFirst(p, c)
           next == u.cells[c].next
           ch2 == [ch EXCEPT ![i] = r]
<1>1. /\ u.size \in Nat \ {0} /\ u.cells[c].key \in Keys /\ c \in D /\ u.cells[c] \in Cell
      /\ u.heads \in [0 .. u.size - 1 -> Nat \cup {Nil}]
  BY TableParts
<1>a. i = Index(u, u.cells[c].key) /\ k \in 1 .. Len(p) /\ p[k] = c
  BY DEF At
<1>2. i \in 0 .. u.size - 1
  BY <1>1, <1>a, IndexInRange
<1>3. /\ ch \in [0 .. u.size - 1 -> Seq(D)]
      /\ \A j \in 0 .. u.size - 1 : Path(u, u.heads[j], ch[j]) /\ Injective(ch[j])
      /\ \A j \in 0 .. u.size - 1 : \A n \in 1 .. Len(ch[j]) :
            ch[j][n] \in Used(u) /\ Index(u, u.cells[ch[j][n]].key) = j
      /\ \A d \in Used(u) : \E n \in 1 .. Len(ch[Index(u, u.cells[d].key)]) :
            ch[Index(u, u.cells[d].key)][n] = d
  BY DEF Chained
<1>4. p \in Seq(D) /\ Path(u, u.heads[i], p) /\ Injective(p) /\ k \in 1 .. Len(p) /\ p[k] = c
  BY <1>2, <1>3, <1>a
<1>5. next \in Nat \cup {Nil}
  BY <1>1 DEF Cell
<1>6. /\ w \in Table /\ w.size = u.size /\ Same(u, w)
      /\ w.heads = IF k = 1 THEN [u.heads EXCEPT ![i] = next] ELSE u.heads
      /\ \A d \in D : w.cells[d].next = IF k # 1 /\ d = p[k - 1] THEN next ELSE u.cells[d].next
  <2> HIDE DEF p
  <2>1. u.cells[p[k]].next \in Nat \cup {Nil}
    BY <1>4, <1>5
  <2> QED
    BY <1>2, <1>4, <2>1, DetachedFields
<1> HIDE DEF w
<1>7. Used(w) = Used(u) /\ DOMAIN w.cells = D /\ \A d \in D : w.cells[d].key = u.cells[d].key
  BY <1>6, SameUsed DEF Same
<1>8. \A j : Index(w, j) = Index(u, j)
  BY <1>6 DEF Index
<1>9. \A j \in 0 .. u.size - 1 : \A n \in 1 .. Len(ch[j]) : ch[j][n] \in D /\ ch[j][n] \in Used(u)
  BY <1>3 DEF Used
<1>10. k # 1 => /\ k - 1 \in 1 .. Len(p) /\ p[k - 1] \in Used(u)
                 /\ Index(u, u.cells[p[k - 1]].key) = i
  BY <1>2, <1>3, <1>4
<1>11. Pool(w)
  <2>1. \A d \in D : u.cells[d].key = Nil => w.cells[d].next = Nil
    BY <1>6, <1>10 DEF Pool, Used
  <2>2. DOMAIN w.heads = 0 .. w.size - 1 /\ w.size > 0
    BY <1>1, <1>6
  <2> QED
    BY <1>6, <2>1, <2>2, PoolKept
<1>12. /\ r \in Seq(D) /\ Len(r) = Len(p) - 1
       /\ \A j \in 1 .. Len(p) - 1 : r[j] = IF j < k THEN p[j] ELSE p[j + 1]
  <2>1. \A j \in 1 .. Len(p) : p[j] = c => j = k
    BY <1>4 DEF Injective
  <2>2. p \in Seq(D) /\ k \in 1 .. Len(p) /\ p[k] = c
    BY <1>4
  <2> HIDE DEF p, D
  <2> QED
    BY <2>1, <2>2, RemoveFirstRemoves
<1>13. \A j \in 1 .. Len(r) : /\ j < k => j \in 1 .. Len(p) /\ j # k /\ r[j] = p[j]
                              /\ ~ j < k => j + 1 \in 1 .. Len(p) /\ j + 1 # k /\ r[j] = p[j + 1]
  BY <1>4, <1>12
<1>14. \A j \in 1 .. Len(p) : j # k => \E m \in 1 .. Len(r) : r[m] = p[j]
  <2> SUFFICES ASSUME NEW j \in 1 .. Len(p), j # k PROVE \E m \in 1 .. Len(r) : r[m] = p[j]
    OBVIOUS
  <2>1. CASE j < k
    <3>1. j \in 1 .. Len(r) /\ j \in 1 .. Len(p) - 1
      BY <1>4, <1>12, <2>1
    <3> QED
      BY <1>12, <2>1, <3>1
  <2>2. CASE j > k
    <3>1. j - 1 \in 1 .. Len(r) /\ j - 1 \in 1 .. Len(p) - 1 /\ ~ j - 1 < k /\ j - 1 + 1 = j
      BY <1>4, <1>12, <2>2
    <3>2. r[j - 1] = p[j]
      BY <1>12, <3>1
    <3> QED
      BY <3>1, <3>2
  <2> QED
    BY <1>4, <2>1, <2>2
<1> HIDE DEF r
<1>15. \A j \in 0 .. u.size - 1 : j # i => Path(w, u.heads[j], ch[j])
  <2> SUFFICES ASSUME NEW j \in 0 .. u.size - 1, j # i PROVE Path(w, u.heads[j], ch[j])
    OBVIOUS
  <2>1. \A n \in 1 .. Len(ch[j]) : ch[j][n] \in D /\ (k # 1 => ch[j][n] # p[k - 1])
    BY <1>2, <1>3, <1>9, <1>10
  <2>2. \A n \in 1 .. Len(ch[j]) : w.cells[ch[j][n]].next = u.cells[ch[j][n]].next
    BY <1>6, <2>1
  <2> QED
    BY <1>3, <2>2, PathKept
<1>16. Path(w, w.heads[i], r)
  <2> DEFINE h == u.heads[i]
             g == w.heads[i]
  <2>1. g = IF k = 1 THEN u.cells[p[k]].next ELSE h
    BY <1>1, <1>2, <1>4, <1>6
  <2>2. \A j \in 1 .. Len(p) : j # k - 1 => w.cells[p[j]].next = u.cells[p[j]].next
    <3>1. \A j \in 1 .. Len(p) : p[j] \in D
      BY <1>4
    <3>2. \A j \in 1 .. Len(p) : j # k - 1 /\ k # 1 => p[j] # p[k - 1]
      BY <1>4, <1>10 DEF Injective
    <3> QED
      BY <1>6, <3>1, <3>2
  <2>3. k # 1 => w.cells[p[k - 1]].next = u.cells[p[k]].next
    BY <1>4, <1>6, <1>9, <1>2, <1>10
  <2> HIDE DEF p, h, g, D
  <2>4. p \in Seq(D) /\ r \in Seq(D) /\ k \in 1 .. Len(p) /\ Injective(p) /\ Path(u, h, p)
    BY <1>4, <1>12 DEF h
  <2>6. Len(r) = Len(p) - 1 /\ \A j \in 1 .. Len(p) - 1 : r[j] = IF j < k THEN p[j] ELSE p[j + 1]
    BY <1>12
  <2>7. Shorter(u, w, p, r, k, h, g) /\ Len(p) \in Nat
    BY <2>1, <2>2, <2>3, <2>4, <2>6 DEF Shorter
  <2>5. Path(w, g, r)
    BY <2>7, PathShorter
  <2> QED
    BY <2>5 DEF g
<1>17. Injective(r)
  BY <1>4, <1>13, SMTT(30) DEF Injective
<1> HIDE DEF p
<1>18. ch2 \in [0 .. u.size - 1 -> Seq(D)] /\ \A j \in 0 .. u.size - 1 : ch2[j] = IF j = i THEN r ELSE ch[j]
  BY <1>2, <1>3, <1>12
<1> HIDE DEF ch2
<1>19. \A j \in 0 .. u.size - 1 : j # i => w.heads[j] = u.heads[j]
  BY <1>1, <1>6
<1>20. \A j \in 0 .. u.size - 1 : Path(w, w.heads[j], ch2[j]) /\ Injective(ch2[j])
  BY <1>3, <1>15, <1>16, <1>17, <1>18, <1>19
<1>21. \A d \in Used(u) : w.cells[d].key = u.cells[d].key
  BY <1>7 DEF Used
<1>22. ASSUME NEW j \in 0 .. u.size - 1, NEW n \in 1 .. Len(ch2[j])
       PROVE  ch2[j][n] \in Used(u) \ {c} /\ Index(w, w.cells[ch2[j][n]].key) = j
  <2>1. CASE j # i
    <3>1. ch2[j][n] = ch[j][n] /\ n \in 1 .. Len(ch[j])
      BY <1>18, <1>22, <2>1
    <3>2. ch[j][n] \in Used(u) /\ Index(u, u.cells[ch[j][n]].key) = j
      BY <1>3, <3>1
    <3>3. ch[j][n] # c
      BY <1>a, <2>1, <3>2
    <3> QED
      BY <1>8, <1>21, <3>1, <3>2, <3>3
  <2>2. CASE j = i
    <3>1. n \in 1 .. Len(r) /\ ch2[j][n] = r[n]
      BY <1>18, <1>22, <2>2
    <3>2. PICK m \in 1 .. Len(p) : m # k /\ r[n] = p[m]
      BY <1>13, <3>1
    <3>3. p[m] \in Used(u) /\ Index(u, u.cells[p[m]].key) = i
      BY <1>2, <1>3 DEF p
    <3>4. p[m] # c
      BY <1>4, <3>2 DEF Injective
    <3> QED
      BY <1>8, <1>21, <2>2, <3>1, <3>2, <3>3, <3>4
  <2> QED
    BY <2>1, <2>2
<1>23. ASSUME NEW d \in Used(u) \ {c}
       PROVE  \E n \in 1 .. Len(ch2[Index(w, w.cells[d].key)]) : ch2[Index(w, w.cells[d].key)][n] = d
  <2> DEFINE j == Index(u, u.cells[d].key)
  <2>1. j \in 0 .. u.size - 1 /\ Index(w, w.cells[d].key) = j
    <3>1. u.cells[d].key \in Keys /\ w.cells[d].key = u.cells[d].key
      BY <1>21, TableParts
    <3> QED
      BY <1>1, <1>8, <3>1, IndexInRange
  <2>2. PICK n \in 1 .. Len(ch[j]) : ch[j][n] = d
    BY <1>3
  <2>3. CASE j # i
    BY <1>18, <2>1, <2>2, <2>3
  <2>4. CASE j = i
    <3>1. n \in 1 .. Len(p) /\ p[n] = d /\ n # k
      BY <1>4, <2>2, <2>4 DEF p
    <3>2. PICK m \in 1 .. Len(r) : r[m] = d
      BY <1>14, <3>1
    <3> QED
      BY <1>18, <2>1, <2>4, <3>2
  <2> QED
    BY <2>3, <2>4
<1>24. Chained(w, ch2, {c})
  BY <1>6, <1>7, <1>18, <1>20, <1>22, <1>23 DEF Chained
<1>25. \E ch3 : Chained(w, ch3, {c})
  BY <1>24
<1> QED
  BY <1>6, <1>11, <1>25 DEF w, p

\* A bucket that is removed leaves the others as they were.
LEMMA UnlinkIs ==
    ASSUME NEW u, Right(u), NEW c \in Used(u)
    PROVE  LET w == Unlink(u, c)
           IN  /\ Right(w) /\ Kept(u, w, Used(u) \ {c})
               /\ \A d : Referred(u, d) => Referred(w, d)
<1>1. Pool(u)
  BY DEF Right
<1>2. PICK ch : Chained(u, ch, {})
  BY DEF Right
<1> DEFINE i == Index(u, u.cells[c].key)
           p == ch[i]
<1>3. u.size \in Nat \ {0} /\ u.cells[c].key \in Keys
  BY <1>1, TableParts
<1>4. i \in 0 .. u.size - 1
  BY <1>3, IndexInRange
<1>5. Chain(u, u.heads[i]) = p /\ p \in Seq(DOMAIN u.cells) /\ Len(p) \in Nat /\ Injective(p)
  <2> HIDE DEF i
  <2> QED
    BY <1>1, <1>2, <1>4, ChainOfHead
<1>6. PICK k \in 1 .. Len(p) : p[k] = c
  BY <1>2 DEF Chained
<1> DEFINE v == Detached(u, i, k, p)
<1>7. Unlink(u, c) = BucketRemove(v, c)
  <2> DEFINE I == {n \in DOMAIN p : p[n] = c}
  <2>1. I \in SUBSET Nat /\ k \in I
    BY <1>5, <1>6
  <2>2. Min(I) \in I
    BY <2>1, LeastNumber
  <2> HIDE DEF i, p
  <2>3. Min(I) = k
    <3>1. Min(I) \in 1 .. Len(p) /\ p[Min(I)] = p[k]
      BY <1>5, <1>6, <2>2
    <3> HIDE DEF I
    <3> QED
      BY <1>5, <1>6, <3>1 DEF Injective
  <2> HIDE DEF I
  <2>4. Unlink(u, c) = BucketRemove(IF Min(I) = 1 THEN [u EXCEPT !.heads[i] = u.cells[c].next]
                                   ELSE [u EXCEPT !.cells[p[Min(I) - 1]].next = u.cells[c].next], c)
    BY <1>5 DEF Unlink, I, i
  <2> QED
    BY <1>6, <2>3, <2>4 DEF Detached
<1>8. Pool(v) /\ Same(u, v) /\ v.size = u.size /\ \E ch2 : Chained(v, ch2, {c})
  <2>1. At(u, ch, c, i, k)
    BY <1>6 DEF At
  <2> HIDE DEF i
  <2>2. LET x == Detached(u, i, k, ch[i])
        IN  Pool(x) /\ Same(u, x) /\ x.size = u.size /\ \E ch2 : Chained(x, ch2, {c})
    BY <1>1, <1>2, <2>1, DetachedIs
  <2> QED
    BY <2>2
<1> HIDE DEF v, i, p
<1>9. PICK ch2 : Chained(v, ch2, {c})
  BY <1>8
<1> DEFINE w == BucketRemove(v, c)
           D == DOMAIN v.cells
<1>10. Used(v) = Used(u) /\ \A d \in Used(u) : v.cells[d].key = u.cells[d].key /\ v.cells[d].val = u.cells[d].val
  BY <1>8, SameUsed, SameKept DEF Kept
<1>11. /\ Pool(w) /\ w.heads = v.heads /\ w.size = v.size /\ DOMAIN w.cells = D
       /\ \A d \in D \ {c} : w.cells[d] = v.cells[d]
       /\ Kept(v, w, Used(v) \ {c})
       /\ \A d : Referred(v, d) => Referred(w, d)
  <2>1. Pool(v) /\ c \in Used(v)
    BY <1>8, <1>10
  <2> QED
    BY <2>1, BucketRemoveIs
<1> HIDE DEF w
<1>12. /\ ch2 \in [0 .. v.size - 1 -> Seq(D)]
       /\ \A j \in 0 .. v.size - 1 : Path(v, v.heads[j], ch2[j]) /\ Injective(ch2[j])
       /\ \A j \in 0 .. v.size - 1 : \A n \in 1 .. Len(ch2[j]) :
             ch2[j][n] \in Used(v) \ {c} /\ Index(v, v.cells[ch2[j][n]].key) = j
       /\ \A d \in Used(v) \ {c} : \E n \in 1 .. Len(ch2[Index(v, v.cells[d].key)]) :
             ch2[Index(v, v.cells[d].key)][n] = d
  BY <1>9 DEF Chained
<1>13. \A d \in Used(v) \ {c} : d \in D \ {c} /\ w.cells[d].key = v.cells[d].key
  BY <1>11 DEF Used
<1>14. \A k2 : Index(w, k2) = Index(v, k2)
  BY <1>11 DEF Index
<1>15. \A j \in 0 .. w.size - 1 : Path(w, w.heads[j], ch2[j]) /\ Injective(ch2[j])
  <2> SUFFICES ASSUME NEW j \in 0 .. v.size - 1 PROVE Path(w, v.heads[j], ch2[j])
    BY <1>11, <1>12
  <2>1. \A n \in 1 .. Len(ch2[j]) : w.cells[ch2[j][n]].next = v.cells[ch2[j][n]].next
    BY <1>11, <1>12, <1>13
  <2> QED
    BY <1>12, <2>1, PathKept
<1>16. Used(w) = Used(v) \ {c}
  BY <1>11 DEF Kept
<1>17. \A j \in 0 .. w.size - 1 : \A n \in 1 .. Len(ch2[j]) :
          ch2[j][n] \in Used(w) \ {} /\ Index(w, w.cells[ch2[j][n]].key) = j
  BY <1>11, <1>12, <1>13, <1>14, <1>16
<1>18. \A d \in Used(w) \ {} : \E n \in 1 .. Len(ch2[Index(w, w.cells[d].key)]) :
          ch2[Index(w, w.cells[d].key)][n] = d
  BY <1>12, <1>13, <1>14, <1>16
<1>19. Chained(w, ch2, {})
  BY <1>11, <1>12, <1>15, <1>17, <1>18 DEF Chained
<1>20. Right(w)
  BY <1>11, <1>19 DEF Right
<1>21. Kept(u, w, Used(u) \ {c})
  BY <1>10, <1>11 DEF Kept
<1>22. \A d : Referred(u, d) => Referred(w, d)
  BY <1>8, <1>11, SameKept
<1> QED
  BY <1>7, <1>20, <1>21, <1>22 DEF w

-----------------------------------------------------------------------------
(* A new entry *)

\* The cell that bucket_create hands out
NewCell(u) == IF u.free = <<>> THEN Len(u.cells) + 1 ELSE Head(u.free)

CellsWith(u, cell) == IF u.free = <<>> THEN Append(u.cells, cell) ELSE [u.cells EXCEPT ![NewCell(u)] = cell]

FreeLeft(u) == IF u.free = <<>> THEN u.free ELSE Tail(u.free)

\* The table with a new entry that is in no chain yet
Cut(u, k, v) ==
    [u EXCEPT !.cells = CellsWith(u, [key |-> k, val |-> v, next |-> Nil]), !.free = FreeLeft(u),
              !.count = @ + 1]

LEMMA NewCellIs ==
    ASSUME NEW u, Pool(u), NEW cell \in Cell
    PROVE  LET c == NewCell(u)
               cs == CellsWith(u, cell)
               fs == FreeLeft(u)
           IN  /\ c \in Nat /\ c \notin Used(u) /\ c # Nil
               /\ cs \in Seq(Cell) /\ DOMAIN cs = DOMAIN u.cells \cup {c}
               /\ \A d \in DOMAIN cs : cs[d] = IF d = c THEN cell ELSE u.cells[d]
               /\ fs \in Seq(Nat) /\ Injective(fs)
               /\ \A i \in 1 .. Len(fs) : fs[i] \in DOMAIN u.cells \ Used(u) /\ fs[i] # c
               /\ \A d \in DOMAIN u.cells \ Used(u) : d # c => \E i \in 1 .. Len(fs) : fs[i] = d
<1> DEFINE c == NewCell(u)
           cs == CellsWith(u, cell)
           fs == FreeLeft(u)
           f == u.free
           D == DOMAIN u.cells
<1>1. /\ u.cells \in Seq(Cell) /\ D = 1 .. Len(u.cells) /\ Len(u.cells) \in Nat /\ f \in Seq(Nat)
      /\ Used(u) \subseteq D
  BY TableParts DEF Used
<1>2. /\ Injective(f) /\ \A i \in 1 .. Len(f) : f[i] \in D \ Used(u)
      /\ \A d \in D \ Used(u) : \E i \in 1 .. Len(f) : f[i] = d
  BY DEF Pool
<1>3. CASE f = <<>>
  <2>1. c = Len(u.cells) + 1 /\ cs = Append(u.cells, cell) /\ fs = <<>>
    BY <1>3 DEF NewCell, CellsWith, FreeLeft
  <2>2. c \in Nat /\ c \notin D
    BY <1>1, <2>1
  <2>3. cs \in Seq(Cell) /\ DOMAIN cs = D \cup {c} /\ \A d \in DOMAIN cs : cs[d] = IF d = c THEN cell ELSE u.cells[d]
    BY <1>1, <2>1
  <2>4. D \ Used(u) = {}
    BY <1>2, <1>3
  <2>5. fs \in Seq(Nat) /\ Injective(fs) /\ Len(fs) = 0
    BY <2>1 DEF Injective
  <2> HIDE DEF c, cs, fs
  <2> QED
    BY <1>1, <2>2, <2>3, <2>4, <2>5, KeyAssumption DEF c, cs, fs
<1>4. CASE f # <<>>
  <2>1. c = f[1] /\ cs = [u.cells EXCEPT ![c] = cell] /\ fs = Tail(f)
    BY <1>1, <1>4 DEF NewCell, CellsWith, FreeLeft
  <2>2. 1 \in 1 .. Len(f)
    BY <1>1, <1>4
  <2>3. c \in D \ Used(u) /\ c \in Nat
    BY <1>1, <1>2, <2>1, <2>2
  <2>4. /\ fs \in Seq(Nat) /\ Len(fs) = Len(f) - 1 /\ \A i \in 1 .. Len(fs) : fs[i] = f[i + 1] /\ i + 1 \in 1 .. Len(f)
        /\ \A i \in 1 .. Len(f) : i # 1 => i - 1 \in 1 .. Len(fs)
    BY <1>1, <1>4, <2>1
  <2>5. cs \in Seq(Cell) /\ DOMAIN cs = D \cup {c} /\ \A d \in DOMAIN cs : cs[d] = IF d = c THEN cell ELSE u.cells[d]
    BY <1>1, <2>1, <2>3
  <2> HIDE DEF c, cs, fs, f
  <2>6. Injective(fs)
    <3> SUFFICES ASSUME NEW i \in 1 .. Len(fs), NEW j \in 1 .. Len(fs), fs[i] = fs[j] PROVE i = j
      BY DEF Injective
    <3>1. i + 1 \in 1 .. Len(f) /\ j + 1 \in 1 .. Len(f) /\ f[i + 1] = f[j + 1]
      BY <2>4
    <3>2. i + 1 = j + 1
      BY <1>2, <3>1 DEF Injective
    <3> QED
      BY <3>2
  <2>7. \A i \in 1 .. Len(fs) : fs[i] \in D \ Used(u) /\ fs[i] # c
    <3> SUFFICES ASSUME NEW i \in 1 .. Len(fs) PROVE fs[i] \in D \ Used(u) /\ fs[i] # c
      OBVIOUS
    <3>1. fs[i] = f[i + 1] /\ i + 1 \in 1 .. Len(f) /\ i + 1 # 1
      BY <2>4
    <3> QED
      BY <1>2, <2>1, <2>2, <3>1 DEF Injective
  <2>8. ASSUME NEW d \in D \ Used(u), d # c PROVE \E i \in 1 .. Len(fs) : fs[i] = d
    <3>1. PICK i \in 1 .. Len(f) : f[i] = d
      BY <1>2
    <3>2. i # 1 /\ i - 1 \in 1 .. Len(fs)
      BY <2>1, <2>4, <2>8, <3>1
    <3>3. fs[i - 1] = f[i - 1 + 1] /\ i - 1 + 1 = i
      BY <2>4, <3>2
    <3> QED
      BY <3>1, <3>2, <3>3
  <2> QED
    BY <2>3, <2>4, <2>5, <2>6, <2>7, <2>8, KeyAssumption DEF c, cs, fs
<1> QED
  BY <1>3, <1>4

\* What a bucket of this kind holds
Value == IF kind = "dictionary" THEN Vals ELSE Nat \ {0}

Missing(u, k) == \A c \in Used(u) : u.cells[c].key # k

\* w is u with a new entry in the cell c, which is in no chain yet.
CutFrom(u, w, c, k, v) ==
    /\ Pool(w) /\ w.heads = u.heads /\ w.size = u.size /\ w.min = u.min /\ w.refs = u.refs
    /\ w.cells = CellsWith(u, [key |-> k, val |-> v, next |-> Nil])
    /\ w.free = FreeLeft(u) /\ w.count = u.count + 1
    /\ Used(w) = Used(u) \cup {c} /\ c \notin Used(u)
    /\ w.cells[c].key = k /\ w.cells[c].val = v
    /\ \A d \in Used(u) : w.cells[d] = u.cells[d]
    /\ \E ch2 : Chained(w, ch2, {c})

LEMMA CutIs ==
    ASSUME NEW u, Pool(u), NEW ch, Chained(u, ch, {}), NEW k \in Keys, NEW v \in Value, Missing(u, k)
    PROVE  CutFrom(u, Cut(u, k, v), NewCell(u), k, v)
<1> DEFINE cell == [key |-> k, val |-> v, next |-> Nil]
           w == Cut(u, k, v)
           c == NewCell(u)
           cs == CellsWith(u, cell)
           fs == FreeLeft(u)
           D == DOMAIN u.cells
           n == u.count + 1
<1>1. cell \in Cell
  BY DEF Cell, Value
<1>2. /\ c \in Nat /\ c \notin Used(u) /\ c # Nil
      /\ cs \in Seq(Cell) /\ DOMAIN cs = D \cup {c}
      /\ \A d \in DOMAIN cs : cs[d] = IF d = c THEN cell ELSE u.cells[d]
      /\ fs \in Seq(Nat) /\ Injective(fs)
      /\ \A i \in 1 .. Len(fs) : fs[i] \in D \ Used(u) /\ fs[i] # c
      /\ \A d \in D \ Used(u) : d # c => \E i \in 1 .. Len(fs) : fs[i] = d
  <2> HIDE DEF cell
  <2> QED
    BY <1>1, NewCellIs
<1>3. /\ u \in Table /\ u.size \in Nat \ {0} /\ u.min \in Nat \ {0} /\ DOMAIN u.heads = 0 .. u.size - 1
      /\ u.count \in Int /\ n \in Int
  BY TableParts
<1>4. w = [u EXCEPT !.cells = cs, !.free = fs, !.count = n]
  <2> HIDE DEF cs, fs
  <2> QED
    BY <1>3 DEF Cut, Table, cs, fs
<1> HIDE DEF w, cs, fs, c, n
<1>5. /\ w \in Table /\ w.heads = u.heads /\ w.size = u.size /\ w.min = u.min /\ w.refs = u.refs
      /\ w.cells = cs /\ w.free = fs /\ w.count = n
  BY <1>2, <1>3, <1>4 DEF Table
<1>6. w.cells[c] = cell /\ cell.key = k /\ cell.val = v /\ cell.next = Nil /\ k # Nil
  BY <1>2, <1>5, KeyAssumption
<1> HIDE DEF cell
<1>7. \A d \in D : d # c => w.cells[d] = u.cells[d]
  BY <1>2, <1>5
<1>8. Used(w) = Used(u) \cup {c}
  BY <1>2, <1>5, <1>6, <1>7 DEF Used
<1>9. \A d \in Used(u) : w.cells[d] = u.cells[d]
  BY <1>2, <1>7 DEF Used
<1>10. Pool(w)
  <2>1. \A d \in DOMAIN w.cells :
           IF w.cells[d].key = Nil THEN w.cells[d].next = Nil
           ELSE w.cells[d].val \in IF kind = "dictionary" THEN Vals ELSE Nat \ {0}
    <3>1. \A d \in D : IF u.cells[d].key = Nil THEN u.cells[d].next = Nil
                       ELSE u.cells[d].val \in IF kind = "dictionary" THEN Vals ELSE Nat \ {0}
      BY DEF Pool
    <3>2. v \in IF kind = "dictionary" THEN Vals ELSE Nat \ {0}
      BY DEF Value
    <3> QED
      BY <1>2, <1>5, <1>6, <1>7, <3>1, <3>2
  <2>2. \A a, b \in Used(w) : w.cells[a].key = w.cells[b].key => a = b
    <3>1. \A a, b \in Used(u) : u.cells[a].key = u.cells[b].key => a = b
      BY DEF Pool
    <3> QED
      BY <1>6, <1>8, <1>9, <3>1 DEF Missing
  <2>3. \A i \in 1 .. Len(fs) : fs[i] \in DOMAIN w.cells \ Used(w)
    BY <1>2, <1>5, <1>8
  <2>4. \A d \in DOMAIN w.cells \ Used(w) : \E i \in 1 .. Len(fs) : fs[i] = d
    BY <1>2, <1>5, <1>8
  <2>5. w.count = Cardinality(Used(w))
    <3>1. Cardinality(Used(u) \cup {c}) = Cardinality(Used(u)) + 1
      BY <1>2, UsedFinite, FS_AddElement
    <3>2. u.count = Cardinality(Used(u))
      BY UsedFinite
    <3> QED
      BY <1>5, <1>8, <3>1, <3>2 DEF n
  <2>6. w.size > 0 /\ w.min > 0 /\ DOMAIN w.heads = 0 .. w.size - 1
    BY <1>3, <1>5
  <2> QED
    BY <1>2, <1>5, <2>1, <2>2, <2>3, <2>4, <2>5, <2>6 DEF Pool
<1>11. Chained(w, ch, {c})
  <2>1. /\ ch \in [0 .. u.size - 1 -> Seq(D)]
        /\ \A j \in 0 .. u.size - 1 : Path(u, u.heads[j], ch[j]) /\ Injective(ch[j])
        /\ \A j \in 0 .. u.size - 1 : \A m \in 1 .. Len(ch[j]) :
              ch[j][m] \in Used(u) /\ Index(u, u.cells[ch[j][m]].key) = j
        /\ \A d \in Used(u) : \E m \in 1 .. Len(ch[Index(u, u.cells[d].key)]) :
              ch[Index(u, u.cells[d].key)][m] = d
    BY DEF Chained
  <2>2. ch \in [0 .. w.size - 1 -> Seq(DOMAIN w.cells)]
    <3>1. \A j \in 0 .. u.size - 1 : ch[j] \in Seq(D \cup {c})
      <4>1. \A j \in 0 .. u.size - 1 : ch[j] \in Seq(D)
        BY <2>1
      <4>2. Seq(D) \subseteq Seq(D \cup {c})
        BY SeqMonotonic
      <4> QED
        BY <4>1, <4>2
    <3>2. DOMAIN w.cells = D \cup {c}
      BY <1>2, <1>5
    <3> HIDE DEF D
    <3> QED
      BY <1>5, <2>1, <3>1, <3>2
  <2>3. \A j \in 0 .. w.size - 1 : Path(w, w.heads[j], ch[j]) /\ Injective(ch[j])
    <3> SUFFICES ASSUME NEW j \in 0 .. u.size - 1 PROVE Path(w, u.heads[j], ch[j])
      BY <1>5, <2>1
    <3>1. \A m \in 1 .. Len(ch[j]) : w.cells[ch[j][m]].next = u.cells[ch[j][m]].next
      BY <1>9, <2>1
    <3> QED
      BY <2>1, <3>1, PathKept
  <2>4. \A a : Index(w, a) = Index(u, a)
    BY <1>5 DEF Index
  <2>5. Used(w) \ {c} = Used(u) /\ {c} \subseteq Used(w)
    BY <1>2, <1>8
  <2>6. \A j \in 0 .. w.size - 1 : \A m \in 1 .. Len(ch[j]) :
              ch[j][m] \in Used(w) \ {c} /\ Index(w, w.cells[ch[j][m]].key) = j
    BY <1>5, <1>9, <2>1, <2>4, <2>5
  <2>7. \A d \in Used(w) \ {c} : \E m \in 1 .. Len(ch[Index(w, w.cells[d].key)]) :
              ch[Index(w, w.cells[d].key)][m] = d
    BY <1>9, <2>1, <2>4, <2>5
  <2> QED
    BY <2>2, <2>3, <2>5, <2>6, <2>7 DEF Chained
<1>12. \E ch2 : Chained(w, ch2, {c})
  BY <1>11
<1> QED
  BY <1>2, <1>5, <1>6, <1>8, <1>9, <1>10, <1>12 DEF CutFrom, w, c, cs, fs, cell, n

\* A new bucket is at the head of its chain.
LEMMA InsertIsRelink ==
    ASSUME NEW u, Pool(u), NEW ch, Chained(u, ch, {}), NEW k \in Keys, NEW v \in Value,
           Missing(u, k)
    PROVE  Insert(u, k, v) = Relink(Cut(u, k, v), NewCell(u))
<1> DEFINE c == NewCell(u)
           y == Cut(u, k, v)
           i == Index(u, k)
           cell0 == [key |-> k, val |-> v, next |-> Nil]
           cell1 == [key |-> k, val |-> v, next |-> u.heads[i]]
           cs0 == CellsWith(u, cell0)
           cs1 == CellsWith(u, cell1)
           hs == [u.heads EXCEPT ![i] = c]
           fs == FreeLeft(u)
           n == u.count + 1
           R == [heads |-> hs, size |-> u.size, min |-> u.min, count |-> n, cells |-> cs1,
                 free |-> fs, refs |-> u.refs]
<1>1. u \in Table /\ u.size \in Nat \ {0} /\ u.heads \in [0 .. u.size - 1 -> Nat \cup {Nil}]
  BY TableParts
<1>2. i \in 0 .. u.size - 1
  BY <1>1, IndexInRange
<1>3. cell0 \in Cell /\ cell1 \in Cell
  <2>1. u.heads[i] \in Nat \cup {Nil}
    BY <1>1, <1>2
  <2> HIDE DEF i
  <2> QED
    BY <2>1 DEF Cell, Value
<1>4. /\ Pool(y) /\ y.heads = u.heads /\ y.size = u.size /\ y.min = u.min /\ y.refs = u.refs
      /\ y.cells = cs0 /\ y.free = fs /\ y.count = n /\ y.cells[c].key = k
  <2>1. CutFrom(u, y, c, k, v)
    BY CutIs
  <2> HIDE DEF y, c
  <2> QED
    BY <2>1 DEF CutFrom
<1>5. cs0[c] = cell0 /\ cs1 = [cs0 EXCEPT ![c] = cell1]
  <2> HIDE DEF cell0, cell1
  <2>1. /\ cs0 \in Seq(Cell) /\ DOMAIN cs0 = DOMAIN u.cells \cup {c}
        /\ \A d \in DOMAIN cs0 : cs0[d] = IF d = c THEN cell0 ELSE u.cells[d]
    BY <1>3, NewCellIs
  <2>2. /\ cs1 \in Seq(Cell) /\ DOMAIN cs1 = DOMAIN u.cells \cup {c}
        /\ \A d \in DOMAIN cs1 : cs1[d] = IF d = c THEN cell1 ELSE u.cells[d]
    BY <1>3, NewCellIs
  <2> HIDE DEF cs0, cs1, c
  <2>3. DOMAIN [cs0 EXCEPT ![c] = cell1] = DOMAIN cs1
    BY <2>1, <2>2
  <2>4. \A d \in DOMAIN cs1 : [cs0 EXCEPT ![c] = cell1][d] = cs1[d]
    BY <2>1, <2>2
  <2> QED
    BY <2>1, <2>2, <2>3, <2>4
<1>6. [cell0 EXCEPT !.next = u.heads[i]] = cell1
  OBVIOUS
<1>7. Insert(u, k, v) = R
  <2> HIDE DEF i
  <2>1. Insert(u, k, v) = [u EXCEPT !.cells = cs1, !.free = fs, !.heads = hs, !.count = n]
    BY <1>1 DEF Insert, CellsWith, NewCell, FreeLeft, i, Table
  <2> HIDE DEF cs1, fs, hs, n
  <2> QED
    BY <1>1, <2>1 DEF Table
<1>8. Relink(y, c) = R
  <2>1. y \in Table
    BY <1>4, TableParts
  <2>2. Index(y, y.cells[c].key) = i
    BY <1>4 DEF Index
  <2> HIDE DEF i, y
  <2>3. Relink(y, c) = [y EXCEPT !.cells = [cs0 EXCEPT ![c] = [cs0[c] EXCEPT !.next = u.heads[i]]], !.heads = hs]
    BY <1>4, <2>1, <2>2 DEF Relink, Table
  <2>4. [cs0 EXCEPT ![c] = [cs0[c] EXCEPT !.next = u.heads[i]]] = cs1
    <3> HIDE DEF cs0, cell0, cell1, cs1
    <3> QED
      BY <1>5, <1>6
  <2>5. Relink(y, c) = [y EXCEPT !.cells = cs1, !.heads = hs]
    BY <2>3, <2>4
  <2> HIDE DEF cs1, hs, fs, n
  <2> QED
    BY <1>4, <2>1, <2>5 DEF Table
<1> QED
  BY <1>7, <1>8

LEMMA InsertIs ==
    ASSUME NEW u, Right(u), NEW k \in Keys, NEW v \in Value, Missing(u, k)
    PROVE  LET w == Insert(u, k, v)
               c == NewCell(u)
           IN  /\ Right(w) /\ w.refs = u.refs /\ Used(w) = Used(u) \cup {c} /\ c \notin Used(u)
               /\ w.cells[c].key = k /\ w.cells[c].val = v
               /\ \A d \in Used(u) : w.cells[d].key = u.cells[d].key /\ w.cells[d].val = u.cells[d].val
<1>1. Pool(u)
  BY DEF Right
<1>2. PICK ch : Chained(u, ch, {})
  BY DEF Right
<1> DEFINE y == Cut(u, k, v)
           c == NewCell(u)
           w == Relink(y, c)
<1>3. Insert(u, k, v) = w
  BY <1>1, <1>2, InsertIsRelink
<1>4. /\ Pool(y) /\ y.refs = u.refs /\ Used(y) = Used(u) \cup {c} /\ c \notin Used(u)
      /\ y.cells[c].key = k /\ y.cells[c].val = v /\ \A d \in Used(u) : y.cells[d] = u.cells[d]
      /\ \E ch2 : Chained(y, ch2, {c})
  <2>1. CutFrom(u, y, c, k, v)
    BY <1>1, <1>2, CutIs
  <2> HIDE DEF y, c
  <2> QED
    BY <2>1 DEF CutFrom
<1> HIDE DEF y, c
<1>5. PICK ch2 : Chained(y, ch2, {c})
  BY <1>4
<1>6. Pool(w) /\ Same(y, w) /\ \E ch3 : Chained(w, ch3, {c} \ {c})
  <2>1. c \in {c}
    OBVIOUS
  <2> QED
    BY <1>4, <1>5, <2>1, RelinkIs
<1> HIDE DEF w
<1>7. {c} \ {c} = {}
  OBVIOUS
<1>8. Right(w)
  BY <1>6, <1>7 DEF Right
<1>9. /\ Used(w) = Used(y) /\ w.refs = y.refs
      /\ \A d \in Used(y) : w.cells[d].key = y.cells[d].key /\ w.cells[d].val = y.cells[d].val
  BY <1>6, SameUsed, SameKept DEF Same, Kept
<1> QED
  BY <1>3, <1>4, <1>8, <1>9 DEF c

-----------------------------------------------------------------------------
(* What is in a table, before and after *)

LEMMA KeptContents ==
    ASSUME NEW u, NEW w, Right(u), Right(w), Kept(u, w, Used(u))
    PROVE  Contents(w) = Contents(u)
<1>1. \A k \in Keys :
         /\ \A c \in Used(u) : u.cells[c].key = k =>
               Contents(u)[k] = IF kind = "set" THEN 1 ELSE u.cells[c].val
         /\ (\A c \in Used(u) : u.cells[c].key # k) => Contents(u)[k] = Nil
  BY ContentsAre
<1>2. \A k \in Keys :
         /\ \A c \in Used(w) : w.cells[c].key = k =>
               Contents(w)[k] = IF kind = "set" THEN 1 ELSE w.cells[c].val
         /\ (\A c \in Used(w) : w.cells[c].key # k) => Contents(w)[k] = Nil
  BY ContentsAre
<1>3. \A k \in Keys : Contents(w)[k] = Contents(u)[k]
  BY <1>1, <1>2 DEF Kept
<1> QED
  BY <1>3 DEF Contents

\* w is u with the entry for k and v in the cell c, which was in use for k or not at all.
Entered(u, w, c, k, v) ==
    /\ Used(w) = Used(u) \cup {c} /\ w.cells[c].key = k /\ w.cells[c].val = v
    /\ \A d \in Used(u) \ {c} : w.cells[d].key = u.cells[d].key /\ w.cells[d].val = u.cells[d].val
    /\ c \in Used(u) => u.cells[c].key = k

LEMMA EnteredContents ==
    ASSUME NEW u, NEW w, Right(u), Right(w), NEW k \in Keys, NEW v, NEW c, Entered(u, w, c, k, v)
    PROVE  Contents(w) = [Contents(u) EXCEPT ![k] = IF kind = "set" THEN 1 ELSE v]
<1>1. \A j \in Keys :
         /\ \A d \in Used(u) : u.cells[d].key = j =>
               Contents(u)[j] = IF kind = "set" THEN 1 ELSE u.cells[d].val
         /\ (\A d \in Used(u) : u.cells[d].key # j) => Contents(u)[j] = Nil
  BY ContentsAre
<1>2. \A j \in Keys :
         /\ \A d \in Used(w) : w.cells[d].key = j =>
               Contents(w)[j] = IF kind = "set" THEN 1 ELSE w.cells[d].val
         /\ (\A d \in Used(w) : w.cells[d].key # j) => Contents(w)[j] = Nil
  BY ContentsAre
<1>3. Contents(w)[k] = IF kind = "set" THEN 1 ELSE v
  BY <1>2 DEF Entered
<1>4. ASSUME NEW j \in Keys, j # k PROVE Contents(w)[j] = Contents(u)[j]
  BY <1>1, <1>2, <1>4 DEF Entered
<1>5. DOMAIN Contents(u) = Keys /\ DOMAIN Contents(w) = Keys
  BY DEF Contents
<1> QED
  <2> DEFINE new == IF kind = "set" THEN 1 ELSE v
  <2> HIDE DEF new
  <2>1. Contents(w)[k] = new
    BY <1>3 DEF new
  <2>2. Contents(w) = [j \in Keys |-> Contents(w)[j]] /\ Contents(u) = [j \in Keys |-> Contents(u)[j]]
    BY DEF Contents
  <2>3. Contents(w) = [Contents(u) EXCEPT ![k] = new]
    BY <1>4, <2>1, <2>2
  <2> QED
    BY <2>3 DEF new

LEMMA GoneContents ==
    ASSUME NEW u, NEW w, Right(u), Right(w), NEW c \in Used(u), Kept(u, w, Used(u) \ {c})
    PROVE  Contents(w) = [Contents(u) EXCEPT ![u.cells[c].key] = Nil]
<1> DEFINE k == u.cells[c].key
<1>1. \A j \in Keys :
         /\ \A d \in Used(u) : u.cells[d].key = j =>
               Contents(u)[j] = IF kind = "set" THEN 1 ELSE u.cells[d].val
         /\ (\A d \in Used(u) : u.cells[d].key # j) => Contents(u)[j] = Nil
  BY ContentsAre
<1>2. \A j \in Keys :
         /\ \A d \in Used(w) : w.cells[d].key = j =>
               Contents(w)[j] = IF kind = "set" THEN 1 ELSE w.cells[d].val
         /\ (\A d \in Used(w) : w.cells[d].key # j) => Contents(w)[j] = Nil
  BY ContentsAre
<1>3. k \in Keys /\ \A d \in Used(u) : u.cells[d].key = k => d = c
  BY TableParts DEF Right, Pool
<1>4. Contents(w)[k] = Nil
  BY <1>2, <1>3 DEF Kept
<1>5. ASSUME NEW j \in Keys, j # k PROVE Contents(w)[j] = Contents(u)[j]
  BY <1>1, <1>2, <1>5 DEF Kept
<1> HIDE DEF k
<1>6. Contents(w) = [j \in Keys |-> Contents(w)[j]] /\ Contents(u) = [j \in Keys |-> Contents(u)[j]]
  BY DEF Contents
<1>7. Contents(w) = [Contents(u) EXCEPT ![k] = Nil]
  BY <1>3, <1>4, <1>5, <1>6
<1> QED
  BY <1>7 DEF k

-----------------------------------------------------------------------------
(* Values that are replaced, and references *)

\* The same keys in the same places
Linked(u, w) ==
    /\ w.heads = u.heads /\ w.size = u.size /\ w.min = u.min /\ w.count = u.count
    /\ DOMAIN w.cells = DOMAIN u.cells
    /\ \A c \in DOMAIN u.cells : w.cells[c].key = u.cells[c].key /\ w.cells[c].next = u.cells[c].next

\* An edit of a key that is there leaves the keys in their places.
Lasts(u, k, w) == NotDue(u) => Missing(u, k) \/ Linked(u, w)

LEMMA LinkedLasts ==
    ASSUME NEW u, NEW w, NEW k, Missing(u, k) \/ Linked(u, w)
    PROVE  Lasts(u, k, CheckOptimize(w))
<1> SUFFICES ASSUME NotDue(u), Linked(u, w) PROVE CheckOptimize(w) = w
  BY DEF Lasts
<1>1. NotDue(w)
  BY DEF Linked, NotDue
<1> QED
  BY <1>1 DEF CheckOptimize, NotDue

LEMMA LinkedTwice ==
    ASSUME NEW u, NEW v, NEW w, Linked(u, v), Linked(v, w)
    PROVE  Linked(u, w)
BY DEF Linked

LEMMA LinksKept ==
    ASSUME NEW u, NEW w, NEW ch, NEW W, Chained(u, ch, W), Linked(u, w)
    PROVE  Chained(w, ch, W)
<1>0. /\ w.heads = u.heads /\ w.size = u.size /\ DOMAIN w.cells = DOMAIN u.cells
      /\ \A c \in DOMAIN u.cells : w.cells[c].key = u.cells[c].key /\ w.cells[c].next = u.cells[c].next
  BY DEF Linked
<1>1. Used(w) = Used(u)
  BY <1>0 DEF Used
<1>2. \A c \in Used(u) : w.cells[c].key = u.cells[c].key /\ w.cells[c].next = u.cells[c].next
  BY <1>0 DEF Used
<1>3. \A k : Index(w, k) = Index(u, k)
  BY <1>0 DEF Index
<1>4. /\ W \subseteq Used(u) /\ ch \in [0 .. u.size - 1 -> Seq(DOMAIN u.cells)]
      /\ \A i \in 0 .. u.size - 1 : Path(u, u.heads[i], ch[i]) /\ Injective(ch[i])
      /\ \A i \in 0 .. u.size - 1 : \A n \in 1 .. Len(ch[i]) :
            ch[i][n] \in Used(u) \ W /\ Index(u, u.cells[ch[i][n]].key) = i
      /\ \A c \in Used(u) \ W : \E n \in 1 .. Len(ch[Index(u, u.cells[c].key)]) :
            ch[Index(u, u.cells[c].key)][n] = c
  BY DEF Chained
<1>5. \A i \in 0 .. w.size - 1 : Path(w, w.heads[i], ch[i]) /\ Injective(ch[i])
  <2> SUFFICES ASSUME NEW i \in 0 .. u.size - 1 PROVE Path(w, u.heads[i], ch[i])
    BY <1>0, <1>4
  <2>1. \A n \in 1 .. Len(ch[i]) : w.cells[ch[i][n]].next = u.cells[ch[i][n]].next
    BY <1>2, <1>4
  <2> QED
    BY <1>4, <2>1, PathKept
<1>6. \A i \in 0 .. w.size - 1 : \A n \in 1 .. Len(ch[i]) :
         ch[i][n] \in Used(w) \ W /\ Index(w, w.cells[ch[i][n]].key) = i
  BY <1>0, <1>1, <1>2, <1>3, <1>4
<1>7. \A c \in Used(w) \ W : \E n \in 1 .. Len(ch[Index(w, w.cells[c].key)]) :
         ch[Index(w, w.cells[c].key)][n] = c
  BY <1>0, <1>1, <1>2, <1>3, <1>4
<1> QED
  BY <1>0, <1>1, <1>4, <1>5, <1>6, <1>7 DEF Chained

\* References do not matter to the entries.
LEMMA RefsIs ==
    ASSUME NEW u, Right(u), NEW r \in [Keys \cup Vals -> Int]
    PROVE  LET w == [u EXCEPT !.refs = r]
           IN  /\ Right(w) /\ w.refs = r /\ w.cells = u.cells /\ Kept(u, w, Used(u))
               /\ Linked(u, w)
<1> DEFINE w == [u EXCEPT !.refs = r]
<1>1. u \in Table
  BY DEF Right, Pool
<1>2. /\ w \in Table /\ w.heads = u.heads /\ w.size = u.size /\ w.cells = u.cells /\ w.min = u.min
      /\ w.count = u.count /\ w.free = u.free /\ w.refs = r
  BY <1>1 DEF Table
<1> HIDE DEF w
<1>3. Used(w) = Used(u)
  BY <1>2 DEF Used
<1>4. Pool(w)
  BY <1>2, <1>3 DEF Right, Pool
<1>5. PICK ch : Chained(u, ch, {})
  BY DEF Right
<1>6. Linked(u, w)
  BY <1>2 DEF Linked
<1>7. Chained(w, ch, {})
  BY <1>5, <1>6, LinksKept
<1> QED
  BY <1>2, <1>3, <1>4, <1>6, <1>7 DEF Right, Kept, w

LEMMA RevaluedIs ==
    ASSUME NEW u, Right(u), NEW c \in Used(u), NEW v \in Value
    PROVE  LET w == [u EXCEPT !.cells[c].val = v]
           IN  Right(w) /\ w.refs = u.refs /\ Linked(u, w) /\ Entered(u, w, c, u.cells[c].key, v)
<1> DEFINE cell == [key |-> u.cells[c].key, val |-> v, next |-> u.cells[c].next]
           cs == [u.cells EXCEPT ![c] = cell]
           w == [u EXCEPT !.cells[c].val = v]
           D == DOMAIN u.cells
<1>0. Pool(u)
  BY DEF Right
<1>1. /\ u \in Table /\ u.cells \in Seq(Cell) /\ D = 1 .. Len(u.cells) /\ c \in D
      /\ u.cells[c] \in Cell /\ u.cells[c].key \in Keys
  BY <1>0, TableParts
<1>2. cell = [u.cells[c] EXCEPT !.val = v] /\ cell \in Cell
  BY <1>1 DEF Cell, Value
<1>3. w = [u EXCEPT !.cells = cs]
  BY <1>1, <1>2 DEF Table
<1>4. cs \in Seq(Cell) /\ DOMAIN cs = D /\ \A d \in D : cs[d] = IF d = c THEN cell ELSE u.cells[d]
  BY <1>1, <1>2
<1> HIDE DEF cs, w
<1>5. /\ w \in Table /\ w.heads = u.heads /\ w.size = u.size /\ w.cells = cs /\ w.min = u.min
      /\ w.count = u.count /\ w.free = u.free /\ w.refs = u.refs
  BY <1>1, <1>3, <1>4 DEF Table
<1>6. \A d \in D : /\ w.cells[d].key = u.cells[d].key /\ w.cells[d].next = u.cells[d].next
                   /\ w.cells[d].val = IF d = c THEN v ELSE u.cells[d].val
  BY <1>4, <1>5
<1>7. Used(w) = Used(u)
  BY <1>4, <1>5, <1>6 DEF Used
<1>8. Pool(w)
  <2>1. \A d \in DOMAIN w.cells :
           IF w.cells[d].key = Nil THEN w.cells[d].next = Nil
           ELSE w.cells[d].val \in IF kind = "dictionary" THEN Vals ELSE Nat \ {0}
    <3>1. \A d \in D : IF u.cells[d].key = Nil THEN u.cells[d].next = Nil
                       ELSE u.cells[d].val \in IF kind = "dictionary" THEN Vals ELSE Nat \ {0}
      BY <1>0 DEF Pool
    <3>2. v \in IF kind = "dictionary" THEN Vals ELSE Nat \ {0}
      BY DEF Value
    <3> HIDE DEF cell
    <3> QED
      BY <1>4, <1>5, <1>6, <3>1, <3>2
  <2>2. \A a, b \in Used(w) : w.cells[a].key = w.cells[b].key => a = b
    <3>1. \A a \in Used(u) : w.cells[a].key = u.cells[a].key
      BY <1>6 DEF Used
    <3> QED
      BY <1>0, <1>7, <3>1 DEF Pool
  <2>3. /\ w.size > 0 /\ w.min > 0 /\ DOMAIN w.heads = 0 .. w.size - 1 /\ Injective(w.free)
        /\ \A i \in 1 .. Len(w.free) : w.free[i] \in DOMAIN w.cells \ Used(w)
        /\ \A d \in DOMAIN w.cells \ Used(w) : \E i \in 1 .. Len(w.free) : w.free[i] = d
        /\ w.count = Cardinality(Used(w))
    <3> HIDE DEF cell
    <3> QED
      BY <1>0, <1>4, <1>5, <1>7 DEF Pool
  <2> QED
    BY <1>5, <2>1, <2>2, <2>3 DEF Pool
<1>9. PICK ch : Chained(u, ch, {})
  BY DEF Right
<1>10. Linked(u, w)
  <2>1. DOMAIN w.cells = D
    BY <1>4, <1>5
  <2> QED
    BY <1>5, <1>6, <2>1 DEF Linked
<1>a. Chained(w, ch, {})
  BY <1>9, <1>10, LinksKept
<1>11. Entered(u, w, c, u.cells[c].key, v)
  BY <1>1, <1>6, <1>7 DEF Entered, Used
<1> QED
  BY <1>5, <1>8, <1>10, <1>a, <1>11 DEF Right, w

-----------------------------------------------------------------------------
(* The edits *)

LEMMA UsedCells ==
    ASSUME NEW u, Right(u)
    PROVE  \A c \in Used(u) : /\ c # Nil /\ c \in DOMAIN u.cells
                              /\ u.cells[c].key \in Keys /\ u.cells[c].val \in Value
<1>1. Pool(u)
  BY DEF Right
<1>2. \A c \in Used(u) : /\ c # Nil /\ c \in DOMAIN u.cells
                         /\ u.cells[c].key \in Keys /\ u.cells[c].key # Nil
  BY <1>1, TableParts, KeyAssumption
<1>3. \A c \in Used(u) : u.cells[c].val \in Value
  BY <1>1, <1>2 DEF Pool, Value
<1> QED
  BY <1>2, <1>3

LEMMA LookupIs ==
    ASSUME NEW u, Right(u), NEW k \in Keys
    PROVE  LET c == BucketFor(u, k)
           IN  \/ c = Nil /\ Missing(u, k) /\ Contents(u)[k] = Nil
               \/ /\ c # Nil /\ c \in Used(u) /\ u.cells[c].key = k /\ u.cells[c].val \in Value
                  /\ Contents(u)[k] = IF kind = "set" THEN 1 ELSE u.cells[c].val
<1>1. Pool(u) /\ \E ch : Chained(u, ch, {})
  BY DEF Right
<1>2. /\ \A c \in Used(u) : u.cells[c].key = k => BucketFor(u, k) = c
      /\ (\A c \in Used(u) : u.cells[c].key # k) => BucketFor(u, k) = Nil
  BY <1>1, BucketIs
<1>3. \A c \in Used(u) : c # Nil
  BY UsedCells
<1>4. \A c \in Used(u) : u.cells[c].val \in Value
  BY UsedCells
<1>5. /\ \A c \in Used(u) : u.cells[c].key = k =>
            Contents(u)[k] = IF kind = "set" THEN 1 ELSE u.cells[c].val
      /\ (\A c \in Used(u) : u.cells[c].key # k) => Contents(u)[k] = Nil
  BY ContentsAre
<1>6. CASE \A c \in Used(u) : u.cells[c].key # k
  BY <1>2, <1>5, <1>6 DEF Missing
<1>7. CASE \E c \in Used(u) : u.cells[c].key = k
  <2>1. PICK c \in Used(u) : u.cells[c].key = k
    BY <1>7
  <2>2. BucketFor(u, k) = c
    BY <1>2, <2>1
  <2> QED
    BY <1>3, <1>4, <1>5, <2>1, <2>2
<1> QED
  BY <1>6, <1>7

LEMMA OptimizedIs ==
    ASSUME NEW u, Right(u)
    PROVE  LET w == CheckOptimize(u)
           IN  /\ Settled(w) /\ Contents(w) = Contents(u)
               /\ \A d : Referred(u, d) => Referred(w, d)
<1>1. Settled(CheckOptimize(u)) /\ Same(u, CheckOptimize(u))
  BY CheckOptimizeIs
<1>2. Right(CheckOptimize(u))
  BY <1>1 DEF Settled
<1> QED
  BY <1>1, <1>2, SameKept, KeptContents

\* A new entry has a reference to its key and, in a dictionary, its value.
LEMMA NewEntryReferred ==
    ASSUME NEW u, NEW w, Right(u), Right(w), NEW k \in Keys, NEW v \in Value, NEW c,
           c \notin Used(u), Entered(u, w, c, k, v), NEW d, Referred(u, d),
           \A x \in Keys \cup Vals :
              w.refs[x] = IF x = k \/ (kind = "dictionary" /\ x = v) THEN u.refs[x] + 1 ELSE u.refs[x]
    PROVE  Referred(w, d)
<1> SUFFICES ASSUME NEW x \in Keys \cup Vals
             PROVE  d[x] \in Int /\ w.refs[x] = Cardinality(Holds(w, x)) + d[x]
  BY DEF Referred
<1>1. d[x] \in Int /\ u.refs[x] = Cardinality(Holds(u, x)) + d[x]
  BY DEF Referred
<1>2. IsFiniteSet(Holds(u, x)) /\ Cardinality(Holds(u, x)) \in Nat
  BY HoldsFinite DEF Right
<1>3. CASE x = k \/ (kind = "dictionary" /\ x = v)
  <2>1. Holds(w, x) = Holds(u, x) \cup {c} /\ c \notin Holds(u, x)
    BY <1>3 DEF Holds, Entered
  <2>2. Cardinality(Holds(w, x)) = Cardinality(Holds(u, x)) + 1
    BY <1>2, <2>1, FS_AddElement
  <2>3. w.refs[x] = u.refs[x] + 1
    BY <1>3
  <2> QED
    BY <1>1, <1>2, <2>2, <2>3
<1>4. CASE ~ (x = k \/ (kind = "dictionary" /\ x = v))
  <2>1. Holds(w, x) = Holds(u, x)
    BY <1>4 DEF Holds, Entered
  <2> QED
    BY <1>1, <1>4, <2>1
<1> QED
  BY <1>3, <1>4

\* An entry whose value is replaced has a reference to the new one instead.
LEMMA ReplacedReferred ==
    ASSUME NEW u, NEW w, Right(u), Right(w), NEW c \in Used(u), NEW v \in Value,
           Entered(u, w, c, u.cells[c].key, v), NEW d, Referred(u, d),
           \A x \in Keys \cup Vals :
              w.refs[x] = u.refs[x] + (IF kind = "dictionary" /\ x = v THEN 1 ELSE 0)
                                    - (IF kind = "dictionary" /\ x = u.cells[c].val THEN 1 ELSE 0)
    PROVE  Referred(w, d)
<1> DEFINE old == u.cells[c].val
           k == u.cells[c].key
<1> SUFFICES ASSUME NEW x \in Keys \cup Vals
             PROVE  d[x] \in Int /\ w.refs[x] = Cardinality(Holds(w, x)) + d[x]
  BY DEF Referred
<1>1. d[x] \in Int /\ u.refs[x] = Cardinality(Holds(u, x)) + d[x]
  BY DEF Referred
<1>2. IsFiniteSet(Holds(u, x)) /\ Cardinality(Holds(u, x)) \in Nat
  BY HoldsFinite DEF Right
<1>3. k \in Keys /\ (kind = "dictionary" => v \in Vals /\ old \in Vals)
  <2>1. Pool(u)
    BY DEF Right
  <2>2. c \in DOMAIN u.cells /\ u.cells[c].key \in Keys
    BY <2>1, TableParts
  <2> QED
    BY <2>1, <2>2, KeyAssumption DEF Pool, Value
<1>4. u.refs[x] \in Int
  BY <1>1, <1>2
<1>5. \A b \in Used(u) \ {c} : b \in Holds(w, x) <=> b \in Holds(u, x)
  BY DEF Holds, Entered
<1>6. Used(w) = Used(u)
  BY DEF Entered
<1>7. c \in Holds(w, x) <=> x = k \/ (kind = "dictionary" /\ x = v)
  BY <1>6 DEF Holds, Entered
<1>8. c \in Holds(u, x) <=> x = k \/ (kind = "dictionary" /\ x = old)
  BY DEF Holds
<1>9. Holds(w, x) \subseteq Used(u) /\ Holds(u, x) \subseteq Used(u)
  BY <1>6 DEF Holds
<1> HIDE DEF old, k
<1>10. CASE kind = "dictionary" /\ x = v /\ x # old
  <2>1. c \notin Holds(u, x) /\ c \in Holds(w, x)
    BY <1>3, <1>7, <1>8, <1>10, KindAssumption
  <2>2. Holds(w, x) = Holds(u, x) \cup {c}
    BY <1>5, <1>9, <2>1
  <2>3. Cardinality(Holds(w, x)) = Cardinality(Holds(u, x)) + 1
    BY <1>2, <2>1, <2>2, FS_AddElement
  <2>4. w.refs[x] = u.refs[x] + 1
    BY <1>4, <1>10 DEF old
  <2> QED
    BY <1>1, <1>2, <2>3, <2>4
<1>11. CASE kind = "dictionary" /\ x # v /\ x = old
  <2>1. c \in Holds(u, x) /\ c \notin Holds(w, x)
    BY <1>3, <1>7, <1>8, <1>11, KindAssumption
  <2>2. Holds(w, x) = Holds(u, x) \ {c}
    BY <1>5, <1>9, <2>1
  <2>3. Cardinality(Holds(w, x)) = Cardinality(Holds(u, x)) - 1
    BY <1>2, <2>1, <2>2, FS_RemoveElement
  <2>4. w.refs[x] = u.refs[x] - 1
    BY <1>4, <1>11 DEF old
  <2> QED
    BY <1>1, <1>2, <2>3, <2>4
<1>12. CASE kind # "dictionary" \/ (x = v <=> x = old)
  <2>1. c \in Holds(u, x) <=> c \in Holds(w, x)
    BY <1>7, <1>8, <1>12
  <2>2. Holds(w, x) = Holds(u, x)
    BY <1>5, <1>9, <2>1
  <2>3. w.refs[x] = u.refs[x]
    BY <1>4, <1>12 DEF old
  <2> QED
    BY <1>1, <2>2, <2>3
<1> QED
  BY <1>10, <1>11, <1>12

LEMMA RetainedIs ==
    ASSUME NEW u, u \in Table, NEW x \in Keys \cup Vals, u.refs[x] >= 1
    PROVE  Retained(u, x) = [u EXCEPT !.refs = [u.refs EXCEPT ![x] = u.refs[x] + 1]]
<1> DEFINE r == [u.refs EXCEPT ![x] = u.refs[x] + 1]
<1>1. u.refs \in [Keys \cup Vals -> Int]
  BY DEF Table
<1>2. [u.refs EXCEPT ![x] = IF @ = 0 THEN -1 ELSE @ + 1] = r
  BY <1>1
<1> HIDE DEF r
<1>3. Retained(u, x) = [u EXCEPT !.refs = r]
  BY <1>2 DEF Retained, Table
<1> QED
  BY <1>3 DEF r

\* The references that _wi_dictionary_set_data_for_key takes
LEMMA CopiedAndRetained ==
    ASSUME NEW u, u \in Table, NEW k \in Keys, NEW v \in Vals, u.refs[v] >= 1
    PROVE  \E r \in [Keys \cup Vals -> Int] :
              /\ Retained(CopyKey(u, k), v) = [u EXCEPT !.refs = r]
              /\ \A x \in Keys \cup Vals : r[x] = IF x = k \/ x = v THEN u.refs[x] + 1 ELSE u.refs[x]
<1> DEFINE r1 == [u.refs EXCEPT ![k] = u.refs[k] + 1]
           y == [u EXCEPT !.refs = r1]
           r2 == [r1 EXCEPT ![v] = r1[v] + 1]
<1>1. u.refs \in [Keys \cup Vals -> Int] /\ k # v
  BY KindAssumption DEF Table
<1>2. /\ r1 \in [Keys \cup Vals -> Int]
      /\ \A x \in Keys \cup Vals : r1[x] = IF x = k THEN u.refs[x] + 1 ELSE u.refs[x]
  BY <1>1
<1>3. CopyKey(u, k) = y
  BY <1>1 DEF CopyKey, Table
<1> HIDE DEF r1
<1>4. y \in Table /\ y.refs = r1
  BY <1>2 DEF Table
<1>5. r1[v] >= 1
  BY <1>1, <1>2
<1>6. Retained(y, v) = [y EXCEPT !.refs = r2]
  <2> HIDE DEF y
  <2> QED
    BY <1>4, <1>5, RetainedIs
<1>7. [y EXCEPT !.refs = r2] = [u EXCEPT !.refs = r2]
  <2> HIDE DEF r2
  <2> QED
    BY DEF Table
<1>8. /\ r2 \in [Keys \cup Vals -> Int]
      /\ \A x \in Keys \cup Vals : r2[x] = IF x = v THEN r1[x] + 1 ELSE r1[x]
  BY <1>2
<1> HIDE DEF r2, y
<1>9. \A x \in Keys \cup Vals : r2[x] = IF x = k \/ x = v THEN u.refs[x] + 1 ELSE u.refs[x]
  BY <1>1, <1>2, <1>8
<1> QED
  BY <1>3, <1>6, <1>7, <1>8, <1>9

\* Two references less than in r
Lowered(u, r, k, v) ==
    \E r2 \in [Keys \cup Vals -> Int] :
        /\ Released(Released([u EXCEPT !.refs = r], k), v) = [u EXCEPT !.refs = r2]
        /\ \A x \in Keys \cup Vals : r2[x] = IF x = k \/ x = v THEN r[x] - 1 ELSE r[x]

LEMMA ReleasedIs ==
    ASSUME NEW u, u \in Table, NEW r \in [Keys \cup Vals -> Int], NEW k \in Keys, NEW v \in Vals
    PROVE  Lowered(u, r, k, v)
<1> DEFINE r1 == [r EXCEPT ![k] = r[k] - 1]
           r2 == [r1 EXCEPT ![v] = r1[v] - 1]
<1>1. k # v
  BY KindAssumption
<1>2. /\ r1 \in [Keys \cup Vals -> Int]
      /\ \A x \in Keys \cup Vals : r1[x] = IF x = k THEN r[x] - 1 ELSE r[x]
  OBVIOUS
<1>3. Released([u EXCEPT !.refs = r], k) = [u EXCEPT !.refs = r1]
  BY DEF Released, Table
<1> HIDE DEF r1
<1>4. /\ r2 \in [Keys \cup Vals -> Int]
      /\ \A x \in Keys \cup Vals : r2[x] = IF x = v THEN r1[x] - 1 ELSE r1[x]
  BY <1>2
<1>5. Released([u EXCEPT !.refs = r1], v) = [u EXCEPT !.refs = r2]
  BY DEF Released, Table
<1> HIDE DEF r2
<1>6. \A x \in Keys \cup Vals : r2[x] = IF x = k \/ x = v THEN r[x] - 1 ELSE r[x]
  BY <1>1, <1>2, <1>4
<1> QED
  BY <1>3, <1>4, <1>5, <1>6 DEF Lowered

\* _wi_dictionary_set_data_for_key sets the value of the key and holds what it should.
LEMMA SetDataForKeyIs ==
    ASSUME NEW u, Right(u), NEW d, Referred(u, d), NEW k \in Keys, NEW v \in Vals, u.refs[v] >= 1,
           kind = "dictionary"
    PROVE  LET w == SetDataForKey(u, k, v)
           IN  /\ Settled(w) /\ Referred(w, d) /\ Contents(w) = [Contents(u) EXCEPT ![k] = v]
               /\ Lasts(u, k, w)
<1> DEFINE c == BucketFor(u, k)
           old == u.cells[c].val
<1>1. u \in Table /\ u.refs \in [Keys \cup Vals -> Int] /\ v \in Value
  BY DEF Right, Pool, Table, Value
<1>2. PICK r \in [Keys \cup Vals -> Int] :
         /\ Retained(CopyKey(u, k), v) = [u EXCEPT !.refs = r]
         /\ \A x \in Keys \cup Vals : r[x] = IF x = k \/ x = v THEN u.refs[x] + 1 ELSE u.refs[x]
  BY <1>1, CopiedAndRetained
<1>3. \/ c = Nil /\ Missing(u, k) /\ Contents(u)[k] = Nil
      \/ c # Nil /\ c \in Used(u) /\ u.cells[c].key = k /\ u.cells[c].val \in Value
  BY LookupIs
<1>4. ASSUME NEW y, Right(y), Referred(y, d), Contents(y) = [Contents(u) EXCEPT ![k] = v],
             SetDataForKey(u, k, v) = CheckOptimize(y), Missing(u, k) \/ Linked(u, y)
      PROVE  LET w == SetDataForKey(u, k, v)
             IN  /\ Settled(w) /\ Referred(w, d) /\ Contents(w) = [Contents(u) EXCEPT ![k] = v]
                 /\ Lasts(u, k, w)
  BY <1>4, OptimizedIs, LinkedLasts
<1>5. CASE c # Nil
  <2> HIDE DEF c
  <2>1. c \in Used(u) /\ u.cells[c].key = k /\ old \in Vals
    BY <1>3, <1>5 DEF Value
  <2> HIDE DEF old
  <2>2. PICK r2 \in [Keys \cup Vals -> Int] :
           /\ Released(Released([u EXCEPT !.refs = r], k), old) = [u EXCEPT !.refs = r2]
           /\ \A x \in Keys \cup Vals : r2[x] = IF x = k \/ x = old THEN r[x] - 1 ELSE r[x]
    <3>1. Lowered(u, r, k, old)
      BY <1>1, <2>1, ReleasedIs
    <3> QED
      BY <3>1 DEF Lowered
  <2> DEFINE x == [u EXCEPT !.refs = r2]
             y == [x EXCEPT !.cells[c].val = v]
  <2>3. Right(x) /\ x.refs = r2 /\ x.cells = u.cells /\ Kept(u, x, Used(u)) /\ Linked(u, x)
    BY RefsIs
  <2>4. SetDataForKey(u, k, v) = CheckOptimize(y)
    BY <1>2, <1>5, <2>2 DEF SetDataForKey, c, old
  <2> HIDE DEF x
  <2>5. c \in Used(x)
    BY <2>1, <2>3 DEF Kept
  <2>6. Right(y) /\ y.refs = x.refs /\ Linked(x, y) /\ Entered(x, y, c, x.cells[c].key, v)
    BY <1>1, <2>3, <2>5, RevaluedIs
  <2> HIDE DEF y
  <2>7. Entered(u, y, c, k, v)
    BY <2>1, <2>3, <2>6 DEF Entered, Kept
  <2>8. Contents(y) = [Contents(u) EXCEPT ![k] = v]
    BY <1>1, <2>6, <2>7, EnteredContents
  <2>9. \A z \in Keys \cup Vals :
           y.refs[z] = u.refs[z] + (IF kind = "dictionary" /\ z = v THEN 1 ELSE 0)
                                 - (IF kind = "dictionary" /\ z = u.cells[c].val THEN 1 ELSE 0)
    <3> SUFFICES ASSUME NEW z \in Keys \cup Vals
                 PROVE  y.refs[z] = u.refs[z] + (IF z = v THEN 1 ELSE 0) - (IF z = old THEN 1 ELSE 0)
      BY DEF old
    <3>1. y.refs[z] = r2[z] /\ u.refs[z] \in Int
      BY <1>1, <2>3, <2>6
    <3>2. k # v /\ k # old
      BY <2>1, KindAssumption
    <3>3. r[z] = IF z = k \/ z = v THEN u.refs[z] + 1 ELSE u.refs[z]
      BY <1>2
    <3>4. r2[z] = IF z = k \/ z = old THEN r[z] - 1 ELSE r[z]
      BY <2>2
    <3> QED
      BY <3>1, <3>2, <3>3, <3>4
  <2>10. Referred(y, d)
    BY <1>1, <2>1, <2>6, <2>7, <2>9, ReplacedReferred
  <2>11. Linked(u, y)
    BY <2>3, <2>6, LinkedTwice
  <2> QED
    BY <1>4, <2>4, <2>6, <2>8, <2>10, <2>11
<1>6. CASE c = Nil
  <2> DEFINE x == [u EXCEPT !.refs = r]
             y == Insert(x, k, v)
             b == NewCell(x)
  <2>1. Right(x) /\ x.refs = r /\ x.cells = u.cells /\ Kept(u, x, Used(u))
    BY RefsIs
  <2>2. SetDataForKey(u, k, v) = CheckOptimize(y)
    BY <1>2, <1>6 DEF SetDataForKey
  <2> HIDE DEF x
  <2>3. Missing(x, k)
    BY <1>3, <1>6, <2>1 DEF Missing, Kept
  <2>4. /\ Right(y) /\ y.refs = x.refs /\ Used(y) = Used(x) \cup {b} /\ b \notin Used(x)
        /\ y.cells[b].key = k /\ y.cells[b].val = v
        /\ \A z \in Used(x) : y.cells[z].key = x.cells[z].key /\ y.cells[z].val = x.cells[z].val
    BY <1>1, <2>1, <2>3, InsertIs
  <2> HIDE DEF y, b
  <2>5. Entered(u, y, b, k, v) /\ b \notin Used(u)
    BY <2>1, <2>4 DEF Entered, Kept
  <2>6. Contents(y) = [Contents(u) EXCEPT ![k] = v]
    BY <1>1, <2>4, <2>5, EnteredContents
  <2>7. \A z \in Keys \cup Vals :
           y.refs[z] = IF z = k \/ (kind = "dictionary" /\ z = v) THEN u.refs[z] + 1 ELSE u.refs[z]
    BY <1>2, <2>1, <2>4
  <2>8. Referred(y, d)
    BY <1>1, <2>4, <2>5, <2>7, NewEntryReferred
  <2> QED
    BY <1>3, <1>4, <1>6, <2>2, <2>4, <2>6, <2>8
<1> QED
  BY <1>5, <1>6

\* _wi_set_add_data counts the datum, or retains the new one.
LEMMA AddDataIs ==
    ASSUME NEW u, Right(u), NEW d, Referred(u, d), NEW k \in Keys, u.refs[k] >= 1,
           kind \in {"set", "counted"}
    PROVE  LET w == AddData(u, k)
           IN  /\ Settled(w) /\ Referred(w, d)
               /\ Contents(w) = [Contents(u) EXCEPT ![k] =
                                    IF kind = "counted" /\ @ # Nil THEN @ + 1 ELSE 1]
               /\ Lasts(u, k, w)
<1> DEFINE c == BucketFor(u, k)
           old == Contents(u)[k]
           new == IF kind = "counted" /\ old # Nil THEN old + 1 ELSE 1
<1>1. /\ u \in Table /\ u.refs \in [Keys \cup Vals -> Int] /\ Value = Nat \ {0}
      /\ kind # "dictionary"
  BY DEF Right, Pool, Table, Value
<1>2. \/ c = Nil /\ Missing(u, k) /\ old = Nil
      \/ /\ c # Nil /\ c \in Used(u) /\ u.cells[c].key = k /\ u.cells[c].val \in Value
         /\ old = IF kind = "set" THEN 1 ELSE u.cells[c].val
  BY LookupIs
<1> HIDE DEF old
<1>3. [Contents(u) EXCEPT ![k] = IF kind = "counted" /\ @ # Nil THEN @ + 1 ELSE 1] =
         [Contents(u) EXCEPT ![k] = new]
  BY DEF old, Contents
<1>4. ASSUME NEW y, Right(y), Referred(y, d), Contents(y) = [Contents(u) EXCEPT ![k] = new],
             AddData(u, k) = CheckOptimize(y), Missing(u, k) \/ Linked(u, y)
      PROVE  LET w == AddData(u, k)
             IN  /\ Settled(w) /\ Referred(w, d) /\ Contents(w) = [Contents(u) EXCEPT ![k] = new]
                 /\ Lasts(u, k, w)
  <2> HIDE DEF new
  <2> QED
    BY <1>4, OptimizedIs, LinkedLasts
<1>5. CASE c # Nil
  <2> HIDE DEF c
  <2> DEFINE v == u.cells[c].val + 1
             y == [u EXCEPT !.cells[c].val = v]
  <2>1. c \in Used(u) /\ u.cells[c].key = k /\ v \in Value
    BY <1>1, <1>2, <1>5
  <2>2. AddData(u, k) = CheckOptimize(y)
    BY <1>5 DEF AddData, c
  <2>3. (IF kind = "set" THEN 1 ELSE v) = new
    BY <1>1, <1>2, <1>5, KeyAssumption
  <2> HIDE DEF v
  <2>4. Right(y) /\ y.refs = u.refs /\ Linked(u, y) /\ Entered(u, y, c, u.cells[c].key, v)
    BY <2>1, RevaluedIs
  <2> HIDE DEF y, new
  <2>5. Contents(y) = [Contents(u) EXCEPT ![k] = new]
    BY <2>1, <2>3, <2>4, EnteredContents
  <2>6. \A z \in Keys \cup Vals :
           y.refs[z] = u.refs[z] + (IF kind = "dictionary" /\ z = v THEN 1 ELSE 0)
                                 - (IF kind = "dictionary" /\ z = u.cells[c].val THEN 1 ELSE 0)
    BY <1>1, <2>4
  <2>7. Referred(y, d)
    BY <2>1, <2>4, <2>6, ReplacedReferred
  <2> QED
    BY <1>3, <1>4, <2>2, <2>4, <2>5, <2>7
<1>6. CASE c = Nil
  <2> DEFINE r == [u.refs EXCEPT ![k] = u.refs[k] + 1]
             x == [u EXCEPT !.refs = r]
             y == Insert(x, k, 1)
             b == NewCell(x)
  <2>1. /\ r \in [Keys \cup Vals -> Int]
        /\ \A z \in Keys \cup Vals : r[z] = IF z = k THEN u.refs[z] + 1 ELSE u.refs[z]
    BY <1>1
  <2>2. Retained(u, k) = x
    BY <1>1, RetainedIs
  <2> HIDE DEF r
  <2>3. Right(x) /\ x.refs = r /\ x.cells = u.cells /\ Kept(u, x, Used(u))
    BY <2>1, RefsIs
  <2>4. AddData(u, k) = CheckOptimize(y)
    BY <1>6, <2>2 DEF AddData
  <2> HIDE DEF x
  <2>5. Missing(x, k) /\ 1 \in Value
    BY <1>1, <1>2, <1>6, <2>3 DEF Missing, Kept
  <2>6. /\ Right(y) /\ y.refs = x.refs /\ Used(y) = Used(x) \cup {b} /\ b \notin Used(x)
        /\ y.cells[b].key = k /\ y.cells[b].val = 1
        /\ \A z \in Used(x) : y.cells[z].key = x.cells[z].key /\ y.cells[z].val = x.cells[z].val
    BY <2>3, <2>5, InsertIs
  <2> HIDE DEF y, b
  <2>7. Entered(u, y, b, k, 1) /\ b \notin Used(u)
    BY <2>3, <2>6 DEF Entered, Kept
  <2>8. new = IF kind = "set" THEN 1 ELSE 1
    BY <1>2, <1>6
  <2> HIDE DEF new
  <2>9. Contents(y) = [Contents(u) EXCEPT ![k] = new]
    BY <2>6, <2>7, <2>8, EnteredContents
  <2>10. \A z \in Keys \cup Vals :
            y.refs[z] = IF z = k \/ (kind = "dictionary" /\ z = 1) THEN u.refs[z] + 1 ELSE u.refs[z]
    BY <1>1, <2>1, <2>3, <2>6
  <2>11. Referred(y, d)
    BY <2>5, <2>6, <2>7, <2>10, NewEntryReferred
  <2> QED
    BY <1>2, <1>3, <1>4, <1>6, <2>4, <2>6, <2>9, <2>11
<1> QED
  BY <1>5, <1>6

\* What is passed in one argument, and what it must be
PassedIn(arg) == IF kind = "dictionary" THEN arg[2] ELSE arg[1]
Fit(arg) == arg[1] \in Keys /\ (kind = "dictionary" => arg[2] \in Vals)

\* The contents are as the abstract table's after the call.
Made(w, d, c) == Settled(w) /\ Referred(w, d) /\ Contents(w) = c

LEMMA AddIs ==
    ASSUME NEW u, Right(u), NEW d, Referred(u, d), NEW arg, Fit(arg), u.refs[PassedIn(arg)] >= 1,
           kind \in {"dictionary", "set", "counted"}
    PROVE  Made(Add(u, arg), d, Map!Added(Contents(u), arg)) /\ Lasts(u, arg[1], Add(u, arg))
<1> DEFINE k == arg[1]
<1>1. k \in Keys
  BY DEF Fit
<1>2. CASE kind = "dictionary"
  <2> DEFINE v == arg[2]
  <2>1. v \in Vals /\ u.refs[v] >= 1
    BY <1>2 DEF Fit, PassedIn
  <2>2. Add(u, arg) = SetDataForKey(u, k, v)
    BY <1>2 DEF Add
  <2>3. Map!Added(Contents(u), arg) = [Contents(u) EXCEPT ![k] = v]
    BY <1>2 DEF Map!Added
  <2> HIDE DEF k, v
  <2>4. LET w == SetDataForKey(u, k, v)
        IN  /\ Settled(w) /\ Referred(w, d) /\ Contents(w) = [Contents(u) EXCEPT ![k] = v]
            /\ Lasts(u, k, w)
    BY <1>1, <1>2, <2>1, SetDataForKeyIs
  <2> QED
    BY <2>2, <2>3, <2>4 DEF Made, k
<1>3. CASE kind \in {"set", "counted"}
  <2>1. u.refs[k] >= 1
    BY <1>3 DEF PassedIn
  <2>2. Add(u, arg) = AddData(u, k)
    BY <1>3 DEF Add
  <2>3. Map!Added(Contents(u), arg) =
           [Contents(u) EXCEPT ![k] = IF kind = "counted" /\ @ # Nil THEN @ + 1 ELSE 1]
    BY <1>3 DEF Map!Added
  <2> HIDE DEF k
  <2>4. LET w == AddData(u, k)
        IN  /\ Settled(w) /\ Referred(w, d)
            /\ Contents(w) = [Contents(u) EXCEPT ![k] =
                                 IF kind = "counted" /\ @ # Nil THEN @ + 1 ELSE 1]
            /\ Lasts(u, k, w)
    BY <1>1, <1>3, <2>1, AddDataIs
  <2> QED
    BY <2>2, <2>3, <2>4 DEF Made, k
<1> QED
  BY <1>2, <1>3

LEMMA RemoveDataIs ==
    ASSUME NEW u, Right(u), NEW d, Referred(u, d), NEW k \in Keys,
           kind \in {"dictionary", "set", "counted"}
    PROVE  Made(RemoveData(u, k), d, Map!Gone(Contents(u), k))
<1> DEFINE c == BucketFor(u, k)
           old == Contents(u)[k]
           new == IF kind = "counted" /\ old # Nil /\ old > 1 THEN old - 1 ELSE Nil
<1>2. \/ c = Nil /\ Missing(u, k) /\ old = Nil
      \/ /\ c # Nil /\ c \in Used(u) /\ u.cells[c].key = k /\ u.cells[c].val \in Value
         /\ old = IF kind = "set" THEN 1 ELSE u.cells[c].val
  BY LookupIs
<1> HIDE DEF old
<1>3. Map!Gone(Contents(u), k) = [Contents(u) EXCEPT ![k] = new]
  BY DEF old, Contents, Map!Gone
<1>4. ASSUME NEW y, Right(y), Referred(y, d), Contents(y) = [Contents(u) EXCEPT ![k] = new],
             RemoveData(u, k) = CheckOptimize(y)
      PROVE  Made(RemoveData(u, k), d, Map!Gone(Contents(u), k))
  <2> HIDE DEF new
  <2> QED
    BY <1>3, <1>4, OptimizedIs DEF Made
<1>5. CASE c = Nil
  <2>1. RemoveData(u, k) = CheckOptimize(u)
    BY <1>5 DEF RemoveData
  <2>2. new = Contents(u)[k]
    BY <1>2, <1>5 DEF old
  <2>3. Contents(u) = [Contents(u) EXCEPT ![k] = new]
    <3> HIDE DEF new
    <3> QED
      BY <2>2 DEF Contents
  <2> QED
    BY <1>4, <2>1, <2>3
<1>6. CASE c # Nil /\ kind = "counted" /\ u.cells[c].val > 1
  <2> HIDE DEF c
  <2> DEFINE v == u.cells[c].val - 1
             y == [u EXCEPT !.cells[c].val = v]
  <2>1. c \in Used(u) /\ u.cells[c].key = k /\ v \in Value
    BY <1>2, <1>6 DEF Value
  <2>2. RemoveData(u, k) = CheckOptimize(y)
    BY <1>6 DEF RemoveData, c
  <2>3. (IF kind = "set" THEN 1 ELSE v) = new
    BY <1>2, <1>6, KeyAssumption DEF Value
  <2> HIDE DEF v
  <2>4. Right(y) /\ y.refs = u.refs /\ Entered(u, y, c, u.cells[c].key, v)
    BY <2>1, RevaluedIs
  <2> HIDE DEF y, new
  <2>5. Contents(y) = [Contents(u) EXCEPT ![k] = new]
    BY <2>1, <2>3, <2>4, EnteredContents
  <2>6. \A z \in Keys \cup Vals :
           y.refs[z] = u.refs[z] + (IF kind = "dictionary" /\ z = v THEN 1 ELSE 0)
                                 - (IF kind = "dictionary" /\ z = u.cells[c].val THEN 1 ELSE 0)
    <3>1. u.refs \in [Keys \cup Vals -> Int]
      BY DEF Right, Pool, Table
    <3> QED
      BY <1>6, <2>4, <3>1
  <2>7. Referred(y, d)
    BY <2>1, <2>4, <2>6, ReplacedReferred
  <2> QED
    BY <1>4, <2>2, <2>4, <2>5, <2>7
<1>7. CASE c # Nil /\ ~ (kind = "counted" /\ u.cells[c].val > 1)
  <2> HIDE DEF c
  <2> DEFINE y == Unlink(u, c)
  <2>1. c \in Used(u) /\ u.cells[c].key = k
    BY <1>2, <1>7
  <2>2. RemoveData(u, k) = CheckOptimize(y)
    BY <1>7 DEF RemoveData, c
  <2>3. Right(y) /\ Kept(u, y, Used(u) \ {c}) /\ Referred(y, d)
    BY <2>1, UnlinkIs
  <2>4. new = Nil
    BY <1>2, <1>7 DEF Value
  <2> HIDE DEF y, new
  <2>5. Contents(y) = [Contents(u) EXCEPT ![k] = new]
    BY <2>1, <2>3, <2>4, GoneContents
  <2> QED
    BY <1>4, <2>2, <2>3, <2>5
<1> QED
  BY <1>5, <1>6, <1>7

-----------------------------------------------------------------------------
(* Many edits *)

LEMMA ReferredAtLeast ==
    ASSUME NEW u, Right(u), NEW d, Referred(u, d), NEW x \in Keys \cup Vals
    PROVE  /\ d[x] \in Int /\ u.refs[x] \in Int /\ u.refs[x] >= d[x]
           /\ (\E c \in Used(u) : c \in Holds(u, x)) => u.refs[x] >= d[x] + 1
<1>1. d[x] \in Int /\ u.refs[x] = Cardinality(Holds(u, x)) + d[x]
  BY DEF Referred
<1>2. IsFiniteSet(Holds(u, x)) /\ Cardinality(Holds(u, x)) \in Nat
  BY HoldsFinite DEF Right
<1>3. (\E c \in Used(u) : c \in Holds(u, x)) => Cardinality(Holds(u, x)) # 0
  BY <1>2, FS_EmptySet
<1> QED
  BY <1>1, <1>2, <1>3

LEMMA PassedInIs ==
    ASSUME NEW arg, Fit(arg)
    PROVE  PassedIn(arg) \in Keys \cup Vals
BY DEF Fit, PassedIn

LEMMA AddAllIs ==
    ASSUME NEW u, Settled(u), NEW d, Referred(u, d), NEW args, Len(args) \in Nat,
           \A i \in 1 .. Len(args) : Fit(args[i]) /\ d[PassedIn(args[i])] >= 1,
           kind \in {"dictionary", "set", "counted"}
    PROVE  Made(AddAll(u, args), d, Map!AddedAll(Contents(u), args))
<1>1. PICK made : /\ made[0] = u /\ AddAll(u, args) = made[Len(args)]
                  /\ \A i \in 1 .. Len(args) : made[i] = Add(made[i - 1], args[i])
  BY AddAllUnfolds
<1>2. PICK maps : /\ maps[0] = Contents(u) /\ Map!AddedAll(Contents(u), args) = maps[Len(args)]
                  /\ \A i \in 1 .. Len(args) : maps[i] = Map!Added(maps[i - 1], args[i])
  BY AddedAllUnfolds
<1> DEFINE Good(i) == Made(made[i], d, maps[i])
           There == {i \in 0 .. Len(args) : Good(i)}
<1>3. Good(0)
  BY <1>1, <1>2 DEF Made
<1>4. ASSUME NEW i \in 0 .. Len(args) - 1, Good(i) PROVE Good(i + 1)
  <2> DEFINE j == i + 1
             v == made[i]
             arg == args[j]
  <2>1. j \in 1 .. Len(args) /\ j - 1 = i
    OBVIOUS
  <2> HIDE DEF j
  <2>2. made[j] = Add(v, arg) /\ maps[j] = Map!Added(maps[i], arg)
    BY <1>1, <1>2, <2>1
  <2>3. Fit(arg) /\ d[PassedIn(arg)] >= 1
    BY <2>1
  <2>4. Right(v) /\ Referred(v, d) /\ Contents(v) = maps[i]
    BY <1>4 DEF Made, Settled
  <2> HIDE DEF v, arg
  <2>5. v.refs[PassedIn(arg)] >= 1
    BY <2>3, <2>4, PassedInIs, ReferredAtLeast
  <2>6. Made(Add(v, arg), d, Map!Added(Contents(v), arg))
    BY <2>3, <2>4, <2>5, AddIs
  <2> QED
    BY <2>2, <2>4, <2>6 DEF j
<1> HIDE DEF Good
<1>5. \A i \in 0 .. Len(args) : i \in There
  <2>1. 0 \in There
    BY <1>3
  <2>2. \A i \in 0 .. Len(args) - 1 : i \in There => i + 1 \in There
    BY <1>4
  <2> HIDE DEF There
  <2> QED
    BY <2>1, <2>2, InductionUpTo
<1>6. Good(Len(args))
  BY <1>5
<1> QED
  BY <1>1, <1>2, <1>6 DEF Good

\* Adding keys that are all there leaves them in their places.
LEMMA AddAllLasts ==
    ASSUME NEW u, Settled(u), NEW d, Referred(u, d), NEW args, Len(args) \in Nat,
           \A i \in 1 .. Len(args) : Fit(args[i]) /\ d[PassedIn(args[i])] >= 1,
           \A i \in 1 .. Len(args) : ~ Missing(u, args[i][1]),
           kind \in {"dictionary", "set", "counted"}
    PROVE  Linked(u, AddAll(u, args))
<1>1. PICK made : /\ made[0] = u /\ AddAll(u, args) = made[Len(args)]
                  /\ \A i \in 1 .. Len(args) : made[i] = Add(made[i - 1], args[i])
  BY AddAllUnfolds
<1> DEFINE Good(i) == Settled(made[i]) /\ Referred(made[i], d) /\ Linked(u, made[i])
           There == {i \in 0 .. Len(args) : Good(i)}
<1>2. Good(0)
  BY <1>1 DEF Linked
<1>3. ASSUME NEW i \in 0 .. Len(args) - 1, Good(i) PROVE Good(i + 1)
  <2> DEFINE j == i + 1
             v == made[i]
             arg == args[j]
             w == Add(v, arg)
  <2>1. j \in 1 .. Len(args) /\ j - 1 = i
    OBVIOUS
  <2> HIDE DEF j
  <2>2. made[j] = w
    BY <1>1, <2>1
  <2>3. Fit(arg) /\ d[PassedIn(arg)] >= 1 /\ ~ Missing(u, arg[1])
    BY <2>1
  <2>4. Settled(v) /\ Right(v) /\ NotDue(v) /\ Referred(v, d) /\ Linked(u, v)
    BY <1>3 DEF Settled
  <2> HIDE DEF v, arg
  <2>5. v.refs[PassedIn(arg)] >= 1
    BY <2>3, <2>4, PassedInIs, ReferredAtLeast
  <2>6. Made(w, d, Map!Added(Contents(v), arg)) /\ Lasts(v, arg[1], w)
    BY <2>3, <2>4, <2>5, AddIs
  <2>7. ~ Missing(v, arg[1])
    BY <2>3, <2>4 DEF Missing, Linked, Used
  <2> HIDE DEF w
  <2>8. Linked(v, w)
    BY <2>4, <2>6, <2>7 DEF Lasts
  <2>9. Linked(u, w)
    BY <2>4, <2>8, LinkedTwice
  <2> QED
    BY <2>2, <2>6, <2>9 DEF j, Made
<1> HIDE DEF Good
<1>4. \A i \in 0 .. Len(args) : i \in There
  <2>1. 0 \in There
    BY <1>2
  <2>2. \A i \in 0 .. Len(args) - 1 : i \in There => i + 1 \in There
    BY <1>3
  <2> HIDE DEF There
  <2> QED
    BY <2>1, <2>2, InductionUpTo
<1>5. Good(Len(args))
  BY <1>4
<1> QED
  BY <1>1, <1>5 DEF Good

\* The value of a key whose argument was added n times
ValueAfter(arg, n) == IF kind = "dictionary" THEN arg[2] ELSE IF kind = "set" THEN 1 ELSE n

LEMMA AddTimesIs ==
    ASSUME NEW u, Settled(u), NEW d, Referred(u, d), NEW arg, Fit(arg), d[PassedIn(arg)] >= 1,
           NEW times \in Nat \ {0}, Contents(u)[arg[1]] = Nil,
           kind \in {"dictionary", "set", "counted"}
    PROVE  Made(AddTimes(u, arg, times), d, [Contents(u) EXCEPT ![arg[1]] = ValueAfter(arg, times)])
<1> DEFINE k == arg[1]
           C == Contents(u)
           After(n) == IF n = 0 THEN C ELSE [C EXCEPT ![k] = ValueAfter(arg, n)]
<1>1. PICK made : /\ made[0] = u /\ AddTimes(u, arg, times) = made[times]
                  /\ \A i \in 1 .. times : made[i] = Add(made[i - 1], arg)
  BY AddTimesUnfolds
<1>2. k \in Keys /\ DOMAIN C = Keys /\ C[k] = Nil
  BY DEF Fit, Contents
<1> HIDE DEF C, k
<1>3. ASSUME NEW n \in Nat PROVE Map!Added(After(n), arg) = After(n + 1)
  <2>0. Map!Added(After(n), arg) =
           [After(n) EXCEPT ![k] = IF kind = "dictionary" THEN arg[2]
                                   ELSE IF kind = "counted" /\ @ # Nil THEN @ + 1 ELSE 1]
    BY DEF Map!Added, k
  <2>1. CASE n = 0
    <3>1. ValueAfter(arg, 1) = IF kind = "dictionary" THEN arg[2] ELSE 1
      BY DEF ValueAfter
    <3>2. After(n) = C /\ After(n + 1) = [C EXCEPT ![k] = ValueAfter(arg, 1)]
      BY <2>1
    <3> HIDE DEF After
    <3> QED
      BY <1>2, <2>0, <3>1, <3>2
  <2>2. CASE n # 0
    <3> DEFINE v == ValueAfter(arg, n)
               w == ValueAfter(arg, n + 1)
    <3>1. w = IF kind = "dictionary" THEN arg[2]
              ELSE IF kind = "counted" /\ v # Nil THEN v + 1 ELSE 1
      BY KeyAssumption DEF ValueAfter
    <3>2. After(n) = [C EXCEPT ![k] = v] /\ After(n + 1) = [C EXCEPT ![k] = w]
      BY <2>2
    <3> HIDE DEF After, v, w
    <3>3. After(n)[k] = v
      BY <1>2, <3>2
    <3>4. Map!Added(After(n), arg) = [After(n) EXCEPT ![k] = w]
      BY <2>0, <3>1, <3>3
    <3> QED
      BY <1>2, <3>2, <3>4
  <2> QED
    BY <2>1, <2>2
<1> DEFINE Good(i) == Made(made[i], d, After(i))
           There == {i \in 0 .. times : Good(i)}
<1>4. Good(0)
  BY <1>1 DEF Made, C
<1> HIDE DEF After
<1>5. ASSUME NEW i \in 0 .. times - 1, Good(i) PROVE Good(i + 1)
  <2> DEFINE j == i + 1
             v == made[i]
  <2>1. j \in 1 .. times /\ j - 1 = i /\ i \in Nat
    OBVIOUS
  <2>2. Map!Added(After(i), arg) = After(j)
    BY <1>3, <2>1
  <2> HIDE DEF j
  <2>3. made[j] = Add(v, arg)
    BY <1>1, <2>1
  <2>4. Right(v) /\ Referred(v, d) /\ Contents(v) = After(i)
    BY <1>5 DEF Made, Settled
  <2> HIDE DEF v
  <2>5. v.refs[PassedIn(arg)] >= 1
    BY <2>4, PassedInIs, ReferredAtLeast
  <2>6. Made(Add(v, arg), d, Map!Added(Contents(v), arg))
    BY <2>4, <2>5, AddIs
  <2> QED
    BY <2>2, <2>3, <2>4, <2>6 DEF j
<1> HIDE DEF Good
<1>6. \A i \in 0 .. times : i \in There
  <2>1. 0 \in There
    BY <1>4
  <2>2. \A i \in 0 .. times - 1 : i \in There => i + 1 \in There
    BY <1>5
  <2> HIDE DEF There
  <2> QED
    BY <2>1, <2>2, InductionUpTo
<1>7. Good(times)
  BY <1>6
<1> QED
  BY <1>1, <1>7 DEF Good, After, C, k

\* A new table is right and empty.
LEMMA NewTableIs ==
    ASSUME NEW capacity \in Nat, NEW r \in [Keys \cup Vals -> Int]
    PROVE  LET w == NewTable(capacity, r)
           IN  Settled(w) /\ Used(w) = {} /\ Contents(w) = Map!Empty /\ w.refs = r /\ Referred(w, r)
<1> DEFINE n == Larger(Capacity(capacity), MinCount)
           w == NewTable(capacity, r)
           ch == [i \in 0 .. n - 1 |-> <<>>]
<1>1. n \in Nat \ {0}
  BY CapacityBounds, CountAssumption DEF Larger
<1>2. w = [heads |-> [i \in 0 .. n - 1 |-> Nil], size |-> n, min |-> n, count |-> 0,
           cells |-> <<>>, free |-> <<>>, refs |-> r]
  BY DEF NewTable
<1> HIDE DEF n, w
<1>3. /\ w.heads = [i \in 0 .. n - 1 |-> Nil] /\ w.size = n /\ w.min = n /\ w.count = 0
      /\ w.cells = <<>> /\ w.free = <<>> /\ w.refs = r
  BY <1>2
<1>4. w \in Table
  <2>1. [i \in 0 .. n - 1 |-> Nil] \in Heads
    <3>1. [i \in 0 .. n - 1 |-> Nil] \in [0 .. n - 1 -> Nat \cup {Nil}]
      OBVIOUS
    <3> QED
      BY <1>1, <3>1 DEF Heads
  <2>2. <<>> \in Seq(Cell) /\ <<>> \in Seq(Nat)
    OBVIOUS
  <2> DEFINE hs == [i \in 0 .. n - 1 |-> Nil]
  <2> HIDE DEF hs
  <2>3. w = [heads |-> hs, size |-> n, min |-> n, count |-> 0, cells |-> <<>>, free |-> <<>>, refs |-> r]
    BY <1>2 DEF hs
  <2>4. hs \in Heads
    BY <2>1 DEF hs
  <2> QED
    BY <1>1, <2>2, <2>3, <2>4 DEF Table
<1>5. DOMAIN w.cells = {} /\ Used(w) = {} /\ Len(w.free) = 0
  BY <1>3 DEF Used
<1>6. Pool(w)
  <2>1. Cardinality(Used(w)) = 0
    BY <1>5, FS_EmptySet
  <2>2. w.size > 0 /\ w.min > 0 /\ DOMAIN w.heads = 0 .. w.size - 1
    BY <1>1, <1>3
  <2>3. Injective(w.free)
    BY <1>5 DEF Injective
  <2> QED
    BY <1>3, <1>4, <1>5, <2>1, <2>2, <2>3 DEF Pool
<1>7. Chained(w, ch, {})
  <2>1. ch \in [0 .. w.size - 1 -> Seq(DOMAIN w.cells)]
    BY <1>3
  <2>2. \A i \in 0 .. w.size - 1 : ch[i] = <<>> /\ Len(ch[i]) = 0 /\ w.heads[i] = Nil
    BY <1>3
  <2> HIDE DEF ch
  <2>3. \A i \in 0 .. w.size - 1 : Path(w, w.heads[i], ch[i]) /\ Injective(ch[i])
    <3> SUFFICES ASSUME NEW i \in 0 .. w.size - 1 PROVE Path(w, w.heads[i], ch[i]) /\ Injective(ch[i])
      OBVIOUS
    <3>1. Len(ch[i]) = 0 /\ w.heads[i] = Nil /\ 1 .. Len(ch[i]) = {}
      BY <2>2
    <3> QED
      BY <3>1 DEF Path, Injective
  <2> QED
    BY <1>5, <2>1, <2>2, <2>3 DEF Chained
<1>8. Right(w)
  BY <1>6, <1>7 DEF Right
<1>a. NotDue(w)
  BY <1>1, <1>3 DEF NotDue
<1>9. \A k \in Keys : Contents(w)[k] = Nil
  BY <1>5, <1>8, ContentsAre
<1>10. Contents(w) = Map!Empty
  BY <1>9 DEF Contents, Map!Empty
<1>11. Referred(w, r)
  <2> SUFFICES ASSUME NEW x \in Keys \cup Vals
               PROVE  w.refs[x] = Cardinality(Holds(w, x)) + r[x]
    BY DEF Referred
  <2>1. Holds(w, x) = {}
    BY <1>5 DEF Holds
  <2>2. Cardinality(Holds(w, x)) = 0
    BY <2>1, FS_EmptySet
  <2>3. r[x] \in Int
    OBVIOUS
  <2> QED
    BY <1>3, <2>2, <2>3
<1> QED
  BY <1>3, <1>5, <1>8, <1>a, <1>10, <1>11 DEF w, Settled

\* The loops over another table pass on its entries.
LEMMA ArgumentsAre ==
    ASSUME NEW u, Right(u)
    PROVE  /\ Len(Arguments(u)) = Len(Entries(u)) /\ Len(Entries(u)) \in Nat
           /\ Arguments(u) \in Seq(Keys \X Value)
           /\ \A n \in 1 .. Len(Entries(u)) :
                 LET c == Entries(u)[n]
                 IN  c \in Used(u) /\ Arguments(u)[n] = <<u.cells[c].key, u.cells[c].val>>
<1> DEFINE s == Entries(u)
           args == Arguments(u)
<1>1. /\ s \in Seq(DOMAIN u.cells) /\ Len(s) \in Nat
      /\ \A n \in 1 .. Len(s) : s[n] \in Used(u)
  BY EntriesAre
<1>2. args = [i \in 1 .. Len(s) |-> <<u.cells[s[i]].key, u.cells[s[i]].val>>]
  BY <1>1 DEF Arguments
<1> HIDE DEF s, args
<1>3. \A c \in Used(u) : u.cells[c].key \in Keys /\ u.cells[c].val \in Value
  BY UsedCells
<1>4. \A i \in 1 .. Len(s) : <<u.cells[s[i]].key, u.cells[s[i]].val>> \in Keys \X Value
  BY <1>1, <1>3
<1>5. args \in Seq(Keys \X Value) /\ Len(args) = Len(s)
  BY <1>1, <1>2, <1>4
<1> QED
  BY <1>1, <1>2, <1>5 DEF s, args

\* The contents of u in the first i cells of s
Some(u, s, i) ==
    [k \in Keys |-> IF \E m \in 1 .. i : u.cells[s[m]].key = k THEN Contents(u)[k] ELSE Nil]

\* A copy has the contents, and the counts, of the original.
LEMMA CopiedIs ==
    ASSUME NEW u, Right(u), NEW w, Settled(w), Contents(w) = Map!Empty, NEW d, Referred(w, d),
           \A n \in 1 .. Len(Arguments(u)) : d[PassedIn(Arguments(u)[n])] >= 1,
           kind \in {"dictionary", "set", "counted"}
    PROVE  Made(Copied(w, Arguments(u)), d, Contents(u))
<1> DEFINE s == Entries(u)
           args == Arguments(u)
           times(arg) == IF kind = "dictionary" THEN 1 ELSE arg[2]
<1>1. /\ Len(args) = Len(s) /\ Len(s) \in Nat /\ Injective(s)
      /\ \A n \in 1 .. Len(s) : s[n] \in Used(u)
      /\ \A c \in Used(u) : \E n \in 1 .. Len(s) : s[n] = c
      /\ \A n \in 1 .. Len(s) : args[n] = <<u.cells[s[n]].key, u.cells[s[n]].val>>
  BY ArgumentsAre, EntriesAre
<1>2. \A n \in 1 .. Len(s) : d[PassedIn(args[n])] >= 1
  BY <1>1
<1>3. \A c \in Used(u) : u.cells[c].key \in Keys /\ u.cells[c].val \in Value
  BY UsedCells
<1>4. \A b, c \in Used(u) : u.cells[b].key = u.cells[c].key => b = c
  BY DEF Right, Pool
<1> HIDE DEF s, args
<1>5. PICK made : /\ made[0] = w /\ Copied(w, args) = made[Len(args)]
                  /\ \A i \in 1 .. Len(args) :
                        made[i] = AddTimes(made[i - 1], args[i],
                                           IF kind = "dictionary" THEN 1 ELSE args[i][2])
  BY <1>1, CopiedUnfolds
<1> DEFINE Good(i) == Made(made[i], d, Some(u, s, i))
           There == {i \in 0 .. Len(s) : Good(i)}
<1>6. Good(0)
  <2>1. Some(u, s, 0) = Map!Empty
    BY DEF Some, Map!Empty
  <2> QED
    BY <1>5, <2>1 DEF Made
<1>7. ASSUME NEW i \in 0 .. Len(s) - 1, Good(i) PROVE Good(i + 1)
  <2> DEFINE j == i + 1
             v == made[i]
             arg == args[j]
             c == s[j]
             n == times(arg)
  <2>1. /\ j \in 1 .. Len(s) /\ j - 1 = i
        /\ \A m \in 1 .. i : m \in 1 .. Len(s) /\ m # j
        /\ \A m \in 1 .. j : m \in 1 .. i \/ m = j
        /\ \A m \in 1 .. i : m \in 1 .. j
        /\ j \in 1 .. j
    OBVIOUS
  <2> HIDE DEF j
  <2>2. made[j] = AddTimes(v, arg, n)
    BY <1>1, <1>5, <2>1
  <2>3. c \in Used(u) /\ arg = <<u.cells[c].key, u.cells[c].val>> /\ d[PassedIn(arg)] >= 1
    BY <1>1, <1>2, <2>1
  <2>4. \A m \in 1 .. i : u.cells[s[m]].key # u.cells[c].key
    BY <1>1, <1>4, <2>1, <2>3 DEF Injective
  <2>5. Settled(v) /\ Referred(v, d) /\ Contents(v) = Some(u, s, i)
    BY <1>7 DEF Made
  <2> HIDE DEF v, arg, c
  <2>6. arg[1] = u.cells[c].key /\ arg[2] = u.cells[c].val /\ arg[1] \in Keys /\ arg[2] \in Value
    BY <1>3, <2>3
  <2>7. Fit(arg) /\ n \in Nat \ {0}
    BY <2>6 DEF Fit, Value
  <2>8. Contents(v)[arg[1]] = Nil
    BY <2>4, <2>5, <2>6 DEF Some
  <2>9. n = IF kind = "dictionary" THEN 1 ELSE arg[2]
    OBVIOUS
  <2> HIDE DEF n
  <2>10. Made(AddTimes(v, arg, n), d, [Contents(v) EXCEPT ![arg[1]] = ValueAfter(arg, n)])
    BY <2>3, <2>5, <2>7, <2>8, AddTimesIs
  <2>11. Contents(u)[arg[1]] = ValueAfter(arg, n)
    <3>1. Contents(u)[arg[1]] = IF kind = "set" THEN 1 ELSE u.cells[c].val
      BY <2>3, <2>6, ContentsAre
    <3> QED
      BY <2>6, <2>9, <3>1 DEF ValueAfter
  <2>12. [Some(u, s, i) EXCEPT ![arg[1]] = ValueAfter(arg, n)] = Some(u, s, j)
    <3> DEFINE k == arg[1]
               x == ValueAfter(arg, n)
    <3>1. k \in Keys /\ Contents(u)[k] = x /\ u.cells[s[j]].key = k
      BY <2>6, <2>11 DEF c
    <3> HIDE DEF k, x
    <3>2. \A b \in Keys : (\E m \in 1 .. j : u.cells[s[m]].key = b) <=>
                          b = k \/ \E m \in 1 .. i : u.cells[s[m]].key = b
      BY <2>1, <3>1
    <3>3. [Some(u, s, i) EXCEPT ![k] = x] = Some(u, s, j)
      BY <3>1, <3>2 DEF Some
    <3> QED
      BY <3>3 DEF k, x
  <2> QED
    BY <2>2, <2>5, <2>10, <2>12 DEF j
<1> HIDE DEF Good
<1>8. \A i \in 0 .. Len(s) : i \in There
  <2>1. 0 \in There
    BY <1>1, <1>6
  <2>2. \A i \in 0 .. Len(s) - 1 : i \in There => i + 1 \in There
    BY <1>7
  <2> HIDE DEF There
  <2> QED
    BY <1>1, <2>1, <2>2, InductionUpTo
<1>9. Good(Len(s))
  BY <1>1, <1>8
<1>10. Some(u, s, Len(s)) = Contents(u)
  <2>1. \A k \in Keys : (\A c \in Used(u) : u.cells[c].key # k) => Contents(u)[k] = Nil
    BY ContentsAre
  <2>2. \A k \in Keys : Some(u, s, Len(s))[k] = Contents(u)[k]
    BY <1>1, <2>1 DEF Some
  <2> QED
    BY <2>2 DEF Some, Contents
<1> QED
  BY <1>1, <1>5, <1>9, <1>10 DEF Good, args

-----------------------------------------------------------------------------
(* What the caller holds *)

AllKinds == {"dictionary", "set", "counted"}
Nobody == [x \in Keys \cup Vals |-> 0]
Held(S) == [x \in Keys \cup Vals |-> IF x \in S THEN 1 ELSE 0]

LEMMA LinkedSettled ==
    ASSUME NEW u, NEW w, Settled(u), Right(w), Linked(u, w)
    PROVE  Settled(w)
BY DEF Settled, NotDue, Linked

LEMMA TakenIs ==
    ASSUME NEW u, Settled(u), Referred(u, Nobody), NEW S
    PROVE  LET w == Taken(u, S)
           IN  /\ Made(w, Held(S), Contents(u)) /\ Linked(u, w)
               /\ \A x \in Keys \cup Vals : w.refs[x] = IF x \in S THEN u.refs[x] + 1 ELSE u.refs[x]
<1> DEFINE r == Holding(u.refs, S)
           w == [u EXCEPT !.refs = r]
<1>1. u \in Table /\ u.refs \in [Keys \cup Vals -> Int]
  BY DEF Settled, Right, Pool, Table
<1>2. /\ r \in [Keys \cup Vals -> Int]
      /\ \A x \in Keys \cup Vals : r[x] = IF x \in S THEN u.refs[x] + 1 ELSE u.refs[x]
  BY <1>1 DEF Holding
<1>3. Taken(u, S) = w
  <2> HIDE DEF r
  <2> QED
    BY <1>1 DEF Taken, Table, r
<1> HIDE DEF r
<1>4. Right(w) /\ w.refs = r /\ Kept(u, w, Used(u)) /\ Linked(u, w)
  BY <1>2, RefsIs DEF Settled
<1> HIDE DEF w
<1>5. Contents(w) = Contents(u)
  BY <1>4, KeptContents DEF Settled
<1>6. \A x : Holds(w, x) = Holds(u, x)
  BY <1>4 DEF Holds, Kept
<1>7. Referred(w, Held(S))
  <2> SUFFICES ASSUME NEW x \in Keys \cup Vals
               PROVE  Held(S)[x] \in Int /\ w.refs[x] = Cardinality(Holds(w, x)) + Held(S)[x]
    BY DEF Referred
  <2>1. u.refs[x] = Cardinality(Holds(u, x)) + 0
    BY DEF Referred, Nobody
  <2>2. Cardinality(Holds(u, x)) \in Nat
    BY HoldsFinite DEF Settled, Right
  <2>3. Held(S)[x] = IF x \in S THEN 1 ELSE 0
    BY DEF Held
  <2> QED
    BY <1>2, <1>4, <1>6, <2>1, <2>2, <2>3
<1> QED
  BY <1>2, <1>3, <1>4, <1>5, <1>7, LinkedSettled DEF Made

LEMMA LettingGoIs ==
    ASSUME NEW u, Settled(u), NEW S, Referred(u, Held(S))
    PROVE  Made(LettingGo(u, S), Nobody, Contents(u)) /\ Linked(u, LettingGo(u, S))
<1> DEFINE r == [x \in Keys \cup Vals |-> IF x \in S THEN u.refs[x] - 1 ELSE u.refs[x]]
           w == [u EXCEPT !.refs = r]
<1>1. u \in Table /\ u.refs \in [Keys \cup Vals -> Int]
  BY DEF Settled, Right, Pool, Table
<1>2. /\ r \in [Keys \cup Vals -> Int]
      /\ \A x \in Keys \cup Vals : r[x] = IF x \in S THEN u.refs[x] - 1 ELSE u.refs[x]
  BY <1>1
<1>3. LettingGo(u, S) = w
  <2>1. [x \in DOMAIN u.refs |-> IF x \in S THEN u.refs[x] - 1 ELSE u.refs[x]] = r
    BY <1>1
  <2> HIDE DEF r
  <2> QED
    BY <2>1 DEF LettingGo, Table
<1> HIDE DEF r
<1>4. Right(w) /\ w.refs = r /\ Kept(u, w, Used(u)) /\ Linked(u, w)
  BY <1>2, RefsIs DEF Settled
<1> HIDE DEF w
<1>5. Contents(w) = Contents(u)
  BY <1>4, KeptContents DEF Settled
<1>6. \A x : Holds(w, x) = Holds(u, x)
  BY <1>4 DEF Holds, Kept
<1>7. Referred(w, Nobody)
  <2> SUFFICES ASSUME NEW x \in Keys \cup Vals
               PROVE  Nobody[x] \in Int /\ w.refs[x] = Cardinality(Holds(w, x)) + Nobody[x]
    BY DEF Referred
  <2>1. u.refs[x] = Cardinality(Holds(u, x)) + Held(S)[x]
    BY DEF Referred
  <2>2. Cardinality(Holds(u, x)) \in Nat
    BY HoldsFinite DEF Settled, Right
  <2>3. Held(S)[x] = IF x \in S THEN 1 ELSE 0
    BY DEF Held
  <2>4. Nobody[x] = 0
    BY DEF Nobody
  <2> QED
    BY <1>2, <1>4, <1>6, <2>1, <2>2, <2>3, <2>4
<1> QED
  BY <1>3, <1>4, <1>5, <1>7, LinkedSettled DEF Made

\* Arguments that an edit takes
FitAll(args) == Len(args) \in Nat /\ DOMAIN args = 1 .. Len(args) /\ \A i \in 1 .. Len(args) : Fit(args[i])

LEMMA ArgumentsFit ==
    ASSUME NEW args, \/ args \in Others \cup {<<>>}
                     \/ \E u : Right(u) /\ args = Arguments(u)
    PROVE  FitAll(args)
<1>1. CASE args \in Others \cup {<<>>}
  <2>1. args \in Seq(Keys \X Vals)
    <3> DEFINE Q == Seq(Keys \X Vals)
    <3>1. <<>> \in Q
      OBVIOUS
    <3>2. Others \subseteq Q
      BY ArgumentAssumption
    <3> HIDE DEF Q
    <3>3. args \in Q
      BY <1>1, <3>1, <3>2
    <3> QED
      BY <3>3 DEF Q
  <2> QED
    BY <2>1 DEF FitAll, Fit
<1>2. CASE \E u : Right(u) /\ args = Arguments(u)
  <2>1. args \in Seq(Keys \X Value)
    BY <1>2, ArgumentsAre
  <2>2. \A i \in 1 .. Len(args) : args[i] \in Keys \X Value
    BY <2>1
  <2> QED
    BY <2>1, <2>2 DEF FitAll, Fit, Value
<1> QED
  BY <1>1, <1>2

LEMMA PassedIs ==
    ASSUME NEW args, FitAll(args)
    PROVE  \A i \in 1 .. Len(args) : PassedIn(args[i]) \in Passed(args)
                                     /\ Held(Passed(args))[PassedIn(args[i])] = 1
<1> SUFFICES ASSUME NEW i \in 1 .. Len(args)
             PROVE  PassedIn(args[i]) \in Passed(args) /\ Held(Passed(args))[PassedIn(args[i])] = 1
  OBVIOUS
<1>1. PassedIn(args[i]) \in Passed(args)
  BY DEF FitAll, PassedIn, Passed
<1>2. PassedIn(args[i]) \in Keys \cup Vals
  BY PassedInIs DEF FitAll
<1> QED
  BY <1>1, <1>2 DEF Held

\* A table that is filled while the caller holds the arguments
LEMMA FilledIs ==
    ASSUME NEW u, Settled(u), NEW args, FitAll(args), Referred(u, Held(Passed(args))),
           kind \in AllKinds
    PROVE  LET w == LettingGo(AddAll(u, args), Passed(args))
           IN  /\ Made(w, Nobody, Map!AddedAll(Contents(u), args))
               /\ (\A i \in 1 .. Len(args) : ~ Missing(u, args[i][1])) => Linked(u, w)
<1> DEFINE S == Passed(args)
           w == AddAll(u, args)
<1>1. \A i \in 1 .. Len(args) : Fit(args[i]) /\ Held(S)[PassedIn(args[i])] >= 1
  BY PassedIs DEF FitAll
<1>2. Len(args) \in Nat /\ kind \in {"dictionary", "set", "counted"}
  BY DEF FitAll, AllKinds
<1> HIDE DEF S, w
<1>3. Referred(u, Held(S))
  BY DEF S
<1> DEFINE d == Held(S)
<1>4. \A i \in 1 .. Len(args) : Fit(args[i]) /\ d[PassedIn(args[i])] >= 1
  BY <1>1
<1>5. Referred(u, d)
  BY <1>3
<1> HIDE DEF d
<1>6. Made(w, d, Map!AddedAll(Contents(u), args))
  BY <1>2, <1>4, <1>5, AddAllIs DEF w
<1>7. Settled(w) /\ Referred(w, Held(S)) /\ Contents(w) = Map!AddedAll(Contents(u), args)
  BY <1>6 DEF Made, d
<1>8. Made(LettingGo(w, S), Nobody, Contents(w)) /\ Linked(w, LettingGo(w, S))
  BY <1>7, LettingGoIs
<1>9. (\A i \in 1 .. Len(args) : ~ Missing(u, args[i][1])) => Linked(u, w)
  BY <1>2, <1>4, <1>5, AddAllLasts DEF w
<1> QED
  BY <1>7, <1>8, <1>9, LinkedTwice DEF w, S

-----------------------------------------------------------------------------
(* The calls *)

\* The table is right, and what it holds is all that is referred to.
TableIsRight == kind \in Kinds /\ Settled(t) /\ Referred(t, Nobody)

LEMMA KindIs ==
    ASSUME kind \in Kinds
    PROVE  kind \in AllKinds
BY KindAssumption DEF AllKinds

\* What a call leaves is what the next one finds.
LEMMA Left ==
    ASSUME kind \in Kinds, kind' = kind, NEW c, Made(t', Nobody, c)
    PROVE  TableIsRight' /\ Contents(t)' = c
<1>1. Settled(t') /\ Referred(t', Nobody) /\ Contents(t') = c
  BY DEF Made
<1>2. Contents(t)' = Contents(t')
  BY DEF Contents
<1>3. Used(t)' = Used(t')
  BY DEF Used
<1>4. Settled(t)'
  BY <1>1 DEF Settled, NotDue, Right, Pool
<1>5. Referred(t, Nobody)'
  BY <1>1 DEF Referred, Holds
<1> QED
  BY <1>1, <1>2, <1>4, <1>5 DEF TableIsRight

LEMMA InitIsRight ==
    ASSUME Init
    PROVE  TableIsRight /\ Map!Init
<1> DEFINE w == NewTable(0, Nobody)
<1>1. Nobody \in [Keys \cup Vals -> Int]
  BY DEF Nobody
<1>2. Settled(w) /\ Contents(w) = Map!Empty /\ Referred(w, Nobody)
  BY <1>1, NewTableIs
<1>3. t = w
  BY DEF Init, Nobody
<1> HIDE DEF w
<1> QED
  BY <1>2, <1>3 DEF Init, Map!Init, TableIsRight

\* What a step does to the enumerator: it goes, or nothing moves, or it goes on by itself.
Passes ==
    \/ e' = Nil
    \/ e' = e /\ Linked(t, t')
    \/ t' = t /\ (BeginEnumeration \/ EnumerateNext)

\* A step of the table that the map makes as well
Step == TableIsRight' /\ Map!Next /\ Passes

\* A call with keys that are all there keeps the enumerator.
LEMMA KeysThere ==
    ASSUME Right(t), NEW args, FitAll(args), NEW held, NEW after, Call("add", args, held, after)
    PROVE  e' = Nil \/ (e' = e /\ \A i \in 1 .. Len(args) : ~ Missing(t, args[i][1]))
<1>1. e' = IF \A i \in 1 .. Len(args) : BucketFor(t, args[i][1]) # Nil THEN e ELSE Nil
  BY DEF Call, FitAll
<1>2. ASSUME NEW i \in 1 .. Len(args), BucketFor(t, args[i][1]) # Nil
      PROVE  ~ Missing(t, args[i][1])
  <2>1. args[i][1] \in Keys
    BY DEF FitAll, Fit
  <2> DEFINE k == args[i][1]
  <2> HIDE DEF k
  <2>2. k \in Keys /\ BucketFor(t, k) # Nil
    BY <1>2, <2>1 DEF k
  <2>3. \E c \in Used(t) : t.cells[c].key = k
    BY <2>2, LookupIs
  <2> QED
    BY <2>3 DEF Missing, k
<1> QED
  BY <1>1, <1>2

LEMMA OneArgument ==
    ASSUME NEW c, NEW arg
    PROVE  Map!AddedAll(c, <<arg>>) = Map!Added(c, arg)
<1> DEFINE s == <<arg>>
<1>0. Len(s) \in Nat
  OBVIOUS
<1>1. Len(s) = 1 /\ s[1] = arg
  OBVIOUS
<1> HIDE DEF s
<1>2. PICK made : /\ made[0] = c /\ Map!AddedAll(c, s) = made[Len(s)]
                  /\ \A i \in 1 .. Len(s) : made[i] = Map!Added(made[i - 1], s[i])
  BY <1>0, AddedAllUnfolds
<1>3. made[1] = Map!Added(made[1 - 1], s[1])
  BY <1>1, <1>2
<1>4. Map!AddedAll(c, s) = Map!Added(c, arg)
  BY <1>1, <1>2, <1>3
<1> QED
  BY <1>4 DEF s

LEMMA AddStep ==
    ASSUME TableIsRight, NEW k \in Keys, NEW v \in Vals, ClientAdd(k, v)
    PROVE  Step
<1> DEFINE arg == <<k, v>>
           args == <<arg>>
           held == {x \in Passed(args) : t.refs[x] = 0}
           u == Taken(t, held)
           w == Add(u, arg)
           d == Held(held)
<1>1. kind \in AllKinds /\ kind \in {"dictionary", "set", "counted"}
  BY KindIs DEF TableIsRight, AllKinds
<1>2. Fit(arg) /\ PassedIn(arg) \in Passed(args)
  BY DEF Fit, PassedIn, Passed
<1>3. /\ t' = LettingGo(w, held) /\ last' = [op |-> "add", args |-> args] /\ kind' = kind
  BY DEF ClientAdd, Call
<1>4. Settled(t) /\ Right(t) /\ Referred(t, Nobody) /\ kind \in Kinds
  BY DEF TableIsRight, Settled
<1>a. e' = Nil \/ (e' = e /\ ~ Missing(t, k))
  <2>1. FitAll(args)
    BY <1>2 DEF FitAll
  <2>2. Call("add", args, held, w)
    BY DEF ClientAdd
  <2> HIDE DEF args, held, w
  <2>3. e' = Nil \/ (e' = e /\ \A i \in 1 .. Len(args) : ~ Missing(t, args[i][1]))
    BY <1>4, <2>1, <2>2, KeysThere
  <2>4. 1 \in 1 .. Len(args) /\ args[1][1] = k
    BY DEF args
  <2> QED
    BY <2>3, <2>4
<1>5. /\ Made(u, d, Contents(t)) /\ Linked(t, u)
      /\ \A x \in Keys \cup Vals : u.refs[x] = IF x \in held THEN t.refs[x] + 1 ELSE t.refs[x]
  <2> HIDE DEF held
  <2> QED
    BY <1>4, TakenIs
<1>6. u.refs[PassedIn(arg)] >= 1
  <2> DEFINE x == PassedIn(arg)
  <2>1. x \in Keys \cup Vals
    BY <1>2, PassedInIs
  <2>2. t.refs[x] \in Int /\ t.refs[x] >= Nobody[x] /\ Nobody[x] = 0
    BY <1>4, <2>1, ReferredAtLeast DEF Nobody
  <2>3. t.refs[x] = 0 => x \in held
    BY <1>2
  <2> HIDE DEF x, held, u
  <2>4. u.refs[x] >= 1
    BY <1>5, <2>1, <2>2, <2>3
  <2> QED
    BY <2>4 DEF x
<1> HIDE DEF held, u
<1>7. Made(w, d, Map!Added(Contents(t), arg)) /\ (e' # Nil => Linked(u, w))
  <2>1. Right(u) /\ NotDue(u) /\ Referred(u, d) /\ Contents(u) = Contents(t)
    BY <1>5 DEF Made, Settled
  <2>a. e' # Nil => ~ Missing(u, k)
    BY <1>5, <1>a DEF Missing, Linked, Used
  <2>b. arg[1] = k
    OBVIOUS
  <2> HIDE DEF arg, d
  <2>2. Made(Add(u, arg), d, Map!Added(Contents(u), arg)) /\ Lasts(u, arg[1], Add(u, arg))
    BY <1>1, <1>2, <1>6, <2>1, AddIs
  <2> QED
    BY <2>1, <2>2, <2>a, <2>b DEF Lasts
<1> HIDE DEF w, arg
<1>8. Settled(w) /\ Referred(w, d) /\ Contents(w) = Map!Added(Contents(t), arg)
  BY <1>7 DEF Made
<1>9. Made(t', Nobody, Map!Added(Contents(t), arg)) /\ Linked(w, t')
  BY <1>3, <1>8, LettingGoIs
<1>10. TableIsRight' /\ Contents(t)' = Map!Added(Contents(t), arg)
  BY <1>3, <1>4, <1>9, Left
<1>11. last'.op = "add" /\ Contents(t)' = Map!AddedAll(Contents(t), last'.args)
  BY <1>3, <1>10, OneArgument
<1>12. Passes
  <2>1. e' # Nil => Linked(t, w)
    BY <1>5, <1>7, LinkedTwice
  <2> QED
    BY <1>9, <1>a, <2>1, LinkedTwice DEF Passes
<1> QED
  BY <1>3, <1>10, <1>11, <1>12 DEF Map!Next, Step

LEMMA AddAllStep ==
    ASSUME TableIsRight, ClientAddAll
    PROVE  Step
<1>1. PICK args \in Others \cup {Arguments(t)} :
         Call("add", args, Passed(args), AddAll(Taken(t, Passed(args)), args))
  BY DEF ClientAddAll
<1> DEFINE S == Passed(args)
           u == Taken(t, S)
           w == LettingGo(AddAll(u, args), S)
<1>2. Settled(t) /\ Right(t) /\ Referred(t, Nobody) /\ kind \in Kinds /\ kind \in AllKinds
  BY KindIs DEF TableIsRight, Settled
<1>3. FitAll(args)
  BY <1>1, <1>2, ArgumentsFit
<1>4. t' = w /\ last' = [op |-> "add", args |-> args] /\ kind' = kind
  BY <1>1 DEF Call
<1>5. Made(u, Held(S), Contents(t)) /\ Linked(t, u)
  BY <1>2, TakenIs
<1> HIDE DEF u
<1>6. Settled(u) /\ Referred(u, Held(S)) /\ Contents(u) = Contents(t)
  BY <1>5 DEF Made
<1>7. /\ Made(w, Nobody, Map!AddedAll(Contents(u), args))
      /\ (\A i \in 1 .. Len(args) : ~ Missing(u, args[i][1])) => Linked(u, w)
  BY <1>2, <1>3, <1>6, FilledIs
<1> HIDE DEF w
<1>8. Made(t', Nobody, Map!AddedAll(Contents(t), args))
  BY <1>4, <1>6, <1>7
<1>9. TableIsRight' /\ Contents(t)' = Map!AddedAll(Contents(t), args)
  BY <1>2, <1>4, <1>8, Left
<1>10. Passes
  <2>1. e' = Nil \/ (e' = e /\ \A i \in 1 .. Len(args) : ~ Missing(t, args[i][1]))
    BY <1>1, <1>2, <1>3, KeysThere
  <2>2. \A k : Missing(u, k) <=> Missing(t, k)
    BY <1>5 DEF Missing, Linked, Used
  <2>3. e' # Nil => Linked(u, t')
    BY <1>4, <1>7, <2>1, <2>2
  <2> QED
    BY <1>5, <2>1, <2>3, LinkedTwice DEF Passes
<1> QED
  BY <1>4, <1>9, <1>10 DEF Map!Next, Step

LEMMA RemoveStep ==
    ASSUME TableIsRight, NEW k \in Keys, ClientRemove(k)
    PROVE  Step
<1> DEFINE w == RemoveData(t, k)
<1>1. /\ t' = LettingGo(w, {}) /\ last' = [op |-> "remove", args |-> <<<<k, Nil>>>>] /\ kind' = kind
      /\ Passes
  BY DEF ClientRemove, Call, Passes
<1>2. Right(t) /\ Referred(t, Nobody) /\ kind \in Kinds /\ kind \in {"dictionary", "set", "counted"}
  BY KindIs DEF TableIsRight, AllKinds, Settled
<1>3. Nobody = Held({})
  BY DEF Nobody, Held
<1>4. Made(w, Nobody, Map!Gone(Contents(t), k))
  BY <1>2, RemoveDataIs
<1> HIDE DEF w
<1>5. Settled(w) /\ Referred(w, Held({})) /\ Contents(w) = Map!Gone(Contents(t), k)
  BY <1>3, <1>4 DEF Made
<1>6. Made(t', Nobody, Map!Gone(Contents(t), k))
  BY <1>1, <1>5, LettingGoIs
<1>7. TableIsRight' /\ Contents(t)' = Map!Gone(Contents(t), k)
  BY <1>1, <1>2, <1>6, Left
<1>8. last'.op = "remove" /\ last'.args[1][1] = k
  BY <1>1
<1> QED
  BY <1>1, <1>7, <1>8 DEF Map!Next, Step

LEMMA SetStep ==
    ASSUME TableIsRight, ClientSet
    PROVE  Step
<1>1. PICK args \in Others \cup {<<>>} :
         Call("set", args, Passed(args), AddAll(RemoveAllData(Taken(t, Passed(args))), args))
  BY DEF ClientSet
<1> DEFINE S == Passed(args)
           u == Taken(t, S)
           v == RemoveAllData(u)
           w == LettingGo(AddAll(v, args), S)
<1>2. Settled(t) /\ Referred(t, Nobody) /\ kind \in Kinds /\ kind \in AllKinds
  BY KindIs DEF TableIsRight
<1>3. FitAll(args)
  BY <1>1, ArgumentsFit
<1>4. t' = w /\ last' = [op |-> "set", args |-> args] /\ kind' = kind /\ Passes
  BY <1>1 DEF Call, Passes
<1>5. Made(u, Held(S), Contents(t))
  BY <1>2, TakenIs
<1> HIDE DEF u
<1>6. Right(u) /\ Referred(u, Held(S))
  BY <1>5 DEF Made, Settled
<1>7. Settled(v) /\ Right(v) /\ Used(v) = {} /\ Referred(v, Held(S))
  BY <1>6, RemoveAllDataIs DEF Settled
<1> HIDE DEF v
<1>8. Contents(v) = Map!Empty
  BY <1>7, ContentsAre DEF Contents, Map!Empty
<1>9. Made(w, Nobody, Map!AddedAll(Contents(v), args))
  BY <1>2, <1>3, <1>7, FilledIs
<1> HIDE DEF w
<1>10. Made(t', Nobody, Map!AddedAll(Map!Empty, args))
  BY <1>4, <1>8, <1>9
<1>11. TableIsRight' /\ Contents(t)' = Map!AddedAll(Map!Empty, args)
  BY <1>2, <1>4, <1>10, Left
<1> QED
  BY <1>4, <1>11 DEF Map!Next, Step

LEMMA CreateStep ==
    ASSUME TableIsRight, ClientCreate
    PROVE  Step
<1>1. PICK args \in Others, capacity \in {0, 2} :
         Call("set", args, Passed(args),
              AddAll(NewTable(capacity, Dealloc(Taken(t, Passed(args)))), args))
  BY DEF ClientCreate
<1> DEFINE S == Passed(args)
           u == Taken(t, S)
           r == Dealloc(u)
           v == NewTable(capacity, r)
           w == LettingGo(AddAll(v, args), S)
<1>2. Settled(t) /\ Referred(t, Nobody) /\ kind \in Kinds /\ kind \in AllKinds
  BY KindIs DEF TableIsRight
<1>3. FitAll(args)
  BY ArgumentsFit
<1>4. t' = w /\ last' = [op |-> "set", args |-> args] /\ kind' = kind /\ Passes
  BY <1>1 DEF Call, Passes
<1>5. Made(u, Held(S), Contents(t))
  BY <1>2, TakenIs
<1> HIDE DEF u
<1>6. Right(u) /\ Referred(u, Held(S))
  BY <1>5 DEF Made, Settled
<1>7. r \in [Keys \cup Vals -> Int] /\ \A x \in Keys \cup Vals : r[x] = Held(S)[x]
  <2> DEFINE d == Held(S)
  <2>1. Referred(u, d)
    BY <1>6
  <2> HIDE DEF d
  <2>2. r \in [Keys \cup Vals -> Int] /\ \A x \in Keys \cup Vals : r[x] = d[x]
    BY <1>6, <2>1, DeallocIs
  <2> QED
    BY <2>2 DEF d
<1> HIDE DEF r
<1>8. Settled(v) /\ Used(v) = {} /\ Contents(v) = Map!Empty /\ Referred(v, r)
  <2>1. capacity \in Nat
    OBVIOUS
  <2> QED
    BY <1>7, <2>1, NewTableIs
<1> HIDE DEF v
<1>9. Referred(v, Held(S))
  BY <1>7, <1>8 DEF Referred
<1>10. Made(w, Nobody, Map!AddedAll(Contents(v), args))
  BY <1>2, <1>3, <1>8, <1>9, FilledIs
<1> HIDE DEF w
<1>11. Made(t', Nobody, Map!AddedAll(Map!Empty, args))
  BY <1>4, <1>8, <1>10
<1>12. TableIsRight' /\ Contents(t)' = Map!AddedAll(Map!Empty, args)
  BY <1>2, <1>4, <1>11, Left
<1> QED
  BY <1>4, <1>12 DEF Map!Next, Step

\* The references that are left of two tables when the one is deallocated
LEMMA Deallocated ==
    ASSUME NEW u, Right(u), Referred(u, Nobody), NEW w, Settled(w), Referred(w, u.refs)
    PROVE  Made([w EXCEPT !.refs = Dealloc([u EXCEPT !.refs = w.refs])], Nobody, Contents(w))
<1> DEFINE d == [x \in Keys \cup Vals |-> Cardinality(Holds(w, x))]
           y == [u EXCEPT !.refs = w.refs]
           r == Dealloc(y)
           z == [w EXCEPT !.refs = r]
<1>0. Right(w)
  BY DEF Settled
<1>1. w.refs \in [Keys \cup Vals -> Int]
  BY <1>0 DEF Right, Pool, Table
<1>2. Right(y) /\ y.refs = w.refs /\ Kept(u, y, Used(u))
  BY <1>1, RefsIs
<1> HIDE DEF y
<1>3. \A x : Holds(y, x) = Holds(u, x)
  BY <1>2 DEF Holds, Kept
<1>4. \A x \in Keys \cup Vals : d[x] = Cardinality(Holds(w, x)) /\ d[x] \in Nat
  BY <1>0, HoldsFinite DEF Right
<1> HIDE DEF d
<1>5. Referred(y, d)
  <2> SUFFICES ASSUME NEW x \in Keys \cup Vals
               PROVE  d[x] \in Int /\ y.refs[x] = Cardinality(Holds(y, x)) + d[x]
    BY DEF Referred
  <2>1. w.refs[x] = Cardinality(Holds(w, x)) + u.refs[x]
    BY DEF Referred
  <2>2. u.refs[x] = Cardinality(Holds(u, x)) + 0
    BY DEF Referred, Nobody
  <2>3. Cardinality(Holds(u, x)) \in Nat
    BY HoldsFinite DEF Right
  <2> QED
    BY <1>2, <1>3, <1>4, <2>1, <2>2, <2>3
<1>6. r \in [Keys \cup Vals -> Int] /\ \A x \in Keys \cup Vals : r[x] = d[x]
  BY <1>2, <1>5, DeallocIs
<1> HIDE DEF r
<1>7. Right(z) /\ z.refs = r /\ Kept(w, z, Used(w)) /\ Linked(w, z)
  BY <1>0, <1>6, RefsIs
<1> HIDE DEF z
<1>8. Contents(z) = Contents(w)
  BY <1>0, <1>7, KeptContents
<1>9. \A x : Holds(z, x) = Holds(w, x)
  BY <1>7 DEF Holds, Kept
<1>10. Referred(z, Nobody)
  <2> SUFFICES ASSUME NEW x \in Keys \cup Vals
               PROVE  Nobody[x] \in Int /\ z.refs[x] = Cardinality(Holds(z, x)) + Nobody[x]
    BY DEF Referred
  <2>1. Nobody[x] = 0
    BY DEF Nobody
  <2> QED
    BY <1>4, <1>6, <1>7, <1>9, <2>1
<1>11. Made(z, Nobody, Contents(w))
  BY <1>7, <1>8, <1>10, LinkedSettled DEF Made
<1> QED
  BY <1>11 DEF z, r, y

LEMMA CopyStep ==
    ASSUME TableIsRight, ClientCopy
    PROVE  Step
<1> DEFINE v == NewTable(t.count, t.refs)
           copy == Copied(v, Arguments(t))
           w == [copy EXCEPT !.refs = Dealloc([t EXCEPT !.refs = copy.refs])]
<1>1. /\ t' = LettingGo(w, {}) /\ last' = [op |-> "copy", args |-> <<>>] /\ kind' = kind
      /\ Passes
  BY DEF ClientCopy, Call, Passes
<1>2. Right(t) /\ Referred(t, Nobody) /\ kind \in Kinds /\ kind \in {"dictionary", "set", "counted"}
  BY KindIs DEF TableIsRight, AllKinds, Settled
<1>3. t.count \in Nat /\ t.refs \in [Keys \cup Vals -> Int]
  BY <1>2, UsedFinite DEF Right, Pool, Table
<1>4. Settled(v) /\ Contents(v) = Map!Empty /\ Referred(v, t.refs)
  BY <1>3, NewTableIs
<1>5. \A n \in 1 .. Len(Arguments(t)) : t.refs[PassedIn(Arguments(t)[n])] >= 1
  <2> SUFFICES ASSUME NEW n \in 1 .. Len(Arguments(t))
               PROVE  t.refs[PassedIn(Arguments(t)[n])] >= 1
    OBVIOUS
  <2> DEFINE c == Entries(t)[n]
             x == PassedIn(Arguments(t)[n])
  <2>1. c \in Used(t) /\ Arguments(t)[n] = <<t.cells[c].key, t.cells[c].val>>
    BY <1>2, ArgumentsAre
  <2>2. x = IF kind = "dictionary" THEN t.cells[c].val ELSE t.cells[c].key
    BY <2>1 DEF PassedIn
  <2> HIDE DEF c, x
  <2>3. t.cells[c].key \in Keys /\ t.cells[c].val \in Value
    BY <1>2, <2>1, UsedCells
  <2>4. x \in Keys \cup Vals /\ c \in Holds(t, x)
    BY <2>1, <2>2, <2>3 DEF Value, Holds
  <2>5. t.refs[x] >= Nobody[x] + 1 /\ Nobody[x] = 0
    BY <1>2, <2>1, <2>4, ReferredAtLeast DEF Nobody
  <2> QED
    BY <2>5 DEF x
<1> HIDE DEF v
<1>6. Made(copy, t.refs, Contents(t))
  <2> DEFINE d == t.refs
  <2>1. Referred(v, d) /\ \A n \in 1 .. Len(Arguments(t)) : d[PassedIn(Arguments(t)[n])] >= 1
    BY <1>4, <1>5
  <2> HIDE DEF d
  <2>2. Made(copy, d, Contents(t))
    BY <1>2, <1>4, <2>1, CopiedIs
  <2> QED
    BY <2>2 DEF d
<1> HIDE DEF copy
<1>7. Settled(copy) /\ Referred(copy, t.refs) /\ Contents(copy) = Contents(t)
  BY <1>6 DEF Made
<1>8. Made(w, Nobody, Contents(t))
  BY <1>2, <1>7, Deallocated
<1> HIDE DEF w
<1>9. Settled(w) /\ Referred(w, Held({})) /\ Contents(w) = Contents(t)
  <2>1. Nobody = Held({})
    BY DEF Nobody, Held
  <2> QED
    BY <1>8, <2>1 DEF Made
<1>10. Made(t', Nobody, Contents(t))
  BY <1>1, <1>9, LettingGoIs
<1>11. TableIsRight' /\ Contents(t)' = Contents(t)
  BY <1>1, <1>2, <1>10, Left
<1> QED
  BY <1>1, <1>11 DEF Map!Next, Step

\* What leaves the table alone
LEMMA UnchangedStep ==
    ASSUME TableIsRight, UNCHANGED <<kind, t>>
    PROVE  TableIsRight' /\ Contents(t)' = Contents(t)
<1>1. Made(t', Nobody, Contents(t)) /\ kind \in Kinds /\ kind' = kind
  BY DEF TableIsRight, Made
<1> QED
  BY <1>1, Left

LEMMA EnumeratorStep ==
    ASSUME TableIsRight, BeginEnumeration \/ EnumerateNext \/ EndEnumeration
    PROVE  Step
<1>1. UNCHANGED <<kind, t>> /\ last'.op = "none" /\ Passes
  BY DEF BeginEnumeration, EnumerateNext, EndEnumeration, Passes
<1>2. TableIsRight' /\ Contents(t)' = Contents(t)
  BY <1>1, UnchangedStep
<1> QED
  BY <1>1, <1>2 DEF Map!Next, Step

LEMMA NextStep ==
    ASSUME TableIsRight, [Next]_vars
    PROVE  TableIsRight' /\ [Map!Next]_<<kind, Contents(t), last>> /\ Passes
<1>1. ASSUME Step PROVE TableIsRight' /\ [Map!Next]_<<kind, Contents(t), last>> /\ Passes
  BY <1>1 DEF Step
<1>2. ASSUME NEW k \in Keys, ClientRemove(k) PROVE Step
  BY <1>2, RemoveStep
<1>3. ASSUME NEW k \in Keys, NEW v \in Vals, ClientAdd(k, v) PROVE Step
  BY <1>3, AddStep
<1>4. ASSUME ClientAddAll PROVE Step
  BY <1>4, AddAllStep
<1>5. ASSUME ClientSet PROVE Step
  BY <1>5, SetStep
<1>6. ASSUME ClientCreate PROVE Step
  BY <1>6, CreateStep
<1>7. ASSUME ClientCopy PROVE Step
  BY <1>7, CopyStep
<1>8. ASSUME BeginEnumeration \/ EnumerateNext \/ EndEnumeration PROVE Step
  BY <1>8, EnumeratorStep
<1>9. ASSUME UNCHANGED vars PROVE TableIsRight' /\ [Map!Next]_<<kind, Contents(t), last>> /\ Passes
  <2>1. UNCHANGED <<kind, t>> /\ last' = last /\ Passes
    BY <1>9 DEF vars, Passes, Linked
  <2>2. TableIsRight' /\ Contents(t)' = Contents(t)
    BY <2>1, UnchangedStep
  <2> QED
    BY <2>1, <2>2
<1> QED
  BY <1>1, <1>2, <1>3, <1>4, <1>5, <1>6, <1>7, <1>8, <1>9 DEF Next

LEMMA AlwaysRight == Spec => []TableIsRight
<1>1. Init => TableIsRight
  BY InitIsRight
<1>2. TableIsRight /\ [Next]_vars => TableIsRight'
  BY NextStep
<1> QED
  BY <1>1, <1>2, PTL DEF Spec

\* A dictionary, a set and a counted set are maps: whatever the hash callback gives, however
\* chains, resizes and recycled cells fall, each call of the code changes what lookups find as
\* its arguments say.
THEOREM TableImplementsMap == Spec => Implements
<1>1. Init => Map!Init
  BY InitIsRight
<1>2. TableIsRight /\ [Next]_vars => [Map!Next]_<<kind, Contents(t), last>>
  BY NextStep
<1> QED
  BY <1>1, <1>2, AlwaysRight, PTL DEF Spec, Implements, Map!Spec

-----------------------------------------------------------------------------
(* Every cell is in one place *)

\* An injective sequence has as many elements as its length.
LEMMA InjectiveRange ==
    ASSUME NEW S, NEW p \in Seq(S), Injective(p)
    PROVE  /\ IsFiniteSet(Range(p)) /\ Cardinality(Range(p)) = Len(p)
           /\ Range(p) = {p[i] : i \in 1 .. Len(p)}
<1>1. Len(p) \in Nat /\ DOMAIN p = 1 .. Len(p) /\ p = [i \in 1 .. Len(p) |-> p[i]]
  OBVIOUS
<1>2. Range(p) = {p[i] : i \in 1 .. Len(p)}
  BY <1>1 DEF Range
<1>3. p \in [1 .. Len(p) -> Range(p)]
  BY <1>1, <1>2
<1>4. \A y \in Range(p) : \E i \in 1 .. Len(p) : p[i] = y
  BY <1>2
<1>5. p \in Bijection(1 .. Len(p), Range(p))
  BY <1>3, <1>4 DEF Injective, Bijection, Injection, Surjection, IsInjective
<1>6. ExistsBijection(1 .. Len(p), Range(p))
  BY <1>5 DEF ExistsBijection
<1>7. IsFiniteSet(1 .. Len(p)) /\ Cardinality(1 .. Len(p)) = Len(p)
  <2>1. 1 \in Int /\ Len(p) \in Int
    BY <1>1
  <2>2. IsFiniteSet(1 .. Len(p)) /\ Cardinality(1 .. Len(p)) = IF 1 > Len(p) THEN 0 ELSE Len(p) - 1 + 1
    BY <2>1, FS_Interval
  <2> QED
    BY <1>1, <2>2
<1> QED
  BY <1>2, <1>6, <1>7, FS_Bijection

LEMMA EntriesRange ==
    ASSUME NEW u, Right(u)
    PROVE  Range(Entries(u)) = Used(u) /\ u.count = Len(Entries(u))
<1>1. /\ Entries(u) \in Seq(DOMAIN u.cells) /\ Injective(Entries(u))
      /\ \A n \in 1 .. Len(Entries(u)) : Entries(u)[n] \in Used(u)
      /\ \A c \in Used(u) : \E n \in 1 .. Len(Entries(u)) : Entries(u)[n] = c
  BY EntriesAre
<1> DEFINE s == Entries(u)
<1> HIDE DEF s
<1>2. Cardinality(Range(s)) = Len(s) /\ Range(s) = {s[i] : i \in 1 .. Len(s)}
  BY <1>1, InjectiveRange DEF s
<1>3. Range(s) = Used(u)
  BY <1>1, <1>2 DEF s
<1>4. u.count = Cardinality(Used(u))
  BY DEF Right, Pool
<1> QED
  BY <1>2, <1>3, <1>4 DEF s

LEMMA EveryCellOnce ==
    ASSUME NEW u, Right(u)
    PROVE  LET all == Entries(u) \o u.free
           IN  Cardinality(Range(all)) = Len(all) /\ Range(all) = DOMAIN u.cells
<1> DEFINE s == Entries(u)
           f == u.free
           all == s \o f
           D == DOMAIN u.cells
<1>1. /\ s \in Seq(D) /\ Injective(s) /\ \A n \in 1 .. Len(s) : s[n] \in Used(u)
      /\ \A c \in Used(u) : \E n \in 1 .. Len(s) : s[n] = c
  BY EntriesAre
<1>2. /\ f \in Seq(Nat) /\ Injective(f)
      /\ \A i \in 1 .. Len(f) : f[i] \in D \ Used(u)
      /\ \A c \in D \ Used(u) : \E i \in 1 .. Len(f) : f[i] = c
  BY DEF Right, Pool, Table
<1>3. Used(u) \subseteq D
  BY DEF Used
<1> HIDE DEF s, f, D
<1>4. f \in Seq(D)
  <2>1. Len(f) \in Nat /\ f = [i \in 1 .. Len(f) |-> f[i]] /\ \A i \in 1 .. Len(f) : f[i] \in D
    BY <1>2
  <2> QED
    BY <2>1
<1>5. /\ all \in Seq(D) /\ Len(all) = Len(s) + Len(f) /\ Len(s) \in Nat /\ Len(f) \in Nat
      /\ \A i \in 1 .. Len(all) : all[i] = IF i <= Len(s) THEN s[i] ELSE f[i - Len(s)]
  BY <1>1, <1>4, ConcatProperties
<1> HIDE DEF all
<1>6. \A i \in 1 .. Len(all) : \/ i \in 1 .. Len(s) /\ all[i] = s[i]
                               \/ i - Len(s) \in 1 .. Len(f) /\ all[i] = f[i - Len(s)]
  BY <1>5
<1>7. Injective(all)
  <2> SUFFICES ASSUME NEW i \in 1 .. Len(all), NEW j \in 1 .. Len(all), all[i] = all[j]
               PROVE  i = j
    BY DEF Injective
  <2>1. CASE i \in 1 .. Len(s) /\ all[i] = s[i] /\ j \in 1 .. Len(s) /\ all[j] = s[j]
    BY <1>1, <2>1 DEF Injective
  <2>2. CASE /\ i - Len(s) \in 1 .. Len(f) /\ all[i] = f[i - Len(s)]
             /\ j - Len(s) \in 1 .. Len(f) /\ all[j] = f[j - Len(s)]
    <3>1. i - Len(s) = j - Len(s)
      BY <1>2, <2>2 DEF Injective
    <3> QED
      BY <1>5, <3>1
  <2>3. CASE \/ i \in 1 .. Len(s) /\ all[i] = s[i] /\ j - Len(s) \in 1 .. Len(f) /\ all[j] = f[j - Len(s)]
             \/ j \in 1 .. Len(s) /\ all[j] = s[j] /\ i - Len(s) \in 1 .. Len(f) /\ all[i] = f[i - Len(s)]
    BY <1>1, <1>2, <2>3
  <2> QED
    BY <1>6, <2>1, <2>2, <2>3
<1>8. Cardinality(Range(all)) = Len(all) /\ Range(all) = {all[i] : i \in 1 .. Len(all)}
  BY <1>5, <1>7, InjectiveRange
<1>9. ASSUME NEW c \in D PROVE \E i \in 1 .. Len(all) : all[i] = c
  <2>1. CASE c \in Used(u)
    <3>1. PICK n \in 1 .. Len(s) : s[n] = c
      BY <1>1, <2>1
    <3>2. n \in 1 .. Len(all) /\ all[n] = s[n]
      BY <1>5
    <3> QED
      BY <3>1, <3>2
  <2>2. CASE c \notin Used(u)
    <3>1. PICK n \in 1 .. Len(f) : f[n] = c
      BY <1>2, <2>2
    <3> DEFINE i == n + Len(s)
    <3>2. i \in 1 .. Len(all) /\ i - Len(s) = n /\ ~ (i <= Len(s))
      BY <1>5
    <3> HIDE DEF i
    <3>3. all[i] = f[n]
      BY <1>5, <3>2
    <3> QED
      BY <3>1, <3>2, <3>3
  <2> QED
    BY <2>1, <2>2
<1>10. \A i \in 1 .. Len(all) : all[i] \in D
  BY <1>5
<1>11. Range(all) = D
  BY <1>8, <1>9, <1>10
<1> QED
  BY <1>8, <1>11 DEF all, s, f, D

LEMMA RightTypeOK ==
    ASSUME TableIsRight
    PROVE  TypeOK
<1>1. kind \in Kinds /\ Right(t) /\ Pool(t)
  BY DEF TableIsRight, Settled, Right
<1>2. /\ t.size \in Nat \ {0} /\ DOMAIN t.heads = 0 .. t.size - 1
      /\ t.cells \in Seq(Cell) /\ \A c \in DOMAIN t.cells : t.cells[c] \in Cell
  BY <1>1, TableParts
<1>3. t.size = Cardinality(DOMAIN t.heads)
  <2>1. 0 \in Int /\ t.size - 1 \in Int
    BY <1>2
  <2>2. Cardinality(0 .. t.size - 1) = IF 0 > t.size - 1 THEN 0 ELSE t.size - 1 - 0 + 1
    BY <2>1, FS_Interval
  <2> QED
    BY <1>2, <2>2
<1>4. Range(Entries(t)) = Used(t) /\ t.count = Len(Entries(t))
  BY <1>1, EntriesRange
<1>5. PICK ch : Chained(t, ch, {})
  BY <1>1 DEF Right
<1>6. ASSUME NEW c \in DOMAIN t.cells
      PROVE  t.cells[c].key \in Keys \cup {Nil} /\ t.cells[c].next \in DOMAIN t.cells \cup {Nil}
  <2>1. t.cells[c].key \in Keys \cup {Nil}
    BY <1>2 DEF Cell
  <2>2. CASE t.cells[c].key = Nil
    BY <1>1, <2>1, <2>2 DEF Pool
  <2>3. CASE c \in Used(t)
    <3> DEFINE i == Index(t, t.cells[c].key)
               p == ch[i]
    <3>1. i \in 0 .. t.size - 1
      <4>1. t.cells[c].key \in Keys
        BY <1>1, <2>3, UsedCells
      <4> QED
        BY <1>2, <4>1, IndexInRange
    <3>2. PICK n \in 1 .. Len(p) : p[n] = c
      BY <1>5, <2>3 DEF Chained
    <3>3. p \in Seq(DOMAIN t.cells) /\ Path(t, t.heads[i], p)
      BY <1>5, <3>1 DEF Chained
    <3> HIDE DEF p, i
    <3>4. t.cells[c].next = IF n = Len(p) THEN Nil ELSE p[n + 1]
      BY <3>2, <3>3 DEF Path
    <3>5. n # Len(p) => p[n + 1] \in DOMAIN t.cells
      <4>1. n # Len(p) => n + 1 \in 1 .. Len(p)
        BY <3>3
      <4> QED
        BY <3>3, <4>1
    <3> QED
      BY <2>1, <3>4, <3>5
  <2> QED
    BY <2>1, <2>2, <2>3 DEF Used
<1>7. ASSUME NEW i \in DOMAIN t.heads, NEW c \in Range(Chain(t, t.heads[i]))
      PROVE  Index(t, t.cells[c].key) = i
  <2>1. i \in 0 .. t.size - 1
    BY <1>2
  <2>2. Chain(t, t.heads[i]) = ch[i] /\ ch[i] \in Seq(DOMAIN t.cells)
    BY <1>1, <1>5, <2>1, ChainOfHead
  <2>3. PICK n \in 1 .. Len(ch[i]) : ch[i][n] = c
    BY <2>2 DEF Range
  <2> QED
    BY <1>5, <2>1, <2>3 DEF Chained
<1>8. \A c, d \in Range(Entries(t)) : t.cells[c].key = t.cells[d].key => c = d
  BY <1>1, <1>4 DEF Pool
<1>9. /\ Cardinality(Range(Entries(t) \o t.free)) = Len(Entries(t) \o t.free)
      /\ Range(Entries(t) \o t.free) = DOMAIN t.cells
  BY <1>1, EveryCellOnce
<1> QED
  BY <1>1, <1>3, <1>4, <1>6, <1>7, <1>8, <1>9 DEF TypeOK

\* The variables of a table keep their types, and every cell that was ever cut is in the
\* one chain of its key or on the free list, once, after any sequence of calls, resizes and
\* copies.
THEOREM TypesAreKept == Spec => []TypeOK
<1>1. TableIsRight => TypeOK
  BY RightTypeOK
<1> QED
  BY <1>1, AlwaysRight, PTL

\* An entry holds one reference to its key and, in a dictionary, its value, whatever the
\* order of retains, copies and releases in the calls; nothing is retained that was gone.
THEOREM EntriesHoldReferences == Spec => []HoldsReferences
<1>1. ASSUME TableIsRight PROVE HoldsReferences
  <2>1. Right(t) /\ Referred(t, Nobody)
    BY <1>1 DEF TableIsRight, Settled
  <2>2. Range(Entries(t)) = Used(t)
    BY <2>1, EntriesRange
  <2> SUFFICES ASSUME NEW x \in Keys \cup Vals
               PROVE  t.refs[x] = Cardinality({c \in Used(t) :
                         t.cells[c].key = x \/ (kind = "dictionary" /\ t.cells[c].val = x)})
    BY <2>2 DEF HoldsReferences
  <2>3. t.refs[x] = Cardinality(Holds(t, x)) + Nobody[x]
    BY <2>1 DEF Referred
  <2>4. Cardinality(Holds(t, x)) \in Nat /\ Nobody[x] = 0
    BY <2>1, HoldsFinite DEF Right, Nobody
  <2> QED
    BY <2>3, <2>4 DEF Holds
<1> QED
  BY <1>1, AlwaysRight, PTL

-----------------------------------------------------------------------------
(* Equality *)

\* The keys that are there
FiledKeys(u) == {k \in Keys : Contents(u)[k] # Nil}

LEMMA ThereIs ==
    ASSUME NEW u, Right(u)
    PROVE  /\ IsFiniteSet(FiledKeys(u)) /\ u.count = Cardinality(FiledKeys(u))
           /\ \A c \in Used(u) : u.cells[c].key \in FiledKeys(u)
           /\ \A k \in FiledKeys(u) : \E c \in Used(u) : u.cells[c].key = k
<1> DEFINE f == [c \in Used(u) |-> u.cells[c].key]
<1>1. \A c \in Used(u) : u.cells[c].key \in Keys /\ u.cells[c].val \in Value
  BY UsedCells
<1>2. \A k \in Keys :
         /\ \A c \in Used(u) : u.cells[c].key = k =>
               Contents(u)[k] = IF kind = "set" THEN 1 ELSE u.cells[c].val
         /\ (\A c \in Used(u) : u.cells[c].key # k) => Contents(u)[k] = Nil
  BY ContentsAre
<1>3. \A c \in Used(u) : u.cells[c].key \in FiledKeys(u)
  <2> SUFFICES ASSUME NEW c \in Used(u) PROVE u.cells[c].key \in FiledKeys(u)
    OBVIOUS
  <2>1. Contents(u)[u.cells[c].key] = IF kind = "set" THEN 1 ELSE u.cells[c].val
    BY <1>1, <1>2
  <2>2. 1 # Nil /\ u.cells[c].val # Nil
    BY <1>1, KeyAssumption DEF Value
  <2> QED
    BY <1>1, <2>1, <2>2 DEF FiledKeys
<1>4. \A k \in FiledKeys(u) : \E c \in Used(u) : u.cells[c].key = k
  BY <1>2 DEF FiledKeys
<1>5. \A b, c \in Used(u) : u.cells[b].key = u.cells[c].key => b = c
  BY DEF Right, Pool
<1>6. f \in Bijection(Used(u), FiledKeys(u))
  BY <1>3, <1>4, <1>5 DEF Bijection, Injection, Surjection, IsInjective
<1>7. ExistsBijection(Used(u), FiledKeys(u))
  BY <1>6 DEF ExistsBijection
<1>8. IsFiniteSet(Used(u)) /\ u.count = Cardinality(Used(u))
  BY UsedFinite DEF Right
<1> QED
  BY <1>3, <1>4, <1>7, <1>8, FS_Bijection

LEMMA EqualIs ==
    ASSUME NEW u, Right(u), NEW w, Right(w)
    PROVE  IsEqual(u, w) <=>
               \A k \in Keys : IF kind = "dictionary" THEN Contents(u)[k] = Contents(w)[k]
                               ELSE Contents(u)[k] = Nil <=> Contents(w)[k] = Nil
<1>1. /\ IsFiniteSet(FiledKeys(u)) /\ u.count = Cardinality(FiledKeys(u))
      /\ \A c \in Used(u) : u.cells[c].key \in FiledKeys(u)
      /\ \A k \in FiledKeys(u) : \E c \in Used(u) : u.cells[c].key = k
  BY ThereIs
<1>2. IsFiniteSet(FiledKeys(w)) /\ w.count = Cardinality(FiledKeys(w))
  BY ThereIs
<1>3. Range(Entries(u)) = Used(u)
  BY EntriesRange
<1>4. FiledKeys(u) \subseteq Keys /\ FiledKeys(w) \subseteq Keys
  BY DEF FiledKeys
<1>5. \A c \in Used(u) : kind = "dictionary" => u.cells[c].val = Contents(u)[u.cells[c].key]
  BY <1>1, <1>4, ContentsAre
<1>6. \A k \in Keys : kind = "dictionary" => DataForKey(w, k) = Contents(w)[k]
  BY DEF DataForKey, Contents
<1>7. \A k \in Keys : BucketFor(w, k) # Nil <=> k \in FiledKeys(w)
  <2> SUFFICES ASSUME NEW k \in Keys PROVE BucketFor(w, k) # Nil <=> Contents(w)[k] # Nil
    BY DEF FiledKeys
  <2> DEFINE c == BucketFor(w, k)
  <2>1. \/ c = Nil /\ Missing(w, k) /\ Contents(w)[k] = Nil
        \/ /\ c # Nil /\ c \in Used(w) /\ w.cells[c].key = k /\ w.cells[c].val \in Value
           /\ Contents(w)[k] = IF kind = "set" THEN 1 ELSE w.cells[c].val
    BY LookupIs
  <2> HIDE DEF c
  <2>2. 1 # Nil /\ Nil \notin Value
    BY KeyAssumption DEF Value
  <2>3. c # Nil <=> Contents(w)[k] # Nil
    BY <2>1, <2>2
  <2> QED
    BY <2>3 DEF c
<1>8. IsEqual(u, w) <=>
         /\ Cardinality(FiledKeys(u)) = Cardinality(FiledKeys(w))
         /\ \A k \in FiledKeys(u) : IF kind = "dictionary" THEN Contents(w)[k] = Contents(u)[k]
                                ELSE k \in FiledKeys(w)
  <2>1. (\A c \in Used(u) : IF kind = "dictionary" THEN DataForKey(w, u.cells[c].key) = u.cells[c].val
                            ELSE BucketFor(w, u.cells[c].key) # Nil) <=>
           \A k \in FiledKeys(u) : IF kind = "dictionary" THEN Contents(w)[k] = Contents(u)[k]
                               ELSE k \in FiledKeys(w)
    BY <1>1, <1>4, <1>5, <1>6, <1>7
  <2> QED
    BY <1>1, <1>2, <1>3, <2>1 DEF IsEqual
<1>9. ASSUME IsEqual(u, w)
      PROVE  \A k \in Keys : IF kind = "dictionary" THEN Contents(u)[k] = Contents(w)[k]
                             ELSE Contents(u)[k] = Nil <=> Contents(w)[k] = Nil
  <2>1. FiledKeys(u) \subseteq FiledKeys(w)
    BY <1>4, <1>8, <1>9 DEF FiledKeys
  <2>2. FiledKeys(u) = FiledKeys(w)
    BY <1>1, <1>2, <1>8, <1>9, <2>1, FS_Subset
  <2> QED
    BY <1>8, <1>9, <2>2 DEF FiledKeys
<1>10. ASSUME \A k \in Keys : IF kind = "dictionary" THEN Contents(u)[k] = Contents(w)[k]
                              ELSE Contents(u)[k] = Nil <=> Contents(w)[k] = Nil
       PROVE  IsEqual(u, w)
  <2>1. FiledKeys(u) = FiledKeys(w)
    BY <1>10 DEF FiledKeys
  <2> QED
    BY <1>4, <1>8, <1>10, <2>1
<1> QED
  BY <1>9, <1>10

LEMMA FilledIsRight ==
    ASSUME NEW args \in Others, kind \in Kinds
    PROVE  Right(Filled(args))
<1> DEFINE r == [x \in Keys \cup Vals |-> 1]
           w == NewTable(0, r)
<1>1. r \in [Keys \cup Vals -> Int] /\ kind \in {"dictionary", "set", "counted"}
  BY KindIs DEF AllKinds
<1>2. FitAll(args)
  BY ArgumentsFit
<1>3. \A i \in 1 .. Len(args) : Fit(args[i]) /\ r[PassedIn(args[i])] >= 1
  BY <1>2, PassedInIs DEF FitAll
<1> HIDE DEF r
<1>4. Settled(w) /\ Referred(w, r)
  BY <1>1, NewTableIs
<1> HIDE DEF w
<1>5. Made(AddAll(w, args), r, Map!AddedAll(Contents(w), args))
  BY <1>1, <1>2, <1>3, <1>4, AddAllIs DEF FitAll
<1> QED
  BY <1>5 DEF Made, Settled, Filled, w, r

\* wi_is_equal tells two tables apart by what is in them, and not by their sizes or the order
\* of their chains, however they came to be.
THEOREM TablesAreEqualByContents == Spec => []EqualByContents
<1>1. ASSUME TableIsRight PROVE EqualByContents
  <2> SUFFICES ASSUME NEW args \in Others
               PROVE  LET u == Filled(args) IN
                      IsEqual(t, u) <=>
                          \A k \in Keys : IF kind = "dictionary" THEN Contents(t)[k] = Contents(u)[k]
                                          ELSE Contents(t)[k] = Nil <=> Contents(u)[k] = Nil
    BY DEF EqualByContents
  <2> DEFINE u == Filled(args)
  <2>1. Right(t) /\ Right(u)
    BY <1>1, FilledIsRight DEF TableIsRight, Settled
  <2> HIDE DEF u
  <2>2. IsEqual(t, u) <=>
            \A k \in Keys : IF kind = "dictionary" THEN Contents(t)[k] = Contents(u)[k]
                            ELSE Contents(t)[k] = Nil <=> Contents(u)[k] = Nil
    BY <2>1, EqualIs
  <2> QED
    BY <2>2 DEF u
<1> QED
  BY <1>1, AlwaysRight, PTL

-----------------------------------------------------------------------------
(* An enumerator that lives across calls *)

Enumerator == [index : Nat, bucket : Nat \cup {Nil}, seen : Seq(Keys), done : BOOLEAN]

\* The bucket b is in chain i.
Stands(u, ch, i, b) == i \in 0 .. u.size - 1 /\ \E n \in 1 .. Len(ch[i]) : ch[i][n] = b

\* The cells of the chains before chain i
Before(u, i) == {c \in Used(u) : Index(u, u.cells[c].key) < i}

\* The cells that an enumerator at the bucket b of chain i has handed out: those of the chains
\* before, and of its own chain those up to b.
Behind(u, ch, i, b) ==
    Before(u, i) \cup
    {c \in Used(u) : i \in 0 .. u.size - 1 /\ \E n \in 1 .. Len(ch[i]) : \E m \in 1 .. n :
                         ch[i][n] = b /\ ch[i][m] = c}

\* The first n of s
Firsts(s, n) == {s[m] : m \in 1 .. n}

\* s has the key of each cell of B, once.
Listed(u, s, B) ==
    /\ Injective(s)
    /\ \A i \in 1 .. Len(s) : \E c \in B : u.cells[c].key = s[i]
    /\ \A c \in B : \E i \in 1 .. Len(s) : s[i] = u.cells[c].key

\* The enumerator x has not begun, is at a bucket, or has come past the last chain.
Position(u, ch, x) ==
    \/ x.bucket = Nil /\ ~ x.done /\ x.index = 0
    \/ x.bucket = Nil /\ x.done /\ x.index >= u.size
    \/ x.bucket # Nil /\ ~ x.done /\ Stands(u, ch, x.index, x.bucket)

Enumerates(u, ch, x) == Position(u, ch, x) /\ Listed(u, x.seen, Behind(u, ch, x.index, x.bucket))

EnumeratorIsRight ==
    e # Nil => e \in Enumerator /\ \E ch : Chained(t, ch, {}) /\ Enumerates(t, ch, e)

\* Where an enumerator goes that handed out B: to the end, and B is all, or to a cell that it
\* did not hand out.
Reaches(u, ch, B, to) ==
    \/ to.bucket = Nil /\ to.index \in Nat /\ to.index >= u.size /\ B = Used(u)
    \/ /\ Stands(u, ch, to.index, to.bucket) /\ to.bucket \in Used(u) \ B
       /\ Behind(u, ch, to.index, to.bucket) = B \cup {to.bucket}

LEMMA ChainParts ==
    ASSUME NEW u, Pool(u), NEW ch, Chained(u, ch, {}), NEW i \in 0 .. u.size - 1
    PROVE  /\ Len(ch[i]) \in Nat /\ Injective(ch[i])
           /\ u.heads[i] = IF Len(ch[i]) = 0 THEN Nil ELSE ch[i][1]
           /\ \A n \in 1 .. Len(ch[i]) :
                 /\ ch[i][n] \in Used(u) /\ ch[i][n] # Nil
                 /\ Index(u, u.cells[ch[i][n]].key) = i
                 /\ u.cells[ch[i][n]].next = IF n = Len(ch[i]) THEN Nil ELSE ch[i][n + 1]
           /\ \A c \in Used(u) : Index(u, u.cells[c].key) = i =>
                 \E n \in 1 .. Len(ch[i]) : ch[i][n] = c
<1>1. /\ ch[i] \in Seq(DOMAIN u.cells) /\ Path(u, u.heads[i], ch[i]) /\ Injective(ch[i])
      /\ \A n \in 1 .. Len(ch[i]) : ch[i][n] \in Used(u) /\ Index(u, u.cells[ch[i][n]].key) = i
      /\ \A c \in Used(u) : \E n \in 1 .. Len(ch[Index(u, u.cells[c].key)]) :
            ch[Index(u, u.cells[c].key)][n] = c
  BY DEF Chained
<1>2. Len(ch[i]) \in Nat
  BY <1>1
<1>3. \A c \in Used(u) : c # Nil
  BY TableParts
<1> QED
  BY <1>1, <1>2, <1>3 DEF Path

LEMMA BehindIs ==
    ASSUME NEW u, Pool(u), NEW ch, Chained(u, ch, {}), NEW i \in 0 .. u.size - 1,
           NEW n \in 1 .. Len(ch[i])
    PROVE  Behind(u, ch, i, ch[i][n]) = Before(u, i) \cup Firsts(ch[i], n)
<1>1. /\ Len(ch[i]) \in Nat /\ Injective(ch[i])
      /\ \A m \in 1 .. Len(ch[i]) : ch[i][m] \in Used(u)
  BY ChainParts
<1>2. \A m \in 1 .. n : m \in 1 .. Len(ch[i])
  BY <1>1
<1>3. \A k \in 1 .. Len(ch[i]) : ch[i][k] = ch[i][n] => k = n
  BY <1>1 DEF Injective
<1> QED
  BY <1>1, <1>2, <1>3 DEF Behind, Firsts

\* The search for a chain that is not empty
LEMMA FromIndexReaches ==
    ASSUME Pool(t), NEW ch, Chained(t, ch, {}), NEW i \in Nat
    PROVE  Reaches(t, ch, Before(t, i), FromIndex(i))
<1> DEFINE full == {j \in i .. t.size - 1 : t.heads[j] # Nil}
           at(c) == Index(t, t.cells[c].key)
           to == FromIndex(i)
<1>1. t.size \in Nat \ {0} /\ \A c \in Used(t) : t.cells[c].key \in Keys
  BY TableParts
<1>2. \A c \in Used(t) : at(c) \in 0 .. t.size - 1
  BY <1>1, IndexInRange
<1>3. \A c \in Used(t) : t.heads[at(c)] # Nil
  <2> SUFFICES ASSUME NEW c \in Used(t) PROVE t.heads[at(c)] # Nil
    OBVIOUS
  <2> DEFINE j == at(c)
  <2>1. j \in 0 .. t.size - 1 /\ at(c) = j
    BY <1>2
  <2> HIDE DEF j
  <2>2. PICK n \in 1 .. Len(ch[j]) : ch[j][n] = c
    BY <2>1, ChainParts
  <2>3. Len(ch[j]) \in Nat /\ t.heads[j] = IF Len(ch[j]) = 0 THEN Nil ELSE ch[j][1]
    BY <2>1, ChainParts
  <2>4. Len(ch[j]) # 0 /\ 1 \in 1 .. Len(ch[j])
    BY <2>2, <2>3
  <2>5. ch[j][1] # Nil
    BY <2>1, <2>4, ChainParts
  <2> QED
    BY <2>3, <2>4, <2>5 DEF j
<1>4. CASE full = {}
  <2>1. to = [index |-> Larger(i, t.size), bucket |-> Nil]
    BY <1>4 DEF FromIndex
  <2>2. Larger(i, t.size) \in Nat /\ Larger(i, t.size) >= t.size
    BY <1>1 DEF Larger
  <2>3. \A c \in Used(t) : at(c) < i
    BY <1>1, <1>2, <1>3, <1>4
  <2>4. Before(t, i) = Used(t)
    BY <2>3 DEF Before
  <2> HIDE DEF to
  <2>5. to.bucket = Nil /\ to.index = Larger(i, t.size)
    BY <2>1
  <2> QED
    BY <2>2, <2>4, <2>5 DEF Reaches, to
<1>5. CASE full # {}
  <2> DEFINE j == CHOOSE j \in full : \A l \in full : j <= l
             c == t.heads[j]
  <2>1. full \in SUBSET Nat
    BY <1>1
  <2>2. \E l \in full : \A m \in full : l <= m
    BY <1>5, <2>1, LeastNumber
  <2>3. j \in full /\ \A l \in full : j <= l
    BY <2>2
  <2>4. to = [index |-> j, bucket |-> c]
    BY <1>5 DEF FromIndex
  <2> HIDE DEF j, to
  <2>5. j \in i .. t.size - 1 /\ j \in 0 .. t.size - 1 /\ c # Nil
    BY <1>1, <2>3
  <2>6. \A l \in i .. t.size - 1 : l < j => t.heads[l] = Nil
    BY <1>1, <2>3, <2>5
  <2> HIDE DEF full
  <2>7. Len(ch[j]) \in Nat /\ c = IF Len(ch[j]) = 0 THEN Nil ELSE ch[j][1]
    BY <2>5, ChainParts
  <2>8. 1 \in 1 .. Len(ch[j]) /\ c = ch[j][1]
    BY <2>5, <2>7
  <2>9. c \in Used(t) /\ at(c) = j
    BY <2>5, <2>8, ChainParts
  <2>10. Before(t, j) = Before(t, i)
    BY <1>1, <1>2, <1>3, <2>5, <2>6 DEF Before
  <2>11. Behind(t, ch, j, c) = Before(t, j) \cup Firsts(ch[j], 1)
    BY <2>5, <2>8, BehindIs
  <2>12. Behind(t, ch, j, c) = Before(t, i) \cup {c}
    BY <2>8, <2>10, <2>11 DEF Firsts
  <2>13. c \notin Before(t, i)
    BY <2>5, <2>9 DEF Before
  <2>14. Stands(t, ch, j, c)
    BY <2>5, <2>8 DEF Stands
  <2> HIDE DEF c
  <2>15. to.bucket = c /\ to.index = j
    BY <2>4
  <2> QED
    BY <2>9, <2>12, <2>13, <2>14, <2>15 DEF Reaches, to
<1> QED
  BY <1>4, <1>5

LEMMA AdvanceReaches ==
    ASSUME Pool(t), NEW ch, Chained(t, ch, {}), e \in Enumerator, Position(t, ch, e), ~ e.done
    PROVE  Reaches(t, ch, Behind(t, ch, e.index, e.bucket), Advance)
<1> DEFINE i == e.index
           b == e.bucket
           B == Behind(t, ch, i, b)
<1>0. t.size \in Nat \ {0} /\ \A c \in Used(t) : t.cells[c].key \in Keys
  BY TableParts
<1>1. \A c \in Used(t) : Index(t, t.cells[c].key) \in 0 .. t.size - 1
  BY <1>0, IndexInRange
<1>2. CASE b = Nil
  <2>1. i = 0 /\ Advance = FromIndex(0)
    BY <1>2 DEF Position, Advance
  <2>2. \A n \in 1 .. Len(ch[0]) : ch[0][n] # Nil
    <3>1. 0 \in 0 .. t.size - 1
      BY <1>0
    <3> QED
      BY <3>1, ChainParts
  <2>3. B = Before(t, 0)
    BY <1>2, <2>1, <2>2 DEF Behind
  <2>4. Reaches(t, ch, Before(t, 0), FromIndex(0))
    BY FromIndexReaches
  <2> QED
    BY <2>1, <2>3, <2>4
<1>3. CASE b # Nil
  <2>1. Stands(t, ch, i, b)
    BY <1>3 DEF Position
  <2>2. i \in 0 .. t.size - 1 /\ i \in Nat
    BY <1>0, <2>1 DEF Stands
  <2>3. PICK n \in 1 .. Len(ch[i]) : ch[i][n] = b
    BY <2>1 DEF Stands
  <2> HIDE DEF i, b
  <2>4. Len(ch[i]) \in Nat /\ Injective(ch[i])
    BY <2>2, ChainParts
  <2>5. \A m \in 1 .. Len(ch[i]) : /\ ch[i][m] \in Used(t) /\ ch[i][m] # Nil
                                  /\ Index(t, t.cells[ch[i][m]].key) = i
                                  /\ t.cells[ch[i][m]].next = IF m = Len(ch[i]) THEN Nil ELSE ch[i][m + 1]
    BY <2>2, ChainParts
  <2>6. \A m \in 1 .. Len(ch[i]) : Behind(t, ch, i, ch[i][m]) = Before(t, i) \cup Firsts(ch[i], m)
    BY <2>2, BehindIs
  <2>7. B = Before(t, i) \cup Firsts(ch[i], n)
    BY <2>3, <2>6
  <2>8. CASE n = Len(ch[i])
    <3>1. t.cells[b].next = Nil
      BY <2>3, <2>5, <2>8
    <3>2. Advance = FromIndex(i + 1)
      BY <1>3, <3>1 DEF Advance, i, b
    <3>3. \A c \in Used(t) : Index(t, t.cells[c].key) = i => \E m \in 1 .. Len(ch[i]) : ch[i][m] = c
      BY <2>2, ChainParts
    <3>4. B = Before(t, i + 1)
      BY <1>1, <2>2, <2>5, <2>7, <2>8, <3>3 DEF Before, Firsts
    <3>5. Reaches(t, ch, Before(t, i + 1), FromIndex(i + 1))
      BY <2>2, FromIndexReaches
    <3> QED
      BY <3>2, <3>4, <3>5 DEF i, b
  <2>9. CASE n # Len(ch[i])
    <3> DEFINE c == ch[i][n + 1]
               to == [index |-> i, bucket |-> c]
    <3>1. n + 1 \in 1 .. Len(ch[i]) /\ n \in 1 .. Len(ch[i])
          /\ (\A l \in 1 .. n + 1 : l \in 1 .. n \/ l = n + 1)
          /\ \A l \in 1 .. n : l \in 1 .. n + 1 /\ l \in 1 .. Len(ch[i]) /\ l # n + 1
      BY <2>4, <2>9
    <3>2. t.cells[b].next = c /\ c # Nil /\ c \in Used(t) /\ Index(t, t.cells[c].key) = i
      BY <2>3, <2>5, <2>9, <3>1
    <3> HIDE DEF c
    <3>3. Advance = to
      BY <1>3, <3>2 DEF Advance, i, b
    <3>4. Behind(t, ch, i, c) = Before(t, i) \cup Firsts(ch[i], n + 1)
      BY <2>6, <3>1 DEF c
    <3>5. Behind(t, ch, i, c) = B \cup {c}
      BY <2>7, <3>1, <3>4 DEF c, Firsts
    <3>6. c \notin B
      <4>1. c \notin Before(t, i)
        BY <2>2, <3>2 DEF Before
      <4>2. \A l \in 1 .. n : ch[i][l] # c
        BY <2>4, <3>1 DEF Injective, c
      <4> QED
        BY <2>7, <4>1, <4>2 DEF Firsts
    <3>7. Stands(t, ch, i, c)
      BY <2>2, <3>1 DEF Stands, c
    <3> HIDE DEF B, to
    <3>8. to.index = i /\ to.bucket = c
      BY DEF to
    <3>9. Reaches(t, ch, B, to)
      BY <3>2, <3>5, <3>6, <3>7, <3>8 DEF Reaches
    <3> QED
      BY <3>3, <3>9 DEF B, i, b
  <2> QED
    BY <2>8, <2>9
<1> QED
  BY <1>2, <1>3

\* A key more is handed out.
LEMMA ListedOneMore ==
    ASSUME NEW u, Right(u), NEW s \in Seq(Keys), NEW B \in SUBSET Used(u), Listed(u, s, B),
           NEW c \in Used(u) \ B
    PROVE  Listed(u, Append(s, u.cells[c].key), B \cup {c})
<1> DEFINE k == u.cells[c].key
           w == Append(s, k)
<1>1. k \in Keys
  BY UsedCells
<1>2. \A b, d \in Used(u) : u.cells[b].key = u.cells[d].key => b = d
  BY DEF Right, Pool
<1>3. /\ Injective(s) /\ \A i \in 1 .. Len(s) : \E b \in B : u.cells[b].key = s[i]
      /\ \A b \in B : \E i \in 1 .. Len(s) : s[i] = u.cells[b].key
  BY DEF Listed
<1>4. Len(s) \in Nat /\ Len(w) = Len(s) + 1
      /\ \A i \in 1 .. Len(w) : w[i] = IF i = Len(s) + 1 THEN k ELSE s[i]
  BY <1>1
<1> HIDE DEF w
<1>5. \A i \in 1 .. Len(s) : s[i] # k
  BY <1>2, <1>3
<1>6. /\ \A i \in 1 .. Len(w) : i \in 1 .. Len(s) \/ i = Len(s) + 1
      /\ \A i \in 1 .. Len(s) : i \in 1 .. Len(w) /\ i # Len(s) + 1
      /\ Len(s) + 1 \in 1 .. Len(w)
  BY <1>4
<1>7. Injective(w)
  BY <1>3, <1>4, <1>5, <1>6 DEF Injective
<1>8. \A i \in 1 .. Len(w) : \E b \in B \cup {c} : u.cells[b].key = w[i]
  BY <1>3, <1>4, <1>6
<1>9. \A b \in B \cup {c} : \E i \in 1 .. Len(w) : w[i] = u.cells[b].key
  BY <1>3, <1>4, <1>6
<1> QED
  BY <1>7, <1>8, <1>9 DEF Listed, w

LEMMA BeginIsRight ==
    ASSUME TableIsRight, BeginEnumeration, t' = t
    PROVE  EnumeratorIsRight'
<1> DEFINE x == [index |-> 0, bucket |-> Nil, seen |-> <<>>, done |-> FALSE]
<1>1. Pool(t) /\ \E ch : Chained(t, ch, {})
  BY DEF TableIsRight, Settled, Right
<1>2. PICK ch : Chained(t, ch, {})
  BY <1>1
<1>3. x \in Enumerator /\ x.index = 0 /\ x.bucket = Nil /\ ~ x.done /\ x.seen = <<>>
  BY DEF Enumerator
<1>4. e' = x
  BY DEF BeginEnumeration
<1> HIDE DEF x
<1>5. Position(t, ch, x)
  BY <1>3 DEF Position
<1>6. Behind(t, ch, 0, Nil) = {}
  <2>1. t.size \in Nat \ {0} /\ \A c \in Used(t) : t.cells[c].key \in Keys
    BY <1>1, TableParts
  <2>2. \A c \in Used(t) : Index(t, t.cells[c].key) \in 0 .. t.size - 1
    BY <2>1, IndexInRange
  <2>3. 0 \in 0 .. t.size - 1
    BY <2>1
  <2>4. \A n \in 1 .. Len(ch[0]) : ch[0][n] # Nil
    BY <1>1, <1>2, <2>3, ChainParts
  <2> QED
    BY <2>2, <2>4 DEF Behind, Before
<1>7. Listed(t, <<>>, {})
  BY DEF Listed, Injective
<1>8. Enumerates(t, ch, x)
  BY <1>3, <1>5, <1>6, <1>7 DEF Enumerates
<1>9. x \in Enumerator /\ \E p : Chained(t, p, {}) /\ Enumerates(t, p, x)
  BY <1>2, <1>3, <1>8
<1> QED
  BY <1>4, <1>9 DEF EnumeratorIsRight

LEMMA NextIsRight ==
    ASSUME TableIsRight, EnumeratorIsRight, EnumerateNext, t' = t
    PROVE  EnumeratorIsRight'
<1>1. Right(t) /\ Pool(t)
  BY DEF TableIsRight, Settled, Right
<1>2. e # Nil /\ ~ e.done
  BY DEF EnumerateNext
<1>3. e \in Enumerator
  BY <1>2 DEF EnumeratorIsRight
<1>4. PICK ch : Chained(t, ch, {}) /\ Enumerates(t, ch, e)
  BY <1>2 DEF EnumeratorIsRight
<1> DEFINE to == Advance
           B == Behind(t, ch, e.index, e.bucket)
           x == [index |-> to.index, bucket |-> to.bucket, done |-> to.bucket = Nil,
                 seen |-> IF to.bucket = Nil THEN e.seen ELSE Append(e.seen, t.cells[to.bucket].key)]
<1>5. e' = x
  BY <1>3 DEF EnumerateNext, Enumerator
<1>6. Position(t, ch, e) /\ Listed(t, e.seen, B)
  BY <1>4 DEF Enumerates
<1>7. Reaches(t, ch, B, to)
  BY <1>1, <1>2, <1>3, <1>4, <1>6, AdvanceReaches
<1>8. B \in SUBSET Used(t) /\ e.seen \in Seq(Keys)
  BY <1>3 DEF Behind, Before, Enumerator
<1>9. t.size \in Nat \ {0} /\ \A c \in Used(t) : c # Nil /\ c \in Nat /\ t.cells[c].key \in Keys
  BY <1>1, TableParts
<1> HIDE DEF to, B
<1>10. CASE to.bucket = Nil /\ to.index \in Nat /\ to.index >= t.size /\ B = Used(t)
  <2>1. x \in Enumerator
    BY <1>8, <1>10 DEF Enumerator
  <2>2. x.index = to.index /\ x.bucket = Nil /\ x.done /\ x.seen = e.seen
    BY <1>10
  <2> HIDE DEF x
  <2>3. Position(t, ch, x)
    BY <1>10, <2>2 DEF Position
  <2>4. Behind(t, ch, x.index, x.bucket) = Used(t)
    <3>1. \A c \in Used(t) : Index(t, t.cells[c].key) \in 0 .. t.size - 1
      BY <1>9, IndexInRange
    <3>2. \A c \in Used(t) : Index(t, t.cells[c].key) < to.index
      BY <1>9, <1>10, <3>1
    <3> QED
      BY <2>2, <3>2 DEF Behind, Before
  <2>5. Enumerates(t, ch, x)
    BY <1>6, <1>10, <2>2, <2>3, <2>4 DEF Enumerates
  <2>6. x \in Enumerator /\ \E p : Chained(t, p, {}) /\ Enumerates(t, p, x)
    BY <1>4, <2>1, <2>5
  <2> QED
    BY <1>5, <2>6 DEF EnumeratorIsRight
<1>11. CASE /\ Stands(t, ch, to.index, to.bucket) /\ to.bucket \in Used(t) \ B
            /\ Behind(t, ch, to.index, to.bucket) = B \cup {to.bucket}
  <2> DEFINE c == to.bucket
  <2>1. c \in Used(t) \ B /\ c # Nil /\ c \in Nat /\ t.cells[c].key \in Keys
    BY <1>9, <1>11
  <2>2. to.index \in Nat
    BY <1>9, <1>11 DEF Stands
  <2>3. x \in Enumerator
    <3> HIDE DEF c
    <3>1. x = [index |-> to.index, bucket |-> c, done |-> FALSE, seen |-> Append(e.seen, t.cells[c].key)]
      BY <2>1 DEF c
    <3>2. Append(e.seen, t.cells[c].key) \in Seq(Keys)
      BY <1>8, <2>1
    <3> HIDE DEF x
    <3> QED
      BY <2>1, <2>2, <3>1, <3>2 DEF Enumerator
  <2>4. x.index = to.index /\ x.bucket = c /\ ~ x.done /\ x.seen = Append(e.seen, t.cells[c].key)
    BY <2>1
  <2> HIDE DEF x
  <2>5. Position(t, ch, x)
    BY <1>11, <2>1, <2>4 DEF Position
  <2>6. Listed(t, x.seen, B \cup {c})
    <3> DEFINE s == e.seen
    <3>1. s \in Seq(Keys) /\ Listed(t, s, B) /\ B \in SUBSET Used(t) /\ c \in Used(t) \ B
      BY <1>6, <1>8, <2>1
    <3> HIDE DEF s, c
    <3>2. Listed(t, Append(s, t.cells[c].key), B \cup {c})
      BY <1>1, <3>1, ListedOneMore
    <3> QED
      BY <2>4, <3>2 DEF s
  <2>7. Enumerates(t, ch, x)
    BY <1>11, <2>4, <2>5, <2>6 DEF Enumerates
  <2>8. x \in Enumerator /\ \E p : Chained(t, p, {}) /\ Enumerates(t, p, x)
    BY <1>4, <2>3, <2>7
  <2> QED
    BY <1>5, <2>8 DEF EnumeratorIsRight
<1> QED
  BY <1>7, <1>10, <1>11 DEF Reaches

\* An enumerator goes on where it was in a table whose keys are in their places.
LEMMA EnumeratorStays ==
    ASSUME EnumeratorIsRight, e' = e, Linked(t, t')
    PROVE  EnumeratorIsRight'
<1> SUFFICES ASSUME e # Nil
             PROVE  e \in Enumerator /\ \E ch : Chained(t', ch, {}) /\ Enumerates(t', ch, e)
  BY DEF EnumeratorIsRight
<1>1. e \in Enumerator
  BY DEF EnumeratorIsRight
<1>2. PICK ch : Chained(t, ch, {}) /\ Enumerates(t, ch, e)
  BY DEF EnumeratorIsRight
<1>3. Chained(t', ch, {})
  BY <1>2, LinksKept
<1> DEFINE w == t'
           B == Behind(t, ch, e.index, e.bucket)
<1>4. /\ w.size = t.size /\ DOMAIN w.cells = DOMAIN t.cells
      /\ \A c \in DOMAIN t.cells : w.cells[c].key = t.cells[c].key
  BY DEF Linked
<1> HIDE DEF w
<1>5. Used(w) = Used(t) /\ \A c \in Used(t) : w.cells[c].key = t.cells[c].key
  BY <1>4 DEF Used
<1>6. \A k : Index(w, k) = Index(t, k)
  BY <1>4 DEF Index
<1>7. Position(w, ch, e)
  BY <1>2, <1>4 DEF Enumerates, Position, Stands
<1>8. Behind(w, ch, e.index, e.bucket) = B
  BY <1>4, <1>5, <1>6 DEF Behind, Before
<1>9. B \in SUBSET Used(t)
  BY DEF Behind, Before
<1>10. Listed(t, e.seen, B)
  BY <1>2 DEF Enumerates
<1> HIDE DEF B
<1>11. Listed(w, e.seen, B)
  BY <1>5, <1>9, <1>10 DEF Listed
<1>12. Enumerates(w, ch, e)
  BY <1>7, <1>8, <1>11 DEF Enumerates
<1> QED
  BY <1>1, <1>3, <1>12 DEF w

LEMMA EnumeratorGoesOn ==
    ASSUME TableIsRight, EnumeratorIsRight, [Next]_vars
    PROVE  EnumeratorIsRight'
<1>1. Passes
  BY NextStep
<1>2. CASE e' = Nil
  BY <1>2 DEF EnumeratorIsRight
<1>3. CASE e' = e /\ Linked(t, t')
  BY <1>3, EnumeratorStays
<1>4. CASE t' = t /\ BeginEnumeration
  BY <1>4, BeginIsRight
<1>5. CASE t' = t /\ EnumerateNext
  BY <1>5, NextIsRight
<1> QED
  BY <1>1, <1>2, <1>3, <1>4, <1>5 DEF Passes

\* An enumerator that came to the end has handed out every key.
LEMMA DoneIsAll ==
    ASSUME TableIsRight, EnumeratorIsRight
    PROVE  EnumeratesAll
<1> SUFFICES ASSUME e # Nil, e.done
             PROVE  Len(e.seen) = t.count /\ Range(e.seen) = Range(AllKeys(t))
  BY DEF EnumeratesAll
<1>1. Right(t) /\ Pool(t)
  BY DEF TableIsRight, Settled, Right
<1>2. e \in Enumerator
  BY DEF EnumeratorIsRight
<1>3. PICK ch : Chained(t, ch, {}) /\ Enumerates(t, ch, e)
  BY DEF EnumeratorIsRight
<1>4. t.size \in Nat \ {0} /\ \A c \in Used(t) : t.cells[c].key \in Keys
  BY <1>1, TableParts
<1>5. e.index \in Nat /\ e.index >= t.size /\ e.seen \in Seq(Keys)
  BY <1>2, <1>3 DEF Enumerates, Position, Enumerator
<1>6. Behind(t, ch, e.index, e.bucket) = Used(t)
  <2>1. \A c \in Used(t) : Index(t, t.cells[c].key) \in 0 .. t.size - 1
    BY <1>4, IndexInRange
  <2>2. \A c \in Used(t) : Index(t, t.cells[c].key) < e.index
    BY <1>4, <1>5, <2>1
  <2> QED
    BY <2>2 DEF Behind, Before
<1>7. Listed(t, e.seen, Used(t))
  BY <1>3, <1>6 DEF Enumerates
<1> DEFINE s == e.seen
           E == Entries(t)
<1>8. /\ IsFiniteSet(Range(s)) /\ Cardinality(Range(s)) = Len(s)
      /\ Range(s) = {s[i] : i \in 1 .. Len(s)}
  BY <1>5, <1>7, InjectiveRange, SMTT(30) DEF Listed
<1>9. Range(s) = {t.cells[c].key : c \in Used(t)}
  <2>1. /\ \A i \in 1 .. Len(s) : \E c \in Used(t) : t.cells[c].key = s[i]
        /\ \A c \in Used(t) : \E i \in 1 .. Len(s) : s[i] = t.cells[c].key
    BY <1>7 DEF Listed
  <2> DEFINE K == {t.cells[c].key : c \in Used(t)}
  <2>2. \A c \in Used(t) : t.cells[c].key \in K
    OBVIOUS
  <2>3. \A k \in K : \E c \in Used(t) : t.cells[c].key = k
    OBVIOUS
  <2> HIDE DEF s, K
  <2>4. \A i \in 1 .. Len(s) : s[i] \in K
    BY <2>1, <2>2
  <2>5. \A k \in K : k \in {s[i] : i \in 1 .. Len(s)}
    BY <2>1, <2>3
  <2>6. Range(s) = K
    BY <1>8, <2>4, <2>5
  <2> QED
    BY <2>6 DEF K
<1>10. /\ t.count = Cardinality(FiledKeys(t)) /\ \A c \in Used(t) : t.cells[c].key \in FiledKeys(t)
       /\ \A k \in FiledKeys(t) : \E c \in Used(t) : t.cells[c].key = k
  BY <1>1, ThereIs
<1>11. FiledKeys(t) = {t.cells[c].key : c \in Used(t)}
  BY <1>10
<1>12. Range(E) = Used(t)
  BY <1>1, EntriesRange
<1>13. Range(AllKeys(t)) = {t.cells[c].key : c \in Range(E)}
  BY DEF AllKeys, Range
<1> QED
  BY <1>8, <1>9, <1>10, <1>11, <1>12, <1>13

-----------------------------------------------------------------------------
(* Index sets *)

LEMMA AddEachUnfolds ==
    ASSUME NEW s, NEW r, Len(r) \in Nat
    PROVE  \E made : /\ made[0] = s /\ AddEach(s, r) = made[Len(r)]
                     /\ \A i \in 1 .. Len(r) : made[i] = AddIndex(made[i - 1], r[i])
<1> DEFINE n == Len(r)
           Is(f, k) == f = [i \in 0 .. k |-> IF i = 0 THEN s ELSE AddIndex(f[i - 1], r[i])]
           Has(k) == \E f : Is(f, k)
           There == {k \in Nat : Has(k)}
<1>1. 0 \in There
  <2>1. Is([i \in 0 .. 0 |-> s], 0)
    OBVIOUS
  <2> QED
    BY <2>1
<1>2. ASSUME NEW k \in 0 .. n - 1, Has(k) PROVE Has(k + 1)
  <2>1. PICK f : Is(f, k)
    BY <1>2
  <2> DEFINE g == [i \in 0 .. k + 1 |-> IF i = 0 THEN s ELSE AddIndex(f[i - 1], r[i])]
  <2>2. \A i \in 0 .. k : g[i] = f[i]
    BY <2>1
  <2>3. \A i \in 0 .. k + 1 : i # 0 => i - 1 \in 0 .. k
    OBVIOUS
  <2>4. g = [i \in 0 .. k + 1 |-> IF i = 0 THEN s ELSE AddIndex(g[i - 1], r[i])]
    BY <2>2, <2>3
  <2> HIDE DEF g
  <2> QED
    BY <2>4
<1> HIDE DEF Has
<1>3. \A k \in 0 .. n : k \in There
  <2>1. \A k \in 0 .. n - 1 : k \in There => k + 1 \in There
    BY <1>2
  <2> HIDE DEF There
  <2> QED
    BY <1>1, <2>1, InductionUpTo
<1>4. Has(n)
  BY <1>3
<1> HIDE DEF Is
<1> DEFINE made == CHOOSE f : Is(f, n)
<1>5. Is(made, n)
  BY <1>4 DEF Has
<1>6. AddEach(s, r) = made[n]
  BY DEF AddEach, Is
<1> HIDE DEF made
<1>7. made[0] = s /\ \A i \in 1 .. n : made[i] = AddIndex(made[i - 1], r[i])
  BY <1>5 DEF Is
<1> QED
  BY <1>6, <1>7

LEMMA RemoveEachUnfolds ==
    ASSUME NEW s, NEW r, Len(r) \in Nat
    PROVE  \E made : /\ made[0] = s /\ RemoveEach(s, r) = made[Len(r)]
                     /\ \A i \in 1 .. Len(r) : made[i] = RemoveIndex(made[i - 1], r[i])
<1> DEFINE n == Len(r)
           Is(f, k) == f = [i \in 0 .. k |-> IF i = 0 THEN s ELSE RemoveIndex(f[i - 1], r[i])]
           Has(k) == \E f : Is(f, k)
           There == {k \in Nat : Has(k)}
<1>1. 0 \in There
  <2>1. Is([i \in 0 .. 0 |-> s], 0)
    OBVIOUS
  <2> QED
    BY <2>1
<1>2. ASSUME NEW k \in 0 .. n - 1, Has(k) PROVE Has(k + 1)
  <2>1. PICK f : Is(f, k)
    BY <1>2
  <2> DEFINE g == [i \in 0 .. k + 1 |-> IF i = 0 THEN s ELSE RemoveIndex(f[i - 1], r[i])]
  <2>2. \A i \in 0 .. k : g[i] = f[i]
    BY <2>1
  <2>3. \A i \in 0 .. k + 1 : i # 0 => i - 1 \in 0 .. k
    OBVIOUS
  <2>4. g = [i \in 0 .. k + 1 |-> IF i = 0 THEN s ELSE RemoveIndex(g[i - 1], r[i])]
    BY <2>2, <2>3
  <2> HIDE DEF g
  <2> QED
    BY <2>4
<1> HIDE DEF Has
<1>3. \A k \in 0 .. n : k \in There
  <2>1. \A k \in 0 .. n - 1 : k \in There => k + 1 \in There
    BY <1>2
  <2> HIDE DEF There
  <2> QED
    BY <1>1, <2>1, InductionUpTo
<1>4. Has(n)
  BY <1>3
<1> HIDE DEF Is
<1> DEFINE made == CHOOSE f : Is(f, n)
<1>5. Is(made, n)
  BY <1>4 DEF Has
<1>6. RemoveEach(s, r) = made[n]
  BY DEF RemoveEach, Is
<1> HIDE DEF made
<1>7. made[0] = s /\ \A i \in 1 .. n : made[i] = RemoveIndex(made[i - 1], r[i])
  BY <1>5 DEF Is
<1> QED
  BY <1>6, <1>7


Ascending(s) == s \in Seq(Nat) /\ \A i, j \in 1 .. Len(s) : i < j => s[i] <= s[j]

\* The indexes that are not greater come first.
LEMMA NotGreater ==
    ASSUME NEW s, Ascending(s), NEW x \in Nat
    PROVE  LET n == Cardinality({i \in DOMAIN s : s[i] <= x})
           IN  n \in 0 .. Len(s) /\ \A i \in 1 .. Len(s) : s[i] <= x <=> i <= n
<1> DEFINE low == {i \in DOMAIN s : s[i] <= x}
           high == {i \in 1 .. Len(s) : s[i] > x}
<1>1. /\ s \in Seq(Nat) /\ Len(s) \in Nat /\ DOMAIN s = 1 .. Len(s)
      /\ \A i \in 1 .. Len(s) : s[i] \in Nat
      /\ \A i, j \in 1 .. Len(s) : i < j => s[i] <= s[j]
  BY DEF Ascending
<1>2. PICK n \in 0 .. Len(s) : \A i \in 1 .. Len(s) : s[i] <= x <=> i <= n
  <2> DEFINE Splits(m) == \A i \in 1 .. Len(s) : s[i] <= x <=> i <= m
  <2> SUFFICES \E m \in 0 .. Len(s) : Splits(m)
    OBVIOUS
  <2>1. CASE high = {}
    <3>1. Splits(Len(s))
      BY <1>1, <2>1
    <3>2. Len(s) \in 0 .. Len(s)
      BY <1>1
    <3> HIDE DEF Splits
    <3> QED
      BY <3>1, <3>2
  <2>2. CASE high # {}
    <3>1. high \in SUBSET Nat
      OBVIOUS
    <3>2. Min(high) \in high /\ \A i \in high : Min(high) <= i
      BY <2>2, <3>1, LeastNumber
    <3> DEFINE m == Min(high)
    <3>3. m \in 1 .. Len(s) /\ s[m] > x /\ \A i \in 1 .. Len(s) : s[i] > x => m <= i
      BY <3>2
    <3> HIDE DEF m, high
    <3>4. ASSUME NEW i \in 1 .. Len(s) PROVE s[i] <= x <=> i <= m - 1
      <4>1. CASE i < m
        BY <1>1, <3>3, <4>1
      <4>2. CASE i = m
        BY <1>1, <3>3, <4>2
      <4>3. CASE m < i
        <5>1. s[m] <= s[i]
          BY <1>1, <3>3, <4>3
        <5> QED
          BY <1>1, <3>3, <4>3, <5>1
      <4> QED
        BY <3>3, <4>1, <4>2, <4>3
    <3>5. m - 1 \in 0 .. Len(s) /\ Splits(m - 1)
      BY <1>1, <3>3, <3>4
    <3> HIDE DEF Splits
    <3> QED
      BY <3>5
  <2> QED
    BY <2>1, <2>2
<1>3. low = 1 .. n
  BY <1>1, <1>2
<1>4. Cardinality(1 .. n) = n
  <2>1. 1 \in Int /\ n \in Int
    OBVIOUS
  <2>2. Cardinality(1 .. n) = IF 1 > n THEN 0 ELSE n - 1 + 1
    BY <2>1, FS_Interval
  <2> QED
    BY <2>2
<1> QED
  BY <1>2, <1>3, <1>4

LEMMA AddIndexAscends ==
    ASSUME NEW s, Ascending(s), NEW x \in Nat
    PROVE  Ascending(AddIndex(s, x))
<1> DEFINE n == Cardinality({i \in DOMAIN s : s[i] <= x})
           k == n + 1
           w == AddIndex(s, x)
<1>1. n \in 0 .. Len(s) /\ \A i \in 1 .. Len(s) : s[i] <= x <=> i <= n
  BY NotGreater
<1>2. w = InsertAt(s, k, x)
  BY DEF AddIndex
<1>3. /\ s \in Seq(Nat) /\ Len(s) \in Nat /\ \A i \in 1 .. Len(s) : s[i] \in Nat
      /\ \A i, j \in 1 .. Len(s) : i < j => s[i] <= s[j]
  BY DEF Ascending
<1> HIDE DEF n, w
<1>4. /\ w \in Seq(Nat) /\ Len(w) = Len(s) + 1
      /\ \A j \in 1 .. Len(s) + 1 : w[j] = IF j < k THEN s[j] ELSE IF j = k THEN x ELSE s[j - 1]
  <2>1. CASE n = Len(s)
    <3>1. w = Append(s, x)
      BY <1>2, <1>3, <2>1, InsertAtEnd
    <3> QED
      BY <1>3, <2>1, <3>1
  <2>2. CASE n # Len(s)
    <3>1. k \in 1 .. Len(s)
      BY <1>1, <1>3, <2>2
    <3> DEFINE N == Nat
    <3>2. s \in Seq(N) /\ x \in N
      BY <1>3
    <3> HIDE DEF k, N
    <3>3. /\ InsertAt(s, k, x) \in Seq(N) /\ Len(InsertAt(s, k, x)) = Len(s) + 1
          /\ \A j \in 1 .. Len(s) + 1 :
                InsertAt(s, k, x)[j] = IF j < k THEN s[j] ELSE IF j = k THEN x ELSE s[j - 1]
      BY <3>1, <3>2, InsertAtInserts
    <3> QED
      BY <1>2, <3>3 DEF N
  <2> QED
    BY <2>1, <2>2
<1>5. ASSUME NEW i \in 1 .. Len(w), NEW j \in 1 .. Len(w), i < j PROVE w[i] <= w[j]
  <2>0. i \in 1 .. Len(s) + 1 /\ j \in 1 .. Len(s) + 1
    BY <1>4
  <2>1. CASE j < k
    <3>1. i \in 1 .. Len(s) /\ j \in 1 .. Len(s) /\ i < k
      BY <1>1, <1>3, <1>5, <2>0, <2>1
    <3>2. w[i] = s[i] /\ w[j] = s[j]
      BY <1>4, <2>0, <2>1, <3>1
    <3> QED
      BY <1>3, <1>5, <3>1, <3>2
  <2>2. CASE j = k
    <3>1. i \in 1 .. Len(s) /\ i <= n /\ w[i] = s[i] /\ w[j] = x
      BY <1>1, <1>3, <1>4, <1>5, <2>0, <2>2, SMTT(30)
    <3> QED
      BY <1>1, <3>1
  <2>3. CASE j > k
    <3>1. j - 1 \in 1 .. Len(s) /\ j - 1 > n /\ w[j] = s[j - 1]
      BY <1>1, <1>3, <1>4, <2>0, <2>3
    <3>2. CASE i < k
      <4>1. i \in 1 .. Len(s) /\ w[i] = s[i] /\ i < j - 1
        BY <1>1, <1>3, <1>4, <2>0, <2>3, <3>2
      <4> QED
        BY <1>3, <3>1, <4>1
    <3>3. CASE i = k
      <4>1. w[i] = x
        BY <1>4, <2>0, <3>3
      <4>2. s[j - 1] \in Nat /\ ~ (s[j - 1] <= x)
        BY <1>1, <1>3, <3>1
      <4> QED
        BY <3>1, <4>1, <4>2
    <3>4. CASE i > k
      <4>1. i - 1 \in 1 .. Len(s) /\ w[i] = s[i - 1] /\ i - 1 < j - 1
        BY <1>1, <1>3, <1>4, <1>5, <2>0, <3>4
      <4> QED
        BY <1>3, <3>1, <4>1
    <3> QED
      BY <1>1, <2>0, <3>2, <3>3, <3>4
  <2> QED
    BY <1>1, <2>0, <2>1, <2>2, <2>3
<1> QED
  BY <1>4, <1>5 DEF Ascending, w

LEMMA RemoveIndexAscends ==
    ASSUME NEW s, Ascending(s), NEW x
    PROVE  Ascending(RemoveIndex(s, x))
<1>1. /\ s \in Seq(Nat) /\ Len(s) \in Nat /\ DOMAIN s = 1 .. Len(s)
      /\ \A i, j \in 1 .. Len(s) : i < j => s[i] <= s[j]
  BY DEF Ascending
<1> DEFINE I == {i \in 1 .. Len(s) : s[i] = x}
           w == RemoveFirst(s, x)
<1>2. CASE I = {}
  <2>1. x \notin Range(s)
    BY <1>1, <1>2 DEF Range
  <2> QED
    BY <2>1 DEF RemoveIndex
<1>3. CASE I # {}
  <2> DEFINE k == Min(I)
  <2>1. I \in SUBSET Nat
    OBVIOUS
  <2>2. k \in I /\ \A i \in I : k <= i
    BY <1>3, <2>1, LeastNumber
  <2>3. k \in 1 .. Len(s) /\ s[k] = x /\ \A j \in 1 .. Len(s) : s[j] = x => k <= j
    BY <2>2
  <2>4. RemoveIndex(s, x) = w
    BY <1>1, <2>3 DEF RemoveIndex, Range
  <2> HIDE DEF k, w, I
  <2>5. /\ w \in Seq(Nat) /\ Len(w) = Len(s) - 1
        /\ \A j \in 1 .. Len(s) - 1 : w[j] = IF j < k THEN s[j] ELSE s[j + 1]
    <3> DEFINE S == Nat
    <3>1. s \in Seq(S)
      BY <1>1
    <3> HIDE DEF S
    <3>2. /\ w \in Seq(S) /\ Len(w) = Len(s) - 1
          /\ \A j \in 1 .. Len(s) - 1 : w[j] = IF j < k THEN s[j] ELSE s[j + 1]
      BY <2>3, <3>1, RemoveFirstRemoves DEF w
    <3> QED
      BY <3>2 DEF S
  <2>6. ASSUME NEW i \in 1 .. Len(w), NEW j \in 1 .. Len(w), i < j PROVE w[i] <= w[j]
    <3> DEFINE a == IF i < k THEN i ELSE i + 1
               b == IF j < k THEN j ELSE j + 1
    <3>1. a \in 1 .. Len(s) /\ b \in 1 .. Len(s) /\ a < b
      BY <1>1, <2>3, <2>5, <2>6, SMTT(30)
    <3>2. w[i] = s[a] /\ w[j] = s[b]
      BY <1>1, <2>5
    <3> QED
      BY <1>1, <3>1, <3>2
  <2> QED
    BY <2>4, <2>5, <2>6 DEF Ascending
<1> QED
  BY <1>2, <1>3

LEMMA AddEachAscends ==
    ASSUME NEW s, Ascending(s), NEW r, Len(r) \in Nat, \A i \in 1 .. Len(r) : r[i] \in Nat
    PROVE  Ascending(AddEach(s, r))
<1>1. PICK made : /\ made[0] = s /\ AddEach(s, r) = made[Len(r)]
                  /\ \A i \in 1 .. Len(r) : made[i] = AddIndex(made[i - 1], r[i])
  BY AddEachUnfolds
<1> DEFINE There == {i \in 0 .. Len(r) : Ascending(made[i])}
<1>2. 0 \in There
  BY <1>1
<1>3. ASSUME NEW i \in 0 .. Len(r) - 1, i \in There PROVE i + 1 \in There
  <2> DEFINE j == i + 1
  <2>1. j \in 1 .. Len(r) /\ j \in 0 .. Len(r) /\ j - 1 = i
    OBVIOUS
  <2> HIDE DEF j
  <2>2. made[j] = AddIndex(made[i], r[j]) /\ r[j] \in Nat
    BY <1>1, <2>1
  <2>3. Ascending(made[i])
    BY <1>3
  <2>4. Ascending(made[j])
    BY <2>2, <2>3, AddIndexAscends
  <2> QED
    BY <2>1, <2>4 DEF j
<1> HIDE DEF There
<1>4. Len(r) \in There
  <2>1. \A i \in 0 .. Len(r) : i \in There
    BY <1>2, <1>3, InductionUpTo
  <2> QED
    BY <2>1
<1> QED
  BY <1>1, <1>4 DEF There

LEMMA RemoveEachAscends ==
    ASSUME NEW s, Ascending(s), NEW r, Len(r) \in Nat
    PROVE  Ascending(RemoveEach(s, r))
<1>1. PICK made : /\ made[0] = s /\ RemoveEach(s, r) = made[Len(r)]
                  /\ \A i \in 1 .. Len(r) : made[i] = RemoveIndex(made[i - 1], r[i])
  BY RemoveEachUnfolds
<1> DEFINE There == {i \in 0 .. Len(r) : Ascending(made[i])}
<1>2. 0 \in There
  BY <1>1
<1>3. ASSUME NEW i \in 0 .. Len(r) - 1, i \in There PROVE i + 1 \in There
  <2> DEFINE j == i + 1
  <2>1. j \in 1 .. Len(r) /\ j \in 0 .. Len(r) /\ j - 1 = i
    OBVIOUS
  <2> HIDE DEF j
  <2>2. made[j] = RemoveIndex(made[i], r[j])
    BY <1>1, <2>1
  <2>3. Ascending(made[i])
    BY <1>3
  <2>4. Ascending(made[j])
    BY <2>2, <2>3, RemoveIndexAscends
  <2> QED
    BY <2>1, <2>4 DEF j
<1> HIDE DEF There
<1>4. Len(r) \in There
  <2>1. \A i \in 0 .. Len(r) : i \in There
    BY <1>2, <1>3, InductionUpTo
  <2> QED
    BY <2>1
<1> QED
  BY <1>1, <1>4 DEF There

\* A range is in ascending order.
LEMMA RangesAscend ==
    ASSUME NEW r \in Ranges
    PROVE  Ascending(r) /\ Len(r) \in Nat /\ \A i \in 1 .. Len(r) : r[i] \in Nat
<1>1. PICK l \in 0 .. MaxIndex, n \in 0 .. 2 : r = [i \in 1 .. n |-> l + i - 1]
  BY DEF Ranges, Indexes, InRange
<1>2. l \in Nat /\ n \in Nat
  BY IndexAssumption
<1>3. \A i \in 1 .. n : l + i - 1 \in Nat
  BY <1>2
<1>4. r \in [1 .. n -> Nat] /\ \A i \in 1 .. n : r[i] = l + i - 1
  BY <1>1, <1>3
<1>5. r \in Seq(Nat) /\ Len(r) = n
  BY <1>2, <1>4
<1> QED
  BY <1>2, <1>4, <1>5 DEF Ascending

LEMMA IndexStep ==
    ASSUME Ascending(indexes), NextIndexes
    PROVE  Ascending(indexes')
<1>1. CASE AddIndexes
  <2>1. PICK r \in Ranges : indexes' = AddEach(indexes, r)
    BY <1>1 DEF AddIndexes
  <2>2. Len(r) \in Nat /\ \A i \in 1 .. Len(r) : r[i] \in Nat
    BY RangesAscend
  <2> QED
    BY <2>1, <2>2, AddEachAscends
<1>2. CASE SetIndexes
  BY <1>2, RangesAscend DEF SetIndexes
<1>3. CASE RemoveIndexes
  <2>1. PICK r \in Ranges \cup {EveryOther(indexes)} : indexes' = RemoveEach(indexes, r)
    BY <1>3 DEF RemoveIndexes
  <2>2. Len(r) \in Nat
    <3>1. CASE r \in Ranges
      BY <3>1, RangesAscend
    <3>2. CASE r = EveryOther(indexes)
      <4> DEFINE n == (Len(indexes) + 1) \div 2
      <4>1. n \in Nat
        BY DEF Ascending
      <4>2. r = [i \in 1 .. n |-> indexes[2 * i - 1]]
        BY <3>2 DEF EveryOther
      <4> HIDE DEF n
      <4>3. Len(r) = n
        BY <4>1, <4>2
      <4> QED
        BY <4>1, <4>3
    <3> QED
      BY <2>1, <3>1, <3>2
  <2> QED
    BY <2>1, <2>2, RemoveEachAscends
<1> QED
  BY <1>1, <1>2, <1>3 DEF NextIndexes

LEMMA AscendingIsSorted ==
    ASSUME Ascending(indexes)
    PROVE  Sorted
<1> DEFINE s == indexes
<1>1. /\ s \in Seq(Nat) /\ Len(s) \in Nat /\ DOMAIN s = 1 .. Len(s)
      /\ \A i \in 1 .. Len(s) : s[i] \in Nat
      /\ \A i, j \in 1 .. Len(s) : i < j => s[i] <= s[j]
  BY DEF Ascending
<1>2. Range(s) = {s[i] : i \in 1 .. Len(s)}
  BY <1>1 DEF Range
<1>3. ASSUME NEW x \in Range(s)
      PROVE  FirstIndex(s) <= x /\ x <= LastIndex(s)
  <2>1. PICK i \in 1 .. Len(s) : s[i] = x
    BY <1>2, <1>3
  <2>2. s # <<>> /\ 1 \in 1 .. Len(s) /\ Len(s) \in 1 .. Len(s)
    BY <1>1, <2>1
  <2>3. FirstIndex(s) = s[1] /\ LastIndex(s) = s[Len(s)]
    BY <2>2 DEF FirstIndex, LastIndex
  <2>4. s[1] <= s[i]
    BY <1>1, <2>2
  <2>5. s[i] <= s[Len(s)]
    BY <1>1, <2>2
  <2> QED
    BY <2>1, <2>3, <2>4, <2>5
<1>4. 0 \notin Range(s) => AllData(s) = s
  <2> SUFFICES ASSUME 0 \notin Range(s) PROVE AllData(s) = s
    OBVIOUS
  <2>1. {i \in DOMAIN s : s[i] = 0} = {}
    BY <1>1, <1>2
  <2> QED
    BY <2>1 DEF AllData
<1>5. ASSUME NEW r \in Ranges
      PROVE  ContainsInRange(s, r) <=> Range(r) \subseteq Range(s)
  BY DEF ContainsInRange, Includes, Range
<1> QED
  BY <1>1, <1>3, <1>4, <1>5 DEF Sorted

\* An enumeration gives all that is there once: of a table whatever the hash callback gives and
\* however often values are replaced or members counted again while it runs, of an index set in
\* ascending order, however ranges were added and removed.
THEOREM EverythingIsEnumerated == CollectionsSpec => []AllEnumerated
<1>1. Init => TableIsRight /\ EnumeratorIsRight
  BY InitIsRight DEF Init, EnumeratorIsRight
<1>2. TableIsRight /\ EnumeratorIsRight /\ [Next]_vars => TableIsRight' /\ EnumeratorIsRight'
  BY NextStep, EnumeratorGoesOn
<1>3. CollectionsInit => Init /\ Ascending(indexes)
  <2>1. Ascending(<<>>)
    BY DEF Ascending
  <2> QED
    BY <2>1, RangesAscend DEF CollectionsInit, InitIndexes
<1>4. [CollectionsNext]_<<vars, indexes>> => [Next]_vars
  BY DEF CollectionsNext, vars
<1>5. Ascending(indexes) /\ [CollectionsNext]_<<vars, indexes>> => Ascending(indexes)'
  <2> SUFFICES ASSUME Ascending(indexes), [CollectionsNext]_<<vars, indexes>>
               PROVE  Ascending(indexes')
    BY DEF Ascending
  <2>1. CASE indexes' = indexes
    BY <2>1
  <2>2. CASE NextIndexes
    BY <2>2, IndexStep
  <2> QED
    BY <2>1, <2>2 DEF CollectionsNext
<1>6. TableIsRight /\ EnumeratorIsRight /\ Ascending(indexes) => AllEnumerated
  BY DoneIsAll, AscendingIsSorted DEF AllEnumerated
<1> QED
  BY <1>1, <1>2, <1>3, <1>4, <1>5, <1>6, PTL DEF CollectionsSpec

=============================================================================
