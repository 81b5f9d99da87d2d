---------------------------- MODULE MemoryProofs ----------------------------
(***************************************************************************)
(* Proofs about Memory, for any threads, instances and pools of a program  *)
(* that keeps the rules: the retain count of an instance is the number of  *)
(* references to it, and it is deallocated once, when there are none.      *)
(***************************************************************************)
EXTENDS Memory, Lists, FiniteSetTheorems

Chunk == {s \in Seq(Instances \cup {Nil}) : Len(s) <= BlockSize}
BlockRecord == [freed : BOOLEAN, instances : Chunk]
PoolsRecord == [Threads -> Seq(Seq(BlockRecord))]

Kinds == {"dealloc", "drain", "dispose", "create"}
CallRecord ==
    [kind : Kinds, of : Instances \cup {Nil}, pool : Nat, block : Nat, at : Nat, length : Nat]

TypeInv ==
    /\ magic \in [Instances -> {"none", "valid", "released"}]
    /\ count \in [Instances -> 0 .. Modulus - 1]
    /\ contents \in [Instances -> SUBSET Instances]
    /\ own \in [Threads -> [Slots -> Instances \cup {Nil}]]
    /\ thread \in [Threads -> {"none", "creating", "running", "exiting", "exited"}]
    /\ argument \in [Threads -> Instances \cup {Nil}]
    /\ pools \in PoolsRecord
    /\ work \in [Threads -> Seq(CallRecord)]
    /\ aborted = FALSE /\ wild = FALSE

-----------------------------------------------------------------------------
(* The inductive invariant *)

OwnedAt(x) == {p \in Threads \X Slots : own[p[1]][p[2]] = x}
HeldBy(x) == {c \in Instances : x \in contents[c]}
GivenTo(x) == {t \in Threads : argument[t] = x}
PooledAt(x) == UNION {{<<t, p>> : p \in Pooled(t, x)} : t \in Threads}

\* The noisy instances whose enumerator has been made.
Enumerated == {x \in Noisy : magic[Enumerator[x]] # "none"}

\* The references to an instance are counted, and never so many that the count comes round.
CountsAgree ==
    \A x \in Instances :
        /\ IsFiniteSet(PooledAt(x)) /\ count[x] = References(x)
        /\ count[x] > 0 => magic[x] = "valid"
        /\ count[x] <= MaxReferences + Cardinality(Enumerated)

Deallocates(t, n, x) == n \in DOMAIN work[t] /\ work[t][n].kind = "dealloc" /\ work[t][n].of = x

\* What is there without a reference is being deallocated, in one call.
DeallocsAgree ==
    \A x \in Instances :
        /\ magic[x] = "valid" /\ count[x] = 0 => \E t \in Threads : \E n \in Nat : Deallocates(t, n, x)
        /\ \A t \in Threads : \A n \in Nat : Deallocates(t, n, x) => magic[x] = "valid" /\ count[x] = 0
        /\ \A t, u \in Threads : \A m, n \in Nat :
               Deallocates(t, m, x) /\ Deallocates(u, n, x) => t = u /\ m = n
        /\ magic[x] # "valid" => contents[x] = {}

\* The calls of a thread drain the pool k of its stack.
Drains(calls, k) == calls # <<>> /\ calls[1].kind \in {"drain", "dispose"} /\ calls[1].pool = k

\* What a drain has passed is gone: the instances of its block, and the blocks behind it.
DrainIsPlaced(stack, c) ==
    /\ c.pool \in 1 .. Len(stack) /\ (c.kind = "dispose" => c.pool = Len(stack))
    /\ c.block \in 0 .. Len(stack[c.pool]) /\ c.at \in 1 .. c.length + 1
    /\ c.length = IF c.block = 0 THEN 0 ELSE Len(stack[c.pool][c.block].instances)
    /\ \A i \in 1 .. c.at - 1 : stack[c.pool][c.block].instances[i] = Nil
    /\ \A b \in c.block + 1 .. Len(stack[c.pool]) : stack[c.pool][b].instances = <<>>

\* A drain or the creation of a thread is the outermost call, and so is the deallocation of an
\* instance that needs the current pool.
IsPlaced(stack, state, n, c) ==
    /\ c.kind = "dealloc" => c.of \in Instances /\ c \in {Dealloc(c.of), Call("dealloc", c.of, 0, 0, 1, 0)}
    /\ c.kind # "dealloc" => n = 1
    /\ c.of \in Noisy => n = 1 /\ c.kind = "dealloc" /\ state = "running" /\ stack # <<>>
    /\ c.kind \in {"drain", "dispose"} => DrainIsPlaced(stack, c)

ArePlaced(calls, stack, state) ==
    \A n \in 1 .. Len(calls) :
        IsPlaced(stack, state, n, calls[n]) /\ (calls[n].kind = "create" => Len(calls) = 1)

CallsArePlaced == \A t \in Threads : ArePlaced(work[t], pools[t], thread[t])

\* Only a drain that is under way leaves freed blocks and pointers that stay behind.
IsWhole(stack, calls) ==
    \A k \in 1 .. Len(stack) : \A b \in 1 .. Len(stack[k]) :
        /\ stack[k][b].freed = TRUE => Drains(calls, k) /\ calls[1].block < b
        /\ \A i \in 1 .. Len(stack[k][b].instances) :
               stack[k][b].instances[i] = Nil =>
                   Drains(calls, k) /\ calls[1].block = b /\ i < calls[1].at

PoolsAreWhole == \A t \in Threads : IsWhole(pools[t], work[t])

\* Only variables refer to what needs a pool to die, and its enumerator is made once.
OnlyOwned(x) == HeldBy(x) = {} /\ GivenTo(x) = {} /\ PooledAt(x) = {}
IsEnumerating(x) == \E t \in Threads : \E n \in Nat : Deallocates(t, n, x) /\ work[t][n].at = 1

NoisyAreOwned ==
    \A x \in Noisy :
        OnlyOwned(x) /\ (x \in Enumerated => magic[x] = "released" \/ IsEnumerating(x))

ThreadsArePlaced ==
    /\ thread[Main] = "running"
    /\ \A t \in Threads :
           /\ thread[t] = "none" => argument[t] = Nil
           /\ t # Main /\ thread[t] \in {"creating", "running", "exiting"} => argument[t] \in Instances
           /\ thread[t] \in {"none", "creating", "exiting"} => work[t] = <<>>

IInv ==
    /\ TypeInv /\ CountsAgree /\ DeallocsAgree /\ CallsArePlaced /\ PoolsAreWhole
    /\ NoisyAreOwned /\ ThreadsArePlaced

-----------------------------------------------------------------------------
(* Sets and numbers *)

LEMMA OneMore ==
    ASSUME NEW S, IsFiniteSet(S), NEW a, a \notin S
    PROVE  /\ IsFiniteSet(S \cup {a}) /\ Cardinality(S) \in Nat
           /\ Cardinality(S \cup {a}) = Cardinality(S) + 1
BY FS_AddElement, FS_CardinalityType

LEMMA OneLess ==
    ASSUME NEW S, NEW T, IsFiniteSet(S), NEW a, a \notin T, S = T \cup {a}
    PROVE  /\ IsFiniteSet(T) /\ Cardinality(T) \in Nat
           /\ Cardinality(S) = Cardinality(T) + 1
<1>1. T \in SUBSET S
  OBVIOUS
<1>2. IsFiniteSet(T)
  BY <1>1, FS_Subset
<1> QED
  BY <1>2, OneMore

LEMMA BelowModulus ==
    ASSUME NEW n \in Nat, n < Modulus
    PROVE  n % Modulus = n
BY MemoryAssumption

LEMMA ConstantsAreFinite ==
    /\ \A S \in SUBSET (Threads \X Slots) : IsFiniteSet(S)
    /\ \A S \in SUBSET Instances : IsFiniteSet(S)
    /\ \A S \in SUBSET Threads : IsFiniteSet(S)
<1>1. IsFiniteSet(Threads \X Slots)
  BY FS_Product, MemoryAssumption
<1> QED
  BY <1>1, FS_Subset, MemoryAssumption

-----------------------------------------------------------------------------
(* References *)

Refs(x) == <<OwnedAt(x), HeldBy(x), GivenTo(x), PooledAt(x)>>

\* One set is another with one element more.
Plus(S, T) == \E p : p \notin S /\ T = S \cup {p}

Same(x) == Refs(x)' = Refs(x)

Gained(x) ==
    \E k \in 1 .. 4 : Plus(Refs(x)[k], Refs(x)'[k]) /\ \A j \in (1 .. 4) \ {k} : Refs(x)'[j] = Refs(x)[j]

Lost(x) ==
    \E k \in 1 .. 4 : Plus(Refs(x)'[k], Refs(x)[k]) /\ \A j \in (1 .. 4) \ {k} : Refs(x)'[j] = Refs(x)[j]

LEMMA ReferencesAre ==
    ASSUME NEW x, IsFiniteSet(PooledAt(x))
    PROVE  /\ References(x) = Cardinality(OwnedAt(x)) + Cardinality(HeldBy(x))
                                + Cardinality(GivenTo(x)) + Cardinality(PooledAt(x))
           /\ IsFiniteSet(OwnedAt(x)) /\ IsFiniteSet(HeldBy(x)) /\ IsFiniteSet(GivenTo(x))
           /\ Cardinality(OwnedAt(x)) \in Nat /\ Cardinality(HeldBy(x)) \in Nat
           /\ Cardinality(GivenTo(x)) \in Nat /\ Cardinality(PooledAt(x)) \in Nat
           /\ References(x) \in Nat
           /\ References(x) = 0 <=> Refs(x) = <<{}, {}, {}, {}>>
<1>1. OwnedAt(x) \in SUBSET (Threads \X Slots) /\ HeldBy(x) \in SUBSET Instances
      /\ GivenTo(x) \in SUBSET Threads
  BY DEF OwnedAt, HeldBy, GivenTo
<1>2. IsFiniteSet(OwnedAt(x)) /\ IsFiniteSet(HeldBy(x)) /\ IsFiniteSet(GivenTo(x))
  BY <1>1, ConstantsAreFinite
<1>3. References(x) = Cardinality(OwnedAt(x)) + Cardinality(HeldBy(x))
                        + Cardinality(GivenTo(x)) + Cardinality(PooledAt(x))
  BY DEF References, OwnedAt, HeldBy, GivenTo, PooledAt
<1>4. Cardinality(OwnedAt(x)) \in Nat /\ Cardinality(HeldBy(x)) \in Nat
      /\ Cardinality(GivenTo(x)) \in Nat /\ Cardinality(PooledAt(x)) \in Nat
  BY <1>2, FS_CardinalityType
<1>5. /\ Cardinality(OwnedAt(x)) = 0 <=> OwnedAt(x) = {}
      /\ Cardinality(HeldBy(x)) = 0 <=> HeldBy(x) = {}
      /\ Cardinality(GivenTo(x)) = 0 <=> GivenTo(x) = {}
      /\ Cardinality(PooledAt(x)) = 0 <=> PooledAt(x) = {}
  BY <1>2, FS_EmptySet
<1> QED
  BY <1>2, <1>3, <1>4, <1>5 DEF Refs

LEMMA ReferencesBecome ==
    ASSUME NEW x, IsFiniteSet(PooledAt(x)')
    PROVE  /\ References(x)' = Cardinality(OwnedAt(x)') + Cardinality(HeldBy(x)')
                                 + Cardinality(GivenTo(x)') + Cardinality(PooledAt(x)')
           /\ IsFiniteSet(OwnedAt(x)') /\ IsFiniteSet(HeldBy(x)') /\ IsFiniteSet(GivenTo(x)')
           /\ Cardinality(OwnedAt(x)') \in Nat /\ Cardinality(HeldBy(x)') \in Nat
           /\ Cardinality(GivenTo(x)') \in Nat /\ Cardinality(PooledAt(x)') \in Nat
           /\ References(x)' \in Nat
<1>1. OwnedAt(x)' \in SUBSET (Threads \X Slots) /\ HeldBy(x)' \in SUBSET Instances
      /\ GivenTo(x)' \in SUBSET Threads
  BY DEF OwnedAt, HeldBy, GivenTo
<1>2. IsFiniteSet(OwnedAt(x)') /\ IsFiniteSet(HeldBy(x)') /\ IsFiniteSet(GivenTo(x)')
  BY <1>1, ConstantsAreFinite
<1>3. References(x)' = Cardinality(OwnedAt(x)') + Cardinality(HeldBy(x)')
                         + Cardinality(GivenTo(x)') + Cardinality(PooledAt(x)')
  BY DEF References, OwnedAt, HeldBy, GivenTo, PooledAt
<1>4. Cardinality(OwnedAt(x)') \in Nat /\ Cardinality(HeldBy(x)') \in Nat
      /\ Cardinality(GivenTo(x)') \in Nat /\ Cardinality(PooledAt(x)') \in Nat
  BY <1>2, FS_CardinalityType
<1> QED
  BY <1>2, <1>3, <1>4

LEMMA PlusCounts ==
    ASSUME NEW S, NEW T, IsFiniteSet(S) \/ IsFiniteSet(T), Plus(S, T)
    PROVE  /\ IsFiniteSet(S) /\ IsFiniteSet(T)
           /\ Cardinality(T) = Cardinality(S) + 1 /\ Cardinality(S) \in Nat
<1>1. PICK p : p \notin S /\ T = S \cup {p}
  BY DEF Plus
<1>2. CASE IsFiniteSet(S)
  BY <1>1, <1>2, OneMore
<1>3. CASE IsFiniteSet(T)
  BY <1>1, <1>3, OneLess, OneMore
<1> QED
  BY <1>2, <1>3

LEMMA SameCounts ==
    ASSUME NEW x, IsFiniteSet(PooledAt(x)), Same(x)
    PROVE  IsFiniteSet(PooledAt(x)') /\ References(x)' = References(x)
<1>1. /\ OwnedAt(x)' = OwnedAt(x) /\ HeldBy(x)' = HeldBy(x)
      /\ GivenTo(x)' = GivenTo(x) /\ PooledAt(x)' = PooledAt(x)
  BY DEF Same, Refs
<1>2. IsFiniteSet(PooledAt(x)')
  BY <1>1
<1> QED
  BY <1>1, <1>2, ReferencesAre, ReferencesBecome

\* One of four sets has one element more.
LEMMA OneOfFour ==
    ASSUME NEW r, NEW s, NEW k \in 1 .. 4, Plus(r[k], s[k]),
           \A j \in (1 .. 4) \ {k} : s[j] = r[j],
           \A j \in (1 .. 4) \ {k} : IsFiniteSet(r[j]),
           IsFiniteSet(r[k]) \/ IsFiniteSet(s[k])
    PROVE  /\ \A j \in 1 .. 4 : IsFiniteSet(r[j]) /\ IsFiniteSet(s[j]) /\ Cardinality(r[j]) \in Nat
           /\ Cardinality(s[1]) + Cardinality(s[2]) + Cardinality(s[3]) + Cardinality(s[4])
                = Cardinality(r[1]) + Cardinality(r[2]) + Cardinality(r[3]) + Cardinality(r[4]) + 1
<1>1. /\ IsFiniteSet(r[k]) /\ IsFiniteSet(s[k])
      /\ Cardinality(s[k]) = Cardinality(r[k]) + 1
  BY PlusCounts
<1>2. \A j \in 1 .. 4 : IsFiniteSet(r[j]) /\ IsFiniteSet(s[j]) /\ Cardinality(r[j]) \in Nat
  BY <1>1, FS_CardinalityType
<1>3. \A j \in 1 .. 4 : Cardinality(s[j]) = IF j = k THEN Cardinality(r[j]) + 1 ELSE Cardinality(r[j])
  BY <1>1
<1>4. k \in {1, 2, 3, 4} /\ 1 \in 1 .. 4 /\ 2 \in 1 .. 4 /\ 3 \in 1 .. 4 /\ 4 \in 1 .. 4
  OBVIOUS
<1>5. /\ Cardinality(s[1]) = IF 1 = k THEN Cardinality(r[1]) + 1 ELSE Cardinality(r[1])
      /\ Cardinality(s[2]) = IF 2 = k THEN Cardinality(r[2]) + 1 ELSE Cardinality(r[2])
      /\ Cardinality(s[3]) = IF 3 = k THEN Cardinality(r[3]) + 1 ELSE Cardinality(r[3])
      /\ Cardinality(s[4]) = IF 4 = k THEN Cardinality(r[4]) + 1 ELSE Cardinality(r[4])
  BY <1>3, <1>4
<1> QED
  BY <1>2, <1>4, <1>5

LEMMA GainedCounts ==
    ASSUME NEW x, IsFiniteSet(PooledAt(x)), Gained(x)
    PROVE  IsFiniteSet(PooledAt(x)') /\ References(x)' = References(x) + 1
<1>1. PICK k \in 1 .. 4 :
          /\ Plus(Refs(x)[k], Refs(x)'[k])
          /\ \A j \in (1 .. 4) \ {k} : Refs(x)'[j] = Refs(x)[j]
  BY DEF Gained
<1>2. /\ Refs(x)[1] = OwnedAt(x) /\ Refs(x)[2] = HeldBy(x)
      /\ Refs(x)[3] = GivenTo(x) /\ Refs(x)[4] = PooledAt(x)
      /\ Refs(x)'[1] = OwnedAt(x)' /\ Refs(x)'[2] = HeldBy(x)'
      /\ Refs(x)'[3] = GivenTo(x)' /\ Refs(x)'[4] = PooledAt(x)'
  BY DEF Refs
<1>3. \A j \in 1 .. 4 : IsFiniteSet(Refs(x)[j])
  <2>1. \A j \in 1 .. 4 : j \in {1, 2, 3, 4}
    OBVIOUS
  <2> QED
    BY <1>2, <2>1, ReferencesAre
<1> DEFINE r == Refs(x)
           s == Refs(x)'
<1>4. /\ \A j \in 1 .. 4 : IsFiniteSet(s[j])
      /\ Cardinality(s[1]) + Cardinality(s[2]) + Cardinality(s[3]) + Cardinality(s[4])
           = Cardinality(r[1]) + Cardinality(r[2]) + Cardinality(r[3]) + Cardinality(r[4]) + 1
  BY <1>1, <1>3, OneOfFour
<1>5. IsFiniteSet(PooledAt(x)')
  BY <1>2, <1>4
<1> QED
  BY <1>2, <1>4, <1>5, ReferencesAre, ReferencesBecome

LEMMA LostCounts ==
    ASSUME NEW x, IsFiniteSet(PooledAt(x)), Lost(x)
    PROVE  IsFiniteSet(PooledAt(x)') /\ References(x) = References(x)' + 1
<1>1. PICK k \in 1 .. 4 :
          /\ Plus(Refs(x)'[k], Refs(x)[k])
          /\ \A j \in (1 .. 4) \ {k} : Refs(x)'[j] = Refs(x)[j]
  BY DEF Lost
<1>2. /\ Refs(x)[1] = OwnedAt(x) /\ Refs(x)[2] = HeldBy(x)
      /\ Refs(x)[3] = GivenTo(x) /\ Refs(x)[4] = PooledAt(x)
      /\ Refs(x)'[1] = OwnedAt(x)' /\ Refs(x)'[2] = HeldBy(x)'
      /\ Refs(x)'[3] = GivenTo(x)' /\ Refs(x)'[4] = PooledAt(x)'
  BY DEF Refs
<1>3. \A j \in 1 .. 4 : IsFiniteSet(Refs(x)[j])
  <2>1. \A j \in 1 .. 4 : j \in {1, 2, 3, 4}
    OBVIOUS
  <2> QED
    BY <1>2, <2>1, ReferencesAre
<1> DEFINE r == Refs(x)'
           s == Refs(x)
<1>4. /\ \A j \in 1 .. 4 : IsFiniteSet(r[j])
      /\ Cardinality(s[1]) + Cardinality(s[2]) + Cardinality(s[3]) + Cardinality(s[4])
           = Cardinality(r[1]) + Cardinality(r[2]) + Cardinality(r[3]) + Cardinality(r[4]) + 1
  BY <1>1, <1>3, OneOfFour
<1>5. IsFiniteSet(PooledAt(x)')
  BY <1>2, <1>4
<1> QED
  BY <1>2, <1>4, <1>5, ReferencesAre, ReferencesBecome

-----------------------------------------------------------------------------
(* What a change of one variable makes of the references *)

LEMMA OwnChanges ==
    ASSUME own \in [Threads -> [Slots -> Instances \cup {Nil}]],
           NEW t \in Threads, NEW v \in Slots, NEW w, own' = [own EXCEPT ![t][v] = w],
           NEW x
    PROVE  /\ OwnedAt(x)' = (OwnedAt(x) \ {<<t, v>>}) \cup (IF x = w THEN {<<t, v>>} ELSE {})
           /\ <<t, v>> \in OwnedAt(x) <=> own[t][v] = x
<1>1. \A u \in Threads : \A s \in Slots : own'[u][s] = IF u = t /\ s = v THEN w ELSE own[u][s]
  OBVIOUS
<1>2. \A p \in Threads \X Slots : p = <<p[1], p[2]>> /\ p[1] \in Threads /\ p[2] \in Slots
  OBVIOUS
<1>3. \A p \in Threads \X Slots :
          own'[p[1]][p[2]] = IF p = <<t, v>> THEN w ELSE own[p[1]][p[2]]
  BY <1>1, <1>2
<1>4. <<t, v>> \in Threads \X Slots /\ <<t, v>>[1] = t /\ <<t, v>>[2] = v
  OBVIOUS
<1>5. \A p : p \in OwnedAt(x)' <=> p \in Threads \X Slots /\ own'[p[1]][p[2]] = x
  BY DEF OwnedAt
<1>6. \A p : p \in OwnedAt(x) <=> p \in Threads \X Slots /\ own[p[1]][p[2]] = x
  BY DEF OwnedAt
<1>7. <<t, v>> \in OwnedAt(x) <=> own[t][v] = x
  BY <1>4, <1>6
<1>8. ASSUME NEW p
      PROVE  p \in OwnedAt(x)' <=> p \in (OwnedAt(x) \ {<<t, v>>}) \cup (IF x = w THEN {<<t, v>>} ELSE {})
  BY <1>3, <1>4, <1>5, <1>6
<1> QED
  BY <1>7, <1>8

LEMMA VariableTakes ==
    ASSUME own \in [Threads -> [Slots -> Instances \cup {Nil}]],
           NEW t \in Threads, NEW v \in Slots, own[t][v] = Nil,
           NEW x \in Instances, own' = [own EXCEPT ![t][v] = x],
           NEW y \in Instances
    PROVE  IF y = x THEN Plus(OwnedAt(y), OwnedAt(y)') ELSE OwnedAt(y)' = OwnedAt(y)
<1>1. Nil # y /\ Nil # x
  BY MemoryAssumption
<1>2. /\ OwnedAt(y)' = (OwnedAt(y) \ {<<t, v>>}) \cup (IF y = x THEN {<<t, v>>} ELSE {})
      /\ <<t, v>> \notin OwnedAt(y)
  BY <1>1, OwnChanges
<1> QED
  BY <1>2 DEF Plus

LEMMA VariableGives ==
    ASSUME own \in [Threads -> [Slots -> Instances \cup {Nil}]],
           NEW t \in Threads, NEW v \in Slots, own[t][v] # Nil,
           own' = [own EXCEPT ![t][v] = Nil],
           NEW y \in Instances
    PROVE  IF y = own[t][v] THEN Plus(OwnedAt(y)', OwnedAt(y)) ELSE OwnedAt(y)' = OwnedAt(y)
<1>1. Nil # y
  BY MemoryAssumption
<1>2. /\ OwnedAt(y)' = (OwnedAt(y) \ {<<t, v>>}) \cup (IF y = Nil THEN {<<t, v>>} ELSE {})
      /\ <<t, v>> \in OwnedAt(y) <=> own[t][v] = y
  BY OwnChanges
<1>3. OwnedAt(y)' = OwnedAt(y) \ {<<t, v>>}
  BY <1>1, <1>2
<1> QED
  BY <1>2, <1>3 DEF Plus

LEMMA MemberAdded ==
    ASSUME contents \in [Instances -> SUBSET Instances],
           NEW c \in Instances, NEW x \in Instances \ contents[c],
           contents' = [contents EXCEPT ![c] = @ \cup {x}],
           NEW y \in Instances
    PROVE  IF y = x THEN Plus(HeldBy(y), HeldBy(y)') ELSE HeldBy(y)' = HeldBy(y)
<1>1. \A d \in Instances : contents'[d] = IF d = c THEN contents[d] \cup {x} ELSE contents[d]
  OBVIOUS
<1>2. \A d : d \in HeldBy(y)' <=> d \in Instances /\ y \in contents'[d]
  BY DEF HeldBy
<1>3. \A d : d \in HeldBy(y) <=> d \in Instances /\ y \in contents[d]
  BY DEF HeldBy
<1>4. CASE y = x
  <2>1. c \notin HeldBy(y) /\ HeldBy(y)' = HeldBy(y) \cup {c}
    BY <1>1, <1>2, <1>3, <1>4
  <2> QED
    BY <1>4, <2>1 DEF Plus
<1>5. CASE y # x
  <2>1. \A d \in Instances : y \in contents'[d] <=> y \in contents[d]
    BY <1>1, <1>5
  <2>2. HeldBy(y)' = HeldBy(y)
    BY <2>1 DEF HeldBy
  <2> QED
    BY <1>5, <2>2
<1> QED
  BY <1>4, <1>5

LEMMA MemberRemoved ==
    ASSUME contents \in [Instances -> SUBSET Instances],
           NEW c \in Instances, NEW x \in contents[c],
           contents' = [contents EXCEPT ![c] = @ \ {x}],
           NEW y \in Instances
    PROVE  IF y = x THEN Plus(HeldBy(y)', HeldBy(y)) ELSE HeldBy(y)' = HeldBy(y)
<1>1. \A d \in Instances : contents'[d] = IF d = c THEN contents[d] \ {x} ELSE contents[d]
  OBVIOUS
<1>2. \A d : d \in HeldBy(y)' <=> d \in Instances /\ y \in contents'[d]
  BY DEF HeldBy
<1>3. \A d : d \in HeldBy(y) <=> d \in Instances /\ y \in contents[d]
  BY DEF HeldBy
<1>4. CASE y = x
  <2>1. c \notin HeldBy(y)' /\ HeldBy(y) = HeldBy(y)' \cup {c}
    BY <1>1, <1>2, <1>3, <1>4
  <2> QED
    BY <1>4, <2>1 DEF Plus
<1>5. CASE y # x
  <2>1. \A d \in Instances : y \in contents'[d] <=> y \in contents[d]
    BY <1>1, <1>5
  <2>2. HeldBy(y)' = HeldBy(y)
    BY <2>1 DEF HeldBy
  <2> QED
    BY <1>5, <2>2
<1> QED
  BY <1>4, <1>5

LEMMA ArgumentTaken ==
    ASSUME argument \in [Threads -> Instances \cup {Nil}],
           NEW u \in Threads, argument[u] = Nil, NEW x \in Instances,
           argument' = [argument EXCEPT ![u] = x],
           NEW y \in Instances
    PROVE  IF y = x THEN Plus(GivenTo(y), GivenTo(y)') ELSE GivenTo(y)' = GivenTo(y)
<1>1. Nil # y
  BY MemoryAssumption
<1>2. \A t \in Threads : argument'[t] = IF t = u THEN x ELSE argument[t]
  OBVIOUS
<1>3. \A t : t \in GivenTo(y)' <=> t \in Threads /\ argument'[t] = y
  BY DEF GivenTo
<1>4. \A t : t \in GivenTo(y) <=> t \in Threads /\ argument[t] = y
  BY DEF GivenTo
<1>5. CASE y = x
  <2>1. u \notin GivenTo(y) /\ GivenTo(y)' = GivenTo(y) \cup {u}
    BY <1>1, <1>2, <1>3, <1>4, <1>5
  <2> QED
    BY <1>5, <2>1 DEF Plus
<1>6. CASE y # x
  BY <1>1, <1>2, <1>3, <1>4, <1>6
<1> QED
  BY <1>5, <1>6

LEMMA ArgumentGiven ==
    ASSUME argument \in [Threads -> Instances \cup {Nil}],
           NEW u \in Threads, argument[u] \in Instances,
           argument' = [argument EXCEPT ![u] = Nil],
           NEW y \in Instances
    PROVE  IF y = argument[u] THEN Plus(GivenTo(y)', GivenTo(y)) ELSE GivenTo(y)' = GivenTo(y)
<1>1. Nil # y
  BY MemoryAssumption
<1>2. \A t \in Threads : argument'[t] = IF t = u THEN Nil ELSE argument[t]
  OBVIOUS
<1>3. \A t : t \in GivenTo(y)' <=> t \in Threads /\ argument'[t] = y
  BY DEF GivenTo
<1>4. \A t : t \in GivenTo(y) <=> t \in Threads /\ argument[t] = y
  BY DEF GivenTo
<1>5. CASE y = argument[u]
  <2>1. u \notin GivenTo(y)' /\ GivenTo(y) = GivenTo(y)' \cup {u}
    BY <1>1, <1>2, <1>3, <1>4, <1>5
  <2> QED
    BY <1>5, <2>1 DEF Plus
<1>6. CASE y # argument[u]
  BY <1>1, <1>2, <1>3, <1>4, <1>6
<1> QED
  BY <1>5, <1>6

-----------------------------------------------------------------------------
(* Pools *)

LEMMA PutIs ==
    ASSUME NEW r \in BlockRecord, NEW s \in Chunk
    PROVE  /\ Put(r, s) \in BlockRecord
           /\ Put(r, s).freed = r.freed /\ Put(r, s).instances = s
<1>1. DOMAIN r = {"freed", "instances"} /\ "instances" # "freed"
  BY Zenon DEF BlockRecord
<1>2. [r EXCEPT !.instances = s].freed = r.freed
  BY <1>1, Zenon
<1>3. [r EXCEPT !.instances = s].instances = s
  BY <1>1, Zenon
<1>4. [r EXCEPT !.instances = s] \in BlockRecord
  BY Zenon DEF BlockRecord
<1> QED
  BY <1>2, <1>3, <1>4, Zenon DEF Put

LEMMA BlockIs ==
    ASSUME NEW x \in Instances \cup {Nil}
    PROVE  /\ Block(<<x>>) \in BlockRecord /\ Block(<<x>>).freed = FALSE
           /\ Block(<<x>>).instances = <<x>>
BY MemoryAssumption DEF Block, BlockRecord, Chunk

LEMMA BlocksAre ==
    ASSUME NEW q \in PoolsRecord, NEW t \in Threads
    PROVE  /\ q[t] \in Seq(Seq(BlockRecord)) /\ Len(q[t]) \in Nat
           /\ \A k \in 1 .. Len(q[t]) :
                  /\ q[t][k] \in Seq(BlockRecord) /\ Len(q[t][k]) \in Nat
                  /\ \A b \in 1 .. Len(q[t][k]) :
                         /\ q[t][k][b] \in BlockRecord /\ q[t][k][b].freed \in BOOLEAN
                         /\ q[t][k][b].instances \in Chunk
                         /\ q[t][k][b].instances \in Seq(Instances \cup {Nil})
                         /\ Len(q[t][k][b].instances) \in Nat
<1>1. q[t] \in Seq(Seq(BlockRecord)) /\ Len(q[t]) \in Nat
  BY DEF PoolsRecord
<1>2. ASSUME NEW k \in 1 .. Len(q[t])
      PROVE  q[t][k] \in Seq(BlockRecord) /\ Len(q[t][k]) \in Nat
  BY <1>1
<1>3. ASSUME NEW k \in 1 .. Len(q[t]), NEW b \in 1 .. Len(q[t][k])
      PROVE  q[t][k][b] \in BlockRecord
  BY <1>2
<1>4. \A r \in BlockRecord :
          /\ r.freed \in BOOLEAN /\ r.instances \in Chunk
          /\ r.instances \in Seq(Instances \cup {Nil}) /\ Len(r.instances) \in Nat
  BY DEF BlockRecord, Chunk
<1> QED
  BY <1>1, <1>2, <1>3, <1>4

PooledIn(q, t, x) ==
    UNION {UNION {{<<k, b, i>> : i \in {j \in DOMAIN q[t][k][b].instances : q[t][k][b].instances[j] = x}}
                  : b \in DOMAIN q[t][k]} : k \in DOMAIN q[t]}
PooledAtIn(q, x) == UNION {{<<t, p>> : p \in PooledIn(q, t, x)} : t \in Threads}

\* Index i of block b of pool k of thread t is x, in the pools q.
Lies(q, t, k, b, i, x) ==
    /\ k \in 1 .. Len(q[t]) /\ b \in 1 .. Len(q[t][k])
    /\ i \in 1 .. Len(q[t][k][b].instances) /\ q[t][k][b].instances[i] = x

LEMMA PlacesAre ==
    ASSUME NEW q \in PoolsRecord, NEW x
    PROVE  \A p : p \in PooledAtIn(q, x) <=>
               \E t \in Threads : \E k, b, i \in Nat : Lies(q, t, k, b, i, x) /\ p = <<t, <<k, b, i>>>>
<1>1. \A p : p \in PooledAtIn(q, x) <=> \E t \in Threads : \E r \in PooledIn(q, t, x) : p = <<t, r>>
  BY DEF PooledAtIn
<1>2. ASSUME NEW t \in Threads, NEW r
      PROVE  r \in PooledIn(q, t, x) <=> \E k, b, i \in Nat : Lies(q, t, k, b, i, x) /\ r = <<k, b, i>>
  <2>1. r \in PooledIn(q, t, x) <=>
            \E k \in DOMAIN q[t] : \E b \in DOMAIN q[t][k] :
                \E i \in DOMAIN q[t][k][b].instances :
                    q[t][k][b].instances[i] = x /\ r = <<k, b, i>>
    BY DEF PooledIn
  <2>2. /\ DOMAIN q[t] = 1 .. Len(q[t])
        /\ \A k \in 1 .. Len(q[t]) :
               /\ DOMAIN q[t][k] = 1 .. Len(q[t][k])
               /\ \A b \in 1 .. Len(q[t][k]) :
                      DOMAIN q[t][k][b].instances = 1 .. Len(q[t][k][b].instances)
    BY BlocksAre
  <2>3. r \in PooledIn(q, t, x) => \E k, b, i \in Nat : Lies(q, t, k, b, i, x) /\ r = <<k, b, i>>
    <3>1. SUFFICES ASSUME NEW k \in 1 .. Len(q[t]), NEW b \in 1 .. Len(q[t][k]),
                          NEW i \in 1 .. Len(q[t][k][b].instances),
                          q[t][k][b].instances[i] = x, r = <<k, b, i>>
                   PROVE  \E l, c, j \in Nat : Lies(q, t, l, c, j, x) /\ r = <<l, c, j>>
      BY <2>1, <2>2, Zenon
    <3>2. k \in Nat /\ b \in Nat /\ i \in Nat
      BY BlocksAre
    <3> QED
      BY <3>1, <3>2 DEF Lies
  <2>4. (\E k, b, i \in Nat : Lies(q, t, k, b, i, x) /\ r = <<k, b, i>>) => r \in PooledIn(q, t, x)
    <3>1. SUFFICES ASSUME NEW k \in Nat, NEW b \in Nat, NEW i \in Nat,
                          Lies(q, t, k, b, i, x), r = <<k, b, i>>
                   PROVE  r \in PooledIn(q, t, x)
      OBVIOUS
    <3>2. /\ k \in DOMAIN q[t] /\ b \in DOMAIN q[t][k]
          /\ i \in DOMAIN q[t][k][b].instances /\ q[t][k][b].instances[i] = x
      BY <2>2, <3>1 DEF Lies
    <3> QED
      BY <2>1, <3>1, <3>2
  <2> QED
    BY <2>3, <2>4
<1> QED
  BY <1>1, <1>2

LEMMA PooledIs ==
    ASSUME NEW x
    PROVE  PooledAt(x) = PooledAtIn(pools, x) /\ PooledAt(x)' = PooledAtIn(pools', x)
BY DEF PooledAt, Pooled, PooledAtIn, PooledIn

KeepsPlaces(q, r, x) ==
    \A t \in Threads : \A k, b, i \in Nat : Lies(r, t, k, b, i, x) <=> Lies(q, t, k, b, i, x)

LEMMA SamePlaces ==
    ASSUME NEW q \in PoolsRecord, NEW r \in PoolsRecord, NEW x, KeepsPlaces(q, r, x)
    PROVE  PooledAtIn(r, x) = PooledAtIn(q, x)
<1>1. \A p : p \in PooledAtIn(r, x) <=> p \in PooledAtIn(q, x)
  BY PlacesAre DEF KeepsPlaces
<1> QED
  BY <1>1

\* One place more has x.
TakesPlace(q, r, t, k, b, i, x) ==
    /\ ~Lies(q, t, k, b, i, x)
    /\ \A u \in Threads : \A l, c, j \in Nat :
           Lies(r, u, l, c, j, x) <=> \/ Lies(q, u, l, c, j, x)
                                      \/ u = t /\ l = k /\ c = b /\ j = i

LEMMA OnePlace ==
    ASSUME NEW q \in PoolsRecord, NEW r \in PoolsRecord, NEW x,
           NEW t \in Threads, NEW k \in Nat, NEW b \in Nat, NEW i \in Nat,
           TakesPlace(q, r, t, k, b, i, x)
    PROVE  Plus(PooledAtIn(q, x), PooledAtIn(r, x))
<1> DEFINE place == <<t, <<k, b, i>>>>
<1>1. \A u \in Threads : \A l, c, j \in Nat :
          place = <<u, <<l, c, j>>>> <=> u = t /\ l = k /\ c = b /\ j = i
  OBVIOUS
<1>2. place \notin PooledAtIn(q, x)
  <2>1. SUFFICES ASSUME NEW u \in Threads, NEW l \in Nat, NEW c \in Nat, NEW j \in Nat,
                        Lies(q, u, l, c, j, x), place = <<u, <<l, c, j>>>>
                 PROVE  FALSE
    BY PlacesAre
  <2> QED
    BY <1>1, <2>1 DEF TakesPlace
<1> HIDE DEF place
<1>3. ASSUME NEW p
      PROVE  p \in PooledAtIn(r, x) <=> p \in PooledAtIn(q, x) \cup {place}
  <2>1. p \in PooledAtIn(r, x) => p \in PooledAtIn(q, x) \cup {place}
    <3>1. SUFFICES ASSUME NEW u \in Threads, NEW l \in Nat, NEW c \in Nat, NEW j \in Nat,
                          Lies(r, u, l, c, j, x), p = <<u, <<l, c, j>>>>
                   PROVE  p \in PooledAtIn(q, x) \cup {place}
      BY PlacesAre
    <3>2. CASE Lies(q, u, l, c, j, x)
      BY <3>1, <3>2, PlacesAre
    <3>3. CASE u = t /\ l = k /\ c = b /\ j = i
      BY <1>1, <3>1, <3>3
    <3> QED
      BY <3>1, <3>2, <3>3 DEF TakesPlace
  <2>2. p \in PooledAtIn(q, x) => p \in PooledAtIn(r, x)
    <3>1. SUFFICES ASSUME NEW u \in Threads, NEW l \in Nat, NEW c \in Nat, NEW j \in Nat,
                          Lies(q, u, l, c, j, x), p = <<u, <<l, c, j>>>>
                   PROVE  p \in PooledAtIn(r, x)
      BY PlacesAre
    <3> QED
      BY <3>1, PlacesAre DEF TakesPlace
  <2>3. p = place => p \in PooledAtIn(r, x)
    <3>1. Lies(r, t, k, b, i, x)
      BY DEF TakesPlace
    <3> QED
      BY <3>1, PlacesAre DEF place
  <2> QED
    BY <2>1, <2>2, <2>3
<1>4. PooledAtIn(r, x) = PooledAtIn(q, x) \cup {place}
  BY <1>3
<1> QED
  BY <1>2, <1>4 DEF Plus

\* Index i of block b of a chain is x.
Stands(chain, b, i, x) ==
    /\ b \in 1 .. Len(chain) /\ i \in 1 .. Len(chain[b].instances) /\ chain[b].instances[i] = x

Changed(q, t, k, m) == [q EXCEPT ![t][k] = m]

LEMMA ChainChanges ==
    ASSUME NEW q \in PoolsRecord, NEW t \in Threads, NEW k \in 1 .. Len(q[t]),
           NEW m \in Seq(BlockRecord), NEW r, r = Changed(q, t, k, m)
    PROVE  /\ r \in PoolsRecord /\ r[t][k] = m /\ \A u \in Threads : Len(r[u]) = Len(q[u])
           /\ \A u \in Threads \ {t} : r[u] = q[u]
           /\ \A l \in (1 .. Len(q[t])) \ {k} : r[t][l] = q[t][l]
           /\ \A u \in Threads : \A l, c, j, y :
                  Lies(r, u, l, c, j, y) <=>
                      IF u = t /\ l = k THEN Stands(m, c, j, y) ELSE Lies(q, u, l, c, j, y)
<1> DEFINE n == [q[t] EXCEPT ![k] = m]
<1>1. q[t] \in Seq(Seq(BlockRecord)) /\ \A u \in Threads : q[u] \in Seq(Seq(BlockRecord))
  BY DEF PoolsRecord
<1>2. n \in Seq(Seq(BlockRecord)) /\ Len(n) = Len(q[t])
      /\ \A l \in 1 .. Len(q[t]) : n[l] = IF l = k THEN m ELSE q[t][l]
  BY <1>1
<1> HIDE DEF n
<1>3. r = [q EXCEPT ![t] = n]
  BY DEF n, Changed
<1>4. r[t] = n /\ \A u \in Threads \ {t} : r[u] = q[u]
  BY <1>3 DEF PoolsRecord
<1>5. r \in PoolsRecord
  BY <1>1, <1>2, <1>3 DEF PoolsRecord
<1>6. r[t][k] = m /\ \A l \in (1 .. Len(q[t])) \ {k} : r[t][l] = q[t][l]
  BY <1>2, <1>4
<1>7. \A u \in Threads : Len(r[u]) = Len(q[u])
  BY <1>2, <1>4
<1>8. ASSUME NEW u \in Threads, NEW l, NEW c, NEW j, NEW y
      PROVE  Lies(r, u, l, c, j, y) <=>
                 IF u = t /\ l = k THEN Stands(m, c, j, y) ELSE Lies(q, u, l, c, j, y)
  <2>1. CASE u = t /\ l = k
    BY <1>6, <1>7, <2>1 DEF Lies, Stands
  <2>2. CASE u = t /\ l # k
    BY <1>6, <1>7, <2>2 DEF Lies
  <2>3. CASE u # t
    BY <1>4, <2>3 DEF Lies
  <2> QED
    BY <2>1, <2>2, <2>3
<1> QED
  BY <1>4, <1>5, <1>6, <1>7, <1>8

\* One place of a chain becomes taken.
Takes(chain, m, b, i, x) ==
    /\ \A c, j, y : Stands(m, c, j, y) <=> Stands(chain, c, j, y) \/ (c = b /\ j = i /\ y = x)
    /\ \A y : ~Stands(chain, b, i, y)

LEMMA NewBlock ==
    ASSUME NEW chain \in Seq(BlockRecord), NEW x \in Instances,
           NEW m, m = Append(chain, Block(<<x>>))
    PROVE  /\ m \in Seq(BlockRecord) /\ Takes(chain, m, Len(chain) + 1, 1, x)
           /\ \A b \in 1 .. Len(m) : m[b].freed = TRUE => b \in 1 .. Len(chain) /\ chain[b].freed = TRUE
<1> DEFINE new == Block(<<x>>)
<1>1. new \in BlockRecord /\ new.freed = FALSE /\ new.instances = <<x>>
  BY BlockIs
<1>2. Len(<<x>>) = 1 /\ <<x>>[1] = x
  OBVIOUS
<1> HIDE DEF new
<1>3. /\ m \in Seq(BlockRecord) /\ Len(m) = Len(chain) + 1 /\ m[Len(chain) + 1] = new
      /\ \A b \in 1 .. Len(chain) : m[b] = chain[b]
  BY <1>1 DEF new
<1>4. ASSUME NEW c, NEW j, NEW y
      PROVE  Stands(m, c, j, y) <=> Stands(chain, c, j, y) \/ (c = Len(chain) + 1 /\ j = 1 /\ y = x)
  <2>1. CASE c = Len(chain) + 1
    <3>1. c \in 1 .. Len(m) /\ c \notin 1 .. Len(chain)
      BY <1>3, <2>1
    <3>2. m[c].instances = <<x>> /\ 1 .. 1 = {1}
      BY <1>1, <1>3, <2>1
    <3> QED
      BY <1>1, <1>2, <1>3, <2>1, <3>1, <3>2 DEF Stands
  <2>2. CASE c # Len(chain) + 1
    <3>1. c \in 1 .. Len(m) <=> c \in 1 .. Len(chain)
      BY <1>3, <2>2
    <3> QED
      BY <1>3, <2>2, <3>1 DEF Stands
  <2> QED
    BY <2>1, <2>2
<1>5. \A y : ~Stands(chain, Len(chain) + 1, 1, y)
  BY DEF Stands
<1>6. \A b \in 1 .. Len(m) : m[b].freed = TRUE => b \in 1 .. Len(chain) /\ chain[b].freed = TRUE
  BY <1>1, <1>3
<1> QED
  BY <1>3, <1>4, <1>5, <1>6 DEF Takes

Filled(chain, x) == [chain EXCEPT ![Len(chain)] = Put(@, Append(@.instances, x))]

LEMMA FullerBlock ==
    ASSUME NEW chain \in Seq(BlockRecord), NEW x \in Instances, chain # <<>>,
           Len(chain[Len(chain)].instances) < BlockSize,
           NEW m, m = Filled(chain, x)
    PROVE  /\ m \in Seq(BlockRecord)
           /\ Takes(chain, m, Len(chain), Len(chain[Len(chain)].instances) + 1, x)
           /\ \A b \in 1 .. Len(m) : m[b].freed = TRUE => b \in 1 .. Len(chain) /\ chain[b].freed = TRUE
<1> DEFINE head == Len(chain)
           s == chain[head].instances
           new == Put(chain[head], Append(s, x))
<1>1. head \in 1 .. Len(chain) /\ chain[head] \in BlockRecord
  OBVIOUS
<1>2. s \in Seq(Instances \cup {Nil}) /\ Len(s) \in Nat
  BY <1>1 DEF BlockRecord, Chunk
<1>3. /\ Append(s, x) \in Seq(Instances \cup {Nil}) /\ Len(Append(s, x)) = Len(s) + 1
      /\ Append(s, x)[Len(s) + 1] = x /\ \A j \in 1 .. Len(s) : Append(s, x)[j] = s[j]
  BY <1>2
<1>4. Append(s, x) \in Chunk
  BY <1>2, <1>3, MemoryAssumption DEF Chunk
<1>5. new \in BlockRecord /\ new.freed = chain[head].freed /\ new.instances = Append(s, x)
  BY <1>1, <1>4, PutIs
<1>6. m = [chain EXCEPT ![head] = new]
  BY DEF Filled
<1> HIDE DEF new, s, head
<1>7. /\ m \in Seq(BlockRecord) /\ Len(m) = Len(chain) /\ m[head] = new
      /\ \A b \in (1 .. Len(chain)) \ {head} : m[b] = chain[b]
  BY <1>1, <1>5, <1>6
<1>8. ASSUME NEW c, NEW j, NEW y
      PROVE  Stands(m, c, j, y) <=> Stands(chain, c, j, y) \/ (c = head /\ j = Len(s) + 1 /\ y = x)
  <2>1. CASE c = head
    <3>1. 1 .. Len(s) + 1 = (1 .. Len(s)) \cup {Len(s) + 1}
      BY <1>2
    <3>2. m[c].instances = Append(s, x) /\ chain[c].instances = s /\ c \in 1 .. Len(m) /\ c \in 1 .. Len(chain)
      BY <1>1, <1>5, <1>7, <2>1 DEF s
    <3>3. Len(s) + 1 \notin 1 .. Len(s)
      BY <1>2
    <3> QED
      BY <1>3, <2>1, <3>1, <3>2, <3>3 DEF Stands
  <2>2. CASE c # head
    BY <1>7, <2>2 DEF Stands
  <2> QED
    BY <2>1, <2>2
<1>9. \A y : ~Stands(chain, head, Len(s) + 1, y)
  BY <1>2 DEF Stands, s
<1>10. \A b \in 1 .. Len(m) : m[b].freed = TRUE => b \in 1 .. Len(chain) /\ chain[b].freed = TRUE
  BY <1>5, <1>7
<1> QED
  BY <1>7, <1>8, <1>9, <1>10 DEF Takes, head, s

\* A pool takes an instance.
LEMMA AutoreleaseAdds ==
    ASSUME pools \in PoolsRecord, NEW t \in Threads, thread[t] # "exited", pools[t] # <<>>,
           \A k \in 1 .. Len(pools[t]) : \A b \in 1 .. Len(pools[t][k]) : pools[t][k][b].freed = FALSE,
           NEW x \in Instances, Autorelease(t, x)
    PROVE  /\ pools' \in PoolsRecord /\ UNCHANGED <<aborted, wild>>
           /\ \A u \in Threads : Len(pools'[u]) = Len(pools[u])
           /\ \A u \in Threads \ {t} : pools'[u] = pools[u]
           /\ \A y : IF y = x THEN Plus(PooledAt(y), PooledAt(y)') ELSE PooledAt(y)' = PooledAt(y)
           /\ \A k \in 1 .. Len(pools[t]) : \A b \in 1 .. Len(pools'[t][k]) : pools'[t][k][b].freed # TRUE
           /\ \A k, b, i : Lies(pools', t, k, b, i, Nil) => Lies(pools, t, k, b, i, Nil)
<1> DEFINE k == Len(pools[t])
           chain == pools[t][k]
           head == Len(chain)
<1>1. k \in 1 .. Len(pools[t]) /\ chain \in Seq(BlockRecord) /\ head \in Nat /\ k \in Nat
  BY BlocksAre DEF PoolsRecord
<1>2. /\ pools' = [pools EXCEPT ![t][k] =
               IF head = 0 \/ Len(chain[head].instances) >= BlockSize
               THEN Append(chain, Block(<<x>>))
               ELSE [chain EXCEPT ![head] = Put(@, Append(@.instances, x))]]
      /\ UNCHANGED <<aborted, wild>>
  <2>1. ~(head > 0 /\ chain[head].freed)
    BY <1>1
  <2> QED
    BY <2>1 DEF Autorelease
<1> DEFINE m == IF head = 0 \/ Len(chain[head].instances) >= BlockSize
                THEN Append(chain, Block(<<x>>))
                ELSE [chain EXCEPT ![head] = Put(@, Append(@.instances, x))]
<1>3. /\ m \in Seq(BlockRecord) /\ \E b, i \in Nat : Takes(chain, m, b, i, x)
      /\ \A b \in 1 .. Len(m) : m[b].freed = TRUE => b \in 1 .. Len(chain) /\ chain[b].freed = TRUE
  <2>1. CASE head = 0 \/ Len(chain[head].instances) >= BlockSize
    <3>1. m = Append(chain, Block(<<x>>))
      BY <2>1
    <3>2. head + 1 \in Nat /\ 1 \in Nat
      BY <1>1
    <3> HIDE DEF m, chain
    <3> QED
      BY <1>1, <3>1, <3>2, NewBlock
  <2>2. CASE ~(head = 0 \/ Len(chain[head].instances) >= BlockSize)
    <3>1. m = Filled(chain, x)
      BY <2>2 DEF Filled
    <3>2. chain # <<>> /\ head \in 1 .. Len(chain)
      BY <1>1, <2>2
    <3>3. Len(chain[head].instances) \in Nat
      BY <1>1, <3>2, BlocksAre
    <3> HIDE DEF m, chain
    <3>4. Len(chain[head].instances) < BlockSize /\ Len(chain[head].instances) + 1 \in Nat
      <4> DEFINE n == Len(chain[head].instances)
      <4>1. n \in Nat /\ ~(n >= BlockSize)
        BY <2>2, <3>3
      <4> HIDE DEF n
      <4>2. n < BlockSize /\ n + 1 \in Nat
        BY <4>1, MemoryAssumption
      <4> QED
        BY <4>2 DEF n
    <3>5. /\ m \in Seq(BlockRecord)
          /\ Takes(chain, m, head, Len(chain[head].instances) + 1, x)
          /\ \A b \in 1 .. Len(m) : m[b].freed = TRUE => b \in 1 .. Len(chain) /\ chain[b].freed = TRUE
      BY <1>1, <3>1, <3>2, <3>4, FullerBlock DEF head
    <3> QED
      BY <1>1, <3>4, <3>5
  <2> QED
    BY <2>1, <2>2
<1>4. pools' = Changed(pools, t, k, m)
  BY <1>2 DEF Changed
<1>5. PICK b \in Nat, i \in Nat : Takes(chain, m, b, i, x)
  BY <1>3
<1> HIDE DEF m, k
<1>6. /\ pools' \in PoolsRecord /\ pools'[t][k] = m /\ \A u \in Threads : Len(pools'[u]) = Len(pools[u])
      /\ \A u \in Threads \ {t} : pools'[u] = pools[u]
      /\ \A l \in (1 .. Len(pools[t])) \ {k} : pools'[t][l] = pools[t][l]
      /\ \A u \in Threads : \A l, c, j, y :
             Lies(pools', u, l, c, j, y) <=>
                 IF u = t /\ l = k THEN Stands(m, c, j, y) ELSE Lies(pools, u, l, c, j, y)
  BY <1>1, <1>3, <1>4, ChainChanges
<1>7. \A u \in Threads : \A l, c, j, y :
          u = t /\ l = k => (Lies(pools, u, l, c, j, y) <=> Stands(chain, c, j, y))
  BY <1>1 DEF Lies, Stands
<1>8. \A u \in Threads : \A l, c, j, y :
          Lies(pools', u, l, c, j, y) <=>
              \/ Lies(pools, u, l, c, j, y)
              \/ u = t /\ l = k /\ c = b /\ j = i /\ y = x
  BY <1>5, <1>6, <1>7 DEF Takes
<1>9. \A y : ~Lies(pools, t, k, b, i, y)
  BY <1>5, <1>7 DEF Takes
<1> HIDE DEF chain, head, k
<1>10. ASSUME NEW y
       PROVE  IF y = x THEN Plus(PooledAt(y), PooledAt(y)') ELSE PooledAt(y)' = PooledAt(y)
  <2>1. CASE y = x
    <3>1. TakesPlace(pools, pools', t, k, b, i, x)
      BY <1>8, <1>9 DEF TakesPlace
    <3>2. Plus(PooledAtIn(pools, x), PooledAtIn(pools', x))
      BY <1>1, <1>6, <3>1, OnePlace
    <3> QED
      BY <2>1, <3>2, PooledIs
  <2>2. CASE y # x
    <3>1. KeepsPlaces(pools, pools', y)
      BY <1>8, <2>2 DEF KeepsPlaces
    <3>2. PooledAtIn(pools', y) = PooledAtIn(pools, y)
      BY <1>6, <3>1, SamePlaces
    <3> QED
      BY <2>2, <3>2, PooledIs
  <2> QED
    BY <2>1, <2>2
<1>11. ASSUME NEW l \in 1 .. Len(pools[t]), NEW c \in 1 .. Len(pools'[t][l])
       PROVE  pools'[t][l][c].freed # TRUE
  <2>1. CASE l = k
    BY <1>1, <1>3, <1>6, <2>1 DEF chain
  <2>2. CASE l # k
    BY <1>6, <2>2
  <2> QED
    BY <2>1, <2>2
<1>12. \A l, c, j : Lies(pools', t, l, c, j, Nil) => Lies(pools, t, l, c, j, Nil)
  BY <1>8, MemoryAssumption
<1> QED
  BY <1>2, <1>6, <1>10, <1>11, <1>12

Cleared(chain, b, i) == [chain EXCEPT ![b] = Put(@, [@.instances EXCEPT ![i] = Nil])]

LEMMA ClearedIs ==
    ASSUME NEW chain \in Seq(BlockRecord), NEW b \in 1 .. Len(chain),
           NEW i \in 1 .. Len(chain[b].instances), NEW m, m = Cleared(chain, b, i)
    PROVE  /\ m \in Seq(BlockRecord) /\ Len(m) = Len(chain) /\ m[b].freed = chain[b].freed
           /\ \A c \in (1 .. Len(chain)) \ {b} : m[c] = chain[c]
           /\ Len(m[b].instances) = Len(chain[b].instances)
           /\ \A j \in 1 .. Len(chain[b].instances) :
                  m[b].instances[j] = IF j = i THEN Nil ELSE chain[b].instances[j]
           /\ \A c, j, y : Stands(m, c, j, y) <=> IF c = b /\ j = i THEN y = Nil ELSE Stands(chain, c, j, y)
<1> DEFINE s == chain[b].instances
           z == [s EXCEPT ![i] = Nil]
           new == Put(chain[b], z)
<1>1. chain[b] \in BlockRecord
  OBVIOUS
<1>2. s \in Seq(Instances \cup {Nil}) /\ Len(s) \in Nat /\ Len(s) <= BlockSize
  BY <1>1 DEF BlockRecord, Chunk
<1>3. /\ z \in Seq(Instances \cup {Nil}) /\ Len(z) = Len(s)
      /\ \A j \in 1 .. Len(s) : z[j] = IF j = i THEN Nil ELSE s[j]
  BY <1>2
<1>4. z \in Chunk
  BY <1>2, <1>3 DEF Chunk
<1> HIDE DEF z
<1>5. new \in BlockRecord /\ new.freed = chain[b].freed /\ new.instances = z
  BY <1>1, <1>4, PutIs
<1>6. m = [chain EXCEPT ![b] = new]
  BY DEF Cleared, z
<1> HIDE DEF new
<1>7. /\ m \in Seq(BlockRecord) /\ Len(m) = Len(chain) /\ m[b] = new
      /\ \A c \in (1 .. Len(chain)) \ {b} : m[c] = chain[c]
  BY <1>5, <1>6
<1>8. ASSUME NEW c, NEW j, NEW y
      PROVE  Stands(m, c, j, y) <=> IF c = b /\ j = i THEN y = Nil ELSE Stands(chain, c, j, y)
  <2>1. CASE c = b
    BY <1>3, <1>5, <1>7, <2>1 DEF Stands
  <2>2. CASE c # b
    BY <1>7, <2>2 DEF Stands
  <2> QED
    BY <2>1, <2>2
<1> QED
  BY <1>3, <1>5, <1>7, <1>8

\* A drain releases one instance.
LEMMA DrainTakesOne ==
    ASSUME pools \in PoolsRecord, NEW t \in Threads, NEW k \in 1 .. Len(pools[t]),
           NEW b \in 1 .. Len(pools[t][k]), NEW i \in 1 .. Len(pools[t][k][b].instances),
           pools[t][k][b].instances[i] \in Instances,
           pools' = Changed(pools, t, k, Cleared(pools[t][k], b, i))
    PROVE  /\ pools' \in PoolsRecord
           /\ \A u \in Threads : Len(pools'[u]) = Len(pools[u])
           /\ \A u \in Threads \ {t} : pools'[u] = pools[u]
           /\ pools'[t][k] = Cleared(pools[t][k], b, i)
           /\ \A l \in (1 .. Len(pools[t])) \ {k} : pools'[t][l] = pools[t][l]
           /\ \A y \in Instances :
                  IF y = pools[t][k][b].instances[i] THEN Plus(PooledAt(y)', PooledAt(y))
                  ELSE PooledAt(y)' = PooledAt(y)
           /\ \A l, c, j : Lies(pools', t, l, c, j, Nil) =>
                  Lies(pools, t, l, c, j, Nil) \/ (l = k /\ c = b /\ j = i)
<1> DEFINE chain == pools[t][k]
           m == Cleared(chain, b, i)
           x == chain[b].instances[i]
<1>1. chain \in Seq(BlockRecord) /\ k \in Nat /\ b \in Nat /\ i \in Nat
  BY BlocksAre
<1> HIDE DEF m
<1>2. /\ m \in Seq(BlockRecord)
      /\ \A c, j, y : Stands(m, c, j, y) <=> IF c = b /\ j = i THEN y = Nil ELSE Stands(chain, c, j, y)
  <2> HIDE DEF chain
  <2>1. b \in 1 .. Len(chain) /\ i \in 1 .. Len(chain[b].instances) /\ m = Cleared(chain, b, i)
    BY DEF chain, m
  <2> QED
    BY <1>1, <2>1, ClearedIs
<1>3. pools' = Changed(pools, t, k, m)
  BY DEF m
<1>4. /\ pools' \in PoolsRecord /\ pools'[t][k] = m /\ \A u \in Threads : Len(pools'[u]) = Len(pools[u])
      /\ \A u \in Threads \ {t} : pools'[u] = pools[u]
      /\ \A l \in (1 .. Len(pools[t])) \ {k} : pools'[t][l] = pools[t][l]
      /\ \A u \in Threads : \A l, c, j, y :
             Lies(pools', u, l, c, j, y) <=>
                 IF u = t /\ l = k THEN Stands(m, c, j, y) ELSE Lies(pools, u, l, c, j, y)
  <2> HIDE DEF chain, x
  <2>1. k \in 1 .. Len(pools[t]) /\ m \in Seq(BlockRecord)
    BY <1>2
  <2> QED
    BY <1>3, <2>1, ChainChanges
<1>5. \A u \in Threads : \A l, c, j, y :
          u = t /\ l = k => (Lies(pools, u, l, c, j, y) <=> Stands(chain, c, j, y))
  BY DEF Lies, Stands
<1>6. \A u \in Threads : \A l, c, j, y :
          Lies(pools', u, l, c, j, y) <=>
              IF u = t /\ l = k /\ c = b /\ j = i THEN y = Nil ELSE Lies(pools, u, l, c, j, y)
  BY <1>2, <1>4, <1>5
<1>7. \A y : Lies(pools, t, k, b, i, y) <=> y = x
  BY DEF Lies
<1>8. ASSUME NEW y \in Instances
      PROVE  IF y = x THEN Plus(PooledAt(y)', PooledAt(y)) ELSE PooledAt(y)' = PooledAt(y)
  <2> HIDE DEF x
  <2>1. CASE y = x
    <3>1. TakesPlace(pools', pools, t, k, b, i, y)
      <4>1. y # Nil
        BY MemoryAssumption
      <4> QED
        BY <1>6, <1>7, <2>1, <4>1 DEF TakesPlace
    <3>2. Plus(PooledAtIn(pools', y), PooledAtIn(pools, y))
      BY <1>1, <1>4, <3>1, OnePlace
    <3> QED
      BY <2>1, <3>2, PooledIs
  <2>2. CASE y # x
    <3>1. y # Nil
      BY MemoryAssumption
    <3>2. KeepsPlaces(pools, pools', y)
      BY <1>6, <1>7, <2>2, <3>1 DEF KeepsPlaces
    <3>3. PooledAtIn(pools', y) = PooledAtIn(pools, y)
      BY <1>4, <3>2, SamePlaces
    <3> QED
      BY <2>2, <3>3, PooledIs
  <2> QED
    BY <2>1, <2>2
<1>9. \A l, c, j : Lies(pools', t, l, c, j, Nil) =>
          Lies(pools, t, l, c, j, Nil) \/ (l = k /\ c = b /\ j = i)
  BY <1>6
<1> QED
  BY <1>4, <1>8, <1>9 DEF m

\* What has no instance may go.
LEMMA NothingLies ==
    ASSUME pools \in PoolsRecord, pools' \in PoolsRecord,
           \A t \in Threads : \A k, b, i : \A y \in Instances :
               Lies(pools', t, k, b, i, y) <=> Lies(pools, t, k, b, i, y)
    PROVE  \A y \in Instances : PooledAt(y)' = PooledAt(y)
<1> SUFFICES ASSUME NEW y \in Instances
             PROVE  PooledAt(y)' = PooledAt(y)
  OBVIOUS
<1>1. KeepsPlaces(pools, pools', y)
  BY DEF KeepsPlaces
<1>2. PooledAtIn(pools', y) = PooledAtIn(pools, y)
  BY <1>1, SamePlaces
<1> QED
  BY <1>2, PooledIs

-----------------------------------------------------------------------------
(* Counts and deallocations *)

LEMMA CountIs ==
    ASSUME TypeInv, CountsAgree, NEW x \in Instances
    PROVE  /\ IsFiniteSet(PooledAt(x)) /\ count[x] = References(x) /\ References(x) \in Nat
           /\ count[x] \in Nat /\ count[x] < Modulus
           /\ magic[x] \in {"none", "valid", "released"} /\ contents[x] \subseteq Instances
<1>1. IsFiniteSet(PooledAt(x)) /\ count[x] = References(x)
  BY DEF CountsAgree
<1>2. References(x) \in Nat
  BY <1>1, ReferencesAre
<1>3. count[x] \in 0 .. Modulus - 1 /\ magic[x] \in {"none", "valid", "released"}
      /\ contents[x] \subseteq Instances
  BY DEF TypeInv
<1> QED
  BY <1>1, <1>2, <1>3, MemoryAssumption

LEMMA EnumeratedIs ==
    /\ IsFiniteSet(Noisy) /\ Cardinality(Noisy) \in Nat
    /\ \A S \in SUBSET Noisy :
           IsFiniteSet(S) /\ Cardinality(S) \in Nat /\ Cardinality(S) <= Cardinality(Noisy)
<1>1. IsFiniteSet(Noisy)
  BY ConstantsAreFinite, MemoryAssumption
<1> QED
  BY <1>1, FS_Subset, FS_CardinalityType

KeepsDeallocs ==
    \A t \in Threads : \A n \in Nat : \A y \in Instances : Deallocates(t, n, y)' <=> Deallocates(t, n, y)

LEMMA QuietCounts ==
    ASSUME TypeInv, CountsAgree, DeallocsAgree, KeepsDeallocs, count' = count, magic' = magic,
           \A y \in Instances : magic[y] # "valid" => contents'[y] = {},
           \A y \in Instances : IsFiniteSet(PooledAt(y)') /\ References(y)' = References(y)
    PROVE  CountsAgree' /\ DeallocsAgree'
<1>1. Enumerated' = Enumerated
  BY DEF Enumerated
<1>2. CountsAgree'
  BY <1>1 DEF CountsAgree
<1>3. DeallocsAgree'
  <2> SUFFICES ASSUME NEW x \in Instances
               PROVE  /\ magic'[x] = "valid" /\ count'[x] = 0 =>
                             \E t \in Threads : \E n \in Nat : Deallocates(t, n, x)'
                      /\ \A t \in Threads : \A n \in Nat :
                             Deallocates(t, n, x)' => magic'[x] = "valid" /\ count'[x] = 0
                      /\ \A t, u \in Threads : \A m, n \in Nat :
                             Deallocates(t, m, x)' /\ Deallocates(u, n, x)' => t = u /\ m = n
                      /\ magic'[x] # "valid" => contents'[x] = {}
    BY DEF DeallocsAgree
  <2>1. \A t \in Threads : \A n \in Nat : Deallocates(t, n, x)' <=> Deallocates(t, n, x)
    BY DEF KeepsDeallocs
  <2> QED
    BY <2>1 DEF DeallocsAgree
<1> QED
  BY <1>2, <1>3

LEMMA SameIsQuiet ==
    ASSUME TypeInv, CountsAgree, \A y \in Instances : Same(y)
    PROVE  \A y \in Instances : IsFiniteSet(PooledAt(y)') /\ References(y)' = References(y)
BY SameCounts DEF CountsAgree

LEMMA RetainCounts ==
    ASSUME TypeInv, CountsAgree, DeallocsAgree, KeepsDeallocs, magic' = magic, NEW x \in Instances,
           Retain(x), 0 < References(x), References(x) < MaxReferences,
           Gained(x), \A y \in Instances \ {x} : Same(y),
           \A y \in Instances : magic[y] # "valid" => contents'[y] = {}
    PROVE  /\ CountsAgree' /\ DeallocsAgree'
           /\ count' \in [Instances -> 0 .. Modulus - 1] /\ aborted' = aborted
<1>1. /\ magic[x] = "valid" /\ count[x] > 0 /\ count[x] \in Nat /\ count[x] = References(x)
      /\ count[x] + 1 < Modulus
  <2>1. count[x] \in Nat /\ count[x] = References(x)
    BY CountIs
  <2>2. magic[x] = "valid" /\ count[x] > 0
    BY <2>1 DEF CountsAgree
  <2>3. MaxReferences \in Nat /\ MaxReferences < Modulus
    BY EnumeratedIs, MemoryAssumption
  <2> QED
    BY <2>1, <2>2, <2>3, MemoryAssumption
<1>2. count' = [count EXCEPT ![x] = count[x] + 1] /\ aborted' = aborted
  <2>1. (count[x] + 1) % Modulus = count[x] + 1
    BY <1>1, BelowModulus
  <2> QED
    BY <1>1, <2>1 DEF Retain
<1>3. count' \in [Instances -> 0 .. Modulus - 1]
  BY <1>1, <1>2, MemoryAssumption DEF TypeInv
<1>4. count'[x] = count[x] + 1 /\ \A y \in Instances \ {x} : count'[y] = count[y]
  BY <1>2 DEF TypeInv
<1>5. Enumerated' = Enumerated /\ Cardinality(Enumerated) \in Nat
  BY EnumeratedIs DEF Enumerated
<1>6. CountsAgree'
  <2> SUFFICES ASSUME NEW y \in Instances
               PROVE  /\ IsFiniteSet(PooledAt(y)') /\ count'[y] = References(y)'
                      /\ count'[y] > 0 => magic'[y] = "valid"
                      /\ count'[y] <= MaxReferences + Cardinality(Enumerated')
    BY DEF CountsAgree
  <2>1. CASE y = x
    <3>1. IsFiniteSet(PooledAt(x)') /\ References(x)' = References(x) + 1
      BY CountIs, GainedCounts
    <3> QED
      BY <1>1, <1>4, <1>5, <2>1, <3>1, MemoryAssumption
  <2>2. CASE y # x
    <3>1. IsFiniteSet(PooledAt(y)') /\ References(y)' = References(y)
      BY <2>2, CountIs, SameCounts
    <3> QED
      BY <1>4, <1>5, <2>2, <3>1 DEF CountsAgree
  <2> QED
    BY <2>1, <2>2
<1>7. DeallocsAgree'
  <2> SUFFICES ASSUME NEW y \in Instances
               PROVE  /\ magic'[y] = "valid" /\ count'[y] = 0 =>
                             \E t \in Threads : \E n \in Nat : Deallocates(t, n, y)'
                      /\ \A t \in Threads : \A n \in Nat :
                             Deallocates(t, n, y)' => magic'[y] = "valid" /\ count'[y] = 0
                      /\ \A t, u \in Threads : \A m, n \in Nat :
                             Deallocates(t, m, y)' /\ Deallocates(u, n, y)' => t = u /\ m = n
                      /\ magic'[y] # "valid" => contents'[y] = {}
    BY DEF DeallocsAgree
  <2>1. \A t \in Threads : \A n \in Nat : Deallocates(t, n, y)' <=> Deallocates(t, n, y)
    BY DEF KeepsDeallocs
  <2>2. CASE y = x
    <3>1. \A t \in Threads : \A n \in Nat : ~Deallocates(t, n, y)
      BY <1>1, <2>2 DEF DeallocsAgree
    <3> QED
      BY <1>1, <1>4, <2>1, <2>2, <3>1
  <2>3. CASE y # x
    <3>1. count'[y] = count[y]
      BY <1>4, <2>3
    <3> QED
      BY <2>1, <3>1 DEF DeallocsAgree
  <2> QED
    BY <2>2, <2>3
<1> QED
  BY <1>2, <1>3, <1>6, <1>7

\* The calls of a thread that deallocate are the same.
SameDeallocs(t, calls) ==
    \A n \in Nat : \A y \in Instances :
        n \in DOMAIN calls /\ calls[n].kind = "dealloc" /\ calls[n].of = y <=> Deallocates(t, n, y)

LEMMA DeallocIs ==
    ASSUME NEW x \in Instances
    PROVE  /\ Dealloc(x) \in CallRecord /\ Dealloc(x).kind = "dealloc" /\ Dealloc(x).of = x
           /\ Dealloc(x).at = 0 /\ Dealloc(x).length = 0
BY DEF Dealloc, Call, CallRecord, Kinds

LEMMA ReleaseCounts ==
    ASSUME TypeInv, CountsAgree, DeallocsAgree, magic' = magic, NEW t \in Threads, NEW x \in Instances,
           NEW calls \in Seq(CallRecord), SameDeallocs(t, calls), Release(t, x, calls),
           Lost(x), \A y \in Instances \ {x} : Same(y),
           \A y \in Instances : magic[y] # "valid" => contents'[y] = {}
    PROVE  /\ CountsAgree' /\ DeallocsAgree'
           /\ count' \in [Instances -> 0 .. Modulus - 1] /\ aborted' = aborted
           /\ work' \in [Threads -> Seq(CallRecord)]
           /\ \A u \in Threads \ {t} : work'[u] = work[u]
           /\ work'[t] = calls \/ work'[t] = Append(calls, Dealloc(x))
<1>1. /\ magic[x] = "valid" /\ count[x] > 0 /\ count[x] \in Nat /\ count[x] = References(x)
      /\ References(x) = References(x)' + 1 /\ IsFiniteSet(PooledAt(x)') /\ References(x)' \in Nat
  <2>1. count[x] \in Nat /\ count[x] = References(x)
    BY CountIs
  <2>2. References(x) = References(x)' + 1 /\ IsFiniteSet(PooledAt(x)')
    BY CountIs, LostCounts
  <2>3. References(x)' \in Nat
    BY <2>2, ReferencesBecome
  <2>4. count[x] > 0
    BY <2>1, <2>2, <2>3
  <2> QED
    BY <2>1, <2>2, <2>3, <2>4 DEF CountsAgree
<1>2. /\ count' = [count EXCEPT ![x] = count[x] - 1] /\ aborted' = aborted
      /\ work' = [work EXCEPT ![t] = IF count[x] = 1 THEN Append(calls, Dealloc(x)) ELSE calls]
  <2>1. (count[x] - 1) % Modulus = count[x] - 1
    <3>1. count[x] - 1 \in Nat /\ count[x] - 1 < Modulus
      BY <1>1, CountIs, MemoryAssumption
    <3> QED
      BY <3>1, BelowModulus
  <2> QED
    BY <1>1, <2>1 DEF Release
<1>3. count' \in [Instances -> 0 .. Modulus - 1]
  <2>1. count[x] - 1 \in 0 .. Modulus - 1
    BY <1>1, CountIs, MemoryAssumption
  <2> QED
    BY <1>2, <2>1 DEF TypeInv
<1>4. count'[x] = count[x] - 1 /\ \A y \in Instances \ {x} : count'[y] = count[y]
  BY <1>2 DEF TypeInv
<1>5. Enumerated' = Enumerated /\ Cardinality(Enumerated) \in Nat
  BY EnumeratedIs DEF Enumerated
<1> DEFINE after == IF count[x] = 1 THEN Append(calls, Dealloc(x)) ELSE calls
<1>6. /\ after \in Seq(CallRecord) /\ Len(calls) \in Nat
      /\ \A n \in 1 .. Len(calls) : after[n] = calls[n]
      /\ Len(after) = IF count[x] = 1 THEN Len(calls) + 1 ELSE Len(calls)
      /\ count[x] = 1 => after[Len(calls) + 1] = Dealloc(x)
  <2>1. Dealloc(x) \in CallRecord
    BY DeallocIs
  <2> HIDE DEF Dealloc
  <2>2. CASE count[x] = 1
    BY <2>1, <2>2
  <2>3. CASE count[x] # 1
    BY <2>3
  <2> QED
    BY <2>2, <2>3
<1>7. work' \in [Threads -> Seq(CallRecord)] /\ work'[t] = after
      /\ \A u \in Threads \ {t} : work'[u] = work[u]
  <2> HIDE DEF after
  <2>1. work' = [work EXCEPT ![t] = after]
    BY <1>2 DEF after
  <2> QED
    BY <1>6, <2>1 DEF TypeInv
<1>8. work'[t] = calls \/ work'[t] = Append(calls, Dealloc(x))
  BY <1>7
<1> HIDE DEF after
<1>9. \A u \in Threads : \A n \in Nat : \A y \in Instances :
          Deallocates(u, n, y)' <=>
              \/ Deallocates(u, n, y)
              \/ count[x] = 1 /\ u = t /\ n = Len(calls) + 1 /\ y = x
  <2> SUFFICES ASSUME NEW u \in Threads, NEW n \in Nat, NEW y \in Instances
               PROVE  Deallocates(u, n, y)' <=>
                          \/ Deallocates(u, n, y)
                          \/ count[x] = 1 /\ u = t /\ n = Len(calls) + 1 /\ y = x
    OBVIOUS
  <2>1. CASE u # t
    BY <1>7, <2>1 DEF Deallocates
  <2>2. CASE u = t
    <3>1. Deallocates(u, n, y)' <=> n \in 1 .. Len(after) /\ after[n].kind = "dealloc" /\ after[n].of = y
      BY <1>6, <1>7, <2>2 DEF Deallocates
    <3>2. Deallocates(u, n, y) <=> n \in 1 .. Len(calls) /\ calls[n].kind = "dealloc" /\ calls[n].of = y
      BY <2>2 DEF SameDeallocs
    <3>3. CASE n \in 1 .. Len(calls)
      <4>1. n \in 1 .. Len(after) /\ after[n] = calls[n] /\ n # Len(calls) + 1
        BY <1>6, <3>3
      <4> QED
        BY <3>1, <3>2, <3>3, <4>1
    <3>4. CASE n \notin 1 .. Len(calls) /\ ~(count[x] = 1 /\ n = Len(calls) + 1)
      <4>1. n \notin 1 .. Len(after)
        BY <1>6, <3>4
      <4> QED
        BY <3>1, <3>2, <3>4, <4>1
    <3>5. CASE count[x] = 1 /\ n = Len(calls) + 1
      <4>1. n \in 1 .. Len(after) /\ after[n] = Dealloc(x) /\ n \notin 1 .. Len(calls)
        BY <1>6, <3>5
      <4>2. after[n].kind = "dealloc" /\ after[n].of = x
        BY <4>1, DeallocIs
      <4> QED
        BY <2>2, <3>1, <3>2, <3>5, <4>1, <4>2
    <3> QED
      BY <3>3, <3>4, <3>5
  <2> QED
    BY <2>1, <2>2
<1>10. CountsAgree'
  <2> SUFFICES ASSUME NEW y \in Instances
               PROVE  /\ IsFiniteSet(PooledAt(y)') /\ count'[y] = References(y)'
                      /\ count'[y] > 0 => magic'[y] = "valid"
                      /\ count'[y] <= MaxReferences + Cardinality(Enumerated')
    BY DEF CountsAgree
  <2>1. CASE y = x
    <3>1. count[x] <= MaxReferences + Cardinality(Enumerated)
      BY DEF CountsAgree
    <3> QED
      BY <1>1, <1>4, <1>5, <2>1, <3>1, MemoryAssumption
  <2>2. CASE y # x
    <3>1. IsFiniteSet(PooledAt(y)') /\ References(y)' = References(y)
      BY <2>2, CountIs, SameCounts
    <3> QED
      BY <1>4, <1>5, <2>2, <3>1 DEF CountsAgree
  <2> QED
    BY <2>1, <2>2
<1>11. DeallocsAgree'
  <2> SUFFICES ASSUME NEW y \in Instances
               PROVE  /\ magic'[y] = "valid" /\ count'[y] = 0 =>
                             \E u \in Threads : \E n \in Nat : Deallocates(u, n, y)'
                      /\ \A u \in Threads : \A n \in Nat :
                             Deallocates(u, n, y)' => magic'[y] = "valid" /\ count'[y] = 0
                      /\ \A u, v \in Threads : \A m, n \in Nat :
                             Deallocates(u, m, y)' /\ Deallocates(v, n, y)' => u = v /\ m = n
                      /\ magic'[y] # "valid" => contents'[y] = {}
    BY DEF DeallocsAgree
  <2>1. CASE y = x
    <3>1. \A u \in Threads : \A n \in Nat : ~Deallocates(u, n, y)
      BY <1>1, <2>1 DEF DeallocsAgree
    <3>2. \A u \in Threads : \A n \in Nat :
              Deallocates(u, n, y)' <=> count[x] = 1 /\ u = t /\ n = Len(calls) + 1
      BY <1>9, <2>1, <3>1
    <3>3. count'[x] = 0 <=> count[x] = 1
      BY <1>1, <1>4
    <3>4. Len(calls) + 1 \in Nat
      BY <1>6
    <3> QED
      BY <1>1, <2>1, <3>2, <3>3, <3>4
  <2>2. CASE y # x
    <3>1. count'[y] = count[y]
      BY <1>4, <2>2
    <3>2. \A u \in Threads : \A n \in Nat : Deallocates(u, n, y)' <=> Deallocates(u, n, y)
      BY <1>9, <2>2
    <3> QED
      BY <3>1, <3>2 DEF DeallocsAgree
  <2> QED
    BY <2>1, <2>2
<1> QED
  BY <1>2, <1>3, <1>7, <1>8, <1>10, <1>11

-----------------------------------------------------------------------------
(* What stays, and what a release adds *)

LEMMA VisibleIsReferenced ==
    ASSUME TypeInv, CountsAgree, NEW t \in Threads, NEW x \in Visible(t)
    PROVE  x \in Instances /\ References(x) > 0 /\ References(x) \in Nat /\ magic[x] = "valid"
<1>1. ASSUME NEW y \in Owned(t)
      PROVE  y \in Instances /\ (OwnedAt(y) # {} \/ GivenTo(y) # {})
  <2>1. CASE y = argument[t]
    BY <2>1 DEF Owned, GivenTo, TypeInv
  <2>2. CASE y \in Range(own[t])
    <3>1. own[t] \in [Slots -> Instances \cup {Nil}]
      BY DEF TypeInv
    <3>2. PICK v \in Slots : own[t][v] = y
      BY <2>2, <3>1 DEF Range
    <3>3. <<t, v>> \in OwnedAt(y)
      BY <3>2 DEF OwnedAt
    <3> QED
      BY <3>1, <3>2, <3>3 DEF Owned
  <2> QED
    BY <2>1, <2>2 DEF Owned
<1>2. x \in Instances /\ Refs(x) # <<{}, {}, {}, {}>>
  <2>1. CASE x \in Owned(t)
    BY <1>1, <2>1 DEF Refs
  <2>2. CASE x \in Instances /\ Pooled(t, x) # {}
    <3>1. PICK p : p \in Pooled(t, x)
      BY <2>2
    <3>2. <<t, p>> \in PooledAt(x)
      BY <3>1 DEF PooledAt
    <3> QED
      BY <2>2, <3>2 DEF Refs
  <2>3. CASE \E c \in Owned(t) : x \in contents[c]
    <3>1. PICK c \in Owned(t) : x \in contents[c]
      BY <2>3
    <3>2. c \in Instances /\ contents[c] \subseteq Instances
      BY <1>1 DEF TypeInv
    <3>3. c \in HeldBy(x)
      BY <3>1, <3>2 DEF HeldBy
    <3> QED
      BY <3>1, <3>2, <3>3 DEF Refs
  <2>4. x \in UNION {contents[c] : c \in Owned(t)} => \E c \in Owned(t) : x \in contents[c]
    OBVIOUS
  <2> HIDE DEF Refs
  <2> QED
    BY <2>1, <2>2, <2>3, <2>4 DEF Visible
<1>3. count[x] = References(x) /\ References(x) \in Nat /\ IsFiniteSet(PooledAt(x))
  BY <1>2, CountIs
<1>4. References(x) # 0
  BY <1>2, <1>3, ReferencesAre
<1> QED
  BY <1>2, <1>3, <1>4 DEF CountsAgree

\* A thread whose calls and pools stay, or that has no calls.
LEMMA CallsStay ==
    ASSUME CallsArePlaced, NEW u \in Threads, work'[u] = work[u],
           work[u] = <<>> \/ (thread'[u] = thread[u] /\ pools'[u] = pools[u])
    PROVE  ArePlaced(work'[u], pools'[u], thread'[u])
<1>1. CASE work[u] = <<>>
  BY <1>1 DEF ArePlaced
<1>2. CASE work[u] # <<>>
  BY <1>2 DEF CallsArePlaced
<1> QED
  BY <1>1, <1>2

LEMMA NoCalls == \A stack, state : ArePlaced(<<>>, stack, state)
BY DEF ArePlaced

\* The calls a release leaves are placed.
LEMMA ReleasePlaces ==
    ASSUME NEW x \in Instances, NEW calls \in Seq(CallRecord), NEW after, NEW stack, NEW state,
           after = calls \/ after = Append(calls, Dealloc(x)), ArePlaced(calls, stack, state),
           \A n \in 1 .. Len(calls) : calls[n].kind # "create",
           x \in Noisy => calls = <<>> /\ state = "running" /\ stack # <<>>
    PROVE  ArePlaced(after, stack, state)
<1>1. CASE after = calls
  BY <1>1
<1>2. CASE after = Append(calls, Dealloc(x))
  <2>1. Dealloc(x).kind = "dealloc" /\ Dealloc(x).of = x /\ Dealloc(x) \in CallRecord
    BY DeallocIs
  <2> HIDE DEF Dealloc
  <2>2. IsPlaced(stack, state, Len(calls) + 1, Dealloc(x))
    <3>1. x \in Noisy => Len(calls) + 1 = 1
      OBVIOUS
    <3> QED
      BY <2>1, <3>1 DEF IsPlaced
  <2>3. /\ Len(after) = Len(calls) + 1 /\ Len(calls) \in Nat
        /\ \A n \in 1 .. Len(calls) : after[n] = calls[n]
        /\ after[Len(calls) + 1] = Dealloc(x)
    BY <1>2, <2>1
  <2> SUFFICES ASSUME NEW n \in 1 .. Len(after)
               PROVE  IsPlaced(stack, state, n, after[n]) /\ after[n].kind # "create"
    BY DEF ArePlaced
  <2>4. CASE n \in 1 .. Len(calls)
    BY <2>3, <2>4 DEF ArePlaced
  <2>5. CASE n = Len(calls) + 1
    BY <2>1, <2>2, <2>3, <2>5
  <2> QED
    BY <2>3, <2>4, <2>5
<1> QED
  BY <1>1, <1>2

\* Pools that stay are whole if the drain stays, or there is none.
LEMMA PoolsStay ==
    ASSUME NEW stack, NEW calls, NEW after, IsWhole(stack, calls),
           \/ after = calls
           \/ calls # <<>> /\ after # <<>> /\ after[1] = calls[1]
           \/ calls = <<>>
           \/ calls # <<>> /\ calls[1].kind \notin {"drain", "dispose"}
    PROVE  IsWhole(stack, after)
<1>1. CASE \A k : ~Drains(calls, k)
  BY <1>1 DEF IsWhole
<1>2. CASE \E k : Drains(calls, k)
  <2>1. after = calls \/ (calls # <<>> /\ after # <<>> /\ after[1] = calls[1])
    BY <1>2 DEF Drains
  <2>2. \A k : Drains(after, k) <=> Drains(calls, k)
    BY <2>1 DEF Drains
  <2>3. after[1] = calls[1]
    BY <2>1
  <2> QED
    BY <2>2, <2>3 DEF IsWhole
<1> QED
  BY <1>1, <1>2

\* The frames of running deallocations stay.
FramesStay ==
    \A t \in Threads : \A n \in Nat : \A x \in Instances :
        Deallocates(t, n, x) => Deallocates(t, n, x)' /\ work'[t][n].at = work[t][n].at

LEMMA NoisyStay ==
    ASSUME NoisyAreOwned, magic' = magic, FramesStay, \A x \in Noisy : OnlyOwned(x)'
    PROVE  NoisyAreOwned'
<1> SUFFICES ASSUME NEW x \in Noisy, x \in Enumerated'
             PROVE  magic'[x] = "released" \/ IsEnumerating(x)'
  BY DEF NoisyAreOwned
<1>1. magic[x] = "released" \/ IsEnumerating(x)
  BY DEF NoisyAreOwned, Enumerated
<1>2. ASSUME IsEnumerating(x)
      PROVE  IsEnumerating(x)'
  <2>1. x \in Instances
    BY MemoryAssumption
  <2>2. PICK t \in Threads, n \in Nat : Deallocates(t, n, x) /\ work[t][n].at = 1
    BY <1>2 DEF IsEnumerating
  <2> QED
    BY <2>1, <2>2 DEF FramesStay, IsEnumerating
<1> QED
  BY <1>1, <1>2

-----------------------------------------------------------------------------
(* Client code *)

\* Without a drain, no block of a thread's pools is freed and nothing stays behind in one.
LEMMA PoolsAreClean ==
    ASSUME TypeInv, PoolsAreWhole, NEW t \in Threads,
           work[t] = <<>> \/ work[t][1].kind \notin {"drain", "dispose"}
    PROVE  /\ \A k \in 1 .. Len(pools[t]) : \A b \in 1 .. Len(pools[t][k]) : pools[t][k][b].freed = FALSE
           /\ \A k, b, i : ~Lies(pools, t, k, b, i, Nil)
<1>1. \A k : ~Drains(work[t], k)
  BY DEF Drains
<1>2. IsWhole(pools[t], work[t]) /\ pools \in PoolsRecord
  BY DEF PoolsAreWhole, TypeInv
<1>3. \A k \in 1 .. Len(pools[t]) : \A b \in 1 .. Len(pools[t][k]) : pools[t][k][b].freed = FALSE
  <2>1. \A k \in 1 .. Len(pools[t]) : \A b \in 1 .. Len(pools[t][k]) : pools[t][k][b].freed \in BOOLEAN
    BY <1>2, BlocksAre
  <2> QED
    BY <1>1, <1>2, <2>1 DEF IsWhole
<1>4. \A k, b, i : ~Lies(pools, t, k, b, i, Nil)
  BY <1>1, <1>2 DEF IsWhole, Lies
<1> QED
  BY <1>3, <1>4

\* Nothing of the pools and the calls changes.
LEMMA QuietThreads ==
    ASSUME CallsArePlaced, PoolsAreWhole, UNCHANGED <<pools, work>>,
           \A u \in Threads : thread'[u] = thread[u] \/ work[u] = <<>>
    PROVE  CallsArePlaced' /\ PoolsAreWhole' /\ KeepsDeallocs /\ FramesStay
<1>1. CallsArePlaced'
  BY CallsStay DEF CallsArePlaced
<1>2. PoolsAreWhole'
  BY DEF PoolsAreWhole
<1> QED
  BY <1>1, <1>2 DEF KeepsDeallocs, FramesStay, Deallocates

LEMMA CreatePreserves ==
    ASSUME IInv, NEW t \in Threads, NEW v \in Slots, NEW x \in Instances, Create(t, v, x)
    PROVE  IInv'
<1>1. /\ own[t][v] = Nil /\ magic[x] = "none" /\ x \notin Helpers
      /\ magic' = [magic EXCEPT ![x] = "valid"] /\ count' = [count EXCEPT ![x] = 1]
      /\ own' = [own EXCEPT ![t][v] = x]
      /\ UNCHANGED <<contents, pools, thread, argument, work, aborted, wild>>
  BY DEF Create
<1>2. /\ TypeInv /\ CountsAgree /\ DeallocsAgree /\ CallsArePlaced /\ PoolsAreWhole
      /\ NoisyAreOwned /\ ThreadsArePlaced
  BY DEF IInv
<1>3. TypeInv'
  <2>1. 1 \in 0 .. Modulus - 1
    BY EnumeratedIs, MemoryAssumption
  <2> QED
    BY <1>1, <1>2, <2>1 DEF TypeInv
<1>4. CallsArePlaced' /\ PoolsAreWhole' /\ KeepsDeallocs /\ FramesStay
  BY <1>1, <1>2, QuietThreads
<1>5. /\ magic'[x] = "valid" /\ count'[x] = 1
      /\ \A y \in Instances \ {x} : magic'[y] = magic[y] /\ count'[y] = count[y]
  BY <1>1, <1>2 DEF TypeInv
<1>6. /\ \A y : HeldBy(y)' = HeldBy(y) /\ GivenTo(y)' = GivenTo(y) /\ PooledAt(y)' = PooledAt(y)
      /\ \A y \in Instances : IF y = x THEN Plus(OwnedAt(y), OwnedAt(y)') ELSE OwnedAt(y)' = OwnedAt(y)
  <2>1. \A y : HeldBy(y)' = HeldBy(y) /\ GivenTo(y)' = GivenTo(y) /\ PooledAt(y)' = PooledAt(y)
    BY <1>1 DEF HeldBy, GivenTo, PooledAt, Pooled
  <2>2. own \in [Threads -> [Slots -> Instances \cup {Nil}]]
    BY <1>2 DEF TypeInv
  <2> QED
    BY <1>1, <2>1, <2>2, VariableTakes
<1>7. Enumerated' = Enumerated /\ Cardinality(Enumerated) \in Nat
  <2>1. \A y \in Noisy : Enumerator[y] \in Helpers
    BY DEF Helpers, Range, Noisy
  <2>2. \A y \in Noisy : Enumerator[y] \in Instances \ {x}
    BY <1>1, <2>1, MemoryAssumption
  <2>3. Enumerated' = Enumerated
    BY <1>5, <2>2 DEF Enumerated
  <2> QED
    BY <2>3, EnumeratedIs DEF Enumerated
<1>8. count[x] = 0 /\ References(x) = 0 /\ IsFiniteSet(PooledAt(x))
  <2>1. count[x] \in Nat /\ count[x] = References(x) /\ IsFiniteSet(PooledAt(x))
    BY <1>2, CountIs
  <2> QED
    BY <1>1, <1>2, <2>1 DEF CountsAgree
<1>9. CountsAgree'
  <2> SUFFICES ASSUME NEW y \in Instances
               PROVE  /\ IsFiniteSet(PooledAt(y)') /\ count'[y] = References(y)'
                      /\ count'[y] > 0 => magic'[y] = "valid"
                      /\ count'[y] <= MaxReferences + Cardinality(Enumerated')
    BY DEF CountsAgree
  <2>1. CASE y = x
    <3>1. Gained(x)
      <4>1. Plus(OwnedAt(x), OwnedAt(x)')
        BY <1>6
      <4> QED
        BY <1>6, <4>1 DEF Gained, Refs
    <3>2. IsFiniteSet(PooledAt(x)') /\ References(x)' = References(x) + 1
      BY <1>8, <3>1, GainedCounts
    <3> QED
      BY <1>5, <1>7, <1>8, <2>1, <3>2, MemoryAssumption
  <2>2. CASE y # x
    <3>1. Same(y)
      BY <1>6, <2>2 DEF Same, Refs
    <3>2. IsFiniteSet(PooledAt(y)') /\ References(y)' = References(y)
      BY <1>2, <3>1, CountIs, SameCounts
    <3> QED
      BY <1>2, <1>5, <1>7, <2>2, <3>2 DEF CountsAgree
  <2> QED
    BY <2>1, <2>2
<1>10. DeallocsAgree'
  <2> SUFFICES ASSUME NEW y \in Instances
               PROVE  /\ magic'[y] = "valid" /\ count'[y] = 0 =>
                             \E u \in Threads : \E n \in Nat : Deallocates(u, n, y)'
                      /\ \A u \in Threads : \A n \in Nat :
                             Deallocates(u, n, y)' => magic'[y] = "valid" /\ count'[y] = 0
                      /\ \A u, w \in Threads : \A m, n \in Nat :
                             Deallocates(u, m, y)' /\ Deallocates(w, n, y)' => u = w /\ m = n
                      /\ magic'[y] # "valid" => contents'[y] = {}
    BY DEF DeallocsAgree
  <2>1. \A u \in Threads : \A n \in Nat : Deallocates(u, n, y)' <=> Deallocates(u, n, y)
    BY <1>4 DEF KeepsDeallocs
  <2>2. CASE y = x
    <3>1. \A u \in Threads : \A n \in Nat : ~Deallocates(u, n, x)
      BY <1>1, <1>2 DEF DeallocsAgree
    <3> QED
      BY <1>5, <2>1, <2>2, <3>1
  <2>3. CASE y # x
    <3>1. magic'[y] = magic[y] /\ count'[y] = count[y] /\ contents'[y] = contents[y]
      BY <1>1, <1>5, <2>3
    <3> QED
      BY <1>2, <2>1, <3>1 DEF DeallocsAgree
  <2> QED
    BY <2>2, <2>3
<1>11. NoisyAreOwned'
  <2> SUFFICES ASSUME NEW y \in Noisy
               PROVE  OnlyOwned(y)' /\ (y \in Enumerated' => magic'[y] = "released" \/ IsEnumerating(y)')
    BY DEF NoisyAreOwned
  <2>1. OnlyOwned(y) /\ (y \in Enumerated => magic[y] = "released" \/ IsEnumerating(y))
    BY <1>2 DEF NoisyAreOwned
  <2>2. OnlyOwned(y)'
    BY <1>6, <2>1 DEF OnlyOwned
  <2>3. IsEnumerating(y)' <=> IsEnumerating(y)
    BY <1>1 DEF IsEnumerating, Deallocates
  <2>4. y \in Instances
    BY MemoryAssumption
  <2>5. magic[y] = "released" => magic'[y] = "released"
    BY <1>1, <1>5, <2>4
  <2> QED
    BY <1>7, <2>1, <2>2, <2>3, <2>5
<1>12. ThreadsArePlaced'
  BY <1>1, <1>2 DEF ThreadsArePlaced
<1> QED
  BY <1>3, <1>4, <1>9, <1>10, <1>11, <1>12 DEF IInv

LEMMA RetainPreserves ==
    ASSUME IInv, NEW t \in Threads, NEW v \in Slots, NEW x \in Instances, RetainOne(t, v, x)
    PROVE  IInv'
<1>1. /\ own[t][v] = Nil /\ x \in Visible(t) /\ References(x) < MaxReferences
      /\ Retain(x) /\ own' = [own EXCEPT ![t][v] = x]
      /\ UNCHANGED <<magic, contents, pools, thread, argument, work, wild>>
  BY DEF RetainOne
<1>2. /\ TypeInv /\ CountsAgree /\ DeallocsAgree /\ CallsArePlaced /\ PoolsAreWhole
      /\ NoisyAreOwned /\ ThreadsArePlaced
  BY DEF IInv
<1>3. CallsArePlaced' /\ PoolsAreWhole' /\ KeepsDeallocs /\ FramesStay
  BY <1>1, <1>2, QuietThreads
<1>4. /\ \A y : HeldBy(y)' = HeldBy(y) /\ GivenTo(y)' = GivenTo(y) /\ PooledAt(y)' = PooledAt(y)
      /\ \A y \in Instances : IF y = x THEN Plus(OwnedAt(y), OwnedAt(y)') ELSE OwnedAt(y)' = OwnedAt(y)
  <2>1. \A y : HeldBy(y)' = HeldBy(y) /\ GivenTo(y)' = GivenTo(y) /\ PooledAt(y)' = PooledAt(y)
    BY <1>1 DEF HeldBy, GivenTo, PooledAt, Pooled
  <2>2. own \in [Threads -> [Slots -> Instances \cup {Nil}]]
    BY <1>2 DEF TypeInv
  <2> QED
    BY <1>1, <2>1, <2>2, VariableTakes
<1>5. Gained(x) /\ \A y \in Instances \ {x} : Same(y)
  <2>1. Plus(OwnedAt(x), OwnedAt(x)')
    BY <1>4
  <2> QED
    BY <1>4, <2>1 DEF Gained, Same, Refs
<1>6. /\ CountsAgree' /\ DeallocsAgree'
      /\ count' \in [Instances -> 0 .. Modulus - 1] /\ aborted' = aborted
  <2>1. 0 < References(x)
    BY <1>1, <1>2, VisibleIsReferenced
  <2>2. \A y \in Instances : magic[y] # "valid" => contents'[y] = {}
    BY <1>1, <1>2 DEF DeallocsAgree
  <2> QED
    BY <1>1, <1>2, <1>3, <1>5, <2>1, <2>2, RetainCounts
<1>7. TypeInv'
  BY <1>1, <1>2, <1>6 DEF TypeInv
<1>8. NoisyAreOwned'
  <2>1. \A y \in Noisy : OnlyOwned(y)'
    BY <1>2, <1>4 DEF NoisyAreOwned, OnlyOwned
  <2> QED
    BY <1>1, <1>2, <1>3, <2>1, NoisyStay
<1>9. ThreadsArePlaced'
  BY <1>1, <1>2 DEF ThreadsArePlaced
<1> QED
  BY <1>3, <1>6, <1>7, <1>8, <1>9 DEF IInv

\* A release that is not made by a drain or a deallocation.
LEMMA OuterRelease ==
    ASSUME IInv, NEW t \in Threads, \A n \in 1 .. Len(work[t]) : work[t][n].kind = "create",
           NEW x \in Instances, Release(t, x, <<>>), Lost(x), \A y \in Instances \ {x} : Same(y),
           UNCHANGED <<magic, pools>>, \A y \in Instances : magic[y] # "valid" => contents'[y] = {},
           \A u \in Threads \ {t} : thread'[u] = thread[u] \/ work[u] = <<>>,
           x \in Noisy => thread'[t] = "running" /\ pools[t] # <<>>,
           \A y \in Noisy : OnlyOwned(y)'
    PROVE  /\ CountsAgree' /\ DeallocsAgree' /\ CallsArePlaced' /\ PoolsAreWhole' /\ NoisyAreOwned'
           /\ count' \in [Instances -> 0 .. Modulus - 1] /\ aborted' = aborted
           /\ work' \in [Threads -> Seq(CallRecord)]
           /\ \A u \in Threads \ {t} : work'[u] = work[u]
<1>1. /\ TypeInv /\ CountsAgree /\ DeallocsAgree /\ CallsArePlaced /\ PoolsAreWhole
      /\ NoisyAreOwned /\ ThreadsArePlaced
  BY DEF IInv
<1>2. work[t] \in Seq(CallRecord) /\ <<>> \in Seq(CallRecord)
  BY <1>1 DEF TypeInv
<1>3. \A n \in Nat : \A y \in Instances : ~Deallocates(t, n, y)
  BY <1>2 DEF Deallocates
<1>4. /\ CountsAgree' /\ DeallocsAgree'
      /\ count' \in [Instances -> 0 .. Modulus - 1] /\ aborted' = aborted
      /\ work' \in [Threads -> Seq(CallRecord)]
      /\ \A u \in Threads \ {t} : work'[u] = work[u]
      /\ work'[t] = <<>> \/ work'[t] = Append(<<>>, Dealloc(x))
  <2>1. SameDeallocs(t, <<>>)
    BY <1>3 DEF SameDeallocs
  <2> QED
    BY <1>1, <1>2, <2>1, ReleaseCounts
<1>5. CallsArePlaced'
  <2> SUFFICES ASSUME NEW u \in Threads
               PROVE  ArePlaced(work'[u], pools'[u], thread'[u])
    BY DEF CallsArePlaced
  <2>1. CASE u = t
    <3>1. ArePlaced(<<>>, pools'[t], thread'[t])
      BY NoCalls
    <3>2. x \in Noisy => thread'[t] = "running" /\ pools'[t] # <<>>
      OBVIOUS
    <3>3. \A n \in 1 .. Len(<<>>) : <<>>[n].kind # "create"
      OBVIOUS
    <3>4. work'[t] = <<>> \/ work'[t] = Append(<<>>, Dealloc(x))
      BY <1>4
    <3> HIDE DEF Dealloc
    <3>5. ArePlaced(work'[t], pools'[t], thread'[t])
      BY <1>2, <3>1, <3>2, <3>3, <3>4, ReleasePlaces
    <3> QED
      BY <2>1, <3>5
  <2>2. CASE u # t
    BY <1>1, <1>4, <2>2, CallsStay
  <2> QED
    BY <2>1, <2>2
<1>6. PoolsAreWhole'
  <2> SUFFICES ASSUME NEW u \in Threads
               PROVE  IsWhole(pools'[u], work'[u])
    BY DEF PoolsAreWhole
  <2>1. IsWhole(pools[u], work[u]) /\ pools'[u] = pools[u]
    BY <1>1 DEF PoolsAreWhole
  <2>2. CASE u = t
    <3>1. work[t] = <<>> \/ (work[t] # <<>> /\ work[t][1].kind = "create")
      BY <1>2
    <3>2. work[t] = <<>> \/ (work[t] # <<>> /\ work[t][1].kind \notin {"drain", "dispose"})
      BY <3>1
    <3> QED
      BY <2>1, <2>2, <3>2, PoolsStay
  <2>3. CASE u # t
    BY <1>4, <2>1, <2>3
  <2> QED
    BY <2>2, <2>3
<1>7. NoisyAreOwned'
  <2>1. FramesStay
    BY <1>3, <1>4 DEF FramesStay, Deallocates
  <2> QED
    BY <1>1, <2>1, NoisyStay
<1> QED
  BY <1>4, <1>5, <1>6, <1>7

LEMMA ReleasePreserves ==
    ASSUME IInv, NEW t \in Threads, NEW v \in Slots, ReleaseOne(t, v)
    PROVE  IInv'
<1>1. PICK x : /\ x = own[t][v] /\ thread[t] = "running" /\ work[t] = <<>> /\ x # Nil
               /\ x \in Noisy => pools[t] # <<>>
               /\ Release(t, x, <<>>) /\ own' = [own EXCEPT ![t][v] = Nil]
               /\ UNCHANGED <<magic, contents, pools, thread, argument, wild>>
  BY DEF ReleaseOne, Ready
<1>2. /\ TypeInv /\ CountsAgree /\ DeallocsAgree /\ CallsArePlaced /\ PoolsAreWhole
      /\ NoisyAreOwned /\ ThreadsArePlaced
  BY DEF IInv
<1>3. x \in Instances /\ own \in [Threads -> [Slots -> Instances \cup {Nil}]]
  BY <1>1, <1>2 DEF TypeInv
<1>4. /\ \A y : HeldBy(y)' = HeldBy(y) /\ GivenTo(y)' = GivenTo(y) /\ PooledAt(y)' = PooledAt(y)
      /\ \A y \in Instances : IF y = x THEN Plus(OwnedAt(y)', OwnedAt(y)) ELSE OwnedAt(y)' = OwnedAt(y)
  <2>1. \A y : HeldBy(y)' = HeldBy(y) /\ GivenTo(y)' = GivenTo(y) /\ PooledAt(y)' = PooledAt(y)
    BY <1>1 DEF HeldBy, GivenTo, PooledAt, Pooled
  <2> QED
    BY <1>1, <1>3, <2>1, VariableGives
<1>5. Lost(x) /\ \A y \in Instances \ {x} : Same(y)
  <2>1. Plus(OwnedAt(x)', OwnedAt(x))
    BY <1>3, <1>4
  <2> QED
    BY <1>4, <2>1 DEF Lost, Same, Refs
<1>6. \A y \in Noisy : OnlyOwned(y)'
  BY <1>2, <1>4 DEF NoisyAreOwned, OnlyOwned
<1>7. \A y \in Instances : magic[y] # "valid" => contents'[y] = {}
  BY <1>1, <1>2 DEF DeallocsAgree
<1>8. /\ CountsAgree' /\ DeallocsAgree' /\ CallsArePlaced' /\ PoolsAreWhole' /\ NoisyAreOwned'
      /\ count' \in [Instances -> 0 .. Modulus - 1] /\ aborted' = aborted
      /\ work' \in [Threads -> Seq(CallRecord)]
      /\ \A u \in Threads \ {t} : work'[u] = work[u]
  <2>1. \A n \in 1 .. Len(work[t]) : work[t][n].kind = "create"
    BY <1>1
  <2>2. \A u \in Threads \ {t} : thread'[u] = thread[u] \/ work[u] = <<>>
    BY <1>1
  <2>3. x \in Noisy => thread'[t] = "running" /\ pools[t] # <<>>
    BY <1>1
  <2> QED
    BY <1>1, <1>3, <1>5, <1>6, <1>7, <2>1, <2>2, <2>3, OuterRelease
<1>9. TypeInv'
  BY <1>1, <1>2, <1>3, <1>8 DEF TypeInv
<1>10. ThreadsArePlaced'
  BY <1>1, <1>2, <1>8 DEF ThreadsArePlaced
<1> QED
  BY <1>8, <1>9, <1>10 DEF IInv

LEMMA CleanIsWhole ==
    ASSUME NEW q, NEW t, NEW calls,
           \A k \in 1 .. Len(q[t]) : \A b \in 1 .. Len(q[t][k]) : q[t][k][b].freed # TRUE,
           \A k, b, i : ~Lies(q, t, k, b, i, Nil)
    PROVE  IsWhole(q[t], calls)
<1> SUFFICES ASSUME NEW k \in 1 .. Len(q[t]), NEW b \in 1 .. Len(q[t][k]),
                    NEW i \in 1 .. Len(q[t][k][b].instances)
             PROVE  q[t][k][b].instances[i] # Nil
  BY DEF IsWhole
<1>1. ~Lies(q, t, k, b, i, Nil)
  OBVIOUS
<1> QED
  BY <1>1 DEF Lies

\* An autorelease by thread t, the calls of which are no drain.
LEMMA AutoreleaseKeepsPools ==
    ASSUME TypeInv, PoolsAreWhole, NEW t \in Threads, thread[t] # "exited", pools[t] # <<>>,
           work[t] = <<>> \/ work[t][1].kind \notin {"drain", "dispose"},
           NEW x \in Instances, Autorelease(t, x), \A u \in Threads \ {t} : work'[u] = work[u]
    PROVE  /\ pools' \in PoolsRecord /\ pools'[t] # <<>> /\ UNCHANGED <<aborted, wild>>
           /\ \A u \in Threads \ {t} : pools'[u] = pools[u]
           /\ \A y : IF y = x THEN Plus(PooledAt(y), PooledAt(y)') ELSE PooledAt(y)' = PooledAt(y)
           /\ PoolsAreWhole'
<1>1. /\ \A k \in 1 .. Len(pools[t]) : \A b \in 1 .. Len(pools[t][k]) : pools[t][k][b].freed = FALSE
      /\ \A k, b, i : ~Lies(pools, t, k, b, i, Nil)
  BY PoolsAreClean
<1>2. /\ pools' \in PoolsRecord /\ UNCHANGED <<aborted, wild>>
      /\ Len(pools'[t]) = Len(pools[t]) /\ \A u \in Threads \ {t} : pools'[u] = pools[u]
      /\ \A y : IF y = x THEN Plus(PooledAt(y), PooledAt(y)') ELSE PooledAt(y)' = PooledAt(y)
      /\ \A k \in 1 .. Len(pools[t]) : \A b \in 1 .. Len(pools'[t][k]) : pools'[t][k][b].freed # TRUE
      /\ \A k, b, i : Lies(pools', t, k, b, i, Nil) => Lies(pools, t, k, b, i, Nil)
  <2>1. pools \in PoolsRecord
    BY DEF TypeInv
  <2> QED
    BY <1>1, <2>1, AutoreleaseAdds
<1>3. PoolsAreWhole'
  <2> SUFFICES ASSUME NEW u \in Threads
               PROVE  IsWhole(pools'[u], work'[u])
    BY DEF PoolsAreWhole
  <2>1. CASE u = t
    <3>1. \A k, b, i : ~Lies(pools', t, k, b, i, Nil)
      BY <1>1, <1>2
    <3>2. \A k \in 1 .. Len(pools'[t]) : \A b \in 1 .. Len(pools'[t][k]) : pools'[t][k][b].freed # TRUE
      BY <1>2
    <3>3. IsWhole(pools'[t], work'[t])
      BY <3>1, <3>2, CleanIsWhole
    <3> QED
      BY <2>1, <3>3
  <2>2. CASE u # t
    BY <1>2, <2>2 DEF PoolsAreWhole
  <2> QED
    BY <2>1, <2>2
<1>4. pools'[t] # <<>>
  <2>1. Len(pools[t]) > 0
    <3>1. pools[t] \in Seq(Seq(BlockRecord))
      BY BlocksAre DEF TypeInv
    <3> QED
      BY <3>1
  <2>2. Len(<<>>) = 0
    OBVIOUS
  <2> QED
    BY <1>2, <2>1, <2>2
<1> QED
  BY <1>2, <1>3, <1>4

LEMMA AutoreleasePreserves ==
    ASSUME Careful, IInv, NEW t \in Threads, NEW v \in Slots, AutoreleaseOne(t, v)
    PROVE  IInv'
<1>1. PICK x : /\ x = own[t][v] /\ thread[t] = "running" /\ work[t] = <<>> /\ x # Nil
               /\ x \notin Noisy /\ pools[t] # <<>>
               /\ Autorelease(t, x) /\ own' = [own EXCEPT ![t][v] = Nil]
               /\ UNCHANGED <<magic, count, contents, thread, argument, work>>
  BY DEF AutoreleaseOne, Ready, DiesInPeace
<1>2. /\ TypeInv /\ CountsAgree /\ DeallocsAgree /\ CallsArePlaced /\ PoolsAreWhole
      /\ NoisyAreOwned /\ ThreadsArePlaced
  BY DEF IInv
<1>3. x \in Instances /\ own \in [Threads -> [Slots -> Instances \cup {Nil}]]
  BY <1>1, <1>2 DEF TypeInv
<1>4. /\ pools' \in PoolsRecord /\ UNCHANGED <<aborted, wild>>
      /\ \A u \in Threads \ {t} : pools'[u] = pools[u]
      /\ \A y : IF y = x THEN Plus(PooledAt(y), PooledAt(y)') ELSE PooledAt(y)' = PooledAt(y)
      /\ PoolsAreWhole'
  BY <1>1, <1>2, <1>3, AutoreleaseKeepsPools
<1>5. /\ \A y : HeldBy(y)' = HeldBy(y) /\ GivenTo(y)' = GivenTo(y)
      /\ \A y \in Instances : IF y = x THEN Plus(OwnedAt(y)', OwnedAt(y)) ELSE OwnedAt(y)' = OwnedAt(y)
  <2>1. \A y : HeldBy(y)' = HeldBy(y) /\ GivenTo(y)' = GivenTo(y)
    BY <1>1 DEF HeldBy, GivenTo
  <2> QED
    BY <1>1, <1>3, <2>1, VariableGives
<1>6. \A y \in Instances : IsFiniteSet(PooledAt(y)') /\ References(y)' = References(y)
  <2> SUFFICES ASSUME NEW y \in Instances
               PROVE  IsFiniteSet(PooledAt(y)') /\ References(y)' = References(y)
    OBVIOUS
  <2>1. IsFiniteSet(PooledAt(y))
    BY <1>2 DEF CountsAgree
  <2>2. CASE y = x
    <3>1. Plus(OwnedAt(y)', OwnedAt(y)) /\ Plus(PooledAt(y), PooledAt(y)')
      BY <1>3, <1>4, <1>5, <2>2
    <3>2. IsFiniteSet(OwnedAt(y))
      BY <2>1, ReferencesAre
    <3>3. /\ Cardinality(OwnedAt(y)) = Cardinality(OwnedAt(y)') + 1 /\ Cardinality(OwnedAt(y)') \in Nat
          /\ Cardinality(PooledAt(y)') = Cardinality(PooledAt(y)) + 1 /\ Cardinality(PooledAt(y)) \in Nat
          /\ IsFiniteSet(PooledAt(y)')
      BY <2>1, <3>1, <3>2, PlusCounts
    <3>4. /\ References(y) = Cardinality(OwnedAt(y)) + Cardinality(HeldBy(y))
                               + Cardinality(GivenTo(y)) + Cardinality(PooledAt(y))
          /\ Cardinality(HeldBy(y)) \in Nat /\ Cardinality(GivenTo(y)) \in Nat
      BY <2>1, ReferencesAre
    <3>5. References(y)' = Cardinality(OwnedAt(y)') + Cardinality(HeldBy(y)')
                             + Cardinality(GivenTo(y)') + Cardinality(PooledAt(y)')
      BY <3>3, ReferencesBecome
    <3>6. HeldBy(y)' = HeldBy(y) /\ GivenTo(y)' = GivenTo(y)
      BY <1>5
    <3> QED
      BY <3>3, <3>4, <3>5, <3>6
  <2>3. CASE y # x
    <3>1. Same(y)
      BY <1>4, <1>5, <2>3 DEF Same, Refs
    <3> QED
      BY <2>1, <3>1, SameCounts
  <2> QED
    BY <2>2, <2>3
<1>7. KeepsDeallocs /\ FramesStay
  BY <1>1 DEF KeepsDeallocs, FramesStay, Deallocates
<1>8. CountsAgree' /\ DeallocsAgree'
  <2>1. \A y \in Instances : magic[y] # "valid" => contents'[y] = {}
    BY <1>1, <1>2 DEF DeallocsAgree
  <2> QED
    BY <1>1, <1>2, <1>6, <1>7, <2>1, QuietCounts
<1>9. CallsArePlaced'
  <2> SUFFICES ASSUME NEW u \in Threads
               PROVE  ArePlaced(work'[u], pools'[u], thread'[u])
    BY DEF CallsArePlaced
  <2>1. work'[u] = work[u] /\ thread'[u] = thread[u] /\ (u # t => pools'[u] = pools[u])
    BY <1>1, <1>4
  <2> QED
    BY <1>1, <1>2, <2>1, CallsStay
<1>10. NoisyAreOwned'
  <2>1. \A y \in Noisy : OnlyOwned(y)'
    BY <1>1, <1>2, <1>4, <1>5 DEF NoisyAreOwned, OnlyOwned
  <2> QED
    BY <1>1, <1>2, <1>7, <2>1, NoisyStay
<1>11. TypeInv'
  BY <1>1, <1>2, <1>3, <1>4 DEF TypeInv
<1>12. ThreadsArePlaced'
  BY <1>1, <1>2 DEF ThreadsArePlaced
<1> QED
  BY <1>4, <1>8, <1>9, <1>10, <1>11, <1>12 DEF IInv

\* What somebody refers to, besides variables, needs no pool to die.
LEMMA OthersAreQuiet ==
    ASSUME NoisyAreOwned, NEW x
    PROVE  /\ \A c \in Instances : x \in contents[c] => x \notin Noisy
           /\ \A t \in Threads : argument[t] = x => x \notin Noisy
           /\ \A t \in Threads : \A p \in Pooled(t, x) : x \notin Noisy
<1>1. \A c \in Instances : x \in contents[c] => c \in HeldBy(x)
  BY DEF HeldBy
<1>2. \A t \in Threads : argument[t] = x => t \in GivenTo(x)
  BY DEF GivenTo
<1>3. \A t \in Threads : \A p \in Pooled(t, x) : <<t, p>> \in PooledAt(x)
  BY DEF PooledAt
<1> QED
  BY <1>1, <1>2, <1>3 DEF NoisyAreOwned, OnlyOwned

LEMMA InsertPreserves ==
    ASSUME Careful, IInv, NEW t \in Threads, NEW c \in Instances, NEW x \in Instances,
           InsertMember(t, c, x)
    PROVE  IInv'
<1>1. /\ c \in Range(own[t]) /\ References(c) = 1 /\ x \in Visible(t) /\ x \notin contents[c]
      /\ x \notin Noisy /\ References(x) < MaxReferences
      /\ Retain(x) /\ contents' = [contents EXCEPT ![c] = @ \cup {x}]
      /\ UNCHANGED <<magic, own, thread, argument, pools, work, wild>>
  BY DEF InsertMember, Alone, DiesInPeace, clients
<1>2. /\ TypeInv /\ CountsAgree /\ DeallocsAgree /\ CallsArePlaced /\ PoolsAreWhole
      /\ NoisyAreOwned /\ ThreadsArePlaced
  BY DEF IInv
<1>3. CallsArePlaced' /\ PoolsAreWhole' /\ KeepsDeallocs /\ FramesStay
  BY <1>1, <1>2, QuietThreads
<1>4. /\ \A y : OwnedAt(y)' = OwnedAt(y) /\ GivenTo(y)' = GivenTo(y) /\ PooledAt(y)' = PooledAt(y)
      /\ \A y \in Instances : IF y = x THEN Plus(HeldBy(y), HeldBy(y)') ELSE HeldBy(y)' = HeldBy(y)
  <2>1. \A y : OwnedAt(y)' = OwnedAt(y) /\ GivenTo(y)' = GivenTo(y) /\ PooledAt(y)' = PooledAt(y)
    BY <1>1 DEF OwnedAt, GivenTo, PooledAt, Pooled
  <2>2. contents \in [Instances -> SUBSET Instances] /\ x \in Instances \ contents[c]
    BY <1>1, <1>2 DEF TypeInv
  <2> QED
    BY <1>1, <2>1, <2>2, MemberAdded
<1>5. Gained(x) /\ \A y \in Instances \ {x} : Same(y)
  <2>1. Plus(HeldBy(x), HeldBy(x)')
    BY <1>4
  <2> QED
    BY <1>4, <2>1 DEF Gained, Same, Refs
<1>6. \A y \in Instances : magic[y] # "valid" => contents'[y] = {}
  <2>1. count[c] = 1
    BY <1>1, <1>2, CountIs
  <2>2. magic[c] = "valid"
    BY <1>2, <2>1 DEF CountsAgree
  <2> QED
    BY <1>1, <1>2, <2>2 DEF DeallocsAgree, TypeInv
<1>7. /\ CountsAgree' /\ DeallocsAgree'
      /\ count' \in [Instances -> 0 .. Modulus - 1] /\ aborted' = aborted
  <2>1. 0 < References(x)
    BY <1>1, <1>2, VisibleIsReferenced
  <2> QED
    BY <1>1, <1>2, <1>3, <1>5, <1>6, <2>1, RetainCounts
<1>8. TypeInv'
  BY <1>1, <1>2, <1>7 DEF TypeInv
<1>9. NoisyAreOwned'
  <2>1. \A y \in Noisy : OnlyOwned(y)'
    <3>1. Noisy \subseteq Instances \ {x}
      BY <1>1, MemoryAssumption
    <3> QED
      BY <1>2, <1>4, <3>1 DEF NoisyAreOwned, OnlyOwned
  <2> QED
    BY <1>1, <1>2, <1>3, <2>1, NoisyStay
<1>10. ThreadsArePlaced'
  BY <1>1, <1>2 DEF ThreadsArePlaced
<1> QED
  BY <1>3, <1>7, <1>8, <1>9, <1>10 DEF IInv

LEMMA RemovePreserves ==
    ASSUME IInv, NEW t \in Threads, NEW c \in Instances, NEW x \in Instances, RemoveMember(t, c, x)
    PROVE  IInv'
<1>1. /\ thread[t] = "running" /\ work[t] = <<>> /\ x \in contents[c]
      /\ Release(t, x, <<>>) /\ contents' = [contents EXCEPT ![c] = @ \ {x}]
      /\ UNCHANGED <<magic, own, thread, argument, pools, wild>>
  BY DEF RemoveMember, Ready, clients
<1>2. /\ TypeInv /\ CountsAgree /\ DeallocsAgree /\ CallsArePlaced /\ PoolsAreWhole
      /\ NoisyAreOwned /\ ThreadsArePlaced
  BY DEF IInv
<1>3. x \notin Noisy
  BY <1>1, <1>2, OthersAreQuiet
<1>4. /\ \A y : OwnedAt(y)' = OwnedAt(y) /\ GivenTo(y)' = GivenTo(y) /\ PooledAt(y)' = PooledAt(y)
      /\ \A y \in Instances : IF y = x THEN Plus(HeldBy(y)', HeldBy(y)) ELSE HeldBy(y)' = HeldBy(y)
  <2>1. \A y : OwnedAt(y)' = OwnedAt(y) /\ GivenTo(y)' = GivenTo(y) /\ PooledAt(y)' = PooledAt(y)
    BY <1>1 DEF OwnedAt, GivenTo, PooledAt, Pooled
  <2>2. contents \in [Instances -> SUBSET Instances]
    BY <1>2 DEF TypeInv
  <2> QED
    BY <1>1, <2>1, <2>2, MemberRemoved
<1>5. Lost(x) /\ \A y \in Instances \ {x} : Same(y)
  <2>1. Plus(HeldBy(x)', HeldBy(x))
    BY <1>4
  <2> QED
    BY <1>4, <2>1 DEF Lost, Same, Refs
<1>6. \A y \in Noisy : OnlyOwned(y)'
  <2>1. Noisy \subseteq Instances \ {x}
    BY <1>3, MemoryAssumption
  <2> QED
    BY <1>2, <1>4, <2>1 DEF NoisyAreOwned, OnlyOwned
<1>7. \A y \in Instances : magic[y] # "valid" => contents'[y] = {}
  BY <1>1, <1>2 DEF DeallocsAgree, TypeInv
<1>8. /\ CountsAgree' /\ DeallocsAgree' /\ CallsArePlaced' /\ PoolsAreWhole' /\ NoisyAreOwned'
      /\ count' \in [Instances -> 0 .. Modulus - 1] /\ aborted' = aborted
      /\ work' \in [Threads -> Seq(CallRecord)]
      /\ \A u \in Threads \ {t} : work'[u] = work[u]
  <2>1. \A n \in 1 .. Len(work[t]) : work[t][n].kind = "create"
    BY <1>1
  <2>2. \A u \in Threads \ {t} : thread'[u] = thread[u] \/ work[u] = <<>>
    BY <1>1
  <2> QED
    BY <1>1, <1>3, <1>5, <1>6, <1>7, <2>1, <2>2, OuterRelease
<1>9. TypeInv'
  <2>1. contents' \in [Instances -> SUBSET Instances]
    BY <1>1, <1>2 DEF TypeInv
  <2> QED
    BY <1>1, <1>2, <1>8, <2>1 DEF TypeInv
<1>10. ThreadsArePlaced'
  BY <1>1, <1>2, <1>8 DEF ThreadsArePlaced
<1> QED
  BY <1>8, <1>9, <1>10 DEF IInv

-----------------------------------------------------------------------------
(* Threads *)

LEMMA SpawnPreserves ==
    ASSUME Careful, IInv, NEW t \in Threads, Spawn(t)
    PROVE  IInv'
<1>1. PICK u \in Threads, x \in Visible(t) :
          /\ thread[t] = "running" /\ work[t] = <<>>
          /\ thread[u] = "none" /\ x \notin Noisy /\ References(x) < MaxReferences
          /\ Retain(x)
          /\ argument' = [argument EXCEPT ![u] = x] /\ thread' = [thread EXCEPT ![u] = "creating"]
          /\ work' = [work EXCEPT ![t] = <<Call("create", x, 0, 0, 0, 0)>>]
          /\ UNCHANGED <<magic, contents, own, pools, wild>>
  BY DEF Spawn, Ready, DiesInPeace
<1>2. /\ TypeInv /\ CountsAgree /\ DeallocsAgree /\ CallsArePlaced /\ PoolsAreWhole
      /\ NoisyAreOwned /\ ThreadsArePlaced
  BY DEF IInv
<1>3. x \in Instances /\ References(x) > 0 /\ argument[u] = Nil /\ work[u] = <<>> /\ u # t /\ u # Main
  BY <1>1, <1>2, VisibleIsReferenced DEF ThreadsArePlaced
<1>4. PICK c : /\ c = Call("create", x, 0, 0, 0, 0) /\ c \in CallRecord
               /\ c.kind = "create" /\ c.of = x
  <2>1. LET c == Call("create", x, 0, 0, 0, 0) IN c \in CallRecord /\ c.kind = "create" /\ c.of = x
    BY <1>3 DEF Call, CallRecord, Kinds
  <2> QED
    BY <2>1
<1>5. /\ work'[t] = <<c>> /\ \A w \in Threads \ {t} : work'[w] = work[w]
      /\ work' \in [Threads -> Seq(CallRecord)]
      /\ thread'[u] = "creating" /\ \A w \in Threads \ {u} : thread'[w] = thread[w]
      /\ argument'[u] = x /\ \A w \in Threads \ {u} : argument'[w] = argument[w]
  BY <1>1, <1>2, <1>3, <1>4 DEF TypeInv
<1>6. KeepsDeallocs /\ FramesStay
  <2>1. \A n \in Nat : \A y \in Instances : ~Deallocates(t, n, y) /\ ~Deallocates(t, n, y)'
    BY <1>1, <1>4, <1>5 DEF Deallocates
  <2>2. \A w \in Threads \ {t} : \A n \in Nat : \A y \in Instances :
            Deallocates(w, n, y)' <=> Deallocates(w, n, y)
    BY <1>5 DEF Deallocates
  <2> QED
    BY <1>5, <2>1, <2>2 DEF KeepsDeallocs, FramesStay
<1>7. CallsArePlaced' /\ PoolsAreWhole'
  <2>1. ArePlaced(work'[t], pools'[t], thread'[t])
    <3>1. IsPlaced(pools'[t], thread'[t], 1, c)
      BY <1>1, <1>4 DEF IsPlaced
    <3>2. Len(<<c>>) = 1 /\ <<c>>[1] = c /\ 1 .. 1 = {1}
      OBVIOUS
    <3> QED
      BY <1>5, <3>1, <3>2 DEF ArePlaced
  <2>2. ASSUME NEW w \in Threads \ {t}
        PROVE  ArePlaced(work'[w], pools'[w], thread'[w])
    BY <1>1, <1>2, <1>3, <1>5, CallsStay
  <2>3. \A w \in Threads : IsWhole(pools'[w], work'[w])
    <3>1. \A w \in Threads : pools'[w] = pools[w] /\ IsWhole(pools[w], work[w])
      BY <1>1, <1>2 DEF PoolsAreWhole
    <3>2. \A w \in Threads : work'[w] = work[w] \/ work[w] = <<>>
      BY <1>1, <1>5
    <3> QED
      BY <3>1, <3>2, PoolsStay
  <2> QED
    BY <2>1, <2>2, <2>3 DEF CallsArePlaced, PoolsAreWhole
<1>8. /\ \A y : OwnedAt(y)' = OwnedAt(y) /\ HeldBy(y)' = HeldBy(y) /\ PooledAt(y)' = PooledAt(y)
      /\ \A y \in Instances : IF y = x THEN Plus(GivenTo(y), GivenTo(y)') ELSE GivenTo(y)' = GivenTo(y)
  <2>1. \A y : OwnedAt(y)' = OwnedAt(y) /\ HeldBy(y)' = HeldBy(y) /\ PooledAt(y)' = PooledAt(y)
    BY <1>1 DEF OwnedAt, HeldBy, PooledAt, Pooled
  <2>2. argument \in [Threads -> Instances \cup {Nil}]
    BY <1>2 DEF TypeInv
  <2> QED
    BY <1>1, <1>3, <2>1, <2>2, ArgumentTaken
<1>9. Gained(x) /\ \A y \in Instances \ {x} : Same(y)
  <2>1. Plus(GivenTo(x), GivenTo(x)')
    BY <1>3, <1>8
  <2> QED
    BY <1>8, <2>1 DEF Gained, Same, Refs
<1>10. /\ CountsAgree' /\ DeallocsAgree'
       /\ count' \in [Instances -> 0 .. Modulus - 1] /\ aborted' = aborted
  <2>1. \A y \in Instances : magic[y] # "valid" => contents'[y] = {}
    BY <1>1, <1>2 DEF DeallocsAgree
  <2> QED
    BY <1>1, <1>2, <1>3, <1>6, <1>9, <2>1, RetainCounts
<1>11. TypeInv'
  BY <1>1, <1>2, <1>3, <1>5, <1>10 DEF TypeInv
<1>12. NoisyAreOwned'
  <2>1. \A y \in Noisy : OnlyOwned(y)'
    <3>1. Noisy \subseteq Instances \ {x}
      BY <1>1, MemoryAssumption
    <3> QED
      BY <1>2, <1>8, <3>1 DEF NoisyAreOwned, OnlyOwned
  <2> QED
    BY <1>1, <1>2, <1>6, <2>1, NoisyStay
<1>13. ThreadsArePlaced'
  BY <1>1, <1>2, <1>3, <1>5 DEF ThreadsArePlaced
<1> QED
  BY <1>7, <1>10, <1>11, <1>12, <1>13 DEF IInv

\* The running call, and the creation of a thread, which is alone.
LEMMA RunningIs ==
    ASSUME TypeInv, CallsArePlaced, NEW t \in Threads, work[t] # <<>>
    PROVE  /\ work[t] \in Seq(CallRecord) /\ Len(work[t]) \in Nat \ {0}
           /\ Running(t) = work[t][Len(work[t])] /\ Running(t) \in CallRecord
           /\ IsPlaced(pools[t], thread[t], Len(work[t]), Running(t))
<1>1. work[t] \in Seq(CallRecord)
  BY DEF TypeInv
<1>2. Len(work[t]) \in Nat \ {0} /\ Running(t) = work[t][Len(work[t])]
  BY <1>1 DEF Running, Last
<1> QED
  BY <1>1, <1>2 DEF CallsArePlaced, ArePlaced

LEMMA CreateIsAlone ==
    ASSUME TypeInv, CallsArePlaced, NEW t \in Threads, work[t] # <<>>, Running(t).kind = "create"
    PROVE  /\ Len(work[t]) = 1 /\ work[t][1].kind = "create"
           /\ \A n \in 1 .. Len(work[t]) : work[t][n].kind = "create"
<1>1. Len(work[t]) \in Nat \ {0} /\ Running(t) = work[t][Len(work[t])]
  BY RunningIs
<1>2. Len(work[t]) = 1
  BY <1>1 DEF CallsArePlaced, ArePlaced
<1>3. 1 .. 1 = {1}
  OBVIOUS
<1> QED
  BY <1>1, <1>2, <1>3

LEMMA CreatedPreserves ==
    ASSUME IInv, NEW t \in Threads, NEW u \in Threads, Created(t, u)
    PROVE  IInv'
<1>1. /\ work[t] # <<>> /\ Running(t).kind = "create" /\ thread[u] = "creating"
      /\ thread' = [thread EXCEPT ![u] = "running"] /\ work' = [work EXCEPT ![t] = <<>>]
      /\ UNCHANGED <<magic, count, contents, own, argument, pools, aborted, wild>>
  BY DEF Created, Creates, Runs
<1>2. /\ TypeInv /\ CountsAgree /\ DeallocsAgree /\ CallsArePlaced /\ PoolsAreWhole
      /\ NoisyAreOwned /\ ThreadsArePlaced
  BY DEF IInv
<1>3. /\ \A n \in 1 .. Len(work[t]) : work[t][n].kind = "create"
      /\ Len(work[t]) = 1 /\ work[t][1].kind = "create"
  BY <1>1, <1>2, CreateIsAlone
<1>4. work[u] = <<>> /\ u # t
  BY <1>1, <1>2 DEF ThreadsArePlaced
<1>5. /\ work'[t] = <<>> /\ \A w \in Threads \ {t} : work'[w] = work[w]
      /\ work' \in [Threads -> Seq(CallRecord)]
      /\ thread'[u] = "running" /\ \A w \in Threads \ {u} : thread'[w] = thread[w]
  BY <1>1, <1>2, <1>4 DEF TypeInv
<1>6. KeepsDeallocs /\ FramesStay
  <2>1. \A n \in Nat : \A y \in Instances : ~Deallocates(t, n, y) /\ ~Deallocates(t, n, y)'
    <3>1. work[t] \in Seq(CallRecord)
      BY <1>2 DEF TypeInv
    <3> QED
      BY <1>3, <1>5, <3>1 DEF Deallocates
  <2>2. \A w \in Threads \ {t} : \A n \in Nat : \A y \in Instances :
            Deallocates(w, n, y)' <=> Deallocates(w, n, y)
    BY <1>5 DEF Deallocates
  <2> QED
    BY <1>5, <2>1, <2>2 DEF KeepsDeallocs, FramesStay
<1>7. CallsArePlaced' /\ PoolsAreWhole'
  <2>1. \A w \in Threads : ArePlaced(work'[w], pools'[w], thread'[w])
    <3>1. \A w \in Threads \ {t} : ArePlaced(work'[w], pools'[w], thread'[w])
      BY <1>1, <1>2, <1>4, <1>5, CallsStay
    <3> QED
      BY <1>5, <3>1, NoCalls
  <2>2. \A w \in Threads : IsWhole(pools'[w], work'[w])
    <3>1. \A w \in Threads : pools'[w] = pools[w] /\ IsWhole(pools[w], work[w])
      BY <1>1, <1>2 DEF PoolsAreWhole
    <3>2. \A w \in Threads : work'[w] = work[w]
                             \/ (work[w] # <<>> /\ work[w][1].kind \notin {"drain", "dispose"})
      BY <1>1, <1>3, <1>5
    <3> QED
      BY <3>1, <3>2, PoolsStay
  <2> QED
    BY <2>1, <2>2 DEF CallsArePlaced, PoolsAreWhole
<1>8. \A y : Same(y) /\ OwnedAt(y)' = OwnedAt(y) /\ HeldBy(y)' = HeldBy(y)
             /\ GivenTo(y)' = GivenTo(y) /\ PooledAt(y)' = PooledAt(y)
  BY <1>1 DEF Same, Refs, OwnedAt, HeldBy, GivenTo, PooledAt, Pooled
<1>9. CountsAgree' /\ DeallocsAgree'
  <2>1. \A y \in Instances : magic[y] # "valid" => contents'[y] = {}
    BY <1>1, <1>2 DEF DeallocsAgree
  <2>2. \A y \in Instances : IsFiniteSet(PooledAt(y)') /\ References(y)' = References(y)
    BY <1>2, <1>8, SameIsQuiet
  <2> QED
    BY <1>1, <1>2, <1>6, <2>1, <2>2, QuietCounts
<1>10. NoisyAreOwned'
  <2>1. \A y \in Noisy : OnlyOwned(y)'
    BY <1>2, <1>8 DEF NoisyAreOwned, OnlyOwned
  <2> QED
    BY <1>1, <1>2, <1>6, <2>1, NoisyStay
<1>11. TypeInv'
  BY <1>1, <1>2, <1>5 DEF TypeInv
<1>12. ThreadsArePlaced'
  BY <1>1, <1>2, <1>4, <1>5 DEF ThreadsArePlaced
<1> QED
  BY <1>7, <1>9, <1>10, <1>11, <1>12 DEF IInv

LEMMA CreateFailsPreserves ==
    ASSUME IInv, NEW t \in Threads, NEW u \in Threads, CreateFails(t, u)
    PROVE  IInv'
<1>1. PICK x : /\ x = argument[u] /\ work[t] # <<>> /\ Running(t).kind = "create"
               /\ thread[u] = "creating"
               /\ thread' = [thread EXCEPT ![u] = "none"] /\ argument' = [argument EXCEPT ![u] = Nil]
               /\ Release(t, x, <<>>)
               /\ UNCHANGED <<magic, contents, own, pools, wild>>
  BY DEF CreateFails, Creates, Runs
<1>2. /\ TypeInv /\ CountsAgree /\ DeallocsAgree /\ CallsArePlaced /\ PoolsAreWhole
      /\ NoisyAreOwned /\ ThreadsArePlaced
  BY DEF IInv
<1>3. /\ \A n \in 1 .. Len(work[t]) : work[t][n].kind = "create"
      /\ Len(work[t]) = 1 /\ work[t][1].kind = "create"
  BY <1>1, <1>2, CreateIsAlone
<1>4. work[u] = <<>> /\ u # t /\ u # Main /\ x \in Instances /\ x \notin Noisy
  <2>1. work[u] = <<>> /\ u # Main
    BY <1>1, <1>2 DEF ThreadsArePlaced
  <2>2. x \in Instances
    BY <1>1, <1>2, <2>1 DEF ThreadsArePlaced
  <2> QED
    BY <1>1, <1>2, <2>1, <2>2, OthersAreQuiet
<1>5. /\ thread'[u] = "none" /\ \A w \in Threads \ {u} : thread'[w] = thread[w]
      /\ argument'[u] = Nil /\ \A w \in Threads \ {u} : argument'[w] = argument[w]
  BY <1>1, <1>2 DEF TypeInv
<1>6. /\ \A y : OwnedAt(y)' = OwnedAt(y) /\ HeldBy(y)' = HeldBy(y) /\ PooledAt(y)' = PooledAt(y)
      /\ \A y \in Instances : IF y = x THEN Plus(GivenTo(y)', GivenTo(y)) ELSE GivenTo(y)' = GivenTo(y)
  <2>1. \A y : OwnedAt(y)' = OwnedAt(y) /\ HeldBy(y)' = HeldBy(y) /\ PooledAt(y)' = PooledAt(y)
    BY <1>1 DEF OwnedAt, HeldBy, PooledAt, Pooled
  <2>2. argument \in [Threads -> Instances \cup {Nil}]
    BY <1>2 DEF TypeInv
  <2> QED
    BY <1>1, <1>4, <2>1, <2>2, ArgumentGiven
<1>7. Lost(x) /\ \A y \in Instances \ {x} : Same(y)
  <2>1. Plus(GivenTo(x)', GivenTo(x))
    BY <1>4, <1>6
  <2> QED
    BY <1>6, <2>1 DEF Lost, Same, Refs
<1>8. \A y \in Noisy : OnlyOwned(y)'
  <2>1. Noisy \subseteq Instances \ {x}
    BY <1>4, MemoryAssumption
  <2> QED
    BY <1>2, <1>6, <2>1 DEF NoisyAreOwned, OnlyOwned
<1>9. /\ CountsAgree' /\ DeallocsAgree' /\ CallsArePlaced' /\ PoolsAreWhole' /\ NoisyAreOwned'
      /\ count' \in [Instances -> 0 .. Modulus - 1] /\ aborted' = aborted
      /\ work' \in [Threads -> Seq(CallRecord)]
      /\ \A w \in Threads \ {t} : work'[w] = work[w]
  <2>1. \A y \in Instances : magic[y] # "valid" => contents'[y] = {}
    BY <1>1, <1>2 DEF DeallocsAgree
  <2>2. \A w \in Threads \ {t} : thread'[w] = thread[w] \/ work[w] = <<>>
    BY <1>4, <1>5
  <2> QED
    BY <1>1, <1>3, <1>4, <1>7, <1>8, <2>1, <2>2, OuterRelease
<1>10. TypeInv'
  BY <1>1, <1>2, <1>5, <1>9 DEF TypeInv
<1>11. ThreadsArePlaced'
  <2>1. thread[t] \notin {"none", "creating", "exiting"}
    BY <1>1, <1>2 DEF ThreadsArePlaced
  <2> QED
    BY <1>2, <1>4, <1>5, <1>9, <2>1, MemoryAssumption DEF ThreadsArePlaced
<1> QED
  BY <1>9, <1>10, <1>11 DEF IInv

LEMMA ExitPreserves ==
    ASSUME IInv, NEW t \in Threads, ExitThread(t)
    PROVE  IInv'
<1>1. /\ thread[t] = "running" /\ work[t] = <<>> /\ t # Main
      /\ thread' = [thread EXCEPT ![t] = "exiting"]
      /\ UNCHANGED <<magic, count, contents, own, argument, pools, work, aborted, wild>>
  BY DEF ExitThread, Ready
<1>2. /\ TypeInv /\ CountsAgree /\ DeallocsAgree /\ CallsArePlaced /\ PoolsAreWhole
      /\ NoisyAreOwned /\ ThreadsArePlaced
  BY DEF IInv
<1>3. thread'[t] = "exiting" /\ \A w \in Threads \ {t} : thread'[w] = thread[w]
  BY <1>1, <1>2 DEF TypeInv
<1>4. CallsArePlaced' /\ PoolsAreWhole' /\ KeepsDeallocs /\ FramesStay
  BY <1>1, <1>2, <1>3, QuietThreads
<1>5. \A y : Same(y) /\ OwnedAt(y)' = OwnedAt(y) /\ HeldBy(y)' = HeldBy(y)
             /\ GivenTo(y)' = GivenTo(y) /\ PooledAt(y)' = PooledAt(y)
  BY <1>1 DEF Same, Refs, OwnedAt, HeldBy, GivenTo, PooledAt, Pooled
<1>6. CountsAgree' /\ DeallocsAgree'
  <2>1. \A y \in Instances : magic[y] # "valid" => contents'[y] = {}
    BY <1>1, <1>2 DEF DeallocsAgree
  <2>2. \A y \in Instances : IsFiniteSet(PooledAt(y)') /\ References(y)' = References(y)
    BY <1>2, <1>5, SameIsQuiet
  <2> QED
    BY <1>1, <1>2, <1>4, <2>1, <2>2, QuietCounts
<1>7. NoisyAreOwned'
  <2>1. \A y \in Noisy : OnlyOwned(y)'
    BY <1>2, <1>5 DEF NoisyAreOwned, OnlyOwned
  <2> QED
    BY <1>1, <1>2, <1>4, <2>1, NoisyStay
<1>8. TypeInv'
  BY <1>1, <1>2 DEF TypeInv
<1>9. ThreadsArePlaced'
  BY <1>1, <1>2, <1>3 DEF ThreadsArePlaced
<1> QED
  BY <1>4, <1>6, <1>7, <1>8, <1>9 DEF IInv

LEMMA ReleaseArgumentPreserves ==
    ASSUME IInv, NEW t \in Threads, ReleaseArgument(t)
    PROVE  IInv'
<1>1. PICK x : /\ x = argument[t] /\ thread[t] = "exiting"
               /\ thread' = [thread EXCEPT ![t] = "exited"] /\ argument' = [argument EXCEPT ![t] = Nil]
               /\ Release(t, x, <<>>)
               /\ UNCHANGED <<magic, contents, own, pools, wild>>
  BY DEF ReleaseArgument
<1>2. /\ TypeInv /\ CountsAgree /\ DeallocsAgree /\ CallsArePlaced /\ PoolsAreWhole
      /\ NoisyAreOwned /\ ThreadsArePlaced
  BY DEF IInv
<1>3. work[t] = <<>> /\ t # Main /\ x \in Instances /\ x \notin Noisy
  <2>1. work[t] = <<>> /\ t # Main
    BY <1>1, <1>2 DEF ThreadsArePlaced
  <2>2. x \in Instances
    BY <1>1, <1>2, <2>1 DEF ThreadsArePlaced
  <2> QED
    BY <1>1, <1>2, <2>1, <2>2, OthersAreQuiet
<1>4. /\ thread'[t] = "exited" /\ \A w \in Threads \ {t} : thread'[w] = thread[w]
      /\ argument'[t] = Nil /\ \A w \in Threads \ {t} : argument'[w] = argument[w]
  BY <1>1, <1>2 DEF TypeInv
<1>5. /\ \A y : OwnedAt(y)' = OwnedAt(y) /\ HeldBy(y)' = HeldBy(y) /\ PooledAt(y)' = PooledAt(y)
      /\ \A y \in Instances : IF y = x THEN Plus(GivenTo(y)', GivenTo(y)) ELSE GivenTo(y)' = GivenTo(y)
  <2>1. \A y : OwnedAt(y)' = OwnedAt(y) /\ HeldBy(y)' = HeldBy(y) /\ PooledAt(y)' = PooledAt(y)
    BY <1>1 DEF OwnedAt, HeldBy, PooledAt, Pooled
  <2>2. argument \in [Threads -> Instances \cup {Nil}]
    BY <1>2 DEF TypeInv
  <2> QED
    BY <1>1, <1>3, <2>1, <2>2, ArgumentGiven
<1>6. Lost(x) /\ \A y \in Instances \ {x} : Same(y)
  <2>1. Plus(GivenTo(x)', GivenTo(x))
    BY <1>3, <1>5
  <2> QED
    BY <1>5, <2>1 DEF Lost, Same, Refs
<1>7. \A y \in Noisy : OnlyOwned(y)'
  <2>1. Noisy \subseteq Instances \ {x}
    BY <1>3, MemoryAssumption
  <2> QED
    BY <1>2, <1>5, <2>1 DEF NoisyAreOwned, OnlyOwned
<1>8. /\ CountsAgree' /\ DeallocsAgree' /\ CallsArePlaced' /\ PoolsAreWhole' /\ NoisyAreOwned'
      /\ count' \in [Instances -> 0 .. Modulus - 1] /\ aborted' = aborted
      /\ work' \in [Threads -> Seq(CallRecord)]
      /\ \A w \in Threads \ {t} : work'[w] = work[w]
  <2>1. \A y \in Instances : magic[y] # "valid" => contents'[y] = {}
    BY <1>1, <1>2 DEF DeallocsAgree
  <2>2. \A n \in 1 .. Len(work[t]) : work[t][n].kind = "create"
    BY <1>3
  <2> QED
    BY <1>1, <1>3, <1>4, <1>6, <1>7, <2>1, <2>2, OuterRelease
<1>9. TypeInv'
  BY <1>1, <1>2, <1>8 DEF TypeInv
<1>10. ThreadsArePlaced'
  BY <1>2, <1>3, <1>4, <1>8, MemoryAssumption DEF ThreadsArePlaced
<1> QED
  BY <1>8, <1>9, <1>10 DEF IInv

-----------------------------------------------------------------------------
(* Pools and their drains *)

LEMMA PoolInitPreserves ==
    ASSUME IInv, NEW t \in Threads, PoolInit(t)
    PROVE  IInv'
<1>1. /\ thread[t] = "running" /\ work[t] = <<>>
      /\ pools' = [pools EXCEPT ![t] = Append(@, <<>>)]
      /\ UNCHANGED <<magic, count, contents, own, thread, argument, work, aborted, wild>>
  BY DEF PoolInit, Ready, clients
<1>2. /\ TypeInv /\ CountsAgree /\ DeallocsAgree /\ CallsArePlaced /\ PoolsAreWhole
      /\ NoisyAreOwned /\ ThreadsArePlaced /\ pools \in PoolsRecord
  BY DEF IInv, TypeInv
<1>3. /\ pools' \in PoolsRecord /\ \A u \in Threads \ {t} : pools'[u] = pools[u]
      /\ Len(pools'[t]) = Len(pools[t]) + 1 /\ Len(pools[t]) \in Nat
      /\ \A k \in 1 .. Len(pools[t]) : pools'[t][k] = pools[t][k]
      /\ pools'[t][Len(pools[t]) + 1] = <<>>
  <2>1. pools[t] \in Seq(Seq(BlockRecord)) /\ <<>> \in Seq(BlockRecord)
    BY <1>2, BlocksAre
  <2>2. Append(pools[t], <<>>) \in Seq(Seq(BlockRecord))
    BY <2>1
  <2> QED
    BY <1>1, <1>2, <2>1, <2>2 DEF PoolsRecord
<1>4. \A u \in Threads : \A k, b, i, y : Lies(pools', u, k, b, i, y) <=> Lies(pools, u, k, b, i, y)
  <2> SUFFICES ASSUME NEW u \in Threads, NEW k, NEW b, NEW i, NEW y
               PROVE  Lies(pools', u, k, b, i, y) <=> Lies(pools, u, k, b, i, y)
    OBVIOUS
  <2>1. CASE u # t
    BY <1>3, <2>1 DEF Lies
  <2>2. CASE u = t /\ k \in 1 .. Len(pools[t])
    <3>1. pools'[u][k] = pools[u][k] /\ k \in 1 .. Len(pools[u]) /\ k \in 1 .. Len(pools'[u])
      BY <1>3, <2>2
    <3> QED
      BY <3>1 DEF Lies
  <2>3. CASE u = t /\ k \notin 1 .. Len(pools[t])
    <3>1. ~Lies(pools, u, k, b, i, y)
      BY <2>3 DEF Lies
    <3>2. k \in 1 .. Len(pools'[t]) => 1 .. Len(pools'[t][k]) = {}
      BY <1>3, <2>3
    <3> QED
      BY <2>3, <3>1, <3>2 DEF Lies
  <2> QED
    BY <2>1, <2>2, <2>3
<1>5. \A y \in Instances : PooledAt(y)' = PooledAt(y)
  BY <1>2, <1>3, <1>4, NothingLies
<1>6. \A y \in Instances : /\ Same(y) /\ OwnedAt(y)' = OwnedAt(y) /\ HeldBy(y)' = HeldBy(y)
                           /\ GivenTo(y)' = GivenTo(y) /\ PooledAt(y)' = PooledAt(y)
  BY <1>1, <1>5 DEF Same, Refs, OwnedAt, HeldBy, GivenTo
<1>7. KeepsDeallocs /\ FramesStay
  BY <1>1 DEF KeepsDeallocs, FramesStay, Deallocates
<1>8. CountsAgree' /\ DeallocsAgree'
  <2>1. \A y \in Instances : magic[y] # "valid" => contents'[y] = {}
    BY <1>1, <1>2 DEF DeallocsAgree
  <2>2. \A y \in Instances : IsFiniteSet(PooledAt(y)') /\ References(y)' = References(y)
    BY <1>2, <1>6, SameIsQuiet
  <2> QED
    BY <1>1, <1>2, <1>7, <2>1, <2>2, QuietCounts
<1>9. CallsArePlaced'
  <2> SUFFICES ASSUME NEW u \in Threads
               PROVE  ArePlaced(work'[u], pools'[u], thread'[u])
    BY DEF CallsArePlaced
  <2>1. work'[u] = work[u] /\ thread'[u] = thread[u] /\ (u # t => pools'[u] = pools[u])
    BY <1>1, <1>3
  <2> QED
    BY <1>1, <1>2, <2>1, CallsStay
<1>10. PoolsAreWhole'
  <2> SUFFICES ASSUME NEW u \in Threads
               PROVE  IsWhole(pools'[u], work'[u])
    BY DEF PoolsAreWhole
  <2>1. CASE u = t
    <3>1. /\ \A k \in 1 .. Len(pools[t]) : \A b \in 1 .. Len(pools[t][k]) : pools[t][k][b].freed = FALSE
          /\ \A k, b, i : ~Lies(pools, t, k, b, i, Nil)
      BY <1>1, <1>2, PoolsAreClean
    <3>2. \A k, b, i : ~Lies(pools', t, k, b, i, Nil)
      BY <1>4, <3>1
    <3>3. \A k \in 1 .. Len(pools'[t]) : \A b \in 1 .. Len(pools'[t][k]) : pools'[t][k][b].freed # TRUE
      <4> SUFFICES ASSUME NEW k \in 1 .. Len(pools'[t]), NEW b \in 1 .. Len(pools'[t][k])
                   PROVE  pools'[t][k][b].freed # TRUE
        OBVIOUS
      <4>1. CASE k \in 1 .. Len(pools[t])
        BY <1>3, <3>1, <4>1
      <4>2. CASE k = Len(pools[t]) + 1
        BY <1>3, <4>2
      <4>3. k \in 1 .. Len(pools[t]) \/ k = Len(pools[t]) + 1
        <5>1. k \in 1 .. Len(pools[t]) + 1 /\ Len(pools[t]) \in Nat
          BY <1>3
        <5> QED
          BY <5>1
      <4> QED
        BY <4>1, <4>2, <4>3
    <3>4. IsWhole(pools'[t], work'[t])
      BY <3>2, <3>3, CleanIsWhole
    <3> QED
      BY <2>1, <3>4
  <2>2. CASE u # t
    BY <1>1, <1>2, <1>3, <2>2 DEF PoolsAreWhole
  <2> QED
    BY <2>1, <2>2
<1>11. NoisyAreOwned'
  <2>1. \A y \in Noisy : OnlyOwned(y)'
    <3>1. Noisy \subseteq Instances
      BY MemoryAssumption
    <3> QED
      BY <1>2, <1>6, <3>1 DEF NoisyAreOwned, OnlyOwned
  <2> QED
    BY <1>1, <1>2, <1>7, <2>1, NoisyStay
<1>12. TypeInv'
  BY <1>1, <1>2, <1>3 DEF TypeInv
<1>13. ThreadsArePlaced'
  BY <1>1, <1>2 DEF ThreadsArePlaced
<1> QED
  BY <1>8, <1>9, <1>10, <1>11, <1>12, <1>13 DEF IInv

\* wi_pool_drain of the pool k, or the release of the top pool, begins.
LEMMA StartPreserves ==
    ASSUME IInv, NEW t \in Threads, Ready(t), NEW k \in 1 .. Len(pools[t]), NEW kind,
           kind = "drain" \/ (kind = "dispose" /\ k = Len(pools[t])),
           StartDrain(t, kind, k),
           UNCHANGED <<magic, count, contents, own, thread, argument, pools, aborted, wild>>
    PROVE  IInv'
<1>1. thread[t] = "running" /\ work[t] = <<>>
  BY DEF Ready
<1>2. /\ TypeInv /\ CountsAgree /\ DeallocsAgree /\ CallsArePlaced /\ PoolsAreWhole
      /\ NoisyAreOwned /\ ThreadsArePlaced /\ pools \in PoolsRecord
  BY DEF IInv, TypeInv
<1>3. PICK b, l : /\ b = Len(pools[t][k]) /\ l = LengthOf(t, k, b) /\ b \in Nat /\ k \in Nat
                  /\ l \in Nat
                  /\ l = IF b = 0 THEN 0 ELSE Len(pools[t][k][b].instances)
  <2>1. Len(pools[t][k]) \in Nat /\ k \in Nat
    BY <1>2, BlocksAre
  <2>2. LengthOf(t, k, Len(pools[t][k])) \in Nat
    <3>1. CASE Len(pools[t][k]) = 0
      BY <3>1 DEF LengthOf
    <3>2. CASE Len(pools[t][k]) # 0
      <4>1. Len(pools[t][k]) \in 1 .. Len(pools[t][k])
        BY <2>1, <3>2
      <4> QED
        BY <1>2, <3>2, <4>1, BlocksAre DEF LengthOf
    <3> QED
      BY <3>1, <3>2
  <2> QED
    BY <2>1, <2>2 DEF LengthOf
<1>4. PICK c : /\ c = Call(kind, Nil, k, b, 1, l) /\ c \in CallRecord
               /\ c.kind = kind /\ c.of = Nil /\ c.pool = k /\ c.block = b /\ c.at = 1 /\ c.length = l
  <2>1. LET c == Call(kind, Nil, k, b, 1, l)
        IN  /\ c \in CallRecord
            /\ c.kind = kind /\ c.of = Nil /\ c.pool = k /\ c.block = b /\ c.at = 1 /\ c.length = l
    BY <1>3 DEF Call, CallRecord, Kinds
  <2> QED
    BY <2>1
<1>5. /\ work'[t] = <<c>> /\ \A u \in Threads \ {t} : work'[u] = work[u]
      /\ work' \in [Threads -> Seq(CallRecord)]
  <2>1. work' = [work EXCEPT ![t] = <<c>>]
    BY <1>3, <1>4 DEF StartDrain
  <2> QED
    BY <1>2, <1>4, <2>1 DEF TypeInv
<1>6. KeepsDeallocs /\ FramesStay
  <2>1. \A n \in Nat : \A y \in Instances : ~Deallocates(t, n, y) /\ ~Deallocates(t, n, y)'
    BY <1>1, <1>4, <1>5 DEF Deallocates
  <2>2. \A u \in Threads \ {t} : \A n \in Nat : \A y \in Instances :
            Deallocates(u, n, y)' <=> Deallocates(u, n, y)
    BY <1>5 DEF Deallocates
  <2> QED
    BY <1>5, <2>1, <2>2 DEF KeepsDeallocs, FramesStay
<1>7. CallsArePlaced' /\ PoolsAreWhole'
  <2>1. ArePlaced(work'[t], pools'[t], thread'[t])
    <3>1. DrainIsPlaced(pools[t], c)
      <4>1. c.at \in 1 .. c.length + 1 /\ 1 .. c.at - 1 = {} /\ c.block + 1 .. Len(pools[t][k]) = {}
        <5>1. c.at = 1 /\ c.length \in Nat /\ c.block = Len(pools[t][k]) /\ c.block \in Nat
          BY <1>3, <1>4
        <5> QED
          BY <5>1
      <4>2. c.block \in 0 .. Len(pools[t][k])
        BY <1>3, <1>4
      <4> QED
        BY <1>3, <1>4, <4>1, <4>2 DEF DrainIsPlaced
    <3>2. IsPlaced(pools[t], thread[t], 1, c)
      <4>1. Nil \notin Noisy
        BY MemoryAssumption
      <4> QED
        BY <1>4, <3>1, <4>1 DEF IsPlaced
    <3>3. Len(<<c>>) = 1 /\ <<c>>[1] = c /\ 1 .. 1 = {1}
      OBVIOUS
    <3> QED
      BY <1>5, <3>2, <3>3 DEF ArePlaced
  <2>2. ASSUME NEW u \in Threads \ {t}
        PROVE  ArePlaced(work'[u], pools'[u], thread'[u])
    BY <1>2, <1>5, CallsStay
  <2>3. \A u \in Threads : IsWhole(pools'[u], work'[u])
    <3>1. \A u \in Threads : pools'[u] = pools[u] /\ IsWhole(pools[u], work[u])
      BY <1>2 DEF PoolsAreWhole
    <3>2. \A u \in Threads : work'[u] = work[u] \/ work[u] = <<>>
      BY <1>1, <1>5
    <3> QED
      BY <3>1, <3>2, PoolsStay
  <2> QED
    BY <2>1, <2>2, <2>3 DEF CallsArePlaced, PoolsAreWhole
<1>8. \A y : Same(y) /\ OwnedAt(y)' = OwnedAt(y) /\ HeldBy(y)' = HeldBy(y)
             /\ GivenTo(y)' = GivenTo(y) /\ PooledAt(y)' = PooledAt(y)
  BY DEF Same, Refs, OwnedAt, HeldBy, GivenTo, PooledAt, Pooled
<1>9. CountsAgree' /\ DeallocsAgree'
  <2>1. \A y \in Instances : magic[y] # "valid" => contents'[y] = {}
    BY <1>2 DEF DeallocsAgree
  <2>2. \A y \in Instances : IsFiniteSet(PooledAt(y)') /\ References(y)' = References(y)
    BY <1>2, <1>8, SameIsQuiet
  <2> QED
    BY <1>2, <1>6, <2>1, <2>2, QuietCounts
<1>10. NoisyAreOwned'
  <2>1. \A y \in Noisy : OnlyOwned(y)'
    BY <1>2, <1>8 DEF NoisyAreOwned, OnlyOwned
  <2> QED
    BY <1>2, <1>6, <2>1, NoisyStay
<1>11. TypeInv'
  BY <1>2, <1>5 DEF TypeInv
<1>12. ThreadsArePlaced'
  BY <1>1, <1>2, <1>5 DEF ThreadsArePlaced
<1> QED
  BY <1>7, <1>9, <1>10, <1>11, <1>12 DEF IInv

LEMMA DrainStartPreserves ==
    ASSUME IInv, NEW t \in Threads, PoolDrain(t) \/ PoolRelease(t)
    PROVE  IInv'
<1>1. pools \in PoolsRecord
  BY DEF IInv, TypeInv
<1>2. pools[t] \in Seq(Seq(BlockRecord))
  BY <1>1, BlocksAre
<1>3. CASE PoolDrain(t)
  <2>1. PICK k \in 1 .. Len(pools[t]) : StartDrain(t, "drain", k)
    BY <1>2, <1>3 DEF PoolDrain
  <2> QED
    BY <1>3, <2>1, StartPreserves DEF PoolDrain, clients
<1>4. CASE PoolRelease(t)
  <2>1. Len(pools[t]) \in 1 .. Len(pools[t])
    BY <1>2, <1>4 DEF PoolRelease
  <2> QED
    BY <1>4, <2>1, StartPreserves DEF PoolRelease, clients
<1> QED
  BY <1>3, <1>4

\* A drain that is running is the only call of its thread.
LEMMA DrainIs ==
    ASSUME TypeInv, CallsArePlaced, PoolsAreWhole, NEW t \in Threads, Draining(t)
    PROVE  \E f \in CallRecord :
               /\ f = Running(t) /\ work[t] = <<f>> /\ Outer(t) = <<>>
               /\ f.kind \in {"drain", "dispose"} /\ DrainIsPlaced(pools[t], f)
               /\ f.kind = "dispose" => f.pool = Len(pools[t])
               /\ f.pool \in 1 .. Len(pools[t]) /\ f.block \in 0 .. Len(pools[t][f.pool])
               /\ f.block \in Nat /\ f.at \in Nat /\ f.length \in Nat
               /\ \A k : Drains(work[t], k) <=> k = f.pool
<1>1. work[t] # <<>> /\ Running(t).kind \in {"drain", "dispose"}
  BY DEF Draining, Runs
<1>2. /\ work[t] \in Seq(CallRecord) /\ Len(work[t]) \in Nat \ {0}
      /\ Running(t) = work[t][Len(work[t])] /\ Running(t) \in CallRecord
      /\ IsPlaced(pools[t], thread[t], Len(work[t]), Running(t))
  BY <1>1, RunningIs
<1>3. PICK f \in CallRecord : f = Running(t)
  BY <1>2
<1>4. Len(work[t]) = 1 /\ DrainIsPlaced(pools[t], f)
  BY <1>1, <1>2, <1>3 DEF IsPlaced
<1>5. work[t] = <<f>>
  BY <1>2, <1>3, <1>4
<1>6. Outer(t) = <<>>
  BY <1>2, <1>4 DEF Outer, Front
<1>7. f.block \in Nat /\ f.at \in Nat /\ f.length \in Nat
  BY DEF CallRecord
<1>8. /\ f.pool \in 1 .. Len(pools[t]) /\ f.block \in 0 .. Len(pools[t][f.pool])
      /\ f.kind = "dispose" => f.pool = Len(pools[t])
  BY <1>4 DEF DrainIsPlaced
<1>9. \A k : Drains(work[t], k) <=> k = f.pool
  BY <1>1, <1>3, <1>5 DEF Drains
<1> QED
  BY <1>1, <1>3, <1>4, <1>5, <1>6, <1>7, <1>8, <1>9

\* The next instance of the block.
LEMMA DrainOnePreserves ==
    ASSUME IInv, NEW t \in Threads, DrainOne(t)
    PROVE  IInv'
<1>1. /\ TypeInv /\ CountsAgree /\ DeallocsAgree /\ CallsArePlaced /\ PoolsAreWhole
      /\ NoisyAreOwned /\ ThreadsArePlaced /\ pools \in PoolsRecord
  BY DEF IInv, TypeInv
<1>2. Draining(t)
  BY DEF DrainOne
<1>3. PICK f \in CallRecord :
          /\ f = Running(t) /\ work[t] = <<f>> /\ Outer(t) = <<>>
          /\ f.kind \in {"drain", "dispose"} /\ DrainIsPlaced(pools[t], f)
          /\ f.kind = "dispose" => f.pool = Len(pools[t])
          /\ f.pool \in 1 .. Len(pools[t]) /\ f.block \in 0 .. Len(pools[t][f.pool])
          /\ f.block \in Nat /\ f.at \in Nat /\ f.length \in Nat
          /\ \A k : Drains(work[t], k) <=> k = f.pool
  BY <1>1, <1>2, DrainIs
<1>4. PICK g : g = [f EXCEPT !.at = f.at + 1]
  OBVIOUS
<1>5. /\ g \in CallRecord /\ g.kind = f.kind /\ g.of = f.of /\ g.pool = f.pool
      /\ g.block = f.block /\ g.at = f.at + 1 /\ g.length = f.length
  <2>1. f.at + 1 \in Nat
    BY <1>3
  <2> DEFINE n == f.at + 1
  <2>2. n \in Nat /\ g = [f EXCEPT !.at = n]
    BY <1>4, <2>1
  <2> HIDE DEF n
  <2>3. /\ g \in CallRecord /\ g.kind = f.kind /\ g.of = f.of /\ g.pool = f.pool
        /\ g.block = f.block /\ g.at = n /\ g.length = f.length
    BY <2>2, Zenon DEF CallRecord
  <2> QED
    BY <2>3 DEF n
<1>6. PICK k, b, i, x : k = f.pool /\ b = f.block /\ i = f.at /\ x = pools[t][k][b].instances[i]
  OBVIOUS
<1>7. /\ i <= f.length
      /\ pools' = Changed(pools, t, k, Cleared(pools[t][k], b, i))
      /\ Release(t, x, <<g>>)
      /\ UNCHANGED <<magic, contents, own, thread, argument, wild>>
  <2>1. /\ f.at <= f.length
        /\ pools' = Changed(pools, t, f.pool, Cleared(pools[t][f.pool], f.block, f.at))
        /\ UNCHANGED <<magic, contents, own, thread, argument, wild>>
    BY <1>3 DEF DrainOne, Changed, Cleared, clients
  <2>2. Release(t, pools[t][f.pool][f.block].instances[f.at], <<g>>)
    <3>1. Append(<<>>, g) = <<g>>
      OBVIOUS
    <3>2. Release(t, pools[t][f.pool][f.block].instances[f.at], Append(<<>>, g))
      BY <1>3, <1>4 DEF DrainOne
    <3> QED
      BY <3>1, <3>2
  <2> QED
    BY <1>6, <2>1, <2>2
<1>8. /\ k \in 1 .. Len(pools[t]) /\ b \in 1 .. Len(pools[t][k]) /\ k \in Nat /\ b \in Nat /\ i \in Nat
      /\ f.length = Len(pools[t][k][b].instances) /\ i \in 1 .. Len(pools[t][k][b].instances)
      /\ x \in Instances /\ Len(pools[t][k]) \in Nat /\ Len(pools[t][k][b].instances) \in Nat
  <2>1. /\ i \in 1 .. f.length + 1 /\ b \in 0 .. Len(pools[t][k])
        /\ f.length = IF b = 0 THEN 0 ELSE Len(pools[t][k][b].instances)
    BY <1>3, <1>6 DEF DrainIsPlaced
  <2>2. i \in Nat /\ 1 <= i /\ i <= f.length /\ f.length \in Nat
    <3>1. f.length \in Nat /\ i \in Nat
      BY <1>3, <1>6
    <3>2. i <= f.length
      BY <1>7
    <3> QED
      BY <2>1, <3>1, <3>2
  <2>3. b # 0 /\ f.length = Len(pools[t][k][b].instances)
    BY <2>1, <2>2
  <2>4. k \in 1 .. Len(pools[t]) /\ Len(pools[t][k]) \in Nat
    BY <1>1, <1>3, <1>6, BlocksAre
  <2>5. k \in Nat /\ b \in 1 .. Len(pools[t][k]) /\ i \in 1 .. Len(pools[t][k][b].instances)
    BY <2>1, <2>2, <2>3, <2>4
  <2>6. pools[t][k][b].instances \in Seq(Instances \cup {Nil})
    BY <1>1, <2>4, <2>5, BlocksAre
  <2>7. x \in Instances \cup {Nil}
    BY <1>6, <2>5, <2>6
  <2>8. x # Nil
    <3>1. work[t][1] = f
      BY <1>3
    <3>2. IsWhole(pools[t], work[t])
      BY <1>1 DEF PoolsAreWhole
    <3>3. x = Nil => i < f.at
      BY <1>6, <2>4, <2>5, <3>1, <3>2 DEF IsWhole
    <3> QED
      BY <1>6, <2>2, <3>3
  <2> QED
    BY <1>3, <2>2, <2>3, <2>4, <2>5, <2>7, <2>8
<1>9. /\ pools' \in PoolsRecord
      /\ \A u \in Threads : Len(pools'[u]) = Len(pools[u])
      /\ \A u \in Threads \ {t} : pools'[u] = pools[u]
      /\ pools'[t][k] = Cleared(pools[t][k], b, i)
      /\ \A l \in (1 .. Len(pools[t])) \ {k} : pools'[t][l] = pools[t][l]
      /\ \A y \in Instances : IF y = x THEN Plus(PooledAt(y)', PooledAt(y)) ELSE PooledAt(y)' = PooledAt(y)
      /\ \A l, c, j : Lies(pools', t, l, c, j, Nil) =>
             Lies(pools, t, l, c, j, Nil) \/ (l = k /\ c = b /\ j = i)
  <2>1. pools' = Changed(pools, t, k, Cleared(pools[t][k], b, i))
    BY <1>7
  <2>2. /\ pools' \in PoolsRecord
        /\ \A u \in Threads : Len(pools'[u]) = Len(pools[u])
        /\ \A u \in Threads \ {t} : pools'[u] = pools[u]
        /\ pools'[t][k] = Cleared(pools[t][k], b, i)
        /\ \A l \in (1 .. Len(pools[t])) \ {k} : pools'[t][l] = pools[t][l]
        /\ \A y \in Instances :
               IF y = pools[t][k][b].instances[i] THEN Plus(PooledAt(y)', PooledAt(y))
               ELSE PooledAt(y)' = PooledAt(y)
        /\ \A l, c, j : Lies(pools', t, l, c, j, Nil) =>
               Lies(pools, t, l, c, j, Nil) \/ (l = k /\ c = b /\ j = i)
    <3>1. /\ pools \in PoolsRecord /\ k \in 1 .. Len(pools[t]) /\ b \in 1 .. Len(pools[t][k])
          /\ i \in 1 .. Len(pools[t][k][b].instances) /\ pools[t][k][b].instances[i] \in Instances
      BY <1>1, <1>6, <1>8
    <3> QED
      BY <2>1, <3>1, DrainTakesOne
  <2> QED
    BY <1>6, <2>2
<1>10. /\ Len(pools'[t][k]) = Len(pools[t][k]) /\ pools'[t][k][b].freed = pools[t][k][b].freed
       /\ \A c \in (1 .. Len(pools[t][k])) \ {b} : pools'[t][k][c] = pools[t][k][c]
       /\ Len(pools'[t][k][b].instances) = Len(pools[t][k][b].instances)
       /\ \A j \in 1 .. Len(pools[t][k][b].instances) :
              pools'[t][k][b].instances[j] = IF j = i THEN Nil ELSE pools[t][k][b].instances[j]
  <2>1. pools[t][k] \in Seq(BlockRecord)
    BY <1>1, <1>8, BlocksAre
  <2> QED
    BY <1>8, <1>9, <2>1, ClearedIs
<1>11. /\ \A y : OwnedAt(y)' = OwnedAt(y) /\ HeldBy(y)' = HeldBy(y) /\ GivenTo(y)' = GivenTo(y)
  BY <1>7 DEF OwnedAt, HeldBy, GivenTo
<1>12. Lost(x) /\ \A y \in Instances \ {x} : Same(y)
  <2>1. Plus(PooledAt(x)', PooledAt(x))
    BY <1>8, <1>9
  <2> QED
    BY <1>9, <1>11, <2>1 DEF Lost, Same, Refs
<1>13. x \notin Noisy
  <2>1. \A p : p \in PooledAt(x) => x \notin Noisy
    BY <1>1 DEF NoisyAreOwned, OnlyOwned
  <2>2. \E p : p \in PooledAt(x)
    BY <1>8, <1>9 DEF Plus
  <2> QED
    BY <2>1, <2>2
<1>14. <<g>> \in Seq(CallRecord) /\ Len(<<g>>) = 1 /\ <<g>>[1] = g /\ 1 .. 1 = {1} /\ 1 .. Len(<<g>>) = {1}
  BY <1>5
<1>15. \A n \in Nat : \A y \in Instances : ~Deallocates(t, n, y)
  BY <1>3 DEF Deallocates
<1>16. /\ CountsAgree' /\ DeallocsAgree'
       /\ count' \in [Instances -> 0 .. Modulus - 1] /\ aborted' = aborted
       /\ work' \in [Threads -> Seq(CallRecord)]
       /\ \A u \in Threads \ {t} : work'[u] = work[u]
       /\ work'[t] = <<g>> \/ work'[t] = Append(<<g>>, Dealloc(x))
  <2>1. SameDeallocs(t, <<g>>)
    BY <1>3, <1>5, <1>14, <1>15 DEF SameDeallocs
  <2>2. \A y \in Instances : magic[y] # "valid" => contents'[y] = {}
    BY <1>1, <1>7 DEF DeallocsAgree
  <2> QED
    BY <1>1, <1>7, <1>8, <1>12, <1>14, <2>1, <2>2, ReleaseCounts
<1>17. work'[t] # <<>> /\ work'[t][1] = g
  <2>1. Dealloc(x) \in CallRecord
    BY <1>8, DeallocIs
  <2> HIDE DEF Dealloc
  <2> QED
    BY <1>14, <1>16, <2>1
<1>18. CallsArePlaced'
  <2>1. DrainIsPlaced(pools'[t], g)
    <3>1. /\ g.pool \in 1 .. Len(pools'[t]) /\ (g.kind = "dispose" => g.pool = Len(pools'[t]))
          /\ g.block \in 0 .. Len(pools'[t][g.pool])
          /\ g.length = IF g.block = 0 THEN 0 ELSE Len(pools'[t][g.pool][g.block].instances)
      <4>1. g.block = b /\ g.pool = k /\ g.length = f.length /\ b # 0 /\ b \in 0 .. Len(pools[t][k])
        BY <1>3, <1>5, <1>6, <1>8
      <4>2. /\ Len(pools'[t]) = Len(pools[t]) /\ Len(pools'[t][k]) = Len(pools[t][k])
            /\ Len(pools'[t][k][b].instances) = f.length
        BY <1>8, <1>9, <1>10
      <4>3. k \in 1 .. Len(pools[t]) /\ (g.kind = "dispose" => k = Len(pools[t]))
        BY <1>3, <1>5, <1>6
      <4> QED
        BY <4>1, <4>2, <4>3
    <3>2. g.at \in 1 .. g.length + 1 /\ g.at - 1 = i
      <4>1. g.at = i + 1 /\ g.length = f.length /\ i \in Nat /\ f.length \in Nat /\ i <= f.length
        BY <1>3, <1>5, <1>6, <1>8
      <4> QED
        BY <4>1
    <3>3. \A j \in 1 .. g.at - 1 : pools'[t][g.pool][g.block].instances[j] = Nil
      <4> SUFFICES ASSUME NEW j \in 1 .. i
                   PROVE  pools'[t][k][b].instances[j] = Nil
        BY <1>5, <1>6, <3>2
      <4>1. j \in 1 .. Len(pools[t][k][b].instances)
        BY <1>8
      <4>2. CASE j = i
        BY <1>10, <4>1, <4>2
      <4>3. CASE j # i
        <5>1. j \in 1 .. f.at - 1
          BY <1>3, <1>6, <1>8, <4>3
        <5>2. pools[t][k][b].instances[j] = Nil
          BY <1>3, <1>6, <5>1 DEF DrainIsPlaced
        <5> QED
          BY <1>10, <4>1, <4>3, <5>2
      <4> QED
        BY <4>2, <4>3
    <3>4. \A c \in g.block + 1 .. Len(pools'[t][g.pool]) : pools'[t][g.pool][c].instances = <<>>
      <4> SUFFICES ASSUME NEW c \in b + 1 .. Len(pools[t][k])
                   PROVE  pools'[t][k][c].instances = <<>>
        BY <1>5, <1>6, <1>10
      <4>1. c \in f.block + 1 .. Len(pools[t][f.pool])
        BY <1>6
      <4>2. pools[t][k][c].instances = <<>>
        BY <1>3, <1>6, <4>1 DEF DrainIsPlaced
      <4>3. c \in (1 .. Len(pools[t][k])) \ {b}
        BY <1>8
      <4> QED
        BY <1>10, <4>2, <4>3
    <3> QED
      BY <3>1, <3>2, <3>3, <3>4 DEF DrainIsPlaced
  <2>2. ArePlaced(<<g>>, pools'[t], thread'[t])
    <3>1. IsPlaced(pools[t], thread[t], 1, f)
      <4>1. Len(work[t]) = 1 /\ work[t][1] = f /\ 1 \in 1 .. 1
        BY <1>3
      <4> QED
        BY <1>1, <4>1 DEF CallsArePlaced, ArePlaced
    <3>2. f.of \notin Noisy
      BY <1>3, <3>1 DEF IsPlaced
    <3>3. IsPlaced(pools'[t], thread'[t], 1, g)
      BY <1>3, <1>5, <2>1, <3>2 DEF IsPlaced
    <3> QED
      BY <1>14, <3>3 DEF ArePlaced
  <2>3. ArePlaced(work'[t], pools'[t], thread'[t])
    <3>1. \A n \in 1 .. Len(<<g>>) : <<g>>[n].kind # "create"
      BY <1>3, <1>5, <1>14
    <3> HIDE DEF Dealloc
    <3> QED
      BY <1>8, <1>13, <1>14, <1>16, <2>2, <3>1, ReleasePlaces
  <2>4. ASSUME NEW u \in Threads \ {t}
        PROVE  ArePlaced(work'[u], pools'[u], thread'[u])
    BY <1>1, <1>7, <1>9, <1>16, CallsStay
  <2> QED
    BY <2>3, <2>4 DEF CallsArePlaced
<1>19. PoolsAreWhole'
  <2>1. IsWhole(pools'[t], work'[t])
    <3>1. Drains(work'[t], k)
      BY <1>3, <1>5, <1>6, <1>17 DEF Drains
    <3>2. work[t][1] = f
      BY <1>3
    <3>3. ASSUME NEW l \in 1 .. Len(pools'[t]), NEW c \in 1 .. Len(pools'[t][l]), pools'[t][l][c].freed = TRUE
          PROVE  Drains(work'[t], l) /\ work'[t][1].block < c
      <4>1. l \in 1 .. Len(pools[t]) /\ c \in 1 .. Len(pools[t][l]) /\ pools[t][l][c].freed = TRUE
        BY <1>9, <1>10, <3>3
      <4>2. Drains(work[t], l) /\ f.block < c
        BY <1>1, <3>2, <4>1 DEF PoolsAreWhole, IsWhole
      <4> QED
        BY <1>3, <1>5, <1>6, <1>17, <3>1, <4>2
    <3>4. ASSUME NEW l \in 1 .. Len(pools'[t]), NEW c \in 1 .. Len(pools'[t][l]),
                 NEW j \in 1 .. Len(pools'[t][l][c].instances), pools'[t][l][c].instances[j] = Nil
          PROVE  Drains(work'[t], l) /\ work'[t][1].block = c /\ j < work'[t][1].at
      <4>1. Lies(pools', t, l, c, j, Nil)
        BY <3>4 DEF Lies
      <4>2. Lies(pools, t, l, c, j, Nil) \/ (l = k /\ c = b /\ j = i)
        BY <1>9, <4>1
      <4>3. CASE Lies(pools, t, l, c, j, Nil)
        <5>1. Drains(work[t], l) /\ f.block = c /\ j < f.at
          BY <1>1, <3>2, <4>3 DEF PoolsAreWhole, IsWhole, Lies
        <5>2. j \in Nat
          BY <4>3 DEF Lies
        <5> QED
          BY <1>3, <1>5, <1>6, <1>17, <3>1, <5>1, <5>2
      <4>4. CASE l = k /\ c = b /\ j = i
        BY <1>5, <1>6, <1>8, <1>17, <3>1, <4>4
      <4> QED
        BY <4>2, <4>3, <4>4
    <3> QED
      BY <3>3, <3>4 DEF IsWhole
  <2>2. ASSUME NEW u \in Threads \ {t}
        PROVE  IsWhole(pools'[u], work'[u])
    BY <1>1, <1>9, <1>16 DEF PoolsAreWhole
  <2> QED
    BY <2>1, <2>2 DEF PoolsAreWhole
<1>20. NoisyAreOwned'
  <2>1. \A y \in Noisy : OnlyOwned(y)'
    <3>1. Noisy \subseteq Instances \ {x}
      BY <1>13, MemoryAssumption
    <3> QED
      BY <1>1, <1>9, <1>11, <3>1 DEF NoisyAreOwned, OnlyOwned
  <2>2. FramesStay
    BY <1>15, <1>16 DEF FramesStay, Deallocates
  <2> QED
    BY <1>1, <1>7, <2>1, <2>2, NoisyStay
<1>21. TypeInv'
  BY <1>1, <1>7, <1>9, <1>16 DEF TypeInv
<1>22. ThreadsArePlaced'
  <2>1. thread[t] \notin {"none", "creating", "exiting"}
    <3>1. work[t] # <<>>
      BY <1>3
    <3> QED
      BY <1>1, <3>1 DEF ThreadsArePlaced
  <2> QED
    BY <1>1, <1>7, <1>16, <2>1 DEF ThreadsArePlaced
<1> QED
  BY <1>16, <1>18, <1>19, <1>20, <1>21, <1>22 DEF IInv

\* A step of a drain that releases nothing.
LEMMA QuietDrain ==
    ASSUME IInv, NEW t \in Threads, Draining(t),
           pools' \in PoolsRecord, \A u \in Threads \ {t} : pools'[u] = pools[u],
           \A k, b, i : \A y \in Instances : Lies(pools', t, k, b, i, y) <=> Lies(pools, t, k, b, i, y),
           NEW calls \in Seq(CallRecord), work' = [work EXCEPT ![t] = calls],
           \A n \in 1 .. Len(calls) : calls[n].kind # "dealloc",
           ArePlaced(calls, pools'[t], thread[t]), IsWhole(pools'[t], calls),
           UNCHANGED <<magic, count, contents, own, thread, argument, aborted, wild>>
    PROVE  IInv'
<1>1. /\ TypeInv /\ CountsAgree /\ DeallocsAgree /\ CallsArePlaced /\ PoolsAreWhole
      /\ NoisyAreOwned /\ ThreadsArePlaced /\ pools \in PoolsRecord
  BY DEF IInv, TypeInv
<1>2. PICK f \in CallRecord : work[t] = <<f>> /\ f.kind \in {"drain", "dispose"}
  BY <1>1, DrainIs
<1>3. /\ work'[t] = calls /\ \A u \in Threads \ {t} : work'[u] = work[u]
      /\ work' \in [Threads -> Seq(CallRecord)]
  BY <1>1 DEF TypeInv
<1>4. KeepsDeallocs /\ FramesStay
  <2>1. \A n \in Nat : \A y \in Instances : ~Deallocates(t, n, y) /\ ~Deallocates(t, n, y)'
    BY <1>2, <1>3 DEF Deallocates
  <2>2. \A u \in Threads \ {t} : \A n \in Nat : \A y \in Instances :
            Deallocates(u, n, y)' <=> Deallocates(u, n, y)
    BY <1>3 DEF Deallocates
  <2> QED
    BY <1>3, <2>1, <2>2 DEF KeepsDeallocs, FramesStay
<1>5. \A y \in Instances : PooledAt(y)' = PooledAt(y)
  <2>1. \A u \in Threads : \A k, b, i : \A y \in Instances :
            Lies(pools', u, k, b, i, y) <=> Lies(pools, u, k, b, i, y)
    <3>1. \A u \in Threads \ {t} : \A k, b, i, y : Lies(pools', u, k, b, i, y) <=> Lies(pools, u, k, b, i, y)
      BY DEF Lies
    <3> QED
      BY <3>1
  <2> QED
    BY <1>1, <2>1, NothingLies
<1>6. \A y \in Instances : /\ Same(y) /\ OwnedAt(y)' = OwnedAt(y) /\ HeldBy(y)' = HeldBy(y)
                           /\ GivenTo(y)' = GivenTo(y) /\ PooledAt(y)' = PooledAt(y)
  BY <1>5 DEF Same, Refs, OwnedAt, HeldBy, GivenTo
<1>7. CountsAgree' /\ DeallocsAgree'
  <2>1. \A y \in Instances : magic[y] # "valid" => contents'[y] = {}
    BY <1>1 DEF DeallocsAgree
  <2>2. \A y \in Instances : IsFiniteSet(PooledAt(y)') /\ References(y)' = References(y)
    BY <1>1, <1>6, SameIsQuiet
  <2> QED
    BY <1>1, <1>4, <2>1, <2>2, QuietCounts
<1>8. CallsArePlaced' /\ PoolsAreWhole'
  <2>1. ASSUME NEW u \in Threads \ {t}
        PROVE  ArePlaced(work'[u], pools'[u], thread'[u]) /\ IsWhole(pools'[u], work'[u])
    BY <1>1, <1>3, CallsStay DEF PoolsAreWhole
  <2> QED
    BY <1>3, <2>1 DEF CallsArePlaced, PoolsAreWhole
<1>9. NoisyAreOwned'
  <2>1. \A y \in Noisy : OnlyOwned(y)'
    <3>1. Noisy \subseteq Instances
      BY MemoryAssumption
    <3> QED
      BY <1>1, <1>6, <3>1 DEF NoisyAreOwned, OnlyOwned
  <2> QED
    BY <1>1, <1>4, <2>1, NoisyStay
<1>10. TypeInv'
  BY <1>1, <1>3 DEF TypeInv
<1>11. ThreadsArePlaced'
  <2>1. work[t] # <<>>
    BY <1>2
  <2>2. thread[t] \notin {"none", "creating", "exiting"}
    BY <1>1, <2>1 DEF ThreadsArePlaced
  <2> QED
    BY <1>1, <1>3, <2>2 DEF ThreadsArePlaced
<1> QED
  BY <1>7, <1>8, <1>9, <1>10, <1>11 DEF IInv

FreedBlock == [freed |-> TRUE, instances |-> <<>>]

\* The block has been drained: it goes, and the next one is due.
LEMMA DrainBlockPreserves ==
    ASSUME IInv, NEW t \in Threads, DrainBlock(t)
    PROVE  IInv'
<1>1. /\ TypeInv /\ CallsArePlaced /\ PoolsAreWhole /\ pools \in PoolsRecord
  BY DEF IInv, TypeInv
<1>2. Draining(t)
  BY DEF DrainBlock
<1>3. PICK f \in CallRecord :
          /\ f = Running(t) /\ work[t] = <<f>> /\ Outer(t) = <<>>
          /\ f.kind \in {"drain", "dispose"} /\ DrainIsPlaced(pools[t], f)
          /\ f.kind = "dispose" => f.pool = Len(pools[t])
          /\ f.pool \in 1 .. Len(pools[t]) /\ f.block \in 0 .. Len(pools[t][f.pool])
          /\ f.block \in Nat /\ f.at \in Nat /\ f.length \in Nat
          /\ \A k : Drains(work[t], k) <=> k = f.pool
  BY <1>1, <1>2, DrainIs
<1>4. PICK k, b, n, l, kind : k = f.pool /\ b = f.block /\ n = b - 1 /\ l = LengthOf(t, k, n) /\ kind = f.kind
  OBVIOUS
<1>5. /\ k \in 1 .. Len(pools[t]) /\ b \in 1 .. Len(pools[t][k]) /\ k \in Nat /\ b \in Nat /\ n \in Nat
      /\ n + 1 = b /\ Len(pools[t][k]) \in Nat /\ pools[t][k] \in Seq(BlockRecord)
      /\ f.at > f.length /\ kind \in {"drain", "dispose"} /\ (kind = "dispose" => k = Len(pools[t]))
      /\ l = (IF n = 0 THEN 0 ELSE Len(pools[t][k][n].instances)) /\ l \in Nat
  <2>1. f.block > 0 /\ f.at > f.length
    BY <1>3 DEF DrainBlock
  <2>2. /\ k \in 1 .. Len(pools[t]) /\ k \in Nat /\ Len(pools[t][k]) \in Nat /\ pools[t][k] \in Seq(BlockRecord)
        /\ kind \in {"drain", "dispose"} /\ (kind = "dispose" => k = Len(pools[t]))
    BY <1>1, <1>3, <1>4, BlocksAre
  <2>3. b \in Nat /\ b > 0 /\ b \in 0 .. Len(pools[t][k])
    BY <1>3, <1>4, <2>1
  <2>4. b \in 1 .. Len(pools[t][k]) /\ n \in Nat /\ n + 1 = b /\ (n # 0 => n \in 1 .. Len(pools[t][k]))
    BY <1>4, <2>2, <2>3
  <2>5. l = (IF n = 0 THEN 0 ELSE Len(pools[t][k][n].instances)) /\ l \in Nat
    <3>1. n # 0 => Len(pools[t][k][n].instances) \in Nat
      BY <1>1, <2>2, <2>4, BlocksAre
    <3> QED
      BY <1>4, <3>1 DEF LengthOf
  <2> QED
    BY <2>1, <2>2, <2>3, <2>4, <2>5
<1>6. PICK g : /\ g = Call(kind, Nil, k, n, 1, l) /\ g \in CallRecord
               /\ g.kind = kind /\ g.of = Nil /\ g.pool = k /\ g.block = n /\ g.at = 1 /\ g.length = l
  <2>1. LET g == Call(kind, Nil, k, n, 1, l)
        IN  /\ g \in CallRecord
            /\ g.kind = kind /\ g.of = Nil /\ g.pool = k /\ g.block = n /\ g.at = 1 /\ g.length = l
    BY <1>5 DEF Call, CallRecord, Kinds
  <2> QED
    BY <2>1
<1>7. PICK m : m = [pools[t][k] EXCEPT ![b] = FreedBlock]
  OBVIOUS
<1>8. /\ m \in Seq(BlockRecord) /\ Len(m) = Len(pools[t][k]) /\ m[b] = FreedBlock
      /\ \A c \in (1 .. Len(pools[t][k])) \ {b} : m[c] = pools[t][k][c]
      /\ FreedBlock.instances = <<>>
  <2>1. FreedBlock.instances = <<>>
    BY DEF FreedBlock
  <2>2. FreedBlock \in BlockRecord
    <3>1. <<>> \in Chunk
      BY MemoryAssumption DEF Chunk
    <3> QED
      BY <3>1 DEF FreedBlock, BlockRecord
  <2> HIDE DEF FreedBlock
  <2> QED
    BY <1>5, <1>7, <2>1, <2>2
<1>9. /\ pools' = Changed(pools, t, k, m)
      /\ UNCHANGED <<magic, count, contents, own, thread, argument, aborted, wild>>
  BY <1>3, <1>4, <1>7 DEF DrainBlock, Changed, FreedBlock, clients
<1>10. work' = [work EXCEPT ![t] = <<g>>]
  <2>1. work' = [work EXCEPT ![t] = Append(<<>>, g)]
    BY <1>3, <1>4, <1>6 DEF DrainBlock
  <2>2. Append(<<>>, g) = <<g>>
    OBVIOUS
  <2> QED
    BY <2>1, <2>2
<1> HIDE DEF FreedBlock
<1>11. /\ pools' \in PoolsRecord /\ pools'[t][k] = m /\ \A u \in Threads : Len(pools'[u]) = Len(pools[u])
       /\ \A u \in Threads \ {t} : pools'[u] = pools[u]
       /\ \A j \in (1 .. Len(pools[t])) \ {k} : pools'[t][j] = pools[t][j]
       /\ \A u \in Threads : \A j, c, i, y :
              Lies(pools', u, j, c, i, y) <=>
                  IF u = t /\ j = k THEN Stands(m, c, i, y) ELSE Lies(pools, u, j, c, i, y)
  BY <1>1, <1>5, <1>8, <1>9, ChainChanges
<1>12. \A i, y : Lies(pools, t, k, b, i, y) => y = Nil
  <2> SUFFICES ASSUME NEW i, NEW y, Lies(pools, t, k, b, i, y)
               PROVE  y = Nil
    OBVIOUS
  <2>1. /\ i \in 1 .. Len(pools[t][k][b].instances) /\ y = pools[t][k][b].instances[i]
        /\ Len(pools[t][k][b].instances) \in Nat
    BY <1>1, <1>5, BlocksAre DEF Lies
  <2>2. f.length = Len(pools[t][k][b].instances)
    <3>1. f.length = IF f.block = 0 THEN 0 ELSE Len(pools[t][f.pool][f.block].instances)
      BY <1>3 DEF DrainIsPlaced
    <3>2. b # 0
      BY <1>5
    <3> QED
      BY <1>4, <3>1, <3>2
  <2>3. i \in 1 .. f.at - 1
    BY <1>3, <1>5, <2>1, <2>2
  <2>4. pools[t][f.pool][f.block].instances[i] = Nil
    BY <1>3, <2>3 DEF DrainIsPlaced
  <2> QED
    BY <1>4, <2>1, <2>4
<1>13. \A j, c, i, y : Lies(pools', t, j, c, i, y) <=> Lies(pools, t, j, c, i, y) /\ (j # k \/ c # b)
  <2> SUFFICES ASSUME NEW j, NEW c, NEW i, NEW y
               PROVE  Lies(pools', t, j, c, i, y) <=> Lies(pools, t, j, c, i, y) /\ (j # k \/ c # b)
    OBVIOUS
  <2>1. CASE j # k
    BY <1>11, <2>1
  <2>2. CASE j = k /\ c = b
    <3>1. ~Stands(m, b, i, y)
      <4>1. Len(m[b].instances) = 0
        BY <1>8
      <4> QED
        BY <4>1 DEF Stands
    <3> QED
      BY <1>11, <2>2, <3>1
  <2>3. CASE j = k /\ c # b
    <3>1. Stands(m, c, i, y) <=> Lies(pools, t, k, c, i, y)
      BY <1>5, <1>8, <2>3 DEF Stands, Lies
    <3> QED
      BY <1>11, <2>3, <3>1
  <2> QED
    BY <2>1, <2>2, <2>3
<1>14. \A j, c, i : \A y \in Instances : Lies(pools', t, j, c, i, y) <=> Lies(pools, t, j, c, i, y)
  <2>1. Nil \notin Instances
    BY MemoryAssumption
  <2> QED
    BY <1>12, <1>13, <2>1
<1>15. <<g>> \in Seq(CallRecord) /\ Len(<<g>>) = 1 /\ <<g>>[1] = g /\ 1 .. 1 = {1} /\ 1 .. Len(<<g>>) = {1}
  BY <1>6
<1>16. DrainIsPlaced(pools'[t], g)
  <2>1. /\ g.pool \in 1 .. Len(pools'[t]) /\ (g.kind = "dispose" => g.pool = Len(pools'[t]))
        /\ g.block \in 0 .. Len(pools'[t][g.pool])
    <3>1. Len(pools'[t]) = Len(pools[t]) /\ Len(pools'[t][k]) = Len(pools[t][k])
      BY <1>8, <1>11
    <3>2. n \in 0 .. Len(pools[t][k])
      BY <1>5
    <3> QED
      BY <1>5, <1>6, <3>1, <3>2
  <2>2. g.length = IF g.block = 0 THEN 0 ELSE Len(pools'[t][g.pool][g.block].instances)
    <3>1. n # 0 => n \in (1 .. Len(pools[t][k])) \ {b}
      BY <1>5
    <3>2. n # 0 => pools'[t][k][n] = pools[t][k][n]
      BY <1>8, <1>11, <3>1
    <3> QED
      BY <1>5, <1>6, <3>2
  <2>3. g.at \in 1 .. g.length + 1 /\ 1 .. g.at - 1 = {}
    <3>1. g.at = 1 /\ g.length \in Nat
      BY <1>5, <1>6
    <3> QED
      BY <3>1
  <2>4. \A c \in g.block + 1 .. Len(pools'[t][g.pool]) : pools'[t][g.pool][c].instances = <<>>
    <3> SUFFICES ASSUME NEW c \in b .. Len(pools[t][k])
                 PROVE  pools'[t][k][c].instances = <<>>
      BY <1>5, <1>6, <1>8, <1>11
    <3>1. CASE c = b
      BY <1>8, <1>11, <3>1
    <3>2. CASE c # b
      <4>1. c \in b + 1 .. Len(pools[t][k]) /\ c \in (1 .. Len(pools[t][k])) \ {b}
        BY <1>5, <3>2
      <4>2. pools[t][k][c].instances = <<>>
        BY <1>3, <1>4, <4>1 DEF DrainIsPlaced
      <4> QED
        BY <1>8, <1>11, <4>1, <4>2
    <3> QED
      BY <3>1, <3>2
  <2> QED
    BY <2>1, <2>2, <2>3, <2>4 DEF DrainIsPlaced
<1>17. ArePlaced(<<g>>, pools'[t], thread[t])
  <2>1. Nil \notin Noisy
    BY MemoryAssumption
  <2>2. IsPlaced(pools'[t], thread[t], 1, g)
    BY <1>5, <1>6, <1>16, <2>1 DEF IsPlaced
  <2>3. g.kind # "create"
    BY <1>5, <1>6
  <2> QED
    BY <1>15, <2>2, <2>3 DEF ArePlaced
<1>18. IsWhole(pools'[t], <<g>>)
  <2>1. work[t][1] = f /\ IsWhole(pools[t], work[t]) /\ Drains(<<g>>, k)
    BY <1>1, <1>3, <1>5, <1>6, <1>15 DEF PoolsAreWhole, Drains
  <2>2. ASSUME NEW j \in 1 .. Len(pools'[t]), NEW c \in 1 .. Len(pools'[t][j]), pools'[t][j][c].freed = TRUE
        PROVE  Drains(<<g>>, j) /\ <<g>>[1].block < c
    <3>1. CASE j = k /\ c = b
      BY <1>5, <1>6, <1>15, <2>1, <3>1
    <3>2. CASE j # k \/ c # b
      <4>1. j \in 1 .. Len(pools[t]) /\ c \in 1 .. Len(pools[t][j]) /\ pools[t][j][c].freed = TRUE
        BY <1>8, <1>11, <2>2, <3>2
      <4>2. Drains(work[t], j) /\ f.block < c
        BY <2>1, <4>1 DEF IsWhole
      <4>3. j = k
        BY <1>3, <1>4, <4>2
      <4>4. c \in Nat
        BY <4>1
      <4>5. <<g>>[1].block = n /\ n \in Nat /\ n + 1 = b /\ b \in Nat /\ b < c
        BY <1>4, <1>5, <1>6, <1>15, <4>2
      <4> QED
        BY <2>1, <4>3, <4>4, <4>5
    <3> QED
      BY <3>1, <3>2
  <2>3. ASSUME NEW j \in 1 .. Len(pools'[t]), NEW c \in 1 .. Len(pools'[t][j]),
               NEW i \in 1 .. Len(pools'[t][j][c].instances)
        PROVE  pools'[t][j][c].instances[i] # Nil
    <3> SUFFICES ASSUME pools'[t][j][c].instances[i] = Nil
                 PROVE  FALSE
      OBVIOUS
    <3>1. Lies(pools', t, j, c, i, Nil)
      BY DEF Lies
    <3>2. Lies(pools, t, j, c, i, Nil) /\ (j # k \/ c # b)
      BY <1>13, <3>1
    <3>3. Drains(work[t], j) /\ f.block = c
      BY <2>1, <3>2 DEF IsWhole, Lies
    <3> QED
      BY <1>3, <1>4, <3>2, <3>3
  <2> QED
    BY <2>2, <2>3 DEF IsWhole
<1>19. \A j \in 1 .. Len(<<g>>) : <<g>>[j].kind # "dealloc"
  BY <1>5, <1>6, <1>15
<1> QED
  BY <1>2, <1>9, <1>10, <1>11, <1>14, <1>15, <1>17, <1>18, <1>19, QuietDrain

\* All blocks are gone: the pool is empty, or leaves the stack.
LEMMA DrainEndPreserves ==
    ASSUME IInv, NEW t \in Threads, DrainEnd(t)
    PROVE  IInv'
<1>1. /\ TypeInv /\ CallsArePlaced /\ PoolsAreWhole /\ pools \in PoolsRecord
  BY DEF IInv, TypeInv
<1>2. Draining(t)
  BY DEF DrainEnd
<1>3. PICK f \in CallRecord :
          /\ f = Running(t) /\ work[t] = <<f>> /\ Outer(t) = <<>>
          /\ f.kind \in {"drain", "dispose"} /\ DrainIsPlaced(pools[t], f)
          /\ f.kind = "dispose" => f.pool = Len(pools[t])
          /\ f.pool \in 1 .. Len(pools[t]) /\ f.block \in 0 .. Len(pools[t][f.pool])
          /\ f.block \in Nat /\ f.at \in Nat /\ f.length \in Nat
          /\ \A k : Drains(work[t], k) <=> k = f.pool
  BY <1>1, <1>2, DrainIs
<1>4. PICK k : k = f.pool
  OBVIOUS
<1>5. /\ k \in 1 .. Len(pools[t]) /\ k \in Nat /\ f.block = 0 /\ pools[t] \in Seq(Seq(BlockRecord))
      /\ Len(pools[t]) \in Nat /\ Len(pools[t][k]) \in Nat
  <2>1. k \in 1 .. Len(pools[t])
    BY <1>3, <1>4
  <2> QED
    BY <1>1, <1>3, <2>1, BlocksAre DEF DrainEnd
<1>6. /\ work' = [work EXCEPT ![t] = <<>>]
      /\ UNCHANGED <<magic, count, contents, own, thread, argument, aborted, wild>>
      /\ \/ pools' = Changed(pools, t, k, <<>>)
         \/ k = Len(pools[t]) /\ pools' = [pools EXCEPT ![t] = Front(@)]
  BY <1>3, <1>4 DEF DrainEnd, Changed, clients
<1>7. \A c, i, y : ~Lies(pools, t, k, c, i, y)
  <2> SUFFICES ASSUME NEW c, NEW i, NEW y, Lies(pools, t, k, c, i, y)
               PROVE  FALSE
    OBVIOUS
  <2>1. c \in 1 .. Len(pools[t][k]) /\ i \in 1 .. Len(pools[t][k][c].instances)
    BY DEF Lies
  <2>2. c \in f.block + 1 .. Len(pools[t][f.pool])
    BY <1>4, <1>5, <2>1
  <2>3. pools[t][k][c].instances = <<>>
    BY <1>3, <1>4, <2>2 DEF DrainIsPlaced
  <2>4. 1 .. Len(<<>>) = {}
    OBVIOUS
  <2> QED
    BY <2>1, <2>3, <2>4
<1>8. work[t][1] = f /\ IsWhole(pools[t], work[t])
  BY <1>1, <1>3 DEF PoolsAreWhole
<1>9. \A j \in (1 .. Len(pools[t])) \ {k} : \A c \in 1 .. Len(pools[t][j]) : pools[t][j][c].freed # TRUE
  BY <1>3, <1>4, <1>8 DEF IsWhole
<1>10. \A j, c, i : ~Lies(pools, t, j, c, i, Nil)
  <2> SUFFICES ASSUME NEW j, NEW c, NEW i, Lies(pools, t, j, c, i, Nil)
               PROVE  FALSE
    OBVIOUS
  <2>1. Drains(work[t], j)
    BY <1>8 DEF IsWhole, Lies
  <2> QED
    BY <1>3, <1>4, <1>7, <2>1
<1>11. /\ pools' \in PoolsRecord /\ \A u \in Threads \ {t} : pools'[u] = pools[u]
       /\ \A j, c, i, y : Lies(pools', t, j, c, i, y) <=> Lies(pools, t, j, c, i, y)
       /\ \A j \in 1 .. Len(pools'[t]) : \A c \in 1 .. Len(pools'[t][j]) : pools'[t][j][c].freed # TRUE
  <2>1. CASE pools' = Changed(pools, t, k, <<>>)
    <3>1. /\ pools' \in PoolsRecord /\ pools'[t][k] = <<>> /\ \A u \in Threads : Len(pools'[u]) = Len(pools[u])
          /\ \A u \in Threads \ {t} : pools'[u] = pools[u]
          /\ \A j \in (1 .. Len(pools[t])) \ {k} : pools'[t][j] = pools[t][j]
          /\ \A u \in Threads : \A j, c, i, y :
                 Lies(pools', u, j, c, i, y) <=>
                     IF u = t /\ j = k THEN Stands(<<>>, c, i, y) ELSE Lies(pools, u, j, c, i, y)
      <4>1. PICK m : m = <<>>
        OBVIOUS
      <4>2. m \in Seq(BlockRecord) /\ pools' = Changed(pools, t, k, m)
        BY <2>1, <4>1
      <4>3. /\ pools' \in PoolsRecord /\ pools'[t][k] = m /\ \A u \in Threads : Len(pools'[u]) = Len(pools[u])
            /\ \A u \in Threads \ {t} : pools'[u] = pools[u]
            /\ \A j \in (1 .. Len(pools[t])) \ {k} : pools'[t][j] = pools[t][j]
            /\ \A u \in Threads : \A j, c, i, y :
                   Lies(pools', u, j, c, i, y) <=>
                       IF u = t /\ j = k THEN Stands(m, c, i, y) ELSE Lies(pools, u, j, c, i, y)
        BY <1>1, <1>5, <4>2, ChainChanges
      <4> QED
        BY <4>1, <4>3
    <3>2. 1 .. Len(<<>>) = {}
      OBVIOUS
    <3>3. \A c, i, y : ~Stands(<<>>, c, i, y)
      BY <3>2 DEF Stands
    <3>4. \A j, c, i, y : Lies(pools', t, j, c, i, y) <=> Lies(pools, t, j, c, i, y)
      BY <1>7, <3>1, <3>3
    <3>5. \A j \in 1 .. Len(pools'[t]) : \A c \in 1 .. Len(pools'[t][j]) : pools'[t][j][c].freed # TRUE
      BY <1>9, <3>1, <3>2
    <3> QED
      BY <3>1, <3>4, <3>5
  <2>2. CASE k = Len(pools[t]) /\ pools' = [pools EXCEPT ![t] = Front(@)]
    <3>1. PICK q : q = Front(pools[t])
      OBVIOUS
    <3>2. /\ q \in Seq(Seq(BlockRecord)) /\ Len(q) = Len(pools[t]) - 1
          /\ \A j \in 1 .. Len(q) : q[j] = pools[t][j] /\ j \in (1 .. Len(pools[t])) \ {k}
      BY <1>5, <2>2, <3>1 DEF Front
    <3>3. pools' = [pools EXCEPT ![t] = q]
      BY <2>2, <3>1
    <3>4. pools' \in PoolsRecord /\ pools'[t] = q /\ \A u \in Threads \ {t} : pools'[u] = pools[u]
      BY <1>1, <3>2, <3>3 DEF PoolsRecord
    <3>5. \A j, c, i, y : Lies(pools', t, j, c, i, y) <=> Lies(pools, t, j, c, i, y)
      <4> SUFFICES ASSUME NEW j, NEW c, NEW i, NEW y
                   PROVE  Lies(pools', t, j, c, i, y) <=> Lies(pools, t, j, c, i, y)
        OBVIOUS
      <4>1. CASE j \in 1 .. Len(q)
        <5>1. pools'[t][j] = pools[t][j] /\ j \in 1 .. Len(pools'[t]) /\ j \in 1 .. Len(pools[t])
          BY <3>2, <3>4, <4>1
        <5> QED
          BY <5>1 DEF Lies
      <4>2. CASE j \notin 1 .. Len(q)
        <5>1. ~Lies(pools', t, j, c, i, y)
          BY <3>4, <4>2 DEF Lies
        <5>2. j \in 1 .. Len(pools[t]) => j = k
          BY <1>5, <2>2, <3>2, <4>2
        <5>3. ~Lies(pools, t, j, c, i, y)
          <6>1. CASE j = k
            BY <1>7, <6>1
          <6>2. CASE j \notin 1 .. Len(pools[t])
            BY <6>2 DEF Lies
          <6> QED
            BY <5>2, <6>1, <6>2
        <5> QED
          BY <5>1, <5>3
      <4> QED
        BY <4>1, <4>2
    <3>6. \A j \in 1 .. Len(pools'[t]) : \A c \in 1 .. Len(pools'[t][j]) : pools'[t][j][c].freed # TRUE
      BY <1>9, <3>2, <3>4
    <3> QED
      BY <3>4, <3>5, <3>6
  <2> QED
    BY <1>6, <2>1, <2>2
<1>12. IsWhole(pools'[t], <<>>)
  BY <1>10, <1>11, CleanIsWhole
<1>13. ArePlaced(<<>>, pools'[t], thread[t])
  BY NoCalls
<1>14. <<>> \in Seq(CallRecord) /\ \A j \in 1 .. Len(<<>>) : <<>>[j].kind # "dealloc"
  OBVIOUS
<1>15. \A j, c, i : \A y \in Instances : Lies(pools', t, j, c, i, y) <=> Lies(pools, t, j, c, i, y)
  BY <1>11
<1> QED
  BY <1>2, <1>6, <1>11, <1>12, <1>13, <1>14, <1>15, QuietDrain

-----------------------------------------------------------------------------
(* Deallocations *)

\* The running deallocation.
LEMMA DeallocRuns ==
    ASSUME TypeInv, CallsArePlaced, DeallocsAgree, NEW t \in Threads, Runs(t, "dealloc")
    PROVE  \E x \in Instances :
               /\ x = Running(t).of /\ work[t] # <<>> /\ work[t] \in Seq(CallRecord)
               /\ Len(work[t]) \in Nat \ {0} /\ Running(t) = work[t][Len(work[t])]
               /\ Deallocates(t, Len(work[t]), x) /\ magic[x] = "valid" /\ count[x] = 0
               /\ Running(t).kind = "dealloc"
               /\ x \in Noisy => Len(work[t]) = 1 /\ thread[t] = "running" /\ pools[t] # <<>>
<1>1. work[t] # <<>> /\ Running(t).kind = "dealloc"
  BY DEF Runs
<1>2. /\ work[t] \in Seq(CallRecord) /\ Len(work[t]) \in Nat \ {0}
      /\ Running(t) = work[t][Len(work[t])] /\ Running(t) \in CallRecord
      /\ IsPlaced(pools[t], thread[t], Len(work[t]), Running(t))
  BY <1>1, RunningIs
<1>3. PICK x : x = Running(t).of
  OBVIOUS
<1>4. /\ x \in Instances
      /\ x \in Noisy => Len(work[t]) = 1 /\ thread[t] = "running" /\ pools[t] # <<>>
  BY <1>1, <1>2, <1>3 DEF IsPlaced
<1>5. Deallocates(t, Len(work[t]), x)
  BY <1>1, <1>2, <1>3 DEF Deallocates
<1>6. magic[x] = "valid" /\ count[x] = 0
  BY <1>2, <1>4, <1>5 DEF DeallocsAgree
<1> QED
  BY <1>1, <1>2, <1>3, <1>4, <1>5, <1>6

\* A member that the deallocation releases.
LEMMA DeallocMemberPreserves ==
    ASSUME IInv, NEW t \in Threads, DeallocMember(t)
    PROVE  IInv'
<1>1. /\ TypeInv /\ CountsAgree /\ DeallocsAgree /\ CallsArePlaced /\ PoolsAreWhole
      /\ NoisyAreOwned /\ ThreadsArePlaced
  BY DEF IInv
<1>2. Runs(t, "dealloc")
  BY DEF DeallocMember
<1>3. PICK x \in Instances :
          /\ x = Running(t).of /\ work[t] # <<>> /\ work[t] \in Seq(CallRecord)
          /\ Len(work[t]) \in Nat \ {0} /\ Running(t) = work[t][Len(work[t])]
          /\ Deallocates(t, Len(work[t]), x) /\ magic[x] = "valid" /\ count[x] = 0
          /\ Running(t).kind = "dealloc"
          /\ x \in Noisy => Len(work[t]) = 1 /\ thread[t] = "running" /\ pools[t] # <<>>
  BY <1>1, <1>2, DeallocRuns
<1>4. PICK y \in contents[x] : contents' = [contents EXCEPT ![x] = @ \ {y}] /\ Release(t, y, work[t])
  BY <1>3 DEF DeallocMember
<1>5. UNCHANGED <<magic, own, thread, argument, pools, wild>>
  BY DEF DeallocMember, clients
<1>6. y \in Instances /\ y \notin Noisy
  <2>1. y \in Instances
    BY <1>1 DEF TypeInv
  <2> QED
    BY <1>1, <2>1, OthersAreQuiet
<1>7. /\ \A z : OwnedAt(z)' = OwnedAt(z) /\ GivenTo(z)' = GivenTo(z) /\ PooledAt(z)' = PooledAt(z)
      /\ \A z \in Instances : IF z = y THEN Plus(HeldBy(z)', HeldBy(z)) ELSE HeldBy(z)' = HeldBy(z)
  <2>1. \A z : OwnedAt(z)' = OwnedAt(z) /\ GivenTo(z)' = GivenTo(z) /\ PooledAt(z)' = PooledAt(z)
    BY <1>5 DEF OwnedAt, GivenTo, PooledAt, Pooled
  <2>2. contents \in [Instances -> SUBSET Instances]
    BY <1>1 DEF TypeInv
  <2> QED
    BY <1>4, <2>1, <2>2, MemberRemoved
<1>8. Lost(y) /\ \A z \in Instances \ {y} : Same(z)
  <2>1. Plus(HeldBy(y)', HeldBy(y))
    BY <1>6, <1>7
  <2> QED
    BY <1>7, <2>1 DEF Lost, Same, Refs
<1>9. \A z \in Noisy : OnlyOwned(z)'
  <2>1. Noisy \subseteq Instances \ {y}
    BY <1>6, MemoryAssumption
  <2> QED
    BY <1>1, <1>7, <2>1 DEF NoisyAreOwned, OnlyOwned
<1>10. /\ CountsAgree' /\ DeallocsAgree'
       /\ count' \in [Instances -> 0 .. Modulus - 1] /\ aborted' = aborted
       /\ work' \in [Threads -> Seq(CallRecord)]
       /\ \A u \in Threads \ {t} : work'[u] = work[u]
       /\ work'[t] = work[t] \/ work'[t] = Append(work[t], Dealloc(y))
  <2>1. \A z \in Instances : magic[z] # "valid" => contents'[z] = {}
    BY <1>1, <1>4 DEF DeallocsAgree, TypeInv
  <2>2. SameDeallocs(t, work[t])
    BY DEF SameDeallocs, Deallocates
  <2> QED
    BY <1>1, <1>3, <1>4, <1>5, <1>6, <1>8, <2>1, <2>2, ReleaseCounts
<1>11. /\ work'[t] # <<>> /\ work'[t][1] = work[t][1] /\ Len(work'[t]) >= Len(work[t])
       /\ \A n \in 1 .. Len(work[t]) : work'[t][n] = work[t][n]
  <2>1. Dealloc(y) \in CallRecord
    BY <1>6, DeallocIs
  <2> HIDE DEF Dealloc
  <2> QED
    BY <1>3, <1>10, <2>1
<1>12. CallsArePlaced'
  <2>1. ArePlaced(work'[t], pools'[t], thread'[t])
    <3>1. ArePlaced(work[t], pools[t], thread[t])
      BY <1>1 DEF CallsArePlaced
    <3>2. \A n \in 1 .. Len(work[t]) : work[t][n].kind # "create"
      <4> SUFFICES ASSUME NEW n \in 1 .. Len(work[t]), work[t][n].kind = "create"
                   PROVE  FALSE
        OBVIOUS
      <4>1. Len(work[t]) = 1
        BY <3>1 DEF ArePlaced
      <4>2. n = Len(work[t])
        BY <4>1
      <4> QED
        BY <1>3, <4>2
    <3> HIDE DEF Dealloc
    <3>3. pools'[t] = pools[t] /\ thread'[t] = thread[t]
      BY <1>5
    <3>4. ArePlaced(work'[t], pools[t], thread[t])
      BY <1>3, <1>6, <1>10, <3>1, <3>2, ReleasePlaces
    <3> QED
      BY <3>3, <3>4
  <2>2. ASSUME NEW u \in Threads \ {t}
        PROVE  ArePlaced(work'[u], pools'[u], thread'[u])
    BY <1>1, <1>5, <1>10, CallsStay
  <2> QED
    BY <2>1, <2>2 DEF CallsArePlaced
<1>13. PoolsAreWhole'
  <2> SUFFICES ASSUME NEW u \in Threads
               PROVE  IsWhole(pools'[u], work'[u])
    BY DEF PoolsAreWhole
  <2>1. IsWhole(pools[u], work[u]) /\ pools'[u] = pools[u]
    BY <1>1, <1>5 DEF PoolsAreWhole
  <2>2. work'[u] = work[u] \/ (work[u] # <<>> /\ work'[u] # <<>> /\ work'[u][1] = work[u][1])
    BY <1>3, <1>10, <1>11
  <2> QED
    BY <2>1, <2>2, PoolsStay
<1>14. NoisyAreOwned'
  <2>1. FramesStay
    <3> SUFFICES ASSUME NEW u \in Threads, NEW n \in Nat, NEW z \in Instances, Deallocates(u, n, z)
                 PROVE  Deallocates(u, n, z)' /\ work'[u][n].at = work[u][n].at
      BY DEF FramesStay
    <3>1. n \in 1 .. Len(work[u]) /\ work'[u][n] = work[u][n] /\ n \in DOMAIN work'[u]
      <4>1. work[u] \in Seq(CallRecord) /\ work'[u] \in Seq(CallRecord)
        BY <1>1, <1>10 DEF TypeInv
      <4>2. n \in 1 .. Len(work[u])
        BY <4>1 DEF Deallocates
      <4> QED
        BY <1>3, <1>10, <1>11, <4>1, <4>2
    <3> QED
      BY <3>1 DEF Deallocates
  <2> QED
    BY <1>1, <1>5, <1>9, <2>1, NoisyStay
<1>15. TypeInv'
  <2>1. contents' \in [Instances -> SUBSET Instances]
    BY <1>1, <1>4 DEF TypeInv
  <2> QED
    BY <1>1, <1>5, <1>10, <2>1 DEF TypeInv
<1>16. ThreadsArePlaced'
  <2>1. thread[t] \notin {"none", "creating", "exiting"}
    BY <1>1, <1>3 DEF ThreadsArePlaced
  <2> QED
    BY <1>1, <1>5, <1>10, <2>1 DEF ThreadsArePlaced
<1> QED
  BY <1>10, <1>12, <1>13, <1>14, <1>15, <1>16 DEF IInv

\* wi_free, once the members are gone.
LEMMA FreePreserves ==
    ASSUME IInv, NEW t \in Threads, Free(t)
    PROVE  IInv'
<1>1. /\ TypeInv /\ CountsAgree /\ DeallocsAgree /\ CallsArePlaced /\ PoolsAreWhole
      /\ NoisyAreOwned /\ ThreadsArePlaced
  BY DEF IInv
<1>2. Runs(t, "dealloc")
  BY DEF Free
<1>3. PICK x \in Instances :
          /\ x = Running(t).of /\ work[t] # <<>> /\ work[t] \in Seq(CallRecord)
          /\ Len(work[t]) \in Nat \ {0} /\ Running(t) = work[t][Len(work[t])]
          /\ Deallocates(t, Len(work[t]), x) /\ magic[x] = "valid" /\ count[x] = 0
          /\ Running(t).kind = "dealloc"
          /\ x \in Noisy => Len(work[t]) = 1 /\ thread[t] = "running" /\ pools[t] # <<>>
  BY <1>1, <1>2, DeallocRuns
<1>4. PICK calls : calls = Front(work[t])
  OBVIOUS
<1>5. /\ contents[x] = {} /\ magic' = [magic EXCEPT ![x] = "released"]
      /\ work' = [work EXCEPT ![t] = calls]
      /\ UNCHANGED <<count, contents, own, thread, argument, pools, aborted, wild>>
  BY <1>3, <1>4 DEF Free, Outer, clients
<1>6. /\ calls \in Seq(CallRecord) /\ Len(calls) = Len(work[t]) - 1
      /\ \A n \in 1 .. Len(calls) : calls[n] = work[t][n] /\ n \in 1 .. Len(work[t]) /\ n # Len(work[t])
      /\ \A n \in 1 .. Len(work[t]) : n # Len(work[t]) => n \in 1 .. Len(calls)
  BY <1>3, <1>4 DEF Front
<1>7. /\ work'[t] = calls /\ \A u \in Threads \ {t} : work'[u] = work[u]
      /\ work' \in [Threads -> Seq(CallRecord)]
      /\ magic'[x] = "released" /\ \A y \in Instances \ {x} : magic'[y] = magic[y]
  BY <1>1, <1>5, <1>6 DEF TypeInv
<1>8. \A u \in Threads : \A n \in Nat : \A y \in Instances :
          Deallocates(u, n, y)' <=> Deallocates(u, n, y) /\ (u # t \/ n # Len(work[t]))
  <2> SUFFICES ASSUME NEW u \in Threads, NEW n \in Nat, NEW y \in Instances
               PROVE  Deallocates(u, n, y)' <=> Deallocates(u, n, y) /\ (u # t \/ n # Len(work[t]))
    OBVIOUS
  <2>1. CASE u # t
    BY <1>7, <2>1 DEF Deallocates
  <2>2. CASE u = t
    <3>1. DOMAIN work[t] = 1 .. Len(work[t]) /\ DOMAIN calls = 1 .. Len(calls)
      BY <1>3, <1>6
    <3> QED
      BY <1>6, <1>7, <2>2, <3>1 DEF Deallocates
  <2> QED
    BY <2>1, <2>2
<1>9. \A u \in Threads : \A n \in Nat : Deallocates(u, n, x) => u = t /\ n = Len(work[t])
  BY <1>1, <1>3 DEF DeallocsAgree
<1>10. \A y : Same(y) /\ OwnedAt(y)' = OwnedAt(y) /\ HeldBy(y)' = HeldBy(y)
              /\ GivenTo(y)' = GivenTo(y) /\ PooledAt(y)' = PooledAt(y)
  BY <1>5 DEF Same, Refs, OwnedAt, HeldBy, GivenTo, PooledAt, Pooled
<1>11. Enumerated' = Enumerated
  <2>1. \A y \in Noisy : Enumerator[y] \in Instances
    <3>1. \A y \in Noisy : Enumerator[y] \in Helpers
      BY DEF Helpers, Range, Noisy
    <3> QED
      BY <3>1, MemoryAssumption
  <2>2. \A y \in Instances : magic'[y] # "none" <=> magic[y] # "none"
    BY <1>3, <1>7
  <2> QED
    BY <2>1, <2>2 DEF Enumerated
<1>12. CountsAgree'
  <2> SUFFICES ASSUME NEW y \in Instances
               PROVE  /\ IsFiniteSet(PooledAt(y)') /\ count'[y] = References(y)'
                      /\ count'[y] > 0 => magic'[y] = "valid"
                      /\ count'[y] <= MaxReferences + Cardinality(Enumerated')
    BY DEF CountsAgree
  <2>1. IsFiniteSet(PooledAt(y)') /\ References(y)' = References(y)
    BY <1>1, <1>10, SameIsQuiet
  <2>2. count'[y] = count[y] /\ (count'[y] > 0 => magic'[y] = "valid")
    BY <1>1, <1>3, <1>5, <1>7 DEF CountsAgree
  <2> QED
    BY <1>1, <1>11, <2>1, <2>2 DEF CountsAgree
<1>13. DeallocsAgree'
  <2> SUFFICES ASSUME NEW y \in Instances
               PROVE  /\ magic'[y] = "valid" /\ count'[y] = 0 =>
                             \E u \in Threads : \E n \in Nat : Deallocates(u, n, y)'
                      /\ \A u \in Threads : \A n \in Nat :
                             Deallocates(u, n, y)' => magic'[y] = "valid" /\ count'[y] = 0
                      /\ \A u, w \in Threads : \A m, n \in Nat :
                             Deallocates(u, m, y)' /\ Deallocates(w, n, y)' => u = w /\ m = n
                      /\ magic'[y] # "valid" => contents'[y] = {}
    BY DEF DeallocsAgree
  <2>1. CASE y = x
    <3>1. \A u \in Threads : \A n \in Nat : ~Deallocates(u, n, y)'
      BY <1>8, <1>9, <2>1
    <3> QED
      BY <1>5, <1>7, <2>1, <3>1
  <2>2. CASE y # x
    <3>1. ~Deallocates(t, Len(work[t]), y)
      BY <1>3, <2>2 DEF Deallocates
    <3>2. \A u \in Threads : \A n \in Nat : Deallocates(u, n, y)' <=> Deallocates(u, n, y)
      BY <1>8, <3>1
    <3>3. magic'[y] = magic[y] /\ count'[y] = count[y] /\ contents'[y] = contents[y]
      BY <1>5, <1>7, <2>2
    <3> QED
      BY <1>1, <3>2, <3>3 DEF DeallocsAgree
  <2> QED
    BY <2>1, <2>2
<1>14. CallsArePlaced'
  <2>1. ArePlaced(work'[t], pools'[t], thread'[t])
    <3>1. ArePlaced(work[t], pools[t], thread[t]) /\ pools'[t] = pools[t] /\ thread'[t] = thread[t]
      BY <1>1, <1>5 DEF CallsArePlaced
    <3> SUFFICES ASSUME NEW n \in 1 .. Len(calls)
                 PROVE  IsPlaced(pools[t], thread[t], n, calls[n]) /\ calls[n].kind # "create"
      BY <1>7, <3>1 DEF ArePlaced
    <3>2. calls[n] = work[t][n] /\ n \in 1 .. Len(work[t]) /\ n # Len(work[t])
      BY <1>6
    <3>3. Len(work[t]) # 1
      BY <1>3, <3>2
    <3> QED
      BY <3>1, <3>2, <3>3 DEF ArePlaced
  <2>2. ASSUME NEW u \in Threads \ {t}
        PROVE  ArePlaced(work'[u], pools'[u], thread'[u])
    BY <1>1, <1>5, <1>7, CallsStay
  <2> QED
    BY <2>1, <2>2 DEF CallsArePlaced
<1>15. PoolsAreWhole'
  <2> SUFFICES ASSUME NEW u \in Threads
               PROVE  IsWhole(pools'[u], work'[u])
    BY DEF PoolsAreWhole
  <2>1. IsWhole(pools[u], work[u]) /\ pools'[u] = pools[u]
    BY <1>1, <1>5 DEF PoolsAreWhole
  <2>2. \/ work'[u] = work[u]
        \/ work[u] # <<>> /\ work'[u] # <<>> /\ work'[u][1] = work[u][1]
        \/ work[u] # <<>> /\ work[u][1].kind \notin {"drain", "dispose"}
    <3>1. CASE u # t
      BY <1>7, <3>1
    <3>2. CASE u = t /\ Len(work[t]) = 1
      BY <1>3, <3>2
    <3>3. CASE u = t /\ Len(work[t]) # 1
      <4>1. 1 \in 1 .. Len(calls) /\ calls # <<>>
        <5>1. \A m, n \in Nat : m # 0 /\ m # 1 /\ n = m - 1 => 1 \in 1 .. n /\ n # 0
          OBVIOUS
        <5>2. Len(<<>>) = 0
          OBVIOUS
        <5>3. Len(work[t]) \in Nat /\ Len(calls) \in Nat /\ Len(work[t]) # 0
          BY <1>3, <1>6
        <5>4. Len(work[t]) # 1
          BY <3>3
        <5>5. Len(calls) = Len(work[t]) - 1
          BY <1>6
        <5> QED
          BY <5>1, <5>2, <5>3, <5>4, <5>5
      <4> QED
        BY <1>3, <1>6, <1>7, <3>3, <4>1
    <3> QED
      BY <3>1, <3>2, <3>3
  <2> QED
    BY <2>1, <2>2, PoolsStay
<1>16. NoisyAreOwned'
  <2> SUFFICES ASSUME NEW y \in Noisy
               PROVE  OnlyOwned(y)' /\ (y \in Enumerated' => magic'[y] = "released" \/ IsEnumerating(y)')
    BY DEF NoisyAreOwned
  <2>1. OnlyOwned(y) /\ (y \in Enumerated => magic[y] = "released" \/ IsEnumerating(y)) /\ y \in Instances
    BY <1>1, MemoryAssumption DEF NoisyAreOwned
  <2>2. OnlyOwned(y)'
    BY <1>10, <2>1 DEF OnlyOwned
  <2>3. ASSUME y # x, IsEnumerating(y)
        PROVE  IsEnumerating(y)'
    <3>1. PICK u \in Threads, n \in Nat : Deallocates(u, n, y) /\ work[u][n].at = 1
      BY <2>3 DEF IsEnumerating
    <3>2. u # t \/ n # Len(work[t])
      BY <1>3, <2>3, <3>1 DEF Deallocates
    <3>3. Deallocates(u, n, y)'
      BY <1>8, <2>1, <3>1, <3>2
    <3>4. work'[u][n] = work[u][n]
      <4>1. CASE u # t
        BY <1>7, <4>1
      <4>2. CASE u = t
        <5>1. n \in 1 .. Len(calls)
          BY <1>6, <1>7, <3>3, <4>2 DEF Deallocates
        <5> QED
          BY <1>6, <1>7, <4>2, <5>1
      <4> QED
        BY <4>1, <4>2
    <3> QED
      BY <3>1, <3>3, <3>4 DEF IsEnumerating
  <2>4. y = x => magic'[y] = "released"
    BY <1>7
  <2>5. y # x => magic'[y] = magic[y]
    BY <1>7, <2>1
  <2> QED
    BY <1>11, <2>1, <2>2, <2>3, <2>4, <2>5
<1>17. TypeInv'
  BY <1>1, <1>5, <1>7 DEF TypeInv
<1>18. ThreadsArePlaced'
  <2>1. thread[t] \notin {"none", "creating", "exiting"}
    BY <1>1, <1>3 DEF ThreadsArePlaced
  <2> QED
    BY <1>1, <1>5, <1>7, <2>1 DEF ThreadsArePlaced
<1> QED
  BY <1>12, <1>13, <1>14, <1>15, <1>16, <1>17, <1>18 DEF IInv

\* The deallocation enumerates a collection: an enumerator is made that retains it.
LEMMA DeallocEnumeratePreserves ==
    ASSUME IInv, NEW t \in Threads, DeallocEnumerate(t)
    PROVE  IInv'
<1>1. /\ TypeInv /\ CountsAgree /\ DeallocsAgree /\ CallsArePlaced /\ PoolsAreWhole
      /\ NoisyAreOwned /\ ThreadsArePlaced
  BY DEF IInv
<1>2. Runs(t, "dealloc")
  BY DEF DeallocEnumerate
<1>3. PICK x \in Instances :
          /\ x = Running(t).of /\ work[t] # <<>> /\ work[t] \in Seq(CallRecord)
          /\ Len(work[t]) \in Nat \ {0} /\ Running(t) = work[t][Len(work[t])]
          /\ Deallocates(t, Len(work[t]), x) /\ magic[x] = "valid" /\ count[x] = 0
          /\ Running(t).kind = "dealloc"
          /\ x \in Noisy => Len(work[t]) = 1 /\ thread[t] = "running" /\ pools[t] # <<>>
  BY <1>1, <1>2, DeallocRuns
<1>4. PICK e : e = Enumerator[x]
  OBVIOUS
<1>5. PICK g : /\ g = Call("dealloc", x, 0, 0, 1, 0) /\ g \in CallRecord
               /\ g.kind = "dealloc" /\ g.of = x /\ g.at = 1
  <2>1. LET g == Call("dealloc", x, 0, 0, 1, 0)
        IN  g \in CallRecord /\ g.kind = "dealloc" /\ g.of = x /\ g.at = 1
    BY DEF Call, CallRecord, Kinds
  <2> QED
    BY <2>1
<1>6. x \in Noisy /\ Running(t).at = 0 /\ work[t][1] = Running(t) /\ Len(work[t]) = 1
  BY <1>3 DEF DeallocEnumerate
<1>7. PICK c \in contents[x] :
          /\ contents' = [contents EXCEPT ![e] = {c}]
          /\ count' = [count EXCEPT ![e] = 1, ![c] = (@ + 1) % Modulus]
  BY <1>3, <1>4 DEF DeallocEnumerate
<1>8. /\ magic' = [magic EXCEPT ![e] = "valid"] /\ Autorelease(t, e)
      /\ UNCHANGED <<own, thread, argument>>
  BY <1>3, <1>4 DEF DeallocEnumerate, clients
<1>9. work' = [work EXCEPT ![t] = <<g>>]
  <2>1. work' = [work EXCEPT ![t] = Append(Outer(t), g)]
    BY <1>3, <1>5 DEF DeallocEnumerate
  <2>2. Outer(t) = <<>>
    BY <1>3, <1>6 DEF Outer, Front
  <2>3. Append(<<>>, g) = <<g>>
    OBVIOUS
  <2> QED
    BY <2>1, <2>2, <2>3
<1>10. /\ e \in Instances /\ e \notin Noisy /\ \A y \in Noisy : Enumerator[y] = e <=> y = x
       /\ \A y \in Noisy : Enumerator[y] \in Instances
  <2>1. \A y \in Noisy : Enumerator[y] \in Helpers
    BY DEF Helpers, Range, Noisy
  <2>2. \A y \in Noisy : Enumerator[y] \in Instances /\ Enumerator[y] \notin Noisy
    BY <2>1, MemoryAssumption
  <2>3. \A y \in Noisy : Enumerator[y] = Enumerator[x] => y = x
    BY <1>6, MemoryAssumption
  <2> QED
    BY <1>4, <1>6, <2>2, <2>3
<1>11. x \notin Enumerated /\ magic[e] = "none"
  <2>1. ~IsEnumerating(x)
    <3> SUFFICES ASSUME NEW u \in Threads, NEW n \in Nat, Deallocates(u, n, x), work[u][n].at = 1
                 PROVE  FALSE
      BY DEF IsEnumerating
    <3>1. u = t /\ n = Len(work[t])
      BY <1>1, <1>3 DEF DeallocsAgree
    <3> QED
      BY <1>3, <1>6, <3>1
  <2>2. x \notin Enumerated
    BY <1>1, <1>3, <1>6, <2>1 DEF NoisyAreOwned
  <2> QED
    BY <1>4, <1>6, <2>2 DEF Enumerated
<1>12. /\ c \in Instances /\ c \notin Noisy /\ magic[c] = "valid" /\ count[c] > 0 /\ count[c] \in Nat
       /\ count[c] = References(c) /\ c # e
  <2>1. c \in Instances /\ c \notin Noisy
    BY <1>1, OthersAreQuiet DEF TypeInv
  <2>2. count[c] \in Nat /\ count[c] = References(c) /\ IsFiniteSet(PooledAt(c))
    BY <1>1, <2>1, CountIs
  <2>3. References(c) # 0
    <3>1. x \in HeldBy(c)
      BY DEF HeldBy
    <3> QED
      BY <2>2, <3>1, ReferencesAre DEF Refs
  <2>4. magic[c] = "valid"
    BY <1>1, <2>1, <2>2, <2>3 DEF CountsAgree
  <2> QED
    BY <1>11, <2>1, <2>2, <2>3, <2>4
<1>13. count[e] = 0 /\ References(e) = 0 /\ contents[e] = {}
  <2>1. count[e] \in Nat /\ count[e] = References(e)
    BY <1>1, <1>10, CountIs
  <2> QED
    BY <1>1, <1>10, <1>11, <2>1 DEF CountsAgree, DeallocsAgree
<1>14. /\ Enumerated' = Enumerated \cup {x}
       /\ Cardinality(Enumerated') = Cardinality(Enumerated) + 1
       /\ Cardinality(Enumerated) \in Nat /\ Cardinality(Enumerated') <= Cardinality(Noisy)
  <2>1. \A y \in Noisy : magic'[Enumerator[y]] = IF y = x THEN "valid" ELSE magic[Enumerator[y]]
    BY <1>1, <1>8, <1>10 DEF TypeInv
  <2>2. Enumerated' = Enumerated \cup {x}
    BY <1>6, <2>1 DEF Enumerated
  <2>3. Enumerated \in SUBSET Noisy /\ Enumerated' \in SUBSET Noisy
    BY DEF Enumerated
  <2>4. IsFiniteSet(Enumerated) /\ Cardinality(Enumerated') <= Cardinality(Noisy)
    BY <2>3, EnumeratedIs
  <2> QED
    BY <1>11, <2>2, <2>4, OneMore
<1>15. count[c] + 1 < Modulus /\ (count[c] + 1) % Modulus = count[c] + 1
  <2>1. count[c] <= MaxReferences + Cardinality(Enumerated)
    BY <1>1, <1>12 DEF CountsAgree
  <2>2. count[c] + 1 < Modulus
    BY <1>12, <1>14, <2>1, EnumeratedIs, MemoryAssumption
  <2> QED
    BY <1>12, <2>2, BelowModulus
<1>16. /\ count'[e] = 1 /\ count'[c] = count[c] + 1
       /\ \A y \in Instances \ {c, e} : count'[y] = count[y]
       /\ count' \in [Instances -> 0 .. Modulus - 1]
  <2>1. count' = [count EXCEPT ![e] = 1, ![c] = count[c] + 1]
    BY <1>1, <1>7, <1>10, <1>12, <1>15 DEF TypeInv
  <2>2. 1 \in 0 .. Modulus - 1 /\ count[c] + 1 \in 0 .. Modulus - 1
    BY <1>12, <1>15, EnumeratedIs, MemoryAssumption
  <2> QED
    BY <1>1, <1>10, <1>12, <2>1, <2>2 DEF TypeInv
<1>17. magic'[e] = "valid" /\ \A y \in Instances \ {e} : magic'[y] = magic[y]
  BY <1>1, <1>8, <1>10 DEF TypeInv
<1>18. /\ work'[t] = <<g>> /\ \A u \in Threads \ {t} : work'[u] = work[u]
       /\ work' \in [Threads -> Seq(CallRecord)]
       /\ Len(<<g>>) = 1 /\ <<g>>[1] = g /\ 1 .. 1 = {1} /\ DOMAIN <<g>> = {1}
  BY <1>1, <1>5, <1>9 DEF TypeInv
<1>19. /\ pools' \in PoolsRecord /\ pools'[t] # <<>> /\ UNCHANGED <<aborted, wild>>
       /\ \A u \in Threads \ {t} : pools'[u] = pools[u]
       /\ \A y : IF y = e THEN Plus(PooledAt(y), PooledAt(y)') ELSE PooledAt(y)' = PooledAt(y)
       /\ PoolsAreWhole'
  <2>1. thread[t] # "exited" /\ pools[t] # <<>>
    BY <1>3, <1>6
  <2>2. work[t][1].kind \notin {"drain", "dispose"}
    BY <1>3, <1>6
  <2>3. \A u \in Threads \ {t} : work'[u] = work[u]
    BY <1>18
  <2> QED
    BY <1>1, <1>8, <1>10, <2>1, <2>2, <2>3, AutoreleaseKeepsPools
<1>20. /\ \A y : OwnedAt(y)' = OwnedAt(y) /\ GivenTo(y)' = GivenTo(y)
       /\ \A y \in Instances : IF y = c THEN Plus(HeldBy(y), HeldBy(y)') ELSE HeldBy(y)' = HeldBy(y)
  <2>1. \A y : OwnedAt(y)' = OwnedAt(y) /\ GivenTo(y)' = GivenTo(y)
    BY <1>8 DEF OwnedAt, GivenTo
  <2>2. contents \in [Instances -> SUBSET Instances] /\ c \in Instances \ contents[e]
    BY <1>1, <1>12, <1>13 DEF TypeInv
  <2>3. contents' = [contents EXCEPT ![e] = @ \cup {c}]
    BY <1>7, <1>10, <1>13, <2>2
  <2> QED
    BY <1>10, <2>1, <2>2, <2>3, MemberAdded
<1>21. Gained(c) /\ Gained(e) /\ \A y \in Instances \ {c, e} : Same(y)
  <2>1. Plus(HeldBy(c), HeldBy(c)') /\ Plus(PooledAt(e), PooledAt(e)')
    BY <1>12, <1>19, <1>20
  <2>2. Gained(c)
    BY <1>12, <1>19, <1>20, <2>1 DEF Gained, Refs
  <2>3. Gained(e)
    BY <1>10, <1>12, <1>19, <1>20, <2>1 DEF Gained, Refs
  <2> QED
    BY <1>19, <1>20, <2>2, <2>3 DEF Same, Refs
<1>22. CountsAgree'
  <2> SUFFICES ASSUME NEW y \in Instances
               PROVE  /\ IsFiniteSet(PooledAt(y)') /\ count'[y] = References(y)'
                      /\ count'[y] > 0 => magic'[y] = "valid"
                      /\ count'[y] <= MaxReferences + Cardinality(Enumerated')
    BY DEF CountsAgree
  <2>1. /\ IsFiniteSet(PooledAt(y)) /\ count[y] = References(y) /\ count[y] \in Nat
        /\ count[y] > 0 => magic[y] = "valid"
        /\ count[y] <= MaxReferences + Cardinality(Enumerated)
    BY <1>1, CountIs DEF CountsAgree
  <2>2. CASE y = c
    <3>1. IsFiniteSet(PooledAt(y)') /\ References(y)' = References(y) + 1
      BY <1>21, <2>1, <2>2, GainedCounts
    <3>2. magic'[y] = "valid" /\ count'[y] = count[y] + 1
      BY <1>12, <1>16, <1>17, <2>2
    <3> QED
      BY <1>14, <2>1, <3>1, <3>2, MemoryAssumption
  <2>3. CASE y = e
    <3>1. IsFiniteSet(PooledAt(y)') /\ References(y)' = References(y) + 1
      BY <1>21, <2>1, <2>3, GainedCounts
    <3>2. magic'[y] = "valid" /\ count'[y] = 1 /\ count[y] = 0
      BY <1>13, <1>16, <1>17, <2>3
    <3> QED
      BY <1>14, <2>1, <3>1, <3>2, MemoryAssumption
  <2>4. CASE y \notin {c, e}
    <3>1. IsFiniteSet(PooledAt(y)') /\ References(y)' = References(y)
      BY <1>21, <2>1, <2>4, SameCounts
    <3>2. magic'[y] = magic[y] /\ count'[y] = count[y]
      BY <1>16, <1>17, <2>4
    <3> QED
      BY <1>14, <2>1, <3>1, <3>2, MemoryAssumption
  <2> QED
    BY <2>2, <2>3, <2>4
<1>23. KeepsDeallocs
  <2> SUFFICES ASSUME NEW u \in Threads, NEW n \in Nat, NEW y \in Instances
               PROVE  Deallocates(u, n, y)' <=> Deallocates(u, n, y)
    BY DEF KeepsDeallocs
  <2>1. CASE u # t
    BY <1>18, <2>1 DEF Deallocates
  <2>2. CASE u = t
    <3>1. DOMAIN work[t] = {1}
      BY <1>3, <1>6, <1>18
    <3> QED
      BY <1>3, <1>5, <1>6, <1>18, <2>2, <3>1 DEF Deallocates
  <2> QED
    BY <2>1, <2>2
<1>24. DeallocsAgree'
  <2> SUFFICES ASSUME NEW y \in Instances
               PROVE  /\ magic'[y] = "valid" /\ count'[y] = 0 =>
                             \E u \in Threads : \E n \in Nat : Deallocates(u, n, y)'
                      /\ \A u \in Threads : \A n \in Nat :
                             Deallocates(u, n, y)' => magic'[y] = "valid" /\ count'[y] = 0
                      /\ \A u, w \in Threads : \A m, n \in Nat :
                             Deallocates(u, m, y)' /\ Deallocates(w, n, y)' => u = w /\ m = n
                      /\ magic'[y] # "valid" => contents'[y] = {}
    BY DEF DeallocsAgree
  <2>1. \A u \in Threads : \A n \in Nat : Deallocates(u, n, y)' <=> Deallocates(u, n, y)
    BY <1>23 DEF KeepsDeallocs
  <2>2. CASE y \in {c, e}
    <3>1. \A u \in Threads : \A n \in Nat : ~Deallocates(u, n, y)
      BY <1>1, <1>11, <1>12, <2>2 DEF DeallocsAgree
    <3>2. magic'[y] = "valid" /\ count'[y] # 0
      BY <1>12, <1>16, <1>17, <2>2
    <3> QED
      BY <2>1, <3>1, <3>2
  <2>3. CASE y \notin {c, e}
    <3>1. magic'[y] = magic[y] /\ count'[y] = count[y]
      BY <1>16, <1>17, <2>3
    <3>2. contents'[y] = contents[y]
      BY <1>1, <1>7, <2>3 DEF TypeInv
    <3> QED
      BY <1>1, <2>1, <3>1, <3>2 DEF DeallocsAgree
  <2> QED
    BY <2>2, <2>3
<1>25. CallsArePlaced'
  <2>1. ArePlaced(work'[t], pools'[t], thread'[t])
    <3>1. IsPlaced(pools'[t], thread'[t], 1, g)
      BY <1>3, <1>5, <1>6, <1>8, <1>19 DEF IsPlaced
    <3> QED
      BY <1>5, <1>18, <3>1 DEF ArePlaced
  <2>2. ASSUME NEW u \in Threads \ {t}
        PROVE  ArePlaced(work'[u], pools'[u], thread'[u])
    BY <1>1, <1>8, <1>18, <1>19, CallsStay
  <2> QED
    BY <2>1, <2>2 DEF CallsArePlaced
<1>26. NoisyAreOwned'
  <2> SUFFICES ASSUME NEW y \in Noisy
               PROVE  OnlyOwned(y)' /\ (y \in Enumerated' => magic'[y] = "released" \/ IsEnumerating(y)')
    BY DEF NoisyAreOwned
  <2>1. OnlyOwned(y) /\ (y \in Enumerated => magic[y] = "released" \/ IsEnumerating(y)) /\ y \in Instances
    BY <1>1, MemoryAssumption DEF NoisyAreOwned
  <2>2. OnlyOwned(y)'
    BY <1>10, <1>12, <1>19, <1>20, <2>1 DEF OnlyOwned
  <2>3. CASE y = x
    <3>1. Deallocates(t, 1, x)' /\ work'[t][1].at = 1 /\ 1 \in Nat
      BY <1>5, <1>18 DEF Deallocates
    <3>2. IsEnumerating(x)'
      BY <3>1 DEF IsEnumerating
    <3> QED
      BY <2>2, <2>3, <3>2
  <2>4. CASE y # x
    <3>1. ASSUME IsEnumerating(y)
          PROVE  IsEnumerating(y)'
      <4>1. PICK u \in Threads, n \in Nat : Deallocates(u, n, y) /\ work[u][n].at = 1
        BY <3>1 DEF IsEnumerating
      <4>2. u # t
        BY <1>3, <1>6, <2>4, <4>1 DEF Deallocates
      <4> QED
        BY <1>18, <4>1, <4>2 DEF IsEnumerating, Deallocates
    <3>2. magic'[y] = magic[y]
      BY <1>10, <1>17, <2>1
    <3> QED
      BY <1>14, <2>1, <2>2, <2>4, <3>1, <3>2
  <2> QED
    BY <2>3, <2>4
<1>27. TypeInv'
  <2>1. contents' \in [Instances -> SUBSET Instances]
    BY <1>1, <1>7, <1>12 DEF TypeInv
  <2>2. magic' \in [Instances -> {"none", "valid", "released"}]
    BY <1>1, <1>8 DEF TypeInv
  <2> QED
    BY <1>1, <1>8, <1>16, <1>18, <1>19, <2>1, <2>2 DEF TypeInv
<1>28. ThreadsArePlaced'
  <2>1. thread[t] = "running"
    BY <1>3, <1>6
  <2> QED
    BY <1>1, <1>8, <1>18, <2>1 DEF ThreadsArePlaced
<1> QED
  BY <1>19, <1>22, <1>24, <1>25, <1>26, <1>27, <1>28 DEF IInv

-----------------------------------------------------------------------------
(* The invariant holds from the start and is kept by every step *)

\* No instance is there yet, so nothing refers to one.
LEMMA InitEstablishes ==
    ASSUME Init
    PROVE  IInv
<1>1. /\ \A x \in Instances : magic[x] = "none" /\ count[x] = 0 /\ contents[x] = {}
      /\ \A t \in Threads : work[t] = <<>> /\ pools[t] = <<>> /\ argument[t] = Nil
      /\ \A t \in Threads : thread[t] = IF t = Main THEN "running" ELSE "none"
      /\ \A t \in Threads : \A v \in Slots : own[t][v] = Nil
  BY DEF Init
<1>2. TypeInv
  <2>1. /\ magic \in [Instances -> {"none", "valid", "released"}]
        /\ contents \in [Instances -> SUBSET Instances]
        /\ own \in [Threads -> [Slots -> Instances \cup {Nil}]]
        /\ thread \in [Threads -> {"none", "creating", "running", "exiting", "exited"}]
        /\ argument \in [Threads -> Instances \cup {Nil}]
        /\ aborted = FALSE /\ wild = FALSE
    BY DEF Init
  <2>2. count \in [Instances -> 0 .. Modulus - 1]
    <3>1. Modulus \in Nat /\ MaxReferences \in Nat \ {0} /\ Cardinality(Noisy) \in Nat
          /\ MaxReferences + Cardinality(Noisy) < Modulus
      BY MemoryAssumption, EnumeratedIs
    <3>2. 0 \in 0 .. Modulus - 1
      BY <3>1
    <3> QED
      BY <3>2 DEF Init
  <2>3. <<>> \in Seq(Seq(BlockRecord)) /\ <<>> \in Seq(CallRecord)
    OBVIOUS
  <2>4. pools \in PoolsRecord /\ work \in [Threads -> Seq(CallRecord)]
    BY <2>3 DEF Init, PoolsRecord
  <2> QED
    BY <2>1, <2>2, <2>4 DEF TypeInv
<1>3. \A x \in Instances : OwnedAt(x) = {} /\ HeldBy(x) = {} /\ GivenTo(x) = {} /\ PooledAt(x) = {}
  <2> SUFFICES ASSUME NEW x \in Instances
               PROVE  OwnedAt(x) = {} /\ HeldBy(x) = {} /\ GivenTo(x) = {} /\ PooledAt(x) = {}
    OBVIOUS
  <2>1. x # Nil
    BY MemoryAssumption
  <2>2. OwnedAt(x) = {}
    BY <1>1, <2>1 DEF OwnedAt
  <2>3. HeldBy(x) = {} /\ GivenTo(x) = {}
    BY <1>1, <2>1 DEF HeldBy, GivenTo
  <2>4. \A t \in Threads : Pooled(t, x) = {}
    <3>1. \A t \in Threads : DOMAIN pools[t] = {}
      BY <1>1
    <3> QED
      BY <3>1 DEF Pooled
  <2>5. PooledAt(x) = {}
    BY <2>4 DEF PooledAt
  <2> QED
    BY <2>2, <2>3, <2>5
<1>4. Enumerated = {}
  <2>1. \A x \in Noisy : Enumerator[x] \in Instances
    <3>1. \A x \in Noisy : Enumerator[x] \in Helpers
      BY DEF Helpers, Range, Noisy
    <3> QED
      BY <3>1, MemoryAssumption
  <2> QED
    BY <1>1, <2>1 DEF Enumerated
<1>5. CountsAgree
  <2>1. IsFiniteSet({}) /\ Cardinality({}) = 0
    BY FS_EmptySet
  <2>2. MaxReferences \in Nat
    BY MemoryAssumption
  <2> SUFFICES ASSUME NEW x \in Instances
               PROVE  /\ IsFiniteSet(PooledAt(x)) /\ count[x] = References(x)
                      /\ count[x] > 0 => magic[x] = "valid"
                      /\ count[x] <= MaxReferences + Cardinality(Enumerated)
    BY DEF CountsAgree
  <2>3. IsFiniteSet(PooledAt(x)) /\ Refs(x) = <<{}, {}, {}, {}>>
    BY <1>3, <2>1 DEF Refs
  <2>4. References(x) = 0
    BY <2>3, ReferencesAre
  <2> QED
    BY <1>1, <1>4, <2>1, <2>2, <2>3, <2>4
<1>6. \A t \in Threads : DOMAIN work[t] = {}
  BY <1>1
<1>7. DeallocsAgree
  <2>1. \A t \in Threads : \A n, x : ~Deallocates(t, n, x)
    BY <1>6 DEF Deallocates
  <2> QED
    BY <1>1, <2>1 DEF DeallocsAgree
<1>8. CallsArePlaced
  BY <1>1, NoCalls DEF CallsArePlaced
<1>9. PoolsAreWhole
  BY <1>1 DEF PoolsAreWhole, IsWhole
<1>10. NoisyAreOwned
  BY <1>3, <1>4, MemoryAssumption DEF NoisyAreOwned, OnlyOwned
<1>11. ThreadsArePlaced
  BY <1>1, MemoryAssumption DEF ThreadsArePlaced
<1> QED
  BY <1>2, <1>5, <1>7, <1>8, <1>9, <1>10, <1>11 DEF IInv

LEMMA NextPreserves ==
    ASSUME Careful, IInv, [Next]_vars
    PROVE  IInv'
<1>1. ASSUME NEW t \in Threads, Client(t)
      PROVE  IInv'
  <2>1. ASSUME NEW v \in Slots, NEW x \in Instances, Create(t, v, x) \/ RetainOne(t, v, x)
        PROVE  IInv'
    BY <2>1, CreatePreserves, RetainPreserves
  <2>2. ASSUME NEW v \in Slots, ReleaseOne(t, v) \/ AutoreleaseOne(t, v)
        PROVE  IInv'
    BY <2>2, ReleasePreserves, AutoreleasePreserves
  <2>3. ASSUME NEW c \in Instances, NEW x \in Instances, InsertMember(t, c, x) \/ RemoveMember(t, c, x)
        PROVE  IInv'
    BY <2>3, InsertPreserves, RemovePreserves
  <2> QED
    BY <1>1, <2>1, <2>2, <2>3 DEF Client
<1>2. ASSUME NEW t \in Threads, PoolInit(t) \/ PoolDrain(t) \/ PoolRelease(t)
      PROVE  IInv'
  BY <1>2, PoolInitPreserves, DrainStartPreserves
<1>3. ASSUME NEW t \in Threads, Spawn(t) \/ ExitThread(t)
      PROVE  IInv'
  BY <1>3, SpawnPreserves, ExitPreserves
<1>4. ASSUME NEW t \in Threads, Step(t)
      PROVE  IInv'
  <2>1. CASE DeallocEnumerate(t)
    BY <2>1, DeallocEnumeratePreserves
  <2>2. CASE DeallocMember(t)
    BY <2>2, DeallocMemberPreserves
  <2>3. CASE Free(t)
    BY <2>3, FreePreserves
  <2>4. CASE DrainOne(t)
    BY <2>4, DrainOnePreserves
  <2>5. CASE DrainBlock(t)
    BY <2>5, DrainBlockPreserves
  <2>6. CASE DrainEnd(t)
    BY <2>6, DrainEndPreserves
  <2>7. ASSUME NEW u \in Threads, Created(t, u) \/ CreateFails(t, u)
        PROVE  IInv'
    BY <2>7, CreatedPreserves, CreateFailsPreserves
  <2>8. CASE ReleaseArgument(t)
    BY <2>8, ReleaseArgumentPreserves
  <2> QED
    BY <1>4, <2>1, <2>2, <2>3, <2>4, <2>5, <2>6, <2>7, <2>8 DEF Step
<1>5. CASE UNCHANGED vars
  <2>1. UNCHANGED <<magic, count, contents, own, thread, argument, pools, work, aborted, wild>>
    BY <1>5 DEF vars, clients
  <2>2. /\ TypeInv /\ CountsAgree /\ DeallocsAgree /\ CallsArePlaced /\ PoolsAreWhole
        /\ NoisyAreOwned /\ ThreadsArePlaced
    BY DEF IInv
  <2>3. TypeInv' /\ ThreadsArePlaced'
    BY <2>1, <2>2 DEF TypeInv, ThreadsArePlaced
  <2>4. CallsArePlaced' /\ PoolsAreWhole' /\ KeepsDeallocs /\ FramesStay
    BY <2>1, <2>2, QuietThreads
  <2>5. \A y : Same(y) /\ OwnedAt(y)' = OwnedAt(y) /\ HeldBy(y)' = HeldBy(y)
               /\ GivenTo(y)' = GivenTo(y) /\ PooledAt(y)' = PooledAt(y)
    BY <2>1 DEF Same, Refs, OwnedAt, HeldBy, GivenTo, PooledAt, Pooled
  <2>6. \A y \in Instances : IsFiniteSet(PooledAt(y)') /\ References(y)' = References(y)
    BY <2>2, <2>5, SameIsQuiet
  <2>7. \A y \in Instances : magic[y] # "valid" => contents'[y] = {}
    BY <2>1, <2>2 DEF DeallocsAgree
  <2>8. CountsAgree' /\ DeallocsAgree'
    BY <2>1, <2>2, <2>4, <2>6, <2>7, QuietCounts
  <2>9. \A x \in Noisy : OnlyOwned(x)'
    BY <2>2, <2>5 DEF NoisyAreOwned, OnlyOwned
  <2>10. NoisyAreOwned'
    BY <2>1, <2>2, <2>4, <2>9, NoisyStay
  <2> QED
    BY <2>3, <2>4, <2>8, <2>10 DEF IInv
<1> QED
  BY <1>1, <1>2, <1>3, <1>4, <1>5 DEF Next

-----------------------------------------------------------------------------
(* What the invariant says of the properties *)

LEMMA DeallocsAre ==
    ASSUME NEW x \in Instances
    PROVE  /\ \A p \in Deallocs(x) : \E t \in Threads : \E n \in DOMAIN work[t] :
                  p = <<t, n>> /\ Deallocates(t, n, x)
           /\ \A t \in Threads : \A n \in DOMAIN work[t] :
                  work[t][n] \in {Dealloc(x), Call("dealloc", x, 0, 0, 1, 0)} => <<t, n>> \in Deallocs(x)
<1>1. {Call("dealloc", x, 0, 0, i, 0) : i \in {0, 1}} = {Dealloc(x), Call("dealloc", x, 0, 0, 1, 0)}
  BY DEF Dealloc
<1>2. \A p : p \in Deallocs(x) <=>
          \E t \in Threads : \E n \in DOMAIN work[t] :
              p = <<t, n>> /\ work[t][n] \in {Dealloc(x), Call("dealloc", x, 0, 0, 1, 0)}
  BY <1>1 DEF Deallocs
<1>3. \A c \in {Dealloc(x), Call("dealloc", x, 0, 0, 1, 0)} : c.kind = "dealloc" /\ c.of = x
  BY DEF Dealloc, Call
<1>4. ASSUME NEW p \in Deallocs(x)
      PROVE  \E t \in Threads : \E n \in DOMAIN work[t] : p = <<t, n>> /\ Deallocates(t, n, x)
  <2>1. PICK t \in Threads : \E n \in DOMAIN work[t] :
            p = <<t, n>> /\ work[t][n] \in {Dealloc(x), Call("dealloc", x, 0, 0, 1, 0)}
    BY <1>2, <1>4
  <2> QED
    BY <1>3, <2>1 DEF Deallocates
<1>5. ASSUME NEW t \in Threads, NEW n \in DOMAIN work[t],
             work[t][n] \in {Dealloc(x), Call("dealloc", x, 0, 0, 1, 0)}
      PROVE  <<t, n>> \in Deallocs(x)
  BY <1>2, <1>5
<1> QED
  BY <1>4, <1>5

LEMMA TypeFollows ==
    ASSUME IInv
    PROVE  TypeOK
<1>1. TypeInv
  BY DEF IInv
<1>2. ASSUME NEW t \in Threads, NEW k \in DOMAIN pools[t], NEW b \in DOMAIN pools[t][k]
      PROVE  LET block == pools[t][k][b] IN
             /\ block.freed \in BOOLEAN
             /\ Len(block.instances) <= BlockSize
             /\ \A i \in DOMAIN block.instances : block.instances[i] \in Instances \cup {Nil}
  <2>1. pools[t] \in Seq(Seq(BlockRecord))
    BY <1>1 DEF TypeInv, PoolsRecord
  <2>2. pools[t][k] \in Seq(BlockRecord)
    BY <2>1
  <2>3. pools[t][k][b] \in BlockRecord
    BY <2>2
  <2> QED
    BY <2>3 DEF BlockRecord, Chunk
<1>3. ASSUME NEW t \in Threads, NEW d \in DOMAIN work[t]
      PROVE  /\ work[t][d].kind \in {"dealloc", "drain", "dispose", "create"}
             /\ work[t][d].of \in Instances \cup {Nil}
  <2>1. work[t] \in Seq(CallRecord)
    BY <1>1 DEF TypeInv
  <2>2. work[t][d] \in CallRecord
    BY <2>1
  <2> QED
    BY <2>2 DEF CallRecord, Kinds
<1>4. {aborted, wild} \subseteq BOOLEAN
  BY <1>1 DEF TypeInv
<1> QED
  BY <1>1, <1>2, <1>3, <1>4 DEF TypeOK, TypeInv

LEMMA CountsFollow ==
    ASSUME IInv
    PROVE  CountsReferences /\ NothingLeaks
<1>1. TypeInv /\ CountsAgree /\ DeallocsAgree /\ CallsArePlaced
  BY DEF IInv
<1>2. \A t \in Threads : work[t] \in Seq(CallRecord) /\ DOMAIN work[t] = 1 .. Len(work[t])
                         /\ DOMAIN work[t] \subseteq Nat
  BY <1>1 DEF TypeInv
<1>3. ASSUME NEW x \in Instances
      PROVE  /\ count[x] = References(x)
             /\ References(x) > 0 => magic[x] = "valid" /\ Deallocs(x) = {}
             /\ Cardinality(Deallocs(x)) <= 1
             /\ magic[x] = "valid" => References(x) > 0 \/ Deallocs(x) # {}
  <2>1. count[x] = References(x) /\ References(x) \in Nat /\ (count[x] > 0 => magic[x] = "valid")
    BY <1>1, CountIs DEF CountsAgree
  <2>2. \A p \in Deallocs(x) : \E t \in Threads : \E n \in Nat : p = <<t, n>> /\ Deallocates(t, n, x)
    BY <1>2, DeallocsAre
  <2>3. Deallocs(x) # {} => count[x] = 0
    BY <1>1, <2>2 DEF DeallocsAgree
  <2>4. \A p, q \in Deallocs(x) : p = q
    BY <1>1, <2>2 DEF DeallocsAgree
  <2>5. Cardinality(Deallocs(x)) <= 1
    <3>1. CASE Deallocs(x) = {}
      BY <3>1, FS_EmptySet
    <3>2. CASE Deallocs(x) # {}
      <4>1. PICK p : Deallocs(x) = {p}
        BY <2>4, <3>2
      <4> QED
        BY <4>1, FS_Singleton
    <3> QED
      BY <3>1, <3>2
  <2>6. ASSUME magic[x] = "valid", count[x] = 0
        PROVE  Deallocs(x) # {}
    <3>1. PICK t \in Threads, n \in Nat : Deallocates(t, n, x)
      BY <1>1, <2>6 DEF DeallocsAgree
    <3>2. n \in 1 .. Len(work[t]) /\ n \in DOMAIN work[t] /\ work[t][n].kind = "dealloc" /\ work[t][n].of = x
      BY <1>2, <3>1 DEF Deallocates
    <3>3. IsPlaced(pools[t], thread[t], n, work[t][n])
      BY <1>1, <3>2 DEF CallsArePlaced, ArePlaced
    <3>4. work[t][n] \in {Dealloc(x), Call("dealloc", x, 0, 0, 1, 0)}
      BY <3>2, <3>3 DEF IsPlaced
    <3> QED
      BY <3>2, <3>4, DeallocsAre
  <2> QED
    BY <2>1, <2>3, <2>5, <2>6
<1> QED
  BY <1>3 DEF CountsReferences, NothingLeaks

-----------------------------------------------------------------------------
(* The theorems *)

LEMMA Inductive == ASSUME Careful PROVE Spec => []IInv
<1>1. Init => IInv
  BY InitEstablishes
<1>2. IInv /\ [Next]_vars => IInv'
  BY NextPreserves
<1> QED
  BY <1>1, <1>2, PTL DEF Spec

\* Variables keep their types, whatever the threads do: no block holds more than
\* _WI_POOL_ARRAY_SIZE instances.
THEOREM TypeCorrect == ASSUME Careful PROVE Spec => []TypeOK
<1>1. IInv => TypeOK
  BY TypeFollows
<1> QED
  BY <1>1, Inductive, PTL

\* The retain count that wi_retain and wi_release keep is the number of references, and an
\* instance is deallocated by one call, once none is left: in programs of any number of
\* threads, instances, pools and variables that keep the rules.
THEOREM CountsAlwaysAgree == ASSUME Careful PROVE Spec => []CountsReferences
<1>1. IInv => CountsReferences
  BY CountsFollow
<1> QED
  BY <1>1, Inductive, PTL

\* What nobody refers to any more is being deallocated.
THEOREM NothingEverLeaks == ASSUME Careful PROVE Spec => []NothingLeaks
<1>1. IInv => NothingLeaks
  BY CountsFollow
<1> QED
  BY <1>1, Inductive, PTL

\* No assertion of wi-runtime.c and wi-pool.c fails, and freed memory is not used.
THEOREM NeverAborts == ASSUME Careful PROVE Spec => []NoAbort
<1>1. IInv => NoAbort
  BY DEF IInv, TypeInv, NoAbort
<1> QED
  BY <1>1, Inductive, PTL

===============================================================================
