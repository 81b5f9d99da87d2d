----------------------------- MODULE ArrayProofs -----------------------------
(***************************************************************************)
(* Proofs about Array for arrays of any length below _WI_ARRAY_MAX_COUNT:  *)
(* the items stay in place, the array is a sequence, it retains its data   *)
(* as often as they are in it, and every function that loops over edits    *)
(* has done what its name says when it returns.                            *)
(***************************************************************************)
EXTENDS Array, FiniteSetTheorems, SequenceTheorems, TLAPS

\* The items that were cut from chunks are those before the next one.
Before(x, c, o) == x[1] <= c /\ (x[1] = c => x[2] < o)

Cut == \A x \in DOMAIN data : Before(x, chunks, offset)

Layout == StoreTypeOK /\ ItemsInPlace /\ Cut

-----------------------------------------------------------------------------
(* The sequence that the vector leads to *)

LEMMA ContentsAreData ==
    ASSUME StoreTypeOK, ItemsInPlace
    PROVE  /\ \A i \in 1 .. dataCount : items[i] \in DOMAIN data /\ Contents[i] \in Data
           /\ Contents \in Seq(Data) /\ Len(Contents) = dataCount
           /\ DOMAIN Contents = 1 .. dataCount
<1>1. \A i \in 1 .. dataCount : items[i] \in Used /\ items[i] \in DOMAIN data
  BY DEF ItemsInPlace, Used
<1>2. \A i \in 1 .. dataCount : data[items[i]] \in Data
  BY <1>1 DEF StoreTypeOK
<1> QED
  BY <1>1, <1>2 DEF Contents, StoreTypeOK

-----------------------------------------------------------------------------
(* Creating an item *)

LEMMA NewItemIsNew ==
    ASSUME Layout
    PROVE  /\ NewItem \in Nat \X Nat
           /\ NewItem \notin Used
           /\ free # <<>> => NewItem \in DOMAIN data /\ NewItem = free[1]
           /\ free = <<>> => NewItem \notin DOMAIN data
<1>1. CASE free # <<>>
  <2>1. NewItem = free[1] /\ 1 \in DOMAIN free /\ NewItem \in Nat \X Nat
    BY <1>1 DEF NewItem, Layout, StoreTypeOK
  <2>2. NewItem \in Range(free)
    BY <2>1 DEF Range
  <2> QED
    BY <1>1, <2>1, <2>2 DEF Layout, ItemsInPlace
<1>2. CASE free = <<>>
  <2>1. NewItem \in Nat \X Nat /\ ~ Before(NewItem, chunks, offset)
    BY <1>2, SizeAssumption DEF NewItem, Layout, StoreTypeOK, Before
  <2>2. NewItem \notin DOMAIN data
    BY <2>1 DEF Layout, Cut
  <2> QED
    BY <1>2, <2>1, <2>2 DEF Layout, ItemsInPlace
<1> QED
  BY <1>1, <1>2

LEMMA RestIsTheRest ==
    ASSUME Layout
    PROVE  /\ Rest.free \in Seq(Nat \X Nat)
           /\ Rest.chunks \in Nat /\ Rest.offset \in 1 .. ItemsPerPage
           /\ \A i, j \in DOMAIN Rest.free : Rest.free[i] = Rest.free[j] => i = j
           /\ Range(Rest.free) = Range(free) \ {NewItem}
           /\ \A x \in DOMAIN data \cup {NewItem} : Before(x, Rest.chunks, Rest.offset)
<1>1. CASE free # <<>>
  <2>1. /\ Rest.free = Tail(free) /\ Rest.chunks = chunks /\ Rest.offset = offset
        /\ NewItem = free[1] /\ NewItem \in DOMAIN data
    BY <1>1, NewItemIsNew DEF Rest
  <2>2. /\ free \in Seq(Nat \X Nat) /\ Tail(free) \in Seq(Nat \X Nat)
        /\ DOMAIN free = 1 .. Len(free) /\ DOMAIN Tail(free) = 1 .. Len(free) - 1
        /\ Len(free) \in Nat \ {0}
        /\ \A i \in DOMAIN Tail(free) : Tail(free)[i] = free[i + 1] /\ i + 1 \in DOMAIN free
    BY <1>1 DEF Layout, StoreTypeOK
  <2>3. \A i, j \in DOMAIN free : free[i] = free[j] => i = j
    BY DEF Layout, ItemsInPlace
  <2>4. \A i, j \in DOMAIN Tail(free) : Tail(free)[i] = Tail(free)[j] => i = j
    BY <2>2, <2>3
  <2>5. ASSUME NEW x \in Range(Tail(free)) PROVE x \in Range(free) \ {NewItem}
    <3>1. PICK i \in DOMAIN Tail(free) : x = Tail(free)[i]
      BY DEF Range
    <3>2. i + 1 \in DOMAIN free /\ x = free[i + 1] /\ 1 \in DOMAIN free /\ i + 1 # 1
      BY <2>2, <3>1
    <3> QED
      BY <2>1, <2>3, <3>2 DEF Range
  <2>6. ASSUME NEW x \in Range(free) \ {NewItem} PROVE x \in Range(Tail(free))
    <3>1. PICK i \in DOMAIN free : x = free[i]
      BY DEF Range
    <3>2. i - 1 \in DOMAIN Tail(free) /\ Tail(free)[i - 1] = x
      BY <2>1, <2>2, <3>1
    <3> QED
      BY <3>2 DEF Range
  <2>7. \A x \in DOMAIN data \cup {NewItem} : Before(x, Rest.chunks, Rest.offset)
    BY <2>1 DEF Layout, Cut
  <2> QED
    BY <2>1, <2>2, <2>4, <2>5, <2>6, <2>7 DEF Layout, StoreTypeOK
<1>2. CASE free = <<>>
  <2>1. Rest.free = <<>> /\ Range(Rest.free) = {} /\ Range(free) = {}
    BY <1>2 DEF Rest, Range
  <2>2. /\ Rest.chunks \in Nat /\ Rest.offset \in 1 .. ItemsPerPage
        /\ Before(NewItem, Rest.chunks, Rest.offset)
    BY <1>2, SizeAssumption DEF Rest, NewItem, Before, Layout, StoreTypeOK
  <2>3. \A x \in DOMAIN data : Before(x, Rest.chunks, Rest.offset)
    <3>1. ASSUME NEW x \in DOMAIN data PROVE Before(x, Rest.chunks, Rest.offset)
      <4>1. x \in Nat \X Nat /\ Before(x, chunks, offset)
        BY DEF Layout, Cut, StoreTypeOK
      <4> QED
        BY <1>2, <4>1, SizeAssumption DEF Rest, Before, Layout, StoreTypeOK
    <3> QED
      BY <3>1
  <2> QED
    BY <2>1, <2>2, <2>3
<1> QED
  BY <1>1, <1>2

LEMMA CreateItemTakesIt ==
    ASSUME Layout, CreateItem
    PROVE  /\ free' \in Seq(Nat \X Nat) /\ chunks' \in Nat /\ offset' \in 1 .. ItemsPerPage
           /\ \A i, j \in DOMAIN free' : free'[i] = free'[j] => i = j
           /\ Range(free') = Range(free) \ {NewItem}
           /\ \A x \in DOMAIN data \cup {NewItem} : Before(x, chunks', offset')
BY RestIsTheRest DEF CreateItem

\* An item that is pushed onto a free list it is not on
LEMMA PushedRange ==
    ASSUME NEW list, NEW pushed, NEW x, NEW n \in Nat,
           DOMAIN list = 1 .. n, DOMAIN pushed = 1 .. n + 1,
           pushed[1] = x, \A i \in 1 .. n : pushed[i + 1] = list[i],
           x \notin Range(list), \A i, j \in DOMAIN list : list[i] = list[j] => i = j
    PROVE  /\ \A i, j \in DOMAIN pushed : pushed[i] = pushed[j] => i = j
           /\ Range(pushed) = Range(list) \cup {x}
<1>1. \A i \in 1 .. n : list[i] # x /\ list[i] \in Range(list)
  BY DEF Range
<1>2. ASSUME NEW i \in DOMAIN pushed, i # 1 PROVE i - 1 \in 1 .. n /\ pushed[i] = list[i - 1]
  <2>1. i - 1 \in 1 .. n /\ (i - 1) + 1 = i
    BY <1>2
  <2> QED
    BY <2>1
<1>3. ASSUME NEW i \in DOMAIN pushed, NEW j \in DOMAIN pushed, pushed[i] = pushed[j]
      PROVE  i = j
  <2>1. CASE i = 1 \/ j = 1
    BY <1>1, <1>2, <1>3, <2>1
  <2>2. CASE i # 1 /\ j # 1
    <3>1. i - 1 = j - 1
      BY <1>2, <1>3, <2>2
    <3> QED
      BY <3>1
  <2> QED
    BY <2>1, <2>2
<1>4. \A i \in DOMAIN pushed : pushed[i] \in Range(list) \cup {x}
  BY <1>1, <1>2
<1>5. ASSUME NEW y \in Range(list) PROVE y \in Range(pushed)
  <2>1. PICK i \in 1 .. n : y = list[i]
    BY DEF Range
  <2>2. i + 1 \in DOMAIN pushed /\ pushed[i + 1] = y
    BY <2>1
  <2> QED
    BY <2>2 DEF Range
<1>6. x \in Range(pushed)
  <2>1. 1 \in DOMAIN pushed
    OBVIOUS
  <2> QED
    BY <2>1 DEF Range
<1>7. Range(pushed) \subseteq Range(list) \cup {x}
  BY <1>4 DEF Range
<1> QED
  BY <1>3, <1>5, <1>6, <1>7

LEMMA Pushing ==
    ASSUME NEW list \in Seq(Nat \X Nat), NEW x \in Nat \X Nat, x \notin Range(list),
           \A i, j \in DOMAIN list : list[i] = list[j] => i = j
    PROVE  /\ <<x>> \o list \in Seq(Nat \X Nat)
           /\ \A i, j \in DOMAIN (<<x>> \o list) :
                 (<<x>> \o list)[i] = (<<x>> \o list)[j] => i = j
           /\ Range(<<x>> \o list) = Range(list) \cup {x}
<1> DEFINE pushed == <<x>> \o list
<1>1. /\ pushed \in Seq(Nat \X Nat) /\ Len(list) \in Nat
      /\ DOMAIN pushed = 1 .. Len(list) + 1 /\ DOMAIN list = 1 .. Len(list)
      /\ pushed[1] = x /\ \A i \in 1 .. Len(list) : pushed[i + 1] = list[i]
  OBVIOUS
<1> HIDE DEF pushed
<1> QED
  BY <1>1, PushedRange DEF pushed

-----------------------------------------------------------------------------
(* The vector *)

Item == Nat \X Nat

LEMMA GrownHasRoom ==
    ASSUME Layout, NEW n \in Nat, n >= dataCount
    PROVE  /\ Grown(n) \in Seq(Item \cup {Nil})
           /\ DOMAIN Grown(n) = 1 .. Len(Grown(n))
           /\ Len(Grown(n)) \in Nat /\ Len(Grown(n)) > dataCount
           /\ \A i \in 1 .. dataCount : Grown(n)[i] = items[i]
<1>1. items \in Seq(Item \cup {Nil}) /\ dataCount \in Nat /\ dataCount <= Len(items)
  BY DEF Layout, StoreTypeOK, ItemsInPlace, Item
<1>2. CASE dataCount >= Len(items)
  <2>1. ((n + 1) * 3) \div 2 \in Nat /\ ((n + 1) * 3) \div 2 > dataCount
    BY <1>1
  <2> DEFINE m == ((n + 1) * 3) \div 2
  <2>2. Grown(n) = [i \in 1 .. m |-> IF i <= Len(items) THEN items[i] ELSE Nil]
    BY <1>2 DEF Grown, Resized
  <2> HIDE DEF m
  <2> QED
    BY <1>1, <2>1, <2>2 DEF m
<1>3. CASE ~ dataCount >= Len(items)
  BY <1>1, <1>3 DEF Grown
<1> QED
  BY <1>2, <1>3

LEMMA OptimizedKeeps ==
    ASSUME NEW S, Nil \in S, NEW s \in Seq(S), NEW n \in Nat, n <= Len(s), n <= MaxCount,
           minCount \in Nat \ {0}
    PROVE  /\ Optimized(s, n) \in Seq(S)
           /\ n <= Len(Optimized(s, n))
           /\ \A i \in 1 .. n : Optimized(s, n)[i] = s[i]
<1> DEFINE m == IF n > MaxCount THEN MaxCount ELSE IF n < minCount THEN minCount ELSE n
<1>1. m \in Nat /\ m >= n
  BY SizeAssumption
<1>2. Optimized(s, n) = Resized(s, m) \/ Optimized(s, n) = s
  BY DEF Optimized
<1> HIDE DEF m
<1>3. /\ Resized(s, m) \in Seq(S) /\ Len(Resized(s, m)) = m
      /\ \A i \in 1 .. n : Resized(s, m)[i] = s[i]
  BY <1>1 DEF Resized
<1> QED
  BY <1>1, <1>2, <1>3

-----------------------------------------------------------------------------
(* The single edits keep the layout and are edits of the sequence *)

\* A place of the abstract sequence
LEMMA Bounds ==
    ASSUME Layout
    PROVE  dataCount \in Nat /\ \A i \in 1 .. dataCount : items[i] \in Item
<1>1. \A i \in 1 .. dataCount : items[i] \in DOMAIN data
  BY ContentsAreData DEF Layout
<1> QED
  BY <1>1 DEF Layout, StoreTypeOK, Item

\* An insertion, whatever moves the pointers.
LEMMA InsertionKeepsLayout ==
    ASSUME Layout, CreateItem, NEW d \in Data, NEW i \in 1 .. dataCount + 1,
           data' = Assigned(NewItem, d), dataCount' = dataCount + 1, minCount' = minCount,
           items' \in Seq(Item \cup {Nil}), Len(items') > dataCount,
           items'[i] = NewItem,
           \A j \in 1 .. dataCount : j < i => items'[j] = items[j],
           \A j \in 1 .. dataCount : j >= i => items'[j + 1] = items[j]
    PROVE  Layout' /\ Sequence!Insert(d, i)
<1>1. dataCount \in Nat /\ \A j \in 1 .. dataCount : items[j] \in Item
  BY Bounds
<1> USE <1>1
<1>2. \A j \in 1 .. dataCount : items[j] \in DOMAIN data /\ Contents[j] \in Data
  BY ContentsAreData DEF Layout
<1>3. NewItem \in Item /\ NewItem \notin Used
  BY NewItemIsNew DEF Item
<1>4. \A j \in 1 .. dataCount : items[j] # NewItem
  BY <1>3 DEF Used
<1>5. DOMAIN data' = DOMAIN data \cup {NewItem} /\ data'[NewItem] = d
  BY DEF Assigned
<1>6. \A x \in DOMAIN data : x # NewItem => data'[x] = data[x]
  BY DEF Assigned
<1>7. \A j \in 1 .. dataCount' :
         items'[j] = IF j < i THEN items[j] ELSE IF j = i THEN NewItem ELSE items[j - 1]
  <2>1. ASSUME NEW j \in 1 .. dataCount', j > i PROVE items'[j] = items[j - 1]
    <3>1. j - 1 \in 1 .. dataCount /\ j - 1 >= i /\ (j - 1) + 1 = j
      BY <2>1
    <3> QED
      BY <3>1
  <2> QED
    BY <2>1
<1>8. Used' = Used \cup {NewItem}
  <2>1. \A x \in Used' : x \in Used \cup {NewItem}
    BY <1>7 DEF Used
  <2>2. ASSUME NEW x \in Used PROVE x \in Used'
    <3>1. PICK j \in 1 .. dataCount : x = items[j]
      BY DEF Used
    <3>2. CASE j < i
      <4>1. j \in 1 .. dataCount' /\ items'[j] = x
        BY <3>1, <3>2
      <4> QED
        BY <4>1 DEF Used
    <3>3. CASE j >= i
      <4>1. j + 1 \in 1 .. dataCount' /\ items'[j + 1] = x
        BY <3>1, <3>3
      <4> QED
        BY <4>1 DEF Used
    <3> QED
      BY <3>2, <3>3
  <2>3. NewItem \in Used'
    BY DEF Used
  <2> QED
    BY <2>1, <2>2, <2>3
<1>9. \A j, k \in 1 .. dataCount' : items'[j] = items'[k] => j = k
  <2>1. \A j, k \in 1 .. dataCount : items[j] = items[k] => j = k
    BY DEF Layout, ItemsInPlace
  <2> QED
    BY <2>1, <1>4, <1>7
<1>10. Used' \cap Range(free') = {} /\ Used' \cup Range(free') = DOMAIN data'
  <2>1. Used \cap Range(free) = {} /\ Used \cup Range(free) = DOMAIN data
    BY DEF Layout, ItemsInPlace
  <2>2. Range(free') = Range(free) \ {NewItem}
    BY CreateItemTakesIt
  <2> QED
    BY <2>1, <2>2, <1>5, <1>8
<1>11. ItemsInPlace'
  BY <1>9, <1>10, CreateItemTakesIt DEF ItemsInPlace
<1>12. StoreTypeOK'
  <2>1. \A x \in DOMAIN data' : x \in Nat \X Nat /\ data'[x] \in Data \cup {Nil}
    BY <1>3, <1>5, <1>6 DEF Layout, StoreTypeOK, Item
  <2>2. \A x \in Used' : x \in DOMAIN data' => data'[x] \in Data
    BY <1>5, <1>6, <1>8 DEF Layout, StoreTypeOK, ItemsInPlace
  <2> QED
    BY <2>1, <2>2, CreateItemTakesIt DEF StoreTypeOK, Layout, Item
<1>13. Cut'
  BY <1>5, CreateItemTakesIt DEF Cut
<1>14. Sequence!Insert(d, i)
  <2>1. Len(Contents) = dataCount
    BY ContentsAreData DEF Layout
  <2>2. \A j \in 1 .. dataCount' :
           data'[items'[j]] = IF j < i THEN Contents[j]
                              ELSE IF j = i THEN d ELSE Contents[j - 1]
    <3>1. ASSUME NEW j \in 1 .. dataCount PROVE data'[items[j]] = Contents[j]
      BY <1>2, <1>4, <1>6 DEF Contents
    <3>2. \A j \in 1 .. dataCount' : j < i => j \in 1 .. dataCount
      OBVIOUS
    <3>3. \A j \in 1 .. dataCount' : j > i => j - 1 \in 1 .. dataCount
      OBVIOUS
    <3> QED
      BY <1>5, <1>7, <3>1, <3>2, <3>3
  <2>3. Contents' = [j \in 1 .. dataCount' |-> data'[items'[j]]]
    BY DEF Contents
  <2> QED
    BY <2>1, <2>2, <2>3 DEF Sequence!Insert
<1> QED
  BY <1>11, <1>12, <1>13, <1>14 DEF Layout

LEMMA AddDataInserts ==
    ASSUME Layout, NEW d \in Data, AddData(d)
    PROVE  Layout' /\ Sequence!Insert(d, dataCount + 1)
<1>1. dataCount \in Nat
  BY Bounds
<1> DEFINE room == Grown(dataCount)
<1>2. /\ room \in Seq(Item \cup {Nil}) /\ DOMAIN room = 1 .. Len(room)
      /\ Len(room) \in Nat /\ Len(room) > dataCount
      /\ \A j \in 1 .. dataCount : room[j] = items[j]
  BY <1>1, GrownHasRoom
<1>3. NewItem \in Item
  BY NewItemIsNew DEF Item
<1> HIDE DEF room
<1>4. /\ items' = [room EXCEPT ![dataCount + 1] = NewItem] /\ CreateItem
      /\ data' = Assigned(NewItem, d) /\ dataCount' = dataCount + 1 /\ minCount' = minCount
  BY DEF AddData, room
<1>5. /\ items' \in Seq(Item \cup {Nil}) /\ Len(items') > dataCount
      /\ items'[dataCount + 1] = NewItem /\ dataCount + 1 \in 1 .. dataCount + 1
      /\ \A j \in 1 .. dataCount : j < dataCount + 1 => items'[j] = items[j]
      /\ \A j \in 1 .. dataCount : j >= dataCount + 1 => items'[j + 1] = items[j]
  BY <1>1, <1>2, <1>3, <1>4
<1> QED
  BY <1>4, <1>5, InsertionKeepsLayout

LEMMA InsertItemInserts ==
    ASSUME Layout, NEW d \in Data, NEW i \in 1 .. dataCount, InsertItem(d, i)
    PROVE  Layout' /\ Sequence!Insert(d, i)
<1>1. dataCount \in Nat
  BY Bounds
<1> DEFINE n == dataCount + 1
           room == Grown(n)
<1>2. /\ room \in Seq(Item \cup {Nil}) /\ DOMAIN room = 1 .. Len(room)
      /\ Len(room) \in Nat /\ Len(room) > dataCount
      /\ \A j \in 1 .. dataCount : room[j] = items[j]
  <2>1. n \in Nat /\ n >= dataCount
    BY <1>1
  <2> HIDE DEF n
  <2> QED
    BY <2>1, GrownHasRoom
<1>3. NewItem \in Item
  BY NewItemIsNew DEF Item
<1> HIDE DEF room
<1>4. /\ items' = [j \in DOMAIN room |->
                       IF j = i THEN NewItem
                       ELSE IF j > i /\ j <= dataCount + 1 THEN room[j - 1] ELSE room[j]]
      /\ CreateItem /\ data' = Assigned(NewItem, d)
      /\ dataCount' = dataCount + 1 /\ minCount' = minCount
  BY DEF InsertItem, room
<1>5. \A j \in DOMAIN room : room[j] \in Item \cup {Nil} /\ (j > i => j - 1 \in DOMAIN room)
  BY <1>1, <1>2
<1>6. items' \in Seq(Item \cup {Nil}) /\ Len(items') = Len(room)
  BY <1>2, <1>3, <1>4, <1>5
<1>7. /\ i \in 1 .. dataCount + 1 /\ items'[i] = NewItem
      /\ \A j \in 1 .. dataCount : j < i => items'[j] = items[j]
      /\ \A j \in 1 .. dataCount : j >= i => items'[j + 1] = items[j]
  BY <1>1, <1>2, <1>4
<1> QED
  BY <1>2, <1>4, <1>6, <1>7, InsertionKeepsLayout

LEMMA InsertDataInserts ==
    ASSUME Layout, NEW d \in Data, NEW i \in Nat \ {0}, MayInsertAt(i), InsertData(d, i)
    PROVE  Layout' /\ dataCount' = dataCount + 1 /\ Sequence!Insert(d, i)
<1>1. dataCount \in Nat
  BY Bounds
<1>2. CASE dataCount = 0 /\ i = 1
  BY <1>1, <1>2, AddDataInserts DEF InsertData, AddData
<1>3. CASE ~ (dataCount = 0 /\ i = 1)
  <2>1. i \in 1 .. dataCount /\ InsertItem(d, i)
    BY <1>1, <1>3 DEF MayInsertAt, InsertData
  <2> QED
    BY <2>1, InsertItemInserts DEF InsertItem
<1> QED
  BY <1>2, <1>3

LEMMA AddSortedInserts ==
    ASSUME Layout, NEW d \in Data, AddSorted(d)
    PROVE  /\ Layout' /\ dataCount' = dataCount + 1
           /\ \E i \in 1 .. dataCount + 1 : Sequence!Insert(d, i)
<1>1. dataCount \in Nat
  BY Bounds
<1>2. PICK i \in 1 .. dataCount + 1 : IF i <= dataCount THEN InsertItem(d, i) ELSE AddData(d)
  BY DEF AddSorted
<1>3. CASE i <= dataCount
  <2>1. i \in 1 .. dataCount /\ InsertItem(d, i)
    BY <1>1, <1>2, <1>3
  <2> QED
    BY <1>1, <2>1, InsertItemInserts DEF InsertItem
<1>4. CASE ~ i <= dataCount
  BY <1>1, <1>2, <1>4, AddDataInserts DEF AddData
<1> QED
  BY <1>3, <1>4

LEMMA ReplaceDataReplaces ==
    ASSUME Layout, NEW d \in Data, NEW i \in 1 .. dataCount, ReplaceData(d, i)
    PROVE  Layout' /\ Sequence!Replace(d, i)
<1>1. /\ dataCount \in Nat /\ \A j \in 1 .. dataCount : items[j] \in Item
      /\ dataCount' = dataCount /\ minCount' = minCount
  BY Bounds DEF ReplaceData
<1> USE <1>1
<1> DEFINE old == items[i]
<1>2. \A j \in 1 .. dataCount : items[j] \in DOMAIN data /\ items[j] \in Used
  BY ContentsAreData DEF Layout, Used
<1>3. /\ NewItem \in Item /\ NewItem \notin Used
      /\ free # <<>> => NewItem \in DOMAIN data
  BY NewItemIsNew DEF Item
<1>4. old # NewItem /\ old \in DOMAIN data /\ old \in Item
  BY <1>2, <1>3
<1>5. /\ items' = [items EXCEPT ![i] = NewItem] /\ free' = <<old>> \o Rest.free
      /\ data' = [Assigned(NewItem, d) EXCEPT ![old] = Nil]
      /\ chunks' = Rest.chunks /\ offset' = Rest.offset
  BY DEF ReplaceData
<1>6. /\ Used \cap Range(free) = {} /\ Used \cup Range(free) = DOMAIN data
      /\ \A j, k \in 1 .. dataCount : items[j] = items[k] => j = k
      /\ dataCount <= Len(items) /\ items \in Seq(Item \cup {Nil})
  BY DEF Layout, ItemsInPlace, StoreTypeOK, Item
<1>7. /\ DOMAIN data' = DOMAIN data \cup {NewItem}
      /\ data'[NewItem] = d /\ data'[old] = Nil
      /\ \A x \in DOMAIN data : x # NewItem /\ x # old => data'[x] = data[x]
  BY <1>4, <1>5 DEF Assigned
<1>8. /\ items' \in Seq(Item \cup {Nil}) /\ Len(items') = Len(items)
      /\ \A j \in 1 .. dataCount : items'[j] = IF j = i THEN NewItem ELSE items[j]
  BY <1>3, <1>5, <1>6
<1>9. Used' = (Used \ {old}) \cup {NewItem}
  BY <1>6, <1>8 DEF Used
<1>10. /\ free' \in Seq(Nat \X Nat)
       /\ \A j, k \in DOMAIN free' : free'[j] = free'[k] => j = k
       /\ Range(free') = (Range(free) \ {NewItem}) \cup {old}
  <2>1. old \notin Range(Rest.free)
    BY <1>2, <1>6, RestIsTheRest
  <2> QED
    BY <1>4, <1>5, <2>1, RestIsTheRest, Pushing DEF Item
<1>11. ItemsInPlace'
  <2>1. \A j, k \in 1 .. dataCount' : items'[j] = items'[k] => j = k
    BY <1>2, <1>3, <1>6, <1>8
  <2>2. Used' \cap Range(free') = {}
    BY <1>3, <1>4, <1>6, <1>9, <1>10
  <2>3. Used' \cup Range(free') = DOMAIN data'
    BY <1>2, <1>6, <1>7, <1>9, <1>10
  <2> QED
    BY <1>6, <1>8, <1>10, <2>1, <2>2, <2>3 DEF ItemsInPlace
<1>12. StoreTypeOK'
  <2>1. \A x \in DOMAIN data' : x \in Nat \X Nat /\ data'[x] \in Data \cup {Nil}
    BY <1>3, <1>7 DEF Layout, StoreTypeOK, Item
  <2>2. \A x \in Used' : x \in DOMAIN data' => data'[x] \in Data
    BY <1>6, <1>7, <1>9 DEF Layout, StoreTypeOK
  <2> QED
    BY <1>5, <1>8, <1>10, <2>1, <2>2, RestIsTheRest DEF StoreTypeOK, Layout, Item
<1>13. Cut'
  BY <1>5, <1>7, RestIsTheRest DEF Cut
<1>14. Sequence!Replace(d, i)
  <2>1. /\ Len(Contents) = dataCount /\ DOMAIN Contents = 1 .. dataCount
        /\ Contents = [j \in 1 .. dataCount |-> data[items[j]]]
    BY ContentsAreData DEF Layout, Contents
  <2>2. \A j \in 1 .. dataCount : data'[items'[j]] = IF j = i THEN d ELSE Contents[j]
    BY <1>2, <1>3, <1>6, <1>7, <1>8, <2>1
  <2>3. Contents' = [j \in 1 .. dataCount |-> data'[items'[j]]]
    BY DEF Contents
  <2> QED
    BY <2>1, <2>2, <2>3 DEF Sequence!Replace
<1> QED
  BY <1>11, <1>12, <1>13, <1>14 DEF Layout

LEMMA RemoveDataDeletes ==
    ASSUME Layout, NEW i \in 1 .. dataCount, dataCount <= MaxCount, RemoveData(i)
    PROVE  Layout' /\ Sequence!Delete(i)
<1>1. /\ dataCount \in Nat /\ \A j \in 1 .. dataCount : items[j] \in Item
      /\ dataCount' = dataCount - 1 /\ dataCount' \in Nat /\ minCount' = minCount
  BY Bounds DEF RemoveData
<1> USE <1>1
<1> DEFINE old == items[i]
           moved == [j \in DOMAIN items |->
                        IF j < i \/ j > dataCount THEN items[j]
                        ELSE IF j < dataCount THEN items[j + 1] ELSE Nil]
<1>2. \A j \in 1 .. dataCount : items[j] \in DOMAIN data /\ items[j] \in Used
  BY ContentsAreData DEF Layout, Used
<1>3. /\ Used \cap Range(free) = {} /\ Used \cup Range(free) = DOMAIN data
      /\ \A j, k \in 1 .. dataCount : items[j] = items[k] => j = k
      /\ dataCount <= Len(items) /\ items \in Seq(Item \cup {Nil})
      /\ minCount \in Nat \ {0} /\ DOMAIN items = 1 .. Len(items) /\ Len(items) \in Nat
  BY DEF Layout, ItemsInPlace, StoreTypeOK, Item
<1>4. /\ items' = Optimized(moved, dataCount - 1) /\ free' = <<old>> \o free
      /\ data' = [data EXCEPT ![old] = Nil] /\ chunks' = chunks /\ offset' = offset
  BY DEF RemoveData
<1>5. /\ moved \in Seq(Item \cup {Nil}) /\ Len(moved) = Len(items)
      /\ \A j \in 1 .. dataCount - 1 : moved[j] = IF j < i THEN items[j] ELSE items[j + 1]
  <2>1. \A j \in 1 .. Len(items) : j < dataCount => j + 1 \in 1 .. Len(items)
    BY <1>3
  <2>2. \A j \in 1 .. Len(items) : moved[j] \in Item \cup {Nil}
    BY <1>3, <2>1
  <2>3. moved \in [1 .. Len(items) -> Item \cup {Nil}]
    BY <1>3, <2>2
  <2> QED
    BY <1>3, <2>3
<1> HIDE DEF moved
<1>6. /\ items' \in Seq(Item \cup {Nil}) /\ dataCount' <= Len(items')
      /\ \A j \in 1 .. dataCount' : items'[j] = IF j < i THEN items[j] ELSE items[j + 1]
  <2>1. dataCount - 1 <= Len(moved) /\ dataCount - 1 <= MaxCount /\ dataCount - 1 \in Nat
    BY <1>3, <1>5, SizeAssumption
  <2> DEFINE S == Item \cup {Nil}
             n == dataCount - 1
  <2>2. Nil \in S /\ moved \in Seq(S) /\ n \in Nat /\ n <= Len(moved) /\ n <= MaxCount
    BY <1>5, <2>1
  <2>3. n = dataCount' /\ items' = Optimized(moved, n)
    BY <1>4
  <2> HIDE DEF S, n
  <2>4. /\ Optimized(moved, n) \in Seq(S) /\ n <= Len(Optimized(moved, n))
        /\ \A j \in 1 .. n : Optimized(moved, n)[j] = moved[j]
    BY <1>3, <2>2, OptimizedKeeps
  <2>5. \A j \in 1 .. n : moved[j] = IF j < i THEN items[j] ELSE items[j + 1]
    BY <1>5 DEF n
  <2> QED
    BY <2>3, <2>4, <2>5 DEF S
<1>7. /\ DOMAIN data' = DOMAIN data /\ data'[old] = Nil
      /\ \A x \in DOMAIN data : x # old => data'[x] = data[x]
  BY <1>2, <1>4
<1>8. \A j \in 1 .. dataCount' : j \in 1 .. dataCount /\ j + 1 \in 1 .. dataCount
  OBVIOUS
<1>9. ASSUME NEW j \in 1 .. dataCount' PROVE items'[j] \in Used /\ items'[j] # old
  <2>1. CASE j < i
    BY <1>2, <1>3, <1>6, <1>8, <2>1
  <2>2. CASE ~ j < i
    <3>1. j + 1 \in 1 .. dataCount /\ j + 1 # i /\ items'[j] = items[j + 1]
      BY <1>6, <1>8, <2>2
    <3> QED
      BY <1>2, <1>3, <3>1
  <2> QED
    BY <2>1, <2>2
<1>10. Used' = Used \ {old}
  <2>1. \A x \in Used' : x \in Used \ {old}
    BY <1>9 DEF Used
  <2>2. ASSUME NEW x \in Used \ {old} PROVE x \in Used'
    <3>1. PICK j \in 1 .. dataCount : x = items[j] /\ j # i
      BY DEF Used
    <3>2. CASE j < i
      <4>1. j \in 1 .. dataCount' /\ items'[j] = x
        BY <1>6, <3>1, <3>2
      <4> QED
        BY <4>1 DEF Used
    <3>3. CASE j > i
      <4>1. j - 1 \in 1 .. dataCount' /\ ~ (j - 1 < i) /\ (j - 1) + 1 = j
        BY <3>1, <3>3
      <4>2. items'[j - 1] = x
        BY <1>6, <3>1, <4>1
      <4> QED
        BY <4>1, <4>2 DEF Used
    <3> QED
      BY <3>1, <3>2, <3>3
  <2> QED
    BY <2>1, <2>2
<1>11. /\ free' \in Seq(Nat \X Nat)
       /\ \A j, k \in DOMAIN free' : free'[j] = free'[k] => j = k
       /\ Range(free') = Range(free) \cup {old}
  <2>1. old \notin Range(free) /\ old \in Nat \X Nat
    BY <1>2, <1>3 DEF Item
  <2>2. free \in Seq(Nat \X Nat) /\ \A j, k \in DOMAIN free : free[j] = free[k] => j = k
    BY DEF Layout, ItemsInPlace, StoreTypeOK
  <2> QED
    BY <1>4, <2>1, <2>2, Pushing
<1>12. ItemsInPlace'
  <2>1. ASSUME NEW j \in 1 .. dataCount', NEW k \in 1 .. dataCount', items'[j] = items'[k]
        PROVE  j = k
    <3> DEFINE at(l) == IF l < i THEN l ELSE l + 1
    <3>1. at(j) \in 1 .. dataCount /\ at(k) \in 1 .. dataCount
      BY <1>8
    <3>2. items[at(j)] = items[at(k)]
      BY <1>6, <2>1
    <3>3. at(j) = at(k)
      BY <1>3, <3>1, <3>2
    <3> QED
      BY <3>3
  <2>2. old \in Used
    BY <1>2
  <2> HIDE DEF old
  <2>3. Used' \cap Range(free') = {}
    BY <1>3, <1>10, <1>11
  <2>4. Used' \cup Range(free') = Used \cup Range(free)
    BY <1>10, <1>11, <2>2
  <2>5. Used' \cup Range(free') = DOMAIN data'
    BY <1>3, <1>7, <2>4
  <2> QED
    BY <1>6, <1>11, <2>1, <2>3, <2>5 DEF ItemsInPlace
<1>13. StoreTypeOK'
  <2>1. \A x \in DOMAIN data' : x \in Nat \X Nat /\ data'[x] \in Data \cup {Nil}
    BY <1>7 DEF Layout, StoreTypeOK
  <2>2. \A x \in Used' : x \in DOMAIN data' => data'[x] \in Data
    BY <1>7, <1>10 DEF Layout, StoreTypeOK
  <2> QED
    BY <1>4, <1>6, <1>11, <2>1, <2>2 DEF StoreTypeOK, Layout, Item
<1>14. Cut'
  BY <1>4, <1>7 DEF Cut, Layout
<1>15. Sequence!Delete(i)
  <2>1. /\ Len(Contents) = dataCount /\ DOMAIN Contents = 1 .. dataCount
        /\ Contents = [j \in 1 .. dataCount |-> data[items[j]]]
    BY ContentsAreData DEF Layout, Contents
  <2>2. \A j \in 1 .. dataCount' :
           data'[items'[j]] = IF j < i THEN Contents[j] ELSE Contents[j + 1]
    <3>1. ASSUME NEW j \in 1 .. dataCount' PROVE data'[items'[j]] = data[items'[j]]
      BY <1>3, <1>7, <1>9
    <3>2. ASSUME NEW j \in 1 .. dataCount'
          PROVE  data[items'[j]] = IF j < i THEN Contents[j] ELSE Contents[j + 1]
      BY <1>6, <1>8, <2>1
    <3> QED
      BY <3>1, <3>2
  <2>3. Contents' = [j \in 1 .. dataCount' |-> data'[items'[j]]]
    BY DEF Contents
  <2> QED
    BY <2>1, <2>2, <2>3 DEF Sequence!Delete
<1> QED
  BY <1>12, <1>13, <1>14, <1>15 DEF Layout

\* Two lists without a common item, one behind the other
LEMMA JoinedRange ==
    ASSUME NEW front, NEW list, NEW joined, NEW m \in Nat, NEW n \in Nat,
           DOMAIN front = 1 .. m, DOMAIN list = 1 .. n, DOMAIN joined = 1 .. m + n,
           \A i \in 1 .. m : joined[i] = front[i],
           \A i \in 1 .. n : joined[m + i] = list[i],
           \A i, j \in 1 .. m : front[i] = front[j] => i = j,
           \A i, j \in 1 .. n : list[i] = list[j] => i = j,
           Range(front) \cap Range(list) = {}
    PROVE  /\ \A i, j \in DOMAIN joined : joined[i] = joined[j] => i = j
           /\ Range(joined) = Range(front) \cup Range(list)
<1>1. ASSUME NEW i \in 1 .. m + n, i > m
      PROVE  i - m \in 1 .. n /\ joined[i] = list[i - m]
  <2>1. i - m \in 1 .. n /\ m + (i - m) = i
    BY <1>1
  <2> QED
    BY <2>1
<1>2. \A i \in 1 .. m : front[i] \in Range(front)
  BY DEF Range
<1>3. \A i \in 1 .. n : list[i] \in Range(list)
  BY DEF Range
<1>4. \A i \in 1 .. m + n : ~ i > m => i \in 1 .. m
  OBVIOUS
<1>5. \A i \in 1 .. m + n : joined[i] \in IF i > m THEN Range(list) ELSE Range(front)
  BY <1>1, <1>2, <1>3, <1>4
<1>6. ASSUME NEW i \in 1 .. m + n, NEW j \in 1 .. m + n, joined[i] = joined[j]
      PROVE  i = j
  <2>1. i > m <=> j > m
    BY <1>5, <1>6
  <2>2. CASE i > m
    <3>1. i - m = j - m
      BY <1>1, <1>6, <2>1, <2>2
    <3> QED
      BY <3>1
  <2>3. CASE ~ i > m
    BY <1>4, <1>6, <2>1, <2>3
  <2> QED
    BY <2>2, <2>3
<1>7. Range(joined) \subseteq Range(front) \cup Range(list)
  <2>1. ASSUME NEW x \in Range(joined) PROVE x \in Range(front) \cup Range(list)
    <3>1. PICK i \in 1 .. m + n : x = joined[i]
      BY DEF Range
    <3> QED
      BY <1>5, <3>1
  <2> QED
    BY <2>1
<1>8. ASSUME NEW x \in Range(front) PROVE x \in Range(joined)
  <2>1. PICK i \in 1 .. m : x = front[i]
    BY DEF Range
  <2>2. i \in DOMAIN joined /\ x = joined[i]
    BY <2>1
  <2> QED
    BY <2>2 DEF Range
<1>9. ASSUME NEW x \in Range(list) PROVE x \in Range(joined)
  <2>1. PICK i \in 1 .. n : x = list[i]
    BY DEF Range
  <2>2. m + i \in DOMAIN joined /\ x = joined[m + i]
    BY <2>1
  <2> QED
    BY <2>2 DEF Range
<1> QED
  BY <1>6, <1>7, <1>8, <1>9

LEMMA Joining ==
    ASSUME NEW front \in Seq(Nat \X Nat), NEW list \in Seq(Nat \X Nat),
           \A i, j \in DOMAIN front : front[i] = front[j] => i = j,
           \A i, j \in DOMAIN list : list[i] = list[j] => i = j,
           Range(front) \cap Range(list) = {}
    PROVE  /\ front \o list \in Seq(Nat \X Nat)
           /\ \A i, j \in DOMAIN (front \o list) :
                 (front \o list)[i] = (front \o list)[j] => i = j
           /\ Range(front \o list) = Range(front) \cup Range(list)
<1> DEFINE joined == front \o list
           m == Len(front)
           n == Len(list)
<1>1. joined \in Seq(Nat \X Nat)
  OBVIOUS
<1>2. /\ m \in Nat /\ n \in Nat /\ DOMAIN joined = 1 .. m + n
      /\ DOMAIN front = 1 .. m /\ DOMAIN list = 1 .. n
  OBVIOUS
<1>3. \A i \in 1 .. m : joined[i] = front[i]
  OBVIOUS
<1>4. \A i \in 1 .. n : joined[m + i] = list[i]
  OBVIOUS
<1> HIDE DEF joined, m, n
<1>5. /\ \A i, j \in DOMAIN joined : joined[i] = joined[j] => i = j
      /\ Range(joined) = Range(front) \cup Range(list)
  BY <1>2, <1>3, <1>4, JoinedRange
<1> QED
  BY <1>1, <1>5 DEF joined

LEMMA EmptiedClears ==
    ASSUME Layout, Emptied
    PROVE  Layout' /\ dataCount' = 0 /\ Sequence!Clear
<1>1. /\ dataCount \in Nat /\ \A j \in 1 .. dataCount : items[j] \in Item
      /\ dataCount' = 0 /\ minCount' = minCount /\ chunks' = chunks /\ offset' = offset
  BY Bounds DEF Emptied
<1> DEFINE front == [i \in 1 .. dataCount |-> items[dataCount + 1 - i]]
<1>2. /\ \A i \in 1 .. dataCount : dataCount + 1 - i \in 1 .. dataCount
      /\ front \in Seq(Item) /\ DOMAIN front = 1 .. dataCount /\ Len(front) = dataCount
  BY <1>1
<1>3. /\ free \in Seq(Item) /\ Len(free) \in Nat /\ DOMAIN free = 1 .. Len(free)
      /\ \A i, j \in 1 .. Len(free) : free[i] = free[j] => i = j
      /\ \A i, j \in 1 .. dataCount : items[i] = items[j] => i = j
      /\ Used \cap Range(free) = {} /\ Used \cup Range(free) = DOMAIN data
      /\ items \in Seq(Item \cup {Nil}) /\ Len(items) \in Nat /\ minCount \in Nat \ {0}
  BY DEF Layout, StoreTypeOK, ItemsInPlace, Item
<1>4. Range(front) = Used
  <2>1. \A i \in 1 .. dataCount : front[i] \in Used
    BY <1>2 DEF Used
  <2>2. ASSUME NEW j \in 1 .. dataCount PROVE items[j] \in Range(front)
    <3>1. dataCount + 1 - j \in DOMAIN front /\ dataCount + 1 - (dataCount + 1 - j) = j
      BY <1>1, <1>2
    <3>2. front[dataCount + 1 - j] = items[j]
      BY <3>1
    <3> QED
      BY <3>1, <3>2 DEF Range
  <2> HIDE DEF front
  <2> QED
    BY <1>2, <2>1, <2>2 DEF Range, Used
<1>5. ASSUME NEW i \in 1 .. dataCount, NEW j \in 1 .. dataCount, front[i] = front[j]
      PROVE  i = j
  <2>1. dataCount + 1 - i = dataCount + 1 - j
    BY <1>2, <1>3, <1>5
  <2> QED
    BY <1>1, <2>1
<1>6. free' = front \o free /\ items' = Optimized(items, 0)
  BY DEF Emptied
<1> HIDE DEF front
<1>7. /\ free' \in Seq(Nat \X Nat)
      /\ \A i, j \in DOMAIN free' : free'[i] = free'[j] => i = j
      /\ Range(free') = Used \cup Range(free)
  <2>1. front \in Seq(Nat \X Nat) /\ free \in Seq(Nat \X Nat)
    BY <1>2, <1>3 DEF Item
  <2>2. Range(front) \cap Range(free) = {}
    BY <1>3, <1>4
  <2>3. \A i, j \in DOMAIN free : free[i] = free[j] => i = j
    BY <1>3
  <2>4. \A i, j \in DOMAIN front : front[i] = front[j] => i = j
    BY <1>2, <1>5
  <2> QED
    BY <1>4, <1>6, <2>1, <2>2, <2>3, <2>4, Joining
<1>8. items' \in Seq(Item \cup {Nil}) /\ 0 <= Len(items')
  <2> DEFINE S == Item \cup {Nil}
  <2>1. Nil \in S /\ items \in Seq(S) /\ 0 \in Nat /\ 0 <= Len(items) /\ 0 <= MaxCount
    BY <1>3, SizeAssumption
  <2> HIDE DEF S
  <2>2. Optimized(items, 0) \in Seq(S) /\ 0 <= Len(Optimized(items, 0))
    BY <1>3, <2>1, OptimizedKeeps
  <2> QED
    BY <1>6, <2>2 DEF S
<1>9. DOMAIN data' = DOMAIN data /\ \A x \in DOMAIN data : data'[x] \in {Nil, data[x]}
  BY DEF Emptied
<1>10. Used' = {}
  BY <1>1 DEF Used
<1>11. ItemsInPlace'
  BY <1>1, <1>3, <1>7, <1>8, <1>9, <1>10 DEF ItemsInPlace
<1>12. StoreTypeOK'
  BY <1>1, <1>7, <1>8, <1>9, <1>10 DEF Layout, StoreTypeOK, Item
<1>13. Cut'
  BY <1>1, <1>9 DEF Layout, Cut
<1>14. Sequence!Clear
  BY <1>1 DEF Contents, Sequence!Clear
<1> QED
  BY <1>1, <1>11, <1>12, <1>13, <1>14 DEF Layout

LEMMA SortReorders ==
    ASSUME Layout, ClientSort
    PROVE  Layout' /\ Sequence!Reorder
<1>1. /\ dataCount \in Nat
      /\ UNCHANGED <<items, dataCount, minCount, chunks, offset, free, call, aborted>>
  BY Bounds DEF ClientSort
<1> DEFINE n == dataCount
<1>2. PICK p \in Orders(n) :
         data' = [x \in DOMAIN data |->
                     IF \E i \in 1 .. n : items[i] = x
                     THEN Contents[p[CHOOSE i \in 1 .. n : items[i] = x]] ELSE data[x]]
  BY DEF ClientSort
<1>3. p \in Sequence!Permutations(n) /\ p \in [1 .. n -> 1 .. n]
  BY DEF Orders, Sequence!Permutations
<1>4. /\ \A i \in 1 .. n : items[i] \in DOMAIN data /\ Contents[i] \in Data
      /\ Len(Contents) = n
  BY ContentsAreData DEF Layout
<1>5. \A i, j \in 1 .. n : items[i] = items[j] => i = j
  BY DEF Layout, ItemsInPlace
<1>6. DOMAIN data' = DOMAIN data
  BY <1>2
<1>7. ASSUME NEW i \in 1 .. n PROVE data'[items[i]] = Contents[p[i]]
  <2>1. (CHOOSE j \in 1 .. n : items[j] = items[i]) = i
    BY <1>5
  <2>2. \E j \in 1 .. n : items[j] = items[i]
    OBVIOUS
  <2> QED
    BY <1>2, <1>4, <2>1, <2>2
<1>8. \A x \in DOMAIN data : x \notin Used => data'[x] = data[x]
  BY <1>2 DEF Used
<1>9. \A x \in Used : data'[x] \in Data
  BY <1>3, <1>4, <1>7 DEF Used
<1>10. Used' = Used
  BY <1>1 DEF Used
<1>11. ItemsInPlace'
  BY <1>1, <1>6, <1>10 DEF Layout, ItemsInPlace
<1>12. StoreTypeOK'
  <2>1. \A x \in DOMAIN data' : x \in Nat \X Nat /\ data'[x] \in Data \cup {Nil}
    BY <1>6, <1>8, <1>9 DEF Layout, StoreTypeOK
  <2> QED
    BY <1>1, <1>9, <1>10, <2>1 DEF Layout, StoreTypeOK
<1>13. Cut'
  BY <1>1, <1>6 DEF Layout, Cut
<1>14. Sequence!Reorder
  <2>1. Contents' = [i \in 1 .. n |-> data'[items[i]]]
    BY <1>1 DEF Contents
  <2>2. Contents' = [i \in 1 .. n |-> Contents[p[i]]]
    BY <1>7, <2>1
  <2> QED
    BY <1>3, <1>4, <2>2 DEF Sequence!Reorder
<1> QED
  BY <1>11, <1>12, <1>13, <1>14 DEF Layout

LEMMA ReverseReorders ==
    ASSUME Layout, ClientReverse
    PROVE  Layout' /\ Sequence!Reorder
<1>1. /\ dataCount \in Nat /\ \A i \in 1 .. dataCount : items[i] \in Item
      /\ UNCHANGED <<dataCount, minCount, data, chunks, offset, free, call, aborted>>
  BY Bounds DEF ClientReverse
<1> DEFINE n == dataCount
           p == [i \in 1 .. n |-> n + 1 - i]
<1>2. items \in Seq(Item \cup {Nil}) /\ n <= Len(items) /\ Len(items) \in Nat
  BY DEF Layout, StoreTypeOK, ItemsInPlace, Item
<1>3. /\ \A i \in 1 .. n : n + 1 - i \in 1 .. n /\ n + 1 - (n + 1 - i) = i
      /\ \A i \in 1 .. n : p[i] = n + 1 - i
      /\ p \in [1 .. n -> 1 .. n]
  BY <1>1
<1>4. p \in Sequence!Permutations(n)
  <2>1. \A i, j \in 1 .. n : p[i] = p[j] => i = j
    BY <1>1, <1>3
  <2> QED
    BY <1>3, <2>1 DEF Sequence!Permutations
<1> HIDE DEF p
<1>5. items' = [i \in DOMAIN items |-> IF i <= n THEN items[n + 1 - i] ELSE items[i]]
  BY DEF ClientReverse
<1>6. ASSUME NEW i \in 1 .. n PROVE items'[i] = items[p[i]]
  <2>1. i \in DOMAIN items /\ i <= n /\ p[i] = n + 1 - i
    BY <1>1, <1>2, <1>3
  <2> QED
    BY <1>5, <2>1
<1>7. items' \in Seq(Item \cup {Nil}) /\ Len(items') = Len(items)
  <2>1. \A i \in 1 .. Len(items) : i <= n => n + 1 - i \in 1 .. Len(items)
    BY <1>1, <1>2
  <2> QED
    BY <1>2, <1>5, <2>1
<1>8. Used' = Used
  <2>1. \A x \in Used' : x \in Used
    BY <1>1, <1>3, <1>6 DEF Used
  <2>2. ASSUME NEW i \in 1 .. n PROVE items[i] \in Used'
    <3>1. n + 1 - i \in 1 .. n /\ p[n + 1 - i] = i
      BY <1>1, <1>3
    <3>2. items'[n + 1 - i] = items[i]
      BY <1>6, <3>1
    <3> QED
      BY <1>1, <3>1, <3>2 DEF Used
  <2> QED
    BY <2>1, <2>2 DEF Used
<1>9. ItemsInPlace'
  <2>1. \A i, j \in 1 .. n : items[i] = items[j] => i = j
    BY DEF Layout, ItemsInPlace
  <2>2. \A i, j \in 1 .. n : items'[i] = items'[j] => i = j
    BY <1>1, <1>3, <1>6, <2>1
  <2> QED
    BY <1>1, <1>2, <1>7, <1>8, <2>2 DEF Layout, ItemsInPlace
<1>10. StoreTypeOK'
  BY <1>1, <1>7, <1>8 DEF Layout, StoreTypeOK, Item
<1>11. Cut'
  BY <1>1 DEF Layout, Cut
<1>12. Sequence!Reorder
  <2>1. /\ Contents = [i \in 1 .. n |-> data[items[i]]] /\ Len(Contents) = n
        /\ Contents' = [i \in 1 .. n |-> data[items'[i]]]
    BY <1>1, ContentsAreData DEF Layout, Contents
  <2>2. Contents' = [i \in 1 .. n |-> Contents[p[i]]]
    BY <1>3, <1>6, <2>1
  <2>3. Len(Contents) = n
    BY <2>1
  <2> QED
    BY <1>4, <2>2, <2>3 DEF Sequence!Reorder
<1> QED
  BY <1>9, <1>10, <1>11, <1>12 DEF Layout

\* A new array
LEMMA NewArrayIsEmpty ==
    ASSUME NEW n \in 0 .. MaxLength, items' = NewArray(n).items,
           minCount' = NewArray(n).minCount, dataCount' = 0, data' = NewArray(n).data,
           chunks' = 0, offset' = ItemsPerPage, free' = <<>>
    PROVE  Layout' /\ Sequence!Clear
<1>1. /\ items' = [i \in 1 .. Capacity[n] |-> Nil] /\ minCount' = Capacity[n]
      /\ Capacity[n] \in Nat \ {0} /\ data' = <<>>
  BY SizeAssumption DEF NewArray
<1>2. DOMAIN data' = {} /\ Used' = {} /\ Range(free') = {} /\ DOMAIN free' = {}
  BY <1>1 DEF Used, Range
<1>3. items' \in Seq((Nat \X Nat) \cup {Nil}) /\ 0 <= Len(items')
  BY <1>1
<1>4. ItemsInPlace'
  BY <1>2, <1>3 DEF ItemsInPlace
<1>5. StoreTypeOK'
  BY <1>1, <1>2, <1>3, SizeAssumption DEF StoreTypeOK
<1>6. Cut'
  BY <1>2 DEF Cut
<1>7. Sequence!Clear
  BY DEF Contents, Sequence!Clear
<1> QED
  BY <1>4, <1>5, <1>6, <1>7 DEF Layout

-----------------------------------------------------------------------------
(* The invariant: besides the layout, a loop that has edits to make has the *)
(* arguments and the room for them.                                         *)

Growing == {"add", "set", "select", "insert"}

CallFits ==
    /\ dataCount <= MaxLength
    /\ call.op \in Growing /\ call.at <= call.count =>
          dataCount + call.count - call.at < MaxLength
    /\ call.op = "select" =>
          /\ ~ call.self /\ Len(call.indexes) = call.count
          /\ \A k \in DOMAIN call.indexes : call.indexes[k] \in DOMAIN call.other
    /\ call.op = "insert" =>
          ~ call.self /\ Len(call.indexes) = call.count /\ Len(call.other) = call.count
    /\ call.op = "removeRange" => Len(call.indexes) = 1

IInv == TypeOK /\ ItemsInPlace /\ Cut /\ CallFits

LEMMA InvImpliesLayout == ASSUME IInv PROVE Layout /\ dataCount \in Nat
BY Bounds DEF IInv, TypeOK, Layout

LEMMA OccurrencesAreInt ==
    ASSUME NEW s \in Seq(Data), NEW d \in Data
    PROVE  Occurrences(s, d) \in Int
<1> DEFINE S == {i \in 1 .. Len(s) : s[i] = d}
<1>1. 1 \in Int /\ Len(s) \in Int
  OBVIOUS
<1>2. IsFiniteSet(1 .. Len(s))
  BY <1>1, FS_Interval
<1>3. S \subseteq 1 .. Len(s)
  OBVIOUS
<1>4. Cardinality(S) \in Nat
  BY <1>2, <1>3, FS_Subset, FS_CardinalityType
<1>5. Occurrences(s, d) = Cardinality(S)
  <2>1. DOMAIN s = 1 .. Len(s)
    OBVIOUS
  <2> QED
    BY <2>1 DEF Occurrences
<1> QED
  BY <1>4, <1>5

LEMMA CountsStayNumbers ==
    ASSUME IInv, NEW s \in Seq(Data)
    PROVE  /\ Held(s) \in [Data -> Int]
           /\ [d \in Data |-> count[d] - Occurrences(s, d)] \in [Data -> Int]
BY OccurrencesAreInt DEF IInv, TypeOK, Held

\* What an edit of the store is in the sequence
LEMMA EditsAreSteps ==
    ASSUME IInv
    PROVE  /\ \A d \in Data, i \in 1 .. dataCount + 1 : Sequence!Insert(d, i) => Sequence!Next
           /\ \A d \in Data, i \in 1 .. dataCount : Sequence!Replace(d, i) => Sequence!Next
           /\ \A i \in 1 .. dataCount : Sequence!Delete(i) => Sequence!Next
           /\ Sequence!Clear \/ Sequence!Reorder => Sequence!Next
<1>1. dataCount \in Nat /\ Len(Contents) = dataCount
  BY InvImpliesLayout, ContentsAreData DEF Layout
<1>2. \A i \in 1 .. dataCount : i \in 1 .. dataCount + 1
  BY <1>1
<1> QED
  BY <1>1, <1>2 DEF Sequence!Next

\* The single edits, with what they do to the counts and the length
LEMMA AddDataStep ==
    ASSUME IInv, NEW d \in Data, AddData(d)
    PROVE  /\ Layout' /\ Sequence!Next /\ dataCount' = dataCount + 1
           /\ count' \in [Data -> Int]
<1>1. dataCount + 1 \in 1 .. dataCount + 1
  BY InvImpliesLayout
<1>2. Layout' /\ Sequence!Next
  BY <1>1, InvImpliesLayout, AddDataInserts, EditsAreSteps
<1> QED
  BY <1>2 DEF AddData, Retain, IInv, TypeOK

LEMMA InsertDataStep ==
    ASSUME IInv, NEW d \in Data, NEW i \in Nat \ {0}, MayInsertAt(i), InsertData(d, i)
    PROVE  /\ Layout' /\ Sequence!Next /\ dataCount' = dataCount + 1
           /\ count' \in [Data -> Int]
<1>1. Layout' /\ dataCount' = dataCount + 1 /\ Sequence!Insert(d, i)
  BY InvImpliesLayout, InsertDataInserts
<1>2. i \in 1 .. dataCount + 1
  BY InvImpliesLayout DEF MayInsertAt
<1>3. count' \in [Data -> Int]
  BY DEF InsertData, AddData, InsertItem, Retain, IInv, TypeOK
<1> QED
  BY <1>1, <1>2, <1>3, EditsAreSteps

LEMMA ReplaceDataStep ==
    ASSUME IInv, NEW d \in Data, NEW i \in 1 .. dataCount, ReplaceData(d, i)
    PROVE  /\ Layout' /\ Sequence!Next /\ dataCount' = dataCount
           /\ count' \in [Data -> Int]
<1>1. Layout' /\ Sequence!Next
  BY InvImpliesLayout, ReplaceDataReplaces, EditsAreSteps
<1> DEFINE old == data[items[i]]
<1>2. /\ count' = [[count EXCEPT ![d] = @ + 1] EXCEPT ![old] = @ - 1]
      /\ dataCount' = dataCount /\ count \in [Data -> Int]
  BY DEF ReplaceData, IInv, TypeOK
<1>3. old \in Data
  BY InvImpliesLayout, ContentsAreData DEF Layout, Contents
<1> HIDE DEF old
<1>4. count' \in [Data -> Int]
  <2>1. [count EXCEPT ![d] = @ + 1] \in [Data -> Int]
    BY <1>2
  <2> QED
    BY <1>2, <1>3, <2>1
<1> QED
  BY <1>1, <1>2, <1>4

LEMMA RemoveDataStep ==
    ASSUME IInv, MaxLength <= MaxCount, NEW i \in 1 .. dataCount, RemoveData(i)
    PROVE  /\ Layout' /\ Sequence!Next /\ dataCount' = dataCount - 1
           /\ count' \in [Data -> Int]
<1>1. dataCount <= MaxCount
  BY SizeAssumption, InvImpliesLayout DEF IInv, CallFits
<1>2. Layout' /\ Sequence!Next
  BY <1>1, InvImpliesLayout, RemoveDataDeletes, EditsAreSteps
<1> DEFINE old == data[items[i]]
<1>3. /\ count' = [count EXCEPT ![old] = @ - 1] /\ dataCount' = dataCount - 1
      /\ count \in [Data -> Int]
  BY DEF RemoveData, Release, IInv, TypeOK
<1>4. old \in Data
  BY InvImpliesLayout, ContentsAreData DEF Layout, Contents
<1> HIDE DEF old
<1>5. count' \in [Data -> Int]
  BY <1>3, <1>4
<1> QED
  BY <1>2, <1>3, <1>5

-----------------------------------------------------------------------------
(* Every step keeps the invariant, and is a step of the sequence or none    *)

LEMMA StoreUnchanged ==
    ASSUME IInv, UNCHANGED store
    PROVE  Layout' /\ dataCount' = dataCount /\ UNCHANGED Contents
<1>1. UNCHANGED <<items, dataCount, minCount, data, chunks, offset, free>>
  BY DEF store
<1>2. UNCHANGED Contents /\ UNCHANGED Used
  BY <1>1 DEF Contents, Used
<1>3. StoreTypeOK'
  BY <1>1, <1>2 DEF IInv, TypeOK, StoreTypeOK
<1>4. ItemsInPlace'
  BY <1>1, <1>2 DEF IInv, ItemsInPlace
<1>5. Cut'
  BY <1>1 DEF IInv, Cut
<1> QED
  BY <1>1, <1>2, <1>3, <1>4, <1>5 DEF Layout

\* Between calls nothing depends on the arguments.
LEMMA ReadyStep ==
    ASSUME IInv, call = NoCall, Layout', count' \in [Data -> Int], dataCount' <= MaxLength,
           UNCHANGED <<call, aborted>>
    PROVE  IInv'
<1>1. CallFits'
  BY DEF CallFits, NoCall, Growing
<1> QED
  BY <1>1 DEF IInv, TypeOK, Layout

LEMMA ClientStep ==
    ASSUME IInv, MaxLength <= MaxCount, Client
    PROVE  IInv' /\ Sequence!Next
<1>1. /\ dataCount \in Nat /\ MaxLength \in Nat /\ dataCount <= MaxLength /\ Layout
      /\ Contents \in Seq(Data)
  BY InvImpliesLayout, SizeAssumption, ContentsAreData DEF IInv, CallFits, Layout
<1>2. call = NoCall /\ UNCHANGED <<call, aborted>>
  BY DEF Client, ClientAdd, ClientAddSorted, ClientInsert, ClientReplace, ClientRemoveAt,
         ClientRemove, ClientRemoveLast, ClientRemoveAll, ClientSort, ClientReverse, Ready
<1> SUFFICES Layout' /\ count' \in [Data -> Int] /\ dataCount' <= MaxLength /\ Sequence!Next
  BY <1>2, ReadyStep
<1>3. ASSUME NEW d \in Data, ClientAdd(d)
      PROVE  Layout' /\ count' \in [Data -> Int] /\ dataCount' <= MaxLength /\ Sequence!Next
  BY <1>1, <1>3, AddDataStep DEF ClientAdd, Fits
<1>4. ASSUME NEW d \in Data, ClientAddSorted(d)
      PROVE  Layout' /\ count' \in [Data -> Int] /\ dataCount' <= MaxLength /\ Sequence!Next
  <2>1. AddSorted(d) /\ dataCount + 1 <= MaxLength
    BY <1>4 DEF ClientAddSorted, Fits
  <2>2. /\ Layout' /\ dataCount' = dataCount + 1
        /\ \E i \in 1 .. dataCount + 1 : Sequence!Insert(d, i)
    BY <1>1, <2>1, AddSortedInserts
  <2>3. count' \in [Data -> Int]
    BY <2>1 DEF AddSorted, AddData, InsertItem, Retain, IInv, TypeOK
  <2> QED
    BY <1>1, <2>1, <2>2, <2>3, EditsAreSteps
<1>5. ASSUME NEW d \in Data, NEW i \in 1 .. MaxLength, ClientInsert(d, i)
      PROVE  Layout' /\ count' \in [Data -> Int] /\ dataCount' <= MaxLength /\ Sequence!Next
  <2>1. i \in Nat \ {0} /\ MayInsertAt(i) /\ InsertData(d, i) /\ dataCount + 1 <= MaxLength
    BY <1>1, <1>5 DEF ClientInsert, Fits
  <2> QED
    BY <1>1, <2>1, InsertDataStep
<1>6. ASSUME NEW d \in Data, NEW i \in 1 .. MaxLength, ClientReplace(d, i)
      PROVE  Layout' /\ count' \in [Data -> Int] /\ dataCount' <= MaxLength /\ Sequence!Next
  <2>1. i \in 1 .. dataCount /\ ReplaceData(d, i)
    BY <1>1, <1>6 DEF ClientReplace
  <2> QED
    BY <1>1, <2>1, ReplaceDataStep
<1>7. ASSUME NEW i \in 1 .. dataCount, RemoveData(i)
      PROVE  Layout' /\ count' \in [Data -> Int] /\ dataCount' <= MaxLength /\ Sequence!Next
  BY <1>1, <1>7, RemoveDataStep
<1>8. ASSUME NEW i \in 1 .. MaxLength, ClientRemoveAt(i)
      PROVE  \E j \in 1 .. dataCount : RemoveData(j)
  BY <1>1, <1>8 DEF ClientRemoveAt
<1>9. ASSUME NEW d \in Data, ClientRemove(d)
      PROVE  \E j \in 1 .. dataCount : RemoveData(j)
  BY <1>9 DEF ClientRemove
<1>10. ASSUME ClientRemoveLast
       PROVE  \E j \in 1 .. dataCount : RemoveData(j)
  BY <1>1, <1>10 DEF ClientRemoveLast
<1>11. ASSUME ClientRemoveAll
       PROVE  Layout' /\ count' \in [Data -> Int] /\ dataCount' <= MaxLength /\ Sequence!Next
  <2>1. Emptied /\ count' = [d \in Data |-> count[d] - Occurrences(Contents, d)]
    BY <1>11 DEF ClientRemoveAll
  <2> QED
    BY <1>1, <2>1, EmptiedClears, CountsStayNumbers, EditsAreSteps
<1>12. ASSUME ClientSort \/ ClientReverse
       PROVE  Layout' /\ count' \in [Data -> Int] /\ dataCount' <= MaxLength /\ Sequence!Next
  <2>1. UNCHANGED <<dataCount, count>>
    BY <1>12 DEF ClientSort, ClientReverse
  <2>2. count' \in [Data -> Int]
    BY <2>1 DEF IInv, TypeOK
  <2> QED
    BY <1>1, <1>12, <2>1, <2>2, SortReorders, ReverseReorders, EditsAreSteps
<1> QED
  BY <1>3, <1>4, <1>5, <1>6, <1>7, <1>8, <1>9, <1>10, <1>11, <1>12 DEF Client

Calls == [op : Operations, self : BOOLEAN, other : Seq(Data), indexes : Seq(Nat \ {0}),
          at : Nat \ {0}, count : Nat, before : Seq(Data), seen : Seq(Data)]

\* What a call needs to begin
LEMMA BeginsWell ==
    ASSUME IInv, NEW c \in Calls, Begin(c),
           c.op \in Growing => dataCount + c.count <= MaxLength /\ c.at = 1,
           c.op # "select",
           c.op = "insert" => ~ c.self /\ Len(c.indexes) = c.count /\ Len(c.other) = c.count,
           c.op = "removeRange" => Len(c.indexes) = 1
    PROVE  IInv' /\ UNCHANGED Contents
<1>1. /\ dataCount \in Nat /\ MaxLength \in Nat /\ dataCount <= MaxLength
      /\ c.count \in Nat /\ c.other \in Seq(Data)
  BY InvImpliesLayout, SizeAssumption DEF IInv, CallFits, Calls
<1>2. /\ call' = c /\ count' = IF c.self THEN count ELSE Held(c.other)
      /\ UNCHANGED store /\ UNCHANGED aborted
  BY DEF Begin
<1>3. Layout' /\ dataCount' = dataCount /\ UNCHANGED Contents
  BY <1>2, StoreUnchanged
<1>4. count' \in [Data -> Int]
  BY <1>1, <1>2, CountsStayNumbers DEF IInv, TypeOK
<1>5. CallFits'
  BY <1>1, <1>2, <1>3 DEF CallFits
<1>6. TypeOK'
  BY <1>2, <1>3, <1>4 DEF IInv, TypeOK, Layout, Calls
<1> QED
  BY <1>3, <1>5, <1>6 DEF IInv, Layout

LEMMA BeginStep ==
    ASSUME IInv, BeginCall
    PROVE  IInv' /\ [Sequence!Next]_Contents
<1>1. /\ dataCount \in Nat /\ MaxLength \in Nat /\ dataCount <= MaxLength /\ Layout
      /\ Contents \in Seq(Data) /\ DOMAIN Contents = 1 .. dataCount
      /\ Len(Contents) = dataCount
  BY InvImpliesLayout, SizeAssumption, ContentsAreData DEF IInv, CallFits, Layout
<1>2. /\ \A other \in Others : other \in Seq(Data) /\ Len(other) \in Nat
      /\ \A indexes \in IndexSets : indexes \in Seq(Nat \ {0}) /\ Len(indexes) \in Nat
      /\ <<>> \in Seq(Data) /\ <<>> \in Seq(Nat \ {0})
  BY ArgumentAssumption
<1>3. CASE BeginAdd
  <2>1. PICK self \in BOOLEAN, other \in Others :
           LET n == IF self THEN dataCount ELSE Len(other) IN
           Fits(n) /\ Begin(Call("add", self, IF self THEN <<>> ELSE other, <<>>, n))
    BY <1>3 DEF BeginAdd
  <2> DEFINE n == IF self THEN dataCount ELSE Len(other)
             o == IF self THEN <<>> ELSE other
             c == Call("add", self, o, <<>>, n)
  <2>2. n \in Nat /\ o \in Seq(Data) /\ dataCount + n <= MaxLength
    BY <1>1, <1>2, <2>1 DEF Fits
  <2>3. c \in Calls /\ c.op = "add" /\ c.count = n /\ c.at = 1
    BY <1>1, <1>2, <2>2 DEF Call, Calls, Operations
  <2>4. Begin(c)
    BY <2>1
  <2> HIDE DEF n, o, c
  <2> QED
    BY <2>2, <2>3, <2>4, BeginsWell
<1>4. CASE BeginInsert
  <2>1. PICK other \in Others, indexes \in IndexSets :
           /\ Len(other) = Len(indexes) /\ Fits(Len(other))
           /\ Begin(Call("insert", FALSE, other, indexes, Len(indexes)))
    BY <1>4 DEF BeginInsert
  <2> DEFINE c == Call("insert", FALSE, other, indexes, Len(indexes))
  <2>2. /\ c \in Calls /\ c.op = "insert" /\ ~ c.self /\ c.indexes = indexes
        /\ c.other = other /\ c.count = Len(indexes) /\ c.at = 1
    BY <1>1, <1>2 DEF Call, Calls, Operations
  <2>3. dataCount + c.count <= MaxLength /\ Begin(c)
    BY <2>1, <2>2 DEF Fits
  <2> HIDE DEF c
  <2> QED
    BY <2>1, <2>2, <2>3, BeginsWell
<1>5. CASE BeginReplace
  <2>1. PICK self \in BOOLEAN, other \in Others, indexes \in IndexSets :
           Begin(Call("replace", self, IF self THEN <<>> ELSE other, indexes, Len(indexes)))
    BY <1>5 DEF BeginReplace
  <2> DEFINE o == IF self THEN <<>> ELSE other
             c == Call("replace", self, o, indexes, Len(indexes))
  <2>2. o \in Seq(Data)
    BY <1>2
  <2>3. c \in Calls /\ c.op = "replace" 
    BY <1>1, <1>2, <2>2 DEF Call, Calls, Operations
  <2>4. Begin(c)
    BY <2>1
  <2> HIDE DEF o, c
  <2> QED
    BY <2>3, <2>4, BeginsWell DEF Growing
<1>6. CASE BeginRemoveIndexes
  <2>1. PICK indexes \in IndexSets :
           Begin(Call("removeIndexes", FALSE, <<>>, indexes, Len(indexes)))
    BY <1>6 DEF BeginRemoveIndexes
  <2> DEFINE c == Call("removeIndexes", FALSE, <<>>, indexes, Len(indexes))
  <2>2. c \in Calls /\ c.op = "removeIndexes" 
    BY <1>1, <1>2 DEF Call, Calls, Operations
  <2>4. Begin(c)
    BY <2>1
  <2> HIDE DEF c
  <2> QED
    BY <2>2, <2>4, BeginsWell DEF Growing
<1>7. CASE BeginRemoveRange
  <2>1. PICK location \in 1 .. MaxLength, n \in 0 .. MaxLength :
           Begin(Call("removeRange", FALSE, <<>>, <<location>>, n))
    BY <1>7 DEF BeginRemoveRange
  <2> DEFINE c == Call("removeRange", FALSE, <<>>, <<location>>, n)
  <2>2. <<location>> \in Seq(Nat \ {0}) /\ Len(<<location>>) = 1 /\ n \in Nat
    BY <1>1
  <2>3. c \in Calls /\ c.op = "removeRange" /\ Len(c.indexes) = 1 
    BY <1>1, <1>2, <2>2 DEF Call, Calls, Operations
  <2>4. Begin(c)
    BY <2>1
  <2> HIDE DEF c
  <2> QED
    BY <2>3, <2>4, BeginsWell DEF Growing
<1>8. CASE BeginRemoveIn
  <2>1. PICK other \in Others : Begin(Call("removeIn", FALSE, other, <<>>, Len(other)))
    BY <1>8 DEF BeginRemoveIn
  <2> DEFINE c == Call("removeIn", FALSE, other, <<>>, Len(other))
  <2>2. c \in Calls /\ c.op = "removeIn" 
    BY <1>1, <1>2 DEF Call, Calls, Operations
  <2>4. Begin(c)
    BY <2>1
  <2> HIDE DEF c
  <2> QED
    BY <2>2, <2>4, BeginsWell DEF Growing
<1>9. CASE BeginEnumeration
  <2>1. PICK op \in {"enumerate", "reverse"} : Begin(Call(op, FALSE, <<>>, <<>>, dataCount))
    BY <1>9 DEF BeginEnumeration
  <2> DEFINE c == Call(op, FALSE, <<>>, <<>>, dataCount)
  <2>2. c \in Calls /\ c.op = op 
    BY <1>1, <1>2 DEF Call, Calls, Operations
  <2>4. Begin(c)
    BY <2>1
  <2>3. op \notin Growing /\ op \notin {"select", "insert", "removeRange"}
    BY DEF Growing
  <2> HIDE DEF c
  <2> QED
    BY <2>2, <2>3, <2>4, BeginsWell
<1>10. CASE BeginSet
  <2>1. PICK other \in Others :
           /\ Len(other) <= MaxLength /\ Emptied
           /\ count' = [d \in Data |-> Held(other)[d] - Occurrences(Contents, d)]
           /\ call' = Call("set", FALSE, other, <<>>, Len(other))
           /\ UNCHANGED aborted
    BY <1>10 DEF BeginSet
  <2>2. Layout' /\ dataCount' = 0 /\ Sequence!Next
    BY <1>1, <2>1, EmptiedClears, EditsAreSteps
  <2>3. count' \in [Data -> Int]
    <3>1. Held(other) \in [Data -> Int] /\ \A d \in Data : Occurrences(Contents, d) \in Int
      BY <1>1, <1>2, CountsStayNumbers, OccurrencesAreInt
    <3> QED
      BY <2>1, <3>1
  <2>4. CallFits'
    BY <1>1, <1>2, <2>1, <2>2 DEF CallFits, Call
  <2>5. TypeOK'
    BY <1>1, <1>2, <2>1, <2>2, <2>3 DEF IInv, TypeOK, Layout, Call, Operations
  <2> QED
    BY <2>2, <2>4, <2>5 DEF IInv, Layout
<1>11. CASE BeginSelect
  <2>1. PICK indexes \in IndexSets \cup {[k \in 1 .. dataCount |-> k]} :
           LET new == NewArray(Len(indexes)) IN
           /\ Len(indexes) <= MaxLength /\ \A k \in DOMAIN indexes : indexes[k] <= dataCount
           /\ items' = new.items /\ minCount' = new.minCount /\ dataCount' = 0
           /\ data' = new.data /\ chunks' = new.chunks /\ offset' = new.offset
           /\ free' = new.free
           /\ call' = Call("select", FALSE, Contents, indexes, Len(indexes))
           /\ UNCHANGED <<count, aborted>>
    BY <1>11 DEF BeginSelect
  <2>2. indexes \in Seq(Nat \ {0})
    BY <1>1, <1>2
  <2>3. Len(indexes) \in 0 .. MaxLength
    BY <1>1, <2>1, <2>2
  <2>4. chunks' = 0 /\ offset' = ItemsPerPage /\ free' = <<>>
    BY <2>1 DEF NewArray
  <2>5. Layout' /\ Sequence!Next
    BY <2>1, <2>3, <2>4, NewArrayIsEmpty, EditsAreSteps
  <2>6. \A k \in DOMAIN indexes : indexes[k] \in DOMAIN Contents
    BY <1>1, <2>1, <2>2
  <2>7. call' = Call("select", FALSE, Contents, indexes, Len(indexes)) /\ dataCount' = 0
    BY <2>1
  <2>8. CallFits'
    BY <1>1, <2>2, <2>3, <2>6, <2>7 DEF CallFits, Call
  <2>9. TypeOK'
    BY <1>1, <2>1, <2>2, <2>5, <2>7 DEF IInv, TypeOK, Layout, Call, Operations
  <2> QED
    BY <2>5, <2>8, <2>9 DEF IInv, Layout
<1> QED
  BY <1>3, <1>4, <1>5, <1>6, <1>7, <1>8, <1>9, <1>10, <1>11 DEF BeginCall

LEMMA OtherIsData ==
    ASSUME IInv
    PROVE  Other \in Seq(Data) /\ (~ call.self => Other = call.other)
BY InvImpliesLayout, ContentsAreData DEF Layout, IInv, TypeOK, Other

LEMMA NextPlaceIsACall ==
    ASSUME NEW c \in Calls, NEW n \in Nat \ {0}, NEW s \in Seq(Data)
    PROVE  /\ [c EXCEPT !.at = n] \in Calls
           /\ [c EXCEPT !.at = n, !.seen = s] \in Calls
           /\ [c EXCEPT !.at = n, !.seen = s].op = c.op
BY DEF Calls

\* One edit of a loop is done: the place left for the others is enough.
LEMMA GoesOn ==
    ASSUME IInv, Layout', count' \in [Data -> Int], Go,
           \/ dataCount' <= dataCount /\ call.op \notin Growing
           \/ dataCount' = dataCount + 1 /\ call.op \in Growing /\ call.at <= call.count
    PROVE  IInv'
<1>1. /\ dataCount \in Nat /\ dataCount' \in Nat /\ MaxLength \in Nat
      /\ call.at \in Nat \ {0} /\ call.count \in Nat /\ call \in Calls
  BY InvImpliesLayout, SizeAssumption DEF IInv, TypeOK, Layout, StoreTypeOK, Calls
<1>2. call' = [call EXCEPT !.at = @ + 1] /\ UNCHANGED aborted
  BY DEF Go
<1>3. call' \in Calls
  <2>1. call.at + 1 \in Nat \ {0} /\ <<>> \in Seq(Data)
    BY <1>1
  <2> QED
    BY <1>1, <1>2, <2>1, NextPlaceIsACall
<1>4. /\ call'.op = call.op /\ (call'.self <=> call.self) /\ call'.other = call.other
      /\ call'.indexes = call.indexes /\ call'.count = call.count /\ call'.at = call.at + 1
  BY <1>1, <1>2 DEF Calls
<1>5. CallFits'
  <2>1. dataCount' <= MaxLength
    BY <1>1 DEF IInv, CallFits
  <2>2. call.op \in Growing /\ call.at + 1 <= call.count =>
           dataCount' + call.count - (call.at + 1) < MaxLength
    BY <1>1 DEF IInv, CallFits
  <2> QED
    BY <1>4, <2>1, <2>2 DEF IInv, CallFits
<1> QED
  BY <1>2, <1>3, <1>5 DEF IInv, TypeOK, Layout, Calls

LEMMA Stops ==
    ASSUME IInv, Abort
    PROVE  IInv' /\ UNCHANGED Contents
<1>1. UNCHANGED store /\ UNCHANGED <<count, call>> /\ aborted' = TRUE
  BY DEF Abort
<1>2. Layout' /\ dataCount' = dataCount /\ UNCHANGED Contents
  BY <1>1, StoreUnchanged
<1>3. CallFits'
  BY <1>1, <1>2 DEF IInv, CallFits
<1> QED
  BY <1>1, <1>2, <1>3 DEF IInv, TypeOK, Layout

LEMMA LoopStep ==
    ASSUME IInv, MaxLength <= MaxCount, Step
    PROVE  IInv' /\ [Sequence!Next]_Contents
<1>1. /\ dataCount \in Nat /\ MaxLength \in Nat /\ dataCount <= MaxLength /\ Layout
      /\ Contents \in Seq(Data) /\ DOMAIN Contents = 1 .. dataCount
      /\ Other \in Seq(Data) /\ (~ call.self => Other = call.other)
      /\ call.at \in Nat \ {0} /\ call.count \in Nat /\ call.indexes \in Seq(Nat \ {0})
      /\ call.other \in Seq(Data) /\ call \in Calls
  BY InvImpliesLayout, SizeAssumption, ContentsAreData, OtherIsData
     DEF IInv, TypeOK, CallFits, Layout, Calls
<1>2. call.op \notin {"enumerate", "reverse"} /\ ~ Finished => call.at <= call.count
  BY <1>1 DEF Finished, Enumerating
<1>3. ASSUME NEW i \in 1 .. dataCount, RemoveData(i), Go, call.op \notin Growing
      PROVE  IInv' /\ Sequence!Next
  <2>1. Layout' /\ Sequence!Next /\ dataCount' = dataCount - 1 /\ count' \in [Data -> Int]
    BY <1>3, RemoveDataStep
  <2> QED
    BY <1>1, <1>3, <2>1, GoesOn
<1>4. CASE StepAdd
  <2>1. call.op \in Growing /\ call.at <= call.count
    BY <1>2, <1>4 DEF StepAdd, Running, Growing
  <2>2. CASE call.at \in DOMAIN Other
    <3>1. Other[call.at] \in Data /\ AddData(Other[call.at]) /\ Go
      BY <1>1, <1>4, <2>2 DEF StepAdd
    <3> QED
      BY <2>1, <3>1, AddDataStep, GoesOn
  <2>3. CASE call.at \notin DOMAIN Other
    BY <1>4, <2>3, Stops DEF StepAdd
  <2> QED
    BY <2>2, <2>3
<1>5. CASE StepSelect
  <2>1. call.op = "select" /\ call.op \in Growing /\ call.at <= call.count
    BY <1>2, <1>5 DEF StepSelect, Running, Growing
  <2>2. call.at \in DOMAIN call.indexes /\ call.indexes[call.at] \in DOMAIN Other
    BY <1>1, <2>1 DEF IInv, CallFits
  <2>3. /\ Other[call.indexes[call.at]] \in Data
        /\ AddData(Other[call.indexes[call.at]]) /\ Go
    BY <1>1, <1>5, <2>2 DEF StepSelect
  <2> QED
    BY <2>1, <2>3, AddDataStep, GoesOn
<1>6. CASE StepInsert
  <2>1. call.op = "insert" /\ call.op \in Growing /\ call.at <= call.count
    BY <1>2, <1>6 DEF StepInsert, Running, Growing
  <2> DEFINE i == call.indexes[call.at]
             d == Other[call.at]
  <2>2. i \in Nat \ {0} /\ d \in Data
    <3>1. call.at \in DOMAIN call.indexes /\ call.at \in DOMAIN Other
      BY <1>1, <2>1 DEF IInv, CallFits
    <3> QED
      BY <1>1, <3>1
  <2>3. IF MayInsertAt(i) THEN InsertData(d, i) /\ Go ELSE Abort
    BY <1>6 DEF StepInsert
  <2> HIDE DEF i, d
  <2>4. CASE MayInsertAt(i)
    BY <2>1, <2>2, <2>3, <2>4, InsertDataStep, GoesOn
  <2>5. CASE ~ MayInsertAt(i)
    BY <2>3, <2>5, Stops
  <2> QED
    BY <2>4, <2>5
<1>7. CASE StepReplace
  <2>1. call.op \notin Growing
    BY <1>7 DEF StepReplace, Running, Growing
  <2> DEFINE i == call.indexes[call.at]
  <2>2. IF i \in DOMAIN Other /\ i <= dataCount THEN ReplaceData(Other[i], i) /\ Go ELSE Abort
    BY <1>7 DEF StepReplace
  <2> HIDE DEF i
  <2>3. CASE i \in DOMAIN Other /\ i <= dataCount
    <3>1. i \in 1 .. dataCount /\ Other[i] \in Data
      BY <1>1, <2>3
    <3> QED
      BY <1>1, <2>1, <2>2, <2>3, <3>1, ReplaceDataStep, GoesOn
  <2>4. CASE ~ (i \in DOMAIN Other /\ i <= dataCount)
    BY <2>2, <2>4, Stops
  <2> QED
    BY <2>3, <2>4
<1>8. CASE StepRemoveIndex
  <2>1. call.op \notin Growing
    BY <1>8 DEF StepRemoveIndex, Running, Growing
  <2> DEFINE i == call.indexes[call.at] - (call.at - 1)
  <2>2. IF i \in 1 .. dataCount THEN RemoveData(i) /\ Go ELSE Abort
    BY <1>8 DEF StepRemoveIndex
  <2> HIDE DEF i
  <2> QED
    BY <1>3, <2>1, <2>2, Stops
<1>9. CASE StepRemoveRange
  <2>1. call.op = "removeRange" /\ call.op \notin Growing
    BY <1>9 DEF StepRemoveRange, Running, Growing
  <2> DEFINE i == call.indexes[1]
  <2>2. IF i <= dataCount THEN RemoveData(i) /\ Go ELSE Abort
    BY <1>9 DEF StepRemoveRange
  <2>3. i \in Nat \ {0}
    BY <1>1, <2>1 DEF IInv, CallFits
  <2> HIDE DEF i
  <2>4. i <= dataCount => i \in 1 .. dataCount
    BY <1>1, <2>3
  <2> QED
    BY <1>3, <2>1, <2>2, <2>4, Stops
<1>10. CASE StepRemoveIn
  <2>1. call.op \notin Growing
    BY <1>10 DEF StepRemoveIn, Running, Growing
  <2>2. /\ \/ \E i \in 1 .. dataCount : RemoveData(i)
           \/ UNCHANGED <<store, count>>
        /\ Go
    BY <1>10 DEF StepRemoveIn
  <2>3. CASE UNCHANGED <<store, count>>
    <3>1. Layout' /\ dataCount' = dataCount /\ UNCHANGED Contents
      BY <2>3, StoreUnchanged
    <3>2. count' \in [Data -> Int]
      BY <2>3 DEF IInv, TypeOK
    <3> QED
      BY <1>1, <2>1, <2>2, <3>1, <3>2, GoesOn
  <2> QED
    BY <1>3, <2>1, <2>2, <2>3
<1>11. CASE StepEnumerate
  <2> DEFINE i == IF call.op = "enumerate" THEN call.at ELSE dataCount - call.at + 1
  <2>1. call.op \in {"enumerate", "reverse"}
    BY <1>11 DEF StepEnumerate, Running
  <2>2. CASE i \notin 1 .. dataCount
    BY <1>11, <2>2, Stops DEF StepEnumerate
  <2>3. CASE i \in 1 .. dataCount
    <3>1. /\ call' = [call EXCEPT !.at = @ + 1, !.seen = Append(@, Contents[i])]
          /\ UNCHANGED aborted
          /\ \/ UNCHANGED <<store, count>>
             \/ Fits(1) /\ \E d \in Data : AddData(d)
      BY <1>11, <2>3 DEF StepEnumerate
    <3>2. Contents[i] \in Data
      BY <1>1, <2>3
    <3> HIDE DEF i
    <3>3. call' \in Calls /\ call'.op = call.op
      <4>1. call.at + 1 \in Nat \ {0} /\ Append(call.seen, Contents[i]) \in Seq(Data)
        BY <1>1, <3>2 DEF Calls
      <4> QED
        BY <1>1, <3>1, <4>1, NextPlaceIsACall
    <3>4. /\ Layout' /\ [Sequence!Next]_Contents
          /\ dataCount' <= MaxLength /\ count' \in [Data -> Int]
      <4>1. CASE UNCHANGED <<store, count>>
        <5>1. Layout' /\ dataCount' = dataCount /\ UNCHANGED Contents
          BY <4>1, StoreUnchanged
        <5>2. count' \in [Data -> Int]
          BY <4>1 DEF IInv, TypeOK
        <5> QED
          BY <1>1, <5>1, <5>2
      <4>2. CASE Fits(1) /\ \E d \in Data : AddData(d)
        BY <1>1, <4>2, AddDataStep DEF Fits
      <4> QED
        BY <3>1, <4>1, <4>2
    <3>5. CallFits'
      BY <2>1, <3>3, <3>4 DEF CallFits, Growing
    <3> QED
      BY <3>1, <3>3, <3>4, <3>5 DEF IInv, TypeOK, Layout, Calls
  <2> QED
    BY <2>2, <2>3
<1>12. CASE Return
  <2>1. /\ call' = NoCall /\ UNCHANGED store /\ UNCHANGED aborted
        /\ count' = [d \in Data |-> count[d] - Occurrences(call.other, d)]
    BY <1>12 DEF Return
  <2>2. Layout' /\ dataCount' = dataCount /\ UNCHANGED Contents
    BY <2>1, StoreUnchanged
  <2>3. count' \in [Data -> Int]
    BY <1>1, <2>1, CountsStayNumbers
  <2>4. CallFits' /\ NoCall \in Calls
    BY <1>1, <2>1, <2>2 DEF CallFits, NoCall, Growing, Calls, Operations
  <2> QED
    BY <2>1, <2>2, <2>3, <2>4 DEF IInv, TypeOK, Layout, Calls
<1> QED
  BY <1>4, <1>5, <1>6, <1>7, <1>8, <1>9, <1>10, <1>11, <1>12 DEF Step

-----------------------------------------------------------------------------
(* How often a datum occurs in an edited sequence *)

Places(s, e) == {i \in DOMAIN s : s[i] = e}

\* m is s, of n + 1 elements, without the one at i; s with another datum at i; s in another order.
WithoutPlace(s, m, n, i) ==
    /\ DOMAIN s = 1 .. n + 1 /\ DOMAIN m = 1 .. n
    /\ \A j \in 1 .. n : m[j] = IF j < i THEN s[j] ELSE s[j + 1]

WithAnother(s, m, n, i) ==
    /\ DOMAIN s = 1 .. n /\ DOMAIN m = 1 .. n
    /\ \A j \in (1 .. n) \ {i} : m[j] = s[j]

Moved(s, m, n, p) ==
    /\ DOMAIN s = 1 .. n /\ DOMAIN m = 1 .. n
    /\ p \in [1 .. n -> 1 .. n]
    /\ \A i, j \in 1 .. n : p[i] = p[j] => i = j
    /\ \A j \in 1 .. n : m[j] = s[p[j]]

LEMMA PlacesAreFinite ==
    ASSUME NEW s, NEW n \in Nat, DOMAIN s = 1 .. n, NEW e
    PROVE  /\ IsFiniteSet(Places(s, e)) /\ Places(s, e) \subseteq 1 .. n
           /\ Occurrences(s, e) = Cardinality(Places(s, e)) /\ Occurrences(s, e) \in Nat
<1>1. IsFiniteSet(1 .. n)
  BY FS_Interval
<1>2. Places(s, e) \in SUBSET (1 .. n)
  BY DEF Places
<1>3. IsFiniteSet(Places(s, e))
  BY <1>1, <1>2, FS_Subset
<1>4. Occurrences(s, e) = Cardinality(Places(s, e))
  BY DEF Occurrences, Places
<1> QED
  BY <1>2, <1>3, <1>4, FS_CardinalityType

\* Without one place there is one less.
LEMMA PlaceGone ==
    ASSUME NEW s, NEW m, NEW n \in Nat, NEW i \in 1 .. n + 1, WithoutPlace(s, m, n, i), NEW e
    PROVE  Occurrences(s, e) = Occurrences(m, e) + IF s[i] = e THEN 1 ELSE 0
<1> USE DEF WithoutPlace
<1> DEFINE S == Places(m, e)
           T == Places(s, e) \ {i}
           F == [j \in S |-> IF j < i THEN j ELSE j + 1]
<1>1. /\ IsFiniteSet(S) /\ S \subseteq 1 .. n /\ Occurrences(m, e) = Cardinality(S)
      /\ Cardinality(S) \in Nat
  BY PlacesAreFinite
<1>2. n + 1 \in Nat
  OBVIOUS
<1>3. /\ IsFiniteSet(Places(s, e)) /\ Occurrences(s, e) = Cardinality(Places(s, e))
      /\ Cardinality(Places(s, e)) \in Nat
  BY <1>2, PlacesAreFinite
<1>4. \A j \in S : j \in 1 .. n /\ m[j] = e
  BY DEF Places
<1>5. \A j \in T : j \in 1 .. n + 1 /\ s[j] = e /\ j # i
  BY DEF Places
<1>6. F \in [S -> T]
  <2> SUFFICES ASSUME NEW j \in S
               PROVE  (IF j < i THEN j ELSE j + 1) \in T
    OBVIOUS
  <2>1. j \in 1 .. n /\ m[j] = e
    BY <1>4
  <2>2. CASE j < i
    BY <2>1, <2>2 DEF Places
  <2>3. CASE ~ (j < i)
    BY <2>1, <2>3 DEF Places
  <2> QED
    BY <2>2, <2>3
<1>7. \A a, b \in S : F[a] = F[b] => a = b
  BY <1>4
<1>8. \A k \in T : \E j \in S : F[j] = k
  <2> SUFFICES ASSUME NEW k \in T
               PROVE  \E j \in S : F[j] = k
    OBVIOUS
  <2>1. k \in 1 .. n + 1 /\ s[k] = e /\ k # i
    BY <1>5
  <2>2. CASE k < i
    <3>1. k \in 1 .. n /\ m[k] = e
      BY <2>1, <2>2
    <3>2. k \in S
      BY <3>1 DEF Places
    <3> QED
      BY <2>2, <3>2
  <2>3. CASE ~ (k < i)
    <3>1. k - 1 \in 1 .. n /\ ~ (k - 1 < i) /\ (k - 1) + 1 = k
      BY <2>1, <2>3
    <3>2. m[k - 1] = e
      BY <2>1, <3>1
    <3>3. k - 1 \in S
      BY <3>1, <3>2 DEF Places
    <3> QED
      BY <3>1, <3>3
  <2> QED
    BY <2>2, <2>3
<1>9. F \in Bijection(S, T)
  <2> HIDE DEF F, S, T
  <2> QED
    BY <1>6, <1>7, <1>8 DEF Bijection, Injection, IsInjective, Surjection
<1>10. Cardinality(T) = Cardinality(S)
  <2>1. ExistsBijection(S, T)
    BY <1>9 DEF ExistsBijection
  <2> HIDE DEF S, T
  <2> QED
    BY <1>1, <2>1, FS_Bijection
<1>11. Cardinality(T) = IF i \in Places(s, e) THEN Cardinality(Places(s, e)) - 1
                        ELSE Cardinality(Places(s, e))
  BY <1>3, FS_RemoveElement
<1>12. i \in Places(s, e) <=> s[i] = e
  BY DEF Places
<1> QED
  BY <1>1, <1>3, <1>10, <1>11, <1>12

\* With another datum at one place
LEMMA PlaceTaken ==
    ASSUME NEW s, NEW m, NEW n \in Nat, NEW i \in 1 .. n, WithAnother(s, m, n, i), NEW e
    PROVE  Occurrences(m, e) + (IF s[i] = e THEN 1 ELSE 0)
             = Occurrences(s, e) + (IF m[i] = e THEN 1 ELSE 0)
<1> USE DEF WithAnother
<1>1. /\ IsFiniteSet(Places(s, e)) /\ Occurrences(s, e) = Cardinality(Places(s, e))
      /\ IsFiniteSet(Places(m, e)) /\ Occurrences(m, e) = Cardinality(Places(m, e))
      /\ Cardinality(Places(s, e)) \in Nat /\ Cardinality(Places(m, e)) \in Nat
  BY PlacesAreFinite
<1>2. Places(s, e) \ {i} = Places(m, e) \ {i}
  BY DEF Places
<1>3. Cardinality(Places(s, e) \ {i}) = IF i \in Places(s, e) THEN Cardinality(Places(s, e)) - 1
                                        ELSE Cardinality(Places(s, e))
  BY <1>1, FS_RemoveElement
<1>4. Cardinality(Places(m, e) \ {i}) = IF i \in Places(m, e) THEN Cardinality(Places(m, e)) - 1
                                        ELSE Cardinality(Places(m, e))
  BY <1>1, FS_RemoveElement
<1>5. (i \in Places(s, e) <=> s[i] = e) /\ (i \in Places(m, e) <=> m[i] = e)
  BY DEF Places
<1>6. Cardinality(Places(s, e) \ {i}) = Cardinality(Places(m, e) \ {i})
  BY <1>2
<1>7. /\ Cardinality(Places(s, e)) - (IF s[i] = e THEN 1 ELSE 0)
           = Cardinality(Places(m, e)) - (IF m[i] = e THEN 1 ELSE 0)
  <2>1. Cardinality(Places(s, e) \ {i}) = Cardinality(Places(s, e)) - (IF s[i] = e THEN 1 ELSE 0)
    BY <1>1, <1>3, <1>5
  <2>2. Cardinality(Places(m, e) \ {i}) = Cardinality(Places(m, e)) - (IF m[i] = e THEN 1 ELSE 0)
    BY <1>1, <1>4, <1>5
  <2> QED
    BY <1>6, <2>1, <2>2
<1> QED
  BY <1>1, <1>7

\* In another order
LEMMA PlacesMoved ==
    ASSUME NEW s, NEW m, NEW n \in Nat, NEW p, Moved(s, m, n, p), NEW e
    PROVE  Occurrences(m, e) = Occurrences(s, e)
<1> USE DEF Moved
<1>1. /\ IsFiniteSet(Places(s, e)) /\ Occurrences(s, e) = Cardinality(Places(s, e))
      /\ IsFiniteSet(Places(m, e)) /\ Occurrences(m, e) = Cardinality(Places(m, e))
  BY PlacesAreFinite
<1>2. \A k \in 1 .. n : \E j \in 1 .. n : p[j] = k
  <2>1. p \in Injection(1 .. n, 1 .. n)
    BY DEF Injection, IsInjective
  <2>2. IsFiniteSet(1 .. n)
    BY FS_Interval
  <2>3. p \in Surjection(1 .. n, 1 .. n)
    BY <2>1, <2>2, FS_Injection
  <2> QED
    BY <2>3 DEF Surjection
<1> DEFINE S == Places(m, e)
           T == Places(s, e)
           F == [j \in S |-> p[j]]
<1>3. \A j \in 1 .. n : j \in S <=> p[j] \in T
  BY DEF Places
<1>4. S \subseteq 1 .. n /\ T \subseteq 1 .. n
  BY DEF Places
<1>5. F \in [S -> T] /\ (\A a, b \in S : F[a] = F[b] => a = b) /\ (\A k \in T : \E j \in S : F[j] = k)
  <2> HIDE DEF S, T
  <2>1. F \in [S -> T]
    BY <1>3, <1>4
  <2>2. \A j \in S : F[j] = p[j]
    OBVIOUS
  <2> HIDE DEF F
  <2>3. \A a, b \in S : F[a] = F[b] => a = b
    BY <1>4, <2>2
  <2>4. ASSUME NEW k \in T
        PROVE  \E j \in S : F[j] = k
    <3>1. PICK j \in 1 .. n : p[j] = k
      BY <1>2, <1>4
    <3> QED
      BY <1>3, <2>2, <3>1
  <2> QED
    BY <2>1, <2>3, <2>4
<1>6. F \in Bijection(S, T)
  <2> HIDE DEF F, S, T
  <2> QED
    BY <1>5 DEF Bijection, Injection, IsInjective, Surjection
<1>7. Cardinality(T) = Cardinality(S)
  <2>1. ExistsBijection(S, T)
    BY <1>6 DEF ExistsBijection
  <2> HIDE DEF S, T
  <2>2. IsFiniteSet(S)
    BY <1>1 DEF S
  <2> QED
    BY <2>1, <2>2, FS_Bijection
<1> QED
  BY <1>1, <1>7

-----------------------------------------------------------------------------
(* Each edit counts what it does to the sequence *)

Balanced ==
    \A e \in Data : count'[e] - count[e] = Occurrences(Contents', e) - Occurrences(Contents, e)

LEMMA InsertBalances ==
    ASSUME IInv, Layout', NEW d \in Data, NEW i \in 1 .. dataCount + 1, Sequence!Insert(d, i),
           count' = [count EXCEPT ![d] = @ + 1]
    PROVE  Balanced
<1>1. /\ dataCount \in Nat /\ count \in [Data -> Int] /\ Contents \in Seq(Data)
      /\ Len(Contents) = dataCount /\ DOMAIN Contents = 1 .. dataCount
  BY InvImpliesLayout, ContentsAreData DEF Layout, IInv, TypeOK
<1> SUFFICES ASSUME NEW e \in Data
             PROVE  count'[e] - count[e] = Occurrences(Contents', e) - Occurrences(Contents, e)
  BY DEF Balanced
<1>2. PICK s, m : s = Contents' /\ m = Contents
  OBVIOUS
<1>3. s = [j \in 1 .. dataCount + 1 |-> IF j < i THEN m[j] ELSE IF j = i THEN d ELSE m[j - 1]]
  BY <1>1, <1>2 DEF Sequence!Insert
<1>4. DOMAIN s = 1 .. dataCount + 1 /\ DOMAIN m = 1 .. dataCount /\ s[i] = d
  BY <1>1, <1>2, <1>3
<1>5. ASSUME NEW j \in 1 .. dataCount
      PROVE  m[j] = IF j < i THEN s[j] ELSE s[j + 1]
  <2>1. j \in 1 .. dataCount + 1 /\ j + 1 \in 1 .. dataCount + 1 /\ (j + 1) - 1 = j
    BY <1>1
  <2> QED
    BY <1>1, <1>3, <2>1
<1>6. Occurrences(s, e) = Occurrences(m, e) + IF s[i] = e THEN 1 ELSE 0
  <2>1. WithoutPlace(s, m, dataCount, i)
    BY <1>4, <1>5 DEF WithoutPlace
  <2> QED
    BY <1>1, <2>1, PlaceGone
<1>7. Occurrences(m, e) \in Nat
  BY <1>1, <1>4, PlacesAreFinite
<1>8. count'[e] = count[e] + (IF d = e THEN 1 ELSE 0) /\ count[e] \in Int
  BY <1>1
<1> QED
  BY <1>2, <1>4, <1>6, <1>7, <1>8

LEMMA AddDataBalances ==
    ASSUME IInv, NEW d \in Data, AddData(d)
    PROVE  Balanced
<1>1. dataCount + 1 \in 1 .. dataCount + 1 /\ Layout' /\ Sequence!Insert(d, dataCount + 1)
  BY InvImpliesLayout, AddDataInserts
<1>2. count' = [count EXCEPT ![d] = @ + 1]
  BY DEF AddData, Retain
<1> QED
  BY <1>1, <1>2, InsertBalances

LEMMA InsertDataBalances ==
    ASSUME IInv, NEW d \in Data, NEW i \in Nat \ {0}, MayInsertAt(i), InsertData(d, i)
    PROVE  Balanced
<1>1. Layout' /\ Sequence!Insert(d, i)
  BY InvImpliesLayout, InsertDataInserts
<1>2. i \in 1 .. dataCount + 1
  BY InvImpliesLayout DEF MayInsertAt
<1>3. count' = [count EXCEPT ![d] = @ + 1]
  BY DEF InsertData, AddData, InsertItem, Retain
<1> QED
  BY <1>1, <1>2, <1>3, InsertBalances

LEMMA AddSortedBalances ==
    ASSUME IInv, NEW d \in Data, AddSorted(d)
    PROVE  Balanced
<1>1. Layout' /\ \E i \in 1 .. dataCount + 1 : Sequence!Insert(d, i)
  BY InvImpliesLayout, AddSortedInserts
<1>2. count' = [count EXCEPT ![d] = @ + 1]
  BY DEF AddSorted, AddData, InsertItem, Retain
<1> QED
  BY <1>1, <1>2, InsertBalances

LEMMA ReplaceDataBalances ==
    ASSUME IInv, NEW d \in Data, NEW i \in 1 .. dataCount, ReplaceData(d, i)
    PROVE  Balanced
<1>1. /\ dataCount \in Nat /\ count \in [Data -> Int] /\ Contents \in Seq(Data)
      /\ Len(Contents) = dataCount /\ DOMAIN Contents = 1 .. dataCount /\ Contents[i] \in Data
  BY InvImpliesLayout, ContentsAreData DEF Layout, IInv, TypeOK
<1>2. Sequence!Replace(d, i)
  BY InvImpliesLayout, ReplaceDataReplaces
<1> SUFFICES ASSUME NEW e \in Data
             PROVE  count'[e] - count[e] = Occurrences(Contents', e) - Occurrences(Contents, e)
  BY DEF Balanced
<1>3. PICK s, m, old : s = Contents /\ m = Contents' /\ old = data[items[i]]
  OBVIOUS
<1>4. s[i] = old /\ old \in Data
  BY <1>1, <1>3 DEF Contents
<1>5. m = [s EXCEPT ![i] = d] /\ DOMAIN s = 1 .. dataCount
  BY <1>1, <1>2, <1>3 DEF Sequence!Replace
<1>6. DOMAIN m = 1 .. dataCount /\ m[i] = d /\ \A j \in (1 .. dataCount) \ {i} : m[j] = s[j]
  BY <1>5
<1>7. Occurrences(m, e) + (IF s[i] = e THEN 1 ELSE 0)
        = Occurrences(s, e) + (IF m[i] = e THEN 1 ELSE 0)
  <2>1. WithAnother(s, m, dataCount, i)
    BY <1>5, <1>6 DEF WithAnother
  <2> QED
    BY <1>1, <2>1, PlaceTaken
<1>8. Occurrences(m, e) \in Nat /\ Occurrences(s, e) \in Nat
  BY <1>1, <1>5, <1>6, PlacesAreFinite
<1>9. count' = [[count EXCEPT ![d] = @ + 1] EXCEPT ![old] = @ - 1]
  BY <1>3 DEF ReplaceData
<1>10. count'[e] = count[e] + (IF d = e THEN 1 ELSE 0) - (IF old = e THEN 1 ELSE 0)
       /\ count[e] \in Int
  <2>1. PICK c \in [Data -> Int] : c = [count EXCEPT ![d] = @ + 1]
    <3>1. [count EXCEPT ![d] = @ + 1] \in [Data -> Int]
      BY <1>1
    <3> QED
      BY <3>1
  <2>2. c[e] = count[e] + (IF d = e THEN 1 ELSE 0) /\ count[e] \in Int
    BY <1>1, <2>1
  <2>3. count' = [c EXCEPT ![old] = @ - 1]
    BY <1>9, <2>1
  <2>4. count'[e] = c[e] - (IF old = e THEN 1 ELSE 0)
    BY <1>4, <2>1, <2>3
  <2> QED
    BY <2>2, <2>4
<1> QED
  BY <1>3, <1>4, <1>6, <1>7, <1>8, <1>10

LEMMA RemoveDataBalances ==
    ASSUME IInv, MaxLength <= MaxCount, NEW i \in 1 .. dataCount, RemoveData(i)
    PROVE  Balanced
<1>1. /\ dataCount \in Nat /\ count \in [Data -> Int] /\ Contents \in Seq(Data)
      /\ Len(Contents) = dataCount /\ DOMAIN Contents = 1 .. dataCount /\ Contents[i] \in Data
      /\ dataCount <= MaxCount
  BY InvImpliesLayout, ContentsAreData, SizeAssumption DEF Layout, IInv, TypeOK, CallFits
<1>2. Sequence!Delete(i)
  BY <1>1, InvImpliesLayout, RemoveDataDeletes
<1> SUFFICES ASSUME NEW e \in Data
             PROVE  count'[e] - count[e] = Occurrences(Contents', e) - Occurrences(Contents, e)
  BY DEF Balanced
<1>3. PICK s, m, old, n : s = Contents /\ m = Contents' /\ old = data[items[i]] /\ n = dataCount - 1
  OBVIOUS
<1>4. s[i] = old /\ old \in Data
  BY <1>1, <1>3 DEF Contents
<1>5. n \in Nat /\ dataCount = n + 1
  BY <1>1, <1>3
<1>6. m = [j \in 1 .. n |-> IF j < i THEN s[j] ELSE s[j + 1]]
  BY <1>1, <1>2, <1>3 DEF Sequence!Delete
<1>7. DOMAIN m = 1 .. n /\ DOMAIN s = 1 .. n + 1 /\ i \in 1 .. n + 1
      /\ \A j \in 1 .. n : m[j] = IF j < i THEN s[j] ELSE s[j + 1]
  BY <1>1, <1>3, <1>5, <1>6
<1>8. Occurrences(s, e) = Occurrences(m, e) + IF s[i] = e THEN 1 ELSE 0
  <2>1. WithoutPlace(s, m, n, i)
    BY <1>7 DEF WithoutPlace
  <2> QED
    BY <1>5, <1>7, <2>1, PlaceGone
<1>9. Occurrences(m, e) \in Nat
  BY <1>5, <1>7, PlacesAreFinite
<1>10. count' = [count EXCEPT ![old] = @ - 1]
  BY <1>3 DEF RemoveData, Release
<1>11. count'[e] = count[e] - (IF old = e THEN 1 ELSE 0) /\ count[e] \in Int
  BY <1>1, <1>4, <1>10
<1> QED
  BY <1>3, <1>4, <1>8, <1>9, <1>11

\* Nothing is counted when the data change places.
LEMMA ReorderBalances ==
    ASSUME IInv, Sequence!Reorder, UNCHANGED count
    PROVE  Balanced
<1>1. /\ dataCount \in Nat /\ count \in [Data -> Int] /\ Contents \in Seq(Data)
      /\ Len(Contents) = dataCount /\ DOMAIN Contents = 1 .. dataCount
  BY InvImpliesLayout, ContentsAreData DEF Layout, IInv, TypeOK
<1>2. PICK p \in Sequence!Permutations(dataCount) :
          Contents' = [j \in 1 .. dataCount |-> Contents[p[j]]]
  BY <1>1 DEF Sequence!Reorder
<1>3. p \in [1 .. dataCount -> 1 .. dataCount] /\ \A i, j \in 1 .. dataCount : p[i] = p[j] => i = j
  BY <1>2 DEF Sequence!Permutations
<1> SUFFICES ASSUME NEW e \in Data
             PROVE  count'[e] - count[e] = Occurrences(Contents', e) - Occurrences(Contents, e)
  BY DEF Balanced
<1>4. PICK s, m : s = Contents /\ m = Contents'
  OBVIOUS
<1>5. DOMAIN s = 1 .. dataCount /\ DOMAIN m = 1 .. dataCount /\ \A j \in 1 .. dataCount : m[j] = s[p[j]]
  BY <1>1, <1>2, <1>4
<1>6. Occurrences(m, e) = Occurrences(s, e)
  <2>1. Moved(s, m, dataCount, p)
    BY <1>3, <1>5 DEF Moved
  <2> QED
    BY <1>1, <2>1, PlacesMoved
<1>7. Occurrences(s, e) \in Nat /\ count[e] \in Int
  BY <1>1, <1>5, PlacesAreFinite
<1> QED
  BY <1>4, <1>6, <1>7

LEMMA NothingOccurs == \A e : Occurrences(<<>>, e) = 0
<1> SUFFICES ASSUME NEW e
             PROVE  Occurrences(<<>>, e) = 0
  OBVIOUS
<1>1. {i \in DOMAIN <<>> : <<>>[i] = e} = {}
  OBVIOUS
<1> QED
  BY <1>1, FS_EmptySet DEF Occurrences

-----------------------------------------------------------------------------
(* Every step counts what it does                                           *)

LEMMA ContentsThen ==
    ASSUME IInv'
    PROVE  Contents' \in Seq(Data) /\ count' \in [Data -> Int] /\ call'.other \in Seq(Data)
<1>1. StoreTypeOK' /\ ItemsInPlace'
  BY DEF IInv, TypeOK
<1>2. \A i \in 1 .. dataCount' : items'[i] \in Used' /\ items'[i] \in DOMAIN data'
  BY <1>1 DEF ItemsInPlace, Used
<1>3. \A i \in 1 .. dataCount' : data'[items'[i]] \in Data
  BY <1>1, <1>2 DEF StoreTypeOK
<1>4. Contents' = [i \in 1 .. dataCount' |-> data'[items'[i]]] /\ dataCount' \in Nat
  BY <1>1 DEF Contents, StoreTypeOK
<1>5. Contents' \in Seq(Data)
  BY <1>3, <1>4
<1> QED
  BY <1>5 DEF IInv, TypeOK

LEMMA EditsAreCounted ==
    ASSUME IInv, IInv', CountsMembers, Balanced, call'.other = call.other
    PROVE  CountsMembers'
<1> SUFFICES ASSUME NEW d \in Data
             PROVE  count'[d] = Occurrences(Contents', d) + Occurrences(call'.other, d)
  BY DEF CountsMembers
<1>1. /\ Contents \in Seq(Data) /\ count[d] \in Int /\ call.other \in Seq(Data)
      /\ Contents' \in Seq(Data) /\ count'[d] \in Int
  BY InvImpliesLayout, ContentsAreData, ContentsThen DEF Layout, IInv, TypeOK
<1>2. /\ Occurrences(Contents, d) \in Int /\ Occurrences(Contents', d) \in Int
      /\ Occurrences(call.other, d) \in Int
  BY <1>1, OccurrencesAreInt
<1>3. count[d] = Occurrences(Contents, d) + Occurrences(call.other, d)
  BY DEF CountsMembers
<1>4. count'[d] - count[d] = Occurrences(Contents', d) - Occurrences(Contents, d)
  BY DEF Balanced
<1>5. Occurrences(call'.other, d) = Occurrences(call.other, d)
  OBVIOUS
<1>6. PICK n, m, s, t, o \in Int :
          /\ n = count[d] /\ m = count'[d] /\ o = Occurrences(call.other, d)
          /\ s = Occurrences(Contents, d) /\ t = Occurrences(Contents', d)
  BY <1>1, <1>2
<1>7. n = s + o /\ m - n = t - s
  BY <1>3, <1>4, <1>6
<1>8. m = t + o
  BY <1>7
<1> QED
  BY <1>5, <1>6, <1>8

LEMMA NothingIsCounted ==
    ASSUME IInv, UNCHANGED <<store, count>>
    PROVE  Balanced
<1>1. UNCHANGED Contents /\ UNCHANGED count
  BY StoreUnchanged
<1>2. \A d \in Data : Occurrences(Contents, d) \in Int /\ count[d] \in Int
  BY InvImpliesLayout, ContentsAreData, OccurrencesAreInt DEF Layout, IInv, TypeOK
<1> QED
  BY <1>1, <1>2 DEF Balanced

LEMMA ClearBalances ==
    ASSUME IInv, Contents' = <<>>,
           count' = [d \in Data |-> count[d] - Occurrences(Contents, d)]
    PROVE  Balanced
<1>1. \A d \in Data : Occurrences(Contents, d) \in Int /\ count[d] \in Int
  BY InvImpliesLayout, ContentsAreData, OccurrencesAreInt DEF Layout, IInv, TypeOK
<1>2. \A d \in Data : Occurrences(Contents', d) = 0
  BY NothingOccurs
<1> QED
  BY <1>1, <1>2 DEF Balanced

LEMMA ClientCounts ==
    ASSUME IInv, IInv', MaxLength <= MaxCount, CountsMembers, Client
    PROVE  CountsMembers'
<1>1. dataCount \in Nat /\ MaxLength \in Nat /\ Layout
  BY InvImpliesLayout, SizeAssumption
<1>2. call' = call
  BY DEF Client, ClientAdd, ClientAddSorted, ClientInsert, ClientReplace, ClientRemoveAt,
         ClientRemove, ClientRemoveLast, ClientRemoveAll, ClientSort, ClientReverse
<1> SUFFICES Balanced
  BY <1>2, EditsAreCounted
<1>3. ASSUME NEW d \in Data, ClientAdd(d) PROVE Balanced
  BY <1>3, AddDataBalances DEF ClientAdd
<1>4. ASSUME NEW d \in Data, ClientAddSorted(d) PROVE Balanced
  BY <1>4, AddSortedBalances DEF ClientAddSorted
<1>5. ASSUME NEW d \in Data, NEW i \in 1 .. MaxLength, ClientInsert(d, i) PROVE Balanced
  <2>1. i \in Nat \ {0} /\ MayInsertAt(i) /\ InsertData(d, i)
    BY <1>1, <1>5 DEF ClientInsert
  <2> QED
    BY <2>1, InsertDataBalances
<1>6. ASSUME NEW d \in Data, NEW i \in 1 .. MaxLength, ClientReplace(d, i) PROVE Balanced
  <2>1. i \in 1 .. dataCount /\ ReplaceData(d, i)
    BY <1>1, <1>6 DEF ClientReplace
  <2> QED
    BY <2>1, ReplaceDataBalances
<1>7. ASSUME NEW i \in 1 .. MaxLength, ClientRemoveAt(i) PROVE Balanced
  <2>1. i \in 1 .. dataCount /\ RemoveData(i)
    BY <1>1, <1>7 DEF ClientRemoveAt
  <2> QED
    BY <2>1, RemoveDataBalances
<1>8. ASSUME NEW d \in Data, ClientRemove(d) PROVE Balanced
  <2>1. PICK i \in 1 .. dataCount : RemoveData(i)
    BY <1>8 DEF ClientRemove
  <2> QED
    BY <2>1, RemoveDataBalances
<1>9. ASSUME ClientRemoveLast PROVE Balanced
  <2>1. dataCount \in 1 .. dataCount /\ RemoveData(dataCount)
    BY <1>1, <1>9 DEF ClientRemoveLast
  <2> QED
    BY <2>1, RemoveDataBalances
<1>10. ASSUME ClientRemoveAll PROVE Balanced
  <2>1. Emptied /\ count' = [d \in Data |-> count[d] - Occurrences(Contents, d)]
    BY <1>10 DEF ClientRemoveAll
  <2>2. Contents' = <<>>
    BY <1>1, <2>1, EmptiedClears DEF Sequence!Clear
  <2> QED
    BY <2>1, <2>2, ClearBalances
<1>11. ASSUME ClientSort PROVE Balanced
  <2>1. UNCHANGED count
    BY <1>11 DEF ClientSort
  <2> QED
    BY <1>1, <1>11, <2>1, SortReorders, ReorderBalances
<1>12. ASSUME ClientReverse PROVE Balanced
  <2>1. UNCHANGED count
    BY <1>12 DEF ClientReverse
  <2> QED
    BY <1>1, <1>12, <2>1, ReverseReorders, ReorderBalances
<1> QED
  BY <1>3, <1>4, <1>5, <1>6, <1>7, <1>8, <1>9, <1>10, <1>11, <1>12 DEF Client

\* A loop begins: its other array retains what it has.
LEMMA BeginCounts ==
    ASSUME IInv, CountsMembers, call = NoCall, NEW c, Begin(c), c.other \in Seq(Data),
           c.self => c.other = <<>>
    PROVE  CountsMembers'
<1>1. call' = c /\ count' = (IF c.self THEN count ELSE Held(c.other)) /\ UNCHANGED store
  BY DEF Begin
<1>2. UNCHANGED Contents
  BY <1>1, StoreUnchanged
<1> SUFFICES ASSUME NEW d \in Data
             PROVE  count'[d] = Occurrences(Contents, d) + Occurrences(c.other, d)
  BY <1>1, <1>2 DEF CountsMembers
<1>3. Occurrences(Contents, d) \in Int /\ Occurrences(c.other, d) \in Int /\ count[d] \in Int
  BY InvImpliesLayout, ContentsAreData, OccurrencesAreInt DEF Layout, IInv, TypeOK
<1>4. count[d] = Occurrences(Contents, d)
  <2>1. count[d] = Occurrences(Contents, d) + Occurrences(call.other, d)
    BY DEF CountsMembers
  <2>2. Occurrences(call.other, d) = 0
    BY NothingOccurs DEF NoCall
  <2> QED
    BY <1>3, <2>1, <2>2
<1>5. CASE c.self
  <2>1. Occurrences(c.other, d) = 0 /\ count' = count
    BY <1>1, <1>5, NothingOccurs
  <2> QED
    BY <1>3, <1>4, <2>1
<1>6. CASE ~ c.self
  <2>1. count'[d] = count[d] + Occurrences(c.other, d)
    BY <1>1, <1>6 DEF Held
  <2> QED
    BY <1>3, <1>4, <2>1
<1> QED
  BY <1>5, <1>6

LEMMA BeginCallCounts ==
    ASSUME IInv, CountsMembers, BeginCall
    PROVE  CountsMembers'
<1>1. /\ call = NoCall /\ Layout /\ Contents \in Seq(Data)
  BY InvImpliesLayout, ContentsAreData DEF BeginCall, Ready, Layout
<1>2. <<>> \in Seq(Data) /\ \A s \in Others : s \in Seq(Data)
  BY ArgumentAssumption
<1>3. ASSUME NEW op, NEW self, NEW o \in Seq(Data), NEW ix, NEW n, self => o = <<>>,
             Begin(Call(op, self, o, ix, n))
      PROVE  CountsMembers'
  <2> DEFINE c == Call(op, self, o, ix, n)
  <2>1. c.self = self /\ c.other = o
    BY DEF Call
  <2>2. Begin(c)
    BY <1>3
  <2> HIDE DEF c
  <2> QED
    BY <1>1, <1>3, <2>1, <2>2, BeginCounts
<1>4. CASE BeginAdd
  <2>1. PICK self \in BOOLEAN, other \in Others :
           Begin(Call("add", self, IF self THEN <<>> ELSE other, <<>>,
                      IF self THEN dataCount ELSE Len(other)))
    BY <1>4 DEF BeginAdd
  <2>2. PICK o \in Seq(Data) : o = IF self THEN <<>> ELSE other
    BY <1>2
  <2>3. Begin(Call("add", self, o, <<>>, IF self THEN dataCount ELSE Len(other)))
    BY <2>1, <2>2
  <2> QED
    BY <1>3, <2>2, <2>3
<1>5. CASE BeginInsert
  BY <1>2, <1>3, <1>5 DEF BeginInsert
<1>6. CASE BeginReplace
  <2>1. PICK self \in BOOLEAN, other \in Others, indexes \in IndexSets :
           Begin(Call("replace", self, IF self THEN <<>> ELSE other, indexes, Len(indexes)))
    BY <1>6 DEF BeginReplace
  <2>2. PICK o \in Seq(Data) : o = IF self THEN <<>> ELSE other
    BY <1>2
  <2>3. Begin(Call("replace", self, o, indexes, Len(indexes)))
    BY <2>1, <2>2
  <2> QED
    BY <1>3, <2>2, <2>3
<1>7. CASE BeginRemoveIndexes
  BY <1>2, <1>3, <1>7 DEF BeginRemoveIndexes
<1>8. CASE BeginRemoveRange
  BY <1>2, <1>3, <1>8 DEF BeginRemoveRange
<1>9. CASE BeginRemoveIn
  BY <1>2, <1>3, <1>9 DEF BeginRemoveIn
<1>10. CASE BeginEnumeration
  BY <1>2, <1>3, <1>10 DEF BeginEnumeration
<1>11. \A d \in Data : /\ Occurrences(Contents, d) \in Int /\ count[d] \in Int
                       /\ count[d] = Occurrences(Contents, d)
  <2> SUFFICES ASSUME NEW d \in Data
               PROVE  /\ Occurrences(Contents, d) \in Int /\ count[d] \in Int
                      /\ count[d] = Occurrences(Contents, d)
    OBVIOUS
  <2>1. Occurrences(Contents, d) \in Int /\ count[d] \in Int
    BY <1>1, OccurrencesAreInt DEF IInv, TypeOK
  <2>2. count[d] = Occurrences(Contents, d) + Occurrences(call.other, d)
    BY DEF CountsMembers
  <2>3. Occurrences(call.other, d) = 0
    BY <1>1, NothingOccurs DEF NoCall
  <2> QED
    BY <2>1, <2>2, <2>3
<1>12. CASE BeginSet
  <2>1. PICK other \in Others :
           /\ Emptied
           /\ count' = [d \in Data |-> Held(other)[d] - Occurrences(Contents, d)]
           /\ call' = Call("set", FALSE, other, <<>>, Len(other))
    BY <1>12 DEF BeginSet
  <2>2. Contents' = <<>> /\ call'.other = other
    BY <1>1, <2>1, EmptiedClears DEF Sequence!Clear, Call
  <2> SUFFICES ASSUME NEW d \in Data
               PROVE  count'[d] = Occurrences(Contents', d) + Occurrences(other, d)
    BY <2>2 DEF CountsMembers
  <2>3. Occurrences(Contents', d) = 0 /\ Occurrences(other, d) \in Int
    BY <1>2, <2>2, NothingOccurs, OccurrencesAreInt
  <2>4. Held(other)[d] = count[d] + Occurrences(other, d)
    BY DEF Held
  <2>5. count'[d] = Held(other)[d] - Occurrences(Contents, d)
    BY <2>1
  <2>6. PICK n, o \in Int : n = Occurrences(Contents, d) /\ o = Occurrences(other, d)
    BY <1>11, <2>3
  <2>7. Held(other)[d] = n + o
    BY <1>11, <2>4, <2>6
  <2>8. count'[d] = o
    BY <2>5, <2>6, <2>7
  <2>9. Occurrences(Contents', d) + Occurrences(other, d) = o
    BY <2>3, <2>6
  <2> QED
    BY <2>8, <2>9
<1>13. CASE BeginSelect
  <2>1. PICK indexes \in IndexSets \cup {[k \in 1 .. dataCount |-> k]} :
           /\ dataCount' = 0 /\ UNCHANGED count
           /\ call' = Call("select", FALSE, Contents, indexes, Len(indexes))
    BY <1>13 DEF BeginSelect
  <2>2. Contents' = <<>> /\ call'.other = Contents
    BY <2>1 DEF Contents, Call
  <2> SUFFICES ASSUME NEW d \in Data
               PROVE  count'[d] = Occurrences(Contents', d) + Occurrences(Contents, d)
    BY <2>2 DEF CountsMembers
  <2>3. Occurrences(Contents', d) = 0
    BY <2>2, NothingOccurs
  <2> QED
    BY <1>11, <2>1, <2>3
<1> QED
  BY <1>4, <1>5, <1>6, <1>7, <1>8, <1>9, <1>10, <1>12, <1>13 DEF BeginCall

LEMMA LoopCounts ==
    ASSUME IInv, IInv', MaxLength <= MaxCount, CountsMembers, Step
    PROVE  CountsMembers'
<1>1. /\ dataCount \in Nat /\ Layout /\ DOMAIN Contents = 1 .. dataCount
      /\ Other \in Seq(Data) /\ (~ call.self => Other = call.other)
      /\ call.at \in Nat \ {0} /\ call.count \in Nat /\ call.indexes \in Seq(Nat \ {0})
      /\ call \in Calls
  BY InvImpliesLayout, ContentsAreData, OtherIsData DEF IInv, TypeOK, Layout, Calls
<1>2. call.op \notin {"enumerate", "reverse"} /\ ~ Finished => call.at <= call.count
  BY <1>1 DEF Finished, Enumerating
<1>3. Go => call'.other = call.other
  BY <1>1 DEF Go, Calls
<1>4. ASSUME Go, Balanced
      PROVE  CountsMembers'
  BY <1>3, <1>4, EditsAreCounted
<1>5. ASSUME Abort
      PROVE  CountsMembers'
  <2>1. Balanced /\ call' = call
    BY <1>5, NothingIsCounted DEF Abort
  <2> QED
    BY <2>1, EditsAreCounted
<1>6. CASE StepAdd
  <2>1. CASE call.at \in DOMAIN Other
    <3>1. Other[call.at] \in Data /\ AddData(Other[call.at]) /\ Go
      BY <1>1, <1>6, <2>1 DEF StepAdd
    <3> QED
      BY <1>4, <3>1, AddDataBalances
  <2>2. CASE call.at \notin DOMAIN Other
    BY <1>5, <1>6, <2>2 DEF StepAdd
  <2> QED
    BY <2>1, <2>2
<1>7. CASE StepSelect
  <2>1. call.op = "select" /\ call.at <= call.count
    BY <1>2, <1>7 DEF StepSelect, Running
  <2>2. call.at \in DOMAIN call.indexes /\ call.indexes[call.at] \in DOMAIN Other
    BY <1>1, <2>1 DEF IInv, CallFits
  <2>3. /\ Other[call.indexes[call.at]] \in Data
        /\ AddData(Other[call.indexes[call.at]]) /\ Go
    BY <1>1, <1>7, <2>2 DEF StepSelect
  <2> QED
    BY <1>4, <2>3, AddDataBalances
<1>8. CASE StepInsert
  <2>1. call.op = "insert" /\ call.at <= call.count
    BY <1>2, <1>8 DEF StepInsert, Running
  <2> DEFINE i == call.indexes[call.at]
             d == Other[call.at]
  <2>2. i \in Nat \ {0} /\ d \in Data
    <3>1. call.at \in DOMAIN call.indexes /\ call.at \in DOMAIN Other
      BY <1>1, <2>1 DEF IInv, CallFits
    <3> QED
      BY <1>1, <3>1
  <2>3. IF MayInsertAt(i) THEN InsertData(d, i) /\ Go ELSE Abort
    BY <1>8 DEF StepInsert
  <2> HIDE DEF i, d
  <2>4. CASE MayInsertAt(i)
    BY <1>4, <2>2, <2>3, <2>4, InsertDataBalances
  <2>5. CASE ~ MayInsertAt(i)
    BY <1>5, <2>3, <2>5
  <2> QED
    BY <2>4, <2>5
<1>9. CASE StepReplace
  <2> DEFINE i == call.indexes[call.at]
  <2>1. IF i \in DOMAIN Other /\ i <= dataCount THEN ReplaceData(Other[i], i) /\ Go ELSE Abort
    BY <1>9 DEF StepReplace
  <2> HIDE DEF i
  <2>2. CASE i \in DOMAIN Other /\ i <= dataCount
    <3>1. i \in 1 .. dataCount /\ Other[i] \in Data
      BY <1>1, <2>2
    <3> QED
      BY <1>4, <2>1, <2>2, <3>1, ReplaceDataBalances
  <2>3. CASE ~ (i \in DOMAIN Other /\ i <= dataCount)
    BY <1>5, <2>1, <2>3
  <2> QED
    BY <2>2, <2>3
<1>10. ASSUME NEW i \in 1 .. dataCount, RemoveData(i), Go
       PROVE  CountsMembers'
  BY <1>4, <1>10, RemoveDataBalances
<1>11. CASE StepRemoveIndex
  <2> DEFINE i == call.indexes[call.at] - (call.at - 1)
  <2>1. IF i \in 1 .. dataCount THEN RemoveData(i) /\ Go ELSE Abort
    BY <1>11 DEF StepRemoveIndex
  <2> HIDE DEF i
  <2> QED
    BY <1>5, <1>10, <2>1
<1>12. CASE StepRemoveRange
  <2>1. call.op = "removeRange"
    BY <1>12 DEF StepRemoveRange, Running
  <2> DEFINE i == call.indexes[1]
  <2>2. IF i <= dataCount THEN RemoveData(i) /\ Go ELSE Abort
    BY <1>12 DEF StepRemoveRange
  <2>3. i \in Nat \ {0}
    BY <1>1, <2>1 DEF IInv, CallFits
  <2> HIDE DEF i
  <2>4. i <= dataCount => i \in 1 .. dataCount
    BY <1>1, <2>3
  <2> QED
    BY <1>5, <1>10, <2>2, <2>4
<1>13. CASE StepRemoveIn
  <2>1. /\ \/ \E i \in 1 .. dataCount : RemoveData(i)
           \/ UNCHANGED <<store, count>>
        /\ Go
    BY <1>13 DEF StepRemoveIn
  <2>2. CASE UNCHANGED <<store, count>>
    BY <1>4, <2>1, <2>2, NothingIsCounted
  <2> QED
    BY <1>10, <2>1, <2>2
<1>14. CASE StepEnumerate
  <2> DEFINE i == IF call.op = "enumerate" THEN call.at ELSE dataCount - call.at + 1
  <2>1. CASE i \notin 1 .. dataCount
    BY <1>5, <1>14, <2>1 DEF StepEnumerate
  <2>2. CASE i \in 1 .. dataCount
    <3>1. /\ call' = [call EXCEPT !.at = @ + 1, !.seen = Append(@, Contents[i])]
          /\ \/ UNCHANGED <<store, count>>
             \/ \E d \in Data : AddData(d)
      BY <1>14, <2>2 DEF StepEnumerate
    <3> HIDE DEF i
    <3>2. call'.other = call.other
      BY <1>1, <3>1 DEF Calls
    <3>3. Balanced
      BY <3>1, NothingIsCounted, AddDataBalances
    <3> QED
      BY <3>2, <3>3, EditsAreCounted
  <2> QED
    BY <2>1, <2>2
<1>15. CASE Return
  <2>1. /\ call' = NoCall /\ UNCHANGED store
        /\ count' = [d \in Data |-> count[d] - Occurrences(call.other, d)]
    BY <1>15 DEF Return
  <2>2. UNCHANGED Contents
    BY <2>1, StoreUnchanged
  <2> SUFFICES ASSUME NEW d \in Data
               PROVE  count'[d] = Occurrences(Contents, d) + Occurrences(call'.other, d)
    BY <2>2 DEF CountsMembers
  <2>3. Contents \in Seq(Data) /\ call.other \in Seq(Data) /\ count[d] \in Int
    BY <1>1, ContentsAreData DEF Layout, IInv, TypeOK
  <2>4. Occurrences(Contents, d) \in Int /\ Occurrences(call.other, d) \in Int
    BY <2>3, OccurrencesAreInt
  <2>5. Occurrences(call'.other, d) = 0
    BY <2>1, NothingOccurs DEF NoCall
  <2>6. count[d] = Occurrences(Contents, d) + Occurrences(call.other, d)
    BY DEF CountsMembers
  <2>7. count'[d] = count[d] - Occurrences(call.other, d)
    BY <2>1
  <2>8. PICK s, o \in Int : s = Occurrences(Contents, d) /\ o = Occurrences(call.other, d)
    BY <2>4
  <2>9. count'[d] = s
    BY <2>6, <2>7, <2>8
  <2> QED
    BY <2>5, <2>8, <2>9
<1> QED
  BY <1>6, <1>7, <1>8, <1>9, <1>11, <1>12, <1>13, <1>14, <1>15 DEF Step

-----------------------------------------------------------------------------
(* The theorems *)

LEMMA InvInit == Init => IInv /\ Sequence!Init
<1> SUFFICES ASSUME Init PROVE IInv /\ Sequence!Init
  OBVIOUS
<1>1. 0 \in 0 .. MaxLength /\ 0 <= MaxLength
  BY SizeAssumption
<1>2. /\ Capacity[0] \in Nat \ {0} /\ items = [i \in 1 .. Capacity[0] |-> Nil]
      /\ minCount = Capacity[0] /\ data = <<>> /\ chunks = 0 /\ offset = ItemsPerPage
      /\ free = <<>> /\ dataCount = 0 /\ count = [d \in Data |-> 0]
      /\ call = NoCall /\ aborted = FALSE
  BY <1>1, SizeAssumption DEF Init, NewArray
<1>3. DOMAIN data = {} /\ Used = {} /\ Range(free) = {} /\ DOMAIN free = {}
  BY <1>2 DEF Used, Range
<1>4. items \in Seq((Nat \X Nat) \cup {Nil}) /\ 0 <= Len(items)
  BY <1>2
<1>5. ItemsInPlace /\ Cut
  BY <1>2, <1>3, <1>4 DEF ItemsInPlace, Cut
<1>6. StoreTypeOK
  BY <1>2, <1>3, <1>4, SizeAssumption DEF StoreTypeOK
<1>7. CallFits
  BY <1>1, <1>2 DEF CallFits, NoCall, Growing
<1>8. NoCall \in Calls
  <2>1. <<>> \in Seq(Data) /\ <<>> \in Seq(Nat \ {0})
    OBVIOUS
  <2> QED
    BY <2>1 DEF NoCall, Calls, Operations
<1>9. TypeOK
  <2>1. count \in [Data -> Int]
    BY <1>2
  <2>2. aborted \in BOOLEAN
    BY <1>2
  <2>3. call \in Calls
    BY <1>2, <1>8
  <2> QED
    BY <1>6, <2>1, <2>2, <2>3 DEF TypeOK, Calls
<1>10. Sequence!Init
  BY <1>2 DEF Sequence!Init, Contents
<1> QED
  BY <1>5, <1>7, <1>9, <1>10 DEF IInv

LEMMA InvStep ==
    ASSUME MaxLength <= MaxCount
    PROVE  IInv /\ [Next]_vars => IInv' /\ [Sequence!Next]_Contents
<1> SUFFICES ASSUME IInv, [Next]_vars PROVE IInv' /\ [Sequence!Next]_Contents
  OBVIOUS
<1>1. CASE Client \/ BeginCall \/ Step
  BY <1>1, ClientStep, BeginStep, LoopStep
<1>2. CASE UNCHANGED vars
  <2>1. UNCHANGED store /\ UNCHANGED <<count, call, aborted>>
    BY <1>2 DEF vars
  <2>2. Layout' /\ dataCount' = dataCount /\ UNCHANGED Contents
    BY <2>1, StoreUnchanged
  <2>3. CallFits'
    BY <2>1, <2>2 DEF IInv, CallFits
  <2> QED
    BY <2>1, <2>2, <2>3 DEF IInv, TypeOK, Layout
<1> QED
  BY <1>1, <1>2 DEF Next

\* Every variable keeps its type, through every edit, loop and failed assertion.
THEOREM TypeCorrect == ASSUME MaxLength <= MaxCount PROVE Spec => []TypeOK
<1>1. IInv => TypeOK
  BY DEF IInv
<1> QED
  BY <1>1, InvInit, InvStep, PTL DEF Spec

\* In an array that never gets longer than _WI_ARRAY_MAX_COUNT, the vector is always
\* long enough, no two places share an item, and every item that was cut from a
\* chunk is in use or on the free list, once.
THEOREM ItemsStayInPlace == ASSUME MaxLength <= MaxCount PROVE Spec => []ItemsInPlace
<1>1. IInv => ItemsInPlace
  BY DEF IInv
<1> QED
  BY <1>1, InvInit, InvStep, PTL DEF Spec

\* Such an array is a sequence of data that each step edits at one place, empties
\* or permutes.
THEOREM ImplementsSequence == ASSUME MaxLength <= MaxCount PROVE Spec => Implements
BY InvInit, InvStep, PTL DEF Spec, Implements, Sequence!Spec

LEMMA CountsStep ==
    ASSUME MaxLength <= MaxCount
    PROVE  IInv /\ CountsMembers /\ [Next]_vars => CountsMembers'
<1> SUFFICES ASSUME IInv, CountsMembers, [Next]_vars PROVE CountsMembers'
  OBVIOUS
<1>1. IInv'
  BY InvStep
<1>2. CASE UNCHANGED vars
  <2>1. Balanced /\ call' = call
    BY <1>2, NothingIsCounted DEF vars
  <2> QED
    BY <1>1, <2>1, EditsAreCounted
<1> QED
  BY <1>1, <1>2, ClientCounts, BeginCallCounts, LoopCounts DEF Next

\* However an array is edited, sorted, copied or added to itself, and whatever loops run
\* over it, it retains each datum once for each place the datum has, and the other
\* array of the call that runs does, too.
THEOREM CountsAlwaysAgree == ASSUME MaxLength <= MaxCount PROVE Spec => []CountsMembers
<1>1. Init => CountsMembers
  <2> SUFFICES ASSUME Init, NEW d \in Data
               PROVE  count[d] = Occurrences(Contents, d) + Occurrences(call.other, d)
    BY DEF CountsMembers
  <2>1. Contents = <<>> /\ call.other = <<>> /\ count[d] = 0
    BY DEF Init, Contents, NoCall
  <2> QED
    BY <2>1, NothingOccurs
<1> QED
  BY <1>1, InvInit, InvStep, CountsStep, PTL DEF Spec

\* What wi_mutable_array_add_data_sorted does to a sorted array, whose length it does
\* not change otherwise
LEMMA AddedInOrder ==
    ASSUME IInv, NEW d \in Data, AddSorted(d), Sorted(Contents)
    PROVE  /\ Sorted(Contents')
           /\ \E i \in DOMAIN Contents' :
                 /\ Contents'[i] = d
                 /\ \A j \in DOMAIN Contents' : Value[Contents'[j]] = Value[d] => j <= i
<1>1. /\ dataCount \in Nat /\ Layout /\ Contents \in Seq(Data) /\ DOMAIN Contents = 1 .. dataCount
      /\ Len(Contents) = dataCount
  BY InvImpliesLayout, ContentsAreData DEF Layout
<1>2. PICK i \in 1 .. dataCount + 1 :
        /\ \A j \in 1 .. i - 1 : Value[Contents[j]] <= Value[d]
        /\ i <= dataCount => Value[d] < Value[Contents[i]]
        /\ IF i <= dataCount THEN InsertItem(d, i) ELSE AddData(d)
  BY DEF AddSorted
<1>3. Sequence!Insert(d, i)
  <2>1. CASE i <= dataCount
    BY <1>1, <1>2, <2>1, InsertItemInserts
  <2>2. CASE ~ (i <= dataCount)
    <3>1. i = dataCount + 1
      BY <1>1, <1>2, <2>2
    <3> QED
      BY <1>1, <1>2, <2>2, <3>1, AddDataInserts
  <2> QED
    BY <2>1, <2>2
<1>4. PICK s, m : s = Contents' /\ m = Contents
  OBVIOUS
<1>5. s = [j \in 1 .. dataCount + 1 |-> IF j < i THEN m[j] ELSE IF j = i THEN d ELSE m[j - 1]]
  BY <1>1, <1>3, <1>4 DEF Sequence!Insert
<1>6. /\ \A j \in 1 .. dataCount : m[j] \in Data
      /\ \A j, k \in 1 .. dataCount : j < k => Value[m[j]] <= Value[m[k]]
  BY <1>1, <1>4 DEF Sorted
<1>7. \A e \in Data : Value[e] \in Int
  BY DataAssumption
<1>8. ASSUME NEW j \in 1 .. dataCount, ~ (j < i)
      PROVE  Value[d] < Value[m[j]]
  <2>1. i \in 1 .. dataCount /\ Value[d] < Value[m[i]]
    BY <1>1, <1>2, <1>4, <1>8
  <2>2. Value[m[i]] <= Value[m[j]]
    <3>1. i = j \/ i < j
      BY <1>1, <1>8
    <3> QED
      BY <1>6, <1>7, <2>1, <3>1
  <2> QED
    BY <1>6, <1>7, <2>1, <2>2
<1>9. ASSUME NEW j \in 1 .. dataCount, j < i
      PROVE  Value[m[j]] <= Value[d]
  BY <1>1, <1>2, <1>4, <1>9
<1>10. ASSUME NEW j \in 1 .. dataCount + 1
       PROVE  /\ j < i => j \in 1 .. dataCount /\ s[j] = m[j]
              /\ j = i => s[j] = d
              /\ j > i => j - 1 \in 1 .. dataCount /\ ~ (j - 1 < i) /\ s[j] = m[j - 1]
  BY <1>1, <1>2, <1>5
<1>11. ASSUME NEW j \in 1 .. dataCount + 1, NEW k \in 1 .. dataCount + 1, j < k
       PROVE  Value[s[j]] <= Value[s[k]]
  <2>1. CASE k < i
    <3>1. j < i /\ s[k] = m[k] /\ k \in 1 .. dataCount
      BY <1>1, <1>10, <1>11, <2>1
    <3>2. s[j] = m[j] /\ j \in 1 .. dataCount
      BY <1>10, <3>1
    <3> QED
      BY <1>6, <1>11, <3>1, <3>2
  <2>2. CASE k = i
    <3>1. s[j] = m[j] /\ j \in 1 .. dataCount /\ s[k] = d /\ j < i
      BY <1>10, <1>11, <2>2
    <3> QED
      BY <1>9, <3>1
  <2>3. CASE k > i
    <3>1. k - 1 \in 1 .. dataCount /\ ~ (k - 1 < i) /\ s[k] = m[k - 1]
      BY <1>10, <2>3
    <3>2. Value[d] < Value[s[k]]
      BY <1>8, <3>1
    <3>3. CASE j < i
      <4>1. s[j] = m[j] /\ j \in 1 .. dataCount /\ j < k - 1
        BY <1>1, <1>10, <2>3, <3>3
      <4> QED
        BY <1>6, <3>1, <4>1
    <3>4. CASE j = i
      <4>1. s[j] = d
        BY <1>10, <3>4
      <4>2. Value[d] \in Int /\ Value[s[k]] \in Int
        BY <1>6, <1>7, <3>1
      <4> QED
        BY <3>2, <4>1, <4>2
    <3>5. CASE j > i
      <4>1. s[j] = m[j - 1] /\ j - 1 \in 1 .. dataCount /\ j - 1 < k - 1
        BY <1>1, <1>10, <1>11, <3>5
      <4> QED
        BY <1>6, <3>1, <4>1
    <3> QED
      BY <1>1, <3>3, <3>4, <3>5
  <2> QED
    BY <1>1, <2>1, <2>2, <2>3
<1>12. DOMAIN s = 1 .. dataCount + 1
  BY <1>5
<1>13. Sorted(s)
  BY <1>11, <1>12 DEF Sorted
<1>14. s[i] = d /\ i \in DOMAIN s
  BY <1>10, <1>12
<1>15. ASSUME NEW j \in DOMAIN s, Value[s[j]] = Value[d]
       PROVE  j <= i
  <2> SUFFICES ASSUME j > i PROVE FALSE
    BY <1>1, <1>12
  <2>1. j - 1 \in 1 .. dataCount /\ ~ (j - 1 < i) /\ s[j] = m[j - 1]
    BY <1>10, <1>12
  <2>2. Value[d] < Value[s[j]] /\ Value[d] \in Int
    BY <1>7, <1>8, <2>1
  <2> QED
    BY <1>15, <2>2
<1> QED
  BY <1>4, <1>13, <1>14, <1>15

\* wi_mutable_array_add_data_sorted keeps a sorted array sorted, and puts what is equal
\* to others behind them.
THEOREM AddingKeepsOrder == ASSUME MaxLength <= MaxCount PROVE Spec => SortedStaysSorted
<1> DEFINE InOrder == \A d \in Data : ClientAddSorted(d) /\ Sorted(Contents) =>
                          /\ Sorted(Contents')
                          /\ \E i \in DOMAIN Contents' :
                                /\ Contents'[i] = d
                                /\ \A j \in DOMAIN Contents' :
                                      Value[Contents'[j]] = Value[d] => j <= i
<1>1. IInv /\ [Next]_vars => [InOrder]_vars
  BY AddedInOrder DEF ClientAddSorted
<1> QED
  BY <1>1, InvInit, InvStep, PTL DEF Spec, SortedStaysSorted

-----------------------------------------------------------------------------
(* Sequences without some of their places *)

LEMMA LeastNumber ==
    ASSUME NEW S \in SUBSET Nat, S # {}
    PROVE  \E n \in S : \A m \in S : n <= m
<1> DEFINE Less == {x \in Nat \X Nat : x[1] < x[2]}
<1>1. IsWellFoundedOn(Less, Nat)
  BY NatLessThanWellFounded DEF OpToRel
<1>2. \A m, n \in Nat : <<m, n>> \in Less <=> m < n
  OBVIOUS
<1> HIDE DEF Less
<1>3. PICK n \in S : \A m \in S : ~ (<<m, n>> \in Less)
  BY <1>1, WFMin
<1>4. ASSUME NEW m \in S
      PROVE  n <= m
  <2>1. m \in Nat /\ n \in Nat /\ ~ (m < n)
    BY <1>2, <1>3
  <2> QED
    BY <2>1
<1> QED
  BY <1>4

LEMMA GreatestPlace ==
    ASSUME NEW n \in Nat, NEW S \in SUBSET (0 .. n), S # {}
    PROVE  \E m \in S : \A k \in S : k <= m
<1> DEFINE T == {n - k : k \in S}
<1>1. T \in SUBSET Nat /\ T # {}
  <2>1. \A k \in S : k \in 0 .. n /\ n - k \in Nat
    OBVIOUS
  <2> QED
    BY <2>1
<1>2. PICK l \in T : \A m \in T : l <= m
  <2> HIDE DEF T
  <2> QED
    BY <1>1, LeastNumber
<1>3. PICK m \in S : l = n - m
  BY <1>2
<1>4. \A k \in S : n - k \in T /\ n - m <= n - k
  BY <1>2, <1>3
<1> QED
  BY <1>4

\* One place more goes.
LEMMA OneGoes ==
    ASSUME NEW t, NEW u, NEW s, NEW S, NEW p, NEW n \in Nat, NEW i \in 1 .. n + 1,
           DOMAIN s \subseteq Nat, WithoutPlace(t, u, n, i), Keeps(p, t, s, S)
    PROVE  Keeps([k \in 1 .. n |-> p[IF k < i THEN k ELSE k + 1]], u, s, S \cup {p[i]})
<1> DEFINE q == [k \in 1 .. n |-> p[IF k < i THEN k ELSE k + 1]]
<1>1. /\ DOMAIN t = 1 .. n + 1 /\ DOMAIN u = 1 .. n
      /\ \A j \in 1 .. n : u[j] = IF j < i THEN t[j] ELSE t[j + 1]
  BY DEF WithoutPlace
<1>2. /\ \A k \in 1 .. n + 1 : p[k] \in DOMAIN s \ S /\ p[k] \in Nat /\ t[k] = s[p[k]]
      /\ \A j, k \in 1 .. n + 1 : j < k => p[j] < p[k]
      /\ \A j \in DOMAIN s \ S : \E k \in 1 .. n + 1 : p[k] = j
  BY <1>1 DEF Keeps
<1>3. \A k \in 1 .. n : /\ (IF k < i THEN k ELSE k + 1) \in (1 .. n + 1) \ {i}
                        /\ q[k] = p[IF k < i THEN k ELSE k + 1]
  OBVIOUS
<1>4. \A k \in (1 .. n + 1) \ {i} : p[k] # p[i]
  BY <1>2
<1>5. q \in [DOMAIN u -> DOMAIN s \ (S \cup {p[i]})]
  <2>1. \A k \in 1 .. n : p[IF k < i THEN k ELSE k + 1] \in DOMAIN s \ (S \cup {p[i]})
    BY <1>2, <1>3, <1>4
  <2> QED
    BY <1>1, <2>1
<1>6. ASSUME NEW j \in DOMAIN u, NEW k \in DOMAIN u, j < k
      PROVE  q[j] < q[k]
  <2>1. (IF j < i THEN j ELSE j + 1) < (IF k < i THEN k ELSE k + 1)
    BY <1>1, <1>6
  <2> QED
    BY <1>1, <1>2, <1>3, <2>1
<1>7. ASSUME NEW j \in DOMAIN s \ (S \cup {p[i]})
      PROVE  \E k \in DOMAIN u : q[k] = j
  <2>1. PICK k \in 1 .. n + 1 : p[k] = j
    BY <1>2
  <2>2. k # i
    BY <2>1
  <2>3. CASE k < i
    <3>1. k \in 1 .. n /\ q[k] = p[k]
      BY <2>3
    <3> QED
      BY <1>1, <2>1, <3>1
  <2>4. CASE k > i
    <3>1. k - 1 \in 1 .. n /\ ~ (k - 1 < i) /\ (k - 1) + 1 = k
      BY <2>4
    <3>2. q[k - 1] = p[k]
      BY <1>3, <3>1
    <3> QED
      BY <1>1, <2>1, <3>1, <3>2
  <2> QED
    BY <2>2, <2>3, <2>4
<1>8. \A j \in DOMAIN u : u[j] = s[q[j]]
  BY <1>1, <1>2, <1>3
<1> HIDE DEF q
<1>9. Keeps(q, u, s, S \cup {p[i]})
  BY <1>5, <1>6, <1>7, <1>8 DEF Keeps
<1> QED
  BY <1>9 DEF q

\* What was there keeps its places when one more comes behind those that came.
LEMMA OneComes ==
    ASSUME NEW b, NEW s, NEW u, NEW S, NEW p, NEW n \in Nat, NEW i \in 1 .. n + 1,
           DOMAIN b \subseteq Nat, S \subseteq 1 .. i - 1, WithoutPlace(u, s, n, i), Keeps(p, b, s, S)
    PROVE  IsWithout(b, u, S \cup {i})
<1> DEFINE q == [k \in DOMAIN b |-> IF p[k] < i THEN p[k] ELSE p[k] + 1]
<1>1. /\ DOMAIN u = 1 .. n + 1 /\ DOMAIN s = 1 .. n
      /\ \A j \in 1 .. n : s[j] = IF j < i THEN u[j] ELSE u[j + 1]
  BY DEF WithoutPlace
<1>2. /\ \A k \in DOMAIN b : p[k] \in 1 .. n /\ p[k] \notin S /\ b[k] = s[p[k]]
      /\ \A j, k \in DOMAIN b : j < k => p[j] < p[k]
      /\ \A j \in (1 .. n) \ S : \E k \in DOMAIN b : p[k] = j
  BY <1>1 DEF Keeps
<1>3. \A j \in 1 .. n : j \notin S => (IF j < i THEN j ELSE j + 1) \in (1 .. n + 1) \ (S \cup {i})
  OBVIOUS
<1>4. q \in [DOMAIN b -> DOMAIN u \ (S \cup {i})]
  <2>1. \A k \in DOMAIN b : (IF p[k] < i THEN p[k] ELSE p[k] + 1) \in (1 .. n + 1) \ (S \cup {i})
    BY <1>2, <1>3
  <2> QED
    BY <1>1, <2>1
<1>5. \A k \in DOMAIN b : q[k] = IF p[k] < i THEN p[k] ELSE p[k] + 1
  OBVIOUS
<1>6. \A j, k \in DOMAIN b : j < k => q[j] < q[k]
  <2> HIDE DEF q
  <2> SUFFICES ASSUME NEW j \in DOMAIN b, NEW k \in DOMAIN b, j < k
               PROVE  q[j] < q[k]
    OBVIOUS
  <2>1. p[j] \in 1 .. n /\ p[k] \in 1 .. n /\ p[j] < p[k]
    BY <1>2
  <2> QED
    BY <1>5, <2>1
<1>7. ASSUME NEW j \in DOMAIN u \ (S \cup {i})
      PROVE  \E k \in DOMAIN b : q[k] = j
  <2> HIDE DEF q
  <2>1. CASE j < i
    <3>1. j \in (1 .. n) \ S
      BY <1>1, <1>7, <2>1
    <3>2. PICK k \in DOMAIN b : p[k] = j
      BY <1>2, <3>1
    <3> QED
      BY <1>5, <2>1, <3>2
  <2>2. CASE j > i
    <3>1. j - 1 \in (1 .. n) \ S /\ ~ (j - 1 < i) /\ (j - 1) + 1 = j
      BY <1>1, <1>7, <2>2
    <3>2. PICK k \in DOMAIN b : p[k] = j - 1
      BY <1>2, <3>1
    <3> QED
      BY <1>5, <3>1, <3>2
  <2> QED
    BY <1>1, <1>7, <2>1, <2>2
<1>8. \A k \in DOMAIN b : b[k] = u[q[k]]
  <2> HIDE DEF q
  <2> QED
    BY <1>1, <1>2, <1>5
<1> HIDE DEF q
<1>9. Keeps(q, b, u, S \cup {i})
  BY <1>4, <1>6, <1>7, <1>8 DEF Keeps
<1> QED
  BY <1>4, <1>9 DEF IsWithout

\* Of the places with one value, the first that is not matched is the one that one more
\* datum of that value matches.
Counted(b, w) == {k \in DOMAIN b : Value[b[k]] = w}

Upto(a, i) == {j \in 1 .. i : Value[a[j]] = Value[a[i]]}

LEMMA RanksGrow ==
    ASSUME NEW a, NEW n \in Nat, DOMAIN a = 1 .. n, NEW i \in 1 .. n
    PROVE  /\ IsFiniteSet(Upto(a, i)) /\ Cardinality(Upto(a, i)) \in Nat
           /\ \A j \in 1 .. i - 1 :
                 /\ Value[a[j]] = Value[a[i]] => Cardinality(Upto(a, j)) + 1 <= Cardinality(Upto(a, i))
                 /\ /\ Value[a[j]] = Value[a[i]]
                    /\ \A k \in 1 .. i - 1 : Value[a[k]] = Value[a[i]] => k <= j
                    => Cardinality(Upto(a, i)) = Cardinality(Upto(a, j)) + 1
           /\ (\A k \in 1 .. i - 1 : Value[a[k]] # Value[a[i]]) => Cardinality(Upto(a, i)) = 1
<1>1. \A j \in 1 .. n : IsFiniteSet(Upto(a, j)) /\ Cardinality(Upto(a, j)) \in Nat
  <2> SUFFICES ASSUME NEW j \in 1 .. n
               PROVE  IsFiniteSet(Upto(a, j)) /\ Cardinality(Upto(a, j)) \in Nat
    OBVIOUS
  <2>1. IsFiniteSet(1 .. j) /\ Upto(a, j) \in SUBSET (1 .. j)
    BY FS_Interval DEF Upto
  <2> QED
    BY <2>1, FS_Subset, FS_CardinalityType
<1>2. i \in Upto(a, i)
  BY DEF Upto
<1>3. Cardinality(Upto(a, i) \ {i}) = Cardinality(Upto(a, i)) - 1 /\ IsFiniteSet(Upto(a, i) \ {i})
  BY <1>1, <1>2, FS_RemoveElement
<1>4. ASSUME NEW j \in 1 .. i - 1, Value[a[j]] = Value[a[i]]
      PROVE  Cardinality(Upto(a, j)) + 1 <= Cardinality(Upto(a, i))
  <2>1. Upto(a, j) \in SUBSET (Upto(a, i) \ {i})
    BY <1>4 DEF Upto
  <2>2. Cardinality(Upto(a, j)) <= Cardinality(Upto(a, i) \ {i})
    BY <1>3, <2>1, FS_Subset
  <2>3. j \in 1 .. n
    OBVIOUS
  <2> QED
    BY <1>1, <1>3, <2>2, <2>3
<1>5. ASSUME NEW j \in 1 .. i - 1, Value[a[j]] = Value[a[i]],
             \A k \in 1 .. i - 1 : Value[a[k]] = Value[a[i]] => k <= j
      PROVE  Cardinality(Upto(a, i)) = Cardinality(Upto(a, j)) + 1
  <2>1. Upto(a, j) = Upto(a, i) \ {i}
    BY <1>5 DEF Upto
  <2> QED
    BY <1>1, <1>3, <2>1
<1>6. ASSUME \A k \in 1 .. i - 1 : Value[a[k]] # Value[a[i]]
      PROVE  Cardinality(Upto(a, i)) = 1
  <2>1. Upto(a, i) = {i}
    BY <1>6 DEF Upto
  <2> QED
    BY <2>1, FS_Singleton
<1> QED
  BY <1>1, <1>4, <1>5, <1>6

\* c is b with one datum more, d.
Extends(c, b, n, d) ==
    /\ DOMAIN b = 1 .. n /\ DOMAIN c = 1 .. n + 1 /\ c[n + 1] = d
    /\ \A k \in 1 .. n : c[k] = b[k]

LEMMA OneMoreIsCounted ==
    ASSUME NEW b, NEW c, NEW n \in Nat, NEW d, Extends(c, b, n, d), NEW w
    PROVE  /\ Cardinality(Counted(b, w)) \in Nat
           /\ Cardinality(Counted(c, w)) = Cardinality(Counted(b, w)) + IF Value[d] = w THEN 1 ELSE 0
<1>1. /\ DOMAIN b = 1 .. n /\ DOMAIN c = 1 .. n + 1 /\ c[n + 1] = d
      /\ \A k \in 1 .. n : c[k] = b[k]
  BY DEF Extends
<1>2. IsFiniteSet(1 .. n) /\ Counted(b, w) \in SUBSET (1 .. n)
  BY <1>1, FS_Interval DEF Counted
<1>3. IsFiniteSet(Counted(b, w)) /\ Cardinality(Counted(b, w)) \in Nat
  BY <1>2, FS_Subset, FS_CardinalityType
<1>4. CASE Value[d] = w
  <2>1. Counted(c, w) = Counted(b, w) \cup {n + 1} /\ n + 1 \notin Counted(b, w)
    BY <1>1, <1>4 DEF Counted
  <2> QED
    BY <1>3, <1>4, <2>1, FS_AddElement
<1>5. CASE Value[d] # w
  <2>1. Counted(c, w) = Counted(b, w)
    BY <1>1, <1>5 DEF Counted
  <2> QED
    BY <1>3, <1>5, <2>1
<1> QED
  BY <1>3, <1>4, <1>5

LEMMA MatchedIs ==
    ASSUME NEW a, NEW b
    PROVE  Matched(a, b)
             = {i \in DOMAIN a : Cardinality(Upto(a, i)) <= Cardinality(Counted(b, Value[a[i]]))}
BY DEF Matched, Upto, Counted

\* The first place of a with value v outside S, and that there is none
IsFirst(a, S, v, i) ==
    /\ i \in DOMAIN a \ S /\ Value[a[i]] = v
    /\ \A j \in DOMAIN a \ S : Value[a[j]] = v => i <= j

NoneIsLeft(a, S, v) == \A i \in DOMAIN a \ S : Value[a[i]] # v

LEMMA NextIsMatched ==
    ASSUME NEW a, NEW n \in Nat, DOMAIN a = 1 .. n, NEW b, NEW c, NEW m \in Nat, NEW d,
           Extends(c, b, m, d)
    PROVE  /\ \A i \in 1 .. n : IsFirst(a, Matched(a, b), Value[d], i)
                                   => Matched(a, c) = Matched(a, b) \cup {i}
           /\ NoneIsLeft(a, Matched(a, b), Value[d]) => Matched(a, c) = Matched(a, b)
<1> DEFINE S == Matched(a, b)
           rank(i) == Cardinality(Upto(a, i))
           limit(w) == Cardinality(Counted(b, w))
           more(w) == Cardinality(Counted(c, w))
<1>1. \A i \in 1 .. n : rank(i) \in Nat
  BY RanksGrow
<1>2. \A w : limit(w) \in Nat /\ more(w) = limit(w) + IF Value[d] = w THEN 1 ELSE 0
  BY OneMoreIsCounted
<1>3. \A i \in 1 .. n : /\ i \in S <=> rank(i) <= limit(Value[a[i]])
                        /\ i \in Matched(a, c) <=> rank(i) <= more(Value[a[i]])
  BY MatchedIs
<1>4. S \subseteq 1 .. n /\ Matched(a, c) \subseteq 1 .. n
  BY MatchedIs
<1>5. \A i \in 1 .. n, j \in 1 .. n : j < i /\ Value[a[j]] = Value[a[i]] => rank(j) + 1 <= rank(i)
  BY RanksGrow
<1> HIDE DEF S, rank, limit, more
<1>6. \A i \in 1 .. n : i \in S => i \in Matched(a, c)
  BY <1>1, <1>2, <1>3
<1>7. \A i \in 1 .. n : Value[a[i]] # Value[d] => (i \in S <=> i \in Matched(a, c))
  BY <1>1, <1>2, <1>3
<1>8. ASSUME NEW i \in 1 .. n, IsFirst(a, S, Value[d], i)
      PROVE  Matched(a, c) = S \cup {i}
  <2>1. i \notin S /\ Value[a[i]] = Value[d] /\ \A j \in (1 .. n) \ S : Value[a[j]] = Value[d] => i <= j
    BY <1>8 DEF IsFirst
  <2>2. rank(i) > limit(Value[d]) /\ rank(i) \in Nat /\ limit(Value[d]) \in Nat
    BY <1>1, <1>2, <1>3, <2>1
  <2>3. rank(i) <= limit(Value[d]) + 1
    <3> DEFINE J == {j \in 1 .. i - 1 : Value[a[j]] = Value[d]}
    <3>1. CASE J = {}
      <4>1. \A k \in 1 .. i - 1 : Value[a[k]] # Value[a[i]]
        BY <2>1, <3>1
      <4>2. rank(i) = 1
        BY <4>1, RanksGrow DEF rank
      <4> QED
        BY <2>2, <4>2
    <3>2. CASE J # {}
      <4>1. J \in SUBSET (0 .. n)
        OBVIOUS
      <4>2. PICK j \in J : \A k \in J : k <= j
        <5> HIDE DEF J
        <5> QED
          BY <3>2, <4>1, GreatestPlace
      <4>3. /\ j \in 1 .. i - 1 /\ j \in 1 .. n /\ Value[a[j]] = Value[a[i]]
            /\ \A k \in 1 .. i - 1 : Value[a[k]] = Value[a[i]] => k <= j
        BY <2>1, <4>2
      <4>4. rank(i) = rank(j) + 1
        BY <4>3, RanksGrow DEF rank
      <4>5. j \in S
        BY <2>1, <4>3
      <4>6. rank(j) <= limit(Value[d]) /\ rank(j) \in Nat
        BY <1>1, <1>3, <2>1, <4>3, <4>5
      <4> QED
        BY <2>2, <4>4, <4>6
    <3> QED
      BY <3>1, <3>2
  <2>4. more(Value[d]) = limit(Value[d]) + 1
    BY <1>2
  <2>5. i \in Matched(a, c)
    BY <1>3, <2>1, <2>3, <2>4
  <2>6. ASSUME NEW j \in Matched(a, c), j \notin S
        PROVE  j = i
    <3>1. j \in 1 .. n /\ Value[a[j]] = Value[d]
      BY <1>4, <1>7, <2>6
    <3>2. i <= j
      BY <2>1, <2>6, <3>1
    <3>3. rank(j) <= limit(Value[d]) + 1 /\ rank(j) \in Nat
      BY <1>1, <1>3, <2>4, <3>1
    <3>4. CASE i < j
      <4>1. rank(i) + 1 <= rank(j)
        BY <1>5, <2>1, <3>1, <3>4
      <4> QED
        BY <2>2, <3>3, <4>1
    <3> QED
      BY <3>1, <3>2, <3>4
  <2> QED
    BY <1>4, <1>6, <2>5, <2>6
<1>9. ASSUME NoneIsLeft(a, S, Value[d])
      PROVE  Matched(a, c) = S
  BY <1>4, <1>6, <1>7, <1>9 DEF NoneIsLeft
<1> QED
  BY <1>8, <1>9 DEF S

LEMMA FoundIsFirst ==
    ASSUME NEW t, NEW a, NEW S, NEW p, NEW m \in Nat, NEW n \in Nat, NEW v, NEW i \in 1 .. m,
           DOMAIN t = 1 .. m, DOMAIN a = 1 .. n, Keeps(p, t, a, S), Value[t[i]] = v,
           \A j \in 1 .. i - 1 : Value[t[j]] # v
    PROVE  IsFirst(a, S, v, p[i]) /\ p[i] \in 1 .. n
<1>1. /\ \A k \in 1 .. m : p[k] \in (1 .. n) \ S /\ t[k] = a[p[k]]
      /\ \A j, k \in 1 .. m : j < k => p[j] < p[k]
      /\ \A j \in (1 .. n) \ S : \E k \in 1 .. m : p[k] = j
  BY DEF Keeps
<1>2. ASSUME NEW j \in (1 .. n) \ S, Value[a[j]] = v
      PROVE  p[i] <= j
  <2>1. PICK k \in 1 .. m : p[k] = j
    BY <1>1
  <2>2. Value[t[k]] = v
    BY <1>1, <1>2, <2>1
  <2>3. k = i \/ i < k
    BY <2>2
  <2>4. p[i] \in 1 .. n /\ j \in 1 .. n /\ (k = i \/ p[i] < p[k])
    BY <1>1, <1>2, <2>3
  <2> QED
    BY <2>1, <2>4
<1> QED
  BY <1>1, <1>2 DEF IsFirst

-----------------------------------------------------------------------------
(* What each loop has done so far, and that the edits which are left can be made *)

Argument == IF call.self THEN call.before ELSE call.other

Done == call.at - 1

\* The loops that count do not run past their end; those that are given an index set
\* have it.
Counting ==
    /\ ~ Enumerating => call.at <= call.count + 1
    /\ call.op \in {"insert", "replace", "removeIndexes"} =>
          call.indexes \in IndexSets /\ Len(call.indexes) = call.count
    /\ call.self => call.op \in {"add", "replace"}

Adding ==
    call.op = "add" =>
        /\ dataCount = Len(call.before) + Done /\ call.count = Len(Argument)
        /\ \A i \in 1 .. dataCount :
              Contents[i] = IF i <= Len(call.before) THEN call.before[i]
                            ELSE Argument[i - Len(call.before)]

Setting ==
    call.op = "set" =>
        /\ dataCount = Done /\ call.count = Len(call.other)
        /\ \A i \in 1 .. dataCount : Contents[i] = call.other[i]

Selecting ==
    call.op = "select" =>
        /\ dataCount = Done /\ call.before = call.other /\ Len(call.indexes) = call.count
        /\ \A i \in 1 .. dataCount : Contents[i] = call.before[call.indexes[i]]

Inserting ==
    call.op = "insert" =>
        /\ \A k \in call.at .. call.count :
              \/ call.indexes[k] <= dataCount + k - call.at
              \/ dataCount = 0 /\ call.indexes = <<1>>
        /\ \A k \in 1 .. Done :
              call.indexes[k] \in 1 .. dataCount /\ Contents[call.indexes[k]] = call.other[k]
        /\ IsWithout(call.before, Contents, {call.indexes[k] : k \in 1 .. Done})

Replacing ==
    call.op = "replace" =>
        /\ Len(call.before) = dataCount /\ call.count <= dataCount
        /\ call.count = Len(Argument)
        /\ \A k \in 1 .. call.count : call.indexes[k] = k
        /\ \A i \in 1 .. dataCount :
              Contents[i] = IF i < call.at THEN Argument[i] ELSE call.before[i]

\* What is behind the last place that went has moved by as many places as have gone.
RemovingIndexes ==
    call.op = "removeIndexes" =>
        /\ \A k \in call.at .. call.count : call.indexes[k] - Done \in 1 .. dataCount
        /\ \E p \in [1 .. dataCount -> Nat] :
              /\ Keeps(p, Contents, call.before, {call.indexes[k] : k \in 1 .. Done})
              /\ \A i \in 1 .. dataCount :
                    (Done = 0 \/ i + Done > call.indexes[Done]) => p[i] = i + Done

RemovingRange ==
    call.op = "removeRange" =>
        /\ Len(call.before) = dataCount + Done
        /\ call.indexes[1] + call.count - call.at <= dataCount
        /\ \A i \in 1 .. dataCount :
              Contents[i] = call.before[IF i < call.indexes[1] THEN i ELSE i + Done]

RemovingIn ==
    call.op = "removeIn" =>
        /\ call.count = Len(call.other)
        /\ IsWithout(Contents, call.before,
                     Matched(call.before, [k \in 1 .. Done |-> call.other[k]]))

Walking ==
    /\ Enumerating => Len(call.seen) = Done /\ Done <= dataCount
    /\ call.op = "enumerate" => \A k \in 1 .. Done : call.seen[k] = Contents[k]
    /\ call.op = "reverse" => \A k \in 1 .. Done : call.seen[k] = Contents[dataCount + 1 - k]

Progress ==
    /\ ~ aborted /\ Counting /\ Adding /\ Setting /\ Selecting /\ Inserting /\ Replacing
    /\ RemovingIndexes /\ RemovingRange /\ RemovingIn /\ Walking

-----------------------------------------------------------------------------
(* Every loop makes progress *)

\* What an edit leaves of the sequence
LEMMA AddedLast ==
    ASSUME IInv, NEW d \in Data, AddData(d)
    PROVE  /\ dataCount' = dataCount + 1 /\ Contents'[dataCount + 1] = d
           /\ \A i \in 1 .. dataCount : Contents'[i] = Contents[i]
<1>1. /\ dataCount \in Nat /\ Len(Contents) = dataCount /\ Sequence!Insert(d, dataCount + 1)
      /\ dataCount' = dataCount + 1
  <2>1. dataCount \in Nat /\ Len(Contents) = dataCount
    BY InvImpliesLayout, ContentsAreData DEF Layout
  <2>2. Sequence!Insert(d, dataCount + 1)
    BY InvImpliesLayout, AddDataInserts
  <2> QED
    BY <2>1, <2>2 DEF AddData
<1>2. PICK s, m : s = Contents' /\ m = Contents
  OBVIOUS
<1>3. s = [j \in 1 .. dataCount + 1 |->
              IF j < dataCount + 1 THEN m[j] ELSE IF j = dataCount + 1 THEN d ELSE m[j - 1]]
  BY <1>1, <1>2 DEF Sequence!Insert
<1> QED
  BY <1>1, <1>2, <1>3

LEMMA InsertOpens ==
    ASSUME IInv, NEW d \in Data, NEW i \in Nat \ {0}, MayInsertAt(i), InsertData(d, i)
    PROVE  /\ dataCount' = dataCount + 1 /\ i \in 1 .. dataCount + 1 /\ Contents'[i] = d
           /\ WithoutPlace(Contents', Contents, dataCount, i)
<1>1. /\ dataCount \in Nat /\ Len(Contents) = dataCount /\ DOMAIN Contents = 1 .. dataCount
      /\ Sequence!Insert(d, i) /\ dataCount' = dataCount + 1
  BY InvImpliesLayout, ContentsAreData, InsertDataInserts DEF Layout
<1>2. i \in 1 .. dataCount + 1
  BY <1>1 DEF MayInsertAt
<1>3. PICK s, m : s = Contents' /\ m = Contents
  OBVIOUS
<1>4. s = [j \in 1 .. dataCount + 1 |-> IF j < i THEN m[j] ELSE IF j = i THEN d ELSE m[j - 1]]
  BY <1>1, <1>3 DEF Sequence!Insert
<1>5. DOMAIN s = 1 .. dataCount + 1 /\ DOMAIN m = 1 .. dataCount /\ s[i] = d
  BY <1>1, <1>2, <1>3, <1>4
<1>6. ASSUME NEW j \in 1 .. dataCount
      PROVE  m[j] = IF j < i THEN s[j] ELSE s[j + 1]
  <2>1. j \in 1 .. dataCount + 1 /\ j + 1 \in 1 .. dataCount + 1 /\ (j + 1) - 1 = j
    BY <1>1
  <2> QED
    BY <1>1, <1>4, <2>1
<1>7. WithoutPlace(s, m, dataCount, i)
  BY <1>5, <1>6 DEF WithoutPlace
<1> QED
  BY <1>1, <1>2, <1>3, <1>5, <1>7

LEMMA Replaced ==
    ASSUME IInv, NEW d \in Data, NEW i \in 1 .. dataCount, ReplaceData(d, i)
    PROVE  /\ dataCount' = dataCount /\ Contents'[i] = d
           /\ \A j \in 1 .. dataCount : j # i => Contents'[j] = Contents[j]
<1>1. /\ DOMAIN Contents = 1 .. dataCount /\ Sequence!Replace(d, i) /\ dataCount' = dataCount
  BY InvImpliesLayout, ContentsAreData, ReplaceDataReplaces DEF Layout, ReplaceData
<1>2. PICK s, m : s = Contents /\ m = Contents'
  OBVIOUS
<1>3. m = [s EXCEPT ![i] = d] /\ DOMAIN s = 1 .. dataCount
  BY <1>1, <1>2 DEF Sequence!Replace
<1> QED
  BY <1>1, <1>2, <1>3

LEMMA RemoveCloses ==
    ASSUME IInv, MaxLength <= MaxCount, NEW i \in 1 .. dataCount, RemoveData(i)
    PROVE  /\ dataCount' = dataCount - 1 /\ dataCount' \in Nat
           /\ WithoutPlace(Contents, Contents', dataCount', i)
<1>1. /\ dataCount \in Nat /\ Len(Contents) = dataCount /\ DOMAIN Contents = 1 .. dataCount
      /\ dataCount <= MaxCount /\ dataCount' = dataCount - 1
  BY InvImpliesLayout, ContentsAreData, SizeAssumption DEF Layout, IInv, CallFits, RemoveData
<1>2. Sequence!Delete(i)
  BY <1>1, InvImpliesLayout, RemoveDataDeletes
<1>3. PICK s, m, n : s = Contents /\ m = Contents' /\ n = dataCount - 1
  OBVIOUS
<1>4. n \in Nat /\ dataCount = n + 1
  BY <1>1, <1>3
<1>5. m = [j \in 1 .. n |-> IF j < i THEN s[j] ELSE s[j + 1]]
  BY <1>1, <1>2, <1>3 DEF Sequence!Delete
<1>6. WithoutPlace(s, m, n, i)
  BY <1>1, <1>3, <1>4, <1>5 DEF WithoutPlace
<1> QED
  BY <1>1, <1>3, <1>4, <1>6

\* What the state of a loop consists of
LEMMA LoopTypes ==
    ASSUME IInv
    PROVE  /\ dataCount \in Nat /\ DOMAIN Contents = 1 .. dataCount /\ Contents \in Seq(Data)
           /\ call \in Calls /\ call.at \in Nat \ {0} /\ call.count \in Nat
           /\ call.indexes \in Seq(Nat \ {0})
           /\ call.other \in Seq(Data) /\ call.before \in Seq(Data) /\ call.seen \in Seq(Data)
           /\ Argument \in Seq(Data) /\ Done \in Nat /\ Done + 1 = call.at
BY InvImpliesLayout, ContentsAreData DEF Layout, IInv, TypeOK, Calls, Argument, Done

LEMMA GoFields ==
    ASSUME IInv, Go
    PROVE  /\ call'.op = call.op /\ call'.self = call.self /\ call'.other = call.other
           /\ call'.indexes = call.indexes /\ call'.count = call.count
           /\ call'.before = call.before /\ call'.seen = call.seen /\ call'.at = call.at + 1
           /\ Argument' = Argument /\ Done' = Done + 1 /\ aborted' = aborted
<1>1. /\ call'.op = call.op /\ call'.self = call.self /\ call'.other = call.other
      /\ call'.indexes = call.indexes /\ call'.count = call.count
      /\ call'.before = call.before /\ call'.seen = call.seen /\ call'.at = call.at + 1
      /\ aborted' = aborted
  BY LoopTypes DEF Go, Calls
<1>2. Argument' = Argument
  BY <1>1 DEF Argument
<1>3. Done' = Done + 1
  BY <1>1, LoopTypes DEF Done
<1> QED
  BY <1>1, <1>2, <1>3

\* A loop that counts, and has edits to make
LEMMA GoCounts ==
    ASSUME IInv, Progress, Go, ~ Enumerating, call.at <= call.count
    PROVE  Counting' /\ ~ aborted' /\ ~ Enumerating'
<1>1. /\ call.at + 1 <= call.count + 1 /\ call'.op = call.op /\ call'.self = call.self
      /\ call'.at = call.at + 1 /\ call'.count = call.count /\ call'.indexes = call.indexes
      /\ aborted' = aborted
  BY LoopTypes, GoFields
<1>2. ~ Enumerating'
  BY <1>1 DEF Enumerating
<1> QED
  BY <1>1, <1>2 DEF Counting, Progress

LEMMA AddGoesOn ==
    ASSUME IInv, Progress, StepAdd
    PROVE  Progress'
<1>1. /\ call.op \in {"add", "set"} /\ ~ Enumerating /\ call.at <= call.count
      /\ IF call.at \in DOMAIN Other THEN AddData(Other[call.at]) /\ Go ELSE Abort
  BY LoopTypes DEF StepAdd, Running, Enumerating, Finished
<1>2. call.at \in DOMAIN Other /\ Other[call.at] = Argument[call.at]
  <2>1. CASE call.self
    <3>1. /\ call.op = "add" /\ Other = Contents /\ Argument = call.before
          /\ dataCount = Len(call.before) + Done /\ call.count = Len(call.before)
      BY <1>1, <2>1 DEF Progress, Counting, Adding, Other, Argument
    <3>2. call.at \in 1 .. dataCount /\ call.at <= Len(call.before)
      BY <1>1, <3>1, LoopTypes
    <3>3. Contents[call.at] = call.before[call.at]
      BY <3>1, <3>2 DEF Progress, Adding
    <3> QED
      BY <3>1, <3>2, <3>3, LoopTypes
  <2>2. CASE ~ call.self
    <3>1. Other = call.other /\ Argument = call.other /\ call.count = Len(call.other)
      BY <1>1, <2>2 DEF Progress, Adding, Setting, Other, Argument
    <3> QED
      BY <1>1, <3>1, LoopTypes
  <2> QED
    BY <2>1, <2>2
<1>3. PICK d : d = Argument[call.at]
  OBVIOUS
<1>4. d \in Data /\ AddData(d) /\ Go
  <2>1. d \in Data
    BY <1>1, <1>2, <1>3, OtherIsData
  <2> QED
    BY <1>1, <1>2, <1>3, <2>1
<1>5. /\ dataCount' = dataCount + 1 /\ Contents'[dataCount + 1] = d
      /\ \A i \in 1 .. dataCount : Contents'[i] = Contents[i]
  BY <1>4, AddedLast
<1>6. Counting' /\ ~ aborted' /\ ~ Enumerating' /\ call'.op = call.op
  BY <1>1, <1>4, GoCounts, GoFields
<1>7. Adding'
  <2> SUFFICES ASSUME call.op = "add"
               PROVE  Adding'
    BY <1>6 DEF Adding
  <2>1. /\ dataCount = Len(call.before) + Done /\ call.count = Len(Argument)
        /\ \A i \in 1 .. dataCount :
              Contents[i] = IF i <= Len(call.before) THEN call.before[i]
                            ELSE Argument[i - Len(call.before)]
    BY DEF Progress, Adding
  <2>2. /\ dataCount \in Nat /\ Len(call.before) \in Nat /\ Done \in Nat /\ call.at = Done + 1
    BY LoopTypes
  <2>3. ASSUME NEW i \in 1 .. dataCount + 1
        PROVE  Contents'[i] = IF i <= Len(call.before) THEN call.before[i]
                              ELSE Argument[i - Len(call.before)]
    <3>1. CASE i \in 1 .. dataCount
      BY <1>5, <2>1, <3>1
    <3>2. CASE i = dataCount + 1
      <4>1. ~ (i <= Len(call.before)) /\ i - Len(call.before) = call.at
        <5>1. PICK l, n \in Nat : l = Len(call.before) /\ n = Done
          BY <2>2
        <5>2. i = (l + n) + 1 /\ call.at = n + 1
          BY <2>1, <2>2, <3>2, <5>1
        <5>3. ~ (i <= l) /\ i - l = call.at
          BY <5>2
        <5> QED
          BY <5>1, <5>3
      <4> QED
        BY <1>3, <1>5, <3>2, <4>1
    <3> QED
      BY <2>2, <3>1, <3>2
  <2>4. /\ call'.before = call.before /\ call'.count = call.count /\ Argument' = Argument
        /\ Done' = Done + 1
    BY <1>4, GoFields
  <2>5. dataCount + 1 = Len(call.before) + (Done + 1)
    BY <2>1, <2>2
  <2> QED
    BY <1>5, <2>1, <2>3, <2>4, <2>5 DEF Adding
<1>8. Setting'
  <2> SUFFICES ASSUME call.op = "set"
               PROVE  Setting'
    BY <1>6 DEF Setting
  <2>1. /\ dataCount = Done /\ call.count = Len(call.other)
        /\ \A i \in 1 .. dataCount : Contents[i] = call.other[i]
    BY DEF Progress, Setting
  <2>2. dataCount \in Nat /\ call.at = dataCount + 1 /\ Argument = call.other
    BY <2>1, LoopTypes DEF Progress, Counting, Argument
  <2>3. \A i \in 1 .. dataCount + 1 : Contents'[i] = call.other[i]
    BY <1>3, <1>5, <2>1, <2>2
  <2>4. call'.other = call.other /\ call'.count = call.count /\ Done' = Done + 1
    BY <1>4, GoFields
  <2> QED
    BY <1>5, <2>1, <2>3, <2>4 DEF Setting
<1> QED
  BY <1>1, <1>6, <1>7, <1>8
     DEF Progress, Selecting, Inserting, Replacing, RemovingIndexes, RemovingRange, RemovingIn,
         Walking

LEMMA SelectGoesOn ==
    ASSUME IInv, Progress, StepSelect
    PROVE  Progress'
<1>1. /\ call.op = "select" /\ ~ Enumerating /\ call.at <= call.count
      /\ AddData(Other[call.indexes[call.at]]) /\ Go
  BY LoopTypes DEF StepSelect, Running, Enumerating, Finished
<1>2. /\ dataCount = Done /\ call.before = call.other /\ Other = call.before
      /\ Len(call.indexes) = call.count
      /\ \A i \in 1 .. dataCount : Contents[i] = call.before[call.indexes[i]]
  BY <1>1 DEF Progress, Selecting, Counting, Other
<1>3. call.at \in DOMAIN call.indexes /\ call.indexes[call.at] \in DOMAIN Other
  BY <1>1, <1>2, LoopTypes DEF IInv, CallFits
<1>4. PICK d \in Data : d = call.before[call.indexes[call.at]]
  BY <1>2, <1>3, OtherIsData
<1>5. /\ dataCount' = dataCount + 1 /\ Contents'[dataCount + 1] = d
      /\ \A i \in 1 .. dataCount : Contents'[i] = Contents[i]
  BY <1>1, <1>2, <1>4, AddedLast
<1>6. Counting' /\ ~ aborted' /\ ~ Enumerating' /\ call'.op = call.op
  BY <1>1, GoCounts, GoFields
<1>7. Selecting'
  <2>1. dataCount \in Nat /\ call.at = dataCount + 1
    BY <1>2, LoopTypes
  <2>2. \A i \in 1 .. dataCount + 1 : Contents'[i] = call.before[call.indexes[i]]
    BY <1>2, <1>4, <1>5, <2>1
  <2>3. /\ call'.before = call.before /\ call'.other = call.other /\ call'.indexes = call.indexes
        /\ Done' = Done + 1 /\ call'.count = call.count
    BY <1>1, GoFields
  <2> QED
    BY <1>2, <1>5, <2>2, <2>3 DEF Selecting
<1> QED
  BY <1>1, <1>6, <1>7
     DEF Progress, Adding, Setting, Inserting, Replacing, RemovingIndexes, RemovingRange, RemovingIn,
         Walking

\* The indexes of the set that a call was given, and those it has seen to
LEMMA IndexesInOrder ==
    ASSUME IInv, Progress, call.op \in {"insert", "replace", "removeIndexes"}
    PROVE  /\ Len(call.indexes) = call.count /\ DOMAIN call.indexes = 1 .. call.count
           /\ \A k \in 1 .. call.count : call.indexes[k] \in Nat \ {0}
           /\ \A j, k \in 1 .. call.count : j < k => call.indexes[j] < call.indexes[k]
<1>1. call.indexes \in IndexSets /\ Len(call.indexes) = call.count /\ call.indexes \in Seq(Nat \ {0})
  BY LoopTypes DEF Progress, Counting
<1>2. DOMAIN call.indexes = 1 .. call.count /\ \A k \in 1 .. call.count : call.indexes[k] \in Nat \ {0}
  BY <1>1
<1>3. \A j, k \in DOMAIN call.indexes : j < k => call.indexes[j] < call.indexes[k]
  BY <1>1, ArgumentAssumption
<1> QED
  BY <1>1, <1>2, <1>3

LEMMA OneMoreIndex ==
    ASSUME NEW x, NEW n \in Nat
    PROVE  {x[k] : k \in 1 .. n + 1} = {x[k] : k \in 1 .. n} \cup {x[n + 1]}
<1>1. \A k \in 1 .. n + 1 : k \in 1 .. n \/ k = n + 1
  OBVIOUS
<1>2. \A k \in 1 .. n : k \in 1 .. n + 1
  OBVIOUS
<1>3. n + 1 \in 1 .. n + 1
  OBVIOUS
<1> QED
  BY <1>1, <1>2, <1>3

LEMMA InsertGoesOn ==
    ASSUME IInv, Progress, StepInsert
    PROVE  Progress'
<1>1. /\ call.op = "insert" /\ ~ Enumerating /\ call.at <= call.count
      /\ LET j == call.indexes[call.at] IN
         IF MayInsertAt(j) THEN InsertData(Other[call.at], j) /\ Go ELSE Abort
  BY LoopTypes DEF StepInsert, Running, Enumerating, Finished
<1>2. PICK i, n, x, o : i = call.indexes[call.at] /\ n = Done /\ x = call.indexes /\ o = call.other
  OBVIOUS
<1>3. /\ n \in Nat /\ call.at = n + 1 /\ call.at \in 1 .. call.count /\ dataCount \in Nat
      /\ call.count \in Nat
  BY <1>1, <1>2, LoopTypes
<1>4. /\ \A k \in 1 .. call.count : x[k] \in Nat \ {0}
      /\ \A j, k \in 1 .. call.count : j < k => x[j] < x[k]
      /\ i = x[n + 1] /\ i \in Nat \ {0} /\ DOMAIN x = 1 .. call.count /\ Len(x) = call.count
  BY <1>1, <1>2, <1>3, IndexesInOrder
<1>5. /\ \A k \in call.at .. call.count : (x[k] <= dataCount + k - call.at) \/ (dataCount = 0 /\ x = <<1>>)
      /\ \A k \in 1 .. n : x[k] \in 1 .. dataCount /\ Contents[x[k]] = o[k]
      /\ IsWithout(call.before, Contents, {x[k] : k \in 1 .. n})
  BY <1>1, <1>2 DEF Progress, Inserting
<1>6. MayInsertAt(i)
  <2>1. (x[call.at] <= dataCount + call.at - call.at) \/ (dataCount = 0 /\ x = <<1>>)
    BY <1>3, <1>5
  <2>2. x = <<1>> => i = 1
    <3>1. x = <<1>> => call.count = 1
      BY <1>4
    <3> QED
      BY <1>3, <1>4, <3>1
  <2> QED
    BY <1>3, <1>4, <2>1, <2>2 DEF MayInsertAt
<1>7. /\ ~ call.self /\ Other = o /\ Len(o) = call.count /\ o \in Seq(Data)
  BY <1>1, <1>2, LoopTypes DEF Progress, Counting, Other, IInv, CallFits
<1>8. PICK d \in Data : d = o[n + 1]
  BY <1>3, <1>7
<1>9. InsertData(d, i) /\ Go
  BY <1>1, <1>2, <1>3, <1>6, <1>7, <1>8
<1>10. /\ dataCount' = dataCount + 1 /\ i \in 1 .. dataCount + 1 /\ Contents'[i] = d
       /\ WithoutPlace(Contents', Contents, dataCount, i)
  BY <1>4, <1>6, <1>9, InsertOpens
<1>11. Counting' /\ ~ aborted' /\ ~ Enumerating' /\ call'.op = call.op
  BY <1>1, <1>9, GoCounts, GoFields
<1>12. \A k \in 1 .. n : x[k] < i
  BY <1>3, <1>4
<1>13. ASSUME NEW k \in call.at + 1 .. call.count
       PROVE  x[k] <= dataCount + 1 + k - (call.at + 1)
  <2>1. k \in call.at .. call.count /\ k \in 1 .. call.count /\ k \in Nat
    BY <1>3
  <2>2. ~ (x = <<1>>)
    <3>1. x = <<1>> => call.count = 1
      BY <1>4
    <3> QED
      BY <1>3, <3>1
  <2>3. x[k] <= dataCount + k - call.at
    BY <1>5, <2>1, <2>2
  <2>4. x[k] \in Nat
    BY <1>4, <2>1
  <2> QED
    BY <1>3, <2>1, <2>3, <2>4
<1>14. ASSUME NEW k \in 1 .. n + 1
       PROVE  x[k] \in 1 .. dataCount + 1 /\ Contents'[x[k]] = o[k]
  <2>1. CASE k = n + 1
    BY <1>4, <1>8, <1>10, <2>1
  <2>2. CASE k \in 1 .. n
    <3>1. x[k] \in 1 .. dataCount /\ Contents[x[k]] = o[k] /\ x[k] < i
      BY <1>5, <1>12, <2>2
    <3>2. \A j \in 1 .. dataCount : Contents[j] = IF j < i THEN Contents'[j] ELSE Contents'[j + 1]
      BY <1>10 DEF WithoutPlace
    <3> QED
      BY <1>3, <3>1, <3>2
  <2> QED
    BY <1>3, <2>1, <2>2
<1>15. IsWithout(call.before, Contents', {x[k] : k \in 1 .. n + 1})
  <2> DEFINE S == {x[k] : k \in 1 .. n}
  <2>1. S \subseteq 1 .. i - 1
    <3>1. \A k \in 1 .. n : x[k] \in 1 .. i - 1
      BY <1>3, <1>4, <1>5, <1>12
    <3> QED
      BY <3>1
  <2>2. DOMAIN call.before \subseteq Nat
    BY LoopTypes
  <2>3. {x[k] : k \in 1 .. n + 1} = S \cup {i}
    BY <1>3, <1>4, OneMoreIndex
  <2>4. IsWithout(call.before, Contents, S)
    BY <1>5
  <2> HIDE DEF S
  <2>5. PICK p : Keeps(p, call.before, Contents, S)
    BY <2>4 DEF IsWithout
  <2>6. IsWithout(call.before, Contents', S \cup {i})
    BY <1>3, <1>10, <2>1, <2>2, <2>5, OneComes
  <2> QED
    BY <2>3, <2>6
<1>16. /\ call'.before = call.before /\ call'.other = o /\ call'.indexes = x
       /\ call'.count = call.count /\ call'.at = call.at + 1 /\ Done' = n + 1
  BY <1>2, <1>9, GoFields
<1>17. Inserting'
  BY <1>10, <1>13, <1>14, <1>15, <1>16 DEF Inserting
<1> QED
  BY <1>1, <1>11, <1>17
     DEF Progress, Adding, Setting, Selecting, Replacing, RemovingIndexes, RemovingRange, RemovingIn,
         Walking

LEMMA ReplaceGoesOn ==
    ASSUME IInv, Progress, StepReplace
    PROVE  Progress'
<1>1. /\ call.op = "replace" /\ ~ Enumerating /\ call.at <= call.count
      /\ LET i == call.indexes[call.at] IN
         IF i \in DOMAIN Other /\ i <= dataCount THEN ReplaceData(Other[i], i) /\ Go ELSE Abort
  BY LoopTypes DEF StepReplace, Running, Enumerating, Finished
<1>2. /\ Len(call.before) = dataCount /\ call.count <= dataCount /\ call.count = Len(Argument)
      /\ \A k \in 1 .. call.count : call.indexes[k] = k
      /\ \A i \in 1 .. dataCount :
            Contents[i] = IF i < call.at THEN Argument[i] ELSE call.before[i]
  BY <1>1 DEF Progress, Replacing
<1>3. PICK i : i = call.at
  OBVIOUS
<1>4. /\ i \in 1 .. call.count /\ i \in 1 .. dataCount /\ call.indexes[call.at] = i
  BY <1>1, <1>2, <1>3, LoopTypes
<1>5. i \in DOMAIN Other /\ Other[i] = Argument[i]
  <2>1. CASE call.self
    <3>1. Other = Contents /\ Argument = call.before
      BY <2>1 DEF Other, Argument
    <3> QED
      BY <1>2, <1>3, <1>4, <3>1, LoopTypes
  <2>2. CASE ~ call.self
    <3>1. Other = call.other /\ Argument = call.other
      BY <2>2 DEF Other, Argument
    <3> QED
      BY <1>2, <1>4, <3>1, LoopTypes
  <2> QED
    BY <2>1, <2>2
<1>6. PICK d \in Data : d = Argument[i]
  BY <1>5, OtherIsData
<1>7. ReplaceData(d, i) /\ Go
  BY <1>1, <1>4, <1>5, <1>6
<1>8. /\ dataCount' = dataCount /\ Contents'[i] = d
      /\ \A j \in 1 .. dataCount : j # i => Contents'[j] = Contents[j]
  BY <1>4, <1>7, Replaced
<1>9. Counting' /\ ~ aborted' /\ ~ Enumerating' /\ call'.op = call.op
  BY <1>1, <1>7, GoCounts, GoFields
<1>10. ASSUME NEW j \in 1 .. dataCount
       PROVE  Contents'[j] = IF j < i + 1 THEN Argument[j] ELSE call.before[j]
  <2>1. CASE j = i
    BY <1>4, <1>6, <1>8, <2>1
  <2>2. CASE j # i
    <3>1. i \in Nat /\ j \in Nat /\ (j < i + 1 <=> j < i)
      BY <1>4, <2>2, LoopTypes
    <3> QED
      BY <1>2, <1>3, <1>8, <2>2, <3>1
  <2> QED
    BY <2>1, <2>2
<1>11. /\ call'.before = call.before /\ call'.count = call.count /\ call'.indexes = call.indexes
       /\ Argument' = Argument /\ call'.at = i + 1
  BY <1>3, <1>7, GoFields
<1>12. Replacing'
  BY <1>2, <1>8, <1>10, <1>11 DEF Replacing
<1> QED
  BY <1>1, <1>9, <1>12
     DEF Progress, Adding, Setting, Selecting, Inserting, RemovingIndexes, RemovingRange, RemovingIn,
         Walking

LEMMA RemoveIndexGoesOn ==
    ASSUME IInv, MaxLength <= MaxCount, Progress, StepRemoveIndex
    PROVE  Progress'
<1>1. /\ call.op = "removeIndexes" /\ ~ Enumerating /\ call.at <= call.count
      /\ LET j == call.indexes[call.at] - (call.at - 1) IN
         IF j \in 1 .. dataCount THEN RemoveData(j) /\ Go ELSE Abort
  BY LoopTypes DEF StepRemoveIndex, Running, Enumerating, Finished
<1>2. PICK n, x, i : n = Done /\ x = call.indexes /\ i = call.indexes[call.at] - Done
  OBVIOUS
<1>3. n \in Nat /\ call.at = n + 1 /\ call.at \in 1 .. call.count /\ call.count \in Nat
  BY <1>1, <1>2, LoopTypes
<1>4. /\ \A k \in 1 .. call.count : x[k] \in Nat \ {0}
      /\ \A j, k \in 1 .. call.count : j < k => x[j] < x[k]
  BY <1>1, <1>2, IndexesInOrder
<1>5. \A k \in call.at .. call.count : x[k] - n \in 1 .. dataCount
  BY <1>1, <1>2 DEF Progress, RemovingIndexes
<1>6. PICK p \in [1 .. dataCount -> Nat] :
         /\ Keeps(p, Contents, call.before, {x[k] : k \in 1 .. n})
         /\ \A j \in 1 .. dataCount : (n = 0 \/ j + n > x[n]) => p[j] = j + n
  BY <1>1, <1>2 DEF Progress, RemovingIndexes
<1>7. i \in 1 .. dataCount /\ x[n + 1] = i + n /\ i = x[n + 1] - n
  BY <1>2, <1>3, <1>4, <1>5
<1>8. RemoveData(i) /\ Go
  BY <1>1, <1>2, <1>7 DEF Done
<1>9. PICK m : m = dataCount'
  OBVIOUS
<1>10. m \in Nat /\ dataCount = m + 1 /\ WithoutPlace(Contents, Contents', m, i)
  <2>1. dataCount' = dataCount - 1 /\ dataCount' \in Nat /\ WithoutPlace(Contents, Contents', dataCount', i)
    BY <1>7, <1>8, RemoveCloses
  <2> QED
    BY <1>9, <2>1, LoopTypes
<1>11. n > 0 => x[n] < x[n + 1] /\ x[n] \in Nat
  BY <1>3, <1>4
<1>12. p[i] = x[n + 1]
  BY <1>3, <1>6, <1>7, <1>11
<1> DEFINE S == {x[k] : k \in 1 .. n}
           q == [k \in 1 .. m |-> p[IF k < i THEN k ELSE k + 1]]
<1>13. Keeps(q, Contents', call.before, S \cup {x[n + 1]})
  <2>1. DOMAIN call.before \subseteq Nat /\ i \in 1 .. m + 1
    BY <1>7, <1>10, LoopTypes
  <2>2. Keeps(p, Contents, call.before, S)
    BY <1>6
  <2> HIDE DEF S
  <2>3. Keeps(q, Contents', call.before, S \cup {p[i]})
    BY <1>10, <2>1, <2>2, OneGoes
  <2> QED
    BY <1>12, <2>3
<1>14. S \cup {x[n + 1]} = {x[k] : k \in 1 .. n + 1}
  BY <1>3, OneMoreIndex
<1>15. q \in [1 .. m -> Nat]
  <2>1. \A k \in 1 .. m : (IF k < i THEN k ELSE k + 1) \in 1 .. dataCount
    BY <1>7, <1>10
  <2> QED
    BY <1>6, <2>1
<1>16. ASSUME NEW j \in 1 .. m, j + (n + 1) > x[n + 1]
       PROVE  q[j] = j + (n + 1)
  <2>1. ~ (j < i) /\ j + 1 \in 1 .. dataCount
    BY <1>3, <1>7, <1>10, <1>16
  <2>2. n = 0 \/ (j + 1) + n > x[n]
    BY <1>3, <1>4, <1>11, <1>16
  <2>3. p[j + 1] = (j + 1) + n
    BY <1>6, <2>1, <2>2
  <2> QED
    BY <1>3, <2>1, <2>3
<1>17. ASSUME NEW k \in call.at + 1 .. call.count
       PROVE  x[k] - (n + 1) \in 1 .. m
  <2>1. k \in call.at .. call.count /\ k \in 1 .. call.count /\ n + 1 < k
    BY <1>3
  <2>2. x[k] - n \in 1 .. dataCount /\ x[n + 1] < x[k] /\ x[k] \in Nat
    BY <1>3, <1>4, <1>5, <2>1
  <2> QED
    BY <1>3, <1>7, <1>10, <2>2
<1>18. Counting' /\ ~ aborted' /\ ~ Enumerating' /\ call'.op = call.op
  BY <1>1, <1>8, GoCounts, GoFields
<1>19. /\ call'.before = call.before /\ call'.indexes = x /\ call'.count = call.count
       /\ call'.at = call.at + 1 /\ Done' = n + 1
  BY <1>2, <1>8, GoFields
<1>20. RemovingIndexes'
  <2> HIDE DEF q, S
  <2>1. /\ \A k \in call'.at .. call'.count : call'.indexes[k] - Done' \in 1 .. dataCount'
    BY <1>9, <1>17, <1>19
  <2>2. Keeps(q, Contents', call'.before, {call'.indexes[k] : k \in 1 .. Done'})
    BY <1>13, <1>14, <1>19
  <2>3. \A j \in 1 .. dataCount' : (Done' = 0 \/ j + Done' > call'.indexes[Done']) => q[j] = j + Done'
    BY <1>3, <1>9, <1>16, <1>19
  <2> QED
    BY <1>9, <1>15, <2>1, <2>2, <2>3 DEF RemovingIndexes
<1> QED
  BY <1>1, <1>18, <1>20
     DEF Progress, Adding, Setting, Selecting, Inserting, Replacing, RemovingRange, RemovingIn, Walking

LEMMA RemoveRangeGoesOn ==
    ASSUME IInv, MaxLength <= MaxCount, Progress, StepRemoveRange
    PROVE  Progress'
<1>1. /\ call.op = "removeRange" /\ ~ Enumerating /\ call.at <= call.count
      /\ LET j == call.indexes[1] IN IF j <= dataCount THEN RemoveData(j) /\ Go ELSE Abort
  BY LoopTypes DEF StepRemoveRange, Running, Enumerating, Finished
<1>2. PICK n, i : n = Done /\ i = call.indexes[1]
  OBVIOUS
<1>3. /\ n \in Nat /\ call.at = n + 1 /\ call.count \in Nat /\ n + 1 <= call.count
      /\ i \in Nat \ {0} /\ dataCount \in Nat
  BY <1>1, <1>2, LoopTypes DEF IInv, CallFits
<1>4. /\ Len(call.before) = dataCount + n /\ i + call.count - call.at <= dataCount
      /\ \A j \in 1 .. dataCount : Contents[j] = call.before[IF j < i THEN j ELSE j + n]
  BY <1>1, <1>2 DEF Progress, RemovingRange
<1>5. i \in 1 .. dataCount
  BY <1>3, <1>4
<1>6. RemoveData(i) /\ Go
  BY <1>1, <1>2, <1>5
<1>7. PICK m : m = dataCount'
  OBVIOUS
<1>8. m \in Nat /\ dataCount = m + 1 /\ WithoutPlace(Contents, Contents', m, i)
  <2>1. dataCount' = dataCount - 1 /\ dataCount' \in Nat /\ WithoutPlace(Contents, Contents', dataCount', i)
    BY <1>5, <1>6, RemoveCloses
  <2> QED
    BY <1>3, <1>7, <2>1
<1>9. ASSUME NEW j \in 1 .. m
      PROVE  Contents'[j] = call.before[IF j < i THEN j ELSE j + (n + 1)]
  <2>1. Contents'[j] = IF j < i THEN Contents[j] ELSE Contents[j + 1]
    BY <1>8 DEF WithoutPlace
  <2>2. CASE j < i
    BY <1>4, <1>8, <2>1, <2>2
  <2>3. CASE ~ (j < i)
    <3>1. j + 1 \in 1 .. dataCount /\ ~ (j + 1 < i) /\ (j + 1) + n = j + (n + 1)
      BY <1>3, <1>8, <2>3
    <3>2. Contents[j + 1] = call.before[(j + 1) + n]
      BY <1>4, <3>1
    <3> QED
      BY <2>1, <2>3, <3>1, <3>2
  <2> QED
    BY <2>2, <2>3
<1>10. Counting' /\ ~ aborted' /\ ~ Enumerating' /\ call'.op = call.op
  BY <1>1, <1>6, GoCounts, GoFields
<1>11. /\ call'.before = call.before /\ call'.indexes[1] = i /\ call'.count = call.count
       /\ call'.at = call.at + 1 /\ Done' = n + 1
  BY <1>2, <1>6, GoFields
<1>12. Len(call.before) = m + (n + 1) /\ i + call.count - (call.at + 1) <= m
  <2>1. PICK e \in Nat : e = call.count
    BY <1>3
  <2>2. i + e - (n + 1) <= m + 1
    BY <1>3, <1>4, <1>8, <2>1
  <2>3. i + e - ((n + 1) + 1) <= m
    BY <1>3, <1>8, <2>1, <2>2
  <2>4. Len(call.before) = m + (n + 1)
    BY <1>3, <1>4, <1>8
  <2> QED
    BY <1>3, <2>1, <2>3, <2>4
<1>13. RemovingRange'
  BY <1>7, <1>9, <1>11, <1>12 DEF RemovingRange
<1> QED
  BY <1>1, <1>10, <1>13
     DEF Progress, Adding, Setting, Selecting, Inserting, Replacing, RemovingIndexes, RemovingIn, Walking

LEMMA RemoveInGoesOn ==
    ASSUME IInv, MaxLength <= MaxCount, Progress, StepRemoveIn
    PROVE  Progress'
<1>1. /\ call.op = "removeIn" /\ ~ Enumerating /\ call.at <= call.count /\ Go
      /\ LET d == Other[call.at] IN
         \/ \E i \in 1 .. dataCount : Finds(d, i) /\ RemoveData(i)
         \/ ~ (\E i \in 1 .. dataCount : Finds(d, i)) /\ UNCHANGED <<store, count>>
  BY LoopTypes DEF StepRemoveIn, Running, Enumerating, Finished
<1>2. PICK n, d, o, a : n = Done /\ d = Other[call.at] /\ o = call.other /\ a = call.before
  OBVIOUS
<1>3. /\ n \in Nat /\ call.at = n + 1 /\ call.count \in Nat /\ n + 1 <= call.count
      /\ Len(a) \in Nat /\ DOMAIN a = 1 .. Len(a) /\ dataCount \in Nat
      /\ DOMAIN Contents = 1 .. dataCount
  BY <1>1, <1>2, LoopTypes
<1>4. call.count = Len(o) /\ d = o[n + 1]
  BY <1>1, <1>2, <1>3 DEF Progress, Counting, RemovingIn, Other
<1> DEFINE b == [k \in 1 .. n |-> o[k]]
           c == [k \in 1 .. n + 1 |-> o[k]]
<1>5. Extends(c, b, n, d)
  BY <1>3, <1>4 DEF Extends
<1>6. IsWithout(Contents, a, Matched(a, b))
  BY <1>1, <1>2 DEF Progress, RemovingIn
<1> HIDE DEF b, c
<1>7. PICK p : Keeps(p, Contents, a, Matched(a, b))
  BY <1>6 DEF IsWithout
<1>8. IsWithout(Contents', a, Matched(a, c))
  <2>1. ASSUME NEW i \in 1 .. dataCount, Finds(d, i), RemoveData(i)
        PROVE  IsWithout(Contents', a, Matched(a, c))
    <3>1. PICK m : m = dataCount'
      OBVIOUS
    <3>2. m \in Nat /\ dataCount = m + 1 /\ WithoutPlace(Contents, Contents', m, i)
      <4>1. /\ dataCount' = dataCount - 1 /\ dataCount' \in Nat
            /\ WithoutPlace(Contents, Contents', dataCount', i)
        BY <2>1, RemoveCloses
      <4> QED
        BY <1>3, <3>1, <4>1
    <3>3. IsFirst(a, Matched(a, b), Value[d], p[i]) /\ p[i] \in 1 .. Len(a)
      <4>1. Value[Contents[i]] = Value[d] /\ \A j \in 1 .. i - 1 : Value[Contents[j]] # Value[d]
        BY <2>1 DEF Finds
      <4> QED
        BY <1>3, <1>7, <4>1, FoundIsFirst
    <3>4. Matched(a, c) = Matched(a, b) \cup {p[i]}
      BY <1>3, <1>5, <3>3, NextIsMatched
    <3>5. DOMAIN a \subseteq Nat /\ i \in 1 .. m + 1
      BY <1>3, <3>2
    <3> DEFINE q == [k \in 1 .. m |-> p[IF k < i THEN k ELSE k + 1]]
    <3>6. Keeps(q, Contents', a, Matched(a, c))
      BY <1>7, <3>2, <3>4, <3>5, OneGoes
    <3> HIDE DEF q
    <3> QED
      BY <3>6 DEF IsWithout, Keeps
  <2>2. ASSUME ~ (\E i \in 1 .. dataCount : Finds(d, i)), UNCHANGED <<store, count>>
        PROVE  IsWithout(Contents', a, Matched(a, c))
    <3>1. Contents' = Contents
      BY <2>2, StoreUnchanged
    <3>2. \A j \in DOMAIN Contents : Value[Contents[j]] # Value[d]
      <4> DEFINE E == {j \in 1 .. dataCount : Value[Contents[j]] = Value[d]}
      <4> SUFFICES E = {}
        BY <1>3
      <4>1. E \in SUBSET Nat
        BY <1>3
      <4> HIDE DEF E
      <4>2. ASSUME E # {}
            PROVE  FALSE
        <5>1. PICK i \in E : \A j \in E : i <= j
          BY <4>1, <4>2, LeastNumber
        <5>2. /\ i \in 1 .. dataCount /\ Value[Contents[i]] = Value[d]
              /\ \A j \in 1 .. dataCount : Value[Contents[j]] = Value[d] => i <= j
          BY <5>1 DEF E
        <5>3. \A j \in 1 .. i - 1 : Value[Contents[j]] # Value[d]
          BY <1>3, <5>2
        <5>4. Finds(d, i)
          BY <5>2, <5>3 DEF Finds
        <5> QED
          BY <2>2, <5>2, <5>4
      <4> QED
        BY <4>2
    <3>3. NoneIsLeft(a, Matched(a, b), Value[d])
      BY <1>7, <3>2 DEF Keeps, NoneIsLeft
    <3>4. Matched(a, c) = Matched(a, b)
      BY <1>3, <1>5, <3>3, NextIsMatched
    <3> QED
      BY <1>6, <3>1, <3>4
  <2> QED
    BY <1>1, <1>2, <2>1, <2>2
<1>9. Counting' /\ ~ aborted' /\ ~ Enumerating' /\ call'.op = call.op
  BY <1>1, GoCounts, GoFields
<1>10. /\ call'.before = a /\ call'.other = o /\ call'.count = call.count /\ Done' = n + 1
  BY <1>1, <1>2, GoFields
<1>11. RemovingIn'
  BY <1>4, <1>8, <1>10 DEF RemovingIn, c
<1> QED
  BY <1>1, <1>9, <1>11
     DEF Progress, Adding, Setting, Selecting, Inserting, Replacing, RemovingIndexes, RemovingRange,
         Walking

LEMMA EnumerateGoesOn ==
    ASSUME IInv, Progress, StepEnumerate
    PROVE  Progress'
<1>1. call.op \in {"enumerate", "reverse"} /\ Enumerating /\ call.at # dataCount + 1
  BY DEF StepEnumerate, Running, Enumerating, Finished
<1>2. PICK n, m, seen : n = Done /\ m = dataCount /\ seen = call.seen
  OBVIOUS
<1>3. /\ n \in Nat /\ m \in Nat /\ call.at = n + 1 /\ seen \in Seq(Data) /\ Len(seen) = n /\ n <= m
      /\ call \in Calls
  BY <1>1, <1>2, LoopTypes DEF Progress, Walking
<1>4. n + 1 <= m
  BY <1>1, <1>2, <1>3
<1>5. PICK i : i = IF call.op = "enumerate" THEN n + 1 ELSE m + 1 - (n + 1)
  OBVIOUS
<1>6. i \in 1 .. m /\ i = IF call.op = "enumerate" THEN call.at ELSE dataCount - call.at + 1
  BY <1>2, <1>3, <1>4, <1>5
<1>7. /\ call' = [call EXCEPT !.at = @ + 1, !.seen = Append(@, Contents[i])]
      /\ UNCHANGED aborted
      /\ \/ UNCHANGED <<store, count>>
         \/ call.op = "enumerate" /\ \E d \in Data : AddData(d)
  BY <1>2, <1>6 DEF StepEnumerate
<1>8. PICK t : t = Append(seen, Contents[i])
  OBVIOUS
<1>9. /\ call'.op = call.op /\ call'.self = call.self /\ call'.indexes = call.indexes
      /\ call'.count = call.count /\ call'.at = n + 2 /\ call'.seen = t
  BY <1>2, <1>3, <1>7, <1>8 DEF Calls
<1>10. Done' = n + 1
  BY <1>3, <1>9 DEF Done
<1>11. /\ dataCount' \in {m, m + 1}
       /\ call.op = "reverse" => dataCount' = m
       /\ \A k \in 1 .. m : Contents'[k] = Contents[k]
  <2>1. CASE UNCHANGED <<store, count>>
    BY <1>2, <2>1, StoreUnchanged
  <2>2. CASE call.op = "enumerate" /\ \E d \in Data : AddData(d)
    BY <1>2, <2>2, AddedLast
  <2> QED
    BY <1>7, <2>1, <2>2
<1>12. /\ Len(t) = n + 1 /\ t[n + 1] = Contents[i] /\ \A k \in 1 .. n : t[k] = seen[k]
  <2>1. Contents[i] \in Data
    BY <1>2, <1>6, LoopTypes
  <2> QED
    BY <1>3, <1>8, <2>1
<1>13. Walking'
  <2>1. Len(t) = n + 1 /\ n + 1 <= dataCount'
    BY <1>3, <1>4, <1>11, <1>12
  <2>2. ASSUME call.op = "enumerate", NEW k \in 1 .. n + 1
        PROVE  t[k] = Contents'[k]
    <3>1. \A j \in 1 .. n : seen[j] = Contents[j]
      BY <1>2, <2>2 DEF Progress, Walking
    <3>2. k \in 1 .. n \/ k = n + 1
      BY <1>3
    <3> QED
      BY <1>3, <1>4, <1>5, <1>11, <1>12, <2>2, <3>1, <3>2
  <2>3. ASSUME call.op = "reverse", NEW k \in 1 .. n + 1
        PROVE  t[k] = Contents'[m + 1 - k]
    <3>1. \A j \in 1 .. n : seen[j] = Contents[m + 1 - j]
      BY <1>2, <2>3 DEF Progress, Walking
    <3>2. (k \in 1 .. n \/ k = n + 1) /\ m + 1 - k \in 1 .. m
      BY <1>3, <1>4
    <3> QED
      BY <1>5, <1>11, <1>12, <2>3, <3>1, <3>2
  <2> QED
    BY <1>2, <1>9, <1>10, <1>11, <2>1, <2>2, <2>3 DEF Walking
<1>14. Counting' /\ ~ aborted'
  <2>1. Enumerating'
    BY <1>1, <1>9 DEF Enumerating
  <2> QED
    BY <1>1, <1>7, <1>9, <2>1 DEF Progress, Counting
<1> QED
  BY <1>1, <1>9, <1>13, <1>14
     DEF Progress, Adding, Setting, Selecting, Inserting, Replacing, RemovingIndexes, RemovingRange,
         RemovingIn

\* A program between two calls
LEMMA IdleProgress ==
    ASSUME call' = NoCall, ~ aborted'
    PROVE  Progress'
<1>1. call'.op = "none" /\ call'.at = 1 /\ call'.count = 0 /\ ~ call'.self
  BY DEF NoCall
<1>2. ~ Enumerating'
  BY <1>1 DEF Enumerating
<1>3. Counting'
  BY <1>1, <1>2 DEF Counting
<1> QED
  BY <1>1, <1>2, <1>3
     DEF Progress, Adding, Setting, Selecting, Inserting, Replacing, RemovingIndexes, RemovingRange,
         RemovingIn, Walking

LEMMA LoopProgress ==
    ASSUME IInv, MaxLength <= MaxCount, Progress, Step
    PROVE  Progress'
<1>1. CASE Return
  BY <1>1, IdleProgress DEF Return, Progress
<1> QED
  BY <1>1, AddGoesOn, SelectGoesOn, InsertGoesOn, ReplaceGoesOn, RemoveIndexGoesOn,
     RemoveRangeGoesOn, RemoveInGoesOn, EnumerateGoesOn DEF Step

LEMMA ClientProgress ==
    ASSUME Progress, Client
    PROVE  Progress'
<1>1. call = NoCall /\ UNCHANGED <<call, aborted>>
  BY DEF Client, ClientAdd, ClientAddSorted, ClientInsert, ClientReplace, ClientRemoveAt,
         ClientRemove, ClientRemoveLast, ClientRemoveAll, ClientSort, ClientReverse, Ready
<1> QED
  BY <1>1, IdleProgress DEF Progress

\* A loop begins.
LEMMA BeginProgress ==
    ASSUME IInv, Progress, ~ Anywhere, BeginCall
    PROVE  Progress'
<1>1. /\ dataCount \in Nat /\ Contents \in Seq(Data) /\ Len(Contents) = dataCount
      /\ DOMAIN Contents = 1 .. dataCount
  BY InvImpliesLayout, ContentsAreData DEF Layout
<1>2. \A s \in Others : s \in Seq(Data)
  BY ArgumentAssumption
<1>3. \A s \in IndexSets : s \in Seq(Nat \ {0})
  BY ArgumentAssumption
<1>4. ~ aborted
  BY DEF Progress
<1>5. ASSUME NEW c, Begin(c)
      PROVE  /\ call' = c /\ ~ aborted' /\ dataCount' = dataCount /\ Contents' = Contents
  BY <1>4, <1>5, StoreUnchanged DEF Begin
<1>6. ASSUME NEW op, NEW self, NEW o, NEW ix, NEW n
      PROVE  LET c == Call(op, self, o, ix, n) IN
             /\ c.op = op /\ c.self = self /\ c.other = o /\ c.indexes = ix /\ c.at = 1
             /\ c.count = n /\ c.before = Contents /\ c.seen = <<>>
  BY DEF Call
<1>7. CASE BeginAdd
  <2>1. PICK self \in BOOLEAN, other \in Others :
           Begin(Call("add", self, IF self THEN <<>> ELSE other, <<>>,
                      IF self THEN dataCount ELSE Len(other)))
    BY <1>7 DEF BeginAdd
  <2>2. PICK o, n : o = (IF self THEN <<>> ELSE other) /\ n = IF self THEN dataCount ELSE Len(other)
    OBVIOUS
  <2>3. /\ call'.op = "add" /\ call'.self = self /\ call'.other = o /\ call'.at = 1
        /\ call'.count = n /\ call'.before = Contents /\ ~ aborted' /\ dataCount' = dataCount
        /\ Contents' = Contents
    BY <1>5, <1>6, <2>1, <2>2
  <2>4. n \in Nat /\ n = Len(IF self THEN Contents ELSE o)
    BY <1>1, <1>2, <2>2
  <2>5. Counting' /\ ~ Enumerating'
    BY <2>3, <2>4 DEF Counting, Enumerating
  <2>6. Adding'
    <3>1. Argument' = (IF self THEN Contents ELSE o) /\ Done' = 0
      BY <2>3 DEF Argument, Done
    <3> QED
      BY <1>1, <2>3, <2>4, <3>1 DEF Adding
  <2> QED
    BY <2>3, <2>5, <2>6
       DEF Progress, Setting, Selecting, Inserting, Replacing, RemovingIndexes, RemovingRange,
           RemovingIn, Walking
<1>8. CASE BeginInsert
  <2>1. PICK other \in Others, indexes \in IndexSets :
           /\ Len(other) = Len(indexes)
           /\ \/ \A k \in DOMAIN indexes : indexes[k] <= dataCount + k - 1
              \/ dataCount = 0 /\ indexes = <<1>>
           /\ Begin(Call("insert", FALSE, other, indexes, Len(indexes)))
    BY <1>8 DEF BeginInsert
  <2>2. /\ call'.op = "insert" /\ ~ call'.self /\ call'.other = other /\ call'.indexes = indexes
        /\ call'.at = 1 /\ call'.count = Len(indexes) /\ call'.before = Contents /\ ~ aborted'
        /\ dataCount' = dataCount /\ Contents' = Contents
    BY <1>5, <2>1 DEF Call
  <2>3. Len(indexes) \in Nat /\ DOMAIN indexes = 1 .. Len(indexes)
    BY <1>3
  <2>4. Counting' /\ ~ Enumerating' /\ Done' = 0
    BY <2>2, <2>3 DEF Counting, Enumerating, Done
  <2>5. IsWithout(Contents, Contents, {})
    <3> DEFINE p == [k \in 1 .. dataCount |-> k]
    <3>1. Keeps(p, Contents, Contents, {})
      BY <1>1 DEF Keeps
    <3> HIDE DEF p
    <3> QED
      BY <3>1 DEF IsWithout, Keeps
  <2>6. Inserting'
    <3>1. {indexes[k] : k \in 1 .. 0} = {}
      OBVIOUS
    <3> QED
      BY <2>1, <2>2, <2>3, <2>4, <2>5, <3>1 DEF Inserting
  <2> QED
    BY <2>2, <2>4, <2>6
       DEF Progress, Adding, Setting, Selecting, Replacing, RemovingIndexes, RemovingRange,
           RemovingIn, Walking
<1>9. CASE BeginReplace
  <2>1. PICK self \in BOOLEAN, other \in Others, indexes \in IndexSets :
           /\ Len(indexes) = IF self THEN dataCount ELSE Len(other)
           /\ \A k \in DOMAIN indexes : indexes[k] <= dataCount /\ (Anywhere \/ indexes[k] = k)
           /\ Begin(Call("replace", self, IF self THEN <<>> ELSE other, indexes, Len(indexes)))
    BY <1>9 DEF BeginReplace
  <2>2. PICK o, n : o = (IF self THEN <<>> ELSE other) /\ n = Len(indexes)
    OBVIOUS
  <2>3. /\ call'.op = "replace" /\ call'.self = self /\ call'.other = o /\ call'.at = 1
        /\ call'.indexes = indexes /\ call'.count = n /\ call'.before = Contents /\ ~ aborted'
        /\ dataCount' = dataCount /\ Contents' = Contents
    BY <1>5, <1>6, <2>1, <2>2
  <2>4. n \in Nat /\ DOMAIN indexes = 1 .. n /\ n = Len(IF self THEN Contents ELSE o)
    BY <1>1, <1>3, <2>1, <2>2
  <2>5. \A k \in 1 .. n : indexes[k] = k
    BY <2>1, <2>4
  <2>6. n <= dataCount
    <3>1. n > 0 => n \in DOMAIN indexes /\ indexes[n] <= dataCount /\ indexes[n] = n
      BY <2>1, <2>4, <2>5
    <3> QED
      BY <1>1, <2>4, <3>1
  <2>7. Counting' /\ ~ Enumerating'
    BY <2>2, <2>3, <2>4 DEF Counting, Enumerating
  <2>8. Replacing'
    <3>1. Argument' = IF self THEN Contents ELSE o
      BY <2>3 DEF Argument
    <3> QED
      BY <1>1, <2>3, <2>4, <2>5, <2>6, <3>1 DEF Replacing
  <2> QED
    BY <2>3, <2>7, <2>8
       DEF Progress, Adding, Setting, Selecting, Inserting, RemovingIndexes, RemovingRange,
           RemovingIn, Walking
<1>10. CASE BeginRemoveIndexes
  <2>1. PICK indexes \in IndexSets :
           /\ \A k \in DOMAIN indexes : indexes[k] <= dataCount
           /\ Begin(Call("removeIndexes", FALSE, <<>>, indexes, Len(indexes)))
    BY <1>10 DEF BeginRemoveIndexes
  <2>2. /\ call'.op = "removeIndexes" /\ ~ call'.self /\ call'.indexes = indexes
        /\ call'.at = 1 /\ call'.count = Len(indexes) /\ call'.before = Contents /\ ~ aborted'
        /\ dataCount' = dataCount /\ Contents' = Contents
    BY <1>5, <2>1 DEF Call
  <2>3. /\ Len(indexes) \in Nat /\ DOMAIN indexes = 1 .. Len(indexes)
        /\ \A k \in 1 .. Len(indexes) : indexes[k] \in Nat \ {0}
    BY <1>3
  <2>4. Counting' /\ ~ Enumerating' /\ Done' = 0
    BY <2>2, <2>3 DEF Counting, Enumerating, Done
  <2>5. \A k \in 1 .. Len(indexes) : indexes[k] - 0 \in 1 .. dataCount
    BY <1>1, <2>1, <2>3
  <2> DEFINE p == [k \in 1 .. dataCount |-> k]
  <2>6. /\ Keeps(p, Contents, Contents, {}) /\ p \in [1 .. dataCount -> Nat]
        /\ \A j \in 1 .. dataCount : p[j] = j + 0
    BY <1>1 DEF Keeps
  <2>7. RemovingIndexes'
    <3> HIDE DEF p
    <3>1. {indexes[k] : k \in 1 .. 0} = {}
      OBVIOUS
    <3> QED
      BY <2>2, <2>4, <2>5, <2>6, <3>1 DEF RemovingIndexes
  <2> QED
    BY <2>2, <2>4, <2>7
       DEF Progress, Adding, Setting, Selecting, Inserting, Replacing, RemovingRange,
           RemovingIn, Walking
<1>11. CASE BeginRemoveRange
  <2>1. PICK location \in 1 .. MaxLength, n \in 0 .. MaxLength :
           /\ location + n - 1 <= dataCount
           /\ Begin(Call("removeRange", FALSE, <<>>, <<location>>, n))
    BY <1>11 DEF BeginRemoveRange
  <2>2. /\ call'.op = "removeRange" /\ ~ call'.self /\ call'.indexes = <<location>>
        /\ call'.at = 1 /\ call'.count = n /\ call'.before = Contents /\ ~ aborted'
        /\ dataCount' = dataCount /\ Contents' = Contents
    BY <1>5, <2>1 DEF Call
  <2>3. n \in Nat /\ location \in Nat
    BY SizeAssumption
  <2>4. Counting' /\ ~ Enumerating' /\ Done' = 0
    BY <2>2, <2>3 DEF Counting, Enumerating, Done
  <2>5. RemovingRange'
    <3>1. \A j \in 1 .. dataCount : j + 0 = j
      OBVIOUS
    <3> QED
      BY <1>1, <2>1, <2>2, <2>4, <3>1 DEF RemovingRange
  <2> QED
    BY <2>2, <2>4, <2>5
       DEF Progress, Adding, Setting, Selecting, Inserting, Replacing, RemovingIndexes,
           RemovingIn, Walking
<1>12. CASE BeginRemoveIn
  <2>1. PICK other \in Others : Begin(Call("removeIn", FALSE, other, <<>>, Len(other)))
    BY <1>12 DEF BeginRemoveIn
  <2>2. /\ call'.op = "removeIn" /\ ~ call'.self /\ call'.other = other
        /\ call'.at = 1 /\ call'.count = Len(other) /\ call'.before = Contents /\ ~ aborted'
        /\ dataCount' = dataCount /\ Contents' = Contents
    BY <1>5, <2>1 DEF Call
  <2>3. Len(other) \in Nat
    BY <1>2
  <2>4. Counting' /\ ~ Enumerating' /\ Done' = 0
    BY <2>2, <2>3 DEF Counting, Enumerating, Done
  <2> DEFINE b == [k \in 1 .. 0 |-> other[k]]
  <2>5. Matched(Contents, b) = {}
    <3>1. \A w : Counted(b, w) = {}
      BY DEF Counted
    <3>2. \A w : Cardinality(Counted(b, w)) = 0
      BY <3>1, FS_EmptySet
    <3> HIDE DEF b
    <3>3. ASSUME NEW i \in 1 .. dataCount
          PROVE  ~ (Cardinality(Upto(Contents, i)) <= 0)
      <4>1. IsFiniteSet(Upto(Contents, i)) /\ Cardinality(Upto(Contents, i)) \in Nat
        BY <1>1, RanksGrow
      <4>2. i \in Upto(Contents, i)
        BY DEF Upto
      <4> QED
        BY <4>1, <4>2, FS_EmptySet
    <3> QED
      BY <1>1, <3>2, <3>3, MatchedIs
  <2>6. IsWithout(Contents, Contents, {})
    <3> DEFINE p == [k \in 1 .. dataCount |-> k]
    <3>1. Keeps(p, Contents, Contents, {})
      BY <1>1 DEF Keeps
    <3> HIDE DEF p
    <3> QED
      BY <3>1 DEF IsWithout, Keeps
  <2>7. RemovingIn'
    BY <2>2, <2>4, <2>5, <2>6 DEF RemovingIn
  <2> QED
    BY <2>2, <2>4, <2>7
       DEF Progress, Adding, Setting, Selecting, Inserting, Replacing, RemovingIndexes,
           RemovingRange, Walking
<1>13. CASE BeginEnumeration
  <2>1. PICK op \in {"enumerate", "reverse"} : Begin(Call(op, FALSE, <<>>, <<>>, dataCount))
    BY <1>13 DEF BeginEnumeration
  <2>2. /\ call'.op = op /\ ~ call'.self /\ call'.at = 1 /\ call'.seen = <<>> /\ ~ aborted'
        /\ dataCount' = dataCount
    BY <1>5, <2>1 DEF Call
  <2>3. Enumerating' /\ Done' = 0
    BY <2>2 DEF Enumerating, Done
  <2>4. Counting'
    BY <2>2, <2>3 DEF Counting
  <2>5. Walking'
    BY <1>1, <2>2, <2>3 DEF Walking
  <2> QED
    BY <2>2, <2>4, <2>5
       DEF Progress, Adding, Setting, Selecting, Inserting, Replacing, RemovingIndexes,
           RemovingRange, RemovingIn
<1>14. CASE BeginSet
  <2>1. PICK other \in Others :
           /\ Emptied /\ call' = Call("set", FALSE, other, <<>>, Len(other)) /\ UNCHANGED aborted
    BY <1>14 DEF BeginSet
  <2>2. /\ call'.op = "set" /\ ~ call'.self /\ call'.other = other /\ call'.at = 1
        /\ call'.count = Len(other) /\ ~ aborted' /\ dataCount' = 0
    BY <1>4, <2>1 DEF Emptied, Call
  <2>3. Len(other) \in Nat
    BY <1>2
  <2>4. Counting' /\ ~ Enumerating' /\ Done' = 0
    BY <2>2, <2>3 DEF Counting, Enumerating, Done
  <2>5. Setting'
    BY <2>2, <2>4 DEF Setting
  <2> QED
    BY <2>2, <2>4, <2>5
       DEF Progress, Adding, Selecting, Inserting, Replacing, RemovingIndexes, RemovingRange,
           RemovingIn, Walking
<1>15. CASE BeginSelect
  <2>1. PICK indexes \in IndexSets \cup {[k \in 1 .. dataCount |-> k]} :
           /\ dataCount' = 0 /\ UNCHANGED aborted
           /\ call' = Call("select", FALSE, Contents, indexes, Len(indexes))
    BY <1>15 DEF BeginSelect
  <2>2. /\ call'.op = "select" /\ ~ call'.self /\ call'.other = Contents /\ call'.at = 1
        /\ call'.count = Len(indexes) /\ call'.before = Contents /\ ~ aborted'
        /\ dataCount' = 0 /\ call'.indexes = indexes
    BY <1>4, <2>1 DEF Call
  <2>3. Len(indexes) \in Nat
    BY <1>1, <1>3
  <2>4. Counting' /\ ~ Enumerating' /\ Done' = 0
    BY <2>2, <2>3 DEF Counting, Enumerating, Done
  <2>5. Selecting'
    <3>1. 1 .. dataCount' = {} /\ call'.before = call'.other
      BY <2>2
    <3> QED
      BY <2>2, <2>4, <3>1 DEF Selecting
  <2> QED
    BY <2>2, <2>4, <2>5
       DEF Progress, Adding, Setting, Inserting, Replacing, RemovingIndexes, RemovingRange,
           RemovingIn, Walking
<1> QED
  BY <1>7, <1>8, <1>9, <1>10, <1>11, <1>12, <1>13, <1>14, <1>15 DEF BeginCall

LEMMA ProgressInit == Init => Progress
<1> SUFFICES ASSUME Init PROVE Progress
  OBVIOUS
<1>1. call.op = "none" /\ call.at = 1 /\ call.count = 0 /\ ~ call.self /\ ~ aborted
  BY DEF Init, NoCall
<1>2. ~ Enumerating
  BY <1>1 DEF Enumerating
<1>3. Counting
  BY <1>1, <1>2 DEF Counting
<1> QED
  BY <1>1, <1>2, <1>3
     DEF Progress, Adding, Setting, Selecting, Inserting, Replacing, RemovingIndexes, RemovingRange,
         RemovingIn, Walking

LEMMA ProgressStep ==
    ASSUME MaxLength <= MaxCount, ~ Anywhere
    PROVE  IInv /\ Progress /\ [Next]_vars => Progress'
<1> SUFFICES ASSUME IInv, Progress, [Next]_vars PROVE Progress'
  OBVIOUS
<1>1. CASE Next
  BY <1>1, ClientProgress, BeginProgress, LoopProgress DEF Next
<1>2. CASE UNCHANGED vars
  <2>1. UNCHANGED <<Contents, dataCount, call, aborted>>
    BY <1>2, StoreUnchanged DEF vars
  <2>2. /\ Argument' = Argument /\ Done' = Done /\ Enumerating' = Enumerating
    BY <2>1 DEF Argument, Done, Enumerating
  <2>3. /\ Counting' = Counting /\ Adding' = Adding /\ Setting' = Setting
        /\ Selecting' = Selecting /\ Inserting' = Inserting /\ Replacing' = Replacing
    BY <2>1, <2>2 DEF Counting, Adding, Setting, Selecting, Inserting, Replacing
  <2>4. /\ RemovingIndexes' = RemovingIndexes /\ RemovingRange' = RemovingRange
        /\ RemovingIn' = RemovingIn /\ Walking' = Walking
    BY <2>1, <2>2 DEF RemovingIndexes, RemovingRange, RemovingIn, Walking
  <2> QED
    BY <2>1, <2>3, <2>4 DEF Progress
<1> QED
  BY <1>1, <1>2

-----------------------------------------------------------------------------
(* What the loops have done when they end *)

LEMMA EndOfCount ==
    ASSUME IInv, Progress, Finished, ~ Enumerating
    PROVE  Done = call.count
BY LoopTypes DEF Finished, Progress, Counting

LEMMA AddEnds ==
    ASSUME IInv, Progress, Finished, call.op = "add"
    PROVE  Contents = call.before \o Argument
<1>1. PICK b, o, m, t : b = call.before /\ o = Argument /\ m = Len(b) /\ t = b \o o
  OBVIOUS
<1>2. b \in Seq(Data) /\ o \in Seq(Data) /\ m \in Nat /\ Contents \in Seq(Data)
  BY <1>1, LoopTypes
<1>3. Len(Contents) = dataCount /\ dataCount = m + Len(o)
  <2>1. Done = call.count
    BY EndOfCount DEF Enumerating
  <2> QED
    BY <1>1, <2>1, LoopTypes DEF Progress, Adding
<1>4. /\ t \in Seq(Data) /\ Len(t) = m + Len(o)
      /\ \A i \in 1 .. m + Len(o) : t[i] = IF i <= m THEN b[i] ELSE o[i - m]
  BY <1>1, <1>2
<1>5. \A i \in 1 .. dataCount : Contents[i] = IF i <= m THEN b[i] ELSE o[i - m]
  BY <1>1 DEF Progress, Adding
<1>6. \A i \in 1 .. Len(t) : Contents[i] = t[i]
  BY <1>3, <1>4, <1>5
<1>7. Len(t) = Len(Contents)
  BY <1>3, <1>4
<1>8. t = Contents
  BY <1>2, <1>4, <1>6, <1>7, SeqEqual
<1>9. t = call.before \o Argument
  BY <1>1
<1> QED
  BY <1>8, <1>9

LEMMA SetEnds ==
    ASSUME IInv, Progress, Finished, call.op = "set"
    PROVE  Contents = Argument
<1>1. PICK o : o = call.other
  OBVIOUS
<1>2. o \in Seq(Data) /\ Contents \in Seq(Data) /\ Argument = o
  BY <1>1, LoopTypes DEF Argument, Progress, Counting
<1>3. Len(Contents) = dataCount /\ dataCount = Len(o)
  BY <1>1, LoopTypes, EndOfCount DEF Progress, Setting, Enumerating
<1>4. \A i \in 1 .. Len(o) : Contents[i] = o[i]
  BY <1>1, <1>3 DEF Progress, Setting
<1> QED
  BY <1>2, <1>3, <1>4, SeqEqual

LEMMA SelectEnds ==
    ASSUME IInv, Progress, Finished, call.op = "select"
    PROVE  Contents = [k \in DOMAIN call.indexes |-> call.before[call.indexes[k]]]
<1>1. DOMAIN call.indexes = 1 .. dataCount
  BY LoopTypes, EndOfCount DEF Progress, Selecting, Enumerating
<1>2. DOMAIN Contents = 1 .. dataCount /\ Contents = [k \in 1 .. dataCount |-> Contents[k]]
  BY LoopTypes DEF Contents
<1> QED
  BY <1>1, <1>2 DEF Progress, Selecting

LEMMA IndexRange ==
    ASSUME IInv, Progress, Finished, call.op \in {"insert", "replace", "removeIndexes"}
    PROVE  /\ {call.indexes[k] : k \in 1 .. Done} = Range(call.indexes)
           /\ DOMAIN call.indexes = 1 .. Done /\ Done = call.count /\ call.at = Done + 1
<1>1. Done = call.count
  BY EndOfCount DEF Enumerating
<1> QED
  BY <1>1, IndexesInOrder, LoopTypes DEF Range

LEMMA InsertEnds ==
    ASSUME IInv, Progress, Finished, call.op = "insert"
    PROVE  /\ \A k \in DOMAIN call.indexes : Contents[call.indexes[k]] = Argument[k]
           /\ IsWithout(call.before, Contents, Range(call.indexes))
<1>1. Argument = call.other
  BY DEF Argument, Progress, Counting
<1> QED
  BY <1>1, IndexRange DEF Progress, Inserting

LEMMA ReplaceEnds ==
    ASSUME IInv, Progress, Finished, call.op = "replace"
    PROVE  /\ \A k \in DOMAIN call.indexes : Contents[call.indexes[k]] = Argument[k]
           /\ \A i \in DOMAIN call.before \ Range(call.indexes) : Contents[i] = call.before[i]
           /\ Len(Contents) = Len(call.before)
<1>1. PICK n, b, x, o : n = Done /\ b = call.before /\ x = call.indexes /\ o = Argument
  OBVIOUS
<1>2. /\ n \in Nat /\ n <= dataCount /\ Len(b) = dataCount /\ DOMAIN x = 1 .. n /\ call.at = n + 1
      /\ \A k \in 1 .. n : x[k] = k
  BY <1>1, IndexRange, LoopTypes DEF Progress, Replacing
<1>3. \A i \in 1 .. dataCount : Contents[i] = IF i < n + 1 THEN o[i] ELSE b[i]
  BY <1>1, <1>2 DEF Progress, Replacing
<1>4. dataCount \in Nat /\ Len(Contents) = dataCount /\ DOMAIN b = 1 .. dataCount
  BY <1>1, <1>2, LoopTypes
<1>5. \A k \in DOMAIN x : Contents[x[k]] = o[k]
  BY <1>2, <1>3, <1>4
<1>6. ASSUME NEW i \in DOMAIN b \ Range(x) PROVE Contents[i] = b[i]
  <2>1. ~ (i < n + 1)
    BY <1>2, <1>4 DEF Range
  <2> QED
    BY <1>3, <1>4, <2>1
<1> QED
  BY <1>1, <1>2, <1>4, <1>5, <1>6

LEMMA RemoveIndexesEnds ==
    ASSUME IInv, Progress, Finished, call.op = "removeIndexes"
    PROVE  IsWithout(Contents, call.before, Range(call.indexes))
<1>1. PICK p \in [1 .. dataCount -> Nat] : Keeps(p, Contents, call.before, Range(call.indexes))
  BY IndexRange DEF Progress, RemovingIndexes
<1> QED
  BY <1>1 DEF IsWithout, Keeps

LEMMA RemoveRangeEnds ==
    ASSUME IInv, Progress, Finished, call.op = "removeRange"
    PROVE  IsWithout(Contents, call.before,
                     call.indexes[1] .. call.indexes[1] + call.count - 1)
<1>1. PICK n, a, b, m : n = Done /\ b = call.before /\ a = call.indexes[1] /\ m = dataCount
  OBVIOUS
<1>2. /\ n \in Nat /\ call.count = n /\ call.at = n + 1 /\ m \in Nat /\ a \in Nat \ {0}
      /\ DOMAIN Contents = 1 .. m /\ b \in Seq(Data)
  BY <1>1, LoopTypes, EndOfCount DEF Enumerating, IInv, CallFits
<1>3. /\ Len(b) = m + n /\ a + n - (n + 1) <= m
      /\ \A i \in 1 .. m : Contents[i] = b[IF i < a THEN i ELSE i + n]
  BY <1>1, <1>2 DEF Progress, RemovingRange
<1>4. a - 1 <= m /\ DOMAIN b = 1 .. m + n
  BY <1>2, <1>3
<1> DEFINE S == a .. a + n - 1
           p == [i \in 1 .. m |-> IF i < a THEN i ELSE i + n]
<1>5. /\ DOMAIN p = 1 .. m
      /\ \A i \in 1 .. m : p[i] = (IF i < a THEN i ELSE i + n) /\ p[i] \in (1 .. m + n) \ S
  BY <1>2, <1>4
<1>6. \A i, j \in 1 .. m : i < j => p[i] < p[j]
  BY <1>2, <1>5
<1>7. ASSUME NEW j \in (1 .. m + n) \ S PROVE \E i \in 1 .. m : p[i] = j
  <2>1. CASE j < a
    BY <1>2, <1>4, <1>5, <2>1
  <2>2. CASE ~ (j < a)
    <3>1. j - n \in 1 .. m /\ ~ (j - n < a) /\ (j - n) + n = j
      BY <1>2, <1>4, <1>7, <2>2
    <3> QED
      BY <1>5, <3>1
  <2> QED
    BY <2>1, <2>2
<1>8. p \in [1 .. m -> (1 .. m + n) \ S]
  BY <1>5
<1> HIDE DEF p
<1>9. \A i \in 1 .. m : Contents[i] = b[p[i]]
  BY <1>3, <1>5
<1>10. Keeps(p, Contents, b, S)
  <2> HIDE DEF S
  <2> QED
    BY <1>2, <1>4, <1>6, <1>7, <1>8, <1>9 DEF Keeps
<1>11. IsWithout(Contents, b, S)
  BY <1>10 DEF IsWithout, Keeps
<1> QED
  BY <1>1, <1>2, <1>11

LEMMA RemoveInEnds ==
    ASSUME IInv, Progress, Finished, call.op = "removeIn"
    PROVE  IsWithout(Contents, call.before, Matched(call.before, Argument))
<1>1. PICK o : o = call.other
  OBVIOUS
<1>2. o \in Seq(Data) /\ Argument = o /\ Done = Len(o)
  BY <1>1, LoopTypes, EndOfCount DEF Argument, Progress, Counting, Enumerating, RemovingIn
<1>3. o = [k \in 1 .. Done |-> o[k]]
  BY <1>2
<1> QED
  BY <1>1, <1>2, <1>3 DEF Progress, RemovingIn

LEMMA EnumerationEnds ==
    ASSUME IInv, Progress, Finished, Enumerating
    PROVE  /\ call.op = "enumerate" => call.seen = Contents
           /\ call.op = "reverse" => call.seen = Reverse(Contents)
<1>1. PICK v, r : v = call.seen /\ r = Reverse(Contents)
  OBVIOUS
<1>2. /\ v \in Seq(Data) /\ Contents \in Seq(Data) /\ Len(v) = dataCount /\ Len(Contents) = dataCount
      /\ Done = dataCount /\ dataCount \in Nat
  BY <1>1, LoopTypes DEF Finished, Progress, Walking
<1>3. ASSUME call.op = "enumerate" PROVE v = Contents
  <2>1. \A k \in 1 .. dataCount : v[k] = Contents[k]
    BY <1>1, <1>2, <1>3 DEF Progress, Walking
  <2> QED
    BY <1>2, <2>1, SeqEqual
<1>4. ASSUME call.op = "reverse" PROVE v = r
  <2>1. \A k \in 1 .. dataCount : v[k] = Contents[dataCount + 1 - k]
    BY <1>1, <1>2, <1>4 DEF Progress, Walking
  <2>2. r = [k \in 1 .. dataCount |-> Contents[(dataCount - k) + 1]]
    BY <1>1, <1>2 DEF Reverse
  <2>3. \A k \in 1 .. dataCount : dataCount + 1 - k = (dataCount - k) + 1
    BY <1>2
  <2>4. v = [k \in 1 .. dataCount |-> v[k]]
    BY <1>2
  <2> QED
    BY <2>1, <2>2, <2>3, <2>4
<1> QED
  BY <1>1, <1>3, <1>4

LEMMA ProgressIsEnough == IInv /\ Progress => CallsDoAsTheySay
<1> SUFFICES ASSUME IInv, Progress PROVE CallsDoAsTheySay
  OBVIOUS
<1>1. NoAbort
  BY DEF Progress, NoAbort
<1>2. Argument = IF call.self THEN call.before ELSE call.other
  BY DEF Argument
<1> QED
  BY <1>1, <1>2, AddEnds, SetEnds, SelectEnds, InsertEnds, ReplaceEnds, RemoveIndexesEnds,
     RemoveRangeEnds, RemoveInEnds, EnumerationEnds DEF CallsDoAsTheySay, Enumerating

\* At the end of each loop the function has done what its name says, and no index was ever
\* out of bounds on the way.  Not where callers replace at any indexes: see array_replace.
THEOREM CallsAlwaysDoAsTheySay ==
    ASSUME MaxLength <= MaxCount, ~ Anywhere PROVE Spec => []CallsDoAsTheySay
BY InvInit, InvStep, ProgressInit, ProgressStep, ProgressIsEnough, PTL DEF Spec

=============================================================================
