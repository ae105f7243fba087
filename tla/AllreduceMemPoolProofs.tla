----------------------- MODULE AllreduceMemPoolProofs -----------------------
(***************************************************************************)
(* The memory pool never hands an element out twice, never loses one, and  *)
(* implements AllreducePoolSpec, for every set of addresses, every initial *)
(* size and every place where malloc may fail.                             *)
(***************************************************************************)
EXTENDS AllreduceMemPool, FiniteSetTheorems, TLAPS

(***************************************************************************)
(* The inductive invariant: the three checked invariants, and that callers *)
(* hold finitely many elements, none before or after a failed creation,    *)
(* and that a pool in use has room for at least one element (so that       *)
(* doubling it makes room).                                                *)
(***************************************************************************)
Inv == /\ TypeOK
       /\ NoSharing
       /\ NoLeak
       /\ IsFiniteSet(held)
       /\ phase \in {"none", "failed", "noarray"} => held = {}
       /\ phase = "up" => size > 0

\* The initial state satisfies the inductive invariant.
LEMMA InitInv == Init => Inv
  BY PoolAssumption, FS_EmptySet
     DEF Init, Inv, TypeOK, NoSharing, NoLeak, Live, FreePart

\* Returning a block R of n distinct held elements lowers the number held by n.
LEMMA BlockCardinality ==
  ASSUME NEW S, IsFiniteSet(S), NEW n \in Nat, NEW R,
         NEW vecs \in [0..(n - 1) -> S],
         \A i, j \in 0..(n - 1) : vecs[i] = vecs[j] => i = j,
         R = {vecs[i] : i \in 0..(n - 1)}
  PROVE  /\ IsFiniteSet(S \ R)
         /\ Cardinality(S \ R) = Cardinality(S) - n
<1>1. /\ IsFiniteSet(0..(n - 1))
      /\ Cardinality(0..(n - 1)) = n
  BY FS_Interval
<1>2. vecs \in [0..(n - 1) -> R] /\ \A r \in R : \E i \in 0..(n - 1) : vecs[i] = r
  OBVIOUS
<1>3. vecs \in Bijection(0..(n - 1), R)
  BY <1>2 DEF Bijection, Injection, Surjection, IsInjective
<1>4. IsFiniteSet(R) /\ Cardinality(R) = n
  BY <1>1, <1>3, FS_Bijection DEF ExistsBijection
<1>5. R \subseteq S /\ S \cap R = R
  OBVIOUS
<1>6. /\ IsFiniteSet(S \ R)
      /\ Cardinality(S \ R) = Cardinality(S) - Cardinality(S \cap R)
  BY FS_Difference
<1> QED
  BY <1>4, <1>5, <1>6

\* What a fill of [start, end) leaves behind: the entries below start are kept, the
\* free part holds new elements only, and the heap grows by exactly those.
LEMMA PopulateFacts ==
  ASSUME NEW start \in Nat, NEW end \in Nat, NEW last \in start..end,
         NEW g \in Obtained(start, last),
         Populate(stack, start, end, last, g),
         \A i \in 0..(start - 1) : stack[i] \in Elems \cup {Null}
  PROVE  /\ size' = last
         /\ DOMAIN stack' = 0..(end - 1)
         /\ stack' \in [DOMAIN stack' -> Elems \cup {Null}]
         /\ \A i \in start..(last - 1) : stack'[i] = g[i] /\ g[i] \in Elems \ heap
         /\ \A i, j \in start..(last - 1) : g[i] = g[j] => i = j
         /\ heap' = heap \cup {g[i] : i \in start..(last - 1)}
  BY DEF Populate, Obtained

\* Returning a block puts exactly its elements into the free part.
LEMMA FreeManyFreePart ==
  ASSUME Inv, NEW n \in 0..Cardinality(held), NEW vecs \in [0..(n - 1) -> held],
         FreeMany(vecs, n)
  PROVE  FreePart' = FreePart \cup {vecs[i] : i \in 0..(n - 1)}
<1> DEFINE R == {vecs[i] : i \in 0..(n - 1)}
<1>1. /\ head' = head - n /\ size' = size
      /\ stack' = [i \in DOMAIN stack |->
                      IF i \in (head - n)..(head - 1) THEN vecs[head - 1 - i] ELSE stack[i]]
      /\ Live
  BY DEF FreeMany, Live
<1>2. /\ Cardinality(held) \in Nat /\ n \in Nat /\ n <= Cardinality(held)
  BY FS_CardinalityType DEF Inv
<1>3. /\ head \in Nat /\ n <= head /\ size \in Nat /\ head <= size
      /\ 0..(size - 1) \subseteq DOMAIN stack
  BY <1>1, <1>2 DEF Inv, TypeOK, NoLeak
<1>4. /\ \A i \in (head - n)..(head - 1) :
            stack'[i] = vecs[head - 1 - i] /\ head - 1 - i \in 0..(n - 1)
      /\ \A i \in head..(size - 1) : stack'[i] = stack[i]
  BY <1>1, <1>2, <1>3
<1>5. ASSUME NEW x \in R
      PROVE  x \in FreePart'
  <2>1. PICK i \in 0..(n - 1) : x = vecs[i]
    OBVIOUS
  <2>2. /\ head - 1 - i \in (head - n)..(head - 1)
        /\ head - 1 - i \in (head - n)..(size - 1)
        /\ head - 1 - (head - 1 - i) = i
    BY <1>2, <1>3
  <2>3. stack'[head - 1 - i] = x
    BY <1>4, <2>1, <2>2
  <2> QED
    BY <1>1, <2>2, <2>3 DEF FreePart
<1>6. FreePart \subseteq FreePart'
  BY <1>1, <1>2, <1>3, <1>4 DEF FreePart
<1>7. FreePart' \subseteq FreePart \cup R
  BY <1>1, <1>2, <1>3, <1>4 DEF FreePart
<1> QED
  BY <1>5, <1>6, <1>7

\* Every action of the pool preserves the inductive invariant.
LEMMA NextInv == Inv /\ [Next]_vars => Inv'
<1> SUFFICES ASSUME Inv, [Next]_vars
             PROVE  Inv'
  OBVIOUS
<1> USE PoolAssumption
<1>1. CASE Create
  <2>0. PICK last \in 0..NbElems : \E g \in Obtained(0, last) :
           /\ Populate(stack, 0, NbElems, last, g)
           /\ phase' = IF last = NbElems THEN "up" ELSE "failed"
    BY <1>1 DEF Create
  <2>1. PICK g \in Obtained(0, last) :
           /\ Populate(stack, 0, NbElems, last, g)
           /\ phase' = IF last = NbElems THEN "up" ELSE "failed"
    BY <2>0
  <2>2. head' = 0 /\ held' = {} /\ heap = {}
    BY <1>1 DEF Create, Inv, NoLeak, Live
  <2>3. /\ size' = last
        /\ DOMAIN stack' = 0..(NbElems - 1)
        /\ stack' \in [DOMAIN stack' -> Elems \cup {Null}]
        /\ \A i \in 0..(last - 1) : stack'[i] = g[i] /\ g[i] \in Elems \ heap
        /\ \A i, j \in 0..(last - 1) : g[i] = g[j] => i = j
        /\ heap' = heap \cup {g[i] : i \in 0..(last - 1)}
    <3>1. 0 \in Nat /\ NbElems \in Nat
      OBVIOUS
    <3>2. \A i \in 0..(0 - 1) : stack[i] \in Elems \cup {Null}
      OBVIOUS
    <3> QED
      BY <2>1, <3>1, <3>2, PopulateFacts
  <2>4. heap' = FreePart'
    BY <2>2, <2>3 DEF FreePart
  <2>5. TypeOK'
    BY <2>1, <2>2, <2>3 DEF TypeOK, Live
  <2>6. NoSharing' /\ NoLeak'
    BY <2>1, <2>2, <2>3, <2>4, FS_EmptySet DEF NoSharing, NoLeak, Live
  <2> QED
    BY <2>1, <2>2, <2>3, <2>5, <2>6, FS_EmptySet DEF Inv
<1>2. CASE CreateNoArray
  BY <1>2 DEF CreateNoArray, Inv, TypeOK, NoSharing, NoLeak, Live
<1>3. CASE Alloc
  <2>1. /\ head \in Nat /\ size \in Nat /\ head < size
        /\ head' = head + 1 /\ size' = size /\ stack' = stack /\ heap' = heap
        /\ held' = held \cup {stack[head]}
        /\ phase = "up" /\ phase' = "up" /\ Live /\ Live'
    BY <1>3 DEF Alloc, Inv, TypeOK, Live
  <2>2. stack[head] \in FreePart
    BY <2>1 DEF FreePart
  <2>3. stack[head] \notin held /\ stack[head] \in Elems
    BY <2>1, <2>2 DEF Inv, NoSharing, NoLeak, TypeOK
  <2>4. FreePart' = FreePart \ {stack[head]}
    BY <2>1 DEF FreePart, Inv, NoSharing
  <2>5. /\ IsFiniteSet(held')
        /\ Cardinality(held') = Cardinality(held) + 1
    BY <2>1, <2>3, FS_AddElement DEF Inv
  <2>6. TypeOK'
    BY <2>1, <2>3 DEF Inv, TypeOK
  <2>7. NoSharing'
    BY <2>1, <2>3, <2>4 DEF Inv, NoSharing
  <2>8. NoLeak'
    BY <2>1, <2>2, <2>3, <2>4, <2>5 DEF Inv, NoLeak
  <2> QED
    BY <2>1, <2>5, <2>6, <2>7, <2>8 DEF Inv
<1>4. CASE AllocGrow
  <2>0. PICK last \in head..(2 * size) : \E g \in Obtained(head, last) :
           /\ Populate(stack, head, 2 * size, last, g)
           /\ IF last = 2 * size
              THEN held' = held \cup {g[head]} /\ head' = head + 1
              ELSE held' = held /\ head' = head
    BY <1>4 DEF AllocGrow
  <2>1. PICK g \in Obtained(head, last) :
           /\ Populate(stack, head, 2 * size, last, g)
           /\ IF last = 2 * size
              THEN held' = held \cup {g[head]} /\ head' = head + 1
              ELSE held' = held /\ head' = head
    BY <2>0
  <2>2. /\ head \in Nat /\ size \in Nat /\ size > 0 /\ head = size /\ 2 * size \in Nat
        /\ phase = "up" /\ phase' = "up" /\ Live /\ Live'
    BY <1>4 DEF AllocGrow, Inv, TypeOK, Live
  <2>3. /\ size' = last
        /\ DOMAIN stack' = 0..(2 * size - 1)
        /\ stack' \in [DOMAIN stack' -> Elems \cup {Null}]
        /\ \A i \in head..(last - 1) : stack'[i] = g[i] /\ g[i] \in Elems \ heap
        /\ \A i, j \in head..(last - 1) : g[i] = g[j] => i = j
        /\ heap' = heap \cup {g[i] : i \in head..(last - 1)}
    <3>1. \A i \in 0..(head - 1) : stack[i] \in Elems \cup {Null}
      BY <2>2 DEF Inv, TypeOK
    <3> QED
      BY <2>1, <2>2, <3>1, PopulateFacts
  <2>4. FreePart = {} /\ heap = held
    BY <2>2 DEF FreePart, Inv, NoLeak
  <2>5. CASE last = 2 * size
    <3>1. /\ held' = held \cup {g[head]} /\ head' = head + 1
          /\ head \in head..(last - 1)
      BY <2>1, <2>2, <2>5
    <3>2. g[head] \in Elems \ held
      BY <2>3, <2>4, <3>1
    <3>3. FreePart' = {g[i] : i \in (head + 1)..(last - 1)}
      BY <2>2, <2>3, <3>1 DEF FreePart
    <3>4. heap' = FreePart' \cup held'
      BY <2>2, <2>3, <2>4, <3>1, <3>3
    <3>5. /\ IsFiniteSet(held')
          /\ Cardinality(held') = Cardinality(held) + 1
      BY <3>1, <3>2, FS_AddElement DEF Inv
    <3>6. TypeOK'
      BY <2>2, <2>3, <2>5, <3>1, <3>2 DEF Inv, TypeOK
    <3>7. NoSharing'
      <4>1. \A i \in (head + 1)..(last - 1) : g[i] \notin held /\ g[i] # g[head]
        BY <2>2, <2>3, <2>4, <3>1
      <4>2. FreePart' \cap held' = {}
        BY <3>1, <3>3, <4>1
      <4>3. \A i, j \in head'..(size' - 1) : stack'[i] = stack'[j] => i = j
        BY <2>2, <2>3, <3>1
      <4> QED
        BY <4>2, <4>3 DEF NoSharing
    <3>8. NoLeak'
      BY <2>2, <3>1, <3>4, <3>5 DEF Inv, NoLeak
    <3> QED
      BY <2>2, <2>3, <2>5, <3>5, <3>6, <3>7, <3>8 DEF Inv
  <2>6. CASE last # 2 * size
    <3>1. held' = held /\ head' = head
      BY <2>1, <2>6
    <3>2. FreePart' = {g[i] : i \in head..(last - 1)}
      BY <2>2, <2>3, <3>1 DEF FreePart
    <3>3. TypeOK'
      BY <2>2, <2>3, <3>1 DEF Inv, TypeOK
    <3>4. NoSharing'
      BY <2>2, <2>3, <2>4, <3>1, <3>2 DEF NoSharing
    <3>5. NoLeak'
      BY <2>2, <2>3, <2>4, <3>1, <3>2 DEF Inv, NoLeak
    <3> QED
      BY <2>2, <2>3, <3>1, <3>3, <3>4, <3>5 DEF Inv
  <2> QED
    BY <2>5, <2>6
<1>5. CASE AllocNoArray
  BY <1>5 DEF AllocNoArray, vars, Inv, TypeOK, NoSharing, NoLeak, Live, FreePart
<1>6. ASSUME NEW e \in Elems, Free(e)
      PROVE  Inv'
  <2>1. /\ head' = head - 1 /\ size' = size /\ heap' = heap
        /\ stack' = [stack EXCEPT ![head - 1] = e]
        /\ held' = held \ {e} /\ e \in held
        /\ phase = "up" /\ phase' = "up" /\ Live /\ Live'
    BY <1>6 DEF Free, Live
  <2>2. /\ IsFiniteSet(held')
        /\ Cardinality(held') = Cardinality(held) - 1
        /\ Cardinality(held) \in Nat /\ Cardinality(held) # 0
    BY <2>1, FS_RemoveElement, FS_EmptySet, FS_CardinalityType DEF Inv
  <2>3. /\ head \in Nat /\ head > 0 /\ size \in Nat /\ head <= size
        /\ head - 1 \in DOMAIN stack /\ 0..(size - 1) \subseteq DOMAIN stack
        /\ head = Cardinality(held)
    BY <2>1, <2>2 DEF Inv, TypeOK, NoLeak
  <2>4. /\ stack'[head - 1] = e
        /\ \A i \in head..(size - 1) : stack'[i] = stack[i]
    BY <2>1, <2>3
  <2>5. FreePart' = FreePart \cup {e}
    BY <2>1, <2>3, <2>4 DEF FreePart
  <2>6. TypeOK'
    BY <2>1, <2>3 DEF Inv, TypeOK
  <2>7. NoSharing'
    <3>1. e \notin FreePart
      BY <2>1 DEF Inv, NoSharing
    <3>2. \A i \in head..(size - 1) : stack[i] # e
      BY <3>1 DEF FreePart
    <3> QED
      BY <2>1, <2>3, <2>4, <2>5, <3>2 DEF Inv, NoSharing
  <2>8. NoLeak'
    BY <2>1, <2>2, <2>3, <2>5 DEF Inv, NoLeak
  <2> QED
    BY <2>1, <2>2, <2>6, <2>7, <2>8 DEF Inv
<1>7. ASSUME NEW n \in 0..Cardinality(held), NEW vecs \in [0..(n - 1) -> held],
             FreeMany(vecs, n)
      PROVE  Inv'
  <2> DEFINE R == {vecs[i] : i \in 0..(n - 1)}
  <2>1. /\ head' = head - n /\ size' = size /\ heap' = heap
        /\ stack' = [i \in DOMAIN stack |->
                        IF i \in (head - n)..(head - 1) THEN vecs[head - 1 - i] ELSE stack[i]]
        /\ held' = held \ R
        /\ \A i, j \in 0..(n - 1) : vecs[i] = vecs[j] => i = j
        /\ phase = "up" /\ phase' = "up" /\ Live /\ Live'
    BY <1>7 DEF FreeMany, Live
  <2>2. /\ Cardinality(held) \in Nat /\ n \in Nat /\ n <= Cardinality(held)
    BY FS_CardinalityType DEF Inv
  <2>3. /\ IsFiniteSet(held')
        /\ Cardinality(held') = Cardinality(held) - n
    BY <2>1, <2>2, BlockCardinality DEF Inv
  <2>4. /\ head \in Nat /\ n <= head /\ size \in Nat /\ head <= size
        /\ 0..(size - 1) \subseteq DOMAIN stack
        /\ head = Cardinality(held)
    BY <2>1, <2>2 DEF Inv, TypeOK, NoLeak
  <2>5. /\ \A i \in (head - n)..(head - 1) :
              stack'[i] = vecs[head - 1 - i] /\ head - 1 - i \in 0..(n - 1)
        /\ \A i \in head..(size - 1) : stack'[i] = stack[i]
    BY <2>1, <2>2, <2>4
  <2>6. FreePart' = FreePart \cup R
    BY <1>7, FreeManyFreePart
  <2>7. TypeOK'
    <3>1. stack' \in [DOMAIN stack' -> Elems \cup {Null}]
      BY <2>1, <2>2, <2>4, <2>5 DEF Inv, TypeOK
    <3> QED
      BY <2>1, <2>2, <2>4, <3>1 DEF Inv, TypeOK
  <2>8. NoSharing'
    <3>1. FreePart \cap R = {} /\ R \cap held' = {} /\ FreePart \cap held = {}
      BY <2>1 DEF Inv, NoSharing
    <3>2. \A i \in head..(size - 1), j \in 0..(n - 1) : stack[i] # vecs[j]
      BY <3>1 DEF FreePart
    <3>3. ASSUME NEW i \in (head - n)..(size - 1), NEW j \in (head - n)..(size - 1),
                 stack'[i] = stack'[j]
          PROVE  i = j
      <4>1. CASE i \in head..(size - 1) /\ j \in head..(size - 1)
        BY <2>1, <2>5, <3>3, <4>1 DEF Inv, NoSharing
      <4>2. CASE i \in (head - n)..(head - 1) /\ j \in (head - n)..(head - 1)
        BY <2>1, <2>2, <2>4, <2>5, <3>3, <4>2
      <4>3. CASE \/ i \in head..(size - 1) /\ j \in (head - n)..(head - 1)
                 \/ j \in head..(size - 1) /\ i \in (head - n)..(head - 1)
        BY <2>5, <3>2, <3>3, <4>3
      <4> QED
        BY <2>2, <2>4, <4>1, <4>2, <4>3
    <3> QED
      BY <2>1, <2>6, <3>1, <3>3 DEF NoSharing
  <2>9. NoLeak'
    <3>1. R \subseteq held
      OBVIOUS
    <3> QED
      BY <2>1, <2>2, <2>3, <2>4, <2>6, <3>1 DEF Inv, NoLeak
  <2> QED
    BY <2>1, <2>3, <2>7, <2>8, <2>9 DEF Inv
<1>8. CASE Destroy
  BY <1>8 DEF Destroy, Inv, TypeOK, NoSharing, NoLeak, Live, FreePart
<1>9. CASE DestroyNoArray
  BY <1>9 DEF DestroyNoArray, Inv, TypeOK, NoSharing, NoLeak, Live, FreePart
<1>10. CASE UNCHANGED vars
  BY <1>10 DEF vars, Inv, TypeOK, NoSharing, NoLeak, Live, FreePart
<1> QED
  BY <1>1, <1>2, <1>3, <1>4, <1>5, <1>6, <1>7, <1>8, <1>9, <1>10 DEF Next

\* The inductive invariant holds in every reachable state.
LEMMA PoolInv == Spec => []Inv
  BY InitInv, NextInv, PTL DEF Spec

\* For every pool the variables keep their types and head <= size <= array length.
THEOREM TypeCorrect == Spec => []TypeOK
<1>1. Inv => TypeOK
  BY DEF Inv
<1> QED
  BY <1>1, PoolInv, PTL

\* For every pool no element is handed out twice (allreduce_aloc_vec).
THEOREM NoSharingHolds == Spec => []NoSharing
<1>1. Inv => NoSharing
  BY DEF Inv
<1> QED
  BY <1>1, PoolInv, PTL

\* For every pool no element is lost or freed while held, also when a growth fails
\* half-way (_populate_mem_pool_range) and when the pool is destroyed.
THEOREM NoLeakHolds == Spec => []NoLeak
<1>1. Inv => NoLeak
  BY DEF Inv
<1> QED
  BY <1>1, PoolInv, PTL

\* Every step of the pool is a step of the abstract pool or changes neither group.
LEMMA PoolStep == Inv /\ [Next]_vars => [Pool!Next]_(Pool!vars)
<1> DEFINE avail == IF Live THEN FreePart ELSE {}
<1> SUFFICES ASSUME Inv, [Next]_vars
             PROVE  Pool!Next \/ (avail' = avail /\ held' = held)
  BY DEF Pool!vars
<1> USE PoolAssumption
<1>a. heap = avail \cup held \/ ~Live
  BY DEF Inv, NoLeak
<1>1. CASE Create
  <2>1. PICK last \in 0..NbElems : \E g \in Obtained(0, last) :
           /\ Populate(stack, 0, NbElems, last, g)
           /\ phase' = IF last = NbElems THEN "up" ELSE "failed"
    BY <1>1 DEF Create
  <2>2. PICK g \in Obtained(0, last) :
           /\ Populate(stack, 0, NbElems, last, g)
           /\ phase' = IF last = NbElems THEN "up" ELSE "failed"
    BY <2>1
  <2> DEFINE E == {g[i] : i \in 0..(last - 1)}
  <2>3. avail = {} /\ held = {} /\ held' = held /\ head' = 0 /\ Live'
    BY <1>1, <2>2 DEF Create, Inv, Live
  <2>4. size' = last /\ \A i \in 0..(last - 1) : stack'[i] = g[i] /\ g[i] \in Elems
    BY <2>2 DEF Populate, Obtained
  <2>5. avail' = E /\ E \in SUBSET Elems
    BY <2>3, <2>4 DEF FreePart
  <2>6. Pool!Refill(E)
    BY <2>3, <2>5 DEF Pool!Refill
  <2> QED
    BY <2>5, <2>6 DEF Pool!Next
<1>2. CASE CreateNoArray
  BY <1>2 DEF CreateNoArray, Live
<1>3. CASE Alloc
  <2>1. /\ head \in Nat /\ size \in Nat /\ head < size
        /\ head' = head + 1 /\ size' = size /\ stack' = stack
        /\ held' = held \cup {stack[head]}
        /\ Live /\ Live'
    BY <1>3 DEF Alloc, Inv, TypeOK, Live
  <2>2. stack[head] \in FreePart /\ stack[head] \in Elems
    BY <2>1 DEF FreePart, Inv, NoLeak, TypeOK
  <2>3. FreePart' = FreePart \ {stack[head]}
    BY <2>1 DEF FreePart, Inv, NoSharing
  <2>4. Pool!Take(stack[head])
    BY <2>1, <2>2, <2>3 DEF Pool!Take
  <2> QED
    BY <2>2, <2>4 DEF Pool!Next
<1>4. CASE AllocGrow
  <2>1. PICK last \in head..(2 * size) : \E g \in Obtained(head, last) :
           /\ Populate(stack, head, 2 * size, last, g)
           /\ IF last = 2 * size
              THEN held' = held \cup {g[head]} /\ head' = head + 1
              ELSE held' = held /\ head' = head
    BY <1>4 DEF AllocGrow
  <2>2. PICK g \in Obtained(head, last) :
           /\ Populate(stack, head, 2 * size, last, g)
           /\ IF last = 2 * size
              THEN held' = held \cup {g[head]} /\ head' = head + 1
              ELSE held' = held /\ head' = head
    BY <2>1
  <2> DEFINE E == {g[i] : i \in head..(last - 1)}
  <2>3. /\ head \in Nat /\ size \in Nat /\ size > 0 /\ head = size
        /\ Live /\ Live'
    BY <1>4 DEF AllocGrow, Inv, TypeOK, Live
  <2>4. /\ size' = last
        /\ \A i \in head..(last - 1) : stack'[i] = g[i] /\ g[i] \in Elems \ heap
        /\ \A i, j \in head..(last - 1) : g[i] = g[j] => i = j
    BY <2>2, <2>3 DEF Populate, Obtained
  <2>5. avail = {} /\ heap = held
    BY <2>3 DEF FreePart, Inv, NoLeak
  <2>6. E \in SUBSET Elems /\ E \cap (avail \cup held) = {}
    BY <2>4, <2>5
  <2>7. CASE last = 2 * size
    <3>1. held' = held \cup {g[head]} /\ head' = head + 1 /\ head \in head..(last - 1)
      BY <2>2, <2>3, <2>7
    <3>2. avail' = {g[i] : i \in (head + 1)..(last - 1)}
      BY <2>3, <2>4, <3>1 DEF FreePart
    <3>3. avail' = E \ {g[head]} /\ g[head] \in E
      BY <2>3, <2>4, <3>1, <3>2
    <3>4. Pool!RefillAndTake(E, g[head])
      BY <2>5, <2>6, <3>1, <3>3 DEF Pool!RefillAndTake
    <3> QED
      BY <2>6, <3>3, <3>4 DEF Pool!Next
  <2>8. CASE last # 2 * size
    <3>1. held' = held /\ head' = head
      BY <2>2, <2>8
    <3>2. avail' = E
      BY <2>3, <2>4, <3>1 DEF FreePart
    <3>3. Pool!Refill(E)
      BY <2>5, <2>6, <3>1, <3>2 DEF Pool!Refill
    <3> QED
      BY <2>6, <3>3 DEF Pool!Next
  <2> QED
    BY <2>7, <2>8
<1>5. CASE AllocNoArray
  BY <1>5 DEF AllocNoArray, vars, Live, FreePart
<1>6. ASSUME NEW e \in Elems, Free(e)
      PROVE  Pool!Next
  <2>1. /\ head' = head - 1 /\ size' = size
        /\ stack' = [stack EXCEPT ![head - 1] = e]
        /\ held' = held \ {e} /\ e \in held
        /\ Live /\ Live'
    BY <1>6 DEF Free, Live
  <2>2. Cardinality(held) \in Nat /\ Cardinality(held) # 0
    BY <2>1, FS_EmptySet, FS_CardinalityType DEF Inv
  <2>3. /\ head \in Nat /\ head > 0 /\ size \in Nat /\ head <= size
        /\ head - 1 \in DOMAIN stack
    BY <2>1, <2>2 DEF Inv, TypeOK, NoLeak
  <2>4. /\ stack'[head - 1] = e
        /\ \A i \in head..(size - 1) : stack'[i] = stack[i]
    BY <2>1, <2>3
  <2>5. FreePart' = FreePart \cup {e}
    BY <2>1, <2>3, <2>4 DEF FreePart
  <2>6. Pool!Return({e})
    BY <2>1, <2>5 DEF Pool!Return
  <2>7. {e} \in SUBSET Elems
    OBVIOUS
  <2> QED
    BY <2>6, <2>7 DEF Pool!Next
<1>7. ASSUME NEW n \in 0..Cardinality(held), NEW vecs \in [0..(n - 1) -> held],
             FreeMany(vecs, n)
      PROVE  Pool!Next
  <2> DEFINE R == {vecs[i] : i \in 0..(n - 1)}
  <2>1. FreePart' = FreePart \cup R /\ Live /\ Live' /\ held' = held \ R
    BY <1>7, FreeManyFreePart DEF FreeMany, Live
  <2>2. R \subseteq held /\ held \subseteq Elems
    BY DEF Inv, TypeOK
  <2>3. Pool!Return(R)
    BY <2>1, <2>2 DEF Pool!Return
  <2>4. R \in SUBSET Elems
    BY <2>2
  <2> QED
    BY <2>3, <2>4 DEF Pool!Next
<1>8. CASE Destroy
  <2>1. Pool!Release
    BY <1>8 DEF Destroy, Live, Pool!Release
  <2> QED
    BY <2>1 DEF Pool!Next
<1>9. CASE DestroyNoArray
  BY <1>9 DEF DestroyNoArray, Live
<1>10. CASE UNCHANGED vars
  BY <1>10 DEF vars, Live, FreePart
<1> QED
  BY <1>1, <1>2, <1>3, <1>4, <1>5, <1>6, <1>7, <1>8, <1>9, <1>10 DEF Next

\* The pool of allreduce_mem_pool.c implements the abstract pool its callers rely on.
THEOREM PoolImplemented == Spec => ImplementsPool
<1>1. Init => Pool!Init
  BY DEF Init, Pool!Init, Live
<1> QED
  BY <1>1, PoolInv, PoolStep, PTL DEF Spec, ImplementsPool, Pool!Spec
=============================================================================
