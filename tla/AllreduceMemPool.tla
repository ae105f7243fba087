-------------------------- MODULE AllreduceMemPool --------------------------
(***************************************************************************)
(* One memory pool of allreduce_mem_pool.c: an array "stack" whose entries *)
(* [head, size) are the free elements; an allocation takes stack[head] and *)
(* moves head up, a return moves head down and stores the element there.   *)
(* When head reaches size the pool doubles the array and fills the new     *)
(* half; malloc may fail at any element, and the fill then cuts "size"     *)
(* back to what it obtained.                                               *)
(***************************************************************************)
EXTENDS Integers, FiniteSets

CONSTANTS Elems,      \* addresses malloc can return (NULL is not one)
          Null,       \* the NULL pointer, also standing for unwritten entries
          NbElems,    \* nb_elems of the creation call
          MaxSize     \* bound: growth past this size is not explored

ASSUME PoolAssumption == /\ Null \notin Elems
                         /\ NbElems \in Nat \ {0}
                         /\ MaxSize \in Nat

VARIABLES stack,      \* mp->stack, a function on 0..capacity-1
          size,       \* mp->size
          head,       \* mp->head
          heap,       \* addresses malloc returned that were not freed
          held,       \* elements callers took and did not return
          phase       \* "none", "up", "failed" or "noarray" (creation), "gone"

vars == <<stack, size, head, heap, held, phase>>

FreePart == {stack[i] : i \in head..(size - 1)}

(***************************************************************************)
(* What malloc can give a fill of [start, end): elements for the entries   *)
(* [start, last), distinct and not in use, where last < end when malloc    *)
(* returned NULL for entry "last".                                         *)
(***************************************************************************)
Obtained(start, last) ==
    {g \in [start..(last - 1) -> Elems \ heap] :
        \A i, j \in start..(last - 1) : g[i] = g[j] => i = j}

\* A fill that leaves "size" alone when malloc fails.
PopulateKeepsSize(old, start, end, last, g) ==
    /\ stack' = [i \in 0..(end - 1) |-> CASE i < start -> old[i]
                                          [] i \in start..(last - 1) -> g[i]
                                          [] OTHER -> Null]
    /\ size' = end
    /\ heap' = heap \cup {g[i] : i \in start..(last - 1)}

(***************************************************************************)
(* _populate_mem_pool_range on an array whose entries below "start" are    *)
(* old[.]: size ends as the first index that could not be filled, which is *)
(* "end" when all could.                                                   *)
(***************************************************************************)
Populate(old, start, end, last, g) ==
    /\ stack' = [i \in 0..(end - 1) |-> CASE i < start -> old[i]
                                          [] i \in start..(last - 1) -> g[i]
                                          [] OTHER -> Null]
    /\ size' = last
    /\ heap' = heap \cup {g[i] : i \in start..(last - 1)}

Init == /\ stack = [i \in {} |-> Null] /\ size = 0 /\ head = 0
        /\ heap = {} /\ held = {} /\ phase = "none"

\* allreduce_create_mpool; "up" only when every element was obtained.
Create ==
    /\ phase = "none"
    /\ head' = 0
    /\ UNCHANGED held
    /\ \E last \in 0..NbElems : \E g \in Obtained(0, last) :
          /\ Populate(stack, 0, NbElems, last, g)
          /\ phase' = IF last = NbElems THEN "up" ELSE "failed"

\* allreduce_create_mpool when the malloc of the array itself fails.
CreateNoArray ==
    /\ phase = "none"
    /\ size' = NbElems /\ head' = 0
    /\ phase' = "noarray"
    /\ UNCHANGED <<stack, heap, held>>

\* An allocation that moves head past an exhausted array.
AllocUnchecked ==
    /\ phase = "up"
    /\ held' = IF head = size THEN held ELSE held \cup {stack[head]}
    /\ head' = head + 1
    /\ UNCHANGED <<stack, size, heap, phase>>

\* allreduce_aloc_vec with a free element at hand.
Alloc ==
    /\ phase = "up"
    /\ head # size
    /\ held' = held \cup {stack[head]}
    /\ head' = head + 1
    /\ UNCHANGED <<stack, size, heap, phase>>

(***************************************************************************)
(* allreduce_aloc_vec on an exhausted pool: realloc doubles the array, the *)
(* new half is filled, and the element is handed out only when the whole   *)
(* fill succeeded; a partial fill stays in the pool but the call fails.    *)
(***************************************************************************)
AllocGrow ==
    /\ phase = "up"
    /\ head = size
    /\ 2 * size <= MaxSize
    /\ \E last \in head..(2 * size) : \E g \in Obtained(head, last) :
          /\ Populate(stack, head, 2 * size, last, g)
          /\ IF last = 2 * size
             THEN held' = held \cup {g[head]} /\ head' = head + 1
             ELSE UNCHANGED <<held, head>>
    /\ UNCHANGED phase

\* allreduce_aloc_vec when realloc fails: nothing changes, the call fails.
AllocNoArray ==
    /\ phase = "up"
    /\ head = size
    /\ UNCHANGED vars

\* A return that stores the element before it moves head.
FreeBelowHead(e) ==
    /\ phase = "up"
    /\ e \in held
    /\ head' = head - 1
    /\ stack' = IF head \in DOMAIN stack THEN [stack EXCEPT ![head] = e] ELSE stack
    /\ held' = held \ {e}
    /\ UNCHANGED <<size, heap, phase>>

\* allreduce_free_vec; callers return only what they took.
Free(e) ==
    /\ phase = "up"
    /\ e \in held
    /\ head' = head - 1
    /\ stack' = [stack EXCEPT ![head - 1] = e]
    /\ held' = held \ {e}
    /\ UNCHANGED <<size, heap, phase>>

\* A block return that stores every element in the same entry.
FreeManySameSlot(vecs, n) ==
    /\ phase = "up"
    /\ \A i, j \in 0..(n - 1) : vecs[i] = vecs[j] => i = j
    /\ head' = head - n
    /\ stack' = IF n = 0 THEN stack ELSE [stack EXCEPT ![head - n] = vecs[n - 1]]
    /\ held' = held \ {vecs[i] : i \in 0..(n - 1)}
    /\ UNCHANGED <<size, heap, phase>>

\* allreduce_free_vecs: n distinct elements, the i-th (from 0) goes to head - 1 - i.
FreeMany(vecs, n) ==
    /\ phase = "up"
    /\ \A i, j \in 0..(n - 1) : vecs[i] = vecs[j] => i = j
    /\ head' = head - n
    /\ stack' = [i \in DOMAIN stack |->
                    IF i \in (head - n)..(head - 1) THEN vecs[head - 1 - i] ELSE stack[i]]
    /\ held' = held \ {vecs[i] : i \in 0..(n - 1)}
    /\ UNCHANGED <<size, heap, phase>>

(***************************************************************************)
(* allreduce_destroy_mpool: frees the entries [head, size) and the array;  *)
(* elements still held are only counted in a warning.  It also cleans up   *)
(* after a failed creation (allreduce_init_mempools).                      *)
(***************************************************************************)
Destroy ==
    /\ phase \in {"up", "failed"}
    /\ heap' = heap \ FreePart
    /\ phase' = "gone"
    /\ UNCHANGED <<stack, size, head, held>>

\* allreduce_destroy_mpool on a pool without an array returns at once.
DestroyNoArray ==
    /\ phase = "noarray"
    /\ phase' = "gone"
    /\ UNCHANGED <<stack, size, head, heap, held>>

Next == \/ Create \/ CreateNoArray
        \/ Alloc \/ AllocGrow \/ AllocNoArray
        \/ \E e \in Elems : Free(e)
        \/ \E n \in 0..Cardinality(held) :
              \E vecs \in [0..(n - 1) -> held] : FreeMany(vecs, n)
        \/ Destroy \/ DestroyNoArray

Spec == Init /\ [][Next]_vars
-----------------------------------------------------------------------------
\* The pool's array is in use: it exists and was not freed.
Live == phase \in {"up", "failed"}

\* The variables have their types and head never passes size, size never the array.
TypeOK ==
    /\ size \in Nat /\ head \in Nat
    /\ heap \subseteq Elems /\ held \subseteq Elems
    /\ phase \in {"none", "up", "failed", "noarray", "gone"}
    /\ stack \in [DOMAIN stack -> Elems \cup {Null}]
    /\ Live => head <= size /\ 0..(size - 1) \subseteq DOMAIN stack

\* No element is handed out twice: whatever the order of allocations, returns and
\* failed growths, the entries [head, size) are distinct elements nobody holds.
NoSharing ==
    Live => /\ \A i, j \in head..(size - 1) : stack[i] = stack[j] => i = j
            /\ FreePart \cap held = {}

\* No element is lost or freed under a holder: memory obtained from malloc is in the
\* free part or held, and head counts the holders (what the destroy warning reports);
\* destroying the pool frees exactly the elements that were returned to it.
NoLeak ==
    /\ Live => heap = FreePart \cup held /\ head = Cardinality(held)
    /\ ~Live => heap = held

Pool == INSTANCE AllreducePoolSpec
            WITH avail <- IF Live THEN FreePart ELSE {}

\* The pool implements AllreducePoolSpec: every call either moves elements between
\* "available" and "held" as the abstract pool allows or changes neither.
ImplementsPool == Pool!Spec
=============================================================================
