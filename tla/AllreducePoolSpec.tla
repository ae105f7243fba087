------------------------- MODULE AllreducePoolSpec -------------------------
(***************************************************************************)
(* What a memory pool of the allreduce application promises its callers:   *)
(* an element is either available or held by exactly one caller, taking    *)
(* moves one element from the first group to the second, returning moves   *)
(* it back, and only the pool itself brings new elements in or gives them  *)
(* up.  allreduce_mem_pool.c is shown to implement this in                 *)
(* AllreduceMemPool.                                                       *)
(***************************************************************************)
CONSTANT Elems        \* addresses the allocator can hand out

VARIABLES avail,      \* elements the pool owns and may hand out
          held        \* elements callers hold

vars == <<avail, held>>

Init == avail = {} /\ held = {}

\* The pool obtains elements nobody owns (creation or growth).
Refill(E) == /\ E \cap (avail \cup held) = {}
             /\ avail' = avail \cup E
             /\ held' = held

\* A caller takes one available element ...
Take(e) == /\ e \in avail
           /\ avail' = avail \ {e}
           /\ held' = held \cup {e}

\* ... possibly right after the pool grew by E.
RefillAndTake(E, e) == /\ E \cap (avail \cup held) = {}
                       /\ e \in avail \cup E
                       /\ avail' = (avail \cup E) \ {e}
                       /\ held' = held \cup {e}

\* Callers return elements they hold.
Return(E) == /\ E \subseteq held
             /\ avail' = avail \cup E
             /\ held' = held \ E

\* The pool is destroyed: it gives up what it owns, never what callers hold.
Release == avail' = {} /\ held' = held

Next == \/ \E E \in SUBSET Elems : \/ Refill(E) 
                                   \/ Return(E)
                                   \/ \E e \in Elems : RefillAndTake(E, e)
        \/ \E e \in Elems : Take(e)
        \/ Release

Spec == Init /\ [][Next]_vars
=============================================================================
