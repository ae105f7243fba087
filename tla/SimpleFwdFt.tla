----------------------------- MODULE SimpleFwdFt -----------------------------
(***************************************************************************)
(* The flow table of simple_fwd_vnf and the threads that share it: one     *)
(* packet loop per lcore (simple_fwd_process_pkts), the aging thread       *)
(* (simple_fwd_ft_aging_main) and the main thread, which destroys the      *)
(* table once the loops have returned.                                     *)
(*                                                                         *)
(* A bucket is a list of entries and a spinlock.  Insertion and removal    *)
(* take the lock; the lookup of a packet walks the list without it, so it  *)
(* may stand on an entry that another thread unlinks and frees.            *)
(*                                                                         *)
(* A thread that reads or writes a freed entry goes on, as in the code:    *)
(* what it reads is any value, what it writes is lost.  The memory of an   *)
(* entry is not given out again, and a second LIST_REMOVE leaves the lists *)
(* alone; since that is one outcome of many, what the properties say of    *)
(* the lists they say up to the first such use, which touched records.     *)
(*                                                                         *)
(* External: RSS hands all packets of a flow to the queue of one lcore;    *)
(* DOCA Flow accepts or refuses a rule, tells whether a rule has matched   *)
(* packets since it was last asked, and reports aged rules to the lcore    *)
(* that added them.                                                        *)
(***************************************************************************)
EXTENDS Naturals, FiniteSets, Sequences

CONSTANTS
    Lcores,      \* the cores that run the packet loop
    MainLcore,   \* the one that also dumps statistics
    Flows,       \* flow keys
    Owner,       \* the lcore whose queue RSS picks for a flow
    Size,        \* cfg.size, the number of buckets
    BucketOf,    \* rss_hash & cfg.mask of a flow
    Ages,        \* the values of monitor.aging_sec
    AgeThread,   \* cfg->age_thread
    MaxEntries,  \* bound on the entries ever allocated
    MaxRemovals, \* bound on stats.rm: no aged rule is reported beyond it
    Step,        \* what the clock gains between two of its readings
    MaxTime      \* bound on the clock

Buckets == 1 .. Size
Entries == 1 .. MaxEntries
Nil == 0
Aging == "aging"
Nobody == "nobody"
Threads == Lcores \cup {Aging}

ASSUME TableAssumption ==
    /\ MainLcore \in Lcores
    /\ Owner \in [Flows -> Lcores]
    /\ Size \in Nat \ {0}
    /\ BucketOf \in [Flows -> Buckets]
    /\ Ages \subseteq Nat \ {0}
    /\ AgeThread \in BOOLEAN
    /\ MaxEntries \in Nat
    /\ MaxRemovals \in Nat
    /\ Step \in Nat \ {0}
    /\ MaxTime \in Nat
    /\ Aging \notin Lcores
    /\ Nobody \notin Threads

VARIABLES
    now,     \* rte_rdtsc(), in seconds
    entry,   \* the entries: simple_fwd_ft_entry and its simple_fwd_pipe_entry
    list,    \* buckets[i].head, first entry first
    lock,    \* the holder of buckets[i].lock
    rules,   \* the entries whose rule DOCA Flow holds
    add,     \* stats.add
    rm,      \* stats.rm
    th,      \* the threads: pc and local variables
    quit,    \* force_quit
    main,    \* where the main thread is
    touched  \* history: a thread has used an entry after it was freed

shared == <<entry, list, lock, rules>>
vars == <<now, shared, add, rm, th, quit, main, touched>>

Unallocated ==
    [state |-> "unused", flow |-> Nil, age |-> 0, exp |-> 0, hw |-> FALSE,
     next |-> Nil]

\* A thread at the top of its loop; its local variables are out of scope.
Idle == [pc |-> "loop", node |-> Nil, bucket |-> 1, flow |-> Nil, time |-> 0, reg |-> 0]

Init ==
    /\ now = 1
    /\ entry = [e \in Entries |-> Unallocated]
    /\ list = [b \in Buckets |-> <<>>]
    /\ lock = [b \in Buckets |-> Nobody]
    /\ rules = {}
    /\ add = 0
    /\ rm = 0
    /\ th = [p \in Threads |->
               IF p = Aging /\ ~AgeThread THEN [Idle EXCEPT !.pc = "done"] ELSE Idle]
    /\ quit = FALSE
    /\ main = "wait_lcore"
    /\ touched = FALSE

\* The contents are lost; the rule of an entry still knows its queue.
Freed(e) == [Unallocated EXCEPT !.state = "freed", !.flow = entry[e].flow]

At(p, pc) == th[p].pc = pc
Goto(p, pc) == th' = [th EXCEPT ![p].pc = pc]
Return(p) == th' = [th EXCEPT ![p] = Idle]

\* The node a thread is about to read or write is still allocated.
Live(p) == entry[th[p].node].state = "live"

\* A thread reads or writes its node.
Uses(p) == touched' = (touched \/ ~Live(p))

\* The entries a bucket lists.
Listed(b) == {list[b][i] : i \in DOMAIN list[b]}

First(b) == IF list[b] = <<>> THEN Nil ELSE Head(list[b])

IndexOf(s, e) == CHOOSE i \in DOMAIN s : s[i] = e

\* The entry a listed entry points to.
Successor(s, e) == IF IndexOf(s, e) < Len(s) THEN s[IndexOf(s, e) + 1] ELSE Nil

\* LIST_NEXT: a removed entry keeps the pointer it had when it was unlinked.
NextOf(b, e) == IF e \in Listed(b) THEN Successor(list[b], e) ELSE entry[e].next

\* LIST_REMOVE of a listed entry: the next one takes its place.
Without(s, e) ==
    [j \in 1 .. Len(s) - 1 |-> IF j < IndexOf(s, e) THEN s[j] ELSE s[j + 1]]

-----------------------------------------------------------------------------
(* The lookup of a packet: simple_fwd_ft_find *)

Packet(l, f) ==
    /\ At(l, "loop")
    /\ Owner[f] = l
    /\ th' = [th EXCEPT ![l].pc = "find", ![l].flow = f,
                        ![l].bucket = BucketOf[f], ![l].node = First(BucketOf[f])]
    /\ UNCHANGED <<now, shared, add, rm, quit, main, touched>>

\* simple_fwd_ft_update_expiration
Refreshed(e) ==
    IF entry[e].state = "live" /\ entry[e].age # 0
    THEN [entry EXCEPT ![e].exp = now + entry[e].age]
    ELSE entry

FindMatch(l) ==
    /\ At(l, "find")
    /\ th[l].node # Nil
    /\ Live(l) => entry[th[l].node].flow = th[l].flow
    /\ entry' = Refreshed(th[l].node)
    /\ Uses(l)
    /\ Goto(l, "count")
    /\ UNCHANGED <<now, list, lock, rules, add, rm, quit, main>>

\* Mutant: the lookup compares the first entry of the bucket only.
FindFirstOnly(l) ==
    /\ At(l, "find")
    /\ th[l].node # Nil
    /\ Live(l) => entry[th[l].node].flow # th[l].flow
    /\ th' = [th EXCEPT ![l].node = Nil]
    /\ Uses(l)
    /\ UNCHANGED <<now, shared, add, rm, quit, main>>

\* The next pointer of a freed entry leads anywhere.
FindNext(l) ==
    /\ At(l, "find")
    /\ th[l].node # Nil
    /\ Live(l) => entry[th[l].node].flow # th[l].flow
    /\ \E n \in Entries \cup {Nil} :
         /\ Live(l) => n = NextOf(th[l].bucket, th[l].node)
         /\ th' = [th EXCEPT ![l].node = n]
    /\ Uses(l)
    /\ UNCHANGED <<now, shared, add, rm, quit, main>>

FindNothing(l) ==
    /\ At(l, "find")
    /\ th[l].node = Nil
    /\ Goto(l, "new")
    /\ UNCHANGED <<now, shared, add, rm, quit, main, touched>>

\* entry->total_pkts++ at the end of simple_fwd_handle_packet.
CountPacket(l) ==
    /\ At(l, "count")
    /\ Uses(l)
    /\ Return(l)
    /\ UNCHANGED <<now, shared, add, rm, quit, main>>

-----------------------------------------------------------------------------
(* A new flow: simple_fwd_ft_add_new and simple_fwd_handle_new_flow *)

\* Fresh memory, named in the order of allocation.
Allocate(l, e) ==
    /\ At(l, "new")
    /\ entry[e].state = "unused"
    /\ \A d \in 1 .. e - 1 : entry[d].state # "unused"
    /\ entry' = [entry EXCEPT ![e].state = "live", ![e].flow = th[l].flow]
    /\ th' = [th EXCEPT ![l].pc = "insert", ![l].node = e]
    /\ UNCHANGED <<now, list, lock, rules, add, rm, quit, main, touched>>

OutOfMemory(l) ==
    /\ At(l, "new")
    /\ Return(l)
    /\ UNCHANGED <<now, shared, add, rm, quit, main, touched>>

\* Lock, LIST_INSERT_HEAD, unlock: one store to the head, seen at once.
Insert(l) ==
    /\ At(l, "insert")
    /\ lock[th[l].bucket] = Nobody
    /\ list' = [list EXCEPT ![th[l].bucket] = <<th[l].node>> \o @]
    /\ Goto(l, "load_add")
    /\ UNCHANGED <<now, entry, lock, rules, add, rm, quit, main, touched>>

\* stats.add++ outside of any lock: a load and a store.
LoadAdd(l) ==
    /\ At(l, "load_add")
    /\ th' = [th EXCEPT ![l].pc = "store_add", ![l].reg = add]
    /\ UNCHANGED <<now, shared, add, rm, quit, main, touched>>

StoreAdd(l) ==
    /\ At(l, "store_add")
    /\ add' = th[l].reg + 1
    /\ th' = [th EXCEPT ![l].pc = "add_rule", ![l].reg = 0]
    /\ UNCHANGED <<now, shared, rm, quit, main, touched>>

\* simple_fwd_pipe_add_entry: the rule is in place, or none is left.
AddRule(l) ==
    /\ At(l, "add_rule")
    /\ rules' = rules \cup {th[l].node}
    /\ Goto(l, "set_age")
    /\ UNCHANGED <<now, entry, list, lock, add, rm, quit, main, touched>>

AddRuleFails(l) ==
    /\ At(l, "add_rule")
    /\ Goto(l, "destroy")
    /\ UNCHANGED <<now, shared, add, rm, quit, main, touched>>

SetAge(l, age) ==
    /\ At(l, "set_age")
    /\ entry' = [entry EXCEPT ![th[l].node].age = age]
    /\ Goto(l, "set_exp")
    /\ UNCHANGED <<now, list, lock, rules, add, rm, quit, main, touched>>

SetExpiration(l) ==
    /\ At(l, "set_exp")
    /\ entry' = Refreshed(th[l].node)
    /\ Uses(l)
    /\ Goto(l, "set_hw")
    /\ UNCHANGED <<now, list, lock, rules, add, rm, quit, main>>

SetHw(l) ==
    /\ At(l, "set_hw")
    /\ entry' = IF Live(l) THEN [entry EXCEPT ![th[l].node].hw = TRUE] ELSE entry
    /\ Uses(l)
    /\ Goto(l, "count")
    /\ UNCHANGED <<now, list, lock, rules, add, rm, quit, main>>

-----------------------------------------------------------------------------
(* Removing an entry: simple_fwd_ft_destroy_entry and _ft_destroy_entry *)

\* simple_fwd_handle_aging: DOCA Flow reports an aged rule and the callback
\* simple_fwd_check_for_valid_entry goes on to destroy the entry, whose
\* buckets_index it reads before it waits for the lock.
Aged(l, e) ==
    /\ AgeThread
    /\ At(l, "loop")
    /\ rm < MaxRemovals
    /\ e \in rules
    /\ Owner[entry[e].flow] = l
    /\ \E b \in Buckets :
         /\ entry[e].state = "live" => b = BucketOf[entry[e].flow]
         /\ th' = [th EXCEPT ![l].pc = "destroy", ![l].node = e, ![l].bucket = b]
    /\ touched' = (touched \/ entry[e].state # "live")
    /\ UNCHANGED <<now, shared, add, rm, quit, main>>

Lock(l) ==
    /\ At(l, "destroy")
    /\ lock[th[l].bucket] = Nobody
    /\ lock' = [lock EXCEPT ![th[l].bucket] = l]
    /\ Goto(l, "unlink")
    /\ UNCHANGED <<now, entry, list, rules, add, rm, quit, main, touched>>

\* Mutant: the entry is freed without LIST_REMOVE.
UnlinkDropped(p) ==
    /\ At(p, "unlink")
    /\ Uses(p)
    /\ Goto(p, "free")
    /\ UNCHANGED <<now, shared, add, rm, quit, main>>

Unlink(p) ==
    /\ At(p, "unlink")
    /\ LET b == th[p].bucket
           e == th[p].node
       IN  \/ /\ e \in Listed(b)
              /\ entry' = [entry EXCEPT ![e].next = NextOf(b, e)]
              /\ list' = [list EXCEPT ![b] = Without(@, e)]
           \/ e \notin Listed(b) /\ UNCHANGED <<entry, list>>
    /\ Uses(p)
    /\ Goto(p, "free")
    /\ UNCHANGED <<now, lock, rules, add, rm, quit, main>>

\* simple_fwd_aged_flow_cb removes the rule only if is_hw is set; then free,
\* and the load of stats.rm++.
Free(p) ==
    /\ At(p, "free")
    /\ LET e == th[p].node
       IN  /\ \E is_hw \in BOOLEAN :
                /\ Live(p) => is_hw = entry[e].hw
                /\ rules' = IF is_hw THEN rules \ {e} ELSE rules
           /\ entry' = [entry EXCEPT ![e] = Freed(e)]
    /\ Uses(p)
    /\ th' = [th EXCEPT ![p].pc = "unlock", ![p].reg = rm]
    /\ UNCHANGED <<now, list, lock, add, rm, quit, main>>

Unlock(p) ==
    /\ At(p, "unlock")
    /\ rm' = th[p].reg + 1
    /\ lock' = [lock EXCEPT ![th[p].bucket] = Nobody]
    /\ th' = [th EXCEPT ![p] = IF p = Aging
                                THEN [Idle EXCEPT !.pc = "try", !.bucket = th[p].bucket]
                                ELSE Idle]
    /\ UNCHANGED <<now, entry, list, rules, add, quit, main, touched>>

-----------------------------------------------------------------------------
(* The aging thread: simple_fwd_ft_aging_main, simple_fwd_ft_aging_ft_entry *)

\* The flag is read first; an empty table is polled.
StartPass ==
    /\ At(Aging, "loop")
    /\ main # "join"
    /\ add # rm
    /\ th' = [th EXCEPT ![Aging].pc = "try", ![Aging].bucket = 1]
    /\ UNCHANGED <<now, shared, add, rm, quit, main, touched>>

StopAging ==
    /\ At(Aging, "loop")
    /\ main = "join"
    /\ Goto(Aging, "done")
    /\ UNCHANGED <<now, shared, add, rm, quit, main, touched>>

\* The next bucket, or the end of the pass and sleep(1).
NextBucket ==
    th' = [th EXCEPT ![Aging] =
             IF @.bucket = Size THEN Idle
             ELSE [Idle EXCEPT !.pc = "try", !.bucket = th[Aging].bucket + 1]]

\* rte_rdtsc() and rte_spinlock_trylock.
TryLock ==
    /\ At(Aging, "try")
    /\ LET b == th[Aging].bucket
       IN  \/ /\ lock[b] = Nobody
              /\ lock' = [lock EXCEPT ![b] = Aging]
              /\ th' = [th EXCEPT ![Aging].pc = "scan", ![Aging].time = now,
                                  ![Aging].node = First(b)]
           \/ /\ lock[b] # Nobody
              /\ NextBucket
              /\ UNCHANGED lock
    /\ UNCHANGED <<now, entry, list, rules, add, rm, quit, main, touched>>

Expired(e) == entry[e].age # 0 /\ entry[e].exp < th[Aging].time

\* simple_fwd_ft_update_counter: an expired entry whose rule matched packets
\* since it was last asked stays.
ScanNext ==
    /\ At(Aging, "scan")
    /\ th[Aging].node # Nil
    /\ th' = [th EXCEPT ![Aging].node = NextOf(th[Aging].bucket, th[Aging].node)]
    /\ UNCHANGED <<now, shared, add, rm, quit, main, touched>>

ScanAged ==
    /\ At(Aging, "scan")
    /\ th[Aging].node # Nil
    /\ Expired(th[Aging].node)
    /\ Goto(Aging, "unlink")
    /\ UNCHANGED <<now, shared, add, rm, quit, main, touched>>

\* Mutant: a pass over a bucket that removes nothing keeps the lock.
ScanEndKeepsLock ==
    /\ At(Aging, "scan")
    /\ th[Aging].node = Nil
    /\ NextBucket
    /\ UNCHANGED <<now, shared, add, rm, quit, main, touched>>

ScanEnd ==
    /\ At(Aging, "scan")
    /\ th[Aging].node = Nil
    /\ lock' = [lock EXCEPT ![th[Aging].bucket] = Nobody]
    /\ NextBucket
    /\ UNCHANGED <<now, entry, list, rules, add, rm, quit, main, touched>>

-----------------------------------------------------------------------------
(* Stopping: signal_handler, rte_eal_mp_wait_lcore, simple_fwd_ft_destroy *)

Tick ==
    /\ now + Step <= MaxTime
    /\ now' = now + Step
    /\ UNCHANGED <<shared, add, rm, th, quit, main, touched>>

Quit ==
    /\ ~quit
    /\ quit' = TRUE
    /\ UNCHANGED <<now, shared, add, rm, th, main, touched>>

\* The loop condition; the main lcore also returns when vnf_dump_stats fails.
Leave(l) ==
    /\ At(l, "loop")
    /\ quit \/ l = MainLcore
    /\ Goto(l, "done")
    /\ UNCHANGED <<now, shared, add, rm, quit, main, touched>>

\* stop_aging_thread = true
WaitLcores ==
    /\ main = "wait_lcore"
    /\ \A l \in Lcores : At(l, "done")
    /\ main' = "join"
    /\ UNCHANGED <<now, shared, add, rm, th, quit, touched>>

\* Mutant: the table is destroyed without pthread_join.
DestroyNoJoin ==
    /\ main = "join"
    /\ LET linked == UNION {Listed(b) : b \in Buckets}
       IN  /\ entry' = [e \in Entries |-> IF e \in linked THEN Freed(e) ELSE entry[e]]
           /\ rules' = {e \in rules : ~(e \in linked /\ entry[e].hw)}
           /\ rm' = rm + Cardinality(linked)
    /\ list' = [b \in Buckets |-> <<>>]
    /\ main' = "done"
    /\ UNCHANGED <<now, lock, add, th, quit, touched>>

\* pthread_join, then _ft_destroy_entry for every entry of every bucket.
Destroy ==
    /\ main = "join"
    /\ At(Aging, "done")
    /\ LET linked == UNION {Listed(b) : b \in Buckets}
       IN  /\ entry' = [e \in Entries |->
                          IF e \in linked THEN Freed(e) ELSE entry[e]]
           /\ rules' = {e \in rules : ~(e \in linked /\ entry[e].hw)}
           /\ rm' = rm + Cardinality(linked)
    /\ list' = [b \in Buckets |-> <<>>]
    /\ main' = "done"
    /\ UNCHANGED <<now, lock, add, th, quit, touched>>

LcoreRuns(l) ==
    \/ FindMatch(l) \/ FindNext(l) \/ FindNothing(l) \/ CountPacket(l)
    \/ \E e \in Entries : Allocate(l, e)
    \/ OutOfMemory(l) \/ Insert(l) \/ LoadAdd(l) \/ StoreAdd(l)
    \/ AddRule(l) \/ AddRuleFails(l)
    \/ \E age \in Ages : SetAge(l, age)
    \/ SetExpiration(l) \/ SetHw(l)
    \/ Lock(l) \/ Unlink(l) \/ Free(l) \/ Unlock(l)

AgingRuns ==
    \/ StartPass \/ StopAging \/ TryLock
    \/ ScanNext \/ ScanAged \/ ScanEnd
    \/ Unlink(Aging) \/ Free(Aging) \/ Unlock(Aging)

MainRuns == WaitLcores \/ Destroy

Next ==
    \/ \E l \in Lcores :
         \/ \E f \in Flows : Packet(l, f)
         \/ \E e \in Entries : Aged(l, e)
         \/ LcoreRuns(l) \/ Leave(l)
    \/ AgingRuns
    \/ MainRuns
    \/ Tick
    \/ Quit

Spec == Init /\ [][Next]_vars

-----------------------------------------------------------------------------
(* Properties *)

\* Every variable has its type: in particular no index leaves the buckets.
TypeOK ==
    /\ now \in Nat
    /\ entry \in [Entries ->
           [state : {"unused", "live", "freed"}, flow : Flows \cup {Nil},
            age : Ages \cup {0}, exp : Nat, hw : BOOLEAN, next : Entries \cup {Nil}]]
    /\ list \in [Buckets -> Seq(Entries)]
    /\ lock \in [Buckets -> Threads \cup {Nobody}]
    /\ rules \subseteq Entries
    /\ add \in Nat
    /\ rm \in Nat
    /\ th \in [Threads ->
           [pc : {"loop", "find", "count", "new", "insert", "load_add", "store_add",
                  "add_rule", "set_age", "set_exp", "set_hw", "destroy", "unlink",
                  "free", "unlock", "try", "scan", "done"},
            node : Entries \cup {Nil}, bucket : Buckets, flow : Flows \cup {Nil},
            time : Nat, reg : Nat]]
    /\ quit \in BOOLEAN
    /\ main \in {"wait_lcore", "join", "done"}
    /\ touched \in BOOLEAN

\* Where a thread holds the lock of its bucket.
Locked == {"unlink", "free", "unlock", "scan"}

\* No thread reads or writes an entry after it was freed: neither the walk of
\* _simple_fwd_ft_find, nor what handle_packet and handle_new_flow do with the
\* entry it returned or inserted, nor a removal.
NoUseAfterFree == ~touched

\* The list of a bucket holds each of its entries once, none of them freed, and
\* an allocated entry is on its list unless a thread is about to insert it or
\* has just unlinked it.
ListsSound ==
    /\ \A b \in Buckets : \A i \in DOMAIN list[b] :
         /\ entry[list[b][i]].state = "live"
         /\ BucketOf[entry[list[b][i]].flow] = b
         /\ \A j \in DOMAIN list[b] : list[b][i] = list[b][j] => i = j
    /\ \A e \in Entries : entry[e].state = "live" =>
         \/ e \in Listed(BucketOf[entry[e].flow])
         \/ \E p \in Threads : th[p].node = e /\ th[p].pc \in {"insert", "free"}

\* Whatever insertions, scans of the aging thread, aged-rule callbacks and
\* failed additions interleave, no list breaks before a thread has used a freed
\* entry: the locks of _ft_destroy_entry leave no other way to link an entry
\* twice, to leave a freed one linked or to lose one.
ListsIntact == NoUseAfterFree => ListsSound

\* Who holds the lock of a bucket is inside _ft_destroy_entry or the aging scan
\* of that bucket, and nobody is inside without holding it: no path returns
\* with a lock, so no lcore spins for ever.
LocksHeld ==
    /\ \A b \in Buckets : lock[b] # Nobody =>
         th[lock[b]].pc \in Locked /\ th[lock[b]].bucket = b
    /\ \A p \in Threads : th[p].pc \in Locked => lock[th[p].bucket] = p

OneEach ==
    \A b \in Buckets : \A i, j \in DOMAIN list[b] :
        entry[list[b][i]].flow = entry[list[b][j]].flow => i = j

\* A flow has at most one entry, although the lookup that decides to add one
\* is not under the lock of the insertion and other threads unlink entries
\* under its feet: as long as no thread has used a freed entry.
OneEntryPerFlow == NoUseAfterFree => OneEach

\* _ft_destroy_entry is never entered for an entry that is no longer allocated:
\* simple_fwd_ft_destroy_entry removes the entry "if found".
RemovedOnce == NoUseAfterFree => \A p \in Threads : At(p, "unlink") => Live(p)

\* When simple_fwd_ft_destroy is done the hardware holds no rule of the table.
RulesRemoved == main = "done" => rules = {}

\* When simple_fwd_ft_destroy is done no thread was cut off inside a bucket;
\* and unless a freed entry was used, every entry is freed and every rule gone.
CleanExit ==
    main = "done" =>
        /\ \A b \in Buckets : lock[b] = Nobody
        /\ NoUseAfterFree => rules = {} /\ \A e \in Entries : entry[e].state # "live"
=============================================================================
