------------------------- MODULE SimpleFwdFtProofs -------------------------
(***************************************************************************)
(* The flow table, for any number of lcores, flows, buckets and entries.   *)
(*                                                                         *)
(* Two facts keep the threads apart.  The lock of a bucket: whoever stands *)
(* in _ft_destroy_entry or in the aging scan holds it, so a list loses one *)
(* entry at a time.  And RSS: an entry is added, and removed by a callback *)
(* or after a failure, by the lcore its flow belongs to, so that only the  *)
(* aging thread and one lcore ever meet at an entry.                       *)
(*                                                                         *)
(* The lookup takes no lock.  What saves it is Walks: the entry of its     *)
(* flow, if there is one, is not behind the place it has reached, even     *)
(* when the node it stands on has just been unlinked, since the pointer of *)
(* that node stays good until it is freed and the lock released.           *)
(*                                                                         *)
(* None of this survives a thread that uses an entry after it was freed,   *)
(* so IInv is an invariant up to the first such step only; the types, the  *)
(* locks and the order in which the threads end (Base) hold beyond it.     *)
(***************************************************************************)
EXTENDS SimpleFwdFt, SequenceTheorems, FiniteSetTheorems, TLAPS

\* Where an lcore handles the packet of a flow, and the entry of that flow.
Handling == {"find", "new", "insert", "load_add", "store_add", "add_rule", "set_age",
             "set_exp", "set_hw", "count"}
Adding == {"insert", "load_add", "store_add", "add_rule", "set_age"}
HasEntry == (Handling \ {"find", "new"}) \cup {"destroy", "unlink", "free"}

\* An entry that is, or was, allocated, for a flow of this bucket.
Known(e, b, ent) ==
    /\ e \in Entries /\ ent[e].state \in {"live", "freed"}
    /\ ent[e].flow \in Flows /\ BucketOf[ent[e].flow] = b

\* What an lcore works on is its own: the flow of the packet, the entry.
OwnerOf(l) ==
    /\ th[l].pc \notin {"try", "scan"}
    /\ th[l].pc \in Handling =>
         th[l].flow \in Flows /\ Owner[th[l].flow] = l /\ BucketOf[th[l].flow] = th[l].bucket
    /\ th[l].pc \in HasEntry =>
         /\ Known(th[l].node, th[l].bucket, entry)
         /\ Owner[entry[th[l].node].flow] = l
    /\ th[l].pc \in HasEntry \cap Handling => entry[th[l].node].flow = th[l].flow
Owners == \A l \in Lcores : OwnerOf(l)

\* An entry that is being added has no age yet, so that nobody removes it.
AdditionOf(l) == th[l].pc \in Adding =>
    /\ entry[th[l].node].state = "live"
    /\ entry[th[l].node].age = 0
    /\ ~entry[th[l].node].hw
    /\ th[l].pc # "set_age" => th[l].node \notin rules
    /\ th[l].pc = "insert" => th[l].node \notin Listed(th[l].bucket)
Additions == \A l \in Lcores : AdditionOf(l)

AgingThread ==
    /\ th[Aging].pc \in {"loop", "try", "scan", "unlink", "free", "unlock", "done"}
    /\ th[Aging].pc = "scan" /\ th[Aging].node # Nil =>
         th[Aging].node \in Listed(th[Aging].bucket)
    /\ th[Aging].pc \in {"unlink", "free"} =>
         /\ Known(th[Aging].node, th[Aging].bucket, entry)
         /\ entry[th[Aging].node].age # 0

\* What is removed is listed before it is unlinked, unless another thread freed
\* it while its lcore waited for the lock; once unlinked, nobody frees it first.
RemovalOf(p) ==
    /\ th[p].pc = "unlink" =>
         entry[th[p].node].state = "freed" \/ th[p].node \in Listed(th[p].bucket)
    /\ th[p].pc = "free" =>
         /\ entry[th[p].node].state = "live"
         /\ th[p].node \notin Listed(th[p].bucket)
Removals == \A p \in Threads : RemovalOf(p)

\* Memory that was not allocated yet is nowhere in use.
Memory == \A e \in Entries :
    IF entry[e].state = "unused" THEN entry[e].age = 0 /\ ~entry[e].hw /\ e \notin rules
    ELSE entry[e].flow \in Flows

\* A sequence has no entry of a flow, or none in front of a node.
NoneOf(s, f, ent) == \A j \in 1 .. Len(s) : ent[s[j]].flow # f
Ahead(s, n, f, ent) ==
    IF n = Nil THEN NoneOf(s, f, ent)
    ELSE \E i \in 1 .. Len(s) :
           s[i] = n /\ \A j \in 1 .. Len(s) : ent[s[j]].flow = f => j >= i

\* Somebody has unlinked this entry of the bucket and not yet freed it.
Removing(n, b) == \E p \in Threads :
    th[p].pc = "free" /\ th[p].node = n /\ th[p].bucket = b

WalkOf(l) ==
    LET b == th[l].bucket  n == th[l].node  f == th[l].flow
    IN  /\ th[l].pc = "find" =>
             \/ Ahead(list[b], n, f, entry)
             \/ n \in Entries /\ entry[n].state = "freed"
             \/ n \in Entries /\ Removing(n, b) /\ Ahead(list[b], entry[n].next, f, entry)
        /\ th[l].pc \in {"new", "insert"} => NoneOf(list[b], f, entry)
Walks == \A l \in Lcores : WalkOf(l)

\* A rule has its entry, and an entry whose rule it would not take along is
\* still being added.
RuleOf(e) ==
    \/ entry[e].state = "live" /\ entry[e].hw
    \/ entry[e].state = "live" /\ \E l \in Lcores : th[l].node = e /\ th[l].pc = "set_age"
    \/ \E l \in Lcores : th[l].node = e /\ th[l].pc \in {"set_exp", "set_hw"}
Rules == \A e \in rules : RuleOf(e)

Stopping ==
    /\ main # "wait_lcore" => \A l \in Lcores : th[l].pc = "done"
    /\ main = "done" => th[Aging].pc = "done"

\* Whatever a thread has touched: who works on an entry has one, and the types,
\* the locks and the order in which the threads end are sound.
Nodes == \A p \in Threads : th[p].pc \in HasEntry => th[p].node \in Entries
Base == TypeOK /\ LocksHeld /\ Stopping /\ Nodes

NothingLeft ==
    main = "done" =>
        rules = {} /\ \A e \in Entries : entry[e].state # "live"

\* As long as no thread has used a freed entry.
IInv ==
    /\ TypeOK /\ Owners /\ Additions /\ AgingThread /\ Removals /\ Memory /\ Walks
    /\ Rules /\ Stopping /\ LocksHeld /\ ListsSound /\ OneEach /\ NothingLeft

-----------------------------------------------------------------------------
\* Lists.
Unique(s) == \A i, j \in 1 .. Len(s) : s[i] = s[j] => i = j

LEMMA NilIsNone == Nil \notin Entries
  BY TableAssumption DEF Nil, Entries

LEMMA IndexIs ==
  ASSUME NEW s \in Seq(Entries), Unique(s), NEW i \in 1 .. Len(s)
  PROVE  IndexOf(s, s[i]) = i
  <1>1. DOMAIN s = 1 .. Len(s)
    BY LenProperties
  <1> QED
    BY <1>1 DEF IndexOf, Unique

LEMMA SuccessorIs ==
  ASSUME NEW s \in Seq(Entries), Unique(s), NEW i \in 1 .. Len(s)
  PROVE  Successor(s, s[i]) = IF i < Len(s) THEN s[i + 1] ELSE Nil
  BY IndexIs DEF Successor

LEMMA WithoutFacts ==
  ASSUME NEW s \in Seq(Entries), Unique(s), NEW k \in 1 .. Len(s), NEW r, r = Without(s, s[k])
  PROVE  /\ r \in Seq(Entries) /\ Len(r) = Len(s) - 1 /\ Len(r) \in Nat /\ Len(s) \in Nat
         /\ \A j \in 1 .. Len(r) : r[j] = IF j < k THEN s[j] ELSE s[j + 1]
  <1>1. Len(s) \in Nat /\ Len(s) - 1 \in Nat
    BY LenProperties
  <1>2. r = [j \in 1 .. Len(s) - 1 |-> IF j < k THEN s[j] ELSE s[j + 1]]
    BY IndexIs DEF Without
  <1>3. \A j \in 1 .. Len(s) - 1 : (IF j < k THEN s[j] ELSE s[j + 1]) \in Entries
    <2>1. \A j \in 1 .. Len(s) : s[j] \in Entries
      BY ElementOfSeq
    <2>2. \A j \in 1 .. Len(s) - 1 : j \in 1 .. Len(s) /\ j + 1 \in 1 .. Len(s)
      BY <1>1
    <2> QED
      BY <2>1, <2>2
  <1>4. r \in Seq(Entries)
    BY <1>1, <1>2, <1>3, IsASeq
  <1>5. Len(r) = Len(s) - 1
    BY <1>1, <1>2, <1>4, LenProperties
  <1> QED
    BY <1>1, <1>2, <1>4, <1>5

\* The other entries stay, each once.
LessOne(r, s, k) ==
    /\ Unique(r)
    /\ \A j \in 1 .. Len(r) : r[j] # s[k] /\ \E i \in 1 .. Len(s) : r[j] = s[i]
    /\ \A i \in 1 .. Len(s) : i # k => \E j \in 1 .. Len(r) : r[j] = s[i]

LEMMA WithoutElements ==
  ASSUME NEW s \in Seq(Entries), Unique(s), NEW k \in 1 .. Len(s), NEW r, r = Without(s, s[k])
  PROVE  LessOne(r, s, k)
  <1>1. /\ Len(r) = Len(s) - 1 /\ Len(r) \in Nat /\ Len(s) \in Nat /\ k \in Nat
        /\ \A j \in 1 .. Len(r) : r[j] = IF j < k THEN s[j] ELSE s[j + 1]
    BY WithoutFacts
  <1>2. \A j \in 1 .. Len(r) : j \in 1 .. Len(s) /\ j + 1 \in 1 .. Len(s)
    BY <1>1
  <1>3. ASSUME NEW i \in 1 .. Len(r), NEW j \in 1 .. Len(r), r[i] = r[j]
        PROVE  i = j
    BY <1>1, <1>2, <1>3 DEF Unique
  <1>4. ASSUME NEW j \in 1 .. Len(r)
        PROVE  r[j] # s[k] /\ \E i \in 1 .. Len(s) : r[j] = s[i]
    <2>1. CASE j < k
      BY <1>1, <1>2, <2>1 DEF Unique
    <2>2. CASE ~(j < k)
      <3>1. r[j] = s[j + 1] /\ j + 1 # k /\ j + 1 \in 1 .. Len(s)
        BY <1>1, <1>2, <2>2
      <3> QED
        BY <3>1 DEF Unique
    <2> QED
      BY <2>1, <2>2
  <1>5. ASSUME NEW i \in 1 .. Len(s), i # k
        PROVE  \E j \in 1 .. Len(r) : r[j] = s[i]
    <2>1. CASE i < k
      <3>1. i \in 1 .. Len(r) /\ r[i] = s[i]
        BY <1>1, <2>1
      <3> QED
        BY <3>1
    <2>2. CASE i > k
      <3>1. i - 1 \in 1 .. Len(r) /\ ~(i - 1 < k) /\ (i - 1) + 1 = i
        BY <1>1, <2>2
      <3>2. r[i - 1] = s[i]
        BY <1>1, <3>1
      <3> QED
        BY <3>1, <3>2
    <2> QED
      BY <1>1, <1>5, <2>1, <2>2
  <1> QED
    BY <1>3, <1>4, <1>5 DEF Unique, LessOne

\* The walk begins with everything ahead of it,
LEMMA AheadFirst ==
  ASSUME NEW s \in Seq(Entries), NEW f, NEW ent
  PROVE  Ahead(s, IF s = <<>> THEN Nil ELSE Head(s), f, ent)
  <1>1. CASE s = <<>>
    BY <1>1 DEF Ahead, NoneOf
  <1>2. CASE s # <<>>
    <2>1. Len(s) \in Nat /\ 1 \in 1 .. Len(s) /\ Head(s) = s[1] /\ s[1] # Nil
      <3>1. Len(s) \in Nat /\ Len(s) # 0
        BY <1>2, LenProperties, EmptySeq
      <3>2. 1 \in 1 .. Len(s)
        BY <3>1
      <3>3. s[1] \in Entries
        BY <3>2, ElementOfSeq
      <3> QED
        BY <1>2, <3>1, <3>2, <3>3, HeadTailProperties DEF Nil, Entries
    <2>2. \A j \in 1 .. Len(s) : j >= 1
      BY <2>1
    <2> QED
      BY <1>2, <2>1, <2>2 DEF Ahead
  <1> QED
    BY <1>1, <1>2

\* leaves a node of another flow behind,
LEMMA AheadNext ==
  ASSUME NEW s \in Seq(Entries), Unique(s), NEW f, NEW ent, NEW n,
         Ahead(s, n, f, ent), n # Nil, ent[n].flow # f
  PROVE  Ahead(s, Successor(s, n), f, ent)
  <1>1. PICK i \in 1 .. Len(s) :
          s[i] = n /\ \A j \in 1 .. Len(s) : ent[s[j]].flow = f => j >= i
    BY DEF Ahead
  <1>2. Len(s) \in Nat /\ i \in Nat
    BY LenProperties
  <1>3. \A j \in 1 .. Len(s) : ent[s[j]].flow = f => j >= i + 1
    <2>1. ASSUME NEW j \in 1 .. Len(s), ent[s[j]].flow = f
          PROVE  j >= i + 1
      <3>1. j >= i /\ j # i
        BY <1>1, <2>1
      <3> QED
        BY <1>2, <3>1
    <2> QED
      BY <2>1
  <1>4. Successor(s, n) = IF i < Len(s) THEN s[i + 1] ELSE Nil
    BY <1>1, SuccessorIs
  <1>5. CASE i < Len(s)
    <2>1. i + 1 \in 1 .. Len(s)
      BY <1>2, <1>5
    <2>2. s[i + 1] # Nil
      BY <2>1, ElementOfSeq, NilIsNone
    <2> QED
      BY <1>3, <1>4, <1>5, <2>1, <2>2 DEF Ahead
  <1>6. CASE ~(i < Len(s))
    <2>1. \A j \in 1 .. Len(s) : ~(j >= i + 1)
      BY <1>2, <1>6
    <2> QED
      BY <1>3, <1>4, <1>6, <2>1 DEF Ahead, NoneOf
  <1> QED
    BY <1>5, <1>6

\* and is not disturbed by an insertion for another flow
LEMMA InsertFacts ==
  ASSUME NEW s \in Seq(Entries), NEW e \in Entries, NEW t, t = <<e>> \o s
  PROVE  /\ t \in Seq(Entries) /\ Len(s) \in Nat /\ Len(t) = Len(s) + 1 /\ t[1] = e
         /\ \A j \in 1 .. Len(s) : t[j + 1] = s[j]
         /\ \A j \in 1 .. Len(t) : j = 1 \/ (j - 1 \in 1 .. Len(s) /\ t[j] = s[j - 1])
  <1>1. /\ Len(s) \in Nat /\ Len(t) = Len(s) + 1 /\ t[1] = e
        /\ \A j \in 1 .. Len(s) : t[j + 1] = s[j]
    <2>1. <<e>> \in Seq(Entries) /\ Len(<<e>>) = 1 /\ <<e>>[1] = e
      OBVIOUS
    <2>2. Len(s) \in Nat
      BY LenProperties
    <2>3. /\ Len(t) = 1 + Len(s)
          /\ \A j \in 1 .. 1 + Len(s) : t[j] = IF j <= 1 THEN <<e>>[j] ELSE s[j - 1]
      BY <2>1, ConcatProperties
    <2>4. t[1] = e
      BY <2>1, <2>2, <2>3
    <2>5. ASSUME NEW j \in 1 .. Len(s)
          PROVE  t[j + 1] = s[j]
      <3>1. j + 1 \in 1 .. 1 + Len(s) /\ ~(j + 1 <= 1) /\ (j + 1) - 1 = j
        BY <2>2
      <3> QED
        BY <2>3, <3>1
    <2> QED
      BY <2>2, <2>3, <2>4, <2>5
  <1>2. \A j \in 1 .. Len(t) : j = 1 \/ (j - 1 \in 1 .. Len(s) /\ t[j] = s[j - 1])
    <2>1. ASSUME NEW j \in 1 .. Len(t), j # 1
          PROVE  j - 1 \in 1 .. Len(s) /\ (j - 1) + 1 = j
      BY <1>1, <2>1
    <2> QED
      BY <1>1, <2>1
  <1>3. t \in Seq(Entries)
    BY ConcatProperties
  <1> QED
    BY <1>1, <1>2, <1>3

LEMMA AheadInsert ==
  ASSUME NEW s \in Seq(Entries), NEW e \in Entries, NEW f, NEW ent, NEW n,
         ent[e].flow # f
  PROVE  /\ Ahead(s, n, f, ent) => Ahead(<<e>> \o s, n, f, ent)
         /\ NoneOf(s, f, ent) => NoneOf(<<e>> \o s, f, ent)
  <1> DEFINE t == <<e>> \o s
  <1>1. /\ Len(s) \in Nat /\ Len(t) = Len(s) + 1 /\ t[1] = e
        /\ \A j \in 1 .. Len(s) : t[j + 1] = s[j]
    BY InsertFacts
  <1>2. \A j \in 1 .. Len(t) : j = 1 \/ (j - 1 \in 1 .. Len(s) /\ t[j] = s[j - 1])
    BY InsertFacts
  <1>3. NoneOf(s, f, ent) => NoneOf(t, f, ent)
    BY <1>1, <1>2 DEF NoneOf
  <1>4. ASSUME n # Nil, NEW i \in 1 .. Len(s), s[i] = n,
               \A j \in 1 .. Len(s) : ent[s[j]].flow = f => j >= i
        PROVE  Ahead(t, n, f, ent)
    <2>1. i + 1 \in 1 .. Len(t) /\ t[i + 1] = n
      BY <1>1, <1>4
    <2>2. ASSUME NEW j \in 1 .. Len(t), ent[t[j]].flow = f
          PROVE  j >= i + 1
      <3>1. j # 1
        BY <1>1, <2>2
      <3>2. j - 1 \in 1 .. Len(s) /\ t[j] = s[j - 1]
        BY <1>2, <3>1
      <3>3. j - 1 >= i
        BY <1>4, <2>2, <3>2
      <3> QED
        BY <1>1, <3>3
    <2> QED
      BY <1>4, <2>1, <2>2 DEF Ahead
  <1> QED
    BY <1>3, <1>4 DEF Ahead

\* or by the removal of an entry, be it the one it stands on.
LEMMA AheadWithout ==
  ASSUME NEW s \in Seq(Entries), Unique(s), NEW k \in 1 .. Len(s), NEW f, NEW ent, NEW n,
         Ahead(s, n, f, ent)
  PROVE  /\ n # s[k] => Ahead(Without(s, s[k]), n, f, ent)
         /\ n = s[k] => Ahead(Without(s, s[k]), Successor(s, n), f, ent)
  <1> DEFINE r == Without(s, s[k])
  <1>1. /\ Len(r) = Len(s) - 1 /\ Len(r) \in Nat /\ Len(s) \in Nat /\ k \in Nat
        /\ \A j \in 1 .. Len(r) : r[j] = IF j < k THEN s[j] ELSE s[j + 1]
    <2>1. r = Without(s, s[k])
      OBVIOUS
    <2> HIDE DEF r
    <2>2. Len(s) \in Nat
      BY LenProperties
    <2> QED
      BY <2>1, <2>2, WithoutFacts
  <1> HIDE DEF r
  <1>2. \A j \in 1 .. Len(r) : /\ j < k => r[j] = s[j] /\ j \in 1 .. Len(s)
                               /\ ~(j < k) => r[j] = s[j + 1] /\ j + 1 \in 1 .. Len(s)
    BY <1>1
  <1>3. s[k] # Nil
    BY ElementOfSeq, NilIsNone
  <1>4. CASE n = Nil
    <2>1. NoneOf(r, f, ent)
      BY <1>2, <1>4 DEF Ahead, NoneOf
    <2> QED
      BY <1>3, <1>4, <2>1 DEF Ahead, r
  <1>5. CASE n # Nil
    <2>1. PICK i \in 1 .. Len(s) :
            s[i] = n /\ \A j \in 1 .. Len(s) : ent[s[j]].flow = f => j >= i
      BY <1>5 DEF Ahead
    <2>2. i \in Nat
      BY <1>1
    <2>3. CASE n # s[k]
      <3>1. i # k
        BY <2>1, <2>3
      <3>2. CASE i < k
        <4>1. i \in 1 .. Len(r) /\ r[i] = n
          BY <1>1, <2>1, <2>2, <3>2
        <4>2. ASSUME NEW j \in 1 .. Len(r), ent[r[j]].flow = f
              PROVE  j >= i
          <5>1. CASE j < k
            BY <1>2, <2>1, <4>2, <5>1
          <5>2. CASE ~(j < k)
            BY <1>1, <2>2, <3>2, <5>2
          <5> QED
            BY <5>1, <5>2
        <4> QED
          BY <1>5, <2>3, <4>1, <4>2 DEF Ahead, r
      <3>3. CASE i > k
        <4>0. i - 1 \in 1 .. Len(r) /\ ~(i - 1 < k) /\ (i - 1) + 1 = i
          BY <1>1, <2>2, <3>3
        <4>1. r[i - 1] = n
          BY <1>1, <2>1, <4>0
        <4>2. ASSUME NEW j \in 1 .. Len(r), ent[r[j]].flow = f
              PROVE  j >= i - 1
          <5>1. CASE j < k
            <6>1. j >= i
              BY <1>2, <2>1, <4>2, <5>1
            <6> QED
              BY <1>1, <2>2, <6>1
          <5>2. CASE ~(j < k)
            <6>1. j + 1 >= i
              BY <1>2, <2>1, <4>2, <5>2
            <6> QED
              BY <1>1, <2>2, <6>1
          <5> QED
            BY <5>1, <5>2
        <4> QED
          BY <1>5, <2>3, <4>0, <4>1, <4>2 DEF Ahead, r
      <3> QED
        BY <1>1, <2>2, <2>3, <3>1, <3>2, <3>3
    <2>4. CASE n = s[k]
      <3>1. i = k
        BY <2>1, <2>4 DEF Unique
      <3>2. Successor(s, n) = IF k < Len(s) THEN s[k + 1] ELSE Nil
        BY <2>4, SuccessorIs
      <3>3. ASSUME NEW j \in 1 .. Len(r), ent[r[j]].flow = f
            PROVE  j >= k
        <4>1. CASE j < k
          BY <1>2, <2>1, <3>1, <3>3, <4>1
        <4> QED
          BY <1>1, <4>1
      <3>4. CASE k < Len(s)
        <4>1. k \in 1 .. Len(r) /\ ~(k < k) /\ k + 1 \in 1 .. Len(s)
          BY <1>1, <3>4
        <4>2. r[k] = s[k + 1]
          BY <1>1, <4>1
        <4>3. s[k + 1] # Nil
          BY <4>1, ElementOfSeq, NilIsNone
        <4> QED
          BY <2>4, <3>2, <3>3, <3>4, <4>1, <4>2, <4>3 DEF Ahead, r
      <3>5. CASE ~(k < Len(s))
        <4>1. \A j \in 1 .. Len(r) : ~(j >= k)
          BY <1>1, <3>5
        <4>2. NoneOf(r, f, ent)
          BY <3>3, <4>1 DEF NoneOf
        <4> QED
          BY <2>4, <3>2, <3>5, <4>2 DEF Ahead, r
      <3> QED
        BY <3>4, <3>5
    <2> QED
      BY <2>3, <2>4
  <1> QED
    BY <1>4, <1>5

\* Only the flows of the entries matter to a walk.
LEMMA AheadSame ==
  ASSUME NEW s, NEW f, NEW n, NEW ent1, NEW ent2,
         \A j \in 1 .. Len(s) : ent2[s[j]].flow = ent1[s[j]].flow
  PROVE  /\ Ahead(s, n, f, ent1) => Ahead(s, n, f, ent2)
         /\ NoneOf(s, f, ent1) => NoneOf(s, f, ent2)
  BY DEF Ahead, NoneOf

-----------------------------------------------------------------------------
\* Steps of one thread that leave the lists alone.

Others(p) == \A q \in Threads : q # p => th'[q] = th[q]

\* A thread that stays inside or outside of its bucket keeps the locks.
LEMMA LocksKept ==
  ASSUME TypeOK, LocksHeld, NEW p \in Threads, Others(p), lock' = lock,
         th'[p].pc \in Locked <=> th[p].pc \in Locked,
         th[p].pc \in Locked => th'[p].bucket = th[p].bucket
  PROVE  LocksHeld'
  <1>1. ASSUME NEW b \in Buckets, lock[b] # Nobody
        PROVE  th'[lock[b]].pc \in Locked /\ th'[lock[b]].bucket = b
    <2>1. lock[b] \in Threads /\ th[lock[b]].pc \in Locked /\ th[lock[b]].bucket = b
      BY <1>1 DEF TypeOK, LocksHeld
    <2> QED
      BY <2>1 DEF Others
  <1>2. ASSUME NEW q \in Threads, th'[q].pc \in Locked
        PROVE  lock[th'[q].bucket] = q
    BY <1>2 DEF Others, LocksHeld
  <1> QED
    BY <1>1, <1>2 DEF LocksHeld

\* Taking a free lock, and releasing it.
LEMMA LockTaken ==
  ASSUME TypeOK, LocksHeld, NEW p \in Threads, Others(p), NEW b \in Buckets,
         lock[b] = Nobody, lock' = [lock EXCEPT ![b] = p],
         th[p].pc \notin Locked, th'[p].pc \in Locked, th'[p].bucket = b
  PROVE  LocksHeld' /\ lock' \in [Buckets -> Threads \cup {Nobody}]
  <1>0. lock \in [Buckets -> Threads \cup {Nobody}]
    BY DEF TypeOK
  <1>1. ASSUME NEW c \in Buckets, lock'[c] # Nobody
        PROVE  th'[lock'[c]].pc \in Locked /\ th'[lock'[c]].bucket = c
    <2>1. CASE c = b
      BY <1>0, <2>1
    <2>2. CASE c # b
      <3>1. lock'[c] = lock[c] /\ lock[c] \in Threads
        BY <1>0, <1>1, <2>2
      <3>2. th[lock[c]].pc \in Locked /\ th[lock[c]].bucket = c
        BY <1>1, <3>1 DEF LocksHeld
      <3> QED
        BY <3>1, <3>2 DEF Others
    <2> QED
      BY <2>1, <2>2
  <1>2. ASSUME NEW q \in Threads, th'[q].pc \in Locked
        PROVE  lock'[th'[q].bucket] = q
    <2>1. CASE q = p
      BY <1>0, <2>1
    <2>2. CASE q # p
      <3>1. th'[q] = th[q] /\ th[q].pc \in Locked
        BY <1>2, <2>2 DEF Others
      <3>2. lock[th[q].bucket] = q /\ th[q].bucket \in Buckets
        BY <3>1 DEF LocksHeld, TypeOK
      <3>3. q # Nobody
        BY TableAssumption
      <3> QED
        BY <1>0, <3>1, <3>2, <3>3
    <2> QED
      BY <2>1, <2>2
  <1> QED
    BY <1>0, <1>1, <1>2 DEF LocksHeld

LEMMA LockReleased ==
  ASSUME TypeOK, LocksHeld, NEW p \in Threads, Others(p),
         lock' = [lock EXCEPT ![th[p].bucket] = Nobody],
         th[p].pc \in Locked, th'[p].pc \notin Locked
  PROVE  LocksHeld' /\ lock' \in [Buckets -> Threads \cup {Nobody}]
  <1>0. /\ lock \in [Buckets -> Threads \cup {Nobody}] /\ th[p].bucket \in Buckets
        /\ lock[th[p].bucket] = p
    BY DEF TypeOK, LocksHeld
  <1>1. ASSUME NEW c \in Buckets, lock'[c] # Nobody
        PROVE  th'[lock'[c]].pc \in Locked /\ th'[lock'[c]].bucket = c
    <2>1. c # th[p].bucket /\ lock'[c] = lock[c] /\ lock[c] \in Threads
      BY <1>0, <1>1
    <2>2. th[lock[c]].pc \in Locked /\ th[lock[c]].bucket = c
      BY <1>1, <2>1 DEF LocksHeld
    <2>3. lock[c] # p
      BY <2>1, <2>2
    <2> QED
      BY <2>1, <2>2, <2>3 DEF Others
  <1>2. ASSUME NEW q \in Threads, th'[q].pc \in Locked
        PROVE  lock'[th'[q].bucket] = q
    <2>1. q # p /\ th'[q] = th[q] /\ th[q].pc \in Locked
      BY <1>2 DEF Others
    <2>2. lock[th[q].bucket] = q /\ th[q].bucket \in Buckets
      BY <2>1 DEF LocksHeld, TypeOK
    <2> QED
      BY <1>0, <2>1, <2>2
  <1> QED
    BY <1>0, <1>1, <1>2 DEF LocksHeld

\* Two threads inside the same bucket are one.
LEMMA Exclusive ==
  ASSUME LocksHeld, NEW p \in Threads, NEW q \in Threads,
         th[p].pc \in Locked, th[q].pc \in Locked, th[p].bucket = th[q].bucket
  PROVE  p = q
  BY DEF LocksHeld

\* Two lcores have different entries.
LEMMA OwnEntry ==
  ASSUME Owners, NEW l \in Lcores, NEW m \in Lcores, th[l].pc \in HasEntry,
         th[m].pc \in HasEntry, th[l].node = th[m].node
  PROVE  l = m
  BY DEF Owners, OwnerOf

\* A thread that is not done keeps the main thread where it is.
LEMMA StoppingKept ==
  ASSUME Stopping, NEW p \in Threads, Others(p), th[p].pc # "done", main' = main
  PROVE  Stopping' /\ main # "done"
  <1>1. p = Aging \/ p \in Lcores
    BY DEF Threads
  <1>2. main # "done"
    BY <1>1 DEF Stopping
  <1>3. p \in Lcores => main = "wait_lcore"
    BY DEF Stopping
  <1>4. p = Aging => \A l \in Lcores : th'[l] = th[l]
    BY TableAssumption DEF Others, Threads
  <1> QED
    BY <1>1, <1>2, <1>3, <1>4 DEF Stopping

\* A step of one thread that at most changes the age, the expiration or the
\* mark of its own entry, or adds its rule, keeps the invariant if it keeps
\* what the invariant says of this thread.
LEMMA LocalStep ==
  ASSUME IInv, TypeOK', LocksHeld', NEW p \in Threads, Others(p),
         th[p].pc \notin {"insert", "free", "done"}, list' = list, main' = main,
         \A e \in Entries : /\ entry'[e].state = entry[e].state
                            /\ entry'[e].flow = entry[e].flow
                            /\ entry'[e].next = entry[e].next
                            /\ entry[e].age # 0 => entry'[e].age # 0
                            /\ entry[e].hw => entry'[e].hw,
         \A e \in Entries : ~(e = th[p].node /\ p \in Lcores /\ th[p].pc \in HasEntry) =>
             entry'[e].age = entry[e].age /\ entry'[e].hw = entry[e].hw,
         \A e \in rules' : e \in rules \/ (e = th[p].node /\ p \in Lcores /\ th[p].pc = "add_rule"),
         RemovalOf(p)', p = Aging => AgingThread',
         p \in Lcores => OwnerOf(p)' /\ AdditionOf(p)' /\ WalkOf(p)',
         \A e \in rules' :
             (th[p].pc \in {"add_rule", "set_age", "set_exp", "set_hw"} /\ th[p].node = e)
               => RuleOf(e)'
  PROVE  IInv'
  <1>0. /\ TypeOK /\ Owners /\ Additions /\ AgingThread /\ Removals /\ Memory /\ Walks
        /\ Rules /\ Stopping /\ LocksHeld /\ ListsSound /\ OneEach
    BY DEF IInv
  <1>1. \A b \in Buckets : Listed(b)' = Listed(b) /\ list[b] \in Seq(Entries)
    BY <1>0 DEF Listed, TypeOK
  <1>2. \A q \in Threads : th[q].bucket \in Buckets /\ th'[q].bucket \in Buckets
    BY <1>0 DEF TypeOK
  <1>3. /\ Lcores \subseteq Threads /\ Aging \in Threads /\ Aging \notin Lcores
        /\ \A q \in Threads : q = Aging \/ q \in Lcores
    BY TableAssumption DEF Threads
  <1>4. Stopping' /\ main # "done"
    BY <1>0, StoppingKept
  <1>5. Owners'
    <2>1. ASSUME NEW l \in Lcores, l # p
          PROVE  OwnerOf(l)'
      <3>1. th'[l] = th[l] /\ OwnerOf(l)
        BY <1>0, <1>3, <2>1 DEF Others, Owners
      <3> QED
        BY <3>1 DEF OwnerOf, Known
    <2> QED
      BY <2>1 DEF Owners
  <1>6. Additions'
    <2>1. ASSUME NEW l \in Lcores, l # p, th[l].pc \in Adding
          PROVE  AdditionOf(l)'
      <3>1. th'[l] = th[l] /\ AdditionOf(l) /\ OwnerOf(l) /\ th[l].pc \in HasEntry
        BY <1>0, <1>3, <2>1 DEF Others, Owners, Additions, Adding, HasEntry, Handling
      <3>2. th[l].node \in Entries
        BY <3>1 DEF OwnerOf, Known
      <3>3. /\ ~(th[l].node = th[p].node /\ p \in Lcores /\ th[p].pc \in HasEntry)
            /\ th[p].pc = "add_rule" => th[p].pc \in HasEntry
        BY <1>0, <2>1, <3>1, OwnEntry DEF HasEntry, Handling
      <3> QED
        BY <1>1, <1>2, <1>3, <3>1, <3>2, <3>3 DEF AdditionOf
    <2>2. ASSUME NEW l \in Lcores, l # p, th[l].pc \notin Adding
          PROVE  AdditionOf(l)'
      BY <1>3, <2>2 DEF AdditionOf, Others
    <2> QED
      BY <2>1, <2>2 DEF Additions
  <1>7. AgingThread'
    <2>1. CASE p # Aging
      <3>1. th'[Aging] = th[Aging]
        BY <1>3, <2>1 DEF Others
      <3> QED
        BY <1>0, <1>1, <1>2, <1>3, <3>1 DEF AgingThread, Known
    <2> QED
      BY <2>1
  <1>8. Removals'
    <2>1. ASSUME NEW q \in Threads, q # p
          PROVE  RemovalOf(q)'
      <3>1. th'[q] = th[q] /\ RemovalOf(q)
        BY <1>0, <2>1 DEF Others, Removals
      <3>2. th[q].pc \in {"unlink", "free"} => th[q].node \in Entries
        BY <1>0, <1>3 DEF AgingThread, Owners, OwnerOf, Known, HasEntry
      <3> QED
        BY <1>1, <1>2, <3>1, <3>2 DEF RemovalOf
    <2> QED
      BY <2>1 DEF Removals
  <1>9. Memory'
    <2>1. ASSUME NEW e \in Entries, entry[e].state = "unused"
          PROVE  /\ entry'[e].age = 0 /\ ~entry'[e].hw /\ e \notin rules'
      <3>1. ~(e = th[p].node /\ p \in Lcores /\ th[p].pc \in HasEntry)
        BY <1>0, <2>1 DEF Owners, OwnerOf, Known
      <3>2. th[p].pc = "add_rule" => th[p].pc \in HasEntry
        BY DEF HasEntry, Handling
      <3> QED
        BY <1>0, <2>1, <3>1, <3>2 DEF Memory
    <2> QED
      BY <1>0, <2>1 DEF Memory
  <1>10. Walks'
    <2>1. ASSUME NEW l \in Lcores, l # p
          PROVE  WalkOf(l)'
      <3> DEFINE b == th[l].bucket  n == th[l].node  f == th[l].flow
      <3>1. th'[l] = th[l] /\ WalkOf(l) /\ b \in Buckets
        BY <1>0, <1>2, <1>3, <2>1 DEF Others, Walks
      <3>2. list[b] \in Seq(Entries) /\ list'[b] = list[b]
        BY <1>1, <3>1
      <3>3. \A j \in 1 .. Len(list[b]) : entry'[list[b][j]].flow = entry[list[b][j]].flow
        BY <3>2, ElementOfSeq
      <3>4. /\ \A m : Ahead(list[b], m, f, entry) => Ahead(list[b], m, f, entry')
            /\ NoneOf(list[b], f, entry) => NoneOf(list[b], f, entry')
        BY <3>3, AheadSame
      <3>5. Removing(n, b) => Removing(n, b)'
        BY <3>1 DEF Removing, Others
      <3>6. th[l].pc = "find" =>
              \/ Ahead(list[b], n, f, entry')
              \/ n \in Entries /\ entry'[n].state = "freed"
              \/ n \in Entries /\ Removing(n, b)' /\ Ahead(list[b], entry'[n].next, f, entry')
        BY <3>1, <3>4, <3>5 DEF WalkOf
      <3>7. th[l].pc \in {"new", "insert"} => NoneOf(list[b], f, entry')
        BY <3>1, <3>4 DEF WalkOf
      <3>8. Removing(n, b)' => \E q \in Threads :
               th'[q].pc = "free" /\ th'[q].node = n /\ th'[q].bucket = b
        BY <3>1 DEF Removing
      <3> QED
        BY <3>1, <3>2, <3>6, <3>7, <3>8 DEF WalkOf, Removing
    <2> QED
      BY <2>1 DEF Walks
  <1>11. Rules'
    <2>1. ASSUME NEW e \in rules',
                 ~(/\ th[p].pc \in {"add_rule", "set_age", "set_exp", "set_hw"}
                   /\ th[p].node = e)
          PROVE  RuleOf(e)'
      <3>1. e \in rules /\ e \in Entries
        BY <1>0, <2>1 DEF TypeOK
      <3>2. RuleOf(e)
        BY <1>0, <3>1 DEF Rules
      <3>3. \A l \in Lcores :
              th[l].node = e /\ th[l].pc \in {"set_age", "set_exp", "set_hw"} => th'[l] = th[l]
        BY <1>3, <2>1 DEF Others
      <3> QED
        BY <3>1, <3>2, <3>3 DEF RuleOf
    <2> QED
      BY <2>1 DEF Rules
  <1>12. ListsSound'
    <2>1. ASSUME NEW b \in Buckets, NEW i \in DOMAIN list[b]
          PROVE  /\ list[b][i] \in Entries
                 /\ entry'[list[b][i]].state = "live"
                 /\ BucketOf[entry'[list[b][i]].flow] = b
                 /\ \A j \in DOMAIN list[b] : list[b][i] = list[b][j] => i = j
      <3>1. list[b][i] \in Entries
        BY <1>1, LenProperties, ElementOfSeq
      <3> QED
        BY <1>0, <3>1 DEF ListsSound
    <2>2. ASSUME NEW e \in Entries, entry'[e].state = "live"
          PROVE  \/ (e \in Listed(BucketOf[entry[e].flow]))'
                 \/ \E q \in Threads : th'[q].node = e /\ th'[q].pc \in {"insert", "free"}
      <3>1. entry[e].state = "live" /\ entry[e].flow \in Flows /\ entry'[e].flow = entry[e].flow
        BY <1>0, <2>2 DEF Memory
      <3>2. BucketOf[entry[e].flow] \in Buckets
        BY <3>1, TableAssumption
      <3>3. CASE e \in Listed(BucketOf[entry[e].flow])
        BY <3>1, <3>3 DEF Listed
      <3>4. CASE \E q \in Threads : th[q].node = e /\ th[q].pc \in {"insert", "free"}
        BY <3>4 DEF Others
      <3> QED
        BY <1>0, <3>1, <3>3, <3>4 DEF ListsSound
    <2> QED
      BY <2>1, <2>2 DEF ListsSound
  <1>13. OneEach' /\ NothingLeft'
    <2>1. \A b \in Buckets : \A i \in DOMAIN list[b] : list[b][i] \in Entries
      BY <1>1, LenProperties, ElementOfSeq
    <2> QED
      BY <1>0, <1>4, <2>1 DEF OneEach, NothingLeft
  <1> QED
    BY <1>4, <1>5, <1>6, <1>7, <1>8, <1>9, <1>10, <1>11, <1>12, <1>13 DEF IInv

LEMMA FirstType ==
  ASSUME TypeOK, NEW b \in Buckets
  PROVE  First(b) \in Entries \cup {Nil}
  <1>1. list[b] \in Seq(Entries)
    BY DEF TypeOK
  <1> QED
    BY <1>1, HeadTailProperties DEF First

LEMMA NextOfType ==
  ASSUME TypeOK, NEW b \in Buckets, NEW n \in Entries
  PROVE  NextOf(b, n) \in Entries \cup {Nil}
  <1>1. list[b] \in Seq(Entries) /\ Len(list[b]) \in Nat /\ DOMAIN list[b] = 1 .. Len(list[b])
    BY LenProperties DEF TypeOK
  <1>2. entry[n].next \in Entries \cup {Nil}
    BY DEF TypeOK
  <1>4. ASSUME n \in Listed(b)
        PROVE  Successor(list[b], n) \in Entries \cup {Nil}
    <2>1. IndexOf(list[b], n) \in 1 .. Len(list[b])
      BY <1>1, <1>4 DEF Listed, IndexOf
    <2>2. IndexOf(list[b], n) < Len(list[b]) => IndexOf(list[b], n) + 1 \in 1 .. Len(list[b])
      BY <1>1, <2>1
    <2> QED
      BY <1>1, <2>2, ElementOfSeq DEF Successor
  <1> QED
    BY <1>2, <1>4 DEF NextOf

\* Types, by their parts.
Pcs == {"loop", "find", "count", "new", "insert", "load_add", "store_add", "add_rule",
        "set_age", "set_exp", "set_hw", "destroy", "unlink", "free", "unlock", "try",
        "scan", "done"}
ThreadRecord ==
    [pc : Pcs, node : Entries \cup {Nil}, bucket : Buckets, flow : Flows \cup {Nil},
     time : Nat, reg : Nat]
EntryRecord ==
    [state : {"unused", "live", "freed"}, flow : Flows \cup {Nil}, age : Ages \cup {0},
     exp : Nat, hw : BOOLEAN, next : Entries \cup {Nil}]

LEMMA TypeParts ==
  TypeOK <=>
    /\ now \in Nat /\ add \in Nat /\ rm \in Nat /\ quit \in BOOLEAN
    /\ entry \in [Entries -> EntryRecord]
    /\ list \in [Buckets -> Seq(Entries)]
    /\ lock \in [Buckets -> Threads \cup {Nobody}]
    /\ rules \subseteq Entries
    /\ th \in [Threads -> ThreadRecord]
    /\ main \in {"wait_lcore", "join", "done"}
    /\ touched \in BOOLEAN
  BY DEF TypeOK, ThreadRecord, EntryRecord, Pcs

LEMMA TypeKept ==
  ASSUME now' \in Nat, add' \in Nat, rm' \in Nat, quit' \in BOOLEAN,
         entry' \in [Entries -> EntryRecord], list' \in [Buckets -> Seq(Entries)],
         lock' \in [Buckets -> Threads \cup {Nobody}], rules' \subseteq Entries,
         th' \in [Threads -> ThreadRecord], main' \in {"wait_lcore", "join", "done"},
         touched' \in BOOLEAN
  PROVE  TypeOK'
  BY DEF TypeOK, ThreadRecord, EntryRecord, Pcs

\* A step that only moves the program counter of one thread.
LEMMA GotoType ==
  ASSUME TypeOK, NEW p \in Threads, NEW c \in Pcs, th' = [th EXCEPT ![p].pc = c]
  PROVE  th' \in [Threads -> ThreadRecord]
  <1>1. th \in [Threads -> ThreadRecord]
    BY TypeParts
  <1>2. [th[p] EXCEPT !.pc = c] \in ThreadRecord
    BY <1>1 DEF ThreadRecord
  <1> QED
    BY <1>1, <1>2

\* The fields that are set together.
LEMMA ThreadMoved ==
  ASSUME NEW t \in ThreadRecord, NEW c \in Pcs, NEW m \in Nat, NEW n \in Entries \cup {Nil}
  PROVE  /\ [t EXCEPT !.pc = c, !.time = m, !.node = n] \in ThreadRecord
         /\ [t EXCEPT !.pc = c, !.reg = m] \in ThreadRecord
  BY DEF ThreadRecord

LEMMA AgeSet ==
  ASSUME TypeOK, NEW e \in Entries, NEW a \in Ages
  PROVE  [entry EXCEPT ![e].age = a] \in [Entries -> EntryRecord]
  <1>1. entry \in [Entries -> EntryRecord]
    BY TypeParts
  <1>2. [entry[e] EXCEPT !.age = a] \in EntryRecord
    BY <1>1 DEF EntryRecord
  <1> QED
    BY <1>1, <1>2

LEMMA HwSet ==
  ASSUME TypeOK, NEW e \in Entries
  PROVE  [entry EXCEPT ![e].hw = TRUE] \in [Entries -> EntryRecord]
  <1>1. entry \in [Entries -> EntryRecord]
    BY TypeParts
  <1>2. [entry[e] EXCEPT !.hw = TRUE] \in EntryRecord
    BY <1>1 DEF EntryRecord
  <1> QED
    BY <1>1, <1>2

LEMMA NextSet ==
  ASSUME TypeOK, NEW e \in Entries, NEW x \in Entries \cup {Nil}
  PROVE  [entry EXCEPT ![e].next = x] \in [Entries -> EntryRecord]
  <1>1. entry \in [Entries -> EntryRecord]
    BY TypeParts
  <1>2. [entry[e] EXCEPT !.next = x] \in EntryRecord
    BY <1>1 DEF EntryRecord
  <1> QED
    BY <1>1, <1>2

\* A thread begins on an entry of a bucket.
LEMMA Starts ==
  ASSUME TypeOK, NEW p \in Threads, NEW pc \in Pcs, NEW n \in Entries \cup {Nil},
         NEW b \in Buckets, NEW f \in Flows,
         th' = [th EXCEPT ![p].pc = pc, ![p].flow = f, ![p].bucket = b, ![p].node = n]
  PROVE  /\ th' \in [Threads -> ThreadRecord] /\ Others(p)
         /\ th'[p].pc = pc /\ th'[p].node = n /\ th'[p].bucket = b /\ th'[p].flow = f
  <1>1. th \in [Threads -> ThreadRecord]
    BY TypeParts
  <1>2. th'[p] \in ThreadRecord
    BY <1>1 DEF ThreadRecord
  <1>3. Others(p)
    BY <1>1 DEF Others
  <1>4. th' \in [Threads -> ThreadRecord]
    BY <1>1, <1>2, <1>3
  <1> QED
    BY <1>1, <1>3, <1>4 DEF ThreadRecord

LEMMA RefreshedType ==
  ASSUME TypeOK, NEW e \in Entries
  PROVE  Refreshed(e) \in [Entries -> EntryRecord]
  <1>1. entry \in [Entries -> EntryRecord] /\ now \in Nat
    BY TypeParts
  <1>2. entry[e].age \in Nat
    <2>1. entry[e].age \in Ages \cup {0}
      BY <1>1 DEF EntryRecord
    <2>2. \A a \in Ages \cup {0} : a \in Nat
      BY TableAssumption
    <2> QED
      BY <2>1, <2>2
  <1>3. now + entry[e].age \in Nat
    BY <1>1, <1>2
  <1>4. [entry EXCEPT ![e].exp = now + entry[e].age] \in [Entries -> EntryRecord]
    BY <1>1, <1>3 DEF EntryRecord
  <1> QED
    BY <1>1, <1>4 DEF Refreshed

LEMMA UniqueList ==
  ASSUME TypeOK, ListsSound, NEW b \in Buckets
  PROVE  Unique(list[b])
  <1>1. list[b] \in Seq(Entries) /\ DOMAIN list[b] = 1 .. Len(list[b])
    BY LenProperties DEF TypeOK
  <1> QED
    BY <1>1 DEF ListsSound, Unique

-----------------------------------------------------------------------------
\* What holds whatever a thread has touched.

LEMMA BaseStep ==
  ASSUME Base, NEW p \in Threads, Others(p), th[p].pc # "done", main' = main,
         TypeOK', LocksHeld', th'[p].pc \in HasEntry => th'[p].node \in Entries
  PROVE  Base'
  <1>1. Stopping'
    BY StoppingKept DEF Base
  <1>2. Nodes'
    BY DEF Base, Nodes, Others
  <1> QED
    BY <1>1, <1>2 DEF Base

\* A step that only moves the program counter of a thread, which keeps its node.
LEMMA BaseGoto ==
  ASSUME Base, NEW p \in Threads, NEW c \in Pcs, th' = [th EXCEPT ![p].pc = c],
         th[p].pc # "done", th[p].pc \in Locked <=> c \in Locked,
         c \in HasEntry => th[p].node \in Entries,
         UNCHANGED <<now, list, lock, quit, main, add, rm>>,
         entry' \in [Entries -> EntryRecord], rules' \subseteq Entries, touched' \in BOOLEAN
  PROVE  Base'
  <1>0. TypeOK /\ LocksHeld
    BY DEF Base
  <1>1. th \in [Threads -> ThreadRecord] /\ th' \in [Threads -> ThreadRecord]
    BY <1>0, GotoType, TypeParts
  <1>2. Others(p) /\ th'[p].pc = c /\ th'[p].bucket = th[p].bucket /\ th'[p].node = th[p].node
    BY <1>1 DEF ThreadRecord, Others
  <1>3. TypeOK'
    BY <1>0, <1>1, TypeParts, TypeKept
  <1>4. LocksHeld'
    BY <1>0, <1>2, LocksKept
  <1> QED
    BY <1>2, <1>3, <1>4, BaseStep

\* A thread returns to the top of its loop from outside of a bucket.
LEMMA BaseReturn ==
  ASSUME Base, NEW p \in Threads, Return(p), th[p].pc \notin Locked, th[p].pc # "done",
         UNCHANGED <<now, entry, list, lock, rules, quit, main, add, rm>>, touched' \in BOOLEAN
  PROVE  Base'
  <1>0. TypeOK /\ LocksHeld
    BY DEF Base
  <1>1. Idle \in ThreadRecord /\ Idle.pc = "loop"
    BY TableAssumption DEF Idle, ThreadRecord, Pcs, Buckets
  <1>2. th \in [Threads -> ThreadRecord]
    BY <1>0, TypeParts
  <1>3. th' \in [Threads -> ThreadRecord] /\ Others(p) /\ th'[p].pc = "loop"
    BY <1>1, <1>2 DEF Return, Others
  <1>4. TypeOK'
    BY <1>0, <1>3, TypeParts, TypeKept
  <1>5. LocksHeld'
    BY <1>0, <1>3, LocksKept DEF Locked
  <1> QED
    BY <1>3, <1>4, <1>5, BaseStep DEF HasEntry, Handling

LEMMA LookupBase ==
  ASSUME Base, NEW l \in Lcores,
         \/ \E f \in Flows : Packet(l, f)
         \/ FindMatch(l) \/ FindNext(l) \/ FindNothing(l) \/ CountPacket(l)
  PROVE  Base'
  <1>0. TypeOK /\ LocksHeld /\ l \in Threads
    BY DEF Base, Threads
  <1>c. /\ th \in [Threads -> ThreadRecord] /\ entry \in [Entries -> EntryRecord]
        /\ rules \subseteq Entries /\ touched \in BOOLEAN
    BY <1>0, TypeParts
  <1>d. th[l].bucket \in Buckets /\ th[l].node \in Entries \cup {Nil}
    BY <1>0, <1>c DEF ThreadRecord
  <1> USE DEF shared
  <1>1. ASSUME NEW f \in Flows, Packet(l, f) PROVE Base'
    <2>0. BucketOf[f] \in Buckets /\ First(BucketOf[f]) \in Entries \cup {Nil} /\ "find" \in Pcs
      BY <1>0, FirstType, TableAssumption DEF Pcs
    <2>1. th' = [th EXCEPT ![l].pc = "find", ![l].flow = f, ![l].bucket = BucketOf[f],
                           ![l].node = First(BucketOf[f])]
      BY <1>1 DEF Packet
    <2>2. Others(l) /\ th' \in [Threads -> ThreadRecord] /\ th'[l].pc = "find"
      BY <1>0, <2>0, <2>1, Starts
    <2>3. /\ th[l].pc = "loop" /\ UNCHANGED <<now, shared, add, rm, quit, main, touched>>
      BY <1>1 DEF Packet, At
    <2>4. TypeOK'
      BY <1>0, <2>2, <2>3, TypeParts, TypeKept
    <2>5. LocksHeld'
      BY <1>0, <2>2, <2>3, LocksKept DEF Locked
    <2> QED
      BY <1>0, <2>2, <2>3, <2>4, <2>5, BaseStep DEF HasEntry, Handling
  <1>2. ASSUME FindMatch(l) PROVE Base'
    <2>1. entry' \in [Entries -> EntryRecord] /\ touched' \in BOOLEAN
      BY <1>0, <1>c, <1>d, <1>2, RefreshedType DEF FindMatch, Uses
    <2> QED
      BY <1>0, <1>c, <1>d, <1>2, <2>1, BaseGoto DEF FindMatch, At, Goto, Pcs, Locked
  <1>3. ASSUME FindNext(l) PROVE Base'
    <2>1. PICK n \in Entries \cup {Nil} : th' = [th EXCEPT ![l].node = n]
      BY <1>3 DEF FindNext
    <2>2. /\ th[l].pc = "find" /\ UNCHANGED <<now, shared, add, rm, quit, main>>
          /\ touched' \in BOOLEAN
      BY <1>3, <1>c DEF FindNext, At, Uses
    <2>3. Others(l) /\ th' \in [Threads -> ThreadRecord] /\ th'[l].pc = "find"
      BY <1>0, <1>c, <2>1, <2>2 DEF ThreadRecord, Others
    <2>4. TypeOK'
      BY <1>0, <2>2, <2>3, TypeParts, TypeKept
    <2>5. LocksHeld'
      BY <1>0, <2>2, <2>3, LocksKept DEF Locked
    <2> QED
      BY <1>0, <2>2, <2>3, <2>4, <2>5, BaseStep DEF HasEntry, Handling
  <1>4. ASSUME FindNothing(l) PROVE Base'
    <2>1. "new" \in Pcs /\ "new" \notin Locked /\ "new" \notin HasEntry /\ "find" \notin Locked
      BY DEF Pcs, Locked, HasEntry, Handling
    <2> QED
      BY <1>0, <1>c, <1>4, <2>1, BaseGoto DEF FindNothing, At, Goto
  <1>5. ASSUME CountPacket(l) PROVE Base'
    BY <1>0, <1>c, <1>5, BaseReturn DEF CountPacket, At, Locked, Uses
  <1> QED
    BY <1>1, <1>2, <1>3, <1>4, <1>5

LEMMA AdditionBase ==
  ASSUME Base, NEW l \in Lcores,
         \/ OutOfMemory(l) \/ LoadAdd(l) \/ StoreAdd(l) \/ AddRule(l) \/ AddRuleFails(l)
         \/ \E age \in Ages : SetAge(l, age)
         \/ SetExpiration(l) \/ SetHw(l)
  PROVE  Base'
  <1>0. TypeOK /\ LocksHeld /\ l \in Threads
    BY DEF Base, Threads
  <1>c. /\ th \in [Threads -> ThreadRecord] /\ entry \in [Entries -> EntryRecord]
        /\ rules \subseteq Entries /\ touched \in BOOLEAN /\ add \in Nat
    BY <1>0, TypeParts
  <1>d. th[l].reg \in Nat
    BY <1>0, <1>c DEF ThreadRecord
  <1>e. th[l].pc \in {"load_add", "store_add", "add_rule", "set_age", "set_exp", "set_hw"}
          => th[l].node \in Entries
    BY <1>0 DEF Base, Nodes, HasEntry, Handling
  <1>f. {"store_add", "add_rule", "set_age", "destroy", "set_exp", "set_hw", "count"}
          \subseteq Pcs \ Locked
    BY DEF Pcs, Locked
  <1>g. {"load_add", "store_add", "add_rule", "set_age", "set_exp", "set_hw", "new"} \cap Locked = {}
    BY DEF Locked
  <1> USE DEF shared
  <1>1. ASSUME OutOfMemory(l) PROVE Base'
    BY <1>0, <1>c, <1>1, <1>g, BaseReturn DEF OutOfMemory, At
  <1>2. ASSUME LoadAdd(l) \/ StoreAdd(l) PROVE Base'
    <2>1. PICK c \in {"store_add", "add_rule"}, m \in Nat :
            th' = [th EXCEPT ![l].pc = c, ![l].reg = m]
      BY <1>c, <1>2 DEF LoadAdd, StoreAdd
    <2>2. /\ th[l].pc \in {"load_add", "store_add"} /\ add' \in Nat
          /\ UNCHANGED <<now, shared, rm, quit, main, touched>>
      BY <1>c, <1>d, <1>2 DEF LoadAdd, StoreAdd, At
    <2>3. [th[l] EXCEPT !.pc = c, !.reg = m] \in ThreadRecord
      BY <1>0, <1>c, <1>f, <2>1, ThreadMoved
    <2>4. /\ Others(l) /\ th' \in [Threads -> ThreadRecord] /\ th'[l].pc = c
          /\ th'[l].node = th[l].node
      BY <1>0, <1>c, <2>1, <2>3 DEF ThreadRecord, Others
    <2>5. TypeOK'
      BY <1>0, <2>2, <2>4, TypeParts, TypeKept
    <2>6. LocksHeld'
      BY <1>0, <1>f, <1>g, <2>1, <2>2, <2>4, LocksKept
    <2> QED
      BY <1>0, <1>e, <2>2, <2>4, <2>5, <2>6, BaseStep
  <1>3. ASSUME AddRule(l) PROVE Base'
    <2>1. rules' \subseteq Entries
      BY <1>c, <1>e, <1>3 DEF AddRule, At
    <2> QED
      BY <1>0, <1>c, <1>e, <1>f, <1>g, <1>3, <2>1, BaseGoto DEF AddRule, At, Goto
  <1>4. ASSUME AddRuleFails(l) PROVE Base'
    BY <1>0, <1>c, <1>e, <1>f, <1>g, <1>4, BaseGoto DEF AddRuleFails, At, Goto
  <1>5. ASSUME NEW age \in Ages, SetAge(l, age) PROVE Base'
    <2>1. entry' \in [Entries -> EntryRecord]
      BY <1>0, <1>e, <1>5, AgeSet DEF SetAge, At
    <2> QED
      BY <1>0, <1>c, <1>e, <1>f, <1>g, <1>5, <2>1, BaseGoto DEF SetAge, At, Goto
  <1>6. ASSUME SetExpiration(l) PROVE Base'
    <2>1. entry' \in [Entries -> EntryRecord] /\ touched' \in BOOLEAN
      BY <1>0, <1>c, <1>e, <1>6, RefreshedType DEF SetExpiration, At, Uses
    <2> QED
      BY <1>0, <1>c, <1>e, <1>f, <1>g, <1>6, <2>1, BaseGoto DEF SetExpiration, At, Goto
  <1>7. ASSUME SetHw(l) PROVE Base'
    <2>1. entry' \in [Entries -> EntryRecord] /\ touched' \in BOOLEAN
      BY <1>0, <1>c, <1>e, <1>7, HwSet DEF SetHw, At, Uses
    <2> QED
      BY <1>0, <1>c, <1>e, <1>f, <1>g, <1>7, <2>1, BaseGoto DEF SetHw, At, Goto
  <1> QED
    BY <1>1, <1>2, <1>3, <1>4, <1>5, <1>6, <1>7

LEMMA LcoreBase ==
  ASSUME Base, NEW l \in Lcores,
         \/ \E e \in Entries : Aged(l, e)
         \/ Lock(l) \/ Leave(l)
  PROVE  Base'
  <1>0. TypeOK /\ LocksHeld /\ l \in Threads
    BY DEF Base, Threads
  <1>c. /\ th \in [Threads -> ThreadRecord] /\ entry \in [Entries -> EntryRecord]
        /\ rules \subseteq Entries /\ touched \in BOOLEAN
    BY <1>0, TypeParts
  <1>d. th[l].bucket \in Buckets /\ (th[l].pc = "destroy" => th[l].node \in Entries)
    BY <1>0, <1>c DEF ThreadRecord, Base, Nodes, HasEntry
  <1> USE DEF shared
  <1>1. ASSUME NEW e \in Entries, Aged(l, e) PROVE Base'
    <2>1. PICK b \in Buckets :
            th' = [th EXCEPT ![l].pc = "destroy", ![l].node = e, ![l].bucket = b]
      BY <1>1 DEF Aged
    <2>2. /\ th[l].pc = "loop" /\ UNCHANGED <<now, shared, add, rm, quit, main>>
          /\ touched' \in BOOLEAN
      BY <1>1, <1>c DEF Aged, At
    <2>3. /\ Others(l) /\ th' \in [Threads -> ThreadRecord] /\ th'[l].pc = "destroy"
          /\ th'[l].node = e
      <3>1. [th[l] EXCEPT !.pc = "destroy", !.node = e, !.bucket = b] \in ThreadRecord
        BY <1>0, <1>c DEF ThreadRecord, Pcs
      <3> QED
        BY <1>0, <1>c, <2>1, <3>1 DEF ThreadRecord, Others
    <2>4. TypeOK'
      BY <1>0, <2>2, <2>3, TypeParts, TypeKept
    <2>5. LocksHeld'
      BY <1>0, <2>2, <2>3, LocksKept DEF Locked
    <2> QED
      BY <1>0, <2>2, <2>3, <2>4, <2>5, BaseStep
  <1>2. ASSUME Lock(l) PROVE Base'
    <2>1. /\ th[l].pc = "destroy" /\ lock[th[l].bucket] = Nobody
          /\ lock' = [lock EXCEPT ![th[l].bucket] = l] /\ th' = [th EXCEPT ![l].pc = "unlink"]
          /\ UNCHANGED <<now, entry, list, rules, add, rm, quit, main, touched>>
      BY <1>2 DEF Lock, At, Goto
    <2>2. /\ Others(l) /\ th'[l].pc = "unlink" /\ th'[l].bucket = th[l].bucket
          /\ th'[l].node = th[l].node
      BY <1>0, <1>c, <2>1 DEF ThreadRecord, Others
    <2>3. LocksHeld' /\ lock' \in [Buckets -> Threads \cup {Nobody}]
      BY <1>0, <1>d, <2>1, <2>2, LockTaken DEF Locked
    <2>4. th' \in [Threads -> ThreadRecord]
      BY <1>0, <2>1, GotoType DEF Pcs
    <2>5. TypeOK'
      BY <1>0, <2>1, <2>3, <2>4, TypeParts, TypeKept
    <2> QED
      BY <1>0, <1>d, <2>1, <2>2, <2>3, <2>5, BaseStep
  <1>3. ASSUME Leave(l) PROVE Base'
    <2>1. "done" \in Pcs /\ "done" \notin Locked /\ "done" \notin HasEntry /\ "loop" \notin Locked
      BY DEF Pcs, Locked, HasEntry, Handling
    <2> QED
      BY <1>0, <1>c, <1>3, <2>1, BaseGoto DEF Leave, At, Goto
  <1> QED
    BY <1>1, <1>2, <1>3

LEMMA AgingBase ==
  ASSUME Base, StartPass \/ StopAging \/ TryLock \/ ScanNext \/ ScanAged \/ ScanEnd
  PROVE  Base'
  <1>0. TypeOK /\ LocksHeld
    BY DEF Base
  <1>a. Aging \in Threads /\ 1 \in Buckets
    BY TableAssumption DEF Threads, Buckets
  <1>c. /\ th \in [Threads -> ThreadRecord] /\ now \in Nat /\ entry \in [Entries -> EntryRecord]
        /\ rules \subseteq Entries /\ touched \in BOOLEAN
    BY <1>0, TypeParts
  <1>b. /\ th[Aging].bucket \in Buckets /\ th[Aging] \in ThreadRecord
        /\ th[Aging].node \in Entries \cup {Nil}
    BY <1>a, <1>c DEF ThreadRecord
  <1> USE DEF shared
  <1>e. ASSUME NextBucket
        PROVE  /\ th' \in [Threads -> ThreadRecord] /\ Others(Aging)
               /\ th'[Aging].pc \in {"loop", "try"}
    <2>1. Idle \in ThreadRecord
      BY <1>a DEF Idle, ThreadRecord, Pcs
    <2>2. th[Aging].bucket # Size => th[Aging].bucket + 1 \in Buckets
      BY <1>b, TableAssumption DEF Buckets
    <2>3. th[Aging].bucket # Size =>
            [Idle EXCEPT !.pc = "try", !.bucket = th[Aging].bucket + 1] \in ThreadRecord
      BY <2>1, <2>2 DEF ThreadRecord, Pcs
    <2>4. \/ th' = [th EXCEPT ![Aging] = Idle]
          \/ /\ th[Aging].bucket # Size
             /\ th' = [th EXCEPT ![Aging] =
                         [Idle EXCEPT !.pc = "try", !.bucket = th[Aging].bucket + 1]]
      BY <1>a, <1>c, <1>e DEF NextBucket
    <2>5. Idle.pc = "loop" /\ [Idle EXCEPT !.pc = "try", !.bucket = th[Aging].bucket + 1].pc = "try"
      BY DEF Idle
    <2> QED
      BY <1>a, <1>c, <2>1, <2>3, <2>4, <2>5 DEF Others
  <1>1. ASSUME StartPass PROVE Base'
    <2> USE <1>1 DEF StartPass, At
    <2>1. Others(Aging) /\ th'[Aging].pc = "try"
      BY <1>a, <1>c DEF ThreadRecord, Others
    <2>2. th'[Aging] \in ThreadRecord
      BY <1>a, <1>b, <1>c DEF ThreadRecord, Pcs
    <2>3. th' \in [Threads -> ThreadRecord]
      BY <1>a, <1>c, <2>2
    <2>4. TypeOK'
      BY <1>0, <2>3, TypeParts, TypeKept
    <2>5. LocksHeld'
      BY <1>0, <1>a, <2>1, LocksKept DEF Locked
    <2> QED
      BY <1>a, <2>1, <2>4, <2>5, BaseStep DEF HasEntry, Handling
  <1>2. ASSUME StopAging PROVE Base'
    <2>1. "done" \in Pcs /\ "done" \notin Locked /\ "done" \notin HasEntry /\ "loop" \notin Locked
      BY DEF Pcs, Locked, HasEntry, Handling
    <2> QED
      BY <1>a, <1>c, <1>2, <2>1, BaseGoto DEF StopAging, At, Goto
  <1>3. ASSUME TryLock PROVE Base'
    <2> USE <1>3 DEF TryLock, At
    <2> DEFINE b == th[Aging].bucket
    <2>1. CASE lock[b] = Nobody
      <3>0. First(b) \in Entries \cup {Nil}
        BY <1>0, <1>b, FirstType
      <3>1. /\ lock' = [lock EXCEPT ![b] = Aging]
            /\ th' = [th EXCEPT ![Aging].pc = "scan", ![Aging].time = now,
                                ![Aging].node = First(b)]
        BY <2>1
      <3>2. Others(Aging) /\ th'[Aging].pc = "scan" /\ th'[Aging].bucket = b
        BY <1>a, <1>c, <3>1 DEF ThreadRecord, Others
      <3>3. LocksHeld' /\ lock' \in [Buckets -> Threads \cup {Nobody}]
        BY <1>0, <1>a, <1>b, <2>1, <3>1, <3>2, LockTaken DEF Locked
      <3>4. th'[Aging] \in ThreadRecord
        <4>1. PICK t \in ThreadRecord, n \in Entries \cup {Nil}, m \in Nat :
                t = th[Aging] /\ n = First(b) /\ m = now
          BY <1>b, <1>c, <3>0
        <4>2. th'[Aging] = [t EXCEPT !.pc = "scan", !.time = m, !.node = n]
          BY <1>a, <1>c, <3>1, <4>1
        <4>3. "scan" \in Pcs
          BY DEF Pcs
        <4>4. [t EXCEPT !.pc = "scan", !.time = m, !.node = n] \in ThreadRecord
          <5> HIDE <1>3 DEF TryLock
          <5> QED BY <4>3, ThreadMoved
        <4> QED
          BY <4>2, <4>4
      <3>5. th' \in [Threads -> ThreadRecord]
        BY <1>a, <1>c, <3>1, <3>4
      <3>6. TypeOK'
        BY <1>0, <3>3, <3>5, TypeParts, TypeKept
      <3> QED
        BY <1>a, <3>2, <3>3, <3>6, BaseStep DEF HasEntry, Handling
    <2>2. CASE lock[b] # Nobody
      <3>1. NextBucket /\ lock' = lock
        BY <2>2
      <3>2. /\ th' \in [Threads -> ThreadRecord] /\ Others(Aging)
            /\ th'[Aging].pc \in {"loop", "try"}
        BY <1>e, <3>1
      <3>3. TypeOK'
        BY <1>0, <3>1, <3>2, TypeParts, TypeKept
      <3>4. LocksHeld'
        BY <1>0, <1>a, <3>1, <3>2, LocksKept DEF Locked
      <3> QED
        BY <1>a, <3>2, <3>3, <3>4, BaseStep DEF HasEntry, Handling
    <2> QED
      BY <2>1, <2>2
  <1>4. ASSUME ScanNext PROVE Base'
    <2> USE <1>4 DEF ScanNext, At
    <2> DEFINE b == th[Aging].bucket  n == th[Aging].node
    <2>0. NextOf(b, n) \in Entries \cup {Nil}
      BY <1>0, <1>b, NextOfType
    <2>1. th' \in [Threads -> ThreadRecord]
      BY <1>a, <1>c, <2>0 DEF ThreadRecord, Pcs
    <2>2. Others(Aging) /\ th'[Aging].pc = "scan" /\ th'[Aging].bucket = b
      BY <1>a, <1>c DEF ThreadRecord, Others
    <2>3. TypeOK'
      BY <1>0, <2>1, TypeParts, TypeKept
    <2>4. LocksHeld'
      BY <1>0, <1>a, <2>2, LocksKept DEF Locked
    <2> QED
      BY <1>a, <2>2, <2>3, <2>4, BaseStep DEF HasEntry, Handling
  <1>5. ASSUME ScanAged PROVE Base'
    <2>1. "unlink" \in Pcs /\ "unlink" \in Locked /\ "scan" \in Locked
      BY DEF Pcs, Locked
    <2>2. th[Aging].node \in Entries
      BY <1>b, <1>5 DEF ScanAged
    <2> QED
      BY <1>a, <1>c, <1>5, <2>1, <2>2, BaseGoto DEF ScanAged, At, Goto
  <1>6. ASSUME ScanEnd PROVE Base'
    <2> USE <1>6 DEF ScanEnd, At
    <2>1. /\ th' \in [Threads -> ThreadRecord] /\ Others(Aging)
          /\ th'[Aging].pc \in {"loop", "try"}
      BY <1>e
    <2>2. LocksHeld' /\ lock' \in [Buckets -> Threads \cup {Nobody}]
      BY <1>0, <1>a, <2>1, LockReleased DEF Locked
    <2>3. TypeOK'
      BY <1>0, <2>1, <2>2, TypeParts, TypeKept
    <2> QED
      BY <1>a, <2>1, <2>2, <2>3, BaseStep DEF HasEntry, Handling
  <1> QED
    BY <1>1, <1>2, <1>3, <1>4, <1>5, <1>6

LEMMA UnlockBase ==
  ASSUME Base, NEW p \in Threads, Unlock(p)
  PROVE  Base'
  <1> USE DEF Unlock, At
  <1>0. TypeOK /\ LocksHeld
    BY DEF Base
  <1>a. 1 \in Buckets
    BY TableAssumption DEF Buckets
  <1>b. /\ th \in [Threads -> ThreadRecord] /\ th[p].bucket \in Buckets /\ th[p].reg \in Nat
        /\ rm' \in Nat
    BY <1>0, TypeParts DEF ThreadRecord
  <1> DEFINE t == IF p = Aging THEN [Idle EXCEPT !.pc = "try", !.bucket = th[p].bucket] ELSE Idle
  <1>1. t \in ThreadRecord /\ t.pc \in {"try", "loop"}
    BY <1>a, <1>b DEF Idle, ThreadRecord, Pcs
  <1>2. th' = [th EXCEPT ![p] = t]
    OBVIOUS
  <1> HIDE DEF t
  <1>3. th' \in [Threads -> ThreadRecord] /\ Others(p) /\ th'[p].pc \in {"try", "loop"}
    BY <1>b, <1>1, <1>2 DEF Others
  <1>4. LocksHeld' /\ lock' \in [Buckets -> Threads \cup {Nobody}]
    <2>1. th[p].pc \in Locked /\ th'[p].pc \notin Locked
      BY <1>3 DEF Locked
    <2>2. lock' = [lock EXCEPT ![th[p].bucket] = Nobody]
      OBVIOUS
    <2> HIDE DEF Unlock
    <2> QED
      BY <1>0, <1>3, <2>1, <2>2, LockReleased
  <1>5. TypeOK'
    BY <1>0, <1>b, <1>3, <1>4, TypeParts, TypeKept
  <1> QED
    BY <1>3, <1>4, <1>5, BaseStep DEF HasEntry, Handling

LEMMA AllocateBase ==
  ASSUME Base, NEW l \in Lcores, NEW e \in Entries, Allocate(l, e)
  PROVE  Base'
  <1> USE DEF Allocate, At
  <1>0. TypeOK /\ LocksHeld /\ l \in Threads
    BY DEF Base, Threads
  <1>b. /\ th \in [Threads -> ThreadRecord] /\ entry \in [Entries -> EntryRecord]
        /\ th[l].flow \in Flows \cup {Nil}
    BY <1>0, TypeParts DEF ThreadRecord
  <1>1. /\ Others(l) /\ th'[l].pc = "insert" /\ th'[l].node = e
        /\ th'[l].bucket = th[l].bucket
    BY <1>0, <1>b DEF ThreadRecord, Others
  <1>2. th'[l] \in ThreadRecord
    BY <1>0, <1>b DEF ThreadRecord, Pcs
  <1>3. th' \in [Threads -> ThreadRecord]
    BY <1>0, <1>b, <1>2
  <1>4. entry'[e] \in EntryRecord
    BY <1>b DEF EntryRecord
  <1>5. entry' \in [Entries -> EntryRecord]
    BY <1>b, <1>4
  <1>6. TypeOK'
    BY <1>0, <1>3, <1>5, TypeParts, TypeKept
  <1>7. LocksHeld'
    BY <1>0, <1>1, LocksKept DEF Locked
  <1> QED
    BY <1>0, <1>1, <1>6, <1>7, BaseStep

LEMMA InsertBase ==
  ASSUME Base, NEW l \in Lcores, Insert(l)
  PROVE  Base'
  <1> USE DEF Insert, At, Goto
  <1>0. TypeOK /\ LocksHeld /\ l \in Threads
    BY DEF Base, Threads
  <1>b. th \in [Threads -> ThreadRecord] /\ list \in [Buckets -> Seq(Entries)]
    BY <1>0, TypeParts
  <1>p. PICK b \in Buckets, n \in Entries : b = th[l].bucket /\ n = th[l].node
    BY <1>0, <1>b DEF Base, Nodes, HasEntry, Handling, ThreadRecord
  <1>1. /\ Others(l) /\ th'[l].pc = "load_add" /\ th'[l].node = n /\ th'[l].bucket = b
    BY <1>0, <1>b, <1>p DEF ThreadRecord, Others
  <1>2. th' \in [Threads -> ThreadRecord]
    BY <1>0, GotoType DEF Pcs
  <1>3. list' = [list EXCEPT ![b] = <<n>> \o list[b]]
    BY <1>p
  <1>4. <<n>> \o list[b] \in Seq(Entries)
    BY <1>b, <1>p, InsertFacts
  <1>5. list' \in [Buckets -> Seq(Entries)]
    BY <1>b, <1>3, <1>4
  <1>6. TypeOK'
    BY <1>0, <1>2, <1>5, TypeParts, TypeKept
  <1>7. LocksHeld'
    BY <1>0, <1>p, <1>1, LocksKept DEF Locked
  <1> QED
    BY <1>0, <1>1, <1>6, <1>7, BaseStep

\* Taking one out of a list leaves a list.
LEMMA WithoutType ==
  ASSUME NEW s \in Seq(Entries), NEW e, e \in {s[i] : i \in DOMAIN s}
  PROVE  Without(s, e) \in Seq(Entries)
  <1>1. Len(s) \in Nat /\ DOMAIN s = 1 .. Len(s)
    BY LenProperties
  <1>2. Len(s) - 1 \in Nat
    BY <1>1
  <1>3. \A j \in 1 .. Len(s) : s[j] \in Entries
    BY ElementOfSeq
  <1>4. \A j \in 1 .. Len(s) - 1 : j \in 1 .. Len(s) /\ j + 1 \in 1 .. Len(s)
    BY <1>1
  <1>5. \A j \in 1 .. Len(s) - 1 : (IF j < IndexOf(s, e) THEN s[j] ELSE s[j + 1]) \in Entries
    BY <1>3, <1>4
  <1> QED
    BY <1>2, <1>5, IsASeq DEF Without

LEMMA UnlinkBase ==
  ASSUME Base, NEW p \in Threads, Unlink(p)
  PROVE  Base'
  <1>0. TypeOK /\ LocksHeld
    BY DEF Base
  <1>b. /\ th \in [Threads -> ThreadRecord] /\ list \in [Buckets -> Seq(Entries)]
        /\ entry \in [Entries -> EntryRecord] /\ touched \in BOOLEAN
    BY <1>0, TypeParts
  <1>p. PICK b \in Buckets, n \in Entries : b = th[p].bucket /\ n = th[p].node
    BY <1>b DEF Base, Nodes, HasEntry, Unlink, At, ThreadRecord
  <1>1. /\ th[p].pc = "unlink" /\ th' = [th EXCEPT ![p].pc = "free"] /\ touched' \in BOOLEAN
        /\ UNCHANGED <<now, lock, rules, add, rm, quit, main>>
    BY <1>b DEF Unlink, At, Goto, Uses
  <1>2. \/ /\ n \in Listed(b) /\ entry' = [entry EXCEPT ![n].next = NextOf(b, n)]
           /\ list' = [list EXCEPT ![b] = Without(list[b], n)]
        \/ UNCHANGED <<entry, list>>
    BY <1>b, <1>p DEF Unlink
  <1>3. n \in Listed(b) => Without(list[b], n) \in Seq(Entries)
    BY <1>b, <1>p, WithoutType DEF Listed
  <1>4. NextOf(b, n) \in Entries \cup {Nil}
    BY <1>0, <1>p, NextOfType
  <1>5. list' \in [Buckets -> Seq(Entries)] /\ entry' \in [Entries -> EntryRecord]
    <2>1. list' \in [Buckets -> Seq(Entries)]
      BY <1>b, <1>2, <1>3
    <2>2. PICK x \in Entries \cup {Nil} : x = NextOf(b, n)
      BY <1>4
    <2>3. [entry EXCEPT ![n].next = x] \in [Entries -> EntryRecord]
      BY <1>0, <1>p, NextSet
    <2>4. entry' \in [Entries -> EntryRecord]
      BY <1>b, <1>2, <2>2, <2>3
    <2> QED
      BY <2>1, <2>4
  <1>6. th' \in [Threads -> ThreadRecord]
    BY <1>0, <1>1, GotoType DEF Pcs
  <1>7. Others(p) /\ th'[p].pc = "free" /\ th'[p].bucket = b /\ th'[p].node = n
    BY <1>b, <1>p, <1>1 DEF ThreadRecord, Others
  <1>8. TypeOK'
    BY <1>0, <1>1, <1>5, <1>6, TypeParts, TypeKept
  <1>9. LocksHeld'
    BY <1>0, <1>p, <1>1, <1>7, LocksKept DEF Locked
  <1> QED
    BY <1>1, <1>7, <1>8, <1>9, BaseStep

LEMMA FreeBase ==
  ASSUME Base, NEW p \in Threads, Free(p)
  PROVE  Base'
  <1>0. TypeOK /\ LocksHeld
    BY DEF Base
  <1>b. /\ th \in [Threads -> ThreadRecord] /\ entry \in [Entries -> EntryRecord]
        /\ rules \subseteq Entries /\ touched \in BOOLEAN /\ rm \in Nat
    BY <1>0, TypeParts
  <1>p. PICK b \in Buckets, n \in Entries : b = th[p].bucket /\ n = th[p].node
    BY <1>b DEF Base, Nodes, HasEntry, Free, At, ThreadRecord
  <1>1. /\ th[p].pc = "free" /\ th' = [th EXCEPT ![p].pc = "unlock", ![p].reg = rm]
        /\ touched' \in BOOLEAN /\ UNCHANGED <<now, list, lock, add, rm, quit, main>>
        /\ rules' \subseteq rules /\ entry' = [entry EXCEPT ![n] = Freed(n)]
    BY <1>b, <1>p DEF Free, At, Uses
  <1>2. Freed(n) \in EntryRecord
    BY <1>b, <1>p DEF Freed, Unallocated, EntryRecord
  <1>3. entry' \in [Entries -> EntryRecord]
    BY <1>b, <1>1, <1>2
  <1>4. [th[p] EXCEPT !.pc = "unlock", !.reg = rm] \in ThreadRecord
    <2>1. "unlock" \in Pcs
      BY DEF Pcs
    <2> QED
      BY <1>b, <2>1, ThreadMoved
  <1>5. th' \in [Threads -> ThreadRecord]
    BY <1>b, <1>1, <1>4
  <1>6. Others(p) /\ th'[p].pc = "unlock" /\ th'[p].bucket = b
    BY <1>b, <1>p, <1>1 DEF ThreadRecord, Others
  <1>7. TypeOK'
    BY <1>0, <1>b, <1>1, <1>3, <1>5, TypeParts, TypeKept
  <1>8. LocksHeld'
    BY <1>0, <1>p, <1>1, <1>6, LocksKept DEF Locked
  <1> QED
    BY <1>1, <1>6, <1>7, <1>8, BaseStep DEF HasEntry, Handling

LEMMA QuietBase ==
  ASSUME Base, WaitLcores \/ Tick \/ Quit \/ UNCHANGED vars
  PROVE  Base'
  <1>0. TypeOK /\ LocksHeld /\ Stopping /\ Nodes
    BY DEF Base
  <1>a. /\ entry' = entry /\ list' = list /\ lock' = lock /\ rules' = rules /\ th' = th
        /\ touched' = touched
    BY DEF WaitLcores, Tick, Quit, vars, shared
  <1>1. /\ now' \in Nat /\ add' \in Nat /\ rm' \in Nat /\ quit' \in BOOLEAN
        /\ main' \in {"wait_lcore", "join", "done"}
    <2>1. /\ now \in Nat /\ add \in Nat /\ rm \in Nat /\ quit \in BOOLEAN
          /\ main \in {"wait_lcore", "join", "done"}
      BY <1>0, TypeParts
    <2>2. CASE WaitLcores
      BY <2>1, <2>2 DEF WaitLcores
    <2>3. CASE Tick
      BY <2>1, <2>3, TableAssumption DEF Tick
    <2>4. CASE Quit
      BY <2>1, <2>4 DEF Quit
    <2>5. CASE UNCHANGED vars
      BY <2>1, <2>5 DEF vars
    <2> QED
      BY <2>2, <2>3, <2>4, <2>5
  <1>2. TypeOK'
    BY <1>0, <1>a, <1>1, TypeParts, TypeKept
  <1>3. Stopping'
    <2>1. main' = main \/ (main' = "join" /\ \A l \in Lcores : th[l].pc = "done")
      BY DEF WaitLcores, Tick, Quit, vars, At
    <2> QED
      BY <1>0, <1>a, <2>1 DEF Stopping
  <1>4. LocksHeld' /\ Nodes'
    BY <1>0, <1>a DEF LocksHeld, Nodes
  <1> QED
    BY <1>2, <1>3, <1>4 DEF Base

LEMMA DestroyBase ==
  ASSUME Base, Destroy
  PROVE  Base'
  <1>0. TypeOK /\ LocksHeld /\ Stopping /\ Nodes
    BY DEF Base
  <1>a. /\ entry \in [Entries -> EntryRecord] /\ list \in [Buckets -> Seq(Entries)]
        /\ rules \subseteq Entries /\ rm \in Nat
    BY <1>0, TypeParts
  <1>b. /\ main = "join" /\ main' = "done" /\ list' = [b \in Buckets |-> <<>>]
        /\ UNCHANGED <<now, lock, add, th, quit, touched>> /\ th[Aging].pc = "done"
    BY DEF Destroy, At
  <1> DEFINE linked == UNION {Listed(b) : b \in Buckets}
  <1>d. /\ entry' = [e \in Entries |-> IF e \in linked THEN Freed(e) ELSE entry[e]]
        /\ rules' \subseteq rules
        /\ rm' = rm + Cardinality(linked)
    BY DEF Destroy
  <1>e. linked \subseteq Entries
    <2>1. ASSUME NEW b \in Buckets, NEW i \in DOMAIN list[b] PROVE list[b][i] \in Entries
      BY <1>a, LenProperties, ElementOfSeq
    <2> QED
      BY <2>1 DEF Listed
  <1>h. rm' \in Nat
    <2>1. IsFiniteSet(Entries)
      BY FS_Interval, TableAssumption DEF Entries
    <2>2. Cardinality(linked) \in Nat
      BY <1>e, <2>1, FS_Subset, FS_CardinalityType
    <2> QED
      BY <1>a, <1>d, <2>2
  <1> HIDE DEF linked
  <1>1. \A e \in Entries : Freed(e) \in EntryRecord
    BY <1>a DEF Freed, Unallocated, EntryRecord
  <1>2. entry' \in [Entries -> EntryRecord]
    BY <1>a, <1>d, <1>1
  <1>3. list' \in [Buckets -> Seq(Entries)]
    BY <1>b
  <1>4. TypeOK'
    BY <1>0, <1>a, <1>b, <1>d, <1>h, <1>2, <1>3, TypeParts, TypeKept
  <1>5. LocksHeld' /\ Nodes'
    BY <1>0, <1>b DEF LocksHeld, Nodes
  <1>6. Stopping'
    BY <1>0, <1>b DEF Stopping
  <1> QED
    BY <1>4, <1>5, <1>6 DEF Base

LEMMA InitBase ==
  ASSUME Init
  PROVE  Base
  <1>a. /\ now = 1 /\ entry = [e \in Entries |-> Unallocated]
        /\ list = [b \in Buckets |-> <<>>] /\ lock = [b \in Buckets |-> Nobody]
        /\ rules = {} /\ add = 0 /\ rm = 0 /\ quit = FALSE /\ main = "wait_lcore"
        /\ touched = FALSE
    BY DEF Init
  <1>b. 1 \in Buckets
    BY TableAssumption DEF Buckets
  <1>c. /\ Idle \in ThreadRecord /\ [Idle EXCEPT !.pc = "done"] \in ThreadRecord
        /\ Idle.pc = "loop" /\ [Idle EXCEPT !.pc = "done"].pc = "done"
    BY <1>b DEF Idle, ThreadRecord, Pcs
  <1>d. /\ th \in [Threads -> ThreadRecord]
        /\ \A p \in Threads : th[p].pc \in {"loop", "done"}
    BY <1>c DEF Init
  <1>f. Unallocated \in EntryRecord
    BY DEF Unallocated, EntryRecord
  <1>1. TypeOK
    <2>1. entry \in [Entries -> EntryRecord]
      BY <1>a, <1>f
    <2>2. list \in [Buckets -> Seq(Entries)] /\ lock \in [Buckets -> Threads \cup {Nobody}]
      BY <1>a
    <2> QED
      BY <1>a, <1>d, <2>1, <2>2, TypeParts
  <1>2. LocksHeld /\ Stopping /\ Nodes
    BY <1>a, <1>d DEF LocksHeld, Stopping, Nodes, Locked, HasEntry, Handling
  <1> QED
    BY <1>1, <1>2 DEF Base

LEMMA NextBase ==
  ASSUME Base, [Next]_vars
  PROVE  Base'
  <1>a. Aging \in Threads /\ Lcores \subseteq Threads
    BY DEF Threads
  <1>1. ASSUME NEW l \in Lcores, \/ \E f \in Flows : Packet(l, f)
                                 \/ \E e \in Entries : Aged(l, e)
                                 \/ LcoreRuns(l) \/ Leave(l)
        PROVE  Base'
    BY <1>1, <1>a, LookupBase, AdditionBase, LcoreBase, AllocateBase, InsertBase, UnlinkBase,
       FreeBase, UnlockBase DEF LcoreRuns
  <1>2. CASE AgingRuns
    BY <1>2, <1>a, AgingBase, UnlinkBase, FreeBase, UnlockBase DEF AgingRuns
  <1>3. CASE MainRuns \/ Tick \/ Quit \/ UNCHANGED vars
    BY <1>3, QuietBase, DestroyBase DEF MainRuns
  <1> QED
    BY <1>1, <1>2, <1>3 DEF Next

-----------------------------------------------------------------------------
\* What holds as long as no thread has used a freed entry.

\* The steps of a packet's lookup.
LEMMA LookupIInv ==
  ASSUME IInv, Base', NoUseAfterFree', NEW l \in Lcores,
         \/ \E f \in Flows : Packet(l, f)
         \/ FindMatch(l) \/ FindNext(l) \/ FindNothing(l) \/ CountPacket(l)
  PROVE  IInv'
  <1>0. /\ TypeOK /\ Owners /\ Additions /\ AgingThread /\ Removals /\ Memory /\ Walks
        /\ Rules /\ Stopping /\ LocksHeld /\ ListsSound /\ OneEach
    BY DEF IInv
  <1>a. l \in Threads /\ l # Aging
    BY TableAssumption DEF Threads
  <1>b. OwnerOf(l) /\ WalkOf(l) /\ th[l].bucket \in Buckets
    BY <1>0, <1>a DEF Owners, Walks, TypeOK
  <1>c. th \in [Threads -> ThreadRecord] /\ entry \in [Entries -> EntryRecord]
    BY <1>0, TypeParts
  <1>d. add \in Nat /\ rm \in Nat
    BY <1>0 DEF TypeOK
  <1> USE TableAssumption DEF shared
  <1>1. ASSUME NEW f \in Flows, Packet(l, f) PROVE IInv'
    <2> USE <1>1 DEF Packet, At
    <2>0. BucketOf[f] \in Buckets /\ First(BucketOf[f]) \in Entries \cup {Nil}
      BY <1>0, FirstType
    <2>a. /\ Others(l) /\ th' \in [Threads -> ThreadRecord]
          /\ th'[l].pc = "find" /\ th'[l].flow = f /\ th'[l].bucket = BucketOf[f]
          /\ th'[l].node = First(BucketOf[f])
      <3>1. th' = [th EXCEPT ![l].pc = "find", ![l].flow = f, ![l].bucket = BucketOf[f],
                             ![l].node = First(BucketOf[f])]
        OBVIOUS
      <3>2. "find" \in Pcs
        BY DEF Pcs
      <3> HIDE DEF Packet
      <3> QED
        BY <1>0, <1>a, <2>0, <3>1, <3>2, Starts
    <2>1. TypeOK'
      BY DEF Base
    <2>2. LocksHeld'
      BY DEF Base
    <2>3. OwnerOf(l)' /\ AdditionOf(l)' /\ RemovalOf(l)'
      BY <2>a DEF OwnerOf, AdditionOf, RemovalOf, Handling, Adding, HasEntry
    <2>4. WalkOf(l)'
      <3>1. list[BucketOf[f]] \in Seq(Entries)
        BY <1>0, <2>0 DEF TypeOK
      <3>2. Ahead(list[BucketOf[f]], First(BucketOf[f]), f, entry)
        BY <3>1, AheadFirst DEF First
      <3> QED
        BY <2>a, <3>2 DEF WalkOf
    <2> QED
      BY <1>a, <2>a, <2>1, <2>2, <2>3, <2>4, LocalStep
  <1>2. ASSUME FindMatch(l) PROVE IInv'
    <2> USE <1>2 DEF FindMatch, At, Goto, Live, Refreshed
    <2>0. th[l].node \in Entries
      BY <1>0, <1>a DEF TypeOK
    <2>a. /\ Others(l) /\ th'[l].pc = "count" /\ th'[l].flow = th[l].flow
          /\ th'[l].bucket = th[l].bucket /\ th'[l].node = th[l].node
      BY <1>0, <1>a DEF TypeOK, Others
    <2>b. \A e \in Entries :
            /\ entry'[e].state = entry[e].state /\ entry'[e].flow = entry[e].flow
            /\ entry'[e].next = entry[e].next /\ entry'[e].age = entry[e].age
            /\ entry'[e].hw = entry[e].hw
      BY <1>0, <2>0 DEF TypeOK
    <2>1. TypeOK'
      BY DEF Base
    <2>2. LocksHeld'
      BY DEF Base
    <2>3. OwnerOf(l)'
      <3>1. th[l].flow \in Flows /\ Owner[th[l].flow] = l /\ BucketOf[th[l].flow] = th[l].bucket
        BY <1>b DEF OwnerOf, Handling
      <3>2. entry'[th[l].node].state = "live" /\ entry'[th[l].node].flow = th[l].flow
        <4>1. Live(l)
          BY DEF NoUseAfterFree, Uses
        <4>2. entry[th[l].node].state = "live" /\ entry[th[l].node].flow = th[l].flow
          BY <4>1
        <4> QED
          BY <2>0, <2>b, <4>2
      <3> HIDE <1>2 DEF FindMatch
      <3> QED
        BY <2>0, <2>a, <3>1, <3>2 DEF OwnerOf, Known
    <2>4. AdditionOf(l)' /\ RemovalOf(l)' /\ WalkOf(l)'
      BY <2>a DEF AdditionOf, RemovalOf, WalkOf, Adding
    <2>5. th[l].pc = "find" /\ list' = list /\ main' = main /\ rules' = rules
      OBVIOUS
    <2> HIDE <1>2 DEF FindMatch
    <2> QED
      BY <1>a, <2>a, <2>b, <2>1, <2>2, <2>3, <2>4, <2>5, LocalStep
  <1>3. ASSUME FindNext(l) PROVE IInv'
    <2> USE <1>3 DEF FindNext, At
    <2> DEFINE b == th[l].bucket  n == th[l].node  f == th[l].flow
    <2>0. n \in Entries /\ NextOf(b, n) \in Entries \cup {Nil}
      <3>1. n \in Entries
        BY <1>a, <1>c DEF ThreadRecord
      <3> QED
        BY <1>0, <1>b, <3>1, NextOfType
    <2>l. Live(l)
      BY DEF NoUseAfterFree, Uses
    <2>s. n # Nil /\ entry[n].state = "live" /\ entry[n].flow # f
      BY <2>l DEF Live
    <2>t. th' = [th EXCEPT ![l].node = NextOf(b, n)]
      BY <2>l
    <2>a. /\ Others(l) /\ th'[l].pc = "find" /\ th'[l].flow = f
          /\ th'[l].bucket = b /\ th'[l].node = NextOf(b, n)
      BY <1>a, <1>c, <2>t DEF ThreadRecord, Others
    <2>1. TypeOK'
      BY DEF Base
    <2>2. LocksHeld'
      BY DEF Base
    <2>3. OwnerOf(l)' /\ AdditionOf(l)' /\ RemovalOf(l)'
      BY <1>b, <2>a DEF OwnerOf, AdditionOf, RemovalOf, Handling, Adding, HasEntry
    <2>4. Ahead(list[b], NextOf(b, n), f, entry)
      <3>0. list[b] \in Seq(Entries) /\ Unique(list[b])
        BY <1>0, <1>b, UniqueList DEF TypeOK
      <3>1. CASE Ahead(list[b], n, f, entry)
        <4>1. n \in Listed(b)
          BY <2>0, <2>s, <3>0, <3>1, NilIsNone, LenProperties DEF Ahead, Listed
        <4>2. Ahead(list[b], Successor(list[b], n), f, entry)
          BY <2>s, <3>0, <3>1, AheadNext
        <4> QED
          BY <4>1, <4>2 DEF NextOf
      <3>2. CASE Removing(n, b) /\ Ahead(list[b], entry[n].next, f, entry)
        <4>1. n \notin Listed(b)
          BY <1>0, <3>2 DEF Removing, Removals, RemovalOf
        <4> QED
          BY <3>2, <4>1 DEF NextOf
      <3> QED
        BY <1>b, <2>s, <3>1, <3>2 DEF WalkOf
    <2>5. WalkOf(l)'
      BY <2>a, <2>4 DEF WalkOf
    <2> QED
      BY <1>a, <2>a, <2>1, <2>2, <2>3, <2>5, LocalStep
  <1>4. ASSUME FindNothing(l) PROVE IInv'
    <2> USE <1>4 DEF FindNothing, At, Goto
    <2>a. /\ Others(l) /\ th'[l].pc = "new" /\ th'[l].flow = th[l].flow
          /\ th'[l].bucket = th[l].bucket /\ th'[l].node = th[l].node
      BY <1>0, <1>a DEF TypeOK, Others
    <2>1. TypeOK'
      BY DEF Base
    <2>2. LocksHeld'
      BY DEF Base
    <2>3. OwnerOf(l)' /\ AdditionOf(l)' /\ RemovalOf(l)'
      BY <1>b, <2>a DEF OwnerOf, AdditionOf, RemovalOf, Handling, Adding, HasEntry
    <2>4. WalkOf(l)'
      BY <1>b, <2>a, NilIsNone DEF WalkOf, Ahead
    <2> QED
      BY <1>a, <2>a, <2>1, <2>2, <2>3, <2>4, LocalStep
  <1>5. ASSUME CountPacket(l) PROVE IInv'
    <2> USE <1>5 DEF CountPacket, At, Return, Idle
    <2>a. Others(l) /\ th'[l].pc = "loop"
      BY <1>0, <1>a DEF TypeOK, Others
    <2>1. TypeOK'
      BY DEF Base
    <2>2. LocksHeld'
      BY DEF Base
    <2>3. OwnerOf(l)' /\ AdditionOf(l)' /\ RemovalOf(l)' /\ WalkOf(l)'
      BY <2>a DEF OwnerOf, AdditionOf, RemovalOf, WalkOf, Handling, Adding, HasEntry
    <2> QED
      BY <1>a, <2>a, <2>1, <2>2, <2>3, LocalStep
  <1> QED
    BY <1>1, <1>2, <1>3, <1>4, <1>5

\* The steps that add an entry, but for the insertion itself.
LEMMA AdditionIInv ==
  ASSUME IInv, Base', NoUseAfterFree', NEW l \in Lcores,
         \/ OutOfMemory(l) \/ LoadAdd(l) \/ StoreAdd(l) \/ AddRule(l) \/ AddRuleFails(l)
         \/ \E age \in Ages : SetAge(l, age)
         \/ SetExpiration(l) \/ SetHw(l)
  PROVE  IInv'
  <1>0. /\ TypeOK /\ Owners /\ Additions /\ AgingThread /\ Removals /\ Memory /\ Walks
        /\ Rules /\ Stopping /\ LocksHeld /\ ListsSound /\ OneEach
    BY DEF IInv
  <1>a. l \in Threads /\ l # Aging
    BY TableAssumption DEF Threads
  <1>b. OwnerOf(l) /\ AdditionOf(l) /\ th[l].bucket \in Buckets
    BY <1>0, <1>a DEF Owners, Additions, TypeOK
  <1>c. th \in [Threads -> ThreadRecord] /\ entry \in [Entries -> EntryRecord]
    BY <1>0, TypeParts
  <1>d. add \in Nat /\ rm \in Nat /\ th[l].reg \in Nat /\ rules \subseteq Entries
    BY <1>0, <1>a DEF TypeOK
  <1> USE DEF shared
  <1>1. ASSUME OutOfMemory(l) PROVE IInv'
    <2> USE <1>1 DEF OutOfMemory, At, Return, Idle
    <2>a. Others(l) /\ th'[l].pc = "loop"
      BY <1>a, <1>c DEF ThreadRecord, Others
    <2>1. TypeOK'
      BY DEF Base
    <2>2. LocksHeld'
      BY DEF Base
    <2>3. OwnerOf(l)' /\ AdditionOf(l)' /\ RemovalOf(l)' /\ WalkOf(l)'
      BY <2>a DEF OwnerOf, AdditionOf, RemovalOf, WalkOf, Handling, Adding, HasEntry
    <2> QED
      BY <1>a, <2>a, <2>1, <2>2, <2>3, LocalStep
  <1>2. ASSUME LoadAdd(l) PROVE IInv'
    <2> USE <1>2 DEF LoadAdd, At
    <2>a. /\ Others(l) /\ th'[l].pc = "store_add" /\ th'[l].flow = th[l].flow
          /\ th'[l].bucket = th[l].bucket /\ th'[l].node = th[l].node
      BY <1>a, <1>c DEF ThreadRecord, Others
    <2>b. /\ Known(th[l].node, th[l].bucket, entry) /\ th[l].node \in Entries
          /\ th[l].pc \in HasEntry
      BY <1>b DEF OwnerOf, HasEntry, Handling, Known
    <2>1. TypeOK'
      BY DEF Base
    <2>2. LocksHeld'
      BY DEF Base
    <2>3. OwnerOf(l)' /\ RemovalOf(l)' /\ WalkOf(l)'
      BY <1>b, <2>a, <2>b DEF OwnerOf, RemovalOf, WalkOf, Known, Handling, HasEntry
    <2>4. AdditionOf(l)'
      BY <1>b, <2>a, <2>b DEF AdditionOf, Adding
    <2>5. \A e \in rules' :
            (th[l].pc \in {"add_rule", "set_age", "set_exp", "set_hw"} /\ th[l].node = e)
              => RuleOf(e)'
      BY <1>0, <1>b, <2>a, <2>b DEF RuleOf, Rules, AdditionOf, Adding
    <2> QED
      BY <1>a, <2>a, <2>b, <2>1, <2>2, <2>3, <2>4, <2>5, LocalStep
  <1>3. ASSUME StoreAdd(l) PROVE IInv'
    <2> USE <1>3 DEF StoreAdd, At
    <2>a. /\ Others(l) /\ th'[l].pc = "add_rule" /\ th'[l].flow = th[l].flow
          /\ th'[l].bucket = th[l].bucket /\ th'[l].node = th[l].node
      BY <1>a, <1>c DEF ThreadRecord, Others
    <2>b. /\ Known(th[l].node, th[l].bucket, entry) /\ th[l].node \in Entries
          /\ th[l].pc \in HasEntry
      BY <1>b DEF OwnerOf, HasEntry, Handling, Known
    <2>1. TypeOK'
      BY DEF Base
    <2>2. LocksHeld'
      BY DEF Base
    <2>3. OwnerOf(l)' /\ RemovalOf(l)' /\ WalkOf(l)'
      BY <1>b, <2>a, <2>b DEF OwnerOf, RemovalOf, WalkOf, Known, Handling, HasEntry
    <2>4. AdditionOf(l)'
      BY <1>b, <2>a, <2>b DEF AdditionOf, Adding
    <2>5. \A e \in rules' :
            (th[l].pc \in {"add_rule", "set_age", "set_exp", "set_hw"} /\ th[l].node = e)
              => RuleOf(e)'
      BY <1>0, <1>b, <2>a, <2>b DEF RuleOf, Rules, AdditionOf, Adding
    <2> QED
      BY <1>a, <2>a, <2>b, <2>1, <2>2, <2>3, <2>4, <2>5, LocalStep
  <1>4. ASSUME AddRule(l) PROVE IInv'
    <2> USE <1>4 DEF AddRule, At, Goto
    <2>a. /\ Others(l) /\ th'[l].pc = "set_age" /\ th'[l].flow = th[l].flow
          /\ th'[l].bucket = th[l].bucket /\ th'[l].node = th[l].node
      BY <1>a, <1>c DEF ThreadRecord, Others
    <2>b. /\ Known(th[l].node, th[l].bucket, entry) /\ th[l].node \in Entries
          /\ th[l].pc \in HasEntry
      BY <1>b DEF OwnerOf, HasEntry, Handling, Known
    <2>1. TypeOK'
      BY DEF Base
    <2>2. LocksHeld'
      BY DEF Base
    <2>3. OwnerOf(l)' /\ RemovalOf(l)' /\ WalkOf(l)'
      BY <1>b, <2>a, <2>b DEF OwnerOf, RemovalOf, WalkOf, Known, Handling, HasEntry
    <2>4. AdditionOf(l)'
      BY <1>b, <2>a, <2>b DEF AdditionOf, Adding
    <2>5. \A e \in rules' :
            (th[l].pc \in {"add_rule", "set_age", "set_exp", "set_hw"} /\ th[l].node = e)
              => RuleOf(e)'
      BY <1>0, <1>b, <2>a, <2>b DEF RuleOf, Rules, AdditionOf, Adding
    <2> QED
      BY <1>a, <2>a, <2>b, <2>1, <2>2, <2>3, <2>4, <2>5, LocalStep
  <1>5. ASSUME AddRuleFails(l) PROVE IInv'
    <2> USE <1>5 DEF AddRuleFails, At, Goto
    <2>a. /\ Others(l) /\ th'[l].pc = "destroy" /\ th'[l].flow = th[l].flow
          /\ th'[l].bucket = th[l].bucket /\ th'[l].node = th[l].node
      BY <1>a, <1>c DEF ThreadRecord, Others
    <2>b. /\ Known(th[l].node, th[l].bucket, entry) /\ th[l].node \in Entries
          /\ th[l].pc \in HasEntry
      BY <1>b DEF OwnerOf, HasEntry, Handling, Known
    <2>1. TypeOK'
      BY DEF Base
    <2>2. LocksHeld'
      BY DEF Base
    <2>3. OwnerOf(l)' /\ RemovalOf(l)' /\ WalkOf(l)'
      BY <1>b, <2>a, <2>b DEF OwnerOf, RemovalOf, WalkOf, Known, Handling, HasEntry
    <2>4. AdditionOf(l)'
      BY <1>b, <2>a, <2>b DEF AdditionOf, Adding
    <2>5. \A e \in rules' :
            (th[l].pc \in {"add_rule", "set_age", "set_exp", "set_hw"} /\ th[l].node = e)
              => RuleOf(e)'
      BY <1>0, <1>b, <2>a, <2>b DEF RuleOf, Rules, AdditionOf, Adding
    <2> QED
      BY <1>a, <2>a, <2>b, <2>1, <2>2, <2>3, <2>4, <2>5, LocalStep
  <1>6. ASSUME NEW age \in Ages, SetAge(l, age) PROVE IInv'
    <2> USE <1>6 DEF SetAge, At, Goto, Live
    <2>a. /\ Others(l) /\ th'[l].pc = "set_exp" /\ th'[l].flow = th[l].flow
          /\ th'[l].bucket = th[l].bucket /\ th'[l].node = th[l].node
      BY <1>a, <1>c DEF ThreadRecord, Others
    <2>b. /\ Known(th[l].node, th[l].bucket, entry) /\ th[l].node \in Entries
          /\ th[l].pc \in HasEntry
      BY <1>b DEF OwnerOf, HasEntry, Handling, Known
    <2>c. /\ age # 0 /\ entry'[th[l].node].age = age
          /\ \A e \in Entries :
               /\ entry'[e].state = entry[e].state /\ entry'[e].flow = entry[e].flow
               /\ entry'[e].next = entry[e].next /\ entry'[e].hw = entry[e].hw
               /\ e # th[l].node => entry'[e].age = entry[e].age
      BY <1>c, <2>b, TableAssumption DEF EntryRecord
    <2>1. TypeOK'
      BY DEF Base
    <2>2. LocksHeld'
      BY DEF Base
    <2>3. OwnerOf(l)' /\ RemovalOf(l)' /\ WalkOf(l)'
      <3>1. Known(th[l].node, th[l].bucket, entry')
        BY <2>b, <2>c DEF Known
      <3>2. OwnerOf(l)'
        BY <1>b, <2>a, <2>b, <2>c, <3>1 DEF OwnerOf, Handling, HasEntry
      <3> QED
        BY <2>a, <3>2 DEF RemovalOf, WalkOf
    <2>4. AdditionOf(l)'
      BY <1>b, <2>a, <2>b, <2>c DEF AdditionOf, Adding
    <2>5. \A e \in rules' :
            (th[l].pc \in {"add_rule", "set_age", "set_exp", "set_hw"} /\ th[l].node = e)
              => RuleOf(e)'
      BY <1>0, <1>b, <2>a, <2>b, <2>c DEF RuleOf, Rules, AdditionOf, Adding
    <2> QED
      BY <1>a, <2>a, <2>b, <2>c, <2>1, <2>2, <2>3, <2>4, <2>5, LocalStep
  <1>7. ASSUME SetExpiration(l) PROVE IInv'
    <2> USE <1>7 DEF SetExpiration, At, Goto, Live
    <2>a. /\ Others(l) /\ th'[l].pc = "set_hw" /\ th'[l].flow = th[l].flow
          /\ th'[l].bucket = th[l].bucket /\ th'[l].node = th[l].node
      BY <1>a, <1>c DEF ThreadRecord, Others
    <2>b. /\ Known(th[l].node, th[l].bucket, entry) /\ th[l].node \in Entries
          /\ th[l].pc \in HasEntry
      BY <1>b DEF OwnerOf, HasEntry, Handling, Known
    <2>c. \A e \in Entries :
            /\ entry'[e].state = entry[e].state /\ entry'[e].flow = entry[e].flow
            /\ entry'[e].next = entry[e].next /\ entry'[e].hw = entry[e].hw
            /\ entry'[e].age = entry[e].age
      BY <1>c, <2>b DEF EntryRecord, Refreshed
    <2>1. TypeOK'
      BY DEF Base
    <2>2. LocksHeld'
      BY DEF Base
    <2>3. OwnerOf(l)' /\ RemovalOf(l)' /\ WalkOf(l)'
      BY <1>b, <2>a, <2>b, <2>c DEF OwnerOf, RemovalOf, WalkOf, Known, Handling, HasEntry
    <2>4. AdditionOf(l)'
      BY <1>b, <2>a, <2>b, <2>c DEF AdditionOf, Adding
    <2>5. \A e \in rules' :
            (th[l].pc \in {"add_rule", "set_age", "set_exp", "set_hw"} /\ th[l].node = e)
              => RuleOf(e)'
      BY <1>0, <1>b, <2>a, <2>b, <2>c DEF RuleOf, Rules, AdditionOf, Adding
    <2> QED
      BY <1>a, <2>a, <2>b, <2>c, <2>1, <2>2, <2>3, <2>4, <2>5, LocalStep
  <1>8. ASSUME SetHw(l) PROVE IInv'
    <2> USE <1>8 DEF SetHw, At, Goto
    <2>l. Live(l)
      BY DEF NoUseAfterFree, Uses
    <2>m. entry[th[l].node].state = "live"
      BY <2>l DEF Live
    <2>e. entry' = [entry EXCEPT ![th[l].node].hw = TRUE]
      BY <2>l
    <2>a. /\ Others(l) /\ th'[l].pc = "count" /\ th'[l].flow = th[l].flow
          /\ th'[l].bucket = th[l].bucket /\ th'[l].node = th[l].node
      BY <1>a, <1>c DEF ThreadRecord, Others
    <2>b. /\ Known(th[l].node, th[l].bucket, entry) /\ th[l].node \in Entries
          /\ th[l].pc \in HasEntry
      BY <1>b DEF OwnerOf, HasEntry, Handling, Known
    <2>c. /\ entry'[th[l].node].hw
          /\ \A e \in Entries :
               /\ entry'[e].state = entry[e].state /\ entry'[e].flow = entry[e].flow
               /\ entry'[e].next = entry[e].next /\ entry'[e].age = entry[e].age
               /\ e # th[l].node => entry'[e].hw = entry[e].hw
      <3>1. PICK n \in Entries : n = th[l].node
        BY <2>b
      <3>2. entry' = [entry EXCEPT ![n] = [entry[n] EXCEPT !.hw = TRUE]]
        BY <2>e, <3>1
      <3> HIDE <1>8, <2>e DEF SetHw
      <3>3. /\ entry'[n] = [entry[n] EXCEPT !.hw = TRUE]
            /\ \A e \in Entries : e # n => entry'[e] = entry[e]
        BY <1>c, <3>2
      <3>4. /\ entry'[n].hw
            /\ entry'[n].state = entry[n].state /\ entry'[n].flow = entry[n].flow
            /\ entry'[n].next = entry[n].next /\ entry'[n].age = entry[n].age
        BY <1>c, <3>3 DEF EntryRecord
      <3> QED
        BY <3>1, <3>3, <3>4
    <2>d. \A e \in Entries : entry[e].hw => entry'[e].hw
      BY <2>b, <2>c
    <2>1. TypeOK'
      BY DEF Base
    <2>2. LocksHeld'
      BY DEF Base
    <2>3. OwnerOf(l)' /\ RemovalOf(l)' /\ WalkOf(l)'
      BY <1>b, <2>a, <2>b, <2>c DEF OwnerOf, RemovalOf, WalkOf, Known, Handling, HasEntry
    <2>4. AdditionOf(l)'
      BY <1>b, <2>a, <2>b, <2>c DEF AdditionOf, Adding
    <2>5. \A e \in rules' :
            (th[l].pc \in {"add_rule", "set_age", "set_exp", "set_hw"} /\ th[l].node = e)
              => RuleOf(e)'
      BY <1>0, <1>b, <2>m, <2>a, <2>b, <2>c DEF RuleOf, Rules, AdditionOf, Adding
    <2> QED
      BY <1>a, <2>a, <2>b, <2>c, <2>d, <2>1, <2>2, <2>3, <2>4, <2>5, LocalStep
  <1> QED
    BY <1>1, <1>2, <1>3, <1>4, <1>5, <1>6, <1>7, <1>8

\* A live entry that no lcore is adding, and nobody removes, is on its list.
LEMMA LiveIsListed ==
  ASSUME IInv, NEW e \in Entries, entry[e].state = "live",
         \A p \in Threads : th[p].node = e => th[p].pc \notin {"insert", "free"}
  PROVE  e \in Listed(BucketOf[entry[e].flow])
  BY DEF IInv, ListsSound

\* The steps of an lcore towards the removal of an entry, and its end.
LEMMA LcoreIInv ==
  ASSUME IInv, Base', NoUseAfterFree', NEW l \in Lcores,
         \/ \E e \in Entries : Aged(l, e)
         \/ Lock(l) \/ Leave(l)
  PROVE  IInv'
  <1>0. /\ TypeOK /\ Owners /\ Additions /\ AgingThread /\ Removals /\ Memory /\ Walks
        /\ Rules /\ Stopping /\ LocksHeld /\ ListsSound /\ OneEach
    BY DEF IInv
  <1>a. l \in Threads /\ l # Aging
    BY TableAssumption DEF Threads
  <1>b. OwnerOf(l) /\ th[l].bucket \in Buckets
    BY <1>0, <1>a DEF Owners, TypeOK
  <1>c. th \in [Threads -> ThreadRecord] /\ entry \in [Entries -> EntryRecord]
    BY <1>0, TypeParts
  <1>d. add \in Nat /\ rm \in Nat /\ rules \subseteq Entries
    BY <1>0 DEF TypeOK
  <1> USE DEF shared
  <1>1. ASSUME NEW e \in Entries, Aged(l, e) PROVE IInv'
    <2> USE <1>1 DEF Aged, At
    <2>0. /\ entry[e].flow \in Flows /\ entry[e].state # "unused"
          /\ BucketOf[entry[e].flow] \in Buckets
      BY <1>0, TableAssumption DEF Memory
    <2>a. /\ Others(l) /\ th'[l].pc = "destroy" /\ th'[l].node = e
          /\ th'[l].bucket = BucketOf[entry[e].flow]
      <3>1. entry[e].state = "live"
        BY DEF NoUseAfterFree
      <3>2. PICK b \in Buckets :
              /\ b = BucketOf[entry[e].flow]
              /\ th' = [th EXCEPT ![l].pc = "destroy", ![l].node = e, ![l].bucket = b]
        BY <3>1
      <3> HIDE <1>1 DEF Aged
      <3> QED
        BY <1>a, <1>c, <3>2 DEF ThreadRecord, Others
    <2>b. Known(e, BucketOf[entry[e].flow], entry)
      BY <1>c, <2>0 DEF Known, EntryRecord
    <2>1. TypeOK'
      BY DEF Base
    <2>2. LocksHeld'
      BY DEF Base
    <2>3. OwnerOf(l)' /\ AdditionOf(l)' /\ RemovalOf(l)' /\ WalkOf(l)'
      BY <2>a, <2>b DEF OwnerOf, AdditionOf, RemovalOf, WalkOf, Known, Handling, Adding, HasEntry
    <2> QED
      BY <1>a, <2>a, <2>1, <2>2, <2>3, LocalStep
  <1>2. ASSUME Lock(l) PROVE IInv'
    <2> USE <1>2 DEF Lock, At, Goto, Live
    <2> DEFINE b == th[l].bucket  n == th[l].node
    <2>a. Others(l) /\ th'[l].pc = "unlink" /\ th'[l].node = n /\ th'[l].bucket = b
      BY <1>a, <1>c DEF ThreadRecord, Others
    <2>b. /\ Known(n, b, entry) /\ n \in Entries /\ Owner[entry[n].flow] = l
          /\ BucketOf[entry[n].flow] = b
      BY <1>b DEF OwnerOf, HasEntry, Handling, Known
    <2>c. entry[n].state = "freed" \/ n \in Listed(b)
      <3>1. ASSUME NEW p \in Threads, th[p].node = n, th[p].pc \in {"insert", "free"}
            PROVE  FALSE
        <4>1. CASE p \in Lcores
          BY <1>0, <2>b, <3>1, <4>1, OwnEntry DEF HasEntry, Handling
        <4>2. CASE p = Aging
          <5>1. th[p].pc = "free" /\ th[p].bucket = b
            BY <1>0, <2>b, <3>1, <4>2 DEF AgingThread, Known
          <5>2. lock[b] = p /\ p # Nobody
            BY <1>0, <5>1, TableAssumption DEF LocksHeld, Locked
          <5> QED
            BY <5>2
        <4> QED
          BY <4>1, <4>2 DEF Threads
      <3>2. entry[n].state = "live" => n \in Listed(BucketOf[entry[n].flow])
        BY <2>b, <3>1, LiveIsListed
      <3> QED
        BY <2>b, <3>2 DEF Known
    <2>d. LocksHeld'
      BY DEF Base
    <2>1. TypeOK'
      BY DEF Base
    <2>3. OwnerOf(l)' /\ AdditionOf(l)' /\ RemovalOf(l)' /\ WalkOf(l)'
      BY <2>a, <2>b, <2>c DEF OwnerOf, AdditionOf, RemovalOf, WalkOf, Handling, Adding, HasEntry, Listed
    <2> QED
      BY <1>a, <2>a, <2>d, <2>1, <2>3, LocalStep
  <1>3. ASSUME Leave(l) PROVE IInv'
    <2> USE <1>3 DEF Leave, At, Goto
    <2>a. Others(l) /\ th'[l].pc = "done"
      BY <1>a, <1>c DEF ThreadRecord, Others
    <2>1. TypeOK'
      BY DEF Base
    <2>2. LocksHeld'
      BY DEF Base
    <2>3. OwnerOf(l)' /\ AdditionOf(l)' /\ RemovalOf(l)' /\ WalkOf(l)'
      BY <2>a DEF OwnerOf, AdditionOf, RemovalOf, WalkOf, Handling, Adding, HasEntry
    <2> QED
      BY <1>a, <2>a, <2>1, <2>2, <2>3, LocalStep
  <1> QED
    BY <1>1, <1>2, <1>3

\* The aging thread's pass over the buckets, but for what it shares with the
\* lcores.
LEMMA AgingIInv ==
  ASSUME IInv, Base', StartPass \/ StopAging \/ TryLock \/ ScanNext \/ ScanAged \/ ScanEnd
  PROVE  IInv'
  <1>0. /\ TypeOK /\ Owners /\ Additions /\ AgingThread /\ Removals /\ Memory /\ Walks
        /\ Rules /\ Stopping /\ LocksHeld /\ ListsSound /\ OneEach
    BY DEF IInv
  <1>a. Aging \in Threads /\ Aging \notin Lcores /\ 1 \in Buckets
    BY TableAssumption DEF Threads, Buckets
  <1>b. th[Aging].bucket \in Buckets /\ th[Aging] \in ThreadRecord
    BY <1>0, <1>a, TypeParts DEF TypeOK
  <1>c. th \in [Threads -> ThreadRecord] /\ now \in Nat
    BY <1>0, TypeParts
  <1>d. add \in Nat /\ rm \in Nat /\ rules \subseteq Entries
    BY <1>0 DEF TypeOK
  <1> USE DEF shared
  <1>e. ASSUME NextBucket
        PROVE  /\ th' \in [Threads -> ThreadRecord] /\ Others(Aging)
               /\ th'[Aging].pc \in {"loop", "try"}
    <2>1. Idle \in ThreadRecord
      BY <1>a DEF Idle, ThreadRecord, Pcs
    <2>2. th[Aging].bucket # Size => th[Aging].bucket + 1 \in Buckets
      BY <1>b, TableAssumption DEF Buckets
    <2>3. th[Aging].bucket # Size =>
            [Idle EXCEPT !.pc = "try", !.bucket = th[Aging].bucket + 1] \in ThreadRecord
      BY <2>1, <2>2 DEF ThreadRecord, Pcs
    <2>4. \/ th' = [th EXCEPT ![Aging] = Idle]
          \/ /\ th[Aging].bucket # Size
             /\ th' = [th EXCEPT ![Aging] =
                         [Idle EXCEPT !.pc = "try", !.bucket = th[Aging].bucket + 1]]
      BY <1>a, <1>c, <1>e DEF NextBucket
    <2>5. Idle.pc = "loop" /\ [Idle EXCEPT !.pc = "try", !.bucket = th[Aging].bucket + 1].pc = "try"
      BY DEF Idle
    <2> QED
      BY <1>a, <1>c, <2>1, <2>3, <2>4, <2>5 DEF Others
  <1>1. ASSUME StartPass PROVE IInv'
    <2> USE <1>1 DEF StartPass, At
    <2>a. Others(Aging) /\ th'[Aging].pc = "try"
      BY <1>a, <1>c DEF ThreadRecord, Others
    <2>1. TypeOK'
      BY DEF Base
    <2>2. LocksHeld'
      BY DEF Base
    <2>3. AgingThread' /\ RemovalOf(Aging)'
      BY <2>a DEF AgingThread, RemovalOf
    <2> QED
      BY <1>a, <2>a, <2>1, <2>2, <2>3, LocalStep
  <1>2. ASSUME StopAging PROVE IInv'
    <2> USE <1>2 DEF StopAging, At, Goto
    <2>a. Others(Aging) /\ th'[Aging].pc = "done"
      BY <1>a, <1>c DEF ThreadRecord, Others
    <2>1. TypeOK'
      BY DEF Base
    <2>2. LocksHeld'
      BY DEF Base
    <2>3. AgingThread' /\ RemovalOf(Aging)'
      BY <2>a DEF AgingThread, RemovalOf
    <2> QED
      BY <1>a, <2>a, <2>1, <2>2, <2>3, LocalStep
  <1>3. ASSUME TryLock PROVE IInv'
    <2> USE <1>3 DEF TryLock, At
    <2> DEFINE b == th[Aging].bucket
    <2>1. CASE lock[b] = Nobody
      <3>0. First(b) \in Entries \cup {Nil}
        BY <1>0, <1>b, FirstType
      <3>1. /\ lock' = [lock EXCEPT ![b] = Aging]
            /\ th' = [th EXCEPT ![Aging].pc = "scan", ![Aging].time = now,
                                ![Aging].node = First(b)]
        BY <2>1
      <3>a. /\ Others(Aging) /\ th'[Aging].pc = "scan" /\ th'[Aging].bucket = b
            /\ th'[Aging].node = First(b)
        BY <1>a, <1>c, <3>1 DEF ThreadRecord, Others
      <3>b. LocksHeld'
        BY DEF Base
      <3>c. TypeOK'
        BY DEF Base
      <3>d. First(b) # Nil => First(b) \in Listed(b)
        <4>1. list[b] \in Seq(Entries)
          BY <1>0, <1>b DEF TypeOK
        <4>2. list[b] # <<>> => Head(list[b]) = list[b][1] /\ 1 \in DOMAIN list[b]
          BY <4>1, LenProperties, EmptySeq, HeadTailProperties
        <4> QED
          BY <4>2 DEF First, Listed
      <3>e. AgingThread' /\ RemovalOf(Aging)'
        BY <3>a, <3>d DEF AgingThread, RemovalOf, Listed
      <3> QED
        BY <1>a, <3>a, <3>b, <3>c, <3>e, LocalStep
    <2>2. CASE lock[b] # Nobody
      <3>1. NextBucket /\ lock' = lock
        BY <2>2
      <3>2. /\ th' \in [Threads -> ThreadRecord] /\ Others(Aging)
            /\ th'[Aging].pc \in {"loop", "try"}
        BY <1>e, <3>1
      <3>3. TypeOK'
        BY DEF Base
      <3>4. LocksHeld'
        BY DEF Base
      <3>5. AgingThread' /\ RemovalOf(Aging)'
        BY <3>2 DEF AgingThread, RemovalOf
      <3> QED
        BY <1>a, <3>2, <3>3, <3>4, <3>5, LocalStep
    <2> QED
      BY <2>1, <2>2
  <1>4. ASSUME ScanNext PROVE IInv'
    <2> USE <1>4 DEF ScanNext, At, Live
    <2> DEFINE b == th[Aging].bucket  n == th[Aging].node
    <2>0. n \in Listed(b) /\ n \in Entries /\ NextOf(b, n) \in Entries \cup {Nil}
      <3>1. n \in Listed(b) /\ n \in Entries
        BY <1>0, <1>b DEF AgingThread, ThreadRecord
      <3> QED
        BY <1>0, <1>b, <3>1, NextOfType
    <2>a. /\ Others(Aging) /\ th'[Aging].pc = "scan" /\ th'[Aging].bucket = b
          /\ th'[Aging].node = NextOf(b, n)
      BY <1>a, <1>c DEF ThreadRecord, Others
    <2>1. TypeOK'
      BY DEF Base
    <2>2. LocksHeld'
      BY DEF Base
    <2>3. NextOf(b, n) # Nil => NextOf(b, n) \in Listed(b)
      <3>1. list[b] \in Seq(Entries) /\ Len(list[b]) \in Nat /\ DOMAIN list[b] = 1 .. Len(list[b])
        BY <1>0, <1>b, LenProperties DEF TypeOK
      <3>2. IndexOf(list[b], n) \in 1 .. Len(list[b])
        BY <2>0, <3>1 DEF Listed, IndexOf
      <3>3. IndexOf(list[b], n) < Len(list[b]) => IndexOf(list[b], n) + 1 \in DOMAIN list[b]
        BY <3>1, <3>2
      <3> QED
        BY <2>0, <3>3 DEF NextOf, Successor, Listed
    <2>4. AgingThread' /\ RemovalOf(Aging)'
      BY <2>a, <2>3 DEF AgingThread, RemovalOf, Listed
    <2> QED
      BY <1>a, <2>a, <2>1, <2>2, <2>4, LocalStep
  <1>5. ASSUME ScanAged PROVE IInv'
    <2> USE <1>5 DEF ScanAged, At, Live, Goto
    <2> DEFINE b == th[Aging].bucket  n == th[Aging].node
    <2>0. n \in Listed(b) /\ n \in Entries /\ entry[n].age # 0
      BY <1>0, <1>b DEF AgingThread, ThreadRecord, Expired
    <2>a. Others(Aging) /\ th'[Aging].pc = "unlink" /\ th'[Aging].bucket = b /\ th'[Aging].node = n
      BY <1>a, <1>c DEF ThreadRecord, Others
    <2>b. Known(n, b, entry)
      <3>1. entry[n].state = "live" /\ BucketOf[entry[n].flow] = b
        BY <1>0, <1>b, <2>0 DEF ListsSound, Listed
      <3>2. entry[n].flow \in Flows
        BY <1>0, <2>0, <3>1 DEF Memory
      <3> QED
        BY <2>0, <3>1, <3>2 DEF Known
    <2>1. TypeOK'
      BY DEF Base
    <2>2. LocksHeld'
      BY DEF Base
    <2>3. AgingThread' /\ RemovalOf(Aging)'
      BY <2>a, <2>b, <2>0 DEF AgingThread, RemovalOf, Listed
    <2> QED
      BY <1>a, <2>a, <2>1, <2>2, <2>3, LocalStep
  <1>6. ASSUME ScanEnd PROVE IInv'
    <2> USE <1>6 DEF ScanEnd, At
    <2>1. /\ th' \in [Threads -> ThreadRecord] /\ Others(Aging)
          /\ th'[Aging].pc \in {"loop", "try"}
      BY <1>e
    <2>2. LocksHeld'
      BY DEF Base
    <2>3. TypeOK'
      BY DEF Base
    <2>4. AgingThread' /\ RemovalOf(Aging)'
      BY <2>1 DEF AgingThread, RemovalOf
    <2> QED
      BY <1>a, <2>1, <2>2, <2>3, <2>4, LocalStep
  <1> QED
    BY <1>1, <1>2, <1>3, <1>4, <1>5, <1>6

LEMMA UnlockIInv ==
  ASSUME IInv, Base', NEW p \in Threads, Unlock(p)
  PROVE  IInv'
  <1> USE DEF Unlock, At
  <1>0. /\ TypeOK /\ Owners /\ Additions /\ AgingThread /\ Removals /\ Memory /\ Walks
        /\ Rules /\ Stopping /\ LocksHeld /\ ListsSound /\ OneEach
    BY DEF IInv
  <1>a. 1 \in Buckets /\ (p \in Lcores => p # Aging) /\ (p = Aging => p \notin Lcores)
    BY TableAssumption DEF Buckets
  <1>b. /\ th \in [Threads -> ThreadRecord] /\ th[p].bucket \in Buckets /\ th[p].reg \in Nat
        /\ rm' \in Nat
    BY <1>0, TypeParts DEF ThreadRecord
  <1> DEFINE t == IF p = Aging THEN [Idle EXCEPT !.pc = "try", !.bucket = th[p].bucket] ELSE Idle
  <1>1. t \in ThreadRecord /\ t.pc = IF p = Aging THEN "try" ELSE "loop"
    BY <1>a, <1>b DEF Idle, ThreadRecord, Pcs
  <1>2. th' = [th EXCEPT ![p] = t]
    OBVIOUS
  <1> HIDE DEF t
  <1>3. /\ th' \in [Threads -> ThreadRecord] /\ Others(p)
        /\ th'[p].pc = IF p = Aging THEN "try" ELSE "loop"
    BY <1>b, <1>1, <1>2 DEF Others
  <1>4. LocksHeld'
    BY DEF Base
  <1>5. TypeOK'
    BY DEF Base
  <1>6. RemovalOf(p)'
    BY <1>3 DEF RemovalOf
  <1>7. p = Aging => AgingThread'
    BY <1>3 DEF AgingThread
  <1>8. p \in Lcores => OwnerOf(p)' /\ AdditionOf(p)' /\ WalkOf(p)'
    BY <1>a, <1>3 DEF OwnerOf, AdditionOf, WalkOf, Handling, Adding, HasEntry
  <1> QED
    BY <1>3, <1>4, <1>5, <1>6, <1>7, <1>8, LocalStep

-----------------------------------------------------------------------------
\* The steps that change the table.

LEMMA AllocateIInv ==
  ASSUME IInv, Base', NEW l \in Lcores, NEW e \in Entries, Allocate(l, e)
  PROVE  IInv'
  <1> USE DEF Allocate, At
  <1>0. /\ TypeOK /\ Owners /\ Additions /\ AgingThread /\ Removals /\ Memory /\ Walks
        /\ Rules /\ Stopping /\ LocksHeld /\ ListsSound /\ OneEach
    BY DEF IInv
  <1>a. /\ l \in Threads /\ l # Aging /\ Lcores \subseteq Threads /\ Aging \in Threads
        /\ \A q \in Threads : q = Aging \/ q \in Lcores
    BY TableAssumption DEF Threads
  <1>b. th \in [Threads -> ThreadRecord] /\ entry \in [Entries -> EntryRecord]
    BY <1>0, TypeParts
  <1>c. /\ OwnerOf(l) /\ WalkOf(l) /\ th[l].bucket \in Buckets
        /\ th[l].flow \in Flows /\ Owner[th[l].flow] = l /\ BucketOf[th[l].flow] = th[l].bucket
    BY <1>0, <1>a DEF Owners, OwnerOf, Walks, TypeOK, Handling
  <1>d. /\ Others(l) /\ th'[l].pc = "insert" /\ th'[l].node = e
        /\ th'[l].bucket = th[l].bucket /\ th'[l].flow = th[l].flow
    BY <1>a, <1>b DEF ThreadRecord, Others
  <1>e. /\ entry'[e].state = "live" /\ entry'[e].flow = th[l].flow
        /\ entry'[e].age = entry[e].age /\ entry'[e].hw = entry[e].hw
        /\ \A d \in Entries : d # e => entry'[d] = entry[d]
    BY <1>b DEF EntryRecord
  <1>f. entry[e].age = 0 /\ ~entry[e].hw /\ e \notin rules
    BY <1>0 DEF Memory
  <1>g. \A b \in Buckets : /\ list[b] \in Seq(Entries) /\ Listed(b)' = Listed(b)
                           /\ e \notin Listed(b)
                           /\ \A i \in 1 .. Len(list[b]) : list[b][i] \in Entries \ {e}
    <2>1. ASSUME NEW b \in Buckets
          PROVE  /\ list[b] \in Seq(Entries) /\ DOMAIN list[b] = 1 .. Len(list[b])
      BY <1>0, LenProperties DEF TypeOK
    <2>2. ASSUME NEW b \in Buckets, NEW i \in 1 .. Len(list[b])
          PROVE  list[b][i] \in Entries \ {e}
      BY <1>0, <2>1, ElementOfSeq DEF ListsSound
    <2> QED
      BY <2>1, <2>2 DEF Listed
  <1>h. \A q \in Threads : th[q].pc \in {"unlink", "free"} => th[q].node \in Entries \ {e}
    BY <1>0, <1>a DEF AgingThread, Owners, OwnerOf, Known, HasEntry
  <1>1. TypeOK'
    BY DEF Base
  <1>z. /\ list' = list /\ lock' = lock /\ rules' = rules /\ main' = main
        /\ th[l].pc = "new" /\ entry[e].state = "unused"
    OBVIOUS
  <1> USE <1>z
  <1> HIDE DEF Allocate
  <1>2. LocksHeld'
    BY DEF Base
  <1>3. Stopping' /\ main # "done"
    BY <1>0, <1>a, <1>d, StoppingKept
  <1>4. Owners'
    <2>1. ASSUME NEW m \in Lcores, m # l PROVE OwnerOf(m)'
      <3>1. th'[m] = th[m] /\ OwnerOf(m)
        BY <1>0, <1>a, <1>d, <2>1 DEF Owners, Others
      <3> QED
        BY <1>e, <3>1 DEF OwnerOf, Known
    <2>2. OwnerOf(l)'
      BY <1>c, <1>d, <1>e DEF OwnerOf, Known, Handling, HasEntry
    <2> QED
      BY <2>1, <2>2 DEF Owners
  <1>5. Additions'
    <2>1. ASSUME NEW m \in Lcores, m # l PROVE AdditionOf(m)'
      <3>1. th'[m] = th[m] /\ OwnerOf(m) /\ AdditionOf(m) /\ th[m].bucket \in Buckets
        BY <1>0, <1>a, <1>d, <2>1 DEF Owners, Additions, Others, TypeOK
      <3>2. th[m].pc \in Adding => th[m].node \in Entries \ {e}
        BY <3>1 DEF OwnerOf, Known, HasEntry, Handling, Adding
      <3>3. th[m].pc \in Adding => entry'[th[m].node] = entry[th[m].node]
        BY <1>e, <3>2
      <3> QED
        BY <1>g, <3>1, <3>3 DEF AdditionOf, Listed
    <2>2. AdditionOf(l)'
      <3>1. e \notin Listed(th[l].bucket)
        BY <1>c, <1>g
      <3> QED
        BY <1>d, <1>e, <1>f, <3>1 DEF AdditionOf, Listed
    <2> QED
      BY <2>1, <2>2 DEF Additions
  <1>6. AgingThread' /\ Removals'
    <2>1. th'[Aging] = th[Aging] /\ th[Aging].bucket \in Buckets
      BY <1>0, <1>a, <1>d DEF Others, TypeOK
    <2>2. AgingThread'
      BY <1>0, <1>e, <1>g, <2>1 DEF AgingThread, Known
    <2>3. ASSUME NEW q \in Threads PROVE RemovalOf(q)'
      <3>1. CASE q = l
        BY <1>d, <3>1 DEF RemovalOf
      <3>2. CASE q # l
        <4>1. th'[q] = th[q] /\ RemovalOf(q) /\ th[q].bucket \in Buckets
          BY <1>0, <1>d, <3>2 DEF Removals, Others, TypeOK
        <4> QED
          BY <1>e, <1>g, <1>h, <4>1 DEF RemovalOf
      <3> QED
        BY <3>1, <3>2
    <2> QED
      BY <2>2, <2>3 DEF Removals
  <1>7. Memory'
    BY <1>0, <1>c, <1>e DEF Memory
  <1>8. Walks'
    <2>1. ASSUME NEW b \in Buckets, NEW n, NEW f
          PROVE  /\ Ahead(list[b], n, f, entry) => Ahead(list[b], n, f, entry')
                 /\ NoneOf(list[b], f, entry) => NoneOf(list[b], f, entry')
      <3>1. \A j \in 1 .. Len(list[b]) : entry'[list[b][j]].flow = entry[list[b][j]].flow
        BY <1>e, <1>g
      <3> QED
        BY <3>1, AheadSame
    <2>2. ASSUME NEW m \in Lcores, m # l PROVE WalkOf(m)'
      <3> DEFINE b == th[m].bucket  n == th[m].node  f == th[m].flow
      <3>1. th'[m] = th[m] /\ WalkOf(m) /\ b \in Buckets
        BY <1>0, <1>a, <1>d, <2>2 DEF Walks, Others, TypeOK
      <3>2. ASSUME Removing(n, b)
            PROVE  /\ n \in Entries \ {e}
                   /\ \E q \in Threads : th'[q].pc = "free" /\ th'[q].node = n /\ th'[q].bucket = b
        BY <1>d, <1>h, <3>2 DEF Removing, Others
      <3>3. th[m].pc = "find" =>
              \/ Ahead(list[b], n, f, entry')
              \/ n \in Entries /\ entry'[n].state = "freed"
              \/ /\ n \in Entries /\ Ahead(list[b], entry'[n].next, f, entry')
                 /\ \E q \in Threads : th'[q].pc = "free" /\ th'[q].node = n /\ th'[q].bucket = b
        BY <1>e, <2>1, <3>1, <3>2 DEF WalkOf
      <3>4. th[m].pc \in {"new", "insert"} => NoneOf(list[b], f, entry')
        BY <2>1, <3>1 DEF WalkOf
      <3> QED
        BY <3>1, <3>3, <3>4 DEF WalkOf, Removing
    <2>3. WalkOf(l)'
      <3>1. NoneOf(list[th[l].bucket], th[l].flow, entry')
        BY <1>c, <2>1 DEF WalkOf
      <3> QED
        BY <1>d, <3>1 DEF WalkOf
    <2> QED
      BY <2>2, <2>3 DEF Walks
  <1>9. Rules'
    <2>1. ASSUME NEW d \in rules PROVE RuleOf(d)'
      <3>1. d \in Entries \ {e} /\ RuleOf(d)
        BY <1>0, <1>f DEF Rules, TypeOK
      <3>2. \A m \in Lcores : th[m].pc \in {"set_age", "set_exp", "set_hw"} => th'[m] = th[m]
        BY <1>a, <1>d DEF Others
      <3> QED
        BY <1>e, <3>1, <3>2 DEF RuleOf
    <2> QED
      BY <2>1 DEF Rules
  <1>10. ListsSound'
    <2>1. ASSUME NEW b \in Buckets, NEW i \in DOMAIN list[b]
          PROVE  /\ entry'[list[b][i]].state = "live"
                 /\ BucketOf[entry'[list[b][i]].flow] = b
                 /\ \A j \in DOMAIN list[b] : list[b][i] = list[b][j] => i = j
      <3>1. list[b][i] \in Entries \ {e}
        BY <1>g, LenProperties
      <3>2. entry'[list[b][i]] = entry[list[b][i]]
        BY <1>e, <3>1
      <3> QED
        BY <1>0, <3>2 DEF ListsSound
    <2>2. ASSUME NEW d \in Entries, entry'[d].state = "live"
          PROVE  \/ (d \in Listed(BucketOf[entry[d].flow]))'
                 \/ \E q \in Threads : th'[q].node = d /\ th'[q].pc \in {"insert", "free"}
      <3>1. CASE d = e
        BY <1>a, <1>d, <3>1
      <3>2. CASE d # e
        <4>1. entry'[d] = entry[d] /\ entry[d].state = "live"
          BY <1>e, <2>2, <3>2
        <4>2. CASE d \in Listed(BucketOf[entry[d].flow])
          BY <4>1, <4>2 DEF Listed
        <4>3. CASE \E q \in Threads : th[q].node = d /\ th[q].pc \in {"insert", "free"}
          BY <1>d, <4>3 DEF Others
        <4> QED
          BY <1>0, <4>1, <4>2, <4>3 DEF ListsSound
      <3> QED
        BY <3>1, <3>2
    <2> QED
      BY <2>1, <2>2 DEF ListsSound
  <1>11. OneEach' /\ NothingLeft'
    <2>1. \A b \in Buckets : \A i \in DOMAIN list[b] : list[b][i] \in Entries \ {e}
      BY <1>g, LenProperties
    <2>2. \A b \in Buckets : \A i \in DOMAIN list[b] :
            entry'[list[b][i]].flow = entry[list[b][i]].flow
      BY <1>e, <2>1
    <2> QED
      BY <1>0, <1>3, <2>2 DEF OneEach, NothingLeft
  <1> QED
    BY <1>1, <1>2, <1>3, <1>4, <1>5, <1>6, <1>7, <1>8, <1>9, <1>10, <1>11 DEF IInv

LEMMA InsertIInv ==
  ASSUME IInv, Base', NEW l \in Lcores, Insert(l)
  PROVE  IInv'
  <1> USE DEF Insert, At, Goto
  <1>0. /\ TypeOK /\ Owners /\ Additions /\ AgingThread /\ Removals /\ Memory /\ Walks
        /\ Rules /\ Stopping /\ LocksHeld /\ ListsSound /\ OneEach
    BY DEF IInv
  <1>a. /\ l \in Threads /\ l # Aging /\ Lcores \subseteq Threads /\ Aging \in Threads
        /\ \A q \in Threads : q = Aging \/ q \in Lcores
    BY TableAssumption DEF Threads
  <1>b. /\ th \in [Threads -> ThreadRecord] /\ list \in [Buckets -> Seq(Entries)]
        /\ \A q \in Threads : th[q].bucket \in Buckets
    BY <1>0, TypeParts DEF TypeOK
  <1>p. PICK b \in Buckets, n \in Entries : b = th[l].bucket /\ n = th[l].node
    BY <1>0, <1>a, <1>b DEF Owners, OwnerOf, Known, Handling, HasEntry
  <1>c. /\ b = th[l].bucket /\ n = th[l].node
        /\ n \in Entries /\ th[l].pc = "insert" /\ lock[b] = Nobody /\ b \in Buckets
        /\ th[l].flow \in Flows /\ entry[n].flow = th[l].flow /\ Owner[th[l].flow] = l
        /\ BucketOf[entry[n].flow] = b
    BY <1>0, <1>a, <1>b, <1>p DEF Owners, OwnerOf, Known, Handling, HasEntry
  <1>d. /\ entry[n].state = "live" /\ entry[n].age = 0 /\ ~entry[n].hw /\ n \notin rules
        /\ n \notin Listed(b)
    BY <1>0, <1>c DEF Additions, AdditionOf, Adding
  <1>e. /\ Others(l) /\ th'[l].pc = "load_add" /\ th'[l].node = n /\ th'[l].bucket = b
        /\ th'[l].flow = th[l].flow
    BY <1>a, <1>b, <1>c DEF ThreadRecord, Others
  <1>f. /\ list' = [list EXCEPT ![b] = <<n>> \o list[b]] /\ list'[b] = <<n>> \o list[b]
        /\ \A c \in Buckets : c # b => list'[c] = list[c]
    BY <1>b, <1>c
  <1>1. TypeOK'
    BY DEF Base
  <1>z. entry' = entry /\ lock' = lock /\ rules' = rules /\ main' = main
    OBVIOUS
  <1> USE <1>z
  <1> HIDE DEF Insert
  <1>g. /\ Len(list[b]) \in Nat /\ Len(list'[b]) = Len(list[b]) + 1 /\ list'[b][1] = n
        /\ DOMAIN list[b] = 1 .. Len(list[b]) /\ DOMAIN list'[b] = 1 .. Len(list'[b])
        /\ \A j \in 1 .. Len(list[b]) : list'[b][j + 1] = list[b][j]
        /\ \A j \in 1 .. Len(list'[b]) :
             j = 1 \/ (j - 1 \in 1 .. Len(list[b]) /\ list'[b][j] = list[b][j - 1])
    <2>1. list[b] \in Seq(Entries) /\ list'[b] \in Seq(Entries)
      BY <1>b, <1>c, <1>1 DEF TypeOK
    <2>2. DOMAIN list[b] = 1 .. Len(list[b]) /\ DOMAIN list'[b] = 1 .. Len(list'[b])
      BY <2>1, LenProperties
    <2> QED
      BY <1>c, <1>f, <2>1, <2>2, InsertFacts
  <1>h. /\ Listed(b)' = Listed(b) \cup {n}
        /\ \A c \in Buckets : c # b => Listed(c)' = Listed(c)
    <2>1. \A x : x \in Listed(b)' <=> x \in Listed(b) \cup {n}
      <3>1. ASSUME NEW i \in DOMAIN list'[b] PROVE list'[b][i] \in Listed(b) \cup {n}
        BY <1>g DEF Listed
      <3>2. ASSUME NEW i \in DOMAIN list[b]
            PROVE  \E j \in DOMAIN list'[b] : list'[b][j] = list[b][i]
        <4>1. i + 1 \in DOMAIN list'[b] /\ list'[b][i + 1] = list[b][i]
          BY <1>g
        <4> QED
          BY <4>1
      <3>3. \E j \in DOMAIN list'[b] : list'[b][j] = n
        BY <1>g
      <3> QED
        BY <3>1, <3>2, <3>3, <1>e DEF Listed
    <2>2. \A c \in Buckets : c # b => Listed(c)' = Listed(c)
      BY <1>f DEF Listed
    <2> QED
      BY <2>1, <2>2
  <1>i. \A q \in Threads : th[q].pc \in Locked => th[q].bucket # b
    BY <1>0, <1>c, TableAssumption DEF LocksHeld
  <1>2. LocksHeld'
    BY DEF Base
  <1>3. Stopping' /\ main # "done"
    BY <1>0, <1>a, <1>c, <1>e, StoppingKept
  <1>4. Owners' /\ Memory'
    <2>1. ASSUME NEW m \in Lcores PROVE OwnerOf(m)'
      <3>1. CASE m # l
        BY <1>0, <1>a, <1>e, <3>1 DEF Owners, OwnerOf, Others
      <3>2. CASE m = l
        BY <1>0, <1>c, <1>e, <3>2 DEF Owners, OwnerOf, Handling, HasEntry
      <3> QED
        BY <3>1, <3>2
    <2> QED
      BY <1>0, <2>1 DEF Owners, Memory
  <1>5. Additions'
    <2>1. ASSUME NEW m \in Lcores, m # l PROVE AdditionOf(m)'
      <3>1. th'[m] = th[m] /\ AdditionOf(m) /\ th[m].bucket \in Buckets
        BY <1>0, <1>a, <1>b, <1>e, <2>1 DEF Additions, Others
      <3>2. th[m].pc = "insert" => th[m].node # n
        BY <1>0, <1>c, <2>1, OwnEntry DEF HasEntry, Handling
      <3>3. th[m].pc = "insert" => th[m].node \notin Listed(th[m].bucket)
        BY <3>1 DEF AdditionOf, Adding
      <3>4. th[m].pc = "insert" => (th[m].node \notin Listed(th[m].bucket))'
        <4>1. CASE th[m].bucket = b
          BY <1>h, <3>1, <3>2, <3>3, <4>1 DEF Listed
        <4>2. CASE th[m].bucket # b
          BY <1>f, <3>1, <3>3, <4>2 DEF Listed
        <4> QED
          BY <4>1, <4>2
      <3> QED
        BY <3>1, <3>4 DEF AdditionOf
    <2>2. AdditionOf(l)'
      BY <1>d, <1>e DEF AdditionOf
    <2> QED
      BY <2>1, <2>2 DEF Additions
  <1>6. AgingThread' /\ Removals'
    <2>1. th'[Aging] = th[Aging] /\ th[Aging].bucket \in Buckets
      BY <1>a, <1>b, <1>e DEF Others
    <2>2. th[Aging].pc = "scan" => list'[th[Aging].bucket] = list[th[Aging].bucket]
      BY <1>a, <1>f, <1>i, <2>1 DEF Locked
    <2>3. AgingThread'
      BY <1>0, <2>1, <2>2 DEF AgingThread, Known, Listed
    <2>4. ASSUME NEW q \in Threads PROVE RemovalOf(q)'
      <3>1. CASE q = l
        BY <1>e, <3>1 DEF RemovalOf
      <3>2. CASE q # l
        <4>1. th'[q] = th[q] /\ RemovalOf(q) /\ th[q].bucket \in Buckets
          BY <1>0, <1>b, <1>e, <3>2 DEF Removals, Others
        <4>2. th[q].pc \in {"unlink", "free"} => list'[th[q].bucket] = list[th[q].bucket]
          BY <1>f, <1>i, <4>1 DEF Locked
        <4> QED
          BY <4>1, <4>2 DEF RemovalOf, Listed
      <3> QED
        BY <3>1, <3>2
    <2> QED
      BY <2>3, <2>4 DEF Removals
  <1>7. Walks'
    <2>1. ASSUME NEW m \in Lcores, m # l, th[m].pc \in {"find", "new", "insert"} PROVE WalkOf(m)'
      <3> DEFINE c == th[m].bucket  x == th[m].node  f == th[m].flow
      <3>1. th'[m] = th[m] /\ WalkOf(m) /\ c \in Buckets
        BY <1>0, <1>a, <1>b, <1>e, <2>1 DEF Walks, Others
      <3>2. entry[n].flow # f
        BY <1>0, <1>c, <2>1 DEF Owners, OwnerOf, Handling
      <3>3. /\ \A y : Ahead(list[c], y, f, entry) => Ahead(list'[c], y, f, entry)
            /\ NoneOf(list[c], f, entry) => NoneOf(list'[c], f, entry)
        <4>1. CASE c = b
          <5>1. list[b] \in Seq(Entries)
            BY <1>b, <1>c
          <5> QED
            BY <1>c, <1>f, <3>2, <4>1, <5>1, AheadInsert
        <4>2. CASE c # b
          BY <1>f, <3>1, <4>2
        <4> QED
          BY <4>1, <4>2
      <3>4. Removing(x, c) =>
              \E q \in Threads : th'[q].pc = "free" /\ th'[q].node = x /\ th'[q].bucket = c
        BY <1>c, <1>e DEF Removing, Others
      <3>5. th[m].pc = "find" =>
              \/ Ahead(list'[c], x, f, entry)
              \/ x \in Entries /\ entry[x].state = "freed"
              \/ /\ x \in Entries /\ Ahead(list'[c], entry[x].next, f, entry)
                 /\ \E q \in Threads : th'[q].pc = "free" /\ th'[q].node = x /\ th'[q].bucket = c
        BY <3>1, <3>3, <3>4 DEF WalkOf
      <3>6. th[m].pc \in {"new", "insert"} => NoneOf(list'[c], f, entry)
        BY <3>1, <3>3 DEF WalkOf
      <3> QED
        BY <3>1, <3>5, <3>6 DEF WalkOf, Removing
    <2>2. ASSUME NEW m \in Lcores, m # l, th[m].pc \notin {"find", "new", "insert"} PROVE WalkOf(m)'
      BY <1>a, <1>e, <2>2 DEF WalkOf, Others
    <2>3. WalkOf(l)'
      BY <1>e DEF WalkOf
    <2> QED
      BY <2>1, <2>2, <2>3 DEF Walks
  <1>8. Rules'
    <2>1. \A m \in Lcores : th[m].pc \in {"set_age", "set_exp", "set_hw"} => th'[m] = th[m]
      BY <1>a, <1>c, <1>e DEF Others
    <2> QED
      BY <1>0, <2>1 DEF Rules, RuleOf
  <1>9. ListsSound'
    <2>1. ASSUME NEW i \in 1 .. Len(list[b])
          PROVE  /\ entry[list[b][i]].state = "live" /\ BucketOf[entry[list[b][i]].flow] = b
                 /\ list[b][i] # n
                 /\ \A j \in 1 .. Len(list[b]) : list[b][i] = list[b][j] => i = j
      <3>1. i \in DOMAIN list[b] /\ list[b][i] \in Listed(b)
        BY <1>g DEF Listed
      <3> QED
        BY <1>0, <1>c, <1>d, <1>g, <3>1 DEF ListsSound
    <2>2. ASSUME NEW i \in DOMAIN list'[b]
          PROVE  /\ entry[list'[b][i]].state = "live" /\ BucketOf[entry[list'[b][i]].flow] = b
                 /\ \A j \in DOMAIN list'[b] : list'[b][i] = list'[b][j] => i = j
      <3>1. entry[list'[b][i]].state = "live" /\ BucketOf[entry[list'[b][i]].flow] = b
        <4>1. CASE i = 1
          BY <1>c, <1>d, <1>g, <4>1
        <4>2. CASE i # 1
          <5>1. i - 1 \in 1 .. Len(list[b]) /\ list'[b][i] = list[b][i - 1]
            BY <1>g, <4>2
          <5> QED
            BY <2>1, <5>1
        <4> QED
          BY <4>1, <4>2
      <3>2. ASSUME NEW j \in DOMAIN list'[b], list'[b][i] = list'[b][j] PROVE i = j
        <4>0. ASSUME NEW k \in DOMAIN list'[b], k # 1 PROVE list'[b][k] # n
          <5>1. k - 1 \in 1 .. Len(list[b]) /\ list'[b][k] = list[b][k - 1]
            BY <1>g, <4>0
          <5> QED
            BY <2>1, <5>1
        <4>1. CASE i = 1 \/ j = 1
          <5>1. list'[b][1] = n
            BY <1>g
          <5> QED
            BY <3>2, <4>0, <4>1, <5>1
        <4>2. CASE i # 1 /\ j # 1
          <5>1. /\ i - 1 \in 1 .. Len(list[b]) /\ j - 1 \in 1 .. Len(list[b])
                /\ list[b][i - 1] = list[b][j - 1]
            BY <1>g, <3>2, <4>2
          <5>2. i - 1 = j - 1
            BY <2>1, <5>1
          <5> QED
            BY <1>g, <5>2
        <4> QED
          BY <4>1, <4>2
      <3> QED
        BY <3>1, <3>2
    <2>3. ASSUME NEW c \in Buckets, NEW i \in DOMAIN list'[c]
          PROVE  /\ entry[list'[c][i]].state = "live" /\ BucketOf[entry[list'[c][i]].flow] = c
                 /\ \A j \in DOMAIN list'[c] : list'[c][i] = list'[c][j] => i = j
      BY <1>0, <1>f, <2>2 DEF ListsSound
    <2>4. ASSUME NEW e \in Entries, entry[e].state = "live"
          PROVE  \/ (e \in Listed(BucketOf[entry[e].flow]))'
                 \/ \E q \in Threads : th'[q].node = e /\ th'[q].pc \in {"insert", "free"}
      <3> DEFINE c == BucketOf[entry[e].flow]
      <3>1. c \in Buckets
        BY <1>0, <2>4, TableAssumption DEF Memory
      <3>2. CASE e \in Listed(c)
        <4>1. e \in Listed(c)'
          BY <1>h, <3>1, <3>2
        <4> QED
          BY <4>1 DEF Listed
      <3>3. CASE \E q \in Threads : th[q].node = e /\ th[q].pc \in {"insert", "free"}
        <4>1. PICK q \in Threads : th[q].node = e /\ th[q].pc \in {"insert", "free"}
          BY <3>3
        <4>2. CASE q = l
          <5>1. e = n /\ c = b
            BY <1>c, <4>1, <4>2
          <5>2. \E i \in DOMAIN list'[b] : list'[b][i] = e
            BY <1>g, <5>1
          <5> QED
            BY <5>1, <5>2 DEF Listed
        <4>3. CASE q # l
          BY <1>e, <4>1, <4>3 DEF Others
        <4> QED
          BY <4>2, <4>3
      <3> QED
        BY <1>0, <2>4, <3>2, <3>3 DEF ListsSound
    <2> QED
      BY <2>3, <2>4 DEF ListsSound
  <1>10. OneEach' /\ NothingLeft'
    <2>1. NoneOf(list[b], entry[n].flow, entry)
      BY <1>0, <1>c DEF Walks, WalkOf
    <2>2. ASSUME NEW i \in DOMAIN list'[b], NEW j \in DOMAIN list'[b],
                 entry[list'[b][i]].flow = entry[list'[b][j]].flow
          PROVE  i = j
      <3>0. ASSUME NEW k \in DOMAIN list'[b], k # 1
            PROVE  entry[list'[b][k]].flow # entry[n].flow
        <4>1. k - 1 \in 1 .. Len(list[b]) /\ list'[b][k] = list[b][k - 1]
          BY <1>g, <3>0
        <4> QED
          BY <2>1, <4>1 DEF NoneOf
      <3>1. CASE i = 1 \/ j = 1
        BY <1>g, <2>2, <3>0, <3>1
      <3>2. CASE i # 1 /\ j # 1
        <4>1. /\ i - 1 \in 1 .. Len(list[b]) /\ j - 1 \in 1 .. Len(list[b])
              /\ entry[list[b][i - 1]].flow = entry[list[b][j - 1]].flow
          BY <1>g, <2>2, <3>2
        <4>2. i - 1 = j - 1
          BY <1>0, <1>c, <1>g, <4>1 DEF OneEach
        <4> QED
          BY <1>g, <4>2
      <3> QED
        BY <3>1, <3>2
    <2>3. ASSUME NEW c \in Buckets, NEW i \in DOMAIN list'[c], NEW j \in DOMAIN list'[c],
                 entry[list'[c][i]].flow = entry[list'[c][j]].flow
          PROVE  i = j
      BY <1>0, <1>f, <2>2, <2>3 DEF OneEach
    <2> QED
      BY <1>3, <2>3 DEF OneEach, NothingLeft
  <1> QED
    BY <1>1, <1>2, <1>3, <1>4, <1>5, <1>6, <1>7, <1>8, <1>9, <1>10 DEF IInv

LEMMA UnlinkIInv ==
  ASSUME IInv, Base', NoUseAfterFree', NEW p \in Threads, Unlink(p)
  PROVE  IInv'
  <1> USE DEF Unlink, At, Goto, Live
  <1>0. /\ TypeOK /\ Owners /\ Additions /\ AgingThread /\ Removals /\ Memory /\ Walks
        /\ Rules /\ Stopping /\ LocksHeld /\ ListsSound /\ OneEach
    BY DEF IInv
  <1>a. /\ Lcores \subseteq Threads /\ Aging \in Threads /\ Aging \notin Lcores
        /\ \A q \in Threads : q = Aging \/ q \in Lcores
    BY TableAssumption DEF Threads
  <1>b. /\ th \in [Threads -> ThreadRecord] /\ list \in [Buckets -> Seq(Entries)]
        /\ entry \in [Entries -> EntryRecord] /\ \A q \in Threads : th[q].bucket \in Buckets
    BY <1>0, TypeParts DEF TypeOK
  <1>p. PICK b \in Buckets, n \in Entries : b = th[p].bucket /\ n = th[p].node
    BY <1>0, <1>a, <1>b DEF Owners, OwnerOf, AgingThread, Known, HasEntry
  <1>c. /\ b = th[p].bucket /\ n = th[p].node /\ th[p].pc = "unlink"
        /\ n \in Listed(b) /\ list[b] \in Seq(Entries) /\ Unique(list[b])
        /\ DOMAIN list[b] = 1 .. Len(list[b])
    <2>1. entry[n].state = "live" /\ th[p].pc = "unlink"
      BY <1>p DEF NoUseAfterFree, Uses
    <2>2. n \in Listed(b)
      BY <1>0, <1>p, <2>1 DEF Removals, RemovalOf
    <2> QED
      BY <1>0, <1>b, <1>p, <2>1, <2>2, UniqueList, LenProperties
  <1>k. PICK k \in 1 .. Len(list[b]) : list[b][k] = n
    BY <1>c DEF Listed
  <1>d. /\ entry[n].state = "live" /\ BucketOf[entry[n].flow] = b
    BY <1>0, <1>c, <1>k DEF ListsSound
  <1>e. /\ Others(p) /\ th'[p].pc = "free" /\ th'[p].node = n /\ th'[p].bucket = b
        /\ th'[p].flow = th[p].flow
    BY <1>b, <1>c DEF ThreadRecord, Others
  <1>f. /\ list' = [list EXCEPT ![b] = Without(list[b], n)] /\ list'[b] = Without(list[b], n)
        /\ \A c \in Buckets : c # b => list'[c] = list[c]
    BY <1>b, <1>c
  <1>g. /\ entry' = [entry EXCEPT ![n].next = Successor(list[b], n)]
        /\ Successor(list[b], n) \in Entries \cup {Nil}
    BY <1>0, <1>c, NextOfType DEF NextOf
  <1>z. lock' = lock /\ rules' = rules /\ main' = main /\ UNCHANGED <<now, add, rm, quit>>
    OBVIOUS
  <1>q. th' \in [Threads -> ThreadRecord]
    BY <1>0, GotoType DEF Pcs
  <1> USE <1>z
  <1> HIDE DEF Unlink
  <1>h. /\ entry'[n].next = Successor(list[b], n)
        /\ \A d \in Entries :
             /\ entry'[d].state = entry[d].state /\ entry'[d].flow = entry[d].flow
             /\ entry'[d].age = entry[d].age /\ entry'[d].hw = entry[d].hw
             /\ d # n => entry'[d].next = entry[d].next
    BY <1>b, <1>g DEF EntryRecord
  <1>1. TypeOK'
    BY DEF Base
  <1>i. /\ Unique(list'[b]) /\ list'[b] \in Seq(Entries) /\ DOMAIN list'[b] = 1 .. Len(list'[b])
        /\ \A j \in 1 .. Len(list'[b]) :
             list'[b][j] # n /\ \E i \in 1 .. Len(list[b]) : list'[b][j] = list[b][i]
        /\ \A i \in 1 .. Len(list[b]) : i # k => \E j \in 1 .. Len(list'[b]) : list'[b][j] = list[b][i]
    <2>1. list'[b] \in Seq(Entries)
      BY <1>1 DEF TypeOK
    <2>2. DOMAIN list'[b] = 1 .. Len(list'[b])
      BY <2>1, LenProperties
    <2>3. list'[b] = Without(list[b], list[b][k])
      BY <1>f, <1>k
    <2>4. LessOne(list'[b], list[b], k)
      BY <1>c, <2>3, WithoutElements
    <2> QED
      BY <1>k, <2>1, <2>2, <2>4 DEF LessOne
  <1>o. ASSUME NEW j \in DOMAIN list'[b]
        PROVE  \E i \in DOMAIN list[b] : list'[b][j] = list[b][i]
    <2>1. j \in 1 .. Len(list'[b])
      BY <1>i
    <2>2. PICK i \in 1 .. Len(list[b]) : list'[b][j] = list[b][i]
      BY <1>i, <2>1
    <2> QED
      BY <1>c, <2>2
  <1>j. /\ \A x : x \in Listed(b)' <=> x \in Listed(b) \ {n}
        /\ \A c \in Buckets : c # b => Listed(c)' = Listed(c)
    <2>1. ASSUME NEW x \in Listed(b)' PROVE x \in Listed(b) \ {n}
      <3>1. PICK j \in DOMAIN list'[b] : list'[b][j] = x
        BY <2>1 DEF Listed
      <3>2. x # n
        BY <1>i, <3>1
      <3> QED
        BY <1>o, <3>1, <3>2 DEF Listed
    <2>2. ASSUME NEW x \in Listed(b) \ {n} PROVE x \in Listed(b)'
      <3>1. PICK i \in 1 .. Len(list[b]) : list[b][i] = x
        BY <1>c, <2>2 DEF Listed
      <3>2. i # k
        BY <1>k, <2>2, <3>1
      <3> QED
        BY <1>i, <3>1, <3>2 DEF Listed
    <2>3. \A c \in Buckets : c # b => Listed(c)' = Listed(c)
      BY <1>f DEF Listed
    <2> QED
      BY <2>1, <2>2, <2>3
  <1>l. \A q \in Threads : q # p /\ th[q].pc \in Locked => th[q].bucket # b
    BY <1>0, <1>c, Exclusive DEF Locked
  <1>2. LocksHeld'
    BY DEF Base
  <1>3. Stopping' /\ main # "done"
    BY <1>0, <1>c, <1>e, StoppingKept
  <1>4. Owners' /\ Memory'
    <2>1. ASSUME NEW m \in Lcores PROVE OwnerOf(m)'
      <3>1. CASE m # p
        <4>1. th'[m] = th[m] /\ OwnerOf(m)
          BY <1>0, <1>a, <1>e, <3>1 DEF Owners, Others
        <4> QED
          BY <1>h, <4>1 DEF OwnerOf, Known
      <3>2. CASE m = p
        <4>1. OwnerOf(p)
          BY <1>0, <3>2 DEF Owners
        <4> QED
          BY <1>c, <1>e, <1>h, <3>2, <4>1 DEF OwnerOf, Known, Handling, HasEntry
      <3> QED
        BY <3>1, <3>2
    <2> QED
      BY <1>0, <1>h, <2>1 DEF Owners, Memory
  <1>5. Additions'
    <2>1. ASSUME NEW m \in Lcores, m # p PROVE AdditionOf(m)'
      <3>1. th'[m] = th[m] /\ AdditionOf(m) /\ OwnerOf(m) /\ th[m].bucket \in Buckets
        BY <1>0, <1>a, <1>b, <1>e, <2>1 DEF Owners, Additions, Others
      <3>2. th[m].pc \in Adding => th[m].node \in Entries
        BY <3>1 DEF OwnerOf, Known, HasEntry, Handling, Adding
      <3>3. th[m].pc = "insert" => (th[m].node \notin Listed(th[m].bucket))'
        <4>1. th[m].pc = "insert" => th[m].node \notin Listed(th[m].bucket)
          BY <3>1 DEF AdditionOf, Adding
        <4>2. \A c \in Buckets : \A x : x \notin Listed(c) => x \notin Listed(c)'
          BY <1>j
        <4> QED
          BY <3>1, <4>1, <4>2 DEF Listed
      <3> QED
        BY <1>h, <3>1, <3>2, <3>3 DEF AdditionOf
    <2>2. AdditionOf(p)'
      BY <1>e DEF AdditionOf, Adding
    <2> QED
      BY <2>1, <2>2 DEF Additions
  <1>6. AgingThread'
    <2>1. CASE p = Aging
      BY <1>0, <1>c, <1>e, <1>h, <2>1 DEF AgingThread, Known
    <2>2. CASE p # Aging
      <3>1. th'[Aging] = th[Aging] /\ th[Aging].bucket \in Buckets
        BY <1>a, <1>b, <1>e, <2>2 DEF Others
      <3>2. th[Aging].pc = "scan" => list'[th[Aging].bucket] = list[th[Aging].bucket]
        BY <1>a, <1>f, <1>l, <2>2, <3>1 DEF Locked
      <3> QED
        BY <1>0, <1>h, <3>1, <3>2 DEF AgingThread, Known, Listed
    <2> QED
      BY <2>1, <2>2
  <1>7. Removals'
    <2>1. ASSUME NEW q \in Threads PROVE RemovalOf(q)'
      <3>1. CASE q = p
        <4>1. n \notin Listed(b)'
          BY <1>j
        <4> QED
          BY <1>d, <1>e, <1>h, <3>1, <4>1 DEF RemovalOf, Listed
      <3>2. CASE q # p
        <4>1. th'[q] = th[q] /\ RemovalOf(q) /\ th[q].bucket \in Buckets
          BY <1>0, <1>b, <1>e, <3>2 DEF Removals, Others
        <4>2. th[q].pc \in {"unlink", "free"} => list'[th[q].bucket] = list[th[q].bucket]
          BY <1>f, <1>l, <3>2, <4>1 DEF Locked
        <4>3. th[q].pc \in {"unlink", "free"} => th[q].node \in Entries
          BY <1>0, <1>a DEF AgingThread, Owners, OwnerOf, Known, HasEntry
        <4> QED
          BY <1>h, <4>1, <4>2, <4>3 DEF RemovalOf, Listed
      <3> QED
        BY <3>1, <3>2
    <2> QED
      BY <2>1 DEF Removals
  <1>8. Walks'
    <2>0. ASSUME NEW c \in Buckets, NEW x, NEW f
          PROVE  /\ Ahead(list'[c], x, f, entry) => Ahead(list'[c], x, f, entry')
                 /\ NoneOf(list'[c], f, entry) => NoneOf(list'[c], f, entry')
      <3>1. list'[c] \in Seq(Entries)
        BY <1>1 DEF TypeOK
      <3>2. \A j \in 1 .. Len(list'[c]) : entry'[list'[c][j]].flow = entry[list'[c][j]].flow
        BY <1>h, <3>1, ElementOfSeq
      <3> QED
        BY <3>2, AheadSame
    <2>1. ASSUME NEW m \in Lcores, m # p PROVE WalkOf(m)'
      <3>p. PICK c \in Buckets, x \in Entries \cup {Nil}, f \in Flows \cup {Nil} :
              c = th[m].bucket /\ x = th[m].node /\ f = th[m].flow
        BY <1>a, <1>b DEF ThreadRecord
      <3>1. th'[m] = th[m] /\ WalkOf(m)
        BY <1>0, <1>a, <1>e, <2>1 DEF Walks, Others
      <3>2. NoneOf(list[c], f, entry) => NoneOf(list'[c], f, entry')
        <4>1. CASE c = b
          <5>1. Ahead(list[b], Nil, f, entry) => Ahead(list'[b], Nil, f, entry)
            BY <1>c, <1>f, <1>k, AheadWithout, NilIsNone
          <5> QED
            BY <2>0, <4>1, <5>1 DEF Ahead
        <4>2. CASE c # b
          BY <1>f, <2>0, <4>2
        <4> QED
          BY <4>1, <4>2
      <3>3. ASSUME th[m].pc = "find"
            PROVE  \/ Ahead(list'[c], x, f, entry')
                   \/ x \in Entries /\ entry'[x].state = "freed"
                   \/ /\ x \in Entries /\ Ahead(list'[c], entry'[x].next, f, entry')
                      /\ \E q \in Threads : th'[q].pc = "free" /\ th'[q].node = x /\ th'[q].bucket = c
        <4>1. CASE Ahead(list[c], x, f, entry)
          <5>1. CASE c # b
            BY <1>f, <2>0, <4>1, <5>1
          <5>2. CASE c = b /\ x # n
            <6>1. Ahead(list'[b], x, f, entry)
              BY <1>c, <1>f, <1>k, <4>1, <5>2, AheadWithout
            <6> QED
              BY <2>0, <5>2, <6>1
          <5>3. CASE c = b /\ x = n
            <6>1. Ahead(list'[b], Successor(list[b], n), f, entry)
              BY <1>c, <1>f, <1>k, <4>1, <5>3, AheadWithout
            <6> QED
              BY <1>e, <1>h, <2>0, <5>3, <6>1
          <5> QED
            BY <5>1, <5>2, <5>3
        <4>2. CASE x \in Entries /\ entry[x].state = "freed"
          BY <1>h, <4>2
        <4>3. CASE x \in Entries /\ Removing(x, c) /\ Ahead(list[c], entry[x].next, f, entry)
          <5>1. PICK q \in Threads : th[q].pc = "free" /\ th[q].node = x /\ th[q].bucket = c
            BY <4>3 DEF Removing
          <5>2. q # p /\ c # b /\ th'[q] = th[q]
            BY <1>c, <1>e, <1>l, <5>1 DEF Locked, Others
          <5>3. BucketOf[entry[x].flow] = c
            BY <1>0, <1>a, <5>1 DEF AgingThread, Owners, OwnerOf, Known, HasEntry
          <5>4. x # n /\ entry'[x].next = entry[x].next
            BY <1>d, <1>h, <4>3, <5>2, <5>3
          <5>5. Ahead(list'[c], entry'[x].next, f, entry')
            BY <1>f, <2>0, <4>3, <5>2, <5>4
          <5> QED
            BY <4>3, <5>1, <5>2, <5>5
        <4> QED
          BY <3>1, <3>3, <3>p, <4>1, <4>2, <4>3 DEF WalkOf
      <3>4. th[m].pc \in {"new", "insert"} => NoneOf(list'[c], f, entry')
        BY <3>1, <3>2, <3>p DEF WalkOf
      <3> QED
        BY <3>1, <3>3, <3>4, <3>p DEF WalkOf, Removing
    <2>2. p \in Lcores => WalkOf(p)'
      BY <1>e DEF WalkOf
    <2> QED
      BY <2>1, <2>2 DEF Walks
  <1>9. Rules'
    <2>1. \A m \in Lcores : th[m].pc \in {"set_age", "set_exp", "set_hw"} => th'[m] = th[m]
      BY <1>a, <1>c, <1>e DEF Others
    <2>2. rules \subseteq Entries
      BY <1>0 DEF TypeOK
    <2>3. ASSUME NEW e \in rules PROVE RuleOf(e)'
      <3>1. RuleOf(e) /\ e \in Entries
        BY <1>0, <2>2 DEF Rules
      <3> QED
        BY <1>h, <2>1, <3>1 DEF RuleOf
    <2> QED
      BY <2>3 DEF Rules
  <1>10. ListsSound'
    <2>1. ASSUME NEW c \in Buckets, NEW i \in DOMAIN list[c]
          PROVE  /\ entry'[list[c][i]].state = "live" /\ BucketOf[entry'[list[c][i]].flow] = c
                 /\ \A j \in DOMAIN list[c] : list[c][i] = list[c][j] => i = j
      <3>1. list[c][i] \in Entries
        BY <1>b, LenProperties, ElementOfSeq
      <3> QED
        BY <1>0, <1>h, <3>1 DEF ListsSound
    <2>2. ASSUME NEW i \in DOMAIN list'[b]
          PROVE  /\ entry'[list'[b][i]].state = "live" /\ BucketOf[entry'[list'[b][i]].flow] = b
                 /\ \A j \in DOMAIN list'[b] : list'[b][i] = list'[b][j] => i = j
      <3>1. PICK j \in DOMAIN list[b] : list'[b][i] = list[b][j]
        BY <1>o
      <3>2. \A j2 \in DOMAIN list'[b] : list'[b][i] = list'[b][j2] => i = j2
        BY <1>i DEF Unique
      <3> QED
        BY <2>1, <3>1, <3>2
    <2>3. ASSUME NEW c \in Buckets, NEW i \in DOMAIN list'[c]
          PROVE  /\ entry'[list'[c][i]].state = "live" /\ BucketOf[entry'[list'[c][i]].flow] = c
                 /\ \A j \in DOMAIN list'[c] : list'[c][i] = list'[c][j] => i = j
      BY <1>f, <2>1, <2>2
    <2>4. ASSUME NEW e \in Entries, entry'[e].state = "live"
          PROVE  \/ (e \in Listed(BucketOf[entry[e].flow]))'
                 \/ \E q \in Threads : th'[q].node = e /\ th'[q].pc \in {"insert", "free"}
      <3>1. CASE e = n
        BY <1>e, <3>1
      <3>2. CASE e # n
        <4>p. PICK c \in Buckets : c = BucketOf[entry[e].flow]
          BY <1>0, <1>h, <2>4, TableAssumption DEF Memory
        <4>1. entry[e].state = "live" /\ BucketOf[entry'[e].flow] = c
          BY <1>h, <2>4, <4>p
        <4>2. CASE e \in Listed(c)
          <5>1. e \in Listed(c)'
            BY <1>j, <3>2, <4>2
          <5> QED
            BY <4>1, <5>1 DEF Listed
        <4>3. CASE \E q \in Threads : th[q].node = e /\ th[q].pc \in {"insert", "free"}
          BY <1>c, <1>e, <4>3 DEF Others
        <4> QED
          BY <1>0, <4>p, <4>1, <4>2, <4>3 DEF ListsSound
      <3> QED
        BY <3>1, <3>2
    <2> QED
      BY <2>3, <2>4 DEF ListsSound
  <1>11. OneEach' /\ NothingLeft'
    <2>0. \A c \in Buckets : \A i \in DOMAIN list[c] :
            entry'[list[c][i]].flow = entry[list[c][i]].flow
      BY <1>b, <1>h, LenProperties, ElementOfSeq
    <2>1. ASSUME NEW i \in DOMAIN list'[b], NEW j \in DOMAIN list'[b],
                 entry'[list'[b][i]].flow = entry'[list'[b][j]].flow
          PROVE  i = j
      <3>1. PICK i2 \in DOMAIN list[b] : list'[b][i] = list[b][i2]
        BY <1>o
      <3>2. PICK j2 \in DOMAIN list[b] : list'[b][j] = list[b][j2]
        BY <1>o
      <3>3. i2 = j2
        BY <1>0, <2>0, <2>1, <3>1, <3>2 DEF OneEach
      <3> QED
        BY <1>i, <3>1, <3>2, <3>3 DEF Unique
    <2>2. ASSUME NEW c \in Buckets, NEW i \in DOMAIN list'[c], NEW j \in DOMAIN list'[c],
                 entry'[list'[c][i]].flow = entry'[list'[c][j]].flow
          PROVE  i = j
      BY <1>0, <1>f, <2>0, <2>1, <2>2 DEF OneEach
    <2> QED
      BY <1>3, <2>2 DEF OneEach, NothingLeft
  <1> QED
    BY <1>1, <1>2, <1>3, <1>4, <1>5, <1>6, <1>7, <1>8, <1>9, <1>10, <1>11 DEF IInv

LEMMA FreeIInv ==
  ASSUME IInv, Base', NoUseAfterFree', NEW p \in Threads, Free(p)
  PROVE  IInv'
  <1> USE DEF Free, At, Live
  <1>0. /\ TypeOK /\ Owners /\ Additions /\ AgingThread /\ Removals /\ Memory /\ Walks
        /\ Rules /\ Stopping /\ LocksHeld /\ ListsSound /\ OneEach
    BY DEF IInv
  <1>a. /\ Lcores \subseteq Threads /\ Aging \in Threads /\ Aging \notin Lcores
        /\ \A q \in Threads : q = Aging \/ q \in Lcores
    BY TableAssumption DEF Threads
  <1>b. /\ th \in [Threads -> ThreadRecord] /\ list \in [Buckets -> Seq(Entries)]
        /\ entry \in [Entries -> EntryRecord] /\ rules \subseteq Entries /\ rm \in Nat
        /\ \A q \in Threads : th[q].bucket \in Buckets
    BY <1>0, TypeParts DEF TypeOK
  <1>p. PICK b \in Buckets, n \in Entries : b = th[p].bucket /\ n = th[p].node
    BY <1>0, <1>a, <1>b DEF Owners, OwnerOf, AgingThread, Known, HasEntry
  <1>c. /\ b = th[p].bucket /\ n = th[p].node /\ th[p].pc = "free"
        /\ n \notin Listed(b) /\ entry[n].state = "live" /\ entry[n].flow \in Flows
    BY <1>0, <1>p DEF Removals, RemovalOf, Memory
  <1>d. BucketOf[entry[n].flow] = b /\ (p = Aging => entry[n].age # 0)
    BY <1>0, <1>a, <1>c DEF Owners, OwnerOf, AgingThread, Known, HasEntry
  <1>e. /\ Others(p) /\ th'[p].pc = "unlock" /\ th'[p].node = n /\ th'[p].bucket = b
        /\ th'[p].flow = th[p].flow
    BY <1>b, <1>c DEF ThreadRecord, Others
  <1>q. th' \in [Threads -> ThreadRecord]
    <2>1. th'[p] \in ThreadRecord
      <3>1. th[p] \in ThreadRecord /\ "unlock" \in Pcs
        BY <1>b DEF Pcs
      <3>2. th'[p] = [th[p] EXCEPT !.pc = "unlock", !.reg = rm]
        BY <1>b
      <3> QED
        BY <1>b, <3>1, <3>2, ThreadMoved
    <2> QED
      BY <1>b, <2>1
  <1>f. /\ rules' = IF entry[n].hw THEN rules \ {n} ELSE rules
        /\ entry' = [entry EXCEPT ![n] = Freed(n)]
    BY <1>c
  <1>z. /\ lock' = lock /\ list' = list /\ main' = main /\ UNCHANGED <<now, add, rm, quit>>
    OBVIOUS
  <1> USE <1>z
  <1> HIDE DEF Free
  <1>g. /\ Freed(n) \in EntryRecord /\ Freed(n).state = "freed"
        /\ Freed(n).flow = entry[n].flow
    BY <1>c DEF Freed, Unallocated, EntryRecord
  <1>h. /\ entry'[n].state = "freed" /\ entry'[n].flow = entry[n].flow
        /\ \A d \in Entries : d # n => entry'[d] = entry[d]
        /\ \A d \in Entries : entry'[d].flow = entry[d].flow
        /\ \A d \in Entries : entry'[d].state = "live" => d # n
    BY <1>b, <1>f, <1>g
  <1>i. rules' \subseteq rules /\ (n \in rules' => ~entry[n].hw)
    BY <1>f
  <1>1. TypeOK'
    BY DEF Base
  <1>j. \A c \in Buckets : \A i \in DOMAIN list[c] : list[c][i] \in Entries \ {n}
    <2>1. ASSUME NEW c \in Buckets, NEW i \in DOMAIN list[c] PROVE list[c][i] \in Entries \ {n}
      <3>1. list[c][i] \in Entries
        BY <1>b, LenProperties, ElementOfSeq
      <3>2. BucketOf[entry[list[c][i]].flow] = c /\ list[c][i] \in Listed(c)
        BY <1>0 DEF ListsSound, Listed
      <3> QED
        BY <1>c, <1>d, <3>1, <3>2
    <2> QED
      BY <2>1
  <1>k. ASSUME NEW q \in Threads, q # p, th[q].pc \in {"unlink", "free"}
        PROVE  th[q].node \in Entries \ {n}
    <2>1. Known(th[q].node, th[q].bucket, entry)
      BY <1>0, <1>a, <1>k DEF Owners, OwnerOf, AgingThread, HasEntry
    <2>2. th[q].bucket # b
      BY <1>0, <1>c, <1>k, Exclusive DEF Locked
    <2> QED
      BY <1>d, <2>1, <2>2 DEF Known
  <1>l. ASSUME NEW m \in Lcores, m # p, th[m].pc \in Adding
        PROVE  th[m].node \in Entries \ {n}
    <2>0. th[m].pc \in HasEntry
      BY <1>l DEF Adding, HasEntry, Handling
    <2>1. th[m].node \in Entries /\ entry[th[m].node].age = 0
      BY <1>0, <1>l, <2>0 DEF Owners, OwnerOf, Additions, AdditionOf, Known
    <2>2. p \in Lcores => th[m].node # n
      BY <1>0, <1>c, <1>l, <2>0, OwnEntry DEF HasEntry
    <2> QED
      BY <1>a, <1>d, <2>1, <2>2
  <1>2. LocksHeld'
    BY DEF Base
  <1>3. Stopping' /\ main # "done"
    BY <1>0, <1>c, <1>e, StoppingKept
  <1>4. Owners'
    <2>1. ASSUME NEW m \in Lcores, m # p PROVE OwnerOf(m)'
      <3>1. th'[m] = th[m] /\ OwnerOf(m)
        BY <1>0, <1>a, <1>e, <2>1 DEF Owners, Others
      <3>2. \A d \in Entries : \A c : Known(d, c, entry) => Known(d, c, entry')
        BY <1>h DEF Known
      <3>3. th[m].pc \in HasEntry => th[m].node \in Entries
        BY <3>1 DEF OwnerOf, Known
      <3> QED
        BY <1>h, <3>1, <3>2, <3>3 DEF OwnerOf
    <2>2. OwnerOf(p)'
      BY <1>e DEF OwnerOf, Handling, HasEntry
    <2> QED
      BY <2>1, <2>2 DEF Owners
  <1>5. Additions'
    <2>1. ASSUME NEW m \in Lcores, m # p, th[m].pc \in Adding PROVE AdditionOf(m)'
      <3>1. th'[m] = th[m] /\ AdditionOf(m) /\ entry'[th[m].node] = entry[th[m].node]
        BY <1>0, <1>a, <1>e, <1>h, <1>l, <2>1 DEF Additions, Others
      <3> QED
        BY <1>i, <3>1 DEF AdditionOf, Listed
    <2>2. ASSUME NEW m \in Lcores, m # p, th[m].pc \notin Adding PROVE AdditionOf(m)'
      BY <1>a, <1>e, <2>2 DEF AdditionOf, Others
    <2>3. AdditionOf(p)'
      BY <1>e DEF AdditionOf, Adding
    <2> QED
      BY <2>1, <2>2, <2>3 DEF Additions
  <1>6. AgingThread'
    <2>1. CASE p = Aging
      BY <1>e, <2>1 DEF AgingThread
    <2>2. CASE p # Aging
      <3>1. th'[Aging] = th[Aging]
        BY <1>a, <1>e, <2>2 DEF Others
      <3>2. th[Aging].pc \in {"unlink", "free"} =>
              entry'[th[Aging].node] = entry[th[Aging].node]
        BY <1>a, <1>h, <1>k, <2>2
      <3> QED
        BY <1>0, <3>1, <3>2 DEF AgingThread, Known, Listed
    <2> QED
      BY <2>1, <2>2
  <1>7. Removals'
    <2>1. ASSUME NEW q \in Threads, q # p PROVE RemovalOf(q)'
      <3>1. th'[q] = th[q] /\ RemovalOf(q)
        BY <1>0, <1>e, <2>1 DEF Removals, Others
      <3>2. th[q].pc = "free" => entry'[th[q].node] = entry[th[q].node]
        BY <1>h, <1>k, <2>1
      <3>3. th[q].pc = "unlink" => th[q].node \in Entries
        BY <1>0, <1>a DEF AgingThread, Owners, OwnerOf, Known, HasEntry
      <3>4. th[q].pc = "unlink" /\ entry[th[q].node].state = "freed"
              => entry'[th[q].node].state = "freed"
        BY <1>h, <3>3
      <3> QED
        BY <1>z, <3>1, <3>2, <3>4 DEF RemovalOf, Listed
    <2>2. RemovalOf(p)'
      BY <1>e DEF RemovalOf
    <2> QED
      BY <2>1, <2>2 DEF Removals
  <1>8. Memory'
    <2>1. ASSUME NEW d \in Entries, d # n, entry[d].state = "unused"
          PROVE  entry'[d].age = 0 /\ ~entry'[d].hw /\ d \notin rules'
      BY <1>0, <1>h, <1>i, <2>1 DEF Memory
    <2>2. ASSUME NEW d \in Entries, d # n, entry[d].state # "unused"
          PROVE  entry'[d].flow \in Flows
      BY <1>0, <1>h, <2>2 DEF Memory
    <2> QED
      BY <1>c, <1>h, <2>1, <2>2 DEF Memory
  <1>9. Walks'
    <2>0. ASSUME NEW c \in Buckets, NEW x, NEW f
          PROVE  /\ Ahead(list[c], x, f, entry) => Ahead(list[c], x, f, entry')
                 /\ NoneOf(list[c], f, entry) => NoneOf(list[c], f, entry')
      <3>1. list[c] \in Seq(Entries)
        BY <1>b
      <3>2. \A j \in 1 .. Len(list[c]) : entry'[list[c][j]].flow = entry[list[c][j]].flow
        BY <1>h, <3>1, ElementOfSeq
      <3> QED
        BY <3>2, AheadSame
    <2>1. ASSUME NEW m \in Lcores, m # p PROVE WalkOf(m)'
      <3>p. PICK c \in Buckets, x \in Entries \cup {Nil}, f \in Flows \cup {Nil} :
              c = th[m].bucket /\ x = th[m].node /\ f = th[m].flow
        BY <1>a, <1>b DEF ThreadRecord
      <3>1. th'[m] = th[m] /\ WalkOf(m)
        BY <1>0, <1>a, <1>e, <2>1 DEF Walks, Others
      <3>3. ASSUME th[m].pc = "find"
            PROVE  \/ Ahead(list[c], x, f, entry')
                   \/ x \in Entries /\ entry'[x].state = "freed"
                   \/ /\ x \in Entries /\ Ahead(list[c], entry'[x].next, f, entry')
                      /\ \E q \in Threads : th'[q].pc = "free" /\ th'[q].node = x /\ th'[q].bucket = c
        <4>1. CASE Ahead(list[c], x, f, entry)
          BY <2>0, <4>1
        <4>2. CASE x \in Entries /\ entry[x].state = "freed"
          BY <1>h, <4>2
        <4>3. CASE x \in Entries /\ Removing(x, c) /\ Ahead(list[c], entry[x].next, f, entry)
          <5>1. CASE x = n
            BY <1>h, <5>1
          <5>2. CASE x # n
            <6>1. PICK q \in Threads : th[q].pc = "free" /\ th[q].node = x /\ th[q].bucket = c
              BY <4>3 DEF Removing
            <6>2. q # p /\ th'[q] = th[q] /\ entry'[x] = entry[x]
              BY <1>c, <1>e, <1>h, <4>3, <5>2, <6>1 DEF Others
            <6> QED
              BY <2>0, <4>3, <6>1, <6>2
          <5> QED
            BY <5>1, <5>2
        <4> QED
          BY <3>1, <3>3, <3>p, <4>1, <4>2, <4>3 DEF WalkOf
      <3>4. th[m].pc \in {"new", "insert"} => NoneOf(list[c], f, entry')
        BY <2>0, <3>1, <3>p DEF WalkOf
      <3> QED
        BY <3>1, <3>3, <3>4, <3>p DEF WalkOf, Removing
    <2>2. p \in Lcores => WalkOf(p)'
      BY <1>e DEF WalkOf
    <2> QED
      BY <2>1, <2>2 DEF Walks
  <1>10. Rules'
    <2>1. \A m \in Lcores : th[m].pc \in {"set_age", "set_exp", "set_hw"} => th'[m] = th[m]
      BY <1>a, <1>c, <1>e DEF Others
    <2>2. ASSUME NEW e \in rules' PROVE RuleOf(e)'
      <3>1. RuleOf(e) /\ e \in Entries
        BY <1>0, <1>b, <1>i DEF Rules
      <3>2. CASE e # n
        BY <1>h, <2>1, <3>1, <3>2 DEF RuleOf
      <3>3. CASE e = n
        <4>1. ASSUME NEW m \in Lcores, th[m].node = n, th[m].pc = "set_age" PROVE FALSE
          <5>1. m # p /\ th[m].pc \in Adding
            BY <1>c, <4>1 DEF Adding
          <5> QED
            BY <1>l, <4>1, <5>1
        <4>2. \E m \in Lcores : th[m].node = e /\ th[m].pc \in {"set_exp", "set_hw"}
          BY <1>i, <3>1, <3>3, <4>1 DEF RuleOf
        <4> QED
          BY <2>1, <4>2 DEF RuleOf
      <3> QED
        BY <3>2, <3>3
    <2> QED
      BY <2>2 DEF Rules
  <1>11. ListsSound'
    <2>1. ASSUME NEW c \in Buckets, NEW i \in DOMAIN list[c]
          PROVE  /\ entry'[list[c][i]].state = "live" /\ BucketOf[entry'[list[c][i]].flow] = c
                 /\ \A j \in DOMAIN list[c] : list[c][i] = list[c][j] => i = j
      <3>1. entry'[list[c][i]] = entry[list[c][i]]
        BY <1>h, <1>j
      <3> QED
        BY <1>0, <3>1 DEF ListsSound
    <2>2. ASSUME NEW e \in Entries, entry'[e].state = "live"
          PROVE  \/ (e \in Listed(BucketOf[entry[e].flow]))'
                 \/ \E q \in Threads : th'[q].node = e /\ th'[q].pc \in {"insert", "free"}
      <3>1. e # n /\ entry'[e] = entry[e] /\ entry[e].state = "live"
        BY <1>h, <2>2
      <3>2. CASE e \in Listed(BucketOf[entry[e].flow])
        BY <3>1, <3>2 DEF Listed
      <3>3. CASE \E q \in Threads : th[q].node = e /\ th[q].pc \in {"insert", "free"}
        BY <1>c, <1>e, <3>1, <3>3 DEF Others
      <3> QED
        BY <1>0, <3>1, <3>2, <3>3 DEF ListsSound
    <2> QED
      BY <2>1, <2>2 DEF ListsSound
  <1>12. OneEach' /\ NothingLeft'
    <2>1. \A c \in Buckets : \A i \in DOMAIN list[c] :
            entry'[list[c][i]].flow = entry[list[c][i]].flow
      BY <1>h, <1>j
    <2> QED
      BY <1>0, <1>3, <2>1 DEF OneEach, NothingLeft
  <1> QED
    BY <1>1, <1>2, <1>3, <1>4, <1>5, <1>6, <1>7, <1>8, <1>9, <1>10, <1>11, <1>12 DEF IInv

\* The clock, the signal and the end of the packet loops touch nothing shared.
LEMMA QuietIInv ==
  ASSUME IInv, Base', WaitLcores \/ Tick \/ Quit \/ UNCHANGED vars
  PROVE  IInv'
  <1>0. /\ TypeOK /\ Owners /\ Additions /\ AgingThread /\ Removals /\ Memory /\ Walks
        /\ Rules /\ Stopping /\ LocksHeld /\ ListsSound /\ OneEach /\ NothingLeft
    BY DEF IInv
  <1>a. entry' = entry /\ list' = list /\ lock' = lock /\ rules' = rules /\ th' = th
    BY DEF WaitLcores, Tick, Quit, vars, shared
  <1>1. TypeOK'
    BY DEF Base
  <1>2. Stopping' /\ NothingLeft'
    <2>1. main' = main \/ (main' = "join" /\ \A l \in Lcores : th[l].pc = "done")
      BY DEF WaitLcores, Tick, Quit, vars, At
    <2> QED
      BY <1>0, <1>a, <2>1 DEF Stopping, NothingLeft
  <1>3. Owners' /\ Additions' /\ AgingThread' /\ Removals'
    BY <1>0, <1>a DEF Owners, OwnerOf, Additions, AdditionOf, AgingThread, Removals,
                      RemovalOf, Listed
  <1>4. Memory' /\ Rules' /\ LocksHeld'
    BY <1>0, <1>a DEF Memory, Rules, RuleOf, LocksHeld
  <1>5. Walks'
    BY <1>0, <1>a DEF Walks, WalkOf, Removing
  <1>6. ListsSound' /\ OneEach'
    BY <1>0, <1>a DEF ListsSound, OneEach, Listed
  <1> QED
    BY <1>1, <1>2, <1>3, <1>4, <1>5, <1>6 DEF IInv

\* With every thread at its end, what is allocated is on a list and has its
\* rule marked, so that the destruction of the table misses nothing.
LEMMA DestroyIInv ==
  ASSUME IInv, Base', Destroy
  PROVE  IInv'
  <1>0. /\ TypeOK /\ Memory /\ Rules /\ Stopping /\ LocksHeld /\ ListsSound
    BY DEF IInv
  <1>a. /\ entry \in [Entries -> EntryRecord] /\ list \in [Buckets -> Seq(Entries)]
        /\ lock \in [Buckets -> Threads \cup {Nobody}] /\ rules \subseteq Entries /\ rm \in Nat
    BY <1>0, TypeParts
  <1>b. /\ main = "join" /\ main' = "done" /\ list' = [b \in Buckets |-> <<>>]
        /\ UNCHANGED <<now, lock, add, th, quit>>
    BY DEF Destroy
  <1>c. \A p \in Threads : th[p].pc = "done"
    BY <1>0 DEF Destroy, At, Stopping, Threads
  <1> DEFINE linked == UNION {Listed(b) : b \in Buckets}
  <1>d. /\ entry' = [e \in Entries |-> IF e \in linked THEN Freed(e) ELSE entry[e]]
        /\ rules' = {e \in rules : ~(e \in linked /\ entry[e].hw)}
        /\ rm' = rm + Cardinality(linked)
    BY DEF Destroy
  <1>e. linked \subseteq Entries
    <2>1. ASSUME NEW b \in Buckets, NEW i \in DOMAIN list[b] PROVE list[b][i] \in Entries
      BY <1>a, LenProperties, ElementOfSeq
    <2> QED
      BY <2>1 DEF Listed
  <1>f. ASSUME NEW e \in Entries, entry[e].state = "live" PROVE e \in linked
    <2>1. e \in Listed(BucketOf[entry[e].flow])
      BY <1>c, <1>f, LiveIsListed
    <2>2. BucketOf[entry[e].flow] \in Buckets
      BY <1>0, <1>f, TableAssumption DEF Memory
    <2> QED
      BY <2>1, <2>2
  <1>g. \A e \in linked : entry[e].state = "live"
    <2>1. ASSUME NEW b \in Buckets, NEW e \in Listed(b) PROVE entry[e].state = "live"
      BY <1>0 DEF ListsSound, Listed
    <2> QED
      BY <2>1
  <1>h. rm' \in Nat
    <2>1. IsFiniteSet(Entries)
      BY FS_Interval, TableAssumption DEF Entries
    <2>2. Cardinality(linked) \in Nat
      BY <1>e, <2>1, FS_Subset, FS_CardinalityType
    <2> QED
      BY <1>a, <1>d, <2>2
  <1> HIDE DEF linked
  <1>i. \A e \in Entries :
          /\ e \in linked => entry'[e] = Freed(e)
          /\ e \notin linked => entry'[e] = entry[e]
    BY <1>d
  <1>j. ASSUME NEW e \in linked
        PROVE  /\ Freed(e) \in EntryRecord /\ Freed(e).state = "freed"
               /\ Freed(e).flow = entry[e].flow
    <2>1. entry[e].flow \in Flows \cup {Nil}
      BY <1>a, <1>e DEF EntryRecord
    <2> QED
      BY <2>1 DEF Freed, Unallocated, EntryRecord
  <1>k. rules' = {}
    <2>1. ASSUME NEW e \in rules PROVE e \in linked /\ entry[e].hw
      <3>1. RuleOf(e) /\ e \in Entries
        BY <1>0, <1>a DEF Rules
      <3>2. entry[e].state = "live" /\ entry[e].hw
        BY <1>c, <3>1 DEF RuleOf, Threads
      <3> QED
        BY <1>f, <3>1, <3>2
    <2> QED
      BY <1>d, <2>1
  <1>l. \A e \in Entries : entry'[e].state # "live"
    BY <1>f, <1>i, <1>j
  <1>m. \A b \in Buckets : list'[b] = <<>> /\ DOMAIN list'[b] = {}
    BY <1>b
  <1>1. TypeOK'
    BY DEF Base
  <1>2. LocksHeld' /\ Stopping'
    BY DEF Base
  <1>3. Owners' /\ Additions' /\ AgingThread' /\ Removals' /\ Walks'
    <2>1. \A p \in Threads : th'[p].pc = "done"
      BY <1>b, <1>c
    <2>2. \A l \in Lcores : OwnerOf(l)' /\ AdditionOf(l)' /\ WalkOf(l)'
      BY <2>1 DEF OwnerOf, AdditionOf, WalkOf, Threads, Handling, HasEntry, Adding
    <2>3. AgingThread'
      BY <2>1 DEF AgingThread, Threads
    <2>4. \A p \in Threads : RemovalOf(p)'
      BY <2>1 DEF RemovalOf
    <2> QED
      BY <2>2, <2>3, <2>4 DEF Owners, Additions, Removals, Walks
  <1>4. Memory'
    <2>1. ASSUME NEW e \in linked PROVE entry'[e].state = "freed" /\ entry'[e].flow \in Flows
      BY <1>0, <1>e, <1>g, <1>i, <1>j DEF Memory
    <2>2. ASSUME NEW e \in Entries, e \notin linked
          PROVE  IF entry'[e].state = "unused" THEN entry'[e].age = 0 /\ ~entry'[e].hw
                 ELSE entry'[e].flow \in Flows
      BY <1>0, <1>i, <2>2 DEF Memory
    <2> QED
      BY <1>k, <2>1, <2>2 DEF Memory
  <1>5. Rules' /\ ListsSound' /\ OneEach'
    BY <1>k, <1>l, <1>m DEF Rules, ListsSound, OneEach
  <1>6. NothingLeft'
    <2>1. ASSUME NEW b \in Buckets PROVE lock[b] = Nobody
      BY <1>0, <1>a, <1>c DEF LocksHeld, Locked
    <2> QED
      BY <1>b, <1>k, <1>l, <2>1 DEF NothingLeft
  <1> QED
    BY <1>1, <1>2, <1>3, <1>4, <1>5, <1>6 DEF IInv

LEMMA InitIInv ==
  ASSUME Init
  PROVE  IInv
  <1>a. /\ now = 1 /\ entry = [e \in Entries |-> Unallocated]
        /\ list = [b \in Buckets |-> <<>>] /\ lock = [b \in Buckets |-> Nobody]
        /\ rules = {} /\ add = 0 /\ rm = 0 /\ quit = FALSE /\ main = "wait_lcore"
        /\ touched = FALSE
    BY DEF Init
  <1>b. 1 \in Buckets /\ Aging \in Threads /\ Aging \notin Lcores /\ Lcores \subseteq Threads
    BY TableAssumption DEF Buckets, Threads
  <1>c. /\ Idle \in ThreadRecord /\ [Idle EXCEPT !.pc = "done"] \in ThreadRecord
        /\ Idle.pc = "loop" /\ [Idle EXCEPT !.pc = "done"].pc = "done"
    BY <1>b DEF Idle, ThreadRecord, Pcs
  <1>d. /\ th \in [Threads -> ThreadRecord]
        /\ \A p \in Threads : th[p].pc \in {"loop", "done"}
    BY <1>c DEF Init
  <1>e. \A e \in Entries : entry[e] = Unallocated
    BY <1>a
  <1>f. /\ Unallocated \in EntryRecord /\ Unallocated.state = "unused"
        /\ Unallocated.age = 0 /\ ~Unallocated.hw
    BY DEF Unallocated, EntryRecord
  <1>g. \A b \in Buckets : list[b] = <<>> /\ DOMAIN list[b] = {} /\ lock[b] = Nobody
    BY <1>a
  <1>1. TypeOK
    <2>1. entry \in [Entries -> EntryRecord]
      BY <1>a, <1>f
    <2>2. list \in [Buckets -> Seq(Entries)] /\ lock \in [Buckets -> Threads \cup {Nobody}]
      BY <1>a
    <2> QED
      BY <1>a, <1>d, <2>1, <2>2, TypeParts
  <1>2. Owners /\ Additions /\ AgingThread /\ Removals /\ Walks
    <2>1. \A l \in Lcores : OwnerOf(l) /\ AdditionOf(l) /\ WalkOf(l)
      BY <1>b, <1>d DEF OwnerOf, AdditionOf, WalkOf, Handling, HasEntry, Adding
    <2>2. AgingThread
      BY <1>b, <1>d DEF AgingThread
    <2>3. \A p \in Threads : RemovalOf(p)
      BY <1>d DEF RemovalOf
    <2> QED
      BY <2>1, <2>2, <2>3 DEF Owners, Additions, Removals, Walks
  <1>3. Memory /\ Rules /\ Stopping /\ NothingLeft
    BY <1>a, <1>e, <1>f DEF Memory, Rules, Stopping, NothingLeft
  <1>4. LocksHeld
    BY <1>d, <1>g DEF LocksHeld, Locked
  <1>5. ListsSound /\ OneEach
    BY <1>e, <1>f, <1>g DEF ListsSound, OneEach
  <1> QED
    BY <1>1, <1>2, <1>3, <1>4, <1>5 DEF IInv

LEMMA NextIInv ==
  ASSUME IInv, Base', NoUseAfterFree', [Next]_vars
  PROVE  IInv'
  <1>a. Aging \in Threads /\ Lcores \subseteq Threads
    BY DEF Threads
  <1>1. ASSUME NEW l \in Lcores, \/ \E f \in Flows : Packet(l, f)
                                 \/ \E e \in Entries : Aged(l, e)
                                 \/ LcoreRuns(l) \/ Leave(l)
        PROVE  IInv'
    BY <1>1, <1>a, LookupIInv, AdditionIInv, LcoreIInv, AllocateIInv, InsertIInv, UnlinkIInv,
       FreeIInv, UnlockIInv DEF LcoreRuns
  <1>2. CASE AgingRuns
    BY <1>2, <1>a, AgingIInv, UnlinkIInv, FreeIInv, UnlockIInv DEF AgingRuns
  <1>3. CASE MainRuns \/ Tick \/ Quit \/ UNCHANGED vars
    BY <1>3, QuietIInv, DestroyIInv DEF MainRuns
  <1> QED
    BY <1>1, <1>2, <1>3 DEF Next

\* What has been touched stays touched.
LEMMA Untouched ==
  ASSUME [Next]_vars, NoUseAfterFree'
  PROVE  NoUseAfterFree
  <1> USE DEF NoUseAfterFree
  <1>1. ASSUME NEW l \in Lcores, \/ \E f \in Flows : Packet(l, f)
                                 \/ \E e \in Entries : Aged(l, e)
                                 \/ Leave(l)
        PROVE  ~touched
    BY <1>1 DEF Packet, Aged, Leave
  <1>2. ASSUME NEW l \in Lcores, LcoreRuns(l)
        PROVE  ~touched
    BY <1>2 DEF LcoreRuns, FindMatch, FindNext, FindNothing, CountPacket, Allocate, OutOfMemory,
      Insert, LoadAdd, StoreAdd, AddRule, AddRuleFails, SetAge, SetExpiration, SetHw, Lock,
      Unlink, Free, Unlock, Uses
  <1>3. ASSUME AgingRuns
        PROVE  ~touched
    BY <1>3 DEF AgingRuns, StartPass, StopAging, TryLock, ScanNext, ScanAged, ScanEnd, Unlink,
      Free, Unlock, Uses
  <1>4. ASSUME MainRuns \/ Tick \/ Quit \/ UNCHANGED vars
        PROVE  ~touched
    BY <1>4 DEF MainRuns, WaitLcores, Destroy, Tick, Quit, vars
  <1> QED
    BY <1>1, <1>2, <1>3, <1>4 DEF Next

Inv == Base /\ (NoUseAfterFree => IInv)

LEMMA SpecInv == Spec => []Inv
  <1>1. Init => Inv
    BY InitBase, InitIInv DEF Inv
  <1>2. Inv /\ [Next]_vars => Inv'
    BY NextBase, NextIInv, Untouched DEF Inv
  <1> QED
    BY <1>1, <1>2, PTL DEF Spec

-----------------------------------------------------------------------------
\* Every variable of the flow table and of its threads keeps its type; no
\* thread ever holds the index of a bucket that does not exist.
THEOREM TypeCorrect == Spec => []TypeOK
  BY SpecInv, PTL DEF Inv, Base

\* The spinlocks of simple_fwd_ft.c: whoever holds the lock of a bucket is in
\* _ft_destroy_entry or in the aging scan of that bucket, and nobody is there
\* without it, however many lcores run and whatever freed entry they used.
THEOREM LocksHeldHolds == Spec => []LocksHeld
  BY SpecInv, PTL DEF Inv, Base

\* The list of a bucket holds each of its entries once and none that is freed,
\* and no allocated entry is lost, up to the first use of a freed entry: only
\* such a use, a second removal among them, can break a list.
THEOREM ListsIntactHolds == Spec => []ListsIntact
  <1>1. Inv => ListsIntact
    BY DEF Inv, IInv, ListsIntact
  <1> QED
    BY <1>1, SpecInv, PTL

\* A flow has one entry although simple_fwd_ft_find takes no lock: the walk may
\* stand on an entry that is unlinked under its feet and still does not miss
\* the entry of its flow, unless that entry was freed when it read it.
THEOREM OneEntryPerFlowHolds == Spec => []OneEntryPerFlow
  <1>1. Inv => OneEntryPerFlow
    BY DEF Inv, IInv, OneEntryPerFlow
  <1> QED
    BY <1>1, SpecInv, PTL

\* simple_fwd_ft_destroy leaves no lock taken, and no entry allocated and no
\* rule in hardware unless a freed entry was used.
THEOREM CleanExitHolds == Spec => []CleanExit
  <1>1. ASSUME Base, main = "done", NEW b \in Buckets PROVE lock[b] = Nobody
    <2>1. \A p \in Threads : th[p].pc = "done"
      BY <1>1 DEF Base, Stopping, Threads
    <2>2. lock[b] \in Threads \cup {Nobody}
      BY <1>1 DEF Base, TypeOK
    <2> QED
      BY <1>1, <2>1, <2>2 DEF Base, LocksHeld, Locked
  <1>2. Inv => CleanExit
    BY <1>1 DEF Inv, IInv, NothingLeft, CleanExit
  <1> QED
    BY <1>2, SpecInv, PTL
=============================================================================
