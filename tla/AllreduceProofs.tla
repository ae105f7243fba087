-------------------------- MODULE AllreduceProofs --------------------------
(***************************************************************************)
(* The allreduce operation, for any number of clients, any batch size and  *)
(* number of batches, and any choice of transfer protocols: first between  *)
(* clients that are each other's peers (the non-offloaded mode), then with *)
(* daemons.                                                                *)
(*                                                                         *)
(* Everything rests on the counter of a super request.  For a peer p and   *)
(* an operation id there are two sets of other peers: To(p, id), to whom   *)
(* the send of p's vector has not completed, and Got(p, id), whose vectors *)
(* have arrived.  Owed says that num_allreduce_operations is what these    *)
(* sets leave; every callback changes one element of one set and counts    *)
(* one.  A super request goes away when nothing is owed, so nothing that   *)
(* UCX still holds refers to it.  That a client enters the next batch only *)
(* when nothing is owed in this one keeps peers within two batches.        *)
(*                                                                         *)
(* The vectors of the pool are counted by Total over the super requests    *)
(* (Accounts).  The values rest on the order of reads and writes: the      *)
(* vector a client offers in a batch is Start until its operation is over  *)
(* and End from then on (Slots), so a message brings Start whenever UCX    *)
(* reads it (Wires), and a super request holds the peers' Starts until all *)
(* are in and then their sum (Buffers).                                    *)
(***************************************************************************)
EXTENDS Allreduce, FiniteSetTheorems, TLAPS

Fields == {"ops", "set", "owner", "res", "first", "others", "buf", "list", "nreq"}

\* Messages: the vector of p for q in operation id.
Key(m, p, q, id) == m.src = p /\ m.dst = q /\ m.id = id
Has(S, p, q, id) == \E m \in S : Key(m, p, q, id)
Under == net \cup rx \cup tx
Slow == {m \in Under : m.proto # "short"}

Messages ==
    /\ \A m \in Under : /\ m.kind = "op" /\ m.src \in Clients /\ m.dst \in Clients
                        /\ m.src # m.dst /\ m.id \in Nat /\ m.id < nextId[m.src]
    /\ \A m \in rx : m.proto = "rndv"
    /\ \A m \in tx : m.proto # "short"

\* A vector is sent once, and is in one place.
Once ==
    /\ \A m, n \in Under : (m.src = n.src /\ m.dst = n.dst /\ m.id = n.id) => m = n
    /\ net \cap rx = {} /\ net \cap tx = {} /\ rx \cap tx = {}

\* The peers whose header has arrived at p, whose data is still to come, whose
\* vector is complete, and those p's own vector has not left for.
Heads(p, id) == {q \in Dests(p) : id < nextId[q] /\ ~Has(net, q, p, id)}
Coming(p, id) == {q \in Dests(p) : Has(rx, q, p, id)}
Got(p, id) == Heads(p, id) \ Coming(p, id)
To(p, id) == {q \in Dests(p) : Has(Slow, p, q, id)}

\* What is left of an operation before and after its scatter to D.
LeftBefore(D, got) == Cardinality(D) + 1 + Cardinality(D) - Cardinality(got)
LeftAfter(D, to, got) == Cardinality(to) + Cardinality(D) - Cardinality(got)
Owed(p, id) == IF id < nextId[p] THEN LeftAfter(Dests(p), To(p, id), Got(p, id))
                                 ELSE LeftBefore(Dests(p), Got(p, id))

SeenBy(sr) == (sr.others \cup {sr.first}) \ {NoPeer}

\* A super request that is there.
HeldOf(p, id) ==
    /\ DOMAIN sreq[p][id] = Fields
    /\ sreq[p][id].ops = Owed(p, id)
    /\ Owed(p, id) # 0
    /\ SeenBy(sreq[p][id]) = Heads(p, id)
    /\ id < nextId[p] \/ Heads(p, id) # {}

\* One that is not: it is complete, or nobody has begun.
FreeOf(p, id) ==
    IF id < nextId[p] THEN Owed(p, id) = 0 ELSE Heads(p, id) = {}

PairOf(p, id) == IF Live(p, id) THEN HeldOf(p, id) ELSE FreeOf(p, id)
Requests == \A p \in Clients : \A id \in Nat : PairOf(p, id)

Shapes ==
    /\ batch \in [Clients -> Nat] /\ nextId \in [Clients -> Nat]
    /\ pc \in [Clients -> {"submit", "wait", "done"}] /\ active \in [Clients -> Nat]
    /\ DOMAIN sreq = Clients /\ \A p \in Clients : DOMAIN sreq[p] \subseteq Nat
    /\ DOMAIN vec = Clients /\ \A p \in Clients : DOMAIN vec[p] = 0 .. BatchSize - 1

\* client_active_allreduce_requests counts the client's own operations.
Own(p) == {id \in DOMAIN sreq[p] : id < nextId[p]}
Actives == \A p \in Clients : active[p] = Cardinality(Own(p))

\* How far a client is in its batch, and that it has left no batch unfinished.
FirstIdOf(b) == IF b = 0 THEN 0 ELSE LastIdOf(b - 1) + 1
BatchesOf(p) ==
    /\ FirstIdOf(batch[p]) <= nextId[p]
    /\ IF pc[p] = "submit" THEN nextId[p] <= LastIdOf(batch[p])
                           ELSE nextId[p] = LastIdOf(batch[p]) + 1
    /\ \A id \in Own(p) : FirstIdOf(batch[p]) <= id
Batches == \A p \in Clients : BatchesOf(p)

\* Nobody is more than a batch ahead.
Skew == \A p, q \in Clients : batch[q] <= batch[p] + 1

IInv == Shapes /\ Messages /\ Once /\ Requests /\ Actives /\ Batches /\ Skew

-----------------------------------------------------------------------------
\* Numbers.
LEMMA SlotInRange == ASSUME NEW id \in Nat PROVE Slot(id) \in 0 .. BatchSize - 1
  BY AllreduceAssumption DEF Slot

LEMMA Product ==
  ASSUME NEW B \in Nat \ {0}, NEW x \in Nat, NEW y \in Nat, x < y
  PROVE  x * B + B <= y * B
  OBVIOUS

LEMMA Division ==
  ASSUME NEW B \in Int, B > 0, NEW x \in Int
  PROVE  x = B * (x \div B) + (x % B)
  BY Z3

LEMMA SlotsDiffer ==
  ASSUME NEW x \in Nat, NEW y \in Nat, x < y, y < x + BatchSize
  PROVE  Slot(x) # Slot(y)
  <1>1. BatchSize \in Nat \ {0}
    BY AllreduceAssumption
  <1> SUFFICES ASSUME x % BatchSize = y % BatchSize PROVE FALSE
    BY DEF Slot
  <1>p. PICK B \in Nat \ {0} : B = BatchSize
    BY <1>1
  <1>2. x = B * (x \div B) + (x % B) /\ y = B * (y \div B) + (y % B)
    BY Division
  <1>5. x \div B \in Nat /\ y \div B \in Nat /\ x % B \in Nat /\ x % B = y % B
    BY <1>p
  <1>q. PICK i \in Nat, j \in Nat, r \in Nat : x = i * B + r /\ y = j * B + r
    <2>1. PICK i \in Nat, j \in Nat, r \in Nat : i = x \div B /\ j = y \div B /\ r = x % B
      BY <1>5
    <2>2. x = B * i + r /\ y = B * j + r
      BY <1>2, <1>5, <2>1, Zenon
    <2>3. B * i = i * B /\ B * j = j * B
      OBVIOUS
    <2> QED
      BY <2>2, <2>3
  <1>3. i < j
    <2>1. i # j
      BY <1>q
    <2>2. ASSUME j < i PROVE FALSE
      <3>1. j * B + B <= i * B
        BY <2>2, Product
      <3>2. i * B \in Nat /\ j * B \in Nat
        OBVIOUS
      <3> QED
        BY <3>1, <3>2, <1>q
    <2> QED
      BY <2>1, <2>2
  <1>4. i * B + B <= j * B /\ i * B \in Nat /\ j * B \in Nat
    BY <1>3, Product
  <1> QED
    BY <1>4, <1>q, <1>p

LEMMA LastIds ==
  ASSUME NEW b \in Nat
  PROVE  /\ LastIdOf(b) \in Nat /\ LastIdOf(b + 1) = LastIdOf(b) + BatchSize
         /\ LastIdOf(0) = 0 /\ BatchSize \in Nat /\ BatchSize >= 1
         /\ FirstIdOf(b) \in Nat /\ FirstIdOf(b + 1) = LastIdOf(b) + 1
         /\ LastIdOf(b) < FirstIdOf(b) + BatchSize
         /\ FirstIdOf(b) <= LastIdOf(b)
  <1>1. BatchSize \in Nat \ {0}
    BY AllreduceAssumption
  <1>p. PICK B \in Nat \ {0} : B = BatchSize
    BY <1>1
  <1>2. b * B \in Nat /\ (b + 1) * B = b * B + B /\ 0 * B = 0
    OBVIOUS
  <1>3. LastIdOf(b) \in Nat /\ LastIdOf(b + 1) = LastIdOf(b) + BatchSize /\ LastIdOf(0) = 0
    BY <1>p, <1>2 DEF LastIdOf
  <1>4. FirstIdOf(b + 1) = LastIdOf(b) + 1
    BY DEF FirstIdOf
  <1>5. CASE b = 0
    BY <1>1, <1>3, <1>4, <1>5 DEF FirstIdOf
  <1>6. CASE b # 0
    <2>p. PICK c \in Nat : b = c + 1
      BY <1>6, b - 1 \in Nat, b = (b - 1) + 1
    <2>1. c * B \in Nat /\ (c + 1) * B = c * B + B
      OBVIOUS
    <2>2. LastIdOf(c) \in Nat /\ LastIdOf(b) = LastIdOf(c) + BatchSize
      BY <1>p, <2>p, <2>1 DEF LastIdOf
    <2>3. FirstIdOf(b) = LastIdOf(c) + 1
      BY <1>6, <2>p DEF FirstIdOf
    <2> QED
      BY <1>1, <1>3, <1>4, <2>2, <2>3
  <1> QED
    BY <1>5, <1>6

LEMMA LastIdsGrow ==
  ASSUME NEW b \in Nat, NEW c \in Nat
  PROVE  (b < c => LastIdOf(b) + BatchSize <= LastIdOf(c)) /\ (b <= c => LastIdOf(b) <= LastIdOf(c))
  <1>1. BatchSize \in Nat \ {0}
    BY AllreduceAssumption
  <1>2. b < c => LastIdOf(b) + BatchSize <= LastIdOf(c)
    BY <1>1, Product DEF LastIdOf
  <1>3. LastIdOf(b) \in Nat /\ LastIdOf(c) \in Nat
    BY LastIds
  <1> QED
    BY <1>1, <1>2, <1>3

-----------------------------------------------------------------------------
\* Without daemons the clients are the peers.
LEMMA OnlyClients ==
  ASSUME Daemons = {}
  PROVE  /\ ~Offload /\ Procs = Clients /\ Peers = Clients /\ NoPeer \notin Clients
         /\ \A p : Dests(p) = Clients \ {p}
         /\ \A p : IsFiniteSet(Dests(p)) /\ Cardinality(Dests(p)) \in Nat
  <1>1. ~Offload /\ Procs = Clients /\ Peers = Clients /\ NoPeer \notin Clients
    BY AllreduceAssumption DEF Offload, Procs, Peers
  <1>2. \A p : Dests(p) = Clients \ {p}
    BY <1>1 DEF Dests
  <1>3. ASSUME NEW p PROVE IsFiniteSet(Dests(p)) /\ Cardinality(Dests(p)) \in Nat
    <2>1. IsFiniteSet(Clients) /\ Dests(p) \subseteq Clients
      BY <1>2, AllreduceAssumption
    <2> QED
      BY <2>1, FS_Subset, FS_CardinalityType
  <1> QED
    BY <1>1, <1>2, <1>3

\* What is left is a number, and zero only when both sets are as they should be.
LEMMA LeftIs ==
  ASSUME NEW D, IsFiniteSet(D), NEW to \in SUBSET D, NEW got \in SUBSET D
  PROVE  /\ LeftBefore(D, got) \in Nat /\ LeftBefore(D, got) # 0
         /\ LeftAfter(D, to, got) \in Nat
         /\ LeftAfter(D, to, got) = 0 <=> (to = {} /\ got = D)
         /\ Cardinality(to) \in Nat /\ Cardinality(got) \in Nat /\ Cardinality(D) \in Nat
         /\ Cardinality(to) <= Cardinality(D) /\ Cardinality(got) <= Cardinality(D)
         /\ IsFiniteSet(to) /\ IsFiniteSet(got)
  <1>1. /\ IsFiniteSet(to) /\ IsFiniteSet(got) /\ Cardinality(D) \in Nat
        /\ Cardinality(to) \in Nat /\ Cardinality(got) \in Nat
        /\ Cardinality(to) <= Cardinality(D) /\ Cardinality(got) <= Cardinality(D)
        /\ Cardinality(got) = Cardinality(D) => got = D
    BY FS_Subset, FS_CardinalityType
  <1>2. Cardinality(to) = 0 <=> to = {}
    BY <1>1, FS_EmptySet
  <1> QED
    BY <1>1, <1>2 DEF LeftBefore, LeftAfter

\* A send that completes, a vector that arrives.
LEMMA LeftSent ==
  ASSUME NEW D, IsFiniteSet(D), NEW to \in SUBSET D, NEW got \in SUBSET D, NEW q \in to
  PROVE  LeftAfter(D, to \ {q}, got) = LeftAfter(D, to, got) - 1
  <1>1. IsFiniteSet(to) /\ Cardinality(to) \in Nat /\ Cardinality(got) \in Nat /\ Cardinality(D) \in Nat
    BY LeftIs
  <1>2. Cardinality(to \ {q}) = Cardinality(to) - 1
    BY <1>1, FS_RemoveElement
  <1> QED
    BY <1>1, <1>2 DEF LeftAfter

LEMMA LeftGot ==
  ASSUME NEW D, IsFiniteSet(D), NEW to \in SUBSET D, NEW got \in SUBSET D, NEW q \in D \ got
  PROVE  /\ LeftAfter(D, to, got \cup {q}) = LeftAfter(D, to, got) - 1
         /\ LeftBefore(D, got \cup {q}) = LeftBefore(D, got) - 1
  <1>1. IsFiniteSet(got) /\ Cardinality(to) \in Nat /\ Cardinality(got) \in Nat /\ Cardinality(D) \in Nat
    BY LeftIs
  <1>2. Cardinality(got \cup {q}) = Cardinality(got) + 1
    BY <1>1, FS_AddElement
  <1> QED
    BY <1>1, <1>2 DEF LeftAfter, LeftBefore

\* The scatter to D, of which "short" completes at once.
LEMMA LeftScattered ==
  ASSUME NEW D, IsFiniteSet(D), NEW got \in SUBSET D, NEW short \in SUBSET D
  PROVE  LeftAfter(D, D \ short, got) = LeftBefore(D, got) - Cardinality(short) - 1
  <1>1. Cardinality(got) \in Nat /\ Cardinality(D) \in Nat /\ Cardinality(short) \in Nat
    BY LeftIs, FS_Subset, FS_CardinalityType
  <1>2. Cardinality(D \ short) = Cardinality(D) - Cardinality(D \cap short)
    BY FS_Difference, FS_Subset
  <1>3. D \cap short = short
    OBVIOUS
  <1>4. Cardinality(D \ short) = Cardinality(D) - Cardinality(short)
    BY <1>2, <1>3
  <1> QED
    BY <1>1, <1>4 DEF LeftAfter, LeftBefore

-----------------------------------------------------------------------------
\* A message that leaves a set, one that enters it.
LEMMA HasLess ==
  ASSUME Once, NEW S \in SUBSET Under, NEW m \in Under, NEW p, NEW q, NEW id
  PROVE  Has(S \ {m}, p, q, id) <=> Has(S, p, q, id) /\ ~Key(m, p, q, id)
  BY DEF Once, Has, Key

LEMMA HasMore ==
  ASSUME NEW S, NEW m, NEW p, NEW q, NEW id
  PROVE  Has(S \cup {m}, p, q, id) <=> Has(S, p, q, id) \/ Key(m, p, q, id)
  BY DEF Has, Key

\* The sets of a pair.
LEMMA PairSets ==
  ASSUME Daemons = {}, NEW p \in Clients, NEW id \in Nat
  PROVE  /\ IsFiniteSet(Dests(p)) /\ To(p, id) \in SUBSET Dests(p) /\ Got(p, id) \in SUBSET Dests(p)
         /\ Owed(p, id) \in Nat
         /\ Owed(p, id) = 0 <=> (id < nextId[p] /\ To(p, id) = {} /\ Got(p, id) = Dests(p))
  <1>1. /\ IsFiniteSet(Dests(p)) /\ To(p, id) \in SUBSET Dests(p) /\ Got(p, id) \in SUBSET Dests(p)
    BY OnlyClients DEF To, Got, Heads
  <1>2. /\ LeftBefore(Dests(p), Got(p, id)) \in Nat /\ LeftBefore(Dests(p), Got(p, id)) # 0
        /\ LeftAfter(Dests(p), To(p, id), Got(p, id)) \in Nat
        /\ LeftAfter(Dests(p), To(p, id), Got(p, id)) = 0
             <=> (To(p, id) = {} /\ Got(p, id) = Dests(p))
    BY <1>1, LeftIs
  <1>3. CASE id < nextId[p]
    BY <1>1, <1>2, <1>3 DEF Owed
  <1>4. CASE ~(id < nextId[p])
    BY <1>1, <1>2, <1>4 DEF Owed
  <1> QED
    BY <1>3, <1>4

\* The same after a step.
LEMMA PairSetsNext ==
  ASSUME Daemons = {}, NEW p \in Clients, NEW id \in Nat
  PROVE  /\ To(p, id)' \in SUBSET Dests(p) /\ Got(p, id)' \in SUBSET Dests(p)
         /\ Owed(p, id)' \in Nat
         /\ Owed(p, id)' = 0 <=> ((id < nextId[p])' /\ To(p, id)' = {} /\ Got(p, id)' = Dests(p))
  <1>1. /\ IsFiniteSet(Dests(p)) /\ To(p, id)' \in SUBSET Dests(p) /\ Got(p, id)' \in SUBSET Dests(p)
    BY OnlyClients DEF To, Got, Heads, Dests
  <1>2. Owed(p, id)' = IF (id < nextId[p])' THEN LeftAfter(Dests(p), To(p, id)', Got(p, id)')
                                          ELSE LeftBefore(Dests(p), Got(p, id)')
    BY DEF Owed, LeftAfter, LeftBefore, Dests
  <1> QED
    BY <1>1, <1>2, LeftIs

\* Whatever a step does not touch.
LEMMA PairKept ==
  ASSUME NEW p, NEW id, PairOf(p, id), Live(p, id)' <=> Live(p, id),
         Live(p, id) => sreq'[p][id] = sreq[p][id],
         (id < nextId[p])' <=> id < nextId[p],
         Heads(p, id)' = Heads(p, id), Coming(p, id)' = Coming(p, id), To(p, id)' = To(p, id)
  PROVE  PairOf(p, id)'
  <1>1. Got(p, id)' = Got(p, id)
    BY DEF Got
  <1>2. (id < nextId[p])' = (id < nextId[p])
    OBVIOUS
  <1>3. Owed(p, id)' = Owed(p, id)
    BY <1>1, <1>2 DEF Owed
  <1>4. CASE Live(p, id)
    BY <1>3, <1>4 DEF PairOf, HeldOf
  <1>5. CASE ~Live(p, id)
    BY <1>3, <1>5 DEF PairOf, FreeOf
  <1> QED
    BY <1>4, <1>5

\* No super request but this one is touched.
Elsewhere(p, id) ==
    /\ DOMAIN sreq' = Clients
    /\ \A q \in Clients : q # p => sreq'[q] = sreq[q]
    /\ \A i \in DOMAIN sreq[p] : i # id => i \in DOMAIN sreq'[p] /\ sreq'[p][i] = sreq[p][i]
    /\ \A i \in DOMAIN sreq'[p] : i # id => i \in DOMAIN sreq[p]

LEMMA PutEffect ==
  ASSUME DOMAIN sreq = Clients, NEW p \in Clients, NEW id, NEW sr, sreq' = Put(p, id, sr)
  PROVE  Elsewhere(p, id) /\ id \in DOMAIN sreq'[p] /\ sreq'[p][id] = sr
  BY DEF Put, Elsewhere

LEMMA RemoveEffect ==
  ASSUME DOMAIN sreq = Clients, NEW p \in Clients, NEW id, sreq' = Remove(p, id)
  PROVE  Elsewhere(p, id) /\ id \notin DOMAIN sreq'[p]
  BY DEF Remove, Elsewhere

\* What allreduce_complete_operation_callback does to a client's counters.
Counted(p, id, sr, a) ==
    /\ Elsewhere(p, id)
    /\ \/ /\ sr.ops > 1 /\ id \in DOMAIN sreq'[p] /\ sreq'[p][id] = [sr EXCEPT !.ops = @ - 1]
          /\ active' = a /\ vec' = vec
       \/ /\ ~(sr.ops > 1) /\ id \notin DOMAIN sreq'[p] /\ active' = [a EXCEPT ![p] = @ - 1]
          /\ \E v : vec' = [vec EXCEPT ![p][Slot(id)] = v]

LEMMA CompleteEffect ==
  ASSUME DOMAIN sreq = Clients, NEW p \in Clients, NEW id, NEW sr, NEW n, NEW t, NEW u, NEW a,
         CompleteOperation(p, id, sr, n, t, u, a)
  PROVE  net' = n /\ tx' = t /\ Counted(p, id, sr, a)
  <1>1. CASE sr.ops > 1
    <2>1. /\ sreq' = Put(p, id, [sr EXCEPT !.ops = @ - 1])
          /\ net' = n /\ tx' = t /\ active' = a /\ vec' = vec
      BY <1>1 DEF CompleteOperation
    <2> QED
      BY <1>1, <2>1, PutEffect DEF Counted
  <1>2. CASE ~(sr.ops > 1)
    <2>1. CompleteClient(p, id, sr, n, t, u, a)
      BY <1>2 DEF CompleteOperation
    <2>2. /\ sreq' = Remove(p, id) /\ net' = n /\ tx' = t /\ active' = [a EXCEPT ![p] = @ - 1]
          /\ vec' = [vec EXCEPT ![p][Slot(id)] = WithPeers(@, sr, id)]
      BY <2>1 DEF CompleteClient
    <2>3. \E v : vec' = [vec EXCEPT ![p][Slot(id)] = v]
      BY <2>2
    <2> QED
      BY <1>2, <2>2, <2>3, RemoveEffect DEF Counted
  <1> QED
    BY <1>1, <1>2

LEMMA GatheredEffect ==
  ASSUME DOMAIN sreq = Clients, NEW p \in Clients, NEW id, NEW q, NEW sr, DOMAIN sr = Fields,
         NEW val, NEW n, NEW t, NEW u, Gathered(p, id, q, sr, val, n, t, u)
  PROVE  /\ net' = n /\ tx' = t
         /\ \E r : /\ DOMAIN r = Fields /\ r.ops = sr.ops /\ SeenBy(r) = SeenBy(sr)
                   /\ Counted(p, id, r, active)
  <1> DEFINE in == [sr EXCEPT !.buf[q] = val]
             more == [in EXCEPT !.buf[in.first] = ReduceAll(@, in.buf, in.others, id)]
             red == IF AllArrived(p, sr) THEN more ELSE in
  <1>1. CompleteOperation(p, id, red, n, t, u, active)
    BY DEF Gathered
  <1>2. DOMAIN in = Fields /\ in.ops = sr.ops /\ in.first = sr.first /\ in.others = sr.others
    BY DEF Fields
  <1>3. DOMAIN more = Fields /\ more.ops = in.ops /\ more.first = in.first /\ more.others = in.others
    <2> HIDE DEF in
    <2> QED
      BY <1>2 DEF Fields
  <1>4. DOMAIN red = Fields /\ red.ops = sr.ops /\ red.first = sr.first /\ red.others = sr.others
    <2> HIDE DEF in, more
    <2> QED
      BY <1>2, <1>3
  <1> HIDE DEF red
  <1>5. net' = n /\ tx' = t /\ Counted(p, id, red, active)
    BY <1>1, CompleteEffect
  <1>6. SeenBy(red) = SeenBy(sr)
    BY <1>4 DEF SeenBy
  <1> QED
    BY <1>4, <1>5, <1>6

\* allreduce_super_request_get, for an operation that is not over.
LEMMA GetIs ==
  ASSUME Daemons = {}, Shapes, NEW p \in Clients, NEW id \in Nat, NEW h, PairOf(p, id),
         Live(p, id) \/ ~(id < nextId[p])
  PROVE  /\ DOMAIN Get(p, id, h) = Fields /\ Get(p, id, h).ops = Owed(p, id)
         /\ SeenBy(Get(p, id, h)) = Heads(p, id)
  <1>1. CASE Live(p, id)
    BY <1>1 DEF Get, PairOf, HeldOf
  <1>2. CASE ~Live(p, id)
    <2>1. Get(p, id, h) = Allocate(p, h) /\ Heads(p, id) = {} /\ ~(id < nextId[p])
      BY <1>2 DEF Get, PairOf, FreeOf
    <2>2. /\ DOMAIN Allocate(p, h) = Fields /\ Allocate(p, h).ops = Ops(p)
          /\ Allocate(p, h).first = NoPeer /\ Allocate(p, h).others = {}
      BY DEF Allocate, Fields
    <2>3. Owed(p, id) = Ops(p)
      <3>1. Got(p, id) = {}
        BY <2>1 DEF Got
      <3>2. Cardinality({}) = 0 /\ Cardinality(Dests(p)) \in Nat
        BY FS_EmptySet, OnlyClients
      <3> QED
        BY <2>1, <3>1, <3>2 DEF Owed, LeftBefore, Ops
    <2>4. SeenBy(Allocate(p, h)) = {}
      BY <2>2 DEF SeenBy
    <2> QED
      BY <2>1, <2>2, <2>3, <2>4
  <1> QED
    BY <1>1, <1>2

\* The pair whose super request counts one down.
LEMMA PairCounted ==
  ASSUME Daemons = {}, NEW p \in Clients, NEW id \in Nat, NEW sr, NEW a,
         DOMAIN sr = Fields, sr.ops = Owed(p, id)' + 1, SeenBy(sr) = Heads(p, id)',
         (id < nextId[p])' \/ Heads(p, id)' # {}, Counted(p, id, sr, a)
  PROVE  PairOf(p, id)'
  <1>1. /\ Owed(p, id)' \in Nat
        /\ Owed(p, id)' = 0 => (id < nextId[p])'
    BY PairSetsNext
  <1>2. CASE sr.ops > 1
    <2>1. /\ id \in DOMAIN sreq'[p] /\ sreq'[p][id] = [sr EXCEPT !.ops = @ - 1]
          /\ Owed(p, id)' # 0
      BY <1>1, <1>2 DEF Counted
    <2>2. /\ DOMAIN sreq'[p][id] = Fields /\ sreq'[p][id].ops = sr.ops - 1
          /\ sreq'[p][id].first = sr.first /\ sreq'[p][id].others = sr.others
      BY <2>1 DEF Fields
    <2>3. sreq'[p][id].ops = Owed(p, id)' /\ SeenBy(sreq'[p][id]) = Heads(p, id)'
      BY <1>1, <2>2 DEF SeenBy
    <2> QED
      BY <2>1, <2>2, <2>3 DEF PairOf, Live, HeldOf
  <1>3. CASE ~(sr.ops > 1)
    <2>1. id \notin DOMAIN sreq'[p] /\ Owed(p, id)' = 0
      BY <1>1, <1>3 DEF Counted
    <2> QED
      BY <1>1, <2>1 DEF PairOf, Live, FreeOf
  <1> QED
    BY <1>2, <1>3

-----------------------------------------------------------------------------
LEMMA OwnFinite ==
  ASSUME Shapes, NEW p \in Clients
  PROVE  IsFiniteSet(Own(p)) /\ Cardinality(Own(p)) \in Nat
  <1>1. nextId[p] \in Nat /\ DOMAIN sreq[p] \subseteq Nat
    BY DEF Shapes
  <1>2. Own(p) \subseteq 0 .. nextId[p] - 1
    <2>1. ASSUME NEW i \in Own(p) PROVE i \in 0 .. nextId[p] - 1
      <3>1. i \in Nat /\ i < nextId[p]
        BY <1>1 DEF Own
      <3> QED
        BY <1>1, <3>1
    <2> QED
      BY <2>1
  <1>3. IsFiniteSet(0 .. nextId[p] - 1)
    BY <1>1, FS_Interval
  <1> QED
    BY <1>2, <1>3, FS_Subset, FS_CardinalityType

\* A callback that creates, changes or ends one super request of a client.
LEMMA CountsKept ==
  ASSUME Shapes, Actives, Batches, Skew, NEW p \in Clients, NEW id \in Nat, Elsewhere(p, id),
         nextId' = nextId, batch' = batch, pc' = pc,
         id \in DOMAIN sreq[p] \/ ~(id < nextId[p]),
         \/ id \in DOMAIN sreq'[p] /\ active' = active /\ vec' = vec
         \/ /\ id \notin DOMAIN sreq'[p] /\ id < nextId[p] /\ active' = [active EXCEPT ![p] = @ - 1]
            /\ \E v : vec' = [vec EXCEPT ![p][Slot(id)] = v]
  PROVE  Shapes' /\ Actives' /\ Batches' /\ Skew'
  <1>0. /\ \A q \in Clients : DOMAIN sreq[q] \subseteq Nat
        /\ active \in [Clients -> Nat] /\ DOMAIN sreq = Clients
    BY DEF Shapes
  <1>1. \A q \in Clients : q # p => Own(q)' = Own(q)
    BY DEF Elsewhere, Own
  <1>2. CASE id \in DOMAIN sreq'[p] /\ active' = active /\ vec' = vec
    <2>1. Own(p)' = Own(p)
      <3>1. ASSUME NEW i \in Own(p) PROVE i \in Own(p)'
        BY <1>2, <3>1 DEF Own, Elsewhere
      <3>2. ASSUME NEW i \in Own(p)' PROVE i \in Own(p)
        BY <1>2, <3>2 DEF Own, Elsewhere
      <3> QED
        BY <3>1, <3>2
    <2>2. \A q \in Clients : Own(q)' = Own(q)
      BY <1>1, <2>1
    <2>3. Actives' /\ Skew'
      BY <1>2, <2>2 DEF Actives, Skew
    <2>4. Batches'
      BY <2>2 DEF Batches, BatchesOf
    <2>5. \A q \in Clients : DOMAIN sreq'[q] \subseteq Nat
      BY <1>0 DEF Elsewhere
    <2> QED
      BY <1>2, <2>3, <2>4, <2>5 DEF Shapes, Elsewhere
  <1>3. CASE /\ id \notin DOMAIN sreq'[p] /\ id < nextId[p] /\ active' = [active EXCEPT ![p] = @ - 1]
             /\ \E v : vec' = [vec EXCEPT ![p][Slot(id)] = v]
    <2>1. Own(p)' = Own(p) \ {id} /\ id \in Own(p)
      <3>1. ASSUME NEW i \in Own(p) \ {id} PROVE i \in Own(p)'
        BY <1>3, <3>1 DEF Own, Elsewhere
      <3>2. ASSUME NEW i \in Own(p)' PROVE i \in Own(p) \ {id}
        BY <1>3, <3>2 DEF Own, Elsewhere
      <3>3. id \in Own(p)
        BY <1>3 DEF Own
      <3> QED
        BY <3>1, <3>2, <3>3
    <2>2. \A q \in Clients : Own(q)' \subseteq Own(q)
      BY <1>1, <2>1
    <2>3. Cardinality(Own(p)') = Cardinality(Own(p)) - 1 /\ Cardinality(Own(p)') \in Nat
      BY <2>1, OwnFinite, FS_RemoveElement, FS_CardinalityType
    <2>4. active'[p] = Cardinality(Own(p)') /\ \A q \in Clients : q # p => active'[q] = active[q]
      BY <1>0, <1>3, <2>3 DEF Actives
    <2>5. Actives'
      BY <1>1, <2>4 DEF Actives
    <2>6. Batches' /\ Skew'
      BY <2>2 DEF Batches, BatchesOf, Skew
    <2>7. \A q \in Clients : DOMAIN sreq'[q] \subseteq Nat
      BY <1>0 DEF Elsewhere
    <2>8. active' \in [Clients -> Nat]
      BY <1>0, <1>3, <2>3, <2>4
    <2>9. DOMAIN vec' = Clients /\ \A q \in Clients : DOMAIN vec'[q] = 0 .. BatchSize - 1
      BY <1>3 DEF Shapes
    <2> QED
      BY <2>5, <2>6, <2>7, <2>8, <2>9 DEF Shapes, Elsewhere
  <1> QED
    BY <1>2, <1>3

-----------------------------------------------------------------------------
\* The sets of a pair do not change.
SetsKept(p, id) ==
    /\ Heads(p, id)' = Heads(p, id) /\ Coming(p, id)' = Coming(p, id) /\ To(p, id)' = To(p, id)
    /\ (id < nextId[p])' <=> id < nextId[p]

\* A callback concerns one pair.
LEMMA RequestsKept ==
  ASSUME Requests, NEW p \in Clients, NEW id \in Nat, Elsewhere(p, id),
         \A r \in Clients : \A i \in Nat : (r # p \/ i # id) => SetsKept(r, i),
         PairOf(p, id)'
  PROVE  Requests'
  <1>1. ASSUME NEW r \in Clients, NEW i \in Nat, r # p \/ i # id PROVE PairOf(r, i)'
    <2>1. Live(r, i)' <=> Live(r, i)
      BY <1>1 DEF Elsewhere, Live
    <2>2. Live(r, i) => sreq'[r][i] = sreq[r][i]
      BY <1>1 DEF Elsewhere, Live
    <2>3. PairOf(r, i) /\ SetsKept(r, i)
      BY <1>1 DEF Requests
    <2> QED
      BY <2>1, <2>2, <2>3, PairKept DEF SetsKept
  <1> QED
    BY <1>1 DEF Requests

\* A vector's header arrives, and unless it is announced only, its data.
LEMMA HeaderArrives ==
  ASSUME Daemons = {}, Messages, Once, NEW m \in net, NEW s, NEW p, NEW id, Key(m, s, p, id),
         nextId' = nextId, net' = net \ {m},
         \/ m.proto = "rndv" /\ rx' = rx \cup {m} /\ tx' = tx
         \/ m.proto # "rndv" /\ rx' = rx /\ tx' = tx \cup Sent(m)
  PROVE  /\ Messages' /\ Once'
         /\ \A r \in Clients : \A i \in Nat : (r # p \/ i # id) => SetsKept(r, i)
         /\ Heads(p, id)' = Heads(p, id) \cup {s} /\ To(p, id)' = To(p, id)
         /\ Coming(p, id)' = IF m.proto = "rndv" THEN Coming(p, id) \cup {s} ELSE Coming(p, id)
         /\ s \in Dests(p) /\ s \notin Heads(p, id) /\ s \notin Coming(p, id)
         /\ p \in Clients /\ s \in Clients /\ id \in Nat
  <1>0. /\ p \in Clients /\ s \in Clients /\ id \in Nat /\ s # p /\ id < nextId[s]
        /\ m \in Under /\ s \in Dests(p)
    BY OnlyClients DEF Messages, Key, Under
  <1>1. Under' \subseteq Under /\ Slow' = Slow
    BY DEF Under, Slow, Sent
  <1>2. Messages'
    <2>1. \A x \in rx' : x.proto = "rndv"
      BY DEF Messages
    <2>2. \A x \in tx' : x.proto # "short"
      BY DEF Messages, Sent
    <2> QED
      BY <1>1, <2>1, <2>2 DEF Messages
  <1>3. Once'
    <2>1. net' \cap rx' = {} /\ net' \cap tx' = {} /\ rx' \cap tx' = {}
      BY DEF Once, Sent
    <2> QED
      BY <1>1, <2>1 DEF Once
  <1>4. \A q, r, i : Has(net, q, r, i)' <=> Has(net, q, r, i) /\ ~Key(m, q, r, i)
    <2>1. net \in SUBSET Under
      BY DEF Under
    <2>2. \A q, r, i : Has(net \ {m}, q, r, i) <=> Has(net, q, r, i) /\ ~Key(m, q, r, i)
      BY <1>0, <2>1, HasLess
    <2> QED
      BY <2>2 DEF Has, Key
  <1>5. \A q, r, i : Has(rx, q, r, i)' <=> Has(rx, q, r, i) \/ (m.proto = "rndv" /\ Key(m, q, r, i))
    BY DEF Has, Key
  <1>6. \A q, r, i : Has(Slow, q, r, i)' <=> Has(Slow, q, r, i)
    BY <1>1 DEF Has, Key
  <1>7. \A r, i : To(r, i)' = To(r, i)
    BY <1>6 DEF To, Dests
  <1>8. \A q, r, i : Key(m, q, r, i) <=> (q = s /\ r = p /\ i = id)
    BY DEF Key
  <1>9. \A r, i : (r # p \/ i # id) => Heads(r, i)' = Heads(r, i)
    BY <1>4, <1>8 DEF Heads, Dests
  <1>10. \A r, i : (r # p \/ i # id) => Coming(r, i)' = Coming(r, i)
    BY <1>5, <1>8 DEF Coming, Dests
  <1>11. s \notin Heads(p, id) /\ s \notin Coming(p, id)
    <2>1. Has(net, s, p, id)
      BY DEF Has
    <2>2. ~Has(rx, s, p, id)
      BY DEF Has, Key, Once, Under
    <2> QED
      BY <2>1, <2>2 DEF Heads, Coming
  <1>12. Heads(p, id)' = Heads(p, id) \cup {s}
    <2>1. ASSUME NEW q PROVE q \in Heads(p, id)' <=> q \in Heads(p, id) \cup {s}
      BY <1>0, <1>4, <1>8 DEF Heads, Dests
    <2> QED
      BY <2>1
  <1>13. Coming(p, id)' = IF m.proto = "rndv" THEN Coming(p, id) \cup {s} ELSE Coming(p, id)
    <2>1. ASSUME NEW q, m.proto = "rndv" PROVE q \in Coming(p, id)' <=> q \in Coming(p, id) \cup {s}
      BY <1>0, <1>5, <1>8, <2>1 DEF Coming, Dests
    <2>2. ASSUME NEW q, m.proto # "rndv" PROVE q \in Coming(p, id)' <=> q \in Coming(p, id)
      BY <1>0, <1>5, <1>8, <2>2 DEF Coming, Dests
    <2> QED
      BY <2>1, <2>2
  <1> QED
    BY <1>0, <1>2, <1>3, <1>7, <1>9, <1>10, <1>11, <1>12, <1>13 DEF SetsKept

\* The data of an announced vector arrives.
LEMMA DataArrives ==
  ASSUME Daemons = {}, Messages, Once, NEW m \in rx, NEW s, NEW p, NEW id, Key(m, s, p, id),
         nextId' = nextId, net' = net, rx' = rx \ {m}, tx' = tx \cup {m}
  PROVE  /\ Messages' /\ Once'
         /\ \A r \in Clients : \A i \in Nat : (r # p \/ i # id) => SetsKept(r, i)
         /\ Heads(p, id)' = Heads(p, id) /\ To(p, id)' = To(p, id)
         /\ Coming(p, id)' = Coming(p, id) \ {s}
         /\ s \in Dests(p) /\ s \in Heads(p, id) /\ s \in Coming(p, id)
         /\ p \in Clients /\ s \in Clients /\ id \in Nat
  <1>0. /\ p \in Clients /\ s \in Clients /\ id \in Nat /\ s # p /\ id < nextId[s]
        /\ m \in Under /\ s \in Dests(p) /\ m.proto = "rndv"
    BY OnlyClients DEF Messages, Key, Under
  <1>1. Under' \subseteq Under /\ Slow' = Slow
    BY DEF Under, Slow
  <1>2. Messages'
    BY <1>0, <1>1 DEF Messages
  <1>3. Once'
    <2>1. net' \cap rx' = {} /\ net' \cap tx' = {} /\ rx' \cap tx' = {}
      BY DEF Once
    <2> QED
      BY <1>1, <2>1 DEF Once
  <1>4. \A q, r, i : Has(rx, q, r, i)' <=> Has(rx, q, r, i) /\ ~Key(m, q, r, i)
    <2>1. rx \in SUBSET Under
      BY DEF Under
    <2>2. \A q, r, i : Has(rx \ {m}, q, r, i) <=> Has(rx, q, r, i) /\ ~Key(m, q, r, i)
      BY <1>0, <2>1, HasLess
    <2> QED
      BY <2>2 DEF Has, Key
  <1>5. \A q, r, i : Has(net, q, r, i)' <=> Has(net, q, r, i)
    BY DEF Has, Key
  <1>6. \A q, r, i : Has(Slow, q, r, i)' <=> Has(Slow, q, r, i)
    BY <1>1 DEF Has, Key
  <1>7. \A r, i : To(r, i)' = To(r, i)
    BY <1>6 DEF To, Dests
  <1>8. \A q, r, i : Key(m, q, r, i) <=> (q = s /\ r = p /\ i = id)
    BY DEF Key
  <1>9. \A r, i : Heads(r, i)' = Heads(r, i)
    BY <1>5 DEF Heads, Dests
  <1>10. \A r, i : (r # p \/ i # id) => Coming(r, i)' = Coming(r, i)
    BY <1>4, <1>8 DEF Coming, Dests
  <1>11. s \in Heads(p, id) /\ s \in Coming(p, id)
    <2>1. Has(rx, s, p, id)
      BY DEF Has
    <2>2. ~Has(net, s, p, id)
      BY DEF Has, Key, Once, Under
    <2> QED
      BY <1>0, <2>1, <2>2 DEF Heads, Coming
  <1>12. Coming(p, id)' = Coming(p, id) \ {s}
    <2>1. ASSUME NEW q PROVE q \in Coming(p, id)' <=> q \in Coming(p, id) \ {s}
      BY <1>0, <1>4, <1>8 DEF Coming, Dests
    <2> QED
      BY <2>1
  <1> QED
    BY <1>0, <1>2, <1>3, <1>7, <1>9, <1>10, <1>11, <1>12 DEF SetsKept

\* A send is over.
LEMMA SendEnds ==
  ASSUME Daemons = {}, Messages, Once, NEW m \in tx, NEW p, NEW s, NEW id, Key(m, p, s, id),
         nextId' = nextId, net' = net, rx' = rx, tx' = tx \ {m}
  PROVE  /\ Messages' /\ Once'
         /\ \A r \in Clients : \A i \in Nat : (r # p \/ i # id) => SetsKept(r, i)
         /\ Heads(p, id)' = Heads(p, id) /\ To(p, id)' = To(p, id) \ {s}
         /\ Coming(p, id)' = Coming(p, id)
         /\ s \in To(p, id) /\ id < nextId[p]
         /\ p \in Clients /\ s \in Clients /\ id \in Nat
  <1>0. /\ p \in Clients /\ s \in Clients /\ id \in Nat /\ s # p /\ id < nextId[p]
        /\ m \in Under /\ s \in Dests(p) /\ m \in Slow
    BY OnlyClients DEF Messages, Key, Under, Slow
  <1>1. Under' \subseteq Under /\ Slow' = Slow \ {m}
    BY DEF Under, Slow, Once
  <1>2. Messages'
    BY <1>0, <1>1 DEF Messages
  <1>3. Once'
    <2>1. net' \cap rx' = {} /\ net' \cap tx' = {} /\ rx' \cap tx' = {}
      BY DEF Once
    <2> QED
      BY <1>1, <2>1 DEF Once
  <1>4. \A q, r, i : Has(Slow, q, r, i)' <=> Has(Slow, q, r, i) /\ ~Key(m, q, r, i)
    <2>1. Slow \in SUBSET Under
      BY DEF Slow
    <2>2. \A q, r, i : Has(Slow \ {m}, q, r, i) <=> Has(Slow, q, r, i) /\ ~Key(m, q, r, i)
      BY <1>0, <2>1, HasLess
    <2>3. \A q, r, i : Has(Slow, q, r, i)' <=> Has(Slow \ {m}, q, r, i)
      BY <1>1, Zenon DEF Has, Key
    <2> QED
      BY <2>2, <2>3
  <1>5. \A q, r, i : (Has(net, q, r, i)' <=> Has(net, q, r, i)) /\ (Has(rx, q, r, i)' <=> Has(rx, q, r, i))
    BY DEF Has, Key
  <1>8. \A q, r, i : Key(m, q, r, i) <=> (q = p /\ r = s /\ i = id)
    BY DEF Key
  <1>9. \A r, i : Heads(r, i)' = Heads(r, i) /\ Coming(r, i)' = Coming(r, i)
    BY <1>5 DEF Heads, Coming, Dests
  <1>10. \A r, i : (r # p \/ i # id) => To(r, i)' = To(r, i)
    BY <1>4, <1>8 DEF To, Dests
  <1>11. s \in To(p, id)
    BY <1>0 DEF To, Has
  <1>12. To(p, id)' = To(p, id) \ {s}
    <2>1. ASSUME NEW q PROVE q \in To(p, id)' <=> q \in To(p, id) \ {s}
      BY <1>0, <1>4, <1>8 DEF To, Dests
    <2> QED
      BY <2>1
  <1> QED
    BY <1>0, <1>2, <1>3, <1>9, <1>10, <1>11, <1>12 DEF SetsKept

LEMMA OwedArrived ==
  ASSUME Daemons = {}, NEW p \in Clients, NEW id \in Nat, NEW s \in Dests(p), nextId' = nextId,
         To(p, id)' = To(p, id), s \notin Got(p, id), Got(p, id)' = Got(p, id) \cup {s}
  PROVE  Owed(p, id)' = Owed(p, id) - 1
  <1>1. IsFiniteSet(Dests(p)) /\ To(p, id) \in SUBSET Dests(p) /\ Got(p, id) \in SUBSET Dests(p)
    BY PairSets
  <1>2. /\ LeftAfter(Dests(p), To(p, id), Got(p, id) \cup {s}) = LeftAfter(Dests(p), To(p, id), Got(p, id)) - 1
        /\ LeftBefore(Dests(p), Got(p, id) \cup {s}) = LeftBefore(Dests(p), Got(p, id)) - 1
    BY <1>1, LeftGot
  <1>3. Owed(p, id)' = IF id < nextId[p] THEN LeftAfter(Dests(p), To(p, id), Got(p, id) \cup {s})
                                         ELSE LeftBefore(Dests(p), Got(p, id) \cup {s})
    BY DEF Owed, LeftAfter, LeftBefore, Dests
  <1> QED
    BY <1>2, <1>3 DEF Owed

LEMMA OwedSent ==
  ASSUME Daemons = {}, NEW p \in Clients, NEW id \in Nat, NEW s \in To(p, id), nextId' = nextId,
         id < nextId[p], To(p, id)' = To(p, id) \ {s}, Got(p, id)' = Got(p, id)
  PROVE  Owed(p, id)' = Owed(p, id) - 1
  <1>1. IsFiniteSet(Dests(p)) /\ To(p, id) \in SUBSET Dests(p) /\ Got(p, id) \in SUBSET Dests(p)
    BY PairSets
  <1>2. LeftAfter(Dests(p), To(p, id) \ {s}, Got(p, id)) = LeftAfter(Dests(p), To(p, id), Got(p, id)) - 1
    BY <1>1, LeftSent
  <1>3. Owed(p, id)' = LeftAfter(Dests(p), To(p, id) \ {s}, Got(p, id))
    BY DEF Owed, LeftAfter, Dests
  <1> QED
    BY <1>2, <1>3 DEF Owed

\* What a step writes to the clients' vectors: the slot of an operation that is over,
\* or the vectors of a client with no operation.
WroteAt(p, i) ==
    /\ i \notin DOMAIN sreq'[p] /\ i < nextId'[p] /\ FirstIdOf(batch[p]) <= i /\ batch' = batch
    /\ \E v : vec' = [vec EXCEPT ![p][Slot(i)] = v]
Writes ==
    \/ vec' = vec
    \/ \E p \in Clients, i \in Nat : WroteAt(p, i)
    \/ \E p \in Clients : Own(p) = {} /\ \A q \in Clients : q # p => vec'[q] = vec[q]

\* A callback that counts one.
LEMMA CallbackIInv ==
  ASSUME Daemons = {}, IInv, NEW p \in Clients, NEW id \in Nat, NEW sr, DOMAIN sr = Fields,
         sr.ops = Owed(p, id), Owed(p, id)' = Owed(p, id) - 1, SeenBy(sr) = Heads(p, id)',
         id < nextId[p] \/ Heads(p, id)' # {}, Counted(p, id, sr, active),
         Live(p, id) \/ ~(id < nextId[p]),
         nextId' = nextId, batch' = batch, pc' = pc, Messages', Once',
         \A r \in Clients : \A i \in Nat : (r # p \/ i # id) => SetsKept(r, i)
  PROVE  IInv' /\ Writes
  <1>1. Owed(p, id)' \in Nat /\ Owed(p, id) \in Nat /\ (Owed(p, id)' = 0 => id < nextId[p])
    BY PairSets, PairSetsNext
  <1>2. PairOf(p, id)'
    BY <1>1, PairCounted
  <1>3. Elsewhere(p, id)
    BY DEF Counted
  <1>4. Requests'
    BY <1>2, <1>3, RequestsKept DEF IInv
  <1>5. \/ id \in DOMAIN sreq'[p] /\ active' = active /\ vec' = vec
        \/ /\ id \notin DOMAIN sreq'[p] /\ id < nextId[p] /\ active' = [active EXCEPT ![p] = @ - 1]
           /\ \E v : vec' = [vec EXCEPT ![p][Slot(id)] = v]
    BY <1>1 DEF Counted
  <1>6. Shapes' /\ Actives' /\ Batches' /\ Skew'
    BY <1>3, <1>5, CountsKept DEF IInv, Live
  <1>7. ASSUME id < nextId[p] PROVE FirstIdOf(batch[p]) <= id
    BY <1>7 DEF IInv, Batches, BatchesOf, Own, Live
  <1>8. Writes
    BY <1>5, <1>7 DEF Writes, WroteAt
  <1> QED
    BY <1>4, <1>6, <1>8 DEF IInv

\* A message that is not yet seen is one its receiver still waits for.
LEMMA StillAwaited ==
  ASSUME Daemons = {}, IInv, NEW m \in net \cup rx, NEW s, NEW p, NEW id, Key(m, s, p, id)
  PROVE  /\ p \in Clients /\ s \in Clients /\ id \in Nat
         /\ s \in Dests(p) \ Got(p, id) /\ (Live(p, id) \/ ~(id < nextId[p])) /\ Owed(p, id) # 0
  <1>1. p \in Clients /\ s \in Clients /\ id \in Nat /\ s \in Dests(p)
    BY OnlyClients DEF IInv, Messages, Key, Under
  <1>2. s \notin Got(p, id)
    BY DEF Got, Heads, Coming, Has
  <1>3. Owed(p, id) # 0
    BY <1>1, <1>2, PairSets
  <1>4. Live(p, id) \/ ~(id < nextId[p])
    BY <1>1, <1>3 DEF IInv, Requests, PairOf, FreeOf
  <1> QED
    BY <1>1, <1>2, <1>3, <1>4

LEMMA GatherArriveIInv ==
  ASSUME Daemons = {}, IInv, NEW m \in net, GatherArrive(m) PROVE IInv' /\ Writes
  <1>p. PICK s, p, id : Key(m, s, p, id)
    BY DEF Key
  <1>q. m.src = s /\ m.dst = p /\ m.id = id
    BY <1>p DEF Key
  <1>1. /\ p \in Clients /\ s \in Clients /\ id \in Nat
        /\ s \in Dests(p) \ Got(p, id) /\ (Live(p, id) \/ ~(id < nextId[p])) /\ Owed(p, id) # 0
    BY <1>p, StillAwaited
  <1> DEFINE sr0 == Get(p, id, FALSE)
             sr == IF sr0.first = NoPeer THEN [sr0 EXCEPT !.first = s]
                                         ELSE [sr0 EXCEPT !.others = @ \cup {s}]
             u == [used EXCEPT ![p] = @ + 1]
  <1>2. /\ \/ /\ m.proto = "rndv" /\ sreq' = Put(p, id, sr) /\ net' = net \ {m} /\ rx' = rx \cup {m}
              /\ UNCHANGED <<active, vec, tx>>
           \/ /\ m.proto # "rndv" /\ rx' = rx
              /\ Gathered(p, id, s, sr, Data(m), net \ {m}, tx \cup Sent(m), u)
        /\ nextId' = nextId /\ batch' = batch /\ pc' = pc
    BY <1>q DEF GatherArrive
  <1>3. DOMAIN sr0 = Fields /\ sr0.ops = Owed(p, id) /\ SeenBy(sr0) = Heads(p, id)
    BY <1>1, GetIs DEF IInv, Requests
  <1> HIDE DEF sr0
  <1>4. DOMAIN sr = Fields /\ sr.ops = Owed(p, id) /\ SeenBy(sr) = Heads(p, id) \cup {s}
    <2>0. s # NoPeer
      BY <1>1, OnlyClients
    <2>1. CASE sr0.first = NoPeer
      <3>1. DOMAIN sr = Fields /\ sr.ops = sr0.ops /\ sr.first = s /\ sr.others = sr0.others
        BY <1>3, <2>1 DEF Fields
      <3> QED
        BY <1>3, <2>0, <2>1, <3>1 DEF SeenBy
    <2>2. CASE sr0.first # NoPeer
      <3>1. DOMAIN sr = Fields /\ sr.ops = sr0.ops /\ sr.first = sr0.first /\ sr.others = sr0.others \cup {s}
        BY <1>3, <2>2 DEF Fields
      <3> QED
        BY <1>3, <2>0, <2>2, <3>1 DEF SeenBy
    <2> QED
      BY <2>1, <2>2
  <1> HIDE DEF sr, u
  <1>s. DOMAIN sreq = Clients
    BY DEF IInv, Shapes
  <1>5. CASE m.proto = "rndv"
    <2>1. /\ sreq' = Put(p, id, sr) /\ net' = net \ {m} /\ rx' = rx \cup {m}
          /\ active' = active /\ vec' = vec /\ tx' = tx
      BY <1>2, <1>5
    <2>2. /\ Messages' /\ Once'
          /\ \A r \in Clients : \A i \in Nat : (r # p \/ i # id) => SetsKept(r, i)
          /\ Heads(p, id)' = Heads(p, id) \cup {s} /\ To(p, id)' = To(p, id)
          /\ Coming(p, id)' = Coming(p, id) \cup {s}
          /\ s \notin Heads(p, id)
      BY <1>2, <1>5, <1>p, <2>1, HeaderArrives DEF IInv
    <2>3. Got(p, id)' = Got(p, id)
      BY <2>2 DEF Got
    <2>4. Owed(p, id)' = Owed(p, id)
      BY <1>2, <2>2, <2>3 DEF Owed
    <2>5. Elsewhere(p, id) /\ id \in DOMAIN sreq'[p] /\ sreq'[p][id] = sr
      BY <1>1, <1>s, <2>1, PutEffect
    <2>6. PairOf(p, id)'
      BY <1>1, <1>4, <2>2, <2>4, <2>5 DEF PairOf, Live, HeldOf
    <2>7. Requests'
      BY <1>1, <1>2, <2>2, <2>5, <2>6, RequestsKept DEF IInv
    <2>8. Shapes' /\ Actives' /\ Batches' /\ Skew'
      BY <1>1, <1>2, <2>1, <2>5, CountsKept DEF IInv, Live
    <2> QED
      BY <2>1, <2>2, <2>7, <2>8 DEF IInv, Writes
  <1>6. CASE m.proto # "rndv"
    <2>1. rx' = rx /\ Gathered(p, id, s, sr, Data(m), net \ {m}, tx \cup Sent(m), u)
      BY <1>2, <1>6
    <2>r. /\ net' = net \ {m} /\ tx' = tx \cup Sent(m)
          /\ \E r : DOMAIN r = Fields /\ r.ops = sr.ops /\ SeenBy(r) = SeenBy(sr) /\ Counted(p, id, r, active)
      BY <1>1, <1>4, <1>s, <2>1, GatheredEffect
    <2>p. PICK r : DOMAIN r = Fields /\ r.ops = sr.ops /\ SeenBy(r) = SeenBy(sr) /\ Counted(p, id, r, active)
      BY <2>r
    <2>2. /\ Messages' /\ Once'
          /\ \A x \in Clients : \A i \in Nat : (x # p \/ i # id) => SetsKept(x, i)
          /\ Heads(p, id)' = Heads(p, id) \cup {s} /\ To(p, id)' = To(p, id)
          /\ Coming(p, id)' = Coming(p, id)
          /\ s \notin Heads(p, id) /\ s \notin Coming(p, id)
      BY <1>2, <1>6, <1>p, <2>1, <2>r, HeaderArrives DEF IInv
    <2>3. Got(p, id)' = Got(p, id) \cup {s}
      BY <2>2 DEF Got
    <2>4. Owed(p, id)' = Owed(p, id) - 1
      BY <1>1, <1>2, <2>2, <2>3, OwedArrived
    <2>5. Heads(p, id)' # {}
      BY <2>2
    <2>6. r.ops = Owed(p, id) /\ SeenBy(r) = Heads(p, id)'
      BY <1>4, <2>p, <2>2
    <2> QED
      BY <1>1, <1>2, <2>p, <2>2, <2>4, <2>5, <2>6, CallbackIInv
  <1> QED
    BY <1>5, <1>6

LEMMA GatherDataIInv ==
  ASSUME Daemons = {}, IInv, NEW m \in rx, GatherData(m) PROVE IInv' /\ Writes
  <1>p. PICK s, p, id : Key(m, s, p, id)
    BY DEF Key
  <1>q. m.src = s /\ m.dst = p /\ m.id = id
    BY <1>p DEF Key
  <1>1. /\ p \in Clients /\ s \in Clients /\ id \in Nat
        /\ s \in Dests(p) \ Got(p, id) /\ (Live(p, id) \/ ~(id < nextId[p])) /\ Owed(p, id) # 0
    BY <1>p, StillAwaited
  <1>2. /\ rx' = rx \ {m} /\ nextId' = nextId /\ batch' = batch /\ pc' = pc
        /\ Gathered(p, id, s, sreq[p][id], Data(m), net, tx \cup {m}, used)
    BY <1>q DEF GatherData
  <1>h. s \in Heads(p, id)
    <2>1. ~Has(net, s, p, id) /\ id < nextId[s]
      BY <1>p DEF IInv, Messages, Once, Has, Key, Under
    <2> QED
      BY <1>1, <2>1 DEF Heads
  <1>3. /\ Live(p, id) /\ DOMAIN sreq[p][id] = Fields /\ sreq[p][id].ops = Owed(p, id)
        /\ SeenBy(sreq[p][id]) = Heads(p, id)
    BY <1>1, <1>h DEF IInv, Requests, PairOf, HeldOf, FreeOf
  <1>s. DOMAIN sreq = Clients
    BY DEF IInv, Shapes
  <1>r. /\ net' = net /\ tx' = tx \cup {m}
        /\ \E r : DOMAIN r = Fields /\ r.ops = sreq[p][id].ops /\ SeenBy(r) = SeenBy(sreq[p][id])
                  /\ Counted(p, id, r, active)
    BY <1>1, <1>2, <1>3, <1>s, GatheredEffect
  <1>t. PICK r : DOMAIN r = Fields /\ r.ops = sreq[p][id].ops /\ SeenBy(r) = SeenBy(sreq[p][id])
                 /\ Counted(p, id, r, active)
    BY <1>r
  <1>4. /\ Messages' /\ Once'
        /\ \A x \in Clients : \A i \in Nat : (x # p \/ i # id) => SetsKept(x, i)
        /\ Heads(p, id)' = Heads(p, id) /\ To(p, id)' = To(p, id)
        /\ Coming(p, id)' = Coming(p, id) \ {s}
    BY <1>2, <1>p, <1>r, DataArrives DEF IInv
  <1>5. Got(p, id)' = Got(p, id) \cup {s}
    BY <1>4, <1>h DEF Got
  <1>6. Owed(p, id)' = Owed(p, id) - 1
    BY <1>1, <1>2, <1>4, <1>5, OwedArrived
  <1>7. Heads(p, id)' # {} /\ r.ops = Owed(p, id) /\ SeenBy(r) = Heads(p, id)'
    BY <1>h, <1>3, <1>t, <1>4
  <1> QED
    BY <1>1, <1>2, <1>t, <1>4, <1>6, <1>7, CallbackIInv

LEMMA ScatterSentIInv ==
  ASSUME Daemons = {}, IInv, NEW m \in tx, ScatterSent(m) PROVE IInv' /\ Writes
  <1>p. PICK p, s, id : Key(m, p, s, id)
    BY DEF Key
  <1>q. m.src = p /\ m.dst = s /\ m.id = id
    BY <1>p DEF Key
  <1>1. p \in Clients /\ id \in Nat /\ DOMAIN sreq = Clients
    BY <1>q DEF IInv, Messages, Under, Shapes
  <1>2. /\ rx' = rx /\ nextId' = nextId /\ batch' = batch /\ pc' = pc
        /\ CompleteOperation(p, id, sreq[p][id], net, tx \ {m}, used, active)
    BY <1>q DEF ScatterSent
  <1>3. net' = net /\ tx' = tx \ {m} /\ Counted(p, id, sreq[p][id], active)
    BY <1>1, <1>2, CompleteEffect
  <1>4. /\ Messages' /\ Once'
        /\ \A x \in Clients : \A i \in Nat : (x # p \/ i # id) => SetsKept(x, i)
        /\ Heads(p, id)' = Heads(p, id) /\ To(p, id)' = To(p, id) \ {s}
        /\ Coming(p, id)' = Coming(p, id)
        /\ s \in To(p, id) /\ id < nextId[p]
    BY <1>2, <1>p, <1>3, SendEnds DEF IInv
  <1>5. Owed(p, id)' = Owed(p, id) - 1
    BY <1>1, <1>2, <1>4, OwedSent DEF Got
  <1>6. Owed(p, id) # 0
    BY <1>1, <1>4, PairSets
  <1>7. /\ Live(p, id) /\ DOMAIN sreq[p][id] = Fields /\ sreq[p][id].ops = Owed(p, id)
        /\ SeenBy(sreq[p][id]) = Heads(p, id)'
    BY <1>1, <1>4, <1>6 DEF IInv, Requests, PairOf, HeldOf, FreeOf
  <1> QED
    BY <1>1, <1>2, <1>3, <1>4, <1>5, <1>7, CallbackIInv

-----------------------------------------------------------------------------
\* The messages of a scatter.
New(c, id, proto, val) == {Msg("op", c, q, id, proto[q], val) : q \in Dests(c)}

LEMMA NewAre ==
  ASSUME NEW c, NEW id, NEW proto, NEW val, NEW x \in New(c, id, proto, val)
  PROVE  x.kind = "op" /\ x.src = c /\ x.dst \in Dests(c) /\ x.id = id /\ x.proto = proto[x.dst]
  BY DEF New, Msg

LEMMA NewHas ==
  ASSUME NEW c, NEW id, NEW proto, NEW val, NEW q \in Dests(c)
  PROVE  \E x \in New(c, id, proto, val) :
            x.src = c /\ x.dst = q /\ x.id = id /\ x.proto = proto[q]
  <1> DEFINE x == Msg("op", c, q, id, proto[q], val)
  <1>1. x \in New(c, id, proto, val)
    BY DEF New
  <1>2. x.src = c /\ x.dst = q /\ x.id = id /\ x.proto = proto[q]
    BY DEF Msg
  <1> QED
    BY <1>1, <1>2

LEMMA NewOnce ==
  ASSUME NEW c, NEW id, NEW proto, NEW val,
         NEW x \in New(c, id, proto, val), NEW y \in New(c, id, proto, val), x.dst = y.dst
  PROVE  x = y
  <1>1. PICK q \in Dests(c) : x = Msg("op", c, q, id, proto[q], val)
    BY DEF New
  <1>2. PICK r \in Dests(c) : y = Msg("op", c, r, id, proto[r], val)
    BY DEF New
  <1>3. x.dst = q /\ y.dst = r
    BY <1>1, <1>2 DEF Msg
  <1> QED
    BY <1>1, <1>2, <1>3

\* A client's vector leaves for every other client.
LEMMA VectorLeaves ==
  ASSUME Daemons = {}, Shapes, Messages, Once, NEW c \in Clients, NEW id \in Nat, id = nextId[c],
         NEW proto, NEW val, nextId' = [nextId EXCEPT ![c] = @ + 1],
         net' = net \cup New(c, id, proto, val), rx' = rx, tx' = tx
  PROVE  /\ Messages' /\ Once'
         /\ \A r \in Clients : \A i \in Nat : (r # c \/ i # id) => SetsKept(r, i)
         /\ Heads(c, id)' = Heads(c, id) /\ Coming(c, id)' = Coming(c, id)
         /\ To(c, id)' = Dests(c) \ Short(Dests(c), proto)
  <1> DEFINE N == New(c, id, proto, val)
  <1>n. \A x \in N : x.kind = "op" /\ x.src = c /\ x.dst \in Dests(c) /\ x.id = id /\ x.proto = proto[x.dst]
    BY NewAre
  <1>h. \A q \in Dests(c) : \E x \in N : x.src = c /\ x.dst = q /\ x.id = id /\ x.proto = proto[q]
    BY NewHas
  <1>o. \A x, y \in N : x.dst = y.dst => x = y
    BY NewOnce
  <1> HIDE DEF N
  <1>u. net' = net \cup N /\ Under' = Under \cup N
    BY DEF N, Under
  <1>d. \A r : Dests(r) = Clients \ {r}
    BY OnlyClients
  <1>i. /\ nextId'[c] = id + 1 /\ nextId[c] = id
        /\ \A r \in Clients : nextId[r] \in Nat /\ nextId'[r] \in Nat
        /\ \A r \in Clients : r # c => nextId'[r] = nextId[r]
    BY DEF Shapes
  <1>b. \A r \in Clients : \A i \in Nat : (r # c \/ i # id) => (i < nextId'[r] <=> i < nextId[r])
    BY <1>i
  <1>a. \A x \in Under : ~(x.src = c /\ x.id = id)
    <2> SUFFICES ASSUME NEW x \in Under, x.src = c, x.id = id PROVE FALSE
      OBVIOUS
    <2>1. x.id < nextId[x.src]
      BY DEF Messages
    <2> QED
      BY <2>1, <1>i
  <1>1. Messages'
    <2>1. ASSUME NEW x \in Under
          PROVE  /\ x.kind = "op" /\ x.src \in Clients /\ x.dst \in Clients
                 /\ x.src # x.dst /\ x.id \in Nat /\ x.id < nextId'[x.src]
      <3>1. /\ x.kind = "op" /\ x.src \in Clients /\ x.dst \in Clients
            /\ x.src # x.dst /\ x.id \in Nat /\ x.id < nextId[x.src]
        BY DEF Messages
      <3>2. PICK y \in Clients, j \in Nat : y = x.src /\ j = x.id
        BY <3>1
      <3>3. j < nextId'[y]
        BY <3>1, <3>2, <1>i
      <3> QED
        BY <3>1, <3>2, <3>3
    <2>2. ASSUME NEW x \in N
          PROVE  /\ x.kind = "op" /\ x.src \in Clients /\ x.dst \in Clients
                 /\ x.src # x.dst /\ x.id \in Nat /\ x.id < nextId'[x.src]
      BY <1>n, <1>d, <1>i
    <2> QED
      BY <1>u, <2>1, <2>2 DEF Messages
  <1>2. Once'
    <2>1. \A x, y \in Under' : (x.src = y.src /\ x.dst = y.dst /\ x.id = y.id) => x = y
      <3>1. \A x, y \in Under : (x.src = y.src /\ x.dst = y.dst /\ x.id = y.id) => x = y
        BY DEF Once
      <3> QED
        BY <1>u, <1>n, <1>o, <1>a, <3>1
    <2>2. N \cap rx = {} /\ N \cap tx = {}
      BY <1>n, <1>a DEF Under
    <2>3. net' \cap rx' = {} /\ net' \cap tx' = {} /\ rx' \cap tx' = {}
      BY <1>u, <2>2 DEF Once
    <2> QED
      BY <2>1, <2>3 DEF Once
  <1>3. \A r, i : Coming(r, i)' = Coming(r, i)
    BY DEF Coming, Has, Key, Dests
  <1>4. \A q, r, i : (q # c \/ i # id) => (Has(net, q, r, i)' <=> Has(net, q, r, i))
    BY <1>u, <1>n DEF Has, Key
  <1>5. \A r \in Dests(c) : Has(net, c, r, id)'
    BY <1>u, <1>h DEF Has, Key
  <1>6. ASSUME NEW r \in Clients, NEW i \in Nat PROVE Heads(r, i)' = Heads(r, i)
    <2>1. ASSUME NEW q \in Dests(r), q # c \/ i # id
          PROVE  (i < nextId'[q] /\ ~Has(net, q, r, i)') <=> (i < nextId[q] /\ ~Has(net, q, r, i))
      <3>1. q \in Clients
        BY <1>d
      <3> QED
        BY <2>1, <3>1, <1>b, <1>4
    <2>2. ASSUME NEW q \in Dests(r), q = c, i = id
          PROVE  (i < nextId'[q] /\ ~Has(net, q, r, i)') <=> (i < nextId[q] /\ ~Has(net, q, r, i))
      <3>1. r \in Dests(c)
        BY <1>d, <2>2
      <3>2. Has(net, q, r, i)'
        BY <2>2, <3>1, <1>5
      <3>3. ~(i < nextId[q])
        BY <2>2, <1>i
      <3> QED
        BY <3>2, <3>3
    <2>3. \A q \in Dests(r) : (i < nextId'[q] /\ ~Has(net, q, r, i)') <=> (i < nextId[q] /\ ~Has(net, q, r, i))
      BY <2>1, <2>2
    <2> QED
      BY <2>3 DEF Heads, Dests
  <1>7. Slow' = Slow \cup {x \in N : x.proto # "short"}
    BY <1>u DEF Slow
  <1>8. ASSUME NEW r \in Clients, NEW i \in Nat, r # c \/ i # id PROVE To(r, i)' = To(r, i)
    <2>1. \A q : Has(Slow, r, q, i)' <=> Has(Slow, r, q, i)
      BY <1>7, <1>8, <1>n DEF Has, Key
    <2> QED
      BY <2>1 DEF To, Dests
  <1>9. To(c, id)' = Dests(c) \ Short(Dests(c), proto)
    <2>1. \A x \in Slow : ~(x.src = c /\ x.id = id)
      BY <1>a DEF Slow
    <2>2. ASSUME NEW q \in Dests(c) PROVE Has(Slow, c, q, id)' <=> proto[q] # "short"
      <3>1. PICK x \in N : x.src = c /\ x.dst = q /\ x.id = id /\ x.proto = proto[q]
        BY <1>h
      <3>2. ASSUME proto[q] # "short" PROVE Has(Slow, c, q, id)'
        BY <1>7, <3>1, <3>2 DEF Has, Key
      <3>3. ASSUME Has(Slow, c, q, id)' PROVE proto[q] # "short"
        <4>1. PICK y \in Slow' : y.src = c /\ y.dst = q /\ y.id = id
          BY <3>3 DEF Has, Key
        <4>2. y \in N /\ y.proto # "short"
          BY <1>7, <2>1, <4>1
        <4> QED
          BY <1>n, <4>1, <4>2
      <3> QED
        BY <3>2, <3>3
    <2> QED
      BY <2>2 DEF To, Short, Dests
  <1> QED
    BY <1>1, <1>2, <1>3, <1>6, <1>8, <1>9, <1>b DEF SetsKept

\* An operation is under way, or is already over.
Submitted(c, id, a) ==
    \/ id \in DOMAIN sreq'[c] /\ active' = a /\ vec' = vec
    \/ /\ id \notin DOMAIN sreq'[c] /\ active' = [a EXCEPT ![c] = @ - 1]
       /\ \E v : vec' = [vec EXCEPT ![c][Slot(id)] = v]

\* What a submitted operation does to the counters of its client.
LEMMA SubmitCounts ==
  ASSUME Shapes, Actives, Batches, Skew, NEW c \in Clients, NEW id \in Nat, id = nextId[c],
         Elsewhere(c, id), pc[c] = "submit", batch' = batch,
         nextId' = [nextId EXCEPT ![c] = @ + 1],
         pc' = IF id = LastIdOf(batch[c]) THEN [pc EXCEPT ![c] = "wait"] ELSE pc,
         NEW a, a = [active EXCEPT ![c] = @ + 1],
         Submitted(c, id, a)
  PROVE  Shapes' /\ Actives' /\ Batches' /\ Skew'
  <1>0. /\ \A q \in Clients : DOMAIN sreq[q] \subseteq Nat
        /\ active \in [Clients -> Nat] /\ DOMAIN sreq = Clients
        /\ nextId \in [Clients -> Nat] /\ batch \in [Clients -> Nat]
        /\ pc \in [Clients -> {"submit", "wait", "done"}]
    BY DEF Shapes
  <1>1. \A q \in Clients : q # c => Own(q)' = Own(q) /\ nextId'[q] = nextId[q] /\ pc'[q] = pc[q]
    <2>1. \A q \in Clients : q # c => nextId'[q] = nextId[q] /\ pc'[q] = pc[q]
      BY <1>0
    <2> QED
      BY <2>1 DEF Elsewhere, Own
  <1>2. nextId'[c] = id + 1
    BY <1>0
  <1>3. \A j \in Own(c) : j \in Nat /\ j < id /\ j # id
    BY <1>0 DEF Own
  <1>4. \A j \in DOMAIN sreq[c] : j # id => (j < id + 1 <=> j < id)
    BY <1>0
  <1>5. Own(c)' = IF id \in DOMAIN sreq'[c] THEN Own(c) \cup {id} ELSE Own(c)
    <2>1. ASSUME NEW j, j # id PROVE j \in Own(c)' <=> j \in Own(c)
      <3>1. j \in DOMAIN sreq'[c] <=> j \in DOMAIN sreq[c]
        BY <2>1 DEF Elsewhere
      <3> QED
        BY <1>2, <1>4, <2>1, <3>1 DEF Own
    <2>2. id \in Own(c)' <=> id \in DOMAIN sreq'[c]
      BY <1>2 DEF Own
    <2>3. id \notin Own(c)
      BY <1>3
    <2>4. CASE id \in DOMAIN sreq'[c]
      <3>1. \A j : j \in Own(c)' <=> j \in Own(c) \cup {id}
        BY <2>1, <2>2, <2>4
      <3>2. Own(c)' = Own(c) \cup {id}
        BY <3>1
      <3> QED
        BY <2>4, <3>2
    <2>5. CASE id \notin DOMAIN sreq'[c]
      <3>1. \A j : j \in Own(c)' <=> j \in Own(c)
        BY <2>1, <2>2, <2>3, <2>5
      <3>2. Own(c)' = Own(c)
        BY <3>1 DEF Own
      <3> QED
        BY <2>5, <3>2
    <2> QED
      BY <2>4, <2>5
  <1>6. IsFiniteSet(Own(c)) /\ active[c] = Cardinality(Own(c)) /\ active[c] \in Nat /\ id \notin Own(c)
    BY <1>0, <1>3, OwnFinite DEF Actives
  <1>7. active'[c] = Cardinality(Own(c)')
    <2>1. CASE id \in DOMAIN sreq'[c]
      <3>1. active'[c] = active[c] + 1
        BY <1>0, <2>1 DEF Submitted
      <3>2. Own(c)' = Own(c) \cup {id}
        BY <1>5, <2>1
      <3>3. Cardinality(Own(c) \cup {id}) = Cardinality(Own(c)) + 1
        BY <1>6, FS_AddElement
      <3> QED
        BY <1>6, <3>1, <3>2, <3>3
    <2>2. CASE id \notin DOMAIN sreq'[c]
      BY <1>0, <1>5, <1>6, <2>2 DEF Submitted
    <2> QED
      BY <2>1, <2>2
  <1>8. active' \in [Clients -> Nat] /\ \A q \in Clients : q # c => active'[q] = active[q]
    <2>1. a \in [Clients -> Nat] /\ a[c] = active[c] + 1 /\ \A q \in Clients : q # c => a[q] = active[q]
      BY <1>0, <1>6
    <2>2. CASE active' = a
      BY <2>1, <2>2
    <2>3. CASE active' = [a EXCEPT ![c] = @ - 1]
      BY <2>1, <2>3, <1>6
    <2> QED
      BY <2>2, <2>3 DEF Submitted
  <1>9. Actives'
    <2>1. ASSUME NEW q \in Clients PROVE (active[q] = Cardinality(Own(q)))'
      BY <1>1, <1>7, <1>8 DEF Actives
    <2> QED
      BY <2>1 DEF Actives
  <1>10. BatchesOf(c)'
    <2>1. /\ FirstIdOf(batch[c]) <= id /\ id <= LastIdOf(batch[c])
          /\ \A j \in Own(c) : FirstIdOf(batch[c]) <= j
      BY DEF Batches, BatchesOf
    <2>2. LastIdOf(batch[c]) \in Nat /\ FirstIdOf(batch[c]) \in Nat
      BY <1>0, LastIds
    <2>3. FirstIdOf(batch[c])' = FirstIdOf(batch[c]) /\ LastIdOf(batch[c])' = LastIdOf(batch[c])
      BY DEF FirstIdOf, LastIdOf
    <2>4. \A j \in Own(c)' : FirstIdOf(batch[c]) <= j
      BY <1>5, <2>1
    <2>5. IF pc'[c] = "submit" THEN nextId'[c] <= LastIdOf(batch[c]) ELSE nextId'[c] = LastIdOf(batch[c]) + 1
      <3>1. CASE id = LastIdOf(batch[c])
        BY <1>0, <1>2, <3>1, <2>2
      <3>2. CASE id # LastIdOf(batch[c])
        BY <1>0, <1>2, <3>2, <2>1, <2>2
      <3> QED
        BY <3>1, <3>2
    <2>6. FirstIdOf(batch[c]) <= nextId'[c]
      BY <1>2, <2>1, <2>2
    <2> QED
      BY <2>3, <2>4, <2>5, <2>6 DEF BatchesOf
  <1>11. \A q \in Clients : q # c => BatchesOf(q)'
    <2> SUFFICES ASSUME NEW q \in Clients, q # c PROVE BatchesOf(q)'
      OBVIOUS
    <2>1. FirstIdOf(batch[q])' = FirstIdOf(batch[q]) /\ LastIdOf(batch[q])' = LastIdOf(batch[q])
      BY DEF FirstIdOf, LastIdOf
    <2> QED
      BY <1>1, <2>1 DEF Batches, BatchesOf
  <1>12. Batches' /\ Skew'
    BY <1>10, <1>11 DEF Batches, Skew
  <1>13. \A q \in Clients : DOMAIN sreq'[q] \subseteq Nat
    BY <1>0 DEF Elsewhere
  <1>14. DOMAIN vec' = Clients /\ \A q \in Clients : DOMAIN vec'[q] = 0 .. BatchSize - 1
    BY DEF Shapes, Submitted
  <1>15. nextId' \in [Clients -> Nat] /\ pc' \in [Clients -> {"submit", "wait", "done"}]
    BY <1>0
  <1> QED
    BY <1>0, <1>8, <1>9, <1>12, <1>13, <1>14, <1>15 DEF Shapes, Elsewhere

LEMMA SubmitOperationIInv ==
  ASSUME Daemons = {}, IInv, NEW c \in Clients, SubmitOperation(c) PROVE IInv' /\ Writes
  <1>p. PICK id : id = nextId[c]
    OBVIOUS
  <1>0. id \in Nat /\ DOMAIN sreq = Clients /\ ~(id < nextId[c])
    BY <1>p DEF IInv, Shapes
  <1> DEFINE g == Get(c, id, TRUE)
             sr == Adopt(g)
             a == [active EXCEPT ![c] = @ + 1]
             val == vec[c][Slot(id)]
  <1>1. /\ pc[c] = "submit" /\ nextId' = [nextId EXCEPT ![c] = @ + 1]
        /\ pc' = IF id = LastIdOf(batch[c]) THEN [pc EXCEPT ![c] = "wait"] ELSE pc
        /\ Scatter(c, id, sr, val, net, tx, used, a) /\ batch' = batch /\ rx' = rx
    BY <1>p, OnlyClients DEF SubmitOperation
  <1>2. DOMAIN g = Fields /\ g.ops = Owed(c, id) /\ SeenBy(g) = Heads(c, id)
    BY <1>0, GetIs DEF IInv, Requests
  <1> HIDE DEF g
  <1>3. DOMAIN sr = Fields /\ sr.ops = Owed(c, id) /\ SeenBy(sr) = Heads(c, id)
    <2>1. DOMAIN sr = Fields /\ sr.ops = g.ops /\ sr.first = g.first /\ sr.others = g.others
      BY <1>2 DEF Adopt, Fields
    <2> QED
      BY <1>2, <2>1 DEF SeenBy
  <1> HIDE DEF sr, a, val
  <1>q. PICK proto : CompleteOperation(c, id, [sr EXCEPT !.ops = @ - Cardinality(Short(Dests(c), proto))],
                        net \cup New(c, id, proto, val), tx, used, a)
    BY <1>1 DEF Scatter, New
  <1> DEFINE S == Short(Dests(c), proto)
             r == [sr EXCEPT !.ops = @ - Cardinality(S)]
  <1>4. net' = net \cup New(c, id, proto, val) /\ tx' = tx /\ Counted(c, id, r, a)
    BY <1>q, <1>0, CompleteEffect
  <1>5. DOMAIN r = Fields /\ r.ops = Owed(c, id) - Cardinality(S) /\ SeenBy(r) = Heads(c, id)
    <2>1. DOMAIN r = Fields /\ r.ops = sr.ops - Cardinality(S) /\ r.first = sr.first /\ r.others = sr.others
      BY <1>3 DEF Fields
    <2> QED
      BY <1>3, <2>1 DEF SeenBy
  <1> HIDE DEF r
  <1>6. /\ Messages' /\ Once'
        /\ \A x \in Clients : \A i \in Nat : (x # c \/ i # id) => SetsKept(x, i)
        /\ Heads(c, id)' = Heads(c, id) /\ Coming(c, id)' = Coming(c, id)
        /\ To(c, id)' = Dests(c) \ S
    BY <1>0, <1>p, <1>1, <1>4, VectorLeaves DEF IInv
  <1>7. Elsewhere(c, id)
    BY <1>4 DEF Counted
  <1>n. (id < nextId[c])'
    BY <1>0, <1>1, <1>p DEF IInv, Shapes
  <1>8. r.ops = Owed(c, id)' + 1
    <2>1. IsFiniteSet(Dests(c)) /\ Got(c, id) \in SUBSET Dests(c) /\ S \in SUBSET Dests(c)
      BY <1>0, PairSets DEF Short
    <2>2. LeftAfter(Dests(c), Dests(c) \ S, Got(c, id)) = LeftBefore(Dests(c), Got(c, id)) - Cardinality(S) - 1
      BY <2>1, LeftScattered
    <2>3. Got(c, id)' = Got(c, id)
      BY <1>6 DEF Got
    <2>4. Owed(c, id)' = LeftAfter(Dests(c), Dests(c) \ S, Got(c, id))
      BY <1>6, <1>n, <2>3 DEF Owed, LeftAfter, Dests
    <2>5. Owed(c, id) = LeftBefore(Dests(c), Got(c, id))
      BY <1>0 DEF Owed
    <2>6. Owed(c, id) \in Nat /\ Cardinality(S) \in Nat
      BY <1>0, <2>1, PairSets, FS_Subset, FS_CardinalityType
    <2> QED
      BY <1>5, <2>2, <2>4, <2>5, <2>6
  <1>9. PairOf(c, id)'
    BY <1>0, <1>4, <1>5, <1>6, <1>8, <1>n, PairCounted
  <1>10. Requests'
    BY <1>0, <1>6, <1>7, <1>9, RequestsKept DEF IInv
  <1>11. Submitted(c, id, a)
    BY <1>4 DEF Counted, Submitted
  <1>12. Shapes' /\ Actives' /\ Batches' /\ Skew'
    <2>1. a = [active EXCEPT ![c] = @ + 1]
      BY DEF a
    <2>2. Shapes /\ Actives /\ Batches /\ Skew
      BY DEF IInv
    <2> QED
      BY <1>0, <1>p, <1>1, <1>7, <1>11, <2>1, <2>2, SubmitCounts
  <1>13. FirstIdOf(batch[c]) <= id
    BY <1>p DEF IInv, Batches, BatchesOf
  <1>14. Writes
    BY <1>0, <1>1, <1>n, <1>11, <1>13 DEF Writes, WroteAt, Submitted
  <1> QED
    BY <1>6, <1>10, <1>12, <1>14 DEF IInv

\* A client that has nothing active has seen every other client in its batch.
LEMMA BatchOver ==
  ASSUME Daemons = {}, IInv, NEW c \in Clients, pc[c] = "wait", active[c] = 0
  PROVE  Own(c) = {} /\ \A p \in Clients : batch[c] <= batch[p]
  <1>0. /\ batch \in [Clients -> Nat] /\ nextId \in [Clients -> Nat] /\ batch[c] \in Nat
    BY DEF IInv, Shapes
  <1>1. Own(c) = {}
    <2>1. IsFiniteSet(Own(c)) /\ Cardinality(Own(c)) = 0
      BY OwnFinite DEF IInv, Actives
    <2> QED
      BY <2>1, FS_EmptySet
  <1>p. PICK id : id = LastIdOf(batch[c])
    OBVIOUS
  <1>2. id \in Nat /\ nextId[c] = id + 1
    BY <1>0, <1>p, LastIds DEF IInv, Batches, BatchesOf
  <1>3. ~Live(c, id)
    BY <1>1, <1>2 DEF Own, Live
  <1>4. Owed(c, id) = 0
    BY <1>2, <1>3 DEF IInv, Requests, PairOf, FreeOf
  <1>5. Got(c, id) = Dests(c)
    BY <1>2, <1>4, PairSets
  <1>6. ASSUME NEW p \in Clients PROVE batch[c] <= batch[p]
    <2>1. CASE p = c
      BY <1>0, <2>1
    <2>2. CASE p # c
      <3>1. id < nextId[p]
        BY <1>5, <2>2, OnlyClients DEF Got, Heads
      <3>2. batch[p] \in Nat /\ nextId[p] \in Nat
        BY <1>0
      <3>3. LastIdOf(batch[p]) \in Nat /\ BatchSize \in Nat /\ BatchSize >= 1
        BY <3>2, LastIds
      <3>4. nextId[p] <= LastIdOf(batch[p]) + 1
        <4>1. CASE pc[p] = "submit"
          BY <3>2, <3>3, <4>1 DEF IInv, Batches, BatchesOf
        <4>2. CASE pc[p] # "submit"
          BY <3>2, <3>3, <4>2 DEF IInv, Batches, BatchesOf
        <4> QED
          BY <4>1, <4>2
      <3>5. batch[p] < batch[c] => LastIdOf(batch[p]) + BatchSize <= LastIdOf(batch[c])
        BY <1>0, <3>2, LastIdsGrow
      <3> QED
        BY <1>0, <1>2, <1>p, <3>1, <3>2, <3>3, <3>4, <3>5
    <2> QED
      BY <2>1, <2>2
  <1> QED
    BY <1>1, <1>6

LEMMA NextBatchIInv ==
  ASSUME Daemons = {}, IInv, NEW c \in Clients, NextBatch(c) PROVE IInv' /\ Writes
  <1>0. /\ batch \in [Clients -> Nat] /\ nextId \in [Clients -> Nat] /\ batch[c] \in Nat
        /\ pc \in [Clients -> {"submit", "wait", "done"}]
    BY DEF IInv, Shapes
  <1>1. /\ pc[c] = "wait" /\ active[c] = 0
        /\ nextId' = nextId /\ active' = active /\ sreq' = sreq /\ net' = net /\ rx' = rx /\ tx' = tx
        /\ \/ pc' = [pc EXCEPT ![c] = "done"] /\ batch' = batch /\ vec' = vec
           \/ /\ pc' = [pc EXCEPT ![c] = "submit"] /\ batch' = [batch EXCEPT ![c] = @ + 1]
              /\ vec' = IF ResetBefore(batch[c] + 1) THEN [vec EXCEPT ![c] = [s \in DOMAIN @ |-> Of(c)]] ELSE vec
    BY DEF NextBatch, BatchComplete
  <1>2. Own(c) = {} /\ \A p \in Clients : batch[c] <= batch[p]
    BY <1>1, BatchOver
  <1>3. Messages' /\ Once'
    BY <1>1 DEF IInv, Messages, Once, Under
  <1>4. Requests'
    <2>1. ASSUME NEW r \in Clients, NEW i \in Nat PROVE PairOf(r, i)'
      <3>1. Heads(r, i)' = Heads(r, i) /\ Coming(r, i)' = Coming(r, i) /\ To(r, i)' = To(r, i)
        BY <1>1 DEF Heads, Coming, To, Has, Slow, Under, Dests
      <3> QED
        BY <1>1, <3>1, PairKept DEF IInv, Requests, Live
    <2> QED
      BY <2>1 DEF Requests
  <1>5. \A p : Own(p)' = Own(p)
    BY <1>1 DEF Own
  <1>6. Actives'
    BY <1>1, <1>5 DEF IInv, Actives
  <1>7. Shapes'
    <2>1. batch' \in [Clients -> Nat] /\ pc' \in [Clients -> {"submit", "wait", "done"}]
      BY <1>0, <1>1
    <2>2. DOMAIN vec' = Clients /\ \A p \in Clients : DOMAIN vec'[p] = 0 .. BatchSize - 1
      BY <1>1 DEF IInv, Shapes
    <2> QED
      BY <1>1, <2>1, <2>2 DEF IInv, Shapes
  <1>8. \A p \in Clients : p # c => batch'[p] = batch[p] /\ pc'[p] = pc[p]
    BY <1>0, <1>1
  <1>9. batch'[c] = batch[c] \/ batch'[c] = batch[c] + 1
    BY <1>0, <1>1
  <1>10. \A p \in Clients : batch[p] \in Nat /\ batch'[p] \in Nat /\ batch[p] <= batch'[p]
    BY <1>0, <1>8, <1>9
  <1>11. Skew'
    <2>1. ASSUME NEW p \in Clients, NEW q \in Clients PROVE batch'[q] <= batch'[p] + 1
      <3>1. batch[q] <= batch[p] + 1
        BY DEF IInv, Skew
      <3>2. CASE q = c
        BY <1>2, <1>9, <1>10, <3>2
      <3>3. CASE q # c
        BY <1>8, <1>10, <3>1, <3>3
      <3> QED
        BY <3>2, <3>3
    <2> QED
      BY <2>1 DEF Skew
  <1>12. BatchesOf(c)'
    <2>1. nextId[c] = LastIdOf(batch[c]) + 1 /\ FirstIdOf(batch[c]) <= nextId[c]
      BY <1>1 DEF IInv, Batches, BatchesOf
    <2>2. Own(c)' = {}
      BY <1>2, <1>5
    <2>3. CASE pc' = [pc EXCEPT ![c] = "done"] /\ batch' = batch
      <3>1. pc'[c] = "done" /\ batch'[c] = batch[c]
        BY <1>0, <2>3
      <3>2. FirstIdOf(batch[c])' = FirstIdOf(batch[c]) /\ LastIdOf(batch[c])' = LastIdOf(batch[c])
        BY <3>1 DEF FirstIdOf, LastIdOf
      <3> QED
        BY <1>1, <2>1, <2>2, <3>1, <3>2 DEF BatchesOf
    <2>4. CASE pc' = [pc EXCEPT ![c] = "submit"] /\ batch' = [batch EXCEPT ![c] = @ + 1]
      <3>1. pc'[c] = "submit" /\ batch'[c] = batch[c] + 1
        BY <1>0, <2>4
      <3>2. FirstIdOf(batch[c])' = FirstIdOf(batch[c] + 1) /\ LastIdOf(batch[c])' = LastIdOf(batch[c] + 1)
        BY <3>1 DEF FirstIdOf, LastIdOf
      <3>3. /\ LastIdOf(batch[c]) \in Nat /\ LastIdOf(batch[c] + 1) = LastIdOf(batch[c]) + BatchSize
            /\ FirstIdOf(batch[c] + 1) = LastIdOf(batch[c]) + 1 /\ BatchSize \in Nat /\ BatchSize >= 1
        BY <1>0, LastIds
      <3>4. FirstIdOf(batch[c] + 1) <= nextId[c] /\ nextId[c] <= LastIdOf(batch[c] + 1)
        BY <2>1, <3>3
      <3> QED
        BY <1>1, <2>2, <3>1, <3>2, <3>4 DEF BatchesOf
    <2> QED
      BY <1>1, <2>3, <2>4
  <1>13. \A q \in Clients : q # c => BatchesOf(q)'
    <2> SUFFICES ASSUME NEW q \in Clients, q # c PROVE BatchesOf(q)'
      OBVIOUS
    <2>0. batch'[q] = batch[q] /\ pc'[q] = pc[q]
      BY <1>8
    <2>1. FirstIdOf(batch[q])' = FirstIdOf(batch[q]) /\ LastIdOf(batch[q])' = LastIdOf(batch[q])
      BY <2>0 DEF FirstIdOf, LastIdOf
    <2> QED
      BY <1>1, <1>5, <2>0, <2>1 DEF IInv, Batches, BatchesOf
  <1>14. Batches'
    BY <1>12, <1>13 DEF Batches
  <1>15. \A q \in Clients : q # c => vec'[q] = vec[q]
    BY <1>1 DEF IInv, Shapes
  <1>16. Writes
    BY <1>2, <1>15 DEF Writes
  <1> QED
    BY <1>3, <1>4, <1>6, <1>7, <1>11, <1>14, <1>16 DEF IInv

LEMMA InitIInv == ASSUME Daemons = {}, Init PROVE IInv
  <1>0. /\ \A p \in Clients : batch[p] = 0 /\ nextId[p] = 0 /\ pc[p] = "submit" /\ active[p] = 0
        /\ net = {} /\ rx = {} /\ tx = {} /\ Procs = Clients
    BY OnlyClients DEF Init
  <1>1. DOMAIN sreq = Clients /\ \A p \in Clients : DOMAIN sreq[p] = {}
    BY <1>0 DEF Init
  <1>2. Shapes
    BY <1>1 DEF Init, Shapes
  <1>3. Messages /\ Once
    BY <1>0 DEF Messages, Once, Under
  <1>4. Requests
    <2>1. ASSUME NEW p \in Clients, NEW id \in Nat PROVE PairOf(p, id)
      <3>1. ~Live(p, id) /\ ~(id < nextId[p])
        BY <1>0, <1>1 DEF Live
      <3>2. \A q \in Dests(p) : ~(id < nextId[q])
        BY <1>0, OnlyClients
      <3> QED
        BY <3>1, <3>2 DEF PairOf, FreeOf, Heads
    <2> QED
      BY <2>1 DEF Requests
  <1>5. \A p \in Clients : Own(p) = {}
    BY <1>1 DEF Own
  <1>6. Actives
    BY <1>0, <1>5, FS_EmptySet DEF Actives
  <1>7. Batches
    <2>1. FirstIdOf(0) = 0 /\ LastIdOf(0) = 0
      BY LastIds DEF FirstIdOf
    <2> QED
      BY <1>0, <1>5, <2>1 DEF Batches, BatchesOf
  <1>8. Skew
    BY <1>0 DEF Skew
  <1> QED
    BY <1>2, <1>3, <1>4, <1>6, <1>7, <1>8 DEF IInv

LEMMA NextIInv == ASSUME Daemons = {}, IInv, [Next]_vars PROVE IInv' /\ Writes
  <1>0. \A m \in net \cup rx \cup tx : m.kind = "op"
    BY DEF IInv, Messages, Under
  <1>1. CASE UNCHANGED vars
    <2>1. /\ batch' = batch /\ nextId' = nextId /\ pc' = pc /\ active' = active /\ vec' = vec
          /\ sreq' = sreq /\ net' = net /\ rx' = rx /\ tx' = tx
      BY <1>1 DEF vars
    <2>2. Messages' /\ Once' /\ Skew' /\ Shapes'
      BY <2>1 DEF IInv, Messages, Once, Under, Skew, Shapes
    <2>3. Requests'
      <3>1. ASSUME NEW r \in Clients, NEW i \in Nat PROVE PairOf(r, i)'
        <4>1. Heads(r, i)' = Heads(r, i) /\ Coming(r, i)' = Coming(r, i) /\ To(r, i)' = To(r, i)
          BY <2>1 DEF Heads, Coming, To, Has, Slow, Under, Dests
        <4> QED
          BY <2>1, <4>1, PairKept DEF IInv, Requests, Live
      <3> QED
        BY <3>1 DEF Requests
    <2>4. \A p : Own(p)' = Own(p)
      BY <2>1 DEF Own
    <2>5. Actives' /\ Batches'
      BY <2>1, <2>4 DEF IInv, Actives, Batches, BatchesOf
    <2> QED
      BY <2>1, <2>2, <2>3, <2>5 DEF IInv, Writes
  <1>2. ASSUME NEW c \in Clients, SubmitOperation(c) PROVE IInv' /\ Writes
    BY <1>2, SubmitOperationIInv
  <1>3. ASSUME NEW c \in Clients, NextBatch(c) PROVE IInv' /\ Writes
    BY <1>3, NextBatchIInv
  <1>4. ASSUME NEW m \in net, GatherArrive(m) \/ ClientArrive(m) \/ ResultArrive(m) PROVE IInv' /\ Writes
    <2>1. GatherArrive(m)
      BY <1>0, <1>4 DEF ClientArrive, ResultArrive
    <2> QED
      BY <2>1, GatherArriveIInv
  <1>5. ASSUME NEW m \in rx, GatherData(m) \/ ClientData(m) \/ ResultData(m) PROVE IInv' /\ Writes
    <2>1. GatherData(m)
      BY <1>0, <1>5 DEF ClientData, ResultData
    <2> QED
      BY <2>1, GatherDataIInv
  <1>6. ASSUME NEW m \in tx, ScatterSent(m) \/ ResultSent(m) PROVE IInv' /\ Writes
    <2>1. ScatterSent(m)
      BY <1>0, <1>6 DEF ResultSent
    <2> QED
      BY <2>1, ScatterSentIInv
  <1> QED
    BY <1>1, <1>2, <1>3, <1>4, <1>5, <1>6 DEF Next, Step, Finished

LEMMA SpecIInv == ASSUME Daemons = {} PROVE Spec => []IInv
  <1>1. Init => IInv
    BY InitIInv
  <1>2. IInv /\ [Next]_vars => IInv'
    BY NextIInv
  <1> QED
    BY <1>1, <1>2, PTL DEF Spec

-----------------------------------------------------------------------------
\* Every send UCX still reads from or owes a callback for is one its sender waits for.
LEMMA SendsAwaited ==
  ASSUME Daemons = {}, IInv, NEW m \in Slow
  PROVE  /\ m.src \in Clients /\ m.id \in Nat /\ m.id < nextId[m.src]
         /\ Live(m.src, m.id) /\ m.dst \in To(m.src, m.id) /\ m.id \in Own(m.src)
  <1>p. PICK p, q, id : p = m.src /\ q = m.dst /\ id = m.id
    OBVIOUS
  <1>1. m \in Under
    BY DEF Slow
  <1>2. p \in Clients /\ q \in Dests(p) /\ id \in Nat /\ id < nextId[p]
    BY <1>p, <1>1, OnlyClients DEF IInv, Messages
  <1>3. q \in To(p, id)
    BY <1>p, <1>2 DEF To, Has, Key
  <1>4. Owed(p, id) # 0
    BY <1>2, <1>3, PairSets
  <1>5. Live(p, id)
    BY <1>2, <1>4 DEF IInv, Requests, PairOf, FreeOf
  <1>6. id \in Own(p)
    BY <1>2, <1>5 DEF Live, Own
  <1> QED
    BY <1>p, <1>2, <1>3, <1>5, <1>6

\* A client's sends of an operation are as many as the peers it still owes.
LEMMA PendingSendsCount ==
  ASSUME Daemons = {}, IInv, NEW p \in Clients, NEW id \in Nat
  PROVE  Cardinality(PendingSends(p, id)) = Cardinality(To(p, id))
  <1> DEFINE P == PendingSends(p, id)
             f == [m \in P |-> m.dst]
  <1>1. \A m \in P : m \in Slow /\ m \in Under /\ m.src = p /\ m.id = id
    BY DEF PendingSends, Slow, Under
  <1>2. \A m \in Slow : (m.src = p /\ m.id = id) => m \in P
    BY DEF PendingSends, Slow, Under, IInv, Messages
  <1> HIDE DEF P
  <1>3. \A m \in P : m.dst \in To(p, id)
    BY <1>1, SendsAwaited
  <1>4. \A m, n \in P : f[m] = f[n] => m = n
    BY <1>1 DEF IInv, Once
  <1>5. \A q \in To(p, id) : \E m \in P : f[m] = q
    BY <1>2 DEF To, Has, Key
  <1>6. f \in [P -> To(p, id)]
    BY <1>3
  <1> HIDE DEF f
  <1>7. f \in Injection(P, To(p, id))
    BY <1>4, <1>6 DEF Injection, IsInjective
  <1>8. f \in Surjection(P, To(p, id))
    BY <1>5, <1>6 DEF Surjection
  <1>9. IsFiniteSet(To(p, id))
    BY PairSets, FS_Subset
  <1>10. Cardinality(P) = Cardinality(To(p, id))
    BY <1>7, <1>8, <1>9, FS_Injection
  <1> QED
    BY <1>10 DEF P

LEMMA CountsOwed == ASSUME Daemons = {}, IInv PROVE OperationCount
  <1>1. Peers = Clients
    BY OnlyClients
  <1>2. ASSUME NEW p \in Clients, NEW id \in DOMAIN sreq[p]
        PROVE  sreq[p][id].ops =
                 (IF Scattered(p, id) THEN Cardinality(PendingSends(p, id))
                                      ELSE Cardinality(Dests(p)) + 1)
                 + Cardinality(Dests(p)) - Cardinality(Seen(p, id) \ Incoming(p, id))
    <2>1. id \in Nat /\ Live(p, id)
      BY DEF IInv, Shapes, Live
    <2>2. sreq[p][id].ops = Owed(p, id) /\ SeenBy(sreq[p][id]) = Heads(p, id)
      BY <2>1 DEF IInv, Requests, PairOf, HeldOf
    <2>3. Scattered(p, id) <=> id < nextId[p]
      BY DEF Scattered
    <2>4. Seen(p, id) = Heads(p, id)
      BY <2>2 DEF Seen, SeenBy
    <2>5. Incoming(p, id) = Coming(p, id)
      BY DEF Incoming, Coming, Has, Key, IInv, Messages, Under
    <2>6. Seen(p, id) \ Incoming(p, id) = Got(p, id)
      BY <2>4, <2>5 DEF Got
    <2>7. Cardinality(PendingSends(p, id)) = Cardinality(To(p, id))
      BY <2>1, PendingSendsCount
    <2>8. CASE id < nextId[p]
      BY <2>2, <2>3, <2>6, <2>7, <2>8 DEF Owed, LeftAfter
    <2>9. CASE ~(id < nextId[p])
      BY <2>2, <2>3, <2>6, <2>9 DEF Owed, LeftBefore
    <2> QED
      BY <2>8, <2>9
  <1> QED
    BY <1>1, <1>2 DEF OperationCount

LEMMA TargetsLive == ASSUME Daemons = {}, IInv PROVE CallbackTargets
  <1>1. ASSUME NEW m \in ByReference \cup tx PROVE Live(m.src, m.id)
    <2>1. m \in Slow
      BY DEF ByReference, Slow, Under, IInv, Messages
    <2> QED
      BY <2>1, SendsAwaited
  <1>2. ASSUME NEW m \in rx PROVE Live(m.dst, m.id)
    <2>p. PICK s, p, id : Key(m, s, p, id)
      BY DEF Key
    <2>1. p \in Clients /\ id \in Nat /\ s \in Dests(p) /\ (Live(p, id) \/ ~(id < nextId[p]))
      BY <2>p, StillAwaited
    <2>2. s \in Heads(p, id)
      <3>1. ~Has(net, s, p, id) /\ id < nextId[s]
        BY <2>p DEF IInv, Messages, Once, Has, Key, Under
      <3> QED
        BY <2>1, <3>1 DEF Heads
    <2>3. Live(p, id)
      BY <2>1, <2>2 DEF IInv, Requests, PairOf, FreeOf
    <2> QED
      BY <2>p, <2>3 DEF Key
  <1>3. \A m \in net \cup rx : m.kind # "result"
    BY DEF IInv, Messages, Under
  <1> QED
    BY <1>1, <1>2, <1>3 DEF CallbackTargets

\* No client has begun an operation after its batch.
LEMMA WithinBatch ==
  ASSUME Shapes, Batches, NEW p \in Clients, NEW id \in Nat, id < nextId[p]
  PROVE  id <= LastIdOf(batch[p])
  <1>1. batch[p] \in Nat /\ nextId[p] \in Nat
    BY DEF Shapes
  <1>2. LastIdOf(batch[p]) \in Nat
    BY <1>1, LastIds
  <1>3. nextId[p] <= LastIdOf(batch[p]) + 1
    <2>1. CASE pc[p] = "submit"
      BY <1>1, <1>2, <2>1 DEF Batches, BatchesOf
    <2>2. CASE pc[p] # "submit"
      BY <1>1, <1>2, <2>2 DEF Batches, BatchesOf
    <2> QED
      BY <2>1, <2>2
  <1> QED
    BY <1>1, <1>2, <1>3

LEMMA HeldIds ==
  ASSUME Daemons = {}, IInv, NEW p \in Clients
  PROVE  IsFiniteSet(DOMAIN sreq[p]) /\ Cardinality(DOMAIN sreq[p]) <= 2 * BatchSize
  <1>p. PICK b \in Nat : b = batch[p]
    BY DEF IInv, Shapes
  <1>q. PICK lo \in Nat, hi \in Nat : lo = FirstIdOf(b) /\ hi = LastIdOf(b + 1)
    BY LastIds, b + 1 \in Nat
  <1>1. hi - lo + 1 <= 2 * BatchSize /\ BatchSize \in Nat
    <2>1. /\ LastIdOf(b) \in Nat /\ LastIdOf(b + 1) = LastIdOf(b) + BatchSize
          /\ LastIdOf(b) < FirstIdOf(b) + BatchSize /\ BatchSize \in Nat
      BY LastIds
    <2> QED
      BY <1>q, <2>1
  <1>2. ASSUME NEW id \in DOMAIN sreq[p] PROVE id \in lo .. hi
    <2>1. id \in Nat /\ Live(p, id) /\ nextId[p] \in Nat
      BY DEF IInv, Shapes, Live
    <2>2. LastIdOf(b) \in Nat /\ LastIdOf(b) <= LastIdOf(b + 1) /\ lo <= nextId[p]
      <3>1. b + 1 \in Nat /\ b <= b + 1
        OBVIOUS
      <3>2. LastIdOf(b) \in Nat /\ LastIdOf(b) <= LastIdOf(b + 1)
        BY <3>1, LastIds, LastIdsGrow
      <3>3. lo <= nextId[p]
        BY <1>p, <1>q DEF IInv, Batches, BatchesOf
      <3> QED
        BY <3>2, <3>3
    <2>3. CASE id < nextId[p]
      <3>1. lo <= id
        BY <2>1, <2>3, <1>p, <1>q DEF IInv, Batches, BatchesOf, Own
      <3>2. id <= LastIdOf(b)
        BY <2>1, <2>3, <1>p, WithinBatch DEF IInv
      <3> QED
        BY <1>q, <2>1, <2>2, <3>1, <3>2
    <2>4. CASE ~(id < nextId[p])
      <3>1. Heads(p, id) # {}
        BY <2>1, <2>4 DEF IInv, Requests, PairOf, HeldOf
      <3>2. PICK q \in Clients : id < nextId[q]
        BY <3>1, OnlyClients DEF Heads
      <3>3. id <= LastIdOf(batch[q])
        BY <2>1, <3>2, WithinBatch DEF IInv
      <3>4. batch[q] \in Nat /\ batch[q] <= b + 1
        BY <1>p DEF IInv, Shapes, Skew
      <3>5. LastIdOf(batch[q]) <= LastIdOf(b + 1) /\ LastIdOf(batch[q]) \in Nat
        BY <3>4, b + 1 \in Nat, LastIdsGrow, LastIds
      <3> QED
        BY <1>q, <2>1, <2>2, <2>4, <3>3, <3>5
    <2> QED
      BY <2>3, <2>4
  <1>3. IsFiniteSet(lo .. hi) /\ Cardinality(lo .. hi) = IF lo > hi THEN 0 ELSE hi - lo + 1
    BY FS_Interval
  <1>4. /\ IsFiniteSet(DOMAIN sreq[p]) /\ Cardinality(DOMAIN sreq[p]) \in Nat
        /\ Cardinality(DOMAIN sreq[p]) <= Cardinality(lo .. hi)
    BY <1>2, <1>3, FS_Subset, FS_CardinalityType
  <1> QED
    BY <1>1, <1>3, <1>4

LEMMA AtMostTwoBatches == ASSUME Daemons = {}, IInv PROVE TwoBatches
  <1>1. \A p \in Clients : Cardinality(DOMAIN sreq[p]) <= 2 * BatchSize
    BY HeldIds
  <1> QED
    BY <1>1, OnlyClients DEF TwoBatches

\* A vector that is still to be read is not written.
BuffersKept ==
    \A m \in ByReference :
       m \in ByReference' => /\ m.src \in Daemons => Live(m.src, m.id)'
                             /\ Buffer(m.src, m.id)' = Buffer(m.src, m.id)

\* What the invariant says about it, for use after a step.
Awaited ==
    /\ \A m \in Slow : m.id < nextId[m.src] /\ Live(m.src, m.id)
    /\ \A p \in Clients : \A id \in Nat : id < nextId[p] => id <= LastIdOf(batch[p])

LEMMA IsAwaited == ASSUME Daemons = {}, IInv PROVE Awaited
  <1>1. \A m \in Slow : m.id < nextId[m.src] /\ Live(m.src, m.id)
    BY SendsAwaited
  <1>2. ASSUME NEW p \in Clients, NEW id \in Nat, id < nextId[p] PROVE id <= LastIdOf(batch[p])
    BY <1>2, WithinBatch DEF IInv
  <1> QED
    BY <1>1, <1>2 DEF Awaited

LEMMA StepKeepsBuffers == ASSUME Daemons = {}, IInv, Awaited', Writes PROVE BuffersKept
  <1> SUFFICES ASSUME NEW m \in ByReference, m \in ByReference'
               PROVE  Buffer(m.src, m.id)' = Buffer(m.src, m.id)
    BY DEF BuffersKept
  <1>p. PICK p, id : p = m.src /\ id = m.id
    OBVIOUS
  <1>1. p \in Clients /\ id \in Nat /\ id \in Own(p)
    BY <1>p, SendsAwaited DEF ByReference, Slow, Under
  <1>2. (ByReference \subseteq Slow)'
    BY DEF ByReference, Slow, Under
  <1>3. \A x \in Slow' : x.id < nextId'[x.src] /\ x.id \in DOMAIN sreq'[x.src]
    BY DEF Awaited, Live
  <1>4. id < nextId'[p] /\ id \in DOMAIN sreq'[p]
    BY <1>p, <1>2, <1>3
  <1>s. Slot(id) \in 0 .. BatchSize - 1
    BY <1>1, SlotInRange
  <1>5. vec'[p][Slot(id)] = vec[p][Slot(id)]
    <2>1. CASE vec' = vec
      BY <2>1
    <2>2. ASSUME NEW c \in Clients, Own(c) = {}, \A q \in Clients : q # c => vec'[q] = vec[q]
          PROVE  vec'[p][Slot(id)] = vec[p][Slot(id)]
      BY <1>1, <2>2
    <2>3. ASSUME NEW c \in Clients, NEW i \in Nat, WroteAt(c, i)
          PROVE  vec'[p][Slot(id)] = vec[p][Slot(id)]
      <3>1. /\ i \notin DOMAIN sreq'[c] /\ i < nextId'[c] /\ FirstIdOf(batch[c]) <= i /\ batch' = batch
            /\ \E v : vec' = [vec EXCEPT ![c][Slot(i)] = v]
        BY <2>3 DEF WroteAt
      <3>v. PICK v : vec' = [vec EXCEPT ![c][Slot(i)] = v]
        BY <3>1
      <3>d. DOMAIN vec = Clients /\ DOMAIN vec[p] = 0 .. BatchSize - 1
        BY <1>1 DEF IInv, Shapes
      <3>2. CASE c # p
        BY <1>1, <3>v, <3>d, <3>2
      <3>3. CASE c = p
        <4>1. i # id
          BY <1>4, <3>1, <3>3
        <4>2. i <= LastIdOf(batch'[p]) /\ id <= LastIdOf(batch'[p])
          BY <1>1, <1>4, <3>1, <3>3 DEF Awaited, LastIdOf
        <4>3. FirstIdOf(batch[p]) <= id
          BY <1>1 DEF IInv, Batches, BatchesOf
        <4>4. batch[p] \in Nat /\ batch'[p] = batch[p]
          BY <1>1, <3>1 DEF IInv, Shapes
        <4>5. /\ LastIdOf(batch[p]) \in Nat /\ FirstIdOf(batch[p]) \in Nat /\ BatchSize \in Nat
              /\ LastIdOf(batch[p]) < FirstIdOf(batch[p]) + BatchSize
          BY <4>4, LastIds
        <4>6. i < id + BatchSize /\ id < i + BatchSize
          BY <1>1, <3>1, <3>3, <4>2, <4>3, <4>4, <4>5
        <4>7. Slot(i) # Slot(id)
          BY <1>1, <4>1, <4>6, SlotsDiffer
        <4> QED
          BY <1>1, <1>s, <3>v, <3>d, <3>3, <4>7
      <3> QED
        BY <3>2, <3>3
    <2> QED
      BY <2>1, <2>2, <2>3 DEF Writes
  <1> QED
    BY <1>p, <1>1, <1>5 DEF Buffer, Slot

-----------------------------------------------------------------------------
\* Sums.  What Total counts is the set Pairs(f, S).
Pairs(f, S) == UNION {{x} \X (1 .. f[x]) : x \in S}

LEMMA PairsAre ==
  ASSUME NEW f, NEW S, NEW y
  PROVE  y \in Pairs(f, S) <=> \E x \in S : y \in {x} \X (1 .. f[x])
  BY DEF Pairs

LEMMA OnePair ==
  ASSUME NEW x, NEW k \in Nat
  PROVE  IsFiniteSet({x} \X (1 .. k)) /\ Cardinality({x} \X (1 .. k)) = k
  <1>1. IsFiniteSet(1 .. k) /\ Cardinality(1 .. k) = k
    <2>1. IsFiniteSet(1 .. k) /\ Cardinality(1 .. k) = IF 1 > k THEN 0 ELSE k - 1 + 1
      BY FS_Interval
    <2> QED
      BY <2>1
  <1>2. IsFiniteSet({x}) /\ Cardinality({x}) = 1
    BY FS_Singleton
  <1>3. /\ IsFiniteSet({x} \X (1 .. k))
        /\ Cardinality({x} \X (1 .. k)) = Cardinality({x}) * Cardinality(1 .. k)
    BY <1>1, <1>2, FS_Product
  <1> QED
    BY <1>1, <1>2, <1>3

LEMMA PairsFinite ==
  ASSUME NEW S, IsFiniteSet(S), NEW f, \A x \in S : f[x] \in Nat
  PROVE  IsFiniteSet(Pairs(f, S)) /\ Total(f, S) = Cardinality(Pairs(f, S)) /\ Total(f, S) \in Nat
  <1> DEFINE T == {{x} \X (1 .. f[x]) : x \in S}
             g == [x \in S |-> {x} \X (1 .. f[x])]
  <1>1. g \in Surjection(S, T)
    <2>1. g \in [S -> T] /\ \A t \in T : \E x \in S : g[x] = t
      OBVIOUS
    <2> HIDE DEF g, T
    <2> QED
      BY <2>1 DEF Surjection
  <1>2. IsFiniteSet(T)
    BY <1>1, FS_Surjection
  <1>3. ASSUME NEW U \in T PROVE IsFiniteSet(U)
    <2>1. PICK x \in S : U = {x} \X (1 .. f[x])
      OBVIOUS
    <2>2. PICK k \in Nat : k = f[x]
      OBVIOUS
    <2> QED
      BY <2>1, <2>2, OnePair
  <1> HIDE DEF T
  <1>4. IsFiniteSet(UNION T)
    BY <1>2, <1>3, FS_UNION
  <1>5. IsFiniteSet(Pairs(f, S))
    BY <1>4 DEF T, Pairs
  <1>6. Total(f, S) = Cardinality(Pairs(f, S))
    BY DEF Total, Pairs
  <1> QED
    BY <1>5, <1>6, FS_CardinalityType

LEMMA TotalEmpty == ASSUME NEW f PROVE Total(f, {}) = 0
  <1>1. Pairs(f, {}) = {}
    BY DEF Pairs
  <1> QED
    BY <1>1, FS_EmptySet DEF Pairs, Total

\* One more term.
LEMMA TotalAdd ==
  ASSUME NEW S, IsFiniteSet(S), NEW x, x \notin S, NEW f, NEW g, f[x] \in Nat,
         \A y \in S : f[y] = g[y] /\ g[y] \in Nat
  PROVE  Total(f, S \cup {x}) = Total(g, S) + f[x]
  <1> DEFINE A == Pairs(g, S)
             B == {x} \X (1 .. f[x])
  <1>1. IsFiniteSet(S \cup {x}) /\ \A y \in S \cup {x} : f[y] \in Nat
    BY FS_AddElement
  <1>2. Total(f, S \cup {x}) = Cardinality(Pairs(f, S \cup {x}))
    BY <1>1, PairsFinite
  <1>3. IsFiniteSet(A) /\ Total(g, S) = Cardinality(A) /\ Total(g, S) \in Nat
    BY PairsFinite
  <1>4. IsFiniteSet(B) /\ Cardinality(B) = f[x]
    BY OnePair
  <1>5. Pairs(f, S \cup {x}) = A \cup B
    <2>1. ASSUME NEW y PROVE y \in Pairs(f, S \cup {x}) <=> y \in A \cup B
      BY PairsAre
    <2> QED
      BY <2>1
  <1>6. A \cap B = {}
    <2>1. ASSUME NEW y \in A, y \in B PROVE FALSE
      <3>1. PICK z \in S : y \in {z} \X (1 .. g[z])
        BY PairsAre
      <3>2. y[1] = z /\ y[1] = x
        BY <2>1, <3>1
      <3> QED
        BY <3>2
    <2> QED
      BY <2>1
  <1> HIDE DEF A, B
  <1>7. Cardinality(A \cup B) = Cardinality(A) + Cardinality(B) - Cardinality(A \cap B)
    BY <1>3, <1>4, FS_Union
  <1>8. Cardinality(A \cap B) = 0
    BY <1>6, FS_EmptySet
  <1>9. Cardinality(A \cup B) = Total(g, S) + f[x]
    BY <1>3, <1>4, <1>7, <1>8
  <1> QED
    BY <1>2, <1>5, <1>9

LEMMA TotalSame ==
  ASSUME NEW S, NEW f, NEW g, \A y \in S : f[y] = g[y]
  PROVE  Total(f, S) = Total(g, S)
  <1>1. ASSUME NEW y PROVE y \in Pairs(f, S) <=> y \in Pairs(g, S)
    BY PairsAre
  <1>2. Pairs(f, S) = Pairs(g, S)
    BY <1>1
  <1> QED
    BY <1>2 DEF Pairs, Total

\* The term of x is put in place of the old one, or is dropped.
Replaced(f, g, S, x) == Total(g, S) = Total(f, S) - f[x] + g[x]

LEMMA TotalPut ==
  ASSUME NEW S, IsFiniteSet(S), NEW x \in S, NEW f, NEW g, \A y \in S : f[y] \in Nat, g[x] \in Nat,
         \A y \in S : y # x => g[y] = f[y]
  PROVE  Replaced(f, g, S, x)
  <1> DEFINE R == S \ {x}
  <1>0. Total(f, S) \in Nat
    BY PairsFinite
  <1>1. IsFiniteSet(R) /\ x \notin R /\ R \cup {x} = S
    BY FS_RemoveElement
  <1>2. \A y \in R : g[y] = f[y] /\ f[y] \in Nat
    OBVIOUS
  <1>n. f[x] \in Nat /\ g[x] \in Nat /\ \A y \in R : f[y] = f[y] /\ f[y] \in Nat
    BY <1>2
  <1> HIDE DEF R
  <1>3. Total(f, R \cup {x}) = Total(f, R) + f[x]
    BY ONLY <1>1, <1>n, TotalAdd
  <1>4. Total(g, R \cup {x}) = Total(f, R) + g[x]
    BY ONLY <1>1, <1>2, <1>n, TotalAdd
  <1>5. Total(f, R) \in Nat /\ f[x] \in Nat
    BY <1>1, <1>2, PairsFinite
  <1>6. Total(f, S) = Total(f, R) + f[x] /\ Total(g, S) = Total(f, R) + g[x]
    BY <1>1, <1>3, <1>4
  <1> QED
    BY <1>0, <1>n, <1>5, <1>6 DEF Replaced

LEMMA TotalDrop ==
  ASSUME NEW S, IsFiniteSet(S), NEW x \in S, NEW f, \A y \in S : f[y] \in Nat
  PROVE  Total(f, S \ {x}) = Total(f, S) - f[x] /\ Total(f, S) \in Nat
  <1> DEFINE R == S \ {x}
  <1>0. Total(f, S) \in Nat
    BY PairsFinite
  <1>1. IsFiniteSet(R) /\ x \notin R /\ R \cup {x} = S
    BY FS_RemoveElement
  <1>2. \A y \in R : f[y] \in Nat
    OBVIOUS
  <1> HIDE DEF R
  <1>3. Total(f, R \cup {x}) = Total(f, R) + f[x]
    BY <1>1, <1>2, TotalAdd
  <1>5. Total(f, R) \in Nat /\ f[x] \in Nat
    BY <1>1, <1>2, PairsFinite
  <1>6. Total(f, S) = Total(f, R) + f[x]
    BY <1>1, <1>3
  <1>7. Total(f, R) = Total(f, S) - f[x]
    BY <1>0, <1>5, <1>6
  <1> QED
    BY <1>0, <1>7 DEF R

\* As many terms as S has elements, each of them k.
LEMMA TotalEqual ==
  ASSUME NEW S, IsFiniteSet(S), NEW k \in Nat, NEW f, \A x \in S : f[x] = k
  PROVE  Total(f, S) = Cardinality(S) * k
  <1>1. Pairs(f, S) = S \X (1 .. k)
    <2>1. ASSUME NEW y PROVE y \in Pairs(f, S) <=> y \in S \X (1 .. k)
      BY PairsAre
    <2> QED
      BY <2>1
  <1>2. IsFiniteSet(1 .. k) /\ Cardinality(1 .. k) = k
    <2>1. IsFiniteSet(1 .. k) /\ Cardinality(1 .. k) = IF 1 > k THEN 0 ELSE k - 1 + 1
      BY FS_Interval
    <2> QED
      BY <2>1
  <1>3. Cardinality(S \X (1 .. k)) = Cardinality(S) * Cardinality(1 .. k)
    BY <1>2, FS_Product
  <1> QED
    BY <1>1, <1>2, <1>3 DEF Pairs, Total

-----------------------------------------------------------------------------
\* The number of ways through k clients.
LEMMA WaysFinite ==
  ASSUME NEW k \in Nat, NEW S, IsFiniteSet(S)
  PROVE  IsFiniteSet([1 .. k -> S])
  <1> DEFINE P == (1 .. k) \X S
             g == [h \in [1 .. k -> S] |-> {<<i, h[i]>> : i \in 1 .. k}]
  <1>1. IsFiniteSet(1 .. k)
    BY FS_Interval
  <1>2. IsFiniteSet(P)
    BY <1>1, FS_Product
  <1>3. IsFiniteSet(SUBSET P)
    BY <1>2, FS_SUBSET, Zenon
  <1>4. g \in [[1 .. k -> S] -> SUBSET P]
    OBVIOUS
  <1>5. ASSUME NEW a \in [1 .. k -> S], NEW b \in [1 .. k -> S], g[a] = g[b] PROVE a = b
    <2>1. ASSUME NEW i \in 1 .. k PROVE a[i] = b[i]
      <3>1. <<i, a[i]>> \in g[a] /\ g[b] = {<<j, b[j]>> : j \in 1 .. k}
        OBVIOUS
      <3>2. PICK j \in 1 .. k : <<i, a[i]>> = <<j, b[j]>>
        BY <1>5, <3>1
      <3> QED
        BY <3>2
    <2> QED
      BY <2>1
  <1> HIDE DEF g, P
  <1>6. g \in Injection([1 .. k -> S], SUBSET P)
    BY <1>4, <1>5 DEF Injection, IsInjective
  <1> QED
    BY <1>3, <1>6, FS_Injection

LEMMA WaysAre ==
  ASSUME NEW k \in Nat
  PROVE  Ways(k) \in Nat /\ Ways(0) = 1 /\ Ways(k + 1) = Cardinality(Clients) * Ways(k)
  <1>0. IsFiniteSet(Clients)
    BY AllreduceAssumption
  <1>1. Ways(k) \in Nat
    BY <1>0, WaysFinite, FS_CardinalityType DEF Ways
  <1>2. Ways(0) = 1
    <2>1. 1 .. 0 = {}
      OBVIOUS
    <2>2. [1 .. 0 -> Clients] = {[i \in {} |-> i]}
      BY <2>1
    <2> QED
      BY <2>2, FS_Singleton DEF Ways
  <1>3. Ways(k + 1) = Cardinality(Clients) * Ways(k)
    <2> DEFINE A == [1 .. k -> Clients]
               B == [1 .. (k + 1) -> Clients]
               g == [h \in B |-> <<h[k + 1], [i \in 1 .. k |-> h[i]]>>]
    <2>1. IsFiniteSet(A) /\ IsFiniteSet(Clients \X A)
      BY <1>0, WaysFinite, FS_Product
    <2>2. Cardinality(Clients \X A) = Cardinality(Clients) * Cardinality(A)
      BY <1>0, <2>1, FS_Product
    <2>3. g \in [B -> Clients \X A]
      <3>1. k + 1 \in 1 .. (k + 1) /\ 1 .. k \subseteq 1 .. (k + 1)
        OBVIOUS
      <3>2. ASSUME NEW h \in B PROVE <<h[k + 1], [i \in 1 .. k |-> h[i]]>> \in Clients \X A
        BY <3>1
      <3> QED
        BY <3>2
    <2>4. ASSUME NEW a \in B, NEW b \in B, g[a] = g[b] PROVE a = b
      <3>0. /\ g[a] = <<a[k + 1], [i \in 1 .. k |-> a[i]]>>
            /\ g[b] = <<b[k + 1], [i \in 1 .. k |-> b[i]]>>
        OBVIOUS
      <3>1. a[k + 1] = b[k + 1] /\ [i \in 1 .. k |-> a[i]] = [i \in 1 .. k |-> b[i]]
        BY <2>4, <3>0
      <3>2. \A i \in 1 .. k : a[i] = b[i]
        BY <3>1
      <3>3. \A i \in 1 .. (k + 1) : a[i] = b[i]
        BY <3>1, <3>2
      <3> QED
        BY <3>3
    <2>5. ASSUME NEW c \in Clients, NEW h \in A PROVE \E a \in B : g[a] = <<c, h>>
      <3> DEFINE a == [i \in 1 .. (k + 1) |-> IF i = k + 1 THEN c ELSE h[i]]
      <3>1. a \in B /\ a[k + 1] = c
        OBVIOUS
      <3>2. [i \in 1 .. k |-> a[i]] = h
        OBVIOUS
      <3>3. g[a] = <<a[k + 1], [i \in 1 .. k |-> a[i]]>>
        BY <3>1
      <3> QED
        BY <3>1, <3>2, <3>3
    <2> HIDE DEF A, B, g
    <2>6. g \in Injection(B, Clients \X A)
      BY <2>3, <2>4 DEF Injection, IsInjective
    <2>7. g \in Surjection(B, Clients \X A)
      BY <2>3, <2>5 DEF Surjection
    <2>8. Cardinality(B) = Cardinality(Clients \X A)
      BY <2>1, <2>6, <2>7, FS_Injection
    <2> QED
      BY <2>2, <2>8 DEF Ways, A, B
  <1> QED
    BY <1>1, <1>2, <1>3

-----------------------------------------------------------------------------
\* The operations of a batch.
InBatch(id, b) == FirstIdOf(b) <= id /\ id <= LastIdOf(b)

LEMMA BatchOfIn ==
  ASSUME NEW id \in Nat
  PROVE  BatchOf(id) \in Nat /\ InBatch(id, BatchOf(id))
  <1>1. BatchSize \in Nat \ {0}
    BY AllreduceAssumption
  <1>p. PICK B \in Nat \ {0}, x \in Nat : B = BatchSize /\ x = id + B - 1
    BY <1>1
  <1>2. x = B * (x \div B) + (x % B)
    BY Division
  <1>3. x \div B \in Nat /\ x % B \in 0 .. B - 1
    OBVIOUS
  <1>q. PICK b \in Nat, r \in 0 .. B - 1 : b = x \div B /\ x = B * b + r
    BY <1>2, <1>3
  <1>4. BatchOf(id) = b
    BY <1>p, <1>q DEF BatchOf
  <1>5. LastIdOf(b) \in Nat /\ LastIdOf(b) = b * B /\ b * B = B * b
    BY <1>p, LastIds DEF LastIdOf
  <1>6. id + B - 1 = LastIdOf(b) + r
    BY <1>p, <1>q, <1>5
  <1>7. id <= LastIdOf(b) /\ LastIdOf(b) - B + 1 <= id
    BY <1>5, <1>6
  <1>8. CASE b = 0
    BY <1>4, <1>7, <1>8, LastIds DEF InBatch, FirstIdOf
  <1>9. CASE b # 0
    <2>p. PICK c \in Nat : b = c + 1
      BY <1>9, b - 1 \in Nat, b = (b - 1) + 1
    <2>1. LastIdOf(c) \in Nat /\ LastIdOf(b) = LastIdOf(c) + B /\ FirstIdOf(b) = LastIdOf(c) + 1
      BY <1>p, <2>p, LastIds
    <2> QED
      BY <1>4, <1>7, <2>1 DEF InBatch
  <1> QED
    BY <1>8, <1>9

LEMMA OneBatch ==
  ASSUME NEW id \in Nat, NEW b \in Nat, NEW c \in Nat, InBatch(id, b), InBatch(id, c)
  PROVE  b = c
  <1>1. ASSUME NEW d \in Nat, NEW e \in Nat, d < e, InBatch(id, d), InBatch(id, e) PROVE FALSE
    <2>p. PICK f \in Nat : e = f + 1
      BY <1>1, e - 1 \in Nat, e = (e - 1) + 1
    <2>1. FirstIdOf(e) = LastIdOf(f) + 1 /\ LastIdOf(f) \in Nat /\ LastIdOf(d) \in Nat
      BY <2>p, LastIds
    <2>2. LastIdOf(d) <= LastIdOf(f)
      BY <1>1, <2>p, LastIdsGrow
    <2> QED
      BY <1>1, <2>1, <2>2 DEF InBatch
  <1> QED
    BY <1>1

\* Only the barrier is in batch 0.
LEMMA LaterBatch ==
  ASSUME NEW id \in Nat, NEW b \in Nat, InBatch(id, b)
  PROVE  id = 0 <=> b = 0
  <1>1. LastIdOf(0) = 0 /\ FirstIdOf(0) = 0
    BY LastIds DEF FirstIdOf
  <1>2. InBatch(0, 0)
    BY <1>1 DEF InBatch
  <1>3. ASSUME id = 0 PROVE b = 0
    BY <1>2, <1>3, OneBatch
  <1>4. ASSUME b = 0 PROVE id = 0
    BY <1>1, <1>4 DEF InBatch
  <1> QED
    BY <1>3, <1>4

LEMMA SlotsOfBatch ==
  ASSUME NEW b \in Nat, NEW x \in Nat, NEW y \in Nat, InBatch(x, b), InBatch(y, b), x # y
  PROVE  Slot(x) # Slot(y)
  <1>1. /\ LastIdOf(b) \in Nat /\ FirstIdOf(b) \in Nat /\ BatchSize \in Nat
        /\ LastIdOf(b) < FirstIdOf(b) + BatchSize
    BY LastIds
  <1>2. x < y + BatchSize /\ y < x + BatchSize
    BY <1>1 DEF InBatch
  <1> QED
    BY <1>2, SlotsDiffer

LEMMA SlotBack == ASSUME NEW x \in Nat PROVE Slot(x + BatchSize) = Slot(x)
  <1>1. BatchSize \in Nat \ {0}
    BY AllreduceAssumption
  <1>p. PICK B \in Nat \ {0}, y \in Nat : B = BatchSize /\ y = x + B
    BY <1>1
  <1>2. x = B * (x \div B) + (x % B) /\ y = B * (y \div B) + (y % B)
    BY Division
  <1>3. x \div B \in Nat /\ y \div B \in Nat /\ x % B \in 0 .. B - 1 /\ y % B \in 0 .. B - 1
    OBVIOUS
  <1>q. PICK i \in Nat, j \in Nat, r \in 0 .. B - 1, s \in 0 .. B - 1 :
           i = x \div B /\ j = y \div B /\ r = x % B /\ s = y % B
    BY <1>3
  <1>4. x = B * i + r /\ y = B * j + s
    BY <1>2, <1>q, Zenon
  <1>5. B * i = i * B /\ B * j = j * B /\ i * B \in Nat /\ j * B \in Nat /\ (i + 1) * B = i * B + B
    OBVIOUS
  <1>6. (i + 1) * B + r = j * B + s
    BY <1>p, <1>4, <1>5
  <1>7. i + 1 = j
    <2>1. ASSUME i + 1 < j PROVE FALSE
      <3>1. (i + 1) * B + B <= j * B
        BY <2>1, Product
      <3> QED
        BY <3>1, <1>5, <1>6
    <2>2. ASSUME j < i + 1 PROVE FALSE
      <3>1. j * B + B <= (i + 1) * B
        BY <2>2, Product
      <3> QED
        BY <3>1, <1>5, <1>6
    <2> QED
      BY <2>1, <2>2
  <1>8. r = s
    BY <1>5, <1>6, <1>7
  <1> QED
    BY <1>p, <1>q, <1>8 DEF Slot

-----------------------------------------------------------------------------
\* A client's vector when an operation of batch b begins and when it is complete.
Start(p, b) == IF Repeat(b) = 1 THEN Of(p) ELSE EachOf(Ways(Repeat(b) - 2))
End(b) == EachOf(Ways(Repeat(b) - 1))

\* The vectors of the clients D before batch b, reduced.
Summed(b, D) == [s \in Sources |-> Total([q \in D |-> Start(q, b)[s]], D)]

LEMMA Repeats ==
  ASSUME NEW b \in Nat \ {0}
  PROVE  /\ Repeat(b) = 1 \/ \E k \in Nat : Repeat(b) = k + 2
         /\ ResetBefore(b) => Repeat(b) = 1
         /\ ~ResetBefore(b) => b - 1 \in Nat \ {0} /\ Repeat(b) # 1 /\ Repeat(b) = Repeat(b - 1) + 1
         /\ Repeat(b) \in Nat
  <1>1. DiscoverRepeats \in Nat /\ DiscoverRepeats >= 1
    BY AllreduceAssumption
  <1>2. Repeat(b) \in Nat /\ Repeat(b) >= 1
    BY <1>1 DEF Repeat
  <1>3. ASSUME Repeat(b) # 1 PROVE \E k \in Nat : Repeat(b) = k + 2
    <2>1. Repeat(b) - 2 \in Nat /\ Repeat(b) = (Repeat(b) - 2) + 2
      BY <1>2, <1>3
    <2> QED
      BY <2>1
  <1> QED
    BY <1>1, <1>2, <1>3 DEF Repeat, ResetBefore

LEMMA StartIs ==
  ASSUME NEW p, NEW b \in Nat \ {0}, NEW s \in Sources
  PROVE  Start(p, b)[s] \in Nat
  <1>1. CASE Repeat(b) = 1
    BY <1>1 DEF Start, Of
  <1>2. CASE Repeat(b) # 1
    <2>p. PICK k \in Nat : Repeat(b) = k + 2
      BY <1>2, Repeats
    <2>1. Start(p, b) = EachOf(Ways(k)) /\ Ways(k) \in Nat
      BY <1>2, <2>p, WaysAre, k + 2 - 2 = k DEF Start
    <2> QED
      BY <2>1 DEF EachOf
  <1> QED
    BY <1>1, <1>2

\* All the clients' vectors together are the result.
LEMMA AllTotal ==
  ASSUME NEW b \in Nat \ {0}, NEW s \in Sources
  PROVE  Total([q \in Clients |-> Start(q, b)[s]], Clients) = End(b)[s]
  <1> DEFINE f == [q \in Clients |-> Start(q, b)[s]]
  <1>0. IsFiniteSet(Clients) /\ Junk \notin Clients /\ Cardinality(Clients) \in Nat
    BY AllreduceAssumption, FS_CardinalityType DEF Procs
  <1>z. Cardinality(Clients) * 0 = 0
    BY <1>0
  <1>1. CASE Repeat(b) = 1
    <2>1. \A q \in Clients : f[q] = IF s = q THEN 1 ELSE 0
      BY <1>1 DEF Start, Of
    <2>2. End(b)[s] = IF s = Junk THEN 0 ELSE 1
      <3>1. 1 - 1 = 0
        OBVIOUS
      <3>2. End(b) = EachOf(Ways(0)) /\ Ways(0) = 1
        BY <1>1, <3>1, WaysAre DEF End
      <3> QED
        BY <3>2 DEF EachOf
    <2> HIDE DEF f
    <2>3. CASE s = Junk
      <3>1. \A q \in Clients : f[q] = 0
        BY <1>0, <2>1, <2>3
      <3>2. Total(f, Clients) = Cardinality(Clients) * 0
        BY <1>0, <3>1, TotalEqual
      <3> QED
        BY <1>z, <2>2, <2>3, <3>2 DEF f
    <2>4. CASE s # Junk
      <3> DEFINE R == Clients \ {s}
      <3>1. s \in Clients /\ s \notin R /\ R \cup {s} = Clients /\ IsFiniteSet(R)
        BY <1>0, <2>4, FS_RemoveElement DEF Sources
      <3>2. f[s] = 1 /\ \A q \in R : f[q] = 0
        BY <2>1, <3>1
      <3> HIDE DEF R
      <3>n. f[s] \in Nat /\ \A q \in R : f[q] = f[q] /\ f[q] \in Nat
        BY <3>2
      <3>3. Total(f, R \cup {s}) = Total(f, R) + f[s]
        BY <3>1, <3>n, TotalAdd
      <3>4. Total(f, R) = Cardinality(R) * 0 /\ Cardinality(R) \in Nat
        BY <3>1, <3>2, TotalEqual, FS_CardinalityType
      <3>5. Total(f, Clients) = 1
        <4>1. Total(f, Clients) = Total(f, R \cup {s})
          BY <3>1
        <4>2. Total(f, R) = 0
          BY <3>4
        <4> QED
          BY <3>2, <3>3, <4>1, <4>2
      <3> QED
        BY <2>2, <2>4, <3>5 DEF f
    <2> QED
      BY <2>3, <2>4
  <1>2. CASE Repeat(b) # 1
    <2>p. PICK k \in Nat : Repeat(b) = k + 2
      BY <1>2, Repeats
    <2>1. Ways(k) \in Nat /\ Ways(k + 1) = Cardinality(Clients) * Ways(k)
      BY WaysAre
    <2>2. Repeat(b) - 2 = k /\ Repeat(b) - 1 = k + 1
      BY <2>p
    <2>3. \A q : Start(q, b) = EachOf(Ways(k))
      BY <1>2, <2>2 DEF Start
    <2>4. End(b) = EachOf(Ways(k + 1))
      BY <2>2 DEF End
    <2>q. PICK n \in Nat : n = IF s = Junk THEN 0 ELSE Ways(k)
      BY <2>1
    <2>5. \A q \in Clients : f[q] = n
      BY <2>3, <2>q DEF EachOf
    <2> HIDE DEF f
    <2>6. Total(f, Clients) = Cardinality(Clients) * n
      BY <1>0, <2>5, TotalEqual
    <2>7. End(b)[s] = Cardinality(Clients) * n
      BY <1>z, <2>1, <2>4, <2>q DEF EachOf
    <2> QED
      BY <2>6, <2>7 DEF f
  <1> QED
    BY <1>1, <1>2

LEMMA SumIsEnd ==
  ASSUME Daemons = {}, NEW p \in Clients, NEW b \in Nat \ {0}
  PROVE  Plus(Start(p, b), Summed(b, Dests(p))) = End(b)
  <1>0. /\ IsFiniteSet(Dests(p)) /\ p \notin Dests(p) /\ Dests(p) \cup {p} = Clients
    BY OnlyClients
  <1>1. ASSUME NEW s \in Sources
        PROVE  Start(p, b)[s] + Summed(b, Dests(p))[s] = End(b)[s]
    <2> DEFINE f == [q \in Clients |-> Start(q, b)[s]]
               g == [q \in Dests(p) |-> Start(q, b)[s]]
    <2>0. \A q : Start(q, b)[s] \in Nat
      BY StartIs
    <2>1. f[p] \in Nat /\ f[p] = Start(p, b)[s] /\ \A q \in Dests(p) : f[q] = g[q] /\ g[q] \in Nat
      BY <1>0, <2>0
    <2>2. Summed(b, Dests(p))[s] = Total(g, Dests(p))
      BY DEF Summed
    <2>3. Total(f, Clients) = End(b)[s]
      BY AllTotal
    <2> HIDE DEF f, g
    <2>4. Total(f, Dests(p) \cup {p}) = Total(g, Dests(p)) + f[p]
      BY <1>0, <2>1, TotalAdd
    <2>5. Total(g, Dests(p)) \in Nat
      BY <1>0, <2>1, PairsFinite
    <2> QED
      <3>1. Total(f, Clients) = Total(f, Dests(p) \cup {p})
        BY <1>0
      <3> QED
        BY <2>1, <2>2, <2>3, <2>4, <2>5, <3>1
  <1>2. End(b) = [s \in Sources |-> End(b)[s]]
    BY DEF End, EachOf
  <1> QED
    BY <1>1, <1>2 DEF Plus

-----------------------------------------------------------------------------
(***************************************************************************)
(* The vectors of a client's pool.  A super request refers to as many as   *)
(* Weight says; all of them are given back when it is over.                *)
(***************************************************************************)
RecordOf(sr) ==
    /\ DOMAIN sr = Fields /\ DOMAIN sr.buf = Clients
    /\ sr.first \in Clients \cup {NoPeer} /\ sr.others \in SUBSET Clients
    /\ sr.first \notin sr.others
    /\ sr.first = NoPeer => sr.others = {}
Records == \A p \in Clients : \A id \in DOMAIN sreq[p] : RecordOf(sreq[p][id])

Weight(sr) == Vectors(sr) + Cardinality(sr.others)
WeightAt(p, id) == IF Live(p, id) THEN Weight(sreq[p][id]) ELSE 0
Weights(p) == [id \in DOMAIN sreq[p] |-> Weight(sreq[p][id])]
Accounts ==
    /\ used \in [Clients -> Int]
    /\ \A p \in Clients : used[p] = Total(Weights(p), DOMAIN sreq[p])

\* A header of s comes into a super request, and its data.
Header(sr, s) == IF sr.first = NoPeer THEN [sr EXCEPT !.first = s] ELSE [sr EXCEPT !.others = @ \cup {s}]
Stored(sr, s, val) == [sr EXCEPT !.buf[s] = val]
AllReduced(sr, id) == [sr EXCEPT !.buf[sr.first] = ReduceAll(@, sr.buf, sr.others, id)]
Filled(p, id, s, sr, val) ==
    IF AllArrived(p, sr) THEN AllReduced(Stored(sr, s, val), id) ELSE Stored(sr, s, val)

LEMMA WeightIs ==
  ASSUME NEW sr, RecordOf(sr)
  PROVE  /\ Weight(sr) \in Nat /\ Vectors(sr) \in Nat
         /\ IsFiniteSet(sr.others) /\ Cardinality(sr.others) \in Nat
  <1>1. IsFiniteSet(sr.others) /\ Cardinality(sr.others) \in Nat
    BY AllreduceAssumption, FS_Subset, FS_CardinalityType DEF RecordOf
  <1>2. Vectors(sr) \in Nat
    BY DEF Vectors
  <1> QED
    BY <1>1, <1>2 DEF Weight

\* Records that agree on what they hold.
LEMMA SameRecord ==
  ASSUME NEW sr, RecordOf(sr), NEW r, DOMAIN r = Fields, DOMAIN r.buf = Clients,
         r.first = sr.first, r.others = sr.others, (r.owner /\ r.set) <=> (sr.owner /\ sr.set)
  PROVE  RecordOf(r) /\ Weight(r) = Weight(sr) /\ SeenBy(r) = SeenBy(sr)
  <1>1. Vectors(r) = Vectors(sr)
    BY DEF Vectors
  <1> QED
    BY <1>1 DEF RecordOf, Weight, SeenBy

LEMMA CountedRecord ==
  ASSUME NEW sr, RecordOf(sr), NEW n
  PROVE  LET r == [sr EXCEPT !.ops = n] IN
         /\ RecordOf(r) /\ Weight(r) = Weight(sr) /\ SeenBy(r) = SeenBy(sr)
         /\ r.first = sr.first /\ r.others = sr.others /\ r.buf = sr.buf /\ r.ops = n
  <1> DEFINE r == [sr EXCEPT !.ops = n]
  <1>1. /\ DOMAIN r = Fields /\ r.first = sr.first /\ r.others = sr.others /\ r.buf = sr.buf
        /\ r.owner = sr.owner /\ r.set = sr.set /\ r.ops = n /\ DOMAIN sr.buf = Clients
    BY DEF RecordOf, Fields
  <1> HIDE DEF r
  <1>2. RecordOf(r) /\ Weight(r) = Weight(sr) /\ SeenBy(r) = SeenBy(sr)
    BY <1>1, SameRecord
  <1> QED
    BY <1>1, <1>2 DEF r

LEMMA HeaderRecord ==
  ASSUME Daemons = {}, NEW sr, RecordOf(sr), NEW s \in Clients, s \notin SeenBy(sr)
  PROVE  LET r == Header(sr, s) IN
         /\ RecordOf(r) /\ Weight(r) = Weight(sr) + 1 /\ SeenBy(r) = SeenBy(sr) \cup {s}
         /\ r.ops = sr.ops /\ r.buf = sr.buf
  <1>0. s # NoPeer /\ IsFiniteSet(sr.others) /\ Cardinality(sr.others) \in Nat
    BY OnlyClients, WeightIs
  <1>a. s # sr.first /\ s \notin sr.others
    BY <1>0 DEF SeenBy
  <1>1. CASE sr.first = NoPeer
    <2> DEFINE r == [sr EXCEPT !.first = s]
    <2>1. /\ DOMAIN r = Fields /\ r.first = s /\ r.others = sr.others /\ r.buf = sr.buf
          /\ r.owner = sr.owner /\ r.set = sr.set /\ r.ops = sr.ops
      BY DEF RecordOf, Fields
    <2>2. Header(sr, s) = r
      BY <1>1 DEF Header
    <2> HIDE DEF r
    <2>3. RecordOf(r)
      BY <1>1, <1>a, <2>1 DEF RecordOf
    <2>4. Vectors(r) = Vectors(sr) + 1
      BY <1>0, <1>1, <2>1 DEF Vectors
    <2>5. Weight(r) = Weight(sr) + 1
      BY <1>0, <2>1, <2>4, WeightIs DEF Weight
    <2>6. SeenBy(r) = SeenBy(sr) \cup {s}
      BY <1>0, <1>1, <2>1 DEF SeenBy
    <2> QED
      BY <2>1, <2>2, <2>3, <2>5, <2>6
  <1>2. CASE sr.first # NoPeer
    <2> DEFINE r == [sr EXCEPT !.others = @ \cup {s}]
    <2>1. /\ DOMAIN r = Fields /\ r.first = sr.first /\ r.others = sr.others \cup {s} /\ r.buf = sr.buf
          /\ r.owner = sr.owner /\ r.set = sr.set /\ r.ops = sr.ops
      BY DEF RecordOf, Fields
    <2>2. Header(sr, s) = r
      BY <1>2 DEF Header
    <2> HIDE DEF r
    <2>3. RecordOf(r)
      BY <1>2, <1>a, <2>1 DEF RecordOf
    <2>4. Vectors(r) = Vectors(sr)
      BY <2>1 DEF Vectors
    <2>5. Cardinality(r.others) = Cardinality(sr.others) + 1
      BY <1>0, <1>a, <2>1, FS_AddElement
    <2>7. Weight(r) = Weight(sr) + 1
      BY <1>0, <2>4, <2>5, WeightIs DEF Weight
    <2>6. SeenBy(r) = SeenBy(sr) \cup {s}
      BY <1>0, <2>1 DEF SeenBy
    <2> QED
      BY <2>1, <2>2, <2>3, <2>7, <2>6
  <1> QED
    BY <1>1, <1>2

LEMMA StoredRecord ==
  ASSUME NEW sr, RecordOf(sr), NEW s, NEW val
  PROVE  LET r == [sr EXCEPT !.buf[s] = val] IN
         /\ RecordOf(r) /\ Weight(r) = Weight(sr) /\ SeenBy(r) = SeenBy(sr)
         /\ r.first = sr.first /\ r.others = sr.others /\ r.ops = sr.ops
         /\ r.buf = [sr.buf EXCEPT ![s] = val]
  <1> DEFINE r == [sr EXCEPT !.buf[s] = val]
  <1>1. /\ DOMAIN r = Fields /\ r.first = sr.first /\ r.others = sr.others
        /\ r.owner = sr.owner /\ r.set = sr.set /\ r.ops = sr.ops
        /\ r.buf = [sr.buf EXCEPT ![s] = val] /\ DOMAIN sr.buf = Clients
    BY DEF RecordOf, Fields
  <1> HIDE DEF r
  <1>2. RecordOf(r) /\ Weight(r) = Weight(sr) /\ SeenBy(r) = SeenBy(sr)
    BY <1>1, SameRecord
  <1> QED
    BY <1>1, <1>2 DEF r

LEMMA FilledRecord ==
  ASSUME NEW sr, RecordOf(sr), NEW p, NEW id, NEW s, NEW val
  PROVE  LET r == Filled(p, id, s, sr, val) IN
         /\ RecordOf(r) /\ Weight(r) = Weight(sr) /\ SeenBy(r) = SeenBy(sr)
         /\ r.first = sr.first /\ r.others = sr.others /\ r.ops = sr.ops
  <1>1. /\ RecordOf(Stored(sr, s, val)) /\ Weight(Stored(sr, s, val)) = Weight(sr)
        /\ SeenBy(Stored(sr, s, val)) = SeenBy(sr) /\ Stored(sr, s, val).first = sr.first
        /\ Stored(sr, s, val).others = sr.others /\ Stored(sr, s, val).ops = sr.ops
    BY StoredRecord DEF Stored
  <1>2. ASSUME NEW t, RecordOf(t)
        PROVE  LET r == AllReduced(t, id) IN
               /\ RecordOf(r) /\ Weight(r) = Weight(t) /\ SeenBy(r) = SeenBy(t)
               /\ r.first = t.first /\ r.others = t.others /\ r.ops = t.ops
    <2>p. PICK v : v = ReduceAll(t.buf[t.first], t.buf, t.others, id)
      OBVIOUS
    <2>1. AllReduced(t, id) = [t EXCEPT !.buf[t.first] = v]
      BY <1>2, <2>p DEF AllReduced, RecordOf, Fields
    <2> QED
      BY <1>2, <2>1, StoredRecord
  <1> QED
    BY <1>1, <1>2 DEF Filled

LEMMA GetRecord ==
  ASSUME Daemons = {}, Records, NEW p \in Clients, NEW id, NEW h
  PROVE  LET r == Get(p, id, h) IN RecordOf(r) /\ Weight(r) = WeightAt(p, id)
  <1>1. CASE Live(p, id)
    BY <1>1 DEF Get, Live, Records, WeightAt
  <1>2. CASE ~Live(p, id)
    <2> DEFINE r == Allocate(p, h)
    <2>1. /\ DOMAIN r = Fields /\ r.first = NoPeer /\ r.others = {} /\ r.owner = ~h /\ r.set = h
          /\ r.buf = [q \in Peers |-> Of(Junk)]
      BY DEF Allocate, Fields
    <2>2. Get(p, id, h) = r /\ WeightAt(p, id) = 0
      BY <1>2 DEF Get, WeightAt
    <2> HIDE DEF r
    <2>3. RecordOf(r)
      BY <2>1, OnlyClients DEF RecordOf
    <2>4. Vectors(r) = 0
      <3>1. ~(r.owner /\ r.set)
        BY <2>1
      <3> QED
        BY <2>1, <3>1 DEF Vectors
    <2>5. Weight(r) = 0
      BY <2>1, <2>4, FS_EmptySet DEF Weight
    <2> QED
      BY <2>2, <2>3, <2>5
  <1> QED
    BY <1>1, <1>2

LEMMA AdoptRecord ==
  ASSUME NEW sr, RecordOf(sr)
  PROVE  LET r == Adopt(sr) IN
         /\ RecordOf(r) /\ Weight(r) = Weight(sr) /\ SeenBy(r) = SeenBy(sr)
         /\ r.first = sr.first /\ r.others = sr.others /\ r.ops = sr.ops /\ r.buf = sr.buf
  <1>1. CASE sr.set
    BY <1>1 DEF Adopt
  <1>2. CASE ~sr.set
    <2> DEFINE r == [sr EXCEPT !.set = TRUE, !.owner = FALSE]
    <2>1. /\ DOMAIN r = Fields /\ r.first = sr.first /\ r.others = sr.others /\ r.buf = sr.buf
          /\ r.owner = FALSE /\ r.set = TRUE /\ r.ops = sr.ops /\ DOMAIN sr.buf = Clients
      BY DEF RecordOf, Fields
    <2>2. Adopt(sr) = r
      BY <1>2 DEF Adopt
    <2> HIDE DEF r
    <2>3. (r.owner /\ r.set) <=> (sr.owner /\ sr.set)
      BY <1>2, <2>1
    <2>4. RecordOf(r) /\ Weight(r) = Weight(sr) /\ SeenBy(r) = SeenBy(sr)
      BY <2>1, <2>3, SameRecord
    <2> QED
      BY <2>1, <2>2, <2>4
  <1> QED
    BY <1>1, <1>2

-----------------------------------------------------------------------------
\* What a pool counts: used has changed by d at p.
UsedBy(p, d) ==
    /\ used' \in [Clients -> Int] /\ used'[p] = used[p] + d
    /\ \A q \in Clients : q # p => used'[q] = used[q]

LEMMA WeightsAre ==
  ASSUME Daemons = {}, IInv, Records, NEW p \in Clients
  PROVE  /\ IsFiniteSet(DOMAIN sreq[p]) /\ DOMAIN Weights(p) = DOMAIN sreq[p]
         /\ \A i \in DOMAIN sreq[p] : Weights(p)[i] = Weight(sreq[p][i]) /\ Weights(p)[i] \in Nat
  <1>1. \A i \in DOMAIN sreq[p] : Weight(sreq[p][i]) \in Nat
    BY WeightIs DEF Records
  <1> QED
    BY <1>1, HeldIds DEF Weights

LEMMA PutAccount ==
  ASSUME Daemons = {}, IInv, Records, Accounts, NEW p \in Clients, NEW id \in Nat, NEW r, RecordOf(r),
         sreq' = Put(p, id, r), UsedBy(p, Weight(r) - WeightAt(p, id))
  PROVE  Records' /\ Accounts'
  <1>0. DOMAIN sreq = Clients /\ DOMAIN sreq' = Clients
    BY DEF IInv, Shapes, Put
  <1>1. /\ DOMAIN sreq'[p] = DOMAIN sreq[p] \cup {id} /\ sreq'[p][id] = r
        /\ \A i \in DOMAIN sreq[p] : i # id => sreq'[p][i] = sreq[p][i]
    BY <1>0 DEF Put
  <1>2. \A q \in Clients : q # p => sreq'[q] = sreq[q]
    BY <1>0 DEF Put
  <1>3. Records'
    <2>1. ASSUME NEW q \in Clients, NEW i \in DOMAIN sreq'[q] PROVE RecordOf(sreq'[q][i])
      BY <1>1, <1>2, <2>1 DEF Records
    <2> QED
      BY <2>1 DEF Records, RecordOf
  <1>4. \A q \in Clients : q # p => Weights(q)' = Weights(q)
    BY <1>2 DEF Weights, Weight, Vectors
  <1> DEFINE S == DOMAIN sreq[p]
             f == Weights(p)
             g == Weights(p)'
  <1>5. /\ IsFiniteSet(S) /\ \A i \in S : f[i] = Weight(sreq[p][i]) /\ f[i] \in Nat
    BY WeightsAre
  <1>6. g = [i \in DOMAIN sreq'[p] |-> Weight(sreq'[p][i])]
    BY DEF Weights, Weight, Vectors
  <1>7. g[id] = Weight(r) /\ Weight(r) \in Nat /\ \A i \in S : i # id => g[i] = f[i]
    BY <1>1, <1>5, <1>6, WeightIs
  <1>8. used[p] = Total(f, S) /\ used[p] \in Int
    BY DEF Accounts
  <1>d. DOMAIN sreq'[p] = S \cup {id}
    BY <1>1
  <1>w. WeightAt(p, id) = IF id \in S THEN f[id] ELSE 0
    BY <1>5 DEF WeightAt, Live
  <1>t. /\ id \in S => Total(g, S) = Total(f, S) - f[id] + g[id]
        /\ id \notin S => Total(g, S \cup {id}) = Total(f, S) + g[id]
        /\ Total(f, S) \in Nat
    <2> HIDE DEF f, g, S
    <2>1. (\A y \in S : f[y] \in Nat) /\ g[id] \in Nat /\ (\A y \in S : y # id => g[y] = f[y])
      BY <1>5, <1>7
    <2>2. ASSUME id \in S PROVE Total(g, S) = Total(f, S) - f[id] + g[id]
      <3>1. IsFiniteSet(S) /\ id \in S
        BY <1>5, <2>2
      <3>2. Replaced(f, g, S, id)
        BY <2>1, <3>1, TotalPut
      <3> QED
        BY <3>2 DEF Replaced
    <2>3. ASSUME id \notin S PROVE Total(g, S \cup {id}) = Total(f, S) + g[id]
      <3>1. \A y \in S : g[y] = f[y] /\ f[y] \in Nat
        BY <2>1, <2>3
      <3> QED
        BY <1>5, <2>1, <2>3, <3>1, TotalAdd
    <2>4. Total(f, S) \in Nat
      BY <1>5, <2>1, PairsFinite
    <2> QED
      BY <2>2, <2>3, <2>4
  <1> HIDE DEF f, g, S
  <1>9. used'[p] = Total(g, S \cup {id})
    <2>u. used'[p] = used[p] + (Weight(r) - WeightAt(p, id))
      BY DEF UsedBy
    <2>1. CASE id \in S
      <3>1. S \cup {id} = S
        BY <2>1
      <3>2. Total(g, S \cup {id}) = Total(f, S) - f[id] + Weight(r) /\ f[id] \in Nat
        BY <1>5, <1>7, <1>t, <2>1, <3>1
      <3>3. WeightAt(p, id) = f[id]
        BY <1>w, <2>1
      <3> QED
        BY <1>t, <1>7, <1>8, <2>u, <3>2, <3>3
    <2>2. CASE id \notin S
      BY <1>t, <1>w, <1>7, <1>8, <2>u, <2>2
    <2> QED
      BY <2>1, <2>2
  <1>10. used'[p] = Total(Weights(p)', DOMAIN sreq'[p])
    BY <1>9, <1>d DEF g
  <1>11. \A q \in Clients : q # p => used'[q] = Total(Weights(q)', DOMAIN sreq'[q])
    BY <1>2, <1>4 DEF UsedBy, Accounts
  <1>12. \A q \in Clients : used'[q] = Total(Weights(q)', DOMAIN sreq'[q])
    BY <1>10, <1>11
  <1>13. Accounts'
    BY <1>12 DEF Accounts, UsedBy, Total
  <1> QED
    BY <1>3, <1>13

LEMMA RemoveAccount ==
  ASSUME Daemons = {}, IInv, Records, Accounts, NEW p \in Clients, NEW id \in Nat,
         sreq' = Remove(p, id), UsedBy(p, 0 - WeightAt(p, id))
  PROVE  Records' /\ Accounts'
  <1>0. DOMAIN sreq = Clients /\ DOMAIN sreq' = Clients
    BY DEF IInv, Shapes, Remove
  <1>1. /\ DOMAIN sreq'[p] = DOMAIN sreq[p] \ {id}
        /\ \A i \in DOMAIN sreq[p] : i # id => sreq'[p][i] = sreq[p][i]
    BY <1>0 DEF Remove
  <1>2. \A q \in Clients : q # p => sreq'[q] = sreq[q]
    BY <1>0 DEF Remove
  <1>3. Records'
    <2>1. ASSUME NEW q \in Clients, NEW i \in DOMAIN sreq'[q] PROVE RecordOf(sreq'[q][i])
      BY <1>1, <1>2, <2>1 DEF Records
    <2> QED
      BY <2>1 DEF Records, RecordOf
  <1>4. \A q \in Clients : q # p => Weights(q)' = Weights(q)
    BY <1>2 DEF Weights, Weight, Vectors
  <1> DEFINE S == DOMAIN sreq[p]
             f == Weights(p)
             g == Weights(p)'
  <1>5. /\ IsFiniteSet(S) /\ \A i \in S : f[i] = Weight(sreq[p][i]) /\ f[i] \in Nat
    BY WeightsAre
  <1>6. g = [i \in DOMAIN sreq'[p] |-> Weight(sreq'[p][i])]
    BY DEF Weights, Weight, Vectors
  <1>7. \A i \in S \ {id} : g[i] = f[i]
    BY <1>1, <1>5, <1>6
  <1>8. used[p] = Total(f, S) /\ used[p] \in Int
    BY DEF Accounts
  <1>d. DOMAIN sreq'[p] = S \ {id}
    BY <1>1
  <1>w. WeightAt(p, id) = IF id \in S THEN f[id] ELSE 0
    BY <1>5 DEF WeightAt, Live
  <1> HIDE DEF f, g, S
  <1>t. (id \in S => Total(f, S \ {id}) = Total(f, S) - f[id]) /\ Total(f, S) \in Nat
    <2>1. \A y \in S : f[y] \in Nat
      BY <1>5
    <2>2. ASSUME id \in S PROVE Total(f, S \ {id}) = Total(f, S) - f[id]
      BY <1>5, <2>1, <2>2, TotalDrop
    <2>3. Total(f, S) \in Nat
      BY <1>5, <2>1, PairsFinite
    <2> QED
      BY <2>2, <2>3
  <1>s. Total(g, S \ {id}) = Total(f, S \ {id})
    BY <1>7, TotalSame
  <1>9. used'[p] = Total(g, S \ {id})
    <2>u. used'[p] = used[p] + (0 - WeightAt(p, id))
      BY DEF UsedBy
    <2>1. CASE id \in S
      <3>1. Total(g, S \ {id}) = Total(f, S) - f[id] /\ f[id] \in Nat /\ WeightAt(p, id) = f[id]
        BY <1>5, <1>s, <1>t, <1>w, <2>1
      <3> QED
        BY <1>t, <1>8, <2>u, <3>1
    <2>2. CASE id \notin S
      <3>1. S \ {id} = S /\ WeightAt(p, id) = 0
        BY <1>w, <2>2
      <3>2. Total(g, S \ {id}) = Total(f, S)
        BY <1>s, <3>1
      <3> QED
        BY <1>t, <1>8, <2>u, <3>1, <3>2
    <2> QED
      BY <2>1, <2>2
  <1>10. used'[p] = Total(Weights(p)', DOMAIN sreq'[p])
    BY <1>9, <1>d DEF g
  <1>11. \A q \in Clients : q # p => used'[q] = Total(Weights(q)', DOMAIN sreq'[q])
    BY <1>2, <1>4 DEF UsedBy, Accounts
  <1>12. \A q \in Clients : used'[q] = Total(Weights(q)', DOMAIN sreq'[q])
    BY <1>10, <1>11
  <1>13. Accounts'
    BY <1>12 DEF Accounts, UsedBy, Total
  <1> QED
    BY <1>3, <1>13

\* allreduce_complete_operation_callback, of a super request to which the caller has
\* added k vectors of the pool.
LEMMA CompleteAccount ==
  ASSUME Daemons = {}, IInv, Records, Accounts, NEW p \in Clients, NEW id \in Nat, NEW sr, RecordOf(sr),
         NEW k \in Nat, Weight(sr) = WeightAt(p, id) + k, NEW n, NEW t, NEW a,
         NEW u \in [Clients -> Int], u[p] = used[p] + k, \A q \in Clients : q # p => u[q] = used[q],
         CompleteOperation(p, id, sr, n, t, u, a)
  PROVE  Records' /\ Accounts'
  <1>0. used \in [Clients -> Int] /\ WeightAt(p, id) \in Nat
    BY WeightIs DEF Accounts, WeightAt, Records, Live
  <1>1. CASE sr.ops > 1
    <2> DEFINE r == [sr EXCEPT !.ops = @ - 1]
    <2>1. sreq' = Put(p, id, r) /\ used' = u
      BY <1>1 DEF CompleteOperation
    <2>2. RecordOf(r) /\ Weight(r) = Weight(sr)
      <3>1. r = [sr EXCEPT !.ops = sr.ops - 1]
        BY DEF RecordOf, Fields
      <3> HIDE DEF r
      <3> QED
        BY <3>1, CountedRecord
    <2> HIDE DEF r
    <2>3. Weight(r) - WeightAt(p, id) = k
      BY <1>0, <2>2
    <2>4. UsedBy(p, Weight(r) - WeightAt(p, id))
      BY <2>1, <2>3 DEF UsedBy
    <2> QED
      BY <2>1, <2>2, <2>4, PutAccount
  <1>2. CASE ~(sr.ops > 1)
    <2> DEFINE done == [sr EXCEPT !.first = NoPeer, !.others = {}]
    <2>1. CompleteClient(p, id, sr, n, t, u, a)
      BY <1>2 DEF CompleteOperation
    <2>2. sreq' = Remove(p, id) /\ used' = [u EXCEPT ![p] = @ - PeerVectors(sr) - Vectors(done)]
      BY <2>1 DEF CompleteClient
    <2>3. done.first = NoPeer /\ done.owner = sr.owner /\ done.set = sr.set
      BY DEF RecordOf, Fields
    <2> HIDE DEF done
    <2>p. PICK x \in Nat, y \in Nat, z \in Nat :
             /\ x = Cardinality(sr.others) /\ y = (IF sr.first # NoPeer THEN 1 ELSE 0)
             /\ z = (IF sr.owner /\ sr.set THEN 1 ELSE 0)
      BY WeightIs
    <2>4. PeerVectors(sr) = x + y /\ Vectors(done) = z /\ Weight(sr) = z + y + x
      <3>1. Vectors(done) = z
        BY <2>3, <2>p DEF Vectors
      <3>2. PeerVectors(sr) = x + y
        BY <2>p DEF PeerVectors
      <3>3. Vectors(sr) = z + y
        BY <2>p DEF Vectors
      <3> QED
        BY <2>p, <3>1, <3>2, <3>3 DEF Weight
    <2>5. used'[p] = u[p] - (x + y) - z /\ used' \in [Clients -> Int]
      BY <2>2, <2>4
    <2>6. used'[p] = used[p] + (0 - WeightAt(p, id))
      BY <1>0, <2>4, <2>5
    <2>7. UsedBy(p, 0 - WeightAt(p, id))
      BY <2>2, <2>5, <2>6 DEF UsedBy
    <2> QED
      BY <2>2, <2>7, RemoveAccount
  <1> QED
    BY <1>1, <1>2

-----------------------------------------------------------------------------
\* The steps, by the super request they hand to allreduce_complete_operation_callback.
LEMMA GatheredIs ==
  ASSUME NEW sr, RecordOf(sr), NEW p, NEW id, NEW s, NEW val, NEW n, NEW t, NEW u,
         Gathered(p, id, s, sr, val, n, t, u)
  PROVE  CompleteOperation(p, id, Filled(p, id, s, sr, val), n, t, u, active)
  <1> DEFINE in == [sr EXCEPT !.buf[s] = val]
             more == [in EXCEPT !.buf[in.first] = ReduceAll(@, in.buf, in.others, id)]
             red == IF AllArrived(p, sr) THEN more ELSE in
  <1>1. CompleteOperation(p, id, red, n, t, u, active)
    BY DEF Gathered
  <1>2. red = Filled(p, id, s, sr, val)
    BY DEF Filled, AllReduced, Stored
  <1> QED
    BY <1>1, <1>2

\* The record r refers to k vectors more than the super request that is there.
Adds(r, p, id, k) == Weight(r) = WeightAt(p, id) + k

\* The super request of p, to which the header of s came.
Headed(sr, p, id, s) ==
    sr.ops = Owed(p, id) /\ SeenBy(sr) = Heads(p, id) \cup {s} /\ sr.buf = Get(p, id, FALSE).buf

\* A vector is taken out of p's pool.
OneMore(p) == [used EXCEPT ![p] = @ + 1]

\* A header that is only announced, and one that comes with its data and leaves r.
Announced(m, p, id, sr) ==
    /\ m.proto = "rndv" /\ sreq' = Put(p, id, sr) /\ used' = OneMore(p)
    /\ net' = net \ {m} /\ rx' = rx \cup {m} /\ tx' = tx /\ vec' = vec
Arrived(m, p, id, r) ==
    /\ m.proto # "rndv" /\ rx' = rx
    /\ CompleteOperation(p, id, r, net \ {m}, tx \cup Sent(m), OneMore(p), active)

LEMMA GatherArriveIs ==
  ASSUME Daemons = {}, IInv, Records, NEW m \in net, NEW s, NEW p, NEW id, Key(m, s, p, id), GatherArrive(m),
         NEW sr, sr = Header(Get(p, id, FALSE), s)
  PROVE  /\ p \in Clients /\ s \in Clients /\ id \in Nat /\ s \in Dests(p) \ Got(p, id)
         /\ Live(p, id) \/ ~(id < nextId[p])
         /\ RecordOf(sr) /\ Adds(sr, p, id, 1) /\ Headed(sr, p, id, s)
         /\ nextId' = nextId /\ batch' = batch
         /\ Announced(m, p, id, sr) \/ Arrived(m, p, id, Filled(p, id, s, sr, Data(m)))
  <1>q. m.src = s /\ m.dst = p /\ m.id = id
    BY DEF Key
  <1>1. /\ p \in Clients /\ s \in Clients /\ id \in Nat
        /\ s \in Dests(p) \ Got(p, id) /\ (Live(p, id) \/ ~(id < nextId[p])) /\ Owed(p, id) # 0
    BY StillAwaited
  <1>g. PICK g : g = Get(p, id, FALSE)
    OBVIOUS
  <1>2. /\ \/ /\ m.proto = "rndv" /\ sreq' = Put(p, id, sr) /\ used' = OneMore(p)
              /\ net' = net \ {m} /\ rx' = rx \cup {m} /\ tx' = tx /\ vec' = vec
           \/ /\ m.proto # "rndv" /\ rx' = rx
              /\ Gathered(p, id, s, sr, Data(m), net \ {m}, tx \cup Sent(m), OneMore(p))
        /\ nextId' = nextId /\ batch' = batch
    BY <1>q DEF GatherArrive, Header, OneMore
  <1>3. g.ops = Owed(p, id) /\ SeenBy(g) = Heads(p, id)
    BY <1>1, <1>g, GetIs DEF IInv, Requests
  <1>4. RecordOf(g) /\ Weight(g) = WeightAt(p, id)
    BY <1>1, <1>g, GetRecord
  <1>5. s \notin Heads(p, id)
    BY DEF Heads, Has
  <1>6. /\ RecordOf(sr) /\ Weight(sr) = WeightAt(p, id) + 1
        /\ sr.ops = Owed(p, id) /\ SeenBy(sr) = Heads(p, id) \cup {s} /\ sr.buf = g.buf
    BY <1>1, <1>g, <1>3, <1>4, <1>5, HeaderRecord
  <1>7. Announced(m, p, id, sr) \/ Arrived(m, p, id, Filled(p, id, s, sr, Data(m)))
    BY <1>2, <1>6, GatheredIs DEF Announced, Arrived
  <1>8. Adds(sr, p, id, 1) /\ Headed(sr, p, id, s)
    BY <1>g, <1>6 DEF Adds, Headed
  <1> QED
    BY <1>1, <1>2, <1>6, <1>7, <1>8

LEMMA GatherDataIs ==
  ASSUME Daemons = {}, IInv, Records, NEW m \in rx, NEW s, NEW p, NEW id, Key(m, s, p, id), GatherData(m)
  PROVE  LET sr == sreq[p][id]
         IN  /\ p \in Clients /\ s \in Clients /\ id \in Nat /\ s \in Dests(p) \ Got(p, id)
             /\ Live(p, id) /\ RecordOf(sr) /\ Weight(sr) = WeightAt(p, id)
             /\ sr.ops = Owed(p, id) /\ SeenBy(sr) = Heads(p, id) /\ s \in Heads(p, id)
             /\ nextId' = nextId /\ batch' = batch /\ rx' = rx \ {m}
             /\ CompleteOperation(p, id, Filled(p, id, s, sr, Data(m)), net, tx \cup {m}, used, active)
  <1>q. m.src = s /\ m.dst = p /\ m.id = id
    BY DEF Key
  <1>1. /\ p \in Clients /\ s \in Clients /\ id \in Nat
        /\ s \in Dests(p) \ Got(p, id) /\ (Live(p, id) \/ ~(id < nextId[p])) /\ Owed(p, id) # 0
    BY StillAwaited
  <1>2. /\ rx' = rx \ {m} /\ nextId' = nextId /\ batch' = batch
        /\ Gathered(p, id, s, sreq[p][id], Data(m), net, tx \cup {m}, used)
    BY <1>q DEF GatherData
  <1>h. s \in Heads(p, id)
    <2>1. ~Has(net, s, p, id) /\ id < nextId[s]
      BY DEF IInv, Messages, Once, Has, Key, Under
    <2> QED
      BY <1>1, <2>1 DEF Heads
  <1>3. /\ Live(p, id) /\ sreq[p][id].ops = Owed(p, id) /\ SeenBy(sreq[p][id]) = Heads(p, id)
    BY <1>1, <1>h DEF IInv, Requests, PairOf, HeldOf, FreeOf
  <1>4. RecordOf(sreq[p][id]) /\ Weight(sreq[p][id]) = WeightAt(p, id)
    BY <1>1, <1>3 DEF Records, Live, WeightAt
  <1>5. CompleteOperation(p, id, Filled(p, id, s, sreq[p][id], Data(m)), net, tx \cup {m}, used, active)
    BY <1>2, <1>4, GatheredIs
  <1> QED
    BY <1>1, <1>2, <1>h, <1>3, <1>4, <1>5

LEMMA ScatterSentIs ==
  ASSUME Daemons = {}, IInv, Records, NEW m \in tx, NEW s, NEW p, NEW id, Key(m, p, s, id), ScatterSent(m)
  PROVE  LET sr == sreq[p][id]
         IN  /\ p \in Clients /\ id \in Nat /\ id < nextId[p]
             /\ Live(p, id) /\ RecordOf(sr) /\ Weight(sr) = WeightAt(p, id)
             /\ sr.ops = Owed(p, id) /\ SeenBy(sr) = Heads(p, id)
             /\ nextId' = nextId /\ batch' = batch /\ rx' = rx
             /\ CompleteOperation(p, id, sr, net, tx \ {m}, used, active)
  <1>q. m.src = p /\ m.dst = s /\ m.id = id
    BY DEF Key
  <1>1. m \in Slow
    BY DEF Slow, Under, IInv, Messages
  <1>2. p \in Clients /\ id \in Nat /\ id < nextId[p] /\ Live(p, id)
    BY <1>q, <1>1, SendsAwaited
  <1>3. /\ rx' = rx /\ nextId' = nextId /\ batch' = batch
        /\ CompleteOperation(p, id, sreq[p][id], net, tx \ {m}, used, active)
    BY <1>q DEF ScatterSent
  <1>4. sreq[p][id].ops = Owed(p, id) /\ SeenBy(sreq[p][id]) = Heads(p, id)
    BY <1>2 DEF IInv, Requests, PairOf, HeldOf
  <1>5. RecordOf(sreq[p][id]) /\ Weight(sreq[p][id]) = WeightAt(p, id)
    BY <1>2 DEF Records, Live, WeightAt
  <1> QED
    BY <1>2, <1>3, <1>4, <1>5

\* The super request of an operation that is submitted, whose short sends are over.
Prepared(c, id, proto) ==
    [Adopt(Get(c, id, TRUE)) EXCEPT !.ops = @ - Cardinality(Short(Dests(c), proto))]

LEMMA SubmitIs ==
  ASSUME Daemons = {}, IInv, Records, NEW c \in Clients, NEW id, id = nextId[c], SubmitOperation(c)
  PROVE  /\ id \in Nat /\ ~(id < nextId[c]) /\ batch' = batch /\ rx' = rx
         /\ pc[c] = "submit" /\ nextId' = [nextId EXCEPT ![c] = @ + 1]
         /\ \E proto \in [Dests(c) -> Protocols] :
               LET r == Prepared(c, id, proto)
                   n == net \cup New(c, id, proto, vec[c][Slot(id)])
                   a == [active EXCEPT ![c] = @ + 1]
               IN  /\ RecordOf(r) /\ Weight(r) = WeightAt(c, id) /\ SeenBy(r) = Heads(c, id)
                   /\ r.ops = Owed(c, id) - Cardinality(Short(Dests(c), proto))
                   /\ r.buf = Get(c, id, TRUE).buf /\ r.first = Get(c, id, TRUE).first
                   /\ CompleteOperation(c, id, r, n, tx, used, a)
  <1>0. id \in Nat /\ ~(id < nextId[c])
    BY DEF IInv, Shapes
  <1> DEFINE g == Get(c, id, TRUE)
             sr == Adopt(g)
             val == vec[c][Slot(id)]
             a == [active EXCEPT ![c] = @ + 1]
  <1>1. /\ pc[c] = "submit" /\ nextId' = [nextId EXCEPT ![c] = @ + 1]
        /\ Scatter(c, id, sr, val, net, tx, used, a) /\ batch' = batch /\ rx' = rx
    BY OnlyClients DEF SubmitOperation
  <1>2. g.ops = Owed(c, id) /\ SeenBy(g) = Heads(c, id)
    BY <1>0, GetIs DEF IInv, Requests
  <1>3. RecordOf(g) /\ Weight(g) = WeightAt(c, id)
    BY GetRecord
  <1> HIDE DEF g, a, val
  <1>4. /\ RecordOf(sr) /\ Weight(sr) = WeightAt(c, id) /\ SeenBy(sr) = Heads(c, id)
        /\ sr.ops = Owed(c, id) /\ sr.buf = g.buf /\ sr.first = g.first
    BY <1>2, <1>3, AdoptRecord
  <1> HIDE DEF sr
  <1>p. PICK proto \in [Dests(c) -> Protocols] :
           CompleteOperation(c, id, [sr EXCEPT !.ops = @ - Cardinality(Short(Dests(c), proto))],
                             net \cup New(c, id, proto, val), tx, used, a)
    BY <1>1 DEF Scatter, New
  <1> DEFINE r == [sr EXCEPT !.ops = @ - Cardinality(Short(Dests(c), proto))]
  <1>5. r = [sr EXCEPT !.ops = sr.ops - Cardinality(Short(Dests(c), proto))]
    BY <1>4 DEF RecordOf, Fields
  <1>6. r = Prepared(c, id, proto)
    BY DEF Prepared, sr, g
  <1>7. CompleteOperation(c, id, r, net \cup New(c, id, proto, val), tx, used, a)
    BY <1>p
  <1> HIDE DEF r
  <1>8. /\ RecordOf(r) /\ Weight(r) = WeightAt(c, id) /\ SeenBy(r) = Heads(c, id)
        /\ r.ops = Owed(c, id) - Cardinality(Short(Dests(c), proto)) /\ r.buf = g.buf
        /\ r.first = g.first
    BY <1>4, <1>5, CountedRecord
  <1> QED
    BY <1>0, <1>1, <1>6, <1>7, <1>8 DEF g, a, val

-----------------------------------------------------------------------------
LEMMA NextAccounts ==
  ASSUME Daemons = {}, IInv, Records, Accounts, [Next]_vars
  PROVE  Records' /\ Accounts'
  <1>0. \A m \in net \cup rx \cup tx : m.kind = "op"
    BY DEF IInv, Messages, Under
  <1>u. used \in [Clients -> Int]
    BY DEF Accounts
  <1>k. \A p \in Clients : used[p] = used[p] + 0
    BY <1>u
  <1>s. ASSUME sreq' = sreq, used' = used PROVE Records' /\ Accounts'
    BY <1>s DEF Records, RecordOf, Accounts, Weights, Weight, Vectors, Total
  <1>w. ASSUME NEW p \in Clients, NEW id \in Nat PROVE WeightAt(p, id) \in Nat
    BY WeightIs DEF WeightAt, Records, Live
  <1>1. ASSUME NEW c \in Clients, SubmitOperation(c) PROVE Records' /\ Accounts'
    <2>p. PICK id : id = nextId[c]
      OBVIOUS
    <2> DEFINE n(proto) == net \cup New(c, id, proto, vec[c][Slot(id)])
               a == [active EXCEPT ![c] = @ + 1]
    <2>1. /\ id \in Nat
          /\ \E proto \in [Dests(c) -> Protocols] :
                LET r == Prepared(c, id, proto) IN
                /\ RecordOf(r) /\ Weight(r) = WeightAt(c, id)
                /\ CompleteOperation(c, id, r, n(proto), tx, used, a)
      BY <1>1, <2>p, SubmitIs, Zenon
    <2> HIDE DEF n, a
    <2>2. PICK r, t : RecordOf(r) /\ Weight(r) = WeightAt(c, id) /\ CompleteOperation(c, id, r, t, tx, used, a)
      BY <2>1
    <2>3. Weight(r) = WeightAt(c, id) + 0
      BY <1>w, <2>1, <2>2
    <2> QED
      BY <1>u, <1>k, <2>1, <2>2, <2>3, CompleteAccount
  <1>2. ASSUME NEW c \in Clients, NextBatch(c) PROVE Records' /\ Accounts'
    BY <1>2, <1>s DEF NextBatch
  <1>3. ASSUME NEW m \in net, GatherArrive(m) PROVE Records' /\ Accounts'
    <2>p. PICK s, p, id : Key(m, s, p, id)
      BY DEF Key
    <2>q. PICK sr : sr = Header(Get(p, id, FALSE), s)
      OBVIOUS
    <2>1. /\ p \in Clients /\ id \in Nat /\ RecordOf(sr) /\ Adds(sr, p, id, 1)
          /\ Announced(m, p, id, sr) \/ Arrived(m, p, id, Filled(p, id, s, sr, Data(m)))
      BY <1>3, <2>p, <2>q, GatherArriveIs
    <2>2. /\ OneMore(p) \in [Clients -> Int] /\ OneMore(p)[p] = used[p] + 1
          /\ \A q \in Clients : q # p => OneMore(p)[q] = used[q]
      BY <1>u, <2>1 DEF OneMore
    <2>3. CASE Announced(m, p, id, sr)
      <3>0. sreq' = Put(p, id, sr) /\ used' = OneMore(p)
        BY <2>3 DEF Announced
      <3>1. Weight(sr) - WeightAt(p, id) = 1
        BY <1>w, <2>1 DEF Adds
      <3>2. UsedBy(p, Weight(sr) - WeightAt(p, id))
        BY <2>2, <3>0, <3>1 DEF UsedBy
      <3> QED
        BY <2>1, <3>0, <3>2, PutAccount
    <2>4. CASE Arrived(m, p, id, Filled(p, id, s, sr, Data(m)))
      <3>p. PICK r : r = Filled(p, id, s, sr, Data(m))
        OBVIOUS
      <3>1. RecordOf(r) /\ Weight(r) = WeightAt(p, id) + 1
        BY <2>1, <3>p, FilledRecord DEF Adds
      <3>2. CompleteOperation(p, id, r, net \ {m}, tx \cup Sent(m), OneMore(p), active)
        BY <2>4, <3>p DEF Arrived
      <3> QED
        BY <2>1, <2>2, <3>1, <3>2, CompleteAccount
    <2> QED
      BY <2>1, <2>3, <2>4
  <1>4. ASSUME NEW m \in rx, GatherData(m) PROVE Records' /\ Accounts'
    <2>p. PICK s, p, id : Key(m, s, p, id)
      BY DEF Key
    <2>1. /\ p \in Clients /\ id \in Nat /\ RecordOf(sreq[p][id]) /\ Weight(sreq[p][id]) = WeightAt(p, id)
          /\ CompleteOperation(p, id, Filled(p, id, s, sreq[p][id], Data(m)), net, tx \cup {m}, used, active)
      BY <1>4, <2>p, GatherDataIs
    <2>q. PICK r : r = Filled(p, id, s, sreq[p][id], Data(m))
      OBVIOUS
    <2>2. RecordOf(r) /\ Weight(r) = WeightAt(p, id)
      BY <2>1, <2>q, FilledRecord
    <2>3. Weight(r) = WeightAt(p, id) + 0
      BY <1>w, <2>1, <2>2
    <2>4. CompleteOperation(p, id, r, net, tx \cup {m}, used, active)
      BY <2>1, <2>q
    <2> QED
      BY <1>u, <1>k, <2>1, <2>2, <2>3, <2>4, CompleteAccount
  <1>5. ASSUME NEW m \in tx, ScatterSent(m) PROVE Records' /\ Accounts'
    <2>p. PICK p, s, id : Key(m, p, s, id)
      BY DEF Key
    <2>1. /\ p \in Clients /\ id \in Nat /\ RecordOf(sreq[p][id]) /\ Weight(sreq[p][id]) = WeightAt(p, id)
          /\ CompleteOperation(p, id, sreq[p][id], net, tx \ {m}, used, active)
      BY <1>5, <2>p, ScatterSentIs
    <2>2. Weight(sreq[p][id]) = WeightAt(p, id) + 0
      BY <1>w, <2>1
    <2> QED
      BY <1>u, <1>k, <2>1, <2>2, CompleteAccount
  <1>6. CASE UNCHANGED vars
    BY <1>6, <1>s DEF vars
  <1> QED
    BY <1>0, <1>1, <1>2, <1>3, <1>4, <1>5, <1>6
       DEF Next, Step, Finished, ClientArrive, ResultArrive, ClientData, ResultData, ResultSent

LEMMA InitAccounts == ASSUME Daemons = {}, Init PROVE Records /\ Accounts
  <1>1. /\ used = [p \in Clients |-> 0] /\ DOMAIN sreq = Clients
        /\ \A p \in Clients : DOMAIN sreq[p] = {}
    BY OnlyClients DEF Init
  <1>2. ASSUME NEW p \in Clients PROVE Total(Weights(p), DOMAIN sreq[p]) = 0
    BY <1>1, TotalEmpty
  <1> QED
    BY <1>1, <1>2 DEF Records, Accounts

LEMMA AccountsBalance == ASSUME Daemons = {}, IInv, Accounts PROVE PoolAccount
  <1>1. \A p \in Procs : {m \in rx : m.kind = "ctrl" /\ m.dst = p} = {}
    BY DEF IInv, Messages, Under
  <1>2. ASSUME NEW p \in Procs
        PROVE  /\ used[p] = Total(Weights(p), DOMAIN sreq[p]) /\ used[p] \in Int
               /\ Weights(p) = [id \in DOMAIN sreq[p] |->
                                   Vectors(sreq[p][id]) + Cardinality(sreq[p][id].others)]
    BY OnlyClients DEF Accounts, Weights, Weight
  <1>3. Cardinality({}) = 0
    BY FS_EmptySet
  <1>4. ASSUME NEW p \in Procs
        PROVE  used[p] = Total([id \in DOMAIN sreq[p] |->
                                  Vectors(sreq[p][id]) + Cardinality(sreq[p][id].others)],
                               DOMAIN sreq[p])
                         + Cardinality({m \in rx : m.kind = "ctrl" /\ m.dst = p})
    <2>1. Cardinality({m \in rx : m.kind = "ctrl" /\ m.dst = p}) = 0
      BY <1>1, <1>3
    <2>2. used[p] = used[p] + 0
      BY <1>2
    <2> QED
      BY <1>2, <2>1, <2>2
  <1> QED
    BY <1>4 DEF PoolAccount

-----------------------------------------------------------------------------
(***************************************************************************)
(* What the vectors hold.  A client's vector is Start of its batch until   *)
(* the operation is over, then End.  What arrives for an operation is the  *)
(* Start of its batch, whether UCX copied it when it was sent or reads it  *)
(* now, since a vector that is still to be read is not yet reduced into.   *)
(***************************************************************************)
Over(p, id) == id < nextId[p] /\ ~Live(p, id)
SlotOf(p, id, b) == vec[p][Slot(id)] = IF Over(p, id) THEN End(b) ELSE Start(p, b)
Slots == \A p \in Clients, id \in Nat, b \in Nat \ {0} :
            (b = batch[p] /\ InBatch(id, b)) => SlotOf(p, id, b)

WireOf(m, b) == InBatch(m.id, b) => m.val = Start(m.src, b)
Wires == \A m \in Under : /\ m.proto \in Protocols
                          /\ m.proto = "short" => \A b \in Nat \ {0} : WireOf(m, b)

\* The peers' vectors in super request sr of p, of which those of got are in: as they
\* came, until all of them are in and reduced into the first.
BufferOf(sr, p, got, b) ==
    IF got = Dests(p) THEN Dests(p) # {} => sr.buf[sr.first] = Summed(b, Dests(p))
                      ELSE \A q \in got : sr.buf[q] = Start(q, b)
Buffers == \A p \in Clients, id \in Nat, b \in Nat \ {0} :
              (Live(p, id) /\ InBatch(id, b)) => BufferOf(sreq[p][id], p, Got(p, id), b)

\* allreduce_gather_callback takes the vectors for complete when all headers are there:
\* that is so when no vector is only announced, or there is one peer.
InOneGo == "rndv" \notin Protocols \/ Cardinality(Clients) <= 2

LEMMA SummedOne ==
  ASSUME NEW b \in Nat \ {0}, NEW q
  PROVE  Summed(b, {q}) = Start(q, b) /\ Summed(b, {}) = [s \in Sources |-> 0]
  <1>1. ASSUME NEW s \in Sources PROVE Summed(b, {q})[s] = Start(q, b)[s]
    <2> DEFINE f == [x \in {q} |-> Start(x, b)[s]]
    <2>1. f[q] = Start(q, b)[s] /\ f[q] \in Nat
      BY StartIs
    <2>2. Summed(b, {q})[s] = Total(f, {q})
      BY DEF Summed
    <2> HIDE DEF f
    <2>3. Total(f, {} \cup {q}) = Total(f, {}) + f[q]
      BY <2>1, FS_EmptySet, TotalAdd
    <2>4. Total(f, {}) = 0
      BY TotalEmpty
    <2>5. {} \cup {q} = {q}
      OBVIOUS
    <2>6. Total(f, {q}) = f[q]
      BY <2>1, <2>3, <2>4, <2>5
    <2> QED
      BY <2>1, <2>2, <2>6
  <1>2. Start(q, b) = [s \in Sources |-> Start(q, b)[s]]
    BY DEF Start, Of, EachOf
  <1>3. Summed(b, {q}) = [s \in Sources |-> Summed(b, {q})[s]]
    BY DEF Summed
  <1>4. \A s \in Sources : Total([x \in {} |-> Start(x, b)[s]], {}) = 0
    BY TotalEmpty
  <1> QED
    BY <1>1, <1>2, <1>3, <1>4 DEF Summed

\* The vector of s comes in: the vectors G are in, the headers H are.
LEMMA FilledBuffer ==
  ASSUME Daemons = {}, InOneGo, NEW p \in Clients, NEW id, id # 0, NEW b \in Nat \ {0},
         NEW sr, RecordOf(sr), NEW s, NEW val, val = Start(s, b),
         NEW H, H = SeenBy(sr), H \subseteq Dests(p), NEW G, G \subseteq H, s \in G,
         \A q \in G \ {s} : sr.buf[q] = Start(q, b),
         "rndv" \notin Protocols => G = H
  PROVE  BufferOf(Filled(p, id, s, sr, val), p, G, b)
  <1> DEFINE in == Stored(sr, s, val)
             D == Dests(p)
  <1>0. IsFiniteSet(D) /\ D \subseteq Clients /\ Cardinality(D) \in Nat
    BY OnlyClients
  <1>1. /\ RecordOf(in) /\ in.first = sr.first /\ in.others = sr.others
        /\ in.buf = [sr.buf EXCEPT ![s] = val]
    BY StoredRecord DEF Stored
  <1> HIDE DEF in, D
  <1>2. \A q \in G : in.buf[q] = Start(q, b)
    <2>1. DOMAIN sr.buf = Clients /\ G \subseteq Clients
      BY <1>0 DEF RecordOf, D
    <2> QED
      BY <1>1, <2>1
  <1>p. PICK f, o : f = sr.first /\ o = sr.others
    OBVIOUS
  <1>3. f # NoPeer /\ f \notin o /\ NoPeer \notin o
    BY <1>p, OnlyClients DEF RecordOf, SeenBy
  <1>4. H = o \cup {f}
    BY <1>3, <1>p DEF SeenBy
  <1>5. IsFiniteSet(o) /\ Cardinality(o) \in Nat /\ Cardinality(H) = Cardinality(o) + 1 /\ IsFiniteSet(H)
    BY <1>p, <1>3, <1>4, WeightIs, FS_AddElement
  <1>6. Cardinality(H) = Cardinality(D) => H = D
    BY <1>0, FS_Subset DEF D
  <1>7. CASE AllArrived(p, sr)
    <2>1. Cardinality(o) + 1 = Cardinality(D) /\ o # {}
      BY <1>7, <1>p DEF AllArrived, D
    <2>2. H = D
      BY <1>5, <1>6, <2>1
    <2>3. G = D
      <3>1. Cardinality(o) # 0
        BY <1>5, <2>1, FS_EmptySet
      <3>2. Cardinality(Clients) = Cardinality(D) + 1
        <4>1. D \cup {p} = Clients /\ p \notin D
          BY OnlyClients DEF D
        <4> QED
          BY <1>0, <4>1, FS_AddElement
      <3>3. ~(Cardinality(Clients) <= 2)
        BY <1>5, <2>1, <3>1, <3>2
      <3> QED
        BY <2>2, <3>3 DEF InOneGo
    <2>4. Filled(p, id, s, sr, val) = AllReduced(in, id)
      BY <1>7 DEF Filled, in
    <2>5. AllReduced(in, id).first = f /\ AllReduced(in, id).buf[f] = ReduceAll(in.buf[f], in.buf, o, id)
      <3>1. f \in Clients
        BY <1>0, <1>4 DEF D
      <3>2. DOMAIN in = Fields /\ DOMAIN in.buf = Clients
        BY <1>1 DEF RecordOf
      <3>v. PICK v : v = ReduceAll(in.buf[f], in.buf, o, id)
        OBVIOUS
      <3>3. AllReduced(in, id) = [in EXCEPT !.buf[f] = v]
        BY <1>1, <1>p, <3>v, <3>2 DEF AllReduced, Fields
      <3>4. [in EXCEPT !.buf[f] = v].first = in.first /\ [in EXCEPT !.buf[f] = v].buf = [in.buf EXCEPT ![f] = v]
        BY <3>2 DEF Fields
      <3> QED
        BY <1>1, <1>p, <3>1, <3>2, <3>3, <3>4, <3>v
    <2>6. ReduceAll(in.buf[f], in.buf, o, id) = Summed(b, D)
      <3>1. f \in G /\ o \subseteq G /\ D = o \cup {f}
        BY <1>4, <2>2, <2>3
      <3>2. ReduceAll(in.buf[f], in.buf, o, id)
              = [x \in Sources |-> in.buf[f][x] + Total([q \in o |-> in.buf[q][x]], o)]
        BY DEF ReduceAll, Empty
      <3>3. ASSUME NEW x \in Sources
            PROVE  in.buf[f][x] + Total([q \in o |-> in.buf[q][x]], o) = Summed(b, D)[x]
        <4> DEFINE g == [q \in o |-> in.buf[q][x]]
                   h == [q \in D |-> Start(q, b)[x]]
        <4>0. \A q : Start(q, b)[x] \in Nat
          BY StartIs
        <4>1. \A q \in o : h[q] = g[q] /\ g[q] \in Nat
          BY <1>2, <3>1, <4>0
        <4>2. h[f] = in.buf[f][x] /\ h[f] \in Nat
          BY <1>2, <3>1, <4>0
        <4>3. Summed(b, D)[x] = Total(h, D)
          BY DEF Summed
        <4> HIDE DEF g, h
        <4>4. Total(h, o \cup {f}) = Total(g, o) + h[f]
          <5>1. IsFiniteSet(o) /\ f \notin o /\ h[f] \in Nat
            BY <1>3, <1>5, <4>2
          <5> QED
            BY <4>1, <5>1, TotalAdd
        <4>5. Total(g, o) \in Nat
          BY <1>5, <4>1, PairsFinite
        <4>6. Summed(b, D)[x] = Total(g, o) + h[f]
          <5>1. PICK E : E = o \cup {f} /\ E = D
            BY <3>1
          <5>2. Total(h, E) = Total(g, o) + h[f]
            BY <4>4, <5>1
          <5>3. Summed(b, D)[x] = Total(h, E)
            BY <4>3, <5>1
          <5> QED
            BY <5>2, <5>3
        <4>7. h[f] + Total(g, o) = Summed(b, D)[x]
          BY <4>2, <4>5, <4>6
        <4> QED
          BY <4>2, <4>7 DEF g
      <3>4. Summed(b, D) = [x \in Sources |-> Summed(b, D)[x]]
        BY DEF Summed
      <3> QED
        BY <3>2, <3>3, <3>4
    <2> QED
      BY <2>3, <2>4, <2>5, <2>6 DEF BufferOf, D
  <1>8. CASE ~AllArrived(p, sr)
    <2>1. Filled(p, id, s, sr, val) = in
      BY <1>8 DEF Filled, in
    <2>2. CASE G # D
      BY <1>2, <2>1, <2>2 DEF BufferOf, D
    <2>3. CASE G = D
      <3>1. H = D
        BY <2>3 DEF D
      <3>2. o = {}
        <4>1. ~(Cardinality(o) + 1 = Cardinality(D) /\ o # {})
          BY <1>8, <1>p DEF AllArrived, D
        <4> QED
          BY <1>5, <3>1, <4>1
      <3>3. D = {f} /\ f = s
        BY <1>4, <2>3, <3>1, <3>2
      <3>4. in.buf[in.first] = Summed(b, D)
        BY <1>1, <1>2, <1>p, <2>3, <3>3, SummedOne
      <3> QED
        BY <2>1, <2>3, <3>4 DEF BufferOf, D
    <2> QED
      BY <2>2, <2>3
  <1> QED
    BY <1>7, <1>8

\* What a message brings.
LEMMA DataIs ==
  ASSUME Daemons = {}, IInv, Slots, Wires, NEW m \in net \cup rx, NEW s, NEW p, NEW id, Key(m, s, p, id),
         NEW b \in Nat \ {0}, InBatch(id, b)
  PROVE  Data(m) = Start(s, b)
  <1>q. m.src = s /\ m.dst = p /\ m.id = id /\ m \in Under
    BY DEF Key, Under
  <1>1. CASE m.proto = "short"
    BY <1>q, <1>1 DEF Data, Wires, WireOf
  <1>2. CASE m.proto # "short"
    <2>1. m \in Slow
      BY <1>2, <1>q DEF Slow
    <2>2. s \in Clients /\ id \in Nat /\ id < nextId[s] /\ Live(s, id) /\ id \in Own(s)
      BY <1>q, <2>1, SendsAwaited
    <2>3. batch[s] \in Nat /\ InBatch(id, batch[s])
      BY <2>2, WithinBatch DEF IInv, Shapes, Batches, BatchesOf, InBatch
    <2>4. b = batch[s]
      BY <2>2, <2>3, OneBatch
    <2>5. SlotOf(s, id, b)
      BY <2>2, <2>4 DEF Slots
    <2> QED
      BY <1>q, <1>2, <2>2, <2>5 DEF Data, Buffer, SlotOf, Over
  <1> QED
    BY <1>1, <1>2

-----------------------------------------------------------------------------
\* The result of an operation all of whose vectors are in.
LEMMA ResultIs ==
  ASSUME Daemons = {}, NEW p \in Clients, NEW id, id # 0, NEW b \in Nat \ {0}, NEW r, RecordOf(r),
         SeenBy(r) = Dests(p), BufferOf(r, p, Dests(p), b)
  PROVE  WithPeers(Start(p, b), r, id) = End(b)
  <1>1. Plus(Start(p, b), Summed(b, Dests(p))) = End(b)
    BY SumIsEnd
  <1>2. CASE r.first = NoPeer
    <2>1. Dests(p) = {}
      BY <1>2 DEF RecordOf, SeenBy
    <2>2. \A s \in Sources : Start(p, b)[s] \in Nat
      BY StartIs
    <2>3. Summed(b, {}) = [s \in Sources |-> 0]
      BY SummedOne
    <2>4. Start(p, b) = [s \in Sources |-> Start(p, b)[s]]
      BY DEF Start, Of, EachOf
    <2>5. Plus(Start(p, b), Summed(b, {})) = Start(p, b)
      BY <2>2, <2>3, <2>4 DEF Plus
    <2> QED
      BY <1>1, <1>2, <2>1, <2>5 DEF WithPeers
  <1>3. CASE r.first # NoPeer
    <2>1. Dests(p) # {}
      BY <1>3 DEF SeenBy
    <2>2. r.buf[r.first] = Summed(b, Dests(p))
      BY <2>1 DEF BufferOf
    <2> QED
      BY <1>1, <1>3, <2>2 DEF WithPeers, Reduce, Empty
  <1> QED
    BY <1>2, <1>3

\* The invariants after a step, with the primes on the variables.
LEMMA BuffersNext ==
  ASSUME \A p \in Clients, id \in Nat, b \in Nat \ {0} :
            (id \in DOMAIN sreq'[p] /\ InBatch(id, b)) => BufferOf(sreq'[p][id], p, Got(p, id)', b)
  PROVE  Buffers'
  <1>1. ASSUME NEW p \in Clients, NEW id \in Nat, NEW b \in Nat \ {0}, Live(p, id)', InBatch(id, b)'
        PROVE  BufferOf(sreq[p][id], p, Got(p, id), b)'
    <2>1. id \in DOMAIN sreq'[p] /\ InBatch(id, b)
      BY <1>1 DEF Live, InBatch
    <2>2. BufferOf(sreq'[p][id], p, Got(p, id)', b)
      BY <2>1
    <2> QED
      BY <2>2 DEF BufferOf, Dests, Summed, Start
  <1> QED
    BY <1>1 DEF Buffers

LEMMA SlotsNext ==
  ASSUME \A p \in Clients, id \in Nat, b \in Nat \ {0} :
            (b = batch'[p] /\ InBatch(id, b)) =>
               vec'[p][Slot(id)] = IF id < nextId'[p] /\ id \notin DOMAIN sreq'[p] THEN End(b) ELSE Start(p, b)
  PROVE  Slots'
  <1>1. ASSUME NEW p \in Clients, NEW id \in Nat, NEW b \in Nat \ {0}, b = batch'[p], InBatch(id, b)'
        PROVE  SlotOf(p, id, b)'
    <2>1. InBatch(id, b)
      BY <1>1 DEF InBatch
    <2>2. vec'[p][Slot(id)] = IF id < nextId'[p] /\ id \notin DOMAIN sreq'[p] THEN End(b) ELSE Start(p, b)
      BY <1>1, <2>1
    <2> QED
      BY <2>2 DEF SlotOf, Slot, Over, Live, End, Start
  <1> QED
    BY <1>1 DEF Slots

\* A callback, or the end of a scatter: allreduce_complete_operation_callback for r.
LEMMA CompleteValues ==
  ASSUME Daemons = {}, IInv, Slots, Buffers, NEW p \in Clients, NEW id \in Nat, NEW r, RecordOf(r),
         NEW n, NEW t, NEW u, NEW a, CompleteOperation(p, id, r, n, t, u, a),
         r.ops = Owed(p, id)' + 1, SeenBy(r) = Heads(p, id)', batch' = batch,
         Live(p, id) \/ ~(id < nextId[p]),
         id < nextId'[p] => InBatch(id, batch[p]),
         \A x \in Clients : \A i \in Nat : (x # p \/ i # id) => SetsKept(x, i),
         \A b \in Nat \ {0} : InBatch(id, b) => BufferOf(r, p, Got(p, id)', b)
  PROVE  Slots' /\ Buffers'
  <1>0. /\ DOMAIN sreq = Clients /\ DOMAIN vec = Clients /\ DOMAIN vec[p] = 0 .. BatchSize - 1
        /\ batch[p] \in Nat
    BY DEF IInv, Shapes
  <1>1. /\ Owed(p, id)' \in Nat /\ Got(p, id)' \in SUBSET Dests(p)
        /\ Owed(p, id)' = 0 => (id < nextId'[p] /\ Got(p, id)' = Dests(p))
    BY PairSetsNext
  <1>e. Elsewhere(p, id)
    BY <1>0, CompleteEffect DEF Counted
  <1>d. \A x \in Clients : \A i \in Nat : (x # p \/ i # id) =>
           /\ i \in DOMAIN sreq'[x] <=> i \in DOMAIN sreq[x]
           /\ i \in DOMAIN sreq[x] => sreq'[x][i] = sreq[x][i]
           /\ i < nextId'[x] <=> i < nextId[x]
           /\ Got(x, i)' = Got(x, i)
    BY <1>e DEF Elsewhere, SetsKept, Got
  \* What it does here.
  <1>h. \/ /\ id \in DOMAIN sreq'[p] /\ vec' = vec
           /\ sreq'[p][id].buf = r.buf /\ sreq'[p][id].first = r.first
        \/ /\ id \notin DOMAIN sreq'[p] /\ Owed(p, id)' = 0
           /\ vec' = [vec EXCEPT ![p][Slot(id)] = WithPeers(@, r, id)]
    <2>1. CASE r.ops > 1
      <3>1. sreq' = Put(p, id, [r EXCEPT !.ops = @ - 1]) /\ vec' = vec
        BY <2>1 DEF CompleteOperation
      <3>2. id \in DOMAIN sreq'[p] /\ sreq'[p][id] = [r EXCEPT !.ops = @ - 1]
        BY <1>0, <3>1, PutEffect
      <3>3. [r EXCEPT !.ops = @ - 1].buf = r.buf /\ [r EXCEPT !.ops = @ - 1].first = r.first
        BY DEF RecordOf, Fields
      <3> QED
        BY <3>1, <3>2, <3>3
    <2>2. CASE ~(r.ops > 1)
      <3>1. CompleteClient(p, id, r, n, t, u, a)
        BY <2>2 DEF CompleteOperation
      <3>2. sreq' = Remove(p, id) /\ vec' = [vec EXCEPT ![p][Slot(id)] = WithPeers(@, r, id)]
        BY <3>1 DEF CompleteClient
      <3>3. id \notin DOMAIN sreq'[p]
        BY <1>0, <3>2, RemoveEffect
      <3>4. Owed(p, id)' = 0
        BY <1>1, <2>2
      <3> QED
        BY <3>2, <3>3, <3>4
    <2> QED
      BY <2>1, <2>2
  <1>2. Buffers'
    <2>1. ASSUME NEW x \in Clients, NEW i \in Nat, NEW b \in Nat \ {0}, i \in DOMAIN sreq'[x], InBatch(i, b)
          PROVE  BufferOf(sreq'[x][i], x, Got(x, i)', b)
      <3>1. CASE x # p \/ i # id
        BY <1>d, <2>1, <3>1 DEF Buffers, Live
      <3>2. CASE x = p /\ i = id
        <4>1. sreq'[p][id].buf = r.buf /\ sreq'[p][id].first = r.first /\ BufferOf(r, p, Got(p, id)', b)
          BY <1>h, <2>1, <3>2
        <4> QED
          BY <3>2, <4>1 DEF BufferOf
      <3> QED
        BY <3>1, <3>2
    <2> QED
      BY <2>1, BuffersNext
  <1>3. Slots'
    <2>1. ASSUME NEW x \in Clients, NEW i \in Nat, NEW b \in Nat \ {0}, b = batch'[x], InBatch(i, b)
          PROVE  vec'[x][Slot(i)] = IF i < nextId'[x] /\ i \notin DOMAIN sreq'[x] THEN End(b) ELSE Start(x, b)
      <3>0. SlotOf(x, i, b) /\ batch[x] = b
        BY <2>1 DEF Slots
      <3>s. Slot(i) \in 0 .. BatchSize - 1 /\ Slot(id) \in 0 .. BatchSize - 1
        BY SlotInRange
      <3>1. CASE x # p \/ i # id
        <4>1. vec'[x][Slot(i)] = vec[x][Slot(i)]
          <5>1. CASE vec' = vec
            BY <5>1
          <5>2. CASE Owed(p, id)' = 0 /\ vec' = [vec EXCEPT ![p][Slot(id)] = WithPeers(@, r, id)]
            <6>1. CASE x # p
              BY <1>0, <5>2, <6>1
            <6>2. CASE x = p
              <7>1. InBatch(id, b) /\ i # id
                BY <1>1, <3>0, <3>1, <5>2, <6>2
              <7>2. Slot(i) # Slot(id)
                BY <2>1, <7>1, SlotsOfBatch
              <7>3. PICK j, k, v : j = Slot(i) /\ k = Slot(id) /\ v = WithPeers(vec[p][k], r, id)
                OBVIOUS
              <7>4. vec' = [vec EXCEPT ![p] = [vec[p] EXCEPT ![k] = v]]
                BY <1>0, <5>2, <7>3
              <7>5. vec'[p] = [vec[p] EXCEPT ![k] = v]
                BY <1>0, <7>4
              <7>6. vec'[p][j] = vec[p][j]
                BY <1>0, <3>s, <7>2, <7>3, <7>5
              <7> QED
                BY <6>2, <7>3, <7>6
            <6> QED
              BY <6>1, <6>2
          <5> QED
            BY <1>h, <5>1, <5>2
        <4>2. /\ i \in DOMAIN sreq'[x] <=> i \in DOMAIN sreq[x]
              /\ i < nextId'[x] <=> i < nextId[x]
          BY <1>d, <3>1
        <4> QED
          BY <3>0, <4>1, <4>2 DEF SlotOf, Over, Live
      <3>2. CASE x = p /\ i = id
        <4>1. vec[p][Slot(id)] = Start(p, b)
          BY <3>0, <3>2 DEF SlotOf, Over
        <4>2. CASE id \in DOMAIN sreq'[p] /\ vec' = vec
          BY <3>2, <4>1, <4>2
        <4>3. CASE /\ id \notin DOMAIN sreq'[p] /\ Owed(p, id)' = 0
                   /\ vec' = [vec EXCEPT ![p][Slot(id)] = WithPeers(@, r, id)]
          <5>1. vec'[p][Slot(id)] = WithPeers(Start(p, b), r, id)
            BY <1>0, <3>s, <4>1, <4>3
          <5>2. id < nextId'[p] /\ Got(p, id)' = Dests(p)
            BY <1>1, <4>3
          <5>3. SeenBy(r) = Dests(p)
            <6>1. Got(p, id)' \subseteq Heads(p, id)' /\ Heads(p, id)' \subseteq Dests(p)
              BY DEF Got, Heads, Dests
            <6>2. Heads(p, id)' = Dests(p)
              BY <5>2, <6>1
            <6> QED
              BY <6>2
          <5>4. id # 0
            BY <2>1, <3>2, LaterBatch
          <5>5. BufferOf(r, p, Dests(p), b)
            BY <2>1, <3>2, <5>2
          <5>6. WithPeers(Start(p, b), r, id) = End(b)
            BY <5>3, <5>4, <5>5, ResultIs
          <5> QED
            BY <3>2, <4>3, <5>1, <5>2, <5>6
        <4> QED
          BY <1>h, <4>2, <4>3
      <3> QED
        BY <3>1, <3>2
    <2> QED
      BY <2>1, SlotsNext
  <1> QED
    BY <1>2, <1>3

-----------------------------------------------------------------------------
\* What a message carries does not change.
LEMMA WiresKept == ASSUME Wires, Under' \subseteq Under PROVE Wires'
  <1>1. ASSUME NEW m \in Under' PROVE m.proto \in Protocols /\ (m.proto = "short" => \A b \in Nat \ {0} : WireOf(m, b)')
    <2>1. m.proto \in Protocols /\ (m.proto = "short" => \A b \in Nat \ {0} : WireOf(m, b))
      BY DEF Wires
    <2> QED
      BY <2>1 DEF WireOf, InBatch, Start
  <1> QED
    BY <1>1 DEF Wires

\* What the super request that a callback finds or makes holds.
LEMMA BufferFound ==
  ASSUME Daemons = {}, IInv, Buffers, NEW p \in Clients, NEW id \in Nat, NEW h, NEW b \in Nat \ {0},
         InBatch(id, b), Live(p, id) \/ ~(id < nextId[p]), NEW g, g = Get(p, id, h)
  PROVE  BufferOf(g, p, Got(p, id), b)
  <1>1. CASE Live(p, id)
    BY <1>1 DEF Get, Buffers
  <1>2. CASE ~Live(p, id)
    <2>1. Heads(p, id) = {}
      BY <1>2 DEF IInv, Requests, PairOf, FreeOf
    <2> QED
      BY <2>1 DEF Got, BufferOf
  <1> QED
    BY <1>1, <1>2

LEMMA InOwnBatch ==
  ASSUME IInv, NEW p \in Clients, NEW id \in Nat, Live(p, id), id < nextId[p]
  PROVE  InBatch(id, batch[p])
  <1>1. id \in Own(p)
    BY DEF Own, Live
  <1>2. id <= LastIdOf(batch[p])
    BY WithinBatch DEF IInv
  <1> QED
    BY <1>1, <1>2 DEF IInv, Batches, BatchesOf, InBatch

\* The vectors announced and not yet there are rendezvous.
LEMMA NoneComing ==
  ASSUME IInv, Wires, NEW p, NEW id, "rndv" \notin Protocols
  PROVE  Coming(p, id) = {}
  <1>1. \A m \in rx : m.proto = "rndv" /\ m.proto \in Protocols
    BY DEF IInv, Messages, Wires, Under
  <1> QED
    BY <1>1 DEF Coming, Has

\* The vector of s has come in for p.
LEMMA VectorIn ==
  ASSUME Daemons = {}, InOneGo, IInv, Slots, Wires, Buffers,
         NEW m \in net \cup rx, NEW s, NEW p, NEW id, Key(m, s, p, id),
         NEW sr, RecordOf(sr), sr.ops = Owed(p, id), SeenBy(sr) = Heads(p, id)',
         \A b \in Nat \ {0} : InBatch(id, b) => \A q \in Got(p, id) : sr.buf[q] = Start(q, b),
         "rndv" \notin Protocols => Coming(p, id)' = {},
         s \in Heads(p, id)', To(p, id)' = To(p, id), Got(p, id)' = Got(p, id) \cup {s},
         \A x \in Clients : \A i \in Nat : (x # p \/ i # id) => SetsKept(x, i),
         nextId' = nextId, batch' = batch,
         NEW n, NEW t, NEW u, CompleteOperation(p, id, Filled(p, id, s, sr, Data(m)), n, t, u, active)
  PROVE  Slots' /\ Buffers'
  <1>1. /\ p \in Clients /\ s \in Clients /\ id \in Nat /\ s \in Dests(p) /\ s \notin Got(p, id)
        /\ (Live(p, id) \/ ~(id < nextId[p]))
    BY StillAwaited
  <1>p. PICK r : r = Filled(p, id, s, sr, Data(m))
    OBVIOUS
  <1>2. RecordOf(r) /\ SeenBy(r) = SeenBy(sr) /\ r.ops = sr.ops
    BY <1>p, FilledRecord
  <1>3. Owed(p, id)' = Owed(p, id) - 1 /\ Owed(p, id) \in Nat
    BY <1>1, OwedArrived, PairSets
  <1>4. r.ops = Owed(p, id)' + 1 /\ SeenBy(r) = Heads(p, id)'
    BY <1>2, <1>3
  <1>5. ASSUME NEW b \in Nat \ {0}, InBatch(id, b) PROVE BufferOf(r, p, Got(p, id)', b)
    <2>q. PICK H, G : H = Heads(p, id)' /\ G = Got(p, id)'
      OBVIOUS
    <2>1. id # 0
      BY <1>1, <1>5, LaterBatch
    <2>2. Data(m) = Start(s, b)
      BY <1>5, DataIs
    <2>3. H = SeenBy(sr) /\ s \in G
      BY <2>q
    <2>4. H \subseteq Dests(p) /\ G \subseteq H
      BY <2>q DEF Heads, Got, Dests
    <2>5. "rndv" \notin Protocols => G = H
      BY <2>q DEF Got
    <2>6. \A q \in G \ {s} : sr.buf[q] = Start(q, b)
      BY <1>5, <2>q
    <2>7. BufferOf(Filled(p, id, s, sr, Data(m)), p, G, b)
      BY <1>1, <2>1, <2>2, <2>3, <2>4, <2>5, <2>6, FilledBuffer
    <2> QED
      BY <1>p, <2>q, <2>7
  <1>6. id < nextId'[p] => InBatch(id, batch[p])
    BY <1>1, InOwnBatch
  <1>7. CompleteOperation(p, id, r, n, t, u, active)
    BY <1>p
  <1> QED
    BY <1>1, <1>2, <1>4, <1>5, <1>6, <1>7, CompleteValues

LEMMA GatherArriveValues ==
  ASSUME Daemons = {}, InOneGo, IInv, Records, Slots, Wires, Buffers, NEW m \in net, GatherArrive(m)
  PROVE  Slots' /\ Wires' /\ Buffers'
  <1>p. PICK s, p, id : Key(m, s, p, id)
    BY DEF Key
  <1>q. PICK sr : sr = Header(Get(p, id, FALSE), s)
    OBVIOUS
  <1>1. /\ p \in Clients /\ s \in Clients /\ id \in Nat /\ s \in Dests(p) \ Got(p, id)
        /\ Live(p, id) \/ ~(id < nextId[p])
        /\ RecordOf(sr)
        /\ sr.ops = Owed(p, id) /\ SeenBy(sr) = Heads(p, id) \cup {s} /\ sr.buf = Get(p, id, FALSE).buf
        /\ nextId' = nextId /\ batch' = batch
        /\ Announced(m, p, id, sr) \/ Arrived(m, p, id, Filled(p, id, s, sr, Data(m)))
    <2>1. /\ p \in Clients /\ s \in Clients /\ id \in Nat /\ s \in Dests(p) \ Got(p, id)
          /\ Live(p, id) \/ ~(id < nextId[p])
          /\ RecordOf(sr) /\ Headed(sr, p, id, s)
          /\ nextId' = nextId /\ batch' = batch
          /\ Announced(m, p, id, sr) \/ Arrived(m, p, id, Filled(p, id, s, sr, Data(m)))
      BY <1>p, <1>q, GatherArriveIs
    <2> QED
      BY <2>1 DEF Headed
  <1>s. DOMAIN sreq = Clients
    BY DEF IInv, Shapes
  <1>2. ASSUME NEW b \in Nat \ {0}, InBatch(id, b) PROVE \A q \in Got(p, id) : sr.buf[q] = Start(q, b)
    <2>g. PICK g : g = Get(p, id, FALSE)
      OBVIOUS
    <2>1. BufferOf(g, p, Got(p, id), b)
      BY <1>1, <1>2, <2>g, BufferFound
    <2>2. Got(p, id) # Dests(p)
      BY <1>1
    <2> QED
      BY <1>1, <2>g, <2>1, <2>2 DEF BufferOf
  <1>3. CASE Announced(m, p, id, sr)
    <2>1. /\ m.proto = "rndv" /\ sreq' = Put(p, id, sr)
          /\ net' = net \ {m} /\ rx' = rx \cup {m} /\ tx' = tx /\ vec' = vec
      BY <1>3 DEF Announced
    <2>2. /\ \A x \in Clients : \A i \in Nat : (x # p \/ i # id) => SetsKept(x, i)
          /\ Heads(p, id)' = Heads(p, id) \cup {s}
          /\ Coming(p, id)' = Coming(p, id) \cup {s}
          /\ s \notin Heads(p, id)
      BY <1>1, <1>p, <2>1, HeaderArrives DEF IInv
    <2>3. Got(p, id)' = Got(p, id)
      BY <2>2 DEF Got
    <2>4. Elsewhere(p, id) /\ id \in DOMAIN sreq'[p] /\ sreq'[p][id] = sr
      BY <1>1, <1>s, <2>1, PutEffect
    <2>5. Wires'
      <3>1. Under' = Under
        BY <2>1 DEF Under
      <3> QED
        BY <3>1, WiresKept
    <2>6. Buffers'
      <3>1. ASSUME NEW x \in Clients, NEW i \in Nat, NEW b \in Nat \ {0}, i \in DOMAIN sreq'[x], InBatch(i, b)
            PROVE  BufferOf(sreq'[x][i], x, Got(x, i)', b)
        <4>1. CASE x # p \/ i # id
          <5>1. i \in DOMAIN sreq[x] /\ sreq'[x][i] = sreq[x][i]
            BY <2>4, <3>1, <4>1 DEF Elsewhere
          <5>2. Got(x, i)' = Got(x, i)
            BY <2>2, <4>1 DEF SetsKept, Got
          <5> QED
            BY <3>1, <5>1, <5>2 DEF Buffers, Live
        <4>2. CASE x = p /\ i = id
          <5>1. Got(p, id) # Dests(p)
            BY <1>1
          <5>2. BufferOf(sr, p, Got(p, id), b)
            BY <1>2, <3>1, <4>2, <5>1 DEF BufferOf
          <5> QED
            BY <2>3, <2>4, <4>2, <5>2
        <4> QED
          BY <4>1, <4>2
      <3> QED
        BY <3>1, BuffersNext
    <2>7. Slots'
      <3>1. ASSUME NEW x \in Clients, NEW i \in Nat, NEW b \in Nat \ {0}, b = batch'[x], InBatch(i, b)
            PROVE  vec'[x][Slot(i)] = IF i < nextId'[x] /\ i \notin DOMAIN sreq'[x] THEN End(b) ELSE Start(x, b)
        <4>0. SlotOf(x, i, b)
          BY <1>1, <3>1 DEF Slots
        <4>1. CASE x # p \/ i # id
          <5>1. i \in DOMAIN sreq'[x] <=> i \in DOMAIN sreq[x]
            BY <2>4, <4>1 DEF Elsewhere
          <5> QED
            BY <1>1, <2>1, <4>0, <5>1 DEF SlotOf, Over, Live
        <4>2. CASE x = p /\ i = id
          BY <1>1, <2>1, <2>4, <4>0, <4>2 DEF SlotOf, Over
        <4> QED
          BY <4>1, <4>2
      <3> QED
        BY <3>1, SlotsNext
    <2> QED
      BY <2>5, <2>6, <2>7
  <1>4. CASE Arrived(m, p, id, Filled(p, id, s, sr, Data(m)))
    <2>p. PICK r : r = Filled(p, id, s, sr, Data(m))
      OBVIOUS
    <2>1. /\ m.proto # "rndv" /\ rx' = rx
          /\ CompleteOperation(p, id, r, net \ {m}, tx \cup Sent(m), OneMore(p), active)
      BY <1>4, <2>p DEF Arrived
    <2>2. net' = net \ {m} /\ tx' = tx \cup Sent(m)
      BY <1>1, <1>s, <2>1, CompleteEffect
    <2>3. /\ \A x \in Clients : \A i \in Nat : (x # p \/ i # id) => SetsKept(x, i)
          /\ Heads(p, id)' = Heads(p, id) \cup {s} /\ To(p, id)' = To(p, id)
          /\ Coming(p, id)' = Coming(p, id) /\ s \notin Coming(p, id)
      BY <1>1, <1>p, <2>1, <2>2, HeaderArrives DEF IInv
    <2>4. Got(p, id)' = Got(p, id) \cup {s}
      BY <2>3 DEF Got
    <2>5. "rndv" \notin Protocols => Coming(p, id)' = {}
      BY <2>3, NoneComing
    <2>6. Wires'
      <3>1. Under' \subseteq Under
        BY <2>1, <2>2 DEF Under, Sent
      <3> QED
        BY <3>1, WiresKept
    <2>7. CompleteOperation(p, id, Filled(p, id, s, sr, Data(m)), net \ {m}, tx \cup Sent(m), OneMore(p), active)
      BY <2>1, <2>p
    <2>8. SeenBy(sr) = Heads(p, id)' /\ s \in Heads(p, id)'
      BY <1>1, <2>3
    <2>9. m \in net \cup rx
      OBVIOUS
    <2>10. Slots' /\ Buffers'
      BY <1>1, <1>2, <1>p, <2>3, <2>4, <2>5, <2>7, <2>8, <2>9, VectorIn
    <2> QED
      BY <2>6, <2>10
  <1> QED
    BY <1>1, <1>3, <1>4

LEMMA GatherDataValues ==
  ASSUME Daemons = {}, InOneGo, IInv, Records, Slots, Wires, Buffers, NEW m \in rx, GatherData(m)
  PROVE  Slots' /\ Wires' /\ Buffers'
  <1>p. PICK s, p, id : Key(m, s, p, id)
    BY DEF Key
  <1>q. PICK sr : sr = sreq[p][id]
    OBVIOUS
  <1>1. /\ p \in Clients /\ s \in Clients /\ id \in Nat /\ s \in Dests(p) \ Got(p, id)
        /\ Live(p, id) /\ RecordOf(sr)
        /\ sr.ops = Owed(p, id) /\ SeenBy(sr) = Heads(p, id) /\ s \in Heads(p, id)
        /\ nextId' = nextId /\ batch' = batch /\ rx' = rx \ {m}
        /\ CompleteOperation(p, id, Filled(p, id, s, sr, Data(m)), net, tx \cup {m}, used, active)
    BY <1>p, <1>q, GatherDataIs
  <1>s. DOMAIN sreq = Clients
    BY DEF IInv, Shapes
  <1>2. ASSUME NEW b \in Nat \ {0}, InBatch(id, b) PROVE \A q \in Got(p, id) : sr.buf[q] = Start(q, b)
    <2>1. BufferOf(sr, p, Got(p, id), b)
      BY <1>1, <1>q, <1>2 DEF Buffers
    <2>2. Got(p, id) # Dests(p)
      BY <1>1
    <2> QED
      BY <2>1, <2>2 DEF BufferOf
  <1>3. net' = net /\ tx' = tx \cup {m}
    <2>p. PICK r : r = Filled(p, id, s, sr, Data(m))
      OBVIOUS
    <2>1. CompleteOperation(p, id, r, net, tx \cup {m}, used, active)
      BY <1>1, <2>p
    <2> QED
      BY <1>1, <1>s, <2>1, CompleteEffect
  <1>4. /\ \A x \in Clients : \A i \in Nat : (x # p \/ i # id) => SetsKept(x, i)
        /\ Heads(p, id)' = Heads(p, id) /\ To(p, id)' = To(p, id)
        /\ Coming(p, id)' = Coming(p, id) \ {s}
    BY <1>1, <1>p, <1>3, DataArrives DEF IInv
  <1>5. Got(p, id)' = Got(p, id) \cup {s}
    BY <1>1, <1>4 DEF Got
  <1>6. "rndv" \notin Protocols => Coming(p, id)' = {}
    BY <1>4, NoneComing
  <1>7. Wires'
    <2>1. Under' \subseteq Under
      BY <1>1, <1>3 DEF Under
    <2> QED
      BY <2>1, WiresKept
  <1>8. SeenBy(sr) = Heads(p, id)' /\ s \in Heads(p, id)'
    BY <1>1, <1>4
  <1>9. m \in net \cup rx
    OBVIOUS
  <1>10. Slots' /\ Buffers'
    BY <1>1, <1>2, <1>p, <1>4, <1>5, <1>6, <1>8, <1>9, VectorIn
  <1> QED
    BY <1>7, <1>10

LEMMA ScatterSentValues ==
  ASSUME Daemons = {}, IInv, Records, Slots, Wires, Buffers, NEW m \in tx, ScatterSent(m)
  PROVE  Slots' /\ Wires' /\ Buffers'
  <1>p. PICK p, s, id : Key(m, p, s, id)
    BY DEF Key
  <1>q. PICK sr : sr = sreq[p][id]
    OBVIOUS
  <1>1. /\ p \in Clients /\ id \in Nat /\ id < nextId[p]
        /\ Live(p, id) /\ RecordOf(sr)
        /\ sr.ops = Owed(p, id) /\ SeenBy(sr) = Heads(p, id)
        /\ nextId' = nextId /\ batch' = batch /\ rx' = rx
        /\ CompleteOperation(p, id, sr, net, tx \ {m}, used, active)
    BY <1>p, <1>q, ScatterSentIs
  <1>s. DOMAIN sreq = Clients
    BY DEF IInv, Shapes
  <1>2. net' = net /\ tx' = tx \ {m}
    BY <1>1, <1>s, CompleteEffect
  <1>3. /\ \A x \in Clients : \A i \in Nat : (x # p \/ i # id) => SetsKept(x, i)
        /\ Heads(p, id)' = Heads(p, id) /\ To(p, id)' = To(p, id) \ {s}
        /\ Coming(p, id)' = Coming(p, id) /\ s \in To(p, id)
    BY <1>1, <1>p, <1>2, SendEnds DEF IInv
  <1>4. Got(p, id)' = Got(p, id)
    BY <1>3 DEF Got
  <1>5. Owed(p, id)' = Owed(p, id) - 1 /\ Owed(p, id) \in Nat
    BY <1>1, <1>3, <1>4, OwedSent, PairSets
  <1>6. sr.ops = Owed(p, id)' + 1 /\ SeenBy(sr) = Heads(p, id)'
    BY <1>1, <1>3, <1>5
  <1>7. \A b \in Nat \ {0} : InBatch(id, b) => BufferOf(sr, p, Got(p, id)', b)
    BY <1>1, <1>q, <1>4 DEF Buffers
  <1>8. id < nextId'[p] => InBatch(id, batch[p])
    BY <1>1, InOwnBatch
  <1>9. Slots' /\ Buffers'
    BY <1>1, <1>3, <1>6, <1>7, <1>8, CompleteValues
  <1>10. Under' \subseteq Under
    BY <1>1, <1>2 DEF Under
  <1> QED
    BY <1>9, <1>10, WiresKept

-----------------------------------------------------------------------------
\* What is sent is the vector that is there.
LEMMA NewCarry ==
  ASSUME NEW c, NEW id, NEW proto \in [Dests(c) -> Protocols], NEW val, NEW x \in New(c, id, proto, val)
  PROVE  x.src = c /\ x.id = id /\ x.proto \in Protocols /\ (x.proto = "short" => x.val = val)
  <1>1. PICK q \in Dests(c) : x = Msg("op", c, q, id, proto[q], val)
    BY DEF New
  <1>2. /\ x.src = c /\ x.id = id /\ x.proto = proto[q]
        /\ x.val = IF proto[q] = "short" THEN val ELSE Of(Junk)
    BY <1>1 DEF Msg
  <1> QED
    BY <1>2

LEMMA SubmitValues ==
  ASSUME Daemons = {}, IInv, Records, Slots, Wires, Buffers, NEW c \in Clients, SubmitOperation(c)
  PROVE  Slots' /\ Wires' /\ Buffers'
  <1>p. PICK id : id = nextId[c]
    OBVIOUS
  <1>v. PICK val, a : val = vec[c][Slot(id)] /\ a = [active EXCEPT ![c] = @ + 1]
    OBVIOUS
  <1>1. /\ id \in Nat /\ ~(id < nextId[c]) /\ batch' = batch /\ rx' = rx
        /\ pc[c] = "submit" /\ nextId' = [nextId EXCEPT ![c] = @ + 1]
    BY <1>p, SubmitIs
  <1>q. PICK proto, r :
           /\ proto \in [Dests(c) -> Protocols] /\ RecordOf(r) /\ SeenBy(r) = Heads(c, id)
           /\ r.ops = Owed(c, id) - Cardinality(Short(Dests(c), proto))
           /\ r.buf = Get(c, id, TRUE).buf /\ r.first = Get(c, id, TRUE).first
           /\ CompleteOperation(c, id, r, net \cup New(c, id, proto, val), tx, used, a)
    <2>1. \E proto \in [Dests(c) -> Protocols] :
             LET r == Prepared(c, id, proto)
                 n == net \cup New(c, id, proto, vec[c][Slot(id)])
                 b == [active EXCEPT ![c] = @ + 1]
             IN  /\ RecordOf(r) /\ Weight(r) = WeightAt(c, id) /\ SeenBy(r) = Heads(c, id)
                 /\ r.ops = Owed(c, id) - Cardinality(Short(Dests(c), proto))
                 /\ r.buf = Get(c, id, TRUE).buf /\ r.first = Get(c, id, TRUE).first
                 /\ CompleteOperation(c, id, r, n, tx, used, b)
      BY <1>p, SubmitIs, Zenon
    <2> QED
      BY <1>v, <2>1
  <1> DEFINE S == Short(Dests(c), proto)
  <1>s. DOMAIN sreq = Clients /\ nextId[c] \in Nat /\ batch[c] \in Nat /\ nextId \in [Clients -> Nat]
    BY DEF IInv, Shapes
  <1>2. net' = net \cup New(c, id, proto, val) /\ tx' = tx
    BY <1>q, <1>s, CompleteEffect
  <1>3. /\ \A x \in Clients : \A i \in Nat : (x # c \/ i # id) => SetsKept(x, i)
        /\ Heads(c, id)' = Heads(c, id) /\ Coming(c, id)' = Coming(c, id)
        /\ To(c, id)' = Dests(c) \ S
    BY <1>p, <1>1, <1>2, VectorLeaves DEF IInv
  <1>g. Got(c, id)' = Got(c, id)
    BY <1>3 DEF Got
  <1>n. id < nextId'[c]
    BY <1>1, <1>p, <1>s
  <1>4. r.ops = Owed(c, id)' + 1
    <2>1. IsFiniteSet(Dests(c)) /\ Got(c, id) \in SUBSET Dests(c) /\ S \in SUBSET Dests(c)
      BY <1>1, PairSets DEF Short
    <2>2. LeftAfter(Dests(c), Dests(c) \ S, Got(c, id)) = LeftBefore(Dests(c), Got(c, id)) - Cardinality(S) - 1
      BY <2>1, LeftScattered
    <2>4. Owed(c, id)' = LeftAfter(Dests(c), Dests(c) \ S, Got(c, id))
      BY <1>3, <1>n, <1>g DEF Owed, LeftAfter, Dests
    <2>5. Owed(c, id) = LeftBefore(Dests(c), Got(c, id))
      BY <1>1 DEF Owed
    <2>6. Owed(c, id) \in Nat /\ Cardinality(S) \in Nat
      BY <1>1, <2>1, PairSets, FS_Subset, FS_CardinalityType
    <2> QED
      BY <1>q, <2>2, <2>4, <2>5, <2>6
  <1>5. InBatch(id, batch[c])
    BY <1>1, <1>p DEF IInv, Batches, BatchesOf, InBatch
  <1>6. ASSUME NEW b \in Nat \ {0}, InBatch(id, b)
        PROVE  BufferOf(r, c, Got(c, id)', b) /\ val = Start(c, b)
    <2>g. PICK g : g = Get(c, id, TRUE)
      OBVIOUS
    <2>1. BufferOf(g, c, Got(c, id), b)
      BY <1>1, <1>6, <2>g, BufferFound
    <2>2. BufferOf(r, c, Got(c, id), b)
      BY <1>q, <2>g, <2>1 DEF BufferOf
    <2>3. b = batch[c]
      BY <1>1, <1>s, <1>5, <1>6, OneBatch
    <2>4. SlotOf(c, id, b)
      BY <1>1, <1>6, <2>3 DEF Slots
    <2>5. val = Start(c, b)
      BY <1>1, <1>v, <2>4 DEF SlotOf, Over
    <2> QED
      BY <1>g, <2>2, <2>5
  <1>7. Slots' /\ Buffers'
    <2>1. SeenBy(r) = Heads(c, id)'
      BY <1>q, <1>3
    <2> QED
      BY <1>q, <1>1, <1>3, <1>4, <1>5, <1>6, <2>1, CompleteValues
  <1>8. Wires'
    <2>1. Under' = Under \cup New(c, id, proto, val)
      BY <1>1, <1>2 DEF Under
    <2>2. ASSUME NEW m \in Under'
          PROVE  m.proto \in Protocols /\ (m.proto = "short" => \A b \in Nat \ {0} : WireOf(m, b)')
      <3>1. m.proto \in Protocols /\ (m.proto = "short" => \A b \in Nat \ {0} : WireOf(m, b))
        <4>1. CASE m \in Under
          BY <4>1 DEF Wires
        <4>2. CASE m \in New(c, id, proto, val)
          <5>1. m.src = c /\ m.id = id /\ m.proto \in Protocols /\ (m.proto = "short" => m.val = val)
            BY <1>q, <4>2, NewCarry
          <5> QED
            BY <1>6, <5>1 DEF WireOf
        <4> QED
          BY <2>1, <2>2, <4>1, <4>2
      <3> QED
        BY <3>1 DEF WireOf, InBatch, Start
    <2> QED
      BY <2>2 DEF Wires
  <1> QED
    BY <1>7, <1>8

\* Without a super request or a message that changes.
LEMMA BuffersStay ==
  ASSUME Buffers, sreq' = sreq, nextId' = nextId, net' = net, rx' = rx
  PROVE  Buffers'
  <1>1. ASSUME NEW p \in Clients, NEW id \in Nat, NEW b \in Nat \ {0}, id \in DOMAIN sreq'[p], InBatch(id, b)
        PROVE  BufferOf(sreq'[p][id], p, Got(p, id)', b)
    <2>1. Got(p, id)' = Got(p, id)
      BY DEF Got, Heads, Coming, Has, Key, Dests
    <2> QED
      BY <1>1, <2>1 DEF Buffers, Live
  <1> QED
    BY <1>1, BuffersNext

\* The vectors that batch b starts from are what the batch before left, unless reset.
LEMMA FromBefore ==
  ASSUME NEW c, NEW a \in Nat, NEW b, b = a + 1, ~ResetBefore(b)
  PROVE  a # 0 /\ End(a) = Start(c, b)
  <1>1. b \in Nat \ {0} /\ b - 1 = a
    OBVIOUS
  <1>2. b - 1 \in Nat \ {0} /\ Repeat(b) # 1 /\ Repeat(b) = Repeat(b - 1) + 1
    BY <1>1, Repeats
  <1>3. a \in Nat \ {0} /\ Repeat(b) = Repeat(a) + 1
    BY <1>1, <1>2
  <1>4. Repeat(a) \in Nat
    BY <1>3, Repeats
  <1>5. Repeat(b) - 2 = Repeat(a) - 1
    BY <1>3, <1>4
  <1> QED
    BY <1>2, <1>3, <1>5 DEF End, Start

LEMMA SlotBefore ==
  ASSUME NEW a \in Nat \ {0}, NEW b, b = a + 1, NEW i \in Nat, InBatch(i, b)
  PROVE  \E j \in Nat : j + BatchSize = i /\ InBatch(j, a) /\ Slot(i) = Slot(j)
  <1>p. PICK e \in Nat : a = e + 1
    BY a - 1 \in Nat, a = (a - 1) + 1
  <1>1. /\ LastIdOf(e) \in Nat /\ LastIdOf(a) = LastIdOf(e) + BatchSize
        /\ BatchSize \in Nat /\ FirstIdOf(a) = LastIdOf(e) + 1
    BY <1>p, LastIds
  <1>2. LastIdOf(b) = LastIdOf(a) + BatchSize /\ FirstIdOf(b) = LastIdOf(a) + 1
    BY LastIds
  <1>j. PICK j : j = i - BatchSize
    OBVIOUS
  <1>3. j \in Nat /\ j + BatchSize = i /\ FirstIdOf(a) <= j /\ j <= LastIdOf(a)
    BY <1>j, <1>1, <1>2 DEF InBatch
  <1>4. Slot(i) = Slot(j)
    BY <1>3, SlotBack
  <1> QED
    BY <1>3, <1>4 DEF InBatch

LEMMA NextBatchValues ==
  ASSUME Daemons = {}, IInv, Slots, Wires, Buffers, NEW c \in Clients, NextBatch(c)
  PROVE  Slots' /\ Wires' /\ Buffers'
  <1>0. /\ batch \in [Clients -> Nat] /\ nextId \in [Clients -> Nat] /\ batch[c] \in Nat
        /\ DOMAIN vec = Clients /\ DOMAIN vec[c] = 0 .. BatchSize - 1
    BY DEF IInv, Shapes
  <1>1. /\ pc[c] = "wait" /\ active[c] = 0
        /\ nextId' = nextId /\ sreq' = sreq /\ net' = net /\ rx' = rx /\ tx' = tx
        /\ \/ batch' = batch /\ vec' = vec
           \/ /\ batch' = [batch EXCEPT ![c] = @ + 1]
              /\ vec' = IF ResetBefore(batch[c] + 1) THEN [vec EXCEPT ![c] = [s \in DOMAIN @ |-> Of(c)]] ELSE vec
    BY DEF NextBatch, BatchComplete
  <1>2. Own(c) = {} /\ nextId[c] = LastIdOf(batch[c]) + 1
    BY <1>1, BatchOver DEF IInv, Batches, BatchesOf
  <1>3. Buffers'
    BY <1>1, BuffersStay
  <1>4. Wires'
    BY <1>1, WiresKept DEF Under
  <1>5. ASSUME NEW x \in Clients, NEW i \in Nat, NEW b \in Nat \ {0}, b = batch'[x], InBatch(i, b)
        PROVE  vec'[x][Slot(i)] = IF i < nextId'[x] /\ i \notin DOMAIN sreq'[x] THEN End(b) ELSE Start(x, b)
    <2>1. CASE batch'[x] = batch[x] /\ vec'[x] = vec[x]
      <3>1. SlotOf(x, i, b)
        BY <1>5, <2>1 DEF Slots
      <3> QED
        BY <1>1, <2>1, <3>1 DEF SlotOf, Over, Live
    <2>2. CASE ~(batch'[x] = batch[x] /\ vec'[x] = vec[x])
      <3>1. /\ x = c /\ b = batch[c] + 1
            /\ vec' = IF ResetBefore(b) THEN [vec EXCEPT ![c] = [s \in DOMAIN @ |-> Of(c)]] ELSE vec
        BY <1>0, <1>1, <1>5, <2>2
      <3>a. PICK a \in Nat : a = batch[c] /\ b = a + 1
        BY <1>0, <3>1
      <3>2. ~(i < nextId[c])
        <4>1. FirstIdOf(b) = LastIdOf(a) + 1 /\ LastIdOf(a) \in Nat
          BY <3>a, LastIds
        <4> QED
          BY <1>2, <1>5, <3>a, <4>1 DEF InBatch
      <3>3. CASE ResetBefore(b)
        <4>1. Start(c, b) = Of(c)
          BY <1>5, <3>3, Repeats DEF Start
        <4>2. Slot(i) \in 0 .. BatchSize - 1
          BY SlotInRange
        <4>3. vec'[c] = [s \in 0 .. BatchSize - 1 |-> Of(c)]
          BY <1>0, <3>1, <3>3
        <4>4. vec'[c][Slot(i)] = Of(c)
          BY <4>2, <4>3
        <4> QED
          BY <1>1, <3>1, <3>2, <4>1, <4>4
      <3>4. CASE ~ResetBefore(b)
        <4>1. a \in Nat \ {0} /\ End(a) = Start(c, b)
          BY <3>a, <3>4, FromBefore
        <4>2. PICK j \in Nat : j + BatchSize = i /\ InBatch(j, a) /\ Slot(i) = Slot(j)
          BY <1>5, <3>a, <4>1, SlotBefore
        <4>3. j < nextId[c]
          <5>1. LastIdOf(a) \in Nat
            BY LastIds
          <5> QED
            BY <1>2, <3>a, <4>2, <5>1 DEF InBatch
        <4>4. ~Live(c, j)
          BY <1>2, <4>3 DEF Own, Live
        <4>5. SlotOf(c, j, a)
          BY <3>a, <4>1, <4>2 DEF Slots
        <4>6. vec[c][Slot(i)] = Start(c, b)
          BY <4>1, <4>2, <4>3, <4>4, <4>5 DEF SlotOf, Over
        <4> QED
          BY <1>1, <3>1, <3>2, <3>4, <4>6
      <3> QED
        BY <3>3, <3>4
    <2> QED
      BY <2>1, <2>2
  <1> QED
    BY <1>3, <1>4, <1>5, SlotsNext

LEMMA NextValues ==
  ASSUME Daemons = {}, InOneGo, IInv, Records, Slots, Wires, Buffers, [Next]_vars
  PROVE  Slots' /\ Wires' /\ Buffers'
  <1>0. \A m \in net \cup rx \cup tx : m.kind = "op"
    BY DEF IInv, Messages, Under
  <1>1. CASE UNCHANGED vars
    <2>1. /\ batch' = batch /\ nextId' = nextId /\ vec' = vec
          /\ sreq' = sreq /\ net' = net /\ rx' = rx /\ tx' = tx
      BY <1>1 DEF vars
    <2>2. Wires'
      BY <2>1, WiresKept DEF Under
    <2>3. Slots'
      BY <2>1, SlotsNext DEF Slots, SlotOf, Over, Live
    <2> QED
      BY <2>1, <2>2, <2>3, BuffersStay
  <1>2. ASSUME NEW c \in Clients, SubmitOperation(c) PROVE Slots' /\ Wires' /\ Buffers'
    BY <1>2, SubmitValues
  <1>3. ASSUME NEW c \in Clients, NextBatch(c) PROVE Slots' /\ Wires' /\ Buffers'
    BY <1>3, NextBatchValues
  <1>4. ASSUME NEW m \in net, GatherArrive(m) PROVE Slots' /\ Wires' /\ Buffers'
    BY <1>4, GatherArriveValues
  <1>5. ASSUME NEW m \in rx, GatherData(m) PROVE Slots' /\ Wires' /\ Buffers'
    BY <1>5, GatherDataValues
  <1>6. ASSUME NEW m \in tx, ScatterSent(m) PROVE Slots' /\ Wires' /\ Buffers'
    BY <1>6, ScatterSentValues
  <1> QED
    BY <1>0, <1>1, <1>2, <1>3, <1>4, <1>5, <1>6
       DEF Next, Step, Finished, ClientArrive, ResultArrive, ClientData, ResultData, ResultSent

LEMMA InitValues == ASSUME Daemons = {}, Init PROVE Slots /\ Wires /\ Buffers
  <1>1. /\ \A p \in Clients : batch[p] = 0 /\ DOMAIN sreq[p] = {}
        /\ Under = {}
    BY OnlyClients DEF Init, Under
  <1> QED
    BY <1>1 DEF Slots, Wires, Buffers, Live

LEMMA SlotsGiveResult == ASSUME IInv, Slots PROVE ResultCorrect
  <1> SUFFICES ASSUME NEW c \in Clients, NEW id \in Ids, BatchOf(id) = batch[c], ~Empty(id),
                      id < nextId[c], ~Live(c, id)
               PROVE  vec[c][Slot(id)] = Exact(id)
    BY DEF ResultCorrect
  <1>1. id \in Nat /\ id # 0
    BY DEF Ids, Empty
  <1>b. PICK b : b = BatchOf(id)
    OBVIOUS
  <1>2. b \in Nat /\ InBatch(id, b)
    BY <1>1, <1>b, BatchOfIn
  <1>3. b # 0
    BY <1>1, <1>2, LaterBatch
  <1>4. SlotOf(c, id, b)
    BY <1>1, <1>b, <1>2, <1>3 DEF Slots
  <1>5. vec[c][Slot(id)] = End(b)
    BY <1>4 DEF SlotOf, Over
  <1> QED
    BY <1>b, <1>5 DEF End, Exact

-----------------------------------------------------------------------------
(***************************************************************************)
(* Types.  A message is typed but for its operation, which the invariant   *)
(* bounds.                                                                 *)
(***************************************************************************)
Carried == [kind : {"op", "ctrl", "result"}, src : Procs, dst : Procs, id : Nat,
            proto : Protocols, val : Value]
Tables == \A p \in Clients : sreq[p] = [i \in DOMAIN sreq[p] |-> sreq[p][i]]
Types ==
    /\ Tables
    /\ vec \in [Clients -> [0 .. BatchSize - 1 -> Value]]
    /\ \A p \in Clients : \A id \in DOMAIN sreq[p] : sreq[p][id] \in SuperRequest
    /\ Under \subseteq Carried
    /\ \A p \in Clients : batch[p] <= LastBatch

LEMMA PutTables ==
  ASSUME DOMAIN sreq = Clients, Tables, NEW p \in Clients, NEW id, NEW r, sreq' = Put(p, id, r)
  PROVE  Tables'
  <1>1. sreq'[p] = [i \in DOMAIN sreq[p] \cup {id} |-> IF i = id THEN r ELSE sreq[p][i]]
    BY DEF Put
  <1>2. sreq'[p] = [i \in DOMAIN sreq'[p] |-> sreq'[p][i]]
    BY <1>1
  <1>3. \A q \in Clients : q # p => sreq'[q] = sreq[q]
    BY DEF Put
  <1> QED
    BY <1>2, <1>3 DEF Tables

LEMMA RemoveTables ==
  ASSUME DOMAIN sreq = Clients, Tables, NEW p \in Clients, NEW id, sreq' = Remove(p, id)
  PROVE  Tables'
  <1>1. sreq'[p] = [i \in DOMAIN sreq[p] \ {id} |-> sreq[p][i]]
    BY DEF Remove
  <1>2. sreq'[p] = [i \in DOMAIN sreq'[p] |-> sreq'[p][i]]
    BY <1>1
  <1>3. \A q \in Clients : q # p => sreq'[q] = sreq[q]
    BY DEF Remove
  <1> QED
    BY <1>2, <1>3 DEF Tables

LEMMA ValuesAre ==
  /\ \A s : Of(s) \in Value
  /\ \A u, v \in Value : Plus(u, v) \in Value
  /\ \A u, v \in Value : \A id : Reduce(u, v, id) \in Value
  <1>1. \A s : Of(s) \in Value
    BY DEF Of, Value
  <1>2. \A u, v \in Value : Plus(u, v) \in Value
    BY DEF Plus, Value
  <1> QED
    BY <1>1, <1>2 DEF Reduce

LEMMA ReduceAllIs ==
  ASSUME NEW dst \in Value, NEW buf \in [Clients -> Value], NEW others \in SUBSET Clients, NEW id
  PROVE  ReduceAll(dst, buf, others, id) \in Value
  <1>0. IsFiniteSet(others)
    BY AllreduceAssumption, FS_Subset
  <1>1. ASSUME NEW s \in Sources PROVE dst[s] + Total([o \in others |-> buf[o][s]], others) \in Nat
    <2>p. PICK f : f = [o \in others |-> buf[o][s]]
      OBVIOUS
    <2>1. \A o \in others : f[o] \in Nat
      BY <2>p DEF Value
    <2>2. Total(f, others) \in Nat
      BY <1>0, <2>1, PairsFinite
    <2>3. dst[s] \in Nat
      BY DEF Value
    <2> QED
      BY <2>p, <2>2, <2>3
  <1>2. [s \in Sources |-> dst[s] + Total([o \in others |-> buf[o][s]], others)] \in Value
    BY <1>1 DEF Value
  <1> QED
    BY <1>2 DEF ReduceAll

\* Super requests.
LEMMA GetTyped ==
  ASSUME Daemons = {}, Types, NEW p \in Clients, NEW id, NEW h \in BOOLEAN
  PROVE  Get(p, id, h) \in SuperRequest
  <1>1. CASE Live(p, id)
    BY <1>1 DEF Get, Live, Types
  <1>2. CASE ~Live(p, id)
    <2>1. Ops(p) \in Int
      BY OnlyClients DEF Ops
    <2>2. Of(Junk) \in Value /\ [q \in Clients |-> Of(Junk)] \in [Clients -> Value]
      BY ValuesAre
    <2>3. Allocate(p, h) \in SuperRequest
      BY <2>1, <2>2, OnlyClients DEF Allocate, SuperRequest
    <2> QED
      BY <1>2, <2>3 DEF Get
  <1> QED
    BY <1>1, <1>2

LEMMA HeaderTyped ==
  ASSUME Daemons = {}, NEW r \in SuperRequest, NEW s \in Clients
  PROVE  Header(r, s) \in SuperRequest
  BY OnlyClients DEF Header, SuperRequest

LEMMA StoredTyped ==
  ASSUME Daemons = {}, NEW r \in SuperRequest, NEW s \in Clients, NEW v \in Value
  PROVE  Stored(r, s, v) \in SuperRequest /\ Stored(r, s, v).buf \in [Clients -> Value]
  BY OnlyClients DEF Stored, SuperRequest

LEMMA CountedTyped ==
  ASSUME NEW r \in SuperRequest, NEW n \in Int
  PROVE  [r EXCEPT !.ops = @ - n] \in SuperRequest
  BY DEF SuperRequest

LEMMA AdoptTyped ==
  ASSUME NEW r \in SuperRequest
  PROVE  Adopt(r) \in SuperRequest
  BY DEF Adopt, SuperRequest

\* With all headers there is a first one to reduce into.
LEMMA FilledTyped ==
  ASSUME Daemons = {}, NEW p, NEW id, NEW r \in SuperRequest, RecordOf(r), NEW s \in Clients, NEW v \in Value
  PROVE  Filled(p, id, s, r, v) \in SuperRequest
  <1>p. PICK in : in = Stored(r, s, v)
    OBVIOUS
  <1>1. in \in SuperRequest /\ in.first = r.first /\ in.others = r.others
    BY <1>p, StoredTyped, StoredRecord DEF Stored
  <1>2. CASE AllArrived(p, r)
    <2>1. r.others # {}
      BY <1>2 DEF AllArrived
    <2>2. r.first \in Clients
      BY <2>1 DEF RecordOf
    <2>3. in.buf \in [Clients -> Value] /\ in.others \in SUBSET Clients
      BY <1>1, OnlyClients DEF SuperRequest
    <2>4. in.buf[in.first] \in Value
      BY <1>1, <2>2, <2>3
    <2>v. PICK w : w = ReduceAll(in.buf[in.first], in.buf, in.others, id)
      OBVIOUS
    <2>5. w \in Value
      BY <2>3, <2>4, <2>v, ReduceAllIs
    <2>6. AllReduced(in, id) = Stored(in, in.first, w)
      BY <1>1, <2>v, OnlyClients DEF AllReduced, Stored, SuperRequest
    <2>7. AllReduced(in, id) \in SuperRequest
      BY <1>1, <2>2, <2>5, <2>6, StoredTyped
    <2> QED
      BY <1>p, <1>2, <2>7 DEF Filled
  <1>3. CASE ~AllArrived(p, r)
    BY <1>p, <1>1, <1>3 DEF Filled
  <1> QED
    BY <1>2, <1>3

LEMMA DataTyped ==
  ASSUME Daemons = {}, IInv, Types, NEW m \in Under
  PROVE  Data(m) \in Value
  <1>1. m.src \in Clients /\ m.id \in Nat
    BY DEF IInv, Messages
  <1>2. vec[m.src][Slot(m.id)] \in Value
    BY <1>1, SlotInRange DEF Types
  <1>3. m.val \in Value
    BY DEF Types, Carried
  <1> QED
    BY <1>1, <1>2, <1>3 DEF Data, Buffer

LEMMA CompleteTyped ==
  ASSUME Daemons = {}, IInv, Types, NEW p \in Clients, NEW id \in Nat, NEW r \in SuperRequest,
         NEW n, NEW t, NEW u, NEW a, CompleteOperation(p, id, r, n, t, u, a), batch' = batch,
         n \subseteq Carried, t \subseteq Carried, rx' \subseteq Carried
  PROVE  Types'
  <1>0. DOMAIN sreq = Clients /\ vec \in [Clients -> [0 .. BatchSize - 1 -> Value]]
    BY DEF IInv, Shapes, Types
  <1>1. net' = n /\ tx' = t /\ Elsewhere(p, id)
    BY <1>0, CompleteEffect DEF Counted
  <1>2. Under' \subseteq Carried
    BY <1>1 DEF Under
  <1>3. vec' \in [Clients -> [0 .. BatchSize - 1 -> Value]] /\ (id \in DOMAIN sreq'[p] => sreq'[p][id] \in SuperRequest)
    <2>1. CASE r.ops > 1
      <3>1. sreq' = Put(p, id, [r EXCEPT !.ops = @ - 1]) /\ vec' = vec
        BY <2>1 DEF CompleteOperation
      <3>2. sreq'[p][id] = [r EXCEPT !.ops = @ - 1]
        BY <1>0, <3>1, PutEffect
      <3>3. [r EXCEPT !.ops = @ - 1] \in SuperRequest
        BY DEF SuperRequest
      <3> QED
        BY <1>0, <3>1, <3>2, <3>3
    <2>2. CASE ~(r.ops > 1)
      <3>1. CompleteClient(p, id, r, n, t, u, a)
        BY <2>2 DEF CompleteOperation
      <3>2. sreq' = Remove(p, id) /\ vec' = [vec EXCEPT ![p][Slot(id)] = WithPeers(@, r, id)]
        BY <3>1 DEF CompleteClient
      <3>3. id \notin DOMAIN sreq'[p]
        BY <1>0, <3>2, RemoveEffect
      <3>s. Slot(id) \in 0 .. BatchSize - 1
        BY SlotInRange
      <3>v. PICK v : v = WithPeers(vec[p][Slot(id)], r, id)
        OBVIOUS
      <3>4. v \in Value
        <4>1. vec[p][Slot(id)] \in Value
          BY <1>0, <3>s
        <4>2. r.first # NoPeer => r.buf[r.first] \in Value
          BY OnlyClients DEF SuperRequest
        <4> QED
          BY <3>v, <4>1, <4>2, ValuesAre DEF WithPeers
      <3>5. vec' = [vec EXCEPT ![p] = [vec[p] EXCEPT ![Slot(id)] = v]]
        BY <1>0, <3>2, <3>v
      <3>6. [vec[p] EXCEPT ![Slot(id)] = v] \in [0 .. BatchSize - 1 -> Value]
        BY <1>0, <3>4
      <3> QED
        BY <1>0, <3>3, <3>5, <3>6
    <2> QED
      BY <2>1, <2>2
  <1>4. \A q \in Clients : \A i \in DOMAIN sreq'[q] : sreq'[q][i] \in SuperRequest
    BY <1>1, <1>3 DEF Elsewhere, Types
  <1>5. \A q \in Clients : batch'[q] <= LastBatch
    BY DEF Types
  <1>6. Tables'
    <2>1. Tables
      BY DEF Types
    <2>2. CASE r.ops > 1
      <3>1. sreq' = Put(p, id, [r EXCEPT !.ops = @ - 1])
        BY <2>2 DEF CompleteOperation
      <3> QED
        BY <1>0, <2>1, <3>1, PutTables
    <2>3. CASE ~(r.ops > 1)
      <3>1. CompleteClient(p, id, r, n, t, u, a)
        BY <2>3 DEF CompleteOperation
      <3>2. sreq' = Remove(p, id)
        BY <3>1 DEF CompleteClient
      <3> QED
        BY <1>0, <2>1, <3>2, RemoveTables
    <2> QED
      BY <2>2, <2>3
  <1> QED
    BY <1>2, <1>3, <1>4, <1>5, <1>6 DEF Types, Carried, SuperRequest, Value, Sources, Peers, Procs, Offload

LEMMA NewTyped ==
  ASSUME Daemons = {}, NEW c \in Clients, NEW id \in Nat, NEW proto \in [Dests(c) -> Protocols], NEW val \in Value
  PROVE  New(c, id, proto, val) \subseteq Carried
  <1> SUFFICES ASSUME NEW q \in Dests(c) PROVE Msg("op", c, q, id, proto[q], val) \in Carried
    BY DEF New
  <1>1. q \in Procs /\ c \in Procs
    BY OnlyClients
  <1> QED
    BY <1>1, ValuesAre DEF Msg, Carried

LEMMA SubmitTyped ==
  ASSUME Daemons = {}, IInv, Types, NEW c \in Clients, SubmitOperation(c)
  PROVE  Types'
  <1>p. PICK id, val : id = nextId[c] /\ val = vec[c][Slot(id)]
    OBVIOUS
  <1>0. id \in Nat
    BY <1>p DEF IInv, Shapes
  <1>g. PICK sr : sr = Adopt(Get(c, id, TRUE))
    OBVIOUS
  <1>1. /\ Scatter(c, id, sr, val, net, tx, used, [active EXCEPT ![c] = @ + 1]) /\ batch' = batch /\ rx' = rx
    BY <1>p, <1>g, OnlyClients DEF SubmitOperation
  <1>2. sr \in SuperRequest
    BY <1>g, GetTyped, AdoptTyped
  <1>3. val \in Value
    BY <1>0, <1>p, SlotInRange DEF Types
  <1>a. PICK a : a = [active EXCEPT ![c] = @ + 1]
    OBVIOUS
  <1>q. PICK proto \in [Dests(c) -> Protocols] :
           CompleteOperation(c, id, [sr EXCEPT !.ops = @ - Cardinality(Short(Dests(c), proto))],
                             net \cup New(c, id, proto, val), tx, used, a)
    BY <1>1, <1>a DEF Scatter, New
  <1>r. PICK r : r = [sr EXCEPT !.ops = @ - Cardinality(Short(Dests(c), proto))]
    OBVIOUS
  <1>4. Cardinality(Short(Dests(c), proto)) \in Int
    BY OnlyClients, FS_Subset, FS_CardinalityType DEF Short
  <1>5. r \in SuperRequest
    BY <1>2, <1>4, <1>r, CountedTyped
  <1>6. net \cup New(c, id, proto, val) \subseteq Carried /\ tx \subseteq Carried /\ rx' \subseteq Carried
    BY <1>0, <1>1, <1>3, NewTyped DEF Types, Under
  <1>7. CompleteOperation(c, id, r, net \cup New(c, id, proto, val), tx, used, a)
    BY <1>q, <1>r
  <1> QED
    BY <1>0, <1>1, <1>5, <1>6, <1>7, CompleteTyped

LEMMA GatherArriveTyped ==
  ASSUME Daemons = {}, IInv, Records, Types, NEW m \in net, GatherArrive(m)
  PROVE  Types'
  <1>p. PICK s, p, id : Key(m, s, p, id)
    BY DEF Key
  <1>q. PICK sr : sr = Header(Get(p, id, FALSE), s)
    OBVIOUS
  <1>1. /\ p \in Clients /\ s \in Clients /\ id \in Nat /\ RecordOf(sr) /\ batch' = batch
        /\ Announced(m, p, id, sr) \/ Arrived(m, p, id, Filled(p, id, s, sr, Data(m)))
    BY <1>p, <1>q, GatherArriveIs
  <1>2. sr \in SuperRequest
    BY <1>1, <1>q, GetTyped, HeaderTyped
  <1>3. m \in Under /\ m \in Carried /\ net \subseteq Carried /\ rx \subseteq Carried /\ tx \subseteq Carried
    BY DEF Under, Types
  <1>4. CASE Announced(m, p, id, sr)
    <2>1. /\ sreq' = Put(p, id, sr) /\ net' = net \ {m} /\ rx' = rx \cup {m} /\ tx' = tx /\ vec' = vec
      BY <1>4 DEF Announced
    <2>2. Elsewhere(p, id) /\ sreq'[p][id] = sr
      BY <1>1, <2>1, PutEffect DEF IInv, Shapes
    <2>3. \A q \in Clients : \A i \in DOMAIN sreq'[q] : sreq'[q][i] \in SuperRequest
      BY <1>2, <2>2 DEF Elsewhere, Types
    <2>4. Under' \subseteq Carried
      BY <1>3, <2>1 DEF Under
    <2>5. DOMAIN sreq = Clients /\ Tables
      BY DEF IInv, Shapes, Types
    <2>6. Tables'
      BY <1>1, <2>1, <2>5, PutTables
    <2> QED
      BY <1>1, <2>1, <2>3, <2>4, <2>6 DEF Types, Carried, SuperRequest, Value, Sources, Peers, Procs, Offload
  <1>5. CASE Arrived(m, p, id, Filled(p, id, s, sr, Data(m)))
    <2>v. PICK v, r : v = Data(m) /\ r = Filled(p, id, s, sr, v)
      OBVIOUS
    <2>1. rx' = rx /\ CompleteOperation(p, id, r, net \ {m}, tx \cup Sent(m), OneMore(p), active)
      BY <1>5, <2>v DEF Arrived
    <2>2. v \in Value
      BY <1>3, <2>v, DataTyped
    <2>3. r \in SuperRequest
      BY <1>1, <1>2, <2>2, <2>v, FilledTyped
    <2>4. net \ {m} \subseteq Carried /\ tx \cup Sent(m) \subseteq Carried /\ rx' \subseteq Carried
      BY <1>3, <2>1 DEF Sent
    <2> QED
      BY <1>1, <2>1, <2>3, <2>4, CompleteTyped
  <1> QED
    BY <1>1, <1>4, <1>5

LEMMA GatherDataTyped ==
  ASSUME Daemons = {}, IInv, Records, Types, NEW m \in rx, GatherData(m)
  PROVE  Types'
  <1>p. PICK s, p, id : Key(m, s, p, id)
    BY DEF Key
  <1>q. PICK sr : sr = sreq[p][id]
    OBVIOUS
  <1>1. /\ p \in Clients /\ s \in Clients /\ id \in Nat /\ Live(p, id) /\ RecordOf(sr)
        /\ batch' = batch /\ rx' = rx \ {m}
        /\ CompleteOperation(p, id, Filled(p, id, s, sr, Data(m)), net, tx \cup {m}, used, active)
    BY <1>p, <1>q, GatherDataIs
  <1>2. sr \in SuperRequest
    BY <1>1, <1>q DEF Types, Live
  <1>3. m \in Under /\ m \in Carried /\ net \subseteq Carried /\ rx \subseteq Carried /\ tx \subseteq Carried
    BY DEF Under, Types
  <1>v. PICK v, r : v = Data(m) /\ r = Filled(p, id, s, sr, v)
    OBVIOUS
  <1>4. v \in Value
    BY <1>3, <1>v, DataTyped
  <1>5. r \in SuperRequest
    BY <1>1, <1>2, <1>4, <1>v, FilledTyped
  <1>6. CompleteOperation(p, id, r, net, tx \cup {m}, used, active)
    BY <1>1, <1>v
  <1>7. tx \cup {m} \subseteq Carried /\ rx' \subseteq Carried
    BY <1>1, <1>3
  <1> QED
    BY <1>1, <1>3, <1>5, <1>6, <1>7, CompleteTyped

LEMMA ScatterSentTyped ==
  ASSUME Daemons = {}, IInv, Records, Types, NEW m \in tx, ScatterSent(m)
  PROVE  Types'
  <1>p. PICK p, s, id : Key(m, p, s, id)
    BY DEF Key
  <1>q. PICK sr : sr = sreq[p][id]
    OBVIOUS
  <1>1. /\ p \in Clients /\ id \in Nat /\ Live(p, id) /\ batch' = batch /\ rx' = rx
        /\ CompleteOperation(p, id, sr, net, tx \ {m}, used, active)
    BY <1>p, <1>q, ScatterSentIs
  <1>2. sr \in SuperRequest
    BY <1>1, <1>q DEF Types, Live
  <1>3. net \subseteq Carried /\ rx' \subseteq Carried /\ tx \ {m} \subseteq Carried
    BY <1>1 DEF Under, Types
  <1> QED
    BY <1>1, <1>2, <1>3, CompleteTyped

LEMMA NextBatchTyped ==
  ASSUME Daemons = {}, IInv, Types, NEW c \in Clients, NextBatch(c)
  PROVE  Types'
  <1>0. /\ batch \in [Clients -> Nat] /\ LastBatch \in Nat
        /\ vec \in [Clients -> [0 .. BatchSize - 1 -> Value]] /\ Of(c) \in Value
        /\ \A p \in Clients : batch[p] <= LastBatch
    BY AllreduceAssumption, ValuesAre DEF IInv, Shapes, Types, LastBatch
  <1>1. /\ sreq' = sreq /\ net' = net /\ rx' = rx /\ tx' = tx
        /\ \/ batch' = batch /\ vec' = vec
           \/ /\ batch[c] # LastBatch /\ batch' = [batch EXCEPT ![c] = @ + 1]
              /\ vec' = IF ResetBefore(batch[c] + 1) THEN [vec EXCEPT ![c] = [s \in DOMAIN @ |-> Of(c)]] ELSE vec
    BY DEF NextBatch
  <1>2. \A p \in Clients : batch'[p] <= LastBatch
    BY <1>0, <1>1
  <1>3. vec' \in [Clients -> [0 .. BatchSize - 1 -> Value]]
    <2>1. [s \in DOMAIN vec[c] |-> Of(c)] \in [0 .. BatchSize - 1 -> Value]
      BY <1>0
    <2> QED
      BY <1>0, <1>1, <2>1
  <1>4. Under' \subseteq Carried
    BY <1>1 DEF Under, Types
  <1>5. Tables'
    BY <1>1 DEF Types, Tables
  <1> QED
    BY <1>1, <1>2, <1>3, <1>4, <1>5 DEF Types, Carried, SuperRequest, Value, Sources, Peers, Procs, Offload

LEMMA NextTyped ==
  ASSUME Daemons = {}, IInv, Records, Types, [Next]_vars
  PROVE  Types'
  <1>0. \A m \in net \cup rx \cup tx : m.kind = "op"
    BY DEF IInv, Messages, Under
  <1>1. CASE UNCHANGED vars
    <2>1. batch' = batch /\ vec' = vec /\ sreq' = sreq /\ net' = net /\ rx' = rx /\ tx' = tx
      BY <1>1 DEF vars
    <2>2. Under' \subseteq Carried
      BY <2>1 DEF Under, Types
    <2>3. Tables'
      BY <2>1 DEF Types, Tables
    <2> QED
      BY <2>1, <2>2, <2>3 DEF Types, Carried, SuperRequest, Value, Sources, Peers, Procs, Offload
  <1>2. ASSUME NEW c \in Clients, SubmitOperation(c) PROVE Types'
    BY <1>2, SubmitTyped
  <1>3. ASSUME NEW c \in Clients, NextBatch(c) PROVE Types'
    BY <1>3, NextBatchTyped
  <1>4. ASSUME NEW m \in net, GatherArrive(m) PROVE Types'
    BY <1>4, GatherArriveTyped
  <1>5. ASSUME NEW m \in rx, GatherData(m) PROVE Types'
    BY <1>5, GatherDataTyped
  <1>6. ASSUME NEW m \in tx, ScatterSent(m) PROVE Types'
    BY <1>6, ScatterSentTyped
  <1> QED
    BY <1>0, <1>1, <1>2, <1>3, <1>4, <1>5, <1>6
       DEF Next, Step, Finished, ClientArrive, ResultArrive, ClientData, ResultData, ResultSent

LEMMA InitTyped == ASSUME Daemons = {}, Init PROVE Types
  <1>1. /\ \A p \in Clients : batch[p] = 0 /\ DOMAIN sreq[p] = {}
        /\ Under = {}
        /\ vec = [c \in Clients |-> [s \in 0 .. BatchSize - 1 |-> Of(Junk)]]
    BY OnlyClients DEF Init, Under
  <1>2. Of(Junk) \in Value /\ LastBatch \in Nat
    BY ValuesAre, AllreduceAssumption DEF LastBatch
  <1>3. \A p \in Clients : batch[p] <= LastBatch
    BY <1>1, <1>2
  <1>4. vec \in [Clients -> [0 .. BatchSize - 1 -> Value]]
    BY <1>1, <1>2
  <1>5. Tables
    BY OnlyClients DEF Init, Tables
  <1> QED
    BY <1>1, <1>3, <1>4, <1>5 DEF Types

\* Nobody is beyond the last operation of the last batch.
LEMMA IdsBounded ==
  ASSUME Daemons = {}, IInv, Types, NEW p \in Clients, NEW id \in Nat, id < nextId[p]
  PROVE  id \in Ids
  <1>1. batch[p] \in Nat /\ batch[p] <= LastBatch /\ LastBatch \in Nat
    BY AllreduceAssumption DEF IInv, Shapes, Types, LastBatch
  <1>2. id <= LastIdOf(batch[p])
    BY WithinBatch DEF IInv
  <1>3. LastIdOf(batch[p]) \in Nat /\ LastIdOf(LastBatch) \in Nat /\ BatchSize \in Nat
    BY <1>1, LastIds
  <1>4. batch[p] < LastBatch => LastIdOf(batch[p]) + BatchSize <= LastIdOf(LastBatch)
    BY <1>1, LastIdsGrow
  <1>5. id <= LastIdOf(LastBatch)
    BY <1>1, <1>2, <1>3, <1>4
  <1> QED
    BY <1>3, <1>5 DEF Ids, LastIdOf

LEMMA TypesGiveTypeOK == ASSUME Daemons = {}, IInv, Records, Accounts, Types PROVE TypeOK
  <1>1. /\ batch \in [Clients -> 0 .. LastBatch] /\ nextId \in [Clients -> Nat]
        /\ pc \in [Clients -> {"submit", "wait", "done"}] /\ active \in [Clients -> Nat]
    <2>1. LastBatch \in Nat
      BY AllreduceAssumption DEF LastBatch
    <2> QED
      BY <2>1 DEF IInv, Shapes, Types
  <1>2. DOMAIN sreq = Procs
    BY OnlyClients DEF IInv, Shapes
  <1>3. ASSUME NEW p \in Procs, NEW id \in DOMAIN sreq[p] PROVE id \in Ids /\ sreq[p][id] \in SuperRequest
    <2>1. p \in Clients /\ id \in Nat /\ Live(p, id)
      BY OnlyClients DEF IInv, Shapes, Live
    <2>2. id < nextId[p] \/ Heads(p, id) # {}
      BY <2>1 DEF IInv, Requests, PairOf, HeldOf
    <2>3. \E q \in Clients : id < nextId[q]
      BY <2>1, <2>2, OnlyClients DEF Heads
    <2> QED
      BY <2>1, <2>3, IdsBounded DEF Types
  <1>4. ASSUME NEW p \in Procs PROVE DOMAIN sreq[p] \subseteq Ids /\ sreq[p] \in [DOMAIN sreq[p] -> SuperRequest]
    <2>1. sreq[p] = [id \in DOMAIN sreq[p] |-> sreq[p][id]]
      BY OnlyClients DEF Types, Tables
    <2> QED
      BY <1>3, <2>1
  <1>5. used \in [Procs -> Nat]
    <2>1. ASSUME NEW p \in Clients PROVE used[p] \in Nat
      <3>p. PICK f, S : f = Weights(p) /\ S = DOMAIN sreq[p]
        OBVIOUS
      <3>1. IsFiniteSet(S) /\ \A i \in S : f[i] \in Nat
        BY <3>p, WeightsAre
      <3>2. Total(f, S) \in Nat
        BY <3>1, PairsFinite
      <3> QED
        BY <3>p, <3>2 DEF Accounts
    <2> QED
      BY <2>1, OnlyClients DEF Accounts
  <1>6. Under \subseteq Message
    <2> SUFFICES ASSUME NEW m \in Under PROVE m \in Message
      OBVIOUS
    <2>1. m \in Carried /\ m.src \in Clients /\ m.id \in Nat /\ m.id < nextId[m.src]
      BY DEF Types, IInv, Messages
    <2>2. m.id \in Ids
      BY <2>1, IdsBounded
    <2> QED
      BY <2>1, <2>2 DEF Carried, Message
  <1>7. net \subseteq Message /\ rx \subseteq Message /\ tx \subseteq Message
    BY <1>6 DEF Under
  <1> QED
    BY <1>1, <1>2, <1>4, <1>5, <1>7 DEF TypeOK, Types

-----------------------------------------------------------------------------
(***************************************************************************)
(* Clients with daemons.  For a daemon d and an operation id, Here are the *)
(* clients of d whose vector it has; when all are there d exchanges with   *)
(* the other daemons as clients without daemons do with each other, and    *)
(* when nothing is owed any more it answers its clients.                   *)
(***************************************************************************)
Local(d) == {c \in Clients : Home[c] = d}
Complete == Offload /\ \A d \in Daemons : NumClients[d] = Cardinality(Local(d))

Kind(k, S) == {m \in S : m.kind = k}
Sends(S, k, p, q, id) == Has(Kind(k, S), p, q, id)

Here(d, id) == {c \in Local(d) : id < nextId[c] /\ ~Sends(net \cup rx, "ctrl", c, d, id)}
Full(d, id) == Here(d, id) = Local(d)

DHeads(d, id) == {e \in Dests(d) : Full(e, id) /\ ~Sends(net, "op", e, d, id)}
DComing(d, id) == {e \in Dests(d) : Sends(rx, "op", e, d, id)}
DGot(d, id) == DHeads(d, id) \ DComing(d, id)
DTo(d, id) == {e \in Dests(d) : Sends(Slow, "op", d, e, id)}
DOwed(d, id) == IF Full(d, id) THEN LeftAfter(Dests(d), DTo(d, id), DGot(d, id))
                               ELSE LeftBefore(Dests(d), DGot(d, id))
Answers(d, id) == {c \in Local(d) : Sends(Under, "result", d, c, id)}
Late(d, id) == {c \in Local(d) : Sends(Slow, "result", d, c, id)}

\* A daemon's super request while vectors are exchanged, and while results are sent.
Exchanges(d, id, sr) ==
    /\ DOMAIN sr = Fields /\ sr.ops = DOwed(d, id) /\ SeenBy(sr) = DHeads(d, id)
    /\ sr.list = Here(d, id) /\ sr.nreq = Cardinality(Here(d, id))
    /\ sr.set <=> Here(d, id) # {}
    /\ Here(d, id) # {} \/ DHeads(d, id) # {}
Delivers(d, id, sr) ==
    /\ DOMAIN sr = Fields /\ sr.ops = 0 /\ sr.first = NoPeer /\ sr.others = {}
    /\ sr.list = {} /\ sr.set
    /\ sr.nreq = Cardinality(Late(d, id)) /\ Late(d, id) # {}

DaemonPair(d, id) ==
    IF DOwed(d, id) # 0
    THEN /\ Answers(d, id) = {}
         /\ IF Live(d, id) THEN Exchanges(d, id, sreq[d][id])
                           ELSE Here(d, id) = {} /\ DHeads(d, id) = {}
    ELSE IF Live(d, id) THEN Delivers(d, id, sreq[d][id]) ELSE Late(d, id) = {}

\* A client's super request is there from the submission to the result.
ClientPair(c, id) ==
    IF Live(c, id)
    THEN /\ id < nextId[c] /\ DOMAIN sreq[c][id] = Fields /\ sreq[c][id].set
         /\ ~sreq[c][id].owner /\ sreq[c][id].first = NoPeer /\ sreq[c][id].others = {}
    ELSE id < nextId[c] => /\ DOwed(Home[c], id) = 0
                           /\ ~Sends(net \cup rx, "result", Home[c], c, id)

MailOf(m) ==
    /\ m.id \in Nat
    /\ \/ m.kind = "ctrl" /\ m.src \in Clients /\ m.dst = Home[m.src] /\ m.id < nextId[m.src]
       \/ m.kind = "op" /\ m.src \in Daemons /\ m.dst \in Dests(m.src) /\ Full(m.src, m.id)
       \/ m.kind = "result" /\ m.dst \in Clients /\ m.src = Home[m.dst]
Mail ==
    /\ \A m \in Under : MailOf(m)
    /\ \A m \in rx : m.proto = "rndv"
    /\ \A m \in tx : m.proto # "short" /\ m.kind # "ctrl"

Single ==
    /\ \A m, n \in Under : (m.kind = n.kind /\ m.src = n.src /\ m.dst = n.dst /\ m.id = n.id) => m = n
    /\ net \cap rx = {} /\ net \cap tx = {} /\ rx \cap tx = {}

Forms ==
    /\ nextId \in [Clients -> Nat] /\ DOMAIN sreq = Procs
    /\ \A p \in Procs : DOMAIN sreq[p] \subseteq Nat

OInv == /\ Forms /\ Mail /\ Single
        /\ \A d \in Daemons : \A id \in Nat : DaemonPair(d, id)
        /\ \A c \in Clients : \A id \in Nat : ClientPair(c, id)

-----------------------------------------------------------------------------
LEMMA WithDaemons ==
  ASSUME Complete
  PROVE  /\ Offload /\ Peers = Daemons /\ Procs = Clients \cup Daemons /\ Clients \cap Daemons = {}
         /\ NoPeer \notin Daemons /\ NoPeer \notin Clients
         /\ \A d : Dests(d) = Daemons \ {d}
         /\ \A d : IsFiniteSet(Dests(d)) /\ Cardinality(Dests(d)) \in Nat
         /\ \A c \in Clients : Home[c] \in Daemons /\ c \in Local(Home[c])
         /\ \A d : IsFiniteSet(Local(d)) /\ Cardinality(Local(d)) \in Nat
         /\ \A d \in Daemons : Local(d) # {} /\ NumClients[d] = Cardinality(Local(d))
  <1>1. /\ Offload /\ Peers = Daemons /\ Procs = Clients \cup Daemons /\ Clients \cap Daemons = {}
        /\ NoPeer \notin Daemons /\ NoPeer \notin Clients
    BY AllreduceAssumption DEF Complete, Procs, Peers
  <1>2. \A d : Dests(d) = Daemons \ {d}
    BY <1>1 DEF Dests
  <1>3. ASSUME NEW d PROVE IsFiniteSet(Dests(d)) /\ Cardinality(Dests(d)) \in Nat
    <2>1. IsFiniteSet(Daemons) /\ Dests(d) \subseteq Daemons
      BY <1>2, AllreduceAssumption
    <2> QED
      BY <2>1, FS_Subset, FS_CardinalityType
  <1>4. ASSUME NEW d PROVE IsFiniteSet(Local(d)) /\ Cardinality(Local(d)) \in Nat
    <2>1. IsFiniteSet(Clients) /\ Local(d) \subseteq Clients
      BY AllreduceAssumption DEF Local
    <2> QED
      BY <2>1, FS_Subset, FS_CardinalityType
  <1>5. ASSUME NEW d \in Daemons PROVE Local(d) # {} /\ NumClients[d] = Cardinality(Local(d))
    <2>1. NumClients[d] = Cardinality(Local(d)) /\ NumClients[d] # 0
      BY AllreduceAssumption DEF Complete
    <2> QED
      BY <2>1, FS_EmptySet
  <1>6. \A c \in Clients : Home[c] \in Daemons /\ c \in Local(Home[c])
    BY <1>1, AllreduceAssumption DEF Local
  <1> QED
    BY <1>1, <1>2, <1>3, <1>4, <1>5, <1>6

\* The sets of a daemon's operation, and what is left of it.
LEMMA DSets ==
  ASSUME Complete, NEW d \in Daemons, NEW id
  PROVE  /\ IsFiniteSet(Dests(d)) /\ DTo(d, id) \in SUBSET Dests(d) /\ DGot(d, id) \in SUBSET Dests(d)
         /\ DOwed(d, id) \in Nat
         /\ DOwed(d, id) = 0 <=> (Full(d, id) /\ DTo(d, id) = {} /\ DGot(d, id) = Dests(d))
  <1>1. /\ IsFiniteSet(Dests(d)) /\ DTo(d, id) \in SUBSET Dests(d) /\ DGot(d, id) \in SUBSET Dests(d)
    BY WithDaemons DEF DTo, DGot, DHeads
  <1>2. /\ LeftBefore(Dests(d), DGot(d, id)) \in Nat /\ LeftBefore(Dests(d), DGot(d, id)) # 0
        /\ LeftAfter(Dests(d), DTo(d, id), DGot(d, id)) \in Nat
        /\ LeftAfter(Dests(d), DTo(d, id), DGot(d, id)) = 0
             <=> (DTo(d, id) = {} /\ DGot(d, id) = Dests(d))
    BY <1>1, LeftIs
  <1>3. CASE Full(d, id)
    BY <1>1, <1>2, <1>3 DEF DOwed
  <1>4. CASE ~Full(d, id)
    BY <1>1, <1>2, <1>4 DEF DOwed
  <1> QED
    BY <1>3, <1>4

LEMMA DSetsNext ==
  ASSUME Complete, NEW d \in Daemons, NEW id
  PROVE  /\ DTo(d, id)' \in SUBSET Dests(d) /\ DGot(d, id)' \in SUBSET Dests(d)
         /\ DOwed(d, id)' \in Nat
         /\ DOwed(d, id)' = 0 <=> (Full(d, id)' /\ DTo(d, id)' = {} /\ DGot(d, id)' = Dests(d))
  <1>1. /\ IsFiniteSet(Dests(d)) /\ DTo(d, id)' \in SUBSET Dests(d) /\ DGot(d, id)' \in SUBSET Dests(d)
    BY WithDaemons DEF DTo, DGot, DHeads, Dests
  <1>2. DOwed(d, id)' = IF Full(d, id)' THEN LeftAfter(Dests(d), DTo(d, id)', DGot(d, id)')
                                        ELSE LeftBefore(Dests(d), DGot(d, id)')
    BY DEF DOwed, LeftAfter, LeftBefore, Dests
  <1> QED
    BY <1>1, <1>2, LeftIs

\* The sets of an operation of a daemon do not change.
ExchangeKept(d, id) ==
    /\ Here(d, id)' = Here(d, id) /\ DHeads(d, id)' = DHeads(d, id)
    /\ DComing(d, id)' = DComing(d, id) /\ DTo(d, id)' = DTo(d, id)
AnswersKept(d, id) == Answers(d, id)' = Answers(d, id) /\ Late(d, id)' = Late(d, id)

LEMMA OwedKept ==
  ASSUME NEW d, NEW id, ExchangeKept(d, id)
  PROVE  DOwed(d, id)' = DOwed(d, id) /\ Full(d, id)' = Full(d, id)
  <1>1. DGot(d, id)' = DGot(d, id)
    BY DEF ExchangeKept, DGot
  <1>2. Full(d, id)' = Full(d, id)
    BY DEF ExchangeKept, Full, Local
  <1> QED
    BY <1>1, <1>2 DEF ExchangeKept, DOwed, Dests

LEMMA DaemonPairKept ==
  ASSUME NEW d, NEW id, DaemonPair(d, id), ExchangeKept(d, id), AnswersKept(d, id),
         Live(d, id)' <=> Live(d, id), Live(d, id) => sreq'[d][id] = sreq[d][id]
  PROVE  DaemonPair(d, id)'
  <1>1. DOwed(d, id)' = DOwed(d, id) /\ Full(d, id)' = Full(d, id)
    BY OwedKept
  <1>2. ASSUME Live(d, id) PROVE (sreq[d][id])' = sreq[d][id]
    BY <1>2
  <1>3. CASE Live(d, id) /\ DOwed(d, id) # 0
    BY <1>1, <1>2, <1>3 DEF DaemonPair, Exchanges, ExchangeKept, AnswersKept
  <1>4. CASE Live(d, id) /\ DOwed(d, id) = 0
    BY <1>1, <1>2, <1>4 DEF DaemonPair, Delivers, ExchangeKept, AnswersKept
  <1>5. CASE ~Live(d, id)
    BY <1>1, <1>5 DEF DaemonPair, ExchangeKept, AnswersKept
  <1> QED
    BY <1>3, <1>4, <1>5

-----------------------------------------------------------------------------
\* Messages of a kind.
LEMMA SendsNext ==
  ASSUME NEW k, NEW p, NEW q, NEW i
  PROVE  /\ Sends(net, k, p, q, i)' <=> Has(Kind(k, net'), p, q, i)
         /\ Sends(rx, k, p, q, i)' <=> Has(Kind(k, rx'), p, q, i)
         /\ Sends(net \cup rx, k, p, q, i)' <=> Has(Kind(k, net' \cup rx'), p, q, i)
         /\ Sends(Slow, k, p, q, i)' <=> Has(Kind(k, Slow'), p, q, i)
         /\ Sends(Under, k, p, q, i)' <=> Has(Kind(k, Under'), p, q, i)
  BY DEF Sends, Has, Kind, Key

\* No message of a kind moves.
KindKept(k) == /\ Kind(k, net') = Kind(k, net) /\ Kind(k, rx') = Kind(k, rx)
               /\ Kind(k, tx') = Kind(k, tx)

LEMMA KindKeptAll ==
  ASSUME NEW k, KindKept(k)
  PROVE  /\ Kind(k, net' \cup rx') = Kind(k, net \cup rx) /\ Kind(k, Under') = Kind(k, Under)
         /\ Kind(k, Slow') = Kind(k, Slow)
  <1>1. Kind(k, net' \cup rx') = Kind(k, net \cup rx) /\ Kind(k, Under') = Kind(k, Under)
    BY DEF KindKept, Kind, Under
  <1> QED
    BY <1>1 DEF Slow, Kind

LEMMA HereKept ==
  ASSUME nextId' = nextId, Kind("ctrl", net' \cup rx') = Kind("ctrl", net \cup rx)
  PROVE  \A d, i : Here(d, i)' = Here(d, i)
  <1>1. \A c, d, i : Sends(net \cup rx, "ctrl", c, d, i)' <=> Sends(net \cup rx, "ctrl", c, d, i)
    BY SendsNext DEF Sends
  <1> QED
    BY <1>1 DEF Here, Local

LEMMA ExchangesKept ==
  ASSUME \A d, i : Here(d, i)' = Here(d, i), KindKept("op")
  PROVE  \A d, i : ExchangeKept(d, i)
  <1>0. Kind("op", Slow') = Kind("op", Slow)
    BY KindKeptAll
  <1>1. \A d, e, i : /\ Sends(net, "op", d, e, i)' <=> Sends(net, "op", d, e, i)
                     /\ Sends(rx, "op", d, e, i)' <=> Sends(rx, "op", d, e, i)
                     /\ Sends(Slow, "op", d, e, i)' <=> Sends(Slow, "op", d, e, i)
    BY <1>0, SendsNext DEF Sends, KindKept
  <1>2. \A d, i : Full(d, i)' = Full(d, i)
    BY DEF Full, Local
  <1>3. \A d, i : DHeads(d, i)' = DHeads(d, i)
    BY <1>1, <1>2 DEF DHeads, Dests
  <1>4. \A d, i : DComing(d, i)' = DComing(d, i) /\ DTo(d, i)' = DTo(d, i)
    BY <1>1 DEF DComing, DTo, Dests
  <1> QED
    BY <1>3, <1>4 DEF ExchangeKept

LEMMA AnswersAllKept ==
  ASSUME Kind("result", Under') = Kind("result", Under), Kind("result", Slow') = Kind("result", Slow)
  PROVE  \A d, i : AnswersKept(d, i)
  <1>1. \A d, c, i : /\ Sends(Under, "result", d, c, i)' <=> Sends(Under, "result", d, c, i)
                     /\ Sends(Slow, "result", d, c, i)' <=> Sends(Slow, "result", d, c, i)
    BY SendsNext DEF Sends
  <1> QED
    BY <1>1 DEF AnswersKept, Answers, Late, Local

\* A message leaves a set, one that is alone with its key; or enters it.
LEMMA KindLess ==
  ASSUME Single, NEW k, NEW S \in SUBSET Under, NEW m \in Under, m.kind = k, NEW p, NEW q, NEW i
  PROVE  Has(Kind(k, S) \ {m}, p, q, i) <=> Sends(S, k, p, q, i) /\ ~Key(m, p, q, i)
  BY DEF Single, Has, Key, Kind, Sends

\* Single and Mail after a step.
LEMMA SingleNext ==
  ASSUME Single, NEW N, Under' \subseteq Under \cup N,
         \A x, y \in N : (x.kind = y.kind /\ x.src = y.src /\ x.dst = y.dst /\ x.id = y.id) => x = y,
         \A x \in N : \A y \in Under :
            ~(x.kind = y.kind /\ x.src = y.src /\ x.dst = y.dst /\ x.id = y.id),
         net' \cap rx' = {}, net' \cap tx' = {}, rx' \cap tx' = {}
  PROVE  Single'
  BY DEF Single

LEMMA MailNext ==
  ASSUME Mail, \A c \in Clients : nextId[c] \in Nat /\ nextId'[c] \in Nat /\ nextId[c] <= nextId'[c],
         \A d \in Daemons : \A i \in Nat : Full(d, i) => Full(d, i)',
         \A x \in Under' : x \in Under \/ MailOf(x)',
         \A x \in rx' : x.proto = "rndv",
         \A x \in tx' : x.proto # "short" /\ x.kind # "ctrl"
  PROVE  Mail'
  <1>1. ASSUME NEW x \in Under PROVE MailOf(x)'
    <2>1. MailOf(x)
      BY DEF Mail
    <2>2. CASE x.kind = "ctrl" /\ x.src \in Clients /\ x.dst = Home[x.src] /\ x.id < nextId[x.src]
      <3>1. PICK c \in Clients, i \in Nat : c = x.src /\ i = x.id
        BY <2>1, <2>2 DEF MailOf
      <3>2. i < nextId'[c]
        BY <2>2, <3>1
      <3> QED
        BY <2>2, <3>1, <3>2 DEF MailOf
    <2>3. CASE x.kind = "op" /\ x.src \in Daemons /\ x.dst \in Dests(x.src) /\ Full(x.src, x.id)
      <3>1. Full(x.src, x.id)' /\ x.id \in Nat
        BY <2>1, <2>3 DEF MailOf
      <3> QED
        BY <2>3, <3>1 DEF MailOf, Dests
    <2>4. CASE x.kind = "result" /\ x.dst \in Clients /\ x.src = Home[x.dst]
      BY <2>1, <2>4 DEF MailOf
    <2> QED
      BY <2>1, <2>2, <2>3, <2>4 DEF MailOf
  <1> QED
    BY <1>1 DEF Mail

\* A client's vector is taken in by its daemon.
LEMMA CtrlTaken ==
  ASSUME Complete, Mail, Single, NEW m \in net \cup rx, m.kind = "ctrl", NEW c, NEW d, NEW id,
         Key(m, c, d, id), nextId' = nextId,
         Kind("ctrl", net' \cup rx') = Kind("ctrl", net \cup rx) \ {m}
  PROVE  /\ d \in Daemons /\ id \in Nat /\ c \in Local(d) \ Here(d, id)
         /\ Here(d, id)' = Here(d, id) \cup {c} /\ ~Full(d, id)
         /\ \A e \in Daemons : \A i : (e # d \/ i # id) => Here(e, i)' = Here(e, i)
  <1>1. m \in Under /\ MailOf(m) /\ net \cup rx \in SUBSET Under
    BY DEF Mail, Under
  <1>2. c \in Clients /\ d = Home[c] /\ id \in Nat /\ id < nextId[c]
    BY <1>1 DEF MailOf, Key
  <1>3. d \in Daemons /\ c \in Local(d)
    BY <1>2, WithDaemons
  <1>4. Sends(net \cup rx, "ctrl", c, d, id)
    BY DEF Sends, Has, Kind
  <1>5. c \notin Here(d, id)
    BY <1>4 DEF Here
  <1>6. \A p, q, i : Sends(net \cup rx, "ctrl", p, q, i)'
                       <=> Sends(net \cup rx, "ctrl", p, q, i) /\ ~Key(m, p, q, i)
    <2>1. ASSUME NEW p, NEW q, NEW i
          PROVE  Has(Kind("ctrl", net \cup rx) \ {m}, p, q, i)
                    <=> Sends(net \cup rx, "ctrl", p, q, i) /\ ~Key(m, p, q, i)
      BY <1>1, KindLess
    <2> QED
      BY <2>1, SendsNext
  <1>7. \A p, q, i : Key(m, p, q, i) <=> (p = c /\ q = d /\ i = id)
    BY DEF Key
  <1>8. Here(d, id)' = Here(d, id) \cup {c}
    <2>1. ASSUME NEW p PROVE p \in Here(d, id)' <=> p \in Here(d, id) \cup {c}
      BY <1>2, <1>3, <1>6, <1>7 DEF Here, Local
    <2> QED
      BY <2>1
  <1>9. ASSUME NEW e \in Daemons, NEW i, e # d \/ i # id PROVE Here(e, i)' = Here(e, i)
    <2>1. ASSUME NEW p PROVE Sends(net \cup rx, "ctrl", p, e, i)' <=> Sends(net \cup rx, "ctrl", p, e, i)
      BY <1>6, <1>7, <1>9
    <2> QED
      BY <2>1 DEF Here, Local
  <1> QED
    BY <1>2, <1>3, <1>5, <1>8, <1>9 DEF Full

\* The vector of daemon e arrives at d.
LEMMA OpArrives ==
  ASSUME Complete, Mail, Single, NEW m \in net, m.kind = "op", NEW e, NEW d, NEW id, Key(m, e, d, id),
         \A a, i : Here(a, i)' = Here(a, i),
         Kind("op", net') = Kind("op", net) \ {m},
         Kind("op", rx') = IF m.proto = "rndv" THEN Kind("op", rx) \cup {m} ELSE Kind("op", rx),
         Kind("op", Slow') = Kind("op", Slow)
  PROVE  /\ d \in Daemons /\ e \in Dests(d) /\ id \in Nat
         /\ e \notin DHeads(d, id) /\ e \notin DComing(d, id)
         /\ DHeads(d, id)' = DHeads(d, id) \cup {e} /\ DTo(d, id)' = DTo(d, id)
         /\ DComing(d, id)' = IF m.proto = "rndv" THEN DComing(d, id) \cup {e} ELSE DComing(d, id)
         /\ \A a \in Daemons : \A i : (a # d \/ i # id) => ExchangeKept(a, i)
  <1>1. m \in Under /\ MailOf(m) /\ net \in SUBSET Under
    BY DEF Mail, Under
  <1>2. d \in Daemons /\ e \in Dests(d) /\ id \in Nat /\ Full(e, id)
    BY <1>1, WithDaemons DEF MailOf, Key
  <1>3. Sends(net, "op", e, d, id)
    BY DEF Sends, Has, Kind
  <1>4. e \notin DHeads(d, id) /\ e \notin DComing(d, id)
    <2>1. ~Sends(rx, "op", e, d, id)
      BY DEF Sends, Has, Kind, Key, Single, Under
    <2> QED
      BY <1>3, <2>1 DEF DHeads, DComing
  <1>5. \A p, q, i : Sends(net, "op", p, q, i)' <=> Sends(net, "op", p, q, i) /\ ~Key(m, p, q, i)
    <2>1. ASSUME NEW p, NEW q, NEW i
          PROVE  Has(Kind("op", net) \ {m}, p, q, i) <=> Sends(net, "op", p, q, i) /\ ~Key(m, p, q, i)
      BY <1>1, KindLess
    <2> QED
      BY <2>1, SendsNext
  <1>6. \A p, q, i : Sends(rx, "op", p, q, i)'
                       <=> Sends(rx, "op", p, q, i) \/ (m.proto = "rndv" /\ Key(m, p, q, i))
    <2>1. ASSUME NEW p, NEW q, NEW i
          PROVE  Has(Kind("op", rx'), p, q, i)
                   <=> Has(Kind("op", rx), p, q, i) \/ (m.proto = "rndv" /\ Key(m, p, q, i))
      BY DEF Has
    <2> QED
      BY <2>1, SendsNext DEF Sends
  <1>7. \A p, q, i : Sends(Slow, "op", p, q, i)' <=> Sends(Slow, "op", p, q, i)
    BY SendsNext DEF Sends
  <1>8. \A p, q, i : Key(m, p, q, i) <=> (p = e /\ q = d /\ i = id)
    BY DEF Key
  <1>9. \A a, i : Full(a, i)' = Full(a, i) /\ DTo(a, i)' = DTo(a, i)
    BY <1>7 DEF Full, Local, DTo, Dests
  <1>10. \A a, i : (a # d \/ i # id) => DHeads(a, i)' = DHeads(a, i)
    BY <1>5, <1>8, <1>9 DEF DHeads, Dests
  <1>11. \A a, i : (a # d \/ i # id) => DComing(a, i)' = DComing(a, i)
    BY <1>6, <1>8 DEF DComing, Dests
  <1>12. DHeads(d, id)' = DHeads(d, id) \cup {e}
    <2>1. ASSUME NEW q PROVE q \in DHeads(d, id)' <=> q \in DHeads(d, id) \cup {e}
      BY <1>2, <1>5, <1>8, <1>9 DEF DHeads, Dests
    <2> QED
      BY <2>1
  <1>13. DComing(d, id)' = IF m.proto = "rndv" THEN DComing(d, id) \cup {e} ELSE DComing(d, id)
    <2>1. ASSUME NEW q, m.proto = "rndv" PROVE q \in DComing(d, id)' <=> q \in DComing(d, id) \cup {e}
      BY <1>2, <1>6, <1>8, <2>1 DEF DComing, Dests
    <2>2. ASSUME NEW q, m.proto # "rndv" PROVE q \in DComing(d, id)' <=> q \in DComing(d, id)
      BY <1>2, <1>6, <1>8, <2>2 DEF DComing, Dests
    <2> QED
      BY <2>1, <2>2
  <1> QED
    BY <1>2, <1>4, <1>9, <1>10, <1>11, <1>12, <1>13 DEF ExchangeKept

\* The data of an announced vector arrives.
LEMMA OpData ==
  ASSUME Complete, Mail, Single, NEW m \in rx, m.kind = "op", NEW e, NEW d, NEW id, Key(m, e, d, id),
         \A a, i : Here(a, i)' = Here(a, i),
         Kind("op", net') = Kind("op", net), Kind("op", rx') = Kind("op", rx) \ {m},
         Kind("op", Slow') = Kind("op", Slow)
  PROVE  /\ d \in Daemons /\ e \in Dests(d) /\ id \in Nat
         /\ e \in DHeads(d, id) /\ e \in DComing(d, id)
         /\ DHeads(d, id)' = DHeads(d, id) /\ DTo(d, id)' = DTo(d, id)
         /\ DComing(d, id)' = DComing(d, id) \ {e}
         /\ \A a \in Daemons : \A i : (a # d \/ i # id) => ExchangeKept(a, i)
  <1>1. m \in Under /\ MailOf(m) /\ rx \in SUBSET Under
    BY DEF Mail, Under
  <1>2. d \in Daemons /\ e \in Dests(d) /\ id \in Nat /\ Full(e, id)
    BY <1>1, WithDaemons DEF MailOf, Key
  <1>3. Sends(rx, "op", e, d, id)
    BY DEF Sends, Has, Kind
  <1>4. e \in DHeads(d, id) /\ e \in DComing(d, id)
    <2>1. ~Sends(net, "op", e, d, id)
      BY DEF Sends, Has, Kind, Key, Single, Under
    <2> QED
      BY <1>2, <1>3, <2>1 DEF DHeads, DComing
  <1>5. \A p, q, i : Sends(rx, "op", p, q, i)' <=> Sends(rx, "op", p, q, i) /\ ~Key(m, p, q, i)
    <2>1. ASSUME NEW p, NEW q, NEW i
          PROVE  Has(Kind("op", rx) \ {m}, p, q, i) <=> Sends(rx, "op", p, q, i) /\ ~Key(m, p, q, i)
      BY <1>1, KindLess
    <2> QED
      BY <2>1, SendsNext
  <1>6. \A p, q, i : /\ Sends(net, "op", p, q, i)' <=> Sends(net, "op", p, q, i)
                     /\ Sends(Slow, "op", p, q, i)' <=> Sends(Slow, "op", p, q, i)
    BY SendsNext DEF Sends
  <1>8. \A p, q, i : Key(m, p, q, i) <=> (p = e /\ q = d /\ i = id)
    BY DEF Key
  <1>9. \A a, i : Full(a, i)' = Full(a, i) /\ DTo(a, i)' = DTo(a, i)
    BY <1>6 DEF Full, Local, DTo, Dests
  <1>10. \A a, i : DHeads(a, i)' = DHeads(a, i)
    BY <1>6, <1>9 DEF DHeads, Dests
  <1>11. \A a, i : (a # d \/ i # id) => DComing(a, i)' = DComing(a, i)
    BY <1>5, <1>8 DEF DComing, Dests
  <1>12. DComing(d, id)' = DComing(d, id) \ {e}
    <2>1. ASSUME NEW q PROVE q \in DComing(d, id)' <=> q \in DComing(d, id) \ {e}
      BY <1>2, <1>5, <1>8 DEF DComing, Dests
    <2> QED
      BY <2>1
  <1> QED
    BY <1>2, <1>4, <1>9, <1>10, <1>11, <1>12 DEF ExchangeKept

\* A send to another daemon is over.
LEMMA OpSent ==
  ASSUME Complete, Mail, Single, NEW m \in tx, m.kind = "op", NEW e, NEW d, NEW id, Key(m, d, e, id),
         \A a, i : Here(a, i)' = Here(a, i),
         Kind("op", net') = Kind("op", net), Kind("op", rx') = Kind("op", rx),
         Kind("op", Slow') = Kind("op", Slow) \ {m}
  PROVE  /\ d \in Daemons /\ id \in Nat /\ Full(d, id) /\ e \in DTo(d, id)
         /\ DHeads(d, id)' = DHeads(d, id) /\ DComing(d, id)' = DComing(d, id)
         /\ DTo(d, id)' = DTo(d, id) \ {e}
         /\ \A a \in Daemons : \A i : (a # d \/ i # id) => ExchangeKept(a, i)
  <1>1. m \in Under /\ MailOf(m) /\ m \in Slow /\ Slow \in SUBSET Under
    BY DEF Mail, Under, Slow
  <1>2. d \in Daemons /\ e \in Dests(d) /\ id \in Nat /\ Full(d, id)
    BY <1>1 DEF MailOf, Key
  <1>3. e \in DTo(d, id)
    BY <1>1, <1>2 DEF DTo, Sends, Has, Kind
  <1>5. \A p, q, i : Sends(Slow, "op", p, q, i)' <=> Sends(Slow, "op", p, q, i) /\ ~Key(m, p, q, i)
    <2>1. ASSUME NEW p, NEW q, NEW i
          PROVE  Has(Kind("op", Slow) \ {m}, p, q, i) <=> Sends(Slow, "op", p, q, i) /\ ~Key(m, p, q, i)
      BY <1>1, KindLess
    <2> QED
      BY <2>1, SendsNext
  <1>6. \A p, q, i : /\ Sends(net, "op", p, q, i)' <=> Sends(net, "op", p, q, i)
                     /\ Sends(rx, "op", p, q, i)' <=> Sends(rx, "op", p, q, i)
    BY SendsNext DEF Sends
  <1>8. \A p, q, i : Key(m, p, q, i) <=> (p = d /\ q = e /\ i = id)
    BY DEF Key
  <1>9. \A a, i : Full(a, i)' = Full(a, i) /\ DComing(a, i)' = DComing(a, i)
    BY <1>6 DEF Full, Local, DComing, Dests
  <1>10. \A a, i : DHeads(a, i)' = DHeads(a, i)
    BY <1>6, <1>9 DEF DHeads, Dests
  <1>11. \A a, i : (a # d \/ i # id) => DTo(a, i)' = DTo(a, i)
    BY <1>5, <1>8 DEF DTo, Dests
  <1>12. DTo(d, id)' = DTo(d, id) \ {e}
    <2>1. ASSUME NEW q PROVE q \in DTo(d, id)' <=> q \in DTo(d, id) \ {e}
      BY <1>2, <1>5, <1>8 DEF DTo, Dests
    <2> QED
      BY <2>1
  <1> QED
    BY <1>2, <1>3, <1>9, <1>10, <1>11, <1>12 DEF ExchangeKept

\* A client's vector is in, and others are still to come.
LEMMA HereGrows ==
  ASSUME NEW d \in Daemons, NEW id, ~Full(d, id), ~Full(d, id)',
         \A e \in Daemons : \A i : (e # d \/ i # id) => Here(e, i)' = Here(e, i), KindKept("op"), Complete
  PROVE  /\ DHeads(d, id)' = DHeads(d, id) /\ DComing(d, id)' = DComing(d, id)
         /\ DTo(d, id)' = DTo(d, id)
         /\ \A e \in Daemons : \A i : (e # d \/ i # id) => ExchangeKept(e, i)
  <1>0. Kind("op", Slow') = Kind("op", Slow)
    BY KindKeptAll
  <1>1. \A a, e, i : /\ Sends(net, "op", a, e, i)' <=> Sends(net, "op", a, e, i)
                     /\ Sends(rx, "op", a, e, i)' <=> Sends(rx, "op", a, e, i)
                     /\ Sends(Slow, "op", a, e, i)' <=> Sends(Slow, "op", a, e, i)
    BY <1>0, SendsNext DEF Sends, KindKept
  <1>2. \A e \in Daemons : \A i : Full(e, i)' <=> Full(e, i)
    BY DEF Full, Local
  <1>d. \A a : Dests(a) \subseteq Daemons
    BY WithDaemons
  <1>3. \A a, i : DHeads(a, i)' = DHeads(a, i)
    BY <1>1, <1>2, <1>d DEF DHeads, Dests
  <1>4. \A a, i : DComing(a, i)' = DComing(a, i) /\ DTo(a, i)' = DTo(a, i)
    BY <1>1 DEF DComing, DTo, Dests
  <1> QED
    BY <1>3, <1>4 DEF ExchangeKept

\* The last one is in: the daemon's vector leaves for every other daemon.
LEMMA OpsLeave ==
  ASSUME Complete, Mail, NEW d \in Daemons, NEW id \in Nat, NEW proto, NEW val, ~Full(d, id), Full(d, id)',
         \A e \in Daemons : \A i : (e # d \/ i # id) => Here(e, i)' = Here(e, i),
         Kind("op", net') = Kind("op", net) \cup New(d, id, proto, val),
         Kind("op", rx') = Kind("op", rx),
         Kind("op", Slow') = Kind("op", Slow) \cup {x \in New(d, id, proto, val) : x.proto # "short"}
  PROVE  /\ DHeads(d, id)' = DHeads(d, id) /\ DComing(d, id)' = DComing(d, id)
         /\ DTo(d, id)' = Dests(d) \ Short(Dests(d), proto)
         /\ \A e \in Daemons : \A i : (e # d \/ i # id) => ExchangeKept(e, i)
  <1> DEFINE N == New(d, id, proto, val)
  <1>n. \A x \in N : x.kind = "op" /\ x.src = d /\ x.dst \in Dests(d) /\ x.id = id /\ x.proto = proto[x.dst]
    BY NewAre
  <1>h. \A q \in Dests(d) : \E x \in N : x.src = d /\ x.dst = q /\ x.id = id /\ x.proto = proto[q]
    <2> HIDE DEF N
    <2>1. ASSUME NEW q \in Dests(d)
          PROVE  \E x \in New(d, id, proto, val) :
                    x.src = d /\ x.dst = q /\ x.id = id /\ x.proto = proto[q]
      <3>1. Msg("op", d, q, id, proto[q], val) \in New(d, id, proto, val)
        BY DEF New
      <3> QED
        BY <3>1 DEF Msg
    <2> QED
      BY <2>1 DEF N
  <1>k. /\ Kind("op", net') = Kind("op", net) \cup N
        /\ Kind("op", Slow') = Kind("op", Slow) \cup {x \in N : x.proto # "short"}
    OBVIOUS
  <1> HIDE DEF N
  <1>d. \A a : Dests(a) = Daemons \ {a}
    BY WithDaemons
  <1>a. \A x \in Kind("op", Under) : ~(x.src = d /\ x.id = id)
    <2> SUFFICES ASSUME NEW x \in Under, x.kind = "op", x.src = d, x.id = id PROVE FALSE
      BY DEF Kind
    <2>1. MailOf(x)
      BY DEF Mail
    <2> QED
      BY <2>1 DEF MailOf
  <1>1. \A p, q, i : (p # d \/ i # id) => (Sends(net, "op", p, q, i)' <=> Sends(net, "op", p, q, i))
    <2>1. ASSUME NEW p, NEW q, NEW i, p # d \/ i # id
          PROVE  Has(Kind("op", net'), p, q, i) <=> Has(Kind("op", net), p, q, i)
      BY <1>k, <1>n, <2>1 DEF Has, Key
    <2> QED
      BY <2>1, SendsNext DEF Sends
  <1>2. \A q \in Dests(d) : Sends(net, "op", d, q, id)'
    <2>1. ASSUME NEW q \in Dests(d) PROVE Has(Kind("op", net'), d, q, id)
      BY <1>k, <1>h DEF Has, Key
    <2> QED
      BY <2>1, SendsNext
  <1>3. \A e \in Daemons : \A i : (e # d \/ i # id) => (Full(e, i)' <=> Full(e, i))
    BY DEF Full, Local
  <1>4. ASSUME NEW e \in Daemons, NEW i PROVE DHeads(e, i)' = DHeads(e, i)
    <2>1. ASSUME NEW q \in Dests(e), q # d \/ i # id
          PROVE  (Full(q, i)' /\ ~Sends(net, "op", q, e, i)') <=> (Full(q, i) /\ ~Sends(net, "op", q, e, i))
      <3>1. q \in Daemons
        BY <1>d
      <3> QED
        BY <2>1, <3>1, <1>1, <1>3
    <2>2. ASSUME NEW q \in Dests(e), q = d, i = id
          PROVE  (Full(q, i)' /\ ~Sends(net, "op", q, e, i)') <=> (Full(q, i) /\ ~Sends(net, "op", q, e, i))
      <3>1. e \in Dests(d)
        BY <1>d, <2>2
      <3>2. Sends(net, "op", q, e, i)'
        BY <2>2, <3>1, <1>2
      <3>3. ~Full(q, i)
        BY <2>2
      <3> QED
        BY <3>2, <3>3
    <2>3. \A q \in Dests(e) : (Full(q, i)' /\ ~Sends(net, "op", q, e, i)')
                                <=> (Full(q, i) /\ ~Sends(net, "op", q, e, i))
      BY <2>1, <2>2
    <2> QED
      BY <2>3 DEF DHeads, Dests
  <1>5. \A e, i : DComing(e, i)' = DComing(e, i)
    <2>1. \A p, q, i : Sends(rx, "op", p, q, i)' <=> Sends(rx, "op", p, q, i)
      BY SendsNext DEF Sends
    <2> QED
      BY <2>1 DEF DComing, Dests
  <1>6. ASSUME NEW e \in Daemons, NEW i, e # d \/ i # id PROVE DTo(e, i)' = DTo(e, i)
    <2>1. ASSUME NEW q PROVE Has(Kind("op", Slow'), e, q, i) <=> Has(Kind("op", Slow), e, q, i)
      BY <1>6, <1>k, <1>n DEF Has, Key
    <2>2. \A q : Sends(Slow, "op", e, q, i)' <=> Sends(Slow, "op", e, q, i)
      BY <2>1, SendsNext DEF Sends
    <2> QED
      BY <2>2 DEF DTo, Dests
  <1>7. DTo(d, id)' = Dests(d) \ Short(Dests(d), proto)
    <2>1. \A x \in Kind("op", Slow) : ~(x.src = d /\ x.id = id)
      BY <1>a DEF Slow, Kind
    <2>2. ASSUME NEW q \in Dests(d) PROVE Has(Kind("op", Slow'), d, q, id) <=> proto[q] # "short"
      <3>1. PICK x \in N : x.src = d /\ x.dst = q /\ x.id = id /\ x.proto = proto[q]
        BY <1>h
      <3>2. ASSUME proto[q] # "short" PROVE Has(Kind("op", Slow'), d, q, id)
        BY <1>k, <3>1, <3>2 DEF Has, Key
      <3>3. ASSUME Has(Kind("op", Slow'), d, q, id) PROVE proto[q] # "short"
        <4>1. PICK y \in Kind("op", Slow') : y.src = d /\ y.dst = q /\ y.id = id
          BY <3>3 DEF Has, Key
        <4>2. y \in N /\ y.proto # "short"
          BY <1>k, <2>1, <4>1
        <4> QED
          BY <1>n, <4>1, <4>2
      <3> QED
        BY <3>2, <3>3
    <2>3. \A q \in Dests(d) : Sends(Slow, "op", d, q, id)' <=> proto[q] # "short"
      BY <2>2, SendsNext
    <2> QED
      BY <2>3 DEF DTo, Short, Dests
  <1> QED
    BY <1>4, <1>5, <1>6, <1>7 DEF ExchangeKept

-----------------------------------------------------------------------------
\* The answers of a daemon to the clients in L.
Results(d, id, proto, val, L) == {Msg("result", d, c, id, proto[c], val) : c \in L}

LEMMA ResultsAre ==
  ASSUME NEW d, NEW id, NEW proto, NEW val, NEW L
  PROVE  /\ \A x \in Results(d, id, proto, val, L) :
               x.kind = "result" /\ x.src = d /\ x.dst \in L /\ x.id = id /\ x.proto = proto[x.dst]
         /\ \A c \in L : \E x \in Results(d, id, proto, val, L) :
               x.src = d /\ x.dst = c /\ x.id = id /\ x.proto = proto[c]
         /\ \A x, y \in Results(d, id, proto, val, L) : x.dst = y.dst => x = y
  <1>1. \A x \in Results(d, id, proto, val, L) :
           x.kind = "result" /\ x.src = d /\ x.dst \in L /\ x.id = id /\ x.proto = proto[x.dst]
    BY DEF Results, Msg
  <1>2. ASSUME NEW c \in L
        PROVE  \E x \in Results(d, id, proto, val, L) :
                  x.src = d /\ x.dst = c /\ x.id = id /\ x.proto = proto[c]
    <2> DEFINE x == Msg("result", d, c, id, proto[c], val)
    <2>1. x \in Results(d, id, proto, val, L)
      BY DEF Results
    <2>2. x.src = d /\ x.dst = c /\ x.id = id /\ x.proto = proto[c]
      BY DEF Msg
    <2> QED
      BY <2>1, <2>2
  <1>3. ASSUME NEW x \in Results(d, id, proto, val, L), NEW y \in Results(d, id, proto, val, L), x.dst = y.dst
        PROVE  x = y
    <2>1. PICK q \in L : x = Msg("result", d, q, id, proto[q], val)
      BY DEF Results
    <2>2. PICK r \in L : y = Msg("result", d, r, id, proto[r], val)
      BY DEF Results
    <2>3. x.dst = q /\ y.dst = r
      BY <2>1, <2>2 DEF Msg
    <2> QED
      BY <1>3, <2>1, <2>2, <2>3
  <1> QED
    BY <1>1, <1>2, <1>3

LEMMA ResultsLeave ==
  ASSUME NEW d \in Daemons, NEW id \in Nat, NEW proto, NEW val, NEW R,
         R = Results(d, id, proto, val, Local(d)), Answers(d, id) = {},
         Kind("result", Under') = Kind("result", Under) \cup R,
         Kind("result", Slow') = Kind("result", Slow) \cup {x \in R : x.proto # "short"}
  PROVE  /\ Late(d, id)' = Local(d) \ Short(Local(d), proto)
         /\ \A e \in Daemons : \A i : (e # d \/ i # id) => AnswersKept(e, i)
  <1>n. /\ \A x \in R : x.src = d /\ x.dst \in Local(d) /\ x.id = id /\ x.proto = proto[x.dst]
        /\ \A c \in Local(d) : \E x \in R : x.src = d /\ x.dst = c /\ x.id = id /\ x.proto = proto[c]
    BY ResultsAre
  <1>1. ASSUME NEW e \in Daemons, NEW i, e # d \/ i # id PROVE AnswersKept(e, i)
    <2>1. ASSUME NEW q
          PROVE  /\ Has(Kind("result", Slow'), e, q, i) <=> Has(Kind("result", Slow), e, q, i)
                 /\ Has(Kind("result", Under'), e, q, i) <=> Has(Kind("result", Under), e, q, i)
      BY <1>1, <1>n DEF Has, Key
    <2>2. \A q : /\ Sends(Slow, "result", e, q, i)' <=> Sends(Slow, "result", e, q, i)
                 /\ Sends(Under, "result", e, q, i)' <=> Sends(Under, "result", e, q, i)
      BY <2>1, SendsNext DEF Sends
    <2> QED
      BY <2>2 DEF AnswersKept, Answers, Late, Local
  <1>2. Late(d, id)' = Local(d) \ Short(Local(d), proto)
    <2>1. ASSUME NEW c \in Local(d) PROVE ~Has(Kind("result", Slow), d, c, id)
      <3>1. ~Sends(Under, "result", d, c, id)
        BY DEF Answers
      <3> QED
        BY <3>1 DEF Sends, Has, Kind, Slow
    <2>2. ASSUME NEW c \in Local(d) PROVE Has(Kind("result", Slow'), d, c, id) <=> proto[c] # "short"
      <3>1. PICK x \in R : x.src = d /\ x.dst = c /\ x.id = id /\ x.proto = proto[c]
        BY <1>n
      <3>2. ASSUME proto[c] # "short" PROVE Has(Kind("result", Slow'), d, c, id)
        BY <3>1, <3>2 DEF Has, Key
      <3>3. ASSUME Has(Kind("result", Slow'), d, c, id) PROVE proto[c] # "short"
        <4>1. PICK y \in Kind("result", Slow') : y.src = d /\ y.dst = c /\ y.id = id
          BY <3>3 DEF Has, Key
        <4>2. y \notin Kind("result", Slow)
          BY <2>1, <4>1 DEF Has, Key
        <4>3. y \in R /\ y.proto # "short"
          BY <4>1, <4>2
        <4> QED
          BY <1>n, <4>1, <4>3
      <3> QED
        BY <3>2, <3>3
    <2>3. \A c \in Local(d) : Sends(Slow, "result", d, c, id)' <=> proto[c] # "short"
      BY <2>2, SendsNext
    <2> QED
      BY <2>3 DEF Late, Short, Local
  <1> QED
    BY <1>1, <1>2

\* No super request but this one is touched.
Others(p, id) ==
    /\ DOMAIN sreq' = Procs
    /\ \A q \in Procs : q # p => sreq'[q] = sreq[q]
    /\ \A i \in DOMAIN sreq[p] : i # id => i \in DOMAIN sreq'[p] /\ sreq'[p][i] = sreq[p][i]
    /\ \A i \in DOMAIN sreq'[p] : i # id => i \in DOMAIN sreq[p]

LEMMA PutOthers ==
  ASSUME DOMAIN sreq = Procs, NEW p \in Procs, NEW id, NEW sr, sreq' = Put(p, id, sr)
  PROVE  Others(p, id) /\ id \in DOMAIN sreq'[p] /\ sreq'[p][id] = sr
  BY DEF Put, Others

LEMMA RemoveOthers ==
  ASSUME DOMAIN sreq = Procs, NEW p \in Procs, NEW id, sreq' = Remove(p, id)
  PROVE  Others(p, id) /\ id \notin DOMAIN sreq'[p]
  BY DEF Remove, Others

\* What allreduce_complete_operation_callback does at a daemon: count, or answer the
\* clients and keep the super request for the answers that are not yet complete.
Left(sr, proto) == sr.nreq - Cardinality(Short(sr.list, proto))
Rest(id, d, sr, left) ==
    IF left = 0 THEN id \notin DOMAIN sreq'[d]
    ELSE /\ id \in DOMAIN sreq'[d] /\ DOMAIN sreq'[d][id] = Fields /\ sreq'[d][id].ops = 0
         /\ sreq'[d][id].first = NoPeer /\ sreq'[d][id].others = {} /\ sreq'[d][id].list = {}
         /\ sreq'[d][id].nreq = left /\ sreq'[d][id].set = sr.set /\ sreq'[d][id].owner = sr.owner
AnsweredAs(d, id, sr, n, proto, val) ==
    net' = n \cup Results(d, id, proto, val, sr.list) /\ Rest(id, d, sr, Left(sr, proto))
Progress(d, id, sr, n) ==
    /\ Others(d, id)
    /\ \/ /\ sr.ops > 1 /\ net' = n
          /\ id \in DOMAIN sreq'[d] /\ sreq'[d][id] = [sr EXCEPT !.ops = @ - 1]
       \/ ~(sr.ops > 1) /\ \E proto, val : AnsweredAs(d, id, sr, n, proto, val)

LEMMA CompleteIs ==
  ASSUME Complete, DOMAIN sreq = Procs, NEW d \in Daemons, NEW id, NEW sr, DOMAIN sr = Fields,
         NEW n, NEW t, NEW u, NEW a, CompleteOperation(d, id, sr, n, t, u, a)
  PROVE  tx' = t /\ active' = a /\ vec' = vec /\ Progress(d, id, sr, n)
  <1>0. d \in Procs /\ d \notin Clients
    BY WithDaemons
  <1>1. CASE sr.ops > 1
    <2>1. /\ sreq' = Put(d, id, [sr EXCEPT !.ops = @ - 1])
          /\ net' = n /\ tx' = t /\ active' = a /\ vec' = vec
      BY <1>1 DEF CompleteOperation
    <2> QED
      BY <1>0, <1>1, <2>1, PutOthers DEF Progress
  <1>2. CASE ~(sr.ops > 1)
    <2>1. CompleteDaemon(d, id, sr, n, t, u, a)
      BY <1>0, <1>2 DEF CompleteOperation
    <2>p. PICK result : result = WithPeers(sr.res, sr, id)
      OBVIOUS
    <2>q. PICK proto \in [sr.list -> Protocols] :
             LET left == sr.nreq - Cardinality(Short(sr.list, proto))
                 done == [sr EXCEPT !.ops = 0, !.res = result, !.first = NoPeer,
                                    !.others = {}, !.list = {}, !.nreq = left]
             IN  /\ net' = n \cup {Msg("result", d, c, id, proto[c], result) : c \in sr.list}
                 /\ sreq' = IF left = 0 THEN Remove(d, id) ELSE Put(d, id, done)
                 /\ active' = a /\ tx' = t /\ vec' = vec
      BY <2>1, <2>p DEF CompleteDaemon
    <2>l. PICK left : left = Left(sr, proto)
      OBVIOUS
    <2>d. PICK done : done = [sr EXCEPT !.ops = 0, !.res = result, !.first = NoPeer,
                                        !.others = {}, !.list = {}, !.nreq = left]
      OBVIOUS
    <2>2. /\ net' = n \cup Results(d, id, proto, result, sr.list)
          /\ sreq' = IF left = 0 THEN Remove(d, id) ELSE Put(d, id, done)
          /\ active' = a /\ tx' = t /\ vec' = vec
      BY <2>q, <2>l, <2>d DEF Left, Results
    <2>3. /\ DOMAIN done = Fields /\ done.ops = 0 /\ done.first = NoPeer /\ done.others = {}
          /\ done.list = {} /\ done.nreq = left /\ done.set = sr.set /\ done.owner = sr.owner
      BY <2>d DEF Fields
    <2>4. CASE left = 0
      <3>1. Others(d, id) /\ id \notin DOMAIN sreq'[d]
        BY <1>0, <2>2, <2>4, RemoveOthers
      <3>2. AnsweredAs(d, id, sr, n, proto, result)
        BY <2>2, <2>4, <2>l, <3>1 DEF AnsweredAs, Rest
      <3> QED
        BY <1>2, <2>2, <3>1, <3>2 DEF Progress
    <2>5. CASE left # 0
      <3>1. Others(d, id) /\ id \in DOMAIN sreq'[d] /\ sreq'[d][id] = done
        BY <1>0, <2>2, <2>5, PutOthers
      <3>2. Rest(id, d, sr, left)
        BY <2>3, <2>5, <3>1 DEF Rest
      <3>3. AnsweredAs(d, id, sr, n, proto, result)
        BY <2>2, <2>l, <3>2 DEF AnsweredAs
      <3> QED
        BY <1>2, <2>2, <3>1, <3>3 DEF Progress
    <2> QED
      BY <2>4, <2>5
  <1> QED
    BY <1>1, <1>2

\* Only answers are added.
LEMMA ProgressNet ==
  ASSUME NEW d, NEW id, NEW sr, NEW n, Progress(d, id, sr, n)
  PROVE  /\ n \subseteq net' /\ \A x \in net' \ n : x.kind = "result" /\ x.src = d /\ x.id = id
         /\ \A k : k # "result" => Kind(k, net') = Kind(k, n)
  <1>1. n \subseteq net' /\ \A x \in net' \ n : x.kind = "result" /\ x.src = d /\ x.id = id
    <2>1. ASSUME NEW proto, NEW val, AnsweredAs(d, id, sr, n, proto, val)
          PROVE  n \subseteq net' /\ \A x \in net' \ n : x.kind = "result" /\ x.src = d /\ x.id = id
      BY <2>1, ResultsAre DEF AnsweredAs
    <2> QED
      BY <2>1 DEF Progress
  <1> QED
    BY <1>1 DEF Kind

-----------------------------------------------------------------------------
\* The record with which a daemon counts one.
Counting(d, id, sr) ==
    /\ DOMAIN sr = Fields /\ sr.ops = DOwed(d, id)' + 1 /\ SeenBy(sr) = DHeads(d, id)'
    /\ sr.list = Here(d, id)' /\ sr.nreq = Cardinality(Here(d, id)')
    /\ sr.set <=> Here(d, id)' # {}
    /\ Here(d, id)' # {} \/ DHeads(d, id)' # {}

\* The results that are under way before the answers of this step.
ResultsStay(n) == /\ Kind("result", n) = Kind("result", net) /\ Kind("result", rx') = Kind("result", rx)
                  /\ Kind("result", tx') = Kind("result", tx)

LEMMA DaemonCounts ==
  ASSUME Complete, NEW d \in Daemons, NEW id \in Nat, NEW sr, NEW n, Counting(d, id, sr),
         sr.ops > 1, Progress(d, id, sr, n), Answers(d, id) = {}, ResultsStay(n)
  PROVE  /\ DaemonPair(d, id)' /\ \A e, i : AnswersKept(e, i)
         /\ net' = n
  <1>1. /\ net' = n /\ id \in DOMAIN sreq'[d] /\ sreq'[d][id] = [sr EXCEPT !.ops = @ - 1]
    BY DEF Progress
  <1>2. DOwed(d, id)' \in Nat
    BY DSetsNext
  <1>3. /\ DOMAIN sreq'[d][id] = Fields /\ sreq'[d][id].ops = sr.ops - 1
        /\ sreq'[d][id].first = sr.first /\ sreq'[d][id].others = sr.others
        /\ sreq'[d][id].list = sr.list /\ sreq'[d][id].nreq = sr.nreq /\ sreq'[d][id].set = sr.set
    BY <1>1 DEF Fields, Counting
  <1>4. sreq'[d][id].ops = DOwed(d, id)' /\ DOwed(d, id)' # 0 /\ SeenBy(sreq'[d][id]) = DHeads(d, id)'
    BY <1>2, <1>3 DEF SeenBy, Counting
  <1>5. Exchanges(d, id, sreq[d][id])'
    BY <1>3, <1>4 DEF Counting, Exchanges
  <1>6. KindKept("result")
    BY <1>1 DEF KindKept, ResultsStay
  <1>7. \A e, i : AnswersKept(e, i)
    BY <1>6, KindKeptAll, AnswersAllKept
  <1>8. Answers(d, id)' = {}
    BY <1>7 DEF AnswersKept
  <1> QED
    BY <1>1, <1>4, <1>5, <1>7, <1>8 DEF DaemonPair, Live

LEMMA DaemonAnswers ==
  ASSUME Complete, NEW d \in Daemons, NEW id \in Nat, NEW sr, NEW n, Counting(d, id, sr),
         ~(sr.ops > 1), Progress(d, id, sr, n), Answers(d, id) = {}, ResultsStay(n)
  PROVE  /\ DaemonPair(d, id)' /\ \A e \in Daemons : \A i : (e # d \/ i # id) => AnswersKept(e, i)
         /\ Full(d, id)'
         /\ \E R : /\ net' = n \cup R
                   /\ \A x \in R : x.kind = "result" /\ x.src = d /\ x.dst \in Local(d) /\ x.id = id
                   /\ \A x, y \in R : x.dst = y.dst => x = y
  <1>0. DOwed(d, id)' = 0 /\ Full(d, id)'
    BY DSetsNext DEF Counting
  <1>1. sr.list = Local(d) /\ sr.nreq = Cardinality(Local(d)) /\ Here(d, id)' = Local(d) /\ sr.set
    BY <1>0, WithDaemons DEF Counting, Full, Local
  <1>p. PICK proto, val : AnsweredAs(d, id, sr, n, proto, val)
    BY DEF Progress
  <1>r. PICK R : R = Results(d, id, proto, val, Local(d))
    OBVIOUS
  <1>2. net' = n \cup R /\ Rest(id, d, sr, Left(sr, proto))
    BY <1>p, <1>r, <1>1 DEF AnsweredAs
  <1>3. /\ \A x \in R : x.kind = "result" /\ x.src = d /\ x.dst \in Local(d) /\ x.id = id
        /\ \A x, y \in R : x.dst = y.dst => x = y
    BY <1>r, ResultsAre
  <1>4. /\ Kind("result", Under') = Kind("result", Under) \cup R
        /\ Kind("result", Slow') = Kind("result", Slow) \cup {x \in R : x.proto # "short"}
    <2>1. Kind("result", Under') = Kind("result", Under) \cup R
      BY <1>2, <1>3 DEF Under, Kind, ResultsStay
    <2> QED
      BY <2>1 DEF Slow, Kind
  <1>5. /\ Late(d, id)' = Local(d) \ Short(Local(d), proto)
        /\ \A e \in Daemons : \A i : (e # d \/ i # id) => AnswersKept(e, i)
    BY <1>r, <1>4, ResultsLeave
  <1>6. Left(sr, proto) = Cardinality(Late(d, id)') /\ (Left(sr, proto) = 0 <=> Late(d, id)' = {})
    <2>1. IsFiniteSet(Local(d)) /\ Short(Local(d), proto) \subseteq Local(d)
      BY WithDaemons DEF Short
    <2>2. Cardinality(Local(d) \ Short(Local(d), proto))
            = Cardinality(Local(d)) - Cardinality(Local(d) \cap Short(Local(d), proto))
      BY <2>1, FS_Difference, FS_Subset
    <2>3. Local(d) \cap Short(Local(d), proto) = Short(Local(d), proto)
      BY <2>1
    <2>4. Left(sr, proto) = Cardinality(Late(d, id)')
      BY <1>1, <1>5, <2>2, <2>3 DEF Left
    <2>5. IsFiniteSet(Late(d, id)')
      BY <1>5, <2>1, FS_Subset
    <2> QED
      BY <2>4, <2>5, FS_EmptySet
  <1>7. DaemonPair(d, id)'
    <2>1. CASE Left(sr, proto) = 0
      BY <1>0, <1>2, <1>6, <2>1 DEF Rest, DaemonPair, Live
    <2>2. CASE Left(sr, proto) # 0
      <3>1. /\ id \in DOMAIN sreq'[d] /\ DOMAIN sreq'[d][id] = Fields /\ sreq'[d][id].ops = 0
            /\ sreq'[d][id].first = NoPeer /\ sreq'[d][id].others = {} /\ sreq'[d][id].list = {}
            /\ sreq'[d][id].nreq = Cardinality(Late(d, id)') /\ sreq'[d][id].set = sr.set
            /\ Late(d, id)' # {}
        BY <1>2, <1>6, <2>2 DEF Rest
      <3>2. Delivers(d, id, sreq[d][id])'
        BY <1>1, <3>1 DEF Delivers
      <3> QED
        BY <1>0, <3>1, <3>2 DEF DaemonPair, Live
    <2> QED
      BY <2>1, <2>2
  <1> QED
    BY <1>0, <1>2, <1>3, <1>5, <1>7

\* A step of one super request of a daemon that is not done with its exchange.
LEMMA OInvStep ==
  ASSUME Complete, OInv, NEW d \in Daemons, NEW id \in Nat, DOwed(d, id) # 0, nextId' = nextId,
         Others(d, id), DaemonPair(d, id)', Mail', Single',
         \A e \in Daemons : \A i : (e # d \/ i # id) => ExchangeKept(e, i) /\ AnswersKept(e, i),
         \A x \in net' \cup rx' : x.kind = "result" => x \in net \cup rx \/ (x.src = d /\ x.id = id)
  PROVE  OInv'
  <1>0. d \in Procs /\ d \notin Clients /\ Clients \subseteq Procs /\ Daemons \subseteq Procs
    BY WithDaemons
  <1>1. Forms'
    <2>1. \A p \in Procs : DOMAIN sreq'[p] \subseteq Nat
      BY <1>0 DEF Others, OInv, Forms
    <2> QED
      BY <2>1 DEF OInv, Forms, Others, Procs
  <1>2. ASSUME NEW e \in Daemons, NEW i \in Nat PROVE DaemonPair(e, i)'
    <2>1. CASE e = d /\ i = id
      BY <2>1
    <2>2. CASE e # d \/ i # id
      <3>1. Live(e, i)' <=> Live(e, i)
        BY <1>0, <2>2 DEF Others, Live
      <3>2. Live(e, i) => sreq'[e][i] = sreq[e][i]
        BY <1>0, <2>2 DEF Others, Live
      <3>3. DaemonPair(e, i) /\ ExchangeKept(e, i) /\ AnswersKept(e, i)
        BY <2>2 DEF OInv
      <3> QED
        BY <3>1, <3>2, <3>3, DaemonPairKept
    <2> QED
      BY <2>1, <2>2
  <1>3. ASSUME NEW c \in Clients, NEW i \in Nat PROVE ClientPair(c, i)'
    <2>1. sreq'[c] = sreq[c] /\ ClientPair(c, i)
      BY <1>0 DEF Others, OInv
    <2>2. CASE Live(c, i)
      BY <2>1, <2>2 DEF ClientPair, Live
    <2>3. CASE ~Live(c, i) /\ i < nextId[c]
      <3>1. DOwed(Home[c], i) = 0 /\ ~Sends(net \cup rx, "result", Home[c], c, i)
        BY <2>1, <2>3 DEF ClientPair
      <3>2. Home[c] \in Daemons /\ (Home[c] # d \/ i # id)
        BY <3>1, WithDaemons
      <3>3. DOwed(Home[c], i)' = 0
        <4>1. PICK e \in Daemons : e = Home[c]
          BY <3>2
        <4>2. DOwed(e, i)' = DOwed(e, i)
          BY <3>2, <4>1, OwedKept
        <4> QED
          BY <3>1, <4>1, <4>2
      <3>4. ~Sends(net \cup rx, "result", Home[c], c, i)'
        <4>1. ~Has(Kind("result", net' \cup rx'), Home[c], c, i)
          BY <3>1, <3>2 DEF Sends, Has, Kind, Key
        <4> QED
          BY <4>1, SendsNext
      <3> QED
        BY <2>1, <2>3, <3>3, <3>4 DEF ClientPair, Live
    <2>4. CASE ~Live(c, i) /\ ~(i < nextId[c])
      BY <2>1, <2>4 DEF ClientPair, Live
    <2> QED
      BY <2>2, <2>3, <2>4
  <1> QED
    BY <1>1, <1>2, <1>3 DEF OInv

\* The vectors O that a daemon sends in a step.
Posted(O, d, id) ==
    /\ \A x \in O : x.kind = "op" /\ x.src = d /\ x.id = id /\ x.dst \in Dests(d)
    /\ \A x, y \in O : x.dst = y.dst => x = y
    /\ \A x \in O : \A y \in Under : ~(x.kind = y.kind /\ x.src = y.src /\ x.dst = y.dst /\ x.id = y.id)

Places(n, O) ==
    /\ n \subseteq Under \cup O /\ rx' \subseteq Under /\ tx' \subseteq Under
    /\ n \cap rx' = {} /\ n \cap tx' = {} /\ rx' \cap tx' = {}
    /\ \A x \in rx' : x.proto = "rndv"
    /\ \A x \in tx' : x.proto # "short" /\ x.kind # "ctrl"

LEMMA NoAnswerYet ==
  ASSUME Complete, OInv, NEW d \in Daemons, NEW id \in Nat, DOwed(d, id) # 0
  PROVE  Answers(d, id) = {} /\ \A y \in Under : ~(y.kind = "result" /\ y.src = d /\ y.id = id)
  <1>1. Answers(d, id) = {}
    BY DEF OInv, DaemonPair
  <1>2. ASSUME NEW y \in Under, y.kind = "result", y.src = d, y.id = id PROVE FALSE
    <2>1. y.dst \in Clients /\ Home[y.dst] = d
      BY <1>2 DEF OInv, Mail, MailOf
    <2>2. y.dst \in Local(d)
      BY <2>1 DEF Local
    <2>3. Sends(Under, "result", d, y.dst, id)
      BY <1>2 DEF Sends, Has, Kind, Key
    <2> QED
      BY <1>1, <2>2, <2>3 DEF Answers
  <1> QED
    BY <1>1, <1>2

\* The answers R that it sends.
Replies(R, n, d, id) ==
    /\ net' = n \cup R
    /\ \A x \in R : x.kind = "result" /\ x.src = d /\ x.dst \in Local(d) /\ x.id = id
    /\ \A x, y \in R : x.dst = y.dst => x = y

LEMMA DaemonStep ==
  ASSUME Complete, OInv, NEW d \in Daemons, NEW id \in Nat, DOwed(d, id) # 0, nextId' = nextId,
         NEW sr, NEW n, NEW O, Counting(d, id, sr), Progress(d, id, sr, n), ResultsStay(n),
         Posted(O, d, id), O # {} => Full(d, id)', Places(n, O), Full(d, id) => Full(d, id)',
         \A e \in Daemons : \A i : (e # d \/ i # id) => ExchangeKept(e, i)
  PROVE  OInv'
  <1>0. Answers(d, id) = {} /\ \A y \in Under : ~(y.kind = "result" /\ y.src = d /\ y.id = id)
    BY NoAnswerYet
  <1>r. PICK R : Replies(R, n, d, id)
    <2>1. CASE sr.ops > 1
      <3>1. net' = n
        BY <1>0, <2>1, DaemonCounts
      <3>2. Replies({}, n, d, id)
        BY <3>1 DEF Replies
      <3> QED
        BY <3>2
    <2>2. CASE ~(sr.ops > 1)
      <3>1. \E R : /\ net' = n \cup R
                   /\ \A x \in R : x.kind = "result" /\ x.src = d /\ x.dst \in Local(d) /\ x.id = id
                   /\ \A x, y \in R : x.dst = y.dst => x = y
        BY <1>0, <2>2, DaemonAnswers
      <3> QED
        BY <3>1 DEF Replies
    <2> QED
      BY <2>1, <2>2
  <1>1. /\ net' = n \cup R
        /\ \A x \in R : x.kind = "result" /\ x.src = d /\ x.dst \in Local(d) /\ x.id = id
        /\ \A x, y \in R : x.dst = y.dst => x = y
    BY <1>r DEF Replies
  <1>2. DaemonPair(d, id)' /\ \A e \in Daemons : \A i : (e # d \/ i # id) => AnswersKept(e, i)
    <2>1. CASE sr.ops > 1
      BY <1>0, <2>1, DaemonCounts
    <2>2. CASE ~(sr.ops > 1)
      BY <1>0, <2>2, DaemonAnswers
    <2> QED
      BY <2>1, <2>2
  <1>3. Single'
    <2>1. Under' \subseteq Under \cup (O \cup R)
      BY <1>1 DEF Under, Places
    <2>2. \A x, y \in O \cup R :
             (x.kind = y.kind /\ x.src = y.src /\ x.dst = y.dst /\ x.id = y.id) => x = y
      BY <1>1 DEF Posted
    <2>3. \A x \in O \cup R : \A y \in Under :
             ~(x.kind = y.kind /\ x.src = y.src /\ x.dst = y.dst /\ x.id = y.id)
      BY <1>0, <1>1 DEF Posted
    <2>4. net' \cap rx' = {} /\ net' \cap tx' = {} /\ rx' \cap tx' = {}
      BY <1>0, <1>1 DEF Places
    <2> QED
      BY <2>1, <2>2, <2>3, <2>4, SingleNext DEF OInv
  <1>4. Mail'
    <2>1. \A c \in Clients : nextId[c] \in Nat /\ nextId'[c] \in Nat /\ nextId[c] <= nextId'[c]
      BY DEF OInv, Forms
    <2>2. ASSUME NEW e \in Daemons, NEW i \in Nat, Full(e, i) PROVE Full(e, i)'
      <3>1. CASE e = d /\ i = id
        BY <2>2, <3>1
      <3>2. CASE e # d \/ i # id
        <4>1. ExchangeKept(e, i)
          BY <3>2
        <4> QED
          BY <2>2, <4>1, OwedKept
      <3> QED
        BY <3>1, <3>2
    <2>3. ASSUME NEW x \in Under' PROVE x \in Under \/ MailOf(x)'
      <3>1. CASE x \in O
        <4>1. x.kind = "op" /\ x.src = d /\ x.id = id /\ x.dst \in Dests(d) /\ Full(d, id)'
          BY <3>1 DEF Posted
        <4> QED
          BY <4>1 DEF MailOf, Dests
      <3>2. CASE x \in R
        <4>1. x.kind = "result" /\ x.src = d /\ x.dst \in Local(d) /\ x.id = id
          BY <1>1, <3>2
        <4> QED
          BY <4>1 DEF MailOf, Local
      <3> QED
        BY <1>1, <3>1, <3>2 DEF Under, Places
    <2>4. (\A x \in rx' : x.proto = "rndv") /\ (\A x \in tx' : x.proto # "short" /\ x.kind # "ctrl")
      BY DEF Places
    <2> QED
      BY <2>1, <2>2, <2>3, <2>4, MailNext DEF OInv
  <1>5. \A x \in net' \cup rx' : x.kind = "result" => x \in net \cup rx \/ (x.src = d /\ x.id = id)
    BY <1>1 DEF ResultsStay, Kind
  <1>6. Others(d, id)
    BY DEF Progress
  <1>7. \A e \in Daemons : \A i : (e # d \/ i # id) => ExchangeKept(e, i) /\ AnswersKept(e, i)
    BY <1>2
  <1> QED
    BY <1>2, <1>3, <1>4, <1>5, <1>6, <1>7, OInvStep

\* allreduce_super_request_get at a daemon, for an operation that is not over.
LEMMA DGetIs ==
  ASSUME Complete, NEW d \in Daemons, NEW id \in Nat, DaemonPair(d, id), DOwed(d, id) # 0
  PROVE  LET sr == Get(d, id, FALSE) IN
         /\ DOMAIN sr = Fields /\ sr.ops = DOwed(d, id) /\ SeenBy(sr) = DHeads(d, id)
         /\ sr.list = Here(d, id) /\ sr.nreq = Cardinality(Here(d, id)) /\ (sr.set <=> Here(d, id) # {})
  <1>1. CASE Live(d, id)
    <2>1. Get(d, id, FALSE) = sreq[d][id] /\ Exchanges(d, id, sreq[d][id])
      BY <1>1 DEF Get, DaemonPair
    <2> QED
      BY <2>1 DEF Exchanges
  <1>2. CASE ~Live(d, id)
    <2>1. Get(d, id, FALSE) = Allocate(d, FALSE) /\ Here(d, id) = {} /\ DHeads(d, id) = {}
      BY <1>2 DEF Get, DaemonPair
    <2>2. /\ DOMAIN Allocate(d, FALSE) = Fields /\ Allocate(d, FALSE).ops = Ops(d)
          /\ Allocate(d, FALSE).first = NoPeer /\ Allocate(d, FALSE).others = {}
          /\ Allocate(d, FALSE).list = {} /\ Allocate(d, FALSE).nreq = 0 /\ ~Allocate(d, FALSE).set
      BY DEF Allocate, Fields
    <2>3. DOwed(d, id) = Ops(d)
      <3>1. DGot(d, id) = {} /\ ~Full(d, id)
        BY <2>1, WithDaemons DEF DGot, Full
      <3>2. Cardinality({}) = 0 /\ Cardinality(Dests(d)) \in Nat
        BY FS_EmptySet, WithDaemons
      <3> QED
        BY <3>1, <3>2 DEF DOwed, LeftBefore, Ops
    <2>4. SeenBy(Allocate(d, FALSE)) = {}
      BY <2>2 DEF SeenBy
    <2>5. Cardinality(Here(d, id)) = 0
      BY <2>1, FS_EmptySet
    <2> QED
      BY <2>1, <2>2, <2>3, <2>4, <2>5
  <1> QED
    BY <1>1, <1>2

\* Records that differ in their vectors only.
Alike(r, sr) ==
    /\ DOMAIN r = Fields /\ r.ops = sr.ops /\ SeenBy(r) = SeenBy(sr)
    /\ r.list = sr.list /\ r.nreq = sr.nreq /\ r.set = sr.set

LEMMA GatheredProgress ==
  ASSUME Complete, DOMAIN sreq = Procs, NEW d \in Daemons, NEW id, NEW q, NEW sr, DOMAIN sr = Fields,
         NEW val, NEW n, NEW t, NEW u, Gathered(d, id, q, sr, val, n, t, u)
  PROVE  /\ tx' = t
         /\ \E r : Alike(r, sr) /\ Progress(d, id, r, n)
  <1> DEFINE in == [sr EXCEPT !.buf[q] = val]
             more == [in EXCEPT !.buf[in.first] = ReduceAll(@, in.buf, in.others, id)]
             red == IF AllArrived(d, sr) THEN more ELSE in
  <1>1. CompleteOperation(d, id, red, n, t, u, active)
    BY DEF Gathered
  <1>2. /\ DOMAIN in = Fields /\ in.ops = sr.ops /\ in.first = sr.first /\ in.others = sr.others
        /\ in.list = sr.list /\ in.nreq = sr.nreq /\ in.set = sr.set
    BY DEF Fields
  <1>3. /\ DOMAIN more = Fields /\ more.ops = in.ops /\ more.first = in.first /\ more.others = in.others
        /\ more.list = in.list /\ more.nreq = in.nreq /\ more.set = in.set
    <2> HIDE DEF in
    <2> QED
      BY <1>2 DEF Fields
  <1>4. /\ DOMAIN red = Fields /\ red.ops = sr.ops /\ red.first = sr.first /\ red.others = sr.others
        /\ red.list = sr.list /\ red.nreq = sr.nreq /\ red.set = sr.set
    <2> HIDE DEF in, more
    <2> QED
      BY <1>2, <1>3
  <1> HIDE DEF red
  <1>5. tx' = t /\ Progress(d, id, red, n)
    BY <1>1, <1>4, CompleteIs
  <1>6. Alike(red, sr)
    BY <1>4 DEF Alike, SeenBy
  <1> QED
    BY <1>5, <1>6

-----------------------------------------------------------------------------
\* A vector that is under way to a daemon is awaited there.
LEMMA OpAwaited ==
  ASSUME Complete, OInv, NEW m \in net \cup rx, m.kind = "op", NEW e, NEW d, NEW id, Key(m, e, d, id)
  PROVE  /\ d \in Daemons /\ e \in Dests(d) /\ e # NoPeer /\ id \in Nat /\ DOwed(d, id) # 0
         /\ DaemonPair(d, id) /\ (m \in rx => Live(d, id))
  <1>1. m \in Under /\ MailOf(m) /\ Single
    BY DEF OInv, Mail, Under
  <1>2. d \in Daemons /\ e \in Dests(d) /\ id \in Nat /\ Full(e, id) /\ e # NoPeer
    BY <1>1, WithDaemons DEF MailOf, Key
  <1>3. e \notin DGot(d, id)
    <2>1. CASE m \in net
      <3>1. Sends(net, "op", e, d, id)
        BY <2>1 DEF Sends, Has, Kind
      <3> QED
        BY <3>1 DEF DGot, DHeads
    <2>2. CASE m \in rx
      <3>1. Sends(rx, "op", e, d, id)
        BY <2>2 DEF Sends, Has, Kind
      <3> QED
        BY <1>2, <3>1 DEF DGot, DComing
    <2> QED
      BY <2>1, <2>2
  <1>4. DOwed(d, id) # 0
    BY <1>2, <1>3, DSets
  <1>5. DaemonPair(d, id)
    BY <1>2 DEF OInv
  <1>6. ASSUME m \in rx PROVE Live(d, id)
    <2>1. ~Sends(net, "op", e, d, id)
      BY <1>1, <1>6 DEF Sends, Has, Kind, Key, Single, Under
    <2>2. e \in DHeads(d, id)
      BY <1>2, <2>1 DEF DHeads
    <2> QED
      BY <1>4, <1>5, <2>2 DEF DaemonPair
  <1> QED
    BY <1>2, <1>4, <1>5, <1>6

\* The super request whose send is not complete is there.
LEMMA SendAwaited ==
  ASSUME Complete, OInv, NEW m \in Slow, m.kind = "op", NEW e, NEW d, NEW id, Key(m, d, e, id)
  PROVE  /\ d \in Daemons /\ e \in Dests(d) /\ id \in Nat /\ Full(d, id) /\ DOwed(d, id) # 0
         /\ DaemonPair(d, id) /\ Live(d, id)
  <1>1. m \in Under /\ MailOf(m)
    BY DEF OInv, Mail, Slow
  <1>2. d \in Daemons /\ e \in Dests(d) /\ id \in Nat /\ Full(d, id)
    BY <1>1 DEF MailOf, Key
  <1>3. e \in DTo(d, id)
    BY <1>2 DEF DTo, Sends, Has, Kind
  <1>4. DOwed(d, id) # 0
    BY <1>2, <1>3, DSets
  <1>5. DaemonPair(d, id) /\ Here(d, id) # {}
    BY <1>2, WithDaemons DEF OInv, Full
  <1> QED
    BY <1>2, <1>4, <1>5 DEF DaemonPair

\* What is owed when a vector is in, or a send over.
LEMMA DOwedGot ==
  ASSUME Complete, NEW d \in Daemons, NEW id, NEW e \in Dests(d), e \notin DGot(d, id),
         Here(d, id)' = Here(d, id), DTo(d, id)' = DTo(d, id), DGot(d, id)' = DGot(d, id) \cup {e}
  PROVE  DOwed(d, id)' = DOwed(d, id) - 1
  <1>1. Full(d, id)' = Full(d, id)
    BY DEF Full, Local
  <1>2. IsFiniteSet(Dests(d)) /\ DTo(d, id) \in SUBSET Dests(d) /\ DGot(d, id) \in SUBSET Dests(d)
    BY DSets
  <1>3. /\ LeftAfter(Dests(d), DTo(d, id), DGot(d, id) \cup {e})
             = LeftAfter(Dests(d), DTo(d, id), DGot(d, id)) - 1
        /\ LeftBefore(Dests(d), DGot(d, id) \cup {e}) = LeftBefore(Dests(d), DGot(d, id)) - 1
    BY <1>2, LeftGot
  <1>4. DOwed(d, id)' = IF Full(d, id) THEN LeftAfter(Dests(d), DTo(d, id), DGot(d, id) \cup {e})
                                       ELSE LeftBefore(Dests(d), DGot(d, id) \cup {e})
    BY <1>1 DEF DOwed, LeftAfter, LeftBefore, Dests
  <1> QED
    BY <1>3, <1>4 DEF DOwed

LEMMA DOwedSent ==
  ASSUME Complete, NEW d \in Daemons, NEW id, Full(d, id), NEW e \in DTo(d, id),
         Here(d, id)' = Here(d, id), DTo(d, id)' = DTo(d, id) \ {e}, DGot(d, id)' = DGot(d, id)
  PROVE  DOwed(d, id)' = DOwed(d, id) - 1
  <1>1. Full(d, id)' = Full(d, id)
    BY DEF Full, Local
  <1>2. IsFiniteSet(Dests(d)) /\ DTo(d, id) \in SUBSET Dests(d) /\ DGot(d, id) \in SUBSET Dests(d)
    BY DSets
  <1>3. LeftAfter(Dests(d), DTo(d, id) \ {e}, DGot(d, id))
          = LeftAfter(Dests(d), DTo(d, id), DGot(d, id)) - 1
    BY <1>2, LeftSent
  <1>4. DOwed(d, id)' = LeftAfter(Dests(d), DTo(d, id) \ {e}, DGot(d, id))
    BY <1>1 DEF DOwed, LeftAfter, LeftBefore, Dests
  <1> QED
    BY <1>3, <1>4 DEF DOwed

LEMMA NothingPosted == ASSUME NEW d, NEW id PROVE Posted({}, d, id)
  BY DEF Posted

\* The kinds of messages in net without m, and with new results.
LEMMA KindsLess ==
  ASSUME NEW m, NEW S
  PROVE  /\ \A k : k # m.kind => Kind(k, S \ {m}) = Kind(k, S)
         /\ Kind(m.kind, S \ {m}) = Kind(m.kind, S) \ {m}
  BY DEF Kind

LEMMA KindsMore ==
  ASSUME NEW m, NEW S
  PROVE  /\ \A k : k # m.kind => Kind(k, S \cup {m}) = Kind(k, S)
         /\ Kind(m.kind, S \cup {m}) = Kind(m.kind, S) \cup {m}
  BY DEF Kind

\* The record of a super request after a peer's header.
HeaderIn(sr0, q) == IF sr0.first = NoPeer THEN [sr0 EXCEPT !.first = q]
                                          ELSE [sr0 EXCEPT !.others = @ \cup {q}]

LEMMA HeaderInIs ==
  ASSUME NEW sr0, DOMAIN sr0 = Fields, NEW q, q # NoPeer
  PROVE  LET sr == HeaderIn(sr0, q) IN
         /\ DOMAIN sr = Fields /\ sr.ops = sr0.ops /\ SeenBy(sr) = SeenBy(sr0) \cup {q}
         /\ sr.list = sr0.list /\ sr.nreq = sr0.nreq /\ sr.set = sr0.set
  BY DEF HeaderIn, Fields, SeenBy

LEMMA GatherArriveOInv ==
  ASSUME Complete, OInv, NEW m, GatherArrive(m)
  PROVE  OInv'
  <1>p. PICK d, e, id : d = m.dst /\ e = m.src /\ id = m.id
    OBVIOUS
  <1>0. m \in net /\ m.kind = "op" /\ Key(m, e, d, id) /\ nextId' = nextId /\ m \in Under
    BY <1>p DEF GatherArrive, Key, Under
  <1>1. /\ d \in Daemons /\ e \in Dests(d) /\ e # NoPeer /\ id \in Nat /\ DOwed(d, id) # 0
        /\ DaemonPair(d, id)
    BY <1>0, OpAwaited
  <1>i. Forms /\ Mail /\ Single
    BY DEF OInv
  <1>s. PICK sr0 : sr0 = Get(d, id, FALSE)
    OBVIOUS
  <1>2. /\ DOMAIN sr0 = Fields /\ sr0.ops = DOwed(d, id) /\ SeenBy(sr0) = DHeads(d, id)
        /\ sr0.list = Here(d, id) /\ sr0.nreq = Cardinality(Here(d, id)) /\ (sr0.set <=> Here(d, id) # {})
    BY <1>1, <1>s, DGetIs
  <1>t. PICK sr : sr = HeaderIn(sr0, e)
    OBVIOUS
  <1>3. /\ DOMAIN sr = Fields /\ sr.ops = DOwed(d, id) /\ SeenBy(sr) = DHeads(d, id) \cup {e}
        /\ sr.list = Here(d, id) /\ sr.nreq = Cardinality(Here(d, id)) /\ (sr.set <=> Here(d, id) # {})
    BY <1>1, <1>2, <1>t, HeaderInIs
  <1>4. DOMAIN sreq = Procs /\ d \in Procs
    BY <1>1, <1>i, WithDaemons DEF Forms
  <1>5. /\ Kind("result", net \ {m}) = Kind("result", net) /\ Kind("ctrl", net \ {m}) = Kind("ctrl", net)
        /\ Kind("op", net \ {m}) = Kind("op", net) \ {m}
    BY <1>0, KindsLess
  <1>6. CASE m.proto = "rndv"
    <2>1. sreq' = Put(d, id, sr) /\ net' = net \ {m} /\ rx' = rx \cup {m} /\ tx' = tx
      BY <1>p, <1>s, <1>t, <1>6 DEF GatherArrive, HeaderIn
    <2>2. Others(d, id) /\ id \in DOMAIN sreq'[d] /\ sreq'[d][id] = sr
      BY <1>4, <2>1, PutOthers
    <2>3. /\ Kind("result", rx') = Kind("result", rx) /\ Kind("ctrl", rx') = Kind("ctrl", rx)
          /\ Kind("op", rx') = Kind("op", rx) \cup {m} /\ Under' = Under /\ Slow' = Slow
      <3>1. Under' = Under
        BY <1>0, <2>1 DEF Under
      <3>2. Slow' = Slow
        BY <3>1 DEF Slow
      <3> QED
        BY <1>0, <2>1, <3>1, <3>2, KindsMore
    <2>4. \A a, i : Here(a, i)' = Here(a, i)
      <3>1. /\ Kind("ctrl", net' \cup rx') = Kind("ctrl", net') \cup Kind("ctrl", rx')
            /\ Kind("ctrl", net \cup rx) = Kind("ctrl", net) \cup Kind("ctrl", rx)
        BY DEF Kind
      <3>2. Kind("ctrl", net' \cup rx') = Kind("ctrl", net \cup rx)
        BY <1>5, <2>1, <2>3, <3>1
      <3> QED
        BY <1>0, <3>2, HereKept
    <2>5. /\ e \notin DHeads(d, id) /\ e \notin DComing(d, id)
          /\ DHeads(d, id)' = DHeads(d, id) \cup {e} /\ DTo(d, id)' = DTo(d, id)
          /\ DComing(d, id)' = DComing(d, id) \cup {e}
          /\ \A a \in Daemons : \A i : (a # d \/ i # id) => ExchangeKept(a, i)
      <3>1. /\ Kind("op", net') = Kind("op", net) \ {m} /\ Kind("op", Slow') = Kind("op", Slow)
            /\ Kind("op", rx') = IF m.proto = "rndv" THEN Kind("op", rx) \cup {m} ELSE Kind("op", rx)
        BY <1>5, <1>6, <2>1, <2>3
      <3> QED
        BY <1>0, <1>i, <1>6, <2>4, <3>1, OpArrives
    <2>6. \A a, i : AnswersKept(a, i)
      BY <2>3, AnswersAllKept
    <2>7. DOwed(d, id)' = DOwed(d, id)
      <3>1. DGot(d, id)' = DGot(d, id)
        BY <2>5 DEF DGot
      <3>2. Full(d, id)' = Full(d, id)
        BY <2>4 DEF Full, Local
      <3> QED
        BY <2>5, <3>1, <3>2 DEF DOwed, Dests
    <2>8. Exchanges(d, id, sreq[d][id])'
      <3>1. Exchanges(d, id, sreq[d][id])' <=>
              /\ DOMAIN sr = Fields /\ sr.ops = DOwed(d, id)' /\ SeenBy(sr) = DHeads(d, id)'
              /\ sr.list = Here(d, id)' /\ sr.nreq = Cardinality(Here(d, id)')
              /\ (sr.set <=> Here(d, id)' # {})
              /\ (Here(d, id)' # {} \/ DHeads(d, id)' # {})
        BY <2>2 DEF Exchanges, SeenBy
      <3> QED
        BY <3>1, <1>3, <2>4, <2>5, <2>7
    <2>9. DaemonPair(d, id)'
      <3>1. Answers(d, id)' = {}
        BY <1>1, <2>6 DEF AnswersKept, DaemonPair
      <3> QED
        BY <1>1, <2>2, <2>7, <2>8, <3>1 DEF DaemonPair, Live
    <2>10. Single'
      <3>1. net' \cap rx' = {} /\ net' \cap tx' = {} /\ rx' \cap tx' = {}
        BY <1>0, <1>i, <2>1 DEF Single
      <3> QED
        BY <1>i, <2>3, <3>1 DEF Single
    <2>11. Mail'
      <3>1. \A c \in Clients : nextId[c] \in Nat /\ nextId'[c] \in Nat /\ nextId[c] <= nextId'[c]
        BY <1>0, <1>i DEF Forms
      <3>2. \A a \in Daemons : \A i \in Nat : Full(a, i) => Full(a, i)'
        BY <2>4 DEF Full, Local
      <3>3. (\A x \in rx' : x.proto = "rndv") /\ (\A x \in tx' : x.proto # "short" /\ x.kind # "ctrl")
        BY <1>6, <1>i, <2>1 DEF Mail
      <3> QED
        BY <1>i, <2>3, <3>1, <3>2, <3>3, MailNext
    <2>12. \A x \in net' \cup rx' : x \in net \cup rx
      BY <1>0, <2>1
    <2> QED
      BY <1>0, <1>1, <2>2, <2>5, <2>6, <2>9, <2>10, <2>11, <2>12, OInvStep
  <1>7. CASE m.proto # "rndv"
    <2>1. Gathered(d, id, e, sr, Data(m), net \ {m}, tx \cup Sent(m), [used EXCEPT ![d] = @ + 1]) /\ rx' = rx
      BY <1>p, <1>s, <1>t, <1>7 DEF GatherArrive, HeaderIn
    <2>2. tx' = tx \cup Sent(m) /\ \E r : Alike(r, sr) /\ Progress(d, id, r, net \ {m})
      BY <1>1, <1>3, <1>4, <2>1, GatheredProgress
    <2>r. PICK r : Alike(r, sr) /\ Progress(d, id, r, net \ {m})
      BY <2>2
    <2>3. \A k : k # "result" => Kind(k, net') = Kind(k, net \ {m})
      BY <2>r, ProgressNet
    <2>4. \A a, i : Here(a, i)' = Here(a, i)
      <3>1. Kind("ctrl", net' \cup rx') = Kind("ctrl", net') \cup Kind("ctrl", rx')
        BY DEF Kind
      <3>2. Kind("ctrl", net \cup rx) = Kind("ctrl", net) \cup Kind("ctrl", rx)
        BY DEF Kind
      <3>3. Kind("ctrl", net' \cup rx') = Kind("ctrl", net \cup rx)
        BY <1>5, <2>1, <2>3, <3>1, <3>2
      <3> QED
        BY <1>0, <3>3, HereKept
    <2>5. Kind("op", Slow') = Kind("op", Slow)
      <3>1. Kind("op", net') = Kind("op", net) \ {m}
        BY <1>5, <2>3
      <3>2. ASSUME NEW x PROVE x \in Kind("op", Slow') <=> x \in Kind("op", Slow)
        BY <1>0, <2>1, <2>2, <3>1 DEF Slow, Under, Sent, Kind
      <3> QED
        BY <3>2
    <2>6. /\ e \notin DHeads(d, id) /\ e \notin DComing(d, id)
          /\ DHeads(d, id)' = DHeads(d, id) \cup {e} /\ DTo(d, id)' = DTo(d, id)
          /\ DComing(d, id)' = DComing(d, id)
          /\ \A a \in Daemons : \A i : (a # d \/ i # id) => ExchangeKept(a, i)
      <3>1. Kind("op", net') = Kind("op", net) \ {m} /\ Kind("op", rx') = Kind("op", rx)
        BY <1>5, <2>1, <2>3
      <3> QED
        BY <1>0, <1>i, <1>7, <2>4, <2>5, <3>1, OpArrives
    <2>7. DOwed(d, id)' = DOwed(d, id) - 1 /\ DOwed(d, id) \in Nat
      <3>1. DGot(d, id)' = DGot(d, id) \cup {e} /\ e \notin DGot(d, id)
        BY <2>6 DEF DGot
      <3> QED
        BY <1>1, <2>4, <2>6, <3>1, DOwedGot, DSets
    <2>8. Counting(d, id, r)
      <3>1. /\ DOMAIN r = Fields /\ r.ops = sr.ops /\ SeenBy(r) = SeenBy(sr)
            /\ r.list = sr.list /\ r.nreq = sr.nreq /\ r.set = sr.set
        BY <2>r DEF Alike
      <3>2. r.ops = DOwed(d, id)' + 1
        BY <1>3, <2>7, <3>1
      <3> QED
        BY <1>3, <2>4, <2>6, <3>1, <3>2 DEF Counting
    <2>9. ResultsStay(net \ {m})
      <3>1. Kind("result", tx') = Kind("result", tx)
        BY <1>0, <2>2 DEF Kind, Sent
      <3> QED
        BY <1>5, <2>1, <3>1 DEF ResultsStay
    <2>10. Places(net \ {m}, {})
      <3>1. tx' \subseteq tx \cup {m} /\ m.proto = "short" => tx' = tx
        BY <2>2 DEF Sent
      <3>2. \A x \in tx' : x.proto # "short" /\ x.kind # "ctrl"
        BY <1>0, <1>i, <2>2 DEF Mail, Sent
      <3>3. \A x \in rx' : x.proto = "rndv"
        BY <1>i, <2>1 DEF Mail
      <3>4. /\ (net \ {m}) \cap rx' = {} /\ (net \ {m}) \cap tx' = {} /\ rx' \cap tx' = {}
            /\ net \ {m} \subseteq Under /\ rx' \subseteq Under /\ tx' \subseteq Under
        BY <1>0, <1>i, <2>1, <2>2 DEF Sent, Under, Single
      <3> QED
        BY <3>2, <3>3, <3>4 DEF Places
    <2>11. Full(d, id) => Full(d, id)'
      BY <2>4 DEF Full, Local
    <2> QED
      BY <1>0, <1>1, <2>r, <2>6, <2>8, <2>9, <2>10, <2>11, NothingPosted, DaemonStep
  <1> QED
    BY <1>6, <1>7

LEMMA GatherDataOInv ==
  ASSUME Complete, OInv, NEW m, GatherData(m)
  PROVE  OInv'
  <1>p. PICK d, e, id : d = m.dst /\ e = m.src /\ id = m.id
    OBVIOUS
  <1>0. m \in rx /\ m.kind = "op" /\ Key(m, e, d, id) /\ nextId' = nextId /\ m \in Under /\ rx' = rx \ {m}
    BY <1>p DEF GatherData, Key, Under
  <1>1. /\ d \in Daemons /\ e \in Dests(d) /\ e # NoPeer /\ id \in Nat /\ DOwed(d, id) # 0
        /\ DaemonPair(d, id) /\ Live(d, id)
    BY <1>0, OpAwaited
  <1>i. Forms /\ Mail /\ Single
    BY DEF OInv
  <1>s. PICK sr : sr = sreq[d][id]
    OBVIOUS
  <1>3. /\ DOMAIN sr = Fields /\ sr.ops = DOwed(d, id) /\ SeenBy(sr) = DHeads(d, id)
        /\ sr.list = Here(d, id) /\ sr.nreq = Cardinality(Here(d, id)) /\ (sr.set <=> Here(d, id) # {})
    BY <1>1, <1>s DEF DaemonPair, Exchanges
  <1>4. DOMAIN sreq = Procs /\ d \in Procs
    BY <1>1, <1>i, WithDaemons DEF Forms
  <1>5. /\ Kind("result", rx') = Kind("result", rx) /\ Kind("ctrl", rx') = Kind("ctrl", rx)
        /\ Kind("op", rx') = Kind("op", rx) \ {m}
    BY <1>0, KindsLess
  <1>11. Gathered(d, id, e, sr, Data(m), net, tx \cup {m}, used)
    BY <1>p, <1>s DEF GatherData
  <1>12. tx' = tx \cup {m} /\ \E r : Alike(r, sr) /\ Progress(d, id, r, net)
    BY <1>1, <1>3, <1>4, <1>11, GatheredProgress
  <1>r. PICK r : Alike(r, sr) /\ Progress(d, id, r, net)
    BY <1>12
  <1>13. \A k : k # "result" => Kind(k, net') = Kind(k, net)
    BY <1>r, ProgressNet
  <1>14. \A a, i : Here(a, i)' = Here(a, i)
    <2>1. Kind("ctrl", net' \cup rx') = Kind("ctrl", net') \cup Kind("ctrl", rx')
      BY DEF Kind
    <2>2. Kind("ctrl", net \cup rx) = Kind("ctrl", net) \cup Kind("ctrl", rx)
      BY DEF Kind
    <2>3. Kind("ctrl", net' \cup rx') = Kind("ctrl", net \cup rx)
      BY <1>5, <1>13, <2>1, <2>2
    <2> QED
      BY <1>0, <2>3, HereKept
  <1>15. Kind("op", Slow') = Kind("op", Slow)
    <2>1. Kind("op", net') = Kind("op", net)
      BY <1>13
    <2>2. ASSUME NEW x PROVE x \in Kind("op", Slow') <=> x \in Kind("op", Slow)
      BY <1>0, <1>12, <2>1 DEF Slow, Under, Kind
    <2> QED
      BY <2>2
  <1>16. /\ e \in DHeads(d, id) /\ e \in DComing(d, id)
        /\ DHeads(d, id)' = DHeads(d, id) /\ DTo(d, id)' = DTo(d, id)
        /\ DComing(d, id)' = DComing(d, id) \ {e}
        /\ \A a \in Daemons : \A i : (a # d \/ i # id) => ExchangeKept(a, i)
    <2>1. Kind("op", net') = Kind("op", net) /\ Kind("op", rx') = Kind("op", rx) \ {m}
      BY <1>5, <1>13
    <2> QED
      BY <1>0, <1>i, <1>14, <1>15, <2>1, OpData
  <1>17. DOwed(d, id)' = DOwed(d, id) - 1 /\ DOwed(d, id) \in Nat
    <2>1. DGot(d, id)' = DGot(d, id) \cup {e} /\ e \notin DGot(d, id)
      BY <1>16 DEF DGot
    <2> QED
      BY <1>1, <1>14, <1>16, <2>1, DOwedGot, DSets
  <1>18. Counting(d, id, r)
    <2>1. /\ DOMAIN r = Fields /\ r.ops = sr.ops /\ SeenBy(r) = SeenBy(sr)
          /\ r.list = sr.list /\ r.nreq = sr.nreq /\ r.set = sr.set
      BY <1>r DEF Alike
    <2>2. r.ops = DOwed(d, id)' + 1
      BY <1>3, <1>17, <2>1
    <2> QED
      BY <1>3, <1>14, <1>16, <2>1, <2>2 DEF Counting
  <1>19. ResultsStay(net)
    <2>1. Kind("result", tx') = Kind("result", tx)
      BY <1>0, <1>12 DEF Kind
    <2> QED
      BY <1>5, <2>1 DEF ResultsStay
  <1>20. Places(net, {})
    <2>1. \A x \in tx' : x.proto # "short" /\ x.kind # "ctrl"
      BY <1>0, <1>i, <1>12 DEF Mail
    <2>2. \A x \in rx' : x.proto = "rndv"
      BY <1>0, <1>i DEF Mail
    <2>3. /\ net \cap rx' = {} /\ net \cap tx' = {} /\ rx' \cap tx' = {}
          /\ net \subseteq Under /\ rx' \subseteq Under /\ tx' \subseteq Under
      BY <1>0, <1>i, <1>12 DEF Under, Single
    <2> QED
      BY <2>1, <2>2, <2>3 DEF Places
  <1>21. Full(d, id) => Full(d, id)'
    BY <1>14 DEF Full, Local
  <1> QED
    BY <1>0, <1>1, <1>r, <1>16, <1>18, <1>19, <1>20, <1>21, NothingPosted, DaemonStep

LEMMA ScatterSentOInv ==
  ASSUME Complete, OInv, NEW m, ScatterSent(m)
  PROVE  OInv'
  <1>p. PICK d, e, id : d = m.src /\ e = m.dst /\ id = m.id
    OBVIOUS
  <1>i. Forms /\ Mail /\ Single
    BY DEF OInv
  <1>0. /\ m \in tx /\ m.kind = "op" /\ Key(m, d, e, id) /\ nextId' = nextId /\ m \in Under /\ rx' = rx
        /\ m \in Slow
    BY <1>p, <1>i DEF ScatterSent, Key, Under, Slow, Mail
  <1>1. /\ d \in Daemons /\ e \in Dests(d) /\ id \in Nat /\ Full(d, id) /\ DOwed(d, id) # 0
        /\ DaemonPair(d, id) /\ Live(d, id)
    BY <1>0, SendAwaited
  <1>s. PICK sr : sr = sreq[d][id]
    OBVIOUS
  <1>3. /\ DOMAIN sr = Fields /\ sr.ops = DOwed(d, id) /\ SeenBy(sr) = DHeads(d, id)
        /\ sr.list = Here(d, id) /\ sr.nreq = Cardinality(Here(d, id)) /\ (sr.set <=> Here(d, id) # {})
        /\ (Here(d, id) # {} \/ DHeads(d, id) # {})
    BY <1>1, <1>s DEF DaemonPair, Exchanges
  <1>4. DOMAIN sreq = Procs /\ d \in Procs
    BY <1>1, <1>i, WithDaemons DEF Forms
  <1>11. CompleteOperation(d, id, sr, net, tx \ {m}, used, active)
    BY <1>p, <1>s DEF ScatterSent
  <1>12. tx' = tx \ {m} /\ Progress(d, id, sr, net)
    BY <1>1, <1>3, <1>4, <1>11, CompleteIs
  <1>13. \A k : k # "result" => Kind(k, net') = Kind(k, net)
    BY <1>12, ProgressNet
  <1>14. \A a, i : Here(a, i)' = Here(a, i)
    <2>1. Kind("ctrl", net' \cup rx') = Kind("ctrl", net') \cup Kind("ctrl", rx')
      BY DEF Kind
    <2>2. Kind("ctrl", net \cup rx) = Kind("ctrl", net) \cup Kind("ctrl", rx)
      BY DEF Kind
    <2>3. Kind("ctrl", net' \cup rx') = Kind("ctrl", net \cup rx)
      BY <1>0, <1>13, <2>1, <2>2
    <2> QED
      BY <1>0, <2>3, HereKept
  <1>15. Kind("op", Slow') = Kind("op", Slow) \ {m}
    <2>1. Kind("op", net') = Kind("op", net)
      BY <1>13
    <2>2. ASSUME NEW x PROVE x \in Kind("op", Slow') <=> x \in Kind("op", Slow) \ {m}
      BY <1>0, <1>i, <1>12, <2>1 DEF Slow, Under, Kind, Single
    <2> QED
      BY <2>2
  <1>16. /\ e \in DTo(d, id)
        /\ DHeads(d, id)' = DHeads(d, id) /\ DComing(d, id)' = DComing(d, id)
        /\ DTo(d, id)' = DTo(d, id) \ {e}
        /\ \A a \in Daemons : \A i : (a # d \/ i # id) => ExchangeKept(a, i)
    <2>1. Kind("op", net') = Kind("op", net) /\ Kind("op", rx') = Kind("op", rx)
      BY <1>0, <1>13
    <2> QED
      BY <1>0, <1>i, <1>14, <1>15, <2>1, OpSent
  <1>17. DOwed(d, id)' = DOwed(d, id) - 1 /\ DOwed(d, id) \in Nat
    <2>1. DGot(d, id)' = DGot(d, id)
      BY <1>16 DEF DGot
    <2> QED
      BY <1>1, <1>14, <1>16, <2>1, DOwedSent, DSets
  <1>18. Counting(d, id, sr)
    <2>2. sr.ops = DOwed(d, id)' + 1
      BY <1>3, <1>17
    <2> QED
      BY <1>3, <1>14, <1>16, <2>2 DEF Counting
  <1>19. ResultsStay(net)
    <2>1. Kind("result", tx') = Kind("result", tx)
      BY <1>0, <1>12 DEF Kind
    <2> QED
      BY <1>0, <2>1 DEF ResultsStay
  <1>20. Places(net, {})
    <2>1. \A x \in tx' : x.proto # "short" /\ x.kind # "ctrl"
      BY <1>0, <1>i, <1>12 DEF Mail
    <2>2. \A x \in rx' : x.proto = "rndv"
      BY <1>0, <1>i DEF Mail
    <2>3. /\ net \cap rx' = {} /\ net \cap tx' = {} /\ rx' \cap tx' = {}
          /\ net \subseteq Under /\ rx' \subseteq Under /\ tx' \subseteq Under
      BY <1>0, <1>i, <1>12 DEF Under, Single
    <2> QED
      BY <2>1, <2>2, <2>3 DEF Places
  <1>21. Full(d, id) => Full(d, id)'
    BY <1>14 DEF Full, Local
  <1> QED
    BY <1>0, <1>1, <1>12, <1>16, <1>18, <1>19, <1>20, <1>21, NothingPosted, DaemonStep

\* The vectors of a daemon that has not sent any.
LEMMA NewPosted ==
  ASSUME Complete, Mail, NEW d \in Daemons, NEW id \in Nat, ~Full(d, id), NEW proto, NEW val
  PROVE  Posted(New(d, id, proto, val), d, id)
  <1>1. \A x \in New(d, id, proto, val) : x.kind = "op" /\ x.src = d /\ x.id = id /\ x.dst \in Dests(d)
    BY NewAre
  <1>2. \A x, y \in New(d, id, proto, val) : x.dst = y.dst => x = y
    BY DEF New, Msg
  <1>3. ASSUME NEW y \in Under, y.kind = "op", y.src = d, y.id = id PROVE FALSE
    <2>1. MailOf(y)
      BY DEF Mail
    <2> QED
      BY <1>3, <2>1 DEF MailOf
  <1> QED
    BY <1>1, <1>2, <1>3 DEF Posted

\* The record of a daemon's super request after a client's vector.
ClientAdded(got, c, id, val) ==
    [got EXCEPT !.nreq = @ + 1, !.list = @ \cup {c}, !.set = TRUE,
                !.res = IF got.set THEN Reduce(@, val, id) ELSE val]

LEMMA ClientAddedIs ==
  ASSUME NEW got, DOMAIN got = Fields, NEW c, NEW id, NEW val, NEW sr, sr = ClientAdded(got, c, id, val)
  PROVE  /\ DOMAIN sr = Fields /\ sr.ops = got.ops /\ SeenBy(sr) = SeenBy(got)
         /\ sr.list = got.list \cup {c} /\ sr.nreq = got.nreq + 1 /\ sr.set = TRUE
  BY DEF ClientAdded, Fields, SeenBy

OutOfRx(m) == rx' = rx \ {m}

LEMMA ClientVectorOInv ==
  ASSUME Complete, OInv, NEW m \in net \cup rx, m.kind = "ctrl", NEW c, NEW d, NEW id, Key(m, c, d, id),
         nextId' = nextId, OutOfRx(m), NEW val, NEW u, ClientVector(d, c, id, val, net \ {m}, tx, u)
  PROVE  OInv'
  <1>i. Forms /\ Mail /\ Single /\ m \in Under
    BY DEF OInv, Under
  <1>0. d \in Daemons /\ id \in Nat /\ c \in Local(d) /\ c \notin Here(d, id)
    <2>1. MailOf(m)
      BY <1>i DEF Mail
    <2>2. c \in Clients /\ d = Home[c] /\ id \in Nat
      BY <2>1 DEF MailOf, Key
    <2>3. Sends(net \cup rx, "ctrl", c, d, id)
      BY DEF Sends, Has, Kind
    <2> QED
      BY <2>2, <2>3, WithDaemons DEF Here
  <1>1. ~Full(d, id) /\ DOwed(d, id) # 0 /\ DOwed(d, id) \in Nat /\ DaemonPair(d, id)
    <2>1. ~Full(d, id)
      BY <1>0 DEF Full
    <2> QED
      BY <1>0, <2>1, DSets DEF OInv
  <1>s. PICK got : got = Get(d, id, FALSE)
    OBVIOUS
  <1>t. PICK sr : sr = ClientAdded(got, c, id, val)
    OBVIOUS
  <1>2. /\ DOMAIN got = Fields /\ got.ops = DOwed(d, id) /\ SeenBy(got) = DHeads(d, id)
        /\ got.list = Here(d, id) /\ got.nreq = Cardinality(Here(d, id))
    BY <1>0, <1>1, <1>s, DGetIs
  <1>3. /\ DOMAIN sr = Fields /\ sr.ops = DOwed(d, id) /\ SeenBy(sr) = DHeads(d, id)
        /\ sr.list = Here(d, id) \cup {c} /\ sr.nreq = Cardinality(Here(d, id)) + 1 /\ sr.set = TRUE
    <2>1. DOMAIN got = Fields /\ sr = ClientAdded(got, c, id, val)
      BY <1>2, <1>t
    <2>2. /\ DOMAIN sr = Fields /\ sr.ops = got.ops /\ SeenBy(sr) = SeenBy(got)
          /\ sr.list = got.list \cup {c} /\ sr.nreq = got.nreq + 1 /\ sr.set = TRUE
      BY <2>1 DEF ClientAdded, Fields, SeenBy
    <2> QED
      BY <1>2, <2>2
  <1>4. /\ sr.nreq = Cardinality(Here(d, id) \cup {c})
        /\ AllClientsIn(d, sr) <=> Here(d, id) \cup {c} = Local(d)
    <2>1. IsFiniteSet(Local(d)) /\ Here(d, id) \cup {c} \subseteq Local(d) /\ Here(d, id) \subseteq Local(d)
      BY <1>0, WithDaemons DEF Here
    <2>2. IsFiniteSet(Here(d, id))
      BY <2>1, FS_Subset
    <2>3. Cardinality(Here(d, id) \cup {c}) = Cardinality(Here(d, id)) + 1
      BY <1>0, <2>2, FS_AddElement
    <2>4. Cardinality(Here(d, id) \cup {c}) = Cardinality(Local(d)) => Here(d, id) \cup {c} = Local(d)
      BY <2>1, FS_Subset
    <2>5. NumClients[d] = Cardinality(Local(d))
      BY <1>0, WithDaemons
    <2>6. sr.nreq = Cardinality(Here(d, id) \cup {c})
      BY <1>3, <2>3
    <2>7. ASSUME Here(d, id) \cup {c} = Local(d) PROVE sr.nreq = NumClients[d]
      BY <2>5, <2>6, <2>7
    <2> QED
      BY <2>4, <2>5, <2>6, <2>7 DEF AllClientsIn
  <1>5. DOMAIN sreq = Procs /\ d \in Procs
    BY <1>0, <1>i, WithDaemons DEF Forms
  <1>6. /\ \A k : k # "ctrl" => Kind(k, net \ {m}) = Kind(k, net)
        /\ \A k : k # "ctrl" => Kind(k, rx') = Kind(k, rx)
        /\ Kind("ctrl", net \ {m}) = Kind("ctrl", net) \ {m} /\ Kind("ctrl", rx') = Kind("ctrl", rx) \ {m}
    BY KindsLess DEF OutOfRx
  <1>h. ASSUME Kind("ctrl", net') = Kind("ctrl", net) \ {m}
        PROVE  /\ Here(d, id)' = Here(d, id) \cup {c}
               /\ \A e \in Daemons : \A i : (e # d \/ i # id) => Here(e, i)' = Here(e, i)
    <2>1. Kind("ctrl", net' \cup rx') = Kind("ctrl", net') \cup Kind("ctrl", rx')
      BY DEF Kind
    <2>2. Kind("ctrl", net \cup rx) = Kind("ctrl", net) \cup Kind("ctrl", rx)
      BY DEF Kind
    <2>3. Kind("ctrl", net' \cup rx') = Kind("ctrl", net \cup rx) \ {m}
      BY <1>6, <1>h, <2>1, <2>2
    <2> QED
      BY <1>i, <2>3, CtrlTaken
  <1>v. PICK u1 :
          IF AllClientsIn(d, sr)
          THEN Scatter(d, id, sr, sr.res, net \ {m}, tx, u1, active)
          ELSE sreq' = Put(d, id, sr) /\ net' = net \ {m} /\ tx' = tx
    <2>1. PICK u1 : u1 = IF got.set THEN [u EXCEPT ![d] = @ - 1] ELSE u
      OBVIOUS
    <2> QED
      BY <1>s, <1>t, <2>1 DEF ClientVector, ClientAdded
  <1>7. CASE ~AllClientsIn(d, sr)
    <2>1. sreq' = Put(d, id, sr) /\ net' = net \ {m} /\ tx' = tx
      BY <1>7, <1>v
    <2>2. Others(d, id) /\ id \in DOMAIN sreq'[d] /\ sreq'[d][id] = sr
      BY <1>5, <2>1, PutOthers
    <2>3. /\ Here(d, id)' = Here(d, id) \cup {c}
          /\ \A e \in Daemons : \A i : (e # d \/ i # id) => Here(e, i)' = Here(e, i)
      BY <1>6, <1>h, <2>1
    <2>4. ~Full(d, id)'
      BY <1>4, <1>7, <2>3 DEF Full, Local
    <2>5. KindKept("op") /\ KindKept("result")
      BY <1>6, <2>1 DEF KindKept
    <2>6. /\ DHeads(d, id)' = DHeads(d, id) /\ DComing(d, id)' = DComing(d, id)
          /\ \A e \in Daemons : \A i : (e # d \/ i # id) => ExchangeKept(e, i)
      BY <1>0, <1>1, <2>3, <2>4, <2>5, HereGrows
    <2>7. \A a, i : AnswersKept(a, i)
      BY <2>5, KindKeptAll, AnswersAllKept
    <2>8. DOwed(d, id)' = DOwed(d, id)
      <3>1. DGot(d, id)' = DGot(d, id)
        BY <2>6 DEF DGot
      <3> QED
        BY <1>1, <2>4, <3>1 DEF DOwed, LeftBefore, Dests
    <2>9. Exchanges(d, id, sreq[d][id])'
      <3>1. Exchanges(d, id, sreq[d][id])' <=>
              /\ DOMAIN sr = Fields /\ sr.ops = DOwed(d, id)' /\ SeenBy(sr) = DHeads(d, id)'
              /\ sr.list = Here(d, id)' /\ sr.nreq = Cardinality(Here(d, id)')
              /\ (sr.set <=> Here(d, id)' # {})
              /\ (Here(d, id)' # {} \/ DHeads(d, id)' # {})
        BY <2>2 DEF Exchanges, SeenBy
      <3> QED
        BY <3>1, <1>3, <1>4, <2>3, <2>6, <2>8
    <2>10. DaemonPair(d, id)'
      <3>1. Answers(d, id)' = {}
        BY <1>1, <2>7 DEF AnswersKept, DaemonPair
      <3> QED
        BY <1>1, <2>2, <2>8, <2>9, <3>1 DEF DaemonPair, Live
    <2>11. Single'
      <3>1. net' \cap rx' = {} /\ net' \cap tx' = {} /\ rx' \cap tx' = {} /\ Under' \subseteq Under
        BY <1>i, <2>1 DEF Single, Under, OutOfRx
      <3> QED
        BY <1>i, <3>1 DEF Single
    <2>12. Mail'
      <3>1. \A a \in Clients : nextId[a] \in Nat /\ nextId'[a] \in Nat /\ nextId[a] <= nextId'[a]
        BY <1>i DEF Forms
      <3>2. ASSUME NEW a \in Daemons, NEW i \in Nat, Full(a, i) PROVE Full(a, i)'
        <4>1. a # d \/ i # id
          BY <1>1, <3>2
        <4> QED
          BY <2>3, <3>2, <4>1 DEF Full, Local
      <3>3. (\A x \in rx' : x.proto = "rndv") /\ (\A x \in tx' : x.proto # "short" /\ x.kind # "ctrl")
        BY <1>i, <2>1 DEF Mail, OutOfRx
      <3>4. \A x \in Under' : x \in Under
        BY <2>1 DEF Under, OutOfRx
      <3> QED
        BY <1>i, <3>1, <3>2, <3>3, <3>4, MailNext
    <2>13. \A x \in net' \cup rx' : x \in net \cup rx
      BY <2>1 DEF OutOfRx
    <2> QED
      BY <1>0, <1>1, <2>2, <2>6, <2>7, <2>10, <2>11, <2>12, <2>13, OInvStep
  <1>8. CASE AllClientsIn(d, sr)
    <2>p. PICK proto \in [Dests(d) -> Protocols] :
             CompleteOperation(d, id, [sr EXCEPT !.ops = @ - Cardinality(Short(Dests(d), proto))],
                (net \ {m}) \cup {Msg("op", d, q, id, proto[q], sr.res) : q \in Dests(d)}, tx, u1, active)
      BY <1>8, <1>v DEF Scatter
    <2>n. PICK O : O = New(d, id, proto, sr.res)
      OBVIOUS
    <2>r. PICK r : r = [sr EXCEPT !.ops = @ - Cardinality(Short(Dests(d), proto))]
      OBVIOUS
    <2>1. CompleteOperation(d, id, r, (net \ {m}) \cup O, tx, u1, active)
      BY <2>p, <2>n, <2>r DEF New
    <2>2. /\ DOMAIN r = Fields /\ r.ops = sr.ops - Cardinality(Short(Dests(d), proto))
          /\ r.first = sr.first /\ r.others = sr.others
          /\ r.list = sr.list /\ r.nreq = sr.nreq /\ r.set = sr.set
      BY <1>3, <2>r DEF Fields
    <2>3. tx' = tx /\ Progress(d, id, r, (net \ {m}) \cup O)
      BY <1>0, <1>5, <2>1, <2>2, CompleteIs
    <2>4. Posted(O, d, id)
      BY <1>0, <1>1, <1>i, <2>n, NewPosted
    <2>5. \A k : k # "result" => Kind(k, net') = Kind(k, (net \ {m}) \cup O)
      BY <2>3, ProgressNet
    <2>6. /\ \A k : k # "op" => Kind(k, (net \ {m}) \cup O) = Kind(k, net \ {m})
          /\ Kind("op", (net \ {m}) \cup O) = Kind("op", net \ {m}) \cup O
      BY <2>4 DEF Posted, Kind
    <2>7. /\ Here(d, id)' = Local(d)
          /\ \A e \in Daemons : \A i : (e # d \/ i # id) => Here(e, i)' = Here(e, i)
      <3>1. Kind("ctrl", net') = Kind("ctrl", net) \ {m}
        BY <1>6, <2>5, <2>6
      <3>2. Here(d, id) \cup {c} = Local(d)
        BY <1>4, <1>8
      <3> QED
        BY <1>h, <3>1, <3>2
    <2>8. Full(d, id)'
      BY <2>7 DEF Full, Local
    <2>9. /\ Kind("op", net') = Kind("op", net) \cup O /\ Kind("op", rx') = Kind("op", rx)
          /\ Kind("op", Slow') = Kind("op", Slow) \cup {x \in O : x.proto # "short"}
      <3>1. Kind("op", net') = Kind("op", net) \cup O /\ Kind("op", rx') = Kind("op", rx)
        BY <1>6, <2>5, <2>6
      <3>2. Kind("op", Under') = Kind("op", net') \cup Kind("op", rx') \cup Kind("op", tx')
        BY DEF Kind, Under
      <3>3. Kind("op", Under) = Kind("op", net) \cup Kind("op", rx) \cup Kind("op", tx)
        BY DEF Kind, Under
      <3>4. Kind("op", Under') = Kind("op", Under) \cup O
        BY <2>3, <3>1, <3>2, <3>3
      <3>5. Kind("op", Slow') = Kind("op", Slow) \cup {x \in O : x.proto # "short"}
        BY <3>4 DEF Kind, Slow
      <3> QED
        BY <3>1, <3>5
    <2>10. /\ DHeads(d, id)' = DHeads(d, id) /\ DComing(d, id)' = DComing(d, id)
           /\ DTo(d, id)' = Dests(d) \ Short(Dests(d), proto)
           /\ \A e \in Daemons : \A i : (e # d \/ i # id) => ExchangeKept(e, i)
      <3>1. PICK v : v = sr.res
        OBVIOUS
      <3>2. O = New(d, id, proto, v)
        BY <2>n, <3>1
      <3>3. /\ Kind("op", net') = Kind("op", net) \cup New(d, id, proto, v) /\ Kind("op", rx') = Kind("op", rx)
            /\ Kind("op", Slow') = Kind("op", Slow) \cup {x \in New(d, id, proto, v) : x.proto # "short"}
        BY <2>9, <3>2
      <3> QED
        BY <1>0, <1>1, <1>i, <2>7, <2>8, <3>3, OpsLeave
    <2>11. /\ DOwed(d, id)' = DOwed(d, id) - Cardinality(Short(Dests(d), proto)) - 1
           /\ Cardinality(Short(Dests(d), proto)) \in Nat
      <3>1. DGot(d, id)' = DGot(d, id) /\ DGot(d, id) \in SUBSET Dests(d) /\ IsFiniteSet(Dests(d))
        BY <1>0, <2>10, DSets DEF DGot
      <3>2. Short(Dests(d), proto) \in SUBSET Dests(d)
        BY DEF Short
      <3>3. LeftAfter(Dests(d), Dests(d) \ Short(Dests(d), proto), DGot(d, id))
              = LeftBefore(Dests(d), DGot(d, id)) - Cardinality(Short(Dests(d), proto)) - 1
        BY <3>1, <3>2, LeftScattered
      <3>4. DOwed(d, id)' = LeftAfter(Dests(d), Dests(d) \ Short(Dests(d), proto), DGot(d, id))
        BY <2>8, <2>10, <3>1 DEF DOwed, LeftAfter, Dests
      <3>5. DOwed(d, id) = LeftBefore(Dests(d), DGot(d, id))
        BY <1>1 DEF DOwed
      <3>6. Cardinality(Short(Dests(d), proto)) \in Nat
        BY <3>1, <3>2, FS_Subset, FS_CardinalityType
      <3> QED
        BY <3>3, <3>4, <3>5, <3>6
    <2>12. Counting(d, id, r)
      <3>1. r.ops = DOwed(d, id)' + 1
        BY <1>1, <1>3, <2>2, <2>11
      <3>2. SeenBy(r) = DHeads(d, id)'
        BY <1>3, <2>2, <2>10 DEF SeenBy
      <3>3. r.list = Here(d, id)' /\ r.nreq = Cardinality(Here(d, id)') /\ r.set = TRUE /\ Here(d, id)' # {}
        BY <1>0, <1>3, <1>4, <1>8, <2>2, <2>7
      <3> QED
        BY <2>2, <3>1, <3>2, <3>3 DEF Counting
    <2>13. ResultsStay((net \ {m}) \cup O)
      BY <1>6, <2>3, <2>6 DEF ResultsStay
    <2>14. Places((net \ {m}) \cup O, O)
      <3>1. \A x \in O : x \notin Under
        BY <2>4 DEF Posted
      <3>2. \A x \in tx' : x.proto # "short" /\ x.kind # "ctrl"
        BY <1>i, <2>3 DEF Mail
      <3>3. \A x \in rx' : x.proto = "rndv"
        BY <1>i DEF Mail, OutOfRx
      <3>4. /\ ((net \ {m}) \cup O) \cap rx' = {} /\ ((net \ {m}) \cup O) \cap tx' = {} /\ rx' \cap tx' = {}
            /\ (net \ {m}) \cup O \subseteq Under \cup O /\ rx' \subseteq Under /\ tx' \subseteq Under
        BY <1>i, <2>3, <3>1 DEF Under, Single, OutOfRx
      <3> QED
        BY <3>2, <3>3, <3>4 DEF Places
    <2> QED
      BY <1>0, <1>1, <2>3, <2>4, <2>8, <2>10, <2>12, <2>13, <2>14, DaemonStep
  <1> QED
    BY <1>7, <1>8

\* Steps that leave every exchange of the daemons alone.
LEMMA DaemonPairStays ==
  ASSUME NEW d, NEW id, DaemonPair(d, id), ExchangeKept(d, id), sreq'[d] = sreq[d],
         Late(d, id)' = Late(d, id), Answers(d, id)' \subseteq Answers(d, id)
  PROVE  DaemonPair(d, id)'
  <1>1. DOwed(d, id)' = DOwed(d, id) /\ Full(d, id)' = Full(d, id)
    BY OwedKept
  <1>2. Live(d, id)' <=> Live(d, id)
    BY DEF Live
  <1>3. (sreq[d][id])' = sreq[d][id]
    OBVIOUS
  <1>4. CASE DOwed(d, id) # 0 /\ Live(d, id)
    <2>1. Exchanges(d, id, sreq[d][id]) /\ Answers(d, id)' = {}
      BY <1>4 DEF DaemonPair
    <2>2. Exchanges(d, id, sreq[d][id])'
      BY <1>1, <1>3, <2>1 DEF Exchanges, ExchangeKept, SeenBy
    <2> QED
      BY <1>1, <1>2, <1>4, <2>1, <2>2 DEF DaemonPair
  <1>5. CASE DOwed(d, id) # 0 /\ ~Live(d, id)
    BY <1>1, <1>2, <1>5 DEF DaemonPair, ExchangeKept
  <1>6. CASE DOwed(d, id) = 0 /\ Live(d, id)
    <2>1. Delivers(d, id, sreq[d][id])
      BY <1>6 DEF DaemonPair
    <2>2. Delivers(d, id, sreq[d][id])'
      BY <1>3, <2>1 DEF Delivers
    <2> QED
      BY <1>1, <1>2, <1>6, <2>2 DEF DaemonPair
  <1>7. CASE DOwed(d, id) = 0 /\ ~Live(d, id)
    BY <1>1, <1>2, <1>7 DEF DaemonPair
  <1> QED
    BY <1>4, <1>5, <1>6, <1>7

LEMMA ClientPairKept ==
  ASSUME NEW c, NEW i, ClientPair(c, i), ExchangeKept(Home[c], i),
         (i < nextId[c])' <=> i < nextId[c],
         Live(c, i)' <=> Live(c, i), Live(c, i) => sreq'[c][i] = sreq[c][i],
         Sends(net \cup rx, "result", Home[c], c, i)' => Sends(net \cup rx, "result", Home[c], c, i)
  PROVE  ClientPair(c, i)'
  <1>1. DOwed(Home[c], i)' = DOwed(Home[c], i)
    <2>1. PICK e : e = Home[c]
      OBVIOUS
    <2>2. DOwed(e, i)' = DOwed(e, i)
      BY <2>1, OwedKept
    <2> QED
      BY <2>1, <2>2
  <1>2. CASE Live(c, i)
    <2>1. (sreq[c][i])' = sreq[c][i]
      BY <1>2
    <2> QED
      BY <1>2, <2>1 DEF ClientPair
  <1>3. CASE ~Live(c, i)
    BY <1>1, <1>3 DEF ClientPair
  <1> QED
    BY <1>2, <1>3

\* The same for all super requests but client c's id.
LEMMA OInvQuiet ==
  ASSUME Complete, OInv, Forms', Mail', Single', NEW c, NEW id, Others(c, id), c \notin Daemons,
         c \in Clients => ClientPair(c, id)',
         \A p \in Clients : \A i \in Nat : (p # c \/ i # id) => ((i < nextId[p])' <=> i < nextId[p]),
         \A e \in Daemons : \A i \in Nat : ExchangeKept(e, i) /\ Late(e, i)' = Late(e, i),
         \A e \in Daemons : \A i \in Nat : Answers(e, i)' \subseteq Answers(e, i),
         \A x \in net' \cup rx' : x.kind = "result" => x \in net \cup rx
  PROVE  OInv'
  <1>0. Clients \subseteq Procs /\ Daemons \subseteq Procs
    BY WithDaemons
  <1>1. ASSUME NEW e \in Daemons, NEW i \in Nat PROVE DaemonPair(e, i)'
    <2>1. sreq'[e] = sreq[e] /\ DaemonPair(e, i)
      BY <1>0 DEF Others, OInv
    <2> QED
      BY <2>1, DaemonPairStays
  <1>2. ASSUME NEW p \in Clients, NEW i \in Nat, p # c \/ i # id PROVE ClientPair(p, i)'
    <2>1. ClientPair(p, i) /\ ExchangeKept(Home[p], i)
      BY WithDaemons DEF OInv
    <2>2. (Live(p, i)' <=> Live(p, i)) /\ (Live(p, i) => sreq'[p][i] = sreq[p][i])
      BY <1>0, <1>2 DEF Others, Live
    <2>3. Sends(net \cup rx, "result", Home[p], p, i)' => Sends(net \cup rx, "result", Home[p], p, i)
      <3>1. Has(Kind("result", net' \cup rx'), Home[p], p, i)
               => Has(Kind("result", net \cup rx), Home[p], p, i)
        BY DEF Has, Kind
      <3> QED
        BY <3>1, SendsNext DEF Sends
    <2>4. (i < nextId[p])' <=> i < nextId[p]
      BY <1>2
    <2> QED
      BY <2>1, <2>2, <2>3, <2>4, ClientPairKept
  <1>3. \A p \in Clients : \A i \in Nat : ClientPair(p, i)'
    BY <1>2
  <1> QED
    BY <1>1, <1>3 DEF OInv

\* Nothing at all changes.
LEMMA NoneTouched ==
  ASSUME DOMAIN sreq = Procs, sreq' = sreq, NEW c, NEW id PROVE Others(c, id)
  BY DEF Others

LEMMA StillForms ==
  ASSUME Forms, nextId' \in [Clients -> Nat], NEW c \in Procs, NEW id \in Nat, Others(c, id)
  PROVE  Forms'
  <1>1. \A p \in Procs : DOMAIN sreq'[p] \subseteq Nat
    BY DEF Others, Forms
  <1> QED
    BY <1>1 DEF Forms, Others, Procs

LEMMA UnchangedOInv ==
  ASSUME Complete, OInv, nextId' = nextId, sreq' = sreq, net' = net, rx' = rx, tx' = tx
  PROVE  OInv'
  <1>0. Under' = Under /\ Slow' = Slow
    BY DEF Under, Slow
  <1>1. \A d, i : Here(d, i)' = Here(d, i)
    BY HereKept
  <1>2. KindKept("op")
    BY DEF KindKept
  <1>3. \A d, i : ExchangeKept(d, i)
    BY <1>1, <1>2, ExchangesKept
  <1>4. \A d, i : AnswersKept(d, i)
    BY <1>0, AnswersAllKept
  <1>5. Forms' /\ Single'
    BY <1>0 DEF OInv, Forms, Single, Procs
  <1>6. Mail'
    <2>1. \A x \in Under : MailOf(x)' <=> MailOf(x)
      <3>1. \A d, i : Full(d, i)' <=> Full(d, i)
        BY <1>1 DEF Full, Local
      <3> QED
        BY <3>1 DEF MailOf, Dests
    <2> QED
      BY <1>0, <2>1 DEF OInv, Mail
  <1>7. DOMAIN sreq = Procs
    BY DEF OInv, Forms
  <1>8. Others(NoPeer, 0) /\ NoPeer \notin Daemons /\ NoPeer \notin Clients
    BY <1>7, NoneTouched, WithDaemons
  <1> QED
    BY <1>3, <1>4, <1>5, <1>6, <1>8, OInvQuiet DEF AnswersKept

-----------------------------------------------------------------------------
LEMMA ClientArriveOInv ==
  ASSUME Complete, OInv, NEW m, ClientArrive(m)
  PROVE  OInv'
  <1>i. Forms /\ Mail /\ Single
    BY DEF OInv
  <1>0. m \in net /\ m.kind = "ctrl" /\ nextId' = nextId /\ m \in Under
    BY DEF ClientArrive, Under
  <1>p. PICK c, d, id : c = m.src /\ d = m.dst /\ id = m.id
    OBVIOUS
  <1>k. Key(m, c, d, id)
    BY <1>p DEF Key
  <1>1. CASE m.proto # "rndv"
    <2>1. ClientVector(d, c, id, Data(m), net \ {m}, tx, [used EXCEPT ![d] = @ + 1]) /\ rx' = rx
      BY <1>p, <1>1 DEF ClientArrive
    <2>2. OutOfRx(m)
      BY <1>0, <1>i, <2>1 DEF OutOfRx, Single
    <2>3. m \in net \cup rx
      BY <1>0
    <2>4. PICK v, u : ClientVector(d, c, id, v, net \ {m}, tx, u)
      BY <2>1
    <2> QED
      BY <1>0, <1>k, <2>2, <2>3, <2>4, ClientVectorOInv
  <1>2. CASE m.proto = "rndv"
    <2>1. sreq' = sreq /\ net' = net \ {m} /\ rx' = rx \cup {m} /\ tx' = tx
      BY <1>2 DEF ClientArrive
    <2>2. Under' = Under /\ net' \cup rx' = net \cup rx
      BY <1>0, <2>1 DEF Under
    <2>3. Slow' = Slow
      BY <2>2 DEF Slow
    <2>4. \A e, i : Here(e, i)' = Here(e, i)
      <3>1. Kind("ctrl", net' \cup rx') = Kind("ctrl", net \cup rx)
        BY <2>2
      <3> QED
        BY <1>0, <3>1, HereKept
    <2>5. KindKept("op")
      <3>1. Kind("op", net \ {m}) = Kind("op", net) /\ Kind("op", rx \cup {m}) = Kind("op", rx)
        BY <1>0 DEF Kind
      <3> QED
        BY <2>1, <3>1 DEF KindKept
    <2>6. \A e, i : ExchangeKept(e, i)
      BY <2>4, <2>5, ExchangesKept
    <2>7. \A e, i : AnswersKept(e, i)
      BY <2>2, <2>3, AnswersAllKept
    <2>8. Forms'
      BY <1>0, <1>i, <2>1 DEF Forms, Procs
    <2>9. Single'
      BY <1>0, <1>i, <2>1, <2>2 DEF Single
    <2>10. Mail'
      <3>1. \A p \in Clients : nextId[p] \in Nat /\ nextId'[p] \in Nat /\ nextId[p] <= nextId'[p]
        BY <1>0, <1>i DEF Forms
      <3>2. \A e \in Daemons : \A i \in Nat : Full(e, i) => Full(e, i)'
        BY <2>4 DEF Full, Local
      <3>3. (\A x \in rx' : x.proto = "rndv") /\ (\A x \in tx' : x.proto # "short" /\ x.kind # "ctrl")
        BY <1>2, <1>i, <2>1 DEF Mail
      <3>4. \A x \in Under' : x \in Under
        BY <2>2
      <3> QED
        BY <1>i, <3>1, <3>2, <3>3, <3>4, MailNext
    <2>11. Others(NoPeer, 0) /\ NoPeer \notin Daemons /\ NoPeer \notin Clients
      BY <1>i, <2>1, NoneTouched, WithDaemons DEF Forms
    <2>12. \A p \in Clients : \A i \in Nat : (i < nextId[p])' <=> i < nextId[p]
      BY <1>0
    <2>13. \A x \in net' \cup rx' : x \in net \cup rx
      BY <2>2
    <2> QED
      BY <2>6, <2>7, <2>8, <2>9, <2>10, <2>11, <2>12, <2>13, OInvQuiet DEF AnswersKept
  <1> QED
    BY <1>1, <1>2

LEMMA ClientDataOInv ==
  ASSUME Complete, OInv, NEW m, ClientData(m)
  PROVE  OInv'
  <1>i. Single
    BY DEF OInv
  <1>0. m \in rx /\ m.kind = "ctrl" /\ nextId' = nextId /\ OutOfRx(m)
    BY DEF ClientData, OutOfRx
  <1>p. PICK c, d, id : c = m.src /\ d = m.dst /\ id = m.id
    OBVIOUS
  <1>k. Key(m, c, d, id) /\ m \in net \cup rx
    BY <1>0, <1>p DEF Key
  <1>1. ClientVector(d, c, id, Data(m), net, tx, used)
    BY <1>p DEF ClientData
  <1>2. net \ {m} = net
    BY <1>0, <1>i DEF Single
  <1>3. ClientVector(d, c, id, Data(m), net \ {m}, tx, used)
    BY <1>1, <1>2
  <1>4. PICK v, u : ClientVector(d, c, id, v, net \ {m}, tx, u)
    BY <1>3
  <1> QED
    BY <1>0, <1>k, <1>4, ClientVectorOInv

\* A result under way: the daemon's exchange is over; if it has not arrived the client waits.
LEMMA ResultAwaited ==
  ASSUME Complete, OInv, NEW m \in Under, m.kind = "result", NEW d, NEW c, NEW id, Key(m, d, c, id)
  PROVE  /\ c \in Clients /\ d = Home[c] /\ d \in Daemons /\ c \in Local(d) /\ id \in Nat
         /\ DOwed(d, id) = 0 /\ DaemonPair(d, id) /\ ClientPair(c, id) /\ id < nextId[c]
         /\ (m \in net \cup rx => Live(c, id)) /\ (m \in Slow => c \in Late(d, id))
  <1>1. c \in Clients /\ d = Home[c] /\ id \in Nat
    BY DEF OInv, Mail, MailOf, Key
  <1>2. d \in Daemons /\ c \in Local(d)
    BY <1>1, WithDaemons
  <1>3. DaemonPair(d, id) /\ ClientPair(c, id)
    BY <1>1, <1>2 DEF OInv
  <1>4. c \in Answers(d, id)
    BY <1>2 DEF Answers, Sends, Has, Kind
  <1>5. DOwed(d, id) = 0
    BY <1>3, <1>4 DEF DaemonPair
  <1>6. id < nextId[c]
    <2>1. Full(d, id)
      BY <1>2, <1>5, DSets
    <2> QED
      BY <1>2, <2>1 DEF Full, Here
  <1>7. ASSUME m \in net \cup rx PROVE Live(c, id)
    <2>1. Sends(net \cup rx, "result", Home[c], c, id)
      BY <1>1, <1>7 DEF Sends, Has, Kind
    <2> QED
      BY <1>3, <1>6, <2>1 DEF ClientPair
  <1>8. ASSUME m \in Slow PROVE c \in Late(d, id)
    BY <1>2, <1>8 DEF Late, Sends, Has, Kind
  <1> QED
    BY <1>1, <1>2, <1>3, <1>5, <1>6, <1>7, <1>8

\* The messages when a result moves from net or rx.
ResultMoves(m) ==
    /\ net' = net \ {m} /\ rx' \subseteq (rx \ {m}) \cup {m} /\ rx \ {m} \subseteq rx'
    /\ tx \subseteq tx' /\ tx' \subseteq tx \cup {m}
    /\ m \in rx' => m.proto = "rndv" /\ m \notin tx'
    /\ m \in tx' => m.proto # "short"
    /\ m \notin tx' => m \in rx' \/ m.proto = "short"

LEMMA ResultMoved ==
  ASSUME Complete, OInv, nextId' = nextId, NEW m \in net \cup rx, m.kind = "result", ResultMoves(m)
  PROVE  /\ Single' /\ Mail' /\ \A e, i : ExchangeKept(e, i) /\ Late(e, i)' = Late(e, i)
         /\ \A e, i : Answers(e, i)' \subseteq Answers(e, i)
         /\ \A x \in net' \cup rx' : x \in net \cup rx
  <1>i. Forms /\ Mail /\ Single
    BY DEF OInv
  <1>1. Under' \subseteq Under
    BY DEF Under, ResultMoves
  <1>2. Slow' = Slow
    <2>1. ASSUME NEW x PROVE x \in Slow' <=> x \in Slow
      BY DEF Slow, Under, ResultMoves
    <2> QED
      BY <2>1
  <1>3. /\ Kind("op", net') = Kind("op", net) /\ Kind("op", rx') = Kind("op", rx)
        /\ Kind("op", tx') = Kind("op", tx)
        /\ Kind("ctrl", net' \cup rx') = Kind("ctrl", net \cup rx)
    BY DEF Kind, ResultMoves
  <1>4. \A e, i : Here(e, i)' = Here(e, i)
    BY <1>3, HereKept
  <1>5. \A e, i : ExchangeKept(e, i)
    BY <1>3, <1>4, ExchangesKept DEF KindKept
  <1>6. \A e, i : Late(e, i)' = Late(e, i)
    <2>1. \A d, c, i : Sends(Slow, "result", d, c, i)' <=> Sends(Slow, "result", d, c, i)
      BY <1>2, SendsNext DEF Sends
    <2> QED
      BY <2>1 DEF Late, Local
  <1>7. \A e, i : Answers(e, i)' \subseteq Answers(e, i)
    <2>1. ASSUME NEW d, NEW c, NEW i, Sends(Under, "result", d, c, i)' PROVE Sends(Under, "result", d, c, i)
      <3>1. Has(Kind("result", Under'), d, c, i)
        BY <2>1, SendsNext
      <3> QED
        BY <1>1, <3>1 DEF Sends, Has, Kind
    <2> QED
      BY <2>1 DEF Answers, Local
  <1>8. Single'
    <2>1. net' \cap rx' = {} /\ net' \cap tx' = {} /\ rx' \cap tx' = {}
      BY <1>i DEF Single, ResultMoves
    <2> QED
      BY <1>1, <1>i, <2>1 DEF Single
  <1>9. Mail'
    <2>1. \A p \in Clients : nextId[p] \in Nat /\ nextId'[p] \in Nat /\ nextId[p] <= nextId'[p]
      BY <1>i DEF Forms
    <2>2. \A e \in Daemons : \A i \in Nat : Full(e, i) => Full(e, i)'
      BY <1>4 DEF Full, Local
    <2>3. (\A x \in rx' : x.proto = "rndv") /\ (\A x \in tx' : x.proto # "short" /\ x.kind # "ctrl")
      BY <1>i DEF Mail, ResultMoves
    <2>4. \A x \in Under' : x \in Under
      BY <1>1
    <2> QED
      BY <1>i, <2>1, <2>2, <2>3, <2>4, MailNext
  <1>10. \A x \in net' \cup rx' : x \in net \cup rx
    BY DEF ResultMoves
  <1> QED
    BY <1>5, <1>6, <1>7, <1>8, <1>9, <1>10

\* The client has its result.
LEMMA ReceivedOInv ==
  ASSUME Complete, OInv, nextId' = nextId, NEW m \in net \cup rx, m.kind = "result", ResultMoves(m),
         m \notin rx', sreq' = Remove(m.dst, m.id)
  PROVE  OInv'
  <1>p. PICK d, c, id : d = m.src /\ c = m.dst /\ id = m.id
    OBVIOUS
  <1>i. Forms /\ Single
    BY DEF OInv
  <1>0. m \in Under /\ Key(m, d, c, id)
    BY <1>p DEF Under, Key
  <1>1. c \in Clients /\ d = Home[c] /\ d \in Daemons /\ id \in Nat /\ DOwed(d, id) = 0
    BY <1>0, ResultAwaited
  <1>2. c \in Procs /\ c \notin Daemons /\ DOMAIN sreq = Procs
    BY <1>1, <1>i, WithDaemons DEF Forms
  <1>3. Others(c, id) /\ id \notin DOMAIN sreq'[c]
    BY <1>p, <1>2, RemoveOthers
  <1>4. /\ Single' /\ Mail' /\ \A e, i : ExchangeKept(e, i) /\ Late(e, i)' = Late(e, i)
        /\ \A e, i : Answers(e, i)' \subseteq Answers(e, i)
        /\ \A x \in net' \cup rx' : x \in net \cup rx
    BY ResultMoved
  <1>5. Forms'
    <2>1. nextId' \in [Clients -> Nat]
      BY <1>i DEF Forms
    <2> QED
      BY <1>1, <1>2, <1>3, <1>i, <2>1, StillForms
  <1>6. ClientPair(c, id)'
    <2>1. DOwed(d, id)' = 0
      BY <1>1, <1>4, OwedKept
    <2>2. ~Sends(net \cup rx, "result", d, c, id)'
      <3>1. ~Has(Kind("result", net' \cup rx'), d, c, id)
        <4>1. \A x \in net' \cup rx' : x \in Under /\ x # m
          BY <1>4 DEF Under, ResultMoves
        <4> QED
          BY <1>0, <1>i, <4>1 DEF Has, Kind, Key, Single
      <3> QED
        BY <3>1, SendsNext
    <2> QED
      BY <1>1, <1>3, <2>1, <2>2 DEF ClientPair, Live
  <1>7. \A p \in Clients : \A i \in Nat : (i < nextId[p])' <=> i < nextId[p]
    OBVIOUS
  <1> QED
    BY <1>2, <1>3, <1>4, <1>5, <1>6, <1>7, OInvQuiet

LEMMA ResultArriveOInv ==
  ASSUME Complete, OInv, NEW m, ResultArrive(m)
  PROVE  OInv'
  <1>0. m \in net /\ m.kind = "result" /\ nextId' = nextId /\ net' = net \ {m} /\ m \in net \cup rx /\ m \in Under
    BY DEF ResultArrive, Under
  <1>i. Forms /\ Single /\ Mail
    BY DEF OInv
  <1>n. m \notin rx /\ m \notin tx
    BY <1>0, <1>i DEF Single
  <1>1. CASE m.proto # "rndv"
    <2>1. Received(m, tx \cup Sent(m)) /\ rx' = rx
      BY <1>1 DEF ResultArrive
    <2>2. tx' = tx \cup Sent(m) /\ sreq' = Remove(m.dst, m.id)
      BY <2>1 DEF Received
    <2>3. ResultMoves(m) /\ m \notin rx'
      BY <1>0, <1>1, <1>n, <2>1, <2>2 DEF ResultMoves, Sent
    <2> QED
      BY <1>0, <2>2, <2>3, ReceivedOInv
  <1>2. CASE m.proto = "rndv"
    <2>1. rx' = rx \cup {m} /\ tx' = tx /\ sreq' = Put(m.dst, m.id, Get(m.dst, m.id, FALSE))
      BY <1>2 DEF ResultArrive
    <2>2. ResultMoves(m)
      BY <1>0, <1>2, <1>n, <2>1 DEF ResultMoves
    <2>p. PICK d, c, id : d = m.src /\ c = m.dst /\ id = m.id
      OBVIOUS
    <2>3. /\ c \in Clients /\ d = Home[c] /\ d \in Daemons /\ id \in Nat /\ DOwed(d, id) = 0
          /\ Live(c, id) /\ ClientPair(c, id)
      BY <1>0, <2>p, ResultAwaited DEF Key
    <2>4. c \in Procs /\ c \notin Daemons /\ DOMAIN sreq = Procs
      BY <2>3, <1>i, WithDaemons DEF Forms
    <2>5. Others(c, id) /\ id \in DOMAIN sreq'[c] /\ sreq'[c][id] = sreq[c][id]
      <3>1. sreq' = Put(c, id, sreq[c][id])
        BY <2>1, <2>p, <2>3 DEF Get
      <3> QED
        BY <2>4, <3>1, PutOthers
    <2>6. /\ Single' /\ Mail' /\ \A e, i : ExchangeKept(e, i) /\ Late(e, i)' = Late(e, i)
          /\ \A e, i : Answers(e, i)' \subseteq Answers(e, i)
          /\ \A x \in net' \cup rx' : x \in net \cup rx
      BY <1>0, <2>2, ResultMoved
    <2>7. Forms'
      <3>1. nextId' \in [Clients -> Nat]
        BY <1>0, <1>i DEF Forms
      <3> QED
        BY <1>i, <2>3, <2>4, <2>5, <3>1, StillForms
    <2>8. ClientPair(c, id)'
      <3>1. (sreq[c][id])' = sreq[c][id] /\ Live(c, id)'
        BY <2>5 DEF Live
      <3> QED
        BY <1>0, <2>3, <3>1 DEF ClientPair
    <2>9. \A p \in Clients : \A i \in Nat : (i < nextId[p])' <=> i < nextId[p]
      BY <1>0
    <2> QED
      BY <2>4, <2>5, <2>6, <2>7, <2>8, <2>9, OInvQuiet
  <1> QED
    BY <1>1, <1>2

LEMMA ResultDataOInv ==
  ASSUME Complete, OInv, NEW m, ResultData(m)
  PROVE  OInv'
  <1>0. /\ m \in rx /\ m.kind = "result" /\ nextId' = nextId /\ net' = net /\ rx' = rx \ {m}
        /\ Received(m, tx \cup {m})
    BY DEF ResultData
  <1>i. Single /\ Mail
    BY DEF OInv
  <1>1. tx' = tx \cup {m} /\ sreq' = Remove(m.dst, m.id)
    BY <1>0 DEF Received
  <1>2. ResultMoves(m) /\ m \notin rx' /\ m \in net \cup rx
    BY <1>0, <1>1, <1>i DEF ResultMoves, Single, Mail
  <1> QED
    BY <1>0, <1>1, <1>2, ReceivedOInv

-----------------------------------------------------------------------------
\* A result has been sent.
LEMMA ResultSentOInv ==
  ASSUME Complete, OInv, NEW m, ResultSent(m)
  PROVE  OInv'
  <1>p. PICK d, c, id : d = m.src /\ c = m.dst /\ id = m.id
    OBVIOUS
  <1>i. Forms /\ Single /\ Mail
    BY DEF OInv
  <1>0. /\ m \in tx /\ m.kind = "result" /\ nextId' = nextId /\ net' = net /\ rx' = rx /\ tx' = tx \ {m}
        /\ m \in Under /\ m \in Slow /\ Key(m, d, c, id)
    BY <1>i, <1>p DEF ResultSent, Under, Slow, Mail, Key
  <1>1. /\ c \in Clients /\ d = Home[c] /\ d \in Daemons /\ c \in Local(d) /\ id \in Nat
        /\ DOwed(d, id) = 0 /\ DaemonPair(d, id) /\ c \in Late(d, id)
    BY <1>0, ResultAwaited
  <1>2. Live(d, id) /\ Delivers(d, id, sreq[d][id])
    BY <1>1 DEF DaemonPair
  <1>3. d \in Procs /\ d \notin Clients /\ DOMAIN sreq = Procs /\ Clients \subseteq Procs /\ Daemons \subseteq Procs
    BY <1>1, <1>i, WithDaemons DEF Forms
  <1>4. /\ Under' = Under \ {m} /\ Slow' = Slow \ {m}
    <2>1. Under' = Under \ {m}
      BY <1>0, <1>i DEF Under, Single
    <2> QED
      BY <2>1 DEF Slow
  <1>5. \A e, i : Here(e, i)' = Here(e, i)
    BY <1>0, HereKept
  <1>6. \A e, i : ExchangeKept(e, i)
    <2>1. Kind("op", tx') = Kind("op", tx)
      BY <1>0 DEF Kind
    <2> QED
      BY <1>0, <1>5, <2>1, ExchangesKept DEF KindKept
  <1>7. \A a, b, i : /\ Sends(Slow, "result", a, b, i)' <=> Sends(Slow, "result", a, b, i) /\ ~Key(m, a, b, i)
                     /\ Sends(Under, "result", a, b, i)' <=> Sends(Under, "result", a, b, i) /\ ~Key(m, a, b, i)
    <2>1. Kind("result", Slow') = Kind("result", Slow) \ {m} /\ Kind("result", Under') = Kind("result", Under) \ {m}
      BY <1>0, <1>4 DEF Kind
    <2>2. Slow \in SUBSET Under /\ Under \in SUBSET Under
      BY DEF Slow
    <2>3. ASSUME NEW a, NEW b, NEW i
          PROVE  /\ Has(Kind("result", Slow) \ {m}, a, b, i) <=> Sends(Slow, "result", a, b, i) /\ ~Key(m, a, b, i)
                 /\ Has(Kind("result", Under) \ {m}, a, b, i) <=> Sends(Under, "result", a, b, i) /\ ~Key(m, a, b, i)
      BY <1>0, <1>i, <2>2, KindLess
    <2> QED
      BY <2>1, <2>3, SendsNext
  <1>8. \A a, b, i : Key(m, a, b, i) <=> (a = d /\ b = c /\ i = id)
    BY <1>p DEF Key
  <1>9. Late(d, id)' = Late(d, id) \ {c}
    <2>1. ASSUME NEW b PROVE b \in Late(d, id)' <=> b \in Late(d, id) \ {c}
      BY <1>7, <1>8 DEF Late, Local
    <2> QED
      BY <2>1
  <1>10. \A e, i : (e # d \/ i # id) => AnswersKept(e, i)
    <2>1. ASSUME NEW e, NEW i, e # d \/ i # id
          PROVE  \A b : /\ Sends(Slow, "result", e, b, i)' <=> Sends(Slow, "result", e, b, i)
                        /\ Sends(Under, "result", e, b, i)' <=> Sends(Under, "result", e, b, i)
      BY <1>7, <1>8, <2>1
    <2> QED
      BY <2>1 DEF AnswersKept, Answers, Late, Local
  <1>11. DOwed(d, id)' = 0
    BY <1>1, <1>6, OwedKept
  <1>12. /\ Cardinality(Late(d, id)') = Cardinality(Late(d, id)) - 1 /\ Cardinality(Late(d, id)) \in Nat
         /\ Late(d, id)' = {} <=> Cardinality(Late(d, id)) = 1
    <2>1. IsFiniteSet(Late(d, id))
      <3>1. Late(d, id) \subseteq Local(d) /\ IsFiniteSet(Local(d))
        BY WithDaemons DEF Late
      <3> QED
        BY <3>1, FS_Subset
    <2>2. Cardinality(Late(d, id) \ {c}) = Cardinality(Late(d, id)) - 1 /\ IsFiniteSet(Late(d, id) \ {c})
      BY <1>1, <2>1, FS_RemoveElement
    <2>3. Cardinality(Late(d, id) \ {c}) = 0 <=> Late(d, id) \ {c} = {}
      BY <2>2, FS_EmptySet
    <2> QED
      BY <1>9, <2>1, <2>2, <2>3, FS_CardinalityType
  <1>s. PICK sr : sr = sreq[d][id]
    OBVIOUS
  <1>13. Others(d, id) /\ DaemonPair(d, id)'
    <2>1. CASE sr.nreq = 1
      <3>1. sreq' = Remove(d, id)
        BY <1>p, <1>s, <2>1 DEF ResultSent
      <3>2. Others(d, id) /\ id \notin DOMAIN sreq'[d]
        BY <1>3, <3>1, RemoveOthers
      <3>3. Late(d, id)' = {}
        BY <1>2, <1>s, <1>12, <2>1 DEF Delivers
      <3> QED
        BY <1>11, <3>2, <3>3 DEF DaemonPair, Live
    <2>2. CASE sr.nreq # 1
      <3>1. sreq' = Put(d, id, [sr EXCEPT !.nreq = @ - 1])
        BY <1>p, <1>s, <2>2 DEF ResultSent
      <3>2. Others(d, id) /\ id \in DOMAIN sreq'[d] /\ sreq'[d][id] = [sr EXCEPT !.nreq = @ - 1]
        BY <1>3, <3>1, PutOthers
      <3>3. /\ DOMAIN sr = Fields /\ sr.ops = 0 /\ sr.first = NoPeer /\ sr.others = {}
            /\ sr.list = {} /\ sr.set /\ sr.nreq = Cardinality(Late(d, id))
        BY <1>2, <1>s DEF Delivers
      <3>4. /\ DOMAIN sreq'[d][id] = Fields /\ sreq'[d][id].ops = 0 /\ sreq'[d][id].first = NoPeer
            /\ sreq'[d][id].others = {} /\ sreq'[d][id].list = {} /\ sreq'[d][id].set = sr.set
            /\ sreq'[d][id].nreq = sr.nreq - 1
        BY <3>2, <3>3 DEF Fields
      <3>5. Late(d, id)' # {} /\ sreq'[d][id].nreq = Cardinality(Late(d, id)')
        BY <1>12, <2>2, <3>3, <3>4
      <3>6. Delivers(d, id, sreq[d][id])'
        BY <3>3, <3>4, <3>5 DEF Delivers
      <3> QED
        BY <1>11, <3>2, <3>6 DEF DaemonPair, Live
    <2> QED
      BY <2>1, <2>2
  <1>14. Forms'
    <2>1. nextId' \in [Clients -> Nat]
      BY <1>0, <1>i DEF Forms
    <2> QED
      BY <1>1, <1>3, <1>13, <1>i, <2>1, StillForms
  <1>15. Single'
    BY <1>0, <1>4, <1>i DEF Single
  <1>16. Mail'
    <2>1. \A p \in Clients : nextId[p] \in Nat /\ nextId'[p] \in Nat /\ nextId[p] <= nextId'[p]
      BY <1>0, <1>i DEF Forms
    <2>2. \A e \in Daemons : \A i \in Nat : Full(e, i) => Full(e, i)'
      BY <1>5 DEF Full, Local
    <2>3. (\A x \in rx' : x.proto = "rndv") /\ (\A x \in tx' : x.proto # "short" /\ x.kind # "ctrl")
      BY <1>0, <1>i DEF Mail
    <2>4. \A x \in Under' : x \in Under
      BY <1>4
    <2> QED
      BY <1>i, <2>1, <2>2, <2>3, <2>4, MailNext
  <1>17. ASSUME NEW e \in Daemons, NEW i \in Nat PROVE DaemonPair(e, i)'
    <2>1. CASE e = d /\ i = id
      BY <1>13, <2>1
    <2>2. CASE e # d \/ i # id
      <3>1. (Live(e, i)' <=> Live(e, i)) /\ (Live(e, i) => sreq'[e][i] = sreq[e][i])
        BY <1>3, <1>13, <2>2 DEF Others, Live
      <3>2. DaemonPair(e, i) /\ ExchangeKept(e, i) /\ AnswersKept(e, i)
        BY <1>6, <1>10, <2>2 DEF OInv
      <3> QED
        BY <3>1, <3>2, DaemonPairKept
    <2> QED
      BY <2>1, <2>2
  <1>18. ASSUME NEW b \in Clients, NEW i \in Nat PROVE ClientPair(b, i)'
    <2>1. ClientPair(b, i) /\ ExchangeKept(Home[b], i) /\ sreq'[b] = sreq[b]
      BY <1>3, <1>6, <1>13 DEF OInv, Others
    <2>2. Sends(net \cup rx, "result", Home[b], b, i)' => Sends(net \cup rx, "result", Home[b], b, i)
      <3>1. Kind("result", net' \cup rx') = Kind("result", net \cup rx)
        BY <1>0
      <3> QED
        BY <3>1, SendsNext DEF Sends
    <2>3. (Live(b, i)' <=> Live(b, i)) /\ (Live(b, i) => sreq'[b][i] = sreq[b][i])
      BY <2>1 DEF Live
    <2>4. (i < nextId[b])' <=> i < nextId[b]
      BY <1>0
    <2> QED
      BY <2>1, <2>2, <2>3, <2>4, ClientPairKept
  <1> QED
    BY <1>14, <1>15, <1>16, <1>17, <1>18 DEF OInv

LEMMA ExchangesStay ==
  ASSUME \A d : \A i \in Nat : Here(d, i)' = Here(d, i), KindKept("op")
  PROVE  \A d : \A i \in Nat : ExchangeKept(d, i)
  <1>0. Kind("op", Slow') = Kind("op", Slow)
    BY KindKeptAll
  <1>1. \A d, e, i : /\ Sends(net, "op", d, e, i)' <=> Sends(net, "op", d, e, i)
                     /\ Sends(rx, "op", d, e, i)' <=> Sends(rx, "op", d, e, i)
                     /\ Sends(Slow, "op", d, e, i)' <=> Sends(Slow, "op", d, e, i)
    BY <1>0, SendsNext DEF Sends, KindKept
  <1>2. \A d : \A i \in Nat : Full(d, i)' = Full(d, i)
    BY DEF Full, Local
  <1>3. \A d : \A i \in Nat : DHeads(d, i)' = DHeads(d, i)
    BY <1>1, <1>2 DEF DHeads, Dests
  <1>4. \A d, i : DComing(d, i)' = DComing(d, i) /\ DTo(d, i)' = DTo(d, i)
    BY <1>1 DEF DComing, DTo, Dests
  <1> QED
    BY <1>3, <1>4 DEF ExchangeKept

LEMMA SubmitOperationOInv ==
  ASSUME Complete, OInv, NEW c \in Clients, SubmitOperation(c)
  PROVE  OInv'
  <1>i. Forms /\ Single /\ Mail
    BY DEF OInv
  <1>p. PICK id : id = nextId[c]
    OBVIOUS
  <1>0. /\ id \in Nat /\ c \in Procs /\ c \notin Daemons /\ DOMAIN sreq = Procs
        /\ Home[c] \in Daemons /\ c \in Local(Home[c])
    BY <1>p, <1>i, WithDaemons DEF Forms
  <1>q. PICK proto \in Protocols :
           /\ nextId' = [nextId EXCEPT ![c] = @ + 1]
           /\ net' = net \cup {Msg("ctrl", c, Home[c], nextId[c], proto, vec[c][Slot(nextId[c])])}
           /\ sreq' = Put(c, nextId[c], Adopt(Get(c, nextId[c], TRUE)))
           /\ tx' = tx /\ rx' = rx
    BY WithDaemons DEF SubmitOperation
  <1>m. PICK m : m = Msg("ctrl", c, Home[c], id, proto, vec[c][Slot(id)])
    OBVIOUS
  <1>1. m.kind = "ctrl" /\ m.src = c /\ m.dst = Home[c] /\ m.id = id
    BY <1>m DEF Msg
  <1>2. net' = net \cup {m} /\ tx' = tx /\ rx' = rx /\ sreq' = Put(c, id, Adopt(Get(c, id, TRUE)))
    BY <1>m, <1>p, <1>q
  <1>3. nextId' \in [Clients -> Nat] /\ nextId'[c] = id + 1 /\ \A p \in Clients : p # c => nextId'[p] = nextId[p]
    BY <1>p, <1>q, <1>i DEF Forms
  <1>4. ~Live(c, id)
    <2>1. ClientPair(c, id)
      BY <1>0 DEF OInv
    <2> QED
      BY <1>0, <1>p, <2>1 DEF ClientPair
  <1>5. Others(c, id) /\ id \in DOMAIN sreq'[c] /\ sreq'[c][id] = Allocate(c, TRUE)
    <2>1. Adopt(Get(c, id, TRUE)) = Allocate(c, TRUE)
      BY <1>4 DEF Adopt, Get, Allocate
    <2>2. sreq' = Put(c, id, Allocate(c, TRUE))
      BY <1>2, <2>1
    <2> QED
      BY <1>0, <2>2, PutOthers
  <1>6. \A y \in Under : ~(y.kind = "ctrl" /\ y.src = c /\ y.id = id)
    <2>1. ASSUME NEW y \in Under, y.kind = "ctrl", y.src = c, y.id = id PROVE FALSE
      <3>1. MailOf(y)
        BY <1>i DEF Mail
      <3>2. id < nextId[c]
        BY <2>1, <3>1 DEF MailOf
      <3> QED
        BY <1>0, <1>p, <3>2
    <2> QED
      BY <2>1
  <1>7. /\ KindKept("op") /\ Kind("result", Under') = Kind("result", Under)
        /\ Kind("result", Slow') = Kind("result", Slow)
    <2>1. \A k : k # "ctrl" => Kind(k, net') = Kind(k, net)
      BY <1>1, <1>2 DEF Kind
    <2>2. KindKept("op") /\ KindKept("result")
      BY <1>2, <2>1 DEF KindKept
    <2> QED
      BY <2>2, KindKeptAll
  <1>8. ASSUME NEW d, NEW i \in Nat PROVE Here(d, i)' = Here(d, i)
    <2>1. \A p, q, j : Sends(net \cup rx, "ctrl", p, q, j)'
                         <=> Sends(net \cup rx, "ctrl", p, q, j) \/ (p = c /\ q = Home[c] /\ j = id)
      <3>1. Kind("ctrl", net' \cup rx') = Kind("ctrl", net \cup rx) \cup {m}
        BY <1>1, <1>2 DEF Kind
      <3>2. ASSUME NEW p, NEW q, NEW j
            PROVE  Has(Kind("ctrl", net' \cup rx'), p, q, j)
                     <=> Has(Kind("ctrl", net \cup rx), p, q, j) \/ (p = c /\ q = Home[c] /\ j = id)
        BY <1>1, <3>1 DEF Has, Key
      <3> QED
        BY <3>2, SendsNext DEF Sends
    <2>2. ASSUME NEW p \in Local(d)
          PROVE  (i < nextId'[p] /\ ~Sends(net \cup rx, "ctrl", p, d, i)')
                   <=> (i < nextId[p] /\ ~Sends(net \cup rx, "ctrl", p, d, i))
      <3>1. p \in Clients /\ d = Home[p]
        BY DEF Local
      <3>2. CASE p # c
        <4>1. nextId'[p] = nextId[p]
          BY <1>3, <3>1, <3>2
        <4>2. Sends(net \cup rx, "ctrl", p, d, i)' <=> Sends(net \cup rx, "ctrl", p, d, i)
          BY <2>1, <3>2
        <4> QED
          BY <4>1, <4>2
      <3>3. CASE p = c /\ i = id
        <4>1. ~(id < nextId[c])
          BY <1>0, <1>p
        <4> QED
          BY <2>1, <3>1, <3>3, <4>1
      <3>4. CASE p = c /\ i # id
        <4>1. i < id + 1 <=> i < id
          BY <1>0, <3>4
        <4> QED
          BY <1>3, <1>p, <2>1, <3>4, <4>1
      <3> QED
        BY <3>2, <3>3, <3>4
    <2> QED
      BY <2>2 DEF Here, Local
  <1>9. \A d : \A i \in Nat : ExchangeKept(d, i)
    BY <1>7, <1>8, ExchangesStay
  <1>10. \A d, i : AnswersKept(d, i)
    BY <1>7, AnswersAllKept
  <1>11. Forms'
    BY <1>0, <1>3, <1>5, <1>i, StillForms
  <1>12. Single'
    <2>0. m \notin Under
      BY <1>1, <1>6
    <2>1. Under' \subseteq Under \cup {m} /\ m \notin Under
      BY <1>2, <2>0 DEF Under
    <2>2. net' \cap rx' = {} /\ net' \cap tx' = {} /\ rx' \cap tx' = {}
      BY <1>2, <1>i, <2>1 DEF Single, Under
    <2>3. Single'
      <3>1. PICK N : N = {m}
        OBVIOUS
      <3>2. Under' \subseteq Under \cup N
        BY <2>1, <3>1
      <3>3. \A x, y \in N : (x.kind = y.kind /\ x.src = y.src /\ x.dst = y.dst /\ x.id = y.id) => x = y
        BY <3>1
      <3>4. \A x \in N : \A y \in Under :
               ~(x.kind = y.kind /\ x.src = y.src /\ x.dst = y.dst /\ x.id = y.id)
        BY <1>1, <1>6, <3>1
      <3> QED
        BY <1>i, <2>2, <3>2, <3>3, <3>4, SingleNext
    <2> QED
      BY <2>3
  <1>13. Mail'
    <2>1. \A p \in Clients : nextId[p] \in Nat /\ nextId'[p] \in Nat /\ nextId[p] <= nextId'[p]
      BY <1>3, <1>i, <1>p, <1>0 DEF Forms
    <2>2. \A e \in Daemons : \A i \in Nat : Full(e, i) => Full(e, i)'
      BY <1>8 DEF Full, Local
    <2>3. (\A x \in rx' : x.proto = "rndv") /\ (\A x \in tx' : x.proto # "short" /\ x.kind # "ctrl")
      BY <1>2, <1>i DEF Mail
    <2>4. MailOf(m)'
      BY <1>0, <1>1, <1>3 DEF MailOf
    <2>5. \A x \in Under' : x \in Under \/ MailOf(x)'
      BY <1>2, <2>4 DEF Under
    <2> QED
      BY <1>i, <2>1, <2>2, <2>3, <2>5, MailNext
  <1>14. ClientPair(c, id)'
    <2>1. /\ DOMAIN sreq'[c][id] = Fields /\ sreq'[c][id].set /\ ~sreq'[c][id].owner
          /\ sreq'[c][id].first = NoPeer /\ sreq'[c][id].others = {}
      <3>1. /\ DOMAIN Allocate(c, TRUE) = Fields /\ Allocate(c, TRUE).set /\ ~Allocate(c, TRUE).owner
            /\ Allocate(c, TRUE).first = NoPeer /\ Allocate(c, TRUE).others = {}
        BY DEF Allocate, Fields
      <3> QED
        BY <1>5, <3>1
    <2>2. id < nextId'[c]
      BY <1>0, <1>3
    <2> QED
      BY <1>5, <2>1, <2>2 DEF ClientPair, Live
  <1>15. \A p \in Clients : \A i \in Nat : (p # c \/ i # id) => ((i < nextId[p])' <=> i < nextId[p])
    BY <1>0, <1>3, <1>p
  <1>16. \A x \in net' \cup rx' : x.kind = "result" => x \in net \cup rx
    BY <1>1, <1>2
  <1> QED
    BY <1>0, <1>5, <1>9, <1>10, <1>11, <1>12, <1>13, <1>14, <1>15, <1>16, OInvQuiet DEF AnswersKept

LEMMA InitOInv == ASSUME Complete, Init PROVE OInv
  <1>0. net = {} /\ rx = {} /\ tx = {} /\ Under = {} /\ Slow = {}
    BY DEF Init, Under, Slow
  <1>1. \A c \in Clients : nextId[c] = 0
    BY DEF Init
  <1>2. Forms
    BY DEF Init, Forms
  <1>3. Mail /\ Single
    BY <1>0 DEF Mail, Single
  <1>4. \A p \in Procs : \A i : ~Live(p, i)
    BY DEF Init, Live
  <1>5. ASSUME NEW d, NEW i \in Nat PROVE Here(d, i) = {}
    BY <1>1 DEF Here, Local
  <1>6. \A d \in Daemons : \A i \in Nat : ~Full(d, i)
    BY <1>5, WithDaemons DEF Full
  <1>7. ASSUME NEW d \in Daemons, NEW i \in Nat PROVE DaemonPair(d, i)
    <2>1. DHeads(d, i) = {}
      BY <1>6, WithDaemons DEF DHeads
    <2>2. Answers(d, i) = {} /\ Late(d, i) = {}
      BY <1>0 DEF Answers, Late, Sends, Has, Kind
    <2>3. d \in Procs
      BY WithDaemons
    <2> QED
      BY <1>4, <1>5, <2>1, <2>2, <2>3 DEF DaemonPair
  <1>8. ASSUME NEW c \in Clients, NEW i \in Nat PROVE ClientPair(c, i)
    <2>1. c \in Procs /\ ~(i < nextId[c])
      BY <1>1, WithDaemons
    <2> QED
      BY <1>4, <2>1 DEF ClientPair
  <1> QED
    BY <1>2, <1>3, <1>7, <1>8 DEF OInv

LEMMA NextOInv == ASSUME Complete, OInv, [Next]_vars PROVE OInv'
  <1>1. ASSUME NEW c \in Clients, SubmitOperation(c) PROVE OInv'
    BY <1>1, SubmitOperationOInv
  <1>2. ASSUME NEW c \in Clients, NextBatch(c) PROVE OInv'
    BY <1>2, UnchangedOInv DEF NextBatch
  <1>3. ASSUME NEW m, GatherArrive(m) PROVE OInv'
    BY <1>3, GatherArriveOInv
  <1>4. ASSUME NEW m, ClientArrive(m) PROVE OInv'
    BY <1>4, ClientArriveOInv
  <1>5. ASSUME NEW m, ResultArrive(m) PROVE OInv'
    BY <1>5, ResultArriveOInv
  <1>6. ASSUME NEW m, GatherData(m) PROVE OInv'
    BY <1>6, GatherDataOInv
  <1>7. ASSUME NEW m, ClientData(m) PROVE OInv'
    BY <1>7, ClientDataOInv
  <1>8. ASSUME NEW m, ResultData(m) PROVE OInv'
    BY <1>8, ResultDataOInv
  <1>9. ASSUME NEW m, ScatterSent(m) PROVE OInv'
    BY <1>9, ScatterSentOInv
  <1>10. ASSUME NEW m, ResultSent(m) PROVE OInv'
    BY <1>10, ResultSentOInv
  <1>11. ASSUME UNCHANGED vars PROVE OInv'
    BY <1>11, UnchangedOInv DEF vars
  <1>12. CASE Step
    BY <1>1, <1>2, <1>3, <1>4, <1>5, <1>6, <1>7, <1>8, <1>9, <1>10, <1>12 DEF Step
  <1>13. CASE Finished \/ UNCHANGED vars
    BY <1>11, <1>13 DEF Finished
  <1> QED
    BY <1>12, <1>13 DEF Next

LEMMA SpecOInv == ASSUME Complete PROVE Spec => []OInv
  <1>1. Init => OInv
    BY InitOInv
  <1>2. OInv /\ [Next]_vars => OInv'
    BY NextOInv
  <1> QED
    BY <1>1, <1>2, PTL DEF Spec

LEMMA OTargetsLive == ASSUME Complete, OInv PROVE CallbackTargets
  <1>1. ASSUME NEW m \in ByReference \cup tx PROVE Live(m.src, m.id)
    <2>p. PICK s, t, id : s = m.src /\ t = m.dst /\ id = m.id
      OBVIOUS
    <2>1. m \in Slow /\ m \in Under /\ Key(m, s, t, id) /\ MailOf(m)
      BY <2>p DEF ByReference, Slow, Under, OInv, Mail, Key
    <2>2. CASE m.kind = "op"
      <3>1. Live(s, id)
        BY <2>1, <2>2, SendAwaited
      <3> QED
        BY <2>p, <3>1
    <2>3. CASE m.kind = "result"
      <3>1. s \in Daemons /\ DaemonPair(s, id) /\ DOwed(s, id) = 0 /\ t \in Late(s, id)
        BY <2>1, <2>3, ResultAwaited
      <3>2. Live(s, id)
        BY <3>1 DEF DaemonPair
      <3> QED
        BY <2>p, <3>2
    <2>4. CASE m.kind = "ctrl"
      <3>1. s \in Clients /\ t = Home[s] /\ id < nextId[s] /\ id \in Nat /\ m \in net \cup rx
        BY <2>1, <2>4, <2>p DEF MailOf, OInv, Mail, Under
      <3>2. t \in Daemons /\ s \in Local(t)
        BY <3>1, WithDaemons
      <3>3. s \notin Here(t, id)
        <4>1. Sends(net \cup rx, "ctrl", s, t, id)
          BY <2>1, <2>4, <3>1 DEF Sends, Has, Kind
        <4> QED
          BY <4>1 DEF Here
      <3>4. DOwed(t, id) # 0
        BY <3>2, <3>3, DSets DEF Full
      <3>5. Live(s, id)
        BY <3>1, <3>4 DEF OInv, ClientPair
      <3> QED
        BY <2>p, <3>5
    <2> QED
      BY <2>1, <2>2, <2>3, <2>4 DEF MailOf
  <1>2. ASSUME NEW m \in rx, m.kind = "op" PROVE Live(m.dst, m.id)
    <2>p. PICK s, t, id : s = m.src /\ t = m.dst /\ id = m.id
      OBVIOUS
    <2>1. Live(t, id)
      BY <1>2, <2>p, OpAwaited DEF Key
    <2> QED
      BY <2>p, <2>1
  <1>3. ASSUME NEW m \in net \cup rx, m.kind = "result"
        PROVE  Live(m.dst, m.id) /\ sreq[m.dst][m.id].set
    <2>p. PICK s, t, id : s = m.src /\ t = m.dst /\ id = m.id
      OBVIOUS
    <2>0. m \in Under /\ Key(m, s, t, id)
      BY <1>3, <2>p DEF Under, Key
    <2>1. Live(t, id) /\ ClientPair(t, id)
      BY <1>3, <2>0, ResultAwaited
    <2>2. sreq[t][id].set
      BY <2>1 DEF ClientPair
    <2> QED
      BY <2>p, <2>1, <2>2
  <1> QED
    BY <1>1, <1>2, <1>3 DEF CallbackTargets

\* A daemon's sends of an operation are as many as the daemons it still owes.
LEMMA DPendingSendsCount ==
  ASSUME Complete, OInv, NEW d \in Daemons, NEW id \in Nat
  PROVE  Cardinality(PendingSends(d, id)) = Cardinality(DTo(d, id))
  <1> DEFINE P == PendingSends(d, id)
             f == [m \in P |-> m.dst]
  <1>1. \A m \in P : m \in Slow /\ m \in Under /\ m.kind = "op" /\ m.src = d /\ m.id = id
    BY DEF PendingSends, Slow, Under
  <1>2. \A m \in Slow : (m.kind = "op" /\ m.src = d /\ m.id = id) => m \in P
    BY DEF PendingSends, Slow, Under
  <1> HIDE DEF P
  <1>3. ASSUME NEW m \in P PROVE m.dst \in DTo(d, id)
    <2>1. m.dst \in Dests(d)
      BY <1>1 DEF OInv, Mail, MailOf
    <2>2. Sends(Slow, "op", d, m.dst, id)
      BY <1>1 DEF Sends, Has, Kind, Key
    <2> QED
      BY <2>1, <2>2 DEF DTo
  <1>4. \A m, n \in P : f[m] = f[n] => m = n
    BY <1>1 DEF OInv, Single
  <1>5. ASSUME NEW q \in DTo(d, id) PROVE \E m \in P : f[m] = q
    <2>1. PICK m \in Slow : m.kind = "op" /\ m.src = d /\ m.dst = q /\ m.id = id
      BY DEF DTo, Sends, Has, Kind, Key
    <2> QED
      BY <1>2, <2>1
  <1>6. f \in [P -> DTo(d, id)]
    BY <1>3
  <1> HIDE DEF f
  <1>7. f \in Injection(P, DTo(d, id))
    BY <1>4, <1>6 DEF Injection, IsInjective
  <1>8. f \in Surjection(P, DTo(d, id))
    BY <1>5, <1>6 DEF Surjection
  <1>9. IsFiniteSet(DTo(d, id))
    BY DSets, FS_Subset
  <1>10. Cardinality(P) = Cardinality(DTo(d, id))
    BY <1>7, <1>8, <1>9, FS_Injection
  <1> QED
    BY <1>10 DEF P

LEMMA OCountsOwed == ASSUME Complete, OInv PROVE OperationCount
  <1>1. Peers = Daemons
    BY WithDaemons
  <1>2. ASSUME NEW p \in Daemons, NEW id \in DOMAIN sreq[p], sreq[p][id].ops # 0
        PROVE  sreq[p][id].ops =
                 (IF Scattered(p, id) THEN Cardinality(PendingSends(p, id))
                                      ELSE Cardinality(Dests(p)) + 1)
                 + Cardinality(Dests(p)) - Cardinality(Seen(p, id) \ Incoming(p, id))
    <2>0. p \notin Clients /\ p \in Procs
      BY WithDaemons
    <2>1. id \in Nat /\ Live(p, id)
      BY <2>0 DEF OInv, Forms, Live
    <2>2. DaemonPair(p, id)
      BY <2>1 DEF OInv
    <2>3. Exchanges(p, id, sreq[p][id])
      BY <1>2, <2>1, <2>2 DEF DaemonPair, Delivers
    <2>4. /\ sreq[p][id].ops = DOwed(p, id) /\ SeenBy(sreq[p][id]) = DHeads(p, id)
          /\ sreq[p][id].nreq = Cardinality(Here(p, id))
      BY <2>3 DEF Exchanges
    <2>5. Scattered(p, id) <=> Full(p, id)
      <3>1. IsFiniteSet(Local(p)) /\ Here(p, id) \subseteq Local(p) /\ NumClients[p] = Cardinality(Local(p))
        BY WithDaemons DEF Here
      <3>2. /\ Cardinality(Here(p, id)) <= Cardinality(Local(p)) /\ Cardinality(Local(p)) \in Nat
            /\ Cardinality(Here(p, id)) = Cardinality(Local(p)) => Here(p, id) = Local(p)
            /\ Cardinality(Here(p, id)) \in Nat
        BY <3>1, FS_Subset, FS_CardinalityType
      <3>3. Scattered(p, id) <=> Cardinality(Here(p, id)) >= Cardinality(Local(p))
        BY <2>0, <2>4, <3>1 DEF Scattered
      <3>4. ASSUME Full(p, id) PROVE Scattered(p, id)
        BY <3>2, <3>3, <3>4 DEF Full
      <3>5. ASSUME Scattered(p, id) PROVE Full(p, id)
        BY <3>2, <3>3, <3>5 DEF Full
      <3> QED
        BY <3>4, <3>5
    <2>6. Seen(p, id) = DHeads(p, id)
      BY <2>4 DEF Seen, SeenBy
    <2>7. Incoming(p, id) = DComing(p, id)
      <3>1. ASSUME NEW q
            PROVE  Sends(rx, "op", q, p, id) <=> \E m \in rx : m.kind = "op" /\ m.src = q /\ m.dst = p /\ m.id = id
        BY DEF Sends, Has, Kind, Key
      <3> QED
        BY <3>1 DEF Incoming, DComing
    <2>8. Seen(p, id) \ Incoming(p, id) = DGot(p, id)
      BY <2>6, <2>7 DEF DGot
    <2>9. Cardinality(PendingSends(p, id)) = Cardinality(DTo(p, id))
      BY <2>1, DPendingSendsCount
    <2>10. CASE Full(p, id)
      BY <2>4, <2>5, <2>8, <2>9, <2>10 DEF DOwed, LeftAfter
    <2>11. CASE ~Full(p, id)
      BY <2>4, <2>5, <2>8, <2>11 DEF DOwed, LeftBefore
    <2> QED
      BY <2>10, <2>11
  <1> QED
    BY <1>1, <1>2 DEF OperationCount

-----------------------------------------------------------------------------
(***************************************************************************)
(* The pools with daemons.  A daemon's super request owns its result       *)
(* vector, the first client's; the vector of a client whose data is still  *)
(* to come belongs to no super request (Held).                             *)
(***************************************************************************)
ORecord(p, sr) ==
    /\ DOMAIN sr = Fields
    /\ sr.first \in Daemons \cup {NoPeer} /\ sr.others \in SUBSET Daemons
    /\ sr.first \notin sr.others
    /\ p \in Daemons => sr.owner
ORecords ==
    \A p \in Procs : /\ IsFiniteSet(DOMAIN sreq[p])
                     /\ \A id \in DOMAIN sreq[p] : ORecord(p, sreq[p][id])

Sum(p) == Total(Weights(p), DOMAIN sreq[p])
Held(p) == {m \in rx : m.kind = "ctrl" /\ m.dst = p}
OAccounts ==
    /\ used \in [Procs -> Int] /\ IsFiniteSet(rx)
    /\ \A p \in Procs : used[p] = Sum(p) + Cardinality(Held(p))

LEMMA OWeightIs ==
  ASSUME NEW p, NEW sr, ORecord(p, sr)
  PROVE  /\ Weight(sr) \in Nat /\ Vectors(sr) \in Nat
         /\ IsFiniteSet(sr.others) /\ Cardinality(sr.others) \in Nat
  <1>1. IsFiniteSet(sr.others) /\ Cardinality(sr.others) \in Nat
    BY AllreduceAssumption, FS_Subset, FS_CardinalityType DEF ORecord
  <1>2. Vectors(sr) \in Nat
    BY DEF Vectors
  <1> QED
    BY <1>1, <1>2 DEF Weight

LEMMA OWeightsAre ==
  ASSUME ORecords, NEW p \in Procs
  PROVE  /\ IsFiniteSet(DOMAIN sreq[p]) /\ Sum(p) \in Nat
         /\ \A i \in DOMAIN sreq[p] : Weights(p)[i] = Weight(sreq[p][i]) /\ Weights(p)[i] \in Nat
         /\ \A i : WeightAt(p, i) \in Nat
  <1>1. \A i \in DOMAIN sreq[p] : Weight(sreq[p][i]) \in Nat
    BY OWeightIs DEF ORecords
  <1>2. IsFiniteSet(DOMAIN sreq[p])
    BY DEF ORecords
  <1>3. \A i \in DOMAIN sreq[p] : Weights(p)[i] = Weight(sreq[p][i]) /\ Weights(p)[i] \in Nat
    BY <1>1 DEF Weights
  <1>4. Total(Weights(p), DOMAIN sreq[p]) \in Nat
    BY <1>2, <1>3, PairsFinite
  <1> QED
    BY <1>1, <1>2, <1>3, <1>4 DEF Sum, WeightAt, Live

\* The sums of p have changed by k, those of no other.
SumBy(p, k) == Sum(p)' = Sum(p) + k /\ \A q \in Procs : q # p => Sum(q)' = Sum(q)

LEMMA SumElsewhere ==
  ASSUME NEW p, \A q \in Procs : q # p => sreq'[q] = sreq[q]
  PROVE  \A q \in Procs : q # p => Sum(q)' = Sum(q)
  <1>1. ASSUME NEW q \in Procs, q # p PROVE Sum(q)' = Sum(q)
    <2>1. sreq'[q] = sreq[q]
      BY <1>1
    <2> QED
      BY <2>1 DEF Sum, Weights, Weight, Vectors, Total
  <1> QED
    BY <1>1

LEMMA PutSum ==
  ASSUME ORecords, DOMAIN sreq = Procs, NEW p \in Procs, NEW id, NEW r, ORecord(p, r), sreq' = Put(p, id, r)
  PROVE  ORecords' /\ SumBy(p, Weight(r) - WeightAt(p, id))
  <1>1. /\ DOMAIN sreq'[p] = DOMAIN sreq[p] \cup {id} /\ sreq'[p][id] = r
        /\ \A i \in DOMAIN sreq[p] : i # id => sreq'[p][i] = sreq[p][i]
    BY DEF Put
  <1>2. \A q \in Procs : q # p => sreq'[q] = sreq[q]
    BY DEF Put
  <1>3. ORecords'
    <2>1. ASSUME NEW q \in Procs, NEW i \in DOMAIN sreq'[q] PROVE ORecord(q, sreq'[q][i])
      BY <1>1, <1>2, <2>1 DEF ORecords
    <2>2. ASSUME NEW q \in Procs PROVE IsFiniteSet(DOMAIN sreq'[q])
      <3>1. CASE q = p
        BY <1>1, <3>1, FS_AddElement DEF ORecords
      <3>2. CASE q # p
        BY <1>2, <3>2 DEF ORecords
      <3> QED
        BY <3>1, <3>2
    <2>3. Procs' = Procs
      BY DEF Procs
    <2> QED
      BY <2>1, <2>2, <2>3 DEF ORecords, ORecord
  <1> DEFINE S == DOMAIN sreq[p]
             f == Weights(p)
             g == Weights(p)'
  <1>5. /\ IsFiniteSet(S) /\ Total(f, S) \in Nat
        /\ \A i \in S : f[i] = Weight(sreq[p][i]) /\ f[i] \in Nat
    BY OWeightsAre DEF Sum
  <1>6. g = [i \in DOMAIN sreq'[p] |-> Weight(sreq'[p][i])]
    BY DEF Weights, Weight, Vectors
  <1>7. g[id] = Weight(r) /\ Weight(r) \in Nat /\ \A i \in S : i # id => g[i] = f[i]
    BY <1>1, <1>5, <1>6, OWeightIs
  <1>d. DOMAIN sreq'[p] = S \cup {id}
    BY <1>1
  <1>w. WeightAt(p, id) = IF id \in S THEN f[id] ELSE 0
    BY <1>5 DEF WeightAt, Live
  <1>s. Sum(p) = Total(f, S) /\ Sum(p)' = Total(g, S \cup {id})
    <2>1. Sum(p)' = Total(g, DOMAIN sreq'[p])
      BY DEF Sum, Total
    <2> QED
      BY <1>d, <2>1 DEF Sum
  <1> HIDE DEF f, g, S
  <1>t. /\ id \in S => Total(g, S) = Total(f, S) - f[id] + g[id]
        /\ id \notin S => Total(g, S \cup {id}) = Total(f, S) + g[id]
    <2>1. (\A y \in S : f[y] \in Nat) /\ g[id] \in Nat /\ (\A y \in S : y # id => g[y] = f[y])
      BY <1>5, <1>7
    <2>2. ASSUME id \in S PROVE Total(g, S) = Total(f, S) - f[id] + g[id]
      <3>1. IsFiniteSet(S) /\ id \in S
        BY <1>5, <2>2
      <3>2. Replaced(f, g, S, id)
        BY <2>1, <3>1, TotalPut
      <3> QED
        BY <3>2 DEF Replaced
    <2>3. ASSUME id \notin S PROVE Total(g, S \cup {id}) = Total(f, S) + g[id]
      <3>1. \A y \in S : g[y] = f[y] /\ f[y] \in Nat
        BY <2>1, <2>3
      <3> QED
        BY <1>5, <2>1, <2>3, <3>1, TotalAdd
    <2> QED
      BY <2>2, <2>3
  <1>9. Sum(p)' = Sum(p) + (Weight(r) - WeightAt(p, id))
    <2>1. CASE id \in S
      <3>1. S \cup {id} = S /\ f[id] \in Nat
        BY <1>5, <2>1
      <3>2. Total(g, S \cup {id}) = Total(f, S) - f[id] + Weight(r) /\ WeightAt(p, id) = f[id]
        BY <1>7, <1>t, <1>w, <2>1, <3>1
      <3> QED
        BY <1>5, <1>7, <1>s, <3>1, <3>2
    <2>2. CASE id \notin S
      BY <1>5, <1>7, <1>s, <1>t, <1>w, <2>2
    <2> QED
      BY <2>1, <2>2
  <1>10. \A q \in Procs : q # p => Sum(q)' = Sum(q)
    BY <1>2, SumElsewhere
  <1> QED
    BY <1>3, <1>9, <1>10 DEF SumBy

LEMMA RemoveSum ==
  ASSUME ORecords, DOMAIN sreq = Procs, NEW p \in Procs, NEW id, sreq' = Remove(p, id)
  PROVE  ORecords' /\ SumBy(p, 0 - WeightAt(p, id))
  <1>1. /\ DOMAIN sreq'[p] = DOMAIN sreq[p] \ {id}
        /\ \A i \in DOMAIN sreq[p] : i # id => sreq'[p][i] = sreq[p][i]
    BY DEF Remove
  <1>2. \A q \in Procs : q # p => sreq'[q] = sreq[q]
    BY DEF Remove
  <1>3. ORecords'
    <2>1. ASSUME NEW q \in Procs, NEW i \in DOMAIN sreq'[q] PROVE ORecord(q, sreq'[q][i])
      BY <1>1, <1>2, <2>1 DEF ORecords
    <2>2. ASSUME NEW q \in Procs PROVE IsFiniteSet(DOMAIN sreq'[q])
      <3>1. CASE q = p
        BY <1>1, <3>1, FS_Subset DEF ORecords
      <3>2. CASE q # p
        BY <1>2, <3>2 DEF ORecords
      <3> QED
        BY <3>1, <3>2
    <2>3. Procs' = Procs
      BY DEF Procs
    <2> QED
      BY <2>1, <2>2, <2>3 DEF ORecords, ORecord
  <1> DEFINE S == DOMAIN sreq[p]
             f == Weights(p)
             g == Weights(p)'
  <1>5. /\ IsFiniteSet(S) /\ Total(f, S) \in Nat
        /\ \A i \in S : f[i] = Weight(sreq[p][i]) /\ f[i] \in Nat
    BY OWeightsAre DEF Sum
  <1>6. g = [i \in DOMAIN sreq'[p] |-> Weight(sreq'[p][i])]
    BY DEF Weights, Weight, Vectors
  <1>7. \A i \in S \ {id} : g[i] = f[i]
    BY <1>1, <1>5, <1>6
  <1>w. WeightAt(p, id) = IF id \in S THEN f[id] ELSE 0
    BY <1>5 DEF WeightAt, Live
  <1>d. DOMAIN sreq'[p] = S \ {id}
    BY <1>1
  <1>s. Sum(p) = Total(f, S) /\ Sum(p)' = Total(g, S \ {id})
    <2>1. Sum(p)' = Total(g, DOMAIN sreq'[p])
      BY DEF Sum, Total
    <2> QED
      BY <1>d, <2>1 DEF Sum
  <1> HIDE DEF f, g, S
  <1>t. Total(g, S \ {id}) = Total(f, S \ {id})
    BY <1>7, TotalSame
  <1>9. Sum(p)' = Sum(p) + (0 - WeightAt(p, id))
    <2>1. CASE id \in S
      <3>1. \A y \in S : f[y] \in Nat
        BY <1>5
      <3>2. Total(f, S \ {id}) = Total(f, S) - f[id] /\ f[id] \in Nat
        BY <1>5, <2>1, <3>1, TotalDrop
      <3> QED
        BY <1>5, <1>s, <1>t, <1>w, <2>1, <3>2
    <2>2. CASE id \notin S
      <3>1. S \ {id} = S
        BY <2>2
      <3> QED
        BY <1>5, <1>s, <1>t, <1>w, <2>2, <3>1
    <2> QED
      BY <2>1, <2>2
  <1>10. \A q \in Procs : q # p => Sum(q)' = Sum(q)
    BY <1>2, SumElsewhere
  <1> QED
    BY <1>3, <1>9, <1>10 DEF SumBy

\* Records that agree on what they hold.
LEMMA OSameRecord ==
  ASSUME NEW p, NEW sr, ORecord(p, sr), NEW r, DOMAIN r = Fields,
         r.first = sr.first, r.others = sr.others, r.owner = sr.owner, r.set = sr.set
  PROVE  ORecord(p, r) /\ Weight(r) = Weight(sr)
  BY DEF ORecord, Weight, Vectors

\* The pool of d counts what its super requests refer to and k vectors more, with those it
\* had before in u.
Balance(d, id, sr, u) ==
    /\ used' \in [Procs -> Int] /\ \A q \in Procs : q # d => used'[q] = u[q] /\ Sum(q)' = Sum(q)
    /\ used'[d] - Sum(d)' = u[d] - (Sum(d) - WeightAt(d, id) + Weight(sr))

LEMMA PutBalance ==
  ASSUME ORecords, DOMAIN sreq = Procs, NEW d \in Procs, NEW id, NEW sr, NEW r, ORecord(d, sr), ORecord(d, r),
         sreq' = Put(d, id, r), NEW u \in [Procs -> Int],
         used' = [u EXCEPT ![d] = @ - (Weight(sr) - Weight(r))]
  PROVE  ORecords' /\ Balance(d, id, sr, u)
  <1>1. ORecords' /\ SumBy(d, Weight(r) - WeightAt(d, id))
    BY PutSum
  <1>2. /\ Weight(r) \in Nat /\ Weight(sr) \in Nat /\ Sum(d) \in Nat /\ WeightAt(d, id) \in Nat
        /\ u[d] \in Int
    BY OWeightIs, OWeightsAre
  <1>3. /\ used'[d] = u[d] - (Weight(sr) - Weight(r)) /\ used' \in [Procs -> Int]
        /\ \A q \in Procs : q # d => used'[q] = u[q]
    BY <1>2
  <1> QED
    BY <1>1, <1>2, <1>3 DEF Balance, SumBy

LEMMA RemoveBalance ==
  ASSUME ORecords, DOMAIN sreq = Procs, NEW d \in Procs, NEW id, NEW sr, ORecord(d, sr),
         sreq' = Remove(d, id), NEW u \in [Procs -> Int], used' = [u EXCEPT ![d] = @ - Weight(sr)]
  PROVE  ORecords' /\ Balance(d, id, sr, u)
  <1>1. ORecords' /\ SumBy(d, 0 - WeightAt(d, id))
    BY RemoveSum
  <1>2. Weight(sr) \in Nat /\ Sum(d) \in Nat /\ WeightAt(d, id) \in Nat /\ u[d] \in Int
    BY OWeightIs, OWeightsAre
  <1>3. /\ used'[d] = u[d] - Weight(sr) /\ used' \in [Procs -> Int]
        /\ \A q \in Procs : q # d => used'[q] = u[q]
    BY <1>2
  <1> QED
    BY <1>1, <1>2, <1>3 DEF Balance, SumBy

\* allreduce_complete_operation_callback at a daemon.
LEMMA CompleteBalance ==
  ASSUME Complete, ORecords, DOMAIN sreq = Procs, NEW d \in Daemons, NEW id, NEW sr, ORecord(d, sr),
         NEW n, NEW t, NEW a, NEW u \in [Procs -> Int], CompleteOperation(d, id, sr, n, t, u, a)
  PROVE  ORecords' /\ Balance(d, id, sr, u)
  <1>0. d \in Procs /\ d \notin Clients
    BY WithDaemons
  <1>f. DOMAIN sr = Fields /\ Weight(sr) \in Nat /\ u[d] \in Int
    BY <1>0, OWeightIs DEF ORecord
  <1>1. CASE sr.ops > 1
    <2>p. PICK r : r = [sr EXCEPT !.ops = @ - 1]
      OBVIOUS
    <2>1. sreq' = Put(d, id, r) /\ used' = u
      BY <1>1, <2>p DEF CompleteOperation
    <2>2. /\ DOMAIN r = Fields /\ r.first = sr.first /\ r.others = sr.others /\ r.owner = sr.owner
          /\ r.set = sr.set
      BY <1>f, <2>p DEF Fields
    <2>3. ORecord(d, r) /\ Weight(r) = Weight(sr)
      BY <2>2, OSameRecord
    <2>4. used' = [u EXCEPT ![d] = @ - (Weight(sr) - Weight(r))]
      BY <1>0, <1>f, <2>1, <2>3
    <2> QED
      BY <1>0, <2>1, <2>3, <2>4, PutBalance
  <1>2. CASE ~(sr.ops > 1)
    <2>1. CompleteDaemon(d, id, sr, n, t, u, a)
      BY <1>0, <1>2 DEF CompleteOperation
    <2>p. PICK result : result = WithPeers(sr.res, sr, id)
      OBVIOUS
    <2>q. PICK proto \in [sr.list -> Protocols] :
             LET left == sr.nreq - Cardinality(Short(sr.list, proto))
                 done == [sr EXCEPT !.ops = 0, !.res = result, !.first = NoPeer,
                                    !.others = {}, !.list = {}, !.nreq = left]
             IN  IF left = 0
                 THEN /\ sreq' = Remove(d, id)
                      /\ used' = [u EXCEPT ![d] = @ - PeerVectors(sr) - Vectors(done)]
                 ELSE /\ sreq' = Put(d, id, done)
                      /\ used' = [u EXCEPT ![d] = @ - PeerVectors(sr)]
      BY <2>1, <2>p DEF CompleteDaemon
    <2>l. PICK left : left = sr.nreq - Cardinality(Short(sr.list, proto))
      OBVIOUS
    <2>d. PICK done : done = [sr EXCEPT !.ops = 0, !.res = result, !.first = NoPeer,
                                        !.others = {}, !.list = {}, !.nreq = left]
      OBVIOUS
    <2>2. \/ /\ sreq' = Remove(d, id)
             /\ used' = [u EXCEPT ![d] = @ - PeerVectors(sr) - Vectors(done)]
          \/ /\ sreq' = Put(d, id, done)
             /\ used' = [u EXCEPT ![d] = @ - PeerVectors(sr)]
      BY <2>q, <2>l, <2>d
    <2>3. /\ DOMAIN done = Fields /\ done.first = NoPeer /\ done.others = {}
          /\ done.set = sr.set /\ done.owner = sr.owner
      BY <1>f, <2>d DEF Fields
    <2>4. ORecord(d, done)
      BY <2>3 DEF ORecord
    <2>x. PICK x \in Nat, y \in Nat, z \in Nat :
             /\ x = Cardinality(sr.others) /\ y = (IF sr.first # NoPeer THEN 1 ELSE 0)
             /\ z = (IF sr.owner /\ sr.set THEN 1 ELSE 0)
      BY OWeightIs
    <2>5. PeerVectors(sr) = x + y /\ Vectors(done) = z /\ Weight(sr) = z + y + x /\ Weight(done) = z
      <3>1. Vectors(done) = z
        BY <2>3, <2>x DEF Vectors
      <3>2. PeerVectors(sr) = x + y
        BY <2>x DEF PeerVectors
      <3>3. Vectors(sr) = z + y
        BY <2>x DEF Vectors
      <3>4. Weight(done) = z
        BY <2>3, <3>1, FS_EmptySet DEF Weight
      <3> QED
        BY <2>x, <3>1, <3>2, <3>3, <3>4 DEF Weight
    <2>6. CASE /\ sreq' = Remove(d, id)
               /\ used' = [u EXCEPT ![d] = @ - PeerVectors(sr) - Vectors(done)]
      <3>1. u[d] - PeerVectors(sr) - Vectors(done) = u[d] - Weight(sr)
        BY <1>f, <2>5
      <3>2. used' = [u EXCEPT ![d] = @ - Weight(sr)]
        BY <2>6, <3>1
      <3> QED
        BY <1>0, <2>6, <3>2, RemoveBalance
    <2>7. CASE /\ sreq' = Put(d, id, done)
               /\ used' = [u EXCEPT ![d] = @ - PeerVectors(sr)]
      <3>1. u[d] - PeerVectors(sr) = u[d] - (Weight(sr) - Weight(done))
        BY <1>f, <2>5
      <3>2. used' = [u EXCEPT ![d] = @ - (Weight(sr) - Weight(done))]
        BY <2>7, <3>1
      <3> QED
        BY <1>0, <2>4, <2>7, <3>2, PutBalance
    <2> QED
      BY <2>2, <2>6, <2>7
  <1> QED
    BY <1>1, <1>2

LEMMA OGetRecord ==
  ASSUME Complete, ORecords, NEW d \in Daemons, NEW id
  PROVE  LET r == Get(d, id, FALSE) IN ORecord(d, r) /\ Weight(r) = WeightAt(d, id)
  <1>0. d \in Procs
    BY WithDaemons
  <1>1. CASE Live(d, id)
    BY <1>0, <1>1 DEF Get, Live, ORecords, WeightAt
  <1>2. CASE ~Live(d, id)
    <2>p. PICK r : r = Allocate(d, FALSE)
      OBVIOUS
    <2>1. /\ DOMAIN r = Fields /\ r.first = NoPeer /\ r.others = {} /\ r.owner /\ ~r.set
      BY <2>p DEF Allocate, Fields
    <2>2. Get(d, id, FALSE) = r /\ WeightAt(d, id) = 0
      BY <1>2, <2>p DEF Get, WeightAt
    <2>3. ORecord(d, r)
      BY <2>1, WithDaemons DEF ORecord
    <2>4. Vectors(r) = 0
      BY <2>1 DEF Vectors
    <2>5. Weight(r) = 0
      BY <2>1, <2>4, FS_EmptySet DEF Weight
    <2> QED
      BY <2>2, <2>3, <2>5
  <1> QED
    BY <1>1, <1>2

-----------------------------------------------------------------------------
\* The pool of d counts k vectors more than its super requests refer to, or fewer; u are
\* the counts from which the step starts.
Settles(d, u, k) ==
    /\ used' \in [Procs -> Int] /\ \A q \in Procs : q # d => used'[q] = u[q] /\ Sum(q)' = Sum(q)
    /\ used'[d] - Sum(d)' = u[d] - Sum(d) + k

LEMMA BalanceSettles ==
  ASSUME ORecords, NEW d \in Procs, NEW id, NEW sr, ORecord(d, sr), NEW u \in [Procs -> Int],
         Balance(d, id, sr, u), NEW k \in Int, Weight(sr) = WeightAt(d, id) + k
  PROVE  Settles(d, u, 0 - k)
  <1>1. Sum(d) \in Nat /\ WeightAt(d, id) \in Nat /\ u[d] \in Int
    BY OWeightsAre
  <1> QED
    BY <1>1 DEF Balance, Settles

\* u is used with k more vectors taken at d, and the receives waiting for data grow by as many
\* as the super requests do not account for.
LEMMA SettlesAccounts ==
  ASSUME ORecords, ORecords', OAccounts, NEW d \in Procs, NEW u \in [Procs -> Int], NEW k \in Int, NEW j \in Int,
         Settles(d, u, k), u[d] = used[d] + j, \A q \in Procs : q # d => u[q] = used[q],
         IsFiniteSet(rx'), Cardinality(Held(d)') = Cardinality(Held(d)) + (j + k),
         \A q \in Procs : q # d => Held(q)' = Held(q)
  PROVE  OAccounts'
  <1>0. ASSUME NEW q \in Procs PROVE IsFiniteSet(Held(q)) /\ Cardinality(Held(q)) \in Nat
    BY FS_Subset, FS_CardinalityType DEF OAccounts, Held
  <1>1. ASSUME NEW q \in Procs, q # d PROVE used'[q] = Sum(q)' + Cardinality(Held(q)')
    BY <1>1 DEF OAccounts, Settles
  <1>s. Sum(d) \in Nat /\ Sum(d)' \in Nat /\ used[d] \in Int /\ used'[d] \in Int
    <2>1. Sum(d) \in Nat
      BY OWeightsAre
    <2>p. ASSUME NEW i \in DOMAIN sreq'[d] PROVE Weight(sreq'[d][i]) \in Nat
      <3>1. ORecord(d, sreq'[d][i])
        BY DEF ORecords, ORecord, Procs
      <3> QED
        BY <3>1, OWeightIs
    <2>f. IsFiniteSet(DOMAIN sreq'[d])
      BY DEF ORecords, Procs
    <2>w. Weights(d)' = [i \in DOMAIN sreq'[d] |-> Weight(sreq'[d][i])]
      BY DEF Weights, Weight, Vectors
    <2>t. PICK S, f : S = DOMAIN sreq'[d] /\ f = Weights(d)'
      OBVIOUS
    <2>2. IsFiniteSet(S) /\ \A i \in S : f[i] \in Nat
      BY <2>p, <2>f, <2>w, <2>t
    <2>3. Total(f, S) \in Nat
      BY <2>2, PairsFinite
    <2>4. Sum(d)' = Total(f, S)
      BY <2>t DEF Sum, Total
    <2> QED
      BY <2>1, <2>3, <2>4 DEF OAccounts, Settles
  <1>2. used'[d] = Sum(d)' + Cardinality(Held(d)')
    <2>1. used[d] = Sum(d) + Cardinality(Held(d)) /\ used'[d] - Sum(d)' = u[d] - Sum(d) + k
      BY DEF OAccounts, Settles
    <2> QED
      BY <1>0, <1>s, <2>1
  <1>3. \A q \in Procs : used'[q] = Sum(q)' + Cardinality(Held(q)')
    BY <1>1, <1>2
  <1>4. used' \in [Procs -> Int] /\ Procs' = Procs
    BY DEF Settles, Procs
  <1> QED
    BY <1>3, <1>4 DEF OAccounts

\* The receives that wait for the data of a client.
LEMMA HeldSame ==
  ASSUME IsFiniteSet(rx), NEW m, m.kind # "ctrl", rx' = rx \/ rx' = rx \cup {m} \/ rx' = rx \ {m}
  PROVE  IsFiniteSet(rx') /\ \A q : Held(q)' = Held(q)
  <1>1. IsFiniteSet(rx')
    BY FS_AddElement, FS_RemoveElement
  <1>2. ASSUME NEW q PROVE Held(q)' = Held(q)
    BY DEF Held
  <1> QED
    BY <1>1, <1>2

LEMMA HeldMore ==
  ASSUME IsFiniteSet(rx), NEW m, m.kind = "ctrl", m \notin rx, rx' = rx \cup {m}
  PROVE  /\ IsFiniteSet(rx') /\ Cardinality(Held(m.dst)') = Cardinality(Held(m.dst)) + 1
         /\ \A q : q # m.dst => Held(q)' = Held(q)
  <1>1. IsFiniteSet(rx')
    BY FS_AddElement
  <1>2. ASSUME NEW q, q # m.dst PROVE Held(q)' = Held(q)
    BY <1>2 DEF Held
  <1>3. Held(m.dst)' = Held(m.dst) \cup {m} /\ m \notin Held(m.dst)
    BY DEF Held
  <1>4. IsFiniteSet(Held(m.dst))
    BY FS_Subset DEF Held
  <1> QED
    BY <1>1, <1>2, <1>3, <1>4, FS_AddElement

LEMMA HeldLess ==
  ASSUME IsFiniteSet(rx), NEW m \in rx, m.kind = "ctrl", rx' = rx \ {m}
  PROVE  /\ IsFiniteSet(rx') /\ Cardinality(Held(m.dst)') = Cardinality(Held(m.dst)) - 1
         /\ \A q : q # m.dst => Held(q)' = Held(q)
  <1>1. IsFiniteSet(rx')
    BY FS_RemoveElement
  <1>2. ASSUME NEW q, q # m.dst PROVE Held(q)' = Held(q)
    BY <1>2 DEF Held
  <1>3. Held(m.dst)' = Held(m.dst) \ {m} /\ m \in Held(m.dst)
    BY DEF Held
  <1>4. IsFiniteSet(Held(m.dst))
    BY FS_Subset DEF Held
  <1> QED
    BY <1>1, <1>2, <1>3, <1>4, FS_RemoveElement

-----------------------------------------------------------------------------
\* A peer's header adds a vector.
LEMMA OHeaderRecord ==
  ASSUME Complete, NEW d, NEW sr, ORecord(d, sr), NEW e \in Daemons, e \notin SeenBy(sr)
  PROVE  LET r == HeaderIn(sr, e) IN ORecord(d, r) /\ Weight(r) = Weight(sr) + 1
  <1>0. e # NoPeer /\ IsFiniteSet(sr.others) /\ Cardinality(sr.others) \in Nat /\ Vectors(sr) \in Nat
    BY WithDaemons, OWeightIs
  <1>a. e # sr.first /\ e \notin sr.others
    BY <1>0 DEF SeenBy
  <1>1. CASE sr.first = NoPeer
    <2> DEFINE r == [sr EXCEPT !.first = e]
    <2>1. /\ DOMAIN r = Fields /\ r.first = e /\ r.others = sr.others
          /\ r.owner = sr.owner /\ r.set = sr.set
      BY DEF ORecord, Fields
    <2>2. HeaderIn(sr, e) = r
      BY <1>1 DEF HeaderIn
    <2> HIDE DEF r
    <2>3. ORecord(d, r)
      BY <1>1, <1>a, <2>1 DEF ORecord
    <2>4. Vectors(r) = Vectors(sr) + 1
      BY <1>0, <1>1, <2>1 DEF Vectors
    <2>5. Weight(r) = Weight(sr) + 1
      BY <1>0, <2>1, <2>4 DEF Weight
    <2> QED
      BY <2>2, <2>3, <2>5
  <1>2. CASE sr.first # NoPeer
    <2> DEFINE r == [sr EXCEPT !.others = @ \cup {e}]
    <2>1. /\ DOMAIN r = Fields /\ r.first = sr.first /\ r.others = sr.others \cup {e}
          /\ r.owner = sr.owner /\ r.set = sr.set
      BY DEF ORecord, Fields
    <2>2. HeaderIn(sr, e) = r
      BY <1>2 DEF HeaderIn
    <2> HIDE DEF r
    <2>3. ORecord(d, r)
      BY <1>2, <1>a, <2>1 DEF ORecord
    <2>4. Vectors(r) = Vectors(sr)
      BY <2>1 DEF Vectors
    <2>5. Cardinality(r.others) = Cardinality(sr.others) + 1
      BY <1>0, <1>a, <2>1, FS_AddElement
    <2>7. Weight(r) = Weight(sr) + 1
      BY <1>0, <2>4, <2>5 DEF Weight
    <2> QED
      BY <2>2, <2>3, <2>7
  <1> QED
    BY <1>1, <1>2

LEMMA GatheredSettles ==
  ASSUME Complete, ORecords, DOMAIN sreq = Procs, NEW d \in Daemons, NEW id, NEW q, NEW sr, ORecord(d, sr),
         NEW val, NEW n, NEW t, NEW u \in [Procs -> Int], Gathered(d, id, q, sr, val, n, t, u),
         NEW k \in Int, Weight(sr) = WeightAt(d, id) + k
  PROVE  ORecords' /\ Settles(d, u, 0 - k)
  <1> DEFINE in == [sr EXCEPT !.buf[q] = val]
             more == [in EXCEPT !.buf[in.first] = ReduceAll(@, in.buf, in.others, id)]
             red == IF AllArrived(d, sr) THEN more ELSE in
  <1>1. CompleteOperation(d, id, red, n, t, u, active)
    BY DEF Gathered
  <1>f. DOMAIN sr = Fields /\ d \in Procs
    BY WithDaemons DEF ORecord
  <1>2. /\ DOMAIN in = Fields /\ in.first = sr.first /\ in.others = sr.others
        /\ in.owner = sr.owner /\ in.set = sr.set
    BY <1>f DEF Fields
  <1>3. /\ DOMAIN more = Fields /\ more.first = in.first /\ more.others = in.others
        /\ more.owner = in.owner /\ more.set = in.set
    <2> HIDE DEF in
    <2> QED
      BY <1>2 DEF Fields
  <1>4. /\ DOMAIN red = Fields /\ red.first = sr.first /\ red.others = sr.others
        /\ red.owner = sr.owner /\ red.set = sr.set
    <2> HIDE DEF in, more
    <2> QED
      BY <1>2, <1>3
  <1> HIDE DEF red
  <1>5. ORecord(d, red) /\ Weight(red) = WeightAt(d, id) + k
    BY <1>4, OSameRecord
  <1>6. ORecords' /\ Balance(d, id, red, u)
    BY <1>1, <1>5, CompleteBalance
  <1> QED
    BY <1>f, <1>5, <1>6, BalanceSettles

\* A client's vector: the first is kept as the result vector, a later one goes back.
LEMMA ClientVectorSettles ==
  ASSUME Complete, ORecords, DOMAIN sreq = Procs, NEW d \in Daemons, NEW c, NEW id,
         NEW val, NEW n, NEW t, NEW u \in [Procs -> Int], ClientVector(d, c, id, val, n, t, u)
  PROVE  ORecords' /\ Settles(d, u, 0 - 1)
  <1>g. PICK got : got = Get(d, id, FALSE)
    OBVIOUS
  <1>s. PICK sr : sr = ClientAdded(got, c, id, val)
    OBVIOUS
  <1>w. PICK w : w = [u EXCEPT ![d] = @ - 1]
    OBVIOUS
  <1>v. PICK v : v = IF got.set THEN w ELSE u
    OBVIOUS
  <1>0. d \in Procs /\ ORecord(d, got) /\ Weight(got) = WeightAt(d, id) /\ DOMAIN got = Fields
    <2>1. ORecord(d, got) /\ Weight(got) = WeightAt(d, id)
      BY <1>g, OGetRecord
    <2> QED
      BY <2>1, WithDaemons DEF ORecord
  <1>1. /\ DOMAIN sr = Fields /\ sr.first = got.first /\ sr.others = got.others /\ sr.owner = got.owner
        /\ sr.set
    BY <1>0, <1>s DEF ClientAdded, Fields
  <1>2. ORecord(d, sr)
    BY <1>0, <1>1 DEF ORecord
  <1>k. PICK k \in 0 .. 1 : k = IF got.set THEN 0 ELSE 1
    OBVIOUS
  <1>3. Weight(sr) = WeightAt(d, id) + k
    <2>1. sr.owner /\ got.owner
      BY <1>0, <1>2 DEF ORecord
    <2>2. Vectors(sr) = Vectors(got) + k
      BY <1>1, <1>k, <2>1 DEF Vectors
    <2>3. Vectors(got) \in Nat /\ Cardinality(got.others) \in Nat
      BY <1>0, OWeightIs
    <2> QED
      BY <1>0, <1>1, <1>k, <2>2, <2>3 DEF Weight
  <1>4. v \in [Procs -> Int] /\ v[d] = u[d] - (1 - k) /\ \A q \in Procs : q # d => v[q] = u[q]
    BY <1>0, <1>k, <1>v, <1>w
  <1>5. IF AllClientsIn(d, sr)
        THEN Scatter(d, id, sr, sr.res, n, t, v, active)
        ELSE sreq' = Put(d, id, sr) /\ used' = v
    BY <1>g, <1>s, <1>v, <1>w DEF ClientVector, ClientAdded
  <1>6. ORecords' /\ Settles(d, v, 0 - k)
    <2>1. CASE AllClientsIn(d, sr)
      <3>p. PICK proto, N :
               CompleteOperation(d, id, [sr EXCEPT !.ops = @ - Cardinality(Short(Dests(d), proto))],
                                 N, t, v, active)
        BY <1>5, <2>1 DEF Scatter
      <3>q. PICK r : r = [sr EXCEPT !.ops = @ - Cardinality(Short(Dests(d), proto))]
        OBVIOUS
      <3>1. /\ DOMAIN r = Fields /\ r.first = sr.first /\ r.others = sr.others /\ r.owner = sr.owner
            /\ r.set = sr.set
        BY <1>1, <3>q DEF Fields
      <3>2. ORecord(d, r) /\ Weight(r) = WeightAt(d, id) + k
        BY <1>2, <1>3, <3>1, OSameRecord
      <3>3. CompleteOperation(d, id, r, N, t, v, active)
        BY <3>p, <3>q
      <3>4. ORecords' /\ Balance(d, id, r, v)
        BY <1>4, <3>2, <3>3, CompleteBalance
      <3> QED
        BY <1>0, <1>4, <3>2, <3>4, BalanceSettles
    <2>2. CASE ~AllClientsIn(d, sr)
      <3>1. sreq' = Put(d, id, sr) /\ used' = v
        BY <1>5, <2>2
      <3>2. Weight(sr) \in Nat
        BY <1>2, OWeightIs
      <3>3. used' = [v EXCEPT ![d] = @ - (Weight(sr) - Weight(sr))]
        BY <1>0, <1>4, <3>1, <3>2
      <3>4. ORecords' /\ Balance(d, id, sr, v)
        BY <1>0, <1>2, <1>4, <3>1, <3>3, PutBalance
      <3> QED
        BY <1>0, <1>2, <1>3, <1>4, <3>4, BalanceSettles
    <2> QED
      BY <2>1, <2>2
  <1>7. Sum(d) \in Nat /\ u[d] \in Int
    BY <1>0, OWeightsAre
  <1>8. used'[d] - Sum(d)' = u[d] - Sum(d) + (0 - 1)
    BY <1>4, <1>6, <1>7 DEF Settles
  <1> QED
    BY <1>4, <1>6, <1>8 DEF Settles

-----------------------------------------------------------------------------
\* What every step starts from.
LEMMA OAccountsAre ==
  ASSUME Complete, OInv, OAccounts
  PROVE  /\ DOMAIN sreq = Procs /\ used \in [Procs -> Int] /\ IsFiniteSet(rx)
         /\ \A p \in Procs : /\ OneMore(p) \in [Procs -> Int] /\ OneMore(p)[p] = used[p] + 1
                             /\ \A q \in Procs : q # p => OneMore(p)[q] = used[q]
                             /\ used[p] = used[p] + 0 /\ IsFiniteSet(Held(p)) /\ Cardinality(Held(p)) \in Nat
  <1>1. ASSUME NEW p \in Procs PROVE IsFiniteSet(Held(p)) /\ Cardinality(Held(p)) \in Nat
    BY FS_Subset, FS_CardinalityType DEF OAccounts, Held
  <1> QED
    BY <1>1 DEF OInv, Forms, OAccounts, OneMore

\* A step that leaves no receive of a client's vector behind, and settles what it takes.
LEMMA SettledEvenly ==
  ASSUME Complete, OInv, ORecords, ORecords', OAccounts, NEW d \in Procs,
         Settles(d, used, 0), IsFiniteSet(rx'), \A q \in Procs : Held(q)' = Held(q)
  PROVE  OAccounts'
  <1>1. used \in [Procs -> Int] /\ used[d] = used[d] + 0 /\ Cardinality(Held(d)) \in Nat
    BY OAccountsAre
  <1>2. Cardinality(Held(d)') = Cardinality(Held(d)) + (0 + 0)
    BY <1>1
  <1> QED
    BY <1>1, <1>2, SettlesAccounts

LEMMA SettledWithOne ==
  ASSUME Complete, OInv, ORecords, ORecords', OAccounts, NEW d \in Procs,
         Settles(d, OneMore(d), 0 - 1), IsFiniteSet(rx'), \A q \in Procs : Held(q)' = Held(q)
  PROVE  OAccounts'
  <1>1. /\ OneMore(d) \in [Procs -> Int] /\ OneMore(d)[d] = used[d] + 1
        /\ \A q \in Procs : q # d => OneMore(d)[q] = used[q]
        /\ Cardinality(Held(d)) \in Nat
    BY OAccountsAre
  <1>2. Cardinality(Held(d)') = Cardinality(Held(d)) + (1 + (0 - 1))
    BY <1>1
  <1> QED
    BY <1>1, <1>2, SettlesAccounts

LEMMA GatherArriveAccounts ==
  ASSUME Complete, OInv, ORecords, OAccounts, NEW m, GatherArrive(m)
  PROVE  ORecords' /\ OAccounts'
  <1>p. PICK d, e, id : d = m.dst /\ e = m.src /\ id = m.id
    OBVIOUS
  <1>0. m \in net /\ m.kind = "op" /\ Key(m, e, d, id)
    BY <1>p DEF GatherArrive, Key
  <1>1. /\ d \in Daemons /\ e \in Dests(d) /\ id \in Nat /\ DOwed(d, id) # 0 /\ DaemonPair(d, id)
    BY <1>0, OpAwaited
  <1>2. /\ d \in Procs /\ e \in Daemons /\ DOMAIN sreq = Procs /\ IsFiniteSet(rx)
        /\ OneMore(d) \in [Procs -> Int]
    BY <1>1, WithDaemons, OAccountsAre
  <1>g. PICK got : got = Get(d, id, FALSE)
    OBVIOUS
  <1>3. SeenBy(got) = DHeads(d, id)
    BY <1>1, <1>g, DGetIs
  <1>4. e \notin DHeads(d, id)
    BY <1>0 DEF DHeads, Sends, Has, Kind
  <1>5. ORecord(d, got) /\ Weight(got) = WeightAt(d, id)
    BY <1>1, <1>g, OGetRecord
  <1>s. PICK sr : sr = HeaderIn(got, e)
    OBVIOUS
  <1>6. ORecord(d, sr) /\ Weight(sr) = WeightAt(d, id) + 1
    BY <1>2, <1>3, <1>4, <1>5, <1>s, OHeaderRecord
  <1>7. \/ sreq' = Put(d, id, sr) /\ used' = OneMore(d) /\ rx' = rx \cup {m}
        \/ Gathered(d, id, e, sr, Data(m), net \ {m}, tx \cup Sent(m), OneMore(d)) /\ rx' = rx
    BY <1>p, <1>g, <1>s DEF GatherArrive, HeaderIn, OneMore
  <1>8. ORecords' /\ Settles(d, OneMore(d), 0 - 1)
    <2>1. CASE sreq' = Put(d, id, sr) /\ used' = OneMore(d)
      <3>1. Weight(sr) \in Nat
        BY <1>6, OWeightIs
      <3>2. used' = [OneMore(d) EXCEPT ![d] = @ - (Weight(sr) - Weight(sr))]
        BY <1>2, <2>1, <3>1
      <3>3. ORecords' /\ Balance(d, id, sr, OneMore(d))
        BY <1>2, <1>6, <2>1, <3>2, PutBalance
      <3> QED
        BY <1>2, <1>6, <3>3, BalanceSettles
    <2>2. CASE Gathered(d, id, e, sr, Data(m), net \ {m}, tx \cup Sent(m), OneMore(d))
      BY <1>1, <1>2, <1>6, <2>2, GatheredSettles
    <2> QED
      BY <1>7, <2>1, <2>2
  <1>9. IsFiniteSet(rx') /\ \A q : Held(q)' = Held(q)
    <2>1. m.kind # "ctrl" /\ (rx' = rx \/ rx' = rx \cup {m} \/ rx' = rx \ {m})
      BY <1>0, <1>7
    <2> QED
      BY <1>2, <2>1, HeldSame
  <1> QED
    BY <1>2, <1>8, <1>9, SettledWithOne

LEMMA GatherDataAccounts ==
  ASSUME Complete, OInv, ORecords, OAccounts, NEW m, GatherData(m)
  PROVE  ORecords' /\ OAccounts'
  <1>p. PICK d, e, id : d = m.dst /\ e = m.src /\ id = m.id
    OBVIOUS
  <1>0. m \in rx /\ m.kind = "op" /\ Key(m, e, d, id) /\ rx' = rx \ {m}
    BY <1>p DEF GatherData, Key
  <1>1. d \in Daemons /\ Live(d, id)
    BY <1>0, OpAwaited
  <1>2. d \in Procs /\ DOMAIN sreq = Procs /\ IsFiniteSet(rx) /\ used \in [Procs -> Int]
    BY <1>1, WithDaemons, OAccountsAre
  <1>s. PICK sr : sr = sreq[d][id]
    OBVIOUS
  <1>3. ORecord(d, sr) /\ Weight(sr) = WeightAt(d, id) + 0
    BY <1>1, <1>2, <1>s, OWeightsAre DEF ORecords, Live, WeightAt
  <1>4. Gathered(d, id, e, sr, Data(m), net, tx \cup {m}, used)
    BY <1>p, <1>s DEF GatherData
  <1>5. ORecords' /\ Settles(d, used, 0 - 0)
    BY <1>1, <1>2, <1>3, <1>4, GatheredSettles
  <1>6. Settles(d, used, 0)
    BY <1>5
  <1>7. IsFiniteSet(rx') /\ \A q : Held(q)' = Held(q)
    <2>1. m.kind # "ctrl" /\ (rx' = rx \/ rx' = rx \cup {m} \/ rx' = rx \ {m})
      BY <1>0
    <2> QED
      BY <1>2, <2>1, HeldSame
  <1> QED
    BY <1>2, <1>5, <1>6, <1>7, SettledEvenly

LEMMA ScatterSentAccounts ==
  ASSUME Complete, OInv, ORecords, OAccounts, NEW m, ScatterSent(m)
  PROVE  ORecords' /\ OAccounts'
  <1>p. PICK d, e, id : d = m.src /\ e = m.dst /\ id = m.id
    OBVIOUS
  <1>0. m \in tx /\ m.kind = "op" /\ Key(m, d, e, id) /\ rx' = rx /\ m \in Slow
    BY <1>p DEF ScatterSent, Key, OInv, Mail, Slow, Under
  <1>1. d \in Daemons /\ Live(d, id)
    BY <1>0, SendAwaited
  <1>2. d \in Procs /\ DOMAIN sreq = Procs /\ IsFiniteSet(rx) /\ used \in [Procs -> Int]
    BY <1>1, WithDaemons, OAccountsAre
  <1>s. PICK sr : sr = sreq[d][id]
    OBVIOUS
  <1>3. ORecord(d, sr) /\ Weight(sr) = WeightAt(d, id) + 0
    BY <1>1, <1>2, <1>s, OWeightsAre DEF ORecords, Live, WeightAt
  <1>4. CompleteOperation(d, id, sr, net, tx \ {m}, used, active)
    BY <1>p, <1>s DEF ScatterSent
  <1>5. ORecords' /\ Balance(d, id, sr, used)
    BY <1>1, <1>2, <1>3, <1>4, CompleteBalance
  <1>6. Settles(d, used, 0 - 0)
    BY <1>2, <1>3, <1>5, BalanceSettles
  <1>7. Settles(d, used, 0)
    BY <1>6
  <1>8. IsFiniteSet(rx') /\ \A q : Held(q)' = Held(q)
    BY <1>0, <1>2 DEF Held
  <1> QED
    BY <1>2, <1>5, <1>7, <1>8, SettledEvenly

LEMMA ClientArriveAccounts ==
  ASSUME Complete, OInv, ORecords, OAccounts, NEW m, ClientArrive(m)
  PROVE  ORecords' /\ OAccounts'
  <1>p. PICK d, c, id : d = m.dst /\ c = m.src /\ id = m.id
    OBVIOUS
  <1>0. m \in net /\ m.kind = "ctrl" /\ MailOf(m) /\ m \notin rx
    BY DEF ClientArrive, OInv, Mail, Under, Single
  <1>1. d \in Daemons
    BY <1>0, <1>p, WithDaemons DEF MailOf
  <1>2. d \in Procs /\ DOMAIN sreq = Procs /\ IsFiniteSet(rx) /\ OneMore(d) \in [Procs -> Int]
    BY <1>1, WithDaemons, OAccountsAre
  <1>3. \/ sreq' = sreq /\ used' = OneMore(d) /\ rx' = rx \cup {m}
        \/ ClientVector(d, c, id, Data(m), net \ {m}, tx, OneMore(d)) /\ rx' = rx
    BY <1>p DEF ClientArrive, OneMore
  <1>4. CASE sreq' = sreq /\ used' = OneMore(d) /\ rx' = rx \cup {m}
    <2>1. ORecords' /\ \A q \in Procs : Sum(q)' = Sum(q)
      BY <1>4 DEF ORecords, ORecord, Procs, Sum, Weights, Weight, Vectors, Total
    <2>2. Sum(d) \in Nat /\ OneMore(d)[d] \in Int
      BY <1>2, OWeightsAre
    <2>3. Settles(d, OneMore(d), 0)
      BY <1>2, <1>4, <2>1, <2>2 DEF Settles
    <2>4. /\ IsFiniteSet(rx') /\ Cardinality(Held(d)') = Cardinality(Held(d)) + 1
          /\ \A q : q # d => Held(q)' = Held(q)
      BY <1>0, <1>2, <1>4, <1>p, HeldMore
    <2>5. /\ OneMore(d)[d] = used[d] + 1 /\ \A q \in Procs : q # d => OneMore(d)[q] = used[q]
          /\ Cardinality(Held(d)) \in Nat
      BY <1>2, OAccountsAre
    <2>6. Cardinality(Held(d)') = Cardinality(Held(d)) + (1 + 0)
      BY <2>4, <2>5
    <2> QED
      BY <1>2, <2>1, <2>3, <2>4, <2>5, <2>6, SettlesAccounts
  <1>5. CASE ClientVector(d, c, id, Data(m), net \ {m}, tx, OneMore(d)) /\ rx' = rx
    <2>1. ORecords' /\ Settles(d, OneMore(d), 0 - 1)
      BY <1>1, <1>2, <1>5, ClientVectorSettles
    <2>2. IsFiniteSet(rx') /\ \A q : Held(q)' = Held(q)
      BY <1>2, <1>5 DEF Held
    <2> QED
      BY <1>2, <2>1, <2>2, SettledWithOne
  <1> QED
    BY <1>3, <1>4, <1>5

LEMMA ClientDataAccounts ==
  ASSUME Complete, OInv, ORecords, OAccounts, NEW m, ClientData(m)
  PROVE  ORecords' /\ OAccounts'
  <1>p. PICK d, c, id : d = m.dst /\ c = m.src /\ id = m.id
    OBVIOUS
  <1>0. m \in rx /\ m.kind = "ctrl" /\ MailOf(m) /\ rx' = rx \ {m}
    BY DEF ClientData, OInv, Mail, Under
  <1>1. d \in Daemons
    BY <1>0, <1>p, WithDaemons DEF MailOf
  <1>2. d \in Procs /\ DOMAIN sreq = Procs /\ IsFiniteSet(rx) /\ used \in [Procs -> Int]
    BY <1>1, WithDaemons, OAccountsAre
  <1>3. ClientVector(d, c, id, Data(m), net, tx, used)
    BY <1>p DEF ClientData
  <1>4. ORecords' /\ Settles(d, used, 0 - 1)
    BY <1>1, <1>2, <1>3, ClientVectorSettles
  <1>5. /\ IsFiniteSet(rx') /\ Cardinality(Held(d)') = Cardinality(Held(d)) - 1
        /\ \A q : q # d => Held(q)' = Held(q)
    BY <1>0, <1>2, <1>p, HeldLess
  <1>6. used[d] = used[d] + 0 /\ Cardinality(Held(d)) \in Nat
    BY <1>2, OAccountsAre
  <1>7. Cardinality(Held(d)') = Cardinality(Held(d)) + (0 + (0 - 1))
    BY <1>5, <1>6
  <1> QED
    BY <1>2, <1>4, <1>5, <1>6, <1>7, SettlesAccounts

LEMMA ResultSentAccounts ==
  ASSUME Complete, OInv, ORecords, OAccounts, NEW m, ResultSent(m)
  PROVE  ORecords' /\ OAccounts'
  <1>p. PICK d, c, id : d = m.src /\ c = m.dst /\ id = m.id
    OBVIOUS
  <1>0. /\ m \in tx /\ m.kind = "result" /\ rx' = rx /\ m \in Under /\ m \in Slow /\ Key(m, d, c, id)
    BY <1>p DEF ResultSent, Under, Slow, OInv, Mail, Key
  <1>1. d \in Daemons /\ DOwed(d, id) = 0 /\ DaemonPair(d, id) /\ c \in Late(d, id)
    BY <1>0, ResultAwaited
  <1>2. d \in Procs /\ DOMAIN sreq = Procs /\ IsFiniteSet(rx) /\ used \in [Procs -> Int]
    BY <1>1, WithDaemons, OAccountsAre
  <1>s. PICK sr : sr = sreq[d][id]
    OBVIOUS
  <1>3. Live(d, id) /\ sr.others = {}
    BY <1>1, <1>s DEF DaemonPair, Delivers
  <1>4. /\ ORecord(d, sr) /\ Weight(sr) = WeightAt(d, id) + 0 /\ Weight(sr) \in Nat /\ DOMAIN sr = Fields
        /\ Vectors(sr) \in Nat
    <2>1. ORecord(d, sr) /\ Weight(sr) = WeightAt(d, id)
      BY <1>2, <1>3, <1>s DEF ORecords, Live, WeightAt
    <2>2. Weight(sr) \in Nat /\ Vectors(sr) \in Nat
      BY <2>1, OWeightIs
    <2> QED
      BY <2>1, <2>2 DEF ORecord
  <1>5. Weight(sr) = Vectors(sr)
    BY <1>3, <1>4, FS_EmptySet DEF Weight
  <1>r. PICK r : r = [sr EXCEPT !.nreq = @ - 1]
    OBVIOUS
  <1>6. \/ sreq' = Remove(d, id) /\ used' = [used EXCEPT ![d] = @ - Vectors(sr)]
        \/ sreq' = Put(d, id, r) /\ used' = used
    BY <1>p, <1>s, <1>r DEF ResultSent
  <1>7. ORecords' /\ Balance(d, id, sr, used)
    <2>1. CASE sreq' = Remove(d, id) /\ used' = [used EXCEPT ![d] = @ - Vectors(sr)]
      <3>1. used' = [used EXCEPT ![d] = @ - Weight(sr)]
        BY <1>5, <2>1
      <3> QED
        BY <1>2, <1>4, <2>1, <3>1, RemoveBalance
    <2>2. CASE sreq' = Put(d, id, r) /\ used' = used
      <3>1. /\ DOMAIN r = Fields /\ r.first = sr.first /\ r.others = sr.others /\ r.owner = sr.owner
            /\ r.set = sr.set
        BY <1>4, <1>r DEF Fields
      <3>2. ORecord(d, r) /\ Weight(r) = Weight(sr)
        BY <1>4, <3>1, OSameRecord
      <3>3. used' = [used EXCEPT ![d] = @ - (Weight(sr) - Weight(r))]
        BY <1>2, <1>4, <2>2, <3>2
      <3> QED
        BY <1>2, <1>4, <2>2, <3>2, <3>3, PutBalance
    <2> QED
      BY <1>6, <2>1, <2>2
  <1>8. Settles(d, used, 0 - 0)
    BY <1>2, <1>4, <1>7, BalanceSettles
  <1>9. Settles(d, used, 0)
    BY <1>8
  <1>10. IsFiniteSet(rx') /\ \A q : Held(q)' = Held(q)
    BY <1>0, <1>2 DEF Held
  <1> QED
    BY <1>2, <1>7, <1>9, <1>10, SettledEvenly

\* A client's super request refers to no vector of the pool.
LEMMA ClientHoldsNone ==
  ASSUME Complete, OInv, ORecords, NEW m \in net \cup rx, m.kind = "result",
         NEW c, c = m.dst, NEW id, id = m.id
  PROVE  LET sr == Get(c, id, FALSE) IN
         /\ c \in Clients /\ c \in Procs /\ sr = sreq[c][id] /\ ORecord(c, sr)
         /\ Weight(sr) = 0 /\ Vectors(sr) = 0 /\ WeightAt(c, id) = 0
  <1>p. PICK d : d = m.src
    OBVIOUS
  <1>0. m \in Under /\ Key(m, d, c, id)
    BY <1>p DEF Under, Key
  <1>1. c \in Clients /\ ClientPair(c, id) /\ Live(c, id)
    BY <1>0, ResultAwaited
  <1>2. c \in Procs /\ Get(c, id, FALSE) = sreq[c][id] /\ WeightAt(c, id) = Weight(sreq[c][id])
    BY <1>1, WithDaemons DEF Get, WeightAt
  <1>3. ORecord(c, sreq[c][id])
    BY <1>1, <1>2 DEF ORecords, Live
  <1>4. ~sreq[c][id].owner /\ sreq[c][id].first = NoPeer /\ sreq[c][id].others = {}
    BY <1>1 DEF ClientPair
  <1>5. Vectors(sreq[c][id]) = 0
    BY <1>4 DEF Vectors
  <1>6. Weight(sreq[c][id]) = 0
    BY <1>4, <1>5, FS_EmptySet DEF Weight
  <1> QED
    BY <1>1, <1>2, <1>3, <1>5, <1>6

LEMMA ReceivedAccounts ==
  ASSUME Complete, OInv, ORecords, OAccounts, NEW m \in net \cup rx, m.kind = "result", NEW t,
         Received(m, t), rx' = rx \/ rx' = rx \ {m}
  PROVE  ORecords' /\ OAccounts'
  <1>p. PICK c, id : c = m.dst /\ id = m.id
    OBVIOUS
  <1>s. PICK sr : sr = Get(c, id, FALSE)
    OBVIOUS
  <1>1. /\ c \in Procs /\ ORecord(c, sr) /\ Weight(sr) = 0 /\ Vectors(sr) = 0 /\ WeightAt(c, id) = 0
    BY <1>p, <1>s, ClientHoldsNone
  <1>2. DOMAIN sreq = Procs /\ IsFiniteSet(rx) /\ used \in [Procs -> Int]
    BY OAccountsAre
  <1>3. sreq' = Remove(c, id) /\ used' = [used EXCEPT ![c] = @ - Weight(sr)]
    BY <1>p, <1>s, <1>1 DEF Received
  <1>4. ORecords' /\ Balance(c, id, sr, used)
    BY <1>1, <1>2, <1>3, RemoveBalance
  <1>5. Weight(sr) = WeightAt(c, id) + 0
    BY <1>1
  <1>6. Settles(c, used, 0 - 0)
    BY <1>1, <1>2, <1>4, <1>5, BalanceSettles
  <1>7. Settles(c, used, 0)
    BY <1>6
  <1>8. IsFiniteSet(rx') /\ \A q : Held(q)' = Held(q)
    <2>1. m.kind # "ctrl" /\ (rx' = rx \/ rx' = rx \cup {m} \/ rx' = rx \ {m})
      OBVIOUS
    <2> QED
      BY <1>2, <2>1, HeldSame
  <1> QED
    BY <1>1, <1>4, <1>7, <1>8, SettledEvenly

LEMMA ResultArriveAccounts ==
  ASSUME Complete, OInv, ORecords, OAccounts, NEW m, ResultArrive(m)
  PROVE  ORecords' /\ OAccounts'
  <1>p. PICK c, id : c = m.dst /\ id = m.id
    OBVIOUS
  <1>s. PICK sr : sr = Get(c, id, FALSE)
    OBVIOUS
  <1>0. m \in net \cup rx /\ m.kind = "result"
    BY DEF ResultArrive
  <1>1. \/ sreq' = Put(c, id, sr) /\ used' = used /\ rx' = rx \cup {m}
        \/ Received(m, tx \cup Sent(m)) /\ rx' = rx
    BY <1>p, <1>s DEF ResultArrive
  <1>2. CASE sreq' = Put(c, id, sr) /\ used' = used /\ rx' = rx \cup {m}
    <2>1. /\ c \in Procs /\ ORecord(c, sr) /\ Weight(sr) = 0 /\ WeightAt(c, id) = 0
      BY <1>0, <1>p, <1>s, ClientHoldsNone
    <2>2. DOMAIN sreq = Procs /\ IsFiniteSet(rx) /\ used \in [Procs -> Int]
      BY OAccountsAre
    <2>3. used' = [used EXCEPT ![c] = @ - (Weight(sr) - Weight(sr))]
      BY <1>2, <2>1, <2>2
    <2>4. ORecords' /\ Balance(c, id, sr, used)
      BY <1>2, <2>1, <2>2, <2>3, PutBalance
    <2>5. Weight(sr) = WeightAt(c, id) + 0
      BY <2>1
    <2>6. Settles(c, used, 0 - 0)
      BY <2>1, <2>2, <2>4, <2>5, BalanceSettles
    <2>7. Settles(c, used, 0)
      BY <2>6
    <2>8. IsFiniteSet(rx') /\ \A q : Held(q)' = Held(q)
      <3>1. m.kind # "ctrl" /\ (rx' = rx \/ rx' = rx \cup {m} \/ rx' = rx \ {m})
        BY <1>0, <1>2
      <3> QED
        BY <2>2, <3>1, HeldSame
    <2> QED
      BY <2>1, <2>4, <2>7, <2>8, SettledEvenly
  <1>3. CASE Received(m, tx \cup Sent(m)) /\ rx' = rx
    BY <1>0, <1>3, ReceivedAccounts
  <1> QED
    BY <1>1, <1>2, <1>3

LEMMA ResultDataAccounts ==
  ASSUME Complete, OInv, ORecords, OAccounts, NEW m, ResultData(m)
  PROVE  ORecords' /\ OAccounts'
  <1>0. m \in net \cup rx /\ m.kind = "result" /\ Received(m, tx \cup {m})
    BY DEF ResultData
  <1>1. rx' = rx \/ rx' = rx \ {m}
    BY DEF ResultData
  <1> QED
    BY <1>0, <1>1, ReceivedAccounts

LEMMA SubmitAccounts ==
  ASSUME Complete, OInv, ORecords, OAccounts, NEW c \in Clients, SubmitOperation(c)
  PROVE  ORecords' /\ OAccounts'
  <1>p. PICK id : id = nextId[c]
    OBVIOUS
  <1>g. PICK g : g = Allocate(c, TRUE)
    OBVIOUS
  <1>0. id \in Nat /\ c \in Procs /\ c \notin Daemons /\ ClientPair(c, id)
    BY <1>p, WithDaemons DEF OInv, Forms
  <1>1. ~Live(c, id)
    BY <1>0, <1>p DEF ClientPair
  <1>2. sreq' = Put(c, id, Adopt(Get(c, id, TRUE))) /\ used' = used /\ rx' = rx
    BY <1>p, WithDaemons DEF SubmitOperation
  <1>3. DOMAIN g = Fields /\ g.first = NoPeer /\ g.others = {} /\ ~g.owner /\ g.set
    BY <1>g DEF Allocate, Fields
  <1>4. Adopt(Get(c, id, TRUE)) = g
    BY <1>1, <1>3, <1>g DEF Adopt, Get
  <1>5. ORecord(c, g) /\ Weight(g) = 0 /\ WeightAt(c, id) = 0
    <2>1. Vectors(g) = 0
      BY <1>3 DEF Vectors
    <2> QED
      BY <1>0, <1>1, <1>3, <2>1, FS_EmptySet DEF ORecord, Weight, WeightAt
  <1>6. DOMAIN sreq = Procs /\ IsFiniteSet(rx) /\ used \in [Procs -> Int]
    BY OAccountsAre
  <1>7. used' = [used EXCEPT ![c] = @ - (Weight(g) - Weight(g))] /\ sreq' = Put(c, id, g)
    <2>1. used[c] - (Weight(g) - Weight(g)) = used[c]
      BY <1>0, <1>5, <1>6
    <2>2. used' = [used EXCEPT ![c] = @ - (Weight(g) - Weight(g))]
      BY <1>2, <1>6, <2>1
    <2> QED
      BY <1>2, <1>4, <2>2
  <1>8. ORecords' /\ Balance(c, id, g, used)
    BY <1>0, <1>5, <1>6, <1>7, PutBalance
  <1>9. Weight(g) = WeightAt(c, id) + 0
    BY <1>5
  <1>10. Settles(c, used, 0 - 0)
    BY <1>0, <1>5, <1>6, <1>8, <1>9, BalanceSettles
  <1>11. Settles(c, used, 0)
    BY <1>10
  <1>12. IsFiniteSet(rx') /\ \A q : Held(q)' = Held(q)
    BY <1>2, <1>6 DEF Held
  <1> QED
    BY <1>0, <1>8, <1>11, <1>12, SettledEvenly

LEMMA NextOAccounts ==
  ASSUME Complete, OInv, ORecords, OAccounts, [Next]_vars
  PROVE  ORecords' /\ OAccounts'
  <1>s. ASSUME sreq' = sreq, used' = used, rx' = rx PROVE ORecords' /\ OAccounts'
    BY <1>s DEF ORecords, ORecord, OAccounts, Procs, Sum, Held, Weights, Weight, Vectors, Total
  <1>1. ASSUME NEW c \in Clients, NextBatch(c) PROVE ORecords' /\ OAccounts'
    BY <1>1, <1>s DEF NextBatch
  <1>2. CASE UNCHANGED vars
    BY <1>2, <1>s DEF vars
  <1> QED
    BY <1>1, <1>2, SubmitAccounts, GatherArriveAccounts, GatherDataAccounts, ScatterSentAccounts,
       ClientArriveAccounts, ClientDataAccounts, ResultSentAccounts, ResultArriveAccounts,
       ResultDataAccounts DEF Next, Step, Finished

LEMMA InitOAccounts == ASSUME Init PROVE ORecords /\ OAccounts
  <1>1. /\ used = [p \in Procs |-> 0] /\ DOMAIN sreq = Procs /\ rx = {}
        /\ \A p \in Procs : DOMAIN sreq[p] = {}
    BY DEF Init
  <1>2. ASSUME NEW p \in Procs PROVE Sum(p) = 0 /\ Held(p) = {}
    BY <1>1, TotalEmpty DEF Sum, Held
  <1>3. ORecords
    BY <1>1, FS_EmptySet DEF ORecords
  <1>4. \A p \in Procs : used[p] = Sum(p) + Cardinality(Held(p))
    BY <1>1, <1>2, FS_EmptySet
  <1> QED
    BY <1>1, <1>3, <1>4, FS_EmptySet DEF OAccounts

LEMMA OAccountsBalance == ASSUME OAccounts PROVE PoolAccount
  <1>1. ASSUME NEW p \in Procs
        PROVE  Weights(p) = [id \in DOMAIN sreq[p] |->
                                Vectors(sreq[p][id]) + Cardinality(sreq[p][id].others)]
    BY DEF Weights, Weight
  <1> QED
    BY <1>1 DEF OAccounts, Sum, Held, PoolAccount

-----------------------------------------------------------------------------
(***************************************************************************)
(* The results, for every number of clients, batch size and choice of      *)
(* protocols: with no daemons, and at the end with any number of them.     *)
(***************************************************************************)

\* num_allreduce_operations, which allreduce_complete_operation_callback counts down, is
\* at any time the number of sends without a callback and vectors still to come, and one
\* more until the operation is submitted, whatever order callbacks and messages come in.
THEOREM OperationCountHolds == ASSUME Daemons = {} PROVE Spec => []OperationCount
  <1>1. IInv => OperationCount
    BY CountsOwed
  <1> QED
    BY <1>1, SpecIInv, PTL

\* The super request that a pending UCX callback was given as its argument has not been
\* returned to the pool by allreduce_super_request_destroy.
THEOREM CallbackTargetsHolds == ASSUME Daemons = {} PROVE Spec => []CallbackTargets
  <1>1. IInv => CallbackTargets
    BY TargetsLive
  <1> QED
    BY <1>1, SpecIInv, PTL

\* allreduce_init_mempools sizes the pool of super requests for two batches: that is
\* enough for any number of clients, however far a fast one runs ahead of a slow one.
THEOREM TwoBatchesHolds == ASSUME Daemons = {} PROVE Spec => []TwoBatches
  <1>1. IInv => TwoBatches
    BY AtMostTwoBatches
  <1> QED
    BY <1>1, SpecIInv, PTL

\* A vector UCX may still read (zero-copy or rendezvous) is not written: not by the
\* reduction at the end of its own or another operation, not by allreduce_vectors_reset.
THEOREM SendBufferStableHolds == ASSUME Daemons = {} PROVE Spec => SendBufferStable
  <1>1. IInv /\ Awaited' /\ [Next]_vars => [BuffersKept]_vars
    <2> SUFFICES ASSUME IInv, Awaited', [Next]_vars PROVE BuffersKept
      OBVIOUS
    <2>1. Writes
      BY NextIInv
    <2> QED
      BY <2>1, StepKeepsBuffers
  <1>2. IInv => Awaited
    BY IsAwaited
  <1> QED
    BY <1>1, <1>2, SpecIInv, PTL DEF Spec, SendBufferStable, BuffersKept

\* Every vector taken out of a client's pool is referred to by exactly one super request
\* that is still there: allreduce_gather_callback takes one for every header, and
\* allreduce_complete_operation_callback with allreduce_super_request_destroy gives all of
\* them back, once, whatever order the callbacks and messages of the peers come in.
THEOREM PoolAccountHolds == ASSUME Daemons = {} PROVE Spec => []PoolAccount
  <1>1. Init => Records /\ Accounts
    BY InitAccounts
  <1>2. IInv /\ Records /\ Accounts /\ [Next]_vars => Records' /\ Accounts'
    BY NextAccounts
  <1>3. IInv /\ Accounts => PoolAccount
    BY AccountsBalance
  <1> QED
    BY <1>1, <1>2, <1>3, SpecIInv, PTL DEF Spec

\* When an operation is over at a client, its vector is the reduction of every client's
\* vector, each counted once (allreduce_reduce_all and allreduce_complete_operation_callback
\* over what the peers' scatters brought), for any number of clients, batches and batch
\* sizes and any order of messages and callbacks, if UCX announces no vector by rendezvous
\* or there are at most two clients.  The hypothesis is needed: with three clients and
\* rendezvous _allreduce_gather_callback reduces before the last vector is there.
THEOREM ResultCorrectHolds ==
  ASSUME Daemons = {}, "rndv" \notin Protocols \/ Cardinality(Clients) <= 2
  PROVE  Spec => []ResultCorrect
  <1>0. InOneGo
    BY DEF InOneGo
  <1>1. Init => Records /\ Accounts /\ Slots /\ Wires /\ Buffers
    BY InitAccounts, InitValues
  <1>2. IInv /\ Records /\ Accounts /\ Slots /\ Wires /\ Buffers /\ [Next]_vars
          => Records' /\ Accounts' /\ Slots' /\ Wires' /\ Buffers'
    BY <1>0, NextAccounts, NextValues
  <1>3. IInv /\ Slots => ResultCorrect
    BY SlotsGiveResult
  <1> QED
    BY <1>1, <1>2, <1>3, SpecIInv, PTL DEF Spec

\* Every variable keeps its type: no counter of a client or of its pool goes below zero,
\* no client and no message is ever beyond the last operation of the last batch, and a
\* vector is always a sum, also in the runs where _allreduce_gather_callback reduces early.
THEOREM TypeCorrect == ASSUME Daemons = {} PROVE Spec => []TypeOK
  <1>1. Init => Records /\ Accounts /\ Types
    BY InitAccounts, InitTyped
  <1>2. IInv /\ Records /\ Accounts /\ Types /\ [Next]_vars => Records' /\ Accounts' /\ Types'
    BY NextAccounts, NextTyped
  <1>3. IInv /\ Records /\ Accounts /\ Types => TypeOK
    BY TypesGiveTypeOK
  <1> QED
    BY <1>1, <1>2, <1>3, SpecIInv, PTL DEF Spec

\* The counter of a super request with daemons, of a client's and of a daemon's: it is at any
\* time what allreduce_complete_operation_callback has still to count, at a daemon in both of
\* its uses, by the exchange with the other daemons and by the answers to the clients.  Every
\* daemon serves as many clients as it is told (num_clients): with fewer than it has, it
\* starts its exchange on the first of them and the rest come on top of its counter.
THEOREM OffloadOperationCountHolds == ASSUME Complete PROVE Spec => []OperationCount
  <1>1. OInv => OperationCount
    BY OCountsOwed
  <1> QED
    BY <1>1, SpecOInv, PTL

\* With daemons too a UCX callback that is pending finds its super request: the one it was
\* given is not yet destroyed, at a client that waits for its result, at a daemon that is
\* sending to the other daemons, and at one that is answering its clients.
THEOREM OffloadCallbackTargetsHolds == ASSUME Complete PROVE Spec => []CallbackTargets
  <1>1. OInv => CallbackTargets
    BY OTargetsLive
  <1> QED
    BY <1>1, SpecOInv, PTL

\* With daemons every vector taken out of a process's pool is referred to by exactly one super
\* request that is there, or by one request of daemon_am_recv_ctrl_callback whose data is still
\* to come: daemon_am_recv_data_complete_callback keeps the first client's vector and returns
\* the others, and the result vector goes back with the last answer.
THEOREM OffloadPoolAccountHolds == ASSUME Complete PROVE Spec => []PoolAccount
  <1>1. Init => ORecords /\ OAccounts
    BY InitOAccounts
  <1>2. OInv /\ ORecords /\ OAccounts /\ [Next]_vars => ORecords' /\ OAccounts'
    BY NextOAccounts
  <1>3. OAccounts => PoolAccount
    BY OAccountsBalance
  <1> QED
    BY <1>1, <1>2, <1>3, SpecOInv, PTL DEF Spec

=============================================================================
