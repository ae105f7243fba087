----------------------------- MODULE Allreduce -----------------------------
(***************************************************************************)
(* The allreduce operation of applications/allreduce: allreduce_core.c,    *)
(* allreduce_client.c, allreduce_daemon.c and the reducer.                 *)
(*                                                                         *)
(* Clients submit batches of operations and poll UCX until the batch is    *)
(* complete.  In non-offloaded mode the clients are each other's peers; in *)
(* offload mode every client hands its vectors to its daemon, the daemons  *)
(* are the peers, and a daemon returns the result to its clients.  A peer  *)
(* keeps one "super request" per operation, sends its own vector to all    *)
(* other peers (scatter), collects theirs (gather), and counts sends and   *)
(* receives down to zero.                                                  *)
(*                                                                         *)
(* UCX (external) delivers every active message once, in any order.  A     *)
(* send is                                                                 *)
(*   "short"  copied at once: its completion callback runs inside the call *)
(*   "zcopy"  read from the sender's buffer when it is delivered           *)
(*   "rndv"   announced first; the receiver then pulls the data from the   *)
(*            sender's buffer into the buffer the callback supplied        *)
(* and the callback of the last two runs in a later progress call.         *)
(*                                                                         *)
(* A vector is abstracted to how often every client's initial vector has   *)
(* been reduced into it; Junk stands for memory nobody wrote.              *)
(***************************************************************************)
EXTENDS Integers, FiniteSets

CONSTANTS
    Clients,          \* client processes
    Daemons,          \* daemon processes; none in non-offloaded mode
    Home,             \* [Clients -> Daemons] in offload mode: connections[0]
    NumClients,       \* [Daemons -> Nat]: allreduce_config.num_clients
    BatchSize,        \* allreduce_config.batch_size
    NumBatches,       \* allreduce_config.num_batches
    DiscoverRepeats,  \* discover_time_repeats (3 in the code)
    Protocols,        \* subset of {"short", "zcopy", "rndv"}
    NoPeer,           \* a NULL vector pointer
    Junk              \* the source of uninitialised data

Offload == Daemons # {}
Procs == Clients \cup Daemons
Peers == IF Offload THEN Daemons ELSE Clients
Dests(p) == Peers \ {p}                    \* dest_addresses of p

ASSUME AllreduceAssumption ==
    /\ IsFiniteSet(Clients) /\ Clients # {}
    /\ IsFiniteSet(Daemons)
    /\ Clients \cap Daemons = {}
    /\ Offload => Home \in [Clients -> Daemons]
    /\ NumClients \in [Daemons -> Nat \ {0}]
    /\ BatchSize \in Nat \ {0}
    /\ NumBatches \in Nat
    /\ DiscoverRepeats \in Nat \ {0}
    /\ Protocols \subseteq {"short", "zcopy", "rndv"}
    /\ NoPeer \notin Procs
    /\ Junk \notin Procs

-----------------------------------------------------------------------------
(***************************************************************************)
(* The run of a client: batch 0 is the barrier, one operation on an empty  *)
(* vector; batches 1..DiscoverRepeats measure network time and reset the   *)
(* vectors only before the first; the others reset them every time.        *)
(***************************************************************************)
LastBatch == DiscoverRepeats + NumBatches
Ids == 0..(LastBatch * BatchSize)
LastIdOf(b) == b * BatchSize
BatchOf(id) == (id + BatchSize - 1) \div BatchSize
Slot(id) == id % BatchSize
Empty(id) == id = 0
ResetBefore(b) == b = 1 \/ b > DiscoverRepeats

Sources == Clients \cup {Junk}
Value == [Sources -> Nat]
Of(s) == [t \in Sources |-> IF t = s THEN 1 ELSE 0]
Plus(u, v) == [s \in Sources |-> u[s] + v[s]]

\* The sum of f over S, as the number of the pairs that f counts out: a fold would
\* need an induction over S wherever it is reasoned about.
Total(f, S) == Cardinality(UNION {{x} \X (1 .. f[x]) : x \in S})

\* allreduce_reduce: a zero-length result vector is left alone.
Reduce(dst, src, id) == IF Empty(id) THEN dst ELSE Plus(dst, src)

\* allreduce_reduce_all over the peers' vectors others, into dst.
ReduceAll(dst, buf, others, id) ==
    IF Empty(id) THEN dst
    ELSE [s \in Sources |-> dst[s] + Total([o \in others |-> buf[o][s]], others)]

-----------------------------------------------------------------------------
VARIABLES
    batch,      \* batch[c]: the batch client c is in
    nextId,     \* nextId[c]: allreduce_next_id
    pc,         \* pc[c]: "submit" (batch_submit), "wait" (batch_wait), "done"
    active,     \* active[c]: client_active_allreduce_requests
    vec,        \* vec[c][slot]: allreduce_vectors
    sreq,       \* sreq[p]: allreduce_super_requests_hash, live ids to records
    used,       \* used[p]: vectors taken out of p's vecs_pool
    net,        \* messages sent and not yet seen by the receiver's callback
    rx,         \* rendezvous receives posted and not yet complete
    tx          \* sends whose data left and whose callback has not run

vars == <<batch, nextId, pc, active, vec, sreq, used, net, rx, tx>>

(***************************************************************************)
(* A super request.  result_vector is NULL until "set"; a client's result  *)
(* vector is its own vec[c][slot], a daemon's is "res".  "first" is the    *)
(* peer whose vector is peer_result_vector, "others" those in recv_vectors *)
(* (recv_vector_iter is their number), buf their contents.  "list" are the *)
(* clients whose requests wait for the result, nreq counts the requests.   *)
(***************************************************************************)
\* num_allreduce_operations of a new super request: a send and a receive per peer,
\* and one for the end of the scatter.
OpsWithoutScatter(p) == 2 * Cardinality(Dests(p))
Ops(p) == 2 * Cardinality(Dests(p)) + 1

Allocate(p, hasVector) ==
    [ops |-> Ops(p), set |-> hasVector, owner |-> ~hasVector, res |-> Of(Junk),
     first |-> NoPeer, others |-> {}, buf |-> [q \in Peers |-> Of(Junk)],
     list |-> {}, nreq |-> 0]

Live(p, id) == id \in DOMAIN sreq[p]

\* allreduce_super_request_get
Get(p, id, hasVector) == IF Live(p, id) THEN sreq[p][id] ELSE Allocate(p, hasVector)

Put(p, id, sr) ==
    [sreq EXCEPT ![p] = [i \in DOMAIN @ \cup {id} |-> IF i = id THEN sr ELSE @[i]]]
Remove(p, id) == [sreq EXCEPT ![p] = [i \in DOMAIN @ \ {id} |-> @[i]]]

\* The buffer a message is sent from.
Buffer(p, id) == IF p \in Clients THEN vec[p][Slot(id)] ELSE sreq[p][id].res

Msg(kind, src, dst, id, proto, val) ==
    [kind |-> kind, src |-> src, dst |-> dst, id |-> id, proto |-> proto,
     val |-> IF proto = "short" THEN val ELSE Of(Junk)]

\* The data of message m when it reaches the receiver's buffer.
Data(m) == IF m.proto = "short" THEN m.val ELSE Buffer(m.src, m.id)

\* Short sends complete inside the send call, the others when their callback runs.
Sent(m) == IF m.proto = "short" THEN {} ELSE {m}
ShortIgnored(D, proto) == {}
Short(D, proto) == {d \in D : proto[d] = "short"}

\* UCX callbacks run only inside progress: a daemon polls forever, a client while it
\* waits for its batch.
Progressing(p) == p \in Clients => pc[p] = "wait"

-----------------------------------------------------------------------------
(***************************************************************************)
(* allreduce_super_request_destroy gives back the result vector if the     *)
(* super request owns it and peer_result_vector if it is still there.      *)
(***************************************************************************)
VectorsWithoutResult(sr) == IF sr.first # NoPeer THEN 1 ELSE 0
Vectors(sr) == (IF sr.owner /\ sr.set THEN 1 ELSE 0)
               + (IF sr.first # NoPeer THEN 1 ELSE 0)

(***************************************************************************)
(* allreduce_complete_operation_callback for super request id of p, whose  *)
(* record the caller left as sr; n, t, u, a are the caller's net, tx, used *)
(* and active.  The last operation reduces the peers' result into the      *)
(* result vector and returns the peers' vectors; a client then finishes    *)
(* the super request, a daemon sends the result to the clients in its list *)
(* (and finishes when all those sends completed at once).                  *)
(***************************************************************************)
PeerVectors(sr) == Cardinality(sr.others) + (IF sr.first # NoPeer THEN 1 ELSE 0)
WithoutPeers(dst, sr, id) == dst
WithPeers(dst, sr, id) ==
    IF sr.first = NoPeer THEN dst ELSE Reduce(dst, sr.buf[sr.first], id)

CompleteClient(c, id, sr, n, t, u, a) ==
    LET done == [sr EXCEPT !.first = NoPeer, !.others = {}] IN
    /\ vec' = [vec EXCEPT ![c][Slot(id)] = WithPeers(@, sr, id)]
    /\ used' = [u EXCEPT ![c] = @ - PeerVectors(sr) - Vectors(done)]
    /\ active' = [a EXCEPT ![c] = @ - 1]
    /\ sreq' = Remove(c, id)
    /\ net' = n /\ tx' = t

CompleteDaemon(d, id, sr, n, t, u, a) ==
    LET result == WithPeers(sr.res, sr, id) IN
    \E proto \in [sr.list -> Protocols] :
       LET left == sr.nreq - Cardinality(Short(sr.list, proto))
           done == [sr EXCEPT !.ops = 0, !.res = result, !.first = NoPeer,
                              !.others = {}, !.list = {}, !.nreq = left]
       IN  /\ net' = n \cup {Msg("result", d, c, id, proto[c], result) : c \in sr.list}
           /\ IF left = 0
              THEN /\ sreq' = Remove(d, id)
                   /\ used' = [u EXCEPT ![d] = @ - PeerVectors(sr) - Vectors(done)]
              ELSE /\ sreq' = Put(d, id, done)
                   /\ used' = [u EXCEPT ![d] = @ - PeerVectors(sr)]
           /\ active' = a /\ tx' = t
           /\ UNCHANGED vec

CompleteOperation(p, id, sr, n, t, u, a) ==
    IF sr.ops > 1
    THEN /\ sreq' = Put(p, id, [sr EXCEPT !.ops = @ - 1])
         /\ net' = n /\ tx' = t /\ used' = u /\ active' = a
         /\ UNCHANGED vec
    ELSE IF p \in Clients THEN CompleteClient(p, id, sr, n, t, u, a)
                          ELSE CompleteDaemon(p, id, sr, n, t, u, a)

(***************************************************************************)
(* allreduce_scatter: p's result vector goes to every other peer; sends    *)
(* that complete at once count down inside the loop, and one more count    *)
(* follows the loop.                                                       *)
(***************************************************************************)
Scatter(p, id, sr, val, n, t, u, a) ==
    \E proto \in [Dests(p) -> Protocols] :
       CompleteOperation(p, id,
           [sr EXCEPT !.ops = @ - Cardinality(Short(Dests(p), proto))],
           n \cup {Msg("op", p, q, id, proto[q], val) : q \in Dests(p)},
           t, u, a)

-----------------------------------------------------------------------------
Init ==
    /\ batch = [c \in Clients |-> 0]
    /\ nextId = [c \in Clients |-> 0]
    /\ pc = [c \in Clients |-> "submit"]
    /\ active = [c \in Clients |-> 0]
    /\ vec = [c \in Clients |-> [s \in 0..(BatchSize - 1) |-> Of(Junk)]]
    /\ sreq = [p \in Procs |-> [i \in {} |-> Allocate(p, FALSE)]]
    /\ used = [p \in Procs |-> 0]
    /\ net = {} /\ rx = {} /\ tx = {}

\* allreduce_batch_submit gives a super request that a peer's message created the
\* client's own vector, which the super request then does not own.
Adopt(sr) == IF sr.set THEN sr ELSE [sr EXCEPT !.set = TRUE, !.owner = FALSE]

(***************************************************************************)
(* One iteration of allreduce_batch_submit: find or create the super       *)
(* request, give it the client's vector when a peer's message created it,  *)
(* and submit it (allreduce_offloaded_submit / _non_offloaded_submit).     *)
(***************************************************************************)
SubmitOperation(c) ==
    LET id == nextId[c]
        sr == Adopt(Get(c, id, TRUE))
        a == [active EXCEPT ![c] = @ + 1]
    IN
    /\ pc[c] = "submit"
    /\ nextId' = [nextId EXCEPT ![c] = @ + 1]
    /\ pc' = IF id = LastIdOf(batch[c]) THEN [pc EXCEPT ![c] = "wait"] ELSE pc
    /\ IF Offload
       THEN /\ \E proto \in Protocols :
                 net' = net \cup {Msg("ctrl", c, Home[c], id, proto, vec[c][Slot(id)])}
            /\ sreq' = Put(c, id, sr)
            /\ active' = a
            /\ UNCHANGED <<vec, used, tx>>
       ELSE Scatter(c, id, sr, vec[c][Slot(id)], net, tx, used, a)
    /\ UNCHANGED <<batch, rx>>

BatchAlwaysComplete(c) == TRUE
BatchComplete(c) == active[c] = 0

(***************************************************************************)
(* The end of allreduce_batch_wait and what follows in allreduce and       *)
(* allreduce_metrics_init: the next batch, with allreduce_vectors_reset    *)
(* where the code has it, or the end of the run.                           *)
(***************************************************************************)
NextBatch(c) ==
    /\ pc[c] = "wait"
    /\ BatchComplete(c)
    /\ IF batch[c] = LastBatch
       THEN /\ pc' = [pc EXCEPT ![c] = "done"]
            /\ UNCHANGED <<batch, vec>>
       ELSE /\ pc' = [pc EXCEPT ![c] = "submit"]
            /\ batch' = [batch EXCEPT ![c] = @ + 1]
            /\ vec' = IF ResetBefore(batch[c] + 1)
                      THEN [vec EXCEPT ![c] = [s \in DOMAIN @ |-> Of(c)]]
                      ELSE vec
    /\ UNCHANGED <<nextId, active, sreq, used, net, rx, tx>>

\* The test by which _allreduce_gather_callback takes a vector for the last one: it
\* counts vectors by recv_vector_iter, which grows when a header arrives.
AllButOneArrived(p, sr) == Cardinality(sr.others) = Cardinality(Dests(p))
AllArrived(p, sr) ==
    Cardinality(sr.others) + 1 = Cardinality(Dests(p)) /\ sr.others # {}

(***************************************************************************)
(* _allreduce_gather_callback for the vector of peer q: reduce the peers'  *)
(* vectors when this looks like the last one, then count.                  *)
(***************************************************************************)
Gathered(p, id, q, sr, val, n, t, u) ==
    LET in == [sr EXCEPT !.buf[q] = val]
        red == IF AllArrived(p, sr)
               THEN [in EXCEPT !.buf[in.first] = ReduceAll(@, in.buf, in.others, id)]
               ELSE in
    IN  CompleteOperation(p, id, red, n, t, u, active)

\* allreduce_gather_callback: the header (and, unless rendezvous, the data) of a
\* peer's vector arrives.
GatherArrive(m) ==
    LET p == m.dst
        sr0 == Get(p, m.id, FALSE)
        sr == IF sr0.first = NoPeer THEN [sr0 EXCEPT !.first = m.src]
                                    ELSE [sr0 EXCEPT !.others = @ \cup {m.src}]
        u == [used EXCEPT ![p] = @ + 1]
    IN
    /\ m \in net /\ m.kind = "op"
    /\ Progressing(p)
    /\ IF m.proto = "rndv"
       THEN /\ sreq' = Put(p, m.id, sr)
            /\ used' = u
            /\ net' = net \ {m} /\ rx' = rx \cup {m}
            /\ UNCHANGED <<active, vec, tx>>
       ELSE /\ Gathered(p, m.id, m.src, sr, Data(m), net \ {m}, tx \cup Sent(m), u)
            /\ UNCHANGED rx
    /\ UNCHANGED <<batch, nextId, pc>>

\* The rendezvous data of a peer's vector is complete.
GatherData(m) ==
    /\ m \in rx /\ m.kind = "op"
    /\ Progressing(m.dst)
    /\ rx' = rx \ {m}
    /\ Gathered(m.dst, m.id, m.src, sreq[m.dst][m.id], Data(m), net, tx \cup {m}, used)
    /\ UNCHANGED <<batch, nextId, pc>>

\* The callback of a send to a peer: allreduce_complete_operation_callback.
ScatterSent(m) ==
    /\ m \in tx /\ m.kind = "op"
    /\ Progressing(m.src)
    /\ CompleteOperation(m.src, m.id, sreq[m.src][m.id], net, tx \ {m}, used, active)
    /\ UNCHANGED <<batch, nextId, pc, rx>>

AllClientsIn(d, sr) == sr.nreq = NumClients[d]

(***************************************************************************)
(* daemon_am_recv_data_complete_callback for the vector val of client c:   *)
(* the first vector becomes the result vector, later ones are reduced into *)
(* it and returned to the pool; the vector that completes the configured   *)
(* number of clients starts the exchange with the other daemons.           *)
(***************************************************************************)
ClientVector(d, c, id, val, n, t, u) ==
    LET got == Get(d, id, FALSE)
        sr == [got EXCEPT !.nreq = @ + 1, !.list = @ \cup {c}, !.set = TRUE,
                          !.res = IF got.set THEN Reduce(@, val, id) ELSE val]
        u1 == IF got.set THEN [u EXCEPT ![d] = @ - 1] ELSE u
    IN  IF AllClientsIn(d, sr)
        THEN Scatter(d, id, sr, sr.res, n, t, u1, active)
        ELSE /\ sreq' = Put(d, id, sr)
             /\ used' = u1 /\ net' = n /\ tx' = t
             /\ UNCHANGED <<active, vec>>

\* daemon_am_recv_ctrl_callback: a client's vector arrives, a request with a pool
\* vector is allocated for it.  The callback of the client's send
\* (allreduce_offloaded_complete_ctrl_send_callback) changes nothing and is not kept.
ClientArrive(m) ==
    LET u == [used EXCEPT ![m.dst] = @ + 1] IN
    /\ m \in net /\ m.kind = "ctrl"
    /\ IF m.proto = "rndv"
       THEN /\ used' = u
            /\ net' = net \ {m} /\ rx' = rx \cup {m}
            /\ UNCHANGED <<active, vec, sreq, tx>>
       ELSE /\ ClientVector(m.dst, m.src, m.id, Data(m), net \ {m}, tx, u)
            /\ UNCHANGED rx
    /\ UNCHANGED <<batch, nextId, pc>>

\* The rendezvous data of a client's vector is complete.
ClientData(m) ==
    /\ m \in rx /\ m.kind = "ctrl"
    /\ rx' = rx \ {m}
    /\ ClientVector(m.dst, m.src, m.id, Data(m), net, tx, used)
    /\ UNCHANGED <<batch, nextId, pc>>

\* daemon_allreduce_complete_client_operation_callback: the result reached client m.dst.
ResultSent(m) ==
    LET d == m.src
        sr == sreq[d][m.id]
    IN
    /\ m \in tx /\ m.kind = "result"
    /\ tx' = tx \ {m}
    /\ IF sr.nreq = 1
       THEN /\ sreq' = Remove(d, m.id)
            /\ used' = [used EXCEPT ![d] = @ - Vectors(sr)]
       ELSE /\ sreq' = Put(d, m.id, [sr EXCEPT !.nreq = @ - 1])
            /\ UNCHANGED used
    /\ UNCHANGED <<batch, nextId, pc, active, vec, net, rx>>

\* The result is in the client's vector: client_am_recv_data_complete_callback.
Received(m, t) ==
    LET c == m.dst IN
    /\ vec' = IF Empty(m.id) THEN vec ELSE [vec EXCEPT ![c][Slot(m.id)] = Data(m)]
    /\ active' = [active EXCEPT ![c] = @ - 1]
    /\ used' = [used EXCEPT ![c] = @ - Vectors(Get(c, m.id, FALSE))]
    /\ sreq' = Remove(c, m.id)
    /\ tx' = t

\* client_am_recv_ctrl_callback: the result of an operation arrives.
ResultArrive(m) ==
    /\ m \in net /\ m.kind = "result"
    /\ Progressing(m.dst)
    /\ net' = net \ {m}
    /\ IF m.proto = "rndv"
       THEN /\ rx' = rx \cup {m}
            /\ sreq' = Put(m.dst, m.id, Get(m.dst, m.id, FALSE))
            /\ UNCHANGED <<active, vec, used, tx>>
       ELSE /\ Received(m, tx \cup Sent(m))
            /\ UNCHANGED rx
    /\ UNCHANGED <<batch, nextId, pc>>

\* The rendezvous data of a result is complete.
ResultData(m) ==
    /\ m \in rx /\ m.kind = "result"
    /\ Progressing(m.dst)
    /\ rx' = rx \ {m}
    /\ Received(m, tx \cup {m})
    /\ UNCHANGED <<batch, nextId, pc, net>>

\* Every client is done and every daemon has nothing left to do.
Quiet == /\ \A c \in Clients : pc[c] = "done"
         /\ net = {} /\ rx = {} /\ tx = {}

Finished == Quiet /\ UNCHANGED vars

Step == \/ \E c \in Clients : SubmitOperation(c) \/ NextBatch(c)
        \/ \E m \in net : GatherArrive(m) \/ ClientArrive(m) \/ ResultArrive(m)
        \/ \E m \in rx : GatherData(m) \/ ClientData(m) \/ ResultData(m)
        \/ \E m \in tx : ScatterSent(m) \/ ResultSent(m)

Next == Step \/ Finished

Spec == Init /\ [][Next]_vars
FairSpec == Spec /\ WF_vars(Step)
-----------------------------------------------------------------------------
SuperRequest ==
    [ops : Int, set : BOOLEAN, owner : BOOLEAN, res : Value,
     first : Peers \cup {NoPeer}, others : SUBSET Peers, buf : [Peers -> Value],
     list : SUBSET Clients, nreq : Nat]

Message == [kind : {"op", "ctrl", "result"}, src : Procs, dst : Procs, id : Ids,
            proto : Protocols, val : Value]

\* Every variable has its type; the counters of a client never go below zero.
TypeOK ==
    /\ batch \in [Clients -> 0..LastBatch]
    /\ nextId \in [Clients -> Nat]
    /\ pc \in [Clients -> {"submit", "wait", "done"}]
    /\ active \in [Clients -> Nat]
    /\ vec \in [Clients -> [0..(BatchSize - 1) -> Value]]
    /\ DOMAIN sreq = Procs
    /\ \A p \in Procs : /\ DOMAIN sreq[p] \subseteq Ids
                        /\ sreq[p] \in [DOMAIN sreq[p] -> SuperRequest]
    /\ used \in [Procs -> Nat]
    /\ net \subseteq Message /\ rx \subseteq Message /\ tx \subseteq Message

\* The result every client must end with: every client's vector exactly once, or, in
\* the r-th batch since the vectors were reset, |Clients|^(r-1) times (the number of
\* ways it can have come through r-1 clients).
Repeat(b) == IF b <= DiscoverRepeats THEN b ELSE 1
Ways(k) == Cardinality([1 .. k -> Clients])
EachOf(n) == [s \in Sources |-> IF s = Junk THEN 0 ELSE n]
Exact(id) == EachOf(Ways(Repeat(BatchOf(id)) - 1))

\* When an operation has completed at a client (allreduce_complete_operation_callback or
\* client_am_recv_data_complete_callback finished its super request), the client's vector
\* is the reduction of every client's vector, each counted once: whatever the order of
\* messages, the protocol UCX picked and the distance between fast and slow peers.
ResultCorrect ==
    \A c \in Clients, id \in Ids :
        (/\ BatchOf(id) = batch[c] /\ ~Empty(id)
         /\ id < nextId[c] /\ ~Live(c, id))
           => vec[c][Slot(id)] = Exact(id)

ByReference == {m \in net \cup rx : m.proto # "short"}

\* A buffer UCX may still read is neither written nor returned to the pool: reducing into
\* the result vector waits for all sends of it (allreduce_complete_operation_callback), a
\* client's next batch for the end of this one.
SendBufferStable ==
    [][\A m \in ByReference :
          m \in ByReference' =>
             /\ m.src \in Daemons => Live(m.src, m.id)'
             /\ Buffer(m.src, m.id)' = Buffer(m.src, m.id)]_vars

\* No callback is left with a freed super request: the argument of every pending send and
\* receive callback is still in the hash, and a result finds the operation waiting for it.
CallbackTargets ==
    /\ \A m \in ByReference \cup tx : Live(m.src, m.id)
    /\ \A m \in rx : m.kind = "op" => Live(m.dst, m.id)
    /\ \A m \in net \cup rx : m.kind = "result" =>
          Live(m.dst, m.id) /\ sreq[m.dst][m.id].set

\* num_allreduce_operations counts what is outstanding: the sends whose callback has not
\* run, the vectors not yet received, and one until the super request is scattered.
PendingSends(p, id) == {m \in net \cup rx \cup tx :
                           m.kind = "op" /\ m.src = p /\ m.id = id /\ m.proto # "short"}
Incoming(p, id) == {q \in Dests(p) : \E m \in rx : m.kind = "op" /\ m.src = q
                                                   /\ m.dst = p /\ m.id = id}
Seen(p, id) == (sreq[p][id].others \cup {sreq[p][id].first}) \ {NoPeer}
Scattered(p, id) == IF p \in Clients THEN id < nextId[p]
                                      ELSE sreq[p][id].nreq >= NumClients[p]
OperationCount ==
    \A p \in Peers : \A id \in DOMAIN sreq[p] :
        sreq[p][id].ops # 0 =>
           sreq[p][id].ops =
             (IF Scattered(p, id) THEN Cardinality(PendingSends(p, id))
                                  ELSE Cardinality(Dests(p)) + 1)
             + Cardinality(Dests(p)) - Cardinality(Seen(p, id) \ Incoming(p, id))

\* Vectors taken from a process's pool are exactly those its super requests and pending
\* requests refer to, so none leaks and none is returned twice.
PoolAccount ==
    \A p \in Procs :
        used[p] = Total([id \in DOMAIN sreq[p] |->
                           Vectors(sreq[p][id]) + Cardinality(sreq[p][id].others)],
                        DOMAIN sreq[p])
                  + Cardinality({m \in rx : m.kind = "ctrl" /\ m.dst = p})

\* allreduce_init_mempools sizes the super request pool for two batches because "this is
\* the maximum amount that can be held at once": a peer never holds more.
TwoBatches == \A p \in Procs : Cardinality(DOMAIN sreq[p]) <= 2 * BatchSize

\* Every client gets through all its batches, and in the end no super request is left.
AllComplete == <>[](/\ \A c \in Clients : pc[c] = "done"
                    /\ \A p \in Procs : DOMAIN sreq[p] = {} /\ used[p] = 0)
=============================================================================
