# Verification of the DOCA reference applications

The repository holds NVIDIA's DOCA 2.5 SDK tree: the reference applications
(`src/applications`, C), samples, SDK headers and libraries, services and tools.
The programs of the repository's own are the applications; this project models
the ones whose correctness rests on concurrency or on a protocol: TLA+ modules
translated from the C code, TLC configurations for small instances, and TLAPS
proofs for every instance. The other parts are listed with the reason why they
are left out.

## 1. Inventory

| Component | State | Operations | Interaction | What is hard |
|---|---|---|---|---|
| allreduce memory pools (`allreduce_mem_pool.c`) | stack array, size, head | create, take, return one or many, destroy | used by every allreduce handler | growth at the limit with allocation failing half-way |
| allreduce operation (`allreduce_core.c`, `_client.c`, `_daemon.c`, `_reducer.c`) | super requests by operation id, result and receive vectors, counters, batch state | submit, scatter, gather, reduce, answer, batch and barrier | UCX active messages between clients and daemons, completion callbacks | order of headers, data and completions; buffers shared with UCX; fast and slow peers |
| allreduce UCX wrapper (`allreduce_ucx.c`) | connections, requests, message descriptors | connect, send, receive, progress | called by the operation, calls it back | callbacks inside calls or later, reconnection |
| secure_channel (`secure_channel_core.c`) | endpoint, mutex, two threads, signals, epoll descriptors | start, send thread, receive thread, interrupt | two threads on one endpoint, SIGUSR1 between them, SIGINT from the user | lost or surplus wake-ups, failing calls, tear-down |
| dma_copy (`dma_copy_core.c`) | direction, sizes, buffers, memory map, file | negotiate, export, acknowledge, DMA, save | host and DPU over the Comm Channel, DMA between their memories | untagged messages, failures between any two of them, buffer lifetime |
| simple_fwd_vnf flow table (`simple_fwd_ft.c`, `simple_fwd.c`) | buckets with lists and spinlocks, statistics, hardware rules | find, add, age, destroy | lcores, aging thread, DOCA Flow callbacks | lock-free lookup against removal, double removal, shutdown |
| file_compression, file_integrity (`file_compression_core.c`, `file_integrity_core.c`) | the file, its digest, messages counted and received, results of both sides | open, digest, compress, send, receive, compare, write or remove, finish | client and server over the Comm Channel; other processes may write the client's file | what either side believes after a failure; a timeout against a late message; the file read twice |
| pcc (`rtt_template.c`) | rate, measurement and abort state of a flow | handlers for new flow, TX, RTT, CNP, NACK | events from the NIC, requests to it | lost requests, reports and answers; 32-bit wrap; a growing shift |
| ipsec_security_gw, sequence numbers (`flow_encrypt.c`, `flow_decrypt.c`, `ipsec_security_gw.c`) | current number of an encryption rule; window end and bitmap of a decryption rule | number a packet, check and slide the window | two gateways over a network; workers chosen by RSS | repeated and reordered packets, the ends of the 32-bit range, workers sharing a window |
| dpa_all_to_all | buffers, events, sequence number | one kernel per iteration | RDMA between ranks | next iteration against the last |
| l2_reflector | RQ, SQ, CQ and data rings | one packet per completion | NIC | ring wrap and reuse |
| common: flow pipes manager, flow skeleton | id tables; queue accounting | create, add, remove, destroy; batches | DOCA Flow | error paths between tables |
| the rest of ipsec_security_gw; firewall, switch, nat | rules, pipes | configure, wait for a signal | DOCA Flow, a policy socket | mostly configuration; partial reads of the socket |
| app_shield_agent | attestation | refresh and compare in a loop | DOCA App Shield | the library's behaviour |
| common utilities, east_west_overlay_encryption, samples, SDK headers and libraries, services, tools | - | - | - | parsing, scripts, demonstrations, interfaces |

What makes each component correct, in a sentence: a pool never hands an element
out twice and never loses one; an allreduce ends, on every client, with every
client's vector reduced exactly once; a secure channel neither loses a wake-up
nor uses an endpoint that is gone, and ends on SIGINT; a DMA copy that reports
success has made the copy and no failure damages the file; the flow table has
one entry per flow, its rules go with its entries, and no thread touches an
entry that another one freed; a file that a server calls verified is the one the
client computed its digest from, and a good file is stored and not thrown away; a flow under congestion control never stops measuring and heeds
every notification; an IPsec gateway forwards no packet twice, refuses only
stale ones and never reuses a number.

## 2. Modules

| Module | Models | Lines of code it stands for |
|---|---|---|
| `AllreducePoolSpec` | what users of a pool rely on: a set of elements and a set in use | - |
| `AllreduceMemPool` | `allreduce_mem_pool.c` | creation, growth, release, destruction |
| `AllreduceMemPoolProofs` | theorems about `AllreduceMemPool` | |
| `Allreduce` | `allreduce_core.c`, `allreduce_client.c`, `allreduce_daemon.c`, `allreduce_reducer.c`, the message paths of `allreduce_ucx.c` | batches and barrier, scatter, gather, completion, daemons |
| `AllreduceProofs` | theorems about `Allreduce`, without and with daemons | |
| `SecureChannel` | `secure_channel_core.c` | `sc_start`, `sendto_channel`, `recvfrom_channel` and what they call |
| `SecureChannelProofs` | theorems about `SecureChannel` | |
| `DmaCopy` | `dma_copy_core.c` | `host_start_dma_copy`, `dpu_start_dma_copy` and what they call |
| `DmaCopyProofs` | theorems about `DmaCopy` | |
| `SimpleFwdFt` | `simple_fwd_ft.c`, the packet and flow handlers of `simple_fwd.c`, the loops of `simple_fwd_vnf_core.c` and `simple_fwd_vnf.c` | lookup, insertion, aging, removal, shutdown |
| `SimpleFwdFtProofs` | theorems about `SimpleFwdFt` | |
| `FileTransfer` | `file_compression_core.c`, `file_integrity_core.c` | both clients and servers from the opened file to the finish message |
| `FileTransferProofs` | theorems about `FileTransfer` | |
| `PccRttTemplate` | `rtt_template.c` | all handlers of a flow's events |
| `PccRttTemplateProofs` | theorems about `PccRttTemplate` | |
| `IpsecReplay` | the numbering of `flow_encrypt.c`, `anti_replay` and its caller in `flow_decrypt.c`, `init_anti_replay_states` | one security association |
| `IpsecReplayProofs` | theorems about `IpsecReplay` | |
| `MC*` | small instances | |

`PROJECT.json` maps every definition to its lines. Definitions whose comment
starts with "Mutant" (or that are named for what they get wrong) are not used by
any specification: each is a plausible bug of the definition after it, and every
checked property is violated when its mutant takes that definition's place.

### How state and actions correspond to the code

**AllreduceMemPool.** `stack`, `size` and `head` are the fields of `struct mpool`;
`heap` is what malloc has returned and free not yet taken back, `held` what
callers have. `Create`, `Alloc`, `AllocGrow`, the two releases and the destruction are the
functions; each malloc inside the fill of a range may fail, which the choice of
`last` expresses. Using a pool after a failed creation is not modelled: the
program exits.

**Allreduce.** `sreq` is the hash of super requests of each process, with the
counters of the struct; `net`, `rx` and `tx` are UCX: messages under way,
rendezvous receives posted and not complete, and sends whose completion callback
has not run. UCX is external: every message is delivered once, in any order. A
send is short (its callback runs inside the call), zero-copy (read from the buffer
at delivery) or rendezvous (header first, data pulled later from the sender's
buffer *as it is then*). A vector is the number of times each client's initial
vector has been reduced into it, which is exact for SUM and tells lost, doubled and
premature reductions apart; `Junk` is unwritten memory. Batch 0 is the barrier,
an operation on an empty vector.

**SecureChannel.** `main`, `send` and `recv` are program counters named after the
call each thread makes next; every call named in `MainCalls`, `SendCalls` and
`RecvCalls` can fail if `Faults` contains it. `usr` is a pending SIGUSR1, `int` a pending SIGINT (both
signal descriptors report it), `cancel` a requested cancellation, `held` the resources that `sc_start` has to
release, `mode` the side the program runs on. The Comm Channel and the remote side are external: messages arrive
or not, a send succeeds or returns AGAIN, and a receive may fail with a message or without one, once or again and again.

**DmaCopy.** `host` and `dpu` are the step each side takes next. The two queues are
the Comm Channel (external: reliable and in order; a host whose DPU has gone gets an
error once its queue is empty). A message records what its sender meant, which
the receiver cannot see. Buffers and files are "none", "junk", "data" or, for a
file that was not written completely, "partial".

**SimpleFwdFt.** `th` holds the program counter and local variables of each
lcore and of the aging thread; every access to shared memory that another thread
can disturb is a step: each entry the lookup visits, unlinking, freeing, the
load and the store of `stats.add++`. Insertion is one step, because under the lock it publishes
one pointer. A thread that uses a freed entry goes on, as in the code: what it reads there is
any value of the field (another next pointer, another bucket, either `is_hw`), what it
writes there is lost, and LIST_REMOVE or free of it does nothing more to the lists.
`touched` remembers that this has happened; damage to the memory of somebody else, which is then possible
too, is not modelled, so properties of the contents are stated up to that moment. RSS and DOCA Flow are
external: a flow belongs to one lcore, a rule is accepted or refused, and with aging enabled an aged
rule is reported to the lcore that added it. Reading the clock and trying the lock are one
step; the scan may always pass over an entry (its rule's counter may have moved), so nothing is lost.

**FileTransfer.** `client` and `server` are the step each side takes next; `app`
says which of the two applications runs. A file is a sequence of marks, one per
message: the mark tells which message of the client's original it is, or that it
was changed since, or that it is left from an older file on the server. A digest
is the content it was computed from, so collisions are left out. `toServer` and `finish` are the
Comm Channel (external: in order; a side that leaves may drop what it has in
flight). `ClientFails`, `ServerFails` and `ServerReturns` stand for the calls
that fail, grouped by what the code does then: go to `finish_msg` or return
without one. `outcome` is what the server's log says of its comparison.

**PccRttTemplate.** The variables with names of the code are the fields of
`cc_ctxt_rtt_template_t`; each handler is an action. `asked` is
`results->rtt_req` until the NIC sends the request, `flying` the answers that may
still come; `cnp` remembers a notification and `awaited` that a request was sent since the last
measurement, for the properties. Widths are
parameters (`Bits` for 32, `AbortMod` for 256, `Unit` for 65536, `Word` for 2^32 of the rate's
arithmetic, in which the decrease factors wrap), and the code's
`+= UINT32_MAX`, one short of the wrap, and its shift beyond the width, which is
undefined, are in the model. The NIC and the network are external: the
request, the event that reports it and the answer may each be lost.

**IpsecReplay.** `end_win_sn` and `bitmap` (the set of its 1 bits) are the
`antireplay_state` of a rule. A worker takes a packet and reads that state
(`Receive`); it decides and writes back in a second step (`Drop`, `AcceptInside`,
`AcceptRight`), because the code takes no lock. `net` holds every packet that was
sent; any of them may arrive at any time, again, or never. RSS is the constant
`Rss`: with a single worker per rule the two steps cannot be disturbed.

## 3. Runs

| Run | Instance | Shows |
|---|---|---|
| `mempool` | pool of 2, growth up to size 6 with 5 elements to get, malloc and realloc failing | `NoSharing`, `NoLeak`, `ImplementsPool` (refinement of `AllreducePoolSpec`) |
| `allreduce_peers` | 3 non-offloaded clients, a barrier and 3 batches of one operation, short and zero-copy | every vector reduced once, after the last has arrived; counters right; at most two batches held; buffers stable while UCX reads them; every batch ends |
| `allreduce_offload` | 3 clients on 2 daemons, short and rendezvous | exact results through the daemons, callbacks find their super request, every request and vector released, every batch ends |
| `allreduce_peers3_rndv` | 3 clients, rendezvous | **violated**: `ResultCorrect` |
| `secure_channel` | either side, 2 messages each way, any call failing but the creation of the receive thread | wake-up, peer, endpoint, the host's exit, SIGINT ends |
| `dma_copy` | file on either side, both or none; sizes 1 and 2 fit the buffer, 4 does not; nearly any step failing | sides in step, DMA on live, filled buffers, success means copied, files never damaged, termination without failures |
| `simple_fwd_ft` | 2 lcores with colliding flows, aging thread, 3 entries, rules that age until the second removal, 2 buckets, clock 1 and 3, an entry lives 1 | `LocksHeld`, `ListsIntact`, `OneEntryPerFlow`, `CleanExit` |
| `simple_fwd_ft_race` | without aging | **violated**: `NoUseAfterFree` |
| `ipsec_replay` | window 3, numbers 0 to 6, first numbers from 0 to the last, 2 flows on one worker | `NoReplay`, `OnlyStaleRefused`, `NonceUnique` |
| `ipsec_replay_inner_rss` | the same, each flow on a worker of its own (tunnel mode) | **violated**: `NoReplay` |
| `file_transfer` | both applications; files of 0 to 4 messages, client's limit 3, server's 1 or 3, older file of 0, 1 or 3 | `VerifiedFile`, `GoodFileStored`, `FinalWhenTold`, `Completes` |
| `pcc` | 3-bit timestamps, 2-bit abort counter, rates 1 to 4, 2 measurements under way, update factor 1/8 | `CongestionHeeded`, `LoopSurvives` |

### What the violated runs show

* `allreduce_peers3_rndv`: `_allreduce_gather_callback` decides that all vectors
  are there by `recv_vector_iter`, which counts headers. With rendezvous and three
  peers it reduces vectors whose data has not come, and reduces them again at the
  next completion.
* `simple_fwd_ft_race`: the lookup of one lcore stands on an entry that another
  lcore, whose rule was refused, unlinks and frees.
* `ipsec_replay_inner_rss`: the comment in `handle_secured_packets_received` says
  that a rule is always processed by the same core. In tunnel mode RSS hashes the
  inner addresses (`create_hairpin_pipe_fwd`), so two flows of one association
  have two workers; one's update of the window is lost, and a repeated packet passes.

### Further counterexamples

The code and what the repository says of it disagree in more places. Each has a property in the
module and a configuration with which TLC refutes it (`tlc -config <cfg> <module>`); they are
not among the runs, which ask one question each of every component.

| Configuration, module | Refuted | What the repository says, and what the code does |
|---|---|---|
| `SecureChannelOneThread.cfg`, `MCSecureChannel` | `ThreadsFinished` | "Start threads and wait for them to finish" (`secure_channel_core.c:632`). When the receive thread cannot be created, `start_threads` returns at once (`:648`) and the channel is destroyed under the send thread. This failure is the one left out of `secure_channel` and assumed away by `EndpointSafeHolds`. |
| `SecureChannelDpuExit.cfg`, `MCSecureChannel` | `ExitOnlyOnInterrupt` | "Check if interrupt was received" (`:217`). A send thread of the DPU that finds the peer set skips `sigwait`; the start signal stays pending and readies the descriptor polled for interrupts, and the thread leaves with messages unsent. On the host, where nobody sends that signal, `HostExitOnlyOnInterrupt` holds. |
| `SecureChannelSigint.cfg`, `MCSecureChannel` | `InterruptCaught` | "File descriptor to catch interrupts on receive thread" (`:540`). A receive that fails with anything but AGAIN is repeated at once (`:322-325`); while it keeps failing the thread never reaches `epoll_wait`, and SIGINT, which is blocked and only read from a descriptor, has no effect. |
| `SimpleFwdFtTwice.cfg`, `MCSimpleFwdFt` | `RemovedOnce` | "Remove entry from flow table if found" (`simple_fwd_ft.h:120`). The callback of an aged rule has read the entry's bucket and waits for its lock, which the aging thread holds to free the same entry; the entry is then unlinked and freed a second time (`simple_fwd_ft.c:114-117`). |
| `SimpleFwdFtLeak.cfg`, `MCSimpleFwdFt` | `RulesRemoved` | "Callback funtion for removing aged flow" (`simple_fwd.c:217`). The aging thread frees an entry between the setting of its age and of its expiration (`:1134-1136`). `is_hw` is not set yet, so the rule is not removed; the lcore goes on in freed memory, and the rule is still in hardware when the table is destroyed. |
| `FileTransferResult.cfg`, `FileTransfer` | `ServerSuccess` | "DOCA_SUCCESS on success and DOCA_ERROR otherwise" (`file_compression_core.h:106`, `file_integrity_core.h:99`). The servers return success after a file that was too long (`file_compression_core.c:684-686`) and after one that was compromised (`file_integrity_core.c:838-846`). |
| `PccRttUnawaited.cfg`, `PccRttTemplate` | `OnlyAwaited` | "Check that this RTT event is the one we are waiting for", "For cases we re-send RTT request by mistake" (`rtt_template.c:195-196`). The test asks for two counters to be zero, which both never are (`TestNeverSucceeds`), so such an answer is taken for a measurement. |
| `PccRttUpdateFactor.cfg`, `PccRttTemplate` | `CongestionHeeded` | "NACK rate decrease factor" (`rtt_template.c:29`). The factors are unsigned and the parameter is accepted up to 10.0 (`rtt_template_algo_params.h:27`); above 0.2 the factor wraps, and a NACK raises the rate. |

One more has no property: in
allreduce, a daemon with more clients than configured reduces the surplus vector
into the result it may be sending.

### Bounds and why they are enough

* Pool: size 2 growing to 3 (a partial fill) or 4, and from 3 towards 6, gives every
  position of `head` against `size`. The proofs hold for every `NbElems` and `MaxSize`.
* Allreduce: three peers are the least with `recv_vectors` in use, and fast and
  slow peers are up to two batches apart; two daemons, one with two clients, are the
  least in which daemons combine and exchange. `DiscoverRepeats` is 1 or 2 instead of 3: two
  show the batch that does not reset the vectors.
  Batches have one operation: operations of consecutive batches, of fast and slow
  clients, are in flight together in every process, and share nothing but the
  pools and the batch's counter. (Batches of two with rendezvous only, 310,656 states
  on the instance of `allreduce_offload`, hold as well; with three peers or mixed
  protocols they are out of reach.)
* SecureChannel: two messages are enough for one to be sent before and one after
  every event of the receive thread. The proofs hold for every number.
* DmaCopy: sizes only matter against `MaxBufSize` and against each other.
* SimpleFwdFt: three entries are the least for a flow's second entry behind
  another flow's. `MaxRemovals` bounds how often a rule may age: the callback of an
  aged rule meets the aging thread at an entry, and again at a second one. What follows a use of a
  freed entry is explored with two entries (the constraint `AfterUse`): threads go on and end, locks are
  taken and released; the third entry is needed only for `OneEntryPerFlow`, which ends with that use. Two buckets show the end of the aging pass. An entry lives one
  second and the clock moves by two (`Step`), so that an entry expires, or is refreshed before the scan, within
  two values. The proofs hold for all numbers.
* FileTransfer: sizes matter against the two limits and against the older
  file's; three messages are the least with a first, a middle and a last one. Two
  messages in flight let the client run ahead of the server.
* PccRttTemplate: with three bits the time limit grows, overflows and becomes
  undefined within the four values of the abort counter, and the clock wraps in
  between. The proofs hold for all widths and parameters that `PccAssumption`
  admits (update factors from the least to 10.0, new rates up to the maximum);
  that a CNP lowers the rate only for update factors up to a fifth.
* IpsecReplay: a window of 3 has a first, an inner and a last bit and slides by
  less, by exactly and by more than its length within 7 numbers. The proofs hold
  for every window and range.

Deadlock checking is off where the program may stop: a pool that is destroyed or
exhausted at its bound, programs that end, a side that waits for one that has failed, an association whose numbers are
used up, and a table at its bounds of entries, removals and time. In PccRttTemplate and in Allreduce it is on; in the latter only the end of all clients is a final state, in which the model stutters.

### Fairness

* Allreduce: weak fairness of the system's step. Every process busy-polls UCX
  (`allreduce_batch_wait`, the daemon's loop), and UCX progresses what is under way.
* SecureChannel: weak fairness of each of the three threads, which the operating
  system's scheduler gives; none of the peer, the user or the mutex's choice.
  `InterruptEnds` promises nothing after a thread has failed, for the other one may then wait for it, nor if
  recvfrom fails for ever (`RecvFailsForEver`), which `SecureChannelSigint.cfg` shows to be necessary.
* DmaCopy: weak fairness of each side; both poll with naps, and the hardware
  completes a submitted task.
* FileTransfer: weak fairness of each side, which polls in a loop of its own; no
  failure is forced. The server's timeout is part of its loop.
* PccRttTemplate: a flow that sends has TX events (weak fairness of `HandleTx`);
  nothing is assumed of the network.
* SimpleFwdFt: no liveness is claimed. Its spinlocks are unfair, the aging pass
  only tries them, and the fair model is too large.

## 4. Proofs

**`AllreduceMemPoolProofs`** (assumptions: `PoolAssumption`: the null pointer is
no element, the pool is created with at least one element). The inductive
invariant `Inv` consists of `TypeOK`, `NoSharing`, `NoLeak`, the finiteness of
`held`, that nothing is held before the pool is up, and that a pool that is up has a positive size. `NoSharing` alone is not
inductive: a return must find `head > 0`, which follows from the number of held
elements equalling `head`; hence the accounting of `NoLeak` with cardinalities,
and the lemmas about taking one element, returning a block, and filling a range.
`NextInv` preserves `Inv` with one step per action. Results:
`TypeCorrect`, `NoSharingHolds`, `NoLeakHolds`, and `PoolImplemented`: every step
is a step of `AllreducePoolSpec` or leaves its variables unchanged.

**`AllreduceProofs`** (assumption: `AllreduceAssumption`; any
number of clients, any batch size and number of batches, any of the three
protocols). Most theorems assume
`Daemons = {}`: the non-offloaded mode, in which the clients are the peers. `OperationCount` is about one super request; what makes it inductive
is that it is stated for *every* peer and operation id, whether a super request
exists or not. For each pair there are the peers whose header has arrived
(`Heads`), whose data is to come (`Coming`), and to whom a send is not complete
(`To`), all defined from the messages alone; `Owed` is what they leave, and
`Requests` says that a super request that is there counts exactly that and that one
that is not is owed nothing (it is over) or has not been heard of. Each callback
moves one peer of one pair (`HeaderArrives`, `DataArrives`, `SendEnds`,
`VectorLeaves`) and counts one (`PairCounted`). Beside that the invariant needs
that a vector is sent once and is in one place (`Once`), that
`client_active_allreduce_requests` is the number of the client's own operations
(`Actives`), where a client is in its batch (`Batches`), and that nobody is more than
a batch ahead (`Skew`): a client that leaves a batch is owed nothing for its last
operation, so everybody has sent his vector of it. Results:
`OperationCountHolds`, `CallbackTargetsHolds`, `TwoBatchesHolds` (which needs `Skew`:
the ids a client holds lie in two consecutive batches) and the action property
`SendBufferStableHolds` (the slot that a finished operation reduces into is not that of
another operation of the batch, since their ids differ by less than the batch size).

Three more results rest on that invariant. `PoolAccountHolds`: the elements a peer has
taken are those its super requests hold (`Accounts`, a sum over its super requests to
which each callback adds or from which it takes one weight). `ResultCorrectHolds`: while a
vector is under way the slot it was sent from has what was sent (`Slots`, `Wires`), and the
receive vector of a super request is a function of who has been heard (`Buffers`: the peer's own
vector and that of each peer in `SeenBy` less those still coming), so that
at the end it is everybody's vector once (`Start`, `End`). It assumes that rendezvous is not used or
that there are at most two clients: with three, the code loses a vector, which
`allreduce_peers3_rndv` shows. `TypeCorrect` bounds the ids by `Skew` and takes from
`PoolAccountHolds` that no pool goes below zero. A sum is `Total`, the cardinality of a set of
pairs: a fold over a set could not be reasoned about, and cardinalities can.

`OffloadOperationCountHolds`, `OffloadCallbackTargetsHolds` and `OffloadPoolAccountHolds` are about any number of daemons,
if each is told the number of clients it has (`Complete`; a daemon that is told
fewer starts its exchange early and counts the other vectors on top). Their inductive invariant
`OInv` is again stated for every pair of a process and an operation id, and again
from the messages alone. A daemon has the vectors of the clients `Here`; once all are (`Full`), it is
a peer of the other daemons, with `DHeads`, `DComing`, `DTo` and `DOwed` in place of the sets above.
Its super request has two lives: in the first (`Exchanges`) it counts `DOwed`, in the second
(`Delivers`) its `num_requests` counts the results that have not left (`Late`), and the
step between them, which may happen in any of four callbacks, answers all of its clients at once.
A client's super request (`ClientPair`) lives from the submission to the result, which
implies that its daemon is owed nothing. `Mail` says which messages there can be,
`Single` that each is sent once and is in one place. The pools add `ORecords` (a daemon's super
request owns its result vector) and `OAccounts`: what a daemon has taken is the sum over its super
requests and the clients' vectors whose data is still to come (`Held`).

**`SecureChannelProofs`** (assumptions: `ConfigAssumption`; `Faults` is any set of
calls). The inductive invariant `IInv` adds to the type invariant: who holds
the mutex (`Locks`), how far `sc_start` is when a thread exists (`Spans`), what it
holds then (`Holds`), what implies that the peer is known (`PeerKnown`), the
wake-up itself, the join (`Joined`), and that on the host a cancellation goes back to
SIGINT (`HostEnds`). Results: `TypeCorrect`,
`NeverSendToNullHolds`, `NoLostWakeupHolds`, `HostExitOnlyOnInterruptHolds`, and, if the
receive thread can be created, `EndpointSafeHolds`. That assumption is necessary:
see `SecureChannelOneThread.cfg` in section 3.

**`DmaCopyProofs`** (assumption: `DmaAssumption`; `Faults` is any set of steps). The messages
carry no tag, so the invariant is a table of which steps of the two sides can meet and
which message is then under way: both running (`InStep`), a host whose DPU has
gone (`DpuLeft`), a DPU whose host has gone (`HostLeft`). Through that table
follow the sizes both sides believe (`SizesAgree`), the buffers and the memory map
(`Buffers`) and the files (`Files`). Results: `TypeCorrect`, `PhaseAgreementHolds`,
`CopyCompleteHolds`, `FilesKeptHolds` for every set of failing steps, and
`DmaSafeHolds` if the host's last two receives do not fail (`HostStays`); otherwise
the host frees its buffer under the DMA, the hazard of section 5.

**`SimpleFwdFtProofs`** (assumption: `TableAssumption`; any number of lcores, flows,
buckets and entries). A thread that uses a freed entry reads anything there, so there
are two invariants. `Base` holds always: the types, the locks, the order in which the threads end,
and that who works on an entry has one (`Nodes`). `IInv` holds up to the first use of a freed entry
(`NoUseAfterFree`), and its step is proved from the state after the step, in which nothing was
touched yet, so that the thread's entry was live. It joins to the checked properties: what a thread
works on is of a flow of its own lcore (`Owners`), an entry being added has no age
and so is not removed (`Additions`), what is to be removed is listed or, for an lcore that
waited for the lock, already freed, and after it is unlinked it is live until it is freed (`Removals`), what the aging thread's scan stands on
(`AgingThread`), where rules are, that unallocated memory is nowhere used (`Memory`), and
the walk: the entry of the flow that a lookup looks for, if there is one, is not behind
the node the lookup has reached, also when that node was just unlinked. The last is
why a lookup without a lock still never leads to a second entry; it needs the
lemmas about removing an element of a sequence and its successor. Results:
`TypeCorrect`, `LocksHeldHolds`, `ListsIntactHolds`, `OneEntryPerFlowHolds`,
`CleanExitHolds`. The third and fourth, and what `CleanExit` says of entries and rules, end with the
first use of a freed entry: they show that such a use (`simple_fwd_ft_race`, and two
of the further counterexamples) is the only way in which the table can go wrong.

**`FileTransferProofs`** (assumption: `FileAssumption`; both applications). The invariant numbers the messages of a transfer (the
digest, the number of messages, the messages of the file): the queue holds, in order, those after
the ones the server has taken, and with them all the client has sent
(`InOrder`). Hence what was received is a beginning of the file (`Received`), the
digest the server compares with is the client's (`HasDigest`), and what it stored
is what it received (`Stored`). On top of it `Faithful` says that, while nobody writes the
client's file, the digest and every message under way or received are of that file, that all of
it has arrived when the server compares, and that only a changed file is removed. Results: `TypeCorrect`,
`VerifiedFileHolds`, `GoodFileStoredHolds` and the action property `FinalWhenToldHolds`, which follows from
what each side has been told (`Told`).

**`IpsecReplayProofs`** (assumptions: the named assumptions on the constants; for the two theorems
about the window also `OneCorePerRule`, the claim of the code's comment, which
`ipsec_replay_inner_rss` shows to be necessary). `NoReplay` says nothing of the
window, so the inductive invariant adds: the bits of the window are exactly the
accepted numbers in it and nothing right of it was accepted (`WindowExact`), what a
worker has read is still the state (this is where one worker per rule is used), a
number delivered was accepted, the window lies inside the range and ends where the
first one did or at an accepted number, and no packet has a number below the first
one. Results: `NoReplayHolds`, `OnlyStaleRefusedHolds` and, from the sender
alone, `NonceUniqueHolds`. `TypeCorrect` assumes nothing of the cores: a window that two
workers write at the same time is still a window.

**`PccRttTemplateProofs`** (assumptions: `PccAssumption`, the ranges of the
parameters, and `TimeAssumption`). The invariant says that the counters are numbers,
that one of the two waits runs (`WaitsForSomething`), and that a notification that
was not yet heeded is still in the flag (`CnpRemembered`). `CongestionHeeded` needs
the arithmetic of the fixed-point product: a factor below one lowers a positive
rate, and clamping keeps it so or makes it lowest. Results:
`TypeCorrect` (the rate stays between its bounds, also with factors that wrap), `TestNeverSucceeds` (the
test for answers nobody waits for is dead code) and, if the update factor is
at most a fifth, `CongestionHeededHolds`; `PccRttUpdateFactor.cfg` shows that this is necessary.

Only model-checked:

* all liveness (`AllComplete`, `InterruptEnds`, `Completes`, `LoopSurvives`), which is
  beyond this prover;
* of `Allreduce` with daemons, `ResultCorrect`.

## 5. What is not modelled

* allreduce: the CUDA build, matrix multiplication and metrics, connecting and
  reconnecting, and error statuses of UCX, after which the program exits. The
  answer a daemon owes to a client beyond the configured number is not asked for.
* secure_channel: contents and sizes of messages. Two failures leave something
  acquired (`Kept`: the validation of the host's connection, `init_signaling_polling`);
  they are in the model, and the process ends right after them, so no property is stated. Signals to a
  thread that has already been joined are undefined and not modelled; SIGINT before `init_signaling_polling`
  ends the process.
* dma_copy: the tear-down of DOCA objects; a host whose receive fails while it waits for the last two
  statuses frees its buffer while the DMA may run (listed as a hazard, excluded
  from the run's failures).
* simple_fwd_vnf: packet parsing and the key comparison (a key is a model value),
  pipe configuration, statistics output; the damage a use of freed memory does to memory of others.
  The fair model in which every expired entry is eventually removed is too large.
* file_compression, file_integrity: zlib and the SHA engine, set-up and clean-up
  of DOCA objects; a short write counts as none. The code does not truncate an
  older, longer file, so `VerifiedFile` speaks of the beginning of the file; after
  a failed partial hash task the comparison is undefined and excepted.
* pcc: registering and setting parameters, the host program. A parameter that changes
  between two events of a flow is not modelled.
* ipsec_security_gw: everything but the sequence numbers. The pipes are
  configuration of DOCA Flow; the policy socket drops the bytes of a message that
  arrives in parts, and is listed as a hazard.
* The components without a module, with the reason for each: see `PROJECT.json`.

Most of the repository's lines cannot be modelled: about 80,000 of the 119,000 are
SDK headers and samples of single calls, and much of the applications
is parsing, logging and the set-up of DOCA objects in a straight line. The
project models the parts that keep state across events, threads or messages.

## 6. Plan

Done: the allreduce pools, the allreduce operation, the secure channel, the DMA
copy, the flow table, the file transfer, the congestion control and the IPsec
sequence numbers, each with its proofs.

Not done: with daemons, the values (`ResultCorrect`) are
model-checked and not proved. The invariant they need would add to `OInv` the sum of the
vectors of `Here`.
