# TLA+ models of the Mooncake store client and the GPU dma-buf memory domain

The repository holds the parts of a key-value store for GPU memory that were
changed to let data move between GPU memory, remote memory and NVMe-oF storage
by RDMA. This directory models them in TLA+, checks the models with TLC on
small instances and proves theorems about them with TLAPS. `PROJECT.json` lists
the components, the runs, the mutants that show each property can fail, the
source lines behind each definition, the hazards and the theorems.

## The system

| Part | Source | State | What makes it hard | Module |
|---|---|---|---|---|
| GPU dma-buf memory domain | `spdk/lib/dma/gpu_dmabuf.c` | list of domains; per domain a tree of regions, a tree of RDMA memory regions (MRs), retained GPU contexts | callers from several threads; two locks, with a gap between them; memory that is freed and reused | `GpuDmabuf` |
| Client, writing | `client_service.cpp` 191-312, 1527-2694, 3524-3625 | per call a list of operations with a state, allocated replicas, transfers | partial allocation, partial failure, lost answers, background disk writes | `ObjectWrite` |
| Client, reading and hot cache | same, 991-1525, 2696-2772, 4036-4297 | leases, hot-cache blocks, pins, fill tokens | stale fills, pins on error paths, expiring leases | `ObjectRead` |
| Client, segments, leader and heartbeat | same, 365-685, 2775-3150, 3841-4034 | current leader view, ping failures, remount future, mounted segments, timers of deferred unmounts | reordered leader changes, unmount racing with remount, retries | `Membership` |
| Client, tasks | same, 3329-3491, 3685-3839 | task queue, retry counts | bounded retries on the pool that runs them | `ReplicaTask` |
| RealClient | `real_client.cpp` | segment records; contexts of dummy clients; routing of reads | partial mounts, expiry racing with late calls | `Membership`, `DummyShm`, `ObjectRead` |
| DummyClient | `dummy_client.cpp` | shared memories, ping thread | server restart, re-registration, teardown | `DummyShm` |
| RDMA context and transport | `rdma_transport/rdma_context.cpp`, `rdma_transport.cpp` | MR table, device descriptors, transfer slices | partial registration, failing slices | `RdmaTransport` |
| vLLM connector | `mooncake_store_connector.py` | requests to load, metadata of a step | rounding at block boundaries, result codes | `KvConnector` |

The application calls the Python binding or the connector, which call a
RealClient (directly, or through a DummyClient in another process); that calls
Client, which talks to the master and to the transfer engine. The transfer
engine registers memory with RDMA devices. For NVMe-oF targets, SPDK calls the
dma-buf memory domain to get an RDMA key for GPU memory. The master, the
engine's core, the hot cache itself, the GPU driver and the RDMA verbs are not
in the repository; they are modelled by how the code here uses them.

## Modules

| Module | Models |
|---|---|
| `AddressRanges` | range arithmetic and the two-neighbour tree searches of `gpu_dmabuf.c` |
| `GpuDmabuf` | the memory domain: create, register, translate, invalidate, destroy |
| `ObjectStore` | what the write calls promise: an object is absent, being written or readable as a whole |
| `ObjectWrite` | Put, Upsert, BatchPut, BatchPut on preferred nodes, BatchUpsert, the disk write pool; implements `ObjectStore` |
| `ObjectRead` | queries, reads of every kind, the hot cache, offloaded objects, invalidating writes |
| `Membership` | leader monitor, heartbeat, remounts, mounts, unmounts, teardown |
| `RdmaTransport` | registration of memory on all devices, slicing, device choice, transfer status |
| `ReplicaTask` | copy and move tasks with retries, composed with `RdmaTransport` |
| `DummyShm` | a RealClient's contexts of dummy clients, composed with the DummyClient |
| `KvConnector` | the vLLM connector over a store |
| `GpuDmabufProofs` | proofs about the tree searches and the memory domain |
| `ObjectWriteTransferProofs`, `ObjectWriteProofs` | the invariant of the write calls: the transfers and the decision; the RPCs to the master and the theorems |
| `ObjectWriteRefinement` | the proof that the write calls implement `ObjectStore` |
| `ObjectReadProofs` | proofs about reads, the hot cache and its fills |
| `MembershipProofs`, `DummyShmProofs`, `ReplicaTaskProofs` | proofs about segments and leader views; about mapped memory and held buffers; about published keys and written replicas |
| `MC...` | the instances for TLC |

### GpuDmabuf

`domains` is `g_gpu_dmabuf_domains`; `heap` the structures that are allocated;
`regions`, `mr_cache` and `cuda_ctxs` are the trees and the context list of each
domain. `ibv_mrs` and `primary` stand for the RDMA device and the GPU driver.
A call is split where the code releases a lock: `...Start` is the lookup under
the list lock, `...Locked` the section under the domain's lock. In between
another thread may run. Every failure of a driver or verbs call is a
nondeterministic outcome (`RegisterMrFails`, `RegisterRejected`, `CreateFail`).

A tree is a set. The comparators order by address, so `NFind` and `Prev` give
the two neighbours the code looks at, and a search never looks further.

Assumptions about callers, because nothing in the code enforces them:

- `DestroyStart`: nobody is inside a call on the domain or has I/O in flight on
  it, and none begins until it has left the list. After that, late calls are
  allowed and must fail. Without this assumption the code can use a freed
  domain, since a domain found in the list is not reference-counted.
- `AppRetire`, `AppFree`: memory is freed after `invalidate` has returned in
  every domain, not during I/O on it, and no `register` of that memory runs
  meanwhile. Translations may race with all of this.
- ranges do not wrap around the address space (`RangeAssumption`).

Left out: access flags, the id string, and the page alignment that a comment
(lines 841-844) mentions but the code does not do.

### ObjectWrite and ObjectStore

Each pair of a thread and a key is one `PutOperation`; its fields are variables
(`state`, `result`, `replicas`, `pending`, `ok`, `failed`, ...). A call goes
through `Start`, submission (`SubmitTransfers`, `SubmitSegments` or
`SubmitDisk`/`TransferWrite`), `WaitForTransfers`, `ProcessEndGroup` and
`ProcessRevokeGroup` in the code's order of types, and `CollectResults`.
`StoreObject` and `FinishDisk` are the task of the write pool.

Assumptions about the master (external): it refuses to start a key that is being
written; `PutEnd` and `PutRevoke` apply to the replicas of a type, where ALL is
memory and NoF (disk replicas have calls of their own); an allocation has at
least one memory or NoF replica; an upsert has at least one memory replica and
no NoF replica. An RPC succeeds, fails, or takes effect with its answer lost.

`ObjectStore` forgets replicas, transfers, types and batches. The refinement
mapping (`ObjectStatus`, `OperationStage`) reads the state of an object off the
replicas the master holds, and gives an object with a committed replica that was
not written the value "torn", which the abstract store does not have.

Left out: the null check of the transfer submitter and the environment override
of the replica counts.

### ObjectRead

`object` is the master's version of each key with its replicas, `hot` the blocks
of the hot cache with their pins, `fills` the queued fills, `call` and `op` the
read of each reader and its keys, `writer` an Upsert or removal of this client.
A call queries (`BeginRead`), chooses a route per key (`BufferRoute`,
`IntoRoute`, `RangedRoute`, `MultiBuffersRoute`), submits, transfers and waits;
the data of a read is the version that is found at its source at the moment of
the transfer (`Source`), which is something else once the memory was reused.
`LeaseCheck` comes after the fills are submitted, as in the code. An operation
that has failed keeps only its result (`Failed`): no later step looks at the rest.

Assumptions: keys of a batch are distinct; the master reuses memory only of
versions that are not current and not under a lease; the leases of a call end
together; a removed block that is pinned stays readable but is not found and
blocks a new fill; a fill copies its data when it is submitted; sizes differ
only between versions; the owner collects a staged buffer only after the time to
live that the reader measures too. `get` is a batch of one; RemoveByRegex and
RemoveAll are one "bulk" removal; a multi-buffer read without preferred nodes
behaves like `batch_get_into`.

### Membership

`view`, `conn`, `hb` and `ping_fail_count` are the client's idea of the leader, its
connection and the heartbeat; `mounted`, `graceful`, `timer` the segment tables
of Client, `memory` what RealClient has allocated or mapped, `te` what is
registered with the transfer engine, and `master` what the leader knows.
`SwitchLeader` is called with views that were read earlier (`MonitorSwitch`,
`ReconnectHa`). The remount task is a step of its own between `RemountBegin` and
`RemountEnd` and holds the segment lock (`MutexFree`). A mount call goes chunk by
chunk (`MountBegin`, `MountNext`, `RollBack`).

Assumptions: each mount uses new memory and a new id (`RequestAssumption`); mounts and unmounts are
single steps, since the segment lock is held across their RPCs; a connection is
broken after a failover until the client reconnects; a deposed leader may still
accept a connection; the metadata server runs with the leader and a failover
empties it; the master accepts the unmount of a segment it does not know; a ping
and its answer are one step; the pool has a worker for every timer.

`leftover` collects the segments for which an error path gives up (a failed or
lost mount or unmount RPC, a failed unregistration): the code frees their memory
without knowing the outcome, and the properties exclude them.

### RdmaTransport and ReplicaTask

Buffers are ranges of small integers, and a key is a buffer with the number of
its registration. A registration visits the contexts in turn or in parallel
(`parallel`), then publishes one key per context; an unregistration withdraws
the descriptor first. `submitTransferTask` is one step on a snapshot of the
descriptor: it cuts the request (`Slices`), picks a device for each slice, posts
at the watermark and may fail half-way. `ReplicaTask` runs Copy and Move on a
pool of workers; their transfers are requests of `RdmaTransport`.

Assumptions: buffers have different start addresses (`BufferAssumption`) and may
nest; one registration or unregistration of a buffer at a time; the
topology may name any device; a worker waits for late slices of an earlier
failed submission; the pool is not stopped; a transfer has one request.

### DummyShm

`shm_contexts` is the RealClient's table, `mapped` and `te` the memory that is
mapped and registered, `ping_queue`, `client_ttl` and `expired` the monitor.
`registered`, `connected`, `ping_pc` and `todo` belong to the DummyClient. The
shared lock is `io`: a transfer holds it from the translation of addresses to
its end, and every section under the unique lock is one step (`UniqueLock`). The
batched acquisition gives the lock back in between (`BatchBegin`, `BatchGet`,
`BatchEnd`). Either process may die; a new DummyClient has a new id.

Assumptions: the application does not unregister the local buffer; the flag that
`unregister_buffer` clears changes with its RPC; a pass of the monitor is a tick;
batches have one key. Left out: the Ascend variants, the hot cache of the dummy.

`crossed` becomes true when a buffer outlives its context; from then on a release
may free a buffer of the next context, and `HeldBuffersAreKept` is not claimed.

### KvConnector

Engines share a store. A step of an engine looks up the marker of each prompt,
builds the metadata, loads and saves layer by layer and puts a marker after each
layer. A prompt is a sequence of tokens; a key is its aligned prefix with a layer.
Left out: tensors, multi-modal hashes and tensor-parallel ranks.

## Runs

| Run | Bounds | Shows |
|---|---|---|
| `gpu_trees` | 2 threads, 1 domain, 2 protection domains, overlapping ranges of reused memory | regions stay disjoint, MRs match regions and the device, none survives on freed memory, keys of I/O in flight stay valid, and the inductive invariant holds |
| `gpu_life` | 2 threads, 2 domains, 2 devices | no use after free, nothing left in a freed domain, context references balance |
| `write_safety` | 2 threads, 1 contended key and 2-key batches, configurations (1,0), (2,0), (2,1), (1,1) of memory and NoF replicas | committed replicas were written; failed writes are given back; results are truthful; the calls implement `ObjectStore` |
| `write_live` | 1 thread, 1 memory replica, disk replicas | every call returns; every disk replica is ended or revoked unless an RPC about it failed |
| `reads` | 1 reader with 4 kinds of call, 2 keys with 4 layouts of replicas, 2 versions, 1 queued fill, a local and a remote writer | successful reads are intact; pins balance on every path; fills voided by a write never publish |
| `membership` | 2 segments, 2 leaders in turn, 1 fault, 2 missed pings, 2 questions of a timer | views only advance; a reported unmount is final; freed memory is unmounted; the client converges; deferred unmounts end |
| `tasks` | 1 task with up to 2 targets, 2 devices, 2 adjacent buffers of 4 and 3 units, slices of 2, 3 registrations, 1 fault, 1 retry | published keys are valid; an ended copy was written in full; every task settles |
| `dummy_safety` | 1 client, 2 shared memories, 2 buffers, 2 handles, 1 fault | contexts own their memory; transfers stay on mapped memory; held buffers are kept |
| `dummy_live` | 2 clients in turn, 1 fault | contexts of dead clients go; a client that lost its server comes back |
| `batch_upsert_commit`, `dummy_expiry`, `connector` | | violations, see below |

Two threads are enough to put any step between two steps of a call; ranges that
nest, touch and overlap are all present; two memory replicas are the least for
which a partial failure exists. Configuration (1,1) is checked without removals:
in this mode `Put` and `BatchPut` end one type and revoke the other in a second
RPC, and if the object is removed and started again in between, that RPC hits the
new object. The client sends no version, so the outcome is up to the master.

In `reads` one reader is enough because readers share only the cache, where the
fills, the evictions and the writers run beside it. In `membership` one fault
besides the failovers lets every call of a mount, unmount, ping or remount fail
or lose its answer once; two segments make a mount that fails half-way. In
`tasks` an object of 5 units spans both buffers and is cut at the block boundary
and at the end of a buffer. In the dummy runs a fault is a crash of either
process, a failed mapping, a lost answer or a lost ping.

### Fairness

- `write_live`: a thread keeps running, every RPC is answered or times out, every
  transfer ends (the client waits without a bound, so this is needed), and the
  write pool serves its queue in order.
- `membership`: the threads keep running, a new leader is elected, grace periods
  of the master end; failures are bounded by the faults.
- `tasks`: the workers keep running, every posted slice ends, RPCs are answered or
  time out.
- `dummy_live`, `dummy_expiry`: the monitor and the ping thread keep running, a
  teardown that has begun ends, and transfers end. Nothing forces a RealClient to
  restart or to become healthy; `Reconnects` assumes that it does for good.

The other runs assume none.

### Disagreements found

1. `batch_upsert_commit`: `FinalizeBatchUpsert` ends every operation that has
   submitted a transfer and never reads the recorded failures, so an object with
   an unwritten replica is committed and reported as a success. `Upsert` revokes
   in the same case, and `BatchPut` goes by `DetermineFinalizeDecision`.
2. `dummy_expiry`: the monitor says that it updates an expired client's status to
   NEED_REMOUNT, but it only unmaps the client's memory, and `ping` keeps answering
   OK. A client that was late once stays connected and without memory.
3. `connector`: `_load_direct` treats every result but 0 as an error, while
   `batch_get_into_multi_buffers` answers the number of bytes, so every hit on
   the direct path raises.

## Proofs

All theorems hold for every choice of the constants that satisfies the named
assumptions, so for any number of threads, segments, clients, devices and faults.
Each temporal one rests on an inductive invariant that was first checked with TLC on the
instance of the corresponding run; its proof has one lemma or step per action.

**The memory domain** (`GpuDmabufProofs`). On disjoint ranges the two-neighbour
searches find an entry whenever one exists. `Invariance` proves `Spec => []IInv`,
from which the properties follow. `IInv` is needed because no property is inductive
alone. `RegionsDisjoint` needs regions that do not wrap. `NoMrOnFreedMemory` needs
to know that a domain that has invalidated an allocation holds no region there
(`RangesOK`), as translate registers regions again. `NoMrLeak` needs unique keys.
`NoUseAfterFree` needs `Exclusive`: a domain under destruction is in one call
only. The proof goes in layers: types, the life of a domain (`LifeInv`), its trees
(`TreeInv`), and what the trees, the device and the I/O agree on. `PrimaryBalanced`
counts the domains that retain a context (`Retainers`); its invariant adds that
only finitely many domains are allocated, and each step changes the set for one
domain only (`CountOne`). Assumed: the constants' types and `RangeAssumption`.

**Writes** (`ObjectWriteTransferProofs`, `ObjectWriteProofs`). The safety properties
of `write_safety` follow from `WriteInv`, which says for each operation what it
may rely on at each stage of its call. Until it has decided, the object is its own
and readers see nothing of it (`Held`, `Writing`). A decision to end a type covers
replicas that are all written, and the rest is revoked (`Ending`). After the end
something stays readable as long as a revocation is due (`Ended`), so that nobody
can start the key in between. A decision to give up covers all the replicas
(`GivingUp`). What a returned call has left stays so until somebody starts the
key again (`Left`). The theorems assume `Scope`, which excludes what the
properties do not survive: `BatchUpsert` (see the finding), and removals around a
flexible write. The run has the same scope.

**The abstract store** (`ObjectWriteRefinement`). `WritesImplementTheStore` proves
that the initial states map to initial states of `ObjectStore`, and that every step
maps to a step of it or to a stutter: submissions and transfers stutter; starts,
decisions about a group of operations and removals are steps on several
objects at once. It also assumes that there is no storage backend: an object of
which only the disk replica is left exists to the master but is absent in the
abstract store, which has no such state. The run checks the same instance.

**Reads** (`ObjectReadProofs`). `ReadInvariance` proves `Spec => []ReadInv` for any
finite set of readers. `Balanced` is `PinsBalance`; `Kept` says that a pinned
block stays and keeps its version, which is why a hit needs no lease. `InStep` ties the
state of an operation to that of its call, and tells which operations pin.
`Sound` says that bytes that were moved are those of the version that the query
saw or newer as long as the lease lasts, and that a result is OK before the lease
is checked only in a way that the check can take back. `Offloaded` says the same of
a staged buffer and its time to live. `Fresh` says that after a write has settled
every queued fill, and every block that can be found, has the master's version or
was submitted later. Assumed: finitely many readers, changing keys are keys, calls
are sequences of keys, and at least one version (the bounds of the model).

**Published keys** (`ReplicaTaskProofs`, `DescriptorKeysAreLive`). The context
looks a key up by address, in a table ordered by start address, and looks at one
neighbour only; buffers may nest. The invariant `RegInv` says that a buffer that
is published, or that a device has registered in a running operation, has an
entry of its own in that device's table. Two buffers have different start
addresses (`BufferAssumption`), so a lookup by a buffer's own address meets its
own entry and no other (`OwnRegionFound`). An unregistration withdraws the
descriptor before the first device forgets the key.

**Replicas that have ended** (`ReplicaTaskProofs`, `EndedReplicasAreWritten`). The
lemma `SlicesCover` says that the slices of a request cover it and stay within
it, for every size, block and fragment limit; the last slice is the one at the
least start that takes the remainder. `WriteInv` relates each task to its job: targets above
the current one are written (`WrittenAbove`), and while the task waits and no
slice has failed, every byte of the current target is written or in a slice that
is still posted (`PendingCover`). The status COMPLETED means that all counted
slices have succeeded, so none is posted and the target is full. The count works
because a slice leaves the job when it is counted (`IsJob`), and slices that a
failed submission left behind end before the next submission. A retry is only
possible before anything was started, which is why results are a part of
`WriteInv`. Assumed: slices have at least one byte (`SliceAssumption`); a task
is a user of the transport, sizes are natural numbers (`TaskAssumption`).

`ReplicaTaskTypes` adds `RegBounds` to the two invariants: entries and keys carry
the number of a registration that has been made. Assumed besides: finitely many
buffers, and bounds that are natural numbers (`RdmaBounds`).

**Segments** (`MembershipProofs`). `UnmountIsFinal` and `FreedMemoryIsSafe` follow
from `SegmentInv`, which has four parts besides types. `CallOwnsChunks`: the
chunks a mount call has still to mount are new, and those it has mounted are
known to nobody else, so a roll-back never meets an unmount. `TablesAgree`: a
segment is in at most one table and has memory, and a timer runs only for a
deferred one. `RemountIsCurrent`: the copy the remount thread sends is a part of
the current table as long as it holds the mutex. `LeaderAgrees`: what the leader
and the engine hold is accounted for, and a confirmed timer means that the leader
has dropped the segment. Assumed: the chunks of a call are distinct
(`RequestAssumption`). `ViewIsMonotonic` needs only that views are numbers.
`MembershipTypes` adds to `SegmentInv` the flags and `ViewBounds`: a leader that is
down has a successor within the bound, so views stay in it too. Assumed:
the bounds are natural numbers, with a first leader (`BoundAssumption`).

**Dummy clients** (`DummyShmProofs`). `MemoryIsOwned` and `TransfersAreMapped`
follow from `OwnInv`, the property for each entry of each context, with one
addition: an allocator lies in the local memory. That is why it survives the
unregistration of another memory. Memory is unmapped only when no transfer holds
the shared lock, or when the process dies with its transfers.

`BuffersAreKept` follows from `HoldInv`. Besides the property it speaks of the
buffer that a batched acquisition has filled and not yet handed out
(`FilledBuffer`): it is in use in the context of the batch, although the lock was
given back in between, and no handle has it. And a process that does not run holds no buffer. Every step outside these
calls lets the contexts outlive it with their buffers (`Outlives`) or sets
`crossed`. `DummyShmTypes` rests on both and on `ContextsOK`: a context has a
shared memory at most once, although registrations are repeated.
Assumed: finitely many shared memories, at least one client id (`ShmAssumption`).

Every invariant and action property of a passing run is proved. Only
model-checked: the liveness properties, which are out of the prover's reach, and
the connector, whose rounding and prefixes are recursive data.

## Not modelled

- Python binding, `PyClient` interface: conversion of arguments, tensors and
  results around single calls; no state of their own.
- Memory location: a stateless question to the kernel or the GPU driver.
- HTTP metadata server: a map under one lock. `Membership` has the two entries of
  a client in it, which a failover loses.
- Start-up of `RealClient` and of the transfer engine (settings, services, ports,
  protocols): it runs once, in one thread.
- The write front end of `RealClient` and the tensor helpers: they allocate a
  buffer, copy and make one call of Client.
- RDMA set-up (GID selection, topology, handshake) and the endpoint store: their
  counterparts are not in the repository.
- Variants for Ascend devices; the hand-over of the hot cache's file descriptor.
- The diagnostic probe and the build files.

Hazards that no property covers are listed in `PROJECT.json` with the reason: a
late revocation by key that meets a new object, disk replicas in `BatchPut` on
preferred nodes, fills submitted after an invalidation, reads on preferred nodes
after their lease, pins of mismatched cache hits, and segments left half mounted
by a failed RPC. The models of these calls have the behaviour; whether it is
harmful depends on the master or on what the callers may rely on, which the
repository does not say.
