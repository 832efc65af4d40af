----------------------------- MODULE ObjectRead -----------------------------
(***************************************************************************)
(* Reading an object through RealClient and Client (real_client.cpp,       *)
(* client_service.cpp): the query with its lease, the choice of a replica, *)
(* the transfer from memory, from a file or from another node's SSD, and   *)
(* the local hot cache with its pins, its asynchronous fills and the       *)
(* invalidations of local writes.                                          *)
(*                                                                         *)
(* External, modelled from its use: the master (objects, replica lists and *)
(* leases), LocalHotCache with its handler, the transfer engine, the owner *)
(* of a LOCAL_DISK replica.  The keys of a batch are distinct.             *)
(***************************************************************************)
EXTENDS Integers, FiniteSets, Sequences

CONSTANTS
    Reader,      \* threads that call a read function
    Key,
    Calls,       \* what they may call: [kind, keys]
    Layouts,     \* replica lists a committed object of each key may have
    Changing,    \* keys that are written and removed
    IsShm,       \* LocalHotCache::IsShm(): dummy clients share the cache
    MaxVersion,  \* bound on the commits of a key
    MaxLeak,     \* bound on the pins of a key lost on a size mismatch
    QueueSize    \* fills the hot-cache handler accepts

ASSUME ReadersAssumption == IsFiniteSet(Reader) /\ Changing \subseteq Key
ASSUME CallsAssumption ==
    Calls \subseteq [kind : {"buffer", "into", "range", "same_node"}, keys : Seq(Key)]
ASSUME BoundsAssumption == MaxVersion \in Nat \ {0} /\ MaxLeak \in Nat

Version == 1..MaxVersion

\* What a transfer from reused memory, or from a reused cache block, returns.
Garbage == 0
Overwritten == -1

NoBlock == [ver |-> -1]
NoReplica == [type |-> "NONE"]

VARIABLES
    object,    \* master: [ver, replicas] of each key; ver = 0 when absent
    versions,  \* number of versions committed so far
    hot,       \* hot-cache block of each key
    fills,     \* queued tasks of the hot-cache handler
    leaked,    \* history: pins that RedirectToHotCache took and forgot
    call,      \* what each reader is doing
    op,        \* the operation of each reader on each key
    staged,    \* the owner's buffer for an offload read
    writer,    \* the local write or removal in progress
    settled    \* history: keys last changed by a local Upsert or removal
               \* that has reported success

master == <<object, versions>>
cache == <<hot, fills, leaked>>
readers == <<call, op, staged>>
local == <<writer, settled>>
vars == <<master, cache, readers, local>>

NoCall == [kind |-> "none", keys |-> <<>>, lease |-> FALSE, pc |-> "idle"]
NoOp == [st |-> "none", replica |-> NoReplica, ver |-> 0, hit |-> FALSE,
         data |-> Garbage, result |-> "none"]
NotStaged == [vers |-> <<>>, ttl |-> FALSE, alive |-> FALSE]
NoWrite == [kind |-> "none", keys |-> {}, told |-> {}, pc |-> "idle"]

\* The replica lists of some keys
Placements(ks) == {l \in [ks -> UNION {Layouts[k] : k \in ks}] :
                      \A k \in ks : l[k] \in Layouts[k]}

Init ==
    /\ \E l \in Placements(Key) :
         object = [k \in Key |-> [ver |-> 1, replicas |-> l[k]]]
    /\ versions = [k \in Key |-> 1]
    /\ hot = [k \in Key |-> NoBlock]
    /\ fills = {}
    /\ leaked = [k \in Key |-> 0]
    /\ call = [r \in Reader |-> NoCall]
    /\ op = [r \in Reader |-> [k \in Key |-> NoOp]]
    /\ staged = [r \in Reader |-> NotStaged]
    /\ writer = NoWrite
    /\ settled = {}

-----------------------------------------------------------------------------
(* The hot cache (external).  A block that is removed while pinned stays   *)
(* readable for its pins, and is found by no lookup.                       *)

HasBlock(h, k) == h[k] # NoBlock
GetHotKey(h, k) == [h EXCEPT ![k].pins = @ + 1]

ReleaseHotKey(h, k) ==
    LET block == h[k] IN
    [h EXCEPT ![k] = IF block.stale /\ block.pins = 1 THEN NoBlock
                     ELSE [block EXCEPT !.pins = @ - 1]]

RemoveHotKeys(h, ks) ==
    [k \in Key |-> IF k \notin ks \/ ~HasBlock(h, k) THEN h[k]
                   ELSE IF h[k].pins = 0 THEN NoBlock
                   ELSE [h[k] EXCEPT !.stale = TRUE]]

\* BumpKeyGeneration and BumpCacheEpoch: a fill whose token is void does
\* nothing when it runs, so it leaves the queue at once.
Void(ks) == {f \in fills : f.key \notin ks}

\* The handler runs a fill whose token is valid.
PublishFill(f) ==
    /\ f \in fills
    /\ fills' = fills \ {f}
    /\ hot' = IF ~HasBlock(hot, f.key)
              THEN [hot EXCEPT ![f.key] =
                       [ver |-> f.ver, late |-> f.late, pins |-> 0, stale |-> FALSE]]
              ELSE hot
    /\ UNCHANGED <<master, leaked, readers, local>>

EvictBlock(k) ==
    /\ HasBlock(hot, k)
    /\ hot[k].pins = 0
    /\ hot' = [hot EXCEPT ![k] = NoBlock]
    /\ UNCHANGED <<master, fills, leaked, readers, local>>

-----------------------------------------------------------------------------
(* The call: query, and the route of each key                              *)

\* Local memory or NoF first, then memory, NoF, LOCAL_DISK, DISK, in list
\* order; the last LOCAL_DISK overrides the others.
SelectBestReplica(replicas) ==
    LET complete == SelectSeq(replicas, LAMBDA x : x.complete)
        OfType(t) == SelectSeq(complete, LAMBDA x : x.type = t)
        near == SelectSeq(complete,
                    LAMBDA x : x.local /\ x.type \in {"MEMORY", "NOF_SSD"})
        LastOf(s) == IF s = <<>> THEN s ELSE <<s[Len(s)]>>
        order == near \o OfType("MEMORY") \o OfType("NOF_SSD")
                   \o LastOf(OfType("LOCAL_DISK")) \o OfType("DISK")
    IN  IF order = <<>> THEN NoReplica ELSE Head(order)

\* Where each read function sends a replica: LOCAL_DISK to the offload RPC,
\* the others to Client::Get or BatchGet ("later": in a second BatchGet, through
\* a temporary buffer), or nowhere.
BufferRoute(type) == IF type = "LOCAL_DISK" THEN "offload" ELSE "ready"

IntoRoute(type) ==
    CASE type = "LOCAL_DISK" -> "offload" [] type = "DISK" -> "later" [] OTHER -> "ready"

\* A part of a NoF replica is not read.
RangedRoute(type) ==
    CASE type = "LOCAL_DISK" -> "offload" [] type = "NOF_SSD" -> "failed" [] OTHER -> "ready"

\* BatchGetWhenPreferSameNode reads memory only.
MultiBuffersRoute(type) ==
    CASE type = "LOCAL_DISK" -> "offload" [] type = "MEMORY" -> "ready" [] OTHER -> "failed"

Route(kind, replica) ==
    IF replica = NoReplica THEN "failed"
    ELSE CASE kind = "buffer" -> BufferRoute(replica.type)
           [] kind = "into" -> IntoRoute(replica.type)
           [] kind = "range" -> RangedRoute(replica.type)
           [] kind = "same_node" -> MultiBuffersRoute(replica.type)

\* The replicas that are read into a temporary buffer and copied from there,
\* which may fail
Scatters(kind, replica) == kind \in {"into", "range"} /\ replica.type = "DISK"

\* A failed operation; nothing of its transfer is looked at again.
Failed == [NoOp EXCEPT !.st = "done", !.result = "FAIL"]

\* The operation on k after Query or BatchQuery; refused: no buffer for it,
\* or the caller's is too small.
Queried(kind, k, refused) ==
    LET replica == SelectBestReplica(object[k].replicas)
        route == Route(kind, replica)
    IN  IF object[k].ver = 0 \/ route = "failed" \/ k \in refused THEN Failed
        ELSE [NoOp EXCEPT !.st = route, !.replica = replica,
                          !.ver = object[k].ver]

\* The keys a call names
Named(keys) == {keys[i] : i \in DOMAIN keys}

\* The leases of a call begin with its query, before the RPC.
BeginRead(r, c) ==
    LET ks == Named(c.keys) IN
    /\ call[r].pc = "idle"
    /\ \E refused \in SUBSET ks :
         op' = [op EXCEPT ![r] =
                   [k \in Key |-> IF k \in ks THEN Queried(c.kind, k, refused) ELSE NoOp]]
    /\ call' = [call EXCEPT ![r] = [kind |-> c.kind, keys |-> c.keys,
                                    lease |-> TRUE, pc |-> "read"]]
    /\ UNCHANGED <<master, cache, staged, local>>

\* The keys of the call of r in one of some states, and the first of them in
\* the order of the call
InState(r, sts) == {k \in Named(call[r].keys) : op[r][k].st \in sts}
IsFirst(r, k, sts) ==
    /\ op[r][k].st \in sts
    /\ k \in Named(call[r].keys)
    /\ Head(SelectSeq(call[r].keys, LAMBDA x : op[r][x].st \in sts)) = k

-----------------------------------------------------------------------------
(* Client::Get, Client::BatchGet, BatchGetWhenPreferSameNode               *)

\* RedirectToHotCache: a block of another size, which only a block of another
\* version can have, stays pinned.
Redirect(r, k) ==
    LET o == op[r][k]
        found == /\ call[r].kind # "range"
                 /\ o.replica.type = "MEMORY"
                 /\ HasBlock(hot, k)
                 /\ ~hot[k].stale
        pinned == GetHotKey(hot, k)
    IN  IF ~found THEN {[hot |-> hot, hit |-> FALSE, lost |-> FALSE]}
        ELSE {[hot |-> pinned, hit |-> TRUE, lost |-> FALSE]} \union
             IF hot[k].ver = o.ver THEN {}
             ELSE {[hot |-> pinned, hit |-> FALSE, lost |-> TRUE]}

Submit(r, k) ==
    /\ IsFirst(r, k, {"ready"})
    /\ \E d \in Redirect(r, k) :
         /\ d.lost => leaked[k] < MaxLeak
         /\ hot' = d.hot
         /\ leaked' = [leaked EXCEPT ![k] = IF d.lost THEN @ + 1 ELSE @]
         /\ op' = [op EXCEPT ![r][k] =
                      [op[r][k] EXCEPT !.st = "submitted", !.hit = d.hit,
                                       !.ver = IF d.hit THEN d.hot[k].ver
                                               ELSE op[r][k].ver]]
    /\ UNCHANGED <<master, fills, call, staged, local>>

\* submit() returned no future: the pin is released at once.
SubmitFails(r, k) ==
    /\ call[r].kind # "same_node"
    /\ IsFirst(r, k, {"ready"})
    /\ \E d \in Redirect(r, k) :
         /\ ~d.lost
         /\ hot' = IF d.hit THEN ReleaseHotKey(d.hot, k) ELSE d.hot
    /\ op' = [op EXCEPT ![r][k] = Failed]
    /\ UNCHANGED <<master, fills, leaked, call, staged, local>>

\* The bytes a transfer may find (engine).  Memory and files of a version that
\* is no longer the object's may be reused, but not under a lease: Query's
\* lease starts before the RPC, so it ends before the master's.
Source(k, o, lease) ==
    IF o.hit
    THEN {IF HasBlock(hot, k) /\ hot[k].ver = o.ver THEN o.ver ELSE Overwritten}
    ELSE {o.ver} \union IF o.ver # object[k].ver /\ ~lease THEN {Garbage} ELSE {}

Transfer(r, k) ==
    /\ op[r][k].st = "submitted"
    /\ \E data \in Source(k, op[r][k], call[r].lease) :
         op' = [op EXCEPT ![r][k] = [op[r][k] EXCEPT !.st = "moved", !.data = data]]
    /\ UNCHANGED <<master, cache, call, staged, local>>

TransferFails(r, k) ==
    /\ op[r][k].st = "submitted"
    /\ call[r].kind # "same_node"
    /\ op' = [op EXCEPT ![r][k] = [op[r][k] EXCEPT !.st = "broken"]]
    /\ UNCHANGED <<master, cache, call, staged, local>>

\* Mutant: the pin is given back although none was taken.
UnpinnedAlways(r, ks, h) ==
    [k \in Key |-> IF k \in ks /\ HasBlock(h, k) THEN ReleaseHotKey(h, k)[k] ELSE h[k]]

\* ReleaseHotKey after the transfer
Unpinned(r, ks, h) ==
    [k \in Key |-> IF k \in ks /\ op[r][k].hit THEN ReleaseHotKey(h, k)[k] ELSE h[k]]

\* ShouldAdmitToHotCache (the sketch may say yes or no) and the tests of
\* ProcessSlicesAsync; SubmitPutTask takes the token.
Admissible(o) ==
    /\ ~o.hit
    /\ o.replica.type = "MEMORY"
    /\ IsShm \/ ~o.replica.local

ProcessSlicesAsync(k, o) ==
    [key |-> k, ver |-> o.data, late |-> o.data # object[k].ver]

\* One future of Get or BatchGet; the wait loop starts when all are submitted.
Wait(r, k) ==
    LET o == op[r][k] IN
    /\ call[r].kind # "same_node" /\ o.st = "moved"
    /\ InState(r, {"ready"}) = {}
    /\ IsFirst(r, k, {"submitted", "moved", "broken"})
    /\ hot' = Unpinned(r, {k}, hot)
    /\ \/ fills' = fills
       \/ /\ Admissible(o) /\ call[r].kind # "range"
          /\ Cardinality(fills) < QueueSize
          /\ fills' = fills \union {ProcessSlicesAsync(k, o)}
    /\ op' = [op EXCEPT ![r][k] = [op[r][k] EXCEPT !.st = "done", !.result = "OK"]]
    /\ UNCHANGED <<master, leaked, call, staged, local>>

WaitFailed(r, k) ==
    /\ op[r][k].st = "broken"
    /\ InState(r, {"ready"}) = {}
    /\ IsFirst(r, k, {"submitted", "moved", "broken"})
    /\ hot' = Unpinned(r, {k}, hot)
    /\ op' = [op EXCEPT ![r][k] = Failed]
    /\ UNCHANGED <<master, fills, leaked, call, staged, local>>

\* Same-node reads: one transfer for the keys of one endpoint; a hot block is
\* on this node.
Segment(r, here) ==
    {k \in InState(r, {"submitted", "moved"}) :
        here = (op[r][k].hit \/ op[r][k].replica.local)}

SegmentDone(r, here) ==
    LET ks == Segment(r, here) IN
    /\ call[r].kind = "same_node"
    /\ InState(r, {"ready"}) = {}
    /\ ks # {} /\ \A k \in ks : op[r][k].st = "moved"
    /\ hot' = Unpinned(r, ks, hot)
    /\ \E admitted \in SUBSET {k \in ks : Admissible(op[r][k])} :
         /\ Cardinality(fills) + Cardinality(admitted) <= QueueSize
         /\ fills' = fills \union {ProcessSlicesAsync(k, op[r][k]) : k \in admitted}
    /\ op' = [op EXCEPT ![r] =
                 [k \in Key |-> IF k \in ks
                                THEN [op[r][k] EXCEPT !.st = "done", !.result = "OK"]
                                ELSE op[r][k]]]
    /\ UNCHANGED <<master, leaked, call, staged, local>>

\* Mutant: the pins of a failed segment are kept.
SegmentFailsPinned(r, here) ==
    LET ks == Segment(r, here) IN
    /\ call[r].kind = "same_node"
    /\ InState(r, {"ready"}) = {}
    /\ ks # {}
    /\ op' = [op EXCEPT ![r] =
                 [k \in Key |-> IF k \in ks THEN Failed ELSE op[r][k]]]
    /\ UNCHANGED <<master, hot, fills, leaked, call, staged, local>>

SegmentFails(r, here) ==
    LET ks == Segment(r, here) IN
    /\ call[r].kind = "same_node"
    /\ InState(r, {"ready"}) = {}
    /\ ks # {}
    /\ hot' = Unpinned(r, ks, hot)
    /\ op' = [op EXCEPT ![r] =
                 [k \in Key |-> IF k \in ks THEN Failed ELSE op[r][k]]]
    /\ UNCHANGED <<master, fills, leaked, call, staged, local>>

\* The operations after a BatchGet: those in failing fail, and those of
\* the second BatchGet are prepared.
AfterBatchGet(r, failing) ==
    [k \in Key |-> CASE op[r][k].st = "done" ->
                           [op[r][k] EXCEPT !.st = "returned",
                                            !.result = IF k \in failing THEN "FAIL" ELSE @]
                     [] op[r][k].st = "later" -> [op[r][k] EXCEPT !.st = "ready"]
                     [] OTHER -> op[r][k]]

\* Mutant: the lease is not looked at.
LeaseCheckSkipped(r) ==
    /\ call[r].pc = "read"
    /\ Named(call[r].keys) = InState(r, {"done", "returned", "later", "offload"})
    /\ op' = [op EXCEPT ![r] = AfterBatchGet(r, {})]
    /\ call' = [call EXCEPT ![r].pc = IF InState(r, {"later"}) # {} THEN "read"
                                      ELSE IF InState(r, {"offload"}) # {} THEN "offload"
                                      ELSE "return"]
    /\ UNCHANGED <<master, cache, staged, local>>

\* The end of a Get or BatchGet: IsLeaseExpired, with one reading of the clock,
\* and the copy from a temporary buffer.
LeaseCheck(r) ==
    LET ok == {k \in InState(r, {"done"}) : op[r][k].result = "OK"}
        late == IF call[r].kind = "same_node" \/ call[r].lease THEN {} ELSE ok
        copied == {k \in ok : Scatters(call[r].kind, op[r][k].replica)} IN
    /\ call[r].pc = "read"
    /\ Named(call[r].keys) = InState(r, {"done", "returned", "later", "offload"})
    /\ \E torn \in SUBSET copied :
         op' = [op EXCEPT ![r] = AfterBatchGet(r, late \union torn)]
    /\ call' = [call EXCEPT ![r].pc = IF InState(r, {"later"}) # {} THEN "read"
                                      ELSE IF InState(r, {"offload"}) # {} THEN "offload"
                                      ELSE "return"]
    /\ UNCHANGED <<master, cache, staged, local>>

-----------------------------------------------------------------------------
(* batch_get_into_offload_object_internal                                  *)

OffloadResult(r, result, data) ==
    op' = [op EXCEPT ![r] =
              [k \in Key |-> IF op[r][k].st = "offload"
                             THEN [op[r][k] EXCEPT !.st = "done", !.result = result,
                                                   !.data = data[k]]
                             ELSE op[r][k]]]

\* batch_get_offload_object: the owner reads its files into a buffer.
StageOffload(r) ==
    LET ks == InState(r, {"offload"}) IN
    /\ call[r].pc = "offload"
    /\ \A k \in ks : /\ object[k].ver # 0
                     /\ \E i \in DOMAIN object[k].replicas :
                          object[k].replicas[i].type = "LOCAL_DISK"
    /\ staged' = [staged EXCEPT ![r] =
                     [vers |-> [k \in Key |-> IF k \in ks THEN object[k].ver
                                              ELSE Garbage],
                      ttl |-> TRUE, alive |-> TRUE]]
    /\ call' = [call EXCEPT ![r].pc = "staged"]
    /\ UNCHANGED <<master, cache, op, local>>

StageFails(r) ==
    /\ call[r].pc = "offload"
    /\ OffloadResult(r, "FAIL", [k \in Key |-> Garbage])
    /\ call' = [call EXCEPT ![r].pc = "return"]
    /\ UNCHANGED <<master, cache, staged, local>>

\* The buffer's time to live runs out; then its collector may reuse it.
OffloadTtlPasses(r) ==
    /\ staged[r].ttl
    /\ staged' = [staged EXCEPT ![r].ttl = FALSE]
    /\ UNCHANGED <<master, cache, call, op, local>>

CollectStaged(r) ==
    /\ staged[r].alive /\ ~staged[r].ttl
    /\ staged' = [staged EXCEPT ![r].alive = FALSE]
    /\ UNCHANGED <<master, cache, call, op, local>>

BatchGetOffloadObject(r) ==
    /\ call[r].pc = "staged"
    /\ staged' = [staged EXCEPT ![r].vers =
                     [k \in Key |-> IF staged[r].alive THEN staged[r].vers[k] ELSE Garbage]]
    /\ call' = [call EXCEPT ![r].pc = "fetched"]
    /\ UNCHANGED <<master, cache, op, local>>

\* release_offload_buffer, then the check of the elapsed time
OffloadReturn(r, ok) ==
    /\ call[r].pc = IF ok THEN "fetched" ELSE "staged"
    /\ OffloadResult(r, IF ok /\ staged[r].ttl THEN "OK" ELSE "FAIL", staged[r].vers)
    /\ staged' = [staged EXCEPT ![r] = NotStaged]
    /\ call' = [call EXCEPT ![r].pc = "return"]
    /\ UNCHANGED <<master, cache, local>>

-----------------------------------------------------------------------------
(* acquire_hot_cache and release_hot_cache, called for a dummy client that *)
(* reads the block in shared memory                                        *)

AcquireHotCache(r, k) ==
    /\ IsShm
    /\ call[r].pc = "idle"
    /\ HasBlock(hot, k) /\ ~hot[k].stale
    /\ hot' = GetHotKey(hot, k)
    /\ op' = [op EXCEPT ![r][k] = [op[r][k] EXCEPT !.st = "held", !.hit = TRUE, !.ver = hot[k].ver]]
    /\ call' = [call EXCEPT ![r] = [NoCall EXCEPT !.keys = <<k>>, !.pc = "held"]]
    /\ UNCHANGED <<master, fills, leaked, staged, local>>

\* The dummy client has copied the block.
ReleaseHotCache(r, k) ==
    /\ op[r][k].st = "held"
    /\ hot' = ReleaseHotKey(hot, k)
    /\ \E data \in Source(k, op[r][k], FALSE) :
         op' = [op EXCEPT ![r][k] = [op[r][k] EXCEPT !.st = "done", !.data = data, !.result = "OK"]]
    /\ call' = [call EXCEPT ![r].pc = "return"]
    /\ UNCHANGED <<master, fills, leaked, staged, local>>

\* The caller has its results.
Return(r) ==
    /\ call[r].pc = "return"
    /\ call' = [call EXCEPT ![r] = NoCall]
    /\ op' = [op EXCEPT ![r] = [k \in Key |-> NoOp]]
    /\ UNCHANGED <<master, cache, staged, local>>

-----------------------------------------------------------------------------
(* The master (external), other clients, and time                          *)

LeaseExpires(r) ==
    /\ call[r].lease /\ call[r].pc = "read"
    /\ call' = [call EXCEPT ![r].lease = FALSE]
    /\ UNCHANGED <<master, cache, op, staged, local>>

Commit(ks) ==
    /\ \E l \in Placements(ks) :
         object' = [k \in Key |-> IF k \in ks
                                  THEN [ver |-> versions[k] + 1, replicas |-> l[k]]
                                  ELSE object[k]]
    /\ versions' = [k \in Key |-> IF k \in ks THEN versions[k] + 1 ELSE versions[k]]
    /\ settled' = settled \ ks

Drop(ks) ==
    /\ object' = [k \in Key |-> IF k \in ks THEN [ver |-> 0, replicas |-> <<>>]
                                ELSE object[k]]
    /\ settled' = settled \ ks
    /\ UNCHANGED versions

\* Another client writes or removes the key, or the master evicts it.
RemoteChange(k) ==
    /\ \/ versions[k] < MaxVersion /\ Commit({k})
       \/ object[k].ver # 0 /\ Drop({k})
    /\ UNCHANGED <<cache, readers, writer>>

-----------------------------------------------------------------------------
(* Local writes and removals, as far as the hot cache is concerned         *)

\* Put, Upsert and their batches remove the blocks before the master is asked,
\* and Put does nothing after it.  Remove and BatchRemove only void the tokens
\* of their keys; RemoveByRegex and RemoveAll ("bulk") those of the whole cache.
BeginWrite(kind, ks) ==
    /\ writer.pc = "idle"
    /\ writer' = [kind |-> kind, keys |-> ks, told |-> {}, pc |-> "started"]
    /\ hot' = IF kind \in {"put", "upsert"} THEN RemoveHotKeys(hot, ks) ELSE hot
    /\ fills' = Void(IF kind = "bulk" THEN Key ELSE ks)
    /\ UNCHANGED <<master, leaked, readers, settled>>

\* The master applies the call to some keys and the answer names some of
\* these; the answer to a bulk removal is a number.
MasterWrites ==
    LET absent(k) == object[k].ver = 0
        writable == {k \in writer.keys : /\ versions[k] < MaxVersion
                                         /\ writer.kind = "put" => absent(k)}
        removable == {k \in writer.keys : ~absent(k)}
        Answered(told) ==
            writer' = IF told = {} \/ writer.kind = "put" THEN NoWrite
                      ELSE [writer EXCEPT !.told = told, !.pc = "ended"] IN
    /\ writer.pc = "started"
    /\ \/ /\ writer.kind \in {"put", "upsert"}
          /\ \E ks \in SUBSET writable :
                Commit(ks) /\ \E told \in SUBSET ks : Answered(told)
       \/ /\ writer.kind = "remove"
          /\ \E ks \in SUBSET removable :
                Drop(ks) /\ \E told \in SUBSET ks : Answered(told)
       \/ /\ writer.kind = "bulk"
          /\ \E ks \in SUBSET removable :
                Drop(ks) /\ \E told \in {{}, ks} : Answered(told)
    /\ UNCHANGED <<cache, readers>>

\* Mutant: the blocks are removed and the tokens stay valid.
FinishWriteKeepsTokens ==
    LET gone == IF writer.kind = "bulk" THEN writer.keys ELSE writer.told IN
    /\ writer.pc = "ended"
    /\ hot' = RemoveHotKeys(hot, gone)
    /\ settled' = settled \union gone
    /\ writer' = NoWrite
    /\ UNCHANGED <<master, fills, leaked, readers>>

\* The success side: blocks of the finalized, removed or matching keys go,
\* with their tokens; a bulk removal voids every token again.
FinishWrite ==
    LET bulk == writer.kind = "bulk"
        gone == IF bulk THEN writer.keys ELSE writer.told IN
    /\ writer.pc = "ended"
    /\ hot' = RemoveHotKeys(hot, gone)
    /\ fills' = Void(IF bulk THEN Key ELSE gone)
    /\ settled' = settled \union gone
    /\ writer' = NoWrite
    /\ UNCHANGED <<master, leaked, readers>>

-----------------------------------------------------------------------------
ReadStep(r, k) ==
    \/ Submit(r, k) \/ SubmitFails(r, k)
    \/ Transfer(r, k) \/ TransferFails(r, k)
    \/ Wait(r, k) \/ WaitFailed(r, k)
    \/ AcquireHotCache(r, k) \/ ReleaseHotCache(r, k)

CallStep(r) ==
    \/ \E c \in Calls : BeginRead(r, c)
    \/ \E here \in BOOLEAN : SegmentDone(r, here) \/ SegmentFails(r, here)
    \/ LeaseCheck(r) \/ LeaseExpires(r)
    \/ StageOffload(r) \/ StageFails(r)
    \/ OffloadTtlPasses(r) \/ CollectStaged(r)
    \/ BatchGetOffloadObject(r)
    \/ \E ok \in BOOLEAN : OffloadReturn(r, ok)
    \/ Return(r)

CacheStep ==
    \/ \E f \in fills : PublishFill(f)
    \/ \E k \in Key : EvictBlock(k)

WriteStep ==
    \/ \E kind \in {"put", "upsert", "remove", "bulk"},
           ks \in (SUBSET Changing) \ {{}} : BeginWrite(kind, ks)
    \/ MasterWrites
    \/ FinishWrite

Next ==
    \/ \E r \in Reader, k \in Key : ReadStep(r, k)
    \/ \E r \in Reader : CallStep(r)
    \/ CacheStep
    \/ WriteStep
    \/ \E k \in Changing : RemoteChange(k)

Spec == Init /\ [][Next]_vars

-----------------------------------------------------------------------------
Data == -1..MaxVersion

\* The state is well formed; in particular a pin is never released twice.
TypeOK ==
    /\ \A k \in Key : object[k].ver \in 0..versions[k] /\ versions[k] \in Version
    /\ \A k \in Key : HasBlock(hot, k) =>
         hot[k].ver \in 0..MaxVersion /\ hot[k].pins \in Nat /\ hot[k].stale \in BOOLEAN
    /\ \A f \in fills : f.key \in Key /\ f.ver \in 0..MaxVersion
    /\ leaked \in [Key -> 0..MaxLeak]
    /\ \A r \in Reader :
         /\ call[r].pc \in {"idle", "read", "offload", "staged", "fetched", "held", "return"}
         /\ \A k \in Key :
              /\ op[r][k].st \in {"none", "ready", "offload", "submitted", "moved",
                                  "broken", "held", "done", "later", "returned"}
              /\ op[r][k].ver \in 0..MaxVersion /\ op[r][k].data \in Data
              /\ op[r][k].result \in {"none", "OK", "FAIL"}
    /\ writer.pc \in {"idle", "started", "ended"} /\ writer.keys \subseteq Key
    /\ settled \subseteq Key

\* A read that reports success read the bytes it was sent to: without the
\* cache, a version of the key no older than the one the query saw (Client::Get,
\* BatchGet and the offload read compare the clock with the lease or the
\* buffer's time to live after the transfer, since the memory may be reused);
\* with the cache, the block that was pinned (RedirectToHotCache .. ReleaseHotKey).
\* Reads on the same node do not look at the lease and are left out.
OkReadsAreIntact ==
    \A r \in Reader, k \in Key : LET o == op[r][k] IN
        (call[r].pc = "return" /\ o.result = "OK") =>
            IF o.hit THEN o.data # Overwritten
            ELSE o.data >= o.ver \/ call[r].kind = "same_node"

\* Every pin of a block belongs to a read between RedirectToHotCache and
\* ReleaseHotKey or to a dummy client, apart from those taken when the sizes
\* differed: no path of Get, BatchGet or BatchGetWhenPreferSameNode keeps a pin
\* or gives one back twice, whatever fails and whatever is removed meanwhile.
PinsBalance ==
    \A k \in Key :
        LET reading == {r \in Reader : /\ op[r][k].hit
                                       /\ op[r][k].st \in {"submitted", "moved", "broken", "held"}}
        IN  IF HasBlock(hot, k)
            THEN hot[k].pins = Cardinality(reading) + leaked[k]
            ELSE Cardinality(reading) + leaked[k] = 0

\* After an Upsert or a removal has reported success, the cache holds no older
\* value that was current when its fill was submitted: the tokens of such fills
\* are voided by the success-side invalidation, however late they run.
StaleFillsNeverPublish ==
    \A k \in Key :
        (HasBlock(hot, k) /\ ~hot[k].stale /\ k \in settled) =>
            hot[k].ver = object[k].ver \/ hot[k].late
=============================================================================
