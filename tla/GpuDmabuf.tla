------------------------------ MODULE GpuDmabuf ------------------------------
(***************************************************************************)
(* The GPU dma-buf memory domain of spdk/lib/dma/gpu_dmabuf.c: a global    *)
(* list of domains, each with a tree of registered regions and a tree of   *)
(* cached RDMA memory regions (MRs), used by concurrent callers.           *)
(*                                                                         *)
(* A call is a sequence of steps.  Looking a domain up takes and releases  *)
(* the list lock; the rest of the call runs later, under the domain's own  *)
(* lock.  Each locked section is one step, because everything it reads or  *)
(* writes belongs to that domain.                                          *)
(***************************************************************************)
EXTENDS AddressRanges, FiniteSets

CONSTANTS
  Thread,       \* callers: NVMe-oF pollers and application threads
  GD,           \* addresses at which a struct gpu_dmabuf_domain may live
  PD,           \* RDMA protection domains
  Device,       \* GPU ordinals, a set of naturals
  Key,          \* lkey/rkey values
  Ranges,       \* ranges passed to register and to translate
  Alloc,        \* ranges that the GPU driver may hand out as one allocation
  DeviceOf,     \* the device on which each allocation lives
  None          \* a null pointer

\* register refuses a null address and an empty range (line 769).
ASSUME RangeAssumption ==
  /\ Ranges \cup Alloc \subseteq [addr : Nat \ {0}, len : Nat \ {0}]
  /\ \A r \in Ranges \cup Alloc : Plain(r)

ASSUME DeviceAssumption ==
  /\ Device \subseteq Nat
  /\ DeviceOf \in [Alloc -> Device]

ASSUME NoneAssumption == None \notin GD \cup PD \cup Ranges \cup Alloc

VARIABLES
  domains,      \* g_gpu_dmabuf_domains
  heap,         \* domains that are calloc'ed and not freed
  conf,         \* per domain: cuda_device_id and where cuda_ctx came from
  regions,      \* per domain: the region tree
  mr_cache,     \* per domain: the MR tree
  cuda_ctxs,    \* per domain: devices whose primary context it retains
  ibv_mrs,      \* external: MRs the RDMA device holds
  primary,      \* external: reference count of each primary context
  allocated,    \* external: live GPU allocations
  retiring,     \* allocations the application has begun to free
  owed,         \* <<allocation, domain>> still to be invalidated before free
  io,           \* I/O in flight with a translation result
  call          \* per thread: the call it is in

vars == <<domains, heap, conf, regions, mr_cache, cuda_ctxs, ibv_mrs, primary,
          allocated, retiring, owed, io, call>>

gpuVars == <<ibv_mrs, primary>>
appVars == <<allocated, retiring, owed>>
domainVars == <<domains, heap, conf>>
treeVars == <<regions, mr_cache, cuda_ctxs>>

Region == [addr : Nat, len : Nat, dev : Device]
Mr == [addr : Nat, len : Nat, dev : Device, pd : PD, key : Key]
IbvMr == [key : Key, pd : PD, addr : Nat, len : Nat]
\* A domain bound to no device has no context or the caller's; a domain bound to
\* a device has the caller's, or else it retains the primary context (line 1011).
Conf == [dev : {-1}, ctx : {"none", "user"}] \cup [dev : Device, ctx : {"user", "owned"}]
IO == [gd : GD, pd : PD, key : Key, rng : Ranges]
Pc == {"idle", "created", "register", "registerDevice", "translate",
       "invalidate", "destroy", "destroyUnlinked", "destroyCleared"}
Call == [at : Pc, gd : GD \cup {None}, pd : PD \cup {None},
         rng : Ranges \cup Alloc \cup {None}, dev : Device \cup {-1}]

Idle == [at |-> "idle", gd |-> None, pd |-> None, rng |-> None, dev |-> -1]

TypeOK ==
  /\ domains \subseteq GD
  /\ heap \subseteq GD
  /\ conf \in [GD -> Conf]
  /\ regions \in [GD -> SUBSET Region]
  /\ mr_cache \in [GD -> SUBSET Mr]
  /\ cuda_ctxs \in [GD -> SUBSET Device]
  /\ ibv_mrs \subseteq IbvMr
  /\ primary \in [Device -> Int]
  /\ allocated \subseteq Alloc
  /\ retiring \subseteq allocated
  /\ owed \subseteq retiring \X heap
  /\ io \subseteq IO
  /\ call \in [Thread -> Call]

NoConf == [dev |-> -1, ctx |-> "none"]

Init ==
  /\ domains = {}
  /\ heap = {}
  /\ conf = [gd \in GD |-> NoConf]
  /\ regions = [gd \in GD |-> {}]
  /\ mr_cache = [gd \in GD |-> {}]
  /\ cuda_ctxs = [gd \in GD |-> {}]
  /\ ibv_mrs = {}
  /\ primary = [d \in Device |-> 0]
  /\ allocated = {}
  /\ retiring = {}
  /\ owed = {}
  /\ io = {}
  /\ call = [t \in Thread |-> Idle]

OverlapsAny(S, rng) == \E s \in S : Overlaps(s, rng.addr, rng.len)

At(t, pc) == call[t].at = pc

Goto(t, pc, gd, pd, rng, dev) ==
  call' = [call EXCEPT ![t] = [at |-> pc, gd |-> gd, pd |-> pd, rng |-> rng, dev |-> dev]]

Return(t) == call' = [call EXCEPT ![t] = Idle]

-----------------------------------------------------------------------------
(* What callers may do.                                                    *)

\* A domain found in the list is not protected by anything, so a caller of
\* destroy must know that no other call uses the domain and that none starts
\* until it has left the list.  Calls that come after that are allowed.
Quiescing(gd) == \E t \in Thread : At(t, "destroy") /\ call[t].gd = gd

CallStarts(t, pc, gd, pd, rng) ==
  /\ At(t, "idle")
  /\ ~Quiescing(gd)
  /\ gd \in domains                                  \* domain_find
  /\ Goto(t, pc, gd, pd, rng, -1)

\* The application frees an allocation after its calls have invalidated it in
\* every domain; it does not register it meanwhile nor free it under its own I/O.
AppAlloc(al) ==
  /\ \A other \in allocated : Disjoint(other, al)
  /\ al \notin allocated
  /\ allocated' = allocated \cup {al}
  /\ UNCHANGED <<domainVars, treeVars, gpuVars, retiring, owed, io, call>>

RegisterInFlight(t) == call[t].at \in {"register", "registerDevice"}

AppRetire(al) ==
  /\ al \in allocated \ retiring
  /\ \A t \in Thread :
       RegisterInFlight(t) => ~Overlaps(al, call[t].rng.addr, call[t].rng.len)
  /\ retiring' = retiring \cup {al}
  /\ owed' = owed \cup ({al} \X heap)
  /\ UNCHANGED <<domainVars, treeVars, gpuVars, allocated, io, call>>

AppFree(al) ==
  /\ al \in retiring
  /\ \A gd \in GD : <<al, gd>> \notin owed
  /\ ~\E t \in Thread : At(t, "invalidate") /\ call[t].rng = al
  /\ ~\E i \in io : Overlaps(al, i.rng.addr, i.rng.len)
  /\ allocated' = allocated \ {al}
  /\ retiring' = retiring \ {al}
  /\ UNCHANGED <<domainVars, treeVars, gpuVars, owed, io, call>>

IoDone(i) ==
  /\ i \in io
  /\ io' = io \ {i}
  /\ UNCHANGED <<domainVars, treeVars, gpuVars, appVars, call>>

-----------------------------------------------------------------------------
(* create *)

\* calloc, gpu_init and, when the domain is bound to a device and no context
\* was passed, retaining the primary context.  An error before that frees gd.
CreateRetain(t, gd, c) ==
  /\ At(t, "idle")
  /\ gd \notin heap
  /\ heap' = heap \cup {gd}
  /\ conf' = [conf EXCEPT ![gd] = c]
  /\ primary' = IF c.ctx = "owned" THEN [primary EXCEPT ![c.dev] = @ + 1]
                                   ELSE primary
  /\ Goto(t, "created", gd, None, None, -1)
  /\ UNCHANGED <<domains, treeVars, ibv_mrs, appVars, io>>

CreatePublish(t) ==
  /\ At(t, "created")
  /\ domains' = domains \cup {call[t].gd}
  /\ Return(t)
  /\ UNCHANGED <<heap, conf, treeVars, gpuVars, appVars, io>>

\* pthread_mutex_destroy, free(gd); the conf of a freed domain is forgotten.
FreeDomain(gd) ==
  /\ heap' = heap \ {gd}
  /\ conf' = [conf EXCEPT ![gd] = NoConf]

\* A slip for mutation checks: the error path forgets the retained context.
CreateFailKeepsCtx(t) ==
  /\ At(t, "created")
  /\ FreeDomain(call[t].gd)
  /\ owed' = {p \in owed : p[2] # call[t].gd}
  /\ Return(t)
  /\ UNCHANGED <<domains, treeVars, gpuVars, allocated, retiring, io>>

\* spdk_memory_domain_create failed.
CreateFail(t) ==
  LET gd == call[t].gd IN
  /\ At(t, "created")
  /\ primary' = IF conf[gd].ctx = "owned"
                  THEN [primary EXCEPT ![conf[gd].dev] = @ - 1] ELSE primary
  /\ FreeDomain(gd)
  /\ owed' = {p \in owed : p[2] # gd}
  /\ Return(t)
  /\ UNCHANGED <<domains, treeVars, ibv_mrs, allocated, retiring, io>>

-----------------------------------------------------------------------------
(* The two trees of one domain. *)

FindRegion(gd, rng) == FindContaining(regions[gd], rng.addr, rng.len)

FindOverlappingRegion(gd, rng) == FindOverlapping(regions[gd], rng.addr, rng.len)

\* A slip for mutation checks: the protection domain is not compared.
MrsOfAnyPd(gd, dev, pd) == {m \in mr_cache[gd] : m.dev = dev}

\* mr_compare orders by device and protection domain first, and a neighbour of
\* another device or protection domain is rejected.
MrsOf(gd, dev, pd) == {m \in mr_cache[gd] : m.dev = dev /\ m.pd = pd}

FindMr(gd, dev, pd, rng) == FindContaining(MrsOf(gd, dev, pd), rng.addr, rng.len)

FindOverlappingMr(gd, dev, pd, rng) ==
  FindOverlapping(MrsOf(gd, dev, pd), rng.addr, rng.len)

\* gpu_dmabuf_add_region: the region that holds the range, or a new one for it;
\* no region when it returns -EINVAL or RB_INSERT refuses a duplicate address.
AddRegion(gd, rng, dev) ==
  IF FindRegion(gd, rng) # {}
    THEN {r \in FindRegion(gd, rng) : r.dev = dev}
    ELSE {r \in {[addr |-> rng.addr, len |-> rng.len, dev |-> dev]} :
            /\ FindOverlappingRegion(gd, rng) = {}
            /\ \A q \in regions[gd] : q.addr # r.addr}

\* gpu_dmabuf_get_cuda_ctx: a domain without a context of its own retains the
\* primary context of each device it meets, once.
NeedsCtx(gd, dev) == conf[gd].ctx = "none" /\ dev \notin cuda_ctxs[gd]

GetCudaCtx(gd, dev) ==
  /\ cuda_ctxs' = IF NeedsCtx(gd, dev)
                    THEN [cuda_ctxs EXCEPT ![gd] = @ \cup {dev}] ELSE cuda_ctxs
  /\ primary' = IF NeedsCtx(gd, dev)
                  THEN [primary EXCEPT ![dev] = @ + 1] ELSE primary

\* gpu_mem_get_address_range found allocation al, and the range lies in it.
InsideAllocation(al, rng) ==
  /\ al \in allocated
  /\ Contains(al, rng.addr, 1)
  /\ rng.addr - al.addr <= al.len
  /\ rng.len <= al.len - (rng.addr - al.addr)

KeyInUse(k) == \E h \in ibv_mrs : h.key = k

\* gpu_dmabuf_register_mr returns 0: the allocation is exported, the range is
\* registered under a key that is free, and the MR enters the tree.
RegisterMr(gd, dev, pd, rng, k) ==
  /\ FindOverlappingMr(gd, dev, pd, rng) = {}
  /\ GetCudaCtx(gd, dev)
  /\ \E al \in Alloc : InsideAllocation(al, rng)
  /\ ~KeyInUse(k)
  /\ ibv_mrs' = ibv_mrs \cup
       {[key |-> k, pd |-> pd, addr |-> rng.addr, len |-> rng.len]}
  /\ mr_cache' = [mr_cache EXCEPT ![gd] = @ \cup
       {[addr |-> rng.addr, len |-> rng.len, dev |-> dev, pd |-> pd, key |-> k]}]

\* It fails: on the overlap check or calloc, before a context is taken, or in
\* any of the calls into the GPU driver or the RDMA device, after that.
RegisterMrFails(gd, dev) ==
  /\ \/ UNCHANGED <<cuda_ctxs, primary>>
     \/ GetCudaCtx(gd, dev)
  /\ UNCHANGED <<mr_cache, ibv_mrs>>

-----------------------------------------------------------------------------
(* register *)

RegisterStart(t, gd, pd, rng) ==
  /\ ~OverlapsAny(retiring, rng)
  /\ CallStarts(t, "register", gd, pd, rng)
  /\ UNCHANGED <<domainVars, treeVars, gpuVars, appVars, io>>

\* gpu_dmabuf_get_ptr_device_id, before the lock: the device the domain is bound
\* to, or else the one the driver reports for the pointer.
PtrDevices(gd, rng) ==
  IF conf[gd].dev # -1
    THEN {conf[gd].dev}
    ELSE {DeviceOf[al] : al \in {x \in allocated : Contains(x, rng.addr, 1)}}

RegisterDevice(t) ==
  /\ At(t, "register")
  /\ \E dev \in PtrDevices(call[t].gd, call[t].rng) :
       Goto(t, "registerDevice", call[t].gd, call[t].pd, call[t].rng, dev)
  /\ UNCHANGED <<domainVars, treeVars, gpuVars, appVars, io>>

\* rdma_domain has no protection domain, the device of the pointer is unknown,
\* or add_region fails.
RegisterRejected(t) ==
  /\ \/ At(t, "register")
     \/ /\ At(t, "registerDevice")
        /\ ~\E r \in FindRegion(call[t].gd, call[t].rng) : r.dev = call[t].dev
  /\ Return(t)
  /\ UNCHANGED <<domainVars, treeVars, gpuVars, appVars, io>>

\* The locked section.  The region stays in the tree when register_mr fails.
RegisterLocked(t) ==
  LET gd == call[t].gd
      pd == call[t].pd
  IN
  /\ At(t, "registerDevice")
  /\ \E r \in AddRegion(gd, call[t].rng, call[t].dev) :
       /\ regions' = [regions EXCEPT ![gd] = @ \cup {r}]
       /\ \/ /\ FindMr(gd, r.dev, pd, r) # {}
             /\ UNCHANGED <<mr_cache, cuda_ctxs, gpuVars>>
          \/ /\ FindMr(gd, r.dev, pd, r) = {}
             /\ \/ \E k \in Key : RegisterMr(gd, r.dev, pd, r, k)
                \/ RegisterMrFails(gd, r.dev)
  /\ Return(t)
  /\ UNCHANGED <<domainVars, appVars, io>>

-----------------------------------------------------------------------------
(* translate: the callback of the NVMe-oF RDMA transport *)

TranslateStart(t, gd, pd, rng) ==
  /\ CallStarts(t, "translate", gd, pd, rng)
  /\ UNCHANGED <<domainVars, treeVars, gpuVars, appVars, io>>

StartIo(gd, pd, k, rng) ==
  io' = io \cup {[gd |-> gd, pd |-> pd, key |-> k, rng |-> rng]}

\* A slip for mutation checks: the requested range is registered, not its region.
TranslateRegistersRange(t) ==
  LET gd == call[t].gd
      pd == call[t].pd
      rng == call[t].rng
  IN
  /\ At(t, "translate")
  /\ \E r \in FindRegion(gd, rng) :
       /\ FindMr(gd, r.dev, pd, rng) = {}
       /\ \E k \in Key : RegisterMr(gd, r.dev, pd, rng, k) /\ StartIo(gd, pd, k, rng)
  /\ Return(t)
  /\ UNCHANGED <<domainVars, regions, appVars>>

\* The locked section, when a region holds the range.  The key of its MR leaves
\* with the result and is used after the lock is released.
TranslateLocked(t) ==
  LET gd == call[t].gd
      pd == call[t].pd
      rng == call[t].rng
  IN
  /\ At(t, "translate")
  /\ \E r \in FindRegion(gd, rng) :
       \/ /\ \E m \in FindMr(gd, r.dev, pd, rng) : StartIo(gd, pd, m.key, rng)
          /\ UNCHANGED <<mr_cache, cuda_ctxs, gpuVars>>
       \/ /\ FindMr(gd, r.dev, pd, rng) = {}
          /\ \/ \E k \in Key : RegisterMr(gd, r.dev, pd, r, k) /\ StartIo(gd, pd, k, rng)
             \/ RegisterMrFails(gd, r.dev) /\ UNCHANGED io
  /\ Return(t)
  /\ UNCHANGED <<domainVars, regions, appVars>>

\* dst_domain has no protection domain, or no region holds the range.
TranslateRejected(t) ==
  /\ At(t, "translate")
  /\ Return(t)
  /\ UNCHANGED <<domainVars, treeVars, gpuVars, appVars, io>>

-----------------------------------------------------------------------------
(* invalidate and destroy *)

\* gpu_dmabuf_dereg_mr of every MR of a set.
Dereg(M) == ibv_mrs' = {h \in ibv_mrs : ~\E m \in M : m.key = h.key}

InvalidateStart(t, gd, al) ==
  /\ <<al, gd>> \in owed
  /\ CallStarts(t, "invalidate", gd, None, al)
  /\ UNCHANGED <<domainVars, treeVars, gpuVars, appVars, io>>

\* Slips for mutation checks: only one of the two trees is searched.
InvalidateRegionsOnly(t) ==
  /\ At(t, "invalidate")
  /\ regions' = [regions EXCEPT ![call[t].gd] =
       {r \in @ : ~Overlaps(r, call[t].rng.addr, call[t].rng.len)}]
  /\ owed' = owed \ {<<call[t].rng, call[t].gd>>}
  /\ Return(t)
  /\ UNCHANGED <<domainVars, mr_cache, cuda_ctxs, gpuVars, allocated, retiring, io>>

InvalidateMrsOnly(t) ==
  LET Hit == {m \in mr_cache[call[t].gd] : Overlaps(m, call[t].rng.addr, call[t].rng.len)}
  IN
  /\ At(t, "invalidate")
  /\ mr_cache' = [mr_cache EXCEPT ![call[t].gd] = @ \ Hit]
  /\ Dereg(Hit)
  /\ owed' = owed \ {<<call[t].rng, call[t].gd>>}
  /\ Return(t)
  /\ UNCHANGED <<domainVars, regions, cuda_ctxs, primary, allocated, retiring, io>>

\* gpu_dmabuf_invalidate_range: both trees are searched exhaustively.
InvalidateLocked(t) ==
  LET gd == call[t].gd
      al == call[t].rng
      Hit(S) == {e \in S : Overlaps(e, al.addr, al.len)}
  IN
  /\ At(t, "invalidate")
  /\ mr_cache' = [mr_cache EXCEPT ![gd] = @ \ Hit(@)]
  /\ Dereg(Hit(mr_cache[gd]))
  /\ regions' = [regions EXCEPT ![gd] = @ \ Hit(@)]
  /\ owed' = owed \ {<<al, gd>>}
  /\ Return(t)
  /\ UNCHANGED <<domainVars, cuda_ctxs, primary, allocated, retiring, io>>

DestroyStart(t, gd) ==
  /\ \A u \in Thread : call[u].gd # gd
  /\ \A i \in io : i.gd # gd
  /\ CallStarts(t, "destroy", gd, None, None)
  /\ UNCHANGED <<domainVars, treeVars, gpuVars, appVars, io>>

\* A slip for mutation checks: the domain stays on the list.
DestroyStaysListed(t) ==
  /\ At(t, "destroy")
  /\ Goto(t, "destroyUnlinked", call[t].gd, None, None, -1)
  /\ UNCHANGED <<domainVars, treeVars, gpuVars, appVars, io>>

DestroyUnlink(t) ==
  /\ At(t, "destroy")
  /\ domains' = domains \ {call[t].gd}
  /\ Goto(t, "destroyUnlinked", call[t].gd, None, None, -1)
  /\ UNCHANGED <<heap, conf, treeVars, gpuVars, appVars, io>>

\* Slips for mutation checks: MRs are dropped without ibv_dereg_mr; regions stay.
DestroyNoDereg(t) ==
  /\ At(t, "destroyUnlinked")
  /\ mr_cache' = [mr_cache EXCEPT ![call[t].gd] = {}]
  /\ regions' = [regions EXCEPT ![call[t].gd] = {}]
  /\ Goto(t, "destroyCleared", call[t].gd, None, None, -1)
  /\ UNCHANGED <<domainVars, cuda_ctxs, gpuVars, appVars, io>>

DestroyKeepsRegions(t) ==
  /\ At(t, "destroyUnlinked")
  /\ Dereg(mr_cache[call[t].gd])
  /\ mr_cache' = [mr_cache EXCEPT ![call[t].gd] = {}]
  /\ Goto(t, "destroyCleared", call[t].gd, None, None, -1)
  /\ UNCHANGED <<domainVars, regions, cuda_ctxs, primary, appVars, io>>

DestroyLocked(t) ==
  LET gd == call[t].gd IN
  /\ At(t, "destroyUnlinked")
  /\ Dereg(mr_cache[gd])
  /\ mr_cache' = [mr_cache EXCEPT ![gd] = {}]
  /\ regions' = [regions EXCEPT ![gd] = {}]
  /\ Goto(t, "destroyCleared", call[t].gd, None, None, -1)
  /\ UNCHANGED <<domainVars, cuda_ctxs, primary, appVars, io>>

\* Releases its own context and those of gpu_dmabuf_release_cuda_ctxs, frees gd.
DestroyFree(t) ==
  LET gd == call[t].gd
      Held(d) == IF (conf[gd].ctx = "owned" /\ conf[gd].dev = d) \/ d \in cuda_ctxs[gd]
                   THEN 1 ELSE 0
  IN
  /\ At(t, "destroyCleared")
  /\ primary' = [d \in Device |-> primary[d] - Held(d)]
  /\ cuda_ctxs' = [cuda_ctxs EXCEPT ![gd] = {}]
  /\ FreeDomain(gd)
  /\ owed' = {p \in owed : p[2] # gd}
  /\ Return(t)
  /\ UNCHANGED <<domains, regions, mr_cache, ibv_mrs, allocated, retiring, io>>

-----------------------------------------------------------------------------
ThreadStep(t) ==
  \/ CreatePublish(t) \/ CreateFail(t)
  \/ RegisterDevice(t) \/ RegisterRejected(t) \/ RegisterLocked(t)
  \/ TranslateLocked(t) \/ TranslateRejected(t)
  \/ InvalidateLocked(t)
  \/ DestroyUnlink(t) \/ DestroyLocked(t) \/ DestroyFree(t)

CallBegins(t) ==
  /\ At(t, "idle")
  /\ \E gd \in GD :
       \/ \E c \in Conf : CreateRetain(t, gd, c)
       \/ \E pd \in PD, rng \in Ranges :
            RegisterStart(t, gd, pd, rng) \/ TranslateStart(t, gd, pd, rng)
       \/ \E al \in Alloc : InvalidateStart(t, gd, al)
       \/ DestroyStart(t, gd)

Next ==
  \/ \E t \in Thread : ThreadStep(t) \/ CallBegins(t)
  \/ \E al \in Alloc : AppAlloc(al) \/ AppRetire(al) \/ AppFree(al)
  \/ \E i \in io : IoDone(i)

Spec == Init /\ [][Next]_vars

-----------------------------------------------------------------------------
(* Properties *)

\* The regions of a domain never overlap, although add_region compares a new
\* range only with its two neighbours in the tree (lines 576-655).
RegionsDisjoint ==
  \A gd \in GD : \A r, q \in regions[gd] : r # q => Disjoint(r, q)

\* Every cached MR covers exactly one registered region of its device, however
\* register, translate and invalidate interleave; so no MR outlives its region.
MrHasRegion ==
  \A gd \in GD : \A m \in mr_cache[gd] :
    [addr |-> m.addr, len |-> m.len, dev |-> m.dev] \in regions[gd]

\* register_mr's -EEXIST results (lines 673 and 748) cannot happen: when a
\* region has no MR in a protection domain, nothing there overlaps it.
RegisterMrNeverExists ==
  \A gd \in GD, pd \in PD : \A r \in regions[gd] :
    FindMr(gd, r.dev, pd, r) = {} =>
      \A m \in MrsOf(gd, r.dev, pd) : Disjoint(m, r)

\* The two-neighbour search of translate finds a region whenever some region
\* of the domain holds the range (lines 576-596).
SearchComplete ==
  \A gd \in GD, rng \in Ranges :
    (\E r \in regions[gd] : Contains(r, rng.addr, rng.len)) =>
      FindRegion(gd, rng) # {}

HwOf(m) == [key |-> m.key, pd |-> m.pd, addr |-> m.addr, len |-> m.len]

\* The MRs the RDMA device holds are exactly the cached ones, each under its own
\* key: no path of register, invalidate or destroy leaks an MR or frees it twice.
NoMrLeak ==
  /\ ibv_mrs = UNION {{HwOf(m) : m \in mr_cache[gd]} : gd \in GD}
  /\ \A gd, ge \in GD : \A m \in mr_cache[gd], n \in mr_cache[ge] :
       m.key = n.key => gd = ge /\ m = n

\* Every MR lies inside one live allocation: once the application has called
\* invalidate and freed its memory, no MR is left on it, even when translations
\* race with the invalidation and would register the region again.
NoMrOnFreedMemory ==
  \A gd \in GD : \A m \in mr_cache[gd] :
    \E al \in allocated : Contains(al, m.addr, m.len)

Serves(m, i) == m.key = i.key /\ m.pd = i.pd /\ Contains(m, i.rng.addr, i.rng.len)

\* The key of an I/O in flight names a live MR of its protection domain that
\* covers its range, until the application begins to free that memory: neither
\* a search of the tree nor the invalidation of other memory gives it another.
InFlightKeyLive ==
  \A i \in io : OverlapsAny(retiring, i.rng) \/ \E m \in mr_cache[i.gd] : Serves(m, i)

\* A call never touches a domain that destroy has freed: once destroy has taken
\* the domain off the list, late calls no longer find it (lines 305-320, 1081).
NoUseAfterFree ==
  /\ \A t \in Thread : ~At(t, "idle") => call[t].gd \in heap
  /\ domains \subseteq heap

\* A destroyed domain holds no region, no MR and no context.
FreedDomainsAreEmpty ==
  \A gd \in GD \ heap : regions[gd] = {} /\ mr_cache[gd] = {} /\ cuda_ctxs[gd] = {}

\* The domains that retain the primary context of device d.
Retainers(d) == {gd \in heap : conf[gd] = [dev |-> d, ctx |-> "owned"] \/ d \in cuda_ctxs[gd]}

\* The reference count of each primary context is the number of domains that
\* retain it, through create, failed registrations and destroy.
PrimaryBalanced == \A d \in Device : primary[d] = Cardinality(Retainers(d))

-----------------------------------------------------------------------------
(* What makes these properties inductive. *)

\* The arguments of a call in progress.
CallOK ==
  \A t \in Thread :
    /\ ~At(t, "idle") => call[t].gd \in GD
    /\ call[t].at \in {"register", "registerDevice", "translate"} =>
         call[t].pd \in PD /\ call[t].rng \in Ranges
    /\ At(t, "registerDevice") => call[t].dev \in Device
    /\ At(t, "invalidate") => call[t].rng \in Alloc

\* A domain that is being created or destroyed is in one call only; it is on the
\* list only before destroy takes it off; no I/O in flight uses it.
Exclusive ==
  \A t \in Thread :
    /\ call[t].at \in {"created", "destroy", "destroyUnlinked", "destroyCleared"} =>
         /\ \A u \in Thread : u # t /\ ~At(u, "idle") => call[u].gd # call[t].gd
         /\ \A i \in io : i.gd # call[t].gd
    /\ call[t].at \in {"created", "destroyUnlinked", "destroyCleared"} =>
         call[t].gd \notin domains
    /\ At(t, "created") => cuda_ctxs[call[t].gd] = {}
    /\ call[t].at \in {"created", "destroyCleared"} =>
         regions[call[t].gd] = {} /\ mr_cache[call[t].gd] = {}

\* Regions never wrap; allocations are disjoint; a domain that has invalidated
\* an allocation being freed gets no region there, because no register is on it;
\* an allocation is freed only after the calls that invalidate it.
RangesOK ==
  /\ \A gd \in GD : \A r \in regions[gd] : Plain(r)
  /\ \A a, b \in allocated : a # b => Disjoint(a, b)
  /\ \A al \in retiring, gd \in heap :
       <<al, gd>> \notin owed => \A r \in regions[gd] : Disjoint(r, al)
  /\ \A t \in Thread : RegisterInFlight(t) => ~OverlapsAny(retiring, call[t].rng)
  /\ \A t \in Thread : At(t, "invalidate") => call[t].rng \in retiring

\* One MR per region and protection domain.
MrUnique ==
  \A gd \in GD : \A m, n \in mr_cache[gd] :
    m.addr = n.addr /\ m.pd = n.pd => m = n

IoOK == \A i \in io : i.gd \in heap

LifeInv == TypeOK /\ CallOK /\ NoUseAfterFree /\ Exclusive /\ FreedDomainsAreEmpty /\ IoOK

TreeInv == RangesOK /\ RegionsDisjoint /\ MrHasRegion /\ MrUnique

\* The inductive invariant.
IInv == LifeInv /\ TreeInv /\ NoMrLeak /\ NoMrOnFreedMemory /\ InFlightKeyLive
=============================================================================
