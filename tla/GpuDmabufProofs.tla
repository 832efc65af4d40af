--------------------------- MODULE GpuDmabufProofs --------------------------
(***************************************************************************)
(* The inductive invariant of GpuDmabuf and its consequences, for any number *)
(* of threads, domains, protection domains, devices, keys and ranges that do *)
(* not wrap.                                                               *)
(***************************************************************************)
EXTENDS GpuDmabuf, FiniteSetTheorems, WellFoundedInduction, TLAPS

-----------------------------------------------------------------------------
(* The searches of AddressRanges, for every address space. *)

\* Every nonempty set of naturals has a least element (the order on Nat is
\* well founded), which is what RB_NFIND returns.
LEMMA LeastNatural ==
  ASSUME NEW T \in SUBSET Nat, T # {}
  PROVE  \E x \in T : \A y \in T : x <= y
<1>1. PICK x \in T : \A y \in T : ~(<<y, x>> \in OpToRel(<, Nat))
  BY NatLessThanWellFounded, WFMin, Zenon
<1>2. \A y \in T : ~(y < x)
  BY Zenon, <1>1 DEF OpToRel
<1> QED
  BY <1>2

\* gpu_dmabuf_range_overlaps on ranges that do not wrap: they share a byte.
LEMMA OverlapsPlain ==
  ASSUME NEW r, NEW q, Plain(r), Plain(q)
  PROVE  Overlaps(r, q.addr, q.len)
           <=> q.addr < r.addr + r.len /\ r.addr < q.addr + q.len
BY AddrSpaceAssumption DEF Plain, Overlaps, End

\* gpu_dmabuf_range_contains on ranges that do not wrap: inclusion.
LEMMA ContainsPlain ==
  ASSUME NEW r, NEW q, Plain(r), Plain(q)
  PROVE  Contains(r, q.addr, q.len)
           <=> r.addr <= q.addr /\ q.addr + q.len <= r.addr + r.len
BY AddrSpaceAssumption DEF Plain, Contains, End

\* What the search for a containing entry returns is an entry that contains
\* the range.
LEMMA FindContainingSound ==
  ASSUME NEW S, NEW q, NEW r \in FindContaining(S, q.addr, q.len)
  PROVE  r \in S /\ Contains(r, q.addr, q.len)
BY Zenon DEF FindContaining, FirstOf, NFind, Prev

\* gpu_dmabuf_find_region and gpu_dmabuf_find_mr try only the two neighbours of
\* the address; on pairwise disjoint entries they find the containing one.
LEMMA FindContainingComplete ==
  ASSUME NEW S, \A r \in S : Plain(r),
         \A r, p \in S : r # p => Disjoint(r, p),
         NEW q, Plain(q),
         NEW r \in S, Contains(r, q.addr, q.len)
  PROVE  FindContaining(S, q.addr, q.len) # {}
<1>1. r.addr <= q.addr /\ q.addr + q.len <= r.addr + r.len
  BY Zenon, ContainsPlain
<1>2. CASE r.addr = q.addr
  <2>1. r \in NFind(S, q.addr)
    BY <1>2 DEF NFind, Plain
  <2> QED
    BY Zenon, <2>1 DEF FindContaining, FirstOf
<1>3. CASE r.addr < q.addr
  <2>1. ASSUME NEW p \in S, p.addr < q.addr
        PROVE  p.addr <= r.addr
    <3>1. CASE p = r
      BY <3>1 DEF Plain
    <3>2. CASE p # r
      <4>1. ~(p.addr < r.addr + r.len /\ r.addr < p.addr + p.len)
        BY Zenon, <3>2, OverlapsPlain DEF Disjoint
      <4> QED
        BY <4>1, <2>1, <1>1 DEF Plain
    <3> QED
      BY Zenon, <3>1, <3>2
  <2>2. r \in Prev(S, q.addr)
    BY Zenon, <2>1, <1>3 DEF Prev
  <2> QED
    BY Zenon, <2>2 DEF FindContaining, FirstOf
<1> QED
  BY <1>1, <1>2, <1>3 DEF Plain

\* gpu_dmabuf_find_overlapping_region and gpu_dmabuf_find_overlapping_mr: when
\* neither neighbour overlaps the range, no entry does.
LEMMA FindOverlappingComplete ==
  ASSUME NEW S, \A r \in S : Plain(r),
         \A r, p \in S : r # p => Disjoint(r, p),
         NEW q, Plain(q),
         FindOverlapping(S, q.addr, q.len) = {}
  PROVE  \A r \in S : Disjoint(r, q) /\ Disjoint(q, r)
<1> SUFFICES ASSUME NEW r \in S, Overlaps(r, q.addr, q.len)
             PROVE  FALSE
  <2>1. \A r \in S : Overlaps(r, q.addr, q.len) <=> Overlaps(q, r.addr, r.len)
    BY Zenon, OverlapsPlain
  <2> QED
    BY Zenon, <2>1 DEF Disjoint
<1>1. q.addr < r.addr + r.len /\ r.addr < q.addr + q.len
  BY Zenon, OverlapsPlain
<1>2. \A p \in NFind(S, q.addr) \cup Prev(S, q.addr) : ~Overlaps(p, q.addr, q.len)
  BY Zenon DEF FindOverlapping, FirstOf
<1>3. CASE r.addr < q.addr
  <2>1. ASSUME NEW p \in S, p.addr < q.addr
        PROVE  p.addr <= r.addr
    <3>1. CASE p = r
      BY <3>1 DEF Plain
    <3>2. CASE p # r
      <4>1. ~(p.addr < r.addr + r.len /\ r.addr < p.addr + p.len)
        BY Zenon, <3>2, OverlapsPlain DEF Disjoint
      <4> QED
        BY <4>1, <2>1, <1>1 DEF Plain
    <3> QED
      BY Zenon, <3>1, <3>2
  <2>2. r \in Prev(S, q.addr)
    BY Zenon, <2>1, <1>3 DEF Prev
  <2> QED
    BY Zenon, <2>2, <1>2
<1>4. CASE r.addr >= q.addr
  <2> DEFINE T == {p.addr : p \in {s \in S : s.addr >= q.addr}}
  <2>1. T \in SUBSET Nat /\ T # {}
    BY Zenon, <1>4 DEF Plain
  <2> HIDE DEF T
  <2>2. PICK x \in T : \A y \in T : x <= y
    BY Zenon, <2>1, LeastNatural
  <2>3. PICK p \in S : p.addr = x /\ p.addr >= q.addr
    BY Zenon DEF T
  <2>4. \A s \in S : s.addr >= q.addr => p.addr <= s.addr
    BY Zenon, <2>2, <2>3 DEF T
  <2>5. p \in NFind(S, q.addr)
    BY Zenon, <2>3, <2>4 DEF NFind
  <2>6. q.addr < p.addr + p.len /\ p.addr < q.addr + q.len
    BY <1>1, <1>4, <2>3, <2>4 DEF Plain
  <2>7. Overlaps(p, q.addr, q.len)
    BY Zenon, <2>6, OverlapsPlain
  <2> QED
    BY Zenon, <2>5, <2>7, <1>2
<1> QED
  BY <1>3, <1>4 DEF Plain

-----------------------------------------------------------------------------
(* What the searches and the registrations return on well-typed trees. *)

\* add_region returns a region of the right type that holds the range; it is in
\* the tree already, or it is the range itself and nothing overlapped it.
LEMMA AddRegionResult ==
  ASSUME TypeOK, RangesOK, RegionsDisjoint,
         NEW gd \in GD, NEW rng \in Ranges, NEW dev \in Device,
         NEW r \in AddRegion(gd, rng, dev)
  PROVE  /\ r \in Region
         /\ r.dev = dev
         /\ Plain(r)
         /\ Contains(r, rng.addr, rng.len)
         /\ \/ r \in regions[gd]
            \/ /\ r.addr = rng.addr
               /\ r.len = rng.len
               /\ \A q \in regions[gd] : Disjoint(q, r) /\ Disjoint(r, q)
<1>1. Plain(rng) /\ rng.addr \in Nat /\ rng.len \in Nat
  BY Zenon, RangeAssumption DEF Plain
<1>2. \A q \in regions[gd] : Plain(q)
  BY Zenon DEF RangesOK
<1>3. regions[gd] \subseteq Region
  BY Zenon DEF TypeOK
<1>4. CASE FindRegion(gd, rng) # {}
  <2>1. r \in FindRegion(gd, rng) /\ r.dev = dev
    BY Zenon, <1>4 DEF AddRegion
  <2>2. r \in regions[gd] /\ Contains(r, rng.addr, rng.len)
    BY Zenon, <2>1, FindContainingSound DEF FindRegion
  <2> QED
    BY Zenon, <2>1, <2>2, <1>2, <1>3
<1>5. CASE FindRegion(gd, rng) = {}
  <2>1. /\ r = [addr |-> rng.addr, len |-> rng.len, dev |-> dev]
        /\ FindOverlapping(regions[gd], rng.addr, rng.len) = {}
    BY Zenon, <1>5 DEF AddRegion, FindOverlappingRegion
  <2>2. r \in Region /\ r.dev = dev /\ Plain(r) /\ r.addr = rng.addr /\ r.len = rng.len
    BY Zenon, <2>1, <1>1 DEF Region, Plain
  <2>3. Contains(r, rng.addr, rng.len)
    BY <2>2, <1>1, ContainsPlain DEF Plain
  <2>4. \A q \in regions[gd] : Disjoint(q, rng) /\ Disjoint(rng, q)
    <3>1. \A q, p \in regions[gd] : q # p => Disjoint(q, p)
      BY Zenon DEF RegionsDisjoint
    <3> QED
      BY Zenon, <1>1, <1>2, <2>1, <3>1, FindOverlappingComplete
  <2>5. \A q \in regions[gd] : Disjoint(q, r) /\ Disjoint(r, q)
    BY Zenon, <2>2, <2>4 DEF Disjoint, Overlaps
  <2> QED
    BY Zenon, <2>2, <2>3, <2>5
<1> QED
  BY Zenon, <1>4, <1>5

\* A region found for a translation is one of the tree and holds the range.
LEMMA FindRegionResult ==
  ASSUME TypeOK, RangesOK, NEW gd \in GD, NEW rng \in Ranges,
         NEW r \in FindRegion(gd, rng)
  PROVE  r \in regions[gd] /\ r \in Region /\ Plain(r) /\ Contains(r, rng.addr, rng.len)
BY Zenon, FindContainingSound DEF FindRegion, TypeOK, RangesOK

\* An MR found for a range is a cached one that holds it.
LEMMA FindMrResult ==
  ASSUME TypeOK, NEW gd \in GD, NEW dev, NEW pd, NEW rng,
         NEW m \in FindMr(gd, dev, pd, rng)
  PROVE  /\ m \in mr_cache[gd] /\ m \in Mr
         /\ m.dev = dev /\ m.pd = pd
         /\ Contains(m, rng.addr, rng.len)
<1>1. m \in MrsOf(gd, dev, pd) /\ Contains(m, rng.addr, rng.len)
  BY FindContainingSound, Zenon DEF FindMr
<1> QED
  BY Zenon, <1>1 DEF MrsOf, TypeOK

-----------------------------------------------------------------------------
(* Type correctness and the life of a domain. *)

\* A thread outside every call is in a well-typed state.
LEMMA IdleIsCall == Idle \in Call
BY Zenon DEF Idle, Call, Pc

\* Moving a call to its next step keeps the calls well typed.
LEMMA GotoType ==
  ASSUME TypeOK, NEW t \in Thread, NEW pc \in Pc, NEW gd \in GD \cup {None},
         NEW pd \in PD \cup {None}, NEW rng \in Ranges \cup Alloc \cup {None},
         NEW dev \in Device \cup {-1}, Goto(t, pc, gd, pd, rng, dev)
  PROVE  call' \in [Thread -> Call]
BY Zenon DEF Goto, TypeOK, Call

\* Taking a primary context keeps the context lists and counts well typed.
LEMMA GetCudaCtxType ==
  ASSUME TypeOK, NEW gd \in GD, NEW dev \in Device, GetCudaCtx(gd, dev)
  PROVE  /\ cuda_ctxs' \in [GD -> SUBSET Device]
         /\ primary' \in [Device -> Int]
BY DEF TypeOK, GetCudaCtx

\* register_mr, when it succeeds, keeps the MR cache and the device well typed.
LEMMA RegisterMrType ==
  ASSUME TypeOK, NEW gd \in GD, NEW dev \in Device, NEW pd \in PD,
         NEW rng \in Region, NEW k \in Key, RegisterMr(gd, dev, pd, rng, k)
  PROVE  /\ mr_cache' \in [GD -> SUBSET Mr]
         /\ cuda_ctxs' \in [GD -> SUBSET Device]
         /\ ibv_mrs' \subseteq IbvMr
         /\ primary' \in [Device -> Int]
<1>1. GetCudaCtx(gd, dev)
  BY Zenon DEF RegisterMr
<1>2. [addr |-> rng.addr, len |-> rng.len, dev |-> dev, pd |-> pd, key |-> k] \in Mr
  BY Zenon DEF Mr, Region
<1>3. [key |-> k, pd |-> pd, addr |-> rng.addr, len |-> rng.len] \in IbvMr
  BY Zenon DEF IbvMr, Region
<1>4. mr_cache' \in [GD -> SUBSET Mr]
  BY Zenon, <1>2 DEF RegisterMr, TypeOK
<1>5. ibv_mrs' \subseteq IbvMr
  BY Zenon, <1>3 DEF RegisterMr, TypeOK
<1> QED
  BY Zenon, <1>1, <1>4, <1>5, GetCudaCtxType

\* So does register_mr when it fails.
LEMMA RegisterMrFailsType ==
  ASSUME TypeOK, NEW gd \in GD, NEW dev \in Device, RegisterMrFails(gd, dev)
  PROVE  /\ mr_cache' \in [GD -> SUBSET Mr]
         /\ cuda_ctxs' \in [GD -> SUBSET Device]
         /\ ibv_mrs' \subseteq IbvMr
         /\ primary' \in [Device -> Int]
BY Zenon, GetCudaCtxType DEF RegisterMrFails, TypeOK

\* Moving a call to its next step changes no other call.
LEMMA GotoResult ==
  ASSUME TypeOK, NEW t \in Thread, NEW pc, NEW gd, NEW pd, NEW rng, NEW dev,
         Goto(t, pc, gd, pd, rng, dev)
  PROVE  /\ call'[t].at = pc /\ call'[t].gd = gd /\ call'[t].pd = pd
         /\ call'[t].rng = rng /\ call'[t].dev = dev
         /\ \A u \in Thread : u # t => call'[u] = call[u]
BY Zenon DEF Goto, TypeOK

\* Returning from a call changes no other call.
LEMMA ReturnResult ==
  ASSUME TypeOK, NEW t \in Thread, Return(t)
  PROVE  /\ call'[t].at = "idle"
         /\ \A u \in Thread : u # t => call'[u] = call[u]
BY Zenon DEF Return, TypeOK, Idle

\* Every step keeps the type invariant.
LEMMA TypeStep == IInv /\ [Next]_vars => TypeOK'
<1> SUFFICES ASSUME IInv, [Next]_vars PROVE TypeOK'
  BY Zenon
<1>a. TypeOK /\ CallOK /\ RangesOK /\ RegionsDisjoint /\ NoUseAfterFree /\ Exclusive
  BY Zenon DEF IInv, LifeInv, TreeInv
<1>b. \A t \in Thread : ~At(t, "idle") => call[t].gd \in GD
  BY Zenon, <1>a DEF CallOK
<1>1. ASSUME NEW t \in Thread, NEW gd \in GD, NEW c \in Conf, CreateRetain(t, gd, c)
      PROVE  TypeOK'
  <2>1. c.dev \in Device \cup {-1} /\ (c.ctx = "owned" => c.dev \in Device)
    BY Zenon DEF Conf
  <2>2. primary' \in [Device -> Int]
    BY <1>1, <1>a, <2>1 DEF CreateRetain, TypeOK
  <2>4. call' \in [Thread -> Call]
    BY Zenon, <1>1, <1>a, GotoType DEF CreateRetain, Pc
  <2>5. conf' \in [GD -> Conf] /\ heap' \subseteq GD /\ owed' \subseteq retiring' \X heap'
    BY Zenon, <1>1, <1>a DEF CreateRetain, TypeOK, appVars
  <2> QED
    BY Zenon, <1>1, <1>a, <2>2, <2>4, <2>5 DEF CreateRetain, TypeOK, treeVars, appVars
<1>2. ASSUME NEW t \in Thread, CreatePublish(t)
      PROVE  TypeOK'
  BY Zenon, <1>2, <1>a, <1>b, IdleIsCall
     DEF CreatePublish, Return, At, TypeOK, treeVars, gpuVars, appVars
<1>3. ASSUME NEW t \in Thread, CreateFail(t)
      PROVE  TypeOK'
  <2>1. primary' \in [Device -> Int]
    <3>1. conf[call[t].gd] \in Conf
      BY Zenon, <1>3, <1>a, <1>b DEF CreateFail, At, TypeOK
    <3>2. conf[call[t].gd].ctx = "owned" => conf[call[t].gd].dev \in Device
      BY Zenon, <3>1 DEF Conf
    <3> QED
      BY <1>3, <1>a, <3>2 DEF CreateFail, TypeOK
  <2>2. conf' \in [GD -> Conf]
    BY Zenon, <1>3, <1>a DEF CreateFail, FreeDomain, TypeOK, NoConf, Conf
  <2>3. owed' \subseteq retiring' \X heap' /\ heap' \subseteq GD
    BY Zenon, <1>3, <1>a DEF CreateFail, FreeDomain, TypeOK
  <2> QED
    BY Zenon, <1>3, <1>a, <2>1, <2>2, <2>3, IdleIsCall DEF CreateFail, Return, TypeOK, treeVars
<1>4. ASSUME NEW t \in Thread, NEW gd \in GD, NEW pd \in PD, NEW rng \in Ranges,
             RegisterStart(t, gd, pd, rng) \/ TranslateStart(t, gd, pd, rng)
      PROVE  TypeOK'
  <2>2. call' \in [Thread -> Call]
    BY Zenon, <1>4, <1>a, GotoType DEF RegisterStart, TranslateStart, CallStarts, Pc
  <2> QED
    BY Zenon, <1>4, <1>a, <2>2 DEF RegisterStart, TranslateStart, TypeOK,
       domainVars, treeVars, gpuVars, appVars
<1>5. ASSUME NEW t \in Thread, NEW gd \in GD, NEW al \in Alloc, InvalidateStart(t, gd, al)
      PROVE  TypeOK'
  <2>2. call' \in [Thread -> Call]
    BY Zenon, <1>5, <1>a, GotoType DEF InvalidateStart, CallStarts, Pc
  <2> QED
    BY Zenon, <1>5, <1>a, <2>2 DEF InvalidateStart, TypeOK, domainVars, treeVars, gpuVars, appVars
<1>6. ASSUME NEW t \in Thread, NEW gd \in GD, DestroyStart(t, gd)
      PROVE  TypeOK'
  <2>2. call' \in [Thread -> Call]
    BY Zenon, <1>6, <1>a, GotoType DEF DestroyStart, CallStarts, Pc
  <2> QED
    BY Zenon, <1>6, <1>a, <2>2 DEF DestroyStart, TypeOK, domainVars, treeVars, gpuVars, appVars
<1>7. ASSUME NEW t \in Thread, RegisterDevice(t)
      PROVE  TypeOK'
  <2>1. call[t].gd \in GD /\ call[t].pd \in PD /\ call[t].rng \in Ranges
    BY Zenon, <1>7, <1>a DEF CallOK, RegisterDevice, At
  <2>2. PtrDevices(call[t].gd, call[t].rng) \subseteq Device
    BY <1>7, <1>a, <1>b, DeviceAssumption DEF PtrDevices, TypeOK, Conf, RegisterDevice, At
  <2>3. call' \in [Thread -> Call]
    BY Zenon, <1>7, <1>a, <2>1, <2>2, GotoType DEF RegisterDevice, Pc
  <2> QED
    BY Zenon, <1>7, <1>a, <2>3 DEF RegisterDevice, TypeOK, domainVars, treeVars, gpuVars, appVars
<1>8. ASSUME NEW t \in Thread, RegisterRejected(t) \/ TranslateRejected(t)
      PROVE  TypeOK'
  BY Zenon, <1>8, <1>a, IdleIsCall DEF RegisterRejected, TranslateRejected, Return, TypeOK,
     domainVars, treeVars, gpuVars, appVars
<1>9. ASSUME NEW t \in Thread, RegisterLocked(t)
      PROVE  TypeOK'
  <2> DEFINE gd == call[t].gd
             pd == call[t].pd
  <2>1. gd \in GD /\ pd \in PD /\ call[t].rng \in Ranges /\ call[t].dev \in Device
    BY Zenon, <1>9, <1>a DEF CallOK, RegisterLocked, At
  <2>2. PICK r \in AddRegion(gd, call[t].rng, call[t].dev) :
          /\ regions' = [regions EXCEPT ![gd] = @ \cup {r}]
          /\ \/ UNCHANGED <<mr_cache, cuda_ctxs, gpuVars>>
             \/ \E k \in Key : RegisterMr(gd, r.dev, pd, r, k)
             \/ RegisterMrFails(gd, r.dev)
    BY Zenon, <1>9 DEF RegisterLocked
  <2>3. r \in Region /\ r.dev \in Device
    BY <1>a, <2>1, AddRegionResult
  <2>4. regions' \in [GD -> SUBSET Region]
    BY Zenon, <1>a, <2>1, <2>2, <2>3 DEF TypeOK
  <2>5. /\ mr_cache' \in [GD -> SUBSET Mr]
        /\ cuda_ctxs' \in [GD -> SUBSET Device]
        /\ ibv_mrs' \subseteq IbvMr
        /\ primary' \in [Device -> Int]
    <3>1. CASE UNCHANGED <<mr_cache, cuda_ctxs, gpuVars>>
      BY Zenon, <3>1, <1>a DEF TypeOK, gpuVars
    <3>2. CASE \E k \in Key : RegisterMr(gd, r.dev, pd, r, k)
      BY Zenon, <3>2, <1>a, <2>1, <2>3, RegisterMrType
    <3>3. CASE RegisterMrFails(gd, r.dev)
      BY Zenon, <3>3, <1>a, <2>1, <2>3, RegisterMrFailsType
    <3> QED
      BY Zenon, <3>1, <3>2, <3>3, <2>2
  <2> QED
    BY Zenon, <1>9, <1>a, <2>4, <2>5, IdleIsCall DEF RegisterLocked, Return, TypeOK, domainVars, appVars
<1>10. ASSUME NEW t \in Thread, TranslateLocked(t)
       PROVE  TypeOK'
  <2> DEFINE gd == call[t].gd
             pd == call[t].pd
             rng == call[t].rng
  <2>1. gd \in GD /\ pd \in PD /\ rng \in Ranges
    BY Zenon, <1>10, <1>a DEF CallOK, TranslateLocked, At
  <2>2. PICK r \in FindRegion(gd, rng) :
          \/ /\ \E m \in FindMr(gd, r.dev, pd, rng) : StartIo(gd, pd, m.key, rng)
             /\ UNCHANGED <<mr_cache, cuda_ctxs, gpuVars>>
          \/ \E k \in Key : RegisterMr(gd, r.dev, pd, r, k) /\ StartIo(gd, pd, k, rng)
          \/ RegisterMrFails(gd, r.dev) /\ UNCHANGED io
    BY Zenon, <1>10 DEF TranslateLocked
  <2>3. r \in Region /\ r.dev \in Device
    BY Zenon, <1>a, <2>1, FindRegionResult DEF Region
  <2>4. \A m \in FindMr(gd, r.dev, pd, rng) : m.key \in Key
    BY <1>a, <2>1, FindMrResult DEF Mr
  <2>5. \A k \in Key : [gd |-> gd, pd |-> pd, key |-> k, rng |-> rng] \in IO
    BY Zenon, <2>1 DEF IO
  <2>6. /\ mr_cache' \in [GD -> SUBSET Mr]
        /\ cuda_ctxs' \in [GD -> SUBSET Device]
        /\ ibv_mrs' \subseteq IbvMr
        /\ primary' \in [Device -> Int]
        /\ io' \subseteq IO
    <3>1. CASE /\ \E m \in FindMr(gd, r.dev, pd, rng) : StartIo(gd, pd, m.key, rng)
               /\ UNCHANGED <<mr_cache, cuda_ctxs, gpuVars>>
      BY Zenon, <3>1, <1>a, <2>4, <2>5 DEF TypeOK, gpuVars, StartIo
    <3>2. CASE \E k \in Key : RegisterMr(gd, r.dev, pd, r, k) /\ StartIo(gd, pd, k, rng)
      <4>1. io' \subseteq IO
        BY Zenon, <3>2, <1>a, <2>5 DEF TypeOK, StartIo
      <4> QED
        BY Zenon, <4>1, <3>2, <1>a, <2>1, <2>3, RegisterMrType
    <3>3. CASE RegisterMrFails(gd, r.dev) /\ UNCHANGED io
      <4>1. io' \subseteq IO
        BY Zenon, <3>3, <1>a DEF TypeOK
      <4> QED
        BY Zenon, <4>1, <3>3, <1>a, <2>1, <2>3, RegisterMrFailsType
    <3> QED
      BY Zenon, <3>1, <3>2, <3>3, <2>2
  <2> QED
    BY Zenon, <1>10, <1>a, <2>6, IdleIsCall DEF TranslateLocked, Return, TypeOK, domainVars, appVars
<1>11. ASSUME NEW t \in Thread, InvalidateLocked(t)
       PROVE  TypeOK'
  <2>a. /\ owed' \subseteq owed /\ ibv_mrs' \subseteq ibv_mrs
        /\ Return(t)
        /\ UNCHANGED <<domains, heap, conf, cuda_ctxs, primary, allocated, retiring, io>>
    BY Zenon, <1>11 DEF InvalidateLocked, Dereg, domainVars
  <2>1. owed' \subseteq retiring' \X heap' /\ ibv_mrs' \subseteq IbvMr
    BY Zenon, <1>a, <2>a DEF TypeOK
  <2>2. mr_cache' \in [GD -> SUBSET Mr] /\ regions' \in [GD -> SUBSET Region]
    BY Zenon, <1>11, <1>a DEF InvalidateLocked, TypeOK
  <2> QED
    BY Zenon, <1>a, <2>a, <2>1, <2>2, IdleIsCall DEF Return, TypeOK
<1>12. ASSUME NEW t \in Thread, DestroyUnlink(t)
       PROVE  TypeOK'
  <2>2. call' \in [Thread -> Call]
    BY Zenon, <1>12, <1>a, <1>b, GotoType DEF DestroyUnlink, At, Pc
  <2> QED
    BY Zenon, <1>12, <1>a, <2>2 DEF DestroyUnlink, TypeOK, treeVars, gpuVars, appVars
<1>13. ASSUME NEW t \in Thread, DestroyLocked(t)
       PROVE  TypeOK'
  <2>2. call' \in [Thread -> Call]
    BY Zenon, <1>13, <1>a, <1>b, GotoType DEF DestroyLocked, At, Pc
  <2>3. mr_cache' \in [GD -> SUBSET Mr] /\ regions' \in [GD -> SUBSET Region]
    BY Zenon, <1>13, <1>a DEF DestroyLocked, TypeOK
  <2> QED
    BY Zenon, <1>13, <1>a, <2>2, <2>3 DEF DestroyLocked, Dereg, TypeOK, domainVars, appVars
<1>14. ASSUME NEW t \in Thread, DestroyFree(t)
       PROVE  TypeOK'
  <2>1. primary' \in [Device -> Int]
    BY <1>14, <1>a DEF DestroyFree, TypeOK
  <2>2. conf' \in [GD -> Conf]
    BY Zenon, <1>14, <1>a DEF DestroyFree, FreeDomain, TypeOK, NoConf, Conf
  <2>3. owed' \subseteq retiring' \X heap' /\ heap' \subseteq GD
    BY Zenon, <1>14, <1>a DEF DestroyFree, FreeDomain, TypeOK
  <2>4. cuda_ctxs' \in [GD -> SUBSET Device]
    BY Zenon, <1>14, <1>a DEF DestroyFree, TypeOK
  <2> QED
    BY Zenon, <1>14, <1>a, <2>1, <2>2, <2>3, <2>4, IdleIsCall DEF DestroyFree, Return, TypeOK
<1>15. ASSUME NEW al \in Alloc, AppAlloc(al) \/ AppRetire(al) \/ AppFree(al)
       PROVE  TypeOK'
  <2>1. allocated' \subseteq Alloc /\ retiring' \subseteq allocated'
    BY Zenon, <1>15, <1>a DEF AppAlloc, AppRetire, AppFree, TypeOK
  <2>2. owed' \subseteq retiring' \X heap'
    BY <1>15, <1>a DEF AppAlloc, AppRetire, AppFree, TypeOK, domainVars
  <2> QED
    BY Zenon, <1>15, <1>a, <2>1, <2>2 DEF AppAlloc, AppRetire, AppFree, TypeOK,
       domainVars, treeVars, gpuVars
<1>16. ASSUME NEW i \in io, IoDone(i)
       PROVE  TypeOK'
  BY Zenon, <1>16, <1>a DEF IoDone, TypeOK, domainVars, treeVars, gpuVars, appVars
<1>17. CASE UNCHANGED vars
  BY Zenon, <1>17, <1>a DEF vars, TypeOK
<1> QED
  BY Zenon, <1>1, <1>2, <1>3, <1>4, <1>5, <1>6, <1>7, <1>8, <1>9, <1>10, <1>11, <1>12,
     <1>13, <1>14, <1>15, <1>16, <1>17 DEF Next, ThreadStep, CallBegins

-----------------------------------------------------------------------------
(* The life of a domain: calls are well formed, and use a domain only between *)
(* its creation and its freeing.                                             *)

\* A locked section changes the trees of its own domain only.
LEMMA LockedIsLocal ==
  ASSUME TypeOK, NEW t \in Thread,
         RegisterLocked(t) \/ TranslateLocked(t) \/ InvalidateLocked(t)
           \/ DestroyLocked(t) \/ DestroyFree(t)
  PROVE  \A g \in GD : g # call[t].gd =>
           /\ regions'[g] = regions[g]
           /\ mr_cache'[g] = mr_cache[g]
           /\ cuda_ctxs'[g] = cuda_ctxs[g]
<1>1. CASE RegisterLocked(t)
  <2>1. /\ \E r : regions' = [regions EXCEPT ![call[t].gd] = @ \cup {r}]
        /\ \/ UNCHANGED <<mr_cache, cuda_ctxs>>
           \/ \E r, k : RegisterMr(call[t].gd, r.dev, call[t].pd, r, k)
           \/ \E r : RegisterMrFails(call[t].gd, r.dev)
    BY Zenon, <1>1 DEF RegisterLocked
  <2> QED
    BY Zenon, <2>1 DEF RegisterMr, RegisterMrFails, GetCudaCtx, TypeOK
<1>2. CASE TranslateLocked(t)
  <2>1. /\ regions' = regions
        /\ \/ UNCHANGED <<mr_cache, cuda_ctxs>>
           \/ \E r, k : RegisterMr(call[t].gd, r.dev, call[t].pd, r, k)
           \/ \E r : RegisterMrFails(call[t].gd, r.dev)
    BY Zenon, <1>2 DEF TranslateLocked
  <2> QED
    BY Zenon, <2>1 DEF RegisterMr, RegisterMrFails, GetCudaCtx, TypeOK
<1>3. CASE InvalidateLocked(t)
  BY Zenon, <1>3 DEF InvalidateLocked, TypeOK
<1>4. CASE DestroyLocked(t)
  BY Zenon, <1>4 DEF DestroyLocked, domainVars, TypeOK
<1>5. CASE DestroyFree(t)
  BY Zenon, <1>5 DEF DestroyFree, TypeOK
<1> QED
  BY Zenon, <1>1, <1>2, <1>3, <1>4, <1>5

\* Calls keep well-formed arguments.
LEMMA CallStep == IInv /\ [Next]_vars => CallOK'
<1> SUFFICES ASSUME IInv, [Next]_vars PROVE CallOK'
  BY Zenon
<1>a. TypeOK /\ CallOK
  BY Zenon DEF IInv, LifeInv
<1>1. ASSUME NEW t \in Thread, Return(t)
      PROVE  CallOK'
  BY Zenon, <1>1, <1>a, ReturnResult DEF CallOK, At
<1>2. ASSUME NEW t \in Thread, NEW gd \in GD, NEW c \in Conf, CreateRetain(t, gd, c)
      PROVE  CallOK'
  BY <1>2, <1>a, GotoResult DEF CreateRetain, CallOK, At
<1>3. ASSUME NEW t \in Thread, NEW gd \in GD, NEW pd \in PD, NEW rng \in Ranges,
             RegisterStart(t, gd, pd, rng) \/ TranslateStart(t, gd, pd, rng)
      PROVE  CallOK'
  BY <1>3, <1>a, GotoResult DEF RegisterStart, TranslateStart, CallStarts, CallOK, At
<1>4. ASSUME NEW t \in Thread, NEW gd \in GD, NEW al \in Alloc, InvalidateStart(t, gd, al)
      PROVE  CallOK'
  BY <1>4, <1>a, GotoResult DEF InvalidateStart, CallStarts, CallOK, At
<1>5. ASSUME NEW t \in Thread, NEW gd \in GD, DestroyStart(t, gd)
      PROVE  CallOK'
  BY <1>5, <1>a, GotoResult DEF DestroyStart, CallStarts, CallOK, At
<1>6. ASSUME NEW t \in Thread, RegisterDevice(t)
      PROVE  CallOK'
  <2>1. call[t].gd \in GD /\ call[t].pd \in PD /\ call[t].rng \in Ranges
    BY Zenon, <1>6, <1>a DEF CallOK, RegisterDevice, At
  <2>2. PtrDevices(call[t].gd, call[t].rng) \subseteq Device
    BY Zenon, <1>a, <2>1, DeviceAssumption DEF PtrDevices, TypeOK, Conf
  <2> QED
    BY <1>6, <1>a, <2>1, <2>2, GotoResult DEF RegisterDevice, CallOK, At
<1>7. ASSUME NEW t \in Thread, DestroyUnlink(t) \/ DestroyLocked(t)
      PROVE  CallOK'
  BY <1>7, <1>a, GotoResult DEF DestroyUnlink, DestroyLocked, CallOK, At
<1>8. CASE UNCHANGED call
  BY Zenon, <1>8, <1>a DEF CallOK, At
<1>9. ASSUME NEW t \in Thread,
             \/ CreatePublish(t) \/ CreateFail(t) \/ RegisterRejected(t) \/ RegisterLocked(t)
             \/ TranslateLocked(t) \/ TranslateRejected(t) \/ InvalidateLocked(t)
             \/ DestroyFree(t)
      PROVE  Return(t)
  BY Zenon, <1>9 DEF CreatePublish, CreateFail, RegisterRejected, RegisterLocked,
     TranslateLocked, TranslateRejected, InvalidateLocked, DestroyFree
<1>10. ASSUME (\E al \in Alloc : AppAlloc(al) \/ AppRetire(al) \/ AppFree(al))
               \/ (\E i \in io : IoDone(i)) \/ UNCHANGED vars
       PROVE  UNCHANGED call
  BY Zenon, <1>10 DEF AppAlloc, AppRetire, AppFree, IoDone, vars
<1> QED
  BY Zenon, <1>1, <1>2, <1>3, <1>4, <1>5, <1>6, <1>7, <1>8, <1>9, <1>10
     DEF Next, ThreadStep, CallBegins

\* The facts about the life of a domain that need more than types.
\* What is known about domains that are allocated, created or destroyed.
DomainLife == NoUseAfterFree /\ Exclusive /\ FreedDomainsAreEmpty /\ IoOK

\* Domains are used only while they are allocated, and a domain that is being
\* created or destroyed is used by nobody else.
LEMMA DomainLifeStep == IInv /\ [Next]_vars => DomainLife'
<1> SUFFICES ASSUME IInv, [Next]_vars PROVE DomainLife'
  BY Zenon
<1>a. TypeOK /\ CallOK /\ NoUseAfterFree /\ Exclusive /\ FreedDomainsAreEmpty /\ IoOK
  BY Zenon DEF IInv, LifeInv
<1>b. \A t \in Thread : ~At(t, "idle") => call[t].gd \in GD /\ call[t].gd \in heap
  BY Zenon, <1>a DEF CallOK, NoUseAfterFree
<1> USE DEF At
<1>1. ASSUME NEW t \in Thread, NEW gd \in GD, NEW c \in Conf, CreateRetain(t, gd, c)
      PROVE  DomainLife'
  <2>1. /\ call'[t].at = "created" /\ call'[t].gd = gd
        /\ \A u \in Thread : u # t => call'[u] = call[u]
    BY Zenon, <1>1, <1>a, GotoResult DEF CreateRetain
  <2>2. regions[gd] = {} /\ mr_cache[gd] = {} /\ cuda_ctxs[gd] = {}
    BY Zenon, <1>1, <1>a DEF CreateRetain, FreedDomainsAreEmpty
  <2>3. /\ heap' = heap \cup {gd} /\ gd \notin heap
        /\ UNCHANGED <<domains, regions, mr_cache, cuda_ctxs, io>>
    BY Zenon, <1>1 DEF CreateRetain, treeVars
  <2>4. NoUseAfterFree'
    BY Zenon, <1>a, <1>b, <2>1, <2>3 DEF NoUseAfterFree
  <2>5. Exclusive'
    BY <1>a, <1>b, <2>1, <2>2, <2>3 DEF Exclusive, NoUseAfterFree, IoOK
  <2>6. FreedDomainsAreEmpty' /\ IoOK'
    BY Zenon, <1>a, <2>3 DEF FreedDomainsAreEmpty, IoOK
  <2> QED
    BY Zenon, <2>4, <2>5, <2>6 DEF DomainLife
<1>2. ASSUME NEW t \in Thread, CreatePublish(t)
      PROVE  DomainLife'
  <2>1. /\ call'[t].at = "idle" /\ \A u \in Thread : u # t => call'[u] = call[u]
        /\ At(t, "created") /\ call[t].gd \in heap
        /\ domains' = domains \cup {call[t].gd}
        /\ UNCHANGED <<heap, regions, mr_cache, cuda_ctxs, io>>
    BY Zenon, <1>2, <1>a, <1>b, ReturnResult DEF CreatePublish, treeVars
  <2>2. Exclusive'
    BY <1>a, <1>b, <2>1 DEF Exclusive
  <2> QED
    BY Zenon, <1>a, <1>b, <2>1, <2>2 DEF DomainLife, NoUseAfterFree, FreedDomainsAreEmpty, IoOK
<1>3. ASSUME NEW t \in Thread, CreateFail(t) \/ DestroyFree(t)
      PROVE  DomainLife'
  <2> DEFINE gd == call[t].gd
  <2>1. /\ call'[t].at = "idle" /\ \A u \in Thread : u # t => call'[u] = call[u]
        /\ At(t, "created") \/ At(t, "destroyCleared")
        /\ gd \in GD
        /\ heap' = heap \ {gd}
        /\ UNCHANGED <<domains, regions, mr_cache, io>>
        /\ cuda_ctxs'[gd] = {}
        /\ \A g \in GD : g # gd => cuda_ctxs'[g] = cuda_ctxs[g]
    <3>1. CASE CreateFail(t)
      BY Zenon, <3>1, <1>a, <1>b, ReturnResult DEF CreateFail, FreeDomain, treeVars, Exclusive
    <3>2. CASE DestroyFree(t)
      BY Zenon, <3>2, <1>a, <1>b, ReturnResult DEF DestroyFree, FreeDomain, TypeOK
    <3> QED
      BY Zenon, <3>1, <3>2, <1>3
  <2>2. /\ regions[gd] = {} /\ mr_cache[gd] = {} /\ gd \notin domains
        /\ \A u \in Thread : u # t /\ ~At(u, "idle") => call[u].gd # gd
        /\ \A i \in io : i.gd # gd
    BY Zenon, <1>a, <2>1 DEF Exclusive
  <2>3. NoUseAfterFree'
    BY Zenon, <1>a, <2>1, <2>2 DEF NoUseAfterFree
  <2>4. Exclusive'
    BY <1>a, <1>b, <2>1, <2>2 DEF Exclusive
  <2>5. FreedDomainsAreEmpty' /\ IoOK'
    BY Zenon, <1>a, <2>1, <2>2 DEF FreedDomainsAreEmpty, IoOK
  <2> QED
    BY Zenon, <2>3, <2>4, <2>5 DEF DomainLife
<1>4. ASSUME NEW t \in Thread, NEW gd \in GD, NEW pc, NEW pd, NEW rng,
             CallStarts(t, pc, gd, pd, rng), pc \in {"register", "translate", "invalidate"},
             UNCHANGED <<domainVars, treeVars, io>>
      PROVE  DomainLife'
  <2>1. /\ call'[t].at = pc /\ call'[t].gd = gd
        /\ \A u \in Thread : u # t => call'[u] = call[u]
        /\ gd \in domains /\ \A u \in Thread : At(u, "destroy") => call[u].gd # gd
        /\ UNCHANGED <<domains, heap, regions, mr_cache, cuda_ctxs, io>>
    BY <1>4, <1>a, GotoResult DEF CallStarts, Quiescing, domainVars, treeVars
  <2>2. Exclusive'
    BY <1>a, <1>b, <1>4, <2>1 DEF Exclusive
  <2> QED
    BY Zenon, <1>a, <1>b, <1>4, <2>1, <2>2 DEF DomainLife, NoUseAfterFree, FreedDomainsAreEmpty, IoOK
<1>5. ASSUME NEW t \in Thread, NEW gd \in GD, DestroyStart(t, gd)
      PROVE  DomainLife'
  <2>1. /\ call'[t].at = "destroy" /\ call'[t].gd = gd
        /\ \A u \in Thread : u # t => call'[u] = call[u]
        /\ gd \in domains /\ \A u \in Thread : call[u].gd # gd
        /\ \A i \in io : i.gd # gd
        /\ UNCHANGED <<domains, heap, regions, mr_cache, cuda_ctxs, io>>
    BY Zenon, <1>5, <1>a, GotoResult DEF DestroyStart, CallStarts, domainVars, treeVars
  <2>2. Exclusive'
    BY <1>a, <1>b, <2>1 DEF Exclusive
  <2> QED
    BY Zenon, <1>a, <1>b, <2>1, <2>2 DEF DomainLife, NoUseAfterFree, FreedDomainsAreEmpty, IoOK
<1>6. ASSUME NEW t \in Thread, RegisterDevice(t)
      PROVE  DomainLife'
  <2>1. /\ At(t, "register")
        /\ call'[t].at = "registerDevice" /\ call'[t].gd = call[t].gd
        /\ \A u \in Thread : u # t => call'[u] = call[u]
        /\ UNCHANGED <<domains, heap, regions, mr_cache, cuda_ctxs, io>>
    BY <1>6, <1>a, GotoResult DEF RegisterDevice, domainVars, treeVars
  <2>2. Exclusive'
    BY <1>a, <1>b, <2>1 DEF Exclusive
  <2> QED
    BY Zenon, <1>a, <1>b, <2>1, <2>2 DEF DomainLife, NoUseAfterFree, FreedDomainsAreEmpty, IoOK
<1>7. ASSUME NEW t \in Thread, Return(t), UNCHANGED <<domainVars, treeVars, io>>
      PROVE  DomainLife'
  <2>1. /\ call'[t].at = "idle" /\ \A u \in Thread : u # t => call'[u] = call[u]
        /\ UNCHANGED <<domains, heap, regions, mr_cache, cuda_ctxs, io>>
    BY Zenon, <1>7, <1>a, ReturnResult DEF domainVars, treeVars
  <2>2. Exclusive'
    BY <1>a, <2>1 DEF Exclusive
  <2> QED
    BY Zenon, <1>a, <2>1, <2>2 DEF DomainLife, NoUseAfterFree, FreedDomainsAreEmpty, IoOK
<1>8. ASSUME NEW t \in Thread,
             RegisterLocked(t) \/ TranslateLocked(t) \/ InvalidateLocked(t)
      PROVE  DomainLife'
  <2> DEFINE gd == call[t].gd
  <2>1. /\ call'[t].at = "idle" /\ \A u \in Thread : u # t => call'[u] = call[u]
        /\ call[t].at \in {"registerDevice", "translate", "invalidate"}
        /\ UNCHANGED <<domains, heap>>
        /\ \A i \in io' : i \in io \/ i.gd = gd
    <3>1. /\ Return(t) /\ UNCHANGED <<domains, heap>>
          /\ call[t].at \in {"registerDevice", "translate", "invalidate"}
      BY Zenon, <1>8 DEF RegisterLocked, TranslateLocked, InvalidateLocked, domainVars
    <3>2. io' = io \/ \E k : StartIo(gd, call[t].pd, k, call[t].rng)
      BY <1>8, Zenon DEF RegisterLocked, TranslateLocked, InvalidateLocked
    <3> QED
      BY SMTT(30), <1>a, <3>1, <3>2, ReturnResult DEF StartIo
  <2>2. \A g \in GD : g # gd =>
          /\ regions'[g] = regions[g]
          /\ mr_cache'[g] = mr_cache[g]
          /\ cuda_ctxs'[g] = cuda_ctxs[g]
    BY Zenon, <1>8, <1>a, LockedIsLocal
  <2>3. gd \in heap /\ gd \in GD
    BY Zenon, <1>b, <2>1
  <2>4. \A u \in Thread :
          call[u].at \in {"created", "destroy", "destroyUnlinked", "destroyCleared"} =>
            u # t /\ call[u].gd # gd /\ call[u].gd \in GD
    BY Zenon, <1>a, <1>b, <2>1 DEF Exclusive
  <2>5. Exclusive'
    BY SMTT(30), <1>a, <2>1, <2>2, <2>4 DEF Exclusive
  <2>6. FreedDomainsAreEmpty'
    BY Zenon, <1>a, <2>1, <2>2, <2>3 DEF FreedDomainsAreEmpty
  <2>7. NoUseAfterFree' /\ IoOK'
    BY Zenon, <1>a, <2>1, <2>3 DEF NoUseAfterFree, IoOK
  <2> QED
    BY Zenon, <2>5, <2>6, <2>7 DEF DomainLife
<1>9. ASSUME NEW t \in Thread, DestroyUnlink(t)
      PROVE  DomainLife'
  <2>1. /\ At(t, "destroy")
        /\ call'[t].at = "destroyUnlinked" /\ call'[t].gd = call[t].gd
        /\ \A u \in Thread : u # t => call'[u] = call[u]
        /\ domains' = domains \ {call[t].gd}
        /\ UNCHANGED <<heap, regions, mr_cache, cuda_ctxs, io>>
    BY <1>9, <1>a, GotoResult DEF DestroyUnlink, treeVars
  <2>2. Exclusive'
    BY <1>a, <1>b, <2>1 DEF Exclusive
  <2> QED
    BY Zenon, <1>a, <1>b, <2>1, <2>2 DEF DomainLife, NoUseAfterFree, FreedDomainsAreEmpty, IoOK
<1>10. ASSUME NEW t \in Thread, DestroyLocked(t)
       PROVE  DomainLife'
  <2> DEFINE gd == call[t].gd
  <2>1. /\ At(t, "destroyUnlinked")
        /\ call'[t].at = "destroyCleared" /\ call'[t].gd = gd
        /\ \A u \in Thread : u # t => call'[u] = call[u]
        /\ gd \in GD /\ gd \in heap
        /\ regions'[gd] = {} /\ mr_cache'[gd] = {}
        /\ UNCHANGED <<domains, heap, cuda_ctxs, io>>
    BY SMTT(30), <1>10, <1>a, <1>b, GotoResult DEF DestroyLocked, domainVars, TypeOK
  <2>2. \A g \in GD : g # gd => regions'[g] = regions[g] /\ mr_cache'[g] = mr_cache[g]
    BY Zenon, <1>10, <1>a, LockedIsLocal
  <2>a. \A u \in Thread : u # t /\ ~At(u, "idle") => call[u].gd # gd /\ call[u].gd \in GD
    BY Zenon, <1>a, <1>b, <2>1 DEF Exclusive
  <2>b. \A i \in io : i.gd # gd
    BY Zenon, <1>a, <2>1 DEF Exclusive
  <2>c. gd \notin domains
    BY Zenon, <1>a, <2>1 DEF Exclusive
  <2>3. Exclusive'
    BY SMTT(30), <1>a, <2>1, <2>2, <2>a, <2>b, <2>c DEF Exclusive
  <2>4. FreedDomainsAreEmpty'
    BY Zenon, <1>a, <2>1, <2>2 DEF FreedDomainsAreEmpty
  <2> QED
    BY Zenon, <1>a, <1>b, <2>1, <2>3, <2>4 DEF DomainLife, NoUseAfterFree, IoOK
<1>11. CASE UNCHANGED <<domainVars, treeVars, call>> /\ io' \subseteq io
  <2>1. Exclusive'
    BY Zenon, <1>11, <1>a DEF Exclusive, domainVars, treeVars
  <2> QED
    BY Zenon, <1>11, <1>a, <2>1
       DEF DomainLife, NoUseAfterFree, FreedDomainsAreEmpty, IoOK, domainVars, treeVars
<1>12. ASSUME NEW t \in Thread, RegisterRejected(t) \/ TranslateRejected(t)
       PROVE  DomainLife'
  BY Zenon, <1>12, <1>7 DEF RegisterRejected, TranslateRejected
<1>13. ASSUME NEW t \in Thread, NEW gd \in GD, NEW pd \in PD, NEW rng \in Ranges,
              RegisterStart(t, gd, pd, rng) \/ TranslateStart(t, gd, pd, rng)
       PROVE  DomainLife'
  BY Zenon, <1>13, <1>4 DEF RegisterStart, TranslateStart
<1>14. ASSUME NEW t \in Thread, NEW gd \in GD, NEW al \in Alloc, InvalidateStart(t, gd, al)
       PROVE  DomainLife'
  BY Zenon, <1>14, <1>4 DEF InvalidateStart
<1>15. ASSUME (\E al \in Alloc : AppAlloc(al) \/ AppRetire(al) \/ AppFree(al))
               \/ (\E i \in io : IoDone(i)) \/ UNCHANGED vars
       PROVE  DomainLife'
  BY Zenon, <1>15, <1>11 DEF AppAlloc, AppRetire, AppFree, IoDone, vars, domainVars, treeVars
<1> QED
  BY Zenon, <1>1, <1>2, <1>3, <1>5, <1>6, <1>8, <1>9, <1>10, <1>12, <1>13, <1>14, <1>15
     DEF Next, ThreadStep, CallBegins

-----------------------------------------------------------------------------
(* The region tree and the MR tree of a domain, and the memory being freed. *)

\* The cached MRs of one device and protection domain do not wrap or overlap.
LEMMA MrsOfDisjoint ==
  ASSUME TreeInv, NEW gd \in GD, NEW dev, NEW pd
  PROVE  /\ \A m \in MrsOf(gd, dev, pd) : Plain(m)
         /\ \A m, n \in MrsOf(gd, dev, pd) : m # n => Disjoint(m, n)
<1> DEFINE S == MrsOf(gd, dev, pd)
           RegionOf(m) == [addr |-> m.addr, len |-> m.len, dev |-> m.dev]
<1>1. \A m \in mr_cache[gd] : RegionOf(m) \in regions[gd]
  BY Zenon DEF TreeInv, MrHasRegion
<1>2. \A m \in S : Plain(m)
  <2>1. \A m \in S : Plain(RegionOf(m))
    BY Zenon, <1>1 DEF MrsOf, TreeInv, RangesOK
  <2> QED
    BY Zenon, <2>1 DEF Plain
<1>3. \A m, n \in S : m # n => Disjoint(m, n)
  <2> SUFFICES ASSUME NEW m \in S, NEW n \in S, m # n PROVE Disjoint(m, n)
    BY Zenon
  <2>1. m.addr # n.addr
    BY Zenon DEF MrsOf, TreeInv, MrUnique
  <2>2. Disjoint(RegionOf(m), RegionOf(n))
    BY Zenon, <1>1, <2>1 DEF MrsOf, TreeInv, RegionsDisjoint
  <2> QED
    BY Zenon, <2>2 DEF Disjoint, Overlaps
<1> QED
  BY Zenon, <1>2, <1>3

\* The overlap check of register_mr is exhaustive, so the new MR shares no byte
\* with another MR of its device and protection domain.
LEMMA RegisterMrFresh ==
  ASSUME TypeOK, TreeInv, NEW gd \in GD, NEW dev, NEW pd, NEW r, Plain(r), NEW k,
         RegisterMr(gd, dev, pd, r, k)
  PROVE  \A m \in mr_cache[gd] :
           m.dev = dev /\ m.pd = pd => Disjoint(m, r) /\ Disjoint(r, m)
<1> DEFINE S == MrsOf(gd, dev, pd)
<1>1. (\A m \in S : Plain(m)) /\ (\A m, n \in S : m # n => Disjoint(m, n))
  BY Zenon, MrsOfDisjoint
<1>2. FindOverlapping(S, r.addr, r.len) = {}
  BY Zenon DEF RegisterMr, FindOverlappingMr
<1>3. \A m \in S : Disjoint(m, r) /\ Disjoint(r, m)
  <2> HIDE DEF S
  <2> QED
    BY Zenon, <1>1, <1>2, FindOverlappingComplete
<1> QED
  BY Zenon, <1>3 DEF MrsOf

\* What a registration under the lock does to the trees: it adds an MR for a
\* region of the tree under a key that is free, or no MR.
MrEffect(gd, pd, r) ==
  \/ UNCHANGED <<mr_cache, ibv_mrs>>
  \/ \E k \in Key : RegisterMr(gd, r.dev, pd, r, k)

\* The locked section of register adds one region that overlaps no other, or
\* reuses the region that holds the range, and then adds at most one MR for it.
LEMMA RegisterEffect ==
  ASSUME IInv, NEW t \in Thread, RegisterLocked(t)
  PROVE  \E r \in Region :
           /\ Plain(r)
           /\ \/ r \in regions[call[t].gd]
              \/ /\ r.addr = call[t].rng.addr /\ r.len = call[t].rng.len
                 /\ \A q \in regions[call[t].gd] : Disjoint(q, r) /\ Disjoint(r, q)
           /\ regions' = [regions EXCEPT ![call[t].gd] = @ \cup {r}]
           /\ MrEffect(call[t].gd, call[t].pd, r)
<1>a. TypeOK /\ CallOK /\ RangesOK /\ RegionsDisjoint
  BY Zenon DEF IInv, LifeInv, TreeInv
<1>1. call[t].gd \in GD /\ call[t].rng \in Ranges /\ call[t].dev \in Device
  BY Zenon, <1>a DEF CallOK, RegisterLocked, At
<1>2. PICK r \in AddRegion(call[t].gd, call[t].rng, call[t].dev) :
        /\ regions' = [regions EXCEPT ![call[t].gd] = @ \cup {r}]
        /\ \/ UNCHANGED <<mr_cache, cuda_ctxs, gpuVars>>
           \/ \E k \in Key : RegisterMr(call[t].gd, r.dev, call[t].pd, r, k)
           \/ RegisterMrFails(call[t].gd, r.dev)
  BY Zenon DEF RegisterLocked
<1>3. MrEffect(call[t].gd, call[t].pd, r)
  BY Zenon, <1>2 DEF MrEffect, RegisterMrFails, gpuVars
<1>4. r \in Region /\ Plain(r)
         /\ \/ r \in regions[call[t].gd]
            \/ /\ r.addr = call[t].rng.addr /\ r.len = call[t].rng.len
               /\ \A q \in regions[call[t].gd] : Disjoint(q, r) /\ Disjoint(r, q)
  BY <1>a, <1>1, AddRegionResult
<1> QED
  BY Zenon, <1>2, <1>3, <1>4

\* The locked section of translate uses a region that holds the range; it changes
\* no region, and an I/O starts with the key of a found or a new MR.
LEMMA TranslateEffect ==
  ASSUME IInv, NEW t \in Thread, TranslateLocked(t)
  PROVE  \E r \in regions[call[t].gd] :
           /\ r \in Region
           /\ Plain(r)
           /\ Contains(r, call[t].rng.addr, call[t].rng.len)
           /\ UNCHANGED regions
           /\ \/ /\ UNCHANGED <<mr_cache, ibv_mrs>>
                 /\ \/ UNCHANGED io
                    \/ \E m \in FindMr(call[t].gd, r.dev, call[t].pd, call[t].rng) :
                         StartIo(call[t].gd, call[t].pd, m.key, call[t].rng)
              \/ \E k \in Key : /\ RegisterMr(call[t].gd, r.dev, call[t].pd, r, k)
                                /\ StartIo(call[t].gd, call[t].pd, k, call[t].rng)
<1>a. TypeOK /\ CallOK /\ RangesOK
  BY Zenon DEF IInv, LifeInv, TreeInv
<1>1. call[t].gd \in GD /\ call[t].rng \in Ranges
  BY Zenon, <1>a DEF CallOK, TranslateLocked, At
<1>2. PICK r \in FindRegion(call[t].gd, call[t].rng) :
        \/ /\ \E m \in FindMr(call[t].gd, r.dev, call[t].pd, call[t].rng) :
                StartIo(call[t].gd, call[t].pd, m.key, call[t].rng)
           /\ UNCHANGED <<mr_cache, cuda_ctxs, gpuVars>>
        \/ \E k \in Key : /\ RegisterMr(call[t].gd, r.dev, call[t].pd, r, k)
                          /\ StartIo(call[t].gd, call[t].pd, k, call[t].rng)
        \/ RegisterMrFails(call[t].gd, r.dev) /\ UNCHANGED io
  BY Zenon DEF TranslateLocked
<1>3. r \in regions[call[t].gd] /\ r \in Region /\ Plain(r)
        /\ Contains(r, call[t].rng.addr, call[t].rng.len)
  BY Zenon, <1>a, <1>1, FindRegionResult
<1>4. UNCHANGED regions
  BY Zenon DEF TranslateLocked
<1> QED
  BY Zenon, <1>2, <1>3, <1>4 DEF RegisterMrFails, gpuVars

\* Adding an MR for a region of the tree keeps everything known about MRs.
LEMMA AddMr ==
  ASSUME IInv, NEW gd \in GD, NEW pd \in PD, NEW k \in Key, NEW r \in Region, Plain(r),
         RegisterMr(gd, r.dev, pd, r, k), r \in regions'[gd], RegionsDisjoint',
         \A g \in GD : regions[g] \subseteq regions'[g], allocated' = allocated
  PROVE  MrHasRegion' /\ MrUnique' /\ NoMrLeak' /\ NoMrOnFreedMemory'
<1> DEFINE new == [addr |-> r.addr, len |-> r.len, dev |-> r.dev, pd |-> pd, key |-> k]
<1>a. TypeOK /\ TreeInv /\ NoMrLeak /\ NoMrOnFreedMemory
  BY Zenon DEF IInv, LifeInv
<1>1. mr_cache' = [mr_cache EXCEPT ![gd] = @ \cup {new}]
  BY Zenon DEF RegisterMr
<1>2. /\ mr_cache'[gd] = mr_cache[gd] \cup {new}
      /\ \A g \in GD : g # gd => mr_cache'[g] = mr_cache[g]
  BY Zenon, <1>1, <1>a DEF TypeOK
<1>3. /\ new.addr = r.addr /\ new.len = r.len /\ new.dev = r.dev
      /\ new.pd = pd /\ new.key = k /\ HwOf(new) = [key |-> k, pd |-> pd,
                                                    addr |-> r.addr, len |-> r.len]
  BY Zenon DEF HwOf
<1> HIDE DEF new
<1>4. MrHasRegion'
  <2>1. [addr |-> new.addr, len |-> new.len, dev |-> new.dev] = r
    BY Zenon, <1>3 DEF Region
  <2> SUFFICES ASSUME NEW g \in GD, NEW m \in mr_cache'[g]
               PROVE  [addr |-> m.addr, len |-> m.len, dev |-> m.dev] \in regions'[g]
    BY Zenon DEF MrHasRegion
  <2>2. CASE m \in mr_cache[g]
    BY Zenon, <2>2, <1>a DEF TreeInv, MrHasRegion
  <2>3. CASE m = new /\ g = gd
    BY Zenon, <2>3, <2>1
  <2> QED
    BY Zenon, <2>2, <2>3, <1>2
<1>5. \A m \in mr_cache[gd] : m.pd = pd => m.addr # r.addr
  <2> SUFFICES ASSUME NEW m \in mr_cache[gd], m.pd = pd, m.addr = r.addr PROVE FALSE
    BY Zenon
  <2> DEFINE q == [addr |-> m.addr, len |-> m.len, dev |-> m.dev]
  <2>1. q \in regions[gd] /\ q \in regions'[gd]
    BY Zenon, <1>a DEF TreeInv, MrHasRegion
  <2>2. Plain(q)
    BY Zenon, <2>1, <1>a DEF TreeInv, RangesOK
  <2>3. q.addr = r.addr
    BY Zenon
  <2>4. Overlaps(q, r.addr, r.len)
    <3> HIDE DEF q
    <3> QED
      BY <2>2, <2>3, OverlapsPlain DEF Plain
  <2>5. q = r
    BY Zenon, <2>1, <2>4 DEF RegionsDisjoint, Disjoint
  <2>6. m.dev = r.dev
    BY Zenon, <2>5
  <2>7. Disjoint(m, r)
    BY Zenon, <2>6, <1>a, RegisterMrFresh
  <2> QED
    BY Zenon, <2>7, <2>4 DEF Disjoint, Overlaps
<1>6. MrUnique'
  BY <1>a, <1>2, <1>3, <1>5 DEF MrUnique, TreeInv
<1>7. \A g \in GD : \A m \in mr_cache[g] : m.key # k
  <2> SUFFICES ASSUME NEW g \in GD, NEW m \in mr_cache[g], m.key = k PROVE FALSE
    BY Zenon
  <2>1. HwOf(m) \in ibv_mrs /\ HwOf(m).key = k
    BY <1>a DEF NoMrLeak, HwOf
  <2> QED
    BY Zenon, <2>1 DEF RegisterMr, KeyInUse
<1>8. ibv_mrs' = UNION {{HwOf(m) : m \in mr_cache'[g]} : g \in GD}
  <2>1. ibv_mrs' = ibv_mrs \cup {HwOf(new)}
    BY Zenon, <1>3 DEF RegisterMr
  <2>2. ibv_mrs = UNION {{HwOf(m) : m \in mr_cache[g]} : g \in GD}
    BY Zenon, <1>a DEF NoMrLeak
  <2> QED
    BY <2>1, <2>2, <1>2
<1>9. \A g, h \in GD : \A m \in mr_cache'[g], n \in mr_cache'[h] :
        m.key = n.key => g = h /\ m = n
  BY SMTT(30), <1>a, <1>2, <1>3, <1>7 DEF NoMrLeak
<1>10. NoMrLeak'
  BY Zenon, <1>8, <1>9 DEF NoMrLeak, HwOf
<1>11. \E al \in allocated : Contains(al, r.addr, r.len)
  <2>1. PICK al \in allocated : /\ Contains(al, r.addr, 1)
                                /\ r.len <= al.len - (r.addr - al.addr)
    BY Zenon DEF RegisterMr, InsideAllocation
  <2>2. Plain(al)
    BY Zenon, <1>a, RangeAssumption DEF TypeOK
  <2> QED
    BY SMTT(30), <2>1, <2>2, ContainsPlain DEF Plain, Contains
<1>12. NoMrOnFreedMemory'
  BY Zenon, <1>a, <1>2, <1>3, <1>11 DEF NoMrOnFreedMemory
<1> QED
  BY Zenon, <1>4, <1>6, <1>10, <1>12

\* Dropping MRs from one domain and deregistering them leaks nothing.
LEMMA DropMrs ==
  ASSUME TypeOK, NoMrLeak, NEW gd \in GD, NEW M \in SUBSET mr_cache[gd], Dereg(M),
         mr_cache' = [mr_cache EXCEPT ![gd] = @ \ M]
  PROVE  NoMrLeak'
<1>1. /\ mr_cache'[gd] = mr_cache[gd] \ M
      /\ \A g \in GD : g # gd => mr_cache'[g] = mr_cache[g]
  BY Zenon DEF TypeOK
<1>2. ibv_mrs = UNION {{HwOf(m) : m \in mr_cache[g]} : g \in GD}
  BY Zenon DEF NoMrLeak
<1>3. \A g, h \in GD : \A m \in mr_cache[g], n \in mr_cache[h] :
        m.key = n.key => g = h /\ m = n
  BY Zenon DEF NoMrLeak
<1>4. \A m : HwOf(m).key = m.key
  BY Zenon DEF HwOf
<1>5. ibv_mrs' = {h \in ibv_mrs : ~\E m \in M : m.key = h.key}
  BY Zenon DEF Dereg
<1>6. ASSUME NEW h \in ibv_mrs' PROVE h \in UNION {{HwOf(m) : m \in mr_cache'[g]} : g \in GD}
  <2>1. PICK g \in GD : \E m \in mr_cache[g] : h = HwOf(m)
    BY Zenon, <1>2, <1>5
  <2>2. PICK m \in mr_cache[g] : h = HwOf(m)
    BY Zenon, <2>1
  <2>3. m \in mr_cache'[g]
    BY Zenon, <1>1, <1>4, <1>5, <2>2
  <2> QED
    BY <2>2, <2>3
<1>7. ASSUME NEW g \in GD, NEW m \in mr_cache'[g] PROVE HwOf(m) \in ibv_mrs'
  <2>1. m \in mr_cache[g] /\ ~(g = gd /\ m \in M)
    BY Zenon, <1>1
  <2>2. HwOf(m) \in ibv_mrs
    BY <2>1, <1>2
  <2>3. ~\E n \in M : n.key = m.key
    BY Zenon, <2>1, <1>3
  <2> QED
    BY Zenon, <2>2, <2>3, <1>4, <1>5
<1>8. ibv_mrs' = UNION {{HwOf(m) : m \in mr_cache'[g]} : g \in GD}
  BY <1>6, <1>7
<1>9. \A g, h \in GD : \A m \in mr_cache'[g], n \in mr_cache'[h] :
        m.key = n.key => g = h /\ m = n
  BY <1>1, <1>3
<1> QED
  BY Zenon, <1>8, <1>9 DEF NoMrLeak, HwOf

\* Regions never wrap, live allocations are disjoint, and a domain that has
\* invalidated an allocation that is being freed gets no new region there.
LEMMA RangesStep == IInv /\ [Next]_vars => RangesOK'
<1> SUFFICES ASSUME IInv, [Next]_vars PROVE RangesOK'
  BY Zenon
<1>a. TypeOK /\ CallOK /\ RangesOK /\ FreedDomainsAreEmpty /\ NoUseAfterFree
  BY Zenon DEF IInv, LifeInv, TreeInv
<1> USE DEF RegisterInFlight, At
<1>1. ASSUME UNCHANGED <<regions, allocated, retiring>>,
             \A gd \in heap' : gd \in heap \/ regions[gd] = {},
             \A al \in retiring, gd \in heap' : <<al, gd>> \in owed => <<al, gd>> \in owed',
             \A t \in Thread : call'[t].at \in {"register", "registerDevice"} =>
               \/ /\ call[t].at \in {"register", "registerDevice"}
                  /\ call'[t].rng = call[t].rng
               \/ ~OverlapsAny(retiring, call'[t].rng),
             \A t \in Thread : call'[t].at = "invalidate" =>
               call'[t] = call[t] \/ call'[t].rng \in retiring
      PROVE  RangesOK'
  <2>1. \A al \in retiring', gd \in heap' :
          <<al, gd>> \notin owed' => \A r \in regions'[gd] : Disjoint(r, al)
    BY Zenon, <1>1, <1>a DEF RangesOK
  <2>2. \A t \in Thread : RegisterInFlight(t)' => ~OverlapsAny(retiring', call'[t].rng)
    BY Zenon, <1>1, <1>a DEF RangesOK
  <2>3. \A t \in Thread : call'[t].at = "invalidate" => call'[t].rng \in retiring'
    BY Zenon, <1>1, <1>a DEF RangesOK
  <2> QED
    BY Zenon, <1>1, <1>a, <2>1, <2>2, <2>3 DEF RangesOK, OverlapsAny
<1>2. ASSUME NEW t \in Thread, NEW gd \in GD, NEW c \in Conf, CreateRetain(t, gd, c)
      PROVE  RangesOK'
  <2>1. /\ call'[t].at = "created" /\ \A u \in Thread : u # t => call'[u] = call[u]
        /\ heap' = heap \cup {gd} /\ gd \notin heap
        /\ UNCHANGED <<regions, allocated, retiring, owed>>
    BY Zenon, <1>2, <1>a, GotoResult DEF CreateRetain, treeVars, appVars
  <2>2. regions[gd] = {}
    BY Zenon, <1>a, <2>1 DEF FreedDomainsAreEmpty
  <2> QED
    BY Zenon, <1>1, <2>1, <2>2
<1>3. ASSUME NEW t \in Thread, CreateFail(t) \/ DestroyFree(t)
      PROVE  RangesOK'
  <2>1. /\ call'[t].at = "idle" /\ \A u \in Thread : u # t => call'[u] = call[u]
        /\ heap' = heap \ {call[t].gd}
        /\ owed' = {p \in owed : p[2] # call[t].gd}
        /\ UNCHANGED <<regions, allocated, retiring>>
    BY Zenon, <1>3, <1>a, ReturnResult DEF CreateFail, DestroyFree, FreeDomain, treeVars
  <2> QED
    BY Zenon, <1>1, <2>1
<1>4. ASSUME NEW t \in Thread, Return(t), UNCHANGED <<heap, regions, appVars>>
      PROVE  RangesOK'
  <2>1. /\ call'[t].at = "idle" /\ \A u \in Thread : u # t => call'[u] = call[u]
        /\ UNCHANGED <<heap, regions, allocated, retiring, owed>>
    BY Zenon, <1>4, <1>a, ReturnResult DEF appVars
  <2> QED
    BY Zenon, <1>1, <2>1
<1>5. ASSUME NEW t \in Thread, NEW pc, NEW gd, NEW pd, NEW rng, NEW dev,
             Goto(t, pc, gd, pd, rng, dev), UNCHANGED <<heap, regions, appVars>>,
             \/ pc \notin {"register", "registerDevice"}
             \/ ~OverlapsAny(retiring, rng)
             \/ At(t, "register") /\ rng = call[t].rng,
             pc = "invalidate" => rng \in retiring
      PROVE  RangesOK'
  <2>1. /\ call'[t].at = pc /\ call'[t].rng = rng
        /\ \A u \in Thread : u # t => call'[u] = call[u]
        /\ UNCHANGED <<heap, regions, allocated, retiring, owed>>
    BY Zenon, <1>5, <1>a, GotoResult DEF appVars
  <2> QED
    BY Zenon, <1>1, <1>5, <2>1
<1>6. ASSUME NEW t \in Thread, RegisterLocked(t)
      PROVE  RangesOK'
  <2> DEFINE gd == call[t].gd
  <2>1. /\ call'[t].at = "idle" /\ \A u \in Thread : u # t => call'[u] = call[u]
        /\ UNCHANGED <<heap, allocated, retiring, owed>>
        /\ call[t].at = "registerDevice" /\ gd \in GD
    BY Zenon, <1>6, <1>a, ReturnResult DEF RegisterLocked, domainVars, appVars, CallOK
  <2>2. PICK r \in Region :
           /\ Plain(r)
           /\ \/ r \in regions[gd]
              \/ r.addr = call[t].rng.addr /\ r.len = call[t].rng.len
           /\ regions' = [regions EXCEPT ![gd] = @ \cup {r}]
    BY Zenon, <1>6, RegisterEffect
  <2>3. /\ regions'[gd] = regions[gd] \cup {r}
        /\ \A g \in GD : g # gd => regions'[g] = regions[g]
    BY Zenon, <1>a, <2>1, <2>2 DEF TypeOK
  <2>4. r \notin regions[gd] => \A al \in retiring : Disjoint(r, al)
    BY Zenon, <1>a, <2>1, <2>2 DEF RangesOK, OverlapsAny, Disjoint, Overlaps
  <2>5. \A g \in GD : \A q \in regions'[g] : Plain(q)
    BY Zenon, <1>a, <2>2, <2>3 DEF RangesOK
  <2>6. \A al \in retiring', g \in heap' :
          <<al, g>> \notin owed' => \A q \in regions'[g] : Disjoint(q, al)
    BY SMTT(30), <1>a, <2>1, <2>3, <2>4 DEF RangesOK, TypeOK
  <2>7. \A u \in Thread : RegisterInFlight(u)' => ~OverlapsAny(retiring', call'[u].rng)
    BY Zenon, <1>a, <2>1 DEF RangesOK
  <2> QED
    BY Zenon, <1>a, <2>1, <2>5, <2>6, <2>7 DEF RangesOK, OverlapsAny
<1>7. ASSUME NEW t \in Thread, InvalidateLocked(t)
      PROVE  RangesOK'
  <2> DEFINE gd == call[t].gd
             al == call[t].rng
  <2>1. /\ call'[t].at = "idle" /\ \A u \in Thread : u # t => call'[u] = call[u]
        /\ UNCHANGED <<heap, allocated, retiring>>
        /\ owed' = owed \ {<<al, gd>>} /\ gd \in GD
    BY Zenon, <1>7, <1>a, ReturnResult DEF InvalidateLocked, domainVars, CallOK
  <2>2. /\ regions'[gd] = {r \in regions[gd] : ~Overlaps(r, al.addr, al.len)}
        /\ \A g \in GD : g # gd => regions'[g] = regions[g]
    BY Zenon, <1>7, <1>a, <2>1 DEF InvalidateLocked, TypeOK
  <2>3. \A g \in GD : \A q \in regions'[g] : Plain(q)
    BY Zenon, <1>a, <2>2 DEF RangesOK
  <2>4. \A x \in retiring', g \in heap' :
          <<x, g>> \notin owed' => \A q \in regions'[g] : Disjoint(q, x)
    BY Zenon, <1>a, <2>1, <2>2 DEF RangesOK, TypeOK, Disjoint
  <2>5. \A u \in Thread : RegisterInFlight(u)' => ~OverlapsAny(retiring', call'[u].rng)
    BY Zenon, <1>a, <2>1 DEF RangesOK
  <2> QED
    BY Zenon, <1>a, <2>1, <2>3, <2>4, <2>5 DEF RangesOK, OverlapsAny
<1>8. ASSUME NEW t \in Thread, DestroyLocked(t)
      PROVE  RangesOK'
  <2>1. /\ call'[t].at = "destroyCleared" /\ \A u \in Thread : u # t => call'[u] = call[u]
        /\ UNCHANGED <<heap, allocated, retiring, owed>>
        /\ \A g \in GD : regions'[g] \subseteq regions[g]
    BY SMTT(30), <1>8, <1>a, GotoResult DEF DestroyLocked, domainVars, appVars, TypeOK
  <2>2. \A u \in Thread : RegisterInFlight(u)' => ~OverlapsAny(retiring', call'[u].rng)
    BY Zenon, <1>a, <2>1 DEF RangesOK
  <2> QED
    BY Zenon, <1>a, <2>1, <2>2 DEF RangesOK, OverlapsAny, TypeOK
<1>9. ASSUME NEW al \in Alloc, AppAlloc(al)
      PROVE  RangesOK'
  <2>1. \A a, b \in allocated' : a # b => Disjoint(a, b)
    BY Zenon, <1>9, <1>a DEF AppAlloc, RangesOK, Disjoint, Overlaps
  <2> QED
    BY Zenon, <1>9, <1>a, <2>1 DEF AppAlloc, RangesOK, OverlapsAny, domainVars, treeVars
<1>10. ASSUME NEW al \in Alloc, AppRetire(al)
      PROVE  RangesOK'
  <2>1. /\ retiring' = retiring \cup {al} /\ owed' = owed \cup ({al} \X heap)
        /\ UNCHANGED <<heap, regions, allocated, call>>
        /\ \A t \in Thread :
             RegisterInFlight(t) => ~Overlaps(al, call[t].rng.addr, call[t].rng.len)
    BY Zenon, <1>10 DEF AppRetire, domainVars, treeVars
  <2>2. \A x \in retiring', gd \in heap' :
          <<x, gd>> \notin owed' => \A r \in regions'[gd] : Disjoint(r, x)
    BY Zenon, <1>a, <2>1 DEF RangesOK
  <2>3. \A t \in Thread : RegisterInFlight(t) => ~OverlapsAny(retiring', call[t].rng)
    BY Zenon, <1>a, <2>1 DEF RangesOK, OverlapsAny
  <2> QED
    BY Zenon, <1>a, <2>1, <2>2, <2>3 DEF RangesOK, OverlapsAny
<1>11. ASSUME NEW al \in Alloc, AppFree(al)
      PROVE  RangesOK'
  BY Zenon, <1>11, <1>a DEF AppFree, RangesOK, OverlapsAny, domainVars, treeVars
<1>12. ASSUME (\E i \in io : IoDone(i)) \/ UNCHANGED vars
       PROVE  RangesOK'
  BY Zenon, <1>12, <1>a DEF IoDone, RangesOK, OverlapsAny, domainVars, treeVars, appVars, vars
<1>13. ASSUME NEW t \in Thread,
              CreatePublish(t) \/ RegisterRejected(t) \/ TranslateRejected(t) \/ TranslateLocked(t)
       PROVE  RangesOK'
  BY Zenon, <1>13, <1>4 DEF CreatePublish, RegisterRejected, TranslateRejected, TranslateLocked,
     domainVars, treeVars
<1>14. ASSUME NEW t \in Thread, RegisterDevice(t) \/ DestroyUnlink(t)
       PROVE  RangesOK'
  BY <1>14, <1>5 DEF RegisterDevice, DestroyUnlink, domainVars, treeVars
<1>15. ASSUME NEW t \in Thread, NEW gd \in GD, NEW pd \in PD, NEW rng \in Ranges,
              RegisterStart(t, gd, pd, rng) \/ TranslateStart(t, gd, pd, rng)
       PROVE  RangesOK'
  BY SMTT(30), <1>15, <1>5 DEF RegisterStart, TranslateStart, CallStarts, domainVars, treeVars
<1>16. ASSUME NEW t \in Thread, NEW gd \in GD, NEW al \in Alloc, InvalidateStart(t, gd, al)
       PROVE  RangesOK'
  <2>1. al \in retiring
    BY Zenon, <1>a, <1>16 DEF TypeOK, InvalidateStart
  <2> QED
    BY Zenon, <1>16, <1>5, <2>1 DEF InvalidateStart, CallStarts, domainVars, treeVars
<1>17. ASSUME NEW t \in Thread, NEW gd \in GD, DestroyStart(t, gd)
       PROVE  RangesOK'
  BY <1>17, <1>5 DEF DestroyStart, CallStarts, domainVars, treeVars
<1> QED
  BY Zenon, <1>2, <1>3, <1>6, <1>7, <1>8, <1>9, <1>10, <1>11, <1>12, <1>13, <1>14, <1>15, <1>16,
     <1>17 DEF Next, ThreadStep, CallBegins

-----------------------------------------------------------------------------
(* What the MRs, the RDMA device and the I/O in flight agree on. *)

\* What the MRs of every domain, the RDMA device and the I/O in flight agree on.
MrInv ==
  /\ RegionsDisjoint /\ MrHasRegion /\ MrUnique
  /\ NoMrLeak /\ NoMrOnFreedMemory /\ InFlightKeyLive

\* Every region and every MR that overlaps the invalidated allocation goes, so
\* no MR is left without its region; an I/O that loses its MR is one on memory
\* that is being freed.
LEMMA InvalidateKeepsMrs ==
  ASSUME IInv, NEW t \in Thread, InvalidateLocked(t)
  PROVE  MrInv'
<1> DEFINE gd == call[t].gd
           al == call[t].rng
           M == {m \in mr_cache[gd] : Overlaps(m, al.addr, al.len)}
<1>a. /\ TypeOK /\ CallOK /\ RangesOK /\ RegionsDisjoint /\ MrHasRegion /\ MrUnique
      /\ NoMrLeak /\ NoMrOnFreedMemory /\ InFlightKeyLive
  BY Zenon DEF IInv, LifeInv, TreeInv
<1>1. gd \in GD /\ al \in Alloc /\ al \in retiring
  BY Zenon, <1>a DEF CallOK, InvalidateLocked, At, RangesOK
<1>2. /\ regions'[gd] = {r \in regions[gd] : ~Overlaps(r, al.addr, al.len)}
      /\ mr_cache' = [mr_cache EXCEPT ![gd] = @ \ M]
      /\ mr_cache'[gd] = mr_cache[gd] \ M
      /\ \A g \in GD : g # gd => regions'[g] = regions[g] /\ mr_cache'[g] = mr_cache[g]
      /\ Dereg(M)
      /\ UNCHANGED <<allocated, retiring, io>>
  BY Zenon, <1>1, <1>a DEF InvalidateLocked, TypeOK
<1>3. NoMrLeak'
  <2> HIDE DEF M
  <2>1. M \in SUBSET mr_cache[gd]
    BY Zenon DEF M
  <2> QED
    BY Zenon, <1>a, <1>1, <1>2, <2>1, DropMrs
<1>4. RegionsDisjoint'
  BY Zenon, <1>a, <1>2 DEF RegionsDisjoint
<1>5. MrHasRegion'
  <2> SUFFICES ASSUME NEW g \in GD, NEW m \in mr_cache'[g]
               PROVE  [addr |-> m.addr, len |-> m.len, dev |-> m.dev] \in regions'[g]
    BY Zenon DEF MrHasRegion
  <2>1. m \in mr_cache[g] /\ (g = gd => ~Overlaps(m, al.addr, al.len))
    BY Zenon, <1>2
  <2>2. [addr |-> m.addr, len |-> m.len, dev |-> m.dev] \in regions[g]
    BY Zenon, <1>a, <2>1 DEF MrHasRegion
  <2> QED
    BY Zenon, <2>1, <2>2, <1>2 DEF Overlaps
<1>6. MrUnique' /\ NoMrOnFreedMemory'
  BY Zenon, <1>a, <1>2 DEF MrUnique, NoMrOnFreedMemory
<1>7. ASSUME NEW i \in io, NEW m \in M, Serves(m, i), i.gd = gd
      PROVE  OverlapsAny(retiring, i.rng)
  <2>1. PICK b \in allocated : Contains(b, m.addr, m.len)
    BY Zenon, <1>a, <1>1 DEF NoMrOnFreedMemory
  <2>2. Plain(b) /\ Plain(al) /\ Plain(i.rng)
    BY Zenon, <1>a, <1>1, RangeAssumption DEF TypeOK, IO
  <2>3. Plain(m)
    <3>1. Plain([addr |-> m.addr, len |-> m.len, dev |-> m.dev])
      BY Zenon, <1>a, <1>1 DEF MrHasRegion, RangesOK
    <3> QED
      BY Zenon, <3>1 DEF Plain
  <2>4. /\ b.addr <= m.addr /\ m.addr + m.len <= b.addr + b.len
        /\ m.addr <= i.rng.addr /\ i.rng.addr + i.rng.len <= m.addr + m.len
        /\ al.addr < m.addr + m.len /\ m.addr < al.addr + al.len
    BY Zenon, <1>7, <2>1, <2>2, <2>3, ContainsPlain, OverlapsPlain DEF Serves
  <2>5. Overlaps(b, al.addr, al.len)
    BY <2>2, <2>3, <2>4, OverlapsPlain DEF Plain
  <2>6. b = al
    BY Zenon, <1>a, <1>1, <2>5 DEF RangesOK, Disjoint, TypeOK
  <2>7. Overlaps(al, i.rng.addr, i.rng.len)
    BY <2>2, <2>3, <2>4, <2>6, OverlapsPlain DEF Plain
  <2> QED
    BY Zenon, <1>1, <2>7 DEF OverlapsAny
<1>8. InFlightKeyLive'
  <2> SUFFICES ASSUME NEW i \in io, ~OverlapsAny(retiring, i.rng)
               PROVE  \E m \in mr_cache'[i.gd] :
                        Serves(m, i)
    BY Zenon, <1>2 DEF InFlightKeyLive, OverlapsAny
  <2>1. PICK m \in mr_cache[i.gd] : Serves(m, i)
    BY Zenon, <1>a DEF InFlightKeyLive
  <2>2. i.gd \in GD
    BY Zenon, <1>a DEF TypeOK, IO
  <2>3. ~(i.gd = gd /\ m \in M)
    BY Zenon, <1>7, <2>1
  <2> QED
    BY Zenon, <1>2, <2>1, <2>2, <2>3
<1> QED
  BY Zenon, <1>3, <1>4, <1>5, <1>6, <1>8 DEF MrInv

\* A registration under the lock keeps everything known about MRs; the key that
\* a translation hands out is the key of an MR that covers the range.
LEMMA LockedKeepsMrs ==
  ASSUME IInv, NEW t \in Thread, RegisterLocked(t) \/ TranslateLocked(t)
  PROVE  MrInv'
<1> DEFINE gd == call[t].gd
           pd == call[t].pd
           rng == call[t].rng
<1>a. /\ TypeOK /\ CallOK /\ RangesOK /\ RegionsDisjoint /\ MrHasRegion /\ MrUnique
      /\ NoMrLeak /\ NoMrOnFreedMemory /\ InFlightKeyLive
  BY Zenon DEF IInv, LifeInv, TreeInv
<1>1. gd \in GD /\ pd \in PD /\ rng \in Ranges
  BY Zenon, <1>a DEF CallOK, RegisterLocked, TranslateLocked, At
<1>2. UNCHANGED <<allocated, retiring>>
  BY Zenon DEF RegisterLocked, TranslateLocked, appVars
<1>3. ASSUME NEW r \in Region, Plain(r), r \in regions'[gd], RegionsDisjoint',
             \A g \in GD : regions[g] \subseteq regions'[g], MrEffect(gd, pd, r)
      PROVE  /\ MrHasRegion' /\ MrUnique' /\ NoMrLeak' /\ NoMrOnFreedMemory'
             /\ \A g \in GD : mr_cache[g] \subseteq mr_cache'[g]
  <2>1. CASE UNCHANGED <<mr_cache, ibv_mrs>>
    BY <2>1, <1>a, <1>2, <1>3 DEF MrHasRegion, MrUnique, NoMrLeak, NoMrOnFreedMemory
  <2>2. CASE \E k \in Key : RegisterMr(gd, r.dev, pd, r, k)
    <3>1. \A g \in GD : mr_cache[g] \subseteq mr_cache'[g]
      BY Zenon, <2>2, <1>a DEF RegisterMr, TypeOK
    <3> QED
      BY Zenon, <2>2, <3>1, <1>1, <1>2, <1>3, AddMr
  <2> QED
    BY Zenon, <2>1, <2>2, <1>3 DEF MrEffect
<1>4. ASSUME \A g \in GD : mr_cache[g] \subseteq mr_cache'[g],
             \A i \in io' \ io : \E m \in mr_cache'[i.gd] :
               Serves(m, i)
      PROVE  InFlightKeyLive'
  <2> SUFFICES ASSUME NEW i \in io', ~OverlapsAny(retiring, i.rng)
               PROVE  \E m \in mr_cache'[i.gd] :
                        Serves(m, i)
    BY Zenon, <1>2 DEF InFlightKeyLive, OverlapsAny
  <2>1. CASE i \in io
    <3>1. i.gd \in GD
      BY Zenon, <2>1, <1>a DEF TypeOK, IO
    <3> QED
      BY Zenon, <2>1, <3>1, <1>4, <1>a DEF InFlightKeyLive
  <2> QED
    BY Zenon, <2>1, <1>4
<1>5. CASE RegisterLocked(t)
  <2>1. PICK r \in Region :
           /\ Plain(r)
           /\ \/ r \in regions[gd]
              \/ \A q \in regions[gd] : Disjoint(q, r) /\ Disjoint(r, q)
           /\ regions' = [regions EXCEPT ![gd] = @ \cup {r}]
           /\ MrEffect(gd, pd, r)
    BY Zenon, <1>5, RegisterEffect
  <2>2. /\ regions'[gd] = regions[gd] \cup {r}
        /\ \A g \in GD : g # gd => regions'[g] = regions[g]
    BY Zenon, <1>a, <1>1, <2>1 DEF TypeOK
  <2>3. RegionsDisjoint'
    BY <1>a, <2>1, <2>2 DEF RegionsDisjoint
  <2>4. /\ MrHasRegion' /\ MrUnique' /\ NoMrLeak' /\ NoMrOnFreedMemory'
        /\ \A g \in GD : mr_cache[g] \subseteq mr_cache'[g]
    BY Zenon, <1>3, <2>1, <2>2, <2>3
  <2>5. UNCHANGED io
    BY Zenon, <1>5 DEF RegisterLocked
  <2> QED
    BY Zenon, <1>4, <2>3, <2>4, <2>5 DEF MrInv
<1>6. CASE TranslateLocked(t)
  <2>1. PICK r \in regions[gd] :
           /\ r \in Region
           /\ Plain(r)
           /\ Contains(r, rng.addr, rng.len)
           /\ UNCHANGED regions
           /\ \/ /\ UNCHANGED <<mr_cache, ibv_mrs>>
                 /\ \/ UNCHANGED io
                    \/ \E m \in FindMr(gd, r.dev, pd, rng) : StartIo(gd, pd, m.key, rng)
              \/ \E k \in Key : RegisterMr(gd, r.dev, pd, r, k) /\ StartIo(gd, pd, k, rng)
    BY Zenon, <1>6, TranslateEffect
  <2>2. RegionsDisjoint'
    BY Zenon, <1>a, <2>1 DEF RegionsDisjoint
  <2>3. /\ MrHasRegion' /\ MrUnique' /\ NoMrLeak' /\ NoMrOnFreedMemory'
        /\ \A g \in GD : mr_cache[g] \subseteq mr_cache'[g]
    BY Zenon, <1>3, <2>1, <2>2 DEF MrEffect
  <2> DEFINE Covered == \A i \in io' \ io : \E m \in mr_cache'[i.gd] :
                           Serves(m, i)
  <2>4. Covered
    <3>1. CASE UNCHANGED io
      BY Zenon, <3>1
    <3>2. ASSUME UNCHANGED mr_cache,
                 NEW m \in FindMr(gd, r.dev, pd, rng), StartIo(gd, pd, m.key, rng)
          PROVE  Covered
      <4>1. m \in mr_cache[gd] /\ m.pd = pd /\ Contains(m, rng.addr, rng.len)
        BY <1>a, <1>1, FindMrResult
      <4> QED
        BY <3>2, <4>1 DEF StartIo, Serves
    <3>3. ASSUME NEW k \in Key, RegisterMr(gd, r.dev, pd, r, k), StartIo(gd, pd, k, rng)
          PROVE  Covered
      <4> DEFINE new == [addr |-> r.addr, len |-> r.len, dev |-> r.dev, pd |-> pd, key |-> k]
      <4>1. new \in mr_cache'[gd]
        BY Zenon, <3>3, <1>a, <1>1 DEF RegisterMr, TypeOK
      <4>2. new.key = k /\ new.pd = pd /\ Contains(new, rng.addr, rng.len)
        BY Zenon, <2>1 DEF Contains
      <4> HIDE DEF new
      <4> QED
        BY <3>3, <4>1, <4>2 DEF StartIo, Serves
    <3> QED
      BY Zenon, <2>1, <3>1, <3>2, <3>3
  <2> QED
    BY Zenon, <1>4, <2>2, <2>3, <2>4 DEF MrInv
<1> QED
  BY Zenon, <1>5, <1>6

\* No step of a call or of the application breaks what is known about MRs.
LEMMA MrStep == IInv /\ [Next]_vars => MrInv'
<1> SUFFICES ASSUME IInv, [Next]_vars PROVE MrInv'
  BY Zenon
<1>a. /\ TypeOK /\ CallOK /\ RangesOK /\ RegionsDisjoint /\ MrHasRegion /\ MrUnique
      /\ NoMrLeak /\ NoMrOnFreedMemory /\ InFlightKeyLive
      /\ FreedDomainsAreEmpty /\ Exclusive
  BY Zenon DEF IInv, LifeInv, TreeInv
<1>1. ASSUME UNCHANGED <<regions, mr_cache, ibv_mrs>>, io' \subseteq io,
             allocated \subseteq allocated', retiring \subseteq retiring'
      PROVE  MrInv'
  <2>1. RegionsDisjoint' /\ MrHasRegion' /\ MrUnique' /\ NoMrLeak' /\ NoMrOnFreedMemory'
    BY <1>1, <1>a DEF RegionsDisjoint, MrHasRegion, MrUnique, NoMrLeak, NoMrOnFreedMemory
  <2>2. InFlightKeyLive'
    BY Zenon, <1>1, <1>a DEF InFlightKeyLive, OverlapsAny
  <2> QED
    BY Zenon, <2>1, <2>2 DEF MrInv
<1>2. ASSUME NEW t \in Thread, DestroyLocked(t)
      PROVE  MrInv'
  <2> DEFINE gd == call[t].gd
             M == mr_cache[gd]
  <2>1. /\ gd \in GD /\ \A i \in io : i.gd # gd
        /\ regions'[gd] = {} /\ mr_cache'[gd] = {}
        /\ mr_cache' = [mr_cache EXCEPT ![gd] = @ \ M]
        /\ \A g \in GD : g # gd => regions'[g] = regions[g] /\ mr_cache'[g] = mr_cache[g]
        /\ Dereg(M)
        /\ UNCHANGED <<allocated, retiring, io>>
    BY Zenon, <1>2, <1>a DEF DestroyLocked, At, CallOK, Exclusive, TypeOK, appVars
  <2>2. NoMrLeak'
    <3> HIDE DEF M
    <3>1. M \in SUBSET mr_cache[gd]
      BY Zenon DEF M
    <3> QED
      BY Zenon, <1>a, <2>1, <3>1, DropMrs
  <2>3. RegionsDisjoint' /\ MrHasRegion' /\ MrUnique' /\ NoMrOnFreedMemory'
    BY Zenon, <1>a, <2>1 DEF RegionsDisjoint, MrHasRegion, MrUnique, NoMrOnFreedMemory
  <2>4. InFlightKeyLive'
    BY Zenon, <1>a, <2>1 DEF InFlightKeyLive, OverlapsAny, TypeOK, IO
  <2> QED
    BY Zenon, <2>2, <2>3, <2>4 DEF MrInv
<1>3. ASSUME NEW al \in Alloc, AppFree(al)
      PROVE  MrInv'
  <2>1. /\ allocated' = allocated \ {al} /\ retiring' = retiring \ {al} /\ al \in retiring
        /\ \A gd \in GD : <<al, gd>> \notin owed
        /\ \A i \in io : ~Overlaps(al, i.rng.addr, i.rng.len)
        /\ UNCHANGED <<regions, mr_cache, ibv_mrs, io>>
    BY Zenon, <1>3 DEF AppFree, treeVars, gpuVars
  <2>2. ASSUME NEW gd \in GD, NEW m \in mr_cache[gd], Contains(al, m.addr, m.len)
        PROVE  FALSE
    <3> DEFINE r == [addr |-> m.addr, len |-> m.len, dev |-> m.dev]
    <3>1. r \in regions[gd] /\ Plain(r)
      BY Zenon, <1>a DEF MrHasRegion, RangesOK
    <3>2. gd \in heap
      BY Zenon, <1>a DEF FreedDomainsAreEmpty
    <3>3. Disjoint(r, al)
      BY Zenon, <1>a, <2>1, <3>1, <3>2 DEF RangesOK
    <3>4. Plain(al)
      BY Zenon, RangeAssumption
    <3>5. Contains(al, r.addr, r.len)
      BY Zenon, <2>2
    <3> HIDE DEF r
    <3> QED
      BY <3>1, <3>3, <3>4, <3>5, ContainsPlain, OverlapsPlain DEF Disjoint, Plain
  <2>3. NoMrOnFreedMemory'
    BY Zenon, <1>a, <2>1, <2>2 DEF NoMrOnFreedMemory
  <2>4. InFlightKeyLive'
    BY Zenon, <1>a, <2>1 DEF InFlightKeyLive, OverlapsAny
  <2>5. RegionsDisjoint' /\ MrHasRegion' /\ MrUnique' /\ NoMrLeak'
    BY SMTT(30), <1>a, <2>1 DEF RegionsDisjoint, MrHasRegion, MrUnique, NoMrLeak
  <2> QED
    BY Zenon, <2>3, <2>4, <2>5 DEF MrInv
<1>4. ASSUME NEW t \in Thread,
             \/ CreatePublish(t) \/ CreateFail(t) \/ RegisterDevice(t) \/ RegisterRejected(t)
             \/ TranslateRejected(t) \/ DestroyUnlink(t) \/ DestroyFree(t)
      PROVE  MrInv'
  BY Zenon, <1>4, <1>1 DEF CreatePublish, CreateFail, RegisterDevice, RegisterRejected,
     TranslateRejected, DestroyUnlink, DestroyFree, treeVars, gpuVars, appVars
<1>5. ASSUME NEW t \in Thread, CallBegins(t)
      PROVE  MrInv'
  BY Zenon, <1>5, <1>1 DEF CallBegins, CreateRetain, RegisterStart, TranslateStart,
     InvalidateStart, DestroyStart, treeVars, gpuVars, appVars
<1>6. ASSUME (\E al \in Alloc : AppAlloc(al) \/ AppRetire(al))
               \/ (\E i \in io : IoDone(i)) \/ UNCHANGED vars
      PROVE  MrInv'
  BY Zenon, <1>6, <1>1 DEF AppAlloc, AppRetire, IoDone, vars, treeVars, gpuVars, appVars
<1> QED
  BY Zenon, <1>2, <1>3, <1>4, <1>5, <1>6, InvalidateKeepsMrs, LockedKeepsMrs DEF Next, ThreadStep

-----------------------------------------------------------------------------
(* The invariant. *)

\* The invariant holds before any call is made.
LEMMA InitIInv == Init => IInv
<1> SUFFICES ASSUME Init PROVE IInv
  BY Zenon
<1>1. TypeOK
  BY IdleIsCall DEF Init, TypeOK, NoConf, Conf
<1>2. \A t \in Thread : call[t].at = "idle"
  BY Zenon DEF Init, Idle
<1>3. LifeInv
  BY Zenon, <1>1, <1>2 DEF Init, LifeInv, CallOK, NoUseAfterFree, Exclusive, FreedDomainsAreEmpty,
     IoOK, At
<1>4. TreeInv
  BY Zenon, <1>2 DEF Init, TreeInv, RangesOK, RegionsDisjoint, MrHasRegion, MrUnique, At,
     RegisterInFlight
<1>5. NoMrLeak /\ NoMrOnFreedMemory /\ InFlightKeyLive
  BY Zenon DEF Init, NoMrLeak, NoMrOnFreedMemory, InFlightKeyLive
<1> QED
  BY Zenon, <1>3, <1>4, <1>5 DEF IInv

\* The inductive invariant holds in every reachable state, whatever the numbers
\* of threads, domains, protection domains, devices, keys and ranges.
THEOREM Invariance == Spec => []IInv
<1>1. IInv /\ [Next]_vars => IInv'
  BY Zenon, TypeStep, CallStep, DomainLifeStep, RangesStep, MrStep
     DEF IInv, LifeInv, TreeInv, DomainLife, MrInv
<1> QED
  BY <1>1, InitIInv, PTL DEF Spec

\* Type correctness.
THEOREM TypeCorrect == Spec => []TypeOK
<1>1. IInv => TypeOK
  BY Zenon DEF IInv, LifeInv
<1> QED
  BY <1>1, Invariance, PTL

\* Regions of a domain never overlap, although add_region compares a range only
\* with two neighbours.
THEOREM TreesConsistent == Spec => []RegionsDisjoint
<1>1. IInv => RegionsDisjoint
  BY Zenon DEF IInv, TreeInv
<1> QED
  BY <1>1, Invariance, PTL

\* The two-neighbour search of translate misses no region that holds the range.
THEOREM SearchIsComplete == Spec => []SearchComplete
<1>1. IInv => SearchComplete
  <2> SUFFICES ASSUME IInv, NEW gd \in GD, NEW rng \in Ranges,
                      NEW r \in regions[gd], Contains(r, rng.addr, rng.len)
               PROVE  FindRegion(gd, rng) # {}
    BY Zenon DEF SearchComplete
  <2>1. /\ \A q \in regions[gd] : Plain(q)
        /\ \A q, p \in regions[gd] : q # p => Disjoint(q, p)
    BY Zenon DEF IInv, TreeInv, RangesOK, RegionsDisjoint
  <2>2. Plain(rng)
    BY Zenon, RangeAssumption
  <2> QED
    BY Zenon, <2>1, <2>2, FindContainingComplete DEF FindRegion
<1> QED
  BY <1>1, Invariance, PTL

\* register_mr never meets a conflicting MR, so its -EEXIST paths are dead.
THEOREM ExistIsDead == Spec => []RegisterMrNeverExists
<1>1. IInv => RegisterMrNeverExists
  <2> SUFFICES ASSUME IInv, NEW gd \in GD, NEW pd \in PD, NEW r \in regions[gd],
                      NEW m \in MrsOf(gd, r.dev, pd), ~Disjoint(m, r)
               PROVE  FindMr(gd, r.dev, pd, r) # {}
    BY Zenon DEF RegisterMrNeverExists
  <2> DEFINE S == MrsOf(gd, r.dev, pd)
             q == [addr |-> m.addr, len |-> m.len, dev |-> m.dev]
  <2>1. TreeInv
    BY Zenon DEF IInv
  <2>2. (\A n \in S : Plain(n)) /\ (\A n, p \in S : n # p => Disjoint(n, p))
    BY Zenon, <2>1, MrsOfDisjoint
  <2>3. Plain(r) /\ q \in regions[gd]
    BY Zenon, <2>1 DEF TreeInv, RangesOK, MrHasRegion, MrsOf
  <2>4. q = r
    BY Zenon, <2>1, <2>3 DEF TreeInv, RegionsDisjoint, Disjoint, Overlaps
  <2>5. Contains(m, r.addr, r.len)
    BY SMTT(30), <2>2, <2>3, <2>4, ContainsPlain DEF Plain
  <2>6. FindContaining(S, r.addr, r.len) # {}
    <3> HIDE DEF S
    <3>1. m \in S
      BY Zenon DEF S
    <3> QED
      BY Zenon, <2>2, <2>3, <2>5, <3>1, FindContainingComplete
  <2> QED
    BY Zenon, <2>6 DEF FindMr
<1> QED
  BY <1>1, Invariance, PTL

\* No path leaks an MR of the RDMA device or releases one twice.
THEOREM MrsAreReleased == Spec => []NoMrLeak
<1>1. IInv => NoMrLeak
  BY Zenon DEF IInv
<1> QED
  BY <1>1, Invariance, PTL

\* After invalidate and free, no MR is left on the memory.
THEOREM FreedMemoryHasNoMr == Spec => []NoMrOnFreedMemory
<1>1. IInv => NoMrOnFreedMemory
  BY Zenon DEF IInv
<1> QED
  BY <1>1, Invariance, PTL

\* An I/O in flight keeps its MR until its own memory is being freed.
THEOREM KeysStayLive == Spec => []InFlightKeyLive
<1>1. IInv => InFlightKeyLive
  BY Zenon DEF IInv
<1> QED
  BY <1>1, Invariance, PTL

\* Under the callers' quiescence rule, no call touches a freed domain.
THEOREM DomainsAreSafe == Spec => []NoUseAfterFree
<1>1. IInv => NoUseAfterFree
  BY Zenon DEF IInv, LifeInv
<1> QED
  BY <1>1, Invariance, PTL

\* Every MR covers exactly one registered region.
THEOREM MrsCoverRegions == Spec => []MrHasRegion
<1>1. IInv => MrHasRegion
  BY Zenon DEF IInv, TreeInv
<1> QED
  BY <1>1, Invariance, PTL

\* A destroyed domain holds no region, no MR and no context.
THEOREM DestroyLeavesNothing == Spec => []FreedDomainsAreEmpty
<1>1. IInv => FreedDomainsAreEmpty
  BY Zenon DEF IInv, LifeInv
<1> QED
  BY <1>1, Invariance, PTL

-----------------------------------------------------------------------------
(* The reference counts of the primary contexts. *)

\* A domain that retains the primary context of a device.
Retains(gd, d) == gd \in heap /\ (conf[gd] = [dev |-> d, ctx |-> "owned"] \/ d \in cuda_ctxs[gd])

\* Only finitely many domains are allocated, and the counts are right.
CountInv == IsFiniteSet(heap) /\ PrimaryBalanced

\* A step that concerns one domain, and counts it when it begins to retain a
\* context and when it ceases to, keeps the counts right.
LEMMA CountOne ==
  ASSUME TypeOK, CountInv, NEW gd \in GD, heap' \ {gd} = heap \ {gd},
         \A ge \in GD : ge # gd => conf'[ge] = conf[ge] /\ cuda_ctxs'[ge] = cuda_ctxs[ge],
         \A d \in Device :
           /\ Retains(gd, d)' /\ ~Retains(gd, d) => primary'[d] = primary[d] + 1
           /\ ~Retains(gd, d)' /\ Retains(gd, d) => primary'[d] = primary[d] - 1
           /\ (Retains(gd, d)' <=> Retains(gd, d)) => primary'[d] = primary[d]
  PROVE  CountInv'
<1>1. IsFiniteSet(heap) /\ \A d \in Device : primary[d] = Cardinality(Retainers(d))
  BY Zenon DEF CountInv, PrimaryBalanced
<1>2. IsFiniteSet(heap')
  <2>1. IsFiniteSet(heap \cup {gd})
    BY Zenon, <1>1, FS_AddElement
  <2>2. heap' \subseteq heap \cup {gd}
    BY Zenon
  <2> QED
    BY Zenon, <2>1, <2>2, FS_Subset
<1>3. ASSUME NEW d \in Device
      PROVE  /\ IsFiniteSet(Retainers(d)) /\ Cardinality(Retainers(d)) \in Nat
             /\ Retains(gd, d) <=> gd \in Retainers(d)
             /\ Retains(gd, d)' <=> gd \in Retainers(d)'
             /\ Retainers(d)' \ {gd} = Retainers(d) \ {gd}
             /\ (gd \in Retainers(d) <=> gd \in Retainers(d)') => Retainers(d)' = Retainers(d)
  <2>1. Retainers(d) \subseteq heap
    BY Zenon DEF Retainers
  <2>2. IsFiniteSet(Retainers(d)) /\ Cardinality(Retainers(d)) \in Nat
    BY Zenon, <1>1, <2>1, FS_Subset, FS_CardinalityType
  <2>3. (Retains(gd, d) <=> gd \in Retainers(d)) /\ (Retains(gd, d)' <=> gd \in Retainers(d)')
    BY Zenon DEF Retains, Retainers
  <2>4. \A ge \in GD : ge # gd => (ge \in Retainers(d)' <=> ge \in Retainers(d))
    BY Zenon DEF Retainers
  <2>5. heap \subseteq GD /\ heap' \subseteq GD
    BY Zenon DEF TypeOK
  <2>6. Retainers(d)' \ {gd} = Retainers(d) \ {gd}
    BY Zenon, <2>4, <2>5 DEF Retainers
  <2>7. ASSUME gd \in Retainers(d) <=> gd \in Retainers(d)' PROVE Retainers(d)' = Retainers(d)
    <3>1. \A ge : ge \in Retainers(d)' <=> ge \in Retainers(d)
      BY Zenon, <2>4, <2>5, <2>7 DEF Retainers
    <3> QED
      BY Zenon, <3>1
  <2> QED
    BY Zenon, <2>2, <2>3, <2>6, <2>7
<1>4. ASSUME NEW d \in Device PROVE primary'[d] = Cardinality(Retainers(d)')
  <2>1. CASE gd \in Retainers(d) /\ gd \in Retainers(d)'
    <3>1. Retainers(d)' = Retainers(d)
      BY Zenon, <1>3, <2>1
    <3> QED
      BY Zenon, <1>1, <1>3, <2>1, <3>1
  <2>2. CASE gd \notin Retainers(d) /\ gd \notin Retainers(d)'
    <3>1. Retainers(d)' = Retainers(d)
      BY Zenon, <1>3, <2>2
    <3> QED
      BY Zenon, <1>1, <1>3, <2>2, <3>1
  <2>3. CASE gd \in Retainers(d) /\ gd \notin Retainers(d)'
    <3>1. Retainers(d)' = Retainers(d) \ {gd}
      BY Zenon, <1>3, <2>3
    <3>2. Cardinality(Retainers(d)') = Cardinality(Retainers(d)) - 1
      BY Zenon, <1>3, <2>3, <3>1, FS_RemoveElement
    <3> QED
      BY Zenon, <1>1, <1>3, <2>3, <3>2
  <2>4. CASE gd \notin Retainers(d) /\ gd \in Retainers(d)'
    <3>1. Retainers(d)' = Retainers(d) \cup {gd}
      BY Zenon, <1>3, <2>4
    <3>2. Cardinality(Retainers(d)') = Cardinality(Retainers(d)) + 1
      BY Zenon, <1>3, <2>4, <3>1, FS_AddElement
    <3> QED
      BY Zenon, <1>1, <1>3, <2>4, <3>2
  <2> QED
    BY Zenon, <2>1, <2>2, <2>3, <2>4
<1> QED
  BY Zenon, <1>2, <1>4 DEF CountInv, PrimaryBalanced

\* gpu_dmabuf_get_cuda_ctx counts the domain once per device.
LEMMA CountGetCudaCtx ==
  ASSUME TypeOK, CountInv, NEW gd \in heap, NEW dev \in Device, GetCudaCtx(gd, dev),
         UNCHANGED <<heap, conf>>
  PROVE  CountInv'
<1>1. gd \in GD /\ conf \in [GD -> Conf] /\ cuda_ctxs \in [GD -> SUBSET Device]
      /\ primary \in [Device -> Int]
  BY Zenon DEF TypeOK
<1>2. CASE ~NeedsCtx(gd, dev)
  BY Zenon, <1>2 DEF GetCudaCtx, CountInv, PrimaryBalanced, Retainers
<1>3. CASE NeedsCtx(gd, dev)
  <2>1. /\ cuda_ctxs' = [cuda_ctxs EXCEPT ![gd] = @ \cup {dev}]
        /\ primary' = [primary EXCEPT ![dev] = @ + 1]
    BY Zenon, <1>3 DEF GetCudaCtx
  <2>2. conf[gd].ctx # "owned" /\ dev \notin cuda_ctxs[gd]
    BY Zenon, <1>3 DEF NeedsCtx
  <2>3. \A d \in Device : conf[gd] # [dev |-> d, ctx |-> "owned"]
    BY <2>2
  <2>4. ~Retains(gd, dev) /\ Retains(gd, dev)'
    BY Zenon, <1>1, <2>1, <2>2, <2>3 DEF Retains
  <2>5. \A d \in Device : d # dev => (Retains(gd, d)' <=> Retains(gd, d))
    BY Zenon, <1>1, <2>1 DEF Retains
  <2>6. \A d \in Device : primary'[d] = IF d = dev THEN primary[d] + 1 ELSE primary[d]
    BY Zenon, <1>1, <2>1
  <2>7. \A ge \in GD : ge # gd => conf'[ge] = conf[ge] /\ cuda_ctxs'[ge] = cuda_ctxs[ge]
    BY Zenon, <1>1, <2>1
  <2>8. \A d \in Device :
          /\ Retains(gd, d)' /\ ~Retains(gd, d) => primary'[d] = primary[d] + 1
          /\ ~Retains(gd, d)' /\ Retains(gd, d) => primary'[d] = primary[d] - 1
          /\ (Retains(gd, d)' <=> Retains(gd, d)) => primary'[d] = primary[d]
    BY Zenon, <2>4, <2>5, <2>6
  <2> QED
    BY Zenon, <1>1, <2>7, <2>8, CountOne
<1> QED
  BY Zenon, <1>2, <1>3

\* Every step keeps the counts right.
LEMMA CountStep == IInv /\ CountInv /\ [Next]_vars => CountInv'
<1> SUFFICES ASSUME IInv, CountInv, [Next]_vars PROVE CountInv'
  BY Zenon
<1>1. TypeOK /\ CallOK /\ NoUseAfterFree /\ Exclusive /\ FreedDomainsAreEmpty
  BY Zenon DEF IInv, LifeInv
<1>2. conf \in [GD -> Conf] /\ cuda_ctxs \in [GD -> SUBSET Device] /\ primary \in [Device -> Int]
  BY Zenon, <1>1 DEF TypeOK
<1>3. \A t \in Thread : ~At(t, "idle") => call[t].gd \in GD /\ call[t].gd \in heap
  BY Zenon, <1>1 DEF CallOK, NoUseAfterFree
<1>4. ASSUME UNCHANGED <<heap, conf, cuda_ctxs, primary>> PROVE CountInv'
  BY Zenon, <1>4 DEF CountInv, PrimaryBalanced, Retainers
<1>5. ASSUME NEW t \in Thread, NEW gd \in GD, NEW c \in Conf, CreateRetain(t, gd, c)
      PROVE  CountInv'
  <2>1. /\ gd \notin heap /\ heap' = heap \cup {gd} /\ conf' = [conf EXCEPT ![gd] = c]
        /\ cuda_ctxs' = cuda_ctxs
        /\ primary' = IF c.ctx = "owned" THEN [primary EXCEPT ![c.dev] = @ + 1] ELSE primary
    BY Zenon, <1>5 DEF CreateRetain, treeVars
  <2>2. cuda_ctxs[gd] = {} /\ conf'[gd] = c
    BY Zenon, <1>1, <1>2, <2>1 DEF FreedDomainsAreEmpty
  <2>3. \A d \in Device : ~Retains(gd, d) /\ (Retains(gd, d)' <=> c = [dev |-> d, ctx |-> "owned"])
    BY Zenon, <2>1, <2>2 DEF Retains
  <2>4. \A d \in Device : c = [dev |-> d, ctx |-> "owned"] <=> c.ctx = "owned" /\ c.dev = d
    BY DEF Conf
  <2>5. c.ctx = "owned" => c.dev \in Device
    BY Zenon DEF Conf
  <2>6. \A d \in Device : primary'[d] = IF c.ctx = "owned" /\ c.dev = d THEN primary[d] + 1
                                                                        ELSE primary[d]
    BY Zenon, <1>2, <2>1, <2>5
  <2>7. \A ge \in GD : ge # gd => conf'[ge] = conf[ge] /\ cuda_ctxs'[ge] = cuda_ctxs[ge]
    BY Zenon, <1>2, <2>1
  <2>8. heap' \ {gd} = heap \ {gd}
    BY Zenon, <2>1
  <2>9. \A d \in Device :
          /\ Retains(gd, d)' /\ ~Retains(gd, d) => primary'[d] = primary[d] + 1
          /\ ~Retains(gd, d)' /\ Retains(gd, d) => primary'[d] = primary[d] - 1
          /\ (Retains(gd, d)' <=> Retains(gd, d)) => primary'[d] = primary[d]
    BY Zenon, <2>3, <2>4, <2>6
  <2> QED
    BY Zenon, <1>1, <2>7, <2>8, <2>9, CountOne
<1>6. ASSUME NEW t \in Thread, CreateFail(t) \/ DestroyFree(t) PROVE CountInv'
  <2>1. PICK gd \in GD : gd = call[t].gd /\ gd \in heap
    BY Zenon, <1>3, <1>6 DEF CreateFail, DestroyFree, At
  <2>2. /\ heap' = heap \ {gd} /\ conf' = [conf EXCEPT ![gd] = NoConf]
    BY Zenon, <1>6, <2>1 DEF CreateFail, DestroyFree, FreeDomain
  <2>3. \A ge \in GD : ge # gd => conf'[ge] = conf[ge] /\ cuda_ctxs'[ge] = cuda_ctxs[ge]
    <3>1. cuda_ctxs' = cuda_ctxs \/ cuda_ctxs' = [cuda_ctxs EXCEPT ![gd] = {}]
      BY Zenon, <1>6, <2>1 DEF CreateFail, DestroyFree, treeVars
    <3> QED
      BY Zenon, <1>2, <2>1, <2>2, <3>1
  <2>4. conf[gd] \in Conf
    BY Zenon, <1>2, <2>1
  <2>5. \A d \in Device : conf[gd] = [dev |-> d, ctx |-> "owned"] <=>
                            conf[gd].ctx = "owned" /\ conf[gd].dev = d
    BY <2>4 DEF Conf
  <2>6. \A d \in Device :
          primary'[d] = IF (conf[gd].ctx = "owned" /\ conf[gd].dev = d) \/ d \in cuda_ctxs[gd]
                          THEN primary[d] - 1 ELSE primary[d]
    <3>1. CASE CreateFail(t)
      <4>1. cuda_ctxs[gd] = {}
        BY Zenon, <1>1, <2>1, <3>1 DEF CreateFail, Exclusive
      <4>2. primary' = IF conf[gd].ctx = "owned"
                         THEN [primary EXCEPT ![conf[gd].dev] = @ - 1] ELSE primary
        BY Zenon, <2>1, <3>1 DEF CreateFail
      <4>3. conf[gd].ctx = "owned" => conf[gd].dev \in Device
        BY Zenon, <2>4 DEF Conf
      <4> QED
        BY Zenon, <1>2, <4>1, <4>2, <4>3
    <3>2. CASE DestroyFree(t)
      <4>1. primary' = [d \in Device |-> primary[d] -
              IF (conf[gd].ctx = "owned" /\ conf[gd].dev = d) \/ d \in cuda_ctxs[gd]
                THEN 1 ELSE 0]
        BY Zenon, <2>1, <3>2 DEF DestroyFree
      <4> QED
        BY <1>2, <4>1
    <3> QED
      BY Zenon, <1>6, <3>1, <3>2
  <2>7. \A d \in Device :
          /\ ~Retains(gd, d)'
          /\ Retains(gd, d) <=> \/ conf[gd].ctx = "owned" /\ conf[gd].dev = d
                                \/ d \in cuda_ctxs[gd]
    BY Zenon, <2>1, <2>2, <2>5 DEF Retains
  <2>8. heap' \ {gd} = heap \ {gd}
    BY Zenon, <2>2
  <2>9. \A d \in Device :
          /\ Retains(gd, d)' /\ ~Retains(gd, d) => primary'[d] = primary[d] + 1
          /\ ~Retains(gd, d)' /\ Retains(gd, d) => primary'[d] = primary[d] - 1
          /\ (Retains(gd, d)' <=> Retains(gd, d)) => primary'[d] = primary[d]
    BY Zenon, <2>6, <2>7
  <2> QED
    BY Zenon, <1>1, <2>1, <2>3, <2>8, <2>9, CountOne
<1>7. ASSUME NEW t \in Thread, RegisterLocked(t) \/ TranslateLocked(t) PROVE CountInv'
  <2>1. UNCHANGED <<heap, conf>> /\ call[t].gd \in heap /\ call[t].gd \in GD
    BY Zenon, <1>3, <1>7 DEF RegisterLocked, TranslateLocked, domainVars, At
  <2>2. ASSUME NEW r, r.dev \in Device,
               \/ \E k \in Key : RegisterMr(call[t].gd, r.dev, call[t].pd, r, k)
               \/ RegisterMrFails(call[t].gd, r.dev)
        PROVE  CountInv'
    <3>1. UNCHANGED <<cuda_ctxs, primary>> \/ GetCudaCtx(call[t].gd, r.dev)
      BY Zenon, <2>2 DEF RegisterMr, RegisterMrFails
    <3> QED
      BY Zenon, <1>1, <1>4, <2>1, <2>2, <3>1, CountGetCudaCtx
  <2>3. CASE RegisterLocked(t)
    <3>1. PICK r \in AddRegion(call[t].gd, call[t].rng, call[t].dev) :
            \/ UNCHANGED <<cuda_ctxs, gpuVars>>
            \/ \E k \in Key : RegisterMr(call[t].gd, r.dev, call[t].pd, r, k)
            \/ RegisterMrFails(call[t].gd, r.dev)
      BY Zenon, <2>3 DEF RegisterLocked
    <3>2. call[t].at = "registerDevice" /\ call[t].dev \in Device
      BY Zenon, <1>1, <2>3 DEF RegisterLocked, CallOK, At
    <3>3. r.dev = call[t].dev
      BY <3>1 DEF AddRegion
    <3> QED
      BY Zenon, <1>4, <2>1, <2>2, <3>1, <3>2, <3>3 DEF gpuVars
  <2>4. CASE TranslateLocked(t)
    <3>1. PICK r \in FindRegion(call[t].gd, call[t].rng) :
            \/ UNCHANGED <<cuda_ctxs, gpuVars>>
            \/ \E k \in Key : RegisterMr(call[t].gd, r.dev, call[t].pd, r, k)
            \/ RegisterMrFails(call[t].gd, r.dev)
      BY Zenon, <2>4 DEF TranslateLocked
    <3>2. r \in regions[call[t].gd]
      BY Zenon, <3>1, FindContainingSound DEF FindRegion
    <3>3. r.dev \in Device
      BY <1>1, <2>1, <3>2 DEF TypeOK, Region
    <3> QED
      BY Zenon, <1>4, <2>1, <2>2, <3>1, <3>3 DEF gpuVars
  <2> QED
    BY Zenon, <1>7, <2>3, <2>4
<1>8. ASSUME NEW t \in Thread, ThreadStep(t) PROVE CountInv'
  <2>1. ASSUME CreatePublish(t) \/ RegisterDevice(t) \/ RegisterRejected(t)
               \/ TranslateRejected(t) \/ InvalidateLocked(t) \/ DestroyUnlink(t)
               \/ DestroyLocked(t)
        PROVE  CountInv'
    BY Zenon, <1>4, <2>1 DEF CreatePublish, RegisterDevice, RegisterRejected, TranslateRejected,
       InvalidateLocked, DestroyUnlink, DestroyLocked, domainVars, treeVars, gpuVars
  <2> QED
    BY Zenon, <1>6, <1>7, <1>8, <2>1 DEF ThreadStep
<1>9. ASSUME NEW t \in Thread, CallBegins(t) PROVE CountInv'
  <2>1. PICK gd \in GD :
          \/ \E c \in Conf : CreateRetain(t, gd, c)
          \/ \E pd \in PD, rng \in Ranges :
               RegisterStart(t, gd, pd, rng) \/ TranslateStart(t, gd, pd, rng)
          \/ \E al \in Alloc : InvalidateStart(t, gd, al)
          \/ DestroyStart(t, gd)
    BY Zenon, <1>9 DEF CallBegins
  <2> QED
    BY Zenon, <1>4, <1>5, <2>1 DEF RegisterStart, TranslateStart, InvalidateStart, DestroyStart,
       domainVars, treeVars, gpuVars
<1>10. ASSUME \/ \E al \in Alloc : AppAlloc(al) \/ AppRetire(al) \/ AppFree(al)
              \/ \E i \in io : IoDone(i)
       PROVE  CountInv'
  BY Zenon, <1>4, <1>10 DEF AppAlloc, AppRetire, AppFree, IoDone, domainVars, treeVars, gpuVars
<1>11. CASE UNCHANGED vars
  BY Zenon, <1>4, <1>11 DEF vars
<1> QED
  BY Zenon, <1>8, <1>9, <1>10, <1>11 DEF Next

\* The reference count of a primary context is the number of domains that retain
\* it: create, its error path, failed registrations and destroy never release a
\* context twice and never keep one.
THEOREM ContextsAreReleased == Spec => []PrimaryBalanced
<1>1. Init => CountInv
  <2> SUFFICES ASSUME Init PROVE CountInv
    BY Zenon
  <2>1. heap = {} /\ \A d \in Device : primary[d] = 0
    BY Zenon DEF Init
  <2>2. ASSUME NEW d \in Device
        PROVE  Retainers(d) = {}
    BY Zenon, <2>1 DEF Retainers
  <2>3. PrimaryBalanced
    BY Zenon, <2>1, <2>2, FS_EmptySet DEF PrimaryBalanced
  <2> QED
    BY Zenon, <2>1, <2>3, FS_EmptySet DEF CountInv
<1>2. IInv /\ CountInv /\ [Next]_vars => CountInv'
  BY Zenon, CountStep
<1>3. CountInv => PrimaryBalanced
  BY Zenon DEF CountInv
<1> QED
  BY <1>1, <1>2, <1>3, Invariance, PTL DEF Spec
=============================================================================
