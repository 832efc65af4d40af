--------------------------- MODULE RdmaTransport ----------------------------
(***************************************************************************)
(* Memory registration and transfers of the RDMA transport.                *)
(*                                                                         *)
(* A buffer is registered with every context (device) and then published   *)
(* in the local segment descriptor with one key per context. A transfer    *)
(* request is cut into slices, each is given a device and a key, and the   *)
(* status of the request is computed from counters of finished slices.     *)
(* Addresses are small integers; a key is a buffer with the number of its  *)
(* registration. Verbs, topology and the worker pool are external.         *)
(***************************************************************************)
EXTENDS Integers, Sequences, FiniteSetsExt

CONSTANTS
    Context,        \* indices of context_list_: 1..n
    Buffer,         \* names of buffers
    Addr, Length,   \* per buffer
    Request,        \* users of the transport, one request at a time each
    BlockSize,      \* slice_size
    FragmentSize,   \* fragment_limit
    Watermark,      \* max_wr * num_qp_per_ep
    MaxReg,         \* bound on registrations
    MaxFaults       \* bound on faults

VARIABLES
    parallel,       \* use_parallel_reg and use_parallel_unreg
    nreg,           \* registrations of each buffer so far
    op,             \* per buffer: the (un)registration in progress
    memory_region_map, \* per context and buffer (start address): number, or 0
    live,           \* per context: keys the device accepts
    buffers,        \* of the local segment descriptor, in order
    active,         \* per context
    job,            \* per request: its TransferTask
    faults

\* Registered memory is not empty, and buffers start at different addresses;
\* they may be nested or overlap.
ASSUME BufferAssumption ==
    /\ IsFiniteSet(Buffer)
    /\ Addr \in [Buffer -> Nat]
    /\ Length \in [Buffer -> Nat \ {0}]
    /\ \A a, b \in Buffer : Addr[a] = Addr[b] => a = b

\* The bounds are natural numbers.
ASSUME RdmaBounds == MaxReg \in Nat /\ MaxFaults \in Nat

\* Slices have at least one byte (slice_size is a positive setting).
ASSUME SliceAssumption == BlockSize \in Nat \ {0} /\ FragmentSize \in Nat

regs == <<parallel, nreg, op, memory_region_map, live, buffers>>
rdmaVars == <<regs, active, job, faults>>

NoOp == [pc |-> "idle", left |-> {}, failed |-> FALSE]
NoJob == [slices |-> {}, slice_count |-> 0, success |-> 0, failed |-> 0, error |-> FALSE]

RdmaInit ==
    /\ parallel \in BOOLEAN
    /\ nreg = [b \in Buffer |-> 0]
    /\ op = [b \in Buffer |-> NoOp]
    /\ memory_region_map = [c \in Context |-> [b \in Buffer |-> 0]]
    /\ live = [c \in Context |-> {}]
    /\ buffers = <<>>
    /\ active = [c \in Context |-> TRUE]
    /\ job = [r \in Request |-> NoJob]
    /\ faults = 0

MayFault == faults < MaxFaults

(***************************************************************************)
(* RdmaContext                                                             *)
(***************************************************************************)

containsAddress(b, addr) == Addr[b] <= addr /\ addr < Addr[b] + Length[b]

\* upper_bound and its predecessor: the last entry that starts at or before
\* addr, when it contains addr.
findMemoryRegionContaining(c, addr) ==
    LET entries == {b \in Buffer : memory_region_map[c][b] # 0 /\ Addr[b] <= addr}
    IN {b \in entries : /\ \A e \in entries : Addr[e] <= Addr[b]
                        /\ containsAddress(b, addr)}

\* The device registers the memory, as host memory or through a dma-buf of the
\* allocation around it, and accepts a new key for it.
registerMemoryRegionInternal(c, b) ==
    live' = [live EXCEPT ![c] = @ \union {<<b, nreg[b]>>}]

\* A context registers buffer b; a former entry of the same address is lost.
registerMemoryRegion(c, b) ==
    /\ registerMemoryRegionInternal(c, b)
    /\ memory_region_map' = [memory_region_map EXCEPT ![c][b] = nreg[b]]

\* lkey and rkey of the entry that contains the buffer's address, 0 for none.
KeyOf(c, b) ==
    LET found == findMemoryRegionContaining(c, Addr[b])
    IN IF found = {} THEN <<b, 0>>
       ELSE LET e == CHOOSE e \in found : TRUE IN <<e, memory_region_map[c][e]>>

unregisterMemoryRegion(c, b) ==
    LET found == findMemoryRegionContaining(c, Addr[b]) IN
    /\ live' = [live EXCEPT ![c] = @ \ {<<e, memory_region_map[c][e]>> : e \in found}]
    /\ memory_region_map' = [memory_region_map EXCEPT ![c] =
            [e \in Buffer |-> IF e \in found THEN 0 ELSE @[e]]]

(***************************************************************************)
(* Registration                                                            *)
(***************************************************************************)

Published == {buffers[i].buffer : i \in DOMAIN buffers}

\* All registrations so far; the bound is on their number.
Registrations == UNION {{b} \X (1..nreg[b]) : b \in Buffer}

\* vector::erase of the element at i.
Erase(s, i) == SubSeq(s, 1, i - 1) \o SubSeq(s, i + 1, Len(s))

\* The contexts an operation may be at: one thread each, or one after another.
Turn(o) == {c \in o.left : parallel \/ \A d \in o.left : c <= d}

Register(b) ==
    /\ op[b] = NoOp /\ b \notin Published
    /\ Cardinality(Registrations) < MaxReg
    /\ nreg' = [nreg EXCEPT ![b] = @ + 1]
    /\ op' = [op EXCEPT ![b] = [pc |-> "register", left |-> Context, failed |-> FALSE]]
    /\ UNCHANGED <<parallel, memory_region_map, live, buffers, active, job, faults>>

RegisterContext(b) ==
    /\ op[b].pc = "register" /\ op[b].left # {}
    /\ parallel \/ ~op[b].failed
    /\ \E c \in Turn(op[b]) :
        \/ /\ registerMemoryRegion(c, b)
           /\ op' = [op EXCEPT ![b].left = @ \ {c}]
           /\ UNCHANGED faults
        \/ /\ MayFault
           /\ faults' = faults + 1
           /\ op' = [op EXCEPT ![b].left = @ \ {c}, ![b].failed = TRUE]
           /\ UNCHANGED <<memory_region_map, live>>
    /\ UNCHANGED <<parallel, nreg, buffers, active, job>>

\* An operation that has met an error, or has visited all contexts.
OpDone(o) == o.left = {} \/ (o.failed /\ ~parallel)

\* The keys are collected and the buffer is published, unless a context failed
\* or the descriptor refuses it.
RegisterEnd(b) ==
    /\ op[b].pc = "register" /\ OpDone(op[b])
    /\ \/ /\ ~op[b].failed
          /\ buffers' = Append(buffers,
                [buffer |-> b, keys |-> [c \in Context |-> KeyOf(c, b)]])
          /\ UNCHANGED faults
       \/ /\ op[b].failed \/ MayFault
          /\ faults' = IF op[b].failed THEN faults ELSE faults + 1
          /\ UNCHANGED buffers
    /\ op' = [op EXCEPT ![b] = NoOp]
    /\ UNCHANGED <<parallel, nreg, memory_region_map, live, active, job>>

\* Mutant of Unregister: the buffer stays in the descriptor.
UnregisterPublished(b) ==
    /\ op[b] = NoOp /\ b \in Published
    /\ op' = [op EXCEPT ![b] = [pc |-> "unregister", left |-> Context, failed |-> FALSE]]
    /\ UNCHANGED <<parallel, nreg, memory_region_map, live, buffers, active, job, faults>>

\* unregisterLocalMemory withdraws the buffer first.
Unregister(b) ==
    /\ op[b] = NoOp /\ b \in Published
    /\ \E i \in DOMAIN buffers :
        buffers[i].buffer = b /\ buffers' = Erase(buffers, i)
    /\ op' = [op EXCEPT ![b] = [pc |-> "unregister", left |-> Context, failed |-> FALSE]]
    /\ UNCHANGED <<parallel, nreg, memory_region_map, live, active, job, faults>>

UnregisterContext(b) ==
    /\ op[b].pc = "unregister" /\ op[b].left # {}
    /\ parallel \/ ~op[b].failed
    /\ \E c \in Turn(op[b]) :
        \/ /\ unregisterMemoryRegion(c, b)
           /\ op' = [op EXCEPT ![b].left = @ \ {c}]
           /\ UNCHANGED faults
        \/ /\ MayFault
           /\ faults' = faults + 1
           /\ op' = [op EXCEPT ![b].left = @ \ {c}, ![b].failed = TRUE]
           /\ UNCHANGED <<memory_region_map, live>>
    /\ UNCHANGED <<parallel, nreg, buffers, active, job>>

UnregisterEnd(b) ==
    /\ op[b].pc = "unregister" /\ OpDone(op[b])
    /\ op' = [op EXCEPT ![b] = NoOp]
    /\ UNCHANGED <<parallel, nreg, memory_region_map, live, buffers, active, job, faults>>

\* A port goes down.
Deactivate ==
    /\ MayFault
    /\ faults' = faults + 1
    /\ \E c \in Context : active' = [active EXCEPT ![c] = FALSE]
    /\ UNCHANGED <<regs, job>>

(***************************************************************************)
(* Transfers                                                               *)
(***************************************************************************)

\* The pieces of a request of length n: blocks, and the last one takes a
\* remainder of up to FragmentSize with it.
MergesFinal(n, offset) == n - offset <= BlockSize + FragmentSize

\* Mutant of Slices: the last slice is not longer than a block.
SlicesCut(n) ==
    LET Starts == {k * BlockSize : k \in 0..n} \cap 0..(n - 1)
        Kept == {o \in Starts : \A e \in Starts : e < o => ~MergesFinal(n, e)}
    IN {[offset |-> o, length |-> Min({n - o, BlockSize})] : o \in Kept}

Slices(n) ==
    LET Starts == {k * BlockSize : k \in 0..n} \cap 0..(n - 1)
        Kept == {o \in Starts : \A e \in Starts : e < o => ~MergesFinal(n, e)}
    IN {[offset |-> o,
         length |-> IF MergesFinal(n, o) THEN n - o ELSE BlockSize] : o \in Kept}

Covers(b, addr, n) ==
    ~(addr < Addr[b] \/ n > Length[b] \/ addr - Addr[b] > Length[b] - n)

\* selectDevice: the first buffer that holds the range, and a device that the
\* topology names for it; none if no buffer does.
selectDevice(addr, n) ==
    LET fits == {i \in DOMAIN buffers : Covers(buffers[i].buffer, addr, n)}
    IN IF fits = {} THEN {} ELSE {Min(fits)} \X Context

\* A slice with its device and key, ready to post.
Posted(s, d) == [offset |-> s.offset, length |-> s.length, ctx |-> d[2],
                 key |-> buffers[d[1]].keys[d[2]]]

\* One device for the whole request; the submission fails if it is not active.
SubmitWhole(r, source, n) ==
    \E d \in selectDevice(source, n) :
        job' = [job EXCEPT ![r] =
            IF active[d[2]]
            THEN [NoJob EXCEPT !.slices = {Posted(s, d) : s \in Slices(n)},
                               !.slice_count = Cardinality(Slices(n))]
            ELSE [NoJob EXCEPT !.error = TRUE]]

\* Devices a slice of a request may get on its own; a slice may run out of
\* retries when some device is not active.
SliceDevices(source, s) ==
    {d \in selectDevice(source + s.offset, s.length) : active[d[2]]}
MayMiss(source, s) ==
    \/ SliceDevices(source, s) = {}
    \/ \E d \in selectDevice(source + s.offset, s.length) : ~active[d[2]]

\* No buffer holds the request: every slice looks for a device. When one finds
\* none the submission fails: slices that were flushed at the watermark stay
\* posted, the others are given back but stay counted.
SubmitSlices(r, source, n) ==
    /\ selectDevice(source, n) = {}
    /\ \/ /\ \A s \in Slices(n) : SliceDevices(source, s) # {}
          /\ \E pick \in [Slices(n) -> (DOMAIN buffers) \X Context] :
                /\ \A s \in Slices(n) : pick[s] \in SliceDevices(source, s)
                /\ job' = [job EXCEPT ![r] =
                    [NoJob EXCEPT !.slices = {Posted(s, pick[s]) : s \in Slices(n)},
                                  !.slice_count = Cardinality(Slices(n))]]
       \/ \E miss \in Slices(n) :
            LET before == {s \in Slices(n) : s.offset < miss.offset} IN
            /\ MayMiss(source, miss)
            /\ \A s \in before : SliceDevices(source, s) # {}
            /\ \E flushed \in {{}} \union {{s \in before : s.offset < e.offset} \union {e} : e \in before} :
                /\ flushed = {} \/ Cardinality(flushed) >= Watermark
                /\ \E pick \in [flushed -> (DOMAIN buffers) \X Context] :
                    /\ \A s \in flushed : pick[s] \in SliceDevices(source, s)
                    /\ job' = [job EXCEPT ![r] =
                        [NoJob EXCEPT !.slices = {Posted(s, pick[s]) : s \in flushed},
                                      !.slice_count = Cardinality(before),
                                      !.error = TRUE]]

submitTransferTask(r, source, n) ==
    /\ job[r].slices = {}
    /\ SubmitWhole(r, source, n) \/ SubmitSlices(r, source, n)
    /\ UNCHANGED <<regs, active, faults>>

\* Mutant of SliceOk: a completion may be delivered again.
SliceOkAgain(r, s) ==
    /\ s.key \in live[s.ctx]
    /\ job' = [job EXCEPT ![r].success = @ + 1]
    /\ UNCHANGED <<regs, active, faults>>

\* A posted slice ends. The device accepts only keys that are registered.
SliceOk(r, s) ==
    /\ s.key \in live[s.ctx]
    /\ job' = [job EXCEPT ![r].slices = @ \ {s}, ![r].success = @ + 1]
    /\ UNCHANGED <<regs, active, faults>>

SliceFails(r, s) ==
    /\ s.key \notin live[s.ctx] \/ ~active[s.ctx] \/ MayFault
    /\ faults' = IF s.key \notin live[s.ctx] \/ ~active[s.ctx] THEN faults ELSE faults + 1
    /\ job' = [job EXCEPT ![r].slices = @ \ {s}, ![r].failed = @ + 1]
    /\ UNCHANGED <<regs, active>>

\* Mutant of getTransferStatus: waits for all slices to succeed.
getTransferStatusStrict(r) ==
    IF job[r].success = job[r].slice_count THEN "COMPLETED" ELSE "WAITING"

getTransferStatus(r) ==
    IF job[r].success + job[r].failed = job[r].slice_count
    THEN IF job[r].failed # 0 THEN "FAILED" ELSE "COMPLETED"
    ELSE "WAITING"

RegistrationStep ==
    \/ \E b \in Buffer : \/ Register(b) \/ RegisterContext(b) \/ RegisterEnd(b)
                         \/ Unregister(b) \/ UnregisterContext(b) \/ UnregisterEnd(b)
    \/ Deactivate

-----------------------------------------------------------------------------

\* Types of the transport's variables.
RdmaTypeOK ==
    /\ parallel \in BOOLEAN
    /\ nreg \in [Buffer -> 0..MaxReg]
    /\ op \in [Buffer -> [pc : {"idle", "register", "unregister"},
                          left : SUBSET Context, failed : BOOLEAN]]
    /\ memory_region_map \in [Context -> [Buffer -> 0..MaxReg]]
    /\ live \in [Context -> SUBSET (Buffer \X (1..MaxReg))]
    /\ Len(buffers) = Cardinality(Published)
    /\ active \in [Context -> BOOLEAN]
    /\ \A r \in Request :
        job[r].success + job[r].failed + Cardinality(job[r].slices) <= job[r].slice_count
    /\ faults \in 0..MaxFaults

\* Every buffer in the local segment descriptor carries, for every context, the
\* key of a region of that buffer that the device accepts: a peer that reads the
\* descriptor can use it, whatever failed or ran at the same time
\* (registerLocalMemoryInternal, unregisterLocalMemoryInternal).
PublishedKeysAreLive ==
    \A i \in DOMAIN buffers, c \in Context :
        /\ buffers[i].keys[c] \in live[c]
        /\ buffers[i].keys[c][1] = buffers[i].buffer
====
