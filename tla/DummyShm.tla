------------------------------ MODULE DummyShm ------------------------------
(* A DummyClient process shares memory with the RealClient process that does
   its transfers.  The RealClient keeps one context per client: the mapped
   shared memories, the allocator over the local one, the buffers the client
   holds.  A monitor thread unmaps the context of a client that stopped
   pinging; the client's ping thread registers everything again after it lost
   the RealClient.  Both processes may crash, RPCs may fail or lose their
   answer; `faults' counts these events and MaxFaults bounds them.  (Build
   without USE_ASCEND_DIRECT.) *)
EXTENDS Naturals, Sequences, FiniteSets, Functions

CONSTANTS
  Shm,         \* shared memories of a DummyClient, by dummy base address
  Local,       \* the one that setup_dummy allocates
  Addr,        \* addresses at which the RealClient may map memory
  NoAddr,
  Slot,        \* buffers the allocator over the local memory can hand out
  Handle,      \* BufferHandles the application may hold
  NoBuffer,
  MaxId,       \* DummyClients that ever run, one after the other
  MaxFaults,   \* crashes, failed calls and lost answers
  TtlTicks,    \* dummy_client_live_ttl_sec_, in monitor iterations
  QueueSize    \* kDummyClientPingQueueSize

ASSUME ShmAssumption ==
  /\ IsFiniteSet(Shm) /\ Local \in Shm /\ NoAddr \notin Addr
  /\ NoBuffer \notin Slot
  /\ MaxId \in Nat \ {0} /\ MaxFaults \in Nat /\ TtlTicks \in Nat /\ QueueSize \in Nat

Id == 1..MaxId

VARIABLES
  \* RealClient
  up,            \* the process runs
  healthy,       \* client_->is_ping_healthy()
  shm_contexts,  \* client id -> context
  ping_queue,    \* dummy_client_ping_queue_
  client_ttl,    \* client id -> iterations left, in the monitor thread
  expired,       \* expired_clients the monitor has still to unmap
  mapped,        \* addresses that are mapped
  te,            \* addresses registered with the transfer engine
  io,            \* a transfer in a helper that holds the shared lock
  batch,         \* a batch_acquire_buffer_dummy
  \* DummyClient
  client_id,
  phase,         \* of setup_dummy and tearDownAll
  registered,    \* the shared memories whose flag `registered' is set
  connected,
  ping_running,
  ping_pc,       \* where the ping thread is
  todo,          \* shared memories this reconnection attempt has not visited
  held,          \* Handle -> slot or NoBuffer
  \* history
  faults,
  leaked,        \* addresses given up by an error path
  crossed        \* a buffer outlived the context it came from

server == <<up, healthy, shm_contexts, ping_queue, client_ttl, expired, mapped,
            te, io, batch>>
dummy == <<client_id, phase, registered, connected, ping_running, ping_pc,
           todo, held>>
vars == <<server, dummy, faults, leaked, crossed>>

memory == <<shm_contexts, mapped, te, leaked>>
monitor == <<ping_queue, client_ttl, expired>>

NoIo == [addr |-> NoAddr]
NoBatch == [pc |-> "none"]

EmptyContext == [shms |-> <<>>, allocator |-> NoAddr, used |-> {}, active |-> {}]

HasContext(c) == c \in DOMAIN shm_contexts
AddrsOf(ctx) == {ctx.shms[i].addr : i \in DOMAIN ctx.shms}
SetContext(c, ctx) ==
  [d \in DOMAIN shm_contexts \cup {c} |-> IF d = c THEN ctx ELSE shm_contexts[d]]
DropContext(c) == [d \in DOMAIN shm_contexts \ {c} |-> shm_contexts[d]]

\* vector::erase of the element at i.
Erase(s, i) == SubSeq(s, 1, i - 1) \o SubSeq(s, i + 1, Len(s))

\* Mutant of UniqueLock: the helpers do not keep the shared lock.
UniqueLockIgnored == TRUE

\* The unique lock is free when no helper holds the shared one; every section
\* under the unique lock is one step.
UniqueLock == io = NoIo

Fault == faults < MaxFaults /\ faults' = faults + 1
NoFault == UNCHANGED faults

\* A call that needs `connected_' and a RealClient that answers.
Reachable == up /\ connected

Holding == \E h \in Handle : held[h] # NoBuffer

-----------------------------------------------------------------------------
(* The RealClient's side of registration. *)

\* map_shm_internal_with_device of the memory s of client c.  A memory that is
\* mapped already is left alone.  When the registration with the transfer
\* engine fails the context stays.  (A second local buffer is refused; a
\* DummyClient has only one.)
MapShmOk(c, s) ==
  LET ctx == IF HasContext(c) THEN shm_contexts[c] ELSE EmptyContext
  IN /\ UniqueLock
     /\ \/ /\ \E i \in DOMAIN ctx.shms : ctx.shms[i].base = s
           /\ UNCHANGED memory
        \/ /\ ~ \E i \in DOMAIN ctx.shms : ctx.shms[i].base = s
           /\ \E a \in Addr \ mapped :
                /\ shm_contexts' = SetContext(c,
                     [shms |-> Append(ctx.shms, [base |-> s, addr |-> a]),
                      allocator |-> IF s = Local THEN a ELSE ctx.allocator,
                      used |-> ctx.used, active |-> ctx.active])
                /\ mapped' = mapped \cup {a}
                /\ te' = te \cup {a}
                /\ UNCHANGED leaked

MapShmFails(c, s) ==
  LET ctx == IF HasContext(c) THEN shm_contexts[c] ELSE EmptyContext
  IN /\ UniqueLock
     /\ ~ \E i \in DOMAIN ctx.shms : ctx.shms[i].base = s
     /\ Fault
     /\ \/ UNCHANGED shm_contexts                  \* mmap
        \/ shm_contexts' = SetContext(c, ctx)      \* RegisterLocalMemory
     /\ UNCHANGED <<mapped, te, leaked>>

\* unmap_shm_internal.  The first failed unregistration ends it: that memory is
\* unmapped, the ones after it are forgotten with the context.
UnmapShm(c) ==
  /\ UniqueLock
  /\ IF HasContext(c)
     THEN LET s == shm_contexts[c].shms
          IN \E k \in 1..Len(s) + 1 :
               /\ IF k = Len(s) + 1 THEN NoFault ELSE Fault
               /\ mapped' = mapped \ {s[i].addr : i \in 1..k \cap DOMAIN s}
               /\ te' = te \ {s[i].addr : i \in 1..(k - 1)}
               /\ leaked' = leaked \cup {s[i].addr : i \in k..Len(s)}
               /\ shm_contexts' = DropContext(c)
               /\ batch' = IF batch.pc # "none" /\ batch.id = c
                           THEN [batch EXCEPT !.stale = TRUE] ELSE batch
               /\ crossed' = (crossed \/ (c = client_id /\ Holding)
                                \/ (batch.pc # "none" /\ batch.id = c))
     ELSE UNCHANGED <<memory, batch, crossed>> /\ NoFault

\* Mutant of UnregisterShm: the transfer engine keeps the memory.
UnregisterShmKeepsTe(c, s) ==
  /\ UniqueLock
  /\ HasContext(c)
  /\ \E i \in DOMAIN shm_contexts[c].shms :
       /\ shm_contexts[c].shms[i].base = s
       /\ mapped' = mapped \ {shm_contexts[c].shms[i].addr}
       /\ shm_contexts' = [shm_contexts EXCEPT ![c].shms = Erase(@, i)]
  /\ UNCHANGED <<te, leaked>>

\* unregister_shm_buffer_internal.
UnregisterShm(c, s) ==
  /\ UniqueLock
  /\ HasContext(c)
  /\ \E i \in DOMAIN shm_contexts[c].shms :
       /\ shm_contexts[c].shms[i].base = s
       /\ mapped' = mapped \ {shm_contexts[c].shms[i].addr}
       /\ te' = te \ {shm_contexts[c].shms[i].addr}
       /\ shm_contexts' = [shm_contexts EXCEPT ![c].shms = Erase(@, i)]
  /\ UNCHANGED leaked

\* ping: the id is queued whatever the state of the RealClient's own pings.
QueuePing == ping_queue' = Append(ping_queue, client_id)
\* Mutant of QueueFull: the result of the push is not checked.
QueueNeverFull == FALSE
QueueFull == Len(ping_queue) = QueueSize

\* Mutant of MonitorScan: the clients that expired are erased and forgotten.
MonitorScanForgets ==
  LET fresh == Range(ping_queue)
      old == DOMAIN client_ttl \ fresh
      late == {c \in old : client_ttl[c] = 0}
  IN /\ up /\ expired = {}
     /\ ping_queue' = <<>>
     /\ client_ttl' = [c \in (fresh \cup old) \ late |->
                         IF c \in fresh THEN TtlTicks ELSE client_ttl[c] - 1]
     /\ UNCHANGED <<expired, up, healthy, memory, io, batch, dummy, faults, crossed>>

\* One pass of dummy_client_monitor_func over the queue and the table.
MonitorScan ==
  LET fresh == Range(ping_queue)
      old == DOMAIN client_ttl \ fresh
      late == {c \in old : client_ttl[c] = 0}
  IN /\ up /\ expired = {}
     /\ ping_queue' = <<>>
     /\ client_ttl' = [c \in (fresh \cup old) \ late |->
                         IF c \in fresh THEN TtlTicks ELSE client_ttl[c] - 1]
     /\ expired' = late
     /\ UNCHANGED <<up, healthy, memory, io, batch, dummy, faults, crossed>>

\* It then unmaps the clients that expired, each under the lock.
MonitorUnmap(c) ==
  /\ up /\ c \in expired
  /\ expired' = expired \ {c}
  /\ UnmapShm(c)
  /\ UNCHANGED <<up, healthy, ping_queue, client_ttl, io, dummy>>

\* The RealClient's own connection to the master comes and goes.
HealthChanges ==
  /\ up
  /\ IF healthy THEN Fault ELSE NoFault
  /\ healthy' = ~healthy
  /\ UNCHANGED <<up, memory, monitor, io, batch, dummy, crossed>>

ServerCrash ==
  /\ up /\ Fault
  /\ up' = FALSE /\ healthy' = TRUE
  /\ shm_contexts' = <<>> /\ ping_queue' = <<>> /\ client_ttl' = <<>>
  /\ expired' = {} /\ mapped' = {} /\ te' = {} /\ leaked' = {}
  /\ io' = NoIo /\ batch' = NoBatch
  /\ crossed' = (crossed \/ Holding)
  /\ UNCHANGED dummy

ServerRestart ==
  /\ ~up /\ up' = TRUE
  /\ UNCHANGED <<healthy, memory, monitor, io, batch, dummy, faults, crossed>>

-----------------------------------------------------------------------------
(* The DummyClient. *)

\* register_shm_via_ipc fails: the RealClient is down, cannot map the memory, or
\* has mapped it and its answer is lost.
RegisterShmViaIpcFails(s) ==
  \/ ~up /\ UNCHANGED <<memory, faults>>
  \/ up /\ MapShmFails(client_id, s)
  \/ up /\ MapShmOk(client_id, s) /\ Fault

\* setup_dummy: connect, which asks whether the service is ready.
Connect ==
  /\ phase = "new" /\ up
  /\ connected' = TRUE /\ phase' = "connected"
  /\ UNCHANGED <<server, client_id, registered, ping_running, ping_pc, todo,
                 held, faults, leaked, crossed>>

\* ... then register the local memory and start the ping thread; when the
\* registration fails, setup ends.
SetupRegister ==
  /\ phase = "connected"
  /\ \/ /\ up /\ MapShmOk(client_id, Local) /\ NoFault
        /\ registered' = {Local} /\ phase' = "run"
        /\ ping_running' = TRUE /\ ping_pc' = "ping"
     \/ /\ RegisterShmViaIpcFails(Local)
        /\ phase' = "dead" /\ UNCHANGED <<registered, ping_running, ping_pc>>
  /\ UNCHANGED <<up, healthy, monitor, io, batch, client_id, connected,
                 todo, held, crossed>>

\* ping_thread_main.  A ping is answered and fine, or it fails; one failure is
\* enough to enter the reconnection loop.
PingOk ==
  /\ ping_pc = "ping" /\ ping_running
  /\ up /\ healthy /\ ~QueueFull /\ QueuePing
  /\ UNCHANGED <<up, healthy, memory, client_ttl, expired, io, batch,
                 dummy, faults, crossed>>

PingFails ==
  /\ ping_pc = "ping" /\ ping_running
  /\ \/ ~up /\ NoFault /\ UNCHANGED ping_queue
     \/ up /\ QueueFull /\ NoFault /\ UNCHANGED ping_queue
     \/ up /\ ~QueueFull /\ ~healthy /\ NoFault /\ QueuePing
     \/ up /\ Fault /\ UNCHANGED ping_queue
  /\ connected' = FALSE /\ ping_pc' = "retry"
  /\ UNCHANGED <<up, healthy, memory, client_ttl, expired, io, batch,
                 client_id, phase, registered, ping_running, todo, held,
                 crossed>>

ReconnectStarts ==
  /\ ping_pc = "retry" /\ ping_running
  /\ ping_pc' = "register" /\ todo' = Shm
  /\ UNCHANGED <<server, client_id, phase, registered, connected, ping_running,
                 held, faults, leaked, crossed>>

\* It visits every shared memory and registers the ones that were registered.
Reregister(s) ==
  /\ ping_pc = "register" /\ s \in todo /\ (Local \in todo => s = Local)
  /\ \/ /\ s \notin registered /\ todo' = todo \ {s}
        /\ NoFault /\ UNCHANGED <<memory, ping_pc>>
     \/ /\ s \in registered /\ up /\ MapShmOk(client_id, s)
        /\ todo' = todo \ {s} /\ NoFault /\ UNCHANGED ping_pc
     \/ /\ s \in registered
        /\ RegisterShmViaIpcFails(s)
        /\ todo' = {} /\ ping_pc' = "retry"
  /\ UNCHANGED <<up, healthy, monitor, io, batch, client_id, phase,
                 registered, connected, ping_running, held, crossed>>

\* Mutant of ReconnectPing: connected_ is not set again.
ReconnectPingOnly ==
  /\ ping_pc = "register" /\ todo = {}
  /\ up /\ healthy /\ ~QueueFull /\ QueuePing /\ ping_pc' = "ping"
  /\ UNCHANGED <<up, healthy, memory, client_ttl, expired, io, batch, client_id, phase,
                 registered, connected, ping_running, todo, held, faults, crossed>>

\* Once all are registered it pings again.
ReconnectPing ==
  /\ ping_pc = "register" /\ todo = {}
  /\ \/ /\ up /\ healthy /\ ~QueueFull /\ QueuePing /\ NoFault
        /\ connected' = TRUE /\ ping_pc' = "ping"
     \/ /\ \/ up /\ ~QueueFull /\ ~healthy /\ QueuePing /\ NoFault
           \/ (~up \/ QueueFull) /\ UNCHANGED ping_queue /\ NoFault
           \/ up /\ Fault /\ UNCHANGED ping_queue
        /\ ping_pc' = "retry" /\ UNCHANGED connected
  /\ UNCHANGED <<up, healthy, memory, client_ttl, expired, io, batch,
                 client_id, phase, registered, ping_running, todo, held,
                 crossed>>

PingExits ==
  /\ ping_pc \in {"ping", "retry"} /\ ~ping_running
  /\ ping_pc' = "exit"
  /\ UNCHANGED <<server, client_id, phase, registered, connected, ping_running,
                 todo, held, faults, leaked, crossed>>

\* register_buffer of a whole shared memory.
RegisterBuffer(s) ==
  /\ phase = "run" /\ s \notin registered /\ up
  /\ \/ MapShmOk(client_id, s) /\ NoFault /\ registered' = registered \cup {s}
     \/ RegisterShmViaIpcFails(s) /\ UNCHANGED registered
  /\ UNCHANGED <<up, healthy, monitor, io, batch, client_id, phase,
                 connected, ping_running, ping_pc, todo, held, crossed>>

\* unregister_buffer.  The flag is cleared when the answer arrives.
UnregisterBuffer(s) ==
  /\ phase = "run" /\ s \in registered \ {Local} /\ Reachable
  /\ UnregisterShm(client_id, s)
  /\ \/ NoFault /\ registered' = registered \ {s}
     \/ Fault /\ UNCHANGED registered
  /\ UNCHANGED <<up, healthy, monitor, io, batch, client_id, phase, connected,
                 ping_running, ping_pc, todo, held, crossed>>

-----------------------------------------------------------------------------
(* Buffers. *)

Take(h, b) == held' = [held EXCEPT ![h] = b]

\* A free buffer of the allocator, which outlives the call in active_handles.
FreeSlots(c) == IF HasContext(c) /\ shm_contexts[c].allocator # NoAddr
                THEN Slot \ shm_contexts[c].used ELSE {}

\* Mutant of AcquireBuffer: the handle is not kept in active_handles, so its
\* buffer is free again when the call returns.
AcquireBufferDropped(h) ==
  /\ phase = "run" /\ held[h] = NoBuffer /\ Reachable /\ UniqueLock
  /\ \E b \in FreeSlots(client_id) : Take(h, b)
  /\ UNCHANGED <<server, client_id, phase, registered, connected, ping_running,
                 ping_pc, todo, leaked, faults, crossed>>

\* acquire_buffer_dummy: allocate, fill and record, all under the unique lock.
\* (The read may also fail, and then nothing changes.)
AcquireBuffer(h) ==
  /\ phase = "run" /\ held[h] = NoBuffer /\ Reachable /\ UniqueLock
  /\ \E b \in FreeSlots(client_id) :
       /\ shm_contexts' = [shm_contexts EXCEPT ![client_id].used = @ \cup {b},
                                               ![client_id].active = @ \cup {b}]
       /\ \/ Take(h, b) /\ NoFault
          \/ Fault /\ UNCHANGED held
  /\ UNCHANGED <<up, healthy, mapped, te, leaked, monitor, io, batch,
                 client_id, phase, registered, connected, ping_running,
                 ping_pc, todo, crossed>>

\* batch_acquire_buffer_dummy looks the context up under the lock, ...
BatchBegin ==
  /\ phase = "run" /\ Reachable /\ UniqueLock /\ batch = NoBatch
  /\ HasContext(client_id)
  /\ batch' = [pc |-> "get", id |-> client_id, stale |-> FALSE, slot |-> NoBuffer]
  /\ UNCHANGED <<up, healthy, memory, monitor, io, dummy, faults, crossed>>

\* ... fills a buffer of the context's allocator without the lock.  The
\* reference to the allocator dangles once the context has been unmapped: it
\* may read as the allocator of a context that has taken its place, or as null,
\* which stands for the RealClient's own allocator.
BatchGet ==
  /\ batch.pc = "get"
  /\ \/ \E b \in FreeSlots(batch.id) :
          /\ shm_contexts' = [shm_contexts EXCEPT ![batch.id].used = @ \cup {b}]
          /\ batch' = [batch EXCEPT !.pc = "end", !.slot = b]
     \/ /\ batch' = [batch EXCEPT !.pc = "end"]
        /\ UNCHANGED shm_contexts
  /\ UNCHANGED <<up, healthy, mapped, te, leaked, monitor, io, dummy,
                 faults, crossed>>

\* ... and records it under the lock if there is a context (again).  A buffer of
\* an older context is recorded when it happens to lie in the new mapping.
BatchEnd ==
  LET receivers == {h \in Handle : /\ phase = "run" /\ client_id = batch.id
                                   /\ held[h] = NoBuffer}
  IN
  /\ batch.pc = "end" /\ UniqueLock
  /\ batch' = NoBatch
  /\ \/ /\ batch.slot # NoBuffer /\ HasContext(batch.id)
        /\ shm_contexts' = [shm_contexts EXCEPT ![batch.id].active = @ \cup {batch.slot}]
        /\ \/ \E h \in receivers : Take(h, batch.slot) /\ NoFault
           \/ /\ UNCHANGED held
              /\ IF receivers = {} THEN NoFault ELSE Fault
     \/ /\ batch.slot = NoBuffer \/ ~HasContext(batch.id) \/ batch.stale
        /\ UNCHANGED <<shm_contexts, held, faults>>
  /\ UNCHANGED <<up, healthy, mapped, te, leaked, monitor, io, client_id,
                 phase, registered, connected, ping_running, ping_pc,
                 todo, crossed>>

\* The release of a BufferHandle, release_buffer_dummy: without a connection it
\* is dropped.
Release(h) ==
  /\ phase \in {"run", "closing"} /\ held[h] # NoBuffer /\ Take(h, NoBuffer)
  /\ IF Reachable /\ HasContext(client_id)
     THEN /\ UniqueLock
          /\ shm_contexts' = [shm_contexts EXCEPT ![client_id].used = @ \ {held[h]},
                                                  ![client_id].active = @ \ {held[h]}]
     ELSE UNCHANGED shm_contexts
  /\ UNCHANGED <<up, healthy, mapped, te, leaked, monitor, io, batch, client_id, phase,
                 registered, connected, ping_running, ping_pc, todo,
                 faults, crossed>>

\* The address at which the RealClient sees a dummy buffer.
RealAddrs(c, s) == {x.addr : x \in {y \in Range(shm_contexts[c].shms) : y.base = s}}

\* batch_get_into_dummy_helper and its siblings: translate the buffer, then
\* transfer, with the shared lock held until the transfer is over.
HelperBegin(s) ==
  /\ phase = "run" /\ Reachable /\ io = NoIo /\ HasContext(client_id)
  /\ \E a \in RealAddrs(client_id, s) : io' = [addr |-> a]
  /\ UNCHANGED <<up, healthy, memory, monitor, batch, dummy, faults, crossed>>

HelperEnd ==
  /\ io # NoIo /\ io' = NoIo
  /\ UNCHANGED <<up, healthy, memory, monitor, batch, dummy, faults, crossed>>

-----------------------------------------------------------------------------
(* The end of a DummyClient. *)

\* tearDownAll unmaps the context, if it is connected, before it stops the ping
\* thread, which may be registering everything again meanwhile.
TearDownUnmap ==
  /\ phase = "run"
  /\ IF Reachable THEN UnmapShm(client_id)
     ELSE UNCHANGED <<memory, batch, crossed, faults>>
  /\ ping_running' = FALSE /\ phase' = "closing"
  /\ UNCHANGED <<up, healthy, monitor, io, client_id, registered,
                 connected, ping_pc, todo, held>>

\* Without a connection the release of a buffer does nothing, so the buffers the
\* application still holds are forgotten.
TearDownJoin ==
  /\ phase = "closing" /\ ping_pc = "exit"
  /\ connected' = FALSE /\ phase' = "closed" /\ held' = [h \in Handle |-> NoBuffer]
  /\ UNCHANGED <<server, client_id, registered, ping_running, ping_pc,
                 todo, faults, leaked, crossed>>

\* The process dies, or exits without tearDownAll.
DummyCrash ==
  /\ phase \notin {"closed", "dead"} /\ Fault
  /\ phase' = "dead" /\ registered' = {} /\ connected' = FALSE
  /\ ping_running' = FALSE /\ ping_pc' = "exit" /\ todo' = {}
  /\ held' = [h \in Handle |-> NoBuffer]
  /\ UNCHANGED <<server, client_id, leaked, crossed>>

\* Another process starts, with a DummyClient of another id.
NextProcess ==
  /\ phase \in {"closed", "dead"} /\ client_id < MaxId
  /\ client_id' = client_id + 1
  /\ phase' = "new" /\ registered' = {} /\ connected' = FALSE
  /\ ping_running' = FALSE /\ ping_pc' = "exit" /\ todo' = {}
  /\ held' = [h \in Handle |-> NoBuffer]
  /\ UNCHANGED <<server, faults, leaked, crossed>>

-----------------------------------------------------------------------------
Init ==
  /\ up = TRUE /\ healthy = TRUE
  /\ shm_contexts = <<>> /\ ping_queue = <<>> /\ client_ttl = <<>> /\ expired = {}
  /\ mapped = {} /\ te = {} /\ io = NoIo /\ batch = NoBatch
  /\ client_id = 1 /\ phase = "new" /\ registered = {}
  /\ connected = FALSE /\ ping_running = FALSE /\ ping_pc = "exit" /\ todo = {}
  /\ held = [h \in Handle |-> NoBuffer]
  /\ faults = 0 /\ leaked = {} /\ crossed = FALSE

MonitorThread == MonitorScan \/ \E c \in Id : MonitorUnmap(c)
PingThread ==
  \/ PingOk \/ PingFails \/ ReconnectStarts \/ ReconnectPing \/ PingExits
  \/ \E s \in Shm : Reregister(s)
TearDown == TearDownUnmap \/ TearDownJoin
Buffers ==
  \/ \E h \in Handle : AcquireBuffer(h) \/ Release(h)
  \/ BatchBegin \/ BatchGet \/ BatchEnd
  \/ \E s \in Shm : HelperBegin(s)
  \/ HelperEnd

Next ==
  \/ MonitorThread \/ HealthChanges \/ ServerCrash \/ ServerRestart
  \/ Connect \/ SetupRegister \/ PingThread
  \/ \E s \in Shm : RegisterBuffer(s) \/ UnregisterBuffer(s)
  \/ Buffers
  \/ TearDown \/ DummyCrash \/ NextProcess

Spec == Init /\ [][Next]_vars

\* Threads keep running and transfers end.
FairSpec ==
  /\ Spec
  /\ WF_vars(MonitorThread) /\ WF_vars(PingThread) /\ WF_vars(TearDownJoin)
  /\ WF_vars(HelperEnd) /\ WF_vars(BatchGet) /\ WF_vars(BatchEnd)

-----------------------------------------------------------------------------
Context ==
  [shms : UNION {[1..n -> [base : Shm, addr : Addr]] : n \in 0..Cardinality(Shm)},
   allocator : Addr \cup {NoAddr}, used : SUBSET Slot, active : SUBSET Slot]

\* Every variable has its type; the monitor's table and the queue hold client
\* ids, a context has at most one mapping per shared memory.
TypeOK ==
  /\ up \in BOOLEAN /\ healthy \in BOOLEAN
  /\ DOMAIN shm_contexts \subseteq Id
  /\ \A c \in DOMAIN shm_contexts : shm_contexts[c] \in Context
  /\ ping_queue \in Seq(Id) /\ Len(ping_queue) <= QueueSize
  /\ DOMAIN client_ttl \subseteq Id
  /\ \A c \in DOMAIN client_ttl : client_ttl[c] \in 0..TtlTicks
  /\ expired \subseteq Id /\ mapped \subseteq Addr /\ te \subseteq Addr
  /\ io.addr \in Addr \cup {NoAddr} /\ batch.pc \in {"none", "get", "end"}
  /\ client_id \in Id
  /\ phase \in {"new", "connected", "run", "closing", "closed", "dead"}
  /\ registered \subseteq Shm
  /\ connected \in BOOLEAN /\ ping_running \in BOOLEAN
  /\ ping_pc \in {"ping", "retry", "register", "exit"} /\ todo \subseteq Shm
  /\ held \in [Handle -> Slot \cup {NoBuffer}]
  /\ faults \in 0..MaxFaults /\ leaked \subseteq Addr /\ crossed \in BOOLEAN

ContextAddrs == UNION {AddrsOf(shm_contexts[c]) : c \in DOMAIN shm_contexts}

\* A context owns its memory: what it lists, and the memory under its allocator,
\* is mapped and registered with the transfer engine, no two entries of any
\* contexts share an address, and nothing else is mapped or registered except
\* what an error path gave up (map_shm_internal_with_device, unmap_shm_internal,
\* unregister_shm_buffer_internal).
ContextsOwnMemory ==
  /\ ContextAddrs \subseteq mapped \cap te
  /\ mapped \cup te \subseteq ContextAddrs \cup leaked
  /\ \A c, d \in DOMAIN shm_contexts :
       \A i \in DOMAIN shm_contexts[c].shms, j \in DOMAIN shm_contexts[d].shms :
         shm_contexts[c].shms[i].addr = shm_contexts[d].shms[j].addr => c = d /\ i = j
  /\ \A c \in DOMAIN shm_contexts :
       shm_contexts[c].allocator \in AddrsOf(shm_contexts[c]) \cup {NoAddr}

\* A transfer on a translated dummy buffer never runs on unmapped memory: the
\* helpers hold the shared lock, so neither the monitor nor an unregistration
\* unmaps it (comment of batch_get_into_dummy_helper).
TransfersOnMappedMemory == io # NoIo => io.addr \in mapped \cap te

\* As long as no buffer has outlived its context, every buffer the application
\* holds is kept alive by the RealClient: it is active in the context, not free
\* in its allocator, and nobody else holds it (acquire_buffer_dummy,
\* batch_acquire_buffer_dummy, release_buffer_dummy).
HeldBuffersAreKept ==
  ~crossed /\ phase = "run" =>
    \A h \in Handle : held[h] # NoBuffer =>
       /\ HasContext(client_id)
       /\ held[h] \in shm_contexts[client_id].active \cap shm_contexts[client_id].used
       /\ \A g \in Handle \ {h} : held[g] # held[h]

\* The context of a client that is gone is unmapped in the end, provided the
\* monitor ever learned of the client from a ping (dummy_client_monitor_func).
Gone(c) == c < client_id \/ phase \in {"closed", "dead"}
Tracked(c) == c \in Range(ping_queue) \cup DOMAIN client_ttl \cup expired
DeadContextsGo ==
  \A c \in Id : (Gone(c) /\ c <= client_id /\ Tracked(c)) ~> (~HasContext(c))

\* Once the RealClient stays up and healthy, a DummyClient that lost it comes
\* back, unless it is torn down (ping_thread_main).
Reconnects ==
  <>[](up /\ healthy) =>
    [](phase = "run" /\ ~connected => <>(connected \/ phase # "run"))

\* A running client whose context was unmapped because it expired is made to
\* register its memory again: the monitor's comment says that it updates the
\* client's status to NEED_REMOUNT.
ExpiredClientRemounts ==
  (phase = "run" /\ connected /\ ~HasContext(client_id)) ~>
    (HasContext(client_id) \/ phase # "run")
=============================================================================
