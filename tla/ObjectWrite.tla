----------------------------- MODULE ObjectWrite -----------------------------
(***************************************************************************)
(* How a store client writes objects (mooncake-store/src/                  *)
(* client_service.cpp): Put, Upsert, BatchPut, BatchPut with its objects on *)
(* preferred nodes, and BatchUpsert.  A call starts its objects at the     *)
(* master, writes the replicas that the master allocated, and then commits *)
(* (ends) them or gives them back (revokes).  Several threads call at once. *)
(*                                                                         *)
(* The master, the transfer engine and the file backend are not part of    *)
(* the repository; they do here what the client relies on: a write of a    *)
(* key is refused while another one is in progress, end and revoke apply   *)
(* to the replicas of a type, and type ALL means memory and NoF replicas.  *)
(***************************************************************************)
EXTENDS Integers, FiniteSets

CONSTANTS
  Thread,         \* threads that call the client
  Key,            \* object keys
  Calls,          \* the calls that they make: <<thread, call, keys>>
  Config,         \* ReplicateConfig: replica_num and nof_replica_num, and
                  \* whether objects are also removed, by others or by eviction
  StorageBackend, \* storage_backend_ is set, and there are disk replicas
  SegOf,          \* the segment that holds the first replica of a key
  None            \* no thread

Api == {"Put", "Upsert", "BatchPut", "SameNode", "BatchUpsert"}

ASSUME CallsAssumption == Calls \subseteq Thread \X Api \X ((SUBSET Key) \ {{}})

ASSUME ConfigAssumption == Config \subseteq [mem : Nat, nof : Nat, removal : BOOLEAN]

ASSUME BackendAssumption == StorageBackend \in BOOLEAN

ASSUME NoThreadAssumption == None \notin Thread

VARIABLES
  config,       \* the configuration of the calls
  owner,        \* external: per key, the thread whose call started it
  processing,   \* external: per key, replicas allocated and not ended
  complete,     \* external: per key, replicas that readers may use
  written,      \* external: per key, replicas that hold all of the new value
  disk_tasks,   \* write_thread_pool_: objects to store in local files
  abandoned,    \* keys whose disk replica an RPC that failed left behind
  call,         \* per thread: the call it is in
  state,        \* per thread and key, the fields of PutOperation:
  result,
  replicas,
  pending,      \* pending_transfers
  ok,           \* transfer_summary: replicas whose transfer succeeded,
  failed,       \* and those whose transfer failed
  endType,      \* the finalize decision: what is still to be ended,
  revokeType,   \* what is still to be revoked,
  success,      \* and whether the operation is to succeed
  rpcError      \* an RPC to the master failed for the operation

masterVars == <<owner, processing, complete>>
transferVars == <<pending, ok, failed>>
diskVars == <<disk_tasks, abandoned>>
decisionVars == <<endType, revokeType, success>>
vars == <<config, masterVars, written, diskVars, call, state, result, replicas,
          transferVars, decisionVars, rpcError>>

\* The master hands out the first replicas of each type.
Memory == {"MEMORY"} \X Nat
Nof == {"NOF_SSD"} \X Nat
DiskReplica == <<"DISK", 1>>
Transferable == Memory \cup Nof
Replica == Transferable \cup {DiskReplica}

Op == Thread \X Key
PutOperationState ==
  {"PENDING", "MASTER_FAILED", "TRANSFER_FAILED", "FINALIZE_FAILED", "SUCCESS"}
ReplicaType == {"none", "ALL", "MEMORY", "NOF_SSD"}
Call == [pc : {"submit", "wait", "finalize"}, api : Api, keys : SUBSET Key]
Idle == [pc |-> "idle", api |-> "none", keys |-> {}]
DiskTask == [key : Key, stage : {"store", "end", "revoke"}]

TypeOK ==
  /\ config \in Config
  /\ owner \in [Key -> Thread \cup {None}]
  /\ \A k \in Key : /\ processing[k] \subseteq Replica
                    /\ complete[k] \subseteq Replica
                    /\ written[k] \subseteq Transferable
  /\ disk_tasks \subseteq DiskTask
  /\ abandoned \subseteq Key
  /\ call \in [Thread -> Call \cup {Idle}]
  /\ state \in [Op -> PutOperationState]
  /\ result \in [Op -> {"OK", "EXISTS", "ERROR"}]
  /\ \A o \in Op : /\ replicas[o] \subseteq Replica
                   /\ pending[o] \cup ok[o] \cup failed[o] \subseteq Transferable
  /\ endType \in [Op -> ReplicaType]
  /\ revokeType \in [Op -> ReplicaType]
  /\ success \in [Op -> BOOLEAN]
  /\ rpcError \in [Op -> BOOLEAN]

Init ==
  /\ config \in Config
  /\ owner = [k \in Key |-> None]
  /\ processing = [k \in Key |-> {}]
  /\ complete = [k \in Key |-> {}]
  /\ written = [k \in Key |-> {}]
  /\ disk_tasks = {}
  /\ abandoned = {}
  /\ call = [t \in Thread |-> Idle]
  /\ state = [o \in Op |-> "PENDING"]
  /\ result = [o \in Op |-> "ERROR"]
  /\ replicas = [o \in Op |-> {}]
  /\ pending = [o \in Op |-> {}]
  /\ ok = [o \in Op |-> {}]
  /\ failed = [o \in Op |-> {}]
  /\ endType = [o \in Op |-> "none"]
  /\ revokeType = [o \in Op |-> "none"]
  /\ success = [o \in Op |-> FALSE]
  /\ rpcError = [o \in Op |-> FALSE]

\* The operations of a call, and the same field changed in all of them.
Ops(t) == {t} \X call[t].keys
Update(f, S, v(_)) == [o \in Op |-> IF o \in S THEN v(o) ELSE f[o]]

At(t, pc) == call[t].pc = pc
Goto(t, pc) == call' = [call EXCEPT ![t] = [pc |-> pc, api |-> @.api, keys |-> @.keys]]

-----------------------------------------------------------------------------
(* What the configuration asks for. *)

\* DetermineReplicaWriteMode is FLEXIBLE_DUAL_REPLICA: one replica of each type,
\* of which one suffices.
Flexible == config.mem = 1 /\ config.nof = 1

HasExpectedReplicaAllocation(S) ==
  IF config.nof = 0 THEN S \cap Memory # {}
  ELSE IF Flexible THEN S \cap Transferable # {}
  ELSE /\ Cardinality(S \cap Memory) = config.mem
       /\ Cardinality(S \cap Nof) = config.nof

\* The transfers of a reliable write: every allocated replica was written.
AllTransfersSucceeded(S, good, bad) == S \cap Transferable = good /\ bad = {}

Commit(ty) == [end |-> ty, revoke |-> "none", success |-> TRUE]
\* A slip for mutation checks: a one-sided success is reported as a failure.
CommitOnlyFails(ty, other) == [end |-> ty, revoke |-> other, success |-> FALSE]
CommitOnly(ty, other) == [end |-> ty, revoke |-> other, success |-> TRUE]
GiveUp(ty) == [end |-> "none", revoke |-> ty, success |-> FALSE]

\* Slips for mutation checks: one good transfer is enough for a reliable write;
\* the failed side of a flexible write is not revoked.
DecisionIfAnySucceeded(S, good, bad) == IF good # {} THEN Commit("ALL") ELSE GiveUp("ALL")

DecisionKeepsFailedSide(S, good, bad) ==
  IF S \cap Transferable = good /\ bad = {} THEN Commit("ALL")
  ELSE IF ~Flexible \/ good = {} THEN GiveUp("ALL")
  ELSE IF good \cap Memory # {} THEN Commit("MEMORY") ELSE Commit("NOF_SSD")

\* DetermineFinalizeDecision: S was allocated, good and bad are the transfers.
Decision(S, good, bad) ==
  IF ~Flexible
    THEN IF HasExpectedReplicaAllocation(S) /\ AllTransfersSucceeded(S, good, bad)
           THEN Commit("ALL") ELSE GiveUp("ALL")
    ELSE CASE good \cap Memory # {} /\ good \cap Nof # {} -> Commit("ALL")
           [] good \cap Memory # {} /\ good \cap Nof = {} -> CommitOnly("MEMORY", "NOF_SSD")
           [] good \cap Memory = {} /\ good \cap Nof # {} -> CommitOnly("NOF_SSD", "MEMORY")
           [] OTHER -> GiveUp("ALL")

-----------------------------------------------------------------------------
(* External: the master and its RPCs. *)

\* An RPC is answered, fails, or takes effect while its answer is lost.
RpcOutcome == {"ok", "error", "lost"}

OfType(ty) == IF ty = "ALL" THEN Transferable ELSE {r \in Replica : r[1] = ty}

First(ty, n) == {ty} \X (1..n)

\* Fewer replicas than asked for may be free, but not none, and a disk replica is
\* an extra one; an upsert is started with a memory replica or not at all.
Allocations(a) ==
  {S \cup D : S \in {First("MEMORY", m) \cup First("NOF_SSD", n) :
                       m \in (IF a \in {"Upsert", "BatchUpsert"} THEN 1 ELSE 0)..config.mem,
                       n \in 0..config.nof},
              D \in {{}} \cup {d \in {{DiskReplica}} : StorageBackend}}
    \ {{}, {DiskReplica}}

\* The answers to PutStart and UpsertStart of a key.
Answers(a, k) ==
  {[rpc |-> "error", reps |-> {}]} \cup
  IF a \in {"Upsert", "BatchUpsert"}
    THEN {x \in [rpc : {"ok", "lost"}, reps : Allocations(a)] : processing[k] = {}}
    ELSE IF processing[k] \cup complete[k] # {}
           THEN {[rpc |-> "exists", reps |-> {}]}
           ELSE [rpc : {"ok", "lost"}, reps : Allocations(a)]

\* End or Revoke of one type of replica, for a set of keys.
EndAt(ty, K) ==
  /\ complete' = [k \in Key |-> IF k \in K THEN complete[k] \cup (processing[k] \cap OfType(ty))
                                           ELSE complete[k]]
  /\ processing' = [k \in Key |-> IF k \in K THEN processing[k] \ OfType(ty) ELSE processing[k]]
  /\ UNCHANGED owner

RevokeAt(ty, K) ==
  /\ processing' = [k \in Key |-> IF k \in K THEN processing[k] \ OfType(ty) ELSE processing[k]]
  /\ UNCHANGED <<owner, complete>>

\* The master removes an object that nobody is writing.
Remove(k) ==
  /\ config.removal
  /\ processing[k] = {}
  /\ complete[k] # {}
  /\ owner' = [owner EXCEPT ![k] = None]
  /\ complete' = [complete EXCEPT ![k] = {}]
  /\ UNCHANGED <<config, processing, written, diskVars, call, state, result, replicas,
                 transferVars, decisionVars, rpcError>>

-----------------------------------------------------------------------------
(* Starting a call. *)

Single(a) == a \in {"Put", "Upsert"}
Upserts(a) == a \in {"Upsert", "BatchUpsert"}

\* What the calls accept: BatchPut on preferred nodes takes one memory replica.
Accepts(a, K) ==
  /\ Single(a) => \E k \in K : K = {k}
  /\ a = "SameNode" => config.mem = 1 /\ config.nof = 0
  /\ Upserts(a) => config.nof = 0

\* A batch put gives up on a key at once when the allocation is too small; an
\* upsert goes on with what it gets.
StartBatchPutState(x) ==
  IF x.rpc = "ok" /\ HasExpectedReplicaAllocation(x.reps) THEN "PENDING" ELSE "MASTER_FAILED"

StartBatchUpsertState(x) == IF x.rpc = "ok" THEN "PENDING" ELSE "MASTER_FAILED"

StartState(a, x) ==
  IF a \in {"BatchPut", "SameNode"} THEN StartBatchPutState(x) ELSE StartBatchUpsertState(x)

\* An object that exists already counts as put, at once or in CollectResults.
StartResult(a, x) ==
  IF x.rpc # "exists" THEN "ERROR" ELSE IF Single(a) THEN "OK" ELSE "EXISTS"

\* RemoveHotKeys, then PutStart, UpsertStart, BatchPutStart or BatchUpsertStart,
\* one RPC for all keys.  Put and Upsert return when it fails.
Start(t, a, K) ==
  /\ At(t, "idle")
  /\ <<t, a, K>> \in Calls
  /\ Accepts(a, K)
  /\ \E ans \in [K -> UNION {Answers(a, k) : k \in K}] :
       LET started == {k \in K : ans[k].rpc \in {"ok", "lost"}}
           seen(o) == IF ans[o[2]].rpc = "ok" THEN ans[o[2]].reps ELSE {}
           mine == {t} \X K
       IN
       /\ \A k \in K : ans[k] \in Answers(a, k)
       /\ owner' = [k \in Key |-> IF k \in started THEN t ELSE owner[k]]
       /\ processing' = [k \in Key |-> IF k \in started THEN ans[k].reps ELSE processing[k]]
       /\ complete' = [k \in Key |-> IF k \in started THEN {} ELSE complete[k]]
       /\ written' = [k \in Key |-> IF k \in started THEN {} ELSE written[k]]
       /\ abandoned' = (abandoned \ started) \cup {k \in started : ans[k].rpc = "lost"}
       /\ call' = [call EXCEPT ![t] =
            IF Single(a) /\ \A k \in K : ans[k].rpc # "ok" THEN Idle
            ELSE [pc |-> "submit", api |-> a, keys |-> K]]
       /\ LET Answered(o) == StartState(a, ans[o[2]])
              Outcome(o) == StartResult(a, ans[o[2]])
              Error(o) == ans[o[2]].rpc \in {"error", "lost"}
          IN /\ state' = Update(state, mine, Answered)
             /\ result' = Update(result, mine, Outcome)
             /\ replicas' = Update(replicas, mine, seen)
             /\ rpcError' = Update(rpcError, mine, Error)
  /\ UNCHANGED <<config, disk_tasks, transferVars, decisionVars>>

-----------------------------------------------------------------------------
(* Writing the replicas. *)

Unresolved(t) == {o \in Ops(t) : state[o] = "PENDING"}

Outstanding(o) == pending[o] \ (ok[o] \cup failed[o])

\* PutToLocalFile of the given operations: the object is queued for the write
\* pool, or its copy to the host fails and the disk replica is revoked at once;
\* that RPC may fail too, which is only logged.
PutToLocalFile(S) ==
  \E copied \in SUBSET S : \E revoked \in SUBSET (S \ copied) :
    /\ disk_tasks' = disk_tasks \cup {[key |-> o[2], stage |-> "store"] : o \in copied}
    /\ RevokeAt("DISK", {o[2] : o \in revoked})
    /\ abandoned' = abandoned \cup {o[2] : o \in (S \ copied) \ revoked}

WithDisk(S) == {o \in S : StorageBackend /\ DiskReplica \in replicas[o]}

\* A slip for mutation checks: the disk replicas are forgotten.
SubmitTransfersNoDisk(t) ==
  LET live == {o \in Unresolved(t) : replicas[o] # {}} IN
  /\ At(t, "submit")
  /\ call[t].api \in {"BatchPut", "BatchUpsert"}
  /\ pending' = [o \in Op |-> IF o \in live THEN replicas[o] \cap Transferable ELSE pending[o]]
  /\ Goto(t, "wait")
  /\ UNCHANGED <<config, masterVars, written, diskVars, state, result, replicas, ok, failed,
                 decisionVars, rpcError>>

\* SubmitTransfers: the disk replica first, then one transfer per memory or NoF
\* replica; a transfer that cannot be submitted is recorded as failed.
SubmitTransfers(t) ==
  LET live == {o \in Unresolved(t) : replicas[o] # {}}
      wanted == UNION {{o} \X (replicas[o] \cap Transferable) : o \in live}
  IN
  /\ At(t, "submit")
  /\ call[t].api \in {"BatchPut", "BatchUpsert"}
  /\ state' = [o \in Op |-> IF o \in Unresolved(t) \ live THEN "MASTER_FAILED" ELSE state[o]]
  /\ PutToLocalFile(WithDisk(live))
  /\ \E submitted \in SUBSET wanted :
       /\ pending' = [o \in Op |-> IF o \in live THEN {r \in replicas[o] : <<o, r>> \in submitted}
                                   ELSE pending[o]]
       /\ failed' = [o \in Op |-> IF o \in live
                                    THEN {r \in replicas[o] : <<o, r>> \in wanted \ submitted}
                                    ELSE failed[o]]
  /\ Goto(t, "wait")
  /\ UNCHANGED <<config, written, result, replicas, ok, decisionVars, rpcError>>

\* BatchPutWhenPreferSameNode: the first replicas on one segment are written by
\* one batched transfer, and disk replicas by none.
SubmitSegments(t) ==
  LET live == Unresolved(t) IN
  /\ At(t, "submit")
  /\ call[t].api = "SameNode"
  /\ \E submitted \in SUBSET {SegOf[o[2]] : o \in live} :
       /\ pending' = [o \in Op |-> IF o \in live /\ SegOf[o[2]] \in submitted
                                     THEN First("MEMORY", 1) ELSE pending[o]]
       /\ failed' = [o \in Op |-> IF o \in live /\ SegOf[o[2]] \notin submitted
                                    THEN First("MEMORY", 1) ELSE failed[o]]
  /\ Goto(t, "wait")
  /\ UNCHANGED <<config, masterVars, written, diskVars, state, result, replicas, ok,
                 decisionVars, rpcError>>

\* Put and Upsert: the disk replica first, then the transfers one by one.
SubmitDisk(t) ==
  /\ At(t, "submit")
  /\ Single(call[t].api)
  /\ PutToLocalFile(WithDisk(Ops(t)))
  /\ Goto(t, "wait")
  /\ UNCHANGED <<config, written, state, result, replicas, transferVars,
                 decisionVars, rpcError>>

\* Slips for mutation checks: a failed transfer is tried again and again; a disk
\* replica is transferred like the others.
TodoRetries(o) == IF Single(call[o[1]].api) THEN (replicas[o] \cap Transferable) \ ok[o] ELSE {}
TodoAnyType(o) == IF Single(call[o[1]].api) THEN replicas[o] \ (ok[o] \cup failed[o]) ELSE {}

\* Put goes on after a failed transfer, Upsert stops and writes memory only.
Todo(o) ==
  CASE call[o[1]].api = "Put" -> (replicas[o] \cap Transferable) \ (ok[o] \cup failed[o])
    [] call[o[1]].api = "Upsert" ->
         IF failed[o] # {} THEN {} ELSE (replicas[o] \cap Memory) \ ok[o]
    [] OTHER -> {}

\* TransferWrite submits the transfer, or fails to, and waits for it.
TransferWrite(t) ==
  /\ At(t, "wait")
  /\ \E o \in Ops(t) :
       /\ Outstanding(o) = {}
       /\ \E r \in Todo(o) :
            \/ pending' = [pending EXCEPT ![o] = @ \cup {r}] /\ UNCHANGED failed
            \/ failed' = [failed EXCEPT ![o] = @ \cup {r}] /\ UNCHANGED pending
  /\ UNCHANGED <<config, masterVars, written, diskVars, call, state, result, replicas, ok,
                 decisionVars, rpcError>>

\* External: transfers end, well or badly.  A batched transfer ends for all the
\* keys on its segment.
TransferEnds(t) ==
  /\ At(t, "wait")
  /\ \E o \in Ops(t) : \E r \in Outstanding(o) :
       LET together == IF call[t].api # "SameNode" THEN {o}
                       ELSE {p \in Ops(t) : SegOf[p[2]] = SegOf[o[2]] /\ r \in Outstanding(p)}
           Add(f) == [p \in Op |-> IF p \in together THEN f[p] \cup {r} ELSE f[p]]
       IN
       \/ /\ ok' = Add(ok)
          /\ written' = [k \in Key |-> IF <<t, k>> \in together THEN written[k] \cup {r}
                                                                 ELSE written[k]]
          /\ UNCHANGED failed
       \/ failed' = Add(failed) /\ UNCHANGED <<ok, written>>
  /\ UNCHANGED <<config, masterVars, diskVars, call, state, result, replicas, pending,
                 decisionVars, rpcError>>

-----------------------------------------------------------------------------
(* Ending or revoking what was started. *)

\* What the calls decide for one operation.  In a batch, a failed operation that
\* holds replicas is revoked.
FinalizePut(o) == Decision(replicas[o], ok[o], failed[o])

FinalizeUpsert(o) == IF failed[o] = {} THEN Commit("MEMORY") ELSE GiveUp("MEMORY")

Resolved(o) == GiveUp(IF replicas[o] = {} THEN "none" ELSE "ALL")

FinalizeBatchPut(o) ==
  IF state[o] # "PENDING" THEN Resolved(o) ELSE Decision(replicas[o], ok[o], failed[o])

\* Every operation that has submitted a transfer is ended.
FinalizeBatchUpsert(o) ==
  CASE state[o] # "PENDING" -> Resolved(o)
    [] state[o] = "PENDING" /\ pending[o] # {} -> Commit("ALL")
    [] state[o] = "PENDING" /\ pending[o] = {} -> GiveUp("none")

DecisionOf(a, o) ==
  CASE a = "Put" -> FinalizePut(o)
    [] a = "Upsert" -> FinalizeUpsert(o)
    [] a \in {"BatchPut", "SameNode"} -> FinalizeBatchPut(o)
    [] a = "BatchUpsert" -> FinalizeBatchUpsert(o)

\* A slip for mutation checks: the transfers are not waited for.
WaitForTransfersSkipped(t) ==
  LET D == [o \in Ops(t) |-> DecisionOf(call[t].api, o)] IN
  /\ At(t, "wait")
  /\ \A o \in Ops(t) : Todo(o) = {}
  /\ endType' = [o \in Op |-> IF o \in Ops(t) THEN D[o].end ELSE endType[o]]
  /\ revokeType' = [o \in Op |-> IF o \in Ops(t) THEN D[o].revoke ELSE revokeType[o]]
  /\ success' = [o \in Op |-> IF o \in Ops(t) THEN D[o].success ELSE success[o]]
  /\ Goto(t, "finalize")
  /\ UNCHANGED <<config, masterVars, written, diskVars, state, result, replicas,
                 transferVars, rpcError>>

\* WaitForTransfers returns when every transfer has ended.
WaitForTransfers(t) ==
  LET D == [o \in Ops(t) |-> DecisionOf(call[t].api, o)] IN
  /\ At(t, "wait")
  /\ \A o \in Ops(t) : Outstanding(o) = {} /\ Todo(o) = {}
  /\ endType' = [o \in Op |-> IF o \in Ops(t) THEN D[o].end ELSE endType[o]]
  /\ revokeType' = [o \in Op |-> IF o \in Ops(t) THEN D[o].revoke ELSE revokeType[o]]
  /\ success' = [o \in Op |-> IF o \in Ops(t) THEN D[o].success ELSE success[o]]
  /\ Goto(t, "finalize")
  /\ UNCHANGED <<config, masterVars, written, diskVars, state, result, replicas,
                 transferVars, rpcError>>

ToEnd(t, ty) == {o \in Ops(t) : endType[o] = ty}
ToRevoke(t, ty) == {o \in Ops(t) : revokeType[o] = ty}
NothingTo(G(_, _), t, types) == \A ty \in types : G(t, ty) = {}

\* The types are ended in the order ALL, MEMORY, NOF_SSD, then revoked in the
\* same order, one RPC for all the operations of a type.
Before(ty) == CASE ty = "ALL" -> {}
                [] ty = "MEMORY" -> {"ALL"}
                [] ty = "NOF_SSD" -> {"ALL", "MEMORY"}

Types == {"ALL", "MEMORY", "NOF_SSD"}

\* The keys at which an RPC took effect, and the operations that saw it fail.
Effective(G, out) == {o[2] : o \in {p \in G : out[p] # "error"}}
FailedIn(G, out) == {o \in G : out[o] # "ok"}

\* Put returns when PutEnd fails, without revoking the other type.
ProcessEndGroup(t, ty) ==
  LET G == ToEnd(t, ty) IN
  /\ At(t, "finalize")
  /\ G # {} /\ NothingTo(ToEnd, t, Before(ty))
  /\ \E out \in [G -> RpcOutcome] :
       /\ EndAt(ty, Effective(G, out))
       /\ rpcError' = [o \in Op |-> rpcError[o] \/ o \in FailedIn(G, out)]
       /\ endType' = [o \in Op |-> IF o \in G THEN "none" ELSE endType[o]]
       /\ revokeType' = [o \in Op |-> IF o \in FailedIn(G, out) /\ call[t].api = "Put"
                                        THEN "none" ELSE revokeType[o]]
  /\ UNCHANGED <<config, written, diskVars, call, state, result, replicas, transferVars, success>>

ProcessRevokeGroup(t, ty) ==
  LET G == ToRevoke(t, ty) IN
  /\ At(t, "finalize")
  /\ NothingTo(ToEnd, t, Types)
  /\ G # {} /\ NothingTo(ToRevoke, t, Before(ty))
  /\ \E out \in [G -> RpcOutcome] :
       /\ RevokeAt(ty, Effective(G, out))
       /\ rpcError' = [o \in Op |-> rpcError[o] \/ o \in FailedIn(G, out)]
       /\ revokeType' = [o \in Op |-> IF o \in G THEN "none" ELSE revokeType[o]]
  /\ UNCHANGED <<config, written, diskVars, call, state, result, replicas, transferVars,
                 endType, success>>

\* A slip for mutation checks: a failed RPC is not reported.
FinalStateIgnoresRpc(o) ==
  IF state[o] # "PENDING" THEN state[o]
  ELSE IF success[o] THEN "SUCCESS" ELSE "TRANSFER_FAILED"

\* The operation succeeds when it was to succeed and no RPC failed.
FinalState(o) ==
  CASE state[o] # "PENDING" -> state[o]
    [] state[o] = "PENDING" /\ ~success[o] -> "TRANSFER_FAILED"
    [] state[o] = "PENDING" /\ success[o] -> IF rpcError[o] THEN "FINALIZE_FAILED" ELSE "SUCCESS"

\* CollectResults: an object that already exists counts as put.
CollectResults(t) ==
  LET Reported(o) == IF FinalState(o) = "SUCCESS" \/ result[o] = "EXISTS" THEN "OK" ELSE "ERROR"
      None1(o) == {}
      False(o) == FALSE
  IN
  /\ At(t, "finalize")
  /\ NothingTo(ToEnd, t, Types) /\ NothingTo(ToRevoke, t, Types)
  /\ result' = Update(result, Ops(t), Reported)
  /\ state' = Update(state, Ops(t), FinalState)
  /\ pending' = Update(pending, Ops(t), None1)
  /\ ok' = Update(ok, Ops(t), None1)
  /\ failed' = Update(failed, Ops(t), None1)
  /\ success' = Update(success, Ops(t), False)
  /\ call' = [call EXCEPT ![t] = Idle]
  /\ UNCHANGED <<config, masterVars, written, diskVars, replicas, endType, revokeType, rpcError>>

-----------------------------------------------------------------------------
(* The write pool stores objects in local files. *)

\* StoreObject fails, or it succeeds and evicts the files of other objects,
\* about which the master is told (and may not hear).
StoreObject(d) ==
  /\ d \in disk_tasks
  /\ d.stage = "store"
  /\ \/ /\ disk_tasks' = (disk_tasks \ {d}) \cup {[key |-> d.key, stage |-> "revoke"]}
        /\ UNCHANGED complete
     \/ /\ disk_tasks' = (disk_tasks \ {d}) \cup {[key |-> d.key, stage |-> "end"]}
        /\ \E evicted \in SUBSET (Key \ {d.key}) :
             complete' = [k \in Key |-> IF k \in evicted THEN complete[k] \ {DiskReplica}
                                                         ELSE complete[k]]
  /\ UNCHANGED <<config, owner, processing, written, abandoned, call, state, result, replicas,
                 transferVars, decisionVars, rpcError>>

\* PutEnd or PutRevoke of the disk replica; a failure is only logged.
FinishDisk(d) ==
  /\ d \in disk_tasks
  /\ d.stage \in {"end", "revoke"}
  /\ disk_tasks' = disk_tasks \ {d}
  /\ \/ /\ IF d.stage = "end" THEN EndAt("DISK", {d.key}) ELSE RevokeAt("DISK", {d.key})
        /\ UNCHANGED abandoned
     \/ abandoned' = abandoned \cup {d.key} /\ UNCHANGED masterVars
  /\ UNCHANGED <<config, written, call, state, result, replicas, transferVars, decisionVars,
                 rpcError>>

-----------------------------------------------------------------------------
ThreadStep(t) ==
  \/ SubmitTransfers(t) \/ SubmitSegments(t) \/ SubmitDisk(t)
  \/ TransferWrite(t) \/ WaitForTransfers(t)
  \/ \E ty \in Types : ProcessEndGroup(t, ty) \/ ProcessRevokeGroup(t, ty)
  \/ CollectResults(t)

PoolStep(k) == \E d \in disk_tasks : d.key = k /\ (StoreObject(d) \/ FinishDisk(d))

Next ==
  \/ \E t \in Thread :
       \/ \E c \in Calls : Start(t, c[2], c[3])
       \/ ThreadStep(t)
       \/ TransferEnds(t)
  \/ \E k \in Key : PoolStep(k) \/ Remove(k)

Spec == Init /\ [][Next]_vars

\* A thread runs on, RPCs are answered or time out, a transfer ends (the client
\* waits for each without a bound), and the write pool works off its queue in order.
Fairness ==
  /\ \A t \in Thread : WF_vars(ThreadStep(t)) /\ WF_vars(TransferEnds(t))
  /\ \A k \in Key : WF_vars(PoolStep(k))

FairSpec == Spec /\ Fairness

-----------------------------------------------------------------------------
(* Properties *)

\* Readers never get a replica that was not written completely: PutEnd and
\* UpsertEnd commit a whole type of replicas, so a write may end a type only if
\* all its replicas of that type were transferred (lines 253-312, 1716-1723).
ReadableIsWritten ==
  \A k \in Key : complete[k] \cap Transferable \subseteq written[k]

\* While a transfer is outstanding its replica still belongs to the operation:
\* the master never takes memory back, nor publishes it, that is being written.
NoWriteAfterRevoke ==
  \A o \in Op : Outstanding(o) # {} =>
    owner[o[2]] = o[1] /\ Outstanding(o) \subseteq processing[o[2]]

\* The last call of a thread on a key started the key's object, and has returned.
Returned(t, k) == At(t, "idle") /\ owner[k] = t /\ replicas[t, k] # {}

\* A call that has returned, and whose RPCs were all answered, leaves no memory
\* or NoF replica behind that is neither committed nor given back.
NothingLeftProcessing ==
  \A t \in Thread, k \in Key :
    Returned(t, k) /\ ~rpcError[t, k] => processing[k] \cap Transferable = {}

\* A result of OK means that the object is readable: in a reliable write every
\* replica that was allocated, in a flexible one at least one.
OkIsReadable ==
  \A t \in Thread, k \in Key :
    Returned(t, k) /\ result[t, k] = "OK" =>
      /\ complete[k] \cap Transferable # {}
      /\ ~Flexible => replicas[t, k] \cap Transferable \subseteq complete[k]

\* A failed call whose RPCs were all answered leaves nothing readable behind.
ErrorLeavesNothing ==
  \A t \in Thread, k \in Key :
    Returned(t, k) /\ result[t, k] = "ERROR" /\ ~rpcError[t, k] =>
      complete[k] \cap Transferable = {}

\* Every call returns.
CallReturns == \A t \in Thread : ~At(t, "idle") ~> At(t, "idle")

\* The disk replica of an object is ended or revoked in the end, unless an RPC
\* about it failed: "the disk putrevoke/putend can be called surely" (line 2087).
DiskSettled ==
  \A k \in Key :
    DiskReplica \in processing[k] ~> (DiskReplica \notin processing[k] \/ k \in abandoned)

-----------------------------------------------------------------------------
(* What the calls promise: the objects as readers and callers see them. *)

\* A committed replica that was not written makes the object torn, which is no
\* state of the abstract store.
ObjectStatus(k) ==
  IF complete[k] \cap Transferable = {}
    THEN IF processing[k] \cap Transferable = {} THEN "absent" ELSE "writing"
    ELSE IF complete[k] \cap Transferable \subseteq written[k] THEN "readable" ELSE "torn"

InCall(o) == ~At(o[1], "idle") /\ o[2] \in call[o[1]].keys

OperationStage(o) ==
  CASE ~InCall(o) -> "idle"
    [] InCall(o) /\ rpcError[o] -> "uncertain"
    [] InCall(o) /\ ~rpcError[o] /\ result[o] = "EXISTS" -> "exists"
    [] OTHER ->
         IF ~At(o[1], "finalize") THEN "open"
         ELSE IF success[o] THEN (IF endType[o] = "none" THEN "published" ELSE "open")
         ELSE (IF revokeType[o] = "none" THEN "withdrawn" ELSE "open")

Store == INSTANCE ObjectStore
  WITH object <- [k \in Key |-> ObjectStatus(k)],
       stage <- [o \in Op |-> OperationStage(o)],
       reply <- [o \in Op |-> IF InCall(o) THEN "none" ELSE result[o]]

\* Put, Upsert, BatchPut and its form on preferred nodes implement the abstract
\* store: with partial allocations, failed transfers and lost answers an object
\* becomes readable only as a whole and in one step, every call finds out about
\* each of its objects before it returns, and OK means published or present
\* (lines 1527-2694).
ImplementsObjectStore == Store!StoreSpec
=============================================================================
