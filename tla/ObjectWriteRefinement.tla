------------------------ MODULE ObjectWriteRefinement ------------------------
(***************************************************************************)
(* The calls of ObjectWrite implement the abstract store of ObjectStore,   *)
(* for any number of threads, keys, calls and replicas.  Without a storage *)
(* backend: an object of which only the disk replica is left exists to the *)
(* master, which refuses to put it again, but nothing of it is readable    *)
(* memory, which is all that the abstract store knows of.                  *)
(***************************************************************************)
EXTENDS ObjectWriteProofs

\* Without a storage backend there are no disk replicas, and the pool is idle.
NoDisk ==
  /\ disk_tasks = {}
  /\ \A k \in Key : processing[k] \subseteq Transferable /\ complete[k] \subseteq Transferable

-----------------------------------------------------------------------------
(* No disk replicas. *)

\* The master allocates none.
LEMMA NoDiskAllocated ==
  ASSUME config \in Config, StorageBackend = FALSE, NEW a, NEW S \in Allocations(a)
  PROVE  S \subseteq Transferable
<1>1. config.mem \in Nat /\ config.nof \in Nat
  BY Zenon, ConfigAssumption
<1>2. PICK m \in (IF a \in {"Upsert", "BatchUpsert"} THEN 1 ELSE 0)..config.mem,
           n \in 0..config.nof, D \in {{}} \cup {d \in {{DiskReplica}} : StorageBackend} :
        S = (First("MEMORY", m) \cup First("NOF_SSD", n)) \cup D
  BY DEF Allocations
<1>3. D = {}
  BY Zenon, <1>2
<1>4. First("MEMORY", m) \subseteq Memory /\ First("NOF_SSD", n) \subseteq Nof
  BY <1>1, <1>2 DEF First, Memory, Nof
<1> HIDE DEF First, Memory, Nof
<1> QED
  BY Zenon, <1>2, <1>3, <1>4 DEF Transferable

\* PutToLocalFile has nothing to do then.
LEMMA NoDiskSubmitted ==
  ASSUME WriteInv, StorageBackend = FALSE, NEW S, PutToLocalFile(WithDisk(S))
  PROVE  UNCHANGED <<owner, processing, complete, disk_tasks, abandoned>>
<1>1. WithDisk(S) = {}
  BY Zenon DEF WithDisk
<1>2. PICK copied \in SUBSET {}, revoked \in SUBSET {} :
        /\ disk_tasks' = disk_tasks \cup {[key |-> o[2], stage |-> "store"] : o \in copied}
        /\ RevokeAt("DISK", {o[2] : o \in revoked})
        /\ abandoned' = abandoned \cup {o[2] : o \in ({} \ copied) \ revoked}
  BY Zenon, <1>1 DEF PutToLocalFile
<1>3. copied = {} /\ revoked = {}
  BY Zenon
<1>4. disk_tasks' = disk_tasks /\ abandoned' = abandoned /\ RevokeAt("DISK", {})
  <2>1. {o[2] : o \in revoked} = {} /\ {o[2] : o \in ({} \ copied) \ revoked} = {}
        /\ {[key |-> o[2], stage |-> "store"] : o \in copied} = {}
    BY Zenon, <1>3
  <2> QED
    BY Zenon, <1>2, <2>1
<1>5. processing \in [Key -> SUBSET Replica]
  BY Zenon DEF WriteInv, WriteTypes, MasterTypes
<1> QED
  BY Zenon, <1>4, <1>5 DEF RevokeAt

\* Every step keeps it so.
LEMMA NoDiskNext ==
  ASSUME WriteInv, Scope, StorageBackend = FALSE, NoDisk, [Next]_vars
  PROVE  NoDisk'
<1>1. ASSUME UNCHANGED <<processing, complete, disk_tasks>> PROVE NoDisk'
  BY Zenon, <1>1 DEF NoDisk
<1>2. ASSUME NEW t \in Thread, NEW c \in Calls, Start(t, c[2], c[3]) PROVE NoDisk'
  <2>1. PICK ans \in [c[3] -> UNION {Answers(c[2], k) : k \in c[3]}] :
          LET started == {k \in c[3] : ans[k].rpc \in {"ok", "lost"}} IN
          /\ \A k \in c[3] : ans[k] \in Answers(c[2], k)
          /\ processing' = [k \in Key |-> IF k \in started THEN ans[k].reps ELSE processing[k]]
          /\ complete' = [k \in Key |-> IF k \in started THEN {} ELSE complete[k]]
    BY Zenon, <1>2 DEF Start
  <2>2. disk_tasks' = disk_tasks
    BY Zenon, <1>2 DEF Start
  <2>3. c \in Thread \X Api \X ((SUBSET Key) \ {{}}) /\ c[2] # "BatchUpsert"
    BY Zenon, CallsAssumption DEF Scope
  <2>4. MasterTypes /\ config \in Config
    BY Zenon DEF WriteInv, WriteTypes, MasterTypes
  <2>5. \A k \in c[3] : ans[k].rpc \in {"ok", "lost"} => ans[k].reps \in Allocations(c[2])
    BY Zenon, <2>1, <2>3, <2>4, AnswerFacts
  <2>6. \A k \in c[3] : ans[k].rpc \in {"ok", "lost"} => ans[k].reps \subseteq Transferable
    BY Zenon, <2>4, <2>5, NoDiskAllocated
  <2> QED
    BY Zenon, <2>1, <2>2, <2>6 DEF NoDisk
<1>3. ASSUME NEW t \in Thread, NEW ty \in Types, ProcessEndGroup(t, ty) PROVE NoDisk'
  <2>1. PICK K : EndAt(ty, K)
    BY Zenon, <1>3 DEF ProcessEndGroup
  <2>2. disk_tasks' = disk_tasks
    BY Zenon, <1>3 DEF ProcessEndGroup, diskVars
  <2>3. \A k \in Key : /\ processing'[k] \subseteq processing[k]
                       /\ complete'[k] \subseteq complete[k] \cup processing[k]
    BY Zenon, <2>1 DEF EndAt
  <2> QED
    BY Zenon, <2>2, <2>3 DEF NoDisk
<1>4. ASSUME NEW t \in Thread, NEW ty \in Types, ProcessRevokeGroup(t, ty) PROVE NoDisk'
  <2>1. PICK K : RevokeAt(ty, K)
    BY Zenon, <1>4 DEF ProcessRevokeGroup
  <2>2. disk_tasks' = disk_tasks
    BY Zenon, <1>4 DEF ProcessRevokeGroup, diskVars
  <2>3. \A k \in Key : processing'[k] \subseteq processing[k] /\ complete' = complete
    BY Zenon, <2>1 DEF RevokeAt
  <2> QED
    BY Zenon, <2>2, <2>3 DEF NoDisk
<1>5. ASSUME NEW t \in Thread, SubmitTransfers(t) \/ SubmitDisk(t) PROVE NoDisk'
  BY Zenon, <1>1, <1>5, NoDiskSubmitted DEF SubmitTransfers, SubmitDisk
<1>6. ASSUME NEW t \in Thread,
             SubmitSegments(t) \/ TransferWrite(t) \/ WaitForTransfers(t) \/ TransferEnds(t)
             \/ CollectResults(t)
      PROVE  NoDisk'
  <2>1. UNCHANGED <<masterVars, diskVars>>
    BY Zenon, <1>6 DEF SubmitSegments, TransferWrite, WaitForTransfers, TransferEnds, CollectResults
  <2> QED
    BY Zenon, <1>1, <2>1 DEF masterVars, diskVars
<1>7. ASSUME NEW k \in Key, Remove(k) PROVE NoDisk'
  <2>1. /\ complete' = [complete EXCEPT ![k] = {}]
        /\ UNCHANGED <<processing, disk_tasks>>
    BY Zenon, <1>7 DEF Remove, diskVars
  <2>2. complete \in [Key -> SUBSET Replica]
    BY Zenon DEF WriteInv, WriteTypes, MasterTypes
  <2>3. \A j \in Key : complete'[j] \subseteq complete[j]
    BY Zenon, <2>1, <2>2
  <2> QED
    BY Zenon, <2>1, <2>3 DEF NoDisk
<1>8. ~\E k \in Key : PoolStep(k)
  BY Zenon DEF PoolStep, NoDisk
<1>9. CASE UNCHANGED vars
  BY Zenon, <1>1, <1>9 DEF vars, masterVars, diskVars
<1> QED
  BY Zenon, <1>2, <1>3, <1>4, <1>5, <1>6, <1>7, <1>8, <1>9 DEF Next, ThreadStep

-----------------------------------------------------------------------------
(* The refinement mapping. *)

\* An object as readers see it.
LEMMA StatusFacts ==
  ASSUME ReadableIsWritten, NEW k \in Key
  PROVE  /\ ObjectStatus(k) \in {"absent", "writing", "readable"}
         /\ ObjectStatus(k) = "readable" <=> Readable(k) # {}
         /\ ObjectStatus(k) = "writing" <=> Readable(k) = {} /\ Busy(k) # {}
         /\ ObjectStatus(k) = "absent" <=> Readable(k) = {} /\ Busy(k) = {}
BY Zenon DEF ObjectStatus, ReadableIsWritten, Readable, Busy

\* The same, after a step.
LEMMA StatusNext ==
  ASSUME ReadableIsWritten', NEW k \in Key
  PROVE  /\ ObjectStatus(k)' \in {"absent", "writing", "readable"}
         /\ ObjectStatus(k)' = "readable" <=> Readable(k)' # {}
         /\ ObjectStatus(k)' = "writing" <=> Readable(k)' = {} /\ Busy(k)' # {}
         /\ ObjectStatus(k)' = "absent" <=> Readable(k)' = {} /\ Busy(k)' = {}
BY Zenon DEF ObjectStatus, ReadableIsWritten, Readable, Busy

\* It looks the same while its replicas are the same.
LEMMA StatusSame ==
  ASSUME ReadableIsWritten, ReadableIsWritten', NEW k \in Key,
         Busy(k)' = Busy(k), Readable(k)' = Readable(k)
  PROVE  ObjectStatus(k)' = ObjectStatus(k)
BY Zenon DEF ObjectStatus, ReadableIsWritten, Readable, Busy

\* How far an operation has got.
LEMMA StageFacts ==
  ASSUME OpTypes, NEW o \in Op
  PROVE  /\ ~InCall(o) => OperationStage(o) = "idle"
         /\ InCall(o) /\ rpcError[o] => OperationStage(o) = "uncertain"
         /\ InCall(o) /\ ~rpcError[o] /\ result[o] = "EXISTS" => OperationStage(o) = "exists"
         /\ InCall(o) /\ ~rpcError[o] /\ result[o] # "EXISTS" =>
              /\ ~Stage(o, "finalize") => OperationStage(o) = "open"
              /\ Stage(o, "finalize") /\ success[o] =>
                   OperationStage(o) = IF endType[o] = "none" THEN "published" ELSE "open"
              /\ Stage(o, "finalize") /\ ~success[o] =>
                   OperationStage(o) = IF revokeType[o] = "none" THEN "withdrawn" ELSE "open"
<1>1. InCall(o) => (Stage(o, "finalize") <=> At(o[1], "finalize"))
  BY Zenon DEF InCall, Stage
<1>2. CASE ~InCall(o)
  BY Zenon, <1>2 DEF OperationStage
<1>3. CASE InCall(o) /\ rpcError[o]
  BY Zenon, <1>3 DEF OperationStage
<1>4. CASE InCall(o) /\ ~rpcError[o] /\ result[o] = "EXISTS"
  BY Zenon, <1>4 DEF OperationStage
<1>5. CASE InCall(o) /\ ~rpcError[o] /\ result[o] # "EXISTS"
  <2>1. OperationStage(o) =
          IF ~At(o[1], "finalize") THEN "open"
          ELSE IF success[o] THEN (IF endType[o] = "none" THEN "published" ELSE "open")
          ELSE (IF revokeType[o] = "none" THEN "withdrawn" ELSE "open")
    BY Zenon, <1>5 DEF OperationStage
  <2> QED
    BY Zenon, <1>1, <1>5, <2>1
<1> QED
  BY Zenon, <1>2, <1>3, <1>4, <1>5

\* The same, after a step.
LEMMA StageNext ==
  ASSUME OpTypes', NEW o \in Op
  PROVE  /\ ~InCall(o)' => OperationStage(o)' = "idle"
         /\ InCall(o)' /\ rpcError'[o] => OperationStage(o)' = "uncertain"
         /\ InCall(o)' /\ ~rpcError'[o] /\ result'[o] = "EXISTS" => OperationStage(o)' = "exists"
         /\ InCall(o)' /\ ~rpcError'[o] /\ result'[o] # "EXISTS" =>
              /\ ~Stage(o, "finalize")' => OperationStage(o)' = "open"
              /\ Stage(o, "finalize")' /\ success'[o] =>
                   OperationStage(o)' = IF endType'[o] = "none" THEN "published" ELSE "open"
              /\ Stage(o, "finalize")' /\ ~success'[o] =>
                   OperationStage(o)' = IF revokeType'[o] = "none" THEN "withdrawn" ELSE "open"
<1>1. InCall(o)' => (Stage(o, "finalize")' <=> At(o[1], "finalize")')
  BY Zenon DEF InCall, Stage
<1>2. CASE ~InCall(o)'
  BY Zenon, <1>2 DEF OperationStage
<1>3. CASE InCall(o)' /\ rpcError'[o]
  BY Zenon, <1>3 DEF OperationStage
<1>4. CASE InCall(o)' /\ ~rpcError'[o] /\ result'[o] = "EXISTS"
  BY Zenon, <1>4 DEF OperationStage
<1>5. CASE InCall(o)' /\ ~rpcError'[o] /\ result'[o] # "EXISTS"
  <2>1. OperationStage(o)' =
          IF ~At(o[1], "finalize")' THEN "open"
          ELSE IF success'[o] THEN (IF endType'[o] = "none" THEN "published" ELSE "open")
          ELSE (IF revokeType'[o] = "none" THEN "withdrawn" ELSE "open")
    BY Zenon, <1>5 DEF OperationStage
  <2> QED
    BY Zenon, <1>1, <1>5, <2>1
<1> QED
  BY Zenon, <1>2, <1>3, <1>4, <1>5

\* It is idle only outside a call.
LEMMA StageIdle ==
  ASSUME OpTypes, NEW o \in Op
  PROVE  OperationStage(o) = "idle" <=> ~InCall(o)
<1>1. rpcError[o] \in BOOLEAN /\ success[o] \in BOOLEAN
  BY Zenon DEF OpTypes
<1> QED
  BY Zenon, <1>1, StageFacts

\* An operation that is left alone looks the same.
LEMMA StageSame ==
  ASSUME NEW o \in Op, SameStage(o),
         UNCHANGED <<result[o], endType[o], revokeType[o], success[o], rpcError[o]>>
  PROVE  /\ OperationStage(o)' = OperationStage(o)
         /\ InCall(o)' = InCall(o) /\ result'[o] = result[o]
<1>1. /\ InCall(o) <=> InCall(o)'
      /\ UNCHANGED <<result[o], endType[o], revokeType[o], success[o], rpcError[o]>>
  BY Zenon DEF SameStage
<1>2. InCall(o) => (At(o[1], "finalize")' <=> At(o[1], "finalize"))
  BY Zenon DEF SameStage, InCall, Stage
<1>3. ASSUME ~InCall(o) PROVE OperationStage(o)' = OperationStage(o)
  <2>1. OperationStage(o) = "idle"
    BY Zenon, <1>3 DEF OperationStage
  <2>2. OperationStage(o)' = "idle"
    BY Zenon, <1>1, <1>3 DEF OperationStage
  <2> QED
    BY Zenon, <2>1, <2>2
<1>4. ASSUME InCall(o) PROVE OperationStage(o)' = OperationStage(o)
  BY Zenon, <1>1, <1>2, <1>4 DEF OperationStage
<1>5. InCall(o)' = InCall(o)
  BY Zenon, <1>1 DEF InCall
<1> QED
  BY Zenon, <1>1, <1>3, <1>4, <1>5

\* The three variables of the abstract store.
Objects == [k \in Key |-> ObjectStatus(k)]
Stages == [o \in Op |-> OperationStage(o)]
Replies == [o \in Op |-> IF InCall(o) THEN "none" ELSE result[o]]

\* A step that changes none of them is a stutter.
LEMMA Stutter ==
  ASSUME \A k \in Key : ObjectStatus(k)' = ObjectStatus(k),
         \A o \in Op : OperationStage(o)' = OperationStage(o),
         \A o \in Op : InCall(o)' = InCall(o) /\ result'[o] = result[o]
  PROVE  UNCHANGED Store!storeVars
<1>1. Objects' = Objects
  BY Zenon DEF Objects
<1>2. Stages' = Stages
  BY Zenon DEF Stages
<1>3. Replies' = Replies
  BY Zenon DEF Replies
<1> QED
  BY Zenon, <1>1, <1>2, <1>3 DEF Store!storeVars, Objects, Stages, Replies

\* A step that decides the fate of some objects of a call.
LEMMA SettleStep ==
  ASSUME NEW t \in Thread, NEW K \in SUBSET Key,
         \A k \in K : /\ OperationStage(<<t, k>>) # "idle"
                      /\ \/ /\ OperationStage(<<t, k>>) = "open" /\ ObjectStatus(k) = "writing"
                            /\ <<OperationStage(<<t, k>>)', ObjectStatus(k)'>> \in Store!Fate
                         \/ /\ OperationStage(<<t, k>>) = "published"
                            /\ OperationStage(<<t, k>>)' = "uncertain"
                            /\ ObjectStatus(k)' = ObjectStatus(k)
                            /\ ObjectStatus(k) \in {"absent", "writing", "readable"},
         \A k \in Key : k \notin K => ObjectStatus(k)' = ObjectStatus(k),
         \A o \in Op : ~(o[1] = t /\ o[2] \in K) => OperationStage(o)' = OperationStage(o),
         \A o \in Op : InCall(o)' = InCall(o) /\ result'[o] = result[o]
  PROVE  Store!Settle(t)
<1> DEFINE fate == [k \in K |-> <<OperationStage(<<t, k>>)', ObjectStatus(k)'>>]
<1>1. \A k \in K : <<t, k>> \in Op /\ k \in Key
  BY Zenon DEF Op
<1>2. K \in SUBSET Store!Busy(t)
  BY Zenon, <1>1 DEF Store!Busy
<1>3. \A k \in K : fate[k] \in Store!Fate /\ fate[k][1] = OperationStage(<<t, k>>)'
                   /\ fate[k][2] = ObjectStatus(k)'
  BY Zenon DEF Store!Fate, Store!Status
<1>4. fate \in [K -> Store!Fate]
  BY Zenon, <1>3
<1>5. \A k \in K : \/ Stages[<<t, k>>] = "open" /\ Objects[k] = "writing"
                   \/ Stages[<<t, k>>] = "published" /\ fate[k] = <<"uncertain", Objects[k]>>
  BY Zenon, <1>1 DEF Stages, Objects
<1>6. Objects' = [k \in Key |-> IF k \in K THEN fate[k][2] ELSE Objects[k]]
  BY Zenon, <1>3 DEF Objects
<1>7. Stages' = Store!With(Stages, t, K, [k \in K |-> fate[k][1]])
  <2> HIDE DEF fate
  <2>1. Stages' = [o \in Op |-> OperationStage(o)']
    BY Zenon DEF Stages
  <2>2. \A o \in Op : OperationStage(o)' =
          IF o[1] = t /\ o[2] \in K THEN [k \in K |-> fate[k][1]][o[2]] ELSE Stages[o]
    <3> TAKE o \in Op
    <3>1. CASE o[1] = t /\ o[2] \in K
      <4>1. o = <<t, o[2]>>
        BY <3>1 DEF Op
      <4> QED
        BY Zenon, <1>3, <3>1, <4>1
    <3>2. CASE ~(o[1] = t /\ o[2] \in K)
      BY Zenon, <3>2 DEF Stages
    <3> QED
      BY Zenon, <3>1, <3>2
  <2> QED
    BY Zenon, <2>1, <2>2 DEF Store!With, Op
<1>8. Replies' = Replies
  BY Zenon DEF Replies
<1> HIDE DEF fate
<1> QED
  BY Zenon, <1>2, <1>4, <1>5, <1>6, <1>7, <1>8 DEF Store!Settle, Objects, Stages, Replies

-----------------------------------------------------------------------------
(* Steps that the abstract store does not see. *)

\* An operation of which nothing is decided yet, or to be carried out.
LEMMA Undecided ==
  ASSUME NEW o \in Op, OpTypes, OpTypes', InCall(o), InCall(o)', ~Stage(o, "finalize"),
         UNCHANGED <<result[o], rpcError[o]>>,
         \/ rpcError[o] \/ result[o] = "EXISTS"
         \/ ~Stage(o, "finalize")'
         \/ success'[o] /\ endType'[o] # "none"
         \/ ~success'[o] /\ revokeType'[o] # "none"
  PROVE  /\ OperationStage(o)' = OperationStage(o)
         /\ InCall(o)' = InCall(o) /\ result'[o] = result[o]
<1>1. InCall(o)' = InCall(o) /\ result'[o] = result[o]
  BY Zenon DEF InCall
<1>2. rpcError[o] \in BOOLEAN /\ success'[o] \in BOOLEAN
  BY Zenon DEF OpTypes
<1>3. CASE rpcError[o]
  <2>1. OperationStage(o) = "uncertain"
    BY Zenon, <1>3, StageFacts
  <2>2. rpcError'[o]
    BY Zenon, <1>3
  <2>3. OperationStage(o)' = "uncertain"
    BY Zenon, <2>2, StageNext
  <2> QED
    BY Zenon, <1>1, <2>1, <2>3
<1>4. CASE ~rpcError[o] /\ result[o] = "EXISTS"
  <2>1. OperationStage(o) = "exists"
    BY Zenon, <1>4, StageFacts
  <2>2. OperationStage(o)' = "exists"
    BY Zenon, <1>1, <1>4, StageNext
  <2> QED
    BY Zenon, <1>1, <2>1, <2>2
<1>5. CASE ~rpcError[o] /\ result[o] # "EXISTS"
  <2>1. OperationStage(o) = "open"
    BY Zenon, <1>5, StageFacts
  <2>2. OperationStage(o)' = "open"
    BY Zenon, <1>2, <1>5, StageNext
  <2> QED
    BY Zenon, <1>1, <2>1, <2>2
<1> QED
  BY Zenon, <1>2, <1>3, <1>4, <1>5

\* Transfers are submitted.
LEMMA SubmitMaps ==
  ASSUME WriteInv, WriteInv', NEW t \in Thread, At(t, "submit"), Goto(t, "wait"),
         UNCHANGED <<config, processing, complete, result, decisionVars, rpcError>>
  PROVE  UNCHANGED Store!storeVars
<1>1. ~At(t, "idle")
  BY Zenon DEF At
<1>2. OpTypes /\ OpTypes' /\ ReadableIsWritten /\ ReadableIsWritten'
  BY Zenon DEF WriteInv, WriteTypes
<1>3. ASSUME NEW k \in Key PROVE ObjectStatus(k)' = ObjectStatus(k)
  BY Zenon, <1>2, StatusSame DEF Busy, Readable
<1>4. ASSUME NEW o \in Op
      PROVE  /\ OperationStage(o)' = OperationStage(o)
             /\ InCall(o)' = InCall(o) /\ result'[o] = result[o]
  <2>1. UNCHANGED <<result[o], endType[o], revokeType[o], success[o], rpcError[o]>>
    BY Zenon DEF decisionVars
  <2>2. CASE o \in Ops(t)
    <3>1. InCall(o) /\ InCall(o)' /\ Stage(o, "wait")' /\ \A p : p # "wait" => ~Stage(o, p)'
      BY Zenon, <1>1, <2>2, GotoFacts
    <3>2. ~Stage(o, "finalize") /\ ~Stage(o, "finalize")'
      BY Zenon, <2>2, <3>1 DEF Stage, At, Ops
    <3> QED
      BY Zenon, <1>2, <2>1, <3>1, <3>2, Undecided
  <2>3. CASE o \notin Ops(t)
    <3>1. SameStage(o)
      BY Zenon, <1>1, <2>3, GotoFacts
    <3> QED
      BY Zenon, <2>1, <3>1, StageSame
  <2> QED
    BY Zenon, <2>2, <2>3
<1> QED
  BY Zenon, <1>3, <1>4, Stutter

\* Transfers go on and end.
LEMMA TransferMaps ==
  ASSUME WriteInv, WriteInv',
         UNCHANGED <<processing, complete, call, result, decisionVars, rpcError>>
  PROVE  UNCHANGED Store!storeVars
<1>1. ReadableIsWritten /\ ReadableIsWritten'
  BY Zenon DEF WriteInv
<1>2. ASSUME NEW k \in Key PROVE ObjectStatus(k)' = ObjectStatus(k)
  BY Zenon, <1>1, StatusSame DEF Busy, Readable
<1>3. ASSUME NEW o \in Op
      PROVE  /\ OperationStage(o)' = OperationStage(o)
             /\ InCall(o)' = InCall(o) /\ result'[o] = result[o]
  <2>1. UNCHANGED <<result[o], endType[o], revokeType[o], success[o], rpcError[o]>>
    BY Zenon DEF decisionVars
  <2>2. SameStage(o)
    BY Zenon DEF SameStage, InCall, Stage, At
  <2> QED
    BY Zenon, <2>1, <2>2, StageSame
<1> QED
  BY Zenon, <1>2, <1>3, Stutter

\* The calls have decided, and are still to carry it out.
LEMMA WaitForTransfersMaps ==
  ASSUME WriteInv, WriteInv', NEW t \in Thread, WaitForTransfers(t)
  PROVE  UNCHANGED Store!storeVars
<1> DEFINE D == [o \in Ops(t) |-> DecisionOf(call[t].api, o)]
<1>1. /\ At(t, "wait") /\ ~At(t, "idle") /\ Goto(t, "finalize")
      /\ \A o \in Ops(t) : Todo(o) = {}
      /\ endType' = [o \in Op |-> IF o \in Ops(t) THEN D[o].end ELSE endType[o]]
      /\ revokeType' = [o \in Op |-> IF o \in Ops(t) THEN D[o].revoke ELSE revokeType[o]]
      /\ success' = [o \in Op |-> IF o \in Ops(t) THEN D[o].success ELSE success[o]]
      /\ UNCHANGED <<config, processing, complete, result, rpcError>>
  BY Zenon DEF WaitForTransfers, At, masterVars
<1>2. OpTypes /\ OpTypes' /\ ReadableIsWritten /\ ReadableIsWritten'
  BY Zenon DEF WriteInv, WriteTypes
<1>3. ASSUME NEW k \in Key PROVE ObjectStatus(k)' = ObjectStatus(k)
  BY Zenon, <1>1, <1>2, StatusSame DEF Busy, Readable
<1>4. /\ \A o \in Op : o \notin Ops(t) => SameStage(o)
      /\ \A o \in Ops(t) : o \in Op /\ OpInv(o) /\ InCall(o) /\ InCall(o)' /\ o[1] = t
  BY Zenon, <1>1, GotoFacts
<1>5. /\ call[t].api \in Api /\ call[t].api # "BatchUpsert"
      /\ call[t].api = "Upsert" => config.nof = 0
  BY Zenon, <1>1, OpsOfCall DEF WriteInv, CallIsAccepted, Call
<1>6. \A o \in Ops(t) : SoundDecision(o, D[o])
  BY Zenon, <1>1, <1>4, <1>5, DecisionOfSound DEF OpInv
<1> HIDE DEF D
<1>7. ASSUME NEW o \in Op
      PROVE  /\ OperationStage(o)' = OperationStage(o)
             /\ InCall(o)' = InCall(o) /\ result'[o] = result[o]
  <2>1. CASE o \in Ops(t)
    <3>1. InCall(o) /\ InCall(o)' /\ OpInv(o) /\ SoundDecision(o, D[o])
      BY Zenon, <1>4, <1>6, <2>1
    <3>2. ~Stage(o, "finalize")
      BY Zenon, <1>1, <1>4, <2>1 DEF Stage, At
    <3>3. endType'[o] = D[o].end /\ revokeType'[o] = D[o].revoke /\ success'[o] = D[o].success
      BY Zenon, <1>1, <2>1
    <3>4. replicas[o] = {} => rpcError[o] \/ result[o] = "EXISTS"
      BY Zenon, <3>1 DEF OpInv, Running
    <3>5. \/ rpcError[o] \/ result[o] = "EXISTS"
          \/ success'[o] /\ endType'[o] # "none"
          \/ ~success'[o] /\ revokeType'[o] # "none"
      BY Zenon, <3>1, <3>3, <3>4 DEF SoundDecision
    <3>6. UNCHANGED <<result[o], rpcError[o]>>
      BY Zenon, <1>1
    <3> QED
      BY Zenon, <1>2, <3>1, <3>2, <3>5, <3>6, Undecided
  <2>2. CASE o \notin Ops(t)
    <3>1. SameStage(o)
      BY Zenon, <1>4, <2>2
    <3>2. UNCHANGED <<result[o], endType[o], revokeType[o], success[o], rpcError[o]>>
      BY Zenon, <1>1, <2>2
    <3> QED
      BY Zenon, <3>1, <3>2, StageSame
  <2> QED
    BY Zenon, <2>1, <2>2
<1> QED
  BY Zenon, <1>3, <1>7, Stutter

-----------------------------------------------------------------------------
(* Objects are settled. *)

\* An operation that still holds its replicas: its object is being written.
LEMMA HeldIsOpen ==
  ASSUME WriteInv, NEW o \in Op, o[2] \in Key, Stage(o, "finalize"), Held(o), replicas[o] # {},
         success[o] => endType[o] # "none", ~success[o] => revokeType[o] # "none"
  PROVE  OperationStage(o) = "open" /\ ObjectStatus(o[2]) = "writing"
<1>1. InCall(o) /\ OpInv(o) /\ OpTypes /\ ReadableIsWritten
  BY Zenon DEF Stage, InCall, At, WriteInv, WriteTypes
<1>2. ~rpcError[o] /\ Readable(o[2]) = {} /\ Busy(o[2]) # {}
  BY Zenon, <1>1 DEF Held, OpInv, Allocated
<1>3. result[o] # "EXISTS"
  BY Zenon, <1>1 DEF OpInv, Running
<1>4. success[o] \in BOOLEAN
  BY Zenon, <1>1 DEF OpTypes
<1> QED
  BY Zenon, <1>1, <1>2, <1>3, <1>4, StageFacts, StatusFacts

\* The fates of the abstract store.
LEMMA FateFacts ==
  ASSUME NEW s, NEW x \in {"absent", "writing", "readable"},
         \/ s = "uncertain"
         \/ s = "published" /\ x = "readable"
         \/ s = "withdrawn" /\ x = "absent"
  PROVE  <<s, x>> \in Store!Fate
BY Zenon DEF Store!Fate, Store!Status

\* Operations are ended: their objects are published, or it is not known.
LEMMA ProcessEndGroupMaps ==
  ASSUME WriteInv, WriteInv', NEW t \in Thread, NEW ty \in Types, ProcessEndGroup(t, ty)
  PROVE  Store!Settle(t)
<1> DEFINE G == ToEnd(t, ty)
<1>1. PICK out \in [G -> RpcOutcome] :
        /\ EndAt(ty, Effective(G, out))
        /\ rpcError' = [o \in Op |-> rpcError[o] \/ o \in FailedIn(G, out)]
        /\ endType' = [o \in Op |-> IF o \in G THEN "none" ELSE endType[o]]
        /\ revokeType' = [o \in Op |-> IF o \in FailedIn(G, out) /\ call[t].api = "Put"
                                         THEN "none" ELSE revokeType[o]]
  BY Zenon DEF ProcessEndGroup
<1>2. /\ At(t, "finalize") /\ ~At(t, "idle")
      /\ UNCHANGED <<call, result, success, replicas>>
  BY Zenon DEF ProcessEndGroup, At
<1>3. G \in SUBSET Ops(t) /\ \A o \in G : endType[o] = ty
  BY Zenon DEF ToEnd
<1> HIDE DEF G
<1>4. out \in [G -> RpcOutcome]
  BY Zenon, <1>1
<1>5. /\ Effective(G, out) \in SUBSET Key
      /\ \A k \in Effective(G, out) : \E p \in G : p[2] = k
      /\ FailedIn(G, out) \subseteq G
  BY Zenon, <1>2, <1>3, <1>4, EffectiveFacts
<1>6. \A o \in G : /\ o \in Op /\ o[1] = t /\ o[2] \in Key /\ o = <<t, o[2]>> /\ OpInv(o)
                   /\ InCall(o) /\ Stage(o, "finalize")
  BY Zenon, <1>2, <1>3, OpsOfCall DEF Stage
<1>7. /\ OpTypes /\ OpTypes' /\ ReadableIsWritten /\ ReadableIsWritten'
      /\ MasterTypes /\ \A o \in Op : OpInv(o)'
  BY Zenon DEF WriteInv, WriteTypes
<1>8. \A k \in Key : k \notin Effective(G, out) => Busy(k)' = Busy(k) /\ Readable(k)' = Readable(k)
  BY Zenon, <1>1, <1>5, <1>7, EndAtFacts
<1> DEFINE K == {k \in Key : <<t, k>> \in G}
<1>9. \A k \in Key : k \notin K => ObjectStatus(k)' = ObjectStatus(k)
  <2> TAKE k \in Key
  <2> HAVE k \notin K
  <2>1. k \notin Effective(G, out)
    BY Zenon, <1>5, <1>6
  <2> QED
    BY Zenon, <1>7, <1>8, <2>1, StatusSame
<1>10. \A o \in Op : SameStage(o)
  BY Zenon, <1>2 DEF SameStage, InCall, Stage, At
<1>11. ASSUME NEW o \in Op, ~(o[1] = t /\ o[2] \in K)
       PROVE  OperationStage(o)' = OperationStage(o)
  <2>1. o \notin G
    BY Zenon, <1>6, <1>11
  <2>2. rpcError[o] \in BOOLEAN
    BY Zenon, <1>7 DEF OpTypes
  <2>3. o \notin FailedIn(G, out)
    BY Zenon, <1>5, <2>1
  <2>4. UNCHANGED <<endType[o], revokeType[o], rpcError[o]>>
    BY Zenon, <1>1, <2>1, <2>2, <2>3
  <2>5. UNCHANGED <<result[o], success[o]>>
    BY Zenon, <1>2
  <2> QED
    BY Zenon, <1>10, <2>4, <2>5, StageSame
<1>12. \A o \in Op : InCall(o)' = InCall(o) /\ result'[o] = result[o]
  BY Zenon, <1>2 DEF InCall, At
<1>13. ASSUME NEW k \in K
       PROVE  /\ OperationStage(<<t, k>>) = "open" /\ ObjectStatus(k) = "writing"
              /\ <<OperationStage(<<t, k>>)', ObjectStatus(k)'>> \in Store!Fate
  <2> DEFINE o == <<t, k>>
  <2>1. /\ o \in G /\ o \in Op /\ o[2] = k /\ k \in Key /\ o[1] = t /\ OpInv(o) /\ InCall(o)
        /\ Stage(o, "finalize") /\ endType[o] # "none"
    BY Zenon, <1>3, <1>6 DEF Types
  <2> HIDE DEF o
  <2>2. /\ Held(o) /\ success[o] /\ replicas[o] # {}
    BY Zenon, <2>1 DEF OpInv, Ending, Running
  <2>3. OperationStage(o) = "open" /\ ObjectStatus(k) = "writing"
    BY Zenon, <2>1, <2>2, HeldIsOpen
  <2>4. /\ InCall(o)' /\ Stage(o, "finalize")' /\ endType'[o] = "none" /\ success'[o] = success[o]
        /\ result'[o] # "EXISTS" /\ owner'[o[2]] = o[1]
    <3>1. result[o] # "EXISTS"
      BY Zenon, <2>1, <2>2 DEF OpInv, Running
    <3>2. owner' = owner
      BY Zenon, <1>1 DEF EndAt
    <3> QED
      BY Zenon, <1>1, <1>2, <1>10, <2>1, <2>2, <3>1, <3>2 DEF SameStage, Held
  <2>5. rpcError'[o] \in BOOLEAN
    BY Zenon, <1>7, <2>1 DEF OpTypes
  <2>6. CASE rpcError'[o]
    <3>1. OperationStage(o)' = "uncertain"
      BY Zenon, <1>7, <2>1, <2>4, <2>6, StageNext
    <3> QED
      BY Zenon, <1>7, <2>1, <2>3, <3>1, StatusNext, FateFacts DEF o
  <2>7. CASE ~rpcError'[o]
    <3>1. OperationStage(o)' = "published"
      BY Zenon, <1>7, <2>1, <2>2, <2>4, <2>7, StageNext
    <3>2. Readable(o[2])' # {}
      BY Zenon, <1>7, <2>1, <2>2, <2>4, <2>7 DEF OpInv, Ended
    <3>3. ObjectStatus(k)' = "readable"
      BY Zenon, <1>7, <2>1, <3>2, StatusNext
    <3> QED
      BY Zenon, <2>3, <3>1, <3>3, FateFacts DEF o
  <2> QED
    BY Zenon, <2>5, <2>6, <2>7
<1> HIDE DEF K
<1>14. K \in SUBSET Key
  BY Zenon DEF K
<1> QED
  BY Zenon, <1>9, <1>11, <1>12, <1>13, <1>14, SettleStep

\* Operations are revoked: their objects are withdrawn, or it is not known.  The
\* other side of a flexible write stays published.
LEMMA ProcessRevokeGroupMaps ==
  ASSUME WriteInv, WriteInv', NEW t \in Thread, NEW ty \in Types, ProcessRevokeGroup(t, ty)
  PROVE  Store!Settle(t)
<1> DEFINE G == ToRevoke(t, ty)
<1>1. PICK out \in [G -> RpcOutcome] :
        /\ RevokeAt(ty, Effective(G, out))
        /\ rpcError' = [o \in Op |-> rpcError[o] \/ o \in FailedIn(G, out)]
        /\ revokeType' = [o \in Op |-> IF o \in G THEN "none" ELSE revokeType[o]]
  BY Zenon DEF ProcessRevokeGroup
<1>2. /\ At(t, "finalize") /\ ~At(t, "idle") /\ NothingTo(ToEnd, t, Types)
      /\ UNCHANGED <<call, result, success, replicas, endType>>
  BY Zenon DEF ProcessRevokeGroup, At
<1>3. G \in SUBSET Ops(t) /\ \A o \in G : revokeType[o] = ty
  BY Zenon DEF ToRevoke
<1> HIDE DEF G
<1>4. out \in [G -> RpcOutcome]
  BY Zenon, <1>1
<1>5. /\ Effective(G, out) \in SUBSET Key
      /\ \A k \in Effective(G, out) : \E p \in G : p[2] = k
      /\ FailedIn(G, out) \subseteq G
  BY Zenon, <1>2, <1>3, <1>4, EffectiveFacts
<1>6. \A o \in G : /\ o \in Op /\ o[1] = t /\ o[2] \in Key /\ o = <<t, o[2]>> /\ OpInv(o)
                   /\ InCall(o) /\ Stage(o, "finalize")
  BY Zenon, <1>2, <1>3, OpsOfCall DEF Stage
<1>7. /\ OpTypes /\ OpTypes' /\ ReadableIsWritten /\ ReadableIsWritten'
      /\ MasterTypes /\ \A o \in Op : OpInv(o)'
  BY Zenon DEF WriteInv, WriteTypes
<1>8. /\ \A k \in Key : k \notin Effective(G, out) => Busy(k)' = Busy(k)
      /\ \A k \in Key : Readable(k)' = Readable(k)
      /\ \A k \in Effective(G, out) : Busy(k)' = Busy(k) \ OfType(ty)
      /\ owner' = owner
  BY Zenon, <1>1, <1>5, <1>7, RevokeAtFacts
<1>9. \A o \in G : endType[o] = "none"
  <2>1. \A o \in Op : endType[o] \in Types \cup {"none"}
    BY Zenon, <1>7 DEF OpTypes, ReplicaType, Types
  <2> QED
    BY Zenon, <1>2, <1>3, <1>6, <2>1 DEF NothingTo, ToEnd
<1>10. \A o \in Op : SameStage(o)
  BY Zenon, <1>2 DEF SameStage, InCall, Stage, At
<1>11. \A o \in Op : InCall(o)' = InCall(o) /\ result'[o] = result[o]
  BY Zenon, <1>2 DEF InCall, At
<1> DEFINE K == {k \in Key : /\ <<t, k>> \in G
                             /\ ~success[<<t, k>>] \/ (~rpcError[<<t, k>>] /\ rpcError'[<<t, k>>])}
<1>12. ASSUME NEW o \in G, success[o]
       PROVE  /\ ObjectStatus(o[2])' = ObjectStatus(o[2])
              /\ rpcError[o] => OperationStage(o) = "uncertain" /\ OperationStage(o)' = "uncertain"
              /\ ~rpcError[o] => /\ OperationStage(o) = "published"
                                 /\ ~rpcError'[o] => OperationStage(o)' = "published"
                                 /\ rpcError'[o] => OperationStage(o)' = "uncertain"
  <2>1. o \in Op /\ o[2] \in Key /\ OpInv(o) /\ InCall(o) /\ Stage(o, "finalize")
        /\ endType[o] = "none" /\ revokeType[o] = ty /\ ty # "none"
    BY Zenon, <1>3, <1>6, <1>9 DEF Types
  <2>2. /\ owner[o[2]] = o[1]
        /\ ~rpcError[o] => Readable(o[2]) # {}
        /\ (Busy(o[2]) \ OfType(ty)) \cup Readable(o[2]) # {}
    BY Zenon, <1>12, <2>1 DEF OpInv, Ended
  <2>3. replicas[o] # {} /\ result[o] # "EXISTS"
    BY Zenon, <2>1 DEF OpInv, Running
  <2>4. /\ InCall(o)' /\ Stage(o, "finalize")' /\ endType'[o] = "none" /\ success'[o]
        /\ result'[o] # "EXISTS"
    BY Zenon, <1>2, <1>10, <1>12, <2>1, <2>3 DEF SameStage
  <2>5. rpcError[o] => rpcError'[o]
    BY Zenon, <1>1, <2>1
  <2>6. Readable(o[2])' = Readable(o[2])
    BY Zenon, <1>8, <2>1
  <2>7. ObjectStatus(o[2])' = ObjectStatus(o[2])
    <3>1. CASE Readable(o[2]) # {}
      BY Zenon, <1>7, <2>1, <2>6, <3>1, StatusFacts, StatusNext
    <3>2. CASE Readable(o[2]) = {}
      <4>1. Busy(o[2]) # {} /\ Busy(o[2])' # {}
        BY Zenon, <1>8, <2>1, <2>2, <3>2
      <4> QED
        BY Zenon, <1>7, <2>1, <2>6, <3>2, <4>1, StatusFacts, StatusNext
    <3> QED
      BY Zenon, <3>1, <3>2
  <2>8. rpcError[o] => OperationStage(o) = "uncertain"
    BY Zenon, <1>7, <2>1, StageFacts
  <2>9. rpcError'[o] => OperationStage(o)' = "uncertain"
    BY Zenon, <1>7, <2>1, <2>4, StageNext
  <2>10. ~rpcError[o] => OperationStage(o) = "published"
    BY Zenon, <1>7, <1>12, <2>1, <2>3, StageFacts
  <2>11. ~rpcError'[o] => OperationStage(o)' = "published"
    BY Zenon, <1>7, <2>1, <2>4, StageNext
  <2> QED
    BY Zenon, <2>5, <2>7, <2>8, <2>9, <2>10, <2>11
<1>13. \A k \in Key : k \notin K => ObjectStatus(k)' = ObjectStatus(k)
  <2> TAKE k \in Key
  <2> HAVE k \notin K
  <2>1. CASE <<t, k>> \in G
    <3>1. success[<<t, k>>]
      BY Zenon, <2>1
    <3> QED
      BY Zenon, <1>12, <2>1, <3>1
  <2>2. CASE <<t, k>> \notin G
    <3>1. k \notin Effective(G, out)
      BY Zenon, <1>5, <1>6, <2>2
    <3> QED
      BY Zenon, <1>7, <1>8, <3>1, StatusSame
  <2> QED
    BY Zenon, <2>1, <2>2
<1>14. ASSUME NEW o \in Op, ~(o[1] = t /\ o[2] \in K)
       PROVE  OperationStage(o)' = OperationStage(o)
  <2>1. CASE o \in G
    <3>1. o = <<t, o[2]>> /\ o[1] = t /\ o[2] \in Key
      BY Zenon, <1>6, <2>1
    <3>2. success[o] /\ (rpcError[o] \/ ~rpcError'[o])
      BY Zenon, <1>14, <2>1, <3>1
    <3> QED
      BY Zenon, <1>12, <2>1, <3>2
  <2>2. CASE o \notin G
    <3>1. rpcError[o] \in BOOLEAN
      BY Zenon, <1>7 DEF OpTypes
    <3>2. o \notin FailedIn(G, out)
      BY Zenon, <1>5, <2>2
    <3>3. UNCHANGED <<revokeType[o], rpcError[o]>>
      BY Zenon, <1>1, <2>2, <3>1, <3>2
    <3>4. UNCHANGED <<result[o], success[o], endType[o]>>
      BY Zenon, <1>2
    <3> QED
      BY Zenon, <1>10, <3>3, <3>4, StageSame
  <2> QED
    BY Zenon, <2>1, <2>2
<1>15. ASSUME NEW k \in K, ~success[<<t, k>>]
       PROVE  /\ OperationStage(<<t, k>>) = "open" /\ ObjectStatus(k) = "writing"
              /\ <<OperationStage(<<t, k>>)', ObjectStatus(k)'>> \in Store!Fate
  <2> DEFINE o == <<t, k>>
  <2>1. /\ o \in G /\ o \in Op /\ o[2] = k /\ k \in Key /\ o[1] = t /\ OpInv(o) /\ InCall(o)
        /\ Stage(o, "finalize") /\ revokeType[o] # "none" /\ ~success[o]
    BY Zenon, <1>3, <1>6, <1>15 DEF Types
  <2> HIDE DEF o
  <2>2. /\ Held(o) /\ replicas[o] # {}
    BY Zenon, <2>1 DEF OpInv, GivingUp, Running
  <2>3. OperationStage(o) = "open" /\ ObjectStatus(k) = "writing"
    BY Zenon, <2>1, <2>2, HeldIsOpen
  <2>4. /\ InCall(o)' /\ Stage(o, "finalize")' /\ revokeType'[o] = "none" /\ ~success'[o]
        /\ result'[o] # "EXISTS" /\ owner'[o[2]] = o[1] /\ replicas'[o] # {}
    <3>1. result[o] # "EXISTS"
      BY Zenon, <2>1, <2>2 DEF OpInv, Running
    <3> QED
      BY Zenon, <1>1, <1>2, <1>8, <1>10, <2>1, <2>2, <3>1 DEF SameStage, Held
  <2>5. rpcError'[o] \in BOOLEAN
    BY Zenon, <1>7, <2>1 DEF OpTypes
  <2>6. CASE rpcError'[o]
    <3>1. OperationStage(o)' = "uncertain"
      BY Zenon, <1>7, <2>1, <2>4, <2>6, StageNext
    <3> QED
      BY Zenon, <1>7, <2>1, <2>3, <3>1, StatusNext, FateFacts DEF o
  <2>7. CASE ~rpcError'[o]
    <3>1. OperationStage(o)' = "withdrawn"
      BY Zenon, <1>7, <2>1, <2>4, <2>7, StageNext
    <3>2. Readable(o[2])' = {} /\ Busy(o[2])' = {}
      BY Zenon, <1>7, <2>1, <2>4, <2>7 DEF OpInv, GivingUp
    <3>3. ObjectStatus(k)' = "absent"
      BY Zenon, <1>7, <2>1, <3>2, StatusNext
    <3> QED
      BY Zenon, <2>3, <3>1, <3>3, FateFacts DEF o
  <2> QED
    BY Zenon, <2>5, <2>6, <2>7
<1>16. ASSUME NEW k \in K, success[<<t, k>>]
       PROVE  /\ OperationStage(<<t, k>>) = "published"
              /\ OperationStage(<<t, k>>)' = "uncertain"
              /\ ObjectStatus(k)' = ObjectStatus(k)
              /\ ObjectStatus(k) \in {"absent", "writing", "readable"}
  <2>1. <<t, k>> \in G /\ k \in Key /\ ~rpcError[<<t, k>>] /\ rpcError'[<<t, k>>]
    BY Zenon, <1>16
  <2>2. ObjectStatus(k) \in {"absent", "writing", "readable"}
    BY Zenon, <1>7, <2>1, StatusFacts
  <2>3. <<t, k>>[2] = k
    BY Zenon
  <2> QED
    BY Zenon, <1>12, <1>16, <2>1, <2>2, <2>3
<1>17. ASSUME NEW k \in K
       PROVE  /\ OperationStage(<<t, k>>) # "idle"
              /\ \/ /\ OperationStage(<<t, k>>) = "open" /\ ObjectStatus(k) = "writing"
                    /\ <<OperationStage(<<t, k>>)', ObjectStatus(k)'>> \in Store!Fate
                 \/ /\ OperationStage(<<t, k>>) = "published"
                    /\ OperationStage(<<t, k>>)' = "uncertain"
                    /\ ObjectStatus(k)' = ObjectStatus(k)
                    /\ ObjectStatus(k) \in {"absent", "writing", "readable"}
  BY Zenon, <1>15, <1>16
<1>18. K \in SUBSET Key
  BY Zenon
<1> HIDE DEF K
<1> QED
  BY Zenon, <1>11, <1>13, <1>14, <1>17, <1>18, SettleStep

-----------------------------------------------------------------------------
(* Calls return, and objects vanish. *)

\* The objects a thread is busy with are those of its call.
LEMMA BusyIsCall ==
  ASSUME OpTypes, NEW t \in Thread
  PROVE  /\ At(t, "idle") => Store!Busy(t) = {}
         /\ ~At(t, "idle") => Store!Busy(t) = call[t].keys
<1>1. Store!Busy(t) = {k \in Key : OperationStage(<<t, k>>) # "idle"}
  BY Zenon DEF Store!Busy, Op
<1>2. \A k \in Key : OperationStage(<<t, k>>) # "idle" <=> InCall(<<t, k>>)
  BY Zenon, StageIdle DEF Op
<1>3. \A k \in Key : InCall(<<t, k>>) <=> ~At(t, "idle") /\ k \in call[t].keys
  BY Zenon DEF InCall
<1>4. ~At(t, "idle") => call[t].keys \subseteq Key
  BY DEF OpTypes, Call, Idle, At
<1> HIDE DEF Store!Busy
<1> QED
  BY Zenon, <1>1, <1>2, <1>3, <1>4

\* CollectResults answers what became of each object.
LEMMA CollectResultsMaps ==
  ASSUME WriteInv, WriteInv', NEW t \in Thread, CollectResults(t)
  PROVE  Store!Return(t)
<1>1. /\ At(t, "finalize") /\ ~At(t, "idle")
      /\ NothingTo(ToEnd, t, Types) /\ NothingTo(ToRevoke, t, Types)
      /\ call' = [call EXCEPT ![t] = Idle]
      /\ UNCHANGED <<processing, complete, replicas, endType, revokeType, rpcError>>
  BY Zenon DEF CollectResults, At, masterVars
<1>2. /\ result' = [o \in Op |-> IF o \in Ops(t)
                      THEN IF FinalState(o) = "SUCCESS" \/ result[o] = "EXISTS" THEN "OK" ELSE "ERROR"
                      ELSE result[o]]
      /\ success' = [o \in Op |-> IF o \in Ops(t) THEN FALSE ELSE success[o]]
  BY Zenon DEF CollectResults, Update
<1>3. \A o \in Ops(t) : /\ o \in Op /\ o[1] = t /\ OpInv(o) /\ InCall(o) /\ Stage(o, "finalize")
                        /\ endType[o] = "none" /\ revokeType[o] = "none"
  BY Zenon, <1>1, OpsOfCall, NothingToFacts DEF Stage
<1>4. \A o \in Ops(t) :
        FinalState(o) = "SUCCESS" <=> state[o] = "PENDING" /\ success[o] /\ ~rpcError[o]
  BY Zenon, <1>3, ReportFacts
<1>5. /\ OpTypes /\ OpTypes' /\ ReadableIsWritten /\ ReadableIsWritten'
  BY Zenon DEF WriteInv, WriteTypes
<1>6. call'[t].pc = "idle" /\ \A u \in Thread : u # t => call'[u] = call[u]
  BY Zenon, <1>1, <1>5 DEF OpTypes, Idle
<1>7. Store!Busy(t) = call[t].keys /\ call[t].keys # {} /\ call[t].keys \subseteq Key
  <2>1. call[t] \in Call
    BY Zenon, <1>1, OpsOfCall
  <2> QED
    BY Zenon, <1>1, <1>5, <2>1, BusyIsCall DEF WriteInv, CallIsAccepted, Call
<1> DEFINE K == call[t].keys
<1>8. \A o \in Op : o \in Ops(t) <=> o[1] = t /\ o[2] \in K
  BY Zenon DEF Op, Ops
<1>9. Objects' = Objects
  <2>1. \A k \in Key : ObjectStatus(k)' = ObjectStatus(k)
    BY Zenon, <1>1, <1>5, StatusSame DEF Busy, Readable
  <2> QED
    BY Zenon, <2>1 DEF Objects
<1>10. ASSUME NEW o \in Ops(t)
       PROVE  /\ OperationStage(o) # "open"
              /\ result'[o] = IF OperationStage(o) \in {"published", "exists"} THEN "OK" ELSE "ERROR"
              /\ ~InCall(o)' /\ OperationStage(o)' = "idle"
  <2>1. o \in Op /\ o[1] = t /\ OpInv(o) /\ InCall(o) /\ Stage(o, "finalize")
        /\ endType[o] = "none" /\ revokeType[o] = "none"
    BY Zenon, <1>3
  <2>2. success[o] \in BOOLEAN /\ rpcError[o] \in BOOLEAN
    BY Zenon, <1>5, <2>1 DEF OpTypes
  <2>3. result'[o] = IF FinalState(o) = "SUCCESS" \/ result[o] = "EXISTS" THEN "OK" ELSE "ERROR"
    BY Zenon, <1>2, <2>1
  <2>4. /\ success[o] => state[o] = "PENDING"
        /\ result[o] = "EXISTS" => ~rpcError[o]
    BY Zenon, <2>1 DEF OpInv, Ended, Running
  <2>5. ~InCall(o)'
    BY Zenon, <1>6, <2>1 DEF InCall, At
  <2>6. OperationStage(o)' = "idle"
    BY Zenon, <1>5, <2>1, <2>5, StageNext
  <2>7. CASE rpcError[o]
    <3>1. OperationStage(o) = "uncertain"
      BY Zenon, <1>5, <2>1, <2>7, StageFacts
    <3>2. result'[o] = "ERROR"
      BY Zenon, <1>4, <2>3, <2>4, <2>7
    <3> QED
      BY Zenon, <2>5, <2>6, <3>1, <3>2
  <2>8. CASE ~rpcError[o] /\ result[o] = "EXISTS"
    <3>1. OperationStage(o) = "exists"
      BY Zenon, <1>5, <2>1, <2>8, StageFacts
    <3> QED
      BY Zenon, <2>3, <2>5, <2>6, <2>8, <3>1
  <2>9. CASE ~rpcError[o] /\ result[o] # "EXISTS" /\ success[o]
    <3>1. OperationStage(o) = "published"
      BY Zenon, <1>5, <2>1, <2>9, StageFacts
    <3>2. result'[o] = "OK"
      BY Zenon, <1>4, <2>3, <2>4, <2>9
    <3> QED
      BY Zenon, <2>5, <2>6, <3>1, <3>2
  <2>10. CASE ~rpcError[o] /\ result[o] # "EXISTS" /\ ~success[o]
    <3>1. OperationStage(o) = "withdrawn"
      BY Zenon, <1>5, <2>1, <2>10, StageFacts
    <3>2. result'[o] = "ERROR"
      BY Zenon, <1>4, <2>3, <2>10
    <3> QED
      BY Zenon, <2>5, <2>6, <3>1, <3>2
  <2> QED
    BY Zenon, <2>2, <2>7, <2>8, <2>9, <2>10
<1>11. ASSUME NEW o \in Op, o \notin Ops(t)
       PROVE  /\ OperationStage(o)' = OperationStage(o)
              /\ InCall(o)' = InCall(o) /\ result'[o] = result[o]
  <2>1. SameStage(o)
    <3>1. CASE o[1] = t
      <4>1. o[2] \notin call[t].keys
        BY Zenon, <1>8, <1>11, <3>1
      <4> QED
        BY Zenon, <1>6, <3>1, <4>1 DEF SameStage, InCall, Stage, At
    <3>2. CASE o[1] # t
      <4>1. call'[o[1]] = call[o[1]]
        BY Zenon, <1>6, <3>2 DEF Op
      <4> QED
        BY Zenon, <4>1 DEF SameStage, InCall, Stage, At
    <3> QED
      BY Zenon, <3>1, <3>2
  <2>2. UNCHANGED <<result[o], endType[o], revokeType[o], success[o], rpcError[o]>>
    BY Zenon, <1>1, <1>2, <1>11
  <2> QED
    BY Zenon, <2>1, <2>2, StageSame
<1>12. \A k \in K : <<t, k>> \in Ops(t) /\ <<t, k>> \in Op
  BY Zenon, <1>7 DEF Ops, Op
<1> HIDE DEF K
<1>13. \A k \in K : Stages[<<t, k>>] # "open"
  BY Zenon, <1>10, <1>12 DEF Stages
<1>14. Replies' = Store!With(Replies, t, K,
                    [k \in K |-> IF Stages[<<t, k>>] \in {"published", "exists"}
                                   THEN "OK" ELSE "ERROR"])
  <2> DEFINE v == [k \in K |-> IF Stages[<<t, k>>] \in {"published", "exists"}
                                 THEN "OK" ELSE "ERROR"]
  <2>1. ASSUME NEW o \in Op
        PROVE  (IF InCall(o)' THEN "none" ELSE result'[o]) =
                 IF o[1] = t /\ o[2] \in K THEN v[o[2]] ELSE Replies[o]
    <3>1. CASE o \in Ops(t)
      <4>1. o = <<t, o[2]>> /\ o[1] = t /\ o[2] \in K
        BY <1>8, <2>1, <3>1 DEF Op
      <4>2. v[o[2]] = IF OperationStage(o) \in {"published", "exists"} THEN "OK" ELSE "ERROR"
        BY Zenon, <2>1, <4>1 DEF Stages
      <4> HIDE DEF v
      <4> QED
        BY Zenon, <1>10, <3>1, <4>1, <4>2
    <3>2. CASE o \notin Ops(t)
      BY Zenon, <1>8, <1>11, <2>1, <3>2 DEF Replies
    <3> QED
      BY Zenon, <3>1, <3>2
  <2> HIDE DEF v
  <2>2. Replies' = [o \in Op |-> IF o[1] = t /\ o[2] \in K THEN v[o[2]] ELSE Replies[o]]
    BY Zenon, <2>1 DEF Replies
  <2> QED
    BY Zenon, <2>2 DEF Store!With, Op, v
<1>15. Stages' = Store!With(Stages, t, K, [k \in K |-> "idle"])
  <2>1. ASSUME NEW o \in Op
        PROVE  OperationStage(o)' =
                 IF o[1] = t /\ o[2] \in K THEN [k \in K |-> "idle"][o[2]] ELSE Stages[o]
    BY Zenon, <1>8, <1>10, <1>11, <2>1 DEF Stages
  <2>2. Stages' = [o \in Op |-> IF o[1] = t /\ o[2] \in K THEN [k \in K |-> "idle"][o[2]]
                                ELSE Stages[o]]
    BY Zenon, <2>1 DEF Stages
  <2> QED
    BY Zenon, <2>2 DEF Store!With, Op
<1>16. Store!Busy(t) = K /\ K # {}
  BY Zenon, <1>7 DEF K
<1> QED
  BY Zenon, <1>9, <1>13, <1>14, <1>15, <1>16 DEF Store!Return, Objects, Stages, Replies

\* An object that is removed was readable, and is absent.
LEMMA RemoveMaps ==
  ASSUME WriteInv, WriteInv', NoDisk, NEW k \in Key, Remove(k)
  PROVE  Store!Vanish(k)
<1>1. /\ complete[k] # {} /\ processing[k] = {}
      /\ complete' = [complete EXCEPT ![k] = {}]
      /\ UNCHANGED <<processing, call, result, endType, revokeType, success, rpcError>>
  BY Zenon DEF Remove, decisionVars
<1>2. /\ ReadableIsWritten /\ ReadableIsWritten' /\ complete \in [Key -> SUBSET Replica]
  BY Zenon DEF WriteInv, WriteTypes, MasterTypes
<1>3. Readable(k) # {}
  BY Zenon, <1>1 DEF NoDisk, Readable
<1>4. ObjectStatus(k) = "readable"
  BY Zenon, <1>2, <1>3, StatusFacts
<1>5. Readable(k)' = {} /\ Busy(k)' = {}
  BY Zenon, <1>1, <1>2 DEF Readable, Busy
<1>6. ObjectStatus(k)' = "absent"
  BY Zenon, <1>2, <1>5, StatusNext
<1>7. \A j \in Key : j # k => ObjectStatus(j)' = ObjectStatus(j)
  BY Zenon, <1>1, <1>2, StatusSame DEF Busy, Readable
<1>8. Objects[k] = "readable" /\ Objects' = [Objects EXCEPT ![k] = "absent"]
  BY Zenon, <1>4, <1>6, <1>7 DEF Objects
<1>9. \A o \in Op : /\ OperationStage(o)' = OperationStage(o)
                    /\ InCall(o)' = InCall(o) /\ result'[o] = result[o]
  <2> TAKE o \in Op
  <2>1. SameStage(o)
    BY Zenon, <1>1 DEF SameStage, InCall, Stage, At
  <2> QED
    BY Zenon, <1>1, <2>1, StageSame
<1>10. Stages' = Stages /\ Replies' = Replies
  BY Zenon, <1>9 DEF Stages, Replies
<1> QED
  BY Zenon, <1>8, <1>10 DEF Store!Vanish, Objects, Stages, Replies

-----------------------------------------------------------------------------
(* Calls begin. *)

\* A step that opens some objects for a call, which goes on.
LEMMA BeginStep ==
  ASSUME NEW t \in Thread, Store!Busy(t) = {}, NEW K \in SUBSET Key, NEW started \in SUBSET K,
         \A k \in started : ObjectStatus(k) # "writing" /\ ObjectStatus(k)' = "writing",
         \A k \in Key : k \notin started => ObjectStatus(k)' = ObjectStatus(k),
         \A k \in K : /\ InCall(<<t, k>>)'
                      /\ \/ OperationStage(<<t, k>>)' = "open" /\ k \in started
                         \/ /\ OperationStage(<<t, k>>)' = "exists" /\ k \notin started
                            /\ ObjectStatus(k) # "absent"
                         \/ OperationStage(<<t, k>>)' = "uncertain",
         \A o \in Op : ~(o[1] = t /\ o[2] \in K) =>
           /\ OperationStage(o)' = OperationStage(o)
           /\ InCall(o)' = InCall(o) /\ result'[o] = result[o]
  PROVE  Store!Begin(t)
<1> DEFINE s == [k \in K |-> OperationStage(<<t, k>>)']
<1>1. s \in [K -> {"open", "exists", "uncertain"}]
  BY Zenon
<1>2. \A k \in K : /\ s[k] = "open" => k \in started
                   /\ s[k] = "exists" => k \notin started /\ Objects[k] # "absent"
  BY Zenon DEF Objects
<1>3. started \in SUBSET {k \in Key : Objects[k] # "writing"}
  BY Zenon DEF Objects
<1>4. Objects' = [k \in Key |-> IF k \in started THEN "writing" ELSE Objects[k]]
  BY Zenon DEF Objects
<1>5. \A o \in Op : o[1] = t /\ o[2] \in K => o = <<t, o[2]>>
  BY DEF Op
<1>6. Stages' = Store!With(Stages, t, K, s)
  <2>1. ASSUME NEW o \in Op
        PROVE  OperationStage(o)' = IF o[1] = t /\ o[2] \in K THEN s[o[2]] ELSE Stages[o]
    <3>1. CASE o[1] = t /\ o[2] \in K
      BY Zenon, <1>5, <3>1
    <3>2. CASE ~(o[1] = t /\ o[2] \in K)
      BY Zenon, <3>2 DEF Stages
    <3> QED
      BY Zenon, <3>1, <3>2
  <2> HIDE DEF s
  <2>2. Stages' = [o \in Op |-> IF o[1] = t /\ o[2] \in K THEN s[o[2]] ELSE Stages[o]]
    BY Zenon, <2>1 DEF Stages
  <2> QED
    BY Zenon, <2>2 DEF Store!With, Op
<1>7. Replies' = Store!With(Replies, t, K, [k \in K |-> "none"])
  <2>1. ASSUME NEW o \in Op
        PROVE  (IF InCall(o)' THEN "none" ELSE result'[o]) =
                 IF o[1] = t /\ o[2] \in K THEN [k \in K |-> "none"][o[2]] ELSE Replies[o]
    <3>1. CASE o[1] = t /\ o[2] \in K
      <4>1. InCall(o)'
        BY Zenon, <1>5, <3>1
      <4> QED
        BY Zenon, <3>1, <4>1
    <3>2. CASE ~(o[1] = t /\ o[2] \in K)
      BY Zenon, <3>2 DEF Replies
    <3> QED
      BY Zenon, <3>1, <3>2
  <2>2. Replies' = [o \in Op |-> IF o[1] = t /\ o[2] \in K THEN [k \in K |-> "none"][o[2]]
                                 ELSE Replies[o]]
    BY Zenon, <2>1 DEF Replies
  <2> QED
    BY Zenon, <2>2 DEF Store!With, Op
<1> HIDE DEF s
<1>8. Store!Open(started)
  BY Zenon, <1>4 DEF Store!Open, Objects
<1>9. \E C \in SUBSET Key, S \in SUBSET {k \in Key : Objects[k] # "writing"} :
        \E r \in [C -> {"open", "exists", "uncertain"}] :
          /\ S \subseteq C
          /\ \A k \in C : /\ r[k] = "open" => k \in S
                          /\ r[k] = "exists" => k \notin S /\ Objects[k] # "absent"
          /\ Store!Open(S)
          /\ Stages' = Store!With(Stages, t, C, r)
          /\ Replies' = Store!With(Replies, t, C, [k \in C |-> "none"])
  <2>1. started \subseteq K
    BY Zenon
  <2> QED
    BY Zenon, <1>1, <1>2, <1>3, <1>6, <1>7, <1>8, <2>1
<1> QED
  BY Zenon, <1>9 DEF Store!Begin, Objects, Stages, Replies

\* A step of a call on one object that returns at once.
LEMMA RefuseStep ==
  ASSUME NEW t \in Thread, Store!Busy(t) = {}, NEW k \in Key, NEW started \in SUBSET {k},
         \A j \in started : ObjectStatus(j) # "writing" /\ ObjectStatus(j)' = "writing",
         \A j \in Key : j \notin started => ObjectStatus(j)' = ObjectStatus(j),
         ~InCall(<<t, k>>)',
         \/ ObjectStatus(k) # "absent" /\ started = {} /\ result'[<<t, k>>] = "OK"
         \/ result'[<<t, k>>] = "ERROR",
         \A o \in Op : OperationStage(o)' = OperationStage(o),
         \A o \in Op : o # <<t, k>> => InCall(o)' = InCall(o) /\ result'[o] = result[o]
  PROVE  Store!Refuse(t)
<1>1. Stages' = Stages
  BY Zenon DEF Stages
<1>2. ASSUME NEW r, result'[<<t, k>>] = r
      PROVE  Replies' = Store!With(Replies, t, {k}, [j \in {k} |-> r])
  <2>1. ASSUME NEW o \in Op
        PROVE  (IF InCall(o)' THEN "none" ELSE result'[o]) =
                 IF o[1] = t /\ o[2] \in {k} THEN [j \in {k} |-> r][o[2]] ELSE Replies[o]
    <3>1. CASE o[1] = t /\ o[2] = k
      <4>1. o = <<t, k>>
        BY <3>1 DEF Op
      <4> QED
        BY Zenon, <1>2, <3>1, <4>1
    <3>2. CASE ~(o[1] = t /\ o[2] = k)
      <4>1. o # <<t, k>>
        BY <3>2
      <4> QED
        BY Zenon, <3>2, <4>1 DEF Replies
    <3> QED
      BY Zenon, <3>1, <3>2
  <2>2. Replies' = [o \in Op |-> IF o[1] = t /\ o[2] \in {k} THEN [j \in {k} |-> r][o[2]]
                                 ELSE Replies[o]]
    BY Zenon, <2>1 DEF Replies
  <2> QED
    BY Zenon, <2>2 DEF Store!With, Op
<1>3. Objects' = [j \in Key |-> IF j \in started THEN "writing" ELSE Objects[j]]
  BY Zenon DEF Objects
<1>4. CASE ObjectStatus(k) # "absent" /\ started = {} /\ result'[<<t, k>>] = "OK"
  <2>1. Objects' = Objects /\ Objects[k] # "absent"
    BY Zenon, <1>4 DEF Objects
  <2>2. Replies' = Store!With(Replies, t, {k}, [j \in {k} |-> "OK"])
    BY Zenon, <1>2, <1>4
  <2> QED
    BY Zenon, <1>1, <2>1, <2>2 DEF Store!Refuse, Objects, Stages, Replies
<1>5. CASE result'[<<t, k>>] = "ERROR"
  <2>1. Store!Open(started)
    BY Zenon, <1>3 DEF Store!Open, Objects
  <2>2. started \in SUBSET {j \in {k} : Objects[j] # "writing"}
    BY Zenon DEF Objects
  <2>3. Replies' = Store!With(Replies, t, {k}, [j \in {k} |-> "ERROR"])
    BY Zenon, <1>2, <1>5
  <2> QED
    BY Zenon, <1>1, <2>1, <2>2, <2>3 DEF Store!Refuse, Objects, Stages, Replies
<1> QED
  BY Zenon, <1>4, <1>5

\* Starting a call opens what the master agreed to, or refuses the one object.
LEMMA StartMaps ==
  ASSUME WriteInv, WriteInv', NoDisk, Scope, NEW t \in Thread, NEW a, NEW K, Start(t, a, K)
  PROVE  Store!Begin(t) \/ Store!Refuse(t)
<1>1. PICK ans \in [K -> UNION {Answers(a, k) : k \in K}] :
       LET started == {k \in K : ans[k].rpc \in {"ok", "lost"}}
           mine == {t} \X K
       IN
       /\ \A k \in K : ans[k] \in Answers(a, k)
       /\ processing' = [k \in Key |-> IF k \in started THEN ans[k].reps ELSE processing[k]]
       /\ complete' = [k \in Key |-> IF k \in started THEN {} ELSE complete[k]]
       /\ call' = [call EXCEPT ![t] =
            IF Single(a) /\ \A k \in K : ans[k].rpc # "ok" THEN Idle
            ELSE [pc |-> "submit", api |-> a, keys |-> K]]
       /\ LET Outcome(o) == StartResult(a, ans[o[2]])
              Error(o) == ans[o[2]].rpc \in {"error", "lost"}
          IN /\ result' = Update(result, mine, Outcome)
             /\ rpcError' = Update(rpcError, mine, Error)
  BY Zenon DEF Start
<1> DEFINE started == {k \in K : ans[k].rpc \in {"ok", "lost"}}
           returns == Single(a) /\ \A k \in K : ans[k].rpc # "ok"
<1>2. /\ At(t, "idle") /\ <<t, a, K>> \in Calls /\ Accepts(a, K)
      /\ UNCHANGED <<endType, revokeType, success>>
  BY Zenon DEF Start, decisionVars
<1>3. a \in Api /\ a # "BatchUpsert" /\ K \subseteq Key /\ K # {}
  <2>1. <<t, a, K>> \in Thread \X Api \X ((SUBSET Key) \ {{}})
    BY Zenon, <1>2, CallsAssumption
  <2>2. <<t, a, K>>[2] # "BatchUpsert"
    BY Zenon, <1>2 DEF Scope
  <2> QED
    BY Zenon, <2>1, <2>2
<1>4. /\ \A k \in K : ans[k] \in Answers(a, k)
      /\ processing' = [k \in Key |-> IF k \in started THEN ans[k].reps ELSE processing[k]]
      /\ complete' = [k \in Key |-> IF k \in started THEN {} ELSE complete[k]]
      /\ call' = [call EXCEPT ![t] =
           IF returns THEN Idle ELSE [pc |-> "submit", api |-> a, keys |-> K]]
  BY Zenon, <1>1
<1>5. \A o \in Op : /\ result'[o] = IF o[1] = t /\ o[2] \in K THEN StartResult(a, ans[o[2]])
                                                            ELSE result[o]
                    /\ rpcError'[o] = IF o[1] = t /\ o[2] \in K
                                        THEN ans[o[2]].rpc \in {"error", "lost"}
                                        ELSE rpcError[o]
  <2>1. \A o \in Op : o \in {t} \X K <=> o[1] = t /\ o[2] \in K
    BY Zenon DEF Op
  <2>2. /\ result' = [o \in Op |-> IF o \in {t} \X K THEN StartResult(a, ans[o[2]])
                                                     ELSE result[o]]
        /\ rpcError' = [o \in Op |-> IF o \in {t} \X K THEN ans[o[2]].rpc \in {"error", "lost"}
                                                       ELSE rpcError[o]]
    BY Zenon, <1>1 DEF Update
  <2> QED
    BY Zenon, <2>1, <2>2
<1>6. MasterTypes /\ OpTypes /\ OpTypes' /\ ReadableIsWritten /\ ReadableIsWritten'
      /\ config \in Config
  BY Zenon DEF WriteInv, WriteTypes, MasterTypes
<1>7. \A k \in K :
        /\ ans[k].rpc \in {"ok", "lost", "error", "exists"}
        /\ k \in started => ans[k].reps \in Allocations(a) /\ processing[k] = {}
        /\ ans[k].rpc = "exists" => processing[k] \cup complete[k] # {}
  BY Zenon, <1>3, <1>4, <1>6, AnswerFacts
<1>8. \A k \in started : ans[k].reps \cap Transferable # {}
  BY Zenon, <1>6, <1>7, AllocationFacts
<1>9. started \subseteq K /\ \A k \in K : k \in started <=> ans[k].rpc \in {"ok", "lost"}
  BY Zenon
<1>10. returns <=> Single(a) /\ \A k \in K : ans[k].rpc # "ok"
  BY Zenon
<1> HIDE DEF started, returns
<1>11. /\ returns => call'[t].pc = "idle"
       /\ ~returns => call'[t].pc = "submit" /\ call'[t].keys = K
       /\ \A u \in Thread : u # t => call'[u] = call[u]
  <2>1. call'[t] = (IF returns THEN Idle ELSE [pc |-> "submit", api |-> a, keys |-> K])
        /\ \A u \in Thread : u # t => call'[u] = call[u]
    BY Zenon, <1>4, <1>6 DEF OpTypes
  <2> QED
    BY <2>1 DEF Idle
<1>12. \A k \in started : ObjectStatus(k) # "writing" /\ ObjectStatus(k)' = "writing"
  <2> TAKE k \in started
  <2>1. k \in Key /\ k \in K
    BY Zenon, <1>3, <1>9
  <2>2. Busy(k) = {}
    BY Zenon, <1>7, <2>1 DEF Busy
  <2>3. Busy(k)' # {} /\ Readable(k)' = {}
    BY Zenon, <1>4, <1>8, <2>1 DEF Busy, Readable
  <2>4. ObjectStatus(k) # "writing"
    BY Zenon, <1>6, <2>1, <2>2, StatusFacts
  <2>5. ObjectStatus(k)' = "writing"
    BY Zenon, <1>6, <2>1, <2>3, StatusNext
  <2> QED
    BY Zenon, <2>4, <2>5
<1>13. \A k \in Key : k \notin started => ObjectStatus(k)' = ObjectStatus(k)
  <2> SUFFICES ASSUME NEW k \in Key, k \notin started PROVE ObjectStatus(k)' = ObjectStatus(k)
    BY Zenon
  <2>1. Busy(k)' = Busy(k) /\ Readable(k)' = Readable(k)
    BY Zenon, <1>4 DEF Busy, Readable
  <2> QED
    BY Zenon, <1>6, <2>1, StatusSame
<1>14. \A k \in K : ans[k].rpc = "exists" => k \notin started /\ ObjectStatus(k) # "absent"
  <2> SUFFICES ASSUME NEW k \in K, ans[k].rpc = "exists"
               PROVE  k \notin started /\ ObjectStatus(k) # "absent"
    BY Zenon
  <2>1. Busy(k) # {} \/ Readable(k) # {}
    BY Zenon, <1>3, <1>7 DEF NoDisk, Busy, Readable
  <2>2. ObjectStatus(k) # "absent"
    BY Zenon, <1>3, <1>6, <2>1, StatusFacts
  <2> QED
    BY Zenon, <1>9, <2>2
<1>15. \A o \in Op : ~(o[1] = t /\ o[2] \in K) =>
         /\ OperationStage(o)' = OperationStage(o)
         /\ InCall(o)' = InCall(o) /\ result'[o] = result[o]
  <2> SUFFICES ASSUME NEW o \in Op, ~(o[1] = t /\ o[2] \in K)
               PROVE  /\ OperationStage(o)' = OperationStage(o)
                      /\ InCall(o)' = InCall(o) /\ result'[o] = result[o]
    BY Zenon
  <2>1. SameStage(o)
    <3>1. CASE o[1] = t
      <4>1. ~InCall(o) /\ \A p \in {"submit", "wait", "finalize"} : ~Stage(o, p)
        BY Zenon, <1>2, <3>1 DEF InCall, Stage, At
      <4>2. ~InCall(o)' /\ \A p \in {"submit", "wait", "finalize"} : ~Stage(o, p)'
        BY Zenon, <1>11, <3>1 DEF InCall, Stage, At
      <4> QED
        BY Zenon, <4>1, <4>2 DEF SameStage
    <3>2. CASE o[1] # t
      <4>1. call'[o[1]] = call[o[1]]
        BY Zenon, <1>11, <3>2 DEF Op
      <4> QED
        BY Zenon, <4>1 DEF SameStage, InCall, Stage, At
    <3> QED
      BY Zenon, <3>1, <3>2
  <2>2. UNCHANGED <<result[o], endType[o], revokeType[o], success[o], rpcError[o]>>
    BY Zenon, <1>2, <1>5
  <2> QED
    BY Zenon, <2>1, <2>2, StageSame
<1>16. Store!Busy(t) = {}
  BY Zenon, <1>2, <1>6, BusyIsCall
<1>17. CASE ~returns
  <2>1. \A k \in K : /\ InCall(<<t, k>>)'
                     /\ \/ OperationStage(<<t, k>>)' = "open" /\ k \in started
                        \/ /\ OperationStage(<<t, k>>)' = "exists" /\ k \notin started
                           /\ ObjectStatus(k) # "absent"
                        \/ OperationStage(<<t, k>>)' = "uncertain"
    <3> TAKE k \in K
    <3>1. <<t, k>> \in Op /\ <<t, k>>[1] = t /\ <<t, k>>[2] = k
      BY Zenon, <1>3 DEF Op
    <3>2. InCall(<<t, k>>)' /\ ~Stage(<<t, k>>, "finalize")'
      BY Zenon, <1>11, <1>17 DEF InCall, Stage, At
    <3>3. result'[<<t, k>>] = StartResult(a, ans[k])
          /\ rpcError'[<<t, k>>] = (ans[k].rpc \in {"error", "lost"})
      BY Zenon, <1>5, <3>1
    <3>4. CASE ans[k].rpc \in {"error", "lost"}
      BY Zenon, <1>6, <3>1, <3>2, <3>3, <3>4, StageNext
    <3>5. CASE ans[k].rpc = "exists"
      <4>1. ~Single(a)
        BY <1>2, <1>10, <1>17, <3>5 DEF Accepts
      <4>2. result'[<<t, k>>] = "EXISTS" /\ ~rpcError'[<<t, k>>]
        BY Zenon, <3>3, <3>5, <4>1 DEF StartResult
      <4> QED
        BY Zenon, <1>6, <1>14, <3>1, <3>2, <3>5, <4>2, StageNext
    <3>6. CASE ans[k].rpc = "ok"
      <4>1. result'[<<t, k>>] # "EXISTS" /\ ~rpcError'[<<t, k>>]
        BY Zenon, <3>3, <3>6 DEF StartResult
      <4> QED
        BY Zenon, <1>6, <1>9, <3>1, <3>2, <3>6, <4>1, StageNext
    <3> QED
      BY Zenon, <1>7, <3>4, <3>5, <3>6
  <2> QED
    BY Zenon, <1>3, <1>9, <1>12, <1>13, <1>15, <1>16, <2>1, BeginStep
<1>18. CASE returns
  <2>1. PICK k \in K : K = {k}
    BY Zenon, <1>2, <1>10, <1>18 DEF Accepts
  <2>2. k \in Key /\ <<t, k>> \in Op /\ <<t, k>>[1] = t /\ <<t, k>>[2] = k
        /\ started \in SUBSET {k}
    BY Zenon, <1>3, <1>9, <2>1 DEF Op
  <2>3. ~InCall(<<t, k>>)' /\ ~InCall(<<t, k>>)
    BY Zenon, <1>2, <1>11, <1>18 DEF InCall, At
  <2>4. OperationStage(<<t, k>>)' = OperationStage(<<t, k>>)
    BY <1>6, <2>2, <2>3, StageFacts, StageNext
  <2>5. result'[<<t, k>>] = StartResult(a, ans[k])
    BY Zenon, <1>5, <2>1, <2>2
  <2>6. \/ ObjectStatus(k) # "absent" /\ started = {} /\ result'[<<t, k>>] = "OK"
        \/ result'[<<t, k>>] = "ERROR"
    BY Zenon, <1>10, <1>14, <1>18, <2>1, <2>2, <2>5 DEF StartResult
  <2>7. \A o \in Op : o # <<t, k>> =>
          /\ OperationStage(o)' = OperationStage(o)
          /\ InCall(o)' = InCall(o) /\ result'[o] = result[o]
    <3>1. \A o \in Op : o # <<t, k>> => ~(o[1] = t /\ o[2] \in K)
      BY <2>1 DEF Op
    <3> QED
      BY Zenon, <1>15, <3>1
  <2>8. \A o \in Op : OperationStage(o)' = OperationStage(o)
    BY Zenon, <2>4, <2>7
  <2> QED
    BY Zenon, <1>12, <1>13, <1>16, <2>2, <2>3, <2>6, <2>7, <2>8, RefuseStep
<1> QED
  BY Zenon, <1>17, <1>18

-----------------------------------------------------------------------------
(* The refinement. *)

\* The first state is that of an empty store.
LEMMA InitMaps ==
  ASSUME Init
  PROVE  NoDisk /\ Store!StoreInit
<1>1. NoDisk
  BY Zenon DEF Init, NoDisk
<1>2. \A k \in Key : ObjectStatus(k) = "absent"
  BY Zenon DEF Init, ObjectStatus
<1>3. \A o \in Op : ~InCall(o)
  BY Zenon DEF Init, InCall, At, Idle, Op
<1>4. \A o \in Op : OperationStage(o) = "idle"
  BY Zenon, <1>3 DEF OperationStage
<1>5. \A o \in Op : result[o] = "ERROR"
  BY Zenon DEF Init
<1>6. Objects = [k \in Key |-> "absent"]
  BY Zenon, <1>2 DEF Objects
<1>7. Stages = [o \in Thread \X Key |-> "idle"]
  BY Zenon, <1>4 DEF Stages, Op
<1>8. Replies = [o \in Thread \X Key |-> "ERROR"]
  BY Zenon, <1>3, <1>5 DEF Replies, Op
<1> QED
  BY Zenon, <1>1, <1>6, <1>7, <1>8 DEF Store!StoreInit, Objects, Stages, Replies

\* Every step of the calls is a step of the store, or none.
LEMMA StepMaps ==
  ASSUME Scope, StorageBackend = FALSE, WriteInv, WriteInv', NoDisk, [Next]_vars
  PROVE  [Store!StoreNext]_(Store!storeVars)
<1>1. ASSUME NEW t \in Thread, NEW c \in Calls, Start(t, c[2], c[3])
      PROVE  Store!StoreNext
  <2>1. Store!Begin(t) \/ Store!Refuse(t)
    BY Zenon, <1>1, StartMaps
  <2> QED
    BY Zenon, <2>1 DEF Store!StoreNext
<1>2. ASSUME NEW t \in Thread, SubmitTransfers(t) \/ SubmitSegments(t) \/ SubmitDisk(t)
      PROVE  UNCHANGED Store!storeVars
  <2>1. UNCHANGED <<processing, complete>>
    <3>1. CASE SubmitTransfers(t)
      BY Zenon, <3>1, NoDiskSubmitted DEF SubmitTransfers
    <3>2. CASE SubmitSegments(t)
      BY Zenon, <3>2 DEF SubmitSegments, masterVars
    <3>3. CASE SubmitDisk(t)
      BY Zenon, <3>3, NoDiskSubmitted DEF SubmitDisk
    <3> QED
      BY Zenon, <1>2, <3>1, <3>2, <3>3
  <2>2. At(t, "submit") /\ Goto(t, "wait") /\ UNCHANGED <<config, result, decisionVars, rpcError>>
    BY Zenon, <1>2 DEF SubmitTransfers, SubmitSegments, SubmitDisk, masterVars
  <2> QED
    BY Zenon, <2>1, <2>2, SubmitMaps
<1>3. ASSUME NEW t \in Thread, TransferWrite(t) \/ TransferEnds(t)
      PROVE  UNCHANGED Store!storeVars
  <2>1. UNCHANGED <<processing, complete, call, result, decisionVars, rpcError>>
    BY Zenon, <1>3 DEF TransferWrite, TransferEnds, masterVars
  <2> QED
    BY Zenon, <2>1, TransferMaps
<1>4. ASSUME NEW t \in Thread, ThreadStep(t)
      PROVE  Store!StoreNext \/ UNCHANGED Store!storeVars
  <2>1. ASSUME NEW ty \in Types, ProcessEndGroup(t, ty) \/ ProcessRevokeGroup(t, ty)
        PROVE  Store!StoreNext
    <3>1. Store!Settle(t)
      BY Zenon, <2>1, ProcessEndGroupMaps, ProcessRevokeGroupMaps
    <3> QED
      BY Zenon, <3>1 DEF Store!StoreNext
  <2>2. ASSUME CollectResults(t) PROVE Store!StoreNext
    <3>1. Store!Return(t)
      BY Zenon, <2>2, CollectResultsMaps
    <3> QED
      BY Zenon, <3>1 DEF Store!StoreNext
  <2> QED
    BY Zenon, <1>2, <1>3, <1>4, <2>1, <2>2, WaitForTransfersMaps DEF ThreadStep
<1>5. ASSUME NEW k \in Key, Remove(k) PROVE Store!StoreNext
  <2>1. Store!Vanish(k)
    BY Zenon, <1>5, RemoveMaps
  <2> QED
    BY Zenon, <2>1 DEF Store!StoreNext
<1>6. ~\E k \in Key : PoolStep(k)
  BY Zenon DEF PoolStep, NoDisk
<1>7. ASSUME UNCHANGED vars PROVE UNCHANGED Store!storeVars
  <2>1. UNCHANGED <<processing, complete, call, result, decisionVars, rpcError>>
    BY Zenon, <1>7 DEF vars, masterVars
  <2> QED
    BY Zenon, <2>1, TransferMaps
<1> QED
  BY Zenon, <1>1, <1>3, <1>4, <1>5, <1>6, <1>7 DEF Next

\* The write calls implement the abstract store: an object is absent, being
\* written by one call or readable as a whole; calls open, publish and withdraw
\* objects one decision at a time, and OK is answered only for what the call
\* published or found (lines 1527-2694).
THEOREM WritesImplementTheStore ==
  ASSUME Scope, StorageBackend = FALSE
  PROVE  Spec => ImplementsObjectStore
<1>1. Init => Store!StoreInit /\ NoDisk
  BY Zenon, InitMaps
<1>2. WriteInv /\ NoDisk /\ [Next]_vars => NoDisk'
  BY Zenon, NoDiskNext
<1>3. WriteInv /\ WriteInv' /\ NoDisk /\ [Next]_vars => [Store!StoreNext]_(Store!storeVars)
  BY Zenon, StepMaps
<1> QED
  BY <1>1, <1>2, <1>3, WriteInvariant, PTL DEF Spec, ImplementsObjectStore, Store!StoreSpec
=============================================================================
