---------------------- MODULE ObjectWriteTransferProofs ----------------------
(***************************************************************************)
(* The writes of ObjectWrite, for any number of threads, keys, calls and   *)
(* replicas: what their properties rest on, and the proof that the pool,   *)
(* the master's removals, the transfers and the decision keep it.          *)
(***************************************************************************)
EXTENDS ObjectWrite, TLAPS

\* Two things the properties do not survive, so the theorems leave them out:
\* BatchUpsert commits replicas that it did not write, and a flexible write
\* revokes by key, after its object may have been removed and written again.
Scope ==
  /\ \A c \in Calls : c[2] # "BatchUpsert"
  /\ \A c \in Config : c.mem = 1 /\ c.nof = 1 => ~c.removal

\* Types, with the functions that TypeOK only looks into.
MasterTypes ==
  /\ config \in Config
  /\ owner \in [Key -> Thread \cup {None}]
  /\ processing \in [Key -> SUBSET Replica]
  /\ complete \in [Key -> SUBSET Replica]
  /\ written \in [Key -> SUBSET Transferable]
  /\ disk_tasks \subseteq DiskTask
  /\ abandoned \subseteq Key

OpTypes ==
  /\ call \in [Thread -> Call \cup {Idle}]
  /\ state \in [Op -> PutOperationState]
  /\ result \in [Op -> {"OK", "EXISTS", "ERROR"}]
  /\ replicas \in [Op -> SUBSET Replica]
  /\ pending \in [Op -> SUBSET Transferable]
  /\ ok \in [Op -> SUBSET Transferable]
  /\ failed \in [Op -> SUBSET Transferable]
  /\ endType \in [Op -> ReplicaType]
  /\ revokeType \in [Op -> ReplicaType]
  /\ success \in [Op -> BOOLEAN]
  /\ rpcError \in [Op -> BOOLEAN]

WriteTypes == MasterTypes /\ OpTypes

\* Replicas of an object, and of an operation, that are transferred.
Busy(k) == processing[k] \cap Transferable
Readable(k) == complete[k] \cap Transferable
Given(o) == replicas[o] \cap Transferable

Stage(o, p) == At(o[1], p) /\ o[2] \in call[o[1]].keys

\* The operation has what it was given, and nobody can read it yet.
Held(o) ==
  /\ owner[o[2]] = o[1]
  /\ Busy(o[2]) = Given(o)
  /\ Readable(o[2]) = {}
  /\ ok[o] \subseteq written[o[2]]
  /\ ~rpcError[o]

\* What a call has accepted, and what the master gave it.
CallIsAccepted(t) ==
  ~At(t, "idle") =>
    /\ call[t].api # "BatchUpsert"
    /\ call[t].keys # {}
    /\ call[t].api = "SameNode" => config.mem = 1 /\ config.nof = 0
    /\ call[t].api = "Upsert" => config.nof = 0

Allocated(o) ==
  replicas[o] # {} =>
    /\ Given(o) # {}
    /\ Given(o) \subseteq First("MEMORY", config.mem) \cup First("NOF_SSD", config.nof)

\* The fields of an operation that is outside a call, or whose transfers have not
\* started or are over.
Quiet(o) ==
  /\ ~Stage(o, "wait") /\ ~Stage(o, "finalize") => pending[o] \cup ok[o] \cup failed[o] = {}
  /\ Stage(o, "finalize") => Outstanding(o) = {}
  /\ ~Stage(o, "finalize") => endType[o] = "none" /\ revokeType[o] = "none"
  /\ ~InCall(o) => result[o] \in {"OK", "ERROR"}

\* An operation in a call.
Running(o) ==
  InCall(o) =>
    /\ state[o] \in {"PENDING", "MASTER_FAILED"}
    /\ state[o] = "PENDING" => replicas[o] # {}
    /\ state[o] # "PENDING" => /\ pending[o] \cup ok[o] \cup failed[o] = {}
                               /\ ~Single(call[o[1]].api)
    /\ result[o] \in {"EXISTS", "ERROR"}
    /\ result[o] = "EXISTS" => replicas[o] = {} /\ ~rpcError[o]
    /\ replicas[o] = {} => /\ endType[o] = "none" /\ revokeType[o] = "none"
                           /\ rpcError[o] \/ result[o] = "EXISTS"
    /\ pending[o] \cup ok[o] \cup failed[o] \subseteq Given(o)

\* Until it has decided, it holds its replicas.
Writing(o) == (Stage(o, "submit") \/ Stage(o, "wait")) /\ replicas[o] # {} => Held(o)

\* A decision to end one type, or all: the replicas of that type are written,
\* and what is not ended is revoked, in a flexible write only.
Ending(o) ==
  Stage(o, "finalize") /\ endType[o] # "none" =>
    /\ Held(o)
    /\ success[o] /\ state[o] = "PENDING"
    /\ Given(o) \cap OfType(endType[o]) \subseteq ok[o]
    /\ Given(o) \cap OfType(endType[o]) # {}
    /\ Given(o) \subseteq OfType(endType[o]) \cup OfType(revokeType[o])
    /\ Given(o) \cap OfType(endType[o]) \cap OfType(revokeType[o]) = {}
    /\ ~Flexible => Given(o) \subseteq OfType(endType[o]) /\ revokeType[o] = "none"

\* The replicas are ended, or the RPC failed.  The object is still that of the
\* operation as long as something is left to revoke.
Ended(o) ==
  Stage(o, "finalize") /\ endType[o] = "none" /\ success[o] =>
    /\ state[o] = "PENDING"
    /\ owner[o[2]] = o[1] /\ ~rpcError[o] =>
         /\ Readable(o[2]) # {}
         /\ Busy(o[2]) \subseteq OfType(revokeType[o])
         /\ ~Flexible => Given(o) \subseteq Readable(o[2])
    /\ revokeType[o] # "none" =>
         /\ Flexible
         /\ owner[o[2]] = o[1]
         /\ (Busy(o[2]) \ OfType(revokeType[o])) \cup Readable(o[2]) # {}

\* A decision to give the replicas back.
GivingUp(o) ==
  Stage(o, "finalize") /\ ~success[o] =>
    /\ endType[o] = "none"
    /\ revokeType[o] # "none" => Held(o) /\ Given(o) \subseteq OfType(revokeType[o])
    /\ revokeType[o] = "none" /\ ~rpcError[o] /\ owner[o[2]] = o[1] /\ replicas[o] # {} =>
         Busy(o[2]) = {} /\ Readable(o[2]) = {}

\* The call has returned, and nobody has started the object again.
Left(o) ==
  ~InCall(o) /\ owner[o[2]] = o[1] /\ replicas[o] # {} =>
    /\ ~rpcError[o] => Busy(o[2]) = {}
    /\ result[o] = "OK" =>
         /\ Readable(o[2]) # {}
         /\ ~Flexible => Given(o) \subseteq Readable(o[2])
    /\ result[o] = "ERROR" /\ ~rpcError[o] => Readable(o[2]) = {}

OpInv(o) ==
  /\ Allocated(o) /\ Quiet(o) /\ Running(o) /\ Writing(o)
  /\ Ending(o) /\ Ended(o) /\ GivingUp(o) /\ Left(o)

WriteInv ==
  /\ WriteTypes
  /\ \A t \in Thread : CallIsAccepted(t)
  /\ \A o \in Op : OpInv(o)
  /\ ReadableIsWritten

-----------------------------------------------------------------------------
(* Replica types. *)

\* What the types of the RPCs stand for.
LEMMA TypeFacts ==
  /\ OfType("ALL") = Transferable
  /\ OfType("MEMORY") = Memory /\ OfType("NOF_SSD") = Nof
  /\ OfType("none") = {}
  /\ OfType("DISK") \cap Transferable = {}
  /\ Transferable = Memory \cup Nof
  /\ Memory \cap Nof = {}
  /\ Transferable \subseteq Replica
<1>1. \A r \in Memory : r[1] = "MEMORY"
  BY Zenon DEF Memory
<1>2. \A r \in Nof : r[1] = "NOF_SSD"
  BY Zenon DEF Nof
<1>3. DiskReplica[1] = "DISK"
  BY Zenon DEF DiskReplica
<1> HIDE DEF Memory, Nof, DiskReplica
<1> QED
  BY Zenon, <1>1, <1>2, <1>3 DEF OfType, Transferable, Replica

\* A type names no replica that is not in its set, whatever the decision.
LEMMA TypeCases ==
  ASSUME NEW ty \in ReplicaType
  PROVE  /\ OfType(ty) \subseteq Transferable
         /\ ty = "ALL" \/ ty = "MEMORY" \/ ty = "NOF_SSD" \/ ty = "none"
BY Zenon, TypeFacts DEF ReplicaType

-----------------------------------------------------------------------------
(* Steps that leave an operation alone. *)

\* The call has not moved, as far as the operation can see.
SameStage(o) ==
  /\ InCall(o)' <=> InCall(o)
  /\ Stage(o, "submit")' <=> Stage(o, "submit")
  /\ Stage(o, "wait")' <=> Stage(o, "wait")
  /\ Stage(o, "finalize")' <=> Stage(o, "finalize")
  /\ InCall(o) => call'[o[1]].api = call[o[1]].api

\* Nor has anything else that belongs to it.
SameOp(o) ==
  /\ SameStage(o)
  /\ UNCHANGED <<state[o], result[o], replicas[o], pending[o], ok[o], failed[o],
                 endType[o], revokeType[o], success[o], rpcError[o]>>

\* What is the same then.
LEMMA OwnFields ==
  ASSUME NEW o \in Op, SameOp(o), config' = config
  PROVE  /\ Given(o)' = Given(o)
         /\ Flexible' = Flexible
         /\ Allocated(o) => Allocated(o)'
         /\ Quiet(o) => Quiet(o)'
         /\ Running(o) => Running(o)'
<1>1. Given(o)' = Given(o) /\ Flexible' = Flexible
  BY Zenon DEF Given, Flexible, SameOp
<1>2. Allocated(o) => Allocated(o)'
  BY Zenon, <1>1 DEF Allocated, SameOp
<1>3. Quiet(o) => Quiet(o)'
  BY Zenon, <1>1 DEF Quiet, SameOp, SameStage, Outstanding
<1>4. Running(o) => Running(o)'
  BY Zenon, <1>1 DEF Running, SameOp, SameStage
<1> QED
  BY Zenon, <1>1, <1>2, <1>3, <1>4

\* The object of the operation is as it was; perhaps more of it is written.
LEMMA FrameSame ==
  ASSUME NEW o \in Op, OpInv(o), SameOp(o), config' = config,
         owner'[o[2]] = owner[o[2]],
         Busy(o[2])' = Busy(o[2]), Readable(o[2])' = Readable(o[2]),
         written[o[2]] \subseteq written'[o[2]]
  PROVE  OpInv(o)'
<1>1. Held(o) => Held(o)'
  BY Zenon, OwnFields DEF Held, SameOp
<1>2. Writing(o)'
  BY Zenon, <1>1, OwnFields DEF OpInv, Writing, SameOp, SameStage
<1>3. Ending(o)'
  BY Zenon, <1>1, OwnFields DEF OpInv, Ending, SameOp, SameStage
<1>4. Ended(o)'
  BY Zenon, OwnFields DEF OpInv, Ended, SameOp, SameStage
<1>5. GivingUp(o)'
  BY Zenon, <1>1, OwnFields DEF OpInv, GivingUp, SameOp, SameStage
<1>6. Left(o)'
  BY Zenon, OwnFields DEF OpInv, Left, SameOp, SameStage
<1> QED
  BY Zenon, <1>2, <1>3, <1>4, <1>5, <1>6, OwnFields DEF OpInv

\* An operation that needs nothing of its object any more.
Through(o) ==
  /\ ~((Stage(o, "submit") \/ Stage(o, "wait")) /\ replicas[o] # {})
  /\ endType[o] = "none" /\ revokeType[o] = "none"

\* Somebody else has the key then.
LEMMA FrameLost ==
  ASSUME NEW o \in Op, OpInv(o), SameOp(o), config' = config,
         owner'[o[2]] # o[1], Through(o)
  PROVE  OpInv(o)'
<1>2. Writing(o)'
  BY Zenon DEF Through, Writing, SameOp, SameStage
<1>3. Ending(o)'
  BY Zenon DEF Through, Ending, SameOp, SameStage
<1>4. Ended(o)'
  BY Zenon DEF Through, OpInv, Ended, SameOp, SameStage
<1>5. GivingUp(o)'
  BY Zenon DEF Through, OpInv, GivingUp, SameOp, SameStage
<1>6. Left(o)'
  BY Zenon DEF Left
<1> QED
  BY Zenon, <1>2, <1>3, <1>4, <1>5, <1>6, OwnFields DEF OpInv

\* The owner of a key is the only one with business there.
LEMMA NotOwner ==
  ASSUME NEW o \in Op, OpInv(o), owner[o[2]] # o[1]
  PROVE  Through(o)
<1>1. ~Held(o)
  BY Zenon DEF Held
<1>2. ~((Stage(o, "submit") \/ Stage(o, "wait")) /\ replicas[o] # {})
  BY Zenon, <1>1 DEF OpInv, Writing
<1>3. endType[o] = "none"
  BY Zenon, <1>1 DEF OpInv, Ending, Quiet
<1>4. revokeType[o] = "none"
  BY Zenon, <1>1, <1>3 DEF OpInv, Ended, GivingUp, Quiet
<1> QED
  BY Zenon, <1>2, <1>3, <1>4 DEF Through

\* An object that can be started again, or removed, is of no more use to an
\* operation.
LEMMA NothingHeld ==
  ASSUME NEW o \in Op, OpInv(o), Busy(o[2]) = {}, Readable(o[2]) = {} \/ ~Flexible
  PROVE  Through(o)
<1>1. replicas[o] # {} => ~Held(o)
  BY Zenon DEF Held, OpInv, Allocated
<1>2. ~((Stage(o, "submit") \/ Stage(o, "wait")) /\ replicas[o] # {})
  BY Zenon, <1>1 DEF OpInv, Writing
<1>3. Stage(o, "finalize") => InCall(o)
  BY Zenon DEF Stage, InCall, At
<1>4. endType[o] = "none"
  BY Zenon, <1>1, <1>3 DEF OpInv, Ending, Quiet, Running
<1>5. revokeType[o] = "none"
  BY Zenon, <1>1, <1>3, <1>4 DEF OpInv, Ended, GivingUp, Quiet, Running
<1> QED
  BY Zenon, <1>2, <1>4, <1>5 DEF Through

-----------------------------------------------------------------------------
(* The invariant holds at first. *)

\* Before any call, nothing is started.
LEMMA WriteInvInit == Init => WriteInv
<1> SUFFICES ASSUME Init PROVE WriteInv
  BY Zenon
<1>1. MasterTypes
  BY Zenon DEF Init, MasterTypes
<1>2. OpTypes
  BY Zenon DEF Init, OpTypes, PutOperationState, ReplicaType
<1>3. \A t \in Thread : call[t] = Idle
  BY Zenon DEF Init
<1>4. \A t \in Thread : CallIsAccepted(t)
  BY <1>3 DEF CallIsAccepted, At, Idle
<1>5. ASSUME NEW o \in Op PROVE OpInv(o)
  <2>1. ~InCall(o) /\ ~Stage(o, "submit") /\ ~Stage(o, "wait") /\ ~Stage(o, "finalize")
    BY <1>3 DEF InCall, Stage, At, Idle, Op
  <2>2. /\ replicas[o] = {} /\ pending[o] = {} /\ ok[o] = {} /\ failed[o] = {}
        /\ endType[o] = "none" /\ revokeType[o] = "none" /\ result[o] = "ERROR"
    BY Zenon DEF Init
  <2> QED
    BY Zenon, <2>1, <2>2 DEF OpInv, Allocated, Quiet, Running, Writing, Ending, Ended, GivingUp, Left
<1>6. ReadableIsWritten
  BY Zenon DEF Init, ReadableIsWritten
<1> QED
  BY Zenon, <1>1, <1>2, <1>4, <1>5, <1>6 DEF WriteInv, WriteTypes

-----------------------------------------------------------------------------
(* The master removes objects, and the pool stores them in files. *)

\* A step that leaves the calls and their operations alone.
LEMMA CallsUntouched ==
  ASSUME WriteInv, UNCHANGED <<call, state, result, replicas, transferVars, decisionVars,
                               rpcError, config>>
  PROVE  /\ OpTypes'
         /\ \A t \in Thread : CallIsAccepted(t)'
         /\ \A o \in Op : SameOp(o)
<1>1. OpTypes'
  BY Zenon DEF WriteInv, WriteTypes, OpTypes, transferVars, decisionVars
<1>2. \A t \in Thread : CallIsAccepted(t)'
  BY Zenon DEF WriteInv, CallIsAccepted, At
<1>3. \A o \in Op : SameOp(o)
  BY Zenon DEF SameOp, SameStage, InCall, Stage, At, transferVars, decisionVars
<1> QED
  BY Zenon, <1>1, <1>2, <1>3

\* Remove takes an object away that nobody writes.
LEMMA RemoveKeeps ==
  ASSUME WriteInv, Scope, NEW k \in Key, Remove(k)
  PROVE  WriteInv'
<1>1. /\ config.removal /\ processing[k] = {}
      /\ owner' = [owner EXCEPT ![k] = None]
      /\ complete' = [complete EXCEPT ![k] = {}]
      /\ UNCHANGED <<processing, written, disk_tasks, abandoned, config>>
      /\ UNCHANGED <<call, state, result, replicas, transferVars, decisionVars, rpcError>>
  BY Zenon DEF Remove, diskVars
<1>2. /\ OpTypes'
      /\ \A t \in Thread : CallIsAccepted(t)'
      /\ \A o \in Op : SameOp(o)
  BY Zenon, <1>1, CallsUntouched
<1>3. MasterTypes
  BY Zenon DEF WriteInv, WriteTypes
<1>4. MasterTypes'
  BY Zenon, <1>1, <1>3 DEF MasterTypes
<1>5. ~Flexible
  BY Zenon, <1>1, <1>3 DEF MasterTypes, Scope, Flexible
<1>6. ASSUME NEW o \in Op PROVE OpInv(o)'
  <2>1. OpInv(o) /\ o[1] \in Thread /\ o[2] \in Key
    BY Zenon DEF WriteInv, Op
  <2>2. CASE o[2] = k
    <3>1. owner'[o[2]] # o[1]
      BY Zenon, <1>1, <1>3, <2>1, <2>2, NoThreadAssumption DEF MasterTypes
    <3>2. Busy(o[2]) = {}
      BY Zenon, <1>1, <2>2 DEF Busy
    <3> QED
      BY Zenon, <1>1, <1>2, <1>5, <2>1, <3>1, <3>2, NothingHeld, FrameLost
  <2>3. CASE o[2] # k
    <3>1. /\ owner'[o[2]] = owner[o[2]] /\ written'[o[2]] = written[o[2]]
          /\ Busy(o[2])' = Busy(o[2]) /\ Readable(o[2])' = Readable(o[2])
      BY Zenon, <1>1, <1>3, <2>1, <2>3 DEF MasterTypes, Busy, Readable
    <3> QED
      BY Zenon, <1>1, <1>2, <2>1, <3>1, FrameSame
  <2> QED
    BY Zenon, <2>2, <2>3
<1>7. ReadableIsWritten'
  BY Zenon, <1>1, <1>3 DEF WriteInv, ReadableIsWritten, MasterTypes
<1> QED
  BY Zenon, <1>2, <1>4, <1>6, <1>7 DEF WriteInv, WriteTypes

\* A step that touches disk replicas only.
LEMMA DiskOnly ==
  ASSUME WriteInv, MasterTypes', UNCHANGED <<owner, written, config>>,
         UNCHANGED <<call, state, result, replicas, transferVars, decisionVars, rpcError>>,
         \A k \in Key : Busy(k)' = Busy(k) /\ Readable(k)' = Readable(k)
  PROVE  WriteInv'
<1>1. /\ OpTypes'
      /\ \A t \in Thread : CallIsAccepted(t)'
      /\ \A o \in Op : SameOp(o)
  BY Zenon, CallsUntouched
<1>2. ASSUME NEW o \in Op PROVE OpInv(o)'
  <2>1. OpInv(o) /\ o[2] \in Key
    BY Zenon DEF WriteInv, Op
  <2> QED
    BY Zenon, <1>1, <2>1, FrameSame
<1>3. ReadableIsWritten'
  BY Zenon DEF WriteInv, ReadableIsWritten, Readable
<1> QED
  BY Zenon, <1>1, <1>2, <1>3 DEF WriteInv, WriteTypes

\* End and Revoke of disk replicas do not touch the others.
LEMMA DiskRpc ==
  ASSUME MasterTypes, NEW K, EndAt("DISK", K) \/ RevokeAt("DISK", K)
  PROVE  /\ UNCHANGED owner
         /\ processing' \in [Key -> SUBSET Replica] /\ complete' \in [Key -> SUBSET Replica]
         /\ \A k \in Key : Busy(k)' = Busy(k) /\ Readable(k)' = Readable(k)
<1>1. UNCHANGED owner
  BY Zenon DEF EndAt, RevokeAt
<1>2. processing' = [k \in Key |-> IF k \in K THEN processing[k] \ OfType("DISK")
                                              ELSE processing[k]]
  BY Zenon DEF EndAt, RevokeAt
<1>3. \/ complete' = complete
      \/ complete' = [k \in Key |-> IF k \in K THEN complete[k] \cup (processing[k] \cap OfType("DISK"))
                                               ELSE complete[k]]
  BY Zenon DEF EndAt, RevokeAt
<1>4. processing' \in [Key -> SUBSET Replica] /\ complete' \in [Key -> SUBSET Replica]
  BY Zenon, <1>2, <1>3 DEF MasterTypes
<1>5. ASSUME NEW k \in Key PROVE Busy(k)' = Busy(k) /\ Readable(k)' = Readable(k)
  BY Zenon, <1>2, <1>3, TypeFacts DEF Busy, Readable
<1> QED
  BY Zenon, <1>1, <1>4, <1>5

\* The write pool stores an object, and the master is told.
LEMMA PoolKeeps ==
  ASSUME WriteInv, NEW k \in Key, PoolStep(k)
  PROVE  WriteInv'
<1>1. MasterTypes
  BY Zenon DEF WriteInv, WriteTypes
<1>2. PICK d \in disk_tasks : d.key = k /\ (StoreObject(d) \/ FinishDisk(d))
  BY Zenon DEF PoolStep
<1>3. d \in DiskTask
  BY Zenon, <1>1 DEF MasterTypes
<1>4. CASE StoreObject(d)
  <2>1. /\ UNCHANGED <<config, owner, processing, written, abandoned>>
        /\ UNCHANGED <<call, state, result, replicas, transferVars, decisionVars, rpcError>>
    BY Zenon, <1>4 DEF StoreObject
  <2>2. disk_tasks' \in {(disk_tasks \ {d}) \cup {[key |-> d.key, stage |-> s]} :
                           s \in {"revoke", "end"}}
    BY Zenon, <1>4 DEF StoreObject
  <2>3. \/ complete' = complete
        \/ \E evicted : complete' = [j \in Key |-> IF j \in evicted THEN complete[j] \ {DiskReplica}
                                                                    ELSE complete[j]]
    BY Zenon, <1>4 DEF StoreObject
  <2>4. disk_tasks' \subseteq DiskTask
    BY <1>1, <1>3, <2>2 DEF MasterTypes, DiskTask
  <2>5. complete' \in [Key -> SUBSET Replica]
    BY Zenon, <1>1, <2>3 DEF MasterTypes
  <2>6. MasterTypes'
    BY Zenon, <1>1, <2>1, <2>4, <2>5 DEF MasterTypes
  <2>7. DiskReplica \notin Transferable
    BY Zenon DEF DiskReplica, Transferable, Memory, Nof
  <2>8. ASSUME NEW j \in Key PROVE Busy(j)' = Busy(j) /\ Readable(j)' = Readable(j)
    BY Zenon, <2>1, <2>3, <2>7 DEF Busy, Readable
  <2> QED
    BY Zenon, <2>1, <2>6, <2>8, DiskOnly
<1>5. CASE FinishDisk(d)
  <2>1. /\ UNCHANGED <<config, written>>
        /\ UNCHANGED <<call, state, result, replicas, transferVars, decisionVars, rpcError>>
        /\ disk_tasks' = disk_tasks \ {d}
        /\ abandoned' \in {abandoned, abandoned \cup {d.key}}
        /\ \/ EndAt("DISK", {d.key}) \/ RevokeAt("DISK", {d.key})
           \/ UNCHANGED masterVars
    BY Zenon, <1>5 DEF FinishDisk
  <2>2. /\ UNCHANGED owner
        /\ processing' \in [Key -> SUBSET Replica] /\ complete' \in [Key -> SUBSET Replica]
        /\ \A j \in Key : Busy(j)' = Busy(j) /\ Readable(j)' = Readable(j)
    BY Zenon, <1>1, <2>1, DiskRpc DEF masterVars, MasterTypes, Busy, Readable
  <2>3. MasterTypes'
    BY Zenon, <1>1, <1>3, <2>1, <2>2 DEF MasterTypes, DiskTask
  <2> QED
    BY Zenon, <2>1, <2>2, <2>3, DiskOnly
<1> QED
  BY Zenon, <1>2, <1>4, <1>5

-----------------------------------------------------------------------------
(* A call moves on. *)

\* Goto moves the operations of a call, and no others.
LEMMA GotoFacts ==
  ASSUME WriteInv, NEW t \in Thread, ~At(t, "idle"), NEW q \in {"wait", "finalize"}, Goto(t, q),
         config' = config
  PROVE  /\ call' \in [Thread -> Call \cup {Idle}]
         /\ \A u \in Thread : CallIsAccepted(u)'
         /\ \A o \in Op : o \notin Ops(t) => SameStage(o)
         /\ \A o \in Ops(t) : /\ o \in Op /\ o[1] = t /\ o[2] \in Key /\ OpInv(o)
                              /\ InCall(o) /\ InCall(o)' /\ Stage(o, q)'
                              /\ \A p : p # q => ~Stage(o, p)'
                              /\ call'[o[1]].api = call[o[1]].api
<1>1. call \in [Thread -> Call \cup {Idle}]
  BY Zenon DEF WriteInv, WriteTypes, OpTypes
<1>2. call[t] \in Call
  BY <1>1 DEF At, Idle
<1>3. call' = [call EXCEPT ![t] = [pc |-> q, api |-> call[t].api, keys |-> call[t].keys]]
  BY Zenon, <1>1 DEF Goto
<1>4. /\ call'[t].pc = q /\ call'[t].api = call[t].api /\ call'[t].keys = call[t].keys
      /\ \A u \in Thread : u # t => call'[u] = call[u]
  BY Zenon, <1>1, <1>3
<1>5. call'[t] \in Call
  BY Zenon, <1>1, <1>2, <1>3 DEF Call
<1>6. call' \in [Thread -> Call \cup {Idle}]
  BY Zenon, <1>1, <1>3, <1>4, <1>5
<1>7. ASSUME NEW u \in Thread PROVE CallIsAccepted(u)'
  BY Zenon, <1>4 DEF WriteInv, CallIsAccepted, At
<1>8. ASSUME NEW o \in Op, o \notin Ops(t) PROVE SameStage(o)
  <2>1. CASE o[1] = t
    <3>1. o[2] \notin call[t].keys
      BY Zenon, <1>8, <2>1 DEF Ops, Op
    <3> QED
      BY Zenon, <1>4, <2>1, <3>1 DEF SameStage, InCall, Stage
  <2>2. CASE o[1] # t
    <3>1. call'[o[1]] = call[o[1]]
      BY Zenon, <1>4, <2>2 DEF Op
    <3> QED
      BY Zenon, <3>1 DEF SameStage, InCall, Stage, At
  <2> QED
    BY Zenon, <2>1, <2>2
<1>9. ASSUME NEW o \in Ops(t)
      PROVE  /\ o \in Op /\ o[1] = t /\ o[2] \in Key /\ OpInv(o)
             /\ InCall(o) /\ InCall(o)' /\ Stage(o, q)'
             /\ \A p : p # q => ~Stage(o, p)'
             /\ call'[o[1]].api = call[o[1]].api
  <2>1. o[1] = t /\ o[2] \in call[t].keys /\ o \in Op /\ o[2] \in Key
    BY Zenon, <1>2 DEF Ops, Op, Call
  <2>2. q # "idle"
    BY Zenon
  <2> QED
    BY Zenon, <1>4, <2>1, <2>2 DEF WriteInv, InCall, Stage, At
<1> QED
  BY Zenon, <1>6, <1>7, <1>8, <1>9

\* What PutToLocalFile does: disk replicas only.
LEMMA PutToLocalFileFacts ==
  ASSUME MasterTypes, NEW S \in SUBSET Op, PutToLocalFile(S)
  PROVE  /\ UNCHANGED owner
         /\ processing' \in [Key -> SUBSET Replica] /\ complete' \in [Key -> SUBSET Replica]
         /\ \A k \in Key : Busy(k)' = Busy(k) /\ Readable(k)' = Readable(k)
         /\ disk_tasks' \subseteq DiskTask /\ abandoned' \subseteq Key
<1>1. PICK copied \in SUBSET S, revoked \in SUBSET S :
        /\ disk_tasks' = disk_tasks \cup {[key |-> o[2], stage |-> "store"] : o \in copied}
        /\ RevokeAt("DISK", {o[2] : o \in revoked})
        /\ abandoned' = abandoned \cup {o[2] : o \in (S \ copied) \ revoked}
  BY Zenon DEF PutToLocalFile
<1>2. \A o \in S : o[2] \in Key
  BY Zenon DEF Op
<1>3. disk_tasks' \subseteq DiskTask /\ abandoned' \subseteq Key
  BY <1>1, <1>2 DEF MasterTypes, DiskTask
<1> QED
  BY Zenon, <1>1, <1>3, DiskRpc

\* An operation has submitted transfers of replicas it was given.
LEMMA SubmittedKeeps ==
  ASSUME NEW o \in Op, OpInv(o), Stage(o, "submit"), Stage(o, "wait")', InCall(o)',
         ~Stage(o, "submit")', ~Stage(o, "finalize")', call'[o[1]].api = call[o[1]].api,
         config' = config, owner'[o[2]] = owner[o[2]],
         Busy(o[2])' = Busy(o[2]), Readable(o[2])' = Readable(o[2]),
         written'[o[2]] = written[o[2]],
         UNCHANGED <<state[o], result[o], replicas[o], ok[o], endType[o], revokeType[o],
                     rpcError[o]>>,
         pending'[o] \cup failed'[o] \subseteq Given(o),
         state[o] # "PENDING" => pending'[o] = {} /\ failed'[o] = {}
  PROVE  OpInv(o)'
<1>1. InCall(o) /\ ~Stage(o, "finalize") /\ ~Stage(o, "wait")
  BY Zenon DEF InCall, Stage, At
<1>2. Given(o)' = Given(o) /\ Flexible' = Flexible /\ Held(o)' = Held(o)
  BY Zenon DEF Given, Flexible, Held
<1>3. ok[o] = {}
  BY Zenon, <1>1 DEF OpInv, Quiet
<1>4. Allocated(o)'
  BY Zenon, <1>2 DEF OpInv, Allocated
<1>5. Quiet(o)' /\ Running(o)'
  BY Zenon, <1>1, <1>2, <1>3 DEF OpInv, Quiet, Running
<1>6. Writing(o)'
  BY Zenon, <1>2 DEF OpInv, Writing
<1> QED
  BY Zenon, <1>4, <1>5, <1>6 DEF OpInv, Ending, Ended, GivingUp, Left

\* The shape shared by the three ways to submit.
LEMMA SubmitShape ==
  ASSUME WriteInv, NEW t \in Thread, At(t, "submit"), Goto(t, "wait"),
         UNCHANGED <<config, owner, written, state, result, replicas, ok, decisionVars, rpcError>>,
         processing' \in [Key -> SUBSET Replica], complete' \in [Key -> SUBSET Replica],
         \A k \in Key : Busy(k)' = Busy(k) /\ Readable(k)' = Readable(k),
         disk_tasks' \subseteq DiskTask, abandoned' \subseteq Key,
         pending' \in [Op -> SUBSET Transferable], failed' \in [Op -> SUBSET Transferable],
         \A o \in Op : o \notin Ops(t) => UNCHANGED <<pending[o], failed[o]>>,
         \A o \in Ops(t) : pending'[o] \cup failed'[o] \subseteq Given(o),
         \A o \in Ops(t) : state[o] # "PENDING" => pending'[o] = {} /\ failed'[o] = {}
  PROVE  WriteInv'
<1>1. /\ call' \in [Thread -> Call \cup {Idle}]
      /\ \A u \in Thread : CallIsAccepted(u)'
      /\ \A o \in Op : o \notin Ops(t) => SameStage(o)
      /\ \A o \in Ops(t) : /\ o \in Op /\ o[1] = t /\ o[2] \in Key /\ OpInv(o)
                           /\ InCall(o) /\ InCall(o)' /\ Stage(o, "wait")'
                           /\ \A p : p # "wait" => ~Stage(o, p)'
                           /\ call'[o[1]].api = call[o[1]].api
  <2>1. ~At(t, "idle")
    BY Zenon DEF At
  <2> QED
    BY Zenon, <2>1, GotoFacts
<1>2. MasterTypes' /\ OpTypes'
  BY Zenon, <1>1 DEF WriteInv, WriteTypes, MasterTypes, OpTypes, decisionVars
<1>3. ASSUME NEW o \in Op, o \notin Ops(t) PROVE OpInv(o)'
  <2>1. SameOp(o)
    BY Zenon, <1>1, <1>3 DEF SameOp, decisionVars
  <2>2. OpInv(o) /\ o[2] \in Key
    BY Zenon DEF WriteInv, Op
  <2> QED
    BY Zenon, <2>1, <2>2, FrameSame
<1>4. ASSUME NEW o \in Ops(t) PROVE OpInv(o)'
  <2>1. Stage(o, "submit")
    BY Zenon DEF Stage, Ops
  <2>2. UNCHANGED <<state[o], result[o], replicas[o], ok[o], endType[o], revokeType[o],
                    rpcError[o]>>
    BY Zenon DEF decisionVars
  <2>3. ~Stage(o, "submit")' /\ ~Stage(o, "finalize")'
    BY Zenon, <1>1
  <2> QED
    BY Zenon, <1>1, <2>1, <2>2, <2>3, SubmittedKeeps
<1>5. ReadableIsWritten'
  BY Zenon DEF WriteInv, ReadableIsWritten, Readable
<1> QED
  BY Zenon, <1>1, <1>2, <1>3, <1>4, <1>5 DEF WriteInv, WriteTypes

\* The operations of a call that is running.
LEMMA OpsOfCall ==
  ASSUME WriteInv, NEW t \in Thread, ~At(t, "idle")
  PROVE  /\ call[t] \in Call
         /\ \A o \in Ops(t) : /\ o \in Op /\ o[1] = t /\ o[2] \in Key /\ o = <<t, o[2]>>
                              /\ OpInv(o) /\ InCall(o) /\ o[2] \in call[t].keys
<1>1. call[t] \in Call
  BY DEF WriteInv, WriteTypes, OpTypes, At, Idle
<1>2. ASSUME NEW o \in Ops(t)
      PROVE  /\ o \in Op /\ o[1] = t /\ o[2] \in Key /\ o = <<t, o[2]>>
             /\ o[2] \in call[t].keys
  BY <1>1 DEF Ops, Op, Call
<1> QED
  BY Zenon, <1>1, <1>2 DEF WriteInv, InCall

\* SubmitTransfers submits what was allocated.
LEMMA SubmitTransfersKeeps ==
  ASSUME WriteInv, NEW t \in Thread, SubmitTransfers(t)
  PROVE  WriteInv'
<1> DEFINE live == {o \in Unresolved(t) : replicas[o] # {}}
           wanted == UNION {{o} \X (replicas[o] \cap Transferable) : o \in live}
<1>1. PICK submitted \in SUBSET wanted :
        /\ pending' = [o \in Op |-> IF o \in live THEN {r \in replicas[o] : <<o, r>> \in submitted}
                                    ELSE pending[o]]
        /\ failed' = [o \in Op |-> IF o \in live
                                     THEN {r \in replicas[o] : <<o, r>> \in wanted \ submitted}
                                     ELSE failed[o]]
  BY Zenon DEF SubmitTransfers
<1>2. /\ At(t, "submit") /\ ~At(t, "idle") /\ Goto(t, "wait")
      /\ PutToLocalFile(WithDisk(live))
      /\ state' = [o \in Op |-> IF o \in Unresolved(t) \ live THEN "MASTER_FAILED" ELSE state[o]]
      /\ UNCHANGED <<config, written, result, replicas, ok, decisionVars, rpcError>>
  BY Zenon DEF SubmitTransfers, At
<1>3. \A o \in Ops(t) : o \in Op /\ OpInv(o) /\ InCall(o)
  BY Zenon, <1>2, OpsOfCall
<1>4. Unresolved(t) \subseteq Ops(t) /\ Unresolved(t) \ live = {}
  BY Zenon, <1>3 DEF Unresolved, OpInv, Running
<1>5. state' = state
  BY Zenon, <1>2, <1>4 DEF WriteInv, WriteTypes, OpTypes
<1>6. WithDisk(live) \in SUBSET Op
  BY Zenon, <1>3, <1>4 DEF WithDisk
<1>7. \A o, r : <<o, r>> \in wanted => o \in live /\ r \in Given(o)
  BY DEF Given
<1>8. \A o \in live : pending'[o] \cup failed'[o] \subseteq Given(o)
  <2> TAKE o \in live
  <2>1. o \in Op
    BY Zenon, <1>3, <1>4
  <2>2. /\ pending'[o] = {r \in replicas[o] : <<o, r>> \in submitted}
        /\ failed'[o] = {r \in replicas[o] : <<o, r>> \in wanted \ submitted}
    BY Zenon, <1>1, <2>1
  <2> HIDE DEF live, wanted
  <2> QED
    BY Zenon, <1>1, <1>7, <2>2
<1>9. \A o \in Op : o \notin live => UNCHANGED <<pending[o], failed[o]>>
  BY Zenon, <1>1
<1>10. \A o \in Ops(t) : o \notin live => pending[o] = {} /\ failed[o] = {} /\ state[o] # "PENDING"
  BY Zenon, <1>3 DEF OpInv, Running, Unresolved
<1>11. /\ \A o \in Ops(t) : pending'[o] \cup failed'[o] \subseteq Given(o)
       /\ \A o \in Ops(t) : state[o] # "PENDING" => pending'[o] = {} /\ failed'[o] = {}
  <2>1. \A o \in live : state[o] = "PENDING"
    BY Zenon DEF Unresolved
  <2> HIDE DEF live
  <2> QED
    BY Zenon, <1>3, <1>8, <1>9, <1>10, <2>1
<1>12. \A o \in Op : o \notin Ops(t) => UNCHANGED <<pending[o], failed[o]>>
  BY Zenon, <1>4, <1>9
<1>13. pending' \in [Op -> SUBSET Transferable] /\ failed' \in [Op -> SUBSET Transferable]
  <2>1. \A o \in Op : pending'[o] \subseteq Transferable /\ failed'[o] \subseteq Transferable
    BY Zenon, <1>8, <1>9 DEF WriteInv, WriteTypes, OpTypes, Given
  <2> QED
    BY Zenon, <1>1, <2>1
<1> HIDE DEF live, wanted
<1>14. /\ UNCHANGED owner
       /\ processing' \in [Key -> SUBSET Replica] /\ complete' \in [Key -> SUBSET Replica]
       /\ \A k \in Key : Busy(k)' = Busy(k) /\ Readable(k)' = Readable(k)
       /\ disk_tasks' \subseteq DiskTask /\ abandoned' \subseteq Key
  BY Zenon, <1>2, <1>6, PutToLocalFileFacts DEF WriteInv, WriteTypes
<1> QED
  BY Zenon, <1>2, <1>5, <1>11, <1>12, <1>13, <1>14, SubmitShape

\* BatchPutWhenPreferSameNode writes the one memory replica that it accepts.
LEMMA SubmitSegmentsKeeps ==
  ASSUME WriteInv, NEW t \in Thread, SubmitSegments(t)
  PROVE  WriteInv'
<1> DEFINE live == Unresolved(t)
<1>1. PICK submitted :
        /\ pending' = [o \in Op |-> IF o \in live /\ SegOf[o[2]] \in submitted
                                      THEN First("MEMORY", 1) ELSE pending[o]]
        /\ failed' = [o \in Op |-> IF o \in live /\ SegOf[o[2]] \notin submitted
                                     THEN First("MEMORY", 1) ELSE failed[o]]
  BY Zenon DEF SubmitSegments
<1>2. /\ At(t, "submit") /\ ~At(t, "idle") /\ Goto(t, "wait") /\ call[t].api = "SameNode"
      /\ UNCHANGED <<config, masterVars, written, diskVars, state, result, replicas, ok,
                     decisionVars, rpcError>>
  BY Zenon DEF SubmitSegments, At
<1>3. \A o \in Ops(t) : o \in Op /\ OpInv(o) /\ InCall(o) /\ o[1] = t
  BY Zenon, <1>2, OpsOfCall
<1>4. config.mem = 1 /\ config.nof = 0
  BY Zenon, <1>2 DEF WriteInv, CallIsAccepted
<1>5. First("NOF_SSD", 0) = {}
  BY DEF First
<1>6. \E r : First("MEMORY", 1) = {r}
  <2>1. First("MEMORY", 1) = {<<"MEMORY", 1>>}
    BY DEF First
  <2> QED
    BY Zenon, <2>1
<1>7. \A o \in live : o \in Ops(t) /\ Given(o) = First("MEMORY", 1)
  <2> TAKE o \in live
  <2>1. o \in Ops(t) /\ state[o] = "PENDING"
    BY Zenon DEF Unresolved
  <2>2. replicas[o] # {}
    BY Zenon, <1>3, <2>1 DEF OpInv, Running
  <2>3. Given(o) # {} /\ Given(o) \subseteq First("MEMORY", 1) \cup First("NOF_SSD", 0)
    BY Zenon, <1>3, <1>4, <2>1, <2>2 DEF OpInv, Allocated
  <2> HIDE DEF First
  <2> QED
    BY Zenon, <1>5, <1>6, <2>1, <2>3
<1>8. \A o \in Op : o \notin live => UNCHANGED <<pending[o], failed[o]>>
  BY Zenon, <1>1
<1>9. ASSUME NEW o \in live PROVE pending'[o] \cup failed'[o] \subseteq Given(o)
  <2>1. o \in Op /\ OpInv(o) /\ InCall(o)
    BY Zenon, <1>3, <1>7
  <2>2. pending[o] \cup failed[o] \subseteq Given(o)
    BY Zenon, <2>1 DEF OpInv, Running
  <2> QED
    BY Zenon, <1>1, <1>7, <2>1, <2>2
<1>10. \A o \in Ops(t) : o \notin live => pending[o] = {} /\ failed[o] = {} /\ state[o] # "PENDING"
  BY Zenon, <1>3 DEF OpInv, Running, Unresolved
<1>11. /\ \A o \in Ops(t) : pending'[o] \cup failed'[o] \subseteq Given(o)
       /\ \A o \in Ops(t) : state[o] # "PENDING" => pending'[o] = {} /\ failed'[o] = {}
  <2>1. \A o \in live : state[o] = "PENDING"
    BY Zenon DEF Unresolved
  <2> HIDE DEF live
  <2> QED
    BY Zenon, <1>3, <1>8, <1>9, <1>10, <2>1
<1>12. \A o \in Op : o \notin Ops(t) => UNCHANGED <<pending[o], failed[o]>>
  BY Zenon, <1>7, <1>8
<1>13. pending' \in [Op -> SUBSET Transferable] /\ failed' \in [Op -> SUBSET Transferable]
  <2>1. \A o \in Op : pending'[o] \subseteq Transferable /\ failed'[o] \subseteq Transferable
    BY Zenon, <1>8, <1>9 DEF WriteInv, WriteTypes, OpTypes, Given
  <2> QED
    BY Zenon, <1>1, <2>1
<1>14. /\ UNCHANGED <<owner, written>>
       /\ processing' \in [Key -> SUBSET Replica] /\ complete' \in [Key -> SUBSET Replica]
       /\ \A k \in Key : Busy(k)' = Busy(k) /\ Readable(k)' = Readable(k)
       /\ disk_tasks' \subseteq DiskTask /\ abandoned' \subseteq Key
  BY Zenon, <1>2 DEF WriteInv, WriteTypes, MasterTypes, masterVars, diskVars, Busy, Readable
<1> QED
  BY Zenon, <1>2, <1>11, <1>12, <1>13, <1>14, SubmitShape

\* Put and Upsert submit only the disk replica at first.
LEMMA SubmitDiskKeeps ==
  ASSUME WriteInv, NEW t \in Thread, SubmitDisk(t)
  PROVE  WriteInv'
<1>1. /\ At(t, "submit") /\ ~At(t, "idle") /\ Goto(t, "wait")
      /\ PutToLocalFile(WithDisk(Ops(t)))
      /\ UNCHANGED <<config, written, state, result, replicas, transferVars,
                     decisionVars, rpcError>>
  BY Zenon DEF SubmitDisk, At
<1>2. \A o \in Ops(t) : o \in Op /\ OpInv(o) /\ InCall(o)
  BY Zenon, <1>1, OpsOfCall
<1>3. WithDisk(Ops(t)) \in SUBSET Op
  BY Zenon, <1>2 DEF WithDisk
<1>4. /\ UNCHANGED owner
      /\ processing' \in [Key -> SUBSET Replica] /\ complete' \in [Key -> SUBSET Replica]
      /\ \A k \in Key : Busy(k)' = Busy(k) /\ Readable(k)' = Readable(k)
      /\ disk_tasks' \subseteq DiskTask /\ abandoned' \subseteq Key
  BY Zenon, <1>1, <1>3, PutToLocalFileFacts DEF WriteInv, WriteTypes
<1>5. /\ UNCHANGED <<pending, ok, failed>>
      /\ pending' \in [Op -> SUBSET Transferable] /\ failed' \in [Op -> SUBSET Transferable]
  BY Zenon, <1>1 DEF transferVars, WriteInv, WriteTypes, OpTypes
<1>6. \A o \in Ops(t) : /\ pending'[o] \cup failed'[o] \subseteq Given(o)
                        /\ state[o] # "PENDING" => pending'[o] = {} /\ failed'[o] = {}
  BY Zenon, <1>2, <1>5 DEF OpInv, Running
<1> QED
  BY Zenon, <1>1, <1>4, <1>5, <1>6, SubmitShape

-----------------------------------------------------------------------------
(* Transfers. *)

\* The transfers of an operation go on, within what it was given.
LEMMA TransferFrame ==
  ASSUME NEW o \in Op, OpInv(o), Stage(o, "wait"), SameStage(o), state[o] = "PENDING",
         UNCHANGED <<state[o], result[o], replicas[o], endType[o], revokeType[o], success[o],
                     rpcError[o]>>,
         config' = config, owner'[o[2]] = owner[o[2]],
         Busy(o[2])' = Busy(o[2]), Readable(o[2])' = Readable(o[2]),
         pending'[o] \cup ok'[o] \cup failed'[o] \subseteq Given(o),
         ok'[o] \subseteq written'[o[2]]
  PROVE  OpInv(o)'
<1>1. InCall(o) /\ ~Stage(o, "finalize") /\ ~Stage(o, "submit")
  BY Zenon DEF InCall, Stage, At
<1>2. Given(o)' = Given(o) /\ Flexible' = Flexible
  BY Zenon DEF Given, Flexible
<1>3. Allocated(o)' /\ Quiet(o)'
  BY Zenon, <1>1, <1>2 DEF OpInv, Allocated, Quiet, SameStage
<1>4. Running(o)'
  BY Zenon, <1>1, <1>2 DEF OpInv, Running, SameStage
<1>5. replicas[o] # {} => Held(o)
  BY Zenon DEF OpInv, Writing
<1>6. Writing(o)'
  BY Zenon, <1>2, <1>5 DEF Writing, Held
<1>7. ~Stage(o, "finalize")' /\ InCall(o)'
  BY Zenon, <1>1 DEF SameStage
<1> QED
  BY Zenon, <1>3, <1>4, <1>6, <1>7 DEF OpInv, Ending, Ended, GivingUp, Left

\* TransferWrite writes a replica that was allocated.
LEMMA TransferWriteKeeps ==
  ASSUME WriteInv, NEW t \in Thread, TransferWrite(t)
  PROVE  WriteInv'
<1>1. PICK o \in Ops(t) : \E r \in Todo(o) :
        \/ pending' = [pending EXCEPT ![o] = @ \cup {r}] /\ UNCHANGED failed
        \/ failed' = [failed EXCEPT ![o] = @ \cup {r}] /\ UNCHANGED pending
  BY Zenon DEF TransferWrite
<1>2. PICK r \in Todo(o) :
        \/ pending' = [pending EXCEPT ![o] = @ \cup {r}] /\ UNCHANGED failed
        \/ failed' = [failed EXCEPT ![o] = @ \cup {r}] /\ UNCHANGED pending
  BY Zenon, <1>1
<1>3. /\ At(t, "wait") /\ ~At(t, "idle")
      /\ UNCHANGED <<config, masterVars, written, diskVars, call, state, result, replicas, ok,
                     decisionVars, rpcError>>
  BY Zenon DEF TransferWrite, At
<1>4. o \in Op /\ o[1] = t /\ o[2] \in Key /\ OpInv(o) /\ InCall(o) /\ Stage(o, "wait")
  BY Zenon, <1>3, OpsOfCall DEF Stage
<1>5. call[o[1]].api \in {"Put", "Upsert"} /\ r \in Given(o)
  <2>1. call[o[1]].api = "Put" => Todo(o) \subseteq Given(o)
    BY Zenon DEF Todo, Given
  <2>2. call[o[1]].api = "Upsert" => Todo(o) \subseteq Given(o)
    BY Zenon DEF Todo, Given, Transferable
  <2>3. call[o[1]].api \notin {"Put", "Upsert"} => Todo(o) = {}
    BY Zenon DEF Todo
  <2> QED
    BY Zenon, <2>1, <2>2, <2>3
<1>6. state[o] = "PENDING" /\ pending[o] \cup ok[o] \cup failed[o] \subseteq Given(o)
  BY Zenon, <1>4, <1>5 DEF OpInv, Running, Single
<1>7. /\ pending \in [Op -> SUBSET Transferable] /\ failed \in [Op -> SUBSET Transferable]
      /\ r \in Transferable
  BY Zenon, <1>5 DEF WriteInv, WriteTypes, OpTypes, Given
<1>8. /\ pending' \in [Op -> SUBSET Transferable] /\ failed' \in [Op -> SUBSET Transferable]
      /\ pending'[o] \cup failed'[o] \subseteq Given(o)
      /\ \A p \in Op : p # o => UNCHANGED <<pending[p], failed[p]>>
  BY <1>2, <1>4, <1>5, <1>6, <1>7
<1>9. MasterTypes' /\ OpTypes'
  BY Zenon, <1>3, <1>8 DEF WriteInv, WriteTypes, MasterTypes, OpTypes, masterVars, diskVars, decisionVars
<1>10. \A p \in Op : SameStage(p)
  BY Zenon, <1>3 DEF SameStage, InCall, Stage, At
<1>11. \A k \in Key : /\ Busy(k)' = Busy(k) /\ Readable(k)' = Readable(k)
                      /\ owner'[k] = owner[k] /\ written'[k] = written[k]
  BY Zenon, <1>3 DEF masterVars, Busy, Readable
<1>12. ASSUME NEW p \in Op PROVE OpInv(p)'
  <2>1. CASE p = o
    <3>1. replicas[o] # {} => Held(o)
      BY Zenon, <1>4 DEF OpInv, Writing
    <3>2. ok'[o] \subseteq written'[o[2]]
      BY Zenon, <1>3, <1>5, <3>1 DEF Held, Given
    <3>3. UNCHANGED <<state[o], result[o], replicas[o], endType[o], revokeType[o], success[o],
                      rpcError[o], config, ok[o]>>
      BY Zenon, <1>3 DEF decisionVars
    <3>4. pending'[o] \cup ok'[o] \cup failed'[o] \subseteq Given(o)
      BY Zenon, <1>6, <1>8, <3>3
    <3> QED
      BY Zenon, <1>4, <1>6, <1>10, <1>11, <2>1, <3>2, <3>3, <3>4, TransferFrame
  <2>2. CASE p # o
    <3>1. SameOp(p) /\ OpInv(p) /\ p[2] \in Key
      BY Zenon, <1>3, <1>8, <1>10, <2>2 DEF SameOp, decisionVars, WriteInv, Op
    <3> QED
      BY Zenon, <1>3, <1>11, <3>1, FrameSame
  <2> QED
    BY Zenon, <2>1, <2>2
<1>13. \A u \in Thread : CallIsAccepted(u)'
  BY Zenon, <1>3 DEF WriteInv, CallIsAccepted, At
<1>14. ReadableIsWritten'
  BY Zenon, <1>11 DEF WriteInv, ReadableIsWritten, Readable
<1> QED
  BY Zenon, <1>9, <1>12, <1>13, <1>14 DEF WriteInv, WriteTypes

\* A transfer that ends well has written its replica.
LEMMA TransferEndsKeeps ==
  ASSUME WriteInv, NEW t \in Thread, TransferEnds(t)
  PROVE  WriteInv'
<1>1. PICK o \in Ops(t) : \E r \in Outstanding(o) :
       LET together == IF call[t].api # "SameNode" THEN {o}
                       ELSE {p \in Ops(t) : SegOf[p[2]] = SegOf[o[2]] /\ r \in Outstanding(p)}
           Add(f) == [p \in Op |-> IF p \in together THEN f[p] \cup {r} ELSE f[p]]
       IN
       \/ /\ ok' = Add(ok)
          /\ written' = [k \in Key |-> IF <<t, k>> \in together THEN written[k] \cup {r}
                                                                 ELSE written[k]]
          /\ UNCHANGED failed
       \/ failed' = Add(failed) /\ UNCHANGED <<ok, written>>
  BY Zenon DEF TransferEnds
<1>0. PICK r \in Outstanding(o) :
       LET together == IF call[t].api # "SameNode" THEN {o}
                       ELSE {p \in Ops(t) : SegOf[p[2]] = SegOf[o[2]] /\ r \in Outstanding(p)}
           Add(f) == [p \in Op |-> IF p \in together THEN f[p] \cup {r} ELSE f[p]]
       IN
       \/ /\ ok' = Add(ok)
          /\ written' = [k \in Key |-> IF <<t, k>> \in together THEN written[k] \cup {r}
                                                                 ELSE written[k]]
          /\ UNCHANGED failed
       \/ failed' = Add(failed) /\ UNCHANGED <<ok, written>>
  BY Zenon, <1>1
<1> DEFINE together == IF call[t].api # "SameNode" THEN {o}
                       ELSE {p \in Ops(t) : SegOf[p[2]] = SegOf[o[2]] /\ r \in Outstanding(p)}
<1>2. /\ At(t, "wait") /\ ~At(t, "idle")
      /\ UNCHANGED <<config, masterVars, diskVars, call, state, result, replicas, pending,
                     decisionVars, rpcError>>
  BY Zenon DEF TransferEnds, At
<1>3. together \subseteq Ops(t) /\ \A p \in together : r \in Outstanding(p)
  BY Zenon
<1>4. \/ /\ ok' = [p \in Op |-> IF p \in together THEN ok[p] \cup {r} ELSE ok[p]]
         /\ written' = [k \in Key |-> IF <<t, k>> \in together THEN written[k] \cup {r}
                                                                ELSE written[k]]
         /\ UNCHANGED failed
      \/ /\ failed' = [p \in Op |-> IF p \in together THEN failed[p] \cup {r} ELSE failed[p]]
         /\ UNCHANGED <<ok, written>>
  BY Zenon, <1>0
<1> HIDE DEF together
<1>5. \A p \in together :
        /\ p \in Op /\ p[1] = t /\ p[2] \in Key /\ p = <<t, p[2]>> /\ OpInv(p) /\ InCall(p)
        /\ Stage(p, "wait") /\ r \in pending[p]
  BY <1>2, <1>3, OpsOfCall DEF Stage, Outstanding
<1>6. \A p \in together : /\ state[p] = "PENDING" /\ r \in Given(p)
                          /\ pending[p] \cup ok[p] \cup failed[p] \subseteq Given(p)
  BY Zenon, <1>5 DEF OpInv, Running
<1>7. /\ ok \in [Op -> SUBSET Transferable] /\ failed \in [Op -> SUBSET Transferable]
      /\ written \in [Key -> SUBSET Transferable]
  BY Zenon DEF WriteInv, WriteTypes, OpTypes, MasterTypes
<1>8. together # {} => r \in Transferable
  BY Zenon, <1>6 DEF Given
<1>9. /\ ok' \in [Op -> SUBSET Transferable] /\ failed' \in [Op -> SUBSET Transferable]
      /\ written' \in [Key -> SUBSET Transferable]
  <2>1. \A p \in Op : ok[p] \in SUBSET Transferable /\ failed[p] \in SUBSET Transferable
    BY Zenon, <1>7
  <2>2. \A k \in Key : written[k] \in SUBSET Transferable
    BY Zenon, <1>7
  <2>3. \A p \in Op : /\ p \in together => ok[p] \cup {r} \in SUBSET Transferable
                      /\ p \in together => failed[p] \cup {r} \in SUBSET Transferable
    BY Zenon, <1>8, <2>1
  <2>4. \A k \in Key : <<t, k>> \in together => written[k] \cup {r} \in SUBSET Transferable
    BY Zenon, <1>8, <2>2
  <2>5. CASE failed' = [p \in Op |-> IF p \in together THEN failed[p] \cup {r} ELSE failed[p]]
             /\ UNCHANGED <<ok, written>>
    BY Zenon, <1>7, <2>1, <2>3, <2>5
  <2>6. CASE /\ ok' = [p \in Op |-> IF p \in together THEN ok[p] \cup {r} ELSE ok[p]]
             /\ written' = [k \in Key |-> IF <<t, k>> \in together THEN written[k] \cup {r}
                                                                    ELSE written[k]]
             /\ UNCHANGED failed
    BY Zenon, <1>7, <2>1, <2>2, <2>3, <2>4, <2>6
  <2> QED
    BY Zenon, <1>4, <2>5, <2>6
<1>10. \A k \in Key : written[k] \subseteq written'[k]
  BY Zenon, <1>4
<1>11. \A p \in Op : p \notin together => UNCHANGED <<ok[p], failed[p]>>
  BY Zenon, <1>4
<1>12. ASSUME NEW p \in together
       PROVE  /\ ok'[p] \cup failed'[p] \subseteq Given(p)
              /\ ok[p] \subseteq written[p[2]] => ok'[p] \subseteq written'[p[2]]
  <2>1. p \in Op /\ p[2] \in Key /\ <<t, p[2]>> \in together /\ r \in Given(p)
        /\ pending[p] \cup ok[p] \cup failed[p] \subseteq Given(p)
    BY Zenon, <1>5, <1>6
  <2>2. CASE UNCHANGED <<ok, written>>
    BY Zenon, <1>4, <2>1, <2>2
  <2>3. CASE /\ ok' = [q \in Op |-> IF q \in together THEN ok[q] \cup {r} ELSE ok[q]]
             /\ written' = [k \in Key |-> IF <<t, k>> \in together THEN written[k] \cup {r}
                                                                    ELSE written[k]]
             /\ UNCHANGED failed
    <3>1. ok'[p] = ok[p] \cup {r} /\ written'[p[2]] = written[p[2]] \cup {r}
      BY Zenon, <2>1, <2>3
    <3> QED
      BY Zenon, <2>1, <2>3, <3>1
  <2> QED
    BY Zenon, <1>4, <2>2, <2>3
<1>13. MasterTypes' /\ OpTypes'
  BY Zenon, <1>2, <1>9 DEF WriteInv, WriteTypes, MasterTypes, OpTypes, masterVars, diskVars, decisionVars
<1>14. \A p \in Op : SameStage(p)
  BY Zenon, <1>2 DEF SameStage, InCall, Stage, At
<1>15. \A k \in Key : /\ Busy(k)' = Busy(k) /\ Readable(k)' = Readable(k)
                      /\ owner'[k] = owner[k]
  BY Zenon, <1>2 DEF masterVars, Busy, Readable
<1>16. ASSUME NEW p \in Op PROVE OpInv(p)'
  <2>1. CASE p \in together
    <3>1. Held(p)
      BY Zenon, <1>5, <1>6, <2>1 DEF OpInv, Writing, Given
    <3>2. ok'[p] \subseteq written'[p[2]]
      BY Zenon, <1>12, <2>1, <3>1 DEF Held
    <3>3. UNCHANGED <<state[p], result[p], replicas[p], endType[p], revokeType[p], success[p],
                      rpcError[p], config, pending[p]>>
      BY Zenon, <1>2 DEF decisionVars
    <3>4. pending'[p] \cup ok'[p] \cup failed'[p] \subseteq Given(p)
      BY Zenon, <1>6, <1>12, <2>1, <3>3
    <3> QED
      BY Zenon, <1>5, <1>6, <1>14, <1>15, <2>1, <3>2, <3>3, <3>4, TransferFrame
  <2>2. CASE p \notin together
    <3>1. SameOp(p) /\ OpInv(p) /\ p[2] \in Key
      BY Zenon, <1>2, <1>11, <1>14, <2>2 DEF SameOp, decisionVars, WriteInv, Op
    <3> QED
      BY Zenon, <1>2, <1>10, <1>15, <3>1, FrameSame
  <2> QED
    BY Zenon, <2>1, <2>2
<1>17. \A u \in Thread : CallIsAccepted(u)'
  BY Zenon, <1>2 DEF WriteInv, CallIsAccepted, At
<1>18. ReadableIsWritten'
  BY Zenon, <1>10, <1>15 DEF WriteInv, ReadableIsWritten, Readable
<1> QED
  BY Zenon, <1>13, <1>16, <1>17, <1>18 DEF WriteInv, WriteTypes

-----------------------------------------------------------------------------
(* The finalize decision. *)

\* A decision commits replicas that were written, and gives back the others.
SoundDecision(o, D) ==
  /\ D.success \in BOOLEAN /\ D.end \in ReplicaType /\ D.revoke \in ReplicaType
  /\ D.success => /\ D.end # "none"
                  /\ state[o] = "PENDING"
                  /\ Given(o) \cap OfType(D.end) \subseteq ok[o]
                  /\ Given(o) \cap OfType(D.end) # {}
                  /\ Given(o) \subseteq OfType(D.end) \cup OfType(D.revoke)
                  /\ Given(o) \cap OfType(D.end) \cap OfType(D.revoke) = {}
                  /\ ~Flexible => Given(o) \subseteq OfType(D.end) /\ D.revoke = "none"
  /\ ~D.success => /\ D.end = "none"
                   /\ replicas[o] # {} => D.revoke # "none" /\ Given(o) \subseteq OfType(D.revoke)
  /\ replicas[o] = {} => D.end = "none" /\ D.revoke = "none"

\* The master hands out at most one replica of each type for a flexible write.
LEMMA FlexibleGiven ==
  ASSUME NEW o \in Op, Flexible, Allocated(o), replicas[o] # {}
  PROVE  \E m \in Memory, n \in Nof : Given(o) \subseteq {m, n}
<1>1. First("MEMORY", 1) = {<<"MEMORY", 1>>} /\ First("NOF_SSD", 1) = {<<"NOF_SSD", 1>>}
  BY DEF First
<1>2. <<"MEMORY", 1>> \in Memory /\ <<"NOF_SSD", 1>> \in Nof
  BY Zenon DEF Memory, Nof
<1>3. Given(o) \subseteq First("MEMORY", 1) \cup First("NOF_SSD", 1)
  BY Zenon DEF Allocated, Flexible
<1> QED
  BY <1>1, <1>2, <1>3

\* DetermineFinalizeDecision (lines 253-312) is sound.
LEMMA DecisionSound ==
  ASSUME NEW o \in Op, Allocated(o), replicas[o] # {}, state[o] = "PENDING", ok[o] \subseteq Given(o)
  PROVE  SoundDecision(o, Decision(replicas[o], ok[o], failed[o]))
<1> DEFINE D == Decision(replicas[o], ok[o], failed[o])
<1> SUFFICES SoundDecision(o, D)
  BY Zenon
<1>1. Given(o) # {} /\ Given(o) \subseteq Memory \cup Nof /\ ok[o] \subseteq Memory \cup Nof
  BY Zenon DEF Allocated, Given, Transferable
<1>2. CASE ~Flexible
  <2>1. \/ D = Commit("ALL") /\ Given(o) = ok[o]
        \/ D = GiveUp("ALL")
    BY Zenon, <1>2 DEF Decision, AllTransfersSucceeded, Given
  <2> HIDE DEF D
  <2>2. CASE D = Commit("ALL") /\ Given(o) = ok[o]
    <3>1. D.end = "ALL" /\ D.revoke = "none" /\ D.success = TRUE
      BY Zenon, <2>2 DEF Commit
    <3>2. OfType(D.end) = Transferable /\ OfType(D.revoke) = {}
      BY Zenon, <3>1, TypeFacts
    <3>3. Transferable = Memory \cup Nof /\ Memory \cap Nof = {}
      BY Zenon, TypeFacts
    <3> HIDE DEF Memory, Nof, OfType
    <3> QED
      BY Zenon, <1>1, <1>2, <2>2, <3>1, <3>2, <3>3 DEF SoundDecision, ReplicaType
  <2>3. CASE D = GiveUp("ALL")
    <3>1. D.end = "none" /\ D.revoke = "ALL" /\ D.success = FALSE
      BY Zenon, <2>3 DEF GiveUp
    <3>2. OfType(D.end) = {} /\ OfType(D.revoke) = Transferable
      BY Zenon, <3>1, TypeFacts
    <3>3. Transferable = Memory \cup Nof /\ Memory \cap Nof = {}
      BY Zenon, TypeFacts
    <3> HIDE DEF Memory, Nof, OfType
    <3> QED
      BY Zenon, <1>1, <1>2, <3>1, <3>2, <3>3 DEF SoundDecision, ReplicaType
  <2> QED
    BY Zenon, <2>1, <2>2, <2>3 DEF D
<1>3. CASE Flexible
  <2>1. PICK m \in Memory, n \in Nof : Given(o) \subseteq {m, n}
    BY Zenon, <1>3, FlexibleGiven
  <2>2. Memory \cap Nof = {}
    BY Zenon, TypeFacts
  <2>3. ok[o] \cap Memory # {} => m \in ok[o]
    BY Zenon, <2>1, <2>2
  <2>4. ok[o] \cap Nof # {} => n \in ok[o]
    BY Zenon, <2>1, <2>2
  <2>5. Given(o) \cap Memory \subseteq {m} /\ Given(o) \cap Nof \subseteq {n}
    BY Zenon, <2>1, <2>2
  <2>6. \/ D = Commit("ALL") /\ m \in ok[o] /\ n \in ok[o]
        \/ D = CommitOnly("MEMORY", "NOF_SSD") /\ m \in ok[o]
        \/ D = CommitOnly("NOF_SSD", "MEMORY") /\ n \in ok[o]
        \/ D = GiveUp("ALL")
    BY Zenon, <1>3, <2>3, <2>4 DEF Decision
  <2> HIDE DEF D
  <2>7. CASE D = Commit("ALL") /\ m \in ok[o] /\ n \in ok[o]
    <3>1. D.end = "ALL" /\ D.revoke = "none" /\ D.success = TRUE
      BY Zenon, <2>7 DEF Commit
    <3>2. OfType(D.end) = Transferable /\ OfType(D.revoke) = {}
      BY Zenon, <3>1, TypeFacts
    <3>3. Transferable = Memory \cup Nof /\ Memory \cap Nof = {}
      BY Zenon, TypeFacts
    <3> HIDE DEF Memory, Nof, OfType
    <3> QED
      BY Zenon, <1>1, <1>3, <2>1, <2>7, <3>1, <3>2, <3>3 DEF SoundDecision, ReplicaType
  <2>8. CASE D = CommitOnly("MEMORY", "NOF_SSD") /\ m \in ok[o]
    <3>1. D.end = "MEMORY" /\ D.revoke = "NOF_SSD" /\ D.success = TRUE
      BY Zenon, <2>8 DEF CommitOnly
    <3>2. OfType(D.end) = Memory /\ OfType(D.revoke) = Nof
      BY Zenon, <3>1, TypeFacts
    <3>3. Transferable = Memory \cup Nof /\ Memory \cap Nof = {}
      BY Zenon, TypeFacts
    <3> HIDE DEF Memory, Nof, OfType
    <3> QED
      BY Zenon, <1>1, <1>3, <2>3, <2>5, <2>8, <3>1, <3>2, <3>3 DEF SoundDecision, ReplicaType
  <2>9. CASE D = CommitOnly("NOF_SSD", "MEMORY") /\ n \in ok[o]
    <3>1. D.end = "NOF_SSD" /\ D.revoke = "MEMORY" /\ D.success = TRUE
      BY Zenon, <2>9 DEF CommitOnly
    <3>2. OfType(D.end) = Nof /\ OfType(D.revoke) = Memory
      BY Zenon, <3>1, TypeFacts
    <3>3. Transferable = Memory \cup Nof /\ Memory \cap Nof = {}
      BY Zenon, TypeFacts
    <3> HIDE DEF Memory, Nof, OfType
    <3> QED
      BY Zenon, <1>1, <1>3, <2>4, <2>5, <2>9, <3>1, <3>2, <3>3 DEF SoundDecision, ReplicaType
  <2>10. CASE D = GiveUp("ALL")
    <3>1. D.end = "none" /\ D.revoke = "ALL" /\ D.success = FALSE
      BY Zenon, <2>10 DEF GiveUp
    <3>2. OfType(D.end) = {} /\ OfType(D.revoke) = Transferable
      BY Zenon, <3>1, TypeFacts
    <3>3. Transferable = Memory \cup Nof /\ Memory \cap Nof = {}
      BY Zenon, TypeFacts
    <3> HIDE DEF Memory, Nof, OfType
    <3> QED
      BY Zenon, <1>1, <1>3, <3>1, <3>2, <3>3 DEF SoundDecision, ReplicaType
  <2> QED
    BY Zenon, <2>6, <2>7, <2>8, <2>9, <2>10 DEF D
<1> QED
  BY Zenon, <1>2, <1>3

\* Upsert writes memory replicas, all of them or it gives up.
LEMMA UpsertSound ==
  ASSUME NEW o \in Op, Allocated(o), replicas[o] # {}, state[o] = "PENDING",
         config.nof = 0, call[o[1]].api = "Upsert", Todo(o) = {}
  PROVE  SoundDecision(o, FinalizeUpsert(o))
<1>1. First("NOF_SSD", 0) = {} /\ First("MEMORY", config.mem) \cap Nof = {}
  BY DEF First, Nof
<1>2. Given(o) # {} /\ Given(o) \subseteq Memory
  BY Zenon, <1>1 DEF Allocated, Given, Transferable
<1>3. failed[o] = {} => Given(o) \subseteq ok[o]
  BY Zenon, <1>2 DEF Todo, Given
<1>4. ~Flexible
  BY DEF Flexible
<1>5. CASE failed[o] = {}
  <2>1. FinalizeUpsert(o) = Commit("MEMORY")
    BY Zenon, <1>5 DEF FinalizeUpsert
  <2> HIDE DEF FinalizeUpsert
  <2> QED
    BY <1>2, <1>3, <1>4, <1>5, <2>1, TypeFacts DEF SoundDecision, Commit, ReplicaType
<1>6. CASE failed[o] # {}
  <2>1. FinalizeUpsert(o) = GiveUp("MEMORY")
    BY Zenon, <1>6 DEF FinalizeUpsert
  <2> HIDE DEF FinalizeUpsert
  <2> QED
    BY <1>2, <1>4, <2>1, TypeFacts DEF SoundDecision, GiveUp, ReplicaType
<1> QED
  BY Zenon, <1>5, <1>6

\* Whatever the call, when its transfers have ended.
LEMMA DecisionOfSound ==
  ASSUME NEW o \in Op, Allocated(o), Running(o), InCall(o),
         NEW a \in Api, a # "BatchUpsert", call[o[1]].api = a, a = "Upsert" => config.nof = 0,
         Todo(o) = {}
  PROVE  SoundDecision(o, DecisionOf(a, o))
<1>1. /\ state[o] = "PENDING" => replicas[o] # {} /\ ok[o] \subseteq Given(o)
      /\ state[o] # "PENDING" => ~Single(a)
  BY Zenon DEF Running
<1>2. CASE a = "Put"
  BY Zenon, <1>1, <1>2, DecisionSound DEF DecisionOf, FinalizePut, Single
<1>3. CASE a = "Upsert"
  BY Zenon, <1>1, <1>3, UpsertSound DEF DecisionOf, Single
<1>4. CASE a \in {"BatchPut", "SameNode"}
  <2>1. CASE state[o] = "PENDING"
    BY Zenon, <1>1, <1>4, <2>1, DecisionSound DEF DecisionOf, FinalizeBatchPut
  <2>2. CASE state[o] # "PENDING"
    <3>1. DecisionOf(a, o) = Resolved(o)
      BY Zenon, <1>4, <2>2 DEF DecisionOf, FinalizeBatchPut
    <3>2. SoundDecision(o, Resolved(o))
      BY Zenon, TypeFacts DEF SoundDecision, Resolved, GiveUp, ReplicaType, Given
    <3> QED
      BY Zenon, <3>1, <3>2
  <2> QED
    BY Zenon, <2>1, <2>2
<1> QED
  BY Zenon, <1>2, <1>3, <1>4 DEF Api

\* The operation has decided, and still holds what it was given.
LEMMA DecidedKeeps ==
  ASSUME NEW o \in Op, OpInv(o), Stage(o, "wait"), Stage(o, "finalize")', InCall(o)',
         ~Stage(o, "submit")', ~Stage(o, "wait")', call'[o[1]].api = call[o[1]].api,
         UNCHANGED <<config, owner, processing, complete, written,
                     state[o], result[o], replicas[o], pending[o], ok[o], failed[o], rpcError[o]>>,
         NEW D, SoundDecision(o, D), Outstanding(o) = {},
         endType'[o] = D.end, revokeType'[o] = D.revoke, success'[o] = D.success
  PROVE  OpInv(o)'
<1>1. InCall(o)
  BY Zenon DEF InCall, Stage, At
<1>2. Given(o)' = Given(o) /\ Flexible' = Flexible /\ Held(o)' = Held(o)
  BY Zenon DEF Given, Flexible, Held, Busy, Readable
<1>3. replicas[o] # {} => Held(o)
  BY Zenon DEF OpInv, Writing
<1>4. Allocated(o)' /\ Quiet(o)' /\ Running(o)'
  BY Zenon, <1>1, <1>2 DEF OpInv, Allocated, Quiet, Running, SoundDecision, Outstanding
<1>5. Ending(o)' /\ Ended(o)'
  BY Zenon, <1>2, <1>3 DEF SoundDecision, Ending, Ended
<1>6. GivingUp(o)'
  BY Zenon, <1>2, <1>3 DEF SoundDecision, GivingUp
<1> QED
  BY Zenon, <1>4, <1>5, <1>6 DEF OpInv, Writing, Left

\* WaitForTransfers decides what becomes of each operation.
LEMMA WaitForTransfersKeeps ==
  ASSUME WriteInv, NEW t \in Thread, WaitForTransfers(t)
  PROVE  WriteInv'
<1> DEFINE D == [o \in Ops(t) |-> DecisionOf(call[t].api, o)]
<1>1. /\ At(t, "wait") /\ ~At(t, "idle") /\ Goto(t, "finalize")
      /\ \A o \in Ops(t) : Outstanding(o) = {} /\ Todo(o) = {}
      /\ endType' = [o \in Op |-> IF o \in Ops(t) THEN D[o].end ELSE endType[o]]
      /\ revokeType' = [o \in Op |-> IF o \in Ops(t) THEN D[o].revoke ELSE revokeType[o]]
      /\ success' = [o \in Op |-> IF o \in Ops(t) THEN D[o].success ELSE success[o]]
      /\ UNCHANGED <<config, masterVars, written, diskVars, state, result, replicas,
                     transferVars, rpcError>>
  BY Zenon DEF WaitForTransfers, At
<1>2. /\ call' \in [Thread -> Call \cup {Idle}]
      /\ \A u \in Thread : CallIsAccepted(u)'
      /\ \A o \in Op : o \notin Ops(t) => SameStage(o)
      /\ \A o \in Ops(t) : /\ o \in Op /\ o[1] = t /\ o[2] \in Key /\ OpInv(o)
                           /\ InCall(o) /\ InCall(o)' /\ Stage(o, "finalize")'
                           /\ \A p : p # "finalize" => ~Stage(o, p)'
                           /\ call'[o[1]].api = call[o[1]].api
  BY Zenon, <1>1, GotoFacts
<1>3. /\ call[t].api \in Api /\ call[t].api # "BatchUpsert"
      /\ call[t].api = "Upsert" => config.nof = 0
  BY Zenon, <1>1, OpsOfCall DEF WriteInv, CallIsAccepted, Call
<1>4. \A o \in Ops(t) : SoundDecision(o, D[o])
  BY Zenon, <1>1, <1>2, <1>3, DecisionOfSound DEF OpInv
<1> HIDE DEF D
<1>5. endType' \in [Op -> ReplicaType] /\ revokeType' \in [Op -> ReplicaType]
      /\ success' \in [Op -> BOOLEAN]
  <2>1. \A o \in Ops(t) : D[o].end \in ReplicaType /\ D[o].revoke \in ReplicaType
                          /\ D[o].success \in BOOLEAN
    BY Zenon, <1>4 DEF SoundDecision
  <2>2. \A o \in Op : endType[o] \in ReplicaType /\ revokeType[o] \in ReplicaType
                      /\ success[o] \in BOOLEAN
    BY Zenon DEF WriteInv, WriteTypes, OpTypes
  <2> HIDE DEF ReplicaType
  <2> QED
    BY Zenon, <1>1, <2>1, <2>2
<1>6. UNCHANGED <<owner, processing, complete, disk_tasks, abandoned, pending, ok, failed>>
  BY Zenon, <1>1 DEF masterVars, diskVars, transferVars
<1>7. MasterTypes' /\ OpTypes'
  BY Zenon, <1>1, <1>2, <1>5, <1>6 DEF WriteInv, WriteTypes, MasterTypes, OpTypes
<1>8. ASSUME NEW o \in Op PROVE OpInv(o)'
  <2>1. CASE o \in Ops(t)
    <3>1. Stage(o, "wait")
      BY Zenon, <1>1, <2>1, OpsOfCall DEF Stage
    <3>2. endType'[o] = D[o].end /\ revokeType'[o] = D[o].revoke /\ success'[o] = D[o].success
      BY Zenon, <1>1, <2>1
    <3>3. UNCHANGED <<state[o], result[o], replicas[o], pending[o], ok[o], failed[o], rpcError[o]>>
      BY Zenon, <1>1, <1>6
    <3>4. ~Stage(o, "submit")' /\ ~Stage(o, "wait")' /\ InCall(o)' /\ Stage(o, "finalize")'
          /\ call'[o[1]].api = call[o[1]].api /\ OpInv(o)
      BY Zenon, <1>2, <2>1
    <3> QED
      BY Zenon, <1>1, <1>4, <1>6, <2>1, <3>1, <3>2, <3>3, <3>4, DecidedKeeps
  <2>2. CASE o \notin Ops(t)
    <3>1. SameOp(o) /\ OpInv(o) /\ o[2] \in Key
      BY Zenon, <1>1, <1>2, <1>6, <2>2 DEF SameOp, WriteInv, Op
    <3> QED
      BY Zenon, <1>1, <1>6, <3>1, FrameSame DEF Busy, Readable
  <2> QED
    BY Zenon, <2>1, <2>2
<1>9. ReadableIsWritten'
  BY Zenon, <1>1, <1>6 DEF WriteInv, ReadableIsWritten
<1> QED
  BY Zenon, <1>2, <1>7, <1>8, <1>9 DEF WriteInv, WriteTypes
=============================================================================
