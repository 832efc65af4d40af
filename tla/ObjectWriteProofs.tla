-------------------------- MODULE ObjectWriteProofs --------------------------
(***************************************************************************)
(* The writes of ObjectWrite are safe for any number of threads, keys,     *)
(* calls and replicas: the steps that tell the master, and the theorems.   *)
(***************************************************************************)
EXTENDS ObjectWriteTransferProofs

-----------------------------------------------------------------------------
(* Ending and revoking. *)

\* An RPC about the objects of some operations of a call leaves alone every
\* other operation.
LEMMA RpcFrame ==
  ASSUME WriteInv, NEW t \in Thread, ~At(t, "idle"), NEW G \in SUBSET Ops(t), NEW K \in SUBSET Key,
         \A k \in K : \E p \in G : p[2] = k,
         \A p \in G : owner[p[2]] = t,
         UNCHANGED <<owner, written, config>>,
         \A k \in Key : k \notin K => Busy(k)' = Busy(k) /\ Readable(k)' = Readable(k),
         NEW o \in Op, o \notin G, SameOp(o)
  PROVE  OpInv(o)'
<1>1. OpInv(o) /\ o[2] \in Key /\ o = <<o[1], o[2]>>
  BY DEF WriteInv, Op
<1>2. CASE o[2] \in K
  <2>1. PICK p \in G : p[2] = o[2]
    BY Zenon, <1>2
  <2>2. p = <<t, p[2]>>
    BY Zenon, OpsOfCall
  <2>3. o[1] # t
    BY Zenon, <1>1, <2>1, <2>2
  <2>4. owner[o[2]] # o[1] /\ owner'[o[2]] # o[1]
    BY Zenon, <2>1, <2>3
  <2> QED
    BY Zenon, <1>1, <2>4, NotOwner, FrameLost
<1>3. CASE o[2] \notin K
  BY Zenon, <1>1, <1>3, FrameSame
<1> QED
  BY Zenon, <1>2, <1>3

\* The keys at which an RPC takes effect are keys of its operations.
LEMMA EffectiveFacts ==
  ASSUME WriteInv, NEW t \in Thread, ~At(t, "idle"), NEW G \in SUBSET Ops(t),
         NEW out \in [G -> RpcOutcome]
  PROVE  /\ Effective(G, out) \in SUBSET Key
         /\ \A k \in Effective(G, out) : \E p \in G : p[2] = k
         /\ \A o \in G : o[2] \in Effective(G, out) <=> out[o] # "error"
         /\ FailedIn(G, out) \subseteq G
<1>1. \A o \in G : o \in Op /\ o[2] \in Key /\ o = <<t, o[2]>>
  BY Zenon, OpsOfCall
<1>2. \A k \in Effective(G, out) : \E p \in G : p[2] = k /\ out[p] # "error"
  BY Zenon DEF Effective
<1>3. \A o \in G : out[o] # "error" => o[2] \in Effective(G, out)
  BY Zenon DEF Effective
<1>4. \A o \in G : o[2] \in Effective(G, out) => out[o] # "error"
  <2> TAKE o \in G
  <2> HAVE o[2] \in Effective(G, out)
  <2>1. PICK p \in G : p[2] = o[2] /\ out[p] # "error"
    BY Zenon, <1>2
  <2>2. p = o
    BY Zenon, <1>1, <2>1
  <2> QED
    BY Zenon, <2>1, <2>2
<1> QED
  BY Zenon, <1>1, <1>2, <1>3, <1>4 DEF FailedIn

\* What End and Revoke of a type do at the keys they reach.
LEMMA EndAtFacts ==
  ASSUME MasterTypes, NEW ty \in Types, NEW K \in SUBSET Key, EndAt(ty, K)
  PROVE  /\ processing' \in [Key -> SUBSET Replica] /\ complete' \in [Key -> SUBSET Replica]
         /\ \A k \in Key : k \notin K => Busy(k)' = Busy(k) /\ Readable(k)' = Readable(k)
         /\ \A k \in K : /\ Busy(k)' = Busy(k) \ OfType(ty)
                         /\ Readable(k)' = Readable(k) \cup (Busy(k) \cap OfType(ty))
<1>1. processing \in [Key -> SUBSET Replica] /\ complete \in [Key -> SUBSET Replica]
  BY Zenon DEF MasterTypes
<1>2. \A k \in Key :
        /\ processing'[k] = (IF k \in K THEN processing[k] \ OfType(ty) ELSE processing[k])
        /\ complete'[k] = (IF k \in K THEN complete[k] \cup (processing[k] \cap OfType(ty))
                                      ELSE complete[k])
  BY Zenon DEF EndAt
<1>3. \A k \in Key : processing[k] \subseteq Replica /\ complete[k] \subseteq Replica
  BY Zenon, <1>1
<1>4. processing' \in [Key -> SUBSET Replica] /\ complete' \in [Key -> SUBSET Replica]
  <2>1. \A k \in Key : processing'[k] \in SUBSET Replica /\ complete'[k] \in SUBSET Replica
    BY Zenon, <1>2, <1>3
  <2> QED
    BY Zenon, <2>1 DEF EndAt
<1> QED
  BY Zenon, <1>2, <1>4 DEF Busy, Readable

\* The same for a revocation, which makes nothing readable.
LEMMA RevokeAtFacts ==
  ASSUME MasterTypes, NEW ty \in Types, NEW K \in SUBSET Key, RevokeAt(ty, K)
  PROVE  /\ processing' \in [Key -> SUBSET Replica] /\ UNCHANGED <<owner, complete>>
         /\ \A k \in Key : Readable(k)' = Readable(k)
         /\ \A k \in Key : k \notin K => Busy(k)' = Busy(k)
         /\ \A k \in K : Busy(k)' = Busy(k) \ OfType(ty)
<1>1. processing \in [Key -> SUBSET Replica]
  BY Zenon DEF MasterTypes
<1>2. \A k \in Key :
        processing'[k] = (IF k \in K THEN processing[k] \ OfType(ty) ELSE processing[k])
  BY Zenon DEF RevokeAt
<1>3. processing' \in [Key -> SUBSET Replica]
  <2>1. \A k \in Key : processing'[k] \in SUBSET Replica
    BY Zenon, <1>1, <1>2
  <2> QED
    BY Zenon, <2>1 DEF RevokeAt
<1>4. UNCHANGED <<owner, complete>>
  BY Zenon DEF RevokeAt
<1> QED
  BY Zenon, <1>2, <1>3, <1>4 DEF Busy, Readable

\* An operation after the RPC that ends its replicas.
LEMMA EndedKeeps ==
  ASSUME NEW o \in Op, OpInv(o), Stage(o, "finalize"), SameStage(o),
         UNCHANGED <<config, owner, written, state[o], result[o], replicas[o], pending[o], ok[o],
                     failed[o], success[o]>>,
         NEW ty \in Types, endType[o] = ty, endType'[o] = "none",
         revokeType'[o] \in {"none", revokeType[o]},
         rpcError'[o] \in BOOLEAN,
         ~rpcError'[o] => revokeType'[o] = revokeType[o],
         \/ Busy(o[2])' = Busy(o[2]) /\ Readable(o[2])' = Readable(o[2]) /\ rpcError'[o]
         \/ /\ Busy(o[2])' = Busy(o[2]) \ OfType(ty)
            /\ Readable(o[2])' = Readable(o[2]) \cup (Busy(o[2]) \cap OfType(ty))
  PROVE  OpInv(o)'
<1>1. InCall(o) /\ ~Stage(o, "submit") /\ ~Stage(o, "wait")
  BY Zenon DEF InCall, Stage, At
<1>2. /\ InCall(o)' /\ ~Stage(o, "submit")' /\ ~Stage(o, "wait")' /\ Stage(o, "finalize")'
      /\ call'[o[1]].api = call[o[1]].api
  BY Zenon, <1>1 DEF SameStage
<1>3. Given(o)' = Given(o) /\ Flexible' = Flexible
  BY Zenon DEF Given, Flexible
<1>4. /\ Held(o) /\ success[o] /\ state[o] = "PENDING"
      /\ Given(o) \cap OfType(ty) # {}
      /\ Given(o) \subseteq OfType(ty) \cup OfType(revokeType[o])
      /\ Given(o) \cap OfType(ty) \cap OfType(revokeType[o]) = {}
      /\ ~Flexible => Given(o) \subseteq OfType(ty) /\ revokeType[o] = "none"
  BY Zenon DEF OpInv, Ending, Types
<1>5. owner[o[2]] = o[1] /\ Busy(o[2]) = Given(o) /\ Readable(o[2]) = {}
  BY Zenon, <1>4 DEF Held
<1>6. replicas[o] # {} /\ result[o] # "EXISTS"
  BY Zenon, <1>1, <1>4 DEF Given, OpInv, Running
<1>7. Allocated(o)' /\ Quiet(o)'
  BY Zenon, <1>1, <1>2, <1>3 DEF OpInv, Allocated, Quiet, Outstanding
<1>8. Running(o)'
  BY Zenon, <1>1, <1>2, <1>3, <1>6 DEF OpInv, Running
<1>9. owner'[o[2]] = o[1] /\ ~rpcError'[o] =>
         /\ Readable(o[2])' # {}
         /\ Busy(o[2])' \subseteq OfType(revokeType'[o])
         /\ ~Flexible => Given(o) \subseteq Readable(o[2])'
  BY Zenon, <1>4, <1>5
<1>10. (Busy(o[2])' \ OfType(revokeType[o])) \cup Readable(o[2])' # {}
  BY Zenon, <1>4, <1>5
<1>11. Ended(o)'
  BY Zenon, <1>3, <1>4, <1>5, <1>9, <1>10 DEF Ended
<1> QED
  BY Zenon, <1>2, <1>4, <1>7, <1>8, <1>11 DEF OpInv, Writing, Ending, GivingUp, Left

\* One group of operations is ended.
LEMMA ProcessEndGroupKeeps ==
  ASSUME WriteInv, NEW t \in Thread, NEW ty \in Types, ProcessEndGroup(t, ty)
  PROVE  WriteInv'
<1> DEFINE G == ToEnd(t, ty)
<1>1. PICK out \in [G -> RpcOutcome] :
        /\ EndAt(ty, Effective(G, out))
        /\ rpcError' = [o \in Op |-> rpcError[o] \/ o \in FailedIn(G, out)]
        /\ endType' = [o \in Op |-> IF o \in G THEN "none" ELSE endType[o]]
        /\ revokeType' = [o \in Op |-> IF o \in FailedIn(G, out) /\ call[t].api = "Put"
                                         THEN "none" ELSE revokeType[o]]
  BY Zenon DEF ProcessEndGroup
<1>2. /\ At(t, "finalize") /\ ~At(t, "idle")
      /\ UNCHANGED <<config, written, diskVars, call, state, result, replicas, transferVars, success>>
  BY Zenon DEF ProcessEndGroup, At
<1>3. G \in SUBSET Ops(t) /\ \A o \in G : endType[o] = ty
  BY Zenon DEF ToEnd
<1> HIDE DEF G
<1>a. out \in [G -> RpcOutcome]
  BY Zenon, <1>1
<1>b. /\ Effective(G, out) \in SUBSET Key
      /\ \A k \in Effective(G, out) : \E p \in G : p[2] = k
      /\ \A o \in G : o[2] \in Effective(G, out) <=> out[o] # "error"
      /\ FailedIn(G, out) \subseteq G
  BY Zenon, <1>a, <1>2, <1>3, EffectiveFacts
<1> DEFINE K == Effective(G, out)
           F == FailedIn(G, out)
<1>4. /\ K \in SUBSET Key /\ F \subseteq G
      /\ \A k \in K : \E p \in G : p[2] = k
      /\ \A o \in G : o[2] \in K <=> out[o] # "error"
  BY Zenon, <1>b
<1>5. \A o \in G : o \in F <=> out[o] # "ok"
  BY Zenon DEF FailedIn
<1> HIDE DEF K, F
<1>6. /\ EndAt(ty, K)
      /\ rpcError' = [o \in Op |-> rpcError[o] \/ o \in F]
      /\ endType' = [o \in Op |-> IF o \in G THEN "none" ELSE endType[o]]
      /\ revokeType' = [o \in Op |-> IF o \in F /\ call[t].api = "Put"
                                       THEN "none" ELSE revokeType[o]]
  BY Zenon, <1>1 DEF K, F
<1>7. \A o \in G : /\ o \in Op /\ o[1] = t /\ o[2] \in Key /\ OpInv(o) /\ InCall(o)
                   /\ Stage(o, "finalize")
  BY Zenon, <1>2, <1>3, OpsOfCall DEF Stage
<1>8. ty # "none"
  BY Zenon DEF Types
<1>9. \A o \in G : Held(o) /\ Given(o) \cap OfType(ty) \subseteq ok[o]
  BY Zenon, <1>3, <1>7, <1>8 DEF OpInv, Ending
<1>10. \A o \in G : owner[o[2]] = t
  BY Zenon, <1>7, <1>9 DEF Held
<1>11. /\ processing' \in [Key -> SUBSET Replica] /\ complete' \in [Key -> SUBSET Replica]
       /\ \A k \in Key : k \notin K => Busy(k)' = Busy(k) /\ Readable(k)' = Readable(k)
       /\ \A k \in K : /\ Busy(k)' = Busy(k) \ OfType(ty)
                       /\ Readable(k)' = Readable(k) \cup (Busy(k) \cap OfType(ty))
       /\ UNCHANGED owner
  <2>1. UNCHANGED owner
    BY Zenon, <1>6 DEF EndAt
  <2> QED
    BY Zenon, <1>4, <1>6, <2>1, EndAtFacts DEF WriteInv, WriteTypes
<1>12. UNCHANGED <<disk_tasks, abandoned, pending, ok, failed>>
  BY Zenon, <1>2 DEF diskVars, transferVars
<1>13. \A o \in Op : SameStage(o)
  BY Zenon, <1>2 DEF SameStage, InCall, Stage, At
<1>14. /\ rpcError' \in [Op -> BOOLEAN]
       /\ endType' \in [Op -> ReplicaType] /\ revokeType' \in [Op -> ReplicaType]
  <2>1. \A o \in Op : endType[o] \in ReplicaType /\ revokeType[o] \in ReplicaType
    BY Zenon DEF WriteInv, WriteTypes, OpTypes
  <2>2. "none" \in ReplicaType
    BY Zenon DEF ReplicaType
  <2> HIDE DEF ReplicaType
  <2> QED
    BY Zenon, <1>6, <2>1, <2>2
<1>15. MasterTypes' /\ OpTypes'
  BY Zenon, <1>2, <1>11, <1>12, <1>14 DEF WriteInv, WriteTypes, MasterTypes, OpTypes
<1>16. ASSUME NEW o \in Op PROVE OpInv(o)'
  <2>1. CASE o \in G
    <3>1. UNCHANGED <<state[o], result[o], replicas[o], pending[o], ok[o], failed[o], success[o]>>
      BY Zenon, <1>2, <1>12
    <3>2. /\ endType'[o] = "none" /\ rpcError'[o] \in BOOLEAN
          /\ revokeType'[o] \in {"none", revokeType[o]}
          /\ rpcError'[o] = (rpcError[o] \/ o \in F)
          /\ o \notin F => revokeType'[o] = revokeType[o]
      BY Zenon, <1>6, <2>1
    <3>3. ~rpcError'[o] => out[o] = "ok" /\ o \notin F
      BY Zenon, <1>5, <2>1, <3>2
    <3>4. \/ Busy(o[2])' = Busy(o[2]) /\ Readable(o[2])' = Readable(o[2]) /\ rpcError'[o]
          \/ /\ Busy(o[2])' = Busy(o[2]) \ OfType(ty)
             /\ Readable(o[2])' = Readable(o[2]) \cup (Busy(o[2]) \cap OfType(ty))
      <4>1. CASE o[2] \in K
        BY Zenon, <1>11, <4>1
      <4>2. CASE o[2] \notin K
        <5>1. out[o] # "ok"
          BY Zenon, <1>4, <2>1, <4>2
        <5>2. o \in F
          BY Zenon, <1>5, <2>1, <5>1
        <5> QED
          BY Zenon, <1>7, <1>11, <2>1, <3>2, <4>2, <5>2
      <4> QED
        BY Zenon, <4>1, <4>2
    <3>5. OpInv(o) /\ Stage(o, "finalize") /\ SameStage(o) /\ endType[o] = ty
      BY Zenon, <1>3, <1>7, <1>13, <2>1
    <3>6. UNCHANGED <<config, owner, written>>
      BY Zenon, <1>2, <1>11
    <3> QED
      BY Zenon, <3>1, <3>2, <3>3, <3>4, <3>5, <3>6, EndedKeeps
  <2>2. CASE o \notin G
    <3>1. o \notin F
      BY Zenon, <1>4, <2>2
    <3>2. rpcError[o] \in BOOLEAN
      BY Zenon DEF WriteInv, WriteTypes, OpTypes
    <3>3. UNCHANGED <<endType[o], revokeType[o], rpcError[o]>>
      BY Zenon, <1>6, <2>2, <3>1, <3>2
    <3>4. SameOp(o)
      BY Zenon, <1>2, <1>12, <1>13, <3>3 DEF SameOp
    <3> QED
      BY Zenon, <1>2, <1>3, <1>4, <1>10, <1>11, <2>2, <3>4, RpcFrame
  <2> QED
    BY Zenon, <2>1, <2>2
<1>17. \A u \in Thread : CallIsAccepted(u)'
  BY Zenon, <1>2 DEF WriteInv, CallIsAccepted, At
<1>18. ASSUME NEW k \in Key PROVE Readable(k)' \subseteq written'[k]
  <2>1. Readable(k) \subseteq written[k] /\ written'[k] = written[k]
    BY Zenon, <1>2 DEF WriteInv, ReadableIsWritten, Readable
  <2>2. CASE k \in K
    <3>1. PICK p \in G : p[2] = k
      BY Zenon, <1>4, <2>2
    <3>2. Busy(k) \cap OfType(ty) \subseteq written[k]
      BY Zenon, <1>9, <3>1 DEF Held
    <3> QED
      BY Zenon, <1>11, <2>1, <2>2, <3>2
  <2>3. CASE k \notin K
    BY Zenon, <1>11, <2>1, <2>3
  <2> QED
    BY Zenon, <2>2, <2>3
<1>19. ReadableIsWritten'
  BY Zenon, <1>18 DEF ReadableIsWritten, Readable
<1> QED
  BY Zenon, <1>15, <1>16, <1>17, <1>19 DEF WriteInv, WriteTypes

\* An operation after the RPC that gives its replicas back.
LEMMA RevokedKeeps ==
  ASSUME NEW o \in Op, OpInv(o), Stage(o, "finalize"), SameStage(o),
         UNCHANGED <<config, owner, written, state[o], result[o], replicas[o], pending[o], ok[o],
                     failed[o], success[o], endType[o]>>,
         NEW ty \in Types, endType[o] = "none", revokeType[o] = ty, revokeType'[o] = "none",
         rpcError'[o] \in BOOLEAN, rpcError[o] => rpcError'[o],
         Readable(o[2])' = Readable(o[2]),
         \/ Busy(o[2])' = Busy(o[2]) /\ rpcError'[o]
         \/ Busy(o[2])' = Busy(o[2]) \ OfType(ty)
  PROVE  OpInv(o)'
<1>1. InCall(o) /\ ~Stage(o, "submit") /\ ~Stage(o, "wait")
  BY Zenon DEF InCall, Stage, At
<1>2. /\ InCall(o)' /\ ~Stage(o, "submit")' /\ ~Stage(o, "wait")' /\ Stage(o, "finalize")'
      /\ call'[o[1]].api = call[o[1]].api
  BY Zenon, <1>1 DEF SameStage
<1>3. Given(o)' = Given(o) /\ Flexible' = Flexible
  BY Zenon DEF Given, Flexible
<1>4. replicas[o] # {} /\ result[o] # "EXISTS"
  BY Zenon, <1>1 DEF OpInv, Running, Types
<1>5. Allocated(o)' /\ Quiet(o)'
  BY Zenon, <1>1, <1>2, <1>3 DEF OpInv, Allocated, Quiet, Outstanding
<1>6. Running(o)'
  BY Zenon, <1>1, <1>2, <1>3, <1>4 DEF OpInv, Running
<1>7. ty # "none"
  BY Zenon DEF Types
<1>8. CASE success[o]
  <2>1. /\ state[o] = "PENDING" /\ Flexible /\ owner[o[2]] = o[1]
        /\ ~rpcError[o] => Readable(o[2]) # {} /\ Busy(o[2]) \subseteq OfType(ty)
    BY Zenon, <1>7, <1>8 DEF OpInv, Ended
  <2>2. Ended(o)'
    BY Zenon, <1>3, <2>1 DEF Ended
  <2> QED
    BY Zenon, <1>2, <1>5, <1>6, <1>8, <2>2 DEF OpInv, Writing, Ending, GivingUp, Left
<1>9. CASE ~success[o]
  <2>1. Held(o) /\ Given(o) \subseteq OfType(ty)
    BY Zenon, <1>7, <1>9 DEF OpInv, GivingUp
  <2>2. ~rpcError'[o] => Busy(o[2])' = {} /\ Readable(o[2])' = {}
    BY Zenon, <2>1 DEF Held
  <2>3. GivingUp(o)'
    BY Zenon, <2>2 DEF GivingUp
  <2> QED
    BY Zenon, <1>2, <1>5, <1>6, <1>9, <2>3 DEF OpInv, Writing, Ending, Ended, Left
<1> QED
  BY Zenon, <1>8, <1>9

\* One group of operations is revoked.
LEMMA ProcessRevokeGroupKeeps ==
  ASSUME WriteInv, NEW t \in Thread, NEW ty \in Types, ProcessRevokeGroup(t, ty)
  PROVE  WriteInv'
<1> DEFINE G == ToRevoke(t, ty)
<1>1. PICK out \in [G -> RpcOutcome] :
        /\ RevokeAt(ty, Effective(G, out))
        /\ rpcError' = [o \in Op |-> rpcError[o] \/ o \in FailedIn(G, out)]
        /\ revokeType' = [o \in Op |-> IF o \in G THEN "none" ELSE revokeType[o]]
  BY Zenon DEF ProcessRevokeGroup
<1>2. /\ At(t, "finalize") /\ ~At(t, "idle") /\ NothingTo(ToEnd, t, Types)
      /\ UNCHANGED <<config, written, diskVars, call, state, result, replicas, transferVars,
                     endType, success>>
  BY Zenon DEF ProcessRevokeGroup, At
<1>3. G \in SUBSET Ops(t) /\ \A o \in G : revokeType[o] = ty
  BY Zenon DEF ToRevoke
<1> HIDE DEF G
<1>a. out \in [G -> RpcOutcome]
  BY Zenon, <1>1
<1>b. /\ Effective(G, out) \in SUBSET Key
      /\ \A k \in Effective(G, out) : \E p \in G : p[2] = k
      /\ \A o \in G : o[2] \in Effective(G, out) <=> out[o] # "error"
      /\ FailedIn(G, out) \subseteq G
  BY Zenon, <1>a, <1>2, <1>3, EffectiveFacts
<1> DEFINE K == Effective(G, out)
           F == FailedIn(G, out)
<1>4. /\ K \in SUBSET Key /\ F \subseteq G
      /\ \A k \in K : \E p \in G : p[2] = k
      /\ \A o \in G : o[2] \in K <=> out[o] # "error"
  BY Zenon, <1>b
<1>5. \A o \in G : o \in F <=> out[o] # "ok"
  BY Zenon DEF FailedIn
<1> HIDE DEF K, F
<1>6. /\ RevokeAt(ty, K)
      /\ rpcError' = [o \in Op |-> rpcError[o] \/ o \in F]
      /\ revokeType' = [o \in Op |-> IF o \in G THEN "none" ELSE revokeType[o]]
  BY Zenon, <1>1 DEF K, F
<1>7. \A o \in G : /\ o \in Op /\ o[1] = t /\ o[2] \in Key /\ OpInv(o) /\ InCall(o)
                   /\ Stage(o, "finalize") /\ o \in Ops(t)
  BY Zenon, <1>2, <1>3, OpsOfCall DEF Stage
<1>8. ty # "none"
  BY Zenon DEF Types
<1>9. \A o \in G : endType[o] = "none"
  <2>1. \A o \in Op : endType[o] \in Types \cup {"none"}
    BY Zenon DEF WriteInv, WriteTypes, OpTypes, ReplicaType, Types
  <2> QED
    BY Zenon, <1>2, <1>7, <2>1 DEF NothingTo, ToEnd
<1>10. \A o \in G : owner[o[2]] = t
  <2> TAKE o \in G
  <2>1. success[o] \in BOOLEAN
    BY Zenon, <1>7 DEF WriteInv, WriteTypes, OpTypes
  <2>2. CASE success[o]
    BY Zenon, <1>3, <1>7, <1>8, <1>9, <2>2 DEF OpInv, Ended
  <2>3. CASE ~success[o]
    BY Zenon, <1>3, <1>7, <1>8, <1>9, <2>3 DEF OpInv, GivingUp, Held
  <2> QED
    BY Zenon, <2>1, <2>2, <2>3
<1>11. /\ processing' \in [Key -> SUBSET Replica] /\ UNCHANGED <<owner, complete>>
       /\ \A k \in Key : Readable(k)' = Readable(k)
       /\ \A k \in Key : k \notin K => Busy(k)' = Busy(k)
       /\ \A k \in K : Busy(k)' = Busy(k) \ OfType(ty)
  BY Zenon, <1>4, <1>6, RevokeAtFacts DEF WriteInv, WriteTypes
<1>12. UNCHANGED <<disk_tasks, abandoned, pending, ok, failed>>
  BY Zenon, <1>2 DEF diskVars, transferVars
<1>13. \A o \in Op : SameStage(o)
  BY Zenon, <1>2 DEF SameStage, InCall, Stage, At
<1>14. rpcError' \in [Op -> BOOLEAN] /\ revokeType' \in [Op -> ReplicaType]
  <2>1. \A o \in Op : revokeType[o] \in ReplicaType
    BY Zenon DEF WriteInv, WriteTypes, OpTypes
  <2>2. "none" \in ReplicaType
    BY Zenon DEF ReplicaType
  <2> HIDE DEF ReplicaType
  <2> QED
    BY Zenon, <1>6, <2>1, <2>2
<1>15. MasterTypes' /\ OpTypes'
  BY Zenon, <1>2, <1>11, <1>12, <1>14 DEF WriteInv, WriteTypes, MasterTypes, OpTypes
<1>16. ASSUME NEW o \in Op PROVE OpInv(o)'
  <2>1. CASE o \in G
    <3>1. UNCHANGED <<state[o], result[o], replicas[o], pending[o], ok[o], failed[o], success[o],
                      endType[o]>>
      BY Zenon, <1>2, <1>12
    <3>2. /\ revokeType'[o] = "none" /\ rpcError'[o] \in BOOLEAN
          /\ rpcError'[o] = (rpcError[o] \/ o \in F)
          /\ rpcError[o] => rpcError'[o]
      BY Zenon, <1>6, <2>1
    <3>3. \/ Busy(o[2])' = Busy(o[2]) /\ rpcError'[o]
          \/ Busy(o[2])' = Busy(o[2]) \ OfType(ty)
      <4>1. CASE o[2] \in K
        BY Zenon, <1>11, <4>1
      <4>2. CASE o[2] \notin K
        <5>1. out[o] # "ok"
          BY Zenon, <1>4, <2>1, <4>2
        <5>2. o \in F
          BY Zenon, <1>5, <2>1, <5>1
        <5> QED
          BY Zenon, <1>7, <1>11, <2>1, <3>2, <4>2, <5>2
      <4> QED
        BY Zenon, <4>1, <4>2
    <3>4. /\ OpInv(o) /\ Stage(o, "finalize") /\ SameStage(o)
          /\ revokeType[o] = ty /\ endType[o] = "none" /\ Readable(o[2])' = Readable(o[2])
      BY Zenon, <1>3, <1>7, <1>9, <1>11, <1>13, <2>1
    <3>5. UNCHANGED <<config, owner, written>>
      BY Zenon, <1>2, <1>11
    <3> QED
      BY Zenon, <3>1, <3>2, <3>3, <3>4, <3>5, RevokedKeeps
  <2>2. CASE o \notin G
    <3>1. o \notin F
      BY Zenon, <1>4, <2>2
    <3>2. rpcError[o] \in BOOLEAN
      BY Zenon DEF WriteInv, WriteTypes, OpTypes
    <3>3. UNCHANGED <<endType[o], revokeType[o], rpcError[o]>>
      BY Zenon, <1>2, <1>6, <2>2, <3>1, <3>2
    <3>4. SameOp(o)
      BY Zenon, <1>2, <1>12, <1>13, <3>3 DEF SameOp
    <3>5. \A k \in Key : k \notin K => Busy(k)' = Busy(k) /\ Readable(k)' = Readable(k)
      BY Zenon, <1>11
    <3> QED
      BY Zenon, <1>2, <1>3, <1>4, <1>10, <1>11, <2>2, <3>4, <3>5, RpcFrame
  <2> QED
    BY Zenon, <2>1, <2>2
<1>17. \A u \in Thread : CallIsAccepted(u)'
  BY Zenon, <1>2 DEF WriteInv, CallIsAccepted, At
<1>18. ReadableIsWritten'
  BY Zenon, <1>2, <1>11 DEF WriteInv, ReadableIsWritten, Readable
<1> QED
  BY Zenon, <1>15, <1>16, <1>17, <1>18 DEF WriteInv, WriteTypes

\* A call that has nothing to end or to revoke any more.
LEMMA NothingToFacts ==
  ASSUME WriteInv, NEW t \in Thread, ~At(t, "idle"),
         NothingTo(ToEnd, t, Types), NothingTo(ToRevoke, t, Types)
  PROVE  \A o \in Ops(t) : endType[o] = "none" /\ revokeType[o] = "none"
<1>1. \A o \in Op : endType[o] \in Types \cup {"none"} /\ revokeType[o] \in Types \cup {"none"}
  BY Zenon DEF WriteInv, WriteTypes, OpTypes, ReplicaType, Types
<1>2. \A o \in Ops(t) : o \in Op
  BY Zenon, OpsOfCall
<1> QED
  BY Zenon, <1>1, <1>2 DEF NothingTo, ToEnd, ToRevoke

\* What CollectResults reports of an operation.
LEMMA ReportFacts ==
  ASSUME WriteInv, NEW o \in Op, InCall(o)
  PROVE  /\ FinalState(o) \in PutOperationState
         /\ FinalState(o) = "SUCCESS" <=> state[o] = "PENDING" /\ success[o] /\ ~rpcError[o]
         /\ result[o] = "EXISTS" => replicas[o] = {}
<1>1. /\ state[o] \in {"PENDING", "MASTER_FAILED"}
      /\ result[o] = "EXISTS" => replicas[o] = {}
  BY Zenon DEF WriteInv, OpInv, Running
<1>2. success[o] \in BOOLEAN /\ rpcError[o] \in BOOLEAN
  BY Zenon DEF WriteInv, WriteTypes, OpTypes
<1>3. CASE state[o] # "PENDING"
  BY Zenon, <1>1, <1>3 DEF FinalState, PutOperationState
<1>4. CASE state[o] = "PENDING" /\ ~success[o]
  <2>1. FinalState(o) = "TRANSFER_FAILED"
    BY Zenon, <1>4 DEF FinalState
  <2> QED
    BY Zenon, <1>1, <1>4, <2>1 DEF PutOperationState
<1>5. CASE state[o] = "PENDING" /\ success[o]
  <2>1. FinalState(o) = IF rpcError[o] THEN "FINALIZE_FAILED" ELSE "SUCCESS"
    BY Zenon, <1>5 DEF FinalState
  <2> QED
    BY Zenon, <1>1, <1>2, <1>5, <2>1 DEF PutOperationState
<1> QED
  BY Zenon, <1>2, <1>3, <1>4, <1>5

\* A call returns.
LEMMA CollectResultsKeeps ==
  ASSUME WriteInv, NEW t \in Thread, CollectResults(t)
  PROVE  WriteInv'
<1>1. /\ At(t, "finalize") /\ ~At(t, "idle")
      /\ NothingTo(ToEnd, t, Types) /\ NothingTo(ToRevoke, t, Types)
      /\ call' = [call EXCEPT ![t] = Idle]
      /\ UNCHANGED <<config, masterVars, written, diskVars, replicas, endType, revokeType, rpcError>>
  BY Zenon DEF CollectResults, At
<1>2. /\ result' = [o \in Op |-> IF o \in Ops(t)
                      THEN IF FinalState(o) = "SUCCESS" \/ result[o] = "EXISTS" THEN "OK" ELSE "ERROR"
                      ELSE result[o]]
      /\ state' = [o \in Op |-> IF o \in Ops(t) THEN FinalState(o) ELSE state[o]]
      /\ pending' = [o \in Op |-> IF o \in Ops(t) THEN {} ELSE pending[o]]
      /\ ok' = [o \in Op |-> IF o \in Ops(t) THEN {} ELSE ok[o]]
      /\ failed' = [o \in Op |-> IF o \in Ops(t) THEN {} ELSE failed[o]]
      /\ success' = [o \in Op |-> IF o \in Ops(t) THEN FALSE ELSE success[o]]
  BY Zenon DEF CollectResults, Update
<1>3. \A o \in Ops(t) : /\ o \in Op /\ o[1] = t /\ OpInv(o) /\ InCall(o) /\ Stage(o, "finalize")
                        /\ endType[o] = "none" /\ revokeType[o] = "none"
  BY Zenon, <1>1, OpsOfCall, NothingToFacts DEF Stage
<1>4. \A o \in Ops(t) :
        /\ FinalState(o) \in PutOperationState
        /\ FinalState(o) = "SUCCESS" <=> state[o] = "PENDING" /\ success[o] /\ ~rpcError[o]
        /\ result[o] = "EXISTS" => replicas[o] = {}
  BY Zenon, <1>3, ReportFacts
<1>5. call \in [Thread -> Call \cup {Idle}]
  BY Zenon DEF WriteInv, WriteTypes, OpTypes
<1>6. call'[t] = Idle /\ \A u \in Thread : u # t => call'[u] = call[u]
  BY Zenon, <1>1, <1>5
<1>idle. call'[t].pc = "idle"
  BY <1>6 DEF Idle
<1>7. OpTypes'
  <2> USE DEF WriteInv, WriteTypes, OpTypes
  <2>1. call' \in [Thread -> Call \cup {Idle}]
    BY Zenon, <1>1, <1>5, <1>6
  <2>2. state' \in [Op -> PutOperationState]
    BY Zenon, <1>2, <1>4
  <2>3. result' \in [Op -> {"OK", "EXISTS", "ERROR"}]
    BY Zenon, <1>2
  <2>4. pending' \in [Op -> SUBSET Transferable]
    BY Zenon, <1>2
  <2>5. ok' \in [Op -> SUBSET Transferable]
    BY Zenon, <1>2
  <2>6. failed' \in [Op -> SUBSET Transferable]
    BY Zenon, <1>2
  <2>7. success' \in [Op -> BOOLEAN]
    BY Zenon, <1>2
  <2> QED
    BY Zenon, <1>1, <2>1, <2>2, <2>3, <2>4, <2>5, <2>6, <2>7
<1>8. MasterTypes'
  BY Zenon, <1>1 DEF WriteInv, WriteTypes, MasterTypes, masterVars, diskVars
<1>9. \A u \in Thread : CallIsAccepted(u)'
  <2>1. config' = config
    BY Zenon, <1>1
  <2> QED
    BY Zenon, <1>6, <1>idle, <2>1 DEF WriteInv, CallIsAccepted, At
<1>10. UNCHANGED <<owner, processing, complete>>
  BY Zenon, <1>1 DEF masterVars
<1>11. ASSUME NEW o \in Ops(t) PROVE OpInv(o)'
  <2>1. ~InCall(o)' /\ ~Stage(o, "submit")' /\ ~Stage(o, "wait")' /\ ~Stage(o, "finalize")'
    BY Zenon, <1>3, <1>idle DEF InCall, Stage, At
  <2>2. /\ pending'[o] = {} /\ ok'[o] = {} /\ failed'[o] = {}
        /\ result'[o] \in {"OK", "ERROR"}
        /\ result'[o] = "OK" <=> FinalState(o) = "SUCCESS" \/ result[o] = "EXISTS"
    BY Zenon, <1>2, <1>3
  <2>3. UNCHANGED <<replicas[o], endType[o], revokeType[o], rpcError[o], Given(o), Flexible>>
    BY Zenon, <1>1 DEF Given, Flexible
  <2>4. Allocated(o)' /\ Quiet(o)'
    BY Zenon, <1>1, <1>3, <2>1, <2>2, <2>3 DEF OpInv, Allocated, Quiet
  <2>5. ASSUME owner[o[2]] = o[1], replicas[o] # {}
        PROVE  /\ ~rpcError[o] => Busy(o[2]) = {}
               /\ result'[o] = "OK" => /\ Readable(o[2]) # {}
                                       /\ ~Flexible => Given(o) \subseteq Readable(o[2])
               /\ result'[o] = "ERROR" /\ ~rpcError[o] => Readable(o[2]) = {}
    <3>1. success[o] \in BOOLEAN
      BY Zenon, <1>3 DEF WriteInv, WriteTypes, OpTypes
    <3>2. CASE success[o]
      <4>1. /\ state[o] = "PENDING"
            /\ ~rpcError[o] => /\ Readable(o[2]) # {} /\ Busy(o[2]) \subseteq OfType("none")
                               /\ ~Flexible => Given(o) \subseteq Readable(o[2])
        BY Zenon, <1>3, <2>5, <3>2 DEF OpInv, Ended
      <4>2. result'[o] = "OK" <=> ~rpcError[o]
        BY Zenon, <1>4, <2>2, <2>5, <3>2, <4>1
      <4> QED
        BY Zenon, <4>1, <4>2, TypeFacts
    <3>3. CASE ~success[o]
      <4>1. ~rpcError[o] => Busy(o[2]) = {} /\ Readable(o[2]) = {}
        BY Zenon, <1>3, <2>5, <3>3 DEF OpInv, GivingUp
      <4>2. result'[o] # "OK"
        BY Zenon, <1>4, <2>2, <2>5, <3>3
      <4> QED
        BY Zenon, <4>1, <4>2
    <3> QED
      BY Zenon, <3>1, <3>2, <3>3
  <2>6. Left(o)'
    BY Zenon, <1>10, <2>3, <2>5 DEF Left, Busy, Readable
  <2> QED
    BY Zenon, <2>1, <2>4, <2>6 DEF OpInv, Running, Writing, Ending, Ended, GivingUp
<1>12. ASSUME NEW o \in Op, o \notin Ops(t) PROVE OpInv(o)'
  <2>1. SameStage(o)
    <3>1. CASE o[1] = t
      <4>1. o[2] \notin call[t].keys
        BY Zenon, <1>12, <3>1 DEF Ops, Op
      <4> QED
        BY Zenon, <1>idle, <3>1, <4>1 DEF SameStage, InCall, Stage, At
    <3>2. CASE o[1] # t
      <4>1. call'[o[1]] = call[o[1]]
        BY Zenon, <1>6, <3>2 DEF Op
      <4> QED
        BY Zenon, <4>1 DEF SameStage, InCall, Stage, At
    <3> QED
      BY Zenon, <3>1, <3>2
  <2>2. UNCHANGED <<state[o], result[o], pending[o], ok[o], failed[o], success[o]>>
    BY Zenon, <1>2, <1>12
  <2>3. SameOp(o)
    BY Zenon, <1>1, <2>1, <2>2 DEF SameOp
  <2>4. OpInv(o) /\ o[2] \in Key
    BY Zenon DEF WriteInv, Op
  <2> QED
    BY Zenon, <1>1, <1>10, <2>3, <2>4, FrameSame DEF Busy, Readable
<1>13. ReadableIsWritten'
  BY Zenon, <1>1, <1>10 DEF WriteInv, ReadableIsWritten
<1> QED
  BY Zenon, <1>7, <1>8, <1>9, <1>11, <1>12, <1>13 DEF WriteInv, WriteTypes

-----------------------------------------------------------------------------
(* Starting a call. *)

\* What the master allocates: at least one replica that is transferred, and no
\* more than the configuration asks for.
LEMMA AllocationFacts ==
  ASSUME config \in Config, NEW a, NEW S \in Allocations(a)
  PROVE  /\ S \subseteq Replica
         /\ S \cap Transferable # {}
         /\ S \cap Transferable \subseteq First("MEMORY", config.mem) \cup First("NOF_SSD", config.nof)
<1>1. config.mem \in Nat /\ config.nof \in Nat
  BY Zenon, ConfigAssumption
<1>2. PICK m \in (IF a \in {"Upsert", "BatchUpsert"} THEN 1 ELSE 0)..config.mem,
           n \in 0..config.nof, D \in {{}} \cup {d \in {{DiskReplica}} : StorageBackend} :
        S = (First("MEMORY", m) \cup First("NOF_SSD", n)) \cup D
  BY DEF Allocations
<1>3. S # {} /\ S # {DiskReplica}
  BY DEF Allocations
<1>4. D = {} \/ D = {DiskReplica}
  BY Zenon, <1>2
<1>5. /\ First("MEMORY", m) \subseteq First("MEMORY", config.mem)
      /\ First("NOF_SSD", n) \subseteq First("NOF_SSD", config.nof)
  BY <1>1, <1>2 DEF First
<1>6. First("MEMORY", m) \subseteq Memory /\ First("NOF_SSD", n) \subseteq Nof
  BY <1>1, <1>2 DEF First, Memory, Nof
<1>7. DiskReplica \notin Transferable
  BY Zenon DEF DiskReplica, Transferable, Memory, Nof
<1> HIDE DEF First, Memory, Nof, DiskReplica
<1> QED
  BY Zenon, <1>2, <1>3, <1>4, <1>5, <1>6, <1>7 DEF Replica, Transferable

\* What the answers say.  The object of a key that is started is not being
\* written, and a put finds no readable one.
LEMMA AnswerFacts ==
  ASSUME MasterTypes, NEW a \in Api, a # "BatchUpsert", NEW k \in Key, NEW x \in Answers(a, k)
  PROVE  /\ x.rpc \in {"ok", "lost", "error", "exists"}
         /\ x.rpc \in {"ok", "lost"} =>
              /\ x.reps \in Allocations(a)
              /\ processing[k] = {}
              /\ a # "Upsert" => complete[k] = {}
         /\ x.rpc = "exists" => a # "Upsert" /\ processing[k] \cup complete[k] # {}
         /\ x.rpc \notin {"ok", "lost"} => x.reps = {}
<1>1. CASE x = [rpc |-> "error", reps |-> {}]
  BY Zenon, <1>1
<1>2. CASE a = "Upsert" /\ x \in [rpc : {"ok", "lost"}, reps : Allocations(a)] /\ processing[k] = {}
  BY Zenon, <1>2
<1>3. CASE a # "Upsert" /\ processing[k] \cup complete[k] # {} /\ x = [rpc |-> "exists", reps |-> {}]
  BY Zenon, <1>3
<1>4. CASE a # "Upsert" /\ processing[k] \cup complete[k] = {}
           /\ x \in [rpc : {"ok", "lost"}, reps : Allocations(a)]
  BY Zenon, <1>4
<1> HIDE DEF Allocations
<1>5. \/ x = [rpc |-> "error", reps |-> {}]
      \/ a = "Upsert" /\ x \in [rpc : {"ok", "lost"}, reps : Allocations(a)] /\ processing[k] = {}
      \/ a # "Upsert" /\ processing[k] \cup complete[k] # {} /\ x = [rpc |-> "exists", reps |-> {}]
      \/ /\ a # "Upsert" /\ processing[k] \cup complete[k] = {}
         /\ x \in [rpc : {"ok", "lost"}, reps : Allocations(a)]
  BY Zenon DEF Answers
<1> QED
  BY Zenon, <1>1, <1>2, <1>3, <1>4, <1>5

\* An operation that has just been started, and one that was not because its
\* call has returned at once.
LEMMA StartedKeeps ==
  ASSUME NEW o \in Op, OpInv(o), ~InCall(o), config' = config, MasterTypes,
         NEW a \in Api, NEW x, x \in Answers(a, o[2]), a # "BatchUpsert", o[2] \in Key,
         Single(a) => x.rpc = "ok",
         InCall(o)', Stage(o, "submit")', ~Stage(o, "wait")', ~Stage(o, "finalize")',
         call'[o[1]].api = a,
         x.rpc = "ok" => /\ owner'[o[2]] = o[1]
                         /\ processing'[o[2]] = x.reps /\ complete'[o[2]] = {},
         state'[o] = StartState(a, x), result'[o] = StartResult(a, x),
         replicas'[o] = (IF x.rpc = "ok" THEN x.reps ELSE {}),
         rpcError'[o] = (x.rpc \in {"error", "lost"}),
         UNCHANGED <<pending[o], ok[o], failed[o], endType[o], revokeType[o]>>
  PROVE  OpInv(o)'
<1>1. ~Stage(o, "wait") /\ ~Stage(o, "finalize")
  BY Zenon DEF InCall, Stage, At
<1>2. /\ pending[o] = {} /\ ok[o] = {} /\ failed[o] = {}
      /\ endType[o] = "none" /\ revokeType[o] = "none"
  BY Zenon, <1>1 DEF OpInv, Quiet
<1>3. x.rpc = "ok" => /\ x.reps # {} /\ x.reps \cap Transferable # {}
                      /\ x.reps \cap Transferable \subseteq
                           First("MEMORY", config.mem) \cup First("NOF_SSD", config.nof)
  <2>1. x.rpc = "ok" => x.reps \in Allocations(a)
    BY Zenon, AnswerFacts
  <2>2. config \in Config
    BY Zenon DEF MasterTypes
  <2> QED
    BY Zenon, <2>1, <2>2, AllocationFacts
<1>4. x.rpc \in {"ok", "lost", "error", "exists"}
  BY Zenon, AnswerFacts
<1>5. Allocated(o)'
  BY Zenon, <1>3 DEF Allocated, Given
<1>6. Quiet(o)'
  BY Zenon, <1>2 DEF Quiet
<1>7. /\ state'[o] \in {"PENDING", "MASTER_FAILED"}
      /\ state'[o] = "PENDING" => x.rpc = "ok"
      /\ state'[o] # "PENDING" => ~Single(a)
  BY Zenon DEF StartState, StartBatchPutState, StartBatchUpsertState, Single
<1>8. /\ result'[o] \in {"EXISTS", "ERROR"}
      /\ result'[o] = "EXISTS" => x.rpc = "exists"
  BY Zenon DEF StartResult
<1>9. Running(o)'
  <2>1. state'[o] = "PENDING" => replicas'[o] # {}
    BY Zenon, <1>3, <1>7
  <2>2. result'[o] = "EXISTS" => replicas'[o] = {} /\ ~rpcError'[o]
    BY Zenon, <1>8
  <2>3. replicas'[o] = {} => rpcError'[o] \/ result'[o] = "EXISTS"
    <3>1. replicas'[o] = {} => x.rpc \in {"lost", "error"} \/ (x.rpc = "exists" /\ ~Single(a))
      BY Zenon, <1>3, <1>4
    <3> QED
      BY Zenon, <3>1 DEF StartResult
  <2> QED
    BY Zenon, <1>2, <1>7, <1>8, <2>1, <2>2, <2>3 DEF Running
<1>10. replicas'[o] # {} => Held(o)'
  <2>1. replicas'[o] # {} => x.rpc = "ok"
    BY Zenon
  <2>2. x.rpc = "ok" => ~rpcError'[o]
    BY Zenon
  <2> QED
    BY Zenon, <1>2, <2>1, <2>2 DEF Held, Busy, Readable, Given
<1>11. Writing(o)'
  BY Zenon, <1>10 DEF Writing
<1> QED
  BY Zenon, <1>5, <1>6, <1>9, <1>11 DEF OpInv, Ending, Ended, GivingUp, Left

\* An operation of a call that returned at once holds nothing.
LEMMA RefusedKeeps ==
  ASSUME NEW o \in Op, OpInv(o), ~InCall(o), ~InCall(o)',
         ~Stage(o, "submit")', ~Stage(o, "wait")', ~Stage(o, "finalize")',
         result'[o] \in {"OK", "ERROR"}, replicas'[o] = {},
         UNCHANGED <<pending[o], ok[o], failed[o], endType[o], revokeType[o]>>
  PROVE  OpInv(o)'
<1>1. ~Stage(o, "wait") /\ ~Stage(o, "finalize")
  BY Zenon DEF InCall, Stage, At
<1>2. /\ pending[o] = {} /\ ok[o] = {} /\ failed[o] = {}
      /\ endType[o] = "none" /\ revokeType[o] = "none"
  BY Zenon, <1>1 DEF OpInv, Quiet
<1>3. Quiet(o)'
  BY Zenon, <1>2 DEF Quiet
<1> QED
  BY Zenon, <1>3 DEF OpInv, Allocated, Running, Writing, Ending, Ended, GivingUp, Left

\* A call starts its objects at the master.
LEMMA StartKeeps ==
  ASSUME WriteInv, Scope, NEW t \in Thread, NEW a, NEW K, Start(t, a, K)
  PROVE  WriteInv'
<1>1. PICK ans \in [K -> UNION {Answers(a, k) : k \in K}] :
       LET started == {k \in K : ans[k].rpc \in {"ok", "lost"}}
           seen(o) == IF ans[o[2]].rpc = "ok" THEN ans[o[2]].reps ELSE {}
           mine == {t} \X K
       IN
       /\ \A k \in K : ans[k] \in Answers(a, k)
       /\ owner' = [k \in Key |-> IF k \in started THEN t ELSE owner[k]]
       /\ processing' = [k \in Key |-> IF k \in started THEN ans[k].reps ELSE processing[k]]
       /\ complete' = [k \in Key |-> IF k \in started THEN {} ELSE complete[k]]
       /\ written' = [k \in Key |-> IF k \in started THEN {} ELSE written[k]]
       /\ abandoned' = (abandoned \ started) \cup {k \in started : ans[k].rpc = "lost"}
       /\ call' = [call EXCEPT ![t] =
            IF Single(a) /\ \A k \in K : ans[k].rpc # "ok" THEN Idle
            ELSE [pc |-> "submit", api |-> a, keys |-> K]]
       /\ LET Answered(o) == StartState(a, ans[o[2]])
              Outcome(o) == StartResult(a, ans[o[2]])
              Error(o) == ans[o[2]].rpc \in {"error", "lost"}
          IN /\ state' = Update(state, mine, Answered)
             /\ result' = Update(result, mine, Outcome)
             /\ replicas' = Update(replicas, mine, seen)
             /\ rpcError' = Update(rpcError, mine, Error)
  BY Zenon DEF Start
<1> DEFINE started == {k \in K : ans[k].rpc \in {"ok", "lost"}}
           mine == {t} \X K
           returns == Single(a) /\ \A k \in K : ans[k].rpc # "ok"
<1>2. /\ At(t, "idle") /\ <<t, a, K>> \in Calls /\ Accepts(a, K)
      /\ UNCHANGED <<config, disk_tasks, transferVars, decisionVars>>
  BY Zenon DEF Start
<1>3. a \in Api /\ a # "BatchUpsert" /\ K \subseteq Key /\ K # {}
  <2>1. <<t, a, K>> \in Thread \X Api \X ((SUBSET Key) \ {{}})
    BY Zenon, <1>2, CallsAssumption
  <2>2. <<t, a, K>>[2] # "BatchUpsert"
    BY Zenon, <1>2 DEF Scope
  <2> QED
    BY Zenon, <2>1, <2>2
<1>4. /\ \A k \in K : ans[k] \in Answers(a, k)
      /\ owner' = [k \in Key |-> IF k \in started THEN t ELSE owner[k]]
      /\ processing' = [k \in Key |-> IF k \in started THEN ans[k].reps ELSE processing[k]]
      /\ complete' = [k \in Key |-> IF k \in started THEN {} ELSE complete[k]]
      /\ written' = [k \in Key |-> IF k \in started THEN {} ELSE written[k]]
      /\ abandoned' = (abandoned \ started) \cup {k \in started : ans[k].rpc = "lost"}
      /\ call' = [call EXCEPT ![t] =
           IF returns THEN Idle ELSE [pc |-> "submit", api |-> a, keys |-> K]]
  BY Zenon, <1>1
<1>5. /\ state' = [o \in Op |-> IF o \in mine THEN StartState(a, ans[o[2]]) ELSE state[o]]
      /\ result' = [o \in Op |-> IF o \in mine THEN StartResult(a, ans[o[2]]) ELSE result[o]]
      /\ replicas' = [o \in Op |-> IF o \in mine
                        THEN IF ans[o[2]].rpc = "ok" THEN ans[o[2]].reps ELSE {}
                        ELSE replicas[o]]
      /\ rpcError' = [o \in Op |-> IF o \in mine THEN ans[o[2]].rpc \in {"error", "lost"}
                                   ELSE rpcError[o]]
  BY Zenon, <1>1 DEF Update
<1>6. MasterTypes /\ OpTypes
  BY Zenon DEF WriteInv, WriteTypes
<1>7. \A k \in K :
        /\ ans[k].rpc \in {"ok", "lost", "error", "exists"}
        /\ k \in started => /\ ans[k].reps \in Allocations(a)
                            /\ processing[k] = {} /\ (a # "Upsert" => complete[k] = {})
        /\ ans[k].rpc \notin {"ok", "lost"} => ans[k].reps = {}
  BY Zenon, <1>3, <1>4, <1>6, AnswerFacts
<1>8. \A k \in K : ans[k].reps \subseteq Replica
  <2>1. config \in Config
    BY Zenon, <1>6 DEF MasterTypes
  <2> QED
    BY Zenon, <1>7, <2>1, AllocationFacts
<1>9. \A o \in mine : o \in Op /\ o[1] = t /\ o[2] \in K /\ o[2] \in Key
  BY Zenon, <1>3 DEF Op
<1>10. started \subseteq K /\ \A k \in K : k \in started <=> ans[k].rpc \in {"ok", "lost"}
  BY Zenon
<1>11. returns <=> Single(a) /\ \A k \in K : ans[k].rpc # "ok"
  BY Zenon
<1>12. \A o \in Op : o \in mine <=> o[1] = t /\ o[2] \in K
  BY Zenon DEF Op
<1> HIDE DEF started, mine, returns
<1>13. Single(a) => \E k \in K : K = {k}
  BY Zenon, <1>2 DEF Accepts
<1>14. call'[t] = (IF returns THEN Idle ELSE [pc |-> "submit", api |-> a, keys |-> K])
       /\ \A u \in Thread : u # t => call'[u] = call[u]
  BY Zenon, <1>4, <1>6 DEF OpTypes
<1>15. /\ returns => call'[t].pc = "idle"
       /\ ~returns => call'[t].pc = "submit" /\ call'[t].api = a /\ call'[t].keys = K
  BY <1>14 DEF Idle
<1>16. MasterTypes'
  <2>1. owner' \in [Key -> Thread \cup {None}]
    BY Zenon, <1>4, <1>6 DEF MasterTypes
  <2>2. processing' \in [Key -> SUBSET Replica]
    <3>1. \A k \in Key : processing[k] \in SUBSET Replica
      BY Zenon, <1>6 DEF MasterTypes
    <3>2. \A k \in started : ans[k].reps \in SUBSET Replica
      BY Zenon, <1>8, <1>10
    <3> QED
      BY Zenon, <1>4, <3>1, <3>2
  <2>3. complete' \in [Key -> SUBSET Replica] /\ written' \in [Key -> SUBSET Transferable]
    BY Zenon, <1>4, <1>6 DEF MasterTypes
  <2>4. abandoned' \subseteq Key
    BY Zenon, <1>3, <1>4, <1>6, <1>10 DEF MasterTypes
  <2> QED
    BY Zenon, <1>2, <1>6, <2>1, <2>2, <2>3, <2>4 DEF MasterTypes
<1>17. OpTypes'
  <2>1. call' \in [Thread -> Call \cup {Idle}]
    <3>1. call'[t] \in Call \cup {Idle}
      BY <1>3, <1>14 DEF Call
    <3>2. call \in [Thread -> Call \cup {Idle}]
      BY Zenon, <1>6 DEF OpTypes
    <3> QED
      BY Zenon, <1>4, <1>14, <3>1, <3>2
  <2>2. state' \in [Op -> PutOperationState]
    <3>1. \A x : StartState(a, x) \in PutOperationState
      BY Zenon DEF StartState, StartBatchPutState, StartBatchUpsertState, PutOperationState
    <3> QED
      BY Zenon, <1>5, <1>6, <3>1 DEF OpTypes
  <2>3. result' \in [Op -> {"OK", "EXISTS", "ERROR"}]
    <3>1. \A x : StartResult(a, x) \in {"OK", "EXISTS", "ERROR"}
      BY Zenon DEF StartResult
    <3> QED
      BY Zenon, <1>5, <1>6, <3>1 DEF OpTypes
  <2>4. replicas' \in [Op -> SUBSET Replica]
    <3>1. \A o \in mine : ans[o[2]].reps \in SUBSET Replica
      BY Zenon, <1>8, <1>9
    <3>2. \A o \in Op : replicas[o] \in SUBSET Replica
      BY Zenon, <1>6 DEF OpTypes
    <3> QED
      BY Zenon, <1>5, <3>1, <3>2
  <2>5. rpcError' \in [Op -> BOOLEAN]
    <3>1. \A o \in Op : rpcError[o] \in BOOLEAN
      BY Zenon, <1>6 DEF OpTypes
    <3>2. \A o \in Op : (ans[o[2]].rpc \in {"error", "lost"}) \in BOOLEAN
      OBVIOUS
    <3>3. \A o \in Op : rpcError'[o] \in BOOLEAN
      BY <1>5, <3>1, <3>2, Zenon
    <3> QED
      BY <1>5, <3>3, Zenon
  <2> QED
    BY Zenon, <1>2, <1>6, <2>1, <2>2, <2>3, <2>4, <2>5 DEF OpTypes, transferVars, decisionVars
<1>18. \A u \in Thread : CallIsAccepted(u)'
  <2>1. CallIsAccepted(t)'
    BY Zenon, <1>2, <1>3, <1>15 DEF CallIsAccepted, At, Accepts, Upserts
  <2>2. \A u \in Thread : u # t => CallIsAccepted(u)'
    BY Zenon, <1>2, <1>14 DEF WriteInv, CallIsAccepted, At
  <2> QED
    BY Zenon, <2>1, <2>2
<1>19. UNCHANGED <<pending, ok, failed, endType, revokeType, success, config>>
  BY Zenon, <1>2 DEF transferVars, decisionVars
<1>20. \A k \in Key : k \notin started =>
         /\ owner'[k] = owner[k] /\ written'[k] = written[k]
         /\ Busy(k)' = Busy(k) /\ Readable(k)' = Readable(k)
  BY Zenon, <1>4 DEF Busy, Readable
<1>21. ASSUME NEW o \in mine PROVE OpInv(o)'
  <2>1. o \in Op /\ o[1] = t /\ o[2] \in K /\ o[2] \in Key /\ OpInv(o) /\ ~InCall(o)
    BY Zenon, <1>2, <1>9 DEF WriteInv, InCall
  <2>2. /\ state'[o] = StartState(a, ans[o[2]])
        /\ result'[o] = StartResult(a, ans[o[2]])
        /\ replicas'[o] = (IF ans[o[2]].rpc = "ok" THEN ans[o[2]].reps ELSE {})
        /\ rpcError'[o] = (ans[o[2]].rpc \in {"error", "lost"})
    BY Zenon, <1>5, <2>1
  <2>3. CASE returns
    <3>1. ~InCall(o)' /\ ~Stage(o, "submit")' /\ ~Stage(o, "wait")' /\ ~Stage(o, "finalize")'
      BY Zenon, <1>15, <2>1, <2>3 DEF InCall, Stage, At
    <3>2. replicas'[o] = {}
      BY Zenon, <1>11, <2>1, <2>2, <2>3
    <3>3. result'[o] \in {"OK", "ERROR"}
      BY Zenon, <1>11, <2>2, <2>3 DEF StartResult
    <3> QED
      BY Zenon, <1>19, <2>1, <3>1, <3>2, <3>3, RefusedKeeps
  <2>4. CASE ~returns
    <3>1. /\ InCall(o)' /\ Stage(o, "submit")' /\ ~Stage(o, "wait")' /\ ~Stage(o, "finalize")'
          /\ call'[o[1]].api = a
      BY Zenon, <1>15, <2>1, <2>4 DEF InCall, Stage, At
    <3>2. Single(a) => ans[o[2]].rpc = "ok"
      BY <1>11, <1>13, <2>1, <2>4
    <3>3. ans[o[2]] \in Answers(a, o[2])
      BY Zenon, <1>4, <2>1
    <3>4. ans[o[2]].rpc = "ok" => /\ owner'[o[2]] = o[1]
                                  /\ processing'[o[2]] = ans[o[2]].reps /\ complete'[o[2]] = {}
      BY Zenon, <1>4, <1>10, <2>1
    <3>5. UNCHANGED <<pending[o], ok[o], failed[o], endType[o], revokeType[o]>> /\ config' = config
      BY Zenon, <1>19
    <3> QED
      BY Zenon, <1>3, <1>6, <2>1, <2>2, <3>1, <3>2, <3>3, <3>4, <3>5, StartedKeeps
  <2> QED
    BY Zenon, <2>3, <2>4
<1>22. ASSUME NEW o \in Op, o \notin mine PROVE OpInv(o)'
  <2>1. OpInv(o) /\ o[2] \in Key /\ o[1] \in Thread
    BY Zenon DEF WriteInv, Op
  <2>2. SameStage(o)
    <3>1. CASE o[1] = t
      <4>1. o[2] \notin K
        BY Zenon, <1>12, <1>22, <3>1
      <4>2. ~InCall(o) /\ \A p \in {"submit", "wait", "finalize"} : ~Stage(o, p)
        BY Zenon, <1>2, <3>1 DEF InCall, Stage, At
      <4>3. ~InCall(o)' /\ \A p \in {"submit", "wait", "finalize"} : ~Stage(o, p)'
        BY Zenon, <1>15, <3>1, <4>1 DEF InCall, Stage, At
      <4> QED
        BY Zenon, <4>2, <4>3 DEF SameStage
    <3>2. CASE o[1] # t
      <4>1. call'[o[1]] = call[o[1]]
        BY Zenon, <1>14, <2>1, <3>2
      <4> QED
        BY Zenon, <4>1 DEF SameStage, InCall, Stage, At
    <3> QED
      BY Zenon, <3>1, <3>2
  <2>3. UNCHANGED <<state[o], result[o], replicas[o], rpcError[o]>>
    BY Zenon, <1>5, <1>22
  <2>4. SameOp(o)
    BY Zenon, <1>19, <2>2, <2>3 DEF SameOp
  <2>5. CASE o[2] \in started
    <3>1. o[1] # t /\ o[2] \in K
      BY Zenon, <1>10, <1>12, <1>22, <2>5
    <3>2. Busy(o[2]) = {} /\ (Readable(o[2]) = {} \/ ~Flexible)
      <4>1. processing[o[2]] = {} /\ (a # "Upsert" => complete[o[2]] = {})
        BY Zenon, <1>7, <2>5, <3>1
      <4>2. a = "Upsert" => ~Flexible
        BY <1>2 DEF Accepts, Upserts, Flexible
      <4> QED
        BY Zenon, <4>1, <4>2 DEF Busy, Readable
    <3>3. owner'[o[2]] = t
      BY Zenon, <1>4, <2>1, <2>5
    <3> QED
      BY Zenon, <1>19, <2>1, <2>4, <3>1, <3>2, <3>3, NothingHeld, FrameLost
  <2>6. CASE o[2] \notin started
    BY Zenon, <1>19, <1>20, <2>1, <2>4, <2>6, FrameSame
  <2> QED
    BY Zenon, <2>5, <2>6
<1>23. ReadableIsWritten'
  BY Zenon, <1>4 DEF WriteInv, ReadableIsWritten
<1> QED
  BY Zenon, <1>16, <1>17, <1>18, <1>21, <1>22, <1>23 DEF WriteInv, WriteTypes

-----------------------------------------------------------------------------
(* The theorems. *)

\* Every step keeps the invariant.
LEMMA WriteInvNext ==
  ASSUME Scope, WriteInv, [Next]_vars
  PROVE  WriteInv'
<1>1. ASSUME NEW t \in Thread, NEW c \in Calls, Start(t, c[2], c[3]) PROVE WriteInv'
  BY Zenon, <1>1, StartKeeps
<1>2. ASSUME NEW t \in Thread, ThreadStep(t) PROVE WriteInv'
  BY Zenon, <1>2, SubmitTransfersKeeps, SubmitSegmentsKeeps, SubmitDiskKeeps, TransferWriteKeeps,
     WaitForTransfersKeeps, ProcessEndGroupKeeps, ProcessRevokeGroupKeeps, CollectResultsKeeps
     DEF ThreadStep
<1>3. ASSUME NEW t \in Thread, TransferEnds(t) PROVE WriteInv'
  BY Zenon, <1>3, TransferEndsKeeps
<1>4. ASSUME NEW k \in Key, PoolStep(k) PROVE WriteInv'
  BY Zenon, <1>4, PoolKeeps DEF PoolStep
<1>5. ASSUME NEW k \in Key, Remove(k) PROVE WriteInv'
  BY Zenon, <1>5, RemoveKeeps
<1>6. CASE UNCHANGED vars
  <2>1. UNCHANGED <<call, state, result, replicas, transferVars, decisionVars, rpcError, config,
                    owner, processing, complete, written, disk_tasks, abandoned>>
    BY Zenon, <1>6 DEF vars, masterVars, diskVars
  <2>2. OpTypes' /\ (\A t \in Thread : CallIsAccepted(t)') /\ \A o \in Op : SameOp(o)
    BY Zenon, <2>1, CallsUntouched
  <2>3. MasterTypes' /\ ReadableIsWritten'
    BY Zenon, <2>1 DEF WriteInv, WriteTypes, MasterTypes, ReadableIsWritten
  <2>4. ASSUME NEW o \in Op PROVE OpInv(o)'
    <3>1. OpInv(o) /\ SameOp(o)
      BY Zenon, <2>2 DEF WriteInv
    <3> QED
      BY Zenon, <2>1, <3>1, FrameSame DEF Busy, Readable
  <2> QED
    BY Zenon, <2>2, <2>3, <2>4 DEF WriteInv, WriteTypes
<1> QED
  BY Zenon, <1>1, <1>2, <1>3, <1>4, <1>5, <1>6 DEF Next

\* The invariant of all the calls (lines 1527-2694): an operation holds what it
\* was given until it has decided, and decides only about what it holds.
THEOREM WriteInvariant ==
  ASSUME Scope
  PROVE  Spec => []WriteInv
<1>1. Init => WriteInv
  BY Zenon, WriteInvInit
<1>2. WriteInv /\ [Next]_vars => WriteInv'
  BY Zenon, WriteInvNext
<1> QED
  BY <1>1, <1>2, PTL DEF Spec

\* Every field keeps its type, through partial allocations, failed transfers and
\* lost answers.
THEOREM WriteTypeCorrect ==
  ASSUME Scope
  PROVE  Spec => []TypeOK
<1>1. WriteInv => TypeOK
  BY Zenon DEF WriteInv, WriteTypes, MasterTypes, OpTypes, TypeOK
<1> QED
  BY <1>1, WriteInvariant, PTL

\* Readers never get a replica that was not written completely.
THEOREM ReadersSeeWholeObjects ==
  ASSUME Scope
  PROVE  Spec => []ReadableIsWritten
<1>1. WriteInv => ReadableIsWritten
  BY Zenon DEF WriteInv
<1> QED
  BY <1>1, WriteInvariant, PTL

\* No transfer is outstanding to a replica that the operation has given back or
\* committed, whoever has started the key since.
THEOREM WritesOnlyWhatItHolds ==
  ASSUME Scope
  PROVE  Spec => []NoWriteAfterRevoke
<1>1. ASSUME WriteInv, NEW o \in Op, Outstanding(o) # {}
      PROVE  owner[o[2]] = o[1] /\ Outstanding(o) \subseteq processing[o[2]]
  <2>1. OpInv(o) /\ Outstanding(o) \subseteq pending[o]
    BY Zenon, <1>1 DEF WriteInv, Outstanding
  <2>2. CASE Stage(o, "wait")
    <3>1. InCall(o)
      BY Zenon, <2>2 DEF Stage, InCall, At
    <3>2. pending[o] \subseteq Given(o)
      BY Zenon, <2>1, <3>1 DEF OpInv, Running
    <3>3. Held(o)
      BY Zenon, <1>1, <2>1, <2>2, <3>2 DEF OpInv, Writing, Given
    <3> QED
      BY Zenon, <2>1, <3>2, <3>3 DEF Held, Busy
  <2>3. CASE Stage(o, "finalize")
    BY Zenon, <1>1, <2>1, <2>3 DEF OpInv, Quiet
  <2>4. CASE ~Stage(o, "wait") /\ ~Stage(o, "finalize")
    BY Zenon, <1>1, <2>1, <2>4 DEF OpInv, Quiet
  <2> QED
    BY Zenon, <2>2, <2>3, <2>4
<1>2. WriteInv => NoWriteAfterRevoke
  BY Zenon, <1>1 DEF NoWriteAfterRevoke
<1> QED
  BY <1>2, WriteInvariant, PTL

\* What a call leaves behind at a key that nobody has started since.
LEMMA ReturnedFacts ==
  ASSUME WriteInv, NEW t \in Thread, NEW k \in Key, Returned(t, k)
  PROVE  /\ ~rpcError[t, k] => Busy(k) = {}
         /\ result[t, k] = "OK" =>
              /\ Readable(k) # {}
              /\ ~Flexible => replicas[t, k] \cap Transferable \subseteq Readable(k)
         /\ result[t, k] = "ERROR" /\ ~rpcError[t, k] => Readable(k) = {}
<1> DEFINE o == <<t, k>>
<1>1. o \in Op /\ o[1] = t /\ o[2] = k
  BY Zenon DEF Op
<1>2. ~InCall(o) /\ owner[o[2]] = o[1] /\ replicas[o] # {}
  BY Zenon, <1>1 DEF Returned, InCall, At
<1>3. OpInv(o)
  BY Zenon, <1>1 DEF WriteInv
<1> HIDE DEF o
<1>4. /\ ~rpcError[o] => Busy(o[2]) = {}
      /\ result[o] = "OK" =>
           /\ Readable(o[2]) # {}
           /\ ~Flexible => Given(o) \subseteq Readable(o[2])
      /\ result[o] = "ERROR" /\ ~rpcError[o] => Readable(o[2]) = {}
  BY Zenon, <1>2, <1>3 DEF OpInv, Left
<1>5. /\ ~rpcError[o] => Busy(k) = {}
      /\ result[o] = "OK" =>
           /\ Readable(k) # {}
           /\ ~Flexible => replicas[o] \cap Transferable \subseteq Readable(k)
      /\ result[o] = "ERROR" /\ ~rpcError[o] => Readable(k) = {}
  BY Zenon, <1>1, <1>4 DEF Given
<1> QED
  BY Zenon, <1>5 DEF o

\* A call whose RPCs were all answered leaves no replica in progress.
THEOREM ReturnsItsReplicas ==
  ASSUME Scope
  PROVE  Spec => []NothingLeftProcessing
<1>1. WriteInv => NothingLeftProcessing
  BY Zenon, ReturnedFacts DEF NothingLeftProcessing, Busy
<1> QED
  BY <1>1, WriteInvariant, PTL

\* OK means readable.
THEOREM OkMeansReadable ==
  ASSUME Scope
  PROVE  Spec => []OkIsReadable
<1>1. ASSUME WriteInv, NEW t \in Thread, NEW k \in Key, Returned(t, k), result[t, k] = "OK"
      PROVE  /\ complete[k] \cap Transferable # {}
             /\ ~Flexible => replicas[t, k] \cap Transferable \subseteq complete[k]
  <2>1. /\ Readable(k) # {}
        /\ ~Flexible => replicas[t, k] \cap Transferable \subseteq Readable(k)
    BY Zenon, <1>1, ReturnedFacts
  <2> QED
    BY Zenon, <2>1 DEF Readable
<1>2. WriteInv => OkIsReadable
  BY Zenon, <1>1 DEF OkIsReadable
<1> QED
  BY <1>2, WriteInvariant, PTL

\* A failed call whose RPCs were all answered leaves nothing readable.
THEOREM ErrorMeansAbsent ==
  ASSUME Scope
  PROVE  Spec => []ErrorLeavesNothing
<1>1. WriteInv => ErrorLeavesNothing
  BY Zenon, ReturnedFacts DEF ErrorLeavesNothing, Readable
<1> QED
  BY <1>1, WriteInvariant, PTL
=============================================================================
