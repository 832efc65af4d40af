---------------------------- MODULE ObjectStore ----------------------------
(* What the write calls of a client promise, without replicas, transfers and   *)
(* batches: an object is absent, being written by one call, or readable as a   *)
(* whole.  A call answers OK only if it published the object, or if the object *)
(* was there when the call began; when an answer of the master is lost, the    *)
(* call answers ERROR and the object may be in any of the three states.        *)
EXTENDS FiniteSets

CONSTANTS Thread, Key

VARIABLES object, \* per key: absent, writing or readable
          stage,  \* per thread and key: how far the call has got
          reply   \* per thread and key: the answer of the last call

storeVars == <<object, stage, reply>>

Status == {"absent", "writing", "readable"}

Busy(t) == {k \in Key : stage[<<t, k>>] # "idle"}

(* The same field of some operations of a thread. *)
With(f, t, K, v) ==
  [o \in Thread \X Key |-> IF o[1] = t /\ o[2] \in K THEN v[o[2]] ELSE f[o]]

StoreInit ==
  /\ object = [k \in Key |-> "absent"]
  /\ stage = [o \in Thread \X Key |-> "idle"]
  /\ reply = [o \in Thread \X Key |-> "ERROR"]

(* A call opens the objects that nobody writes, all at once. *)
Open(K) == object' = [k \in Key |-> IF k \in K THEN "writing" ELSE object[k]]

Begin(t) ==
  /\ Busy(t) = {}
  /\ \E K \in SUBSET Key, started \in SUBSET {k \in Key : object[k] # "writing"} :
       \E s \in [K -> {"open", "exists", "uncertain"}] :
         /\ started \subseteq K
         /\ \A k \in K : /\ s[k] = "open" => k \in started
                         /\ s[k] = "exists" => k \notin started /\ object[k] # "absent"
         /\ Open(started)
         /\ stage' = With(stage, t, K, s)
         /\ reply' = With(reply, t, K, [k \in K |-> "none"])

(* A call that returns at once: the object exists, or the master did not answer. *)
Refuse(t) ==
  /\ Busy(t) = {}
  /\ \E k \in Key :
       \/ /\ object[k] # "absent"
          /\ reply' = With(reply, t, {k}, [j \in {k} |-> "OK"])
          /\ UNCHANGED object
       \/ /\ \E started \in SUBSET {j \in {k} : object[j] # "writing"} : Open(started)
          /\ reply' = With(reply, t, {k}, [j \in {k} |-> "ERROR"])
  /\ UNCHANGED stage

(* The fates of an object that a call writes: stage of the call, and object. *)
Fate == {<<"published", "readable">>, <<"withdrawn", "absent">>}
          \cup {"uncertain"} \X Status

(* A call publishes or withdraws objects it has opened; one that it has already *)
(* published it may still become uncertain about.                               *)
Settle(t) ==
  /\ \E K \in SUBSET Busy(t) : \E fate \in [K -> Fate] :
       /\ \A k \in K : \/ stage[<<t, k>>] = "open" /\ object[k] = "writing"
                       \/ stage[<<t, k>>] = "published" /\ fate[k] = <<"uncertain", object[k]>>
       /\ object' = [k \in Key |-> IF k \in K THEN fate[k][2] ELSE object[k]]
       /\ stage' = With(stage, t, K, [k \in K |-> fate[k][1]])
  /\ UNCHANGED reply

(* The call returns when it is through with every object. *)
Return(t) ==
  /\ Busy(t) # {}
  /\ \A k \in Busy(t) : stage[<<t, k>>] # "open"
  /\ reply' = With(reply, t, Busy(t),
                   [k \in Busy(t) |-> IF stage[<<t, k>>] \in {"published", "exists"}
                                        THEN "OK" ELSE "ERROR"])
  /\ stage' = With(stage, t, Busy(t), [k \in Busy(t) |-> "idle"])
  /\ UNCHANGED object

Vanish(k) ==
  /\ object[k] = "readable"
  /\ object' = [object EXCEPT ![k] = "absent"]
  /\ UNCHANGED <<stage, reply>>

StoreNext ==
  \/ \E t \in Thread : Begin(t) \/ Refuse(t) \/ Settle(t) \/ Return(t)
  \/ \E k \in Key : Vanish(k)

StoreSpec == StoreInit /\ [][StoreNext]_storeVars
=============================================================================
