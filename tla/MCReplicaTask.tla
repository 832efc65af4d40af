--------------------------- MODULE MCReplicaTask ----------------------------
(***************************************************************************)
(* Instance of ReplicaTask for TLC: two adjacent buffers, and objects that *)
(* lie in the first one or in both.                                        *)
(***************************************************************************)
EXTENDS ReplicaTask, TLC

CONSTANTS b1, b2, t1

MCAddr == b1 :> 0 @@ b2 :> 4
MCLength == b1 :> 4 @@ b2 :> 3
MCObject == {[source |-> 1, size |-> 3], [source |-> 2, size |-> 5]}
====
