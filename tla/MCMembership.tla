---------------------------- MODULE MCMembership ----------------------------
(***************************************************************************)
(* Instance of Membership for TLC: a file call of two chunks, so that a    *)
(* mount can fail half-way, or a heap call of one.                         *)
(***************************************************************************)
EXTENDS Membership

CONSTANTS c1, c2

MCRequests == [file |-> {<<c1, c2>>}, heap |-> {<<c2>>}]
====
