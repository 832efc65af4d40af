--------------------------- MODULE MCKvConnector ---------------------------
(* One engine on the direct path and one on the CPU path. *)
EXTENDS KvConnector

CONSTANTS e1, e2

(* Prompts of one text, of lengths on both sides of a block boundary, and a     *)
(* request that is resumed after it has produced a token.                       *)
MCRequest ==
  {[prompt |-> [i \in 1 .. n |-> i], output |-> << >>, resumed |-> FALSE] : n \in {3, 5, 6}}
  \cup {[prompt |-> [i \in 1 .. 4 |-> i], output |-> <<5>>, resumed |-> TRUE]}

=============================================================================
