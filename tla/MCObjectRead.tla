---------------------------- MODULE MCObjectRead ----------------------------
(* The instance of ObjectRead for TLC. *)
EXTENDS ObjectRead, TLC

CONSTANTS r1, r2, k1, k2

Rep(t, near, done) == [type |-> t, local |-> near, complete |-> done]

MCLayouts ==
    (k1 :> {<<Rep("NOF_SSD", FALSE, FALSE), Rep("MEMORY", FALSE, TRUE)>>})
    @@ (k2 :> {<<Rep("MEMORY", TRUE, TRUE), Rep("DISK", FALSE, TRUE)>>,
               <<Rep("DISK", FALSE, TRUE), Rep("LOCAL_DISK", FALSE, TRUE)>>,
               <<Rep("LOCAL_DISK", FALSE, FALSE), Rep("DISK", FALSE, TRUE)>>})

MCCalls == {
    [kind |-> "range", keys |-> <<k1>>],
    [kind |-> "buffer", keys |-> <<k2>>],
    [kind |-> "into", keys |-> <<k1, k2>>],
    [kind |-> "same_node", keys |-> <<k1, k2>>]}
=============================================================================
