----------------------------- MODULE MCDummyShm -----------------------------
(* Instances of DummyShm for TLC. *)
EXTENDS DummyShm, TLC

CONSTANTS local, pool, a1, a2, a3, b1, b2, h1, h2

\* Addresses, buffers and handles are interchangeable.
MCSymmetry == Permutations(Addr) \cup Permutations(Slot) \cup Permutations(Handle)
=============================================================================
