----------------------------- MODULE MCGpuDmabuf -----------------------------
(* Instances of GpuDmabuf for TLC. *)
EXTENDS GpuDmabuf, TLC

R(a, l) == [addr |-> a, len |-> l]

\* Two adjacent allocations of two bytes, and a third that reuses the second
\* half of the first and the first half of the second.
MCAllocsReused == {R(2, 2), R(4, 2), R(3, 2)}

\* Whole allocations, a half, and a range that spans the two.
MCRanges == {R(2, 2), R(3, 1), R(4, 2), R(3, 2)}
MCOneRange == {R(2, 2)}
MCOneAlloc == {R(2, 2)}

MCDeviceOf == [al \in Alloc |-> IF 1 \in Device /\ al.addr = 4 THEN 1 ELSE 0]

MCSymmetry == Permutations(Thread) \cup Permutations(PD) \cup Permutations(Key)
MCLifeSymmetry == Permutations(Thread) \cup Permutations(GD) \cup Permutations(Key)
=============================================================================
