---------------------------- MODULE AddressRanges ----------------------------
(***************************************************************************)
(* Address-range arithmetic and the ordered-tree searches of              *)
(* spdk/lib/dma/gpu_dmabuf.c.  A range is a record with fields addr and    *)
(* len; trees are modelled as sets of ranges, because their comparators    *)
(* order the entries by addr (region_compare) or by device, protection     *)
(* domain and addr (mr_compare), and no search looks at anything else.     *)
(***************************************************************************)
EXTENDS Integers

CONSTANT AddrSpace       \* number of addresses: uintptr_t has 2^64

ASSUME AddrSpaceAssumption == AddrSpace \in Nat \ {0}

\* A range whose end does not wrap around the address space.
Plain(r) ==
  /\ r.addr \in Nat
  /\ r.len \in Nat \ {0}
  /\ r.addr + r.len < AddrSpace

\* addr + len in uintptr_t arithmetic; both arguments are below AddrSpace.
End(addr, len) ==
  IF addr + len < AddrSpace THEN addr + len ELSE addr + len - AddrSpace

\* gpu_dmabuf_range_contains and gpu_dmabuf_region_contains.
Contains(r, addr, len) ==
  /\ addr >= r.addr
  /\ End(addr, len) >= addr
  /\ End(addr, len) <= End(r.addr, r.len)

\* gpu_dmabuf_range_overlaps and gpu_dmabuf_region_overlaps.
Overlaps(r, addr, len) ==
  /\ End(addr, len) > addr
  /\ End(r.addr, r.len) > r.addr
  /\ addr < End(r.addr, r.len)
  /\ r.addr < End(addr, len)

(***************************************************************************)
(* RB_NFIND(addr) is the first entry at or above addr.  RB_PREV of it, or  *)
(* RB_MAX when there is none, is the last entry strictly below addr.  Each *)
(* is a set with at most one element when no two entries share an addr.    *)
(***************************************************************************)
NFind(S, addr) ==
  {r \in S : /\ r.addr >= addr
             /\ \A q \in S : q.addr >= addr => r.addr <= q.addr}

Prev(S, addr) ==
  {r \in S : /\ r.addr < addr
             /\ \A q \in S : q.addr < addr => q.addr <= r.addr}

\* The entry found at or above addr wins over its predecessor.
FirstOf(A, B) == IF A # {} THEN A ELSE B

\* Slips for mutation checks: the predecessor is forgotten.
FindContainingAbove(S, addr, len) == {r \in NFind(S, addr) : Contains(r, addr, len)}

FindOverlappingAbove(S, addr, len) == {r \in NFind(S, addr) : Overlaps(r, addr, len)}

\* gpu_dmabuf_find_region, and gpu_dmabuf_find_mr on the entries of one
\* device and protection domain: only the two neighbours of addr are tried.
FindContaining(S, addr, len) ==
  FirstOf({r \in NFind(S, addr) : Contains(r, addr, len)},
          {r \in Prev(S, addr) : Contains(r, addr, len)})

\* gpu_dmabuf_find_overlapping_region and gpu_dmabuf_find_overlapping_mr.
FindOverlapping(S, addr, len) ==
  FirstOf({r \in NFind(S, addr) : Overlaps(r, addr, len)},
          {r \in Prev(S, addr) : Overlaps(r, addr, len)})

\* Two ranges share no byte.
Disjoint(r, q) == ~Overlaps(r, q.addr, q.len)

=============================================================================
