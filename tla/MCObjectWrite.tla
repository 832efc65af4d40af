---------------------------- MODULE MCObjectWrite ----------------------------
(* Instances of ObjectWrite for TLC. *)
EXTENDS ObjectWrite, TLC

CONSTANTS t1, t2, k1, k2

Cfg(m, n, r) == [mem |-> m, nof |-> n, removal |-> r]

\* Reliable writes with and without NoF replicas, and the flexible one; in the
\* last, objects are not removed while they are being written.
MCConfigs == {Cfg(1, 0, TRUE), Cfg(2, 0, TRUE), Cfg(2, 1, TRUE), Cfg(1, 1, FALSE)}
MCOneMemory == {Cfg(1, 0, FALSE)}
MCTwoMemory == {Cfg(2, 0, FALSE)}

\* Two threads write one key; one of them also a batch on one segment.
MCContention ==
  {<<t1, "BatchPut", {k1}>>, <<t1, "SameNode", {k1, k2}>>,
   <<t2, "Put", {k1}>>, <<t2, "Upsert", {k1}>>}
\* One thread writes two keys while the pool stores what it wrote before.
MCOneThread == {<<t1, "BatchPut", {k2}>>, <<t1, "Put", {k1}>>, <<t1, "Upsert", {k1}>>}
MCBatchUpsert == {<<t1, "BatchUpsert", {k1}>>}

\* All keys on one segment.
MCSegOf == [k \in Key |-> 0]
=============================================================================
