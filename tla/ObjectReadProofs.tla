-------------------------- MODULE ObjectReadProofs --------------------------
(***************************************************************************)
(* The reads of ObjectRead and the hot cache keep their promises for any   *)
(* number of readers, keys, calls, layouts, versions and queued fills.     *)
(***************************************************************************)
EXTENDS ObjectRead, FiniteSetTheorems, TLAPS

Block == [ver : 0..MaxVersion, late : BOOLEAN, pins : Int, stale : BOOLEAN]
Fill == [key : Key, ver : 0..MaxVersion, late : BOOLEAN]
CallRecord == [kind : {"none", "buffer", "into", "range", "same_node"}, keys : Seq(Key),
               lease : BOOLEAN,
               pc : {"idle", "read", "offload", "staged", "fetched", "held", "return"}]
Staged == [vers : {<<>>} \cup [Key -> 0..MaxVersion], ttl : BOOLEAN, alive : BOOLEAN]
WriteRecord == [kind : {"none", "put", "upsert", "remove", "bulk"}, keys : SUBSET Key,
                told : SUBSET Key, pc : {"idle", "started", "ended"}]

States == {"none", "ready", "offload", "submitted", "moved", "broken", "held", "done",
           "later", "returned"}

\* The fields of an operation; nothing is known of its replica.
OpRecord(o) ==
    /\ o = [st |-> o.st, replica |-> o.replica, ver |-> o.ver, hit |-> o.hit,
            data |-> o.data, result |-> o.result]
    /\ o.st \in States /\ o.ver \in 0..MaxVersion /\ o.hit \in BOOLEAN
    /\ o.data \in Data /\ o.result \in {"none", "OK", "FAIL"}

MasterTypes ==
    /\ versions \in [Key -> Version]
    /\ \A k \in Key : object[k].ver \in {0, versions[k]}
    /\ writer \in WriteRecord
    /\ settled \in SUBSET Key

CacheTypes ==
    /\ hot \in [Key -> {NoBlock} \cup Block]
    /\ fills \subseteq Fill
    /\ leaked \in [Key -> 0..MaxLeak]

ReaderTypes ==
    /\ call \in [Reader -> CallRecord]
    /\ staged \in [Reader -> Staged]
    /\ op = [r \in Reader |-> [k \in Key |-> op[r][k]]]
    /\ \A r \in Reader, k \in Key : OpRecord(op[r][k])

-----------------------------------------------------------------------------
(* The pins. *)

\* How sets of readers are counted.
Counting ==
    /\ Cardinality({}) = 0
    /\ \A S \in SUBSET Reader :
         /\ Cardinality(S) \in Nat /\ (Cardinality(S) = 0 => S = {})
         /\ \A r \in Reader : /\ r \notin S => Cardinality(S \cup {r}) = Cardinality(S) + 1
                              /\ r \in S => Cardinality(S \ {r}) = Cardinality(S) - 1

Pinning(o) == o.hit /\ o.st \in {"submitted", "moved", "broken", "held"}
Pinners(k) == {r \in Reader : Pinning(op[r][k])}

\* PinsBalance, for one key.
Balanced(k) ==
    IF HasBlock(hot, k) THEN hot[k].pins = Cardinality(Pinners(k)) + leaked[k]
    ELSE Cardinality(Pinners(k)) + leaked[k] = 0

\* What is pinned stays the same.
Kept(r, k) == Pinning(op[r][k]) => HasBlock(hot, k) /\ hot[k].ver = op[r][k].ver

\* What fills bring and blocks hold of a key that a local write has settled.
Fresh(k) ==
    k \in settled =>
        /\ \A f \in fills : f.key = k => f.ver = object[k].ver \/ f.late
        /\ HasBlock(hot, k) /\ ~hot[k].stale => hot[k].ver = object[k].ver \/ hot[k].late

-----------------------------------------------------------------------------
(* The operations. *)

\* How the state of an operation goes with the state of its call.
InStep(r, k) ==
    LET c == call[r]
        o == op[r][k]
    IN  /\ o.st = "none" => ~o.hit /\ o.result = "none"
        /\ o.st # "none" => k \in Named(c.keys) /\ c.pc # "idle"
        /\ o.st \in {"ready", "later", "submitted", "moved", "broken"} => c.pc = "read"
        /\ o.st = "held" => c.pc = "held" /\ c.keys = <<k>> /\ o.hit
        /\ o.st = "offload" => c.pc \in {"read", "offload", "staged", "fetched"}
        /\ o.st \in {"ready", "later", "offload"} => ~o.hit
        /\ o.result = "OK" => o.st \in {"done", "returned"}

Intact(c, o) ==
    IF o.hit THEN o.data # Overwritten ELSE o.data >= o.ver \/ c.kind = "same_node"

\* The bytes are those of the version read, as long as the lease lasts.
Sound(r, k) ==
    LET c == call[r]
        o == op[r][k]
    IN  /\ ~o.hit => o.ver <= versions[k]
        /\ o.st = "moved" => /\ o.data # Overwritten
                             /\ c.lease => Intact(c, o)
        /\ o.result = "OK" => /\ o.hit => Intact(c, o)
                              /\ o.st = "returned" \/ c.pc # "read" \/ c.lease => Intact(c, o)

\* The buffer of the owner holds no older version, until it is reused.
Offloaded(r) ==
    LET c == call[r]
        s == staged[r]
    IN  /\ s.ttl => s.alive
        /\ c.pc \in {"staged", "fetched"} => s.vers \in [Key -> 0..MaxVersion]
        /\ c.pc = "staged" \/ (c.pc = "fetched" /\ s.ttl) =>
             \A k \in Key : op[r][k].st = "offload" => s.vers[k] >= op[r][k].ver

ReadInv ==
    /\ MasterTypes /\ CacheTypes /\ ReaderTypes
    /\ \A k \in Key : Balanced(k) /\ Fresh(k)
    /\ \A r \in Reader : Offloaded(r)
    /\ \A r \in Reader, k \in Key : Kept(r, k) /\ InStep(r, k) /\ Sound(r, k)

-----------------------------------------------------------------------------
(* Blocks and pins. *)

\* Finitely many readers are counted so.
LEMMA ReadersCount == Counting
<1>1. \A S \in SUBSET Reader : IsFiniteSet(S) /\ Cardinality(S) \in Nat
  BY ReadersAssumption, FS_Subset, FS_CardinalityType
<1> QED
  BY <1>1, FS_EmptySet, FS_AddElement, FS_RemoveElement DEF Counting

\* A block is not the absence of one, and another number of pins changes nothing
\* else of it.
LEMMA BlockFacts ==
  ASSUME CacheTypes, NEW k \in Key, HasBlock(hot, k), NEW p \in Int, NEW b,
         b = [hot[k] EXCEPT !.pins = p]
  PROVE  /\ b \in Block /\ b # NoBlock /\ b.pins = p
         /\ b.ver = hot[k].ver /\ b.late = hot[k].late /\ b.stale = hot[k].stale
<1>1. hot[k] \in Block
  BY Zenon DEF CacheTypes, HasBlock
<1>2. b \in Block
  BY Zenon, <1>1 DEF Block
<1>3. NoBlock \notin Block
  BY BoundsAssumption DEF NoBlock, Block
<1> QED
  BY Zenon, <1>1, <1>2, <1>3 DEF Block

\* The readers that pin a block are counted.
LEMMA PinnersCount ==
  ASSUME NEW k \in Key
  PROVE  Pinners(k) \in SUBSET Reader /\ Cardinality(Pinners(k)) \in Nat
<1>1. Pinners(k) \in SUBSET Reader
  BY Zenon DEF Pinners
<1> QED
  BY Zenon, <1>1, ReadersCount DEF Counting

\* Nobody pins what is not there, or has no pins.
LEMMA NobodyPins ==
  ASSUME CacheTypes, NEW k \in Key, Balanced(k), ~HasBlock(hot, k) \/ hot[k].pins = 0
  PROVE  Pinners(k) = {} /\ leaked[k] = 0
<1>1. Pinners(k) \in SUBSET Reader /\ Cardinality(Pinners(k)) \in Nat /\ leaked[k] \in Nat
  BY PinnersCount, BoundsAssumption DEF CacheTypes
<1>2. Cardinality(Pinners(k)) = 0 /\ leaked[k] = 0
  BY <1>1 DEF Balanced
<1> QED
  BY Zenon, <1>1, <1>2, ReadersCount DEF Counting

\* What a step of reader r does to the pins of a block.
PinStep(r, k) ==
    \/ /\ Pinning(op[r][k])' <=> Pinning(op[r][k])
       /\ hot'[k] = hot[k] /\ leaked'[k] = leaked[k]
    \/ /\ ~Pinning(op[r][k]) /\ Pinning(op[r][k])'
       /\ HasBlock(hot, k) /\ hot'[k] = [hot[k] EXCEPT !.pins = @ + 1]
       /\ leaked'[k] = leaked[k]
    \/ /\ Pinning(op[r][k])' <=> Pinning(op[r][k])
       /\ HasBlock(hot, k) /\ hot'[k] = [hot[k] EXCEPT !.pins = @ + 1]
       /\ leaked'[k] = leaked[k] + 1 /\ leaked[k] < MaxLeak
    \/ /\ Pinning(op[r][k]) /\ ~Pinning(op[r][k])'
       /\ hot'[k] = IF hot[k].stale /\ hot[k].pins = 1 THEN NoBlock
                    ELSE [hot[k] EXCEPT !.pins = @ - 1]
       /\ leaked'[k] = leaked[k]

\* A step that leaves a block what it was, but may remove it or make it stale.
Handled(k) ==
    HasBlock(hot, k)' =>
        /\ HasBlock(hot, k)
        /\ hot'[k].ver = hot[k].ver /\ hot'[k].late = hot[k].late
        /\ hot[k].stale => hot'[k].stale

\* Such a step keeps the balance and the block.
LEMMA PinStepKeeps ==
  ASSUME CacheTypes, NEW r \in Reader, NEW k \in Key, Balanced(k), Kept(r, k), PinStep(r, k),
         \A q \in Reader : q # r => op'[q][k] = op[q][k]
  PROVE  /\ Balanced(k)' /\ Handled(k)
         /\ hot'[k] \in {NoBlock} \cup Block /\ leaked'[k] \in 0..MaxLeak
<1> DEFINE S == Pinners(k)
           T == Pinners(k)'
<1>1. S \in SUBSET Reader /\ Cardinality(S) \in Nat /\ leaked[k] \in 0..MaxLeak /\ leaked[k] \in Nat
      /\ MaxLeak \in Nat
  BY PinnersCount, BoundsAssumption DEF CacheTypes
<1>2. /\ r \in S <=> Pinning(op[r][k])
      /\ r \in T <=> Pinning(op[r][k])'
      /\ \A q : q # r => (q \in T <=> q \in S)
  BY Zenon DEF Pinners
<1>3. hot[k] \in {NoBlock} \cup Block
  BY Zenon DEF CacheTypes
<1>4. HasBlock(hot, k) => hot[k].pins = Cardinality(S) + leaked[k] /\ hot[k].pins \in Int
  BY <1>1 DEF Balanced
<1>5. /\ HasBlock(hot, k)' /\ hot'[k].pins = Cardinality(T) + leaked'[k] => Balanced(k)'
      /\ ~HasBlock(hot, k)' /\ Cardinality(T) + leaked'[k] = 0 => Balanced(k)'
  BY Zenon DEF Balanced
<1> HIDE DEF S, T
<1>6. CASE /\ Pinning(op[r][k])' <=> Pinning(op[r][k])
           /\ hot'[k] = hot[k] /\ leaked'[k] = leaked[k]
  <2>1. T = S
    <3>1. \A q : q \in T <=> q \in S
      BY Zenon, <1>2, <1>6
    <3> QED
      BY Zenon, <3>1
  <2>2. Balanced(k)'
    BY Zenon, <1>5, <1>6, <2>1 DEF Balanced, HasBlock, S, T
  <2> QED
    BY Zenon, <1>1, <1>3, <1>6, <2>2 DEF Handled, HasBlock
<1>7. CASE /\ ~Pinning(op[r][k]) /\ Pinning(op[r][k])'
           /\ HasBlock(hot, k) /\ hot'[k] = [hot[k] EXCEPT !.pins = @ + 1]
           /\ leaked'[k] = leaked[k]
  <2>1. T = S \cup {r} /\ r \notin S
    BY Zenon, <1>2, <1>7
  <2>2. Cardinality(T) = Cardinality(S) + 1
    BY Zenon, <1>1, <2>1, ReadersCount DEF Counting
  <2>3. /\ hot'[k] \in Block /\ HasBlock(hot, k)' /\ hot'[k].pins = hot[k].pins + 1
        /\ hot'[k].ver = hot[k].ver /\ hot'[k].late = hot[k].late /\ hot'[k].stale = hot[k].stale
    <3>1. hot[k].pins + 1 \in Int /\ hot'[k] = [hot[k] EXCEPT !.pins = hot[k].pins + 1]
      BY <1>4, <1>7
    <3> QED
      BY <1>7, <3>1, BlockFacts DEF HasBlock
  <2> QED
    BY <1>1, <1>4, <1>5, <1>7, <2>2, <2>3 DEF Handled
<1>8. CASE /\ Pinning(op[r][k])' <=> Pinning(op[r][k])
           /\ HasBlock(hot, k) /\ hot'[k] = [hot[k] EXCEPT !.pins = @ + 1]
           /\ leaked'[k] = leaked[k] + 1 /\ leaked[k] < MaxLeak
  <2>1. T = S
    <3>1. \A q : q \in T <=> q \in S
      BY Zenon, <1>2, <1>8
    <3> QED
      BY Zenon, <3>1
  <2>2. /\ hot'[k] \in Block /\ HasBlock(hot, k)' /\ hot'[k].pins = hot[k].pins + 1
        /\ hot'[k].ver = hot[k].ver /\ hot'[k].late = hot[k].late /\ hot'[k].stale = hot[k].stale
    <3>1. hot[k].pins + 1 \in Int /\ hot'[k] = [hot[k] EXCEPT !.pins = hot[k].pins + 1]
      BY <1>4, <1>8
    <3> QED
      BY <1>8, <3>1, BlockFacts DEF HasBlock
  <2> QED
    BY <1>1, <1>4, <1>5, <1>8, <2>1, <2>2 DEF Handled
<1>9. CASE /\ Pinning(op[r][k]) /\ ~Pinning(op[r][k])'
           /\ hot'[k] = IF hot[k].stale /\ hot[k].pins = 1 THEN NoBlock
                        ELSE [hot[k] EXCEPT !.pins = @ - 1]
           /\ leaked'[k] = leaked[k]
  <2>1. T = S \ {r} /\ r \in S
    BY Zenon, <1>2, <1>9
  <2>2. Cardinality(T) = Cardinality(S) - 1 /\ Cardinality(T) \in Nat
    <3>1. T \in SUBSET Reader /\ Cardinality(T) = Cardinality(S) - 1
      BY Zenon, <1>1, <2>1, ReadersCount DEF Counting
    <3> QED
      BY Zenon, <3>1, ReadersCount DEF Counting
  <2>3. HasBlock(hot, k)
    BY Zenon, <1>9 DEF Kept
  <2>4. CASE hot[k].stale /\ hot[k].pins = 1
    <3>1. ~HasBlock(hot, k)' /\ hot'[k] = NoBlock
      BY Zenon, <1>9, <2>4 DEF HasBlock
    <3> QED
      BY <1>1, <1>4, <1>5, <1>9, <2>2, <2>3, <2>4, <3>1 DEF Handled
  <2>5. CASE ~(hot[k].stale /\ hot[k].pins = 1)
    <3>1. hot[k].pins - 1 \in Int /\ hot'[k] = [hot[k] EXCEPT !.pins = hot[k].pins - 1]
      BY <1>4, <1>9, <2>3, <2>5
    <3>2. /\ hot'[k] \in Block /\ HasBlock(hot, k)' /\ hot'[k].pins = hot[k].pins - 1
          /\ hot'[k].ver = hot[k].ver /\ hot'[k].late = hot[k].late /\ hot'[k].stale = hot[k].stale
      BY <2>3, <3>1, BlockFacts DEF HasBlock
    <3>3. Balanced(k)'
      BY <1>1, <1>4, <1>5, <1>9, <2>2, <2>3, <3>2
    <3> QED
      BY Zenon, <1>1, <1>9, <2>3, <3>2, <3>3 DEF Handled
  <2> QED
    BY Zenon, <2>4, <2>5
<1> QED
  BY Zenon, <1>6, <1>7, <1>8, <1>9 DEF PinStep

-----------------------------------------------------------------------------
(* Frames. *)

\* A pinned block stays, whoever else does something to it.
LEMMA KeptFrame ==
  ASSUME NEW r \in Reader, NEW k \in Key, Kept(r, k), op'[r][k] = op[r][k], Balanced(k)',
         leaked'[k] \in Nat,
         HasBlock(hot, k) /\ HasBlock(hot, k)' => hot'[k].ver = hot[k].ver
  PROVE  Kept(r, k)'
<1> SUFFICES ASSUME Pinning(op[r][k])' PROVE HasBlock(hot, k)' /\ hot'[k].ver = op'[r][k].ver
  BY Zenon DEF Kept
<1>1. HasBlock(hot, k) /\ hot[k].ver = op[r][k].ver
  BY Zenon DEF Kept
<1>2. r \in Pinners(k)' /\ Pinners(k)' \subseteq Reader
  BY Zenon DEF Pinners
<1>3. Cardinality(Pinners(k)') \in Nat /\ Cardinality(Pinners(k)') # 0
  BY Zenon, <1>2, ReadersCount DEF Counting
<1>4. HasBlock(hot, k)'
  BY <1>3 DEF Balanced
<1> QED
  BY Zenon, <1>1, <1>4

\* A block or a fill that was fresh stays so until the object changes.
LEMMA FreshFrame ==
  ASSUME NEW k \in Key, Fresh(k), Handled(k),
         k \in settled' => k \in settled /\ object'[k].ver = object[k].ver,
         \A f \in fills' : f \in fills \/ f.key # k \/ f.late \/ f.ver = object[k].ver
  PROVE  Fresh(k)'
BY Zenon DEF Fresh, Handled

\* Versions are numbers.
LEMMA VersionFacts ==
  ASSUME MasterTypes, ReaderTypes, NEW k \in Key
  PROVE  versions[k] \in Nat /\ \A r \in Reader : op[r][k].ver \in Nat
<1>1. versions[k] \in Nat
  BY BoundsAssumption DEF MasterTypes, Version
<1>2. \A r \in Reader : op[r][k].ver \in 0..MaxVersion
  BY Zenon DEF ReaderTypes, OpRecord
<1>3. \A v \in 0..MaxVersion : v \in Nat
  BY BoundsAssumption
<1> QED
  BY Zenon, <1>1, <1>2, <1>3

\* A reader that does nothing.
LEMMA ReaderIdle ==
  ASSUME NEW r \in Reader, NEW k \in Key, InStep(r, k), Sound(r, k),
         op'[r][k] = op[r][k], call'[r] = call[r],
         versions[k] \in Nat, versions'[k] \in Nat, versions[k] <= versions'[k],
         op[r][k].ver \in Nat
  PROVE  InStep(r, k)' /\ Sound(r, k)'
BY DEF InStep, Sound, Intact

\* No reader does anything.
LEMMA ReadersIdle ==
  ASSUME ReadInv, UNCHANGED readers, versions' \in [Key -> Version],
         \A k \in Key : versions[k] <= versions'[k]
  PROVE  /\ ReaderTypes' /\ \A r \in Reader : Offloaded(r)'
         /\ \A r \in Reader, k \in Key : InStep(r, k)' /\ Sound(r, k)'
         /\ \A k \in Key : Pinners(k)' = Pinners(k)
<1>1. call' = call /\ op' = op /\ staged' = staged
  BY Zenon DEF readers
<1>2. ReaderTypes' /\ \A r \in Reader : Offloaded(r)'
  BY Zenon, <1>1 DEF ReadInv, ReaderTypes, Offloaded
<1>3. \A k \in Key : versions[k] \in Nat /\ versions'[k] \in Nat
  BY BoundsAssumption DEF ReadInv, MasterTypes, Version
<1>4. \A r \in Reader, k \in Key : InStep(r, k)' /\ Sound(r, k)'
  <2>1. \A r \in Reader, k \in Key : op[r][k].ver \in Nat
    BY Zenon, VersionFacts DEF ReadInv
  <2> QED
    BY Zenon, <1>1, <1>3, <2>1, ReaderIdle DEF ReadInv
<1>5. \A k \in Key : Pinners(k)' = Pinners(k)
  BY Zenon, <1>1 DEF Pinners
<1> QED
  BY Zenon, <1>2, <1>4, <1>5

\* A step of one reader.
LEMMA ReaderStep ==
  ASSUME ReadInv, NEW r \in Reader, UNCHANGED <<master, local>>,
         \A q \in Reader : q # r => op'[q] = op[q] /\ call'[q] = call[q] /\ staged'[q] = staged[q],
         ReaderTypes', hot' = [k \in Key |-> hot'[k]], leaked' = [k \in Key |-> leaked'[k]],
         \A k \in Key : PinStep(r, k),
         \A f \in fills' : f \in fills \/ (f \in Fill /\ (f.late \/ f.ver = object[f.key].ver)),
         \A k \in Key : InStep(r, k)' /\ Sound(r, k)',
         \A k \in Key : Pinning(op[r][k])' => HasBlock(hot, k)' /\ hot'[k].ver = op'[r][k].ver,
         Offloaded(r)'
  PROVE  ReadInv'
<1>1. /\ MasterTypes /\ CacheTypes /\ ReaderTypes
      /\ \A k \in Key : Balanced(k) /\ Fresh(k)
      /\ \A q \in Reader, k \in Key : Kept(q, k) /\ InStep(q, k) /\ Sound(q, k)
      /\ \A q \in Reader : Offloaded(q)
  BY Zenon DEF ReadInv
<1>2. UNCHANGED <<object, versions, writer, settled>>
  BY Zenon DEF master, local
<1>3. \A k \in Key : /\ Balanced(k)' /\ Handled(k)
                     /\ hot'[k] \in {NoBlock} \cup Block /\ leaked'[k] \in 0..MaxLeak
  BY Zenon, <1>1, PinStepKeeps
<1>4. MasterTypes' /\ CacheTypes'
  <2>1. fills' \subseteq Fill
    BY Zenon, <1>1 DEF CacheTypes
  <2>2. hot' \in [Key -> {NoBlock} \cup Block] /\ leaked' \in [Key -> 0..MaxLeak]
    BY Zenon, <1>3
  <2> QED
    BY Zenon, <1>1, <1>2, <2>1, <2>2 DEF MasterTypes, CacheTypes
<1>5. ASSUME NEW k \in Key PROVE Fresh(k)'
  <2>1. \A f \in fills' : f \in fills \/ f.key # k \/ f.late \/ f.ver = object[k].ver
    BY Zenon
  <2> QED
    BY Zenon, <1>1, <1>2, <1>3, <2>1, FreshFrame
<1>6. ASSUME NEW q \in Reader, NEW k \in Key PROVE Kept(q, k)'
  <2>1. CASE q = r
    BY Zenon, <2>1 DEF Kept
  <2>2. CASE q # r
    <3>1. leaked'[k] \in Nat /\ op'[q][k] = op[q][k]
      BY <1>3, <2>2, BoundsAssumption
    <3>2. HasBlock(hot, k) /\ HasBlock(hot, k)' => hot'[k].ver = hot[k].ver
      BY Zenon, <1>3 DEF Handled
    <3> QED
      BY Zenon, <1>1, <1>3, <3>1, <3>2, KeptFrame
  <2> QED
    BY Zenon, <2>1, <2>2
<1>7. ASSUME NEW q \in Reader, q # r
      PROVE  Offloaded(q)' /\ \A k \in Key : InStep(q, k)' /\ Sound(q, k)'
  <2>1. op'[q] = op[q] /\ call'[q] = call[q] /\ staged'[q] = staged[q]
    BY Zenon, <1>7
  <2>2. Offloaded(q)'
    BY <1>1, <2>1 DEF Offloaded
  <2>3. \A k \in Key : versions[k] \in Nat /\ op[q][k].ver \in Nat
    BY Zenon, <1>1, VersionFacts
  <2>4. \A k \in Key : InStep(q, k)' /\ Sound(q, k)'
    BY <1>1, <1>2, <2>1, <2>3, ReaderIdle
  <2> QED
    BY Zenon, <2>2, <2>4
<1> QED
  BY Zenon, <1>3, <1>4, <1>5, <1>6, <1>7 DEF ReadInv

-----------------------------------------------------------------------------
(* The steps of an operation on one key. *)

\* The initial state.
LEMMA ReadInvInit ==
  ASSUME Init
  PROVE  ReadInv
<1>1. /\ \A k \in Key : object[k].ver = 1 /\ versions[k] = 1 /\ hot[k] = NoBlock /\ leaked[k] = 0
      /\ \A r \in Reader : call[r] = NoCall /\ staged[r] = NotStaged
      /\ \A r \in Reader, k \in Key : op[r][k] = NoOp
      /\ fills = {} /\ settled = {} /\ writer = NoWrite
  BY DEF Init
<1>2. MasterTypes
  BY <1>1, BoundsAssumption DEF Init, MasterTypes, Version, NoWrite, WriteRecord
<1>3. CacheTypes
  BY BoundsAssumption DEF Init, CacheTypes
<1>4. ReaderTypes
  <2>1. NoCall \in CallRecord /\ NotStaged \in Staged
    BY DEF NoCall, CallRecord, NotStaged, Staged
  <2>2. OpRecord(NoOp)
    BY BoundsAssumption DEF OpRecord, NoOp, States, Data, Garbage
  <2> QED
    BY Zenon, <1>1, <2>1, <2>2 DEF Init, ReaderTypes
<1>5. ASSUME NEW k \in Key PROVE Balanced(k) /\ Fresh(k)
  <2>1. Pinners(k) = {}
    BY <1>1 DEF Pinners, Pinning, NoOp
  <2> QED
    BY <1>1, <2>1, ReadersCount DEF Balanced, Fresh, HasBlock, Counting
<1>6. \A r \in Reader : Offloaded(r)
  BY <1>1 DEF Offloaded, NoCall, NotStaged
<1>7. \A r \in Reader, k \in Key : Kept(r, k) /\ InStep(r, k) /\ Sound(r, k)
  BY <1>1 DEF Kept, Pinning, InStep, Sound, NoOp, NoCall
<1> QED
  BY Zenon, <1>2, <1>3, <1>4, <1>5, <1>6, <1>7 DEF ReadInv

\* Reader r changes its operation on k and nothing else of its own.
OnlyOp(r, k) ==
    /\ op' = [q \in Reader |-> [j \in Key |-> op'[q][j]]]
    /\ \A q \in Reader, j \in Key : q # r \/ j # k => op'[q][j] = op[q][j]
    /\ hot' = [j \in Key |-> hot'[j]] /\ leaked' = [j \in Key |-> leaked'[j]]
    /\ \A j \in Key : j # k => hot'[j] = hot[j] /\ leaked'[j] = leaked[j]

\* A step of one operation.
LEMMA KeyStep ==
  ASSUME ReadInv, NEW r \in Reader, NEW k \in Key, UNCHANGED <<master, local, call, staged>>,
         OnlyOp(r, k), OpRecord(op'[r][k]), PinStep(r, k),
         \A f \in fills' : f \in fills \/ (f \in Fill /\ (f.late \/ f.ver = object[f.key].ver)),
         InStep(r, k)', Sound(r, k)',
         Pinning(op[r][k])' => HasBlock(hot, k)' /\ hot'[k].ver = op'[r][k].ver,
         op'[r][k].st # "offload"
  PROVE  ReadInv'
<1>1. /\ MasterTypes /\ CacheTypes /\ ReaderTypes
      /\ \A j \in Key : Kept(r, j) /\ InStep(r, j) /\ Sound(r, j)
      /\ Offloaded(r)
  BY Zenon DEF ReadInv
<1>2. UNCHANGED <<object, versions, writer, settled, call, staged>>
  BY Zenon DEF master, local
<1>3. \A q \in Reader : q # r => op'[q] = op[q]
  BY <1>1 DEF OnlyOp, ReaderTypes
<1>4. ReaderTypes'
  BY Zenon, <1>1, <1>2 DEF OnlyOp, ReaderTypes
<1>5. ASSUME NEW j \in Key
      PROVE  /\ PinStep(r, j) /\ InStep(r, j)' /\ Sound(r, j)'
             /\ Pinning(op[r][j])' => HasBlock(hot, j)' /\ hot'[j].ver = op'[r][j].ver
  <2>1. CASE j = k
    BY Zenon, <2>1
  <2>2. CASE j # k
    <3>1. op'[r][j] = op[r][j] /\ hot'[j] = hot[j] /\ leaked'[j] = leaked[j]
      BY Zenon, <2>2 DEF OnlyOp
    <3>2. InStep(r, j)' /\ Sound(r, j)'
      BY <1>1, <1>2, <3>1 DEF InStep, Sound
    <3>3. PinStep(r, j)
      BY Zenon, <3>1 DEF PinStep
    <3> QED
      BY Zenon, <1>1, <3>1, <3>2, <3>3 DEF Kept, HasBlock
  <2> QED
    BY Zenon, <2>1, <2>2
<1>6. Offloaded(r)'
  <2>1. \A j \in Key : op'[r][j].st = "offload" => op'[r][j] = op[r][j]
    BY Zenon DEF OnlyOp
  <2> QED
    BY Zenon, <1>1, <1>2, <2>1 DEF Offloaded
<1>7. hot' = [j \in Key |-> hot'[j]] /\ leaked' = [j \in Key |-> leaked'[j]]
  BY Zenon DEF OnlyOp
<1> QED
  BY Zenon, <1>2, <1>3, <1>4, <1>5, <1>6, <1>7, ReaderStep

\* RedirectToHotCache finds nothing, pins a block, or pins one and forgets it.
LEMMA RedirectFacts ==
  ASSUME NEW r \in Reader, NEW k \in Key, NEW d \in Redirect(r, k)
  PROVE  \/ d.hot = hot /\ d.hit = FALSE /\ d.lost = FALSE
         \/ /\ HasBlock(hot, k) /\ ~hot[k].stale /\ d.hot = GetHotKey(hot, k)
            /\ d.hit = TRUE /\ d.lost = FALSE
         \/ /\ HasBlock(hot, k) /\ ~hot[k].stale /\ d.hot = GetHotKey(hot, k)
            /\ d.hit = FALSE /\ d.lost = TRUE
BY DEF Redirect

\* The operation is the first of its call in one of some states.
LEMMA FirstFacts ==
  ASSUME NEW r \in Reader, NEW k \in Key, NEW sts, IsFirst(r, k, sts)
  PROVE  op[r][k].st \in sts /\ k \in Named(call[r].keys)
BY Zenon DEF IsFirst

\* One more pin for a block.
LEMMA PinTaken ==
  ASSUME CacheTypes, NEW k \in Key, HasBlock(hot, k)
  PROVE  /\ GetHotKey(hot, k) = [j \in Key |-> GetHotKey(hot, k)[j]]
         /\ GetHotKey(hot, k)[k] = [hot[k] EXCEPT !.pins = @ + 1]
         /\ GetHotKey(hot, k)[k].ver = hot[k].ver /\ GetHotKey(hot, k)[k].stale = hot[k].stale
         /\ GetHotKey(hot, k)[k].pins = hot[k].pins + 1
         /\ GetHotKey(hot, k)[k] # NoBlock /\ hot[k].ver \in 0..MaxVersion /\ hot[k].pins \in Int
         /\ \A j \in Key : j # k => GetHotKey(hot, k)[j] = hot[j]
<1>1. hot[k] \in Block
  BY Zenon DEF CacheTypes, HasBlock
<1>2. hot[k].pins + 1 \in Int /\ hot[k].pins \in Int /\ hot[k].ver \in 0..MaxVersion
  BY <1>1 DEF Block
<1>3. GetHotKey(hot, k)[k] = [hot[k] EXCEPT !.pins = hot[k].pins + 1]
  BY Zenon DEF GetHotKey, CacheTypes
<1>4. GetHotKey(hot, k) = [j \in Key |-> GetHotKey(hot, k)[j]]
  BY Zenon DEF GetHotKey, CacheTypes
<1>5. \A j \in Key : j # k => GetHotKey(hot, k)[j] = hot[j]
  BY Zenon DEF GetHotKey, CacheTypes
<1> QED
  BY <1>2, <1>3, <1>4, <1>5, BlockFacts

\* The operation of r on k becomes o.
Becomes(r, k, o) == op' = [op EXCEPT ![r][k] = o]

\* One operation is replaced.
LEMMA OpUpdate ==
  ASSUME ReaderTypes, NEW r \in Reader, NEW k \in Key, NEW o, Becomes(r, k, o)
  PROVE  /\ op'[r][k] = o
         /\ op' = [q \in Reader |-> [j \in Key |-> op'[q][j]]]
         /\ \A q \in Reader, j \in Key : q # r \/ j # k => op'[q][j] = op[q][j]
         /\ \A q \in Reader : q # r => op'[q] = op[q]
<1>1. op = [q \in Reader |-> [j \in Key |-> op[q][j]]]
  BY Zenon DEF ReaderTypes
<1>2. op' = [q \in Reader |-> IF q = r THEN [op[q] EXCEPT ![k] = o] ELSE op[q]]
  BY Zenon, <1>1 DEF Becomes
<1>3. op[r] = [j \in Key |-> op[r][j]]
  BY Zenon, <1>1
<1>4. op'[r] = [j \in Key |-> IF j = k THEN o ELSE op[r][j]]
  BY Zenon, <1>2, <1>3
<1>5. \A q \in Reader : q # r => op'[q] = op[q] /\ op'[q] = [j \in Key |-> op'[q][j]]
  BY Zenon, <1>1, <1>2
<1>6. op' = [q \in Reader |-> [j \in Key |-> op'[q][j]]]
  BY <1>2, <1>4, <1>5
<1> QED
  BY <1>4, <1>5, <1>6

\* An operation between the query and its submission.
LEMMA ReadyFacts ==
  ASSUME ReadInv, NEW r \in Reader, NEW k \in Key, IsFirst(r, k, {"ready"})
  PROVE  /\ op[r][k].st = "ready" /\ k \in Named(call[r].keys) /\ call[r].pc = "read"
         /\ ~op[r][k].hit /\ op[r][k].result # "OK" /\ ~Pinning(op[r][k])
         /\ op[r][k].ver <= versions[k]
<1>1. op[r][k].st = "ready" /\ k \in Named(call[r].keys)
  BY FirstFacts
<1>2. InStep(r, k) /\ Sound(r, k)
  BY Zenon DEF ReadInv
<1> QED
  BY Zenon, <1>1, <1>2 DEF InStep, Sound, Pinning

\* RedirectToHotCache and the submission of the transfer.
LEMMA SubmitKeeps ==
  ASSUME ReadInv, NEW r \in Reader, NEW k \in Key, Submit(r, k)
  PROVE  ReadInv'
<1>1. PICK d \in Redirect(r, k) :
         /\ IsFirst(r, k, {"ready"})
         /\ d.lost => leaked[k] < MaxLeak
         /\ hot' = d.hot
         /\ leaked' = [leaked EXCEPT ![k] = IF d.lost THEN @ + 1 ELSE @]
         /\ op' = [op EXCEPT ![r][k] =
                      [op[r][k] EXCEPT !.st = "submitted", !.hit = d.hit,
                                       !.ver = IF d.hit THEN d.hot[k].ver
                                               ELSE op[r][k].ver]]
  BY Zenon DEF Submit
<1>2. UNCHANGED <<master, local, call, staged>> /\ fills' = fills /\ UNCHANGED versions
  BY Zenon DEF Submit, master
<1>3. ReaderTypes /\ CacheTypes /\ OpRecord(op[r][k])
  BY Zenon DEF ReadInv, ReaderTypes
<1>4. /\ op[r][k].st = "ready" /\ k \in Named(call[r].keys) /\ call[r].pc = "read"
      /\ ~op[r][k].hit /\ op[r][k].result # "OK" /\ ~Pinning(op[r][k])
      /\ op[r][k].ver <= versions[k]
  BY Zenon, <1>1, ReadyFacts
<1> DEFINE o == [op[r][k] EXCEPT !.st = "submitted", !.hit = d.hit,
 
                                 !.ver = IF d.hit THEN d.hot[k].ver ELSE op[r][k].ver]
<1>5. Becomes(r, k, o)
  BY Zenon, <1>1 DEF Becomes
<1> HIDE DEF o
<1>6. /\ op'[r][k] = o
      /\ op' = [q \in Reader |-> [j \in Key |-> op'[q][j]]]
      /\ \A q \in Reader, j \in Key : q # r \/ j # k => op'[q][j] = op[q][j]
  BY <1>3, <1>5, OpUpdate
<1>7. /\ o.st = "submitted" /\ o.hit = d.hit /\ o.data = op[r][k].data
      /\ o.result = op[r][k].result
      /\ o.ver = IF d.hit THEN d.hot[k].ver ELSE op[r][k].ver
      /\ o = [st |-> o.st, replica |-> o.replica, ver |-> o.ver, hit |-> o.hit,
              data |-> o.data, result |-> o.result]
  <2>1. PICK p, v : p = op[r][k] /\ v = IF d.hit THEN d.hot[k].ver ELSE op[r][k].ver
    BY Zenon
  <2>2. p = [st |-> p.st, replica |-> p.replica, ver |-> p.ver, hit |-> p.hit,
             data |-> p.data, result |-> p.result]
    BY Zenon, <1>3, <2>1 DEF OpRecord
  <2>3. o = [p EXCEPT !.st = "submitted", !.hit = d.hit, !.ver = v]
    BY Zenon, <2>1 DEF o
  <2>4. o = [st |-> "submitted", replica |-> p.replica, ver |-> v, hit |-> d.hit,
             data |-> p.data, result |-> p.result]
    BY Zenon, <2>2, <2>3
  <2> QED
    BY Zenon, <2>1, <2>4
<1>8. leaked' = [j \in Key |-> leaked'[j]] /\ (\A j \in Key : j # k => leaked'[j] = leaked[j])
      /\ leaked'[k] = IF d.lost THEN leaked[k] + 1 ELSE leaked[k]
  <2>1. PICK n : n = IF d.lost THEN leaked[k] + 1 ELSE leaked[k]
    BY Zenon
  <2>2. leaked' = [leaked EXCEPT ![k] = n]
    BY Zenon, <1>1, <2>1
  <2> QED
    BY Zenon, <1>3, <2>1, <2>2 DEF CacheTypes
<1>9. CASE d.hot = hot /\ d.hit = FALSE /\ d.lost = FALSE
  <2>1. OpRecord(o) /\ ~Pinning(o)
    BY Zenon, <1>3, <1>7, <1>9 DEF OpRecord, States, Pinning
  <2>2. OnlyOp(r, k) /\ PinStep(r, k)
    BY Zenon, <1>1, <1>3, <1>4, <1>6, <1>8, <1>9, <2>1 DEF OnlyOp, PinStep, CacheTypes
  <2>3. InStep(r, k)' /\ Sound(r, k)'
    BY Zenon, <1>2, <1>4, <1>6, <1>7, <1>9 DEF InStep, Sound
  <2> QED
    BY Zenon, <1>2, <1>6, <1>7, <2>1, <2>2, <2>3, KeyStep
<1>10. ASSUME HasBlock(hot, k), d.hot = GetHotKey(hot, k), d.lost \in BOOLEAN, d.hit = ~d.lost
       PROVE  ReadInv'
  <2>1. /\ hot' = [j \in Key |-> hot'[j]] /\ (\A j \in Key : j # k => hot'[j] = hot[j])
        /\ hot'[k] = [hot[k] EXCEPT !.pins = @ + 1]
        /\ hot'[k].ver = hot[k].ver /\ HasBlock(hot, k)' /\ hot'[k].ver \in 0..MaxVersion
    BY <1>1, <1>3, <1>10, PinTaken DEF HasBlock
  <2>2. OpRecord(o) /\ (Pinning(o) <=> d.hit) /\ (d.hit => o.ver = hot'[k].ver)
    BY Zenon, <1>1, <1>3, <1>7, <1>10, <2>1 DEF OpRecord, States, Pinning
  <2>3. OnlyOp(r, k)
    BY Zenon, <1>6, <1>8, <2>1 DEF OnlyOp
  <2>4. PinStep(r, k)
    BY Zenon, <1>1, <1>4, <1>6, <1>8, <1>10, <2>1, <2>2 DEF PinStep
  <2>5. InStep(r, k)' /\ Sound(r, k)'
    BY Zenon, <1>2, <1>4, <1>6, <1>7, <1>10 DEF InStep, Sound
  <2> QED
    BY Zenon, <1>2, <1>6, <1>7, <2>1, <2>2, <2>3, <2>4, <2>5, KeyStep
<1> QED
  BY Zenon, <1>9, <1>10, RedirectFacts

\* An operation that has failed.
LEMMA FailedFacts ==
  /\ OpRecord(Failed) /\ ~Pinning(Failed) /\ Failed.st = "done" /\ Failed.hit = FALSE
  /\ Failed.ver = 0 /\ Failed.result = "FAIL"
<1>1. PICK p, o : p = NoOp /\ o = Failed
  BY Zenon
<1>2. p = [st |-> p.st, replica |-> p.replica, ver |-> p.ver, hit |-> p.hit,
           data |-> p.data, result |-> p.result]
  BY Zenon, <1>1 DEF NoOp
<1>3. o = [p EXCEPT !.st = "done", !.result = "FAIL"]
  BY Zenon, <1>1 DEF Failed
<1>4. o = [st |-> "done", replica |-> p.replica, ver |-> p.ver, hit |-> p.hit,
           data |-> p.data, result |-> "FAIL"]
  BY Zenon, <1>2, <1>3
<1>5. p.ver = 0 /\ p.hit = FALSE /\ p.data = 0
  BY Zenon, <1>1 DEF NoOp, Garbage
<1>6. 0 \in 0..MaxVersion /\ 0 \in Data
  BY BoundsAssumption DEF Data
<1>7. /\ o.st = "done" /\ o.hit = p.hit /\ o.ver = p.ver /\ o.data = p.data /\ o.result = "FAIL"
      /\ o = [st |-> o.st, replica |-> o.replica, ver |-> o.ver, hit |-> o.hit,
              data |-> o.data, result |-> o.result]
  BY Zenon, <1>4
<1>8. OpRecord(o) /\ ~Pinning(o)
  BY Zenon, <1>5, <1>6, <1>7 DEF OpRecord, States, Pinning
<1> QED
  BY Zenon, <1>1, <1>5, <1>7, <1>8

\* A pin taken is given back.
LEMMA PinReturned ==
  ASSUME CacheTypes, NEW k \in Key, HasBlock(hot, k), ~hot[k].stale
  PROVE  ReleaseHotKey(GetHotKey(hot, k), k) = hot
<1> DEFINE h == GetHotKey(hot, k)
<1>1. /\ h = [j \in Key |-> h[j]] /\ h[k] = [hot[k] EXCEPT !.pins = @ + 1]
      /\ h[k].stale = hot[k].stale /\ h[k].pins = hot[k].pins + 1 /\ hot[k].pins \in Int
      /\ \A j \in Key : j # k => h[j] = hot[j]
  BY Zenon, PinTaken
<1> HIDE DEF h
<1>2. ReleaseHotKey(h, k) = [h EXCEPT ![k] = [h[k] EXCEPT !.pins = @ - 1]]
  BY Zenon, <1>1 DEF ReleaseHotKey
<1>3. [h[k] EXCEPT !.pins = @ - 1] = hot[k]
  <2>1. hot[k] \in Block
    BY Zenon DEF CacheTypes, HasBlock
  <2>2. [h[k] EXCEPT !.pins = @ - 1] = [hot[k] EXCEPT !.pins = hot[k].pins]
    BY <1>1, <2>1 DEF Block
  <2> QED
    BY Zenon, <2>1, <2>2 DEF Block
<1> QED
  BY Zenon, <1>1, <1>2, <1>3 DEF CacheTypes, h

\* submit() returns no future.
LEMMA SubmitFailsKeeps ==
  ASSUME ReadInv, NEW r \in Reader, NEW k \in Key, SubmitFails(r, k)
  PROVE  ReadInv'
<1>1. PICK d \in Redirect(r, k) :
         /\ IsFirst(r, k, {"ready"}) /\ ~d.lost
         /\ hot' = IF d.hit THEN ReleaseHotKey(d.hot, k) ELSE d.hot
         /\ Becomes(r, k, Failed)
  BY Zenon DEF SubmitFails, Becomes
<1>2. /\ UNCHANGED <<master, local, call, staged>> /\ fills' = fills
      /\ UNCHANGED <<versions, leaked>>
  BY Zenon DEF SubmitFails, master
<1>3. ReaderTypes /\ CacheTypes /\ versions[k] \in Nat
  BY Zenon, VersionFacts DEF ReadInv
<1>4. k \in Named(call[r].keys) /\ call[r].pc = "read" /\ ~Pinning(op[r][k])
  BY Zenon, <1>1, ReadyFacts
<1>5. /\ op'[r][k] = Failed
      /\ op' = [q \in Reader |-> [j \in Key |-> op'[q][j]]]
      /\ \A q \in Reader, j \in Key : q # r \/ j # k => op'[q][j] = op[q][j]
  BY <1>1, <1>3, OpUpdate
<1>6. hot' = hot
  BY Zenon, <1>1, <1>3, RedirectFacts, PinReturned
<1>7. OnlyOp(r, k) /\ PinStep(r, k)
  BY Zenon, <1>2, <1>3, <1>4, <1>5, <1>6, FailedFacts DEF OnlyOp, PinStep, CacheTypes
<1>8. InStep(r, k)' /\ Sound(r, k)'
  BY <1>2, <1>3, <1>4, <1>5, FailedFacts DEF InStep, Sound
<1> QED
  BY Zenon, <1>2, <1>5, <1>7, <1>8, FailedFacts, KeyStep

\* An operation whose transfer is submitted.
LEMMA FlightFacts ==
  ASSUME ReadInv, NEW r \in Reader, NEW k \in Key,
         op[r][k].st \in {"submitted", "moved", "broken"}
  PROVE  /\ k \in Named(call[r].keys) /\ call[r].pc = "read" /\ op[r][k].result # "OK"
         /\ Pinning(op[r][k]) <=> op[r][k].hit
         /\ OpRecord(op[r][k]) /\ Sound(r, k) /\ Kept(r, k)
         /\ ReaderTypes /\ CacheTypes /\ versions[k] \in Nat
<1>1. InStep(r, k) /\ Sound(r, k) /\ Kept(r, k) /\ OpRecord(op[r][k]) /\ ReaderTypes /\ CacheTypes
  BY Zenon DEF ReadInv, ReaderTypes
<1>2. versions[k] \in Nat
  BY Zenon, VersionFacts DEF ReadInv
<1> QED
  BY Zenon, <1>1, <1>2 DEF InStep, Pinning

\* What a transfer finds: the pinned block, or under the lease the version that
\* the query saw.
LEMMA SourceFacts ==
  ASSUME NEW k \in Key, NEW o, o.ver \in 0..MaxVersion, NEW lease, NEW data \in Source(k, o, lease),
         o.hit => HasBlock(hot, k) /\ hot[k].ver = o.ver
  PROVE  /\ data \in Data /\ data \in Int /\ data # Overwritten
         /\ o.hit \/ lease => data = o.ver
<1>1. o.ver \in Data /\ o.ver \in Int /\ o.ver # -1 /\ Garbage \in Data /\ Garbage # -1 /\ Garbage \in Int
  BY BoundsAssumption DEF Data, Garbage
<1>2. CASE o.hit
  BY Zenon, <1>1, <1>2 DEF Source, Overwritten
<1>3. CASE ~o.hit
  BY Zenon, <1>1, <1>3 DEF Source, Overwritten
<1> QED
  BY Zenon, <1>2, <1>3

\* The engine moves the bytes.
LEMMA TransferKeeps ==
  ASSUME ReadInv, NEW r \in Reader, NEW k \in Key, Transfer(r, k)
  PROVE  ReadInv'
<1> DEFINE p == op[r][k]
<1>1. PICK data \in Source(k, p, call[r].lease) :
         Becomes(r, k, [p EXCEPT !.st = "moved", !.data = data])
  BY Zenon DEF Transfer, Becomes
<1>2. /\ UNCHANGED <<master, local, call, staged>> /\ fills' = fills
      /\ UNCHANGED <<versions, leaked, hot>> /\ p.st = "submitted"
  BY Zenon DEF Transfer, master, cache
<1>3. /\ k \in Named(call[r].keys) /\ call[r].pc = "read" /\ p.result # "OK"
      /\ Pinning(p) <=> p.hit
      /\ OpRecord(p) /\ Sound(r, k) /\ Kept(r, k)
      /\ ReaderTypes /\ CacheTypes /\ versions[k] \in Nat
  BY Zenon, <1>2, FlightFacts
<1>4. /\ data \in Data /\ data \in Int /\ data # Overwritten
      /\ p.hit \/ call[r].lease => data = p.ver
  BY <1>1, <1>3, SourceFacts DEF Kept, OpRecord
<1> DEFINE o == [p EXCEPT !.st = "moved", !.data = data]
<1>5. /\ op'[r][k] = o
      /\ op' = [q \in Reader |-> [j \in Key |-> op'[q][j]]]
      /\ \A q \in Reader, j \in Key : q # r \/ j # k => op'[q][j] = op[q][j]
  BY <1>1, <1>3, OpUpdate
<1>6. /\ o.st = "moved" /\ o.hit = p.hit /\ o.ver = p.ver /\ o.data = data /\ o.result = p.result
      /\ o = [st |-> o.st, replica |-> o.replica, ver |-> o.ver, hit |-> o.hit,
              data |-> o.data, result |-> o.result]
  <2>1. PICK q : q = p
    BY Zenon
  <2>2. q = [st |-> q.st, replica |-> q.replica, ver |-> q.ver, hit |-> q.hit,
             data |-> q.data, result |-> q.result]
    BY Zenon, <1>3, <2>1 DEF OpRecord
  <2>3. PICK x : x = o
    BY Zenon
  <2>4. x = [q EXCEPT !.st = "moved", !.data = data]
    BY Zenon, <2>1, <2>3
  <2>5. x = [st |-> "moved", replica |-> q.replica, ver |-> q.ver, hit |-> q.hit,
             data |-> data, result |-> q.result]
    BY Zenon, <2>2, <2>4
  <2> HIDE DEF o
  <2> QED
    BY <2>1, <2>3, <2>5
<1> HIDE DEF o, p
<1>7. OpRecord(o) /\ (Pinning(o) <=> Pinning(p))
  BY Zenon, <1>2, <1>3, <1>4, <1>6 DEF OpRecord, States, Pinning
<1>8. OnlyOp(r, k) /\ PinStep(r, k)
  BY Zenon, <1>2, <1>3, <1>5, <1>7 DEF OnlyOp, PinStep, CacheTypes, p
<1>9. InStep(r, k)' /\ Sound(r, k)'
  <2>1. p.ver \in Int
    BY <1>3, BoundsAssumption DEF OpRecord
  <2>2. ~p.hit => p.ver <= versions[k]
    BY Zenon, <1>3 DEF Sound, p
  <2>3. InStep(r, k)'
    BY Zenon, <1>2, <1>3, <1>5, <1>6 DEF InStep
  <2>4. Intact(call[r], o) \/ ~call[r].lease
    BY <1>4, <1>6, <2>1 DEF Intact
  <2> QED
    BY Zenon, <1>2, <1>3, <1>4, <1>5, <1>6, <2>2, <2>3, <2>4 DEF Sound
<1>10. Pinning(o) => HasBlock(hot, k)' /\ hot'[k].ver = o.ver
  BY Zenon, <1>2, <1>3, <1>6, <1>7 DEF Kept, HasBlock, p
<1> QED
  BY Zenon, <1>2, <1>5, <1>6, <1>7, <1>8, <1>9, <1>10, KeyStep

\* The transfer breaks.
LEMMA TransferFailsKeeps ==
  ASSUME ReadInv, NEW r \in Reader, NEW k \in Key, TransferFails(r, k)
  PROVE  ReadInv'
<1> DEFINE p == op[r][k]
           o == [p EXCEPT !.st = "broken"]
<1>1. Becomes(r, k, o) /\ p.st = "submitted"
  BY Zenon DEF TransferFails, Becomes
<1>2. /\ UNCHANGED <<master, local, call, staged>> /\ fills' = fills
      /\ UNCHANGED <<versions, leaked, hot>>
  BY Zenon DEF TransferFails, master, cache
<1>3. /\ k \in Named(call[r].keys) /\ call[r].pc = "read" /\ p.result # "OK"
      /\ Pinning(p) <=> p.hit
      /\ OpRecord(p) /\ Sound(r, k) /\ Kept(r, k)
      /\ ReaderTypes /\ CacheTypes
  BY Zenon, <1>1, FlightFacts
<1>4. /\ op'[r][k] = o
      /\ op' = [q \in Reader |-> [j \in Key |-> op'[q][j]]]
      /\ \A q \in Reader, j \in Key : q # r \/ j # k => op'[q][j] = op[q][j]
  BY Zenon, <1>1, <1>3, OpUpdate
<1>5. /\ o.st = "broken" /\ o.hit = p.hit /\ o.ver = p.ver /\ o.data = p.data /\ o.result = p.result
      /\ o = [st |-> o.st, replica |-> o.replica, ver |-> o.ver, hit |-> o.hit,
              data |-> o.data, result |-> o.result]
  <2>1. PICK q, x : q = p /\ x = o
    BY Zenon
  <2>2. q = [st |-> q.st, replica |-> q.replica, ver |-> q.ver, hit |-> q.hit,
             data |-> q.data, result |-> q.result]
    BY Zenon, <1>3, <2>1 DEF OpRecord
  <2>3. x = [q EXCEPT !.st = "broken"]
    BY Zenon, <2>1
  <2>4. x = [st |-> "broken", replica |-> q.replica, ver |-> q.ver, hit |-> q.hit,
             data |-> q.data, result |-> q.result]
    BY Zenon, <2>2, <2>3
  <2> HIDE DEF o
  <2> QED
    BY <2>1, <2>4
<1> HIDE DEF o, p
<1>6. OpRecord(o) /\ (Pinning(o) <=> Pinning(p))
  BY Zenon, <1>1, <1>3, <1>5 DEF OpRecord, States, Pinning
<1>7. OnlyOp(r, k) /\ PinStep(r, k)
  BY Zenon, <1>2, <1>3, <1>4, <1>6 DEF OnlyOp, PinStep, CacheTypes, p
<1>8. InStep(r, k)' /\ Sound(r, k)'
  BY Zenon, <1>2, <1>3, <1>4, <1>5 DEF InStep, Sound, p
<1>9. Pinning(o) => HasBlock(hot, k)' /\ hot'[k].ver = o.ver
  BY Zenon, <1>2, <1>3, <1>5, <1>6 DEF Kept, HasBlock, p
<1> QED
  BY Zenon, <1>2, <1>4, <1>5, <1>6, <1>7, <1>8, <1>9, KeyStep

\* ReleaseHotKey for the keys ks of a call that pin their blocks, which are done.
LEMMA UnpinnedPins ==
  ASSUME CacheTypes, NEW r \in Reader, NEW ks, hot' = Unpinned(r, ks, hot), leaked' = leaked,
         \A j \in Key : j \in ks => /\ Pinning(op[r][j]) <=> op[r][j].hit
                                    /\ ~Pinning(op[r][j])',
         \A j \in Key : j \notin ks => op'[r][j] = op[r][j]
  PROVE  /\ hot' = [j \in Key |-> hot'[j]] /\ leaked' = [j \in Key |-> leaked'[j]]
         /\ \A j \in Key : PinStep(r, j) /\ (j \notin ks => hot'[j] = hot[j])
<1>1. hot' = [j \in Key |-> hot'[j]] /\ leaked' = [j \in Key |-> leaked'[j]]
  BY Zenon DEF Unpinned, CacheTypes
<1>2. ASSUME NEW j \in Key PROVE PinStep(r, j) /\ (j \notin ks => hot'[j] = hot[j])
  <2>1. hot'[j] = IF j \in ks /\ op[r][j].hit THEN ReleaseHotKey(hot, j)[j] ELSE hot[j]
    BY Zenon DEF Unpinned
  <2>2. ReleaseHotKey(hot, j)[j] = IF hot[j].stale /\ hot[j].pins = 1 THEN NoBlock
                                   ELSE [hot[j] EXCEPT !.pins = @ - 1]
    BY Zenon DEF ReleaseHotKey, CacheTypes
  <2>3. CASE j \in ks /\ op[r][j].hit
    BY Zenon, <2>1, <2>2, <2>3 DEF PinStep
  <2>4. CASE ~(j \in ks /\ op[r][j].hit)
    BY Zenon, <2>1, <2>4 DEF PinStep
  <2> QED
    BY Zenon, <2>1, <2>3, <2>4
<1> QED
  BY Zenon, <1>1, <1>2

\* The operation p when its transfer is over: a failed one keeps nothing of it.
Finished(p, x) == IF x = "OK" THEN [p EXCEPT !.st = "done", !.result = "OK"] ELSE Failed
Finishes(p, x, o) == o = Finished(p, x)
IsFinished(p, x, o) ==
    /\ OpRecord(o) /\ o.st = "done" /\ o.result = x /\ ~Pinning(o)
    /\ x = "OK" => o.data = p.data /\ o.ver = p.ver /\ o.hit = p.hit
    /\ x = "FAIL" => o.ver = 0 /\ o.hit = FALSE

\* What such an operation is.
LEMMA FinishedOp ==
  ASSUME NEW p, OpRecord(p), NEW x \in {"OK", "FAIL"}, NEW o, Finishes(p, x, o)
  PROVE  IsFinished(p, x, o)
<1>1. CASE x = "OK"
  <2>1. p = [st |-> p.st, replica |-> p.replica, ver |-> p.ver, hit |-> p.hit,
             data |-> p.data, result |-> p.result]
    BY Zenon DEF OpRecord
  <2>2. o = [p EXCEPT !.st = "done", !.result = "OK"]
    BY Zenon, <1>1 DEF Finishes, Finished
  <2>3. o = [st |-> "done", replica |-> p.replica, ver |-> p.ver, hit |-> p.hit,
             data |-> p.data, result |-> "OK"]
    BY Zenon, <2>1, <2>2
  <2>4. p.data \in Data /\ p.ver \in 0..MaxVersion /\ p.hit \in BOOLEAN
    BY Zenon DEF OpRecord
  <2>5. /\ o.st = "done" /\ o.hit = p.hit /\ o.ver = p.ver /\ o.data = p.data /\ o.result = "OK"
        /\ o = [st |-> o.st, replica |-> o.replica, ver |-> o.ver, hit |-> o.hit,
                data |-> o.data, result |-> o.result]
    BY Zenon, <2>3
  <2>6. OpRecord(o) /\ ~Pinning(o)
    BY Zenon, <2>4, <2>5 DEF OpRecord, States, Pinning
  <2>7. x # "FAIL"
    BY <1>1
  <2> QED
    BY Zenon, <1>1, <2>5, <2>6, <2>7 DEF IsFinished
<1>2. CASE x = "FAIL"
  <2>1. o = Failed
    BY <1>2 DEF Finishes, Finished
  <2> QED
    BY <1>2, <2>1, FailedFacts DEF IsFinished
<1> QED
  BY Zenon, <1>1, <1>2

\* The wait for one future: the pin is given back, and a good result may be
\* offered to the cache.
LEMMA Waited ==
  ASSUME ReadInv, NEW r \in Reader, NEW k \in Key, NEW x \in {"OK", "FAIL"},
         op[r][k].st \in {"moved", "broken"}, x = "OK" => op[r][k].st = "moved",
         Becomes(r, k, Finished(op[r][k], x)),
         hot' = Unpinned(r, {k}, hot), UNCHANGED <<master, leaked, call, staged, local>>,
         \A f \in fills' : f \in fills \/ (f \in Fill /\ (f.late \/ f.ver = object[f.key].ver))
  PROVE  ReadInv'
<1> DEFINE p == op[r][k]
           o == Finished(p, x)
<1>1. versions' = versions /\ call' = call
  BY Zenon DEF master
<1>2. /\ k \in Named(call[r].keys) /\ call[r].pc = "read"
      /\ Pinning(p) <=> p.hit
      /\ OpRecord(p) /\ Sound(r, k)
      /\ ReaderTypes /\ CacheTypes
  BY Zenon, FlightFacts
<1>3. /\ op'[r][k] = o
      /\ op' = [q \in Reader |-> [j \in Key |-> op'[q][j]]]
      /\ \A q \in Reader, j \in Key : q # r \/ j # k => op'[q][j] = op[q][j]
  BY <1>2, OpUpdate
<1>4. /\ OpRecord(o) /\ o.st = "done" /\ o.result = x /\ ~Pinning(o)
      /\ x = "OK" => o.data = p.data /\ o.ver = p.ver /\ o.hit = p.hit
      /\ x = "FAIL" => o.ver = 0 /\ o.hit = FALSE
  <2>1. PICK q, y : q = p /\ y = o
    BY Zenon
  <2>2. OpRecord(q) /\ Finishes(q, x, y)
    BY Zenon, <1>2, <2>1 DEF Finishes
  <2> HIDE DEF o, p
  <2>3. IsFinished(q, x, y)
    BY Zenon, <2>2, FinishedOp
  <2> QED
    BY Zenon, <2>1, <2>3 DEF IsFinished
<1> HIDE DEF o, p
<1>5. versions[k] \in Nat
  BY Zenon, VersionFacts DEF ReadInv
<1>6. /\ hot' = [j \in Key |-> hot'[j]] /\ leaked' = [j \in Key |-> leaked'[j]]
      /\ \A j \in Key : PinStep(r, j) /\ (j \notin {k} => hot'[j] = hot[j])
  <2>1. \A j \in Key : j \in {k} => (Pinning(op[r][j]) <=> op[r][j].hit) /\ ~Pinning(op[r][j])'
    BY Zenon, <1>2, <1>3, <1>4 DEF p
  <2>2. \A j \in Key : j \notin {k} => op'[r][j] = op[r][j]
    BY Zenon, <1>3
  <2> QED
    BY Zenon, <1>2, <2>1, <2>2, UnpinnedPins
<1>7. OnlyOp(r, k)
  BY Zenon, <1>3, <1>6 DEF OnlyOp
<1>8. InStep(r, k)' /\ Sound(r, k)'
  <2>1. x = "OK" /\ Intact(call[r], p) => Intact(call[r], o)
    BY Zenon, <1>4 DEF Intact
  <2>2. InStep(r, k)'
    BY Zenon, <1>1, <1>2, <1>3, <1>4 DEF InStep
  <2>3. x = "OK" => p.data # Overwritten /\ (call[r].lease => Intact(call[r], p))
    BY Zenon, <1>2 DEF Sound, p
  <2>4. ~o.hit => o.ver <= versions[k]
    <3>1. CASE x = "OK"
      BY Zenon, <1>2, <1>4, <3>1 DEF Sound, p
    <3>2. CASE x = "FAIL"
      BY <1>4, <1>5, <3>2
    <3> QED
      BY Zenon, <3>1, <3>2
  <2>5. x = "OK" /\ o.hit => Intact(call[r], o)
    BY Zenon, <1>4, <2>3 DEF Intact
  <2> QED
    BY Zenon, <1>1, <1>2, <1>3, <1>4, <2>1, <2>2, <2>3, <2>4, <2>5 DEF Sound
<1> QED
  BY Zenon, <1>1, <1>3, <1>4, <1>6, <1>7, <1>8, KeyStep

\* What ProcessSlicesAsync submits is a version that is current, or late.
LEMMA FillFacts ==
  ASSUME ReadInv, NEW r \in Reader, NEW k \in Key, op[r][k].st = "moved", NEW f,
         f = ProcessSlicesAsync(k, op[r][k])
  PROVE  f \in Fill /\ (f.late \/ f.ver = object[f.key].ver)
<1>1. op[r][k].data \in Data /\ op[r][k].data # -1
  BY Zenon, FlightFacts DEF OpRecord, Sound, Overwritten
<1>2. op[r][k].data \in 0..MaxVersion
  BY <1>1, BoundsAssumption DEF Data
<1>3. PICK late \in BOOLEAN : late <=> op[r][k].data # object[k].ver
  BY Zenon
<1>4. f = [key |-> k, ver |-> op[r][k].data, late |-> late]
  BY Zenon, <1>3 DEF ProcessSlicesAsync
<1>5. f \in Fill
  BY <1>2, <1>4 DEF Fill
<1> QED
  BY <1>3, <1>4, <1>5

\* One future of Get or BatchGet.
LEMMA WaitKeeps ==
  ASSUME ReadInv, NEW r \in Reader, NEW k \in Key, Wait(r, k) \/ WaitFailed(r, k)
  PROVE  ReadInv'
<1>1. CASE Wait(r, k)
  <2>1. /\ op[r][k].st = "moved" /\ hot' = Unpinned(r, {k}, hot)
        /\ Becomes(r, k, Finished(op[r][k], "OK"))
        /\ UNCHANGED <<master, leaked, call, staged, local>>
        /\ fills' = fills \/ fills' = fills \cup {ProcessSlicesAsync(k, op[r][k])}
    BY Zenon, <1>1 DEF Wait, Becomes, Finished
  <2>2. \A f \in fills' : f \in fills \/ (f \in Fill /\ (f.late \/ f.ver = object[f.key].ver))
    BY Zenon, <2>1, FillFacts
  <2> QED
    BY Zenon, <2>1, <2>2, Waited
<1>2. CASE WaitFailed(r, k)
  <2>1. /\ op[r][k].st = "broken" /\ hot' = Unpinned(r, {k}, hot) /\ fills' = fills
        /\ Becomes(r, k, Finished(op[r][k], "FAIL"))
        /\ UNCHANGED <<master, leaked, call, staged, local>>
    BY Zenon, <1>2 DEF WaitFailed, Becomes, Finished
  <2> QED
    BY Zenon, <2>1, Waited
<1> QED
  BY Zenon, <1>1, <1>2

-----------------------------------------------------------------------------
(* The steps of a call. *)

\* Reader r goes to pc.
Goes(r, pc) == call' = [call EXCEPT ![r].pc = pc]

\* Only the place of one call changes.
LEMMA GoesFacts ==
  ASSUME ReaderTypes, NEW r \in Reader, NEW pc, Goes(r, pc),
         pc \in {"idle", "read", "offload", "staged", "fetched", "held", "return"}
  PROVE  /\ call' \in [Reader -> CallRecord]
         /\ call'[r].pc = pc /\ call'[r].keys = call[r].keys
         /\ call'[r].kind = call[r].kind /\ call'[r].lease = call[r].lease
         /\ \A q \in Reader : q # r => call'[q] = call[q]
<1>1. call \in [Reader -> CallRecord] /\ call[r] \in CallRecord
  BY Zenon DEF ReaderTypes
<1>2. PICK c : c = [call[r] EXCEPT !.pc = pc]
  BY Zenon
<1>3. /\ c \in CallRecord /\ c.pc = pc /\ c.keys = call[r].keys /\ c.kind = call[r].kind
      /\ c.lease = call[r].lease
  BY Zenon, <1>1, <1>2 DEF CallRecord
<1>4. call' = [call EXCEPT ![r] = c]
  BY Zenon, <1>2 DEF Goes
<1>5. call'[r] = c /\ call' \in [Reader -> CallRecord] /\ \A q \in Reader : q # r => call'[q] = call[q]
  BY Zenon, <1>1, <1>3, <1>4
<1> QED
  BY Zenon, <1>3, <1>5

\* A reader that does nothing has no operation.
LEMMA IdleFacts ==
  ASSUME ReadInv, NEW r \in Reader, call[r].pc = "idle", NEW k \in Key
  PROVE  op[r][k].st = "none" /\ ~op[r][k].hit /\ op[r][k].result = "none" /\ ~Pinning(op[r][k])
<1>1. InStep(r, k)
  BY Zenon DEF ReadInv
<1> QED
  BY Zenon, <1>1 DEF InStep, Pinning

\* acquire_hot_cache.
LEMMA AcquireHotCacheKeeps ==
  ASSUME ReadInv, NEW r \in Reader, NEW k \in Key, AcquireHotCache(r, k)
  PROVE  ReadInv'
<1> DEFINE p == op[r][k]
           o == [p EXCEPT !.st = "held", !.hit = TRUE, !.ver = hot[k].ver]
           c == [NoCall EXCEPT !.keys = <<k>>, !.pc = "held"]
<1>1. /\ Becomes(r, k, o) /\ call[r].pc = "idle" /\ HasBlock(hot, k) /\ hot' = GetHotKey(hot, k)
      /\ call' = [call EXCEPT ![r] = c]
      /\ UNCHANGED <<master, local, staged>> /\ UNCHANGED <<versions, fills, leaked>>
  BY Zenon DEF AcquireHotCache, Becomes, master
<1>2. ReaderTypes /\ CacheTypes /\ OpRecord(p) /\ Offloaded(r)
  BY Zenon DEF ReadInv, ReaderTypes
<1>3. \A j \in Key : /\ op[r][j].st = "none" /\ ~op[r][j].hit /\ op[r][j].result = "none"
                     /\ ~Pinning(op[r][j]) /\ Sound(r, j)
  BY Zenon, <1>1, IdleFacts DEF ReadInv
<1>4. /\ op'[r][k] = o
      /\ op' = [q \in Reader |-> [j \in Key |-> op'[q][j]]]
      /\ \A q \in Reader, j \in Key : q # r \/ j # k => op'[q][j] = op[q][j]
      /\ \A q \in Reader : q # r => op'[q] = op[q]
  BY Zenon, <1>1, <1>2, OpUpdate
<1>5. /\ c \in CallRecord /\ c.pc = "held" /\ c.keys = <<k>>
  <2>1. PICK d, e : d = NoCall /\ e = c
    BY Zenon
  <2>2. d \in CallRecord
    BY <2>1 DEF NoCall, CallRecord
  <2>3. e = [d EXCEPT !.keys = <<k>>, !.pc = "held"]
    BY Zenon, <2>1
  <2>4. <<k>> \in Seq(Key)
    OBVIOUS
  <2>5. e \in CallRecord /\ e.pc = "held" /\ e.keys = <<k>>
    BY Zenon, <2>2, <2>3, <2>4 DEF CallRecord
  <2> QED
    BY Zenon, <2>1, <2>5
<1> HIDE DEF c
<1>6. call' \in [Reader -> CallRecord] /\ call'[r] = c /\ \A q \in Reader : q # r => call'[q] = call[q]
  BY Zenon, <1>1, <1>2, <1>5 DEF ReaderTypes
<1>7. /\ hot' = [j \in Key |-> hot'[j]] /\ (\A j \in Key : j # k => hot'[j] = hot[j])
      /\ hot'[k] = [hot[k] EXCEPT !.pins = @ + 1]
      /\ hot'[k].ver = hot[k].ver /\ HasBlock(hot, k)' /\ hot[k].ver \in 0..MaxVersion
  BY Zenon, <1>1, <1>2, PinTaken DEF HasBlock
<1>8. /\ o.st = "held" /\ o.hit = TRUE /\ o.ver = hot[k].ver /\ o.data = p.data /\ o.result = p.result
      /\ o = [st |-> o.st, replica |-> o.replica, ver |-> o.ver, hit |-> o.hit,
              data |-> o.data, result |-> o.result]
  <2>1. PICK q, y, v, h : q = p /\ y = o /\ v = hot[k].ver /\ h = TRUE
    BY Zenon
  <2>2. q = [st |-> q.st, replica |-> q.replica, ver |-> q.ver, hit |-> q.hit,
             data |-> q.data, result |-> q.result]
    BY Zenon, <1>2, <2>1 DEF OpRecord
  <2>3. y = [q EXCEPT !.st = "held", !.hit = h, !.ver = v]
    BY Zenon, <2>1
  <2>4. y = [st |-> "held", replica |-> q.replica, ver |-> v, hit |-> h,
             data |-> q.data, result |-> q.result]
    BY Zenon, <2>2, <2>3
  <2> HIDE DEF o
  <2> QED
    BY <2>1, <2>4
<1> HIDE DEF o, p
<1>9. OpRecord(o) /\ Pinning(o)
  BY Zenon, <1>2, <1>7, <1>8 DEF OpRecord, States, Pinning
<1>10. ReaderTypes'
  BY Zenon, <1>1, <1>2, <1>4, <1>6, <1>9 DEF ReaderTypes
<1>11. ASSUME NEW j \in Key
       PROVE  /\ PinStep(r, j) /\ InStep(r, j)' /\ Sound(r, j)'
              /\ Pinning(op[r][j])' => HasBlock(hot, j)' /\ hot'[j].ver = op'[r][j].ver
  <2>1. CASE j = k
    <3>1. PinStep(r, k)
      BY Zenon, <1>1, <1>3, <1>4, <1>7, <1>9 DEF PinStep
    <3>2. k \in Named(<<k>>)
      BY DEF Named
    <3>3. InStep(r, k)' /\ Sound(r, k)'
      BY Zenon, <1>3, <1>4, <1>5, <1>6, <1>8, <3>2 DEF InStep, Sound, p
    <3> QED
      BY Zenon, <1>4, <1>7, <1>8, <2>1, <3>1, <3>3
  <2>2. CASE j # k
    <3>1. op'[r][j] = op[r][j] /\ hot'[j] = hot[j] /\ leaked'[j] = leaked[j]
      BY Zenon, <1>1, <1>4, <1>7, <2>2
    <3>2. PinStep(r, j)
      BY Zenon, <3>1 DEF PinStep
    <3>3. InStep(r, j)' /\ Sound(r, j)'
      BY Zenon, <1>1, <1>3, <3>1 DEF InStep, Sound
    <3> QED
      BY Zenon, <1>3, <3>1, <3>2, <3>3
  <2> QED
    BY Zenon, <2>1, <2>2
<1>12. Offloaded(r)'
  BY Zenon, <1>1, <1>2, <1>5, <1>6 DEF Offloaded
<1>13. leaked' = [j \in Key |-> leaked'[j]]
  BY Zenon, <1>1, <1>2 DEF CacheTypes
<1> QED
  BY Zenon, <1>1, <1>4, <1>6, <1>7, <1>10, <1>11, <1>12, <1>13, ReaderStep

\* release_hot_cache.
LEMMA ReleaseHotCacheKeeps ==
  ASSUME ReadInv, NEW r \in Reader, NEW k \in Key, ReleaseHotCache(r, k)
  PROVE  ReadInv'
<1> DEFINE p == op[r][k]
<1>1. PICK data \in Source(k, p, FALSE) :
         Becomes(r, k, [p EXCEPT !.st = "done", !.data = data, !.result = "OK"])
  BY Zenon DEF ReleaseHotCache, Becomes
<1> DEFINE o == [p EXCEPT !.st = "done", !.data = data, !.result = "OK"]
<1>2. /\ p.st = "held" /\ hot' = ReleaseHotKey(hot, k) /\ Goes(r, "return")
      /\ UNCHANGED <<master, local, staged>> /\ UNCHANGED <<versions, fills, leaked>>
  BY Zenon DEF ReleaseHotCache, Goes, master
<1>3. /\ ReaderTypes /\ CacheTypes /\ OpRecord(p) /\ Offloaded(r)
      /\ \A j \in Key : InStep(r, j) /\ Sound(r, j) /\ Kept(r, j)
  BY Zenon DEF ReadInv, ReaderTypes
<1>4. p.hit /\ Pinning(p) /\ call[r].pc = "held" /\ call[r].keys = <<k>>
  BY Zenon, <1>2, <1>3 DEF InStep, Pinning
<1>5. data \in Data /\ data # Overwritten
  <2>1. p.ver \in 0..MaxVersion /\ HasBlock(hot, k) /\ hot[k].ver = p.ver
    BY Zenon, <1>3, <1>4 DEF Kept, OpRecord
  <2> HIDE DEF p
  <2> QED
    BY Zenon, <2>1, SourceFacts
<1>6. /\ op'[r][k] = o
      /\ op' = [q \in Reader |-> [j \in Key |-> op'[q][j]]]
      /\ \A q \in Reader, j \in Key : q # r \/ j # k => op'[q][j] = op[q][j]
      /\ \A q \in Reader : q # r => op'[q] = op[q]
  BY Zenon, <1>1, <1>3, OpUpdate
<1>7. /\ o.st = "done" /\ o.hit = p.hit /\ o.ver = p.ver /\ o.data = data /\ o.result = "OK"
      /\ o = [st |-> o.st, replica |-> o.replica, ver |-> o.ver, hit |-> o.hit,
              data |-> o.data, result |-> o.result]
  <2>1. PICK q, y : q = p /\ y = o
    BY Zenon
  <2>2. q = [st |-> q.st, replica |-> q.replica, ver |-> q.ver, hit |-> q.hit,
             data |-> q.data, result |-> q.result]
    BY Zenon, <1>3, <2>1 DEF OpRecord
  <2>3. y = [q EXCEPT !.st = "done", !.data = data, !.result = "OK"]
    BY Zenon, <2>1
  <2>4. y = [st |-> "done", replica |-> q.replica, ver |-> q.ver, hit |-> q.hit,
             data |-> data, result |-> "OK"]
    BY Zenon, <2>2, <2>3
  <2> HIDE DEF o
  <2> QED
    BY <2>1, <2>4
<1> HIDE DEF o, p
<1>8. OpRecord(o) /\ ~Pinning(o)
  BY Zenon, <1>3, <1>5, <1>7 DEF OpRecord, States, Pinning
<1>9. /\ call' \in [Reader -> CallRecord]
      /\ call'[r].pc = "return" /\ call'[r].keys = call[r].keys
      /\ \A q \in Reader : q # r => call'[q] = call[q]
  BY Zenon, <1>2, <1>3, GoesFacts
<1>10. /\ hot' = [j \in Key |-> hot'[j]] /\ (\A j \in Key : j # k => hot'[j] = hot[j])
       /\ hot'[k] = IF hot[k].stale /\ hot[k].pins = 1 THEN NoBlock
                    ELSE [hot[k] EXCEPT !.pins = @ - 1]
  BY Zenon, <1>2, <1>3 DEF ReleaseHotKey, CacheTypes
<1>11. ReaderTypes'
  BY Zenon, <1>2, <1>3, <1>6, <1>8, <1>9 DEF ReaderTypes
<1>12. ASSUME NEW j \in Key
       PROVE  /\ PinStep(r, j) /\ InStep(r, j)' /\ Sound(r, j)' /\ ~Pinning(op[r][j])'
  <2>1. CASE j = k
    <3>1. PinStep(r, k)
      BY Zenon, <1>2, <1>4, <1>6, <1>8, <1>10 DEF PinStep, p
    <3>2. k \in Named(<<k>>)
      BY DEF Named
    <3>3. InStep(r, k)' /\ Sound(r, k)'
      BY Zenon, <1>4, <1>5, <1>6, <1>7, <1>9, <3>2 DEF InStep, Sound, Intact, p
    <3> QED
      BY Zenon, <1>6, <1>8, <2>1, <3>1, <3>3
  <2>2. CASE j # k
    <3>1. op'[r][j] = op[r][j] /\ hot'[j] = hot[j] /\ leaked'[j] = leaked[j]
      BY Zenon, <1>2, <1>6, <1>10, <2>2
    <3>2. PinStep(r, j)
      BY Zenon, <3>1 DEF PinStep
    <3>3. j \notin Named(call[r].keys)
      BY <1>4, <2>2 DEF Named
    <3>4. op[r][j].st = "none" /\ ~op[r][j].hit /\ op[r][j].result = "none"
      BY Zenon, <1>3, <3>3 DEF InStep
    <3>5. InStep(r, j)' /\ Sound(r, j)'
      BY Zenon, <1>2, <1>3, <3>1, <3>4 DEF InStep, Sound
    <3> QED
      BY Zenon, <3>1, <3>2, <3>4, <3>5 DEF Pinning
  <2> QED
    BY Zenon, <2>1, <2>2
<1>13. Offloaded(r)'
  BY Zenon, <1>2, <1>3, <1>9 DEF Offloaded
<1>14. leaked' = [j \in Key |-> leaked'[j]]
  BY Zenon, <1>2, <1>3 DEF CacheTypes
<1> QED
  BY Zenon, <1>2, <1>6, <1>9, <1>10, <1>11, <1>12, <1>13, <1>14, ReaderStep

\* All the operations of r become those of F.
AllBecome(r, F) == op' = [op EXCEPT ![r] = F] /\ F = [k \in Key |-> F[k]]

\* The operations of one reader are replaced.
LEMMA OpsUpdate ==
  ASSUME ReaderTypes, NEW r \in Reader, NEW F, AllBecome(r, F)
  PROVE  /\ \A k \in Key : op'[r][k] = F[k]
         /\ op' = [q \in Reader |-> [j \in Key |-> op'[q][j]]]
         /\ \A q \in Reader : q # r => op'[q] = op[q]
<1>1. op = [q \in Reader |-> [j \in Key |-> op[q][j]]]
  BY Zenon DEF ReaderTypes
<1>2. op' = [q \in Reader |-> IF q = r THEN F ELSE op[q]]
  BY Zenon, <1>1 DEF AllBecome
<1>3. op'[r] = F /\ \A q \in Reader : q # r => op'[q] = op[q]
  BY Zenon, <1>2
<1>4. \A q \in Reader : op'[q] = [j \in Key |-> op'[q][j]]
  BY Zenon, <1>1, <1>3 DEF AllBecome
<1> QED
  BY Zenon, <1>2, <1>3, <1>4

\* A step of one reader that leaves the cache alone.
LEMMA QuietStep ==
  ASSUME ReadInv, NEW r \in Reader, UNCHANGED <<master, cache, local>>,
         \A q \in Reader : q # r => op'[q] = op[q] /\ call'[q] = call[q] /\ staged'[q] = staged[q],
         op' = [q \in Reader |-> [j \in Key |-> op'[q][j]]],
         call' \in [Reader -> CallRecord], staged' \in [Reader -> Staged],
         \A k \in Key : /\ OpRecord(op'[r][k])
                        /\ Pinning(op[r][k])' <=> Pinning(op[r][k])
                        /\ Pinning(op[r][k]) => op'[r][k].ver = op[r][k].ver
                        /\ InStep(r, k)' /\ Sound(r, k)',
         Offloaded(r)'
  PROVE  ReadInv'
<1>1. UNCHANGED <<hot, fills, leaked>>
  BY Zenon DEF cache
<1>2. ReaderTypes /\ CacheTypes /\ \A k \in Key : Kept(r, k)
  BY Zenon DEF ReadInv
<1>3. ReaderTypes'
  <2>1. \A q \in Reader, k \in Key : OpRecord(op'[q][k])
    BY Zenon, <1>2 DEF ReaderTypes
  <2> QED
    BY Zenon, <2>1 DEF ReaderTypes
<1>4. hot' = [k \in Key |-> hot'[k]] /\ leaked' = [k \in Key |-> leaked'[k]]
  BY Zenon, <1>1, <1>2 DEF CacheTypes
<1>5. \A k \in Key : PinStep(r, k)
  BY Zenon, <1>1 DEF PinStep
<1>6. \A k \in Key : Pinning(op[r][k])' => HasBlock(hot, k)' /\ hot'[k].ver = op'[r][k].ver
  BY Zenon, <1>1, <1>2 DEF Kept, HasBlock
<1> QED
  BY Zenon, <1>1, <1>3, <1>4, <1>5, <1>6, ReaderStep

\* No operation.
LEMMA NoOpFacts ==
  /\ OpRecord(NoOp) /\ ~Pinning(NoOp) /\ NoOp.st = "none" /\ NoOp.hit = FALSE
  /\ NoOp.ver = 0 /\ NoOp.result = "none"
<1>1. 0 \in 0..MaxVersion /\ 0 \in Data
  BY BoundsAssumption DEF Data
<1>2. OpRecord(NoOp)
  BY Zenon, <1>1 DEF OpRecord, NoOp, States, Garbage
<1> QED
  BY Zenon, <1>2 DEF NoOp, Pinning

\* Where the read functions send a replica.
LEMMA RouteFacts ==
  ASSUME NEW kind \in {"buffer", "into", "range", "same_node"}, NEW replica
  PROVE  Route(kind, replica) \in {"offload", "ready", "later", "failed"}
<1>1. /\ BufferRoute(replica.type) \in {"offload", "ready"}
      /\ IntoRoute(replica.type) \in {"offload", "ready", "later"}
  BY Zenon DEF BufferRoute, IntoRoute
<1>2. /\ RangedRoute(replica.type) \in {"offload", "ready", "failed"}
      /\ MultiBuffersRoute(replica.type) \in {"offload", "ready", "failed"}
  BY Zenon DEF RangedRoute, MultiBuffersRoute
<1> QED
  BY Zenon, <1>1, <1>2 DEF Route

\* An operation after the query.
LEMMA QueriedFacts ==
  ASSUME MasterTypes, NEW kind \in {"buffer", "into", "range", "same_node"}, NEW k \in Key,
         NEW refused, NEW o, o = Queried(kind, k, refused)
  PROVE  /\ OpRecord(o) /\ o.hit = FALSE /\ o.result # "OK" /\ o.ver <= versions[k]
         /\ o.st \in {"done", "offload", "ready", "later"}
<1>1. versions[k] \in Nat /\ object[k].ver \in 0..MaxVersion /\ object[k].ver <= versions[k]
  BY BoundsAssumption DEF MasterTypes, Version
<1>2. CASE o = Failed
  BY <1>1, <1>2, FailedFacts
<1>3. CASE o # Failed
  <2>1. PICK replica, route : /\ route = Route(kind, replica) /\ route # "failed"
                              /\ o = [NoOp EXCEPT !.st = route, !.replica = replica,
                                                  !.ver = object[k].ver]
    BY Zenon, <1>3 DEF Queried
  <2>2. route \in {"offload", "ready", "later"}
    BY Zenon, <2>1, RouteFacts
  <2>3. PICK p, v : p = NoOp /\ v = object[k].ver
    BY Zenon
  <2>4. p = [st |-> p.st, replica |-> p.replica, ver |-> p.ver, hit |-> p.hit,
             data |-> p.data, result |-> p.result]
    BY Zenon, <2>3 DEF NoOp
  <2>5. o = [p EXCEPT !.st = route, !.replica = replica, !.ver = v]
    BY Zenon, <2>1, <2>3
  <2>6. o = [st |-> route, replica |-> replica, ver |-> v, hit |-> p.hit,
             data |-> p.data, result |-> p.result]
    BY Zenon, <2>4, <2>5
  <2>7. p.hit = FALSE /\ p.data \in Data /\ p.result = "none"
    BY Zenon, <2>3, NoOpFacts DEF OpRecord
  <2>8. /\ o.st = route /\ o.ver = v /\ o.hit = p.hit /\ o.data = p.data /\ o.result = p.result
        /\ o = [st |-> o.st, replica |-> o.replica, ver |-> o.ver, hit |-> o.hit,
                data |-> o.data, result |-> o.result]
    BY <2>6
  <2>9. OpRecord(o)
    BY Zenon, <1>1, <2>2, <2>3, <2>7, <2>8 DEF OpRecord, States
  <2> QED
    BY Zenon, <1>1, <2>2, <2>3, <2>7, <2>8, <2>9
<1> QED
  BY Zenon, <1>2, <1>3

\* Query and BatchQuery.
LEMMA BeginReadKeeps ==
  ASSUME ReadInv, NEW r \in Reader, NEW c \in Calls, BeginRead(r, c)
  PROVE  ReadInv'
<1> DEFINE d == [kind |-> c.kind, keys |-> c.keys, lease |-> TRUE, pc |-> "read"]
           F(refused) == [k \in Key |-> IF k \in Named(c.keys) THEN Queried(c.kind, k, refused)
                                        ELSE NoOp]
<1>1. PICK refused \in SUBSET Named(c.keys) : op' = [op EXCEPT ![r] = F(refused)]
  BY Zenon DEF BeginRead
<1>2. /\ call[r].pc = "idle" /\ call' = [call EXCEPT ![r] = d]
      /\ UNCHANGED <<master, cache, local>> /\ UNCHANGED <<versions, staged>>
  BY Zenon DEF BeginRead, master
<1>3. MasterTypes /\ ReaderTypes /\ Offloaded(r)
  BY Zenon DEF ReadInv
<1>4. c.kind \in {"buffer", "into", "range", "same_node"} /\ c.keys \in Seq(Key)
  BY Zenon, CallsAssumption
<1>5. \A k \in Key : ~Pinning(op[r][k])
  BY Zenon, <1>2, IdleFacts
<1>6. AllBecome(r, F(refused))
  BY Zenon, <1>1 DEF AllBecome
<1>7. /\ \A k \in Key : op'[r][k] = F(refused)[k]
      /\ op' = [q \in Reader |-> [j \in Key |-> op'[q][j]]]
      /\ \A q \in Reader : q # r => op'[q] = op[q]
  <2> HIDE DEF F
  <2> QED
    BY Zenon, <1>3, <1>6, OpsUpdate
<1>8. d \in CallRecord /\ d.pc = "read" /\ d.keys = c.keys
  BY Zenon, <1>4 DEF CallRecord
<1>9. call' \in [Reader -> CallRecord] /\ call'[r] = d /\ \A q \in Reader : q # r => call'[q] = call[q]
  <2> HIDE DEF d
  <2> QED
    BY Zenon, <1>2, <1>3, <1>8 DEF ReaderTypes
<1> HIDE DEF d
<1>10. ASSUME NEW k \in Key
       PROVE  OpRecord(op'[r][k]) /\ ~Pinning(op[r][k])' /\ InStep(r, k)' /\ Sound(r, k)'
  <2>1. versions[k] \in Nat /\ op'[r][k] = F(refused)[k]
    BY Zenon, <1>3, <1>7, VersionFacts
  <2>2. CASE k \in Named(c.keys)
    <3>1. op'[r][k] = Queried(c.kind, k, refused)
      BY Zenon, <2>1, <2>2
    <3>2. /\ OpRecord(op'[r][k]) /\ op'[r][k].hit = FALSE /\ op'[r][k].result # "OK"
          /\ op'[r][k].ver <= versions[k]
          /\ op'[r][k].st \in {"done", "offload", "ready", "later"}
      <4>1. PICK kind, o : kind = c.kind /\ o = op'[r][k]
        BY Zenon
      <4>2. kind \in {"buffer", "into", "range", "same_node"} /\ o = Queried(kind, k, refused)
        BY Zenon, <1>4, <3>1, <4>1
      <4>3. /\ OpRecord(o) /\ o.hit = FALSE /\ o.result # "OK" /\ o.ver <= versions[k]
            /\ o.st \in {"done", "offload", "ready", "later"}
        BY <1>3, <4>2, QueriedFacts, Zenon
      <4> QED
        BY Zenon, <4>1, <4>3
    <3>3. call'[r].pc = "read" /\ k \in Named(call'[r].keys)
      BY Zenon, <1>8, <1>9, <2>2
    <3>4. InStep(r, k)'
      BY Zenon, <3>2, <3>3 DEF InStep
    <3>5. Sound(r, k)'
      BY Zenon, <1>2, <3>2 DEF Sound
    <3> QED
      BY Zenon, <3>2, <3>4, <3>5 DEF Pinning
  <2>3. CASE k \notin Named(c.keys)
    <3>1. op'[r][k] = NoOp
      BY Zenon, <2>1, <2>3
    <3>2. InStep(r, k)' /\ Sound(r, k)'
      BY <1>2, <2>1, <3>1, NoOpFacts DEF InStep, Sound
    <3> QED
      BY Zenon, <3>1, <3>2, NoOpFacts
  <2> QED
    BY Zenon, <2>2, <2>3
<1>11. Offloaded(r)'
  BY Zenon, <1>2, <1>3, <1>8, <1>9 DEF Offloaded
<1>12. staged' \in [Reader -> Staged]
  BY Zenon, <1>2, <1>3 DEF ReaderTypes
<1> QED
  BY Zenon, <1>2, <1>5, <1>7, <1>9, <1>10, <1>11, <1>12, QuietStep

\* The caller takes its results.
LEMMA ReturnKeeps ==
  ASSUME ReadInv, NEW r \in Reader, Return(r)
  PROVE  ReadInv'
<1> DEFINE F == [k \in Key |-> NoOp]
<1>1. /\ call[r].pc = "return" /\ call' = [call EXCEPT ![r] = NoCall] /\ AllBecome(r, F)
      /\ UNCHANGED <<master, cache, local>> /\ UNCHANGED <<versions, staged>>
  BY Zenon DEF Return, AllBecome, master
<1>2. MasterTypes /\ ReaderTypes /\ Offloaded(r) /\ \A k \in Key : InStep(r, k)
  BY Zenon DEF ReadInv
<1>3. \A k \in Key : ~Pinning(op[r][k])
  BY Zenon, <1>1, <1>2 DEF InStep, Pinning
<1>4. /\ \A k \in Key : op'[r][k] = F[k]
      /\ op' = [q \in Reader |-> [j \in Key |-> op'[q][j]]]
      /\ \A q \in Reader : q # r => op'[q] = op[q]
  BY Zenon, <1>1, <1>2, OpsUpdate
<1>5. call' \in [Reader -> CallRecord] /\ call'[r] = NoCall /\ \A q \in Reader : q # r => call'[q] = call[q]
  <2>1. NoCall \in CallRecord
    BY DEF NoCall, CallRecord
  <2> QED
    BY Zenon, <1>1, <1>2, <2>1 DEF ReaderTypes
<1>6. ASSUME NEW k \in Key
      PROVE  OpRecord(op'[r][k]) /\ ~Pinning(op[r][k])' /\ InStep(r, k)' /\ Sound(r, k)'
  <2>1. versions[k] \in Nat /\ op'[r][k] = NoOp
    BY Zenon, <1>2, <1>4, VersionFacts
  <2>2. InStep(r, k)' /\ Sound(r, k)'
    BY <1>1, <2>1, NoOpFacts DEF InStep, Sound
  <2> QED
    BY Zenon, <2>1, <2>2, NoOpFacts
<1>7. Offloaded(r)'
  BY Zenon, <1>1, <1>2, <1>5 DEF Offloaded, NoCall
<1>8. staged' \in [Reader -> Staged]
  BY Zenon, <1>1, <1>2 DEF ReaderTypes
<1> QED
  BY Zenon, <1>1, <1>3, <1>4, <1>5, <1>6, <1>7, <1>8, QuietStep

\* Only the call, or the owner's buffer, changes.
LEMMA OpsKept ==
  ASSUME ReadInv, NEW r \in Reader, UNCHANGED <<master, cache, local, op>>,
         \A q \in Reader : q # r => call'[q] = call[q] /\ staged'[q] = staged[q],
         call' \in [Reader -> CallRecord], staged' \in [Reader -> Staged],
         \A k \in Key : InStep(r, k)' /\ Sound(r, k)', Offloaded(r)'
  PROVE  ReadInv'
<1>1. ReaderTypes
  BY Zenon DEF ReadInv
<1>2. op' = [q \in Reader |-> [j \in Key |-> op'[q][j]]] /\ \A k \in Key : OpRecord(op'[r][k])
  BY Zenon, <1>1 DEF ReaderTypes
<1> QED
  BY Zenon, <1>2, QuietStep

\* The lease of a call expires.
LEMMA LeaseExpiresKeeps ==
  ASSUME ReadInv, NEW r \in Reader, LeaseExpires(r)
  PROVE  ReadInv'
<1>1. /\ call[r].pc = "read" /\ call' = [call EXCEPT ![r].lease = FALSE]
      /\ UNCHANGED <<master, cache, local, op>> /\ UNCHANGED <<versions, staged>>
  BY Zenon DEF LeaseExpires, master
<1>2. ReaderTypes /\ Offloaded(r) /\ \A k \in Key : InStep(r, k) /\ Sound(r, k)
  BY Zenon DEF ReadInv
<1>3. /\ call' \in [Reader -> CallRecord] /\ call'[r].lease = FALSE
      /\ call'[r].kind = call[r].kind /\ call'[r].keys = call[r].keys /\ call'[r].pc = "read"
      /\ \A q \in Reader : q # r => call'[q] = call[q]
  <2>1. call \in [Reader -> CallRecord] /\ call[r] \in CallRecord
    BY Zenon, <1>2 DEF ReaderTypes
  <2>2. PICK c, b : b = FALSE /\ c = [call[r] EXCEPT !.lease = b]
    BY Zenon
  <2>3. /\ c \in CallRecord /\ c.lease = b /\ c.kind = call[r].kind /\ c.keys = call[r].keys
        /\ c.pc = call[r].pc
    BY Zenon, <2>1, <2>2 DEF CallRecord
  <2>4. call' = [call EXCEPT ![r] = c]
    BY Zenon, <1>1, <2>2
  <2> QED
    BY Zenon, <1>1, <2>1, <2>2, <2>3, <2>4
<1>4. \A k \in Key : InStep(r, k)' /\ Sound(r, k)'
  BY <1>1, <1>2, <1>3 DEF InStep, Sound, Intact
<1>5. Offloaded(r)' /\ staged' \in [Reader -> Staged]
  BY Zenon, <1>1, <1>2, <1>3 DEF Offloaded, ReaderTypes
<1> QED
  BY Zenon, <1>1, <1>3, <1>4, <1>5, OpsKept

\* IsLeaseExpired: an operation keeps its good result under the lease, or when it
\* read a pinned block, or in a read on the same node.
LEMMA AfterFacts ==
  ASSUME NEW r \in Reader, NEW k \in Key, NEW failing, OpRecord(op[r][k]), NEW o,
         o = AfterBatchGet(r, failing)[k]
  PROVE  /\ OpRecord(o) /\ o.hit = op[r][k].hit /\ o.ver = op[r][k].ver /\ o.data = op[r][k].data
         /\ op[r][k].st = "done" => o.st = "returned"
         /\ op[r][k].st = "later" => o.st = "ready"
         /\ op[r][k].st \notin {"done", "later"} => o = op[r][k]
         /\ o.result = IF op[r][k].st = "done" /\ k \in failing THEN "FAIL" ELSE op[r][k].result
<1>1. PICK p : p = op[r][k]
  BY Zenon
<1>2. OpRecord(p)
  BY Zenon, <1>1
<1>3. p = [st |-> p.st, replica |-> p.replica, ver |-> p.ver, hit |-> p.hit,
           data |-> p.data, result |-> p.result]
  BY Zenon, <1>2 DEF OpRecord
<1>4. CASE p.st = "done"
  <2>1. PICK x : x = IF k \in failing THEN "FAIL" ELSE p.result
    BY Zenon
  <2>2. o = [p EXCEPT !.st = "returned", !.result = x]
    BY Zenon, <1>1, <1>4, <2>1 DEF AfterBatchGet
  <2>3. o = [st |-> "returned", replica |-> p.replica, ver |-> p.ver, hit |-> p.hit,
             data |-> p.data, result |-> x]
    BY Zenon, <1>3, <2>2
  <2>4. x \in {"none", "OK", "FAIL"}
    BY Zenon, <1>2, <2>1 DEF OpRecord
  <2>5. OpRecord(o)
    BY <1>2, <2>3, <2>4 DEF OpRecord, States
  <2> QED
    BY <1>1, <1>4, <2>1, <2>3, <2>5
<1>5. CASE p.st = "later"
  <2>1. o = [p EXCEPT !.st = "ready"]
    BY Zenon, <1>1, <1>5 DEF AfterBatchGet
  <2>2. o = [st |-> "ready", replica |-> p.replica, ver |-> p.ver, hit |-> p.hit,
             data |-> p.data, result |-> p.result]
    BY Zenon, <1>3, <2>1
  <2>3. OpRecord(o)
    BY <1>2, <2>2 DEF OpRecord, States
  <2> QED
    BY <1>1, <1>5, <2>2, <2>3
<1>6. CASE p.st \notin {"done", "later"}
  <2>1. o = p
    BY Zenon, <1>1, <1>6 DEF AfterBatchGet
  <2> QED
    BY Zenon, <1>1, <1>2, <1>6, <2>1
<1> QED
  BY Zenon, <1>4, <1>5, <1>6

\* The end of a Get or BatchGet: what it calls OK is intact.
LEMMA LeaseCheckKeeps ==
  ASSUME ReadInv, NEW r \in Reader, LeaseCheck(r)
  PROVE  ReadInv'
<1> DEFINE ok == {k \in InState(r, {"done"}) : op[r][k].result = "OK"}
           late == IF call[r].kind = "same_node" \/ call[r].lease THEN {} ELSE ok
<1>1. PICK torn : op' = [op EXCEPT ![r] = AfterBatchGet(r, late \cup torn)]
  BY Zenon DEF LeaseCheck
<1>2. PICK failing : failing = late \cup torn
  BY Zenon
<1> DEFINE F == AfterBatchGet(r, failing)
<1>3. AllBecome(r, F)
  BY Zenon, <1>1, <1>2 DEF AllBecome, AfterBatchGet
<1>4. PICK pc : /\ Goes(r, pc) /\ pc \in {"read", "offload", "return"}
                /\ InState(r, {"later"}) # {} => pc = "read"
                /\ InState(r, {"offload"}) # {} => pc \in {"read", "offload"}
  <2>1. PICK pc : pc = IF InState(r, {"later"}) # {} THEN "read"
                       ELSE IF InState(r, {"offload"}) # {} THEN "offload" ELSE "return"
    BY Zenon
  <2>2. Goes(r, pc)
    BY Zenon, <2>1 DEF LeaseCheck, Goes
  <2> QED
    BY Zenon, <2>1, <2>2
<1>5. /\ call[r].pc = "read" /\ UNCHANGED <<master, cache, local>> /\ UNCHANGED <<versions, staged>>
      /\ Named(call[r].keys) = InState(r, {"done", "returned", "later", "offload"})
  BY Zenon DEF LeaseCheck, master
<1>6. /\ ReaderTypes /\ Offloaded(r)
      /\ \A k \in Key : OpRecord(op[r][k]) /\ InStep(r, k) /\ Sound(r, k)
  BY Zenon DEF ReadInv, ReaderTypes
<1>7. /\ \A k \in Key : op'[r][k] = F[k]
      /\ op' = [q \in Reader |-> [j \in Key |-> op'[q][j]]]
      /\ \A q \in Reader : q # r => op'[q] = op[q]
  <2> HIDE DEF F
  <2> QED
    BY Zenon, <1>3, <1>6, OpsUpdate
<1>8. /\ call' \in [Reader -> CallRecord]
      /\ call'[r].pc = pc /\ call'[r].keys = call[r].keys
      /\ call'[r].kind = call[r].kind /\ call'[r].lease = call[r].lease
      /\ \A q \in Reader : q # r => call'[q] = call[q]
  BY Zenon, <1>4, <1>6, GoesFacts
<1>9. ASSUME NEW k \in Key
      PROVE  /\ OpRecord(op'[r][k]) /\ ~Pinning(op[r][k]) /\ ~Pinning(op[r][k])'
             /\ InStep(r, k)' /\ Sound(r, k)'
  <2>1. PICK p, o : p = op[r][k] /\ o = op'[r][k]
    BY Zenon
  <2>2. p.st \in {"none", "done", "returned", "later", "offload"}
    BY Zenon, <1>5, <1>6, <2>1 DEF InStep, InState
  <2>3. /\ OpRecord(o) /\ o.hit = p.hit /\ o.ver = p.ver /\ o.data = p.data
        /\ p.st = "done" => o.st = "returned"
        /\ p.st = "later" => o.st = "ready"
        /\ p.st \notin {"done", "later"} => o = p
        /\ o.result = IF p.st = "done" /\ k \in failing THEN "FAIL" ELSE p.result
    BY <1>6, <1>7, <2>1, AfterFacts
  <2>4. /\ p.st = "later" => pc = "read"
        /\ p.st = "offload" => pc \in {"read", "offload"}
    <3>1. p.st # "none" => k \in Named(call[r].keys)
      BY Zenon, <1>6, <2>1 DEF InStep
    <3>2. /\ p.st = "later" => k \in InState(r, {"later"})
          /\ p.st = "offload" => k \in InState(r, {"offload"})
      BY Zenon, <2>1, <3>1 DEF InState
    <3> QED
      BY Zenon, <1>4, <3>2
  <2>5. o.st \in {"none", "returned", "ready", "offload"}
    BY Zenon, <2>2, <2>3
  <2>6. InStep(r, k)'
    <3>1. InStep(r, k) /\ call[r].pc = "read" /\ (p.st = "none" => o = p)
      BY Zenon, <1>5, <1>6, <2>3
    <3>2. p.result = "OK" => p.st \in {"done", "returned"}
      BY Zenon, <2>1, <3>1 DEF InStep
    <3>3. o.result = "OK" => o.st = "returned"
      BY Zenon, <2>3, <3>2
    <3>4. (o.st # "none" => p.st # "none") /\ (p.st # "none" => k \in Named(call[r].keys))
      BY Zenon, <2>1, <3>1 DEF InStep
    <3>5. (o.st = "ready" \/ o.st = "offload" => ~o.hit) /\ (o.st = "none" => ~o.hit /\ o.result = "none")
      BY Zenon, <2>1, <2>2, <2>3, <3>1 DEF InStep
    <3>6. (o.st = "ready" => pc = "read") /\ (o.st = "offload" => pc \in {"read", "offload"})
      BY Zenon, <2>2, <2>3, <2>4
    <3>7. pc # "idle"
      BY Zenon, <1>4
    <3> QED
      BY Zenon, <1>8, <2>1, <2>5, <3>3, <3>4, <3>5, <3>6, <3>7 DEF InStep
  <2>7. ASSUME o.result = "OK" PROVE Intact(call[r], p)
    <3>1. p.result = "OK" /\ p.st \in {"done", "returned"} /\ (p.st = "done" => k \notin late)
      BY Zenon, <1>2, <1>6, <2>1, <2>3, <2>7 DEF InStep
    <3>2. p.st = "done" => call[r].kind = "same_node" \/ call[r].lease
      <4>1. p.st = "done" => k \in ok
        BY Zenon, <1>6, <2>1, <3>1 DEF InStep, InState
      <4> QED
        BY Zenon, <3>1, <4>1
    <3>3. (p.hit => Intact(call[r], p)) /\ (p.st = "returned" \/ call[r].lease => Intact(call[r], p))
      BY Zenon, <1>6, <2>1, <3>1 DEF Sound
    <3>4. call[r].kind = "same_node" /\ ~p.hit => Intact(call[r], p)
      BY Zenon DEF Intact
    <3> QED
      BY Zenon, <3>1, <3>2, <3>3, <3>4
  <2>8. Intact(call[r], p) => Intact(call'[r], o)
    BY Zenon, <1>8, <2>3 DEF Intact
  <2>9. ~p.hit => p.ver <= versions[k]
    BY Zenon, <1>6, <2>1 DEF Sound
  <2>10. Sound(r, k)'
    BY Zenon, <1>5, <2>1, <2>3, <2>5, <2>7, <2>8, <2>9 DEF Sound
  <2> QED
    BY Zenon, <2>1, <2>2, <2>3, <2>5, <2>6, <2>10 DEF Pinning
<1>10. Offloaded(r)' /\ staged' \in [Reader -> Staged]
  BY Zenon, <1>4, <1>5, <1>6, <1>8 DEF Offloaded, ReaderTypes
<1> QED
  BY Zenon, <1>5, <1>7, <1>8, <1>9, <1>10, QuietStep

-----------------------------------------------------------------------------
(* The offload read. *)

\* The buffer of one reader becomes s.
Stages(r, s) == staged' = [staged EXCEPT ![r] = s]

\* Only the buffer of one reader changes.
LEMMA StagesFacts ==
  ASSUME ReaderTypes, NEW r \in Reader, NEW s \in Staged, Stages(r, s)
  PROVE  /\ staged' \in [Reader -> Staged] /\ staged'[r] = s
         /\ \A q \in Reader : q # r => staged'[q] = staged[q]
BY Zenon DEF Stages, ReaderTypes

\* What the operations and the buffer are while the buffer is in use.
LEMMA OffloadFacts ==
  ASSUME ReadInv, NEW r \in Reader
  PROVE  /\ ReaderTypes /\ Offloaded(r) /\ staged[r] \in Staged
         /\ \A k \in Key : OpRecord(op[r][k]) /\ InStep(r, k) /\ Sound(r, k)
<1>1. ReaderTypes
  BY Zenon DEF ReadInv
<1> QED
  BY Zenon, <1>1 DEF ReadInv, ReaderTypes

\* A call goes on with its operations as they are, away from "read".
LEMMA MovesOn ==
  ASSUME ReadInv, NEW r \in Reader, NEW pc \in {"staged", "fetched"}, Goes(r, pc),
         call[r].pc \in {"offload", "staged"}, UNCHANGED <<op, versions>>
  PROVE  \A k \in Key : InStep(r, k)' /\ Sound(r, k)'
<1>1. ReaderTypes /\ \A k \in Key : InStep(r, k) /\ Sound(r, k)
  BY Zenon, OffloadFacts
<1>2. /\ call'[r].pc = pc /\ call'[r].keys = call[r].keys
      /\ call'[r].kind = call[r].kind /\ call'[r].lease = call[r].lease
  BY Zenon, <1>1, GoesFacts
<1>3. ASSUME NEW k \in Key PROVE InStep(r, k)' /\ Sound(r, k)'
  <2>1. PICK o : o = op[r][k] /\ o = op'[r][k]
    BY Zenon
  <2>2. Intact(call[r], o) => Intact(call'[r], o)
    BY Zenon, <1>2 DEF Intact
  <2>3. InStep(r, k)'
    BY Zenon, <1>1, <1>2, <2>1 DEF InStep
  <2>4. Sound(r, k)'
    BY Zenon, <1>1, <1>2, <2>1, <2>2 DEF InStep, Sound
  <2> QED
    BY Zenon, <2>3, <2>4
<1> QED
  BY Zenon, <1>3

\* batch_get_offload_object: what the owner has staged is at least as new as what
\* the query saw.
LEMMA StageOffloadKeeps ==
  ASSUME ReadInv, NEW r \in Reader, StageOffload(r)
  PROVE  ReadInv'
<1> DEFINE v == [k \in Key |-> IF k \in InState(r, {"offload"}) THEN object[k].ver ELSE Garbage]
<1>1. PICK s : s = [vers |-> v, ttl |-> TRUE, alive |-> TRUE]
  BY Zenon
<1>2. /\ call[r].pc = "offload" /\ Goes(r, "staged") /\ Stages(r, s)
      /\ UNCHANGED <<master, cache, local, op>> /\ UNCHANGED versions
      /\ \A k \in InState(r, {"offload"}) : object[k].ver # 0
  BY Zenon, <1>1 DEF StageOffload, Goes, Stages, master
<1>3. /\ ReaderTypes /\ Offloaded(r)
      /\ \A k \in Key : OpRecord(op[r][k]) /\ InStep(r, k) /\ Sound(r, k)
  BY Zenon, OffloadFacts
<1>4. /\ \A k \in Key : object[k].ver \in 0..MaxVersion /\ object[k].ver \in {0, versions[k]}
      /\ 0 \in 0..MaxVersion
  BY BoundsAssumption DEF ReadInv, MasterTypes, Version
<1>5. v \in [Key -> 0..MaxVersion]
  BY Zenon, <1>4 DEF Garbage
<1>6. \A k \in Key : op[r][k].st = "offload" => v[k] >= op[r][k].ver
  <2> SUFFICES ASSUME NEW k \in Key, op[r][k].st = "offload" PROVE v[k] >= op[r][k].ver
    BY Zenon
  <2>1. k \in InState(r, {"offload"}) /\ ~op[r][k].hit
    BY Zenon, <1>3 DEF InStep, InState
  <2>2. v[k] = versions[k]
    BY Zenon, <1>2, <1>4, <2>1
  <2>3. op[r][k].ver <= versions[k] /\ versions[k] \in Nat /\ op[r][k].ver \in Nat
    BY Zenon, <1>3, <2>1, VersionFacts DEF ReadInv, Sound
  <2> QED
    BY Zenon, <2>2, <2>3
<1>7. s \in Staged /\ s.vers = v /\ s.alive
  <2> HIDE DEF v
  <2> QED
    BY Zenon, <1>1, <1>5 DEF Staged
<1> HIDE DEF v
<1>8. /\ staged' \in [Reader -> Staged] /\ staged'[r] = s
      /\ \A q \in Reader : q # r => staged'[q] = staged[q]
  BY Zenon, <1>2, <1>3, <1>7, StagesFacts
<1>9. /\ call' \in [Reader -> CallRecord]
      /\ \A q \in Reader : q # r => call'[q] = call[q]
  BY Zenon, <1>2, <1>3, GoesFacts
<1>10. Offloaded(r)'
  BY Zenon, <1>2, <1>5, <1>6, <1>7, <1>8 DEF Offloaded
<1>11. \A k \in Key : InStep(r, k)' /\ Sound(r, k)'
  BY Zenon, <1>2, MovesOn
<1> QED
  BY Zenon, <1>2, <1>8, <1>9, <1>10, <1>11, OpsKept

\* The buffer ages: its time to live passes, then it may be reused.
LEMMA BufferAges ==
  ASSUME ReadInv, NEW r \in Reader, OffloadTtlPasses(r) \/ CollectStaged(r)
  PROVE  ReadInv'
<1>1. /\ ReaderTypes /\ Offloaded(r) /\ staged[r] \in Staged
      /\ \A k \in Key : OpRecord(op[r][k]) /\ InStep(r, k) /\ Sound(r, k)
  BY Zenon, OffloadFacts
<1>2. UNCHANGED <<master, cache, local, op>> /\ UNCHANGED <<call, versions>>
  BY Zenon DEF OffloadTtlPasses, CollectStaged, master
<1>3. PICK s \in Staged : Stages(r, s) /\ s.vers = staged[r].vers /\ s.ttl = FALSE
  <2>1. CASE OffloadTtlPasses(r)
    <3>1. PICK b, s : b = FALSE /\ s = [staged[r] EXCEPT !.ttl = b]
      BY Zenon
    <3>2. s \in Staged /\ s.vers = staged[r].vers /\ s.ttl = b
      BY Zenon, <1>1, <3>1 DEF Staged
    <3>3. Stages(r, s)
      BY Zenon, <2>1, <3>1 DEF OffloadTtlPasses, Stages
    <3> QED
      BY Zenon, <3>1, <3>2, <3>3
  <2>2. CASE CollectStaged(r)
    <3>1. PICK b, s : b = FALSE /\ s = [staged[r] EXCEPT !.alive = b]
      BY Zenon
    <3>2. s \in Staged /\ s.vers = staged[r].vers /\ s.ttl = staged[r].ttl
      BY Zenon, <1>1, <3>1 DEF Staged
    <3>3. Stages(r, s) /\ staged[r].ttl = FALSE
      BY Zenon, <1>1, <2>2, <3>1 DEF CollectStaged, Stages, Staged
    <3> QED
      BY Zenon, <3>2, <3>3
  <2> QED
    BY Zenon, <2>1, <2>2
<1>4. /\ staged' \in [Reader -> Staged] /\ staged'[r] = s
      /\ \A q \in Reader : q # r => staged'[q] = staged[q]
  BY Zenon, <1>1, <1>3, StagesFacts
<1>5. Offloaded(r)'
  BY Zenon, <1>1, <1>2, <1>3, <1>4 DEF Offloaded
<1>6. \A k \in Key : InStep(r, k)' /\ Sound(r, k)'
  <2>1. \A k \in Key : versions[k] \in Nat /\ op[r][k].ver \in Nat
    BY Zenon, VersionFacts DEF ReadInv
  <2> QED
    BY <1>1, <1>2, <2>1, ReaderIdle
<1>7. call' \in [Reader -> CallRecord]
  BY Zenon, <1>1, <1>2 DEF ReaderTypes
<1> QED
  BY Zenon, <1>2, <1>4, <1>5, <1>6, <1>7, OpsKept

\* batch_get_offload_object returns; a buffer that was reused has run out of time.
LEMMA BatchGetOffloadObjectKeeps ==
  ASSUME ReadInv, NEW r \in Reader, BatchGetOffloadObject(r)
  PROVE  ReadInv'
<1> DEFINE v == [k \in Key |-> IF staged[r].alive THEN staged[r].vers[k] ELSE Garbage]
<1>1. /\ call[r].pc = "staged" /\ Goes(r, "fetched") /\ staged' = [staged EXCEPT ![r].vers = v]
      /\ UNCHANGED <<master, cache, local, op>> /\ UNCHANGED versions
  BY Zenon DEF BatchGetOffloadObject, Goes, master
<1>2. ReaderTypes /\ Offloaded(r) /\ staged[r] \in Staged
  BY Zenon, OffloadFacts
<1>3. staged[r].vers \in [Key -> 0..MaxVersion]
  BY Zenon, <1>1, <1>2 DEF Offloaded
<1>4. v \in [Key -> 0..MaxVersion] /\ (staged[r].alive => \A k \in Key : v[k] = staged[r].vers[k])
  BY <1>3, BoundsAssumption DEF Garbage
<1> HIDE DEF v
<1>5. PICK s : s = [staged[r] EXCEPT !.vers = v]
  BY Zenon
<1>6. s \in Staged /\ s.vers = v /\ s.ttl = staged[r].ttl /\ s.alive = staged[r].alive
  BY Zenon, <1>2, <1>4, <1>5 DEF Staged
<1>7. Stages(r, s)
  BY Zenon, <1>1, <1>5 DEF Stages
<1>8. /\ staged' \in [Reader -> Staged] /\ staged'[r] = s
      /\ \A q \in Reader : q # r => staged'[q] = staged[q]
  BY Zenon, <1>2, <1>6, <1>7, StagesFacts
<1>9. /\ call' \in [Reader -> CallRecord] /\ call'[r].pc = "fetched"
      /\ \A q \in Reader : q # r => call'[q] = call[q]
  BY Zenon, <1>1, <1>2, GoesFacts
<1>10. Offloaded(r)'
  BY <1>1, <1>2, <1>4, <1>6, <1>8, <1>9 DEF Offloaded
<1>11. \A k \in Key : InStep(r, k)' /\ Sound(r, k)'
  BY Zenon, <1>1, MovesOn
<1> QED
  BY Zenon, <1>1, <1>8, <1>9, <1>10, <1>11, OpsKept

\* The operation p ends with the offload read.
Ends(p, x, d, o) == o = [p EXCEPT !.st = "done", !.result = x, !.data = d]

\* What such an operation is.
LEMMA OffloadOp ==
  ASSUME NEW p, OpRecord(p), NEW x \in {"OK", "FAIL"}, NEW d \in 0..MaxVersion, NEW o,
         Ends(p, x, d, o)
  PROVE  /\ OpRecord(o) /\ o.st = "done" /\ o.result = x /\ o.data = d
         /\ o.ver = p.ver /\ o.hit = p.hit
<1>1. p = [st |-> p.st, replica |-> p.replica, ver |-> p.ver, hit |-> p.hit,
           data |-> p.data, result |-> p.result]
  BY Zenon DEF OpRecord
<1>2. o = [st |-> "done", replica |-> p.replica, ver |-> p.ver, hit |-> p.hit,
           data |-> d, result |-> x]
  BY Zenon, <1>1 DEF Ends
<1>3. d \in Data /\ p.ver \in 0..MaxVersion /\ p.hit \in BOOLEAN
  BY BoundsAssumption DEF OpRecord, Data
<1>4. OpRecord(o)
  BY Zenon, <1>2, <1>3 DEF OpRecord, States
<1> QED
  BY Zenon, <1>2, <1>4

\* The end of the offload read: what it calls OK is intact.
LEMMA OffloadEnds ==
  ASSUME ReadInv, NEW r \in Reader, NEW x \in {"OK", "FAIL"}, NEW d \in [Key -> 0..MaxVersion],
         call[r].pc \in {"offload", "staged", "fetched"}, Goes(r, "return"), OffloadResult(r, x, d),
         x = "OK" => \A k \in Key : op[r][k].st = "offload" => d[k] >= op[r][k].ver,
         staged' \in [Reader -> Staged], \A q \in Reader : q # r => staged'[q] = staged[q],
         staged'[r].ttl => staged'[r].alive, UNCHANGED <<master, cache, local>>
  PROVE  ReadInv'
<1> DEFINE F == [k \in Key |-> IF op[r][k].st = "offload"
                               THEN [op[r][k] EXCEPT !.st = "done", !.result = x, !.data = d[k]]
                               ELSE op[r][k]]
<1>1. AllBecome(r, F) /\ UNCHANGED versions
  BY Zenon DEF OffloadResult, AllBecome, master
<1>2. /\ ReaderTypes
      /\ \A k \in Key : OpRecord(op[r][k]) /\ InStep(r, k) /\ Sound(r, k)
  BY Zenon, OffloadFacts
<1>3. /\ \A k \in Key : op'[r][k] = F[k]
      /\ op' = [q \in Reader |-> [j \in Key |-> op'[q][j]]]
      /\ \A q \in Reader : q # r => op'[q] = op[q]
  <2> HIDE DEF F
  <2> QED
    BY Zenon, <1>1, <1>2, OpsUpdate
<1>4. /\ call' \in [Reader -> CallRecord]
      /\ call'[r].pc = "return" /\ call'[r].keys = call[r].keys
      /\ call'[r].kind = call[r].kind
      /\ \A q \in Reader : q # r => call'[q] = call[q]
  BY Zenon, <1>2, GoesFacts
<1>5. ASSUME NEW k \in Key
      PROVE  /\ OpRecord(op'[r][k]) /\ ~Pinning(op[r][k]) /\ ~Pinning(op[r][k])'
             /\ InStep(r, k)' /\ Sound(r, k)'
  <2>1. PICK p, o, v : p = op[r][k] /\ o = op'[r][k] /\ v = d[k]
    BY Zenon
  <2>2. OpRecord(p) /\ v \in 0..MaxVersion
    BY Zenon, <1>2, <2>1
  <2>3. CASE p.st = "offload"
    <3>1. Ends(p, x, v, o)
      BY Zenon, <1>3, <2>1, <2>3 DEF Ends
    <3>2. /\ OpRecord(o) /\ o.st = "done" /\ o.result = x /\ o.data = v
          /\ o.ver = p.ver /\ o.hit = p.hit
      BY <2>2, <3>1, OffloadOp
    <3>3. ~p.hit /\ p.ver <= versions[k] /\ k \in Named(call[r].keys)
      BY Zenon, <1>2, <2>1, <2>3 DEF InStep, Sound
    <3>4. InStep(r, k)'
      BY Zenon, <1>4, <2>1, <3>2, <3>3 DEF InStep
    <3>5. x = "OK" => Intact(call'[r], o)
      BY Zenon, <2>1, <2>3, <3>2, <3>3 DEF Intact
    <3>6. Sound(r, k)'
      BY Zenon, <1>1, <2>1, <3>2, <3>3, <3>5 DEF Sound
    <3> QED
      BY Zenon, <2>1, <2>3, <3>2, <3>4, <3>6 DEF Pinning
  <2>4. CASE p.st # "offload"
    <3>1. o = p
      BY Zenon, <1>3, <2>1, <2>4
    <3>2. p.st \in {"none", "done", "returned"}
      BY Zenon, <1>2, <2>1, <2>2, <2>4 DEF InStep, OpRecord, States
    <3>3. InStep(r, k)'
      BY <1>2, <1>4, <2>1, <3>1, <3>2 DEF InStep
    <3>4. p.result = "OK" => Intact(call[r], p)
      BY Zenon, <1>2, <2>1 DEF Sound
    <3>5. Intact(call[r], p) => Intact(call'[r], o)
      BY Zenon, <1>4, <3>1 DEF Intact
    <3>6. Sound(r, k)'
      BY Zenon, <1>1, <1>2, <2>1, <3>1, <3>2, <3>4, <3>5 DEF Sound
    <3> QED
      BY Zenon, <2>1, <2>2, <3>1, <3>2, <3>3, <3>6 DEF Pinning
  <2> QED
    BY Zenon, <2>3, <2>4
<1>6. Offloaded(r)'
  BY Zenon, <1>4 DEF Offloaded
<1> QED
  BY Zenon, <1>3, <1>4, <1>5, <1>6, QuietStep

\* batch_get_into_offload_object_internal without an answer, or with one.
LEMMA OffloadReturnKeeps ==
  ASSUME ReadInv, NEW r \in Reader, StageFails(r) \/ \E ok \in BOOLEAN : OffloadReturn(r, ok)
  PROVE  ReadInv'
<1>1. ReaderTypes /\ Offloaded(r)
  BY Zenon, OffloadFacts
<1>2. CASE StageFails(r)
  <2>1. PICK d : d = [k \in Key |-> Garbage]
    BY Zenon
  <2>2. d \in [Key -> 0..MaxVersion]
    BY <2>1, BoundsAssumption DEF Garbage
  <2>3. /\ call[r].pc = "offload" /\ Goes(r, "return") /\ OffloadResult(r, "FAIL", d)
        /\ UNCHANGED <<master, cache, local>> /\ staged' = staged
    BY Zenon, <1>2, <2>1 DEF StageFails, Goes
  <2>4. /\ staged' \in [Reader -> Staged] /\ (staged'[r].ttl => staged'[r].alive)
        /\ \A q \in Reader : q # r => staged'[q] = staged[q]
    BY Zenon, <1>1, <2>3 DEF Offloaded, ReaderTypes
  <2> QED
    BY Zenon, <2>2, <2>3, <2>4, OffloadEnds
<1>3. CASE \E ok \in BOOLEAN : OffloadReturn(r, ok)
  <2>1. PICK ok \in BOOLEAN : OffloadReturn(r, ok)
    BY Zenon, <1>3
  <2>2. PICK x, d : x = (IF ok /\ staged[r].ttl THEN "OK" ELSE "FAIL") /\ d = staged[r].vers
    BY Zenon
  <2>3. /\ call[r].pc \in {"staged", "fetched"} /\ (x = "OK" => call[r].pc = "fetched" /\ staged[r].ttl)
        /\ Goes(r, "return") /\ OffloadResult(r, x, d) /\ Stages(r, NotStaged)
        /\ UNCHANGED <<master, cache, local>> /\ x \in {"OK", "FAIL"}
    BY Zenon, <2>1, <2>2 DEF OffloadReturn, Goes, Stages
  <2>4. NotStaged \in Staged /\ ~NotStaged.ttl
    BY Zenon DEF NotStaged, Staged
  <2>5. /\ staged' \in [Reader -> Staged] /\ staged'[r] = NotStaged
        /\ \A q \in Reader : q # r => staged'[q] = staged[q]
    BY Zenon, <1>1, <2>3, <2>4, StagesFacts
  <2>6. /\ d \in [Key -> 0..MaxVersion]
        /\ x = "OK" => \A k \in Key : op[r][k].st = "offload" => d[k] >= op[r][k].ver
    BY Zenon, <1>1, <2>2, <2>3 DEF Offloaded
  <2> QED
    BY Zenon, <2>3, <2>4, <2>5, <2>6, OffloadEnds
<1> QED
  BY Zenon, <1>2, <1>3

-----------------------------------------------------------------------------
(* BatchGetWhenPreferSameNode. *)

\* The transfer of one segment ends: the pins of its keys are given back.
LEMMA SegmentEnds ==
  ASSUME ReadInv, NEW r \in Reader, NEW x \in {"OK", "FAIL"},
         NEW ks, ks \subseteq InState(r, {"submitted", "moved"}),
         x = "OK" => \A k \in ks : op[r][k].st = "moved",
         call[r].kind = "same_node",
         op' = [op EXCEPT ![r] = [k \in Key |-> IF k \in ks THEN Finished(op[r][k], x)
                                                ELSE op[r][k]]],
         hot' = Unpinned(r, ks, hot), UNCHANGED <<master, leaked, call, staged, local>>,
         \A f \in fills' : f \in fills \/ (f \in Fill /\ (f.late \/ f.ver = object[f.key].ver))
  PROVE  ReadInv'
<1> DEFINE F == [k \in Key |-> IF k \in ks THEN Finished(op[r][k], x) ELSE op[r][k]]
<1>1. AllBecome(r, F) /\ UNCHANGED <<versions, call, staged, leaked>>
  BY Zenon DEF AllBecome, master
<1>2. /\ ReaderTypes /\ CacheTypes /\ Offloaded(r)
      /\ \A k \in Key : OpRecord(op[r][k]) /\ InStep(r, k) /\ Sound(r, k) /\ Kept(r, k)
  BY Zenon DEF ReadInv, ReaderTypes
<1>3. /\ \A k \in Key : op'[r][k] = F[k]
      /\ op' = [q \in Reader |-> [j \in Key |-> op'[q][j]]]
      /\ \A q \in Reader : q # r => op'[q] = op[q]
  <2> HIDE DEF F
  <2> QED
    BY Zenon, <1>1, <1>2, OpsUpdate
<1>4. ASSUME NEW k \in Key, k \in ks
      PROVE  /\ OpRecord(op'[r][k]) /\ ~Pinning(op[r][k])' /\ (Pinning(op[r][k]) <=> op[r][k].hit)
             /\ InStep(r, k)' /\ Sound(r, k)' /\ op'[r][k].st = "done"
  <2>1. PICK p, o : p = op[r][k] /\ o = op'[r][k]
    BY Zenon
  <2>2. p.st \in {"submitted", "moved"} /\ (x = "OK" => p.st = "moved")
    BY Zenon, <1>4, <2>1 DEF InState
  <2>3. /\ k \in Named(call[r].keys) /\ call[r].pc = "read"
        /\ Pinning(p) <=> p.hit
        /\ OpRecord(p) /\ Sound(r, k)
    BY Zenon, <2>1, <2>2, FlightFacts
  <2>4. Finishes(p, x, o)
    BY Zenon, <1>3, <1>4, <2>1 DEF Finishes
  <2>5. /\ OpRecord(o) /\ o.st = "done" /\ o.result = x /\ ~Pinning(o)
        /\ x = "OK" => o.data = p.data /\ o.ver = p.ver /\ o.hit = p.hit
        /\ x = "FAIL" => o.ver = 0 /\ o.hit = FALSE
    <3>1. IsFinished(p, x, o)
      BY Zenon, <2>3, <2>4, FinishedOp
    <3> QED
      BY Zenon, <3>1 DEF IsFinished
  <2>6. InStep(r, k)'
    BY Zenon, <1>1, <2>1, <2>3, <2>5 DEF InStep
  <2>7. x = "OK" => Intact(call[r], o)
    BY Zenon, <2>1, <2>2, <2>3, <2>5 DEF Sound, Intact
  <2>8. ~o.hit => o.ver <= versions[k]
    <3>1. CASE x = "OK"
      BY Zenon, <2>1, <2>3, <2>5, <3>1 DEF Sound
    <3>2. CASE x = "FAIL"
      <4>1. versions[k] \in Nat
        BY Zenon, VersionFacts DEF ReadInv
      <4> QED
        BY <2>5, <3>2, <4>1
    <3> QED
      BY Zenon, <3>1, <3>2
  <2>9. Sound(r, k)'
    BY Zenon, <1>1, <2>1, <2>5, <2>7, <2>8 DEF Sound
  <2> QED
    BY Zenon, <2>1, <2>3, <2>5, <2>6, <2>9 DEF Pinning
<1>5. \A k \in Key : k \notin ks => op'[r][k] = op[r][k]
  BY Zenon, <1>3
<1> HIDE DEF F
<1>6. /\ hot' = [j \in Key |-> hot'[j]] /\ leaked' = [j \in Key |-> leaked'[j]]
      /\ \A j \in Key : PinStep(r, j) /\ (j \notin ks => hot'[j] = hot[j])
  BY <1>1, <1>2, <1>4, <1>5, UnpinnedPins
<1>7. ASSUME NEW k \in Key
      PROVE  /\ OpRecord(op'[r][k]) /\ InStep(r, k)' /\ Sound(r, k)'
             /\ Pinning(op[r][k])' => HasBlock(hot, k)' /\ hot'[k].ver = op'[r][k].ver
  <2>1. CASE k \in ks
    BY Zenon, <1>4, <2>1
  <2>2. CASE k \notin ks
    <3>1. op'[r][k] = op[r][k] /\ hot'[k] = hot[k]
      BY Zenon, <1>5, <1>6, <2>2
    <3>2. InStep(r, k)' /\ Sound(r, k)'
      BY <1>1, <1>2, <3>1 DEF InStep, Sound
    <3> QED
      BY Zenon, <1>2, <3>1, <3>2 DEF Kept, HasBlock
  <2> QED
    BY Zenon, <2>1, <2>2
<1>8. ReaderTypes'
  <2>1. \A q \in Reader, k \in Key : OpRecord(op'[q][k])
    BY Zenon, <1>2, <1>3, <1>7 DEF ReaderTypes
  <2> QED
    BY Zenon, <1>1, <1>2, <1>3, <2>1 DEF ReaderTypes
<1>9. Offloaded(r)'
  <2>1. \A k \in Key : op'[r][k].st = "offload" => op'[r][k] = op[r][k]
    BY Zenon, <1>4, <1>5
  <2> QED
    BY Zenon, <1>1, <1>2, <2>1 DEF Offloaded
<1> QED
  BY Zenon, <1>1, <1>3, <1>6, <1>7, <1>8, <1>9, ReaderStep

\* The end of a segment, good or bad.
LEMMA SegmentKeeps ==
  ASSUME ReadInv, NEW r \in Reader, NEW here \in BOOLEAN,
         SegmentDone(r, here) \/ SegmentFails(r, here)
  PROVE  ReadInv'
<1> DEFINE ks == Segment(r, here)
<1>1. ks \subseteq InState(r, {"submitted", "moved"}) /\ ks \subseteq Key
  <2>1. ks \subseteq InState(r, {"submitted", "moved"})
    BY Zenon DEF Segment
  <2>2. call[r].keys \in Seq(Key)
    BY Zenon DEF ReadInv, ReaderTypes, CallRecord
  <2>3. Named(call[r].keys) \subseteq Key
    BY <2>2 DEF Named
  <2> QED
    BY Zenon, <2>1, <2>3 DEF InState
<1>2. CASE SegmentDone(r, here)
  <2>1. PICK admitted \in SUBSET ks :
           fills' = fills \cup {ProcessSlicesAsync(k, op[r][k]) : k \in admitted}
    BY Zenon, <1>2 DEF SegmentDone
  <2>2. /\ \A k \in ks : op[r][k].st = "moved" 
        /\ call[r].kind = "same_node" /\ hot' = Unpinned(r, ks, hot)
        /\ op' = [op EXCEPT ![r] = [k \in Key |-> IF k \in ks
                                       THEN Finished(op[r][k], "OK")
                                       ELSE op[r][k]]]
        /\ UNCHANGED <<master, leaked, call, staged, local>>
    BY Zenon, <1>2 DEF SegmentDone, Finished
  <2> HIDE DEF ks
  <2>3. \A f \in fills' : f \in fills \/ (f \in Fill /\ (f.late \/ f.ver = object[f.key].ver))
    <3> SUFFICES ASSUME NEW f \in fills', f \notin fills
                 PROVE  f \in Fill /\ (f.late \/ f.ver = object[f.key].ver)
      BY Zenon
    <3>1. PICK k \in ks : f = ProcessSlicesAsync(k, op[r][k])
      BY Zenon, <2>1
    <3>2. k \in Key /\ op[r][k].st = "moved"
      BY Zenon, <1>1, <2>2, <3>1
    <3> QED
      BY Zenon, <3>1, <3>2, FillFacts
  <2> QED
    BY Zenon, <1>1, <2>2, <2>3, SegmentEnds
<1>3. CASE SegmentFails(r, here)
  <2>1. /\ call[r].kind = "same_node" /\ hot' = Unpinned(r, ks, hot) /\ fills' = fills
        /\ op' = [op EXCEPT ![r] = [k \in Key |-> IF k \in ks
                                       THEN Finished(op[r][k], "FAIL")
                                       ELSE op[r][k]]]
        /\ UNCHANGED <<master, leaked, call, staged, local>>
    BY Zenon, <1>3 DEF SegmentFails, Finished
  <2> HIDE DEF ks
  <2> QED
    BY Zenon, <1>1, <2>1, SegmentEnds
<1> QED
  BY Zenon, <1>2, <1>3

-----------------------------------------------------------------------------
(* The cache, the master and the writer. *)

\* A step of another actor, that keeps every reader's block.
LEMMA OthersStep ==
  ASSUME ReadInv, UNCHANGED <<readers, leaked>>, MasterTypes', CacheTypes',
         \A k \in Key : versions[k] <= versions'[k],
         \A k \in Key : /\ Balanced(k)' /\ Fresh(k)'
                        /\ HasBlock(hot, k) /\ HasBlock(hot, k)' => hot'[k].ver = hot[k].ver
  PROVE  ReadInv'
<1>1. op' = op
  BY Zenon DEF readers
<1>2. /\ ReaderTypes' /\ \A r \in Reader : Offloaded(r)'
      /\ \A r \in Reader, k \in Key : InStep(r, k)' /\ Sound(r, k)'
  <2>1. versions' \in [Key -> Version]
    BY Zenon DEF MasterTypes
  <2> QED
    BY Zenon, <2>1, ReadersIdle
<1>3. \A k \in Key : leaked'[k] \in Nat
  BY BoundsAssumption DEF CacheTypes
<1>4. \A r \in Reader, k \in Key : Kept(r, k)'
  BY Zenon, <1>1, <1>3, KeptFrame DEF ReadInv
<1> QED
  BY Zenon, <1>2, <1>4 DEF ReadInv

\* A block that nobody pins may come and go.
LEMMA BlockComesAndGoes ==
  ASSUME CacheTypes, NEW k \in Key, Balanced(k), UNCHANGED <<op, leaked>>,
         ~HasBlock(hot, k) \/ hot[k].pins = 0, ~HasBlock(hot, k)' \/ hot'[k].pins = 0
  PROVE  Balanced(k)'
<1>1. Pinners(k) = {} /\ leaked[k] = 0
  BY Zenon, NobodyPins
<1>2. Pinners(k)' = {}
  BY Zenon, <1>1 DEF Pinners
<1>3. Cardinality(Pinners(k)') = 0
  BY Zenon, <1>2, ReadersCount DEF Counting
<1> QED
  BY <1>1, <1>3 DEF Balanced

\* The handler publishes a fill, or the cache evicts a block.
LEMMA CacheStepKeeps ==
  ASSUME ReadInv, CacheStep
  PROVE  ReadInv'
<1>1. /\ MasterTypes /\ CacheTypes
      /\ \A k \in Key : Balanced(k) /\ Fresh(k)
  BY Zenon DEF ReadInv
<1>2. UNCHANGED <<master, readers, local, leaked>>
  BY Zenon DEF CacheStep, PublishFill, EvictBlock
<1>3. UNCHANGED <<object, versions, settled, op, leaked>> /\ MasterTypes'
  BY Zenon, <1>1, <1>2 DEF master, readers, local, MasterTypes
<1>4. \A k \in Key : versions[k] <= versions'[k]
  BY <1>1, <1>3, BoundsAssumption DEF MasterTypes, Version
<1>5. ASSUME NEW f \in fills, PublishFill(f)
      PROVE  ReadInv'
  <2>1. f \in Fill /\ f.key \in Key
    BY Zenon, <1>1, <1>5 DEF CacheTypes, Fill
  <2>2. PICK b : b = [ver |-> f.ver, late |-> f.late, pins |-> 0, stale |-> FALSE]
    BY Zenon
  <2>3. b \in Block /\ b.ver = f.ver /\ b.late = f.late /\ b.pins = 0
    BY <2>1, <2>2 DEF Block, Fill
  <2>4. /\ fills' = fills \ {f}
        /\ hot' = IF ~HasBlock(hot, f.key) THEN [hot EXCEPT ![f.key] = b] ELSE hot
    BY Zenon, <1>5, <2>2 DEF PublishFill
  <2>5. CacheTypes'
    BY Zenon, <1>1, <1>3, <2>1, <2>3, <2>4 DEF CacheTypes
  <2>6. ASSUME NEW k \in Key
        PROVE  /\ Balanced(k)' /\ Fresh(k)'
               /\ HasBlock(hot, k) /\ HasBlock(hot, k)' => hot'[k].ver = hot[k].ver
    <3>1. CASE k = f.key /\ ~HasBlock(hot, k)
      <4>1. hot'[k] = b
        BY Zenon, <1>1, <2>4, <3>1 DEF CacheTypes
      <4>2. Balanced(k)'
        BY Zenon, <1>1, <1>3, <2>3, <3>1, <4>1, BlockComesAndGoes
      <4>3. Fresh(k)'
        BY Zenon, <1>1, <1>3, <1>5, <2>3, <2>4, <3>1, <4>1 DEF Fresh
      <4> QED
        BY Zenon, <3>1, <4>2, <4>3
    <3>2. CASE ~(k = f.key /\ ~HasBlock(hot, k))
      <4>1. hot'[k] = hot[k]
        BY Zenon, <1>1, <2>4, <3>2 DEF CacheTypes
      <4>2. Balanced(k)'
        BY Zenon, <1>1, <1>3, <4>1 DEF Balanced, HasBlock, Pinners
      <4>3. Fresh(k)'
        BY Zenon, <1>1, <1>3, <2>4, <4>1 DEF Fresh, HasBlock
      <4> QED
        BY Zenon, <4>1, <4>2, <4>3
    <3> QED
      BY Zenon, <3>1, <3>2
  <2> QED
    BY Zenon, <1>2, <1>3, <1>4, <2>5, <2>6, OthersStep
<1>6. ASSUME NEW e \in Key, EvictBlock(e)
      PROVE  ReadInv'
  <2>1. hot[e].pins = 0 /\ hot' = [hot EXCEPT ![e] = NoBlock] /\ fills' = fills
    BY Zenon, <1>6 DEF EvictBlock
  <2>2. hot'[e] = NoBlock /\ \A k \in Key : k # e => hot'[k] = hot[k]
    BY Zenon, <1>1, <2>1 DEF CacheTypes
  <2>3. CacheTypes'
    BY Zenon, <1>1, <1>3, <2>1 DEF CacheTypes
  <2>4. ASSUME NEW k \in Key
        PROVE  /\ Balanced(k)' /\ Fresh(k)'
               /\ HasBlock(hot, k) /\ HasBlock(hot, k)' => hot'[k].ver = hot[k].ver
    <3>1. CASE k = e
      <4>1. ~HasBlock(hot, k)'
        BY Zenon, <2>2, <3>1 DEF HasBlock
      <4>2. Balanced(k)'
        BY Zenon, <1>1, <1>3, <2>1, <3>1, <4>1, BlockComesAndGoes
      <4> QED
        BY Zenon, <1>1, <1>3, <2>1, <4>1, <4>2 DEF Fresh
    <3>2. CASE k # e
      BY Zenon, <1>1, <1>3, <2>1, <2>2, <3>2 DEF Balanced, Fresh, HasBlock, Pinners
    <3> QED
      BY Zenon, <3>1, <3>2
  <2> QED
    BY Zenon, <1>2, <1>3, <1>4, <2>3, <2>4, OthersStep
<1> QED
  BY Zenon, <1>5, <1>6 DEF CacheStep

\* RemoveHotKey: the block goes, or is found no more.
LEMMA RemoveFacts ==
  ASSUME CacheTypes, NEW ks, hot' = RemoveHotKeys(hot, ks), UNCHANGED <<op, leaked>>,
         NEW k \in Key, Balanced(k)
  PROVE  /\ Balanced(k)' /\ Handled(k) /\ hot'[k] \in {NoBlock} \cup Block
         /\ k \in ks /\ HasBlock(hot, k)' => hot'[k].stale
<1>1. hot'[k] = IF k \notin ks \/ ~HasBlock(hot, k) THEN hot[k]
                ELSE IF hot[k].pins = 0 THEN NoBlock
                ELSE [hot[k] EXCEPT !.stale = TRUE]
  BY Zenon DEF RemoveHotKeys
<1>2. hot[k] \in {NoBlock} \cup Block
  BY Zenon DEF CacheTypes
<1>3. CASE (k \notin ks \/ ~HasBlock(hot, k)) /\ hot'[k] = hot[k]
  BY Zenon, <1>1, <1>2, <1>3 DEF Balanced, Handled, HasBlock, Pinners
<1>4. CASE HasBlock(hot, k) /\ hot[k].pins = 0 /\ hot'[k] = NoBlock
  <2>1. ~HasBlock(hot, k)'
    BY Zenon, <1>4 DEF HasBlock
  <2>2. Balanced(k)'
    BY Zenon, <1>4, <2>1, BlockComesAndGoes
  <2> QED
    BY Zenon, <1>4, <2>1, <2>2 DEF Handled
<1>5. CASE HasBlock(hot, k) /\ hot'[k] = [hot[k] EXCEPT !.stale = TRUE]
  <2>1. PICK b, c, s : b = hot[k] /\ c = hot'[k] /\ s = TRUE
    BY Zenon
  <2>2. b \in Block /\ c = [b EXCEPT !.stale = s]
    BY Zenon, <1>2, <1>5, <2>1 DEF HasBlock
  <2>3. c \in Block /\ c.ver = b.ver /\ c.late = b.late /\ c.pins = b.pins /\ c.stale = s
    BY Zenon, <2>1, <2>2 DEF Block
  <2>4. NoBlock \notin Block
    BY BoundsAssumption DEF NoBlock, Block
  <2>5. HasBlock(hot, k)' /\ Pinners(k)' = Pinners(k)
    BY Zenon, <2>1, <2>3, <2>4 DEF HasBlock, Pinners
  <2>6. Balanced(k)'
    BY Zenon, <1>5, <2>1, <2>3, <2>5 DEF Balanced
  <2> QED
    BY Zenon, <1>5, <2>1, <2>3, <2>6 DEF Handled
<1> QED
  BY Zenon, <1>1, <1>3, <1>4, <1>5

\* A local write begins.
LEMMA BeginWriteKeeps ==
  ASSUME ReadInv, NEW kind \in {"put", "upsert", "remove", "bulk"}, NEW ks \in SUBSET Key,
         BeginWrite(kind, ks)
  PROVE  ReadInv'
<1>1. /\ MasterTypes /\ CacheTypes
      /\ \A k \in Key : Balanced(k) /\ Fresh(k)
  BY Zenon DEF ReadInv
<1>2. /\ UNCHANGED <<readers, leaked>> /\ UNCHANGED <<object, versions, settled, op, leaked>>
      /\ fills' \subseteq fills
      /\ writer' = [kind |-> kind, keys |-> ks, told |-> {}, pc |-> "started"]
  BY Zenon DEF BeginWrite, Void, master, readers
<1>3. PICK gone : hot' = RemoveHotKeys(hot, gone)
  <2>1. CASE kind \in {"put", "upsert"}
    BY Zenon, <2>1 DEF BeginWrite
  <2>2. CASE kind \notin {"put", "upsert"}
    <3>1. hot' = hot
      BY Zenon, <2>2 DEF BeginWrite
    <3>2. hot = RemoveHotKeys(hot, {})
      BY Zenon, <1>1 DEF RemoveHotKeys, CacheTypes
    <3> QED
      BY Zenon, <3>1, <3>2
  <2> QED
    BY Zenon, <2>1, <2>2
<1>4. \A k \in Key : Balanced(k)' /\ Handled(k) /\ hot'[k] \in {NoBlock} \cup Block
  BY Zenon, <1>1, <1>2, <1>3, RemoveFacts
<1>5. MasterTypes'
  BY Zenon, <1>1, <1>2 DEF MasterTypes, WriteRecord
<1>6. CacheTypes'
  <2>1. hot' = [k \in Key |-> hot'[k]]
    BY Zenon, <1>3 DEF RemoveHotKeys
  <2>2. hot' \in [Key -> {NoBlock} \cup Block]
    BY Zenon, <1>4, <2>1
  <2> QED
    BY Zenon, <1>1, <1>2, <2>2 DEF CacheTypes
<1>7. \A k \in Key : Fresh(k)'
  BY Zenon, <1>1, <1>2, <1>4, FreshFrame
<1>8. \A k \in Key : versions[k] <= versions'[k]
  BY <1>1, <1>2, BoundsAssumption DEF MasterTypes, Version
<1> QED
  BY Zenon, <1>2, <1>4, <1>5, <1>6, <1>7, <1>8, OthersStep DEF Handled

\* Keys ks are committed or dropped by the master.
MasterChanges(ks) ==
    \/ Commit(ks) /\ \A k \in ks : versions[k] < MaxVersion
    \/ Drop(ks)

\* The master's part of a write, wherever it comes from.
LEMMA MasterChangesKeeps ==
  ASSUME ReadInv, NEW ks, MasterChanges(ks), UNCHANGED <<cache, readers>>, writer' \in WriteRecord
  PROVE  ReadInv'
<1>1. /\ MasterTypes /\ CacheTypes
      /\ \A k \in Key : Balanced(k) /\ Fresh(k)
  BY Zenon DEF ReadInv
<1>2. UNCHANGED <<hot, fills, leaked, op>>
  BY Zenon DEF cache, readers
<1>3. \A k \in Key : versions[k] \in Nat
  BY <1>1, BoundsAssumption DEF MasterTypes, Version
<1>4. /\ versions' \in [Key -> Version]
      /\ \A k \in Key : /\ object'[k].ver \in {0, versions'[k]} /\ versions[k] <= versions'[k]
                        /\ k \notin ks => object'[k] = object[k]
      /\ settled' = settled \ ks
  <2>1. CASE Commit(ks) /\ \A k \in ks : versions[k] < MaxVersion
    <3>1. PICK l : object' = [k \in Key |-> IF k \in ks
                                            THEN [ver |-> versions[k] + 1, replicas |-> l[k]]
                                            ELSE object[k]]
      BY Zenon, <2>1 DEF Commit
    <3>2. /\ versions' = [k \in Key |-> IF k \in ks THEN versions[k] + 1 ELSE versions[k]]
          /\ settled' = settled \ ks
      BY Zenon, <2>1 DEF Commit
    <3>3. \A k \in Key : versions'[k] \in Version /\ versions[k] <= versions'[k]
      BY <1>1, <1>3, <2>1, <3>2, BoundsAssumption DEF MasterTypes, Version
    <3>4. \A k \in Key : /\ object'[k].ver \in {0, versions'[k]}
                         /\ k \notin ks => object'[k] = object[k]
      BY Zenon, <1>1, <3>1, <3>2 DEF MasterTypes
    <3> QED
      BY Zenon, <3>2, <3>3, <3>4
  <2>2. CASE Drop(ks)
    BY <1>1, <1>3, <2>2 DEF Drop, MasterTypes
  <2> QED
    BY Zenon, <2>1, <2>2 DEF MasterChanges
<1>5. MasterTypes' /\ CacheTypes'
  BY Zenon, <1>1, <1>2, <1>4 DEF MasterTypes, CacheTypes
<1>6. ASSUME NEW k \in Key PROVE Balanced(k)' /\ Fresh(k)'
  <2>1. Balanced(k)'
    BY Zenon, <1>1, <1>2 DEF Balanced, HasBlock, Pinners
  <2>2. Handled(k)
    BY Zenon, <1>2 DEF Handled, HasBlock
  <2> QED
    BY Zenon, <1>1, <1>2, <1>4, <2>1, <2>2, FreshFrame
<1>7. \A k \in Key : HasBlock(hot, k) /\ HasBlock(hot, k)' => hot'[k].ver = hot[k].ver
  BY Zenon, <1>2
<1> QED
  BY Zenon, <1>2, <1>4, <1>5, <1>6, <1>7, OthersStep

\* The master applies the write of this client.
LEMMA MasterWritesKeeps ==
  ASSUME ReadInv, MasterWrites
  PROVE  ReadInv'
<1>1. writer \in WriteRecord
  BY Zenon DEF ReadInv, MasterTypes
<1>2. PICK ks, told : /\ MasterChanges(ks) /\ told \in SUBSET writer.keys
                      /\ writer' = IF told = {} \/ writer.kind = "put" THEN NoWrite
                                   ELSE [writer EXCEPT !.told = told, !.pc = "ended"]
  <2>1. CASE writer.kind \in {"put", "upsert"}
    BY <2>1, Zenon DEF MasterWrites, MasterChanges
  <2>2. CASE writer.kind = "remove"
    BY <2>2, Zenon DEF MasterWrites, MasterChanges
  <2>3. CASE writer.kind = "bulk"
    BY <2>3, Zenon DEF MasterWrites, MasterChanges
  <2> QED
    BY Zenon, <2>1, <2>2, <2>3 DEF MasterWrites
<1>3. writer' \in WriteRecord
  <2>1. NoWrite \in WriteRecord
    BY Zenon DEF NoWrite, WriteRecord
  <2>2. told \in SUBSET Key
    BY Zenon, <1>1, <1>2 DEF WriteRecord
  <2>3. [writer EXCEPT !.told = told, !.pc = "ended"] \in WriteRecord
    BY Zenon, <1>1, <2>2 DEF WriteRecord
  <2> QED
    BY Zenon, <1>2, <2>1, <2>3
<1>4. UNCHANGED <<cache, readers>>
  BY Zenon DEF MasterWrites
<1> QED
  BY Zenon, <1>2, <1>3, <1>4, MasterChangesKeeps

\* Another client changes a key.
LEMMA RemoteChangeKeeps ==
  ASSUME ReadInv, NEW k \in Key, RemoteChange(k)
  PROVE  ReadInv'
<1>1. MasterChanges({k}) /\ UNCHANGED <<cache, readers>> /\ writer' = writer
  BY Zenon DEF RemoteChange, MasterChanges
<1>2. writer' \in WriteRecord
  BY Zenon, <1>1 DEF ReadInv, MasterTypes
<1> QED
  BY Zenon, <1>1, <1>2, MasterChangesKeeps

\* The success side of a write: nothing of the keys it names is left behind.
LEMMA FinishWriteKeeps ==
  ASSUME ReadInv, FinishWrite
  PROVE  ReadInv'
<1>1. /\ MasterTypes /\ CacheTypes
      /\ \A k \in Key : Balanced(k) /\ Fresh(k)
  BY Zenon DEF ReadInv
<1>2. PICK gone : gone = IF writer.kind = "bulk" THEN writer.keys ELSE writer.told
  BY Zenon
<1>3. /\ UNCHANGED <<readers, leaked>> /\ UNCHANGED <<object, versions, op, leaked>>
      /\ hot' = RemoveHotKeys(hot, gone) /\ settled' = settled \cup gone /\ writer' = NoWrite
  BY Zenon, <1>2 DEF FinishWrite, master, readers
<1>4. gone \in SUBSET Key
  BY Zenon, <1>1, <1>2 DEF MasterTypes, WriteRecord
<1>5. fills' \subseteq fills /\ \A f \in fills' : f.key \notin gone
  BY Zenon, <1>2, <1>4 DEF FinishWrite, Void
<1>6. \A k \in Key : /\ Balanced(k)' /\ Handled(k) /\ hot'[k] \in {NoBlock} \cup Block
                     /\ k \in gone /\ HasBlock(hot, k)' => hot'[k].stale
  BY Zenon, <1>1, <1>3, RemoveFacts
<1>7. MasterTypes'
  BY Zenon, <1>1, <1>3, <1>4 DEF MasterTypes, WriteRecord, NoWrite
<1>8. CacheTypes'
  <2>1. hot' = [k \in Key |-> hot'[k]]
    BY Zenon, <1>3 DEF RemoveHotKeys
  <2>2. hot' \in [Key -> {NoBlock} \cup Block]
    BY Zenon, <1>6, <2>1
  <2> QED
    BY Zenon, <1>1, <1>3, <1>5, <2>2 DEF CacheTypes
<1>9. ASSUME NEW k \in Key PROVE Fresh(k)'
  <2>1. CASE k \in gone
    BY Zenon, <1>5, <1>6, <2>1 DEF Fresh
  <2>2. CASE k \notin gone
    BY Zenon, <1>1, <1>3, <1>5, <1>6, <2>2, FreshFrame
  <2> QED
    BY Zenon, <2>1, <2>2
<1>10. \A k \in Key : versions[k] <= versions'[k]
  BY <1>1, <1>3, BoundsAssumption DEF MasterTypes, Version
<1> QED
  BY Zenon, <1>3, <1>6, <1>7, <1>8, <1>9, <1>10, OthersStep DEF Handled

-----------------------------------------------------------------------------
(* The theorems. *)

\* A step that changes nothing.
LEMMA StutterKeeps ==
  ASSUME ReadInv, UNCHANGED vars
  PROVE  ReadInv'
<1>1. /\ UNCHANGED <<object, versions, hot, fills, leaked>> /\ UNCHANGED <<call, op, staged>>
      /\ UNCHANGED <<writer, settled>>
  BY Zenon DEF vars, master, cache, readers, local
<1>2. MasterTypes' /\ CacheTypes' /\ \A k \in Key : versions[k] <= versions'[k]
  BY <1>1, BoundsAssumption DEF ReadInv, MasterTypes, CacheTypes, Version
<1>3. \A k \in Key : Balanced(k)' /\ Fresh(k)'
  BY Zenon, <1>1 DEF ReadInv, Balanced, Fresh, HasBlock, Pinners
<1>4. UNCHANGED <<readers, leaked>>
  BY Zenon DEF vars, cache
<1> QED
  BY Zenon, <1>1, <1>2, <1>3, <1>4, OthersStep

\* Every step keeps the invariant.
LEMMA ReadInvNext == ReadInv /\ [Next]_vars => ReadInv'
<1> SUFFICES ASSUME ReadInv, [Next]_vars PROVE ReadInv'
  BY Zenon
<1>1. ASSUME NEW r \in Reader, NEW k \in Key, ReadStep(r, k) PROVE ReadInv'
  BY Zenon, <1>1, SubmitKeeps, SubmitFailsKeeps, TransferKeeps, TransferFailsKeeps, WaitKeeps,
     AcquireHotCacheKeeps, ReleaseHotCacheKeeps DEF ReadStep
<1>2. ASSUME NEW r \in Reader, CallStep(r) PROVE ReadInv'
  BY Zenon, <1>2, BeginReadKeeps, SegmentKeeps, LeaseCheckKeeps, LeaseExpiresKeeps, StageOffloadKeeps,
     BufferAges, BatchGetOffloadObjectKeeps, OffloadReturnKeeps, ReturnKeeps DEF CallStep
<1>3. ASSUME WriteStep PROVE ReadInv'
  <2>1. ASSUME NEW kind \in {"put", "upsert", "remove", "bulk"}, NEW ks \in SUBSET Changing,
               BeginWrite(kind, ks)
        PROVE  ReadInv'
    BY Zenon, <2>1, BeginWriteKeeps, ReadersAssumption
  <2> QED
    BY Zenon, <1>3, <2>1, MasterWritesKeeps, FinishWriteKeeps DEF WriteStep
<1>4. ASSUME NEW k \in Changing, RemoteChange(k) PROVE ReadInv'
  BY Zenon, <1>4, RemoteChangeKeeps, ReadersAssumption
<1> QED
  BY Zenon, <1>1, <1>2, <1>3, <1>4, CacheStepKeeps, StutterKeeps DEF Next

\* ReadInv holds in every reachable state.
THEOREM ReadInvariance == Spec => []ReadInv
<1>1. Init => ReadInv
  BY Zenon, ReadInvInit
<1> QED
  BY <1>1, ReadInvNext, PTL DEF Spec

\* The reads, the cache and the writer keep their state well formed; in particular
\* no pin of a hot-cache block is ever released twice.
THEOREM TypeCorrect == Spec => []TypeOK
<1>1. ASSUME ReadInv PROVE TypeOK
  <2>1. MasterTypes /\ CacheTypes /\ ReaderTypes /\ \A k \in Key : Balanced(k)
    BY Zenon, <1>1 DEF ReadInv
  <2>2. \A k \in Key : object[k].ver \in 0..versions[k] /\ versions[k] \in Version
    BY <2>1, BoundsAssumption DEF MasterTypes, Version
  <2>3. ASSUME NEW k \in Key, HasBlock(hot, k)
        PROVE  hot[k].ver \in 0..MaxVersion /\ hot[k].pins \in Nat /\ hot[k].stale \in BOOLEAN
    <3>1. hot[k] \in Block /\ leaked[k] \in Nat
      BY <2>1, <2>3, BoundsAssumption DEF CacheTypes, HasBlock
    <3>2. hot[k].pins \in Nat
      BY <2>1, <2>3, <3>1, PinnersCount DEF Balanced
    <3> QED
      BY Zenon, <3>1, <3>2 DEF Block
  <2>4. /\ \A f \in fills : f.key \in Key /\ f.ver \in 0..MaxVersion
        /\ leaked \in [Key -> 0..MaxLeak]
    BY Zenon, <2>1 DEF CacheTypes, Fill
  <2>5. \A r \in Reader :
           call[r].pc \in {"idle", "read", "offload", "staged", "fetched", "held", "return"}
    BY Zenon, <2>1 DEF ReaderTypes, CallRecord
  <2>6. \A r \in Reader, k \in Key :
           /\ op[r][k].st \in {"none", "ready", "offload", "submitted", "moved",
                               "broken", "held", "done", "later", "returned"}
           /\ op[r][k].ver \in 0..MaxVersion /\ op[r][k].data \in Data
           /\ op[r][k].result \in {"none", "OK", "FAIL"}
    BY Zenon, <2>1 DEF ReaderTypes, OpRecord, States
  <2>7. writer.pc \in {"idle", "started", "ended"} /\ writer.keys \subseteq Key
        /\ settled \subseteq Key
    BY Zenon, <2>1 DEF MasterTypes, WriteRecord
  <2> QED
    BY Zenon, <2>2, <2>3, <2>4, <2>5, <2>6, <2>7 DEF TypeOK
<1> QED
  BY <1>1, ReadInvariance, PTL

\* OkReadsAreIntact: what Get, BatchGet or the offload read calls OK is what the
\* query saw or newer, and what a hit returns is the pinned block, although leases
\* expire, memory is reused, blocks are removed and buffers are collected meanwhile.
THEOREM ReadsAreIntact == Spec => []OkReadsAreIntact
<1>1. ASSUME ReadInv PROVE OkReadsAreIntact
  <2>1. \A r \in Reader, k \in Key : Sound(r, k)
    BY Zenon, <1>1 DEF ReadInv
  <2> QED
    BY Zenon, <2>1 DEF OkReadsAreIntact, Sound, Intact
<1> QED
  BY <1>1, ReadInvariance, PTL

\* PinsBalance: every pin of a block is one of a read in flight, of a dummy client, or
\* was forgotten on a size mismatch.
THEOREM PinsAreBalanced == Spec => []PinsBalance
<1>1. ASSUME ReadInv PROVE PinsBalance
  BY Zenon, <1>1 DEF ReadInv, PinsBalance, Balanced, Pinners, Pinning
<1> QED
  BY <1>1, ReadInvariance, PTL

\* StaleFillsNeverPublish: once an Upsert or a removal has reported success, no fill
\* submitted before it puts the old value back into the cache.
THEOREM FillsAreFresh == Spec => []StaleFillsNeverPublish
<1>1. ASSUME ReadInv PROVE StaleFillsNeverPublish
  BY Zenon, <1>1 DEF ReadInv, Fresh, StaleFillsNeverPublish
<1> QED
  BY <1>1, ReadInvariance, PTL
=============================================================================
