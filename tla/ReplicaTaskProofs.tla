------------------------- MODULE ReplicaTaskProofs --------------------------
(***************************************************************************)
(* Three results about replica tasks on the RDMA transport.  The keys in   *)
(* the segment descriptor are live, for every set of contexts and buffers, *)
(* nested ones included, while tasks run.  The replicas of a task that has *)
(* ended are written in full, for every size of object, block and          *)
(* fragment: the slices of a request cover it, and each byte of the target *)
(* a task waits for is written or in a slice that is still posted.  And    *)
(* all variables keep their types, which rests on both.                    *)
(***************************************************************************)
EXTENDS ReplicaTask, SequenceTheorems, FiniteSetTheorems, WellFoundedInduction, TLAPS

RegTypes ==
    /\ nreg \in [Buffer -> Nat]
    /\ op \in [Buffer -> [pc : {"idle", "register", "unregister"},
                          left : SUBSET Context, failed : BOOLEAN]]
    /\ memory_region_map \in [Context -> [Buffer -> Nat]]
    /\ live \in [Context -> SUBSET (Buffer \X Nat)]
    /\ buffers \in Seq([buffer : Buffer, keys : [Context -> Buffer \X Nat]])

\* Every entry of a table stands for a key that the device accepts.
EntriesAreLive ==
    \A c \in Context, b \in Buffer :
        memory_region_map[c][b] # 0 => <<b, memory_region_map[c][b]>> \in live[c]

\* A published buffer is published once and carries the keys of its entries.
DescriptorMatches ==
    /\ \A i, j \in DOMAIN buffers : buffers[i].buffer = buffers[j].buffer => i = j
    /\ \A i \in DOMAIN buffers, c \in Context :
        /\ memory_region_map[c][buffers[i].buffer] # 0
        /\ buffers[i].keys[c] = <<buffers[i].buffer, memory_region_map[c][buffers[i].buffer]>>

\* A buffer being registered or unregistered is not published. The one has its
\* entries where it has been, the other where it has not yet been.
OperationsKeepEntries ==
    \A b \in Buffer :
        /\ op[b].pc # "idle" => b \notin Published
        /\ op[b].pc = "register" =>
            /\ nreg[b] # 0
            /\ ~op[b].failed => \A c \in Context \ op[b].left : memory_region_map[c][b] # 0
        /\ op[b].pc = "unregister" =>
            \A c \in op[b].left : memory_region_map[c][b] # 0

RegInv == RegTypes /\ EntriesAreLive /\ DescriptorMatches /\ OperationsKeepEntries

\* The lookup of a registered buffer by its own address finds that buffer and
\* nothing else, although the search looks at one neighbour only and buffers may
\* be nested (findMemoryRegionContaining).
LEMMA OwnRegionFound ==
    ASSUME RegTypes, NEW c \in Context, NEW b \in Buffer, memory_region_map[c][b] # 0
    PROVE  findMemoryRegionContaining(c, Addr[b]) = {b}
<1> DEFINE entries == {e \in Buffer : memory_region_map[c][e] # 0 /\ Addr[e] <= Addr[b]}
<1>1. \A e \in Buffer : Addr[e] \in Nat /\ Length[e] \in Nat /\ Length[e] > 0
    BY BufferAssumption
<1>2. b \in entries
    BY <1>1
<1>3. containsAddress(b, Addr[b])
    BY <1>1 DEF containsAddress
<1>4. \A e \in entries : (\A f \in entries : Addr[f] <= Addr[e]) => e = b
    BY <1>1, <1>2, BufferAssumption
<1>5. \A e \in entries : Addr[e] <= Addr[b]
    BY Zenon
<1> QED
    BY Zenon, <1>2, <1>3, <1>4, <1>5 DEF findMemoryRegionContaining

\* What is left of a sequence when one element is removed.
LEMMA EraseElements ==
    ASSUME NEW S, NEW s \in Seq(S), NEW i \in 1..Len(s)
    PROVE  /\ Erase(s, i) \in Seq(S)
           /\ Len(Erase(s, i)) = Len(s) - 1
           /\ \A j \in 1..(Len(s) - 1) :
                Erase(s, i)[j] = IF j < i THEN s[j] ELSE s[j + 1]
<1> DEFINE front == SubSeq(s, 1, i - 1)
           back == SubSeq(s, i + 1, Len(s))
<1>1. Len(s) \in Nat
    OBVIOUS
<1>2. /\ front \in Seq(S) /\ Len(front) = i - 1
      /\ \A j \in 1..(i - 1) : front[j] = s[j]
    BY <1>1
<1>3. /\ back \in Seq(S) /\ Len(back) = Len(s) - i
      /\ \A j \in 1..(Len(s) - i) : back[j] = s[i + j]
    BY <1>1
<1>4. Erase(s, i) = front \o back
    BY Zenon DEF Erase
<1> HIDE DEF front, back
<1>5. /\ front \o back \in Seq(S) /\ Len(front \o back) = Len(s) - 1
      /\ \A j \in 1..(Len(s) - 1) :
           (front \o back)[j] = IF j < i THEN front[j] ELSE back[j - (i - 1)]
    <2>1. front \o back \in Seq(S) /\ Len(front \o back) = Len(front) + Len(back)
        BY Zenon, <1>2, <1>3, ConcatProperties
    <2>2. \A j \in 1..(Len(front) + Len(back)) :
            (front \o back)[j] = IF j <= Len(front) THEN front[j] ELSE back[j - Len(front)]
        BY Zenon, <1>2, <1>3, ConcatProperties
    <2> QED
        BY <1>1, <1>2, <1>3, <2>1, <2>2
<1>6. \A j \in 1..(Len(s) - 1) : ~(j < i) => back[j - (i - 1)] = s[j + 1]
    <2> SUFFICES ASSUME NEW j \in 1..(Len(s) - 1), ~(j < i)
                 PROVE  back[j - (i - 1)] = s[j + 1]
        BY Zenon
    <2>1. j - (i - 1) \in 1..(Len(s) - i) /\ i + (j - (i - 1)) = j + 1
        BY <1>1
    <2> QED
        BY Zenon, <1>3, <2>1
<1>7. \A j \in 1..(Len(s) - 1) : j < i => front[j] = s[j]
    <2> SUFFICES ASSUME NEW j \in 1..(Len(s) - 1), j < i
                 PROVE  front[j] = s[j]
        BY Zenon
    <2>1. j \in 1..(i - 1)
        BY <1>1
    <2> QED
        BY Zenon, <1>2, <2>1
<1>8. \A j \in 1..(Len(s) - 1) :
        (front \o back)[j] = IF j < i THEN s[j] ELSE s[j + 1]
    <2> SUFFICES ASSUME NEW j \in 1..(Len(s) - 1)
                 PROVE  (front \o back)[j] = IF j < i THEN s[j] ELSE s[j + 1]
        BY Zenon
    <2>1. CASE j < i
        BY Zenon, <1>5, <1>7, <2>1
    <2>2. CASE ~(j < i)
        BY Zenon, <1>5, <1>6, <2>2
    <2> QED
        BY Zenon, <2>1, <2>2
<1> QED
    BY Zenon, <1>4, <1>5, <1>8

\* The entries of the descriptor name buffers.
LEMMA DescriptorTypes ==
    ASSUME RegTypes
    PROVE  /\ DOMAIN buffers = 1..Len(buffers)
           /\ \A i \in DOMAIN buffers : buffers[i].buffer \in Buffer
<1> DEFINE R == [buffer : Buffer, keys : [Context -> Buffer \X Nat]]
<1>1. buffers \in Seq(R)
    BY Zenon DEF RegTypes
<1>2. \A r \in R : r.buffer \in Buffer
    BY Zenon
<1> HIDE DEF R
<1>3. DOMAIN buffers = 1..Len(buffers) /\ \A i \in 1..Len(buffers) : buffers[i] \in R
    BY Zenon, <1>1, LenProperties, ElementOfSeq
<1> QED
    BY Zenon, <1>2, <1>3

\* At first nothing is registered.
LEMMA RegInvInit ==
    Init => RegInv
<1> SUFFICES ASSUME Init PROVE RegInv
    BY Zenon
<1>1. RegTypes
    BY DEF Init, RdmaInit, RegTypes, NoOp
<1>2. DOMAIN buffers = {}
    BY DEF Init, RdmaInit
<1> QED
    BY Zenon, <1>1, <1>2 DEF Init, RdmaInit, RegInv, EntriesAreLive, DescriptorMatches,
                      OperationsKeepEntries, NoOp

\* Steps that touch neither the tables nor the descriptor keep the invariant.
LEMMA RegInvStutter ==
    ASSUME RegInv, UNCHANGED regs
    PROVE  RegInv'
<1>1. RegTypes'
    BY Zenon DEF RegInv, RegTypes, regs
<1>2. EntriesAreLive' /\ DescriptorMatches'
    BY Zenon DEF RegInv, EntriesAreLive, DescriptorMatches, regs
<1>3. OperationsKeepEntries'
    BY Zenon DEF RegInv, OperationsKeepEntries, Published, regs
<1> QED
    BY Zenon, <1>1, <1>2, <1>3 DEF RegInv

\* registerLocalMemory begins: nothing is published yet.
LEMMA RegisterKeeps ==
    ASSUME RegInv, NEW b \in Buffer, Register(b)
    PROVE  RegInv'
<1> USE DEF RegInv
<1>1. RegTypes'
    BY DEF Register, RegTypes
<1>2. EntriesAreLive' /\ DescriptorMatches'
    BY Zenon DEF Register, EntriesAreLive, DescriptorMatches
<1>3. OperationsKeepEntries'
    <2> SUFFICES ASSUME NEW e \in Buffer
                 PROVE  OperationsKeepEntries!(e)'
        BY Zenon DEF OperationsKeepEntries
    <2>1. CASE e = b
        BY <2>1 DEF Register, RegTypes, Published
    <2>2. CASE e # b
        BY Zenon, <2>2 DEF Register, RegTypes, Published, OperationsKeepEntries
    <2> QED
        BY Zenon, <2>1, <2>2
<1> QED
    BY Zenon, <1>1, <1>2, <1>3

\* A registration adds an entry to the MR table of one device, or fails there.
LEMMA RegisterContextKeeps ==
    ASSUME RegInv, NEW b \in Buffer, RegisterContext(b)
    PROVE  RegInv'
<1> USE DEF RegInv
<1>1. b \notin Published /\ nreg[b] # 0 /\ nreg[b] \in Nat
    BY Zenon DEF RegisterContext, OperationsKeepEntries, RegTypes
<1>2. PICK c \in op[b].left :
        \/ /\ registerMemoryRegion(c, b)
           /\ op' = [op EXCEPT ![b].left = @ \ {c}]
        \/ /\ op' = [op EXCEPT ![b].left = @ \ {c}, ![b].failed = TRUE]
           /\ UNCHANGED <<memory_region_map, live>>
    BY Zenon DEF RegisterContext, Turn
<1>3. c \in Context
    BY Zenon, <1>2 DEF RegTypes
<1>4. UNCHANGED <<nreg, buffers>> /\ op[b].pc = "register"
    BY Zenon DEF RegisterContext
<1>5. CASE /\ registerMemoryRegion(c, b)
           /\ op' = [op EXCEPT ![b].left = @ \ {c}]
    <2>1. /\ memory_region_map' = [memory_region_map EXCEPT ![c][b] = nreg[b]]
          /\ live' = [live EXCEPT ![c] = @ \union {<<b, nreg[b]>>}]
        BY Zenon, <1>5 DEF registerMemoryRegion, registerMemoryRegionInternal
    <2>2. RegTypes'
        <3>1. op' \in [Buffer -> [pc : {"idle", "register", "unregister"},
                                  left : SUBSET Context, failed : BOOLEAN]]
            BY Zenon, <1>5 DEF RegTypes
        <3>2. memory_region_map' \in [Context -> [Buffer -> Nat]]
            BY Zenon, <1>1, <1>3, <2>1 DEF RegTypes
        <3>3. live' \in [Context -> SUBSET (Buffer \X Nat)]
            BY <1>1, <1>3, <2>1 DEF RegTypes
        <3> QED
            BY Zenon, <1>4, <3>1, <3>2, <3>3 DEF RegTypes
    <2>3. EntriesAreLive'
        BY Zenon, <1>1, <1>3, <2>1 DEF RegTypes, EntriesAreLive
    <2>4. DescriptorMatches'
        <3>1. \A i \in DOMAIN buffers : buffers[i].buffer # b
            BY Zenon, <1>1 DEF Published
        <3>2. \A d \in Context, e \in Buffer : e # b =>
                memory_region_map'[d][e] = memory_region_map[d][e]
            BY Zenon, <1>3, <2>1 DEF RegTypes
        <3>3. \A i \in DOMAIN buffers : buffers[i].buffer \in Buffer
            BY Zenon, DescriptorTypes
        <3> QED
            BY <1>4, <3>1, <3>2, <3>3 DEF DescriptorMatches
    <2>5. OperationsKeepEntries'
        BY <1>1, <1>3, <1>4, <1>5, <2>1 DEF RegTypes, OperationsKeepEntries, Published
    <2> QED
        BY Zenon, <2>2, <2>3, <2>4, <2>5
<1>6. CASE /\ op' = [op EXCEPT ![b].left = @ \ {c}, ![b].failed = TRUE]
           /\ UNCHANGED <<memory_region_map, live>>
    <2>1. RegTypes'
        <3>1. op' \in [Buffer -> [pc : {"idle", "register", "unregister"},
                                  left : SUBSET Context, failed : BOOLEAN]]
            <4>1. op \in [Buffer -> [pc : {"idle", "register", "unregister"},
                                     left : SUBSET Context, failed : BOOLEAN]]
                BY Zenon DEF RegTypes
            <4> HIDE DEF RegInv
            <4> QED
                BY Zenon, <1>6, <4>1
        <3> QED
            BY Zenon, <1>4, <1>6, <3>1 DEF RegTypes
    <2>2. EntriesAreLive' /\ DescriptorMatches'
        BY Zenon, <1>4, <1>6 DEF EntriesAreLive, DescriptorMatches
    <2>3. OperationsKeepEntries'
        <3>1. \A e \in Buffer : e # b => op'[e] = op[e]
            BY Zenon, <1>6 DEF RegTypes
        <3>2. op'[b].pc = "register" /\ op'[b].failed
            BY Zenon, <1>4, <1>6 DEF RegTypes
        <3>3. Published' = Published
            BY Zenon, <1>4 DEF Published
        <3> QED
            BY Zenon, <1>1, <1>4, <1>6, <3>1, <3>2, <3>3 DEF OperationsKeepEntries
    <2> QED
        BY Zenon, <2>1, <2>2, <2>3
<1> QED
    BY Zenon, <1>2, <1>5, <1>6

\* The keys that are collected when a buffer has been registered everywhere are
\* those of its own entries (lkey, rkey).
LEMMA OwnKey ==
    ASSUME RegTypes, NEW c \in Context, NEW b \in Buffer, memory_region_map[c][b] # 0
    PROVE  KeyOf(c, b) = <<b, memory_region_map[c][b]>>
BY OwnRegionFound DEF KeyOf

\* The registration publishes the key that each device has for the buffer.
LEMMA RegisterEndKeeps ==
    ASSUME RegInv, NEW b \in Buffer, RegisterEnd(b)
    PROVE  RegInv'
<1> USE DEF RegInv
<1> DEFINE R == [buffer : Buffer, keys : [Context -> Buffer \X Nat]]
<1>1. UNCHANGED <<nreg, memory_region_map, live>> /\ op' = [op EXCEPT ![b] = NoOp]
    BY Zenon DEF RegisterEnd
<1>2. op[b].pc = "register" /\ b \notin Published
    BY Zenon DEF RegisterEnd, OperationsKeepEntries
<1>3. op' \in [Buffer -> [pc : {"idle", "register", "unregister"},
                         left : SUBSET Context, failed : BOOLEAN]]
    BY Zenon, <1>1 DEF RegTypes, NoOp
<1>4. op'[b].pc = "idle" /\ \A e \in Buffer : e # b => op'[e] = op[e]
    BY Zenon, <1>1 DEF RegTypes, NoOp
<1>5. EntriesAreLive'
    BY Zenon, <1>1 DEF EntriesAreLive
<1>6. CASE UNCHANGED buffers
    <2>1. RegTypes'
        BY Zenon, <1>1, <1>3, <1>6 DEF RegTypes
    <2>2. DescriptorMatches'
        BY Zenon, <1>1, <1>6 DEF DescriptorMatches
    <2>3. Published' = Published
        BY Zenon, <1>6 DEF Published
    <2>4. OperationsKeepEntries'
        BY Zenon, <1>1, <1>4, <2>3 DEF OperationsKeepEntries
    <2> QED
        BY Zenon, <1>5, <2>1, <2>2, <2>4
<1>7. CASE /\ ~op[b].failed
           /\ buffers' = Append(buffers,
                [buffer |-> b, keys |-> [c \in Context |-> KeyOf(c, b)]])
    <2> DEFINE r == [buffer |-> b, keys |-> [c \in Context |-> KeyOf(c, b)]]
    <2>1. op[b].left = {}
        BY Zenon, <1>7 DEF RegisterEnd, OpDone
    <2>2. \A c \in Context : memory_region_map[c][b] # 0
        BY Zenon, <1>2, <1>7, <2>1 DEF OperationsKeepEntries
    <2>3. \A c \in Context : /\ r.keys[c] = <<b, memory_region_map[c][b]>>
                             /\ KeyOf(c, b) \in Buffer \X Nat
        BY <2>2, OwnKey DEF RegTypes
    <2>4. r \in R /\ r.buffer = b
        BY Zenon, <2>3
    <2>5. buffers \in Seq(R)
        BY Zenon DEF RegTypes
    <2> HIDE DEF r, R
    <2>6. /\ buffers' \in Seq(R)
          /\ DOMAIN buffers' = 1..(Len(buffers) + 1)
          /\ DOMAIN buffers = 1..Len(buffers) /\ Len(buffers) \in Nat
          /\ \A i \in 1..Len(buffers) : buffers'[i] = buffers[i]
          /\ buffers'[Len(buffers) + 1] = r
        <3>1. buffers' = Append(buffers, r)
            BY Zenon, <1>7 DEF r
        <3> QED
            BY <2>4, <2>5, <3>1, AppendProperties, LenProperties
    <2>7. \A i \in DOMAIN buffers' :
            \/ i \in DOMAIN buffers /\ buffers'[i] = buffers[i]
            \/ i \notin DOMAIN buffers /\ i = Len(buffers) + 1 /\ buffers'[i] = r
        BY <2>6
    <2>8. \A i \in DOMAIN buffers : buffers[i].buffer # b
        BY Zenon, <1>2 DEF Published
    <2>9. RegTypes'
        BY Zenon, <1>1, <1>3, <2>6 DEF RegTypes, R
    <2>10. DescriptorMatches'
        <3>1. \A i, j \in DOMAIN buffers' : buffers'[i].buffer = buffers'[j].buffer => i = j
            BY Zenon, <2>4, <2>7, <2>8 DEF DescriptorMatches
        <3>2. \A i \in DOMAIN buffers', c \in Context :
                /\ memory_region_map[c][buffers'[i].buffer] # 0
                /\ buffers'[i].keys[c]
                     = <<buffers'[i].buffer, memory_region_map[c][buffers'[i].buffer]>>
            BY <2>2, <2>3, <2>4, <2>7 DEF DescriptorMatches
        <3> QED
            BY Zenon, <1>1, <3>1, <3>2 DEF DescriptorMatches
    <2>11. \A e \in Buffer : e \in Published' => e \in Published \/ e = b
        BY Zenon, <2>4, <2>7 DEF Published
    <2>12. OperationsKeepEntries'
        BY Zenon, <1>1, <1>4, <2>11 DEF OperationsKeepEntries
    <2> QED
        BY Zenon, <1>5, <2>9, <2>10, <2>12
<1> QED
    BY Zenon, <1>6, <1>7 DEF RegisterEnd

\* unregisterLocalMemory withdraws the descriptor before any device forgets the key.
LEMMA UnregisterKeeps ==
    ASSUME RegInv, NEW b \in Buffer, Unregister(b)
    PROVE  RegInv'
<1> USE DEF RegInv
<1> DEFINE R == [buffer : Buffer, keys : [Context -> Buffer \X Nat]]
<1>1. /\ UNCHANGED <<nreg, memory_region_map, live>>
      /\ op' = [op EXCEPT ![b] = [pc |-> "unregister", left |-> Context, failed |-> FALSE]]
    BY Zenon DEF Unregister
<1>2. PICK i \in DOMAIN buffers : buffers[i].buffer = b /\ buffers' = Erase(buffers, i)
    BY Zenon DEF Unregister
<1>3. op' \in [Buffer -> [pc : {"idle", "register", "unregister"},
                         left : SUBSET Context, failed : BOOLEAN]]
    BY Zenon, <1>1 DEF RegTypes
<1>4. /\ op'[b].pc = "unregister" /\ op'[b].left = Context
      /\ \A e \in Buffer : e # b => op'[e] = op[e]
    BY Zenon, <1>1 DEF RegTypes
<1>5. buffers \in Seq(R) /\ Len(buffers) \in Nat /\ DOMAIN buffers = 1..Len(buffers)
    BY DescriptorTypes DEF RegTypes
<1> HIDE DEF R
<1>6. /\ buffers' \in Seq(R)
      /\ DOMAIN buffers' = 1..(Len(buffers) - 1)
      /\ \A j \in 1..(Len(buffers) - 1) :
           buffers'[j] = IF j < i THEN buffers[j] ELSE buffers[j + 1]
    <2>1. /\ buffers' \in Seq(R)
          /\ Len(buffers') = Len(buffers) - 1
          /\ \A j \in 1..(Len(buffers) - 1) :
               buffers'[j] = IF j < i THEN buffers[j] ELSE buffers[j + 1]
        BY Zenon, <1>2, <1>5, EraseElements
    <2> QED
        BY Zenon, <2>1, LenProperties
<1> DEFINE old(j) == IF j < i THEN j ELSE j + 1
<1>7. \A j \in DOMAIN buffers' :
        old(j) \in DOMAIN buffers /\ old(j) # i /\ buffers'[j] = buffers[old(j)]
    BY <1>2, <1>5, <1>6
<1>8. \A j, k \in DOMAIN buffers' : old(j) = old(k) => j = k
    BY <1>2, <1>5, <1>6
<1> HIDE DEF old
<1>9. RegTypes'
    BY Zenon, <1>1, <1>3, <1>6 DEF RegTypes, R
<1>10. EntriesAreLive'
    BY Zenon, <1>1 DEF EntriesAreLive
<1>11. DescriptorMatches'
    <2>1. \A j, k \in DOMAIN buffers' : buffers'[j].buffer = buffers'[k].buffer => j = k
        BY <1>7, <1>8 DEF DescriptorMatches
    <2>2. \A j \in DOMAIN buffers', c \in Context :
            /\ memory_region_map[c][buffers'[j].buffer] # 0
            /\ buffers'[j].keys[c]
                 = <<buffers'[j].buffer, memory_region_map[c][buffers'[j].buffer]>>
        BY <1>7 DEF DescriptorMatches
    <2> QED
        BY Zenon, <1>1, <2>1, <2>2 DEF DescriptorMatches
<1>12. Published' \subseteq Published \ {b}
    <2>1. \A j \in DOMAIN buffers' : /\ buffers'[j].buffer \in Published
                                     /\ buffers'[j].buffer # b
        BY <1>2, <1>7 DEF DescriptorMatches, Published
    <2> QED
        BY Zenon, <2>1 DEF Published
<1>13. OperationsKeepEntries'
    <2>1. \A c \in Context : memory_region_map[c][b] # 0
        BY Zenon, <1>2 DEF DescriptorMatches
    <2> QED
        BY Zenon, <1>1, <1>4, <1>12, <2>1 DEF OperationsKeepEntries
<1> QED
    BY Zenon, <1>9, <1>10, <1>11, <1>13

\* An unregistration removes the entry of its own buffer from one device.
LEMMA UnregisterContextKeeps ==
    ASSUME RegInv, NEW b \in Buffer, UnregisterContext(b)
    PROVE  RegInv'
<1> USE DEF RegInv
<1>1. PICK c \in op[b].left :
        \/ /\ unregisterMemoryRegion(c, b)
           /\ op' = [op EXCEPT ![b].left = @ \ {c}]
        \/ /\ op' = [op EXCEPT ![b].left = @ \ {c}, ![b].failed = TRUE]
           /\ UNCHANGED <<memory_region_map, live>>
    BY Zenon DEF UnregisterContext, Turn
<1>2. /\ UNCHANGED <<nreg, buffers>> /\ op[b].pc = "unregister" /\ b \notin Published
      /\ c \in Context /\ memory_region_map[c][b] # 0
    BY Zenon, <1>1 DEF UnregisterContext, OperationsKeepEntries, RegTypes
<1>3. /\ op' \in [Buffer -> [pc : {"idle", "register", "unregister"},
                            left : SUBSET Context, failed : BOOLEAN]]
      /\ op'[b].pc = "unregister" /\ op'[b].left = op[b].left \ {c}
      /\ \A e \in Buffer : e # b => op'[e] = op[e]
    <2>1. CASE op' = [op EXCEPT ![b].left = @ \ {c}]
        BY Zenon, <1>2, <2>1 DEF RegTypes
    <2>2. CASE op' = [op EXCEPT ![b].left = @ \ {c}, ![b].failed = TRUE]
        BY Zenon, <1>2, <2>2 DEF RegTypes
    <2> QED
        BY Zenon, <1>1, <2>1, <2>2
<1>4. Published' = Published
    BY Zenon, <1>2 DEF Published
<1>5. \A i \in DOMAIN buffers : buffers[i].buffer \in Buffer /\ buffers[i].buffer # b
    BY Zenon, <1>2, DescriptorTypes DEF Published
<1>6. CASE UNCHANGED <<memory_region_map, live>>
    <2>1. RegTypes' /\ EntriesAreLive' /\ DescriptorMatches'
        BY Zenon, <1>2, <1>3, <1>6 DEF RegTypes, EntriesAreLive, DescriptorMatches
    <2>2. OperationsKeepEntries'
        BY Zenon, <1>2, <1>3, <1>4, <1>6 DEF OperationsKeepEntries
    <2> QED
        BY Zenon, <2>1, <2>2
<1>7. CASE unregisterMemoryRegion(c, b)
    <2>1. /\ live' = [live EXCEPT ![c] = @ \ {<<b, memory_region_map[c][b]>>}]
          /\ memory_region_map' = [memory_region_map EXCEPT ![c] =
                [e \in Buffer |-> IF e = b THEN 0 ELSE @[e]]]
        <3>1. findMemoryRegionContaining(c, Addr[b]) = {b}
            BY Zenon, <1>2, OwnRegionFound
        <3>2. {<<e, memory_region_map[c][e]>> : e \in {b}} = {<<b, memory_region_map[c][b]>>}
            BY Zenon
        <3> QED
            BY Zenon, <1>7, <3>1, <3>2 DEF unregisterMemoryRegion
    <2>2. /\ memory_region_map' \in [Context -> [Buffer -> Nat]]
          /\ memory_region_map'[c][b] = 0
          /\ \A d \in Context, e \in Buffer :
               d # c \/ e # b => memory_region_map'[d][e] = memory_region_map[d][e]
        BY Zenon, <1>2, <2>1 DEF RegTypes
    <2>3. /\ live' \in [Context -> SUBSET (Buffer \X Nat)]
          /\ \A d \in Context, e \in Buffer, n \in Nat :
               d # c \/ e # b => (<<e, n>> \in live'[d] <=> <<e, n>> \in live[d])
        BY Zenon, <1>2, <2>1 DEF RegTypes
    <2>4. RegTypes'
        BY Zenon, <1>2, <1>3, <2>2, <2>3 DEF RegTypes
    <2>5. EntriesAreLive'
        <3> SUFFICES ASSUME NEW d \in Context, NEW e \in Buffer,
                            memory_region_map'[d][e] # 0
                     PROVE  <<e, memory_region_map'[d][e]>> \in live'[d]
            BY Zenon DEF EntriesAreLive
        <3>1. /\ d # c \/ e # b
              /\ memory_region_map'[d][e] = memory_region_map[d][e]
              /\ memory_region_map[d][e] \in Nat
            BY Zenon, <2>2 DEF RegTypes
        <3>2. <<e, memory_region_map[d][e]>> \in live[d]
            BY Zenon, <3>1 DEF EntriesAreLive
        <3> QED
            BY Zenon, <2>3, <3>1, <3>2
    <2>6. DescriptorMatches'
        <3>1. \A d \in Context, e \in Buffer :
                e # b => memory_region_map'[d][e] = memory_region_map[d][e]
            BY Zenon, <2>2
        <3>2. buffers' = buffers
            BY Zenon, <1>2
        <3> QED
            BY <1>5, <3>1, <3>2 DEF DescriptorMatches
    <2>7. OperationsKeepEntries'
        <3> SUFFICES ASSUME NEW e \in Buffer PROVE OperationsKeepEntries!(e)'
            BY Zenon DEF OperationsKeepEntries
        <3>1. CASE e = b
            BY <1>2, <1>3, <1>4, <2>2, <3>1 DEF OperationsKeepEntries, RegTypes
        <3>2. CASE e # b
            BY <1>2, <1>3, <1>4, <2>2, <3>2 DEF OperationsKeepEntries, RegTypes
        <3> QED
            BY Zenon, <3>1, <3>2
    <2> QED
        BY Zenon, <2>4, <2>5, <2>6, <2>7
<1> QED
    BY Zenon, <1>1, <1>6, <1>7

\* The unregistration ends.
LEMMA UnregisterEndKeeps ==
    ASSUME RegInv, NEW b \in Buffer, UnregisterEnd(b)
    PROVE  RegInv'
<1> USE DEF RegInv
<1>1. /\ UNCHANGED <<nreg, memory_region_map, live, buffers>>
      /\ op' = [op EXCEPT ![b] = NoOp]
    BY Zenon DEF UnregisterEnd
<1>2. /\ op' \in [Buffer -> [pc : {"idle", "register", "unregister"},
                            left : SUBSET Context, failed : BOOLEAN]]
      /\ op'[b].pc = "idle" /\ \A e \in Buffer : e # b => op'[e] = op[e]
    BY Zenon, <1>1 DEF RegTypes, NoOp
<1>3. RegTypes' /\ EntriesAreLive' /\ DescriptorMatches'
    BY Zenon, <1>1, <1>2 DEF RegTypes, EntriesAreLive, DescriptorMatches
<1>4. Published' = Published
    BY Zenon, <1>1 DEF Published
<1>5. OperationsKeepEntries'
    BY Zenon, <1>1, <1>2, <1>4 DEF OperationsKeepEntries
<1> QED
    BY Zenon, <1>3, <1>5

\* The steps of tasks and of transfers leave registrations alone.
LEMMA TasksLeaveRegistrations ==
    ASSUME NEW t \in Task, PollAndDispatchTasks(t) \/ TaskStep(t) \/ SliceEnds(t)
    PROVE  UNCHANGED regs
<1>1. CASE PollAndDispatchTasks(t)
    BY Zenon, <1>1 DEF PollAndDispatchTasks, rdmaVars
<1>2. CASE TaskStep(t)
    <2>1. CASE StartRefused(t) \/ StartLost(t) \/ StartOk(t) \/ CheckSource(t)
        BY Zenon, <2>1 DEF StartRefused, StartLost, StartOk, CheckSource, rdmaVars
    <2>2. CASE TransferWrite(t)
        BY Zenon, <2>2 DEF TransferWrite, submitTransferTask
    <2>3. CASE Wait(t) \/ End(t) \/ Revoke(t) \/ Retry(t) \/ MarkTaskToComplete(t)
        BY Zenon, <2>3 DEF Wait, End, Revoke, Retry, MarkTaskToComplete, rdmaVars
    <2> QED
        BY Zenon, <1>2, <2>1, <2>2, <2>3 DEF TaskStep
<1>3. CASE SliceEnds(t)
    BY Zenon, <1>3 DEF SliceEnds, SliceOk, SliceFails
<1> QED
    BY Zenon, <1>1, <1>2, <1>3

\* Every step keeps the invariant.
LEMMA RegInvStep ==
    RegInv /\ [Next]_vars => RegInv'
<1> SUFFICES ASSUME RegInv, [Next]_vars PROVE RegInv'
    BY Zenon
<1>1. CASE \E t \in Task : PollAndDispatchTasks(t) \/ TaskStep(t) \/ SliceEnds(t)
    BY Zenon, <1>1, TasksLeaveRegistrations, RegInvStutter
<1>2. CASE Work
    BY Zenon, <1>2, RegInvStutter DEF Work, rdmaVars
<1>3. CASE RegistrationStep
    <2>1. CASE Deactivate
        BY Zenon, <2>1, RegInvStutter DEF Deactivate
    <2>2. ASSUME NEW b \in Buffer,
                 \/ Register(b) \/ RegisterContext(b) \/ RegisterEnd(b)
                 \/ Unregister(b) \/ UnregisterContext(b) \/ UnregisterEnd(b)
          PROVE  RegInv'
        BY Zenon, <2>2, RegisterKeeps, RegisterContextKeeps, RegisterEndKeeps,
           UnregisterKeeps, UnregisterContextKeeps, UnregisterEndKeeps
    <2> QED
        BY Zenon, <1>3, <2>1, <2>2 DEF RegistrationStep
<1>4. CASE UNCHANGED vars
    BY Zenon, <1>4, RegInvStutter DEF vars, rdmaVars
<1> QED
    BY Zenon, <1>1, <1>2, <1>3, <1>4 DEF Next

\* Whatever devices and buffers there are, nested ones included, and whichever
\* registrations fail half-way or run at the same time as tasks, every key in
\* the segment descriptor is accepted by its device and belongs to the buffer it
\* is published for (registerLocalMemoryInternal, unregisterLocalMemoryInternal).
THEOREM DescriptorKeysAreLive ==
    Spec => []PublishedKeysAreLive
<1>1. RegInv => PublishedKeysAreLive
    <2> SUFFICES ASSUME RegInv, NEW i \in DOMAIN buffers, NEW c \in Context
                 PROVE  PublishedKeysAreLive!(i, c)
        BY Zenon DEF PublishedKeysAreLive
    <2>1. buffers[i].buffer \in Buffer
        BY Zenon, DescriptorTypes DEF RegInv
    <2>2. /\ memory_region_map[c][buffers[i].buffer] # 0
          /\ buffers[i].keys[c]
               = <<buffers[i].buffer, memory_region_map[c][buffers[i].buffer]>>
        BY Zenon DEF RegInv, DescriptorMatches
    <2>3. <<buffers[i].buffer, memory_region_map[c][buffers[i].buffer]>> \in live[c]
        BY Zenon, <2>1, <2>2 DEF RegInv, EntriesAreLive
    <2> QED
        BY <2>2, <2>3
<1> QED
    BY <1>1, RegInvInit, RegInvStep, PTL DEF Spec

-----------------------------------------------------------------------------
(* The slices of a request. *)

\* Every nonempty set of naturals has a least element.
LEMMA LeastNatural ==
    ASSUME NEW T \in SUBSET Nat, T # {}
    PROVE  \E x \in T : \A y \in T : x <= y
<1>1. PICK x \in T : \A y \in T : ~(<<y, x>> \in OpToRel(<, Nat))
    BY NatLessThanWellFounded, WFMin, Zenon
<1>2. \A y \in T : ~(y < x)
    BY Zenon, <1>1 DEF OpToRel
<1> QED
    BY <1>2

\* The bytes of a slice.
SliceBytes(s) == s.offset .. (s.offset + s.length - 1)

\* The slices of a request of n bytes lie in it, and every byte is in one: where
\* the loop stops early, the last slice has taken the remainder.
LEMMA SlicesCover ==
    ASSUME NEW n \in Nat
    PROVE  /\ \A s \in Slices(n) : /\ s.offset \in Nat /\ s.length \in Nat
                                   /\ SliceBytes(s) \subseteq 0..(n - 1)
           /\ \A x \in 0..(n - 1) : \E s \in Slices(n) : x \in SliceBytes(s)
           /\ IsFiniteSet(Slices(n))
<1> DEFINE Starts == {k * BlockSize : k \in 0..n} \cap 0..(n - 1)
           Kept == {o \in Starts : \A e \in Starts : e < o => ~MergesFinal(n, e)}
           piece(o) == [offset |-> o,
                        length |-> IF MergesFinal(n, o) THEN n - o ELSE BlockSize]
<1>1. Slices(n) = {piece(o) : o \in Kept}
    BY Zenon DEF Slices
<1>2. \A o \in Kept : o \in Starts /\ \A e \in Starts : e < o => ~MergesFinal(n, e)
    BY Zenon
<1>3. \A o \in Starts : o \in 0..(n - 1)
    BY Zenon
<1>4. \A o : /\ piece(o).offset = o
             /\ MergesFinal(n, o) => piece(o).length = n - o
             /\ ~MergesFinal(n, o) => piece(o).length = BlockSize
    BY Zenon
<1>5. \A o \in Starts : (\A e \in Starts : e < o => ~MergesFinal(n, e)) => o \in Kept
    BY Zenon
<1>6. \A k \in 0..n : k * BlockSize \in 0..(n - 1) => k * BlockSize \in Starts
    BY Zenon
<1> HIDE DEF Starts, Kept, piece
<1>7. ASSUME NEW o \in Kept
      PROVE  /\ piece(o).offset \in Nat /\ piece(o).length \in Nat
             /\ SliceBytes(piece(o)) \subseteq 0..(n - 1)
    <2>1. o \in 0..(n - 1)
        BY Zenon, <1>2, <1>3
    <2>2. CASE MergesFinal(n, o)
        <3>1. piece(o).offset = o /\ piece(o).length = n - o
            BY Zenon, <1>4, <2>2
        <3>2. SliceBytes(piece(o)) = o..(o + (n - o) - 1)
            BY Zenon, <3>1 DEF SliceBytes
        <3> QED
            BY <2>1, <3>1, <3>2
    <2>3. CASE ~MergesFinal(n, o)
        <3>1. piece(o).offset = o /\ piece(o).length = BlockSize
            BY Zenon, <1>4, <2>3
        <3>2. SliceBytes(piece(o)) = o..(o + BlockSize - 1)
            BY Zenon, <3>1 DEF SliceBytes
        <3> QED
            BY <2>1, <2>3, <3>1, <3>2, SliceAssumption DEF MergesFinal
    <2> QED
        BY Zenon, <2>2, <2>3
<1>8. ASSUME NEW x \in 0..(n - 1)
      PROVE  \E o \in Kept : x \in SliceBytes(piece(o))
    <2>1. PICK o \in Starts : o <= x /\ x < o + BlockSize
        <3>1. PICK k \in Nat : k = x \div BlockSize
            BY SliceAssumption
        <3>2. k \in 0..x
            BY <3>1, SliceAssumption
        <3>3. BlockSize * k <= x
            BY <3>1, SliceAssumption
        <3>4. x < BlockSize * k + BlockSize
            BY <3>1, SliceAssumption
        <3>5. k * BlockSize = BlockSize * k /\ k * BlockSize \in Nat
            BY SliceAssumption
        <3>6. PICK p \in Nat : p = k * BlockSize
            BY Zenon, <3>5
        <3>7. k \in 0..n /\ p \in 0..(n - 1) /\ p <= x /\ x < p + BlockSize
            BY <3>2, <3>3, <3>4, <3>5, <3>6, SliceAssumption
        <3> QED
            BY Zenon, <1>6, <3>6, <3>7
    <2>2. o \in 0..(n - 1)
        BY Zenon, <1>3
    <2>3. CASE o \in Kept
        <3>1. PICK l \in Nat : l = piece(o).length /\ x < o + l
            BY <1>4, <2>1, <2>2, SliceAssumption
        <3>2. x \in o..(o + l - 1)
            BY <2>1, <2>2, <3>1
        <3> QED
            BY Zenon, <1>4, <2>3, <3>1, <3>2 DEF SliceBytes
    <2>4. CASE o \notin Kept
        <3> DEFINE Ends == {e \in Starts : e < o /\ MergesFinal(n, e)}
        <3>1. Ends # {}
            BY Zenon, <1>5, <2>4
        <3>2. Ends \in SUBSET Nat
            BY <1>3
        <3>3. PICK e \in Ends : \A f \in Ends : e <= f
            BY Zenon, <3>1, <3>2, LeastNatural
        <3>4. e \in Starts /\ e < o /\ MergesFinal(n, e) /\ e \in 0..(n - 1)
            BY Zenon, <1>3
        <3>5. ASSUME NEW f \in Starts, f < e PROVE ~MergesFinal(n, f)
            <4>1. f \in 0..(n - 1) /\ f < o /\ ~(e <= f)
                BY <1>3, <2>2, <3>4, <3>5
            <4> QED
                BY Zenon, <3>3, <3>5, <4>1
        <3>6. e \in Kept
            BY Zenon, <1>5, <3>4, <3>5
        <3>7. piece(e).offset = e /\ piece(e).length = n - e
            BY Zenon, <1>4, <3>4
        <3>8. x \in e..(e + (n - e) - 1)
            BY <2>1, <2>2, <3>4
        <3> QED
            BY Zenon, <3>6, <3>7, <3>8 DEF SliceBytes
    <2> QED
        BY Zenon, <2>3, <2>4
<1>9. IsFiniteSet(Slices(n))
    <2> DEFINE f == [o \in Kept |-> piece(o)]
    <2>1. Kept \subseteq 0..(n - 1)
        BY Zenon, <1>2, <1>3
    <2>2. IsFiniteSet(Kept)
        <3>1. IsFiniteSet(0..(n - 1))
            BY FS_Interval
        <3> QED
            BY Zenon, <2>1, <3>1, FS_Subset
    <2>3. f \in Surjection(Kept, Slices(n))
        BY Zenon, <1>1 DEF Surjection
    <2> QED
        BY Zenon, <2>2, <2>3, FS_Surjection
<1> QED
    BY Zenon, <1>1, <1>7, <1>8, <1>9

-----------------------------------------------------------------------------
(* The bytes that tasks write. *)

\* The shape of a job.
IsRecord(j) ==
    j = [f \in {"slices", "slice_count", "success", "failed", "error"} |-> j[f]]

\* Slices are posted or have ended, and stay within the object.
IsJob(j, size) ==
    /\ IsRecord(j)
    /\ j.slice_count \in Nat /\ j.success \in Nat /\ j.failed \in Nat
    /\ IsFiniteSet(j.slices)
    /\ j.success + j.failed + Cardinality(j.slices) <= j.slice_count
    /\ \A s \in j.slices : SliceBytes(s) \subseteq 0..(size - 1)

\* The targets above n are written.
WrittenAbove(n, w, size) ==
    \A i \in 1..Len(w) : i > n => w[i] = 0..(size - 1)

\* Unless a slice has failed, every byte is written or in a slice that is posted.
PendingCover(j, bytes, size) ==
    j.failed = 0 =>
        \A x \in 0..(size - 1) : x \in bytes \/ \E s \in j.slices : x \in SliceBytes(s)

\* A task at l with result r, n targets left, replicas k, written bytes w and job j.
TaskOK(size, l, r, n, k, w, j) ==
    /\ size \in Nat /\ w \in Seq(SUBSET (0..(size - 1))) /\ n \in 0..Len(w)
    /\ IsJob(j, size)
    /\ l \in {"source", "skip", "write", "wait"} \/ k = "ended" =>
        WrittenAbove(n, w, size) /\ r # "NO_AVAILABLE_HANDLE"
    /\ l = "skip" \/ k = "ended" => n = 0
    /\ k = "ended" => l \in {"revoke", "report", "done"}
    /\ l = "wait" => n # 0 /\ PendingCover(j, w[n], size)

\* A task is in the queue once, and waits there.
QueueOK ==
    /\ queue \in Seq(Task)
    /\ \A i \in 1..Len(queue) : pc[queue[i]] = "queued"
    /\ \A i, j \in 1..Len(queue) : queue[i] = queue[j] => i = j

IsTaskFunction(f) == f = [t \in Task |-> f[t]]

\* The inductive invariant of EndedIsWritten.
WriteInv ==
    /\ object \in [Task -> Object] /\ QueueOK
    /\ IsTaskFunction(pc) /\ IsTaskFunction(result) /\ IsTaskFunction(target)
    /\ IsTaskFunction(replica) /\ IsTaskFunction(written) /\ IsTaskFunction(job)
    /\ \A t \in Task : TaskOK(object[t].size, pc[t], result[t], target[t], replica[t],
                              written[t], job[t])

\* g is f with v at t.
At(f, g, t, v) ==
    /\ IsTaskFunction(g) /\ g[t] = v
    /\ \A u \in Task : u # t => g[u] = f[u]

\* An assignment to one element is At.
LEMMA AtAssigned ==
    ASSUME NEW f, NEW g, NEW t \in Task, NEW v, IsTaskFunction(f), g = [f EXCEPT ![t] = v]
    PROVE  At(f, g, t, v)
BY DEF IsTaskFunction, At

\* So is a variable that keeps its value.
LEMMA AtUnchanged ==
    ASSUME NEW f, NEW g, NEW t \in Task, IsTaskFunction(f), g = f
    PROVE  At(f, g, t, f[t])
BY Zenon DEF At

\* A step of one task.
LEMMA OneTask ==
    ASSUME WriteInv, NEW t \in Task, object' = object, QueueOK',
           NEW l, NEW r, NEW n, NEW k, NEW w, NEW j,
           At(pc, pc', t, l), At(result, result', t, r), At(target, target', t, n),
           At(replica, replica', t, k), At(written, written', t, w), At(job, job', t, j),
           TaskOK(object[t].size, l, r, n, k, w, j)
    PROVE  WriteInv'
<1>1. ASSUME NEW u \in Task
      PROVE  TaskOK(object'[u].size, pc'[u], result'[u], target'[u], replica'[u],
                    written'[u], job'[u])
    <2>1. CASE u = t
        BY Zenon, <2>1 DEF At
    <2>2. CASE u # t
        <3>1. /\ pc'[u] = pc[u] /\ result'[u] = result[u] /\ target'[u] = target[u]
              /\ replica'[u] = replica[u] /\ written'[u] = written[u] /\ job'[u] = job[u]
            BY Zenon, <2>2 DEF At
        <3>2. TaskOK(object[u].size, pc[u], result[u], target[u], replica[u], written[u], job[u])
            BY Zenon DEF WriteInv
        <3> QED
            BY Zenon, <3>1, <3>2
    <2> QED
        BY Zenon, <2>1, <2>2
<1>2. object' \in [Task -> Object]
    BY Zenon DEF WriteInv
<1> QED
    BY Zenon, <1>1, <1>2 DEF WriteInv, At

\* The queue, when a task that is not in it moves, ...
LEMMA QueueStays ==
    ASSUME WriteInv, NEW t \in Task, NEW l, pc[t] # "queued" \/ l = "queued",
           At(pc, pc', t, l), queue' = queue
    PROVE  QueueOK'
<1>1. QueueOK
    BY Zenon DEF WriteInv
<1>2. \A i \in 1..Len(queue) : queue[i] \in Task /\ pc[queue[i]] = "queued"
    BY Zenon, <1>1, ElementOfSeq DEF QueueOK
<1>3. \A i \in 1..Len(queue) : pc'[queue[i]] = "queued"
    BY Zenon, <1>2 DEF At
<1> QED
    BY Zenon, <1>1, <1>3 DEF QueueOK

\* ... when it is put there, ...
LEMMA QueueAppends ==
    ASSUME WriteInv, NEW t \in Task, pc[t] # "queued", At(pc, pc', t, "queued"),
           queue' = Append(queue, t)
    PROVE  QueueOK'
<1>1. QueueOK
    BY Zenon DEF WriteInv
<1>2. /\ queue \in Seq(Task) /\ Len(queue) \in Nat
      /\ \A i \in 1..Len(queue) : queue[i] \in Task /\ pc[queue[i]] = "queued"
    BY Zenon, <1>1, ElementOfSeq, LenProperties DEF QueueOK
<1>3. /\ queue' \in Seq(Task) /\ Len(queue') = Len(queue) + 1
      /\ \A i \in 1..Len(queue) : queue'[i] = queue[i]
      /\ queue'[Len(queue) + 1] = t
    BY <1>2
<1>4. \A i \in 1..Len(queue') : i \in 1..Len(queue) \/ i = Len(queue) + 1
    BY <1>2, <1>3
<1>5. \A i \in 1..Len(queue') : pc'[queue'[i]] = "queued"
    <2>1. \A u \in Task : pc[u] = "queued" \/ u = t => pc'[u] = "queued"
        BY Zenon DEF At
    <2>2. \A i \in 1..Len(queue) : pc'[queue'[i]] = "queued"
        BY Zenon, <1>2, <1>3, <2>1
    <2>3. pc'[queue'[Len(queue) + 1]] = "queued"
        BY Zenon, <1>3, <2>1
    <2> QED
        BY Zenon, <1>4, <2>2, <2>3
<1>6. \A i \in 1..Len(queue) : queue[i] # t
    BY Zenon, <1>2
<1>7. ASSUME NEW i \in 1..Len(queue'), NEW m \in 1..Len(queue'), queue'[i] = queue'[m]
      PROVE  i = m
    <2>1. CASE i \in 1..Len(queue) /\ m \in 1..Len(queue)
        BY Zenon, <1>1, <1>3, <1>7, <2>1 DEF QueueOK
    <2>2. CASE i = Len(queue) + 1 \/ m = Len(queue) + 1
        BY Zenon, <1>3, <1>4, <1>6, <1>7, <2>2
    <2> QED
        BY Zenon, <1>4, <2>1, <2>2
<1> QED
    BY Zenon, <1>3, <1>5, <1>7 DEF QueueOK

\* ... and when a worker takes the first.
LEMMA QueueTakes ==
    ASSUME WriteInv, queue # <<>>, At(pc, pc', Head(queue), "start"), queue' = Tail(queue)
    PROVE  Head(queue) \in Task /\ pc[Head(queue)] = "queued" /\ QueueOK'
<1>1. QueueOK
    BY Zenon DEF WriteInv
<1>2. /\ queue \in Seq(Task) /\ Len(queue) \in Nat /\ Len(queue) # 0
      /\ Head(queue) = queue[1] /\ queue' \in Seq(Task) /\ Len(queue') = Len(queue) - 1
      /\ \A i \in 1..(Len(queue) - 1) : queue'[i] = queue[i + 1]
    <2>1. queue \in Seq(Task)
        BY Zenon, <1>1 DEF QueueOK
    <2> QED
        BY <2>1
<1>3. \A i \in 1..Len(queue') : i + 1 \in 1..Len(queue) /\ i + 1 # 1 /\ i \in 1..(Len(queue) - 1)
    BY <1>2
<1>4. 1 \in 1..Len(queue)
    BY <1>2
<1>5. \A i \in 1..Len(queue) : queue[i] \in Task /\ pc[queue[i]] = "queued"
    BY Zenon, <1>1, <1>2, ElementOfSeq DEF QueueOK
<1>6. \A i \in 1..Len(queue') : queue'[i] = queue[i + 1] /\ queue[i + 1] # Head(queue)
    BY Zenon, <1>1, <1>2, <1>3, <1>4 DEF QueueOK
<1>7. \A i \in 1..Len(queue') : pc'[queue'[i]] = "queued"
    <2>1. \A u \in Task : pc[u] = "queued" /\ u # Head(queue) => pc'[u] = "queued"
        BY Zenon DEF At
    <2>2. \A i \in 1..Len(queue') : queue[i + 1] \in Task /\ pc[queue[i + 1]] = "queued"
        BY Zenon, <1>3, <1>5
    <2> QED
        BY Zenon, <1>6, <2>1, <2>2
<1>8. ASSUME NEW i \in 1..Len(queue'), NEW m \in 1..Len(queue'), queue'[i] = queue'[m]
      PROVE  i = m
    <2>1. i + 1 = m + 1
        BY Zenon, <1>1, <1>3, <1>6, <1>8 DEF QueueOK
    <2>2. i \in Int /\ m \in Int
        BY <1>2
    <2> QED
        BY <2>1, <2>2
<1> QED
    BY Zenon, <1>2, <1>4, <1>5, <1>7, <1>8 DEF QueueOK

Posting(S, pick) == {Posted(s, pick[s]) : s \in S}

\* Slices that are given a device and a key stay what they are.
LEMMA PostedSlices ==
    ASSUME NEW n \in Nat, NEW S \in SUBSET Slices(n), NEW pick
    PROVE  /\ IsFiniteSet(S) /\ IsFiniteSet(Posting(S, pick)) /\ Cardinality(S) \in Nat
           /\ Cardinality(Posting(S, pick)) <= Cardinality(S)
           /\ \A p \in Posting(S, pick) : SliceBytes(p) \subseteq 0..(n - 1)
           /\ \A s \in S : \E p \in Posting(S, pick) : SliceBytes(p) = SliceBytes(s)
<1>1. IsFiniteSet(S) /\ Cardinality(S) \in Nat
    BY Zenon, SlicesCover, FS_Subset, FS_CardinalityType
<1>2. IsFiniteSet(Posting(S, pick)) /\ Cardinality(Posting(S, pick)) <= Cardinality(S)
    <2> DEFINE f == [s \in S |-> Posted(s, pick[s])]
    <2>1. f \in Surjection(S, Posting(S, pick))
        BY Zenon DEF Surjection, Posting
    <2> QED
        BY Zenon, <1>1, <2>1, FS_Surjection
<1>3. \A s, d : SliceBytes(Posted(s, d)) = SliceBytes(s)
    BY Zenon DEF SliceBytes, Posted
<1>4. \A s \in S : SliceBytes(s) \subseteq 0..(n - 1)
    BY Zenon, SlicesCover
<1>5. \A p \in Posting(S, pick) : \E s \in S : SliceBytes(p) = SliceBytes(s)
    <2> TAKE p \in Posting(S, pick)
    <2>1. PICK s \in S : p = Posted(s, pick[s])
        BY Zenon DEF Posting
    <2> QED
        BY Zenon, <1>3, <2>1
<1>6. \A s \in S : \E p \in Posting(S, pick) : SliceBytes(p) = SliceBytes(s)
    BY Zenon, <1>3 DEF Posting
<1> QED
    BY Zenon, <1>1, <1>2, <1>4, <1>5, <1>6

\* A new job counts count slices, of which P are posted.
LEMMA NewJobOK ==
    ASSUME NEW n \in Nat, NEW P, IsFiniteSet(P), NEW count \in Nat, Cardinality(P) <= count,
           \A p \in P : SliceBytes(p) \subseteq 0..(n - 1),
           NEW j, IsRecord(j), j.slices = P, j.slice_count = count, j.success = 0, j.failed = 0
    PROVE  IsJob(j, n)
<1>1. Cardinality(P) \in Nat
    BY Zenon, FS_CardinalityType
<1>2. 0 + 0 + Cardinality(P) <= count /\ 0 \in Nat
    BY <1>1
<1> QED
    BY Zenon, <1>2 DEF IsJob

\* The fields of NoJob, changed as a submission does.
Fresh(j, P, count) ==
    \/ j = [NoJob EXCEPT !.slices = P, !.slice_count = count, !.error = TRUE]
    \/ j = [NoJob EXCEPT !.slices = P, !.slice_count = count]
    \/ j = [NoJob EXCEPT !.error = TRUE] /\ P = {} /\ count = 0

\* The fields of a job that has just been made.
LEMMA NoJobFields ==
    ASSUME NEW P, NEW count, NEW j, Fresh(j, P, count)
    PROVE  /\ IsRecord(j) /\ j.slices = P /\ j.slice_count = count
           /\ j.success = 0 /\ j.failed = 0
<1>1. PICK z : z = NoJob
    BY Zenon
<1>2. /\ z = [f \in {"slices", "slice_count", "success", "failed", "error"} |-> z[f]]
      /\ z.slices = {} /\ z.slice_count = 0 /\ z.success = 0 /\ z.failed = 0
    BY Zenon, <1>1 DEF NoJob
<1>3. CASE j = [z EXCEPT !.slices = P, !.slice_count = count, !.error = TRUE]
    <2>1. IsRecord(j)
        BY Zenon, <1>2, <1>3 DEF IsRecord
    <2>2. j.slices = P /\ j.slice_count = count /\ j.success = 0 /\ j.failed = 0
        BY <1>2, <1>3
    <2> QED
        BY Zenon, <2>1, <2>2
<1>4. CASE j = [z EXCEPT !.slices = P, !.slice_count = count]
    <2>1. IsRecord(j)
        BY Zenon, <1>2, <1>4 DEF IsRecord
    <2>2. j.slices = P /\ j.slice_count = count /\ j.success = 0 /\ j.failed = 0
        BY <1>2, <1>4
    <2> QED
        BY Zenon, <2>1, <2>2
<1>5. CASE j = [z EXCEPT !.error = TRUE] /\ P = {} /\ count = 0
    <2>1. IsRecord(j)
        BY Zenon, <1>2, <1>5 DEF IsRecord
    <2>2. j.slices = z.slices /\ j.slice_count = z.slice_count
          /\ j.success = z.success /\ j.failed = z.failed
        BY <1>2, <1>5
    <2> QED
        BY Zenon, <1>2, <1>5, <2>1, <2>2
<1> QED
    BY Zenon, <1>1, <1>3, <1>4, <1>5 DEF Fresh

\* The job that a submission makes: its slices lie in the request and are not more
\* than it counts, and unless the submission has failed they cover the request.
SubmittedJob(j, n) ==
    /\ IsJob(j, n)
    /\ j.error \/ \A x \in 0..(n - 1) : \E s \in j.slices : x \in SliceBytes(s)

\* Posting slices of the request makes a submitted job.
LEMMA PostingMakesJob ==
    ASSUME NEW n \in Nat, NEW B \in SUBSET Slices(n), NEW S \in SUBSET B, NEW pick, NEW P,
           P = Posting(S, pick), NEW j,
           \/ j = [NoJob EXCEPT !.slices = P, !.slice_count = Cardinality(B), !.error = TRUE]
           \/ /\ j = [NoJob EXCEPT !.slices = P, !.slice_count = Cardinality(B)]
              /\ S = Slices(n)
    PROVE  SubmittedJob(j, n)
<1>1. PICK count : count = Cardinality(B)
    BY Zenon
<1>2. S \in SUBSET Slices(n)
    BY Zenon
<1>3. /\ IsFiniteSet(P) /\ Cardinality(S) \in Nat /\ Cardinality(P) <= Cardinality(S)
      /\ \A p \in P : SliceBytes(p) \subseteq 0..(n - 1)
      /\ \A s \in S : \E p \in P : SliceBytes(p) = SliceBytes(s)
    <2>1. /\ IsFiniteSet(Posting(S, pick)) /\ Cardinality(S) \in Nat
          /\ Cardinality(Posting(S, pick)) <= Cardinality(S)
          /\ \A p \in Posting(S, pick) : SliceBytes(p) \subseteq 0..(n - 1)
          /\ \A s \in S : \E p \in Posting(S, pick) : SliceBytes(p) = SliceBytes(s)
        BY Zenon, <1>2, PostedSlices
    <2> QED
        BY Zenon, <2>1
<1>4. IsFiniteSet(B)
    BY Zenon, SlicesCover, FS_Subset
<1>5. Cardinality(S) <= Cardinality(B) /\ count \in Nat /\ Cardinality(P) \in Nat
    BY Zenon, <1>1, <1>3, <1>4, FS_Subset, FS_CardinalityType
<1>6. Cardinality(P) <= count
    BY <1>1, <1>3, <1>5
<1>7. IsRecord(j) /\ j.slices = P /\ j.slice_count = count /\ j.success = 0 /\ j.failed = 0
    <2>1. Fresh(j, P, count)
        BY Zenon, <1>1 DEF Fresh
    <2> QED
        BY <2>1, NoJobFields
<1>8. IsJob(j, n)
    BY Zenon, <1>3, <1>5, <1>6, <1>7, NewJobOK
<1>9. CASE j = [NoJob EXCEPT !.slices = P, !.slice_count = Cardinality(B), !.error = TRUE]
    <2>1. DOMAIN NoJob = {"slices", "slice_count", "success", "failed", "error"}
        BY Zenon DEF NoJob
    <2>2. j.error = TRUE
        BY <1>9, <2>1
    <2> QED
        BY Zenon, <1>8, <2>2 DEF SubmittedJob
<1>10. CASE S = Slices(n)
    BY Zenon, <1>3, <1>7, <1>8, <1>10, SlicesCover DEF SubmittedJob
<1> QED
    BY Zenon, <1>9, <1>10

\* One device for the whole request.
LEMMA SubmitWholeJob ==
    ASSUME NEW t, NEW source, NEW n \in Nat, SubmitWhole(t, source, n)
    PROVE  \E j : job' = [job EXCEPT ![t] = j] /\ SubmittedJob(j, n)
<1>1. PICK d : job' = [job EXCEPT ![t] =
            IF active[d[2]]
            THEN [NoJob EXCEPT !.slices = {Posted(s, d) : s \in Slices(n)},
                               !.slice_count = Cardinality(Slices(n))]
            ELSE [NoJob EXCEPT !.error = TRUE]]
    BY Zenon DEF SubmitWhole
<1>2. CASE active[d[2]]
    <2>1. PICK P, pick : /\ P = {Posted(s, d) : s \in Slices(n)}
                         /\ pick = [s \in Slices(n) |-> d]
        BY Zenon
    <2>2. PICK j : j = [NoJob EXCEPT !.slices = P, !.slice_count = Cardinality(Slices(n))]
        BY Zenon
    <2>3. job' = [job EXCEPT ![t] = j]
        BY Zenon, <1>1, <1>2, <2>1, <2>2
    <2>4. P = Posting(Slices(n), pick)
        BY Zenon, <2>1 DEF Posting
    <2>5. SubmittedJob(j, n)
        BY Zenon, <2>2, <2>4, PostingMakesJob
    <2> QED
        BY Zenon, <2>3, <2>5
<1>3. CASE ~active[d[2]]
    <2>1. PICK j : j = [NoJob EXCEPT !.error = TRUE]
        BY Zenon
    <2>2. job' = [job EXCEPT ![t] = j]
        BY Zenon, <1>1, <1>3, <2>1
    <2>3. 0 \in Nat /\ Cardinality({}) <= 0 /\ IsFiniteSet({})
        BY FS_EmptySet
    <2>4. /\ IsRecord(j) /\ j.slices = {} /\ j.slice_count = 0
          /\ j.success = 0 /\ j.failed = 0
        <3>1. Fresh(j, {}, 0)
            BY Zenon, <2>1 DEF Fresh
        <3> QED
            BY <3>1, NoJobFields
    <2>5. IsJob(j, n)
        BY Zenon, <2>3, <2>4, NewJobOK
    <2>6. DOMAIN NoJob = {"slices", "slice_count", "success", "failed", "error"}
        BY Zenon DEF NoJob
    <2>7. j.error = TRUE
        BY <2>1, <2>6
    <2> QED
        BY Zenon, <2>2, <2>5, <2>7 DEF SubmittedJob
<1> QED
    BY Zenon, <1>2, <1>3

\* A device for each slice, some of which may be posted already when one finds none.
LEMMA SubmitSlicesJob ==
    ASSUME NEW t, NEW source, NEW n \in Nat, SubmitSlices(t, source, n)
    PROVE  \E j : job' = [job EXCEPT ![t] = j] /\ SubmittedJob(j, n)
<1>1. CASE \E pick \in [Slices(n) -> (DOMAIN buffers) \X Context] :
                /\ \A s \in Slices(n) : pick[s] \in SliceDevices(source, s)
                /\ job' = [job EXCEPT ![t] =
                    [NoJob EXCEPT !.slices = {Posted(s, pick[s]) : s \in Slices(n)},
                                  !.slice_count = Cardinality(Slices(n))]]
    <2>1. PICK pick \in [Slices(n) -> (DOMAIN buffers) \X Context] :
                /\ \A s \in Slices(n) : pick[s] \in SliceDevices(source, s)
                /\ job' = [job EXCEPT ![t] =
                    [NoJob EXCEPT !.slices = {Posted(s, pick[s]) : s \in Slices(n)},
                                  !.slice_count = Cardinality(Slices(n))]]
        BY Zenon, <1>1
    <2>2. PICK P : P = Posting(Slices(n), pick)
        BY Zenon
    <2>3. PICK j : j = [NoJob EXCEPT !.slices = P, !.slice_count = Cardinality(Slices(n))]
        BY Zenon
    <2>4. job' = [job EXCEPT ![t] = j]
        BY Zenon, <2>1, <2>2, <2>3 DEF Posting
    <2>5. SubmittedJob(j, n)
        BY Zenon, <2>2, <2>3, PostingMakesJob
    <2> QED
        BY Zenon, <2>4, <2>5
<1>2. CASE \E miss \in Slices(n) :
            LET before == {s \in Slices(n) : s.offset < miss.offset} IN
            /\ MayMiss(source, miss)
            /\ \A s \in before : SliceDevices(source, s) # {}
            /\ \E flushed \in {{}} \union {{s \in before : s.offset < e.offset} \union {e} : e \in before} :
                /\ flushed = {} \/ Cardinality(flushed) >= Watermark
                /\ \E pick \in [flushed -> (DOMAIN buffers) \X Context] :
                    /\ \A s \in flushed : pick[s] \in SliceDevices(source, s)
                    /\ job' = [job EXCEPT ![t] =
                        [NoJob EXCEPT !.slices = {Posted(s, pick[s]) : s \in flushed},
                                      !.slice_count = Cardinality(before),
                                      !.error = TRUE]]
    <2>0. PICK miss \in Slices(n) : \E B :
                /\ B = {s \in Slices(n) : s.offset < miss.offset}
                /\ \E flushed \in {{}} \union {{s \in B : s.offset < e.offset} \union {e} : e \in B} :
                    /\ flushed = {} \/ Cardinality(flushed) >= Watermark
                    /\ \E pick \in [flushed -> (DOMAIN buffers) \X Context] :
                        /\ \A s \in flushed : pick[s] \in SliceDevices(source, s)
                        /\ job' = [job EXCEPT ![t] =
                            [NoJob EXCEPT !.slices = {Posted(s, pick[s]) : s \in flushed},
                                          !.slice_count = Cardinality(B), !.error = TRUE]]
        BY Zenon, <1>2
    <2>1. PICK B :
            /\ B = {s \in Slices(n) : s.offset < miss.offset}
            /\ \E flushed \in {{}} \union {{s \in B : s.offset < e.offset} \union {e} : e \in B} :
                /\ flushed = {} \/ Cardinality(flushed) >= Watermark
                /\ \E pick \in [flushed -> (DOMAIN buffers) \X Context] :
                    /\ \A s \in flushed : pick[s] \in SliceDevices(source, s)
                    /\ job' = [job EXCEPT ![t] =
                        [NoJob EXCEPT !.slices = {Posted(s, pick[s]) : s \in flushed},
                                      !.slice_count = Cardinality(B), !.error = TRUE]]
        BY Zenon, <2>0
    <2>2. PICK flushed \in {{}} \union {{s \in B : s.offset < e.offset} \union {e} : e \in B} :
            \E pick \in [flushed -> (DOMAIN buffers) \X Context] :
                /\ \A s \in flushed : pick[s] \in SliceDevices(source, s)
                /\ job' = [job EXCEPT ![t] =
                    [NoJob EXCEPT !.slices = {Posted(s, pick[s]) : s \in flushed},
                                  !.slice_count = Cardinality(B), !.error = TRUE]]
        BY Zenon, <2>1
    <2>3. PICK pick \in [flushed -> (DOMAIN buffers) \X Context] :
                /\ \A s \in flushed : pick[s] \in SliceDevices(source, s)
                /\ job' = [job EXCEPT ![t] =
                    [NoJob EXCEPT !.slices = {Posted(s, pick[s]) : s \in flushed},
                                  !.slice_count = Cardinality(B), !.error = TRUE]]
        BY Zenon, <2>2
    <2>4. PICK P : P = Posting(flushed, pick)
        BY Zenon
    <2>5. PICK j : j = [NoJob EXCEPT !.slices = P, !.slice_count = Cardinality(B), !.error = TRUE]
        BY Zenon
    <2>6. job' = [job EXCEPT ![t] = j]
        BY Zenon, <2>3, <2>4, <2>5 DEF Posting
    <2>7. flushed \in SUBSET B /\ B \in SUBSET Slices(n)
        BY <2>1, <2>2
    <2>8. SubmittedJob(j, n)
        BY Zenon, <2>4, <2>5, <2>7, PostingMakesJob
    <2> QED
        BY Zenon, <2>6, <2>8
<1> QED
    BY Zenon, <1>1, <1>2 DEF SubmitSlices

\* The variables that a step assigns for one task.
LEMMA Assigned ==
    ASSUME WriteInv, NEW t \in Task, NEW v
    PROVE  /\ pc' = [pc EXCEPT ![t] = v] => At(pc, pc', t, v)
           /\ result' = [result EXCEPT ![t] = v] => At(result, result', t, v)
           /\ target' = [target EXCEPT ![t] = v] => At(target, target', t, v)
           /\ replica' = [replica EXCEPT ![t] = v] => At(replica, replica', t, v)
           /\ written' = [written EXCEPT ![t] = v] => At(written, written', t, v)
           /\ job' = [job EXCEPT ![t] = v] => At(job, job', t, v)
BY Zenon, AtAssigned DEF WriteInv

\* The variables that a step leaves alone.
LEMMA Steady ==
    ASSUME WriteInv, NEW t \in Task
    PROVE  /\ pc' = pc => At(pc, pc', t, pc[t])
           /\ result' = result => At(result, result', t, result[t])
           /\ target' = target => At(target, target', t, target[t])
           /\ replica' = replica => At(replica, replica', t, replica[t])
           /\ written' = written => At(written, written', t, written[t])
           /\ job' = job => At(job, job', t, job[t])
BY Zenon, AtUnchanged DEF WriteInv

ThisTaskOK(t) ==
    TaskOK(object[t].size, pc[t], result[t], target[t], replica[t], written[t], job[t])

\* A task whose replicas have not ended goes where it does not write.
LEMMA QuietStep ==
    ASSUME WriteInv, NEW t \in Task, UNCHANGED <<object, target, written, job>>, QueueOK',
           NEW l, NEW r, NEW k, l \notin {"source", "skip", "write", "wait"}, k # "ended",
           At(pc, pc', t, l), At(result, result', t, r), At(replica, replica', t, k)
    PROVE  WriteInv'
<1>1. ThisTaskOK(t)
    BY Zenon DEF WriteInv, ThisTaskOK
<1>2. TaskOK(object[t].size, l, r, target[t], k, written[t], job[t])
    BY Zenon, <1>1 DEF ThisTaskOK, TaskOK
<1>3. /\ At(target, target', t, target[t]) /\ At(written, written', t, written[t])
      /\ At(job, job', t, job[t]) /\ object' = object
    BY Zenon, Steady
<1> QED
    BY Zenon, <1>2, <1>3, OneTask

\* A task that is dispatched enters the queue, where it was not yet.
LEMMA PollWrites ==
    ASSUME WriteInv, NEW t \in Task, PollAndDispatchTasks(t)
    PROVE  WriteInv'
<1>1. /\ pc[t] = "assigned" /\ pc' = [pc EXCEPT ![t] = "queued"] /\ queue' = Append(queue, t)
      /\ UNCHANGED <<object, result, replica, target, written, job>>
    BY Zenon DEF PollAndDispatchTasks, Goto, rdmaVars
<1>2. replica[t] # "ended"
    BY Zenon, <1>1 DEF WriteInv, TaskOK
<1>3. /\ At(pc, pc', t, "queued") /\ At(result, result', t, result[t])
      /\ At(replica, replica', t, replica[t])
    BY Zenon, <1>1, Assigned, Steady
<1>4. QueueOK'
    BY Zenon, <1>1, <1>3, QueueAppends
<1> QED
    BY Zenon, <1>1, <1>2, <1>3, <1>4, QuietStep

\* The task pool takes the first task of the queue.
LEMMA WorkWrites ==
    ASSUME WriteInv, Work
    PROVE  WriteInv'
<1>1. PICK t : t = Head(queue)
    BY Zenon
<1>2. /\ queue # <<>> /\ pc' = [pc EXCEPT ![t] = "start"] /\ queue' = Tail(queue)
      /\ UNCHANGED <<object, result, replica, target, written, job>>
    BY Zenon, <1>1 DEF Work, Goto, rdmaVars
<1>3. t \in Task
    <2>1. queue \in Seq(Task)
        BY Zenon DEF WriteInv, QueueOK
    <2> QED
        BY Zenon, <1>1, <1>2, <2>1, HeadTailProperties
<1>4. /\ At(pc, pc', t, "start") /\ At(result, result', t, result[t])
      /\ At(replica, replica', t, replica[t])
    BY Zenon, <1>2, <1>3, Assigned, Steady
<1>5. pc[t] = "queued" /\ QueueOK'
    BY Zenon, <1>1, <1>2, <1>4, QueueTakes
<1>6. replica[t] # "ended"
    BY Zenon, <1>3, <1>5 DEF WriteInv, TaskOK
<1> QED
    BY Zenon, <1>2, <1>3, <1>4, <1>5, <1>6, QuietStep

\* CopyStart and MoveStart: the targets are new, none is written, and a task
\* without targets skips the transfer.
LEMMA StartWrites ==
    ASSUME WriteInv, NEW t \in Task, StartRefused(t) \/ StartLost(t) \/ StartOk(t)
    PROVE  WriteInv'
<1>1. pc[t] = "start" /\ queue' = queue /\ object' = object /\ job' = job
    BY Zenon DEF StartRefused, StartLost, StartOk, rdmaVars
<1>2. replica[t] # "ended" /\ ThisTaskOK(t)
    BY Zenon, <1>1 DEF WriteInv, TaskOK, ThisTaskOK
<1>3. CASE StartRefused(t)
    <2>1. PICK e : result' = [result EXCEPT ![t] = e]
        BY Zenon, <1>3 DEF StartRefused
    <2>2. /\ pc' = [pc EXCEPT ![t] = "report"]
          /\ UNCHANGED <<object, replica, target, written, job>>
        BY Zenon, <1>1, <1>3 DEF StartRefused, Goto
    <2>3. /\ At(pc, pc', t, "report") /\ At(result, result', t, e)
          /\ At(replica, replica', t, replica[t])
        BY Zenon, <2>1, <2>2, Assigned, Steady
    <2>4. QueueOK'
        BY Zenon, <1>1, <2>3, QueueStays
    <2> QED
        BY Zenon, <1>2, <2>2, <2>3, <2>4, QuietStep
<1>4. CASE StartLost(t)
    <2>1. /\ pc' = [pc EXCEPT ![t] = "report"] /\ result' = [result EXCEPT ![t] = "OTHER"]
          /\ replica' = [replica EXCEPT ![t] = "processing"]
          /\ UNCHANGED <<object, target, written, job>>
        BY Zenon, <1>1, <1>4 DEF StartLost, Goto
    <2>2. /\ At(pc, pc', t, "report") /\ At(result, result', t, "OTHER")
          /\ At(replica, replica', t, "processing")
        BY Zenon, <2>1, Assigned
    <2>3. QueueOK'
        BY Zenon, <1>1, <2>2, QueueStays
    <2> QED
        BY Zenon, <2>1, <2>2, <2>3, QuietStep
<1>5. CASE StartOk(t)
    <2>1. PICK n \in 0..MaxTargets :
            /\ target' = [target EXCEPT ![t] = n]
            /\ written' = [written EXCEPT ![t] = [i \in 1..n |-> {}]]
            /\ Goto(t, IF n = 0 THEN "skip" ELSE "source")
        BY Zenon, <1>5 DEF StartOk
    <2>2. PICK l, w : l = (IF n = 0 THEN "skip" ELSE "source") /\ w = [i \in 1..n |-> {}]
        BY Zenon
    <2>3. /\ target' = [target EXCEPT ![t] = n] /\ written' = [written EXCEPT ![t] = w]
          /\ pc' = [pc EXCEPT ![t] = l] /\ replica' = [replica EXCEPT ![t] = "processing"]
          /\ result' = [result EXCEPT ![t] = "OK"]
        BY Zenon, <1>5, <2>1, <2>2 DEF StartOk, Goto
    <2>4. /\ At(pc, pc', t, l) /\ At(result, result', t, "OK") /\ At(target, target', t, n)
          /\ At(replica, replica', t, "processing") /\ At(written, written', t, w)
          /\ At(job, job', t, job[t])
        BY Zenon, <1>1, <2>3, Assigned, Steady
    <2>5. n \in Nat
        BY TaskAssumption
    <2>6. PICK size : size = object[t].size
        BY Zenon
    <2>7. size \in Nat /\ IsJob(job[t], size)
        BY Zenon, <1>2, <2>6 DEF ThisTaskOK, TaskOK
    <2>8. w \in Seq(SUBSET (0..(size - 1))) /\ Len(w) = n
        BY <2>2, <2>5, <2>7
    <2>9. n \in 0..Len(w) /\ WrittenAbove(n, w, size)
        BY <2>5, <2>8 DEF WrittenAbove
    <2>10. l \in {"skip", "source"} /\ (l = "skip" => n = 0)
        BY Zenon, <2>2
    <2>11. TaskOK(size, l, "OK", n, "processing", w, job[t])
        BY Zenon, <2>7, <2>8, <2>9, <2>10 DEF TaskOK
    <2>12. QueueOK'
        BY Zenon, <1>1, <2>4, QueueStays
    <2> QED
        BY Zenon, <1>1, <2>4, <2>6, <2>11, <2>12, OneTask
<1> QED
    BY Zenon, <1>3, <1>4, <1>5

\* A source that is not there fails the task before the first target.
LEMMA SourceWrites ==
    ASSUME WriteInv, NEW t \in Task, CheckSource(t)
    PROVE  WriteInv'
<1>1. pc[t] = "source" /\ UNCHANGED <<queue, object, target, replica, written, job>>
    BY Zenon DEF CheckSource
<1>2. replica[t] # "ended" /\ ThisTaskOK(t)
    BY Zenon, <1>1 DEF WriteInv, TaskOK, ThisTaskOK
<1>3. CASE Goto(t, "write") /\ UNCHANGED <<result, faults>>
    <2>1. /\ At(pc, pc', t, "write") /\ At(result, result', t, result[t])
          /\ At(target, target', t, target[t]) /\ At(replica, replica', t, replica[t])
          /\ At(written, written', t, written[t]) /\ At(job, job', t, job[t])
        BY Zenon, <1>1, <1>3, Assigned, Steady DEF Goto
    <2>2. TaskOK(object[t].size, "write", result[t], target[t], replica[t], written[t], job[t])
        BY Zenon, <1>1, <1>2 DEF ThisTaskOK, TaskOK
    <2>3. QueueOK'
        BY Zenon, <1>1, <2>1, QueueStays
    <2> QED
        BY Zenon, <1>1, <2>1, <2>2, <2>3, OneTask
<1>4. CASE Goto(t, "revoke") /\ result' = [result EXCEPT ![t] = "OTHER"]
    <2>1. /\ At(pc, pc', t, "revoke") /\ At(result, result', t, "OTHER")
          /\ At(replica, replica', t, replica[t])
        BY Zenon, <1>1, <1>4, Assigned, Steady DEF Goto
    <2>2. QueueOK'
        BY Zenon, <1>1, <2>1, QueueStays
    <2> QED
        BY Zenon, <1>1, <1>2, <2>1, <2>2, QuietStep
<1> QED
    BY Zenon, <1>3, <1>4 DEF CheckSource

\* A submission starts a target whose bytes are all in posted slices, or fails.
LEMMA TransferWrites ==
    ASSUME WriteInv, NEW t \in Task, TransferWrite(t)
    PROVE  WriteInv'
<1>1. /\ pc[t] = "write" /\ target[t] # 0
      /\ UNCHANGED <<queue, object, target, replica, written>>
    BY Zenon DEF TransferWrite
<1>2. replica[t] # "ended" /\ ThisTaskOK(t)
    BY Zenon, <1>1 DEF WriteInv, TaskOK, ThisTaskOK
<1>3. PICK size \in Nat : size = object[t].size
    BY Zenon, <1>2 DEF ThisTaskOK, TaskOK
<1>4. PICK j : job' = [job EXCEPT ![t] = j] /\ SubmittedJob(j, size)
    BY Zenon, <1>3, SubmitWholeJob, SubmitSlicesJob DEF TransferWrite, submitTransferTask
<1>5. At(job, job', t, j) /\ job'[t] = j
    BY Zenon, <1>4, Assigned DEF At
<1>6. /\ At(target, target', t, target[t]) /\ At(replica, replica', t, replica[t])
      /\ At(written, written', t, written[t])
    BY Zenon, <1>1, Steady
<1>7. IsJob(j, size)
    BY Zenon, <1>4 DEF SubmittedJob
<1>8. CASE j.error
    <2>1. At(pc, pc', t, "revoke") /\ At(result, result', t, "OTHER")
        BY Zenon, <1>5, <1>8, Assigned DEF TransferWrite, Goto
    <2>2. TaskOK(size, "revoke", "OTHER", target[t], replica[t], written[t], j)
        BY Zenon, <1>2, <1>3, <1>7 DEF ThisTaskOK, TaskOK
    <2>3. QueueOK'
        BY Zenon, <1>1, <2>1, QueueStays
    <2> QED
        BY Zenon, <1>1, <1>3, <1>5, <1>6, <2>1, <2>2, <2>3, OneTask
<1>9. CASE ~j.error
    <2>1. At(pc, pc', t, "wait") /\ At(result, result', t, result[t])
        BY Zenon, <1>5, <1>9, Assigned, Steady DEF TransferWrite, Goto
    <2>2. PendingCover(j, written[t][target[t]], size)
        BY Zenon, <1>4, <1>9 DEF PendingCover, SubmittedJob
    <2>3. TaskOK(size, "wait", result[t], target[t], replica[t], written[t], j)
        BY Zenon, <1>1, <1>2, <1>3, <1>7, <2>2 DEF ThisTaskOK, TaskOK
    <2>4. QueueOK'
        BY Zenon, <1>1, <2>1, QueueStays
    <2> QED
        BY Zenon, <1>1, <1>3, <1>5, <1>6, <2>1, <2>3, <2>4, OneTask
<1> QED
    BY Zenon, <1>8, <1>9

\* COMPLETED means that no slice is left and none has failed: the target is written.
LEMMA CompletedIsWritten ==
    ASSUME NEW size, NEW r, NEW n, NEW k, NEW w, NEW j, TaskOK(size, "wait", r, n, k, w, j),
           j.success + j.failed = j.slice_count, j.failed = 0
    PROVE  n - 1 \in 0..Len(w) /\ WrittenAbove(n - 1, w, size)
<1>1. /\ w \in Seq(SUBSET (0..(size - 1))) /\ n \in 0..Len(w) /\ IsJob(j, size) /\ n # 0
      /\ WrittenAbove(n, w, size) /\ PendingCover(j, w[n], size)
    BY Zenon DEF TaskOK
<1>2. Len(w) \in Nat /\ n \in 1..Len(w) /\ n - 1 \in 0..Len(w)
    BY <1>1
<1>3. w[n] \subseteq 0..(size - 1)
    <2>1. w[n] \in SUBSET (0..(size - 1))
        BY <1>1, <1>2
    <2> QED
        BY Zenon, <2>1
<1>4. /\ IsFiniteSet(j.slices) /\ j.slice_count \in Nat /\ j.success \in Nat /\ j.failed \in Nat
      /\ j.success + j.failed + Cardinality(j.slices) <= j.slice_count
    BY Zenon, <1>1 DEF IsJob
<1>5. Cardinality(j.slices) \in Nat
    BY Zenon, <1>4, FS_CardinalityType
<1>6. Cardinality(j.slices) = 0
    BY <1>4, <1>5
<1>7. j.slices = {}
    BY Zenon, <1>4, <1>6, FS_EmptySet
<1>8. w[n] = 0..(size - 1)
    BY Zenon, <1>1, <1>3, <1>7 DEF PendingCover
<1>9. \A i \in 1..Len(w) : i > n - 1 => i > n \/ i = n
    BY <1>2
<1> QED
    BY Zenon, <1>1, <1>2, <1>8, <1>9 DEF WrittenAbove

\* The wait ends with a completed target, or with a task that is revoked.
LEMMA WaitWrites ==
    ASSUME WriteInv, NEW t \in Task, Wait(t)
    PROVE  WriteInv'
<1>1. pc[t] = "wait" /\ UNCHANGED <<queue, object, replica, written, job>>
    BY Zenon DEF Wait, rdmaVars
<1>2. replica[t] # "ended" /\ ThisTaskOK(t)
    BY Zenon, <1>1 DEF WriteInv, TaskOK, ThisTaskOK
<1>3. CASE /\ getTransferStatus(t) = "COMPLETED"
           /\ target' = [target EXCEPT ![t] = @ - 1]
           /\ Goto(t, "write")
           /\ UNCHANGED result
    <2>1. /\ At(pc, pc', t, "write") /\ At(result, result', t, result[t])
          /\ At(target, target', t, target[t] - 1) /\ At(replica, replica', t, replica[t])
          /\ At(written, written', t, written[t]) /\ At(job, job', t, job[t])
        BY Zenon, <1>1, <1>3, Assigned, Steady DEF Goto
    <2>2. job[t].success + job[t].failed = job[t].slice_count /\ job[t].failed = 0
        BY <1>3 DEF getTransferStatus
    <2>3. PICK size, n, w, j : /\ size = object[t].size /\ n = target[t]
                               /\ w = written[t] /\ j = job[t]
        BY Zenon
    <2>4. TaskOK(size, "wait", result[t], n, replica[t], w, j)
        BY Zenon, <1>1, <1>2, <2>3 DEF ThisTaskOK
    <2>5. n - 1 \in 0..Len(w) /\ WrittenAbove(n - 1, w, size)
        BY Zenon, <2>2, <2>3, <2>4, CompletedIsWritten
    <2>6. TaskOK(size, "write", result[t], n - 1, replica[t], w, j)
        BY Zenon, <1>2, <2>4, <2>5 DEF TaskOK
    <2>7. TaskOK(object[t].size, "write", result[t], target[t] - 1, replica[t], written[t], job[t])
        BY Zenon, <2>3, <2>6
    <2>8. QueueOK'
        BY Zenon, <1>1, <2>1, QueueStays
    <2> QED
        BY Zenon, <1>1, <2>1, <2>7, <2>8, OneTask
<1>4. CASE /\ result' = [result EXCEPT ![t] = "OTHER"]
           /\ Goto(t, "revoke")
           /\ UNCHANGED target
    <2>1. /\ At(pc, pc', t, "revoke") /\ At(result, result', t, "OTHER")
          /\ At(replica, replica', t, replica[t])
        BY Zenon, <1>1, <1>4, Assigned, Steady DEF Goto
    <2>2. QueueOK'
        BY Zenon, <1>1, <2>1, QueueStays
    <2> QED
        BY Zenon, <1>1, <1>2, <1>4, <2>1, <2>2, QuietStep
<1> QED
    BY Zenon, <1>3, <1>4 DEF Wait

\* A slice that ends leaves the job and is counted.
LEMMA SliceLeaves ==
    ASSUME WriteInv, NEW t \in Task, NEW s \in job[t].slices, SliceOk(t, s) \/ SliceFails(t, s),
           NEW size, IsJob(job[t], size)
    PROVE  \E j : /\ At(job, job', t, j) /\ IsJob(j, size) /\ j.slices = job[t].slices \ {s}
                  /\ j.failed = 0 => ~SliceFails(t, s) /\ job[t].failed = 0
<1>1. PICK z : z = job[t]
    BY Zenon
<1>2. /\ z = [f \in {"slices", "slice_count", "success", "failed", "error"} |-> z[f]]
      /\ z.slice_count \in Nat /\ z.success \in Nat /\ z.failed \in Nat
      /\ IsFiniteSet(z.slices) /\ z.success + z.failed + Cardinality(z.slices) <= z.slice_count
      /\ \A p \in z.slices : SliceBytes(p) \subseteq 0..(size - 1)
    BY Zenon, <1>1 DEF IsJob, IsRecord
<1>3. PICK rest : rest = z.slices \ {s}
    BY Zenon
<1>4. IsFiniteSet(rest) /\ Cardinality(rest) = Cardinality(z.slices) - 1
    BY Zenon, <1>1, <1>2, <1>3, FS_RemoveElement
<1>5. Cardinality(rest) \in Nat /\ Cardinality(z.slices) \in Nat
    BY Zenon, <1>2, <1>4, FS_CardinalityType
<1>6. job = [u \in Task |-> job[u]]
    BY Zenon DEF WriteInv, IsTaskFunction
<1>7. CASE ~SliceFails(t, s)
    <2>1. PICK up : up = z.success + 1
        BY Zenon
    <2>2. PICK j : j = [z EXCEPT !.slices = rest, !.success = up]
        BY Zenon
    <2>3. job' = [job EXCEPT ![t] = j]
        <3>1. job' = [job EXCEPT ![t].slices = @ \ {s}, ![t].success = @ + 1]
            BY Zenon, <1>7 DEF SliceOk
        <3> QED
            BY <1>1, <1>2, <1>3, <1>6, <2>1, <2>2, <3>1
    <2>4. IsRecord(j)
        BY Zenon, <1>2, <2>2 DEF IsRecord
    <2>5. /\ j.slices = rest /\ j.success = up /\ j.failed = z.failed
          /\ j.slice_count = z.slice_count
        BY <1>2, <2>2
    <2>6. up \in Nat /\ up + z.failed + Cardinality(rest) <= z.slice_count
        BY <1>2, <1>4, <1>5, <2>1
    <2>7. IsJob(j, size)
        BY Zenon, <1>2, <1>3, <1>4, <2>4, <2>5, <2>6 DEF IsJob
    <2> QED
        BY Zenon, <1>1, <1>3, <1>7, <2>3, <2>5, <2>7, Assigned
<1>8. CASE SliceFails(t, s)
    <2>1. PICK up : up = z.failed + 1
        BY Zenon
    <2>2. PICK j : j = [z EXCEPT !.slices = rest, !.failed = up]
        BY Zenon
    <2>3. job' = [job EXCEPT ![t] = j]
        <3>1. job' = [job EXCEPT ![t].slices = @ \ {s}, ![t].failed = @ + 1]
            BY Zenon, <1>8 DEF SliceFails
        <3> QED
            BY <1>1, <1>2, <1>3, <1>6, <2>1, <2>2, <3>1
    <2>4. IsRecord(j)
        BY Zenon, <1>2, <2>2 DEF IsRecord
    <2>5. /\ j.slices = rest /\ j.success = z.success /\ j.failed = up
          /\ j.slice_count = z.slice_count
        BY <1>2, <2>2
    <2>6. up \in Nat /\ up # 0 /\ z.success + up + Cardinality(rest) <= z.slice_count
        BY <1>2, <1>4, <1>5, <2>1
    <2>7. IsJob(j, size)
        BY Zenon, <1>2, <1>3, <1>4, <2>4, <2>5, <2>6 DEF IsJob
    <2> QED
        BY Zenon, <1>1, <1>3, <2>3, <2>5, <2>6, <2>7, Assigned
<1> QED
    BY Zenon, <1>7, <1>8

\* A slice that succeeds writes its bytes to the target that waits for it; one of
\* a submission that has failed may still do so, and stays within the object.
LEMMA SliceWrites ==
    ASSUME WriteInv, NEW t \in Task, SliceEnds(t)
    PROVE  WriteInv'
<1>1. PICK s \in job[t].slices :
        \/ /\ SliceOk(t, s)
           /\ written' = IF target[t] = 0 THEN written
                         ELSE [written EXCEPT ![t][target[t]] =
                                @ \union s.offset .. (s.offset + s.length - 1)]
           /\ UNCHANGED <<object, pc, retry_count, result, queue, target,
                          replica, rpc_failed>>
        \/ SliceFails(t, s) /\ UNCHANGED taskVars
    BY Zenon DEF SliceEnds
<1>2. UNCHANGED <<object, pc, result, queue, target, replica>>
    BY Zenon, <1>1 DEF taskVars
<1>3. ThisTaskOK(t)
    BY Zenon DEF WriteInv, ThisTaskOK
<1>4. PICK size, n, w : size = object[t].size /\ n = target[t] /\ w = written[t]
    BY Zenon
<1>5. TaskOK(size, pc[t], result[t], n, replica[t], w, job[t])
    BY Zenon, <1>3, <1>4 DEF ThisTaskOK
<1>6. PICK j : /\ At(job, job', t, j) /\ IsJob(j, size) /\ j.slices = job[t].slices \ {s}
               /\ j.failed = 0 => ~SliceFails(t, s) /\ job[t].failed = 0
    <2>1. IsJob(job[t], size)
        BY Zenon, <1>5 DEF TaskOK
    <2> QED
        BY Zenon, <1>1, <2>1, SliceLeaves
<1>7. SliceBytes(s) \in SUBSET (0..(size - 1))
    BY Zenon, <1>5 DEF TaskOK, IsJob
<1>8. /\ At(pc, pc', t, pc[t]) /\ At(result, result', t, result[t]) /\ At(target, target', t, n)
      /\ At(replica, replica', t, replica[t])
    BY Zenon, <1>2, <1>4, Steady
<1>9. QueueOK'
    BY Zenon, <1>2, <1>8, QueueStays
<1>10. CASE /\ n # 0
            /\ written' = IF target[t] = 0 THEN written
                          ELSE [written EXCEPT ![t][target[t]] =
                                 @ \union s.offset .. (s.offset + s.length - 1)]
    <2>1. PICK v : v = [w EXCEPT ![n] = @ \union SliceBytes(s)]
        BY Zenon
    <2>2. written' = [written EXCEPT ![t][n] = @ \union SliceBytes(s)]
        BY Zenon, <1>4, <1>10 DEF SliceBytes
    <2>3. At(written, written', t, v)
        <3>1. written = [u \in Task |-> written[u]]
            BY Zenon DEF WriteInv, IsTaskFunction
        <3>2. written' = [written EXCEPT ![t] = v]
            BY Zenon, <1>4, <2>1, <2>2, <3>1
        <3> QED
            BY Zenon, <3>2, Assigned
    <2>4. /\ w \in Seq(SUBSET (0..(size - 1))) /\ Len(w) \in Nat /\ n \in 1..Len(w)
          /\ w \in [1..Len(w) -> SUBSET (0..(size - 1))]
        <3>1. w \in Seq(SUBSET (0..(size - 1))) /\ n \in 0..Len(w)
            BY Zenon, <1>5 DEF TaskOK
        <3> QED
            BY <1>10, <3>1
    <2>5. /\ v \in Seq(SUBSET (0..(size - 1))) /\ Len(v) = Len(w)
          /\ \A i \in 1..Len(w) : i # n => v[i] = w[i]
          /\ v[n] = w[n] \union SliceBytes(s)
        <3>1. w[n] \union SliceBytes(s) \in SUBSET (0..(size - 1))
            BY Zenon, <1>7, <2>4
        <3>2. PICK b \in SUBSET (0..(size - 1)) : b = w[n] \union SliceBytes(s)
            BY Zenon, <3>1
        <3>3. v = [w EXCEPT ![n] = b]
            BY Zenon, <2>1, <3>2
        <3> QED
            BY <2>4, <3>2, <3>3
    <2>6. WrittenAbove(n, w, size) => WrittenAbove(n, v, size)
        <3>1. \A i \in 1..Len(w) : i > n => i # n
            BY <2>4
        <3> QED
            BY Zenon, <2>5, <3>1 DEF WrittenAbove
    <2>7. PendingCover(job[t], w[n], size) => PendingCover(j, v[n], size)
        BY Zenon, <1>6, <2>5 DEF PendingCover
    <2>8. TaskOK(size, pc[t], result[t], n, replica[t], v, j)
        BY Zenon, <1>5, <1>6, <2>5, <2>6, <2>7 DEF TaskOK
    <2> QED
        BY Zenon, <1>2, <1>4, <1>6, <1>8, <1>9, <2>3, <2>8, OneTask
<1>11. CASE n = 0 \/ (SliceFails(t, s) /\ UNCHANGED taskVars)
    <2>1. At(written, written', t, w)
        BY Zenon, <1>1, <1>4, <1>11, Steady DEF taskVars
    <2>2. pc[t] = "wait" => n # 0
        BY Zenon, <1>5 DEF TaskOK
    <2>3. pc[t] = "wait" => PendingCover(j, w[n], size)
        BY Zenon, <1>6, <1>11, <2>2 DEF PendingCover
    <2>4. TaskOK(size, pc[t], result[t], n, replica[t], w, j)
        BY Zenon, <1>5, <1>6, <2>3 DEF TaskOK
    <2> QED
        BY Zenon, <1>2, <1>4, <1>6, <1>8, <1>9, <2>1, <2>4, OneTask
<1> QED
    BY Zenon, <1>1, <1>10, <1>11

\* CopyEnd and MoveEnd come after the last target, or when there is none.
LEMMA EndWrites ==
    ASSUME WriteInv, NEW t \in Task, End(t)
    PROVE  WriteInv'
<1>1. /\ (pc[t] = "write" /\ target[t] = 0) \/ pc[t] = "skip"
      /\ UNCHANGED <<queue, object, target, written, job>>
    BY Zenon DEF End
<1>2. ThisTaskOK(t)
    BY Zenon DEF WriteInv, ThisTaskOK
<1>3. /\ target[t] = 0 /\ WrittenAbove(target[t], written[t], object[t].size)
      /\ replica[t] # "ended" /\ pc[t] # "queued"
    BY Zenon, <1>1, <1>2 DEF ThisTaskOK, TaskOK
<1>4. /\ At(target, target', t, target[t]) /\ At(written, written', t, written[t])
      /\ At(job, job', t, job[t])
    BY Zenon, <1>1, Steady
<1>5. CASE /\ replica' = [replica EXCEPT ![t] = "ended"]
           /\ Goto(t, "report")
           /\ UNCHANGED <<result, faults, rpc_failed>>
    <2>1. /\ At(pc, pc', t, "report") /\ At(result, result', t, result[t])
          /\ At(replica, replica', t, "ended")
        BY Zenon, <1>5, Assigned, Steady DEF Goto
    <2>2. result[t] # "NO_AVAILABLE_HANDLE"
        BY Zenon, <1>1, <1>2 DEF ThisTaskOK, TaskOK
    <2>3. TaskOK(object[t].size, "report", result[t], target[t], "ended", written[t], job[t])
        BY Zenon, <1>2, <1>3, <2>2 DEF ThisTaskOK, TaskOK
    <2>4. QueueOK'
        BY Zenon, <1>1, <1>3, <2>1, QueueStays
    <2> QED
        BY Zenon, <1>1, <1>4, <2>1, <2>3, <2>4, OneTask
<1>6. CASE /\ replica' \in {replica, [replica EXCEPT ![t] = "ended"]}
           /\ result' = [result EXCEPT ![t] = "OTHER"]
           /\ Goto(t, IF pc[t] = "skip" THEN "report" ELSE "revoke")
    <2>1. PICK l : l = (IF pc[t] = "skip" THEN "report" ELSE "revoke")
        BY Zenon
    <2>2. l \in {"report", "revoke"} /\ At(pc, pc', t, l) /\ At(result, result', t, "OTHER")
        BY Zenon, <1>6, <2>1, Assigned DEF Goto
    <2>3. PICK k : k \in {replica[t], "ended"} /\ At(replica, replica', t, k)
        BY Zenon, <1>6, Assigned, Steady
    <2>4. TaskOK(object[t].size, l, "OTHER", target[t], k, written[t], job[t])
        BY Zenon, <1>2, <1>3, <2>2, <2>3 DEF ThisTaskOK, TaskOK
    <2>5. QueueOK'
        BY Zenon, <1>1, <1>3, <2>2, QueueStays
    <2> QED
        BY Zenon, <1>1, <1>4, <2>2, <2>3, <2>4, <2>5, OneTask
<1> QED
    BY Zenon, <1>5, <1>6 DEF End

\* CopyRevoke and MoveRevoke do not touch replicas that have ended.
LEMMA RevokeWrites ==
    ASSUME WriteInv, NEW t \in Task, Revoke(t)
    PROVE  WriteInv'
<1>1. /\ pc[t] = "revoke" /\ Goto(t, "report")
      /\ UNCHANGED <<queue, object, result, target, written, job>>
    BY Zenon DEF Revoke
<1>2. ThisTaskOK(t)
    BY Zenon DEF WriteInv, ThisTaskOK
<1>3. PICK k : At(replica, replica', t, k) /\ (k = "ended" => replica[t] = "ended")
    <2>1. CASE replica' = replica
        BY Zenon, <2>1, Steady
    <2>2. CASE replica' = [replica EXCEPT ![t] = IF @ = "ended" THEN @ ELSE "revoked"]
        <3>1. PICK k : k = IF replica[t] = "ended" THEN replica[t] ELSE "revoked"
            BY Zenon
        <3>2. replica' = [replica EXCEPT ![t] = k]
            BY Zenon, <2>2, <3>1
        <3>3. k = "ended" => replica[t] = "ended"
            BY <3>1
        <3>4. At(replica, replica', t, k)
            BY Zenon, <3>2, Assigned
        <3> QED
            BY Zenon, <3>3, <3>4
    <2> QED
        BY Zenon, <2>1, <2>2 DEF Revoke
<1>4. /\ At(pc, pc', t, "report") /\ At(result, result', t, result[t])
      /\ At(target, target', t, target[t]) /\ At(written, written', t, written[t])
      /\ At(job, job', t, job[t])
    BY Zenon, <1>1, Assigned, Steady DEF Goto
<1>5. TaskOK(object[t].size, "report", result[t], target[t], k, written[t], job[t])
    BY Zenon, <1>2, <1>3 DEF ThisTaskOK, TaskOK
<1>6. QueueOK'
    BY Zenon, <1>1, <1>4, QueueStays
<1> QED
    BY Zenon, <1>1, <1>3, <1>4, <1>5, <1>6, OneTask

\* Only a task that was refused is tried again; one whose replicas have ended is not.
LEMMA ReportWrites ==
    ASSUME WriteInv, NEW t \in Task, Retry(t) \/ MarkTaskToComplete(t)
    PROVE  WriteInv'
<1>1. pc[t] = "report" /\ UNCHANGED <<object, result, target, replica, written, job>>
    BY Zenon DEF Retry, MarkTaskToComplete, rdmaVars
<1>2. ThisTaskOK(t)
    BY Zenon DEF WriteInv, ThisTaskOK
<1>3. /\ At(result, result', t, result[t]) /\ At(replica, replica', t, replica[t])
      /\ At(target, target', t, target[t]) /\ At(written, written', t, written[t])
      /\ At(job, job', t, job[t])
    BY Zenon, <1>1, Steady
<1>4. CASE Retry(t)
    <2>1. replica[t] # "ended"
        BY Zenon, <1>2, <1>4 DEF Retry, ShouldRetry, ThisTaskOK, TaskOK
    <2>2. At(pc, pc', t, "queued") /\ queue' = Append(queue, t)
        BY Zenon, <1>4, Assigned DEF Retry, Goto
    <2>3. QueueOK'
        BY Zenon, <1>1, <2>2, QueueAppends
    <2> QED
        BY Zenon, <1>1, <1>3, <2>1, <2>2, <2>3, QuietStep
<1>5. CASE MarkTaskToComplete(t)
    <2>1. At(pc, pc', t, "done") /\ queue' = queue
        BY Zenon, <1>5, Assigned DEF MarkTaskToComplete, Goto
    <2>2. TaskOK(object[t].size, "done", result[t], target[t], replica[t], written[t], job[t])
        BY Zenon, <1>2 DEF ThisTaskOK, TaskOK
    <2>3. QueueOK'
        BY Zenon, <1>1, <2>1, QueueStays
    <2> QED
        BY Zenon, <1>1, <1>3, <2>1, <2>2, <2>3, OneTask
<1> QED
    BY Zenon, <1>4, <1>5

\* Every step keeps the invariant.
LEMMA WriteInvStep ==
    ASSUME WriteInv, [Next]_vars
    PROVE  WriteInv'
<1>1. CASE RegistrationStep /\ UNCHANGED taskVars
    <2>1. job' = job
        BY Zenon, <1>1 DEF RegistrationStep, Register, RegisterContext, RegisterEnd, Unregister,
           UnregisterContext, UnregisterEnd, Deactivate
    <2> QED
        BY Zenon, <1>1, <2>1 DEF taskVars, WriteInv, QueueOK
<1>2. CASE UNCHANGED vars
    BY Zenon, <1>2 DEF vars, rdmaVars, taskVars, WriteInv, QueueOK
<1> QED
    BY Zenon, <1>1, <1>2, PollWrites, WorkWrites, StartWrites, SourceWrites, TransferWrites,
       WaitWrites, SliceWrites, EndWrites, RevokeWrites, ReportWrites DEF Next, TaskStep

\* At first no task has started.
LEMMA WriteInvInit ==
    Init => WriteInv
<1> SUFFICES ASSUME Init PROVE WriteInv
    BY Zenon
<1>1. /\ object \in [Task -> Object] /\ queue = <<>> /\ job = [t \in Task |-> NoJob]
      /\ pc = [t \in Task |-> "assigned"] /\ result = [t \in Task |-> "OK"]
      /\ target = [t \in Task |-> 0] /\ replica = [t \in Task |-> "none"]
      /\ written = [t \in Task |-> <<>>]
    BY Zenon, TaskAssumption DEF Init, RdmaInit
<1>2. QueueOK
    BY <1>1 DEF QueueOK
<1>3. ASSUME NEW size \in Nat PROVE TaskOK(size, "assigned", "OK", 0, "none", <<>>, NoJob)
    <2>1. IsJob(NoJob, size)
        <3>1. /\ IsRecord(NoJob) /\ NoJob.slices = {} /\ NoJob.slice_count = 0
              /\ NoJob.success = 0 /\ NoJob.failed = 0
            BY Zenon DEF IsRecord, NoJob
        <3>2. 0 \in Nat /\ Cardinality({}) <= 0 /\ IsFiniteSet({})
            BY FS_EmptySet
        <3> QED
            BY Zenon, <3>1, <3>2, NewJobOK
    <2>2. <<>> \in Seq(SUBSET (0..(size - 1))) /\ 0 \in 0..Len(<<>>)
        OBVIOUS
    <2> QED
        BY Zenon, <2>1, <2>2 DEF TaskOK
<1>4. \A t \in Task : object[t].size \in Nat
    BY <1>1, TaskAssumption
<1>5. ASSUME NEW t \in Task
      PROVE  TaskOK(object[t].size, pc[t], result[t], target[t], replica[t], written[t], job[t])
    BY Zenon, <1>1, <1>3, <1>4
<1> QED
    BY Zenon, <1>1, <1>2, <1>5 DEF WriteInv, IsTaskFunction

\* Replicas that a task has ended hold every byte of the object, for every size of
\* object, block and fragment: a copy or move that was refused, lost an answer, or
\* had slices fail, also slices that outlive their submission, never ends with a
\* target that is not written in full.
THEOREM EndedReplicasAreWritten == Spec => []EndedIsWritten
<1>1. WriteInv /\ [Next]_vars => WriteInv'
    BY Zenon, WriteInvStep
<1>2. WriteInv => EndedIsWritten
    <2> SUFFICES ASSUME WriteInv, NEW t \in Task, replica[t] = "ended",
                        NEW i \in DOMAIN written[t]
                 PROVE  written[t][i] = 0..(object[t].size - 1)
        BY Zenon DEF EndedIsWritten
    <2>1. /\ target[t] = 0 /\ WrittenAbove(target[t], written[t], object[t].size)
          /\ written[t] \in Seq(SUBSET (0..(object[t].size - 1)))
        BY Zenon DEF WriteInv, TaskOK
    <2>2. i \in 1..Len(written[t])
        BY Zenon, <2>1, LenProperties
    <2>3. i > 0
        BY <2>2
    <2> QED
        BY Zenon, <2>1, <2>2, <2>3 DEF WrittenAbove
<1> QED
    BY <1>1, <1>2, WriteInvInit, PTL DEF Spec

-----------------------------------------------------------------------------
(* The types. *)

\* A buffer has been registered less often than the bound allows in all.
LEMMA RegistrationBound ==
    ASSUME RegTypes, NEW b \in Buffer, Cardinality(Registrations) < MaxReg
    PROVE  nreg[b] < MaxReg
<1> DEFINE Of(e) == {e} \X (1..nreg[e])
           All == {Of(e) : e \in Buffer}
           f == [e \in Buffer |-> Of(e)]
<1>1. ASSUME NEW e \in Buffer
      PROVE  IsFiniteSet(Of(e)) /\ Cardinality(Of(e)) = nreg[e]
    <2>1. nreg[e] \in Nat
        BY Zenon DEF RegTypes
    <2>2. IsFiniteSet(1..nreg[e]) /\ Cardinality(1..nreg[e]) = nreg[e]
        BY <2>1, FS_Interval
    <2>3. IsFiniteSet({e}) /\ Cardinality({e}) = 1
        BY Zenon, FS_Singleton
    <2>4. IsFiniteSet(Of(e)) /\ Cardinality(Of(e)) = Cardinality({e}) * Cardinality(1..nreg[e])
        BY Zenon, <2>2, <2>3, FS_Product
    <2> QED
        BY <2>1, <2>2, <2>3, <2>4
<1>2. f \in Surjection(Buffer, All)
    BY Zenon DEF Surjection
<1>3. IsFiniteSet(All)
    BY Zenon, <1>2, FS_Surjection, BufferAssumption
<1>4. Registrations = UNION All
    BY Zenon DEF Registrations
<1>5. IsFiniteSet(Registrations)
    BY Zenon, <1>1, <1>3, <1>4, FS_UNION
<1>6. Of(b) \in SUBSET Registrations
    BY Zenon, <1>4
<1>7. Cardinality(Of(b)) <= Cardinality(Registrations)
    BY Zenon, <1>5, <1>6, FS_Subset
<1>8. Cardinality(Registrations) \in Nat
    BY Zenon, <1>5, FS_CardinalityType
<1>9. Cardinality(Of(b)) = nreg[b] /\ nreg[b] \in Nat
    BY Zenon, <1>1 DEF RegTypes
<1> HIDE DEF Of
<1> QED
    BY <1>7, <1>8, <1>9, RdmaBounds

\* Entries and keys carry the number of a registration that has been made.
RegBounds ==
    /\ parallel \in BOOLEAN
    /\ \A b \in Buffer : nreg[b] <= MaxReg
    /\ \A c \in Context, b \in Buffer : memory_region_map[c][b] <= nreg[b]
    /\ \A c \in Context : \A k \in live[c] : k[2] # 0 /\ k[2] <= nreg[k[1]]

\* The steps that leave the registrations alone keep their bounds.
LEMMA RegBoundsStay ==
    ASSUME RegBounds, UNCHANGED <<parallel, nreg, memory_region_map, live>>
    PROVE  RegBounds'
BY Zenon DEF RegBounds

\* A new registration has the next number.
LEMMA RegisterBounds ==
    ASSUME RegInv, RegBounds, NEW b \in Buffer, Register(b)
    PROVE  RegBounds'
<1>1. /\ nreg' = [nreg EXCEPT ![b] = @ + 1] /\ Cardinality(Registrations) < MaxReg
      /\ UNCHANGED <<parallel, memory_region_map, live>>
    BY Zenon DEF Register
<1>2. RegTypes
    BY Zenon DEF RegInv
<1>3. nreg[b] < MaxReg
    BY Zenon, <1>1, <1>2, RegistrationBound
<1>4. \A e \in Buffer : nreg[e] \in Nat /\ nreg'[e] = IF e = b THEN nreg[e] + 1 ELSE nreg[e]
    BY <1>1, <1>2 DEF RegTypes
<1>5. \A e \in Buffer : nreg'[e] <= MaxReg /\ \A m \in Nat : m <= nreg[e] => m <= nreg'[e]
    BY <1>3, <1>4, RdmaBounds DEF RegBounds
<1>6. /\ \A c \in Context, e \in Buffer : memory_region_map[c][e] \in Nat
      /\ \A c \in Context : \A k \in live[c] : k[1] \in Buffer /\ k[2] \in Nat
    BY <1>2 DEF RegTypes
<1> QED
    BY Zenon, <1>1, <1>5, <1>6 DEF RegBounds

\* A context registers the buffer under the number of the registration.
LEMMA RegisterContextBounds ==
    ASSUME RegInv, RegBounds, NEW b \in Buffer, RegisterContext(b)
    PROVE  RegBounds'
<1>1. RegTypes
    BY Zenon DEF RegInv
<1>2. UNCHANGED <<parallel, nreg>> /\ nreg[b] # 0
    BY Zenon DEF RegisterContext, RegInv, OperationsKeepEntries
<1>3. CASE UNCHANGED <<memory_region_map, live>>
    BY Zenon, <1>2, <1>3, RegBoundsStay
<1>4. ASSUME NEW c \in Context, registerMemoryRegion(c, b)
      PROVE  RegBounds'
    <2>1. nreg[b] \in Nat /\ nreg[b] <= nreg[b]
        BY <1>1 DEF RegTypes
    <2>2. \A d \in Context, e \in Buffer :
            \/ memory_region_map'[d][e] = memory_region_map[d][e]
            \/ e = b /\ memory_region_map'[d][e] = nreg[b]
        BY <1>1, <1>4 DEF RegTypes, registerMemoryRegion
    <2>3. \A d \in Context : live'[d] \subseteq live[d] \union {<<b, nreg[b]>>}
        BY <1>1, <1>4 DEF RegTypes, registerMemoryRegion, registerMemoryRegionInternal
    <2>4. \A d \in Context : \A k \in live'[d] : k[2] # 0 /\ k[2] <= nreg[k[1]]
        <3> SUFFICES ASSUME NEW d \in Context, NEW k \in live'[d]
                     PROVE  k[2] # 0 /\ k[2] <= nreg[k[1]]
            BY Zenon
        <3>1. CASE k \in live[d]
            BY Zenon, <3>1 DEF RegBounds
        <3>2. CASE k = <<b, nreg[b]>>
            BY <3>2, <1>2, <2>1
        <3> QED
            BY Zenon, <2>3, <3>1, <3>2
    <2>5. \A d \in Context, e \in Buffer : memory_region_map'[d][e] <= nreg[e]
        BY Zenon, <2>1, <2>2 DEF RegBounds
    <2> QED
        BY Zenon, <1>2, <2>4, <2>5 DEF RegBounds
<1>5. Turn(op[b]) \subseteq Context
    BY <1>1 DEF RegTypes, Turn
<1> QED
    BY Zenon, <1>3, <1>4, <1>5 DEF RegisterContext

\* Entries and keys that a context gives back leave the others as they are.
LEMMA UnregisterContextBounds ==
    ASSUME RegInv, RegBounds, NEW b \in Buffer, UnregisterContext(b)
    PROVE  RegBounds'
<1>1. RegTypes
    BY Zenon DEF RegInv
<1>2. UNCHANGED <<parallel, nreg>>
    BY Zenon DEF UnregisterContext
<1>3. CASE UNCHANGED <<memory_region_map, live>>
    BY Zenon, <1>2, <1>3, RegBoundsStay
<1>4. ASSUME NEW c \in Context, unregisterMemoryRegion(c, b)
      PROVE  RegBounds'
    <2>1. \A d \in Context, e \in Buffer :
            memory_region_map'[d][e] \in {memory_region_map[d][e], 0}
        BY <1>1, <1>4 DEF RegTypes, unregisterMemoryRegion
    <2>2. \A d \in Context : live'[d] \subseteq live[d]
        BY <1>1, <1>4 DEF RegTypes, unregisterMemoryRegion
    <2>3. \A e \in Buffer : 0 <= nreg[e]
        BY <1>1 DEF RegTypes
    <2> QED
        BY Zenon, <1>2, <2>1, <2>2, <2>3 DEF RegBounds
<1>5. Turn(op[b]) \subseteq Context
    BY <1>1 DEF RegTypes, Turn
<1> QED
    BY Zenon, <1>3, <1>4, <1>5 DEF UnregisterContext

\* Every step keeps the bounds.
LEMMA RegBoundsStep ==
    ASSUME RegInv, RegBounds, [Next]_vars
    PROVE  RegBounds'
<1>1. CASE \E t \in Task : PollAndDispatchTasks(t) \/ TaskStep(t) \/ SliceEnds(t)
    BY Zenon, <1>1, TasksLeaveRegistrations, RegBoundsStay DEF regs
<1>2. CASE Work \/ UNCHANGED vars
    BY Zenon, <1>2, RegBoundsStay DEF Work, vars, rdmaVars, regs
<1>3. CASE RegistrationStep
    <2>1. CASE Deactivate
        BY Zenon, <2>1, RegBoundsStay DEF Deactivate, regs
    <2>2. ASSUME NEW b \in Buffer, RegisterEnd(b) \/ Unregister(b) \/ UnregisterEnd(b)
          PROVE  RegBounds'
        BY Zenon, <2>2, RegBoundsStay DEF RegisterEnd, Unregister, UnregisterEnd
    <2> QED
        BY Zenon, <1>3, <2>1, <2>2, RegisterBounds, RegisterContextBounds,
           UnregisterContextBounds DEF RegistrationStep
<1> QED
    BY Zenon, <1>1, <1>2, <1>3 DEF Next

\* A step spends one fault of the budget or none.
LEMMA FaultStep ==
    ASSUME faults \in 0..MaxFaults, [Next]_vars
    PROVE  faults' \in 0..MaxFaults
<1>1. faults' = faults \/ (MayFault /\ faults' = faults + 1)
    <2>1. CASE RegistrationStep
        BY Zenon, <2>1 DEF RegistrationStep, Register, RegisterContext, RegisterEnd, Unregister,
           UnregisterContext, UnregisterEnd, Deactivate
    <2>2. ASSUME NEW t \in Task, PollAndDispatchTasks(t) \/ TaskStep(t)
          PROVE  faults' = faults \/ (MayFault /\ faults' = faults + 1)
        BY Zenon, <2>2 DEF PollAndDispatchTasks, TaskStep, StartRefused, StartLost, StartOk,
           CheckSource, TransferWrite, submitTransferTask, Wait, End, Revoke, Retry,
           MarkTaskToComplete, Fault, rdmaVars
    <2>3. ASSUME NEW t \in Task, SliceEnds(t)
          PROVE  faults' = faults \/ (MayFault /\ faults' = faults + 1)
        BY Zenon, <2>3 DEF SliceEnds, SliceOk, SliceFails
    <2>4. CASE Work \/ UNCHANGED vars
        BY Zenon, <2>4 DEF Work, vars, rdmaVars
    <2> QED
        BY Zenon, <2>1, <2>2, <2>3, <2>4 DEF Next
<1> QED
    BY <1>1, RdmaBounds DEF MayFault

\* Only a port that goes down changes which devices are active.
LEMMA ActiveStep ==
    ASSUME active \in [Context -> BOOLEAN], [Next]_vars
    PROVE  active' \in [Context -> BOOLEAN]
<1>1. CASE RegistrationStep
    <2>1. CASE Deactivate
        <3>1. PICK c \in Context : active' = [active EXCEPT ![c] = FALSE]
            BY Zenon, <2>1 DEF Deactivate
        <3> QED
            BY <3>1
    <2>2. CASE UNCHANGED active
        BY Zenon, <2>2
    <2> QED
        BY Zenon, <1>1, <2>1, <2>2 DEF RegistrationStep, Register, RegisterContext, RegisterEnd,
           Unregister, UnregisterContext, UnregisterEnd
<1>2. ASSUME NEW t \in Task, PollAndDispatchTasks(t) \/ TaskStep(t)
      PROVE  active' = active
    BY Zenon, <1>2 DEF PollAndDispatchTasks, TaskStep, StartRefused, StartLost, StartOk,
       CheckSource, TransferWrite, submitTransferTask, Wait, End, Revoke, Retry,
       MarkTaskToComplete, rdmaVars
<1>3. ASSUME NEW t \in Task, SliceEnds(t)
      PROVE  active' = active
    BY Zenon, <1>3 DEF SliceEnds, SliceOk, SliceFails
<1>4. CASE Work \/ UNCHANGED vars
    BY Zenon, <1>4 DEF Work, vars, rdmaVars
<1> QED
    BY Zenon, <1>1, <1>2, <1>3, <1>4 DEF Next

ReplicaStates == {"none", "processing", "ended", "revoked"}

TaskTypes ==
    /\ retry_count \in [Task -> 0..MaxRetry]
    /\ target \in [Task -> 0..MaxTargets]
    /\ replica \in [Task -> ReplicaStates]

\* A step of a task retries while attempts are left, takes its targets from an
\* answer or has one less, and moves its replicas on.
LEMMA TaskMoves ==
    ASSUME WriteInv, NEW t \in Task, TaskStep(t)
    PROVE  /\ \/ retry_count' = retry_count
              \/ retry_count[t] < MaxRetry /\ retry_count' = [retry_count EXCEPT ![t] = @ + 1]
           /\ \/ target' = target
              \/ \E n \in 0..MaxTargets : target' = [target EXCEPT ![t] = n]
              \/ target[t] # 0 /\ target' = [target EXCEPT ![t] = @ - 1]
           /\ \/ replica' = replica
              \/ \E k \in ReplicaStates : replica' = [replica EXCEPT ![t] = k]
              \/ replica' = [replica EXCEPT ![t] = IF @ = "ended" THEN @ ELSE "revoked"]
<1>1. /\ "processing" \in ReplicaStates /\ "ended" \in ReplicaStates
    BY Zenon DEF ReplicaStates
<1>2. CASE StartRefused(t) \/ CheckSource(t) \/ TransferWrite(t) \/ MarkTaskToComplete(t)
    BY Zenon, <1>2 DEF StartRefused, CheckSource, TransferWrite, MarkTaskToComplete
<1>3. CASE StartLost(t) \/ End(t)
    BY Zenon, <1>1, <1>3 DEF StartLost, End
<1>4. CASE StartOk(t)
    BY Zenon, <1>1, <1>4 DEF StartOk
<1>5. CASE Revoke(t)
    BY Zenon, <1>5 DEF Revoke
<1>6. CASE Retry(t)
    BY Zenon, <1>6 DEF Retry, ShouldRetry
<1>7. CASE Wait(t)
    <2>1. target[t] # 0
        BY Zenon, <1>7 DEF Wait, WriteInv, TaskOK
    <2> QED
        BY Zenon, <1>7, <2>1 DEF Wait
<1> QED
    BY Zenon, <1>2, <1>3, <1>4, <1>5, <1>6, <1>7 DEF TaskStep

\* Every step keeps the types of the tasks' variables.
LEMMA TaskTypesStep ==
    ASSUME WriteInv, TaskTypes, [Next]_vars
    PROVE  TaskTypes'
<1>1. ASSUME NEW t \in Task, TaskStep(t)
      PROVE  TaskTypes'
    <2>1. retry_count' \in [Task -> 0..MaxRetry]
        <3>1. CASE retry_count' = retry_count
            BY Zenon, <3>1 DEF TaskTypes
        <3>2. CASE retry_count[t] < MaxRetry /\ retry_count' = [retry_count EXCEPT ![t] = @ + 1]
            BY <3>2, TaskAssumption DEF TaskTypes
        <3> QED
            BY Zenon, <1>1, <3>1, <3>2, TaskMoves
    <2>2. target' \in [Task -> 0..MaxTargets]
        <3>1. CASE target' = target
            BY Zenon, <3>1 DEF TaskTypes
        <3>2. ASSUME NEW n \in 0..MaxTargets, target' = [target EXCEPT ![t] = n]
              PROVE  target' \in [Task -> 0..MaxTargets]
            BY Zenon, <3>2 DEF TaskTypes
        <3>3. CASE target[t] # 0 /\ target' = [target EXCEPT ![t] = @ - 1]
            BY <3>3, TaskAssumption DEF TaskTypes
        <3> QED
            BY Zenon, <1>1, <3>1, <3>2, <3>3, TaskMoves
    <2>3. replica' \in [Task -> ReplicaStates]
        <3>1. CASE replica' = replica
            BY Zenon, <3>1 DEF TaskTypes
        <3>2. ASSUME NEW k \in ReplicaStates, replica' = [replica EXCEPT ![t] = k]
              PROVE  replica' \in [Task -> ReplicaStates]
            BY Zenon, <3>2 DEF TaskTypes
        <3>3. CASE replica' = [replica EXCEPT ![t] = IF @ = "ended" THEN @ ELSE "revoked"]
            BY <3>3 DEF TaskTypes, ReplicaStates
        <3> QED
            BY Zenon, <1>1, <3>1, <3>2, <3>3, TaskMoves
    <2> QED
        BY Zenon, <2>1, <2>2, <2>3 DEF TaskTypes
<1>2. CASE UNCHANGED <<retry_count, target, replica>>
    BY Zenon, <1>2 DEF TaskTypes
<1>3. ASSUME NEW t \in Task, PollAndDispatchTasks(t) \/ SliceEnds(t)
      PROVE  UNCHANGED <<retry_count, target, replica>>
    BY Zenon, <1>3 DEF PollAndDispatchTasks, SliceEnds, taskVars
<1>4. CASE Work \/ UNCHANGED taskVars \/ UNCHANGED vars
    BY Zenon, <1>2, <1>4 DEF Work, vars, taskVars
<1> QED
    BY Zenon, <1>1, <1>2, <1>3, <1>4 DEF Next

\* The descriptor names every published buffer once.
LEMMA PublishedOnce ==
    ASSUME RegInv
    PROVE  Len(buffers) = Cardinality(Published)
<1> DEFINE f == [i \in 1..Len(buffers) |-> buffers[i].buffer]
<1>1. DOMAIN buffers = 1..Len(buffers) /\ Len(buffers) \in Nat
    BY DescriptorTypes, LenProperties DEF RegInv, RegTypes
<1>2. f \in Surjection(1..Len(buffers), Published)
    BY Zenon, <1>1 DEF Published, Surjection
<1>3. f \in Injection(1..Len(buffers), Published)
    <2>1. f \in [1..Len(buffers) -> Published]
        BY Zenon, <1>1 DEF Published
    <2>2. \A i, j \in 1..Len(buffers) : buffers[i].buffer = buffers[j].buffer => i = j
        BY Zenon, <1>1 DEF RegInv, DescriptorMatches
    <2> QED
        BY Zenon, <2>1, <2>2 DEF Injection, IsInjective
<1>4. IsFiniteSet(1..Len(buffers)) /\ Cardinality(1..Len(buffers)) = Len(buffers)
    <2>1. 1 \in Int /\ Len(buffers) \in Int
        BY <1>1
    <2>2. /\ IsFiniteSet(1..Len(buffers))
          /\ Cardinality(1..Len(buffers))
               = IF 1 > Len(buffers) THEN 0 ELSE Len(buffers) - 1 + 1
        BY Zenon, <2>1, FS_Interval
    <2> QED
        BY <1>1, <2>2
<1> HIDE DEF f
<1> QED
    BY Zenon, <1>2, <1>3, <1>4, FS_Surjection

TypeInv ==
    /\ RegInv /\ RegBounds /\ WriteInv /\ TaskTypes
    /\ active \in [Context -> BOOLEAN] /\ faults \in 0..MaxFaults

\* All variables keep their types: a device holds keys of registrations that have
\* been made, the segment descriptor has a buffer once, no slice ends twice or is
\* forgotten, and nothing is written outside the object, for every number of
\* tasks, devices, buffers, registrations, targets, retries and faults.
THEOREM ReplicaTaskTypes == Spec => []TypeOK
<1>1. Init => TypeInv
    <2> SUFFICES ASSUME Init PROVE TypeInv
        BY Zenon
    <2>1. RegInv /\ WriteInv
        BY Zenon, RegInvInit, WriteInvInit
    <2>2. RegBounds
        <3>1. 0 <= 0 /\ 0 <= MaxReg
            BY RdmaBounds
        <3> QED
            BY Zenon, <3>1 DEF Init, RdmaInit, RegBounds
    <2>3. TaskTypes
        <3>1. 0 \in 0..MaxRetry /\ 0 \in 0..MaxTargets
            BY TaskAssumption
        <3> QED
            BY Zenon, <3>1 DEF Init, TaskTypes, ReplicaStates
    <2>4. active \in [Context -> BOOLEAN] /\ faults \in 0..MaxFaults
        BY RdmaBounds DEF Init, RdmaInit
    <2> QED
        BY Zenon, <2>1, <2>2, <2>3, <2>4 DEF TypeInv
<1>2. TypeInv /\ [Next]_vars => TypeInv'
    BY Zenon, RegInvStep, RegBoundsStep, WriteInvStep, TaskTypesStep, ActiveStep, FaultStep
       DEF TypeInv
<1>3. TypeInv => TypeOK
    <2> SUFFICES ASSUME TypeInv PROVE TypeOK
        BY Zenon
    <2>1. RegTypes /\ RegBounds /\ WriteInv /\ TaskTypes
        BY Zenon DEF TypeInv, RegInv
    <2>2. RdmaTypeOK
        <3>1. nreg \in [Buffer -> 0..MaxReg]
            BY <2>1, RdmaBounds DEF RegTypes, RegBounds
        <3>2. memory_region_map \in [Context -> [Buffer -> 0..MaxReg]]
            <4>1. \A c \in Context, b \in Buffer : memory_region_map[c][b] \in 0..MaxReg
                BY <2>1, <3>1, RdmaBounds DEF RegTypes, RegBounds
            <4>2. ASSUME NEW c \in Context PROVE memory_region_map[c] \in [Buffer -> 0..MaxReg]
                <5>1. memory_region_map[c] \in [Buffer -> Nat]
                    BY Zenon, <2>1 DEF RegTypes
                <5> QED
                    BY Zenon, <4>1, <5>1
            <4> QED
                BY Zenon, <2>1, <4>2 DEF RegTypes
        <3>3. live \in [Context -> SUBSET (Buffer \X (1..MaxReg))]
            <4>1. ASSUME NEW c \in Context, NEW k \in live[c]
                  PROVE  k \in Buffer \X (1..MaxReg)
                <5>1. k \in Buffer \X Nat /\ k[2] # 0 /\ k[2] <= nreg[k[1]]
                    BY Zenon, <2>1 DEF RegTypes, RegBounds
                <5> QED
                    BY <3>1, <5>1, RdmaBounds
            <4>2. ASSUME NEW c \in Context PROVE live[c] \in SUBSET (Buffer \X (1..MaxReg))
                BY Zenon, <4>1
            <4> QED
                BY Zenon, <2>1, <4>2 DEF RegTypes
        <3>4. ASSUME NEW r \in Request
              PROVE  job[r].success + job[r].failed + Cardinality(job[r].slices)
                        <= job[r].slice_count
            BY Zenon, <2>1, TaskAssumption DEF WriteInv, TaskOK, IsJob
        <3>5. Len(buffers) = Cardinality(Published)
            BY Zenon, PublishedOnce DEF TypeInv
        <3> QED
            BY Zenon, <2>1, <3>1, <3>2, <3>3, <3>4, <3>5
               DEF RdmaTypeOK, TypeInv, RegTypes, RegBounds
    <2>3. \A t \in Task : retry_count[t] <= MaxRetry
        BY <2>1, TaskAssumption DEF TaskTypes
    <2>4. ASSUME NEW t \in Task, NEW i \in DOMAIN written[t]
          PROVE  written[t][i] \subseteq 0..(object[t].size - 1)
        <3>1. written[t] \in Seq(SUBSET (0..(object[t].size - 1)))
            BY Zenon, <2>1 DEF WriteInv, TaskOK
        <3>2. written[t][i] \in SUBSET (0..(object[t].size - 1))
            BY Zenon, <3>1, LenProperties, ElementOfSeq
        <3> QED
            BY Zenon, <3>2
    <2> QED
        BY Zenon, <2>1, <2>2, <2>3, <2>4 DEF TypeOK, TaskTypes, ReplicaStates
<1> QED
    BY <1>1, <1>2, <1>3, PTL DEF Spec
=============================================================================
