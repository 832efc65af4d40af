--------------------------- MODULE DummyShmProofs ---------------------------
(***************************************************************************)
(* The RealClient and its dummy clients, for any number of clients, shared *)
(* memories, addresses and faults: who owns mapped memory, that buffers    *)
(* stay for the client that holds them, and the types of all variables.    *)
(***************************************************************************)
EXTENDS DummyShm, SequenceTheorems, FiniteSetTheorems, TLAPS

Entry == [base : Shm, addr : Addr]

\* A context as far as its memory goes.
IsContext(ctx) ==
    /\ ctx = [shms |-> ctx.shms, allocator |-> ctx.allocator,
              used |-> ctx.used, active |-> ctx.active]
    /\ ctx.shms \in Seq(Entry)

ContextTypes ==
    /\ shm_contexts = [c \in DOMAIN shm_contexts |-> shm_contexts[c]]
    /\ \A c \in DOMAIN shm_contexts : IsContext(shm_contexts[c])

\* What a context lists is mapped and registered.
ListedIsMapped ==
    \A c \in DOMAIN shm_contexts : \A i \in DOMAIN shm_contexts[c].shms :
        shm_contexts[c].shms[i].addr \in mapped \cap te

\* What is mapped or registered is listed, or was given up.
MappedIsListed ==
    \A a \in mapped \union te :
        \/ a \in leaked
        \/ \E c \in DOMAIN shm_contexts : \E i \in DOMAIN shm_contexts[c].shms :
            shm_contexts[c].shms[i].addr = a

\* No address is listed twice.
ListedOnce ==
    \A c, d \in DOMAIN shm_contexts :
        \A i \in DOMAIN shm_contexts[c].shms, j \in DOMAIN shm_contexts[d].shms :
            shm_contexts[c].shms[i].addr = shm_contexts[d].shms[j].addr => c = d /\ i = j

\* An allocator lies in the local memory, which only goes with its context.
AllocatorIsLocal ==
    \A c \in DOMAIN shm_contexts :
        \/ shm_contexts[c].allocator = NoAddr
        \/ \E i \in DOMAIN shm_contexts[c].shms :
            /\ shm_contexts[c].shms[i].base = Local
            /\ shm_contexts[c].shms[i].addr = shm_contexts[c].allocator

OwnInv ==
    ContextTypes /\ ListedIsMapped /\ MappedIsListed /\ ListedOnce /\ AllocatorIsLocal

\* The pointwise form implies the property.
LEMMA OwnInvSuffices == OwnInv => ContextsOwnMemory
<1> SUFFICES ASSUME OwnInv PROVE ContextsOwnMemory
    BY Zenon
<1>1. \A a : a \in ContextAddrs <=>
        \E c \in DOMAIN shm_contexts : \E i \in DOMAIN shm_contexts[c].shms :
            shm_contexts[c].shms[i].addr = a
    BY DEF ContextAddrs, AddrsOf
<1>2. ContextAddrs \subseteq mapped \cap te
    BY Zenon, <1>1 DEF OwnInv, ListedIsMapped
<1>3. mapped \cup te \subseteq ContextAddrs \cup leaked
    BY Zenon, <1>1 DEF OwnInv, MappedIsListed
<1>4. \A c \in DOMAIN shm_contexts :
        shm_contexts[c].allocator \in AddrsOf(shm_contexts[c]) \cup {NoAddr}
    BY Zenon DEF OwnInv, AllocatorIsLocal, AddrsOf
<1> QED
    BY Zenon, <1>2, <1>3, <1>4 DEF ContextsOwnMemory, OwnInv, ListedOnce

\* Steps that leave the memory of every context alone.
LEMMA MemoryUntouched ==
    ASSUME OwnInv, UNCHANGED <<mapped, te, leaked>>,
           ContextTypes', DOMAIN shm_contexts' = DOMAIN shm_contexts,
           \A c \in DOMAIN shm_contexts :
            /\ shm_contexts'[c].shms = shm_contexts[c].shms
            /\ shm_contexts'[c].allocator = shm_contexts[c].allocator
    PROVE  OwnInv'
<1>1. ListedIsMapped' /\ ListedOnce'
    BY DEF OwnInv, ListedIsMapped, ListedOnce
<1>2. MappedIsListed'
    BY DEF OwnInv, MappedIsListed
<1>3. AllocatorIsLocal'
    BY Zenon DEF OwnInv, AllocatorIsLocal
<1> QED
    BY Zenon, <1>1, <1>2, <1>3 DEF OwnInv

\* A context is added or replaced, and the others stay.
LEMMA SetContextPointwise ==
    ASSUME ContextTypes, NEW c, NEW ctx, IsContext(ctx),
           shm_contexts' = SetContext(c, ctx)
    PROVE  /\ ContextTypes'
           /\ DOMAIN shm_contexts' = DOMAIN shm_contexts \cup {c}
           /\ shm_contexts'[c] = ctx
           /\ \A d \in DOMAIN shm_contexts : d # c => shm_contexts'[d] = shm_contexts[d]
<1>1. /\ DOMAIN shm_contexts' = DOMAIN shm_contexts \cup {c}
      /\ shm_contexts'[c] = ctx
      /\ \A d \in DOMAIN shm_contexts : d # c => shm_contexts'[d] = shm_contexts[d]
      /\ shm_contexts' = [d \in DOMAIN shm_contexts' |-> shm_contexts'[d]]
    BY Zenon DEF SetContext
<1>2. \A d \in DOMAIN shm_contexts' : IsContext(shm_contexts'[d])
    BY Zenon, <1>1 DEF ContextTypes
<1>3. ContextTypes'
    BY Zenon, <1>1, <1>2 DEF ContextTypes, IsContext
<1> QED
    BY Zenon, <1>1, <1>3

\* Two positions of what erase() leaves stand for two positions of what it was given.
LEMMA ShiftInjective ==
    ASSUME NEW i \in Int, NEW j \in Int, NEW l \in Int,
           (IF j < i THEN j ELSE j + 1) = (IF l < i THEN l ELSE l + 1)
    PROVE  j = l
OBVIOUS

StartContext(c) == IF HasContext(c) THEN shm_contexts[c] ELSE EmptyContext

\* The context that map_shm_internal_with_device starts from.
LEMMA StartingContext ==
    ASSUME OwnInv, NEW c,
           NEW ctx, ctx = StartContext(c)
    PROVE  /\ IsContext(ctx)
           /\ ctx.shms \in Seq(Entry) /\ DOMAIN ctx.shms = 1..Len(ctx.shms)
           /\ \A i \in DOMAIN ctx.shms : HasContext(c) /\ ctx = shm_contexts[c]
           /\ \/ ctx.allocator = NoAddr
              \/ \E i \in DOMAIN ctx.shms : /\ ctx.shms[i].base = Local
                                            /\ ctx.shms[i].addr = ctx.allocator
<1>1. CASE HasContext(c)
    <2>1. IsContext(ctx) /\ ctx.shms \in Seq(Entry)
        BY Zenon, <1>1 DEF OwnInv, ContextTypes, HasContext, IsContext, StartContext
    <2>2. DOMAIN ctx.shms = 1..Len(ctx.shms)
        BY Zenon, <2>1, LenProperties
    <2> QED
        BY Zenon, <1>1, <2>1, <2>2 DEF OwnInv, AllocatorIsLocal, HasContext, StartContext
<1>2. CASE ~HasContext(c)
    <2>1. ctx = [shms |-> <<>>, allocator |-> NoAddr, used |-> {}, active |-> {}]
        BY Zenon, <1>2 DEF EmptyContext, StartContext
    <2>2. <<>> \in Seq(Entry) /\ Len(<<>>) = 0 /\ DOMAIN <<>> = {}
        BY EmptySeq
    <2>3. ctx.shms = <<>> /\ ctx.allocator = NoAddr
        BY <2>1
    <2>4. IsContext(ctx)
        <3>1. ctx = [shms |-> ctx.shms, allocator |-> ctx.allocator,
                     used |-> ctx.used, active |-> ctx.active]
            BY Zenon, <2>1
        <3> QED
            BY Zenon, <3>1, <2>2, <2>3 DEF IsContext
    <2>5. ctx.shms \in Seq(Entry) /\ DOMAIN ctx.shms = 1..Len(ctx.shms)
        BY Zenon, <2>2, <2>3, LenProperties
    <2>6. DOMAIN ctx.shms = {}
        BY Zenon, <2>2, <2>3
    <2> QED
        BY Zenon, <2>3, <2>4, <2>5, <2>6
<1> QED
    BY Zenon, <1>1, <1>2

\* Mapping a memory, at an address where nothing is mapped.
LEMMA MapShmOkKeeps ==
    ASSUME OwnInv, NEW c, NEW s \in Shm, MapShmOk(c, s)
    PROVE  OwnInv'
<1>1. PICK ctx : ctx = StartContext(c)
    BY Zenon
<1>2. CASE UNCHANGED memory
    BY Zenon, <1>2, MemoryUntouched DEF memory, OwnInv, ContextTypes
<1>3. CASE ~UNCHANGED memory
    <2>1. PICK a \in Addr \ mapped :
            /\ shm_contexts' = SetContext(c,
                 [shms |-> Append(ctx.shms, [base |-> s, addr |-> a]),
                  allocator |-> IF s = Local THEN a ELSE ctx.allocator,
                  used |-> ctx.used, active |-> ctx.active])
            /\ mapped' = mapped \cup {a}
            /\ te' = te \cup {a}
            /\ leaked' = leaked
        BY Zenon, <1>1, <1>3 DEF MapShmOk, StartContext
    <2>2. PICK new : new = [shms |-> Append(ctx.shms, [base |-> s, addr |-> a]),
                            allocator |-> IF s = Local THEN a ELSE ctx.allocator,
                            used |-> ctx.used, active |-> ctx.active]
        BY Zenon
    <2>3. /\ IsContext(ctx)
          /\ ctx.shms \in Seq(Entry) /\ DOMAIN ctx.shms = 1..Len(ctx.shms)
          /\ \A i \in DOMAIN ctx.shms : HasContext(c) /\ ctx = shm_contexts[c]
          /\ \/ ctx.allocator = NoAddr
             \/ \E i \in DOMAIN ctx.shms : /\ ctx.shms[i].base = Local
                                           /\ ctx.shms[i].addr = ctx.allocator
        BY Zenon, <1>1, StartingContext
    <2>4. PICK e \in Entry : e = [base |-> s, addr |-> a]
        BY Zenon DEF Entry
    <2>5. /\ new.shms \in Seq(Entry)
          /\ Len(new.shms) = Len(ctx.shms) + 1
          /\ \A i \in 1..Len(ctx.shms) : new.shms[i] = ctx.shms[i]
          /\ new.shms[Len(ctx.shms) + 1] = e
        BY <2>2, <2>3, <2>4, AppendProperties
    <2>6. Len(ctx.shms) \in Nat /\ DOMAIN new.shms = 1..(Len(ctx.shms) + 1)
        BY Zenon, <2>3, <2>5, LenProperties
    <2>7. IsContext(new)
        BY Zenon, <2>2, <2>5 DEF IsContext
    <2>8. /\ ContextTypes'
          /\ DOMAIN shm_contexts' = DOMAIN shm_contexts \cup {c}
          /\ shm_contexts'[c] = new
          /\ \A d \in DOMAIN shm_contexts : d # c => shm_contexts'[d] = shm_contexts[d]
        <3>1. ContextTypes
            BY Zenon DEF OwnInv
        <3>2. shm_contexts' = SetContext(c, new)
            BY Zenon, <2>1, <2>2
        <3> QED
            BY Zenon, <3>1, <3>2, <2>7, SetContextPointwise
    \* An entry of the new state is the new one or an old one.
    <2>9. \A d \in DOMAIN shm_contexts' : \A i \in DOMAIN shm_contexts'[d].shms :
            \/ d = c /\ i = Len(ctx.shms) + 1 /\ shm_contexts'[d].shms[i] = e
            \/ /\ d \in DOMAIN shm_contexts /\ i \in DOMAIN shm_contexts[d].shms
               /\ shm_contexts'[d].shms[i] = shm_contexts[d].shms[i]
        <3> SUFFICES ASSUME NEW d \in DOMAIN shm_contexts',
                            NEW i \in DOMAIN shm_contexts'[d].shms
                     PROVE  \/ d = c /\ i = Len(ctx.shms) + 1 /\ shm_contexts'[d].shms[i] = e
                            \/ /\ d \in DOMAIN shm_contexts
                               /\ i \in DOMAIN shm_contexts[d].shms
                               /\ shm_contexts'[d].shms[i] = shm_contexts[d].shms[i]
            BY Zenon
        <3>1. CASE d # c
            BY Zenon, <3>1, <2>8
        <3>2. CASE d = c
            <4>1. i \in 1..(Len(ctx.shms) + 1) /\ shm_contexts'[d].shms = new.shms
                BY Zenon, <3>2, <2>6, <2>8
            <4>2. CASE i = Len(ctx.shms) + 1
                BY Zenon, <3>2, <4>1, <4>2, <2>5
            <4>3. CASE i # Len(ctx.shms) + 1
                <5>1. i \in DOMAIN ctx.shms /\ new.shms[i] = ctx.shms[i]
                    BY <4>1, <4>3, <2>3, <2>5, <2>6
                <5>2. c \in DOMAIN shm_contexts /\ ctx = shm_contexts[c]
                    BY Zenon, <5>1, <2>3 DEF HasContext
                <5> QED
                    BY Zenon, <3>2, <4>1, <5>1, <5>2
            <4> QED
                BY Zenon, <4>2, <4>3
        <3> QED
            BY Zenon, <3>1, <3>2
    <2>10. \A d \in DOMAIN shm_contexts : \A i \in DOMAIN shm_contexts[d].shms :
            /\ d \in DOMAIN shm_contexts' /\ i \in DOMAIN shm_contexts'[d].shms
            /\ shm_contexts'[d].shms[i] = shm_contexts[d].shms[i]
        <3>1. c \in DOMAIN shm_contexts => ctx = shm_contexts[c]
            BY Zenon, <1>1 DEF StartContext, HasContext
        <3> QED
            BY <3>1, <2>3, <2>5, <2>6, <2>8
    <2>11. e.addr = a /\ e.base = s
        BY Zenon, <2>4
    <2>12. ListedIsMapped'
        <3>1. \A d \in DOMAIN shm_contexts : \A i \in DOMAIN shm_contexts[d].shms :
                shm_contexts[d].shms[i].addr \in mapped' \cap te'
            BY Zenon, <2>1 DEF OwnInv, ListedIsMapped
        <3>2. e.addr \in mapped' \cap te'
            BY Zenon, <2>1, <2>11
        <3> QED
            BY Zenon, <3>1, <3>2, <2>9 DEF ListedIsMapped
    <2>13. MappedIsListed'
        <3>1. c \in DOMAIN shm_contexts' /\ Len(ctx.shms) + 1 \in DOMAIN shm_contexts'[c].shms
              /\ shm_contexts'[c].shms[Len(ctx.shms) + 1].addr = a
            BY <2>5, <2>6, <2>8, <2>11
        <3> QED
            <4> SUFFICES ASSUME NEW x \in mapped' \union te', x \notin leaked'
                         PROVE  \E d \in DOMAIN shm_contexts' :
                                    \E i \in DOMAIN shm_contexts'[d].shms :
                                        shm_contexts'[d].shms[i].addr = x
                BY Zenon DEF MappedIsListed
            <4>1. CASE x = a
                BY Zenon, <3>1, <4>1
            <4>2. CASE x # a
                <5>1. \E d \in DOMAIN shm_contexts : \E i \in DOMAIN shm_contexts[d].shms :
                        shm_contexts[d].shms[i].addr = x
                    BY Zenon, <4>2, <2>1 DEF OwnInv, MappedIsListed
                <5> QED
                    BY Zenon, <5>1, <2>10
            <4> QED
                BY Zenon, <4>1, <4>2
    <2>14. ListedOnce'
        <3>1. \A d \in DOMAIN shm_contexts : \A i \in DOMAIN shm_contexts[d].shms :
                shm_contexts[d].shms[i].addr # a
            BY Zenon, <2>1 DEF OwnInv, ListedIsMapped
        <3> QED
            BY <3>1, <2>9, <2>11 DEF OwnInv, ListedOnce
    <2>15. AllocatorIsLocal'
        <3>1. CASE s = Local
            <4>1. new.allocator = a
                BY Zenon, <3>1, <2>2
            <4>2. /\ Len(ctx.shms) + 1 \in DOMAIN new.shms
                  /\ new.shms[Len(ctx.shms) + 1].base = Local
                  /\ new.shms[Len(ctx.shms) + 1].addr = a
                BY <3>1, <2>5, <2>6, <2>11
            <4> QED
                BY Zenon, <4>1, <4>2, <2>8 DEF OwnInv, AllocatorIsLocal
        <3>2. CASE s # Local
            <4>1. new.allocator = ctx.allocator
                BY Zenon, <3>2, <2>2
            <4>2. \A i \in DOMAIN ctx.shms : i \in DOMAIN new.shms /\ new.shms[i] = ctx.shms[i]
                BY <2>3, <2>5, <2>6
            <4>3. \/ new.allocator = NoAddr
                  \/ \E i \in DOMAIN new.shms : /\ new.shms[i].base = Local
                                                /\ new.shms[i].addr = new.allocator
                BY Zenon, <4>1, <4>2, <2>3
            <4> QED
                BY Zenon, <4>3, <2>8 DEF OwnInv, AllocatorIsLocal
        <3> QED
            BY Zenon, <3>1, <3>2
    <2> QED
        BY Zenon, <2>8, <2>12, <2>13, <2>14, <2>15 DEF OwnInv
<1> QED
    BY Zenon, <1>2, <1>3

\* A failed mapping leaves at most an empty context behind.
LEMMA MapShmFailsKeeps ==
    ASSUME OwnInv, NEW c, NEW s \in Shm, MapShmFails(c, s)
    PROVE  OwnInv'
<1>1. PICK ctx : ctx = StartContext(c)
    BY Zenon
<1>2. /\ shm_contexts' = shm_contexts \/ shm_contexts' = SetContext(c, ctx)
      /\ UNCHANGED <<mapped, te, leaked>>
    BY Zenon, <1>1 DEF MapShmFails, StartContext
<1>3. CASE shm_contexts' = shm_contexts
    BY Zenon, <1>2, <1>3, MemoryUntouched DEF OwnInv, ContextTypes
<1>4. CASE shm_contexts' = SetContext(c, ctx)
    <2>1. /\ IsContext(ctx)
          /\ ctx.shms \in Seq(Entry) /\ DOMAIN ctx.shms = 1..Len(ctx.shms)
          /\ \A i \in DOMAIN ctx.shms : HasContext(c) /\ ctx = shm_contexts[c]
          /\ \/ ctx.allocator = NoAddr
             \/ \E i \in DOMAIN ctx.shms : /\ ctx.shms[i].base = Local
                                           /\ ctx.shms[i].addr = ctx.allocator
        BY Zenon, <1>1, StartingContext
    <2>2. /\ ContextTypes'
          /\ DOMAIN shm_contexts' = DOMAIN shm_contexts \cup {c}
          /\ shm_contexts'[c] = ctx
          /\ \A d \in DOMAIN shm_contexts : shm_contexts'[d] = shm_contexts[d]
        <3>1. /\ ContextTypes'
              /\ DOMAIN shm_contexts' = DOMAIN shm_contexts \cup {c}
              /\ shm_contexts'[c] = ctx
              /\ \A d \in DOMAIN shm_contexts : d # c => shm_contexts'[d] = shm_contexts[d]
            BY Zenon, <1>4, <2>1, SetContextPointwise DEF OwnInv
        <3>2. c \in DOMAIN shm_contexts => ctx = shm_contexts[c]
            BY Zenon, <1>1 DEF StartContext, HasContext
        <3> QED
            BY Zenon, <3>1, <3>2
    <2>3. ListedIsMapped' /\ ListedOnce'
        <3>1. \A d \in DOMAIN shm_contexts' : \A i \in DOMAIN shm_contexts'[d].shms :
                /\ d \in DOMAIN shm_contexts
                /\ shm_contexts'[d] = shm_contexts[d]
            BY Zenon, <2>1, <2>2 DEF HasContext
        <3>2. ListedIsMapped'
            BY Zenon, <3>1, <1>2 DEF OwnInv, ListedIsMapped
        <3>3. ListedOnce'
            BY <3>1 DEF OwnInv, ListedOnce
        <3> QED
            BY Zenon, <3>2, <3>3
    <2>4. MappedIsListed'
        BY <1>2, <2>2 DEF OwnInv, MappedIsListed
    <2>5. AllocatorIsLocal'
        BY Zenon, <2>1, <2>2 DEF OwnInv, AllocatorIsLocal
    <2> QED
        BY Zenon, <2>2, <2>3, <2>4, <2>5 DEF OwnInv
<1> QED
    BY Zenon, <1>2, <1>3, <1>4

\* Unmapping a context; what follows a failed unregistration is given up.
LEMMA UnmapShmKeeps ==
    ASSUME OwnInv, NEW c, UnmapShm(c)
    PROVE  OwnInv'
<1>1. CASE ~HasContext(c)
    <2>1. UNCHANGED memory
        BY Zenon, <1>1 DEF UnmapShm
    <2> QED
        BY Zenon, <2>1, MemoryUntouched DEF memory, OwnInv, ContextTypes
<1>2. CASE HasContext(c)
    <2>1. PICK s : s = shm_contexts[c].shms
        BY Zenon
    <2>2. c \in DOMAIN shm_contexts /\ s \in Seq(Entry) /\ DOMAIN s = 1..Len(s)
          /\ Len(s) \in Nat
        BY Zenon, <1>2, <2>1, LenProperties DEF OwnInv, ContextTypes, IsContext, HasContext
    <2>3. PICK k \in 1..Len(s) + 1 :
            /\ mapped' = mapped \ {s[i].addr : i \in 1..k \cap DOMAIN s}
            /\ te' = te \ {s[i].addr : i \in 1..(k - 1)}
            /\ leaked' = leaked \cup {s[i].addr : i \in k..Len(s)}
            /\ shm_contexts' = DropContext(c)
        BY <1>2, <2>1 DEF UnmapShm
    <2>4. /\ DOMAIN shm_contexts' = DOMAIN shm_contexts \ {c}
          /\ \A d \in DOMAIN shm_contexts' : shm_contexts'[d] = shm_contexts[d]
          /\ shm_contexts' = [d \in DOMAIN shm_contexts' |-> shm_contexts'[d]]
        BY Zenon, <2>3 DEF DropContext
    <2>5. ContextTypes'
        BY Zenon, <2>4 DEF OwnInv, ContextTypes, IsContext
    <2>6. ListedOnce' /\ AllocatorIsLocal'
        BY <2>4 DEF OwnInv, ListedOnce, AllocatorIsLocal
    <2>7. ListedIsMapped'
        <3> SUFFICES ASSUME NEW d \in DOMAIN shm_contexts',
                            NEW j \in DOMAIN shm_contexts'[d].shms
                     PROVE  shm_contexts'[d].shms[j].addr \in mapped' \cap te'
            BY Zenon DEF ListedIsMapped
        <3>1. d # c /\ d \in DOMAIN shm_contexts /\ j \in DOMAIN shm_contexts[d].shms
              /\ shm_contexts'[d].shms[j] = shm_contexts[d].shms[j]
            BY Zenon, <2>4
        <3>2. \A i \in DOMAIN s : s[i].addr # shm_contexts[d].shms[j].addr
            BY Zenon, <3>1, <2>1, <2>2 DEF OwnInv, ListedOnce
        <3>3. shm_contexts[d].shms[j].addr \in mapped \cap te
            BY Zenon, <3>1 DEF OwnInv, ListedIsMapped
        <3>4. \A i \in 1..(k - 1) : i \in DOMAIN s
            BY <2>2
        <3> QED
            BY Zenon, <3>1, <3>2, <3>3, <3>4, <2>3
    <2>8. MappedIsListed'
        <3> SUFFICES ASSUME NEW a \in mapped' \union te', a \notin leaked'
                     PROVE  \E d \in DOMAIN shm_contexts' :
                                \E i \in DOMAIN shm_contexts'[d].shms :
                                    shm_contexts'[d].shms[i].addr = a
            BY Zenon DEF MappedIsListed
        <3>1. a \in mapped \union te /\ a \notin leaked
            BY Zenon, <2>3
        <3>2. PICK d \in DOMAIN shm_contexts : \E i \in DOMAIN shm_contexts[d].shms :
                shm_contexts[d].shms[i].addr = a
            BY Zenon, <3>1 DEF OwnInv, MappedIsListed
        <3>3. ASSUME d = c PROVE FALSE
            <4>1. PICK i \in DOMAIN s : s[i].addr = a
                BY Zenon, <3>2, <3>3, <2>1
            <4>2. ~(i \in k..Len(s))
                BY Zenon, <4>1, <2>3
            <4>3. i \in 1..(k - 1) /\ i \in 1..k \cap DOMAIN s
                BY <4>1, <4>2, <2>2
            <4> QED
                BY Zenon, <4>1, <4>3, <2>3
        <3> QED
            BY Zenon, <3>2, <3>3, <2>4
    <2> QED
        BY Zenon, <2>5, <2>6, <2>7, <2>8 DEF OwnInv
<1> QED
    BY Zenon, <1>1, <1>2

\* The elements of a sequence that has lost one.
LEMMA EraseElements ==
    ASSUME NEW S, NEW s \in Seq(S), NEW i \in 1..Len(s)
    PROVE  /\ Erase(s, i) \in Seq(S)
           /\ Len(Erase(s, i)) = Len(s) - 1
           /\ \A j \in 1..(Len(s) - 1) :
                Erase(s, i)[j] = IF j < i THEN s[j] ELSE s[j + 1]
<1> DEFINE front == SubSeq(s, 1, i - 1)
           back == SubSeq(s, i + 1, Len(s))
<1>1. Len(s) \in Nat
    OBVIOUS
<1>2. /\ front \in Seq(S) /\ Len(front) = i - 1
      /\ \A j \in 1..(i - 1) : front[j] = s[j]
    BY <1>1
<1>3. /\ back \in Seq(S) /\ Len(back) = Len(s) - i
      /\ \A j \in 1..(Len(s) - i) : back[j] = s[i + j]
    BY <1>1
<1>4. Erase(s, i) = front \o back
    BY Zenon DEF Erase
<1> HIDE DEF front, back
<1>5. /\ front \o back \in Seq(S) /\ Len(front \o back) = Len(s) - 1
      /\ \A j \in 1..(Len(s) - 1) :
           (front \o back)[j] = IF j < i THEN front[j] ELSE back[j - (i - 1)]
    <2>1. front \o back \in Seq(S) /\ Len(front \o back) = Len(front) + Len(back)
        BY Zenon, <1>2, <1>3, ConcatProperties
    <2>2. \A j \in 1..(Len(front) + Len(back)) :
            (front \o back)[j] = IF j <= Len(front) THEN front[j] ELSE back[j - Len(front)]
        BY Zenon, <1>2, <1>3, ConcatProperties
    <2> QED
        BY <1>1, <1>2, <1>3, <2>1, <2>2
<1>6. \A j \in 1..(Len(s) - 1) : ~(j < i) => back[j - (i - 1)] = s[j + 1]
    <2> SUFFICES ASSUME NEW j \in 1..(Len(s) - 1), ~(j < i)
                 PROVE  back[j - (i - 1)] = s[j + 1]
        BY Zenon
    <2>1. j - (i - 1) \in 1..(Len(s) - i) /\ i + (j - (i - 1)) = j + 1
        BY <1>1
    <2> QED
        BY Zenon, <1>3, <2>1
<1>7. \A j \in 1..(Len(s) - 1) : j < i => front[j] = s[j]
    <2> SUFFICES ASSUME NEW j \in 1..(Len(s) - 1), j < i
                 PROVE  front[j] = s[j]
        BY Zenon
    <2>1. j \in 1..(i - 1)
        BY <1>1
    <2> QED
        BY Zenon, <1>2, <2>1
<1>8. \A j \in 1..(Len(s) - 1) :
        (front \o back)[j] = IF j < i THEN s[j] ELSE s[j + 1]
    <2> SUFFICES ASSUME NEW j \in 1..(Len(s) - 1)
                 PROVE  (front \o back)[j] = IF j < i THEN s[j] ELSE s[j + 1]
        BY Zenon
    <2>1. CASE j < i
        BY Zenon, <1>5, <1>7, <2>1
    <2>2. CASE ~(j < i)
        BY Zenon, <1>5, <1>6, <2>2
    <2> QED
        BY Zenon, <2>1, <2>2
<1> QED
    BY Zenon, <1>4, <1>5, <1>8

\* Unregistering one memory, which is not the local one.
LEMMA UnregisterShmKeeps ==
    ASSUME OwnInv, NEW c, NEW s \in Shm \ {Local}, UnregisterShm(c, s)
    PROVE  OwnInv'
<1>1. PICK old : old = shm_contexts[c].shms
    BY Zenon
<1>2. PICK i \in DOMAIN old :
        /\ old[i].base = s
        /\ mapped' = mapped \ {old[i].addr}
        /\ te' = te \ {old[i].addr}
        /\ shm_contexts' = [shm_contexts EXCEPT ![c].shms = Erase(@, i)]
    BY Zenon, <1>1 DEF UnregisterShm
<1>3. c \in DOMAIN shm_contexts /\ leaked' = leaked
    BY Zenon DEF UnregisterShm, HasContext
<1>4. /\ old \in Seq(Entry) /\ DOMAIN old = 1..Len(old) /\ Len(old) \in Nat
      /\ IsContext(shm_contexts[c])
    BY Zenon, <1>1, <1>3, LenProperties DEF OwnInv, ContextTypes, IsContext
<1>5. PICK new : new = Erase(old, i)
    BY Zenon
<1>6. /\ new \in Seq(Entry)
      /\ Len(new) = Len(old) - 1
      /\ \A j \in 1..(Len(old) - 1) : new[j] = IF j < i THEN old[j] ELSE old[j + 1]
    BY Zenon, <1>2, <1>4, <1>5, EraseElements
<1>7. DOMAIN new = 1..(Len(old) - 1)
    BY Zenon, <1>6, LenProperties
\* The remaining entries, by their place in the old list.
<1>8. \A j \in DOMAIN new : \E k \in DOMAIN old :
        k # i /\ k = (IF j < i THEN j ELSE j + 1) /\ new[j] = old[k]
    BY <1>2, <1>4, <1>6, <1>7
<1>9. \A k \in DOMAIN old : k # i => \E j \in DOMAIN new : new[j] = old[k]
    <2> SUFFICES ASSUME NEW k \in DOMAIN old, k # i
                 PROVE  \E j \in DOMAIN new : new[j] = old[k]
        BY Zenon
    <2>1. CASE k < i
        BY <2>1, <1>2, <1>4, <1>6, <1>7
    <2>2. CASE k > i
        <3>1. k - 1 \in DOMAIN new /\ ~(k - 1 < i) /\ (k - 1) + 1 = k
            BY <2>2, <1>2, <1>4, <1>7
        <3>2. new[k - 1] = old[k]
            BY Zenon, <3>1, <1>6, <1>7
        <3> QED
            BY Zenon, <3>1, <3>2
    <2> QED
        BY <2>1, <2>2, <1>2, <1>4
<1>10. /\ DOMAIN shm_contexts' = DOMAIN shm_contexts
       /\ shm_contexts' = [d \in DOMAIN shm_contexts' |-> shm_contexts'[d]]
       /\ shm_contexts'[c] = [shm_contexts[c] EXCEPT !.shms = new]
       /\ \A d \in DOMAIN shm_contexts : d # c => shm_contexts'[d] = shm_contexts[d]
    BY Zenon, <1>1, <1>2, <1>3, <1>5 DEF OwnInv, ContextTypes
<1>11. /\ IsContext(shm_contexts'[c])
       /\ shm_contexts'[c].shms = new
       /\ shm_contexts'[c].allocator = shm_contexts[c].allocator
    BY Zenon, <1>4, <1>6, <1>10 DEF IsContext
<1>12. ContextTypes'
    <2>1. \A d \in DOMAIN shm_contexts' : IsContext(shm_contexts'[d])
        BY Zenon, <1>10, <1>11 DEF OwnInv, ContextTypes
    <2> QED
        BY Zenon, <2>1, <1>10 DEF ContextTypes, IsContext
\* Every entry that remains was there, at another address than the one removed.
<1>13. \A d \in DOMAIN shm_contexts' : \A j \in DOMAIN shm_contexts'[d].shms :
        \E k \in DOMAIN shm_contexts[d].shms :
            /\ shm_contexts'[d].shms[j] = shm_contexts[d].shms[k]
            /\ k = (IF d = c /\ ~(j < i) THEN j + 1 ELSE j)
            /\ d = c => k # i
    <2> SUFFICES ASSUME NEW d \in DOMAIN shm_contexts',
                        NEW j \in DOMAIN shm_contexts'[d].shms
                 PROVE  \E k \in DOMAIN shm_contexts[d].shms :
                            /\ shm_contexts'[d].shms[j] = shm_contexts[d].shms[k]
                            /\ k = (IF d = c /\ ~(j < i) THEN j + 1 ELSE j)
                            /\ d = c => k # i
        BY Zenon
    <2>1. CASE d = c
        BY Zenon, <2>1, <1>1, <1>8, <1>11
    <2>2. CASE d # c
        BY Zenon, <2>2, <1>10
    <2> QED
        BY Zenon, <2>1, <2>2
<1>14. \A d \in DOMAIN shm_contexts : \A k \in DOMAIN shm_contexts[d].shms :
        ~(d = c /\ k = i) => shm_contexts[d].shms[k].addr # old[i].addr
    BY <1>1, <1>2, <1>3 DEF OwnInv, ListedOnce
<1>15. ListedIsMapped'
    <2> SUFFICES ASSUME NEW d \in DOMAIN shm_contexts',
                        NEW j \in DOMAIN shm_contexts'[d].shms
                 PROVE  shm_contexts'[d].shms[j].addr \in mapped' \cap te'
        BY Zenon DEF ListedIsMapped
    <2>1. PICK k \in DOMAIN shm_contexts[d].shms :
            /\ shm_contexts'[d].shms[j] = shm_contexts[d].shms[k]
            /\ d = c => k # i
        BY Zenon, <1>13
    <2>2. shm_contexts[d].shms[k].addr \in mapped \cap te
        BY Zenon, <1>10 DEF OwnInv, ListedIsMapped
    <2>3. shm_contexts[d].shms[k].addr # old[i].addr
        BY Zenon, <2>1, <1>10, <1>14
    <2> QED
        BY <2>1, <2>2, <2>3, <1>2
<1>16. ListedOnce'
    <2> SUFFICES ASSUME NEW d \in DOMAIN shm_contexts', NEW e \in DOMAIN shm_contexts',
                        NEW j \in DOMAIN shm_contexts'[d].shms,
                        NEW l \in DOMAIN shm_contexts'[e].shms,
                        shm_contexts'[d].shms[j].addr = shm_contexts'[e].shms[l].addr
                 PROVE  d = e /\ j = l
        BY Zenon DEF ListedOnce
    <2>1. PICK k \in DOMAIN shm_contexts[d].shms :
            /\ shm_contexts'[d].shms[j] = shm_contexts[d].shms[k]
            /\ k = (IF d = c /\ ~(j < i) THEN j + 1 ELSE j)
        BY Zenon, <1>13
    <2>2. PICK m \in DOMAIN shm_contexts[e].shms :
            /\ shm_contexts'[e].shms[l] = shm_contexts[e].shms[m]
            /\ m = (IF e = c /\ ~(l < i) THEN l + 1 ELSE l)
        BY Zenon, <1>13
    <2>3. d = e /\ k = m
        BY <2>1, <2>2, <1>10 DEF OwnInv, ListedOnce
    <2>4. CASE d # c
        BY Zenon, <2>1, <2>2, <2>3, <2>4
    <2>5. CASE d = c
        <3>1. j \in Int /\ l \in Int /\ i \in Int
            BY <2>3, <2>5, <1>2, <1>4, <1>7, <1>11
        <3> QED
            <4>1. /\ k = IF j < i THEN j ELSE j + 1
                  /\ m = IF l < i THEN l ELSE l + 1
                BY Zenon, <2>1, <2>2, <2>3, <2>5
            <4> QED
                BY Zenon, <4>1, <3>1, <2>3, ShiftInjective
    <2> QED
        BY Zenon, <2>4, <2>5
<1>17. \A d \in DOMAIN shm_contexts : \A k \in DOMAIN shm_contexts[d].shms :
        ~(d = c /\ k = i) => \E j \in DOMAIN shm_contexts'[d].shms :
                                shm_contexts'[d].shms[j] = shm_contexts[d].shms[k]
    <2> SUFFICES ASSUME NEW d \in DOMAIN shm_contexts,
                        NEW k \in DOMAIN shm_contexts[d].shms, ~(d = c /\ k = i)
                 PROVE  \E j \in DOMAIN shm_contexts'[d].shms :
                            shm_contexts'[d].shms[j] = shm_contexts[d].shms[k]
        BY Zenon
    <2>1. CASE d = c
        BY Zenon, <2>1, <1>1, <1>9, <1>11
    <2>2. CASE d # c
        BY Zenon, <2>2, <1>10
    <2> QED
        BY Zenon, <2>1, <2>2
<1>18. MappedIsListed'
    <2> SUFFICES ASSUME NEW a \in mapped' \union te', a \notin leaked'
                 PROVE  \E d \in DOMAIN shm_contexts' :
                            \E j \in DOMAIN shm_contexts'[d].shms :
                                shm_contexts'[d].shms[j].addr = a
        BY Zenon DEF MappedIsListed
    <2>1. a \in mapped \union te /\ a \notin leaked /\ a # old[i].addr
        BY Zenon, <1>2, <1>3
    <2>2. PICK d \in DOMAIN shm_contexts : \E k \in DOMAIN shm_contexts[d].shms :
            shm_contexts[d].shms[k].addr = a
        BY Zenon, <2>1 DEF OwnInv, MappedIsListed
    <2>3. PICK k \in DOMAIN shm_contexts[d].shms : shm_contexts[d].shms[k].addr = a
        BY Zenon, <2>2
    <2>4. ~(d = c /\ k = i)
        BY Zenon, <2>1, <2>3, <1>1
    <2> QED
        BY <2>3, <2>4, <1>10, <1>17
<1>19. AllocatorIsLocal'
    <2> SUFFICES ASSUME NEW d \in DOMAIN shm_contexts',
                        shm_contexts'[d].allocator # NoAddr
                 PROVE  \E j \in DOMAIN shm_contexts'[d].shms :
                            /\ shm_contexts'[d].shms[j].base = Local
                            /\ shm_contexts'[d].shms[j].addr = shm_contexts'[d].allocator
        BY Zenon DEF AllocatorIsLocal
    <2>1. d \in DOMAIN shm_contexts /\ shm_contexts'[d].allocator = shm_contexts[d].allocator
        BY Zenon, <1>10, <1>11
    <2>2. PICK k \in DOMAIN shm_contexts[d].shms :
            /\ shm_contexts[d].shms[k].base = Local
            /\ shm_contexts[d].shms[k].addr = shm_contexts[d].allocator
        BY Zenon, <2>1 DEF OwnInv, AllocatorIsLocal
    <2>3. ~(d = c /\ k = i)
        BY Zenon, <2>2, <1>1, <1>2
    <2> QED
        BY Zenon, <2>1, <2>2, <2>3, <1>17
<1> QED
    BY Zenon, <1>12, <1>15, <1>16, <1>18, <1>19 DEF OwnInv

-----------------------------------------------------------------------------

\* Steps on buffers change what a context hands out, not its memory.
LEMMA BuffersKeep ==
    ASSUME OwnInv, NEW c \in DOMAIN shm_contexts, NEW used, NEW active,
           \/ shm_contexts' = [shm_contexts EXCEPT ![c].used = used, ![c].active = active]
           \/ shm_contexts' = [shm_contexts EXCEPT ![c].used = used]
           \/ shm_contexts' = [shm_contexts EXCEPT ![c].active = active],
           UNCHANGED <<mapped, te, leaked>>
    PROVE  OwnInv'
<1>1. IsContext(shm_contexts[c])
    BY Zenon DEF OwnInv, ContextTypes
<1>2. /\ DOMAIN shm_contexts' = DOMAIN shm_contexts
      /\ shm_contexts' = [d \in DOMAIN shm_contexts' |-> shm_contexts'[d]]
      /\ \A d \in DOMAIN shm_contexts : d # c => shm_contexts'[d] = shm_contexts[d]
      /\ \/ shm_contexts'[c] = [shm_contexts[c] EXCEPT !.used = used, !.active = active]
         \/ shm_contexts'[c] = [shm_contexts[c] EXCEPT !.used = used]
         \/ shm_contexts'[c] = [shm_contexts[c] EXCEPT !.active = active]
    BY Zenon DEF OwnInv, ContextTypes
<1>3. /\ IsContext(shm_contexts'[c])
      /\ shm_contexts'[c].shms = shm_contexts[c].shms
      /\ shm_contexts'[c].allocator = shm_contexts[c].allocator
    BY Zenon, <1>1, <1>2 DEF IsContext
<1>4. \A d \in DOMAIN shm_contexts' : IsContext(shm_contexts'[d])
    BY Zenon, <1>2, <1>3 DEF OwnInv, ContextTypes
<1>5. ContextTypes'
    BY Zenon, <1>2, <1>4 DEF ContextTypes, IsContext
<1> QED
    BY Zenon, <1>2, <1>3, <1>5, MemoryUntouched

\* An empty table owns nothing.
LEMMA OwnInvInit == Init => OwnInv
<1> SUFFICES ASSUME Init PROVE OwnInv
    BY Zenon
<1>1. shm_contexts = <<>> /\ mapped = {} /\ te = {}
    BY Zenon DEF Init
<1>2. DOMAIN <<>> = {} /\ <<>> = [c \in {} |-> <<>>[c]]
    OBVIOUS
<1> QED
    BY Zenon, <1>1, <1>2 DEF OwnInv, ContextTypes, ListedIsMapped, MappedIsListed, ListedOnce,
                      AllocatorIsLocal

\* Nothing of the RealClient's memory survives its crash.
LEMMA ServerCrashKeeps ==
    ASSUME ServerCrash
    PROVE  OwnInv'
<1>1. shm_contexts' = <<>> /\ mapped' = {} /\ te' = {}
    BY Zenon DEF ServerCrash
<1>2. DOMAIN <<>> = {} /\ <<>> = [c \in {} |-> <<>>[c]]
    OBVIOUS
<1> QED
    BY Zenon, <1>1, <1>2 DEF OwnInv, ContextTypes, ListedIsMapped, MappedIsListed, ListedOnce,
                      AllocatorIsLocal

\* Steps that register or unregister memory hold the unique lock.
Mapping ==
    \/ \E c \in Id : MonitorUnmap(c)
    \/ SetupRegister
    \/ \E s \in Shm : Reregister(s) \/ RegisterBuffer(s) \/ UnregisterBuffer(s)
    \/ TearDownUnmap

\* They keep ownership, and unmap nothing while a transfer holds the shared lock.
LEMMA MappingKeeps ==
    ASSUME OwnInv, Mapping
    PROVE  /\ OwnInv'
           /\ io' = io
           /\ io = NoIo \/ UNCHANGED <<mapped, te>>
<1>1. ASSUME UNCHANGED memory PROVE OwnInv' /\ UNCHANGED <<mapped, te>>
    BY Zenon, <1>1, MemoryUntouched DEF memory, OwnInv, ContextTypes
<1>2. ASSUME NEW s \in Shm, MapShmOk(client_id, s) \/ MapShmFails(client_id, s)
      PROVE  OwnInv' /\ io = NoIo
    BY Zenon, <1>2, MapShmOkKeeps, MapShmFailsKeeps DEF MapShmOk, MapShmFails, UniqueLock
<1>3. ASSUME NEW s \in Shm, RegisterShmViaIpcFails(s)
      PROVE  OwnInv' /\ (io = NoIo \/ UNCHANGED <<mapped, te>>)
    BY Zenon, <1>1, <1>2, <1>3 DEF RegisterShmViaIpcFails
<1>4. ASSUME NEW c, UnmapShm(c)
      PROVE  OwnInv' /\ io = NoIo
    BY Zenon, <1>4, UnmapShmKeeps DEF UnmapShm, UniqueLock
<1>5. CASE \E c \in Id : MonitorUnmap(c)
    BY Zenon, <1>4, <1>5 DEF MonitorUnmap
<1>6. CASE SetupRegister
    BY Zenon, <1>2, <1>3, <1>6, ShmAssumption DEF SetupRegister
<1>7. ASSUME NEW s \in Shm, Reregister(s)
      PROVE  OwnInv' /\ io' = io /\ (io = NoIo \/ UNCHANGED <<mapped, te>>)
    BY Zenon, <1>1, <1>2, <1>3, <1>7 DEF Reregister
<1>8. ASSUME NEW s \in Shm, RegisterBuffer(s)
      PROVE  OwnInv' /\ io' = io /\ (io = NoIo \/ UNCHANGED <<mapped, te>>)
    BY Zenon, <1>2, <1>3, <1>8 DEF RegisterBuffer
<1>9. ASSUME NEW s \in Shm, UnregisterBuffer(s)
      PROVE  OwnInv' /\ io' = io /\ io = NoIo
    <2>1. s \in Shm \ {Local} /\ UnregisterShm(client_id, s) /\ io' = io
        BY Zenon, <1>9 DEF UnregisterBuffer
    <2>2. io = NoIo
        BY Zenon, <2>1 DEF UnregisterShm, UniqueLock
    <2> QED
        BY Zenon, <2>1, <2>2, UnregisterShmKeeps
<1>10. CASE TearDownUnmap
    BY Zenon, <1>1, <1>4, <1>10 DEF TearDownUnmap
<1> QED
    BY Zenon, <1>5, <1>6, <1>7, <1>8, <1>9, <1>10 DEF Mapping

\* Steps that use buffers.
LEMMA BufferStepsKeep ==
    ASSUME OwnInv,
           \/ \E h \in Handle : AcquireBuffer(h) \/ Release(h)
           \/ BatchBegin \/ BatchGet \/ BatchEnd
    PROVE  OwnInv' /\ UNCHANGED <<mapped, te, io>>
<1>1. UNCHANGED <<mapped, te, leaked, io>>
    BY Zenon DEF AcquireBuffer, Release, BatchBegin, BatchGet, BatchEnd, memory
<1>2. ASSUME shm_contexts' = shm_contexts PROVE OwnInv'
    BY Zenon, <1>1, <1>2, MemoryUntouched DEF OwnInv, ContextTypes
<1>3. ASSUME NEW h \in Handle, AcquireBuffer(h)
      PROVE  OwnInv'
    <2>1. PICK b \in FreeSlots(client_id) :
            shm_contexts' = [shm_contexts EXCEPT ![client_id].used = @ \cup {b},
                                                 ![client_id].active = @ \cup {b}]
        BY Zenon, <1>3 DEF AcquireBuffer
    <2>2. client_id \in DOMAIN shm_contexts
        BY Zenon, <2>1 DEF FreeSlots, HasContext
    <2> QED
        BY Zenon, <1>1, <2>1, <2>2, BuffersKeep
<1>4. ASSUME NEW h \in Handle, Release(h)
      PROVE  OwnInv'
    <2>1. CASE shm_contexts' = shm_contexts
        BY Zenon, <1>2, <2>1
    <2>2. CASE shm_contexts' # shm_contexts
        <3>1. /\ client_id \in DOMAIN shm_contexts
              /\ shm_contexts' = [shm_contexts EXCEPT ![client_id].used = @ \ {held[h]},
                                                      ![client_id].active = @ \ {held[h]}]
            BY Zenon, <1>4, <2>2 DEF Release, HasContext
        <3> QED
            BY Zenon, <1>1, <3>1, BuffersKeep
    <2> QED
        BY Zenon, <2>1, <2>2
<1>5. CASE BatchBegin
    BY Zenon, <1>2, <1>5 DEF BatchBegin, memory
<1>6. CASE BatchGet
    <2>1. CASE shm_contexts' = shm_contexts
        BY Zenon, <1>1, <1>2, <2>1
    <2>2. CASE shm_contexts' # shm_contexts
        <3>1. PICK b \in FreeSlots(batch.id) :
                shm_contexts' = [shm_contexts EXCEPT ![batch.id].used = @ \cup {b}]
            BY Zenon, <1>6, <2>2 DEF BatchGet
        <3>2. batch.id \in DOMAIN shm_contexts
            BY Zenon, <3>1 DEF FreeSlots, HasContext
        <3> QED
            BY Zenon, <1>1, <3>1, <3>2, BuffersKeep
    <2> QED
        BY Zenon, <2>1, <2>2
<1>7. CASE BatchEnd
    <2>1. CASE shm_contexts' = shm_contexts
        BY Zenon, <1>1, <1>2, <2>1
    <2>2. CASE shm_contexts' # shm_contexts
        <3>1. /\ batch.id \in DOMAIN shm_contexts
              /\ shm_contexts' =
                    [shm_contexts EXCEPT ![batch.id].active = @ \cup {batch.slot}]
            BY Zenon, <1>7, <2>2 DEF BatchEnd, HasContext
        <3> QED
            BY Zenon, <1>1, <3>1, BuffersKeep
    <2> QED
        BY Zenon, <2>1, <2>2
<1> QED
    BY Zenon, <1>1, <1>3, <1>4, <1>5, <1>6, <1>7

\* The remaining steps; a transfer begins on an address its context lists.
LEMMA OtherStepsKeep ==
    ASSUME OwnInv,
           \/ MonitorScan \/ HealthChanges \/ ServerRestart \/ Connect
           \/ PingOk \/ PingFails \/ ReconnectStarts \/ ReconnectPing \/ PingExits
           \/ HelperEnd \/ TearDownJoin \/ DummyCrash \/ NextProcess
           \/ UNCHANGED vars
           \/ \E s \in Shm : HelperBegin(s)
    PROVE  /\ OwnInv' /\ UNCHANGED <<mapped, te>>
           /\ io' = io \/ io' = NoIo \/ io'.addr \in mapped \cap te
<1>1. UNCHANGED memory
    BY Zenon DEF MonitorScan, HealthChanges, ServerRestart, Connect, PingOk, PingFails,
           ReconnectStarts, ReconnectPing, PingExits, HelperEnd, TearDownJoin,
           DummyCrash, NextProcess, vars, HelperBegin, memory, server
<1>2. OwnInv' /\ UNCHANGED <<mapped, te>>
    BY Zenon, <1>1, MemoryUntouched DEF memory, OwnInv, ContextTypes
<1>3. ASSUME NEW s \in Shm, HelperBegin(s)
      PROVE  io'.addr \in mapped \cap te
    <2>1. client_id \in DOMAIN shm_contexts
        BY Zenon, <1>3 DEF HelperBegin, HasContext
    <2>2. PICK a \in RealAddrs(client_id, s) : io' = [addr |-> a]
        BY Zenon, <1>3 DEF HelperBegin
    <2>3. \E i \in DOMAIN shm_contexts[client_id].shms :
            a = shm_contexts[client_id].shms[i].addr
        BY Zenon DEF RealAddrs, Range
    <2> QED
        BY Zenon, <2>1, <2>2, <2>3 DEF OwnInv, ListedIsMapped
<1>4. \/ io' = io \/ io' = NoIo
      \/ \E s \in Shm : HelperBegin(s)
    BY Zenon DEF MonitorScan, HealthChanges, ServerRestart, Connect, PingOk, PingFails,
           ReconnectStarts, ReconnectPing, PingExits, HelperEnd, TearDownJoin,
           DummyCrash, NextProcess, vars, server
<1> QED
    BY Zenon, <1>2, <1>3, <1>4

\* Every step keeps ownership, and transfers on mapped memory.
LEMMA OwnInvStep ==
    ASSUME OwnInv, TransfersOnMappedMemory, [Next]_vars
    PROVE  OwnInv' /\ TransfersOnMappedMemory'
<1>1. CASE Mapping
    BY Zenon, <1>1, MappingKeeps DEF TransfersOnMappedMemory
<1>2. CASE \/ \E h \in Handle : AcquireBuffer(h) \/ Release(h)
           \/ BatchBegin \/ BatchGet \/ BatchEnd
    BY Zenon, <1>2, BufferStepsKeep DEF TransfersOnMappedMemory
<1>3. CASE ServerCrash
    <2>1. io' = NoIo
        BY Zenon, <1>3 DEF ServerCrash
    <2> QED
        BY Zenon, <1>3, <2>1, ServerCrashKeeps DEF TransfersOnMappedMemory, NoIo
<1>4. CASE \/ MonitorScan \/ HealthChanges \/ ServerRestart \/ Connect
           \/ PingOk \/ PingFails \/ ReconnectStarts \/ ReconnectPing \/ PingExits
           \/ HelperEnd \/ TearDownJoin \/ DummyCrash \/ NextProcess
           \/ UNCHANGED vars
           \/ \E s \in Shm : HelperBegin(s)
    <2>1. /\ OwnInv' /\ UNCHANGED <<mapped, te>>
          /\ io' = io \/ io' = NoIo \/ io'.addr \in mapped \cap te
        BY Zenon, <1>4, OtherStepsKeep
    <2> QED
        BY Zenon, <2>1 DEF TransfersOnMappedMemory, NoIo
<1> QED
    BY Zenon, <1>1, <1>2, <1>3, <1>4
       DEF Next, MonitorThread, PingThread, Buffers, TearDown, Mapping

\* A context owns its memory: everything it lists, and the memory under its
\* allocator, is mapped and registered, at addresses of its own, and nothing but
\* what an error path gave up is mapped or registered besides.
THEOREM MemoryIsOwned == Spec => []ContextsOwnMemory
<1>1. Init => OwnInv /\ TransfersOnMappedMemory
    BY Zenon, OwnInvInit DEF Init, TransfersOnMappedMemory
<1>2. OwnInv /\ TransfersOnMappedMemory /\ [Next]_vars
        => (OwnInv /\ TransfersOnMappedMemory)'
    BY Zenon, OwnInvStep
<1> QED
    BY <1>1, <1>2, OwnInvSuffices, PTL DEF Spec

\* A transfer on a translated buffer runs on mapped and registered memory from
\* its first to its last byte: every unmapping takes the unique lock.
THEOREM TransfersAreMapped == Spec => []TransfersOnMappedMemory
<1>1. Init => OwnInv /\ TransfersOnMappedMemory
    BY Zenon, OwnInvInit DEF Init, TransfersOnMappedMemory
<1>2. OwnInv /\ TransfersOnMappedMemory /\ [Next]_vars
        => (OwnInv /\ TransfersOnMappedMemory)'
    BY Zenon, OwnInvStep
<1> QED
    BY <1>1, <1>2, PTL DEF Spec

-----------------------------------------------------------------------------
(* The buffers that the application holds. *)

\* The RealClient keeps the buffer of handle h, and no other handle has it.
KeptBuffer(h) ==
    /\ HasContext(client_id)
    /\ held[h] \in shm_contexts[client_id].active \cap shm_contexts[client_id].used
    /\ \A g \in Handle \ {h} : held[g] # held[h]

\* A buffer that a batch has filled is in use, and nobody has it yet.
FilledBuffer ==
    /\ HasContext(batch.id)
    /\ batch.slot \in shm_contexts[batch.id].used
    /\ batch.id = client_id => \A h \in Handle : held[h] # batch.slot

BatchTypes ==
    \/ batch = NoBatch
    \/ /\ batch = [pc |-> batch.pc, id |-> batch.id, stale |-> batch.stale, slot |-> batch.slot]
       /\ batch.pc \in {"get", "end"} /\ batch.slot \in Slot \cup {NoBuffer}
       /\ batch.pc = "get" => batch.slot = NoBuffer

HoldInv ==
    /\ held \in [Handle -> Slot \cup {NoBuffer}] /\ BatchTypes
    /\ phase \notin {"run", "closing"} => \A h \in Handle : held[h] = NoBuffer
    /\ ~crossed => \A h \in Handle : held[h] # NoBuffer => KeptBuffer(h)
    /\ ~crossed /\ batch.pc = "end" /\ batch.slot # NoBuffer => FilledBuffer

\* The context of c stays, and gives no buffer free.
Outlives(c) ==
    /\ c \in DOMAIN shm_contexts'
    /\ shm_contexts[c].used \subseteq shm_contexts'[c].used
    /\ shm_contexts[c].active \subseteq shm_contexts'[c].active

\* Steps of others: buffers stay where they are, and so do the contexts they come
\* from, unless the step is one that crosses.
LEMMA HoldFrame ==
    ASSUME HoldInv, held' = held, client_id' = client_id, BatchTypes',
           phase' \in {"run", "closing"} \/ phase \notin {"run", "closing"},
           crossed => crossed',
           ~crossed' => /\ batch' = batch
                        /\ Holding /\ HasContext(client_id) => Outlives(client_id)
                        /\ batch.pc # "none" /\ HasContext(batch.id) => Outlives(batch.id)
    PROVE  HoldInv'
<1>1. ASSUME ~crossed', NEW h \in Handle, held'[h] # NoBuffer
      PROVE  KeptBuffer(h)'
    <2>1. KeptBuffer(h) /\ Holding
        BY Zenon, <1>1 DEF HoldInv, Holding
    <2>2. Outlives(client_id)
        BY Zenon, <1>1, <2>1 DEF KeptBuffer
    <2> QED
        BY Zenon, <2>1, <2>2 DEF KeptBuffer, Outlives, HasContext
<1>2. ASSUME ~crossed', batch'.pc = "end", batch'.slot # NoBuffer
      PROVE  FilledBuffer'
    <2>1. FilledBuffer /\ batch' = batch
        BY Zenon, <1>2 DEF HoldInv
    <2>2. batch.pc # "none"
        BY Zenon, <1>2, <2>1
    <2>3. Outlives(batch.id)
        BY Zenon, <1>2, <2>1, <2>2 DEF FilledBuffer
    <2> QED
        BY Zenon, <2>1, <2>3 DEF FilledBuffer, Outlives, HasContext
<1> QED
    BY Zenon, <1>1, <1>2 DEF HoldInv

\* Steps that leave all this alone.
LEMMA HoldStutter ==
    ASSUME HoldInv, UNCHANGED <<shm_contexts, held, client_id, batch, crossed>>,
           phase' \in {"run", "closing"} \/ phase \notin {"run", "closing"}
    PROVE  HoldInv'
<1>1. BatchTypes'
    BY Zenon DEF HoldInv, BatchTypes
<1>2. \A c : HasContext(c) => Outlives(c)
    BY Zenon DEF Outlives, HasContext
<1> QED
    BY Zenon, <1>1, <1>2, HoldFrame

\* A mapping, or an attempt, keeps the buffers of every context.
LEMMA MapOutlives ==
    ASSUME OwnInv, NEW c, NEW s, MapShmOk(c, s) \/ MapShmFails(c, s), NEW d, HasContext(d)
    PROVE  Outlives(d)
<1>1. PICK ctx : ctx = StartContext(c)
    OBVIOUS
<1>2. CASE UNCHANGED shm_contexts
    BY Zenon, <1>2 DEF Outlives, HasContext
<1>3. CASE ~UNCHANGED shm_contexts
    <2>1. PICK new : /\ shm_contexts' = SetContext(c, new)
                     /\ new.used = ctx.used /\ new.active = ctx.active
        <3>1. CASE MapShmOk(c, s)
            <4>1. PICK a : shm_contexts' = SetContext(c,
                     [shms |-> Append(ctx.shms, [base |-> s, addr |-> a]),
                      allocator |-> IF s = Local THEN a ELSE ctx.allocator,
                      used |-> ctx.used, active |-> ctx.active])
                BY Zenon, <1>1, <1>3, <3>1 DEF MapShmOk, StartContext, memory
            <4>2. PICK new : new = [shms |-> Append(ctx.shms, [base |-> s, addr |-> a]),
                                    allocator |-> IF s = Local THEN a ELSE ctx.allocator,
                                    used |-> ctx.used, active |-> ctx.active]
                BY Zenon
            <4>3. new.used = ctx.used /\ new.active = ctx.active
                BY <4>2
            <4>4. shm_contexts' = SetContext(c, new)
                BY Zenon, <4>1, <4>2
            <4> QED
                BY Zenon, <4>3, <4>4
        <3>2. CASE MapShmFails(c, s)
            BY Zenon, <1>1, <1>3, <3>2 DEF MapShmFails, StartContext
        <3> QED
            BY Zenon, <3>1, <3>2
    <2>2. c = d => new.used = shm_contexts[d].used /\ new.active = shm_contexts[d].active
        BY Zenon, <1>1, <2>1 DEF StartContext
    <2> QED
        BY <2>1, <2>2 DEF SetContext, Outlives, HasContext
<1> QED
    BY Zenon, <1>2, <1>3

\* Unregistering one memory does, too.
LEMMA UnregisterOutlives ==
    ASSUME OwnInv, NEW c, NEW s, UnregisterShm(c, s), NEW d, HasContext(d)
    PROVE  Outlives(d)
<1>1. PICK shms : shm_contexts' = [shm_contexts EXCEPT ![c].shms = shms]
    BY Zenon DEF UnregisterShm
<1>2. IsContext(shm_contexts[c]) /\ HasContext(c)
    BY Zenon DEF UnregisterShm, OwnInv, ContextTypes, HasContext
<1>3. /\ DOMAIN shm_contexts' = DOMAIN shm_contexts
      /\ d # c => shm_contexts'[d] = shm_contexts[d]
      /\ shm_contexts'[c] = [shm_contexts[c] EXCEPT !.shms = shms]
    BY <1>1, <1>2 DEF OwnInv, ContextTypes, HasContext
<1>4. shm_contexts'[c].used = shm_contexts[c].used /\ shm_contexts'[c].active = shm_contexts[c].active
    BY <1>2, <1>3 DEF IsContext
<1> QED
    BY Zenon, <1>3, <1>4 DEF Outlives, HasContext

\* An unmapping either takes a context that nobody has a buffer of, or crosses.
LEMMA UnmapHolds ==
    ASSUME OwnInv, HoldInv, NEW c, UnmapShm(c), UNCHANGED <<held, client_id>>,
           phase' \in {"run", "closing"} \/ phase \notin {"run", "closing"}
    PROVE  HoldInv'
<1>1. CASE ~HasContext(c)
    BY Zenon, <1>1, HoldStutter DEF UnmapShm, memory
<1>2. CASE HasContext(c)
    <2>1. /\ shm_contexts' = DropContext(c)
          /\ batch' = IF batch.pc # "none" /\ batch.id = c
                      THEN [batch EXCEPT !.stale = TRUE] ELSE batch
          /\ crossed' = (crossed \/ (c = client_id /\ Holding)
                           \/ (batch.pc # "none" /\ batch.id = c))
        BY Zenon, <1>2 DEF UnmapShm
    <2>2. BatchTypes'
        <3>1. CASE batch.pc # "none" /\ batch.id = c
            <4>1. batch' = [batch EXCEPT !.stale = TRUE]
                BY Zenon, <2>1, <3>1
            <4>2. /\ batch = [pc |-> batch.pc, id |-> batch.id, stale |-> batch.stale, slot |-> batch.slot]
                  /\ batch.pc \in {"get", "end"} /\ batch.slot \in Slot \cup {NoBuffer}
                  /\ batch.pc = "get" => batch.slot = NoBuffer
                BY <3>1 DEF HoldInv, BatchTypes, NoBatch
            <4>3. batch' = [pc |-> batch.pc, id |-> batch.id, stale |-> TRUE, slot |-> batch.slot]
                BY <4>1, <4>2
            <4> QED
                BY <4>2, <4>3 DEF BatchTypes
        <3>2. CASE ~(batch.pc # "none" /\ batch.id = c)
            BY Zenon, <2>1, <3>2 DEF HoldInv, BatchTypes
        <3> QED
            BY Zenon, <3>1, <3>2
    <2>3. \A d : HasContext(d) /\ d # c => Outlives(d)
        BY Zenon, <2>1 DEF DropContext, Outlives, HasContext
    <2>4. ~crossed' => /\ batch' = batch
                       /\ Holding => client_id # c
                       /\ batch.pc # "none" => batch.id # c
        BY Zenon, <2>1
    <2> QED
        BY Zenon, <2>1, <2>2, <2>3, <2>4, HoldFrame
<1> QED
    BY Zenon, <1>1, <1>2

\* A step on buffers: one context gets other sets of used and active buffers.
Hands(c, used, active) ==
    \/ shm_contexts' = [shm_contexts EXCEPT ![c].used = used, ![c].active = active]
    \/ /\ shm_contexts' = [shm_contexts EXCEPT ![c].used = used]
       /\ active = shm_contexts[c].active
    \/ /\ shm_contexts' = [shm_contexts EXCEPT ![c].active = active]
       /\ used = shm_contexts[c].used

\* What it does to the fields of the context.
LEMMA BufferFields ==
    ASSUME OwnInv, NEW c \in DOMAIN shm_contexts, NEW used, NEW active, Hands(c, used, active)
    PROVE  /\ DOMAIN shm_contexts' = DOMAIN shm_contexts
           /\ \A d \in DOMAIN shm_contexts : d # c => shm_contexts'[d] = shm_contexts[d]
           /\ shm_contexts'[c].used = used /\ shm_contexts'[c].active = active
<1>1. IsContext(shm_contexts[c])
    BY Zenon DEF OwnInv, ContextTypes
<1>2. /\ DOMAIN shm_contexts' = DOMAIN shm_contexts
      /\ \A d \in DOMAIN shm_contexts : d # c => shm_contexts'[d] = shm_contexts[d]
      /\ \/ shm_contexts'[c] = [shm_contexts[c] EXCEPT !.used = used, !.active = active]
         \/ /\ shm_contexts'[c] = [shm_contexts[c] EXCEPT !.used = used]
            /\ active = shm_contexts[c].active
         \/ /\ shm_contexts'[c] = [shm_contexts[c] EXCEPT !.active = active]
            /\ used = shm_contexts[c].used
    BY DEF OwnInv, ContextTypes, Hands
<1>3. shm_contexts'[c].used = used /\ shm_contexts'[c].active = active
    BY <1>1, <1>2 DEF IsContext
<1> QED
    BY Zenon, <1>2, <1>3

\* acquire_buffer_dummy hands out a buffer that was free.
LEMMA AcquireHolds ==
    ASSUME OwnInv, HoldInv, NEW h \in Handle, AcquireBuffer(h)
    PROVE  HoldInv'
<1>1. PICK b \in FreeSlots(client_id) :
        /\ shm_contexts' = [shm_contexts EXCEPT ![client_id].used = @ \cup {b},
                                                ![client_id].active = @ \cup {b}]
        /\ held' = [held EXCEPT ![h] = b] \/ held' = held
    BY Zenon DEF AcquireBuffer, Take
<1>2. HasContext(client_id) /\ b \in Slot /\ b \notin shm_contexts[client_id].used
    BY Zenon, <1>1 DEF FreeSlots
<1>3. /\ DOMAIN shm_contexts' = DOMAIN shm_contexts
      /\ \A d \in DOMAIN shm_contexts : d # client_id => shm_contexts'[d] = shm_contexts[d]
      /\ shm_contexts'[client_id].used = shm_contexts[client_id].used \cup {b}
      /\ shm_contexts'[client_id].active = shm_contexts[client_id].active \cup {b}
    <2>1. PICK used, active : /\ used = shm_contexts[client_id].used \cup {b}
                              /\ active = shm_contexts[client_id].active \cup {b}
        BY Zenon
    <2>2. Hands(client_id, used, active)
        BY Zenon, <1>1, <2>1 DEF Hands
    <2>3. client_id \in DOMAIN shm_contexts
        BY Zenon, <1>2 DEF HasContext
    <2>4. /\ DOMAIN shm_contexts' = DOMAIN shm_contexts
          /\ \A d \in DOMAIN shm_contexts : d # client_id => shm_contexts'[d] = shm_contexts[d]
          /\ shm_contexts'[client_id].used = used /\ shm_contexts'[client_id].active = active
        BY Zenon, <2>2, <2>3, BufferFields
    <2> QED
        BY Zenon, <2>1, <2>4
<1>4. /\ UNCHANGED <<client_id, batch, crossed, phase>> /\ phase = "run"
      /\ held[h] = NoBuffer /\ BatchTypes'
    BY Zenon DEF AcquireBuffer, HoldInv, BatchTypes
<1>5. \A c : HasContext(c) => Outlives(c)
    BY Zenon, <1>3 DEF Outlives, HasContext
<1>6. CASE held' = held
    BY Zenon, <1>4, <1>5, <1>6, HoldFrame
<1>7. CASE held' = [held EXCEPT ![h] = b]
    <2>1. /\ held' \in [Handle -> Slot \cup {NoBuffer}]
          /\ held'[h] = b /\ \A g \in Handle : g # h => held'[g] = held[g]
        BY Zenon, <1>2, <1>7 DEF HoldInv
    <2>2. ~crossed => \A g \in Handle : held[g] # b
        BY Zenon, <1>2, ShmAssumption DEF HoldInv, KeptBuffer
    <2>3. ASSUME ~crossed', NEW g \in Handle, held'[g] # NoBuffer
          PROVE  KeptBuffer(g)'
        <3>1. CASE g = h
            <4>1. \A f \in Handle \ {g} : held'[f] # held'[g]
                BY Zenon, <1>4, <2>1, <2>2, <2>3, <3>1
            <4> QED
                BY Zenon, <1>2, <1>3, <1>4, <2>1, <3>1, <4>1 DEF KeptBuffer, HasContext
        <3>2. CASE g # h
            <4>1. KeptBuffer(g) /\ held'[g] = held[g]
                <5>1. held'[g] = held[g] /\ held[g] # NoBuffer
                    BY Zenon, <2>1, <2>3, <3>2
                <5>2. ~crossed
                    BY Zenon, <1>4, <2>3
                <5> QED
                    BY Zenon, <5>1, <5>2 DEF HoldInv
            <4>2. \A f \in Handle \ {g} : held'[f] # held'[g]
                BY Zenon, <1>4, <2>1, <2>2, <2>3, <4>1 DEF KeptBuffer
            <4> QED
                BY Zenon, <1>3, <1>4, <4>1, <4>2 DEF KeptBuffer, HasContext
        <3> QED
            BY Zenon, <3>1, <3>2
    <2>4. ASSUME ~crossed', batch'.pc = "end", batch'.slot # NoBuffer
          PROVE  FilledBuffer'
        <3>1. FilledBuffer
            BY Zenon, <1>4, <2>4 DEF HoldInv
        <3>2. batch.id = client_id => batch.slot # b
            BY Zenon, <1>2, <3>1 DEF FilledBuffer
        <3>3. HasContext(batch.id)' /\ batch.slot \in shm_contexts'[batch.id].used
            BY Zenon, <1>4, <1>5, <3>1 DEF FilledBuffer, Outlives, HasContext
        <3> QED
            BY Zenon, <1>4, <2>1, <3>1, <3>2, <3>3 DEF FilledBuffer, HasContext
    <2> QED
        BY Zenon, <1>4, <2>1, <2>3, <2>4 DEF HoldInv
<1> QED
    BY Zenon, <1>1, <1>6, <1>7

\* release_buffer_dummy frees that buffer only.
LEMMA ReleaseHolds ==
    ASSUME OwnInv, HoldInv, NEW h \in Handle, Release(h)
    PROVE  HoldInv'
<1>1. /\ UNCHANGED <<client_id, batch, crossed, phase>> /\ phase \in {"run", "closing"}
      /\ held[h] # NoBuffer /\ BatchTypes'
      /\ held' = [held EXCEPT ![h] = NoBuffer]
    BY Zenon DEF Release, Take, HoldInv, BatchTypes
<1>2. /\ held' \in [Handle -> Slot \cup {NoBuffer}]
      /\ held'[h] = NoBuffer /\ \A g \in Handle : g # h => held'[g] = held[g]
    BY Zenon, <1>1 DEF HoldInv
<1>3. /\ DOMAIN shm_contexts' = DOMAIN shm_contexts
      /\ \A d \in DOMAIN shm_contexts : d # client_id => shm_contexts'[d] = shm_contexts[d]
      /\ HasContext(client_id) =>
           /\ shm_contexts[client_id].used \ {held[h]} \subseteq shm_contexts'[client_id].used
           /\ shm_contexts[client_id].active \ {held[h]} \subseteq shm_contexts'[client_id].active
    <2>1. CASE shm_contexts' = shm_contexts
        BY Zenon, <2>1
    <2>2. CASE shm_contexts' # shm_contexts
        <3>1. /\ client_id \in DOMAIN shm_contexts
              /\ shm_contexts' = [shm_contexts EXCEPT ![client_id].used = @ \ {held[h]},
                                                      ![client_id].active = @ \ {held[h]}]
            BY Zenon, <2>2 DEF Release, HasContext
        <3>2. /\ DOMAIN shm_contexts' = DOMAIN shm_contexts
              /\ \A d \in DOMAIN shm_contexts : d # client_id => shm_contexts'[d] = shm_contexts[d]
              /\ shm_contexts'[client_id].used = shm_contexts[client_id].used \ {held[h]}
              /\ shm_contexts'[client_id].active = shm_contexts[client_id].active \ {held[h]}
            <4>1. PICK used, active : /\ used = shm_contexts[client_id].used \ {held[h]}
                                      /\ active = shm_contexts[client_id].active \ {held[h]}
                BY Zenon
            <4>2. Hands(client_id, used, active)
                BY Zenon, <3>1, <4>1 DEF Hands
            <4> QED
                BY Zenon, <3>1, <4>1, <4>2, BufferFields
        <3> QED
            BY Zenon, <3>2
    <2> QED
        BY Zenon, <2>1, <2>2
<1>4. ASSUME ~crossed', NEW g \in Handle, held'[g] # NoBuffer
      PROVE  KeptBuffer(g)'
    <2>1. KeptBuffer(g) /\ KeptBuffer(h) /\ g # h /\ held'[g] = held[g]
        BY Zenon, <1>1, <1>2, <1>4 DEF HoldInv
    <2>2. held[g] # held[h] /\ \A f \in Handle \ {g} : held'[f] # held'[g]
        BY Zenon, <1>2, <1>4, <2>1 DEF KeptBuffer
    <2> QED
        BY Zenon, <1>1, <1>3, <2>1, <2>2 DEF KeptBuffer, HasContext
<1>5. ASSUME ~crossed', batch'.pc = "end", batch'.slot # NoBuffer
      PROVE  FilledBuffer'
    <2>1. FilledBuffer
        BY Zenon, <1>1, <1>5 DEF HoldInv
    <2>2. batch.slot # held[h] \/ batch.id # client_id
        BY Zenon, <2>1 DEF FilledBuffer
    <2>3. HasContext(batch.id)' /\ batch.slot \in shm_contexts'[batch.id].used
        BY Zenon, <1>1, <1>3, <2>1, <2>2 DEF FilledBuffer, HasContext
    <2>4. batch'.slot # NoBuffer /\ batch' = batch /\ client_id' = client_id
        BY Zenon, <1>1, <1>5
    <2> QED
        BY Zenon, <1>2, <2>1, <2>3, <2>4 DEF FilledBuffer, HasContext
<1> QED
    BY Zenon, <1>1, <1>2, <1>4, <1>5 DEF HoldInv

\* batch_acquire_buffer_dummy fills a free buffer of the context it has found, ...
LEMMA BatchGetHolds ==
    ASSUME OwnInv, HoldInv, BatchGet
    PROVE  HoldInv'
<1>1. /\ UNCHANGED <<client_id, held, crossed, phase>>
      /\ batch = [pc |-> "get", id |-> batch.id, stale |-> batch.stale, slot |-> NoBuffer]
    <2>1. UNCHANGED <<client_id, held, crossed, phase>> /\ batch.pc = "get"
        BY Zenon DEF BatchGet, dummy
    <2>2. batch # NoBatch
        BY <2>1 DEF NoBatch
    <2> QED
        BY Zenon, <2>1, <2>2 DEF HoldInv, BatchTypes
<1>2. CASE batch' = [batch EXCEPT !.pc = "end"] /\ shm_contexts' = shm_contexts
    <2>1. batch' = [pc |-> "end", id |-> batch.id, stale |-> batch.stale, slot |-> NoBuffer]
        BY <1>1, <1>2
    <2>2. BatchTypes' /\ batch'.slot = NoBuffer
        BY <2>1 DEF BatchTypes
    <2>3. \A h \in Handle : KeptBuffer(h) => KeptBuffer(h)'
        BY Zenon, <1>1, <1>2 DEF KeptBuffer, HasContext
    <2> QED
        BY Zenon, <1>1, <2>2, <2>3 DEF HoldInv
<1>3. ASSUME NEW b \in FreeSlots(batch.id),
             shm_contexts' = [shm_contexts EXCEPT ![batch.id].used = @ \cup {b}],
             batch' = [batch EXCEPT !.pc = "end", !.slot = b]
      PROVE  HoldInv'
    <2>1. HasContext(batch.id) /\ b \in Slot /\ b \notin shm_contexts[batch.id].used
        BY Zenon, <1>3 DEF FreeSlots
    <2>2. /\ DOMAIN shm_contexts' = DOMAIN shm_contexts
          /\ \A d \in DOMAIN shm_contexts : d # batch.id => shm_contexts'[d] = shm_contexts[d]
          /\ shm_contexts'[batch.id].used = shm_contexts[batch.id].used \cup {b}
          /\ shm_contexts'[batch.id].active = shm_contexts[batch.id].active
        <3>1. PICK used, active : /\ used = shm_contexts[batch.id].used \cup {b}
                                  /\ active = shm_contexts[batch.id].active
            BY Zenon
        <3>2. Hands(batch.id, used, active)
            BY Zenon, <1>3, <3>1 DEF Hands
        <3>3. batch.id \in DOMAIN shm_contexts
            BY Zenon, <2>1 DEF HasContext
        <3>4. /\ DOMAIN shm_contexts' = DOMAIN shm_contexts
              /\ \A d \in DOMAIN shm_contexts : d # batch.id => shm_contexts'[d] = shm_contexts[d]
              /\ shm_contexts'[batch.id].used = used /\ shm_contexts'[batch.id].active = active
            BY Zenon, <3>2, <3>3, BufferFields
        <3> QED
            BY Zenon, <3>1, <3>4
    <2>3. batch' = [pc |-> "end", id |-> batch.id, stale |-> batch.stale, slot |-> b]
        BY <1>1, <1>3
    <2>4. BatchTypes' /\ batch'.slot = b /\ batch'.id = batch.id
        BY <2>1, <2>3 DEF BatchTypes
    <2>5. ASSUME ~crossed', NEW h \in Handle, held'[h] # NoBuffer
          PROVE  KeptBuffer(h)' /\ (batch.id = client_id => held[h] # b)
        <3>1. KeptBuffer(h)
            BY Zenon, <1>1, <2>5 DEF HoldInv
        <3> QED
            BY Zenon, <1>1, <2>1, <2>2, <3>1 DEF KeptBuffer, HasContext
    <2>6. ASSUME ~crossed' PROVE FilledBuffer'
        <3>1. batch.id = client_id => \A h \in Handle : held[h] # b
            BY Zenon, <1>1, <2>1, <2>5, <2>6, ShmAssumption
        <3> QED
            BY Zenon, <1>1, <2>1, <2>2, <2>4, <3>1 DEF FilledBuffer, HasContext
    <2> QED
        BY Zenon, <1>1, <2>4, <2>5, <2>6 DEF HoldInv
<1> QED
    BY Zenon, <1>2, <1>3 DEF BatchGet

\* ... and records it, and hands it to a handle that has no buffer.
LEMMA BatchEndHolds ==
    ASSUME OwnInv, HoldInv, BatchEnd
    PROVE  HoldInv'
<1>1. /\ UNCHANGED <<client_id, crossed, phase>>
      /\ batch.pc = "end" /\ batch' = NoBatch
    BY Zenon DEF BatchEnd
<1>2. BatchTypes' /\ batch'.pc # "end"
    BY <1>1 DEF BatchTypes, NoBatch
<1>3. CASE shm_contexts' = shm_contexts /\ held' = held
    <2>1. \A h \in Handle : KeptBuffer(h) => KeptBuffer(h)'
        BY Zenon, <1>1, <1>3 DEF KeptBuffer, HasContext
    <2> QED
        BY Zenon, <1>1, <1>2, <1>3, <2>1 DEF HoldInv
<1>4. ASSUME batch.slot # NoBuffer, HasContext(batch.id),
             shm_contexts' = [shm_contexts EXCEPT ![batch.id].active = @ \cup {batch.slot}],
             \/ held' = held
             \/ \E h \in Handle : /\ phase = "run" /\ client_id = batch.id /\ held[h] = NoBuffer
                                  /\ held' = [held EXCEPT ![h] = batch.slot]
      PROVE  HoldInv'
    <2>1. /\ DOMAIN shm_contexts' = DOMAIN shm_contexts
          /\ \A d \in DOMAIN shm_contexts : d # batch.id => shm_contexts'[d] = shm_contexts[d]
          /\ shm_contexts'[batch.id].used = shm_contexts[batch.id].used
          /\ shm_contexts'[batch.id].active = shm_contexts[batch.id].active \cup {batch.slot}
        <3>1. PICK used, active : /\ used = shm_contexts[batch.id].used
                                  /\ active = shm_contexts[batch.id].active \cup {batch.slot}
            BY Zenon
        <3>2. Hands(batch.id, used, active)
            BY Zenon, <1>4, <3>1 DEF Hands
        <3>3. batch.id \in DOMAIN shm_contexts
            BY Zenon, <1>4 DEF HasContext
        <3>4. /\ DOMAIN shm_contexts' = DOMAIN shm_contexts
              /\ \A d \in DOMAIN shm_contexts : d # batch.id => shm_contexts'[d] = shm_contexts[d]
              /\ shm_contexts'[batch.id].used = used /\ shm_contexts'[batch.id].active = active
            BY Zenon, <3>2, <3>3, BufferFields
        <3> QED
            BY Zenon, <3>1, <3>4
    <2>2. ASSUME NEW h \in Handle, KeptBuffer(h)
          PROVE  HasContext(client_id)' /\ held[h] \in shm_contexts'[client_id].active
                   \cap shm_contexts'[client_id].used
        BY Zenon, <2>1, <2>2, <1>1 DEF KeptBuffer, HasContext
    <2>3. CASE held' = held
        <3>1. \A h \in Handle : KeptBuffer(h) => KeptBuffer(h)'
            BY Zenon, <1>1, <2>2, <2>3 DEF KeptBuffer, HasContext
        <3> QED
            BY Zenon, <1>1, <1>2, <2>3, <3>1 DEF HoldInv
    <2>4. ASSUME NEW h \in Handle, phase = "run", client_id = batch.id, held[h] = NoBuffer,
                 held' = [held EXCEPT ![h] = batch.slot]
          PROVE  HoldInv'
        <3>1. batch.slot \in Slot \cup {NoBuffer}
            <4>1. batch # NoBatch
                BY <1>1 DEF NoBatch
            <4> QED
                BY Zenon, <4>1 DEF HoldInv, BatchTypes
        <3>2. /\ held' \in [Handle -> Slot \cup {NoBuffer}]
              /\ held'[h] = batch.slot /\ \A g \in Handle : g # h => held'[g] = held[g]
            BY Zenon, <2>4, <3>1 DEF HoldInv
        <3>3. ASSUME ~crossed', NEW g \in Handle, held'[g] # NoBuffer
              PROVE  KeptBuffer(g)'
            <4>1. FilledBuffer
                BY Zenon, <1>1, <1>4, <3>3 DEF HoldInv
            <4>2. \A f \in Handle : held[f] # batch.slot
                BY Zenon, <2>4, <4>1 DEF FilledBuffer
            <4>3. CASE g = h
                <5>1. \A f \in Handle \ {g} : held'[f] # held'[g]
                    BY Zenon, <3>2, <4>2, <4>3
                <5> QED
                    BY Zenon, <1>1, <2>1, <2>4, <3>2, <4>1, <4>3, <5>1
                       DEF KeptBuffer, FilledBuffer, HasContext
            <4>4. CASE g # h
                <5>1. KeptBuffer(g) /\ held'[g] = held[g]
                    BY Zenon, <1>1, <3>2, <3>3, <4>4 DEF HoldInv
                <5>2. \A f \in Handle \ {g} : held'[f] # held'[g]
                    BY Zenon, <3>2, <4>2, <5>1 DEF KeptBuffer
                <5> QED
                    BY Zenon, <1>1, <2>2, <5>1, <5>2 DEF KeptBuffer, HasContext
            <4> QED
                BY Zenon, <4>3, <4>4
        <3> QED
            BY Zenon, <1>1, <1>2, <2>4, <3>2, <3>3 DEF HoldInv
    <2> QED
        BY Zenon, <1>4, <2>3, <2>4
<1> QED
    BY Zenon, <1>3, <1>4 DEF BatchEnd, Take

\* The application starts without buffers, and ends without: none of the table of
\* the RealClient changes.
LEMMA NobodyHolds ==
    ASSUME HoldInv, \A h \in Handle : held'[h] = NoBuffer,
           held' \in [Handle -> Slot \cup {NoBuffer}], UNCHANGED <<shm_contexts, batch, crossed>>
    PROVE  HoldInv'
<1>1. BatchTypes'
    BY Zenon DEF HoldInv, BatchTypes
<1>2. FilledBuffer /\ batch.slot # NoBuffer => FilledBuffer'
    BY Zenon DEF FilledBuffer, HasContext
<1> QED
    BY Zenon, <1>1, <1>2 DEF HoldInv

\* Every step keeps the held buffers.
LEMMA HoldInvStep ==
    ASSUME OwnInv, HoldInv, [Next]_vars
    PROVE  HoldInv'
<1>1. CASE \/ MonitorScan \/ HealthChanges \/ ServerRestart \/ Connect
           \/ PingOk \/ PingFails \/ ReconnectStarts \/ ReconnectPing \/ PingExits
           \/ HelperEnd \/ UNCHANGED vars
           \/ \E s \in Shm : HelperBegin(s)
    <2>1. UNCHANGED <<shm_contexts, held, client_id, batch, crossed>>
        BY Zenon, <1>1 DEF MonitorScan, HealthChanges, ServerRestart, Connect, PingOk, PingFails,
           ReconnectStarts, ReconnectPing, PingExits, HelperEnd, vars, HelperBegin, memory,
           server, dummy
    <2>2. phase' = phase \/ phase = "new"
        BY Zenon, <1>1 DEF MonitorScan, HealthChanges, ServerRestart, Connect, PingOk, PingFails,
           ReconnectStarts, ReconnectPing, PingExits, HelperEnd, vars, HelperBegin, dummy
    <2>3. phase' \in {"run", "closing"} \/ phase \notin {"run", "closing"}
        BY Zenon, <2>2
    <2> QED
        BY Zenon, <2>1, <2>3, HoldStutter
<1>2. ASSUME NEW s, MapShmOk(client_id, s) \/ MapShmFails(client_id, s),
             UNCHANGED <<held, client_id, batch, crossed>>,
             phase' \in {"run", "closing"} \/ phase \notin {"run", "closing"}
      PROVE  HoldInv'
    <2>1. BatchTypes'
        BY Zenon, <1>2 DEF HoldInv, BatchTypes
    <2>2. \A c : HasContext(c) => Outlives(c)
        BY Zenon, <1>2, MapOutlives
    <2> QED
        BY Zenon, <1>2, <2>1, <2>2, HoldFrame
<1>3. ASSUME NEW s, RegisterShmViaIpcFails(s), UNCHANGED <<held, client_id, batch, crossed>>,
             phase' \in {"run", "closing"} \/ phase \notin {"run", "closing"}
      PROVE  HoldInv'
    BY Zenon, <1>2, <1>3, HoldStutter DEF RegisterShmViaIpcFails, memory
<1>4. CASE SetupRegister
    <2>1. UNCHANGED <<held, client_id, batch, crossed>> /\ phase \notin {"run", "closing"}
        BY Zenon, <1>4 DEF SetupRegister
    <2> QED
        BY Zenon, <1>2, <1>3, <1>4, <2>1 DEF SetupRegister
<1>5. ASSUME NEW s \in Shm, Reregister(s) PROVE HoldInv'
    <2>1. /\ UNCHANGED <<held, client_id, batch, crossed>>
          /\ phase' \in {"run", "closing"} \/ phase \notin {"run", "closing"}
        BY Zenon, <1>5 DEF Reregister
    <2> QED
        BY Zenon, <1>2, <1>3, <1>5, <2>1, HoldStutter DEF Reregister, memory
<1>6. ASSUME NEW s \in Shm, RegisterBuffer(s) PROVE HoldInv'
    <2>1. /\ UNCHANGED <<held, client_id, batch, crossed>>
          /\ phase' \in {"run", "closing"} \/ phase \notin {"run", "closing"}
        BY Zenon, <1>6 DEF RegisterBuffer
    <2> QED
        BY Zenon, <1>2, <1>3, <1>6, <2>1 DEF RegisterBuffer
<1>7. ASSUME NEW s \in Shm, UnregisterBuffer(s) PROVE HoldInv'
    <2>1. /\ UNCHANGED <<held, client_id, batch, crossed>> /\ UnregisterShm(client_id, s)
          /\ phase' \in {"run", "closing"} \/ phase \notin {"run", "closing"}
        BY Zenon, <1>7 DEF UnregisterBuffer
    <2>2. BatchTypes'
        BY Zenon, <2>1 DEF HoldInv, BatchTypes
    <2>3. \A c : HasContext(c) => Outlives(c)
        BY Zenon, <2>1, UnregisterOutlives
    <2> QED
        BY Zenon, <2>1, <2>2, <2>3, HoldFrame
<1>8. ASSUME NEW c \in Id, MonitorUnmap(c) PROVE HoldInv'
    <2>1. /\ UnmapShm(c) /\ UNCHANGED <<held, client_id>>
          /\ phase' \in {"run", "closing"} \/ phase \notin {"run", "closing"}
        BY Zenon, <1>8 DEF MonitorUnmap, dummy
    <2> QED
        BY Zenon, <2>1, UnmapHolds
<1>9. CASE TearDownUnmap
    <2>1. /\ UNCHANGED <<held, client_id>>
          /\ phase' \in {"run", "closing"} \/ phase \notin {"run", "closing"}
          /\ UnmapShm(client_id) \/ UNCHANGED <<shm_contexts, batch, crossed>>
        BY Zenon, <1>9 DEF TearDownUnmap, memory
    <2> QED
        BY Zenon, <2>1, UnmapHolds, HoldStutter
<1>10. CASE ServerCrash
    <2>1. /\ UNCHANGED <<held, client_id>> /\ phase' = phase /\ batch' = NoBatch
          /\ crossed' = (crossed \/ Holding)
        BY Zenon, <1>10 DEF ServerCrash, dummy
    <2>2. BatchTypes' /\ batch'.pc # "end"
        BY <2>1 DEF BatchTypes, NoBatch
    <2>3. ~crossed' => \A h \in Handle : held'[h] = NoBuffer
        BY Zenon, <2>1 DEF Holding
    <2> QED
        BY Zenon, <2>1, <2>2, <2>3 DEF HoldInv
<1>11. CASE TearDownJoin \/ DummyCrash \/ NextProcess
    <2>1. UNCHANGED <<shm_contexts, batch, crossed>> /\ held' = [h \in Handle |-> NoBuffer]
        BY Zenon, <1>11 DEF TearDownJoin, DummyCrash, NextProcess, server
    <2> QED
        BY Zenon, <2>1, NobodyHolds
<1>12. CASE BatchBegin
    <2>1. /\ UNCHANGED <<shm_contexts, held, client_id, crossed, phase>>
          /\ batch' = [pc |-> "get", id |-> client_id, stale |-> FALSE, slot |-> NoBuffer]
        BY Zenon, <1>12 DEF BatchBegin, memory, dummy
    <2>2. BatchTypes' /\ batch'.pc # "end"
        BY <2>1 DEF BatchTypes
    <2>3. \A h \in Handle : KeptBuffer(h) => KeptBuffer(h)'
        BY Zenon, <2>1 DEF KeptBuffer, HasContext
    <2> QED
        BY Zenon, <2>1, <2>2, <2>3 DEF HoldInv
<1> QED
    BY Zenon, <1>1, <1>4, <1>5, <1>6, <1>7, <1>8, <1>9, <1>10, <1>11, <1>12, AcquireHolds,
       ReleaseHolds, BatchGetHolds, BatchEndHolds
       DEF Next, MonitorThread, PingThread, Buffers, TearDown

\* As long as no buffer has outlived its context, what the application holds is
\* kept for it alone, whatever is acquired, released, mapped and unmapped
\* meanwhile, one by one or in batches that give the lock back in between.
THEOREM BuffersAreKept == Spec => []HeldBuffersAreKept
<1>1. Init => OwnInv /\ TransfersOnMappedMemory /\ HoldInv
    <2>1. ASSUME Init PROVE HoldInv
        <3>1. held = [h \in Handle |-> NoBuffer] /\ batch = NoBatch
            BY Zenon, <2>1 DEF Init
        <3>2. batch.pc # "end"
            BY <3>1 DEF NoBatch
        <3> QED
            BY Zenon, <3>1, <3>2 DEF HoldInv, BatchTypes
    <2> QED
        BY Zenon, <2>1, OwnInvInit DEF Init, TransfersOnMappedMemory
<1>2. OwnInv /\ TransfersOnMappedMemory /\ HoldInv /\ [Next]_vars
        => (OwnInv /\ TransfersOnMappedMemory /\ HoldInv)'
    BY Zenon, OwnInvStep, HoldInvStep
<1>3. HoldInv => HeldBuffersAreKept
    BY Zenon DEF HoldInv, HeldBuffersAreKept, KeptBuffer
<1> QED
    BY <1>1, <1>2, <1>3, PTL DEF Spec

-----------------------------------------------------------------------------
(* Types: a shared memory is mapped once per context, the queue is bounded. *)

\* A context within its types; no shared memory is mapped twice in it.
ContextOK(ctx) ==
    /\ IsContext(ctx)
    /\ \A i, j \in DOMAIN ctx.shms : ctx.shms[i].base = ctx.shms[j].base => i = j
    /\ ctx.allocator \in Addr \cup {NoAddr}
    /\ ctx.used \subseteq Slot /\ ctx.active \subseteq Slot

ContextsOK ==
    /\ DOMAIN shm_contexts \subseteq Id
    /\ \A c \in DOMAIN shm_contexts : ContextOK(shm_contexts[c])

\* So a context lists no more memories than there are.
LEMMA ContextIsTyped ==
    ASSUME NEW ctx, ContextOK(ctx)
    PROVE  ctx \in Context
<1>1. PICK shms : shms = ctx.shms
    BY Zenon
<1>2. shms \in Seq(Entry) /\ Len(shms) \in Nat /\ DOMAIN shms = 1..Len(shms)
    BY Zenon, <1>1, LenProperties DEF ContextOK, IsContext
<1>3. shms \in [1..Len(shms) -> Entry]
    BY <1>2
<1>4. PICK f : f = [i \in 1..Len(shms) |-> shms[i].base]
    BY Zenon
<1>5. \A i \in 1..Len(shms) : shms[i].base \in Shm
    BY <1>3 DEF Entry
<1>6. f \in [1..Len(shms) -> Shm]
    BY Zenon, <1>4, <1>5
<1>7. \A i, j \in 1..Len(shms) : f[i] = f[j] => i = j
    BY Zenon, <1>1, <1>2, <1>4 DEF ContextOK
<1>8. f \in Injection(1..Len(shms), Shm)
    BY Zenon, <1>6, <1>7 DEF Injection, IsInjective
<1>9. Cardinality(1..Len(shms)) <= Cardinality(Shm)
    BY Zenon, <1>8, FS_Injection, ShmAssumption
<1>10. Cardinality(1..Len(shms)) = Len(shms)
    BY <1>2, FS_Interval
<1>11. Cardinality(Shm) \in Nat
    BY Zenon, FS_CardinalityType, ShmAssumption
<1>12. Len(shms) \in 0..Cardinality(Shm)
    BY <1>2, <1>9, <1>10, <1>11
<1>13. ctx.shms \in UNION {[1..n -> [base : Shm, addr : Addr]] : n \in 0..Cardinality(Shm)}
    BY Zenon, <1>1, <1>3, <1>12 DEF Entry
<1>14. PICK all : all = UNION {[1..n -> [base : Shm, addr : Addr]] : n \in 0..Cardinality(Shm)}
    BY Zenon
<1>15. /\ ctx = [shms |-> ctx.shms, allocator |-> ctx.allocator,
                 used |-> ctx.used, active |-> ctx.active]
       /\ ctx.shms \in all /\ ctx.allocator \in Addr \cup {NoAddr}
       /\ ctx.used \in SUBSET Slot /\ ctx.active \in SUBSET Slot
    BY Zenon, <1>13, <1>14 DEF ContextOK, IsContext
<1>16. ctx \in [shms : all, allocator : Addr \cup {NoAddr}, used : SUBSET Slot, active : SUBSET Slot]
    BY <1>15
<1> QED
    BY Zenon, <1>14, <1>16 DEF Context

\* One context changes, or is added.
LEMMA OneContext ==
    ASSUME ContextsOK, NEW c \in Id, DOMAIN shm_contexts' \subseteq DOMAIN shm_contexts \cup {c},
           \A d \in DOMAIN shm_contexts' : d # c => shm_contexts'[d] = shm_contexts[d],
           c \in DOMAIN shm_contexts' => ContextOK(shm_contexts'[c])
    PROVE  ContextsOK'
<1>1. ASSUME NEW d \in DOMAIN shm_contexts' PROVE ContextOK(shm_contexts'[d])
    BY Zenon, <1>1 DEF ContextsOK
<1>2. DOMAIN shm_contexts' \subseteq Id
    BY Zenon DEF ContextsOK
<1> QED
    BY Zenon, <1>1, <1>2 DEF ContextsOK, ContextOK, IsContext

\* Mapping a memory that the context does not list, or failing to.
LEMMA MapTypes ==
    ASSUME OwnInv, ContextsOK, NEW c \in Id, NEW s \in Shm, MapShmOk(c, s) \/ MapShmFails(c, s)
    PROVE  ContextsOK'
<1>1. PICK ctx : ctx = StartContext(c)
    BY Zenon
<1>2. ContextOK(ctx) /\ ctx.shms \in Seq(Entry)
    <2>1. CASE HasContext(c)
        BY Zenon, <1>1, <2>1 DEF StartContext, HasContext, ContextsOK, ContextOK, IsContext
    <2>2. CASE ~HasContext(c)
        <3>1. ctx.used = {} /\ ctx.active = {} /\ ctx.allocator = NoAddr
            BY <1>1, <2>2 DEF StartContext, EmptyContext
        <3>2. IsContext(ctx) /\ \A i \in DOMAIN ctx.shms : HasContext(c)
            BY Zenon, <1>1, StartingContext
        <3> QED
            BY Zenon, <2>2, <3>1, <3>2 DEF ContextOK, IsContext
    <2> QED
        BY Zenon, <2>1, <2>2
<1>3. CASE UNCHANGED shm_contexts
    BY Zenon, <1>3 DEF ContextsOK, ContextOK, IsContext
<1>4. ASSUME NEW new, shm_contexts' = SetContext(c, new), ContextOK(new)
      PROVE  ContextsOK'
    <2>1. /\ DOMAIN shm_contexts' \subseteq DOMAIN shm_contexts \cup {c}
          /\ \A d \in DOMAIN shm_contexts' : d # c => shm_contexts'[d] = shm_contexts[d]
          /\ shm_contexts'[c] = new
        BY Zenon, <1>4 DEF SetContext
    <2> QED
        BY Zenon, <1>4, <2>1, OneContext
<1>5. CASE MapShmOk(c, s) /\ ~UNCHANGED shm_contexts
    <2>1. PICK a \in Addr : shm_contexts' = SetContext(c,
                     [shms |-> Append(ctx.shms, [base |-> s, addr |-> a]),
                      allocator |-> IF s = Local THEN a ELSE ctx.allocator,
                      used |-> ctx.used, active |-> ctx.active])
        BY Zenon, <1>1, <1>5 DEF MapShmOk, StartContext, memory
    <2>2. ~ \E i \in DOMAIN ctx.shms : ctx.shms[i].base = s
        BY Zenon, <1>1, <1>5 DEF MapShmOk, StartContext, memory
    <2>3. PICK e, more : e = [base |-> s, addr |-> a] /\ more = Append(ctx.shms, e)
        BY Zenon
    <2>4. e \in Entry /\ e.base = s
        BY <2>3 DEF Entry
    <2>5. PICK n \in Nat : n = Len(ctx.shms) /\ DOMAIN ctx.shms = 1..n
        BY Zenon, <1>2, LenProperties
    <2>6. /\ more \in Seq(Entry) /\ Len(more) = n + 1
          /\ \A i \in 1..n : more[i] = ctx.shms[i]
          /\ more[n + 1] = e
        BY <1>2, <2>3, <2>4, <2>5
    <2>7. DOMAIN more = 1..(n + 1)
        BY Zenon, <2>6, LenProperties
    <2>8. \A i \in DOMAIN more : (i \in 1..n /\ more[i].base = ctx.shms[i].base /\ more[i].base # s)
                                  \/ (i = n + 1 /\ more[i].base = s)
        <3> SUFFICES ASSUME NEW i \in DOMAIN more
                     PROVE  (i \in 1..n /\ more[i].base = ctx.shms[i].base /\ more[i].base # s)
                             \/ (i = n + 1 /\ more[i].base = s)
            BY Zenon
        <3>1. i \in 1..n \/ i = n + 1
            BY <2>5, <2>7
        <3> QED
            BY Zenon, <3>1, <2>2, <2>4, <2>5, <2>6
    <2>9. \A i, j \in DOMAIN more : more[i].base = more[j].base => i = j
        BY Zenon, <1>2, <2>5, <2>8 DEF ContextOK
    <2>10. PICK new : new = [shms |-> more, allocator |-> IF s = Local THEN a ELSE ctx.allocator,
                             used |-> ctx.used, active |-> ctx.active]
        BY Zenon
    <2>11. /\ new.shms = more /\ new.used = ctx.used /\ new.active = ctx.active
           /\ new.allocator \in {a, ctx.allocator}
           /\ new = [shms |-> new.shms, allocator |-> new.allocator,
                     used |-> new.used, active |-> new.active]
        BY Zenon, <2>10
    <2>12. ContextOK(new)
        BY Zenon, <1>2, <2>6, <2>9, <2>11 DEF ContextOK, IsContext
    <2>13. shm_contexts' = SetContext(c, new)
        BY Zenon, <2>1, <2>3, <2>10
    <2> QED
        BY Zenon, <1>4, <2>12, <2>13
<1>6. CASE MapShmFails(c, s) /\ ~UNCHANGED shm_contexts
    <2>1. shm_contexts' = SetContext(c, ctx)
        BY Zenon, <1>1, <1>6 DEF MapShmFails, StartContext
    <2> QED
        BY Zenon, <1>2, <1>4, <2>1
<1> QED
    BY Zenon, <1>3, <1>5, <1>6

\* Unregistering a memory.
LEMMA UnregisterTypes ==
    ASSUME OwnInv, ContextsOK, NEW c \in Id, NEW s, UnregisterShm(c, s)
    PROVE  ContextsOK'
<1>1. PICK old : old = shm_contexts[c].shms
    BY Zenon
<1>2. PICK i \in DOMAIN old : shm_contexts' = [shm_contexts EXCEPT ![c].shms = Erase(@, i)]
    BY Zenon, <1>1 DEF UnregisterShm
<1>3. c \in DOMAIN shm_contexts /\ ContextOK(shm_contexts[c])
    BY Zenon DEF UnregisterShm, HasContext, ContextsOK
<1>4. old \in Seq(Entry) /\ DOMAIN old = 1..Len(old) /\ Len(old) \in Nat
    BY Zenon, <1>1, <1>3, LenProperties DEF ContextOK, IsContext
<1>5. PICK new : new = Erase(old, i)
    BY Zenon
<1>6. /\ new \in Seq(Entry) /\ Len(new) = Len(old) - 1
      /\ \A j \in 1..(Len(old) - 1) : new[j] = IF j < i THEN old[j] ELSE old[j + 1]
    BY Zenon, <1>2, <1>4, <1>5, EraseElements
<1>7. DOMAIN new = 1..(Len(old) - 1)
    BY Zenon, <1>6, LenProperties
<1>8. \A j \in DOMAIN new :
        /\ j \in Int /\ (IF j < i THEN j ELSE j + 1) \in DOMAIN old
        /\ new[j] = old[IF j < i THEN j ELSE j + 1]
    BY <1>2, <1>4, <1>6, <1>7
<1>9. i \in Int
    BY <1>2, <1>4
<1>10. ASSUME NEW j \in DOMAIN new, NEW k \in DOMAIN new, new[j].base = new[k].base
       PROVE  j = k
    <2>1. PICK p \in DOMAIN old : p = (IF j < i THEN j ELSE j + 1) /\ new[j] = old[p]
        BY Zenon, <1>8
    <2>2. PICK q \in DOMAIN old : q = (IF k < i THEN k ELSE k + 1) /\ new[k] = old[q]
        BY Zenon, <1>8
    <2>3. p = q
        BY Zenon, <1>1, <1>3, <1>10, <2>1, <2>2 DEF ContextOK
    <2>4. j \in Int /\ k \in Int
        BY Zenon, <1>8
    <2> QED
        BY <1>9, <2>1, <2>2, <2>3, <2>4
<1>11. /\ DOMAIN shm_contexts' = DOMAIN shm_contexts
       /\ shm_contexts'[c] = [shm_contexts[c] EXCEPT !.shms = new]
       /\ \A d \in DOMAIN shm_contexts' : d # c => shm_contexts'[d] = shm_contexts[d]
    BY Zenon, <1>1, <1>2, <1>3, <1>5 DEF OwnInv, ContextTypes
<1>12. /\ IsContext(shm_contexts'[c])
       /\ shm_contexts'[c].shms = new
       /\ shm_contexts'[c].allocator = shm_contexts[c].allocator
       /\ shm_contexts'[c].used = shm_contexts[c].used
       /\ shm_contexts'[c].active = shm_contexts[c].active
    BY Zenon, <1>3, <1>6, <1>11 DEF ContextOK, IsContext
<1>13. ContextOK(shm_contexts'[c])
    BY Zenon, <1>3, <1>10, <1>12 DEF ContextOK
<1> QED
    BY Zenon, <1>11, <1>13, OneContext

\* Unmapping takes a whole context away.
LEMMA UnmapTypes ==
    ASSUME ContextsOK, NEW c \in Id, UnmapShm(c)
    PROVE  ContextsOK'
<1>1. CASE UNCHANGED shm_contexts
    BY Zenon, <1>1 DEF ContextsOK, ContextOK, IsContext
<1>2. CASE shm_contexts' = DropContext(c)
    <2>1. /\ DOMAIN shm_contexts' = DOMAIN shm_contexts \ {c}
          /\ \A d \in DOMAIN shm_contexts' : d # c => shm_contexts'[d] = shm_contexts[d]
        BY Zenon, <1>2 DEF DropContext
    <2> QED
        BY Zenon, <2>1, OneContext
<1> QED
    BY Zenon, <1>1, <1>2 DEF UnmapShm, memory

\* Handing out buffers leaves the memories alone.
LEMMA HandsTypes ==
    ASSUME OwnInv, ContextsOK, NEW c \in DOMAIN shm_contexts, NEW used \in SUBSET Slot,
           NEW active \in SUBSET Slot, Hands(c, used, active)
    PROVE  ContextsOK'
<1>1. /\ DOMAIN shm_contexts' = DOMAIN shm_contexts
      /\ \A d \in DOMAIN shm_contexts' : d # c => shm_contexts'[d] = shm_contexts[d]
      /\ shm_contexts'[c].used = used /\ shm_contexts'[c].active = active
    BY Zenon, BufferFields
<1>2. ContextOK(shm_contexts[c]) /\ c \in Id
    BY Zenon DEF ContextsOK
<1>3. \/ shm_contexts'[c] = [shm_contexts[c] EXCEPT !.used = used, !.active = active]
      \/ shm_contexts'[c] = [shm_contexts[c] EXCEPT !.used = used]
      \/ shm_contexts'[c] = [shm_contexts[c] EXCEPT !.active = active]
    BY Zenon DEF OwnInv, ContextTypes, Hands
<1>4. /\ IsContext(shm_contexts'[c])
      /\ shm_contexts'[c].shms = shm_contexts[c].shms
      /\ shm_contexts'[c].allocator = shm_contexts[c].allocator
    BY Zenon, <1>2, <1>3 DEF ContextOK, IsContext
<1>5. ContextOK(shm_contexts'[c])
    BY Zenon, <1>1, <1>2, <1>4 DEF ContextOK
<1> QED
    BY Zenon, <1>1, <1>2, <1>5, OneContext

\* Acquiring and releasing hand out buffers of the allocator.
LEMMA BufferTypes ==
    ASSUME OwnInv, HoldInv, ContextsOK,
           \/ \E h \in Handle : AcquireBuffer(h) \/ Release(h)
           \/ BatchGet \/ BatchEnd
    PROVE  ContextsOK'
<1>1. CASE UNCHANGED shm_contexts
    BY Zenon, <1>1 DEF ContextsOK, ContextOK, IsContext
<1>2. CASE ~UNCHANGED shm_contexts
    <2>1. PICK c \in DOMAIN shm_contexts, b \in Slot \cup {NoBuffer} :
            \/ Hands(c, shm_contexts[c].used \cup {b}, shm_contexts[c].active \cup {b}) /\ b \in Slot
            \/ Hands(c, shm_contexts[c].used \ {b}, shm_contexts[c].active \ {b})
            \/ Hands(c, shm_contexts[c].used \cup {b}, shm_contexts[c].active) /\ b \in Slot
            \/ Hands(c, shm_contexts[c].used, shm_contexts[c].active \cup {b}) /\ b \in Slot
        <3>1. ASSUME NEW h \in Handle, AcquireBuffer(h)
              PROVE  \E b \in Slot : /\ client_id \in DOMAIN shm_contexts
                                     /\ Hands(client_id, shm_contexts[client_id].used \cup {b},
                                              shm_contexts[client_id].active \cup {b})
            <4>1. PICK b \in FreeSlots(client_id) :
                    shm_contexts' = [shm_contexts EXCEPT ![client_id].used = @ \cup {b},
                                                         ![client_id].active = @ \cup {b}]
                BY Zenon, <3>1 DEF AcquireBuffer
            <4>2. client_id \in DOMAIN shm_contexts /\ b \in Slot
                BY Zenon, <4>1 DEF FreeSlots, HasContext
            <4> QED
                BY Zenon, <4>1, <4>2 DEF Hands
        <3>2. ASSUME NEW h \in Handle, Release(h)
              PROVE  /\ client_id \in DOMAIN shm_contexts /\ held[h] \in Slot \cup {NoBuffer}
                     /\ Hands(client_id, shm_contexts[client_id].used \ {held[h]},
                              shm_contexts[client_id].active \ {held[h]})
            <4>1. held[h] \in Slot \cup {NoBuffer}
                BY Zenon DEF HoldInv
            <4> QED
                BY Zenon, <1>2, <3>2, <4>1 DEF Release, HasContext, Hands
        <3>3. ASSUME BatchGet
              PROVE  \E b \in Slot : /\ batch.id \in DOMAIN shm_contexts
                                     /\ Hands(batch.id, shm_contexts[batch.id].used \cup {b},
                                              shm_contexts[batch.id].active)
            <4>1. PICK b \in FreeSlots(batch.id) :
                    shm_contexts' = [shm_contexts EXCEPT ![batch.id].used = @ \cup {b}]
                BY Zenon, <1>2, <3>3 DEF BatchGet
            <4>2. batch.id \in DOMAIN shm_contexts /\ b \in Slot
                BY Zenon, <4>1 DEF FreeSlots, HasContext
            <4> QED
                BY Zenon, <4>1, <4>2 DEF Hands
        <3>4. ASSUME BatchEnd
              PROVE  /\ batch.id \in DOMAIN shm_contexts /\ batch.slot \in Slot
                     /\ Hands(batch.id, shm_contexts[batch.id].used,
                              shm_contexts[batch.id].active \cup {batch.slot})
            <4>1. /\ batch.slot # NoBuffer /\ batch.id \in DOMAIN shm_contexts
                  /\ shm_contexts' = [shm_contexts EXCEPT ![batch.id].active = @ \cup {batch.slot}]
                  /\ batch.pc = "end"
                BY Zenon, <1>2, <3>4 DEF BatchEnd, HasContext
            <4>2. batch # NoBatch
                BY <4>1 DEF NoBatch
            <4>3. batch.slot \in Slot
                BY Zenon, <4>1, <4>2 DEF HoldInv, BatchTypes
            <4> QED
                BY Zenon, <4>1, <4>3 DEF Hands
        <3> QED
            BY Zenon, <3>1, <3>2, <3>3, <3>4
    <2>2. shm_contexts[c].used \subseteq Slot /\ shm_contexts[c].active \subseteq Slot
        BY Zenon DEF ContextsOK, ContextOK
    <2>3. PICK used \in SUBSET Slot, active \in SUBSET Slot : Hands(c, used, active)
        BY Zenon, <2>1, <2>2
    <2> QED
        BY Zenon, <2>3, HandsTypes
<1> QED
    BY Zenon, <1>1, <1>2

\* Every fault a step meets is counted, and none happens beyond the bound.
LEMMA FaultStep ==
    ASSUME [Next]_vars
    PROVE  faults' = faults \/ Fault
<1>1. CASE Mapping
    <2>1. ASSUME NEW c, UnmapShm(c) PROVE faults' = faults \/ Fault
        BY Zenon, <2>1 DEF UnmapShm, NoFault
    <2>2. ASSUME NEW s, RegisterShmViaIpcFails(s) PROVE faults' = faults \/ Fault
        BY Zenon, <2>2 DEF RegisterShmViaIpcFails, MapShmFails
    <2> QED
        BY Zenon, <1>1, <2>1, <2>2 DEF Mapping, MonitorUnmap, SetupRegister, Reregister,
           RegisterBuffer, UnregisterBuffer, TearDownUnmap, NoFault
<1>2. CASE ~Mapping
    BY Zenon, <1>2 DEF Mapping, Next, MonitorThread, PingThread, Buffers, TearDown, MonitorScan,
       HealthChanges, ServerCrash, ServerRestart, Connect, PingOk, PingFails, ReconnectStarts,
       ReconnectPing, PingExits, AcquireBuffer, Release, BatchBegin, BatchGet, BatchEnd,
       HelperBegin, HelperEnd, TearDownJoin, DummyCrash, NextProcess, NoFault, vars
<1> QED
    BY Zenon, <1>1, <1>2

\* The DummyClient's variables, and the flags of the RealClient.
DummyTypes ==
    /\ up \in BOOLEAN /\ healthy \in BOOLEAN /\ crossed \in BOOLEAN
    /\ client_id \in Id
    /\ phase \in {"new", "connected", "run", "closing", "closed", "dead"}
    /\ registered \subseteq Shm /\ todo \subseteq Shm
    /\ connected \in BOOLEAN /\ ping_running \in BOOLEAN
    /\ ping_pc \in {"ping", "retry", "register", "exit"}

\* They keep their types.
LEMMA DummyStep ==
    ASSUME DummyTypes, [Next]_vars
    PROVE  DummyTypes'
<1> USE DEF DummyTypes
<1>1. CASE Mapping
    <2>1. UNCHANGED <<up, healthy, client_id>>
        BY Zenon, <1>1 DEF Mapping, MonitorUnmap, SetupRegister, Reregister, RegisterBuffer,
           UnregisterBuffer, TearDownUnmap, dummy
    <2>2. crossed' \in BOOLEAN
        BY Zenon, <1>1 DEF Mapping, MonitorUnmap, SetupRegister, Reregister, RegisterBuffer,
           UnregisterBuffer, TearDownUnmap, UnmapShm
    <2>3. CASE (\E c \in Id : MonitorUnmap(c)) \/ TearDownUnmap
        BY Zenon, <2>1, <2>2, <2>3 DEF MonitorUnmap, TearDownUnmap, dummy
    <2>4. CASE SetupRegister
        BY Zenon, <2>1, <2>2, <2>4, ShmAssumption DEF SetupRegister
    <2>5. CASE \E s \in Shm : Reregister(s)
        BY Zenon, <2>1, <2>2, <2>5 DEF Reregister
    <2>6. CASE \E s \in Shm : RegisterBuffer(s) \/ UnregisterBuffer(s)
        BY Zenon, <2>1, <2>2, <2>6 DEF RegisterBuffer, UnregisterBuffer
    <2> QED
        BY Zenon, <1>1, <2>3, <2>4, <2>5, <2>6 DEF Mapping
<1>2. CASE ServerCrash \/ ServerRestart \/ HealthChanges
    BY Zenon, <1>2 DEF ServerCrash, ServerRestart, HealthChanges, dummy
<1>3. CASE Connect \/ PingFails \/ ReconnectStarts \/ ReconnectPing \/ PingExits
    BY Zenon, <1>3 DEF Connect, PingFails, ReconnectStarts, ReconnectPing, PingExits, server
<1>4. CASE NextProcess
    <2>1. client_id + 1 \in Id
        BY <1>4, ShmAssumption DEF NextProcess, Id
    <2> QED
        BY Zenon, <1>4, <2>1 DEF NextProcess, server
<1>5. CASE TearDownJoin \/ DummyCrash
    BY Zenon, <1>5 DEF TearDownJoin, DummyCrash, server
<1>6. CASE \/ \E h \in Handle : AcquireBuffer(h) \/ Release(h)
           \/ BatchEnd
    <2>1. UNCHANGED <<up, healthy, crossed, client_id, phase, registered, todo, connected,
                      ping_running, ping_pc>>
        BY Zenon, <1>6 DEF AcquireBuffer, Release, BatchEnd
    <2> QED
        BY Zenon, <2>1
<1>7. CASE \/ BatchBegin \/ BatchGet \/ \E s \in Shm : HelperBegin(s)
           \/ HelperEnd \/ MonitorScan \/ PingOk \/ UNCHANGED vars
    <2>1. UNCHANGED <<up, healthy, crossed, client_id, phase, registered, todo, connected,
                      ping_running, ping_pc>>
        BY Zenon, <1>7 DEF BatchBegin, BatchGet, HelperBegin, HelperEnd, MonitorScan, PingOk,
           dummy, server, vars
    <2> QED
        BY Zenon, <2>1
<1> QED
    BY Zenon, <1>1, <1>2, <1>3, <1>4, <1>5, <1>6, <1>7
       DEF Next, MonitorThread, PingThread, Buffers, TearDown, Mapping

\* The queue of pings and the monitor's table.
MonitorTypes ==
    /\ ping_queue \in Seq(Id) /\ Len(ping_queue) <= QueueSize
    /\ DOMAIN client_ttl \subseteq Id
    /\ \A c \in DOMAIN client_ttl : client_ttl[c] \in 0..TtlTicks
    /\ expired \subseteq Id

\* A ping is queued only when there is room for it, and every pass of the monitor
\* over its table counts down without passing zero.
LEMMA MonitorStep ==
    ASSUME MonitorTypes, DummyTypes, [Next]_vars
    PROVE  MonitorTypes'
<1>1. CASE MonitorScan
    <2>1. PICK fresh, old, late :
            /\ fresh = Range(ping_queue) /\ old = DOMAIN client_ttl \ fresh
            /\ late = {c \in old : client_ttl[c] = 0}
        BY Zenon
    <2>2. /\ ping_queue' = <<>> /\ expired' = late
          /\ client_ttl' = [c \in (fresh \cup old) \ late |->
                             IF c \in fresh THEN TtlTicks ELSE client_ttl[c] - 1]
        BY Zenon, <1>1, <2>1 DEF MonitorScan
    <2>3. fresh \subseteq Id
        BY <2>1 DEF MonitorTypes, Range
    <2>4. old \subseteq Id /\ late \subseteq Id
        BY Zenon, <2>1 DEF MonitorTypes
    <2>5. ASSUME NEW c \in (fresh \cup old) \ late
          PROVE  (IF c \in fresh THEN TtlTicks ELSE client_ttl[c] - 1) \in 0..TtlTicks
        <3>1. CASE c \in fresh
            BY <3>1, ShmAssumption
        <3>2. CASE c \notin fresh
            <4>1. client_ttl[c] \in 0..TtlTicks /\ client_ttl[c] # 0
                BY Zenon, <2>1, <2>5, <3>2 DEF MonitorTypes
            <4> QED
                BY <3>2, <4>1, ShmAssumption
        <3> QED
            BY Zenon, <3>1, <3>2
    <2>6. DOMAIN client_ttl' \subseteq Id /\ \A c \in DOMAIN client_ttl' : client_ttl'[c] \in 0..TtlTicks
        BY Zenon, <2>2, <2>3, <2>4, <2>5
    <2>7. <<>> \in Seq(Id) /\ Len(<<>>) <= QueueSize
        BY ShmAssumption
    <2> QED
        BY Zenon, <2>2, <2>4, <2>6, <2>7 DEF MonitorTypes
<1>2. CASE PingOk \/ PingFails \/ ReconnectPing
    <2>1. /\ UNCHANGED <<client_ttl, expired>>
          /\ \/ ping_queue' = ping_queue
             \/ ~QueueFull /\ ping_queue' = Append(ping_queue, client_id)
        BY Zenon, <1>2 DEF PingOk, PingFails, ReconnectPing, QueuePing
    <2>2. ASSUME ~QueueFull
          PROVE  /\ Append(ping_queue, client_id) \in Seq(Id)
                 /\ Len(Append(ping_queue, client_id)) <= QueueSize
        <3>1. client_id \in Id /\ ping_queue \in Seq(Id)
            BY Zenon DEF DummyTypes, MonitorTypes
        <3> QED
            BY <2>2, <3>1, ShmAssumption DEF MonitorTypes, QueueFull
    <2> QED
        BY Zenon, <2>1, <2>2 DEF MonitorTypes
<1>3. CASE ServerCrash
    <2>1. ping_queue' = <<>> /\ client_ttl' = <<>> /\ expired' = {}
        BY Zenon, <1>3 DEF ServerCrash
    <2>2. <<>> \in Seq(Id) /\ Len(<<>>) <= QueueSize /\ DOMAIN <<>> = {}
        BY ShmAssumption
    <2> QED
        BY Zenon, <2>1, <2>2 DEF MonitorTypes
<1>4. CASE \E c \in Id : MonitorUnmap(c)
    BY Zenon, <1>4 DEF MonitorUnmap, MonitorTypes
<1>5. CASE ~(MonitorScan \/ PingOk \/ PingFails \/ ReconnectPing \/ ServerCrash
               \/ \E c \in Id : MonitorUnmap(c))
    <2>1. UNCHANGED <<ping_queue, client_ttl, expired>>
        BY Zenon, <1>5 DEF Next, MonitorThread, PingThread, Buffers, TearDown, HealthChanges,
           ServerRestart, Connect, SetupRegister, ReconnectStarts, PingExits, Reregister,
           RegisterBuffer, UnregisterBuffer, AcquireBuffer, Release, BatchBegin, BatchGet,
           BatchEnd, HelperBegin, HelperEnd, TearDownUnmap, TearDownJoin, DummyCrash,
           NextProcess, vars, server, monitor
    <2> QED
        BY Zenon, <2>1 DEF MonitorTypes
<1> QED
    BY Zenon, <1>1, <1>2, <1>3, <1>4, <1>5

AddrTypes == mapped \subseteq Addr /\ te \subseteq Addr /\ leaked \subseteq Addr

\* Only addresses at which memory was mapped are registered, or given up.
LEMMA AddrStep ==
    ASSUME OwnInv, AddrTypes, [Next]_vars
    PROVE  AddrTypes'
<1>1. ASSUME UNCHANGED memory PROVE AddrTypes'
    BY Zenon, <1>1 DEF memory, AddrTypes
<1>2. ASSUME NEW c, NEW s, MapShmOk(c, s) \/ MapShmFails(c, s) PROVE AddrTypes'
    BY Zenon, <1>2 DEF MapShmOk, MapShmFails, memory, AddrTypes
<1>3. ASSUME NEW s, RegisterShmViaIpcFails(s) PROVE AddrTypes'
    BY Zenon, <1>1, <1>2, <1>3 DEF RegisterShmViaIpcFails
<1>4. ASSUME NEW c, NEW s, UnregisterShm(c, s) PROVE AddrTypes'
    BY Zenon, <1>4 DEF UnregisterShm, AddrTypes
<1>5. ASSUME NEW c, UnmapShm(c) PROVE AddrTypes'
    <2>1. CASE UNCHANGED memory
        BY Zenon, <1>1, <2>1
    <2>2. CASE ~UNCHANGED memory
        <3>1. PICK s : s = shm_contexts[c].shms
            BY Zenon
        <3>2. HasContext(c)
            BY Zenon, <1>5, <2>2 DEF UnmapShm
        <3>3. PICK k \in 1..Len(s) + 1 :
                /\ mapped' = mapped \ {s[i].addr : i \in 1..k \cap DOMAIN s}
                /\ te' = te \ {s[i].addr : i \in 1..(k - 1)}
                /\ leaked' = leaked \cup {s[i].addr : i \in k..Len(s)}
            BY <1>5, <3>1, <3>2 DEF UnmapShm
        <3>4. s \in Seq(Entry) /\ DOMAIN s = 1..Len(s) /\ Len(s) \in Nat
            BY Zenon, <3>1, <3>2, LenProperties DEF OwnInv, ContextTypes, IsContext, HasContext
        <3>5. \A i \in k..Len(s) : i \in DOMAIN s
            BY <3>3, <3>4
        <3>6. \A i \in k..Len(s) : s[i].addr \in mapped
            BY Zenon, <3>1, <3>2, <3>5 DEF OwnInv, ListedIsMapped, HasContext
        <3> QED
            BY Zenon, <3>3, <3>6 DEF AddrTypes
    <2> QED
        BY Zenon, <2>1, <2>2
<1>6. CASE Mapping
    BY Zenon, <1>1, <1>2, <1>3, <1>4, <1>5, <1>6 DEF Mapping, MonitorUnmap, SetupRegister,
       Reregister, RegisterBuffer, UnregisterBuffer, TearDownUnmap
<1>7. CASE ServerCrash
    BY Zenon, <1>7 DEF ServerCrash, AddrTypes
<1>8. CASE ~Mapping /\ ~ServerCrash
    <2>1. UNCHANGED <<mapped, te, leaked>>
        BY Zenon, <1>8 DEF Mapping, Next, MonitorThread, PingThread, Buffers, TearDown,
           MonitorScan, HealthChanges, ServerRestart, Connect, PingOk, PingFails,
           ReconnectStarts, ReconnectPing, PingExits, AcquireBuffer, Release, BatchBegin,
           BatchGet, BatchEnd, HelperBegin, HelperEnd, TearDownJoin, DummyCrash, NextProcess,
           vars, server, memory
    <2> QED
        BY Zenon, <2>1 DEF AddrTypes
<1> QED
    BY Zenon, <1>6, <1>7, <1>8

\* Contexts keep their types.
LEMMA ContextsStep ==
    ASSUME OwnInv, HoldInv, DummyTypes, MonitorTypes, ContextsOK, [Next]_vars
    PROVE  ContextsOK'
<1>1. ASSUME UNCHANGED shm_contexts PROVE ContextsOK'
    BY Zenon, <1>1 DEF ContextsOK, ContextOK, IsContext
<1>2. client_id \in Id /\ Local \in Shm
    BY Zenon, ShmAssumption DEF DummyTypes
<1>3. ASSUME NEW s \in Shm, RegisterShmViaIpcFails(s) PROVE ContextsOK'
    BY Zenon, <1>1, <1>2, <1>3, MapTypes DEF RegisterShmViaIpcFails, memory
<1>4. CASE Mapping
    BY Zenon, <1>1, <1>2, <1>3, <1>4, MapTypes, UnmapTypes, UnregisterTypes DEF Mapping,
       MonitorUnmap, SetupRegister, Reregister, RegisterBuffer, UnregisterBuffer, TearDownUnmap,
       memory
<1>5. CASE ServerCrash
    <2>1. shm_contexts' = <<>>
        BY Zenon, <1>5 DEF ServerCrash
    <2>2. DOMAIN shm_contexts' = {}
        BY <2>1
    <2> QED
        BY Zenon, <2>2 DEF ContextsOK
<1>6. CASE \/ \E h \in Handle : AcquireBuffer(h) \/ Release(h)
           \/ BatchGet \/ BatchEnd
    BY Zenon, <1>6, BufferTypes
<1>7. CASE \/ MonitorScan \/ HealthChanges \/ ServerRestart \/ Connect
           \/ PingOk \/ PingFails \/ ReconnectStarts \/ ReconnectPing \/ PingExits
           \/ HelperEnd \/ TearDownJoin \/ DummyCrash \/ NextProcess \/ BatchBegin
           \/ UNCHANGED vars
           \/ \E s \in Shm : HelperBegin(s)
    <2>1. UNCHANGED shm_contexts
        BY Zenon, <1>7 DEF MonitorScan, HealthChanges, ServerRestart, Connect, PingOk, PingFails,
           ReconnectStarts, ReconnectPing, PingExits, HelperEnd, TearDownJoin, DummyCrash,
           NextProcess, BatchBegin, vars, HelperBegin, memory, server
    <2> QED
        BY Zenon, <1>1, <2>1
<1> QED
    BY Zenon, <1>4, <1>5, <1>6, <1>7 DEF Next, MonitorThread, PingThread, Buffers, TearDown, Mapping

\* The inductive invariant of TypeOK.
TypeInv ==
    /\ OwnInv /\ TransfersOnMappedMemory /\ HoldInv
    /\ DummyTypes /\ MonitorTypes /\ AddrTypes /\ ContextsOK /\ faults \in 0..MaxFaults

\* Every variable keeps its type and its bound: in particular a context maps each
\* shared memory at most once, also when a registration whose answer was lost is
\* repeated, and the queue of pings never outgrows kDummyClientPingQueueSize.
THEOREM DummyShmTypes == Spec => []TypeOK
<1>1. Init => TypeInv
    <2> SUFFICES ASSUME Init PROVE TypeInv
        BY Zenon
    <2>1. HoldInv
        <3>1. held = [h \in Handle |-> NoBuffer] /\ batch = NoBatch
            BY Zenon DEF Init
        <3>2. batch.pc # "end"
            BY <3>1 DEF NoBatch
        <3> QED
            BY Zenon, <3>1, <3>2 DEF HoldInv, BatchTypes
    <2>2. OwnInv /\ TransfersOnMappedMemory /\ AddrTypes
        BY Zenon, OwnInvInit DEF Init, TransfersOnMappedMemory, AddrTypes
    <2>3. 1 \in Id /\ 0 \in 0..MaxFaults
        BY ShmAssumption DEF Id
    <2>4. DummyTypes /\ faults \in 0..MaxFaults
        BY Zenon, <2>3 DEF Init, DummyTypes
    <2>5. DOMAIN <<>> = {} /\ <<>> \in Seq(Id) /\ Len(<<>>) <= QueueSize
        BY ShmAssumption
    <2>6. MonitorTypes /\ ContextsOK
        BY Zenon, <2>5 DEF Init, MonitorTypes, ContextsOK
    <2> QED
        BY Zenon, <2>1, <2>2, <2>4, <2>6 DEF TypeInv
<1>2. TypeInv /\ [Next]_vars => TypeInv'
    <2> SUFFICES ASSUME TypeInv, [Next]_vars PROVE TypeInv'
        BY Zenon
    <2>1. faults' \in 0..MaxFaults
        BY FaultStep, ShmAssumption DEF TypeInv, Fault
    <2> QED
        BY Zenon, <2>1, OwnInvStep, HoldInvStep, DummyStep, MonitorStep, AddrStep, ContextsStep
           DEF TypeInv
<1>3. TypeInv => TypeOK
    <2> SUFFICES ASSUME TypeInv PROVE TypeOK
        BY Zenon
    <2>1. io.addr \in Addr \cup {NoAddr}
        <3>1. CASE io = NoIo
            BY <3>1 DEF NoIo
        <3>2. CASE io # NoIo
            BY Zenon, <3>2 DEF TypeInv, TransfersOnMappedMemory, AddrTypes
        <3> QED
            BY Zenon, <3>1, <3>2
    <2>2. batch.pc \in {"none", "get", "end"}
        <3>1. CASE batch = NoBatch
            BY <3>1 DEF NoBatch
        <3>2. CASE batch # NoBatch
            BY Zenon, <3>2 DEF TypeInv, HoldInv, BatchTypes
        <3> QED
            BY Zenon, <3>1, <3>2
    <2>3. DOMAIN shm_contexts \subseteq Id /\ \A c \in DOMAIN shm_contexts : shm_contexts[c] \in Context
        BY Zenon, ContextIsTyped DEF TypeInv, ContextsOK
    <2> QED
        BY Zenon, <2>1, <2>2, <2>3
           DEF TypeInv, TypeOK, DummyTypes, MonitorTypes, AddrTypes, HoldInv
<1> QED
    BY <1>1, <1>2, <1>3, PTL DEF Spec
=============================================================================
