-------------------------- MODULE MembershipProofs --------------------------
(***************************************************************************)
(* Segments and leader views of a client, for any number of segments,      *)
(* calls, leaders and faults, and the types of all variables.              *)
(***************************************************************************)
EXTENDS Membership, SequenceTheorems, TLAPS

CallType == [api : {"file", "heap", "none"}, left : Seq(Segment),
             done : SUBSET Segment, rolling : BOOLEAN]

\* Types of the variables the arguments are about.
SegmentTypes ==
    /\ master \in [Segment -> {"none", "ok", "graceful"}]
    /\ timer \in [Segment -> NONE..CONFIRMED]
    /\ records \in [{"file", "heap"} -> SUBSET Segment]
    /\ call \in CallType
    /\ remount \in {"none", "started", "locked", "ready"}
    /\ phase \in {"run", "join", "unmount", "done"}
    /\ mounted \subseteq Segment /\ graceful \subseteq Segment
    /\ te \subseteq Segment /\ memory \subseteq Segment
    /\ snapshot \subseteq Segment /\ todo \subseteq Segment
    /\ unmounted \subseteq Segment /\ leftover \subseteq Segment

\* The chunks that a call has still to mount have never been used, and those it
\* has mounted are known to nobody else.
CallOwnsChunks ==
    /\ ~call.rolling =>
        \A i \in DOMAIN call.left :
            /\ call.left[i] \notin mounted \union graceful \union memory
                                     \union unmounted \union leftover
            /\ \A j \in DOMAIN call.left : call.left[i] = call.left[j] => i = j
    /\ call.done \subseteq mounted \cap memory
    /\ \A a \in {"file", "heap"} : call.done \cap records[a] = {}
    /\ phase # "run" => call = Idle

\* Tables, timers and memory agree.
TablesAgree ==
    /\ mounted \cap graceful = {} /\ mounted \cap unmounted = {}
    /\ mounted \union graceful \subseteq memory \union leftover
    /\ \A a \in {"file", "heap"} : records[a] \subseteq memory
    /\ records["file"] \cap records["heap"] = {}
    /\ \A s \in Segment : timer[s] # NONE => s \in graceful /\ s \in memory

\* The remount thread's copy is current as long as it may be used, and the
\* destructor runs without threads.
RemountIsCurrent ==
    /\ snapshot \subseteq mounted
    /\ remount # "locked" => snapshot = {}
    /\ phase \in {"unmount", "done"} =>
        /\ remount \in {"none", "ready"}
        /\ \A s \in Segment : timer[s] = NONE
    /\ phase = "unmount" => mounted \subseteq todo \union leftover

\* What the leader and the engine hold is accounted for.
LeaderAgrees ==
    /\ te \subseteq mounted \union graceful \union leftover
    /\ \A s \in Segment :
        /\ master[s] = "ok" => s \in mounted \union leftover
        /\ master[s] = "graceful" /\ phase # "done" => s \in graceful \union leftover
        /\ timer[s] = CONFIRMED => master[s] = "none"
    /\ UnmountedStaysUnmounted

SegmentInv ==
    SegmentTypes /\ CallOwnsChunks /\ TablesAgree /\ RemountIsCurrent /\ LeaderAgrees

-----------------------------------------------------------------------------

\* The initial state.
LEMMA SegmentInvInit == Init => SegmentInv
<1> SUFFICES ASSUME Init PROVE SegmentInv
    BY Zenon
<1>1. SegmentTypes
    BY RequestAssumption, RetryAssumption
       DEF Init, CallType, SegmentTypes, Idle, Unmounted, NONE, CONFIRMED
<1>2. CallOwnsChunks
    BY RequestAssumption DEF Init, CallOwnsChunks, Idle
<1>3. TablesAgree
    BY Zenon, RequestAssumption DEF Init, TablesAgree
<1>4. RemountIsCurrent
    BY Zenon DEF Init, RemountIsCurrent
<1>5. LeaderAgrees
    BY Zenon, RetryAssumption
       DEF Init, LeaderAgrees, Unmounted, UnmountedStaysUnmounted, NONE, CONFIRMED
<1> QED
    BY Zenon, <1>1, <1>2, <1>3, <1>4, <1>5 DEF SegmentInv

\* What the client itself holds, without the leader's table and the thread.
own == <<mounted, graceful, timer, te, memory, records, call, phase, todo,
         unmounted, leftover>>

\* Steps on the leader's side only make it forget segments.
LEMMA LeaderForgets ==
    ASSUME SegmentInv, UNCHANGED <<own, mounting>>,
           master' \in [Segment -> {"none", "ok", "graceful"}],
           \A s \in Segment : master'[s] \in {master[s], "none"}
    PROVE  SegmentInv'
<1>1. SegmentTypes' /\ CallOwnsChunks' /\ TablesAgree' /\ RemountIsCurrent'
    BY Zenon DEF SegmentInv, SegmentTypes, CallOwnsChunks, TablesAgree, RemountIsCurrent,
           own, mounting
<1>2. LeaderAgrees'
    BY Zenon DEF SegmentInv, LeaderAgrees, UnmountedStaysUnmounted, SegmentTypes, own
<1> QED
    BY Zenon, <1>1, <1>2 DEF SegmentInv

\* Steps of the heartbeat only start a remount or join its thread.
LEMMA HeartbeatKeeps ==
    ASSUME SegmentInv, UNCHANGED <<own, master, snapshot>>, phase = "run",
           remount' = Joined \/ (remount' = "started" /\ Joined = "none")
    PROVE  SegmentInv'
<1>1. SegmentTypes'
    BY Zenon DEF SegmentInv, SegmentTypes, Joined, own
<1>2. CallOwnsChunks' /\ TablesAgree' /\ LeaderAgrees'
    BY Zenon DEF SegmentInv, CallOwnsChunks, TablesAgree, LeaderAgrees,
           UnmountedStaysUnmounted, own
<1>3. RemountIsCurrent'
    BY Zenon DEF SegmentInv, SegmentTypes, RemountIsCurrent, Joined, own
<1> QED
    BY Zenon, <1>1, <1>2, <1>3 DEF SegmentInv

\* The remount thread copies the table under the mutex and sends that copy.
LEMMA RemountKeeps ==
    ASSUME SegmentInv, RemountBegin \/ RemountEnd
    PROVE  SegmentInv'
<1> USE DEF SegmentInv
<1>1. CASE RemountBegin
    <2>1. UNCHANGED <<own, master>> /\ remount = "started" /\ remount' = "locked"
          /\ snapshot' = mounted
        BY Zenon, <1>1 DEF RemountBegin, own, known, segments, control, history
    <2>2. SegmentTypes'
        BY Zenon, <2>1 DEF SegmentTypes, own
    <2>3. CallOwnsChunks' /\ TablesAgree' /\ LeaderAgrees'
        BY Zenon, <2>1 DEF CallOwnsChunks, TablesAgree, LeaderAgrees,
                    UnmountedStaysUnmounted, own
    <2>4. RemountIsCurrent'
        BY Zenon, <2>1 DEF RemountIsCurrent, own
    <2> QED
        BY Zenon, <2>2, <2>3, <2>4
<1>2. CASE RemountEnd
    <2>1. UNCHANGED own /\ remount = "locked" /\ remount' = "ready" /\ snapshot' = {}
        BY Zenon, <1>2 DEF RemountEnd, own, segments, control, history
    <2>2. \/ master' = master
          \/ master' = [s \in Segment |-> IF s \in snapshot THEN "ok" ELSE master[s]]
        BY Zenon, <1>2 DEF RemountEnd
    <2>3. /\ master' \in [Segment -> {"none", "ok", "graceful"}]
          /\ \A s \in Segment : \/ master'[s] = master[s]
                                \/ s \in snapshot /\ master'[s] = "ok"
        BY Zenon, <2>2 DEF SegmentTypes
    <2>4. SegmentTypes'
        BY Zenon, <2>1, <2>3 DEF SegmentTypes, own
    <2>5. CallOwnsChunks' /\ TablesAgree'
        BY Zenon, <2>1 DEF CallOwnsChunks, TablesAgree, own
    <2>6. RemountIsCurrent'
        BY Zenon, <2>1 DEF RemountIsCurrent, own
    <2>7. \A s \in snapshot : s \in mounted /\ s \notin unmounted /\ timer[s] = NONE
        BY Zenon DEF RemountIsCurrent, TablesAgree, SegmentTypes
    <2>8. LeaderAgrees'
        BY <2>1, <2>3, <2>7, RetryAssumption
           DEF LeaderAgrees, UnmountedStaysUnmounted, SegmentTypes, own, NONE, CONFIRMED
    <2> QED
        BY Zenon, <2>4, <2>5, <2>6, <2>8
<1> QED
    BY Zenon, <1>1, <1>2

\* A call begins with chunks that nobody has used.
LEMMA MountBeginKeeps ==
    ASSUME SegmentInv, NEW api \in {"file", "heap"}, MountBegin(api)
    PROVE  SegmentInv'
<1> USE DEF SegmentInv
<1> DEFINE rest == <<mounted, graceful, timer, te, memory, records, phase, todo,
                     unmounted, leftover>>
<1>1. UNCHANGED <<rest, mounting, master>> /\ phase = "run"
    BY Zenon DEF MountBegin, known, segments, history
<1>2. PICK cs \in Requests[api] :
        /\ Range(cs) \cap (memory \union unmounted \union leftover \union gave_up) = {}
        /\ call' = [api |-> api, left |-> cs, done |-> {}, rolling |-> FALSE]
    BY Zenon DEF MountBegin
<1>3. cs \in Seq(Segment) /\ \A i, j \in DOMAIN cs : cs[i] = cs[j] => i = j
    BY Zenon, RequestAssumption
<1>4. SegmentTypes'
    BY Zenon, <1>1, <1>2, <1>3 DEF CallType, SegmentTypes, mounting
<1>5. TablesAgree' /\ RemountIsCurrent' /\ LeaderAgrees'
    BY Zenon, <1>1 DEF TablesAgree, RemountIsCurrent, LeaderAgrees,
                UnmountedStaysUnmounted, mounting
<1>6. \A i \in DOMAIN cs : cs[i] \notin memory \union unmounted \union leftover
    BY Zenon, <1>2 DEF Range
<1>7. \A i \in DOMAIN cs : cs[i] \notin mounted \union graceful
    BY Zenon, <1>6 DEF TablesAgree
<1>8. CallOwnsChunks'
    BY Zenon, <1>1, <1>2, <1>3, <1>6, <1>7 DEF CallOwnsChunks
<1> QED
    BY Zenon, <1>4, <1>5, <1>8

\* The outcomes of MountNext.
LEMMA MountNextOutcome ==
    ASSUME SegmentInv, MountNext
    PROVE  \E s \in Segment :
            /\ s = call.left[1] /\ call.left # <<>> /\ ~call.rolling
            /\ UNCHANGED <<mounting, graceful, timer, records, phase, todo, unmounted>>
            /\ remount # "locked"
            /\ te' \in {te, te \union {s}}
            /\ master' \in {master, [master EXCEPT ![s] = "ok"]}
            /\ \/ /\ mounted' = mounted \union {s} /\ memory' = memory \union {s}
                  /\ call' = [call EXCEPT !.left = Tail(@), !.done = @ \union {s}]
                  /\ leftover' = leftover
               \/ /\ leftover' = leftover \union {s} /\ UNCHANGED <<mounted, memory>>
                  /\ call' = [call EXCEPT !.rolling = TRUE]
<1>1. call.left # <<>> /\ call.left \in Seq(Segment)
    BY Zenon DEF MountNext, SegmentInv, CallType, SegmentTypes
<1>2. Head(call.left) \in Segment /\ Head(call.left) = call.left[1]
    BY <1>1, HeadTailProperties
<1> Head(call.left) \in Segment
    BY Zenon, <1>2
<1> WITNESS Head(call.left) \in Segment
<1> QED
    BY Zenon, <1>1, <1>2 DEF MountNext, MountSegmentOk, MountSegmentFails, MutexFree

\* A call mounts its next chunk, or fails on it.
LEMMA MountNextKeeps ==
    ASSUME SegmentInv, MountNext
    PROVE  SegmentInv'
<1> USE DEF SegmentInv
<1>1. PICK s \in Segment :
        /\ s = call.left[1] /\ call.left # <<>> /\ ~call.rolling
        /\ UNCHANGED <<mounting, graceful, timer, records, phase, todo, unmounted>>
        /\ remount # "locked"
        /\ te' \in {te, te \union {s}}
        /\ master' \in {master, [master EXCEPT ![s] = "ok"]}
        /\ \/ /\ mounted' = mounted \union {s} /\ memory' = memory \union {s}
              /\ call' = [call EXCEPT !.left = Tail(@), !.done = @ \union {s}]
              /\ leftover' = leftover
           \/ /\ leftover' = leftover \union {s} /\ UNCHANGED <<mounted, memory>>
              /\ call' = [call EXCEPT !.rolling = TRUE]
    BY Zenon, MountNextOutcome
<1>2. call.left \in Seq(Segment) /\ 1 \in DOMAIN call.left
    BY <1>1 DEF CallType, SegmentTypes
<1>3. s \notin mounted \union graceful \union memory \union unmounted \union leftover
    BY Zenon, <1>1, <1>2 DEF CallOwnsChunks
<1>4. /\ Tail(call.left) \in Seq(Segment)
      /\ Len(Tail(call.left)) = Len(call.left) - 1
      /\ \A i \in 1..(Len(call.left) - 1) : Tail(call.left)[i] = call.left[i + 1]
    BY <1>1, <1>2, HeadTailProperties
<1>5. \A i \in DOMAIN Tail(call.left) :
        i + 1 \in DOMAIN call.left /\ i + 1 # 1 /\ Tail(call.left)[i] = call.left[i + 1]
    BY <1>2, <1>4, LenProperties
<1>6. /\ master' \in [Segment -> {"none", "ok", "graceful"}]
      /\ \A t \in Segment : t # s => master'[t] = master[t]
      /\ master'[s] \in {master[s], "ok"}
    <2>1. master \in [Segment -> {"none", "ok", "graceful"}]
        BY Zenon DEF SegmentTypes
    <2>2. master' = master \/ master' = [master EXCEPT ![s] = "ok"]
        BY Zenon, <1>1
    <2> HIDE DEF SegmentInv
    <2> QED
        BY Zenon, <2>1, <2>2
<1>7. s \in mounted' \union leftover' /\ mounted \subseteq mounted'
      /\ leftover \subseteq leftover' /\ memory \subseteq memory'
      /\ mounted' \subseteq mounted \union {s} /\ memory' \subseteq memory \union {s}
    BY Zenon, <1>1
<1>8. SegmentTypes'
    <2>1. call' \in CallType
        <3>1. call \in CallType
            BY Zenon DEF SegmentTypes
        <3>2. \/ call' = [call EXCEPT !.left = Tail(@), !.done = @ \union {s}]
              \/ call' = [call EXCEPT !.rolling = TRUE]
            BY Zenon, <1>1
        <3>3. Tail(call.left) \in Seq(Segment) /\ s \in Segment
            BY Zenon, <1>4
        <3> HIDE DEF SegmentInv
        <3>4. [call EXCEPT !.left = Tail(call.left), !.done = call.done \union {s}]
                \in CallType
            BY Zenon, <3>1, <3>3 DEF CallType
        <3>5. [call EXCEPT !.rolling = TRUE] \in CallType
            BY Zenon, <3>1 DEF CallType
        <3> QED
            BY Zenon, <3>2, <3>4, <3>5
    <2>2. mounted' \subseteq Segment /\ memory' \subseteq Segment
          /\ te' \subseteq Segment /\ leftover' \subseteq Segment
        BY Zenon, <1>1 DEF CallType, SegmentTypes
    <2> QED
        BY Zenon, <2>1, <2>2, <1>1, <1>6 DEF SegmentTypes, mounting
<1>9. TablesAgree'
    <2>1. mounted' \union graceful' \subseteq memory' \union leftover'
        BY Zenon, <1>1 DEF TablesAgree
    <2> QED
        BY <2>1, <1>1, <1>3, <1>7 DEF TablesAgree
<1>10. RemountIsCurrent'
    <2>1. phase = "run"
        BY <1>1 DEF CallOwnsChunks, Idle, CallType, SegmentTypes
    <2> QED
        BY Zenon, <2>1, <1>1, <1>7 DEF RemountIsCurrent, mounting
<1>11. timer[s] = NONE /\ NONE # CONFIRMED
    BY <1>3, RetryAssumption DEF TablesAgree, NONE, CONFIRMED
<1>12. LeaderAgrees'
    BY Zenon, <1>1, <1>3, <1>6, <1>7, <1>11
       DEF LeaderAgrees, UnmountedStaysUnmounted, SegmentTypes
<1>13. CallOwnsChunks'
    <2>1. phase' = "run"
        BY <1>1 DEF CallOwnsChunks, Idle, CallType, SegmentTypes
    <2>2. \A a \in {"file", "heap"} : s \notin records[a]
        BY Zenon, <1>3 DEF TablesAgree
    <2>3. CASE call'.rolling
        <3>1. call'.done = call.done
            BY Zenon, <2>3, <1>1 DEF CallType, SegmentTypes
        <3> QED
            BY Zenon, <2>1, <2>3, <3>1, <1>1, <1>7 DEF CallOwnsChunks
    <2>4. CASE ~call'.rolling
        <3>1. /\ mounted' = mounted \union {s} /\ memory' = memory \union {s}
              /\ leftover' = leftover
              /\ call'.left = Tail(call.left) /\ call'.done = call.done \union {s}
            BY Zenon, <2>4, <1>1 DEF CallType, SegmentTypes
        <3>2. \A i \in DOMAIN Tail(call.left) : Tail(call.left)[i] # s
            BY Zenon, <1>1, <1>2, <1>5 DEF CallOwnsChunks
        <3>3. \A i \in DOMAIN Tail(call.left) :
                /\ Tail(call.left)[i] \notin mounted \union graceful \union memory
                                             \union unmounted \union leftover
                /\ \A j \in DOMAIN Tail(call.left) :
                    Tail(call.left)[i] = Tail(call.left)[j] => i = j
            <4> SUFFICES ASSUME NEW i \in DOMAIN Tail(call.left)
                         PROVE  /\ Tail(call.left)[i] \notin mounted \union graceful
                                        \union memory \union unmounted \union leftover
                                /\ \A j \in DOMAIN Tail(call.left) :
                                    Tail(call.left)[i] = Tail(call.left)[j] => i = j
                BY Zenon
            <4>1. \A j \in DOMAIN Tail(call.left) : j \in Int
                BY <1>4, LenProperties
            <4> QED
                BY <1>1, <1>5, <4>1 DEF CallOwnsChunks
        <3>4. \A a \in {"file", "heap"} : call'.done \cap records'[a] = {}
            BY <3>1, <2>2, <1>1 DEF CallOwnsChunks
        <3> QED
            BY Zenon, <2>1, <3>1, <3>2, <3>3, <3>4, <1>1 DEF CallOwnsChunks
    <2> QED
        BY Zenon, <2>3, <2>4
<1> QED
    BY Zenon, <1>8, <1>9, <1>10, <1>12, <1>13

\* A call returns: its chunks are recorded, or all of them have been given back.
LEMMA MountReturnKeeps ==
    ASSUME SegmentInv, MountReturn \/ MountFails
    PROVE  SegmentInv'
<1> USE DEF SegmentInv
<1>1. /\ UNCHANGED <<mounting, master, mounted, graceful, timer, te, memory, phase,
                     todo, unmounted, leftover>>
      /\ call' = Idle
    BY Zenon DEF MountReturn, MountFails, known, segments, history
<1>2. records' \in {records, [records EXCEPT ![call.api] = @ \union call.done]}
    BY Zenon DEF MountReturn, MountFails, segments
<1>3. call.done \subseteq memory
    <2>1. CASE MountFails
        BY Zenon, <2>1 DEF MountFails
    <2>2. CASE MountReturn
        BY Zenon, <2>2 DEF CallOwnsChunks, TablesAgree
    <2> QED
        BY Zenon, <2>1, <2>2
<1>4. SegmentTypes'
    <2>1. Idle \in CallType
        BY DEF Idle, CallType
    <2>2. records' \in [{"file", "heap"} -> SUBSET Segment]
        BY <1>2 DEF CallType, SegmentTypes
    <2> QED
        BY Zenon, <2>1, <2>2, <1>1 DEF SegmentTypes, mounting
<1>5. CallOwnsChunks' /\ RemountIsCurrent' /\ LeaderAgrees'
    <2>1. DOMAIN Idle.left = {} /\ Idle.done = {}
        BY DEF Idle
    <2>2. CallOwnsChunks'
        <3> HIDE DEF SegmentInv
        <3> QED
            BY Zenon, <1>1, <2>1 DEF CallOwnsChunks
    <2>3. RemountIsCurrent' /\ LeaderAgrees'
        BY Zenon, <1>1 DEF RemountIsCurrent, LeaderAgrees, UnmountedStaysUnmounted, mounting
    <2> QED
        BY Zenon, <2>2, <2>3
<1>6. TablesAgree'
    BY <1>1, <1>2, <1>3 DEF TablesAgree, CallOwnsChunks, CallType, SegmentTypes
<1> QED
    BY Zenon, <1>4, <1>5, <1>6

\* What UnmountSegmentImpl does to the leader's table.
LEMMA UnmountOutcome ==
    ASSUME SegmentInv, NEW s \in Segment, NEW o \in UnmountOutcomes,
           UnmountSegmentImpl(s, o)
    PROVE  /\ master' \in [Segment -> {"none", "ok", "graceful"}]
           /\ \A t \in Segment : t # s => master'[t] = master[t]
           /\ master'[s] \in {master[s], "none"}
           /\ o = "ok" => master'[s] = "none"
<1>1. master \in [Segment -> {"none", "ok", "graceful"}]
    BY Zenon DEF SegmentInv, SegmentTypes
<1>2. master' = IF o = "fail" THEN master ELSE [master EXCEPT ![s] = "none"]
    BY Zenon DEF UnmountSegmentImpl
<1> QED
    BY Zenon, <1>1, <1>2

\* A failed call gives back a chunk.
LEMMA RollBackKeeps ==
    ASSUME SegmentInv, RollBack
    PROVE  SegmentInv'
<1> USE DEF SegmentInv
<1>1. PICK s : s = (CHOOSE d \in call.done : TRUE)
    BY Zenon
<1>2. s \in call.done /\ call.rolling
    BY Zenon, <1>1 DEF RollBack
<1>3. s \in Segment /\ s \in mounted /\ s \notin graceful /\ s \notin unmounted
      /\ \A a \in {"file", "heap"} : s \notin records[a]
    BY Zenon, <1>2 DEF CallType, SegmentTypes, CallOwnsChunks, TablesAgree
<1>4. PICK o \in UnmountOutcomes :
        /\ UnmountSegmentImpl(s, o)
        /\ memory' = memory \ {s}
        /\ leftover' = IF o = "ok" THEN leftover ELSE leftover \union {s}
        /\ unmounted' = IF o = "ok" THEN unmounted \union {s} ELSE unmounted
        /\ call' = [call EXCEPT !.done = @ \ {s}]
    BY Zenon, <1>1 DEF RollBack
<1>5. /\ UNCHANGED <<mounting, graceful, timer, records, phase, todo>>
      /\ remount # "locked"
    BY Zenon DEF RollBack, MutexFree
<1>6. /\ master' \in [Segment -> {"none", "ok", "graceful"}]
      /\ \A t \in Segment : t # s => master'[t] = master[t]
      /\ master'[s] \in {master[s], "none"}
      /\ o = "ok" => master'[s] = "none"
    BY Zenon, <1>3, <1>4, UnmountOutcome
<1>7. /\ te' = IF o = "ok" THEN te \ {s} ELSE te
      /\ mounted' = IF o = "ok" THEN mounted \ {s} ELSE mounted
    BY Zenon, <1>4 DEF UnmountSegmentImpl
<1>8. /\ call' \in CallType /\ call'.rolling
      /\ call'.done = call.done \ {s}
    BY Zenon, <1>2, <1>4 DEF CallType, SegmentTypes
<1>9. SegmentTypes'
    <2>1. mounted' \subseteq Segment /\ memory' \subseteq Segment
          /\ te' \subseteq Segment /\ leftover' \subseteq Segment
          /\ unmounted' \subseteq Segment
        BY Zenon, <1>3, <1>4, <1>7 DEF SegmentTypes
    <2> QED
        BY Zenon, <2>1, <1>5, <1>6, <1>8 DEF SegmentTypes, mounting
<1>10. CallOwnsChunks'
    <2>1. phase = "run"
        BY <1>2 DEF CallOwnsChunks, Idle
    <2> QED
        BY Zenon, <2>1, <1>2, <1>4, <1>5, <1>7, <1>8 DEF CallOwnsChunks
<1>11. TablesAgree'
    BY Zenon, <1>3, <1>4, <1>5, <1>7 DEF TablesAgree
<1>12. RemountIsCurrent'
    <2>1. phase = "run"
        BY <1>2 DEF CallOwnsChunks, Idle
    <2> QED
        BY Zenon, <2>1, <1>5, <1>7 DEF RemountIsCurrent, mounting
<1>13. LeaderAgrees'
    BY Zenon, <1>3, <1>4, <1>5, <1>6, <1>7
       DEF LeaderAgrees, UnmountedStaysUnmounted, SegmentTypes
<1> QED
    BY Zenon, <1>9, <1>10, <1>11, <1>12, <1>13

\* The application unmounts a segment without a grace period.
LEMMA UnmountNowKeeps ==
    ASSUME SegmentInv, NEW api \in {"file", "heap"}, NEW s \in Segment,
           UnmountNow(api, s)
    PROVE  SegmentInv'
<1> USE DEF SegmentInv
<1>1. /\ s \in records[api] /\ s \in mounted /\ phase = "run" /\ remount # "locked"
      /\ UNCHANGED <<mounting, graceful, timer, call, phase, todo>>
    BY Zenon DEF UnmountNow, MutexFree, control
<1>2. s \notin graceful /\ s \notin unmounted /\ s \notin call.done
      /\ \A a \in {"file", "heap"} : a # api => s \notin records[a]
    BY Zenon, <1>1 DEF TablesAgree, CallOwnsChunks
<1>3. ~call.rolling => \A i \in DOMAIN call.left : call.left[i] # s
    BY Zenon, <1>1 DEF CallOwnsChunks
<1>4. PICK o \in UnmountOutcomes :
        /\ UnmountSegmentImpl(s, o)
        /\ memory' = IF o = "ok" THEN memory \ {s} ELSE memory
        /\ records' = IF o = "ok" THEN [records EXCEPT ![api] = @ \ {s}] ELSE records
        /\ unmounted' = IF o = "ok" THEN unmounted \union {s} ELSE unmounted
        /\ leftover' = IF o \in {"lost", "te"} THEN leftover \union {s} ELSE leftover
    BY Zenon DEF UnmountNow
<1>5. /\ master' \in [Segment -> {"none", "ok", "graceful"}]
      /\ \A t \in Segment : t # s => master'[t] = master[t]
      /\ master'[s] \in {master[s], "none"}
      /\ o = "ok" => master'[s] = "none"
    BY Zenon, <1>4, UnmountOutcome
<1>6. /\ te' = IF o = "ok" THEN te \ {s} ELSE te
      /\ mounted' = IF o = "ok" THEN mounted \ {s} ELSE mounted
    BY Zenon, <1>4 DEF UnmountSegmentImpl
<1>7. /\ records' \in [{"file", "heap"} -> SUBSET Segment]
      /\ \A a \in {"file", "heap"} :
            records'[a] = IF o = "ok" THEN records[a] \ {s} ELSE records[a]
    <2>1. records \in [{"file", "heap"} -> SUBSET Segment]
        BY Zenon DEF SegmentTypes
    <2> QED
        BY Zenon, <2>1, <1>2, <1>4
<1>8. SegmentTypes'
    <2>1. mounted' \subseteq Segment /\ memory' \subseteq Segment
          /\ te' \subseteq Segment /\ leftover' \subseteq Segment
          /\ unmounted' \subseteq Segment
        BY Zenon, <1>4, <1>6 DEF SegmentTypes
    <2> QED
        BY Zenon, <2>1, <1>1, <1>5, <1>7 DEF SegmentTypes, mounting
<1>9. CallOwnsChunks'
    BY Zenon, <1>1, <1>2, <1>3, <1>4, <1>6, <1>7 DEF CallOwnsChunks
<1>10. TablesAgree'
    BY Zenon, <1>1, <1>2, <1>4, <1>6, <1>7 DEF TablesAgree
<1>11. RemountIsCurrent'
    BY Zenon, <1>1, <1>6 DEF RemountIsCurrent, mounting
<1>12. LeaderAgrees'
    BY Zenon, <1>1, <1>2, <1>4, <1>5, <1>6
       DEF LeaderAgrees, UnmountedStaysUnmounted, SegmentTypes
<1> QED
    BY Zenon, <1>8, <1>9, <1>10, <1>11, <1>12

\* The application unmounts a segment with a grace period.
LEMMA UnmountGracefulPreserves ==
    ASSUME SegmentInv, NEW api \in {"file", "heap"}, NEW s \in Segment,
           UnmountGraceful(api, s)
    PROVE  SegmentInv'
<1> USE DEF SegmentInv
<1>1. /\ s \in records[api] /\ s \in mounted /\ phase = "run" /\ remount # "locked"
      /\ UNCHANGED <<mounting, te, memory, records, call, phase, todo, unmounted>>
    BY Zenon DEF UnmountGraceful, MutexFree, control
<1>2. s \notin graceful /\ s \notin unmounted /\ s \notin call.done /\ s \in memory
      /\ timer[s] = NONE
    BY Zenon, <1>1 DEF TablesAgree, CallOwnsChunks
<1>3. ~call.rolling => \A i \in DOMAIN call.left : call.left[i] # s
    BY Zenon, <1>1 DEF CallOwnsChunks
<1>4. PICK o \in Outcomes :
        /\ o = "ok" => master[s] # "none"
        /\ master' = IF o = "fail" \/ master[s] = "none" THEN master
                     ELSE [master EXCEPT ![s] = "graceful"]
        /\ mounted' = IF o = "ok" THEN mounted \ {s} ELSE mounted
        /\ graceful' = IF o = "ok" THEN graceful \union {s} ELSE graceful
        /\ timer' = IF o = "ok" THEN [timer EXCEPT ![s] = RetryLeft] ELSE timer
        /\ leftover' = IF o = "lost" THEN leftover \union {s} ELSE leftover
        /\ o \in {"ok", "fail", "lost"}
    BY Zenon DEF UnmountGraceful, StartGracefulUnmountTimer, Outcomes
<1>5. /\ master' \in [Segment -> {"none", "ok", "graceful"}]
      /\ \A t \in Segment : t # s => master'[t] = master[t]
      /\ master'[s] \in {master[s], "graceful"}
      /\ o = "ok" => master'[s] = "graceful"
      /\ o = "fail" => master'[s] = master[s]
    <2>1. master \in [Segment -> {"none", "ok", "graceful"}]
        BY Zenon DEF SegmentTypes
    <2> HIDE DEF SegmentInv
    <2> QED
        BY Zenon, <2>1, <1>4
<1>6. /\ timer' \in [Segment -> NONE..CONFIRMED]
      /\ \A t \in Segment : t # s => timer'[t] = timer[t]
      /\ timer'[s] = IF o = "ok" THEN RetryLeft ELSE NONE
    <2>1. timer \in [Segment -> NONE..CONFIRMED]
        BY Zenon DEF SegmentTypes
    <2>2. RetryLeft \in NONE..CONFIRMED
        BY RetryAssumption DEF NONE, CONFIRMED
    <2>3. timer' = IF o = "ok" THEN [timer EXCEPT ![s] = RetryLeft] ELSE timer
        BY Zenon, <1>4
    <2> HIDE DEF SegmentInv
    <2> QED
        BY Zenon, <2>1, <2>2, <2>3, <1>2
<1>7. NONE # CONFIRMED /\ RetryLeft # CONFIRMED
    BY RetryAssumption DEF NONE, CONFIRMED
<1>8. SegmentTypes'
    <2>1. mounted' \subseteq Segment /\ graceful' \subseteq Segment
          /\ leftover' \subseteq Segment
        BY Zenon, <1>4 DEF SegmentTypes
    <2> QED
        BY Zenon, <2>1, <1>1, <1>5, <1>6 DEF SegmentTypes, mounting
<1>9. CallOwnsChunks'
    BY Zenon, <1>1, <1>2, <1>3, <1>4 DEF CallOwnsChunks
<1>10. TablesAgree'
    BY Zenon, <1>1, <1>2, <1>4, <1>6 DEF TablesAgree
<1>11. RemountIsCurrent'
    BY Zenon, <1>1, <1>4 DEF RemountIsCurrent, mounting
<1>12. LeaderAgrees'
    <2>1. te' \subseteq mounted' \union graceful' \union leftover'
        BY Zenon, <1>1, <1>4 DEF LeaderAgrees
    <2>2. \A t \in Segment : timer'[t] = CONFIRMED => master'[t] = "none"
        BY Zenon, <1>5, <1>6, <1>7 DEF LeaderAgrees
    <2>3. \A t \in Segment :
            /\ master'[t] = "ok" => t \in mounted' \union leftover'
            /\ master'[t] = "graceful" /\ phase' # "done" => t \in graceful' \union leftover'
        BY Zenon, <1>1, <1>2, <1>4, <1>5 DEF LeaderAgrees
    <2>4. UnmountedStaysUnmounted'
        BY Zenon, <1>1, <1>2, <1>5 DEF LeaderAgrees, UnmountedStaysUnmounted, SegmentTypes
    <2> QED
        BY Zenon, <2>1, <2>2, <2>3, <2>4 DEF LeaderAgrees
<1> QED
    BY Zenon, <1>8, <1>9, <1>10, <1>11, <1>12

\* A timer asks the master.
LEMMA TimerQueryKeeps ==
    ASSUME SegmentInv, NEW s \in Segment, TimerQuery(s)
    PROVE  SegmentInv'
<1> USE DEF SegmentInv
<1>1. /\ phase = "run" /\ timer[s] \in 0..RetryLeft
      /\ UNCHANGED <<mounting, master, mounted, graceful, te, memory, records, call,
                     phase, todo, unmounted, leftover>>
    BY Zenon DEF TimerQuery, known, control
<1>2. \/ master[s] = "none" /\ timer' = [timer EXCEPT ![s] = CONFIRMED]
      \/ timer' = [timer EXCEPT ![s] = timer[s] - 1]
    BY Zenon DEF TimerQuery
<1>3. /\ timer' \in [Segment -> NONE..CONFIRMED]
      /\ \A t \in Segment : t # s => timer'[t] = timer[t]
      /\ timer'[s] = CONFIRMED => master[s] = "none"
    BY <1>1, <1>2, RetryAssumption DEF SegmentTypes, NONE, CONFIRMED
<1>4. timer[s] # NONE
    BY <1>1, RetryAssumption DEF NONE
<1>5. SegmentTypes'
    BY Zenon, <1>1, <1>3 DEF SegmentTypes, mounting
<1>6. CallOwnsChunks' /\ RemountIsCurrent'
    BY Zenon, <1>1 DEF CallOwnsChunks, RemountIsCurrent, mounting
<1>7. TablesAgree'
    BY Zenon, <1>1, <1>3, <1>4 DEF TablesAgree
<1>8. LeaderAgrees'
    BY Zenon, <1>1, <1>3 DEF LeaderAgrees, UnmountedStaysUnmounted
<1> QED
    BY Zenon, <1>5, <1>6, <1>7, <1>8

\* A confirmed timer cleans up.
LEMMA TimerCleanupKeeps ==
    ASSUME SegmentInv, NEW s \in Segment, TimerCleanup(s)
    PROVE  SegmentInv'
<1> USE DEF SegmentInv
<1>1. /\ timer[s] = CONFIRMED /\ remount # "locked"
      /\ UNCHANGED <<mounting, master, mounted, call, phase, todo>>
      /\ graceful' = graceful \ {s} /\ memory' = memory \ {s}
      /\ unmounted' = unmounted \union {s}
    BY Zenon DEF TimerCleanup, MutexFree, known, control, ReleaseSegmentRecord
<1>2. \/ te' = te \ {s} /\ leftover' = leftover
      \/ te' = te /\ leftover' = leftover \union {s}
    BY Zenon DEF TimerCleanup
<1>3. timer[s] # NONE
    BY <1>1, RetryAssumption DEF NONE, CONFIRMED
<1>4. s \in graceful /\ s \in memory /\ s \notin mounted /\ master[s] = "none"
    BY Zenon, <1>1, <1>3 DEF TablesAgree, LeaderAgrees
<1>5. /\ timer' \in [Segment -> NONE..CONFIRMED]
      /\ \A t \in Segment : t # s => timer'[t] = timer[t]
      /\ timer'[s] = NONE
    BY RetryAssumption DEF TimerCleanup, SegmentTypes, NONE, CONFIRMED
<1>6. /\ records' \in [{"file", "heap"} -> SUBSET Segment]
      /\ \A a \in {"file", "heap"} : records'[a] = records[a] \ {s}
    BY Zenon DEF TimerCleanup, ReleaseSegmentRecord, SegmentTypes
<1>7. SegmentTypes'
    <2>1. graceful' \subseteq Segment /\ memory' \subseteq Segment
          /\ te' \subseteq Segment /\ leftover' \subseteq Segment
          /\ unmounted' \subseteq Segment
        BY Zenon, <1>1, <1>2 DEF SegmentTypes
    <2> QED
        BY Zenon, <2>1, <1>1, <1>5, <1>6 DEF SegmentTypes, mounting
<1>8. CallOwnsChunks'
    <2>1. ~call.rolling => \A i \in DOMAIN call.left : call.left[i] # s
        BY Zenon, <1>4 DEF CallOwnsChunks
    <2> QED
        BY Zenon, <2>1, <1>1, <1>2, <1>4, <1>6 DEF CallOwnsChunks
<1>9. TablesAgree'
    <2>1. mounted' \cap graceful' = {} /\ mounted' \cap unmounted' = {}
        BY Zenon, <1>1, <1>4 DEF TablesAgree
    <2>2. mounted' \union graceful' \subseteq memory' \union leftover'
        BY Zenon, <1>1, <1>2, <1>4 DEF TablesAgree
    <2>3. /\ \A a \in {"file", "heap"} : records'[a] \subseteq memory'
          /\ records'["file"] \cap records'["heap"] = {}
        BY Zenon, <1>1, <1>6 DEF TablesAgree
    <2>4. \A t \in Segment : timer'[t] # NONE => t \in graceful' /\ t \in memory'
        BY Zenon, <1>1, <1>5 DEF TablesAgree
    <2> QED
        BY Zenon, <2>1, <2>2, <2>3, <2>4 DEF TablesAgree
<1>10. RemountIsCurrent'
    <2>1. \A t \in Segment : timer[t] = NONE => timer'[t] = NONE
        BY Zenon, <1>5
    <2>2. leftover \subseteq leftover'
        BY Zenon, <1>2
    <2> QED
        BY Zenon, <2>1, <2>2, <1>1 DEF RemountIsCurrent, mounting
<1>11. LeaderAgrees'
    BY Zenon, <1>1, <1>2, <1>3, <1>4, <1>5, RetryAssumption
       DEF LeaderAgrees, UnmountedStaysUnmounted, SegmentTypes, NONE, CONFIRMED
<1> QED
    BY Zenon, <1>7, <1>8, <1>9, <1>10, <1>11

\* Tear-down before the destructor: no calls, then no threads and no timers.
LEMMA StopKeeps ==
    ASSUME SegmentInv, TearDownAll \/ StopThreads
    PROVE  SegmentInv'
<1> USE DEF SegmentInv
<1>1. CASE TearDownAll
    <2>1. /\ call = Idle /\ phase = "run" /\ phase' = "join"
          /\ UNCHANGED <<mounting, master, mounted, graceful, timer, te, memory,
                         records, call, todo, unmounted, leftover>>
        BY Zenon, <1>1 DEF TearDownAll, known, segments, history
    <2>2. SegmentTypes'
        BY Zenon, <2>1 DEF SegmentTypes, mounting
    <2>3. CallOwnsChunks' /\ TablesAgree' /\ RemountIsCurrent'
        BY Zenon, <2>1 DEF CallOwnsChunks, TablesAgree, RemountIsCurrent, mounting
    <2>4. LeaderAgrees'
        BY Zenon, <2>1 DEF LeaderAgrees, UnmountedStaysUnmounted
    <2> QED
        BY Zenon, <2>2, <2>3, <2>4
<1>2. CASE StopThreads
    <2>1. /\ phase = "join" /\ phase' = "unmount" /\ todo' = mounted
          /\ remount \in {"none", "ready"}
          /\ timer' = [s \in Segment |-> NONE]
          /\ UNCHANGED <<mounting, master, mounted, graceful, te, memory,
                         records, call, unmounted, leftover>>
        BY Zenon, <1>2 DEF StopThreads, known, history
    <2>2. NONE \in NONE..CONFIRMED /\ NONE # CONFIRMED
        BY RetryAssumption DEF NONE, CONFIRMED
    <2>3. SegmentTypes'
        BY Zenon, <2>1, <2>2 DEF SegmentTypes, mounting
    <2>4. CallOwnsChunks' /\ TablesAgree' /\ RemountIsCurrent'
        BY Zenon, <2>1 DEF CallOwnsChunks, TablesAgree, RemountIsCurrent, mounting
    <2>5. LeaderAgrees'
        BY Zenon, <2>1, <2>2 DEF LeaderAgrees, UnmountedStaysUnmounted
    <2> QED
        BY Zenon, <2>3, <2>4, <2>5
<1> QED
    BY Zenon, <1>1, <1>2

\* The destructor unmounts a segment, and forgets it whatever the outcome.
LEMMA DestructorUnmountsKeeps ==
    ASSUME SegmentInv, DestructorUnmounts
    PROVE  SegmentInv'
<1> USE DEF SegmentInv
<1>1. PICK s : s = (CHOOSE d \in todo : TRUE)
    BY Zenon
<1>2. PICK o \in UnmountOutcomes :
        /\ UnmountSegment(s, o)
        /\ leftover' = IF o = "ok" THEN leftover ELSE leftover \union {s}
        /\ todo' = todo \ {s}
    BY Zenon, <1>1 DEF DestructorUnmounts
<1>3. s \in mounted /\ s \in Segment /\ UnmountSegmentImpl(s, o)
    BY Zenon, <1>2 DEF UnmountSegment, SegmentTypes
<1>4. /\ phase = "unmount"
      /\ UNCHANGED <<mounting, graceful, timer, memory, records, call, phase,
                     unmounted>>
    BY Zenon DEF DestructorUnmounts
<1>5. /\ master' \in [Segment -> {"none", "ok", "graceful"}]
      /\ \A t \in Segment : t # s => master'[t] = master[t]
      /\ master'[s] \in {master[s], "none"}
      /\ o = "ok" => master'[s] = "none"
    BY Zenon, <1>3, UnmountOutcome
<1>6. /\ te' = IF o = "ok" THEN te \ {s} ELSE te
      /\ mounted' = IF o = "ok" THEN mounted \ {s} ELSE mounted
    BY Zenon, <1>3 DEF UnmountSegmentImpl
<1>7. call = Idle /\ snapshot = {} /\ s \notin graceful /\ s \notin unmounted
    BY Zenon, <1>3, <1>4 DEF CallOwnsChunks, RemountIsCurrent, TablesAgree
<1>8. SegmentTypes'
    <2>1. mounted' \subseteq Segment /\ te' \subseteq Segment
          /\ leftover' \subseteq Segment /\ todo' \subseteq Segment
        BY Zenon, <1>2, <1>3, <1>6 DEF SegmentTypes
    <2> QED
        BY Zenon, <2>1, <1>4, <1>5 DEF SegmentTypes, mounting
<1>9. CallOwnsChunks'
    <2>1. call' = Idle
        BY Zenon, <1>4, <1>7
    <2>2. DOMAIN Idle.left = {} /\ Idle.done = {}
        BY DEF Idle
    <2> HIDE DEF SegmentInv
    <2> QED
        BY Zenon, <2>1, <2>2 DEF CallOwnsChunks
<1>10. TablesAgree'
    BY Zenon, <1>2, <1>4, <1>6 DEF TablesAgree
<1>11. RemountIsCurrent'
    BY Zenon, <1>2, <1>4, <1>6, <1>7 DEF RemountIsCurrent, mounting
<1>12. LeaderAgrees'
    BY Zenon, <1>2, <1>3, <1>4, <1>5, <1>6, <1>7
       DEF LeaderAgrees, UnmountedStaysUnmounted, SegmentTypes
<1> QED
    BY Zenon, <1>8, <1>9, <1>10, <1>11, <1>12

\* The end of the destructor, which releases all records.
LEMMA DestructorEndsKeeps ==
    ASSUME SegmentInv, DestructorEnds
    PROVE  SegmentInv'
<1> USE DEF SegmentInv
<1>1. /\ phase = "unmount" /\ phase' = "done" /\ todo = {}
      /\ te' = te \ graceful /\ mounted' = {} /\ graceful' = {}
      /\ memory' \subseteq memory
      /\ UNCHANGED <<mounting, master, timer, call, todo, unmounted, leftover>>
    BY Zenon DEF DestructorEnds, ReleaseAllSegmentRecords, known, history
<1>2. /\ records' \in [{"file", "heap"} -> SUBSET Segment]
      /\ \A a \in {"file", "heap"} : records'[a] = {}
    BY Zenon DEF DestructorEnds, ReleaseAllSegmentRecords, SegmentTypes
<1>3. /\ call = Idle /\ snapshot = {} /\ mounted \subseteq leftover
      /\ \A s \in Segment : timer[s] = NONE
    BY Zenon, <1>1 DEF CallOwnsChunks, RemountIsCurrent
<1>4. SegmentTypes'
    BY Zenon, <1>1, <1>2 DEF SegmentTypes, mounting
<1>5. CallOwnsChunks'
    BY Zenon, <1>1, <1>2, <1>3 DEF CallOwnsChunks, Idle
<1>6. TablesAgree'
    BY Zenon, <1>1, <1>2, <1>3 DEF TablesAgree
<1>7. RemountIsCurrent'
    BY Zenon, <1>1, <1>3 DEF RemountIsCurrent, mounting
<1>8. LeaderAgrees'
    BY Zenon, <1>1, <1>3 DEF LeaderAgrees, UnmountedStaysUnmounted
<1> QED
    BY Zenon, <1>4, <1>5, <1>6, <1>7, <1>8

\* Steps that touch neither segments nor the remount thread.
LEMMA ConnectionSteps ==
    ASSUME LeaderDies \/ MonitorWait \/ MonitorSwitch \/ ReadCurrentView
             \/ ReconnectHa \/ Reconnect \/ UNCHANGED vars
    PROVE  UNCHANGED <<own, mounting, master>>
BY Zenon DEF LeaderDies, MonitorWait, MonitorSwitch, ReadCurrentView, ReconnectHa,
       Reconnect, vars, own, known, segments, control, history

\* Every step keeps the invariant.
LEMMA SegmentInvStep ==
    ASSUME SegmentInv, [Next]_vars
    PROVE  SegmentInv'
<1>1. CASE LeaderDies \/ MonitorWait \/ MonitorSwitch \/ ReadCurrentView
             \/ ReconnectHa \/ Reconnect \/ UNCHANGED vars
    <2>1. UNCHANGED <<own, mounting, master>>
        BY Zenon, <1>1, ConnectionSteps
    <2>2. master \in [Segment -> {"none", "ok", "graceful"}]
        BY Zenon DEF SegmentInv, SegmentTypes
    <2> QED
        BY Zenon, <2>1, <2>2, LeaderForgets
<1>2. CASE Elect \/ MasterExpires \/ \E s \in Segment : GraceEnds(s)
    <2>1. UNCHANGED <<own, mounting>>
        BY Zenon, <1>2 DEF Elect, MasterExpires, GraceEnds, own, segments, control, history
    <2>2. \/ master' = Unmounted
          \/ \E s \in Segment : master' = [master EXCEPT ![s] = "none"]
        BY Zenon, <1>2 DEF Elect, MasterExpires, GraceEnds
    <2>3. master \in [Segment -> {"none", "ok", "graceful"}]
        BY Zenon DEF SegmentInv, SegmentTypes
    <2>4. /\ master' \in [Segment -> {"none", "ok", "graceful"}]
          /\ \A s \in Segment : master'[s] \in {master[s], "none"}
        BY Zenon, <2>2, <2>3 DEF Unmounted
    <2> QED
        BY Zenon, <2>1, <2>4, LeaderForgets
<1>3. CASE PingOk \/ PingFails
    <2>1. UNCHANGED <<own, master, snapshot>> /\ phase = "run"
        BY Zenon, <1>3 DEF PingOk, PingFails, own, known, segments, control, history
    <2>2. remount' = Joined \/ (remount' = "started" /\ Joined = "none")
        BY Zenon, <1>3 DEF PingOk, PingFails
    <2> QED
        BY Zenon, <2>1, <2>2, HeartbeatKeeps
<1>4. CASE RemountBegin \/ RemountEnd
    BY Zenon, <1>4, RemountKeeps
<1>5. CASE mountSegment \/ allocateAndMountSegment
    BY Zenon, <1>5, MountBeginKeeps DEF mountSegment, allocateAndMountSegment
<1>6. CASE MountNext
    BY Zenon, <1>6, MountNextKeeps
<1>7. CASE MountReturn \/ MountFails
    BY Zenon, <1>7, MountReturnKeeps
<1>8. CASE RollBack
    BY Zenon, <1>8, RollBackKeeps
<1>9. CASE unmountSegment \/ unmountAndFreeSegment
    BY Zenon, <1>9, UnmountNowKeeps, UnmountGracefulPreserves
       DEF unmountSegment, unmountAndFreeSegment
<1>10. CASE \E s \in Segment : TimerQuery(s) \/ TimerCleanup(s)
    BY Zenon, <1>10, TimerQueryKeeps, TimerCleanupKeeps
<1>11. CASE TearDownAll \/ StopThreads
    BY Zenon, <1>11, StopKeeps
<1>12. CASE DestructorUnmounts
    BY Zenon, <1>12, DestructorUnmountsKeeps
<1>13. CASE DestructorEnds
    BY Zenon, <1>13, DestructorEndsKeeps
<1> QED
    BY Zenon, <1>1, <1>2, <1>3, <1>4, <1>5, <1>6, <1>7, <1>8, <1>9, <1>10, <1>11, <1>12, <1>13
       DEF Next, ClientStep, AppStep, ClusterStep

\* The invariant implies what is said of freed memory: a segment that is neither
\* allocated nor left over is in neither of the client's tables.
LEMMA FreedMemory == SegmentInv => FreedMemoryIsUnmounted
<1> SUFFICES ASSUME SegmentInv, NEW s \in Segment \ (memory \union leftover)
             PROVE  /\ s \notin te
                    /\ master[s] # "ok"
                    /\ phase # "done" => master[s] = "none"
    BY Zenon DEF FreedMemoryIsUnmounted
<1>1. s \notin mounted /\ s \notin graceful
    BY Zenon DEF SegmentInv, TablesAgree
<1>2. master[s] \in {"none", "ok", "graceful"}
    BY Zenon DEF SegmentInv, SegmentTypes
<1> QED
    BY Zenon, <1>1, <1>2 DEF SegmentInv, LeaderAgrees

\* A segment whose unmount was reported as successful is never known to a leader
\* again: the remount thread sends a copy of the table that is current, because
\* mounted_segments_mutex_ is held from the copy to the end of the RPC, and a
\* deferred unmount is reported only after the leader has dropped the segment.
THEOREM UnmountIsFinal == Spec => []UnmountedStaysUnmounted
<1>1. SegmentInv => UnmountedStaysUnmounted
    BY Zenon DEF SegmentInv, LeaderAgrees
<1> QED
    BY <1>1, SegmentInvInit, SegmentInvStep, PTL DEF Spec

\* Memory that a client has freed is registered with no engine and used by no
\* leader, whatever the order of mounts, roll-backs, unmounts, timers, remounts
\* and the tear-down, unless a call failed half-way.
THEOREM FreedMemoryIsSafe == Spec => []FreedMemoryIsUnmounted
<1> QED
    BY SegmentInvInit, SegmentInvStep, FreedMemory, PTL DEF Spec

-----------------------------------------------------------------------------

\* View versions are numbers, wherever a thread keeps one.
ViewTypes ==
    /\ epoch \in Nat /\ coord \in Nat /\ view \in Nat /\ mon \in Nat
    /\ hb \in Int

\* Only SwitchLeader changes the view, and only to one that is not stale.
LEMMA ViewStep ==
    ASSUME ViewTypes, [Next]_vars
    PROVE  ViewTypes' /\ view' >= view
<1> USE DEF ViewTypes
<1>1. ASSUME NEW v \in Nat, NEW ok \in BOOLEAN, SwitchLeader(v, ok)
      PROVE  view' \in Nat /\ view' >= view
    BY <1>1 DEF SwitchLeader, IsStale, leader
<1>2. CASE MonitorSwitch
    BY Zenon, <1>1, <1>2 DEF MonitorSwitch, cluster
<1>3. CASE ReconnectHa
    <2>1. hb \in Nat
        BY <1>3 DEF ReconnectHa, RECONNECT
    <2> QED
        BY <1>1, <1>3, <2>1 DEF ReconnectHa, cluster, PING
<1>4. CASE MonitorWait \/ LeaderDies \/ Elect
    <2>1. /\ UNCHANGED <<view, hb>>
          /\ mon' \in {mon, coord} /\ epoch' \in {epoch, epoch + 1}
          /\ coord' \in {0, coord, epoch'}
        BY Zenon, <1>4 DEF MonitorWait, LeaderDies, Elect, cluster, leader, beat
    <2> QED
        BY <2>1
<1>5. CASE ReadCurrentView \/ PingFails \/ Reconnect
    <2>1. UNCHANGED <<epoch, coord, view, mon>> /\ hb' \in {PING, RECONNECT, coord}
        BY Zenon, <1>5 DEF ReadCurrentView, PingFails, Reconnect, cluster, leader
    <2> QED
        BY <2>1 DEF PING, RECONNECT
<1>6. CASE MountNext
    BY <1>6 DEF MountNext, MountSegmentOk, EnsureStorageControlPlaneStarted,
                cluster, leader, PING
<1>7. CASE PingOk
    <2>1. UNCHANGED <<epoch, coord, view, mon, hb>>
        BY Zenon, <1>7 DEF PingOk, cluster
    <2> QED
        BY <2>1
<1>8. CASE \/ MasterExpires \/ \E s \in Segment : GraceEnds(s)
           \/ RemountBegin \/ RemountEnd \/ mountSegment \/ allocateAndMountSegment
           \/ MountReturn \/ RollBack \/ MountFails
    <2>1. UNCHANGED <<cluster, leader, beat>>
        BY Zenon, <1>8 DEF MasterExpires, GraceEnds, RemountBegin, RemountEnd, mountSegment,
                    allocateAndMountSegment, MountBegin, MountReturn, RollBack, MountFails
    <2> QED
        BY <2>1 DEF cluster, leader, beat
<1>9. CASE \/ unmountSegment \/ unmountAndFreeSegment
           \/ \E s \in Segment : TimerQuery(s) \/ TimerCleanup(s)
           \/ TearDownAll \/ StopThreads \/ DestructorUnmounts \/ DestructorEnds
           \/ UNCHANGED vars
    <2>1. UNCHANGED <<cluster, leader, beat>>
        BY Zenon, <1>9 DEF unmountSegment, unmountAndFreeSegment, UnmountNow, UnmountGraceful,
                    TimerQuery, TimerCleanup, TearDownAll, StopThreads,
                    DestructorUnmounts, DestructorEnds, vars
    <2> QED
        BY <2>1 DEF cluster, leader, beat
<1> QED
    BY Zenon, <1>2, <1>3, <1>4, <1>5, <1>6, <1>7, <1>8, <1>9
       DEF Next, ClientStep, AppStep, ClusterStep

\* The monitor and the heartbeat may switch with views they have read long ago;
\* the client still never returns to an older leader.
THEOREM ViewIsMonotonic == Spec => ViewNeverGoesBack
<1>1. Init => ViewTypes
    BY DEF Init, ViewTypes, OFF
<1>2. ViewTypes /\ [Next]_vars => ViewTypes' /\ [view' >= view]_vars
    BY Zenon, ViewStep
<1> QED
    BY <1>1, <1>2, PTL DEF Spec, ViewNeverGoesBack

-----------------------------------------------------------------------------

\* Every fault a step meets is counted, and none happens beyond the bound.
LEMMA FaultStep ==
    ASSUME [Next]_vars
    PROVE  faults' = faults \/ (MayFault /\ faults' = faults + 1)
<1>1. ASSUME NEW v, NEW ok \in BOOLEAN, Connect(v, ok)
      PROVE  faults' = faults \/ (MayFault /\ faults' = faults + 1)
    <2>1. Connects(v) \in BOOLEAN
        BY Zenon DEF Connects
    <2> QED
        BY Zenon, <1>1, <2>1 DEF Connect
<1>2. CASE MonitorSwitch \/ ReconnectHa \/ Reconnect
    BY Zenon, <1>1, <1>2 DEF MonitorSwitch, ReconnectHa, Reconnect, SwitchLeader
<1>3. ASSUME NEW o \in UnmountOutcomes, CountRpc(o)
      PROVE  faults' = faults \/ (MayFault /\ faults' = faults + 1)
    BY Zenon, <1>3 DEF CountRpc, UnmountOutcomes, Outcomes
<1>4. CASE RollBack \/ DestructorUnmounts \/ unmountSegment \/ unmountAndFreeSegment
    <2>1. \E o \in UnmountOutcomes : CountRpc(o)
        BY Zenon, <1>4 DEF RollBack, DestructorUnmounts, unmountSegment, unmountAndFreeSegment,
           UnmountNow, UnmountGraceful, UnmountSegment, UnmountSegmentImpl, UnmountOutcomes
    <2> QED
        BY Zenon, <1>3, <2>1
<1>5. CASE PingOk
    BY Zenon, <1>5 DEF PingOk, Publish, CountPublish
<1>6. CASE RemountEnd
    <2>1. PICK o \in Outcomes, d \in BOOLEAN, r \in BOOLEAN :
            /\ Publish(desc, desc_pending, d) /\ Publish(rpc_meta, rpc_meta_pending, r)
            /\ CountRpc(o) \/ CountPublish({d, r})
        BY Zenon, <1>6 DEF RemountEnd
    <2>2. CASE CountRpc(o)
        BY Zenon, <1>3, <2>2 DEF UnmountOutcomes
    <2>3. CASE CountPublish({d, r})
        BY Zenon, <2>1, <2>3 DEF Publish, CountPublish
    <2> QED
        BY Zenon, <2>1, <2>2, <2>3
<1>7. CASE MountNext
    <2>1. \/ faults' = faults \/ (MayFault /\ faults' = faults + 1)
          \/ \E o \in Outcomes : CountRpc(o)
        BY Zenon, <1>7 DEF MountNext, MountSegmentFails
    <2> QED
        BY Zenon, <1>3, <2>1 DEF UnmountOutcomes
<1>8. CASE PingFails \/ ReadCurrentView \/ MasterExpires
             \/ \E s \in Segment : TimerQuery(s) \/ TimerCleanup(s)
    BY Zenon, <1>8 DEF PingFails, ReadCurrentView, MasterExpires, TimerQuery, TimerCleanup
<1>9. CASE \/ LeaderDies \/ Elect \/ MonitorWait \/ RemountBegin \/ MountReturn \/ MountFails
           \/ \E s \in Segment : GraceEnds(s)
           \/ mountSegment \/ allocateAndMountSegment
           \/ TearDownAll \/ StopThreads \/ DestructorEnds \/ UNCHANGED vars
    BY Zenon, <1>9 DEF LeaderDies, Elect, GraceEnds, MonitorWait, RemountBegin, MountReturn,
       MountFails, mountSegment, allocateAndMountSegment, MountBegin, TearDownAll, StopThreads,
       DestructorEnds, vars
<1> QED
    BY Zenon, <1>2, <1>4, <1>5, <1>6, <1>7, <1>8, <1>9
       DEF Next, ClientStep, AppStep, ClusterStep

\* The flags of the client, of the leader and of the metadata server.
Flags ==
    /\ ha \in BOOLEAN /\ up \in BOOLEAN /\ client_ok \in BOOLEAN
    /\ desc \in BOOLEAN /\ rpc_meta \in BOOLEAN /\ last_ping_success \in BOOLEAN
    /\ desc_pending \in BOOLEAN /\ rpc_meta_pending \in BOOLEAN

\* Flags stay flags.
LEMMA FlagsStep ==
    ASSUME Flags, [Next]_vars
    PROVE  Flags'
<1>1. CASE MonitorSwitch \/ ReconnectHa \/ Reconnect
    <2>1. last_ping_success' \in BOOLEAN
        BY Zenon, <1>1 DEF MonitorSwitch, ReconnectHa, Reconnect, SwitchLeader, Connect,
           leader, Flags
    <2>2. UNCHANGED <<cluster, known, pending>>
        BY Zenon, <1>1 DEF MonitorSwitch, ReconnectHa, Reconnect
    <2> QED
        BY Zenon, <2>1, <2>2 DEF Flags, cluster, known, pending
<1>2. CASE PingOk \/ PingFails
    BY Zenon, <1>2 DEF PingOk, PingFails, Publish, Flags, cluster, known, pending
<1>3. CASE RemountEnd
    BY Zenon, <1>3 DEF RemountEnd, Publish, Flags, cluster, leader
<1>4. CASE \/ MasterExpires \/ LeaderDies \/ Elect \/ \E s \in Segment : GraceEnds(s)
    BY Zenon, <1>4 DEF MasterExpires, LeaderDies, Elect, GraceEnds, Flags, cluster, known,
       leader, pending
<1>5. CASE RollBack \/ DestructorUnmounts \/ unmountSegment \/ unmountAndFreeSegment \/ MountNext
    <2>1. UNCHANGED <<cluster, client_ok, desc, rpc_meta, leader, pending>>
        BY Zenon, <1>5 DEF RollBack, DestructorUnmounts, unmountSegment, unmountAndFreeSegment,
           UnmountNow, UnmountGraceful, MountNext
    <2> QED
        BY Zenon, <2>1 DEF Flags, cluster, leader, pending
<1>6. CASE \/ ReadCurrentView \/ MonitorWait \/ RemountBegin \/ MountReturn \/ MountFails
           \/ \E s \in Segment : TimerQuery(s) \/ TimerCleanup(s)
           \/ mountSegment \/ allocateAndMountSegment
           \/ TearDownAll \/ StopThreads \/ DestructorEnds \/ UNCHANGED vars
    <2>1. UNCHANGED <<cluster, known, leader, pending>>
        BY Zenon, <1>6 DEF ReadCurrentView, MonitorWait, RemountBegin, MountReturn, MountFails,
           TimerQuery, TimerCleanup, mountSegment, allocateAndMountSegment, MountBegin,
           TearDownAll, StopThreads, DestructorEnds, vars
    <2> QED
        BY Zenon, <2>1 DEF Flags, cluster, known, leader, pending
<1> QED
    BY Zenon, <1>1, <1>2, <1>3, <1>4, <1>5, <1>6 DEF Next, ClientStep, AppStep, ClusterStep

\* Views and counters within their bounds. A leader that dies is not the last one.
ViewBounds ==
    /\ epoch \in 1..MaxEpoch /\ (~up => epoch < MaxEpoch)
    /\ coord \in 0..MaxEpoch /\ view \in 0..MaxEpoch /\ mon \in 0..MaxEpoch
    /\ conn \in 1..MaxEpoch /\ hb \in OFF..MaxEpoch
    /\ ping_fail_count \in 0..MaxPingFail

\* A connection is made to a leader that has been elected.
LEMMA ViewBoundsStep ==
    ASSUME ViewBounds, [Next]_vars
    PROVE  ViewBounds'
<1> USE BoundAssumption DEF ViewBounds, OFF, PING, RECONNECT
<1>1. ASSUME NEW v \in 1..MaxEpoch, NEW ok, Connect(v, ok)
      PROVE  conn' \in 1..MaxEpoch
    BY Zenon, <1>1 DEF Connect
<1>2. ASSUME NEW v \in 1..MaxEpoch, NEW ok, SwitchLeader(v, ok)
      PROVE  view' \in 0..MaxEpoch /\ conn' \in 1..MaxEpoch
    <2>1. v \in 0..MaxEpoch
        OBVIOUS
    <2> QED
        BY Zenon, <1>1, <1>2, <2>1 DEF SwitchLeader, leader
<1>3. CASE MonitorSwitch
    <2>1. mon \in 1..MaxEpoch /\ mon' = 0 /\ UNCHANGED <<cluster, ping_fail_count, hb>>
        BY <1>3 DEF MonitorSwitch
    <2>2. view' \in 0..MaxEpoch /\ conn' \in 1..MaxEpoch
        BY Zenon, <1>2, <1>3, <2>1 DEF MonitorSwitch
    <2> QED
        BY <2>1, <2>2 DEF cluster
<1>4. CASE ReconnectHa
    <2>1. hb \in 1..MaxEpoch /\ hb' = PING /\ UNCHANGED <<cluster, mon>>
        BY <1>4 DEF ReconnectHa
    <2>2. view' \in 0..MaxEpoch /\ conn' \in 1..MaxEpoch
        BY Zenon, <1>2, <1>4, <2>1 DEF ReconnectHa
    <2>3. ping_fail_count' \in {0, ping_fail_count}
        BY Zenon, <1>4 DEF ReconnectHa
    <2> QED
        BY <2>1, <2>2, <2>3 DEF cluster
<1>5. CASE Reconnect
    <2>1. hb' = PING /\ UNCHANGED <<cluster, mon, view>>
        BY Zenon, <1>5 DEF Reconnect
    <2>2. conn' \in 1..MaxEpoch
        BY Zenon, <1>1, <1>5 DEF Reconnect
    <2>3. ping_fail_count' \in {0, ping_fail_count}
        BY Zenon, <1>5 DEF Reconnect
    <2> QED
        BY <2>1, <2>2, <2>3 DEF cluster
<1>6. CASE MonitorWait \/ LeaderDies \/ Elect
    <2>1. /\ UNCHANGED <<view, conn, hb, ping_fail_count>>
          /\ mon' \in {mon, coord} /\ coord' \in {0, coord, epoch'}
          /\ \/ epoch' = epoch /\ up' = up
             \/ epoch' = epoch /\ up' = FALSE /\ epoch < MaxEpoch
             \/ epoch' = epoch + 1 /\ up' = TRUE /\ ~up
        BY Zenon, <1>6 DEF MonitorWait, LeaderDies, Elect, cluster, leader, beat
    <2> QED
        BY <2>1
<1>7. CASE ReadCurrentView
    <2>1. UNCHANGED <<cluster, leader, ping_fail_count, mon>> /\ hb' \in {PING, coord}
        BY Zenon, <1>7 DEF ReadCurrentView
    <2> QED
        BY <2>1 DEF cluster, leader
<1>8. CASE PingFails
    <2>1. UNCHANGED <<cluster, view, conn, mon>> /\ hb' \in {PING, RECONNECT}
        BY Zenon, <1>8 DEF PingFails
    <2>2. Min({ping_fail_count + 1, MaxPingFail}) \in 0..MaxPingFail
        <3>1. CASE ping_fail_count + 1 <= MaxPingFail
            <4>1. \A y \in {ping_fail_count + 1, MaxPingFail} : ping_fail_count + 1 <= y
                BY <3>1
            <4>2. Min({ping_fail_count + 1, MaxPingFail}) \in {ping_fail_count + 1, MaxPingFail}
                BY Zenon, <4>1 DEF Min
            <4> QED
                BY <3>1, <4>2
        <3>2. CASE ~(ping_fail_count + 1 <= MaxPingFail)
            <4>1. \A y \in {ping_fail_count + 1, MaxPingFail} : MaxPingFail <= y
                BY <3>2
            <4>2. /\ Min({ping_fail_count + 1, MaxPingFail}) \in {ping_fail_count + 1, MaxPingFail}
                  /\ \A y \in {ping_fail_count + 1, MaxPingFail} :
                        Min({ping_fail_count + 1, MaxPingFail}) <= y
                BY Zenon, <4>1 DEF Min
            <4> QED
                BY <3>2, <4>2
        <3> QED
            BY Zenon, <3>1, <3>2
    <2>3. ping_fail_count' \in 0..MaxPingFail
        BY Zenon, <1>8, <2>2 DEF PingFails
    <2> QED
        BY <2>1, <2>3 DEF cluster
<1>9. CASE MountNext \/ PingOk
    <2>1. /\ UNCHANGED <<cluster, view, conn, mon>> /\ hb' \in {PING, hb}
          /\ ping_fail_count' \in {0, ping_fail_count}
        BY Zenon, <1>9 DEF MountNext, MountSegmentOk, EnsureStorageControlPlaneStarted, PingOk,
           leader
    <2> QED
        BY <2>1 DEF cluster
<1>10. CASE \/ MasterExpires \/ \E s \in Segment : GraceEnds(s)
            \/ RemountBegin \/ RemountEnd \/ mountSegment \/ allocateAndMountSegment
            \/ MountReturn \/ RollBack \/ MountFails
    <2>1. UNCHANGED <<cluster, leader, beat>>
        BY Zenon, <1>10 DEF MasterExpires, GraceEnds, RemountBegin, RemountEnd, mountSegment,
                    allocateAndMountSegment, MountBegin, MountReturn, RollBack, MountFails
    <2> QED
        BY Zenon, <2>1 DEF cluster, leader, beat
<1>11. CASE \/ unmountSegment \/ unmountAndFreeSegment
            \/ \E s \in Segment : TimerQuery(s) \/ TimerCleanup(s)
            \/ TearDownAll \/ StopThreads \/ DestructorUnmounts \/ DestructorEnds
            \/ UNCHANGED vars
    <2>1. UNCHANGED <<cluster, leader, beat>>
        BY Zenon, <1>11 DEF unmountSegment, unmountAndFreeSegment, UnmountNow, UnmountGraceful,
                    TimerQuery, TimerCleanup, TearDownAll, StopThreads,
                    DestructorUnmounts, DestructorEnds, vars
    <2> QED
        BY Zenon, <2>1 DEF cluster, leader, beat
<1> QED
    BY Zenon, <1>3, <1>4, <1>5, <1>6, <1>7, <1>8, <1>9, <1>10, <1>11
       DEF Next, ClientStep, AppStep, ClusterStep

\* Only a segment's own timer gives up on it.
LEMMA GaveUpStep ==
    ASSUME gave_up \subseteq Segment, [Next]_vars
    PROVE  gave_up' \subseteq Segment
<1>1. CASE \E s \in Segment : TimerQuery(s)
    BY Zenon, <1>1 DEF TimerQuery
<1>2. CASE ~ \E s \in Segment : TimerQuery(s)
    <2>1. gave_up' = gave_up
        BY Zenon, <1>2 DEF Next, ClientStep, AppStep, ClusterStep, MonitorWait, MonitorSwitch,
           PingOk, PingFails, ReadCurrentView, ReconnectHa, Reconnect, RemountBegin, RemountEnd,
           MountNext, MountReturn, RollBack, MountFails, TimerCleanup, StopThreads,
           DestructorUnmounts, DestructorEnds, mountSegment, allocateAndMountSegment, MountBegin,
           unmountSegment, unmountAndFreeSegment, UnmountNow, UnmountGraceful, TearDownAll,
           LeaderDies, Elect, MasterExpires, GraceEnds, history, vars
    <2> QED
        BY Zenon, <2>1
<1> QED
    BY Zenon, <1>1, <1>2

\* The inductive invariant of TypeOK.
TypeInv == SegmentInv /\ Flags /\ ViewBounds /\ gave_up \subseteq Segment /\ faults \in 0..MaxFaults

\* Every variable keeps its type and its bound; no segment is in both tables of
\* the client, and every record, and every chunk of the call in progress, has
\* its memory (RealClient::mountSegment, allocateAndMountSegment and their unmounts).
THEOREM MembershipTypes == Spec => []TypeOK
<1>1. Init => TypeInv
    <2> SUFFICES ASSUME Init PROVE TypeInv
        BY Zenon
    <2>1. Flags /\ gave_up \subseteq Segment
        BY Zenon DEF Init, Flags
    <2>2. ViewBounds
        BY BoundAssumption DEF Init, ViewBounds, OFF
    <2>3. faults \in 0..MaxFaults
        BY BoundAssumption DEF Init
    <2> QED
        BY Zenon, <2>1, <2>2, <2>3, SegmentInvInit DEF TypeInv
<1>2. TypeInv /\ [Next]_vars => TypeInv'
    <2> SUFFICES ASSUME TypeInv, [Next]_vars PROVE TypeInv'
        BY Zenon
    <2>1. faults' \in 0..MaxFaults
        BY FaultStep, BoundAssumption DEF TypeInv, MayFault
    <2> QED
        BY Zenon, <2>1, SegmentInvStep, FlagsStep, ViewBoundsStep, GaveUpStep DEF TypeInv
<1>3. TypeInv => TypeOK
    <2> SUFFICES ASSUME TypeInv PROVE TypeOK
        BY Zenon
    <2>1. /\ SegmentTypes /\ mounted \cap graceful = {} /\ call.done \subseteq memory
          /\ \A a \in {"file", "heap"} : records[a] \subseteq memory
        BY Zenon DEF TypeInv, SegmentInv, TablesAgree, CallOwnsChunks
    <2>2. records \in [DOMAIN Requests -> SUBSET memory]
        BY Zenon, <2>1, RequestAssumption DEF SegmentTypes
    <2>3. call.api \in DOMAIN Requests \union {"none"}
        BY <2>1, RequestAssumption DEF SegmentTypes, CallType
    <2>4. {snapshot, mounted, graceful, te, memory, todo, unmounted, leftover, gave_up}
            \subseteq SUBSET Segment
        BY Zenon, <2>1 DEF SegmentTypes, TypeInv
    <2>5. {client_ok, desc, rpc_meta, last_ping_success, desc_pending, rpc_meta_pending}
            \subseteq BOOLEAN
        BY Zenon DEF TypeInv, Flags
    <2> QED
        BY Zenon, <2>1, <2>2, <2>3, <2>4, <2>5 DEF TypeOK, TypeInv, Flags, ViewBounds, SegmentTypes
<1> QED
    BY <1>1, <1>2, <1>3, PTL DEF Spec
=============================================================================
