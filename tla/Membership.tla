----------------------------- MODULE Membership -----------------------------
(***************************************************************************)
(* A store client as a member of the cluster: the connection to the leader *)
(* (SwitchLeader, LeaderMonitorThreadMain), the heartbeat with reconnect,  *)
(* remount and the re-publication of metadata, the segments it has mounted *)
(* (MountSegmentAndGetId, UnmountSegmentById and its deferred form), the   *)
(* memory RealClient holds for them, and the tear-down of all of it.       *)
(*                                                                         *)
(* A segment is one chunk of memory with the id it is mounted under; both  *)
(* are fresh for every mount. mounted_segments_mutex_ is held across the   *)
(* RPCs of mount and unmount, so each of these is one action; the remount  *)
(* thread is two, with the mutex held in between.                          *)
(***************************************************************************)
EXTENDS Integers, Sequences, FiniteSetsExt

CONSTANTS
    Segment,        \* chunks of memory
    Requests,       \* per API (file, heap): the sequences of chunks of its calls
    MaxEpoch,       \* bound on the number of leaders
    MaxFaults,      \* bound on faults: RPCs, connects, publications, driver calls
    MaxPingFail,    \* max_ping_fail_count
    RetryLeft       \* first retry_left of a deferred unmount

\* Every chunk of a call is memory of its own.
ASSUME RequestAssumption ==
    /\ DOMAIN Requests = {"file", "heap"}
    /\ \A api \in {"file", "heap"} : \A cs \in Requests[api] :
        /\ cs \in Seq(Segment)
        /\ \A i, j \in DOMAIN cs : cs[i] = cs[j] => i = j
ASSUME RetryAssumption == RetryLeft \in Nat
\* There is a first leader, and the other bounds are numbers.
ASSUME BoundAssumption ==
    MaxEpoch \in Nat \ {0} /\ MaxFaults \in Nat /\ MaxPingFail \in Nat

VARIABLES
    ha,             \* leader_coordinator_ is set
    epoch, up,      \* the last elected leader, and whether it serves
    coord,          \* version of the view at the coordinator, 0 when there is none
    master,         \* how the leader knows each segment
    client_ok,      \* the leader does not answer NEED_REMOUNT
    desc, rpc_meta, \* the client's entries are at the metadata server
    view,           \* current_master_view_, 0 when it has no value
    conn,           \* the leader master_client_ is connected to
    last_ping_success,
    ping_fail_count,
    hb,             \* where the heartbeat thread is, or the view it has read
    mon,            \* view the monitor thread is about to switch to, 0 for none
    remount,        \* remount_segment_future and where its thread is
    snapshot,       \* segments the remount thread has copied
    desc_pending, rpc_meta_pending,
    mounted,        \* mounted_segments_
    graceful,       \* gracefully_unmounting_segments_
    timer,          \* per segment: retry_left of its timer, or one of the two below
    te,             \* segments registered with the transfer engine
    memory,         \* segments whose memory is allocated
    records,        \* per API: mounted_ and allocated_segment_records_
    call,           \* the mount call in progress
    phase,          \* of the tear-down
    todo,           \* mounted_segments_copy of the destructor
    faults,
    unmounted,      \* history: unmounts reported as successful
    leftover,       \* history: segments a failed call has left half mounted
    gave_up         \* history: deferred unmounts that ran out of retries

cluster == <<ha, epoch, up, coord>>
known == <<master, client_ok, desc, rpc_meta>>
leader == <<view, conn, last_ping_success>>
beat == <<ping_fail_count, hb, mon>>
mounting == <<remount, snapshot>>
pending == <<desc_pending, rpc_meta_pending>>
segments == <<mounted, graceful, timer, te, memory, records>>
control == <<call, phase, todo>>
history == <<unmounted, leftover, gave_up>>
vars == <<cluster, known, leader, beat, mounting, pending, segments, control,
          faults, history>>

OFF == -2           \* the thread is not started before the first mount
PING == -1
RECONNECT == 0

NONE == -1          \* no timer
CONFIRMED == RetryLeft + 1 \* the master has confirmed the removal

Idle == [api |-> "none", left |-> <<>>, done |-> {}, rolling |-> FALSE]
Unmounted == [s \in Segment |-> "none"]

Init ==
    /\ ha \in BOOLEAN
    /\ epoch = 1 /\ up = TRUE /\ coord = (IF ha THEN 1 ELSE 0)
    /\ master = Unmounted
    /\ client_ok = FALSE
    /\ desc = TRUE /\ rpc_meta = TRUE
    /\ view = (IF ha THEN 1 ELSE 0)
    /\ conn = 1
    /\ last_ping_success = TRUE
    /\ ping_fail_count = 0
    /\ hb = OFF
    /\ mon = 0
    /\ remount = "none" /\ snapshot = {}
    /\ desc_pending = FALSE /\ rpc_meta_pending = FALSE
    /\ mounted = {} /\ graceful = {} /\ te = {} /\ memory = {}
    /\ records = [a \in DOMAIN Requests |-> {}]
    /\ timer = [s \in Segment |-> NONE]
    /\ call = Idle
    /\ phase = "run"
    /\ todo = {}
    /\ faults = 0
    /\ unmounted = {} /\ leftover = {} /\ gave_up = {}

(***************************************************************************)
(* What the client meets                                                   *)
(***************************************************************************)

Reachable == up /\ conn = epoch

MayFault == faults < MaxFaults

\* The outcomes of an RPC; "lost": it takes effect and the answer is lost.
Outcomes ==
    IF ~Reachable THEN {"fail"}
    ELSE {"ok"} \union (IF MayFault THEN {"fail", "lost"} ELSE {})

CountRpc(o) == faults' = IF Reachable /\ o # "ok" THEN faults + 1 ELSE faults

LeaderDies ==
    /\ up /\ epoch < MaxEpoch
    /\ up' = FALSE
    /\ coord' \in {coord, 0}
    /\ UNCHANGED <<ha, epoch, known, leader, beat, mounting, pending, segments,
                   control, faults, history>>

\* The new leader knows no client, and its metadata server is empty.
Elect ==
    /\ ~up
    /\ up' = TRUE
    /\ epoch' = epoch + 1
    /\ coord' = IF ha THEN epoch' ELSE 0
    /\ master' = Unmounted
    /\ client_ok' = FALSE
    /\ desc' = FALSE /\ rpc_meta' = FALSE
    /\ UNCHANGED <<ha, leader, beat, mounting, pending, segments, control,
                   faults, history>>

\* The master has not heard from the client for too long.
MasterExpires ==
    /\ up /\ client_ok /\ MayFault
    /\ master' = Unmounted
    /\ client_ok' = FALSE
    /\ faults' = faults + 1
    /\ UNCHANGED <<cluster, desc, rpc_meta, leader, beat, mounting, pending,
                   segments, control, history>>

GraceEnds(s) ==
    /\ up /\ master[s] = "graceful"
    /\ master' = [master EXCEPT ![s] = "none"]
    /\ UNCHANGED <<cluster, client_ok, desc, rpc_meta, leader, beat, mounting,
                   pending, segments, control, faults, history>>

(***************************************************************************)
(* The leader                                                              *)
(***************************************************************************)

\* Mutant of IsStale: every view counts as current.
IsStaleNever(v) == FALSE

IsStale(v) == v < view
Connects(v) == v = epoch /\ up

\* master_client_.Connect: a leader that has been deposed may still accept it.
Connect(v, ok) ==
    /\ ok \/ ~Connects(v) \/ MayFault
    /\ ok => Connects(v) \/ (MayFault /\ v # epoch)
    /\ conn' = IF ok THEN v ELSE conn
    /\ last_ping_success' = ok
    /\ faults' = IF ok = Connects(v) THEN faults ELSE faults + 1

SwitchLeader(v, ok) ==
    \/ /\ IsStale(v) \/ (v = view /\ last_ping_success)
       /\ ok
       /\ UNCHANGED <<leader, faults>>
    \/ /\ ~IsStale(v)
       /\ v # view \/ ~last_ping_success
       /\ Connect(v, ok)
       /\ view' = IF ok THEN v ELSE view

MonitorWait ==
    /\ ha /\ phase = "run" /\ mon = 0
    /\ coord \notin {0, view}
    /\ mon' = coord
    /\ UNCHANGED <<cluster, known, leader, ping_fail_count, hb, mounting,
                   pending, segments, control, faults, history>>

MonitorSwitch ==
    /\ mon # 0
    /\ \E ok \in BOOLEAN : SwitchLeader(mon, ok)
    /\ mon' = 0
    /\ UNCHANGED <<cluster, known, ping_fail_count, hb, mounting, pending,
                   segments, control, history>>

(***************************************************************************)
(* The heartbeat                                                           *)
(***************************************************************************)

\* The future is joined at the top of the loop.
Joined == IF remount = "ready" THEN "none" ELSE remount

\* Mutant of Publish: a failed publication is not remembered.
PublishForgets(entry, flag, ok) ==
    /\ ok => up
    /\ ok \/ ~up \/ MayFault
    /\ entry' = (entry \/ ok)
    /\ flag' = FALSE

\* One publication to the metadata server, which runs with the leader.
Publish(entry, flag, ok) ==
    /\ ok => up
    /\ ok \/ ~up \/ MayFault
    /\ entry' = (entry \/ ok)
    /\ flag' = ~ok

CountPublish(oks) ==
    faults' = IF up /\ FALSE \in oks THEN faults + 1 ELSE faults

PingOk ==
    /\ phase = "run" /\ hb = PING /\ Reachable
    /\ ping_fail_count' = 0
    /\ last_ping_success' = TRUE
    /\ \/ /\ Joined = "none" /\ ~client_ok
          /\ remount' = "started"
          /\ UNCHANGED <<desc, rpc_meta, pending, faults>>
       \/ /\ Joined = "none" /\ client_ok /\ desc_pending
          /\ \E ok \in BOOLEAN : Publish(desc, desc_pending, ok) /\ CountPublish({ok})
          /\ remount' = Joined
          /\ UNCHANGED <<rpc_meta, rpc_meta_pending>>
       \/ /\ Joined = "none" /\ client_ok /\ ~desc_pending /\ rpc_meta_pending
          /\ \E ok \in BOOLEAN :
                Publish(rpc_meta, rpc_meta_pending, ok) /\ CountPublish({ok})
          /\ remount' = Joined
          /\ UNCHANGED <<desc, desc_pending>>
       \/ /\ Joined # "none" \/ (client_ok /\ ~desc_pending /\ ~rpc_meta_pending)
          /\ remount' = Joined
          /\ UNCHANGED <<desc, rpc_meta, pending, faults>>
    /\ UNCHANGED <<cluster, master, client_ok, view, conn, hb, mon, snapshot,
                   segments, control, history>>

PingFails ==
    /\ phase = "run" /\ hb = PING
    /\ ~Reachable \/ MayFault
    /\ faults' = IF Reachable THEN faults + 1 ELSE faults
    /\ ping_fail_count' = Min({ping_fail_count + 1, MaxPingFail})
    /\ last_ping_success' = FALSE
    /\ hb' = IF ping_fail_count + 1 < MaxPingFail THEN PING ELSE RECONNECT
    /\ remount' = Joined
    /\ UNCHANGED <<cluster, known, view, conn, mon, snapshot, pending, segments,
                   control, history>>

\* ReadCurrentView fails, has no view, or answers.
ReadCurrentView ==
    /\ ha /\ hb = RECONNECT
    /\ \/ /\ coord = 0 \/ MayFault
          /\ faults' = IF coord = 0 THEN faults ELSE faults + 1
          /\ hb' = PING
       \/ /\ coord # 0
          /\ hb' = coord
          /\ UNCHANGED faults
    /\ UNCHANGED <<cluster, known, leader, ping_fail_count, mon, mounting,
                   pending, segments, control, history>>

ReconnectHa ==
    /\ hb > RECONNECT
    /\ \E ok \in BOOLEAN :
        /\ SwitchLeader(hb, ok)
        /\ ping_fail_count' = IF ok THEN 0 ELSE ping_fail_count
    /\ hb' = PING
    /\ UNCHANGED <<cluster, known, mon, mounting, pending, segments, control,
                   history>>

Reconnect ==
    /\ ~ha /\ hb = RECONNECT
    /\ \E ok \in BOOLEAN :
        /\ Connect(epoch, ok)
        /\ ping_fail_count' = IF ok THEN 0 ELSE ping_fail_count
    /\ hb' = PING
    /\ UNCHANGED <<cluster, known, view, mon, mounting, pending, segments,
                   control, history>>

\* The thread of std::async takes mounted_segments_mutex_ and copies the table.
RemountBegin ==
    /\ remount = "started"
    /\ remount' = "locked"
    /\ snapshot' = mounted
    /\ UNCHANGED <<cluster, known, leader, beat, pending, segments, control,
                   faults, history>>

\* ReMountSegment and the two publications; then the mutex is released.
RemountEnd ==
    /\ remount = "locked"
    /\ \E o \in Outcomes, d, r \in BOOLEAN :
        /\ IF o = "fail" THEN UNCHANGED <<master, client_ok>>
           ELSE /\ master' = [s \in Segment |-> IF s \in snapshot THEN "ok" ELSE master[s]]
                /\ client_ok' = TRUE
        /\ Publish(desc, desc_pending, d)
        /\ Publish(rpc_meta, rpc_meta_pending, r)
        /\ IF Reachable /\ o # "ok" THEN d = up /\ r = up /\ CountRpc(o)
           ELSE CountPublish({d, r})
    /\ remount' = "ready"
    /\ snapshot' = {}
    /\ UNCHANGED <<cluster, leader, beat, segments, control, history>>

\* Mutant of MutexFree: the remount thread does not hold the mutex.
MutexFreeAlways == TRUE

\* mounted_segments_mutex_ is not held by the remount thread.
MutexFree == remount # "locked"

(***************************************************************************)
(* Mounting                                                                *)
(***************************************************************************)

MountBegin(api) ==
    /\ phase = "run" /\ call = Idle
    /\ \E cs \in Requests[api] :
        /\ Range(cs) \cap (memory \union unmounted \union leftover \union gave_up) = {}
        /\ call' = [api |-> api, left |-> cs, done |-> {}, rolling |-> FALSE]
    /\ UNCHANGED <<cluster, known, leader, beat, mounting, pending, segments,
                   phase, todo, faults, history>>

EnsureStorageControlPlaneStarted == hb' = IF hb = OFF THEN PING ELSE hb

\* MountSegmentAndGetId succeeds; the first one starts the heartbeat thread.
MountSegmentOk(s) ==
    /\ MutexFree /\ Reachable
    /\ te' = te \union {s}
    /\ master' = [master EXCEPT ![s] = "ok"]
    /\ mounted' = mounted \union {s}
    /\ EnsureStorageControlPlaneStarted

\* It fails: the engine refuses, or the RPC fails with the memory registered.
MountSegmentFails(s) ==
    /\ MutexFree
    /\ \/ /\ MayFault
          /\ faults' = faults + 1
          /\ UNCHANGED <<te, master>>
       \/ \E o \in Outcomes \ {"ok"} :
            /\ CountRpc(o)
            /\ te' = te \union {s}
            /\ master' = IF o = "lost" THEN [master EXCEPT ![s] = "ok"] ELSE master
    /\ leftover' = leftover \union {s}

MountNext ==
    /\ call.left # <<>> /\ ~call.rolling
    /\ LET s == Head(call.left) IN
       \/ /\ MountSegmentOk(s)
          /\ memory' = memory \union {s}
          /\ call' = [call EXCEPT !.left = Tail(@), !.done = @ \union {s}]
          /\ UNCHANGED <<leftover, faults>>
       \/ /\ MountSegmentFails(s)
          /\ call' = [call EXCEPT !.rolling = TRUE]
          /\ UNCHANGED <<mounted, memory, hb>>
    /\ UNCHANGED <<cluster, client_ok, desc, rpc_meta, leader, ping_fail_count,
                   mon, mounting, pending, graceful, timer, records, phase, todo,
                   unmounted, gave_up>>

\* All chunks are mounted: the records are written, and the call returns.
MountReturn ==
    /\ call # Idle /\ call.left = <<>> /\ ~call.rolling
    /\ records' = [records EXCEPT ![call.api] = @ \union call.done]
    /\ call' = Idle
    /\ UNCHANGED <<cluster, known, leader, beat, mounting, pending, mounted,
                   graceful, timer, te, memory, phase, todo, faults, history>>

(***************************************************************************)
(* Unmounting                                                              *)
(***************************************************************************)

\* UnmountSegmentImpl; "te": the engine fails to unregister the memory.
UnmountOutcomes == Outcomes \union (IF Reachable /\ MayFault THEN {"te"} ELSE {})

UnmountSegmentImpl(s, o) ==
    /\ o \in UnmountOutcomes
    /\ CountRpc(o)
    /\ master' = IF o = "fail" THEN master ELSE [master EXCEPT ![s] = "none"]
    /\ te' = IF o = "ok" THEN te \ {s} ELSE te
    /\ mounted' = IF o = "ok" THEN mounted \ {s} ELSE mounted

\* UnmountSegment finds the segment by its address.
UnmountSegment(s, o) == s \in mounted /\ UnmountSegmentImpl(s, o)

\* A failed mount call unmounts and frees its chunks whatever the outcome.
RollBack ==
    /\ call.rolling /\ call.done # {} /\ MutexFree
    /\ LET s == CHOOSE d \in call.done : TRUE IN
       \E o \in UnmountOutcomes :
        /\ UnmountSegmentImpl(s, o)
        /\ memory' = memory \ {s}
        /\ leftover' = IF o = "ok" THEN leftover ELSE leftover \union {s}
        /\ unmounted' = IF o = "ok" THEN unmounted \union {s} ELSE unmounted
        /\ call' = [call EXCEPT !.done = @ \ {s}]
    /\ UNCHANGED <<cluster, client_ok, desc, rpc_meta, leader, beat, mounting,
                   pending, graceful, timer, records, phase, todo, gave_up>>

MountFails ==
    /\ call.rolling /\ call.done = {}
    /\ call' = Idle
    /\ UNCHANGED <<cluster, known, leader, beat, mounting, pending, segments,
                   phase, todo, faults, history>>

\* UnmountSegmentById without a grace period; then the memory is released.
UnmountNow(api, s) ==
    /\ phase = "run" /\ MutexFree
    /\ s \in records[api] /\ s \in mounted
    /\ \E o \in UnmountOutcomes :
        /\ UnmountSegmentImpl(s, o)
        /\ memory' = IF o = "ok" THEN memory \ {s} ELSE memory
        /\ records' = IF o = "ok" THEN [records EXCEPT ![api] = @ \ {s}] ELSE records
        /\ unmounted' = IF o = "ok" THEN unmounted \union {s} ELSE unmounted
        /\ leftover' = IF o \in {"lost", "te"} THEN leftover \union {s} ELSE leftover
    /\ UNCHANGED <<cluster, client_ok, desc, rpc_meta, leader, beat, mounting,
                   pending, graceful, timer, control, gave_up>>

\* Mutant of UnmountGraceful: the segment stays in mounted_segments_.
UnmountGracefulKeeps(api, s) ==
    /\ phase = "run" /\ MutexFree
    /\ s \in records[api] /\ s \in mounted
    /\ Reachable /\ master[s] = "ok"
    /\ master' = [master EXCEPT ![s] = "graceful"]
    /\ graceful' = graceful \union {s}
    /\ timer' = [timer EXCEPT ![s] = RetryLeft]
    /\ UNCHANGED <<cluster, client_ok, desc, rpc_meta, leader, beat, mounting,
                   pending, mounted, te, memory, records, control, faults, history>>

\* The timer queries the master until it confirms, at most RetryLeft + 1 times.
StartGracefulUnmountTimer(s) == timer' = [timer EXCEPT ![s] = RetryLeft]

\* With one: UnmountSegmentById moves the segment and starts its timer.
UnmountGraceful(api, s) ==
    /\ phase = "run" /\ MutexFree
    /\ s \in records[api] /\ s \in mounted
    /\ \E o \in Outcomes :
        /\ o = "ok" => master[s] # "none"
        /\ CountRpc(o)
        /\ master' = IF o = "fail" \/ master[s] = "none" THEN master
                     ELSE [master EXCEPT ![s] = "graceful"]
        /\ mounted' = IF o = "ok" THEN mounted \ {s} ELSE mounted
        /\ graceful' = IF o = "ok" THEN graceful \union {s} ELSE graceful
        /\ IF o = "ok" THEN StartGracefulUnmountTimer(s) ELSE UNCHANGED timer
        /\ leftover' = IF o = "lost" THEN leftover \union {s} ELSE leftover
    /\ UNCHANGED <<cluster, client_ok, desc, rpc_meta, leader, beat, mounting,
                   pending, te, memory, records, control, unmounted, gave_up>>

\* Mutants of TimerQuery: an error counts as a removal; an error ends the timer.
TimerQueryTrusts(s) ==
    /\ phase = "run" /\ timer[s] \in 0..RetryLeft
    /\ ~Reachable \/ master[s] = "none"
    /\ timer' = [timer EXCEPT ![s] = CONFIRMED]
    /\ UNCHANGED <<cluster, known, leader, beat, mounting, pending, mounted,
                   graceful, te, memory, records, control, faults, history>>

TimerQueryOnce(s) ==
    /\ phase = "run" /\ timer[s] \in 0..RetryLeft
    /\ ~Reachable \/ MayFault \/ master[s] = "none"
    /\ timer' = [timer EXCEPT ![s] =
                    IF Reachable /\ master[s] = "none" THEN CONFIRMED ELSE NONE]
    /\ UNCHANGED <<cluster, known, leader, beat, mounting, pending, mounted,
                   graceful, te, memory, records, control, faults, history>>

\* OnGracefulUnmountTimer up to the answer of the query. A master that has not
\* removed the segment ten seconds after the grace period counts as a fault.
TimerQuery(s) ==
    /\ phase = "run" /\ timer[s] \in 0..RetryLeft
    /\ \/ /\ Reachable /\ master[s] = "none"
          /\ timer' = [timer EXCEPT ![s] = CONFIRMED]
          /\ UNCHANGED <<faults, gave_up>>
       \/ /\ ~Reachable \/ MayFault
          /\ faults' = IF Reachable THEN faults + 1 ELSE faults
          /\ timer' = [timer EXCEPT ![s] = @ - 1]
          /\ gave_up' = IF timer[s] = 0 THEN gave_up \union {s} ELSE gave_up
    /\ UNCHANGED <<cluster, known, leader, beat, mounting, pending, mounted,
                   graceful, te, memory, records, control, unmounted, leftover>>

\* ReleaseMountedSegmentRecord and ReleaseAllocatedSegmentRecord.
ReleaseSegmentRecord(s) ==
    /\ records' = [a \in DOMAIN records |-> records[a] \ {s}]
    /\ memory' = memory \ {s}

\* The same for all records, at the tear-down.
ReleaseAllSegmentRecords ==
    /\ records' = [a \in DOMAIN records |-> {}]
    /\ memory' = memory \ UNION {records[a] : a \in DOMAIN records}

\* The rest of it, with the cleanup callback.
TimerCleanup(s) ==
    /\ timer[s] = CONFIRMED /\ MutexFree
    /\ \/ /\ te' = te \ {s}
          /\ UNCHANGED <<faults, leftover>>
       \/ /\ MayFault
          /\ faults' = faults + 1
          /\ leftover' = leftover \union {s}
          /\ UNCHANGED te
    /\ graceful' = graceful \ {s}
    /\ ReleaseSegmentRecord(s)
    /\ timer' = [timer EXCEPT ![s] = NONE]
    /\ unmounted' = unmounted \union {s}
    /\ UNCHANGED <<cluster, known, leader, beat, mounting, pending, mounted,
                   control, gave_up>>

(***************************************************************************)
(* Tear-down: RealClient::tearDownAll_internal and the destructor of Client *)
(***************************************************************************)

TearDownAll ==
    /\ phase = "run" /\ call = Idle
    /\ phase' = "join"
    /\ UNCHANGED <<cluster, known, leader, beat, mounting, pending, segments,
                   call, todo, faults, history>>

\* The threads have ended, and the pool has run or dropped its timers.
StopThreads ==
    /\ phase = "join"
    /\ hb \in {OFF, PING} /\ mon = 0
    /\ remount \in {"none", "ready"}
    /\ \A s \in Segment : timer[s] # CONFIRMED
    /\ timer' = [s \in Segment |-> NONE]
    /\ phase' = "unmount"
    /\ todo' = mounted
    /\ UNCHANGED <<cluster, known, leader, beat, mounting, pending, mounted,
                   graceful, te, memory, records, call, faults, history>>

DestructorUnmounts ==
    /\ phase = "unmount" /\ todo # {}
    /\ LET s == CHOOSE d \in todo : TRUE IN
       \E o \in UnmountOutcomes :
        /\ UnmountSegment(s, o)
        /\ leftover' = IF o = "ok" THEN leftover ELSE leftover \union {s}
        /\ todo' = todo \ {s}
    /\ UNCHANGED <<cluster, client_ok, desc, rpc_meta, leader, beat, mounting,
                   pending, graceful, timer, memory, records, call, phase,
                   unmounted, gave_up>>

\* Deferred segments are unregistered, the callbacks run, all records go.
DestructorEnds ==
    /\ phase = "unmount" /\ todo = {}
    /\ te' = te \ graceful
    /\ mounted' = {} /\ graceful' = {}
    /\ ReleaseAllSegmentRecords
    /\ phase' = "done"
    /\ UNCHANGED <<cluster, known, leader, beat, mounting, pending, timer, call,
                   todo, faults, history>>

-----------------------------------------------------------------------------

mountSegment == MountBegin("file")
allocateAndMountSegment == MountBegin("heap")
unmountSegment == \E s \in Segment : UnmountNow("file", s) \/ UnmountGraceful("file", s)
unmountAndFreeSegment ==
    \E s \in Segment : UnmountNow("heap", s) \/ UnmountGraceful("heap", s)

ClientStep ==
    \/ MonitorWait \/ MonitorSwitch
    \/ PingOk \/ PingFails \/ ReadCurrentView \/ ReconnectHa \/ Reconnect
    \/ RemountBegin \/ RemountEnd
    \/ MountNext \/ MountReturn \/ RollBack \/ MountFails
    \/ \E s \in Segment : TimerQuery(s) \/ TimerCleanup(s)
    \/ StopThreads \/ DestructorUnmounts \/ DestructorEnds

AppStep ==
    \/ mountSegment \/ allocateAndMountSegment
    \/ unmountSegment \/ unmountAndFreeSegment
    \/ TearDownAll

ClusterStep ==
    /\ phase # "done"
    /\ \/ LeaderDies \/ Elect \/ MasterExpires
       \/ \E s \in Segment : GraceEnds(s)

Next == ClientStep \/ AppStep \/ ClusterStep

Spec == Init /\ [][Next]_vars

\* The client's threads keep running; a leader is elected; grace periods end.
FairSpec ==
    /\ Spec
    /\ WF_vars(MonitorWait) /\ WF_vars(MonitorSwitch)
    /\ WF_vars(PingOk \/ PingFails)
    /\ WF_vars(ReadCurrentView \/ ReconnectHa \/ Reconnect)
    /\ WF_vars(RemountBegin \/ RemountEnd)
    /\ WF_vars(MountNext \/ MountReturn \/ RollBack \/ MountFails)
    /\ \A s \in Segment : WF_vars(TimerQuery(s) \/ TimerCleanup(s))
    /\ WF_vars(StopThreads \/ DestructorUnmounts \/ DestructorEnds)
    /\ WF_vars(Elect /\ phase # "done")
    /\ \A s \in Segment : WF_vars(GraceEnds(s) /\ phase # "done")

-----------------------------------------------------------------------------

\* Types of all variables.
TypeOK ==
    /\ ha \in BOOLEAN /\ up \in BOOLEAN
    /\ epoch \in 1..MaxEpoch /\ coord \in 0..MaxEpoch
    /\ master \in [Segment -> {"none", "ok", "graceful"}]
    /\ {client_ok, desc, rpc_meta, last_ping_success, desc_pending, rpc_meta_pending}
         \subseteq BOOLEAN
    /\ view \in 0..MaxEpoch /\ conn \in 1..MaxEpoch /\ mon \in 0..MaxEpoch
    /\ ping_fail_count \in 0..MaxPingFail
    /\ hb \in OFF..MaxEpoch
    /\ remount \in {"none", "started", "locked", "ready"}
    /\ {snapshot, mounted, graceful, te, memory, todo, unmounted, leftover, gave_up}
         \subseteq SUBSET Segment
    /\ records \in [DOMAIN Requests -> SUBSET memory]
    /\ timer \in [Segment -> NONE..CONFIRMED]
    /\ mounted \cap graceful = {}
    /\ call.api \in DOMAIN Requests \union {"none"} /\ call.done \subseteq memory
    /\ phase \in {"run", "join", "unmount", "done"}
    /\ faults \in 0..MaxFaults

\* SwitchLeader, called by the monitor and by the heartbeat with views read
\* earlier, never takes the client back to an older view.
ViewNeverGoesBack == [][view' >= view]_vars

\* A segment whose unmount was reported as successful is never known to the
\* leader again, although remounts run in a thread of their own (the comment in
\* StorageHeartbeatThreadMain on the lock "held until the remount rpc is finished").
UnmountedStaysUnmounted ==
    \A s \in unmounted : master[s] = "none"

\* When memory of a segment is freed, the engine no longer has it registered and
\* the master does not place objects in it, unless a call has failed half-way;
\* a client that leaves may leave deferred unmounts to the master's timer.
FreedMemoryIsUnmounted ==
    \A s \in Segment \ (memory \union leftover) :
        /\ s \notin te
        /\ master[s] # "ok"
        /\ phase # "done" => master[s] = "none"

\* Once failures cease, a running client is connected to the leader, the leader
\* knows its segments, and its entries are at the metadata server.
Converged ==
    /\ conn = epoch /\ client_ok
    /\ \A s \in mounted \ leftover : master[s] = "ok"
    /\ desc /\ rpc_meta
Converges == <>[](phase # "run" \/ hb = OFF \/ Converged)

\* A deferred unmount ends: its memory is freed, or its timer has asked the
\* master RetryLeft + 1 times without a confirmation.
GracefulReleased ==
    \A s \in Segment : s \in graceful ~> s \notin memory \/ s \in gave_up
====
