---------------------------- MODULE ReplicaTask -----------------------------
(***************************************************************************)
(* Tasks of a client: the master assigns copies and moves of objects, the  *)
(* client polls for them, runs them on its thread pool, and reports them.  *)
(* A task moves its data with the RDMA transport, whose registrations and  *)
(* devices change meanwhile.                                               *)
(***************************************************************************)
EXTENDS RdmaTransport

CONSTANTS
    Task,           \* = Request: a task has at most one transfer at a time
    Object,         \* places in local memory a task may copy or move
    MaxTargets,     \* bound on the targets of a copy; a move has one
    Workers,        \* threads of task_thread_pool_
    MaxRetry        \* max_retry_attempts

\* Every task is a user of the transport; sizes and counts are unsigned.
ASSUME TaskAssumption ==
    /\ Task = Request
    /\ Object \subseteq [source : Nat, size : Nat]
    /\ MaxTargets \in Nat /\ MaxRetry \in Nat

VARIABLES
    object,         \* per task: the place of its source
    pc,             \* per task: where it is
    retry_count,
    result,         \* per task: the ErrorCode so far
    queue,          \* of task_thread_pool_
    target,         \* per task: targets that are left
    replica,        \* per task: its new replicas at the master
    written,        \* per task: per target, the bytes written
    rpc_failed      \* history: an RPC about the task's replicas has failed

taskVars == <<object, pc, retry_count, result, queue, target, replica, written, rpc_failed>>
vars == <<rdmaVars, taskVars>>

Init ==
    /\ RdmaInit
    /\ object \in [Task -> Object]
    /\ pc = [t \in Task |-> "assigned"]
    /\ retry_count = [t \in Task |-> 0]
    /\ result = [t \in Task |-> "OK"]
    /\ queue = <<>>
    /\ target = [t \in Task |-> 0]
    /\ replica = [t \in Task |-> "none"]
    /\ written = [t \in Task |-> <<>>]
    /\ rpc_failed = {}

Running == {t \in Task : pc[t] \notin {"assigned", "queued", "done"}}

Goto(t, l) == pc' = [pc EXCEPT ![t] = l]
Fault == MayFault /\ faults' = faults + 1

\* FetchTasks and SubmitTask.
PollAndDispatchTasks(t) ==
    /\ pc[t] = "assigned"
    /\ Goto(t, "queued")
    /\ queue' = Append(queue, t)
    /\ UNCHANGED <<rdmaVars, object, retry_count, result, target, replica,
                   written, rpc_failed>>

\* A worker takes the first job.
Work ==
    /\ queue # <<>> /\ Cardinality(Running) < Workers
    /\ Goto(Head(queue), "start")
    /\ queue' = Tail(queue)
    /\ UNCHANGED <<rdmaVars, object, retry_count, result, target, replica,
                   written, rpc_failed>>

(***************************************************************************)
(* Copy, Move and ExecuteReplicaTransfer                                   *)
(***************************************************************************)

\* CopyStart or MoveStart is refused: no space, or another error (the payload
\* and the type of a task may also be refused before it is called).
StartRefused(t) ==
    /\ pc[t] = "start"
    /\ \E e \in {"NO_AVAILABLE_HANDLE", "OTHER"} : result' = [result EXCEPT ![t] = e]
    /\ Fault
    /\ Goto(t, "report")
    /\ UNCHANGED <<regs, active, job, object, retry_count, queue, target,
                   replica, written, rpc_failed>>

\* It is done and its answer is lost.
StartLost(t) ==
    /\ pc[t] = "start"
    /\ Fault
    /\ replica' = [replica EXCEPT ![t] = "processing"]
    /\ rpc_failed' = rpc_failed \union {t}
    /\ result' = [result EXCEPT ![t] = "OTHER"]
    /\ Goto(t, "report")
    /\ UNCHANGED <<regs, active, job, object, retry_count, queue, target, written>>

\* It answers with the targets to write; with none, the replicas exist already.
StartOk(t) ==
    /\ pc[t] = "start"
    /\ \E n \in 0..MaxTargets :
        /\ target' = [target EXCEPT ![t] = n]
        /\ written' = [written EXCEPT ![t] = [i \in 1..n |-> {}]]
        /\ Goto(t, IF n = 0 THEN "skip" ELSE "source")
    /\ replica' = [replica EXCEPT ![t] = "processing"]
    /\ result' = [result EXCEPT ![t] = "OK"]
    /\ UNCHANGED <<rdmaVars, object, retry_count, queue, rpc_failed>>

\* The source is a memory replica in local memory, or the operation is revoked.
CheckSource(t) ==
    /\ pc[t] = "source"
    /\ \/ Goto(t, "write") /\ UNCHANGED <<result, faults>>
       \/ Fault /\ Goto(t, "revoke") /\ result' = [result EXCEPT ![t] = "OTHER"]
    /\ UNCHANGED <<regs, active, job, object, retry_count, queue, target,
                   replica, written, rpc_failed>>

\* TransferWrite to the next target: submit, then wait.
TransferWrite(t) ==
    /\ pc[t] = "write" /\ target[t] # 0
    /\ submitTransferTask(t, object[t].source, object[t].size)
    /\ IF job'[t].error
       THEN Goto(t, "revoke") /\ result' = [result EXCEPT ![t] = "OTHER"]
       ELSE Goto(t, "wait") /\ UNCHANGED result
    /\ UNCHANGED <<object, retry_count, queue, target, replica, written,
                   rpc_failed>>

Wait(t) ==
    /\ pc[t] = "wait"
    /\ \/ /\ getTransferStatus(t) = "COMPLETED"
          /\ target' = [target EXCEPT ![t] = @ - 1]
          /\ Goto(t, "write")
          /\ UNCHANGED result
       \/ /\ getTransferStatus(t) = "FAILED"
          /\ result' = [result EXCEPT ![t] = "OTHER"]
          /\ Goto(t, "revoke")
          /\ UNCHANGED target
    /\ UNCHANGED <<rdmaVars, object, retry_count, queue, replica, written,
                   rpc_failed>>

SliceEnds(t) ==
    \E s \in job[t].slices :
        \/ /\ SliceOk(t, s)
           /\ written' = IF target[t] = 0 THEN written
                         ELSE [written EXCEPT ![t][target[t]] =
                                @ \union s.offset .. (s.offset + s.length - 1)]
           /\ UNCHANGED <<object, pc, retry_count, result, queue, target,
                          replica, rpc_failed>>
        \/ SliceFails(t, s) /\ UNCHANGED taskVars

\* CopyEnd or MoveEnd; ends the replicas, fails, or its answer is lost.
End(t) ==
    /\ \/ pc[t] = "write" /\ target[t] = 0
       \/ pc[t] = "skip"
    /\ \/ /\ replica' = [replica EXCEPT ![t] = "ended"]
          /\ Goto(t, "report")
          /\ UNCHANGED <<result, faults, rpc_failed>>
       \/ /\ Fault
          /\ replica' \in {replica, [replica EXCEPT ![t] = "ended"]}
          /\ rpc_failed' = rpc_failed \union {t}
          /\ result' = [result EXCEPT ![t] = "OTHER"]
          /\ Goto(t, IF pc[t] = "skip" THEN "report" ELSE "revoke")
    /\ UNCHANGED <<regs, active, job, object, retry_count, queue, target, written>>

\* CopyRevoke or MoveRevoke; replicas that have ended stay.
Revoke(t) ==
    /\ pc[t] = "revoke"
    /\ \/ /\ replica' = [replica EXCEPT ![t] = IF @ = "ended" THEN @ ELSE "revoked"]
          /\ UNCHANGED <<faults, rpc_failed>>
       \/ /\ Fault
          /\ rpc_failed' = rpc_failed \union {t}
          /\ UNCHANGED replica
    /\ Goto(t, "report")
    /\ UNCHANGED <<regs, active, job, object, retry_count, result, queue,
                   target, written>>

(***************************************************************************)
(* ExecuteTask                                                             *)
(***************************************************************************)

ShouldRetry(t) ==
    result[t] = "NO_AVAILABLE_HANDLE" /\ retry_count[t] < MaxRetry

Retry(t) ==
    /\ pc[t] = "report" /\ ShouldRetry(t)
    /\ retry_count' = [retry_count EXCEPT ![t] = @ + 1]
    /\ queue' = Append(queue, t)
    /\ Goto(t, "queued")
    /\ UNCHANGED <<rdmaVars, object, result, target, replica, written, rpc_failed>>

\* MarkTaskToComplete; its failure is only logged.
MarkTaskToComplete(t) ==
    /\ pc[t] = "report" /\ ~ShouldRetry(t)
    /\ Goto(t, "done")
    /\ UNCHANGED <<rdmaVars, object, retry_count, result, queue, target,
                   replica, written, rpc_failed>>

TaskStep(t) ==
    \/ StartRefused(t) \/ StartLost(t) \/ StartOk(t) \/ CheckSource(t)
    \/ TransferWrite(t) \/ Wait(t) \/ End(t) \/ Revoke(t)
    \/ Retry(t) \/ MarkTaskToComplete(t)

Next ==
    \/ \E t \in Task : PollAndDispatchTasks(t) \/ TaskStep(t) \/ SliceEnds(t)
    \/ Work
    \/ RegistrationStep /\ UNCHANGED taskVars

\* Workers keep running, every posted slice ends, RPCs are answered or time out.
Spec ==
    /\ Init /\ [][Next]_vars
    /\ WF_vars(Work)
    /\ \A t \in Task : WF_vars(TaskStep(t)) /\ WF_vars(SliceEnds(t))

-----------------------------------------------------------------------------

\* Types of all variables.
TypeOK ==
    /\ RdmaTypeOK
    /\ \A t \in Task : retry_count[t] <= MaxRetry
    /\ target \in [Task -> 0..MaxTargets]
    /\ replica \in [Task -> {"none", "processing", "ended", "revoked"}]
    /\ \A t \in Task : \A i \in DOMAIN written[t] : written[t][i] \subseteq 0..(object[t].size - 1)

\* Replicas that a task has ended at the master hold every byte of the object:
\* the slices cover the request, a request is COMPLETED only when all of them
\* have succeeded, and ExecuteReplicaTransfer ends only after every target.
EndedIsWritten ==
    \A t \in Task : replica[t] = "ended" =>
        \A i \in DOMAIN written[t] : written[t][i] = 0..(object[t].size - 1)

\* A task that a worker has been given is reported in the end, with its new
\* replicas ended or revoked unless an RPC about them has failed.
TasksSettle ==
    \A t \in Task :
        pc[t] = "queued" ~>
            pc[t] = "done" /\ (replica[t] # "processing" \/ t \in rpc_failed)
====
