------------------------------ MODULE JobQueue ------------------------------
(***************************************************************************)
(* The BullMQ queues `notifications-websocket` and `notifications-email`   *)
(* of src/queue/notifications.ts, as the code in src/ uses them: a job is  *)
(* added with a retry budget (`attempts`, exponential backoff), one worker *)
(* at a time holds its lock, a thrown error sends it to the delayed set or *)
(* fails it for good, and a job whose lock expired is handed out again by  *)
(* the stalled-job checker.                                                *)
(*                                                                         *)
(* BullMQ is a library and is not under src/; every operator marked        *)
(* external below stands for its behaviour, version 5.76.4 of              *)
(* package-lock.json.  The operators are combined into actions by the      *)
(* modules that EXTEND this one.                                           *)
(***************************************************************************)
EXTENDS Naturals

CONSTANTS
    Notes,       \* the notifications (primary keys of table Notification)
    Workers,     \* the worker slots, one per server process
    None,        \* no worker, no job, no notification
    Attempts,    \* DEFAULT_JOB_OPTS.attempts (5 in the code)
    MaxStalled,  \* BullMQ's maxStalledCount (1 by default)
    MaxJobs      \* bound: the jobs added in one behaviour

ASSUME QueueAssumption ==
    /\ Attempts \in Nat \ {0}
    /\ MaxStalled \in Nat
    /\ MaxJobs \in Nat
    /\ None \notin Notes \cup Workers \cup (1 .. MaxJobs)

VARIABLES
    lastId,        \* the id counter of the queue: ids are 1, 2, 3, ...
    jobNote,       \* job -> the notificationId in its data
    jobState,      \* job -> the BullMQ state it is in
    attemptsMade,  \* job -> how often a run of it has failed
    stalledCount,  \* job -> how often its lock expired under it
    lock           \* job -> the worker holding its lock, or None

queueVars == <<lastId, jobNote, jobState, attemptsMade, stalledCount, lock>>

Jobs == 1 .. MaxJobs

JobStates == {"unused", "waiting", "active", "delayed", "completed", "failed"}

QueueTypeOK ==
    /\ lastId \in 0 .. MaxJobs
    /\ jobNote \in [Jobs -> Notes \cup {None}]
    /\ jobState \in [Jobs -> JobStates]
    /\ attemptsMade \in [Jobs -> 0 .. Attempts]
    /\ stalledCount \in [Jobs -> Nat]
    /\ lock \in [Jobs -> Workers \cup {None}]

QueueInit ==
    /\ lastId = 0
    /\ jobNote = [j \in Jobs |-> None]
    /\ jobState = [j \in Jobs |-> "unused"]
    /\ attemptsMade = [j \in Jobs |-> 0]
    /\ stalledCount = [j \in Jobs |-> 0]
    /\ lock = [j \in Jobs |-> None]

(***************************************************************************)
(* A job some worker will still run, or is running.                        *)
(***************************************************************************)
Live(j) == jobState[j] \in {"waiting", "active", "delayed"}

(***************************************************************************)
(* enqueueNotification: queue.add with the default options.  The id is the *)
(* queue's next id; the retry budget is Attempts for every job.            *)
(***************************************************************************)
enqueueNotification(n) ==
    /\ lastId < MaxJobs
    /\ lastId' = lastId + 1
    /\ jobNote' = [jobNote EXCEPT ![lastId + 1] = n]
    /\ jobState' = [jobState EXCEPT ![lastId + 1] = "waiting"]
    /\ UNCHANGED <<attemptsMade, stalledCount, lock>>

(***************************************************************************)
(* External: a worker takes a waiting job and its lock.                    *)
(***************************************************************************)
TakeLock(w, j) ==
    /\ jobState[j] = "waiting"
    /\ jobState' = [jobState EXCEPT ![j] = "active"]
    /\ lock' = [lock EXCEPT ![j] = w]
    /\ UNCHANGED <<lastId, jobNote, attemptsMade, stalledCount>>

(***************************************************************************)
(* External: the stalled-job checker counted this job out.  The next       *)
(* worker to take it fails it with an UnrecoverableError and never calls   *)
(* the handler.                                                            *)
(***************************************************************************)
StalledOut(j) == stalledCount[j] > MaxStalled

(***************************************************************************)
(* External: the run of a lock holder returned.                            *)
(***************************************************************************)
MoveToCompleted(j) ==
    /\ jobState' = [jobState EXCEPT ![j] = "completed"]
    /\ lock' = [lock EXCEPT ![j] = None]
    /\ UNCHANGED <<lastId, jobNote, attemptsMade, stalledCount>>

(***************************************************************************)
(* External: the run of a lock holder threw.  An UnrecoverableError, or    *)
(* the last attempt, fails the job; any other error delays it.             *)
(***************************************************************************)
retryForever(j, unrecoverable) ==  \* mutant: no retry budget
    /\ attemptsMade' = [attemptsMade EXCEPT ![j] = @ + 1]
    /\ jobState' = [jobState EXCEPT ![j] = IF unrecoverable THEN "failed" ELSE "delayed"]
    /\ lock' = [lock EXCEPT ![j] = None]
    /\ UNCHANGED <<lastId, jobNote, stalledCount>>

MoveToFailed(j, unrecoverable) ==
    /\ attemptsMade' = [attemptsMade EXCEPT ![j] = @ + 1]
    /\ jobState' = [jobState EXCEPT ![j] =
                      IF unrecoverable \/ attemptsMade[j] + 1 >= Attempts
                      THEN "failed" ELSE "delayed"]
    /\ lock' = [lock EXCEPT ![j] = None]
    /\ UNCHANGED <<lastId, jobNote, stalledCount>>

(***************************************************************************)
(* External: the backoff delay of the job has passed.                      *)
(***************************************************************************)
MoveToWaiting(j) ==
    /\ jobState[j] = "delayed"
    /\ jobState' = [jobState EXCEPT ![j] = "waiting"]
    /\ UNCHANGED <<lastId, jobNote, attemptsMade, stalledCount, lock>>

(***************************************************************************)
(* External: the stalled-job checker finds the lock of an active job       *)
(* expired and hands the job out again.                                    *)
(***************************************************************************)
MoveStalledToWaiting(j) ==
    /\ jobState[j] = "active"
    /\ jobState' = [jobState EXCEPT ![j] = "waiting"]
    /\ stalledCount' = [stalledCount EXCEPT ![j] = @ + 1]
    /\ lock' = [lock EXCEPT ![j] = None]
    /\ UNCHANGED <<lastId, jobNote, attemptsMade>>

=============================================================================
