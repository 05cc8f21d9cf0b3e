------------------------------ MODULE Delivery ------------------------------
(***************************************************************************)
(* The delivery pipeline: the transaction that creates a notification and  *)
(* its job (src/services/notifications.service.ts), the websocket and the  *)
(* email worker (src/workers/*.worker.ts), their failure handler           *)
(* (src/workers/failure-handler.ts), the dead-letter queue                 *)
(* (src/queue/deadletter.ts), the admin endpoint that re-drives it         *)
(* (src/routes/admin.ts) and the cleanup of demo users                     *)
(* (src/workers/cleanup.worker.ts).                                        *)
(*                                                                         *)
(* Every `await` of the code ends an atomic step: a worker run, a failure  *)
(* handler and an admin request are each at one of their awaits, and any   *)
(* other actor may move while they wait.                                   *)
(***************************************************************************)
EXTENDS JobQueue

CONSTANTS
    Users,       \* the recipients
    DemoUsers,   \* the recipients whose email starts with "demo+"
    Owner,       \* notification -> its userId
    Asked,       \* bound: the kinds of request made, out of Kinds
    Admins,      \* concurrent requests to POST /admin/queue/dlq/:jobId/retry
    Faults       \* the failures that may happen, out of FaultKinds

(***************************************************************************)
(* A request names a channel and a payload.  "malformed" is an email whose *)
(* payload fails emailPayloadSchema, which the route does not check.       *)
(***************************************************************************)
Kinds == {"websocket", "email", "malformed"}

FaultKinds == {"crash", "stall", "db", "redis", "smtp"}

ASSUME DeliveryAssumption ==
    /\ DemoUsers \subseteq Users
    /\ Owner \in [Notes -> Users]
    /\ Asked \subseteq Kinds
    /\ Faults \subseteq FaultKinds
    /\ None \notin Admins

VARIABLES
    users,        \* the rows of table User
    row,          \* notification -> the status of its committed row
    rowAttempts,  \* notification -> column `attempts` (lastError is set with it)
    kind,         \* notification -> channel asked for, and a payload that fits it
    request,      \* notification -> how far the transaction creating it is
    online,       \* the users with a socket in their room, on any replica
    pc,           \* worker -> the await its run of handleJob is at
    on,           \* worker -> the job it runs
    handlers,     \* the 'failed' listeners that have not finished
    dlq,          \* the dead-letter queue: entries named by originalJobId
    adminPc,      \* admin request -> the await it is at
    adminEntry,   \* admin request -> the dead-letter entry it re-drives
    sends,        \* history: emits and accepted mails per notification, up to 2
    wasSent       \* history: notifications whose row has been SENT

workerVars  == <<pc, on>>
adminVars   == <<adminPc, adminEntry>>
tableVars   == <<users, row, rowAttempts>>
historyVars == <<sends, wasSent>>
vars == <<queueVars, tableVars, kind, request, online, workerVars,
          handlers, dlq, adminVars, historyVars>>

-----------------------------------------------------------------------------
queueForChannel(n) == IF kind[n] = "websocket" THEN "websocket" ELSE "email"

Statuses == {"absent", "QUEUED", "SENT", "DEAD_LETTER"}

RequestStates == {"new", "inserted", "enqueued", "committed", "rolledBack"}

WorkerStates ==
    {"idle", "find", "presence", "emit", "user", "send", "mark", "done"}

AdminStates == {"idle", "fetched", "enqueued", "reset"}

HandlerStages == {"progress", "markDeadLetter", "moveToDLQ"}

Handlers == [job : Jobs, made : 1 .. Attempts, stage : HandlerStages,
             process : Workers]

DeliveryTypeOK ==
    /\ users \subseteq Users
    /\ row \in [Notes -> Statuses]
    /\ rowAttempts \in [Notes -> 0 .. Attempts]
    /\ kind \in [Notes -> Kinds]
    /\ request \in [Notes -> RequestStates]
    /\ online \subseteq Users
    /\ pc \in [Workers -> WorkerStates]
    /\ on \in [Workers -> Jobs \cup {None}]
    /\ handlers \subseteq Handlers
    /\ dlq \subseteq Jobs
    /\ adminPc \in [Admins -> AdminStates]
    /\ adminEntry \in [Admins -> Jobs \cup {None}]
    /\ sends \in [Notes -> 0 .. 2]
    /\ wasSent \subseteq Notes

TypeOK == QueueTypeOK /\ DeliveryTypeOK

Init ==
    /\ QueueInit
    /\ users = Users
    /\ row = [n \in Notes |-> "absent"]
    /\ rowAttempts = [n \in Notes |-> 0]
    /\ kind \in [Notes -> Asked]
    /\ request = [n \in Notes |-> "new"]
    /\ online \in SUBSET Users
    /\ pc = [w \in Workers |-> "idle"]
    /\ on = [w \in Workers |-> None]
    /\ handlers = {}
    /\ dlq = {}
    /\ adminPc = [a \in Admins |-> "idle"]
    /\ adminEntry = [a \in Admins |-> None]
    /\ sends = [n \in Notes |-> 0]
    /\ wasSent = {}

-----------------------------------------------------------------------------
(***************************************************************************)
(* createNotification's transaction.  The row it inserts (PENDING) is      *)
(* invisible to everybody else until the commit, which publishes it as     *)
(* QUEUED; the job is visible as soon as it is added.                      *)
(***************************************************************************)
InsertRow(n) ==
    /\ request[n] = "new"
    /\ Owner[n] \in users      \* else P2003 and nothing is written
    /\ request' = [request EXCEPT ![n] = "inserted"]
    /\ UNCHANGED <<queueVars, tableVars, kind, online, workerVars, handlers,
                   dlq, adminVars, historyVars>>

EnqueueJob(n) ==
    /\ request[n] = "inserted"
    /\ enqueueNotification(n)
    /\ \/ request' = [request EXCEPT ![n] = "enqueued"]
       \* the job is added and the reply is lost: the insert is rolled back
       \/ /\ "redis" \in Faults
          /\ request' = [request EXCEPT ![n] = "rolledBack"]
    /\ UNCHANGED <<tableVars, kind, online, workerVars, handlers, dlq,
                   adminVars, historyVars>>

Commit(n) ==
    /\ request[n] = "enqueued"
    /\ request' = [request EXCEPT ![n] = "committed"]
    /\ row' = [row EXCEPT ![n] = "QUEUED"]
    /\ UNCHANGED <<queueVars, users, rowAttempts, kind, online, workerVars,
                   handlers, dlq, adminVars, historyVars>>

(***************************************************************************)
(* A failed enqueue, a failed update, the transaction timeout or the end   *)
(* of the process.                                                         *)
(***************************************************************************)
Rollback(n) ==
    /\ request[n] \in {"inserted", "enqueued"}
    /\ request' = [request EXCEPT ![n] = "rolledBack"]
    /\ UNCHANGED <<queueVars, tableVars, kind, online, workerVars, handlers,
                   dlq, adminVars, historyVars>>

-----------------------------------------------------------------------------
(***************************************************************************)
(* Runs of handleJob.                                                      *)
(***************************************************************************)
NoteOf(w) == jobNote[on[w]]

HoldsLock(w) == lock[on[w]] = w

(***************************************************************************)
(* The two checks both handlers make on the row findUnique returned.       *)
(***************************************************************************)
unchecked(n) == FALSE  \* mutant: the check is missing

rowMissing(n) == row[n] = "absent"

alreadySent(n) == row[n] = "SENT"

(***************************************************************************)
(* The failure handler's own idea of a final failure, computed from the    *)
(* job and not from the state BullMQ put it in.                            *)
(***************************************************************************)
finalOneEarly(made, unrecoverable) == unrecoverable \/ made + 1 >= Attempts  \* mutant

isFinalAttempt(made, unrecoverable) == unrecoverable \/ made >= Attempts

(***************************************************************************)
(* Job j fails under worker w: BullMQ moves it and then emits 'failed',    *)
(* whose listener nobody awaits.                                           *)
(***************************************************************************)
FailJob(w, j, unrecoverable) ==
    LET made == attemptsMade[j] + 1 IN
    /\ MoveToFailed(j, unrecoverable)
    /\ handlers' = handlers \cup
         {[job |-> j, made |-> made, process |-> w,
           stage |-> IF isFinalAttempt(made, unrecoverable)
                     THEN "markDeadLetter" ELSE "progress"]}

EndRun(w) ==
    /\ pc' = [pc EXCEPT ![w] = "idle"]
    /\ on' = [on EXCEPT ![w] = None]

(***************************************************************************)
(* The run throws.  Without the lock BullMQ reports an 'error' and leaves  *)
(* the job to the worker that has it now.                                  *)
(***************************************************************************)
Throw(w, unrecoverable) ==
    /\ EndRun(w)
    /\ IF HoldsLock(w)
       THEN FailJob(w, on[w], unrecoverable)
       ELSE UNCHANGED <<queueVars, handlers>>

Advance(w, next) ==
    /\ pc' = [pc EXCEPT ![w] = next]
    /\ UNCHANGED <<on, queueVars, handlers>>

TakeJob(w, j) ==
    /\ pc[w] = "idle"
    /\ ~StalledOut(j)
    /\ TakeLock(w, j)
    /\ pc' = [pc EXCEPT ![w] = "find"]
    /\ on' = [on EXCEPT ![w] = j]
    /\ UNCHANGED <<tableVars, kind, request, online, handlers, dlq,
                   adminVars, historyVars>>

FailStalledJob(w, j) ==
    /\ pc[w] = "idle"
    /\ StalledOut(j)
    /\ jobState[j] = "waiting"
    /\ FailJob(w, j, TRUE)
    /\ UNCHANGED <<tableVars, kind, request, online, workerVars, dlq,
                   adminVars, historyVars>>

(***************************************************************************)
(* findUnique, and what both handlers do with its answer before their next *)
(* await.                                                                  *)
(***************************************************************************)
FindNotification(w) ==
    /\ pc[w] = "find"
    /\ \/ rowMissing(NoteOf(w)) /\ Throw(w, FALSE)
       \/ alreadySent(NoteOf(w)) /\ Advance(w, "done")
       \/ /\ ~rowMissing(NoteOf(w)) /\ ~alreadySent(NoteOf(w))
          /\ \/ queueForChannel(NoteOf(w)) = "websocket" /\ Advance(w, "presence")
             \/ kind[NoteOf(w)] = "email" /\ Advance(w, "user")
             \/ kind[NoteOf(w)] = "malformed" /\ Throw(w, TRUE)
    /\ UNCHANGED <<tableVars, kind, request, online, dlq, adminVars,
                   historyVars>>

(***************************************************************************)
(* fetchSockets over every replica: nobody in the room is RECIPIENT_OFFLINE.*)
(***************************************************************************)
markBeforeEmit(w) ==  \* mutant: SENT first, emit never
    /\ pc[w] = "presence"
    /\ IF Owner[NoteOf(w)] \in online THEN Advance(w, "mark") ELSE Throw(w, FALSE)
    /\ UNCHANGED <<tableVars, kind, request, online, dlq, adminVars,
                   historyVars>>

FetchSockets(w) ==
    /\ pc[w] = "presence"
    /\ IF Owner[NoteOf(w)] \in online THEN Advance(w, "emit") ELSE Throw(w, FALSE)
    /\ UNCHANGED <<tableVars, kind, request, online, dlq, adminVars,
                   historyVars>>

CountSend(n) == sends' = [sends EXCEPT ![n] = IF @ = 2 THEN 2 ELSE @ + 1]

(***************************************************************************)
(* emit goes to whoever is in the room by now, and returns nothing.        *)
(***************************************************************************)
EmitNotification(w) ==
    /\ pc[w] = "emit"
    /\ CountSend(NoteOf(w))
    /\ Advance(w, "mark")
    /\ UNCHANGED <<tableVars, kind, request, online, dlq, adminVars,
                   wasSent>>

FindUser(w) ==
    /\ pc[w] = "user"
    /\ IF Owner[NoteOf(w)] \in users THEN Advance(w, "send") ELSE Throw(w, TRUE)
    /\ UNCHANGED <<tableVars, kind, request, online, dlq, adminVars,
                   historyVars>>

SendMail(w) ==
    /\ pc[w] = "send"
    /\ CountSend(NoteOf(w))
    /\ \/ Advance(w, "mark")
       \* the server took the mail and the answer was lost
       \/ "smtp" \in Faults /\ Throw(w, FALSE)
    /\ UNCHANGED <<tableVars, kind, request, online, dlq, adminVars,
                   wasSent>>

(***************************************************************************)
(* The update to SENT; on a row deleted meanwhile it throws (P2025).       *)
(***************************************************************************)
MarkSent(w) ==
    /\ pc[w] = "mark"
    /\ IF row[NoteOf(w)] = "absent"
       THEN Throw(w, FALSE) /\ UNCHANGED <<row, wasSent>>
       ELSE /\ row' = [row EXCEPT ![NoteOf(w)] = "SENT"]
            /\ wasSent' = wasSent \cup {NoteOf(w)}
            /\ \/ Advance(w, "done")
               \* the update is committed and its reply is lost
               \/ "db" \in Faults /\ Throw(w, FALSE)
    /\ UNCHANGED <<users, rowAttempts, kind, request, online, dlq, adminVars,
                   sends>>

CompleteRun(w) ==
    /\ pc[w] = "done"
    /\ EndRun(w)
    /\ IF HoldsLock(w) THEN MoveToCompleted(on[w]) ELSE UNCHANGED queueVars
    /\ UNCHANGED <<tableVars, kind, request, online, handlers, dlq,
                   adminVars, historyVars>>

(***************************************************************************)
(* The awaited call fails and has had no effect: a query of Postgres, the  *)
(* presence query over Redis, the SMTP conversation.                       *)
(***************************************************************************)
CallFails(w) ==
    /\ \/ pc[w] \in {"find", "user", "mark"} /\ "db" \in Faults
       \/ pc[w] = "presence" /\ "redis" \in Faults
       \/ pc[w] = "send" /\ "smtp" \in Faults
    /\ Throw(w, FALSE)
    /\ UNCHANGED <<tableVars, kind, request, online, dlq, adminVars,
                   historyVars>>

HandleJob(w) ==
    \/ FindNotification(w)
    \/ FetchSockets(w)
    \/ EmitNotification(w)
    \/ FindUser(w)
    \/ SendMail(w)
    \/ MarkSent(w)
    \/ CompleteRun(w)

-----------------------------------------------------------------------------
(***************************************************************************)
(* The failure handler.  Its database and queue errors are caught and      *)
(* logged: the step is skipped and the handler goes on.                    *)
(***************************************************************************)
RecordProgress(h) ==
    /\ h \in handlers
    /\ h.stage = "progress"
    /\ LET n == jobNote[h.job] IN
       \/ /\ row[n] # "absent"
          /\ rowAttempts' = [rowAttempts EXCEPT ![n] = h.made]
       \/ /\ row[n] = "absent" \/ "db" \in Faults
          /\ UNCHANGED rowAttempts
    /\ handlers' = handlers \ {h}
    /\ UNCHANGED <<queueVars, users, row, kind, request, online, workerVars,
                   dlq, adminVars, historyVars>>

markDeadLetterOnly(h) ==  \* mutant: the entry is never written
    /\ h \in handlers
    /\ h.stage = "markDeadLetter"
    /\ LET n == jobNote[h.job] IN
       row' = [row EXCEPT ![n] = IF @ = "absent" THEN @ ELSE "DEAD_LETTER"]
    /\ handlers' = handlers \ {h}
    /\ UNCHANGED <<queueVars, users, rowAttempts, kind, request, online,
                   workerVars, dlq, adminVars, historyVars>>

markDeadLetter(h) ==
    /\ h \in handlers
    /\ h.stage = "markDeadLetter"
    /\ LET n == jobNote[h.job] IN
       \/ /\ row[n] # "absent"
          /\ row' = [row EXCEPT ![n] = "DEAD_LETTER"]
          /\ rowAttempts' = [rowAttempts EXCEPT ![n] = h.made]
       \/ /\ row[n] = "absent" \/ "db" \in Faults
          /\ UNCHANGED <<row, rowAttempts>>
    /\ handlers' = (handlers \ {h}) \cup {[h EXCEPT !.stage = "moveToDLQ"]}
    /\ UNCHANGED <<queueVars, users, kind, request, online, workerVars,
                   dlq, adminVars, historyVars>>

moveToDLQ(h) ==
    /\ h \in handlers
    /\ h.stage = "moveToDLQ"
    /\ \/ dlq' = dlq \cup {h.job}
       \/ "redis" \in Faults /\ UNCHANGED dlq
    /\ handlers' = handlers \ {h}
    /\ UNCHANGED <<queueVars, tableVars, kind, request, online, workerVars,
                   adminVars, historyVars>>

Handle(h) == RecordProgress(h) \/ markDeadLetter(h) \/ moveToDLQ(h)

-----------------------------------------------------------------------------
(***************************************************************************)
(* POST /admin/queue/dlq/:jobId/retry.                                     *)
(***************************************************************************)
removeBeforeEnqueue(a) ==  \* mutant: job.remove() comes first
    /\ adminPc[a] = "idle"
    /\ \E d \in dlq : /\ adminEntry' = [adminEntry EXCEPT ![a] = d]
                     /\ dlq' = dlq \ {d}
    /\ adminPc' = [adminPc EXCEPT ![a] = "fetched"]
    /\ UNCHANGED <<queueVars, tableVars, kind, request, online, workerVars,
                   handlers, historyVars>>

AdminFetch(a) ==
    /\ adminPc[a] = "idle"
    /\ \E d \in dlq : adminEntry' = [adminEntry EXCEPT ![a] = d]
    /\ adminPc' = [adminPc EXCEPT ![a] = "fetched"]
    /\ UNCHANGED <<queueVars, tableVars, kind, request, online, workerVars,
                   handlers, dlq, historyVars>>

AdminEnqueue(a) ==
    /\ adminPc[a] = "fetched"
    /\ LET n == jobNote[adminEntry[a]] IN
       /\ enqueueNotification(n)
       /\ adminPc' = [adminPc EXCEPT ![a] = "enqueued"]
    /\ UNCHANGED <<tableVars, kind, request, online, workerVars, handlers,
                   dlq, adminEntry, historyVars>>

(***************************************************************************)
(* updateMany: no row is fine, and an error is swallowed.                  *)
(***************************************************************************)
AdminReset(a) ==
    /\ adminPc[a] = "enqueued"
    /\ LET n == jobNote[adminEntry[a]] IN
       \/ /\ row[n] # "absent"
          /\ row' = [row EXCEPT ![n] = "QUEUED"]
          /\ rowAttempts' = [rowAttempts EXCEPT ![n] = 0]
       \/ /\ row[n] = "absent" \/ "db" \in Faults
          /\ UNCHANGED <<row, rowAttempts>>
    /\ adminPc' = [adminPc EXCEPT ![a] = "reset"]
    /\ UNCHANGED <<queueVars, users, kind, request, online, workerVars,
                   handlers, dlq, adminEntry, historyVars>>

AdminRemove(a) ==
    /\ adminPc[a] = "reset"
    /\ dlq' = dlq \ {adminEntry[a]}
    /\ adminPc' = [adminPc EXCEPT ![a] = "idle"]
    /\ adminEntry' = [adminEntry EXCEPT ![a] = None]
    /\ UNCHANGED <<queueVars, tableVars, kind, request, online, workerVars,
                   handlers, historyVars>>

(***************************************************************************)
(* A Redis error answers 500, also one that lost the reply of a command    *)
(* that was carried out; the end of the process answers nothing.           *)
(***************************************************************************)
AdminAbort(a) ==
    /\ adminPc[a] # "idle"
    /\ {"redis", "crash"} \cap Faults # {}
    /\ adminPc' = [adminPc EXCEPT ![a] = "idle"]
    /\ adminEntry' = [adminEntry EXCEPT ![a] = None]
    /\ UNCHANGED <<queueVars, tableVars, kind, request, online, workerVars,
                   handlers, dlq, historyVars>>

AdminStep(a) ==
    \/ AdminFetch(a)
    \/ AdminEnqueue(a)
    \/ AdminReset(a)
    \/ AdminRemove(a)

-----------------------------------------------------------------------------
(***************************************************************************)
(* runCleanup deletes a demo user past its TTL and, by the foreign key,    *)
(* its notifications.  An open insert locks the user's row, so the delete  *)
(* waits for that transaction.                                             *)
(***************************************************************************)
runCleanup(u) ==
    /\ u \in users \cap DemoUsers
    /\ \A n \in Notes : Owner[n] = u => request[n] \notin {"inserted", "enqueued"}
    /\ users' = users \ {u}
    /\ row' = [n \in Notes |-> IF Owner[n] = u THEN "absent" ELSE row[n]]
    /\ rowAttempts' = [n \in Notes |-> IF Owner[n] = u THEN 0 ELSE rowAttempts[n]]
    /\ UNCHANGED <<queueVars, kind, request, online, workerVars, handlers,
                   dlq, adminVars, historyVars>>

(***************************************************************************)
(* The first socket of a user joins its room; the last one leaves it.      *)
(***************************************************************************)
Connect(u) ==
    /\ u \notin online
    /\ online' = online \cup {u}
    /\ UNCHANGED <<queueVars, tableVars, kind, request, workerVars, handlers,
                   dlq, adminVars, historyVars>>

Disconnect(u) ==
    /\ u \in online
    /\ online' = online \ {u}
    /\ UNCHANGED <<queueVars, tableVars, kind, request, workerVars, handlers,
                   dlq, adminVars, historyVars>>

(***************************************************************************)
(* Time.  A transaction is open for 5 s at most (Prisma's default timeout) *)
(* and the retries of a job spread over 1 + 2 + 4 + 8 s, so the last       *)
(* attempt finds the transaction closed.                                   *)
(***************************************************************************)
noBackoff(j) == TRUE  \* mutant: the retries follow at once

BackoffOutlastsTransaction(j) ==
    attemptsMade[j] = Attempts - 1 => request[jobNote[j]] # "enqueued"

Promote(j) ==
    /\ MoveToWaiting(j)
    /\ BackoffOutlastsTransaction(j)
    /\ UNCHANGED <<tableVars, kind, request, online, workerVars, handlers,
                   dlq, adminVars, historyVars>>

(***************************************************************************)
(* The lock of a job expires 30 s after its holder stopped renewing it:    *)
(* because the holder's process is gone or, with "stall", because its      *)
(* event loop or its Redis connection was blocked and the run goes on.     *)
(***************************************************************************)
RunIsGone(j) == lock[j] \in Workers /\ on[lock[j]] # j

RecoverStalled(j) ==
    /\ RunIsGone(j)
    /\ request[jobNote[j]] # "enqueued"
    /\ MoveStalledToWaiting(j)
    /\ UNCHANGED <<tableVars, kind, request, online, workerVars, handlers,
                   dlq, adminVars, historyVars>>

LoseLock(j) ==
    /\ "stall" \in Faults
    /\ MoveStalledToWaiting(j)
    /\ request[jobNote[j]] # "enqueued"
    /\ UNCHANGED <<tableVars, kind, request, online, workerVars, handlers,
                   dlq, adminVars, historyVars>>

(***************************************************************************)
(* A server process dies: its run and its failure handlers are gone, what  *)
(* is in Redis and Postgres stays.                                         *)
(***************************************************************************)
Crash(w) ==
    /\ "crash" \in Faults
    /\ EndRun(w)
    /\ handlers' = {h \in handlers : h.process # w}
    /\ UNCHANGED <<queueVars, tableVars, kind, request, online, dlq,
                   adminVars, historyVars>>

Next ==
    \/ \E n \in Notes :
         InsertRow(n) \/ EnqueueJob(n) \/ Commit(n) \/ Rollback(n)
    \/ \E w \in Workers, j \in Jobs : TakeJob(w, j) \/ FailStalledJob(w, j)
    \/ \E w \in Workers : HandleJob(w) \/ CallFails(w) \/ Crash(w)
    \/ \E h \in handlers : Handle(h)
    \/ \E a \in Admins : AdminStep(a) \/ AdminAbort(a)
    \/ \E u \in Users : runCleanup(u) \/ Connect(u) \/ Disconnect(u)
    \/ \E j \in Jobs : Promote(j) \/ RecoverStalled(j) \/ LoseLock(j)

Spec == Init /\ [][Next]_vars

=============================================================================
