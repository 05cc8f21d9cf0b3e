--------------------------- MODULE LifecycleProofs ---------------------------
(***************************************************************************)
(* The pipeline implements Lifecycle, as much of it as the failures allow: *)
(* all of it if no process dies, Postgres answers, runs keep their locks   *)
(* and no admin re-drives; with misjudged deliveries if processes die and  *)
(* replies are lost; and what DisturbedSpec says, always.  Without lost    *)
(* locks and re-drives nothing is sent once a notification was SENT.       *)
(* Last, the only causes of two hazards: re-drives overwrite a SENT row,   *)
(* and disconnects leave an emit without a receiver.                       *)
(***************************************************************************)
EXTENDS DeliveryProofs

Undisturbed == Admins = {} /\ "stall" \notin Faults

(***************************************************************************)
(* A notification has one job, and a job one run.                          *)
(***************************************************************************)
OneJob ==
    \A i, j \in Jobs : Used(i) /\ Used(j) /\ jobNote[i] = jobNote[j] => i = j

NoJobBefore ==
    \A n \in Notes, j \in Jobs :
      request[n] \in {"new", "inserted"} /\ Used(j) => jobNote[j] # n

LocksHeld == \A w \in Workers : pc[w] # "idle" => lock[on[w]] = w

Exclusive == OneJob /\ NoJobBefore /\ LocksHeld

LEMMA InitExclusive == Init => Exclusive
  BY DEF Init, QueueInit, Exclusive, OneJob, NoJobBefore, LocksHeld, Used

(***************************************************************************)
(* A step that adds no job.                                                *)
(***************************************************************************)
SameJobs == UNCHANGED jobNote /\ \A j \in Jobs : Used(j)' <=> Used(j)

RequestsAdvance ==
    \A n \in Notes :
      request'[n] \in {"new", "inserted"} => request[n] \in {"new", "inserted"}

LEMMA ExclusiveKept ==
    ASSUME Exclusive, SameJobs, RequestsAdvance,
           \A w \in Workers : pc'[w] # "idle" => lock'[on'[w]] = w
    PROVE  Exclusive'
  BY DEF Exclusive, OneJob, NoJobBefore, LocksHeld, SameJobs, RequestsAdvance

LEMMA EnqueueExclusive ==
    ASSUME Structure, Rows, Exclusive, NEW n \in Notes, EnqueueJob(n)
    PROVE  Exclusive'
<1> DEFINE new == lastId + 1
<1>1. /\ request[n] = "inserted" /\ enqueueNotification(n)
      /\ request' \in {[request EXCEPT ![n] = "enqueued"],
                       [request EXCEPT ![n] = "rolledBack"]}
      /\ UNCHANGED <<pc, on, lock>>
  BY DEF EnqueueJob, enqueueNotification, workerVars
<1>2. new \in Jobs /\ ~Used(new)
  BY <1>1, QueueAssumption DEF Structure, StructureTypeOK, QueueTypeOK, JobsOK, Jobs,
     enqueueNotification
<1>3. /\ jobNote'[new] = n
      /\ \A j \in Jobs \ {new} : jobNote'[j] = jobNote[j] /\ (Used(j)' <=> Used(j))
  BY <1>1, <1>2 DEF enqueueNotification, Structure, StructureTypeOK, QueueTypeOK, Used
<1>4. \A j \in Jobs : Used(j) => jobNote[j] # n
  BY <1>1 DEF Exclusive, NoJobBefore
<1>5. OneJob'
  BY <1>3, <1>4 DEF Exclusive, OneJob
<1>6. \A m \in Notes : request'[m] \in {"new", "inserted"} =>
        m # n /\ request[m] \in {"new", "inserted"}
  BY <1>1 DEF Rows, RowsTypeOK
<1>7. NoJobBefore'
  BY <1>3, <1>6 DEF Exclusive, NoJobBefore
<1>8. LocksHeld'
  BY <1>1 DEF Exclusive, LocksHeld
<1> QED BY <1>5, <1>7, <1>8 DEF Exclusive

(***************************************************************************)
(* A job that is waiting is in no run, so taking or failing it takes the   *)
(* lock from nobody.                                                       *)
(***************************************************************************)
LEMMA RunsAreActive ==
    ASSUME Structure, Exclusive, NEW w \in Workers, pc[w] # "idle"
    PROVE  on[w] \in Jobs /\ jobState[on[w]] = "active" /\ HoldsLock(w)
  BY NoneIsNothing DEF Structure, LocksOK, RunsOK, Exclusive, LocksHeld, HoldsLock

LEMMA EndExclusive ==
    ASSUME Structure, Exclusive, NEW w \in Workers, EndRun(w), UNCHANGED request,
           \/ UNCHANGED <<jobNote, jobState, lock>>
           \/ MoveToCompleted(on[w])
           \/ \E u \in BOOLEAN : MoveToFailed(on[w], u),
           pc[w] # "idle" \/ UNCHANGED <<jobNote, jobState, lock>>
    PROVE  Exclusive'
<1>1. \A v \in Workers : pc'[v] # "idle" => v # w /\ pc[v] # "idle" /\ on'[v] = on[v]
  BY DEF EndRun, Structure, StructureTypeOK
<1>2. \A v \in Workers : pc[v] # "idle" => on[v] \in Jobs /\ lock[on[v]] = v
  BY RunsAreActive DEF HoldsLock
<1>3. SameJobs
  BY RunsAreActive DEF MoveToCompleted, MoveToFailed, Structure, StructureTypeOK,
     QueueTypeOK, SameJobs, Used
<1>4. ASSUME NEW v \in Workers, pc'[v] # "idle" PROVE lock'[on'[v]] = v
  <2>1. v # w /\ on'[v] = on[v] /\ on[v] \in Jobs /\ lock[on[v]] = v
    BY <1>1, <1>2, <1>4
  <2>2. pc[w] # "idle" => on[v] # on[w]
    BY <1>2, <2>1
  <2> QED
    BY <2>1, <2>2 DEF MoveToCompleted, MoveToFailed, Structure, StructureTypeOK,
       QueueTypeOK
<1> QED BY <1>3, <1>4, ExclusiveKept DEF RequestsAdvance

LEMMA ThrowExclusive ==
    ASSUME Structure, Exclusive, NEW w \in Workers, pc[w] # "idle",
           NEW u \in BOOLEAN, Throw(w, u), UNCHANGED request
    PROVE  Exclusive'
  BY EndExclusive, RunsAreActive DEF Throw, FailJob

LEMMA AdvanceExclusive ==
    ASSUME Structure, Exclusive, NEW w \in Workers, pc[w] # "idle", NEW next,
           Advance(w, next), UNCHANGED request
    PROVE  Exclusive'
<1>1. \A v \in Workers : pc'[v] # "idle" => pc[v] # "idle" /\ on'[v] = on[v]
  BY DEF Advance, Structure, StructureTypeOK
<1>2. SameJobs /\ UNCHANGED lock
  BY DEF Advance, queueVars, SameJobs, Used
<1> QED BY <1>1, <1>2, ExclusiveKept DEF RequestsAdvance, Exclusive, LocksHeld

(***************************************************************************)
(* The jobs without a run: taken, failed as stalled, promoted, recovered.  *)
(***************************************************************************)
LEMMA HandOutExclusive ==
    ASSUME Undisturbed, Structure, Exclusive, NEW w \in Workers, NEW j \in Jobs,
           \/ TakeJob(w, j) \/ FailStalledJob(w, j)
           \/ Promote(j) \/ RecoverStalled(j) \/ LoseLock(j)
    PROVE  Exclusive'
<1>1. \A v \in Workers : pc[v] # "idle" =>
        on[v] \in Jobs /\ lock[on[v]] = v /\ jobState[on[v]] = "active"
  BY RunsAreActive DEF HoldsLock
<1>2. \A v \in Workers : pc[v] # "idle" => on[v] # j
  BY <1>1 DEF TakeJob, TakeLock, FailStalledJob, Promote, MoveToWaiting,
     RecoverStalled, RunIsGone, LoseLock, Undisturbed
<1>3. SameJobs /\ UNCHANGED request
  BY DEF TakeJob, TakeLock, FailStalledJob, FailJob, MoveToFailed, Promote,
     MoveToWaiting, RecoverStalled, LoseLock, Undisturbed, MoveStalledToWaiting,
     SameJobs, Used, Structure, StructureTypeOK, QueueTypeOK
<1>4. \A i \in Jobs \ {j} : lock'[i] = lock[i]
  BY DEF TakeJob, TakeLock, FailStalledJob, FailJob, MoveToFailed, Promote,
     MoveToWaiting, RecoverStalled, LoseLock, Undisturbed, MoveStalledToWaiting,
     Structure, StructureTypeOK, QueueTypeOK
<1>5. ASSUME NEW v \in Workers, pc'[v] # "idle" PROVE lock'[on'[v]] = v
  <2>1. CASE TakeJob(w, j) /\ v = w
    BY <2>1 DEF TakeJob, TakeLock, Structure, StructureTypeOK, QueueTypeOK
  <2>2. CASE ~ (TakeJob(w, j) /\ v = w)
    <3>1. pc[v] # "idle" /\ on'[v] = on[v]
      BY <1>5, <2>2 DEF TakeJob, FailStalledJob, Promote, RecoverStalled, LoseLock,
         workerVars, Structure, StructureTypeOK
    <3> QED BY <1>1, <1>2, <1>4, <3>1
  <2> QED BY <2>1, <2>2
<1> QED BY <1>3, <1>5, ExclusiveKept DEF RequestsAdvance

LEMMA AdvanceRunExclusive ==
    ASSUME Structure, Exclusive, NEW w \in Workers,
           HandleJob(w) \/ CallFails(w)
    PROVE  Exclusive'
<1>1. pc[w] # "idle" /\ UNCHANGED request
  BY DEF HandleJob, CallFails, FindNotification, FetchSockets, EmitNotification,
     FindUser, SendMail, MarkSent, CompleteRun
<1>2. CASE CompleteRun(w)
  BY <1>1, <1>2, EndExclusive, RunsAreActive DEF CompleteRun
<1>3. CASE ~CompleteRun(w)
  <2>1. \/ Throw(w, FALSE) \/ Throw(w, TRUE)
        \/ \E next \in WorkerStates : Advance(w, next)
    BY <1>3 DEF HandleJob, CallFails, FindNotification, FetchSockets,
       EmitNotification, FindUser, SendMail, MarkSent, WorkerStates
  <2> QED BY <1>1, <2>1, ThrowExclusive, AdvanceExclusive
<1> QED BY <1>2, <1>3

LEMMA ExclusiveStep ==
    ASSUME Undisturbed, Structure, Rows, Exclusive, [Next]_vars
    PROVE  Exclusive'
<1>1. ASSUME UNCHANGED <<queueVars, workerVars>>, RequestsAdvance
      PROVE  Exclusive'
  BY <1>1, ExclusiveKept DEF queueVars, workerVars, SameJobs, Used, Exclusive, LocksHeld
<1>2. ASSUME NEW n \in Notes, InsertRow(n) \/ Commit(n) \/ Rollback(n)
      PROVE  Exclusive'
  BY <1>1, <1>2 DEF InsertRow, Commit, Rollback, RequestsAdvance, Rows, RowsTypeOK
<1>3. ASSUME NEW n \in Notes, EnqueueJob(n)
      PROVE  Exclusive'
  BY <1>3, EnqueueExclusive
<1>4. ASSUME NEW w \in Workers, NEW j \in Jobs, TakeJob(w, j) \/ FailStalledJob(w, j)
      PROVE  Exclusive'
  BY <1>4, HandOutExclusive
<1>5. ASSUME NEW w \in Workers, HandleJob(w) \/ CallFails(w)
      PROVE  Exclusive'
  BY <1>5, AdvanceRunExclusive
<1>6. ASSUME NEW w \in Workers, Crash(w)
      PROVE  Exclusive'
  BY <1>6, EndExclusive DEF Crash, queueVars
<1>7. ASSUME NEW h \in handlers, Handle(h)
      PROVE  Exclusive'
  BY <1>1, <1>7 DEF Handle, RecordProgress, markDeadLetter, moveToDLQ, RequestsAdvance
<1>8. ASSUME NEW u \in Users, runCleanup(u) \/ Connect(u) \/ Disconnect(u)
      PROVE  Exclusive'
  BY <1>1, <1>8 DEF runCleanup, Connect, Disconnect, RequestsAdvance
<1>9. ASSUME NEW j \in Jobs, Promote(j) \/ RecoverStalled(j) \/ LoseLock(j)
      PROVE  Exclusive'
  <2>1. CASE Workers # {}
    BY <1>9, <2>1, HandOutExclusive
  <2>2. CASE Workers = {}
    BY <1>9, <2>2, ExclusiveKept
    DEF Promote, MoveToWaiting, RecoverStalled, RunIsGone, LoseLock, Undisturbed,
        SameJobs, Used, RequestsAdvance, Structure, StructureTypeOK, QueueTypeOK
  <2> QED BY <2>1, <2>2
<1>10. CASE UNCHANGED vars
  BY <1>1, <1>10 DEF vars, RequestsAdvance
<1> QED
  BY <1>2, <1>3, <1>4, <1>5, <1>6, <1>7, <1>8, <1>9, <1>10 DEF Next, Undisturbed

LEMMA ExclusiveInvariant ==
    ASSUME Undisturbed
    PROVE  Spec => [](Structure /\ Rows /\ DeadLetters /\ Exclusive)
<1>1. Structure /\ Rows /\ Exclusive /\ [Next]_vars => Exclusive'
  BY ExclusiveStep
<1> QED
  BY DeadLettersInvariant, InitExclusive, <1>1, PTL DEF Spec

-----------------------------------------------------------------------------
(***************************************************************************)
(* What is left to do for a notification.  Once it was SENT its row does   *)
(* not go back to QUEUED; once its row is DEAD_LETTER its job has failed   *)
(* for good; and a run about to send works for one that was not SENT.      *)
(***************************************************************************)
Sending == {"presence", "emit", "user", "send", "mark"}

SentStays ==
    \A n \in Notes :
      /\ n \in wasSent => request[n] = "committed"
      /\ row[n] = "QUEUED" => n \notin wasSent

AllFailed(n) ==
    \A j \in Jobs : Used(j) /\ jobNote[j] = n => jobState[j] = "failed"

DeadRow == \A n \in Notes : row[n] = "DEAD_LETTER" => AllFailed(n)

Pending == \A w \in Workers : pc[w] \in Sending => NoteOf(w) \notin wasSent

Once == SentStays /\ DeadRow /\ Pending

LEMMA InitOnce == Init => Once
  BY DEF Init, Once, SentStays, DeadRow, Pending, Sending

Before == Undisturbed /\ Structure /\ Rows /\ DeadLetters /\ Exclusive /\ Once

(***************************************************************************)
(* What a step may do to the jobs: a new one is for a notification without *)
(* a row, and what failed stays failed.                                    *)
(***************************************************************************)
JobsStep ==
    \A j \in Jobs :
      \/ /\ Used(j)' => Used(j)
         /\ jobNote'[j] = jobNote[j]
         /\ jobState[j] = "failed" => jobState'[j] = "failed"
      \/ /\ ~Used(j) /\ jobNote'[j] \in Notes
         /\ request[jobNote'[j]] = "inserted" /\ row'[jobNote'[j]] = "absent"

LEMMA JobsStepHolds ==
    ASSUME Before, [Next]_vars
    PROVE  JobsStep
<1>1. ASSUME NEW j \in Jobs, UNCHANGED <<jobNote, jobState>>
      PROVE  Used(j)' => Used(j)
  BY <1>1 DEF Used
<1>2. ASSUME UNCHANGED queueVars PROVE JobsStep
  BY <1>2 DEF queueVars, JobsStep, Used
<1>3. ASSUME NEW n \in Notes, EnqueueJob(n)
      PROVE  JobsStep
  <2>1. row'[n] = "absent"
    BY <1>3 DEF EnqueueJob, tableVars, Before, Rows, RowsCommitted
  <2>2. ~Used(lastId + 1)
    BY <1>3, QueueAssumption DEF EnqueueJob, enqueueNotification, Before, Structure,
       StructureTypeOK, QueueTypeOK, JobsOK, Jobs
  <2> QED
    BY <1>3, <2>1, <2>2 DEF EnqueueJob, enqueueNotification, JobsStep, Before,
       Structure, StructureTypeOK, QueueTypeOK, Used
<1>4. ASSUME NEW w \in Workers, NEW j \in Jobs, TakeJob(w, j)
      PROVE  JobsStep
  BY <1>4 DEF TakeJob, TakeLock, JobsStep, Before, Structure, StructureTypeOK,
     QueueTypeOK, Used
<1>5. ASSUME NEW w \in Workers, NEW j \in Jobs, NEW u \in BOOLEAN,
             jobState[j] \in {"waiting", "active"}, FailJob(w, j, u)
      PROVE  JobsStep
  BY <1>5 DEF FailJob, MoveToFailed, JobsStep, Before, Structure, StructureTypeOK,
     QueueTypeOK, Used
<1>6. ASSUME NEW w \in Workers, pc[w] # "idle", NEW u \in BOOLEAN, Throw(w, u)
      PROVE  JobsStep
  BY <1>5, <1>6, RunsAreActive DEF Throw, Before
<1>7. ASSUME NEW w \in Workers, HandleJob(w) \/ CallFails(w)
      PROVE  JobsStep
  <2>1. pc[w] # "idle"
    BY <1>7 DEF HandleJob, CallFails, FindNotification, FetchSockets, EmitNotification,
       FindUser, SendMail, MarkSent, CompleteRun
  <2>2. CASE CompleteRun(w)
    BY <2>1, <2>2, RunsAreActive DEF CompleteRun, MoveToCompleted, JobsStep, Before,
       Structure, StructureTypeOK, QueueTypeOK, Used
  <2>3. CASE ~CompleteRun(w)
    <3>1. Throw(w, FALSE) \/ Throw(w, TRUE) \/ UNCHANGED queueVars
      BY <1>7, <2>3 DEF HandleJob, CallFails, FindNotification, FetchSockets,
         EmitNotification, FindUser, SendMail, MarkSent, Advance
    <3> QED BY <1>2, <1>6, <2>1, <3>1
  <2> QED BY <2>2, <2>3
<1>8. ASSUME NEW w \in Workers, NEW j \in Jobs, FailStalledJob(w, j)
      PROVE  JobsStep
  BY <1>5, <1>8 DEF FailStalledJob
<1>9. ASSUME NEW j \in Jobs, Promote(j) \/ RecoverStalled(j) \/ LoseLock(j)
      PROVE  JobsStep
  BY <1>9 DEF Promote, RecoverStalled, LoseLock, MoveToWaiting, MoveStalledToWaiting,
     JobsStep, Before, Structure, StructureTypeOK, QueueTypeOK, Used
<1>10. ASSUME NEW n \in Notes, InsertRow(n) \/ Commit(n) \/ Rollback(n)
       PROVE  JobsStep
  BY <1>2, <1>10 DEF InsertRow, Commit, Rollback
<1>11. ASSUME NEW h \in handlers, Handle(h)
       PROVE  JobsStep
  <2>1. UNCHANGED queueVars
    BY <1>11 DEF Handle, RecordProgress, markDeadLetter, moveToDLQ
  <2> QED BY <1>2, <2>1
<1>12. ASSUME NEW u \in Users, runCleanup(u) \/ Connect(u) \/ Disconnect(u)
       PROVE  JobsStep
  BY <1>2, <1>12 DEF runCleanup, Connect, Disconnect
<1>13. ASSUME NEW w \in Workers, Crash(w)
       PROVE  JobsStep
  BY <1>2, <1>13 DEF Crash
<1> QED
  BY <1>2, <1>3, <1>4, <1>7, <1>8, <1>9, <1>10, <1>11, <1>12, <1>13
  DEF Next, vars, Before, Undisturbed

(***************************************************************************)
(* What a step may do to the rows and the runs.                            *)
(***************************************************************************)
RowsStepOnce ==
    \A n \in Notes :
      /\ request[n] = "committed" => request'[n] = "committed"
      /\ row'[n] = "QUEUED" => row[n] = "QUEUED" \/ request[n] # "committed"
      /\ row'[n] = "DEAD_LETTER" => AllFailed(n)

RunsStepOnce ==
    \A w \in Workers :
      pc'[w] \in Sending =>
        /\ pc[w] # "idle" /\ on'[w] = on[w]
        /\ pc[w] \in Sending \/ NoteOf(w) \notin wasSent

LEMMA OnceKept ==
    ASSUME Before, JobsStep, RowsStepOnce, RunsStepOnce, UNCHANGED wasSent
    PROVE  Once'
<1>1. SentStays'
  BY DEF Before, Once, SentStays, RowsStepOnce
<1>2. DeadRow'
  <2> SUFFICES ASSUME NEW n \in Notes, row'[n] = "DEAD_LETTER",
                      NEW j \in Jobs, Used(j)', jobNote'[j] = n
               PROVE  jobState'[j] = "failed"
    BY DEF DeadRow, AllFailed
  <2> QED BY DEF JobsStep, RowsStepOnce, AllFailed
<1>3. Pending'
  <2> SUFFICES ASSUME NEW w \in Workers, pc'[w] \in Sending
               PROVE  NoteOf(w)' \notin wasSent
    BY DEF Pending
  <2>1. pc[w] # "idle" /\ on'[w] = on[w] /\ NoteOf(w) \notin wasSent
    BY DEF RunsStepOnce, Before, Once, Pending
  <2>2. on[w] \in Jobs /\ Used(on[w])
    BY <2>1, NoteOfRun DEF Before
  <2>3. NoteOf(w)' = NoteOf(w)
    BY <2>1, <2>2 DEF JobsStep, NoteOf
  <2> QED BY <2>1, <2>3
<1> QED BY <1>1, <1>2, <1>3 DEF Once

(***************************************************************************)
(* A run that found a row to work for found it QUEUED.                     *)
(***************************************************************************)
LEMMA WorkIsQueued ==
    ASSUME Before, NEW w \in Workers, pc[w] # "idle"
    PROVE  row[NoteOf(w)] # "DEAD_LETTER" /\ NoteOf(w) \in Notes
<1>1. on[w] \in Jobs /\ Used(on[w]) /\ NoteOf(w) \in Notes
  BY NoteOfRun DEF Before
<1>2. jobState[on[w]] = "active"
  BY RunsAreActive DEF Before
<1> QED BY <1>1, <1>2 DEF Before, Once, DeadRow, AllFailed, NoteOf

(***************************************************************************)
(* Two runs never work for the same notification.                          *)
(***************************************************************************)
LEMMA RunsApart ==
    ASSUME Before, NEW w \in Workers, NEW v \in Workers,
           pc[w] # "idle", pc[v] # "idle", NoteOf(w) = NoteOf(v)
    PROVE  w = v
<1>1. on[w] = on[v]
  BY NoteOfRun DEF Before, Exclusive, OneJob, NoteOf
<1> QED BY <1>1 DEF Before, Exclusive, LocksHeld

LEMMA MarkOnce ==
    ASSUME Before, JobsStep, NEW w \in Workers, MarkSent(w)
    PROVE  Once'
<1> DEFINE n == NoteOf(w)
<1>1. pc[w] = "mark" /\ UNCHANGED request
  BY DEF MarkSent
<1>2. n \in Notes /\ row[n] # "DEAD_LETTER" /\ request[n] = "committed"
  BY <1>1, WorkIsQueued DEF Before, Rows, RunsChecked, Checked
<1>3. \A v \in Workers : pc'[v] \in Sending =>
        v # w /\ pc[v] \in Sending /\ on'[v] = on[v]
  BY <1>1 DEF MarkSent, Advance, Throw, EndRun, Before, Structure, StructureTypeOK,
     Sending, WorkerStates
<1>4. CASE row[n] = "absent"
  <2>1. UNCHANGED <<row, wasSent>>
    BY <1>4 DEF MarkSent
  <2> QED
    BY <1>1, <1>3, <2>1, OnceKept DEF RowsStepOnce, RunsStepOnce, Before, Once, DeadRow,
       Sending
<1>5. CASE row[n] # "absent"
  <2>1. row' = [row EXCEPT ![n] = "SENT"] /\ wasSent' = wasSent \cup {n}
    BY <1>5 DEF MarkSent
  <2>2. row'[n] = "SENT" /\ \A m \in Notes \ {n} : row'[m] = row[m]
    BY <1>2, <2>1 DEF Before, Rows, RowsTypeOK
  <2> HIDE DEF n
  <2>3. SentStays'
    BY <1>1, <1>2, <2>1, <2>2 DEF Before, Once, SentStays
  <2>4. DeadRow'
    <3> SUFFICES ASSUME NEW m \in Notes, row'[m] = "DEAD_LETTER",
                        NEW j \in Jobs, Used(j)', jobNote'[j] = m
                 PROVE  jobState'[j] = "failed"
      BY DEF DeadRow, AllFailed
    <3>1. m # n /\ row[m] = "DEAD_LETTER"
      BY <2>2
    <3> QED BY <3>1 DEF JobsStep, Before, Once, DeadRow, AllFailed
  <2>5. Pending'
    <3> SUFFICES ASSUME NEW v \in Workers, pc'[v] \in Sending
                 PROVE  NoteOf(v)' \notin wasSent'
      BY DEF Pending
    <3>1. v # w /\ pc[v] \in Sending /\ pc[v] # "idle" /\ on'[v] = on[v]
      BY <1>3 DEF Sending
    <3>2. on[v] \in Jobs /\ Used(on[v]) /\ NoteOf(v) # n
      BY <1>1, <3>1, NoteOfRun, RunsApart DEF n, Before
    <3>3. NoteOf(v)' = NoteOf(v)
      BY <3>1, <3>2 DEF JobsStep, NoteOf
    <3> QED BY <2>1, <3>1, <3>2, <3>3 DEF Before, Once, Pending
  <2> QED BY <2>3, <2>4, <2>5 DEF Once
<1> QED BY <1>4, <1>5

(***************************************************************************)
(* A final failure has failed the only job of the notification.            *)
(***************************************************************************)
LEMMA FinalFailsAll ==
    ASSUME Before, NEW h \in handlers, Final(h)
    PROVE  AllFailed(jobNote[h.job])
<1>1. h.job \in Jobs /\ Used(h.job) /\ jobState[h.job] = "failed"
  BY DEF Before, Structure, StructureTypeOK, DeadOK, Handlers, DeadLetters, FinalAgrees
<1> QED BY <1>1 DEF AllFailed, Before, Exclusive, OneJob

LEMMA OnceStep ==
    ASSUME Before, [Next]_vars
    PROVE  Once'
<1> USE JobsStepHolds
<1>1. ASSUME UNCHANGED <<row, request, wasSent>>, RunsStepOnce
      PROVE  Once'
  BY <1>1, OnceKept DEF RowsStepOnce, Before, Once, DeadRow
<1>2. ASSUME UNCHANGED workerVars PROVE RunsStepOnce
  BY <1>2 DEF workerVars, RunsStepOnce, Sending
<1>3. ASSUME NEW w \in Workers, pc[w] # "idle", NEW u \in BOOLEAN, Throw(w, u)
      PROVE  RunsStepOnce
  BY <1>3 DEF Throw, EndRun, RunsStepOnce, Sending, Before, Structure, StructureTypeOK
<1>4. ASSUME NEW w \in Workers, pc[w] # "idle", NEW next, Advance(w, next),
             next \in Sending => pc[w] \in Sending \/ NoteOf(w) \notin wasSent
      PROVE  RunsStepOnce
  BY <1>4 DEF Advance, RunsStepOnce, Sending, Before, Structure, StructureTypeOK
<1>5. ASSUME NEW n \in Notes,
             InsertRow(n) \/ EnqueueJob(n) \/ Commit(n) \/ Rollback(n)
      PROVE  Once'
  <2>1. UNCHANGED <<workerVars, wasSent>>
    BY <1>5 DEF InsertRow, EnqueueJob, Commit, Rollback, historyVars
  <2>2. RowsStepOnce
    BY <1>5 DEF InsertRow, EnqueueJob, Commit, Rollback, RowsStepOnce, tableVars,
       Before, Rows, RowsTypeOK, Once, DeadRow
  <2> QED BY <1>2, <2>1, <2>2, OnceKept
<1>6. ASSUME NEW w \in Workers, NEW j \in Jobs, TakeJob(w, j) \/ FailStalledJob(w, j)
      PROVE  Once'
  <2>1. RunsStepOnce
    BY <1>6 DEF TakeJob, FailStalledJob, workerVars, RunsStepOnce, Sending, Before,
       Structure, StructureTypeOK
  <2> QED BY <1>1, <1>6, <2>1 DEF TakeJob, FailStalledJob, tableVars, historyVars
<1>7. ASSUME NEW w \in Workers, FindNotification(w)
      PROVE  Once'
  <2>1. pc[w] = "find" /\ UNCHANGED <<row, request, wasSent>>
    BY <1>7 DEF FindNotification, tableVars, historyVars
  <2>2. ~rowMissing(NoteOf(w)) /\ ~alreadySent(NoteOf(w)) => NoteOf(w) \notin wasSent
    BY <2>1, WorkIsQueued DEF rowMissing, alreadySent, Before, Rows, RowsTypeOK,
       Statuses, Once, SentStays
  <2>3. RunsStepOnce
    BY <1>3, <1>4, <1>7, <2>1, <2>2 DEF FindNotification, Sending
  <2> QED BY <1>1, <2>1, <2>3
<1>8. ASSUME NEW w \in Workers,
             \/ FetchSockets(w) \/ EmitNotification(w) \/ FindUser(w) \/ SendMail(w)
             \/ CallFails(w)
      PROVE  Once'
  <2>1. pc[w] # "idle" /\ UNCHANGED <<row, request, wasSent>>
    BY <1>8 DEF FetchSockets, EmitNotification, FindUser, SendMail, CallFails,
       tableVars, historyVars
  <2>2. RunsStepOnce
    BY <1>3, <1>4, <1>8, <2>1 DEF FetchSockets, EmitNotification, FindUser, SendMail,
       CallFails, Sending
  <2> QED BY <1>1, <2>1, <2>2
<1>9. ASSUME NEW w \in Workers, CompleteRun(w) \/ Crash(w)
      PROVE  Once'
  <2>1. RunsStepOnce
    BY <1>9 DEF CompleteRun, Crash, EndRun, RunsStepOnce, Sending, Before, Structure,
       StructureTypeOK
  <2> QED BY <1>1, <1>9, <2>1 DEF CompleteRun, Crash, tableVars, historyVars
<1>10. ASSUME NEW h \in handlers, Handle(h)
       PROVE  Once'
  <2>1. UNCHANGED <<workerVars, request, wasSent>>
    BY <1>10 DEF Handle, RecordProgress, markDeadLetter, moveToDLQ, historyVars
  <2>2. UNCHANGED row \/ (Final(h) /\ row' = [row EXCEPT ![jobNote[h.job]] = "DEAD_LETTER"])
    BY <1>10 DEF Handle, RecordProgress, markDeadLetter, moveToDLQ, tableVars, Final
  <2>3. RowsStepOnce
    BY <2>1, <2>2, FinalFailsAll DEF RowsStepOnce, Before, Rows, RowsTypeOK, Once, DeadRow
  <2> QED BY <1>2, <2>1, <2>3, OnceKept
<1>11. ASSUME NEW u \in Users, runCleanup(u) \/ Connect(u) \/ Disconnect(u)
       PROVE  Once'
  <2>1. UNCHANGED <<workerVars, request, wasSent>>
    BY <1>11 DEF runCleanup, Connect, Disconnect, historyVars
  <2>2. RowsStepOnce
    BY <1>11 DEF runCleanup, Connect, Disconnect, tableVars, RowsStepOnce, Before,
       Rows, RowsTypeOK, Once, DeadRow
  <2> QED BY <1>2, <2>1, <2>2, OnceKept
<1>12. ASSUME NEW j \in Jobs, Promote(j) \/ RecoverStalled(j) \/ LoseLock(j)
       PROVE  Once'
  BY <1>1, <1>2, <1>12 DEF Promote, RecoverStalled, LoseLock, tableVars, historyVars
<1>13. CASE UNCHANGED vars
  BY <1>1, <1>2, <1>13 DEF vars, tableVars, historyVars
<1> QED
  BY <1>5, <1>6, <1>7, <1>8, <1>9, <1>10, <1>11, <1>12, <1>13, MarkOnce
  DEF Next, HandleJob, Before, Undisturbed

LEMMA OnceInvariant == ASSUME Undisturbed PROVE Spec => []Before
<1>1. Before /\ [Next]_vars => Once'
  BY OnceStep
<1>2. Structure /\ Rows /\ DeadLetters /\ Exclusive /\ Once <=> Before
  BY DEF Before
<1> QED
  BY ExclusiveInvariant, InitOnce, <1>1, <1>2, PTL DEF Spec

(***************************************************************************)
(* What a step sends, it sends for a run that is about to send.            *)
(***************************************************************************)
SendStep(w) ==
    /\ pc[w] \in {"emit", "send"}
    /\ CountSend(NoteOf(w))
    /\ UNCHANGED <<row, request>>

LEMMA OnlyRunsSend ==
    ASSUME [Next]_vars
    PROVE  UNCHANGED sends \/ \E w \in Workers : SendStep(w)
<1>1. ASSUME NEW w \in Workers, HandleJob(w)
      PROVE  UNCHANGED sends \/ SendStep(w)
  BY <1>1 DEF HandleJob, FindNotification, FetchSockets, EmitNotification, FindUser,
     SendMail, MarkSent, CompleteRun, historyVars, tableVars, SendStep
<1>2. ASSUME NEW h \in handlers, Handle(h)
      PROVE  UNCHANGED sends
  BY <1>2 DEF Handle, RecordProgress, markDeadLetter, moveToDLQ, historyVars
<1>3. ASSUME NEW a \in Admins, AdminStep(a) \/ AdminAbort(a)
      PROVE  UNCHANGED sends
  BY <1>3 DEF AdminStep, AdminFetch, AdminEnqueue, AdminReset, AdminRemove, AdminAbort,
     historyVars
<1> QED
  BY <1>1, <1>2, <1>3 DEF Next, vars, InsertRow, EnqueueJob, Commit, Rollback, TakeJob,
     FailStalledJob, CallFails, Crash, runCleanup, Connect, Disconnect, Promote,
     RecoverStalled, LoseLock, historyVars

(***************************************************************************)
(* Nothing goes out twice because of a retry, a crash or a lost reply: as  *)
(* long as every run keeps its lock and no admin re-drives, the handlers'  *)
(* check of status SENT (workers/websocket.worker.ts, email.worker.ts)     *)
(* ends every later run of the job before it sends.                        *)
(***************************************************************************)
THEOREM SentIsSentOnce == ASSUME Undisturbed PROVE Spec => NoSendAfterSent
<1>1. Before /\ [Next]_vars => [\A n \in wasSent : sends'[n] = sends[n]]_vars
  <2> SUFFICES ASSUME Before, [Next]_vars, NEW n \in wasSent
               PROVE  sends'[n] = sends[n]
    OBVIOUS
  <2>1. ASSUME NEW w \in Workers, SendStep(w)
        PROVE  NoteOf(w) # n
    BY <2>1 DEF SendStep, Before, Once, Pending, Sending
  <2> QED
    BY <2>1, OnlyRunsSend DEF SendStep, CountSend, Before, Rows, RowsTypeOK
<1> QED
  BY OnceInvariant, <1>1, PTL DEF Spec, NoSendAfterSent

-----------------------------------------------------------------------------
(***************************************************************************)
(* The refinement.  A run that marked the row SENT completes, so its job   *)
(* never fails and the row is never dead-lettered.                         *)
(***************************************************************************)
Calm == Undisturbed /\ "crash" \notin Faults /\ "db" \notin Faults

Served(j) ==
    \/ jobState[j] = "completed"
    \/ \E w \in Workers : pc[w] = "done" /\ on[w] = j

AfterSent ==
    \A n \in wasSent, j \in Jobs : Used(j) /\ jobNote[j] = n => Served(j)

LEMMA InitAfterSent == Init => AfterSent
  BY DEF Init, AfterSent

LEMMA ServedStays ==
    ASSUME Calm, Before, [Next]_vars, NEW j \in Jobs, Used(j), Served(j)
    PROVE  Served(j)'
<1>1. ASSUME UNCHANGED <<queueVars, workerVars>> PROVE Served(j)'
  BY <1>1 DEF queueVars, workerVars, Served
<1>2. \A w \in Workers : pc[w] # "idle" =>
        on[w] \in Jobs /\ lock[on[w]] = w /\ jobState[on[w]] = "active"
  BY RunsAreActive DEF HoldsLock, Before
<1>3. ASSUME \A w \in Workers : pc[w] = "done" => pc'[w] = "done" /\ on'[w] = on[w],
             jobState[j] = "completed" => jobState'[j] = "completed"
      PROVE  Served(j)'
  BY <1>3 DEF Served
<1>4. ASSUME NEW w \in Workers, pc[w] \notin {"idle", "done"},
             \/ Throw(w, FALSE) \/ Throw(w, TRUE)
             \/ \E next \in WorkerStates : Advance(w, next)
      PROVE  Served(j)'
  <2>1. \A v \in Workers : pc[v] = "done" => pc'[v] = "done" /\ on'[v] = on[v]
    BY <1>4 DEF Throw, EndRun, Advance, Before, Structure, StructureTypeOK
  <2>2. jobState[j] = "completed" => jobState'[j] = "completed"
    BY <1>2, <1>4 DEF Throw, Advance, FailJob, MoveToFailed, queueVars, Before, Structure,
       StructureTypeOK, QueueTypeOK
  <2> QED BY <1>3, <2>1, <2>2
<1>5. ASSUME NEW w \in Workers, CompleteRun(w)
      PROVE  Served(j)'
  <2>1. /\ pc[w] = "done" /\ on[w] \in Jobs /\ MoveToCompleted(on[w])
        /\ EndRun(w)
    BY <1>2, <1>5 DEF CompleteRun, HoldsLock
  <2>2. jobState'[on[w]] = "completed"
        /\ (jobState[j] = "completed" => jobState'[j] = "completed")
    BY <2>1 DEF MoveToCompleted, Before, Structure, StructureTypeOK, QueueTypeOK
  <2>3. \A v \in Workers \ {w} : pc'[v] = pc[v] /\ on'[v] = on[v]
    BY <2>1 DEF EndRun, Before, Structure, StructureTypeOK
  <2> QED BY <2>2, <2>3 DEF Served
<1>6. ASSUME NEW w \in Workers, HandleJob(w) \/ CallFails(w)
      PROVE  Served(j)'
  <2>1. CASE ~CompleteRun(w)
    <3>1. pc[w] \notin {"idle", "done"}
      BY <1>6, <2>1 DEF HandleJob, CallFails, FindNotification, FetchSockets,
         EmitNotification, FindUser, SendMail, MarkSent
    <3>2. \/ Throw(w, FALSE) \/ Throw(w, TRUE)
          \/ \E next \in WorkerStates : Advance(w, next)
      BY <1>6, <2>1 DEF HandleJob, CallFails, FindNotification, FetchSockets,
         EmitNotification, FindUser, SendMail, MarkSent, WorkerStates
    <3> QED BY <1>4, <3>1, <3>2
  <2> QED BY <1>5, <2>1
<1>7. ASSUME NEW w \in Workers, NEW i \in Jobs, TakeJob(w, i) \/ FailStalledJob(w, i)
      PROVE  Served(j)'
  <2>1. \A v \in Workers : pc[v] = "done" => pc'[v] = "done" /\ on'[v] = on[v]
    BY <1>7 DEF TakeJob, FailStalledJob, workerVars, Before, Structure, StructureTypeOK
  <2>2. jobState[j] = "completed" => jobState'[j] = "completed"
    BY <1>7 DEF TakeJob, TakeLock, FailStalledJob, FailJob, MoveToFailed, Before,
       Structure, StructureTypeOK, QueueTypeOK
  <2> QED BY <1>3, <2>1, <2>2
<1>8. ASSUME NEW i \in Jobs, Promote(i) \/ RecoverStalled(i) \/ LoseLock(i)
      PROVE  Served(j)'
  BY <1>2, <1>3, <1>8 DEF Promote, RecoverStalled, RunIsGone, LoseLock, MoveToWaiting,
     MoveStalledToWaiting, workerVars, Before, Structure, StructureTypeOK, QueueTypeOK,
     LocksOK
<1>9. ASSUME NEW n \in Notes, EnqueueJob(n)
      PROVE  Served(j)'
  <2>1. ~Used(lastId + 1)
    BY <1>9, QueueAssumption DEF EnqueueJob, enqueueNotification, Before, Structure,
       StructureTypeOK, QueueTypeOK, JobsOK, Jobs
  <2> QED
    BY <1>3, <1>9, <2>1 DEF EnqueueJob, enqueueNotification, workerVars, Before,
       Structure, StructureTypeOK, QueueTypeOK, Used
<1>10. ASSUME NEW h \in handlers, Handle(h)
       PROVE  Served(j)'
  BY <1>1, <1>10 DEF Handle, RecordProgress, markDeadLetter, moveToDLQ
<1>11. ASSUME NEW n \in Notes, InsertRow(n) \/ Commit(n) \/ Rollback(n)
       PROVE  Served(j)'
  BY <1>1, <1>11 DEF InsertRow, Commit, Rollback
<1>12. ASSUME NEW u \in Users, runCleanup(u) \/ Connect(u) \/ Disconnect(u)
       PROVE  Served(j)'
  BY <1>1, <1>12 DEF runCleanup, Connect, Disconnect
<1>13. CASE UNCHANGED vars
  BY <1>1, <1>13 DEF vars
<1> QED
  BY <1>6, <1>7, <1>8, <1>9, <1>10, <1>11, <1>12, <1>13
  DEF Next, Before, Calm, Undisturbed, Crash

LEMMA WasSentMoves ==
    ASSUME Before, Calm, [Next]_vars
    PROVE  UNCHANGED wasSent \/ \E w \in Workers :
             /\ pc[w] = "mark" /\ wasSent' = wasSent \cup {NoteOf(w)}
             /\ Advance(w, "done")
<1>1. ASSUME NEW w \in Workers, HandleJob(w), ~UNCHANGED wasSent
      PROVE  /\ pc[w] = "mark" /\ wasSent' = wasSent \cup {NoteOf(w)}
             /\ Advance(w, "done")
  BY <1>1 DEF HandleJob, FindNotification, FetchSockets, EmitNotification, FindUser,
     SendMail, MarkSent, CompleteRun, historyVars, Calm
<1>2. ASSUME NEW h \in handlers, Handle(h)
      PROVE  UNCHANGED wasSent
  BY <1>2 DEF Handle, RecordProgress, markDeadLetter, moveToDLQ, historyVars
<1> QED
  BY <1>1, <1>2 DEF Next, vars, InsertRow, EnqueueJob, Commit, Rollback, TakeJob,
     FailStalledJob, CallFails, Crash, runCleanup, Connect, Disconnect, Promote,
     RecoverStalled, LoseLock, historyVars, Before, Undisturbed

LEMMA AfterSentStep ==
    ASSUME Calm, Before, AfterSent, [Next]_vars
    PROVE  AfterSent'
<1> SUFFICES ASSUME NEW n \in wasSent', NEW j \in Jobs, Used(j)', jobNote'[j] = n
             PROVE  Served(j)'
  BY DEF AfterSent, Jobs
<1>1. n \in Notes /\ (n \in wasSent => request[n] = "committed")
  BY WasSentMoves, WorkIsQueued DEF Before, Rows, RowsTypeOK, Once, SentStays
<1>2. request[n] = "committed"
  BY <1>1, WasSentMoves DEF Before, Rows, RunsChecked, Checked
<1>3. Used(j) /\ jobNote[j] = n
  BY <1>2, JobsStepHolds DEF JobsStep
<1>4. CASE n \in wasSent
  BY <1>3, <1>4, ServedStays DEF AfterSent
<1>5. CASE n \notin wasSent
  <2>1. PICK w \in Workers : pc[w] = "mark" /\ n = NoteOf(w) /\ Advance(w, "done")
    BY <1>5, WasSentMoves
  <2>2. on[w] = j
    BY <1>3, <2>1, NoteOfRun DEF Before, Exclusive, OneJob, NoteOf
  <2> QED
    BY <2>1, <2>2 DEF Advance, Served, Before, Structure, StructureTypeOK
<1> QED BY <1>4, <1>5

(***************************************************************************)
(* The steps that write the table, as seen through the mapping.            *)
(***************************************************************************)
LEMMA MappedUnchanged ==
    ASSUME UNCHANGED <<row, sends>>,
           \A n \in Notes : request'[n] = "committed" <=> request[n] = "committed"
    PROVE  UNCHANGED Abstract!vars
  BY DEF Abstract!vars, statusOf

LEMMA StatusRange ==
    ASSUME Rows, NEW n \in Notes
    PROVE  /\ row[n] = "absent" => statusOf[n] \in {"none", "deleted"}
           /\ row[n] # "absent" => statusOf[n] = row[n] /\ request[n] = "committed"
           /\ statusOf[n] = "none" <=> request[n] # "committed"
  BY DEF statusOf, Rows, RowsTypeOK, RowsCommitted, Statuses

LEMMA MappedPush ==
    ASSUME Before, NEW w \in Workers, SendStep(w)
    PROVE  Abstract!Next
<1> DEFINE n == NoteOf(w)
<1>1. n \in Notes /\ row[n] # "DEAD_LETTER"
  BY WorkIsQueued DEF SendStep
<1>2. n \notin wasSent /\ request[n] = "committed"
  BY <1>1 DEF SendStep, Before, Once, Pending, Sending, Rows, RunsChecked, Checked
<1>3. statusOf[n] \in {"QUEUED", "deleted"}
  BY <1>1, <1>2 DEF statusOf, Before, Rows, RowsTypeOK, RowsCommitted, Statuses
<1>4. UNCHANGED statusOf
  BY DEF SendStep, statusOf
<1>5. {m \in Notes : sends[m] >= 1}' = {m \in Notes : sends[m] >= 1} \cup {n}
  BY <1>1 DEF SendStep, CountSend, Before, Rows, RowsTypeOK
<1> QED
  BY <1>1, <1>3, <1>4, <1>5 DEF Abstract!Next, Abstract!Push

LEMMA MappedMark ==
    ASSUME Before, NEW w \in Workers, MarkSent(w)
    PROVE  Abstract!Next \/ UNCHANGED Abstract!vars
<1> DEFINE n == NoteOf(w)
<1>1. n \in Notes /\ row[n] # "DEAD_LETTER" /\ pc[w] = "mark"
  BY WorkIsQueued DEF MarkSent
<1>2. n \notin wasSent /\ request[n] = "committed" /\ sends[n] >= 1
  BY <1>1 DEF Before, Once, Pending, Sending, Rows, RunsChecked, Checked
<1>3. UNCHANGED <<request, sends>>
  BY DEF MarkSent
<1>4. CASE row[n] = "absent"
  BY <1>3, <1>4, MappedUnchanged DEF MarkSent
<1>5. CASE row[n] # "absent"
  <2>1. row[n] = "QUEUED" /\ row' = [row EXCEPT ![n] = "SENT"]
    BY <1>1, <1>2, <1>5 DEF MarkSent, Before, Rows, RowsTypeOK, RowsCommitted, Statuses
  <2>2. statusOf[n] = "QUEUED" /\ statusOf' = [statusOf EXCEPT ![n] = "SENT"]
    BY <1>1, <1>3, <2>1 DEF statusOf, Before, Rows, RowsTypeOK
  <2> QED
    BY <1>1, <1>2, <1>3, <2>2 DEF Abstract!Next, Abstract!Deliver, Abstract!Become
<1> QED BY <1>4, <1>5

(***************************************************************************)
(* A failure handler that writes DEAD_LETTER ends an attempt of a          *)
(* notification that is QUEUED, or, after a fault, one that is SENT.       *)
(***************************************************************************)
LEMMA MappedHandle ==
    ASSUME Before, NEW h \in handlers, Handle(h)
    PROVE  \/ UNCHANGED Abstract!vars
           \/ /\ Final(h) /\ jobNote[h.job] \in Notes
              /\ \/ Abstract!GiveUp(jobNote[h.job])
                 \/ Abstract!Misjudge(jobNote[h.job]) /\ jobNote[h.job] \in wasSent
<1> DEFINE n == jobNote[h.job]
<1>1. UNCHANGED <<request, sends>>
  BY DEF Handle, RecordProgress, markDeadLetter, moveToDLQ, historyVars
<1>2. CASE UNCHANGED row
  BY <1>1, <1>2, MappedUnchanged
<1>3. CASE ~UNCHANGED row
  <2>1. /\ markDeadLetter(h) /\ row[n] # "absent"
        /\ row' = [row EXCEPT ![n] = "DEAD_LETTER"]
    BY <1>3 DEF Handle, RecordProgress, markDeadLetter, moveToDLQ, tableVars
  <2>2. n \in Notes /\ Final(h)
    BY <2>1 DEF markDeadLetter, Before, Structure, StructureTypeOK, DeadOK, JobsOK,
       Handlers, Final
  <2>3. row[n] # "DEAD_LETTER"
    BY <1>3, <2>1 DEF Before, Rows, RowsTypeOK
  <2>4. row[n] \in {"QUEUED", "SENT"} /\ (row[n] = "SENT" => n \in wasSent)
    BY <2>1, <2>2, <2>3 DEF Before, Rows, RowsTypeOK, RowsCommitted, Statuses
  <2>5. statusOf[n] = row[n] /\ statusOf' = [statusOf EXCEPT ![n] = "DEAD_LETTER"]
    BY <1>1, <2>1, <2>2 DEF statusOf, Before, Rows, RowsTypeOK
  <2> QED
    BY <1>1, <2>2, <2>4, <2>5 DEF Abstract!GiveUp, Abstract!Misjudge, Abstract!Become
<1> QED BY <1>2, <1>3

(***************************************************************************)
(* In the calm a job that delivered does not fail.                         *)
(***************************************************************************)
LEMMA CalmNeverMisjudges ==
    ASSUME Before, AfterSent, NEW h \in handlers, Final(h)
    PROVE  jobNote[h.job] \notin wasSent
<1>1. h.job \in Jobs /\ Used(h.job) /\ jobState[h.job] = "failed"
  BY DEF Before, Structure, StructureTypeOK, DeadOK, Handlers, DeadLetters, FinalAgrees
<1>2. ~ Served(h.job)
  BY <1>1, RunsAreActive DEF Served, Before
<1> QED BY <1>1, <1>2 DEF AfterSent

LEMMA MappedCommit ==
    ASSUME Rows, NEW n \in Notes, Commit(n)
    PROVE  Abstract!Next
<1>1. request[n] = "enqueued" /\ row[n] = "absent"
  BY DEF Commit, Rows, RowsCommitted
<1>2. statusOf[n] = "none" /\ statusOf' = [statusOf EXCEPT ![n] = "QUEUED"]
  BY <1>1 DEF Commit, statusOf, Rows, RowsTypeOK
<1> QED
  BY <1>2 DEF Commit, historyVars, Abstract!Next, Abstract!Create, Abstract!Become

LEMMA MappedCleanup ==
    ASSUME Rows, NEW u \in Users, runCleanup(u)
    PROVE  Abstract!Next
<1> DEFINE ns == {n \in Notes : Owner[n] = u /\ request[n] = "committed"}
<1>1. UNCHANGED <<request, sends>>
      /\ row' = [n \in Notes |-> IF Owner[n] = u THEN "absent" ELSE row[n]]
  BY DEF runCleanup, historyVars
<1>2. \A n \in ns : statusOf[n] # "none"
  BY StatusRange
<1>3. statusOf' = [n \in Notes |-> IF n \in ns THEN "deleted" ELSE statusOf[n]]
  BY <1>1 DEF statusOf, Rows, RowsTypeOK, RowsCommitted
<1> QED
  BY <1>1, <1>2, <1>3 DEF Abstract!Next, Abstract!Drop

(***************************************************************************)
(* Every other step is invisible to Lifecycle, under every fault.          *)
(***************************************************************************)
LEMMA VisibleSteps ==
    ASSUME Rows, [Next]_vars
    PROVE  \/ UNCHANGED Abstract!vars
           \/ \E n \in Notes : Commit(n)
           \/ \E w \in Workers : SendStep(w) \/ MarkSent(w)
           \/ \E h \in handlers : Handle(h)
           \/ \E u \in Users : runCleanup(u)
           \/ \E a \in Admins : AdminReset(a)
<1> USE MappedUnchanged
<1>1. ASSUME NEW n \in Notes,
             InsertRow(n) \/ EnqueueJob(n) \/ Rollback(n)
      PROVE  UNCHANGED Abstract!vars
  BY <1>1 DEF InsertRow, EnqueueJob, Rollback, tableVars, historyVars, Rows, RowsTypeOK
<1>2. ASSUME NEW w \in Workers, HandleJob(w)
      PROVE  UNCHANGED Abstract!vars \/ SendStep(w) \/ MarkSent(w)
  <2>1. CASE EmitNotification(w) \/ SendMail(w)
    BY <2>1 DEF EmitNotification, SendMail, SendStep, tableVars
  <2>2. CASE FindNotification(w) \/ FetchSockets(w) \/ FindUser(w) \/ CompleteRun(w)
    BY <2>2 DEF FindNotification, FetchSockets, FindUser, CompleteRun, tableVars, historyVars
  <2> QED BY <1>2, <2>1, <2>2 DEF HandleJob
<1>3. ASSUME NEW w \in Workers, NEW j \in Jobs, TakeJob(w, j) \/ FailStalledJob(w, j)
      PROVE  UNCHANGED Abstract!vars
  BY <1>3 DEF TakeJob, FailStalledJob, tableVars, historyVars
<1>4. ASSUME NEW w \in Workers, CallFails(w) \/ Crash(w)
      PROVE  UNCHANGED Abstract!vars
  BY <1>4 DEF CallFails, Crash, tableVars, historyVars
<1>5. ASSUME NEW u \in Users, Connect(u) \/ Disconnect(u)
      PROVE  UNCHANGED Abstract!vars
  BY <1>5 DEF Connect, Disconnect, tableVars, historyVars
<1>6. ASSUME NEW j \in Jobs, Promote(j) \/ RecoverStalled(j) \/ LoseLock(j)
      PROVE  UNCHANGED Abstract!vars
  BY <1>6 DEF Promote, RecoverStalled, LoseLock, tableVars, historyVars
<1>7. ASSUME NEW a \in Admins,
             AdminFetch(a) \/ AdminEnqueue(a) \/ AdminRemove(a) \/ AdminAbort(a)
      PROVE  UNCHANGED Abstract!vars
  BY <1>7 DEF AdminFetch, AdminEnqueue, AdminRemove, AdminAbort, tableVars, historyVars
<1>8. CASE UNCHANGED vars
  BY <1>8 DEF vars, tableVars, historyVars
<1> QED
  BY <1>1, <1>2, <1>3, <1>4, <1>5, <1>6, <1>7, <1>8 DEF Next, AdminStep

LEMMA MappedStep ==
    ASSUME Before, [Next]_vars
    PROVE  \/ [Abstract!Next]_(Abstract!vars)
           \/ \E h \in handlers : Handle(h)
  BY VisibleSteps, MappedCommit, MappedPush, MappedMark, MappedCleanup
  DEF Before, Undisturbed

(***************************************************************************)
(* The pipeline implements Lifecycle: a notification is created once, is   *)
(* pushed only while it is QUEUED or after its user was deleted, becomes   *)
(* SENT only after a push, or DEAD_LETTER, and stays what it became until  *)
(* it is deleted, although the job runs before the commit, is retried and  *)
(* its failure handler is not awaited.                                     *)
(***************************************************************************)
THEOREM PipelineImplementsLifecycle == ASSUME Calm PROVE Spec => Abstract!Spec
<1>1. Init => Abstract!Init
  BY DEF Init, Abstract!Init, statusOf
<1>2. Before /\ AfterSent /\ [Next]_vars => AfterSent'
  BY AfterSentStep
<1>3. Before /\ AfterSent /\ [Next]_vars => [Abstract!Next]_(Abstract!vars)
  BY MappedStep, MappedHandle, CalmNeverMisjudges DEF Abstract!Next
<1>4. Spec => []Before
  BY OnceInvariant DEF Calm
<1> QED
  BY <1>1, <1>2, <1>3, <1>4, InitAfterSent, PTL DEF Spec, Abstract!Spec

(***************************************************************************)
(* With crashes, errors and lost replies it implements Lifecycle with      *)
(* misjudgements: a delivered notification may end DEAD_LETTER, and that   *)
(* is all that goes wrong.                                                 *)
(***************************************************************************)
THEOREM FaultyPipelineImplementsLifecycle ==
    ASSUME Undisturbed PROVE Spec => SurvivesFaults
<1>1. Init => Abstract!Init
  BY DEF Init, Abstract!Init, statusOf
<1>2. Before /\ [Next]_vars => [Abstract!FaultyNext]_(Abstract!vars)
  BY MappedStep, MappedHandle DEF Abstract!Next, Abstract!FaultyNext
<1>3. Spec => []Before
  BY OnceInvariant
<1> QED
  BY <1>1, <1>2, <1>3, PTL DEF Spec, SurvivesFaults, Abstract!FaultySpec

(***************************************************************************)
(* The steps that write the table when runs may have lost their locks and  *)
(* admins re-drive.                                                        *)
(***************************************************************************)
LEMMA RejudgedRow ==
    ASSUME Rows, NEW n \in Notes, row[n] # "absent", UNCHANGED <<request, sends>>,
           NEW s \in {"QUEUED", "SENT", "DEAD_LETTER"},
           row' = [row EXCEPT ![n] = s], s = "SENT" => sends[n] >= 1
    PROVE  Abstract!DisturbedNext
<1>1. statusOf[n] \in {"QUEUED", "SENT", "DEAD_LETTER"}
  BY DEF statusOf, Rows, RowsTypeOK, Statuses
<1>2. statusOf' = [statusOf EXCEPT ![n] = s]
  BY DEF statusOf, Rows, RowsTypeOK
<1>3. Abstract!Rejudge(n)
  BY <1>1, <1>2 DEF Abstract!Rejudge, Abstract!Become
<1> QED BY <1>3 DEF Abstract!DisturbedNext

LEMMA DisturbedPush ==
    ASSUME Structure, Rows, NEW w \in Workers, SendStep(w)
    PROVE  Abstract!DisturbedNext
<1> DEFINE n == NoteOf(w)
<1>1. n \in Notes /\ request[n] = "committed"
  BY NoteOfRun DEF SendStep, Rows, RunsChecked, Checked
<1>2. statusOf[n] # "none" /\ UNCHANGED statusOf
  BY <1>1 DEF SendStep, statusOf, Rows, RowsTypeOK, Statuses
<1>3. {m \in Notes : sends[m] >= 1}' = {m \in Notes : sends[m] >= 1} \cup {n}
  BY <1>1 DEF SendStep, CountSend, Rows, RowsTypeOK
<1> QED
  BY <1>1, <1>2, <1>3 DEF Abstract!DisturbedNext, Abstract!PushAgain

LEMMA DisturbedWrite ==
    ASSUME Structure, Rows,
           \/ \E w \in Workers : MarkSent(w)
           \/ \E h \in handlers : Handle(h)
           \/ \E a \in Admins : AdminReset(a)
    PROVE  Abstract!DisturbedNext \/ UNCHANGED Abstract!vars
<1>1. ASSUME NEW w \in Workers, MarkSent(w)
      PROVE  Abstract!DisturbedNext \/ UNCHANGED Abstract!vars
  <2>1. pc[w] = "mark" /\ NoteOf(w) \in Notes /\ sends[NoteOf(w)] >= 1
    BY <1>1, NoteOfRun DEF MarkSent, Rows, RunsChecked
  <2>2. CASE row[NoteOf(w)] = "absent"
    BY <1>1, <2>2, MappedUnchanged DEF MarkSent
  <2>3. CASE row[NoteOf(w)] # "absent"
    BY <1>1, <2>1, <2>3, RejudgedRow DEF MarkSent
  <2> QED BY <2>2, <2>3
<1>2. ASSUME NEW h \in handlers, Handle(h)
      PROVE  Abstract!DisturbedNext \/ UNCHANGED Abstract!vars
  <2>1. jobNote[h.job] \in Notes
    BY DEF Structure, StructureTypeOK, DeadOK, JobsOK, Handlers
  <2> QED
    BY <1>2, <2>1, RejudgedRow, MappedUnchanged
    DEF Handle, RecordProgress, markDeadLetter, moveToDLQ, tableVars, historyVars
<1>3. ASSUME NEW a \in Admins, AdminReset(a)
      PROVE  Abstract!DisturbedNext \/ UNCHANGED Abstract!vars
  <2>1. jobNote[adminEntry[a]] \in Notes
    BY <1>3 DEF AdminReset, Structure, DeadOK, JobsOK
  <2> QED BY <1>3, <2>1, RejudgedRow, MappedUnchanged DEF AdminReset, historyVars
<1> QED BY <1>1, <1>2, <1>3

(***************************************************************************)
(* Whatever fails, stalls or is re-driven, and however many actors do it:  *)
(* created once, pushed only after the commit, SENT only after a push, and *)
(* deleted for good.  No assumption but those on the constants.            *)
(***************************************************************************)
THEOREM DisturbedPipelineImplementsLifecycle == Spec => SurvivesEverything
<1>1. Init => Abstract!Init
  BY DEF Init, Abstract!Init, statusOf
<1>2. Structure /\ Rows /\ [Next]_vars => [Abstract!DisturbedNext]_(Abstract!vars)
  BY VisibleSteps, MappedCommit, MappedCleanup, DisturbedPush, DisturbedWrite
  DEF Abstract!DisturbedNext
<1> QED
  BY <1>1, <1>2, RowsInvariant, PTL DEF Spec, SurvivesEverything, Abstract!DisturbedSpec

(***************************************************************************)
(* Without admins no row becomes QUEUED again: no retry, crash, stalled    *)
(* run, handler or cleanup does it.  What redrive_overwrites_sent shows is *)
(* the work of the admin endpoint alone (routes/admin.ts).                 *)
(***************************************************************************)
THEOREM OnlyAdminsRequeue ==
    ASSUME Admins = {} PROVE Spec => RedriveOnlyDeadLetters
<1> DEFINE OnlyDead == \A n \in Notes :
                         (row'[n] = "QUEUED" /\ row[n] # "QUEUED")
                           => row[n] \in {"absent", "DEAD_LETTER"}
<1>1. Rows /\ [Next]_vars => [OnlyDead]_vars
  <2> SUFFICES ASSUME Rows, [Next]_vars, NEW n \in Notes,
                      row'[n] = "QUEUED", row[n] # "QUEUED"
               PROVE  row[n] = "absent"
    OBVIOUS
  <2>1. ASSUME NEW m \in Notes, Commit(m)
        PROVE  row[n] = "absent"
    BY <2>1 DEF Commit, Rows, RowsTypeOK, RowsCommitted
  <2>2. ASSUME NEW w \in Workers, HandleJob(w)
        PROVE  FALSE
    BY <2>2 DEF HandleJob, FindNotification, FetchSockets, EmitNotification, FindUser,
       SendMail, MarkSent, CompleteRun, tableVars, Rows, RowsTypeOK
  <2>3. ASSUME NEW h \in handlers, Handle(h)
        PROVE  FALSE
    BY <2>3 DEF Handle, RecordProgress, markDeadLetter, moveToDLQ, tableVars, Rows, RowsTypeOK
  <2>4. ASSUME NEW u \in Users, runCleanup(u)
        PROVE  FALSE
    BY <2>4 DEF runCleanup
  <2> QED
    BY <2>1, <2>2, <2>3, <2>4 DEF Next, vars, InsertRow, EnqueueJob, Rollback, TakeJob,
       FailStalledJob, CallFails, Crash, Connect, Disconnect, Promote, RecoverStalled,
       LoseLock, tableVars
<1> QED
  BY RowsInvariant, <1>1, PTL DEF Spec, RedriveOnlyDeadLetters

-----------------------------------------------------------------------------
(***************************************************************************)
(* The presence check.  A run about to emit has seen its recipient online; *)
(* a run about to mail, or to look for its user, is an email's.            *)
(***************************************************************************)
RoomSeen ==
    \A w \in Workers :
      /\ pc[w] = "emit" => Owner[NoteOf(w)] \in online
      /\ pc[w] \in {"user", "send"} => kind[NoteOf(w)] = "email"

(***************************************************************************)
(* How a run comes to stand there.                                         *)
(***************************************************************************)
RoomStep(w) ==
    pc'[w] \in {"emit", "user", "send"} =>
      /\ pc[w] # "idle" /\ on'[w] = on[w]
      /\ \/ pc'[w] = pc[w]
         \/ pc'[w] = "emit" /\ Owner[NoteOf(w)] \in online
         \/ pc'[w] # "emit" /\ kind[NoteOf(w)] = "email"

LEMMA RoomSteps ==
    ASSUME Structure, RoomSeen, [Next]_vars
    PROVE  UNCHANGED kind /\ KeepsNotes /\ \A w \in Workers : RoomStep(w)
<1> USE DEF RoomStep
<1>1. CASE UNCHANGED vars
  BY <1>1, UnchangedKeepsNotes DEF vars, queueVars, workerVars
<1>2. ASSUME NEW n \in Notes,
             InsertRow(n) \/ EnqueueJob(n) \/ Commit(n) \/ Rollback(n)
      PROVE  UNCHANGED kind /\ KeepsNotes /\ UNCHANGED workerVars
  BY <1>2, UnchangedKeepsNotes, EnqueueKeepsNotes
  DEF InsertRow, EnqueueJob, Commit, Rollback, queueVars
<1>3. ASSUME NEW w \in Workers, NEW j \in Jobs, TakeJob(w, j)
      PROVE  UNCHANGED kind /\ KeepsNotes /\ \A v \in Workers : RoomStep(v)
  BY <1>3, UnchangedKeepsNotes DEF TakeJob, TakeLock, Structure, StructureTypeOK
<1>4. ASSUME NEW w \in Workers, NEW j \in Jobs, FailStalledJob(w, j)
      PROVE  UNCHANGED kind /\ KeepsNotes /\ UNCHANGED workerVars
  BY <1>4, UnchangedKeepsNotes DEF FailStalledJob, FailJob, MoveToFailed
<1>5. ASSUME NEW w \in Workers, NEW unrecoverable, Throw(w, unrecoverable)
      PROVE  KeepsNotes /\ \A v \in Workers : RoomStep(v)
  BY <1>5, ThrowMoves DEF Throw, EndRun, Structure, StructureTypeOK
<1>6. ASSUME NEW w \in Workers, NEW next, Advance(w, next), pc[w] # "idle",
             next = "emit" => Owner[NoteOf(w)] \in online,
             next \in {"user", "send"} => kind[NoteOf(w)] = "email"
      PROVE  KeepsNotes /\ \A v \in Workers : RoomStep(v)
  BY <1>6, UnchangedKeepsNotes DEF Advance, queueVars, Structure, StructureTypeOK
<1>7. ASSUME NEW w \in Workers, HandleJob(w)
      PROVE  UNCHANGED kind /\ KeepsNotes /\ \A v \in Workers : RoomStep(v)
  <2>1. CASE FindNotification(w)
    BY <2>1, <1>5, <1>6 DEF FindNotification
  <2>2. CASE FetchSockets(w)
    BY <2>2, <1>5, <1>6 DEF FetchSockets
  <2>3. CASE EmitNotification(w)
    BY <2>3, <1>6 DEF EmitNotification
  <2>4. CASE FindUser(w)
    BY <2>4, <1>5, <1>6 DEF FindUser, RoomSeen
  <2>5. CASE SendMail(w)
    BY <2>5, <1>5, <1>6 DEF SendMail
  <2>6. CASE MarkSent(w)
    BY <2>6, <1>5, <1>6 DEF MarkSent
  <2>7. CASE CompleteRun(w)
    BY <2>7, UnchangedKeepsNotes
    DEF CompleteRun, EndRun, MoveToCompleted, queueVars, Structure, StructureTypeOK
  <2> QED
    BY <1>7, <2>1, <2>2, <2>3, <2>4, <2>5, <2>6, <2>7 DEF HandleJob
<1>8. ASSUME NEW w \in Workers, CallFails(w) \/ Crash(w)
      PROVE  UNCHANGED kind /\ KeepsNotes /\ \A v \in Workers : RoomStep(v)
  <2>1. CASE CallFails(w)
    BY <2>1, <1>5 DEF CallFails
  <2>2. CASE Crash(w)
    BY <2>2, UnchangedKeepsNotes
    DEF Crash, EndRun, queueVars, Structure, StructureTypeOK
  <2> QED
    BY <1>8, <2>1, <2>2
<1>9. ASSUME NEW h \in handlers, Handle(h)
      PROVE  UNCHANGED kind /\ KeepsNotes /\ UNCHANGED workerVars
  BY <1>9, UnchangedKeepsNotes
  DEF Handle, RecordProgress, markDeadLetter, moveToDLQ, queueVars
<1>10. ASSUME NEW a \in Admins, AdminStep(a) \/ AdminAbort(a)
       PROVE  UNCHANGED kind /\ KeepsNotes /\ UNCHANGED workerVars
  <2>1. CASE AdminEnqueue(a)
    <3>1. jobNote[adminEntry[a]] \in Notes
      BY <2>1, NoneIsNothing DEF AdminEnqueue, Structure, StructureTypeOK, DeadOK, JobsOK, Used
    <3> QED
      BY <2>1, <3>1, EnqueueKeepsNotes DEF AdminEnqueue
  <2>2. CASE AdminFetch(a) \/ AdminReset(a) \/ AdminRemove(a) \/ AdminAbort(a)
    BY <2>2, UnchangedKeepsNotes
    DEF AdminFetch, AdminReset, AdminRemove, AdminAbort, queueVars
  <2> QED
    BY <1>10, <2>1, <2>2 DEF AdminStep
<1>11. ASSUME NEW u \in Users, runCleanup(u) \/ Connect(u) \/ Disconnect(u)
       PROVE  UNCHANGED kind /\ KeepsNotes /\ UNCHANGED workerVars
  BY <1>11, UnchangedKeepsNotes DEF runCleanup, Connect, Disconnect, queueVars
<1>12. ASSUME NEW j \in Jobs, Promote(j) \/ RecoverStalled(j) \/ LoseLock(j)
       PROVE  UNCHANGED kind /\ KeepsNotes /\ UNCHANGED workerVars
  BY <1>12, UnchangedKeepsNotes
  DEF Promote, RecoverStalled, LoseLock, MoveToWaiting, MoveStalledToWaiting
<1>13. UNCHANGED workerVars => \A w \in Workers : RoomStep(w)
  BY DEF workerVars
<1> QED
  BY <1>1, <1>2, <1>3, <1>4, <1>7, <1>8, <1>9, <1>10, <1>11, <1>12, <1>13 DEF Next

LEMMA RoomSeenStep ==
    ASSUME Structure, RoomSeen, [Next]_vars, online \subseteq online'
    PROVE  RoomSeen'
<1> SUFFICES ASSUME NEW w \in Workers, pc'[w] \in {"emit", "user", "send"}
             PROVE  /\ pc'[w] = "emit" => Owner[NoteOf(w)'] \in online'
                    /\ pc'[w] # "emit" => kind'[NoteOf(w)'] = "email"
  BY DEF RoomSeen
<1>1. UNCHANGED kind /\ KeepsNotes /\ RoomStep(w)
  BY RoomSteps
<1>2. NoteOf(w)' = NoteOf(w)
  BY <1>1, NoteOfRun DEF RoomStep, KeepsNotes, NoteOf
<1> QED
  BY <1>1, <1>2 DEF RoomStep, RoomSeen

(***************************************************************************)
(* What emit_to_empty_room shows has one cause.  If no user's last socket  *)
(* leaves, every emit of the websocket worker (workers/websocket.worker.ts)*)
(* reaches somebody: crashes, lost locks, retries and re-drives do not     *)
(* carry a presence answer over to another run or another recipient.       *)
(***************************************************************************)
THEOREM OnlyDisconnectsEmptyRooms ==
    Spec /\ [][online \subseteq online']_vars => EmitReachesSomebody
<1> DEFINE Nobody == online \subseteq online'
           Reaches == \A n \in Notes :
                        (kind[n] = "websocket" /\ sends'[n] # sends[n])
                          => Owner[n] \in online
<1>1. Init => RoomSeen
  BY DEF Init, RoomSeen
<1>2. Structure /\ RoomSeen /\ [Next]_vars /\ [Nobody]_vars => RoomSeen'
  <2>1. UNCHANGED vars => online \subseteq online'
    BY DEF vars
  <2> QED
    BY <2>1, RoomSeenStep
<1>3. Structure /\ Rows /\ RoomSeen /\ [Next]_vars => [Reaches]_vars
  <2> SUFFICES ASSUME Structure, Rows, RoomSeen, [Next]_vars, NEW n \in Notes,
                      kind[n] = "websocket", sends'[n] # sends[n]
               PROVE  Owner[n] \in online
    OBVIOUS
  <2>1. PICK w \in Workers : SendStep(w)
    BY OnlyRunsSend
  <2>2. NoteOf(w) = n
    BY <2>1 DEF SendStep, CountSend, Rows, RowsTypeOK
  <2> QED
    BY <2>1, <2>2 DEF SendStep, RoomSeen
<1> QED
  BY <1>1, <1>2, <1>3, RowsInvariant, PTL DEF Spec, EmitReachesSomebody

=============================================================================
