--------------------------- MODULE DeliveryProofs ---------------------------
(***************************************************************************)
(* Proofs about the delivery pipeline, for any notifications, workers,     *)
(* admins, retry budget and faults.                                        *)
(*                                                                         *)
(* Structure is the part of the inductive invariant about jobs, locks,     *)
(* runs, handlers and dead letters; Rows is the part about the table and   *)
(* what has been sent; DeadLetters, in the second half, is what is needed  *)
(* to see that no accepted notification is lost.                           *)
(***************************************************************************)
EXTENDS DeliveryProperties, TLAPS

StructureTypeOK ==
    /\ QueueTypeOK
    /\ pc \in [Workers -> WorkerStates]
    /\ on \in [Workers -> Jobs \cup {None}]
    /\ handlers \subseteq Handlers
    /\ dlq \subseteq Jobs
    /\ adminPc \in [Admins -> AdminStates]
    /\ adminEntry \in [Admins -> Jobs \cup {None}]

(***************************************************************************)
(* The ids handed out are those of the jobs added, each for a              *)
(* notification; a job that may still run has an attempt left.             *)
(***************************************************************************)
Used(j) == jobState[j] # "unused"

JobsOK ==
    \A j \in Jobs :
      /\ Used(j) <=> j <= lastId
      /\ Used(j) => jobNote[j] \in Notes
      /\ Live(j) \/ ~Used(j) => attemptsMade[j] < Attempts

LocksOK == \A j \in Jobs : lock[j] # None => jobState[j] = "active"

RunsOK ==
    \A w \in Workers : pc[w] # "idle" => on[w] \in Jobs /\ Used(on[w])

DeadOK ==
    /\ \A h \in handlers : Used(h.job)
    /\ \A d \in dlq : Used(d)
    /\ \A a \in Admins :
         adminPc[a] # "idle" => adminEntry[a] \in Jobs /\ Used(adminEntry[a])

Structure == StructureTypeOK /\ JobsOK /\ LocksOK /\ RunsOK /\ DeadOK

-----------------------------------------------------------------------------
(***************************************************************************)
(* What keeps the structure: first the effects the actions are made of.    *)
(***************************************************************************)
LEMMA NoneIsNothing == None \notin Notes /\ None \notin Workers /\ None \notin Jobs
  BY QueueAssumption DEF Jobs

LEMMA InitStructure == Init => Structure
  BY QueueAssumption
  DEF Init, QueueInit, Structure, StructureTypeOK, QueueTypeOK, JobsOK, LocksOK,
      RunsOK, DeadOK, Used, Live, Jobs, JobStates, Handlers, WorkerStates,
      AdminStates

LEMMA AdvanceKeeps ==
    ASSUME Structure, NEW w \in Workers, pc[w] # "idle",
           NEW next \in WorkerStates, Advance(w, next), UNCHANGED <<dlq, adminVars>>
    PROVE  Structure'
  BY DEF Structure, StructureTypeOK, QueueTypeOK, JobsOK, LocksOK, RunsOK,
         DeadOK, Used, Live, Advance, queueVars, adminVars, Jobs

LEMMA EndRunKeeps ==
    ASSUME Structure, NEW w \in Workers, EndRun(w),
           UNCHANGED <<queueVars, dlq, adminVars>>, handlers' \subseteq handlers
    PROVE  Structure'
  BY DEF Structure, StructureTypeOK, QueueTypeOK, JobsOK, LocksOK, RunsOK,
         DeadOK, Used, Live, EndRun, queueVars, adminVars, Jobs, WorkerStates

(***************************************************************************)
(* Job j, which is waiting or whose lock w holds, fails.                   *)
(***************************************************************************)
LEMMA FailJobKeeps ==
    ASSUME Structure, NEW w \in Workers, NEW j \in Jobs, Live(j),
           NEW unrecoverable \in BOOLEAN, FailJob(w, j, unrecoverable),
           \/ EndRun(w)
           \/ UNCHANGED workerVars,
           UNCHANGED <<dlq, adminVars>>
    PROVE  Structure'
<1> DEFINE made == attemptsMade[j] + 1
           h == [job |-> j, made |-> made, process |-> w,
                 stage |-> IF isFinalAttempt(made, unrecoverable)
                           THEN "markDeadLetter" ELSE "progress"]
<1>1. attemptsMade[j] \in Nat /\ made \in 1 .. Attempts /\ Attempts \in Nat
  BY QueueAssumption DEF Structure, StructureTypeOK, QueueTypeOK, JobsOK, Jobs
<1>2. h \in Handlers
  BY <1>1 DEF Handlers, HandlerStages
<1>3. handlers' = handlers \cup {h}
  BY DEF FailJob
<1>4. MoveToFailed(j, unrecoverable)
  BY DEF FailJob
<1>5. Used(j)
  BY DEF Live, Used
<1> HIDE DEF h
<1>6. \A i \in Jobs : Used(i) <=> Used(i)'
  BY <1>4, <1>5 DEF MoveToFailed, Structure, StructureTypeOK, QueueTypeOK, Used
<1>7. StructureTypeOK'
  BY <1>1, <1>2, <1>3, <1>4 DEF Structure, StructureTypeOK, QueueTypeOK,
     MoveToFailed, EndRun, workerVars, adminVars, JobStates, WorkerStates
<1>8. JobsOK'
  BY <1>1, <1>4, <1>6 DEF Structure, StructureTypeOK, QueueTypeOK, JobsOK,
     MoveToFailed, Live, Used, Jobs
<1>9. LocksOK'
  BY <1>4 DEF Structure, StructureTypeOK, QueueTypeOK, LocksOK, MoveToFailed
<1>10. RunsOK'
  BY <1>6 DEF Structure, StructureTypeOK, RunsOK, EndRun, workerVars
<1>11. DeadOK'
  <2>1. \A g \in handlers' : g.job \in Jobs /\ Used(g.job)
    BY <1>3, <1>5 DEF Structure, StructureTypeOK, DeadOK, Handlers, h
  <2> QED
    BY <2>1, <1>6 DEF Structure, StructureTypeOK, DeadOK, adminVars
<1> QED
  BY <1>7, <1>8, <1>9, <1>10, <1>11 DEF Structure

LEMMA ThrowKeeps ==
    ASSUME Structure, NEW w \in Workers, pc[w] # "idle",
           NEW unrecoverable \in BOOLEAN, Throw(w, unrecoverable),
           UNCHANGED <<dlq, adminVars>>
    PROVE  Structure'
<1>1. CASE HoldsLock(w)
  <2>1. on[w] \in Jobs /\ Live(on[w])
    BY <1>1, NoneIsNothing DEF Structure, RunsOK, LocksOK, HoldsLock, Live
  <2> QED
    BY <1>1, <2>1, FailJobKeeps DEF Throw
<1>2. CASE ~HoldsLock(w)
  BY <1>2, EndRunKeeps DEF Throw
<1> QED
  BY <1>1, <1>2

(***************************************************************************)
(* The steps that touch one job: it is added, taken, completed, promoted   *)
(* or recovered.                                                           *)
(***************************************************************************)
LEMMA EnqueueKeeps ==
    ASSUME Structure, NEW n \in Notes, enqueueNotification(n),
           UNCHANGED <<workerVars, handlers, dlq>>,
           adminPc' \in [Admins -> AdminStates],
           UNCHANGED adminEntry,
           \A a \in Admins : adminPc'[a] # "idle" => adminPc[a] # "idle"
    PROVE  Structure'
<1> DEFINE new == lastId + 1
<1>1. new \in Jobs /\ ~Used(new) /\ lastId \in 0 .. MaxJobs /\ MaxJobs \in Nat
  BY QueueAssumption DEF Structure, StructureTypeOK, QueueTypeOK, JobsOK, Jobs,
     enqueueNotification
<1>2. \A j \in Jobs : Used(j)' <=> (Used(j) \/ j = new)
  BY <1>1 DEF enqueueNotification, Structure, StructureTypeOK, QueueTypeOK, Used
<1>3. StructureTypeOK'
  BY <1>1 DEF enqueueNotification, Structure, StructureTypeOK, QueueTypeOK,
     workerVars, JobStates
<1>4. JobsOK'
  BY <1>1, <1>2 DEF enqueueNotification, Structure, StructureTypeOK, QueueTypeOK,
     JobsOK, Live, Used, Jobs
<1>5. LocksOK'
  BY <1>1 DEF enqueueNotification, Structure, StructureTypeOK, QueueTypeOK,
     LocksOK, Used
<1>6. RunsOK' /\ DeadOK'
  BY <1>2 DEF Structure, StructureTypeOK, RunsOK, DeadOK, workerVars, Handlers
<1> QED
  BY <1>3, <1>4, <1>5, <1>6 DEF Structure

LEMMA TakeKeeps ==
    ASSUME Structure, NEW w \in Workers, NEW j \in Jobs, TakeJob(w, j)
    PROVE  Structure'
<1>1. \A i \in Jobs : Used(i)' <=> Used(i)
  BY DEF TakeJob, TakeLock, Structure, StructureTypeOK, QueueTypeOK, Used
<1>2. StructureTypeOK'
  BY DEF TakeJob, TakeLock, Structure, StructureTypeOK, QueueTypeOK, adminVars,
     JobStates, WorkerStates
<1>3. JobsOK' /\ LocksOK'
  BY <1>1 DEF TakeJob, TakeLock, Structure, StructureTypeOK, QueueTypeOK, JobsOK,
     LocksOK, Live, Used
<1>4. RunsOK' /\ DeadOK'
  BY <1>1 DEF TakeJob, TakeLock, Structure, StructureTypeOK, RunsOK, DeadOK,
     Used, adminVars, Handlers
<1> QED
  BY <1>2, <1>3, <1>4 DEF Structure

LEMMA CompleteKeeps ==
    ASSUME Structure, NEW w \in Workers, CompleteRun(w)
    PROVE  Structure'
<1>1. CASE HoldsLock(w)
  <2>1. on[w] \in Jobs /\ jobState[on[w]] = "active"
    BY <1>1, NoneIsNothing DEF CompleteRun, Structure, RunsOK, LocksOK, HoldsLock
  <2>2. MoveToCompleted(on[w]) /\ EndRun(w) /\ UNCHANGED <<handlers, dlq, adminVars>>
    BY <1>1 DEF CompleteRun
  <2>3. \A i \in Jobs : Used(i)' <=> Used(i)
    BY <2>1, <2>2 DEF MoveToCompleted, Structure, StructureTypeOK, QueueTypeOK, Used
  <2>4. StructureTypeOK'
    BY <2>1, <2>2 DEF MoveToCompleted, EndRun, Structure, StructureTypeOK,
       QueueTypeOK, adminVars, JobStates, WorkerStates
  <2>5. JobsOK' /\ LocksOK'
    BY <2>1, <2>2, <2>3 DEF MoveToCompleted, Structure, StructureTypeOK,
       QueueTypeOK, JobsOK, LocksOK, Live, Used
  <2>6. RunsOK' /\ DeadOK'
    BY <2>2, <2>3 DEF EndRun, Structure, StructureTypeOK, RunsOK, DeadOK,
       adminVars, Handlers
  <2> QED
    BY <2>4, <2>5, <2>6 DEF Structure
<1>2. CASE ~HoldsLock(w)
  BY <1>2, EndRunKeeps DEF CompleteRun
<1> QED
  BY <1>1, <1>2

LEMMA HandOutKeeps ==
    ASSUME Structure, NEW j \in Jobs,
           MoveToWaiting(j) \/ MoveStalledToWaiting(j),
           UNCHANGED <<workerVars, handlers, dlq, adminVars>>
    PROVE  Structure'
<1>1. \A i \in Jobs : Used(i)' <=> Used(i)
  BY DEF MoveToWaiting, MoveStalledToWaiting, Structure, StructureTypeOK,
     QueueTypeOK, Used
<1>2. StructureTypeOK'
  BY DEF MoveToWaiting, MoveStalledToWaiting, Structure, StructureTypeOK,
     QueueTypeOK, workerVars, adminVars, JobStates
<1>3. JobsOK' /\ LocksOK'
  BY <1>1 DEF MoveToWaiting, MoveStalledToWaiting, Structure, StructureTypeOK,
     QueueTypeOK, JobsOK, LocksOK, Live, Used
<1>4. RunsOK' /\ DeadOK'
  BY <1>1 DEF Structure, StructureTypeOK, RunsOK, DeadOK, workerVars, adminVars,
     Handlers
<1> QED
  BY <1>2, <1>3, <1>4 DEF Structure

(***************************************************************************)
(* A step of the failure handler h, and the steps of an admin request that *)
(* leave the queues alone.                                                 *)
(***************************************************************************)
LEMMA HandleKeeps ==
    ASSUME Structure, NEW h \in handlers, Handle(h)
    PROVE  Structure'
<1>1. h \in Handlers /\ h.job \in Jobs /\ Used(h.job)
  BY DEF Structure, StructureTypeOK, DeadOK, Handlers
<1>2. UNCHANGED <<queueVars, workerVars, adminVars>> /\ dlq' \subseteq dlq \cup {h.job}
  BY DEF Handle, RecordProgress, markDeadLetter, moveToDLQ
<1> DEFINE moved == [h EXCEPT !.stage = "moveToDLQ"]
<1>3. moved \in Handlers /\ moved.job = h.job
  BY <1>1 DEF Handlers, HandlerStages
<1>4. handlers' \subseteq handlers \cup {moved}
  BY DEF Handle, RecordProgress, markDeadLetter, moveToDLQ
<1> HIDE DEF moved
<1>5. \A i \in Jobs : Used(i)' <=> Used(i)
  BY <1>2 DEF queueVars, Used
<1>6. StructureTypeOK'
  BY <1>1, <1>2, <1>3, <1>4 DEF Structure, StructureTypeOK, QueueTypeOK,
     queueVars, workerVars, adminVars, Jobs
<1>7. JobsOK' /\ LocksOK' /\ RunsOK'
  BY <1>2 DEF Structure, JobsOK, LocksOK, RunsOK, Used, Live, queueVars,
     workerVars, Jobs
<1>8. DeadOK'
  BY <1>1, <1>2, <1>3, <1>4, <1>5 DEF Structure, StructureTypeOK, DeadOK,
     adminVars, Handlers
<1> QED
  BY <1>6, <1>7, <1>8 DEF Structure

LEMMA AdminKeeps ==
    ASSUME Structure, NEW a \in Admins,
           AdminFetch(a) \/ AdminReset(a) \/ AdminRemove(a) \/ AdminAbort(a)
    PROVE  Structure'
<1>1. UNCHANGED <<queueVars, workerVars, handlers>> /\ dlq' \subseteq dlq
  BY DEF AdminFetch, AdminReset, AdminRemove, AdminAbort
<1>2. /\ adminPc' \in [Admins -> AdminStates]
      /\ adminEntry' \in [Admins -> Jobs \cup {None}]
  BY DEF AdminFetch, AdminReset, AdminRemove, AdminAbort, Structure,
     StructureTypeOK, AdminStates
<1>3. \A b \in Admins : adminPc'[b] # "idle" =>
        \/ adminEntry'[b] \in dlq
        \/ adminPc[b] # "idle" /\ adminEntry'[b] = adminEntry[b]
  BY DEF AdminFetch, AdminReset, AdminRemove, AdminAbort, Structure,
     StructureTypeOK, AdminStates
<1>4. \A i \in Jobs : Used(i)' <=> Used(i)
  BY <1>1 DEF queueVars, Used
<1>5. StructureTypeOK'
  BY <1>1, <1>2 DEF Structure, StructureTypeOK, QueueTypeOK, queueVars,
     workerVars, Jobs
<1>6. JobsOK' /\ LocksOK' /\ RunsOK'
  BY <1>1 DEF Structure, JobsOK, LocksOK, RunsOK, Used, Live, queueVars,
     workerVars, Jobs
<1>7. DeadOK'
  BY <1>1, <1>3, <1>4 DEF Structure, StructureTypeOK, DeadOK, Handlers
<1> QED
  BY <1>5, <1>6, <1>7 DEF Structure

(***************************************************************************)
(* The runs of the two workers, one lemma for all steps of a run.          *)
(***************************************************************************)
LEMMA RunKeeps ==
    ASSUME Structure, NEW w \in Workers, HandleJob(w) \/ CallFails(w)
    PROVE  Structure'
<1> USE DEF WorkerStates
<1>1. CASE FindNotification(w)
  BY <1>1, AdvanceKeeps, ThrowKeeps DEF FindNotification
<1>2. CASE FetchSockets(w)
  BY <1>2, AdvanceKeeps, ThrowKeeps DEF FetchSockets
<1>3. CASE EmitNotification(w)
  BY <1>3, AdvanceKeeps DEF EmitNotification
<1>4. CASE FindUser(w)
  BY <1>4, AdvanceKeeps, ThrowKeeps DEF FindUser
<1>5. CASE SendMail(w)
  BY <1>5, AdvanceKeeps, ThrowKeeps DEF SendMail
<1>6. CASE MarkSent(w)
  BY <1>6, AdvanceKeeps, ThrowKeeps DEF MarkSent
<1>7. CASE CompleteRun(w)
  BY <1>7, CompleteKeeps
<1>8. CASE CallFails(w)
  BY <1>8, ThrowKeeps DEF CallFails
<1> QED
  BY <1>1, <1>2, <1>3, <1>4, <1>5, <1>6, <1>7, <1>8 DEF HandleJob

LEMMA QuietKeeps ==
    ASSUME Structure, UNCHANGED <<queueVars, workerVars, handlers, dlq, adminVars>>
    PROVE  Structure'
  BY DEF Structure, StructureTypeOK, QueueTypeOK, JobsOK, LocksOK, RunsOK, DeadOK,
     Used, Live, Jobs, queueVars, workerVars, adminVars

LEMMA StructureStep ==
    ASSUME Structure, [Next]_vars
    PROVE  Structure'
<1>1. CASE UNCHANGED vars
  BY <1>1, QuietKeeps DEF vars
<1>2. ASSUME NEW n \in Notes, InsertRow(n) \/ Commit(n) \/ Rollback(n)
      PROVE  Structure'
  BY <1>2, QuietKeeps DEF InsertRow, Commit, Rollback
<1>3. ASSUME NEW n \in Notes, EnqueueJob(n)
      PROVE  Structure'
  BY <1>3, EnqueueKeeps DEF EnqueueJob, Structure, StructureTypeOK, adminVars
<1>4. ASSUME NEW w \in Workers, NEW j \in Jobs, TakeJob(w, j)
      PROVE  Structure'
  BY <1>4, TakeKeeps
<1>5. ASSUME NEW w \in Workers, NEW j \in Jobs, FailStalledJob(w, j)
      PROVE  Structure'
  BY <1>5, FailJobKeeps DEF FailStalledJob, Live
<1>6. ASSUME NEW w \in Workers, HandleJob(w) \/ CallFails(w)
      PROVE  Structure'
  BY <1>6, RunKeeps
<1>7. ASSUME NEW w \in Workers, Crash(w)
      PROVE  Structure'
  BY <1>7, EndRunKeeps DEF Crash
<1>8. ASSUME NEW h \in handlers, Handle(h)
      PROVE  Structure'
  BY <1>8, HandleKeeps
<1>9. ASSUME NEW a \in Admins, AdminEnqueue(a)
      PROVE  Structure'
  <2>1. jobNote[adminEntry[a]] \in Notes
    BY <1>9 DEF AdminEnqueue, Structure, JobsOK, DeadOK
  <2>2. /\ adminPc' \in [Admins -> AdminStates]
        /\ \A b \in Admins : adminPc'[b] # "idle" => adminPc[b] # "idle"
    BY <1>9 DEF AdminEnqueue, Structure, StructureTypeOK, AdminStates
  <2> QED
    BY <1>9, <2>1, <2>2, EnqueueKeeps DEF AdminEnqueue
<1>10. ASSUME NEW a \in Admins,
              AdminFetch(a) \/ AdminReset(a) \/ AdminRemove(a) \/ AdminAbort(a)
       PROVE  Structure'
  BY <1>10, AdminKeeps
<1>11. ASSUME NEW u \in Users, runCleanup(u) \/ Connect(u) \/ Disconnect(u)
       PROVE  Structure'
  BY <1>11, QuietKeeps DEF runCleanup, Connect, Disconnect
<1>12. ASSUME NEW j \in Jobs, Promote(j) \/ RecoverStalled(j) \/ LoseLock(j)
       PROVE  Structure'
  BY <1>12, HandOutKeeps DEF Promote, RecoverStalled, LoseLock
<1> QED
  BY <1>1, <1>2, <1>3, <1>4, <1>5, <1>6, <1>7, <1>8, <1>9, <1>10, <1>11, <1>12
  DEF Next, AdminStep

LEMMA StructureInvariant == Spec => []Structure
<1>1. Structure /\ [Next]_vars => Structure'
  BY StructureStep
<1> QED
  BY InitStructure, <1>1, PTL DEF Spec

-----------------------------------------------------------------------------
(***************************************************************************)
(* The table and what has been sent.  A run past its checks works for a    *)
(* committed request; at "mark" it has sent, at "done" the row was SENT.   *)
(***************************************************************************)
RowsTypeOK ==
    /\ users \subseteq Users
    /\ row \in [Notes -> Statuses]
    /\ rowAttempts \in [Notes -> 0 .. Attempts]
    /\ kind \in [Notes -> Kinds]
    /\ request \in [Notes -> RequestStates]
    /\ online \subseteq Users
    /\ sends \in [Notes -> 0 .. 2]
    /\ wasSent \subseteq Notes

RowsCommitted ==
    \A n \in Notes :
      /\ row[n] # "absent" => request[n] = "committed"
      /\ row[n] = "SENT" => n \in wasSent

Checked == {"presence", "emit", "user", "send", "mark", "done"}

RunsChecked ==
    \A w \in Workers :
      /\ pc[w] \in Checked => request[NoteOf(w)] = "committed"
      /\ pc[w] = "mark" => sends[NoteOf(w)] >= 1
      /\ pc[w] = "done" => NoteOf(w) \in wasSent

Rows ==
    /\ RowsTypeOK
    /\ RowsCommitted
    /\ SentWasEmitted
    /\ OnlyCommittedSent
    /\ RunsChecked

LEMMA InitRows == Init => Rows
<1> SUFFICES ASSUME Init PROVE Rows
  OBVIOUS
<1>1. kind \in [Notes -> Kinds]
  BY DeliveryAssumption DEF Init
<1>2. RowsTypeOK
  BY <1>1, QueueAssumption DEF Init, RowsTypeOK, Statuses, RequestStates
<1>3. RowsCommitted /\ SentWasEmitted /\ OnlyCommittedSent /\ RunsChecked
  BY DEF Init, RowsCommitted, SentWasEmitted, OnlyCommittedSent, RunsChecked, Checked
<1> QED
  BY <1>2, <1>3 DEF Rows

LEMMA NoteOfRun ==
    ASSUME Structure, NEW w \in Workers, pc[w] # "idle"
    PROVE  on[w] \in Jobs /\ Used(on[w]) /\ NoteOf(w) \in Notes
  BY DEF Structure, RunsOK, JobsOK, NoteOf

(***************************************************************************)
(* A used job keeps its notification: ids are never handed out twice.      *)
(***************************************************************************)
KeepsNotes == \A j \in Jobs : Used(j) => jobNote'[j] = jobNote[j]

LEMMA UnchangedKeepsNotes == UNCHANGED jobNote => KeepsNotes
  BY DEF KeepsNotes

LEMMA EnqueueKeepsNotes ==
    ASSUME Structure, NEW n \in Notes, enqueueNotification(n)
    PROVE  KeepsNotes
<1>1. lastId + 1 \in Jobs /\ ~Used(lastId + 1)
  BY QueueAssumption DEF Structure, StructureTypeOK, QueueTypeOK, JobsOK, Jobs,
     enqueueNotification
<1> QED
  BY <1>1 DEF enqueueNotification, Structure, StructureTypeOK, QueueTypeOK, KeepsNotes

(***************************************************************************)
(* What a step may do to the table and to the sends, and where a run may   *)
(* stand after it.                                                         *)
(***************************************************************************)
TableStep(n) ==
    /\ request[n] = "committed" => request'[n] = "committed"
    /\ sends'[n] >= sends[n]
    /\ sends'[n] = sends[n] \/ request[n] = "committed"
    /\ row'[n] # "absent" => row[n] # "absent" \/ request'[n] = "committed"
    /\ row'[n] = "SENT" => row[n] = "SENT" \/ (sends[n] >= 1 /\ n \in wasSent')

RunStep(w) ==
    \/ pc'[w] \in {"idle", "find"}
    \/ pc'[w] = pc[w] /\ on'[w] = on[w]
    \/ /\ pc[w] # "idle" /\ on'[w] = on[w]
       /\ request[NoteOf(w)] = "committed"
       /\ pc'[w] = "mark" => sends'[NoteOf(w)] >= 1
       /\ pc'[w] = "done" => NoteOf(w) \in wasSent'

LEMMA RowsKept ==
    ASSUME Structure, Rows, KeepsNotes, RowsTypeOK', wasSent \subseteq wasSent',
           \A n \in Notes : TableStep(n),
           \A w \in Workers : RunStep(w)
    PROVE  Rows'
<1>1. RowsCommitted' /\ SentWasEmitted' /\ OnlyCommittedSent'
  BY DEF Rows, RowsTypeOK, RowsCommitted, SentWasEmitted, OnlyCommittedSent,
     TableStep
<1>2. RunsChecked'
  <2> SUFFICES ASSUME NEW w \in Workers, pc'[w] \in Checked
               PROVE  /\ request'[NoteOf(w)'] = "committed"
                      /\ pc'[w] = "mark" => sends'[NoteOf(w)'] >= 1
                      /\ pc'[w] = "done" => NoteOf(w)' \in wasSent'
    BY DEF RunsChecked, Checked
  <2>1. pc[w] # "idle" /\ on'[w] = on[w]
    BY DEF Checked, RunStep
  <2>2. NoteOf(w)' = NoteOf(w) /\ NoteOf(w) \in Notes
    BY <2>1, NoteOfRun DEF NoteOf, KeepsNotes
  <2>3. TableStep(NoteOf(w)) /\ RunStep(w)
    BY <2>2
  <2>4. sends[NoteOf(w)] \in Nat /\ sends'[NoteOf(w)] \in Nat
    BY <2>2 DEF Rows, RowsTypeOK
  <2> QED
    BY <2>2, <2>3, <2>4 DEF Rows, RunsChecked, TableStep, RunStep, Checked
<1> QED
  BY <1>1, <1>2 DEF Rows

(***************************************************************************)
(* A step that sends nothing and leaves the table alone.                   *)
(***************************************************************************)
LEMMA QuietRows ==
    ASSUME Structure, Rows, KeepsNotes,
           UNCHANGED <<tableVars, kind, request, online, historyVars>>,
           \A w \in Workers : RunStep(w)
    PROVE  Rows'
  BY RowsKept DEF Rows, RowsTypeOK, TableStep, tableVars, historyVars

(***************************************************************************)
(* How a step of w's run moves w.                                          *)
(***************************************************************************)
LEMMA EndRunMoves ==
    ASSUME Structure, NEW w \in Workers, EndRun(w)
    PROVE  \A v \in Workers : RunStep(v)
  BY DEF EndRun, Structure, StructureTypeOK, RunStep

LEMMA ThrowMoves ==
    ASSUME Structure, NEW w \in Workers, NEW unrecoverable, Throw(w, unrecoverable)
    PROVE  KeepsNotes /\ \A v \in Workers : RunStep(v)
<1>1. UNCHANGED jobNote
  BY DEF Throw, FailJob, MoveToFailed, queueVars
<1> QED
  BY <1>1, EndRunMoves, UnchangedKeepsNotes DEF Throw

LEMMA AdvanceMoves ==
    ASSUME Structure, NEW w \in Workers, pc[w] # "idle", NEW next, Advance(w, next),
           request[NoteOf(w)] = "committed",
           next = "mark" => sends'[NoteOf(w)] >= 1,
           next = "done" => NoteOf(w) \in wasSent'
    PROVE  KeepsNotes /\ \A v \in Workers : RunStep(v)
<1>1. UNCHANGED jobNote
  BY DEF Advance, queueVars
<1>2. \A v \in Workers : RunStep(v)
  BY DEF Advance, Structure, StructureTypeOK, RunStep
<1> QED
  BY <1>1, <1>2, UnchangedKeepsNotes

(***************************************************************************)
(* The steps of a run, one by one.                                         *)
(***************************************************************************)
LEMMA CheckedRun ==
    ASSUME Structure, Rows, NEW w \in Workers, pc[w] \in Checked
    PROVE  /\ pc[w] # "idle" /\ NoteOf(w) \in Notes
           /\ request[NoteOf(w)] = "committed"
           /\ pc[w] = "mark" => sends[NoteOf(w)] >= 1
           /\ pc[w] = "done" => NoteOf(w) \in wasSent
  BY NoteOfRun DEF Checked, Rows, RunsChecked

LEMMA FindRows ==
    ASSUME Structure, Rows, NEW w \in Workers, FindNotification(w)
    PROVE  Rows'
<1>1. NoteOf(w) \in Notes /\ pc[w] # "idle"
  BY NoteOfRun DEF FindNotification
<1>2. UNCHANGED <<tableVars, kind, request, online, historyVars>>
  BY DEF FindNotification
<1>3. CASE Throw(w, FALSE) \/ Throw(w, TRUE)
  BY <1>2, <1>3, ThrowMoves, QuietRows
<1>4. CASE alreadySent(NoteOf(w)) /\ Advance(w, "done")
  <2>1. request[NoteOf(w)] = "committed" /\ NoteOf(w) \in wasSent'
    BY <1>1, <1>2, <1>4 DEF alreadySent, Rows, RowsCommitted, historyVars
  <2> QED
    BY <1>1, <1>2, <1>4, <2>1, AdvanceMoves, QuietRows
<1>5. CASE /\ ~rowMissing(NoteOf(w))
           /\ Advance(w, "presence") \/ Advance(w, "user")
  <2>1. request[NoteOf(w)] = "committed"
    BY <1>1, <1>5 DEF rowMissing, Rows, RowsCommitted
  <2>2. KeepsNotes /\ \A v \in Workers : RunStep(v)
    BY <1>1, <1>5, <2>1, AdvanceMoves
  <2> QED
    BY <1>2, <2>2, QuietRows
<1> QED
  BY <1>3, <1>4, <1>5 DEF FindNotification

LEMMA PresenceRows ==
    ASSUME Structure, Rows, NEW w \in Workers, FetchSockets(w) \/ FindUser(w)
    PROVE  Rows'
<1>1. pc[w] \in Checked /\ UNCHANGED <<tableVars, kind, request, online, historyVars>>
  BY DEF FetchSockets, FindUser, Checked
<1>2. CASE Throw(w, FALSE) \/ Throw(w, TRUE)
  BY <1>1, <1>2, ThrowMoves, QuietRows
<1>3. CASE Advance(w, "emit") \/ Advance(w, "send")
  <2>1. KeepsNotes /\ \A v \in Workers : RunStep(v)
    BY <1>1, <1>3, CheckedRun, AdvanceMoves
  <2> QED
    BY <1>1, <2>1, QuietRows
<1> QED
  BY <1>2, <1>3 DEF FetchSockets, FindUser

LEMMA SendRows ==
    ASSUME Structure, Rows, NEW w \in Workers, EmitNotification(w) \/ SendMail(w)
    PROVE  Rows'
<1>1. /\ pc[w] \in Checked /\ CountSend(NoteOf(w))
      /\ UNCHANGED <<tableVars, kind, request, online, wasSent>>
  BY DEF EmitNotification, SendMail, Checked
<1>2. NoteOf(w) \in Notes /\ request[NoteOf(w)] = "committed" /\ pc[w] # "idle"
  BY <1>1, CheckedRun
<1>3. /\ sends' \in [Notes -> 0 .. 2] /\ sends'[NoteOf(w)] >= 1
      /\ \A n \in Notes : sends'[n] >= sends[n]
      /\ \A n \in Notes \ {NoteOf(w)} : sends'[n] = sends[n]
  BY <1>1, <1>2 DEF CountSend, Rows, RowsTypeOK
<1>4. KeepsNotes /\ \A v \in Workers : RunStep(v)
  <2>1. CASE Advance(w, "mark")
    BY <1>2, <1>3, <2>1, AdvanceMoves
  <2>2. CASE Throw(w, FALSE)
    BY <2>2, ThrowMoves
  <2> QED
    BY <2>1, <2>2 DEF EmitNotification, SendMail
<1>5. \A n \in Notes : TableStep(n)
  BY <1>1, <1>2, <1>3 DEF TableStep, tableVars
<1>6. RowsTypeOK' /\ wasSent \subseteq wasSent'
  BY <1>1, <1>3 DEF Rows, RowsTypeOK, tableVars
<1> QED
  BY <1>4, <1>5, <1>6, RowsKept

LEMMA MarkRows ==
    ASSUME Structure, Rows, NEW w \in Workers, MarkSent(w)
    PROVE  Rows'
<1>1. pc[w] \in Checked /\ UNCHANGED <<users, rowAttempts, kind, request, online, sends>>
  BY DEF MarkSent, Checked
<1>2. /\ NoteOf(w) \in Notes /\ request[NoteOf(w)] = "committed" /\ pc[w] # "idle"
      /\ sends[NoteOf(w)] >= 1
  BY <1>1, CheckedRun DEF MarkSent
<1>3. CASE row[NoteOf(w)] = "absent"
  BY <1>1, <1>3, ThrowMoves, QuietRows DEF MarkSent, tableVars, historyVars
<1>4. CASE row[NoteOf(w)] # "absent"
  <2>1. /\ row' = [row EXCEPT ![NoteOf(w)] = "SENT"]
        /\ wasSent' = wasSent \cup {NoteOf(w)}
        /\ Advance(w, "done") \/ Throw(w, FALSE)
    BY <1>4 DEF MarkSent
  <2>2. KeepsNotes /\ \A v \in Workers : RunStep(v)
    BY <1>2, <2>1, AdvanceMoves, ThrowMoves
  <2>3. RowsTypeOK'
    BY <1>1, <1>2, <2>1 DEF Rows, RowsTypeOK, Statuses
  <2>4. \A n \in Notes : TableStep(n)
    BY <1>1, <1>2, <2>1 DEF Rows, RowsTypeOK, TableStep
  <2> QED
    BY <2>1, <2>2, <2>3, <2>4, RowsKept
<1> QED
  BY <1>3, <1>4

LEMMA CompleteRows ==
    ASSUME Structure, Rows, NEW w \in Workers, CompleteRun(w)
    PROVE  Rows'
<1>1. UNCHANGED jobNote /\ EndRun(w)
  BY DEF CompleteRun, MoveToCompleted, queueVars
<1> QED
  BY <1>1, EndRunMoves, UnchangedKeepsNotes, QuietRows DEF CompleteRun

(***************************************************************************)
(* The steps that write the table and send nothing.                        *)
(***************************************************************************)
LEMMA TableRows ==
    ASSUME Structure, Rows, KeepsNotes, RowsTypeOK',
           UNCHANGED <<workerVars, historyVars>>,
           \A n \in Notes : request[n] = "committed" => request'[n] = "committed",
           \A n \in Notes :
             /\ row'[n] # "absent" => row[n] # "absent" \/ request'[n] = "committed"
             /\ row'[n] = "SENT" => row[n] = "SENT"
    PROVE  Rows'
<1>1. \A w \in Workers : RunStep(w)
  BY DEF workerVars, RunStep
<1>2. \A n \in Notes : TableStep(n)
  BY DEF historyVars, TableStep, Rows, RowsTypeOK
<1> QED
  BY <1>1, <1>2, RowsKept DEF historyVars

LEMMA TransactionRows ==
    ASSUME Structure, Rows, NEW n \in Notes,
           InsertRow(n) \/ EnqueueJob(n) \/ Commit(n) \/ Rollback(n)
    PROVE  Rows'
<1>1. KeepsNotes
  BY EnqueueKeepsNotes, UnchangedKeepsNotes
  DEF InsertRow, EnqueueJob, Commit, Rollback, queueVars
<1>2. UNCHANGED <<workerVars, historyVars, users, rowAttempts, kind, online>>
  BY DEF InsertRow, EnqueueJob, Commit, Rollback, tableVars
<1>3. /\ request' \in [Notes -> RequestStates]
      /\ request[n] # "committed"
      /\ \A m \in Notes \ {n} : request'[m] = request[m]
  BY DEF InsertRow, EnqueueJob, Commit, Rollback, Rows, RowsTypeOK, RequestStates
<1>4. \/ UNCHANGED row
      \/ row' = [row EXCEPT ![n] = "QUEUED"] /\ request'[n] = "committed"
  BY DEF InsertRow, EnqueueJob, Commit, Rollback, Rows, RowsTypeOK, tableVars
<1>5. RowsTypeOK'
  BY <1>2, <1>3, <1>4 DEF Rows, RowsTypeOK, historyVars, Statuses
<1> QED
  BY <1>1, <1>2, <1>3, <1>4, <1>5, TableRows DEF Rows, RowsTypeOK

LEMMA HandlerRows ==
    ASSUME Structure, Rows, NEW h \in handlers, Handle(h)
    PROVE  Rows'
<1>1. jobNote[h.job] \in Notes /\ h.made \in 0 .. Attempts
  BY QueueAssumption DEF Structure, StructureTypeOK, DeadOK, JobsOK, Handlers
<1>2. UNCHANGED <<queueVars, workerVars, historyVars, users, kind, request, online>>
  BY DEF Handle, RecordProgress, markDeadLetter, moveToDLQ, tableVars
<1>3. KeepsNotes
  BY <1>2, UnchangedKeepsNotes DEF queueVars
<1>4. /\ \/ UNCHANGED row
         \/ /\ row[jobNote[h.job]] # "absent"
            /\ row' = [row EXCEPT ![jobNote[h.job]] = "DEAD_LETTER"]
      /\ \/ UNCHANGED rowAttempts
         \/ rowAttempts' = [rowAttempts EXCEPT ![jobNote[h.job]] = h.made]
  BY DEF Handle, RecordProgress, markDeadLetter, moveToDLQ, tableVars
<1>5. RowsTypeOK'
  BY <1>1, <1>2, <1>4 DEF Rows, RowsTypeOK, historyVars, Statuses
<1>6. \A n \in Notes : /\ row'[n] # "absent" => row[n] # "absent"
                       /\ row'[n] = "SENT" => row[n] = "SENT"
  BY <1>1, <1>4 DEF Rows, RowsTypeOK
<1> QED
  BY <1>2, <1>3, <1>5, <1>6, TableRows

LEMMA AdminRows ==
    ASSUME Structure, Rows, NEW a \in Admins, AdminStep(a) \/ AdminAbort(a)
    PROVE  Rows'
<1>1. UNCHANGED <<workerVars, historyVars, users, kind, request, online>>
  BY DEF AdminStep, AdminFetch, AdminEnqueue, AdminReset, AdminRemove, AdminAbort,
     tableVars
<1>2. adminPc[a] # "idle" => jobNote[adminEntry[a]] \in Notes
  BY DEF Structure, DeadOK, JobsOK
<1>3. KeepsNotes
  <2>1. CASE AdminEnqueue(a)
    BY <1>2, <2>1, EnqueueKeepsNotes DEF AdminEnqueue
  <2>2. CASE ~AdminEnqueue(a)
    BY <2>2, UnchangedKeepsNotes
    DEF AdminStep, AdminFetch, AdminReset, AdminRemove, AdminAbort, queueVars
  <2> QED
    BY <2>1, <2>2
<1>4. \/ UNCHANGED <<row, rowAttempts>>
      \/ LET n == jobNote[adminEntry[a]] IN
         /\ n \in Notes
         /\ row[n] # "absent"
         /\ row' = [row EXCEPT ![n] = "QUEUED"]
         /\ rowAttempts' = [rowAttempts EXCEPT ![n] = 0]
  BY <1>2 DEF AdminStep, AdminFetch, AdminEnqueue, AdminReset, AdminRemove,
     AdminAbort, tableVars
<1>5. RowsTypeOK'
  BY <1>1, <1>4, QueueAssumption DEF Rows, RowsTypeOK, historyVars, Statuses
<1>6. \A n \in Notes : /\ row'[n] # "absent" => row[n] # "absent"
                       /\ row'[n] = "SENT" => row[n] = "SENT"
  BY <1>4 DEF Rows, RowsTypeOK
<1> QED
  BY <1>1, <1>3, <1>5, <1>6, TableRows

LEMMA EnvironmentRows ==
    ASSUME Structure, Rows, NEW u \in Users,
           runCleanup(u) \/ Connect(u) \/ Disconnect(u)
    PROVE  Rows'
<1>1. UNCHANGED <<queueVars, workerVars, historyVars, kind, request>>
  BY DEF runCleanup, Connect, Disconnect, tableVars
<1>2. KeepsNotes
  BY <1>1, UnchangedKeepsNotes DEF queueVars
<1>3. RowsTypeOK'
  BY <1>1, QueueAssumption
  DEF runCleanup, Connect, Disconnect, tableVars, Rows, RowsTypeOK, historyVars, Statuses
<1>4. \A n \in Notes : /\ row'[n] # "absent" => row[n] # "absent"
                       /\ row'[n] = "SENT" => row[n] = "SENT"
  BY DEF runCleanup, Connect, Disconnect, tableVars
<1> QED
  BY <1>1, <1>2, <1>3, <1>4, TableRows

LEMMA RowsStep ==
    ASSUME Structure, Rows, [Next]_vars
    PROVE  Rows'
<1>1. CASE UNCHANGED vars
  BY <1>1, UnchangedKeepsNotes, QuietRows
  DEF vars, queueVars, workerVars, tableVars, historyVars, RunStep
<1>2. ASSUME NEW n \in Notes,
             InsertRow(n) \/ EnqueueJob(n) \/ Commit(n) \/ Rollback(n)
      PROVE  Rows'
  BY <1>2, TransactionRows
<1>3. ASSUME NEW w \in Workers, NEW j \in Jobs, TakeJob(w, j)
      PROVE  Rows'
  <2>1. \A v \in Workers : RunStep(v)
    BY <1>3 DEF TakeJob, Structure, StructureTypeOK, RunStep
  <2> QED
    BY <1>3, <2>1, UnchangedKeepsNotes, QuietRows DEF TakeJob, TakeLock
<1>4. ASSUME NEW w \in Workers, NEW j \in Jobs, FailStalledJob(w, j)
      PROVE  Rows'
  BY <1>4, UnchangedKeepsNotes, QuietRows
  DEF FailStalledJob, FailJob, MoveToFailed, workerVars, RunStep
<1>5. ASSUME NEW w \in Workers, HandleJob(w)
      PROVE  Rows'
  BY <1>5, FindRows, PresenceRows, SendRows, MarkRows, CompleteRows DEF HandleJob
<1>6. ASSUME NEW w \in Workers, CallFails(w)
      PROVE  Rows'
  BY <1>6, ThrowMoves, QuietRows DEF CallFails
<1>7. ASSUME NEW w \in Workers, Crash(w)
      PROVE  Rows'
  BY <1>7, EndRunMoves, UnchangedKeepsNotes, QuietRows DEF Crash, queueVars
<1>8. ASSUME NEW h \in handlers, Handle(h)
      PROVE  Rows'
  BY <1>8, HandlerRows
<1>9. ASSUME NEW a \in Admins, AdminStep(a) \/ AdminAbort(a)
      PROVE  Rows'
  BY <1>9, AdminRows
<1>10. ASSUME NEW u \in Users, runCleanup(u) \/ Connect(u) \/ Disconnect(u)
       PROVE  Rows'
  BY <1>10, EnvironmentRows
<1>11. ASSUME NEW j \in Jobs, Promote(j) \/ RecoverStalled(j) \/ LoseLock(j)
       PROVE  Rows'
  BY <1>11, UnchangedKeepsNotes, QuietRows
  DEF Promote, RecoverStalled, LoseLock, MoveToWaiting, MoveStalledToWaiting,
      workerVars, RunStep
<1> QED
  BY <1>1, <1>2, <1>3, <1>4, <1>5, <1>6, <1>7, <1>8, <1>9, <1>10, <1>11 DEF Next

LEMMA RowsInvariant == Spec => [](Structure /\ Rows)
<1>1. Init => Structure /\ Rows
  BY InitStructure, InitRows
<1>2. Structure /\ Rows /\ [Next]_vars => (Structure /\ Rows)'
  BY StructureStep, RowsStep
<1> QED
  BY <1>1, <1>2, PTL DEF Spec

(***************************************************************************)
(* Every variable keeps its type, whatever the number of notifications,    *)
(* workers and admins: in particular no job is ever tried more often than  *)
(* its retry budget allows (DEFAULT_JOB_OPTS, queue/notifications.ts).     *)
(***************************************************************************)
THEOREM TypeCorrect == Spec => []TypeOK
<1>1. Structure /\ Rows => TypeOK
  BY DEF Structure, StructureTypeOK, Rows, RowsTypeOK, TypeOK, DeliveryTypeOK
<1> QED
  BY RowsInvariant, <1>1, PTL

(***************************************************************************)
(* A SENT row was emitted or mailed (websocket.worker.ts, email.worker.ts: *)
(* the row is updated after the push), under every fault, with several     *)
(* runs of one job at once and with admins re-driving it.                  *)
(***************************************************************************)
THEOREM SentRowsWereEmitted == Spec => []SentWasEmitted
  BY RowsInvariant, PTL DEF Rows

(***************************************************************************)
(* Nothing is emitted or mailed for a request that did not commit          *)
(* (notifications.service.ts enqueues inside the transaction; the workers  *)
(* look the row up first).                                                 *)
(***************************************************************************)
THEOREM NothingUncommittedSent == Spec => []OnlyCommittedSent
  BY RowsInvariant, PTL DEF Rows

-----------------------------------------------------------------------------
(***************************************************************************)
(* From here on: the dead-letter path loses nothing.  A dead-lettered job  *)
(* is dead in BullMQ too, a job is dead-lettered once, and as long as no   *)
(* process dies and Redis answers, every accepted notification that was    *)
(* never SENT stays in somebody's custody.                                 *)
(***************************************************************************)
Final(h) == h.stage # "progress"

(***************************************************************************)
(* The failure handler's idea of a final failure is BullMQ's, and a final  *)
(* failure is handled once: by a handler, then by an entry, then by the    *)
(* admins who fetched that entry.                                          *)
(***************************************************************************)
FinalAgrees ==
    \A h \in handlers :
      /\ h.made <= attemptsMade[h.job]
      /\ Final(h) <=> jobState[h.job] = "failed" /\ h.made = attemptsMade[h.job]

FinalOnce ==
    /\ \A h, g \in handlers : Final(h) /\ Final(g) /\ h.job = g.job => h = g
    /\ \A h \in handlers : Final(h) => h.job \notin dlq
    /\ \A h \in handlers, a \in Admins :
         Final(h) /\ adminPc[a] # "idle" => adminEntry[a] # h.job

EntriesFailed ==
    /\ \A d \in dlq : jobState[d] = "failed"
    /\ \A a \in Admins : adminPc[a] # "idle" => jobState[adminEntry[a]] = "failed"

DeadLetters == FinalAgrees /\ FinalOnce /\ EntriesFailed

LEMMA InitDeadLetters == Init => DeadLetters
  BY DEF Init, DeadLetters, FinalAgrees, FinalOnce, EntriesFailed

(***************************************************************************)
(* A step that fails no job and adds no handler and no entry.              *)
(***************************************************************************)
AdminsFollow ==
    \A a \in Admins : adminPc'[a] # "idle" =>
      \/ adminPc[a] # "idle" /\ adminEntry'[a] = adminEntry[a]
      \/ adminEntry'[a] \in dlq

LEMMA QuietDeadLetters ==
    ASSUME Structure, DeadLetters, UNCHANGED attemptsMade, AdminsFollow,
           handlers' \subseteq handlers, dlq' \subseteq dlq,
           \A j \in Jobs : jobState'[j] = "failed" <=> jobState[j] = "failed"
    PROVE  DeadLetters'
<1>1. /\ \A h \in handlers : h.job \in Jobs
      /\ \A d \in dlq : d \in Jobs
      /\ \A a \in Admins : adminPc[a] # "idle" => adminEntry[a] \in Jobs
  BY DEF Structure, StructureTypeOK, DeadOK, Handlers
<1>2. FinalAgrees'
  BY <1>1 DEF DeadLetters, FinalAgrees, Final
<1>3. FinalOnce'
  BY DEF DeadLetters, FinalOnce, Final, AdminsFollow
<1>4. EntriesFailed'
  BY <1>1 DEF DeadLetters, EntriesFailed, AdminsFollow
<1> QED
  BY <1>2, <1>3, <1>4 DEF DeadLetters

(***************************************************************************)
(* A job that was still live fails: it had no final handler, no entry and  *)
(* no admin yet.                                                           *)
(***************************************************************************)
LEMMA FailDeadLetters ==
    ASSUME Structure, DeadLetters, NEW w \in Workers, NEW j \in Jobs, Live(j),
           NEW unrecoverable \in BOOLEAN, FailJob(w, j, unrecoverable),
           UNCHANGED <<dlq, adminVars>>
    PROVE  DeadLetters'
<1> DEFINE made == attemptsMade[j] + 1
           h == [job |-> j, made |-> made, process |-> w,
                 stage |-> IF isFinalAttempt(made, unrecoverable)
                           THEN "markDeadLetter" ELSE "progress"]
<1>1. /\ attemptsMade[j] \in Nat
      /\ attemptsMade' = [attemptsMade EXCEPT ![j] = made]
      /\ handlers' = handlers \cup {h}
      /\ \A i \in Jobs \ {j} : attemptsMade'[i] = attemptsMade[i]
                               /\ jobState'[i] = jobState[i]
      /\ attemptsMade'[j] = made
      /\ jobState'[j] = "failed" <=> isFinalAttempt(made, unrecoverable)
  BY QueueAssumption DEF FailJob, MoveToFailed, isFinalAttempt, Structure,
     StructureTypeOK, QueueTypeOK
<1>2. h.job = j /\ h.made = made /\ (Final(h) <=> jobState'[j] = "failed")
  BY <1>1 DEF Final
<1> HIDE DEF h
<1>3. \A g \in handlers : g.job \in Jobs /\ g.made \in Nat
  BY DEF Structure, StructureTypeOK, Handlers
<1>4. \A g \in handlers : g.job = j => ~Final(g) /\ g.made < made
  BY <1>1, <1>3 DEF DeadLetters, FinalAgrees, Live
<1>5. j \notin dlq /\ \A a \in Admins : adminPc[a] # "idle" => adminEntry[a] # j
  BY DEF DeadLetters, EntriesFailed, Live
<1>6. FinalAgrees'
  <2> SUFFICES ASSUME NEW g \in handlers'
               PROVE  /\ g.made <= attemptsMade'[g.job]
                      /\ Final(g) <=> jobState'[g.job] = "failed"
                                      /\ g.made = attemptsMade'[g.job]
    BY DEF FinalAgrees, Final
  <2>1. CASE g = h
    BY <1>1, <1>2, <2>1
  <2>2. CASE g \in handlers /\ g.job = j
    BY <1>1, <1>3, <1>4, <2>2
  <2>3. CASE g \in handlers /\ g.job # j
    BY <1>1, <1>3, <2>3 DEF DeadLetters, FinalAgrees
  <2> QED
    BY <1>1, <2>1, <2>2, <2>3
<1>7. FinalOnce'
  BY <1>1, <1>2, <1>4, <1>5 DEF DeadLetters, FinalOnce, Final, adminVars
<1>8. EntriesFailed'
  BY <1>1, <1>5 DEF DeadLetters, EntriesFailed, adminVars, Structure, DeadOK,
     StructureTypeOK
<1> QED
  BY <1>6, <1>7, <1>8 DEF DeadLetters

LEMMA ThrowDeadLetters ==
    ASSUME Structure, DeadLetters, NEW w \in Workers, pc[w] # "idle",
           NEW unrecoverable \in BOOLEAN, Throw(w, unrecoverable),
           UNCHANGED <<dlq, adminVars>>
    PROVE  DeadLetters'
<1>1. CASE HoldsLock(w)
  <2>1. on[w] \in Jobs /\ Live(on[w])
    BY <1>1, NoneIsNothing DEF Structure, RunsOK, LocksOK, HoldsLock, Live
  <2> QED
    BY <1>1, <2>1, FailDeadLetters DEF Throw
<1>2. CASE ~HoldsLock(w)
  BY <1>2, QuietDeadLetters DEF Throw, queueVars, adminVars, AdminsFollow
<1> QED
  BY <1>1, <1>2

(***************************************************************************)
(* The failure handler passes the job on to the dead-letter queue.         *)
(***************************************************************************)
LEMMA HandleDeadLetters ==
    ASSUME Structure, DeadLetters, NEW h \in handlers, Handle(h)
    PROVE  DeadLetters'
<1>1. UNCHANGED <<queueVars, adminVars>>
  BY DEF Handle, RecordProgress, markDeadLetter, moveToDLQ
<1>2. CASE RecordProgress(h)
  BY <1>1, <1>2, QuietDeadLetters DEF RecordProgress, queueVars, adminVars, AdminsFollow
<1>3. CASE markDeadLetter(h)
  <2> DEFINE moved == [h EXCEPT !.stage = "moveToDLQ"]
  <2>1. /\ moved.job = h.job /\ moved.made = h.made
        /\ Final(h) /\ Final(moved)
    BY <1>3 DEF markDeadLetter, Final, Structure, StructureTypeOK, Handlers
  <2>2. handlers' = (handlers \ {h}) \cup {moved} /\ UNCHANGED dlq
    BY <1>3 DEF markDeadLetter
  <2> HIDE DEF moved
  <2>3. FinalAgrees'
    BY <1>1, <2>1, <2>2 DEF DeadLetters, FinalAgrees, Final, queueVars
  <2>4. FinalOnce'
    BY <1>1, <2>1, <2>2 DEF DeadLetters, FinalOnce, Final, adminVars
  <2>5. EntriesFailed'
    BY <1>1, <2>2 DEF DeadLetters, EntriesFailed, queueVars, adminVars
  <2> QED
    BY <2>3, <2>4, <2>5 DEF DeadLetters
<1>4. CASE moveToDLQ(h)
  <2>1. Final(h) /\ handlers' = handlers \ {h} /\ dlq' \subseteq dlq \cup {h.job}
    BY <1>4 DEF moveToDLQ, Final
  <2>2. FinalAgrees'
    BY <1>1, <2>1 DEF DeadLetters, FinalAgrees, Final, queueVars
  <2>3. FinalOnce'
    BY <1>1, <2>1 DEF DeadLetters, FinalOnce, Final, adminVars
  <2>4. EntriesFailed'
    BY <1>1, <2>1 DEF DeadLetters, FinalAgrees, EntriesFailed, queueVars, adminVars
  <2> QED
    BY <2>2, <2>3, <2>4 DEF DeadLetters
<1> QED
  BY <1>2, <1>3, <1>4 DEF Handle

LEMMA EnqueueDeadLetters ==
    ASSUME Structure, DeadLetters, NEW n \in Notes, enqueueNotification(n),
           UNCHANGED <<handlers, dlq>>, AdminsFollow
    PROVE  DeadLetters'
<1>1. lastId + 1 \in Jobs /\ ~Used(lastId + 1)
  BY QueueAssumption DEF Structure, StructureTypeOK, QueueTypeOK, JobsOK, Jobs,
     enqueueNotification
<1>2. \A j \in Jobs : jobState'[j] = "failed" <=> jobState[j] = "failed"
  BY <1>1 DEF enqueueNotification, Structure, StructureTypeOK, QueueTypeOK, Used
<1> QED
  BY <1>2, QuietDeadLetters DEF enqueueNotification

LEMMA DeadLettersStep ==
    ASSUME Structure, DeadLetters, [Next]_vars
    PROVE  DeadLetters'
<1> USE QuietDeadLetters DEF AdminsFollow
<1>1. CASE UNCHANGED vars
  BY <1>1 DEF vars, queueVars, adminVars
<1>2. ASSUME NEW n \in Notes, InsertRow(n) \/ Commit(n) \/ Rollback(n)
      PROVE  DeadLetters'
  BY <1>2 DEF InsertRow, Commit, Rollback, queueVars, adminVars
<1>3. ASSUME NEW n \in Notes, EnqueueJob(n)
      PROVE  DeadLetters'
  BY <1>3, EnqueueDeadLetters DEF EnqueueJob, adminVars
<1>4. ASSUME NEW w \in Workers, NEW j \in Jobs, TakeJob(w, j)
      PROVE  DeadLetters'
  BY <1>4 DEF TakeJob, TakeLock, adminVars, Structure, StructureTypeOK, QueueTypeOK
<1>5. ASSUME NEW w \in Workers, NEW j \in Jobs, FailStalledJob(w, j)
      PROVE  DeadLetters'
  BY <1>5, FailDeadLetters DEF FailStalledJob, Live
<1>6. ASSUME NEW w \in Workers, NEW next, pc[w] # "idle", Advance(w, next),
             UNCHANGED <<dlq, adminVars>>
      PROVE  DeadLetters'
  BY <1>6 DEF Advance, queueVars, adminVars
<1>7. ASSUME NEW w \in Workers, CompleteRun(w)
      PROVE  DeadLetters'
  <2>1. UNCHANGED <<handlers, dlq, adminVars>>
    BY <1>7 DEF CompleteRun
  <2>2. CASE HoldsLock(w)
    <3>1. on[w] \in Jobs /\ jobState[on[w]] = "active"
      BY <1>7, <2>2, NoneIsNothing DEF CompleteRun, Structure, RunsOK, LocksOK, HoldsLock
    <3> QED
      BY <1>7, <2>1, <2>2, <3>1
      DEF CompleteRun, MoveToCompleted, adminVars, Structure, StructureTypeOK, QueueTypeOK
  <2>3. CASE ~HoldsLock(w)
    BY <1>7, <2>1, <2>3 DEF CompleteRun, queueVars, adminVars
  <2> QED
    BY <2>2, <2>3
<1>8. ASSUME NEW w \in Workers, HandleJob(w) \/ CallFails(w)
      PROVE  DeadLetters'
  <2>1. CASE FindNotification(w)
    BY <2>1, <1>6, ThrowDeadLetters DEF FindNotification
  <2>2. CASE FetchSockets(w) \/ FindUser(w)
    BY <2>2, <1>6, ThrowDeadLetters DEF FetchSockets, FindUser
  <2>3. CASE EmitNotification(w) \/ SendMail(w)
    BY <2>3, <1>6, ThrowDeadLetters DEF EmitNotification, SendMail
  <2>4. CASE MarkSent(w)
    BY <2>4, <1>6, ThrowDeadLetters DEF MarkSent
  <2>5. CASE CompleteRun(w)
    BY <2>5, <1>7
  <2>6. CASE CallFails(w)
    BY <2>6, ThrowDeadLetters DEF CallFails
  <2> QED
    BY <1>8, <2>1, <2>2, <2>3, <2>4, <2>5, <2>6 DEF HandleJob
<1>9. ASSUME NEW w \in Workers, Crash(w)
      PROVE  DeadLetters'
  BY <1>9 DEF Crash, queueVars, adminVars
<1>10. ASSUME NEW h \in handlers, Handle(h)
       PROVE  DeadLetters'
  BY <1>10, HandleDeadLetters
<1>11. ASSUME NEW a \in Admins, AdminEnqueue(a)
       PROVE  DeadLetters'
  <2>1. jobNote[adminEntry[a]] \in Notes
    BY <1>11 DEF AdminEnqueue, Structure, JobsOK, DeadOK
  <2>2. AdminsFollow
    BY <1>11 DEF AdminEnqueue, Structure, StructureTypeOK
  <2> QED
    BY <1>11, <2>1, <2>2, EnqueueDeadLetters DEF AdminEnqueue
<1>12. ASSUME NEW a \in Admins,
              AdminFetch(a) \/ AdminReset(a) \/ AdminRemove(a) \/ AdminAbort(a)
       PROVE  DeadLetters'
  <2>1. AdminsFollow
    BY <1>12 DEF AdminFetch, AdminReset, AdminRemove, AdminAbort, Structure,
       StructureTypeOK
  <2> QED
    BY <1>12, <2>1 DEF AdminFetch, AdminReset, AdminRemove, AdminAbort, queueVars
<1>13. ASSUME NEW u \in Users, runCleanup(u) \/ Connect(u) \/ Disconnect(u)
       PROVE  DeadLetters'
  BY <1>13 DEF runCleanup, Connect, Disconnect, queueVars, adminVars
<1>14. ASSUME NEW j \in Jobs, Promote(j) \/ RecoverStalled(j) \/ LoseLock(j)
       PROVE  DeadLetters'
  BY <1>14 DEF Promote, RecoverStalled, LoseLock, MoveToWaiting, MoveStalledToWaiting,
     adminVars, Structure, StructureTypeOK, QueueTypeOK
<1> QED
  BY <1>1, <1>2, <1>3, <1>4, <1>5, <1>8, <1>9, <1>10, <1>11, <1>12, <1>13, <1>14
  DEF Next, AdminStep

LEMMA DeadLettersInvariant == Spec => [](Structure /\ Rows /\ DeadLetters)
<1>1. DeadLetters /\ Structure /\ [Next]_vars => DeadLetters'
  BY DeadLettersStep
<1> QED
  BY RowsInvariant, InitDeadLetters, <1>1, PTL DEF Spec

(***************************************************************************)
(* What the failure handler dead-letters, BullMQ will not run again: its   *)
(* own isFinalAttempt (failure-handler.ts) agrees with BullMQ's verdict on *)
(* every failure, whatever faults, stalls and re-drives happen.            *)
(***************************************************************************)
THEOREM DeadLettersAreDead == Spec => []DlqJobIsDead
<1>1. DeadLetters => DlqJobIsDead
  BY DEF DeadLetters, FinalAgrees, EntriesFailed, Final, DlqJobIsDead
<1> QED
  BY DeadLettersInvariant, <1>1, PTL

-----------------------------------------------------------------------------
(***************************************************************************)
(* Nothing accepted is lost.  A job in custody may be on its way out: its  *)
(* entry, because an admin has enqueued its successor already; the job     *)
(* itself, because its run is about to complete.  The invariant asks for a *)
(* job that is not.                                                        *)
(***************************************************************************)
Reliable == "crash" \notin Faults /\ "redis" \notin Faults

Redriven(j) ==
    \E a \in Admins : adminPc[a] \in {"enqueued", "reset"} /\ adminEntry[a] = j

Finishing(j) == \E w \in Workers : pc[w] = "done" /\ on[w] = j /\ lock[j] = w

Kept(j) == InCustody(j) /\ ~Redriven(j)

Accepted(n) == request[n] \in {"enqueued", "committed"}

HasKeeper(n) == \E j \in Jobs : jobNote[j] = n /\ Kept(j)

HasLastingKeeper(n) == \E j \in Jobs : jobNote[j] = n /\ Kept(j) /\ ~Finishing(j)

Custody ==
    \A n \in Notes :
      /\ Accepted(n) => n \in wasSent \/ HasKeeper(n)
      /\ row[n] = "DEAD_LETTER" => HasLastingKeeper(n)

LEMMA InitCustody == Init => Custody
  BY DEF Init, Custody, Accepted

LEMMA KeptIsUsed ==
    ASSUME Structure, NEW j \in Jobs, Kept(j)
    PROVE  Used(j)
  BY DEF Structure, DeadOK, Kept, InCustody, Live, Used

(***************************************************************************)
(* What a step may do to the keepers of a notification.                    *)
(***************************************************************************)
KeeperStep(j) ==
    /\ Kept(j) => jobNote[j] \in wasSent \/ Kept(j)'
    /\ Kept(j) /\ ~Finishing(j) /\ row'[jobNote[j]] = "DEAD_LETTER" =>
         Kept(j)' /\ ~Finishing(j)'

LEMMA CustodyKept ==
    ASSUME Structure, Custody, KeepsNotes, wasSent \subseteq wasSent',
           \A j \in Jobs : Kept(j) => KeeperStep(j),
           \A n \in Notes : Accepted(n)' => Accepted(n),
           \A n \in Notes : row'[n] = "DEAD_LETTER" =>
             row[n] = "DEAD_LETTER" \/ HasLastingKeeper(n)'
    PROVE  Custody'
<1> SUFFICES ASSUME NEW n \in Notes
             PROVE  /\ Accepted(n)' => n \in wasSent' \/ HasKeeper(n)'
                    /\ row'[n] = "DEAD_LETTER" => HasLastingKeeper(n)'
  BY DEF Custody
<1>1. \A j \in Jobs : Kept(j) => jobNote'[j] = jobNote[j]
  BY KeptIsUsed DEF KeepsNotes
<1>2. ASSUME Accepted(n)' PROVE n \in wasSent' \/ HasKeeper(n)'
  <2>1. CASE n \in wasSent
    BY <2>1
  <2>2. CASE n \notin wasSent
    <3>1. PICK j \in Jobs : jobNote[j] = n /\ Kept(j)
      BY <1>2, <2>2 DEF Custody, HasKeeper
    <3> QED
      BY <1>1, <2>2, <3>1 DEF KeeperStep, HasKeeper
  <2> QED
    BY <2>1, <2>2
<1>3. ASSUME row'[n] = "DEAD_LETTER" PROVE HasLastingKeeper(n)'
  <2>1. CASE row[n] = "DEAD_LETTER"
    <3>1. PICK j \in Jobs : jobNote[j] = n /\ Kept(j) /\ ~Finishing(j)
      BY <2>1 DEF Custody, HasLastingKeeper
    <3> QED
      BY <1>1, <1>3, <3>1 DEF KeeperStep, HasLastingKeeper
  <2> QED
    BY <1>3, <2>1
<1> QED
  BY <1>2, <1>3

(***************************************************************************)
(* The steps that lose no custody at all.                                  *)
(***************************************************************************)
LEMMA QuietCustody ==
    ASSUME Structure, Custody, KeepsNotes, wasSent \subseteq wasSent',
           \A j \in Jobs : InCustody(j) /\ ~Redriven(j) => InCustody(j)',
           \A j \in Jobs : Redriven(j)' => Redriven(j),
           \A j \in Jobs : Finishing(j)' =>
             Finishing(j) \/ row'[jobNote[j]] # "DEAD_LETTER",
           \A n \in Notes : Accepted(n)' => Accepted(n),
           \A n \in Notes : row'[n] = "DEAD_LETTER" => row[n] = "DEAD_LETTER"
    PROVE  Custody'
<1>1. \A j \in Jobs : Kept(j) => KeeperStep(j)
  BY DEF Kept, KeeperStep
<1> QED
  BY <1>1, CustodyKept

(***************************************************************************)
(* A live job fails: it is delayed, or its handler dead-letters it.        *)
(***************************************************************************)
LEMMA FailCustody ==
    ASSUME Structure, NEW w \in Workers, NEW j \in Jobs, Live(j),
           NEW unrecoverable \in BOOLEAN, FailJob(w, j, unrecoverable),
           UNCHANGED <<dlq, adminVars>>
    PROVE  /\ KeepsNotes
           /\ \A i \in Jobs : InCustody(i) => InCustody(i)'
           /\ \A i \in Jobs : Redriven(i)' => Redriven(i)
           /\ \A i \in Jobs : lock'[i] \in {lock[i], None}
<1> DEFINE made == attemptsMade[j] + 1
           h == [job |-> j, made |-> made, process |-> w,
                 stage |-> IF isFinalAttempt(made, unrecoverable)
                           THEN "markDeadLetter" ELSE "progress"]
<1>1. /\ handlers' = handlers \cup {h}
      /\ UNCHANGED jobNote
      /\ \A i \in Jobs \ {j} : jobState'[i] = jobState[i]
      /\ jobState'[j] = IF isFinalAttempt(made, unrecoverable) THEN "failed" ELSE "delayed"
      /\ \A i \in Jobs : lock'[i] \in {lock[i], None}
  BY DEF FailJob, MoveToFailed, isFinalAttempt, Structure, StructureTypeOK, QueueTypeOK
<1>2. h.job = j /\ (h.stage # "progress" <=> isFinalAttempt(made, unrecoverable))
  OBVIOUS
<1> HIDE DEF h
<1>3. InCustody(j)'
  BY <1>1, <1>2 DEF InCustody, Live
<1>4. \A i \in Jobs \ {j} : InCustody(i) => InCustody(i)'
  BY <1>1 DEF InCustody, Live
<1> QED
  BY <1>1, <1>3, <1>4, UnchangedKeepsNotes DEF Redriven, adminVars

LEMMA ThrowCustody ==
    ASSUME Structure, Custody, NEW w \in Workers, pc[w] # "idle",
           NEW unrecoverable \in BOOLEAN, Throw(w, unrecoverable),
           UNCHANGED <<dlq, adminVars, request>>, wasSent \subseteq wasSent',
           \A n \in Notes : row'[n] = "DEAD_LETTER" => row[n] = "DEAD_LETTER"
    PROVE  Custody'
<1>1. /\ KeepsNotes
      /\ \A i \in Jobs : InCustody(i) => InCustody(i)'
      /\ \A i \in Jobs : Redriven(i)' => Redriven(i)
      /\ \A i \in Jobs : lock'[i] \in {lock[i], None}
  <2>1. CASE HoldsLock(w)
    <3>1. on[w] \in Jobs /\ Live(on[w])
      BY <2>1, NoneIsNothing DEF Structure, RunsOK, LocksOK, HoldsLock, Live
    <3> QED
      BY <2>1, <3>1, FailCustody DEF Throw
  <2>2. CASE ~HoldsLock(w)
    BY <2>2, UnchangedKeepsNotes
    DEF Throw, queueVars, adminVars, InCustody, Live, Redriven
  <2> QED
    BY <2>1, <2>2
<1>2. \A j \in Jobs : Finishing(j)' => Finishing(j)
  BY <1>1, NoneIsNothing DEF Throw, EndRun, Finishing, Structure, StructureTypeOK
<1> QED
  BY <1>1, <1>2, QuietCustody DEF Accepted

(***************************************************************************)
(* A run moves on; at "done" the row it has checked or written is SENT.    *)
(***************************************************************************)
LEMMA AdvanceCustody ==
    ASSUME Structure, Custody, NEW w \in Workers, pc[w] # "idle", NEW next,
           Advance(w, next), next = "done" => row'[NoteOf(w)] = "SENT",
           UNCHANGED <<dlq, adminVars, request>>, wasSent \subseteq wasSent',
           \A n \in Notes : row'[n] = "DEAD_LETTER" => row[n] = "DEAD_LETTER"
    PROVE  Custody'
<1>1. UNCHANGED <<queueVars, handlers, on>> /\ pc' = [pc EXCEPT ![w] = next]
  BY DEF Advance
<1>2. KeepsNotes
  BY <1>1, UnchangedKeepsNotes DEF queueVars
<1>3. \A j \in Jobs : InCustody(j) => InCustody(j)'
  BY <1>1 DEF queueVars, InCustody, Live
<1>4. \A j \in Jobs : Redriven(j)' => Redriven(j)
  BY DEF adminVars, Redriven
<1>5. \A j \in Jobs : Finishing(j)' =>
        Finishing(j) \/ row'[jobNote[j]] # "DEAD_LETTER"
  BY <1>1 DEF Finishing, queueVars, NoteOf, Structure, StructureTypeOK
<1> QED
  BY <1>2, <1>3, <1>4, <1>5, QuietCustody DEF Accepted

LEMMA CompleteCustody ==
    ASSUME Structure, Rows, Custody, NEW w \in Workers, CompleteRun(w)
    PROVE  Custody'
<1>1. /\ pc[w] = "done" /\ EndRun(w)
      /\ UNCHANGED <<tableVars, request, handlers, dlq, adminVars, historyVars>>
  BY DEF CompleteRun
<1>2. NoteOf(w) \in wasSent /\ on[w] \in Jobs
  BY <1>1, CheckedRun, NoteOfRun DEF Checked
<1>3. /\ UNCHANGED jobNote
      /\ \A j \in Jobs : lock'[j] \in {lock[j], None}
      /\ \A j \in Jobs : jobState'[j] = jobState[j] \/ (j = on[w] /\ lock[j] = w)
  BY DEF CompleteRun, MoveToCompleted, HoldsLock, queueVars, Structure,
     StructureTypeOK, QueueTypeOK
<1>4. \A j \in Jobs : Finishing(j)' => Finishing(j)
  BY <1>1, <1>3, NoneIsNothing DEF EndRun, Finishing, Structure, StructureTypeOK
<1>5. \A j \in Jobs : Kept(j) => KeeperStep(j)
  <2> SUFFICES ASSUME NEW j \in Jobs, Kept(j) PROVE KeeperStep(j)
    OBVIOUS
  <2>1. CASE jobState'[j] = jobState[j]
    BY <1>1, <1>4, <2>1 DEF Kept, KeeperStep, InCustody, Live, Redriven, adminVars
  <2>2. CASE j = on[w] /\ lock[j] = w
    BY <1>1, <1>2, <2>2 DEF KeeperStep, Finishing, NoteOf
  <2> QED
    BY <1>3, <2>1, <2>2
<1> QED
  BY <1>1, <1>3, <1>5, UnchangedKeepsNotes, CustodyKept
  DEF Accepted, tableVars, historyVars

(***************************************************************************)
(* A job is added for n: it is the new keeper of n.                        *)
(***************************************************************************)
LEMMA EnqueueCustody ==
    ASSUME Structure, Custody, NEW n \in Notes, enqueueNotification(n),
           UNCHANGED <<workerVars, handlers, dlq, adminEntry, historyVars, row>>,
           \A m \in Notes \ {n} : request'[m] = request[m],
           \A a \in Admins : adminPc'[a] # "idle" => adminPc[a] # "idle",
           \A j \in Jobs : Redriven(j)' => Redriven(j) \/ jobNote[j] = n
    PROVE  Custody'
<1>1. PICK new \in Jobs : new = lastId + 1 /\ ~Used(new)
  BY QueueAssumption DEF Structure, StructureTypeOK, QueueTypeOK, JobsOK, Jobs,
     enqueueNotification
<1>2. /\ jobNote'[new] = n /\ jobState'[new] = "waiting"
      /\ \A j \in Jobs \ {new} : jobNote'[j] = jobNote[j] /\ jobState'[j] = jobState[j]
      /\ UNCHANGED lock
  BY <1>1 DEF enqueueNotification, Structure, StructureTypeOK, QueueTypeOK
<1>3. HasLastingKeeper(n)'
  <2>1. InCustody(new)'
    BY <1>2 DEF InCustody, Live
  <2>2. ~Redriven(new)'
    BY <1>1 DEF Redriven, Structure, DeadOK
  <2>3. ~Finishing(new)'
    BY <1>1, <1>2, NoneIsNothing DEF Finishing, Structure, LocksOK, Used, RunsOK,
       workerVars
  <2> QED
    BY <1>1, <1>2, <2>1, <2>2, <2>3 DEF HasLastingKeeper, Kept
<1>4. \A j \in Jobs : Kept(j) /\ jobNote[j] # n =>
        /\ jobNote'[j] = jobNote[j]
        /\ Kept(j)'
        /\ Finishing(j)' => Finishing(j)
  <2> SUFFICES ASSUME NEW j \in Jobs, Kept(j), jobNote[j] # n
               PROVE  /\ jobNote'[j] = jobNote[j]
                      /\ Kept(j)'
                      /\ Finishing(j)' => Finishing(j)
    OBVIOUS
  <2>1. j # new
    BY <1>1, KeptIsUsed
  <2> QED
    BY <1>2, <2>1 DEF Kept, InCustody, Live, Finishing, workerVars
<1>5. ASSUME NEW m \in Notes, m # n
      PROVE  /\ Accepted(m)' => m \in wasSent' \/ HasKeeper(m)'
             /\ row'[m] = "DEAD_LETTER" => HasLastingKeeper(m)'
  BY <1>4, <1>5 DEF Custody, Accepted, HasKeeper, HasLastingKeeper, historyVars
<1>6. HasKeeper(n)'
  BY <1>3 DEF HasKeeper, HasLastingKeeper
<1> QED
  BY <1>3, <1>5, <1>6 DEF Custody

(***************************************************************************)
(* The failure handler: the row it dead-letters has h.job as its keeper,   *)
(* which nobody has fetched yet.                                           *)
(***************************************************************************)
LEMMA HandleCustody ==
    ASSUME Reliable, Structure, Rows, DeadLetters, Custody,
           NEW h \in handlers, Handle(h)
    PROVE  Custody'
<1>1. /\ UNCHANGED <<queueVars, workerVars, adminVars, historyVars, request>>
      /\ h.job \in Jobs /\ jobNote[h.job] \in Notes
  BY DEF Handle, RecordProgress, markDeadLetter, moveToDLQ, tableVars, Structure,
     StructureTypeOK, DeadOK, JobsOK, Handlers
<1>2. /\ KeepsNotes
      /\ \A j \in Jobs : Redriven(j)' <=> Redriven(j)
      /\ \A j \in Jobs : Finishing(j)' <=> Finishing(j)
      /\ \A n \in Notes : Accepted(n)' <=> Accepted(n)
      /\ wasSent \subseteq wasSent'
  BY <1>1, UnchangedKeepsNotes
  DEF queueVars, workerVars, adminVars, historyVars, Redriven, Finishing, Accepted
<1>3. \A j \in Jobs : InCustody(j) => InCustody(j)'
  <2>1. CASE RecordProgress(h)
    BY <1>1, <2>1 DEF RecordProgress, InCustody, Live, queueVars
  <2>2. CASE markDeadLetter(h)
    <3> DEFINE moved == [h EXCEPT !.stage = "moveToDLQ"]
    <3>1. moved.job = h.job /\ moved.stage # "progress"
      BY DEF Structure, StructureTypeOK, Handlers
    <3>2. handlers' = (handlers \ {h}) \cup {moved} /\ UNCHANGED dlq
      BY <2>2 DEF markDeadLetter
    <3> HIDE DEF moved
    <3> QED
      BY <1>1, <3>1, <3>2 DEF InCustody, Live, queueVars
  <2>3. CASE moveToDLQ(h)
    <3>1. handlers' = handlers \ {h} /\ dlq' = dlq \cup {h.job}
      BY <2>3 DEF moveToDLQ, Reliable
    <3> QED
      BY <1>1, <3>1 DEF InCustody, Live, queueVars
  <2> QED
    BY <2>1, <2>2, <2>3 DEF Handle
<1>4. CASE \A n \in Notes : row'[n] = "DEAD_LETTER" => row[n] = "DEAD_LETTER"
  BY <1>2, <1>3, <1>4, QuietCustody
<1>5. CASE markDeadLetter(h)
  <2>1. InCustody(h.job) /\ jobState[h.job] = "failed"
    BY <1>5 DEF markDeadLetter, InCustody, DeadLetters, FinalAgrees, Final
  <2>2. ~Redriven(h.job)
    <3>1. \A a \in Admins : adminPc[a] # "idle" => adminEntry[a] # h.job
      BY <1>5 DEF markDeadLetter, DeadLetters, FinalOnce, Final
    <3> QED
      BY <3>1 DEF Redriven
  <2>3. ~Finishing(h.job)
    <3>1. lock[h.job] = None
      BY <1>1, <2>1 DEF Structure, LocksOK
    <3> QED
      BY <3>1, NoneIsNothing DEF Finishing
  <2>4. \A n \in Notes : n = jobNote[h.job] => HasLastingKeeper(n)'
    BY <1>1, <1>2, <1>3, <2>1, <2>2, <2>3 DEF HasLastingKeeper, Kept, queueVars
  <2>5. \A n \in Notes : row'[n] = "DEAD_LETTER" =>
          row[n] = "DEAD_LETTER" \/ HasLastingKeeper(n)'
    BY <1>5, <2>4 DEF markDeadLetter, Rows, RowsTypeOK
  <2>6. \A j \in Jobs : Kept(j) => KeeperStep(j)
    BY <1>2, <1>3 DEF Kept, KeeperStep
  <2> QED
    BY <1>2, <2>5, <2>6, CustodyKept
<1> QED
  BY <1>4, <1>5 DEF Handle, RecordProgress, moveToDLQ, tableVars

(***************************************************************************)
(* The admin request: its entry leaves the queue once the entry's          *)
(* successor is enqueued.                                                  *)
(***************************************************************************)
LEMMA AdminCustody ==
    ASSUME Structure, Rows, Custody, NEW a \in Admins, AdminStep(a) \/ AdminAbort(a)
    PROVE  Custody'
<1>1. CASE AdminEnqueue(a)
  <2>1. jobNote[adminEntry[a]] \in Notes
    BY <1>1 DEF AdminEnqueue, Structure, JobsOK, DeadOK
  <2>2. \A b \in Admins : adminPc'[b] # "idle" => adminPc[b] # "idle"
    BY <1>1 DEF AdminEnqueue, Structure, StructureTypeOK
  <2>3. \A j \in Jobs : Redriven(j)' => Redriven(j) \/ j = adminEntry[a]
    BY <1>1 DEF AdminEnqueue, Redriven, Structure, StructureTypeOK
  <2> QED
    BY <1>1, <2>1, <2>2, <2>3, EnqueueCustody DEF AdminEnqueue, tableVars
<1>2. CASE AdminFetch(a) \/ AdminReset(a) \/ AdminRemove(a) \/ AdminAbort(a)
  <2>1. /\ UNCHANGED <<queueVars, workerVars, handlers, historyVars, request>>
        /\ \A n \in Notes : row'[n] = "DEAD_LETTER" => row[n] = "DEAD_LETTER"
    BY <1>2 DEF AdminFetch, AdminReset, AdminRemove, AdminAbort, tableVars, Rows,
       RowsTypeOK
  <2>2. \A j \in Jobs : Redriven(j)' => Redriven(j)
    BY <1>2 DEF AdminFetch, AdminReset, AdminRemove, AdminAbort, Redriven,
       Structure, StructureTypeOK
  <2>3. \A j \in Jobs : InCustody(j) /\ ~Redriven(j) => InCustody(j)'
    BY <1>2, <2>1 DEF AdminFetch, AdminReset, AdminRemove, AdminAbort, InCustody,
       Live, Redriven, queueVars
  <2>4. /\ KeepsNotes /\ wasSent \subseteq wasSent'
        /\ \A j \in Jobs : Finishing(j)' => Finishing(j)
        /\ \A n \in Notes : Accepted(n)' => Accepted(n)
    BY <2>1, UnchangedKeepsNotes
    DEF queueVars, workerVars, historyVars, Finishing, Accepted
  <2> QED
    BY <2>1, <2>2, <2>3, <2>4, QuietCustody
<1> QED
  BY <1>1, <1>2 DEF AdminStep

LEMMA EnvironmentCustody ==
    ASSUME Structure, Rows, Custody,
           \/ \E n \in Notes : InsertRow(n) \/ Commit(n) \/ Rollback(n)
           \/ \E u \in Users : runCleanup(u) \/ Connect(u) \/ Disconnect(u)
           \/ UNCHANGED vars
    PROVE  Custody'
<1>1. /\ UNCHANGED <<queueVars, workerVars, adminVars, handlers, dlq, historyVars>>
      /\ \A n \in Notes : row'[n] = "DEAD_LETTER" => row[n] = "DEAD_LETTER"
      /\ \A n \in Notes : Accepted(n)' => Accepted(n)
  BY DEF InsertRow, Commit, Rollback, runCleanup, Connect, Disconnect, vars,
     tableVars, Accepted, Rows, RowsTypeOK
<1>2. /\ KeepsNotes /\ wasSent \subseteq wasSent'
      /\ \A j \in Jobs : InCustody(j) => InCustody(j)'
      /\ \A j \in Jobs : Redriven(j)' => Redriven(j)
      /\ \A j \in Jobs : Finishing(j)' => Finishing(j)
  BY <1>1, UnchangedKeepsNotes
  DEF queueVars, workerVars, adminVars, historyVars, InCustody, Live, Redriven, Finishing
<1> QED
  BY <1>1, <1>2, QuietCustody

LEMMA CustodyStep ==
    ASSUME Reliable, Structure, Rows, DeadLetters, Custody, [Next]_vars
    PROVE  Custody'
<1>1. ASSUME NEW n \in Notes, EnqueueJob(n)
      PROVE  Custody'
  BY <1>1, EnqueueCustody
  DEF EnqueueJob, adminVars, tableVars, Redriven, Rows, RowsTypeOK
<1>2. ASSUME NEW w \in Workers, NEW j \in Jobs, TakeJob(w, j)
      PROVE  Custody'
  <2>1. \A i \in Jobs : Live(i) => Live(i)'
    BY <1>2 DEF TakeJob, TakeLock, Live, Structure, StructureTypeOK, QueueTypeOK
  <2>2. \A i \in Jobs : Finishing(i)' => Finishing(i)
    BY <1>2 DEF TakeJob, TakeLock, Finishing, Structure, StructureTypeOK, QueueTypeOK
  <2> QED
    BY <1>2, <2>1, <2>2, UnchangedKeepsNotes, QuietCustody
    DEF TakeJob, TakeLock, InCustody, Redriven, adminVars, tableVars, historyVars,
        Accepted
<1>3. ASSUME NEW w \in Workers, NEW j \in Jobs, FailStalledJob(w, j)
      PROVE  Custody'
  <2>1. /\ KeepsNotes
        /\ \A i \in Jobs : InCustody(i) => InCustody(i)'
        /\ \A i \in Jobs : Redriven(i)' => Redriven(i)
        /\ \A i \in Jobs : lock'[i] \in {lock[i], None}
    BY <1>3, FailCustody DEF FailStalledJob, Live
  <2>2. \A i \in Jobs : Finishing(i)' => Finishing(i)
    BY <1>3, <2>1, NoneIsNothing DEF FailStalledJob, Finishing, workerVars
  <2> QED
    BY <1>3, <2>1, <2>2, QuietCustody
    DEF FailStalledJob, tableVars, historyVars, Accepted
<1>4. ASSUME NEW w \in Workers, HandleJob(w) \/ CallFails(w)
      PROVE  Custody'
  <2>1. CASE FindNotification(w)
    BY <2>1, AdvanceCustody, ThrowCustody
    DEF FindNotification, alreadySent, tableVars, historyVars
  <2>2. CASE FetchSockets(w) \/ FindUser(w)
    BY <2>2, AdvanceCustody, ThrowCustody
    DEF FetchSockets, FindUser, tableVars, historyVars
  <2>3. CASE EmitNotification(w) \/ SendMail(w)
    BY <2>3, AdvanceCustody, ThrowCustody DEF EmitNotification, SendMail, tableVars
  <2>4. CASE MarkSent(w)
    <3>1. NoteOf(w) \in Notes
      BY <2>4, NoteOfRun DEF MarkSent
    <3>2. CASE row[NoteOf(w)] = "absent"
      BY <2>4, <3>2, ThrowCustody DEF MarkSent
    <3>3. CASE row[NoteOf(w)] # "absent"
      <4>1. /\ row'[NoteOf(w)] = "SENT"
            /\ \A n \in Notes : row'[n] = "DEAD_LETTER" => row[n] = "DEAD_LETTER"
        BY <2>4, <3>1, <3>3 DEF MarkSent, Rows, RowsTypeOK
      <4> QED
        BY <2>4, <3>3, <4>1, AdvanceCustody, ThrowCustody DEF MarkSent
    <3> QED
      BY <3>2, <3>3
  <2>5. CASE CompleteRun(w)
    BY <2>5, CompleteCustody
  <2>6. CASE CallFails(w)
    BY <2>6, ThrowCustody DEF CallFails, tableVars, historyVars
  <2> QED
    BY <1>4, <2>1, <2>2, <2>3, <2>4, <2>5, <2>6 DEF HandleJob
<1>5. ASSUME NEW j \in Jobs, Promote(j) \/ RecoverStalled(j) \/ LoseLock(j)
      PROVE  Custody'
  <2>1. /\ UNCHANGED <<jobNote, workerVars, adminVars, handlers, dlq, tableVars,
                       historyVars, request>>
        /\ \A i \in Jobs : Live(i) => Live(i)'
        /\ \A i \in Jobs : lock'[i] \in {lock[i], None}
    BY <1>5 DEF Promote, RecoverStalled, LoseLock, MoveToWaiting,
       MoveStalledToWaiting, Live, Structure, StructureTypeOK, QueueTypeOK
  <2>2. \A i \in Jobs : Finishing(i)' => Finishing(i)
    BY <2>1, NoneIsNothing DEF Finishing, workerVars
  <2> QED
    BY <2>1, <2>2, UnchangedKeepsNotes, QuietCustody
    DEF InCustody, Redriven, adminVars, tableVars, historyVars, Accepted
<1>6. ASSUME NEW w \in Workers, Crash(w)
      PROVE  Custody'
  BY <1>6 DEF Crash, Reliable
<1>7. ASSUME NEW h \in handlers, Handle(h)
      PROVE  Custody'
  BY <1>7, HandleCustody
<1>8. ASSUME NEW a \in Admins, AdminStep(a) \/ AdminAbort(a)
      PROVE  Custody'
  BY <1>8, AdminCustody
<1> QED
  BY <1>1, <1>2, <1>3, <1>4, <1>5, <1>6, <1>7, <1>8, EnvironmentCustody DEF Next

LEMMA CustodyInvariant == ASSUME Reliable PROVE Spec => []Custody
<1>1. Structure /\ Rows /\ DeadLetters /\ Custody /\ [Next]_vars => Custody'
  BY CustodyStep
<1> QED
  BY DeadLettersInvariant, InitCustody, <1>1, PTL DEF Spec

(***************************************************************************)
(* An accepted notification is never lost: until it is SENT, a job that    *)
(* will run, an entry of the dead-letter queue or a handler writing that   *)
(* entry has it, over stalls, database and mail errors and any number of   *)
(* admins re-driving the same entry at once.  The processes must live and  *)
(* Redis must answer: the 'failed' listener (failure-handler.ts) is not    *)
(* awaited and swallows the error of moveToDLQ.                            *)
(***************************************************************************)
THEOREM AcceptedNeverLost == ASSUME Reliable PROVE Spec => []Accounted
<1>1. Custody => Accounted
  BY DEF Custody, Accepted, HasKeeper, Kept, Accounted
<1> QED
  BY CustodyInvariant, <1>1, PTL

(***************************************************************************)
(* A DEAD_LETTER row can always be re-driven or is about to be: the admin  *)
(* endpoint (routes/admin.ts) removes an entry only after its successor is *)
(* enqueued, and a stale run that overwrites a SENT row brings its own     *)
(* entry.                                                                  *)
(***************************************************************************)
THEOREM DeadLettersRetryable == ASSUME Reliable PROVE Spec => []DeadLetterRetryable
<1>1. Custody => DeadLetterRetryable
  BY DEF Custody, HasLastingKeeper, Kept, DeadLetterRetryable
<1> QED
  BY CustodyInvariant, <1>1, PTL

=============================================================================
