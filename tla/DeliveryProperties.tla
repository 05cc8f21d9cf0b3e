------------------------- MODULE DeliveryProperties -------------------------
(***************************************************************************)
(* What the delivery pipeline must and must not do.  Each property says    *)
(* which failures it survives; the runs choose Faults and Admins to match. *)
(***************************************************************************)
EXTENDS Delivery

(***************************************************************************)
(* A SENT row was emitted or mailed, whatever fails, stalls or crashes and *)
(* however the admin endpoint interferes: "never a SENT row that wasn't    *)
(* actually sent" (README.md, DB writes happen after the emit).            *)
(***************************************************************************)
SentWasEmitted == \A n \in Notes : row[n] = "SENT" => sends[n] >= 1

(***************************************************************************)
(* Nothing goes out for a request whose transaction did not commit, though *)
(* its job is in the queue before the commit and stays after a rollback:   *)
(* "rolled-back notifications are not sent" (README.md).                   *)
(***************************************************************************)
OnlyCommittedSent ==
    \A n \in Notes : sends[n] >= 1 => request[n] = "committed"

(***************************************************************************)
(* The failure handler's isFinalAttempt and BullMQ agree: whatever the     *)
(* handler dead-letters is a job BullMQ will never run again by itself.    *)
(***************************************************************************)
DlqJobIsDead ==
    /\ \A j \in dlq : jobState[j] = "failed"
    /\ \A h \in handlers :
         (h.stage # "progress") <=> (jobState[h.job] = "failed"
                                       /\ h.made = attemptsMade[h.job])

(***************************************************************************)
(* Someone still has notification n in hand: a job that will run, an entry *)
(* of the dead-letter queue, or a handler about to write that entry.       *)
(***************************************************************************)
InCustody(j) ==
    \/ Live(j)
    \/ j \in dlq
    \/ \E h \in handlers : h.job = j /\ h.stage # "progress"

(***************************************************************************)
(* A notification that was accepted is never lost: until it is SENT some   *)
(* job, entry or handler has it in custody.  No process may die and Redis  *)
(* must answer, since the 'failed' listener is not awaited.                *)
(***************************************************************************)
Accounted ==
    \A n \in Notes :
      request[n] \in {"enqueued", "committed"} =>
        \/ n \in wasSent
        \/ \E j \in Jobs : jobNote[j] = n /\ InCustody(j)

(***************************************************************************)
(* A DEAD_LETTER row is never a dead end, even one that had been SENT      *)
(* before: an entry of the dead-letter queue leads back to it, or is about *)
(* to, or a re-drive is already under way, also while admins retry the     *)
(* same entry at the same time and database errors are swallowed.          *)
(***************************************************************************)
DeadLetterRetryable ==
    \A n \in Notes :
      row[n] = "DEAD_LETTER" => \E j \in Jobs : jobNote[j] = n /\ InCustody(j)

(***************************************************************************)
(* "Replayed jobs for rows already marked SENT complete without a second   *)
(* send" (README.md): nothing is sent once the row has been SENT, over     *)
(* crashes, redeliveries and lost replies.                                 *)
(***************************************************************************)
NoSendAfterSent ==
    [][\A n \in wasSent : sends'[n] = sends[n]]_vars

(***************************************************************************)
(* "The notification row's status flips from DEAD_LETTER back to QUEUED"   *)
(* (src/routes/admin.ts): a row becomes QUEUED when it is created or from  *)
(* DEAD_LETTER, and never after it was SENT.                               *)
(***************************************************************************)
RedriveOnlyDeadLetters ==
    [][\A n \in Notes :
         (row'[n] = "QUEUED" /\ row[n] # "QUEUED")
           => row[n] \in {"absent", "DEAD_LETTER"}]_vars

(***************************************************************************)
(* An emit reaches a socket: the presence check and the emit find the same *)
(* room.                                                                   *)
(***************************************************************************)
EmitReachesSomebody ==
    [][\A n \in Notes :
         (kind[n] = "websocket" /\ sends'[n] # sends[n]) => Owner[n] \in online]_vars

-----------------------------------------------------------------------------
(***************************************************************************)
(* Fairness: the event loops of the workers run, BullMQ hands out waiting  *)
(* jobs, promotes delayed ones and recovers stalled ones.  Failures, user  *)
(* sessions, cleanups and admins are not owed anything.                    *)
(***************************************************************************)
Fairness ==
    /\ \A w \in Workers : WF_vars(HandleJob(w))
    /\ WF_vars(\E w \in Workers, j \in Jobs : TakeJob(w, j) \/ FailStalledJob(w, j))
    /\ WF_vars(\E h \in handlers : Handle(h))
    /\ WF_vars(\E j \in Jobs : Promote(j) \/ RecoverStalled(j))

FairSpec == Spec /\ Fairness

(***************************************************************************)
(* The refinement: a row that is gone although its request committed was   *)
(* deleted; a notification is pushed once it was emitted or mailed.        *)
(***************************************************************************)
statusOf ==
    [n \in Notes |-> IF row[n] # "absent" THEN row[n]
                     ELSE IF request[n] = "committed" THEN "deleted"
                     ELSE "none"]

Abstract == INSTANCE Lifecycle WITH
    status <- statusOf,
    pushed <- {n \in Notes : sends[n] >= 1}

(***************************************************************************)
(* Without re-drives, crashes and lost updates the pipeline implements     *)
(* Lifecycle: QUEUED ends SENT or DEAD_LETTER, once, and always ends.      *)
(***************************************************************************)
ImplementsLifecycle == Abstract!LiveSpec

(***************************************************************************)
(* With crashes, lost replies and errors of Postgres, Redis and the mail   *)
(* server one thing is added, that a SENT row may be judged DEAD_LETTER:   *)
(* still none is pushed again, requeued, or SENT without a push, although  *)
(* push and update are two steps ("DB writes happen after the emit",       *)
(* README.md).  Runs must keep their locks, and no admin re-drives.        *)
(***************************************************************************)
SurvivesFaults == Abstract!FaultySpec

(***************************************************************************)
(* Under every fault, with lost locks and concurrent re-drives, what is    *)
(* left of Lifecycle: pushed only after the commit, SENT only after a      *)
(* push, and never back once the cascade deleted the row.                  *)
(***************************************************************************)
SurvivesEverything == Abstract!DisturbedSpec

(***************************************************************************)
(* A websocket notification whose recipient stays online is delivered (or  *)
(* its demo user deleted): the attempts that run before the commit do not  *)
(* use up the retry budget.                                                *)
(***************************************************************************)
OnlineDelivered ==
    \A n \in Notes :
      (kind[n] = "websocket" /\ [](Owner[n] \in online)) =>
        (request[n] = "committed" ~> row[n] \in {"SENT", "absent"})

=============================================================================
