---------------------------- MODULE FanoutProofs ----------------------------
(***************************************************************************)
(* A fanout, its retries and the plain posts beside it are nothing but     *)
(* callers of createNotification, so that everything proved about its      *)
(* calls holds of theirs; and what a fanout answers is true.               *)
(***************************************************************************)
EXTENDS Fanout, TLAPS

CreateProofs == INSTANCE IdempotencyProofs WITH
    Calls <- Calls,
    Keys <- BaseKeys \X Users,
    KeyOf <- [c \in Calls |-> IF c \in Posts THEN PostKey[c]
                              ELSE perUserKey(c[1], c[2])],
    Unknown <- {c \in Calls : RecipientOf(c) \in Strangers}

(***************************************************************************)
(* The loop: a recipient is left, awaited, enqueued or skipped.            *)
(***************************************************************************)
LoopTypeOK ==
    /\ left \in [Fanouts -> SUBSET Users]
    /\ enqueued \in [Fanouts -> SUBSET Users]
    /\ skipped \in [Fanouts -> SUBSET Users]
    /\ outcome \in [Fanouts -> {"new", "looping", "ok", "error"}]

LEMMA LoopTypes == Spec => []LoopTypeOK
<1>1. Init => LoopTypeOK
  BY DEF Init, LoopTypeOK
<1>2. ASSUME LoopTypeOK, [Next]_vars PROVE LoopTypeOK'
  <2>1. CASE UNCHANGED fanoutVars
    BY <1>2, <2>1 DEF LoopTypeOK, fanoutVars
  <2>2. ASSUME NEW f \in Fanouts, fanoutNotification(f) PROVE LoopTypeOK'
    BY <1>2, <2>2 DEF LoopTypeOK, fanoutNotification
  <2>3. ASSUME NEW f \in Fanouts, NextRecipient(f) PROVE LoopTypeOK'
    BY <1>2, <2>3 DEF LoopTypeOK, NextRecipient
  <2>4. ASSUME NEW f \in Fanouts, TakeResult(f) PROVE LoopTypeOK'
    <3>1. PICK u \in Awaited(f) :
            /\ outcome' \in {outcome, [outcome EXCEPT ![f] = "error"]}
            /\ enqueued' \in {enqueued, [enqueued EXCEPT ![f] = @ \cup {u}]}
            /\ skipped' \in {skipped, [skipped EXCEPT ![f] = @ \cup {u}]}
            /\ UNCHANGED left
      BY <2>4 DEF TakeResult
    <3>2. u \in Users
      BY DEF Awaited
    <3> QED BY <1>2, <3>1, <3>2 DEF LoopTypeOK
  <2>5. ASSUME NEW f \in Fanouts, Answer(f) PROVE LoopTypeOK'
    BY <1>2, <2>5 DEF LoopTypeOK, Answer
  <2> QED
    BY <1>2, <2>1, <2>2, <2>3, <2>4, <2>5
    DEF Next, FanoutStep, Finished, vars, fanoutVars
<1> QED BY <1>1, <1>2, PTL DEF Spec

-----------------------------------------------------------------------------
(***************************************************************************)
(* The two instances of Idempotency have the same actions.                 *)
(***************************************************************************)
LEMMA SameActions ==
  ASSUME NEW c \in Calls
  PROVE  /\ Create!Start(c) => CreateProofs!Start(c)
         /\ Create!checkAndReserve(c) => CreateProofs!checkAndReserve(c)
         /\ Create!findExisting(c) => CreateProofs!findExisting(c)
         /\ Create!insertRow(c) => CreateProofs!insertRow(c)
         /\ Create!enqueueJob(c) => CreateProofs!enqueueJob(c)
         /\ Create!commitRow(c) => CreateProofs!commitRow(c)
         /\ Create!releaseReservation(c) => CreateProofs!releaseReservation(c)
         /\ Create!abortTransaction(c) => CreateProofs!abortTransaction(c)
         /\ Create!loseCommitReply(c) => CreateProofs!loseCommitReply(c)
         /\ Create!Crash(c) => CreateProofs!Crash(c)
<1>1. Create!Start(c) => CreateProofs!Start(c)
  BY
    DEF Create!Start, CreateProofs!Start, Create!Goto,
        CreateProofs!Goto
<1>2. Create!checkAndReserve(c) => CreateProofs!checkAndReserve(c)
  BY
    DEF Create!checkAndReserve, CreateProofs!checkAndReserve,
        Create!Goto, CreateProofs!Goto, Create!Return,
        CreateProofs!Return, Create!Taint, CreateProofs!Taint
<1>3. Create!findExisting(c) => CreateProofs!findExisting(c)
  BY
    DEF Create!findExisting, CreateProofs!findExisting, Create!Goto,
        CreateProofs!Goto, Create!Return, CreateProofs!Return,
        Create!SameKey, CreateProofs!SameKey
<1>4. Create!insertRow(c) => CreateProofs!insertRow(c)
  BY
    DEF Create!insertRow, CreateProofs!insertRow, Create!Goto,
        CreateProofs!Goto, Create!Fail, CreateProofs!Fail,
        Create!SameKey, CreateProofs!SameKey, Create!waitsForIndex,
        CreateProofs!waitsForIndex
<1>5. Create!enqueueJob(c) => CreateProofs!enqueueJob(c)
  BY
    DEF Create!enqueueJob, CreateProofs!enqueueJob, Create!Goto,
        CreateProofs!Goto
<1>6. Create!commitRow(c) => CreateProofs!commitRow(c)
  BY
    DEF Create!commitRow, CreateProofs!commitRow, Create!Goto,
        CreateProofs!Goto, Create!Return, CreateProofs!Return
<1>7. Create!releaseReservation(c) => CreateProofs!releaseReservation(c)
  BY
    DEF Create!releaseReservation, CreateProofs!releaseReservation,
        Create!Goto, CreateProofs!Goto, Create!Taint,
        CreateProofs!Taint
<1>8. Create!abortTransaction(c) => CreateProofs!abortTransaction(c)
  BY
    DEF Create!abortTransaction, CreateProofs!abortTransaction,
        Create!Goto, CreateProofs!Goto, Create!Fail, CreateProofs!Fail
<1>9. Create!loseCommitReply(c) => CreateProofs!loseCommitReply(c)
  BY
    DEF Create!loseCommitReply, CreateProofs!loseCommitReply,
        Create!Goto, CreateProofs!Goto, Create!Fail,
        CreateProofs!Fail, Create!Taint, CreateProofs!Taint
<1>10. Create!Crash(c) => CreateProofs!Crash(c)
  BY
    DEF Create!Crash, CreateProofs!Crash, Create!Goto,
        CreateProofs!Goto, Create!Return, CreateProofs!Return,
        Create!Taint, CreateProofs!Taint
<1> QED BY <1>1, <1>2, <1>3, <1>4, <1>5, <1>6, <1>7, <1>8, <1>9, <1>10

(***************************************************************************)
(* Every step is a step of createNotification, or none of its variables    *)
(* changes.                                                                *)
(***************************************************************************)
LEMMA StepIsCreate ==
  ASSUME LoopTypeOK, [Next]_vars
  PROVE  [CreateProofs!Next]_(CreateProofs!vars)
<1> USE DEF vars, callVars, CreateProofs!vars
<1>1. CASE UNCHANGED vars \/ Finished
  BY <1>1 DEF Finished
<1>2. ASSUME NEW f \in Fanouts, fanoutNotification(f) \/ TakeResult(f) \/ Answer(f)
      PROVE  UNCHANGED callVars
  BY <1>2 DEF fanoutNotification, TakeResult, Answer
<1>3. ASSUME NEW f \in Fanouts, NextRecipient(f)
      PROVE  \E c \in Calls : Create!Start(c)
  <2>1. PICK u \in left[f] : Create!Start(<<f, u>>)
    BY <1>3 DEF NextRecipient
  <2>2. <<f, u>> \in Calls
    BY DEF LoopTypeOK, Calls, FanoutCalls
  <2> QED BY <2>1, <2>2
<1>4. ASSUME NEW c \in Calls,
             Create!Start(c) \/ Create!createNotification(c) \/ Create!Mishap(c)
      PROVE  CreateProofs!Next
  BY <1>4, SameActions
  DEF CreateProofs!Next, Create!createNotification,
      CreateProofs!createNotification, Create!Mishap, CreateProofs!Mishap
<1>5. ASSUME NEW k \in BaseKeys \X Users, Create!Expire(k)
      PROVE  CreateProofs!Next
  BY <1>5 DEF CreateProofs!Next, Create!Expire, CreateProofs!Expire
<1>6. Posts \subseteq Calls
  BY DEF Calls
<1> QED
  BY <1>1, <1>2, <1>3, <1>4, <1>5, <1>6 DEF Next, FanoutStep

LEMMA FanoutCreates == Spec => CreateProofs!Spec
<1>1. Init => CreateProofs!Init
  BY DEF Init, Create!Init, CreateProofs!Init
<1>2. LoopTypeOK /\ [Next]_vars => [CreateProofs!Next]_(CreateProofs!vars)
  BY StepIsCreate
<1> QED BY <1>1, <1>2, LoopTypes, PTL DEF Spec, CreateProofs!Spec

-----------------------------------------------------------------------------
(***************************************************************************)
(* So what is proved of the calls of createNotification holds of theirs.   *)
(***************************************************************************)
LEMMA CallsAssumption == CreateProofs!IdempotencyAssumption
  BY FanoutAssumption
  DEF Create!IdempotencyAssumption, CreateProofs!IdempotencyAssumption,
      Create!Answers, CreateProofs!Answers,
      Create!FailureKinds, CreateProofs!FailureKinds

(***************************************************************************)
(* A retried or concurrent fanout, or a post with a derived key, creates   *)
(* no second row for a recipient.                                          *)
(***************************************************************************)
THEOREM FanoutsUniqueRows == Spec => []OneRowPerKey
<1>1. CreateProofs!Spec => []CreateProofs!OneRowPerKey
  BY CallsAssumption, CreateProofs!UniqueRows
<1>2. CreateProofs!OneRowPerKey => OneRowPerKey
  BY DEF OneRowPerKey, Create!OneRowPerKey, CreateProofs!OneRowPerKey,
         Create!SameKey, CreateProofs!SameKey
<1> QED BY <1>1, <1>2, FanoutCreates, PTL

(***************************************************************************)
(* A recipient a fanout created a row for has a job, too.                  *)
(***************************************************************************)
THEOREM FanoutsHaveJobs == Spec => []RowHasJob
<1>1. CreateProofs!Spec => []CreateProofs!RowHasJob
  BY CallsAssumption, CreateProofs!RowsHaveJobs
<1>2. CreateProofs!RowHasJob => RowHasJob
  BY DEF RowHasJob, Create!RowHasJob, CreateProofs!RowHasJob
<1> QED BY <1>1, <1>2, FanoutCreates, PTL

(***************************************************************************)
(* A fanout, its retry and a post with a derived key are answered with one *)
(* and the same row (fanout.service.ts, perUserKey).                       *)
(***************************************************************************)
THEOREM FanoutsAgree == Spec => []AnswersAgree
<1>1. CreateProofs!Spec => []CreateProofs!AnswersAgree
  BY CallsAssumption, CreateProofs!ReplaysAgree
<1>2. CreateProofs!AnswersAgree => AnswersAgree
  BY DEF AnswersAgree, Create!AnswersAgree, CreateProofs!AnswersAgree,
         Create!SameKey, CreateProofs!SameKey
<1> QED BY <1>1, <1>2, FanoutCreates, PTL

(***************************************************************************)
(* A failed recipient does not block the retry of the fanout: its derived  *)
(* key is released, unless Redis failed or a process died.                 *)
(***************************************************************************)
THEOREM FanoutsLeaveNoGhost == Spec => []NoGhostKey
<1>1. CreateProofs!Spec => []CreateProofs!NoGhostKey
  BY CallsAssumption, CreateProofs!GhostKeysReleased
<1>2. CreateProofs!NoGhostKey => NoGhostKey
  BY DEF NoGhostKey, Create!NoGhostKey, CreateProofs!NoGhostKey,
         Create!InFlight, CreateProofs!InFlight
<1> QED BY <1>1, <1>2, FanoutCreates, PTL

(***************************************************************************)
(* Concurrent fanouts with one base key do not meet at the unique index,   *)
(* as long as Redis keeps the reservation.                                 *)
(***************************************************************************)
THEOREM FanoutsInsertOnce == Spec => []OneInserter
<1>1. CreateProofs!Spec => []CreateProofs!OneInserter
  BY CallsAssumption, CreateProofs!OneInsert
<1>2. CreateProofs!OneInserter => OneInserter
  BY DEF OneInserter, Create!OneInserter, CreateProofs!OneInserter,
         Create!SameKey, CreateProofs!SameKey
<1> QED BY <1>1, <1>2, FanoutCreates, PTL

(***************************************************************************)
(* The calls and the loops that make them keep their types.                *)
(***************************************************************************)
THEOREM FanoutTypes == Spec => []TypeOK
<1>1. CreateProofs!Spec => []CreateProofs!Index
  BY CallsAssumption, CreateProofs!IndexInvariant
<1>2. CreateProofs!Index /\ LoopTypeOK => TypeOK
  BY DEF CreateProofs!Index, CreateProofs!TypeOK, TypeOK, LoopTypeOK,
         Create!TypeOK, Create!Steps, CreateProofs!Steps,
         Create!Answers, CreateProofs!Answers
<1> QED BY <1>1, <1>2, FanoutCreates, LoopTypes, PTL

-----------------------------------------------------------------------------
(***************************************************************************)
(* What a fanout has counted is what its calls have answered.              *)
(***************************************************************************)
CountedOne(f, u) ==
    /\ u \in left[f] => pc[<<f, u>>] = "idle"
    /\ u \in enqueued[f] =>
         pc[<<f, u>>] = "done" /\ answer[<<f, u>>] = "created"
    /\ u \in skipped[f] =>
         /\ pc[<<f, u>>] = "done"
         /\ answer[<<f, u>>] \in {"existing", "inFlight", "noRecipient"}
    /\ outcome[f] = "ok" => u \in enqueued[f] \cup skipped[f]

Counted == \A f \in Fanouts, u \in Users : CountedOne(f, u)

CallsTrue == CreateProofs!Index /\ CreateProofs!AnswersTrue

(***************************************************************************)
(* A step of a call that is not the start of a recipient's.                *)
(***************************************************************************)
LEMMA CallKeepsCounted ==
  ASSUME CallsTrue, LoopTypeOK, Counted, UNCHANGED fanoutVars,
         \/ \E p \in Posts : Create!Start(p)
         \/ \E c \in Calls : Create!createNotification(c) \/ Create!Mishap(c)
         \/ \E k \in BaseKeys \X Users : Create!Expire(k)
  PROVE  Counted'
<1>1. CreateProofs!TypeOK
  BY DEF CallsTrue, CreateProofs!Index
<1>2. SUFFICES ASSUME NEW f \in Fanouts, NEW u \in Users
               PROVE  pc[<<f, u>>] \in {"idle", "done"} =>
                        /\ pc'[<<f, u>>] = pc[<<f, u>>]
                        /\ answer'[<<f, u>>] = answer[<<f, u>>]
  <2>1. ASSUME NEW f \in Fanouts, NEW u \in Users,
               pc[<<f, u>>] \in {"idle", "done"} =>
                 /\ pc'[<<f, u>>] = pc[<<f, u>>]
                 /\ answer'[<<f, u>>] = answer[<<f, u>>]
        PROVE  CountedOne(f, u)'
    <3>1. CountedOne(f, u)
      BY DEF Counted
    <3> QED BY <2>1, <3>1 DEF CountedOne, fanoutVars
  <2> QED BY <2>1 DEF Counted
<1>3. <<f, u>> \in Calls /\ <<f, u>> \notin Posts
  BY FanoutAssumption DEF Calls, FanoutCalls
<1>4. ASSUME NEW p \in Posts, Create!Start(p)
      PROVE  pc'[<<f, u>>] = pc[<<f, u>>] /\ answer'[<<f, u>>] = answer[<<f, u>>]
  <2>1. p \in Calls /\ <<f, u>> \in Calls \ {p}
    BY <1>3 DEF Calls
  <2> QED
    BY <1>1, <1>4, <2>1, SameActions, CreateProofs!CallMoves
    DEF CreateProofs!MovesAlone
<1>5. ASSUME NEW c \in Calls, Create!createNotification(c) \/ Create!Mishap(c),
             pc[<<f, u>>] \in {"idle", "done"}
      PROVE  pc'[<<f, u>>] = pc[<<f, u>>] /\ answer'[<<f, u>>] = answer[<<f, u>>]
  <2>1. CreateProofs!createNotification(c) \/ CreateProofs!Mishap(c)
    BY <1>5, SameActions
    DEF Create!createNotification, CreateProofs!createNotification,
        Create!Mishap, CreateProofs!Mishap
  <2>2. pc[c] \notin {"idle", "done"} /\ CreateProofs!MovesAlone(c)
    BY <1>1, <2>1, CreateProofs!CallMoves
  <2> QED BY <1>3, <1>5, <2>2 DEF CreateProofs!MovesAlone
<1>6. ASSUME NEW k \in BaseKeys \X Users, Create!Expire(k)
      PROVE  pc'[<<f, u>>] = pc[<<f, u>>] /\ answer'[<<f, u>>] = answer[<<f, u>>]
  BY <1>6 DEF Create!Expire
<1> QED BY <1>4, <1>5, <1>6

LEMMA NextRecipientCounted ==
  ASSUME CallsTrue, LoopTypeOK, Counted, NEW f \in Fanouts, NextRecipient(f)
  PROVE  Counted'
<1>1. PICK u \in left[f] : /\ left' = [left EXCEPT ![f] = @ \ {u}]
                           /\ Create!Start(<<f, u>>)
  BY DEF NextRecipient
<1>2. u \in Users /\ <<f, u>> \in Calls
  BY DEF LoopTypeOK, Calls, FanoutCalls
<1>3. pc[<<f, u>>] = "idle" /\ CreateProofs!MovesAlone(<<f, u>>)
  BY <1>1, <1>2, SameActions, CreateProofs!CallMoves
  DEF CallsTrue, CreateProofs!Index
<1>4. \A g \in Fanouts, v \in Users : <<g, v>> \in Calls
  BY DEF Calls, FanoutCalls
<1>5. \A g \in Fanouts, v \in Users :
        <<g, v>> # <<f, u>> => /\ pc'[<<g, v>>] = pc[<<g, v>>]
                               /\ answer'[<<g, v>>] = answer[<<g, v>>]
  BY <1>3, <1>4 DEF CreateProofs!MovesAlone
<1>6. UNCHANGED <<enqueued, skipped, outcome>>
  BY DEF NextRecipient
<1>7. ASSUME NEW g \in Fanouts, NEW v \in Users
      PROVE  /\ v \in left'[g] => v \in left[g] /\ <<g, v>> # <<f, u>>
             /\ v \in enqueued[g] \cup skipped[g] => <<g, v>> # <<f, u>>
  BY <1>1, <1>2, <1>3 DEF Counted, CountedOne, LoopTypeOK
<1>8. ASSUME NEW g \in Fanouts, NEW v \in Users
      PROVE  CountedOne(g, v)'
  <2>1. CountedOne(g, v)
    BY DEF Counted
  <2> QED BY <1>5, <1>6, <1>7, <2>1 DEF CountedOne
<1> QED BY <1>8 DEF Counted

LEMMA TakeResultCounted ==
  ASSUME CallsTrue, LoopTypeOK, Counted, NEW f \in Fanouts, TakeResult(f)
  PROVE  Counted'
<1>1. PICK u \in Awaited(f) :
        /\ pc[<<f, u>>] = "done"
        /\ IF answer[<<f, u>>] = "error"
           THEN /\ outcome' = [outcome EXCEPT ![f] = "error"]
                /\ UNCHANGED <<enqueued, skipped>>
           ELSE /\ IF countsAsEnqueued(f, u)
                   THEN /\ enqueued' = [enqueued EXCEPT ![f] = @ \cup {u}]
                        /\ UNCHANGED skipped
                   ELSE /\ skipped' = [skipped EXCEPT ![f] = @ \cup {u}]
                        /\ UNCHANGED enqueued
                /\ UNCHANGED outcome
  BY DEF TakeResult
<1>2. u \in Users /\ <<f, u>> \in Calls
  BY DEF Awaited, Calls, FanoutCalls
<1>3. answer[<<f, u>>] \in
        {"created", "existing", "inFlight", "noRecipient", "error"}
  BY <1>1, <1>2 DEF CallsTrue, CreateProofs!AnswersTrue, CreateProofs!Answers
<1>4. UNCHANGED <<pc, answer, left>>
  BY DEF TakeResult, callVars
<1>5. ASSUME NEW g \in Fanouts, NEW v \in Users
      PROVE  CountedOne(g, v)'
  <2>1. CountedOne(g, v)
    BY DEF Counted
  <2>2. CASE g = f /\ v = u
    BY <1>1, <1>2, <1>3, <1>4, <2>1, <2>2
    DEF CountedOne, LoopTypeOK, countsAsEnqueued
  <2>3. CASE ~ (g = f /\ v = u)
    <3>1. /\ v \in enqueued'[g] <=> v \in enqueued[g]
          /\ v \in skipped'[g] <=> v \in skipped[g]
          /\ outcome'[g] = "ok" => outcome[g] = "ok"
      BY <1>1, <2>3 DEF LoopTypeOK
    <3> QED BY <1>4, <2>1, <3>1 DEF CountedOne
  <2> QED BY <2>2, <2>3
<1> QED BY <1>5 DEF Counted

LEMMA AnswerCounted ==
  ASSUME LoopTypeOK, Counted, NEW f \in Fanouts, Answer(f)
  PROVE  Counted'
<1>1. \A u \in Users : u \in enqueued[f] \cup skipped[f]
  BY DEF Answer, Awaited
<1> QED BY <1>1 DEF Counted, CountedOne, LoopTypeOK, Answer, callVars

LEMMA CountedInvariant == Spec => [](CallsTrue /\ LoopTypeOK /\ Counted)
<1>1. Spec => []CallsTrue
  BY CallsAssumption, CreateProofs!AnswersTrueInvariant, FanoutCreates, PTL
  DEF CallsTrue
<1>2. Init => Counted
  BY DEF Init, Create!Init, Counted, CountedOne, Calls, FanoutCalls
<1>3. ASSUME CallsTrue, LoopTypeOK, Counted, [Next]_vars PROVE Counted'
  <2>1. CASE UNCHANGED vars
    BY <1>3, <2>1 DEF Counted, CountedOne, vars, callVars, fanoutVars
  <2>2. ASSUME NEW f \in Fanouts, fanoutNotification(f) PROVE Counted'
    BY <1>3, <2>2 DEF Counted, CountedOne, LoopTypeOK, fanoutNotification, callVars
  <2>3. ASSUME NEW f \in Fanouts, FanoutStep(f) PROVE Counted'
    BY <1>3, <2>3, NextRecipientCounted, TakeResultCounted, AnswerCounted
    DEF FanoutStep
  <2>4. CASE /\ \/ \E p \in Posts : Create!Start(p)
                \/ \E c \in Calls : Create!createNotification(c) \/ Create!Mishap(c)
                \/ \E k \in BaseKeys \X Users : Create!Expire(k)
             /\ UNCHANGED fanoutVars
    BY <1>3, <2>4, CallKeepsCounted
  <2> QED BY <1>3, <2>1, <2>2, <2>3, <2>4 DEF Next, Finished
<1> QED BY <1>1, <1>2, <1>3, LoopTypes, PTL DEF Spec

(***************************************************************************)
(* A row with the key of a recipient is the recipient's own notification,  *)
(* or a post has used the key for somebody else: the derived keys of two   *)
(* recipients differ.                                                      *)
(***************************************************************************)
LEMMA RowUnderKey ==
  ASSUME NEW f \in Fanouts, NEW u \in Users, NEW r \in rows, r \in Calls,
         Create!SameKey(r, <<f, u>>)
  PROVE  Served(f, u) \/ TakenByPost(f, u)
<1>1. CASE RecipientOf(r) = u
  BY <1>1 DEF Served
<1>2. CASE r \in Posts /\ RecipientOf(r) # u
  BY <1>2 DEF TakenByPost, RecipientOf
<1>3. CASE r \notin Posts
  <2>1. PICK g \in Fanouts, v \in Users : r = <<g, v>>
    BY <1>3 DEF Calls, FanoutCalls
  <2>2. <<f, u>> \in Calls /\ <<f, u>> \notin Posts
    BY FanoutAssumption DEF Calls, FanoutCalls
  <2>3. perUserKey(g, v) = perUserKey(f, u) /\ perUserKey(f, u) # None
    BY <1>3, <2>1, <2>2 DEF Create!SameKey
  <2>4. v = u
    BY <2>3 DEF perUserKey
  <2> QED BY <1>1, <1>3, <2>1, <2>4 DEF RecipientOf
<1> QED BY <1>1, <1>2, <1>3

(***************************************************************************)
(* A fanout skips a recipient that does not exist, or loses its key to a   *)
(* call that has a row, is on its way to one or has reported its failure,  *)
(* unless Redis failed the key or a process died with it.                  *)
(***************************************************************************)
LEMMA SkippedForAReason ==
  ASSUME CallsTrue, CreateProofs!LostToAnother, LoopTypeOK, Counted,
         NEW f \in Fanouts, NEW u \in skipped[f]
  PROVE  \/ u \in Strangers
         \/ Served(f, u)
         \/ TakenByPost(f, u)
         \/ Contested(f, u)
         \/ perUserKey(f, u) \in tainted
<1> DEFINE c == <<f, u>>
<1>1. u \in Users
  BY DEF LoopTypeOK
<1>2. c \in Calls /\ c \notin Posts /\ c[1] = f /\ c[2] = u
  BY <1>1, FanoutAssumption DEF Calls, FanoutCalls
<1>3. answer[c] \in {"existing", "inFlight", "noRecipient"}
  BY <1>1 DEF Counted, CountedOne
<1>4. CASE answer[c] = "noRecipient"
  <2>1. c \in {d \in Calls : RecipientOf(d) \in Strangers}
    BY <1>2, <1>4 DEF CallsTrue, CreateProofs!AnswersTrue
  <2> QED BY <1>2, <2>1 DEF RecipientOf
<1>5. CASE answer[c] = "existing"
  <2>1. c \notin rows
    BY <1>2, <1>5 DEF CallsTrue, CreateProofs!AnswersTrue
  <2>2. PICK r \in rows : CreateProofs!SameKey(r, c)
    BY <1>2, <1>5, <2>1
    DEF CallsTrue, CreateProofs!Index, CreateProofs!AnswersNameRows
  <2>3. r \in Calls /\ Create!SameKey(r, c)
    BY <2>2 DEF CallsTrue, CreateProofs!Index, CreateProofs!TypeOK,
                CreateProofs!SameKey, Create!SameKey
  <2> QED BY <1>1, <2>3, RowUnderKey
<1>6. CASE answer[c] = "inFlight"
  <2>1. \/ perUserKey(f, u) \in tainted
        \/ \E d \in Calls \ {c} :
             CreateProofs!SameKey(d, c) /\ CreateProofs!Responsible(d)
    BY <1>2, <1>6 DEF CreateProofs!LostToAnother, CreateProofs!Lost
  <2>2. CASE perUserKey(f, u) \in tainted
    BY <2>2
  <2>3. ASSUME NEW d \in Calls \ {c},
               CreateProofs!SameKey(d, c), CreateProofs!Responsible(d)
        PROVE  Contested(f, u) \/ Served(f, u) \/ TakenByPost(f, u)
    <3>1. Create!SameKey(d, c)
      BY <2>3 DEF CreateProofs!SameKey, Create!SameKey
    <3>2. CASE d \in rows
      BY <1>1, <3>1, <3>2, RowUnderKey
    <3>3. CASE d \notin rows
      BY <2>3, <3>1, <3>3
      DEF CreateProofs!Responsible, CreateProofs!Owns, Contested, OnItsWay,
          ToldOfFailure
    <3> QED BY <3>2, <3>3
  <2> QED BY <2>1, <2>2, <2>3
<1> QED BY <1>3, <1>4, <1>5, <1>6

(***************************************************************************)
(* A fanout that answers 200 has counted every recipient exactly once, as  *)
(* enqueued those whose row it created, and skipped only for the reasons   *)
(* FanoutIsHonest names.                                                   *)
(***************************************************************************)
THEOREM HonestFanouts == Spec => []FanoutIsHonest
<1>1. ASSUME CallsTrue, CreateProofs!LostToAnother, LoopTypeOK, Counted
      PROVE  FanoutIsHonest
  <2>1. SUFFICES ASSUME NEW f \in Fanouts, outcome[f] = "ok"
                 PROVE  /\ enqueued[f] \cup skipped[f] = Users
                        /\ enqueued[f] \cap skipped[f] = {}
                        /\ enqueued[f] = {u \in Users : <<f, u>> \in rows}
    BY <1>1, SkippedForAReason DEF FanoutIsHonest
  <2>2. \A u \in Users : <<f, u>> \in Calls
    BY DEF Calls, FanoutCalls
  <2>3. \A u \in Users : u \in enqueued[f] <=> <<f, u>> \in rows
    BY <1>1, <2>1, <2>2 DEF CallsTrue, CreateProofs!AnswersTrue, Counted, CountedOne
  <2>4. enqueued[f] \subseteq Users /\ skipped[f] \subseteq Users
    BY <1>1 DEF LoopTypeOK
  <2>5. \A u \in Users : u \in enqueued[f] \cup skipped[f]
                         /\ ~ (u \in enqueued[f] /\ u \in skipped[f])
    BY <1>1, <2>1 DEF Counted, CountedOne
  <2> QED BY <2>3, <2>4, <2>5
<1>2. Spec => []CreateProofs!LostToAnother
  BY CallsAssumption, CreateProofs!LostInvariant, FanoutCreates, PTL
<1> QED BY <1>1, <1>2, CountedInvariant, PTL

=============================================================================
