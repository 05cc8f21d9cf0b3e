------------------------- MODULE IdempotencyProofs -------------------------
(***************************************************************************)
(* createNotification keeps its promises for any number of calls and keys, *)
(* under every failure.  Two inductive invariants: what the unique index   *)
(* guarantees whatever Redis does (Index), and what the reservation adds   *)
(* for the keys Redis has not failed (FastPath).                           *)
(***************************************************************************)
EXTENDS Idempotency, TLAPS

InTransaction(c) == pc[c] \in {"enqueue", "commit"}

(***************************************************************************)
(* Of the calls with one key, at most one has an open insert or a row.     *)
(***************************************************************************)
OneClaimant ==
    \A c, d \in Calls :
      /\ SameKey(c, d)
      /\ InTransaction(c) \/ c \in rows
      /\ InTransaction(d) \/ d \in rows
      => c = d

JobsFirst ==
    \A c \in Calls : pc[c] = "commit" \/ c \in rows => c \in jobs

RowsEnded == \A c \in rows : pc[c] \in {"release", "done"}

AnswersNameRows ==
    \A c \in Calls :
      answer[c] \in {"created", "existing"} =>
        /\ stored[c] \in rows
        /\ stored[c] = c \/ SameKey(stored[c], c)

(***************************************************************************)
(* Only a call with a key goes the way over Redis.                         *)
(***************************************************************************)
KeyedCalls ==
    \A c \in Calls : pc[c] \in {"reserve", "lookup", "release"} => KeyOf[c] # None

Index ==
    /\ TypeOK
    /\ OneClaimant
    /\ JobsFirst
    /\ RowsEnded
    /\ AnswersNameRows
    /\ KeyedCalls

LEMMA InitIndex == ASSUME IdempotencyAssumption PROVE Init => Index
  BY DEF IdempotencyAssumption, Init, Index, TypeOK, OneClaimant, JobsFirst,
         RowsEnded, AnswersNameRows, KeyedCalls, InTransaction, Steps, Answers

(***************************************************************************)
(* The calls that move without touching rows, jobs and answers: to a place *)
(* outside the transaction.                                                *)
(***************************************************************************)
LEMMA MoveIndex ==
  ASSUME IdempotencyAssumption, Index, NEW c \in Calls,
         NEW step \in Steps \ {"enqueue", "commit"},
         step \in {"reserve", "lookup", "release"} => KeyOf[c] # None,
         pc[c] \notin {"release", "done"} \/ step = "done",
         Goto(c, step), UNCHANGED <<rows, jobs, answer, stored>>,
         reserved' \subseteq Keys, tainted' \subseteq Keys
  PROVE  Index'
  BY DEF IdempotencyAssumption, Index, TypeOK, OneClaimant, JobsFirst,
         RowsEnded, AnswersNameRows, KeyedCalls, InTransaction, Goto, SameKey, Steps, Answers

LEMMA FailIndex ==
  ASSUME IdempotencyAssumption, Index, NEW c \in Calls,
         NEW how \in {"error", "noRecipient"},
         pc[c] \notin {"release", "done"}, c \notin rows,
         Fail(c, how), UNCHANGED <<rows, jobs, reserved>>,
         tainted' \subseteq Keys
  PROVE  Index'
  BY DEF IdempotencyAssumption, Index, TypeOK, OneClaimant, JobsFirst,
         RowsEnded, AnswersNameRows, KeyedCalls, InTransaction, Goto, Fail, SameKey,
         Steps, Answers

LEMMA TaintKeys ==
  ASSUME IdempotencyAssumption, TypeOK, NEW c \in Calls, Taint(c)
  PROVE  tainted' \subseteq Keys
  BY DEF IdempotencyAssumption, TypeOK, Taint

-----------------------------------------------------------------------------
(***************************************************************************)
(* One lemma per action that does more than that.                          *)
(***************************************************************************)
LEMMA StartIndex ==
  ASSUME IdempotencyAssumption, Index, NEW c \in Calls, Start(c)
  PROVE  Index'
<1>1. reserved' \subseteq Keys /\ tainted' \subseteq Keys
  BY DEF Start, Index, TypeOK
<1>2. CASE KeyOf[c] = None
  BY <1>1, <1>2, MoveIndex DEF Start, Steps
<1>3. CASE KeyOf[c] # None
  BY <1>1, <1>3, MoveIndex DEF Start, Steps
<1> QED BY <1>2, <1>3

(***************************************************************************)
(* A call that ends with an error or with nothing, in one step.            *)
(***************************************************************************)
LEMMA ReturnIndex ==
  ASSUME IdempotencyAssumption, Index, NEW c \in Calls,
         NEW how \in {"error", "inFlight"},
         Return(c, how, None), UNCHANGED <<rows, jobs>>,
         reserved' \subseteq Keys, tainted' \subseteq Keys
  PROVE  Index'
  BY DEF IdempotencyAssumption, Index, TypeOK, OneClaimant, JobsFirst,
         RowsEnded, AnswersNameRows, KeyedCalls, InTransaction, Goto, Return, SameKey,
         Steps, Answers

LEMMA ReserveIndex ==
  ASSUME IdempotencyAssumption, Index, NEW c \in Calls, checkAndReserve(c)
  PROVE  Index'
<1>1. TypeOK
  BY DEF Index
<1>2. pc[c] = "reserve" /\ UNCHANGED <<rows, jobs>>
  BY DEF checkAndReserve
<1>3. KeyOf[c] \in Keys
  BY <1>2 DEF IdempotencyAssumption, Index, KeyedCalls
<1>4. CASE /\ KeyOf[c] \notin reserved
           /\ reserved' = reserved \cup {KeyOf[c]}
           /\ Goto(c, "insert")
           /\ UNCHANGED <<answer, stored, tainted>>
  <2>1. reserved' \subseteq Keys /\ tainted' \subseteq Keys
    BY <1>1, <1>3, <1>4 DEF TypeOK
  <2> QED BY <1>2, <1>4, <2>1, MoveIndex DEF Steps
<1>5. CASE /\ Goto(c, "lookup")
           /\ UNCHANGED <<reserved, answer, stored, tainted>>
  <2>1. /\ reserved' \subseteq Keys /\ tainted' \subseteq Keys
        /\ KeyOf[c] # None
    BY <1>1, <1>2, <1>5 DEF TypeOK, Index, KeyedCalls
  <2> QED BY <1>2, <1>5, <2>1, MoveIndex DEF Steps
<1>6. CASE /\ reserved' \in {reserved, reserved \cup {KeyOf[c]}}
           /\ Return(c, "error", None)
           /\ Taint(c)
  <2>1. reserved' \subseteq Keys /\ tainted' \subseteq Keys
    BY <1>1, <1>3, <1>6, TaintKeys DEF TypeOK
  <2> QED BY <1>2, <1>6, <2>1, ReturnIndex
<1> QED BY <1>4, <1>5, <1>6 DEF checkAndReserve

LEMMA FindIndex ==
  ASSUME IdempotencyAssumption, Index, NEW c \in Calls, findExisting(c)
  PROVE  Index'
<1>1. /\ pc[c] = "lookup"
      /\ UNCHANGED <<reserved, rows, jobs, tainted>>
      /\ reserved' \subseteq Keys /\ tainted' \subseteq Keys
  BY DEF findExisting, Index, TypeOK
<1>2. CASE \E r \in rows : SameKey(r, c) /\ Return(c, "existing", r)
  <2>1. PICK r \in rows : SameKey(r, c) /\ Return(c, "existing", r)
    BY <1>2
  <2>2. r \in Calls /\ r # None
    BY DEF Index, TypeOK, IdempotencyAssumption
  <2> QED
    BY <1>1, <2>1, <2>2
    DEF IdempotencyAssumption, Index, TypeOK, OneClaimant, JobsFirst, RowsEnded,
        AnswersNameRows, KeyedCalls, InTransaction, Goto, Return, SameKey, Steps, Answers
<1>3. CASE Return(c, "inFlight", None)
  BY <1>1, <1>3, ReturnIndex
<1>4. CASE Return(c, "error", None)
  BY <1>1, <1>4, ReturnIndex
<1> QED BY <1>2, <1>3, <1>4 DEF findExisting

(***************************************************************************)
(* The index: an insert that succeeds meets neither an open insert of its  *)
(* key nor a row with it.                                                  *)
(***************************************************************************)
LEMMA InsertIndex ==
  ASSUME IdempotencyAssumption, Index, NEW c \in Calls, insertRow(c)
  PROVE  Index'
<1>1. /\ pc[c] = "insert" /\ c \notin rows
      /\ UNCHANGED <<reserved, rows, jobs, tainted>>
      /\ tainted' \subseteq Keys
  BY DEF insertRow, Index, TypeOK, RowsEnded
<1>2. CASE Fail(c, "error")
  BY <1>1, <1>2, FailIndex
<1>3. CASE Fail(c, "noRecipient")
  BY <1>1, <1>3, FailIndex
<1>4. CASE /\ ~ \E r \in rows : SameKey(r, c)
           /\ Goto(c, "enqueue") /\ UNCHANGED <<answer, stored>>
  <2>1. \A d \in Calls \ {c} : SameKey(c, d) => ~InTransaction(d) /\ d \notin rows
    BY <1>4 DEF insertRow, waitsForIndex, SameKey, InTransaction
  <2> QED
    BY <1>1, <1>4, <2>1
    DEF IdempotencyAssumption, Index, TypeOK, OneClaimant, JobsFirst, RowsEnded,
        AnswersNameRows, KeyedCalls, InTransaction, Goto, SameKey, Steps
<1> QED BY <1>2, <1>3, <1>4 DEF insertRow

LEMMA EnqueueIndex ==
  ASSUME IdempotencyAssumption, Index, NEW c \in Calls, enqueueJob(c)
  PROVE  Index'
  BY DEF IdempotencyAssumption, Index, TypeOK, OneClaimant, JobsFirst,
         RowsEnded, AnswersNameRows, KeyedCalls, InTransaction, Goto, enqueueJob, SameKey,
         Steps

LEMMA CommitIndex ==
  ASSUME IdempotencyAssumption, Index, NEW c \in Calls,
         commitRow(c) \/ loseCommitReply(c)
  PROVE  Index'
<1>1. CASE commitRow(c)
  BY <1>1 DEF IdempotencyAssumption, Index, TypeOK, OneClaimant, JobsFirst,
         RowsEnded, AnswersNameRows, KeyedCalls, InTransaction, Goto, Return, commitRow,
         SameKey, Steps, Answers
<1>2. CASE loseCommitReply(c)
  <2>1. tainted' \subseteq Keys
    BY <1>2, TaintKeys DEF loseCommitReply, Index
  <2> QED
    BY <1>2, <2>1 DEF IdempotencyAssumption, Index, TypeOK, OneClaimant,
         JobsFirst, RowsEnded, AnswersNameRows, KeyedCalls, InTransaction, Goto, Fail,
         loseCommitReply, SameKey, Steps, Answers
<1> QED BY <1>1, <1>2

LEMMA ReleaseIndex ==
  ASSUME IdempotencyAssumption, Index, NEW c \in Calls, releaseReservation(c)
  PROVE  Index'
<1>1. reserved' \subseteq Keys /\ tainted' \subseteq Keys
  BY TaintKeys DEF releaseReservation, Index, TypeOK
<1> QED BY <1>1, MoveIndex DEF releaseReservation, Steps

LEMMA MishapIndex ==
  ASSUME IdempotencyAssumption, Index, NEW c \in Calls,
         abortTransaction(c) \/ Crash(c)
  PROVE  Index'
<1>1. CASE abortTransaction(c)
  <2>1. c \notin rows /\ pc[c] \notin {"release", "done"} /\ tainted' \subseteq Keys
    BY <1>1 DEF abortTransaction, Index, RowsEnded, TypeOK
  <2> QED BY <1>1, <2>1, FailIndex DEF abortTransaction
<1>2. CASE Crash(c)
  <2>1. reserved' \subseteq Keys /\ tainted' \subseteq Keys
    BY <1>2, TaintKeys DEF Crash, Index, TypeOK
  <2> QED BY <1>2, <2>1, ReturnIndex DEF Crash
<1> QED BY <1>1, <1>2

LEMMA ExpireIndex ==
  ASSUME IdempotencyAssumption, Index, NEW k \in Keys, Expire(k)
  PROVE  Index'
  BY DEF Index, TypeOK, OneClaimant, JobsFirst, RowsEnded, AnswersNameRows,
         KeyedCalls, InTransaction, SameKey, Expire

LEMMA IndexStep ==
  ASSUME IdempotencyAssumption, Index, [Next]_vars
  PROVE  Index'
<1>1. CASE UNCHANGED vars
  BY <1>1 DEF Index, TypeOK, OneClaimant, JobsFirst, RowsEnded,
              AnswersNameRows, KeyedCalls, InTransaction, SameKey, vars
<1>2. ASSUME NEW c \in Calls, Start(c) PROVE Index'
  BY <1>2, StartIndex
<1>3. ASSUME NEW c \in Calls, createNotification(c) PROVE Index'
  BY <1>3, ReserveIndex, FindIndex, InsertIndex, EnqueueIndex, CommitIndex,
     ReleaseIndex DEF createNotification
<1>4. ASSUME NEW c \in Calls, Mishap(c) PROVE Index'
  BY <1>4, MishapIndex, CommitIndex DEF Mishap
<1>5. ASSUME NEW k \in Keys, Expire(k) PROVE Index'
  BY <1>5, ExpireIndex
<1> QED BY <1>1, <1>2, <1>3, <1>4, <1>5 DEF Next

LEMMA IndexInvariant == ASSUME IdempotencyAssumption PROVE Spec => []Index
<1>1. Init => Index
  BY InitIndex
<1>2. Index /\ [Next]_vars => Index'
  BY IndexStep
<1> QED BY <1>1, <1>2, PTL DEF Spec

-----------------------------------------------------------------------------
(***************************************************************************)
(* One row per key, under every failure: two committed rows never share an *)
(* idempotency key (the unique index behind createNotification's insert).  *)
(***************************************************************************)
THEOREM UniqueRows == ASSUME IdempotencyAssumption PROVE Spec => []OneRowPerKey
<1>1. Index => OneRowPerKey
  BY DEF Index, TypeOK, OneClaimant, OneRowPerKey
<1> QED BY <1>1, IndexInvariant, PTL

(***************************************************************************)
(* No orphaned row: every committed row has had its job added, because the *)
(* enqueue comes before the commit and its failure rolls the row back.     *)
(***************************************************************************)
THEOREM RowsHaveJobs == ASSUME IdempotencyAssumption PROVE Spec => []RowHasJob
<1>1. Index => RowHasJob
  BY DEF Index, TypeOK, JobsFirst, RowHasJob
<1> QED BY <1>1, IndexInvariant, PTL

(***************************************************************************)
(* All answers to requests with one key that name a notification name the  *)
(* same committed one.                                                     *)
(***************************************************************************)
THEOREM ReplaysAgree == ASSUME IdempotencyAssumption PROVE Spec => []AnswersAgree
<1>1. ASSUME Index PROVE AnswersAgree
  <2>1. \A c \in Calls :
          answer[c] \in {"created", "existing"} =>
            /\ stored[c] \in rows
            /\ stored[c] = c \/ SameKey(stored[c], c)
    BY <1>1 DEF Index, AnswersNameRows
  <2>2. \A r, s \in rows : SameKey(r, s) => r = s
    BY <1>1 DEF Index, TypeOK, OneClaimant
  <2> QED BY <2>1, <2>2 DEF AnswersAgree, SameKey
<1> QED BY <1>1, IndexInvariant, PTL

-----------------------------------------------------------------------------
(***************************************************************************)
(* The fast path.  A call owns its key from the reservation to the release *)
(* or for good, once its row is there; an owned key that no failure has    *)
(* hit is reserved, and has one owner.                                     *)
(***************************************************************************)
Owns(c) ==
    pc[c] \in {"insert", "enqueue", "commit", "release"} \/ c \in rows

Clean(c) == KeyOf[c] # None /\ KeyOf[c] \notin tainted

OwnersReserve == \A c \in Calls : Clean(c) /\ Owns(c) => KeyOf[c] \in reserved

OneOwner ==
    \A c, d \in Calls :
      Clean(c) /\ SameKey(c, d) /\ Owns(c) /\ Owns(d) => c = d

OwnersStay == \A c \in Calls : Clean(c) /\ c \in rows => pc[c] = "done"

FastPath == OwnersReserve /\ OneOwner /\ OwnersStay /\ NoGhostKey

LEMMA InitFastPath == ASSUME IdempotencyAssumption PROVE Init => FastPath
  BY DEF Init, FastPath, OwnersReserve, OneOwner, OwnersStay, NoGhostKey, Owns

(***************************************************************************)
(* A call that neither gains nor loses its key.                            *)
(***************************************************************************)
LEMMA FastPathKept ==
  ASSUME IdempotencyAssumption, Index, FastPath, NEW c \in Calls,
         NEW step \in Steps,
         Goto(c, step), rows' \in {rows, rows \cup {c}},
         Owns(c)' <=> Owns(c),
         c \in rows' => step = "done" \/ ~Clean(c)',
         UNCHANGED reserved, tainted \subseteq tainted'
  PROVE  FastPath'
<1> USE DEF IdempotencyAssumption, Index, TypeOK, FastPath, Goto, Clean, SameKey
<1>1. \A d \in Calls : Owns(d)' <=> Owns(d)
  BY DEF Owns
<1>2. OwnersReserve'
  BY <1>1 DEF OwnersReserve
<1>3. OneOwner'
  BY <1>1 DEF OneOwner
<1>4. OwnersStay'
  BY DEF OwnersStay
<1>5. NoGhostKey'
  <2> SUFFICES ASSUME NEW k \in reserved \ tainted,
                      ~InFlight(k), ~ \E r \in rows : KeyOf[r] = k
               PROVE  FALSE
    BY <1>1 DEF NoGhostKey, InFlight, Owns
  <2> QED BY DEF NoGhostKey
<1> QED BY <1>2, <1>3, <1>4, <1>5

(***************************************************************************)
(* A call whose key is tainted now, or that has no key, or no ownership.   *)
(***************************************************************************)
LEMMA FastPathTainted ==
  ASSUME IdempotencyAssumption, Index, FastPath, NEW c \in Calls,
         NEW step \in Steps,
         Goto(c, step), rows' \in {rows, rows \cup {c}},
         reserved \ {KeyOf[c]} = reserved' \ {KeyOf[c]}, reserved' \subseteq Keys,
         tainted' = tainted \cup ({KeyOf[c]} \ {None})
  PROVE  FastPath'
<1> USE DEF IdempotencyAssumption, Index, TypeOK, FastPath, Goto, Clean, SameKey
<1>1. \A d \in Calls \ {c} : Owns(d)' <=> Owns(d)
  BY DEF Owns
<1>2. ~Clean(c)'
  OBVIOUS
<1>3. OwnersReserve'
  BY <1>1, <1>2 DEF OwnersReserve
<1>4. OneOwner'
  BY <1>1, <1>2 DEF OneOwner
<1>5. OwnersStay'
  BY <1>2 DEF OwnersStay
<1>6. NoGhostKey'
  <2> SUFFICES ASSUME NEW k \in reserved' \ tainted'
               PROVE  InFlight(k)' \/ \E r \in rows' : KeyOf[r] = k
    BY DEF NoGhostKey
  <2>1. k \in reserved \ tainted /\ k # KeyOf[c]
    OBVIOUS
  <2>2. CASE InFlight(k)
    BY <2>1, <2>2 DEF InFlight
  <2> QED BY <2>1, <2>2 DEF NoGhostKey
<1> QED BY <1>3, <1>4, <1>5, <1>6

-----------------------------------------------------------------------------
(***************************************************************************)
(* The reservation makes the caller the owner of its key: a clean key that *)
(* is not reserved has no owner.                                           *)
(***************************************************************************)
LEMMA ReserveFastPath ==
  ASSUME IdempotencyAssumption, Index, FastPath, NEW c \in Calls,
         checkAndReserve(c)
  PROVE  FastPath'
<1>1. /\ pc[c] = "reserve" /\ UNCHANGED <<rows, jobs>>
      /\ KeyOf[c] \in Keys
  BY DEF checkAndReserve, Index, KeyedCalls, IdempotencyAssumption
<1>2. c \notin rows /\ ~Owns(c)
  BY <1>1 DEF Index, RowsEnded, Owns
<1>3. CASE /\ KeyOf[c] \notin reserved
           /\ reserved' = reserved \cup {KeyOf[c]}
           /\ Goto(c, "insert")
           /\ UNCHANGED <<answer, stored, tainted>>
  <2> USE DEF IdempotencyAssumption, Index, TypeOK, FastPath, Goto, Clean, SameKey
  <2>1. \A d \in Calls \ {c} : Owns(d)' <=> Owns(d)
    BY <1>1, <1>3 DEF Owns
  <2>2. \A d \in Calls : SameKey(c, d) /\ Clean(d) => ~Owns(d)
    BY <1>3 DEF OwnersReserve
  <2>3. OwnersReserve'
    BY <1>3, <2>1 DEF OwnersReserve
  <2>4. OneOwner'
    BY <1>3, <2>1, <2>2 DEF OneOwner
  <2>5. OwnersStay'
    BY <1>1, <1>2, <1>3 DEF OwnersStay
  <2>6. NoGhostKey'
    BY <1>1, <1>3 DEF NoGhostKey, InFlight
  <2> QED BY <2>3, <2>4, <2>5, <2>6
<1>4. CASE /\ Goto(c, "lookup")
           /\ UNCHANGED <<reserved, answer, stored, tainted>>
  <2>1. ~Owns(c)'
    BY <1>1, <1>2, <1>4 DEF Owns, Goto, Index, TypeOK
  <2> QED BY <1>1, <1>2, <1>4, <2>1, FastPathKept DEF Steps
<1>5. CASE /\ reserved' \in {reserved, reserved \cup {KeyOf[c]}}
           /\ Return(c, "error", None)
           /\ Taint(c)
  <2>1. reserved' \subseteq Keys
    BY <1>1, <1>5 DEF Index, TypeOK
  <2> QED BY <1>1, <1>5, <2>1, FastPathTainted DEF Return, Taint, Steps
<1> QED BY <1>3, <1>4, <1>5 DEF checkAndReserve

LEMMA ReleaseFastPath ==
  ASSUME IdempotencyAssumption, Index, FastPath, NEW c \in Calls,
         releaseReservation(c)
  PROVE  FastPath'
<1>1. /\ pc[c] = "release" /\ Goto(c, "done") /\ UNCHANGED <<rows, jobs>>
      /\ KeyOf[c] \in Keys
  BY DEF releaseReservation, Index, KeyedCalls, IdempotencyAssumption
<1>2. CASE reserved' = reserved \ {KeyOf[c]} /\ UNCHANGED tainted
  <2> USE DEF IdempotencyAssumption, Index, TypeOK, FastPath, Goto, Clean, SameKey
  <2>1. \A d \in Calls \ {c} : Owns(d)' <=> Owns(d)
    BY <1>1 DEF Owns
  <2>2. \A d \in Calls \ {c} : SameKey(c, d) /\ Clean(d) => ~Owns(d)
    BY <1>1 DEF OneOwner, Owns
  <2>3. Clean(c) => ~Owns(c)'
    BY <1>1 DEF OwnersStay, Owns
  <2>4. OwnersReserve'
    BY <1>1, <1>2, <2>1, <2>2, <2>3 DEF OwnersReserve
  <2>5. OneOwner'
    BY <1>1, <1>2, <2>1, <2>3 DEF OneOwner
  <2>6. OwnersStay'
    BY <1>1, <1>2 DEF OwnersStay
  <2>7. NoGhostKey'
    BY <1>1, <1>2 DEF NoGhostKey, InFlight
  <2> QED BY <2>4, <2>5, <2>6, <2>7
<1>3. CASE Taint(c) /\ UNCHANGED reserved
  <2>1. reserved' \subseteq Keys
    BY <1>3 DEF Index, TypeOK
  <2> QED BY <1>1, <1>3, <2>1, FastPathTainted DEF Taint, Steps
<1> QED BY <1>2, <1>3 DEF releaseReservation

(***************************************************************************)
(* The transaction keeps the key, whether it goes on or fails; without a   *)
(* key the call concerns nobody.                                           *)
(***************************************************************************)
LEMMA TransactionFastPath ==
  ASSUME IdempotencyAssumption, Index, FastPath, NEW c \in Calls,
         insertRow(c) \/ enqueueJob(c) \/ commitRow(c) \/ abortTransaction(c)
  PROVE  FastPath'
<1>1. /\ pc[c] \in {"insert", "enqueue", "commit"}
      /\ UNCHANGED <<reserved, tainted>>
      /\ rows' \in {rows, rows \cup {c}}
      /\ \E step \in {"enqueue", "commit", "release", "done"} :
           /\ Goto(c, step)
           /\ step = "done" => KeyOf[c] = None \/ rows' = rows \cup {c}
           /\ step # "done" => rows' = rows
  BY DEF insertRow, enqueueJob, commitRow, abortTransaction, Fail, Return
<1>2. c \notin rows
  BY <1>1 DEF Index, RowsEnded
<1>3. PICK step \in {"enqueue", "commit", "release", "done"} :
           /\ Goto(c, step)
           /\ step = "done" => KeyOf[c] = None \/ rows' = rows \cup {c}
           /\ step # "done" => rows' = rows
  BY <1>1
<1>4. CASE KeyOf[c] = None
  <2>1. reserved' \subseteq Keys /\ tainted' = tainted \cup ({KeyOf[c]} \ {None})
    BY <1>1, <1>4 DEF Index, TypeOK
  <2> QED BY <1>1, <1>3, <2>1, FastPathTainted DEF Steps
<1>5. CASE KeyOf[c] # None
  <2>1. Owns(c) /\ Owns(c)'
    BY <1>1, <1>3, <1>5 DEF Owns, Goto, Index, TypeOK
  <2>2. c \in rows' => step = "done"
    BY <1>2, <1>3
  <2> QED BY <1>1, <1>3, <2>1, <2>2, FastPathKept DEF Steps
<1> QED BY <1>4, <1>5

LEMMA TaintingFastPath ==
  ASSUME IdempotencyAssumption, Index, FastPath, NEW c \in Calls,
         loseCommitReply(c) \/ Crash(c)
  PROVE  FastPath'
<1>1. /\ \E step \in Steps : Goto(c, step)
      /\ rows' \in {rows, rows \cup {c}}
      /\ Taint(c) /\ UNCHANGED reserved
  BY DEF loseCommitReply, Crash, Fail, Return, Steps
<1>2. reserved' \subseteq Keys
  BY <1>1 DEF Index, TypeOK
<1> QED BY <1>1, <1>2, FastPathTainted DEF Taint

LEMMA QuietFastPath ==
  ASSUME IdempotencyAssumption, Index, FastPath, NEW c \in Calls,
         Start(c) \/ findExisting(c)
  PROVE  FastPath'
<1>1. UNCHANGED <<reserved, rows, tainted>>
  BY DEF Start, findExisting
<1>2. pc[c] \in {"idle", "lookup"} /\ c \notin rows /\ ~Owns(c)
  BY DEF Start, findExisting, Index, RowsEnded, Owns
<1>3. CASE KeyOf[c] = None
  <2>1. reserved' \subseteq Keys /\ tainted' = tainted \cup ({KeyOf[c]} \ {None})
    BY <1>1, <1>3 DEF Index, TypeOK
  <2>2. \E step \in Steps : Goto(c, step)
    BY DEF Start, findExisting, Return, Steps
  <2> QED BY <1>1, <2>1, <2>2, FastPathTainted
<1>4. CASE KeyOf[c] # None
  <2>1. PICK step \in {"reserve", "done"} : Goto(c, step)
    BY <1>4 DEF Start, findExisting, Return
  <2>2. ~Owns(c)'
    BY <1>1, <1>2, <2>1 DEF Owns, Goto, Index, TypeOK
  <2> QED BY <1>1, <1>2, <2>1, <2>2, FastPathKept DEF Steps
<1> QED BY <1>3, <1>4

LEMMA ExpireFastPath ==
  ASSUME IdempotencyAssumption, Index, FastPath, NEW k \in Keys, Expire(k)
  PROVE  FastPath'
  BY DEF FastPath, OwnersReserve, OneOwner, OwnersStay, NoGhostKey, InFlight,
         Owns, Clean, SameKey, Expire

LEMMA FastPathStep ==
  ASSUME IdempotencyAssumption, Index, FastPath, [Next]_vars
  PROVE  FastPath'
<1>1. CASE UNCHANGED vars
  BY <1>1 DEF FastPath, OwnersReserve, OneOwner, OwnersStay, NoGhostKey,
              InFlight, Owns, Clean, SameKey, vars
<1>2. ASSUME NEW c \in Calls, Start(c) PROVE FastPath'
  BY <1>2, QuietFastPath
<1>3. ASSUME NEW c \in Calls, createNotification(c) PROVE FastPath'
  BY <1>3, ReserveFastPath, QuietFastPath, TransactionFastPath, ReleaseFastPath
  DEF createNotification
<1>4. ASSUME NEW c \in Calls, Mishap(c) PROVE FastPath'
  BY <1>4, TransactionFastPath, TaintingFastPath DEF Mishap
<1>5. ASSUME NEW k \in Keys, Expire(k) PROVE FastPath'
  BY <1>5, ExpireFastPath
<1> QED BY <1>1, <1>2, <1>3, <1>4, <1>5 DEF Next

LEMMA FastPathInvariant ==
  ASSUME IdempotencyAssumption PROVE Spec => [](Index /\ FastPath)
<1>1. Init => FastPath
  BY InitFastPath
<1>2. Index /\ FastPath /\ [Next]_vars => FastPath'
  BY FastPathStep
<1> QED BY <1>1, <1>2, IndexInvariant, PTL DEF Spec

(***************************************************************************)
(* No ghost key: a key that is reserved without a row has a call in flight *)
(* that will give it one or release it, unless Redis failed this key or a  *)
(* process died with it.                                                   *)
(***************************************************************************)
THEOREM GhostKeysReleased == ASSUME IdempotencyAssumption PROVE Spec => []NoGhostKey
<1>1. FastPath => NoGhostKey
  BY DEF FastPath
<1> QED BY <1>1, FastPathInvariant, PTL

(***************************************************************************)
(* As long as Redis keeps a key, one call at a time gets to the insert for *)
(* it, and none after a row is there: nobody meets the unique index.       *)
(***************************************************************************)
THEOREM OneInsert == ASSUME IdempotencyAssumption PROVE Spec => []OneInserter
<1>1. FastPath => OneInserter
  BY DEF FastPath, OneOwner, OneInserter, Owns, Clean, SameKey
<1> QED BY <1>1, FastPathInvariant, PTL

-----------------------------------------------------------------------------
(***************************************************************************)
(* What an answer says is so: "created" and a row come together, unless    *)
(* the reply of the commit was lost, only an unknown recipient has none,   *)
(* and nobody is answered before the end.                                  *)
(***************************************************************************)
AnswersTrue ==
    \A c \in Calls :
      /\ pc[c] \in {"release", "done"} => answer[c] \in Answers
      /\ pc[c] = "release" => answer[c] \in {"error", "noRecipient"}
      /\ pc[c] \notin {"release", "done"} => answer[c] = None
      /\ answer[c] = "noRecipient" => c \in Unknown
      /\ answer[c] = "created" => c \in rows
      /\ c \in rows => answer[c] \in {"created", "error"}

LEMMA AnswersTrueStep ==
  ASSUME IdempotencyAssumption, Index, AnswersTrue, [Next]_vars
  PROVE  AnswersTrue'
<1> USE DEF Index, TypeOK, RowsEnded, AnswersTrue, Goto, Return, Fail, Steps, Answers
<1>1. CASE UNCHANGED vars
  BY <1>1 DEF vars
<1>2. ASSUME NEW c \in Calls, Start(c) PROVE AnswersTrue'
  BY <1>2 DEF Start
<1>3. ASSUME NEW c \in Calls, checkAndReserve(c) \/ findExisting(c)
      PROVE  AnswersTrue'
  BY <1>3 DEF checkAndReserve, findExisting
<1>4. ASSUME NEW c \in Calls, insertRow(c) PROVE AnswersTrue'
  BY <1>4 DEF insertRow, KeyedCalls
<1>5. ASSUME NEW c \in Calls, enqueueJob(c) \/ commitRow(c) PROVE AnswersTrue'
  BY <1>5 DEF enqueueJob, commitRow
<1>6. ASSUME NEW c \in Calls, releaseReservation(c) PROVE AnswersTrue'
  BY <1>6 DEF releaseReservation
<1>7. ASSUME NEW c \in Calls, Mishap(c) PROVE AnswersTrue'
  BY <1>7 DEF Mishap, abortTransaction, loseCommitReply, Crash
<1>8. ASSUME NEW k \in Keys, Expire(k) PROVE AnswersTrue'
  BY <1>8 DEF Expire
<1> QED
  BY <1>1, <1>2, <1>3, <1>4, <1>5, <1>6, <1>7, <1>8 DEF Next, createNotification

LEMMA AnswersTrueInvariant ==
  ASSUME IdempotencyAssumption PROVE Spec => [](Index /\ AnswersTrue)
<1>1. Init => AnswersTrue
  BY DEF Init, AnswersTrue, Answers, IdempotencyAssumption
<1>2. Index /\ AnswersTrue /\ [Next]_vars => AnswersTrue'
  BY AnswersTrueStep
<1> QED BY <1>1, <1>2, IndexInvariant, PTL DEF Spec

(***************************************************************************)
(* Who lost a key lost it to another call that has a row, is on its way to *)
(* one, or has told its caller that it failed; or a failure hit the key.   *)
(***************************************************************************)
Responsible(d) == Owns(d) \/ answer[d] \in {"error", "noRecipient"}

Lost(c) == pc[c] = "lookup" \/ answer[c] = "inFlight"

LostToAnother ==
    \A c \in Calls :
      Lost(c) =>
        /\ KeyOf[c] # None
        /\ \/ KeyOf[c] \in tainted
           \/ \E d \in Calls \ {c} : SameKey(d, c) /\ Responsible(d)

(***************************************************************************)
(* A call stays responsible, and only a reservation that is taken makes    *)
(* one lose its key.                                                       *)
(***************************************************************************)
Keeps(d) ==
    /\ Responsible(d) => Responsible(d)'
    /\ Lost(d)' => Lost(d) \/ (checkAndReserve(d) /\ KeyOf[d] \in reserved)
    /\ tainted \subseteq tainted'

LEMMA ResponsibleStays ==
  ASSUME IdempotencyAssumption, Index, AnswersTrue, [Next]_vars, NEW d \in Calls
  PROVE  Keeps(d)
<1> USE DEF Index, TypeOK, RowsEnded, KeyedCalls, AnswersTrue, Goto, Return, Fail,
            Taint, Steps, Answers, Responsible, Owns, Lost, Keeps
<1>1. CASE UNCHANGED vars
  BY <1>1 DEF vars
<1>2. ASSUME NEW c \in Calls, Start(c) PROVE Keeps(d)
  BY <1>2 DEF Start
<1>3. ASSUME NEW c \in Calls, checkAndReserve(c) PROVE Keeps(d)
  <2>1. CASE c = d
    BY <1>3, <2>1 DEF checkAndReserve
  <2>2. CASE c # d
    BY <1>3, <2>2 DEF checkAndReserve
  <2> QED BY <2>1, <2>2
<1>4. ASSUME NEW c \in Calls, findExisting(c) PROVE Keeps(d)
  <2>1. pc[c] = "lookup" /\ c \notin rows /\ answer[c] = None
    BY <1>4 DEF findExisting
  <2> QED
    BY <1>4, <2>1 DEF findExisting, IdempotencyAssumption
<1>5. ASSUME NEW c \in Calls, insertRow(c) \/ enqueueJob(c) \/ commitRow(c)
      PROVE Keeps(d)
  BY <1>5 DEF insertRow, enqueueJob, commitRow
<1>6. ASSUME NEW c \in Calls, releaseReservation(c) PROVE Keeps(d)
  BY <1>6 DEF releaseReservation
<1>7. ASSUME NEW c \in Calls, Mishap(c) PROVE Keeps(d)
  BY <1>7 DEF Mishap, abortTransaction, loseCommitReply, Crash
<1>8. ASSUME NEW k \in Keys, Expire(k) PROVE Keeps(d)
  BY <1>8 DEF Expire
<1> QED
  BY <1>1, <1>2, <1>3, <1>4, <1>5, <1>6, <1>7, <1>8 DEF Next, createNotification

LEMMA LostStep ==
  ASSUME IdempotencyAssumption, Index, FastPath, AnswersTrue, LostToAnother,
         [Next]_vars
  PROVE  LostToAnother'
<1> SUFFICES ASSUME NEW c \in Calls, Lost(c)', KeyOf[c] \notin tainted'
             PROVE  /\ KeyOf[c] # None
                    /\ \E d \in Calls \ {c} : SameKey(d, c) /\ Responsible(d)'
  <2>1. ASSUME NEW c \in Calls, Lost(c)', KeyOf[c] \in tainted'
        PROVE  KeyOf[c] # None
    BY <2>1, IdempotencyAssumption, IndexStep
    DEF Index, TypeOK, IdempotencyAssumption
  <2> QED BY <2>1 DEF LostToAnother, SameKey
<1>1. KeyOf[c] \notin tainted
  BY ResponsibleStays DEF Keeps
<1>2. CASE Lost(c)
  BY <1>1, <1>2, ResponsibleStays DEF Keeps, LostToAnother
<1>3. CASE checkAndReserve(c) /\ KeyOf[c] \in reserved
  <2>1. ~Owns(c) /\ KeyOf[c] # None
    BY <1>3 DEF checkAndReserve, Owns, Index, RowsEnded, KeyedCalls
  <2>2. \E d \in Calls : KeyOf[d] = KeyOf[c] /\ Owns(d)
    BY <1>1, <1>3 DEF FastPath, NoGhostKey, InFlight, Owns, Index, TypeOK
  <2>3. PICK d \in Calls \ {c} : SameKey(d, c) /\ Owns(d)
    BY <2>1, <2>2 DEF SameKey
  <2>4. Responsible(d)'
    BY <2>3, ResponsibleStays DEF Keeps, Responsible
  <2> QED BY <2>1, <2>3, <2>4
<1> QED BY <1>2, <1>3, ResponsibleStays DEF Keeps

LEMMA LostInvariant ==
  ASSUME IdempotencyAssumption PROVE Spec => []LostToAnother
<1>1. Init => LostToAnother
  BY DEF Init, LostToAnother, Lost, IdempotencyAssumption, Answers
<1>2. Index /\ FastPath /\ AnswersTrue /\ LostToAnother /\ [Next]_vars
        => LostToAnother'
  BY LostStep
<1> QED
  BY <1>1, <1>2, FastPathInvariant, AnswersTrueInvariant, PTL DEF Spec

(***************************************************************************)
(* A call moves alone, and not after it has ended.                         *)
(***************************************************************************)
MovesAlone(c) ==
    \A d \in Calls \ {c} : pc'[d] = pc[d] /\ answer'[d] = answer[d]

LEMMA CallMoves ==
  ASSUME TypeOK, NEW c \in Calls
  PROVE  /\ Start(c) => pc[c] = "idle" /\ MovesAlone(c)
         /\ createNotification(c) => pc[c] \notin {"idle", "done"} /\ MovesAlone(c)
         /\ Mishap(c) => pc[c] \notin {"idle", "done"} /\ MovesAlone(c)
<1> USE DEF TypeOK, MovesAlone, Goto, Return, Fail
<1>1. Start(c) => pc[c] = "idle" /\ MovesAlone(c)
  BY DEF Start
<1>2. checkAndReserve(c) \/ findExisting(c) =>
        pc[c] \notin {"idle", "done"} /\ MovesAlone(c)
  BY DEF checkAndReserve, findExisting
<1>3. insertRow(c) \/ enqueueJob(c) \/ commitRow(c) \/ releaseReservation(c) =>
        pc[c] \notin {"idle", "done"} /\ MovesAlone(c)
  BY DEF insertRow, enqueueJob, commitRow, releaseReservation
<1>4. Mishap(c) => pc[c] \notin {"idle", "done"} /\ MovesAlone(c)
  BY DEF Mishap, abortTransaction, loseCommitReply, Crash
<1> QED BY <1>1, <1>2, <1>3, <1>4 DEF createNotification

=============================================================================
