---------------------------- MODULE Idempotency ----------------------------
(***************************************************************************)
(* createNotification (src/services/notifications.service.ts) as its       *)
(* concurrent callers see it: the reservation of an idempotency key in     *)
(* Redis (src/services/idempotency.ts), the transaction in Postgres, whose *)
(* unique index is the second layer, and the release of the reservation    *)
(* when the transaction fails.  A row is named by the call that created    *)
(* it.  What happens to the job afterwards is module Delivery.             *)
(***************************************************************************)
EXTENDS Naturals

CONSTANTS
    Calls,      \* the calls of createNotification
    Keys,       \* the idempotency keys
    KeyOf,      \* call -> its key, or None
    Unknown,    \* the calls whose recipient does not exist
    None,       \* no key, no row, no answer
    Failures    \* the failures that may happen, out of FailureKinds

FailureKinds == {"abort", "lostCommit", "redis", "crash", "expire"}

Answers == {"created", "existing", "inFlight", "noRecipient", "error"}

IdempotencyAssumption ==
    /\ None \notin Keys \cup Calls \cup Answers
    /\ KeyOf \in [Calls -> Keys \cup {None}]
    /\ Unknown \subseteq Calls
    /\ Failures \subseteq FailureKinds

VARIABLES
    reserved,   \* the keys idem:notification:* in Redis
    rows,       \* the committed rows
    jobs,       \* the calls whose job was added to a queue
    pc,         \* call -> the await it is at
    answer,     \* call -> how it ends
    stored,     \* call -> the row it returns
    tainted     \* history: keys a failure other than a plain abort has hit

vars == <<reserved, rows, jobs, pc, answer, stored, tainted>>

Steps == {"idle", "reserve", "lookup", "insert", "enqueue", "commit",
          "release", "done"}

TypeOK ==
    /\ reserved \subseteq Keys
    /\ rows \subseteq Calls
    /\ jobs \subseteq Calls
    /\ pc \in [Calls -> Steps]
    /\ answer \in [Calls -> Answers \cup {None}]
    /\ stored \in [Calls -> Calls \cup {None}]
    /\ \A c \in Calls : answer[c] \in {"created", "existing"} => stored[c] # None
    /\ tainted \subseteq Keys

Init ==
    /\ reserved = {}
    /\ rows = {}
    /\ jobs = {}
    /\ pc = [c \in Calls |-> "idle"]
    /\ answer = [c \in Calls |-> None]
    /\ stored = [c \in Calls |-> None]
    /\ tainted = {}

-----------------------------------------------------------------------------
SameKey(c, d) == KeyOf[c] # None /\ KeyOf[c] = KeyOf[d]

Goto(c, step) == pc' = [pc EXCEPT ![c] = step]

Return(c, how, r) ==
    /\ Goto(c, "done")
    /\ answer' = [answer EXCEPT ![c] = how]
    /\ stored' = [stored EXCEPT ![c] = r]

Taint(c) == tainted' = tainted \cup ({KeyOf[c]} \ {None})

Start(c) ==
    /\ pc[c] = "idle"
    /\ Goto(c, IF KeyOf[c] = None THEN "insert" ELSE "reserve")
    /\ UNCHANGED <<reserved, rows, jobs, answer, stored, tainted>>

(***************************************************************************)
(* checkAndReserve: SET NX, one atomic command.  When its reply is lost    *)
(* the call fails outside the try block: nothing is released.              *)
(***************************************************************************)
checkAndReserve(c) ==
    /\ pc[c] = "reserve"
    /\ \/ /\ KeyOf[c] \notin reserved
          /\ reserved' = reserved \cup {KeyOf[c]}
          /\ Goto(c, "insert")
          /\ UNCHANGED <<answer, stored, tainted>>
       \/ /\ KeyOf[c] \in reserved
          /\ Goto(c, "lookup")
          /\ UNCHANGED <<reserved, answer, stored, tainted>>
       \/ /\ "redis" \in Failures
          /\ reserved' \in {reserved, reserved \cup {KeyOf[c]}}
          /\ Return(c, "error", None)
          /\ Taint(c)
    /\ UNCHANGED <<rows, jobs>>

findWithoutCheck(c) ==  \* mutant: `if (existing)` is forgotten
    /\ pc[c] = "lookup"
    /\ \/ \E r \in rows : SameKey(r, c) /\ Return(c, "existing", r)
       \/ /\ \A r \in rows : ~SameKey(r, c)
          /\ Return(c, "existing", None)
    /\ UNCHANGED <<reserved, rows, jobs, tainted>>

(***************************************************************************)
(* The loser of the race returns the row of the winner, or gives up with   *)
(* IdempotencyInFlightError.                                               *)
(***************************************************************************)
findExisting(c) ==
    /\ pc[c] = "lookup"
    /\ \/ \E r \in rows : SameKey(r, c) /\ Return(c, "existing", r)
       \/ /\ \A r \in rows : ~SameKey(r, c)
          /\ Return(c, "inFlight", None)
       \/ "abort" \in Failures /\ Return(c, "error", None)
    /\ UNCHANGED <<reserved, rows, jobs, tainted>>

(***************************************************************************)
(* The transaction throws, and the catch block drops the reservation       *)
(* before it rethrows.                                                     *)
(***************************************************************************)
forgetRelease(c, how) == Return(c, how, None)  \* mutant: no catch block

Fail(c, how) ==
    /\ Goto(c, IF KeyOf[c] = None THEN "done" ELSE "release")
    /\ answer' = [answer EXCEPT ![c] = how]
    /\ UNCHANGED stored

(***************************************************************************)
(* tx.notification.create.  The unique index on idempotencyKey makes an    *)
(* insert wait for the open transaction that inserted the same key, and    *)
(* fail (P2002) on a committed one.                                        *)
(***************************************************************************)
noIndex(c) == FALSE  \* mutant: idempotencyKey is not unique

waitsForIndex(c) ==
    \E d \in Calls \ {c} : SameKey(c, d) /\ pc[d] \in {"enqueue", "commit"}

insertRow(c) ==
    /\ pc[c] = "insert"
    /\ ~waitsForIndex(c)
    /\ IF \E r \in rows : SameKey(r, c) THEN Fail(c, "error")
       ELSE IF c \in Unknown THEN Fail(c, "noRecipient")
       ELSE Goto(c, "enqueue") /\ UNCHANGED <<answer, stored>>
    /\ UNCHANGED <<reserved, rows, jobs, tainted>>

enqueueLater(c) ==  \* mutant: the job is added when the request is over
    /\ pc[c] = "enqueue"
    /\ Goto(c, "commit")
    /\ UNCHANGED <<reserved, rows, jobs, answer, stored, tainted>>

enqueueJob(c) ==
    /\ pc[c] = "enqueue"
    /\ jobs' = jobs \cup {c}
    /\ Goto(c, "commit")
    /\ UNCHANGED <<reserved, rows, answer, stored, tainted>>

releaseInFinally(c) ==  \* mutant: finally instead of catch
    /\ pc[c] = "commit"
    /\ rows' = rows \cup {c}
    /\ Goto(c, "release")
    /\ answer' = [answer EXCEPT ![c] = "created"]
    /\ stored' = [stored EXCEPT ![c] = c]
    /\ UNCHANGED <<reserved, jobs, tainted>>

commitRow(c) ==
    /\ pc[c] = "commit"
    /\ rows' = rows \cup {c}
    /\ Return(c, "created", c)
    /\ UNCHANGED <<reserved, jobs, tainted>>

(***************************************************************************)
(* A query fails, the enqueue fails or the transaction times out: all of   *)
(* it is rolled back.  The job, if it was added, stays.                    *)
(***************************************************************************)
abortTransaction(c) ==
    /\ "abort" \in Failures
    /\ pc[c] \in {"insert", "enqueue", "commit"}
    /\ Fail(c, "error")
    /\ UNCHANGED <<reserved, rows, jobs, tainted>>

(***************************************************************************)
(* The commit takes effect and its reply is lost: Prisma reports an error. *)
(***************************************************************************)
loseCommitReply(c) ==
    /\ "lostCommit" \in Failures
    /\ pc[c] = "commit"
    /\ rows' = rows \cup {c}
    /\ Fail(c, "error")
    /\ Taint(c)
    /\ UNCHANGED <<reserved, jobs>>

(***************************************************************************)
(* DEL, best effort: whoever's reservation it is by now.                   *)
(***************************************************************************)
releaseReservation(c) ==
    /\ pc[c] = "release"
    /\ Goto(c, "done")
    /\ \/ reserved' = reserved \ {KeyOf[c]} /\ UNCHANGED tainted
       \/ "redis" \in Failures /\ Taint(c) /\ UNCHANGED reserved
    /\ UNCHANGED <<rows, jobs, answer, stored>>

(***************************************************************************)
(* The process of the call dies; its transaction is rolled back.           *)
(***************************************************************************)
Crash(c) ==
    /\ "crash" \in Failures
    /\ pc[c] \notin {"idle", "done"}
    /\ Return(c, "error", None)
    /\ Taint(c)
    /\ UNCHANGED <<reserved, rows, jobs>>

(***************************************************************************)
(* The TTL of 24 hours is over, or Redis is flushed.                       *)
(***************************************************************************)
Expire(k) ==
    /\ "expire" \in Failures
    /\ k \in reserved
    /\ reserved' = reserved \ {k}
    /\ tainted' = tainted \cup {k}
    /\ UNCHANGED <<rows, jobs, pc, answer, stored>>

createNotification(c) ==
    \/ checkAndReserve(c)
    \/ findExisting(c)
    \/ insertRow(c)
    \/ enqueueJob(c)
    \/ commitRow(c)
    \/ releaseReservation(c)

Mishap(c) == abortTransaction(c) \/ loseCommitReply(c) \/ Crash(c)

Next ==
    \/ \E c \in Calls : Start(c) \/ createNotification(c) \/ Mishap(c)
    \/ \E k \in Keys : Expire(k)

Spec == Init /\ [][Next]_vars

-----------------------------------------------------------------------------
(***************************************************************************)
(* One notification per key, whatever Redis forgets and whoever dies:      *)
(* "Postgres' unique index on idempotencyKey is the source of truth"       *)
(* (README.md).                                                            *)
(***************************************************************************)
OneRowPerKey == \A r, s \in rows : SameKey(r, s) => r = s

(***************************************************************************)
(* "we never leave an orphaned PENDING notification that has no job behind *)
(* it" (createNotification's comment): every committed row has its job.    *)
(***************************************************************************)
RowHasJob == rows \subseteq jobs

(***************************************************************************)
(* All the calls with one key that name a row name the same one, and it is *)
(* committed.                                                              *)
(***************************************************************************)
AnswersAgree ==
    \A c, d \in Calls :
      (answer[c] \in {"created", "existing"}) =>
        /\ stored[c] \in rows
        /\ (answer[d] \in {"created", "existing"} /\ SameKey(c, d))
             => stored[c] = stored[d]

(***************************************************************************)
(* "a genuine retry from the client isn't blocked by a ghost key"          *)
(* (createNotification's catch block): a reserved key without a row has a  *)
(* call in flight, unless Redis failed it or a process died.               *)
(***************************************************************************)
InFlight(k) ==
    \E c \in Calls :
      KeyOf[c] = k /\ pc[c] \in {"insert", "enqueue", "commit", "release"}

NoGhostKey ==
    \A k \in reserved \ tainted :
      InFlight(k) \/ \E r \in rows : KeyOf[r] = k

(***************************************************************************)
(* The fast path is enough when Redis keeps its keys: no second call ever  *)
(* gets as far as the insert, let alone to a unique violation (a 500).     *)
(***************************************************************************)
OneInserter ==
    \A c, d \in Calls :
      (/\ SameKey(c, d) /\ c # d /\ KeyOf[c] \notin tainted
       /\ pc[c] \in {"insert", "enqueue", "commit"})
        => pc[d] \notin {"insert", "enqueue", "commit", "release"} /\ d \notin rows

=============================================================================
