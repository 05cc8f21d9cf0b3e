------------------------------- MODULE Fanout -------------------------------
(***************************************************************************)
(* POST /notifications/fanout (src/services/fanout.service.ts): one call   *)
(* of createNotification per recipient, one after the other, each under a  *)
(* key derived from the base key and the recipient.  Fanouts run beside    *)
(* each other, beside their own retries and beside plain POSTs, which may  *)
(* use any of the derived keys, for any user.                              *)
(***************************************************************************)
EXTENDS Naturals

CONSTANTS
    Fanouts,     \* the fanout requests
    Posts,       \* the plain requests
    Users,       \* the recipients of every fanout
    Strangers,   \* the users that do not exist
    BaseKeys,    \* the base idempotency keys
    BaseOf,      \* fanout -> its base key, or None
    PostKey,     \* post -> its idempotency key, or None
    PostUser,    \* post -> its recipient
    None,        \* no key, no row, no answer
    Failures     \* the failures that may happen

VARIABLES
    reserved, rows, jobs, pc, answer, stored, tainted,  \* of createNotification
    left,        \* fanout -> the recipients it has not started on
    enqueued,    \* fanout -> the recipients it counted as enqueued
    skipped,     \* fanout -> the recipients it listed as skipped
    outcome      \* fanout -> "new", "looping", "ok" (200) or "error" (500)

callVars   == <<reserved, rows, jobs, pc, answer, stored, tainted>>
fanoutVars == <<left, enqueued, skipped, outcome>>
vars == <<callVars, fanoutVars>>

(***************************************************************************)
(* The key `${base}:${userId}` is the pair of the two.                     *)
(***************************************************************************)
perUserKey(f, u) == IF BaseOf[f] = None THEN None ELSE <<BaseOf[f], u>>

FanoutCalls == Fanouts \X Users

Calls == Posts \cup FanoutCalls

RecipientOf(c) == IF c \in Posts THEN PostUser[c] ELSE c[2]

Create == INSTANCE Idempotency WITH
    Calls <- Calls,
    Keys <- BaseKeys \X Users,
    KeyOf <- [c \in Calls |-> IF c \in Posts THEN PostKey[c]
                              ELSE perUserKey(c[1], c[2])],
    Unknown <- {c \in Calls : RecipientOf(c) \in Strangers}

ASSUME FanoutAssumption ==
    /\ BaseOf \in [Fanouts -> BaseKeys \cup {None}]
    /\ None \notin BaseKeys
    /\ Posts \cap FanoutCalls = {}
    /\ Create!IdempotencyAssumption

TypeOK ==
    /\ Create!TypeOK
    /\ left \in [Fanouts -> SUBSET Users]
    /\ enqueued \in [Fanouts -> SUBSET Users]
    /\ skipped \in [Fanouts -> SUBSET Users]
    /\ outcome \in [Fanouts -> {"new", "looping", "ok", "error"}]

Init ==
    /\ Create!Init
    /\ left = [f \in Fanouts |-> Users]
    /\ enqueued = [f \in Fanouts |-> {}]
    /\ skipped = [f \in Fanouts |-> {}]
    /\ outcome = [f \in Fanouts |-> "new"]

-----------------------------------------------------------------------------
(***************************************************************************)
(* The recipient fanout f is waiting for.                                  *)
(***************************************************************************)
Awaited(f) ==
    {u \in Users \ left[f] : u \notin enqueued[f] \cup skipped[f]}

fanoutNotification(f) ==
    /\ outcome[f] = "new"
    /\ outcome' = [outcome EXCEPT ![f] = "looping"]
    /\ UNCHANGED <<callVars, left, enqueued, skipped>>

NextRecipient(f) ==
    /\ outcome[f] = "looping"
    /\ Awaited(f) = {}
    /\ \E u \in left[f] :
         /\ left' = [left EXCEPT ![f] = @ \ {u}]
         /\ Create!Start(<<f, u>>)
    /\ UNCHANGED <<enqueued, skipped, outcome>>

(***************************************************************************)
(* The loop goes on after a duplicate and after a missing recipient; any   *)
(* other error ends the request with a 500, whatever it has created.       *)
(***************************************************************************)
countExisting(f, u) == answer[<<f, u>>] \in {"created", "existing"}  \* mutant

countsAsEnqueued(f, u) == answer[<<f, u>>] = "created"

TakeResult(f) ==
    /\ outcome[f] = "looping"
    /\ \E u \in Awaited(f) :
         /\ pc[<<f, u>>] = "done"
         /\ IF answer[<<f, u>>] = "error"
            THEN /\ outcome' = [outcome EXCEPT ![f] = "error"]
                 /\ UNCHANGED <<enqueued, skipped>>
            ELSE /\ IF countsAsEnqueued(f, u)
                    THEN /\ enqueued' = [enqueued EXCEPT ![f] = @ \cup {u}]
                         /\ UNCHANGED skipped
                    ELSE /\ skipped' = [skipped EXCEPT ![f] = @ \cup {u}]
                         /\ UNCHANGED enqueued
                 /\ UNCHANGED outcome
    /\ UNCHANGED <<callVars, left>>

Answer(f) ==
    /\ outcome[f] = "looping"
    /\ left[f] = {}
    /\ Awaited(f) = {}
    /\ outcome' = [outcome EXCEPT ![f] = "ok"]
    /\ UNCHANGED <<callVars, left, enqueued, skipped>>

FanoutStep(f) == NextRecipient(f) \/ TakeResult(f) \/ Answer(f)

(***************************************************************************)
(* Everybody has answered.  TLC's deadlock check then shows that no call   *)
(* waits for an insert that waits for it.                                  *)
(***************************************************************************)
Finished ==
    /\ \A f \in Fanouts : outcome[f] \in {"ok", "error"}
    /\ \A c \in Calls : pc[c] \in {"idle", "done"}
    /\ UNCHANGED vars

Next ==
    \/ Finished
    \/ \E f \in Fanouts : fanoutNotification(f) \/ FanoutStep(f)
    \/ /\ \/ \E p \in Posts : Create!Start(p)
          \/ \E c \in Calls : Create!createNotification(c) \/ Create!Mishap(c)
          \/ \E k \in BaseKeys \X Users : Create!Expire(k)
       /\ UNCHANGED fanoutVars

Spec == Init /\ [][Next]_vars

-----------------------------------------------------------------------------
OneRowPerKey == Create!OneRowPerKey
RowHasJob    == Create!RowHasJob
AnswersAgree == Create!AnswersAgree
NoGhostKey   == Create!NoGhostKey
OneInserter  == Create!OneInserter

(***************************************************************************)
(* What another call with the key of fanout f for u has come to.           *)
(***************************************************************************)
Served(f, u) ==
    \E r \in rows : Create!SameKey(r, <<f, u>>) /\ RecipientOf(r) = u

TakenByPost(f, u) ==
    \E p \in Posts \cap rows :
      Create!SameKey(p, <<f, u>>) /\ PostUser[p] # u

OnItsWay(c) == pc[c] \in {"insert", "enqueue", "commit", "release"}

ToldOfFailure(c) == answer[c] \in {"error", "noRecipient"}

Contested(f, u) ==
    \E c \in Calls \ {<<f, u>>} :
      Create!SameKey(c, <<f, u>>) /\ (OnItsWay(c) \/ ToldOfFailure(c))

(***************************************************************************)
(* A fanout that answers 200 has counted every recipient exactly once, as  *)
(* enqueued if and only if it created the row.  It skips one only if the   *)
(* user does not exist, has a notification under this key, or lost the key *)
(* to another call: one for somebody else, one still on its way, or one    *)
(* whose own caller was told of its failure.  The exception is a key that  *)
(* Redis failed or that a process died with: there the skipped recipient   *)
(* may have nothing and nobody, until the key expires.                     *)
(***************************************************************************)
FanoutIsHonest ==
    \A f \in Fanouts :
      outcome[f] = "ok" =>
        /\ enqueued[f] \cup skipped[f] = Users
        /\ enqueued[f] \cap skipped[f] = {}
        /\ enqueued[f] = {u \in Users : <<f, u>> \in rows}
        /\ \A u \in skipped[f] :
             \/ u \in Strangers
             \/ Served(f, u)
             \/ TakenByPost(f, u)
             \/ Contested(f, u)
             \/ perUserKey(f, u) \in tainted

=============================================================================
