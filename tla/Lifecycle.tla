----------------------------- MODULE Lifecycle -----------------------------
(***************************************************************************)
(* What the pipeline promises about one attempt to deliver a notification, *)
(* with no queue, worker or table in sight: a notification that exists is  *)
(* pushed out zero or more times while it is QUEUED, and ends SENT (only   *)
(* after a push) or DEAD_LETTER.  Its owner's demo account may be dropped  *)
(* at any time, and a push already under way may then still go out.        *)
(*                                                                         *)
(* The statuses are those of enum NotificationStatus; "none" is before the *)
(* commit that creates the row, "deleted" after the cascade.               *)
(***************************************************************************)
CONSTANT Notes

VARIABLES
    status,   \* notification -> its status
    pushed    \* the notifications that were emitted or mailed at least once

vars == <<status, pushed>>

Statuses == {"none", "QUEUED", "SENT", "DEAD_LETTER", "deleted"}

Init ==
    /\ status = [n \in Notes |-> "none"]
    /\ pushed = {}

Become(n, s) == status' = [status EXCEPT ![n] = s]

Create(n) == status[n] = "none" /\ Become(n, "QUEUED") /\ UNCHANGED pushed

Push(n) ==
    /\ status[n] \in {"QUEUED", "deleted"}
    /\ pushed' = pushed \cup {n}
    /\ UNCHANGED status

Deliver(n) ==
    /\ status[n] = "QUEUED"
    /\ n \in pushed
    /\ Become(n, "SENT")
    /\ UNCHANGED pushed

GiveUp(n) ==
    /\ status[n] = "QUEUED"
    /\ Become(n, "DEAD_LETTER")
    /\ UNCHANGED pushed

(***************************************************************************)
(* One user's notifications go together.                                   *)
(***************************************************************************)
Drop(ns) ==
    /\ \A n \in ns : status[n] # "none"
    /\ status' = [n \in Notes |-> IF n \in ns THEN "deleted" ELSE status[n]]
    /\ UNCHANGED pushed

Next ==
    \/ \E n \in Notes : Create(n) \/ Push(n) \/ Deliver(n) \/ GiveUp(n)
    \/ \E ns \in SUBSET Notes : Drop(ns)

Spec == Init /\ [][Next]_vars

(***************************************************************************)
(* A process that dies, or a reply that is lost, between the update to     *)
(* SENT and the end of the run: the job fails although it delivered.       *)
(***************************************************************************)
Misjudge(n) ==
    /\ status[n] = "SENT"
    /\ Become(n, "DEAD_LETTER")
    /\ UNCHANGED pushed

FaultyNext == Next \/ \E n \in Notes : Misjudge(n)

FaultySpec == Init /\ [][FaultyNext]_vars

(***************************************************************************)
(* What is left when runs lose their locks and admins re-drive, too: a     *)
(* notification may be pushed and judged again and again, but not before   *)
(* it was created, not SENT without a push, and not back from "deleted".   *)
(***************************************************************************)
PushAgain(n) ==
    /\ status[n] # "none"
    /\ pushed' = pushed \cup {n}
    /\ UNCHANGED status

Rejudge(n) ==
    /\ status[n] \in {"QUEUED", "SENT", "DEAD_LETTER"}
    /\ \/ Become(n, "QUEUED")
       \/ Become(n, "SENT") /\ n \in pushed
       \/ Become(n, "DEAD_LETTER")
    /\ UNCHANGED pushed

DisturbedNext == Next \/ \E n \in Notes : PushAgain(n) \/ Rejudge(n)

DisturbedSpec == Init /\ [][DisturbedNext]_vars

(***************************************************************************)
(* No notification stays QUEUED for ever.                                  *)
(***************************************************************************)
Settles == \A n \in Notes : status[n] = "QUEUED" ~> status[n] # "QUEUED"

LiveSpec == Spec /\ Settles

=============================================================================
