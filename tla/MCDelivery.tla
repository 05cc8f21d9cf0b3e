----------------------------- MODULE MCDelivery -----------------------------
(***************************************************************************)
(* Small instances of the delivery pipeline.                               *)
(***************************************************************************)
EXTENDS DeliveryProperties, TLC

CONSTANTS n1, n2, u1, u2, w1, w2, a1, a2

OwnerOfOne == n1 :> u1

OwnerOfTwo == (n1 :> u1) @@ (n2 :> u1)

(***************************************************************************)
(* Workers are interchangeable: nothing orders them.  Only the runs with   *)
(* no temporal property use this.                                          *)
(***************************************************************************)
WorkerSymmetry == Permutations({w1, w2})

ActorSymmetry == WorkerSymmetry \cup Permutations({a1, a2})

=============================================================================
