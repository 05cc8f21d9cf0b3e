------------------------------ MODULE MCFanout ------------------------------
(***************************************************************************)
(* Two fanouts with one base key, one the retry of the other or its        *)
(* concurrent duplicate, and a post for another user with one of their     *)
(* derived keys.                                                           *)
(***************************************************************************)
EXTENDS Fanout, TLC

CONSTANTS f1, f2, p1, u1, u2, u3, b1

BaseOfAll == f1 :> b1 @@ f2 :> b1

PostKeyOfAll == p1 :> <<b1, u1>>

PostUserOfAll == p1 :> u3

=============================================================================
