----------------------------- MODULE MCSaveFlow -----------------------------
(***************************************************************************)
(* One user with enough links to overfill a queue of one place; two users, *)
(* one of whom queues, to check that the users' state stays apart.         *)
(***************************************************************************)
EXTENDS SaveFlow, TLC

CONSTANTS u1, u2, a1, a2, a3, b1

OneUser    == {u1}
OneLinks   == {a1, a2, a3}
OneOwnerOf == (a1 :> u1) @@ (a2 :> u1) @@ (a3 :> u1)

TwoUsers   == {u1, u2}
TwoLinks   == {a1, a2, b1}
TwoOwnerOf == (a1 :> u1) @@ (a2 :> u1) @@ (b1 :> u2)
=============================================================================
