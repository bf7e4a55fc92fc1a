------------------------------- MODULE MCLogin -------------------------------
(***************************************************************************)
(* Login with two users, one of whom has two conversations.                *)
(***************************************************************************)
EXTENDS Login, TLC

CONSTANTS u1, u2, a, b, c

MCUsers == {u1, u2}
MCConvs == {a, b, c}
MCLinkers == {u1}
MCUserOf == a :> u1 @@ b :> u1 @@ c :> u2
MCKinds == a :> {"phone"} @@ b :> {"phone"} @@ c :> {"qr"}
MCSymmetry == Permutations({a, b})
==============================================================================
