-------------------------- MODULE MCSessionUpload ---------------------------
(***************************************************************************)
(* Uploads of two users, the first of whom lends a session.                *)
(***************************************************************************)
EXTENDS SessionUpload, TLC

CONSTANTS u1, u2, j1, j2, j3, lend, glob

MCUsers  == {u1, u2}
MCJobs   == {j1, j2, j3}
MCUserOf == (j1 :> u1) @@ (j2 :> u2) @@ (j3 :> u2)

\* Uploads of two users; or two of the second user, which share its workers, while the
\* owner gives no commands.
MCBatches == {[jobs |-> {j1, j2}, commands |-> 0], [jobs |-> {j2, j3}, commands |-> 1]}
AllAtOnce == {[jobs |-> MCJobs, commands |-> 0]}

MCKind  == (lend :> "borrowable") @@ (glob :> "global")
MCOwner == (lend :> u1) @@ (glob :> None)
MCPlace == (lend :> 1) @@ (glob :> 2)
=============================================================================
