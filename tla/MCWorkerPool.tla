---------------------------- MODULE MCWorkerPool ----------------------------
(***************************************************************************)
(* Two users; the first has more tasks than slots.                         *)
(***************************************************************************)
EXTENDS WorkerPool, TLC

CONSTANTS u1, u2, a1, a2, a3, b1, b2

MCUsers   == {u1, u2}
MCTasks   == {a1, a2, a3, b1}
MCOwnerOf == (a1 :> u1) @@ (a2 :> u1) @@ (a3 :> u1) @@ (b1 :> u2)

FewTasks   == {a1, a2, b1}
FewOwnerOf == (a1 :> u1) @@ (a2 :> u1) @@ (b1 :> u2)

\* Enough tasks to back up the queue of a grown pool.
MoreTasks   == {a1, a2, b1, b2}
MoreOwnerOf == (a1 :> u1) @@ (a2 :> u1) @@ (b1 :> u2) @@ (b2 :> u2)
=============================================================================
