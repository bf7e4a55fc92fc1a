-------------------------- MODULE MCPriorityQueue --------------------------
(***************************************************************************)
(* Three VIP handlers (enough to keep their bucket busy and to spill over),*)
(* one normal user and one banned user, whose role has no bucket; one slot *)
(* per bucket.  By hand: a backlog in both of the higher buckets.          *)
(***************************************************************************)
EXTENDS PriorityQueue, TLC

CONSTANTS v1, v2, v3, n1, n2, w1, b1

MCJobs   == {v1, v2, v3, n1, b1}
MCRoleOf == (v1 :> "vip") @@ (v2 :> "vip") @@ (v3 :> "vip")
              @@ (n1 :> "normal") @@ (b1 :> "banned")

\* Enough handlers to keep a backlog in the two higher buckets.
BusyJobs   == {v1, v2, v3, n1, n2, w1}
BusyRoleOf == (v1 :> "vip") @@ (v2 :> "vip") @@ (v3 :> "vip")
                @@ (n1 :> "normal") @@ (n2 :> "normal") @@ (w1 :> "new")

MCInitLimits == [r \in Buckets |-> 1]
=============================================================================
