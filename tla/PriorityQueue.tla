--------------------------- MODULE PriorityQueue ---------------------------
(***************************************************************************)
(* core/priority_queue.py: the queue between the message handlers and the  *)
(* download pipelines.  A handler enqueues a job into the bucket of its    *)
(* user's role and awaits the job's future; a pool of identical worker     *)
(* tasks picks jobs under the slot-reservation policy and runs them.       *)
(*                                                                         *)
(* Workers are anonymous: a worker that polls is counted in idle, a worker *)
(* that runs a job is identified with that job in running.  An element of  *)
(* Jobs is a handler invocation; it may enqueue again once its previous    *)
(* future is resolved, which models the endless stream of links.           *)
(***************************************************************************)
EXTENDS Integers, Sequences, FiniteSets

CONSTANTS Jobs,         \* handler invocations that may enqueue a job
          RoleOf,       \* the role each of them carries (role_manager.get_role)
          InitLimits,   \* _DEFAULT_LIMITS, per bucket
          LimitChoices, \* values the owner may pass to /set_parallel_limit
          MaxStranded   \* how many jobs may end in CancelledError (bound)

Buckets   == {"vip", "normal", "new"}
UserRoles == Buckets \cup {"banned"}

ASSUME PQAssumption ==
    /\ IsFiniteSet(Jobs)
    /\ RoleOf \in [Jobs -> UserRoles]
    /\ InitLimits \in [Buckets -> Nat \ {0}]
    /\ LimitChoices \subseteq Nat \ {0}
    /\ MaxStranded \in Nat

VARIABLES started,   \* _started
          limits,    \* _limits
          active,    \* _active: jobs of each bucket holding a slot
          queues,    \* _queues
          idle,      \* workers polling _pick_and_acquire
          running,   \* jobs whose handler a worker is awaiting
          future,    \* state of each job's future
          stranded   \* history: jobs whose handler raised CancelledError

pqVars == <<started, limits, active, queues, idle, running, future, stranded>>

\* A role without a bucket of its own is served as a new user.
Bucket(j) == IF RoleOf[j] \in Buckets THEN RoleOf[j] ELSE "new"

\* _PRIORITY_ORDER
Higher(r) == CASE r = "vip"    -> {}
               [] r = "normal" -> {"vip"}
               [] r = "new"    -> {"vip", "normal"}

Capacity    == limits["vip"] + limits["normal"] + limits["new"]
TotalActive == active["vip"] + active["normal"] + active["new"]
HasWork(r)  == queues[r] # <<>>
OwnSlot(r)  == HasWork(r) /\ active[r] < limits[r]

Live == idle + Cardinality(running)

\* _ensure_worker_capacity: top the live workers up to desired, never down.
TopUp(desired) == IF desired > Live THEN idle + (desired - Live) ELSE idle

PQInit == /\ started = FALSE
          /\ limits = InitLimits
          /\ active = [r \in Buckets |-> 0]
          /\ queues = [r \in Buckets |-> <<>>]
          /\ idle = 0
          /\ running = {}
          /\ future = [j \in Jobs |-> "none"]
          /\ stranded = {}

Start == /\ ~started
         /\ started' = TRUE
         /\ idle' = TopUp(Capacity)
         /\ UNCHANGED <<limits, active, queues, running, future, stranded>>

\* Before start() enqueue raises and the caller runs the handler itself, so
\* only a started queue receives jobs.
Enqueue(j) == /\ started
              /\ future[j] # "pending"
              /\ future' = [future EXCEPT ![j] = "pending"]
              /\ queues' = [queues EXCEPT ![Bucket(j)] = Append(@, j)]
              /\ UNCHANGED <<started, limits, active, idle, running, stranded>>

\* Fault: the pool is not topped up when the capacity grows.
SetLimitNoTopUp(r, n) ==
    /\ limits' = [limits EXCEPT ![r] = n]
    /\ UNCHANGED <<started, active, queues, idle, running, future, stranded>>

\* set_limit also restarts workers that died, even for an unchanged limit.
SetLimit(r, n) ==
    /\ limits' = [limits EXCEPT ![r] = n]
    /\ idle' = IF started THEN TopUp(Capacity - limits[r] + n) ELSE idle
    /\ UNCHANGED <<started, active, queues, running, future, stranded>>

\* Fault: strict priority instead of a reserved pass.
ReservedStrict(r) == HasWork(r) /\ \A s \in Higher(r) : ~HasWork(s)

\* First pass: the highest bucket that has work and a free slot of its own.
Reserved(r) == OwnSlot(r) /\ \A s \in Higher(r) : ~OwnSlot(s)

\* Second pass: no bucket can use its own slots; the highest one borrows.
Spill(r) == /\ \A s \in Buckets : ~OwnSlot(s)
            /\ HasWork(r) /\ \A s \in Higher(r) : ~HasWork(s)

\* _pick_and_acquire, _dequeue_and_mark_active and the call of the handler.
Pick(r) == /\ started
           /\ idle > 0
           /\ TotalActive < Capacity
           /\ Reserved(r) \/ Spill(r)
           /\ queues' = [queues EXCEPT ![r] = Tail(@)]
           /\ running' = running \cup {Head(queues[r])}
           /\ active' = [active EXCEPT ![r] = @ + 1]
           /\ idle' = idle - 1
           /\ UNCHANGED <<started, limits, future, stranded>>

\* _release_role
Release(r) == active' = [active EXCEPT ![r] = IF @ > 0 THEN @ - 1 ELSE 0]

\* Fault: the outcome is not handed to the future.
FinishSilently(j, outcome) ==
    /\ j \in running
    /\ running' = running \ {j}
    /\ idle' = idle + 1
    /\ Release(Bucket(j))
    /\ UNCHANGED <<started, limits, queues, future, stranded>>

\* _run_job when the handler returns or raises an Exception.
Finish(j, outcome) ==
    /\ j \in running
    /\ running' = running \ {j}
    /\ future' = [future EXCEPT ![j] = outcome]
    /\ idle' = idle + 1
    /\ Release(Bucket(j))
    /\ UNCHANGED <<started, limits, queues, stranded>>

JobReturns(j) == Finish(j, "result")
JobFails(j)   == Finish(j, "error")

\* Fault: the release sits in the except clause instead of the finally.
JobCancelledKeepsSlot(j) ==
    /\ j \in running
    /\ Cardinality(stranded) < MaxStranded
    /\ running' = running \ {j}
    /\ stranded' = stranded \cup {j}
    /\ UNCHANGED <<started, limits, active, queues, idle, future>>

\* _run_job when the handler raises CancelledError: "except Exception" does
\* not catch it, so the slot is released, the future is never resolved and
\* the worker task ends.
JobCancelled(j) ==
    /\ j \in running
    /\ Cardinality(stranded) < MaxStranded
    /\ running' = running \ {j}
    /\ stranded' = stranded \cup {j}
    /\ Release(Bucket(j))
    /\ UNCHANGED <<started, limits, queues, idle, future>>

PQNext == \/ Start
          \/ \E j \in Jobs : Enqueue(j)
          \/ \E r \in Buckets, n \in LimitChoices : SetLimit(r, n)
          \/ \E r \in Buckets : Pick(r)
          \/ \E j \in Jobs : JobReturns(j)
          \/ \E j \in Jobs : JobFails(j)
          \/ \E j \in Jobs : JobCancelled(j)

PQSpec == PQInit /\ [][PQNext]_pqVars

\* main.py starts the queue; every handler ends, since each Telegram call it
\* makes has a timeout.  Every idle worker polls each 50 ms while a job runs for
\* seconds, so a pick that keeps becoming possible is not missed forever.
PQFairness == /\ WF_pqVars(Start)
              /\ \A r \in Buckets : SF_pqVars(Pick(r))
              /\ \A j \in Jobs : WF_pqVars(JobReturns(j) \/ JobFails(j))

PQFairSpec == PQSpec /\ PQFairness

-----------------------------------------------------------------------------
PQTypeOK == /\ started \in BOOLEAN
            /\ limits \in [Buckets -> Nat \ {0}]
            /\ active \in [Buckets -> Nat]
            /\ queues \in [Buckets -> Seq(Jobs)]
            /\ idle \in Nat
            /\ running \subseteq Jobs
            /\ future \in [Jobs -> {"none", "pending", "result", "error"}]
            /\ stranded \subseteq Jobs

RunningIn(r) == {j \in running : Bucket(j) = r}
Queued(j)    == \E i \in DOMAIN queues[Bucket(j)] : queues[Bucket(j)][i] = j

\* The slot counter of every bucket is the number of its jobs a worker really
\* runs: no path out of _run_job leaks or double-frees a slot, so a bucket is
\* neither throttled by a ghost nor allowed past its limit.
ActiveCountsRunning == \A r \in Buckets : active[r] = Cardinality(RunningIn(r))

\* A handler that awaits its future is waiting for something: its job is in
\* the bucket of its role, or a worker runs it, never both and never twice;
\* the only exception is a job that ended in CancelledError, which is nowhere.
PendingAccounted ==
    \A j \in Jobs :
        /\ future[j] = "pending" <=> Queued(j) \/ j \in running \/ j \in stranded
        /\ Queued(j) => j \notin running /\ j \notin stranded
        /\ j \in running => j \notin stranded
        /\ \A i, k \in DOMAIN queues[Bucket(j)] :
              queues[Bucket(j)][i] = j /\ queues[Bucket(j)][k] = j => i = k

\* While no worker has died, queued work and a free slot always come with a
\* worker to use it, whatever the owner did to the limits meanwhile.
IdleSlotHasWorker ==
    stranded = {} /\ started /\ TotalActive < Capacity
        /\ (\E r \in Buckets : HasWork(r)) => idle > 0

\* No path of a job through _run_job and no change of the limits loses a slot, a job or the
\* worker that a free slot and waiting work need.
PoolSound == ActiveCountsRunning /\ PendingAccounted /\ IdleSlotHasWorker

\* "Slot reservation prevents starvation": a queued job is eventually started,
\* however long the stream of jobs of higher roles.
NoStarvation == \A j \in Jobs : Queued(j) ~> ~Queued(j)

\* The same by bucket, once no worker has died and the limits are the first ones: a
\* bucket that keeps having work is served again and again.
NoStarvationWhileHealthy ==
    \A r \in Buckets :
        <>[](stranded = {} /\ limits = InitLimits /\ HasWork(r)) => []<><<Pick(r)>>_pqVars
=============================================================================
