----------------------------- MODULE WorkerPool -----------------------------
(***************************************************************************)
(* WorkerPool of core/downloader/worker.py: submitters wait for a per-user *)
(* slot, workers take tasks from one queue and wrap each download in an    *)
(* asyncio task, /stop cancels a user's downloads, a scaler adds workers.  *)
(*                                                                         *)
(* An action runs from one await to the next.  The pool's lock is never    *)
(* held across an await, so a block that takes it runs as one action.      *)
(***************************************************************************)
EXTENDS Integers, Sequences, FiniteSets

CONSTANTS PoolUsers, Tasks,
          Shutdown,      \* the sentinel SHUTDOWN
          TaskOwner,     \* task.user_id
          PerUserLimit,  \* PER_USER_LIMIT
          WorkerCount,   \* DEFAULT_WORKER_COUNT
          MaxWorkers,    \* MAX_WORKER_COUNT
          ScaleStep,     \* workers the scaler asks for at once
          CancelLimit,   \* bound: cancel_user_tasks calls
          ScaleLimit,    \* bound: times the scaler starts workers
          MayShutDown    \* is shutdown() part of the behaviour

ASSUME WorkerPoolAssumption ==
    /\ IsFiniteSet(Tasks) /\ Shutdown \notin Tasks
    /\ TaskOwner \in [Tasks -> PoolUsers]
    /\ {PerUserLimit, WorkerCount, ScaleStep} \subseteq Nat \ {0}
    /\ MaxWorkers \in Nat /\ WorkerCount <= MaxWorkers
    /\ {CancelLimit, ScaleLimit} \subseteq Nat
    /\ MayShutDown \in BOOLEAN

VARIABLES
    open,        \* _running
    queue,       \* _queue
    idle,        \* workers that wait for a task
    current,     \* _current_workers
    place,       \* where submit() and the worker of each task are
    status,      \* task.status
    outcome,     \* what the download itself came to
    userTasks,   \* _user_tasks
    active,      \* _active_tasks_by_user
    downloads,   \* keys of _active_downloads
    cancelFlags, \* keys of _cancel_flags
    cancels, scalings,  \* counters, bounded by the limits
    told         \* history: tasks cancelled before their download was over

trackVars == <<userTasks, active, downloads, cancelFlags>>
poolBoundVars == <<cancels, scalings>>
poolVars == <<open, queue, idle, current, place, status, outcome, trackVars, poolBoundVars, told>>

TasksOf(u) == {t \in Tasks : TaskOwner[t] = u}

\* A worker holds the task: its download runs, was told to stop, or is over
\* and the worker has not resumed yet.
Held    == {"running", "cancelling", "finished"}
\* The task occupies one of its user's slots.
Tracked == Held \cup {"queued", "signalled"}
Places  == Tracked \cup {"new", "waiting", "refused", "returned"}
Busy    == {t \in Tasks : place[t] \in Held}
Live    == idle + Cardinality(Busy)

PoolInit ==
    /\ open = TRUE
    /\ queue = <<>>
    /\ idle = WorkerCount /\ current = WorkerCount
    /\ place = [t \in Tasks |-> "new"]
    /\ status = [t \in Tasks |-> "pending"]
    /\ outcome = [t \in Tasks |-> "none"]
    /\ userTasks = [u \in PoolUsers |-> {}]
    /\ active = [u \in PoolUsers |-> {}]
    /\ downloads = {} /\ cancelFlags = {}
    /\ cancels = 0 /\ scalings = 0
    /\ told = {}

-----------------------------------------------------------------------------
(* submit()                                                                *)

\* submit() raises at once unless the pool runs.
Submit(t) ==
    /\ place[t] = "new"
    /\ place' = [place EXCEPT ![t] = IF open THEN "waiting" ELSE "refused"]
    /\ UNCHANGED <<open, queue, idle, current, status, outcome, trackVars, poolBoundVars, told>>

\* max(user_active, user_running)
Load(u) == LET a == Cardinality(userTasks[u])
               b == Cardinality(active[u])
           IN  IF a > b THEN a ELSE b

\* Fault: the limit is tested against the running downloads alone.
AdmitByRunning(t) ==
    LET u == TaskOwner[t] IN
    /\ place[t] = "waiting"
    /\ Cardinality(active[u]) < PerUserLimit
    /\ userTasks' = [userTasks EXCEPT ![u] = @ \cup {t}]
    /\ queue' = Append(queue, t)
    /\ place' = [place EXCEPT ![t] = "queued"]
    /\ UNCHANGED <<open, idle, current, status, outcome, active, downloads,
                   cancelFlags, poolBoundVars, told>>

\* The user has a free slot: the task is tracked and put into the queue (whose
\* 50000 places are never full).  The loop does not look at _running again.
Admit(t) ==
    LET u == TaskOwner[t] IN
    /\ place[t] = "waiting"
    /\ Load(u) < PerUserLimit
    /\ userTasks' = [userTasks EXCEPT ![u] = @ \cup {t}]
    /\ queue' = Append(queue, t)
    /\ place' = [place EXCEPT ![t] = "queued"]
    /\ UNCHANGED <<open, idle, current, status, outcome, active, downloads,
                   cancelFlags, poolBoundVars, told>>

\* submit() wakes, gives the slot back and returns the file or None.
Return(t) ==
    LET u == TaskOwner[t] IN
    /\ place[t] = "signalled"
    /\ userTasks' = [userTasks EXCEPT ![u] = @ \ {t}]
    /\ place' = [place EXCEPT ![t] = "returned"]
    /\ UNCHANGED <<open, queue, idle, current, status, outcome, active, downloads,
                   cancelFlags, poolBoundVars, told>>

-----------------------------------------------------------------------------
(* _worker_loop()                                                          *)

\* Fault: the worker does not look at the cancel flag.
StartUnchecked(t) ==
    LET u == TaskOwner[t] IN
    /\ idle > 0 /\ queue # <<>> /\ Head(queue) = t
    /\ queue' = Tail(queue)
    /\ idle' = idle - 1
    /\ place' = [place EXCEPT ![t] = "running"]
    /\ status' = [status EXCEPT ![t] = "running"]
    /\ active' = [active EXCEPT ![u] = @ \cup {t}]
    /\ downloads' = downloads \cup {t}
    /\ UNCHANGED <<open, current, outcome, userTasks, cancelFlags, poolBoundVars, told>>

Start(t) ==
    LET u == TaskOwner[t] IN
    /\ idle > 0 /\ queue # <<>> /\ Head(queue) = t
    /\ t \notin cancelFlags
    /\ queue' = Tail(queue)
    /\ idle' = idle - 1
    /\ place' = [place EXCEPT ![t] = "running"]
    /\ status' = [status EXCEPT ![t] = "running"]
    /\ active' = [active EXCEPT ![u] = @ \cup {t}]
    /\ downloads' = downloads \cup {t}
    /\ UNCHANGED <<open, current, outcome, userTasks, cancelFlags, poolBoundVars, told>>

\* Fault: the cancelled task is looked at, not taken.
SkipInPlace(t) ==
    /\ idle > 0 /\ queue # <<>> /\ Head(queue) = t
    /\ t \in cancelFlags
    /\ place' = [place EXCEPT ![t] = "signalled"]
    /\ status' = [status EXCEPT ![t] = "cancelled"]
    /\ UNCHANGED <<open, queue, idle, current, outcome, trackVars, poolBoundVars, told>>

\* A task cancelled in the queue: signalled, and its flag is left behind.  The
\* worker goes on while the pool runs.
Skip(t) ==
    /\ idle > 0 /\ queue # <<>> /\ Head(queue) = t
    /\ t \in cancelFlags
    /\ queue' = Tail(queue)
    /\ place' = [place EXCEPT ![t] = "signalled"]
    /\ status' = [status EXCEPT ![t] = "cancelled"]
    /\ idle' = IF open THEN idle ELSE idle - 1
    /\ UNCHANGED <<open, current, outcome, trackVars, poolBoundVars, told>>

\* _handle_download returns a file, gives up with None, or raises.
DownloadOver(t) ==
    /\ place[t] = "running"
    /\ \E o \in {"file", "none", "error"} : outcome' = [outcome EXCEPT ![t] = o]
    /\ place' = [place EXCEPT ![t] = "finished"]
    /\ UNCHANGED <<open, queue, idle, current, status, trackVars, poolBoundVars, told>>

\* The finally clauses: the download is no longer tracked.
Unregister(t) ==
    /\ active' = [active EXCEPT ![TaskOwner[t]] = @ \ {t}]
    /\ downloads' = downloads \ {t}
    /\ cancelFlags' = cancelFlags \ {t}

\* Fault: a failed download skips unregister_active_download.
FinishStillRegistered(t) ==
    /\ place[t] = "finished"
    /\ status' = [status EXCEPT ![t] = IF outcome[t] = "error" THEN "failed" ELSE "completed"]
    /\ place' = [place EXCEPT ![t] = "signalled"]
    /\ idle' = IF open THEN idle + 1 ELSE idle
    /\ IF outcome[t] = "error" THEN UNCHANGED trackVars
                               ELSE Unregister(t) /\ UNCHANGED userTasks
    /\ UNCHANGED <<open, queue, current, outcome, poolBoundVars, told>>

\* Fault: the worker reports an error to the log only.
FinishSilently(t) ==
    /\ place[t] = "finished"
    /\ outcome[t] # "error"
    /\ status' = [status EXCEPT ![t] = "completed"]
    /\ place' = [place EXCEPT ![t] = "signalled"]
    /\ idle' = IF open THEN idle + 1 ELSE idle
    /\ Unregister(t)
    /\ UNCHANGED <<open, queue, current, outcome, userTasks, poolBoundVars, told>>

\* The worker resumes after the download, also when the task was cancelled in
\* between; it looks for the next task while the pool runs.
Finish(t) ==
    /\ place[t] = "finished"
    /\ status' = [status EXCEPT ![t] = IF outcome[t] = "error" THEN "failed" ELSE "completed"]
    /\ place' = [place EXCEPT ![t] = "signalled"]
    /\ idle' = IF open THEN idle + 1 ELSE idle
    /\ Unregister(t)
    /\ UNCHANGED <<open, queue, current, outcome, userTasks, poolBoundVars, told>>

\* The CancelledError of the download comes out of the worker's await: the task
\* is signalled, the exception is raised again and ends the worker loop.
Cancelled(t) ==
    /\ place[t] = "cancelling"
    /\ status' = [status EXCEPT ![t] = "cancelled"]
    /\ place' = [place EXCEPT ![t] = "signalled"]
    /\ Unregister(t)
    /\ UNCHANGED <<open, queue, idle, current, outcome, userTasks, poolBoundVars, told>>

-----------------------------------------------------------------------------
\* cancel_user_tasks with cancel_task for each of the user's tasks.
CancelUser(u) ==
    LET ids == userTasks[u] \cup active[u] IN
    /\ cancels < CancelLimit
    /\ cancels' = cancels + 1
    /\ cancelFlags' = cancelFlags \cup ids
    /\ status' = [t \in Tasks |-> IF t \in ids THEN "cancelled" ELSE status[t]]
    /\ place' = [t \in Tasks |-> IF t \in ids \cap downloads /\ place[t] = "running"
                                 THEN "cancelling" ELSE place[t]]
    /\ downloads' = downloads \ ids
    /\ told' = told \cup {t \in ids : place[t] \in {"queued", "running"}}
    /\ UNCHANGED <<open, queue, idle, current, outcome, userTasks, active, scalings>>

\* _adaptive_scaler with _start_workers, which counts only the workers it has
\* just started.  The queue backs up beyond 80 % of the workers counted.
Scale ==
    LET wanted == IF current + ScaleStep < MaxWorkers THEN current + ScaleStep ELSE MaxWorkers
    IN  /\ open
        /\ scalings < ScaleLimit
        /\ 5 * Len(queue) > 4 * current
        /\ wanted > current
        /\ scalings' = scalings + 1
        /\ idle' = idle + (wanted - current)
        /\ current' = wanted - current
        /\ UNCHANGED <<open, queue, place, status, outcome, trackVars, cancels, told>>

-----------------------------------------------------------------------------
\* shutdown(): one sentinel for each worker counted.
ShutDown ==
    /\ MayShutDown
    /\ open
    /\ open' = FALSE
    /\ queue' = queue \o [i \in 1..current |-> Shutdown]
    /\ UNCHANGED <<idle, current, place, status, outcome, trackVars, poolBoundVars, told>>

\* A worker takes a sentinel.
TakeSentinel ==
    /\ idle > 0 /\ queue # <<>> /\ Head(queue) = Shutdown
    /\ queue' = Tail(queue)
    /\ idle' = idle - 1
    /\ UNCHANGED <<open, current, place, status, outcome, trackVars, poolBoundVars, told>>

\* A worker without a task for five seconds looks at _running.
IdleExit ==
    /\ ~open
    /\ queue = <<>>
    /\ idle > 0
    /\ idle' = idle - 1
    /\ UNCHANGED <<open, queue, current, place, status, outcome, trackVars, poolBoundVars, told>>

\* The time of shutdown() is over: the workers left are cancelled, idle or not,
\* and with a worker the download it waits for.  A worker that has not resumed
\* after its download never sees what it came to.
ShutDownTimeout ==
    LET left == {t \in Tasks : place[t] \in {"running", "finished"}} IN
    /\ ~open
    /\ idle > 0 \/ left # {}
    /\ idle' = 0
    /\ place' = [t \in Tasks |-> IF t \in left THEN "cancelling" ELSE place[t]]
    /\ UNCHANGED <<open, queue, current, status, outcome, trackVars, poolBoundVars, told>>

-----------------------------------------------------------------------------
Submitter(t) == Admit(t) \/ Return(t)
Worker(t)    == Start(t) \/ Skip(t) \/ DownloadOver(t) \/ Finish(t) \/ Cancelled(t)

PoolNext == \/ \E t \in Tasks : Submit(t) \/ Submitter(t) \/ Worker(t)
            \/ \E u \in PoolUsers : CancelUser(u)
            \/ Scale \/ ShutDown \/ TakeSentinel \/ IdleExit \/ ShutDownTimeout

PoolSpec == PoolInit /\ [][PoolNext]_poolVars

\* Downloads end (the stall watchdog and the retry limit see to that), the event
\* loop resumes whoever can go on, a waiting submitter looks every second and the
\* scaler every five.
Fairness == /\ \A t \in Tasks : WF_poolVars(Admit(t)) /\ WF_poolVars(Return(t)) /\ WF_poolVars(Worker(t))
            /\ WF_poolVars(Scale)

PoolFairSpec == PoolSpec /\ Fairness

-----------------------------------------------------------------------------
PoolTypeOK ==
    /\ open \in BOOLEAN
    /\ queue \in Seq(Tasks \cup {Shutdown})
    /\ idle \in Nat /\ current \in Nat
    /\ place \in [Tasks -> Places]
    /\ status \in [Tasks -> {"pending", "running", "completed", "failed", "cancelled"}]
    /\ outcome \in [Tasks -> {"file", "none", "error"}]
    /\ userTasks \in [PoolUsers -> SUBSET Tasks]
    /\ active \in [PoolUsers -> SUBSET Tasks]
    /\ downloads \subseteq Tasks /\ cancelFlags \subseteq Tasks
    /\ cancels \in Nat /\ scalings \in Nat
    /\ told \subseteq Tasks

\* The per-user accounting is exact: a user's slots are those of the tasks that
\* have not returned, and the active ones those a worker holds, whatever way a
\* task ends and whenever /stop comes.  A slot that leaks blocks the user for good.
SlotsExact ==
    \A u \in PoolUsers :
        /\ userTasks[u] = {t \in TasksOf(u) : place[t] \in Tracked}
        /\ active[u] = {t \in TasksOf(u) : place[t] \in Held}

\* submit(): "Enforces per-user concurrency limit to prevent session flooding."
UserLimit == \A u \in PoolUsers :
                 Cardinality({t \in TasksOf(u) : place[t] \in Tracked}) <= PerUserLimit

\* The limit holds and no slot leaks.
UserSlots == SlotsExact /\ UserLimit

\* The queue holds the tasks that wait for a worker, each once: no task is lost
\* and none is given to two workers.
QueueExact ==
    /\ \A i \in DOMAIN queue : queue[i] \in Tasks => place[queue[i]] = "queued"
    /\ \A i, j \in DOMAIN queue : queue[i] \in Tasks /\ queue[i] = queue[j] => i = j
    /\ \A t \in Tasks : place[t] = "queued" => \E i \in DOMAIN queue : queue[i] = t

\* No slot leaks, the limit holds, and no task is lost: a task that ends in a way that
\* is not accounted for would block its user, or leave its submitter waiting, for good.
PoolExact == UserSlots /\ QueueExact

\* A task cancelled while it waits or downloads never hands a file to its
\* submitter, and a waiting one is not started any more.
CancelledYieldsNothing ==
    \A t \in told : /\ place[t] \in {"signalled", "returned"} => status[t] = "cancelled"
                    /\ place[t] \notin {"running", "finished"}

\* "Scales up to 150 workers under load": MAX_WORKER_COUNT bounds the workers.
WorkersBounded == Live <= MaxWorkers

\* submit(): "Submit a download task and wait for result": it returns.
EverySubmitReturns == \A t \in Tasks : place[t] = "waiting" ~> place[t] = "returned"

\* The same while no /stop and no shutdown comes: every download returns, also to
\* a user who waits for a slot.
SubmitReturnsUnlessStopped ==
    \A t \in Tasks : place[t] = "waiting" ~> place[t] = "returned" \/ cancels > 0 \/ ~open
=============================================================================
