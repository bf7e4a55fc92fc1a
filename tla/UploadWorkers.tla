---------------------------- MODULE UploadWorkers ---------------------------
(***************************************************************************)
(* core/user_upload_worker.py: one Telegram client and one task loop for   *)
(* each pair of a user and a session, kept in a registry whose lock is     *)
(* held while a client connects.  A worker leaves the registry first and   *)
(* is stopped later; its queue may still be used in between.               *)
(*                                                                         *)
(* A worker is named by the job that created it and the session it is for: *)
(* a job tries a session at most once, so the name is never used again.    *)
(* The loop's retries after a short flood and after an unblocking, and the *)
(* pauses and the permits it waits for, end in one of Answers.             *)
(***************************************************************************)
EXTENDS UploadParams

VARIABLES
    registered,  \* UserWorkerRegistry._workers
    lock,        \* the job that holds the registry's lock, or None
    loop,        \* _running and the loop task of each worker
    blind,       \* workers whose get_me failed: no session_user_id
    queue,       \* _queue of each worker
    serving      \* the task the loop is executing

workerVars == <<registered, lock, loop, blind, queue, serving>>

Workers == Jobs \X Sessions

Answers == {"sent", "failed", "long_flood"}

UploadWorkersTypeOK ==
    /\ registered \subseteq Workers
    /\ lock \in Jobs \cup {None}
    /\ loop \in [Workers -> {"none", "running", "stopping", "ended"}]
    /\ blind \subseteq Workers
    /\ queue \in [Workers -> Seq(Jobs \cup {Stop})]
    /\ serving \in [Workers -> Jobs \cup {None}]

UploadWorkersInit ==
    /\ registered = {} /\ lock = None
    /\ loop = [w \in Workers |-> "none"]
    /\ blind = {}
    /\ queue = [w \in Workers |-> <<>>]
    /\ serving = [w \in Workers |-> None]

\* Fault: one worker per session, whoever asks.
SameKeyAnyUser(w, j, s) == w[2] = s

\* The registry key (user_id, session_string[:16])
SameKey(w, j, s) == UserOf[w[1]] = UserOf[j] /\ w[2] = s

\* get_or_create finds a running worker.
Reuse(w, j, s) ==
    /\ lock = None
    /\ w \in registered /\ SameKey(w, j, s) /\ loop[w] = "running"
    /\ UNCHANGED workerVars

\* get_or_create connects a new one, with the lock held until it is up.
BeginStart(j, s) ==
    /\ lock = None
    /\ ~\E w \in registered : SameKey(w, j, s) /\ loop[w] = "running"
    /\ lock' = j
    /\ UNCHANGED <<registered, loop, blind, queue, serving>>

StartSucceeds(j, s, noAccount) ==
    /\ lock = j
    /\ lock' = None
    /\ registered' = {w \in registered : ~SameKey(w, j, s)} \cup {<<j, s>>}
    /\ loop' = [loop EXCEPT ![<<j, s>>] = "running"]
    /\ blind' = IF noAccount THEN blind \cup {<<j, s>>} ELSE blind
    /\ UNCHANGED <<queue, serving>>

StartFails(j) ==
    /\ lock = j
    /\ lock' = None
    /\ UNCHANGED <<registered, loop, blind, queue, serving>>

\* enqueue does not look at _running.
Put(w, j) ==
    /\ queue' = [queue EXCEPT ![w] = Append(@, j)]
    /\ UNCHANGED <<registered, lock, loop, blind, serving>>

\* The loop takes the next task.
Take(w) ==
    /\ loop[w] \in {"running", "stopping"}
    /\ serving[w] = None
    /\ queue[w] # <<>> /\ Head(queue[w]) # Stop
    /\ serving' = [serving EXCEPT ![w] = Head(queue[w])]
    /\ queue' = [queue EXCEPT ![w] = Tail(@)]
    /\ UNCHANGED <<registered, lock, loop, blind>>

\* Fault: a task that failed is put back as well.
DoneRequeued(w) ==
    /\ serving[w] # None
    /\ serving' = [serving EXCEPT ![w] = None]
    /\ queue' = [queue EXCEPT ![w] = Append(@, serving[w])]
    /\ UNCHANGED <<registered, lock, loop, blind>>

\* _run_task has set the task's future.
Done(w) ==
    /\ serving[w] # None
    /\ serving' = [serving EXCEPT ![w] = None]
    /\ UNCHANGED <<registered, lock, loop, blind, queue>>

\* remove(user_id) at /logout
RemoveUser(u) ==
    /\ lock = None
    /\ registered' = {w \in registered : UserOf[w[1]] # u}
    /\ UNCHANGED <<lock, loop, blind, queue, serving>>

\* The reaper finds a worker idle for IDLE_TIMEOUT.
Reap(w) ==
    /\ lock = None
    /\ w \in registered
    /\ serving[w] = None /\ queue[w] = <<>>
    /\ registered' = registered \ {w}
    /\ UNCHANGED <<lock, loop, blind, queue, serving>>

\* stop(), called for each worker that was taken out of the registry
BeginStop(w) ==
    /\ w \notin registered /\ loop[w] = "running"
    /\ loop' = [loop EXCEPT ![w] = "stopping"]
    /\ queue' = [queue EXCEPT ![w] = Append(@, Stop)]
    /\ UNCHANGED <<registered, lock, blind, serving>>

TakeStop(w) ==
    /\ loop[w] = "stopping"
    /\ serving[w] = None
    /\ queue[w] # <<>> /\ Head(queue[w]) = Stop
    /\ loop' = [loop EXCEPT ![w] = "ended"]
    /\ queue' = [queue EXCEPT ![w] = Tail(@)]
    /\ UNCHANGED <<registered, lock, blind, serving>>

\* stop() waits 10 seconds and cancels the loop; what it executes is cancelled.
StopTimesOut(w) ==
    /\ loop[w] = "stopping" /\ serving[w] # None
    /\ loop' = [loop EXCEPT ![w] = "ended"]
    /\ serving' = [serving EXCEPT ![w] = None]
    /\ UNCHANGED <<registered, lock, blind, queue>>
=============================================================================
