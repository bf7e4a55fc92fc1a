--------------------------- MODULE SessionUpload ----------------------------
(***************************************************************************)
(* SessionManager of core/session_manager/session_manager.py: a job tries  *)
(* one session after another, each with a slot (SlotPool) and a worker     *)
(* (UploadWorkers), until one of them has delivered the file.  An upload   *)
(* through a session that is not the user's own lands in that account's    *)
(* chat with the bot and is copied to the user from there.                 *)
(*                                                                         *)
(* An action is what a coroutine does between two awaits, or part of it.   *)
(***************************************************************************)
EXTENDS SlotPool, UploadWorkers

CONSTANTS System,       \* jobs of upload_with_system_session
          Batches,      \* the jobs that may come together, and how many of the owner's
                        \* commands have been given by then
          MaxAttempts,  \* max_attempts
          LogsOut,      \* users that may send /logout, once
          OwnerLimit,   \* bound: commands of the bot's owner
          FloodLimit,   \* bound: flood waits of uploads
          TimeLimit     \* bound: borrows that outlive BORROW_TIMEOUT_SEC

ASSUME SessionUploadAssumption ==
    /\ System \subseteq Jobs /\ LogsOut \subseteq Users
    /\ MaxAttempts \in Nat \ {0}
    /\ Batches \subseteq [jobs : SUBSET Jobs, commands : Nat]
    /\ {OwnerLimit, FloodLimit, TimeLimit} \subseteq Nat

VARIABLES phase,      \* where upload_for_user is for each job
          sess,       \* the session a job holds a slot of
          tried,      \* tried
          worker,     \* the worker it got
          floods, agings, commands,  \* counters, bounded by the limits
          loggedOut,  \* users that sent /logout
          shaken      \* history: sessions whose count was cut under an upload

jobVars   == <<phase, sess, tried, worker>>
boundVars == <<floods, agings, commands, loggedOut>>
vars == <<poolVars, workerVars, jobVars, boundVars, shaken>>

Holding == {"slot", "start", "ready", "queued", "sent", "failed", "long_flood",
            "cancelled"}
Ended   == {"delivered", "refused", "aborted"}

\* The jobs that hold a slot of s
Holders(s) == {j \in Jobs : phase[j] \in Holding /\ sess[j] = s}

\* The sessions in cut lost count of an upload; the count is right again when
\* no upload is left.
Shake(cut) == shaken' = {s \in shaken \cup cut : Holders(s)' # {}}

Init ==
    /\ SlotPoolInit
    /\ UploadWorkersInit
    /\ \E b \in Batches :
          /\ phase = [j \in Jobs |-> IF j \in b.jobs THEN "select" ELSE "refused"]
          /\ commands = b.commands
    /\ sess = [j \in Jobs |-> None]
    /\ tried = [j \in Jobs |-> {}]
    /\ worker = [j \in Jobs |-> None]
    /\ floods = 0 /\ agings = 0 /\ loggedOut = {}
    /\ shaken = {}

-----------------------------------------------------------------------------
(* upload_for_user, upload_with_system_session: the next session           *)

Candidates(j) ==
    (IF j \in System THEN ForSystem ELSE ForUser(UserOf[j])) \ tried[j]

RankFor(j) == IF j \in System THEN SystemRank ELSE UserRank

StaleIn(S) == {s \in S : Stale(s) # {}}

Select(j, s) ==
    /\ phase[j] = "select" /\ Cardinality(tried[j]) < MaxAttempts
    /\ s \in Candidates(j)
    /\ Borrow(s, UserOf[j], Candidates(j), RankFor(j))
    /\ phase' = [phase EXCEPT ![j] = "slot"]
    /\ sess' = [sess EXCEPT ![j] = s]
    /\ tried' = [tried EXCEPT ![j] = @ \cup {s}]
    /\ worker' = [worker EXCEPT ![j] = None]
    /\ UNCHANGED <<workerVars, boundVars>>
    /\ Shake(StaleIn({s} \cup Scanned(Candidates(j), {s}, RankFor(j))))

\* No session is left to try.
Refuse(j) ==
    /\ phase[j] = "select" /\ Cardinality(tried[j]) < MaxAttempts
    /\ NoneAvailable(Candidates(j))
    /\ phase' = [phase EXCEPT ![j] = "refused"]
    /\ UNCHANGED <<workerVars, sess, tried, worker, boundVars>>
    /\ Shake(StaleIn(Candidates(j) \ flooded))

Exhaust(j) ==
    /\ phase[j] = "select" /\ Cardinality(tried[j]) = MaxAttempts
    /\ phase' = [phase EXCEPT ![j] = "refused"]
    /\ UNCHANGED <<poolVars, workerVars, sess, tried, worker, boundVars, shaken>>

-----------------------------------------------------------------------------
(* upload_with_session                                                     *)

\* The finally block: the slot is given back, whatever happened.
LeaveAs(j, p) ==
    /\ Release(sess[j], UserOf[j])
    /\ phase' = [phase EXCEPT ![j] = p]
    /\ UNCHANGED <<sess, tried, worker, boundVars>>
    /\ Shake({})

LeaveFlooded(j) ==
    /\ MarkFloodAndRelease(sess[j])
    /\ phase' = [phase EXCEPT ![j] = "select"]
    /\ UNCHANGED <<sess, tried, worker, boundVars>>
    /\ Shake({sess[j]})

\* get_worker reuses a worker; one without an account ends the attempt.
GetWorker(j, w) ==
    /\ phase[j] = "slot"
    /\ Reuse(w, j, sess[j])
    /\ w \notin blind
    /\ phase' = [phase EXCEPT ![j] = "ready"]
    /\ worker' = [worker EXCEPT ![j] = w]
    /\ UNCHANGED <<poolVars, sess, tried, boundVars, shaken>>

GetBlindWorker(j, w) ==
    /\ phase[j] = "slot"
    /\ Reuse(w, j, sess[j])
    /\ w \in blind
    /\ LeaveAs(j, "select")

CreateWorker(j) ==
    /\ phase[j] = "slot"
    /\ BeginStart(j, sess[j])
    /\ phase' = [phase EXCEPT ![j] = "start"]
    /\ UNCHANGED <<poolVars, sess, tried, worker, boundVars, shaken>>

WorkerStarts(j) ==
    /\ phase[j] = "start"
    /\ StartSucceeds(j, sess[j], FALSE)
    /\ phase' = [phase EXCEPT ![j] = "ready"]
    /\ worker' = [worker EXCEPT ![j] = <<j, sess[j]>>]
    /\ UNCHANGED <<poolVars, sess, tried, boundVars, shaken>>

WorkerStartsBlind(j) ==
    /\ phase[j] = "start"
    /\ StartSucceeds(j, sess[j], TRUE)
    /\ LeaveAs(j, "select")

\* Fault: this early return stands before the try block.
WorkerStartFailsOutside(j) ==
    /\ phase[j] = "start"
    /\ StartFails(j)
    /\ phase' = [phase EXCEPT ![j] = "select"]
    /\ UNCHANGED <<poolVars, sess, tried, worker, boundVars, shaken>>

WorkerStartFails(j) ==
    /\ phase[j] = "start"
    /\ StartFails(j)
    /\ LeaveAs(j, "select")

\* The bot is blocked in the session: flooded for 24 hours.
WorkerIsBlocked(j) ==
    /\ phase[j] = "start"
    /\ StartFails(j)
    /\ LeaveFlooded(j)

\* enqueue_task, after the reply anchor or the bot-side waiter is set up
Enqueue(j) ==
    /\ phase[j] = "ready"
    /\ Put(worker[j], j)
    /\ phase' = [phase EXCEPT ![j] = "queued"]
    /\ UNCHANGED <<poolVars, sess, tried, worker, boundVars, shaken>>

\* The worker's answer; the sender check of _run_task fails a foreign task.
Execute(w, answer) ==
    /\ Done(w)
    /\ UserOf[w[1]] # UserOf[serving[w]] => answer = "failed"
    /\ phase' = [phase EXCEPT ![serving[w]] = answer]
    /\ floods' = IF answer = "long_flood" THEN floods + 1 ELSE floods
    /\ floods' <= FloodLimit
    /\ UNCHANGED <<poolVars, sess, tried, worker, agings, commands, loggedOut, shaken>>

Retry(j) ==
    /\ phase[j] = "failed"
    /\ LeaveAs(j, "select")
    /\ UNCHANGED workerVars

RetryFlooded(j) ==
    /\ phase[j] = "long_flood"
    /\ LeaveFlooded(j)
    /\ UNCHANGED workerVars

\* CancelledError passes through upload_with_session and upload_for_user.
Abort(j) ==
    /\ phase[j] = "cancelled"
    /\ LeaveAs(j, "aborted")
    /\ UNCHANGED workerVars

\* _is_pool_session, force_copy
NeedsCopy(j) ==
    \/ j \in System
    \/ Kind[sess[j]] \in {"borrowable", "global"} /\ OwnerOf[sess[j]] # UserOf[j]

\* The upload is in the user's chat, or has been copied there.
Deliver(j) ==
    /\ phase[j] = "sent"
    /\ LeaveAs(j, "delivered")
    /\ UNCHANGED workerVars

\* The bot-side message is not found, or three copies failed.
CopyFails(j) ==
    /\ phase[j] = "sent" /\ NeedsCopy(j)
    /\ LeaveAs(j, "select")
    /\ UNCHANGED workerVars

-----------------------------------------------------------------------------
(* The worker loops, /logout, the reaper, time and the owner               *)

Serve(w) ==
    /\ Take(w)
    /\ UNCHANGED <<poolVars, jobVars, boundVars, shaken>>

Logout(u) ==
    /\ u \in LogsOut \ loggedOut
    /\ RemoveUser(u)
    /\ loggedOut' = loggedOut \cup {u}
    /\ UNCHANGED <<poolVars, jobVars, floods, agings, commands, shaken>>

\* Fault: get_or_create does not refresh the activity of a worker it reuses.
ReapUntouched(w) ==
    /\ Reap(w)
    /\ UNCHANGED <<poolVars, jobVars, boundVars, shaken>>

\* get_or_create has just touched the worker of a job that is about to use it.
ReapIdle(w) ==
    /\ Reap(w)
    /\ \A j \in Jobs : ~(phase[j] = "ready" /\ worker[j] = w)
    /\ UNCHANGED <<poolVars, jobVars, boundVars, shaken>>

StopWorker(w) ==
    /\ BeginStop(w) \/ TakeStop(w)
    /\ UNCHANGED <<poolVars, jobVars, boundVars, shaken>>

CancelWorker(w) ==
    /\ StopTimesOut(w)
    /\ phase' = [phase EXCEPT ![serving[w]] = "cancelled"]
    /\ UNCHANGED <<poolVars, sess, tried, worker, boundVars, shaken>>

Age(s, u) ==
    /\ agings < TimeLimit /\ agings' = agings + 1
    /\ GrowStale(s, u)
    /\ UNCHANGED <<workerVars, jobVars, floods, commands, loggedOut, shaken>>

EndFlood(s) ==
    /\ FloodExpires(s)
    /\ UNCHANGED <<workerVars, jobVars, boundVars, shaken>>

Command ==
    /\ commands < OwnerLimit /\ commands' = commands + 1
    /\ \/ DisableAllGlobal
       \/ \E s \in Sessions :
             \/ Register(s) \/ Disable(s) \/ Enable(s) \/ Remove(s)
             \/ \E n \in Limits : SetLimit(s, n)
             \/ \E b \in BOOLEAN : SetLent(s, b)
    /\ UNCHANGED <<workerVars, jobVars, floods, agings, loggedOut, shaken>>

-----------------------------------------------------------------------------

Job(j) ==
    \/ \E s \in Sessions : Select(j, s)
    \/ Refuse(j) \/ Exhaust(j)
    \/ \E w \in Workers : GetWorker(j, w) \/ GetBlindWorker(j, w)
    \/ CreateWorker(j) \/ WorkerStarts(j) \/ WorkerStartsBlind(j)
    \/ WorkerStartFails(j) \/ WorkerIsBlocked(j)
    \/ Enqueue(j)
    \/ Retry(j) \/ RetryFlooded(j) \/ Abort(j) \/ Deliver(j) \/ CopyFails(j)

Loop(w) ==
    \/ Serve(w) \/ StopWorker(w)
    \/ \E a \in Answers : Execute(w, a)

Next ==
    \/ \E j \in Jobs : Job(j)
    \/ \E w \in Workers : Loop(w) \/ CancelWorker(w) \/ ReapIdle(w)
    \/ \E u \in Users : Logout(u)
    \/ \E s \in Sessions : EndFlood(s) \/ \E u \in Users : Age(s, u)
    \/ Command

Spec == Init /\ [][Next]_vars

\* Coroutines that can go on do so; connecting and sending come to an end.
\* Nothing is assumed of the users, the owner, the reaper and flood waits.
Fairness ==
    /\ \A j \in Jobs : WF_vars(Job(j))
    /\ \A w \in Workers : WF_vars(Loop(w))

FairSpec == Spec /\ Fairness

-----------------------------------------------------------------------------
(* Properties                                                              *)

\* Every reachable state is well typed.
TypeOK ==
    /\ SlotPoolTypeOK /\ UploadWorkersTypeOK
    /\ phase \in [Jobs -> Holding \cup Ended \cup {"select"}]
    /\ sess \in [Jobs -> Sessions \cup {None}]
    /\ tried \in [Jobs -> SUBSET Sessions]
    /\ worker \in [Jobs -> Workers \cup {None}]
    /\ {floods, agings, commands} \subseteq Nat
    /\ loggedOut \subseteq Users /\ shaken \subseteq Sessions

\* A slot is never counted that no upload holds, however the upload ended: a
\* session does not get full of uploads that are long over.
NoGhostSlot == \A s \in Sessions : current[s] <= Cardinality(Holders(s))

\* The count is exact until mark_flood or the reclaiming of stale borrows cuts
\* it under an upload, and again once the uploads of that time are over.
CountExact ==
    \A s \in Sessions \ shaken : current[s] = Cardinality(Holders(s))

\* The counters of the sessions follow their uploads.
SlotCount == NoGhostSlot /\ CountExact

Waits(j, w) ==
    Cardinality({i \in DOMAIN queue[w] : queue[w][i] = j})
        + (IF serving[w] = j THEN 1 ELSE 0)

\* A job whose answer is due is with the worker it was given to, once, and no
\* worker knows of any other job: no upload is lost, run twice, or run after
\* its job went on to another session.
WithOneWorker ==
    \A j \in Jobs : \A w \in Workers :
        Waits(j, w) = IF phase[j] = "queued" /\ worker[j] = w THEN 1 ELSE 0

\* "Workers verify this matches before executing to prevent cross-user
\* contamination": the check in _run_task never fires.  A job is sent for its
\* own user, through the session it holds a slot of, by a loop that runs.
SenderIsolation ==
    \A w \in Workers : serving[w] # None =>
        /\ UserOf[w[1]] = UserOf[serving[w]]
        /\ w[2] = sess[serving[w]]
        /\ loop[w] \in {"running", "stopping"}

\* An upload is in one place at a time, and only ever in its user's.
UploadSound == WithOneWorker /\ SenderIsolation

\* Every upload ends, unless its user logs out: the reaper never stops a worker
\* under it, and the registry's lock is always given back.  Every job is under way from
\* the start, and neither an end nor a /logout is undone.
UploadEnds ==
    []<>(\A j \in Jobs : phase[j] \in Ended \/ UserOf[j] \in loggedOut)

\* "concurrent uploads from different users do not exceed a session's
\* max_parallel_tasks" (borrow_manager.py), while nobody changes the limit.
LimitRespected ==
    \A s \in Sessions :
        commands = 0 =>
            Cardinality({w \in Workers : w[2] = s /\ serving[w] # None}) <= limit[s]

\* stop(): "Drain the queue and stop the worker."
QueueDrained ==
    \A w \in Workers : loop[w] = "ended" =>
        \A i \in DOMAIN queue[w] : queue[w][i] \notin Jobs
=============================================================================
