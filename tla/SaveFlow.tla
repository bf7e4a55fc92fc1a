------------------------------ MODULE SaveFlow ------------------------------
(***************************************************************************)
(* The life of a link: save() in TechVJ/save.py admits it through the user *)
(* queue (TechVJ/user_queue.py), dispatches it to a pipeline guarded by    *)
(* the user's cancel flag (TechVJ/task_manager.py) and starts the next     *)
(* queued link when it ends.  /stop and /cancel interfere at any await.    *)
(*                                                                         *)
(* The task that finishes a link carries the next one, so the state of a   *)
(* link says where its task is.  Waiting for a priority-queue slot is part *)
(* of "dispatch": PriorityQueue models the slots.                          *)
(***************************************************************************)
EXTENDS Integers, Sequences, FiniteSets

CONSTANTS Users,
          Links,            \* messages with a parsed link
          NoLink,           \* current_item = None
          OwnerOf,          \* the user who sends each of them
          EscapesCancel,    \* links whose handler lets CancelledError out:
                            \*   public and bot links, save.py 6723 and 6956
          NPosts,           \* posts of every link
          MaxQueue,         \* MAX_QUEUE_SIZE
          PQStarted,        \* did priority_queue.start() succeed at startup
          StopLimit,        \* bound: /stop commands
          CancelLimit,      \* bound: /cancel commands
          RaiseLimit,       \* bound: exceptions that leave a handler
          NotifyFailLimit   \* bound: failed "next in queue" notices

ASSUME SaveFlowAssumption ==
    /\ OwnerOf \in [Links -> Users]
    /\ NoLink \notin Links
    /\ EscapesCancel \subseteq Links
    /\ NPosts \in Nat \ {0}
    /\ MaxQueue \in Nat
    /\ PQStarted \in BOOLEAN
    /\ {StopLimit, CancelLimit, RaiseLimit, NotifyFailLimit} \subseteq Nat

VARIABLES
    isProcessing,  \* UserQueueState.is_processing
    current,       \* UserQueueState.current_item, or NoLink
    queue,         \* UserQueueState.queue
    cancelFlag,    \* UserTaskContext.cancel_flag
    pc,            \* where the task that carries each link is
    viaPQ,         \* does a priority-queue worker run the handler
    pos,           \* next post of the handler's loop
    delivered,     \* how often each post of each link reached the user
    command,       \* progress of the user's running /stop or /cancel
    stops, cancels, raised, notifyFailed,  \* counters, bounded by the limits
    overtaken,     \* history: users whose queue was reset under a carried link
    halted,        \* history: links a finished command told to stop
    resumed,       \* history: halted links whose flag a pipeline start erased
    late           \* history: halted links that began another post

queueVars   == <<isProcessing, current, queue>>
handlerVars == <<viaPQ, pos, delivered>>
counterVars == <<stops, cancels, raised, notifyFailed>>
historyVars == <<overtaken, halted, resumed, late>>
vars == <<queueVars, cancelFlag, pc, handlerVars, command, counterVars, historyVars>>

LinksOf(u) == {l \in Links : OwnerOf[l] = u}
Posts      == 1..NPosts

\* A task carries the link: from its admission until complete() has run.
Carried == {"notify", "dispatch", "loop", "post", "complete", "hung"}
PCs     == Carried \cup {"new", "queued", "rejected", "cleared", "lost", "done"}

Init ==
    /\ isProcessing = [u \in Users |-> FALSE]
    /\ current = [u \in Users |-> NoLink]
    /\ queue = [u \in Users |-> <<>>]
    /\ cancelFlag = [u \in Users |-> FALSE]
    /\ pc = [l \in Links |-> "new"]
    /\ viaPQ = [l \in Links |-> FALSE]
    /\ pos = [l \in Links |-> 1]
    /\ delivered = [l \in Links |-> [p \in Posts |-> 0]]
    /\ command = [u \in Users |-> "none"]
    /\ stops = 0 /\ cancels = 0 /\ raised = 0 /\ notifyFailed = 0
    /\ overtaken = {} /\ halted = {} /\ resumed = {} /\ late = {}

-----------------------------------------------------------------------------
(* save(): the link passes the governance checks and meets the queue.      *)

\* Fault: the caller trusts an earlier check that nothing runs.
AdmitUnchecked(l) ==
    LET u == OwnerOf[l] IN
    /\ pc[l] = "new"
    /\ isProcessing' = [isProcessing EXCEPT ![u] = TRUE]
    /\ current' = [current EXCEPT ![u] = l]
    /\ pc' = [pc EXCEPT ![l] = "dispatch"]
    /\ viaPQ' = [viaPQ EXCEPT ![l] = PQStarted]
    /\ UNCHANGED <<queue, cancelFlag, pos, delivered, command, counterVars, historyVars>>

\* enqueue: nothing runs for the user, the link starts at once.
AdmitNow(l) ==
    LET u == OwnerOf[l] IN
    /\ pc[l] = "new"
    /\ ~isProcessing[u]
    /\ isProcessing' = [isProcessing EXCEPT ![u] = TRUE]
    /\ current' = [current EXCEPT ![u] = l]
    /\ pc' = [pc EXCEPT ![l] = "dispatch"]
    /\ viaPQ' = [viaPQ EXCEPT ![l] = PQStarted]
    /\ UNCHANGED <<queue, cancelFlag, pos, delivered, command, counterVars, historyVars>>

\* enqueue: the link waits behind the running one.
AdmitLater(l) ==
    LET u == OwnerOf[l] IN
    /\ pc[l] = "new"
    /\ isProcessing[u]
    /\ Len(queue[u]) < MaxQueue
    /\ queue' = [queue EXCEPT ![u] = Append(@, l)]
    /\ pc' = [pc EXCEPT ![l] = "queued"]
    /\ UNCHANGED <<isProcessing, current, cancelFlag, handlerVars, command,
                   counterVars, historyVars>>

\* enqueue: the queue is full.
Reject(l) ==
    LET u == OwnerOf[l] IN
    /\ pc[l] = "new"
    /\ isProcessing[u]
    /\ Len(queue[u]) >= MaxQueue
    /\ pc' = [pc EXCEPT ![l] = "rejected"]
    /\ UNCHANGED <<queueVars, cancelFlag, handlerVars, command, counterVars, historyVars>>

-----------------------------------------------------------------------------
(* The handler of the link, run by a worker of the priority queue or, when *)
(* that is not started or has failed, by the task itself.                  *)

\* Fault: there is one flag for all users.
EnterResetsEveryone(l) ==
    /\ pc[l] = "dispatch"
    /\ cancelFlag' = [u \in Users |-> FALSE]
    /\ pc' = [pc EXCEPT ![l] = "loop"]
    /\ pos' = [pos EXCEPT ![l] = 1]
    /\ resumed' = resumed \cup (halted \cap LinksOf(OwnerOf[l]))
    /\ UNCHANGED <<queueVars, viaPQ, delivered, command, counterVars,
                   overtaken, halted, late>>

\* StopSafePipeline.__aenter__ forgets an earlier /stop; the loop over the
\* posts starts from the first one.
EnterPipeline(l) ==
    /\ pc[l] = "dispatch"
    /\ cancelFlag' = [cancelFlag EXCEPT ![OwnerOf[l]] = FALSE]
    /\ pc' = [pc EXCEPT ![l] = "loop"]
    /\ pos' = [pos EXCEPT ![l] = 1]
    /\ resumed' = resumed \cup (halted \cap LinksOf(OwnerOf[l]))
    /\ UNCHANGED <<queueVars, viaPQ, delivered, command, counterVars,
                   overtaken, halted, late>>

\* The check at the head of the loop and the start of the post.
BeginPost(l) ==
    /\ pc[l] = "loop"
    /\ pos[l] <= NPosts
    /\ ~cancelFlag[OwnerOf[l]]
    /\ pc' = [pc EXCEPT ![l] = "post"]
    /\ late' = IF l \in halted THEN late \cup {l} ELSE late
    /\ UNCHANGED <<queueVars, cancelFlag, handlerVars, command, counterVars,
                   overtaken, halted, resumed>>

PostDelivered(l) ==
    /\ pc[l] = "post"
    /\ delivered' = [delivered EXCEPT ![l][pos[l]] = @ + 1]
    /\ pos' = [pos EXCEPT ![l] = @ + 1]
    /\ pc' = [pc EXCEPT ![l] = "loop"]
    /\ UNCHANGED <<queueVars, cancelFlag, viaPQ, command, counterVars, historyVars>>

\* Deleted, timed out, or its download was cancelled in the engine.
PostFailed(l) ==
    /\ pc[l] = "post"
    /\ pos' = [pos EXCEPT ![l] = @ + 1]
    /\ pc' = [pc EXCEPT ![l] = "loop"]
    /\ UNCHANGED <<queueVars, cancelFlag, viaPQ, delivered, command, counterVars,
                   historyVars>>

\* A flood wait inside the post polls the flag and raises CancelledError.
\* Private, topic and thread handlers swallow it.  From the others it kills
\* the worker and leaves the future unresolved, so the task waits forever; in
\* a handler run by the task itself it reaches save()'s finally.
PostCancelled(l) ==
    /\ pc[l] = "post"
    /\ cancelFlag[OwnerOf[l]]
    /\ pc' = [pc EXCEPT ![l] =
                IF l \in EscapesCancel /\ viaPQ[l] THEN "hung" ELSE "complete"]
    /\ UNCHANGED <<queueVars, cancelFlag, handlerVars, command, counterVars, historyVars>>

\* Fault: leaving the pipeline clears the flag.
HandlerResetsFlag(l) ==
    /\ pc[l] = "loop"
    /\ pos[l] > 1 \/ cancelFlag[OwnerOf[l]]
    /\ pc' = [pc EXCEPT ![l] = "complete"]
    /\ cancelFlag' = [cancelFlag EXCEPT ![OwnerOf[l]] = FALSE]
    /\ UNCHANGED <<queueVars, handlerVars, command, counterVars, historyVars>>

\* The loop is over, its head sees the flag, or it breaks off behind a post that failed or
\* had to wait too long; the handler returns.
HandlerReturns(l) ==
    /\ pc[l] = "loop"
    /\ pos[l] > 1 \/ cancelFlag[OwnerOf[l]]
    /\ pc' = [pc EXCEPT ![l] = "complete"]
    /\ UNCHANGED <<queueVars, cancelFlag, handlerVars, command, counterVars, historyVars>>

\* A missing session, or one that cannot connect, ends the handler before its first post;
\* that of bot chats before the pipeline, so that an earlier /stop is not forgotten.
HandlerGivesUp(l) ==
    /\ pc[l] = "dispatch" \/ (pc[l] = "loop" /\ pos[l] = 1)
    /\ pc' = [pc EXCEPT ![l] = "complete"]
    /\ UNCHANGED <<queueVars, cancelFlag, handlerVars, command, counterVars, historyVars>>

\* Fault: the retry goes through the priority queue again.
HandlerRequeued(l) ==
    /\ pc[l] = "loop"
    /\ raised < RaiseLimit
    /\ raised' = raised + 1
    /\ pc' = [pc EXCEPT ![l] = "dispatch"]
    /\ UNCHANGED <<queueVars, cancelFlag, handlerVars, command, stops, cancels,
                   notifyFailed, historyVars>>

\* An exception leaves the handler: a flood wait of a public link, or an edit
\* of the status message that Telegram refuses, also the one after the last
\* post.  _dispatch_with_priority takes it for a failure of the priority queue
\* and runs the handler again; an exception of that second run ends the link.
HandlerRaises(l) ==
    /\ pc[l] = "loop"
    /\ raised < RaiseLimit
    /\ raised' = raised + 1
    /\ viaPQ' = [viaPQ EXCEPT ![l] = FALSE]
    /\ pc' = [pc EXCEPT ![l] = IF viaPQ[l] THEN "dispatch" ELSE "complete"]
    /\ UNCHANGED <<queueVars, cancelFlag, pos, delivered, command, stops, cancels,
                   notifyFailed, historyVars>>

-----------------------------------------------------------------------------
(* The finally clauses of save() and _process_queued_item.                 *)

\* Fault: the next link is left to the user's next message.
CompleteWithoutNext(l) ==
    LET u == OwnerOf[l] IN
    /\ pc[l] = "complete"
    /\ isProcessing' = [isProcessing EXCEPT ![u] = FALSE]
    /\ current' = [current EXCEPT ![u] = NoLink]
    /\ pc' = [pc EXCEPT ![l] = "done"]
    /\ UNCHANGED <<queue, cancelFlag, handlerVars, command, counterVars, historyVars>>

\* complete(): mark the user idle, or take the next link of the queue.
Complete(l) ==
    LET u == OwnerOf[l] IN
    /\ pc[l] = "complete"
    /\ IF queue[u] = <<>>
       THEN /\ isProcessing' = [isProcessing EXCEPT ![u] = FALSE]
            /\ current' = [current EXCEPT ![u] = NoLink]
            /\ pc' = [pc EXCEPT ![l] = "done"]
            /\ UNCHANGED queue
       ELSE /\ current' = [current EXCEPT ![u] = Head(queue[u])]
            /\ queue' = [queue EXCEPT ![u] = Tail(@)]
            /\ pc' = [pc EXCEPT ![l] = "done", ![Head(queue[u])] = "notify"]
            /\ UNCHANGED isProcessing
    /\ UNCHANGED <<cancelFlag, handlerVars, command, counterVars, historyVars>>

\* The notice "next link starts", then _process_queued_item.
Notify(l) ==
    /\ pc[l] = "notify"
    /\ pc' = [pc EXCEPT ![l] = "dispatch"]
    /\ viaPQ' = [viaPQ EXCEPT ![l] = PQStarted]
    /\ UNCHANGED <<queueVars, cancelFlag, pos, delivered, command, counterVars, historyVars>>

\* send_message raises: the exception leaves the finally clause with the next
\* link already taken from the queue, and nobody calls complete() for it.
NotifyFails(l) ==
    /\ pc[l] = "notify"
    /\ notifyFailed < NotifyFailLimit
    /\ notifyFailed' = notifyFailed + 1
    /\ pc' = [pc EXCEPT ![l] = "lost"]
    /\ UNCHANGED <<queueVars, cancelFlag, handlerVars, command, stops, cancels, raised,
                   historyVars>>

-----------------------------------------------------------------------------
(* /stop and /cancel: first the engine's downloads, then the flag, then,   *)
(* for /stop only, the queue.  Each step awaits the one before.            *)

Begin(u, kind) ==
    /\ command[u] = "none"
    /\ command' = [command EXCEPT ![u] = kind]
    /\ UNCHANGED <<queueVars, cancelFlag, pc, handlerVars, raised, notifyFailed, historyVars>>

BeginStop(u) == /\ stops < StopLimit
                /\ stops' = stops + 1
                /\ Begin(u, "stop")
                /\ UNCHANGED cancels

BeginCancel(u) == /\ cancels < CancelLimit
                  /\ cancels' = cancels + 1
                  /\ Begin(u, "cancel")
                  /\ UNCHANGED stops

\* task_manager.cancel_all_tasks: save pipelines register no task, so only
\* the flag reaches them.  For /cancel this is the last step.
RaiseFlag(u) ==
    /\ command[u] \in {"stop", "cancel"}
    /\ cancelFlag' = [cancelFlag EXCEPT ![u] = TRUE]
    /\ command' = [command EXCEPT ![u] = IF @ = "stop" THEN "clearing" ELSE "none"]
    /\ halted' = IF command[u] = "cancel"
                 THEN halted \cup {l \in LinksOf(u) : pc[l] \in Carried \cup {"queued"}}
                 ELSE halted
    /\ UNCHANGED <<queueVars, pc, handlerVars, counterVars,
                   overtaken, resumed, late>>

\* Fault: /stop tells the user that the queue is empty, and leaves it as it is.
ClearQueueKeepsItems(u) ==
    /\ command[u] = "clearing"
    /\ command' = [command EXCEPT ![u] = "none"]
    /\ isProcessing' = [isProcessing EXCEPT ![u] = FALSE]
    /\ current' = [current EXCEPT ![u] = NoLink]
    /\ pc' = [l \in Links |-> IF OwnerOf[l] = u /\ pc[l] = "queued" THEN "cleared" ELSE pc[l]]
    /\ UNCHANGED <<queue, cancelFlag, handlerVars, counterVars, historyVars>>

\* clear_queue: the running link, if any, is no longer the user's current one.
ClearQueue(u) ==
    /\ command[u] = "clearing"
    /\ command' = [command EXCEPT ![u] = "none"]
    /\ queue' = [queue EXCEPT ![u] = <<>>]
    /\ isProcessing' = [isProcessing EXCEPT ![u] = FALSE]
    /\ current' = [current EXCEPT ![u] = NoLink]
    /\ pc' = [l \in Links |-> IF OwnerOf[l] = u /\ pc[l] \in {"queued", "lost"}
                               THEN "cleared" ELSE pc[l]]
    /\ overtaken' = IF \E l \in LinksOf(u) : pc[l] \in Carried
                    THEN overtaken \cup {u} ELSE overtaken
    /\ LET told == {l \in LinksOf(u) : pc[l] \in Carried} IN
         /\ halted' = halted \cup told
         /\ resumed' = IF cancelFlag[u] THEN resumed ELSE resumed \cup told
    /\ UNCHANGED <<cancelFlag, handlerVars, counterVars, late>>

-----------------------------------------------------------------------------
Task(l) == \/ EnterPipeline(l)
           \/ BeginPost(l)
           \/ PostDelivered(l)
           \/ PostFailed(l)
           \/ PostCancelled(l)
           \/ HandlerReturns(l)
           \/ HandlerGivesUp(l)
           \/ HandlerRaises(l)
           \/ Complete(l)
           \/ Notify(l)
           \/ NotifyFails(l)

User(u) == BeginStop(u) \/ BeginCancel(u) \/ RaiseFlag(u) \/ ClearQueue(u)

Next == \/ \E l \in Links : AdmitNow(l) \/ AdmitLater(l) \/ Reject(l) \/ Task(l)
        \/ \E u \in Users : User(u)

Spec == Init /\ [][Next]_vars

\* The event loop runs every task that is not waiting; each call a task waits
\* for returns, raises or times out.  Users send links and commands freely.
Fairness == /\ \A l \in Links : WF_vars(Task(l))
            /\ \A u \in Users : WF_vars(RaiseFlag(u) \/ ClearQueue(u))

FairSpec == Spec /\ Fairness

-----------------------------------------------------------------------------
TypeOK ==
    /\ isProcessing \in [Users -> BOOLEAN]
    /\ current \in [Users -> Links \cup {NoLink}]
    /\ queue \in [Users -> Seq(Links)]
    /\ cancelFlag \in [Users -> BOOLEAN]
    /\ pc \in [Links -> PCs]
    /\ viaPQ \in [Links -> BOOLEAN]
    /\ pos \in [Links -> 1..(NPosts + 1)]
    /\ delivered \in [Links -> [Posts -> Nat]]
    /\ command \in [Users -> {"none", "stop", "clearing", "cancel"}]
    /\ {stops, cancels, raised, notifyFailed} \subseteq Nat
    /\ overtaken \subseteq Users
    /\ halted \subseteq Links /\ resumed \subseteq Links /\ late \subseteq Links

\* A waiting link is always behind a running one: links are admitted to the
\* queue only while the user is processing, and complete() marks the user idle
\* only with an empty queue, so no link waits for a completion that never comes
\* because nothing runs.
QueueOnlyWhileProcessing == \A u \in Users : ~isProcessing[u] => queue[u] = <<>>

\* The queue of a user holds exactly that user's waiting links, each once: no
\* interleaving of admissions, completions and /stop loses one or starts it twice.
QueueHoldsWaiting ==
    \A u \in Users :
        /\ \A i \in DOMAIN queue[u] :
              OwnerOf[queue[u][i]] = u /\ pc[queue[u][i]] = "queued"
        /\ \A i, j \in DOMAIN queue[u] : queue[u][i] = queue[u][j] => i = j
        /\ \A l \in LinksOf(u) :
              pc[l] = "queued" => \E i \in DOMAIN queue[u] : queue[u][i] = l

\* No waiting link is lost, started twice or left behind a user who is idle.
QueueSound == QueueOnlyWhileProcessing /\ QueueHoldsWaiting

\* Unless a /stop reset the queue under a running link, a user has one link in
\* progress at most, and the queue knows it: it is current_item and the user is
\* marked as processing until complete() has run.
OneAtATime ==
    \A u \in Users \ overtaken : \A l \in LinksOf(u) :
        pc[l] \in Carried \cup {"lost"} => isProcessing[u] /\ current[u] = l

\* user_queue.py 65: "Ensures only ONE download runs at a time per user."
OneDownloadPerUser ==
    \A l, m \in Links :
        OwnerOf[l] = OwnerOf[m] /\ pc[l] \in {"loop", "post"} /\ pc[m] \in {"loop", "post"}
            => l = m

\* A link told to stop keeps its cancel flag, and begins no further post, until
\* a pipeline of the same user starts and erases the flag.
StopHoldsUntilReset ==
    \A l \in halted \ resumed : cancelFlag[OwnerOf[l]] /\ l \notin late

\* stop_command: "Cancel ALL ongoing operations for the user": once the command
\* has answered, none of the user's links begins another post.
StopHalts == late = {}

\* cancel_command: "Redirect to /stop - cancels all operations": it leaves no
\* link waiting.
CancelEmptiesQueue ==
    [][\A u \in Users :
          command[u] = "cancel" /\ command'[u] = "none" => queue'[u] = <<>>]_vars

\* While the priority queue runs a link no post of it has been sent twice and
\* none beyond the loop's position at all; the retry outside the queue, which
\* starts from the first post again, happens once at most.
OneRerunAtMost ==
    \A l \in Links : \A p \in Posts :
        /\ delivered[l][p] <= IF PQStarted /\ ~viaPQ[l] THEN 2 ELSE 1
        /\ viaPQ[l] /\ p >= pos[l] => delivered[l][p] = 0

\* Unless a /stop intervenes, a user's links are run one after the other, each of them once.
LinksInTurn == OneAtATime /\ OneRerunAtMost

\* download_and_send_media: a failure after the delivery "must not trigger a
\* retry that sends the media twice".
NoDuplicatePost == \A l \in Links : \A p \in Posts : delivered[l][p] <= 1

\* The link in progress was lost with its notice, or its handler never answers: the
\* user stays marked as processing.
Stalled(u) == \E m \in LinksOf(u) : pc[m] \in {"lost", "hung"}

\* A link that waits behind others is started or cleared in the end, through every
\* /stop, /cancel, failure and second run of a handler; only a link in progress that
\* is lost or hangs may keep it.
QueueMoves == \A l \in Links : pc[l] = "queued" ~> pc[l] # "queued" \/ Stalled(OwnerOf[l])

\* user_queue.py 10: "Auto-start next item when current finishes".
QueueAlwaysMoves == \A l \in Links : pc[l] = "queued" ~> pc[l] # "queued"
=============================================================================
