--------------------------- MODULE MediaDelivery ----------------------------
(***************************************************************************)
(* The links that TechVJ/save.py serves: a job walks over the posts of a   *)
(* link, downloads each, and delivers it to the user's chat with the bot   *)
(* through a pool session, the user's own session or, cut into parts, the  *)
(* downloading client.                                                     *)
(*                                                                         *)
(* An action ends where another task may change what the job reads next:   *)
(* the stop flag, the pool, or an answer of Telegram that the code acts    *)
(* on.  Albums, locations, venues, polls and QuizBot posts take ways of    *)
(* their own through process_single_post and are not part of this module.  *)
(***************************************************************************)
EXTENDS RelayPool

CONSTANTS Jobs,
          Workloads,    \* the links the jobs may serve together
          MaxPosts,     \* bound: posts of a link
          Parts,        \* parts a big file is split into
          CreateTries,  \* _max_pool_tries
          UploadTries,  \* rounds of _try_upload_with_pool_fallback
          PartRetries,  \* flood waits of a part outside a private job
          ErrorLimit,   \* MAX_CONSECUTIVE_ERRORS
          Budget        \* bounds, per workload: FloodWait answers (floods), answers lost
                        \* after Telegram did its work (losses), jobs /stop meets (stops)

Posts    == 1..MaxPosts
Pieces   == 0..Parts      \* 0 is the post as a whole
PartNos  == 1..Parts
None     == 0
Accounts == Sessions \cup {"own", "download"}

\* Local files: the download and its thumbnail, the parts and the thumbnail of
\* the one under way, and what a split that failed has written.
File      == <<"file", 0>>
Thumb     == <<"thumb", 0>>
PartThumb == <<"partThumb", 0>>
Fragments == <<"fragments", 0>>
PartFile(k) == <<"part", k>>
PartFiles == {PartFile(k) : k \in PartNos}

\* A link: where its posts are, who asks, and what kinds of posts they are.
\*   premium   the user is premium, has a session and did not choose force_split
\*   override  /dlsession: the owner downloads with another account
Requests == [mode : {"private", "public", "bot"}, vip : BOOLEAN, premium : BOOLEAN,
             override : BOOLEAN, posts : Seq({"text", "small", "big"})]

ASSUME MediaDeliveryAssumption ==
    /\ Workloads \subseteq [Jobs -> Requests]
    /\ \A w \in Workloads, j \in Jobs : Len(w[j].posts) <= MaxPosts
    /\ {MaxPosts, Parts, CreateTries, UploadTries, ErrorLimit} \subseteq Nat \ {0}
    /\ PartRetries \in Nat
    /\ Budget \in [Workloads -> [floods : Nat, losses : Nat, stops : Nat]]
    /\ Sessions \cap {"own", "download"} = {}

VARIABLES
    req,        \* the link of each job
    pc,         \* where the job is, or what came of its post
    at,         \* the post it works on
    cut,        \* chunk_paths: the parts the splitter gave
    part,       \* the part it works on
    tries,      \* rounds of the loop it is in
    route,      \* _cur_pool_idx
    cand,       \* _cur_sess
    worker,     \* whose session _cur_worker uses
    errs,       \* _consecutive_errors
    flag,       \* the user's cancel flag
    disk,       \* local files
    processed, failed, deleted,  \* what the job counts, post by post
    floods,     \* counter, bounded by Budget
    got,        \* history: how often each piece reached the user
    lost,       \* history: posts an answer was lost for
    late,       \* history: pieces that first reached the user after /stop
    torn,       \* history: posts the splitter dropped a part of
    foreign     \* history: jobs that uploaded through the download account

uploadVars  == <<route, cand, worker>>
tallyVars   == <<errs, processed, failed, deleted>>
historyVars == <<got, lost, late, foreign>>
jobVars     == <<pc, at, cut, torn, part, tries, uploadVars, tallyVars, disk, floods, historyVars>>
vars        == <<poolVars, req, flag, jobVars>>

Results == {"true", "false", "deleted", "flood", "cancelled"}
PCs == Results \cup
       {"head", "fetch", "text", "plain", "download", "ready", "direct", "split",
        "part", "send", "partCopy", "managed", "select", "create", "createOwn", "upload",
        "copy", "recreate", "own", "ask", "skip", "poll", "pollCreate", "done"}

Private(j) == req[j].mode = "private"
Kind(j)    == req[j].posts[at[j]]
\* _allow_global_premium
Global(j)  == req[j].vip /\ ~req[j].override
\* acc, the client that downloads; bot links know no download account.
Acc(j)     == IF req[j].override /\ req[j].mode # "bot" THEN "download" ELSE "own"

Init ==
    /\ PoolInit
    /\ req \in Workloads
    /\ pc = [j \in Jobs |-> "head"]
    /\ at = [j \in Jobs |-> 1]
    /\ cut = [j \in Jobs |-> {}] /\ part = [j \in Jobs |-> 1]
    /\ tries = [j \in Jobs |-> 0]
    /\ route = [j \in Jobs |-> None]
    /\ cand = [j \in Jobs |-> "own"] /\ worker = [j \in Jobs |-> "own"]
    /\ errs = [j \in Jobs |-> 0]
    /\ flag = [j \in Jobs |-> FALSE]
    /\ disk = [j \in Jobs |-> {}]
    /\ processed = [j \in Jobs |-> {}]
    /\ failed = [j \in Jobs |-> {}] /\ deleted = [j \in Jobs |-> {}]
    /\ floods = 0
    /\ got = [j \in Jobs |-> [p \in Posts \X Pieces |-> 0]]
    /\ lost = {} /\ late = {} /\ torn = {} /\ foreign = {}

-----------------------------------------------------------------------------
(* Effects several handlers share                                          *)

Goto(j, where) == pc' = [pc EXCEPT ![j] = where]

\* Fault: the pipeline does not look at the flag.
NeverCancelled(j) == FALSE

\* pipeline.check_cancelled()
Cancelled(j) == flag[j]

\* A piece of the post reaches the user's chat.
Reaches(j, k) ==
    /\ got' = [got EXCEPT ![j][<<at[j], k>>] = @ + 1]
    /\ late' = IF flag[j] /\ got[j][<<at[j], k>>] = 0
               THEN late \cup {<<j, at[j], k>>} ELSE late
    /\ UNCHANGED foreign

\* The same, through a session that the owner uses for downloads only: the file
\* ends up in the chat of the wrong account.
Strays(j) == foreign' = foreign \cup {j} /\ UNCHANGED <<got, late>>

Sent(j, k) == /\ IF worker[j] = "download" THEN Strays(j) ELSE Reaches(j, k)
              /\ UNCHANGED lost

\* The piece arrives and the answer that says so does not.
LosesAnswer(j, k) ==
    /\ Cardinality(lost) < Budget[req].losses
    /\ <<j, at[j]>> \notin lost
    /\ lost' = lost \cup {<<j, at[j]>>}
    /\ Reaches(j, k)

\* Telegram answers FloodWait.
Flooded == floods < Budget[req].floods /\ floods' = floods + 1

\* A call fails, and the exception ends the work on the post.
Fails(j) == \/ Goto(j, "false") /\ UNCHANGED floods
            \/ Flooded /\ Goto(j, "flood")

\* The loop over the posts does not go on.
Elsewhere == UNCHANGED <<req, flag, at, tallyVars>>
\* Nor is a file split.
Unsplit == Elsewhere /\ UNCHANGED <<cut, torn>>

-----------------------------------------------------------------------------
(* The loop over the posts and process_single_post                         *)

\* The head of the loop: /stop or the end of the link.  Leaving the pipeline
\* removes the temp directory, which only private jobs have.
Leave(j) == disk' = [disk EXCEPT ![j] = IF Private(j) THEN {} ELSE @]

Stop(j) ==
    /\ pc[j] = "head"
    /\ Cancelled(j) \/ at[j] > Len(req[j].posts)
    /\ Goto(j, "done")
    /\ Leave(j)
    /\ UNCHANGED <<poolVars, part, tries, uploadVars, floods, historyVars>> /\ Unsplit

Begin(j) ==
    /\ pc[j] = "head"
    /\ ~Cancelled(j) /\ at[j] <= Len(req[j].posts)
    /\ Goto(j, "fetch")
    /\ UNCHANGED <<poolVars, part, tries, uploadVars, disk, floods, historyVars>> /\ Unsplit

\* get_messages: the post is there, deleted, or cannot be read.
Fetch(j) ==
    /\ pc[j] = "fetch"
    /\ \/ Cancelled(j) /\ Goto(j, "false") /\ UNCHANGED floods
       \/ /\ ~Cancelled(j)
          /\ \/ /\ Goto(j, IF Kind(j) = "text" THEN "text" ELSE "download")
                /\ UNCHANGED floods
             \/ \E r \in {"false", "deleted"} : Goto(j, r) /\ UNCHANGED floods
             \/ Flooded /\ Goto(j, "flood")
    /\ UNCHANGED <<poolVars, part, tries, uploadVars, disk, historyVars>> /\ Unsplit

\* send_text_message: with its entities, then once more as plain text.
SendText(j) ==
    /\ pc[j] \in {"text", "plain"}
    /\ LET again == IF pc[j] = "text" THEN "plain" ELSE "false" IN
       \/ /\ Goto(j, "true") /\ Reaches(j, 0)
          /\ UNCHANGED <<lost, floods>>
       \/ Goto(j, again) /\ LosesAnswer(j, 0) /\ UNCHANGED floods
       \/ Goto(j, again) /\ UNCHANGED <<floods, historyVars>>
       \/ Flooded /\ Goto(j, "flood") /\ UNCHANGED historyVars
    /\ UNCHANGED <<poolVars, part, tries, uploadVars, disk>> /\ Unsplit

\* The engine downloads into the temp directory; the status message before it
\* may meet a flood.  An empty file is removed.
Download(j) ==
    /\ pc[j] = "download"
    /\ \/ Goto(j, "false") /\ UNCHANGED <<floods, disk>>
       \/ ~Cancelled(j) /\ Flooded /\ Goto(j, "flood") /\ UNCHANGED disk
       \/ /\ ~Cancelled(j)
          /\ Goto(j, "ready")
          /\ disk' = [disk EXCEPT ![j] = @ \cup {File}]
          /\ UNCHANGED floods
    /\ UNCHANGED <<poolVars, part, tries, uploadVars, historyVars>> /\ Unsplit

\* The way the file goes is chosen by its size and the user's rights.
Ready(j) ==
    /\ pc[j] = "ready"
    /\ \/ Cancelled(j) /\ Goto(j, "false") /\ UNCHANGED disk
       \/ /\ ~Cancelled(j)
          /\ Goto(j, CASE Kind(j) = "big" /\ req[j].premium  -> "direct"
                       [] Kind(j) = "big" /\ ~req[j].premium -> "split"
                       [] OTHER -> IF Global(j) THEN "managed" ELSE "select")
          /\ \E thumb \in SUBSET {Thumb} : disk' = [disk EXCEPT ![j] = @ \cup thumb]
    /\ worker' = [worker EXCEPT ![j] = "own"]
    /\ UNCHANGED <<poolVars, part, tries, route, cand, floods, historyVars>> /\ Unsplit

-----------------------------------------------------------------------------
(* Big files                                                               *)

\* A premium user's worker uploads the file in one piece; any failure, a flood
\* among them, leads to the split.  That there is no worker ends the post.
Direct(j) ==
    /\ pc[j] = "direct"
    /\ \/ Goto(j, "true") /\ Sent(j, 0) /\ UNCHANGED floods
       \/ Goto(j, "split") /\ LosesAnswer(j, 0) /\ UNCHANGED floods
       \/ Goto(j, "split") /\ UNCHANGED <<floods, historyVars>>
       \/ Fails(j) /\ UNCHANGED historyVars
    /\ UNCHANGED <<poolVars, part, tries, uploadVars, disk>> /\ Unsplit

\* The parts of the file, in order, that come after part k.
Rest(j, k) == {m \in cut[j] : m > k}

\* split_func: ffmpeg drops the parts that it fails to cut and may leave what it
\* wrote of them; only when none is left is the file cut without it.  A split that
\* raises leaves what it wrote, too.  The parts go through acc.
Split(j) ==
    /\ pc[j] = "split"
    /\ \/ /\ Goto(j, "false")
          /\ disk' = [disk EXCEPT ![j] = @ \cup {Fragments}]
          /\ UNCHANGED <<worker, cut, part, torn>>
       \/ \E parts \in (SUBSET PartNos) \ {{}} :
          /\ cut' = [cut EXCEPT ![j] = parts]
          /\ \E k \in parts : /\ \A m \in parts : k <= m
                             /\ part' = [part EXCEPT ![j] = k]
          /\ torn' = IF parts = PartNos THEN torn ELSE torn \cup {<<j, at[j]>>}
          /\ disk' = [disk EXCEPT ![j] = @ \cup {PartFile(k) : k \in parts} \cup
                        (IF parts = PartNos THEN {} ELSE {Fragments})]
          /\ worker' = [worker EXCEPT ![j] = Acc(j)]
          /\ Goto(j, "part")
    /\ UNCHANGED <<poolVars, tries, route, cand, floods, historyVars>> /\ Elsewhere

\* The next part gets its caption and, when it is a video, a thumbnail.
TakePart(j) ==
    /\ pc[j] = "part"
    /\ \/ Cancelled(j) /\ Goto(j, "false") /\ UNCHANGED disk
       \/ /\ ~Cancelled(j)
          /\ Goto(j, "send")
          /\ \E thumb \in SUBSET {PartThumb} : disk' = [disk EXCEPT ![j] = @ \cup thumb]
    /\ tries' = [tries EXCEPT ![j] = 0]
    /\ UNCHANGED <<poolVars, part, uploadVars, floods, historyVars>> /\ Unsplit

\* The part is through: its files go and the next one follows.
PartSent(j) ==
    LET rest == Rest(j, part[j]) IN
    /\ disk' = [disk EXCEPT ![j] = @ \ {PartFile(part[j]), PartThumb}]
    /\ IF rest = {} THEN Goto(j, "true") /\ UNCHANGED part
                   ELSE /\ Goto(j, "part")
                        /\ \E k \in rest : /\ \A m \in rest : k <= m
                                           /\ part' = [part EXCEPT ![j] = k]

\* Fault: a flood of a part is left to the loop over the posts.
RaisePartFlood(j) == Goto(j, "flood") /\ UNCHANGED tries

\* A private job waits for the flood and sends the same part again; elsewhere
\* the part is retried a few times before the flood is raised.
PartFlood(j) ==
    \/ Private(j) /\ UNCHANGED <<pc, tries>>
    \/ /\ ~Private(j) /\ tries[j] < PartRetries
       /\ tries' = [tries EXCEPT ![j] = @ + 1] /\ UNCHANGED pc
    \/ ~Private(j) /\ Goto(j, "flood") /\ UNCHANGED tries

\* _send_split_part_with_peer_retry
SendPart(j) ==
    /\ pc[j] = "send"
    /\ \/ /\ Cancelled(j)
          /\ Goto(j, "cancelled")
          /\ UNCHANGED <<part, tries, disk, floods, historyVars>>
       \/ /\ ~Cancelled(j) /\ worker[j] = "own"
          /\ Sent(j, part[j])
          /\ PartSent(j)
          /\ UNCHANGED <<tries, floods>>
       \/ /\ ~Cancelled(j) /\ worker[j] = "download"
          /\ Sent(j, part[j])
          /\ Goto(j, "partCopy")
          /\ UNCHANGED <<part, tries, disk, floods>>
       \/ /\ ~Cancelled(j) /\ Flooded
          /\ PartFlood(j)
          /\ UNCHANGED <<part, disk, historyVars>>
       \/ /\ ~Cancelled(j)
          /\ Goto(j, "false")
          /\ \/ UNCHANGED historyVars
             \/ worker[j] = "own" /\ LosesAnswer(j, part[j])
          /\ UNCHANGED <<part, tries, disk, floods>>
    /\ UNCHANGED <<poolVars, uploadVars>> /\ Unsplit

\* _copy_user_session_upload_to_user: three attempts, the second of which may
\* follow a copy whose answer was lost.
CopyPart(j) ==
    /\ pc[j] = "partCopy"
    /\ \/ Reaches(j, part[j]) /\ UNCHANGED lost /\ PartSent(j)
       \/ LosesAnswer(j, part[j]) /\ UNCHANGED <<pc, part, disk>>
       \/ /\ Goto(j, "false")
          /\ disk' = [disk EXCEPT ![j] = @ \ {PartFile(part[j]), PartThumb}]
          /\ UNCHANGED <<part, historyVars>>
    /\ UNCHANGED <<poolVars, tries, uploadVars, floods>> /\ Unsplit

-----------------------------------------------------------------------------
(* Small files: the session manager, then the pool, then the own session   *)

\* session_manager.upload_for_user; its exceptions are swallowed.
Managed(j) ==
    /\ pc[j] = "managed"
    /\ \/ Goto(j, "true") /\ Reaches(j, 0) /\ UNCHANGED lost
       \/ Goto(j, "select") /\ LosesAnswer(j, 0)
       \/ Goto(j, "select") /\ UNCHANGED historyVars
    /\ UNCHANGED <<poolVars, part, tries, uploadVars, disk, floods>> /\ Unsplit

\* The job holds index i of the pool.
Borrow(j, i) == /\ route' = [route EXCEPT ![j] = i]
                /\ cand' = [cand EXCEPT ![j] = pool[i]]

Select(j) ==
    /\ pc[j] = "select"
    /\ \/ /\ Global(j)
          /\ \E i \in DOMAIN pool : Gives(i, paused \cup fatal) /\ Borrow(j, i)
       \/ /\ ~Global(j) \/ GivesNone(paused \cup fatal)
          /\ route' = [route EXCEPT ![j] = None]
          /\ cand' = [cand EXCEPT ![j] = "own"]
          /\ UNCHANGED next
    /\ tries' = [tries EXCEPT ![j] = 1]
    /\ Goto(j, "create")
    /\ UNCHANGED <<pool, paused, fatal, reloads, guilty, part, worker, disk, floods,
                   historyVars>> /\ Unsplit

\* The candidate has blocked the bot: its index is disabled.
Disable(j) == /\ fatal' = fatal \cup {route[j]}
              /\ guilty' = guilty \cup {cand[j]}
              /\ UNCHANGED <<pool, paused, reloads>>

GetsWorker(j) == /\ worker' = [worker EXCEPT ![j] = cand[j]]
                 /\ tries' = [tries EXCEPT ![j] = 1]
                 /\ Goto(j, "upload")

\* The loop over the candidates.  A candidate found in the last round is not
\* tried: the post fails.
Create(j) ==
    /\ pc[j] = "create"
    /\ \/ GetsWorker(j) /\ UNCHANGED <<poolVars, route, cand, floods>>
       \/ Fails(j) /\ UNCHANGED <<poolVars, uploadVars, tries>>
       \/ /\ route[j] # None
          /\ Disable(j)
          /\ LET barred == paused \cup fatal \cup {route[j]} IN
             \/ /\ \E i \in DOMAIN pool : Gives(i, barred) /\ Borrow(j, i)
                /\ tries' = [tries EXCEPT ![j] = @ + 1]
                /\ Goto(j, IF tries[j] < CreateTries THEN "create" ELSE "false")
             \/ /\ GivesNone(barred)
                /\ route' = [route EXCEPT ![j] = None]
                /\ cand' = [cand EXCEPT ![j] = Acc(j)]
                /\ Goto(j, "createOwn")
                /\ UNCHANGED <<next, tries>>
          /\ UNCHANGED <<worker, floods>>
       \/ /\ route[j] = None
          /\ cand' = [cand EXCEPT ![j] = Acc(j)]
          /\ Goto(j, "createOwn")
          /\ UNCHANGED <<poolVars, route, worker, tries, floods>>
    /\ UNCHANGED <<part, disk, historyVars>> /\ Unsplit

\* After try_unblock_bot: once more, with the session acc runs on.
CreateOwn(j) ==
    /\ pc[j] = "createOwn"
    /\ \/ GetsWorker(j) /\ UNCHANGED <<route, cand, floods>>
       \/ Fails(j) /\ UNCHANGED <<uploadVars, tries>>
    /\ UNCHANGED <<poolVars, part, disk, historyVars>> /\ Unsplit

\* Another round of the upload loop, unless there were too many.
Again(j, where) == /\ Goto(j, IF tries[j] < UploadTries THEN where ELSE "false")
                   /\ tries' = [tries EXCEPT ![j] = @ + 1]

\* Fault: the pause hits the session that follows.
PauseNext(j, i) == paused' = paused \cup {i}

\* mark_flood: the session that flooded rests.  i is the one that follows.
Pause(j, i) == paused' = paused \cup {route[j]}

\* A pool session floods: it is paused and the next one borrowed; with none free
\* the user is asked, and with none left the flood is raised.
PoolFlood(j) ==
    /\ guilty' = guilty \cup {worker[j]}
    /\ LET barred == paused \cup {route[j]} \cup fatal IN
       \/ /\ \E i \in DOMAIN pool : Gives(i, barred) /\ Borrow(j, i) /\ Pause(j, i)
          /\ Goto(j, "recreate")
       \/ /\ GivesNone(barred)
          /\ paused' = paused \cup {route[j]}
          /\ Goto(j, IF NoneLeft(fatal) THEN "flood" ELSE "ask")
          /\ UNCHANGED <<next, route, cand>>
    /\ UNCHANGED <<pool, fatal, reloads>>

\* worker.enqueue of the upload.  What a pool session uploads still has to be
\* copied; what the own session uploads is in the user's chat.
Upload(j) ==
    /\ pc[j] = "upload"
    /\ \/ /\ route[j] # None
          /\ \/ Goto(j, "copy") /\ UNCHANGED <<poolVars, route, cand, floods>>
             \/ Goto(j, "own") /\ UNCHANGED <<poolVars, route, cand, floods>>
             \/ Flooded /\ PoolFlood(j)
          /\ UNCHANGED historyVars
       \/ /\ route[j] = None
          /\ \/ Goto(j, "true") /\ Sent(j, 0) /\ UNCHANGED floods
             \/ worker[j] = "own" /\ Goto(j, "false") /\ LosesAnswer(j, 0) /\ UNCHANGED floods
             \/ Goto(j, "false") /\ UNCHANGED <<floods, historyVars>>
             \/ Flooded /\ Goto(j, "flood") /\ UNCHANGED historyVars
          /\ UNCHANGED <<poolVars, route, cand>>
    /\ UNCHANGED <<part, tries, worker, disk>> /\ Unsplit

\* Fault: the upload counts although nobody could copy it.
ForgiveCopy(j) == Goto(j, "true")

\* PoolDeliveryError after three attempts: the own session tries.
CopyFails(j) == Goto(j, "own")

\* The bot finds the pool session's upload and copies it to the user.
Copy(j) ==
    /\ pc[j] = "copy"
    /\ \/ Goto(j, "true") /\ Reaches(j, 0) /\ UNCHANGED lost
       \/ LosesAnswer(j, 0) /\ UNCHANGED pc
       \/ CopyFails(j) /\ UNCHANGED historyVars
    /\ UNCHANGED <<poolVars, part, tries, uploadVars, disk, floods>> /\ Unsplit

\* get_or_create for the session borrowed after a flood.  When that one has
\* blocked the bot, the old worker tries again under the new index.
Recreate(j) ==
    /\ pc[j] = "recreate"
    /\ \/ worker' = [worker EXCEPT ![j] = cand[j]] /\ Again(j, "upload") /\ UNCHANGED <<poolVars, floods>>
       \/ Disable(j) /\ Again(j, "upload") /\ UNCHANGED <<next, worker, floods>>
       \/ Fails(j) /\ UNCHANGED <<poolVars, worker, tries>>
    /\ UNCHANGED <<part, route, cand, disk, historyVars>> /\ Unsplit

\* _upload_with_user_session, after an error or because the user does not wait.
\* Its own failure gives way to the error it stands in for.
OwnSession(j) ==
    /\ pc[j] \in {"own", "skip"}
    /\ LET first == IF pc[j] = "own" THEN "false" ELSE "flood" IN
       \/ Goto(j, "true") /\ Reaches(j, 0) /\ UNCHANGED lost
       \/ Goto(j, first) /\ LosesAnswer(j, 0)
       \/ Goto(j, first) /\ UNCHANGED historyVars
    /\ UNCHANGED <<poolVars, part, tries, uploadVars, disk, floods>> /\ Unsplit

\* "Wait, or go on without premium?"  No answer within five minutes is the
\* latter; the question itself may fail to go out.
Ask(j) ==
    /\ pc[j] = "ask"
    /\ \/ \E answer \in {"skip", "poll"} : Goto(j, answer) /\ UNCHANGED floods
       \/ Fails(j)
    /\ UNCHANGED <<poolVars, part, tries, uploadVars, disk, historyVars>> /\ Unsplit

\* Fault: the job waits as long as a session may come back.
GiveUpWhenNoneLeft(j) ==
    /\ pc[j] = "poll"
    /\ NoneLeft(fatal)
    /\ Goto(j, "flood")
    /\ UNCHANGED <<poolVars, part, tries, uploadVars, disk, floods, historyVars>> /\ Unsplit

\* Five minutes are over: the flood that began the wait is raised.
GiveUp(j) ==
    /\ pc[j] = "poll"
    /\ Goto(j, "flood")
    /\ UNCHANGED <<poolVars, part, tries, uploadVars, disk, floods, historyVars>> /\ Unsplit

\* Every ten seconds.
Poll(j) ==
    /\ pc[j] = "poll"
    /\ \E i \in DOMAIN pool : Gives(i, paused \cup fatal) /\ Borrow(j, i)
    /\ Goto(j, "pollCreate")
    /\ UNCHANGED <<pool, paused, fatal, reloads, guilty, part, tries, worker, disk, floods,
                   historyVars>> /\ Unsplit

PollCreate(j) ==
    /\ pc[j] = "pollCreate"
    /\ \/ worker' = [worker EXCEPT ![j] = cand[j]] /\ Again(j, "upload") /\ UNCHANGED <<poolVars, floods>>
       \/ Disable(j) /\ Goto(j, "poll") /\ UNCHANGED <<next, worker, tries, floods>>
       \/ Fails(j) /\ UNCHANGED <<poolVars, worker, tries>>
    /\ UNCHANGED <<part, route, cand, disk, historyVars>> /\ Unsplit

-----------------------------------------------------------------------------
(* The end of a post                                                       *)

\* The finally clause of download_and_send_media.
Cleanup(j) == disk[j] \ ({File, Thumb} \cup PartFiles)

\* What the loop counts; the bot loop counts nothing.
Count(j) ==
    LET counts == req[j].mode # "bot"
        add(set, r) == IF counts /\ pc[j] = r THEN [set EXCEPT ![j] = @ \cup {at[j]}] ELSE set
    IN  /\ processed' = add(processed, "true")
        /\ failed' = add(failed, "false")
        /\ deleted' = add(deleted, "deleted")
        /\ errs' = [errs EXCEPT ![j] =
                      CASE counts /\ pc[j] = "true" -> 0
                        [] counts /\ (pc[j] = "false" \/ (pc[j] = "deleted" /\ ~Private(j))) -> @ + 1
                        [] OTHER -> @]

\* The loop ends: too many errors in a row, a CancelledError, a long flood of a
\* public link, any flood of a bot link.
Breaks(j) == \/ pc[j] \in {"true", "false", "deleted"} /\ errs'[j] >= ErrorLimit
             \/ pc[j] = "cancelled"
             \/ pc[j] = "flood" /\ ~Private(j)

\* It goes on: a private job takes a flooded post again, all others the next.
GoesOn(j) == \/ pc[j] \in {"true", "false", "deleted"} /\ errs'[j] < ErrorLimit
             \/ pc[j] = "flood" /\ req[j].mode # "bot"

Settle(j) ==
    /\ pc[j] \in Results
    /\ Count(j)
    /\ \/ /\ Breaks(j)
          /\ Goto(j, "done")
          /\ disk' = [disk EXCEPT ![j] = IF Private(j) THEN {} ELSE Cleanup(j)]
          /\ UNCHANGED at
       \/ /\ GoesOn(j)
          /\ Goto(j, "head")
          /\ disk' = [disk EXCEPT ![j] = Cleanup(j)]
          /\ at' = [at EXCEPT ![j] = IF Private(j) /\ pc[j] = "flood" THEN @ ELSE @ + 1]
    /\ UNCHANGED <<poolVars, req, flag, cut, torn, part, tries, uploadVars, floods,
                   historyVars>>

-----------------------------------------------------------------------------
\* /stop raises the flag and removes the user's directories (cleanup_user_temp); the
\* job itself goes on to its next look at the flag.
RaiseFlag(j) ==
    /\ pc[j] # "done" /\ ~flag[j]
    /\ Cardinality({k \in Jobs : flag[k]}) < Budget[req].stops
    /\ flag' = [flag EXCEPT ![j] = TRUE]
    /\ Leave(j)
    /\ UNCHANGED <<poolVars, req, pc, at, cut, torn, part, tries, uploadVars, tallyVars, floods,
                   historyVars>>

Job(j) == \/ Stop(j) \/ Begin(j) \/ Fetch(j) \/ SendText(j) \/ Download(j) \/ Ready(j)
          \/ Direct(j) \/ Split(j) \/ TakePart(j) \/ SendPart(j) \/ CopyPart(j)
          \/ Managed(j) \/ Select(j) \/ Create(j) \/ CreateOwn(j) \/ Upload(j) \/ Copy(j)
          \/ Recreate(j) \/ OwnSession(j) \/ Ask(j) \/ GiveUp(j) \/ Poll(j)
          \/ PollCreate(j) \/ Settle(j)

PoolStep == Reload \/ \E i \in paused : Resume(i)

Next == \/ \E j \in Jobs : Job(j) \/ RaiseFlag(j)
        \/ PoolStep /\ UNCHANGED <<req, flag, jobVars>>

Spec == Init /\ [][Next]_vars

\* Every call to Telegram returns or times out and the event loop resumes the
\* job.  Pauses need not run out, the user need not answer or stop anything.
FairSpec == Spec /\ \A j \in Jobs : WF_vars(Job(j))

-----------------------------------------------------------------------------
TypeOK ==
    /\ PoolTypeOK
    /\ req \in [Jobs -> Requests]
    /\ pc \in [Jobs -> PCs]
    /\ at \in [Jobs -> Nat \ {0}] /\ part \in [Jobs -> PartNos]
    /\ cut \in [Jobs -> SUBSET PartNos]
    /\ tries \in [Jobs -> Nat]
    /\ route \in [Jobs -> Nat]
    /\ cand \in [Jobs -> Accounts] /\ worker \in [Jobs -> Accounts]
    /\ errs \in [Jobs -> Nat] /\ flag \in [Jobs -> BOOLEAN]
    /\ disk \in [Jobs -> SUBSET ({File, Thumb, PartThumb, Fragments} \cup PartFiles)]
    /\ processed \in [Jobs -> SUBSET Posts]
    /\ failed \in [Jobs -> SUBSET Posts] /\ deleted \in [Jobs -> SUBSET Posts]
    /\ floods \in Nat
    /\ got \in [Jobs -> [Posts \X Pieces -> Nat]]
    /\ {lost, torn} \subseteq SUBSET (Jobs \X Posts)
    /\ late \subseteq Jobs \X Posts \X Pieces
    /\ foreign \subseteq Jobs

\* Job j delivered post p, in one piece or in all its parts.
Whole(j, p) == got[j][<<p, 0>>] > 0 \/ \A k \in PartNos : got[j][<<p, k>>] > 0

\* No piece of a post reaches the user twice and no post both whole and in parts,
\* through all the retries, switches of session and fallbacks of a post, and
\* however often a flooded post is taken again; an answer lost on the way costs
\* one repetition at most.  ("Never restart the split loop: earlier chunks may
\* already have reached the recipient.")
EachOnce ==
    \A j \in Jobs, p \in Posts :
        /\ \A k \in Pieces : got[j][<<p, k>>] <= IF <<j, p>> \in lost THEN 2 ELSE 1
        /\ <<j, p>> \notin lost =>
               got[j][<<p, 0>>] = 0 \/ \A k \in PartNos : got[j][<<p, k>>] = 0

\* The user is told the truth: a post counted as sent reached the user's chat in
\* full, and one reported as failed did not, unless an answer was lost.  The first
\* half needs a splitter that drops nothing (SplitKeepsAll) and a user who does not
\* download through another account (DownloadAccountNeverUploads).
CountedRight ==
    \A j \in Jobs :
        /\ ~req[j].override => \A p \in processed[j] : Whole(j, p) \/ <<j, p>> \in torn
        /\ \A p \in failed[j] : <<j, p>> \notin lost => ~Whole(j, p)

\* After /stop one more piece at most reaches the user, the one under way.
OneMoreAfterStop == \A x, y \in late : x[1] = y[1] => x = y

\* While the owner leaves the pool alone, the sessions paused or disabled are ones
\* that flooded or blocked the bot, although a job keeps an index while its worker
\* may still be that of the session before.
OnlyGuiltyPaused ==
    reloads = 0 => \A i \in DOMAIN pool \cap (paused \cup fatal) : pool[i] \in guilty

\* Every link comes to its end, also when the pool's sessions stay paused and the
\* user who chose to wait never stops anything.
JobEnds == \A j \in Jobs : <>(pc[j] = "done")

\* split_large_video, of the video cut by ffmpeg: "Falls back to segment split, then
\* binary split."  The bot says how many parts it sent and that they can be joined.
SplitKeepsAll ==
    \A j \in Jobs : ~req[j].override => \A p \in processed[j] : Whole(j, p)

\* _album_upload_session: "The download account (``acc``) never uploads."
DownloadAccountNeverUploads == foreign = {}

\* download_and_send_media: "GUARANTEED CLEANUP, including failed/cancelled split
\* uploads."
NothingLeft == \A j \in Jobs : pc[j] = "done" => disk[j] = {}
=============================================================================
