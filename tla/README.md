# Verification of the save-restricted-content bot

A TLA+ development kept beside the bot: models of its queues, pools and
delivery paths, the TLC configurations that check them on small instances, and
TLAPS proofs of the safety properties for every value of the constants. The
paths below are relative to the repository.

1. [The system](#1-the-system)
2. [Modules and plan](#2-modules-and-plan)
3. [The models and the code](#3-the-models-and-the-code)
4. [Runs, bounds and fairness](#4-runs-bounds-and-fairness)
5. [What the runs found](#5-what-the-runs-found)
6. [Theorems and proofs](#6-theorems-and-proofs)
7. [What is not modelled](#7-what-is-not-modelled)

## 1. The system

One asyncio process runs a Telegram bot. A user sends a link; the bot reads the
posts behind it with the user's own MTProto session (or with another account
the owner chose), downloads the media, and brings text and media into the
user's chat with the bot. Everything below shares one event loop: no two pieces
of code between awaits overlap, and everything that can go wrong goes wrong at
an await.

| component | files | state it keeps | operations | hard behaviour |
|---|---|---|---|---|
| Link handling | `TechVJ/save.py` (`save`, `_process_queued_item`, `stop_command`, `cancel_command`) | none of its own: the task that carries a link | admit, dispatch, complete, take the next; `/stop`, `/cancel` | `/stop` is four awaits long and meets links that start and end; the notice to the next link can fail; a handler can raise after it has delivered |
| Per-user link queue | `TechVJ/user_queue.py` | `is_processing`, `current_item`, `queue` per user | `enqueue`, `complete`, `clear_queue` | `clear_queue` resets the state under a running handler |
| Task manager | `TechVJ/task_manager.py` | cancel flag per user, registered tasks | `StopSafePipeline.__aenter__/__aexit__`, `check_cancelled`, `cancel_all_tasks` | the flag is per user, a pipeline per link; every start erases it |
| Priority queue | `core/priority_queue.py` | limits, slot counters and queues of the roles, worker tasks | `start`, `enqueue`, `set_limit`, pick, run | reservation against starvation, limits that change under running jobs, workers that die |
| Download worker pool | `core/downloader/worker.py` | task queue, slots per user, running downloads, cancel flags | `submit`, worker loop, `cancel_user_tasks`, scaler, `shutdown` | `/stop` at any await, slots that leak, workers that end |
| Download engine | `core/downloader/engine.py`, `resume.py` | files, part files, state files on disk; attempts of a download | `_handle_download`, `download`, `_stream_ram_buffer`, `_stream_to_disk` | resuming what another attempt, link or process left; calls that never answer; paths that users share |
| Premium upload sessions | `core/session_manager/*` | session records, slot counters, acquire times, flood times | selection, `try_acquire`, `release`, `mark_flood`, reclaiming, owner commands | counters cut under running uploads; rotation over sessions |
| Upload workers | `core/user_upload_worker.py` | registry of workers with a queue each | `get_or_create`, `enqueue`, loop, reaper, `remove_user` | reaper and `/logout` against an upload on its way into the queue; a lock held over a connect |
| Premium session pool | `core/premium_relay.py` | sessions, round-robin index, paused and disabled indices | `get_available`, `mark_flood`, `mark_fatal`, `set_sessions` | borrowers keep an index while sessions and workers change |
| Media delivery | `TechVJ/save.py` (loops over posts, `process_single_post`, `download_and_send_media`), `TechVJ/file_splitter.py` | local files, counts of sent and failed posts | fetch, download, split, upload with four fallbacks, copy, count, clean up | floods, lost answers and `/stop` in the middle of a file or of a split |
| Walks over posts, albums | `TechVJ/save.py` (`process_private_posts`, `process_topic_posts`, `process_thread_comments`), `TechVJ/album_collector_v2.py`, `core/bot_throttle.py` (`BatchController`) | position in the list of posts, albums seen, posts done, counts, errors in a row | detect, collect, load and send an album; jump behind it | a member that is reached on three ways; /stop between two photos; a walk that counts what it did not send |
| Text and entities | `core/text_renderer.py`, `smart_renderer.py`, `caption_splitter.py`, `utf16_utils.py` | | cut a text or caption, rebuild its entities, send the pieces | offsets in UTF-16 units against indices in characters; a cut in a link; a flood between two pieces |
| Topic extraction | `core/topic_extractor.py`, `core/topic_cache.py` | scans under way, the cached list of a topic | page by Search or by replies, merge with the cache, cut between two anchors, look up what is missing | messages that come and go between two pages, another request that writes the cache |
| Login and logout | `TechVJ/generate.py`, `qr_login.py`, `login_rate_limiter.py` | conversations, one future per chat, login slots, attempts and cooldowns of a user | questions and answers, slots, storing a session | conversations that share a chat's one future; questions that occupy the workers the answers need; slots given back on a dozen ways |
| User data | `database/*`, `core/session_store.py`, `core/mongo_*.py` | documents in MongoDB, rows in SQLite, `_USER_CACHE`, the list of failed writes and its file | `find_user`, `insert_user`, `update_user`, `background_sync`, `_flush_pending`, `startup_sync` | writes that reach MongoDB late, twice, out of order or never; a copy at the start while handlers run; a cache filled beside a write |
| Owner settings | `core/owner_settings.py`, `core/channel_monitor.py`, `TechVJ/owner_commands.py` | values and the keys not yet in MongoDB, in memory, in a file and in MongoDB; limits in force; the list of channels | commands, `sync`, `start`, the retry every minute, `apply` | commands that overlap with a restore; a write given up that arrives late; the list changed twice before its checkpoint |
| Forwarding of channel posts | `TechVJ/save.py` (3684-4077), `core/channel_monitor.py` | a lock per album, `last_forwarded_id`, losses of access | admit, copy alone or as an album, record, switch the channel off | handlers of several posts side by side against one number |
| Chat log | `core/chat_log.py`, `TechVJ/log_channel.py` | policy with a revision, queue, albums and users in a login, the last header; file and document of the policy | `submit`, the worker, `/logchannel`, `sync`, `start` | messages queued under one policy and forwarded under another; a text edited between the look and the forward; lost answers |
| Broadcast | `core/broadcast.py` | recipients, counts, cooldown | select, deliver with retries, progress, `/stop broadcast`, shutdown | retries against /stop, bans and floods of the progress message |
| Inactivity and clean-up | `TechVJ/inactivity_manager.py`, `cleanup_manager.py`, `clean_command.py` | time stamps, temporary files | soft stop, clean | clean-up against a running job |
| Throttles | `core/bot_throttle.py`, `rate_limiter.py`, `guards.py`, `flood_controller.py` | time stamps, windows | wait, record | overlapping floods |
| Other owner commands, reports, sending and copying, start-up | see `PROJECT.json` | caches | | mostly sequential |

How they interact, along a link: `save()` asks the user queue for admission
(shared state of one user), wraps the handler in a job of the priority queue
(message and future), the handler opens a pipeline of the task manager (shared
flag), walks over the posts, hands each download to the worker pool (message
and event) and each upload to a session manager worker, a pool session's worker
or its own (message and future). `/stop`, `/cancel`, `/logout` and the owner's
commands touch the same state from other tasks at any await. Login, broadcast,
the chat log and the forwarding of channels run beside this and share with it
the stores of the users and of the owner's settings, the dispatcher's workers
and the bot's client.

What makes each part correct:

* user queue: one link of a user in progress, the others waiting in order, none
  lost, none started twice; something moves the queue;
* `/stop`: no further post, at most one more piece of the post under way;
* priority queue: a slot per running job exactly, no starvation;
* worker pool: a slot per submitted task exactly, every submitter answered, a
  cancelled download yields nothing;
* download engine: a file that is handed over is the post's, and stays so until
  it is uploaded; a download ends;
* upload sessions: a slot per upload exactly, the limit respected, an upload
  with one worker of its own user, every upload answered;
* session pool: only sessions that misbehaved are taken out;
* delivery: each piece once, the truth told about it, no endless wait, nothing
  left on disk;
* user data: no write lost, the stores agree in the end, the cache is not behind,
  a logout stays a logout;
* walks: no post sent twice, none left out and not counted, the counts true, at
  most one more album after `/stop`;
* texts: what arrives is the whole text, but for markup where the library reads it,
  and every entity stands over the characters it stood over;
* topic extraction: a scan finds every message that was there throughout, and
  only messages of the topic; the cache does not claim more than it holds;
* login: a slot per conversation inside exactly, in the order of arrival; no
  answer into a conversation that did not ask; limits of a user, and the shorter
  wait that he was promised;
* owner settings: what was last set survives restarts, acts, and reaches MongoDB;
* forwarding: each post copied once, none passed over, a dead channel off;
* chat log: each message once, to the target in force, under its user's name,
  nothing of a login;
* broadcast: each recipient counted once and told once, nothing after `/stop`.

## 2. Modules and plan

| module | models | checked by | proofs |
|---|---|---|---|
| `SaveFlow` | link handling, user queue, task manager | `MCSaveFlow` | `Queues_proofs` |
| `PriorityQueue` | priority queue | `MCPriorityQueue` | `Queues_proofs` |
| `WorkerPool` | download worker pool | `MCWorkerPool` | `Downloads_proofs` |
| `Downloads` | download engine, resumable downloads, the files they leave | `MCDownloads` | `Downloads_proofs` |
| `UploadParams` | constants of the next three | | |
| `SlotPool` | session records, slots, floods, owner commands | | |
| `UploadWorkers` | worker registry, worker loops, reaper | | |
| `SessionUpload` | composes `SlotPool` and `UploadWorkers`: `upload_for_user` | `MCSessionUpload` | `SessionUpload_proofs` |
| `RelayPool` | premium session pool | | |
| `MediaDelivery` | composes `RelayPool` with the delivery of a link's posts | `MCMediaDelivery` | `MediaDelivery_proofs` |
| `UserStore` | a user's session in MongoDB, SQLite and the cache: `AsyncDatabase`, `SyncManager`, `/login`, `/logout`, the owner's commands | `MCStores` | `Stores_proofs` |
| `OwnerSettings` | the owner's settings and the list of channels in memory, file and MongoDB | `MCStores` | `Stores_proofs` |
| `LoginLimiter` | the limiter of logins: slots, cooldowns, hourly count, grant | | |
| `SlotQueue` | abstract specification: slots with a queue | | |
| `Login` | composes `LoginLimiter` with the conversations; implements `SlotQueue` | `MCLogin` | `Login_proofs` |
| `Texts` | cutting texts and captions, as operators | | |
| `PostWalk` | composes `Texts` with the walks over posts and their albums | `MCPostWalk` | `PostWalk_proofs` |
| `TopicExtractor` | scans of a topic and its cache | `MCChats` | `Chats_proofs` |
| `ChannelForward` | forwarding of a channel's posts | `MCChats` | `Chats_proofs` |
| `ChatLog` | the chat log | `MCChats` | `Chats_proofs` |
| `Broadcast` | broadcast | `MCChats` | `Chats_proofs` |

The modules were written in this order: first the flow of links, which every
request passes, then the two queues under it, then the upload sessions, then
what is done with a post, then the files of a download, then the stores of the
users' sessions; after these the login with its abstract queue, the topics, the
walks with albums and texts, the owner's settings, and what the bot does with
whole chats. `MCStores` composes the two modules that keep data in MongoDB,
`MCChats` the four about whole chats: each behaviour works on one of the parts,
which share no state, so that one run serves them all.

Left for later, in this order: the slot pool of the uploads as an implementation
of `SlotQueue` without its order; inactivity and clean-up beside a running job.

## 3. The models and the code

An action is what one task does between two awaits, or part of it where nobody
else can tell the difference. Python runs such a piece without interruption,
and none of the locks that guard it is held across an await (the one that is,
the lock of the worker registry, is modelled). Python objects that stand for a
task (a link, a job, a download) are model values with a program counter.
Contents (texts, captions, file names, chat ids) are left out; what a call to
Telegram may answer is a choice among the outcomes the code tells apart.

**SaveFlow.** `isProcessing`, `current`, `queue` are the fields of
`UserQueueState`; `cancelFlag` is that of `UserTaskContext`; `pc` says where
the task is that carries a link. `AdmitNow`, `AdmitLater`, `Reject` are the
outcomes of `enqueue`; `EnterPipeline` is `StopSafePipeline.__aenter__`, which
erases the flag; `BeginPost`, `PostDelivered`, `PostFailed`, `PostCancelled`
the loop; `HandlerReturns` (at its end, at the flag, or broken off behind a post),
`HandlerGivesUp` (before a pipeline or before its first post) and `HandlerRaises` the
ways a handler ends, the dispatcher's second run of a handler that raised among them
(`save.py` 4494); a link in `EscapesCancel` lets
its `CancelledError` out, so that the future of its job is never resolved; `Complete`, `Notify`,
`NotifyFails` the hand-over to the next link. `/stop` is `BeginStop`,
`RaiseFlag`, `ClearQueue`; `/cancel` is `BeginCancel`, `RaiseFlag`. `overtaken`,
`halted`, `resumed` and `late` are history.

**PriorityQueue.** Workers are anonymous and interchangeable, so an idle one is
only counted (`idle`), a busy one is its job (`running`). `Pick` is
`_pick_and_acquire` with its two passes, `Reserved` and `Spill`; `JobReturns`,
`JobFails`, `JobCancelled` are the ways out of `_run_job`, the last of which
ends the worker. A job may be enqueued again once its future is resolved.

**WorkerPool.** `Submit`, `Admit`, `Return` are the awaits of `submit()`;
`Start`, `Skip`, `DownloadOver`, `Finish`, `Cancelled` those of the worker
loop; `CancelUser` is `cancel_user_tasks`, `Scale` the scaler, `ShutDown`,
`TakeSentinel` and `IdleExit` the shutdown, and `ShutDownTimeout` its end, which cancels
the workers that are left, wherever they are.

**Downloads.** `file`, `part`, `saved` are the files `<path>`, `<path>.part` and
`<path>.state`; a file's content is a sequence of units, each with the post it
comes from. `Begin` is the start of `_handle_download`, `Found`, `Open` the
beginning of `ResumableDownloader.download` (with the cut to whole chunks),
`RamFetch`, `RamShort`, `RamFails` the answers to `download_media`, `DiskChunk`,
`DiskEnds`, `DiskFails` those of `stream_media`, with the retries inside
`_stream_download`; `Stall` is the watchdog, `Retry` the engine's next attempt,
`Upload` and `Cleanup` the end of the delivery. `Stop` cancels and removes the
user's directories, `Crash` is a restart, after which only the shared directory
is as it was, `SendAgain` the user who sends the link once more. `given`,
`spoilt`, `stopped` are history. Two users' streams to one public path at the
same time are left out: what two handles on one file leave is the operating
system's affair.

**SlotPool, UploadWorkers, SessionUpload.** `Borrow` is the scan for a session
with `is_available` on each candidate, which reclaims stale borrows on the way,
and `try_acquire`; `Release`, `MarkFloodAndRelease`, `GrowStale` are the other
changes of a counter, and `Register`, `Disable`, `Enable`, `Remove`,
`SetLimit`, `SetLent` the owner's. A worker is identified by the job that
created it and its session; `lock` is the registry's, held while a worker
connects. The phases of a job are the awaits of `_upload_with_session_loop`.
The reaper is assumed not to take a worker that was touched less than 600 s
ago, which is its limit; `/stop` never cancels the asyncio task of an upload, so
a job is not cancelled between its phases except where it awaits its answer.

**RelayPool, MediaDelivery.** Indices of the pool count from 1; `Gives(i, S)`
is `get_available()` when the indices in `S` may not be used. A job walks over
the posts of its link: `Begin`, `Fetch`, `SendText`, `Download`, `Ready`, then
one of three ways: `Direct` (premium users' big files), `Split`, `TakePart`,
`SendPart`, `CopyPart` (parts), or `Managed`, `Select`, `Create`, `CreateOwn`,
`Upload`, `Copy`, `Recreate`, `OwnSession`, `Ask`, `Poll`, `PollCreate`,
`GiveUp` (the session manager, then the pool with its fallbacks). `Settle` is
the end of a post in the three loops (private, public, bot links), which differ
in what they count, in when they break off, and in whether a flooded post is
taken again. An answer may be lost after the file reached the user
(`LosesAnswer`). `got`, `lost`, `late`, `torn`, `foreign` are history.

**UserStore.** `row`, `doc`, `cache` are a user's record in SQLite, in MongoDB
and in `_USER_CACHE`; `session` and `logged_in` are always written together, so
that a record is a session or `None`. A call is a handler: `/login`, `/logout`,
an owner who assigns or takes away a session, or any other that reads. Its places
are its awaits: `select`, `ask`, `mirror` those of `find_user` (`found` and `came`
stand between an answer and its caching, which is another turn of the loop),
`look`, `insert` those of `insert_user`, `clear`, `again`, `save` the wait for
SQLite in `update_user`. A login that writes a session goes through `check` and
`talk` first; how the user is asked is not modelled. `Issue` is
`background_sync`: the write is a task of its own (`flight`), may be applied
and not yet answered (`landed`), and on failure joins `pending` and `file`
(`Fail`). `flush` is the loop of `_flush_pending` over a list that may grow
under it. `Crash`, `Boot`, `SyncReads`, `SyncCopies`, `SyncFails`, `SyncEnds` are
the end of the process and `startup_sync`; handlers are served while it runs.
`LocalStorage` swallows what SQLite raises, so every use of it may fail
unnoticed (`SqliteFails`). MongoDB is taken to be configured: without it there
is nothing to bring in step. `issued`, `applied`, `dropped`, `cut`, `missed`,
`crossed`, `raced` and `cleared` are history; `Watch` notes `crossed` and
`raced` beside each step.

**OwnerSettings.** `values` and `unsent` are the settings and the keys that
MongoDB has yet to take, in memory; `store` is both in the file, `remote` the
document, `listing` and `mem` the list of monitored channels in its file and in
memory, `live` the limits in force. Two keys stand for the two ways of setting
something: "limits" for a value, "channels" for a file that a command changes
itself and `persist_owner_change` compares afterwards. A sync takes the lock in
the order of asking (`Acquire`) and awaits two answers (`FindAnswers`,
`FindFails`; `PushAnswers`, `PushClears`, `PushFails`); what it does between two
awaits is one action, `apply` and the checkpoint included. `ArriveLate` is a
write that `wait_for` has given up while the driver's thread goes on. `SetLimit`,
`SetChannel`, `Replied`, `ReplyFails` are a command, `AutoDisable` the automatic
switch-off, `Launch`, `StartSettings`, `Wake`, `Die` the process, `Move` another
host, which has only MongoDB. `wanted`, `spoiled`, `owed`, `enacted` are history:
what was last set, the keys that fall under an exception, whether a change of
the list is still without its checkpoint, and whether what was restored has been
applied. In `MCStores` a behaviour works on users' sessions or on the settings:
one half stays in its first state.

**LoginLimiter, SlotQueue, Login.** The limiter keeps time stamps; the model
keeps ages, each only up to the limit it is compared with, so that time
(`Tick`) may go on for ever. A conversation holds one of the dispatcher's
workers from its first line to its last, its questions included, and a message
needs a free one to be taken (`TakeUpdate`). `waiting` is `_waiting_users`: one
future per chat, so that a user's second conversation takes the place of the
first; `PhoneGiven`, `CodeRight`, `AsksAgain`, `PasswordRight` and so on are what
the answers do, `Scanned`, `ScannedLocked` (an account with a password, which is asked
for in the same conversation) and `NotScanned` the QR way, `AskFails` a question that
cannot be sent, `Probe...` the look at a session from before, `Link...` a link that meets an invalid session and is
granted a fast second login. `Ask` is `can_login`, with what it stores, `Record`
`record_attempt`, `Join`, `Take`, `Give` the semaphore. `SlotQueue` is what the
slots promise in the abstract, `Slots!` its instance in `Login` with the
limiter's queue and holders. `crossed`, `promise`, `gap` are history.

**Texts, PostWalk.** A text is a sequence of characters, each plain, wide (two
UTF-16 units), a space, a line break or a tick (a delimiter of Markdown), with marks
(entities: links, styles, spoilers, underlines, custom emoji) in units; slices
are in characters as in Python. `RenderWords` is `TextRenderer`, `RenderSmart`
and `SmartCaption` `SmartRenderer`, `SplitCaption` `caption_splitter.py`;
`IndexUp` and `IndexDown` are the two ways in which the code turns units into
characters. What the code does in a loop over what is left of a text or over its
segments is one recursive function, `Cut`, for all of them: a table gives for each
place what is made of the text there and where the next piece begins
(`SegmentFrom`, `Fill`, `CutWords`, `CutHard`, `CutCaption`). The segments gathered
for a piece are not kept as a list: they are those from where it begins to the
last one that fits (`Fitting`). A piece of a topic or of comments that needs no cut, has
no link and is short enough (`AsMarkdown`: `_detect_mode`, with the shorter limit for
complex texts) is written with markup in place of its entities, and so are the plain
slices and the captions of photo albums that carry a string only; the library reads
what it finds there (`Marked`, `CaptionMarked`, noted in `parsed`), also in the ticks
of the text itself. `Received` is what the user then sees of a piece (`Seen`): without the
ticks, with the entities that the delimiters make as they pair up (`Paired`),
or, in a text without ticks, with the entities that were written. `PostWalk` walks over a link's posts: `TakeNext`, `Detect`,
`Collect`, `LoadAlbum`, `CheckAlbum`, `SendAlbum` for private ranges, `Fetch`,
`Group`, `LoadPhotos`, `SendPhotos`, `SendEach`, `NextMember`, `SendMember` for
topics and comments, `StartSingle` and `Deliver` for what stands alone,
`SendText` and `SendOverflow` for the pieces of a text or of a caption too long.
Each loop looks at the flag where the code does (`Heeds`, `HeedsNothing`). Photos
of an album go out through the user's own session, so that nothing has to be
copied afterwards. An album that `get_media_group` did not show when its first
member was visited is seen only at a later one (`BlurLimit`). A private walk goes over
a range of message numbers, upwards; the comments are sorted by number (`InOrder`);
a topic comes as it was found, each post once; and a post that was deleted shows no
album. `PostWalkAssumption` says so of the links, and that albums with words are
photo albums or single posts of private ranges: captions of albums in topics and
comments are not modelled. The pieces of a
text are sent again from the first after a flood, as the code does. `read`,
`got`, `lost`, `late` and `blurred` are history.

**TopicExtractor.** Messages are numbered in time; `Id` gives their ID, which
need not grow with it in a topic that was merged or moved. An action ends where the code
awaits a page: `BySearch`, `ByReplies` (with the change from one to the other in
`SearchBreaks`), `Serve`, `Prefix`, `Collected`, `Between`, `FetchAnchors`,
`Probe`. `cache` is the topic's entry, `Arrive` and `Delete` what other people
do meanwhile. `there` and `slid` are history: what was there throughout a scan,
and whether a deletion has moved the pages under an offset, so that a message
slid from a page to come into one already read. `_hit_cache_boundary` is never
reset within an extractor, as in the code (`hit`).

**ChannelForward.** The handler of a post is at its `spot`: `Admit`, `Text`,
`LookUp`, `Gather`, `WholeAlbum`, `FallsApart`, `Part`, `PartsEnd`, `Single`,
`Record`. A lock is taken in the order of asking, without a yield when it is
free, so that `Announce` and the first look are one step. `toggle_channel` never
yields: the third loss of access, which every call from the look at the post on may
tell, and the switch-off are one action (`LoseAccess`). A flood inside a mixed album falls back to single posts (what was being
sent when the process ends may still arrive, as it does for photos: `Sending`), a post
that failed is never tried again, the last check drops the rest of an album that
failed, and the count of losses stays over its limit when a channel is removed
and added again, so that it is never switched off after that (`anew`).

**ChatLog.** `submit` runs in the task that writes (`Write`, `Echo`, `Edit`) and
decides there; what it queues carries the revision of the policy. One worker
takes an event (`Take`), drops it in a cooldown (`DropInCooldown`), takes the
lock (`WorkerLocked`), looks again (`Look`), sends the header (`Header`) and
forwards (`Forward`); `CallFails` and `Flood` are what a call may come to, an
answer that is lost after Telegram did its work included. `/logchannel` is
`Validate` and `Save`, which reads the policy before it validates; the store of
the policy is `Find`, `Push`, `SyncFails`, `LateWrite`, `Minute`, with
`StartLog`, `Down` and `OtherServer` around it. A status message has versions:
1 is progress, which is not to be logged, 2 the result. `blurred`, `slipped`,
`spoiled`, `private` and `chosen` are history.

**Broadcast.** `_run` reads the rows of both databases (`Row`, `RowsEnd`,
`RowsFail`), takes the recipients in turn (`Turn`), waits at the gate
(`ToGate`, `GatePasses`: the delay is computed once) and sends (`Reaches`,
`Sent`, `Unsent`, `Refused`, `Flooded`, `Transient`, `Halted`). A user may stand
in two rows; a ban is looked at when the rows are read and when the turn comes.
`CancelJob` is `/stop broadcast`, `Kill` the shutdown of the process,
`ProgressFlooded` a flood met by the progress message, which all attempts are to
heed. `got`, `lost`, `met`, `after` are history.

## 4. Runs, bounds and fairness

| run | what it checks | bounds | distinct states |
|---|---|---|---|
| `sf_safety` | queue and flag of a user (`QueueSound`, `LinksInTurn`, `StopHoldsUntilReset`); `QueueMoves`: a waiting link is started or cleared | 3 links of one user, one of which lets the cancellation out of its handler, 1 post, queue of 1, one `/stop`, one `/cancel`, one raising handler, one failed notice | 860 816 |
| `pq_safety` | slots, jobs, workers (`PoolSound`); `NoStarvationWhileHealthy`: a bucket that keeps having work is served again and again, while no worker has died and the limits are the first ones | 5 jobs of all roles, one of them banned, limits 1 or 2, one job that ends in `CancelledError` | 165 238 |
| `wp_safety` | slots, queue (`PoolExact`), cancellation (`CancelledYieldsNothing`); `SubmitReturnsUnlessStopped` | 3 tasks of 2 users, 2 of 3 workers, a `/stop`, a scaling step, a shutdown | 128 157 |
| `dl_safety` | `FileIsWhole`, `PrivateFilesIntact`, `DownloadEnds` | a private link (3 units, streamed in chunks of 2) and a public one (1 unit), 2 failing calls, a `/stop` or a restart, 2 attempts, 2 tries, a new file id | 344 567 |
| `dl_shared` | finding: `FilesIntact` fails | two public links with one file name | |
| `su_safety` | `SlotCount`, `UploadSound` (`WithOneWorker`, `SenderIsolation`); `UploadEnds`: every upload is answered unless its user logs out | 2 jobs of 2 users, or of one and no owner command, a lent and a global session, limits 1 or 2, a flood, a stale borrow, an owner command, a `/logout` | 543 081 |
| `md_safety` | `EachOnce`, `CountedRight`, `OneMoreAfterStop`, `OnlyGuiltyPaused`, `JobEnds` | one job with each way its files can go, 2 posts, 2 parts, 2 floods, a lost answer, a `/stop`; or two jobs that share a pool of two sessions, with a flood and a reload | 550 706 |
| `lg_safety` | `SlotsSound`, `LimitsKept`, `QuestionHeard`; `SlotsInOrder`: the limiter implements `SlotQueue` | two conversations of one user by phone, one of another by QR code, links of the first; 3 workers, 1 slot, an attempt an hour, cooldowns of 1 and 2, an hour of 3, 2 tries, 1 message waiting; symmetry on the first two | 1 478 956 |
| `lg_grant` | finding: `GrantHonoured` fails | as `lg_safety` | |
| `pw_walks` | `PostsSound` (`AlbumsOnce`, `FullAccount`), `OneAlbumAfterStop`, `WordsKept` | 9 ranges of up to 5 posts with albums at their start, end and middle; 1728 texts and captions, with links, styles and ticks, messages of 4 units, captions of 2, a header of 1, Markdown for texts of at most 4 units, captions of 2 and complex texts of 2; 2 floods or failures, 2 lost answers, a blurred album | 2 571 630 |
| `us_safety` | `NoWriteLost`, `CacheFresh`; `StoresAgree`: row and document come to agree, unless writes crossed, were given up or cut, or SQLite failed; `SettingsSound` (`SettingsKept`, `InForce`), `ReachesMongo` | one user, two or three calls and up to 3 faults (failing requests, lost answers, ends of the process), 2 flushes of an entry; two limits of one role and one of another, or the list of channels, with up to two commands, 2 launches and 3 faults (`MCCases`) | 449 740 |
| `tx_safety` | `TopicSound`, `ForwardSound`, `LogSound`, `CastSound`, `PostsAsConfigured`, `WorkEnds` | topic: 2 requests, 5 messages with one of another topic and IDs out of order, pages of 2, a deletion, Search blind to one; forwarding: albums of photos and of both kinds, a text and a video, limit 3, up to 3 troubles, an owner's order, a restart within a half-copied album (`MCForwardCases`); log: 10 cases of messages and orders (`MCLogCases`), queue of 2, 3 attempts, up to 2 launches and 3 faults; broadcast: 4 rows of 3 users, 3 attempts, up to 2 jobs, a `/stop`, a ban, 3 errors | 699 957 |

Why these bounds are enough to show what the runs are for: every hazard in
`PROJECT.json` needs at most two of the actors above and one or two of the
bounded events, and every property has a mutant, a plausible slip in one of the
definitions, that breaks it within the same bounds. Three links make one
running, one waiting, one rejected; two slots and three jobs make one wait; two
sessions make one to flood and one to go on with; two conversations of one user
contend for his future, a third for the slot. Five posts hold an album with a
post on either side, or two albums. Texts of more than four units are cut, captions of more than two
twice, and a cut may fall before, within and behind an entity or a wide
character; two ticks make an entity that the post did not have. One post for a link
is enough for `sf_safety`, whose properties do not look at what is left of it (with two
posts its safety properties hold as well, over 11 732 584 states, which takes longer
than the run may). Retry limits are smaller than
in the code (`CreateTries`, `UploadTries` 2 for 5 and 10, `PartRetries` 1 for 3,
`ErrorLimit` of a job 2 for 5, of a walk 3 for 5): what counts is that a loop
goes round more than once and
then gives up; the same holds of `MaxAttempts` and `StreamTries` (2 for 5 and 5)
of a download, and of `MaxRetries` (2 for 10). One user is enough for
`UserStore`, whose users share nothing but the list; its proofs are for any
number. Two units to a chunk make a chunk that can be written in half.
In `MCStores` and `MCChats` one behaviour works on one part only: the parts
share no state, so that no behaviour of either is lost.
Deadlock is not checked where the system may come to rest, because nobody sends
anything; in the priority queue, whose handlers may send for ever, it is.

Fairness:

* SaveFlow: weak fairness of the task of each link and of a `/stop` or `/cancel`
  that has begun. Calls to Telegram return or time out (Pyrogram's own time
  limit), and the loop resumes a ready task. A user need not send anything.
* PriorityQueue: weak fairness of the start and of the end of each job; strong
  fairness of picking from a bucket, because idle workers poll
  (`asyncio.sleep`) and a bucket that is again and again eligible will be
  looked at; a handler's next link is not assumed.
* WorkerPool: weak fairness of admission (`submit` polls), of the return after
  the event is set, of each worker, and of the scaler's loop.
* Downloads: weak fairness of the engine's own steps and of the watchdog, which
  looks every five seconds. No call to Telegram is assumed to return, none of
  the user's steps to be taken.
* SessionUpload: weak fairness of each job and each worker loop. Nothing of
  users, the owner, the reaper and the end of flood waits. A connection attempt
  is assumed to end.
* UserStore: weak fairness of each handler, except while it waits for the user;
  of the delivery of writes, the flush and `startup_sync`. MongoDB answers or
  fails, and the retry loop sleeps a minute and comes round. Nobody has to send a
  command, and nobody has to start a process that has ended.
* OwnerSettings: weak fairness of the sync under way, whose calls have a limit of
  five seconds, and of the retry task's minute.
* MediaDelivery: weak fairness of each job. Pauses need not run out, the user
  need not answer, the owner need not do anything.
* ChannelForward: weak fairness of the handler of each post; no post has to come.
* ChatLog: weak fairness of the worker, of the end of a cooldown, of an order that
  has been given and of a sync under way. Nobody has to write or give an order.
* Broadcast: weak fairness of `_run` and of the end of a flood.

Five configurations are kept for use by hand, because they need constants of
their own; but for one they show what the code does where it departs from what one would
expect, and the properties they refute are stated in the modules:

| configuration | module | shows |
|---|---|---|
| `SaveFlowDuplicate` | `MCSaveFlow` | `NoDuplicatePost` fails: when a handler raises after it has delivered posts, the dispatcher runs the whole handler again outside the priority queue (`save.py:4494`) and the posts are sent twice; `OneRerunAtMost` states what does hold |
| `SaveFlowStopLost` | `MCSaveFlow` | `StopHalts` fails: a pipeline that starts after `/stop` erases the flag (`task_manager.py:358`) |
| `WorkerPoolGrowth` | `MCWorkerPool` | `WorkersBounded` fails: the scaler overwrites the number of workers (`worker.py:487`) |
| `SessionUploadLive` | `MCSessionUpload` | `UploadEnds` holds for three jobs on one session with two slots, so that one waits, with a `/logout` |
| `DownloadsSeries` | `MCDownloads` | `NoForeignPart` fails: a part file left by one post is continued for the next of the same name and directory; only the state file has a file id (`resume.py:229`) |

The other statements of this kind need no configuration of their own: each is
refuted as the only property of the one named here, as an invariant or, where it
is temporal (P), as a property.

| statement | with | shows |
|---|---|---|
| `CancelEmptiesQueue` (P) | `SaveFlow.cfg` | `/cancel` is "Redirect to /stop" but leaves the queue (`save.py:4282`) |
| `OneDownloadPerUser` | `SaveFlow.cfg` | "Ensures one download at a time per user with queue support" (`user_queue.py:4`), but `clear_queue` marks the user idle at once (192) while the stopped handler leaves its loop only after its post, so that a link sent in between runs beside it |
| `QueueAlwaysMoves` (P) | `SaveFlow.cfg` | the queue stands still when the notice to the next link fails (`save.py:4686`), or a handler that lets its cancellation out leaves the future of its job unresolved |
| `NoStarvation` (P) | `PriorityQueue.cfg` | "Slot reservation prevents starvation" (`priority_queue.py:5`), but `_run_job` catches only `Exception` (182): a job that ends in `CancelledError` ends the worker |
| `EverySubmitReturns` (P) | `WorkerPool.cfg` | `/stop` cancels the asyncio task of a running download, and the worker that awaits it takes the `CancelledError` for its own (`worker.py:455`) and ends; when all have ended and the queue is too short for the scaler, a submitted download waits for good |
| `LimitRespected` | `SessionUpload.cfg` | an upload of more than 600 s is taken for a stale borrow (`borrow_manager.py:90`) and its slot is given away; `mark_flood` (147) does the same |
| `QueueDrained` | `SessionUpload.cfg` | an upload queued behind the sentinel of a worker that `/logout` stops is never answered (`user_upload_worker.py:437`) |
| `SplitKeepsAll` | `MediaDelivery.cfg` | `split_video_ffmpeg` only logs a part that ffmpeg fails to cut (`file_splitter.py:509`) and returns the others; they are numbered anew and the post counts as sent |
| `DownloadAccountNeverUploads` | `MediaDelivery.cfg` | "The download account (``acc``) never uploads" (`_album_upload_session`), but both split paths send through `acc` (`save.py` 7675, 8020) and a small file whose own session blocked the bot goes through `acc.export_session_string()` (8335) |
| `NothingLeft` | `MediaDelivery.cfg` | "GUARANTEED CLEANUP" (`save.py:8779`), but what a failed split has written and the thumbnail of a part that raised stay for public and bot links |
| `CacheSafe` | `Stores.cfg` | "local-first - cache is safe longer" (`async_db.py:11`), but `update_user` drops the cached record before SQLite is written, and a `find_user` that has read the row fills the cache again with the old session for ten minutes |
| `LogoutLasts` | `Stores.cfg` | see section 5 |
| `LoginsBounded` | `Login.cfg` | "Allow max N concurrent logins" (`login_rate_limiter.py:14`), but a QR login takes no slot |
| `CooldownKept` (P) | `Login.cfg` | "Enforces cooldown between logins" (`login_rate_limiter.py:96`), but two logins that passed the check wait for the semaphore side by side |
| `EveryQuestionHeard` | `Login.cfg` | a second conversation of the user takes the chat's one future (`generate.py:96`) |
| `FreshKept` (P) | `Login.cfg` | a session is cleared because an older one turned out to be invalid |
| `SomeoneListens` | `Login.cfg` with `Workers = 2` | as many conversations as workers, and no worker takes the answers they wait for |
| `RangeExact` | `Chats.cfg` | see section 5 |
| `RangeWhole` | `Chats.cfg` with `Requests = {r1, r2, r3}`, `Foreign = {}`, `Wants <- MCRanges`, `PageLimit = 1`, `Present = 5`, `DeleteLimit = 0` | a range that the cache answers, or whose second scan ends at its boundary, may miss messages between its anchors |
| `EveryPostCopied` | `Chats.cfg` | see section 5 |
| `CooldownShared` (P) | `Chats.cfg` | see section 5 |
| `AlbumsWhole`, `StopsAfterErrors`, `FinishesBatch`, `Hollow`, `EntitiesPreserved`, `NothingEaten`, `PiecesFit` | `PostWalk.cfg` | see section 5 |

`ConversationEnds` (every login comes to its end, though conversations sit on the
workers) is too large for the three conversations of `Login.cfg`; it holds, under
`LoginFairSpec`, for two conversations of two users before two workers.

## 5. What the runs found

* `dl_shared`: "Each user has isolated task management and temp directories"
  (`task_manager.py:74`), but links to public channels and bots have no directory
  of their own (`save.py:7498`). Two users whose posts have files of one name
  replace and remove each other's file between the download and the upload.
  `PrivateFilesIntact` states what does hold, of private links.
* `lg_grant`: a user whose session proved invalid is told that he may log in again
  after a minute (`save.py:516`; `login_rate_limiter.py:204`), but
  `time_until_can_retry` drops the override once its time has come
  (`login_rate_limiter.py:79`) and goes on with the full cooldown: he is turned away when
  the minute is over, whatever he does. `LimitsKept` states the other half of the
  promise, which holds of the code as it is and would hold of one that honours the
  grant: no attempt comes before the cooldown is over or the minute that was granted,
  and no more of them in an hour than the limit.

Refuted by hand, as section 4 says:

* `LogoutLasts`: "SQLite is the primary source of truth" (`async_db.py:147`), but
  `startup_sync` copies MongoDB over SQLite (`sync_manager.py:184`). A `/logout`
  that is served while the bot starts, whose write was under way when the process
  ended, or whose write waits in the file (it is flushed after the copy, into
  MongoDB only), is undone: the row holds the session again. `StoresAgree` states
  what does hold, and names the exceptions.
* `AlbumsWhole`: the collector answers "True if all photos downloaded
  successfully" (`download_album_photos`), but photos that fail are left out, two
  are enough, and the album counts as done.
* `StopsAfterErrors`: "5 ta ketma-ket xato → batch to'xtatiladi" (five errors in a row
  stop the batch, `bot_throttle.py:420`), but an exception that reaches the loop is
  counted and the loop goes on without a look at the count.
* `FinishesBatch`: `BatchController` is to be used with `finally: batch.finish()`
  (`bot_throttle.py:433`); a walk that is left by a return or a cancellation leaves
  the user active.
* `Hollow`: a photo album may count as sent although none of it has reached the user.
* `EntitiesPreserved`: `send_text_message` "Auto-splits for 4096 char limit while
  preserving entities", but entities that lie within or across others are dropped
  when a text is cut.
* `PiecesFit`: "each ≤ 4096 UTF-16 units", but a header is put before a piece that
  is already full, a cut within a wide character is rounded up, and a formatted
  segment longer than a message is left as it is. Telegram refuses the piece, and
  the fallback sends it plain or loses it.
* `NothingEaten`: reconstructed texts and captions are to go out in entity mode
  (`smart_renderer.py:20`) and comments with "NO MARKDOWN" (`save.py:5284`), but
  `render` writes short ones without links as Markdown (`smart_renderer.py` 426, 471), and
  an album's caption is a string that the library parses (`album_collector_v2.py:639`): a
  text's own `**`, `__` or backticks vanish and make entities. `TextKept` and `MarksKept`
  say where that may happen and that nothing else is lost or invented.
* `RangeExact`: a range is to be "the chronological topic slice between two anchor
  message IDs" (`topic_extractor.py:695`), but when an anchor is not in the list that
  is cut, the cut goes by message IDs, which need not follow the time, and takes in
  messages outside the range. `ScanExact` and `CacheTruth` state what does hold.
* `EveryPostCopied`: the monitor copies new posts automatically
  (`channel_monitor.py:6`), but the handler of a later post that is through first
  moves `last_forwarded_id` past an earlier one, which is then taken for old.
* `CooldownShared`: "All attempts share a 4/s gate and full FloodWait cooldown"
  (`broadcast.py:141`), but the gate computes its delay once (218), and a flood
  that the progress message meets in the meantime does not hold the delivery up.

Exceptions that a property names because the code does so:

* `FileIsWhole` leaves out a path under
  which two users or two posts put their files (`Unshared`), and a stream that is
  resumed at once behind a chunk written in part (`spoilt`), which the retry inside
  `_stream_download` (`resume.py:330`) does not cut off as the next attempt would.
* `SettingsKept` and `InForce`: the retry's `apply` overwrites the file of a
  command that awaits its reply; `/addchannel` during the start, with nothing in
  memory yet, wipes the other channels; a limit set before the restore drops those
  of the other roles; a reply that fails skips the checkpoint, and a restart then
  undoes the change, an automatic switch-off among them; settings that a command's
  own sync restores, or a retry with the status "pending", are stored and never
  applied; a write given up after five seconds may still arrive, over a newer one,
  and a retry that then insists on what MongoDB says leaves limits in force that
  the settings no longer name. Without `spoiled` and `owed` `SettingsKept` is
  refuted; with `restored` in place of `enacted` `InForce` is.
* `LogSound`: after a header whose answer was lost, messages of another user stand
  under it (`blurred`); a status message that is edited between the look and the
  forward goes out with its progress (`slipped`); a policy that moved to another
  server before it was in MongoDB, or that a late write overtook, is lost
  (`spoiled`); what a user writes in a login is kept out only if the log was on
  when the login began and no link came in between.
* `ForwardSound`: posts announced behind a later one, albums with a failure, albums
  that fell apart into single posts, channels removed and added again, and what a
  restart interrupted: the post under way may have arrived, and its album, of which
  a part has been copied, is copied anew from the start (`apart`); posts between the
  members of an album (`Enclosed`) are behind `last_forwarded_id` once it is copied.
* `TopicSound`: a deletion while Search counts pages moves a message past the
  scan, and the list is remembered as complete (`slid`).
* `PostsSound`: an album that was seen too late is sent again as a whole, posts
  between the members of a photo album are jumped over with it, and a retry after a
  flood sends again what it had sent of the pieces.

## 6. Theorems and proofs

Each `_proofs` module has the same layout: lemmas on sequences and counting
first, then an inductive invariant whose first conjunct is the type
invariant, one lemma per action (or group of actions) that preserves it, and
the theorems of the form `Spec => []Inv` from them by temporal logic. The
assumptions are the named `ASSUME`s of the modules; they say what kind of
values the constants are and that sets of jobs, tasks and users are finite where
they are counted. The type invariants are proved and are no properties of the
runs.

* `Queues_proofs`, of the flow of links — `TypeCorrect`, `NoLinkLost` (`QueueSound`),
  `OneLinkInProgress`, `RetryBounded`, `LinksTakeTurns` (`LinksInTurn`, from these
  two), `StopHolds`: all safety properties of the
  flow, for any users, links and bounds. The strengthening relates the program
  counter of a link to the queue it may stand in and the loop position to the
  posts delivered. Of the priority queue — `PQTypeCorrect`, `PoolIsSound`
  (`PoolSound`: slots
  counted exactly, no job lost, a worker for every free slot). That slots are served needs that
  there are at least as many workers as slots while none has died: `set_limit`
  tops them up and never takes one away.
* `Downloads_proofs` — `TypeCorrect`, `PrivateFiles` (`PrivateFilesIntact`),
  `FilesAreWhole` (`FileIsWhole`). For the private files, the strengthening has two
  parts: a user has one download under way (`Serial`), so that whoever else
  knows a private path is at rest, and a stream to disk has its path for itself
  (`Exclusive`), so that its part file is there. That the directories of a
  private link are its user's is an assumption on the constants
  (`get_user_temp_dir` puts the user's id into the name). For the whole files, of
  paths that one post has for itself, the invariant says what lies on disk at every
  step: a file or part file is a beginning of the post's file, and a state file that
  has outlived its part file claims no chunk (`FilesGood`); a stream to disk goes on
  where its part file ends and one through memory begins with none (`StreamGood`);
  what was handed over is whole (`GivenGood`). Stops, restarts and other attempts of
  the same post at any place leave all three. Of the worker pool below the engine —
  `PoolTypesHold`, `NothingLeaks` (`PoolExact`), `CancelIsFinal`
  (`CancelledYieldsNothing`): the strengthening says which statuses and events go
  with each place of a task.
* `SessionUpload_proofs` — `TypeCorrect`, `CountsFollow` (`SlotCount`),
  `EachWithOneWorker`, `SendersIsolated`, `UploadsInPlace` (`UploadSound`, from
  these two). The invariant has five parts: types;
  slots (the counter is at most, and outside `shaken` exactly, the number of
  holders; every counted borrow has a time stamp or is shaken); the match of a
  job with its worker and session; the lines of the workers (a job is in one
  queue or one pair of hands); and that the worker a job holds is still there.
* `MediaDelivery_proofs` — `TypeCorrect`, `EachPieceOnce` (`EachOnce`),
  `TruthIsTold` (`CountedRight`), `OneMorePiece` (`OneMoreAfterStop`),
  `OnlyTheGuilty` (`OnlyGuiltyPaused`). The invariant says of each job which of
  its pieces may have been delivered, given where the job is (`Ahead`, `OpenFits`,
  `PartsFit`, `EndFits`, `Counted`), what may have come after `/stop` (`LateFits`,
  `OneLate`), and what its index of the pool stands for (`Borrowed`, `OwnAccount`,
  `RouteFits`). The steps of a job are summarised first, as walks that deliver
  nothing, a whole post that comes, a part that comes or is lost, a cut, and the
  end of a post, so that the invariant is proved for six kinds of step and not for
  thirty actions.
* `Stores_proofs`, of the users' sessions — `TypeCorrect`, `WritesAreKept`, `CacheIsFresh`. For the
  writes, the strengthening says that the file is what the list is while the
  process runs (`FileCurrent`), that nothing is under way while it does not
  (`DownEmpty`), and that what a flush has passed it has kept, brought to MongoDB
  or given up (`FlushKeeps`), so that replacing the list loses nothing. For the
  cache, it says of each user who races with nobody what its calls know (`Good`):
  a record that was read is still the row's, a call that waits for SQLite has an
  empty cache before it. Of the
  owner's settings — `SettingsTypesHold`, `SettingsAreSound` (`SettingsSound`). The
  invariant says what the copies have to do with each other: the file and the memory
  of a running process agree, save for a list that is older than the settings
  (`FilesAgree`, `Lifetime`, `ListSeeded`); only the holder of the lock reads or
  writes MongoDB, and writes what is pending (`LockHeld`); "synced" is said when
  nothing is (`SyncedIsSent`), and what is not pending is what MongoDB has
  (`MongoKnown`); what the owner last set is what a restart would find
  (`OwnersWord`). What is in force is the list and the limits of the values once the
  commands that wait for the lock have come through (`ListHasFile`, `ListInForce`,
  `LimitsInForce`).
* `Login_proofs` — `TypeCorrect`, `NoLoginSlotLeaks` (`SlotsSound`),
  `AnswersAreHeard` (`QuestionHeard`), `LimitsAreKept` (`LimitsKept`), and `LimiterIsSlotQueue`: every behaviour of the logins, seen
  through the limiter's queue and holders, is one of `SlotQueue`. The invariant
  adds to the properties what goes with each place of a conversation (`AllFit`),
  that who stands in the queue waits and stands there once (`QueueFits`), that a
  command in the inbox is there once and not yet taken (`InboxFits`), that a user with two
  conversations at once has been noticed (`CrossSeen`), that whoever was let on
  keeps his room in the hour (`AllRoom`), and that the history of a user's
  attempts is the limiter's clock (`SameClock`).

* `Chats_proofs`, of the broadcast — `BroadcastTypes`, `BroadcastIsSound`
  (`CastSound`), for whoever the databases list and however many attempts: the
  recipients are distinct users of the rows read (`Selected`), everybody before the
  one whose turn it is is counted at most once, exactly once while nobody has
  cancelled, and only the one whose turn it is may have something under way. Of the
  forwarding — `ForwardTypesHold`, `ForwardIsSound` (`ForwardSound`), for any
  posts, albums, orders and restarts: a lock has one holder, whose post is of its
  album; who has worked for an album has handled all of it (`Served`); `last_forwarded_id`
  is never past a post that nobody handled, but for those it encloses (`LastServed`,
  `NonePassedOver`); a post has at most the copies that the handlers of its album
  have made (`CopiesBounded`), and one while the album holds together (`OneRound`).
  That an album has a last post is an assumption on the constants; that a set of
  posts has a first and a last one follows from the library's theorems on `<`, which
  need no operator to instantiate. Of the chat log — `LogIsSound` (`LogSound`), `LogObeysPolicy`
  (`PostsAsConfigured`): whoever calls has the lock, and nobody does while the process
  is down (`Holding`, `Awake`); what the worker is at belongs to the revision, and so
  to the policy, in force (`InForce`); a message is noted in `_seen` before it is
  queued, queued once, and taken before it is posted (`Unrepeated`, `PostedOnce`); the
  header that the worker remembers is the last one in the chat (`Headed`); what was
  answered in a login is not in the queue (`Discreet`); and a policy that is not
  pending is in the file and in MongoDB (`Stored`).
  Of the topics — `TopicIsSound` (`TopicSound`), for any
  messages, IDs, page sizes, requests and faults. The invariant says of a scan that
  whatever was there since its beginning and has not been seen is still to come
  (`PageFits`): Search has it behind the offset of the next page, which is true as
  long as no message vanishes while pages are counted, since those that arrive only
  push it further back; GetReplies has it below the message at which the next page
  begins. Of a scan that is over it says that nothing is missing, or that both anchors
  have been passed and what is missing lies outside them, or that the cached list ends
  it; and of an entry, in the cache or in a request's hands, that what a complete list
  lacks is newer than its last message (`LacksNewer`), so that merging what a request
  found with what it read when it began is right although others have written the
  cache in the meantime. `SpotFits` is what a list may hold, `DoneFits` what a result
  does. That a page holds the newest of what is left (`PageDown`), that cutting it at
  a boundary drops older messages only (`BoundaryCuts`), and that the slice between two
  anchors of a sorted list is all that lies between them (`SliceFits`) are lemmas on the
  order of numbers; `ByDate`, `Newest` and `Only` choose by rank what the code sorts,
  so that they can be reasoned about.
* `PostWalk_proofs` — `PostsAreSound` (`PostsSound`), `OneMoreAlbum`
  (`OneAlbumAfterStop`), for any links, posts, albums, floods, losses and albums not
  seen. The invariant says what a walk may have at each place (`Placed`); that a post
  it has still to come to has not been sent (`PrivateFits`, `OthersFit`); that a post
  behind it is counted or excepted, save the one at hand (`AllTold`); that the counts
  are true (`TruthFits`); and what may have come since `/stop` (`LateFits`). That a
  post passed is never at hand again rests on the order: its numbers are distinct, and
  a jump over an album leads past its last member. A jump is a choice of the first
  place past a number, which exists by well-founded induction on `<`. As for the media,
  the steps are first sorted into kinds (`KindOfStep`): those that bring nothing, those
  that bring a post or photos, and those that count the post and move on.
  Of the texts and captions — `WordsAreKept` (`WordsKept`), for any characters,
  entities, limits and headers. The lemmas about `Texts` go from the units up: a
  piece of text has as many units as its parts, an entity begins and ends at
  characters (`MarkSpans`), segments make up the text without a gap
  (`SegmentsAre`, `ExpandedAre`), and a step of each way of cutting makes a piece
  whose entities are honest, loses nothing visible, and takes a link that fits whole
  or leaves it to a later step (`GoodStep`: `FillIs`, `CutCaptionIs` and their like).
  What `Cut` makes of good steps is the whole text (`CutIsWhole`, `CutMeets`): its
  function is unfolded at one place after the other, and a place where the statement
  fails leads to one further on, so that a last one is a contradiction. This
  induction is over places, numbers, and needs no operator to instantiate. In the walks, what has been
  read and what is still to be sent tell the whole text wherever words are under way
  (`WordsFit`), in order unless a flood made the walk begin again, without the
  entities once it fell back to plain slices; and a post whose words are about to be
  begun is not yet counted as sent (`NotYet`), for which this invariant needs the one above.
  Pieces in which the library reads markup have no links and are none that go out
  literally (`MarkupFits`), so that what they lose is delimiters only.

Some attempts failed for good reasons and changed the models. `CopiedOnce` of
`ForwardSound` was false of a mixed album that a restart met half copied, a
case the run did not have; it has now, and the exception is stated. `InForce` was
false of a late write that an insisting retry takes over, and the run has that case,
too. That an album has a last post, which the code takes for granted, is now an
assumption on the constants; and so is that a link lists no post twice and that deleted
posts show no album, on which the proofs about the walks rest. `Texts` was
written with recursive operators on sequences of segments, about which nothing can be
proved here, and is a function over places now. That a caption belongs to a private
walk where there is an album was true of the run's links only, and is an assumption.

Only model-checked: every liveness property (`QueueMoves`, `NoStarvationWhileHealthy`,
`SubmitReturnsUnlessStopped`, `DownloadEnds`, `UploadEnds`, `JobEnds`,
`StoresAgree`, `ReachesMongo`, `WorkEnds`), because liveness under fairness is out
of the prover's reach. Every safety property of the runs is proved.

## 7. What is not modelled

`PROJECT.json` lists every component with its status. The map covers a minor part
of the tree's lines: the rest are, for the most part, reports
(`userdata_reports.py`, `userdata_command.py`, `owner_commands.py`), tables of
texts in several languages, wrappers around single calls to Telegram
(`safe_send.py`, `repost_router.py`), progress messages, and earlier designs that
no handler of the running program calls (`core/download_manager.py`,
`TechVJ/pipeline_v2.py`, `core/downloader/adaptive_engine.py`). They hold no
state that other parts read, or are not executed. Left out of parts that are
modelled:

* roles, bans and forced subscription, which decide whether a handler runs;
  throttles, which only delay; inactivity and clean-up;
* bans, roles and the expected post limit in the stores, which go through the
  calls of `UserStore`; the session file on disk; the ownership registry of
  sessions, whose clean-up `main.py` (269) has commented out;
* `upload_via_relay`, the registry's file `sessions.json`, the shutdown of the
  upload workers;
* of the owner's settings, a disk that fails, a bot without MongoDB
  (`local_only`), and two hosts at once;
* of the forwarding, the inside of `process_single_post` and of
  `process_album_with_session` (one step each), and that the pipeline is opened
  for the target chat, whose user's cancel flag it erases;
* of the chat log, edits by users, uploads through a user's own session
  (`submit_user_upload`), the eviction of `_seen`, an unreadable policy file;
* of the texts, which of Markdown's delimiters pairs with which (they are one character
  here, which pairs with the next), the limits of Premium accounts, `entity_splitter.py`
  and `entity_validator.py`;
* of the walks, the pauses between posts and albums through a foreign session;
* of the topics, the scan of the whole chat history, which no caller switches on, and the
  incremental mode, which `save.py` switches on (5524) where no post is named and no
  range given, a case that 5373 ends with an exception as it reads the first post.

Places that deserve care and that no property of the runs covers, beside the two
in the list of hazards: the redirect of `/cancel` (`save.py:4282`) and the reset of
the queue under it (`user_queue.py:106`, `save.py:4110`); the limits read once at
the start (`priority_queue.py:119`); the pool's worker count and its shutdown
(`worker.py` 237, 254, 487); part files of another post (`resume.py:229`); stale
borrows (`borrow_manager.py:90`); the worker that `/logout` stops and the connect
under the registry's lock (`user_upload_worker.py` 437, 852); the reload of the
pool under borrowed indices (`premium_relay.py:94`), and its users in `save.py`
(8571, 8779, 6635, 4491); parts that cannot be cut (`file_splitter.py:509`); the
end of a scan that hits the cache (`topic_extractor.py` 487, 588); headers that
make a caption too long (`caption_splitter.py:276`); an album collected twice
(`album_collector_v2.py:526`). Most of them are what the statements for use by
hand in section 4 show.
