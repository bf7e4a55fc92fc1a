------------------------------- MODULE ChatLog -------------------------------
(***************************************************************************)
(* core/chat_log.py and /logchannel: private conversations with the bot,   *)
(* forwarded to a chat of the owner's choice.  submit() decides on every   *)
(* message, of the user and of the bot, whether it is queued; one worker   *)
(* forwards what is queued, under the lock that a change of the policy     *)
(* takes too; the policy is kept in a file of this host and in MongoDB.    *)
(*                                                                         *)
(* A message is a model value with a chat, a kind and perhaps an album.    *)
(* The bot edits a status message: its version 1 is the progress of a      *)
(* transfer, version 2 the result.  An event's revision is that of the     *)
(* policy when it was queued.                                              *)
(***************************************************************************)
EXTENDS Integers, Sequences, SequencesExt

CONSTANTS Chats, Letters,        \* users' chats with the bot; what is written in them
          ChatOf, KindOf, AlbumOf,
          NoAlbum,
          Targets, NoTarget,     \* where the log may go
          EnvTarget,             \* LOG_CHANNEL_ID
          Orders, OrderOf,       \* the owner's /logchannel commands
          worker, starter, minute, \* _run, start() and _sync_settings
          QueueSize, Attempts,   \* queue_size; range(3)
          Absent,
          LogCases               \* bound: what is written and ordered, and what goes wrong

FromUser == {"text", "photo", "command", "login", "link"}
FromBot  == {"reply", "status", "media"}
Policies == [owner : BOOLEAN, on : BOOLEAN, target : Targets \cup {NoTarget}]
Syncing  == Orders \cup {starter, minute}

ASSUME ChatLogAssumption ==
    /\ ChatOf \in [Letters -> Chats] /\ KindOf \in [Letters -> FromUser \cup FromBot]
    /\ AlbumOf \in [Letters -> STRING \cup {NoAlbum}]
    /\ \A m, n \in Letters : AlbumOf[m] # NoAlbum /\ AlbumOf[m] = AlbumOf[n] => ChatOf[m] = ChatOf[n]
    /\ \A m, n \in Letters : AlbumOf[m] # n
    /\ worker \notin Syncing /\ {starter, minute} \cap Orders = {} /\ starter # minute
    /\ Absent \notin Chats \cup Policies \cup [doc : Policies, pending : BOOLEAN]
    /\ EnvTarget \in Targets /\ NoTarget \notin Targets
    /\ Targets \cap {"off", "on", "remove", "reset"} = {}
    /\ OrderOf \in [Orders -> {"off", "on", "remove", "reset"} \cup Targets]
    /\ {QueueSize, Attempts} \subseteq Nat \ {0}
    /\ LogCases \subseteq [letters : SUBSET Letters, orders : SUBSET Orders, launches : Nat, faults : Nat]

VARIABLES
    bot,                        \* the process: down, connect, up (the worker runs)
    policy, revision, pending,  \* of ChatLogSettings
    restored,
    named,                      \* start() has set _bot_id
    lock,                       \* the holder of settings.lock and those who wait
    file, cloud,                \* data/chat_log.json, and the document in MongoDB
    overdue,                    \* a write to MongoDB that was given up and may still arrive
    step, ordered,              \* where each process is; the policy that a command makes
    backlog, event, attempt,    \* the queue; what the worker is at
    cooling, lastHeader, stale, \* _cooldown; _last_header_key, and whether it is too old
    seen, albums, control, auth,
    unwritten, version, echoes, \* of the conversations; bot messages whose update is to come
    asking,                     \* whether the login of a chat waits for answers
    posted,                     \* what the owner's chats show
    boots, faults,              \* what may still happen
    chosen, spoiled,            \* history: the owner's last choice, and whether it may be lost
    private,                    \* history: what a user wrote between /login and its end
    blurred, slipped            \* history: a header without an answer; edits after the last look

settings  == <<policy, revision, pending, restored, named, lock, file, cloud, overdue>>
delivery  == <<backlog, event, attempt, cooling, lastHeader, stale>>
marks     == <<seen, albums, control, auth>>
talk      == <<unwritten, version, echoes, asking>>
logHistory == <<chosen, spoiled, private, blurred, slipped>>
logVars   == <<bot, settings, step, ordered, delivery, marks, talk, posted, boots, faults, logHistory>>

ByEnv    == [owner |-> FALSE, on |-> TRUE, target |-> EnvTarget]
Reset    == [owner |-> FALSE, on |-> FALSE, target |-> NoTarget]
NoEvent  == [rev |-> 0, target |-> NoTarget, letter |-> Absent, ver |-> 0]
NoHeader == <<0, Absent>>

\* _document and _decode: a reset is kept without its target.
Document(p) == IF p.owner THEN p ELSE Reset
Decode(d)   == IF d.owner THEN d ELSE ByEnv

LogInit ==
    /\ bot = "down" /\ restored = FALSE /\ named = FALSE /\ revision = 0 /\ lock = <<>>
    /\ file = Absent /\ cloud = Absent /\ overdue = Absent /\ policy = ByEnv /\ pending = FALSE
    /\ ordered = [k \in Orders |-> ByEnv]
    /\ backlog = <<>> /\ event = NoEvent /\ attempt = 0 /\ cooling = FALSE
    /\ lastHeader = NoHeader /\ stale = FALSE
    /\ seen = {} /\ albums = {} /\ control = {} /\ auth = {}
    /\ version = [m \in Letters |-> 0] /\ echoes = {} /\ asking = [c \in Chats |-> "no"]
    /\ posted = [t \in Targets |-> <<>>]
    /\ \E case \in LogCases :
          /\ unwritten = case.letters /\ boots = case.launches /\ faults = case.faults
          /\ step = [p \in Syncing \cup {worker} |-> IF p \in case.orders THEN "new" ELSE "done"]
    /\ chosen = Reset /\ spoiled = FALSE /\ private = {} /\ blurred = FALSE /\ slipped = {}

Stands(p, place) == step[p] = place
Fault    == faults > 0 /\ faults' = faults - 1
Owns(p)  == lock # <<>> /\ Head(lock) = p
Release  == lock' = Tail(lock)
Moves(p, place) == step' = [step EXCEPT ![p] = place]

-----------------------------------------------------------------------------
(* submit().                                                               *)

Logs == bot = "up" /\ policy.on

BotText(m)     == KindOf[m] \in {"reply", "status"}
Progress(m, v) == KindOf[m] = "status" /\ v = 1

\* A command opens a control dialogue, /login one of answers; a link or, outside
\* of a login, any other text ends it.
ControlAfter(m) ==
    IF KindOf[m] \in {"command", "login"} THEN control \cup {ChatOf[m]}
    ELSE IF KindOf[m] = "link" \/ (KindOf[m] = "text" /\ ChatOf[m] \notin auth)
         THEN control \ {ChatOf[m]} ELSE control

\* Fault: any text ends the dialogue of a login.
AuthForgets(m) ==
    IF KindOf[m] = "login" THEN auth \cup {ChatOf[m]}
    ELSE IF KindOf[m] \in {"link", "text"} THEN auth \ {ChatOf[m]} ELSE auth
AuthAfter(m) ==
    IF KindOf[m] = "login" THEN auth \cup {ChatOf[m]}
    ELSE IF KindOf[m] = "link" THEN auth \ {ChatOf[m]} ELSE auth

Mark(m, v) == <<revision, m, v>>
AlbumMark(m) == <<revision, AlbumOf[m]>>

\* Fault: the second notice of a message is queued again.
PassesTwice(m, v) ==
    /\ KindOf[m] \notin {"command", "login"} /\ ChatOf[m] \notin AuthAfter(m)
    /\ ~(BotText(m) /\ ChatOf[m] \in control) /\ ~Progress(m, v)
    /\ AlbumOf[m] = NoAlbum \/ AlbumMark(m) \notin albums

Passes(m, v) ==
    /\ KindOf[m] \notin {"command", "login"} /\ ChatOf[m] \notin AuthAfter(m)
    /\ ~(BotText(m) /\ ChatOf[m] \in control) /\ ~Progress(m, v)
    /\ Mark(m, v) \notin seen
    /\ AlbumOf[m] = NoAlbum \/ AlbumMark(m) \notin albums

Submit(m, v) ==
    IF ~Logs THEN UNCHANGED <<backlog, marks>>
    ELSE /\ control' = ControlAfter(m) /\ auth' = AuthAfter(m)
         /\ IF Passes(m, v) /\ Len(backlog) < QueueSize
            THEN /\ backlog' = Append(backlog, [rev |-> revision, target |-> policy.target,
                                                letter |-> m, ver |-> v])
                 /\ seen' = seen \cup {Mark(m, v)}
                 /\ albums' = IF AlbumOf[m] = NoAlbum THEN albums ELSE albums \cup {AlbumMark(m)}
            ELSE UNCHANGED <<backlog, seen, albums>>

\* A user writes, or the bot: its send returns the message.  The login conversation
\* itself is that of Login; here it is open until LoginEnds.  It is "sure" while the log
\* has seen its /login and no link since.
Write(m) ==
    LET c == ChatOf[m] IN
    /\ bot # "down" /\ m \in unwritten /\ unwritten' = unwritten \ {m}
    /\ Submit(m, 0)
    /\ asking' = [asking EXCEPT ![c] = IF KindOf[m] = "login" THEN (IF Logs THEN "sure" ELSE "unsure")
                                       ELSE IF KindOf[m] = "link" /\ @ = "sure" THEN "unsure" ELSE @]
    /\ private' = IF asking[c] = "sure" /\ KindOf[m] \in {"text", "photo"}
                  THEN private \cup {<<m, 0>>} ELSE private
    /\ echoes' = IF KindOf[m] \in FromBot THEN echoes \cup {m} ELSE echoes
    /\ UNCHANGED <<bot, settings, step, ordered, event, attempt, cooling, lastHeader, stale,
                   version, posted, boots, faults, chosen, spoiled, blurred, slipped>>

\* The update that belongs to a message of the bot.
Echo(m) ==
    /\ bot # "down" /\ m \in echoes /\ echoes' = echoes \ {m}
    /\ Submit(m, version[m])
    /\ UNCHANGED <<bot, settings, step, ordered, event, attempt, cooling, lastHeader, stale,
                   unwritten, version, asking, posted, boots, faults, logHistory>>

\* The bot edits its status message.
Edit(m) ==
    /\ bot # "down" /\ KindOf[m] = "status" /\ m \notin unwritten /\ version[m] < 2
    /\ version' = [version EXCEPT ![m] = @ + 1]
    /\ Submit(m, version[m] + 1)
    /\ slipped' = IF event.letter = m /\ step[worker] \in {"header", "forward"}
                  THEN slipped \cup {m} ELSE slipped
    /\ UNCHANGED <<bot, settings, step, ordered, event, attempt, cooling, lastHeader, stale,
                   unwritten, echoes, asking, posted, boots, faults, chosen, spoiled, private, blurred>>

LoginEnds(c) ==
    /\ asking[c] # "no" /\ asking' = [asking EXCEPT ![c] = "no"]
    /\ UNCHANGED <<bot, settings, step, ordered, delivery, marks, unwritten, version, echoes, posted,
                   boots, faults, logHistory>>

-----------------------------------------------------------------------------
(* _run and _deliver.                                                      *)

Take ==
    /\ Stands(worker, "idle") /\ backlog # <<>>
    /\ event' = Head(backlog) /\ backlog' = Tail(backlog) /\ attempt' = 1
    /\ Moves(worker, "cool")
    /\ UNCHANGED <<bot, settings, ordered, cooling, lastHeader, stale, marks, talk, posted, boots,
                   faults, logHistory>>

\* Woken in a cooldown, the worker drops what belongs to an older policy.
DropInCooldown ==
    /\ Stands(worker, "cool") /\ cooling /\ event.rev # revision
    /\ event' = NoEvent /\ Moves(worker, "idle")
    /\ UNCHANGED <<bot, settings, ordered, backlog, attempt, cooling, lastHeader, stale, marks, talk,
                   posted, boots, faults, logHistory>>

CooldownEnds ==
    /\ cooling /\ cooling' = FALSE
    /\ UNCHANGED <<bot, settings, step, ordered, backlog, event, attempt, lastHeader, stale, marks, talk,
                   posted, boots, faults, logHistory>>

HeaderAges ==
    /\ lastHeader # NoHeader /\ ~stale /\ Stands(worker, "idle") /\ backlog = <<>> /\ stale' = TRUE
    /\ UNCHANGED <<bot, settings, step, ordered, backlog, event, attempt, cooling, lastHeader, marks, talk,
                   posted, boots, faults, logHistory>>

WorkerAsks ==
    /\ Stands(worker, "cool") /\ ~cooling
    /\ lock' = Append(lock, worker) /\ Moves(worker, "wait")
    /\ UNCHANGED <<bot, policy, revision, pending, restored, named, file, cloud, overdue, ordered,
                   delivery, marks, talk, posted, boots, faults, logHistory>>

\* Fault: the worker keeps the lock.
SettledHolding ==
    /\ event' = NoEvent /\ attempt' = 0 /\ Moves(worker, "idle")
    /\ UNCHANGED settings

\* The worker is through with its event and leaves the lock.
Settled ==
    /\ event' = NoEvent /\ attempt' = 0 /\ Moves(worker, "idle") /\ Release
    /\ UNCHANGED <<policy, revision, pending, restored, named, file, cloud, overdue>>

HeaderKey == <<event.rev, ChatOf[event.letter]>>

\* Fault: the chat of the last header is not looked at.
OnwardsBlindly == IF lastHeader = NoHeader \/ lastHeader[1] # event.rev \/ stale
                  THEN "header" ELSE "forward"
Onwards == IF lastHeader # HeaderKey \/ stale THEN "header" ELSE "forward"

\* Fault: what is queued goes to wherever the log is now.
CurrentAnyway == policy.on
Current == event.rev = revision /\ policy.on /\ event.target = policy.target

\* Under the lock: an event of an older policy is dropped; a text of the bot is looked at again.
WorkerLocked ==
    /\ Owns(worker) /\ Stands(worker, "wait")
    /\ IF ~Current THEN Settled
       ELSE /\ Moves(worker, IF BotText(event.letter) THEN "look" ELSE Onwards)
            /\ UNCHANGED <<settings, event, attempt>>
    /\ UNCHANGED <<bot, ordered, backlog, cooling, lastHeader, stale, marks, talk, posted, boots,
                   faults, logHistory>>

Look ==
    LET m == event.letter IN
    /\ Stands(worker, "look")
    /\ IF Progress(m, version[m]) \/ ChatOf[m] \in control \cup auth THEN Settled
       ELSE Moves(worker, Onwards) /\ UNCHANGED <<settings, event, attempt>>
    /\ UNCHANGED <<bot, ordered, backlog, cooling, lastHeader, stale, marks, talk, posted, boots,
                   faults, logHistory>>

Post(t, x) == posted' = [posted EXCEPT ![t] = Append(@, x)]
Name(c)    == [user |-> c, what |-> <<>>, shows |-> <<>>]

Header ==
    /\ Stands(worker, "header")
    /\ Post(event.target, Name(ChatOf[event.letter]))
    /\ lastHeader' = HeaderKey /\ stale' = FALSE
    /\ Moves(worker, "forward")
    /\ UNCHANGED <<bot, settings, ordered, backlog, event, attempt, cooling, marks, talk, boots, faults,
                   logHistory>>

Content == LET m == event.letter IN
    [user  |-> ChatOf[m],
     what  |-> <<boots, event.rev, IF AlbumOf[m] = NoAlbum THEN m ELSE AlbumOf[m], event.ver>>,
     shows |-> <<m, version[m]>>]

\* forward_messages, for an album with what get_media_group returns.
Forward ==
    /\ Stands(worker, "forward")
    /\ Post(event.target, Content)
    /\ stale' = FALSE /\ cooling' = TRUE
    /\ Settled
    /\ UNCHANGED <<bot, ordered, backlog, lastHeader, marks, talk, boots, faults, logHistory>>

AtCall == step[worker] \in {"look", "header", "forward"}

\* The call fails, or it did its work and the answer is lost: the event is given up.
CallFails ==
    /\ AtCall /\ Fault
    /\ \/ UNCHANGED <<posted, blurred>>
       \/ Stands(worker, "header") /\ Post(event.target, Name(ChatOf[event.letter])) /\ blurred' = TRUE
       \/ Stands(worker, "forward") /\ Post(event.target, Content) /\ UNCHANGED blurred
    /\ Settled
    /\ UNCHANGED <<bot, ordered, backlog, cooling, lastHeader, stale, marks, talk, boots,
                   chosen, spoiled, private, slipped>>

\* FloodWait: a short one is waited for, without the lock, and the event tried again.
Flood ==
    /\ AtCall /\ Fault
    /\ cooling' = TRUE
    /\ \/ /\ attempt < Attempts /\ attempt' = attempt + 1
          /\ Moves(worker, "cool") /\ Release
          /\ UNCHANGED <<event, policy, revision, pending, restored, named, file, cloud, overdue>>
       \/ Settled
    /\ UNCHANGED <<bot, ordered, backlog, lastHeader, stale, marks, talk, posted, boots, logHistory>>

-----------------------------------------------------------------------------
(* The settings: /logchannel, save() and sync().                           *)

\* The command reads the policy; what turns the log on asks Telegram about the target first.
Order(k) ==
    LET o == OrderOf[k] IN
    /\ bot # "down" /\ Stands(k, "new")
    /\ ordered' = [ordered EXCEPT ![k] =
           CASE o = "off"    -> [owner |-> TRUE, on |-> FALSE, target |-> policy.target]
             [] o = "remove" -> [owner |-> TRUE, on |-> FALSE, target |-> NoTarget]
             [] o = "on"     -> [owner |-> TRUE, on |-> TRUE, target |-> policy.target]
             [] o = "reset"  -> ByEnv
             [] o \in Targets -> [owner |-> TRUE, on |-> TRUE, target |-> o]]
    /\ IF o \in {"off", "remove"} THEN Moves(k, "save") /\ lock' = Append(lock, k)
       ELSE /\ Moves(k, IF o = "on" /\ policy.target = NoTarget THEN "done" ELSE "validate")
            /\ UNCHANGED lock
    /\ UNCHANGED <<bot, policy, revision, pending, restored, named, file, cloud, overdue, delivery,
                   marks, talk, posted, boots, faults, logHistory>>

Validate(k) ==
    /\ Stands(k, "validate")
    /\ \/ Moves(k, "save") /\ lock' = Append(lock, k) /\ UNCHANGED faults
       \/ Moves(k, "done") /\ UNCHANGED lock /\ Fault
    /\ UNCHANGED <<bot, policy, revision, pending, restored, named, file, cloud, overdue, ordered,
                   delivery, marks, talk, posted, boots, logHistory>>

\* Fault: the file does not say that MongoDB has yet to take the policy.
SaveUnmarked(k) ==
    /\ Owns(k) /\ Stands(k, "save")
    /\ policy' = ordered[k] /\ pending' = TRUE /\ revision' = revision + 1
    /\ file' = [doc |-> Document(ordered[k]), pending |-> FALSE]
    /\ chosen' = Document(ordered[k]) /\ spoiled' = FALSE
    /\ lock' = IF named THEN Append(Tail(lock), k) ELSE Tail(lock)
    /\ Moves(k, IF named THEN "wait" ELSE "done")
    /\ UNCHANGED <<bot, restored, named, cloud, overdue, ordered, delivery, marks, talk, posted, boots,
                   faults, private, blurred, slipped>>

\* save(): under the lock; then sync(), which returns at once before start().
Save(k) ==
    /\ Owns(k) /\ Stands(k, "save")
    /\ policy' = ordered[k] /\ pending' = TRUE /\ revision' = revision + 1
    /\ file' = [doc |-> Document(ordered[k]), pending |-> TRUE]
    /\ chosen' = Document(ordered[k]) /\ spoiled' = FALSE
    /\ lock' = IF named THEN Append(Tail(lock), k) ELSE Tail(lock)
    /\ Moves(k, IF named THEN "wait" ELSE "done")
    /\ UNCHANGED <<bot, restored, named, cloud, overdue, ordered, delivery, marks, talk, posted, boots,
                   faults, private, blurred, slipped>>

\* p leaves sync().  The worker starts when start() has been through it.
Leaves(p) ==
    /\ Release
    /\ IF p = starter THEN /\ bot' = "up"
                           /\ step' = [step EXCEPT ![p] = "done", ![worker] = "idle", ![minute] = "sleep"]
       ELSE UNCHANGED bot /\ Moves(p, IF p = minute THEN "sleep" ELSE "done")

SyncLocked(p) ==
    /\ Owns(p) /\ Stands(p, "wait")
    /\ IF pending THEN Moves(p, "push") /\ UNCHANGED <<bot, lock>>
       ELSE IF restored THEN Leaves(p)
       ELSE Moves(p, "find") /\ UNCHANGED <<bot, lock>>
    /\ UNCHANGED <<policy, revision, pending, restored, named, file, cloud, overdue, ordered, delivery,
                   marks, talk, posted, boots, faults, logHistory>>

\* What MongoDB has is restored; a file from before is brought to it.
Find(p) ==
    /\ Owns(p) /\ Stands(p, "find") /\ restored' = TRUE
    /\ \/ /\ cloud # Absent
          /\ policy' = Decode(cloud) /\ revision' = revision + 1
          /\ file' = [doc |-> cloud, pending |-> FALSE]
          /\ Leaves(p) /\ UNCHANGED pending
       \/ /\ cloud = Absent /\ file # Absent
          /\ pending' = TRUE /\ file' = [file EXCEPT !.pending = TRUE]
          /\ Moves(p, "push") /\ UNCHANGED <<bot, lock, policy, revision>>
       \/ /\ cloud = Absent /\ file = Absent
          /\ Leaves(p) /\ UNCHANGED <<policy, revision, pending, file>>
    /\ UNCHANGED <<named, cloud, overdue, ordered, delivery, marks, talk, posted, boots, faults, logHistory>>

Push(p) ==
    /\ Owns(p) /\ Stands(p, "push")
    /\ cloud' = Document(policy) /\ file' = [doc |-> Document(policy), pending |-> FALSE]
    /\ pending' = FALSE /\ restored' = TRUE
    /\ Leaves(p)
    /\ UNCHANGED <<policy, revision, named, overdue, ordered, delivery, marks, talk, posted, boots,
                   faults, logHistory>>

\* A call to MongoDB fails, or is given up and may still be carried out.
SyncFails(p) ==
    /\ Owns(p) /\ step[p] \in {"find", "push"} /\ Fault
    /\ overdue' \in IF Stands(p, "push") THEN {overdue, Document(policy)} ELSE {overdue}
    /\ Leaves(p)
    /\ UNCHANGED <<policy, revision, pending, restored, named, file, cloud, ordered, delivery, marks,
                   talk, posted, boots, logHistory>>

LateWrite ==
    /\ overdue # Absent
    /\ cloud' = overdue /\ overdue' = Absent
    /\ spoiled' = (spoiled \/ (overdue # chosen /\ ~(file # Absent /\ file.pending)))
    /\ UNCHANGED <<bot, policy, revision, pending, restored, named, lock, file, step, ordered, delivery,
                   marks, talk, posted, boots, faults, chosen, private, blurred, slipped>>

\* _sync_settings: a minute has passed (and there is something for sync() to do).
Minute ==
    /\ Stands(minute, "sleep") /\ (pending \/ ~restored)
    /\ Moves(minute, "wait") /\ lock' = Append(lock, minute)
    /\ UNCHANGED <<bot, policy, revision, pending, restored, named, file, cloud, overdue, ordered,
                   delivery, marks, talk, posted, boots, faults, logHistory>>

-----------------------------------------------------------------------------
(* The process.                                                            *)

Boot ==
    /\ bot = "down" /\ boots > 0
    /\ bot' = "connect" /\ boots' = boots - 1
    /\ policy' = IF file = Absent THEN ByEnv ELSE Decode(file.doc)
    /\ pending' = (file # Absent /\ file.pending)
    /\ UNCHANGED <<revision, restored, named, lock, file, cloud, overdue, step, ordered, delivery, marks,
                   talk, posted, faults, logHistory>>

StartLog ==
    /\ bot = "connect" /\ ~named /\ named' = TRUE
    /\ lock' = Append(lock, starter) /\ Moves(starter, "wait")
    /\ UNCHANGED <<bot, policy, revision, pending, restored, file, cloud, overdue, ordered, delivery,
                   marks, talk, posted, boots, faults, logHistory>>

\* The process ends, by stop() or without it: conversations and the queue are gone.
Down ==
    /\ bot # "down" /\ Fault
    /\ bot' = "down" /\ named' = FALSE /\ restored' = FALSE /\ revision' = 0 /\ lock' = <<>>
    /\ step' = [p \in DOMAIN step |-> IF step[p] = "new" THEN "new" ELSE "done"]
    /\ backlog' = <<>> /\ event' = NoEvent /\ attempt' = 0 /\ cooling' = FALSE
    /\ lastHeader' = NoHeader /\ stale' = FALSE
    /\ seen' = {} /\ albums' = {} /\ control' = {} /\ auth' = {}
    /\ echoes' = {} /\ asking' = [c \in Chats |-> "no"]
    /\ UNCHANGED <<policy, pending, file, cloud, overdue, ordered, unwritten, version, posted, boots,
                   logHistory>>

\* The bot is started on another server, without its file.
OtherServer ==
    /\ bot = "down" /\ file # Absent /\ Fault
    /\ spoiled' = (spoiled \/ file.pending)
    /\ file' = Absent
    /\ UNCHANGED <<bot, policy, revision, pending, restored, named, lock, cloud, overdue, step, ordered,
                   delivery, marks, talk, posted, boots, chosen, private, blurred, slipped>>

Deliver == Take \/ DropInCooldown \/ WorkerAsks \/ WorkerLocked \/ Look \/ Header \/ Forward
Sync(p) == SyncLocked(p) \/ Find(p) \/ Push(p)

LogNext ==
    \/ \E m \in Letters : Write(m) \/ Echo(m) \/ Edit(m)
    \/ \E c \in Chats : LoginEnds(c)
    \/ Deliver \/ CooldownEnds \/ HeaderAges \/ CallFails \/ Flood
    \/ \E k \in Orders : Order(k) \/ Validate(k) \/ Save(k)
    \/ \E p \in Syncing : Sync(p) \/ SyncFails(p)
    \/ LateWrite \/ Minute
    \/ Boot \/ StartLog \/ Down \/ OtherServer

\* Telegram and MongoDB answer or time out, a lock that is left goes to the next.
LogFairness ==
    /\ WF_logVars(Deliver) /\ WF_logVars(CooldownEnds)
    /\ \A k \in Orders : WF_logVars(Validate(k) \/ Save(k))
    /\ \A p \in Syncing : WF_logVars(Sync(p))

LogSpec == LogInit /\ [][LogNext]_logVars /\ LogFairness

-----------------------------------------------------------------------------
(* Properties.                                                             *)

LogTypeOK ==
    /\ bot \in {"down", "connect", "up"} /\ policy \in Policies /\ revision \in Nat
    /\ {pending, restored, named, cooling, stale, spoiled, blurred} \subseteq BOOLEAN
    /\ lock \in Seq(Syncing \cup {worker}) /\ IsInjective(lock)
    /\ file = Absent \/ file \in [doc : Policies, pending : BOOLEAN]
    /\ {cloud, overdue} \subseteq Policies \cup {Absent} /\ chosen \in Policies
    /\ Len(backlog) <= QueueSize /\ attempt \in 0..Attempts
    /\ seen \subseteq Nat \X Letters \X (0..2) /\ {control, auth} \subseteq SUBSET Chats
    /\ asking \in [Chats -> {"no", "sure", "unsure"}] /\ version \in [Letters -> 0..2]

\* What reaches the owner's chat was written under the policy in force, and goes where
\* that policy says: no queued message outlives /logchannel off, or moves to another chat.
PostsAsConfigured ==
    [][\A t \in Targets : posted'[t] # posted[t] =>
           policy.on /\ policy.target = t /\ event.rev = revision]_logVars

\* Nothing is logged twice: a message returned by a send and reported by an update, a
\* part of an album, or what a flood has sent back to the queue's head.
IsPost(x)  == x.what # <<>>
LoggedOnce ==
    \A s, t \in Targets : \A i \in DOMAIN posted[s], j \in DOMAIN posted[t] :
        IsPost(posted[s][i]) /\ posted[s][i].what = posted[t][j].what => s = t /\ i = j

\* Every message stands under the name of its user: the last header above it is that
\* user's.  A header whose answer was lost is not remembered, and what follows of another
\* user stands under it.
Under(s, i)  == LET heads == {h \in 1..i : ~IsPost(s[h])} IN
                IF heads = {} THEN Absent ELSE s[CHOOSE h \in heads : \A g \in heads : g <= h].user
UnderOwnName ==
    ~blurred => \A t \in Targets : \A i \in DOMAIN posted[t] :
                    IsPost(posted[t][i]) => Under(posted[t], i) = posted[t][i].user

\* Neither what a user writes in a login (while the log was on from its /login, and no link
\* came between) nor the progress of a transfer is logged.  A text that the bot edits
\* after the worker has looked at it goes out as it is then.
KeptOut ==
    \A t \in Targets : \A i \in DOMAIN posted[t] :
        LET x == posted[t][i] IN
        IsPost(x) => /\ <<x.shows[1], x.what[4]>> \notin private
                     /\ x.shows[1] \in slipped \/ ~Progress(x.shows[1], x.shows[2])

\* The owner's last choice is the policy, over restarts and on another server, unless it
\* moved before MongoDB had it or an older write came late.
PolicyKept ==
    ~spoiled /\ bot = "up" /\ (restored \/ file # Absent) => policy = Decode(chosen)

LogSound == LoggedOnce /\ UnderOwnName /\ KeptOut /\ PolicyKept

\* A command that the owner gives comes to its end.
OrdersEnd == []<>(\A k \in Orders : step[k] \in {"new", "done"})
=============================================================================
