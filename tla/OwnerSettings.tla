---------------------------- MODULE OwnerSettings ----------------------------
(***************************************************************************)
(* The owner's settings: kept in memory and in a file of this host         *)
(* (values, with the keys that MongoDB has yet to take), in a document of  *)
(* MongoDB that goes with the bot to another host, and where they act.     *)
(*                                                                         *)
(* Two keys stand for the two ways a setting is made.  "limits" lives in   *)
(* the settings alone: a command changes the values and sets the limit     *)
(* that PriorityQueue works with.  "channels" is one of FILES: a command   *)
(* changes a list in memory and its own file, and the wrapper              *)
(* persist_owner_change compares the file with what it was before.  The    *)
(* value of a key gives each item (a role, a channel) a level.             *)
(***************************************************************************)
EXTENDS Integers, Sequences, SequencesExt

CONSTANTS Commands, Does,      \* the owner's commands, and what each changes
          Items, Low, High,    \* roles or channels; a limit, or off and on
          NoLevel, Unset,       \* an item, and a key, that is not there
          Earlier,               \* what was set before
          boot, retry,         \* start(), and the task that retries every minute
          Cases                \* bound: which commands come, how often the process is
                               \*   launched, and how many things go wrong

Keys   == {"limits", "channels"}
Levels == {Low, High}
Value  == [Items -> Levels \cup {NoLevel}]
Empty  == [i \in Items |-> NoLevel]
Procs  == Commands \cup {boot, retry}

ASSUME OwnerSettingsAssumption ==
    /\ Does \in [Commands -> [key : Keys, item : Items, level : Levels \cup {NoLevel}]]
    /\ \A c \in Commands : Does[c].key = "limits" => Does[c].level # NoLevel
    /\ Unset \notin Value /\ NoLevel \notin Levels /\ Low # High
    /\ Earlier \in [Keys -> Value]
    /\ boot # retry /\ {boot, retry} \cap Commands = {}
    /\ Cases \subseteq [commands : SUBSET Commands, launches : Nat, faults : Nat]

VARIABLES
    process,            \* of the process: down, connect (no bot_id yet), up
    store,              \* data/owner_settings.json: values and pending
    values, unsent,     \* the same in memory
    restored, status,
    remote,             \* values in MongoDB
    listing, mem,       \* the channels: their file, and the list of ChannelMonitor
    live,               \* the limits in force
    place, before,      \* where each process is; the file as a command found it
    insist,             \* retry_restore of the retry task
    queue,              \* the holder of the lock and those who wait for it
    left, at,           \* the keys left to the holder, and the write it waits for
    late,               \* writes that timed out and may still reach MongoDB
    launches, mishaps,  \* what may still happen
    wanted,             \* history: the settings as the owner has made them
    owed,               \* history: the file has a change that nothing else has
    enacted,            \* history: apply() has run on restored settings
    spoiled             \* history: keys that one of the exceptions has met

local        == <<store, values, unsent>>
channels     == <<listing, mem>>
bounds       == <<launches, mishaps>>
syncing      == <<queue, left, at>>
history      == <<wanted, owed, enacted, spoiled>>
settingsVars == <<process, local, restored, status, remote, channels, live, place, before,
                  insist, syncing, late, bounds, history>>

Nothing == [key |-> "limits", val |-> Unset]
Given(v) == IF v = Unset THEN Empty ELSE v
Mishap   == mishaps > 0 /\ mishaps' = mishaps - 1

SettingsInit ==
    /\ process = "down" /\ restored = FALSE /\ status = "not_started"
    /\ remote \in {[k \in Keys |-> IF k \in held THEN Earlier[k] ELSE Unset] : held \in SUBSET Keys}
    /\ store \in {[values |-> v, pending |-> {}] : v \in {remote, [k \in Keys |-> Unset]}}
    /\ listing \in {Unset, Earlier["channels"]}
    /\ store.values["channels"] \in {Unset, listing}
    /\ values = store.values /\ unsent = {}
    /\ mem = Empty /\ live = Empty
    /\ before = [c \in Commands |-> Unset] /\ insist = FALSE
    /\ queue = <<>> /\ left = {} /\ at = Nothing /\ late = {}
    /\ \E case \in Cases :
          /\ place = [p \in Procs |-> IF p \in case.commands THEN "new" ELSE "done"]
          /\ launches = case.launches /\ mishaps = case.faults
    /\ wanted = [k \in Keys |-> IF k = "channels" /\ remote[k] = Unset THEN listing ELSE remote[k]]
    /\ owed = (remote["channels"] = Unset /\ listing # Unset)
    /\ enacted = FALSE /\ spoiled = {}

-----------------------------------------------------------------------------
(* apply(), and what a sync goes on to in the same turn of the event loop. *)

\* apply: the file, the list read from it, and the limits follow the values, which may
\* be known: restored from MongoDB.
Enact(vals, known) ==
    LET list == IF vals["channels"] = Unset THEN listing ELSE vals["channels"] IN
    /\ listing' = list /\ mem' = Given(list)
    /\ live' = [i \in Items |-> IF Given(vals["limits"])[i] = NoLevel THEN live[i]
                                ELSE vals["limits"][i]]
    /\ spoiled' = spoiled \cup (IF owed /\ listing # list THEN {"channels"} ELSE {})
    /\ enacted' = known

\* Fault: the command leaves the limit to apply().
ObeyNot(c) == UNCHANGED <<live, channels, enacted, spoiled>>

\* The command's own sync has ended: the limit comes into force.
Obey(c) ==
    /\ live' = IF Does[c].key = "limits" THEN [live EXCEPT ![Does[c].item] = Does[c].level]
               ELSE live
    /\ UNCHANGED <<channels, enacted, spoiled>>

\* The retry task restores, and applies what it has restored.
Insists(p) == p = retry /\ insist

\* The holder p leaves the lock with this status.
Leave(p, st, vals, known) ==
    /\ status' = st
    /\ queue' = Tail(queue) /\ left' = {} /\ at' = Nothing
    /\ place' = [place EXCEPT ![p] = IF p = retry THEN "sleep" ELSE "done",
                        ![retry] = IF p \in {boot, retry} THEN "sleep" ELSE @]
    /\ CASE p \in Commands          -> Obey(p)
         [] p = boot \/ Insists(p)  -> Enact(vals, known)
         [] OTHER                   -> UNCHANGED <<channels, live, enacted, spoiled>>

\* The holder p waits for the write of one of the keys left, or is through.
GoOn(p, rest, vals, pend, known) ==
    \/ \E k \in rest :
          /\ at' = [key |-> k, val |-> vals[k]] /\ left' = rest \ {k}
          /\ place' = [place EXCEPT ![p] = "push"]
          /\ UNCHANGED <<queue, status, channels, live, enacted, spoiled>>
    \/ rest = {} /\ Leave(p, IF pend = {} THEN "synced" ELSE "pending", vals, known)

-----------------------------------------------------------------------------
(* sync(): one at a time, in the order in which they asked for the lock.   *)

Holds(p) == queue # <<>> /\ Head(queue) = p

\* The lock is p's: it reads MongoDB, or writes at once what is pending.
Acquire(p) ==
    /\ Holds(p) /\ place[p] = "wait"
    /\ IF ~restored \/ Insists(p)
       THEN /\ place' = [place EXCEPT ![p] = "find"]
            /\ UNCHANGED <<status, syncing, channels, live, enacted, spoiled>>
       ELSE GoOn(p, unsent, values, unsent, restored)
    /\ UNCHANGED <<process, local, restored, remote, before, insist, late, bounds, wanted, owed>>

\* Fault: what MongoDB has wins always.
MergedBlindly == [k \in Keys |-> IF remote[k] = Unset THEN values[k] ELSE remote[k]]

\* What MongoDB has wins, save over what it has yet to take.
Merged == [k \in Keys |-> IF k \in unsent \/ remote[k] = Unset THEN values[k] ELSE remote[k]]

\* find_one answers: the settings are restored.
FindAnswers(p) ==
    LET pend == unsent \cup {k \in Keys : Merged[k] # Unset /\ remote[k] = Unset} IN
    /\ Holds(p) /\ place[p] = "find"
    /\ values' = Merged /\ unsent' = pend
    /\ store' = [values |-> Merged, pending |-> pend]
    /\ restored' = TRUE
    /\ owed' = (owed /\ ~("channels" \in pend /\ Merged["channels"] = listing))
    /\ GoOn(p, pend, Merged, pend, TRUE)
    /\ UNCHANGED <<process, remote, before, insist, late, bounds, wanted>>

FindFails(p) ==
    /\ Holds(p) /\ place[p] = "find"
    /\ Mishap
    /\ Leave(p, IF unsent = {} THEN "restore_failed" ELSE "pending", values, restored)
    /\ UNCHANGED <<process, local, restored, remote, before, insist, late, launches, wanted, owed>>

\* Fault: the key is no longer pending, whatever has become of it meanwhile.
PushClears(p) ==
    LET pend == unsent \ {at.key} IN
    /\ Holds(p) /\ place[p] = "push"
    /\ remote' = [remote EXCEPT ![at.key] = at.val]
    /\ unsent' = pend /\ store' = [values |-> values, pending |-> pend]
    /\ GoOn(p, left, values, pend, restored)
    /\ UNCHANGED <<process, values, restored, before, insist, late, bounds, wanted, owed>>

\* update_one answers: the key is no longer pending, unless it was changed again.
PushAnswers(p) ==
    LET pend == IF values[at.key] = at.val THEN unsent \ {at.key} ELSE unsent IN
    /\ Holds(p) /\ place[p] = "push"
    /\ remote' = [remote EXCEPT ![at.key] = at.val]
    /\ unsent' = pend /\ store' = [values |-> values, pending |-> pend]
    /\ GoOn(p, left, values, pend, restored)
    /\ UNCHANGED <<process, values, restored, before, insist, late, bounds, wanted, owed>>

\* It fails, or times out and is still on its way.
PushFails(p) ==
    /\ Holds(p) /\ place[p] = "push"
    /\ Mishap
    /\ late' \in {late, late \cup {at}}
    /\ Leave(p, "pending", values, restored)
    /\ UNCHANGED <<process, local, restored, remote, before, insist, launches, wanted, owed>>

\* A write that timed out arrives; newer ones of its key may have come first.
ArriveLate(w) ==
    /\ w \in late
    /\ late' = late \ {w}
    /\ remote' = [remote EXCEPT ![w.key] = w.val]
    /\ spoiled' = spoiled \cup
           (IF w.key \notin store.pending /\ remote[w.key] # w.val THEN {w.key} ELSE {})
    /\ UNCHANGED <<process, local, restored, status, channels, live, place, before, insist,
                   syncing, bounds, wanted, owed, enacted>>

-----------------------------------------------------------------------------
(* The owner's commands, which the bot serves from the moment it connects. *)

\* stage: the value is on disk, marked as pending, before the caller goes on.
Stage(k, v) ==
    /\ values' = [values EXCEPT ![k] = v] /\ unsent' = unsent \cup {k}
    /\ store' = [values |-> values', pending |-> unsent']

\* c waits for the lock; sync() returns at once while there is no bot_id.
AskLock(c) ==
    IF process = "up" THEN queue' = Append(queue, c) /\ place' = [place EXCEPT ![c] = "wait"]
                    ELSE place' = [place EXCEPT ![c] = "done"] /\ UNCHANGED queue

\* What a list, or the limits, become.  Only /addchannel makes an entry.
Changed(v, c) ==
    LET d == Does[c] IN
    IF d.key = "limits" \/ d.level = High \/ v[d.item] # NoLevel
    THEN [v EXCEPT ![d.item] = d.level] ELSE v

\* The owner has made c, over what the program takes for the settings.
Wants(k, c, base, settled) ==
    /\ wanted' = IF Changed(base, c) = base /\ Given(wanted[k]) = base THEN wanted
                 ELSE [wanted EXCEPT ![k] = Changed(Given(@), c)]
    /\ spoiled' = IF settled \/ base = Given(wanted[k]) THEN spoiled ELSE spoiled \cup {k}

\* /set_parallel_limit: change(), and after it set_limit.
SetLimit(c) ==
    LET base == Given(values["limits"]) IN
    /\ process # "down" /\ place[c] = "new" /\ Does[c].key = "limits"
    /\ Stage("limits", Changed(base, c))
    /\ Wants("limits", c, base, restored)
    /\ AskLock(c)
    /\ live' = IF process = "up" THEN live ELSE [live EXCEPT ![Does[c].item] = Does[c].level]
    /\ UNCHANGED <<process, restored, status, remote, channels, before, insist, left, at, late,
                   bounds, owed, enacted>>

\* /addchannel, /removechannel, /togglechannel: the list and its file, then the reply.
SetChannel(c) ==
    LET new == Changed(mem, c) IN
    /\ process # "down" /\ place[c] = "new" /\ Does[c].key = "channels"
    /\ before' = [before EXCEPT ![c] = IF process = "up" THEN listing ELSE Unset]
    /\ place' = [place EXCEPT ![c] = "reply"]
    /\ mem' = new /\ listing' = IF new = mem THEN listing ELSE new
    /\ owed' = (owed \/ listing' # listing)
    /\ Wants("channels", c, mem, enacted)
    /\ UNCHANGED <<process, local, restored, status, remote, live, insist, syncing, late, bounds,
                   enacted>>

\* The reply is out.  checkpoint: a file that is not what it was is staged.
Replied(c) ==
    LET differs == process = "up" /\ listing # before[c] IN
    /\ place[c] = "reply"
    /\ IF differs /\ values["channels"] # listing
       THEN Stage("channels", listing) /\ owed' = FALSE
       ELSE UNCHANGED local /\ owed' = (owed /\ ~(differs /\ restored))
    /\ AskLock(c)
    /\ before' = [before EXCEPT ![c] = Unset]
    /\ UNCHANGED <<process, restored, status, remote, channels, live, insist, left, at, late,
                   bounds, wanted, enacted, spoiled>>

\* The reply fails: the exception leaves the wrapper, and there is no checkpoint.
ReplyFails(c) ==
    /\ place[c] = "reply"
    /\ Mishap
    /\ place' = [place EXCEPT ![c] = "done"] /\ before' = [before EXCEPT ![c] = Unset]
    /\ UNCHANGED <<process, local, restored, status, remote, channels, live, insist, syncing,
                   late, launches, history>>

\* A channel that refuses its session three times is switched off, past the wrapper.
AutoDisable(i) ==
    /\ process = "up" /\ mem[i] = High
    /\ Mishap
    /\ mem' = [mem EXCEPT ![i] = Low] /\ listing' = mem'
    /\ wanted' = [wanted EXCEPT !["channels"] = [Given(@) EXCEPT ![i] = Low]]
    /\ owed' = TRUE
    /\ spoiled' = IF enacted \/ mem = Given(wanted["channels"]) THEN spoiled
                  ELSE spoiled \cup {"channels"}
    /\ UNCHANGED <<process, local, restored, status, remote, live, place, before, insist, syncing,
                   late, launches, enacted>>

-----------------------------------------------------------------------------
(* The process.                                                            *)

\* The settings are read as the modules are imported, the channels are not.
Launch ==
    /\ process = "down" /\ launches > 0
    /\ process' = "connect" /\ launches' = launches - 1
    /\ UNCHANGED <<local, restored, status, remote, channels, live, place, before, insist, syncing,
                   late, mishaps, history>>

\* start(): a file from before seeds a key that is missing; then the restore.
StartSettings ==
    /\ process = "connect"
    /\ process' = "up"
    /\ values' = [values EXCEPT !["channels"] = IF @ = Unset THEN listing ELSE @]
    /\ queue' = Append(queue, boot) /\ place' = [place EXCEPT ![boot] = "wait"]
    /\ UNCHANGED <<store, unsent, restored, status, remote, channels, live, before, insist,
                   left, at, late, bounds, history>>

\* Fault: only a failed restore is tried again.
WakeToRestore ==
    /\ place[retry] = "sleep" /\ status = "restore_failed"
    /\ place' = [place EXCEPT ![retry] = "wait"] /\ queue' = Append(queue, retry)
    /\ insist' = TRUE
    /\ UNCHANGED <<process, local, restored, status, remote, channels, live, before, left, at,
                   late, bounds, history>>

\* _retry: a minute has passed.
Wake ==
    /\ place[retry] = "sleep"
    /\ place' = [place EXCEPT ![retry] = "wait"] /\ queue' = Append(queue, retry)
    /\ insist' = (status = "restore_failed")
    /\ UNCHANGED <<process, local, restored, status, remote, channels, live, before, left, at,
                   late, bounds, history>>

Die ==
    /\ process # "down"
    /\ Mishap
    /\ process' = "down" /\ restored' = FALSE /\ status' = "not_started"
    /\ values' = store.values /\ unsent' = store.pending
    /\ mem' = Empty /\ live' = Empty
    /\ place' = [p \in Procs |-> IF place[p] = "new" THEN "new" ELSE "done"]
    /\ before' = [c \in Commands |-> Unset] /\ insist' = FALSE
    /\ queue' = <<>> /\ left' = {} /\ at' = Nothing
    /\ enacted' = FALSE
    /\ UNCHANGED <<store, remote, listing, late, launches, wanted, owed, spoiled>>

\* The bot is brought to another host: what only the old one had is gone.
Move ==
    /\ process = "down"
    /\ Mishap
    /\ store' = [values |-> [k \in Keys |-> Unset], pending |-> {}]
    /\ values' = store'.values /\ unsent' = {} /\ listing' = Unset
    /\ wanted' = [k \in Keys |-> IF k \in store.pending \/ (k = "channels" /\ owed)
                                 THEN remote[k] ELSE wanted[k]]
    /\ owed' = FALSE
    /\ UNCHANGED <<process, restored, status, remote, mem, live, place, before, insist, syncing,
                   late, launches, enacted, spoiled>>

-----------------------------------------------------------------------------
Sync(p) == Acquire(p) \/ FindAnswers(p) \/ FindFails(p) \/ PushAnswers(p) \/ PushFails(p)

SettingsNext ==
    \/ \E p \in Procs : Sync(p)
    \/ \E c \in Commands : SetLimit(c) \/ SetChannel(c) \/ Replied(c) \/ ReplyFails(c)
    \/ \E i \in Items : AutoDisable(i)
    \/ \E w \in late : ArriveLate(w)
    \/ Launch \/ StartSettings \/ Wake \/ Die \/ Move

SettingsSpec == SettingsInit /\ [][SettingsNext]_settingsVars

\* The event loop runs what can run, MongoDB answers or the five seconds pass, and
\* the retry task wakes.
SettingsFairness ==
    /\ WF_settingsVars(\E p \in Procs : Sync(p))
    /\ WF_settingsVars(Wake)

SettingsFairSpec == SettingsSpec /\ SettingsFairness

-----------------------------------------------------------------------------
SettingsTypeOK ==
    /\ process \in {"down", "connect", "up"}
    /\ store \in [values : [Keys -> Value \cup {Unset}], pending : SUBSET Keys]
    /\ values \in [Keys -> Value \cup {Unset}] /\ unsent \in SUBSET Keys
    /\ restored \in BOOLEAN
    /\ status \in {"not_started", "synced", "pending", "restore_failed"}
    /\ remote \in [Keys -> Value \cup {Unset}]
    /\ listing \in Value \cup {Unset} /\ mem \in Value /\ live \in Value
    /\ place \in [Procs -> {"new", "reply", "wait", "find", "push", "sleep", "done"}]
    /\ before \in [Commands -> Value \cup {Unset}] /\ insist \in BOOLEAN
    /\ queue \in Seq(Procs) /\ left \in SUBSET Keys
    /\ at \in [key : Keys, val : Value \cup {Unset}]
    /\ late \in SUBSET [key : Keys, val : Value]
    /\ launches \in Nat /\ mishaps \in Nat
    /\ wanted \in [Keys -> Value \cup {Unset}]
    /\ owed \in BOOLEAN /\ enacted \in BOOLEAN /\ spoiled \in SUBSET Keys

\* What the next process, on this host, will find of a key.
Durable(k) == IF k \in store.pending THEN store.values[k] ELSE remote[k]

Resting == process = "up" /\ queue = <<>> /\ \A c \in Commands : place[c] # "reply"

\* test_owner_settings.py, "pending_local_change_survives_restart_and_stale_remote";
\* notice, "saved in MongoDB, will be restored on another server too": what the owner
\* last set is what the next process will find, on this host or, once it is no longer
\* pending, on any, though commands overlap with each other, with a restore and with
\* failing writes.  The exceptions: a change made on settings not yet restored, one
\* that apply() overwrites before its checkpoint, a timed-out write that arrives late.
SettingsKept ==
    /\ \A k \in Keys \ spoiled :
          \/ Durable(k) = wanted[k] /\ (restored => values[k] = wanted[k])
          \/ k = "channels" /\ owed /\ listing = wanted[k]
    /\ Resting /\ status = "synced" => unsent = {}

\* apply() and the commands agree: when no command and no sync is under way, the limits
\* in force, the list of channels and its file are those of the settings, whichever
\* command was answered last.  The exceptions: settings that a sync has restored without
\* an apply(), a change of the list that no checkpoint has taken, and limits that were
\* overwritten in MongoDB (apply() takes back no limit that the values do not name).
InForce ==
    Resting /\ enacted /\ ~owed =>
        /\ listing = values["channels"] /\ mem = Given(listing)
        /\ "limits" \notin spoiled => live = Given(values["limits"])

\* The settings are what the owner made them, on disk, in MongoDB and in force.
SettingsSound == SettingsKept /\ InForce

\* _retry: what waits for MongoDB gets there, unless the process ends.
ReachesMongo == []<>(process # "up" \/ unsent = {})
=============================================================================
