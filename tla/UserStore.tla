----------------------------- MODULE UserStore -------------------------------
(***************************************************************************)
(* The session of each user in its three places: the row in SQLite, the    *)
(* document in MongoDB, and the record in _USER_CACHE.  Handlers read and  *)
(* write it through AsyncDatabase; SyncManager brings each write to        *)
(* MongoDB in the background, keeps the failed ones in a list and a file,  *)
(* and copies MongoDB into SQLite when the bot starts.                     *)
(*                                                                         *)
(* session and logged_in are always written together, so a record is None  *)
(* (logged out) or a session.  A login, and an owner who assigns a         *)
(* session, are calls c that write the session c.                          *)
(***************************************************************************)
EXTENDS Integers, Sequences, FiniteSets

CONSTANTS Users,
          Calls,        \* commands and other work on a user's record
          UserOf, KindOf,
          First,        \* sessions from before
          Absent, None, \* no record, and a record without a session
          MaxRetries,   \* _MAX_RETRIES
          Workloads     \* bound: which calls there are, and how many faults, that is
                        \*   requests that fail and ends of the process

Kinds    == {"login", "logout", "assign", "revoke", "read"}
Sessions == First \cup {c \in Calls : KindOf[c] \in {"login", "assign"}}
Records  == Sessions \cup {None}

ASSUME UserStoreAssumption ==
    /\ UserOf \in [Calls -> Users] /\ KindOf \in [Calls -> Kinds]
    /\ First \cap Calls = {} /\ Absent # None /\ {Absent, None} \cap Sessions = {}
    /\ MaxRetries \in Nat \ {0}
    /\ Workloads \subseteq [calls : SUBSET Calls, faults : Nat]

VARIABLES
    row, doc, cache,  \* the record of each user in the three places
    pc,               \* where each call is
    val,              \* the record that its find_user has read
    verifying,        \* the logouts that look whether the record is cleared
    flight,           \* writes on their way to MongoDB
    landed,           \* writes that MongoDB has applied and not yet answered
    pending, file,    \* the list of failed writes, and what the file holds
    flush,            \* _flush_pending: position, what stays, entry applied
    phase,            \* of the process: down, sync, copy, run
    snap, todo,       \* what startup_sync has read, and the users left to copy
    faults,           \* faults that may still come
    issued, applied,  \* history: the writes, those that reached MongoDB,
    dropped, cut,     \*   those given up, those that ended with the process
    missed,           \* history: users whose row SQLite failed to read or write
    crossed,          \* history: users with two changes under way at once
    raced,            \* history: users with a read during a write of the row
    cleared           \* history: users logged out since their last login

stores    == <<row, doc, cache>>
callVars  == <<pc, val, verifying>>
syncVars  == <<flight, landed, pending, file, flush>>
startVars == <<phase, snap, todo>>
fates     == <<issued, applied, dropped, cut, missed>>
vars      == <<stores, callVars, syncVars, startVars, faults, fates, crossed, raced, cleared>>

CallsOf(u)    == {c \in Calls : UserOf[c] = u}
At(u, places) == {c \in CallsOf(u) : pc[c] \in places}

\* A write, by the call and the step of the call that issued it.
Writes   == [by : Calls, step : {"insert", "clear", "again", "save"}, rec : Records]
Owner(w) == UserOf[w.by]

Entry(w) == [write |-> w, retries |-> 0]
Entries  == [write : Writes, retries : Nat]
In(seq)  == {seq[i].write : i \in DOMAIN seq}

\* Writes that MongoDB has yet to take, or may take once more.
Open == flight \cup landed \cup In(pending)

NoFlush == [at |-> 0, kept |-> <<>>, hit |-> FALSE]

Init ==
    /\ doc \in [Users -> First \cup {Absent, None}]
    /\ row \in [Users -> First \cup {Absent, None}]
    /\ \A u \in Users : row[u] \in {Absent, doc[u]}
    /\ cache = [u \in Users |-> Absent]
    /\ \E w \in Workloads :
          /\ pc = [c \in Calls |-> IF c \in w.calls THEN "new" ELSE "done"]
          /\ faults = w.faults
    /\ val = [c \in Calls |-> Absent]
    /\ verifying = {}
    /\ flight = {} /\ landed = {} /\ pending = <<>> /\ file = <<>> /\ flush = NoFlush
    /\ phase \in {"down", "sync"} /\ snap = [u \in Users |-> Absent] /\ todo = {}
    /\ issued = {} /\ applied = {} /\ dropped = {} /\ cut = {} /\ missed = {}
    /\ crossed = {} /\ raced = {} /\ cleared = {}

Fault == faults > 0 /\ faults' = faults - 1

\* LocalStorage swallows what SQLite raises: its caller goes on.
SqliteFails(u) == Fault /\ missed' = missed \cup {u}

-----------------------------------------------------------------------------
(* What the histories crossed and raced note, beside every step.           *)

\* Places where a call waits for SQLite to write the row of update_user.
Updating == {"clear", "again", "save"}

\* More than one change of u's record is under way: a write on its way to
\* MongoDB, a call that is about to write, the copy at the start.
Changing   == Updating \cup {"insert", "came", "mirror"}
Crowded(u) == Cardinality({w \in Open : Owner(w) = u}) + Cardinality(At(u, Changing))
                + (IF u \in todo THEN 1 ELSE 0) > 1

\* A find_user holds a record of u while the row of u is about to be written.
Holding   == {"found", "came", "mirror"}
Racing(u) ==
    \/ \E c \in At(u, Updating \cup {"insert", "mirror"}), d \in At(u, Holding) : c # d
    \/ u \in todo /\ (cache[u] # Absent \/ At(u, Holding) # {})

Watch ==
    /\ crossed' = crossed \cup {u \in Users : Crowded(u)'}
    /\ raced' = IF phase' = "down" THEN {} ELSE raced \cup {u \in Users : Racing(u)'}

-----------------------------------------------------------------------------
(* Steps of a call.  An update_user drops the cached record when it is     *)
(* called, before its first await: on entry to one of the places Updating. *)

\* Fault: the cached record outlives the update.
EnterKeepsCache(c, place, kept) ==
    /\ pc' = [pc EXCEPT ![c] = place]
    /\ val' = [val EXCEPT ![c] = IF place = "mirror" THEN @ ELSE Absent]
    /\ cache' = [cache EXCEPT ![UserOf[c]] = kept]

\* The call c goes on at place, with this record in the cache.
Enter(c, place, kept) ==
    /\ pc' = [pc EXCEPT ![c] = place]
    /\ val' = [val EXCEPT ![c] = IF place = "mirror" THEN @ ELSE Absent]
    /\ cache' = [cache EXCEPT ![UserOf[c]] = IF place \in Updating THEN Absent ELSE kept]

Cached(c) == cache[UserOf[c]]

\* What a call does first.
Opening(c) == CASE KindOf[c] = "login"  -> "look"
                [] KindOf[c] = "assign" -> "save"
                [] KindOf[c] = "revoke" -> "clear"
                [] OTHER                -> "find"

\* A handler starts; messages are served while startup_sync runs.
Start(c) ==
    /\ phase # "down" /\ pc[c] = "new"
    /\ Enter(c, Opening(c), Cached(c))
    /\ UNCHANGED <<row, doc, verifying, syncVars, startVars, faults, fates, cleared>>
    /\ Watch

\* Where a call goes when find_user has returned r.
After(c, r) ==
    CASE KindOf[c] = "login"  -> IF r \in Sessions THEN "check" ELSE "talk"
      [] KindOf[c] = "logout" -> IF r \notin Sessions THEN "done"
                                 ELSE IF c \in verifying THEN "again" ELSE "clear"
      [] OTHER                -> "done"

\* find_user: the cached record, unless it has expired.
FindCached(c) ==
    /\ pc[c] = "find" /\ Cached(c) # Absent
    /\ Enter(c, After(c, Cached(c)), Cached(c))
    /\ UNCHANGED <<row, doc, verifying, syncVars, startVars, faults, fates, cleared>>
    /\ Watch

FindMisses(c) ==
    /\ pc[c] = "find"
    /\ Enter(c, "select", Absent)
    /\ UNCHANGED <<row, doc, verifying, syncVars, startVars, faults, fates, cleared>>
    /\ Watch

\* SQLite answers: the row, or none and MongoDB is asked.
Select(c) ==
    /\ pc[c] = "select"
    /\ \E r \in {row[UserOf[c]], Absent} :
          /\ IF r = row[UserOf[c]] THEN UNCHANGED <<missed, faults>> ELSE SqliteFails(UserOf[c])
          /\ val' = [val EXCEPT ![c] = r]
          /\ pc' = [pc EXCEPT ![c] = IF r = Absent THEN "ask" ELSE "found"]
    /\ UNCHANGED <<stores, verifying, syncVars, startVars,
                   issued, applied, dropped, cut, cleared>>
    /\ Watch

Fill(c) ==
    /\ pc[c] = "found"
    /\ Enter(c, After(c, val[c]), val[c])
    /\ UNCHANGED <<row, doc, verifying, syncVars, startVars, faults, fates, cleared>>
    /\ Watch

\* MongoDB answers with the document.
Ask(c) ==
    LET d == doc[UserOf[c]] IN
    /\ pc[c] = "ask" /\ d # Absent
    /\ val' = [val EXCEPT ![c] = d]
    /\ pc' = [pc EXCEPT ![c] = "came"]
    /\ UNCHANGED <<stores, verifying, syncVars, startVars, faults, fates, cleared>>
    /\ Watch

\* There is no document, or MongoDB fails: find_user returns None.
AskInVain(c) ==
    /\ pc[c] = "ask"
    /\ \/ doc[UserOf[c]] = Absent /\ UNCHANGED faults
       \/ Fault
    /\ Enter(c, After(c, Absent), Cached(c))
    /\ UNCHANGED <<row, doc, verifying, syncVars, startVars, fates, cleared>>
    /\ Watch

\* The document goes into the cache, then into SQLite.
Came(c) ==
    /\ pc[c] = "came"
    /\ Enter(c, "mirror", val[c])
    /\ UNCHANGED <<row, doc, verifying, syncVars, startVars, faults, fates, cleared>>
    /\ Watch

Mirror(c) ==
    /\ pc[c] = "mirror"
    /\ \/ row' = [row EXCEPT ![UserOf[c]] = val[c]] /\ UNCHANGED <<missed, faults>>
       \/ SqliteFails(UserOf[c]) /\ UNCHANGED row
    /\ Enter(c, After(c, val[c]), Cached(c))
    /\ UNCHANGED <<doc, verifying, syncVars, startVars, issued, applied, dropped, cut, cleared>>
    /\ Watch

\* background_sync: the write sets out for MongoDB as a task of its own.
Issue(c, r) ==
    LET w == [by |-> c, step |-> pc[c], rec |-> r] IN
    /\ issued' = issued \cup {w}
    /\ flight' = flight \cup {w}

\* insert_user: a row, if there is none.
Look(c) ==
    /\ pc[c] = "look"
    /\ \/ /\ pc' = [pc EXCEPT ![c] = IF row[UserOf[c]] = Absent THEN "insert" ELSE "find"]
          /\ UNCHANGED <<missed, faults>>
       \/ SqliteFails(UserOf[c]) /\ pc' = [pc EXCEPT ![c] = "insert"]
    /\ UNCHANGED <<stores, val, verifying, syncVars, startVars,
                   issued, applied, dropped, cut, cleared>>
    /\ Watch

Insert(c) ==
    /\ pc[c] = "insert"
    /\ \/ /\ row' = [row EXCEPT ![UserOf[c]] = IF @ = Absent THEN None ELSE @]
          /\ UNCHANGED <<missed, faults>>
       \/ SqliteFails(UserOf[c]) /\ UNCHANGED row
    /\ pc' = [pc EXCEPT ![c] = "find"]
    /\ Issue(c, None)
    /\ UNCHANGED <<doc, cache, val, verifying, landed, pending, file, flush, startVars,
                   applied, dropped, cut, cleared>>
    /\ Watch

\* quick_session_check: a session that works ends the login, another is cleared.
Check(c) ==
    /\ pc[c] = "check"
    /\ \E place \in {"done", "clear"} : Enter(c, place, Cached(c))
    /\ UNCHANGED <<row, doc, verifying, syncVars, startVars, faults, fates, cleared>>
    /\ Watch

\* The conversation: the user gives up, or logs in.
Talk(c) ==
    /\ pc[c] = "talk"
    /\ \E place \in {"done", "save"} : Enter(c, place, Cached(c))
    /\ UNCHANGED <<row, doc, verifying, syncVars, startVars, faults, fates, cleared>>
    /\ Watch

\* The row is written, which may fail unnoticed, and the write set out.
Update(c) ==
    LET u == UserOf[c]
        r == IF pc[c] = "save" THEN c ELSE None
    IN
    /\ pc[c] \in Updating
    /\ Issue(c, r)
    /\ \/ row' = [row EXCEPT ![u] = r] /\ UNCHANGED <<missed, faults>>
       \/ SqliteFails(u) /\ UNCHANGED row
    /\ cleared' = IF r # None THEN cleared \ {u}
                  ELSE IF KindOf[c] = "logout" THEN cleared \cup {u} ELSE cleared
    /\ pc' = [pc EXCEPT ![c] =
                 IF @ = "clear" /\ KindOf[c] = "login" THEN "talk"
                 ELSE IF @ = "clear" /\ KindOf[c] = "logout" THEN "find" ELSE "done"]
    /\ verifying' = IF KindOf[c] = "logout" THEN verifying \cup {c} ELSE verifying
    /\ UNCHANGED <<doc, cache, val, landed, pending, file, flush, startVars,
                   applied, dropped, cut>>
    /\ Watch

-----------------------------------------------------------------------------
(* SyncManager: a write that fails joins the list and the file.            *)

Apply(w) ==
    /\ doc' = [doc EXCEPT ![Owner(w)] = w.rec]
    /\ applied' = applied \cup {w}

Land(w) ==
    /\ w \in flight
    /\ Apply(w)
    /\ flight' = flight \ {w} /\ landed' = landed \cup {w}
    /\ UNCHANGED <<row, cache, callVars, pending, file, flush, startVars, faults,
                   issued, dropped, cut, missed, cleared>>
    /\ Watch

Answer(w) ==
    /\ w \in landed
    /\ landed' = landed \ {w}
    /\ UNCHANGED <<stores, callVars, flight, pending, file, flush, startVars, faults,
                   fates, cleared>>
    /\ Watch

\* Fault: the write joins the list only.
FailUnsaved(w) ==
    /\ w \in flight \cup landed
    /\ Fault
    /\ flight' = flight \ {w} /\ landed' = landed \ {w}
    /\ pending' = Append(pending, Entry(w))
    /\ UNCHANGED <<stores, callVars, file, flush, startVars, fates, cleared>>
    /\ Watch

\* The write fails, or its answer is lost: enqueue.
Fail(w) ==
    /\ w \in flight \cup landed
    /\ Fault
    /\ flight' = flight \ {w} /\ landed' = landed \ {w}
    /\ pending' = Append(pending, Entry(w))
    /\ file' = pending'
    /\ UNCHANGED <<stores, callVars, flush, startVars, fates, cleared>>
    /\ Watch

\* _flush_pending goes through the list, which may grow meanwhile.
Flushing == flush.at \in DOMAIN pending
Current  == pending[flush.at].write

\* Fault: there is no retry loop, the list is flushed as the bot starts.
FlushStartsAtBoot ==
    /\ phase = "copy" /\ flush = NoFlush /\ pending # <<>>
    /\ flush' = [NoFlush EXCEPT !.at = 1]
    /\ UNCHANGED <<stores, callVars, flight, landed, pending, file, startVars, faults,
                   fates, cleared>>
    /\ Watch

FlushStarts ==
    /\ phase = "run" /\ flush = NoFlush /\ pending # <<>>
    /\ flush' = [NoFlush EXCEPT !.at = 1]
    /\ UNCHANGED <<stores, callVars, flight, landed, pending, file, startVars, faults,
                   fates, cleared>>
    /\ Watch

FlushLands ==
    /\ Flushing /\ ~flush.hit
    /\ Apply(Current)
    /\ flush' = [flush EXCEPT !.hit = TRUE]
    /\ UNCHANGED <<row, cache, callVars, flight, landed, pending, file, startVars, faults,
                   issued, dropped, cut, missed, cleared>>
    /\ Watch

FlushAnswered ==
    /\ Flushing /\ flush.hit
    /\ flush' = [flush EXCEPT !.at = @ + 1, !.hit = FALSE]
    /\ UNCHANGED <<stores, callVars, flight, landed, pending, file, startVars, faults,
                   fates, cleared>>
    /\ Watch

\* The entry stays for the next flush, or has been tried often enough.
FlushFails ==
    LET e == [pending[flush.at] EXCEPT !.retries = @ + 1] IN
    /\ Flushing
    /\ Fault
    /\ pending' = [pending EXCEPT ![flush.at] = e]
    /\ IF e.retries < MaxRetries
       THEN /\ flush' = [at |-> flush.at + 1, kept |-> Append(flush.kept, e), hit |-> FALSE]
            /\ UNCHANGED dropped
       ELSE /\ flush' = [flush EXCEPT !.at = @ + 1, !.hit = FALSE]
            /\ dropped' = dropped \cup {e.write}
    /\ UNCHANGED <<stores, callVars, flight, landed, file, startVars,
                   issued, applied, cut, missed, cleared>>
    /\ Watch

FlushEnds ==
    /\ flush # NoFlush /\ ~Flushing
    /\ pending' = flush.kept /\ file' = flush.kept
    /\ flush' = NoFlush
    /\ UNCHANGED <<stores, callVars, flight, landed, startVars, faults, fates, cleared>>
    /\ Watch

-----------------------------------------------------------------------------
(* The process ends, is started again, and copies MongoDB into SQLite.     *)

Crash ==
    /\ phase # "down"
    /\ Fault
    /\ phase' = "down" /\ todo' = {} /\ snap' = [u \in Users |-> Absent]
    /\ cache' = [u \in Users |-> Absent]
    /\ pc' = [c \in Calls |-> IF pc[c] = "new" THEN "new" ELSE "done"]
    /\ val' = [c \in Calls |-> Absent]
    /\ cut' = cut \cup flight
    /\ flight' = {} /\ landed' = {} /\ pending' = <<>> /\ flush' = NoFlush
    /\ UNCHANGED <<row, doc, verifying, file, issued, applied, dropped,
                   missed, cleared>>
    /\ Watch

Boot ==
    /\ phase = "down"
    /\ phase' = "sync"
    /\ pending' = file
    /\ UNCHANGED <<stores, callVars, flight, landed, file, flush, snap, todo, faults,
                   fates, cleared>>
    /\ Watch

SyncReads ==
    /\ phase = "sync"
    /\ phase' = "copy"
    /\ snap' = doc /\ todo' = {u \in Users : doc[u] # Absent}
    /\ UNCHANGED <<stores, callVars, syncVars, faults, fates, cleared>>
    /\ Watch

SyncFails ==
    /\ phase = "sync"
    /\ Fault
    /\ phase' = "run"
    /\ UNCHANGED <<stores, callVars, syncVars, snap, todo, fates, cleared>>
    /\ Watch

SyncCopies(u) ==
    /\ u \in todo
    /\ \/ row' = [row EXCEPT ![u] = snap[u]] /\ UNCHANGED <<missed, faults>>
       \/ SqliteFails(u) /\ UNCHANGED row
    /\ todo' = todo \ {u} /\ snap' = [snap EXCEPT ![u] = Absent]
    /\ UNCHANGED <<doc, cache, callVars, syncVars, phase, issued, applied, dropped, cut, cleared>>
    /\ Watch

SyncEnds ==
    /\ phase = "copy" /\ todo = {}
    /\ phase' = "run"
    /\ UNCHANGED <<stores, callVars, syncVars, snap, todo, faults, fates, cleared>>
    /\ Watch

-----------------------------------------------------------------------------
Handler(c) == \/ FindCached(c) \/ FindMisses(c) \/ Select(c) \/ Fill(c)
              \/ Ask(c) \/ AskInVain(c) \/ Came(c) \/ Mirror(c)
              \/ Look(c) \/ Insert(c) \/ Check(c) \/ Update(c)

Delivery(w) == Land(w) \/ Answer(w) \/ Fail(w)
Flush       == FlushStarts \/ FlushLands \/ FlushAnswered \/ FlushFails \/ FlushEnds
Startup     == SyncReads \/ SyncFails \/ SyncEnds \/ \E u \in Users : SyncCopies(u)

Next == \/ \E c \in Calls : Start(c) \/ Talk(c) \/ Handler(c)
        \/ \E w \in Open : Delivery(w)
        \/ Flush \/ Startup \/ Crash \/ Boot

Spec == Init /\ [][Next]_vars

\* The event loop runs what can run, MongoDB answers or fails, and the retry
\* loop comes round.  Users may not answer, and nobody has to start the process.
Fairness == /\ WF_vars(\E c \in Calls : Handler(c))
            /\ WF_vars(\E w \in Open : Delivery(w))
            /\ WF_vars(Flush) /\ WF_vars(Startup)

FairSpec == Spec /\ Fairness

-----------------------------------------------------------------------------
Places == Changing \cup {"new", "look", "find", "select", "found", "ask", "check", "talk", "done"}

TypeOK ==
    /\ row \in [Users -> Records \cup {Absent}]
    /\ doc \in [Users -> Records \cup {Absent}]
    /\ cache \in [Users -> Records \cup {Absent}]
    /\ pc \in [Calls -> Places]
    /\ val \in [Calls -> Records \cup {Absent}]
    /\ verifying \subseteq Calls
    /\ flight \subseteq Writes /\ landed \subseteq Writes
    /\ pending \in Seq(Entries) /\ file \in Seq(Entries)
    /\ flush \in [at : Nat, kept : Seq(Entries), hit : BOOLEAN]
    /\ phase \in {"down", "sync", "copy", "run"}
    /\ snap \in [Users -> Records \cup {Absent}] /\ todo \subseteq Users
    /\ faults \in Nat
    /\ issued \subseteq Writes /\ applied \subseteq Writes
    /\ dropped \subseteq Writes /\ cut \subseteq Writes /\ missed \subseteq Users
    /\ crossed \subseteq Users /\ raced \subseteq Users /\ cleared \subseteq Users

\* sync_manager.py 15: "Pending queue survives bot restart (JSON file)".  A write
\* handed to background_sync is on its way, has reached MongoDB, waits in the list
\* (in the file, while the process is down), or was given up after MaxRetries
\* flushes; only those under way when the process ends are gone.  It holds though
\* writes join the list while a flush goes through it and replaces it.
NoWriteLost ==
    issued \subseteq flight \cup applied \cup dropped \cup cut
                     \cup In(IF phase = "down" THEN file ELSE pending)

\* update_user, "ALWAYS invalidate cache before any DB write": a cached record is
\* the row's, unless a find_user held a record while the row was being written, the
\* copy at the start met the cache, or SQLite failed on the row.
CacheFresh ==
    \A u \in Users \ (raced \cup missed) :
        cache[u] \in {Absent, row[u]} \/ At(u, {"mirror"}) # {}

\* The two stores come to agree on every user whose writes came one at a time and were
\* neither given up nor cut off, on whose row SQLite did not fail, whatever else fails.
StoresAgree ==
    \A u \in Users :
        <>[](\/ phase = "down" \/ row[u] \in {Absent, doc[u]}
             \/ u \in crossed \cup missed \/ \E w \in dropped \cup cut : Owner(w) = u)

\* logout, "Verify DB actually cleared"; find_user, "SQLite is the primary source of
\* truth": SQLite gives no session to a user who has logged out and not in again,
\* unless it failed itself.
LogoutLasts == \A u \in cleared \ missed : row[u] \notin Sessions

\* async_db.py 11: "local-first - cache is safe longer": the cache is never behind
\* the row, unless SQLite failed.
CacheSafe ==
    \A u \in Users \ missed : cache[u] \in {Absent, row[u]} \/ At(u, {"mirror"}) # {}
=============================================================================
