------------------------------ MODULE SlotPool ------------------------------
(***************************************************************************)
(* The premium sessions that upload for others: session_registry.py says   *)
(* who may use a session, borrow_manager.py counts the uploads on it, and  *)
(* flood_controller.py remembers that Telegram told it to wait.            *)
(*                                                                         *)
(* No coroutine waits inside BorrowManager's lock, so selection and        *)
(* try_acquire run as one step: nothing comes between check and increment. *)
(***************************************************************************)
EXTENDS UploadParams

CONSTANTS Kind,      \* record.type
          OwnerOf,   \* record.owner_user_id; not a user for a GLOBAL session
          Place,     \* insertion order in the registry
          Limits,    \* values of max_parallel_tasks the owner chooses from
          NewLimit,  \* max_parallel_tasks of a session just registered
          Spare      \* sessions not registered when the model starts

Kinds == {"user_owned", "dedicated", "borrowable", "global"}

ASSUME SlotPoolAssumption ==
    /\ \A s \in Sessions : Kind[s] \in Kinds /\ Place[s] \in Nat
    /\ \A s, t \in Sessions : Place[s] = Place[t] => s = t
    /\ Limits \subseteq Nat \ {0} /\ NewLimit \in Limits
    /\ Spare \subseteq Sessions

VARIABLES
    status,   \* not registered yet, record.enabled or not, or removed
    lent,     \* record.allow_borrow
    limit,    \* record.max_parallel_tasks
    current,  \* record.current_tasks
    since,    \* _acquire_times: none, fresh, or over BORROW_TIMEOUT_SEC
    flooded   \* sessions under a flood wait

recordVars == <<status, lent, limit>>
countVars  == <<current, since>>
poolVars   == <<recordVars, countVars, flooded>>

SlotPoolTypeOK ==
    /\ status \in [Sessions -> {"absent", "enabled", "disabled", "removed"}]
    /\ lent \in [Sessions -> BOOLEAN]
    /\ limit \in [Sessions -> Limits]
    /\ current \in [Sessions -> Nat]
    /\ since \in [Sessions -> [Users -> {"none", "fresh", "stale"}]]
    /\ flooded \subseteq Sessions

SlotPoolInit ==
    /\ status = [s \in Sessions |-> IF s \in Spare THEN "absent" ELSE "enabled"]
    /\ lent = [s \in Sessions |-> Kind[s] = "borrowable"]
    /\ limit = [s \in Sessions |-> NewLimit]
    /\ current = [s \in Sessions |-> 0]
    /\ since = [s \in Sessions |-> [u \in Users |-> "none"]]
    /\ flooded = {}

-----------------------------------------------------------------------------
(* The order in which a session is looked for                              *)

Enabled(k) == {s \in Sessions : Kind[s] = k /\ status[s] = "enabled"}

\* get_user_owned, get_dedicated: only the first one registered counts.
OwnFirst(k, u) ==
    {s \in Enabled(k) :
        /\ OwnerOf[s] = u
        /\ \A t \in Enabled(k) : OwnerOf[t] = u => Place[s] <= Place[t]}

\* get_borrowable
Borrowable(u) == {s \in Enabled("borrowable") : lent[s] /\ OwnerOf[s] # u}

\* Candidates and their rank, for a user's upload and for a background one.
ForUser(u) == OwnFirst("user_owned", u) \cup OwnFirst("dedicated", u)
                  \cup Borrowable(u) \cup Enabled("global")
ForSystem  == {s \in Enabled("borrowable") : lent[s]} \cup Enabled("global")

UserRank   == [user_owned |-> 1, dedicated |-> 2, borrowable |-> 3, global |-> 4]
SystemRank == [global |-> 1, borrowable |-> 2, user_owned |-> 3, dedicated |-> 4]

Ahead(s, t, rank) ==
    \/ rank[Kind[s]] < rank[Kind[t]]
    \/ Kind[s] = Kind[t] /\ Place[s] < Place[t]

-----------------------------------------------------------------------------
(* Slots                                                                   *)

Less(n, k) == IF n > k THEN n - k ELSE 0

Stale(s) == {u \in Users : since[s][u] = "stale"}

\* _reclaim_stale_sync, run by every availability check it gets to
Reclaimed(s) == Less(current[s], Cardinality(Stale(s)))
Refreshed(s) == [u \in Users |-> IF u \in Stale(s) THEN "none" ELSE since[s][u]]

\* is_session_available, for a session that is enabled
Available(s) == s \notin flooded /\ Reclaimed(s) < limit[s]

\* The scan takes the first available candidate; whatever it looked at on the
\* way, and is not flooded, has its stale borrows reclaimed.
Scanned(cands, chosen, rank) ==
    {t \in cands \ flooded : t \in chosen \/ \A s \in chosen : Ahead(t, s, rank)}

Scan(cands, chosen, rank) ==
    /\ chosen \subseteq cands
    /\ \A s \in chosen : Available(s)
    /\ \A t \in cands \ chosen :
           Available(t) => \E s \in chosen : Ahead(s, t, rank)

\* Selection of s and try_acquire for u
Borrow(s, u, cands, rank) ==
    /\ Scan(cands, {s}, rank)
    /\ current' = [t \in Sessions |->
                     IF t = s THEN Reclaimed(s) + 1
                     ELSE IF t \in Scanned(cands, {s}, rank) THEN Reclaimed(t)
                     ELSE current[t]]
    /\ since' = [t \in Sessions |->
                   IF t = s THEN [Refreshed(s) EXCEPT ![u] = "fresh"]
                   ELSE IF t \in Scanned(cands, {s}, rank) THEN Refreshed(t)
                   ELSE since[t]]
    /\ UNCHANGED <<recordVars, flooded>>

\* No session: the candidates have been scanned to the end.
NoneAvailable(cands) ==
    /\ \A t \in cands : ~Available(t)
    /\ current' = [t \in Sessions |->
                     IF t \in cands \ flooded THEN Reclaimed(t) ELSE current[t]]
    /\ since' = [t \in Sessions |->
                   IF t \in cands \ flooded THEN Refreshed(t) ELSE since[t]]
    /\ UNCHANGED <<recordVars, flooded>>

\* Fault: the error path releases, and then the finally block again.
ReleaseTwice(s, u) ==
    /\ current' = [current EXCEPT ![s] = Less(@, 2)]
    /\ since' = [since EXCEPT ![s][u] = "none"]
    /\ UNCHANGED <<recordVars, flooded>>

Release(s, u) ==
    /\ current' = [current EXCEPT ![s] = Less(@, 1)]
    /\ since' = [since EXCEPT ![s][u] = "none"]
    /\ UNCHANGED <<recordVars, flooded>>

\* mark_flood sets the counter to 0; the release that follows finds it there.
MarkFloodAndRelease(s) ==
    /\ flooded' = flooded \cup {s}
    /\ current' = [current EXCEPT ![s] = 0]
    /\ since' = [since EXCEPT ![s] = [u \in Users |-> "none"]]
    /\ UNCHANGED recordVars

-----------------------------------------------------------------------------
(* Time and the bot's owner                                                *)

\* BORROW_TIMEOUT_SEC passes.
GrowStale(s, u) ==
    /\ since[s][u] = "fresh"
    /\ since' = [since EXCEPT ![s][u] = "stale"]
    /\ UNCHANGED <<recordVars, current, flooded>>

FloodExpires(s) ==
    /\ s \in flooded
    /\ flooded' = flooded \ {s}
    /\ UNCHANGED <<recordVars, countVars>>

Register(s) ==
    /\ status[s] = "absent"
    /\ status' = [status EXCEPT ![s] = "enabled"]
    /\ UNCHANGED <<lent, limit, countVars, flooded>>

Known(s) == status[s] \in {"enabled", "disabled"}

\* disable_session refuses a user's own session.
Disable(s) ==
    /\ status[s] = "enabled" /\ Kind[s] # "user_owned"
    /\ status' = [status EXCEPT ![s] = "disabled"]
    /\ UNCHANGED <<lent, limit, countVars, flooded>>

Enable(s) ==
    /\ status[s] = "disabled"
    /\ status' = [status EXCEPT ![s] = "enabled"]
    /\ UNCHANGED <<lent, limit, countVars, flooded>>

DisableAllGlobal ==
    /\ Enabled("global") # {}
    /\ status' = [s \in Sessions |->
                    IF s \in Enabled("global") THEN "disabled" ELSE status[s]]
    /\ UNCHANGED <<lent, limit, countVars, flooded>>

\* Uploads that hold the record go on with it.
Remove(s) ==
    /\ Known(s)
    /\ status' = [status EXCEPT ![s] = "removed"]
    /\ UNCHANGED <<lent, limit, countVars, flooded>>

SetLimit(s, n) ==
    /\ Known(s) /\ n # limit[s]
    /\ limit' = [limit EXCEPT ![s] = n]
    /\ UNCHANGED <<status, lent, countVars, flooded>>

SetLent(s, b) ==
    /\ Known(s) /\ b # lent[s]
    /\ lent' = [lent EXCEPT ![s] = b]
    /\ UNCHANGED <<status, limit, countVars, flooded>>
=============================================================================
