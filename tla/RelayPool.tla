----------------------------- MODULE RelayPool ------------------------------
(***************************************************************************)
(* PremiumSessionPool of core/premium_relay.py: the premium sessions that  *)
(* uploads borrow in turn.  A borrower keeps an index into the pool; a     *)
(* session that floods is paused, one that blocked the bot is disabled.    *)
(*                                                                         *)
(* The pool's lock is never held across an await, so that each call is one *)
(* step, also when a borrower makes two in a row.                          *)
(***************************************************************************)
EXTENDS Integers, Sequences, FiniteSets

CONSTANTS Sessions,     \* premium session strings
          InitialPool,  \* the pool loaded at startup
          Pools,        \* what a reload may replace it with
          ReloadLimit   \* bound: reloads

ASSUME RelayPoolAssumption ==
    /\ InitialPool \in Seq(Sessions)
    /\ Pools \subseteq Seq(Sessions)
    /\ ReloadLimit \in Nat

VARIABLES
    pool,     \* _sessions
    next,     \* _index, counted from 1
    paused,   \* indices whose _paused_until lies ahead
    fatal,    \* _fatal
    reloads,  \* counter, bounded by ReloadLimit
    guilty    \* history: sessions that flooded or blocked the bot

poolVars == <<pool, next, paused, fatal, reloads, guilty>>

PoolInit ==
    /\ pool = InitialPool
    /\ next = 1
    /\ paused = {} /\ fatal = {}
    /\ reloads = 0
    /\ guilty = {}

Free(stopped) == DOMAIN pool \ stopped

\* Indices looked at before i, from _index on and round the pool.
Before(i) == IF next <= i THEN next..(i - 1)
                          ELSE {k \in DOMAIN pool : k >= next \/ k < i}

Following(i) == IF i < Len(pool) THEN i + 1 ELSE 1

\* get_available() gives index i when the indices in stopped may not be used.
Gives(i, stopped) ==
    /\ i \in Free(stopped)
    /\ Before(i) \subseteq stopped
    /\ next' = Following(i)

\* get_available() gives None.
GivesNone(stopped) == Free(stopped) = {}

\* next_available_in() is None: no session will ever be free again.
NoneLeft(disabled) == DOMAIN pool \subseteq disabled

\* The pause of a session runs out.
Resume(i) ==
    /\ i \in paused
    /\ paused' = paused \ {i}
    /\ UNCHANGED <<pool, next, fatal, reloads, guilty>>

\* set_sessions(): the owner adds or removes a premium session.  Uploads keep
\* the indices they hold.
Reload ==
    /\ reloads < ReloadLimit
    /\ reloads' = reloads + 1
    /\ pool' \in Pools
    /\ next' = 1
    /\ paused' = {} /\ fatal' = {}
    /\ UNCHANGED guilty

PoolTypeOK ==
    /\ pool \in Seq(Sessions)
    /\ next \in Nat /\ (next \in DOMAIN pool \/ (pool = <<>> /\ next = 1))
    /\ paused \subseteq Nat \ {0} /\ fatal \subseteq Nat \ {0}
    /\ reloads \in Nat
    /\ guilty \subseteq Sessions
=============================================================================
