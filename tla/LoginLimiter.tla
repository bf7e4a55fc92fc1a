----------------------------- MODULE LoginLimiter ----------------------------
(***************************************************************************)
(* LoginRateLimiter: at most MaxConcurrent logins by phone at a time, a    *)
(* pause between any two, a longer one between two of a user, and so many  *)
(* attempts of a user in an hour.                                          *)
(*                                                                         *)
(* The code keeps time stamps and only ever compares their ages with the   *)
(* limits; here the ages are kept, each up to the limit it is compared     *)
(* with, so that time may go on for ever.                                  *)
(***************************************************************************)
EXTENDS Integers, Sequences, FiniteSets

CONSTANTS Users,
          Convs,          \* conversations: a /login or a /qrlogin each
          UserOf,
          MaxConcurrent,  \* MAX_CONCURRENT_LOGINS
          GlobalCooldown, \* LOGIN_COOLDOWN_SECONDS
          UserCooldown,   \* USER_LOGIN_COOLDOWN
          Hour,
          MaxPerHour,     \* MAX_LOGIN_ATTEMPTS_PER_HOUR
          QueueWait,      \* what can_login answers when all slots are taken
          SlotTime,       \* timeout of acquire
          FastWait        \* wait_seconds of allow_fast_relogin

ASSUME LimiterAssumption ==
    /\ UserOf \in [Convs -> Users] /\ IsFiniteSet(Convs)
    /\ MaxConcurrent \in Nat \ {0} /\ MaxPerHour \in Nat \ {0}
    /\ GlobalCooldown \in Nat \ {0} /\ UserCooldown \in Nat \ {0} /\ Hour \in Nat \ {0}
    /\ QueueWait \in Nat \ {0} /\ SlotTime \in Nat \ {0} /\ FastWait \in Nat \ {0}

VARIABLES
    permits,     \* of the semaphore
    active,      \* _active_logins
    holders,     \* conversations inside acquire() with a slot
    queue,       \* conversations that wait for the semaphore
    loggingIn,   \* is_logging_in
    attempts,    \* attempts_this_hour
    sinceGlobal, \* age of _last_global_login
    since,       \* age of last_attempt
    sinceHour,   \* age of hour_start
    grant        \* time left until next_allowed_at_override, or NoGrant

slotVars    == <<permits, active, holders, queue, loggingIn>>
stampVars   == <<attempts, sinceGlobal, since, sinceHour, grant>>
limiterVars == <<slotVars, stampVars>>

NoGrant == -1

AtMost(a, b)  == IF a <= b THEN a ELSE b
AtLeast(a, b) == IF a >= b THEN a ELSE b

LimiterInit ==
    /\ permits = MaxConcurrent /\ active = 0 /\ holders = {} /\ queue = <<>>
    /\ loggingIn = [u \in Users |-> FALSE]
    /\ attempts = [u \in Users |-> 0]
    /\ sinceGlobal = GlobalCooldown
    /\ since = [u \in Users |-> UserCooldown]
    /\ sinceHour = [u \in Users |-> Hour]
    /\ grant = [u \in Users |-> NoGrant]

-----------------------------------------------------------------------------
\* reset_hour_if_needed: the hour is over, the count begins anew.
HourOver(u) == sinceHour[u] >= Hour
Attempts(u) == IF HourOver(u) THEN 0 ELSE attempts[u]

\* time_until_can_retry.  A grant that has run out is dropped, and the wait
\* is the whole one again.
UserWait(u) ==
    LET whole == UserCooldown - since[u]
    IN  IF grant[u] # NoGrant /\ grant[u] > 0 THEN AtMost(whole, grant[u]) ELSE AtLeast(whole, 0)

\* What looking at a user's state does to it.
Refresh(u, looksAtWait) ==
    /\ attempts' = [attempts EXCEPT ![u] = Attempts(u)]
    /\ sinceHour' = [sinceHour EXCEPT ![u] = IF HourOver(u) THEN 0 ELSE @]
    /\ grant' = [grant EXCEPT ![u] = IF looksAtWait /\ @ = 0 THEN NoGrant ELSE @]
    /\ UNCHANGED <<sinceGlobal, since>>

\* can_login: the questions in their order, with the answer as the seconds to
\* wait; Free means that the login may go on, Never that there is no time to name.
Free  == -1
Never == 0

\* Fault: one attempt more.
VerdictLax(u) ==
    IF loggingIn[u]                        THEN Never
    ELSE IF Attempts(u) > MaxPerHour       THEN Hour - sinceHour[u]
    ELSE IF UserWait(u) > 0                THEN UserWait(u)
    ELSE IF sinceGlobal < GlobalCooldown   THEN GlobalCooldown - sinceGlobal
    ELSE IF active >= MaxConcurrent        THEN QueueWait
    ELSE Free

Verdict(u) ==
    IF loggingIn[u]                        THEN Never
    ELSE IF Attempts(u) >= MaxPerHour      THEN Hour - sinceHour[u]
    ELSE IF UserWait(u) > 0                THEN UserWait(u)
    ELSE IF sinceGlobal < GlobalCooldown   THEN GlobalCooldown - sinceGlobal
    ELSE IF active >= MaxConcurrent        THEN QueueWait
    ELSE Free

\* can_login looks at the hour unless a login is under way, and at the wait
\* unless the limit of the hour is reached.
Ask(u) ==
    IF loggingIn[u] THEN UNCHANGED stampVars
    ELSE Refresh(u, Attempts(u) < MaxPerHour)

\* allow_fast_relogin, and whether it tells the user that the wait is short.
LightLoad  == active < MaxConcurrent
FastRelogin(u) ==
    IF ~LightLoad THEN UNCHANGED stampVars
    ELSE /\ attempts' = [attempts EXCEPT ![u] = Attempts(u)]
         /\ sinceHour' = [sinceHour EXCEPT ![u] = IF HourOver(u) THEN 0 ELSE @]
         /\ grant' = [grant EXCEPT ![u] = IF UserWait(u) > FastWait THEN FastWait
                                          ELSE IF @ = 0 THEN NoGrant ELSE @]
         /\ UNCHANGED <<sinceGlobal, since>>

-----------------------------------------------------------------------------
(* The semaphore.                                                          *)

Join(c) == queue' = Append(queue, c)

\* q without its i-th element.
Without(q, i) == [k \in 1..(Len(q) - 1) |-> IF k < i THEN q[k] ELSE q[k + 1]]

Leave(c) == \E i \in DOMAIN queue : queue[i] = c /\ queue' = Without(queue, i)

\* Fault: the stamp of the attempt is not set.
RecordUndated(u) ==
    /\ attempts' = [attempts EXCEPT ![u] = Attempts(u) + 1]
    /\ sinceHour' = [sinceHour EXCEPT ![u] = IF HourOver(u) THEN 0 ELSE @]
    /\ grant' = [grant EXCEPT ![u] = NoGrant]
    /\ sinceGlobal' = 0
    /\ UNCHANGED since

\* record_attempt of the one who got the slot.
Record(u) ==
    /\ attempts' = [attempts EXCEPT ![u] = Attempts(u) + 1]
    /\ sinceHour' = [sinceHour EXCEPT ![u] = IF HourOver(u) THEN 0 ELSE @]
    /\ since' = [since EXCEPT ![u] = 0]
    /\ grant' = [grant EXCEPT ![u] = NoGrant]
    /\ sinceGlobal' = 0

\* Fault: the semaphore lets in whom it likes.
TakeAny(c) ==
    /\ permits > 0
    /\ permits' = permits - 1 /\ Leave(c)
    /\ active' = active + 1 /\ holders' = holders \cup {c}
    /\ loggingIn' = [loggingIn EXCEPT ![UserOf[c]] = TRUE]
    /\ Record(UserOf[c])

\* A permit goes to the first who waits.
Take(c) ==
    /\ queue # <<>> /\ Head(queue) = c /\ permits > 0
    /\ permits' = permits - 1 /\ queue' = Tail(queue)
    /\ active' = active + 1 /\ holders' = holders \cup {c}
    /\ loggingIn' = [loggingIn EXCEPT ![UserOf[c]] = TRUE]
    /\ Record(UserOf[c])

\* Fault: the flag stays up.
GiveFlagged(c) ==
    IF c \in holders
    THEN /\ permits' = permits + 1 /\ active' = active - 1
         /\ holders' = holders \ {c}
         /\ UNCHANGED loggingIn
    ELSE UNCHANGED <<permits, active, holders, loggingIn>>

\* Fault: the semaphore is released whether or not it was acquired.
GiveTwice(c) ==
    /\ permits' = permits + 1
    /\ IF c \in holders
       THEN /\ active' = active - 1 /\ holders' = holders \ {c}
            /\ loggingIn' = [loggingIn EXCEPT ![UserOf[c]] = FALSE]
       ELSE UNCHANGED <<active, holders, loggingIn>>

\* The finally of acquire().
Give(c) ==
    IF c \in holders
    THEN /\ permits' = permits + 1 /\ active' = active - 1
         /\ holders' = holders \ {c}
         /\ loggingIn' = [loggingIn EXCEPT ![UserOf[c]] = FALSE]
    ELSE UNCHANGED <<permits, active, holders, loggingIn>>

\* A unit of time goes by.
Older ==
    /\ sinceGlobal' = AtMost(sinceGlobal + 1, GlobalCooldown)
    /\ since' = [u \in Users |-> AtMost(since[u] + 1, UserCooldown)]
    /\ sinceHour' = [u \in Users |-> AtMost(sinceHour[u] + 1, Hour)]
    /\ grant' = [u \in Users |-> IF grant[u] = NoGrant THEN NoGrant
                                 ELSE AtLeast(grant[u] - 1, 0)]
    /\ UNCHANGED attempts
=============================================================================
