------------------------------ MODULE Broadcast ------------------------------
(***************************************************************************)
(* core/broadcast.py: one message of the owner to every registered user,   *)
(* one user after the other, with retries, a cooldown that all attempts    *)
(* share with the progress messages, and /stop broadcast at any await.     *)
(***************************************************************************)
EXTENDS Integers, Sequences, FiniteSets, SequencesExt

CONSTANTS Users,
          Rows,        \* what the two databases list: a user may be listed twice
          MaxAttempts, \* max_attempts
          CastCases    \* bound: how many broadcasts, /stop and bans, and how much goes wrong

ASSUME BroadcastAssumption ==
    /\ Rows \in Seq(Users) /\ MaxAttempts \in Nat \ {0}
    /\ CastCases \subseteq [jobs : Nat, stops : Nat, bans : Nat, errors : Nat]

VARIABLES
    stage,             \* where _run is
    row, people, turn, \* the next row; recipients, and the one whose turn it is
    cancel,            \* job.cancel
    tally, excluded,   \* successful, failed and skipped; excluded
    whole, status,     \* selection_complete, status
    tries,             \* attempts for this recipient
    flood, covered,    \* time is before _flood_until; the gate's delay knows it
    barred,            \* users who are banned
    quota,             \* what may still happen
    got, lost,         \* history: deliveries to each user; those that were not acknowledged
    met,               \* history: who was banned when its turn came
    after              \* history: deliveries since the cancellation

recipients == <<row, people, turn, excluded, whole>>
castHistory == <<got, lost, met, after>>
castVars   == <<stage, recipients, cancel, tally, status, tries, flood, covered, barred, quota,
                castHistory>>

NoTally   == [successful |-> 0, failed |-> 0, skipped |-> 0]
Processed == tally.successful + tally.failed + tally.skipped
Running   == stage \notin {"idle", "ended"}
Recipient  == people[turn]

CastInit ==
    /\ stage = "idle" /\ row = 1 /\ people = <<>> /\ turn = 1 /\ cancel = FALSE
    /\ tally = NoTally /\ excluded = 0 /\ whole = FALSE /\ status = "none" /\ tries = 0
    /\ flood = FALSE /\ covered = FALSE /\ barred \in SUBSET Users
    /\ quota \in CastCases
    /\ got = [u \in Users |-> 0] /\ lost = got /\ met = {} /\ after = 0

Spend(what) == quota[what] > 0 /\ quota' = [quota EXCEPT ![what] = @ - 1]

\* start(): refused while a job runs.
Start ==
    /\ ~Running /\ Spend("jobs")
    /\ stage' = "hello" /\ row' = 1 /\ people' = <<>> /\ turn' = 1 /\ cancel' = FALSE
    /\ tally' = NoTally /\ excluded' = 0 /\ whole' = FALSE /\ status' = "selecting"
    /\ tries' = 0 /\ covered' = FALSE
    /\ got' = [u \in Users |-> 0] /\ lost' = got' /\ met' = {} /\ after' = 0
    /\ UNCHANGED <<flood, barred>>

\* The first progress message is out, or has failed.
Hello ==
    /\ stage = "hello" /\ stage' = "rows"
    /\ UNCHANGED <<recipients, cancel, tally, status, tries, flood, covered, barred, quota, castHistory>>

Finish(s) == stage' = "closing" /\ status' = s

\* Fault: a user who is listed twice is taken twice.
RowAgain ==
    LET u == Rows[row] IN
    /\ stage = "rows" /\ row <= Len(Rows) /\ ~cancel
    /\ row' = row + 1
    /\ IF u \in barred THEN excluded' = excluded + 1 /\ UNCHANGED people
       ELSE people' = Append(people, u) /\ UNCHANGED excluded
    /\ UNCHANGED <<stage, turn, whole, cancel, tally, status, tries, flood, covered, barred, quota,
                   castHistory>>

\* One row: a user who is listed again is passed over.
Row ==
    LET u == Rows[row] IN
    /\ stage = "rows" /\ row <= Len(Rows) /\ ~cancel
    /\ row' = row + 1
    /\ IF \E i \in 1..(row - 1) : Rows[i] = u THEN UNCHANGED <<people, excluded>>
       ELSE IF u \in barred THEN excluded' = excluded + 1 /\ UNCHANGED people
       ELSE people' = Append(people, u) /\ UNCHANGED excluded
    /\ UNCHANGED <<stage, turn, whole, cancel, tally, status, tries, flood, covered, barred, quota,
                   castHistory>>

RowsEnd ==
    /\ stage = "rows" /\ (row > Len(Rows) \/ cancel)
    /\ stage' = "turn" /\ whole' = ~cancel
    /\ status' = IF cancel THEN status ELSE "in progress"
    /\ UNCHANGED <<row, people, turn, excluded, cancel, tally, tries, flood, covered, barred, quota,
                   castHistory>>

\* A question to the databases fails.
RowsFail ==
    /\ stage \in {"rows", "turn"} /\ Spend("errors")
    /\ Finish("stopped")
    /\ UNCHANGED <<recipients, cancel, tally, tries, flood, covered, barred, castHistory>>

\* Fault: a wait is not cut short.
WaitedOut == FALSE

\* _wait: a cancelled job waits no longer, and sends no more.
WaitCut == cancel

\* Attempt n begins: the gate computes its delay, once.
ToGate(n) ==
    /\ tries' = n
    /\ IF WaitCut THEN stage' = "next" /\ UNCHANGED covered
       ELSE stage' = "gate" /\ covered' = flood

\* Fault: who was banned since the selection is written to.
TurnUnchecked ==
    /\ stage = "turn" /\ turn <= Len(people) /\ ~cancel
    /\ met' = IF Recipient \in barred THEN met \cup {Recipient} ELSE met
    /\ ToGate(1)
    /\ UNCHANGED <<row, people, turn, excluded, whole, cancel, tally, status, flood, barred, quota, got,
                   lost, after>>

\* The next recipient, who may have been banned since the selection.
Turn ==
    /\ stage = "turn" /\ turn <= Len(people) /\ ~cancel
    /\ met' = IF Recipient \in barred THEN met \cup {Recipient} ELSE met
    /\ IF Recipient \in barred
       THEN /\ tally' = [tally EXCEPT !.skipped = @ + 1] /\ turn' = turn + 1
            /\ UNCHANGED <<stage, tries, covered>>
       ELSE ToGate(1) /\ UNCHANGED <<tally, turn>>
    /\ UNCHANGED <<row, people, excluded, whole, cancel, status, flood, barred, quota, got, lost, after>>

TurnsEnd ==
    /\ stage = "turn" /\ (turn > Len(people) \/ cancel)
    /\ Finish(IF cancel THEN "cancelled" ELSE "completed")
    /\ UNCHANGED <<recipients, cancel, tally, tries, flood, covered, barred, quota, castHistory>>

\* Cancelled in a wait, the recipient is counted nowhere.
PassedOver ==
    /\ stage = "next" /\ stage' = "turn" /\ turn' = turn + 1
    /\ UNCHANGED <<row, people, excluded, whole, cancel, tally, status, tries, flood, covered, barred,
                   quota, castHistory>>

Counted(what) ==
    /\ tally' = [tally EXCEPT ![what] = @ + 1]
    /\ stage' = "turn" /\ turn' = turn + 1

GatePasses ==
    /\ stage = "gate"
    /\ \/ WaitCut /\ stage' = "next"
       \/ ~WaitCut /\ (covered => ~flood) /\ stage' = "send"
    /\ UNCHANGED <<recipients, cancel, tally, status, tries, flood, covered, barred, quota, castHistory>>

Reaches == /\ got' = [got EXCEPT ![Recipient] = @ + 1]
           /\ after' = IF cancel THEN after + 1 ELSE after

Sent ==
    /\ stage = "send" /\ Reaches /\ Counted("successful")
    /\ UNCHANGED <<row, people, excluded, whole, cancel, status, tries, flood, covered, barred, quota,
                   lost, met>>

Unsent == UNCHANGED <<got, lost, after>>

\* The user is out of reach, or the send is refused for good.
Refused ==
    /\ stage = "send" /\ Spend("errors") /\ Unsent
    /\ Counted("skipped") \/ Counted("failed")
    /\ UNCHANGED <<row, people, excluded, whole, cancel, status, tries, flood, covered, barred, met>>

\* The source cannot be copied, or the flood is longer than five minutes.
Halted ==
    /\ stage = "send" /\ Spend("errors") /\ Unsent
    /\ tally' = [tally EXCEPT !.failed = @ + 1]
    /\ flood' \in {flood, TRUE}
    /\ Finish("stopped")
    /\ UNCHANGED <<recipients, cancel, tries, covered, barred, met>>

\* FloodWait: the next attempt waits for its end.
Flooded ==
    /\ stage = "send" /\ Spend("errors") /\ Unsent
    /\ flood' = TRUE
    /\ IF tries = MaxAttempts THEN Counted("failed") /\ UNCHANGED <<tries, covered>>
       ELSE /\ tries' = tries + 1 /\ UNCHANGED <<tally, turn>>
            /\ IF WaitCut THEN stage' = "next" /\ UNCHANGED covered
               ELSE stage' = "gate" /\ covered' = TRUE
    /\ UNCHANGED <<row, people, excluded, whole, cancel, status, barred, met>>

\* A timeout or a broken connection: the message may have arrived.
Transient ==
    /\ stage = "send" /\ Spend("errors")
    /\ \/ Unsent
       \/ Reaches /\ lost' = [lost EXCEPT ![Recipient] = @ + 1]
    /\ IF tries = MaxAttempts THEN Counted("failed") ELSE stage' = "backoff" /\ UNCHANGED <<tally, turn>>
    /\ UNCHANGED <<row, people, excluded, whole, cancel, status, tries, flood, covered, barred, met>>

Backoff ==
    /\ stage = "backoff" /\ ToGate(tries + 1)
    /\ UNCHANGED <<recipients, cancel, tally, status, flood, barred, quota, castHistory>>

Close ==
    /\ stage = "closing" /\ stage' = "ended"
    /\ UNCHANGED <<recipients, cancel, tally, status, tries, flood, covered, barred, quota, castHistory>>

\* /stop broadcast.
CancelJob ==
    /\ Running /\ ~cancel /\ Spend("stops") /\ cancel' = TRUE
    /\ UNCHANGED <<stage, recipients, tally, status, tries, flood, covered, barred, castHistory>>

\* shutdown(): five seconds after the cancellation the task is killed, in any await.
Kill ==
    /\ Running /\ stage # "closing" /\ cancel /\ Spend("errors")
    /\ \/ Unsent
       \/ stage = "send" /\ Reaches /\ lost' = [lost EXCEPT ![Recipient] = @ + 1]
    /\ Finish("cancelled")
    /\ UNCHANGED <<recipients, cancel, tally, tries, flood, covered, barred, met>>

\* A progress message meets a flood: the delay of the gate, if it waits, is from before.
ProgressFlooded ==
    /\ Running /\ ~flood /\ Spend("errors")
    /\ flood' = TRUE /\ covered' = FALSE
    /\ UNCHANGED <<stage, recipients, cancel, tally, status, tries, barred, castHistory>>

FloodEnds ==
    /\ flood /\ flood' = FALSE
    /\ UNCHANGED <<stage, recipients, cancel, tally, status, tries, covered, barred, quota, castHistory>>

Ban(u) ==
    /\ u \notin barred /\ Spend("bans") /\ barred' = barred \cup {u}
    /\ UNCHANGED <<stage, recipients, cancel, tally, status, tries, flood, covered, castHistory>>

Run == \/ Hello \/ Row \/ RowsEnd \/ Turn \/ TurnsEnd \/ PassedOver \/ GatePasses
       \/ Sent \/ Refused \/ Halted \/ Flooded \/ Transient \/ Backoff \/ Close

CastNext ==
    \/ Start \/ Run \/ RowsFail \/ CancelJob \/ Kill \/ ProgressFlooded \/ FloodEnds
    \/ \E u \in Users : Ban(u)

\* Every call has a timeout, and a cooldown ends.
CastFairness == WF_castVars(Run) /\ WF_castVars(FloodEnds)
CastSpec == CastInit /\ [][CastNext]_castVars /\ CastFairness

-----------------------------------------------------------------------------
(* Properties.                                                             *)

CastTypeOK ==
    /\ stage \in {"idle", "hello", "rows", "turn", "gate", "send", "backoff", "next", "closing", "ended"}
    /\ people \in Seq(Users) /\ IsInjective(people) /\ turn \in 1..(Len(people) + 1)
    /\ row \in 1..(Len(Rows) + 1) /\ tries \in 0..MaxAttempts
    /\ tally \in [{"successful", "failed", "skipped"} -> 0..Len(people)]
    /\ {cancel, whole, flood, covered} \subseteq BOOLEAN /\ barred \subseteq Users
    /\ {got, lost} \subseteq [Users -> 0..MaxAttempts] /\ met \subseteq Users

\* The statistics are true: "successful" are the users whose copy was acknowledged, nobody
\* is counted twice, and a broadcast that calls itself completed has counted everybody.
TallyTrue ==
    /\ tally.successful = Cardinality({u \in Users : got[u] > lost[u]})
    /\ Processed <= Len(people) /\ Len(people) + excluded <= Cardinality(Range(Rows))
    /\ status = "completed" => Processed = Len(people) /\ whole

\* Nobody receives a copy more than for those whose acknowledgement was lost, nor who was
\* banned when his turn came.
OneCopyEach == \A u \in Users : got[u] <= lost[u] + 1 /\ (u \in met => got[u] = 0)

\* /stop broadcast: at most the delivery in flight arrives.
StopsAtOnce == after <= 1

CastSound == TallyTrue /\ OneCopyEach /\ StopsAtOnce

\* A broadcast ends.
CastEnds == []<>~Running

\* "All attempts share a 4/s gate and full FloodWait cooldown."
CooldownShared == [][stage = "gate" /\ stage' = "send" => ~flood]_castVars
=============================================================================
