------------------------ MODULE SessionUpload_proofs ------------------------
(***************************************************************************)
(* Slots, queues and senders of the upload sessions, for any number of     *)
(* sessions, users and uploads, any limits and any bounds.                 *)
(***************************************************************************)
EXTENDS SessionUpload, FiniteSetTheorems, TLAPS

\* The slot count of one session: NoGhostSlot and CountExact together.
SlotInv(s) ==
    /\ current[s] <= Cardinality(Holders(s))
    /\ s \notin shaken => current[s] = Cardinality(Holders(s))

Slots == \A s \in Sessions : SlotInv(s)

\* What a job holds: a slot has a session, and a job that sends has a worker
\* for its user and that session.
Match ==
    \A j \in Jobs :
        /\ phase[j] \in Holding => sess[j] \in Sessions
        /\ phase[j] \in {"ready", "queued"} =>
              worker[j] \in Workers /\ SameKey(worker[j], j, sess[j])

\* One worker's queue: its tasks wait for this worker, each of them once.
Line(w) ==
    /\ \A i \in DOMAIN queue[w] : queue[w][i] \in Jobs =>
          /\ phase[queue[w][i]] = "queued" /\ worker[queue[w][i]] = w
          /\ queue[w][i] # serving[w]
    /\ \A i, k \in DOMAIN queue[w] :
          queue[w][i] \in Jobs /\ queue[w][i] = queue[w][k] => i = k
    /\ serving[w] # None =>
          /\ phase[serving[w]] = "queued" /\ worker[serving[w]] = w
          /\ loop[w] \in {"running", "stopping"}

Lines == \A w \in Workers : Line(w)

\* A job that waits is in the queue of its worker, or served by it.
Present ==
    \A j \in Jobs : phase[j] = "queued" =>
        \/ serving[worker[j]] = j
        \/ \E i \in DOMAIN queue[worker[j]] : queue[worker[j]][i] = j

IInv == TypeOK /\ Slots /\ Match /\ Lines /\ Present

-----------------------------------------------------------------------------
(* Counting                                                                *)

\* Holders are finitely many, so their number is a natural number.
LEMMA HoldersFinite ==
    ASSUME NEW s PROVE IsFiniteSet(Holders(s)) /\ Cardinality(Holders(s)) \in Nat
<1>1. Holders(s) \subseteq Jobs /\ IsFiniteSet(Jobs)
  BY UploadParamsAssumption DEF Holders
<1>2. IsFiniteSet(Holders(s))
  BY <1>1, FS_Subset
<1> QED BY <1>2, FS_CardinalityType

\* The same for the holders after the step.
LEMMA HoldersFiniteNext ==
    ASSUME NEW s PROVE IsFiniteSet(Holders(s)') /\ Cardinality(Holders(s)') \in Nat
<1>1. Holders(s)' \subseteq Jobs /\ IsFiniteSet(Jobs)
  BY UploadParamsAssumption DEF Holders
<1>2. IsFiniteSet(Holders(s)')
  BY <1>1, FS_Subset
<1> QED BY <1>2, FS_CardinalityType

\* Reclaiming removes a natural number of borrows, none if none is stale.
LEMMA ReclaimBound ==
    ASSUME TypeOK, NEW s \in Sessions
    PROVE  /\ Reclaimed(s) \in Nat /\ Reclaimed(s) <= current[s]
           /\ Stale(s) = {} => Reclaimed(s) = current[s]
<1>1. Stale(s) \subseteq Users /\ IsFiniteSet(Users)
  BY UploadParamsAssumption DEF Stale
<1>2. Cardinality(Stale(s)) \in Nat
  BY <1>1, FS_Subset, FS_CardinalityType
<1>3. Stale(s) = {} => Cardinality(Stale(s)) = 0
  BY FS_EmptySet
<1>4. current[s] \in Nat
  BY DEF TypeOK, SlotPoolTypeOK
<1> QED BY <1>2, <1>3, <1>4 DEF Reclaimed, Less

\* Nobody takes or gives back a slot.
LEMMA SlotsFrame ==
    ASSUME Slots, current' = current, shaken' = shaken,
           \A s \in Sessions : Holders(s)' = Holders(s)
    PROVE  Slots'
<1> SUFFICES ASSUME NEW s \in Sessions PROVE SlotInv(s)'
  BY DEF Slots
<1>1. SlotInv(s) /\ Holders(s)' = Holders(s)
  BY DEF Slots
<1> QED BY <1>1 DEF SlotInv

\* The count of a session whose holders stay is cut, or stays.
LEMMA SlotOther ==
    ASSUME TypeOK, NEW s \in Sessions, NEW cut, SlotInv(s), Holders(s)' = Holders(s),
           Shake(cut), current'[s] \in Nat, current'[s] <= current[s],
           s \notin cut => current'[s] = current[s]
    PROVE  SlotInv(s)'
<1> DEFINE n == Cardinality(Holders(s))
<1>1. n \in Nat /\ Cardinality(Holders(s)') = n
  BY HoldersFinite
<1>2. current[s] \in Nat /\ current[s] <= n /\ (s \notin shaken => current[s] = n)
  BY DEF SlotInv, TypeOK, SlotPoolTypeOK
<1>3. current'[s] <= n
  BY <1>1, <1>2
<1>4. ASSUME s \notin shaken' PROVE current'[s] = n
  <2>1. CASE Holders(s)' = {}
    <3>1. n = 0
      BY <1>1, <2>1, FS_EmptySet
    <3> QED BY <3>1, <1>3
  <2>2. CASE Holders(s)' # {}
    <3>1. s \notin shaken \cup cut
      BY <1>4, <2>2 DEF Shake
    <3> QED BY <3>1, <1>2
  <2> QED BY <2>1, <2>2
<1> QED BY <1>1, <1>3, <1>4 DEF SlotInv

\* A job leaves: its session has one holder less, the others keep theirs.
LEMMA HoldersLeave ==
    ASSUME TypeOK, NEW j \in Jobs, NEW p, phase[j] \in Holding, p \notin Holding,
           phase' = [phase EXCEPT ![j] = p], sess' = sess, NEW s
    PROVE  Holders(s)' = Holders(s) \ (IF s = sess[j] THEN {j} ELSE {})
BY DEF Holders, TypeOK

\* The finally block keeps every count right.
LEMMA SlotsLeave ==
    ASSUME TypeOK, Slots, Match, NEW j \in Jobs, phase[j] \in Holding,
           NEW p, p \notin Holding, LeaveAs(j, p)
    PROVE  Slots'
<1> SUFFICES ASSUME NEW s \in Sessions PROVE SlotInv(s)'
  BY DEF Slots
<1>1. /\ phase' = [phase EXCEPT ![j] = p] /\ sess' = sess /\ Shake({})
      /\ current' = [current EXCEPT ![sess[j]] = Less(@, 1)]
  BY DEF LeaveAs, Release
<1>2. SlotInv(s) /\ sess[j] \in Sessions
  BY DEF Slots, Match
<1>3. Holders(s)' = Holders(s) \ (IF s = sess[j] THEN {j} ELSE {})
  BY <1>1, HoldersLeave
<1>4. current \in [Sessions -> Nat]
  BY DEF TypeOK, SlotPoolTypeOK
<1>5. CASE s # sess[j]
  <2>1. Holders(s)' = Holders(s)
    BY <1>3, <1>5
  <2>2. current'[s] = current[s] /\ current[s] \in Nat
    BY <1>1, <1>4, <1>5
  <2> QED BY <1>1, <1>2, <2>1, <2>2, SlotOther
<1>6. CASE s = sess[j]
  <2> DEFINE n == Cardinality(Holders(s))
  <2>1. Holders(s)' = Holders(s) \ {j} /\ j \in Holders(s)
    BY <1>3, <1>6 DEF Holders
  <2>2. n \in Nat /\ n >= 1 /\ Cardinality(Holders(s)') = n - 1
    <3>1. IsFiniteSet(Holders(s)) /\ n \in Nat /\ Cardinality(Holders(s)') \in Nat
      BY HoldersFinite, HoldersFiniteNext
    <3>2. Cardinality(Holders(s)') = n - 1
      BY <2>1, <3>1, FS_RemoveElement
    <3> HIDE DEF n
    <3> QED BY <3>1, <3>2
  <2>3. current[s] \in Nat /\ current[s] <= n /\ (s \notin shaken => current[s] = n)
    BY <1>2, <1>4 DEF SlotInv
  <2>4. current'[s] = Less(current[s], 1)
    BY <1>1, <1>4, <1>6
  <2> HIDE DEF n
  <2>5. current'[s] <= n - 1
    BY <2>2, <2>3, <2>4 DEF Less
  <2>6. ASSUME s \notin shaken' PROVE current'[s] = n - 1
    <3>1. CASE Holders(s)' = {}
      <4>1. n - 1 = 0
        BY <2>2, <3>1, FS_EmptySet
      <4> QED BY <4>1, <2>2, <2>3, <2>4 DEF Less
    <3>2. CASE Holders(s)' # {}
      <4>1. s \notin shaken
        BY <1>1, <2>6, <3>2 DEF Shake
      <4> QED BY <4>1, <2>2, <2>3, <2>4 DEF Less
    <3> QED BY <3>1, <3>2
  <2> QED BY <2>2, <2>5, <2>6 DEF SlotInv
<1> QED BY <1>5, <1>6

\* So does mark_flood, which cuts the count to 0 and says so.
LEMMA SlotsFlood ==
    ASSUME TypeOK, Slots, Match, NEW j \in Jobs, phase[j] \in Holding,
           LeaveFlooded(j)
    PROVE  Slots'
<1> SUFFICES ASSUME NEW s \in Sessions PROVE SlotInv(s)'
  BY DEF Slots
<1>1. /\ phase' = [phase EXCEPT ![j] = "select"] /\ sess' = sess
      /\ current' = [current EXCEPT ![sess[j]] = 0] /\ Shake({sess[j]})
  BY DEF LeaveFlooded, MarkFloodAndRelease
<1>2. SlotInv(s) /\ sess[j] \in Sessions
  BY DEF Slots, Match
<1>3. Holders(s)' = Holders(s) \ (IF s = sess[j] THEN {j} ELSE {})
  <2>1. "select" \notin Holding
    BY DEF Holding
  <2> QED BY <1>1, <2>1, HoldersLeave
<1>4. current \in [Sessions -> Nat]
  BY DEF TypeOK, SlotPoolTypeOK
<1>5. CASE s # sess[j]
  <2>1. Holders(s)' = Holders(s)
    BY <1>3, <1>5
  <2>2. current'[s] = current[s] /\ current[s] \in Nat
    BY <1>1, <1>4, <1>5
  <2> QED BY <1>1, <1>2, <2>1, <2>2, SlotOther
<1>6. CASE s = sess[j]
  <2>1. current'[s] = 0
    BY <1>1, <1>4, <1>6
  <2>2. Cardinality(Holders(s)') \in Nat
    BY HoldersFiniteNext
  <2>3. ASSUME s \notin shaken' PROVE Cardinality(Holders(s)') = 0
    <3>1. Holders(s)' = {}
      BY <1>1, <1>6, <2>3 DEF Shake
    <3> QED BY <3>1, FS_EmptySet
  <2> QED BY <2>1, <2>2, <2>3 DEF SlotInv
<1> QED BY <1>5, <1>6

\* A borrowed slot is counted; what the scan reclaimed on the way is marked.
LEMMA SlotsSelect ==
    ASSUME TypeOK, Slots, NEW j \in Jobs, NEW s \in Sessions, Select(j, s)
    PROVE  Slots'
<1> DEFINE seen == Scanned(Candidates(j), {s}, RankFor(j))
           cut  == StaleIn({s} \cup seen)
<1>1. /\ phase[j] = "select" /\ phase' = [phase EXCEPT ![j] = "slot"]
      /\ sess' = [sess EXCEPT ![j] = s] /\ Shake(cut)
      /\ current' = [t \in Sessions |->
                       IF t = s THEN Reclaimed(s) + 1
                       ELSE IF t \in seen THEN Reclaimed(t) ELSE current[t]]
  BY DEF Select, Borrow
<1>2. "select" \notin Holding /\ "slot" \in Holding
  BY DEF Holding
<1>3. /\ Holders(s)' = Holders(s) \cup {j} /\ j \notin Holders(s)
      /\ \A t \in Sessions \ {s} : Holders(t)' = Holders(t)
  BY <1>1, <1>2 DEF Holders, TypeOK
<1>4. \A t \in {s} \cup seen : t \notin cut => Stale(t) = {}
  BY DEF StaleIn
<1> HIDE DEF seen, cut
<1> SUFFICES ASSUME NEW t \in Sessions PROVE SlotInv(t)'
  BY DEF Slots
<1>5. SlotInv(t) /\ current[t] \in Nat
  BY DEF Slots, TypeOK, SlotPoolTypeOK
<1>6. /\ Reclaimed(t) \in Nat /\ Reclaimed(t) <= current[t]
      /\ Stale(t) = {} => Reclaimed(t) = current[t]
  BY ReclaimBound
<1>7. CASE t # s
  <2>1. current'[t] = IF t \in seen THEN Reclaimed(t) ELSE current[t]
    BY <1>1, <1>7
  <2>2. t \notin cut => current'[t] = current[t]
    BY <1>4, <1>6, <2>1
  <2>3. current'[t] \in Nat /\ current'[t] <= current[t]
    BY <1>5, <1>6, <2>1
  <2>4. Holders(t)' = Holders(t)
    BY <1>3, <1>7
  <2> QED BY <1>1, <1>5, <2>2, <2>3, <2>4, SlotOther
<1>8. CASE t = s
  <2> DEFINE n == Cardinality(Holders(s))
  <2>1. n \in Nat /\ Cardinality(Holders(s)') = n + 1
    BY <1>3, HoldersFinite, FS_AddElement
  <2>2. current'[s] = Reclaimed(s) + 1
    BY <1>1
  <2>3. current[s] <= n /\ (s \notin shaken => current[s] = n)
    BY <1>5, <1>8 DEF SlotInv
  <2> HIDE DEF n
  <2>4. current'[s] <= n + 1
    BY <1>5, <1>6, <1>8, <2>1, <2>2, <2>3
  <2>5. ASSUME s \notin shaken' PROVE current'[s] = n + 1
    <3>1. Holders(s)' # {}
      BY <1>3
    <3>2. s \notin shaken \cup cut
      BY <1>1, <2>5, <3>1 DEF Shake
    <3>3. Stale(s) = {}
      BY <1>4, <3>2
    <3> QED BY <1>6, <1>8, <2>2, <2>3, <3>2, <3>3
  <2> QED BY <1>8, <2>1, <2>4, <2>5 DEF SlotInv
<1> QED BY <1>7, <1>8

\* A scan that finds nothing reclaims, and marks what it reclaimed.
LEMMA SlotsRefuse ==
    ASSUME TypeOK, Slots, NEW j \in Jobs, Refuse(j)
    PROVE  Slots'
<1> DEFINE seen == Candidates(j) \ flooded
           cut  == StaleIn(seen)
<1>1. /\ phase[j] = "select" /\ phase' = [phase EXCEPT ![j] = "refused"]
      /\ sess' = sess /\ Shake(cut)
      /\ current' = [t \in Sessions |->
                       IF t \in seen THEN Reclaimed(t) ELSE current[t]]
  BY DEF Refuse, NoneAvailable
<1>2. "select" \notin Holding /\ "refused" \notin Holding
  BY DEF Holding
<1>3. \A t \in Sessions : Holders(t)' = Holders(t)
  BY <1>1, <1>2 DEF Holders, TypeOK
<1>4. \A t \in seen : t \notin cut => Stale(t) = {}
  BY DEF StaleIn
<1> HIDE DEF seen, cut
<1> SUFFICES ASSUME NEW t \in Sessions PROVE SlotInv(t)'
  BY DEF Slots
<1>5. SlotInv(t) /\ current[t] \in Nat
  BY DEF Slots, TypeOK, SlotPoolTypeOK
<1>6. /\ Reclaimed(t) \in Nat /\ Reclaimed(t) <= current[t]
      /\ Stale(t) = {} => Reclaimed(t) = current[t]
  BY ReclaimBound
<1>7. current'[t] = IF t \in seen THEN Reclaimed(t) ELSE current[t]
  BY <1>1
<1>8. t \notin cut => current'[t] = current[t]
  BY <1>4, <1>6, <1>7
<1>9. current'[t] \in Nat /\ current'[t] <= current[t]
  BY <1>5, <1>6, <1>7
<1> QED BY <1>1, <1>3, <1>5, <1>8, <1>9, SlotOther

-----------------------------------------------------------------------------
(* Queues                                                                  *)

\* Nothing changes for the tasks that wait or are served.
LEMMA QueueFrame ==
    ASSUME TypeOK, Lines, Present, queue' = queue, serving' = serving,
           \A k \in Jobs : phase'[k] = "queued" <=> phase[k] = "queued",
           \A k \in Jobs : phase[k] = "queued" => worker'[k] = worker[k],
           \A w \in Workers : serving[w] # None =>
               loop'[w] = loop[w] \/ loop'[w] = "running"
    PROVE  Lines' /\ Present'
<1>1. ASSUME NEW w \in Workers PROVE Line(w)'
  <2>1. Line(w) /\ serving[w] \in Jobs \cup {None}
    BY DEF Lines, TypeOK, UploadWorkersTypeOK
  <2> QED BY <2>1 DEF Line
<1>2. Present'
  BY DEF Present
<1> QED BY <1>1, <1>2 DEF Lines

\* One job's step from or to a place outside the queues.
LEMMA QueueJob ==
    ASSUME TypeOK, Lines, Present, NEW j \in Jobs, NEW p,
           phase[j] # "queued", p # "queued", phase' = [phase EXCEPT ![j] = p],
           \A k \in Jobs \ {j} : worker'[k] = worker[k],
           queue' = queue, serving' = serving,
           \A w \in Workers : serving[w] # None =>
               loop'[w] = loop[w] \/ loop'[w] = "running"
    PROVE  Lines' /\ Present'
<1>1. \A k \in Jobs : phase'[k] = "queued" <=> phase[k] = "queued"
  BY DEF TypeOK
<1>2. \A k \in Jobs : phase[k] = "queued" => worker'[k] = worker[k]
  OBVIOUS
<1> QED BY <1>1, <1>2, QueueFrame

\* One job moves on: what it holds is right if its own new place is.
LEMMA MatchJob ==
    ASSUME TypeOK, Match, NEW j \in Jobs, NEW p, phase' = [phase EXCEPT ![j] = p],
           \A k \in Jobs \ {j} : sess'[k] = sess[k] /\ worker'[k] = worker[k],
           p \in Holding => sess'[j] \in Sessions,
           p \in {"ready", "queued"} =>
              worker'[j] \in Workers /\ SameKey(worker'[j], j, sess'[j])
    PROVE  Match'
BY DEF Match, SameKey, TypeOK

\* Jobs that stay where they are keep what they hold.
LEMMA MatchFrame ==
    ASSUME Match, phase' = phase, sess' = sess, worker' = worker
    PROVE  Match'
BY DEF Match, SameKey

\* A job that keeps its slot, or has none before and after, changes no holders.
LEMMA SlotsJob ==
    ASSUME TypeOK, Slots, NEW j \in Jobs, NEW p, phase[j] \in Holding <=> p \in Holding,
           phase' = [phase EXCEPT ![j] = p], sess' = sess,
           current' = current, shaken' = shaken
    PROVE  Slots'
<1>1. \A s \in Sessions : Holders(s)' = Holders(s)
  BY DEF Holders, TypeOK
<1> QED BY <1>1, SlotsFrame

\* When jobs stay where they are, so do the holders.
LEMMA SlotsStay ==
    ASSUME Slots, phase' = phase, sess' = sess, current' = current, shaken' = shaken
    PROVE  Slots'
<1>1. \A s \in Sessions : Holders(s)' = Holders(s)
  BY DEF Holders
<1> QED BY <1>1, SlotsFrame

-----------------------------------------------------------------------------
(* Steps                                                                   *)

\* Every step keeps the slot counts right.
LEMMA SlotsStep == IInv /\ [Next]_vars => Slots'
<1> SUFFICES ASSUME IInv, [Next]_vars PROVE Slots'
  OBVIOUS
<1> USE DEF IInv
<1>1. ASSUME NEW j \in Jobs, NEW s \in Sessions, Select(j, s) PROVE Slots'
  BY <1>1, SlotsSelect
<1>2. ASSUME NEW j \in Jobs, Refuse(j) PROVE Slots'
  BY <1>2, SlotsRefuse
<1>3. ASSUME NEW j \in Jobs, Exhaust(j) PROVE Slots'
  <2>1. /\ phase[j] = "select" /\ phase' = [phase EXCEPT ![j] = "refused"]
        /\ sess' = sess /\ current' = current /\ shaken' = shaken
    BY <1>3 DEF Exhaust, workerVars, poolVars, recordVars, countVars, jobVars, boundVars
  <2>2. "select" \in Holding <=> "refused" \in Holding
    BY DEF Holding
  <2> QED BY <2>1, <2>2, SlotsJob
<1>4. ASSUME NEW j \in Jobs, NEW w \in Workers, GetWorker(j, w) PROVE Slots'
  <2>1. /\ phase[j] = "slot" /\ phase' = [phase EXCEPT ![j] = "ready"]
        /\ sess' = sess /\ current' = current /\ shaken' = shaken
    BY <1>4 DEF GetWorker, Reuse, workerVars, poolVars, recordVars, countVars, jobVars, boundVars
  <2>2. "slot" \in Holding <=> "ready" \in Holding
    BY DEF Holding
  <2> QED BY <2>1, <2>2, SlotsJob
<1>5. ASSUME NEW j \in Jobs, NEW w \in Workers, GetBlindWorker(j, w) PROVE Slots'
  <2>1. phase[j] \in Holding /\ "select" \notin Holding /\ LeaveAs(j, "select")
    BY <1>5 DEF GetBlindWorker, Holding
  <2> QED BY <2>1, SlotsLeave
<1>6. ASSUME NEW j \in Jobs, CreateWorker(j) PROVE Slots'
  <2>1. /\ phase[j] = "slot" /\ phase' = [phase EXCEPT ![j] = "start"]
        /\ sess' = sess /\ current' = current /\ shaken' = shaken
    BY <1>6 DEF CreateWorker, BeginStart, workerVars, poolVars, recordVars, countVars, jobVars, boundVars
  <2>2. "slot" \in Holding <=> "start" \in Holding
    BY DEF Holding
  <2> QED BY <2>1, <2>2, SlotsJob
<1>7. ASSUME NEW j \in Jobs, WorkerStarts(j) PROVE Slots'
  <2>1. /\ phase[j] = "start" /\ phase' = [phase EXCEPT ![j] = "ready"]
        /\ sess' = sess /\ current' = current /\ shaken' = shaken
    BY <1>7 DEF WorkerStarts, StartSucceeds, workerVars, poolVars, recordVars, countVars, jobVars, boundVars
  <2>2. "start" \in Holding <=> "ready" \in Holding
    BY DEF Holding
  <2> QED BY <2>1, <2>2, SlotsJob
<1>8. ASSUME NEW j \in Jobs, WorkerStartsBlind(j) PROVE Slots'
  <2>1. phase[j] \in Holding /\ "select" \notin Holding /\ LeaveAs(j, "select")
    BY <1>8 DEF WorkerStartsBlind, Holding
  <2> QED BY <2>1, SlotsLeave
<1>9. ASSUME NEW j \in Jobs, WorkerStartFails(j) PROVE Slots'
  <2>1. phase[j] \in Holding /\ "select" \notin Holding /\ LeaveAs(j, "select")
    BY <1>9 DEF WorkerStartFails, Holding
  <2> QED BY <2>1, SlotsLeave
<1>10. ASSUME NEW j \in Jobs, WorkerIsBlocked(j) PROVE Slots'
  <2>1. phase[j] \in Holding /\ LeaveFlooded(j)
    BY <1>10 DEF WorkerIsBlocked, Holding
  <2> QED BY <2>1, SlotsFlood
<1>11. ASSUME NEW j \in Jobs, Enqueue(j) PROVE Slots'
  <2>1. /\ phase[j] = "ready" /\ phase' = [phase EXCEPT ![j] = "queued"]
        /\ sess' = sess /\ current' = current /\ shaken' = shaken
    BY <1>11 DEF Enqueue, Put, workerVars, poolVars, recordVars, countVars, jobVars, boundVars
  <2>2. "ready" \in Holding <=> "queued" \in Holding
    BY DEF Holding
  <2> QED BY <2>1, <2>2, SlotsJob
<1>12. ASSUME NEW j \in Jobs, Retry(j) PROVE Slots'
  <2>1. phase[j] \in Holding /\ "select" \notin Holding /\ LeaveAs(j, "select")
    BY <1>12 DEF Retry, Holding
  <2> QED BY <2>1, SlotsLeave
<1>13. ASSUME NEW j \in Jobs, RetryFlooded(j) PROVE Slots'
  <2>1. phase[j] \in Holding /\ LeaveFlooded(j)
    BY <1>13 DEF RetryFlooded, Holding
  <2> QED BY <2>1, SlotsFlood
<1>14. ASSUME NEW j \in Jobs, Abort(j) PROVE Slots'
  <2>1. phase[j] \in Holding /\ "aborted" \notin Holding /\ LeaveAs(j, "aborted")
    BY <1>14 DEF Abort, Holding
  <2> QED BY <2>1, SlotsLeave
<1>15. ASSUME NEW j \in Jobs, Deliver(j) PROVE Slots'
  <2>1. phase[j] \in Holding /\ "delivered" \notin Holding /\ LeaveAs(j, "delivered")
    BY <1>15 DEF Deliver, Holding
  <2> QED BY <2>1, SlotsLeave
<1>16. ASSUME NEW j \in Jobs, CopyFails(j) PROVE Slots'
  <2>1. phase[j] \in Holding /\ "select" \notin Holding /\ LeaveAs(j, "select")
    BY <1>16 DEF CopyFails, Holding
  <2> QED BY <2>1, SlotsLeave
<1>17. ASSUME NEW w \in Workers, Serve(w) PROVE Slots'
  <2>1. phase' = phase /\ sess' = sess /\ current' = current /\ shaken' = shaken
    BY <1>17 DEF Serve, Take, workerVars, poolVars, recordVars, countVars, jobVars, boundVars
  <2> QED BY <2>1, SlotsStay
<1>18. ASSUME NEW w \in Workers, StopWorker(w) PROVE Slots'
  <2>1. phase' = phase /\ sess' = sess /\ current' = current /\ shaken' = shaken
    BY <1>18 DEF StopWorker, BeginStop, TakeStop, workerVars, poolVars, recordVars, countVars, jobVars, boundVars
  <2> QED BY <2>1, SlotsStay
<1>19. ASSUME NEW w \in Workers, NEW a \in Answers, Execute(w, a) PROVE Slots'
  <2>1. /\ serving[w] # None /\ phase' = [phase EXCEPT ![serving[w]] = a]
        /\ sess' = sess /\ current' = current /\ shaken' = shaken
    BY <1>19 DEF Execute, Done, workerVars, poolVars, recordVars, countVars, jobVars, boundVars
  <2>2. serving[w] \in Jobs /\ phase[serving[w]] = "queued"
    BY <2>1 DEF Lines, Line, TypeOK, UploadWorkersTypeOK
  <2>3. "queued" \in Holding /\ a \in Holding
    BY DEF Holding, Answers
  <2> QED BY <2>1, <2>2, <2>3, SlotsJob
<1>20. ASSUME NEW w \in Workers, CancelWorker(w) PROVE Slots'
  <2>1. /\ serving[w] # None /\ phase' = [phase EXCEPT ![serving[w]] = "cancelled"]
        /\ sess' = sess /\ current' = current /\ shaken' = shaken
    BY <1>20 DEF CancelWorker, StopTimesOut, workerVars, poolVars, recordVars, countVars, jobVars, boundVars
  <2>2. serving[w] \in Jobs /\ phase[serving[w]] = "queued"
    BY <2>1 DEF Lines, Line, TypeOK, UploadWorkersTypeOK
  <2>3. "queued" \in Holding /\ "cancelled" \in Holding
    BY DEF Holding, Answers
  <2> QED BY <2>1, <2>2, <2>3, SlotsJob
<1>21. ASSUME NEW w \in Workers, ReapIdle(w) PROVE Slots'
  <2>1. phase' = phase /\ sess' = sess /\ current' = current /\ shaken' = shaken
    BY <1>21 DEF ReapIdle, Reap, workerVars, poolVars, recordVars, countVars, jobVars, boundVars
  <2> QED BY <2>1, SlotsStay
<1>22. ASSUME NEW u \in Users, Logout(u) PROVE Slots'
  <2>1. phase' = phase /\ sess' = sess /\ current' = current /\ shaken' = shaken
    BY <1>22 DEF Logout, RemoveUser, workerVars, poolVars, recordVars, countVars, jobVars, boundVars
  <2> QED BY <2>1, SlotsStay
<1>23. ASSUME NEW s \in Sessions, EndFlood(s) PROVE Slots'
  <2>1. phase' = phase /\ sess' = sess /\ current' = current /\ shaken' = shaken
    BY <1>23 DEF EndFlood, FloodExpires, workerVars, poolVars, recordVars, countVars, jobVars, boundVars
  <2> QED BY <2>1, SlotsStay
<1>24. ASSUME NEW s \in Sessions, NEW u \in Users, Age(s, u) PROVE Slots'
  <2>1. phase' = phase /\ sess' = sess /\ current' = current /\ shaken' = shaken
    BY <1>24 DEF Age, GrowStale, workerVars, poolVars, recordVars, countVars, jobVars, boundVars
  <2> QED BY <2>1, SlotsStay
<1>25. ASSUME Command PROVE Slots'
  <2>1. phase' = phase /\ sess' = sess /\ current' = current /\ shaken' = shaken
    BY <1>25 DEF Command, Register, Disable, Enable, Remove, SetLimit, SetLent, DisableAllGlobal, workerVars, poolVars, recordVars, countVars, jobVars, boundVars
  <2> QED BY <2>1, SlotsStay
<1>26. ASSUME UNCHANGED vars PROVE Slots'
  <2>1. phase' = phase /\ sess' = sess /\ current' = current /\ shaken' = shaken
    BY <1>26 DEF vars, workerVars, poolVars, recordVars, countVars, jobVars, boundVars
  <2> QED BY <2>1, SlotsStay
<1> QED
  BY <1>1, <1>2, <1>3, <1>4, <1>5, <1>6, <1>7, <1>8, <1>9, <1>10, <1>11, <1>12, <1>13, <1>14, <1>15, <1>16, <1>17, <1>18, <1>19, <1>20, <1>21, <1>22, <1>23, <1>24, <1>25, <1>26 DEF Next, Job, Loop

\* Every step leaves jobs with their own sessions and workers.
LEMMA MatchStep == IInv /\ [Next]_vars => Match'
<1> SUFFICES ASSUME IInv, [Next]_vars PROVE Match'
  OBVIOUS
<1> USE DEF IInv
<1>1. ASSUME NEW j \in Jobs, NEW s \in Sessions, Select(j, s) PROVE Match'
  <2>1. /\ phase[j] = "select" /\ phase' = [phase EXCEPT ![j] = "slot"]
        /\ sess' = [sess EXCEPT ![j] = s]
        /\ worker' = [worker EXCEPT ![j] = None]
    BY <1>1 DEF Select, Borrow, workerVars, poolVars, recordVars, countVars, jobVars, boundVars
  <2>2. \A i \in Jobs \ {j} : sess'[i] = sess[i] /\ worker'[i] = worker[i]
    BY <2>1 DEF TypeOK
  <2>3. sess'[j] \in Sessions
    BY <2>1 DEF TypeOK
  <2>4. "slot" \notin {"ready", "queued"}
    OBVIOUS
  <2> QED BY <2>1, <2>2, <2>3, <2>4, MatchJob
<1>2. ASSUME NEW j \in Jobs, Refuse(j) PROVE Match'
  <2>1. /\ phase[j] = "select" /\ phase' = [phase EXCEPT ![j] = "refused"]
        /\ sess' = sess
        /\ worker' = worker
    BY <1>2 DEF Refuse, NoneAvailable, workerVars, poolVars, recordVars, countVars, jobVars, boundVars
  <2>2. \A i \in Jobs \ {j} : sess'[i] = sess[i] /\ worker'[i] = worker[i]
    BY <2>1 DEF TypeOK
  <2>4. "refused" \notin Holding /\ "refused" \notin {"ready", "queued"}
    BY DEF Holding
  <2> QED BY <2>1, <2>2, <2>4, MatchJob
<1>3. ASSUME NEW j \in Jobs, Exhaust(j) PROVE Match'
  <2>1. /\ phase[j] = "select" /\ phase' = [phase EXCEPT ![j] = "refused"]
        /\ sess' = sess
        /\ worker' = worker
    BY <1>3 DEF Exhaust, workerVars, poolVars, recordVars, countVars, jobVars, boundVars
  <2>2. \A i \in Jobs \ {j} : sess'[i] = sess[i] /\ worker'[i] = worker[i]
    BY <2>1 DEF TypeOK
  <2>4. "refused" \notin Holding /\ "refused" \notin {"ready", "queued"}
    BY DEF Holding
  <2> QED BY <2>1, <2>2, <2>4, MatchJob
<1>4. ASSUME NEW j \in Jobs, NEW w \in Workers, GetWorker(j, w) PROVE Match'
  <2>1. /\ phase[j] = "slot" /\ phase' = [phase EXCEPT ![j] = "ready"]
        /\ sess' = sess
        /\ worker' = [worker EXCEPT ![j] = w]
    BY <1>4 DEF GetWorker, Reuse, workerVars, poolVars, recordVars, countVars, jobVars, boundVars
  <2>2. \A i \in Jobs \ {j} : sess'[i] = sess[i] /\ worker'[i] = worker[i]
    BY <2>1 DEF TypeOK
  <2>3. sess'[j] = sess[j] /\ sess[j] \in Sessions
    BY <2>1 DEF Match, Holding
  <2>4. SameKey(w, j, sess[j])
    BY <1>4 DEF GetWorker, Reuse
  <2>5. worker'[j] \in Workers /\ SameKey(worker'[j], j, sess'[j])
    BY <2>1, <2>3, <2>4 DEF TypeOK
  <2> QED BY <2>1, <2>2, <2>3, <2>5, MatchJob
<1>5. ASSUME NEW j \in Jobs, NEW w \in Workers, GetBlindWorker(j, w) PROVE Match'
  <2>1. /\ phase[j] = "slot" /\ phase' = [phase EXCEPT ![j] = "select"]
        /\ sess' = sess
        /\ worker' = worker
    BY <1>5 DEF GetBlindWorker, LeaveAs, Release, Reuse, workerVars, poolVars, recordVars, countVars, jobVars, boundVars
  <2>2. \A i \in Jobs \ {j} : sess'[i] = sess[i] /\ worker'[i] = worker[i]
    BY <2>1 DEF TypeOK
  <2>4. "select" \notin Holding /\ "select" \notin {"ready", "queued"}
    BY DEF Holding
  <2> QED BY <2>1, <2>2, <2>4, MatchJob
<1>6. ASSUME NEW j \in Jobs, CreateWorker(j) PROVE Match'
  <2>1. /\ phase[j] = "slot" /\ phase' = [phase EXCEPT ![j] = "start"]
        /\ sess' = sess
        /\ worker' = worker
    BY <1>6 DEF CreateWorker, BeginStart, workerVars, poolVars, recordVars, countVars, jobVars, boundVars
  <2>2. \A i \in Jobs \ {j} : sess'[i] = sess[i] /\ worker'[i] = worker[i]
    BY <2>1 DEF TypeOK
  <2>3. sess'[j] = sess[j] /\ sess[j] \in Sessions
    BY <2>1 DEF Match, Holding
  <2>4. "start" \notin {"ready", "queued"}
    OBVIOUS
  <2> QED BY <2>1, <2>2, <2>3, <2>4, MatchJob
<1>7. ASSUME NEW j \in Jobs, WorkerStarts(j) PROVE Match'
  <2>1. /\ phase[j] = "start" /\ phase' = [phase EXCEPT ![j] = "ready"]
        /\ sess' = sess
        /\ worker' = [worker EXCEPT ![j] = <<j, sess[j]>>]
    BY <1>7 DEF WorkerStarts, StartSucceeds, workerVars, poolVars, recordVars, countVars, jobVars, boundVars
  <2>2. \A i \in Jobs \ {j} : sess'[i] = sess[i] /\ worker'[i] = worker[i]
    BY <2>1 DEF TypeOK
  <2>3. sess'[j] = sess[j] /\ sess[j] \in Sessions
    BY <2>1 DEF Match, Holding
  <2>5. worker'[j] \in Workers /\ SameKey(worker'[j], j, sess'[j])
    BY <2>1, <2>3 DEF TypeOK, Workers, SameKey
  <2> QED BY <2>1, <2>2, <2>3, <2>5, MatchJob
<1>8. ASSUME NEW j \in Jobs, WorkerStartsBlind(j) PROVE Match'
  <2>1. /\ phase[j] = "start" /\ phase' = [phase EXCEPT ![j] = "select"]
        /\ sess' = sess
        /\ worker' = worker
    BY <1>8 DEF WorkerStartsBlind, LeaveAs, Release, StartSucceeds, workerVars, poolVars, recordVars, countVars, jobVars, boundVars
  <2>2. \A i \in Jobs \ {j} : sess'[i] = sess[i] /\ worker'[i] = worker[i]
    BY <2>1 DEF TypeOK
  <2>4. "select" \notin Holding /\ "select" \notin {"ready", "queued"}
    BY DEF Holding
  <2> QED BY <2>1, <2>2, <2>4, MatchJob
<1>9. ASSUME NEW j \in Jobs, WorkerStartFails(j) PROVE Match'
  <2>1. /\ phase[j] = "start" /\ phase' = [phase EXCEPT ![j] = "select"]
        /\ sess' = sess
        /\ worker' = worker
    BY <1>9 DEF WorkerStartFails, LeaveAs, Release, StartFails, workerVars, poolVars, recordVars, countVars, jobVars, boundVars
  <2>2. \A i \in Jobs \ {j} : sess'[i] = sess[i] /\ worker'[i] = worker[i]
    BY <2>1 DEF TypeOK
  <2>4. "select" \notin Holding /\ "select" \notin {"ready", "queued"}
    BY DEF Holding
  <2> QED BY <2>1, <2>2, <2>4, MatchJob
<1>10. ASSUME NEW j \in Jobs, WorkerIsBlocked(j) PROVE Match'
  <2>1. /\ phase[j] = "start" /\ phase' = [phase EXCEPT ![j] = "select"]
        /\ sess' = sess
        /\ worker' = worker
    BY <1>10 DEF WorkerIsBlocked, LeaveFlooded, MarkFloodAndRelease, StartFails, workerVars, poolVars, recordVars, countVars, jobVars, boundVars
  <2>2. \A i \in Jobs \ {j} : sess'[i] = sess[i] /\ worker'[i] = worker[i]
    BY <2>1 DEF TypeOK
  <2>4. "select" \notin Holding /\ "select" \notin {"ready", "queued"}
    BY DEF Holding
  <2> QED BY <2>1, <2>2, <2>4, MatchJob
<1>11. ASSUME NEW j \in Jobs, Enqueue(j) PROVE Match'
  <2>1. /\ phase[j] = "ready" /\ phase' = [phase EXCEPT ![j] = "queued"]
        /\ sess' = sess
        /\ worker' = worker
    BY <1>11 DEF Enqueue, Put, workerVars, poolVars, recordVars, countVars, jobVars, boundVars
  <2>2. \A i \in Jobs \ {j} : sess'[i] = sess[i] /\ worker'[i] = worker[i]
    BY <2>1 DEF TypeOK
  <2>3. sess'[j] = sess[j] /\ sess[j] \in Sessions
    BY <2>1 DEF Match, Holding
  <2>5. worker'[j] \in Workers /\ SameKey(worker'[j], j, sess'[j])
    BY <2>1, <2>3 DEF Match
  <2> QED BY <2>1, <2>2, <2>3, <2>5, MatchJob
<1>12. ASSUME NEW j \in Jobs, Retry(j) PROVE Match'
  <2>1. /\ phase[j] = "failed" /\ phase' = [phase EXCEPT ![j] = "select"]
        /\ sess' = sess
        /\ worker' = worker
    BY <1>12 DEF Retry, LeaveAs, Release, workerVars, poolVars, recordVars, countVars, jobVars, boundVars
  <2>2. \A i \in Jobs \ {j} : sess'[i] = sess[i] /\ worker'[i] = worker[i]
    BY <2>1 DEF TypeOK
  <2>4. "select" \notin Holding /\ "select" \notin {"ready", "queued"}
    BY DEF Holding
  <2> QED BY <2>1, <2>2, <2>4, MatchJob
<1>13. ASSUME NEW j \in Jobs, RetryFlooded(j) PROVE Match'
  <2>1. /\ phase[j] = "long_flood" /\ phase' = [phase EXCEPT ![j] = "select"]
        /\ sess' = sess
        /\ worker' = worker
    BY <1>13 DEF RetryFlooded, LeaveFlooded, MarkFloodAndRelease, workerVars, poolVars, recordVars, countVars, jobVars, boundVars
  <2>2. \A i \in Jobs \ {j} : sess'[i] = sess[i] /\ worker'[i] = worker[i]
    BY <2>1 DEF TypeOK
  <2>4. "select" \notin Holding /\ "select" \notin {"ready", "queued"}
    BY DEF Holding
  <2> QED BY <2>1, <2>2, <2>4, MatchJob
<1>14. ASSUME NEW j \in Jobs, Abort(j) PROVE Match'
  <2>1. /\ phase[j] = "cancelled" /\ phase' = [phase EXCEPT ![j] = "aborted"]
        /\ sess' = sess
        /\ worker' = worker
    BY <1>14 DEF Abort, LeaveAs, Release, workerVars, poolVars, recordVars, countVars, jobVars, boundVars
  <2>2. \A i \in Jobs \ {j} : sess'[i] = sess[i] /\ worker'[i] = worker[i]
    BY <2>1 DEF TypeOK
  <2>4. "aborted" \notin Holding /\ "aborted" \notin {"ready", "queued"}
    BY DEF Holding
  <2> QED BY <2>1, <2>2, <2>4, MatchJob
<1>15. ASSUME NEW j \in Jobs, Deliver(j) PROVE Match'
  <2>1. /\ phase[j] = "sent" /\ phase' = [phase EXCEPT ![j] = "delivered"]
        /\ sess' = sess
        /\ worker' = worker
    BY <1>15 DEF Deliver, LeaveAs, Release, workerVars, poolVars, recordVars, countVars, jobVars, boundVars
  <2>2. \A i \in Jobs \ {j} : sess'[i] = sess[i] /\ worker'[i] = worker[i]
    BY <2>1 DEF TypeOK
  <2>4. "delivered" \notin Holding /\ "delivered" \notin {"ready", "queued"}
    BY DEF Holding
  <2> QED BY <2>1, <2>2, <2>4, MatchJob
<1>16. ASSUME NEW j \in Jobs, CopyFails(j) PROVE Match'
  <2>1. /\ phase[j] = "sent" /\ phase' = [phase EXCEPT ![j] = "select"]
        /\ sess' = sess
        /\ worker' = worker
    BY <1>16 DEF CopyFails, LeaveAs, Release, workerVars, poolVars, recordVars, countVars, jobVars, boundVars
  <2>2. \A i \in Jobs \ {j} : sess'[i] = sess[i] /\ worker'[i] = worker[i]
    BY <2>1 DEF TypeOK
  <2>4. "select" \notin Holding /\ "select" \notin {"ready", "queued"}
    BY DEF Holding
  <2> QED BY <2>1, <2>2, <2>4, MatchJob
<1>17. ASSUME NEW w \in Workers, Serve(w) PROVE Match'
  <2>1. phase' = phase /\ sess' = sess /\ worker' = worker
    BY <1>17 DEF Serve, Take, workerVars, poolVars, recordVars, countVars, jobVars, boundVars
  <2> QED BY <2>1, MatchFrame
<1>18. ASSUME NEW w \in Workers, StopWorker(w) PROVE Match'
  <2>1. phase' = phase /\ sess' = sess /\ worker' = worker
    BY <1>18 DEF StopWorker, BeginStop, TakeStop, workerVars, poolVars, recordVars, countVars, jobVars, boundVars
  <2> QED BY <2>1, MatchFrame
<1>19. ASSUME NEW w \in Workers, NEW a \in Answers, Execute(w, a) PROVE Match'
  <2>1. /\ serving[w] # None /\ phase' = [phase EXCEPT ![serving[w]] = a]
        /\ sess' = sess /\ worker' = worker
    BY <1>19 DEF Execute, Done, workerVars, poolVars, recordVars, countVars, jobVars, boundVars
  <2>2. serving[w] \in Jobs /\ phase[serving[w]] = "queued"
    BY <2>1 DEF Lines, Line, TypeOK, UploadWorkersTypeOK
  <2>3. sess[serving[w]] \in Sessions
    BY <2>2 DEF Match, Holding
  <2>4. a \notin {"ready", "queued"}
    BY DEF Answers
  <2> QED BY <2>1, <2>2, <2>3, <2>4, MatchJob
<1>20. ASSUME NEW w \in Workers, CancelWorker(w) PROVE Match'
  <2>1. /\ serving[w] # None /\ phase' = [phase EXCEPT ![serving[w]] = "cancelled"]
        /\ sess' = sess /\ worker' = worker
    BY <1>20 DEF CancelWorker, StopTimesOut, workerVars, poolVars, recordVars, countVars, jobVars, boundVars
  <2>2. serving[w] \in Jobs /\ phase[serving[w]] = "queued"
    BY <2>1 DEF Lines, Line, TypeOK, UploadWorkersTypeOK
  <2>3. sess[serving[w]] \in Sessions
    BY <2>2 DEF Match, Holding
  <2>4. "cancelled" \notin {"ready", "queued"}
    BY DEF Answers
  <2> QED BY <2>1, <2>2, <2>3, <2>4, MatchJob
<1>21. ASSUME NEW w \in Workers, ReapIdle(w) PROVE Match'
  <2>1. phase' = phase /\ sess' = sess /\ worker' = worker
    BY <1>21 DEF ReapIdle, Reap, workerVars, poolVars, recordVars, countVars, jobVars, boundVars
  <2> QED BY <2>1, MatchFrame
<1>22. ASSUME NEW u \in Users, Logout(u) PROVE Match'
  <2>1. phase' = phase /\ sess' = sess /\ worker' = worker
    BY <1>22 DEF Logout, RemoveUser, workerVars, poolVars, recordVars, countVars, jobVars, boundVars
  <2> QED BY <2>1, MatchFrame
<1>23. ASSUME NEW s \in Sessions, EndFlood(s) PROVE Match'
  <2>1. phase' = phase /\ sess' = sess /\ worker' = worker
    BY <1>23 DEF EndFlood, FloodExpires, workerVars, poolVars, recordVars, countVars, jobVars, boundVars
  <2> QED BY <2>1, MatchFrame
<1>24. ASSUME NEW s \in Sessions, NEW u \in Users, Age(s, u) PROVE Match'
  <2>1. phase' = phase /\ sess' = sess /\ worker' = worker
    BY <1>24 DEF Age, GrowStale, workerVars, poolVars, recordVars, countVars, jobVars, boundVars
  <2> QED BY <2>1, MatchFrame
<1>25. ASSUME Command PROVE Match'
  <2>1. phase' = phase /\ sess' = sess /\ worker' = worker
    BY <1>25 DEF Command, Register, Disable, Enable, Remove, SetLimit, SetLent, DisableAllGlobal, workerVars, poolVars, recordVars, countVars, jobVars, boundVars
  <2> QED BY <2>1, MatchFrame
<1>26. ASSUME UNCHANGED vars PROVE Match'
  <2>1. phase' = phase /\ sess' = sess /\ worker' = worker
    BY <1>26 DEF vars, workerVars, poolVars, recordVars, countVars, jobVars, boundVars
  <2> QED BY <2>1, MatchFrame
<1> QED
  BY <1>1, <1>2, <1>3, <1>4, <1>5, <1>6, <1>7, <1>8, <1>9, <1>10, <1>11, <1>12, <1>13, <1>14, <1>15, <1>16, <1>17, <1>18, <1>19, <1>20, <1>21, <1>22, <1>23, <1>24, <1>25, <1>26 DEF Next, Job, Loop

\* enqueue: one more task at the end of its worker's queue.
LEMMA QueueEnqueue ==
    ASSUME IInv, NEW j \in Jobs, Enqueue(j)
    PROVE  Lines' /\ Present'
<1> DEFINE v == worker[j]
<1>1. /\ phase[j] = "ready" /\ phase' = [phase EXCEPT ![j] = "queued"]
      /\ worker' = worker /\ serving' = serving /\ loop' = loop
      /\ queue' = [queue EXCEPT ![v] = Append(@, j)]
  BY DEF Enqueue, Put
<1>2. v \in Workers
  BY <1>1 DEF IInv, Match
<1>3. /\ queue[v] \in Seq(Jobs \cup {Stop}) /\ queue'[v] = Append(queue[v], j)
      /\ \A w \in Workers \ {v} : queue'[w] = queue[w]
  BY <1>1, <1>2 DEF IInv, TypeOK, UploadWorkersTypeOK
<1>4. /\ DOMAIN queue'[v] = 1..(Len(queue[v]) + 1) /\ DOMAIN queue[v] = 1..Len(queue[v])
      /\ \A i \in DOMAIN queue[v] : queue'[v][i] = queue[v][i]
      /\ queue'[v][Len(queue[v]) + 1] = j /\ Len(queue[v]) \in Nat
  BY <1>3
<1>5. /\ phase'[j] = "queued" /\ \A k \in Jobs \ {j} : phase'[k] = phase[k]
  BY <1>1 DEF IInv, TypeOK
<1> HIDE DEF v
<1>6. ASSUME NEW w \in Workers PROVE Line(w)'
  <2>1. Line(w) /\ serving[w] \in Jobs \cup {None}
    BY DEF IInv, Lines, TypeOK, UploadWorkersTypeOK
  <2>2. \A i \in DOMAIN queue[w] : queue[w][i] # j
    BY <1>1, <2>1 DEF Line
  <2>3. serving[w] # j
    BY <1>1, <2>1, UploadParamsAssumption DEF Line
  <2>4. CASE w # v
    <3>1. queue'[w] = queue[w] /\ serving'[w] = serving[w] /\ loop'[w] = loop[w]
          /\ worker' = worker
      BY <1>1, <1>3, <2>4
    <3>2. \A i \in DOMAIN queue[w] : queue[w][i] \in Jobs =>
             phase'[queue[w][i]] = phase[queue[w][i]]
      BY <1>5, <2>2
    <3>3. serving[w] # None => phase'[serving[w]] = phase[serving[w]]
      BY <1>5, <2>1, <2>3
    <3> QED BY <2>1, <3>1, <3>2, <3>3 DEF Line
  <2>5. CASE w = v
    <3>1. \A i \in DOMAIN queue'[w] :
             \/ i \in DOMAIN queue[w] /\ queue'[w][i] = queue[w][i]
             \/ i = Len(queue[w]) + 1 /\ queue'[w][i] = j
      BY <1>4, <2>5
    <3>2. \A i \in DOMAIN queue'[w] : queue'[w][i] \in Jobs =>
             /\ phase'[queue'[w][i]] = "queued" /\ worker'[queue'[w][i]] = w
             /\ queue'[w][i] # serving'[w]
      <4> SUFFICES ASSUME NEW i \in DOMAIN queue'[w], queue'[w][i] \in Jobs
                   PROVE  /\ phase'[queue'[w][i]] = "queued"
                          /\ worker'[queue'[w][i]] = w
                          /\ queue'[w][i] # serving'[w]
        OBVIOUS
      <4>1. CASE queue'[w][i] = j
        BY <4>1, <1>1, <1>5, <2>3, <2>5 DEF v
      <4>2. CASE i \in DOMAIN queue[w] /\ queue'[w][i] = queue[w][i]
        BY <4>2, <1>1, <1>5, <2>1, <2>2 DEF Line
      <4> QED BY <3>1, <4>1, <4>2
    <3>3. \A i, k \in DOMAIN queue'[w] :
             queue'[w][i] \in Jobs /\ queue'[w][i] = queue'[w][k] => i = k
      BY <2>1, <2>2, <3>1 DEF Line
    <3>4. serving'[w] # None =>
             /\ phase'[serving'[w]] = "queued" /\ worker'[serving'[w]] = w
             /\ loop'[w] \in {"running", "stopping"}
      BY <1>1, <1>5, <2>1, <2>3 DEF Line
    <3> QED BY <3>2, <3>3, <3>4 DEF Line
  <2> QED BY <2>4, <2>5
<1>7. Present'
  <2> SUFFICES ASSUME NEW k \in Jobs, phase'[k] = "queued"
               PROVE  \/ serving'[worker'[k]] = k
                      \/ \E i \in DOMAIN queue'[worker'[k]] : queue'[worker'[k]][i] = k
    BY DEF Present
  <2>1. CASE k = j
    BY <1>1, <1>4, <2>1 DEF v
  <2>2. CASE k # j
    <3>1. phase[k] = "queued"
      BY <1>5, <2>2
    <3>2. worker[k] \in Workers
      BY <3>1 DEF IInv, Match
    <3>3. \/ serving[worker[k]] = k
          \/ \E i \in DOMAIN queue[worker[k]] : queue[worker[k]][i] = k
      BY <3>1 DEF IInv, Present
    <3>4. CASE worker[k] # v
      BY <1>1, <1>3, <3>2, <3>3, <3>4
    <3>5. CASE worker[k] = v
      BY <1>1, <1>4, <3>3, <3>5
    <3> QED BY <3>4, <3>5
  <2> QED BY <2>1, <2>2
<1> QED BY <1>6, <1>7 DEF Lines

\* _loop: the next task moves from the head of the queue to the loop.
LEMMA QueueServe ==
    ASSUME IInv, NEW v \in Workers, Serve(v)
    PROVE  Lines' /\ Present'
<1>1. /\ loop[v] \in {"running", "stopping"} /\ serving[v] = None
      /\ queue[v] # <<>> /\ Head(queue[v]) # Stop
      /\ serving' = [serving EXCEPT ![v] = Head(queue[v])]
      /\ queue' = [queue EXCEPT ![v] = Tail(@)]
      /\ phase' = phase /\ worker' = worker /\ loop' = loop
  BY DEF Serve, Take, jobVars
<1>2. /\ queue[v] \in Seq(Jobs \cup {Stop})
      /\ \A w \in Workers \ {v} : queue'[w] = queue[w] /\ serving'[w] = serving[w]
      /\ queue'[v] = Tail(queue[v]) /\ serving'[v] = Head(queue[v])
  BY <1>1 DEF IInv, TypeOK, UploadWorkersTypeOK
<1>3. /\ Len(queue[v]) \in Nat \ {0} /\ DOMAIN queue[v] = 1..Len(queue[v])
      /\ Head(queue[v]) = queue[v][1] /\ Head(queue[v]) \in Jobs
      /\ DOMAIN Tail(queue[v]) = 1..(Len(queue[v]) - 1)
      /\ \A i \in DOMAIN Tail(queue[v]) : Tail(queue[v])[i] = queue[v][i + 1]
  BY <1>1, <1>2
<1>4. Line(v)
  BY DEF IInv, Lines
<1>5. ASSUME NEW w \in Workers PROVE Line(w)'
  <2>1. CASE w # v
    <3>1. queue'[w] = queue[w] /\ serving'[w] = serving[w] /\ Line(w)
      BY <1>2, <2>1 DEF IInv, Lines
    <3> QED BY <1>1, <3>1 DEF Line
  <2>2. CASE w = v
    <3>1. \A i \in DOMAIN queue'[v] : i + 1 \in DOMAIN queue[v] /\ i + 1 # 1
                                        /\ queue'[v][i] = queue[v][i + 1]
      BY <1>2, <1>3
    <3>2. 1 \in DOMAIN queue[v]
      BY <1>3
    <3>3. \A i \in DOMAIN queue'[v] : queue'[v][i] \in Jobs =>
             /\ phase'[queue'[v][i]] = "queued" /\ worker'[queue'[v][i]] = v
             /\ queue'[v][i] # serving'[v]
      BY <1>1, <1>2, <1>3, <1>4, <3>1, <3>2 DEF Line
    <3>4. \A i, k \in DOMAIN queue'[v] :
             queue'[v][i] \in Jobs /\ queue'[v][i] = queue'[v][k] => i = k
      <4> SUFFICES ASSUME NEW i \in DOMAIN queue'[v], NEW k \in DOMAIN queue'[v],
                          queue'[v][i] \in Jobs, queue'[v][i] = queue'[v][k]
                   PROVE  i = k
        OBVIOUS
      <4>1. i + 1 = k + 1
        BY <1>4, <3>1 DEF Line
      <4>2. i \in Int /\ k \in Int
        BY <1>2, <1>3
      <4> QED BY <4>1, <4>2
    <3>5. /\ phase'[serving'[v]] = "queued" /\ worker'[serving'[v]] = v
          /\ loop'[v] \in {"running", "stopping"}
      BY <1>1, <1>2, <1>3, <1>4, <3>2 DEF Line
    <3> QED BY <2>2, <3>3, <3>4, <3>5 DEF Line
  <2> QED BY <2>1, <2>2
<1>6. Present'
  <2> SUFFICES ASSUME NEW k \in Jobs, phase[k] = "queued"
               PROVE  \/ serving'[worker[k]] = k
                      \/ \E i \in DOMAIN queue'[worker[k]] : queue'[worker[k]][i] = k
    BY <1>1 DEF Present
  <2>1. worker[k] \in Workers
    BY DEF IInv, Match
  <2>2. \/ serving[worker[k]] = k
        \/ \E i \in DOMAIN queue[worker[k]] : queue[worker[k]][i] = k
    BY DEF IInv, Present
  <2>3. CASE worker[k] # v
    BY <1>2, <2>1, <2>2, <2>3
  <2>4. CASE worker[k] = v
    <3>1. serving[v] # k
      BY <1>1, UploadParamsAssumption
    <3>2. PICK i \in DOMAIN queue[v] : queue[v][i] = k
      BY <2>2, <2>4, <3>1
    <3>3. CASE i = 1
      BY <1>2, <1>3, <2>4, <3>2, <3>3
    <3>4. CASE i # 1
      <4>1. i - 1 \in DOMAIN queue'[v] /\ queue'[v][i - 1] = k
        BY <1>2, <1>3, <3>2, <3>4
      <4> QED BY <2>4, <4>1
    <3> QED BY <3>3, <3>4
  <2> QED BY <2>3, <2>4
<1> QED BY <1>5, <1>6 DEF Lines

\* The loop is done with a task, answered or cancelled.
LEMMA QueueDone ==
    ASSUME IInv, NEW v \in Workers, serving[v] # None, NEW p, p # "queued",
           serving' = [serving EXCEPT ![v] = None], queue' = queue, worker' = worker,
           \A w \in Workers \ {v} : loop'[w] = loop[w],
           phase' = [phase EXCEPT ![serving[v]] = p]
    PROVE  Lines' /\ Present'
<1> DEFINE j == serving[v]
<1>1. j \in Jobs /\ phase[j] = "queued" /\ worker[j] = v
  BY DEF IInv, Lines, Line, TypeOK, UploadWorkersTypeOK
<1>2. /\ phase'[j] = p /\ \A k \in Jobs \ {j} : phase'[k] = phase[k]
      /\ serving'[v] = None /\ \A w \in Workers \ {v} : serving'[w] = serving[w]
  BY <1>1 DEF IInv, TypeOK, UploadWorkersTypeOK
<1>3. ASSUME NEW w \in Workers PROVE Line(w)'
  <2>1. Line(w) /\ Line(v) /\ serving[w] \in Jobs \cup {None}
    BY DEF IInv, Lines, TypeOK, UploadWorkersTypeOK
  <2>2. \A i \in DOMAIN queue[w] : queue[w][i] # j
    BY <1>1, <2>1 DEF Line
  <2>3. w # v => serving[w] # j
    BY <1>1, <2>1, UploadParamsAssumption DEF Line
  <2> HIDE DEF j
  <2>4. CASE w # v
    BY <1>2, <2>1, <2>2, <2>3, <2>4 DEF Line
  <2>5. CASE w = v
    BY <1>2, <2>1, <2>2, <2>5, UploadParamsAssumption DEF Line
  <2> QED BY <2>4, <2>5
<1>4. Present'
  <2> SUFFICES ASSUME NEW k \in Jobs, phase'[k] = "queued"
               PROVE  \/ serving'[worker[k]] = k
                      \/ \E i \in DOMAIN queue[worker[k]] : queue[worker[k]][i] = k
    BY DEF Present
  <2>1. k # j /\ phase[k] = "queued"
    BY <1>2
  <2>2. worker[k] \in Workers
    BY <2>1 DEF IInv, Match
  <2> QED BY <1>2, <2>1, <2>2 DEF IInv, Present
<1> QED BY <1>3, <1>4 DEF Lines

\* stop(): the sentinel goes to the end of the queue.
LEMMA QueueStop ==
    ASSUME IInv, NEW v \in Workers, BeginStop(v), phase' = phase, worker' = worker
    PROVE  Lines' /\ Present'
<1>1. /\ loop' = [loop EXCEPT ![v] = "stopping"] /\ serving' = serving
      /\ queue' = [queue EXCEPT ![v] = Append(@, Stop)]
  BY DEF BeginStop
<1>2. /\ queue[v] \in Seq(Jobs \cup {Stop}) /\ queue'[v] = Append(queue[v], Stop)
      /\ \A w \in Workers \ {v} : queue'[w] = queue[w] /\ loop'[w] = loop[w]
      /\ loop'[v] = "stopping"
  BY <1>1 DEF IInv, TypeOK, UploadWorkersTypeOK
<1>3. /\ \A i \in DOMAIN queue[v] : i \in DOMAIN queue'[v] /\ queue'[v][i] = queue[v][i]
      /\ \A i \in DOMAIN queue'[v] : queue'[v][i] \in Jobs =>
            i \in DOMAIN queue[v] /\ queue'[v][i] = queue[v][i]
  <2>1. /\ DOMAIN queue[v] = 1..Len(queue[v]) /\ Len(queue[v]) \in Nat
        /\ DOMAIN queue'[v] = 1..(Len(queue[v]) + 1)
        /\ \A i \in 1..Len(queue[v]) : queue'[v][i] = queue[v][i]
        /\ queue'[v][Len(queue[v]) + 1] = Stop
    BY <1>2
  <2> QED BY <2>1, UploadParamsAssumption
<1>4. ASSUME NEW w \in Workers PROVE Line(w)'
  <2>1. Line(w)
    BY DEF IInv, Lines
  <2>2. CASE w # v
    <3>1. queue'[w] = queue[w] /\ loop'[w] = loop[w]
      BY <1>2, <2>2
    <3> QED BY <1>1, <2>1, <3>1 DEF Line
  <2>3. CASE w = v
    <3>1. \A i \in DOMAIN queue'[w] : queue'[w][i] \in Jobs =>
             i \in DOMAIN queue[w] /\ queue'[w][i] = queue[w][i]
      BY <1>3, <2>3
    <3>2. \A i \in DOMAIN queue'[w] : queue'[w][i] \in Jobs =>
             /\ phase'[queue'[w][i]] = "queued" /\ worker'[queue'[w][i]] = w
             /\ queue'[w][i] # serving'[w]
      BY <1>1, <2>1, <3>1 DEF Line
    <3>3. \A i, k \in DOMAIN queue'[w] :
             queue'[w][i] \in Jobs /\ queue'[w][i] = queue'[w][k] => i = k
      BY <2>1, <3>1 DEF Line
    <3>4. serving'[w] # None =>
             /\ phase'[serving'[w]] = "queued" /\ worker'[serving'[w]] = w
             /\ loop'[w] \in {"running", "stopping"}
      BY <1>1, <1>2, <2>1, <2>3 DEF Line
    <3> QED BY <3>2, <3>3, <3>4 DEF Line
  <2> QED BY <2>2, <2>3
<1>5. Present'
  <2> SUFFICES ASSUME NEW k \in Jobs, phase[k] = "queued"
               PROVE  \/ serving[worker[k]] = k
                      \/ \E i \in DOMAIN queue'[worker[k]] : queue'[worker[k]][i] = k
    BY <1>1 DEF Present
  <2>1. worker[k] \in Workers
    BY DEF IInv, Match
  <2>2. \/ serving[worker[k]] = k
        \/ \E i \in DOMAIN queue[worker[k]] : queue[worker[k]][i] = k
    BY DEF IInv, Present
  <2>3. CASE worker[k] # v
    BY <1>2, <2>1, <2>2, <2>3
  <2>4. CASE worker[k] = v
    BY <1>3, <2>2, <2>4
  <2> QED BY <2>3, <2>4
<1> QED BY <1>4, <1>5 DEF Lines

\* _loop: the sentinel ends it; tasks behind it stay where they are.
LEMMA QueueTakeStop ==
    ASSUME IInv, NEW v \in Workers, TakeStop(v), phase' = phase, worker' = worker
    PROVE  Lines' /\ Present'
<1>1. /\ serving[v] = None /\ queue[v] # <<>> /\ Head(queue[v]) = Stop
      /\ loop' = [loop EXCEPT ![v] = "ended"] /\ serving' = serving
      /\ queue' = [queue EXCEPT ![v] = Tail(@)]
  BY DEF TakeStop
<1>2. /\ queue[v] \in Seq(Jobs \cup {Stop}) /\ queue'[v] = Tail(queue[v])
      /\ \A w \in Workers \ {v} : queue'[w] = queue[w] /\ loop'[w] = loop[w]
  BY <1>1 DEF IInv, TypeOK, UploadWorkersTypeOK
<1>3. /\ Len(queue[v]) \in Nat \ {0} /\ DOMAIN queue[v] = 1..Len(queue[v])
      /\ queue[v][1] = Stop
      /\ DOMAIN queue'[v] = 1..(Len(queue[v]) - 1)
      /\ \A i \in DOMAIN queue'[v] : queue'[v][i] = queue[v][i + 1]
  <2>1. /\ Len(queue[v]) \in Nat \ {0} /\ DOMAIN queue[v] = 1..Len(queue[v])
        /\ Head(queue[v]) = queue[v][1]
    BY <1>1, <1>2
  <2>2. /\ DOMAIN Tail(queue[v]) = 1..(Len(queue[v]) - 1)
        /\ \A i \in DOMAIN Tail(queue[v]) : Tail(queue[v])[i] = queue[v][i + 1]
    BY <1>2, <2>1
  <2> QED BY <1>1, <1>2, <2>1, <2>2
<1>4. Line(v)
  BY DEF IInv, Lines
<1>5. ASSUME NEW w \in Workers PROVE Line(w)'
  <2>1. CASE w # v
    <3>1. queue'[w] = queue[w] /\ loop'[w] = loop[w] /\ Line(w)
      BY <1>2, <2>1 DEF IInv, Lines
    <3> QED BY <1>1, <3>1 DEF Line
  <2>2. CASE w = v
    <3>1. \A i \in DOMAIN queue'[v] : i + 1 \in DOMAIN queue[v]
                                        /\ queue'[v][i] = queue[v][i + 1]
      BY <1>3
    <3>2. \A i \in DOMAIN queue'[v] : queue'[v][i] \in Jobs =>
             /\ phase'[queue'[v][i]] = "queued" /\ worker'[queue'[v][i]] = v
             /\ queue'[v][i] # serving'[v]
      BY <1>1, <1>4, <3>1 DEF Line
    <3>3. \A i, k \in DOMAIN queue'[v] :
             queue'[v][i] \in Jobs /\ queue'[v][i] = queue'[v][k] => i = k
      <4> SUFFICES ASSUME NEW i \in DOMAIN queue'[v], NEW k \in DOMAIN queue'[v],
                          queue'[v][i] \in Jobs, queue'[v][i] = queue'[v][k]
                   PROVE  i = k
        OBVIOUS
      <4>1. i + 1 = k + 1
        BY <1>4, <3>1 DEF Line
      <4>2. i \in Int /\ k \in Int
        BY <1>3
      <4> QED BY <4>1, <4>2
    <3> QED BY <1>1, <2>2, <3>2, <3>3 DEF Line
  <2> QED BY <2>1, <2>2
<1>6. Present'
  <2> SUFFICES ASSUME NEW k \in Jobs, phase[k] = "queued"
               PROVE  \/ serving[worker[k]] = k
                      \/ \E i \in DOMAIN queue'[worker[k]] : queue'[worker[k]][i] = k
    BY <1>1 DEF Present
  <2>1. worker[k] \in Workers
    BY DEF IInv, Match
  <2>2. \/ serving[worker[k]] = k
        \/ \E i \in DOMAIN queue[worker[k]] : queue[worker[k]][i] = k
    BY DEF IInv, Present
  <2>3. CASE worker[k] # v
    BY <1>2, <2>1, <2>2, <2>3
  <2>4. CASE worker[k] = v
    <3>1. serving[v] # k
      BY <1>1, UploadParamsAssumption
    <3>2. PICK i \in DOMAIN queue[v] : queue[v][i] = k
      BY <2>2, <2>4, <3>1
    <3>3. i # 1
      BY <1>3, <3>2, UploadParamsAssumption
    <3>4. i - 1 \in DOMAIN queue'[v] /\ queue'[v][i - 1] = k
      BY <1>3, <3>2, <3>3
    <3> QED BY <2>4, <3>4
  <2> QED BY <2>3, <2>4
<1> QED BY <1>5, <1>6 DEF Lines

\* Every step keeps the queues exact.
LEMMA QueueStep == IInv /\ [Next]_vars => Lines' /\ Present'
<1> SUFFICES ASSUME IInv, [Next]_vars PROVE Lines' /\ Present'
  OBVIOUS
<1> USE DEF IInv
<1>1. ASSUME NEW j \in Jobs, NEW s \in Sessions, Select(j, s) PROVE Lines' /\ Present'
  <2>1. /\ phase[j] = "select" /\ phase' = [phase EXCEPT ![j] = "slot"]
        /\ queue' = queue /\ serving' = serving
    BY <1>1 DEF Select, Borrow, workerVars, poolVars, recordVars, countVars, jobVars, boundVars
  <2>2. \A k \in Jobs \ {j} : worker'[k] = worker[k]
    BY <1>1 DEF Select, Borrow, workerVars, poolVars, recordVars, countVars, jobVars, boundVars, TypeOK
  <2>3. \A v \in Workers : loop'[v] = loop[v]
    BY <1>1 DEF Select, Borrow, workerVars, poolVars, recordVars, countVars, jobVars, boundVars, TypeOK, UploadWorkersTypeOK
  <2> QED BY <2>1, <2>2, <2>3, QueueJob
<1>2. ASSUME NEW j \in Jobs, Refuse(j) PROVE Lines' /\ Present'
  <2>1. /\ phase[j] = "select" /\ phase' = [phase EXCEPT ![j] = "refused"]
        /\ queue' = queue /\ serving' = serving
    BY <1>2 DEF Refuse, NoneAvailable, workerVars, poolVars, recordVars, countVars, jobVars, boundVars
  <2>2. \A k \in Jobs \ {j} : worker'[k] = worker[k]
    BY <1>2 DEF Refuse, NoneAvailable, workerVars, poolVars, recordVars, countVars, jobVars, boundVars, TypeOK
  <2>3. \A v \in Workers : loop'[v] = loop[v]
    BY <1>2 DEF Refuse, NoneAvailable, workerVars, poolVars, recordVars, countVars, jobVars, boundVars, TypeOK, UploadWorkersTypeOK
  <2> QED BY <2>1, <2>2, <2>3, QueueJob
<1>3. ASSUME NEW j \in Jobs, Exhaust(j) PROVE Lines' /\ Present'
  <2>1. /\ phase[j] = "select" /\ phase' = [phase EXCEPT ![j] = "refused"]
        /\ queue' = queue /\ serving' = serving
    BY <1>3 DEF Exhaust, workerVars, poolVars, recordVars, countVars, jobVars, boundVars
  <2>2. \A k \in Jobs \ {j} : worker'[k] = worker[k]
    BY <1>3 DEF Exhaust, workerVars, poolVars, recordVars, countVars, jobVars, boundVars, TypeOK
  <2>3. \A v \in Workers : loop'[v] = loop[v]
    BY <1>3 DEF Exhaust, workerVars, poolVars, recordVars, countVars, jobVars, boundVars, TypeOK, UploadWorkersTypeOK
  <2> QED BY <2>1, <2>2, <2>3, QueueJob
<1>4. ASSUME NEW j \in Jobs, NEW w \in Workers, GetWorker(j, w) PROVE Lines' /\ Present'
  <2>1. /\ phase[j] = "slot" /\ phase' = [phase EXCEPT ![j] = "ready"]
        /\ queue' = queue /\ serving' = serving
    BY <1>4 DEF GetWorker, Reuse, workerVars, poolVars, recordVars, countVars, jobVars, boundVars
  <2>2. \A k \in Jobs \ {j} : worker'[k] = worker[k]
    BY <1>4 DEF GetWorker, Reuse, workerVars, poolVars, recordVars, countVars, jobVars, boundVars, TypeOK
  <2>3. \A v \in Workers : loop'[v] = loop[v]
    BY <1>4 DEF GetWorker, Reuse, workerVars, poolVars, recordVars, countVars, jobVars, boundVars, TypeOK, UploadWorkersTypeOK
  <2> QED BY <2>1, <2>2, <2>3, QueueJob
<1>5. ASSUME NEW j \in Jobs, NEW w \in Workers, GetBlindWorker(j, w) PROVE Lines' /\ Present'
  <2>1. /\ phase[j] = "slot" /\ phase' = [phase EXCEPT ![j] = "select"]
        /\ queue' = queue /\ serving' = serving
    BY <1>5 DEF GetBlindWorker, LeaveAs, Release, Reuse, workerVars, poolVars, recordVars, countVars, jobVars, boundVars
  <2>2. \A k \in Jobs \ {j} : worker'[k] = worker[k]
    BY <1>5 DEF GetBlindWorker, LeaveAs, Release, Reuse, workerVars, poolVars, recordVars, countVars, jobVars, boundVars, TypeOK
  <2>3. \A v \in Workers : loop'[v] = loop[v]
    BY <1>5 DEF GetBlindWorker, LeaveAs, Release, Reuse, workerVars, poolVars, recordVars, countVars, jobVars, boundVars, TypeOK, UploadWorkersTypeOK
  <2> QED BY <2>1, <2>2, <2>3, QueueJob
<1>6. ASSUME NEW j \in Jobs, CreateWorker(j) PROVE Lines' /\ Present'
  <2>1. /\ phase[j] = "slot" /\ phase' = [phase EXCEPT ![j] = "start"]
        /\ queue' = queue /\ serving' = serving
    BY <1>6 DEF CreateWorker, BeginStart, workerVars, poolVars, recordVars, countVars, jobVars, boundVars
  <2>2. \A k \in Jobs \ {j} : worker'[k] = worker[k]
    BY <1>6 DEF CreateWorker, BeginStart, workerVars, poolVars, recordVars, countVars, jobVars, boundVars, TypeOK
  <2>3. \A v \in Workers : loop'[v] = loop[v]
    BY <1>6 DEF CreateWorker, BeginStart, workerVars, poolVars, recordVars, countVars, jobVars, boundVars, TypeOK, UploadWorkersTypeOK
  <2> QED BY <2>1, <2>2, <2>3, QueueJob
<1>7. ASSUME NEW j \in Jobs, WorkerStarts(j) PROVE Lines' /\ Present'
  <2>1. /\ phase[j] = "start" /\ phase' = [phase EXCEPT ![j] = "ready"]
        /\ queue' = queue /\ serving' = serving
    BY <1>7 DEF WorkerStarts, StartSucceeds, workerVars, poolVars, recordVars, countVars, jobVars, boundVars
  <2>2. \A k \in Jobs \ {j} : worker'[k] = worker[k]
    BY <1>7 DEF WorkerStarts, StartSucceeds, workerVars, poolVars, recordVars, countVars, jobVars, boundVars, TypeOK
  <2>3. \A v \in Workers : loop'[v] = loop[v] \/ loop'[v] = "running"
    BY <1>7 DEF WorkerStarts, StartSucceeds, workerVars, poolVars, recordVars, countVars, jobVars, boundVars, TypeOK, UploadWorkersTypeOK
  <2> QED BY <2>1, <2>2, <2>3, QueueJob
<1>8. ASSUME NEW j \in Jobs, WorkerStartsBlind(j) PROVE Lines' /\ Present'
  <2>1. /\ phase[j] = "start" /\ phase' = [phase EXCEPT ![j] = "select"]
        /\ queue' = queue /\ serving' = serving
    BY <1>8 DEF WorkerStartsBlind, LeaveAs, Release, StartSucceeds, workerVars, poolVars, recordVars, countVars, jobVars, boundVars
  <2>2. \A k \in Jobs \ {j} : worker'[k] = worker[k]
    BY <1>8 DEF WorkerStartsBlind, LeaveAs, Release, StartSucceeds, workerVars, poolVars, recordVars, countVars, jobVars, boundVars, TypeOK
  <2>3. \A v \in Workers : loop'[v] = loop[v] \/ loop'[v] = "running"
    BY <1>8 DEF WorkerStartsBlind, LeaveAs, Release, StartSucceeds, workerVars, poolVars, recordVars, countVars, jobVars, boundVars, TypeOK, UploadWorkersTypeOK
  <2> QED BY <2>1, <2>2, <2>3, QueueJob
<1>9. ASSUME NEW j \in Jobs, WorkerStartFails(j) PROVE Lines' /\ Present'
  <2>1. /\ phase[j] = "start" /\ phase' = [phase EXCEPT ![j] = "select"]
        /\ queue' = queue /\ serving' = serving
    BY <1>9 DEF WorkerStartFails, LeaveAs, Release, StartFails, workerVars, poolVars, recordVars, countVars, jobVars, boundVars
  <2>2. \A k \in Jobs \ {j} : worker'[k] = worker[k]
    BY <1>9 DEF WorkerStartFails, LeaveAs, Release, StartFails, workerVars, poolVars, recordVars, countVars, jobVars, boundVars, TypeOK
  <2>3. \A v \in Workers : loop'[v] = loop[v]
    BY <1>9 DEF WorkerStartFails, LeaveAs, Release, StartFails, workerVars, poolVars, recordVars, countVars, jobVars, boundVars, TypeOK, UploadWorkersTypeOK
  <2> QED BY <2>1, <2>2, <2>3, QueueJob
<1>10. ASSUME NEW j \in Jobs, WorkerIsBlocked(j) PROVE Lines' /\ Present'
  <2>1. /\ phase[j] = "start" /\ phase' = [phase EXCEPT ![j] = "select"]
        /\ queue' = queue /\ serving' = serving
    BY <1>10 DEF WorkerIsBlocked, LeaveFlooded, MarkFloodAndRelease, StartFails, workerVars, poolVars, recordVars, countVars, jobVars, boundVars
  <2>2. \A k \in Jobs \ {j} : worker'[k] = worker[k]
    BY <1>10 DEF WorkerIsBlocked, LeaveFlooded, MarkFloodAndRelease, StartFails, workerVars, poolVars, recordVars, countVars, jobVars, boundVars, TypeOK
  <2>3. \A v \in Workers : loop'[v] = loop[v]
    BY <1>10 DEF WorkerIsBlocked, LeaveFlooded, MarkFloodAndRelease, StartFails, workerVars, poolVars, recordVars, countVars, jobVars, boundVars, TypeOK, UploadWorkersTypeOK
  <2> QED BY <2>1, <2>2, <2>3, QueueJob
<1>11. ASSUME NEW j \in Jobs, Enqueue(j) PROVE Lines' /\ Present'
  BY <1>11, QueueEnqueue
<1>12. ASSUME NEW j \in Jobs, Retry(j) PROVE Lines' /\ Present'
  <2>1. /\ phase[j] = "failed" /\ phase' = [phase EXCEPT ![j] = "select"]
        /\ queue' = queue /\ serving' = serving
    BY <1>12 DEF Retry, LeaveAs, Release, workerVars, poolVars, recordVars, countVars, jobVars, boundVars
  <2>2. \A k \in Jobs \ {j} : worker'[k] = worker[k]
    BY <1>12 DEF Retry, LeaveAs, Release, workerVars, poolVars, recordVars, countVars, jobVars, boundVars, TypeOK
  <2>3. \A v \in Workers : loop'[v] = loop[v]
    BY <1>12 DEF Retry, LeaveAs, Release, workerVars, poolVars, recordVars, countVars, jobVars, boundVars, TypeOK, UploadWorkersTypeOK
  <2> QED BY <2>1, <2>2, <2>3, QueueJob
<1>13. ASSUME NEW j \in Jobs, RetryFlooded(j) PROVE Lines' /\ Present'
  <2>1. /\ phase[j] = "long_flood" /\ phase' = [phase EXCEPT ![j] = "select"]
        /\ queue' = queue /\ serving' = serving
    BY <1>13 DEF RetryFlooded, LeaveFlooded, MarkFloodAndRelease, workerVars, poolVars, recordVars, countVars, jobVars, boundVars
  <2>2. \A k \in Jobs \ {j} : worker'[k] = worker[k]
    BY <1>13 DEF RetryFlooded, LeaveFlooded, MarkFloodAndRelease, workerVars, poolVars, recordVars, countVars, jobVars, boundVars, TypeOK
  <2>3. \A v \in Workers : loop'[v] = loop[v]
    BY <1>13 DEF RetryFlooded, LeaveFlooded, MarkFloodAndRelease, workerVars, poolVars, recordVars, countVars, jobVars, boundVars, TypeOK, UploadWorkersTypeOK
  <2> QED BY <2>1, <2>2, <2>3, QueueJob
<1>14. ASSUME NEW j \in Jobs, Abort(j) PROVE Lines' /\ Present'
  <2>1. /\ phase[j] = "cancelled" /\ phase' = [phase EXCEPT ![j] = "aborted"]
        /\ queue' = queue /\ serving' = serving
    BY <1>14 DEF Abort, LeaveAs, Release, workerVars, poolVars, recordVars, countVars, jobVars, boundVars
  <2>2. \A k \in Jobs \ {j} : worker'[k] = worker[k]
    BY <1>14 DEF Abort, LeaveAs, Release, workerVars, poolVars, recordVars, countVars, jobVars, boundVars, TypeOK
  <2>3. \A v \in Workers : loop'[v] = loop[v]
    BY <1>14 DEF Abort, LeaveAs, Release, workerVars, poolVars, recordVars, countVars, jobVars, boundVars, TypeOK, UploadWorkersTypeOK
  <2> QED BY <2>1, <2>2, <2>3, QueueJob
<1>15. ASSUME NEW j \in Jobs, Deliver(j) PROVE Lines' /\ Present'
  <2>1. /\ phase[j] = "sent" /\ phase' = [phase EXCEPT ![j] = "delivered"]
        /\ queue' = queue /\ serving' = serving
    BY <1>15 DEF Deliver, LeaveAs, Release, workerVars, poolVars, recordVars, countVars, jobVars, boundVars
  <2>2. \A k \in Jobs \ {j} : worker'[k] = worker[k]
    BY <1>15 DEF Deliver, LeaveAs, Release, workerVars, poolVars, recordVars, countVars, jobVars, boundVars, TypeOK
  <2>3. \A v \in Workers : loop'[v] = loop[v]
    BY <1>15 DEF Deliver, LeaveAs, Release, workerVars, poolVars, recordVars, countVars, jobVars, boundVars, TypeOK, UploadWorkersTypeOK
  <2> QED BY <2>1, <2>2, <2>3, QueueJob
<1>16. ASSUME NEW j \in Jobs, CopyFails(j) PROVE Lines' /\ Present'
  <2>1. /\ phase[j] = "sent" /\ phase' = [phase EXCEPT ![j] = "select"]
        /\ queue' = queue /\ serving' = serving
    BY <1>16 DEF CopyFails, LeaveAs, Release, workerVars, poolVars, recordVars, countVars, jobVars, boundVars
  <2>2. \A k \in Jobs \ {j} : worker'[k] = worker[k]
    BY <1>16 DEF CopyFails, LeaveAs, Release, workerVars, poolVars, recordVars, countVars, jobVars, boundVars, TypeOK
  <2>3. \A v \in Workers : loop'[v] = loop[v]
    BY <1>16 DEF CopyFails, LeaveAs, Release, workerVars, poolVars, recordVars, countVars, jobVars, boundVars, TypeOK, UploadWorkersTypeOK
  <2> QED BY <2>1, <2>2, <2>3, QueueJob
<1>17. ASSUME NEW w \in Workers, Serve(w) PROVE Lines' /\ Present'
  BY <1>17, QueueServe
<1>18. ASSUME NEW w \in Workers, StopWorker(w) PROVE Lines' /\ Present'
  <2>1. phase' = phase /\ worker' = worker
    BY <1>18 DEF StopWorker, jobVars
  <2> QED BY <1>18, <2>1, QueueStop, QueueTakeStop DEF StopWorker
<1>19. ASSUME NEW w \in Workers, NEW a \in Answers, Execute(w, a) PROVE Lines' /\ Present'
  <2>1. /\ serving[w] # None /\ serving' = [serving EXCEPT ![w] = None]
        /\ queue' = queue /\ worker' = worker
        /\ phase' = [phase EXCEPT ![serving[w]] = a]
    BY <1>19 DEF Execute, Done
  <2>2. \A v \in Workers \ {w} : loop'[v] = loop[v]
    BY <1>19 DEF Execute, Done, TypeOK, UploadWorkersTypeOK
  <2>3. a # "queued"
    BY DEF Answers
  <2> QED BY <2>1, <2>2, <2>3, QueueDone
<1>20. ASSUME NEW w \in Workers, CancelWorker(w) PROVE Lines' /\ Present'
  <2>1. /\ serving[w] # None /\ serving' = [serving EXCEPT ![w] = None]
        /\ queue' = queue /\ worker' = worker
        /\ phase' = [phase EXCEPT ![serving[w]] = "cancelled"]
    BY <1>20 DEF CancelWorker, StopTimesOut
  <2>2. \A v \in Workers \ {w} : loop'[v] = loop[v]
    BY <1>20 DEF CancelWorker, StopTimesOut, TypeOK, UploadWorkersTypeOK
  <2>3. "cancelled" # "queued"
    BY DEF Answers
  <2> QED BY <2>1, <2>2, <2>3, QueueDone
<1>21. ASSUME NEW w \in Workers, ReapIdle(w) PROVE Lines' /\ Present'
  <2>1. phase' = phase /\ worker' = worker /\ queue' = queue /\ serving' = serving /\ loop' = loop
    BY <1>21 DEF ReapIdle, Reap, workerVars, poolVars, recordVars, countVars, jobVars, boundVars
  <2> QED BY <2>1, QueueFrame
<1>22. ASSUME NEW u \in Users, Logout(u) PROVE Lines' /\ Present'
  <2>1. phase' = phase /\ worker' = worker /\ queue' = queue /\ serving' = serving /\ loop' = loop
    BY <1>22 DEF Logout, RemoveUser, workerVars, poolVars, recordVars, countVars, jobVars, boundVars
  <2> QED BY <2>1, QueueFrame
<1>23. ASSUME NEW s \in Sessions, EndFlood(s) PROVE Lines' /\ Present'
  <2>1. phase' = phase /\ worker' = worker /\ queue' = queue /\ serving' = serving /\ loop' = loop
    BY <1>23 DEF EndFlood, FloodExpires, workerVars, poolVars, recordVars, countVars, jobVars, boundVars
  <2> QED BY <2>1, QueueFrame
<1>24. ASSUME NEW s \in Sessions, NEW u \in Users, Age(s, u) PROVE Lines' /\ Present'
  <2>1. phase' = phase /\ worker' = worker /\ queue' = queue /\ serving' = serving /\ loop' = loop
    BY <1>24 DEF Age, GrowStale, workerVars, poolVars, recordVars, countVars, jobVars, boundVars
  <2> QED BY <2>1, QueueFrame
<1>25. ASSUME Command PROVE Lines' /\ Present'
  <2>1. phase' = phase /\ worker' = worker /\ queue' = queue /\ serving' = serving /\ loop' = loop
    BY <1>25 DEF Command, Register, Disable, Enable, Remove, SetLimit, SetLent, DisableAllGlobal, workerVars, poolVars, recordVars, countVars, jobVars, boundVars
  <2> QED BY <2>1, QueueFrame
<1>26. ASSUME UNCHANGED vars PROVE Lines' /\ Present'
  <2>1. phase' = phase /\ worker' = worker /\ queue' = queue /\ serving' = serving /\ loop' = loop
    BY <1>26 DEF vars, workerVars, poolVars, recordVars, countVars, jobVars, boundVars
  <2> QED BY <2>1, QueueFrame
<1> QED
  BY <1>1, <1>2, <1>3, <1>4, <1>5, <1>6, <1>7, <1>8, <1>9, <1>10, <1>11, <1>12, <1>13, <1>14, <1>15, <1>16, <1>17, <1>18, <1>19, <1>20, <1>21, <1>22, <1>23, <1>24, <1>25, <1>26 DEF Next, Job, Loop

\* TypeOK without the pool and the workers
JobsTypeOK ==
    /\ phase \in [Jobs -> Holding \cup Ended \cup {"select"}]
    /\ sess \in [Jobs -> Sessions \cup {None}]
    /\ tried \in [Jobs -> SUBSET Sessions]
    /\ worker \in [Jobs -> Workers \cup {None}]
    /\ {floods, agings, commands} \subseteq Nat
    /\ loggedOut \subseteq Users /\ shaken \subseteq Sessions

\* Shake keeps shaken a set of sessions.
LEMMA ShakeType ==
    ASSUME shaken \subseteq Sessions, NEW cut \in SUBSET Sessions, Shake(cut)
    PROVE  shaken' \subseteq Sessions
BY DEF Shake

\* Every step keeps the state well typed.
LEMMA TypeStep == IInv /\ [Next]_vars => TypeOK'
<1> SUFFICES ASSUME IInv, [Next]_vars PROVE TypeOK'
  OBVIOUS
<1>t. SlotPoolTypeOK /\ UploadWorkersTypeOK /\ JobsTypeOK /\ TypeOK /\ Match /\ Lines
  BY DEF IInv, TypeOK, JobsTypeOK
<1>q. SlotPoolTypeOK' /\ UploadWorkersTypeOK' /\ JobsTypeOK' => TypeOK'
  BY DEF TypeOK, JobsTypeOK
<1>1. ASSUME NEW j \in Jobs, NEW s \in Sessions, Select(j, s) PROVE TypeOK'
  <2>1. SlotPoolTypeOK'
    <3>1. \A x \in Sessions : Reclaimed(x) \in Nat
      BY <1>t, ReclaimBound
    <3>2. \A x \in Sessions : Refreshed(x) \in [Users -> {"none", "fresh", "stale"}]
      BY <1>t DEF Refreshed, SlotPoolTypeOK
    <3>3. UNCHANGED <<recordVars, flooded>>
      BY <1>1 DEF Select, Borrow
    <3>4. current' \in [Sessions -> Nat]
      BY <1>t, <1>1, <3>1 DEF Select, Borrow, SlotPoolTypeOK
    <3>5. since' \in [Sessions -> [Users -> {"none", "fresh", "stale"}]]
      BY <1>t, <1>1, <3>2, UploadParamsAssumption DEF Select, Borrow, SlotPoolTypeOK
    <3> QED BY <1>t, <3>3, <3>4, <3>5 DEF SlotPoolTypeOK, recordVars
  <2>2. UploadWorkersTypeOK'
    BY <1>t, <1>1 DEF Select, Borrow, UploadWorkersTypeOK, workerVars, poolVars, recordVars, countVars, jobVars, boundVars
  <2>3. JobsTypeOK'
    <3>1. shaken' \subseteq Sessions
      <4>1. StaleIn({s} \cup Scanned(Candidates(j), {s}, RankFor(j))) \subseteq Sessions
        BY DEF StaleIn, Scanned, Candidates, ForSystem, ForUser, OwnFirst, Borrowable, Enabled
      <4> QED BY <1>t, <1>1, <4>1, ShakeType DEF Select, JobsTypeOK
    <3> QED BY <1>t, <1>1, <3>1 DEF Select, JobsTypeOK, boundVars, Holding
  <2> QED BY <1>q, <2>1, <2>2, <2>3
<1>2. ASSUME NEW j \in Jobs, Refuse(j) PROVE TypeOK'
  <2>1. SlotPoolTypeOK'
    <3>1. \A x \in Sessions : Reclaimed(x) \in Nat
      BY <1>t, ReclaimBound
    <3>2. \A x \in Sessions : Refreshed(x) \in [Users -> {"none", "fresh", "stale"}]
      BY <1>t DEF Refreshed, SlotPoolTypeOK
    <3>3. UNCHANGED <<recordVars, flooded>>
      BY <1>2 DEF Refuse, NoneAvailable
    <3>4. current' \in [Sessions -> Nat]
      BY <1>t, <1>2, <3>1 DEF Refuse, NoneAvailable, SlotPoolTypeOK
    <3>5. since' \in [Sessions -> [Users -> {"none", "fresh", "stale"}]]
      BY <1>t, <1>2, <3>2 DEF Refuse, NoneAvailable, SlotPoolTypeOK
    <3> QED BY <1>t, <3>3, <3>4, <3>5 DEF SlotPoolTypeOK, recordVars
  <2>2. UploadWorkersTypeOK'
    BY <1>t, <1>2 DEF Refuse, NoneAvailable, UploadWorkersTypeOK, workerVars, poolVars, recordVars, countVars, jobVars, boundVars
  <2>3. JobsTypeOK'
    <3>1. shaken' \subseteq Sessions
      <4>1. StaleIn(Candidates(j) \ flooded) \subseteq Sessions
        BY DEF StaleIn, Candidates, ForSystem, ForUser, OwnFirst, Borrowable, Enabled
      <4> QED BY <1>t, <1>2, <4>1, ShakeType DEF Refuse, JobsTypeOK
    <3> QED BY <1>t, <1>2, <3>1 DEF Refuse, JobsTypeOK, boundVars, Ended
  <2> QED BY <1>q, <2>1, <2>2, <2>3
<1>3. ASSUME NEW j \in Jobs, Exhaust(j) PROVE TypeOK'
  <2>1. SlotPoolTypeOK'
    BY <1>t, <1>3 DEF Exhaust, SlotPoolTypeOK, workerVars, poolVars, recordVars, countVars, jobVars, boundVars
  <2>2. UploadWorkersTypeOK'
    BY <1>t, <1>3 DEF Exhaust, UploadWorkersTypeOK, workerVars, poolVars, recordVars, countVars, jobVars, boundVars
  <2>3. JobsTypeOK'
    BY <1>t, <1>3 DEF Exhaust, JobsTypeOK, workerVars, poolVars, recordVars, countVars, jobVars, boundVars, Holding, Ended
  <2> QED BY <1>q, <2>1, <2>2, <2>3
<1>4. ASSUME NEW j \in Jobs, NEW w \in Workers, GetWorker(j, w) PROVE TypeOK'
  <2>1. SlotPoolTypeOK'
    BY <1>t, <1>4 DEF GetWorker, Reuse, SlotPoolTypeOK, workerVars, poolVars, recordVars, countVars, jobVars, boundVars
  <2>2. UploadWorkersTypeOK'
    BY <1>t, <1>4 DEF GetWorker, Reuse, UploadWorkersTypeOK, workerVars, poolVars, recordVars, countVars, jobVars, boundVars
  <2>3. JobsTypeOK'
    BY <1>t, <1>4 DEF GetWorker, Reuse, JobsTypeOK, workerVars, poolVars, recordVars, countVars, jobVars, boundVars, Holding, Ended
  <2> QED BY <1>q, <2>1, <2>2, <2>3
<1>5. ASSUME NEW j \in Jobs, NEW w \in Workers, GetBlindWorker(j, w) PROVE TypeOK'
  <2>1. SlotPoolTypeOK'
    <3>1. sess[j] \in Sessions /\ UserOf[j] \in Users
      BY <1>t, <1>5, UploadParamsAssumption DEF GetBlindWorker, Match, Holding
    <3>2. Release(sess[j], UserOf[j])
      BY <1>5 DEF GetBlindWorker, LeaveAs
    <3> QED BY <1>t, <3>1, <3>2 DEF Release, Less, SlotPoolTypeOK, recordVars
  <2>2. UploadWorkersTypeOK'
    BY <1>t, <1>5 DEF GetBlindWorker, LeaveAs, Release, Reuse, UploadWorkersTypeOK, workerVars, poolVars, recordVars, countVars, jobVars, boundVars
  <2>3. JobsTypeOK'
    <3>1. LeaveAs(j, "select")
      BY <1>5 DEF GetBlindWorker
    <3>2. shaken' \subseteq Sessions
      BY <1>t, <3>1, ShakeType DEF LeaveAs, JobsTypeOK
    <3> QED BY <1>t, <3>1, <3>2 DEF LeaveAs, JobsTypeOK, boundVars, Ended
  <2> QED BY <1>q, <2>1, <2>2, <2>3
<1>6. ASSUME NEW j \in Jobs, CreateWorker(j) PROVE TypeOK'
  <2>1. SlotPoolTypeOK'
    BY <1>t, <1>6 DEF CreateWorker, BeginStart, SlotPoolTypeOK, workerVars, poolVars, recordVars, countVars, jobVars, boundVars
  <2>2. UploadWorkersTypeOK'
    BY <1>t, <1>6 DEF CreateWorker, BeginStart, UploadWorkersTypeOK, workerVars, poolVars, recordVars, countVars, jobVars, boundVars
  <2>3. JobsTypeOK'
    BY <1>t, <1>6 DEF CreateWorker, BeginStart, JobsTypeOK, workerVars, poolVars, recordVars, countVars, jobVars, boundVars, Holding, Ended
  <2> QED BY <1>q, <2>1, <2>2, <2>3
<1>7. ASSUME NEW j \in Jobs, WorkerStarts(j) PROVE TypeOK'
  <2>1. SlotPoolTypeOK'
    BY <1>t, <1>7 DEF WorkerStarts, StartSucceeds, SlotPoolTypeOK, workerVars, poolVars, recordVars, countVars, jobVars, boundVars
  <2>2. UploadWorkersTypeOK'
    <3>1. sess[j] \in Sessions
      BY <1>t, <1>7 DEF WorkerStarts, Match, Holding
    <3>2. <<j, sess[j]>> \in Workers
      BY <3>1 DEF Workers
    <3> QED BY <1>t, <1>7, <3>2 DEF WorkerStarts, StartSucceeds, UploadWorkersTypeOK
  <2>3. JobsTypeOK'
    <3>1. <<j, sess[j]>> \in Workers
      BY <1>t, <1>7 DEF WorkerStarts, Match, Holding, Workers
    <3> QED BY <1>t, <1>7, <3>1 DEF WorkerStarts, JobsTypeOK, boundVars, Holding
  <2> QED BY <1>q, <2>1, <2>2, <2>3
<1>8. ASSUME NEW j \in Jobs, WorkerStartsBlind(j) PROVE TypeOK'
  <2>1. SlotPoolTypeOK'
    <3>1. sess[j] \in Sessions /\ UserOf[j] \in Users
      BY <1>t, <1>8, UploadParamsAssumption DEF WorkerStartsBlind, Match, Holding
    <3>2. Release(sess[j], UserOf[j])
      BY <1>8 DEF WorkerStartsBlind, LeaveAs
    <3> QED BY <1>t, <3>1, <3>2 DEF Release, Less, SlotPoolTypeOK, recordVars
  <2>2. UploadWorkersTypeOK'
    <3>1. sess[j] \in Sessions
      BY <1>t, <1>8 DEF WorkerStartsBlind, Match, Holding
    <3>2. <<j, sess[j]>> \in Workers
      BY <3>1 DEF Workers
    <3> QED BY <1>t, <1>8, <3>2 DEF WorkerStartsBlind, StartSucceeds, UploadWorkersTypeOK
  <2>3. JobsTypeOK'
    <3>1. LeaveAs(j, "select")
      BY <1>8 DEF WorkerStartsBlind
    <3>2. shaken' \subseteq Sessions
      BY <1>t, <3>1, ShakeType DEF LeaveAs, JobsTypeOK
    <3> QED BY <1>t, <3>1, <3>2 DEF LeaveAs, JobsTypeOK, boundVars, Ended
  <2> QED BY <1>q, <2>1, <2>2, <2>3
<1>9. ASSUME NEW j \in Jobs, WorkerStartFails(j) PROVE TypeOK'
  <2>1. SlotPoolTypeOK'
    <3>1. sess[j] \in Sessions /\ UserOf[j] \in Users
      BY <1>t, <1>9, UploadParamsAssumption DEF WorkerStartFails, Match, Holding
    <3>2. Release(sess[j], UserOf[j])
      BY <1>9 DEF WorkerStartFails, LeaveAs
    <3> QED BY <1>t, <3>1, <3>2 DEF Release, Less, SlotPoolTypeOK, recordVars
  <2>2. UploadWorkersTypeOK'
    BY <1>t, <1>9 DEF WorkerStartFails, LeaveAs, Release, StartFails, UploadWorkersTypeOK, workerVars, poolVars, recordVars, countVars, jobVars, boundVars
  <2>3. JobsTypeOK'
    <3>1. LeaveAs(j, "select")
      BY <1>9 DEF WorkerStartFails
    <3>2. shaken' \subseteq Sessions
      BY <1>t, <3>1, ShakeType DEF LeaveAs, JobsTypeOK
    <3> QED BY <1>t, <3>1, <3>2 DEF LeaveAs, JobsTypeOK, boundVars, Ended
  <2> QED BY <1>q, <2>1, <2>2, <2>3
<1>10. ASSUME NEW j \in Jobs, WorkerIsBlocked(j) PROVE TypeOK'
  <2>1. SlotPoolTypeOK'
    <3>1. sess[j] \in Sessions
      BY <1>t, <1>10 DEF WorkerIsBlocked, Match, Holding
    <3>2. MarkFloodAndRelease(sess[j])
      BY <1>10 DEF WorkerIsBlocked, LeaveFlooded
    <3> QED BY <1>t, <3>1, <3>2 DEF MarkFloodAndRelease, SlotPoolTypeOK, recordVars
  <2>2. UploadWorkersTypeOK'
    BY <1>t, <1>10 DEF WorkerIsBlocked, LeaveFlooded, MarkFloodAndRelease, StartFails, UploadWorkersTypeOK, workerVars, poolVars, recordVars, countVars, jobVars, boundVars
  <2>3. JobsTypeOK'
    <3>1. LeaveFlooded(j) /\ sess[j] \in Sessions
      BY <1>t, <1>10 DEF WorkerIsBlocked, Match, Holding
    <3>2. shaken' \subseteq Sessions
      BY <1>t, <3>1, ShakeType DEF LeaveFlooded, JobsTypeOK
    <3> QED BY <1>t, <3>1, <3>2 DEF LeaveFlooded, JobsTypeOK, boundVars
  <2> QED BY <1>q, <2>1, <2>2, <2>3
<1>11. ASSUME NEW j \in Jobs, Enqueue(j) PROVE TypeOK'
  <2>1. SlotPoolTypeOK'
    BY <1>t, <1>11 DEF Enqueue, Put, SlotPoolTypeOK, workerVars, poolVars, recordVars, countVars, jobVars, boundVars
  <2>2. UploadWorkersTypeOK'
    <3>1. worker[j] \in Workers
      BY <1>t, <1>11 DEF Enqueue, Match
    <3>2. Append(queue[worker[j]], j) \in Seq(Jobs \cup {Stop})
      BY <1>t, <3>1 DEF UploadWorkersTypeOK
    <3>3. /\ queue' = [queue EXCEPT ![worker[j]] = Append(queue[worker[j]], j)]
          /\ UNCHANGED <<registered, lock, loop, blind, serving>>
      BY <1>11 DEF Enqueue, Put
    <3> QED BY <1>t, <3>1, <3>2, <3>3 DEF UploadWorkersTypeOK
  <2>3. JobsTypeOK'
    BY <1>t, <1>11 DEF Enqueue, Put, JobsTypeOK, workerVars, poolVars, recordVars, countVars, jobVars, boundVars, Holding, Ended
  <2> QED BY <1>q, <2>1, <2>2, <2>3
<1>12. ASSUME NEW j \in Jobs, Retry(j) PROVE TypeOK'
  <2>1. SlotPoolTypeOK'
    <3>1. sess[j] \in Sessions /\ UserOf[j] \in Users
      BY <1>t, <1>12, UploadParamsAssumption DEF Retry, Match, Holding
    <3>2. Release(sess[j], UserOf[j])
      BY <1>12 DEF Retry, LeaveAs
    <3> QED BY <1>t, <3>1, <3>2 DEF Release, Less, SlotPoolTypeOK, recordVars
  <2>2. UploadWorkersTypeOK'
    BY <1>t, <1>12 DEF Retry, LeaveAs, Release, UploadWorkersTypeOK, workerVars, poolVars, recordVars, countVars, jobVars, boundVars
  <2>3. JobsTypeOK'
    <3>1. LeaveAs(j, "select")
      BY <1>12 DEF Retry
    <3>2. shaken' \subseteq Sessions
      BY <1>t, <3>1, ShakeType DEF LeaveAs, JobsTypeOK
    <3> QED BY <1>t, <3>1, <3>2 DEF LeaveAs, JobsTypeOK, boundVars, Ended
  <2> QED BY <1>q, <2>1, <2>2, <2>3
<1>13. ASSUME NEW j \in Jobs, RetryFlooded(j) PROVE TypeOK'
  <2>1. SlotPoolTypeOK'
    <3>1. sess[j] \in Sessions
      BY <1>t, <1>13 DEF RetryFlooded, Match, Holding
    <3>2. MarkFloodAndRelease(sess[j])
      BY <1>13 DEF RetryFlooded, LeaveFlooded
    <3> QED BY <1>t, <3>1, <3>2 DEF MarkFloodAndRelease, SlotPoolTypeOK, recordVars
  <2>2. UploadWorkersTypeOK'
    BY <1>t, <1>13 DEF RetryFlooded, LeaveFlooded, MarkFloodAndRelease, UploadWorkersTypeOK, workerVars, poolVars, recordVars, countVars, jobVars, boundVars
  <2>3. JobsTypeOK'
    <3>1. LeaveFlooded(j) /\ sess[j] \in Sessions
      BY <1>t, <1>13 DEF RetryFlooded, Match, Holding
    <3>2. shaken' \subseteq Sessions
      BY <1>t, <3>1, ShakeType DEF LeaveFlooded, JobsTypeOK
    <3> QED BY <1>t, <3>1, <3>2 DEF LeaveFlooded, JobsTypeOK, boundVars
  <2> QED BY <1>q, <2>1, <2>2, <2>3
<1>14. ASSUME NEW j \in Jobs, Abort(j) PROVE TypeOK'
  <2>1. SlotPoolTypeOK'
    <3>1. sess[j] \in Sessions /\ UserOf[j] \in Users
      BY <1>t, <1>14, UploadParamsAssumption DEF Abort, Match, Holding
    <3>2. Release(sess[j], UserOf[j])
      BY <1>14 DEF Abort, LeaveAs
    <3> QED BY <1>t, <3>1, <3>2 DEF Release, Less, SlotPoolTypeOK, recordVars
  <2>2. UploadWorkersTypeOK'
    BY <1>t, <1>14 DEF Abort, LeaveAs, Release, UploadWorkersTypeOK, workerVars, poolVars, recordVars, countVars, jobVars, boundVars
  <2>3. JobsTypeOK'
    <3>1. LeaveAs(j, "aborted")
      BY <1>14 DEF Abort
    <3>2. shaken' \subseteq Sessions
      BY <1>t, <3>1, ShakeType DEF LeaveAs, JobsTypeOK
    <3> QED BY <1>t, <3>1, <3>2 DEF LeaveAs, JobsTypeOK, boundVars, Ended
  <2> QED BY <1>q, <2>1, <2>2, <2>3
<1>15. ASSUME NEW j \in Jobs, Deliver(j) PROVE TypeOK'
  <2>1. SlotPoolTypeOK'
    <3>1. sess[j] \in Sessions /\ UserOf[j] \in Users
      BY <1>t, <1>15, UploadParamsAssumption DEF Deliver, Match, Holding
    <3>2. Release(sess[j], UserOf[j])
      BY <1>15 DEF Deliver, LeaveAs
    <3> QED BY <1>t, <3>1, <3>2 DEF Release, Less, SlotPoolTypeOK, recordVars
  <2>2. UploadWorkersTypeOK'
    BY <1>t, <1>15 DEF Deliver, LeaveAs, Release, UploadWorkersTypeOK, workerVars, poolVars, recordVars, countVars, jobVars, boundVars
  <2>3. JobsTypeOK'
    <3>1. LeaveAs(j, "delivered")
      BY <1>15 DEF Deliver
    <3>2. shaken' \subseteq Sessions
      BY <1>t, <3>1, ShakeType DEF LeaveAs, JobsTypeOK
    <3> QED BY <1>t, <3>1, <3>2 DEF LeaveAs, JobsTypeOK, boundVars, Ended
  <2> QED BY <1>q, <2>1, <2>2, <2>3
<1>16. ASSUME NEW j \in Jobs, CopyFails(j) PROVE TypeOK'
  <2>1. SlotPoolTypeOK'
    <3>1. sess[j] \in Sessions /\ UserOf[j] \in Users
      BY <1>t, <1>16, UploadParamsAssumption DEF CopyFails, Match, Holding
    <3>2. Release(sess[j], UserOf[j])
      BY <1>16 DEF CopyFails, LeaveAs
    <3> QED BY <1>t, <3>1, <3>2 DEF Release, Less, SlotPoolTypeOK, recordVars
  <2>2. UploadWorkersTypeOK'
    BY <1>t, <1>16 DEF CopyFails, LeaveAs, Release, UploadWorkersTypeOK, workerVars, poolVars, recordVars, countVars, jobVars, boundVars
  <2>3. JobsTypeOK'
    <3>1. LeaveAs(j, "select")
      BY <1>16 DEF CopyFails
    <3>2. shaken' \subseteq Sessions
      BY <1>t, <3>1, ShakeType DEF LeaveAs, JobsTypeOK
    <3> QED BY <1>t, <3>1, <3>2 DEF LeaveAs, JobsTypeOK, boundVars, Ended
  <2> QED BY <1>q, <2>1, <2>2, <2>3
<1>17. ASSUME NEW w \in Workers, Serve(w) PROVE TypeOK'
  <2>1. SlotPoolTypeOK'
    BY <1>t, <1>17 DEF Serve, Take, SlotPoolTypeOK, workerVars, poolVars, recordVars, countVars, jobVars, boundVars
  <2>2. UploadWorkersTypeOK'
    <3>1. queue[w] \in Seq(Jobs \cup {Stop}) /\ queue[w] # <<>> /\ Head(queue[w]) # Stop
      BY <1>t, <1>17 DEF Serve, Take, UploadWorkersTypeOK
    <3>2. Head(queue[w]) \in Jobs /\ Tail(queue[w]) \in Seq(Jobs \cup {Stop})
      BY <3>1
    <3> QED BY <1>t, <1>17, <3>2 DEF Serve, Take, UploadWorkersTypeOK
  <2>3. JobsTypeOK'
    BY <1>t, <1>17 DEF Serve, Take, JobsTypeOK, workerVars, poolVars, recordVars, countVars, jobVars, boundVars, Holding, Ended
  <2> QED BY <1>q, <2>1, <2>2, <2>3
<1>18. ASSUME NEW w \in Workers, StopWorker(w) PROVE TypeOK'
  <2>1. SlotPoolTypeOK'
    BY <1>t, <1>18 DEF StopWorker, BeginStop, TakeStop, SlotPoolTypeOK, workerVars, poolVars, recordVars, countVars, jobVars, boundVars
  <2>2. UploadWorkersTypeOK'
    <3>1. /\ queue[w] \in Seq(Jobs \cup {Stop})
          /\ Append(queue[w], Stop) \in Seq(Jobs \cup {Stop})
          /\ queue[w] # <<>> => Tail(queue[w]) \in Seq(Jobs \cup {Stop})
      BY <1>t DEF UploadWorkersTypeOK
    <3>2. CASE BeginStop(w)
      BY <1>t, <3>1, <3>2 DEF BeginStop, UploadWorkersTypeOK
    <3>3. CASE TakeStop(w)
      BY <1>t, <3>1, <3>3 DEF TakeStop, UploadWorkersTypeOK
    <3> QED BY <1>18, <3>2, <3>3 DEF StopWorker
  <2>3. JobsTypeOK'
    BY <1>t, <1>18 DEF StopWorker, BeginStop, TakeStop, JobsTypeOK, workerVars, poolVars, recordVars, countVars, jobVars, boundVars, Holding, Ended
  <2> QED BY <1>q, <2>1, <2>2, <2>3
<1>19. ASSUME NEW w \in Workers, NEW a \in Answers, Execute(w, a) PROVE TypeOK'
  <2>1. SlotPoolTypeOK'
    BY <1>t, <1>19 DEF Execute, Done, SlotPoolTypeOK, workerVars, poolVars, recordVars, countVars, jobVars, boundVars
  <2>2. UploadWorkersTypeOK'
    BY <1>t, <1>19 DEF Execute, Done, UploadWorkersTypeOK, workerVars, poolVars, recordVars, countVars, jobVars, boundVars
  <2>3. JobsTypeOK'
    <3>1. /\ phase' = [phase EXCEPT ![serving[w]] = a]
          /\ floods' = IF a = "long_flood" THEN floods + 1 ELSE floods
          /\ UNCHANGED <<sess, tried, worker, agings, commands, loggedOut, shaken>>
      BY <1>19 DEF Execute
    <3>2. a \in Holding
      BY <1>19 DEF Holding, Answers
    <3>3. floods' \in Nat /\ agings' \in Nat /\ commands' \in Nat
      BY <1>t, <3>1 DEF JobsTypeOK
    <3>4. phase' \in [Jobs -> Holding \cup Ended \cup {"select"}]
      BY <1>t, <3>1, <3>2 DEF JobsTypeOK
    <3> QED BY <1>t, <3>1, <3>3, <3>4 DEF JobsTypeOK
  <2> QED BY <1>q, <2>1, <2>2, <2>3
<1>20. ASSUME NEW w \in Workers, CancelWorker(w) PROVE TypeOK'
  <2>1. SlotPoolTypeOK'
    BY <1>t, <1>20 DEF CancelWorker, StopTimesOut, SlotPoolTypeOK, workerVars, poolVars, recordVars, countVars, jobVars, boundVars
  <2>2. UploadWorkersTypeOK'
    BY <1>t, <1>20 DEF CancelWorker, StopTimesOut, UploadWorkersTypeOK, workerVars, poolVars, recordVars, countVars, jobVars, boundVars
  <2>3. JobsTypeOK'
    BY <1>t, <1>20 DEF CancelWorker, StopTimesOut, JobsTypeOK, workerVars, poolVars, recordVars, countVars, jobVars, boundVars, Holding, Ended
  <2> QED BY <1>q, <2>1, <2>2, <2>3
<1>21. ASSUME NEW w \in Workers, ReapIdle(w) PROVE TypeOK'
  <2>1. SlotPoolTypeOK'
    BY <1>t, <1>21 DEF ReapIdle, Reap, SlotPoolTypeOK, workerVars, poolVars, recordVars, countVars, jobVars, boundVars
  <2>2. UploadWorkersTypeOK'
    BY <1>t, <1>21 DEF ReapIdle, Reap, UploadWorkersTypeOK, workerVars, poolVars, recordVars, countVars, jobVars, boundVars
  <2>3. JobsTypeOK'
    BY <1>t, <1>21 DEF ReapIdle, Reap, JobsTypeOK, workerVars, poolVars, recordVars, countVars, jobVars, boundVars, Holding, Ended
  <2> QED BY <1>q, <2>1, <2>2, <2>3
<1>22. ASSUME NEW u \in Users, Logout(u) PROVE TypeOK'
  <2>1. SlotPoolTypeOK'
    BY <1>t, <1>22 DEF Logout, RemoveUser, SlotPoolTypeOK, workerVars, poolVars, recordVars, countVars, jobVars, boundVars
  <2>2. UploadWorkersTypeOK'
    BY <1>t, <1>22 DEF Logout, RemoveUser, UploadWorkersTypeOK, workerVars, poolVars, recordVars, countVars, jobVars, boundVars
  <2>3. JobsTypeOK'
    BY <1>t, <1>22 DEF Logout, RemoveUser, JobsTypeOK, workerVars, poolVars, recordVars, countVars, jobVars, boundVars, Holding, Ended
  <2> QED BY <1>q, <2>1, <2>2, <2>3
<1>23. ASSUME NEW s \in Sessions, EndFlood(s) PROVE TypeOK'
  <2>1. SlotPoolTypeOK'
    BY <1>t, <1>23 DEF EndFlood, FloodExpires, SlotPoolTypeOK, workerVars, poolVars, recordVars, countVars, jobVars, boundVars
  <2>2. UploadWorkersTypeOK'
    BY <1>t, <1>23 DEF EndFlood, FloodExpires, UploadWorkersTypeOK, workerVars, poolVars, recordVars, countVars, jobVars, boundVars
  <2>3. JobsTypeOK'
    BY <1>t, <1>23 DEF EndFlood, FloodExpires, JobsTypeOK, workerVars, poolVars, recordVars, countVars, jobVars, boundVars, Holding, Ended
  <2> QED BY <1>q, <2>1, <2>2, <2>3
<1>24. ASSUME NEW s \in Sessions, NEW u \in Users, Age(s, u) PROVE TypeOK'
  <2>1. SlotPoolTypeOK'
    BY <1>t, <1>24 DEF Age, GrowStale, SlotPoolTypeOK, workerVars, poolVars, recordVars, countVars, jobVars, boundVars
  <2>2. UploadWorkersTypeOK'
    BY <1>t, <1>24 DEF Age, GrowStale, UploadWorkersTypeOK, workerVars, poolVars, recordVars, countVars, jobVars, boundVars
  <2>3. JobsTypeOK'
    BY <1>t, <1>24 DEF Age, GrowStale, JobsTypeOK, workerVars, poolVars, recordVars, countVars, jobVars, boundVars, Holding, Ended
  <2> QED BY <1>q, <2>1, <2>2, <2>3
<1>25. ASSUME Command PROVE TypeOK'
  <2>1. SlotPoolTypeOK'
    BY <1>t, <1>25 DEF Command, Register, Disable, Enable, Remove, SetLimit, SetLent, DisableAllGlobal, SlotPoolTypeOK, workerVars, poolVars, recordVars, countVars, jobVars, boundVars
  <2>2. UploadWorkersTypeOK'
    BY <1>t, <1>25 DEF Command, Register, Disable, Enable, Remove, SetLimit, SetLent, DisableAllGlobal, UploadWorkersTypeOK, workerVars, poolVars, recordVars, countVars, jobVars, boundVars
  <2>3. JobsTypeOK'
    BY <1>t, <1>25 DEF Command, Register, Disable, Enable, Remove, SetLimit, SetLent, DisableAllGlobal, JobsTypeOK, workerVars, poolVars, recordVars, countVars, jobVars, boundVars, Holding, Ended
  <2> QED BY <1>q, <2>1, <2>2, <2>3
<1>26. ASSUME UNCHANGED vars PROVE TypeOK'
  <2>1. SlotPoolTypeOK'
    BY <1>t, <1>26 DEF vars, SlotPoolTypeOK, workerVars, poolVars, recordVars, countVars, jobVars, boundVars
  <2>2. UploadWorkersTypeOK'
    BY <1>t, <1>26 DEF vars, UploadWorkersTypeOK, workerVars, poolVars, recordVars, countVars, jobVars, boundVars
  <2>3. JobsTypeOK'
    BY <1>t, <1>26 DEF vars, JobsTypeOK, workerVars, poolVars, recordVars, countVars, jobVars, boundVars, Holding, Ended
  <2> QED BY <1>q, <2>1, <2>2, <2>3
<1> QED
  BY <1>1, <1>2, <1>3, <1>4, <1>5, <1>6, <1>7, <1>8, <1>9, <1>10, <1>11, <1>12, <1>13, <1>14, <1>15, <1>16, <1>17, <1>18, <1>19, <1>20, <1>21, <1>22, <1>23, <1>24, <1>25, <1>26 DEF Next, Job, Loop

\* The invariant holds at first: nothing is borrowed, queued or served.
LEMMA InitInv == Init => IInv
<1> SUFFICES ASSUME Init PROVE IInv
  OBVIOUS
<1>0. phase \in [Jobs -> {"select", "refused"}] /\ commands \in Nat
  <2>1. PICK b \in Batches :
           /\ phase = [j \in Jobs |-> IF j \in b.jobs THEN "select" ELSE "refused"]
           /\ commands = b.commands
    BY DEF Init
  <2> QED BY <2>1, SessionUploadAssumption
<1>1. TypeOK
  BY <1>0, SlotPoolAssumption DEF Init, SlotPoolInit, UploadWorkersInit, TypeOK, SlotPoolTypeOK,
     UploadWorkersTypeOK, Ended
<1>2. phase \in [Jobs -> {"select", "refused"}] /\ serving = [w \in Workers |-> None]
      /\ queue = [w \in Workers |-> <<>>] /\ current = [s \in Sessions |-> 0]
  BY <1>0 DEF Init, SlotPoolInit, UploadWorkersInit
<1>3. Slots
  <2> SUFFICES ASSUME NEW s \in Sessions PROVE SlotInv(s)
    BY DEF Slots
  <2>1. Holders(s) = {}
    BY <1>2 DEF Holders, Holding
  <2>2. Cardinality(Holders(s)) = 0
    BY <2>1, FS_EmptySet
  <2> QED BY <1>2, <2>2 DEF SlotInv
<1>4. Match
  BY <1>2 DEF Match, Holding
<1>5. Lines /\ Present
  BY <1>2 DEF Lines, Line, Present
<1> QED BY <1>1, <1>3, <1>4, <1>5 DEF IInv

-----------------------------------------------------------------------------
(* Theorems                                                                *)

\* The strengthened invariant is inductive, so it always holds.
THEOREM Inductive == Spec => []IInv
<1>1. Init => IInv
  BY InitInv
<1>2. IInv /\ [Next]_vars => IInv'
  BY TypeStep, SlotsStep, MatchStep, QueueStep DEF IInv
<1> QED BY <1>1, <1>2, PTL DEF Spec

\* Type correctness of sessions, workers and uploads.
THEOREM TypeCorrect == Spec => []TypeOK
<1>1. IInv => TypeOK
  BY DEF IInv
<1> QED BY <1>1, Inductive, PTL

\* BorrowManager: no counter is above the number of uploads that hold a slot, whichever way
\* each upload ends, and it is that number but for a session whose slots were taken from
\* running uploads that are not over yet.
THEOREM CountsFollow == Spec => []SlotCount
<1>1. IInv => SlotCount
  BY DEF IInv, Slots, SlotInv, SlotCount, NoGhostSlot, CountExact
<1> QED BY <1>1, Inductive, PTL

\* A job is in its worker's queue or served there, once, and nowhere else.
LEMMA OneWorker ==
    ASSUME IInv, NEW j \in Jobs, NEW w \in Workers
    PROVE  Waits(j, w) = IF phase[j] = "queued" /\ worker[j] = w THEN 1 ELSE 0
<1> DEFINE at == {i \in DOMAIN queue[w] : queue[w][i] = j}
<1>1. Line(w) /\ j # None
  BY UploadParamsAssumption DEF IInv, Lines
<1>2. CASE at = {}
  <2>1. Cardinality(at) = 0
    BY <1>2, FS_EmptySet
  <2>2. serving[w] = j <=> phase[j] = "queued" /\ worker[j] = w
    BY <1>1, <1>2 DEF Line, IInv, Present
  <2> HIDE DEF at
  <2>3. Cardinality(at) + (IF serving[w] = j THEN 1 ELSE 0)
          = IF phase[j] = "queued" /\ worker[j] = w THEN 1 ELSE 0
    BY <2>1, <2>2
  <2> QED BY <2>3 DEF Waits, at
<1>3. CASE at # {}
  <2>1. PICK i \in DOMAIN queue[w] : queue[w][i] = j
    BY <1>3
  <2>2. /\ phase[j] = "queued" /\ worker[j] = w /\ serving[w] # j
        /\ \A k \in DOMAIN queue[w] : queue[w][k] = j => k = i
    BY <1>1, <2>1 DEF Line
  <2>3. at = {i}
    BY <2>1, <2>2
  <2>4. Cardinality(at) = 1
    BY <2>3, FS_Singleton
  <2> HIDE DEF at
  <2>5. Cardinality(at) + (IF serving[w] = j THEN 1 ELSE 0)
          = IF phase[j] = "queued" /\ worker[j] = w THEN 1 ELSE 0
    BY <2>2, <2>4
  <2> QED BY <2>5 DEF Waits, at
<1> QED BY <1>2, <1>3

\* UserUploadWorker: no upload is lost between its job and the worker, run twice,
\* or known to a worker its job has left.
THEOREM EachWithOneWorker == Spec => []WithOneWorker
<1>1. IInv => WithOneWorker
  BY OneWorker DEF WithOneWorker
<1> QED BY <1>1, Inductive, PTL

\* _run_task: its check of the sender never finds another user's upload.
THEOREM SendersIsolated == Spec => []SenderIsolation
<1>1. IInv => SenderIsolation
  <2> SUFFICES ASSUME IInv, NEW w \in Workers, serving[w] # None
               PROVE  /\ UserOf[w[1]] = UserOf[serving[w]]
                      /\ w[2] = sess[serving[w]]
                      /\ loop[w] \in {"running", "stopping"}
    BY DEF SenderIsolation
  <2>1. serving[w] \in Jobs
    BY DEF IInv, TypeOK, UploadWorkersTypeOK
  <2>2. /\ phase[serving[w]] = "queued" /\ worker[serving[w]] = w
        /\ loop[w] \in {"running", "stopping"}
    BY DEF IInv, Lines, Line
  <2>3. SameKey(w, serving[w], sess[serving[w]])
    BY <2>1, <2>2 DEF IInv, Match
  <2> QED BY <2>2, <2>3 DEF SameKey
<1> QED BY <1>1, Inductive, PTL

\* UploadSessionManager and its workers: every upload is with the one worker of its own user
\* and session.
THEOREM UploadsInPlace == Spec => []UploadSound
<1>1. WithOneWorker /\ SenderIsolation => UploadSound
  BY DEF UploadSound
<1> QED BY <1>1, EachWithOneWorker, SendersIsolated, PTL
=============================================================================
