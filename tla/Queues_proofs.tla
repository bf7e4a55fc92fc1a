--------------------------- MODULE Queues_proofs ----------------------------
(***************************************************************************)
(* The two queues a link passes.  First the user queue, the stop flag and  *)
(* the retry of the dispatcher, for any number of users and links, any     *)
(* queue length and any bounds; then the priority queue, for any number of *)
(* jobs, any limits and any number of cancelled jobs.                      *)
(***************************************************************************)
EXTENDS SaveFlow, PriorityQueue, FiniteSetTheorems, TLAPS

\* A post is begun only inside the loop's bounds.
PostInRange == \A l \in Links : pc[l] = "post" => pos[l] <= NPosts

\* Only links told to stop count as late.
LateHalted == late \subseteq halted

\* Only a started priority queue runs handlers.
RunsNeedQueue == \A l \in Links : viaPQ[l] => PQStarted

\* Deliveries made before the run a link is in: the retry outside the priority
\* queue comes after one complete run at most.
Before(l) == IF PQStarted /\ ~viaPQ[l] THEN 1 ELSE 0

\* How often a post can have been delivered, by the phase its link is in.
Phase(l, p) ==
    /\ pc[l] \in {"new", "queued", "notify", "rejected", "cleared", "lost"} =>
          delivered[l][p] = 0
    /\ pc[l] = "dispatch" => delivered[l][p] <= Before(l)
    /\ pc[l] \in {"loop", "post", "complete", "hung", "done"} =>
          delivered[l][p] <= Before(l) + (IF p < pos[l] THEN 1 ELSE 0)

DeliveredByPhase == \A l \in Links : \A p \in Posts : Phase(l, p)

\* One user's part of QueueHoldsWaiting.
Holds(u) ==
    /\ \A i \in DOMAIN queue[u] :
          OwnerOf[queue[u][i]] = u /\ pc[queue[u][i]] = "queued"
    /\ \A i, j \in DOMAIN queue[u] : queue[u][i] = queue[u][j] => i = j
    /\ \A l \in LinksOf(u) :
          pc[l] = "queued" => \E i \in DOMAIN queue[u] : queue[u][i] = l

IInv == /\ TypeOK
        /\ PostInRange
        /\ QueueOnlyWhileProcessing
        /\ QueueHoldsWaiting
        /\ OneAtATime
        /\ LateHalted
        /\ StopHoldsUntilReset
        /\ RunsNeedQueue
        /\ DeliveredByPhase


\* What Append, Head and Tail do to a queue.
LEMMA AppendFacts ==
    ASSUME NEW S, NEW q \in Seq(S), NEW e \in S
    PROVE  /\ Append(q, e) \in Seq(S)
           /\ DOMAIN q = 1..Len(q) /\ Len(q) \in Nat
           /\ DOMAIN Append(q, e) = 1..(Len(q) + 1)
           /\ Append(q, e)[Len(q) + 1] = e
           /\ \A i \in 1..Len(q) : Append(q, e)[i] = q[i]
OBVIOUS

LEMMA TailFacts ==
    ASSUME NEW S, NEW q \in Seq(S), q # <<>>
    PROVE  /\ Head(q) \in S /\ Head(q) = q[1] /\ Tail(q) \in Seq(S)
           /\ DOMAIN q = 1..Len(q) /\ Len(q) \in Nat \ {0}
           /\ DOMAIN Tail(q) = 1..(Len(q) - 1)
           /\ \A i \in 1..(Len(q) - 1) : Tail(q)[i] = q[i + 1]
OBVIOUS

\* QueueHoldsWaiting, user by user.
LEMMA HoldsIff == /\ QueueHoldsWaiting <=> \A u \in Users : Holds(u)
                  /\ QueueHoldsWaiting' <=> \A u \in Users : Holds(u)'
BY DEF QueueHoldsWaiting, Holds

\* Every step keeps the types; a delivered post is one of the link's posts.
LEMMA TypeStep ==
    ASSUME TypeOK, PostInRange, [Next]_vars
    PROVE  TypeOK'
<1>1. ASSUME NEW l \in Links, AdmitNow(l)
      PROVE  TypeOK'
  BY <1>1, SaveFlowAssumption
  DEF AdmitNow, TypeOK, PCs, Carried, queueVars, handlerVars, counterVars, historyVars
<1>2. ASSUME NEW l \in Links, AdmitLater(l)
      PROVE  TypeOK'
  <2>1. queue[OwnerOf[l]] \in Seq(Links) /\ Append(queue[OwnerOf[l]], l) \in Seq(Links)
    BY SaveFlowAssumption DEF TypeOK
  <2>2. queue' \in [Users -> Seq(Links)]
    BY <1>2, <2>1 DEF AdmitLater, TypeOK
  <2>3. pc' \in [Links -> PCs]
    BY <1>2 DEF AdmitLater, TypeOK, PCs
  <2> QED BY <1>2, <2>2, <2>3 DEF AdmitLater, TypeOK, handlerVars, counterVars, historyVars
<1>3. ASSUME NEW l \in Links, Reject(l)
      PROVE  TypeOK'
  BY <1>3, SaveFlowAssumption
  DEF Reject, TypeOK, PCs, Carried, queueVars, handlerVars, counterVars, historyVars
<1>4. ASSUME NEW l \in Links, EnterPipeline(l)
      PROVE  TypeOK'
  <2>1. pos' \in [Links -> 1..(NPosts + 1)]
    BY <1>4, SaveFlowAssumption DEF EnterPipeline, TypeOK
  <2>2. pc' \in [Links -> PCs] /\ cancelFlag' \in [Users -> BOOLEAN]
    BY <1>4 DEF EnterPipeline, TypeOK, PCs, Carried
  <2>3. resumed' \subseteq Links
    BY <1>4 DEF EnterPipeline, TypeOK
  <2> QED BY <1>4, <2>1, <2>2, <2>3 DEF EnterPipeline, TypeOK, queueVars, counterVars
<1>5. ASSUME NEW l \in Links, BeginPost(l)
      PROVE  TypeOK'
  BY <1>5, SaveFlowAssumption
  DEF BeginPost, TypeOK, PCs, Carried, queueVars, handlerVars, counterVars, historyVars
<1>6. ASSUME NEW l \in Links, PostDelivered(l)
      PROVE  TypeOK'
  <2>1. pos[l] \in 1..NPosts
    BY <1>6, SaveFlowAssumption DEF PostDelivered, PostInRange, TypeOK
  <2>2. pos' \in [Links -> 1..(NPosts + 1)]
    BY <1>6, SaveFlowAssumption, <2>1 DEF PostDelivered, TypeOK
  <2>3. delivered' \in [Links -> [Posts -> Nat]]
    <3>1. delivered[l] \in [Posts -> Nat] /\ pos[l] \in Posts
      BY <2>1 DEF TypeOK, Posts
    <3>2. [delivered[l] EXCEPT ![pos[l]] = delivered[l][pos[l]] + 1] \in [Posts -> Nat]
      BY <3>1
    <3>3. delivered' = [delivered EXCEPT ![l] = [delivered[l] EXCEPT ![pos[l]] = delivered[l][pos[l]] + 1]]
      BY <1>6 DEF PostDelivered
    <3> QED BY <3>2, <3>3 DEF TypeOK
  <2>4. pc' \in [Links -> PCs]
    BY <1>6 DEF PostDelivered, TypeOK, PCs, Carried
  <2> QED BY <1>6, <2>2, <2>3, <2>4 DEF PostDelivered, TypeOK, queueVars, counterVars, historyVars
<1>7. ASSUME NEW l \in Links, PostFailed(l)
      PROVE  TypeOK'
  <2>1. pos[l] \in 1..NPosts
    BY <1>7, SaveFlowAssumption DEF PostFailed, PostInRange, TypeOK
  <2>2. pos' \in [Links -> 1..(NPosts + 1)]
    BY <1>7, SaveFlowAssumption, <2>1 DEF PostFailed, TypeOK
  <2>3. pc' \in [Links -> PCs]
    BY <1>7 DEF PostFailed, TypeOK, PCs, Carried
  <2> QED BY <1>7, <2>2, <2>3 DEF PostFailed, TypeOK, queueVars, counterVars, historyVars
<1>8. ASSUME NEW l \in Links, PostCancelled(l)
      PROVE  TypeOK'
  BY <1>8, SaveFlowAssumption
  DEF PostCancelled, TypeOK, PCs, Carried, queueVars, handlerVars, counterVars, historyVars
<1>9. ASSUME NEW l \in Links, HandlerReturns(l)
      PROVE  TypeOK'
  BY <1>9, SaveFlowAssumption
  DEF HandlerReturns, TypeOK, PCs, Carried, queueVars, handlerVars, counterVars, historyVars
<1>10. ASSUME NEW l \in Links, HandlerGivesUp(l)
      PROVE  TypeOK'
  BY <1>10, SaveFlowAssumption
  DEF HandlerGivesUp, TypeOK, PCs, Carried, queueVars, handlerVars, counterVars, historyVars
<1>11. ASSUME NEW l \in Links, HandlerRaises(l)
      PROVE  TypeOK'
  BY <1>11, SaveFlowAssumption
  DEF HandlerRaises, TypeOK, PCs, Carried, queueVars, handlerVars, counterVars, historyVars
<1>12. ASSUME NEW l \in Links, Complete(l)
      PROVE  TypeOK'
  <2> DEFINE u == OwnerOf[l]
             h == Head(queue[u])
  <2>1. u \in Users /\ queue[u] \in Seq(Links)
    BY SaveFlowAssumption DEF TypeOK
  <2>2. CASE queue[u] = <<>>
    BY <1>12, SaveFlowAssumption, <2>1, <2>2 DEF Complete, TypeOK, PCs, Carried, queueVars, handlerVars, counterVars, historyVars
  <2>3. CASE queue[u] # <<>>
    <3>1. h \in Links /\ Tail(queue[u]) \in Seq(Links)
      BY <2>1, <2>3, TailFacts
    <3>2. /\ current' = [current EXCEPT ![u] = h]
          /\ queue' = [queue EXCEPT ![u] = Tail(queue[u])]
          /\ pc' = [pc EXCEPT ![l] = "done", ![h] = "notify"]
          /\ UNCHANGED <<isProcessing, cancelFlag, handlerVars, command, counterVars, historyVars>>
      BY <1>12, <2>3 DEF Complete
    <3> HIDE DEF h, u
    <3>3. current' \in [Users -> Links \cup {NoLink}]
      BY <3>1, <3>2 DEF TypeOK
    <3>4. queue' \in [Users -> Seq(Links)]
      BY <2>1, <3>1, <3>2 DEF TypeOK
    <3>5. pc' \in [Links -> PCs]
      BY <3>1, <3>2 DEF TypeOK, PCs, Carried
    <3> QED BY <3>2, <3>3, <3>4, <3>5 DEF TypeOK, handlerVars, counterVars, historyVars
  <2> QED BY <2>2, <2>3
<1>13. ASSUME NEW l \in Links, Notify(l)
      PROVE  TypeOK'
  BY <1>13, SaveFlowAssumption
  DEF Notify, TypeOK, PCs, Carried, queueVars, handlerVars, counterVars, historyVars
<1>14. ASSUME NEW l \in Links, NotifyFails(l)
      PROVE  TypeOK'
  BY <1>14, SaveFlowAssumption
  DEF NotifyFails, TypeOK, PCs, Carried, queueVars, handlerVars, counterVars, historyVars
<1>15. ASSUME NEW u \in Users, BeginStop(u)
      PROVE  TypeOK'
  BY <1>15, SaveFlowAssumption
  DEF BeginStop, Begin, TypeOK, PCs, Carried, queueVars, handlerVars, counterVars, historyVars
<1>16. ASSUME NEW u \in Users, BeginCancel(u)
      PROVE  TypeOK'
  BY <1>16, SaveFlowAssumption
  DEF BeginCancel, Begin, TypeOK, PCs, Carried, queueVars, handlerVars, counterVars, historyVars
<1>17. ASSUME NEW u \in Users, RaiseFlag(u)
      PROVE  TypeOK'
  <2>1. command' \in [Users -> {"none", "stop", "clearing", "cancel"}]
    BY <1>17 DEF RaiseFlag, TypeOK
  <2>2. halted' \subseteq Links
    BY <1>17 DEF RaiseFlag, LinksOf, TypeOK
  <2> QED BY <1>17, <2>1, <2>2 DEF RaiseFlag, TypeOK, PCs, Carried, queueVars, handlerVars, counterVars, historyVars
<1>18. ASSUME NEW u \in Users, ClearQueue(u)
      PROVE  TypeOK'
  <2>1. halted' \subseteq Links /\ resumed' \subseteq Links
    BY <1>18 DEF ClearQueue, LinksOf, TypeOK
  <2>2. pc' \in [Links -> PCs]
    BY <1>18 DEF ClearQueue, TypeOK, PCs
  <2>3. queue' \in [Users -> Seq(Links)]
    BY <1>18 DEF ClearQueue, TypeOK
  <2> QED BY <1>18, <2>1, <2>2, <2>3 DEF ClearQueue, TypeOK, PCs, Carried, queueVars, handlerVars, counterVars, historyVars
<1>19. CASE UNCHANGED vars
  BY <1>19 DEF vars, TypeOK, PCs, Carried, queueVars, handlerVars, counterVars, historyVars
<1> QED BY <1>1, <1>2, <1>3, <1>4, <1>5, <1>6, <1>7, <1>8, <1>9, <1>10,
           <1>11, <1>12, <1>13, <1>14, <1>15, <1>16, <1>17, <1>18, <1>19 DEF Next, Task, User

\* Every step keeps the loop position of a running post in bounds.
LEMMA PostInRangeStep ==
    ASSUME TypeOK, PostInRange, [Next]_vars
    PROVE  PostInRange'
<1>1. ASSUME NEW l \in Links, AdmitNow(l)
      PROVE  PostInRange'
  BY <1>1, SaveFlowAssumption
  DEF AdmitNow, TypeOK, PostInRange, PCs, Carried, queueVars, handlerVars, counterVars, historyVars
<1>2. ASSUME NEW l \in Links, AdmitLater(l)
      PROVE  PostInRange'
  BY <1>2, SaveFlowAssumption
  DEF AdmitLater, TypeOK, PostInRange, PCs, Carried, queueVars, handlerVars, counterVars, historyVars
<1>3. ASSUME NEW l \in Links, Reject(l)
      PROVE  PostInRange'
  BY <1>3, SaveFlowAssumption
  DEF Reject, TypeOK, PostInRange, PCs, Carried, queueVars, handlerVars, counterVars, historyVars
<1>4. ASSUME NEW l \in Links, EnterPipeline(l)
      PROVE  PostInRange'
  BY <1>4, SaveFlowAssumption
  DEF EnterPipeline, TypeOK, PostInRange, PCs, Carried, queueVars, handlerVars, counterVars, historyVars
<1>5. ASSUME NEW l \in Links, BeginPost(l)
      PROVE  PostInRange'
  BY <1>5, SaveFlowAssumption
  DEF BeginPost, TypeOK, PostInRange, PCs, Carried, queueVars, handlerVars, counterVars, historyVars
<1>6. ASSUME NEW l \in Links, PostDelivered(l)
      PROVE  PostInRange'
  BY <1>6, SaveFlowAssumption
  DEF PostDelivered, TypeOK, PostInRange, PCs, Carried, queueVars, handlerVars, counterVars, historyVars
<1>7. ASSUME NEW l \in Links, PostFailed(l)
      PROVE  PostInRange'
  BY <1>7, SaveFlowAssumption
  DEF PostFailed, TypeOK, PostInRange, PCs, Carried, queueVars, handlerVars, counterVars, historyVars
<1>8. ASSUME NEW l \in Links, PostCancelled(l)
      PROVE  PostInRange'
  BY <1>8, SaveFlowAssumption
  DEF PostCancelled, TypeOK, PostInRange, PCs, Carried, queueVars, handlerVars, counterVars, historyVars
<1>9. ASSUME NEW l \in Links, HandlerReturns(l)
      PROVE  PostInRange'
  BY <1>9, SaveFlowAssumption
  DEF HandlerReturns, TypeOK, PostInRange, PCs, Carried, queueVars, handlerVars, counterVars, historyVars
<1>10. ASSUME NEW l \in Links, HandlerGivesUp(l)
      PROVE  PostInRange'
  BY <1>10, SaveFlowAssumption
  DEF HandlerGivesUp, TypeOK, PostInRange, PCs, Carried, queueVars, handlerVars, counterVars, historyVars
<1>11. ASSUME NEW l \in Links, HandlerRaises(l)
      PROVE  PostInRange'
  BY <1>11, SaveFlowAssumption
  DEF HandlerRaises, TypeOK, PostInRange, PCs, Carried, queueVars, handlerVars, counterVars, historyVars
<1>12. ASSUME NEW l \in Links, Complete(l)
      PROVE  PostInRange'
  BY <1>12, SaveFlowAssumption
  DEF Complete, TypeOK, PostInRange, PCs, Carried, queueVars, handlerVars, counterVars, historyVars
<1>13. ASSUME NEW l \in Links, Notify(l)
      PROVE  PostInRange'
  BY <1>13, SaveFlowAssumption
  DEF Notify, TypeOK, PostInRange, PCs, Carried, queueVars, handlerVars, counterVars, historyVars
<1>14. ASSUME NEW l \in Links, NotifyFails(l)
      PROVE  PostInRange'
  BY <1>14, SaveFlowAssumption
  DEF NotifyFails, TypeOK, PostInRange, PCs, Carried, queueVars, handlerVars, counterVars, historyVars
<1>15. ASSUME NEW u \in Users, BeginStop(u)
      PROVE  PostInRange'
  BY <1>15, SaveFlowAssumption
  DEF BeginStop, Begin, TypeOK, PostInRange, PCs, Carried, queueVars, handlerVars, counterVars, historyVars
<1>16. ASSUME NEW u \in Users, BeginCancel(u)
      PROVE  PostInRange'
  BY <1>16, SaveFlowAssumption
  DEF BeginCancel, Begin, TypeOK, PostInRange, PCs, Carried, queueVars, handlerVars, counterVars, historyVars
<1>17. ASSUME NEW u \in Users, RaiseFlag(u)
      PROVE  PostInRange'
  BY <1>17, SaveFlowAssumption
  DEF RaiseFlag, TypeOK, PostInRange, PCs, Carried, queueVars, handlerVars, counterVars, historyVars
<1>18. ASSUME NEW u \in Users, ClearQueue(u)
      PROVE  PostInRange'
  BY <1>18, SaveFlowAssumption
  DEF ClearQueue, TypeOK, PostInRange, PCs, Carried, queueVars, handlerVars, counterVars, historyVars
<1>19. CASE UNCHANGED vars
  BY <1>19 DEF vars, TypeOK, PostInRange, PCs, Carried, queueVars, handlerVars, counterVars, historyVars
<1> QED BY <1>1, <1>2, <1>3, <1>4, <1>5, <1>6, <1>7, <1>8, <1>9, <1>10,
           <1>11, <1>12, <1>13, <1>14, <1>15, <1>16, <1>17, <1>18, <1>19 DEF Next, Task, User

\* No step leaves a waiting link behind an idle user.
LEMMA QueueOnlyStep ==
    ASSUME TypeOK, QueueOnlyWhileProcessing, [Next]_vars
    PROVE  QueueOnlyWhileProcessing'
<1>1. ASSUME NEW l \in Links, AdmitNow(l)
      PROVE  QueueOnlyWhileProcessing'
  BY <1>1, SaveFlowAssumption
  DEF AdmitNow, TypeOK, QueueOnlyWhileProcessing, queueVars, handlerVars, counterVars, historyVars
<1>2. ASSUME NEW l \in Links, AdmitLater(l)
      PROVE  QueueOnlyWhileProcessing'
  BY <1>2, SaveFlowAssumption
  DEF AdmitLater, TypeOK, QueueOnlyWhileProcessing, queueVars, handlerVars, counterVars, historyVars
<1>3. ASSUME NEW l \in Links, Reject(l)
      PROVE  QueueOnlyWhileProcessing'
  BY <1>3, SaveFlowAssumption
  DEF Reject, TypeOK, QueueOnlyWhileProcessing, queueVars, handlerVars, counterVars, historyVars
<1>4. ASSUME NEW l \in Links, EnterPipeline(l)
      PROVE  QueueOnlyWhileProcessing'
  BY <1>4, SaveFlowAssumption
  DEF EnterPipeline, TypeOK, QueueOnlyWhileProcessing, queueVars, handlerVars, counterVars, historyVars
<1>5. ASSUME NEW l \in Links, BeginPost(l)
      PROVE  QueueOnlyWhileProcessing'
  BY <1>5, SaveFlowAssumption
  DEF BeginPost, TypeOK, QueueOnlyWhileProcessing, queueVars, handlerVars, counterVars, historyVars
<1>6. ASSUME NEW l \in Links, PostDelivered(l)
      PROVE  QueueOnlyWhileProcessing'
  BY <1>6, SaveFlowAssumption
  DEF PostDelivered, TypeOK, QueueOnlyWhileProcessing, queueVars, handlerVars, counterVars, historyVars
<1>7. ASSUME NEW l \in Links, PostFailed(l)
      PROVE  QueueOnlyWhileProcessing'
  BY <1>7, SaveFlowAssumption
  DEF PostFailed, TypeOK, QueueOnlyWhileProcessing, queueVars, handlerVars, counterVars, historyVars
<1>8. ASSUME NEW l \in Links, PostCancelled(l)
      PROVE  QueueOnlyWhileProcessing'
  BY <1>8, SaveFlowAssumption
  DEF PostCancelled, TypeOK, QueueOnlyWhileProcessing, queueVars, handlerVars, counterVars, historyVars
<1>9. ASSUME NEW l \in Links, HandlerReturns(l)
      PROVE  QueueOnlyWhileProcessing'
  BY <1>9, SaveFlowAssumption
  DEF HandlerReturns, TypeOK, QueueOnlyWhileProcessing, queueVars, handlerVars, counterVars, historyVars
<1>10. ASSUME NEW l \in Links, HandlerGivesUp(l)
      PROVE  QueueOnlyWhileProcessing'
  BY <1>10, SaveFlowAssumption
  DEF HandlerGivesUp, TypeOK, QueueOnlyWhileProcessing, queueVars, handlerVars, counterVars, historyVars
<1>11. ASSUME NEW l \in Links, HandlerRaises(l)
      PROVE  QueueOnlyWhileProcessing'
  BY <1>11, SaveFlowAssumption
  DEF HandlerRaises, TypeOK, QueueOnlyWhileProcessing, queueVars, handlerVars, counterVars, historyVars
<1>12. ASSUME NEW l \in Links, Complete(l)
      PROVE  QueueOnlyWhileProcessing'
  <2>1. CASE queue[OwnerOf[l]] = <<>>
    <3>1. isProcessing' = [isProcessing EXCEPT ![OwnerOf[l]] = FALSE] /\ queue' = queue
      BY <1>12, <2>1 DEF Complete
    <3> QED BY <2>1, <3>1 DEF QueueOnlyWhileProcessing, TypeOK
  <2>2. CASE queue[OwnerOf[l]] # <<>>
    <3>1. isProcessing[OwnerOf[l]] /\ isProcessing' = isProcessing
      BY <1>12, SaveFlowAssumption, <2>2 DEF Complete, TypeOK, QueueOnlyWhileProcessing, queueVars, handlerVars, counterVars, historyVars
    <3>2. \A u \in Users \ {OwnerOf[l]} : queue'[u] = queue[u]
      BY <1>12, SaveFlowAssumption, <2>2 DEF Complete, TypeOK
    <3> QED BY <3>1, <3>2 DEF QueueOnlyWhileProcessing
  <2> QED BY <2>1, <2>2
<1>13. ASSUME NEW l \in Links, Notify(l)
      PROVE  QueueOnlyWhileProcessing'
  BY <1>13, SaveFlowAssumption
  DEF Notify, TypeOK, QueueOnlyWhileProcessing, queueVars, handlerVars, counterVars, historyVars
<1>14. ASSUME NEW l \in Links, NotifyFails(l)
      PROVE  QueueOnlyWhileProcessing'
  BY <1>14, SaveFlowAssumption
  DEF NotifyFails, TypeOK, QueueOnlyWhileProcessing, queueVars, handlerVars, counterVars, historyVars
<1>15. ASSUME NEW u \in Users, BeginStop(u)
      PROVE  QueueOnlyWhileProcessing'
  BY <1>15, SaveFlowAssumption
  DEF BeginStop, Begin, TypeOK, QueueOnlyWhileProcessing, queueVars, handlerVars, counterVars, historyVars
<1>16. ASSUME NEW u \in Users, BeginCancel(u)
      PROVE  QueueOnlyWhileProcessing'
  BY <1>16, SaveFlowAssumption
  DEF BeginCancel, Begin, TypeOK, QueueOnlyWhileProcessing, queueVars, handlerVars, counterVars, historyVars
<1>17. ASSUME NEW u \in Users, RaiseFlag(u)
      PROVE  QueueOnlyWhileProcessing'
  BY <1>17, SaveFlowAssumption
  DEF RaiseFlag, TypeOK, QueueOnlyWhileProcessing, queueVars, handlerVars, counterVars, historyVars
<1>18. ASSUME NEW u \in Users, ClearQueue(u)
      PROVE  QueueOnlyWhileProcessing'
  BY <1>18, SaveFlowAssumption
  DEF ClearQueue, TypeOK, QueueOnlyWhileProcessing, queueVars, handlerVars, counterVars, historyVars
<1>19. CASE UNCHANGED vars
  BY <1>19 DEF vars, TypeOK, QueueOnlyWhileProcessing, queueVars, handlerVars, counterVars, historyVars
<1> QED BY <1>1, <1>2, <1>3, <1>4, <1>5, <1>6, <1>7, <1>8, <1>9, <1>10,
           <1>11, <1>12, <1>13, <1>14, <1>15, <1>16, <1>17, <1>18, <1>19 DEF Next, Task, User

\* No step starts a second link of a user whose queue was not reset.
LEMMA OneAtATimeStep ==
    ASSUME TypeOK, QueueHoldsWaiting, OneAtATime, [Next]_vars
    PROVE  OneAtATime'
<1>1. ASSUME NEW l \in Links, AdmitNow(l)
      PROVE  OneAtATime'
  BY <1>1, SaveFlowAssumption
  DEF AdmitNow, TypeOK, OneAtATime, Carried, PCs, LinksOf, queueVars, handlerVars, counterVars, historyVars
<1>2. ASSUME NEW l \in Links, AdmitLater(l)
      PROVE  OneAtATime'
  BY <1>2, SaveFlowAssumption
  DEF AdmitLater, TypeOK, OneAtATime, Carried, PCs, LinksOf, queueVars, handlerVars, counterVars, historyVars
<1>3. ASSUME NEW l \in Links, Reject(l)
      PROVE  OneAtATime'
  BY <1>3, SaveFlowAssumption
  DEF Reject, TypeOK, OneAtATime, Carried, PCs, LinksOf, queueVars, handlerVars, counterVars, historyVars
<1>4. ASSUME NEW l \in Links, EnterPipeline(l)
      PROVE  OneAtATime'
  BY <1>4, SaveFlowAssumption
  DEF EnterPipeline, TypeOK, OneAtATime, Carried, PCs, LinksOf, queueVars, handlerVars, counterVars, historyVars
<1>5. ASSUME NEW l \in Links, BeginPost(l)
      PROVE  OneAtATime'
  BY <1>5, SaveFlowAssumption
  DEF BeginPost, TypeOK, OneAtATime, Carried, PCs, LinksOf, queueVars, handlerVars, counterVars, historyVars
<1>6. ASSUME NEW l \in Links, PostDelivered(l)
      PROVE  OneAtATime'
  BY <1>6, SaveFlowAssumption
  DEF PostDelivered, TypeOK, OneAtATime, Carried, PCs, LinksOf, queueVars, handlerVars, counterVars, historyVars
<1>7. ASSUME NEW l \in Links, PostFailed(l)
      PROVE  OneAtATime'
  BY <1>7, SaveFlowAssumption
  DEF PostFailed, TypeOK, OneAtATime, Carried, PCs, LinksOf, queueVars, handlerVars, counterVars, historyVars
<1>8. ASSUME NEW l \in Links, PostCancelled(l)
      PROVE  OneAtATime'
  BY <1>8, SaveFlowAssumption
  DEF PostCancelled, TypeOK, OneAtATime, Carried, PCs, LinksOf, queueVars, handlerVars, counterVars, historyVars
<1>9. ASSUME NEW l \in Links, HandlerReturns(l)
      PROVE  OneAtATime'
  BY <1>9, SaveFlowAssumption
  DEF HandlerReturns, TypeOK, OneAtATime, Carried, PCs, LinksOf, queueVars, handlerVars, counterVars, historyVars
<1>10. ASSUME NEW l \in Links, HandlerGivesUp(l)
      PROVE  OneAtATime'
  BY <1>10, SaveFlowAssumption
  DEF HandlerGivesUp, TypeOK, OneAtATime, Carried, PCs, LinksOf, queueVars, handlerVars, counterVars, historyVars
<1>11. ASSUME NEW l \in Links, HandlerRaises(l)
      PROVE  OneAtATime'
  BY <1>11, SaveFlowAssumption
  DEF HandlerRaises, TypeOK, OneAtATime, Carried, PCs, LinksOf, queueVars, handlerVars, counterVars, historyVars
<1>12. ASSUME NEW l \in Links, Complete(l)
      PROVE  OneAtATime'
  <2> DEFINE u == OwnerOf[l]
             h == Head(queue[u])
  <2>1. /\ pc[l] = "complete" /\ u \in Users /\ queue[u] \in Seq(Links)
        /\ u \notin overtaken => isProcessing[u] /\ current[u] = l
    BY <1>12, SaveFlowAssumption DEF Complete, TypeOK, OneAtATime, Carried, PCs, LinksOf, queueVars, handlerVars, counterVars, historyVars
  <2>2. ASSUME NEW m \in LinksOf(u), u \notin overtaken, pc[m] \in Carried \cup {"lost"}
        PROVE  m = l
    BY <2>1, <2>2 DEF OneAtATime, LinksOf
  <2>3. CASE queue[u] = <<>>
    <3>1. /\ isProcessing' = [isProcessing EXCEPT ![u] = FALSE]
          /\ current' = [current EXCEPT ![u] = NoLink]
          /\ pc' = [pc EXCEPT ![l] = "done"] /\ overtaken' = overtaken
      BY <1>12, <2>3 DEF Complete, historyVars
    <3>2. ASSUME NEW v \in Users \ overtaken, NEW m \in LinksOf(v),
                 pc'[m] \in Carried \cup {"lost"}
          PROVE  isProcessing'[v] /\ current'[v] = m
      <4>1. m # l /\ pc'[m] = pc[m]
        BY <3>1, <3>2 DEF TypeOK, Carried, LinksOf
      <4>2. v # u
        BY <2>2, <3>2, <4>1 DEF LinksOf
      <4>3. isProcessing'[v] = isProcessing[v] /\ current'[v] = current[v]
        BY <3>1, <4>2 DEF TypeOK
      <4> QED BY <3>2, <4>1, <4>3 DEF OneAtATime
    <3> QED BY <3>1, <3>2 DEF OneAtATime, LinksOf
  <2>4. CASE queue[u] # <<>>
    <3>1. h \in Links /\ pc[h] = "queued" /\ OwnerOf[h] = u
      BY <2>1, <2>4, TailFacts DEF QueueHoldsWaiting
    <3>2. /\ current' = [current EXCEPT ![u] = h]
          /\ pc' = [pc EXCEPT ![l] = "done", ![h] = "notify"]
          /\ isProcessing' = isProcessing /\ overtaken' = overtaken
      BY <1>12, <2>4 DEF Complete, historyVars
    <3> HIDE DEF h
    <3>3. ASSUME NEW v \in Users \ overtaken, NEW m \in LinksOf(v),
                 pc'[m] \in Carried \cup {"lost"}
          PROVE  isProcessing'[v] /\ current'[v] = m
      <4>1. m \in Links /\ OwnerOf[m] = v /\ m # l
        BY <2>1, <3>1, <3>2, <3>3 DEF LinksOf, Carried, TypeOK
      <4>2. CASE v = u
        <5>1. m = h
          BY <2>2, <3>2, <3>3, <4>1, <4>2 DEF TypeOK, Carried
        <5>2. isProcessing[u]
          BY <2>1, <3>3, <4>2
        <5> QED BY <2>1, <3>1, <3>2, <4>2, <5>1, <5>2 DEF TypeOK
      <4>3. CASE v # u
        <5>1. m # h
          BY <3>1, <4>1, <4>3
        <5>2. pc'[m] = pc[m] /\ current'[v] = current[v]
          BY <3>2, <4>1, <4>3, <5>1 DEF TypeOK
        <5> QED BY <3>2, <3>3, <5>2 DEF OneAtATime
      <4> QED BY <4>2, <4>3
    <3> QED BY <3>2, <3>3 DEF OneAtATime, LinksOf
  <2> QED BY <2>3, <2>4
<1>13. ASSUME NEW l \in Links, Notify(l)
      PROVE  OneAtATime'
  BY <1>13, SaveFlowAssumption
  DEF Notify, TypeOK, OneAtATime, Carried, PCs, LinksOf, queueVars, handlerVars, counterVars, historyVars
<1>14. ASSUME NEW l \in Links, NotifyFails(l)
      PROVE  OneAtATime'
  BY <1>14, SaveFlowAssumption
  DEF NotifyFails, TypeOK, OneAtATime, Carried, PCs, LinksOf, queueVars, handlerVars, counterVars, historyVars
<1>15. ASSUME NEW u \in Users, BeginStop(u)
      PROVE  OneAtATime'
  BY <1>15, SaveFlowAssumption
  DEF BeginStop, Begin, TypeOK, OneAtATime, Carried, PCs, LinksOf, queueVars, handlerVars, counterVars, historyVars
<1>16. ASSUME NEW u \in Users, BeginCancel(u)
      PROVE  OneAtATime'
  BY <1>16, SaveFlowAssumption
  DEF BeginCancel, Begin, TypeOK, OneAtATime, Carried, PCs, LinksOf, queueVars, handlerVars, counterVars, historyVars
<1>17. ASSUME NEW u \in Users, RaiseFlag(u)
      PROVE  OneAtATime'
  BY <1>17, SaveFlowAssumption
  DEF RaiseFlag, TypeOK, OneAtATime, Carried, PCs, LinksOf, queueVars, handlerVars, counterVars, historyVars
<1>18. ASSUME NEW u \in Users, ClearQueue(u)
      PROVE  OneAtATime'
  BY <1>18, SaveFlowAssumption
  DEF ClearQueue, TypeOK, OneAtATime, Carried, PCs, LinksOf, queueVars, handlerVars, counterVars, historyVars
<1>19. CASE UNCHANGED vars
  BY <1>19 DEF vars, TypeOK, OneAtATime, Carried, PCs, LinksOf, queueVars, handlerVars, counterVars, historyVars
<1> QED BY <1>1, <1>2, <1>3, <1>4, <1>5, <1>6, <1>7, <1>8, <1>9, <1>10,
           <1>11, <1>12, <1>13, <1>14, <1>15, <1>16, <1>17, <1>18, <1>19 DEF Next, Task, User

\* No step loses a waiting link or starts it twice.
LEMMA QueueHoldsStep ==
    ASSUME TypeOK, QueueHoldsWaiting, [Next]_vars
    PROVE  QueueHoldsWaiting'
<1>1. ASSUME NEW l \in Links, AdmitNow(l)
      PROVE  QueueHoldsWaiting'
  BY <1>1, SaveFlowAssumption
  DEF AdmitNow, TypeOK, QueueHoldsWaiting, PCs, Carried, LinksOf, queueVars, handlerVars, counterVars, historyVars
<1>2. ASSUME NEW l \in Links, AdmitLater(l)
      PROVE  QueueHoldsWaiting'
  <2> DEFINE u == OwnerOf[l]
             q == queue[u]
  <2>1. u \in Users /\ pc[l] = "new" /\ q \in Seq(Links)
    BY <1>2, SaveFlowAssumption DEF AdmitLater, TypeOK
  <2>2. /\ queue' = [queue EXCEPT ![u] = Append(q, l)]
        /\ pc' = [pc EXCEPT ![l] = "queued"]
    BY <1>2 DEF AdmitLater
  <2>3. queue'[u] = Append(q, l) /\ \A v \in Users \ {u} : queue'[v] = queue[v]
    BY <2>1, <2>2 DEF TypeOK
  <2>4. \A m \in Links : pc'[m] = IF m = l THEN "queued" ELSE pc[m]
    BY <2>2 DEF TypeOK
  <2>5. ASSUME NEW v \in Users \ {u} PROVE Holds(v)'
    <3>1. queue[v] \in Seq(Links) /\ Holds(v)
      BY HoldsIff DEF TypeOK
    <3>2. \A i \in DOMAIN queue[v] : queue[v][i] \in Links /\ queue[v][i] # l
      BY <2>1, <3>1 DEF Holds
    <3>3. l \notin LinksOf(v)
      BY DEF LinksOf
    <3> QED BY <2>3, <2>4, <3>1, <3>2, <3>3 DEF Holds, LinksOf
  <2>6. Holds(u)'
    <3>1. /\ DOMAIN q = 1..Len(q) /\ Len(q) \in Nat
          /\ DOMAIN queue'[u] = 1..(Len(q) + 1)
          /\ queue'[u][Len(q) + 1] = l
          /\ \A i \in 1..Len(q) : queue'[u][i] = q[i]
      BY <2>1, <2>3, AppendFacts
    <3>2. Holds(u)
      BY <2>1, HoldsIff
    <3>3. /\ \A i \in 1..Len(q) : OwnerOf[q[i]] = u /\ pc[q[i]] = "queued"
          /\ \A i, j \in 1..Len(q) : q[i] = q[j] => i = j
          /\ \A m \in LinksOf(u) : pc[m] = "queued" => \E i \in 1..Len(q) : q[i] = m
      BY <3>1, <3>2 DEF Holds
    <3>4. \A i \in 1..Len(q) : q[i] \in Links /\ q[i] # l
      BY <2>1, <3>1, <3>3
    <3> HIDE DEF q
    <3>5. OwnerOf[l] = u /\ pc'[l] = "queued"
      BY <2>4
    <3> HIDE DEF u
    <3>6. \A i \in DOMAIN queue'[u] : OwnerOf[queue'[u][i]] = u /\ pc'[queue'[u][i]] = "queued"
      BY <2>4, <3>1, <3>3, <3>4, <3>5
    <3>7. \A i, j \in DOMAIN queue'[u] : queue'[u][i] = queue'[u][j] => i = j
      BY <3>1, <3>3, <3>4
    <3>8. ASSUME NEW m \in LinksOf(u), pc'[m] = "queued"
          PROVE  \E i \in DOMAIN queue'[u] : queue'[u][i] = m
      <4>1. CASE m = l
        BY <3>1, <4>1
      <4>2. CASE m # l
        BY <2>4, <3>1, <3>3, <3>8, <4>2 DEF LinksOf
      <4> QED BY <4>1, <4>2
    <3> QED BY <3>6, <3>7, <3>8 DEF Holds, LinksOf
  <2> QED BY <2>5, <2>6, HoldsIff
<1>3. ASSUME NEW l \in Links, Reject(l)
      PROVE  QueueHoldsWaiting'
  BY <1>3, SaveFlowAssumption
  DEF Reject, TypeOK, QueueHoldsWaiting, PCs, Carried, LinksOf, queueVars, handlerVars, counterVars, historyVars
<1>4. ASSUME NEW l \in Links, EnterPipeline(l)
      PROVE  QueueHoldsWaiting'
  BY <1>4, SaveFlowAssumption
  DEF EnterPipeline, TypeOK, QueueHoldsWaiting, PCs, Carried, LinksOf, queueVars, handlerVars, counterVars, historyVars
<1>5. ASSUME NEW l \in Links, BeginPost(l)
      PROVE  QueueHoldsWaiting'
  BY <1>5, SaveFlowAssumption
  DEF BeginPost, TypeOK, QueueHoldsWaiting, PCs, Carried, LinksOf, queueVars, handlerVars, counterVars, historyVars
<1>6. ASSUME NEW l \in Links, PostDelivered(l)
      PROVE  QueueHoldsWaiting'
  BY <1>6, SaveFlowAssumption
  DEF PostDelivered, TypeOK, QueueHoldsWaiting, PCs, Carried, LinksOf, queueVars, handlerVars, counterVars, historyVars
<1>7. ASSUME NEW l \in Links, PostFailed(l)
      PROVE  QueueHoldsWaiting'
  BY <1>7, SaveFlowAssumption
  DEF PostFailed, TypeOK, QueueHoldsWaiting, PCs, Carried, LinksOf, queueVars, handlerVars, counterVars, historyVars
<1>8. ASSUME NEW l \in Links, PostCancelled(l)
      PROVE  QueueHoldsWaiting'
  BY <1>8, SaveFlowAssumption
  DEF PostCancelled, TypeOK, QueueHoldsWaiting, PCs, Carried, LinksOf, queueVars, handlerVars, counterVars, historyVars
<1>9. ASSUME NEW l \in Links, HandlerReturns(l)
      PROVE  QueueHoldsWaiting'
  BY <1>9, SaveFlowAssumption
  DEF HandlerReturns, TypeOK, QueueHoldsWaiting, PCs, Carried, LinksOf, queueVars, handlerVars, counterVars, historyVars
<1>10. ASSUME NEW l \in Links, HandlerGivesUp(l)
      PROVE  QueueHoldsWaiting'
  BY <1>10, SaveFlowAssumption
  DEF HandlerGivesUp, TypeOK, QueueHoldsWaiting, PCs, Carried, LinksOf, queueVars, handlerVars, counterVars, historyVars
<1>11. ASSUME NEW l \in Links, HandlerRaises(l)
      PROVE  QueueHoldsWaiting'
  BY <1>11, SaveFlowAssumption
  DEF HandlerRaises, TypeOK, QueueHoldsWaiting, PCs, Carried, LinksOf, queueVars, handlerVars, counterVars, historyVars
<1>12. ASSUME NEW l \in Links, Complete(l)
      PROVE  QueueHoldsWaiting'
  <2> DEFINE u == OwnerOf[l]
             q == queue[u]
             h == Head(q)
  <2>1. u \in Users /\ pc[l] = "complete" /\ q \in Seq(Links)
    BY <1>12, SaveFlowAssumption DEF Complete, TypeOK
  <2>2. CASE q = <<>>
    <3>1. queue' = queue /\ pc' = [pc EXCEPT ![l] = "done"]
      BY <1>12, <2>2 DEF Complete
    <3> QED BY <2>1, <3>1 DEF QueueHoldsWaiting, TypeOK, LinksOf
  <2>3. CASE q # <<>>
    <3>1. /\ queue' = [queue EXCEPT ![u] = Tail(q)]
          /\ pc' = [pc EXCEPT ![l] = "done", ![h] = "notify"]
      BY <1>12, <2>3 DEF Complete
    <3>2. /\ h \in Links /\ h = q[1] /\ DOMAIN q = 1..Len(q) /\ Len(q) \in Nat \ {0}
          /\ DOMAIN Tail(q) = 1..(Len(q) - 1)
          /\ \A i \in 1..(Len(q) - 1) : Tail(q)[i] = q[i + 1]
      BY <2>1, <2>3, TailFacts
    <3>3. Holds(u)
      BY <2>1, HoldsIff
    <3>4. /\ \A i \in 1..Len(q) : OwnerOf[q[i]] = u /\ pc[q[i]] = "queued" /\ q[i] \in Links
          /\ \A i, j \in 1..Len(q) : q[i] = q[j] => i = j
          /\ \A m \in LinksOf(u) : pc[m] = "queued" => \E i \in 1..Len(q) : q[i] = m
      BY <2>1, <3>2, <3>3 DEF Holds
    <3>5. queue'[u] = Tail(q) /\ \A v \in Users \ {u} : queue'[v] = queue[v]
      BY <2>1, <3>1 DEF TypeOK
    <3>6. OwnerOf[h] = u /\ pc[h] = "queued" /\ h # l
      BY <2>1, <3>2, <3>4
    <3> HIDE DEF h, q
    <3>7. \A m \in Links : pc'[m] = IF m = h THEN "notify" ELSE IF m = l THEN "done" ELSE pc[m]
      BY <3>1, <3>2, <3>6 DEF TypeOK
    <3>8. ASSUME NEW v \in Users \ {u} PROVE Holds(v)'
      <4>1. queue[v] \in Seq(Links) /\ Holds(v)
        BY HoldsIff DEF TypeOK
      <4>2. \A i \in DOMAIN queue[v] :
              /\ queue[v][i] \in Links /\ queue[v][i] # l /\ queue[v][i] # h
              /\ pc'[queue[v][i]] = "queued" /\ OwnerOf[queue[v][i]] = v
        BY <2>1, <3>6, <3>7, <4>1 DEF Holds
      <4> QED BY <3>5, <3>7, <4>1, <4>2 DEF Holds, LinksOf
    <3>9. Holds(u)'
      <4>1. \A i \in 1..(Len(q) - 1) :
              /\ Tail(q)[i] = q[i + 1] /\ i + 1 \in 1..Len(q) /\ q[i + 1] # h
              /\ q[i + 1] \in Links /\ OwnerOf[q[i + 1]] = u /\ pc[q[i + 1]] = "queued"
        BY <3>2, <3>4
      <4>2. \A i \in 1..(Len(q) - 1) : OwnerOf[Tail(q)[i]] = u /\ pc'[Tail(q)[i]] = "queued"
        BY <2>1, <3>7, <4>1
      <4>3. \A i, j \in 1..(Len(q) - 1) : Tail(q)[i] = Tail(q)[j] => i = j
        BY <3>2, <3>4, <4>1
      <4>4. ASSUME NEW m \in LinksOf(u), pc'[m] = "queued"
            PROVE  \E i \in 1..(Len(q) - 1) : Tail(q)[i] = m
        <5>1. pc[m] = "queued" /\ m # h
          BY <3>7, <4>4 DEF LinksOf
        <5>2. PICK i \in 1..Len(q) : q[i] = m
          BY <3>4, <5>1
        <5>3. i # 1
          BY <3>2, <5>1, <5>2
        <5>4. i - 1 \in 1..(Len(q) - 1) /\ (i - 1) + 1 = i
          BY <3>2, <5>3
        <5>5. Tail(q)[i - 1] = m
          BY <3>2, <5>2, <5>4
        <5> QED BY <5>4, <5>5
      <4>5. DOMAIN queue'[u] = 1..(Len(q) - 1) /\ queue'[u] = Tail(q)
        BY <3>2, <3>5
      <4>6. LinksOf(u)' = LinksOf(u)
        BY DEF LinksOf
      <4> HIDE DEF u
      <4> QED BY <4>2, <4>3, <4>4, <4>5, <4>6 DEF Holds
    <3> QED BY <3>8, <3>9, HoldsIff
  <2> QED BY <2>2, <2>3
<1>13. ASSUME NEW l \in Links, Notify(l)
      PROVE  QueueHoldsWaiting'
  BY <1>13, SaveFlowAssumption
  DEF Notify, TypeOK, QueueHoldsWaiting, PCs, Carried, LinksOf, queueVars, handlerVars, counterVars, historyVars
<1>14. ASSUME NEW l \in Links, NotifyFails(l)
      PROVE  QueueHoldsWaiting'
  BY <1>14, SaveFlowAssumption
  DEF NotifyFails, TypeOK, QueueHoldsWaiting, PCs, Carried, LinksOf, queueVars, handlerVars, counterVars, historyVars
<1>15. ASSUME NEW u \in Users, BeginStop(u)
      PROVE  QueueHoldsWaiting'
  BY <1>15, SaveFlowAssumption
  DEF BeginStop, Begin, TypeOK, QueueHoldsWaiting, PCs, Carried, LinksOf, queueVars, handlerVars, counterVars, historyVars
<1>16. ASSUME NEW u \in Users, BeginCancel(u)
      PROVE  QueueHoldsWaiting'
  BY <1>16, SaveFlowAssumption
  DEF BeginCancel, Begin, TypeOK, QueueHoldsWaiting, PCs, Carried, LinksOf, queueVars, handlerVars, counterVars, historyVars
<1>17. ASSUME NEW u \in Users, RaiseFlag(u)
      PROVE  QueueHoldsWaiting'
  BY <1>17, SaveFlowAssumption
  DEF RaiseFlag, TypeOK, QueueHoldsWaiting, PCs, Carried, LinksOf, queueVars, handlerVars, counterVars, historyVars
<1>18. ASSUME NEW u \in Users, ClearQueue(u)
      PROVE  QueueHoldsWaiting'
  BY <1>18, SaveFlowAssumption
  DEF ClearQueue, TypeOK, QueueHoldsWaiting, PCs, Carried, LinksOf, queueVars, handlerVars, counterVars, historyVars
<1>19. CASE UNCHANGED vars
  BY <1>19 DEF vars, TypeOK, QueueHoldsWaiting, PCs, Carried, LinksOf, queueVars, handlerVars, counterVars, historyVars
<1> QED BY <1>1, <1>2, <1>3, <1>4, <1>5, <1>6, <1>7, <1>8, <1>9, <1>10,
           <1>11, <1>12, <1>13, <1>14, <1>15, <1>16, <1>17, <1>18, <1>19 DEF Next, Task, User

\* Only the start of a pipeline releases a link that was told to stop.
LEMMA StopStep ==
    ASSUME TypeOK, LateHalted, StopHoldsUntilReset, [Next]_vars
    PROVE  (LateHalted /\ StopHoldsUntilReset)'
<1>1. ASSUME NEW l \in Links, AdmitNow(l)
      PROVE  (LateHalted /\ StopHoldsUntilReset)'
  BY <1>1, SaveFlowAssumption
  DEF AdmitNow, TypeOK, LateHalted, StopHoldsUntilReset, LinksOf, queueVars, handlerVars, counterVars, historyVars
<1>2. ASSUME NEW l \in Links, AdmitLater(l)
      PROVE  (LateHalted /\ StopHoldsUntilReset)'
  BY <1>2, SaveFlowAssumption
  DEF AdmitLater, TypeOK, LateHalted, StopHoldsUntilReset, LinksOf, queueVars, handlerVars, counterVars, historyVars
<1>3. ASSUME NEW l \in Links, Reject(l)
      PROVE  (LateHalted /\ StopHoldsUntilReset)'
  BY <1>3, SaveFlowAssumption
  DEF Reject, TypeOK, LateHalted, StopHoldsUntilReset, LinksOf, queueVars, handlerVars, counterVars, historyVars
<1>4. ASSUME NEW l \in Links, EnterPipeline(l)
      PROVE  (LateHalted /\ StopHoldsUntilReset)'
  BY <1>4, SaveFlowAssumption
  DEF EnterPipeline, TypeOK, LateHalted, StopHoldsUntilReset, LinksOf, queueVars, handlerVars, counterVars, historyVars
<1>5. ASSUME NEW l \in Links, BeginPost(l)
      PROVE  (LateHalted /\ StopHoldsUntilReset)'
  BY <1>5, SaveFlowAssumption
  DEF BeginPost, TypeOK, LateHalted, StopHoldsUntilReset, LinksOf, queueVars, handlerVars, counterVars, historyVars
<1>6. ASSUME NEW l \in Links, PostDelivered(l)
      PROVE  (LateHalted /\ StopHoldsUntilReset)'
  BY <1>6, SaveFlowAssumption
  DEF PostDelivered, TypeOK, LateHalted, StopHoldsUntilReset, LinksOf, queueVars, handlerVars, counterVars, historyVars
<1>7. ASSUME NEW l \in Links, PostFailed(l)
      PROVE  (LateHalted /\ StopHoldsUntilReset)'
  BY <1>7, SaveFlowAssumption
  DEF PostFailed, TypeOK, LateHalted, StopHoldsUntilReset, LinksOf, queueVars, handlerVars, counterVars, historyVars
<1>8. ASSUME NEW l \in Links, PostCancelled(l)
      PROVE  (LateHalted /\ StopHoldsUntilReset)'
  BY <1>8, SaveFlowAssumption
  DEF PostCancelled, TypeOK, LateHalted, StopHoldsUntilReset, LinksOf, queueVars, handlerVars, counterVars, historyVars
<1>9. ASSUME NEW l \in Links, HandlerReturns(l)
      PROVE  (LateHalted /\ StopHoldsUntilReset)'
  BY <1>9, SaveFlowAssumption
  DEF HandlerReturns, TypeOK, LateHalted, StopHoldsUntilReset, LinksOf, queueVars, handlerVars, counterVars, historyVars
<1>10. ASSUME NEW l \in Links, HandlerGivesUp(l)
      PROVE  (LateHalted /\ StopHoldsUntilReset)'
  BY <1>10, SaveFlowAssumption
  DEF HandlerGivesUp, TypeOK, LateHalted, StopHoldsUntilReset, LinksOf, queueVars, handlerVars, counterVars, historyVars
<1>11. ASSUME NEW l \in Links, HandlerRaises(l)
      PROVE  (LateHalted /\ StopHoldsUntilReset)'
  BY <1>11, SaveFlowAssumption
  DEF HandlerRaises, TypeOK, LateHalted, StopHoldsUntilReset, LinksOf, queueVars, handlerVars, counterVars, historyVars
<1>12. ASSUME NEW l \in Links, Complete(l)
      PROVE  (LateHalted /\ StopHoldsUntilReset)'
  BY <1>12, SaveFlowAssumption
  DEF Complete, TypeOK, LateHalted, StopHoldsUntilReset, LinksOf, queueVars, handlerVars, counterVars, historyVars
<1>13. ASSUME NEW l \in Links, Notify(l)
      PROVE  (LateHalted /\ StopHoldsUntilReset)'
  BY <1>13, SaveFlowAssumption
  DEF Notify, TypeOK, LateHalted, StopHoldsUntilReset, LinksOf, queueVars, handlerVars, counterVars, historyVars
<1>14. ASSUME NEW l \in Links, NotifyFails(l)
      PROVE  (LateHalted /\ StopHoldsUntilReset)'
  BY <1>14, SaveFlowAssumption
  DEF NotifyFails, TypeOK, LateHalted, StopHoldsUntilReset, LinksOf, queueVars, handlerVars, counterVars, historyVars
<1>15. ASSUME NEW u \in Users, BeginStop(u)
      PROVE  (LateHalted /\ StopHoldsUntilReset)'
  BY <1>15, SaveFlowAssumption
  DEF BeginStop, Begin, TypeOK, LateHalted, StopHoldsUntilReset, LinksOf, queueVars, handlerVars, counterVars, historyVars
<1>16. ASSUME NEW u \in Users, BeginCancel(u)
      PROVE  (LateHalted /\ StopHoldsUntilReset)'
  BY <1>16, SaveFlowAssumption
  DEF BeginCancel, Begin, TypeOK, LateHalted, StopHoldsUntilReset, LinksOf, queueVars, handlerVars, counterVars, historyVars
<1>17. ASSUME NEW u \in Users, RaiseFlag(u)
      PROVE  (LateHalted /\ StopHoldsUntilReset)'
  BY <1>17, SaveFlowAssumption
  DEF RaiseFlag, TypeOK, LateHalted, StopHoldsUntilReset, LinksOf, queueVars, handlerVars, counterVars, historyVars
<1>18. ASSUME NEW u \in Users, ClearQueue(u)
      PROVE  (LateHalted /\ StopHoldsUntilReset)'
  BY <1>18, SaveFlowAssumption
  DEF ClearQueue, TypeOK, LateHalted, StopHoldsUntilReset, LinksOf, queueVars, handlerVars, counterVars, historyVars
<1>19. CASE UNCHANGED vars
  BY <1>19 DEF vars, TypeOK, LateHalted, StopHoldsUntilReset, LinksOf, queueVars, handlerVars, counterVars, historyVars
<1> QED BY <1>1, <1>2, <1>3, <1>4, <1>5, <1>6, <1>7, <1>8, <1>9, <1>10,
           <1>11, <1>12, <1>13, <1>14, <1>15, <1>16, <1>17, <1>18, <1>19 DEF Next, Task, User

\* No step delivers a post twice in one run of a handler.
LEMMA DeliveryStep ==
    ASSUME TypeOK, PostInRange, QueueHoldsWaiting, RunsNeedQueue, DeliveredByPhase, [Next]_vars
    PROVE  (RunsNeedQueue /\ DeliveredByPhase)'
<1>1. ASSUME NEW l \in Links, AdmitNow(l)
      PROVE  (RunsNeedQueue /\ DeliveredByPhase)'
  BY <1>1, SaveFlowAssumption, SMTT(30)
  DEF AdmitNow, TypeOK, PostInRange, RunsNeedQueue, DeliveredByPhase, Phase, Before, PCs, Carried, queueVars, handlerVars, counterVars, historyVars
<1>2. ASSUME NEW l \in Links, AdmitLater(l)
      PROVE  (RunsNeedQueue /\ DeliveredByPhase)'
  BY <1>2, SaveFlowAssumption
  DEF AdmitLater, TypeOK, PostInRange, RunsNeedQueue, DeliveredByPhase, Phase, Before, PCs, Carried, queueVars, handlerVars, counterVars, historyVars
<1>3. ASSUME NEW l \in Links, Reject(l)
      PROVE  (RunsNeedQueue /\ DeliveredByPhase)'
  BY <1>3, SaveFlowAssumption
  DEF Reject, TypeOK, PostInRange, RunsNeedQueue, DeliveredByPhase, Phase, Before, PCs, Carried, queueVars, handlerVars, counterVars, historyVars
<1>4. ASSUME NEW l \in Links, EnterPipeline(l)
      PROVE  (RunsNeedQueue /\ DeliveredByPhase)'
  <2>1. /\ pc[l] = "dispatch" /\ pc' = [pc EXCEPT ![l] = "loop"]
        /\ pos' = [pos EXCEPT ![l] = 1]
        /\ viaPQ' = viaPQ /\ delivered' = delivered
    BY <1>4 DEF EnterPipeline
  <2>2. ASSUME NEW m \in Links, NEW p \in Posts PROVE Phase(m, p)'
    <3>1. Phase(m, p) /\ delivered[m][p] \in Nat /\ p \in Nat \ {0} /\ Before(m) \in {0, 1}
      <4>1. Phase(m, p)
        BY DEF DeliveredByPhase
      <4>2. delivered[m][p] \in Nat /\ p \in Nat \ {0} /\ Before(m) \in {0, 1}
        BY SaveFlowAssumption, SMTT(30) DEF TypeOK, Posts, Before
      <4> QED BY <4>1, <4>2
    <3>2. Before(m)' = Before(m)
      BY <2>1 DEF Before
    <3> HIDE DEF Before
    <3>3. CASE m = l
      BY <2>1, <3>1, <3>2, <3>3 DEF Phase, TypeOK
    <3>4. CASE m # l
      BY <2>1, <3>1, <3>2, <3>4 DEF Phase, TypeOK
    <3> QED BY <3>3, <3>4
  <2> QED BY <2>1, <2>2 DEF DeliveredByPhase, RunsNeedQueue
<1>5. ASSUME NEW l \in Links, BeginPost(l)
      PROVE  (RunsNeedQueue /\ DeliveredByPhase)'
  BY <1>5, SaveFlowAssumption
  DEF BeginPost, TypeOK, PostInRange, RunsNeedQueue, DeliveredByPhase, Phase, Before, PCs, Carried, queueVars, handlerVars, counterVars, historyVars
<1>6. ASSUME NEW l \in Links, PostDelivered(l)
      PROVE  (RunsNeedQueue /\ DeliveredByPhase)'
  <2>1. /\ pc[l] = "post" /\ pc' = [pc EXCEPT ![l] = "loop"]
        /\ pos' = [pos EXCEPT ![l] = pos[l] + 1] /\ viaPQ' = viaPQ
        /\ delivered' = [delivered EXCEPT ![l][pos[l]] = delivered[l][pos[l]] + 1]
    BY <1>6 DEF PostDelivered
  <2>2. pos[l] \in Posts /\ pos'[l] = pos[l] + 1 /\ pos[l] \in Nat
    BY <2>1, SaveFlowAssumption DEF Posts, TypeOK, PostInRange
  <2>3. ASSUME NEW m \in Links, NEW p \in Posts PROVE Phase(m, p)'
    <3>1. Phase(m, p) /\ delivered[m][p] \in Nat /\ p \in Nat /\ Before(m) \in {0, 1}
      <4>1. Phase(m, p)
        BY DEF DeliveredByPhase
      <4>2. delivered[m][p] \in Nat /\ p \in Nat /\ Before(m) \in {0, 1}
        BY SaveFlowAssumption DEF TypeOK, Posts, Before
      <4> QED BY <4>1, <4>2
    <3>2. Before(m)' = Before(m)
      BY <2>1 DEF Before
    <3>3. CASE m = l
      <4>1. delivered'[l][p] = IF p = pos[l] THEN delivered[l][p] + 1 ELSE delivered[l][p]
        BY <2>1, <2>2 DEF TypeOK
      <4>2. pc'[l] = "loop"
        BY <2>1 DEF TypeOK
      <4>3. delivered[l][p] <= Before(l) + (IF p < pos[l] THEN 1 ELSE 0)
        BY <2>1, <3>1, <3>3 DEF Phase
      <4> HIDE DEF Before
      <4>4. delivered'[l][p] <= Before(l) + (IF p < pos'[l] THEN 1 ELSE 0)
        BY <2>2, <3>1, <3>3, <4>1, <4>3
      <4> QED BY <3>2, <3>3, <4>2, <4>4 DEF Phase
    <3>4. CASE m # l
      <4>1. delivered'[m] = delivered[m] /\ pos'[m] = pos[m] /\ pc'[m] = pc[m]
        BY <2>1, <3>4 DEF TypeOK
      <4> QED BY <3>1, <3>2, <4>1 DEF Phase
    <3> QED BY <3>3, <3>4
  <2> QED BY <2>1, <2>3 DEF DeliveredByPhase, RunsNeedQueue
<1>7. ASSUME NEW l \in Links, PostFailed(l)
      PROVE  (RunsNeedQueue /\ DeliveredByPhase)'
  <2>1. /\ pc[l] = "post" /\ pc' = [pc EXCEPT ![l] = "loop"]
        /\ pos' = [pos EXCEPT ![l] = pos[l] + 1]
        /\ viaPQ' = viaPQ /\ delivered' = delivered
    BY <1>7 DEF PostFailed
  <2>2. pos[l] \in Nat /\ pos'[l] = pos[l] + 1
    BY <2>1 DEF TypeOK
  <2>3. ASSUME NEW m \in Links, NEW p \in Posts PROVE Phase(m, p)'
    <3>1. Phase(m, p) /\ delivered[m][p] \in Nat /\ p \in Nat /\ Before(m) \in {0, 1}
      <4>1. Phase(m, p)
        BY DEF DeliveredByPhase
      <4>2. delivered[m][p] \in Nat /\ p \in Nat /\ Before(m) \in {0, 1}
        BY SaveFlowAssumption DEF TypeOK, Posts, Before
      <4> QED BY <4>1, <4>2
    <3>2. Before(m)' = Before(m)
      BY <2>1 DEF Before
    <3> HIDE DEF Before
    <3>3. CASE m = l
      BY <2>1, <2>2, <3>1, <3>2, <3>3 DEF Phase, TypeOK
    <3>4. CASE m # l
      BY <2>1, <3>1, <3>2, <3>4 DEF Phase, TypeOK
    <3> QED BY <3>3, <3>4
  <2> QED BY <2>1, <2>3 DEF DeliveredByPhase, RunsNeedQueue
<1>8. ASSUME NEW l \in Links, PostCancelled(l)
      PROVE  (RunsNeedQueue /\ DeliveredByPhase)'
  BY <1>8, SaveFlowAssumption
  DEF PostCancelled, TypeOK, PostInRange, RunsNeedQueue, DeliveredByPhase, Phase, Before, PCs, Carried, queueVars, handlerVars, counterVars, historyVars
<1>9. ASSUME NEW l \in Links, HandlerReturns(l)
      PROVE  (RunsNeedQueue /\ DeliveredByPhase)'
  BY <1>9, SaveFlowAssumption
  DEF HandlerReturns, TypeOK, PostInRange, RunsNeedQueue, DeliveredByPhase, Phase, Before, PCs, Carried, queueVars, handlerVars, counterVars, historyVars
<1>10. ASSUME NEW l \in Links, HandlerGivesUp(l)
      PROVE  (RunsNeedQueue /\ DeliveredByPhase)'
  <2>1. /\ pc[l] \in {"dispatch", "loop"} /\ pc' = [pc EXCEPT ![l] = "complete"]
        /\ UNCHANGED <<viaPQ, pos, delivered>>
    BY <1>10 DEF HandlerGivesUp, handlerVars
  <2>2. RunsNeedQueue'
    BY <2>1 DEF RunsNeedQueue
  <2>3. ASSUME NEW m \in Links, NEW p \in Posts PROVE Phase(m, p)'
    <3>1. Phase(m, p)
      BY DEF DeliveredByPhase
    <3>2. delivered[m][p] \in Nat /\ Before(m) \in Nat
      BY SaveFlowAssumption DEF TypeOK, Posts, Before
    <3>3. Before(m)' = Before(m)
      BY <2>1 DEF Before
    <3> HIDE DEF Before
    <3>4. CASE m = l
      BY <2>1, <3>1, <3>2, <3>3, <3>4 DEF Phase, TypeOK
    <3>5. CASE m # l
      BY <2>1, <3>1, <3>3, <3>5 DEF Phase, TypeOK
    <3> QED BY <3>4, <3>5
  <2> QED BY <2>2, <2>3 DEF DeliveredByPhase
<1>11. ASSUME NEW l \in Links, HandlerRaises(l)
      PROVE  (RunsNeedQueue /\ DeliveredByPhase)'
  <2>1. /\ pc[l] = "loop" /\ viaPQ' = [viaPQ EXCEPT ![l] = FALSE]
        /\ pc' = [pc EXCEPT ![l] = IF viaPQ[l] THEN "dispatch" ELSE "complete"]
        /\ pos' = pos /\ delivered' = delivered
    BY <1>11 DEF HandlerRaises
  <2>2. RunsNeedQueue'
    BY <2>1 DEF RunsNeedQueue, TypeOK
  <2>3. ASSUME NEW m \in Links, NEW p \in Posts PROVE Phase(m, p)'
    <3>1. Phase(m, p) /\ delivered[m][p] \in Nat /\ p \in Nat /\ pos[m] \in Nat
      <4>1. Phase(m, p)
        BY DEF DeliveredByPhase
      <4>2. delivered[m][p] \in Nat /\ p \in Nat /\ pos[m] \in Nat
        BY SaveFlowAssumption, SMTT(30) DEF TypeOK, Posts
      <4> QED BY <4>1, <4>2
    <3>2. CASE m = l /\ viaPQ[l]
      <4>1. pc'[m] = "dispatch" /\ Before(m) = 0 /\ Before(m)' = 1
        BY <2>1, <3>2, SaveFlowAssumption DEF Before, RunsNeedQueue, TypeOK
      <4>2. delivered[m][p] <= 0 + (IF p < pos[m] THEN 1 ELSE 0)
        BY <2>1, <3>1, <3>2, <4>1 DEF Phase
      <4>3. delivered'[m][p] <= 1
        BY <2>1, <3>1, <4>2
      <4> QED BY <4>1, <4>3 DEF Phase
    <3>3. CASE m = l /\ ~viaPQ[l]
      <4>1. pc'[m] = "complete" /\ Before(m)' = Before(m)
        BY <2>1, <3>3 DEF Before, TypeOK
      <4> QED BY <2>1, <3>1, <3>3, <4>1 DEF Phase
    <3>4. CASE m # l
      <4>1. pc'[m] = pc[m] /\ Before(m)' = Before(m)
        BY <2>1, <3>4 DEF Before, TypeOK
      <4> QED BY <2>1, <3>1, <4>1 DEF Phase
    <3> QED BY <3>2, <3>3, <3>4
  <2> QED BY <2>2, <2>3 DEF DeliveredByPhase
<1>12. ASSUME NEW l \in Links, Complete(l)
      PROVE  (RunsNeedQueue /\ DeliveredByPhase)'
  <2>1. CASE queue[OwnerOf[l]] = <<>>
    BY <1>12, <2>1, ZenonT(60) DEF Complete, Phase, TypeOK, PostInRange, RunsNeedQueue, DeliveredByPhase, Phase, Before, PCs, Carried, queueVars, handlerVars, counterVars, historyVars
  <2>2. CASE queue[OwnerOf[l]] # <<>>
    <3> DEFINE h == Head(queue[OwnerOf[l]])
    <3>1. h \in Links /\ pc[h] = "queued"
      BY <2>2, SaveFlowAssumption, TailFacts DEF QueueHoldsWaiting, TypeOK
    <3>2. /\ pc[l] = "complete"
          /\ pc' = [pc EXCEPT ![l] = "done", ![h] = "notify"]
          /\ pos' = pos /\ delivered' = delivered /\ viaPQ' = viaPQ
      BY <1>12, <2>2 DEF Complete, handlerVars
    <3> HIDE DEF h
    <3> QED BY <3>1, <3>2 DEF DeliveredByPhase, RunsNeedQueue, Phase, Before, TypeOK
  <2> QED BY <2>1, <2>2
<1>13. ASSUME NEW l \in Links, Notify(l)
      PROVE  (RunsNeedQueue /\ DeliveredByPhase)'
  BY <1>13, SaveFlowAssumption
  DEF Notify, TypeOK, PostInRange, RunsNeedQueue, DeliveredByPhase, Phase, Before, PCs, Carried, queueVars, handlerVars, counterVars, historyVars
<1>14. ASSUME NEW l \in Links, NotifyFails(l)
      PROVE  (RunsNeedQueue /\ DeliveredByPhase)'
  BY <1>14, SaveFlowAssumption
  DEF NotifyFails, TypeOK, PostInRange, RunsNeedQueue, DeliveredByPhase, Phase, Before, PCs, Carried, queueVars, handlerVars, counterVars, historyVars
<1>15. ASSUME NEW u \in Users, BeginStop(u)
      PROVE  (RunsNeedQueue /\ DeliveredByPhase)'
  BY <1>15, SaveFlowAssumption
  DEF BeginStop, Begin, TypeOK, PostInRange, RunsNeedQueue, DeliveredByPhase, Phase, Before, PCs, Carried, queueVars, handlerVars, counterVars, historyVars
<1>16. ASSUME NEW u \in Users, BeginCancel(u)
      PROVE  (RunsNeedQueue /\ DeliveredByPhase)'
  BY <1>16, SaveFlowAssumption
  DEF BeginCancel, Begin, TypeOK, PostInRange, RunsNeedQueue, DeliveredByPhase, Phase, Before, PCs, Carried, queueVars, handlerVars, counterVars, historyVars
<1>17. ASSUME NEW u \in Users, RaiseFlag(u)
      PROVE  (RunsNeedQueue /\ DeliveredByPhase)'
  BY <1>17, SaveFlowAssumption
  DEF RaiseFlag, TypeOK, PostInRange, RunsNeedQueue, DeliveredByPhase, Phase, Before, PCs, Carried, queueVars, handlerVars, counterVars, historyVars
<1>18. ASSUME NEW u \in Users, ClearQueue(u)
      PROVE  (RunsNeedQueue /\ DeliveredByPhase)'
  BY <1>18, SaveFlowAssumption
  DEF ClearQueue, TypeOK, PostInRange, RunsNeedQueue, DeliveredByPhase, Phase, Before, PCs, Carried, queueVars, handlerVars, counterVars, historyVars
<1>19. CASE UNCHANGED vars
  BY <1>19 DEF vars, TypeOK, PostInRange, RunsNeedQueue, DeliveredByPhase, Phase, Before, PCs, Carried, queueVars, handlerVars, counterVars, historyVars
<1> QED BY <1>1, <1>2, <1>3, <1>4, <1>5, <1>6, <1>7, <1>8, <1>9, <1>10,
           <1>11, <1>12, <1>13, <1>14, <1>15, <1>16, <1>17, <1>18, <1>19 DEF Next, Task, User


\* Nothing has been sent yet.
LEMMA InitInv == Init => IInv
<1> SUFFICES ASSUME Init PROVE IInv
  OBVIOUS
<1> USE SaveFlowAssumption DEF Init
<1>1. TypeOK
  BY DEF TypeOK, PCs, Carried
<1>2. PostInRange /\ QueueOnlyWhileProcessing /\ OneAtATime
  BY DEF PostInRange, QueueOnlyWhileProcessing, OneAtATime, Carried, LinksOf
<1>3. QueueHoldsWaiting
  BY DEF QueueHoldsWaiting, LinksOf
<1>4. LateHalted /\ StopHoldsUntilReset /\ RunsNeedQueue
  BY DEF LateHalted, StopHoldsUntilReset, RunsNeedQueue
<1>5. DeliveredByPhase
  BY DEF DeliveredByPhase, Phase
<1> QED BY <1>1, <1>2, <1>3, <1>4, <1>5 DEF IInv

\* The strengthened invariant is inductive, so it always holds.
THEOREM Inductive == Spec => []IInv
<1>1. Init => IInv
  BY InitInv
<1>2. IInv /\ [Next]_vars => IInv'
  BY TypeStep, PostInRangeStep, QueueOnlyStep, OneAtATimeStep, QueueHoldsStep,
     StopStep, DeliveryStep DEF IInv
<1> QED BY <1>1, <1>2, PTL DEF Spec

\* Type correctness of the link flow.
THEOREM TypeCorrect == Spec => []TypeOK
<1>1. IInv => TypeOK
  BY DEF IInv
<1> QED BY <1>1, Inductive, PTL

\* UserQueueManager: a user's queue and the user's waiting links agree, each link once and
\* never behind an idle user, under every interleaving of enqueue, complete and clear_queue.
THEOREM NoLinkLost == Spec => []QueueSound
<1>1. IInv => QueueSound
  BY DEF IInv, QueueSound
<1> QED BY <1>1, Inductive, PTL

\* UserQueueManager: two links of a user never run together unless /stop reset
\* the queue under a running one.
THEOREM OneLinkInProgress == Spec => []OneAtATime
<1>1. IInv => OneAtATime
  BY DEF IInv
<1> QED BY <1>1, Inductive, PTL

\* TaskManager: a link told to stop begins no post until a pipeline start of its
\* user resets the flag.
THEOREM StopHolds == Spec => []StopHoldsUntilReset
<1>1. IInv => StopHoldsUntilReset
  BY DEF IInv
<1> QED BY <1>1, Inductive, PTL

\* _dispatch_with_priority: no post is delivered more than twice, and twice only
\* after the one retry outside the priority queue.
THEOREM RetryBounded == Spec => []OneRerunAtMost
<1>1. IInv => OneRerunAtMost
  <2> SUFFICES ASSUME IInv, NEW l \in Links, NEW p \in Posts
               PROVE  /\ delivered[l][p] <= IF PQStarted /\ ~viaPQ[l] THEN 2 ELSE 1
                      /\ viaPQ[l] /\ p >= pos[l] => delivered[l][p] = 0
    BY DEF OneRerunAtMost
  <2>1. delivered[l][p] \in Nat /\ p \in Nat /\ pos[l] \in Nat /\ pc[l] \in PCs
    BY SaveFlowAssumption DEF IInv, TypeOK, Posts
  <2>2. \/ delivered[l][p] = 0
        \/ delivered[l][p] <= Before(l)
        \/ delivered[l][p] <= Before(l) + (IF p < pos[l] THEN 1 ELSE 0)
    BY <2>1 DEF IInv, DeliveredByPhase, Phase, PCs, Carried
  <2> QED BY <2>1, <2>2 DEF Before
<1> QED BY <1>1, Inductive, PTL

\* save() and its dispatcher: the links of a user are run one after the other, each of them
\* once, but for the retry.
THEOREM LinksTakeTurns == Spec => []LinksInTurn
<1>1. OneAtATime /\ OneRerunAtMost => LinksInTurn
  BY DEF LinksInTurn
<1> QED BY <1>1, OneLinkInProgress, RetryBounded, PTL

-----------------------------------------------------------------------------
(* The priority queue.                                                     *)

\* Every queued job sits in the bucket of its own role.
InOwnBucket == \A r \in Buckets : \A i \in DOMAIN queues[r] : Bucket(queues[r][i]) = r

\* Jobs holding a slot and jobs being run are counted alike.
ActiveTotal == TotalActive = Cardinality(running)

\* No worker is missing while none has died.
WorkersCover == stranded = {} /\ started => Live >= Capacity

PQInv == /\ PQTypeOK
         /\ InOwnBucket
         /\ PendingAccounted
         /\ ActiveCountsRunning
         /\ ActiveTotal
         /\ WorkersCover

\* A bucket is always one of the three buckets.
LEMMA BucketType == ASSUME NEW j \in Jobs PROVE Bucket(j) \in Buckets
BY PQAssumption DEF Bucket, Buckets, UserRoles

\* Starting a job that does not run adds one to the running jobs.
LEMMA AddRunning ==
    ASSUME PQTypeOK, NEW j \in Jobs, j \notin running
    PROVE  /\ Cardinality(running \cup {j}) = Cardinality(running) + 1
           /\ \A r \in Buckets :
                 Cardinality({k \in running \cup {j} : Bucket(k) = r})
                   = Cardinality(RunningIn(r)) + (IF Bucket(j) = r THEN 1 ELSE 0)
<1>1. IsFiniteSet(running)
  BY PQAssumption, FS_Subset DEF PQTypeOK
<1>2. Cardinality(running \cup {j}) = Cardinality(running) + 1
  BY <1>1, FS_AddElement
<1>3. ASSUME NEW r \in Buckets
      PROVE  Cardinality({k \in running \cup {j} : Bucket(k) = r})
               = Cardinality(RunningIn(r)) + (IF Bucket(j) = r THEN 1 ELSE 0)
  <2>1. IsFiniteSet(RunningIn(r)) /\ Cardinality(RunningIn(r)) \in Nat
    <3>1. RunningIn(r) \subseteq running
      BY DEF RunningIn
    <3> QED BY <1>1, <3>1, FS_Subset, FS_CardinalityType
  <2>2. CASE Bucket(j) = r
    <3>1. {k \in running \cup {j} : Bucket(k) = r} = RunningIn(r) \cup {j}
      BY <2>2 DEF RunningIn
    <3>2. j \notin RunningIn(r)
      BY DEF RunningIn
    <3>3. Cardinality(RunningIn(r) \cup {j}) = Cardinality(RunningIn(r)) + 1
      BY <2>1, <3>2, FS_AddElement
    <3> QED BY <2>2, <3>1, <3>3
  <2>3. CASE Bucket(j) # r
    <3>1. {k \in running \cup {j} : Bucket(k) = r} = RunningIn(r)
      BY <2>3 DEF RunningIn
    <3> QED BY <2>1, <2>3, <3>1
  <2> QED BY <2>2, <2>3
<1> QED BY <1>2, <1>3

\* Ending a running job takes one from the running jobs.
LEMMA RemoveRunning ==
    ASSUME PQTypeOK, NEW j \in running
    PROVE  /\ Cardinality(running \ {j}) = Cardinality(running) - 1
           /\ Cardinality(running) \in Nat
           /\ \A r \in Buckets :
                 /\ Cardinality(RunningIn(r)) \in Nat
                 /\ Bucket(j) = r => Cardinality(RunningIn(r)) > 0
                 /\ Cardinality({k \in running \ {j} : Bucket(k) = r})
                      = Cardinality(RunningIn(r)) - (IF Bucket(j) = r THEN 1 ELSE 0)
<1>1. IsFiniteSet(running) /\ Cardinality(running) \in Nat
  BY PQAssumption, FS_Subset, FS_CardinalityType DEF PQTypeOK
<1>2. Cardinality(running \ {j}) = Cardinality(running) - 1
  BY <1>1, FS_RemoveElement
<1>3. ASSUME NEW r \in Buckets
      PROVE  /\ Cardinality(RunningIn(r)) \in Nat
             /\ Bucket(j) = r => Cardinality(RunningIn(r)) > 0
             /\ Cardinality({k \in running \ {j} : Bucket(k) = r})
                  = Cardinality(RunningIn(r)) - (IF Bucket(j) = r THEN 1 ELSE 0)
  <2>1. IsFiniteSet(RunningIn(r)) /\ Cardinality(RunningIn(r)) \in Nat
    <3>1. RunningIn(r) \subseteq running
      BY DEF RunningIn
    <3> QED BY <1>1, <3>1, FS_Subset, FS_CardinalityType
  <2>2. CASE Bucket(j) = r
    <3>1. {k \in running \ {j} : Bucket(k) = r} = RunningIn(r) \ {j}
      BY <2>2 DEF RunningIn
    <3>2. j \in RunningIn(r)
      BY <2>2 DEF RunningIn
    <3>3. Cardinality(RunningIn(r) \ {j}) = Cardinality(RunningIn(r)) - 1
      BY <2>1, <3>2, FS_RemoveElement
    <3>4. Cardinality(RunningIn(r)) # 0
      BY <2>1, <3>2, FS_EmptySet
    <3> QED BY <2>1, <2>2, <3>1, <3>3, <3>4
  <2>3. CASE Bucket(j) # r
    <3>1. {k \in running \ {j} : Bucket(k) = r} = RunningIn(r)
      BY <2>3 DEF RunningIn
    <3> QED BY <2>1, <2>3, <3>1
  <2> QED BY <2>2, <2>3
<1> QED BY <1>1, <1>2, <1>3

\* The queue starts empty.
LEMMA PQInitInv == PQInit => PQInv
<1> SUFFICES ASSUME PQInit PROVE PQInv
  OBVIOUS
<1> USE DEF PQInit
<1>1. PQTypeOK
  <2>1. queues \in [Buckets -> Seq(Jobs)]
    OBVIOUS
  <2>2. active \in [Buckets -> Nat] /\ idle \in Nat
    OBVIOUS
  <2>3. limits \in [Buckets -> Nat \ {0}]
    BY PQAssumption
  <2>4. future \in [Jobs -> {"none", "pending", "result", "error"}]
    OBVIOUS
  <2> QED BY <2>1, <2>2, <2>3, <2>4 DEF PQTypeOK
<1>2. InOwnBucket
  BY DEF InOwnBucket
<1>3. PendingAccounted
  BY BucketType DEF PendingAccounted, Queued
<1>4. Cardinality({}) = 0
  BY FS_EmptySet
<1>5. ActiveCountsRunning
  <2>1. \A r \in Buckets : RunningIn(r) = {}
    BY DEF RunningIn
  <2> QED BY <1>4, <2>1 DEF ActiveCountsRunning
<1>6. ActiveTotal
  BY <1>4 DEF ActiveTotal, TotalActive, Buckets
<1>7. WorkersCover
  BY DEF WorkersCover
<1> QED BY <1>1, <1>2, <1>3, <1>5, <1>6, <1>7 DEF PQInv

\* Actions that leave the queues, the running jobs and the futures alone.
LEMMA UnchangedJobs ==
    ASSUME PQInv, UNCHANGED <<active, queues, running, future, stranded>>
    PROVE  InOwnBucket' /\ PendingAccounted' /\ ActiveCountsRunning' /\ ActiveTotal'
<1> USE DEF PQInv
<1>1. InOwnBucket'
  BY DEF InOwnBucket
<1>2. PendingAccounted'
  BY DEF PendingAccounted, Queued
<1>3. ActiveCountsRunning'
  BY DEF ActiveCountsRunning, RunningIn
<1>4. ActiveTotal'
  BY DEF ActiveTotal, TotalActive
<1> QED BY <1>1, <1>2, <1>3, <1>4

LEMMA EnqueueInv ==
    ASSUME PQInv, NEW j \in Jobs, Enqueue(j)
    PROVE  PQInv'
<1> DEFINE b == Bucket(j)
<1> DEFINE q == queues[b]
<1>1. b \in Buckets /\ q \in Seq(Jobs)
  BY BucketType DEF PQInv, PQTypeOK
<1>2. queues' = [queues EXCEPT ![b] = Append(q, j)]
  BY DEF Enqueue
<1>3. queues'[b] = Append(q, j) /\ \A r \in Buckets \ {b} : queues'[r] = queues[r]
  BY <1>1, <1>2 DEF PQInv, PQTypeOK
<1>4. UNCHANGED <<started, limits, active, idle, running, stranded>>
  BY DEF Enqueue
<1>5. PQTypeOK'
  <2>1. queues' \in [Buckets -> Seq(Jobs)]
    BY <1>1, <1>2, AppendFacts DEF PQInv, PQTypeOK
  <2>2. future' \in [Jobs -> {"none", "pending", "result", "error"}]
    BY DEF Enqueue, PQInv, PQTypeOK
  <2> QED BY <1>4, <2>1, <2>2 DEF PQInv, PQTypeOK
<1> HIDE DEF b, q
<1>6. /\ DOMAIN q = 1..Len(q) /\ Len(q) \in Nat
      /\ DOMAIN queues'[b] = 1..(Len(q) + 1)
      /\ queues'[b][Len(q) + 1] = j
      /\ \A i \in 1..Len(q) : queues'[b][i] = q[i]
  BY <1>1, <1>3, AppendFacts
<1>7. InOwnBucket'
  <2> SUFFICES ASSUME NEW r \in Buckets, NEW i \in DOMAIN queues'[r]
               PROVE  Bucket(queues'[r][i]) = r
    BY DEF InOwnBucket, Bucket
  <2>1. CASE r = b
    <3>1. CASE i = Len(q) + 1
      BY <2>1, <3>1, <1>6 DEF b
    <3>2. CASE i # Len(q) + 1
      BY <2>1, <3>2, <1>1, <1>6 DEF PQInv, InOwnBucket, q
    <3> QED BY <3>1, <3>2
  <2>2. CASE r # b
    BY <2>2, <1>3 DEF PQInv, InOwnBucket
  <2> QED BY <2>1, <2>2
<1>8. PendingAccounted'
  <2>1. ~Queued(j) /\ j \notin running /\ j \notin stranded /\ future[j] # "pending"
    BY DEF Enqueue, PQInv, PendingAccounted
  <2>2. \A i \in 1..Len(q) : q[i] # j
    BY <1>6, <2>1 DEF Queued, q, b
  <2> SUFFICES ASSUME NEW k \in Jobs
               PROVE  /\ future'[k] = "pending" <=> Queued(k)' \/ k \in running \/ k \in stranded
                      /\ Queued(k)' => k \notin running /\ k \notin stranded
                      /\ k \in running => k \notin stranded
                      /\ \A i, l \in DOMAIN queues'[Bucket(k)] :
                            queues'[Bucket(k)][i] = k /\ queues'[Bucket(k)][l] = k => i = l
    BY <1>4 DEF PendingAccounted, Bucket
  <2>3. CASE k = j
    <3>1. Queued(k)'
      BY <2>3, <1>6 DEF Queued, Bucket, b
    <3>2. future'[k] = "pending"
      BY <2>3 DEF Enqueue, PQInv, PQTypeOK
    <3>3. \A i \in DOMAIN queues'[b] : queues'[b][i] = k => i = Len(q) + 1
      BY <2>2, <2>3, <1>6
    <3> QED BY <2>1, <2>3, <3>1, <3>2, <3>3 DEF b
  <2>4. CASE k # j
    <3>1. future'[k] = future[k]
      BY <2>4 DEF Enqueue, PQInv, PQTypeOK
    <3>2. CASE Bucket(k) = b
      <4>1. Queued(k)' <=> Queued(k)
        BY <3>2, <2>4, <1>6, SMTT(30) DEF Queued, Bucket, q
      <4>2. \A i, l \in DOMAIN q : q[i] = k /\ q[l] = k => i = l
        BY <3>2 DEF PQInv, PendingAccounted, q
      <4>3. \A i \in DOMAIN queues'[b] : queues'[b][i] = k => i \in DOMAIN q /\ q[i] = k
        BY <2>4, <1>6
      <4> QED BY <3>1, <3>2, <4>1, <4>2, <4>3 DEF PQInv, PendingAccounted
    <3>3. CASE Bucket(k) # b
      <4>1. Bucket(k) \in Buckets /\ queues'[Bucket(k)] = queues[Bucket(k)]
        BY <3>3, <1>3, BucketType
      <4>2. Queued(k)' <=> Queued(k)
        BY <4>1 DEF Queued, Bucket
      <4> QED BY <3>1, <4>1, <4>2 DEF PQInv, PendingAccounted
    <3> QED BY <3>2, <3>3
  <2> QED BY <2>3, <2>4
<1>9. ActiveCountsRunning' /\ ActiveTotal' /\ WorkersCover'
  BY <1>4 DEF PQInv, ActiveCountsRunning, RunningIn, Bucket, ActiveTotal, TotalActive,
              WorkersCover, Live, Capacity
<1> QED BY <1>5, <1>7, <1>8, <1>9 DEF PQInv

LEMMA PickInv ==
    ASSUME PQInv, NEW r \in Buckets, Pick(r)
    PROVE  PQInv'
<1> DEFINE q == queues[r]
<1> DEFINE h == Head(q)
<1>1. q \in Seq(Jobs) /\ q # <<>>
  BY DEF PQInv, PQTypeOK, Pick, Reserved, Spill, OwnSlot, HasWork
<1>2. /\ queues' = [queues EXCEPT ![r] = Tail(q)]
      /\ running' = running \cup {h}
      /\ active' = [active EXCEPT ![r] = @ + 1]
      /\ idle' = idle - 1 /\ idle > 0
      /\ UNCHANGED <<started, limits, future, stranded>>
  BY DEF Pick
<1>3. queues'[r] = Tail(q) /\ \A s \in Buckets \ {r} : queues'[s] = queues[s]
  BY <1>2 DEF PQInv, PQTypeOK
<1>4. /\ Tail(q) \in Seq(Jobs)
      /\ Len(q) \in Nat \ {0}
      /\ DOMAIN q = 1..Len(q)
      /\ h = q[1] /\ h \in Jobs
      /\ DOMAIN Tail(q) = 1..(Len(q) - 1)
      /\ \A i \in 1..(Len(q) - 1) : Tail(q)[i] = q[i + 1]
  BY <1>1, TailFacts
<1>5. PQTypeOK'
  <2>1. queues' \in [Buckets -> Seq(Jobs)]
    BY <1>2, <1>4 DEF PQInv, PQTypeOK
  <2>2. active' \in [Buckets -> Nat] /\ idle' \in Nat
    BY <1>2 DEF PQInv, PQTypeOK
  <2>3. running' \subseteq Jobs
    BY <1>2, <1>4 DEF PQInv, PQTypeOK
  <2> QED BY <1>2, <2>1, <2>2, <2>3 DEF PQInv, PQTypeOK
<1>6. Bucket(h) = r
  BY <1>4 DEF PQInv, InOwnBucket
<1>7. Queued(h) /\ h \notin running /\ h \notin stranded
  BY <1>4, <1>6 DEF PQInv, PendingAccounted, Queued
<1> HIDE DEF q, h
<1>8. InOwnBucket'
  <2> SUFFICES ASSUME NEW s \in Buckets, NEW i \in DOMAIN queues'[s]
               PROVE  Bucket(queues'[s][i]) = s
    BY DEF InOwnBucket, Bucket
  <2>1. CASE s = r
    <3>1. i + 1 \in DOMAIN q /\ queues'[s][i] = q[i + 1]
      BY <2>1, <1>3, <1>4
    <3> QED BY <2>1, <3>1 DEF PQInv, InOwnBucket, q
  <2>2. CASE s # r
    BY <2>2, <1>3 DEF PQInv, InOwnBucket
  <2> QED BY <2>1, <2>2
<1>9. PendingAccounted'
  <2> SUFFICES ASSUME NEW k \in Jobs
               PROVE  /\ future[k] = "pending" <=> Queued(k)' \/ k \in running' \/ k \in stranded
                      /\ Queued(k)' => k \notin running' /\ k \notin stranded
                      /\ k \in running' => k \notin stranded
                      /\ \A i, l \in DOMAIN queues'[Bucket(k)] :
                            queues'[Bucket(k)][i] = k /\ queues'[Bucket(k)][l] = k => i = l
    BY <1>2 DEF PendingAccounted, Bucket
  <2>1. CASE Bucket(k) # r
    <3>1. Bucket(k) \in Buckets /\ queues'[Bucket(k)] = queues[Bucket(k)]
      BY <2>1, <1>3, BucketType
    <3>2. Queued(k)' <=> Queued(k)
      BY <3>1 DEF Queued, Bucket
    <3>3. k \in running' <=> k \in running
      BY <2>1, <1>2, <1>6
    <3> QED BY <3>1, <3>2, <3>3 DEF PQInv, PendingAccounted
  <2>2. CASE Bucket(k) = r
    <3>1. \A i, l \in DOMAIN q : q[i] = k /\ q[l] = k => i = l
      BY <2>2 DEF PQInv, PendingAccounted, q
    <3>2. \A i \in DOMAIN Tail(q) : i + 1 \in DOMAIN q /\ Tail(q)[i] = q[i + 1]
      BY <1>4
    <3>3. \A i, l \in DOMAIN Tail(q) : Tail(q)[i] = k /\ Tail(q)[l] = k => i = l
      <4> SUFFICES ASSUME NEW i \in DOMAIN Tail(q), NEW l \in DOMAIN Tail(q),
                          Tail(q)[i] = k, Tail(q)[l] = k
                   PROVE  i = l
        OBVIOUS
      <4>1. i + 1 = l + 1
        BY <3>1, <3>2
      <4> QED BY <4>1, <1>4
    <3>4. CASE k = h
      <4>1. ~Queued(k)'
        <5> SUFFICES ASSUME NEW i \in DOMAIN Tail(q), Tail(q)[i] = k PROVE FALSE
          BY <2>2, <1>3 DEF Queued, Bucket
        <5>1. i + 1 = 1
          BY <3>1, <3>2, <3>4, <1>4
        <5> QED BY <5>1, <1>4
      <4>2. future[k] = "pending" /\ k \in running' /\ k \notin stranded
        BY <3>4, <1>2, <1>7 DEF PQInv, PendingAccounted
      <4> QED BY <2>2, <1>3, <3>3, <4>1, <4>2
    <3>5. CASE k # h
      <4>1. Queued(k) => Queued(k)'
        <5> SUFFICES ASSUME NEW i \in DOMAIN q, q[i] = k
                     PROVE  \E l \in DOMAIN Tail(q) : Tail(q)[l] = k
          BY <2>2, <1>3 DEF Queued, Bucket, q
        <5>1. i # 1 /\ i \in 1..Len(q)
          BY <3>5, <1>4
        <5>2. i - 1 \in DOMAIN Tail(q) /\ Tail(q)[i - 1] = q[(i - 1) + 1]
          BY <5>1, <1>4
        <5>3. (i - 1) + 1 = i
          BY <5>1, <1>4
        <5> QED BY <5>2, <5>3
      <4>2. Queued(k)' => Queued(k)
        <5> SUFFICES ASSUME NEW i \in DOMAIN Tail(q), Tail(q)[i] = k
                     PROVE  \E l \in DOMAIN q : q[l] = k
          BY <2>2, <1>3 DEF Queued, Bucket, q
        <5> QED BY <3>2
      <4>3. k \in running' <=> k \in running
        BY <3>5, <1>2
      <4> QED BY <2>2, <1>3, <3>3, <4>1, <4>2, <4>3 DEF PQInv, PendingAccounted
    <3> QED BY <3>4, <3>5
  <2> QED BY <2>1, <2>2
<1>10. /\ Cardinality(running') = Cardinality(running) + 1
       /\ \A s \in Buckets : Cardinality({k \in running' : Bucket(k) = s})
                                 = Cardinality(RunningIn(s)) + (IF r = s THEN 1 ELSE 0)
  BY <1>2, <1>4, <1>6, <1>7, AddRunning DEF PQInv
<1>11. ActiveCountsRunning'
  <2> SUFFICES ASSUME NEW s \in Buckets
               PROVE  active'[s] = Cardinality({k \in running' : Bucket(k) = s})
    BY DEF ActiveCountsRunning, RunningIn, Bucket
  <2>1. active[s] = Cardinality(RunningIn(s)) /\ active[s] \in Nat
    BY DEF PQInv, ActiveCountsRunning, PQTypeOK
  <2>2. active'[s] = active[s] + (IF r = s THEN 1 ELSE 0)
    BY <1>2, <2>1 DEF PQInv, PQTypeOK
  <2> QED BY <1>10, <2>1, <2>2
<1>12. Cardinality(running) \in Nat
  BY PQAssumption, FS_Subset, FS_CardinalityType DEF PQInv, PQTypeOK
<1>13. ActiveTotal'
  <2>1. TotalActive' = TotalActive + 1
    BY <1>2 DEF TotalActive, PQInv, PQTypeOK, Buckets
  <2> QED BY <1>10, <1>12, <2>1 DEF ActiveTotal, PQInv
<1>14. WorkersCover'
  <2>1. Live' = Live
    BY <1>2, <1>10, <1>12 DEF Live, PQInv, PQTypeOK
  <2> QED BY <1>2, <2>1 DEF PQInv, WorkersCover, Capacity
<1> QED BY <1>5, <1>8, <1>9, <1>11, <1>13, <1>14 DEF PQInv

\* The end of a job, whatever becomes of its future and of its worker: the
\* queues stay, the slot of its bucket is released.
LEMMA EndOfJob ==
    ASSUME PQInv, NEW j \in running,
           running' = running \ {j}, Release(Bucket(j)), UNCHANGED queues
    PROVE  /\ running' \subseteq Jobs
           /\ active' \in [Buckets -> Nat]
           /\ Cardinality(running') = Cardinality(running) - 1
           /\ Cardinality(running) \in Nat
           /\ InOwnBucket'
           /\ ActiveCountsRunning'
           /\ ActiveTotal'
           /\ ~Queued(j)'
           /\ \A k \in Jobs : Queued(k)' <=> Queued(k)
<1> DEFINE b == Bucket(j)
<1>1. j \in Jobs /\ b \in Buckets /\ Release(b)
  BY BucketType DEF PQInv, PQTypeOK
<1>2. /\ Cardinality(running') = Cardinality(running) - 1
      /\ Cardinality(running) \in Nat
      /\ \A r \in Buckets :
            /\ Cardinality(RunningIn(r)) \in Nat
            /\ b = r => Cardinality(RunningIn(r)) > 0
            /\ Cardinality({k \in running' : Bucket(k) = r})
                  = Cardinality(RunningIn(r)) - (IF b = r THEN 1 ELSE 0)
  BY RemoveRunning DEF PQInv
<1>3. \A r \in Buckets : active[r] = Cardinality(RunningIn(r))
  BY DEF PQInv, ActiveCountsRunning
<1>4. active[b] \in Nat \ {0}
  <2>1. active[b] = Cardinality(RunningIn(b))
    BY <1>1, <1>3
  <2>2. Cardinality(RunningIn(b)) \in Nat /\ Cardinality(RunningIn(b)) > 0
    BY <1>1, <1>2
  <2> QED BY <2>1, <2>2
<1>5. active' = [active EXCEPT ![b] = active[b] - 1]
  <2>1. active[b] > 0
    BY <1>4
  <2> HIDE DEF b
  <2> QED BY <1>1, <2>1 DEF Release
<1>6. active' \in [Buckets -> Nat]
  BY <1>1, <1>4, <1>5 DEF PQInv, PQTypeOK
<1>7. ActiveCountsRunning'
  <2> SUFFICES ASSUME NEW r \in Buckets
               PROVE  active'[r] = Cardinality({k \in running' : Bucket(k) = r})
    BY DEF ActiveCountsRunning, RunningIn, Bucket
  <2>1. active'[r] = active[r] - (IF b = r THEN 1 ELSE 0)
    BY <1>1, <1>5 DEF PQInv, PQTypeOK
  <2> QED BY <1>2, <1>3, <2>1
<1>8. ActiveTotal'
  <2>1. TotalActive' = TotalActive - 1
    BY <1>1, <1>5 DEF TotalActive, PQInv, PQTypeOK, Buckets
  <2> QED BY <1>2, <2>1 DEF ActiveTotal, PQInv
<1>9. InOwnBucket'
  BY DEF InOwnBucket, PQInv, Bucket
<1>10. \A k \in Jobs : Queued(k)' <=> Queued(k)
  BY DEF Queued, Bucket
<1>11. ~Queued(j)'
  BY <1>1, <1>10 DEF PQInv, PendingAccounted
<1> QED BY <1>1, <1>2, <1>6, <1>7, <1>8, <1>9, <1>10, <1>11 DEF PQInv, PQTypeOK

LEMMA FinishInv ==
    ASSUME PQInv, NEW j \in Jobs, NEW outcome \in {"result", "error"}, Finish(j, outcome)
    PROVE  PQInv'
<1>1. /\ j \in running
      /\ running' = running \ {j}
      /\ future' = [future EXCEPT ![j] = outcome]
      /\ idle' = idle + 1
      /\ Release(Bucket(j))
      /\ UNCHANGED <<started, limits, queues, stranded>>
  BY DEF Finish
<1>2. /\ running' \subseteq Jobs
      /\ active' \in [Buckets -> Nat]
      /\ Cardinality(running') = Cardinality(running) - 1
      /\ Cardinality(running) \in Nat
      /\ InOwnBucket' /\ ActiveCountsRunning' /\ ActiveTotal'
      /\ ~Queued(j)'
      /\ \A k \in Jobs : Queued(k)' <=> Queued(k)
  BY <1>1, EndOfJob
<1>3. PQTypeOK'
  BY <1>1, <1>2 DEF PQInv, PQTypeOK
<1>4. PendingAccounted'
  <2> SUFFICES ASSUME NEW k \in Jobs
               PROVE  /\ future'[k] = "pending" <=> Queued(k)' \/ k \in running' \/ k \in stranded
                      /\ Queued(k)' => k \notin running' /\ k \notin stranded
                      /\ k \in running' => k \notin stranded
                      /\ \A i, l \in DOMAIN queues[Bucket(k)] :
                            queues[Bucket(k)][i] = k /\ queues[Bucket(k)][l] = k => i = l
    BY <1>1 DEF PendingAccounted, Bucket
  <2>1. CASE k = j
    <3>1. future'[k] = outcome
      BY <2>1, <1>1 DEF PQInv, PQTypeOK
    <3>2. k \notin stranded
      BY <2>1, <1>1 DEF PQInv, PendingAccounted
    <3> QED BY <2>1, <1>1, <1>2, <3>1, <3>2 DEF PQInv, PendingAccounted
  <2>2. CASE k # j
    <3>1. future'[k] = future[k] /\ (k \in running' <=> k \in running)
      BY <2>2, <1>1 DEF PQInv, PQTypeOK
    <3> QED BY <1>2, <3>1 DEF PQInv, PendingAccounted
  <2> QED BY <2>1, <2>2
<1>5. WorkersCover'
  <2>1. Live' = Live
    BY <1>1, <1>2 DEF Live, PQInv, PQTypeOK
  <2> QED BY <1>1, <2>1 DEF PQInv, WorkersCover, Capacity
<1> QED BY <1>2, <1>3, <1>4, <1>5 DEF PQInv

LEMMA CancelledInv ==
    ASSUME PQInv, NEW j \in Jobs, JobCancelled(j)
    PROVE  PQInv'
<1>1. /\ j \in running
      /\ running' = running \ {j}
      /\ stranded' = stranded \cup {j}
      /\ Release(Bucket(j))
      /\ UNCHANGED <<started, limits, queues, idle, future>>
  BY DEF JobCancelled
<1>2. /\ running' \subseteq Jobs
      /\ active' \in [Buckets -> Nat]
      /\ InOwnBucket' /\ ActiveCountsRunning' /\ ActiveTotal'
      /\ ~Queued(j)'
      /\ \A k \in Jobs : Queued(k)' <=> Queued(k)
  BY <1>1, EndOfJob
<1>3. PQTypeOK'
  BY <1>1, <1>2 DEF PQInv, PQTypeOK
<1>4. PendingAccounted'
  <2> SUFFICES ASSUME NEW k \in Jobs
               PROVE  /\ future[k] = "pending" <=> Queued(k)' \/ k \in running' \/ k \in stranded'
                      /\ Queued(k)' => k \notin running' /\ k \notin stranded'
                      /\ k \in running' => k \notin stranded'
                      /\ \A i, l \in DOMAIN queues[Bucket(k)] :
                            queues[Bucket(k)][i] = k /\ queues[Bucket(k)][l] = k => i = l
    BY <1>1 DEF PendingAccounted, Bucket
  <2> QED BY <1>1, <1>2 DEF PQInv, PendingAccounted
<1>5. WorkersCover'
  BY <1>1 DEF WorkersCover
<1> QED BY <1>2, <1>3, <1>4, <1>5 DEF PQInv

\* Starting the queue and changing a limit touch only the workers.
LEMMA WorkersInv ==
    ASSUME PQInv, NEW newLimits \in [Buckets -> Nat \ {0}],
           NEW newStarted \in BOOLEAN, started => newStarted,
           limits' = newLimits, started' = newStarted,
           idle' = IF newStarted THEN TopUp(Capacity') ELSE idle,
           UNCHANGED <<active, queues, running, future, stranded>>
    PROVE  PQInv'
<1>1. Cardinality(running) \in Nat /\ Cardinality(running)' = Cardinality(running)
  BY PQAssumption, FS_Subset, FS_CardinalityType DEF PQInv, PQTypeOK
<1>2. Capacity' \in Nat
  BY DEF Capacity, Buckets
<1>3. idle' \in Nat
  BY <1>1, <1>2 DEF PQInv, PQTypeOK, TopUp, Live
<1>4. PQTypeOK'
  BY <1>3 DEF PQInv, PQTypeOK
<1>5. WorkersCover'
  BY <1>1, <1>2 DEF PQInv, PQTypeOK, TopUp, Live, WorkersCover
<1>6. InOwnBucket' /\ PendingAccounted' /\ ActiveCountsRunning' /\ ActiveTotal'
  BY UnchangedJobs
<1> QED BY <1>4, <1>5, <1>6 DEF PQInv

\* Every step of the queue preserves the inductive invariant.
LEMMA PQStepInv == PQInv /\ [PQNext]_pqVars => PQInv'
<1> SUFFICES ASSUME PQInv, [PQNext]_pqVars PROVE PQInv'
  OBVIOUS
<1>1. CASE Start
  <2>1. limits \in [Buckets -> Nat \ {0}] /\ Capacity' = Capacity
    BY <1>1 DEF Start, PQInv, PQTypeOK, Capacity
  <2>2. /\ limits' = limits /\ started' = TRUE
        /\ idle' = IF TRUE THEN TopUp(Capacity') ELSE idle
        /\ UNCHANGED <<active, queues, running, future, stranded>>
    BY <1>1, <2>1 DEF Start
  <2> QED BY <2>1, <2>2, WorkersInv
<1>2. ASSUME NEW j \in Jobs, Enqueue(j) PROVE PQInv'
  BY <1>2, EnqueueInv
<1>3. ASSUME NEW r \in Buckets, NEW n \in LimitChoices, SetLimit(r, n) PROVE PQInv'
  <2>1. [limits EXCEPT ![r] = n] \in [Buckets -> Nat \ {0}]
    BY PQAssumption DEF PQInv, PQTypeOK
  <2>2. Capacity' = Capacity - limits[r] + n
    BY <1>3, <2>1, PQAssumption DEF SetLimit, PQInv, PQTypeOK, Capacity, Buckets
  <2>3. /\ limits' = [limits EXCEPT ![r] = n] /\ started' = started
        /\ idle' = IF started THEN TopUp(Capacity') ELSE idle
        /\ UNCHANGED <<active, queues, running, future, stranded>>
    BY <1>3, <2>2 DEF SetLimit
  <2>4. started \in BOOLEAN
    BY DEF PQInv, PQTypeOK
  <2> QED BY <2>1, <2>3, <2>4, WorkersInv
<1>4. ASSUME NEW r \in Buckets, Pick(r) PROVE PQInv'
  BY <1>4, PickInv
<1>5. ASSUME NEW j \in Jobs, JobReturns(j) PROVE PQInv'
  BY <1>5, FinishInv DEF JobReturns
<1>6. ASSUME NEW j \in Jobs, JobFails(j) PROVE PQInv'
  BY <1>6, FinishInv DEF JobFails
<1>7. ASSUME NEW j \in Jobs, JobCancelled(j) PROVE PQInv'
  BY <1>7, CancelledInv
<1>8. CASE UNCHANGED pqVars
  <2>1. InOwnBucket' /\ PendingAccounted' /\ ActiveCountsRunning' /\ ActiveTotal'
    BY <1>8, UnchangedJobs DEF pqVars
  <2>2. PQTypeOK' /\ WorkersCover'
    BY <1>8 DEF pqVars, PQInv, PQTypeOK, WorkersCover, Live, Capacity
  <2> QED BY <2>1, <2>2 DEF PQInv
<1> QED BY <1>1, <1>2, <1>3, <1>4, <1>5, <1>6, <1>7, <1>8 DEF PQNext

\* The invariant holds in every reachable state.
THEOREM PQInvariance == PQSpec => []PQInv
BY PQInitInv, PQStepInv, PTL DEF PQSpec

\* _active, _queues and the futures keep their shape, whatever the number of
\* jobs and however the limits change.
THEOREM PQTypeCorrect == PQSpec => []PQTypeOK
<1>1. PQInv => PQTypeOK
  BY DEF PQInv
<1> QED BY <1>1, PQInvariance, PTL

\* The per-role slot counters never leak, no awaited job is lost or run twice, except one
\* that ended in CancelledError, and until then free slots with queued work have a worker.
THEOREM PoolIsSound == PQSpec => []PoolSound
<1>1. PQInv => IdleSlotHasWorker
  <2> SUFFICES ASSUME PQInv, stranded = {}, started, TotalActive < Capacity
               PROVE  idle > 0
    BY DEF IdleSlotHasWorker
  <2>1. idle + Cardinality(running) >= Capacity /\ TotalActive = Cardinality(running)
    BY DEF PQInv, WorkersCover, Live, ActiveTotal
  <2>2. Cardinality(running) \in Nat /\ idle \in Nat /\ Capacity \in Nat
    BY PQAssumption, FS_Subset, FS_CardinalityType
       DEF PQInv, PQTypeOK, Capacity, Buckets
  <2> QED BY <2>1, <2>2
<1>2. PQInv => PoolSound
  BY <1>1 DEF PQInv, PoolSound
<1> QED BY <1>2, PQInvariance, PTL
=============================================================================
