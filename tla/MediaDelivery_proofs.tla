------------------------ MODULE MediaDelivery_proofs ------------------------
(***************************************************************************)
(* Safety of the delivery of media for any number of jobs, posts, parts,   *)
(* sessions, floods, lost answers and /stop commands: each piece once, the *)
(* truth about it, at most one piece after /stop, and pauses for the       *)
(* sessions that flooded.                                                  *)
(***************************************************************************)
EXTENDS MediaDelivery, TLAPS

-----------------------------------------------------------------------------
(* The inductive invariant.                                                *)

\* Places from which a post reaches the user as a whole, if it does.
WholeWay == {"text", "plain", "direct", "managed", "select", "create", "createOwn", "upload",
             "copy", "recreate", "own", "ask", "skip", "poll", "pollCreate"}

\* A job that is at work on a post has one.
AtPost(j) == pc[j] \notin {"head", "done"} => at[j] <= Len(req[j].posts)

\* A piece that came late is the one the job is still busy with, or the job will look
\* at the flag before it sends another; and it is the only one.
LateFits(j) ==
    \A p \in Posts, k \in Pieces : <<j, p, k>> \in late =>
        /\ flag[j] /\ got[j][<<p, k>>] > 0
        /\ pc[j] \in WholeWay => p = at[j] /\ k = 0
        /\ pc[j] = "partCopy" => p = at[j] /\ k = part[j]

OneLate(j) ==
    \A p, q \in Posts, k, l \in Pieces :
        <<j, p, k>> \in late /\ <<j, q, l>> \in late => p = q /\ k = l

\* How often a piece may have come although the post is not through.
Spare(j, p) == IF <<j, p>> \in lost THEN 1 ELSE 0

\* Posts to come have not been touched.
Ahead(j) ==
    \A p \in Posts : p > at[j] =>
        <<j, p>> \notin lost /\ \A k \in Pieces : got[j][<<p, k>>] = 0

\* Before and on the way of a whole post nothing has come, unless an answer was lost.
Open(j) == \/ pc[j] \in WholeWay \cup {"head", "fetch", "download", "ready", "split"}
           \/ pc[j] = "flood" /\ Private(j)

NoneCame(j) == /\ got[j][<<at[j], 0>>] <= Spare(j, at[j])
               /\ \A k \in PartNos : got[j][<<at[j], k>>] = 0

OpenFits(j) == Open(j) /\ at[j] \in Posts => NoneCame(j)

\* Among the parts, those before the one under way have come, and no other.
PartWay == {"part", "send", "partCopy"}

SomeCame(j) ==
    /\ part[j] \in cut[j] /\ (cut[j] = PartNos \/ <<j, at[j]>> \in torn)
    /\ got[j][<<at[j], 0>>] <= Spare(j, at[j])
    /\ \A k \in PartNos : /\ k < part[j] /\ k \in cut[j] => got[j][<<at[j], k>>] > 0
                          /\ k >= part[j] => got[j][<<at[j], k>>] <= Spare(j, at[j])

PartsFit(j) == pc[j] \in PartWay => SomeCame(j)

\* What a post comes to is true.
EndFits(j) ==
    /\ pc[j] = "true" /\ ~req[j].override => Whole(j, at[j]) \/ <<j, at[j]>> \in torn
    /\ pc[j] = "false" /\ <<j, at[j]>> \notin lost => ~Whole(j, at[j])

\* A post that has been counted is behind the job.
Counted(j) == \A p \in processed[j] \cup failed[j] : p < at[j] \/ pc[j] = "done"

\* EachOnce and CountedRight, of one job.
Once(j) ==
    \A p \in Posts :
        /\ \A k \in Pieces : got[j][<<p, k>>] <= 1 + Spare(j, p)
        /\ <<j, p>> \notin lost =>
               got[j][<<p, 0>>] = 0 \/ \A k \in PartNos : got[j][<<p, k>>] = 0

Right(j) ==
    /\ ~req[j].override => \A p \in processed[j] : Whole(j, p) \/ <<j, p>> \in torn
    /\ \A p \in failed[j] : <<j, p>> \notin lost => ~Whole(j, p)

PostsFit(j) == /\ AtPost(j) /\ LateFits(j) /\ OneLate(j) /\ Ahead(j)
               /\ OpenFits(j) /\ PartsFit(j) /\ EndFits(j)
               /\ Counted(j) /\ Once(j) /\ Right(j)

\* Who holds an index holds a session of the pool, as it is or as it was.
Borrowed(j) ==
    /\ pc[j] \in {"recreate", "pollCreate"} => route[j] # None
    /\ route[j] # None => /\ cand[j] \in Sessions
                          /\ pc[j] \in {"upload", "recreate"} => worker[j] \in Sessions

\* Only a user who downloads with another account uploads with it.
OwnAccount(j) == ~req[j].override => worker[j] # "download" /\ cand[j] # "download"

\* While the pool is the first one, an index stands for the session it was borrowed
\* with; when the worker is another's, the session has been found guilty.
RouteFits(j) ==
    reloads = 0 /\ route[j] # None =>
        /\ route[j] \in DOMAIN pool /\ cand[j] = pool[route[j]]
        /\ pc[j] = "upload" => worker[j] = cand[j] \/ cand[j] \in guilty

RoutesFit(j) == Borrowed(j) /\ OwnAccount(j) /\ RouteFits(j)

IInv == /\ TypeOK
        /\ req \in Workloads
        /\ OnlyGuiltyPaused
        /\ \A j \in Jobs : RoutesFit(j)
        /\ \A j \in Jobs : PostsFit(j)
-----------------------------------------------------------------------------
(* The types, in groups.                                                   *)

PlaceTypes == /\ req \in [Jobs -> Requests] /\ pc \in [Jobs -> PCs]
              /\ at \in [Jobs -> Nat \ {0}] /\ flag \in [Jobs -> BOOLEAN]
PartTypes  == /\ part \in [Jobs -> PartNos] /\ cut \in [Jobs -> SUBSET PartNos]
              /\ tries \in [Jobs -> Nat] /\ torn \in SUBSET (Jobs \X Posts)
RouteTypes == /\ route \in [Jobs -> Nat]
              /\ cand \in [Jobs -> Accounts] /\ worker \in [Jobs -> Accounts]
TallyTypes == /\ errs \in [Jobs -> Nat] /\ processed \in [Jobs -> SUBSET Posts]
              /\ failed \in [Jobs -> SUBSET Posts] /\ deleted \in [Jobs -> SUBSET Posts]
Files      == {File, Thumb, PartThumb, Fragments} \cup PartFiles
DiskTypes  == disk \in [Jobs -> SUBSET Files]
PieceTypes == /\ got \in [Jobs -> [Posts \X Pieces -> Nat]]
              /\ lost \in SUBSET (Jobs \X Posts) /\ late \subseteq Jobs \X Posts \X Pieces
              /\ foreign \subseteq Jobs

Types == /\ PoolTypeOK /\ PlaceTypes /\ PartTypes /\ RouteTypes /\ TallyTypes /\ DiskTypes
         /\ PieceTypes /\ floods \in Nat

-----------------------------------------------------------------------------
(* What the steps of a job come to, seen from the posts.                   *)

\* A step in which nothing reaches the user.
Walks(j) ==
    /\ pc[j] # "done" /\ pc' = [pc EXCEPT ![j] = pc'[j]]
    /\ UNCHANGED <<req, flag, at, cut, part, torn, processed, failed, got, lost, late>>
    /\ pc'[j] \notin {"head", "done"} =>
           pc[j] \notin {"head", "done"} \/ at[j] <= Len(req[j].posts)
    /\ pc'[j] \in WholeWay => ~flag[j] \/ pc[j] \in WholeWay
    /\ pc'[j] = "partCopy" => ~flag[j]
    /\ Open(j)' => Open(j)
    /\ pc'[j] \in PartWay => pc[j] \in PartWay
    /\ pc'[j] = "true" => req[j].override
    /\ pc'[j] = "false" => Open(j) \/ pc[j] \in PartWay

\* Piece k of the post reaches the user.
Gains(j, k) ==
    /\ \A d \in Jobs, p \in Posts, l \in Pieces :
          got'[d][<<p, l>>] = IF d = j /\ p = at[j] /\ l = k THEN got[d][<<p, l>>] + 1
                              ELSE got[d][<<p, l>>]
    /\ \A d \in Jobs, p \in Posts, l \in Pieces :
          <<d, p, l>> \in late' <=> \/ <<d, p, l>> \in late
                                   \/ /\ flag[j] /\ got[j][<<at[j], k>>] = 0
                                      /\ d = j /\ p = at[j] /\ l = k

\* The answer about it is lost.
Loses(j) == <<j, at[j]>> \notin lost /\ lost' = lost \cup {<<j, at[j]>>}

\* The post comes as a whole.
WholeComes(j) ==
    /\ pc[j] \in WholeWay /\ pc' = [pc EXCEPT ![j] = pc'[j]]
    /\ UNCHANGED <<req, flag, at, cut, part, torn, processed, failed>>
    /\ Gains(j, 0)
    /\ \/ lost' = lost /\ pc'[j] = "true"
       \/ Loses(j) /\ pc'[j] \in WholeWay \cup {"split", "false", "flood"}

\* A part comes, and the next one is taken.
PartComes(j) ==
    /\ pc[j] \in {"send", "partCopy"} /\ (pc[j] = "send" => ~flag[j])
    /\ pc' = [pc EXCEPT ![j] = pc'[j]]
    /\ UNCHANGED <<req, flag, at, cut, torn, processed, failed, lost>>
    /\ Gains(j, part[j])
    /\ \/ Rest(j, part[j]) = {} /\ pc'[j] = "true" /\ part' = part
       \/ /\ pc'[j] = "part"
          /\ \E k \in Rest(j, part[j]) : /\ \A m \in Rest(j, part[j]) : k <= m
                                        /\ part' = [part EXCEPT ![j] = k]

\* A part comes, and the answer is lost.
PartLoses(j) ==
    /\ \/ pc[j] = "send" /\ ~flag[j] /\ pc'[j] = "false"
       \/ pc[j] = "partCopy" /\ pc'[j] = "partCopy"
    /\ pc' = [pc EXCEPT ![j] = pc'[j]]
    /\ UNCHANGED <<req, flag, at, cut, part, torn, processed, failed>>
    /\ Gains(j, part[j]) /\ Loses(j)

\* The file is cut.
Cuts(j) ==
    /\ pc[j] = "split" /\ pc' = [pc EXCEPT ![j] = "part"]
    /\ UNCHANGED <<req, flag, at, processed, failed, got, lost, late>>
    /\ \E parts \in (SUBSET PartNos) \ {{}} :
          /\ cut' = [cut EXCEPT ![j] = parts]
          /\ \E k \in parts : /\ \A m \in parts : k <= m
                             /\ part' = [part EXCEPT ![j] = k]
          /\ torn' = IF parts = PartNos THEN torn ELSE torn \cup {<<j, at[j]>>}

\* The post is over.
Settles(j) ==
    /\ pc[j] \in Results
    /\ UNCHANGED <<req, flag, cut, part, torn, got, lost, late>>
    /\ \/ processed' = processed
       \/ pc[j] = "true" /\ processed' = [processed EXCEPT ![j] = @ \cup {at[j]}]
    /\ \/ failed' = failed
       \/ pc[j] = "false" /\ failed' = [failed EXCEPT ![j] = @ \cup {at[j]}]
    /\ \/ pc' = [pc EXCEPT ![j] = "done"] /\ at' = at
       \/ /\ pc' = [pc EXCEPT ![j] = "head"]
          /\ \/ Private(j) /\ pc[j] = "flood" /\ at' = at
             \/ at' = [at EXCEPT ![j] = @ + 1]

PostsStep(j) == \/ Walks(j) \/ WholeComes(j) \/ PartComes(j) \/ PartLoses(j) \/ Cuts(j)
                \/ Settles(j)

\* Seen from the pool: the other jobs hold what they held, and an index that goes out
\* of use stood for a guilty session.
RoutesStep(j) ==
    /\ \A d \in Jobs \ {j} : /\ pc'[d] = pc[d] /\ route'[d] = route[d]
                              /\ cand'[d] = cand[d] /\ worker'[d] = worker[d]
    /\ UNCHANGED <<req, pool, reloads>> /\ guilty \subseteq guilty'
    /\ RoutesFit(j)' /\ OnlyGuiltyPaused'

\* A step that leaves the pool and the routes alone.
Keeps(j) ==
    /\ UNCHANGED <<req, pool, paused, fatal, reloads, guilty, route, cand>>
    /\ pc' = [pc EXCEPT ![j] = pc'[j]]
    /\ pc'[j] \notin {"upload", "recreate", "pollCreate"}
    /\ worker' = worker \/ \E a \in {"own", Acc(j)} : worker' = [worker EXCEPT ![j] = a]

\* A step of j changes nothing of d's that the posts of d depend on.
SameView(d) ==
    /\ req' = req /\ pc'[d] = pc[d] /\ at'[d] = at[d] /\ cut'[d] = cut[d] /\ part'[d] = part[d]
    /\ processed'[d] = processed[d] /\ failed'[d] = failed[d]
    /\ flag[d] => flag'[d]
    /\ \A p \in Posts : /\ <<d, p>> \in lost' <=> <<d, p>> \in lost
                        /\ <<d, p>> \in torn' <=> <<d, p>> \in torn
    /\ \A p \in Posts, k \in Pieces : /\ got'[d][<<p, k>>] = got[d][<<p, k>>]
                                      /\ <<d, p, k>> \in late' <=> <<d, p, k>> \in late

-----------------------------------------------------------------------------
(* Lemmas.                                                                 *)

LEMMA TypesOf == Types <=> TypeOK
BY DEF Types, TypeOK, PlaceTypes, PartTypes, RouteTypes, TallyTypes, Files, DiskTypes, PieceTypes

LEMMA Numbers ==
    /\ MaxPosts \in Nat \ {0} /\ Parts \in Nat \ {0} /\ None = 0 /\ 0 \in Pieces
    /\ PartNos \subseteq Pieces /\ PartNos # {} /\ \A k \in PartNos : k \in Nat /\ k # 0
    /\ \A p \in Posts : p \in Nat
BY MediaDeliveryAssumption DEF Pieces, PartNos, None, Posts

\* A job at work on a post has one.
LEMMA AtWork ==
    ASSUME IInv, NEW j \in Jobs, pc[j] \notin {"head", "done"} \/ at[j] <= Len(req[j].posts)
    PROVE  at[j] \in Posts
<1>1. at[j] \in Nat \ {0} /\ req[j] \in Requests /\ at[j] <= Len(req[j].posts)
  BY DEF IInv, TypeOK, PostsFit, AtPost
<1>2. Len(req[j].posts) \in Nat
  BY <1>1 DEF Requests
<1>3. Len(req[j].posts) <= MaxPosts
  BY MediaDeliveryAssumption DEF IInv
<1> QED BY <1>1, <1>2, <1>3, Numbers DEF Posts

\* What Reaches does to the two-level map of pieces.
LEMMA Reaching ==
    ASSUME IInv, NEW j \in Jobs, at[j] \in Posts, NEW k \in Pieces, Reaches(j, k)
    PROVE  /\ got' \in [Jobs -> [Posts \X Pieces -> Nat]]
           /\ late' \subseteq Jobs \X Posts \X Pieces /\ foreign' = foreign
           /\ Gains(j, k)
<1>1. got \in [Jobs -> [Posts \X Pieces -> Nat]] /\ late \subseteq Jobs \X Posts \X Pieces
  BY DEF IInv, TypeOK
<1>2. got' = [got EXCEPT ![j][<<at[j], k>>] = @ + 1]
  BY DEF Reaches
<1>3. late' = IF flag[j] /\ got[j][<<at[j], k>>] = 0 THEN late \cup {<<j, at[j], k>>} ELSE late
  BY DEF Reaches
<1>4. <<at[j], k>> \in Posts \X Pieces /\ <<j, at[j], k>> \in Jobs \X Posts \X Pieces
  OBVIOUS
<1>5. got[j] \in [Posts \X Pieces -> Nat]
  BY <1>1
<1>6. [got[j] EXCEPT ![<<at[j], k>>] = got[j][<<at[j], k>>] + 1] \in [Posts \X Pieces -> Nat]
  BY <1>4, <1>5
<1>7. got' = [got EXCEPT ![j] = [got[j] EXCEPT ![<<at[j], k>>] = got[j][<<at[j], k>>] + 1]]
  BY <1>1, <1>2
<1>8. got' \in [Jobs -> [Posts \X Pieces -> Nat]]
  BY <1>1, <1>6, <1>7
<1>9. ASSUME NEW d \in Jobs, NEW p \in Posts, NEW l \in Pieces
      PROVE  got'[d][<<p, l>>] = IF d = j /\ p = at[j] /\ l = k THEN got[d][<<p, l>>] + 1
                                 ELSE got[d][<<p, l>>]
  <2>1. d # j => got'[d] = got[d]
    BY <1>1, <1>7
  <2>2. got'[j] = [got[j] EXCEPT ![<<at[j], k>>] = got[j][<<at[j], k>>] + 1]
    BY <1>1, <1>7
  <2>3. <<p, l>> \in Posts \X Pieces /\ (<<p, l>> = <<at[j], k>> <=> p = at[j] /\ l = k)
    OBVIOUS
  <2>4. got'[j][<<p, l>>] = IF <<p, l>> = <<at[j], k>> THEN got[j][<<p, l>>] + 1
                            ELSE got[j][<<p, l>>]
    BY <1>5, <2>2, <2>3
  <2> QED BY <2>1, <2>3, <2>4
<1>10. late' \subseteq Jobs \X Posts \X Pieces
  BY <1>1, <1>3, <1>4
<1>11. foreign' = foreign
  BY DEF Reaches
<1>12. \A d \in Jobs, p \in Posts, l \in Pieces :
          <<d, p, l>> \in late' <=> \/ <<d, p, l>> \in late
                                   \/ /\ flag[j] /\ got[j][<<at[j], k>>] = 0
                                      /\ d = j /\ p = at[j] /\ l = k
  BY <1>3
<1> QED BY <1>8, <1>9, <1>10, <1>11, <1>12 DEF Gains

\* A job whose view stays the same fits its posts as before.
LEMMA ViewStays ==
    ASSUME IInv, NEW d \in Jobs, SameView(d)
    PROVE  PostsFit(d)'
<1> USE DEF SameView
<1>1. PostsFit(d) /\ at[d] \in Nat /\ processed[d] \subseteq Posts /\ failed[d] \subseteq Posts
  BY DEF IInv, TypeOK
<1>2. AtPost(d)'
  BY <1>1 DEF PostsFit, AtPost
<1>3. LateFits(d)'
  BY <1>1 DEF PostsFit, LateFits
<1>4. OneLate(d)'
  <2> SUFFICES ASSUME NEW p \in Posts, NEW q \in Posts, NEW k \in Pieces, NEW l \in Pieces,
                      <<d, p, k>> \in late', <<d, q, l>> \in late'
               PROVE  p = q /\ k = l
    BY DEF OneLate
  <2> QED BY <1>1 DEF PostsFit, OneLate
<1>5. Ahead(d)'
  BY <1>1 DEF PostsFit, Ahead
<1>6. \A p \in Posts : Spare(d, p)' = Spare(d, p)
  BY DEF Spare
<1>7. at[d] \in Posts => (NoneCame(d)' <=> NoneCame(d)) /\ (SomeCame(d)' <=> SomeCame(d))
  BY <1>6, Numbers DEF NoneCame, SomeCame
<1>8. OpenFits(d)'
  BY <1>1, <1>7 DEF PostsFit, OpenFits, Open, Private
<1>9. PartsFit(d)'
  BY <1>1, <1>7, AtWork DEF PostsFit, PartsFit, PartWay
<1>10. \A p \in Posts : Whole(d, p)' <=> Whole(d, p)
  BY Numbers DEF Whole
<1>11. EndFits(d)'
  BY <1>1, <1>10, AtWork DEF PostsFit, EndFits
<1>12. Counted(d)'
  BY <1>1 DEF PostsFit, Counted
<1>13. Once(d)'
  BY <1>1, <1>6, Numbers DEF PostsFit, Once
<1>14. Right(d)'
  BY <1>1, <1>10 DEF PostsFit, Right
<1> QED BY <1>2, <1>3, <1>4, <1>5, <1>8, <1>9, <1>11, <1>12, <1>13, <1>14 DEF PostsFit

\* Facts of the invariant that the steps of a job on its posts need.
LEMMA PostFacts ==
    ASSUME IInv, NEW j \in Jobs
    PROVE  /\ PlaceTypes /\ PartTypes /\ TallyTypes /\ PieceTypes
           /\ AtPost(j) /\ LateFits(j) /\ OneLate(j) /\ Ahead(j) /\ OpenFits(j)
           /\ PartsFit(j) /\ EndFits(j) /\ Counted(j) /\ Once(j) /\ Right(j)
           /\ pc[j] \notin {"head", "done"} => at[j] \in Posts
<1>1. Types
  BY TypesOf DEF IInv
<1> QED BY <1>1, AtWork DEF IInv, PostsFit, Types

LEMMA WalksFit ==
    ASSUME IInv, NEW j \in Jobs, Walks(j)
    PROVE  PostsFit(j)' /\ \A d \in Jobs \ {j} : SameView(d)
<1>0. UNCHANGED <<req, flag, at, cut, part, torn, processed, failed, got, lost, late>>
  BY DEF Walks
<1>1. AtPost(j)'
  BY <1>0, PostFacts DEF Walks, AtPost
<1>2. LateFits(j)'
  BY <1>0, PostFacts DEF Walks, LateFits
<1>3. OneLate(j)' /\ Ahead(j)' /\ Once(j)' /\ Right(j)'
  <2>1. OneLate(j) /\ Ahead(j) /\ Once(j) /\ Right(j)
    BY PostFacts
  <2>2. OneLate(j)' <=> OneLate(j)
    BY <1>0 DEF OneLate
  <2>3. Ahead(j)' <=> Ahead(j)
    BY <1>0 DEF Ahead
  <2>4. Once(j)' <=> Once(j)
    BY <1>0 DEF Once, Spare
  <2>5. Right(j)' <=> Right(j)
    BY <1>0 DEF Right, Whole
  <2> QED BY <2>1, <2>2, <2>3, <2>4, <2>5
<1>5. (NoneCame(j)' <=> NoneCame(j)) /\ (SomeCame(j)' <=> SomeCame(j))
  BY <1>0 DEF NoneCame, SomeCame, Spare
<1>6. OpenFits(j)'
  BY <1>0, <1>5, PostFacts DEF Walks, OpenFits
<1>7. PartsFit(j)'
  BY <1>5, PostFacts DEF Walks, PartsFit
<1>8. EndFits(j)'
  <2>1. pc'[j] = "true" => req'[j].override
    BY <1>0 DEF Walks
  <2>2. ASSUME pc'[j] = "false", <<j, at[j]>> \notin lost
        PROVE  ~Whole(j, at[j])
    <3>1. at[j] \in Posts /\ (Open(j) \/ pc[j] \in PartWay)
      BY <2>2, AtWork DEF Walks
    <3>2. \A k \in Pieces : got[j][<<at[j], k>>] \in Nat
      BY <3>1, PostFacts DEF PieceTypes
    <3>3. CASE Open(j)
      <4>1. NoneCame(j)
        BY <3>1, <3>3, PostFacts DEF OpenFits
      <4>2. got[j][<<at[j], 0>>] <= 0 /\ \E k \in PartNos : got[j][<<at[j], k>>] = 0
        BY <2>2, <4>1, Numbers DEF NoneCame, Spare
      <4> QED BY <3>2, <4>2, Numbers DEF Whole
    <3>4. CASE pc[j] \in PartWay
      <4>1. SomeCame(j) /\ part[j] \in PartNos /\ part[j] \in Nat
        BY <3>4, PostFacts, Numbers DEF PartsFit, PartTypes
      <4>2. got[j][<<at[j], 0>>] <= 0 /\ got[j][<<at[j], part[j]>>] <= 0
        BY <2>2, <4>1 DEF SomeCame, Spare
      <4> QED BY <3>2, <4>1, <4>2, Numbers DEF Whole
    <3> QED BY <3>1, <3>3, <3>4
  <2>3. Whole(j, at[j])' <=> Whole(j, at[j])
    BY <1>0 DEF Whole
  <2> QED BY <1>0, <2>1, <2>2, <2>3 DEF EndFits
<1>9. Counted(j)'
  BY <1>0, PostFacts DEF Walks, Counted
<1>10. \A d \in Jobs \ {j} : SameView(d)
  BY <1>0, PostFacts DEF Walks, SameView, PlaceTypes
<1> QED BY <1>1, <1>2, <1>3, <1>6, <1>7, <1>8, <1>9, <1>10 DEF PostsFit

\* What holds of every step that brings a piece of the post under way.
LEMMA GainsFit ==
    ASSUME IInv, NEW j \in Jobs, pc[j] \notin {"head", "done"}, NEW k \in Pieces, Gains(j, k),
           pc' = [pc EXCEPT ![j] = pc'[j]], lost' = lost \/ Loses(j),
           UNCHANGED <<req, flag, at, cut, torn, processed, failed>>,
           \A d \in Jobs \ {j} : part'[d] = part[d],
           got[j][<<at[j], k>>] <= Spare(j, at[j]),
           \A p \in Posts, l \in Pieces :
               <<j, p, l>> \in late /\ got[j][<<p, l>>] > 0 /\ flag[j] => p = at[j] /\ l = k,
           <<j, at[j]>> \notin lost' =>
               IF k = 0 THEN \A l \in PartNos : got[j][<<at[j], l>>] = 0
                        ELSE got[j][<<at[j], 0>>] = 0,
           pc'[j] # "done"
    PROVE  /\ AtPost(j)' /\ OneLate(j)' /\ Ahead(j)' /\ Once(j)' /\ Right(j)' /\ Counted(j)'
           /\ \A p \in Posts, l \in Pieces : <<j, p, l>> \in late' =>
                  flag'[j] /\ got'[j][<<p, l>>] > 0 /\ p = at[j] /\ l = k
           /\ \A d \in Jobs \ {j} : SameView(d)
<1>0. at[j] \in Posts /\ at[j] \in Nat /\ \A p \in Posts : p \in Nat
  BY AtWork, Numbers
<1>1. \A p \in Posts, l \in Pieces :
          /\ got[j][<<p, l>>] \in Nat
          /\ got'[j][<<p, l>>] = IF p = at[j] /\ l = k THEN got[j][<<p, l>>] + 1
                                 ELSE got[j][<<p, l>>]
  <2>1. PieceTypes
    BY PostFacts
  <2>2. \A p \in Posts, l \in Pieces : got[j][<<p, l>>] \in Nat
    BY <2>1 DEF PieceTypes
  <2>3. \A p \in Posts, l \in Pieces :
            got'[j][<<p, l>>] = IF p = at[j] /\ l = k THEN got[j][<<p, l>>] + 1 ELSE got[j][<<p, l>>]
    <3> SUFFICES ASSUME NEW p \in Posts, NEW l \in Pieces
                 PROVE  got'[j][<<p, l>>] = IF p = at[j] /\ l = k THEN got[j][<<p, l>>] + 1
                                            ELSE got[j][<<p, l>>]
      OBVIOUS
    <3> QED BY DEF Gains
  <2> QED BY <2>2, <2>3
<1>2. \A p \in Posts : /\ <<j, p>> \in lost' <=> <<j, p>> \in lost \/ (p = at[j] /\ lost' # lost)
                      /\ Spare(j, p)' = IF p = at[j] /\ lost' # lost THEN 1 ELSE Spare(j, p)
  BY <1>0 DEF Loses, Spare
<1>3. AtPost(j)'
  BY PostFacts DEF AtPost
<1>4. \A p \in Posts, l \in Pieces : <<j, p, l>> \in late' =>
          flag'[j] /\ got'[j][<<p, l>>] > 0 /\ p = at[j] /\ l = k
  BY <1>0, <1>1, PostFacts DEF Gains, LateFits
<1>5. OneLate(j)'
  BY <1>4 DEF OneLate
<1>6. Ahead(j)'
  <2>1. Ahead(j)
    BY PostFacts
  <2> QED BY <1>0, <1>1, <1>2, <2>1 DEF Ahead
<1>7. Once(j)'
  <2> SUFFICES ASSUME NEW p \in Posts
               PROVE  /\ \A l \in Pieces : got'[j][<<p, l>>] <= 1 + Spare(j, p)'
                      /\ <<j, p>> \notin lost' =>
                             got'[j][<<p, 0>>] = 0 \/ \A l \in PartNos : got'[j][<<p, l>>] = 0
    BY DEF Once
  <2>1. /\ \A l \in Pieces : got[j][<<p, l>>] <= 1 + Spare(j, p)
        /\ <<j, p>> \notin lost =>
               got[j][<<p, 0>>] = 0 \/ \A l \in PartNos : got[j][<<p, l>>] = 0
    BY PostFacts DEF Once
  <2>2. Spare(j, p) \in 0..1 /\ Spare(j, p)' \in 0..1 /\ Spare(j, p) <= Spare(j, p)'
    BY <1>2 DEF Spare
  <2>3. ASSUME NEW l \in Pieces
        PROVE  got'[j][<<p, l>>] <= 1 + Spare(j, p)'
    BY <1>1, <2>1, <2>2
  <2>4. ASSUME <<j, p>> \notin lost'
        PROVE  got'[j][<<p, 0>>] = 0 \/ \A l \in PartNos : got'[j][<<p, l>>] = 0
    <3>1. CASE p # at[j]
      BY <1>1, <1>2, <2>1, <2>4, <3>1, Numbers
    <3>2. CASE p = at[j] /\ k = 0
      BY <1>1, <2>4, <3>2, Numbers
    <3>3. CASE p = at[j] /\ k # 0
      BY <1>1, <2>4, <3>3, Numbers
    <3> QED BY <3>1, <3>2, <3>3
  <2> QED BY <2>3, <2>4
<1>8. Counted(j)'
  BY PostFacts DEF Counted
<1>9. Right(j)'
  <2>1. \A p \in processed[j] \cup failed[j] : p \in Posts /\ p < at[j]
    BY PostFacts DEF Counted, TallyTypes
  <2>2. \A p \in processed[j] \cup failed[j] :
            (Whole(j, p)' <=> Whole(j, p)) /\ (<<j, p>> \in lost' <=> <<j, p>> \in lost)
    BY <1>0, <1>1, <1>2, <2>1, Numbers DEF Whole
  <2>3. Right(j)
    BY PostFacts
  <2> QED BY <2>2, <2>3 DEF Right
<1>10. ASSUME NEW d \in Jobs \ {j}
       PROVE  SameView(d)
  BY PostFacts DEF Gains, Loses, SameView, PlaceTypes
<1> QED BY <1>3, <1>4, <1>5, <1>6, <1>7, <1>8, <1>9, <1>10

LEMMA WholeFits ==
    ASSUME IInv, NEW j \in Jobs, WholeComes(j)
    PROVE  PostsFit(j)' /\ \A d \in Jobs \ {j} : SameView(d)
<1>0. /\ pc[j] \in WholeWay /\ pc[j] \notin {"head", "done"} /\ pc' = [pc EXCEPT ![j] = pc'[j]]
      /\ at[j] \in Posts /\ Gains(j, 0) /\ 0 \in Pieces /\ pc'[j] # "done"
      /\ UNCHANGED <<req, flag, at, cut, part, torn, processed, failed>>
  BY AtWork, Numbers DEF WholeComes, WholeWay
<1>1. NoneCame(j)
  BY <1>0, PostFacts DEF OpenFits, Open
<1>2. lost' = lost \/ Loses(j)
  BY DEF WholeComes
<1>3. \A p \in Posts, l \in Pieces :
          <<j, p, l>> \in late /\ got[j][<<p, l>>] > 0 /\ flag[j] => p = at[j] /\ l = 0
  BY <1>0, PostFacts DEF LateFits
<1>4. \A d \in Jobs \ {j} : part'[d] = part[d]
  BY <1>0
<1>5. /\ AtPost(j)' /\ OneLate(j)' /\ Ahead(j)' /\ Once(j)' /\ Right(j)' /\ Counted(j)'
      /\ \A p \in Posts, l \in Pieces : <<j, p, l>> \in late' =>
             flag'[j] /\ got'[j][<<p, l>>] > 0 /\ p = at[j] /\ l = 0
      /\ \A d \in Jobs \ {j} : SameView(d)
  <2>1. got[j][<<at[j], 0>>] <= Spare(j, at[j]) /\ \A l \in PartNos : got[j][<<at[j], l>>] = 0
    BY <1>1 DEF NoneCame
  <2>2. <<j, at[j]>> \notin lost' =>
            IF 0 = 0 THEN \A l \in PartNos : got[j][<<at[j], l>>] = 0 ELSE got[j][<<at[j], 0>>] = 0
    BY <2>1
  <2> QED BY <1>0, <1>2, <1>3, <1>4, <2>1, <2>2, GainsFit
<1>6. LateFits(j)'
  BY <1>0, <1>5 DEF LateFits, WholeComes, WholeWay
<1>7. /\ got[j][<<at[j], 0>>] \in Nat /\ got'[j][<<at[j], 0>>] = got[j][<<at[j], 0>>] + 1
      /\ \A l \in PartNos : got'[j][<<at[j], l>>] = 0
  <2>1. PieceTypes
    BY PostFacts
  <2>2. got[j][<<at[j], 0>>] \in Nat
    BY <1>0, <2>1 DEF PieceTypes
  <2> QED BY <1>0, <1>1, <2>2, Numbers DEF Gains, NoneCame
<1>8. CASE lost' = lost /\ pc'[j] = "true"
  <2>1. Whole(j, at[j])'
    BY <1>0, <1>7 DEF Whole
  <2>2. OpenFits(j)' /\ PartsFit(j)' /\ EndFits(j)'
    BY <1>0, <1>8, <2>1 DEF OpenFits, Open, WholeWay, PartsFit, PartWay, EndFits
  <2> QED BY <1>5, <1>6, <2>2 DEF PostsFit
<1>9. CASE Loses(j) /\ pc'[j] \in WholeWay \cup {"split", "false", "flood"}
  <2>1. <<j, at[j]>> \in lost' /\ got'[j][<<at[j], 0>>] <= 1
    BY <1>1, <1>7, <1>9 DEF Loses, NoneCame, Spare
  <2>2. NoneCame(j)'
    BY <1>0, <1>7, <2>1 DEF NoneCame, Spare
  <2>3. OpenFits(j)' /\ PartsFit(j)' /\ EndFits(j)'
    BY <1>0, <1>9, <2>1, <2>2 DEF OpenFits, WholeWay, PartsFit, PartWay, EndFits
  <2> QED BY <1>5, <1>6, <2>3 DEF PostsFit
<1> QED BY <1>5, <1>8, <1>9 DEF WholeComes

LEMMA PartFacts ==
    ASSUME IInv, NEW j \in Jobs, pc[j] \in {"send", "partCopy"}, pc[j] = "send" => ~flag[j]
    PROVE  /\ pc[j] \notin {"head", "done"} /\ at[j] \in Posts /\ SomeCame(j)
           /\ part[j] \in PartNos /\ part[j] \in Pieces /\ part[j] \in Nat /\ part[j] # 0
           /\ got[j][<<at[j], part[j]>>] <= Spare(j, at[j])
           /\ \A l \in Pieces : got[j][<<at[j], l>>] \in Nat
           /\ \A p \in Posts, l \in Pieces :
                  <<j, p, l>> \in late /\ got[j][<<p, l>>] > 0 /\ flag[j] => p = at[j] /\ l = part[j]
<1>1. at[j] \in Posts
  BY AtWork
<1>2. SomeCame(j)
  BY PostFacts DEF PartsFit, PartWay
<1>3. part[j] \in PartNos
  BY PostFacts DEF PartTypes
<1>4. part[j] \in Pieces /\ part[j] \in Nat /\ part[j] # 0
  BY <1>3, Numbers
<1>5. got[j][<<at[j], part[j]>>] <= Spare(j, at[j])
  BY <1>2, <1>3, <1>4 DEF SomeCame
<1>6. \A l \in Pieces : got[j][<<at[j], l>>] \in Nat
  <2>1. PieceTypes
    BY PostFacts
  <2> QED BY <1>1, <2>1 DEF PieceTypes
<1>7. \A p \in Posts, l \in Pieces :
          <<j, p, l>> \in late /\ got[j][<<p, l>>] > 0 /\ flag[j] => p = at[j] /\ l = part[j]
  BY PostFacts DEF LateFits
<1> QED BY <1>1, <1>2, <1>3, <1>4, <1>5, <1>6, <1>7

LEMMA PartFits ==
    ASSUME IInv, NEW j \in Jobs, PartComes(j)
    PROVE  PostsFit(j)' /\ \A d \in Jobs \ {j} : SameView(d)
<1>0. /\ pc[j] \in {"send", "partCopy"} /\ (pc[j] = "send" => ~flag[j])
      /\ pc' = [pc EXCEPT ![j] = pc'[j]] /\ Gains(j, part[j])
      /\ UNCHANGED <<req, flag, at, cut, torn, processed, failed, lost>>
      /\ pc'[j] \in {"true", "part"}
  BY DEF PartComes
<1>1. /\ pc[j] \notin {"head", "done"} /\ at[j] \in Posts /\ SomeCame(j)
      /\ part[j] \in PartNos /\ part[j] \in Pieces /\ part[j] \in Nat /\ part[j] # 0
      /\ got[j][<<at[j], part[j]>>] <= Spare(j, at[j])
      /\ \A l \in Pieces : got[j][<<at[j], l>>] \in Nat
      /\ \A p \in Posts, l \in Pieces :
             <<j, p, l>> \in late /\ got[j][<<p, l>>] > 0 /\ flag[j] => p = at[j] /\ l = part[j]
  BY <1>0, PartFacts
<1>2. \A d \in Jobs \ {j} : part'[d] = part[d]
  BY PostFacts DEF PartComes, PartTypes
<1>3. <<j, at[j]>> \notin lost' => got[j][<<at[j], 0>>] = 0
  BY <1>0, <1>1, Numbers DEF SomeCame, Spare
<1>4. /\ AtPost(j)' /\ OneLate(j)' /\ Ahead(j)' /\ Once(j)' /\ Right(j)' /\ Counted(j)'
      /\ \A p \in Posts, l \in Pieces : <<j, p, l>> \in late' =>
             flag'[j] /\ got'[j][<<p, l>>] > 0 /\ p = at[j] /\ l = part[j]
      /\ \A d \in Jobs \ {j} : SameView(d)
  <2>1. pc'[j] # "done" /\ lost' = lost
    BY <1>0
  <2> QED BY <1>0, <1>1, <1>2, <1>3, <2>1, GainsFit
<1>5. LateFits(j)'
  BY <1>0, <1>4 DEF LateFits, WholeWay
<1>6. OpenFits(j)'
  BY <1>0 DEF OpenFits, Open, WholeWay
<1>7. \A l \in Pieces : got'[j][<<at[j], l>>] = IF l = part[j] THEN got[j][<<at[j], l>>] + 1
                                               ELSE got[j][<<at[j], l>>]
  BY <1>0, <1>1 DEF Gains
<1>8. \A k \in PartNos : k \in cut[j] /\ k <= part[j] => got'[j][<<at[j], k>>] > 0
  <2> SUFFICES ASSUME NEW k \in PartNos, k \in cut[j], k <= part[j]
               PROVE  got'[j][<<at[j], k>>] > 0
    OBVIOUS
  <2>1. k \in Pieces /\ k \in Nat /\ got[j][<<at[j], k>>] \in Nat
    BY <1>1, Numbers
  <2>2. CASE k = part[j]
    BY <1>7, <2>1, <2>2
  <2>3. CASE k < part[j]
    BY <1>1, <1>7, <2>1, <2>3 DEF SomeCame
  <2> QED BY <1>1, <2>1, <2>2, <2>3
<1>9. CASE Rest(j, part[j]) = {} /\ pc'[j] = "true" /\ part' = part
  <2>1. \A k \in cut[j] : k <= part[j] /\ k \in PartNos
    <3>1. cut[j] \subseteq PartNos
      BY PostFacts DEF PartTypes
    <3> QED BY <1>1, <1>9, <3>1, Numbers DEF Rest
  <2>2. Whole(j, at[j])' \/ <<j, at[j]>> \in torn
    BY <1>0, <1>1, <1>8, <2>1 DEF SomeCame, Whole
  <2>3. EndFits(j)' /\ PartsFit(j)'
    BY <1>0, <1>9, <2>2 DEF EndFits, PartsFit, PartWay
  <2> QED BY <1>4, <1>5, <1>6, <2>3 DEF PostsFit
<1>10. ASSUME NEW k \in Rest(j, part[j]), \A m \in Rest(j, part[j]) : k <= m,
              part' = [part EXCEPT ![j] = k], pc'[j] = "part"
       PROVE  PostsFit(j)'
  <2>1. /\ part'[j] = k /\ k \in cut[j] /\ k \in PartNos /\ k \in Nat /\ k > part[j]
        /\ part[j] \in Nat
    BY <1>1, <1>10, PostFacts, Numbers DEF PartTypes, Rest
  <2>2. ASSUME NEW m \in PartNos, m < k, m \in cut[j]
        PROVE  got'[j][<<at[j], m>>] > 0
    <3>1. m \in Nat /\ ~(k <= m)
      BY <2>1, <2>2, Numbers
    <3>2. m <= part[j]
      BY <1>1, <1>10, <2>2, <3>1 DEF Rest
    <3> QED BY <1>8, <2>2, <3>2
  <2>3. ASSUME NEW m \in PartNos, m >= k
        PROVE  got'[j][<<at[j], m>>] <= Spare(j, at[j])
    <3>1. m \in Pieces /\ m # part[j] /\ m >= part[j]
      BY <2>1, <2>3, Numbers
    <3> QED BY <1>1, <1>7, <3>1 DEF SomeCame
  <2>4. got'[j][<<at[j], 0>>] <= Spare(j, at[j])
    BY <1>1, <1>7, Numbers DEF SomeCame
  <2>5. Spare(j, at[j])' = Spare(j, at[j])
    BY <1>0 DEF Spare
  <2>6. SomeCame(j)'
    BY <1>0, <1>1, <2>1, <2>2, <2>3, <2>4, <2>5 DEF SomeCame
  <2>7. PartsFit(j)' /\ EndFits(j)'
    BY <1>10, <2>6 DEF PartsFit, EndFits
  <2> QED BY <1>4, <1>5, <1>6, <2>7 DEF PostsFit
<1> QED BY <1>4, <1>9, <1>10 DEF PartComes

LEMMA PartLosesFits ==
    ASSUME IInv, NEW j \in Jobs, PartLoses(j)
    PROVE  PostsFit(j)' /\ \A d \in Jobs \ {j} : SameView(d)
<1>0. /\ pc[j] \in {"send", "partCopy"} /\ (pc[j] = "send" => ~flag[j])
      /\ pc' = [pc EXCEPT ![j] = pc'[j]] /\ Gains(j, part[j]) /\ Loses(j)
      /\ UNCHANGED <<req, flag, at, cut, part, torn, processed, failed>>
      /\ pc'[j] \in {"false", "partCopy"}
  BY DEF PartLoses
<1>1. /\ pc[j] \notin {"head", "done"} /\ at[j] \in Posts /\ SomeCame(j)
      /\ part[j] \in PartNos /\ part[j] \in Pieces /\ part[j] \in Nat /\ part[j] # 0
      /\ got[j][<<at[j], part[j]>>] <= Spare(j, at[j])
      /\ \A l \in Pieces : got[j][<<at[j], l>>] \in Nat
      /\ \A p \in Posts, l \in Pieces :
             <<j, p, l>> \in late /\ got[j][<<p, l>>] > 0 /\ flag[j] => p = at[j] /\ l = part[j]
  BY <1>0, PartFacts
<1>2. <<j, at[j]>> \in lost' /\ Spare(j, at[j]) = 0 /\ Spare(j, at[j])' = 1
  BY <1>0 DEF Loses, Spare
<1>3. /\ AtPost(j)' /\ OneLate(j)' /\ Ahead(j)' /\ Once(j)' /\ Right(j)' /\ Counted(j)'
      /\ \A p \in Posts, l \in Pieces : <<j, p, l>> \in late' =>
             flag'[j] /\ got'[j][<<p, l>>] > 0 /\ p = at[j] /\ l = part[j]
      /\ \A d \in Jobs \ {j} : SameView(d)
  <2>1. pc'[j] # "done" /\ \A d \in Jobs \ {j} : part'[d] = part[d]
    BY <1>0
  <2> QED BY <1>0, <1>1, <1>2, <2>1, GainsFit
<1>4. LateFits(j)'
  BY <1>0, <1>3 DEF LateFits, WholeWay
<1>5. OpenFits(j)' /\ EndFits(j)'
  BY <1>0, <1>2 DEF OpenFits, Open, WholeWay, EndFits
<1>6. \A l \in Pieces : got'[j][<<at[j], l>>] = IF l = part[j] THEN got[j][<<at[j], l>>] + 1
                                               ELSE got[j][<<at[j], l>>]
  BY <1>0, <1>1 DEF Gains
<1>7. SomeCame(j)'
  <2>1. ASSUME NEW k \in PartNos
        PROVE  /\ k < part[j] /\ k \in cut[j] => got'[j][<<at[j], k>>] > 0
               /\ k >= part[j] => got'[j][<<at[j], k>>] <= 1
    <3>1. k \in Pieces /\ k \in Nat
      BY Numbers
    <3>2. /\ k < part[j] /\ k \in cut[j] => got[j][<<at[j], k>>] > 0
          /\ k >= part[j] => got[j][<<at[j], k>>] <= 0
      BY <1>1, <1>2 DEF SomeCame
    <3>3. got[j][<<at[j], k>>] \in Nat
      BY <1>1, <3>1
    <3>4. CASE k = part[j]
      BY <1>1, <1>6, <3>1, <3>2, <3>3, <3>4
    <3>5. CASE k # part[j]
      BY <1>1, <1>6, <3>1, <3>2, <3>3, <3>5
    <3> QED BY <3>4, <3>5
  <2>2. got'[j][<<at[j], 0>>] <= 1
    <3>1. got[j][<<at[j], 0>>] <= 0 /\ got[j][<<at[j], 0>>] \in Nat
      BY <1>1, <1>2, Numbers DEF SomeCame
    <3> QED BY <1>1, <1>6, <3>1, Numbers
  <2> QED BY <1>0, <1>1, <1>2, <2>1, <2>2 DEF SomeCame
<1> QED BY <1>3, <1>4, <1>5, <1>7 DEF PostsFit, PartsFit

LEMMA CutsFit ==
    ASSUME IInv, NEW j \in Jobs, Cuts(j)
    PROVE  PostsFit(j)' /\ \A d \in Jobs \ {j} : SameView(d)
<1>0. /\ pc[j] = "split" /\ pc' = [pc EXCEPT ![j] = "part"] /\ at[j] \in Posts /\ pc'[j] = "part"
      /\ UNCHANGED <<req, flag, at, processed, failed, got, lost, late>>
  BY AtWork, PostFacts DEF Cuts, PlaceTypes
<1>1. PICK parts \in (SUBSET PartNos) \ {{}} :
          /\ cut' = [cut EXCEPT ![j] = parts]
          /\ \E k \in parts : /\ \A m \in parts : k <= m
                             /\ part' = [part EXCEPT ![j] = k]
          /\ torn' = IF parts = PartNos THEN torn ELSE torn \cup {<<j, at[j]>>}
  BY DEF Cuts
<1>2. PICK k \in parts : (\A m \in parts : k <= m) /\ part' = [part EXCEPT ![j] = k]
  BY <1>1
<1>3. /\ part'[j] = k /\ cut'[j] = parts /\ k \in Nat /\ k \in PartNos
      /\ \A m \in parts : m \in Nat /\ m \in PartNos
  BY <1>1, <1>2, PostFacts, Numbers DEF PartTypes
<1>4. torn \subseteq torn' /\ (parts = PartNos \/ <<j, at[j]>> \in torn')
  BY <1>1
<1>5. OneLate(j)' /\ Ahead(j)' /\ Once(j)' /\ Right(j)'
  <2>1. OneLate(j) /\ Ahead(j) /\ Once(j) /\ Right(j)
    BY PostFacts
  <2>2. OneLate(j)' <=> OneLate(j)
    BY <1>0 DEF OneLate
  <2>3. Ahead(j)' <=> Ahead(j)
    BY <1>0 DEF Ahead
  <2>4. Once(j)' <=> Once(j)
    BY <1>0 DEF Once, Spare
  <2>5. Right(j)'
    BY <1>0, <1>4, <2>1 DEF Right, Whole
  <2> QED BY <2>1, <2>2, <2>3, <2>4, <2>5
<1>6. LateFits(j)'
  BY <1>0, PostFacts DEF LateFits, WholeWay
<1>7. AtPost(j)' /\ Counted(j)' /\ OpenFits(j)' /\ EndFits(j)'
  BY <1>0, PostFacts DEF AtPost, Counted, OpenFits, Open, WholeWay, EndFits
<1>8. SomeCame(j)'
  <2>1. NoneCame(j)
    BY <1>0, PostFacts DEF OpenFits, Open
  <2>2. Spare(j, at[j])' = Spare(j, at[j]) /\ Spare(j, at[j]) \in {0, 1}
    BY <1>0 DEF Spare
  <2>3. \A m \in PartNos : m < k => m \notin parts
    BY <1>2, <1>3, Numbers
  <2> QED BY <1>0, <1>2, <1>3, <1>4, <2>1, <2>2, <2>3 DEF SomeCame, NoneCame
<1>9. ASSUME NEW d \in Jobs \ {j}
      PROVE  SameView(d)
  <2>1. /\ req' = req /\ pc'[d] = pc[d] /\ at'[d] = at[d] /\ cut'[d] = cut[d]
        /\ part'[d] = part[d] /\ processed'[d] = processed[d] /\ failed'[d] = failed[d]
        /\ flag'[d] = flag[d]
    BY <1>0, <1>1, <1>2, PostFacts DEF PlaceTypes, PartTypes
  <2>2. \A p \in Posts : <<d, p>> \in torn' <=> <<d, p>> \in torn
    BY <1>1
  <2> QED BY <1>0, <2>1, <2>2 DEF SameView
<1> QED BY <1>5, <1>6, <1>7, <1>8, <1>0, <1>9 DEF PostsFit, PartsFit

LEMMA SettlesFit ==
    ASSUME IInv, NEW j \in Jobs, Settles(j)
    PROVE  PostsFit(j)' /\ \A d \in Jobs \ {j} : SameView(d)
<1>0. /\ pc[j] \in Results /\ pc[j] \notin {"head", "done"} /\ at[j] \in Posts /\ at[j] \in Nat
      /\ UNCHANGED <<req, flag, cut, part, torn, got, lost, late>>
  BY AtWork, Numbers DEF Settles, Results
<1>1. /\ pc'[j] \in {"head", "done"} /\ at'[j] \in {at[j], at[j] + 1} /\ at'[j] \in Nat
      /\ pc'[j] = "head" /\ at'[j] = at[j] => Private(j) /\ pc[j] = "flood"
      /\ \A d \in Jobs \ {j} : at'[d] = at[d] /\ pc'[d] = pc[d]
  <2>1. at \in [Jobs -> Nat \ {0}] /\ pc \in [Jobs -> PCs]
    BY PostFacts DEF PlaceTypes
  <2> QED BY <1>0, <2>1 DEF Settles
<1>2. AtPost(j)' /\ PartsFit(j)' /\ EndFits(j)'
  BY <1>1 DEF AtPost, PartsFit, PartWay, EndFits
<1>3. LateFits(j)'
  BY <1>0, <1>1, PostFacts DEF LateFits, WholeWay
<1>4. OneLate(j)' /\ Once(j)' /\ Ahead(j)'
  <2>1. OneLate(j) /\ Ahead(j) /\ Once(j)
    BY PostFacts
  <2>2. OneLate(j)' <=> OneLate(j)
    BY <1>0 DEF OneLate
  <2>3. Ahead(j)'
    BY <1>0, <1>1, <2>1, Numbers DEF Ahead
  <2>4. Once(j)' <=> Once(j)
    BY <1>0 DEF Once, Spare
  <2> QED BY <2>1, <2>2, <2>3, <2>4
<1>5. OpenFits(j)'
  <2> SUFFICES ASSUME Open(j)', at'[j] \in Posts
               PROVE  NoneCame(j)'
    BY DEF OpenFits
  <2>1. pc'[j] = "head"
    BY <1>1 DEF Open, WholeWay
  <2>2. CASE at'[j] = at[j]
    <3>1. NoneCame(j)
      BY <1>0, <1>1, <2>1, <2>2, PostFacts DEF OpenFits, Open
    <3> QED BY <1>0, <2>2, <3>1 DEF NoneCame, Spare
  <2>3. CASE at'[j] = at[j] + 1
    <3>1. \A k \in Pieces : got[j][<<at'[j], k>>] = 0
      <4>1. Ahead(j) /\ at'[j] > at[j]
        BY <1>0, <2>3, PostFacts
      <4> QED BY <4>1 DEF Ahead
    <3> QED BY <1>0, <3>1, Numbers DEF NoneCame, Spare
  <2> QED BY <1>1, <2>2, <2>3
<1>6. \A p \in Posts : Whole(j, p)' <=> Whole(j, p)
  BY <1>0 DEF Whole
<1>7. /\ processed' = processed \/ (/\ pc[j] = "true"
                                   /\ processed' = [processed EXCEPT ![j] = @ \cup {at[j]}])
      /\ failed' = failed \/ (/\ pc[j] = "false"
                             /\ failed' = [failed EXCEPT ![j] = @ \cup {at[j]}])
      /\ processed \in [Jobs -> SUBSET Posts] /\ failed \in [Jobs -> SUBSET Posts]
  BY PostFacts DEF Settles, TallyTypes
<1>8. /\ \A p \in processed'[j] : p \in processed[j] \/ (p = at[j] /\ pc[j] = "true")
      /\ \A p \in failed'[j] : p \in failed[j] \/ (p = at[j] /\ pc[j] = "false")
  BY <1>7
<1>9. Right(j)'
  <2>1. processed[j] \subseteq Posts /\ failed[j] \subseteq Posts /\ Right(j) /\ EndFits(j)
    BY <1>7, PostFacts
  <2> QED BY <1>0, <1>6, <1>8, <2>1 DEF Right, EndFits
<1>10. Counted(j)'
  <2> SUFFICES ASSUME NEW p \in processed'[j] \cup failed'[j], pc'[j] # "done"
               PROVE  p < at'[j]
    BY DEF Counted
  <2>1. (p = at[j] /\ pc[j] \in {"true", "false"}) \/ p \in processed[j] \cup failed[j]
    BY <1>8
  <2>2. p \in Nat /\ p <= at[j] /\ (p = at[j] => pc[j] \in {"true", "false"})
    BY <1>0, <1>7, <2>1, Numbers, PostFacts DEF Counted
  <2> QED BY <1>0, <1>1, <2>2
<1>11. ASSUME NEW d \in Jobs \ {j}
       PROVE  SameView(d)
  BY <1>0, <1>1, <1>7 DEF SameView
<1> QED BY <1>2, <1>3, <1>4, <1>5, <1>9, <1>10, <1>11 DEF PostsFit

\* A step of a job leaves every job's posts in order.
LEMMA PostsStepFits ==
    ASSUME IInv, NEW j \in Jobs, PostsStep(j)
    PROVE  \A d \in Jobs : PostsFit(d)'
<1>1. PostsFit(j)' /\ \A d \in Jobs \ {j} : SameView(d)
  BY WalksFit, WholeFits, PartFits, PartLosesFits, CutsFit, SettlesFit DEF PostsStep
<1> QED BY <1>1, ViewStays

\* And every job's route.
LEMMA RoutesStepFits ==
    ASSUME IInv, NEW j \in Jobs, RoutesStep(j)
    PROVE  \A d \in Jobs : RoutesFit(d)'
<1>1. ASSUME NEW d \in Jobs \ {j}
      PROVE  RoutesFit(d)'
  <2>1. Borrowed(d) /\ OwnAccount(d) /\ RouteFits(d)
    BY DEF IInv, RoutesFit
  <2>2. /\ pc'[d] = pc[d] /\ route'[d] = route[d] /\ cand'[d] = cand[d] /\ worker'[d] = worker[d]
        /\ req' = req /\ pool' = pool /\ reloads' = reloads /\ guilty \subseteq guilty'
    BY DEF RoutesStep
  <2>3. Borrowed(d)' /\ OwnAccount(d)'
    BY <2>1, <2>2 DEF Borrowed, OwnAccount
  <2>4. RouteFits(d)'
    BY <2>1, <2>2 DEF RouteFits
  <2> QED BY <2>3, <2>4 DEF RoutesFit
<1> QED BY <1>1 DEF RoutesStep

LEMMA KeepsFits ==
    ASSUME IInv, NEW j \in Jobs, Keeps(j)
    PROVE  RoutesStep(j)
<1>1. /\ Borrowed(j) /\ OwnAccount(j) /\ RouteFits(j) /\ OnlyGuiltyPaused
      /\ PlaceTypes /\ RouteTypes /\ route' = route /\ cand' = cand /\ req' = req
      /\ UNCHANGED <<pool, paused, fatal, reloads, guilty>>
      /\ pc' = [pc EXCEPT ![j] = pc'[j]] /\ pc'[j] \notin {"upload", "recreate", "pollCreate"}
  BY TypesOf DEF IInv, RoutesFit, Types, Keeps
<1>2. /\ worker'[j] \in {worker[j], "own", Acc(j)}
      /\ \A d \in Jobs \ {j} : worker'[d] = worker[d] /\ pc'[d] = pc[d]
  BY <1>1 DEF RouteTypes, PlaceTypes, Keeps
<1>3. Borrowed(j)' /\ RouteFits(j)'
  BY <1>1 DEF Borrowed, RouteFits
<1>4. OwnAccount(j)'
  BY <1>1, <1>2 DEF OwnAccount, Acc
<1>5. OnlyGuiltyPaused'
  BY <1>1 DEF OnlyGuiltyPaused
<1> QED BY <1>1, <1>2, <1>3, <1>4, <1>5 DEF RoutesStep, RoutesFit

-----------------------------------------------------------------------------
(* The steps of a job, one by one.                                         *)

Turn(j) == Types' /\ PostsStep(j) /\ RoutesStep(j)

\* Variables that keep their values keep their types.
LEMMA TypesStay ==
    ASSUME Types
    PROVE  /\ UNCHANGED poolVars => PoolTypeOK'
           /\ UNCHANGED <<req, at, flag>> /\ pc' \in [Jobs -> PCs] => PlaceTypes'
           /\ UNCHANGED <<part, cut, tries, torn>> => PartTypes'
           /\ UNCHANGED uploadVars => RouteTypes'
           /\ UNCHANGED tallyVars => TallyTypes'
           /\ UNCHANGED disk => DiskTypes'
           /\ UNCHANGED historyVars => PieceTypes'
           /\ floods' = floods \/ Flooded => floods' \in Nat
<1>1. UNCHANGED poolVars => PoolTypeOK'
  BY DEF Types, PoolTypeOK, poolVars
<1>2. UNCHANGED <<req, at, flag>> /\ pc' \in [Jobs -> PCs] => PlaceTypes'
  BY DEF Types, PlaceTypes
<1>3. UNCHANGED <<part, cut, tries, torn>> => PartTypes'
  BY DEF Types, PartTypes
<1>4. UNCHANGED uploadVars => RouteTypes'
  BY DEF Types, RouteTypes, uploadVars
<1>5. UNCHANGED tallyVars => TallyTypes'
  BY DEF Types, TallyTypes, tallyVars
<1>6. UNCHANGED disk => DiskTypes'
  BY DEF Types, DiskTypes
<1>7. UNCHANGED historyVars => PieceTypes'
  BY DEF Types, PieceTypes, historyVars
<1>8. floods' = floods \/ Flooded => floods' \in Nat
  BY DEF Types, Flooded
<1> QED BY <1>1, <1>2, <1>3, <1>4, <1>5, <1>6, <1>7, <1>8

\* A job goes somewhere.
LEMMA Going ==
    ASSUME Types, NEW j \in Jobs, NEW where \in PCs, Goto(j, where)
    PROVE  /\ pc' \in [Jobs -> PCs] /\ pc'[j] = where /\ pc' = [pc EXCEPT ![j] = pc'[j]]
           /\ \A d \in Jobs \ {j} : pc'[d] = pc[d]
BY DEF Types, PlaceTypes, Goto

\* Or stays where it is.
LEMMA Staying ==
    ASSUME Types, NEW j \in Jobs, pc' = pc
    PROVE  /\ pc' \in [Jobs -> PCs] /\ pc'[j] = pc[j] /\ pc' = [pc EXCEPT ![j] = pc'[j]]
           /\ \A d \in Jobs \ {j} : pc'[d] = pc[d]
BY DEF Types, PlaceTypes

LEMMA LosingAnswer ==
    ASSUME IInv, NEW j \in Jobs, at[j] \in Posts, NEW k \in Pieces, LosesAnswer(j, k)
    PROVE  PieceTypes' /\ Gains(j, k) /\ Loses(j)
<1>1. /\ got' \in [Jobs -> [Posts \X Pieces -> Nat]] /\ Gains(j, k)
      /\ late' \subseteq Jobs \X Posts \X Pieces /\ foreign' = foreign
  BY Reaching DEF LosesAnswer
<1>2. Loses(j)
  BY DEF LosesAnswer, Loses
<1>3. PieceTypes
  BY TypesOf DEF IInv, Types
<1>4. lost' \in SUBSET (Jobs \X Posts)
  BY <1>2, <1>3 DEF Loses, PieceTypes
<1> QED BY <1>1, <1>2, <1>3, <1>4 DEF PieceTypes

LEMMA ReachingTypes ==
    ASSUME IInv, NEW j \in Jobs, at[j] \in Posts, NEW k \in Pieces, Reaches(j, k), lost' = lost
    PROVE  PieceTypes' /\ Gains(j, k)
<1>1. PieceTypes
  BY TypesOf DEF IInv, Types
<1> QED BY <1>1, Reaching DEF PieceTypes

LEMMA Sending ==
    ASSUME IInv, NEW j \in Jobs, at[j] \in Posts, NEW k \in Pieces, Sent(j, k)
    PROVE  /\ PieceTypes' /\ lost' = lost
           /\ IF worker[j] = "download" THEN UNCHANGED <<got, late>> ELSE Gains(j, k)
<1>1. PieceTypes /\ lost' = lost
  BY TypesOf DEF IInv, Types, Sent
<1>2. CASE worker[j] = "download"
  BY <1>1, <1>2 DEF Sent, Strays, PieceTypes
<1>3. CASE worker[j] # "download"
  BY <1>1, <1>3, ReachingTypes DEF Sent
<1> QED BY <1>1, <1>2, <1>3

\* A walk before and on the way of a whole post.
LEMMA OpenWalks ==
    ASSUME NEW j \in Jobs, Open(j), pc[j] \notin {"head", "done"}, pc' = [pc EXCEPT ![j] = pc'[j]],
           UNCHANGED <<req, flag, at, cut, part, torn, processed, failed, got, lost, late>>,
           pc'[j] \notin PartWay,
           pc'[j] \in WholeWay => ~flag[j] \/ pc[j] \in WholeWay,
           pc'[j] = "true" => req[j].override
    PROVE  Walks(j)
BY DEF Walks, PartWay

\* Local files.
LEMMA FilesAre ==
    /\ File \in Files /\ Thumb \in Files /\ PartThumb \in Files /\ Fragments \in Files
    /\ \A k \in PartNos : PartFile(k) \in Files
BY DEF Files, PartFiles

LEMMA StopTurn ==
    ASSUME IInv, NEW j \in Jobs, Stop(j)
    PROVE  Turn(j)
<1>0. Types
  BY TypesOf DEF IInv
<1>1. pc[j] = "head" /\ Goto(j, "done") /\ "done" \in PCs
  BY DEF Stop, PCs
<1>2. pc' \in [Jobs -> PCs] /\ pc'[j] = "done" /\ pc' = [pc EXCEPT ![j] = pc'[j]]
  BY <1>0, <1>1, Going
<1>3. DiskTypes'
  BY <1>0 DEF Stop, Leave, Types, DiskTypes
<1>4. Types'
  BY <1>0, <1>2, <1>3, TypesStay DEF Types, Stop, Unsplit, Elsewhere
<1>5. Walks(j)
  BY <1>1, <1>2 DEF Walks, Stop, Unsplit, Elsewhere, tallyVars, historyVars, Open, WholeWay, PartWay
<1>6. Keeps(j)
  BY <1>1, <1>2 DEF Keeps, Stop, Unsplit, Elsewhere, uploadVars, poolVars
<1> QED BY <1>4, <1>5, <1>6, KeepsFits DEF Turn, PostsStep

LEMMA BeginTurn ==
    ASSUME IInv, NEW j \in Jobs, Begin(j)
    PROVE  Turn(j)
<1>0. Types
  BY TypesOf DEF IInv
<1>1. pc[j] = "head" /\ Goto(j, "fetch") /\ "fetch" \in PCs
  BY DEF Begin, PCs
<1>2. pc' \in [Jobs -> PCs] /\ pc'[j] = "fetch" /\ pc' = [pc EXCEPT ![j] = pc'[j]]
  BY <1>0, <1>1, Going
<1>3. Types'
  BY <1>0, <1>2, TypesStay DEF Types, Begin, Unsplit, Elsewhere
<1>4. Walks(j)
  BY <1>1, <1>2 DEF Walks, Begin, Unsplit, Elsewhere, tallyVars, historyVars, Open, WholeWay, PartWay
<1>5. Keeps(j)
  BY <1>1, <1>2 DEF Keeps, Begin, Unsplit, Elsewhere, uploadVars, poolVars
<1> QED BY <1>3, <1>4, <1>5, KeepsFits DEF Turn, PostsStep

LEMMA FetchTurn ==
    ASSUME IInv, NEW j \in Jobs, Fetch(j)
    PROVE  Turn(j)
<1>0. Types
  BY TypesOf DEF IInv
<1>1. /\ pc[j] = "fetch" /\ (floods' = floods \/ Flooded)
      /\ \E r \in {"text", "download", "false", "deleted", "flood"} :
            Goto(j, r) /\ (r \in {"text", "download"} => ~flag[j])
  <2>1. pc[j] = "fetch"
    BY DEF Fetch
  <2>2. CASE Cancelled(j) /\ Goto(j, "false") /\ UNCHANGED floods
    BY <2>1, <2>2
  <2>3. CASE ~Cancelled(j)
    BY <2>1, <2>3 DEF Fetch, Cancelled
  <2> QED BY <2>2, <2>3 DEF Fetch
<1>2. /\ pc' \in [Jobs -> PCs] /\ pc' = [pc EXCEPT ![j] = pc'[j]]
      /\ pc'[j] \in {"text", "download", "false", "deleted", "flood"}
      /\ pc'[j] \in {"text", "download"} => ~flag[j]
  BY <1>0, <1>1, Going DEF PCs, Results
<1>3. Types'
  BY <1>0, <1>1, <1>2, TypesStay DEF Types, Fetch, Unsplit, Elsewhere
<1>4. Walks(j)
  <2>1. UNCHANGED <<req, flag, at, cut, part, torn, processed, failed, got, lost, late>>
    BY DEF Fetch, Unsplit, Elsewhere, tallyVars, historyVars
  <2>2. Open(j) /\ pc[j] \notin {"head", "done"}
    BY <1>1 DEF Open
  <2> QED BY <1>2, <2>1, <2>2, OpenWalks DEF WholeWay, PartWay
<1>5. Keeps(j)
  BY <1>1, <1>2 DEF Keeps, Fetch, Unsplit, Elsewhere, uploadVars, poolVars
<1> QED BY <1>3, <1>4, <1>5, KeepsFits DEF Turn, PostsStep

LEMMA SendTextTurn ==
    ASSUME IInv, NEW j \in Jobs, SendText(j)
    PROVE  Turn(j)
<1>0. Types /\ PartNos \subseteq Pieces /\ 0 \in Pieces
  BY TypesOf, Numbers DEF IInv
<1>1. pc[j] \in {"text", "plain"} /\ at[j] \in Posts /\ Open(j) /\ pc[j] \in WholeWay
  BY AtWork DEF SendText, Open, WholeWay
<1>2. UNCHANGED <<req, flag, at, cut, part, torn, processed, failed>>
  BY DEF SendText, Unsplit, Elsewhere, tallyVars
<1>3. PICK r \in {"true", "plain", "false", "flood"} :
          /\ Goto(j, r)
          /\ \/ r = "true" /\ Reaches(j, 0) /\ UNCHANGED <<lost, floods>>
             \/ r \in {"plain", "false"} /\ LosesAnswer(j, 0) /\ UNCHANGED floods
             \/ r \in {"plain", "false"} /\ UNCHANGED <<floods, historyVars>>
             \/ r = "flood" /\ Flooded /\ UNCHANGED historyVars
  BY DEF SendText
<1>4. pc' \in [Jobs -> PCs] /\ pc'[j] = r /\ pc' = [pc EXCEPT ![j] = pc'[j]]
  BY <1>0, <1>3, Going DEF PCs, Results
<1>5. floods' \in Nat /\ PieceTypes'
  <2>1. UNCHANGED historyVars => PieceTypes'
    BY <1>0, TypesStay
  <2> QED BY <1>0, <1>1, <1>3, <2>1, TypesStay, LosingAnswer, ReachingTypes
<1>6. Types'
  BY <1>0, <1>4, <1>5, TypesStay DEF Types, SendText, Unsplit, Elsewhere
<1>7. Keeps(j)
  BY <1>3, <1>4 DEF Keeps, SendText, Unsplit, Elsewhere, uploadVars, poolVars
<1>8. ASSUME UNCHANGED historyVars /\ r # "true"
      PROVE  PostsStep(j)
  BY <1>1, <1>2, <1>3, <1>4, <1>8, OpenWalks DEF historyVars, WholeWay, PartWay, PostsStep
<1>9. ASSUME r = "true" /\ Reaches(j, 0) /\ UNCHANGED <<lost, floods>>
      PROVE  PostsStep(j)
  BY <1>0, <1>1, <1>2, <1>4, <1>9, ReachingTypes DEF WholeComes, PostsStep
<1>10. ASSUME r \in {"plain", "false"} /\ LosesAnswer(j, 0)
      PROVE  PostsStep(j)
  BY <1>0, <1>1, <1>2, <1>4, <1>10, LosingAnswer DEF WholeComes, WholeWay, PostsStep
<1> QED BY <1>3, <1>6, <1>7, <1>8, <1>9, <1>10, KeepsFits DEF Turn

LEMMA DownloadTurn ==
    ASSUME IInv, NEW j \in Jobs, Download(j)
    PROVE  Turn(j)
<1>0. Types /\ PartNos \subseteq Pieces /\ 0 \in Pieces
  BY TypesOf, Numbers DEF IInv
<1>1. pc[j] = "download" /\ at[j] \in Posts /\ Open(j)
  BY AtWork DEF Download, Open
<1>2. UNCHANGED <<req, flag, at, cut, part, torn, processed, failed, got, lost, late>>
  BY DEF Download, Unsplit, Elsewhere, tallyVars, historyVars
<1>3. /\ \E r \in {"false", "flood", "ready"} : Goto(j, r)
      /\ (floods' = floods \/ Flooded) /\ (disk' = disk \/ disk' = [disk EXCEPT ![j] = @ \cup {File}])
  BY DEF Download
<1>4. /\ pc' \in [Jobs -> PCs] /\ pc'[j] \in {"false", "flood", "ready"}
      /\ pc' = [pc EXCEPT ![j] = pc'[j]]
  BY <1>0, <1>3, Going DEF PCs, Results
<1>5. DiskTypes'
  BY <1>0, <1>3, FilesAre DEF Types, DiskTypes
<1>6. Types'
  BY <1>0, <1>3, <1>4, <1>5, TypesStay DEF Types, Download, Unsplit, Elsewhere
<1>7. Walks(j)
  BY <1>1, <1>2, <1>4, OpenWalks DEF WholeWay, PartWay
<1>8. Keeps(j)
  BY <1>1, <1>4 DEF Keeps, Download, Unsplit, Elsewhere, uploadVars, poolVars
<1> QED BY <1>6, <1>7, <1>8, KeepsFits DEF Turn, PostsStep

LEMMA ReadyTurn ==
    ASSUME IInv, NEW j \in Jobs, Ready(j)
    PROVE  Turn(j)
<1>0. Types /\ PartNos \subseteq Pieces /\ 0 \in Pieces
  BY TypesOf, Numbers DEF IInv
<1>1. pc[j] = "ready" /\ at[j] \in Posts /\ Open(j)
  BY AtWork DEF Ready, Open
<1>2. UNCHANGED <<req, flag, at, cut, part, torn, processed, failed, got, lost, late>>
  BY DEF Ready, Unsplit, Elsewhere, tallyVars, historyVars
<1>3. \E r \in {"false", "direct", "split", "managed", "select"} :
          Goto(j, r) /\ (r # "false" => ~flag[j])
  BY DEF Ready, Cancelled
<1>4. /\ pc' \in [Jobs -> PCs] /\ pc' = [pc EXCEPT ![j] = pc'[j]]
      /\ pc'[j] \in {"false", "direct", "split", "managed", "select"}
      /\ pc'[j] # "false" => ~flag[j]
  BY <1>0, <1>3, Going DEF PCs, Results
<1>5. DiskTypes'
  <2>1. disk' = disk \/ \E thumb \in SUBSET {Thumb} : disk' = [disk EXCEPT ![j] = @ \cup thumb]
    BY DEF Ready
  <2> QED BY <1>0, <2>1, FilesAre DEF Types, DiskTypes
<1>6. RouteTypes'
  BY <1>0 DEF Ready, Types, RouteTypes, Accounts
<1>7. Types'
  BY <1>0, <1>4, <1>5, <1>6, TypesStay DEF Types, Ready, Unsplit, Elsewhere
<1>8. Walks(j)
  BY <1>1, <1>2, <1>4, OpenWalks DEF WholeWay, PartWay
<1>9. Keeps(j)
  BY <1>1, <1>4 DEF Keeps, Ready, Unsplit, Elsewhere, poolVars
<1> QED BY <1>7, <1>8, <1>9, KeepsFits DEF Turn, PostsStep

LEMMA DirectTurn ==
    ASSUME IInv, NEW j \in Jobs, Direct(j)
    PROVE  Turn(j)
<1>0. Types /\ PartNos \subseteq Pieces /\ 0 \in Pieces
  BY TypesOf, Numbers DEF IInv
<1>1. pc[j] = "direct" /\ at[j] \in Posts /\ Open(j) /\ pc[j] \in WholeWay
  BY AtWork DEF Direct, Open, WholeWay
<1>2. UNCHANGED <<req, flag, at, cut, part, torn, processed, failed>>
  BY DEF Direct, Unsplit, Elsewhere, tallyVars
<1>3. PICK r \in {"true", "split", "false", "flood"} :
          /\ Goto(j, r)
          /\ (floods' = floods \/ Flooded)
          /\ \/ r = "true" /\ Sent(j, 0)
             \/ r = "split" /\ LosesAnswer(j, 0)
             \/ r \in {"split", "false", "flood"} /\ UNCHANGED historyVars
  BY DEF Direct, Fails
<1>4. pc' \in [Jobs -> PCs] /\ pc'[j] = r /\ pc' = [pc EXCEPT ![j] = pc'[j]]
  BY <1>0, <1>3, Going DEF PCs, Results
<1>5. floods' \in Nat /\ PieceTypes'
  <2>1. UNCHANGED historyVars => PieceTypes'
    BY <1>0, TypesStay
  <2> QED BY <1>0, <1>1, <1>3, <2>1, TypesStay, LosingAnswer, Sending
<1>6. Types'
  BY <1>0, <1>4, <1>5, TypesStay DEF Types, Direct, Unsplit, Elsewhere
<1>7. Keeps(j)
  BY <1>3, <1>4 DEF Keeps, Direct, Unsplit, Elsewhere, uploadVars, poolVars
<1>8. ASSUME UNCHANGED historyVars /\ r # "true"
      PROVE  PostsStep(j)
  BY <1>1, <1>2, <1>3, <1>4, <1>8, OpenWalks DEF historyVars, WholeWay, PartWay, PostsStep
<1>9. ASSUME r = "true" /\ Sent(j, 0)
      PROVE  PostsStep(j)
  <2>1. CASE worker[j] = "download"
    <3>1. req[j].override
      BY <2>1 DEF IInv, RoutesFit, OwnAccount
    <3>2. UNCHANGED <<got, lost, late>>
      BY <1>0, <1>1, <1>9, <2>1, Sending
    <3> QED BY <1>1, <1>2, <1>4, <1>9, <3>1, <3>2, OpenWalks DEF WholeWay, PartWay, PostsStep
  <2>2. CASE worker[j] # "download"
    <3>1. Gains(j, 0) /\ lost' = lost
      BY <1>0, <1>1, <1>9, <2>2, Sending
    <3> QED BY <1>1, <1>2, <1>4, <1>9, <3>1 DEF WholeComes, PostsStep
  <2> QED BY <2>1, <2>2
<1>10. ASSUME r = "split" /\ LosesAnswer(j, 0)
      PROVE  PostsStep(j)
  BY <1>0, <1>1, <1>2, <1>4, <1>10, LosingAnswer DEF WholeComes, WholeWay, PostsStep
<1> QED BY <1>3, <1>6, <1>7, <1>8, <1>9, <1>10, KeepsFits DEF Turn

LEMMA SplitTurn ==
    ASSUME IInv, NEW j \in Jobs, Split(j)
    PROVE  Turn(j)
<1>0. Types /\ PartNos \subseteq Pieces /\ 0 \in Pieces
  BY TypesOf, Numbers DEF IInv
<1>1. pc[j] = "split" /\ at[j] \in Posts /\ Open(j)
  BY AtWork DEF Split, Open
<1>2. UNCHANGED <<req, flag, at, processed, failed, got, lost, late>>
  BY DEF Split, Elsewhere, tallyVars, historyVars
<1>3. CASE /\ Goto(j, "false") /\ disk' = [disk EXCEPT ![j] = @ \cup {Fragments}]
           /\ UNCHANGED <<worker, cut, part, torn>>
  <2>1. pc' \in [Jobs -> PCs] /\ pc'[j] = "false" /\ pc' = [pc EXCEPT ![j] = pc'[j]]
    BY <1>0, <1>3, Going DEF PCs, Results
  <2>2. DiskTypes'
    BY <1>0, <1>3, FilesAre DEF Types, DiskTypes
  <2>3. Types'
    BY <1>0, <1>3, <2>1, <2>2, TypesStay DEF Types, Split, Elsewhere, uploadVars
  <2>4. Walks(j)
    BY <1>1, <1>2, <1>3, <2>1, OpenWalks DEF WholeWay, PartWay
  <2>5. Keeps(j)
    BY <1>3, <2>1 DEF Keeps, Split, Elsewhere, poolVars
  <2> QED BY <2>3, <2>4, <2>5, KeepsFits DEF Turn, PostsStep
<1>4. ASSUME NEW parts \in (SUBSET PartNos) \ {{}},
             cut' = [cut EXCEPT ![j] = parts],
             \E k \in parts : (\A m \in parts : k <= m) /\ part' = [part EXCEPT ![j] = k],
             torn' = IF parts = PartNos THEN torn ELSE torn \cup {<<j, at[j]>>},
             disk' = [disk EXCEPT ![j] = @ \cup {PartFile(k) : k \in parts} \cup
                        (IF parts = PartNos THEN {} ELSE {Fragments})],
             worker' = [worker EXCEPT ![j] = Acc(j)],
             Goto(j, "part")
      PROVE  Turn(j)
  <2>1. /\ pc' \in [Jobs -> PCs] /\ pc'[j] = "part" /\ pc' = [pc EXCEPT ![j] = pc'[j]]
        /\ pc' = [pc EXCEPT ![j] = "part"]
    BY <1>0, <1>4, Going DEF PCs, Goto
  <2>2. PartTypes'
    <3>1. PartTypes
      BY <1>0 DEF Types
    <3>2. part' \in [Jobs -> PartNos] /\ cut' \in [Jobs -> SUBSET PartNos]
      BY <1>4, <3>1 DEF PartTypes
    <3>3. torn' \in SUBSET (Jobs \X Posts) /\ tries' = tries
      BY <1>1, <1>4, <3>1 DEF PartTypes, Split
    <3> QED BY <3>1, <3>2, <3>3 DEF PartTypes
  <2>3. DiskTypes'
    <3>1. {PartFile(k) : k \in parts} \cup (IF parts = PartNos THEN {} ELSE {Fragments}) \subseteq Files
      BY FilesAre
    <3> QED BY <1>0, <1>4, <3>1 DEF Types, DiskTypes
  <2>4. RouteTypes'
    <3>1. Acc(j) \in Accounts
      BY DEF Acc, Accounts
    <3> QED BY <1>0, <1>4, <3>1 DEF Split, Types, RouteTypes
  <2>5. Types'
    BY <1>0, <2>1, <2>2, <2>3, <2>4, TypesStay DEF Types, Split, Elsewhere
  <2>6. Cuts(j)
    BY <1>1, <1>2, <1>4, <2>1 DEF Cuts
  <2>7. Keeps(j)
    BY <1>4, <2>1 DEF Keeps, Split, Elsewhere, poolVars
  <2> QED BY <2>5, <2>6, <2>7, KeepsFits DEF Turn, PostsStep
<1> QED BY <1>3, <1>4 DEF Split

\* The part is through.
LEMMA PartThrough ==
    ASSUME IInv, NEW j \in Jobs, pc[j] \in {"send", "partCopy"}, pc[j] = "send" => ~flag[j],
           PartSent(j), Gains(j, part[j]),
           UNCHANGED <<req, flag, at, cut, torn, tries, processed, failed, lost>>
    PROVE  /\ pc' \in [Jobs -> PCs] /\ pc'[j] \in {"true", "part"} /\ pc' = [pc EXCEPT ![j] = pc'[j]]
           /\ PartTypes' /\ DiskTypes' /\ PartComes(j)
<1>0. Types /\ PartTypes /\ DiskTypes
  BY TypesOf DEF IInv, Types
<1>1. DiskTypes'
  BY <1>0 DEF PartSent, DiskTypes
<1>2. CASE Rest(j, part[j]) = {}
  <2>1. Goto(j, "true") /\ part' = part
    BY <1>2 DEF PartSent
  <2>2. pc' \in [Jobs -> PCs] /\ pc'[j] = "true" /\ pc' = [pc EXCEPT ![j] = pc'[j]]
    BY <1>0, <2>1, Going DEF PCs, Results
  <2>3. PartTypes'
    BY <1>0, <2>1 DEF PartTypes
  <2> QED BY <1>1, <1>2, <2>1, <2>2, <2>3 DEF PartComes
<1>3. CASE Rest(j, part[j]) # {}
  <2>1. PICK k \in Rest(j, part[j]) : /\ \A m \in Rest(j, part[j]) : k <= m
                                     /\ part' = [part EXCEPT ![j] = k]
    BY <1>3 DEF PartSent
  <2>2. Goto(j, "part")
    BY <1>3 DEF PartSent
  <2>3. pc' \in [Jobs -> PCs] /\ pc'[j] = "part" /\ pc' = [pc EXCEPT ![j] = pc'[j]]
    BY <1>0, <2>2, Going DEF PCs
  <2>4. PartTypes'
    <3>1. k \in PartNos
      BY <1>0 DEF Rest, PartTypes
    <3> QED BY <1>0, <2>1, <3>1 DEF PartTypes
  <2> QED BY <1>1, <2>1, <2>3, <2>4 DEF PartComes
<1> QED BY <1>2, <1>3

LEMMA TakePartTurn ==
    ASSUME IInv, NEW j \in Jobs, TakePart(j)
    PROVE  Turn(j)
<1>0. Types /\ PartNos \subseteq Pieces /\ 0 \in Pieces
  BY TypesOf, Numbers DEF IInv
<1>1. pc[j] = "part" /\ at[j] \in Posts
  BY AtWork DEF TakePart
<1>2. UNCHANGED <<req, flag, at, cut, part, torn, processed, failed, got, lost, late>>
  BY DEF TakePart, Unsplit, Elsewhere, tallyVars, historyVars
<1>3. \E r \in {"false", "send"} : Goto(j, r)
  BY DEF TakePart
<1>4. pc' \in [Jobs -> PCs] /\ pc' = [pc EXCEPT ![j] = pc'[j]] /\ pc'[j] \in {"false", "send"}
  BY <1>0, <1>3, Going DEF PCs, Results
<1>5. DiskTypes'
  <2>1. disk' = disk \/ \E thumb \in SUBSET {PartThumb} : disk' = [disk EXCEPT ![j] = @ \cup thumb]
    BY DEF TakePart
  <2> QED BY <1>0, <2>1, FilesAre DEF Types, DiskTypes
<1>6. PartTypes'
  BY <1>0, <1>2 DEF TakePart, Types, PartTypes
<1>7. Types'
  BY <1>0, <1>4, <1>5, <1>6, TypesStay DEF Types, TakePart, Unsplit, Elsewhere
<1>8. Walks(j)
  BY <1>1, <1>2, <1>4 DEF Walks, Open, WholeWay, PartWay
<1>9. Keeps(j)
  BY <1>1, <1>4 DEF Keeps, TakePart, Unsplit, Elsewhere, uploadVars, poolVars
<1> QED BY <1>7, <1>8, <1>9, KeepsFits DEF Turn, PostsStep

LEMMA SendPartTurn ==
    ASSUME IInv, NEW j \in Jobs, SendPart(j)
    PROVE  Turn(j)
<1>0. Types /\ PartNos \subseteq Pieces /\ 0 \in Pieces
  BY TypesOf, Numbers DEF IInv
<1>1. /\ pc[j] = "send" /\ at[j] \in Posts /\ part[j] \in PartNos /\ part[j] \in Pieces
      /\ PartTypes /\ DiskTypes
  BY <1>0, AtWork DEF SendPart, Types, PartTypes
<1>2. UNCHANGED <<req, flag, at, cut, torn, processed, failed>> /\ UNCHANGED poolVars
  BY DEF SendPart, Unsplit, Elsewhere, tallyVars
<1>3. ASSUME pc' \in [Jobs -> PCs], pc' = [pc EXCEPT ![j] = pc'[j]],
             pc'[j] \in {"send", "partCopy", "part", "cancelled", "true", "false", "flood"},
             PartTypes', DiskTypes', PieceTypes', floods' = floods \/ Flooded, PostsStep(j)
      PROVE  Turn(j)
  <2>1. Types'
    BY <1>0, <1>2, <1>3, TypesStay DEF Types, SendPart, Unsplit, Elsewhere
  <2>2. Keeps(j)
    BY <1>3 DEF Keeps, SendPart, Unsplit, Elsewhere, uploadVars, poolVars
  <2> QED BY <1>3, <2>1, <2>2, KeepsFits DEF Turn
<1>4. CASE Cancelled(j) /\ Goto(j, "cancelled") /\ UNCHANGED <<part, tries, disk, floods, historyVars>>
  <2>1. pc' \in [Jobs -> PCs] /\ pc'[j] = "cancelled" /\ pc' = [pc EXCEPT ![j] = pc'[j]]
    BY <1>0, <1>4, Going DEF PCs, Results
  <2>2. Walks(j)
    BY <1>1, <1>2, <1>4, <2>1 DEF Walks, Open, WholeWay, PartWay, historyVars
  <2>3. PartTypes' /\ DiskTypes' /\ PieceTypes'
    BY <1>0, <1>2, <1>4, TypesStay
  <2> QED BY <1>3, <1>4, <2>1, <2>2, <2>3 DEF PostsStep
<1>5. CASE ~Cancelled(j) /\ worker[j] = "own" /\ Sent(j, part[j]) /\ PartSent(j) /\ UNCHANGED <<tries, floods>>
  <2>1. PieceTypes' /\ lost' = lost /\ Gains(j, part[j])
    BY <1>1, <1>5, Sending
  <2>2. /\ pc' \in [Jobs -> PCs] /\ pc'[j] \in {"true", "part"} /\ pc' = [pc EXCEPT ![j] = pc'[j]]
        /\ PartTypes' /\ DiskTypes' /\ PartComes(j)
    BY <1>1, <1>2, <1>5, <2>1, PartThrough DEF Cancelled
  <2> QED BY <1>3, <1>5, <2>1, <2>2 DEF PostsStep
<1>6. CASE /\ ~Cancelled(j) /\ worker[j] = "download" /\ Sent(j, part[j]) /\ Goto(j, "partCopy")
           /\ UNCHANGED <<part, tries, disk, floods>>
  <2>1. PieceTypes' /\ UNCHANGED <<got, late, lost>>
    BY <1>1, <1>6, Sending
  <2>2. pc' \in [Jobs -> PCs] /\ pc'[j] = "partCopy" /\ pc' = [pc EXCEPT ![j] = pc'[j]]
    BY <1>0, <1>6, Going DEF PCs, Results
  <2>3. Walks(j)
    BY <1>1, <1>2, <1>6, <2>1, <2>2 DEF Walks, Open, WholeWay, PartWay, Cancelled
  <2>4. PartTypes' /\ DiskTypes'
    BY <1>0, <1>2, <1>6, TypesStay
  <2> QED BY <1>3, <1>6, <2>1, <2>2, <2>3, <2>4 DEF PostsStep
<1>7. CASE ~Cancelled(j) /\ Flooded /\ PartFlood(j) /\ UNCHANGED <<part, disk, historyVars>>
  <2>1. pc' = pc \/ (Goto(j, "flood") /\ ~Private(j))
    BY <1>7 DEF PartFlood
  <2>2. /\ pc' \in [Jobs -> PCs] /\ pc' = [pc EXCEPT ![j] = pc'[j]]
        /\ pc'[j] = "send" \/ (pc'[j] = "flood" /\ ~Private(j))
    BY <1>0, <1>1, <2>1, Going, Staying DEF PCs, Results
  <2>3. Walks(j)
    <3>1. Private(j)' <=> Private(j)
      BY <1>2 DEF Private
    <3> QED BY <1>1, <1>2, <1>7, <2>2, <3>1 DEF Walks, Open, WholeWay, PartWay, historyVars
  <2>4. PartTypes'
    <3>1. tries' = tries \/ tries' = [tries EXCEPT ![j] = @ + 1]
      BY <1>7 DEF PartFlood
    <3> QED BY <1>1, <1>2, <1>7, <3>1 DEF PartTypes
  <2>5. DiskTypes' /\ PieceTypes'
    BY <1>0, <1>7, TypesStay
  <2> QED BY <1>3, <1>7, <2>2, <2>3, <2>4, <2>5 DEF PostsStep
<1>8. CASE /\ ~Cancelled(j) /\ Goto(j, "false")
           /\ UNCHANGED historyVars \/ (worker[j] = "own" /\ LosesAnswer(j, part[j]))
           /\ UNCHANGED <<part, tries, disk, floods>>
  <2>1. pc' \in [Jobs -> PCs] /\ pc'[j] = "false" /\ pc' = [pc EXCEPT ![j] = pc'[j]]
    BY <1>0, <1>8, Going DEF PCs, Results
  <2>2. PartTypes' /\ DiskTypes'
    BY <1>0, <1>2, <1>8, TypesStay
  <2>3. CASE UNCHANGED historyVars
    <3>1. Walks(j)
      BY <1>1, <1>2, <1>8, <2>1, <2>3 DEF Walks, Open, WholeWay, PartWay, historyVars
    <3> QED BY <1>0, <1>3, <1>8, <2>1, <2>2, <2>3, <3>1, TypesStay DEF PostsStep
  <2>4. CASE LosesAnswer(j, part[j])
    <3>1. PieceTypes' /\ Gains(j, part[j]) /\ Loses(j)
      BY <1>1, <2>4, LosingAnswer
    <3>2. PartLoses(j)
      BY <1>1, <1>2, <1>8, <2>1, <3>1 DEF PartLoses, Cancelled
    <3> QED BY <1>3, <1>8, <2>1, <2>2, <3>1, <3>2 DEF PostsStep
  <2> QED BY <1>8, <2>3, <2>4
<1> QED BY <1>4, <1>5, <1>6, <1>7, <1>8 DEF SendPart

LEMMA CopyPartTurn ==
    ASSUME IInv, NEW j \in Jobs, CopyPart(j)
    PROVE  Turn(j)
<1>0. Types /\ PartNos \subseteq Pieces /\ 0 \in Pieces
  BY TypesOf, Numbers DEF IInv
<1>1. /\ pc[j] = "partCopy" /\ at[j] \in Posts /\ part[j] \in PartNos /\ part[j] \in Pieces
      /\ PartTypes /\ DiskTypes
  BY <1>0, AtWork DEF CopyPart, Types, PartTypes
<1>2. UNCHANGED <<req, flag, at, cut, torn, tries, processed, failed>>
  BY DEF CopyPart, Unsplit, Elsewhere, tallyVars
<1>3. ASSUME pc' \in [Jobs -> PCs], pc' = [pc EXCEPT ![j] = pc'[j]],
             pc'[j] \in {"partCopy", "part", "true", "false"},
             PartTypes', DiskTypes', PieceTypes', PostsStep(j)
      PROVE  Turn(j)
  <2>1. Types'
    BY <1>0, <1>2, <1>3, TypesStay DEF Types, CopyPart, Unsplit, Elsewhere
  <2>2. Keeps(j)
    BY <1>3 DEF Keeps, CopyPart, Unsplit, Elsewhere, uploadVars, poolVars
  <2> QED BY <1>3, <2>1, <2>2, KeepsFits DEF Turn
<1>4. CASE Reaches(j, part[j]) /\ UNCHANGED lost /\ PartSent(j)
  <2>1. PieceTypes' /\ Gains(j, part[j])
    BY <1>1, <1>4, ReachingTypes
  <2>2. /\ pc' \in [Jobs -> PCs] /\ pc'[j] \in {"true", "part"} /\ pc' = [pc EXCEPT ![j] = pc'[j]]
        /\ PartTypes' /\ DiskTypes' /\ PartComes(j)
    BY <1>1, <1>2, <1>4, <2>1, PartThrough
  <2> QED BY <1>3, <2>1, <2>2 DEF PostsStep
<1>5. CASE LosesAnswer(j, part[j]) /\ UNCHANGED <<pc, part, disk>>
  <2>1. PieceTypes' /\ Gains(j, part[j]) /\ Loses(j)
    BY <1>1, <1>5, LosingAnswer
  <2>2. pc' \in [Jobs -> PCs] /\ pc'[j] = "partCopy" /\ pc' = [pc EXCEPT ![j] = pc'[j]]
    BY <1>0, <1>1, <1>5, Staying
  <2>3. PartLoses(j)
    BY <1>1, <1>2, <1>5, <2>1, <2>2 DEF PartLoses
  <2>4. PartTypes' /\ DiskTypes'
    BY <1>0, <1>2, <1>5, TypesStay
  <2> QED BY <1>3, <2>1, <2>2, <2>3, <2>4 DEF PostsStep
<1>6. CASE /\ Goto(j, "false") /\ disk' = [disk EXCEPT ![j] = @ \ {PartFile(part[j]), PartThumb}]
           /\ UNCHANGED <<part, historyVars>>
  <2>1. pc' \in [Jobs -> PCs] /\ pc'[j] = "false" /\ pc' = [pc EXCEPT ![j] = pc'[j]]
    BY <1>0, <1>6, Going DEF PCs, Results
  <2>2. Walks(j)
    BY <1>1, <1>2, <1>6, <2>1 DEF Walks, Open, WholeWay, PartWay, historyVars
  <2>3. DiskTypes'
    BY <1>1, <1>6 DEF DiskTypes
  <2>4. PartTypes' /\ PieceTypes'
    BY <1>0, <1>2, <1>6, TypesStay
  <2> QED BY <1>3, <2>1, <2>2, <2>3, <2>4 DEF PostsStep
<1> QED BY <1>4, <1>5, <1>6 DEF CopyPart

LEMMA ManagedTurn ==
    ASSUME IInv, NEW j \in Jobs, Managed(j)
    PROVE  Turn(j)
<1>0. Types /\ PartNos \subseteq Pieces /\ 0 \in Pieces
  BY TypesOf, Numbers DEF IInv
<1>1. pc[j] \in {"managed"} /\ at[j] \in Posts /\ Open(j) /\ pc[j] \in WholeWay
  BY AtWork DEF Managed, Open, WholeWay
<1>2. UNCHANGED <<req, flag, at, cut, part, torn, processed, failed>>
  BY DEF Managed, Unsplit, Elsewhere, tallyVars
<1>3. PICK r \in {"select", "true"} :
          /\ Goto(j, r)
          /\ \/ r = "true" /\ Reaches(j, 0) /\ UNCHANGED lost
             \/ r # "true" /\ LosesAnswer(j, 0)
             \/ r # "true" /\ UNCHANGED historyVars
  BY DEF Managed
<1>4. pc' \in [Jobs -> PCs] /\ pc'[j] = r /\ pc' = [pc EXCEPT ![j] = pc'[j]]
  BY <1>0, <1>3, Going DEF PCs, Results
<1>5. PieceTypes'
  <2>1. UNCHANGED historyVars => PieceTypes'
    BY <1>0, TypesStay
  <2> QED BY <1>0, <1>1, <1>3, <2>1, LosingAnswer, ReachingTypes
<1>6. Types'
  BY <1>0, <1>4, <1>5, TypesStay DEF Types, Managed, Unsplit, Elsewhere
<1>7. Keeps(j)
  BY <1>3, <1>4 DEF Keeps, Managed, Unsplit, Elsewhere, uploadVars, poolVars
<1>8. ASSUME UNCHANGED historyVars /\ r # "true"
      PROVE  PostsStep(j)
  BY <1>1, <1>2, <1>3, <1>4, <1>8, OpenWalks DEF historyVars, WholeWay, PartWay, PostsStep
<1>9. ASSUME r = "true" /\ Reaches(j, 0) /\ UNCHANGED lost
      PROVE  PostsStep(j)
  BY <1>0, <1>1, <1>2, <1>4, <1>9, ReachingTypes DEF WholeComes, PostsStep
<1>10. ASSUME r # "true" /\ LosesAnswer(j, 0)
       PROVE  PostsStep(j)
  BY <1>0, <1>1, <1>2, <1>3, <1>4, <1>10, LosingAnswer DEF WholeComes, WholeWay, PostsStep
<1> QED BY <1>3, <1>6, <1>7, <1>8, <1>9, <1>10, KeepsFits DEF Turn

LEMMA CopyTurn ==
    ASSUME IInv, NEW j \in Jobs, Copy(j)
    PROVE  Turn(j)
<1>0. Types /\ PartNos \subseteq Pieces /\ 0 \in Pieces
  BY TypesOf, Numbers DEF IInv
<1>1. pc[j] \in {"copy"} /\ at[j] \in Posts /\ Open(j) /\ pc[j] \in WholeWay
  BY AtWork DEF Copy, Open, WholeWay
<1>2. UNCHANGED <<req, flag, at, cut, part, torn, processed, failed>>
  BY DEF Copy, Unsplit, Elsewhere, tallyVars
<1>3. PICK r \in {"own", "copy", "true"} :
          /\ Goto(j, r) \/ (r = pc[j] /\ pc' = pc)
          /\ \/ r = "true" /\ Reaches(j, 0) /\ UNCHANGED lost
             \/ r # "true" /\ LosesAnswer(j, 0)
             \/ r # "true" /\ UNCHANGED historyVars
  BY DEF Copy, CopyFails
<1>4. pc' \in [Jobs -> PCs] /\ pc'[j] = r /\ pc' = [pc EXCEPT ![j] = pc'[j]]
  BY <1>0, <1>3, Going, Staying DEF PCs, Results
<1>5. PieceTypes'
  <2>1. UNCHANGED historyVars => PieceTypes'
    BY <1>0, TypesStay
  <2> QED BY <1>0, <1>1, <1>3, <2>1, LosingAnswer, ReachingTypes
<1>6. Types'
  BY <1>0, <1>4, <1>5, TypesStay DEF Types, Copy, Unsplit, Elsewhere
<1>7. Keeps(j)
  BY <1>3, <1>4 DEF Keeps, Copy, Unsplit, Elsewhere, uploadVars, poolVars
<1>8. ASSUME UNCHANGED historyVars /\ r # "true"
      PROVE  PostsStep(j)
  BY <1>1, <1>2, <1>3, <1>4, <1>8, OpenWalks DEF historyVars, WholeWay, PartWay, PostsStep
<1>9. ASSUME r = "true" /\ Reaches(j, 0) /\ UNCHANGED lost
      PROVE  PostsStep(j)
  BY <1>0, <1>1, <1>2, <1>4, <1>9, ReachingTypes DEF WholeComes, PostsStep
<1>10. ASSUME r # "true" /\ LosesAnswer(j, 0)
       PROVE  PostsStep(j)
  BY <1>0, <1>1, <1>2, <1>3, <1>4, <1>10, LosingAnswer DEF WholeComes, WholeWay, PostsStep
<1> QED BY <1>3, <1>6, <1>7, <1>8, <1>9, <1>10, KeepsFits DEF Turn

LEMMA OwnSessionTurn ==
    ASSUME IInv, NEW j \in Jobs, OwnSession(j)
    PROVE  Turn(j)
<1>0. Types /\ PartNos \subseteq Pieces /\ 0 \in Pieces
  BY TypesOf, Numbers DEF IInv
<1>1. pc[j] \in {"own", "skip"} /\ at[j] \in Posts /\ Open(j) /\ pc[j] \in WholeWay
  BY AtWork DEF OwnSession, Open, WholeWay
<1>2. UNCHANGED <<req, flag, at, cut, part, torn, processed, failed>>
  BY DEF OwnSession, Unsplit, Elsewhere, tallyVars
<1>3. PICK r \in {"false", "flood", "true"} :
          /\ Goto(j, r)
          /\ \/ r = "true" /\ Reaches(j, 0) /\ UNCHANGED lost
             \/ r # "true" /\ LosesAnswer(j, 0)
             \/ r # "true" /\ UNCHANGED historyVars
  BY DEF OwnSession
<1>4. pc' \in [Jobs -> PCs] /\ pc'[j] = r /\ pc' = [pc EXCEPT ![j] = pc'[j]]
  BY <1>0, <1>3, Going DEF PCs, Results
<1>5. PieceTypes'
  <2>1. UNCHANGED historyVars => PieceTypes'
    BY <1>0, TypesStay
  <2> QED BY <1>0, <1>1, <1>3, <2>1, LosingAnswer, ReachingTypes
<1>6. Types'
  BY <1>0, <1>4, <1>5, TypesStay DEF Types, OwnSession, Unsplit, Elsewhere
<1>7. Keeps(j)
  BY <1>3, <1>4 DEF Keeps, OwnSession, Unsplit, Elsewhere, uploadVars, poolVars
<1>8. ASSUME UNCHANGED historyVars /\ r # "true"
      PROVE  PostsStep(j)
  BY <1>1, <1>2, <1>3, <1>4, <1>8, OpenWalks DEF historyVars, WholeWay, PartWay, PostsStep
<1>9. ASSUME r = "true" /\ Reaches(j, 0) /\ UNCHANGED lost
      PROVE  PostsStep(j)
  BY <1>0, <1>1, <1>2, <1>4, <1>9, ReachingTypes DEF WholeComes, PostsStep
<1>10. ASSUME r # "true" /\ LosesAnswer(j, 0)
       PROVE  PostsStep(j)
  BY <1>0, <1>1, <1>2, <1>3, <1>4, <1>10, LosingAnswer DEF WholeComes, WholeWay, PostsStep
<1> QED BY <1>3, <1>6, <1>7, <1>8, <1>9, <1>10, KeepsFits DEF Turn

LEMMA AskTurn ==
    ASSUME IInv, NEW j \in Jobs, Ask(j)
    PROVE  Turn(j)
<1>0. Types /\ PartNos \subseteq Pieces /\ 0 \in Pieces
  BY TypesOf, Numbers DEF IInv
<1>1. pc[j] = "ask" /\ at[j] \in Posts /\ Open(j)
  BY AtWork DEF Ask, Open, WholeWay
<1>2. UNCHANGED <<req, flag, at, cut, part, torn, processed, failed, got, lost, late>>
  BY DEF Ask, Unsplit, Elsewhere, tallyVars, historyVars
<1>3. (\E r \in {"skip", "poll", "false", "flood"} : Goto(j, r)) /\ (floods' = floods \/ Flooded)
  BY DEF Ask, Fails
<1>4. pc' \in [Jobs -> PCs] /\ pc' = [pc EXCEPT ![j] = pc'[j]] /\ pc'[j] \in {"skip", "poll", "false", "flood"}
  BY <1>0, <1>3, Going DEF PCs, Results
<1>5. Types'
  BY <1>0, <1>3, <1>4, TypesStay DEF Types, Ask, Unsplit, Elsewhere
<1>6. Walks(j)
  BY <1>1, <1>2, <1>4, OpenWalks DEF WholeWay, PartWay
<1>7. Keeps(j)
  BY <1>1, <1>4 DEF Keeps, Ask, Unsplit, Elsewhere, uploadVars, poolVars
<1> QED BY <1>5, <1>6, <1>7, KeepsFits DEF Turn, PostsStep

LEMMA GiveUpTurn ==
    ASSUME IInv, NEW j \in Jobs, GiveUp(j)
    PROVE  Turn(j)
<1>0. Types /\ PartNos \subseteq Pieces /\ 0 \in Pieces
  BY TypesOf, Numbers DEF IInv
<1>1. pc[j] = "poll" /\ at[j] \in Posts /\ Open(j)
  BY AtWork DEF GiveUp, Open, WholeWay
<1>2. UNCHANGED <<req, flag, at, cut, part, torn, processed, failed, got, lost, late>>
  BY DEF GiveUp, Unsplit, Elsewhere, tallyVars, historyVars
<1>3. (\E r \in {"flood"} : Goto(j, r)) /\ (floods' = floods \/ Flooded)
  BY DEF GiveUp
<1>4. pc' \in [Jobs -> PCs] /\ pc' = [pc EXCEPT ![j] = pc'[j]] /\ pc'[j] \in {"flood"}
  BY <1>0, <1>3, Going DEF PCs, Results
<1>5. Types'
  BY <1>0, <1>3, <1>4, TypesStay DEF Types, GiveUp, Unsplit, Elsewhere
<1>6. Walks(j)
  BY <1>1, <1>2, <1>4, OpenWalks DEF WholeWay, PartWay
<1>7. Keeps(j)
  BY <1>1, <1>4 DEF Keeps, GiveUp, Unsplit, Elsewhere, uploadVars, poolVars
<1> QED BY <1>5, <1>6, <1>7, KeepsFits DEF Turn, PostsStep

\* A job borrows an index of the pool.
LEMMA Borrowing ==
    ASSUME IInv, NEW j \in Jobs, NEW i \in DOMAIN pool, Borrow(j, i)
    PROVE  /\ i \in Nat \ {0} /\ pool[i] \in Sessions
           /\ route' \in [Jobs -> Nat] /\ cand' \in [Jobs -> Accounts]
           /\ route'[j] = i /\ cand'[j] = pool[i]
           /\ \A d \in Jobs \ {j} : route'[d] = route[d] /\ cand'[d] = cand[d]
<1>1. pool \in Seq(Sessions) /\ route \in [Jobs -> Nat] /\ cand \in [Jobs -> Accounts]
  BY DEF IInv, TypeOK, PoolTypeOK
<1>2. i \in Nat \ {0} /\ pool[i] \in Sessions /\ pool[i] \in Accounts
  BY <1>1 DEF Accounts
<1>3. route' = [route EXCEPT ![j] = i] /\ cand' = [cand EXCEPT ![j] = pool[i]]
  BY DEF Borrow
<1> QED BY <1>1, <1>2, <1>3

\* Or takes another account, and no index.
LEMMA Unborrowing ==
    ASSUME IInv, NEW j \in Jobs, NEW a \in {"own", Acc(j)}, cand' = [cand EXCEPT ![j] = a],
           route' = [route EXCEPT ![j] = None]
    PROVE  /\ route' \in [Jobs -> Nat] /\ cand' \in [Jobs -> Accounts]
           /\ route'[j] = None /\ cand'[j] = a
           /\ \A d \in Jobs \ {j} : route'[d] = route[d] /\ cand'[d] = cand[d]
<1>1. route \in [Jobs -> Nat] /\ cand \in [Jobs -> Accounts] /\ None \in Nat /\ a \in Accounts
  BY DEF IInv, TypeOK, Acc, Accounts, None
<1> QED BY <1>1

\* A job takes up the session it has chosen.
LEMMA Switching ==
    ASSUME IInv, NEW j \in Jobs, worker' = [worker EXCEPT ![j] = cand[j]]
    PROVE  /\ worker' \in [Jobs -> Accounts] /\ worker'[j] = cand[j]
           /\ \A d \in Jobs \ {j} : worker'[d] = worker[d]
BY DEF IInv, TypeOK

\* The pool moves its index on.
LEMMA Giving ==
    ASSUME IInv, NEW i \in DOMAIN pool, NEW stopped, Gives(i, stopped)
    PROVE  next' \in Nat /\ next' \in DOMAIN pool
<1>1. pool \in Seq(Sessions)
  BY DEF IInv, TypeOK, PoolTypeOK
<1> QED BY <1>1 DEF Gives, Following

LEMMA PoolTypesStay ==
    ASSUME IInv, pool' = pool, reloads' = reloads,
           next' = next \/ (next' \in Nat /\ next' \in DOMAIN pool),
           paused' \subseteq Nat \ {0}, fatal' \subseteq Nat \ {0}, guilty' \subseteq Sessions
    PROVE  PoolTypeOK'
BY DEF IInv, TypeOK, PoolTypeOK

LEMMA RouteFacts ==
    ASSUME IInv, NEW j \in Jobs
    PROVE  /\ Types /\ PoolTypeOK /\ RouteTypes /\ Borrowed(j) /\ OwnAccount(j) /\ RouteFits(j)
           /\ OnlyGuiltyPaused /\ route[j] \in Nat /\ None = 0
           /\ paused \subseteq Nat \ {0} /\ fatal \subseteq Nat \ {0} /\ guilty \subseteq Sessions
           /\ \A a \in Sessions : a # "own" /\ a # "download"
<1>1. Types /\ Borrowed(j) /\ OwnAccount(j) /\ RouteFits(j) /\ OnlyGuiltyPaused
  BY TypesOf DEF IInv, RoutesFit
<1>2. PoolTypeOK /\ RouteTypes
  BY <1>1 DEF Types
<1>3. \A a \in Sessions : a # "own" /\ a # "download"
  BY MediaDeliveryAssumption
<1> QED BY <1>1, <1>2, <1>3 DEF PoolTypeOK, RouteTypes, None

\* An index is disabled when its session has blocked the bot.
LEMMA Disabling ==
    ASSUME IInv, NEW j \in Jobs, route[j] # None, Disable(j)
    PROVE  /\ UNCHANGED <<pool, paused, reloads>> /\ guilty \subseteq guilty' /\ cand[j] \in guilty'
           /\ fatal' \subseteq Nat \ {0} /\ guilty' \subseteq Sessions /\ OnlyGuiltyPaused'
<1>1. cand[j] \in Sessions /\ route[j] \in Nat \ {0}
  BY RouteFacts DEF Borrowed
<1>2. /\ fatal' = fatal \cup {route[j]} /\ guilty' = guilty \cup {cand[j]}
      /\ UNCHANGED <<pool, paused, reloads>>
  BY DEF Disable
<1>3. OnlyGuiltyPaused'
  <2> SUFFICES ASSUME reloads = 0, NEW i \in DOMAIN pool, i \in paused \cup fatal \cup {route[j]}
               PROVE  pool[i] \in guilty'
    BY <1>2 DEF OnlyGuiltyPaused
  <2>1. CASE i = route[j]
    BY <1>1, <1>2, <2>1, RouteFacts DEF RouteFits
  <2>2. CASE i \in paused \cup fatal
    BY <1>2, <2>2, RouteFacts DEF OnlyGuiltyPaused
  <2> QED BY <2>1, <2>2
<1> QED BY <1>1, <1>2, <1>3, RouteFacts

LEMMA SelectTurn ==
    ASSUME IInv, NEW j \in Jobs, Select(j)
    PROVE  Turn(j)
<1>0. Types /\ PartNos \subseteq Pieces /\ 0 \in Pieces
  BY TypesOf, Numbers DEF IInv
<1>1. pc[j] = "select" /\ at[j] \in Posts /\ Open(j) /\ Goto(j, "create") /\ "create" \in PCs
  BY AtWork DEF Select, Open, WholeWay, PCs
<1>2. /\ UNCHANGED <<req, flag, at, cut, part, torn, processed, failed, got, lost, late>>
      /\ UNCHANGED <<pool, paused, fatal, reloads, guilty, worker>>
  BY DEF Select, Unsplit, Elsewhere, tallyVars, historyVars
<1>3. /\ pc' \in [Jobs -> PCs] /\ pc' = [pc EXCEPT ![j] = pc'[j]] /\ pc'[j] = "create"
      /\ \A d \in Jobs \ {j} : pc'[d] = pc[d]
  BY <1>0, <1>1, Going
<1>4. /\ next' = next \/ (next' \in Nat /\ next' \in DOMAIN pool)
      /\ route' \in [Jobs -> Nat] /\ cand' \in [Jobs -> Accounts]
      /\ \A d \in Jobs \ {j} : route'[d] = route[d] /\ cand'[d] = cand[d]
      /\ \/ route'[j] = None /\ cand'[j] = "own"
         \/ route'[j] \in DOMAIN pool /\ cand'[j] = pool[route'[j]] /\ pool[route'[j]] \in Sessions
  <2>1. CASE \E i \in DOMAIN pool : Gives(i, paused \cup fatal) /\ Borrow(j, i)
    BY <2>1, Borrowing, Giving
  <2>2. CASE /\ route' = [route EXCEPT ![j] = None] /\ cand' = [cand EXCEPT ![j] = "own"]
             /\ UNCHANGED next
    BY <2>2, Unborrowing
  <2> QED BY <2>1, <2>2 DEF Select
<1>5. PoolTypeOK' /\ RouteTypes' /\ PartTypes'
  <2>1. PoolTypeOK'
    BY <1>2, <1>4, RouteFacts, PoolTypesStay
  <2>2. RouteTypes'
    BY <1>2, <1>4, RouteFacts DEF RouteTypes
  <2>3. PartTypes'
    BY <1>0, <1>2 DEF Select, Types, PartTypes
  <2> QED BY <2>1, <2>2, <2>3
<1>6. Types'
  BY <1>0, <1>3, <1>5, TypesStay DEF Types, Select, Unsplit, Elsewhere
<1>7. Walks(j)
  BY <1>1, <1>2, <1>3, OpenWalks DEF WholeWay, PartWay
<1>8. RoutesStep(j)
  <2>1. Borrowed(j)' /\ RouteFits(j)'
    BY <1>2, <1>3, <1>4 DEF Borrowed, RouteFits
  <2>2. OwnAccount(j)'
    BY <1>2, <1>4, RouteFacts DEF OwnAccount
  <2>3. OnlyGuiltyPaused'
    BY <1>2, RouteFacts DEF OnlyGuiltyPaused
  <2> QED BY <1>2, <1>3, <1>4, <2>1, <2>2, <2>3 DEF RoutesStep, RoutesFit
<1> QED BY <1>6, <1>7, <1>8 DEF Turn, PostsStep

\* A job begins to upload with the session it has chosen, or fails.
LEMMA TakesUp ==
    ASSUME IInv, NEW j \in Jobs, pc' \in [Jobs -> PCs], pc'[j] \in {"upload", "false", "flood"},
           \A d \in Jobs \ {j} : pc'[d] = pc[d],
           (worker' = worker /\ pc'[j] # "upload") \/ worker' = [worker EXCEPT ![j] = cand[j]],
           UNCHANGED <<req, pool, paused, fatal, reloads, guilty, route, cand>>
    PROVE  RoutesStep(j)
<1>1. \A d \in Jobs \ {j} : worker'[d] = worker[d]
  BY Switching
<1>2. worker'[j] = cand[j] \/ (worker'[j] = worker[j] /\ pc'[j] # "upload")
  BY Switching
<1>3. Borrowed(j)' /\ OwnAccount(j)' /\ RouteFits(j)'
  BY <1>2, RouteFacts DEF Borrowed, OwnAccount, RouteFits
<1>4. OnlyGuiltyPaused'
  BY RouteFacts DEF OnlyGuiltyPaused
<1> QED BY <1>1, <1>3, <1>4 DEF RoutesStep, RoutesFit

LEMMA CreateOwnTurn ==
    ASSUME IInv, NEW j \in Jobs, CreateOwn(j)
    PROVE  Turn(j)
<1>0. Types /\ PartNos \subseteq Pieces /\ 0 \in Pieces
  BY TypesOf, Numbers DEF IInv
<1>1. pc[j] = "createOwn" /\ at[j] \in Posts /\ Open(j)
  BY AtWork DEF CreateOwn, Open, WholeWay
<1>2. /\ UNCHANGED <<req, flag, at, cut, part, torn, processed, failed, got, lost, late>>
      /\ UNCHANGED <<pool, paused, fatal, reloads, guilty, route, cand>>
  BY DEF CreateOwn, Unsplit, Elsewhere, tallyVars, historyVars, Fails, GetsWorker, poolVars, uploadVars
<1>3. /\ \E r \in {"upload", "false", "flood"} :
            /\ Goto(j, r)
            /\ (worker' = worker /\ r # "upload") \/ worker' = [worker EXCEPT ![j] = cand[j]]
      /\ (floods' = floods \/ Flooded) /\ (tries' = tries \/ tries' = [tries EXCEPT ![j] = 1])
  BY DEF CreateOwn, Fails, GetsWorker, uploadVars
<1>4. /\ pc' \in [Jobs -> PCs] /\ pc' = [pc EXCEPT ![j] = pc'[j]]
      /\ pc'[j] \in {"upload", "false", "flood"} /\ \A d \in Jobs \ {j} : pc'[d] = pc[d]
      /\ (worker' = worker /\ pc'[j] # "upload") \/ worker' = [worker EXCEPT ![j] = cand[j]]
  BY <1>0, <1>3, Going DEF PCs, Results
<1>5. RouteTypes' /\ PartTypes'
  <2>1. RouteTypes'
    BY <1>2, <1>3, RouteFacts, Switching DEF RouteTypes
  <2>2. PartTypes'
    BY <1>0, <1>2, <1>3 DEF Types, PartTypes
  <2> QED BY <2>1, <2>2
<1>6. Types'
  BY <1>0, <1>3, <1>4, <1>5, TypesStay DEF Types, CreateOwn, Unsplit, Elsewhere
<1>7. Walks(j)
  BY <1>1, <1>2, <1>4, OpenWalks DEF WholeWay, PartWay
<1>8. RoutesStep(j)
  BY <1>2, <1>4, TakesUp
<1> QED BY <1>6, <1>7, <1>8 DEF Turn, PostsStep

LEMMA CreateTurn ==
    ASSUME IInv, NEW j \in Jobs, Create(j)
    PROVE  Turn(j)
<1>0. Types /\ PartNos \subseteq Pieces /\ 0 \in Pieces
  BY TypesOf, Numbers DEF IInv
<1>1. pc[j] = "create" /\ at[j] \in Posts /\ Open(j)
  BY AtWork DEF Create, Open, WholeWay
<1>2. UNCHANGED <<req, flag, at, cut, part, torn, processed, failed, got, lost, late>>
  BY DEF Create, Unsplit, Elsewhere, tallyVars, historyVars
<1>3. ASSUME NEW r \in {"upload", "false", "flood", "create", "createOwn"}, Goto(j, r),
             PoolTypeOK', RouteTypes', floods' = floods \/ Flooded,
             tries' = tries \/ \E n \in Nat : tries' = [tries EXCEPT ![j] = n],
             RoutesStep(j)
      PROVE  Turn(j)
  <2>1. /\ pc' \in [Jobs -> PCs] /\ pc' = [pc EXCEPT ![j] = pc'[j]] /\ pc'[j] = r
        /\ \A d \in Jobs \ {j} : pc'[d] = pc[d]
    BY <1>0, <1>3, Going DEF PCs, Results
  <2>2. PartTypes'
    BY <1>0, <1>2, <1>3 DEF Types, PartTypes
  <2>3. Types'
    BY <1>0, <1>3, <2>1, <2>2, TypesStay DEF Types, Create, Unsplit, Elsewhere
  <2>4. Walks(j)
    BY <1>1, <1>2, <2>1, OpenWalks DEF WholeWay, PartWay
  <2> QED BY <1>3, <2>1, <2>3, <2>4 DEF Turn, PostsStep
<1>4. ASSUME NEW r \in {"upload", "false", "flood", "create", "createOwn"}, Goto(j, r)
      PROVE  /\ pc' \in [Jobs -> PCs] /\ pc'[j] = r /\ \A d \in Jobs \ {j} : pc'[d] = pc[d]
  BY <1>0, <1>4, Going DEF PCs, Results
<1>5. CASE GetsWorker(j) /\ UNCHANGED <<poolVars, route, cand, floods>>
  <2>1. RouteTypes'
    BY <1>5, RouteFacts, Switching DEF RouteTypes, GetsWorker
  <2>2. PoolTypeOK'
    BY <1>0, <1>5, TypesStay
  <2>3. RoutesStep(j)
    BY <1>2, <1>4, <1>5, TakesUp DEF GetsWorker, poolVars
  <2> QED BY <1>3, <1>5, <2>1, <2>2, <2>3 DEF GetsWorker
<1>6. CASE Fails(j) /\ UNCHANGED <<poolVars, uploadVars, tries>>
  <2>1. PICK r \in {"false", "flood"} : Goto(j, r) /\ (floods' = floods \/ Flooded)
    BY <1>6 DEF Fails
  <2>2. PoolTypeOK' /\ RouteTypes'
    BY <1>0, <1>6, TypesStay
  <2>3. RoutesStep(j)
    BY <1>2, <1>4, <1>6, <2>1, TakesUp DEF uploadVars, poolVars
  <2> QED BY <1>3, <1>6, <2>1, <2>2, <2>3
<1>7. CASE /\ route[j] = None /\ cand' = [cand EXCEPT ![j] = Acc(j)] /\ Goto(j, "createOwn")
           /\ UNCHANGED <<poolVars, route, worker, tries, floods>>
  <2>1. /\ route' = [route EXCEPT ![j] = None]
        /\ UNCHANGED <<pool, paused, fatal, reloads, guilty, worker>>
    BY <1>7, RouteFacts DEF RouteTypes, poolVars
  <2>2. /\ route' \in [Jobs -> Nat] /\ cand' \in [Jobs -> Accounts]
        /\ route'[j] = None /\ cand'[j] = Acc(j)
        /\ \A d \in Jobs \ {j} : route'[d] = route[d] /\ cand'[d] = cand[d]
    BY <1>7, <2>1, Unborrowing
  <2>3. PoolTypeOK' /\ RouteTypes'
    BY <1>0, <1>7, <2>2, TypesStay, RouteFacts DEF RouteTypes
  <2>4. RoutesStep(j)
    <3>1. pc'[j] = "createOwn" /\ \A d \in Jobs \ {j} : pc'[d] = pc[d]
      BY <1>4, <1>7
    <3>2. Borrowed(j)' /\ RouteFits(j)'
      BY <2>2, <3>1 DEF Borrowed, RouteFits
    <3>3. OwnAccount(j)'
      BY <1>2, <1>7, <2>2, RouteFacts DEF OwnAccount, Acc
    <3>4. OnlyGuiltyPaused'
      BY <2>1, RouteFacts DEF OnlyGuiltyPaused
    <3> QED BY <1>2, <1>7, <2>1, <2>2, <3>1, <3>2, <3>3, <3>4 DEF RoutesStep, RoutesFit
  <2> QED BY <1>3, <1>7, <2>3, <2>4
<1>8. ASSUME route[j] # None, Disable(j), UNCHANGED <<worker, floods>>,
             NEW r \in {"create", "createOwn", "false"}, Goto(j, r),
             tries' = tries \/ tries' = [tries EXCEPT ![j] = @ + 1],
             next' = next \/ (next' \in Nat /\ next' \in DOMAIN pool),
             route' \in [Jobs -> Nat], cand' \in [Jobs -> Accounts],
             \A d \in Jobs \ {j} : route'[d] = route[d] /\ cand'[d] = cand[d],
             \/ route'[j] = None /\ cand'[j] = Acc(j)
             \/ route'[j] \in DOMAIN pool /\ cand'[j] = pool[route'[j]] /\ pool[route'[j]] \in Sessions
      PROVE  Turn(j)
  <2>1. /\ UNCHANGED <<pool, paused, reloads>> /\ guilty \subseteq guilty'
        /\ fatal' \subseteq Nat \ {0} /\ guilty' \subseteq Sessions /\ OnlyGuiltyPaused'
    BY <1>8, Disabling
  <2>2. PoolTypeOK' /\ RouteTypes'
    BY <1>8, <2>1, RouteFacts, PoolTypesStay DEF RouteTypes
  <2>3. \E n \in Nat : tries' = tries \/ tries' = [tries EXCEPT ![j] = n]
    BY <1>0, <1>8 DEF Types, PartTypes
  <2>4. pc'[j] = r /\ \A d \in Jobs \ {j} : pc'[d] = pc[d]
    BY <1>4, <1>8
  <2>5. Borrowed(j)' /\ RouteFits(j)'
    BY <1>8, <2>1, <2>4 DEF Borrowed, RouteFits
  <2>6. OwnAccount(j)'
    BY <1>2, <1>8, RouteFacts DEF OwnAccount, Acc
  <2>7. RoutesStep(j)
    BY <1>2, <1>8, <2>1, <2>4, <2>5, <2>6 DEF RoutesStep, RoutesFit
  <2> QED BY <1>3, <1>8, <2>2, <2>3, <2>7
<1>9. CASE route[j] # None /\ Disable(j) /\ UNCHANGED <<worker, floods>>
  <2> DEFINE barred == paused \cup fatal \cup {route[j]}
  <2>1. ASSUME NEW i \in DOMAIN pool, Gives(i, barred), Borrow(j, i),
               tries' = [tries EXCEPT ![j] = @ + 1],
               Goto(j, IF tries[j] < CreateTries THEN "create" ELSE "false")
        PROVE  Turn(j)
    BY <1>8, <1>9, <2>1, Borrowing, Giving
  <2>2. ASSUME route' = [route EXCEPT ![j] = None], cand' = [cand EXCEPT ![j] = Acc(j)],
               Goto(j, "createOwn"), UNCHANGED <<next, tries>>
        PROVE  Turn(j)
    BY <1>8, <1>9, <2>2, Unborrowing
  <2> QED BY <1>1, <1>5, <1>6, <1>7, <1>9, <2>1, <2>2 DEF Create
<1> QED BY <1>5, <1>6, <1>7, <1>9 DEF Create

\* A session that floods rests, and its index stands for it.
LEMMA Flooding ==
    ASSUME IInv, NEW j \in Jobs, pc[j] = "upload", route[j] # None, PoolFlood(j)
    PROVE  /\ UNCHANGED <<pool, fatal, reloads>> /\ guilty \subseteq guilty' /\ PoolTypeOK'
           /\ OnlyGuiltyPaused' /\ route' \in [Jobs -> Nat] /\ cand' \in [Jobs -> Accounts]
           /\ \A d \in Jobs \ {j} : route'[d] = route[d] /\ cand'[d] = cand[d]
           /\ \/ /\ Goto(j, "recreate") /\ route'[j] \in DOMAIN pool
                 /\ cand'[j] = pool[route'[j]] /\ pool[route'[j]] \in Sessions /\ route'[j] # None
              \/ \E r \in {"flood", "ask"} : Goto(j, r) /\ route'[j] = route[j] /\ cand'[j] = cand[j]
<1>1. /\ UNCHANGED <<pool, fatal, reloads>> /\ guilty' = guilty \cup {worker[j]}
      /\ paused' = paused \cup {route[j]}
  BY DEF PoolFlood, Pause
<1>2. route[j] \in Nat \ {0} /\ worker[j] \in Sessions
  BY RouteFacts DEF Borrowed
<1>3. OnlyGuiltyPaused'
  <2> SUFFICES ASSUME reloads = 0, NEW i \in DOMAIN pool, i \in paused \cup fatal \cup {route[j]}
               PROVE  pool[i] \in guilty'
    BY <1>1 DEF OnlyGuiltyPaused
  <2>1. CASE i = route[j]
    BY <1>1, <1>2, <2>1, RouteFacts DEF RouteFits
  <2>2. CASE i \in paused \cup fatal
    BY <1>1, <2>2, RouteFacts DEF OnlyGuiltyPaused
  <2> QED BY <2>1, <2>2
<1>4. ASSUME next' = next \/ (next' \in Nat /\ next' \in DOMAIN pool)
      PROVE  PoolTypeOK'
  BY <1>1, <1>2, <1>4, RouteFacts, PoolTypesStay
<1> DEFINE barred == paused \cup {route[j]} \cup fatal
<1>5. ASSUME NEW i \in DOMAIN pool, Gives(i, barred), Borrow(j, i), Goto(j, "recreate")
      PROVE  /\ route' \in [Jobs -> Nat] /\ cand' \in [Jobs -> Accounts] /\ PoolTypeOK'
             /\ \A d \in Jobs \ {j} : route'[d] = route[d] /\ cand'[d] = cand[d]
             /\ Goto(j, "recreate") /\ route'[j] \in DOMAIN pool
             /\ cand'[j] = pool[route'[j]] /\ pool[route'[j]] \in Sessions /\ route'[j] # None
  BY <1>4, <1>5, Borrowing, Giving, RouteFacts
<1>6. CASE UNCHANGED <<next, route, cand>> /\ \E r \in {"flood", "ask"} : Goto(j, r)
  BY <1>1, <1>3, <1>4, <1>6, RouteFacts DEF RouteTypes
<1>7. CASE \E i \in DOMAIN pool : Gives(i, barred) /\ Borrow(j, i) /\ Goto(j, "recreate")
  BY <1>1, <1>3, <1>5, <1>7
<1> QED BY <1>6, <1>7 DEF PoolFlood

LEMMA UploadTurn ==
    ASSUME IInv, NEW j \in Jobs, Upload(j)
    PROVE  Turn(j)
<1>0. Types /\ PartNos \subseteq Pieces /\ 0 \in Pieces
  BY TypesOf, Numbers DEF IInv
<1>1. pc[j] = "upload" /\ at[j] \in Posts /\ Open(j) /\ pc[j] \in WholeWay
  BY AtWork DEF Upload, Open, WholeWay
<1>2. /\ UNCHANGED <<req, flag, at, cut, part, torn, processed, failed>> /\ UNCHANGED <<part, tries, disk, worker>>
  BY DEF Upload, Unsplit, Elsewhere, tallyVars
<1>3. ASSUME NEW r \in PCs, Goto(j, r), PieceTypes', floods' = floods \/ Flooded, PoolTypeOK', RouteTypes',
             PostsStep(j), RoutesStep(j)
      PROVE  Turn(j)
  <2>1. pc' \in [Jobs -> PCs]
    BY <1>0, <1>3, Going
  <2>2. Types'
    BY <1>0, <1>2, <1>3, <2>1, TypesStay DEF Types, Upload, Unsplit, Elsewhere
  <2> QED BY <1>3, <2>2 DEF Turn
<1>4. ASSUME NEW r \in {"copy", "own", "false", "flood", "recreate", "ask"}, Goto(j, r),
             UNCHANGED historyVars
      PROVE  r \in PCs /\ PieceTypes' /\ PostsStep(j)
  <2>1. r \in PCs /\ pc'[j] = r /\ pc' = [pc EXCEPT ![j] = pc'[j]]
    BY <1>0, <1>4, Going DEF PCs, Results
  <2>2. PieceTypes'
    BY <1>0, <1>4, TypesStay
  <2>3. Walks(j)
    BY <1>1, <1>2, <1>4, <2>1, OpenWalks DEF historyVars, WholeWay, PartWay
  <2> QED BY <2>1, <2>2, <2>3 DEF PostsStep
<1>5. ASSUME NEW r \in {"copy", "own", "false", "flood", "true"}, Goto(j, r),
             UNCHANGED <<poolVars, route, cand>>
      PROVE  PoolTypeOK' /\ RouteTypes' /\ RoutesStep(j)
  <2>1. pc'[j] = r /\ pc' = [pc EXCEPT ![j] = pc'[j]]
    BY <1>0, <1>5, Going DEF PCs, Results
  <2>2. Keeps(j)
    BY <1>2, <1>5, <2>1 DEF Keeps, poolVars
  <2> QED BY <1>0, <1>2, <1>5, <2>2, KeepsFits, TypesStay DEF uploadVars
<1>6. CASE /\ route[j] # None /\ \E r \in {"copy", "own"} : Goto(j, r)
           /\ UNCHANGED <<poolVars, route, cand, floods>> /\ UNCHANGED historyVars
  BY <1>3, <1>4, <1>5, <1>6
<1>7. CASE route[j] # None /\ Flooded /\ PoolFlood(j) /\ UNCHANGED historyVars
  <2>1. /\ UNCHANGED <<pool, fatal, reloads>> /\ guilty \subseteq guilty' /\ PoolTypeOK'
        /\ OnlyGuiltyPaused' /\ route' \in [Jobs -> Nat] /\ cand' \in [Jobs -> Accounts]
        /\ \A d \in Jobs \ {j} : route'[d] = route[d] /\ cand'[d] = cand[d]
        /\ \/ /\ Goto(j, "recreate") /\ route'[j] \in DOMAIN pool
              /\ cand'[j] = pool[route'[j]] /\ pool[route'[j]] \in Sessions /\ route'[j] # None
           \/ \E r \in {"flood", "ask"} : Goto(j, r) /\ route'[j] = route[j] /\ cand'[j] = cand[j]
    BY <1>1, <1>7, Flooding
  <2>2. PICK r \in {"recreate", "flood", "ask"} : Goto(j, r)
    BY <2>1
  <2>3. pc'[j] = r /\ \A d \in Jobs \ {j} : pc'[d] = pc[d]
    BY <1>0, <2>2, Going DEF PCs, Results
  <2>4. pc'[j] = "recreate" =>
            /\ route'[j] \in DOMAIN pool /\ cand'[j] = pool[route'[j]]
            /\ pool[route'[j]] \in Sessions /\ route'[j] # None
    <3>1. ASSUME \E q \in {"flood", "ask"} : Goto(j, q)
          PROVE  pc'[j] # "recreate"
      BY <1>0, <3>1, Going DEF PCs, Results
    <3> QED BY <2>1, <3>1
  <2>5. pc'[j] # "recreate" => route'[j] = route[j] /\ cand'[j] = cand[j]
    <3>1. ASSUME Goto(j, "recreate")
          PROVE  pc'[j] = "recreate"
      BY <1>0, <3>1, Going DEF PCs
    <3> QED BY <2>1, <3>1
  <2>6. RouteTypes'
    BY <1>2, <2>1, RouteFacts DEF RouteTypes
  <2>7. Borrowed(j)'
    BY <1>1, <1>2, <1>7, <2>2, <2>3, <2>4, <2>5, RouteFacts DEF Borrowed
  <2>8. RouteFits(j)'
    BY <2>1, <2>2, <2>3, <2>4, <2>5, RouteFacts DEF RouteFits
  <2>9. OwnAccount(j)'
    BY <1>2, <2>2, <2>3, <2>4, <2>5, RouteFacts DEF OwnAccount
  <2>10. RoutesStep(j)
    BY <1>2, <2>1, <2>3, <2>7, <2>8, <2>9 DEF RoutesStep, RoutesFit
  <2> QED BY <1>3, <1>4, <1>7, <2>1, <2>2, <2>6, <2>10
<1>8. CASE route[j] = None /\ UNCHANGED <<poolVars, route, cand>>
  <2>1. CASE Goto(j, "true") /\ Sent(j, 0) /\ UNCHANGED floods
    <3>1. /\ PieceTypes' /\ lost' = lost
          /\ IF worker[j] = "download" THEN UNCHANGED <<got, late>> ELSE Gains(j, 0)
      BY <1>0, <1>1, <2>1, Sending
    <3>2. "true" \in PCs /\ pc'[j] = "true" /\ pc' = [pc EXCEPT ![j] = pc'[j]]
      BY <1>0, <2>1, Going DEF PCs, Results
    <3>3. CASE worker[j] = "download"
      <4>1. req[j].override
        BY <3>3, RouteFacts DEF OwnAccount
      <4>2. Walks(j)
        BY <1>1, <1>2, <3>1, <3>2, <3>3, <4>1, OpenWalks DEF WholeWay, PartWay
      <4> QED BY <1>3, <1>5, <1>8, <2>1, <3>1, <3>2, <4>2 DEF PostsStep
    <3>4. CASE worker[j] # "download"
      <4>1. WholeComes(j)
        BY <1>1, <1>2, <3>1, <3>2, <3>4 DEF WholeComes
      <4> QED BY <1>3, <1>5, <1>8, <2>1, <3>1, <3>2, <4>1 DEF PostsStep
    <3> QED BY <3>3, <3>4
  <2>2. CASE Goto(j, "false") /\ LosesAnswer(j, 0) /\ UNCHANGED floods
    <3>1. PieceTypes' /\ Gains(j, 0) /\ Loses(j)
      BY <1>0, <1>1, <2>2, LosingAnswer
    <3>2. "false" \in PCs /\ pc'[j] = "false" /\ pc' = [pc EXCEPT ![j] = pc'[j]]
      BY <1>0, <2>2, Going DEF PCs, Results
    <3>3. WholeComes(j)
      BY <1>1, <1>2, <3>1, <3>2 DEF WholeComes
    <3> QED BY <1>3, <1>5, <1>8, <2>2, <3>1, <3>2, <3>3 DEF PostsStep
  <2>3. CASE /\ \E r \in {"false", "flood"} : Goto(j, r)
             /\ (floods' = floods \/ Flooded) /\ UNCHANGED historyVars
    BY <1>3, <1>4, <1>5, <1>8, <2>3
  <2> QED BY <1>8, <2>1, <2>2, <2>3 DEF Upload
<1> QED BY <1>6, <1>7, <1>8 DEF Upload

LEMMA RecreateTurn ==
    ASSUME IInv, NEW j \in Jobs, Recreate(j)
    PROVE  Turn(j)
<1>0. Types /\ PartNos \subseteq Pieces /\ 0 \in Pieces
  BY TypesOf, Numbers DEF IInv
<1>1. pc[j] = "recreate" /\ at[j] \in Posts /\ Open(j) /\ route[j] # None /\ worker[j] \in Sessions
  BY AtWork, RouteFacts DEF Recreate, Open, WholeWay, Borrowed
<1>2. /\ UNCHANGED <<req, flag, at, cut, part, torn, processed, failed, got, lost, late>>
      /\ UNCHANGED <<route, cand>>
  BY DEF Recreate, Unsplit, Elsewhere, tallyVars, historyVars
<1>3. ASSUME NEW r \in {"upload", "false", "flood"}, Goto(j, r), PoolTypeOK', RouteTypes',
             floods' = floods \/ Flooded, tries' = tries \/ tries' = [tries EXCEPT ![j] = @ + 1],
             RoutesStep(j)
      PROVE  Turn(j)
  <2>1. pc' \in [Jobs -> PCs] /\ pc' = [pc EXCEPT ![j] = pc'[j]] /\ pc'[j] = r
    BY <1>0, <1>3, Going DEF PCs, Results
  <2>2. PartTypes'
    BY <1>0, <1>2, <1>3 DEF Types, PartTypes
  <2>3. Types'
    BY <1>0, <1>3, <2>1, <2>2, TypesStay DEF Types, Recreate, Unsplit, Elsewhere
  <2>4. Walks(j)
    BY <1>1, <1>2, <2>1, OpenWalks DEF WholeWay, PartWay
  <2> QED BY <1>3, <2>3, <2>4 DEF Turn, PostsStep
<1>4. ASSUME NEW r \in {"upload", "false", "flood"}, Goto(j, r)
      PROVE  /\ pc' \in [Jobs -> PCs] /\ pc'[j] = r /\ \A d \in Jobs \ {j} : pc'[d] = pc[d]
  BY <1>0, <1>4, Going DEF PCs, Results
<1>5. CASE worker' = [worker EXCEPT ![j] = cand[j]] /\ Again(j, "upload") /\ UNCHANGED <<poolVars, floods>>
  <2>1. PICK r \in {"upload", "false"} : Goto(j, r) /\ tries' = [tries EXCEPT ![j] = @ + 1]
    BY <1>5 DEF Again
  <2>2. PoolTypeOK' /\ RouteTypes'
    BY <1>0, <1>2, <1>5, TypesStay, RouteFacts, Switching DEF RouteTypes
  <2>3. RoutesStep(j)
    BY <1>2, <1>4, <1>5, <2>1, TakesUp DEF poolVars
  <2> QED BY <1>3, <1>5, <2>1, <2>2, <2>3
<1>6. CASE Disable(j) /\ Again(j, "upload") /\ UNCHANGED <<next, worker, floods>>
  <2>1. PICK r \in {"upload", "false"} : Goto(j, r) /\ tries' = [tries EXCEPT ![j] = @ + 1]
    BY <1>6 DEF Again
  <2>2. /\ UNCHANGED <<pool, paused, reloads>> /\ guilty \subseteq guilty' /\ cand[j] \in guilty'
        /\ fatal' \subseteq Nat \ {0} /\ guilty' \subseteq Sessions /\ OnlyGuiltyPaused'
    BY <1>1, <1>6, Disabling
  <2>3. PoolTypeOK' /\ RouteTypes'
    BY <1>2, <1>6, <2>2, RouteFacts, PoolTypesStay DEF RouteTypes
  <2>4. pc'[j] = r /\ \A d \in Jobs \ {j} : pc'[d] = pc[d]
    BY <1>4, <2>1
  <2>5. Borrowed(j)' /\ OwnAccount(j)' /\ RouteFits(j)'
    BY <1>1, <1>2, <1>6, <2>1, <2>2, <2>4, RouteFacts DEF Borrowed, OwnAccount, RouteFits
  <2>6. RoutesStep(j)
    BY <1>2, <1>6, <2>2, <2>4, <2>5 DEF RoutesStep, RoutesFit
  <2> QED BY <1>3, <1>6, <2>1, <2>3, <2>6
<1>7. CASE Fails(j) /\ UNCHANGED <<poolVars, worker, tries>>
  <2>1. PICK r \in {"false", "flood"} : Goto(j, r) /\ (floods' = floods \/ Flooded)
    BY <1>7 DEF Fails
  <2>2. PoolTypeOK' /\ RouteTypes'
    BY <1>0, <1>2, <1>7, TypesStay DEF uploadVars
  <2>3. RoutesStep(j)
    BY <1>2, <1>4, <1>7, <2>1, TakesUp DEF poolVars
  <2> QED BY <1>3, <1>7, <2>1, <2>2, <2>3
<1> QED BY <1>5, <1>6, <1>7 DEF Recreate

LEMMA PollTurn ==
    ASSUME IInv, NEW j \in Jobs, Poll(j)
    PROVE  Turn(j)
<1>0. Types /\ PartNos \subseteq Pieces /\ 0 \in Pieces
  BY TypesOf, Numbers DEF IInv
<1>1. pc[j] = "poll" /\ at[j] \in Posts /\ Open(j) /\ Goto(j, "pollCreate") /\ "pollCreate" \in PCs
  BY AtWork DEF Poll, Open, WholeWay, PCs
<1>2. /\ UNCHANGED <<req, flag, at, cut, part, torn, processed, failed, got, lost, late>>
      /\ UNCHANGED <<pool, paused, fatal, reloads, guilty, worker, tries>>
  BY DEF Poll, Unsplit, Elsewhere, tallyVars, historyVars
<1>3. /\ pc' \in [Jobs -> PCs] /\ pc' = [pc EXCEPT ![j] = pc'[j]] /\ pc'[j] = "pollCreate"
      /\ \A d \in Jobs \ {j} : pc'[d] = pc[d]
  BY <1>0, <1>1, Going
<1>4. PICK i \in DOMAIN pool : Gives(i, paused \cup fatal) /\ Borrow(j, i)
  BY DEF Poll
<1>5. /\ i \in Nat \ {0} /\ pool[i] \in Sessions /\ next' \in Nat /\ next' \in DOMAIN pool
      /\ route' \in [Jobs -> Nat] /\ cand' \in [Jobs -> Accounts]
      /\ route'[j] = i /\ cand'[j] = pool[i]
      /\ \A d \in Jobs \ {j} : route'[d] = route[d] /\ cand'[d] = cand[d]
  BY <1>4, Borrowing, Giving
<1>6. PoolTypeOK' /\ RouteTypes'
  BY <1>2, <1>5, RouteFacts, PoolTypesStay DEF RouteTypes
<1>7. Types'
  BY <1>0, <1>3, <1>6, TypesStay DEF Types, Poll, Unsplit, Elsewhere
<1>8. Walks(j)
  BY <1>1, <1>2, <1>3, OpenWalks DEF WholeWay, PartWay
<1>9. RoutesStep(j)
  <2>1. Borrowed(j)' /\ RouteFits(j)' /\ OwnAccount(j)'
    BY <1>2, <1>3, <1>5, RouteFacts DEF Borrowed, RouteFits, OwnAccount
  <2>2. OnlyGuiltyPaused'
    BY <1>2, RouteFacts DEF OnlyGuiltyPaused
  <2> QED BY <1>2, <1>3, <1>5, <2>1, <2>2 DEF RoutesStep, RoutesFit
<1> QED BY <1>7, <1>8, <1>9 DEF Turn, PostsStep

LEMMA PollCreateTurn ==
    ASSUME IInv, NEW j \in Jobs, PollCreate(j)
    PROVE  Turn(j)
<1>0. Types /\ PartNos \subseteq Pieces /\ 0 \in Pieces
  BY TypesOf, Numbers DEF IInv
<1>1. pc[j] = "pollCreate" /\ at[j] \in Posts /\ Open(j) /\ route[j] # None
  BY AtWork, RouteFacts DEF PollCreate, Open, WholeWay, Borrowed
<1>2. /\ UNCHANGED <<req, flag, at, cut, part, torn, processed, failed, got, lost, late>>
      /\ UNCHANGED <<route, cand>>
  BY DEF PollCreate, Unsplit, Elsewhere, tallyVars, historyVars
<1>3. ASSUME NEW r \in {"upload", "false", "flood", "poll"}, Goto(j, r), PoolTypeOK', RouteTypes',
             floods' = floods \/ Flooded, tries' = tries \/ tries' = [tries EXCEPT ![j] = @ + 1],
             RoutesStep(j)
      PROVE  Turn(j)
  <2>1. pc' \in [Jobs -> PCs] /\ pc' = [pc EXCEPT ![j] = pc'[j]] /\ pc'[j] = r
    BY <1>0, <1>3, Going DEF PCs, Results
  <2>2. PartTypes'
    BY <1>0, <1>2, <1>3 DEF Types, PartTypes
  <2>3. Types'
    BY <1>0, <1>3, <2>1, <2>2, TypesStay DEF Types, PollCreate, Unsplit, Elsewhere
  <2>4. Walks(j)
    BY <1>1, <1>2, <2>1, OpenWalks DEF WholeWay, PartWay
  <2> QED BY <1>3, <2>3, <2>4 DEF Turn, PostsStep
<1>4. ASSUME NEW r \in {"upload", "false", "flood", "poll"}, Goto(j, r)
      PROVE  /\ pc' \in [Jobs -> PCs] /\ pc'[j] = r /\ \A d \in Jobs \ {j} : pc'[d] = pc[d]
  BY <1>0, <1>4, Going DEF PCs, Results
<1>5. CASE worker' = [worker EXCEPT ![j] = cand[j]] /\ Again(j, "upload") /\ UNCHANGED <<poolVars, floods>>
  <2>1. PICK r \in {"upload", "false"} : Goto(j, r) /\ tries' = [tries EXCEPT ![j] = @ + 1]
    BY <1>5 DEF Again
  <2>2. PoolTypeOK' /\ RouteTypes'
    BY <1>0, <1>2, <1>5, TypesStay, RouteFacts, Switching DEF RouteTypes
  <2>3. RoutesStep(j)
    BY <1>2, <1>4, <1>5, <2>1, TakesUp DEF poolVars
  <2> QED BY <1>3, <1>5, <2>1, <2>2, <2>3
<1>6. CASE Disable(j) /\ Goto(j, "poll") /\ UNCHANGED <<next, worker, tries, floods>>
  <2>1. /\ UNCHANGED <<pool, paused, reloads>> /\ guilty \subseteq guilty' /\ cand[j] \in guilty'
        /\ fatal' \subseteq Nat \ {0} /\ guilty' \subseteq Sessions /\ OnlyGuiltyPaused'
    BY <1>1, <1>6, Disabling
  <2>2. PoolTypeOK' /\ RouteTypes'
    BY <1>2, <1>6, <2>1, RouteFacts, PoolTypesStay DEF RouteTypes
  <2>3. pc'[j] = "poll" /\ \A d \in Jobs \ {j} : pc'[d] = pc[d]
    BY <1>4, <1>6
  <2>4. Borrowed(j)' /\ OwnAccount(j)' /\ RouteFits(j)'
    BY <1>1, <1>2, <1>6, <2>1, <2>3, RouteFacts DEF Borrowed, OwnAccount, RouteFits
  <2>5. RoutesStep(j)
    BY <1>2, <1>6, <2>1, <2>3, <2>4 DEF RoutesStep, RoutesFit
  <2> QED BY <1>3, <1>6, <2>2, <2>5
<1>7. CASE Fails(j) /\ UNCHANGED <<poolVars, worker, tries>>
  <2>1. PICK r \in {"false", "flood"} : Goto(j, r) /\ (floods' = floods \/ Flooded)
    BY <1>7 DEF Fails
  <2>2. PoolTypeOK' /\ RouteTypes'
    BY <1>0, <1>2, <1>7, TypesStay DEF uploadVars
  <2>3. RoutesStep(j)
    BY <1>2, <1>4, <1>7, <2>1, TakesUp DEF poolVars
  <2> QED BY <1>3, <1>7, <2>1, <2>2, <2>3
<1> QED BY <1>5, <1>6, <1>7 DEF PollCreate

LEMMA SettleTurn ==
    ASSUME IInv, NEW j \in Jobs, Settle(j)
    PROVE  Turn(j)
<1>0. Types /\ PartNos \subseteq Pieces /\ 0 \in Pieces
  BY TypesOf, Numbers DEF IInv
<1>1. /\ pc[j] \in Results /\ at[j] \in Posts /\ TallyTypes /\ DiskTypes /\ Count(j)
      /\ pc[j] \notin {"head", "done"}
  BY <1>0, AtWork DEF Settle, Results, Types
<1>2. UNCHANGED <<req, flag, cut, part, torn, got, lost, late>> /\ UNCHANGED <<poolVars, uploadVars, tries>>
  BY DEF Settle, historyVars
<1>3. /\ \/ processed' = processed
         \/ pc[j] = "true" /\ processed' = [processed EXCEPT ![j] = @ \cup {at[j]}]
      /\ \/ failed' = failed
         \/ pc[j] = "false" /\ failed' = [failed EXCEPT ![j] = @ \cup {at[j]}]
      /\ \/ deleted' = deleted
         \/ deleted' = [deleted EXCEPT ![j] = @ \cup {at[j]}]
  BY <1>1 DEF Count
<1>4. errs' \in [Jobs -> Nat]
  <2>1. errs' = [errs EXCEPT ![j] = 0] \/ errs' = [errs EXCEPT ![j] = @ + 1] \/ errs' = [errs EXCEPT ![j] = @]
    BY <1>1 DEF Count
  <2> QED BY <1>1, <2>1 DEF TallyTypes
<1>5. TallyTypes'
  BY <1>1, <1>3, <1>4 DEF TallyTypes
<1>6. DiskTypes'
  BY <1>1 DEF Settle, DiskTypes, Cleanup
<1>7. \/ Goto(j, "done") /\ at' = at
      \/ /\ Goto(j, "head")
         /\ \/ Private(j) /\ pc[j] = "flood" /\ at' = at
            \/ at' = [at EXCEPT ![j] = @ + 1]
  <2>1. at = [at EXCEPT ![j] = @]
    BY <1>0 DEF Types, PlaceTypes
  <2>2. CASE UNCHANGED at
    BY <2>2 DEF Settle
  <2>3. CASE Goto(j, "head") /\ at' = [at EXCEPT ![j] = IF Private(j) /\ pc[j] = "flood" THEN @ ELSE @ + 1]
    BY <2>1, <2>3
  <2> QED BY <2>2, <2>3 DEF Settle
<1>8. /\ pc' \in [Jobs -> PCs] /\ pc'[j] \in {"done", "head"} /\ pc' = [pc EXCEPT ![j] = pc'[j]]
  BY <1>0, <1>7, Going DEF PCs
<1>9. PlaceTypes'
  BY <1>0, <1>2, <1>7, <1>8 DEF Types, PlaceTypes
<1>10. Types'
  BY <1>0, <1>2, <1>5, <1>6, <1>9, TypesStay DEF Types, Settle
<1>11. Settles(j)
  BY <1>1, <1>2, <1>3, <1>7 DEF Settles, Goto
<1>12. Keeps(j)
  BY <1>2, <1>8 DEF Keeps, poolVars, uploadVars
<1> QED BY <1>10, <1>11, <1>12, KeepsFits DEF Turn, PostsStep

-----------------------------------------------------------------------------
(* The invariant is one.                                                   *)

\* What a job's step preserves, and the workload stays the same.
LEMMA TurnFits ==
    ASSUME IInv, NEW j \in Jobs, Turn(j)
    PROVE  IInv'
<1>1. TypeOK'
  BY TypesOf DEF Turn, Types, TypeOK, PlaceTypes, PartTypes, RouteTypes, TallyTypes, Files, DiskTypes,
                 PieceTypes
<1>2. (\A d \in Jobs : PostsFit(d)') /\ (\A d \in Jobs : RoutesFit(d)')
  BY PostsStepFits, RoutesStepFits DEF Turn
<1>3. req' = req /\ OnlyGuiltyPaused'
  BY DEF Turn, RoutesStep
<1> QED BY <1>1, <1>2, <1>3 DEF IInv

LEMMA JobTurn ==
    ASSUME IInv, NEW j \in Jobs, Job(j)
    PROVE  Turn(j)
BY StopTurn, BeginTurn, FetchTurn, SendTextTurn, DownloadTurn, ReadyTurn, DirectTurn, SplitTurn,
   TakePartTurn, SendPartTurn, CopyPartTurn, ManagedTurn, SelectTurn, CreateTurn, CreateOwnTurn,
   UploadTurn, CopyTurn, RecreateTurn, OwnSessionTurn, AskTurn, GiveUpTurn, PollTurn,
   PollCreateTurn, SettleTurn DEF Job

\* A step of nobody's: all views stay as they are.
LEMMA ViewsStay ==
    ASSUME IInv, UNCHANGED <<req, pc, at, cut, part, torn, processed, failed, got, lost, late>>,
           \A d \in Jobs : flag[d] => flag'[d]
    PROVE  \A d \in Jobs : PostsFit(d)'
<1>1. \A d \in Jobs : SameView(d)
  BY DEF SameView
<1> QED BY <1>1, ViewStays

LEMMA RaiseFlagFits ==
    ASSUME IInv, NEW j \in Jobs, RaiseFlag(j)
    PROVE  IInv'
<1>0. Types
  BY TypesOf DEF IInv
<1>1. UNCHANGED <<poolVars, req, pc, at, cut, torn, part, tries, uploadVars, tallyVars, floods, historyVars>>
  BY DEF RaiseFlag
<1>2. flag' \in [Jobs -> BOOLEAN] /\ \A d \in Jobs : flag[d] => flag'[d]
  BY <1>0 DEF RaiseFlag, Types, PlaceTypes
<1>3. DiskTypes'
  BY <1>0 DEF RaiseFlag, Leave, Types, DiskTypes
<1>4. PlaceTypes'
  BY <1>0, <1>1, <1>2 DEF Types, PlaceTypes
<1>5. PoolTypeOK' /\ PartTypes' /\ RouteTypes' /\ TallyTypes' /\ PieceTypes' /\ floods' \in Nat
  BY <1>0, <1>1, TypesStay
<1>6. TypeOK'
  BY <1>3, <1>4, <1>5 DEF TypeOK, PlaceTypes, PartTypes, RouteTypes, TallyTypes, Files, DiskTypes,
                          PieceTypes
<1>7. \A d \in Jobs : PostsFit(d)'
  BY <1>1, <1>2, ViewsStay DEF tallyVars, historyVars
<1>8. /\ \A d \in Jobs : RoutesFit(d)
      /\ UNCHANGED <<req, pool, paused, fatal, reloads, guilty, pc, route, cand, worker>>
  BY <1>1 DEF IInv, poolVars, uploadVars
<1>9. OnlyGuiltyPaused' /\ \A d \in Jobs : RoutesFit(d)'
  <2>1. OnlyGuiltyPaused'
    BY <1>8 DEF IInv, OnlyGuiltyPaused
  <2>2. \A d \in Jobs : RoutesFit(d)'
    BY <1>8 DEF RoutesFit, Borrowed, OwnAccount, RouteFits
  <2> QED BY <2>1, <2>2
<1> QED BY <1>1, <1>6, <1>7, <1>9 DEF IInv

LEMMA PoolStepFits ==
    ASSUME IInv, PoolStep, UNCHANGED <<req, flag, jobVars>>
    PROVE  IInv'
<1>0. Types /\ pool \in Seq(Sessions)
  BY TypesOf DEF IInv, Types, PoolTypeOK
<1>1. /\ UNCHANGED <<req, flag, pc, at, cut, torn, part, tries, uploadVars, tallyVars, disk, floods,
                    historyVars>>
      /\ guilty' = guilty
  BY DEF jobVars, PoolStep, Reload, Resume
<1>2. \/ pool' = pool /\ next' = next /\ reloads' = reloads /\ paused' \subseteq paused /\ fatal' = fatal
      \/ /\ pool' \in Seq(Sessions) /\ next' = 1 /\ reloads' \in Nat /\ reloads' # 0
         /\ paused' = {} /\ fatal' = {}
  <2>1. CASE Reload
    BY <1>0, <2>1, RelayPoolAssumption DEF Reload, Types, PoolTypeOK
  <2>2. ASSUME NEW i \in paused, Resume(i)
        PROVE  /\ pool' = pool /\ next' = next /\ reloads' = reloads /\ paused' \subseteq paused
               /\ fatal' = fatal
    BY <2>2 DEF Resume
  <2> QED BY <2>1, <2>2 DEF PoolStep
<1>3. PoolTypeOK'
  <2>1. CASE pool' = pool /\ next' = next /\ reloads' = reloads /\ paused' \subseteq paused /\ fatal' = fatal
    BY <1>0, <1>1, <2>1 DEF Types, PoolTypeOK
  <2>2. CASE /\ pool' \in Seq(Sessions) /\ next' = 1 /\ reloads' \in Nat /\ reloads' # 0
             /\ paused' = {} /\ fatal' = {}
    <3>1. 1 \in DOMAIN pool' \/ pool' = <<>>
      BY <2>2
    <3> QED BY <1>0, <1>1, <2>2, <3>1 DEF Types, PoolTypeOK
  <2> QED BY <1>2, <2>1, <2>2
<1>4. TypeOK'
  <2>1. PlaceTypes' /\ PartTypes' /\ RouteTypes' /\ TallyTypes' /\ DiskTypes' /\ PieceTypes' /\ floods' \in Nat
    <3>1. pc' \in [Jobs -> PCs]
      BY <1>0, <1>1 DEF Types, PlaceTypes
    <3> QED BY <1>0, <1>1, <3>1, TypesStay
  <2> QED BY <1>3, <2>1 DEF TypeOK, PlaceTypes, PartTypes, RouteTypes, TallyTypes, Files, DiskTypes,
                            PieceTypes
<1>5. \A d \in Jobs : PostsFit(d)'
  BY <1>1, ViewsStay DEF tallyVars, historyVars
<1>6. \A d \in Jobs : RoutesFit(d)'
  <2>1. UNCHANGED <<req, pc, route, cand, worker, guilty>>
    BY <1>1 DEF uploadVars
  <2> QED BY <1>2, <2>1 DEF IInv, RoutesFit, Borrowed, OwnAccount, RouteFits
<1>7. OnlyGuiltyPaused'
  BY <1>1, <1>2 DEF IInv, OnlyGuiltyPaused
<1> QED BY <1>1, <1>4, <1>5, <1>6, <1>7 DEF IInv

LEMMA Initially ==
    ASSUME Init
    PROVE  IInv
<1>1. req \in Workloads /\ req \in [Jobs -> Requests]
  BY MediaDeliveryAssumption DEF Init
<1>2. PoolTypeOK
  <2>1. 1 \in DOMAIN InitialPool \/ InitialPool = <<>>
    BY RelayPoolAssumption
  <2> QED BY <2>1, RelayPoolAssumption DEF Init, PoolInit, PoolTypeOK
<1>3. PlaceTypes /\ PartTypes /\ RouteTypes /\ TallyTypes /\ DiskTypes /\ floods \in Nat
  <2>1. 1 \in PartNos
    BY Numbers DEF PartNos
  <2>2. PlaceTypes
    BY <1>1 DEF Init, PlaceTypes, PCs
  <2>3. PartTypes
    BY <2>1 DEF Init, PartTypes
  <2>4. RouteTypes
    BY DEF Init, RouteTypes, None, Accounts
  <2>5. TallyTypes /\ DiskTypes /\ floods \in Nat
    BY DEF Init, TallyTypes, DiskTypes
  <2> QED BY <2>2, <2>3, <2>4, <2>5
<1>4. PieceTypes /\ \A j \in Jobs, p \in Posts, k \in Pieces : got[j][<<p, k>>] = 0
  BY DEF Init, PieceTypes
<1>5. TypeOK
  BY <1>2, <1>3, <1>4, TypesOf DEF Types
<1>6. ASSUME NEW j \in Jobs
      PROVE  PostsFit(j)
  <2>1. pc[j] = "head" /\ at[j] = 1 /\ processed[j] = {} /\ failed[j] = {} /\ late = {} /\ lost = {}
    BY <1>6 DEF Init
  <2>2. AtPost(j) /\ LateFits(j) /\ OneLate(j) /\ PartsFit(j) /\ EndFits(j) /\ Counted(j) /\ Right(j)
    BY <2>1 DEF AtPost, LateFits, OneLate, PartsFit, PartWay, EndFits, Counted, Right
  <2>3. Ahead(j) /\ OpenFits(j) /\ Once(j)
    BY <1>4, <2>1, Numbers DEF Ahead, OpenFits, NoneCame, Once, Spare
  <2> QED BY <2>2, <2>3 DEF PostsFit
<1>7. ASSUME NEW j \in Jobs
      PROVE  RoutesFit(j)
  BY DEF Init, RoutesFit, Borrowed, OwnAccount, RouteFits
<1>8. OnlyGuiltyPaused
  BY DEF Init, PoolInit, OnlyGuiltyPaused
<1> QED BY <1>1, <1>5, <1>6, <1>7, <1>8 DEF IInv

LEMMA Always == Spec => []IInv
<1>1. Init => IInv
  BY Initially
<1>2. IInv /\ [Next]_vars => IInv'
  <2> SUFFICES ASSUME IInv, [Next]_vars
               PROVE  IInv'
    OBVIOUS
  <2>1. ASSUME NEW j \in Jobs, Job(j)
        PROVE  IInv'
    BY <2>1, JobTurn, TurnFits
  <2>2. ASSUME NEW j \in Jobs, RaiseFlag(j)
        PROVE  IInv'
    BY <2>2, RaiseFlagFits
  <2>3. CASE PoolStep /\ UNCHANGED <<req, flag, jobVars>>
    BY <2>3, PoolStepFits
  <2>4. CASE UNCHANGED vars
    <3>1. /\ UNCHANGED <<pool, next, paused, fatal, reloads, guilty, req, flag, pc, at, cut, torn, part>>
          /\ UNCHANGED <<tries, route, cand, worker, errs, processed, failed, deleted, disk, floods>>
          /\ UNCHANGED <<got, lost, late, foreign>>
      BY <2>4 DEF vars, poolVars, jobVars, uploadVars, tallyVars, historyVars
    <3>2. TypeOK'
      BY <3>1 DEF IInv, TypeOK, PoolTypeOK
    <3>3. \A d \in Jobs : PostsFit(d)'
      BY <3>1, ViewsStay
    <3>4. \A d \in Jobs : RoutesFit(d)'
      BY <3>1 DEF IInv, RoutesFit, Borrowed, OwnAccount, RouteFits
    <3>5. OnlyGuiltyPaused' /\ req' \in Workloads
      BY <3>1 DEF IInv, OnlyGuiltyPaused
    <3> QED BY <3>2, <3>3, <3>4, <3>5 DEF IInv
  <2> QED BY <2>1, <2>2, <2>3, <2>4 DEF Next
<1> QED BY <1>1, <1>2, PTL DEF Spec

-----------------------------------------------------------------------------
(* The theorems.                                                           *)

\* Every variable of the jobs and of the pool keeps its type, whatever the links, the
\* pool and its reloads.
THEOREM TypeCorrect == Spec => []TypeOK
<1>1. IInv => TypeOK
  BY DEF IInv
<1> QED BY <1>1, Always, PTL

\* No retry, switch of session or fallback of download_and_send_media sends a piece of
\* a post twice, or the post both whole and in parts, except for the answer that was
\* lost; for any number of parts, sessions and floods.
THEOREM EachPieceOnce == Spec => []EachOnce
<1>1. IInv => EachOnce
  <2> SUFFICES ASSUME IInv, NEW j \in Jobs, NEW p \in Posts
               PROVE  /\ \A k \in Pieces : got[j][<<p, k>>] <= IF <<j, p>> \in lost THEN 2 ELSE 1
                      /\ <<j, p>> \notin lost =>
                             got[j][<<p, 0>>] = 0 \/ \A k \in PartNos : got[j][<<p, k>>] = 0
    BY DEF EachOnce
  <2>1. Once(j)
    BY PostFacts
  <2> QED BY <2>1 DEF Once, Spare
<1> QED BY <1>1, Always, PTL

\* What the loops of process_private_posts and its siblings count as sent or failed is
\* what the user has or lacks, unless the splitter dropped a part or an answer was lost.
THEOREM TruthIsTold == Spec => []CountedRight
<1>1. IInv => CountedRight
  BY PostFacts DEF CountedRight, Right
<1> QED BY <1>1, Always, PTL

\* A user who has sent /stop gets one more piece at most.
THEOREM OneMorePiece == Spec => []OneMoreAfterStop
<1>1. IInv => OneMoreAfterStop
  <2> SUFFICES ASSUME IInv, NEW x \in late, NEW y \in late, x[1] = y[1]
               PROVE  x = y
    BY DEF OneMoreAfterStop
  <2>1. late \subseteq Jobs \X Posts \X Pieces
    BY DEF IInv, TypeOK
  <2>2. PICK j \in Jobs, p \in Posts, k \in Pieces : x = <<j, p, k>>
    BY <2>1
  <2>3. PICK d \in Jobs, q \in Posts, l \in Pieces : y = <<d, q, l>>
    BY <2>1
  <2>4. j = d
    BY <2>2, <2>3
  <2>5. OneLate(j)
    BY PostFacts
  <2> QED BY <2>2, <2>3, <2>4, <2>5 DEF OneLate
<1> QED BY <1>1, Always, PTL

\* mark_flood and mark_fatal hit the session that flooded or blocked the bot, for any
\* number of uploads that share the pool, as long as the owner does not reload it.
THEOREM OnlyTheGuilty == Spec => []OnlyGuiltyPaused
<1>1. IInv => OnlyGuiltyPaused
  BY DEF IInv
<1> QED BY <1>1, Always, PTL
=============================================================================
