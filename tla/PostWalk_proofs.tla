--------------------------- MODULE PostWalk_proofs ---------------------------
(***************************************************************************)
(* The walks over posts and albums, for any links: which posts they ask    *)
(* for, which albums those belong to, and which are deleted or belong      *)
(* elsewhere.                                                              *)
(*                                                                         *)
(* In the second half, their texts and captions: what each way of cutting  *)
(* them makes, and that the walks send all of it.                          *)
(***************************************************************************)
EXTENDS PostWalk, FiniteSetTheorems, WellFoundedInduction, TLAPS

-----------------------------------------------------------------------------
(* Numbers and orders                                                      *)

\* A set of naturals that is not empty has a least element.
LEMMA LeastExists ==
    ASSUME NEW S \in SUBSET Nat, S # {}
    PROVE  \E n \in S : \A m \in S : n <= m
<1>1. PICK n \in S : \A m \in S : ~(<<m, n>> \in OpToRel(<, Nat))
  BY NatLessThanWellFounded, WFMin
<1>2. ASSUME NEW m \in S PROVE n <= m
  <2>1. m < n => <<m, n>> \in OpToRel(<, Nat)
    BY DEF OpToRel
  <2>2. ~(m < n)
    BY <1>1, <2>1, Zenon
  <2> QED BY <2>2
<1> QED BY <1>2

\* InOrder lists each element of a finite set of numbers once, in ascending order.
LEMMA InOrderSorts ==
    ASSUME NEW S \in SUBSET Nat, IsFiniteSet(S)
    PROVE  /\ InOrder(S) \in [1..Cardinality(S) -> S] /\ Cardinality(S) \in Nat
           /\ \A i, j \in 1..Cardinality(S) : i < j => InOrder(S)[i] < InOrder(S)[j]
           /\ \A x \in S : \E i \in 1..Cardinality(S) : InOrder(S)[i] = x
<1> DEFINE upTo(x) == {y \in S : y <= x}
           rank == [x \in S |-> Cardinality(upTo(x))]
           n == Cardinality(S)
<1>1. n \in Nat
  BY FS_CardinalityType
<1>2. \A x \in S : IsFiniteSet(upTo(x)) /\ rank[x] \in 1..n
  <2> SUFFICES ASSUME NEW x \in S PROVE IsFiniteSet(upTo(x)) /\ rank[x] \in 1..n
    OBVIOUS
  <2>1. upTo(x) \in SUBSET S /\ upTo(x) # {}
    OBVIOUS
  <2>2. IsFiniteSet(upTo(x)) /\ Cardinality(upTo(x)) <= n
    BY <2>1, FS_Subset
  <2>3. Cardinality(upTo(x)) \in Nat /\ Cardinality(upTo(x)) # 0
    BY <2>1, <2>2, FS_CardinalityType, FS_EmptySet
  <2> QED BY <1>1, <2>2, <2>3
<1>3. \A x, z \in S : x < z => rank[x] < rank[z]
  <2> SUFFICES ASSUME NEW x \in S, NEW z \in S, x < z PROVE rank[x] < rank[z]
    OBVIOUS
  <2>1. \A y \in S : y <= x => y <= z
    OBVIOUS
  <2>2. z <= z /\ ~(z <= x)
    OBVIOUS
  <2>3. upTo(x) \in SUBSET upTo(z) /\ z \in upTo(z) /\ z \notin upTo(x)
    BY <2>1, <2>2
  <2>4. Cardinality(upTo(x)) <= Cardinality(upTo(z)) /\ Cardinality(upTo(x)) # Cardinality(upTo(z))
    BY <1>2, <2>3, FS_Subset
  <2> QED BY <1>1, <1>2, <2>4
<1>4. rank \in Injection(S, 1..n)
  <2>1. rank \in [S -> 1..n]
    BY <1>2
  <2>2. \A x, z \in S : rank[x] = rank[z] => x = z
    BY <1>2, <1>3
  <2> QED BY <2>1, <2>2 DEF Injection, IsInjective
<1>5. rank \in Surjection(S, 1..n)
  BY <1>1, <1>4, FS_Interval, FS_Injection
<1>6. \A i \in 1..n : \E x \in S : rank[x] = i
  BY <1>5 DEF Surjection
<1>7. \A i \in 1..n : InOrder(S)[i] \in S /\ rank[InOrder(S)[i]] = i
  <2> SUFFICES ASSUME NEW i \in 1..n PROVE InOrder(S)[i] \in S /\ rank[InOrder(S)[i]] = i
    OBVIOUS
  <2>1. InOrder(S)[i] = CHOOSE x \in S : Cardinality(upTo(x)) = i
    BY DEF InOrder
  <2>2. \E x \in S : Cardinality(upTo(x)) = i
    BY <1>6
  <2> QED BY <2>1, <2>2
<1>8. InOrder(S) \in [1..n -> S]
  BY <1>7 DEF InOrder
<1>9. ASSUME NEW i \in 1..n, NEW j \in 1..n, i < j
      PROVE  InOrder(S)[i] < InOrder(S)[j]
  <2> DEFINE x == InOrder(S)[i]
             y == InOrder(S)[j]
  <2>1. x \in S /\ y \in S /\ rank[x] = i /\ rank[y] = j
    BY <1>7
  <2> HIDE DEF x, y, rank
  <2>2. x \in Nat /\ y \in Nat /\ y # x
    BY <1>9, <2>1
  <2>3. CASE y < x
    <3>1. rank[y] < rank[x]
      BY <1>3, <2>1, <2>3
    <3> QED BY <1>1, <1>9, <2>1, <3>1
  <2>4. CASE ~(y < x)
    BY <2>2, <2>4 DEF x, y
  <2> QED BY <2>3, <2>4
<1>10. ASSUME NEW x \in S
       PROVE  \E i \in 1..n : InOrder(S)[i] = x
  <2>1. rank[x] \in 1..n /\ InOrder(S)[rank[x]] \in S /\ rank[InOrder(S)[rank[x]]] = rank[x]
    BY <1>2, <1>7
  <2>2. InOrder(S)[rank[x]] = x
    BY <1>4, <2>1 DEF Injection, IsInjective
  <2> QED BY <2>1, <2>2
<1> HIDE DEF rank
<1> QED BY <1>1, <1>8, <1>9, <1>10

-----------------------------------------------------------------------------
(* The invariant                                                           *)

\* The post at hand has not begun to reach the user.
Before == {"detect", "collect", "fetch", "group", "single", "load", "text", "deliver",
           "alone", "send", "out"}

\* The members of an album are on their way, or one of them for all.
InGroup == {"load", "out", "send", "each", "member", "sendMember", "alone", "overflow", "albumText"}

WalkTypes ==
    /\ link \in Links
    /\ pc \in Before \cup {"head", "each", "member", "sendMember", "albumText", "overflow", "wait", "done"}
    /\ pos \in 0..Len(Order)
    /\ again \in BOOLEAN /\ flag \in BOOLEAN /\ some \in BOOLEAN
    /\ seen \subseteq Albums /\ blurred \subseteq Albums
    /\ todo \subseteq Posts /\ lost \subseteq Posts /\ late \subseteq Posts
    /\ processed \subseteq Posts /\ failed \subseteq Posts /\ skipped \subseteq Posts
    /\ got \in [Posts -> Nat]

HasTwo(S) == \E p, q \in S : p # q

\* What goes with each place of a walk.
Placed ==
    /\ pc \notin {"head", "done"} \/ again => pos # 0
    /\ pc \in {"detect", "collect", "out", "albumText"} => Private
    /\ pc \in {"fetch", "group", "each", "member", "sendMember", "alone"} => ~Private
    /\ again => Private /\ pc \in {"wait", "head", "done"}
    /\ pc = "wait" => again
    /\ pc \in {"collect", "out", "albumText", "load", "send", "each"} => PhotoAlbum(Here)
    /\ pc \in {"group", "alone", "member", "sendMember"} => Here # NoAlbum
    /\ ~Private /\ pc \in {"single", "text", "deliver"} => Here = NoAlbum
    /\ Private /\ pc \in {"single", "text", "deliver", "overflow"} /\ PhotoAlbum(Here) => Here \in blurred
    /\ pc \in {"send", "out", "each", "member", "sendMember"} => todo \subseteq Members(Here)
    /\ Private /\ pc \in {"send", "out"} => HasTwo(todo)
    /\ pc = "sendMember" => todo # {}
    /\ ~Private /\ pc \in InGroup \ {"overflow"} => Here \in seen

\* What has come after /stop is of the post at hand, which is then done with.
LateFits ==
    /\ ~flag \/ pc \in Before \cup {"sendMember"} => late = {}
    /\ pc = "each" => late \subseteq Members(Here)
    /\ pc = "member" => \A p, q \in late : p = q
    /\ OneAlbumAfterStop

\* The walk will come to p; an album is open while it will come to a member.
Ahead(p) == /\ \E i \in pos + 1..Len(Order) : Order[i] = p
            /\ ~(pc = "albumText" /\ AlbumOf(p) = Here)
ToCome(p) == Ahead(p) \/ ((again \/ pc \in Before) /\ p = At)
Open(a)   == \E q \in Posts : ToCome(q) /\ AlbumOf(q) = a

\* A private walk has not sent what is to come, but for photos of an open album that was
\* not seen as one.
PrivateFits ==
    Private =>
        /\ \A p \in Posts : ToCome(p) => got[p] = 0 /\ p \notin failed
        /\ \A p \in Posts : PhotoAlbum(AlbumOf(p)) /\ Open(AlbumOf(p)) =>
              got[p] <= IF AlbumOf(p) \in blurred THEN 1 ELSE 0

\* The others have sent no single post that is to come and nothing of an album they do not
\* remember; of the album at hand, nothing that is still to be sent.
OthersFit ==
    ~Private =>
        /\ \A p \in Posts : ToCome(p) /\ AlbumOf(p) = NoAlbum => got[p] = 0
        /\ \A p \in Posts : AlbumOf(p) \notin seen \cup {NoAlbum} => got[p] = 0
        /\ pc \in {"group", "alone", "load", "send"} =>
              \A p \in Posts : AlbumOf(p) = Here => got[p] = 0
        /\ pc = "each" => \A p \in todo : got[p] <= IF p \in lost THEN 1 ELSE 0
        /\ pc \in {"member", "sendMember"} => \A p \in todo : got[p] = 0

CountedPosts == processed \cup failed \cup skipped

\* A post is accounted for as Accounted wants it.
Told(p) == (Private /\ Between(p)) \/ With(p) \cap CountedPosts # {}

\* Every post taken is told, save the one at hand; so is every album remembered.
AllTold ==
    /\ \A i \in 1..pos : Told(Order[i]) \/ (i = pos /\ (pc # "head" \/ again))
    /\ \A a \in seen : \/ pc = "done" \/ (pc \in InGroup /\ Here = a)
                       \/ \E p \in CountedPosts : AlbumOf(p) = a

\* As many photos of p's album have come as count for it.
Enough(p) == IF PhotoAlbum(AlbumOf(p)) /\ AlbumOf(p) \notin blurred
             THEN \E q, r \in With(p) : q # r /\ got[q] > 0 /\ got[r] > 0
             ELSE \E q \in With(p) : got[q] > 0

\* What has come allows to count p as sent.
Vouched(p) == IF AlbumOf(p) \in link.photos THEN Private => Enough(p)
              ELSE \E q \in With(p) : got[q] > 0

\* What is counted as sent has come; what is counted as failed has not.
TruthFits ==
    /\ \A p \in processed : Vouched(p)
    /\ Private => \A p \in Posts :
          PhotoAlbum(AlbumOf(p)) /\ AlbumOf(p) \notin blurred \cup seen => got[p] = 0 \/ p \in lost
    /\ Private => \A p \in failed \ lost : ~PhotoAlbum(AlbumOf(p)) => got[p] = 0
    /\ pc = "overflow" => got[At] > 0
    /\ pc \in {"member", "sendMember"} /\ some => \E q \in Posts : AlbumOf(q) = Here /\ got[q] > 0
    /\ pc = "albumText" => \E q, r \in Members(Here) : q # r /\ got[q] > 0 /\ got[r] > 0

WalkInv == /\ WalkTypes /\ Placed /\ LateFits /\ PrivateFits /\ OthersFit /\ AlbumsOnce
           /\ AllTold /\ TruthFits

-----------------------------------------------------------------------------
(* The kinds of steps                                                      *)

\* The post at hand counts as sent, failed or missing.
CountsAs(kind) ==
    /\ processed' = IF kind = "sent" THEN processed \cup {At} ELSE processed
    /\ failed'    = IF kind = "failed" THEN failed \cup {At} ELSE failed
    /\ skipped'   = IF kind = "missing" THEN skipped \cup {At} ELSE skipped

\* It does, and the walk goes on or ends.
Ends(kind) == pc' \in {"head", "done"} /\ again' = again /\ CountsAs(kind)

Leaves == /\ pc # "albumText" /\ pc' = "done"
          /\ UNCHANGED <<link, flag, pos, again, seen, todo, some, countVars, historyVars>>

Takes == /\ pc = "head" /\ pc' = (IF Private THEN "detect" ELSE "fetch")
         /\ ~flag /\ again' = FALSE
         /\ IF again THEN pos' = pos ELSE pos < Len(Order) /\ pos' = pos + 1
         /\ UNCHANGED <<link, flag, seen, todo, some, countVars, historyVars>>

\* From one place to the next of the same post.
Walks ==
    /\ UNCHANGED <<link, flag, pos, again, seen, some, countVars, got, lost, late>>
    /\ \/ /\ pc = "detect" /\ pc' = "collect" /\ PhotoAlbum(Here) /\ UNCHANGED <<todo, blurred>>
       \/ /\ pc = "detect" /\ pc' = "single" /\ UNCHANGED todo
          /\ blurred' = IF PhotoAlbum(Here) THEN blurred \cup {Here} ELSE blurred
       \/ /\ <<pc, pc'>> \in {<<"collect", "load">>, <<"out", "send">>, <<"albumText", "albumText">>,
                              <<"single", "text">>, <<"single", "deliver">>, <<"text", "text">>,
                              <<"overflow", "overflow">>, <<"wait", "head">>}
          /\ UNCHANGED <<todo, blurred>>
       \/ /\ pc = "load" /\ pc' = "send" /\ Private /\ HasTwo(todo')
          /\ todo' \subseteq Members(Here) /\ UNCHANGED blurred
       \/ /\ pc = "load" /\ pc' \in {"send", "each"} /\ ~Private
          /\ todo' \subseteq Members(Here) /\ UNCHANGED blurred
       \/ pc = "send" /\ pc' = "out" /\ Private /\ UNCHANGED <<todo, blurred>>
       \/ pc = "fetch" /\ pc' = "single" /\ Here = NoAlbum /\ UNCHANGED <<todo, blurred>>
       \/ pc = "fetch" /\ pc' = "group" /\ Here \notin seen \cup {NoAlbum} /\ UNCHANGED <<todo, blurred>>
       \/ pc = "member" /\ pc' = "sendMember" /\ todo # {} /\ ~flag /\ UNCHANGED <<todo, blurred>>

\* The album of the post at hand is looked up and remembered.
Groups ==
    /\ pc = "group" /\ seen' = seen \cup {Here} /\ some' = FALSE
    /\ \/ pc' = "alone" /\ blurred' = blurred \cup {Here} /\ UNCHANGED todo
       \/ pc' = "load" /\ PhotoAlbum(Here) /\ UNCHANGED <<blurred, todo>>
       \/ pc' = "member" /\ todo' = Members(Here) /\ UNCHANGED blurred
    /\ UNCHANGED <<link, flag, pos, again, countVars, got, lost, late>>

\* It is to be taken again.
Retries == /\ pc \in {"text", "deliver"} /\ Private /\ pc' = "wait" /\ again' = TRUE
           /\ UNCHANGED <<link, flag, pos, seen, todo, some, countVars, historyVars>>

\* It is counted and nothing comes.
Tells == /\ \/ pc \in {"detect", "single", "text", "deliver", "fetch", "group", "alone", "load"} /\ Ends("failed")
            \/ pc \in {"fetch", "single"} /\ Ends("missing")
            \/ pc = "overflow" /\ Ends("sent")
            \/ pc = "each" /\ Ends("sent")
            \/ pc = "member" /\ (Ends("failed") \/ (some /\ Ends("sent")))
         /\ (pc = "load" => ~Private)
         /\ some' \in {some, FALSE}
         /\ UNCHANGED <<link, flag, pos, seen, todo, historyVars>>

Jumps == pos' = SkipTo(Beyond(Here))

\* The other members are jumped, and nothing comes.
Skipped ==
    /\ Private /\ PhotoAlbum(Here) /\ Jumps
    /\ \/ pc \in {"collect", "load", "send", "out"} /\ Ends("failed")
       \/ pc = "albumText" /\ Ends("sent")
       \/ pc = "detect" /\ pc' = "head" /\ Here \in seen /\ UNCHANGED <<again, countVars>>
    /\ UNCHANGED <<link, flag, seen, todo, some, historyVars>>

\* A member of an album that was sent.
Passes == /\ pc = "fetch" /\ pc' = "head" /\ Here \in seen
          /\ UNCHANGED <<link, flag, pos, again, seen, todo, some, countVars, historyVars>>

\* The posts of S come, or their answer is lost.
Come(S) == Arrives(S) \/ (lost' = lost \cup S /\ Reach(S))

\* The post at hand comes.
ComesAlone ==
    /\ pc \in {"text", "deliver", "alone"}
    /\ \/ Arrives({At}) /\ Ends("sent")
       \/ Arrives({At}) /\ pc' = "overflow" /\ UNCHANGED <<again, countVars>>
       \/ lost' = lost \cup {At} /\ Reach({At}) /\ Ends("failed")
    /\ UNCHANGED <<link, flag, pos, seen, todo, some>>

\* The album comes as one, in a private walk.
ComesAsAlbum ==
    /\ pc = "out"
    /\ \/ /\ Arrives(todo) /\ seen' = seen \cup {Here}
          /\ \/ Ends("sent") /\ Jumps
             \/ pc' = "albumText" /\ UNCHANGED <<pos, again, countVars>>
       \/ lost' = lost \cup todo /\ Reach(todo) /\ Ends("failed") /\ Jumps /\ UNCHANGED seen
    /\ UNCHANGED <<link, flag, todo, some>>

\* In another.
ComesAsGroup ==
    /\ pc = "send" /\ ~Private
    /\ \/ Arrives(todo) /\ Ends("sent")
       \/ lost' = lost \cup todo /\ Reach(todo) /\ pc' = "each" /\ UNCHANGED <<again, countVars>>
       \/ UNCHANGED historyVars /\ pc' = "each" /\ UNCHANGED <<again, countVars>>
    /\ UNCHANGED <<link, flag, pos, seen, todo, some>>

\* The next of the photos or members comes, or does not.
ComesByItself ==
    /\ \/ pc = "each" /\ todo # {} /\ pc' = "each" /\ UNCHANGED some
       \/ /\ pc = "sendMember" /\ pc' = "member"
          /\ some' = some \/ (Arrives({Least(todo)}) /\ some' = TRUE)
    /\ todo' = todo \ {Least(todo)}
    /\ Come({Least(todo)}) \/ UNCHANGED historyVars
    /\ UNCHANGED <<link, flag, pos, again, seen, countVars>>

\* /stop comes, or nothing happens.
Stops == /\ flag' \in {flag, TRUE}
         /\ UNCHANGED <<link, pc, pos, again, seen, todo, some, countVars, historyVars>>

Kinds == \/ Leaves \/ Takes \/ Walks \/ Groups \/ Retries \/ Tells \/ Skipped \/ Passes
         \/ ComesAlone \/ ComesAsAlbum \/ ComesAsGroup \/ ComesByItself \/ Stops
KindsOfSteps == [][Kinds]_walkVars


-----------------------------------------------------------------------------
(* Links                                                                   *)

\* What is assumed of a link: its posts are numbers, those of a private walk ascend, and no
\* post comes twice; an album has a number, and a deleted post has none.
LEMMA LinkFacts ==
    ASSUME link \in Links
    PROVE  /\ Posts \subseteq Nat /\ NoAlbum \notin Albums /\ 0 \notin Posts
           /\ Order \in Seq(Posts)
           /\ \A i, j \in 1..Len(Order) : i < j => /\ Order[i] # Order[j]
                                                   /\ Private => Order[i] < Order[j]
           /\ \A p \in Posts : AlbumOf(p) \in Albums \cup {NoAlbum}
           /\ \A a : PhotoAlbum(a) => a \in link.photos
           /\ link.photos \subseteq Albums
           /\ \A a \in Albums : \A p : p \in Members(a) <=> p \in Posts /\ AlbumOf(p) = a
           /\ \A a : Members(a) \subseteq Posts
<1>1. Posts \subseteq Nat /\ NoAlbum \notin Albums /\ 0 \notin Posts
  BY PostWalkAssumption DEF Posts, NoAlbum, Albums
<1>2. link \in LinkType
  BY PostWalkAssumption
<1>3. /\ link.ids \in Seq(Posts) /\ link.album \in [Posts -> {NoAlbum} \cup Albums]
      /\ link.photos \subseteq Albums /\ link.gone \subseteq Posts /\ link.outside \subseteq Posts
  BY <1>2 DEF LinkType
<1>4. /\ \A p \in link.gone : AlbumOf(p) = NoAlbum
      /\ \A i, j \in DOMAIN link.ids : i < j =>
            IF Private THEN link.ids[i] < link.ids[j] ELSE link.ids[i] # link.ids[j]
  BY PostWalkAssumption DEF AlbumOf, Private
<1>5. ASSUME ~Comments
      PROVE  /\ Order \in Seq(Posts)
             /\ \A i, j \in 1..Len(Order) : i < j => Order[i] # Order[j] /\ (Private => Order[i] < Order[j])
  <2>1. Order = link.ids
    BY <1>5 DEF Order
  <2>2. Order \in Seq(Posts) /\ DOMAIN Order = 1..Len(Order)
    BY <1>3, <2>1
  <2>3. \A i \in 1..Len(Order) : Order[i] \in Posts
    BY <2>2
  <2>4. ASSUME NEW i \in 1..Len(Order), NEW j \in 1..Len(Order), i < j
        PROVE  Order[i] # Order[j] /\ (Private => Order[i] < Order[j])
    <3>1. IF Private THEN Order[i] < Order[j] ELSE Order[i] # Order[j]
      BY <1>4, <2>1, <2>2, <2>4
    <3>2. Order[i] \in Nat /\ Order[j] \in Nat
      BY <1>1, <2>3
    <3> QED BY <3>1, <3>2
  <2> QED BY <2>2, <2>4
<1>6. ASSUME Comments
      PROVE  /\ Order \in Seq(Posts)
             /\ \A i, j \in 1..Len(Order) : i < j => Order[i] # Order[j] /\ (Private => Order[i] < Order[j])
  <2> DEFINE S == ToSet(link.ids) \ (link.gone \cup link.outside)
  <2>1. Order = InOrder(S)
    BY <1>6 DEF Order
  <2>2. S \in SUBSET Posts
    BY <1>3 DEF ToSet
  <2>3. Posts \in SUBSET Nat /\ IsFiniteSet(Posts)
    BY <1>1, PostWalkAssumption, FS_Interval DEF Posts
  <2>4. IsFiniteSet(S) /\ S \in SUBSET Nat
    BY <2>2, <2>3, FS_Subset
  <2> HIDE DEF S
  <2>5. /\ Order \in [1..Cardinality(S) -> S] /\ Cardinality(S) \in Nat
        /\ \A i, j \in 1..Cardinality(S) : i < j => Order[i] < Order[j]
    BY <2>1, <2>4, InOrderSorts
  <2>6. Order \in Seq(Posts) /\ Len(Order) = Cardinality(S)
    BY <2>2, <2>5
  <2>7. \A i \in 1..Len(Order) : Order[i] \in Posts
    BY <2>6
  <2>8. ASSUME NEW i \in 1..Len(Order), NEW j \in 1..Len(Order), i < j
        PROVE  Order[i] # Order[j] /\ Order[i] < Order[j]
    <3>1. Order[i] < Order[j]
      BY <2>5, <2>6, <2>8
    <3>2. Order[i] \in Nat /\ Order[j] \in Nat
      BY <1>1, <2>7
    <3> QED BY <3>1, <3>2
  <2> QED BY <2>6, <2>8
<1>7. \A p \in Posts : AlbumOf(p) \in Albums \cup {NoAlbum}
  BY <1>3 DEF AlbumOf
<1>8. \A a \in Albums : \A p : p \in Members(a) <=> p \in Posts /\ AlbumOf(p) = a
  BY <1>1, <1>4 DEF Members
<1>9. \A a : Members(a) \subseteq Posts
  BY DEF Members
<1> QED BY <1>1, <1>3, <1>5, <1>6, <1>7, <1>8, <1>9 DEF PhotoAlbum

\* The link stays, and with it whatever is said of its posts and albums.
LEMMA LinkStays ==
    ASSUME link' = link
    PROVE  /\ Order' = Order /\ (Private' <=> Private)
           /\ \A p : AlbumOf(p)' = AlbumOf(p) /\ With(p)' = With(p) /\ (Between(p)' <=> Between(p))
           /\ \A p, q : SameAlbum(p, q)' <=> SameAlbum(p, q)
           /\ \A a : Members(a)' = Members(a) /\ (PhotoAlbum(a)' <=> PhotoAlbum(a))
<1>1. Order' = Order
  BY DEF Order, Comments
<1>2. Private' <=> Private
  BY DEF Private
<1>3. \A p : AlbumOf(p)' = AlbumOf(p)
  BY DEF AlbumOf
<1>4. \A p, q : SameAlbum(p, q)' <=> SameAlbum(p, q)
  BY DEF SameAlbum, AlbumOf
<1>5. \A a : Members(a)' = Members(a)
  BY DEF Members, AlbumOf
<1>6. \A a : PhotoAlbum(a)' <=> PhotoAlbum(a)
  BY <1>5 DEF PhotoAlbum
<1>7. \A p : With(p)' = With(p)
  BY <1>2, <1>3, <1>4, <1>6 DEF With
<1>8. \A p : Between(p)' <=> Between(p)
  BY <1>3, <1>5 DEF Between
<1> QED BY <1>1, <1>2, <1>3, <1>4, <1>5, <1>6, <1>7, <1>8

\* The post at hand.
LEMMA AtHand ==
    ASSUME WalkTypes, pos # 0
    PROVE  pos \in 1..Len(Order) /\ At \in Posts /\ Here \in Albums \cup {NoAlbum}
<1>1. Order \in Seq(Posts) /\ pos \in 1..Len(Order)
  BY LinkFacts DEF WalkTypes
<1>2. At \in Posts
  BY <1>1 DEF At
<1> QED BY <1>1, <1>2, LinkFacts DEF WalkTypes, Here

\* The least of the posts that are still to be sent is one of them.
LEMMA LeastIsIn ==
    ASSUME NEW S \in SUBSET Posts, S # {}
    PROVE  Least(S) \in S
<1>1. S \in SUBSET Nat
  BY PostWalkAssumption DEF Posts
<1>2. \E p \in S : \A q \in S : p <= q
  BY <1>1, LeastExists
<1> QED BY <1>2 DEF Least

\* A jump leads behind the last member of the album at hand, and not further.
LEMMA JumpFacts ==
    ASSUME WalkTypes, pos # 0, Private, PhotoAlbum(Here)
    PROVE  /\ SkipTo(Beyond(Here)) \in pos..Len(Order)
           /\ \A k \in pos + 1..SkipTo(Beyond(Here)) : Order[k] < Beyond(Here)
           /\ \A k \in SkipTo(Beyond(Here)) + 1..Len(Order) : Order[k] >= Beyond(Here)
           /\ Beyond(Here) \in Nat /\ Beyond(Here) - 1 \in Members(Here)
           /\ \A p \in Members(Here) : p < Beyond(Here)
<1> DEFINE M == Members(Here)
           n == Beyond(Here)
<1>1. pos \in 1..Len(Order) /\ Len(Order) \in Nat /\ Order \in Seq(Posts)
  BY AtHand, LinkFacts DEF WalkTypes
<1>2. M \subseteq Posts /\ At \in M
  BY AtHand, LinkFacts DEF WalkTypes, Here
<1>3. MaxPost \in Nat \ {0} /\ Posts = 1..MaxPost
  BY PostWalkAssumption DEF Posts
<1>4. \E m \in 2..MaxPost + 1 : m - 1 \in M /\ \A p \in M : p < m
  <2> DEFINE T == {m \in Nat : \A p \in M : p < m}
  <2>1. T \in SUBSET Nat /\ MaxPost + 1 \in T
    BY <1>2, <1>3
  <2>2. PICK m \in T : \A k \in T : m <= k
    BY <2>1, LeastExists
  <2>3. At \in 1..MaxPost /\ At < m /\ m \in Nat
    BY <1>2, <1>3, <2>2
  <2>4. m - 1 \in Nat /\ m - 1 \notin T
    BY <2>2, <2>3
  <2>5. PICK p \in M : ~(p < m - 1)
    BY <2>4
  <2>6. p \in 1..MaxPost /\ p < m
    BY <1>2, <1>3, <2>2
  <2>7. p = m - 1 /\ m \in 2..MaxPost + 1
    BY <1>3, <2>3, <2>5, <2>6
  <2>8. m - 1 \in M
    BY <2>5, <2>7
  <2> QED BY <2>2, <2>7, <2>8
<1>5. n \in 2..MaxPost + 1 /\ n - 1 \in M /\ \A p \in M : p < n
  BY <1>4 DEF Beyond
<1>6. n \in Nat
  BY <1>3, <1>5
<1> HIDE DEF n, M
<1> DEFINE Fits(i) == /\ i < Len(Order) => Order[i + 1] >= n
                      /\ \A k \in pos + 1..i : Order[k] < n
<1>7. \A k \in 1..Len(Order) : Order[k] \in Nat
  BY <1>1, <1>3
<1>8. \E i \in pos..Len(Order) : Fits(i)
  <2> DEFINE T == {i \in pos..Len(Order) : i < Len(Order) => Order[i + 1] >= n}
  <2>1. T \in SUBSET Nat /\ Len(Order) \in T
    BY <1>1
  <2>2. PICK i \in T : \A k \in T : i <= k
    BY <2>1, LeastExists
  <2>3. ASSUME NEW k \in pos + 1..i PROVE Order[k] < n
    <3>1. k - 1 \in pos..Len(Order) /\ k - 1 < i /\ k \in 1..Len(Order) /\ k - 1 < Len(Order)
      BY <1>1, <2>2
    <3>2. k - 1 \notin T
      BY <1>1, <2>2, <3>1
    <3>3. ~(Order[(k - 1) + 1] >= n) /\ (k - 1) + 1 = k
      BY <1>1, <3>1, <3>2
    <3> QED BY <1>6, <1>7, <3>1, <3>3
  <2> QED BY <2>2, <2>3
<1>9. SkipTo(n) \in pos..Len(Order) /\ Fits(SkipTo(n))
  <2>1. SkipTo(n) = CHOOSE i \in pos..Len(Order) : Fits(i)
    BY DEF SkipTo
  <2> HIDE DEF Fits
  <2> QED BY <1>8, <2>1
<1>10. ASSUME NEW k \in SkipTo(n) + 1..Len(Order)
       PROVE  Order[k] >= n
  <2> DEFINE i == SkipTo(n)
  <2>1. i \in pos..Len(Order) /\ Fits(i) /\ k \in i + 1..Len(Order)
    BY <1>9, <1>10
  <2> HIDE DEF i
  <2>2. i + 1 \in 1..Len(Order) /\ k \in 1..Len(Order) /\ Order[i + 1] >= n
    BY <1>1, <2>1
  <2>3. k = i + 1 \/ Order[i + 1] < Order[k]
    BY <1>1, <2>1, <2>2, LinkFacts DEF WalkTypes
  <2> QED BY <1>6, <1>7, <2>2, <2>3
<1> QED BY <1>5, <1>6, <1>9, <1>10 DEF n, M


\* Two elements, counted and named.
LEMMA TwoOf ==
    ASSUME NEW S \in SUBSET Posts
    PROVE  /\ IsFiniteSet(S) /\ Cardinality(S) \in Nat
           /\ Cardinality(S) >= 2 <=> HasTwo(S)
           /\ Cardinality(S) >= 1 <=> S # {}
<1>1. IsFiniteSet(S)
  <2>1. MaxPost \in Int /\ Posts = 1..MaxPost
    BY PostWalkAssumption DEF Posts
  <2>2. IsFiniteSet(Posts)
    BY <2>1, FS_Interval
  <2> QED BY <2>2, FS_Subset
<1>2. Cardinality(S) \in Nat /\ (Cardinality(S) = 0 <=> S = {})
  BY <1>1, FS_CardinalityType, FS_EmptySet
<1>3. CASE S = {}
  BY <1>1, <1>2, <1>3 DEF HasTwo
<1>4. ASSUME S # {}
      PROVE  Cardinality(S) >= 2 <=> HasTwo(S)
  <2>1. PICK x : x \in S
    BY <1>4
  <2> DEFINE T == S \ {x}
  <2>2. IsFiniteSet(T) /\ Cardinality(T) = Cardinality(S) - 1
    BY <1>1, <2>1, FS_RemoveElement
  <2>3. Cardinality(T) = 0 <=> T = {}
    BY <2>2, FS_EmptySet
  <2>4. T # {} <=> HasTwo(S)
    BY <2>1 DEF HasTwo
  <2> HIDE DEF T
  <2> QED BY <1>2, <1>4, <2>2, <2>3, <2>4
<1> QED BY <1>1, <1>2, <1>3, <1>4


\* A post that is settled ends, and so does one of the other outcomes.
LEMMA WaysToEnd ==
    /\ \A ok \in BOOLEAN : Settle(ok) => Ends(IF ok THEN "sent" ELSE "failed")
    /\ Raises => Ends("failed")
    /\ Skips => Ends("missing")
    /\ Deleted => Ends("missing")
    /\ SingleFloods => \/ Private /\ pc' = "wait" /\ again' = TRUE /\ UNCHANGED countVars
                       \/ ~Private /\ Ends("failed")
                       \/ ~Private /\ pc' = "done" /\ UNCHANGED <<again, countVars>>
<1>1. \A ok \in BOOLEAN : Settle(ok) => Ends(IF ok THEN "sent" ELSE "failed")
  BY DEF Settle, Ends, CountsAs, Finish, Goto
<1>2. Raises => Ends("failed")
  BY DEF Raises, Ends, CountsAs, Goto
<1>3. Skips => Ends("missing")
  BY DEF Skips, Ends, CountsAs, Goto
<1>4. Deleted => Ends("missing")
  BY DEF Deleted, Ends, CountsAs, Goto, Finish
<1>5. SingleFloods => \/ Private /\ pc' = "wait" /\ again' = TRUE /\ UNCHANGED countVars
                      \/ ~Private /\ Ends("failed")
                      \/ ~Private /\ pc' = "done" /\ UNCHANGED <<again, countVars>>
  BY DEF SingleFloods, Ends, CountsAs, Goto, Finish, countVars, Private
<1> QED BY <1>1, <1>2, <1>3, <1>4, <1>5

\* Each action is a step of one of the kinds.
LEMMA KindOfStep ==
    ASSUME WalkTypes, Placed, [WalkNext]_walkVars
    PROVE  Kinds
<1> USE DEF countVars, historyVars, textVars
<1>1. CASE Stopped
  BY <1>1 DEF Stopped, Leave, Uncounted, NothingComes, Kinds, Leaves
<1>2. CASE TakeNext
  BY <1>2 DEF TakeNext, Goto, Finish, NothingComes, Kinds, Takes, Leaves, WalkTypes
<1>3. CASE Detect
  BY <1>3, WaysToEnd DEF Detect, Goto, Uncounted, Kinds, Walks, Tells, Skipped, Jumps, Placed, WalkTypes
<1>4. CASE Collect
  BY <1>4, WaysToEnd DEF Collect, AlbumCancelled, AlbumEnds, Leave, Goto, Uncounted, NothingComes, Kinds, Walks,
     Leaves, Skipped, Jumps, Placed
<1>5. CASE LoadAlbum
  <2>1. \A S \in SUBSET Members(Here) : Cardinality(S) >= 2 => HasTwo(S)
    BY LinkFacts, TwoOf DEF WalkTypes
  <2> QED BY <1>5, <2>1, WaysToEnd DEF LoadAlbum, AlbumCancelled, AlbumEnds, Leave, Goto, Uncounted, NothingComes,
             Kinds, Walks, Leaves, Skipped, Jumps, Placed
<1>6. CASE CheckAlbum
  BY <1>6, WaysToEnd DEF CheckAlbum, AlbumCancelled, AlbumFails, AlbumEnds, Leave, Goto, Uncounted, NothingComes,
     Kinds, Walks, Leaves, Skipped, Jumps, Placed
<1>7. CASE SendAlbum
  BY <1>7, WaysToEnd DEF SendAlbum, AlbumFails, AlbumEnds, LosesAnswer, Arrives, Reach, Goto, Uncounted, NothingComes,
     Kinds, Walks, Skipped, Jumps, ComesAsAlbum, Placed
<1>8. CASE SendAlbumText
  BY <1>8, WaysToEnd DEF SendAlbumText, AlbumEnds, Goto, Uncounted, NothingComes, Kinds, Walks, Skipped, Jumps, Placed
<1>9. CASE Fetch
  BY <1>9, WaysToEnd DEF Fetch, Goto, Uncounted, NothingComes, Kinds, Walks, Tells, Passes, Leaves, Ends, CountsAs,
     Placed, WalkTypes
<1>10. CASE Group
  BY <1>10, WaysToEnd DEF Group, Goto, Uncounted, NothingComes, Remembers, Kinds, Tells, Groups
<1>11. CASE LoadPhotos
  BY <1>11, WaysToEnd DEF LoadPhotos, Goto, Uncounted, NothingComes, Kinds, Tells, Walks
<1>12. CASE SendPhotos
  BY <1>12, WaysToEnd DEF SendPhotos, Goto, Uncounted, NothingComes, LosesAnswer, Kinds, ComesAsGroup
<1>13. CASE SendEach
  BY <1>13, WaysToEnd DEF SendEach, Goto, Uncounted, NothingComes, LosesAnswer, Arrives, Kinds, Tells, Come,
     ComesByItself
<1>14. CASE NextMember
  BY <1>14, WaysToEnd DEF NextMember, Heeds, Goto, Uncounted, NothingComes, Kinds, Tells, Walks, WalkTypes
<1>15. CASE SendMember
  BY <1>15 DEF SendMember, Goto, Uncounted, NothingComes, LosesAnswer, Arrives, Kinds, Come, ComesByItself
<1>16. CASE StartSingle
  BY <1>16, WaysToEnd DEF StartSingle, Goto, Uncounted, NothingComes, Kinds, Tells, Walks
<1>17. CASE SendText
  BY <1>17, WaysToEnd DEF SendText, Goto, Uncounted, NothingComes, Arrives, Kinds, Tells, Walks, Retries, Leaves,
     ComesAlone
<1>18. CASE Deliver
  BY <1>18, WaysToEnd DEF Deliver, Goto, Leave, Uncounted, NothingComes, Arrives, LosesAnswer, Kinds, Tells, Retries,
     Leaves, ComesAlone, Placed
<1>19. CASE SendOverflow
  BY <1>19, WaysToEnd DEF SendOverflow, Goto, Uncounted, NothingComes, Kinds, Tells, Walks
<1>20. CASE Wait
  BY <1>20 DEF Wait, Goto, Leave, Uncounted, NothingComes, Kinds, Walks, Leaves
<1>21. CASE RaiseFlag
  BY <1>21 DEF RaiseFlag, Kinds, Stops
<1>22. CASE UNCHANGED walkVars
  BY <1>22 DEF walkVars, Kinds, Stops
<1> QED BY <1>1, <1>2, <1>3, <1>4, <1>5, <1>6, <1>7, <1>8, <1>9, <1>10, <1>11, <1>12, <1>13, <1>14, <1>15, <1>16,
           <1>17, <1>18, <1>19, <1>20, <1>21, <1>22 DEF WalkNext


-----------------------------------------------------------------------------
(* Types and places                                                        *)

LEMMA FirstStep == WalkInit => WalkInv
<1> SUFFICES ASSUME WalkInit PROVE WalkInv
  OBVIOUS
<1>1. /\ link \in Links /\ pc = "head" /\ pos = 0 /\ again = FALSE /\ flag = FALSE /\ some = FALSE
      /\ seen = {} /\ blurred = {} /\ todo = {} /\ lost = {} /\ late = {}
      /\ processed = {} /\ failed = {} /\ skipped = {} /\ got = [p \in Posts |-> 0]
  BY DEF WalkInit
<1>2. Len(Order) \in Nat
  BY <1>1, LinkFacts
<1>3. WalkTypes
  <2>1. again \in BOOLEAN /\ flag \in BOOLEAN /\ some \in BOOLEAN
    BY <1>1
  <2>2. got \in [Posts -> Nat] /\ pos \in 0..Len(Order)
    BY <1>1, <1>2
  <2> QED BY <1>1, <2>1, <2>2 DEF WalkTypes
<1>4. Placed
  BY <1>1 DEF Placed, InGroup
<1>5. LateFits
  BY <1>1 DEF LateFits, OneAlbumAfterStop, Before
<1>6. PrivateFits
  BY <1>1 DEF PrivateFits
<1>7. OthersFit
  BY <1>1 DEF OthersFit
<1>8. AlbumsOnce
  BY <1>1 DEF AlbumsOnce
<1>9. AllTold
  BY <1>1 DEF AllTold
<1>10. TruthFits
  BY <1>1 DEF TruthFits
<1> QED BY <1>3, <1>4, <1>5, <1>6, <1>7, <1>8, <1>9, <1>10 DEF WalkInv

\* What the ends and the arrivals do to the types.
LEMMA TypedParts ==
    ASSUME WalkTypes, pos # 0
    PROVE  /\ \A kind : Ends(kind) => /\ pc' \in {"head", "done"} /\ again' = again /\ processed' \subseteq Posts
                                      /\ failed' \subseteq Posts /\ skipped' \subseteq Posts
           /\ \A S \in SUBSET Posts : Reach(S) => /\ got' \in [Posts -> Nat] /\ late' \subseteq Posts
                                                  /\ blurred' = blurred
<1>1. ASSUME NEW kind, Ends(kind)
      PROVE  /\ pc' \in {"head", "done"} /\ again' = again /\ processed' \subseteq Posts
             /\ failed' \subseteq Posts /\ skipped' \subseteq Posts
  BY <1>1, AtHand DEF Ends, CountsAs, WalkTypes
<1>2. ASSUME NEW S \in SUBSET Posts, Reach(S)
      PROVE  got' \in [Posts -> Nat] /\ late' \subseteq Posts /\ blurred' = blurred
  BY <1>2 DEF Reach, WalkTypes
<1> QED BY <1>1, <1>2

LEMMA TypesKept ==
    ASSUME WalkTypes, Placed, Kinds
    PROVE  WalkTypes' /\ link' = link
<1>0. link' = link
  BY DEF Kinds, Leaves, Takes, Walks, Groups, Retries, Tells, Skipped, Passes, ComesAlone, ComesAsAlbum, ComesAsGroup,
         ComesByItself, Stops
<1>1. Order' = Order
  BY <1>0, LinkStays
<1> USE DEF countVars, historyVars
<1>2. CASE Leaves
  BY <1>1, <1>2 DEF Leaves, WalkTypes
<1>3. CASE Takes
  <2>1. pos' \in 0..Len(Order)
    BY <1>3, LinkFacts DEF Takes, WalkTypes
  <2>2. again' \in BOOLEAN /\ pc' \in {"detect", "fetch"}
    BY <1>3 DEF Takes
  <2> QED BY <1>0, <1>1, <1>3, <2>1, <2>2 DEF Takes, WalkTypes, Before
<1>4. CASE Walks
  <2>1. pos # 0
    BY <1>4 DEF Walks, Placed
  <2>2. Here \in Albums \cup {NoAlbum} /\ (PhotoAlbum(Here) => Here \in Albums) /\ Members(Here) \subseteq Posts
    BY <2>1, AtHand, LinkFacts DEF WalkTypes
  <2>3. pc' \in Before \cup {"head", "each", "member", "sendMember", "albumText", "overflow", "wait", "done"}
    BY <1>4 DEF Walks, Before
  <2>4. todo' \subseteq Posts /\ blurred' \subseteq Albums
    BY <1>4, <2>2 DEF Walks, WalkTypes
  <2> QED BY <1>1, <1>4, <2>3, <2>4 DEF Walks, WalkTypes
<1>5. CASE Groups
  <2>1. pos # 0 /\ Here # NoAlbum
    BY <1>5 DEF Groups, Placed
  <2>2. Here \in Albums /\ Members(Here) \subseteq Posts
    BY <2>1, AtHand, LinkFacts DEF WalkTypes
  <2> QED BY <1>1, <1>5, <2>2 DEF Groups, WalkTypes, Before
<1>6. CASE Retries
  BY <1>1, <1>6 DEF Retries, WalkTypes
<1>7. CASE Tells
  <2>1. pos # 0
    BY <1>7 DEF Tells, Placed
  <2>2. /\ pc' \in {"head", "done"} /\ again' = again /\ processed' \subseteq Posts
        /\ failed' \subseteq Posts /\ skipped' \subseteq Posts
    BY <1>7, <2>1, TypedParts DEF Tells
  <2>3. UNCHANGED <<pos, flag, seen, todo, historyVars>> /\ some' \in {some, FALSE}
    BY <1>7 DEF Tells
  <2> QED BY <1>0, <1>1, <2>2, <2>3 DEF WalkTypes
<1>8. CASE Skipped
  <2>1. pos # 0 /\ Private /\ PhotoAlbum(Here)
    BY <1>8 DEF Skipped, Placed
  <2>2. pos' \in 0..Len(Order)
    <3>1. pos' = SkipTo(Beyond(Here))
      BY <1>8 DEF Skipped, Jumps
    <3>2. pos \in 0..Len(Order) /\ Len(Order) \in Nat
      BY LinkFacts DEF WalkTypes
    <3>3. SkipTo(Beyond(Here)) \in pos..Len(Order)
      BY <2>1, JumpFacts
    <3> QED BY <3>1, <3>2, <3>3
  <2>3. /\ pc' \in {"head", "done"} /\ again' = again /\ processed' \subseteq Posts
        /\ failed' \subseteq Posts /\ skipped' \subseteq Posts
    BY <1>8, <2>1, TypedParts DEF Skipped, WalkTypes
  <2>4. UNCHANGED <<flag, seen, todo, some, historyVars>>
    BY <1>8 DEF Skipped
  <2> QED BY <1>0, <1>1, <2>2, <2>3, <2>4 DEF WalkTypes
<1>9. CASE Passes
  BY <1>1, <1>9 DEF Passes, WalkTypes
<1>10. CASE ComesAlone
  <2>1. pos # 0
    BY <1>10 DEF ComesAlone, Placed
  <2>2. At \in Posts
    BY <2>1, AtHand
  <2>3. Reach({At}) /\ lost' \subseteq Posts
    BY <1>10, <2>2 DEF ComesAlone, Arrives, WalkTypes
  <2>4. got' \in [Posts -> Nat] /\ late' \subseteq Posts /\ blurred' = blurred
    BY <2>1, <2>2, <2>3, TypedParts
  <2>5. /\ pc' \in {"head", "done", "overflow"} /\ again' = again /\ processed' \subseteq Posts
        /\ failed' \subseteq Posts /\ skipped' \subseteq Posts
    BY <1>10, <2>1, TypedParts DEF ComesAlone, WalkTypes
  <2>6. UNCHANGED <<flag, pos, seen, todo, some>>
    BY <1>10 DEF ComesAlone
  <2> QED BY <1>0, <1>1, <2>3, <2>4, <2>5, <2>6 DEF WalkTypes
<1>11. CASE ComesAsAlbum
  <2>1. pos # 0 /\ Private /\ PhotoAlbum(Here)
    BY <1>11 DEF ComesAsAlbum, Placed
  <2>2. Reach(todo) /\ lost' \subseteq Posts
    BY <1>11 DEF ComesAsAlbum, Arrives, WalkTypes
  <2>3. got' \in [Posts -> Nat] /\ late' \subseteq Posts /\ blurred' = blurred
    BY <2>1, <2>2, TypedParts DEF WalkTypes
  <2>4. pos' \in 0..Len(Order)
    <3>1. pos' = pos \/ pos' = SkipTo(Beyond(Here))
      BY <1>11 DEF ComesAsAlbum, Jumps
    <3>2. pos \in 0..Len(Order) /\ Len(Order) \in Nat
      BY LinkFacts DEF WalkTypes
    <3>3. SkipTo(Beyond(Here)) \in pos..Len(Order)
      BY <2>1, JumpFacts
    <3> QED BY <3>1, <3>2, <3>3
  <2>5. /\ pc' \in {"head", "done", "albumText"} /\ again' = again /\ processed' \subseteq Posts
        /\ failed' \subseteq Posts /\ skipped' \subseteq Posts
    BY <1>11, <2>1, TypedParts DEF ComesAsAlbum, WalkTypes
  <2>6. seen' \subseteq Albums
    BY <1>11, <2>1, LinkFacts DEF ComesAsAlbum, WalkTypes
  <2>7. UNCHANGED <<flag, todo, some>>
    BY <1>11 DEF ComesAsAlbum
  <2> QED BY <1>0, <1>1, <2>2, <2>3, <2>4, <2>5, <2>6, <2>7 DEF WalkTypes
<1>12. CASE ComesAsGroup
  <2>1. pos # 0
    BY <1>12 DEF ComesAsGroup, Placed
  <2>2. (Reach(todo) \/ UNCHANGED historyVars) /\ lost' \subseteq Posts
    BY <1>12 DEF ComesAsGroup, Arrives, WalkTypes
  <2>3. got' \in [Posts -> Nat] /\ late' \subseteq Posts /\ blurred' = blurred
    BY <2>1, <2>2, TypedParts DEF WalkTypes
  <2>4. /\ pc' \in {"head", "done", "each"} /\ again' = again /\ processed' \subseteq Posts
        /\ failed' \subseteq Posts /\ skipped' \subseteq Posts
    BY <1>12, <2>1, TypedParts DEF ComesAsGroup, WalkTypes
  <2>5. UNCHANGED <<flag, pos, seen, todo, some>>
    BY <1>12 DEF ComesAsGroup
  <2> QED BY <1>0, <1>1, <2>2, <2>3, <2>4, <2>5 DEF WalkTypes
<1>13. CASE ComesByItself
  <2>1. pos # 0 /\ todo # {}
    BY <1>13 DEF ComesByItself, Placed
  <2>2. Least(todo) \in Posts
    BY <2>1, LeastIsIn DEF WalkTypes
  <2>3. (Reach({Least(todo)}) \/ UNCHANGED historyVars) /\ lost' \subseteq Posts
    BY <1>13, <2>2 DEF ComesByItself, Come, Arrives, WalkTypes
  <2>4. got' \in [Posts -> Nat] /\ late' \subseteq Posts /\ blurred' = blurred
    BY <2>1, <2>2, <2>3, TypedParts DEF WalkTypes
  <2>5. pc' \in {"each", "member"} /\ some' \in BOOLEAN /\ todo' \subseteq Posts
    BY <1>13 DEF ComesByItself, WalkTypes
  <2>6. UNCHANGED <<flag, pos, again, seen, countVars>>
    BY <1>13 DEF ComesByItself
  <2> QED BY <1>0, <1>1, <2>3, <2>4, <2>5, <2>6 DEF WalkTypes
<1>14. CASE Stops
  BY <1>1, <1>14 DEF Stops, WalkTypes
<1> QED BY <1>0, <1>2, <1>3, <1>4, <1>5, <1>6, <1>7, <1>8, <1>9, <1>10, <1>11, <1>12, <1>13, <1>14 DEF Kinds


\* While the walk stays at a post, the post and its album are the same.
LEMMA HereStays ==
    ASSUME link' = link, pos' = pos
    PROVE  /\ At' = At /\ Here' = Here /\ (PhotoAlbum(Here)' <=> PhotoAlbum(Here))
           /\ Members(Here)' = Members(Here)
<1>1. At' = At
  BY LinkStays DEF At
<1>2. Here' = Here
  BY <1>1 DEF Here, AlbumOf
<1>3. Members(Here)' = Members(Here)
  BY <1>2 DEF Members, AlbumOf
<1>4. PhotoAlbum(Here)' <=> PhotoAlbum(Here)
  BY <1>2, <1>3 DEF PhotoAlbum
<1> QED BY <1>1, <1>2, <1>3, <1>4

\* A step that ends with the post at hand has little to place.
LEMMA PlacedAtEnd ==
    ASSUME WalkTypes, Placed, link' = link, pc' \in {"head", "done"}, again' = again, pos' \in pos..Len(Order)
    PROVE  Placed'
<1>1. again' => Private' /\ pos' # 0
  BY LinkStays DEF Placed, WalkTypes
<1> QED BY <1>1 DEF Placed, Before, InGroup

LEMMA PlacedKept ==
    ASSUME WalkTypes, Placed, Kinds, WalkTypes', link' = link
    PROVE  Placed'
<1>1. (Private' <=> Private) /\ Order' = Order
  BY LinkStays
<1>2. pos \in 0..Len(Order) /\ Len(Order) \in Nat
  BY LinkFacts DEF WalkTypes
<1> USE DEF countVars, historyVars
<1>3. CASE Leaves
  BY <1>2, <1>3, PlacedAtEnd DEF Leaves
<1>4. CASE Takes
  BY <1>1, <1>2, <1>4 DEF Takes, Placed, InGroup
<1>5. CASE Walks
  <2>1. /\ At' = At /\ Here' = Here /\ (PhotoAlbum(Here)' <=> PhotoAlbum(Here))
        /\ Members(Here)' = Members(Here) /\ UNCHANGED <<pos, again, seen>>
    BY <1>5, HereStays DEF Walks
  <2>2. HasTwo(todo') <=> HasTwo(todo)'
    BY DEF HasTwo
  <2> QED BY <1>1, <1>5, <2>1, <2>2 DEF Walks, Placed, InGroup, HasTwo
<1>6. CASE Groups
  <2>1. /\ At' = At /\ Here' = Here /\ (PhotoAlbum(Here)' <=> PhotoAlbum(Here))
        /\ Members(Here)' = Members(Here)
    BY <1>6, HereStays DEF Groups
  <2> QED BY <1>1, <1>6, <2>1 DEF Groups, Placed, InGroup
<1>7. CASE Retries
  BY <1>1, <1>7 DEF Retries, Placed, InGroup
<1>8. CASE Tells
  BY <1>2, <1>8, PlacedAtEnd DEF Tells, Ends
<1>9. CASE Skipped
  <2>1. pos # 0
    BY <1>9 DEF Skipped, Placed
  <2>2. pos' \in pos..Len(Order)
    BY <1>9, <2>1, JumpFacts DEF Skipped, Jumps
  <2>3. pc' \in {"head", "done"} /\ again' = again
    BY <1>9 DEF Skipped, Ends
  <2> QED BY <2>2, <2>3, PlacedAtEnd
<1>10. CASE Passes
  BY <1>2, <1>10, PlacedAtEnd DEF Passes
<1>11. CASE ComesAlone
  <2>1. /\ At' = At /\ Here' = Here /\ (PhotoAlbum(Here)' <=> PhotoAlbum(Here)) /\ pos' = pos
        /\ blurred' = blurred
    BY <1>11, HereStays DEF ComesAlone, Arrives, Reach
  <2>2. CASE pc' = "overflow"
    BY <1>1, <1>11, <2>1, <2>2 DEF ComesAlone, Ends, Placed, InGroup
  <2>3. CASE pc' \in {"head", "done"}
    BY <1>2, <1>11, <2>1, <2>3, PlacedAtEnd DEF ComesAlone, Ends
  <2> QED BY <1>11, <2>2, <2>3 DEF ComesAlone, Ends
<1>12. CASE ComesAsAlbum
  <2>1. pos # 0 /\ Private /\ PhotoAlbum(Here)
    BY <1>12 DEF ComesAsAlbum, Placed
  <2>2. CASE pc' = "albumText"
    <3>1. pos' = pos /\ again' = again
      BY <1>12, <2>2 DEF ComesAsAlbum, Ends
    <3>2. Here' = Here /\ (PhotoAlbum(Here)' <=> PhotoAlbum(Here))
      BY <3>1, HereStays
    <3> QED BY <1>1, <1>12, <2>1, <2>2, <3>1, <3>2 DEF ComesAsAlbum, Placed, InGroup
  <2>3. CASE pc' \in {"head", "done"}
    BY <1>12, <2>1, <2>3, JumpFacts, PlacedAtEnd DEF ComesAsAlbum, Ends, Jumps
  <2> QED BY <1>12, <2>2, <2>3 DEF ComesAsAlbum, Ends
<1>13. CASE ComesAsGroup
  <2>1. /\ Here' = Here /\ (PhotoAlbum(Here)' <=> PhotoAlbum(Here)) /\ pos' = pos
        /\ Members(Here)' = Members(Here)
    BY <1>13, HereStays DEF ComesAsGroup
  <2>2. CASE pc' = "each"
    <3>1. again' = again /\ todo' = todo /\ seen' = seen
      BY <1>13, <2>2 DEF ComesAsGroup, Ends
    <3> QED BY <1>1, <1>13, <2>1, <2>2, <3>1 DEF ComesAsGroup, Placed, InGroup
  <2>3. CASE pc' \in {"head", "done"}
    BY <1>2, <1>13, <2>1, <2>3, PlacedAtEnd DEF ComesAsGroup, Ends
  <2> QED BY <1>13, <2>2, <2>3 DEF ComesAsGroup, Ends
<1>14. CASE ComesByItself
  <2>1. /\ Here' = Here /\ (PhotoAlbum(Here)' <=> PhotoAlbum(Here)) /\ pos' = pos
        /\ Members(Here)' = Members(Here)
    BY <1>14, HereStays DEF ComesByItself
  <2>2. todo' \subseteq todo /\ again' = again /\ seen' = seen
    BY <1>14 DEF ComesByItself
  <2> QED BY <1>1, <1>14, <2>1, <2>2 DEF ComesByItself, Placed, InGroup
<1>15. CASE Stops
  <2>1. /\ Here' = Here /\ (PhotoAlbum(Here)' <=> PhotoAlbum(Here)) /\ pos' = pos
        /\ Members(Here)' = Members(Here) /\ todo' = todo
    BY <1>15, HereStays DEF Stops
  <2>2. HasTwo(todo)' <=> HasTwo(todo)
    BY <2>1 DEF HasTwo
  <2> QED BY <1>1, <1>15, <2>1, <2>2 DEF Stops, Placed
<1> QED BY <1>3, <1>4, <1>5, <1>6, <1>7, <1>8, <1>9, <1>10, <1>11, <1>12, <1>13, <1>14, <1>15 DEF Kinds


-----------------------------------------------------------------------------
(* After /stop                                                             *)

\* The posts of an album of photos may come late together.
LEMMA LateTogether ==
    ASSUME WalkTypes, link' = link, PhotoAlbum(Here), late' \subseteq Members(Here), pos # 0
    PROVE  OneAlbumAfterStop'
<1>1. Here \in Albums /\ Here # NoAlbum
  BY LinkFacts DEF WalkTypes
<1>2. \A p \in late' : AlbumOf(p) = Here
  BY <1>1, LinkFacts DEF WalkTypes
<1>3. \A p, q \in late' : SameAlbum(p, q) /\ PhotoAlbum(AlbumOf(p))
  BY <1>1, <1>2 DEF SameAlbum
<1>4. \A p, q \in late' : SameAlbum(p, q)' /\ PhotoAlbum(AlbumOf(p))'
  BY <1>3, LinkStays
<1> QED BY <1>4 DEF OneAlbumAfterStop

\* One post at most.
LEMMA LateAlone ==
    ASSUME \A p, q \in late' : p = q
    PROVE  OneAlbumAfterStop'
BY DEF OneAlbumAfterStop

LEMMA LateStays ==
    ASSUME OneAlbumAfterStop, link' = link, late' = late
    PROVE  OneAlbumAfterStop'
BY LinkStays DEF OneAlbumAfterStop

LEMMA LateKept ==
    ASSUME WalkTypes, Placed, LateFits, Kinds, link' = link
    PROVE  LateFits'
<1> USE DEF countVars, historyVars
<1>1. CASE ~flag
  <2>1. late = {}
    BY <1>1 DEF LateFits
  <2>2. late' = {}
    BY <1>1, <2>1 DEF Kinds, Leaves, Takes, Walks, Groups, Retries, Tells, Skipped, Passes, ComesAlone, ComesAsAlbum,
       ComesAsGroup, ComesByItself, Stops, Come, Arrives, Reach
  <2> QED BY <2>2, LateAlone DEF LateFits
<1>2. ASSUME flag, late' = late, pc' \in {"head", "done", "wait", "overflow", "albumText"}
      PROVE  LateFits'
  <2>1. flag' = TRUE \/ flag' = flag
    BY DEF Kinds, Leaves, Takes, Walks, Groups, Retries, Tells, Skipped, Passes, ComesAlone, ComesAsAlbum,
       ComesAsGroup, ComesByItself, Stops
  <2> QED BY <1>2, <2>1, LateStays DEF LateFits, Before
<1>3. ASSUME flag, late = {}, late' = {}
      PROVE  LateFits'
  BY <1>3, LateAlone DEF LateFits
<1>4. CASE flag /\ Leaves
  BY <1>2, <1>4 DEF Leaves
<1>5. CASE flag /\ Takes
  BY <1>5 DEF Takes
<1>6. CASE flag /\ Walks
  <2>1. late' = late
    BY <1>6 DEF Walks
  <2>2. CASE pc \in Before
    BY <1>3, <1>6, <2>1, <2>2 DEF LateFits
  <2>3. CASE pc \notin Before
    BY <1>2, <1>6, <2>1, <2>3 DEF Walks, Before
  <2> QED BY <2>2, <2>3
<1>7. CASE flag /\ (Groups \/ Retries)
  <2>1. late' = late /\ late = {}
    BY <1>7 DEF Groups, Retries, LateFits, Before
  <2> QED BY <1>3, <1>7, <2>1
<1>8. CASE flag /\ (Tells \/ Skipped \/ Passes)
  BY <1>2, <1>8 DEF Tells, Skipped, Passes, Ends
<1>9. CASE flag /\ ComesAlone
  <2>1. late = {} /\ Reach({At}) /\ pc' \in {"head", "done", "overflow"} /\ flag' = flag
    BY <1>9 DEF ComesAlone, Arrives, LateFits, Before, Ends
  <2>2. \A p, q \in late' : p = q
    BY <2>1 DEF Reach
  <2> QED BY <1>9, <2>1, <2>2, LateAlone DEF LateFits, Before
<1>10. CASE flag /\ ComesAsAlbum
  <2>1. /\ late = {} /\ Reach(todo) /\ pc' \in {"head", "done", "albumText"} /\ flag' = flag
        /\ PhotoAlbum(Here) /\ todo \subseteq Members(Here) /\ pos # 0
    BY <1>10 DEF ComesAsAlbum, Arrives, LateFits, Before, Ends, Placed
  <2>2. late' \subseteq Members(Here)
    BY <2>1 DEF Reach
  <2> QED BY <1>10, <2>1, <2>2, LateTogether DEF LateFits, Before
<1>11. CASE flag /\ ComesAsGroup
  <2>1. /\ late = {} /\ (Reach(todo) \/ late' = late) /\ pc' \in {"head", "done", "each"} /\ flag' = flag
        /\ PhotoAlbum(Here) /\ todo \subseteq Members(Here) /\ pos # 0 /\ pos' = pos
    BY <1>11 DEF ComesAsGroup, Arrives, LateFits, Before, Ends, Placed
  <2>2. late' \subseteq Members(Here) /\ Members(Here)' = Members(Here)
    BY <2>1, HereStays DEF Reach
  <2> QED BY <1>11, <2>1, <2>2, LateTogether DEF LateFits, Before
<1>12. CASE flag /\ ComesByItself
  <2>1. todo # {} /\ todo \subseteq Members(Here) /\ pos # 0 /\ pos' = pos /\ flag' = flag
    BY <1>12 DEF ComesByItself, Placed
  <2>2. Least(todo) \in Members(Here) /\ Members(Here)' = Members(Here)
    BY <2>1, LeastIsIn, HereStays DEF WalkTypes
  <2>3. late' \subseteq late \cup {Least(todo)}
    BY <1>12 DEF ComesByItself, Come, Arrives, Reach
  <2>4. CASE pc = "each"
    <3>1. PhotoAlbum(Here) /\ late \subseteq Members(Here) /\ pc' = "each"
      BY <1>12, <2>4 DEF ComesByItself, Placed, LateFits
    <3>2. late' \subseteq Members(Here)
      BY <2>2, <2>3, <3>1
    <3> QED BY <1>12, <2>1, <2>2, <3>1, <3>2, LateTogether DEF LateFits, Before
  <2>5. CASE pc = "sendMember"
    <3>1. late = {} /\ pc' = "member"
      BY <1>12, <2>5 DEF ComesByItself, LateFits
    <3>2. \A p, q \in late' : p = q
      BY <2>3, <3>1
    <3> QED BY <1>12, <2>1, <3>1, <3>2, LateAlone DEF LateFits, Before
  <2> QED BY <1>12, <2>4, <2>5 DEF ComesByItself
<1>13. CASE flag /\ Stops
  <2>1. Members(Here)' = Members(Here) /\ late' = late /\ pc' = pc /\ flag' = flag
    BY <1>13, HereStays DEF Stops, WalkTypes
  <2> QED BY <2>1, LateStays DEF LateFits
<1> QED BY <1>1, <1>4, <1>5, <1>6, <1>7, <1>8, <1>9, <1>10, <1>11, <1>12, <1>13 DEF Kinds


-----------------------------------------------------------------------------
(* What is to come                                                         *)

\* Nothing is taken back.
LEMMA Growth ==
    ASSUME WalkTypes, Placed, Kinds, link' = link
    PROVE  /\ \A p \in Posts : got[p] <= got'[p]
           /\ lost \subseteq lost' /\ seen \subseteq seen' /\ blurred \subseteq blurred'
           /\ processed \subseteq processed' /\ failed \subseteq failed' /\ skipped \subseteq skipped'
           /\ CountedPosts \subseteq CountedPosts'
<1> USE DEF countVars, historyVars
<1>1. \A p \in Posts : got[p] <= got[p] /\ got[p] <= got[p] + 1
  BY DEF WalkTypes
<1>2. \A S : Reach(S) => (\A p \in Posts : got[p] <= got'[p]) /\ blurred' = blurred
  BY <1>1 DEF Reach, WalkTypes
<1>3. \A kind : Ends(kind) => processed \subseteq processed' /\ failed \subseteq failed' /\ skipped \subseteq skipped'
  BY DEF Ends, CountsAs
<1>4. /\ \A p \in Posts : got[p] <= got'[p]
      /\ lost \subseteq lost' /\ seen \subseteq seen' /\ blurred \subseteq blurred'
      /\ processed \subseteq processed' /\ failed \subseteq failed' /\ skipped \subseteq skipped'
  <2> USE <1>1, <1>2, <1>3
  <2>1. CASE Leaves \/ Takes \/ Retries \/ Passes \/ Stops
    BY <2>1 DEF Leaves, Takes, Retries, Passes, Stops
  <2>2. CASE Walks \/ Groups
    BY <2>2 DEF Walks, Groups
  <2>3. CASE Tells \/ Skipped
    BY <2>3 DEF Tells, Skipped
  <2>4. CASE ComesAlone \/ ComesAsAlbum
    BY <2>4 DEF ComesAlone, ComesAsAlbum, Arrives
  <2>5. CASE ComesAsGroup \/ ComesByItself
    BY <2>5 DEF ComesAsGroup, ComesByItself, Come, Arrives
  <2> QED BY <2>1, <2>2, <2>3, <2>4, <2>5 DEF Kinds
<1> QED BY <1>4 DEF CountedPosts

\* What comes after a later place comes after an earlier one.
LEMMA Later ==
    ASSUME NEW n \in Nat, NEW a \in Nat, NEW b \in Nat, a <= b
    PROVE  \A i \in b + 1..n : i \in a + 1..n /\ i \in 1..n /\ a < i
OBVIOUS

\* As the walk goes on, less is to come.
LEMMA GoingOn ==
    ASSUME WalkTypes, link' = link, pos' \in pos..Len(Order),
           pc = "albumText" => pc' = "albumText" /\ pos' = pos,
           again' \/ pc' \in Before => pos' = pos /\ (again \/ pc \in Before)
    PROVE  \A p : ToCome(p)' => ToCome(p)
<1> SUFFICES ASSUME NEW p, ToCome(p)' PROVE ToCome(p)
  OBVIOUS
<1>1. pos \in Nat /\ pos' \in Nat /\ pos <= pos' /\ Len(Order) \in Nat /\ Order' = Order
  BY LinkFacts, LinkStays DEF WalkTypes
<1>2. CASE Ahead(p)'
  <2>1. PICK i \in pos' + 1..Len(Order) : Order[i] = p
    BY <1>1, <1>2 DEF Ahead
  <2>2. i \in pos + 1..Len(Order)
    BY <1>1, <2>1, Later
  <2>3. ~(pc = "albumText" /\ AlbumOf(p) = Here)
    BY <1>2, HereStays, LinkStays DEF Ahead
  <2> QED BY <2>1, <2>2, <2>3 DEF ToCome, Ahead
<1>3. CASE (again' \/ pc' \in Before) /\ p = At'
  BY <1>3, HereStays DEF ToCome
<1> QED BY <1>2, <1>3 DEF ToCome

LEMMA TakingNext ==
    ASSUME WalkTypes, link' = link, Takes
    PROVE  \A p : ToCome(p)' => ToCome(p)
<1> SUFFICES ASSUME NEW p, ToCome(p)' PROVE ToCome(p)
  OBVIOUS
<1>1. pos \in Nat /\ Len(Order) \in Nat /\ Order' = Order
  BY LinkFacts, LinkStays DEF WalkTypes
<1>2. CASE again
  BY <1>2, GoingOn, <1>1 DEF Takes, WalkTypes
<1>3. CASE ~again
  <2>1. pos' = pos + 1 /\ pos < Len(Order) /\ again' = FALSE /\ pc = "head"
    BY <1>3 DEF Takes
  <2>2. CASE p = At'
    <3>1. pos + 1 \in pos + 1..Len(Order) /\ Order[pos + 1] = p
      BY <1>1, <2>1, <2>2 DEF At
    <3> QED BY <2>1, <3>1 DEF ToCome, Ahead
  <2>3. CASE Ahead(p)'
    <3>1. PICK i \in (pos + 1) + 1..Len(Order) : Order[i] = p
      BY <1>1, <2>1, <2>3 DEF Ahead
    <3>2. i \in pos + 1..Len(Order)
      BY <1>1, <3>1
    <3> QED BY <2>1, <3>1, <3>2 DEF ToCome, Ahead
  <2> QED BY <2>2, <2>3 DEF ToCome
<1> QED BY <1>2, <1>3

\* The post at hand, once the walk is through with it, and the members of its album, once
\* they are jumped or have all come, are not to come.
LEMMA PostPassed ==
    ASSUME WalkTypes, pos # 0, link' = link, pos' \in pos..Len(Order), ~again', pc' \notin Before
    PROVE  \A p : ToCome(p)' => p # At
<1> SUFFICES ASSUME NEW p, ToCome(p)' PROVE p # At
  OBVIOUS
<1>1. Order' = Order /\ pos \in 1..Len(Order) /\ Len(Order) \in Nat
  BY AtHand, LinkFacts, LinkStays DEF WalkTypes
<1>2. PICK i \in pos' + 1..Len(Order) : Order[i] = p
  BY <1>1 DEF ToCome, Ahead
<1>3. i \in 1..Len(Order) /\ pos < i
  <2>1. pos \in Nat /\ pos' \in Nat /\ pos <= pos'
    BY <1>1
  <2> QED BY <1>1, <1>2, <2>1, Later
<1> QED BY <1>1, <1>2, <1>3, LinkFacts DEF WalkTypes, At

LEMMA AlbumPassed ==
    ASSUME WalkTypes, pos # 0, Private, PhotoAlbum(Here), link' = link, ~again', pc' \notin Before,
           Jumps \/ (pos' = pos /\ pc' = "albumText")
    PROVE  \A p \in Posts : ToCome(p)' => AlbumOf(p) # Here
<1> SUFFICES ASSUME NEW p \in Posts, ToCome(p)' PROVE AlbumOf(p) # Here
  OBVIOUS
<1>1. Order' = Order /\ AlbumOf(p)' = AlbumOf(p) /\ Len(Order) \in Nat
  BY LinkStays, LinkFacts DEF WalkTypes
<1>2. Ahead(p)'
  BY DEF ToCome
<1>3. CASE Jumps
  <2>1. PICK k \in SkipTo(Beyond(Here)) + 1..Len(Order) : Order[k] = p
    BY <1>1, <1>2, <1>3 DEF Ahead, Jumps
  <2>2. p >= Beyond(Here) /\ Beyond(Here) \in Nat /\ p \in Nat
    BY <2>1, JumpFacts, LinkFacts DEF WalkTypes
  <2>3. p \notin Members(Here)
    BY <2>2, JumpFacts
  <2>4. Here \in Albums
    BY LinkFacts DEF WalkTypes
  <2> QED BY <2>3, <2>4, LinkFacts DEF WalkTypes
<1>4. CASE pos' = pos /\ pc' = "albumText"
  BY <1>1, <1>2, <1>4, HereStays DEF Ahead
<1> QED BY <1>3, <1>4

LEMMA ComingFewer ==
    ASSUME WalkTypes, Placed, Kinds, link' = link
    PROVE  \A p \in Posts : ToCome(p)' => ToCome(p)
<1>1. pos \in pos..Len(Order) /\ pos \in Nat /\ Len(Order) \in Nat
  BY LinkFacts DEF WalkTypes
<1>2. pc \notin {"wait", "head", "done"} => ~again
  BY DEF Placed
<1>3. CASE Leaves
  BY <1>1, <1>3, GoingOn DEF Leaves, Before
<1>4. CASE Takes
  BY <1>4, TakingNext
<1>5. CASE Walks
  <2>1. pc' \in Before => pc \in Before
    BY <1>5 DEF Walks, Before
  <2>2. pc = "albumText" => pc' = "albumText"
    BY <1>5 DEF Walks
  <2> QED BY <1>1, <1>5, <2>1, <2>2, GoingOn DEF Walks
<1>6. CASE Groups
  BY <1>1, <1>6, GoingOn DEF Groups, Before
<1>7. CASE Retries
  BY <1>1, <1>7, GoingOn DEF Retries, Before
<1>8. CASE Tells
  BY <1>1, <1>8, GoingOn DEF Tells, Ends, Before
<1>9. CASE Skipped
  <2>1. pos # 0 /\ Private /\ PhotoAlbum(Here) /\ Jumps
    BY <1>9 DEF Skipped, Placed
  <2>2. pos' \in pos..Len(Order)
    BY <2>1, JumpFacts DEF Jumps
  <2>3. ~again' /\ pc' \notin Before
    BY <1>2, <1>9 DEF Skipped, Ends, Before
  <2>4. CASE pc # "albumText"
    BY <2>2, <2>3, <2>4, GoingOn
  <2>5. CASE pc = "albumText"
    <3> SUFFICES ASSUME NEW p \in Posts, ToCome(p)' PROVE ToCome(p)
      OBVIOUS
    <3>1. AlbumOf(p) # Here
      BY <2>1, <2>3, AlbumPassed
    <3>2. PICK i \in pos' + 1..Len(Order) : Order[i] = p
      BY <2>3, LinkStays DEF ToCome, Ahead
    <3>3. i \in pos + 1..Len(Order)
      <4>1. pos \in Nat /\ pos' \in Nat /\ pos <= pos'
        BY <1>1, <2>2
      <4> QED BY <1>1, <3>2, <4>1, Later
    <3> QED BY <3>1, <3>2, <3>3 DEF ToCome, Ahead
  <2> QED BY <2>4, <2>5
<1>10. CASE Passes
  BY <1>1, <1>10, GoingOn DEF Passes, Before
<1>11. CASE ComesAlone
  BY <1>1, <1>11, GoingOn DEF ComesAlone, Ends, Before
<1>12. CASE ComesAsAlbum
  <2>1. pos # 0 /\ Private /\ PhotoAlbum(Here) /\ (Jumps \/ pos' = pos)
    BY <1>12 DEF ComesAsAlbum, Placed
  <2>2. pos' \in pos..Len(Order)
    BY <1>1, <2>1, JumpFacts DEF Jumps
  <2>3. ~again' /\ pc' \notin Before /\ pc = "out"
    BY <1>2, <1>12 DEF ComesAsAlbum, Ends, Before
  <2> QED BY <2>2, <2>3, GoingOn
<1>13. CASE ComesAsGroup
  BY <1>1, <1>13, GoingOn DEF ComesAsGroup, Ends, Before
<1>14. CASE ComesByItself
  BY <1>1, <1>14, GoingOn DEF ComesByItself, Before
<1>15. CASE Stops
  BY <1>1, <1>15, GoingOn DEF Stops
<1> QED BY <1>3, <1>4, <1>5, <1>6, <1>7, <1>8, <1>9, <1>10, <1>11, <1>12, <1>13, <1>14, <1>15 DEF Kinds


-----------------------------------------------------------------------------
(* No post twice                                                           *)

\* A step that brings nothing.
Quiet == UNCHANGED <<got, lost>>

LEMMA QuietKinds ==
    ASSUME Kinds, ~ComesAlone, ~ComesAsAlbum, ~ComesAsGroup, ~ComesByItself
    PROVE  Quiet
BY DEF Kinds, Leaves, Takes, Walks, Groups, Retries, Tells, Skipped, Passes, Stops, Quiet, historyVars

\* Who counts as failed: the post at hand, when the walk is through with it.
LEMMA WhoFails ==
    ASSUME WalkTypes, Placed, Kinds, link' = link
    PROVE  \/ failed' = failed
           \/ failed' = failed \cup {At} /\ \A p \in Posts : ToCome(p)' => p # At
<1> SUFFICES ASSUME failed' # failed
             PROVE  failed' = failed \cup {At} /\ \A p \in Posts : ToCome(p)' => p # At
  OBVIOUS
<1>1. \/ Tells /\ Ends("failed")
      \/ Skipped /\ Ends("failed")
      \/ ComesAlone /\ Ends("failed")
      \/ ComesAsAlbum /\ Ends("failed") /\ Jumps
  BY DEF Kinds, Leaves, Takes, Walks, Groups, Retries, Tells, Skipped, Passes, ComesAlone, ComesAsAlbum, ComesAsGroup,
         ComesByItself, Stops, Ends, CountsAs, countVars
<1>2. failed' = failed \cup {At} /\ pc' \in {"head", "done"} /\ again' = again
  BY <1>1 DEF Ends, CountsAs
<1>3. pos # 0 /\ ~again
  BY <1>1 DEF Tells, Skipped, ComesAlone, ComesAsAlbum, Placed
<1>4. pos' = pos \/ (Private /\ PhotoAlbum(Here) /\ Jumps)
  BY <1>1 DEF Tells, Skipped, ComesAlone, ComesAsAlbum, Placed
<1>5. pos' \in pos..Len(Order)
  BY <1>3, <1>4, AtHand, JumpFacts, LinkFacts DEF Jumps, WalkTypes
<1> QED BY <1>2, <1>3, <1>5, PostPassed DEF Before

\* Posts that come while the walk passes them.
LEMMA PrivateArrival ==
    ASSUME WalkTypes, PrivateFits, Kinds, Placed, link' = link, Private, NEW S \in SUBSET Posts, Reach(S),
           \A p \in Posts : ToCome(p)' => p \notin S,
           \A p \in S : PhotoAlbum(AlbumOf(p)) /\ Open(AlbumOf(p))' => AlbumOf(p) \in blurred /\ got[p] = 0
    PROVE  PrivateFits'
<1>1. \A p \in Posts : ToCome(p)' => ToCome(p)
  BY ComingFewer
<1>2. /\ \A p : AlbumOf(p)' = AlbumOf(p)
      /\ \A a : PhotoAlbum(a)' <=> PhotoAlbum(a)
      /\ Private' <=> Private
  BY LinkStays
<1>3. \A a : Open(a)' => Open(a)
  BY <1>1, <1>2 DEF Open
<1>4. \A p \in Posts : got'[p] = IF p \in S THEN got[p] + 1 ELSE got[p]
  BY DEF Reach
<1>5. blurred' = blurred
  BY DEF Reach
<1>6. ASSUME NEW p \in Posts, ToCome(p)'
      PROVE  got'[p] = 0 /\ p \notin failed'
  <2>1. got[p] = 0 /\ p \notin failed /\ p \notin S
    BY <1>1, <1>6 DEF PrivateFits
  <2> QED BY <1>4, <1>6, <2>1, WhoFails
<1>7. ASSUME NEW p \in Posts, PhotoAlbum(AlbumOf(p)), Open(AlbumOf(p))'
      PROVE  got'[p] <= IF AlbumOf(p) \in blurred THEN 1 ELSE 0
  <2>0. Open(AlbumOf(p))
    BY <1>2, <1>3, <1>7
  <2>1. got[p] <= IF AlbumOf(p) \in blurred THEN 1 ELSE 0
    BY <1>7, <2>0 DEF PrivateFits
  <2>2. CASE p \in S
    <3>1. AlbumOf(p) \in blurred /\ got[p] = 0
      BY <1>7, <2>2
    <3> QED BY <1>4, <3>1
  <2> QED BY <1>4, <2>1, <2>2
<1>8. \A p \in Posts : PhotoAlbum(AlbumOf(p))' /\ Open(AlbumOf(p))' =>
         got'[p] <= IF AlbumOf(p)' \in blurred' THEN 1 ELSE 0
  BY <1>2, <1>5, <1>7
<1> QED BY <1>6, <1>8 DEF PrivateFits

LEMMA PrivateQuiet ==
    ASSUME WalkTypes, Placed, PrivateFits, Kinds, link' = link, Private, Quiet
    PROVE  PrivateFits'
<1>1. \A p \in Posts : ToCome(p)' => ToCome(p)
  BY ComingFewer
<1>2. /\ \A p : AlbumOf(p)' = AlbumOf(p)
      /\ \A a : PhotoAlbum(a)' <=> PhotoAlbum(a)
      /\ Private' <=> Private
  BY LinkStays
<1>3. \A a : Open(a)' => Open(a)
  BY <1>1, <1>2 DEF Open
<1>4. got' = got /\ blurred \subseteq blurred'
  BY Growth DEF Quiet
<1>5. ASSUME NEW p \in Posts, ToCome(p)'
      PROVE  got'[p] = 0 /\ p \notin failed'
  <2>1. got[p] = 0 /\ p \notin failed
    BY <1>1, <1>5 DEF PrivateFits
  <2> QED BY <1>4, <1>5, <2>1, WhoFails
<1>6. ASSUME NEW p \in Posts, PhotoAlbum(AlbumOf(p)), Open(AlbumOf(p))'
      PROVE  got'[p] <= IF AlbumOf(p) \in blurred' THEN 1 ELSE 0
  <2>0. Open(AlbumOf(p))
    BY <1>2, <1>3, <1>6
  <2>1. got[p] <= IF AlbumOf(p) \in blurred THEN 1 ELSE 0
    BY <1>6, <2>0 DEF PrivateFits
  <2>2. got[p] \in Nat
    BY DEF WalkTypes
  <2> QED BY <1>4, <2>1, <2>2
<1>7. \A p \in Posts : PhotoAlbum(AlbumOf(p))' /\ Open(AlbumOf(p))' =>
         got'[p] <= IF AlbumOf(p)' \in blurred' THEN 1 ELSE 0
  BY <1>2, <1>6
<1> QED BY <1>5, <1>7 DEF PrivateFits

\* The post at hand that comes alone.
LEMMA AloneComes ==
    ASSUME WalkTypes, Placed, Kinds, link' = link, ComesAlone
    PROVE  /\ pos # 0 /\ At \in Posts /\ ToCome(At) /\ Reach({At})
           /\ \A p \in Posts : ToCome(p)' => p # At
<1>1. pos # 0 /\ ~again /\ pc \in Before
  BY DEF ComesAlone, Placed, Before
<1>2. At \in Posts
  BY <1>1, AtHand
<1>3. ToCome(At)
  BY <1>1 DEF ToCome
<1>4. Reach({At})
  BY DEF ComesAlone, Arrives
<1>5. pos' = pos /\ ~again' /\ pc' \notin Before /\ pos \in pos..Len(Order)
  BY <1>1, LinkFacts DEF ComesAlone, Ends, Before, WalkTypes
<1>6. \A p \in Posts : ToCome(p)' => p # At
  BY <1>1, <1>5, PostPassed
<1> QED BY <1>1, <1>2, <1>3, <1>4, <1>6

\* The album that comes as one.
LEMMA AlbumComes ==
    ASSUME WalkTypes, Placed, Kinds, link' = link, ComesAsAlbum
    PROVE  /\ pos # 0 /\ Private /\ PhotoAlbum(Here) /\ Here \in Albums /\ Open(Here) /\ Reach(todo)
           /\ \A p \in todo : p \in Posts /\ AlbumOf(p) = Here
           /\ \A p \in Posts : ToCome(p)' => AlbumOf(p) # Here
<1>1. pos # 0 /\ ~again /\ pc = "out" /\ Private /\ PhotoAlbum(Here) /\ todo \subseteq Members(Here)
  BY DEF ComesAsAlbum, Placed
<1>2. At \in Posts /\ Here \in Albums
  BY <1>1, AtHand, LinkFacts DEF WalkTypes
<1>3. Open(Here)
  BY <1>1, <1>2 DEF Open, ToCome, Before, Here
<1>4. \A p \in todo : p \in Posts /\ AlbumOf(p) = Here
  BY <1>1, <1>2, LinkFacts DEF WalkTypes
<1>5. Reach(todo)
  BY DEF ComesAsAlbum, Arrives
<1>6. ~again' /\ pc' \notin Before /\ (Jumps \/ (pos' = pos /\ pc' = "albumText"))
  BY <1>1 DEF ComesAsAlbum, Ends, Before
<1>7. \A p \in Posts : ToCome(p)' => AlbumOf(p) # Here
  BY <1>1, <1>6, AlbumPassed
<1> QED BY <1>1, <1>2, <1>3, <1>4, <1>5, <1>7

LEMMA PrivateKept ==
    ASSUME WalkTypes, Placed, PrivateFits, Kinds, link' = link
    PROVE  PrivateFits'
<1>1. CASE ~Private
  BY <1>1, LinkStays DEF PrivateFits
<1>2. CASE Private /\ ComesAlone
  <2>1. /\ pos # 0 /\ At \in Posts /\ ToCome(At) /\ Reach({At})
        /\ \A p \in Posts : ToCome(p)' => p # At
    BY <1>2, AloneComes
  <2>2. PhotoAlbum(Here) => Here \in blurred
    BY <1>2 DEF ComesAlone, Placed
  <2>3. got[At] = 0
    BY <1>2, <2>1 DEF PrivateFits
  <2>4. \A p \in {At} : PhotoAlbum(AlbumOf(p)) /\ Open(AlbumOf(p))' => AlbumOf(p) \in blurred /\ got[p] = 0
    BY <2>2, <2>3 DEF Here
  <2> QED BY <1>2, <2>1, <2>4, PrivateArrival
<1>3. CASE Private /\ ComesAsAlbum
  <2>1. /\ Reach(todo) /\ todo \subseteq Posts
        /\ \A p \in todo : p \in Posts /\ AlbumOf(p) = Here
        /\ \A p \in Posts : ToCome(p)' => AlbumOf(p) # Here
    BY <1>3, AlbumComes
  <2>2. \A p \in Posts : ToCome(p)' => p \notin todo
    BY <2>1
  <2>3. \A p \in todo : ~Open(AlbumOf(p))'
    BY <2>1, LinkStays DEF Open
  <2> QED BY <1>3, <2>1, <2>2, <2>3, PrivateArrival
<1>4. CASE Private /\ ~ComesAlone /\ ~ComesAsAlbum
  <2>1. ~ComesAsGroup /\ ~ComesByItself
    BY <1>4 DEF ComesAsGroup, ComesByItself, Placed
  <2> QED BY <1>4, <2>1, QuietKinds, PrivateQuiet
<1> QED BY <1>1, <1>2, <1>3, <1>4


LEMMA OthersQuiet ==
    ASSUME WalkTypes, Placed, OthersFit, Kinds, link' = link, ~Private, Quiet
    PROVE  OthersFit'
<1>1. \A p \in Posts : ToCome(p)' => ToCome(p)
  BY ComingFewer
<1>2. /\ \A p : AlbumOf(p)' = AlbumOf(p)
      /\ ~Private'
  BY LinkStays
<1>3. got' = got /\ lost' = lost /\ seen \subseteq seen'
  BY Growth DEF Quiet
<1>4. \A p \in Posts : ToCome(p)' /\ AlbumOf(p) = NoAlbum => got'[p] = 0
  BY <1>1, <1>3 DEF OthersFit
<1>5. \A p \in Posts : AlbumOf(p) \notin seen' \cup {NoAlbum} => got'[p] = 0
  BY <1>3 DEF OthersFit
<1>6. \/ pc' \in {"head", "detect", "fetch", "single", "text", "deliver", "overflow", "albumText", "wait", "done"}
      \/ /\ pos' = pos /\ pos # 0 /\ todo' = todo /\ pc' = pc
      \/ /\ pos' = pos /\ pos # 0 /\ pc = "fetch" /\ pc' = "group" /\ Here \notin seen \cup {NoAlbum}
      \/ /\ pos' = pos /\ pos # 0 /\ pc = "group" /\ pc' \in {"alone", "load"}
      \/ /\ pos' = pos /\ pos # 0 /\ pc = "group" /\ pc' = "member" /\ todo' = Members(Here) /\ Here # NoAlbum
      \/ /\ pos' = pos /\ pos # 0 /\ pc = "load" /\ pc' \in {"send", "each"} /\ todo' \subseteq Members(Here)
         /\ PhotoAlbum(Here)
      \/ /\ pos' = pos /\ pos # 0 /\ pc = "send" /\ pc' = "each" /\ todo' = todo /\ todo \subseteq Members(Here)
         /\ PhotoAlbum(Here)
      \/ /\ pos' = pos /\ pos # 0 /\ pc = "member" /\ pc' = "sendMember" /\ todo' = todo
      \/ /\ pos' = pos /\ pos # 0 /\ <<pc, pc'>> \in {<<"sendMember", "member">>, <<"each", "each">>}
         /\ todo' \subseteq todo
  <2> USE DEF Placed
  <2>1. CASE Leaves \/ Retries \/ Passes \/ Tells
    BY <2>1 DEF Leaves, Retries, Passes, Tells, Ends
  <2>2. CASE Skipped \/ ComesAsAlbum
    BY <2>2 DEF Skipped, ComesAsAlbum
  <2>3. CASE Takes
    BY <2>3 DEF Takes
  <2>4. CASE Walks
    BY <2>4 DEF Walks
  <2>5. CASE Groups
    BY <2>5 DEF Groups
  <2>6. CASE Stops
    BY <2>6 DEF Stops, WalkTypes, Before
  <2>7. CASE ComesAlone \/ ComesAsGroup
    BY <2>7 DEF ComesAlone, ComesAsGroup, Ends
  <2>8. CASE ComesByItself
    BY <2>8 DEF ComesByItself
  <2> QED BY <2>1, <2>2, <2>3, <2>4, <2>5, <2>6, <2>7, <2>8 DEF Kinds
<1>7. pos' = pos => Here' = Here
  BY HereStays
<1>8. \A p \in Posts : p \in Members(Here) => AlbumOf(p) = Here \/ Here \notin Albums
  BY LinkFacts DEF WalkTypes
<1>9. (pos # 0 => Here \in Albums \cup {NoAlbum}) /\ (PhotoAlbum(Here) => Here \in Albums)
  BY AtHand, LinkFacts DEF WalkTypes
<1>10. todo \subseteq Posts /\ Members(Here) \subseteq Posts
  BY LinkFacts DEF WalkTypes
<1>11. ASSUME pc' \in {"group", "alone", "load", "send"}
       PROVE  \A p \in Posts : AlbumOf(p) = Here' => got'[p] = 0
  BY <1>3, <1>6, <1>7, <1>11 DEF OthersFit
<1>12. ASSUME pc' = "each"
       PROVE  \A p \in todo' : got'[p] <= IF p \in lost' THEN 1 ELSE 0
  <2>1. CASE pc = "each"
    BY <1>3, <1>6, <1>12, <2>1 DEF OthersFit
  <2>2. CASE pc \in {"load", "send"}
    <3>1. \A p \in todo' : p \in Posts /\ AlbumOf(p) = Here
      BY <1>6, <1>8, <1>9, <1>10, <1>12, <2>2
    <3>2. \A p \in todo' : got'[p] = 0
      BY <1>3, <2>2, <3>1 DEF OthersFit
    <3> QED BY <3>2
  <2> QED BY <1>6, <1>12, <2>1, <2>2
<1>13. ASSUME pc' \in {"member", "sendMember"}
       PROVE  \A p \in todo' : got'[p] = 0
  <2>1. CASE pc \in {"member", "sendMember"}
    BY <1>3, <1>6, <1>13, <2>1 DEF OthersFit
  <2>2. CASE pc = "group"
    <3>1. \A p \in todo' : p \in Posts /\ AlbumOf(p) = Here
      BY <1>6, <1>8, <1>9, <1>10, <1>13, <2>2
    <3> QED BY <1>3, <2>2, <3>1 DEF OthersFit
  <2> QED BY <1>6, <1>13, <2>1, <2>2
<1> QED BY <1>2, <1>4, <1>5, <1>11, <1>12, <1>13 DEF OthersFit

\* What comes in such a walk is the post at hand, not seen before, or of an album the walk
\* remembers.
LEMMA OthersArrival ==
    ASSUME WalkTypes, Placed, OthersFit, Kinds, link' = link, ~Private, NEW S \in SUBSET Posts, Reach(S),
           lost \subseteq lost',
           \A p \in S : AlbumOf(p) = NoAlbum => ~ToCome(p)',
           \A p \in S : AlbumOf(p) \in seen \cup {NoAlbum},
           pc' \notin {"group", "alone", "load", "send"},
           pc' = "each" => \A p \in todo' : got'[p] <= IF p \in lost' THEN 1 ELSE 0,
           pc' \in {"member", "sendMember"} => \A p \in todo' : got'[p] = 0
    PROVE  OthersFit'
<1>1. \A p \in Posts : ToCome(p)' => ToCome(p)
  BY ComingFewer
<1>2. (\A p : AlbumOf(p)' = AlbumOf(p)) /\ ~Private'
  BY LinkStays
<1>3. seen \subseteq seen'
  BY Growth
<1>4. \A p \in Posts : p \notin S => got'[p] = got[p]
  BY DEF Reach
<1>5. \A p \in Posts : ToCome(p)' /\ AlbumOf(p) = NoAlbum => got'[p] = 0
  BY <1>1, <1>4 DEF OthersFit
<1>6. \A p \in Posts : AlbumOf(p) \notin seen' \cup {NoAlbum} => got'[p] = 0
  BY <1>3, <1>4 DEF OthersFit
<1> QED BY <1>2, <1>5, <1>6 DEF OthersFit

\* The posts of a group, together or one of them.
LEMMA GroupComes ==
    ASSUME WalkTypes, Placed, Kinds, link' = link, ComesAsGroup \/ ComesByItself
    PROVE  /\ pos # 0 /\ ~Private /\ Here \in Albums /\ Here \in seen
           /\ \A p \in todo : p \in Posts /\ AlbumOf(p) = Here
           /\ ComesByItself => Least(todo) \in todo
<1>1. pos # 0 /\ ~Private /\ todo \subseteq Members(Here) /\ Here # NoAlbum /\ Here \in seen
  <2>1. PhotoAlbum(Here) => Here \in Albums
    BY LinkFacts DEF WalkTypes
  <2>2. NoAlbum \notin Albums
    BY LinkFacts DEF WalkTypes
  <2> QED BY <2>1, <2>2 DEF ComesAsGroup, ComesByItself, Placed, InGroup
<1>2. Here \in Albums
  BY <1>1, AtHand
<1>3. \A p \in todo : p \in Posts /\ AlbumOf(p) = Here
  BY <1>1, <1>2, LinkFacts DEF WalkTypes
<1>4. ComesByItself => todo # {}
  BY DEF ComesByItself, Placed
<1> QED BY <1>1, <1>2, <1>3, <1>4, LeastIsIn DEF WalkTypes

LEMMA OthersKept ==
    ASSUME WalkTypes, Placed, OthersFit, Kinds, link' = link
    PROVE  OthersFit'
<1>1. CASE Private
  BY <1>1, LinkStays DEF OthersFit
<1>2. CASE ~Private /\ ComesAlone
  <2>1. /\ pos # 0 /\ At \in Posts /\ Reach({At}) /\ \A p \in Posts : ToCome(p)' => p # At
    BY <1>2, AloneComes
  <2>2. AlbumOf(At) \in seen \cup {NoAlbum}
    BY <1>2 DEF ComesAlone, Placed, InGroup, Here
  <2>3. pc' \in {"head", "done", "overflow"}
    BY <1>2 DEF ComesAlone, Ends
  <2>4. lost \subseteq lost'
    BY Growth
  <2> QED BY <1>2, <2>1, <2>2, <2>3, <2>4, OthersArrival
<1>3. CASE ComesAsGroup /\ ~Quiet
  <2>1. /\ pos # 0 /\ ~Private /\ Here \in Albums /\ Here \in seen
        /\ \A p \in todo : p \in Posts /\ AlbumOf(p) = Here
    BY <1>3, GroupComes
  <2>2. Reach(todo) /\ pc = "send" /\ todo' = todo /\ pc' \in {"head", "done", "each"}
        /\ (pc' = "each" => todo \subseteq lost')
    BY <1>3 DEF ComesAsGroup, Arrives, Ends, Quiet, historyVars
  <2>3. lost \subseteq lost'
    BY Growth
  <2>4. \A p \in todo : got'[p] = 1
    BY <2>1, <2>2 DEF OthersFit, Reach
  <2>5. \A p \in todo : AlbumOf(p) # NoAlbum
    BY <2>1, LinkFacts DEF WalkTypes
  <2>6. todo \in SUBSET Posts
    BY <2>1
  <2>7. pc' = "each" => \A p \in todo' : got'[p] <= IF p \in lost' THEN 1 ELSE 0
    BY <2>2, <2>4
  <2>8. \A p \in todo : AlbumOf(p) \in seen \cup {NoAlbum}
    BY <2>1
  <2> HIDE DEF Quiet
  <2> QED BY <2>1, <2>2, <2>3, <2>5, <2>6, <2>7, <2>8, OthersArrival
<1>4. CASE ComesByItself /\ ~Quiet
  <2>1. /\ pos # 0 /\ ~Private /\ Here \in Albums /\ Here \in seen
        /\ \A p \in todo : p \in Posts /\ AlbumOf(p) = Here
        /\ Least(todo) \in todo
    BY <1>4, GroupComes
  <2> DEFINE x == Least(todo)
  <2>2. Reach({x}) /\ todo' = todo \ {x}
    BY <1>4 DEF ComesByItself, Come, Arrives, Quiet, historyVars
  <2>3. <<pc, pc'>> \in {<<"each", "each">>, <<"sendMember", "member">>}
    BY <1>4 DEF ComesByItself
  <2>4. lost \subseteq lost'
    BY Growth
  <2>5. x \in Posts /\ AlbumOf(x) = Here /\ AlbumOf(x) # NoAlbum
    BY <2>1, LinkFacts DEF WalkTypes
  <2>6. \A p \in todo' : p \in todo /\ got'[p] = got[p]
    BY <2>1, <2>2 DEF Reach
  <2> HIDE DEF x
  <2>7. pc' = "each" => \A p \in todo' : got'[p] <= IF p \in lost' THEN 1 ELSE 0
    <3> SUFFICES ASSUME pc' = "each", NEW p \in todo' PROVE got'[p] <= IF p \in lost' THEN 1 ELSE 0
      OBVIOUS
    <3>1. got'[p] <= IF p \in lost THEN 1 ELSE 0
      BY <2>1, <2>3, <2>6 DEF OthersFit
    <3>2. got'[p] \in Nat
      BY <2>1, <2>6 DEF WalkTypes
    <3> QED BY <2>4, <3>1, <3>2
  <2>8. pc' \in {"member", "sendMember"} => \A p \in todo' : got'[p] = 0
    BY <2>1, <2>3, <2>6 DEF OthersFit
  <2>9. {x} \in SUBSET Posts /\ \A p \in {x} : AlbumOf(p) \in seen \cup {NoAlbum} /\ AlbumOf(p) # NoAlbum
    BY <2>1, <2>5
  <2> QED BY <2>1, <2>2, <2>3, <2>4, <2>7, <2>8, <2>9, OthersArrival
<1>5. CASE ~Private /\ ~ComesAlone /\ (Quiet \/ (~ComesAsGroup /\ ~ComesByItself))
  <2>1. ~ComesAsAlbum
    BY <1>5 DEF ComesAsAlbum, Placed
  <2> QED BY <1>5, <2>1, QuietKinds, OthersQuiet
<1>6. (ComesAsGroup \/ ComesByItself) => ~Private
  BY GroupComes
<1> QED BY <1>1, <1>2, <1>3, <1>4, <1>5, <1>6

\* No post comes more often than AlbumsOnce allows.
LEMMA OnceKept ==
    ASSUME WalkTypes, Placed, PrivateFits, OthersFit, AlbumsOnce, Kinds, link' = link
    PROVE  AlbumsOnce'
<1>1. lost \subseteq lost' /\ blurred \subseteq blurred' /\ got \in [Posts -> Nat]
  BY Growth DEF WalkTypes
<1>2. \A p : AlbumOf(p)' = AlbumOf(p)
  BY LinkStays
<1>3. ASSUME NEW S \in SUBSET Posts, Reach(S),
             \A p \in S : got[p] <= IF p \in lost \/ AlbumOf(p) \in blurred THEN 1 ELSE 0
      PROVE  AlbumsOnce'
  <2> SUFFICES ASSUME NEW p \in Posts
               PROVE  got'[p] <= IF p \in lost' \/ AlbumOf(p) \in blurred' THEN 2 ELSE 1
    BY <1>2 DEF AlbumsOnce
  <2>1. got[p] \in Nat /\ got'[p] = IF p \in S THEN got[p] + 1 ELSE got[p]
    BY <1>1, <1>3 DEF Reach
  <2>2. CASE p \in S
    <3>1. got[p] <= IF p \in lost \/ AlbumOf(p) \in blurred THEN 1 ELSE 0
      BY <1>3, <2>2
    <3> QED BY <1>1, <2>1, <2>2, <3>1
  <2>3. CASE p \notin S
    <3>1. got[p] <= IF p \in lost \/ AlbumOf(p) \in blurred THEN 2 ELSE 1
      BY DEF AlbumsOnce
    <3> QED BY <1>1, <2>1, <2>3, <3>1
  <2> QED BY <2>2, <2>3
<1>4. CASE Quiet
  <2> SUFFICES ASSUME NEW p \in Posts
               PROVE  got'[p] <= IF p \in lost' \/ AlbumOf(p) \in blurred' THEN 2 ELSE 1
    BY <1>2 DEF AlbumsOnce
  <2>1. got[p] <= IF p \in lost \/ AlbumOf(p) \in blurred THEN 2 ELSE 1
    BY DEF AlbumsOnce
  <2>2. got[p] \in Nat /\ got'[p] = got[p]
    BY <1>1, <1>4 DEF Quiet
  <2> QED BY <1>1, <2>1, <2>2
<1>5. CASE ComesAlone
  <2>1. /\ pos # 0 /\ At \in Posts /\ ToCome(At) /\ Reach({At})
    BY <1>5, AloneComes
  <2>2. got[At] = 0
    <3>1. CASE Private
      BY <2>1, <3>1 DEF PrivateFits
    <3>2. CASE ~Private /\ pc = "alone"
      BY <2>1, <3>2 DEF OthersFit, Here
    <3>3. CASE ~Private /\ pc \in {"text", "deliver"}
      BY <2>1, <3>3 DEF OthersFit, Placed, Here
    <3> QED BY <1>5, <3>1, <3>2, <3>3 DEF ComesAlone
  <2> QED BY <1>3, <2>1, <2>2
<1>6. CASE ComesAsAlbum
  <2>1. /\ Private /\ PhotoAlbum(Here) /\ Open(Here) /\ Reach(todo)
        /\ \A p \in todo : p \in Posts /\ AlbumOf(p) = Here
    BY <1>6, AlbumComes
  <2>2. \A p \in todo : got[p] <= IF AlbumOf(p) \in blurred THEN 1 ELSE 0
    BY <2>1 DEF PrivateFits
  <2>3. \A p \in todo : got[p] <= IF p \in lost \/ AlbumOf(p) \in blurred THEN 1 ELSE 0
    BY <1>1, <2>1, <2>2
  <2> QED BY <1>3, <2>1, <2>3
<1>7. CASE ComesAsGroup /\ ~Quiet
  <2>1. ~Private /\ \A p \in todo : p \in Posts /\ AlbumOf(p) = Here
    BY <1>7, GroupComes
  <2>2. Reach(todo) /\ pc = "send"
    BY <1>7 DEF ComesAsGroup, Arrives, Quiet, historyVars
  <2>3. \A p \in todo : got[p] = 0
    BY <2>1, <2>2 DEF OthersFit
  <2> QED BY <1>3, <2>1, <2>2, <2>3
<1>8. CASE ComesByItself /\ ~Quiet
  <2>1. ~Private /\ Least(todo) \in todo /\ Least(todo) \in Posts
    BY <1>8, GroupComes
  <2>2. Reach({Least(todo)}) /\ pc \in {"each", "sendMember"}
    BY <1>8 DEF ComesByItself, Come, Arrives, Quiet, historyVars
  <2>3. got[Least(todo)] <= IF Least(todo) \in lost THEN 1 ELSE 0
    BY <2>1, <2>2 DEF OthersFit
  <2>4. got[Least(todo)] \in Nat
    BY <1>1, <2>1
  <2> QED BY <1>3, <2>1, <2>2, <2>3, <2>4
<1> QED BY <1>4, <1>5, <1>6, <1>7, <1>8, QuietKinds


-----------------------------------------------------------------------------
(* Every post is told                                                      *)

\* A post goes with itself, the members of an album of photos with each other, and those of
\* any album in a walk that is not private.
LEMMA GoTogether ==
    ASSUME WalkTypes
    PROVE  /\ \A p \in Posts : p \in With(p) /\ With(p) \subseteq Posts
           /\ \A p, q \in Posts : /\ AlbumOf(p) = AlbumOf(q) /\ AlbumOf(p) # NoAlbum
                                  /\ (Private => PhotoAlbum(AlbumOf(p)))
                                  => q \in With(p)
BY DEF With, SameAlbum

\* What has been told stays told.
LEMMA ToldStays ==
    ASSUME link' = link, CountedPosts \subseteq CountedPosts'
    PROVE  \A p : Told(p) => Told(p)'
<1>1. \A p : With(p)' = With(p) /\ (Between(p)' <=> Between(p)) /\ (Private' <=> Private)
  BY LinkStays
<1> QED BY <1>1 DEF Told

\* The post at hand, counted, is told, and so are those of its album and those jumped.
LEMMA EndTells ==
    ASSUME WalkTypes, pos # 0, link' = link, NEW q \in Posts, q \in CountedPosts', AlbumOf(q) = Here,
           q = At \/ Here # NoAlbum, Private /\ q # At => PhotoAlbum(Here)
    PROVE  /\ \A p : p = At => Told(p)'
           /\ Private /\ PhotoAlbum(Here) /\ Jumps =>
                 \A i \in pos + 1..pos' : \A p : p = Order[i] => Told(p)'
<1>1. \A p : With(p)' = With(p) /\ (Between(p)' <=> Between(p)) /\ (Private' <=> Private)
  BY LinkStays
<1>2. At \in Posts /\ pos \in 1..Len(Order) /\ AlbumOf(At) = Here
  BY AtHand DEF Here
<1>3. q \in With(At)
  BY <1>2, GoTogether
<1>4. \A p : p = At => Told(p)'
  BY <1>1, <1>3 DEF Told
<1>5. ASSUME Private, PhotoAlbum(Here), Jumps, NEW i \in pos + 1..pos', NEW p, p = Order[i]
      PROVE  Told(p)'
  <2>1. pos \in Nat /\ pos' \in pos..Len(Order) /\ Len(Order) \in Nat
    BY <1>5, <1>2, JumpFacts, LinkFacts DEF Jumps, WalkTypes
  <2>2. i \in 1..Len(Order) /\ pos < i
    BY <1>5, <2>1
  <2>3. p \in Posts
    BY <1>5, <2>2, LinkFacts DEF WalkTypes
  <2>4. p < Beyond(Here) /\ Beyond(Here) \in Nat
    BY <1>5, JumpFacts DEF Jumps
  <2>5. At < p
    BY <1>2, <1>5, <2>2, LinkFacts DEF WalkTypes, At
  <2>6. Here \in Albums /\ Here \in link.photos /\ Here # NoAlbum
    BY <1>5, LinkFacts DEF WalkTypes
  <2>7. CASE AlbumOf(p) = Here
    <3>1. q \in With(p)
      BY <1>5, <2>3, <2>6, <2>7, GoTogether
    <3> QED BY <1>1, <3>1 DEF Told
  <2>8. CASE AlbumOf(p) # Here
    <3>1. At \in Members(Here) /\ Beyond(Here) - 1 \in Members(Here)
      BY <1>2, <1>5, <2>6, LinkFacts, JumpFacts DEF WalkTypes
    <3>2. p \notin Members(Here)
      BY <2>6, <2>8, LinkFacts DEF WalkTypes
    <3>3. p # Beyond(Here) - 1
      BY <3>1, <3>2
    <3>4. p < Beyond(Here) - 1
      <4>1. p \in Nat
        BY <2>3, LinkFacts DEF WalkTypes
      <4> QED BY <2>4, <3>3, <4>1
    <3>5. Between(p)
      BY <2>5, <2>6, <2>8, <3>1, <3>4 DEF Between
    <3> QED BY <1>1, <1>5, <3>5 DEF Told
  <2> QED BY <2>7, <2>8
<1> QED BY <1>4, <1>5

\* The posts told, and what of them AllTold asks for after a step that stays at a post or
\* one that is through with it.
LEMMA ToldIsKept ==
    ASSUME WalkTypes, AllTold, link' = link, CountedPosts \subseteq CountedPosts', pos' \in pos..Len(Order),
           pos # 0 => (\A p : p = At => Told(p)') \/ (pos' = pos /\ (pc' # "head" \/ again')),
           \A i \in pos + 1..pos' : (\A p : p = Order[i] => Told(p)') \/ (i = pos' /\ pc' # "head"),
           \A a \in seen' : \/ pc' = "done" \/ (pc' \in InGroup /\ pos' = pos /\ Here = a)
                            \/ \E p \in CountedPosts' : AlbumOf(p) = a
    PROVE  AllTold'
<1>1. Order' = Order /\ Len(Order) \in Nat /\ pos \in Nat /\ \A p : AlbumOf(p)' = AlbumOf(p)
  BY LinkStays, LinkFacts DEF WalkTypes
<1>2. pos' = pos => Here' = Here
  BY HereStays
<1>3. ASSUME NEW i \in 1..pos', ~(i = pos' /\ (pc' # "head" \/ again')), NEW p, p = Order[i]
      PROVE  Told(p)'
  <2>1. CASE i < pos
    <3>1. i \in 1..pos /\ i # pos
      BY <1>1, <2>1
    <3>2. Told(p)
      BY <1>3, <3>1 DEF AllTold
    <3> QED BY <3>2, ToldStays
  <2>2. CASE i = pos
    <3>1. p = At /\ pos # 0
      BY <1>3, <2>2 DEF At
    <3>2. ~(pos' = pos /\ (pc' # "head" \/ again'))
      BY <1>3, <2>2
    <3> QED BY <3>1, <3>2
  <2>3. CASE ~(i <= pos)
    <3>1. i \in pos + 1..pos'
      BY <1>1, <1>3, <2>3
    <3> QED BY <1>3, <3>1
  <2> QED BY <1>1, <2>1, <2>2, <2>3
<1>4. \A a \in seen' : \/ pc' = "done" \/ (pc' \in InGroup /\ Here' = a)
                       \/ \E p \in CountedPosts' : AlbumOf(p)' = a
  BY <1>1, <1>2
<1>5. \A i \in 1..pos' : Told(Order[i])' \/ (i = pos' /\ (pc' # "head" \/ again'))
  BY <1>1, <1>3
<1> QED BY <1>4, <1>5 DEF AllTold


\* The post at hand is counted.
LEMMA Counts ==
    ASSUME NEW kind \in {"sent", "failed", "missing"}, Ends(kind)
    PROVE  At \in CountedPosts'
BY DEF Ends, CountsAs, CountedPosts

LEMMA ToldKept ==
    ASSUME WalkTypes, Placed, AllTold, Kinds, link' = link
    PROVE  AllTold'
<1>1. /\ CountedPosts \subseteq CountedPosts' /\ pos \in Nat /\ Len(Order) \in Nat /\ pos <= Len(Order)
      /\ NoAlbum \notin Albums /\ seen \subseteq Albums
  BY Growth, LinkFacts DEF WalkTypes
<1>2. pos # 0 => At \in Posts /\ Here \in Albums \cup {NoAlbum}
  BY AtHand
<1>3. pc \notin {"wait", "head", "done"} => ~again
  BY DEF Placed
\* Steps that stay at a post.
<1>4. ASSUME pos' = pos, pos # 0, pc' # "head" \/ again', seen' \subseteq seen \cup {Here},
             pc \in InGroup \/ seen' # seen => pc' = "done" \/ pc' \in InGroup, pc # "done" \/ pc' = "done"
      PROVE  AllTold'
  <2>1. \A i \in pos + 1..pos' : FALSE
    BY <1>1, <1>4
  <2>2. ASSUME NEW a \in seen', pc' # "done", ~(pc' \in InGroup /\ Here = a)
        PROVE  \E p \in CountedPosts' : AlbumOf(p) = a
    <3>1. a \in seen /\ ~(pc \in InGroup /\ Here = a)
      BY <1>4, <2>2
    <3>2. \E p \in CountedPosts : AlbumOf(p) = a
      BY <1>4, <2>2, <3>1 DEF AllTold
    <3> QED BY <1>1, <3>2
  <2> QED BY <1>1, <1>4, <2>1, <2>2, ToldIsKept
\* Steps that are through with one.
<1>5. ASSUME pos # 0, pos' = pos \/ (Private /\ PhotoAlbum(Here) /\ Jumps), NEW q \in Posts, q \in CountedPosts',
             AlbumOf(q) = Here, q = At \/ Here # NoAlbum, Private /\ q # At => PhotoAlbum(Here),
             seen' \subseteq seen \cup {Here}, pc # "done"
      PROVE  AllTold'
  <2>1. /\ \A p : p = At => Told(p)'
        /\ Private /\ PhotoAlbum(Here) /\ Jumps => \A i \in pos + 1..pos' : \A p : p = Order[i] => Told(p)'
    BY <1>5, EndTells
  <2>2. pos' \in pos..Len(Order)
    BY <1>1, <1>5, JumpFacts DEF Jumps
  <2>3. pos' = pos => \A i \in pos + 1..pos' : FALSE
    BY <1>1
  <2>4. ASSUME NEW a \in seen'
        PROVE  \E p \in CountedPosts' : AlbumOf(p) = a
    <3>1. CASE a = Here
      BY <1>5, <3>1
    <3>2. CASE a # Here
      <4>1. a \in seen
        BY <1>5, <2>4, <3>2
      <4>2. \E p \in CountedPosts : AlbumOf(p) = a
        BY <1>5, <3>2, <4>1 DEF AllTold
      <4> QED BY <1>1, <4>2
    <3> QED BY <3>1, <3>2
  <2>5. \A i \in pos + 1..pos' : \A p : p = Order[i] => Told(p)'
    BY <1>5, <2>1, <2>3
  <2> QED BY <1>1, <2>1, <2>2, <2>4, <2>5, ToldIsKept
<1>6. ASSUME pos # 0, pos' = pos \/ (Private /\ PhotoAlbum(Here) /\ Jumps),
             NEW kind \in {"sent", "failed", "missing"}, Ends(kind), seen' \subseteq seen \cup {Here}, pc # "done"
      PROVE  AllTold'
  <2>1. At \in CountedPosts' /\ At \in Posts /\ AlbumOf(At) = Here
    BY <1>2, <1>6, Counts DEF Here
  <2> QED BY <1>5, <1>6, <2>1
\* A member of an album that is remembered.
<1>7. ASSUME pos # 0, Here \in seen, pc \notin InGroup \cup {"done"}, seen' = seen,
             (pos' = pos /\ ~Private) \/ (Private /\ PhotoAlbum(Here) /\ Jumps)
      PROVE  AllTold'
  <2>1. PICK q \in CountedPosts : AlbumOf(q) = Here
    BY <1>7 DEF AllTold
  <2>2. q \in Posts /\ q \in CountedPosts' /\ Here # NoAlbum
    BY <1>1, <1>7, <2>1 DEF WalkTypes, CountedPosts
  <2> QED BY <1>5, <1>7, <2>1, <2>2
<1> USE DEF countVars, historyVars
<1>8. CASE Leaves
  <2>1. \A i \in pos + 1..pos' : FALSE
    BY <1>1, <1>8 DEF Leaves
  <2> QED BY <1>1, <1>8, <2>1, ToldIsKept DEF Leaves
<1>9. CASE Takes
  <2>1. CASE again
    BY <1>9, <2>1, <1>4 DEF Takes, InGroup, Placed
  <2>2. CASE ~again
    <3>1. pos' = pos + 1 /\ pos' \in pos..Len(Order) /\ pc' # "head" /\ pc = "head" /\ pc # "done"
      BY <1>1, <1>9, <2>2 DEF Takes
    <3>2. \A i \in pos + 1..pos' : i = pos'
      BY <1>1, <3>1
    <3>3. pos # 0 => Told(Order[pos])
      BY <1>1, <2>2, <3>1 DEF AllTold
    <3>4. pos # 0 => \A p : p = At => Told(p)'
      BY <1>1, <3>3, ToldStays DEF At
    <3>5. \A a \in seen' : \E p \in CountedPosts' : AlbumOf(p) = a
      <4>1. seen' = seen
        BY <1>9 DEF Takes
      <4>2. \A a \in seen : \E p \in CountedPosts : AlbumOf(p) = a
        BY <3>1 DEF AllTold, InGroup
      <4> QED BY <1>1, <4>1, <4>2
    <3> QED BY <1>1, <3>1, <3>2, <3>4, <3>5, ToldIsKept
  <2> QED BY <2>1, <2>2
<1>10. CASE Walks
  <2>1. pos # 0 /\ pos' = pos /\ seen' = seen /\ again' = again /\ pc # "done" /\ pc' # "done"
    BY <1>10 DEF Walks, Placed
  <2>2. pc' # "head" \/ again'
    BY <1>10 DEF Walks, Placed
  <2>3. pc \in InGroup => pc' \in InGroup
    BY <1>10 DEF Walks, InGroup
  <2> QED BY <2>1, <2>2, <2>3, <1>4
<1>11. CASE Groups
  BY <1>11, <1>4 DEF Groups, Placed, InGroup
<1>12. CASE Retries
  BY <1>12, <1>4 DEF Retries, Placed, InGroup
<1>13. CASE Tells
  <2>1. PICK kind \in {"sent", "failed", "missing"} : Ends(kind)
    BY <1>13 DEF Tells
  <2> QED BY <1>6, <1>13, <2>1 DEF Tells, Placed
<1>14. CASE Skipped
  <2>1. pos # 0 /\ Private /\ PhotoAlbum(Here) /\ Jumps /\ seen' = seen /\ pc # "done"
    BY <1>14 DEF Skipped, Placed
  <2>2. CASE pc = "detect" /\ Here \in seen
    BY <1>7, <2>1, <2>2 DEF InGroup
  <2>3. CASE Ends("sent") \/ Ends("failed")
    BY <1>6, <2>1, <2>3
  <2> QED BY <1>14, <2>2, <2>3 DEF Skipped
<1>15. CASE Passes
  BY <1>7, <1>15 DEF Passes, Placed, InGroup
<1>16. CASE ComesAlone
  <2>1. pos # 0 /\ pos' = pos /\ seen' = seen /\ pc # "done"
    BY <1>16 DEF ComesAlone, Placed
  <2>2. CASE pc' = "overflow"
    BY <1>4, <2>1, <2>2 DEF InGroup
  <2>3. CASE Ends("sent") \/ Ends("failed")
    BY <1>6, <2>1, <2>3
  <2> QED BY <1>16, <2>2, <2>3 DEF ComesAlone
<1>17. CASE ComesAsAlbum
  <2>1. pos # 0 /\ Private /\ PhotoAlbum(Here) /\ seen' \subseteq seen \cup {Here} /\ pc # "done"
    BY <1>17 DEF ComesAsAlbum, Placed
  <2>2. CASE pc' = "albumText" /\ pos' = pos
    BY <1>4, <2>1, <2>2 DEF InGroup
  <2>3. CASE (Ends("sent") \/ Ends("failed")) /\ Jumps
    BY <1>6, <2>1, <2>3
  <2> QED BY <1>17, <2>2, <2>3 DEF ComesAsAlbum
<1>18. CASE ComesAsGroup
  <2>1. pos # 0 /\ pos' = pos /\ seen' = seen /\ pc # "done"
    BY <1>18 DEF ComesAsGroup, Placed
  <2>2. CASE pc' = "each"
    BY <1>4, <2>1, <2>2 DEF InGroup
  <2>3. CASE Ends("sent")
    BY <1>6, <2>1, <2>3
  <2> QED BY <1>18, <2>2, <2>3 DEF ComesAsGroup
<1>19. CASE ComesByItself
  BY <1>4, <1>19 DEF ComesByItself, Placed, InGroup
<1>20. CASE Stops
  <2>1. pos' = pos /\ seen' = seen /\ pc' = pc /\ CountedPosts' = CountedPosts /\ again' = again
    BY <1>20 DEF Stops, CountedPosts
  <2>2. Here' = Here /\ Order' = Order /\ \A p : AlbumOf(p)' = AlbumOf(p)
    BY <2>1, HereStays, LinkStays
  <2>3. \A p : Told(p) => Told(p)'
    BY <1>1, ToldStays
  <2>4. \A i \in 1..pos' : Told(Order[i])' \/ (i = pos' /\ (pc' # "head" \/ again'))
    <3> SUFFICES ASSUME NEW i \in 1..pos', ~(i = pos' /\ (pc' # "head" \/ again')), NEW p, p = Order[i]
                 PROVE  Told(p)'
      BY <2>2
    <3>1. Told(p)
      BY <2>1 DEF AllTold
    <3> QED BY <2>3, <3>1
  <2> QED BY <2>1, <2>2, <2>4 DEF AllTold
<1> QED BY <1>8, <1>9, <1>10, <1>11, <1>12, <1>13, <1>14, <1>15, <1>16, <1>17, <1>18, <1>19, <1>20 DEF Kinds


-----------------------------------------------------------------------------
(* The counts are true                                                     *)

\* What is vouched for stays so as the walk goes on.
LEMMA VouchedStays ==
    ASSUME WalkTypes, Placed, Kinds, link' = link
    PROVE  \A p \in Posts : Vouched(p) => Vouched(p)'
<1>1. \A p \in Posts : With(p) \subseteq Posts
  BY GoTogether
<1>2. \A q \in Posts : got[q] > 0 => got'[q] > 0
  <2>1. \A q \in Posts : got[q] \in Nat /\ got[q] <= got'[q]
    BY Growth DEF WalkTypes
  <2>2. WalkTypes'
    BY TypesKept
  <2>3. \A q \in Posts : got'[q] \in Nat
    BY <2>2 DEF WalkTypes
  <2> QED BY <2>1, <2>3
<1>3. blurred \subseteq blurred'
  BY Growth
<1>4. \A p : With(p)' = With(p) /\ AlbumOf(p)' = AlbumOf(p) /\ (PhotoAlbum(AlbumOf(p))' <=> PhotoAlbum(AlbumOf(p)))
  BY LinkStays
<1>5. ASSUME NEW p \in Posts, Enough(p)
      PROVE  Enough(p)'
  <2>1. CASE PhotoAlbum(AlbumOf(p)) /\ AlbumOf(p) \notin blurred
    <3>1. PICK q \in With(p), r \in With(p) : q # r /\ got[q] > 0 /\ got[r] > 0
      BY <1>5, <2>1 DEF Enough
    <3>2. got'[q] > 0 /\ got'[r] > 0
      BY <1>1, <1>2, <3>1
    <3> QED BY <1>4, <3>1, <3>2 DEF Enough
  <2>2. CASE ~(PhotoAlbum(AlbumOf(p)) /\ AlbumOf(p) \notin blurred)
    <3>1. PICK q \in With(p) : got[q] > 0
      BY <1>5, <2>2 DEF Enough
    <3>2. got'[q] > 0
      BY <1>1, <1>2, <3>1
    <3> QED BY <1>3, <1>4, <2>2, <3>1, <3>2 DEF Enough
  <2> QED BY <2>1, <2>2
<1> SUFFICES ASSUME NEW p \in Posts, Vouched(p) PROVE Vouched(p)'
  OBVIOUS
<1>6. Private' <=> Private
  BY LinkStays
<1>7. CASE AlbumOf(p) \in link.photos
  BY <1>4, <1>5, <1>6, <1>7 DEF Vouched
<1>8. CASE AlbumOf(p) \notin link.photos
  <2>1. PICK q \in With(p) : got[q] > 0
    BY <1>8 DEF Vouched
  <2>2. got'[q] > 0
    BY <1>1, <1>2, <2>1
  <2> QED BY <1>4, <1>8, <2>1, <2>2 DEF Vouched
<1> QED BY <1>7, <1>8

\* One post that has come vouches for those it goes with, save an album that is sent as one
\* in a private walk and was seen as such: that takes two.
LEMMA OneVouches ==
    ASSUME WalkTypes, link' = link, blurred \subseteq blurred', NEW p \in Posts, NEW q \in With(p), got'[q] > 0,
           Private /\ PhotoAlbum(AlbumOf(p)) => AlbumOf(p) \in blurred
    PROVE  Vouched(p)'
<1>1. /\ With(p)' = With(p) /\ AlbumOf(p)' = AlbumOf(p) /\ (Private' <=> Private)
      /\ PhotoAlbum(AlbumOf(p))' <=> PhotoAlbum(AlbumOf(p))
  BY LinkStays
<1>2. Private => Enough(p)'
  BY <1>1 DEF Enough
<1> QED BY <1>1, <1>2 DEF Vouched

LEMMA TwoVouch ==
    ASSUME WalkTypes, link' = link, NEW p \in Posts, NEW q \in With(p), NEW r \in With(p), q # r,
           got'[q] > 0, got'[r] > 0
    PROVE  Vouched(p)'
<1>1. /\ With(p)' = With(p) /\ AlbumOf(p)' = AlbumOf(p) /\ (Private' <=> Private)
      /\ PhotoAlbum(AlbumOf(p))' <=> PhotoAlbum(AlbumOf(p))
  BY LinkStays
<1>2. Enough(p)'
  BY <1>1 DEF Enough
<1> QED BY <1>1, <1>2 DEF Vouched

\* The post at hand is not counted as sent without cause.
LEMMA SentIsTrue ==
    ASSUME WalkTypes, Placed, TruthFits, Kinds, link' = link, processed' # processed
    PROVE  /\ processed' = processed \cup {At} /\ pos # 0
           /\ \A p : p = At => Vouched(p)'
<1>1. \/ Tells /\ Ends("sent") /\ pc \in {"overflow", "each", "member"}
      \/ Skipped /\ Ends("sent") /\ pc = "albumText"
      \/ ComesAlone /\ Arrives({At}) /\ Ends("sent")
      \/ ComesAsAlbum /\ Arrives(todo) /\ Ends("sent")
      \/ ComesAsGroup /\ Ends("sent")
  <2> USE DEF Ends, CountsAs, countVars
  <2>1. CASE Leaves \/ Takes \/ Walks \/ Groups
    BY <2>1 DEF Leaves, Takes, Walks, Groups
  <2>2. CASE Retries \/ Passes \/ ComesByItself \/ Stops
    BY <2>2 DEF Retries, Passes, ComesByItself, Stops
  <2>3. CASE Tells
    BY <2>3 DEF Tells
  <2>4. CASE Skipped
    BY <2>4 DEF Skipped
  <2>5. CASE ComesAlone
    BY <2>5 DEF ComesAlone
  <2>6. CASE ComesAsAlbum
    BY <2>6 DEF ComesAsAlbum
  <2>7. CASE ComesAsGroup
    BY <2>7 DEF ComesAsGroup
  <2> QED BY <2>1, <2>2, <2>3, <2>4, <2>5, <2>6, <2>7 DEF Kinds
<1>2. processed' = processed \cup {At}
  BY <1>1 DEF Ends, CountsAs
<1>3. pos # 0
  BY <1>1 DEF Tells, Skipped, ComesAlone, ComesAsAlbum, ComesAsGroup, Placed
<1>4. At \in Posts /\ At \in With(At) /\ AlbumOf(At) = Here /\ NoAlbum \notin Albums
  BY <1>3, AtHand, GoTogether, LinkFacts DEF Here, WalkTypes
<1>5. blurred \subseteq blurred' /\ (\A p \in Posts : got[p] \in Nat /\ got[p] <= got'[p])
      /\ got' \in [Posts -> Nat]
  <2>1. WalkTypes'
    BY TypesKept
  <2> QED BY <2>1, Growth DEF WalkTypes
<1>6. ASSUME NEW p, p = At
      PROVE  Vouched(p)'
  <2>1. CASE ~Private /\ PhotoAlbum(Here)
    <3>1. Here \in link.photos
      BY <2>1, LinkFacts DEF WalkTypes
    <3> QED BY <1>4, <1>6, <2>1, <3>1, LinkStays DEF Vouched
  <2>2. CASE Tells /\ pc = "overflow"
    <3>1. got'[At] > 0
      BY <1>4, <1>5, <2>2 DEF TruthFits
    <3>2. Private /\ PhotoAlbum(Here) => Here \in blurred
      BY <2>2 DEF Placed
    <3> QED BY <1>4, <1>5, <1>6, <3>1, <3>2, OneVouches
  <2>3. CASE Tells /\ pc = "each"
    BY <2>1, <2>3 DEF Placed
  <2>4. CASE Tells /\ pc = "member" /\ Ends("sent")
    <3>1. ~Private /\ Here # NoAlbum
      BY <2>4 DEF Placed
    <3>2. some
      BY <1>2, <2>4 DEF Tells, Ends, CountsAs
    <3>3. PICK q \in Posts : AlbumOf(q) = Here /\ got[q] > 0
      BY <2>4, <3>2 DEF TruthFits
    <3>4. q \in With(At) /\ got'[q] > 0
      BY <1>4, <1>5, <3>1, <3>3, GoTogether
    <3> QED BY <1>4, <1>5, <1>6, <3>1, <3>4, OneVouches
  <2>5. CASE Skipped /\ pc = "albumText"
    <3>1. PhotoAlbum(Here) /\ Private
      BY <2>5 DEF Skipped
    <3>2. PICK q \in Members(Here), r \in Members(Here) : q # r /\ got[q] > 0 /\ got[r] > 0
      BY <2>5 DEF TruthFits
    <3>3. Here \in Albums /\ \A x \in Members(Here) : x \in Posts /\ AlbumOf(x) = Here
      BY <3>1, LinkFacts DEF WalkTypes
    <3>4. q \in With(At) /\ r \in With(At) /\ got'[q] > 0 /\ got'[r] > 0
      BY <1>4, <1>5, <3>1, <3>2, <3>3, GoTogether
    <3> QED BY <1>4, <1>6, <3>2, <3>4, TwoVouch
  <2>6. CASE ComesAlone /\ Arrives({At})
    <3>1. got'[At] > 0
      BY <1>4, <1>5, <2>6 DEF Arrives, Reach
    <3>2. Private /\ PhotoAlbum(Here) => Here \in blurred
      BY <2>6 DEF ComesAlone, Placed
    <3> QED BY <1>4, <1>5, <1>6, <3>1, <3>2, OneVouches
  <2>7. CASE ComesAsAlbum /\ Arrives(todo)
    <3>1. /\ Private /\ PhotoAlbum(Here) /\ Here \in Albums
          /\ \A x \in todo : x \in Posts /\ AlbumOf(x) = Here
      BY <2>7, AlbumComes
    <3>2. HasTwo(todo)
      BY <2>7, <3>1 DEF ComesAsAlbum, Placed
    <3>3. PICK q \in todo, r \in todo : q # r
      BY <3>2 DEF HasTwo
    <3>4. got'[q] > 0 /\ got'[r] > 0
      BY <1>5, <2>7, <3>1 DEF Arrives, Reach
    <3>5. q \in With(At) /\ r \in With(At)
      BY <1>4, <3>1, GoTogether
    <3> QED BY <1>4, <1>6, <3>3, <3>4, <3>5, TwoVouch
  <2>8. CASE ComesAsGroup
    BY <2>1, <2>8 DEF ComesAsGroup, Placed
  <2> QED BY <1>1, <2>2, <2>3, <2>4, <2>5, <2>6, <2>7, <2>8
<1> QED BY <1>2, <1>3, <1>6


\* In a private walk, photos of an album come with it, or lose their answer, or are of one
\* that was not seen.
LEMMA UnseenHaveNotCome ==
    ASSUME WalkTypes, Placed, TruthFits, Kinds, link' = link, Private
    PROVE  \A p \in Posts : PhotoAlbum(AlbumOf(p)) /\ AlbumOf(p) \notin blurred' \cup seen' =>
                               got'[p] = 0 \/ p \in lost'
<1> SUFFICES ASSUME NEW p \in Posts, PhotoAlbum(AlbumOf(p)), AlbumOf(p) \notin blurred' \cup seen'
             PROVE  got'[p] = 0 \/ p \in lost'
  OBVIOUS
<1>1. AlbumOf(p) \notin blurred \cup seen /\ lost \subseteq lost'
  BY Growth
<1>2. got[p] = 0 \/ p \in lost
  BY <1>1 DEF TruthFits
<1>3. CASE Quiet
  BY <1>1, <1>2, <1>3 DEF Quiet
<1>4. CASE ComesAlone
  <2>1. At \in Posts /\ Reach({At}) /\ (PhotoAlbum(Here) => Here \in blurred)
    BY <1>4, AloneComes DEF ComesAlone, Placed
  <2>2. p # At
    BY <1>1, <2>1 DEF Here
  <2>3. got'[p] = got[p]
    BY <2>1, <2>2 DEF Reach
  <2> QED BY <1>1, <1>2, <2>3
<1>5. CASE ComesAsAlbum
  <2>1. Reach(todo) /\ \A q \in todo : q \in Posts /\ AlbumOf(q) = Here
    BY <1>5, AlbumComes
  <2>2. CASE p \in todo
    <3>1. Here \in seen' \/ todo \subseteq lost'
      BY <1>5 DEF ComesAsAlbum
    <3> QED BY <2>1, <2>2, <3>1
  <2>3. CASE p \notin todo
    <3>1. got'[p] = got[p]
      BY <2>1, <2>3 DEF Reach
    <3> QED BY <1>1, <1>2, <3>1
  <2> QED BY <2>2, <2>3
<1>6. ~ComesAsGroup /\ ~ComesByItself
  BY DEF ComesAsGroup, ComesByItself, Placed
<1> QED BY <1>3, <1>4, <1>5, <1>6, QuietKinds

\* A single post that counts as failed has not come, unless its answer was lost.
LEMMA FailedHaveNotCome ==
    ASSUME WalkTypes, Placed, PrivateFits, TruthFits, Kinds, link' = link, Private
    PROVE  \A p \in failed' \ lost' : ~PhotoAlbum(AlbumOf(p)) => got'[p] = 0
<1> SUFFICES ASSUME NEW p \in failed' \ lost', ~PhotoAlbum(AlbumOf(p)) PROVE got'[p] = 0
  OBVIOUS
<1>1. lost \subseteq lost' /\ failed \subseteq Posts
  BY Growth DEF WalkTypes
<1>2. CASE p \in failed
  <2>1. got[p] = 0 /\ p \in Posts
    BY <1>1, <1>2 DEF TruthFits
  <2>2. CASE Quiet
    BY <2>1, <2>2 DEF Quiet
  <2>3. CASE ComesAlone
    <3>1. At \in Posts /\ ToCome(At) /\ Reach({At})
      BY <2>3, AloneComes
    <3>2. p # At
      BY <1>2, <3>1 DEF PrivateFits
    <3> QED BY <2>1, <3>1, <3>2 DEF Reach
  <2>4. CASE ComesAsAlbum
    <3>1. Reach(todo) /\ PhotoAlbum(Here) /\ \A q \in todo : q \in Posts /\ AlbumOf(q) = Here
      BY <2>4, AlbumComes
    <3>2. p \notin todo
      BY <3>1
    <3> QED BY <2>1, <3>1, <3>2 DEF Reach
  <2>5. ~ComesAsGroup /\ ~ComesByItself
    BY DEF ComesAsGroup, ComesByItself, Placed
  <2> QED BY <2>2, <2>3, <2>4, <2>5, QuietKinds
<1>3. CASE p \notin failed
  <2>1. p = At
    BY <1>3, WhoFails
  <2>2. \/ Tells /\ Ends("failed")
        \/ Skipped
        \/ ComesAlone /\ lost' = lost \cup {At}
        \/ ComesAsAlbum
    BY <1>3 DEF Kinds, Leaves, Takes, Walks, Groups, Retries, Tells, Skipped, Passes, ComesAlone, ComesAsAlbum,
       ComesAsGroup, ComesByItself, Stops, Ends, CountsAs, countVars
  <2>3. ~Skipped /\ ~ComesAsAlbum
    BY <2>1 DEF Skipped, ComesAsAlbum, Placed, Here
  <2>4. ~(lost' = lost \cup {At})
    BY <2>1
  <2>5. CASE Tells /\ Ends("failed")
    <3>1. pos # 0 /\ ~again /\ got' = got
      BY <2>5 DEF Tells, Placed, historyVars
    <3>2. pc \in Before
      <4>1. pc # "overflow" /\ pc # "each" /\ pc # "member"
        BY <1>3, <2>5 DEF Tells, Ends, CountsAs, Placed
      <4> QED BY <2>5, <4>1 DEF Tells, Before
    <3>3. ToCome(At) /\ At \in Posts
      BY <3>1, <3>2, AtHand DEF ToCome
    <3>4. got[At] = 0
      BY <3>3 DEF PrivateFits
    <3> QED BY <2>1, <3>1, <3>4
  <2> QED BY <2>2, <2>3, <2>4, <2>5
<1> QED BY <1>2, <1>3

LEMMA TruthKept ==
    ASSUME WalkTypes, Placed, PrivateFits, TruthFits, Kinds, link' = link
    PROVE  TruthFits'
<1>1. /\ \A p : AlbumOf(p)' = AlbumOf(p)
      /\ \A a : (PhotoAlbum(a)' <=> PhotoAlbum(a)) /\ Members(a)' = Members(a)
      /\ Private' <=> Private
  BY LinkStays
<1>2. \A p \in Posts : got[p] \in Nat /\ got'[p] \in Nat /\ got[p] <= got'[p]
  <2>1. WalkTypes'
    BY TypesKept
  <2> QED BY <2>1, Growth DEF WalkTypes
<1>3. \A p \in Posts : got[p] > 0 => got'[p] > 0
  BY <1>2
<1>4. ASSUME NEW p \in processed'
      PROVE  Vouched(p)'
  <2>1. CASE p \in processed
    BY <2>1, VouchedStays DEF TruthFits, WalkTypes
  <2>2. CASE p \notin processed
    <3>1. processed' # processed
      BY <1>4, <2>2
    <3>2. p = At
      BY <1>4, <2>2, <3>1, SentIsTrue
    <3> QED BY <3>1, <3>2, SentIsTrue
  <2> QED BY <2>1, <2>2
<1>5. ASSUME pc' = "overflow"
      PROVE  pos' = pos /\ got'[At] > 0
  <2>1. CASE pc = "overflow"
    <3>1. pos' = pos /\ got' = got
      BY <1>5, <2>1 DEF Kinds, Leaves, Takes, Walks, Groups, Retries, Tells, Skipped, Passes, ComesAlone,
         ComesAsAlbum, ComesAsGroup, ComesByItself, Stops, Ends, historyVars
    <3> QED BY <2>1, <3>1 DEF TruthFits
  <2>2. CASE pc # "overflow"
    <3>1. ComesAlone /\ Arrives({At}) /\ pos' = pos
      BY <1>5, <2>2 DEF Kinds, Leaves, Takes, Walks, Groups, Retries, Tells, Skipped, Passes, ComesAlone,
         ComesAsAlbum, ComesAsGroup, ComesByItself, Stops, Ends, historyVars
    <3>2. At \in Posts
      BY <3>1, AloneComes
    <3> QED BY <1>2, <3>1, <3>2 DEF Arrives, Reach
  <2> QED BY <2>1, <2>2
<1>6. ASSUME pc' \in {"member", "sendMember"}, some'
      PROVE  pos' = pos /\ \E q \in Posts : AlbumOf(q) = Here /\ got'[q] > 0
  <2>1. \/ pos' = pos /\ pc \in {"member", "sendMember"} /\ some' = some
        \/ ComesByItself /\ Arrives({Least(todo)}) /\ pos' = pos
    BY <1>6 DEF Kinds, Leaves, Takes, Walks, Groups, Retries, Tells, Skipped, Passes, ComesAlone,
       ComesAsAlbum, ComesAsGroup, ComesByItself, Stops, Ends
  <2>2. CASE pos' = pos /\ pc \in {"member", "sendMember"} /\ some' = some
    BY <1>3, <1>6, <2>2 DEF TruthFits
  <2>3. CASE ComesByItself /\ Arrives({Least(todo)}) /\ pos' = pos
    <3>1. Least(todo) \in Posts /\ AlbumOf(Least(todo)) = Here
      BY <2>3, GroupComes
    <3>2. got'[Least(todo)] > 0
      BY <1>2, <2>3, <3>1 DEF Arrives, Reach
    <3> QED BY <2>3, <3>1, <3>2
  <2> QED BY <2>1, <2>2, <2>3
<1>7. ASSUME pc' = "albumText"
      PROVE  pos' = pos /\ \E q, r \in Members(Here) : q # r /\ got'[q] > 0 /\ got'[r] > 0
  <2>1. \/ pos' = pos /\ pc = "albumText"
        \/ ComesAsAlbum /\ Arrives(todo) /\ pos' = pos
    BY <1>7 DEF Kinds, Leaves, Takes, Walks, Groups, Retries, Tells, Skipped, Passes, ComesAlone,
       ComesAsAlbum, ComesAsGroup, ComesByItself, Stops, Ends
  <2>2. CASE pos' = pos /\ pc = "albumText"
    <3>1. Members(Here) \subseteq Posts
      BY LinkFacts DEF WalkTypes
    <3> QED BY <1>3, <2>2, <3>1 DEF TruthFits
  <2>3. CASE ComesAsAlbum /\ Arrives(todo) /\ pos' = pos
    <3>1. Private /\ \A x \in todo : x \in Posts
      BY <2>3, AlbumComes
    <3>2. HasTwo(todo) /\ todo \subseteq Members(Here)
      BY <2>3, <3>1 DEF ComesAsAlbum, Placed
    <3>3. \A x \in todo : got'[x] > 0
      BY <1>2, <2>3, <3>1 DEF Arrives, Reach
    <3> QED BY <2>3, <3>2, <3>3 DEF HasTwo
  <2> QED BY <2>1, <2>2, <2>3
<1>8. pos' = pos => At' = At /\ Here' = Here /\ Members(Here)' = Members(Here)
  BY HereStays
<1>9. Private' => \A p \in Posts : PhotoAlbum(AlbumOf(p))' /\ AlbumOf(p)' \notin blurred' \cup seen' =>
                                      got'[p] = 0 \/ p \in lost'
  BY <1>1, UnseenHaveNotCome
<1>10. Private' => \A p \in failed' \ lost' : ~PhotoAlbum(AlbumOf(p))' => got'[p] = 0
  BY <1>1, FailedHaveNotCome
<1>11. /\ pc' = "overflow" => got'[At'] > 0
       /\ pc' \in {"member", "sendMember"} /\ some' => \E q \in Posts : AlbumOf(q)' = Here' /\ got'[q] > 0
       /\ pc' = "albumText" => \E q, r \in Members(Here)' : q # r /\ got'[q] > 0 /\ got'[r] > 0
  BY <1>1, <1>5, <1>6, <1>7, <1>8
<1> QED BY <1>4, <1>9, <1>10, <1>11 DEF TruthFits


-----------------------------------------------------------------------------
(* The theorems                                                            *)

\* Every step keeps the invariant.
LEMMA NextStep == WalkInv /\ [WalkNext]_walkVars => WalkInv'
<1> SUFFICES ASSUME WalkInv, [WalkNext]_walkVars PROVE WalkInv'
  OBVIOUS
<1>1. /\ WalkTypes /\ Placed /\ LateFits /\ PrivateFits /\ OthersFit /\ AlbumsOnce /\ AllTold /\ TruthFits
  BY DEF WalkInv
<1>2. Kinds
  BY <1>1, KindOfStep
<1>3. WalkTypes' /\ link' = link
  BY <1>1, <1>2, TypesKept
<1>4. Placed' /\ LateFits'
  BY <1>1, <1>2, <1>3, PlacedKept, LateKept
<1>5. PrivateFits' /\ OthersFit' /\ AlbumsOnce'
  BY <1>1, <1>2, <1>3, PrivateKept, OthersKept, OnceKept
<1>6. AllTold' /\ TruthFits'
  BY <1>1, <1>2, <1>3, ToldKept, TruthKept
<1> QED BY <1>3, <1>4, <1>5, <1>6 DEF WalkInv

\* What the history of counts says is what PostsSound wants of it.
LEMMA InvGivesSound == WalkInv => PostsSound /\ OneAlbumAfterStop
<1> SUFFICES ASSUME WalkInv PROVE PostsSound /\ OneAlbumAfterStop
  OBVIOUS
<1>1. WalkTypes /\ LateFits /\ AlbumsOnce /\ AllTold /\ TruthFits
  BY DEF WalkInv
<1>2. Accounted
  <2> SUFFICES ASSUME pc = "head", pos = Len(Order), ~again, NEW p \in ToSet(Order)
               PROVE  (Private /\ Between(p)) \/ With(p) \cap CountedPosts # {}
    BY DEF Accounted, CountedPosts
  <2>1. Order \in Seq(Posts)
    BY <1>1, LinkFacts DEF WalkTypes
  <2>2. PICK i \in 1..Len(Order) : p = Order[i]
    BY <2>1 DEF ToSet
  <2> QED BY <1>1, <2>2 DEF AllTold, Told
<1>3. \A p \in Posts : With(p) \in SUBSET Posts
  BY <1>1, GoTogether
<1>4. ASSUME NEW p \in processed
      PROVE  IF AlbumOf(p) \in link.photos
             THEN Private => Cardinality({q \in With(p) : got[q] > 0}) >=
                             IF PhotoAlbum(AlbumOf(p)) /\ AlbumOf(p) \notin blurred THEN 2 ELSE 1
             ELSE \E q \in With(p) : got[q] > 0
  <2> DEFINE came == {q \in With(p) : got[q] > 0}
  <2>1. Vouched(p) /\ p \in Posts
    BY <1>1 DEF TruthFits, WalkTypes
  <2>2. came \in SUBSET Posts
    BY <1>3, <2>1
  <2>3. (Cardinality(came) >= 2 <=> HasTwo(came)) /\ (Cardinality(came) >= 1 <=> came # {})
    BY <2>2, TwoOf
  <2>4. ASSUME AlbumOf(p) \in link.photos, Private
        PROVE  Cardinality(came) >= IF PhotoAlbum(AlbumOf(p)) /\ AlbumOf(p) \notin blurred THEN 2 ELSE 1
    <3>1. Enough(p)
      BY <2>1, <2>4 DEF Vouched
    <3>2. CASE PhotoAlbum(AlbumOf(p)) /\ AlbumOf(p) \notin blurred
      <4>1. HasTwo(came)
        BY <3>1, <3>2 DEF Enough, HasTwo
      <4> HIDE DEF came
      <4> QED BY <2>3, <3>2, <4>1
    <3>3. CASE ~(PhotoAlbum(AlbumOf(p)) /\ AlbumOf(p) \notin blurred)
      <4>1. came # {}
        BY <3>1, <3>3 DEF Enough
      <4> HIDE DEF came
      <4> QED BY <2>3, <3>3, <4>1
    <3> QED BY <3>2, <3>3
  <2> QED BY <2>1, <2>4 DEF Vouched
<1>5. ASSUME NEW p \in failed \ lost, Private, AlbumOf(p) \notin blurred \cup seen, NEW q \in With(p)
      PROVE  got[q] = 0 \/ q \in lost
  <2>1. p \in Posts /\ q \in Posts
    BY <1>1, <1>3 DEF WalkTypes
  <2>2. CASE PhotoAlbum(AlbumOf(p))
    <3>1. AlbumOf(q) = AlbumOf(p)
      BY <1>5, <2>2 DEF With, SameAlbum
    <3> QED BY <1>1, <1>5, <2>1, <2>2, <3>1 DEF TruthFits
  <2>3. CASE ~PhotoAlbum(AlbumOf(p))
    <3>1. q = p
      BY <1>5, <2>3 DEF With
    <3> QED BY <1>1, <1>5, <2>3, <3>1 DEF TruthFits
  <2> QED BY <2>2, <2>3
<1>6. Truthful
  BY <1>4, <1>5 DEF Truthful
<1> QED BY <1>1, <1>2, <1>6 DEF PostsSound, FullAccount, LateFits

LEMMA WalkInvariant == WalkSpec => []WalkInv
BY FirstStep, NextStep, PTL DEF WalkSpec

\* What a link asks for arrives once and is told, for any link and any number of floods,
\* losses and albums not seen: SendAlbum and its like, skip_to, albums_done and the counts
\* of the summary.
THEOREM PostsAreSound == WalkSpec => []PostsSound
BY WalkInvariant, InvGivesSound, PTL

\* After /stop, no more than one post or the photos of one album begin to come: the looks
\* at the flag in the loops, between the members and before an album.
THEOREM OneMoreAlbum == WalkSpec => []OneAlbumAfterStop
BY WalkInvariant, InvGivesSound, PTL

-----------------------------------------------------------------------------
(* Texts and their units                                                   *)

\* A set of numbers up to n that is not empty has a greatest element.
LEMMA GreatestExists ==
    ASSUME NEW n \in Nat, NEW S \in SUBSET (0..n), S # {}
    PROVE  \E k \in S : \A j \in S : j <= k
<1> DEFINE D == {n - k : k \in S}
<1>1. D \in SUBSET Nat /\ D # {}
  <2>1. \A k \in S : k \in 0..n /\ n - k \in Nat
    OBVIOUS
  <2>2. \A d \in D : d \in Nat
    BY <2>1
  <2>3. PICK k \in S : TRUE
    OBVIOUS
  <2>4. n - k \in D
    BY <2>3
  <2> QED BY <2>2, <2>4
<1>2. PICK d \in D : \A e \in D : d <= e
  BY <1>1, LeastExists
<1>3. PICK k \in S : d = n - k
  OBVIOUS
<1>4. ASSUME NEW j \in S PROVE j <= k
  <2>1. n - k <= n - j
    BY <1>2, <1>3
  <2> QED BY <2>1
<1> QED BY <1>4

\* A text has a length, and characters at its places.
LEMMA TextFacts ==
    ASSUME NEW t \in TextType
    PROVE  /\ Size(t) \in Nat
           /\ \A k \in 0..Size(t) - 1 : Char(t, k) \in Characters
           /\ t.marks \subseteq [kind : MarkKinds, off : Nat, len : Nat \ {0}]
           /\ \A m \in t.marks : {m.off, m.off + m.len} \subseteq {Units(t, 0, k) : k \in 0..Size(t)}
           /\ \A m, n \in {x \in t.marks : x.kind = "link"} :
                  m = n \/ m.off + m.len <= n.off \/ n.off + n.len <= m.off
           /\ Size(t) > 0 => ~IsSpace(t, 0) /\ ~IsSpace(t, Size(t) - 1)
<1>1. t \in [chars : Seq(Characters), marks : SUBSET [kind : MarkKinds, off : Nat, len : Nat \ {0}]]
  BY DEF TextType
<1>2. t.chars \in Seq(Characters) /\ t.marks \subseteq [kind : MarkKinds, off : Nat, len : Nat \ {0}]
  BY <1>1
<1>3. Size(t) \in Nat /\ \A k \in 0..Size(t) - 1 : Char(t, k) \in Characters
  BY <1>2 DEF Size, Char
<1> QED BY <1>2, <1>3 DEF TextType

\* A slice has a unit for each character at least.
LEMMA UnitsOfSlice ==
    ASSUME NEW t, NEW a \in Nat, NEW b \in Nat, a <= b
    PROVE  Units(t, a, b) \in Nat /\ b - a <= Units(t, a, b)
<1> DEFINE W == {k \in a..b - 1 : Char(t, k) = "wide"}
<1>1. IsFiniteSet(a..b - 1)
  BY FS_Interval
<1>2. IsFiniteSet(W) /\ Cardinality(W) \in Nat
  BY <1>1, FS_Subset, FS_CardinalityType
<1>3. Units(t, a, b) = b - a + Cardinality(W)
  BY DEF Units
<1> HIDE DEF W
<1> QED BY <1>2, <1>3

\* No units without characters.
LEMMA UnitsOfNone ==
    ASSUME NEW t, NEW a \in Nat
    PROVE  Units(t, a, a) = 0
<1>1. {k \in a..a - 1 : Char(t, k) = "wide"} = {}
  OBVIOUS
<1> QED BY <1>1, FS_EmptySet DEF Units

\* The units of adjacent slices add up.
LEMMA UnitsAdd ==
    ASSUME NEW t, NEW a \in Nat, NEW b \in Nat, NEW c \in Nat, a <= b, b <= c
    PROVE  Units(t, a, c) = Units(t, a, b) + Units(t, b, c)
<1> DEFINE W(i, j) == {k \in i..j - 1 : Char(t, k) = "wide"}
<1>1. IsFiniteSet(a..b - 1) /\ IsFiniteSet(b..c - 1)
  BY FS_Interval
<1>2. IsFiniteSet(W(a, b)) /\ IsFiniteSet(W(b, c))
  BY <1>1, FS_Subset
<1>3. W(a, c) = W(a, b) \cup W(b, c) /\ W(a, b) \cap W(b, c) = {}
  OBVIOUS
<1>4. /\ Units(t, a, b) = b - a + Cardinality(W(a, b))
      /\ Units(t, b, c) = c - b + Cardinality(W(b, c))
      /\ Units(t, a, c) = c - a + Cardinality(W(a, c))
  BY DEF Units
<1> HIDE DEF W
<1>5. Cardinality(W(a, c)) = Cardinality(W(a, b)) + Cardinality(W(b, c)) - Cardinality({})
  BY <1>2, <1>3, FS_Union
<1>6. Cardinality({}) = 0
  BY FS_EmptySet
<1>7. Cardinality(W(a, b)) \in Nat /\ Cardinality(W(b, c)) \in Nat
  BY <1>2, FS_CardinalityType
<1> QED BY <1>4, <1>5, <1>6, <1>7

\* A longer slice has more units.
LEMMA UnitsGrow ==
    ASSUME NEW t, NEW a \in Nat, NEW b \in Nat, NEW c \in Nat, a <= b, b < c
    PROVE  Units(t, a, b) < Units(t, a, c)
<1>1. Units(t, a, c) = Units(t, a, b) + Units(t, b, c)
  BY UnitsAdd
<1>2. Units(t, a, b) \in Nat /\ Units(t, b, c) \in Nat /\ c - b <= Units(t, b, c)
  BY UnitsOfSlice
<1> QED BY <1>1, <1>2

\* The order of places is the order of their units.
LEMMA UnitsInOrder ==
    ASSUME NEW t, NEW a \in Nat, NEW b \in Nat, NEW c \in Nat, a <= b, a <= c
    PROVE  /\ Units(t, a, b) <= Units(t, a, c) <=> b <= c
           /\ Units(t, a, b) = Units(t, a, c) <=> b = c
<1>1. Units(t, a, b) \in Nat /\ Units(t, a, c) \in Nat
  BY UnitsOfSlice
<1>2. b < c => Units(t, a, b) < Units(t, a, c)
  BY UnitsGrow
<1>3. c < b => Units(t, a, c) < Units(t, a, b)
  BY UnitsGrow
<1> QED BY <1>1, <1>2, <1>3

\* A character has one unit, or two if it is wide.
LEMMA UnitsOfOne ==
    ASSUME NEW t, NEW a \in Nat
    PROVE  Units(t, a, a + 1) = IF Char(t, a) = "wide" THEN 2 ELSE 1
<1> DEFINE W == {k \in a..a + 1 - 1 : Char(t, k) = "wide"}
<1>1. Units(t, a, a + 1) = a + 1 - a + Cardinality(W)
  BY DEF Units
<1>2. W = IF Char(t, a) = "wide" THEN {a} ELSE {}
  OBVIOUS
<1>3. Cardinality({a}) = 1 /\ Cardinality({}) = 0
  BY FS_Singleton, FS_EmptySet
<1> HIDE DEF W
<1> QED BY <1>1, <1>2, <1>3

-----------------------------------------------------------------------------
(* Places in a text                                                        *)

\* IndexUp is the first place with so many units before it, or the end.
LEMMA IndexUpIs ==
    ASSUME NEW t \in TextType, NEW lo \in 0..Size(t), NEW u \in Nat
    PROVE  LET k == IndexUp(t, lo, u) IN
           /\ k \in lo..Size(t)
           /\ u <= Units(t, lo, Size(t)) => u <= Units(t, lo, k)
           /\ \A j \in lo..k - 1 : Units(t, lo, j) < u
<1>1. Size(t) \in Nat
  BY TextFacts
<1>2. \A j \in lo..Size(t) : Units(t, lo, j) \in Nat
  BY <1>1, UnitsOfSlice
<1>3. CASE Units(t, lo, Size(t)) < u
  <2>1. IndexUp(t, lo, u) = Size(t)
    BY <1>3 DEF IndexUp
  <2>2. \A j \in lo..Size(t) - 1 : Units(t, lo, j) < Units(t, lo, Size(t))
    BY <1>1, UnitsGrow
  <2>3. \A j \in lo..Size(t) - 1 : Units(t, lo, j) < u
    BY <1>1, <1>2, <1>3, <2>2
  <2>4. Size(t) \in lo..Size(t) /\ ~(u <= Units(t, lo, Size(t)))
    BY <1>1, <1>2, <1>3
  <2> QED BY <2>1, <2>3, <2>4
<1>4. CASE ~(Units(t, lo, Size(t)) < u)
  <2> DEFINE S == {k \in lo..Size(t) : Units(t, lo, k) >= u}
  <2>1. S \in SUBSET Nat /\ Size(t) \in S
    BY <1>1, <1>2, <1>4
  <2>2. PICK k \in S : \A j \in S : k <= j
    BY <2>1, LeastExists
  <2>3. /\ k \in lo..Size(t) /\ Units(t, lo, k) >= u
        /\ \A j \in lo..k - 1 : Units(t, lo, j) < u
    <3>1. ASSUME NEW j \in lo..k - 1 PROVE Units(t, lo, j) < u
      <4>1. j \notin S /\ j \in lo..Size(t)
        BY <1>1, <2>2
      <4> QED BY <1>2, <4>1
    <3> QED BY <3>1
  <2>4. IndexUp(t, lo, u) = CHOOSE i \in lo..Size(t) : /\ Units(t, lo, i) >= u
                                                       /\ \A j \in lo..i - 1 : Units(t, lo, j) < u
    BY <1>4 DEF IndexUp
  <2>5. LET i == IndexUp(t, lo, u) IN
        /\ i \in lo..Size(t) /\ Units(t, lo, i) >= u
        /\ \A j \in lo..i - 1 : Units(t, lo, j) < u
    BY <2>3, <2>4
  <2> QED BY <1>2, <2>5
<1> QED BY <1>3, <1>4

\* It finds a place again.
LEMMA IndexUpFinds ==
    ASSUME NEW t \in TextType, NEW lo \in 0..Size(t), NEW k \in lo..Size(t)
    PROVE  IndexUp(t, lo, Units(t, lo, k)) = k
<1>1. Size(t) \in Nat /\ lo \in Nat /\ k \in Nat
  BY TextFacts
<1>2. PICK u \in Nat : u = Units(t, lo, k)
  BY <1>1, UnitsOfSlice
<1>3. PICK i : i = IndexUp(t, lo, u)
  OBVIOUS
<1>4. /\ i \in lo..Size(t)
      /\ u <= Units(t, lo, Size(t)) => u <= Units(t, lo, i)
      /\ \A j \in lo..i - 1 : Units(t, lo, j) < u
  BY <1>3, IndexUpIs
<1>5. i <= k
  <2>1. k < i => k \in lo..i - 1
    BY <1>1, <1>4
  <2> QED BY <1>1, <1>2, <1>4, <2>1
<1>6. u <= Units(t, lo, Size(t))
  BY <1>1, <1>2, UnitsInOrder
<1>7. k <= i
  BY <1>1, <1>2, <1>4, <1>6, UnitsInOrder
<1> QED BY <1>1, <1>2, <1>3, <1>4, <1>5, <1>7

\* IndexDown leads on, when there is room for any character, and to the end if all fits.
LEMMA IndexDownIs ==
    ASSUME NEW t \in TextType, NEW hi \in 0..Size(t), NEW lo \in 0..hi - 1, NEW u \in Nat, u > 1
    PROVE  LET k == IndexDown(t, lo, hi, u) IN
           /\ k \in lo + 1..hi /\ Units(t, lo, k) <= u
           /\ Units(t, lo, hi) <= u => k = hi
<1>1. Size(t) \in Nat /\ lo \in Nat /\ hi \in Nat
  BY TextFacts
<1>2. \A j \in lo..hi : Units(t, lo, j) \in Nat
  BY <1>1, UnitsOfSlice
<1> DEFINE S == {k \in lo..hi : Units(t, lo, k) <= u}
<1>3. lo + 1 \in S
  <2>1. Units(t, lo, lo + 1) <= u
    BY <1>1, UnitsOfOne
  <2> QED BY <1>1, <2>1
<1>4. S \in SUBSET (0..hi) /\ S # {}
  BY <1>1, <1>3
<1>5. PICK k \in S : \A j \in S : j <= k
  BY <1>1, <1>4, GreatestExists
<1>6. /\ k \in lo..hi /\ Units(t, lo, k) <= u
      /\ \A j \in k + 1..hi : Units(t, lo, j) > u
  <2>1. ASSUME NEW j \in k + 1..hi PROVE Units(t, lo, j) > u
    <3>1. j \notin S /\ j \in lo..hi
      BY <1>1, <1>5
    <3> QED BY <1>2, <3>1
  <2> QED BY <2>1
<1>7. PICK i : i = IndexDown(t, lo, hi, u)
  OBVIOUS
<1>8. /\ i \in lo..hi /\ Units(t, lo, i) <= u
      /\ \A j \in i + 1..hi : Units(t, lo, j) > u
  BY <1>6, <1>7 DEF IndexDown
<1>9. i # lo
  <2>1. lo + 1 \in lo + 1..hi
    BY <1>1
  <2>2. i = lo => Units(t, lo, lo + 1) > u
    BY <1>8, <2>1
  <2> QED BY <1>2, <1>3, <2>2
<1>10. ASSUME Units(t, lo, hi) <= u PROVE i = hi
  <2>1. i # hi => hi \in i + 1..hi
    BY <1>1, <1>8
  <2> QED BY <1>1, <1>2, <1>8, <1>10, <2>1
<1> QED BY <1>1, <1>7, <1>8, <1>9, <1>10

\* What is stripped is blank.
LEMMA StripRightIs ==
    ASSUME NEW t, NEW hi \in Nat, NEW lo \in 0..hi
    PROVE  LET k == StripRight(t, lo, hi) IN
           k \in lo..hi /\ \A j \in k..hi - 1 : IsSpace(t, j)
<1> DEFINE S == {k \in lo..hi : \A j \in k..hi - 1 : IsSpace(t, j)}
<1>1. S \in SUBSET Nat /\ hi \in S
  OBVIOUS
<1>2. PICK k \in S : \A j \in S : k <= j
  BY <1>1, LeastExists
<1>3. k > lo => ~IsSpace(t, k - 1)
  <2> SUFFICES ASSUME k > lo, IsSpace(t, k - 1) PROVE FALSE
    OBVIOUS
  <2>1. k - 1 \in lo..hi /\ \A j \in k - 1..hi - 1 : j = k - 1 \/ j \in k..hi - 1
    BY <1>1, <1>2
  <2>2. k - 1 \in S
    BY <2>1
  <2> QED BY <1>1, <1>2, <2>2
<1>4. k \in lo..hi /\ \A j \in k..hi - 1 : IsSpace(t, j)
  BY <1>2
<1>5. StripRight(t, lo, hi) = CHOOSE i \in lo..hi : /\ \A j \in i..hi - 1 : IsSpace(t, j)
                                                    /\ i > lo => ~IsSpace(t, i - 1)
  BY DEF StripRight
<1> QED BY <1>3, <1>4, <1>5

\* lstrip: only blanks are jumped.
LEMMA StripLeftIs ==
    ASSUME NEW t, NEW hi \in Nat, NEW lo \in 0..hi
    PROVE  LET k == StripLeft(t, lo, hi) IN
           k \in lo..hi /\ \A j \in lo..k - 1 : IsSpace(t, j)
<1> DEFINE S == {k \in lo..hi : \A j \in lo..k - 1 : IsSpace(t, j)}
<1>1. S \in SUBSET (0..hi) /\ lo \in S
  OBVIOUS
<1>2. PICK k \in S : \A j \in S : j <= k
  BY <1>1, GreatestExists
<1>3. k < hi => ~IsSpace(t, k)
  <2> SUFFICES ASSUME k < hi, IsSpace(t, k) PROVE FALSE
    OBVIOUS
  <2>1. k + 1 \in lo..hi /\ \A j \in lo..k + 1 - 1 : j = k \/ j \in lo..k - 1
    BY <1>1, <1>2
  <2>2. k + 1 \in S
    BY <2>1
  <2> QED BY <1>1, <1>2, <2>2
<1>4. k \in lo..hi /\ \A j \in lo..k - 1 : IsSpace(t, j)
  BY <1>2
<1>5. StripLeft(t, lo, hi) = CHOOSE i \in lo..hi : /\ \A j \in lo..i - 1 : IsSpace(t, j)
                                                   /\ i < hi => ~IsSpace(t, i)
  BY DEF StripLeft
<1> QED BY <1>3, <1>4, <1>5

\* A separator is found in the slice, or not at all.
LEMMA FoundIs ==
    ASSUME NEW t, NEW hi \in Nat, NEW lo \in 0..hi, NEW sep, Len(sep) \in Nat
    PROVE  Found(t, sep, lo, hi) \in (lo..hi - Len(sep)) \cup {lo - 1}
<1> DEFINE P == {k \in lo..hi - Len(sep) : \A i \in 1..Len(sep) : Char(t, k + i - 1) = sep[i]}
<1>1. \E k \in P \cup {lo - 1} : \A j \in P : j <= k
  <2>1. CASE P = {}
    BY <2>1
  <2>2. CASE P # {}
    <3>1. P \in SUBSET (0..hi)
      OBVIOUS
    <3>2. PICK k \in P : \A j \in P : j <= k
      BY <2>2, <3>1, GreatestExists
    <3> QED BY <3>2
  <2> QED BY <2>1, <2>2
<1>2. Found(t, sep, lo, hi) = CHOOSE k \in P \cup {lo - 1} : \A j \in P : j <= k
  BY DEF Found
<1>3. Found(t, sep, lo, hi) \in P \cup {lo - 1}
  BY <1>1, <1>2
<1> QED BY <1>3

\* A cut at a word leads on.
LEMMA WordCutIs ==
    ASSUME NEW t \in TextType, NEW hi \in 0..Size(t), NEW lo \in 0..hi - 1
    PROVE  WordCut(t, lo, hi) \in lo + 1..hi
<1>1. MessageLimit \in Nat /\ MessageLimit > 1 /\ Size(t) \in Nat
  BY TextsAssumption, TextFacts
<1>2. PICK most : most = IndexDown(t, lo, hi, MessageLimit)
  OBVIOUS
<1>3. most \in lo + 1..hi
  BY <1>1, <1>2, IndexDownIs
<1>4. PICK half : half = lo + (most - lo) \div 2
  OBVIOUS
<1>5. half \in Nat /\ lo <= half
  BY <1>1, <1>3, <1>4
<1>6. PICK blank : blank = Found(t, <<"blank">>, lo, most)
  OBVIOUS
<1>7. PICK line : line = Found(t, <<"line">>, lo, most)
  OBVIOUS
<1>8. most \in Nat /\ lo \in 0..most
  BY <1>1, <1>3
<1>9. Len(<<"blank">>) = 1 /\ Len(<<"line">>) = 1
  OBVIOUS
<1>10. blank \in (lo..most - 1) \cup {lo - 1} /\ line \in (lo..most - 1) \cup {lo - 1}
  BY <1>6, <1>7, <1>8, <1>9, FoundIs
<1>11. WordCut(t, lo, hi) = IF blank > half THEN blank ELSE IF line > half THEN line ELSE most
  BY <1>2, <1>4, <1>6, <1>7 DEF WordCut
<1> QED BY <1>1, <1>3, <1>5, <1>10, <1>11

-----------------------------------------------------------------------------
(* Taking a text apart                                                     *)

\* What Cut computes, from place n on.
CutFrom(size, step, n, g) ==
    g = [lo \in n..size |-> IF lo = size THEN <<>> ELSE step[lo].part \o g[step[lo].next]]

\* Steps that lead on.
LeadsOn(size, step) == \A lo \in 0..size - 1 : step[lo].next \in lo + 1..size

\* Where the next place is computed, so is this one.
LEMMA CutExtends ==
    ASSUME NEW size \in Nat, NEW step, LeadsOn(size, step), NEW n \in 0..size - 1,
           NEW g, CutFrom(size, step, n + 1, g)
    PROVE  \E h : CutFrom(size, step, n, h)
<1> DEFINE h == [lo \in n..size |-> IF lo = n THEN step[n].part \o g[step[n].next] ELSE g[lo]]
<1>1. \A lo \in n + 1..size : g[lo] = IF lo = size THEN <<>> ELSE step[lo].part \o g[step[lo].next]
  BY DEF CutFrom
<1>2. \A lo \in n..size - 1 : step[lo].next \in lo + 1..size
  BY DEF LeadsOn
<1>3. \A lo \in n + 1..size : h[lo] = g[lo]
  OBVIOUS
<1>4. ASSUME NEW lo \in n..size
      PROVE  h[lo] = IF lo = size THEN <<>> ELSE step[lo].part \o h[step[lo].next]
  <2>1. CASE lo = n
    <3>1. step[n].next \in n + 1..size
      BY <1>2
    <3>2. h[step[n].next] = g[step[n].next]
      BY <1>3, <3>1
    <3>3. n \in n..size /\ n # size
      OBVIOUS
    <3>4. h[n] = step[n].part \o g[step[n].next]
      BY <3>3, Zenon
    <3> HIDE DEF h
    <3> QED BY <2>1, <3>2, <3>3, <3>4
  <2>2. CASE lo = size /\ lo # n
    <3>1. lo \in n + 1..size
      BY <2>2
    <3>2. h[lo] = g[lo]
      BY <1>3, <3>1
    <3> HIDE DEF h
    <3> QED BY <1>1, <2>2, <3>1, <3>2
  <2>3. CASE lo # size /\ lo # n
    <3>1. lo \in n + 1..size /\ lo \in n..size - 1
      BY <2>3
    <3>2. step[lo].next \in lo + 1..size
      BY <1>2, <3>1
    <3>3. step[lo].next \in n + 1..size
      BY <3>1, <3>2
    <3>4. h[lo] = g[lo] /\ h[step[lo].next] = g[step[lo].next]
      BY <1>3, <3>1, <3>3
    <3> HIDE DEF h
    <3> QED BY <1>1, <2>3, <3>1, <3>4
  <2> QED BY <2>1, <2>2, <2>3
<1>5. h = [lo \in n..size |-> h[lo]]
  OBVIOUS
<1> HIDE DEF h
<1>6. CutFrom(size, step, n, h)
  BY <1>4, <1>5 DEF CutFrom
<1> QED BY <1>6

\* The function exists from every place on, by descent from the end.
LEMMA CutExists ==
    ASSUME NEW size \in Nat, NEW step, LeadsOn(size, step)
    PROVE  \E g : CutFrom(size, step, 0, g)
<1> DEFINE S == {d \in 0..size : ~\E g : CutFrom(size, step, size - d, g)}
<1>1. S = {}
  <2> SUFFICES ASSUME S # {} PROVE FALSE
    OBVIOUS
  <2>1. S \in SUBSET Nat
    OBVIOUS
  <2>2. PICK d \in S : \A e \in S : d <= e
    BY <2>1, LeastExists
  <2>3. CASE d = 0
    <3> DEFINE g == [lo \in size..size |-> <<>>]
    <3>1. g = [lo \in size..size |-> IF lo = size THEN <<>> ELSE step[lo].part \o g[step[lo].next]]
      OBVIOUS
    <3> HIDE DEF g
    <3>2. CutFrom(size, step, size, g)
      BY <3>1 DEF CutFrom
    <3>3. size - d = size
      BY <2>3
    <3> QED BY <2>2, <3>2, <3>3
  <2>4. CASE d # 0
    <3>1. d - 1 \in 0..size /\ d - 1 \notin S
      BY <2>2, <2>4
    <3>2. PICK n : n = size - d
      OBVIOUS
    <3>3. n \in 0..size - 1 /\ size - (d - 1) = n + 1
      BY <2>2, <2>4, <3>2
    <3>4. PICK g : CutFrom(size, step, n + 1, g)
      BY <3>1, <3>3
    <3>5. \E h : CutFrom(size, step, n, h)
      BY <3>3, <3>4, CutExtends
    <3> QED BY <2>2, <3>2, <3>5
  <2> QED BY <2>3, <2>4
<1>2. size \in 0..size /\ size - size = 0
  OBVIOUS
<1> QED BY <1>1, <1>2

\* Cut takes a text apart step by step.
LEMMA CutIs ==
    ASSUME NEW size \in Nat, NEW step, LeadsOn(size, step)
    PROVE  /\ Cut(size, size, step) = <<>>
           /\ \A lo \in 0..size - 1 :
                  Cut(size, lo, step) = step[lo].part \o Cut(size, step[lo].next, step)
<1> DEFINE F == CHOOSE g : g = [lo \in 0..size |-> IF lo = size THEN <<>>
                                                   ELSE step[lo].part \o g[step[lo].next]]
<1>1. \A lo : Cut(size, lo, step) = F[lo]
  BY DEF Cut
<1>2. \E g : g = [lo \in 0..size |-> IF lo = size THEN <<>> ELSE step[lo].part \o g[step[lo].next]]
  BY CutExists DEF CutFrom
<1>3. F = [lo \in 0..size |-> IF lo = size THEN <<>> ELSE step[lo].part \o F[step[lo].next]]
  BY <1>2
<1> HIDE DEF F
<1>4. \A lo \in 0..size : F[lo] = IF lo = size THEN <<>> ELSE step[lo].part \o F[step[lo].next]
  BY <1>3
<1>5. size \in 0..size /\ \A lo \in 0..size - 1 : lo \in 0..size /\ lo # size
  OBVIOUS
<1>6. F[size] = <<>>
  BY <1>4, <1>5, Zenon
<1>7. ASSUME NEW lo \in 0..size - 1 PROVE F[lo] = step[lo].part \o F[step[lo].next]
  BY <1>4, <1>5, Zenon
<1> QED BY <1>1, <1>6, <1>7

\* The pieces c cover what counts (K) from lo on, one behind the other.
Whole(c, lo, size, Good, K) ==
    /\ c \in Seq(Good)
    /\ \A i \in 1..Len(c) : lo <= c[i].lo
    /\ \A i, j \in 1..Len(c) : i < j => c[i].hi <= c[j].lo
    /\ \A k \in K : lo <= k /\ k < size => \E i \in 1..Len(c) : c[i].lo <= k /\ k < c[i].hi

\* A step from lo on makes a piece that begins there, or none where nothing counts.
Makes(lo, s, Good, K) ==
    \/ s.part = <<>> /\ \A k \in K : ~(lo <= k /\ k < s.next)
    \/ \E p \in Good : /\ s.part = <<p>> /\ p.lo = lo /\ p.hi \in lo..s.next
                       /\ \A k \in K : lo <= k /\ k < s.next => k < p.hi

Sliced(Good) == \A p \in Good : p.lo \in Nat /\ p.hi \in Nat

\* One piece in front of others.
LEMMA InFront ==
    ASSUME NEW Good, NEW p \in Good, NEW c \in Seq(Good)
    PROVE  LET d == <<p>> \o c IN
           /\ d \in Seq(Good) /\ Len(d) = Len(c) + 1 /\ Len(c) \in Nat /\ d[1] = p
           /\ \A i \in 1..Len(c) : d[i + 1] = c[i]
           /\ \A i \in 1..Len(d) : i = 1 \/ (i - 1 \in 1..Len(c) /\ d[i] = c[i - 1])
<1> DEFINE d == <<p>> \o c
<1>1. <<p>> \in Seq(Good) /\ Len(<<p>>) = 1 /\ <<p>>[1] = p
  OBVIOUS
<1>2. d \in Seq(Good) /\ Len(d) = Len(c) + 1 /\ Len(c) \in Nat
  BY <1>1
<1>3. d[1] = p
  BY <1>1, <1>2
<1>4. \A i \in 1..Len(d) : i = 1 \/ (i - 1 \in 1..Len(c) /\ d[i] = c[i - 1])
  BY <1>1, <1>2
<1>5. \A i \in 1..Len(c) : d[i + 1] = c[i]
  BY <1>1, <1>2
<1> QED BY <1>2, <1>3, <1>4, <1>5

\* What tells the rest of a text, with what the step before made, tells it from there on.
LEMMA WholeLonger ==
    ASSUME NEW Good, Sliced(Good), NEW K \in SUBSET Nat, NEW size \in Nat,
           NEW lo \in Nat, NEW s, s.next \in lo + 1..size, Makes(lo, s, Good, K),
           NEW c, Whole(c, s.next, size, Good, K)
    PROVE  Whole(s.part \o c, lo, size, Good, K)
<1>1. PICK next \in lo + 1..size : next = s.next
  OBVIOUS
<1>2. /\ c \in Seq(Good) /\ Len(c) \in Nat
      /\ \A i \in 1..Len(c) : next <= c[i].lo
      /\ \A i, j \in 1..Len(c) : i < j => c[i].hi <= c[j].lo
      /\ \A k \in K : next <= k /\ k < size => \E i \in 1..Len(c) : c[i].lo <= k /\ k < c[i].hi
  BY <1>1 DEF Whole
<1>3. \A i \in 1..Len(c) : c[i] \in Good /\ c[i].lo \in Nat /\ c[i].hi \in Nat
  BY <1>2 DEF Sliced
<1>4. CASE s.part = <<>> /\ \A k \in K : ~(lo <= k /\ k < s.next)
  <2>1. s.part \o c = c
    BY <1>2, <1>4
  <2>2. \A i \in 1..Len(c) : lo <= c[i].lo
    BY <1>2, <1>3
  <2>3. \A k \in K : lo <= k /\ k < size => \E i \in 1..Len(c) : c[i].lo <= k /\ k < c[i].hi
    BY <1>1, <1>2, <1>4
  <2> QED BY <1>2, <2>1, <2>2, <2>3 DEF Whole
<1>5. CASE \E p \in Good : /\ s.part = <<p>> /\ p.lo = lo /\ p.hi \in lo..s.next
                           /\ \A k \in K : lo <= k /\ k < s.next => k < p.hi
  <2>1. PICK p \in Good : /\ s.part = <<p>> /\ p.lo = lo /\ p.hi \in lo..next
                          /\ \A k \in K : lo <= k /\ k < next => k < p.hi
    BY <1>1, <1>5
  <2>2. PICK d : d = <<p>> \o c
    OBVIOUS
  <2>3. /\ d \in Seq(Good) /\ Len(d) = Len(c) + 1 /\ d[1] = p
        /\ \A i \in 1..Len(c) : d[i + 1] = c[i]
        /\ \A i \in 1..Len(d) : i = 1 \/ (i - 1 \in 1..Len(c) /\ d[i] = c[i - 1])
    BY <1>2, <2>2, InFront
  <2>4. ASSUME NEW i \in 1..Len(d) PROVE lo <= d[i].lo
    <3>1. CASE i = 1
      BY <2>1, <2>3, <3>1
    <3>2. CASE i # 1
      <4>1. i - 1 \in 1..Len(c) /\ d[i] = c[i - 1]
        BY <2>3, <3>2
      <4>2. next <= c[i - 1].lo /\ c[i - 1].lo \in Nat
        BY <1>2, <1>3, <4>1
      <4> QED BY <4>1, <4>2
    <3> QED BY <3>1, <3>2
  <2>5. ASSUME NEW i \in 1..Len(d), NEW j \in 1..Len(d), i < j PROVE d[i].hi <= d[j].lo
    <3>1. j # 1 /\ j - 1 \in 1..Len(c) /\ d[j] = c[j - 1]
      BY <2>3, <2>5
    <3>2. CASE i = 1
      <4>1. next <= c[j - 1].lo /\ c[j - 1].lo \in Nat
        BY <1>2, <1>3, <3>1
      <4>2. d[i].hi \in lo..next
        BY <2>1, <2>3, <3>2
      <4> QED BY <3>1, <4>1, <4>2
    <3>3. CASE i # 1
      <4>1. i - 1 \in 1..Len(c) /\ d[i] = c[i - 1]
        BY <2>3, <3>3
      <4>2. i - 1 < j - 1
        BY <2>5
      <4>3. c[i - 1].hi <= c[j - 1].lo
        BY <1>2, <3>1, <4>1, <4>2
      <4> QED BY <3>1, <4>1, <4>3
    <3> QED BY <3>2, <3>3
  <2>6. ASSUME NEW k \in K, lo <= k, k < size
        PROVE  \E i \in 1..Len(d) : d[i].lo <= k /\ k < d[i].hi
    <3>1. CASE k < next
      <4>1. 1 \in 1..Len(d) /\ d[1].lo <= k /\ k < d[1].hi
        BY <1>2, <2>1, <2>3, <2>6, <3>1
      <4> QED BY <4>1
    <3>2. CASE ~(k < next)
      <4>0. next <= k
        BY <3>2
      <4>1. PICK i \in 1..Len(c) : c[i].lo <= k /\ k < c[i].hi
        BY <1>2, <2>6, <4>0, Zenon
      <4>2. i + 1 \in 1..Len(d) /\ d[i + 1] = c[i]
        BY <1>2, <2>3
      <4> QED BY <4>1, <4>2
    <3> QED BY <3>1, <3>2
  <2>7. Whole(d, lo, size, Good, K)
    BY <2>3, <2>4, <2>5, <2>6 DEF Whole
  <2> QED BY <2>1, <2>2, <2>7
<1> QED BY <1>4, <1>5 DEF Makes

AllMake(size, step, Good, K) == \A lo \in 0..size - 1 : Makes(lo, step[lo], Good, K)

\* If every step makes what it should, what is cut is whole.
LEMMA CutIsWhole ==
    ASSUME NEW size \in Nat, NEW step, LeadsOn(size, step),
           NEW Good, Sliced(Good), NEW K \in SUBSET Nat,
           AllMake(size, step, Good, K)
    PROVE  \A lo \in 0..size : Whole(Cut(size, lo, step), lo, size, Good, K)
<1> DEFINE S == {d \in 0..size : ~Whole(Cut(size, size - d, step), size - d, size, Good, K)}
<1>1. S = {}
  <2> SUFFICES ASSUME S # {} PROVE FALSE
    OBVIOUS
  <2>1. S \in SUBSET Nat
    OBVIOUS
  <2>2. PICK d \in S : \A e \in S : d <= e
    BY <2>1, LeastExists
  <2>3. PICK lo : lo = size - d
    OBVIOUS
  <2>4. lo \in 0..size /\ ~Whole(Cut(size, lo, step), lo, size, Good, K)
    BY <2>2, <2>3
  <2>5. CASE d = 0
    <3>0. lo = size
      BY <2>3, <2>5
    <3>1. lo = size /\ Cut(size, lo, step) = <<>>
      BY <3>0, CutIs, Zenon
    <3>2. <<>> \in Seq(Good) /\ Len(<<>>) = 0 /\ \A k \in K : ~(size <= k /\ k < size)
      OBVIOUS
    <3>3. Whole(<<>>, size, size, Good, K)
      BY <3>2 DEF Whole
    <3> QED BY <2>4, <3>1, <3>3
  <2>6. CASE d # 0
    <3>1. lo \in 0..size - 1
      BY <2>2, <2>3, <2>6
    <3>2. PICK next \in lo + 1..size : next = step[lo].next
      BY <3>1 DEF LeadsOn
    <3>12. PICK e : e = size - next
      OBVIOUS
    <3>3. e \in 0..size /\ e < d /\ size - e = next
      BY <2>2, <2>3, <3>1, <3>2, <3>12
    <3>4. e \notin S
      <4>1. d \in Nat /\ e \in Nat /\ ~(d <= e)
        BY <2>2, <3>3
      <4>2. e \in S => d <= e
        BY <2>2, Zenon
      <4> QED BY <4>1, <4>2, Zenon
    <3>5. Whole(Cut(size, next, step), next, size, Good, K)
      BY <3>3, <3>4
    <3>6. Makes(lo, step[lo], Good, K)
      BY <3>1 DEF AllMake
    <3>9. PICK s : s = step[lo]
      OBVIOUS
    <3>10. PICK c : c = Cut(size, next, step)
      OBVIOUS
    <3>11. /\ lo \in Nat /\ s.next \in lo + 1..size
           /\ Makes(lo, s, Good, K) /\ Whole(c, s.next, size, Good, K)
      BY <3>1, <3>2, <3>5, <3>6, <3>9, <3>10
    <3>7. Whole(step[lo].part \o Cut(size, next, step), lo, size, Good, K)
      BY <3>9, <3>10, <3>11, WholeLonger
    <3>8. Cut(size, lo, step) = step[lo].part \o Cut(size, next, step)
      BY <3>1, <3>2, CutIs
    <3> QED BY <2>4, <3>7, <3>8
  <2> QED BY <2>5, <2>6
<1>2. ASSUME NEW lo \in 0..size PROVE Whole(Cut(size, lo, step), lo, size, Good, K)
  <2>1. PICK d : d = size - lo
    OBVIOUS
  <2>2. d \in 0..size /\ size - d = lo
    BY <2>1
  <2>3. d \notin S
    BY <1>1
  <2> QED BY <2>2, <2>3
<1> QED BY <1>2

\* Every step up to a either stays before a or makes a piece of Home.
Heads(step, a, Home) ==
    \A lo \in 0..a : step[lo].next <= a \/ \E p \in Home : step[lo].part = <<p>>

Meets(c, Home) == \E i \in 1..Len(c) : c[i] \in Home

\* Then there is such a piece.
LEMMA CutMeets ==
    ASSUME NEW size \in Nat, NEW step, LeadsOn(size, step),
           NEW Good, Sliced(Good), NEW K \in SUBSET Nat,
           AllMake(size, step, Good, K),
           NEW Home, NEW a \in 0..size - 1, Heads(step, a, Home \cap Good)
    PROVE  \A lo \in 0..a : Meets(Cut(size, lo, step), Home)
<1> DEFINE Met(c) == Meets(c, Home)
           S == {d \in 0..a : ~Met(Cut(size, a - d, step))}
<1>1. S = {}
  <2> SUFFICES ASSUME S # {} PROVE FALSE
    OBVIOUS
  <2>1. S \in SUBSET Nat
    OBVIOUS
  <2>2. PICK d \in S : \A e \in S : d <= e
    BY <2>1, LeastExists
  <2>3. PICK lo : lo = a - d
    OBVIOUS
  <2>4. lo \in 0..a /\ lo \in 0..size - 1 /\ ~Met(Cut(size, lo, step))
    BY <2>2, <2>3
  <2>5. PICK next \in lo + 1..size : next = step[lo].next
    BY <2>4 DEF LeadsOn
  <2>6. PICK c : c = Cut(size, next, step)
    OBVIOUS
  <2>11. next \in 0..size
    BY <2>4, <2>5
  <2>12. Whole(c, next, size, Good, K)
    BY <2>6, <2>11, CutIsWhole
  <2>7. c \in Seq(Good)
    BY <2>12 DEF Whole
  <2>8. Cut(size, lo, step) = step[lo].part \o c
    BY <2>4, <2>5, <2>6, CutIs
  <2>9. CASE next <= a
    <3>0. PICK e : e = a - next
      OBVIOUS
    <3>1. e \in 0..a /\ e < d /\ a - e = next
      <4>1. d \in 0..a /\ next \in Nat
        BY <2>2, <2>4, <2>5
      <4>2. lo < next /\ lo \in Nat
        BY <2>4, <2>5
      <4> QED BY <2>3, <2>9, <3>0, <4>1, <4>2
    <3>2. e \notin S
      <4>1. d \in Nat /\ e \in Nat /\ ~(d <= e)
        BY <2>2, <3>1
      <4>2. e \in S => d <= e
        BY <2>2, Zenon
      <4> QED BY <4>1, <4>2, Zenon
    <3>3. Met(c)
      BY <2>6, <3>1, <3>2
    <3>4. PICK i \in 1..Len(c) : c[i] \in Home
      BY <3>3 DEF Meets
    <3>5. CASE step[lo].part = <<>>
      <4>1. step[lo].part \o c = c
        BY <2>7, <3>5
      <4> QED BY <2>4, <2>8, <3>3, <4>1
    <3>6. CASE \E p \in Good : step[lo].part = <<p>>
      <4>1. PICK p \in Good : step[lo].part = <<p>>
        BY <3>6
      <4>2. PICK g : g = <<p>> \o c
        OBVIOUS
      <4>3. Len(g) = Len(c) + 1 /\ Len(c) \in Nat /\ \A j \in 1..Len(c) : g[j + 1] = c[j]
        BY <2>7, <4>2, InFront
      <4>4. i + 1 \in 1..Len(g) /\ g[i + 1] \in Home
        BY <3>4, <4>3
      <4>5. Met(g)
        BY <4>4 DEF Meets
      <4> QED BY <2>4, <2>8, <4>1, <4>2, <4>5
    <3>7. Makes(lo, step[lo], Good, K)
      BY <2>4 DEF AllMake
    <3> QED BY <3>5, <3>6, <3>7 DEF Makes
  <2>10. CASE ~(next <= a)
    <3>1. PICK p \in Home \cap Good : step[lo].part = <<p>>
      BY <2>4, <2>5, <2>10 DEF Heads
    <3>2. PICK e : e = <<p>> \o c
      OBVIOUS
    <3>3. Len(e) = Len(c) + 1 /\ Len(c) \in Nat /\ e[1] = p
      BY <2>7, <3>1, <3>2, InFront
    <3>4. 1 \in 1..Len(e) /\ e[1] \in Home
      BY <3>1, <3>3
    <3>5. Met(e)
      BY <3>4 DEF Meets
    <3> QED BY <2>4, <2>8, <3>1, <3>2, <3>5
  <2> QED BY <2>9, <2>10
<1>2. ASSUME NEW lo \in 0..a PROVE Met(Cut(size, lo, step))
  <2>1. PICK d : d = a - lo
    OBVIOUS
  <2>2. d \in 0..a /\ a - d = lo
    BY <2>1
  <2>3. d \notin S
    BY <1>1
  <2> QED BY <2>2, <2>3
<1> QED BY <1>2

-----------------------------------------------------------------------------
(* Segments                                                                *)

\* Mark m lies on the characters a..b-1.
Spans(t, m, a, b) == /\ a \in 0..Size(t) - 1 /\ b \in a + 1..Size(t)
                     /\ m.off = Units(t, 0, a) /\ m.off + m.len = Units(t, 0, b)

\* Segments of no more than so many units; those that are not plain lie within an entity.
GoodSegs(t, limit) ==
    {s \in [lo : Nat, hi : Nat, kind : MarkKinds \cup {"plain"}] :
        /\ s.lo < s.hi /\ s.hi <= Size(t) /\ Units(t, s.lo, s.hi) <= limit
        /\ s.kind # "plain" =>
              \E n \in t.marks : /\ n.kind = s.kind
                                 /\ n.off <= Units(t, 0, s.lo) /\ Units(t, 0, s.hi) <= n.off + n.len}

\* They cover the text, without overlap, and the plain links of no more than so many units
\* are among them.
Segmented(t, segs, limit) ==
    /\ segs \subseteq GoodSegs(t, limit)
    /\ \A k \in 0..Size(t) - 1 : \E s \in segs : s.lo <= k /\ k < s.hi
    /\ \A s, u \in segs : s = u \/ s.hi <= u.lo \/ u.hi <= s.lo
    /\ \A m \in t.marks : \A a, b \in 0..Size(t) :
          Plainly(t, m) /\ Spans(t, m, a, b) /\ m.len <= limit =>
              [lo |-> a, hi |-> b, kind |-> "link"] \in segs

\* An entity begins and ends at characters.
LEMMA MarkSpans ==
    ASSUME NEW t \in TextType, NEW m \in t.marks
    PROVE  /\ m.kind \in MarkKinds /\ m.off \in Nat /\ m.len \in Nat /\ m.len > 0
           /\ \E a, b \in 0..Size(t) : Spans(t, m, a, b)
<1>1. m \in [kind : MarkKinds, off : Nat, len : Nat \ {0}] /\ Size(t) \in Nat
  BY TextFacts
<1>2. m.kind \in MarkKinds /\ m.off \in Nat /\ m.len \in Nat /\ m.len > 0
  BY <1>1
<1>3. {m.off, m.off + m.len} \subseteq {Units(t, 0, k) : k \in 0..Size(t)}
  BY TextFacts
<1>4. PICK a \in 0..Size(t) : m.off = Units(t, 0, a)
  BY <1>3
<1>5. PICK b \in 0..Size(t) : m.off + m.len = Units(t, 0, b)
  BY <1>3
<1>6. a < b
  <2>1. b <= a => Units(t, 0, b) <= Units(t, 0, a)
    BY <1>1, UnitsInOrder
  <2> QED BY <1>1, <1>2, <1>4, <1>5, <2>1
<1>7. Spans(t, m, a, b)
  BY <1>1, <1>4, <1>5, <1>6 DEF Spans
<1> QED BY <1>2, <1>7

\* What is of use about the places and the units of an entity.
LEMMA SpansFacts ==
    ASSUME NEW t \in TextType, NEW m \in t.marks, NEW a, NEW b, Spans(t, m, a, b)
    PROVE  /\ a \in Nat /\ b \in Nat /\ a < b /\ b <= Size(t)
           /\ IndexUp(t, 0, m.off) = a /\ IndexUp(t, 0, m.off + m.len) = b
           /\ Units(t, a, b) = m.len
           /\ m.off + m.len <= Units(t, 0, Size(t))
<1>1. /\ a \in Nat /\ b \in Nat /\ a < b /\ b <= Size(t) /\ Size(t) \in Nat
      /\ m.off = Units(t, 0, a) /\ m.off + m.len = Units(t, 0, b)
  BY TextFacts DEF Spans
<1>2. IndexUp(t, 0, m.off) = a
  <2>1. 0 \in 0..Size(t) /\ a \in 0..Size(t)
    BY <1>1
  <2> QED BY <1>1, <2>1, IndexUpFinds
<1>3. IndexUp(t, 0, m.off + m.len) = b
  <2>1. 0 \in 0..Size(t) /\ b \in 0..Size(t)
    BY <1>1
  <2> QED BY <1>1, <2>1, IndexUpFinds
<1>4. Units(t, 0, b) = Units(t, 0, a) + Units(t, a, b)
  BY <1>1, UnitsAdd
<1>5. Units(t, 0, a) \in Nat /\ Units(t, a, b) \in Nat
  BY <1>1, UnitsOfSlice
<1>6. Units(t, 0, b) <= Units(t, 0, Size(t))
  BY <1>1, UnitsInOrder
<1>7. m.len \in Nat
  BY MarkSpans
<1>8. Units(t, a, b) = m.len
  BY <1>1, <1>4, <1>5, <1>7
<1>9. m.off + m.len <= Units(t, 0, Size(t))
  BY <1>1, <1>6
<1> QED BY <1>1, <1>2, <1>3, <1>8, <1>9

\* Of entities there is one that no other is before.
LEMMA FirstOfMarks ==
    ASSUME NEW t \in TextType, NEW A \in SUBSET t.marks, A # {}
    PROVE  \E m \in A : \A n \in A : ~Earlier(n, m)
<1>1. \A m \in A : /\ m.off \in Nat /\ m.len \in Nat
                   /\ m.off + m.len <= Units(t, 0, Size(t))
  BY MarkSpans, SpansFacts
<1>2. Units(t, 0, Size(t)) \in Nat
  BY TextFacts, UnitsOfSlice
<1>3. PICK all \in Nat : all = Units(t, 0, Size(t))
  BY <1>2
<1> DEFINE O == {m.off : m \in A}
<1>4. O \in SUBSET Nat /\ O # {}
  BY <1>1
<1>5. PICK o \in O : \A q \in O : o <= q
  BY <1>4, LeastExists
<1> DEFINE D == {all - m.len : m \in {x \in A : x.off = o}}
<1>6. D \in SUBSET Nat /\ D # {}
  <2>1. ASSUME NEW m \in A PROVE all - m.len \in Nat
    BY <1>1, <1>3
  <2>2. \E m \in A : m.off = o
    BY <1>5
  <2> QED BY <2>1, <2>2
<1>7. PICK d \in D : \A e \in D : d <= e
  BY <1>6, LeastExists
<1>8. PICK m \in A : m.off = o /\ d = all - m.len
  BY <1>7
<1>9. ASSUME NEW n \in A, Earlier(n, m) PROVE FALSE
  <2>1. n.off < m.off \/ (n.off = m.off /\ n.len > m.len)
    BY <1>9 DEF Earlier
  <2>2. m.off <= n.off
    BY <1>5, <1>8
  <2>3. n.off = o => m.len >= n.len
    <3>1. n.off = o => all - n.len \in D
      OBVIOUS
    <3>2. n.off = o => d <= all - n.len
      BY <1>7, <3>1
    <3> QED BY <1>1, <1>3, <1>8, <3>2
  <2>4. n.off \in Nat /\ m.off \in Nat /\ n.len \in Nat /\ m.len \in Nat
    BY <1>1
  <2> QED BY <1>8, <2>1, <2>2, <2>3, <2>4
<1> QED BY <1>9

\* A segment leads on, and keeps together a plain link that is ahead.
LEMMA SegmentFromIs ==
    ASSUME NEW t \in TextType, NEW place \in 0..Size(t) - 1
    PROVE  LET s == SegmentFrom(t, place) IN
           /\ s \in GoodSegs(t, Units(t, 0, Size(t))) /\ s.lo = place /\ s.hi \in place + 1..Size(t)
           /\ \A m \in t.marks : \A a, b \in 0..Size(t) :
                 Plainly(t, m) /\ Spans(t, m, a, b) /\ place <= a =>
                     s.hi <= a \/ s = [lo |-> a, hi |-> b, kind |-> "link"]
<1> DEFINE Ok(s) == /\ s \in GoodSegs(t, Units(t, 0, Size(t))) /\ s.lo = place /\ s.hi \in place + 1..Size(t)
                    /\ \A m \in t.marks : \A a, b \in 0..Size(t) :
                          Plainly(t, m) /\ Spans(t, m, a, b) /\ place <= a =>
                              s.hi <= a \/ s = [lo |-> a, hi |-> b, kind |-> "link"]
<1>1. Size(t) \in Nat /\ place \in Nat
  BY TextFacts
<1>2. PICK ahead : ahead = Upcoming(t, place)
  OBVIOUS
<1>3. ASSUME NEW m \in t.marks, NEW a, NEW b, Spans(t, m, a, b) PROVE m \in ahead <=> place <= a
  <2>1. m.len > 0 /\ m.off + m.len <= Units(t, 0, Size(t)) /\ IndexUp(t, 0, m.off) = a /\ a \in Nat
    BY <1>3, MarkSpans, SpansFacts
  <2> QED BY <1>1, <1>2, <2>1 DEF Upcoming
<1>4. ASSUME NEW lo \in 0..Size(t), NEW hi \in 0..Size(t), lo < hi
      PROVE  Units(t, lo, hi) <= Units(t, 0, Size(t))
  <2>1. Units(t, 0, hi) = Units(t, 0, lo) + Units(t, lo, hi)
    BY <1>1, <1>4, UnitsAdd
  <2>2. Units(t, 0, hi) <= Units(t, 0, Size(t))
    BY <1>1, UnitsInOrder
  <2>3. Units(t, 0, lo) \in Nat /\ Units(t, lo, hi) \in Nat /\ Units(t, 0, Size(t)) \in Nat
    BY <1>1, <1>4, UnitsOfSlice
  <2> QED BY <2>1, <2>2, <2>3
<1>5. ASSUME NEW hi \in place + 1..Size(t),
             \A m \in t.marks : \A a, b \in 0..Size(t) :
                 Plainly(t, m) /\ Spans(t, m, a, b) /\ place <= a => hi <= a
      PROVE  Ok([lo |-> place, hi |-> hi, kind |-> "plain"])
  <2>1. PICK s : s = [lo |-> place, hi |-> hi, kind |-> "plain"]
    OBVIOUS
  <2>2. s.lo = place /\ s.hi = hi /\ s.kind = "plain" /\ hi \in 0..Size(t) /\ place \in 0..Size(t) /\ place < hi
    BY <1>1, <1>5, <2>1
  <2>3. Units(t, place, hi) <= Units(t, 0, Size(t))
    BY <1>4, <2>2
  <2>4. s \in [lo : Nat, hi : Nat, kind : MarkKinds \cup {"plain"}]
    BY <1>1, <2>1, <2>2
  <2>5. s \in GoodSegs(t, Units(t, 0, Size(t)))
    BY <2>2, <2>3, <2>4 DEF GoodSegs
  <2> QED BY <1>5, <2>1, <2>2, <2>5
<1>6. CASE ahead = {}
  <2>1. SegmentFrom(t, place) = [lo |-> place, hi |-> Size(t), kind |-> "plain"]
    BY <1>2, <1>6 DEF SegmentFrom
  <2>2. Size(t) \in place + 1..Size(t)
    BY <1>1
  <2>3. \A m \in t.marks : \A a, b \in 0..Size(t) :
            Plainly(t, m) /\ Spans(t, m, a, b) /\ place <= a => Size(t) <= a
    BY <1>3, <1>6, Zenon
  <2>4. Ok([lo |-> place, hi |-> Size(t), kind |-> "plain"])
    BY <1>5, <2>2, <2>3
  <2> QED BY <2>1, <2>4
<1>7. CASE ahead # {}
  <2>1. PICK x : x = CHOOSE m \in ahead : \A n \in ahead : ~Earlier(n, m)
    OBVIOUS
  <2>2. ahead \in SUBSET t.marks
    BY <1>2 DEF Upcoming
  <2>3. x \in ahead /\ x \in t.marks /\ \A n \in ahead : ~Earlier(n, x)
    BY <1>7, <2>1, <2>2, FirstOfMarks
  <2>4. PICK c, d : Spans(t, x, c, d)
    BY <2>3, MarkSpans
  <2>5. /\ c \in Nat /\ d \in Nat /\ c < d /\ d <= Size(t) /\ place <= c
        /\ IndexUp(t, 0, x.off) = c /\ IndexUp(t, 0, x.off + x.len) = d
    BY <1>3, <2>3, <2>4, SpansFacts
  <2>6. SegmentFrom(t, place) = IF c > place THEN [lo |-> place, hi |-> c, kind |-> "plain"]
                              ELSE [lo |-> place, hi |-> d, kind |-> x.kind]
    BY <1>2, <1>7, <2>1, <2>5 DEF SegmentFrom
  <2>7. ASSUME NEW m \in t.marks, NEW a \in 0..Size(t), NEW b \in 0..Size(t),
               Plainly(t, m), Spans(t, m, a, b), place <= a
        PROVE  c <= a /\ (m = x \/ d <= a)
    <3>1. m \in ahead
      BY <1>3, <2>7
    <3>2. ~(m.off < x.off)
      BY <2>3, <3>1 DEF Earlier
    <3>3. m.off \in Nat /\ x.off \in Nat /\ x.len \in Nat
      BY <2>3, MarkSpans
    <3>4. m.off = Units(t, 0, a) /\ x.off = Units(t, 0, c) /\ x.off + x.len = Units(t, 0, d)
      BY <2>4, <2>7 DEF Spans
    <3>5. Units(t, 0, c) <= Units(t, 0, a) => c <= a
      BY <1>1, <2>5, UnitsInOrder
    <3>6. Units(t, 0, d) <= Units(t, 0, a) => d <= a
      BY <1>1, <2>5, UnitsInOrder
    <3>7. m = x \/ m.off < x.off \/ x.off + x.len <= m.off
      BY <2>3, <2>7 DEF Plainly
    <3> QED BY <3>2, <3>3, <3>4, <3>5, <3>6, <3>7
  <2>8. CASE c > place
    <3>1. c \in place + 1..Size(t)
      BY <1>1, <2>5, <2>8
    <3>2. Ok([lo |-> place, hi |-> c, kind |-> "plain"])
      BY <1>5, <2>7, <3>1
    <3> QED BY <2>6, <2>8, <3>2
  <2>9. CASE ~(c > place)
    <3>1. PICK s : s = [lo |-> place, hi |-> d, kind |-> x.kind]
      OBVIOUS
    <3>2. c = place /\ s.lo = place /\ s.hi = d /\ s.kind = x.kind /\ d \in place + 1..Size(t)
      BY <1>1, <2>5, <2>9, <3>1
    <3>3. x.kind \in MarkKinds /\ x.off = Units(t, 0, place) /\ x.off + x.len = Units(t, 0, d)
      BY <2>3, <2>4, <3>2, MarkSpans DEF Spans
    <3>4. s \in [lo : Nat, hi : Nat, kind : MarkKinds \cup {"plain"}]
      BY <1>1, <2>5, <3>1, <3>3
    <3>5. place \in 0..Size(t) /\ d \in 0..Size(t) /\ place < d
      BY <1>1, <2>5, <3>2
    <3>6. Units(t, place, d) <= Units(t, 0, Size(t))
      BY <1>4, <3>5
    <3>7. Units(t, 0, place) <= Units(t, 0, place) /\ Units(t, 0, d) <= Units(t, 0, d)
      BY <1>1, <2>5, UnitsOfSlice
    <3>8. x.off <= Units(t, 0, s.lo) /\ Units(t, 0, s.hi) <= x.off + x.len
      BY <3>2, <3>3, <3>7
    <3>9. s \in GoodSegs(t, Units(t, 0, Size(t)))
      BY <2>3, <2>5, <3>2, <3>4, <3>5, <3>6, <3>8 DEF GoodSegs
    <3>10. ASSUME NEW m \in t.marks, NEW a \in 0..Size(t), NEW b \in 0..Size(t),
                  Plainly(t, m), Spans(t, m, a, b), place <= a
           PROVE  s.hi <= a \/ s = [lo |-> a, hi |-> b, kind |-> "link"]
      <4>1. CASE d <= a
        BY <3>2, <4>1
      <4>2. CASE m = x
        <5>1. m.kind = "link"
          BY <3>10 DEF Plainly
        <5>2. a = c /\ b = d
          BY <2>3, <2>4, <3>10, <4>2, SpansFacts
        <5> QED BY <3>1, <3>2, <4>2, <5>1, <5>2
      <4> QED BY <2>7, <3>10, <4>1, <4>2
    <3>11. Ok(s)
      BY <3>2, <3>9, <3>10
    <3> QED BY <2>6, <2>9, <3>1, <3>11
  <2> QED BY <2>8, <2>9
<1> QED BY <1>6, <1>7

\* What is cut whole covers the text without overlap.
LEMMA WholeCovers ==
    ASSUME NEW size \in Nat, NEW Good, Sliced(Good), NEW c, Whole(c, 0, size, Good, 0..size - 1)
    PROVE  /\ ToSet(c) \subseteq Good
           /\ \A k \in 0..size - 1 : \E s \in ToSet(c) : s.lo <= k /\ k < s.hi
           /\ \A s, u \in ToSet(c) : s = u \/ s.hi <= u.lo \/ u.hi <= s.lo
<1>1. /\ c \in Seq(Good)
      /\ \A i, j \in 1..Len(c) : i < j => c[i].hi <= c[j].lo
      /\ \A k \in 0..size - 1 : 0 <= k /\ k < size => \E i \in 1..Len(c) : c[i].lo <= k /\ k < c[i].hi
  BY Zenon DEF Whole
<1>6. Len(c) \in Nat /\ DOMAIN c = 1..Len(c)
  BY <1>1
<1>2. ToSet(c) = {c[i] : i \in 1..Len(c)}
  BY <1>6 DEF ToSet
<1>3. ToSet(c) \subseteq Good
  BY <1>1, <1>2
<1>4. ASSUME NEW k \in 0..size - 1 PROVE \E s \in ToSet(c) : s.lo <= k /\ k < s.hi
  <2>1. 0 <= k /\ k < size
    OBVIOUS
  <2>2. PICK i \in 1..Len(c) : c[i].lo <= k /\ k < c[i].hi
    BY <1>1, <2>1
  <2> QED BY <1>2, <2>2
<1>5. ASSUME NEW s \in ToSet(c), NEW u \in ToSet(c) PROVE s = u \/ s.hi <= u.lo \/ u.hi <= s.lo
  <2>1. PICK i \in 1..Len(c) : s = c[i]
    BY <1>2
  <2>2. PICK j \in 1..Len(c) : u = c[j]
    BY <1>2
  <2>3. i = j \/ i < j \/ j < i
    OBVIOUS
  <2> QED BY <1>1, <2>1, <2>2, <2>3
<1> QED BY <1>3, <1>4, <1>5

\* A segment is within its text, no longer than the limit.
LEMMA GoodSegsFacts ==
    ASSUME NEW t \in TextType, NEW limit, NEW s \in GoodSegs(t, limit)
    PROVE  /\ s.lo \in Nat /\ s.hi \in Nat /\ s.lo < s.hi /\ s.hi <= Size(t)
           /\ Units(t, s.lo, s.hi) <= limit /\ s.kind \in MarkKinds \cup {"plain"}
           /\ s = [lo |-> s.lo, hi |-> s.hi, kind |-> s.kind]
BY DEF GoodSegs

\* Segments are slices.
LEMMA GoodSegsSliced ==
    ASSUME NEW t \in TextType, NEW limit
    PROVE  Sliced(GoodSegs(t, limit))
BY GoodSegsFacts DEF Sliced

\* Segments that are cut one by one, each beginning where it is cut, make up the text.
LEMMA CutSegmented ==
    ASSUME NEW t \in TextType, NEW limit \in Nat, NEW step,
           \A lo \in 0..Size(t) - 1 :
               /\ step[lo].next \in lo + 1..Size(t)
               /\ \E s \in GoodSegs(t, limit) :
                     step[lo].part = <<s>> /\ s.lo = lo /\ s.hi = step[lo].next,
           \A m \in t.marks : \A a, b \in 0..Size(t) :
               Plainly(t, m) /\ Spans(t, m, a, b) /\ m.len <= limit =>
                   \A lo \in 0..a : \/ step[lo].next <= a
                                    \/ step[lo].part = <<[lo |-> a, hi |-> b, kind |-> "link"]>>
    PROVE  Segmented(t, ToSet(Cut(Size(t), 0, step)), limit)
<1> DEFINE N == Size(t)
           G == GoodSegs(t, limit)
           K == 0..N - 1
           c == Cut(N, 0, step)
<1>1. N \in Nat /\ K \in SUBSET Nat
  BY TextFacts
<1>2. LeadsOn(N, step)
  BY DEF LeadsOn
<1>3. Sliced(G)
  BY GoodSegsSliced
<1>4. ASSUME NEW lo \in 0..N - 1 PROVE Makes(lo, step[lo], G, K)
  <2>1. PICK s \in G : step[lo].part = <<s>> /\ s.lo = lo /\ s.hi = step[lo].next
    OBVIOUS
  <2>2. step[lo].next \in lo + 1..N
    OBVIOUS
  <2>3. s.hi \in lo..step[lo].next
    BY <1>1, <2>1, <2>2
  <2>4. \A k \in K : lo <= k /\ k < step[lo].next => k < s.hi
    BY <2>1
  <2> QED BY <2>1, <2>3, <2>4 DEF Makes
<1> HIDE DEF G, K
<1>11. AllMake(N, step, G, K)
  BY <1>4 DEF AllMake
<1>5. \A lo \in 0..N : Whole(Cut(N, lo, step), lo, N, G, K)
  BY <1>1, <1>2, <1>3, <1>11, CutIsWhole
<1>6. 0 \in 0..N
  BY <1>1
<1>7. Whole(c, 0, N, G, 0..N - 1)
  BY <1>5, <1>6 DEF K
<1>8. /\ ToSet(c) \subseteq G
      /\ \A k \in 0..N - 1 : \E s \in ToSet(c) : s.lo <= k /\ k < s.hi
      /\ \A s, u \in ToSet(c) : s = u \/ s.hi <= u.lo \/ u.hi <= s.lo
  BY <1>1, <1>3, <1>7, WholeCovers
<1>9. ASSUME NEW m \in t.marks, NEW a \in 0..N, NEW b \in 0..N,
             Plainly(t, m), Spans(t, m, a, b), m.len <= limit
      PROVE  [lo |-> a, hi |-> b, kind |-> "link"] \in ToSet(c)
  <2> DEFINE s == [lo |-> a, hi |-> b, kind |-> "link"]
             Home == {s}
  <2>1. a \in 0..N - 1
    BY <1>9 DEF Spans
  <2>2. ASSUME NEW lo \in 0..a
        PROVE  step[lo].next <= a \/ \E p \in Home \cap G : step[lo].part = <<p>>
    <3>1. lo \in 0..N - 1
      BY <1>1, <2>1
    <3>2. PICK u \in G : step[lo].part = <<u>>
      BY <3>1 DEF G
    <3>3. step[lo].next <= a \/ step[lo].part = <<s>>
      BY <1>9
    <3>4. <<u>> = <<s>> => u = s
      OBVIOUS
    <3> HIDE DEF s
    <3> QED BY <3>2, <3>3, <3>4
  <2> HIDE DEF Home, s
  <2>8. Heads(step, a, Home \cap G)
    BY <2>2 DEF Heads
  <2>3. \A lo \in 0..a : Meets(Cut(N, lo, step), Home)
    BY <1>1, <1>2, <1>3, <1>11, <2>1, <2>8, CutMeets
  <2>4. 0 \in 0..a
    BY <1>1, <2>1
  <2>5. PICK i \in 1..Len(c) : c[i] \in Home
    BY <2>3, <2>4 DEF Meets
  <2>6. c \in Seq(G)
    BY <1>7 DEF Whole
  <2>7. c[i] \in ToSet(c)
    BY <2>5, <2>6 DEF ToSet
  <2> QED BY <2>5, <2>7 DEF Home, s
<1> HIDE DEF c
<1>10. Segmented(t, ToSet(c), limit)
  BY <1>8, <1>9 DEF G, Segmented
<1> QED BY <1>10 DEF c

\* The segments of a text.
LEMMA SegmentsAre ==
    ASSUME NEW t \in TextType
    PROVE  Segmented(t, Segments(t), Units(t, 0, Size(t)))
<1> DEFINE step == [place \in 0..Size(t) - 1 |->
                       Step(<<SegmentFrom(t, place)>>, SegmentFrom(t, place).hi)]
<1>1. Units(t, 0, Size(t)) \in Nat /\ Size(t) \in Nat
  BY TextFacts, UnitsOfSlice
<1>2. ASSUME NEW place \in 0..Size(t) - 1
      PROVE  step[place].part = <<SegmentFrom(t, place)>> /\ step[place].next = SegmentFrom(t, place).hi
  BY DEF Step
<1> HIDE DEF step
<1>3. ASSUME NEW lo \in 0..Size(t) - 1
      PROVE  /\ step[lo].next \in lo + 1..Size(t)
             /\ \E s \in GoodSegs(t, Units(t, 0, Size(t))) :
                   step[lo].part = <<s>> /\ s.lo = lo /\ s.hi = step[lo].next
  BY <1>2, SegmentFromIs
<1>4. ASSUME NEW m \in t.marks, NEW a \in 0..Size(t), NEW b \in 0..Size(t),
             Plainly(t, m), Spans(t, m, a, b), NEW lo \in 0..a
      PROVE  \/ step[lo].next <= a
             \/ step[lo].part = <<[lo |-> a, hi |-> b, kind |-> "link"]>>
  <2>1. lo \in 0..Size(t) - 1 /\ lo <= a
    BY <1>1, <1>4 DEF Spans
  <2> QED BY <1>2, <1>4, <2>1, SegmentFromIs
<1>5. Segmented(t, ToSet(Cut(Size(t), 0, step)), Units(t, 0, Size(t)))
  BY <1>1, <1>3, <1>4, CutSegmented
<1> QED BY <1>5 DEF Segments, step

\* The segment at a place is the only one there.
LEMMA SegmentAtIs ==
    ASSUME NEW t \in TextType, NEW limit, NEW segs, Segmented(t, segs, limit), NEW lo \in 0..Size(t) - 1
    PROVE  LET s == SegmentAt(segs, lo) IN
           /\ s \in segs /\ s \in GoodSegs(t, limit) /\ s.lo <= lo /\ lo < s.hi
           /\ \A u \in segs : u = s \/ s.hi <= u.lo \/ u.hi <= s.lo
<1>1. \E s \in segs : s.lo <= lo /\ lo < s.hi
  BY DEF Segmented
<1>2. SegmentAt(segs, lo) \in segs /\ SegmentAt(segs, lo).lo <= lo /\ lo < SegmentAt(segs, lo).hi
  BY <1>1 DEF SegmentAt
<1> QED BY <1>2 DEF Segmented

\* Cut to a limit, the segments still make up the text, and no plain link is cut.
LEMMA ExpandedAre ==
    ASSUME NEW t \in TextType, NEW limit \in Nat, limit > 1
    PROVE  Segmented(t, Expanded(t, limit), limit)
<1> DEFINE all == Units(t, 0, Size(t))
           segs == Segments(t)
           at(lo) == SegmentAt(segs, lo)
           end(lo) == IndexDown(t, lo, at(lo).hi, limit)
           step == [lo \in 0..Size(t) - 1 |-> CutHard(at(lo), lo, end(lo))]
<1>1. Size(t) \in Nat /\ Segmented(t, segs, all)
  BY TextFacts, SegmentsAre
<1>2. ASSUME NEW lo \in 0..Size(t) - 1
      PROVE  step[lo].part = <<[lo |-> lo, hi |-> end(lo), kind |-> IF at(lo).kind = "emoji" THEN "plain" ELSE at(lo).kind]>>
             /\ step[lo].next = end(lo)
  BY DEF CutHard, Step
<1>3. Expanded(t, limit) = ToSet(Cut(Size(t), 0, step))
  BY DEF Expanded
<1> HIDE DEF all, segs, step
<1>4. ASSUME NEW lo \in 0..Size(t) - 1
      PROVE  /\ at(lo) \in segs /\ at(lo) \in GoodSegs(t, all) /\ at(lo).lo <= lo /\ lo < at(lo).hi
             /\ \A u \in segs : u = at(lo) \/ at(lo).hi <= u.lo \/ u.hi <= at(lo).lo
             /\ at(lo).lo \in Nat /\ at(lo).hi \in Nat /\ at(lo).hi <= Size(t)
             /\ end(lo) \in lo + 1..at(lo).hi /\ Units(t, lo, end(lo)) <= limit
             /\ Units(t, lo, at(lo).hi) <= limit => end(lo) = at(lo).hi
  <2>1. PICK s : s = at(lo)
    OBVIOUS
  <2>2. /\ s \in segs /\ s \in GoodSegs(t, all) /\ s.lo <= lo /\ lo < s.hi
        /\ \A u \in segs : u = s \/ s.hi <= u.lo \/ u.hi <= s.lo
    BY <1>1, <2>1, SegmentAtIs
  <2>3. s.lo \in Nat /\ s.hi \in Nat /\ s.hi <= Size(t)
    BY <2>2, GoodSegsFacts
  <2>4. PICK hi \in 0..Size(t) : hi = s.hi
    BY <1>1, <2>3
  <2>5. lo \in 0..hi - 1
    BY <2>2, <2>3, <2>4
  <2>6. LET k == IndexDown(t, lo, hi, limit) IN
        /\ k \in lo + 1..hi /\ Units(t, lo, k) <= limit
        /\ Units(t, lo, hi) <= limit => k = hi
    BY <2>4, <2>5, IndexDownIs
  <2> QED BY <2>1, <2>2, <2>3, <2>4, <2>6
<1>5. ASSUME NEW lo \in 0..Size(t) - 1
      PROVE  /\ step[lo].next \in lo + 1..Size(t)
             /\ \E s \in GoodSegs(t, limit) :
                   step[lo].part = <<s>> /\ s.lo = lo /\ s.hi = step[lo].next
  <2>1. PICK u : u = at(lo)
    OBVIOUS
  <2>2. PICK k : k = end(lo)
    OBVIOUS
  <2>3. /\ u \in GoodSegs(t, all) /\ u.lo <= lo /\ u.lo \in Nat /\ u.hi \in Nat /\ u.hi <= Size(t)
        /\ k \in lo + 1..u.hi /\ Units(t, lo, k) <= limit
    BY <1>4, <2>1, <2>2
  <2>4. PICK s : s = [lo |-> lo, hi |-> k, kind |-> IF u.kind = "emoji" THEN "plain" ELSE u.kind]
    OBVIOUS
  <2>5. step[lo].part = <<s>> /\ step[lo].next = k
    BY <1>2, <2>1, <2>2, <2>4
  <2>6. /\ s.lo = lo /\ s.hi = k /\ s.kind = IF u.kind = "emoji" THEN "plain" ELSE u.kind
        /\ u.kind \in MarkKinds \cup {"plain"} /\ lo \in Nat /\ k \in Nat /\ lo < k /\ k <= u.hi
        /\ k \in lo + 1..Size(t)
    BY <1>1, <2>3, <2>4, GoodSegsFacts
  <2>7. s \in [lo : Nat, hi : Nat, kind : MarkKinds \cup {"plain"}]
    BY <2>4, <2>6
  <2>8. ASSUME s.kind # "plain"
        PROVE  \E n \in t.marks : /\ n.kind = s.kind
                                  /\ n.off <= Units(t, 0, s.lo) /\ Units(t, 0, s.hi) <= n.off + n.len
    <3>1. u.kind = s.kind /\ u.kind # "plain"
      BY <2>6, <2>8
    <3>2. PICK n \in t.marks : /\ n.kind = u.kind
                               /\ n.off <= Units(t, 0, u.lo) /\ Units(t, 0, u.hi) <= n.off + n.len
      BY <2>3, <3>1 DEF GoodSegs
    <3>3. Units(t, 0, u.lo) <= Units(t, 0, lo) /\ Units(t, 0, k) <= Units(t, 0, u.hi)
      BY <2>3, <2>6, UnitsInOrder
    <3>4. /\ Units(t, 0, u.lo) \in Nat /\ Units(t, 0, lo) \in Nat /\ Units(t, 0, k) \in Nat
          /\ Units(t, 0, u.hi) \in Nat
      BY <2>3, <2>6, UnitsOfSlice
    <3>5. n.off \in Nat /\ n.len \in Nat
      BY MarkSpans
    <3>6. n.off <= Units(t, 0, lo) /\ Units(t, 0, k) <= n.off + n.len
      BY <3>2, <3>3, <3>4, <3>5
    <3> QED BY <2>6, <3>1, <3>2, <3>6
  <2>9. s.lo < s.hi /\ s.hi <= Size(t) /\ Units(t, s.lo, s.hi) <= limit
    BY <1>1, <2>3, <2>6
  <2>10. s \in GoodSegs(t, limit)
    BY <2>7, <2>8, <2>9 DEF GoodSegs
  <2> QED BY <2>5, <2>6, <2>10
<1>6. ASSUME NEW m \in t.marks, NEW a \in 0..Size(t), NEW b \in 0..Size(t),
             Plainly(t, m), Spans(t, m, a, b), m.len <= limit, NEW lo \in 0..a
      PROVE  \/ step[lo].next <= a
             \/ step[lo].part = <<[lo |-> a, hi |-> b, kind |-> "link"]>>
  <2>1. /\ lo \in 0..Size(t) - 1 /\ lo <= a /\ a \in Nat /\ b \in Nat /\ a < b
        /\ m.len = Units(t, a, b) /\ lo \in Nat /\ m.len <= all
    <3>1. /\ a \in Nat /\ b \in Nat /\ a < b /\ b <= Size(t) /\ Units(t, a, b) = m.len
          /\ m.off + m.len <= Units(t, 0, Size(t)) /\ m.off \in Nat /\ m.len \in Nat
      BY <1>6, SpansFacts, MarkSpans
    <3> QED BY <1>1, <3>1, UnitsOfSlice DEF all
  <2>2. PICK s : s = [lo |-> a, hi |-> b, kind |-> "link"]
    OBVIOUS
  <2>3. s \in segs /\ s.lo = a /\ s.hi = b /\ s.kind = "link"
    BY <1>1, <1>6, <2>1, <2>2 DEF Segmented
  <2>4. PICK u : u = at(lo)
    OBVIOUS
  <2>5. PICK k : k = end(lo)
    OBVIOUS
  <2>6. /\ u = s \/ u.hi <= a \/ b <= u.lo
        /\ u.lo <= lo /\ u.lo \in Nat /\ u.hi \in Nat /\ k \in lo + 1..u.hi
        /\ Units(t, lo, u.hi) <= limit => k = u.hi
    BY <1>4, <2>1, <2>3, <2>4, <2>5
  <2>7. CASE u = s
    <3>1. lo = a /\ k = b
      BY <1>6, <2>1, <2>3, <2>6, <2>7
    <3>2. u.kind = "link" /\ u.kind # "emoji"
      BY <2>3, <2>7
    <3> QED BY <1>2, <2>1, <2>4, <2>5, <3>1, <3>2
  <2>8. CASE u.hi <= a
    <3>1. k <= a
      BY <2>1, <2>6, <2>8
    <3> QED BY <1>2, <2>1, <2>5, <3>1
  <2>9. CASE b <= u.lo
    BY <2>1, <2>6, <2>9
  <2> QED BY <2>6, <2>7, <2>8, <2>9
<1>7. Segmented(t, ToSet(Cut(Size(t), 0, step)), limit)
  BY <1>1, <1>5, <1>6, CutSegmented
<1> QED BY <1>3, <1>7

-----------------------------------------------------------------------------
(* Pieces                                                                  *)

\* A mark of a piece lies within it and within an entity of its kind.
Honest(t, p, m) ==
    /\ p.head <= m.off /\ m.off + m.len <= p.head + Units(t, p.lo, p.hi)
    /\ \E n \in t.marks : /\ n.kind = m.kind
                          /\ n.off <= Units(t, 0, p.lo) + m.off - p.head
                          /\ Units(t, 0, p.lo) + m.off - p.head + m.len <= n.off + n.len

Sounds(t) == {p \in PieceType : \A m \in p.marks : Honest(t, p, m)}

\* The pieces that have link m.
Homes(t, m) == {p \in PieceType : \E n \in p.marks :
                   n.kind = "link" /\ n.len = m.len /\ Units(t, 0, p.lo) + n.off - p.head = m.off}

\* A step from lo on loses nothing visible, and no plain link that is ahead.
GoodStep(t, lo, s) ==
    /\ s.next \in lo + 1..Size(t)
    /\ Makes(lo, s, Sounds(t), Visible(t))
    /\ \A m \in t.marks : \A a, b \in 0..Size(t) :
          Plainly(t, m) /\ Spans(t, m, a, b) /\ lo <= a =>
              s.next <= a \/ \E p \in Homes(t, m) \cap Sounds(t) : s.part = <<p>>

\* What has been taken apart from lo on.
Rendered(t, lo, c) ==
    /\ Whole(c, lo, Size(t), Sounds(t), Visible(t))
    /\ \A m \in t.marks : \A a, b \in 0..Size(t) :
          Plainly(t, m) /\ Spans(t, m, a, b) /\ lo <= a => Meets(c, Homes(t, m))

\* So are pieces.
LEMMA SoundsSliced ==
    ASSUME NEW t
    PROVE  Sliced(Sounds(t))
BY DEF Sounds, Sliced, PieceType

\* What is visible are places.
LEMMA VisibleIs ==
    ASSUME NEW t \in TextType
    PROVE  Visible(t) \in SUBSET Nat
BY TextFacts DEF Visible

\* Good steps make good pieces.
LEMMA StepsRender ==
    ASSUME NEW t \in TextType, NEW step,
           \A lo \in 0..Size(t) - 1 : GoodStep(t, lo, step[lo])
    PROVE  \A lo \in 0..Size(t) : Rendered(t, lo, Cut(Size(t), lo, step))
<1> DEFINE N == Size(t)
           G == Sounds(t)
           K == Visible(t)
<1>1. N \in Nat /\ K \in SUBSET Nat /\ Sliced(G)
  BY TextFacts, VisibleIs, SoundsSliced
<1>2. LeadsOn(N, step)
  BY DEF GoodStep, LeadsOn
<1>3. AllMake(N, step, G, K)
  BY DEF GoodStep, AllMake
<1> HIDE DEF G, K
<1>4. \A lo \in 0..N : Whole(Cut(N, lo, step), lo, N, G, K)
  BY <1>1, <1>2, <1>3, CutIsWhole
<1>5. ASSUME NEW m \in t.marks, NEW a \in 0..N, NEW b \in 0..N, Plainly(t, m), Spans(t, m, a, b),
             NEW lo \in 0..N, lo <= a
      PROVE  Meets(Cut(N, lo, step), Homes(t, m))
  <2> DEFINE Home == Homes(t, m)
  <2>1. a \in 0..N - 1
    BY <1>5 DEF Spans
  <2>2. ASSUME NEW i \in 0..a
        PROVE  step[i].next <= a \/ \E p \in Home \cap G : step[i].part = <<p>>
    <3>1. i \in 0..N - 1 /\ i <= a
      BY <1>1, <2>1
    <3>2. GoodStep(t, i, step[i])
      BY <3>1
    <3> QED BY <1>5, <3>1, <3>2 DEF GoodStep, G
  <2> HIDE DEF Home
  <2>3. Heads(step, a, Home \cap G)
    BY <2>2 DEF Heads
  <2>4. \A i \in 0..a : Meets(Cut(N, i, step), Home)
    BY <1>1, <1>2, <1>3, <2>1, <2>3, CutMeets
  <2>5. lo \in 0..a
    BY <1>1, <1>5, <2>1
  <2> QED BY <2>4, <2>5 DEF Home
<1>6. ASSUME NEW lo \in 0..N PROVE Rendered(t, lo, Cut(N, lo, step))
  BY <1>4, <1>5 DEF Rendered, G, K
<1> QED BY <1>6

\* The greatest of some places.
LEMMA MaxIs ==
    ASSUME NEW n \in Nat, NEW S \in SUBSET (0..n), S # {}
    PROVE  Max(S) \in S /\ \A k \in S : k <= Max(S)
<1>1. PICK k \in S : \A j \in S : j <= k
  BY GreatestExists
<1>2. \A j \in S : k >= j
  BY <1>1
<1>3. Max(S) \in S /\ \A j \in S : Max(S) >= j
  BY <1>2 DEF Max
<1> QED BY <1>3

\* Pieces made of segments are sound; one that ends with a segment does not cut a plain link.
LEMMA PieceOfIs ==
    ASSUME NEW t \in TextType, NEW limit \in Nat, NEW segs, Segmented(t, segs, limit),
           \A m \in t.marks : Plainly(t, m) => m.len <= limit,
           NEW u \in segs, NEW hi, hi = u.hi, NEW lo \in 0..hi - 1, NEW head \in {0, HeaderLength}
    PROVE  LET p == PieceOf(t, segs, lo, hi, head) IN
           /\ p \in Sounds(t) /\ p.lo = lo /\ p.hi = hi
           /\ \A m \in t.marks : \A a, b \in 0..Size(t) :
                 Plainly(t, m) /\ Spans(t, m, a, b) /\ lo <= a => hi <= a \/ p \in Homes(t, m)
<1>1. PICK p : p = PieceOf(t, segs, lo, hi, head)
  OBVIOUS
<1> DEFINE In == {x \in segs : x.kind # "plain" /\ lo <= x.lo /\ x.hi <= hi}
           mark(s) == [kind |-> s.kind, off |-> head + Units(t, lo, s.lo), len |-> Units(t, s.lo, s.hi)]
<1>2. p = [lo |-> lo, hi |-> hi, head |-> head, marks |-> {mark(s) : s \in In}]
  BY <1>1 DEF PieceOf
<1>3. p.lo = lo /\ p.hi = hi /\ p.head = head /\ p.marks = {mark(s) : s \in In}
  BY <1>2
<1>4. /\ segs \subseteq GoodSegs(t, limit) /\ lo \in Nat /\ hi \in Nat /\ lo < hi /\ hi <= Size(t)
      /\ head \in Nat /\ Size(t) \in Nat
  BY GoodSegsFacts, TextFacts, TextsAssumption DEF Segmented
<1>5. ASSUME NEW s \in In
      PROVE  /\ s.lo \in Nat /\ s.hi \in Nat /\ s.lo < s.hi /\ s.kind \in MarkKinds
             /\ lo <= s.lo /\ s.hi <= hi /\ s \in GoodSegs(t, limit)
             /\ Units(t, lo, s.lo) \in Nat /\ Units(t, s.lo, s.hi) \in Nat
             /\ Units(t, 0, s.lo) = Units(t, 0, lo) + Units(t, lo, s.lo)
             /\ Units(t, 0, s.hi) = Units(t, 0, s.lo) + Units(t, s.lo, s.hi)
             /\ Units(t, lo, s.hi) = Units(t, lo, s.lo) + Units(t, s.lo, s.hi)
             /\ Units(t, lo, s.hi) <= Units(t, lo, hi)
             /\ Units(t, 0, lo) \in Nat /\ Units(t, lo, hi) \in Nat
  <2>1. /\ s \in GoodSegs(t, limit) /\ s.kind # "plain" /\ lo <= s.lo /\ s.hi <= hi
        /\ s.lo \in Nat /\ s.hi \in Nat /\ s.lo < s.hi /\ s.kind \in MarkKinds
    BY <1>4, GoodSegsFacts
  <2>2. /\ Units(t, lo, s.lo) \in Nat /\ Units(t, s.lo, s.hi) \in Nat
        /\ Units(t, 0, lo) \in Nat /\ Units(t, lo, hi) \in Nat
    BY <1>4, <2>1, UnitsOfSlice
  <2>3. Units(t, 0, s.lo) = Units(t, 0, lo) + Units(t, lo, s.lo)
    BY <1>4, <2>1, UnitsAdd
  <2>4. Units(t, 0, s.hi) = Units(t, 0, s.lo) + Units(t, s.lo, s.hi)
    BY <1>4, <2>1, UnitsAdd
  <2>5. Units(t, lo, s.hi) = Units(t, lo, s.lo) + Units(t, s.lo, s.hi)
    BY <1>4, <2>1, UnitsAdd
  <2>6. Units(t, lo, s.hi) <= Units(t, lo, hi)
    BY <1>4, <2>1, UnitsInOrder
  <2> QED BY <2>1, <2>2, <2>3, <2>4, <2>5, <2>6
<1>6. p \in PieceType
  <2>1. ASSUME NEW s \in In PROVE mark(s) \in [kind : MarkKinds, off : Nat, len : Nat]
    <3>1. s.kind \in MarkKinds /\ head + Units(t, lo, s.lo) \in Nat /\ Units(t, s.lo, s.hi) \in Nat
      BY <1>4, <1>5
    <3> QED BY <3>1
  <2>2. p.marks \subseteq [kind : MarkKinds, off : Nat, len : Nat]
    BY <1>3, <2>1
  <2> HIDE DEF In, mark
  <2> QED BY <1>2, <1>3, <1>4, <2>2 DEF PieceType
<1>7. ASSUME NEW m \in p.marks PROVE Honest(t, p, m)
  <2>1. PICK s \in In : m = mark(s)
    BY <1>3, <1>7
  <2>2. m.kind = s.kind /\ m.off = head + Units(t, lo, s.lo) /\ m.len = Units(t, s.lo, s.hi)
    BY <2>1
  <2>3. s.kind # "plain"
    OBVIOUS
  <2>4. PICK n \in t.marks : /\ n.kind = s.kind
                             /\ n.off <= Units(t, 0, s.lo) /\ Units(t, 0, s.hi) <= n.off + n.len
    BY <1>5, <2>3 DEF GoodSegs
  <2>5. p.head <= m.off /\ m.off + m.len <= p.head + Units(t, p.lo, p.hi)
    BY <1>3, <1>4, <1>5, <2>2
  <2>6. Units(t, 0, p.lo) + m.off - p.head = Units(t, 0, s.lo)
    BY <1>3, <1>4, <1>5, <2>2
  <2>7. Units(t, 0, p.lo) + m.off - p.head + m.len = Units(t, 0, s.hi)
    BY <1>5, <2>2, <2>6
  <2> QED BY <2>2, <2>4, <2>5, <2>6, <2>7 DEF Honest
<1>8. p \in Sounds(t)
  BY <1>6, <1>7 DEF Sounds
<1>9. ASSUME NEW m \in t.marks, NEW a \in 0..Size(t), NEW b \in 0..Size(t),
             Plainly(t, m), Spans(t, m, a, b), lo <= a
      PROVE  hi <= a \/ p \in Homes(t, m)
  <2>1. PICK s : s = [lo |-> a, hi |-> b, kind |-> "link"]
    OBVIOUS
  <2>2. s \in segs /\ s.lo = a /\ s.hi = b /\ s.kind = "link"
    BY <1>9, <2>1 DEF Segmented
  <2>3. s = u \/ s.hi <= u.lo \/ u.hi <= s.lo
    BY <2>2 DEF Segmented
  <2>4. u.lo \in Nat /\ u.lo < u.hi
    BY <1>4, GoodSegsFacts
  <2>5. hi <= a \/ b <= hi
    BY <1>4, <2>2, <2>3, <2>4
  <2>6. ASSUME b <= hi PROVE p \in Homes(t, m)
    <3>1. s \in In
      BY <1>9, <2>2, <2>6
    <3>2. PICK n : n = mark(s)
      OBVIOUS
    <3>3. n \in p.marks
      BY <1>3, <3>1, <3>2
    <3>4. n.kind = "link" /\ n.off = head + Units(t, lo, a) /\ n.len = Units(t, a, b)
      BY <2>2, <3>2
    <3>5. m.len = Units(t, a, b) /\ m.off = Units(t, 0, a) /\ m.off \in Nat
      BY <1>9, SpansFacts, MarkSpans DEF Spans
    <3>6. Units(t, 0, a) = Units(t, 0, lo) + Units(t, lo, a) /\ Units(t, 0, lo) \in Nat /\ Units(t, lo, a) \in Nat
      BY <1>5, <2>2, <3>1
    <3>7. Units(t, 0, p.lo) + n.off - p.head = m.off
      BY <1>3, <1>4, <3>4, <3>5, <3>6
    <3> QED BY <1>6, <3>3, <3>4, <3>5, <3>7 DEF Homes
  <2> QED BY <2>5, <2>6
<1> QED BY <1>1, <1>3, <1>8, <1>9

\* The ends of the segments that fit are places behind lo.
LEMMA FittingIs ==
    ASSUME NEW t \in TextType, NEW limit \in Nat, NEW segs, Segmented(t, segs, limit),
           NEW lo \in 0..Size(t) - 1, NEW head, NEW most
    PROVE  LET ends == Fitting(t, segs, lo, head, most) IN
           /\ ends \in SUBSET (0..Size(t))
           /\ \A k \in ends : lo < k /\ \E u \in segs : k = u.hi
<1>1. segs \subseteq GoodSegs(t, limit)
  BY DEF Segmented
<1>2. ASSUME NEW k \in Fitting(t, segs, lo, head, most)
      PROVE  k \in 0..Size(t) /\ lo < k /\ \E u \in segs : k = u.hi
  <2>1. PICK u \in segs : k = u.hi /\ u.hi > lo
    BY <1>2 DEF Fitting
  <2>2. u.hi \in Nat /\ u.hi <= Size(t) /\ Size(t) \in Nat
    BY <1>1, GoodSegsFacts, TextFacts
  <2> QED BY <2>1, <2>2
<1> QED BY <1>2

\* A step that fills a piece with segments.
LEMMA FillIs ==
    ASSUME NEW t \in TextType, NEW limit \in Nat, NEW segs, Segmented(t, segs, limit),
           \A m \in t.marks : Plainly(t, m) => m.len <= limit,
           NEW lo \in 0..Size(t) - 1, NEW head \in {0, HeaderLength}
    PROVE  GoodStep(t, lo, Fill(t, segs, lo, head))
<1>1. PICK ends : ends = Fitting(t, segs, lo, head, MessageLimit)
  OBVIOUS
<1>2. PICK hi : hi = IF ends = {} THEN SegmentAt(segs, lo).hi ELSE Max(ends)
  OBVIOUS
<1>3. PICK p : p = PieceOf(t, segs, lo, hi, head)
  OBVIOUS
<1>4. PICK s : s = Fill(t, segs, lo, head)
  OBVIOUS
<1>5. s.part = <<p>> /\ s.next = hi
  BY <1>1, <1>2, <1>3, <1>4 DEF Fill, Step
<1>6. \E u \in segs : hi = u.hi /\ lo < hi
  <2>1. CASE ends = {}
    <3>1. SegmentAt(segs, lo) \in segs /\ lo < SegmentAt(segs, lo).hi
      BY SegmentAtIs
    <3> QED BY <1>2, <2>1, <3>1
  <2>2. CASE ends # {}
    <3>1. ends \in SUBSET (0..Size(t)) /\ \A k \in ends : lo < k /\ \E u \in segs : k = u.hi
      BY <1>1, FittingIs
    <3>2. Max(ends) \in ends
      BY <2>2, <3>1, TextFacts, MaxIs
    <3> QED BY <1>2, <2>2, <3>1, <3>2
  <2> QED BY <2>1, <2>2
<1>7. PICK u \in segs : hi = u.hi /\ lo < hi
  BY <1>6
<1>8. hi \in Nat /\ hi <= Size(t) /\ Size(t) \in Nat /\ lo \in Nat
  BY <1>7, GoodSegsFacts, TextFacts DEF Segmented
<1>9. lo \in 0..hi - 1
  BY <1>7, <1>8
<1>10. /\ p \in Sounds(t) /\ p.lo = lo /\ p.hi = hi
       /\ \A m \in t.marks : \A a, b \in 0..Size(t) :
             Plainly(t, m) /\ Spans(t, m, a, b) /\ lo <= a => hi <= a \/ p \in Homes(t, m)
  BY <1>3, <1>7, <1>9, PieceOfIs
<1>11. s.next \in lo + 1..Size(t)
  BY <1>5, <1>7, <1>8
<1>12. Makes(lo, s, Sounds(t), Visible(t))
  <2>1. p.hi \in lo..s.next
    BY <1>5, <1>7, <1>8, <1>10
  <2>2. \A k \in Visible(t) : lo <= k /\ k < s.next => k < p.hi
    BY <1>5, <1>10
  <2> QED BY <1>5, <1>10, <2>1, <2>2 DEF Makes
<1>13. \A m \in t.marks : \A a, b \in 0..Size(t) :
          Plainly(t, m) /\ Spans(t, m, a, b) /\ lo <= a =>
              s.next <= a \/ \E q \in Homes(t, m) \cap Sounds(t) : s.part = <<q>>
  BY <1>5, <1>10
<1>14. GoodStep(t, lo, s)
  BY <1>11, <1>12, <1>13 DEF GoodStep
<1> QED BY <1>4, <1>14

-----------------------------------------------------------------------------
(* The ways to render a text                                               *)

\* A plain link is not longer than any limit, nor than the text.
LEMMA PlainlyFits ==
    ASSUME NEW t \in TextType, NEW m \in t.marks, Plainly(t, m)
    PROVE  m.len <= CaptionLimit /\ m.len <= MessageLimit /\ m.len <= Units(t, 0, Size(t))
<1>1. \E a, b : Spans(t, m, a, b)
  BY MarkSpans
<1>2. m.off + m.len <= Units(t, 0, Size(t)) /\ m.off \in Nat /\ m.len \in Nat
  BY <1>1, SpansFacts, MarkSpans
<1>3. Units(t, 0, Size(t)) \in Nat
  BY TextFacts, UnitsOfSlice
<1> QED BY <1>2, <1>3 DEF Plainly

\* A piece without entities is sound.
LEMMA BareIs ==
    ASSUME NEW t, NEW lo \in Nat, NEW hi \in Nat, NEW head \in {0, HeaderLength}
    PROVE  [lo |-> lo, hi |-> hi, head |-> head, marks |-> {}] \in Sounds(t)
<1>1. PICK p : p = [lo |-> lo, hi |-> hi, head |-> head, marks |-> {}]
  OBVIOUS
<1>2. p.marks = {} /\ p \in PieceType
  BY <1>1, TextsAssumption DEF PieceType
<1> QED BY <1>1, <1>2 DEF Sounds

\* A plain segment is cut at words: what is left out is blank, and no link is near.
LEMMA CutWordsIs ==
    ASSUME NEW t \in TextType, NEW segs, Segmented(t, segs, Units(t, 0, Size(t))),
           NEW lo \in 0..Size(t) - 1, SegmentAt(segs, lo).kind = "plain"
    PROVE  GoodStep(t, lo, CutWords(t, lo, SegmentAt(segs, lo).hi))
<1>1. PICK u : u = SegmentAt(segs, lo)
  OBVIOUS
<1>2. /\ u \in segs /\ u \in GoodSegs(t, Units(t, 0, Size(t))) /\ u.lo <= lo /\ lo < u.hi
      /\ \A s \in segs : s = u \/ u.hi <= s.lo \/ s.hi <= u.lo
      /\ u.kind = "plain"
  BY <1>1, SegmentAtIs
<1>3. PICK hi : hi = u.hi
  OBVIOUS
<1>4. hi \in Nat /\ hi <= Size(t) /\ Size(t) \in Nat /\ u.lo \in Nat /\ lo \in Nat /\ lo < hi
  BY <1>2, <1>3, GoodSegsFacts, TextFacts
<1>5. PICK k : k = WordCut(t, lo, hi)
  OBVIOUS
<1>6. k \in lo + 1..hi
  <2>1. hi \in 0..Size(t) /\ lo \in 0..hi - 1
    BY <1>4
  <2> QED BY <1>5, <2>1, WordCutIs
<1>7. k \in Nat /\ lo \in 0..k /\ k \in 0..hi
  BY <1>4, <1>6
<1>8. PICK end : end = StripRight(t, lo, k)
  OBVIOUS
<1>9. PICK next : next = StripLeft(t, k, hi)
  OBVIOUS
<1>10. end \in lo..k /\ \A j \in end..k - 1 : IsSpace(t, j)
  BY <1>7, <1>8, StripRightIs
<1>11. next \in k..hi /\ \A j \in k..next - 1 : IsSpace(t, j)
  BY <1>4, <1>7, <1>9, StripLeftIs
<1>12. PICK p : p = [lo |-> lo, hi |-> end, head |-> 0, marks |-> {}]
  OBVIOUS
<1>13. p \in Sounds(t) /\ p.lo = lo /\ p.hi = end
  <2>1. end \in Nat /\ lo \in Nat /\ 0 \in {0, HeaderLength}
    BY <1>4, <1>10
  <2>2. p \in Sounds(t)
    BY <1>12, <2>1, BareIs
  <2> QED BY <1>12, <2>2
<1>14. PICK s : s = CutWords(t, lo, hi)
  OBVIOUS
<1>15. s.part = (IF end = lo THEN <<>> ELSE <<p>>) /\ s.next = next
  BY <1>5, <1>8, <1>9, <1>12, <1>14 DEF CutWords, Step
<1>16. s.next \in lo + 1..Size(t) /\ end \in lo..s.next
  BY <1>4, <1>6, <1>10, <1>11, <1>15
<1>17. ASSUME NEW j \in Visible(t), lo <= j, j < s.next PROVE j < end
  <2>1. j \in Nat /\ ~IsSpace(t, j)
    BY <1>17, VisibleIs DEF Visible
  <2>2. ~(j \in end..k - 1) /\ ~(j \in k..next - 1)
    BY <1>10, <1>11, <2>1
  <2> QED BY <1>4, <1>7, <1>10, <1>11, <1>15, <1>17, <2>1, <2>2
<1>18. Makes(lo, s, Sounds(t), Visible(t))
  <2>1. CASE end = lo
    <3>1. \A j \in Visible(t) : ~(lo <= j /\ j < s.next)
      <4>1. ASSUME NEW j \in Visible(t), lo <= j, j < s.next PROVE FALSE
        <5>1. j < end /\ j \in Nat
          BY <1>17, <4>1, VisibleIs
        <5> QED BY <1>4, <2>1, <4>1, <5>1
      <4> QED BY <4>1
    <3> QED BY <1>15, <2>1, <3>1 DEF Makes
  <2>2. CASE end # lo
    <3>1. s.part = <<p>> /\ p.hi \in lo..s.next
      BY <1>13, <1>15, <1>16, <2>2
    <3>2. \A j \in Visible(t) : lo <= j /\ j < s.next => j < p.hi
      BY <1>13, <1>17
    <3> QED BY <1>13, <3>1, <3>2 DEF Makes
  <2> QED BY <2>1, <2>2
<1>19. ASSUME NEW m \in t.marks, NEW a \in 0..Size(t), NEW b \in 0..Size(t),
              Plainly(t, m), Spans(t, m, a, b), lo <= a
       PROVE  s.next <= a
  <2>1. PICK v : v = [lo |-> a, hi |-> b, kind |-> "link"]
    OBVIOUS
  <2>2. v \in segs /\ v.lo = a /\ v.hi = b /\ v.kind = "link"
    BY <1>19, <2>1, PlainlyFits DEF Segmented
  <2>3. hi <= a \/ b <= u.lo
    BY <1>2, <1>3, <2>2
  <2>4. a \in Nat /\ b \in Nat /\ a < b
    BY <1>19, SpansFacts
  <2> QED BY <1>2, <1>4, <1>11, <1>15, <1>19, <2>3, <2>4
<1>20. GoodStep(t, lo, s)
  BY <1>16, <1>18, <1>19 DEF GoodStep
<1> QED BY <1>1, <1>3, <1>14, <1>20

\* Text posts of private walks and of comments.
LEMMA RenderWordsIs ==
    ASSUME NEW t \in TextType
    PROVE  Rendered(t, 0, RenderWords(t))
<1> DEFINE segs == Segments(t)
           end(lo) == SegmentAt(segs, lo).hi
           long(lo) == SegmentAt(segs, lo).kind = "plain" /\ Units(t, lo, end(lo)) > MessageLimit
           step == [lo \in 0..Size(t) - 1 |->
                       IF long(lo) THEN CutWords(t, lo, end(lo)) ELSE Fill(t, segs, lo, 0)]
<1>1. Segmented(t, segs, Units(t, 0, Size(t))) /\ Size(t) \in Nat /\ Units(t, 0, Size(t)) \in Nat
  BY SegmentsAre, TextFacts, UnitsOfSlice
<1>2. RenderWords(t) = Cut(Size(t), 0, step)
  BY DEF RenderWords
<1>3. ASSUME NEW lo \in 0..Size(t) - 1
      PROVE  step[lo] = IF long(lo) THEN CutWords(t, lo, end(lo)) ELSE Fill(t, segs, lo, 0)
  OBVIOUS
<1> HIDE DEF segs, step
<1>4. ASSUME NEW lo \in 0..Size(t) - 1 PROVE GoodStep(t, lo, step[lo])
  <2>1. CASE long(lo)
    <3>1. SegmentAt(segs, lo).kind = "plain"
      BY <2>1
    <3>2. GoodStep(t, lo, CutWords(t, lo, end(lo)))
      BY <1>1, <3>1, CutWordsIs
    <3> QED BY <1>3, <2>1, <3>2
  <2>2. CASE ~long(lo)
    <3>1. \A m \in t.marks : Plainly(t, m) => m.len <= Units(t, 0, Size(t))
      BY PlainlyFits
    <3>2. GoodStep(t, lo, Fill(t, segs, lo, 0))
      BY <1>1, <3>1, FillIs
    <3> QED BY <1>3, <2>2, <3>2
  <2> QED BY <2>1, <2>2
<1>5. 0 \in 0..Size(t)
  BY <1>1
<1>6. Rendered(t, 0, Cut(Size(t), 0, step))
  BY <1>4, <1>5, StepsRender
<1> QED BY <1>2, <1>6

\* Text posts of topics.
LEMMA RenderSmartIs ==
    ASSUME NEW t \in TextType
    PROVE  Rendered(t, 0, RenderSmart(t))
<1> DEFINE segs == Expanded(t, MessageLimit)
           step == [lo \in 0..Size(t) - 1 |-> Fill(t, segs, lo, 0)]
<1>1. MessageLimit \in Nat /\ MessageLimit > 1 /\ Size(t) \in Nat
  BY TextsAssumption, TextFacts
<1>2. Segmented(t, segs, MessageLimit)
  BY <1>1, ExpandedAre
<1>3. RenderSmart(t) = Cut(Size(t), 0, step)
  BY DEF RenderSmart
<1>4. ASSUME NEW lo \in 0..Size(t) - 1 PROVE step[lo] = Fill(t, segs, lo, 0)
  OBVIOUS
<1> HIDE DEF segs, step
<1>5. ASSUME NEW lo \in 0..Size(t) - 1 PROVE GoodStep(t, lo, step[lo])
  <2>1. \A m \in t.marks : Plainly(t, m) => m.len <= MessageLimit
    BY PlainlyFits
  <2>2. GoodStep(t, lo, Fill(t, segs, lo, 0))
    BY <1>1, <1>2, <2>1, FillIs
  <2> QED BY <1>4, <2>2
<1>6. 0 \in 0..Size(t)
  BY <1>1
<1>7. Rendered(t, 0, Cut(Size(t), 0, step))
  BY <1>5, <1>6, StepsRender
<1> QED BY <1>3, <1>7

\* One more piece in front.
LEMMA RenderedOn ==
    ASSUME NEW t \in TextType, NEW lo \in 0..Size(t) - 1, NEW s, GoodStep(t, lo, s),
           NEW p, s.part = <<p>>, NEW c, Rendered(t, s.next, c)
    PROVE  Rendered(t, lo, <<p>> \o c)
<1>1. /\ Size(t) \in Nat /\ lo \in Nat /\ Visible(t) \in SUBSET Nat /\ Sliced(Sounds(t))
      /\ s.next \in lo + 1..Size(t) /\ Makes(lo, s, Sounds(t), Visible(t))
      /\ Whole(c, s.next, Size(t), Sounds(t), Visible(t))
  BY TextFacts, VisibleIs, SoundsSliced DEF GoodStep, Rendered
<1>2. Whole(<<p>> \o c, lo, Size(t), Sounds(t), Visible(t))
  BY <1>1, WholeLonger
<1>3. p \in Sounds(t)
  <2>1. <<p>> # <<>>
    OBVIOUS
  <2>2. \E q \in Sounds(t) : <<p>> = <<q>>
    BY <1>1, <2>1 DEF Makes
  <2> QED BY <2>2
<1>4. c \in Seq(Sounds(t))
  BY <1>1 DEF Whole
<1>5. PICK d : d = <<p>> \o c
  OBVIOUS
<1>6. /\ Len(d) = Len(c) + 1 /\ Len(c) \in Nat /\ d[1] = p
      /\ \A i \in 1..Len(c) : d[i + 1] = c[i]
  BY <1>3, <1>4, <1>5, InFront
<1>7. ASSUME NEW m \in t.marks, NEW a \in 0..Size(t), NEW b \in 0..Size(t),
             Plainly(t, m), Spans(t, m, a, b), lo <= a
      PROVE  Meets(d, Homes(t, m))
  <2>1. CASE s.next <= a
    <3>1. PICK i \in 1..Len(c) : c[i] \in Homes(t, m)
      BY <1>7, <2>1 DEF Rendered, Meets
    <3>2. i + 1 \in 1..Len(d) /\ d[i + 1] \in Homes(t, m)
      BY <1>6, <3>1
    <3> QED BY <3>2 DEF Meets
  <2>2. CASE ~(s.next <= a)
    <3>1. PICK q \in Homes(t, m) \cap Sounds(t) : s.part = <<q>>
      BY <1>7, <2>2 DEF GoodStep
    <3>2. q = p
      BY <3>1
    <3>3. 1 \in 1..Len(d) /\ d[1] \in Homes(t, m)
      BY <1>6, <3>1, <3>2
    <3> QED BY <3>3 DEF Meets
  <2> QED BY <2>1, <2>2
<1> QED BY <1>2, <1>5, <1>7 DEF Rendered

\* Captions of albums.
LEMMA SmartCaptionIs ==
    ASSUME NEW t \in TextType, Size(t) > 0
    PROVE  /\ Rendered(t, 0, SmartCaption(t))
           /\ \E p, c : SmartCaption(t) = <<p>> \o c
<1> DEFINE segs == Expanded(t, CaptionLimit)
           n    == Max(Fitting(t, segs, 0, 0, CaptionLimit))
           head(lo) == IF lo = n THEN HeaderLength ELSE 0
           step == [lo \in 0..Size(t) - 1 |-> Fill(t, segs, lo, head(lo))]
           p    == PieceOf(t, segs, 0, n, 0)
           s    == Step(<<p>>, n)
<1>1. CaptionLimit \in Nat /\ CaptionLimit > 1 /\ Size(t) \in Nat
  BY TextsAssumption, TextFacts
<1>2. Segmented(t, segs, CaptionLimit)
  BY <1>1, ExpandedAre
<1>3. SmartCaption(t) = <<p>> \o Cut(Size(t), n, step)
  BY DEF SmartCaption
<1>4. ASSUME NEW lo \in 0..Size(t) - 1 PROVE step[lo] = Fill(t, segs, lo, head(lo))
  OBVIOUS
<1>5. s.part = <<p>> /\ s.next = n
  BY DEF Step
<1> HIDE DEF segs, step, s
<1>6. n \in Fitting(t, segs, 0, 0, CaptionLimit)
  <2>1. 0 \in 0..Size(t) - 1
    BY <1>1
  <2>2. PICK u : u = SegmentAt(segs, 0)
    OBVIOUS
  <2>3. u \in segs /\ u \in GoodSegs(t, CaptionLimit) /\ u.lo <= 0 /\ 0 < u.hi
    BY <1>2, <2>1, <2>2, SegmentAtIs
  <2>4. u.lo = 0 /\ u.hi \in Nat /\ Units(t, u.lo, u.hi) <= CaptionLimit
    BY <2>3, GoodSegsFacts
  <2>5. Units(t, 0, u.hi) \in Nat
    BY <2>4, UnitsOfSlice
  <2>6. u.hi > 0 /\ 0 + Units(t, 0, u.hi) <= CaptionLimit
    BY <2>3, <2>4, <2>5
  <2>7. u.hi \in Fitting(t, segs, 0, 0, CaptionLimit)
    BY <2>3, <2>6 DEF Fitting
  <2>8. Fitting(t, segs, 0, 0, CaptionLimit) \in SUBSET (0..Size(t))
    BY <1>1, <1>2, <2>1, FittingIs
  <2> QED BY <1>1, <2>7, <2>8, MaxIs
<1>7. PICK hi : hi = n
  OBVIOUS
<1>8. \E u \in segs : hi = u.hi /\ 0 < hi /\ hi \in 0..Size(t)
  <2>1. 0 \in 0..Size(t) - 1
    BY <1>1
  <2> QED BY <1>1, <1>2, <1>6, <1>7, <2>1, FittingIs
<1>9. PICK u \in segs : hi = u.hi /\ 0 < hi /\ hi \in 0..Size(t)
  BY <1>8
<1>10. 0 \in 0..hi - 1 /\ hi \in Nat
  BY <1>1, <1>9
<1>11. PICK q : q = PieceOf(t, segs, 0, hi, 0)
  OBVIOUS
<1>12. \A m \in t.marks : Plainly(t, m) => m.len <= CaptionLimit
  BY PlainlyFits
<1>13. /\ q \in Sounds(t) /\ q.lo = 0 /\ q.hi = hi
       /\ \A m \in t.marks : \A a, b \in 0..Size(t) :
             Plainly(t, m) /\ Spans(t, m, a, b) /\ 0 <= a => hi <= a \/ q \in Homes(t, m)
  BY <1>1, <1>2, <1>9, <1>10, <1>11, <1>12, PieceOfIs
<1>14. s.part = <<q>> /\ s.next = hi
  BY <1>5, <1>7, <1>11
<1>15. GoodStep(t, 0, s)
  <2>1. s.next \in 0 + 1..Size(t)
    BY <1>1, <1>9, <1>14
  <2>2. q.hi \in 0..s.next /\ \A k \in Visible(t) : 0 <= k /\ k < s.next => k < q.hi
    BY <1>10, <1>13, <1>14
  <2>3. Makes(0, s, Sounds(t), Visible(t))
    BY <1>13, <1>14, <2>2 DEF Makes
  <2>4. \A m \in t.marks : \A a, b \in 0..Size(t) :
           Plainly(t, m) /\ Spans(t, m, a, b) /\ 0 <= a =>
               s.next <= a \/ \E r \in Homes(t, m) \cap Sounds(t) : s.part = <<r>>
    BY <1>13, <1>14
  <2> QED BY <2>1, <2>3, <2>4 DEF GoodStep
<1>16. ASSUME NEW lo \in 0..Size(t) - 1 PROVE GoodStep(t, lo, step[lo])
  <2>1. head(lo) \in {0, HeaderLength}
    OBVIOUS
  <2>2. GoodStep(t, lo, Fill(t, segs, lo, head(lo)))
    BY <1>1, <1>2, <1>12, <2>1, FillIs
  <2> QED BY <1>4, <2>2
<1>17. Rendered(t, hi, Cut(Size(t), hi, step))
  BY <1>9, <1>16, StepsRender
<1>18. 0 \in 0..Size(t) - 1
  BY <1>1
<1>19. Rendered(t, 0, <<q>> \o Cut(Size(t), hi, step))
  BY <1>14, <1>15, <1>17, <1>18, RenderedOn
<1> QED BY <1>3, <1>7, <1>11, <1>19

\* The plain slices.
LEMMA SlicesAre ==
    ASSUME NEW t \in TextType
    PROVE  /\ Whole(Slices(t), 0, Size(t), Sounds(t), Visible(t))
<1> DEFINE to(lo) == IF lo + MessageLimit < Size(t) THEN lo + MessageLimit ELSE Size(t)
           step == [lo \in 0..Size(t) - 1 |->
                       Step(<<[lo |-> lo, hi |-> to(lo), head |-> 0, marks |-> {}]>>, to(lo))]
<1>1. MessageLimit \in Nat /\ MessageLimit > 1 /\ Size(t) \in Nat
  BY TextsAssumption, TextFacts
<1>2. Slices(t) = Cut(Size(t), 0, step)
  BY DEF Slices
<1>3. ASSUME NEW lo \in 0..Size(t) - 1
      PROVE  /\ step[lo].part = <<[lo |-> lo, hi |-> to(lo), head |-> 0, marks |-> {}]>>
             /\ step[lo].next = to(lo)
  BY DEF Step
<1> HIDE DEF step
<1>4. ASSUME NEW lo \in 0..Size(t) - 1
      PROVE  step[lo].next \in lo + 1..Size(t) /\ Makes(lo, step[lo], Sounds(t), Visible(t))
  <2>1. PICK hi : hi = to(lo)
    OBVIOUS
  <2>2. hi \in lo + 1..Size(t) /\ lo \in Nat
    BY <1>1, <2>1
  <2>3. PICK p : p = [lo |-> lo, hi |-> hi, head |-> 0, marks |-> {}]
    OBVIOUS
  <2>4. p \in Sounds(t) /\ p.lo = lo /\ p.hi = hi
    <3>1. hi \in Nat /\ lo \in Nat /\ 0 \in {0, HeaderLength}
      BY <1>1, <2>2
    <3>2. p \in Sounds(t)
      BY <2>3, <3>1, BareIs
    <3> QED BY <2>3, <3>2
  <2>5. step[lo].part = <<p>> /\ step[lo].next = hi
    BY <1>3, <2>1, <2>3
  <2>6. p.hi \in lo..step[lo].next /\ \A k \in Visible(t) : lo <= k /\ k < step[lo].next => k < p.hi
    BY <2>2, <2>4, <2>5
  <2> QED BY <2>2, <2>4, <2>5, <2>6 DEF Makes
<1>5. LeadsOn(Size(t), step) /\ AllMake(Size(t), step, Sounds(t), Visible(t))
  BY <1>4 DEF LeadsOn, AllMake
<1>6. 0 \in 0..Size(t) /\ Sliced(Sounds(t)) /\ Visible(t) \in SUBSET Nat
  BY <1>1, SoundsSliced, VisibleIs
<1>7. Whole(Cut(Size(t), 0, step), 0, Size(t), Sounds(t), Visible(t))
  BY <1>1, <1>5, <1>6, CutIsWhole
<1> QED BY <1>2, <1>7

\* Behind the last separator, if there is one.
LEMMA AfterIs ==
    ASSUME NEW t \in TextType, NEW lo \in 0..Size(t) - 1, NEW limit \in Nat,
           NEW sep, Len(sep) \in Nat
    PROVE  LET k == Found(t, sep, lo, IndexUp(t, lo, limit))
           IN (IF k <= lo THEN 0 ELSE Units(t, lo, k + Len(sep))) \in Nat
<1>1. Size(t) \in Nat /\ lo \in Nat /\ lo \in 0..Size(t)
  BY TextFacts
<1>2. PICK hi : hi = IndexUp(t, lo, limit)
  OBVIOUS
<1>3. hi \in lo..Size(t)
  BY <1>1, <1>2, IndexUpIs
<1>4. hi \in Nat /\ lo \in 0..hi
  BY <1>1, <1>3
<1>5. PICK k : k = Found(t, sep, lo, hi)
  OBVIOUS
<1>6. k \in (lo..hi - Len(sep)) \cup {lo - 1}
  BY <1>4, <1>5, FoundIs
<1>7. ASSUME ~(k <= lo) PROVE Units(t, lo, k + Len(sep)) \in Nat
  <2>1. k + Len(sep) \in Nat /\ lo <= k + Len(sep)
    BY <1>1, <1>4, <1>6, <1>7
  <2> QED BY <1>1, <2>1, UnitsOfSlice
<1> QED BY <1>2, <1>5, <1>7

\* A caption is never cut inside of a plain link that is ahead.
LEMMA SafeSplitIs ==
    ASSUME NEW t \in TextType, NEW lo \in 0..Size(t) - 1, NEW limit \in Nat, limit > 1
    PROVE  LET u == SafeSplit(t, lo, limit) IN
           /\ u \in Nat /\ u > 0
           /\ \A m \in t.marks : \A a, b \in 0..Size(t) :
                 Plainly(t, m) /\ m.len <= limit /\ Spans(t, m, a, b) /\ lo <= a =>
                     u <= Units(t, lo, a) \/ Units(t, lo, b) <= u
<1> DEFINE links == LinksFrom(t, lo)
           across == {l \in links : l.from < limit /\ limit <= l.to}
           inside(u) == \E l \in links : l.from < u /\ u < l.to
           after(sep) == LET k == Found(t, sep, lo, IndexUp(t, lo, limit)) IN
                         IF k <= lo THEN 0 ELSE Units(t, lo, k + Len(sep))
           good(sep) == after(sep) >= limit \div 2 /\ after(sep) > 0 /\ ~inside(after(sep))
           l == CHOOSE x \in across : TRUE
           plainSplit == IF good(<<"line", "line">>) THEN after(<<"line", "line">>)
                         ELSE IF good(<<"line">>) THEN after(<<"line">>)
                         ELSE IF good(<<"blank">>) THEN after(<<"blank">>)
                         ELSE limit
<1>1. SafeSplit(t, lo, limit) = IF across # {}
                                THEN IF l.to = limit \/ l.from = 0 THEN limit ELSE l.from
                                ELSE plainSplit
  BY DEF SafeSplit
<1>2. Size(t) \in Nat /\ lo \in Nat
  BY TextFacts
<1>3. after(<<"line", "line">>) \in Nat /\ after(<<"line">>) \in Nat /\ after(<<"blank">>) \in Nat
  <2>1. Len(<<"line", "line">>) \in Nat /\ Len(<<"line">>) \in Nat /\ Len(<<"blank">>) \in Nat
    OBVIOUS
  <2> QED BY <2>1, AfterIs
<1>4. ASSUME NEW x \in links
      PROVE  /\ x.from \in Nat /\ x.to \in Nat
             /\ \E n \in t.marks : /\ n.kind = "link" /\ Units(t, 0, lo) <= n.off
                                   /\ x.from = n.off - Units(t, 0, lo)
                                   /\ x.to = n.off + n.len - Units(t, 0, lo)
  <2>1. PICK n \in t.marks : /\ n.kind = "link" /\ n.off >= Units(t, 0, lo)
                             /\ x = [from |-> n.off - Units(t, 0, lo), to |-> n.off + n.len - Units(t, 0, lo)]
    BY DEF LinksFrom
  <2>2. n.off \in Nat /\ n.len \in Nat /\ Units(t, 0, lo) \in Nat
    BY <1>2, MarkSpans, UnitsOfSlice
  <2>3. x.from = n.off - Units(t, 0, lo) /\ x.to = n.off + n.len - Units(t, 0, lo)
    BY <2>1
  <2>4. x.from \in Nat /\ x.to \in Nat /\ Units(t, 0, lo) <= n.off
    BY <2>1, <2>2, <2>3
  <2> QED BY <2>1, <2>3, <2>4
<1>5. ASSUME NEW m \in t.marks, NEW a \in 0..Size(t), NEW b \in 0..Size(t),
             Plainly(t, m), Spans(t, m, a, b), lo <= a
      PROVE  /\ [from |-> Units(t, lo, a), to |-> Units(t, lo, b)] \in links
             /\ Units(t, lo, a) \in Nat /\ Units(t, lo, b) \in Nat
             /\ Units(t, 0, lo) \in Nat /\ m.off \in Nat /\ m.len \in Nat
             /\ m.off = Units(t, 0, lo) + Units(t, lo, a)
             /\ m.off + m.len = Units(t, 0, lo) + Units(t, lo, b)
             /\ m.kind = "link"
  <2>1. /\ a \in Nat /\ b \in Nat /\ a < b /\ m.off = Units(t, 0, a) /\ m.off + m.len = Units(t, 0, b)
        /\ m.off \in Nat /\ m.len \in Nat /\ m.kind = "link"
    BY <1>5, SpansFacts, MarkSpans DEF Spans, Plainly
  <2>2. Units(t, lo, a) \in Nat /\ Units(t, lo, b) \in Nat /\ Units(t, 0, lo) \in Nat
    BY <1>2, <1>5, <2>1, UnitsOfSlice
  <2>3. Units(t, 0, a) = Units(t, 0, lo) + Units(t, lo, a)
    BY <1>2, <1>5, <2>1, UnitsAdd
  <2>4. Units(t, 0, b) = Units(t, 0, lo) + Units(t, lo, b)
    BY <1>2, <1>5, <2>1, UnitsAdd
  <2>5. Units(t, lo, a) = m.off - Units(t, 0, lo) /\ Units(t, lo, b) = m.off + m.len - Units(t, 0, lo)
        /\ m.off >= Units(t, 0, lo)
    BY <2>1, <2>2, <2>3, <2>4
  <2>6. [from |-> Units(t, lo, a), to |-> Units(t, lo, b)] \in links
    BY <2>1, <2>5 DEF LinksFrom
  <2> QED BY <2>1, <2>2, <2>3, <2>4, <2>6
<1> HIDE DEF links, after
<1>6. CASE across = {}
  <2>1. PICK u : u = plainSplit
    OBVIOUS
  <2>2. u \in Nat /\ u > 0 /\ (u = limit \/ ~inside(u))
    BY <1>3, <2>1
  <2>3. ASSUME NEW m \in t.marks, NEW a \in 0..Size(t), NEW b \in 0..Size(t),
               Plainly(t, m), m.len <= limit, Spans(t, m, a, b), lo <= a
        PROVE  u <= Units(t, lo, a) \/ Units(t, lo, b) <= u
    <3>1. PICK x : x = [from |-> Units(t, lo, a), to |-> Units(t, lo, b)]
      OBVIOUS
    <3>2. x \in links /\ x.from = Units(t, lo, a) /\ x.to = Units(t, lo, b)
          /\ Units(t, lo, a) \in Nat /\ Units(t, lo, b) \in Nat
      BY <1>5, <2>3, <3>1
    <3>3. ~(x.from < limit /\ limit <= x.to)
      BY <1>6, <3>2
    <3>4. inside(u) \/ ~(x.from < u /\ u < x.to)
      BY <3>2
    <3> HIDE DEF inside
    <3> QED BY <2>2, <3>2, <3>3, <3>4
  <2>4. SafeSplit(t, lo, limit) = u
    BY <1>1, <1>6, <2>1
  <2> QED BY <2>2, <2>3, <2>4
<1>7. CASE across # {}
  <2>1. PICK x : x = l
    OBVIOUS
  <2>2. x \in across
    BY <1>7, <2>1
  <2>3. x \in links /\ x.from < limit /\ limit <= x.to
    BY <2>2
  <2>4. PICK n \in t.marks : /\ n.kind = "link" /\ Units(t, 0, lo) <= n.off
                             /\ x.from = n.off - Units(t, 0, lo)
                             /\ x.to = n.off + n.len - Units(t, 0, lo)
    BY <1>4, <2>3
  <2>5. x.from \in Nat /\ x.to \in Nat /\ n.off \in Nat /\ n.len \in Nat
    BY <1>4, <2>3, MarkSpans
  <2>6. PICK u : u = IF x.to = limit \/ x.from = 0 THEN limit ELSE x.from
    OBVIOUS
  <2>7. u \in Nat /\ u > 0
    BY <2>5, <2>6
  <2>8. ASSUME NEW m \in t.marks, NEW a \in 0..Size(t), NEW b \in 0..Size(t),
               Plainly(t, m), m.len <= limit, Spans(t, m, a, b), lo <= a
        PROVE  u <= Units(t, lo, a) \/ Units(t, lo, b) <= u
    <3>1. /\ Units(t, lo, a) \in Nat /\ Units(t, lo, b) \in Nat
          /\ Units(t, 0, lo) \in Nat /\ m.off \in Nat /\ m.len \in Nat
          /\ m.off = Units(t, 0, lo) + Units(t, lo, a)
          /\ m.off + m.len = Units(t, 0, lo) + Units(t, lo, b)
          /\ m.kind = "link"
      BY <1>5, <2>8
    <3>2. m = n \/ m.off + m.len <= n.off \/ n.off + n.len <= m.off
      BY <2>4, <3>1, TextFacts
    <3>3. CASE m = n
      <4>1. x.from = Units(t, lo, a) /\ x.to = Units(t, lo, b) /\ x.to - x.from = m.len
        BY <2>4, <2>5, <3>1, <3>3
      <4> QED BY <2>3, <2>5, <2>6, <2>8, <3>1, <4>1
    <3>4. CASE m.off + m.len <= n.off
      <4>1. Units(t, lo, b) <= x.from
        BY <2>4, <2>5, <3>1, <3>4
      <4> QED BY <2>3, <2>5, <2>6, <3>1, <4>1
    <3>5. CASE n.off + n.len <= m.off
      <4>1. x.to <= Units(t, lo, a)
        BY <2>4, <2>5, <3>1, <3>5
      <4> QED BY <2>3, <2>5, <2>6, <3>1, <4>1
    <3> QED BY <3>2, <3>3, <3>4, <3>5
  <2>9. SafeSplit(t, lo, limit) = u
    BY <1>1, <1>7, <2>1, <2>6
  <2> QED BY <2>7, <2>8, <2>9
<1> QED BY <1>6, <1>7

\* The entities are rebuilt inside of the piece, and a link that is in it is whole.
LEMMA RebuiltIs ==
    ASSUME NEW t \in TextType, NEW hi \in 0..Size(t), NEW lo \in 0..hi, NEW head \in {0, HeaderLength}
    PROVE  LET p == [lo |-> lo, hi |-> hi, head |-> head, marks |-> Rebuilt(t, lo, hi, head)] IN
           /\ p \in Sounds(t)
           /\ \A m \in t.marks : \A a, b \in 0..Size(t) :
                 Plainly(t, m) /\ Spans(t, m, a, b) /\ lo <= a /\ b <= hi => p \in Homes(t, m)
<1>1. PICK from : from = Units(t, 0, lo)
  OBVIOUS
<1>2. PICK to : to = Units(t, 0, hi)
  OBVIOUS
<1> DEFINE kept == {m \in t.marks : /\ m.off + m.len > from /\ m.off < to
                                    /\ m.kind # "emoji"
                                    /\ m.kind = "link" => from <= m.off /\ m.off + m.len <= to}
           end(m) == IF m.off + m.len < to THEN m.off + m.len - from ELSE to - from
           off(m) == IF m.off > from THEN m.off - from ELSE 0
           mark(m) == [kind |-> m.kind, off |-> head + off(m), len |-> end(m) - off(m)]
<1>3. PICK p : p = [lo |-> lo, hi |-> hi, head |-> head, marks |-> Rebuilt(t, lo, hi, head)]
  OBVIOUS
<1>4. p.lo = lo /\ p.hi = hi /\ p.head = head /\ p.marks = {mark(m) : m \in kept}
  <2>1. Rebuilt(t, lo, hi, head) = {mark(m) : m \in kept}
    BY <1>1, <1>2 DEF Rebuilt, NewOffset
  <2> QED BY <1>3, <2>1
<1>5. /\ lo \in Nat /\ hi \in Nat /\ head \in Nat /\ lo <= hi /\ hi <= Size(t) /\ Size(t) \in Nat
  BY TextFacts, TextsAssumption
<1>6. from \in Nat /\ to \in Nat /\ Units(t, lo, hi) \in Nat /\ to = from + Units(t, lo, hi)
  BY <1>1, <1>2, <1>5, UnitsOfSlice, UnitsAdd
<1>7. ASSUME NEW m \in kept
      PROVE  /\ m \in t.marks /\ m.kind \in MarkKinds /\ m.off \in Nat /\ m.len \in Nat
             /\ m.off + m.len > from /\ m.off < to
             /\ off(m) \in Nat /\ end(m) - off(m) \in Nat
  <2>1. m \in t.marks /\ m.off + m.len > from /\ m.off < to
    OBVIOUS
  <2>2. m.kind \in MarkKinds /\ m.off \in Nat /\ m.len \in Nat
    BY <2>1, MarkSpans
  <2>3. off(m) \in Nat
    BY <1>6, <2>2
  <2>4. end(m) - off(m) \in Nat
    BY <1>6, <2>1, <2>2
  <2> QED BY <2>1, <2>2, <2>3, <2>4
<1>8. p \in PieceType
  <2>1. ASSUME NEW m \in kept PROVE mark(m) \in [kind : MarkKinds, off : Nat, len : Nat]
    <3>1. m.kind \in MarkKinds /\ head + off(m) \in Nat /\ end(m) - off(m) \in Nat
      BY <1>5, <1>7
    <3> QED BY <3>1
  <2>2. p.marks \subseteq [kind : MarkKinds, off : Nat, len : Nat]
    BY <1>4, <2>1
  <2>3. Rebuilt(t, lo, hi, head) \in SUBSET [kind : MarkKinds, off : Nat, len : Nat]
    BY <1>3, <2>2
  <2> QED BY <1>3, <1>5, <2>3 DEF PieceType
<1>9. ASSUME NEW n \in p.marks PROVE Honest(t, p, n)
  <2>1. PICK m \in kept : n = mark(m)
    BY <1>4, <1>9
  <2>2. n.kind = m.kind /\ n.off = head + off(m) /\ n.len = end(m) - off(m)
    BY <2>1
  <2>3. p.head <= n.off /\ n.off + n.len <= p.head + Units(t, p.lo, p.hi)
    <3>1. end(m) <= Units(t, lo, hi) /\ off(m) \in Nat
      BY <1>6, <1>7
    <3>2. end(m) \in Int
      BY <1>6, <1>7
    <3> HIDE DEF end, off
    <3> QED BY <1>4, <1>5, <1>6, <2>2, <3>1, <3>2
  <2>4. /\ m.off <= from + off(m)
        /\ from + end(m) <= m.off + m.len
        /\ off(m) \in Nat /\ end(m) \in Int
    BY <1>6, <1>7
  <2>5. /\ m.off <= Units(t, 0, p.lo) + n.off - p.head
        /\ Units(t, 0, p.lo) + n.off - p.head + n.len <= m.off + m.len
    <3>1. Units(t, 0, p.lo) = from /\ p.head = head
      BY <1>1, <1>4
    <3>2. m.off \in Nat /\ m.len \in Nat
      BY <1>7
    <3> HIDE DEF end, off
    <3> QED BY <1>5, <1>6, <2>2, <2>4, <3>1, <3>2
  <2> QED BY <1>7, <2>2, <2>3, <2>5 DEF Honest
<1>10. p \in Sounds(t)
  BY <1>8, <1>9 DEF Sounds
<1>11. ASSUME NEW m \in t.marks, NEW a \in 0..Size(t), NEW b \in 0..Size(t),
              Plainly(t, m), Spans(t, m, a, b), lo <= a, b <= hi
       PROVE  p \in Homes(t, m)
  <2>1. /\ a \in Nat /\ b \in Nat /\ a < b /\ m.off = Units(t, 0, a) /\ m.off + m.len = Units(t, 0, b)
        /\ m.off \in Nat /\ m.len \in Nat /\ m.len > 0 /\ m.kind = "link"
    BY <1>11, SpansFacts, MarkSpans DEF Spans, Plainly
  <2>2. from <= m.off /\ m.off + m.len <= to
    BY <1>1, <1>2, <1>5, <1>11, <2>1, UnitsInOrder
  <2>3. m \in kept
    BY <1>6, <2>1, <2>2
  <2>4. off(m) = m.off - from /\ end(m) = m.off + m.len - from
    BY <1>6, <2>1, <2>2
  <2>5. PICK n : n = mark(m)
    OBVIOUS
  <2>6. n \in p.marks
    BY <1>4, <2>3, <2>5
  <2>7. n.kind = "link" /\ n.off = head + (m.off - from) /\ n.len = end(m) - off(m)
    BY <2>1, <2>4, <2>5
  <2>8. n.len = m.len /\ Units(t, 0, p.lo) + n.off - p.head = m.off
    <3>1. Units(t, 0, p.lo) = from /\ p.head = head
      BY <1>1, <1>4
    <3> HIDE DEF end, off
    <3> QED BY <1>5, <1>6, <2>1, <2>4, <2>7, <3>1
  <2> QED BY <1>8, <2>6, <2>7, <2>8 DEF Homes
<1> QED BY <1>3, <1>10, <1>11

\* A step of split_caption: what is left out is blank, and no plain link is cut.
LEMMA CutCaptionIs ==
    ASSUME NEW t \in TextType, NEW lo \in 0..Size(t) - 1
    PROVE  GoodStep(t, lo, CutCaption(t, lo))
<1>1. PICK limit : limit = IF lo = 0 THEN CaptionLimit ELSE MessageLimit
  OBVIOUS
<1>2. PICK head : head = IF lo = 0 THEN 0 ELSE HeaderLength
  OBVIOUS
<1> DEFINE piece(hi) == [lo |-> lo, hi |-> hi, head |-> head, marks |-> Rebuilt(t, lo, hi, head)]
<1>3. PICK k : k = IndexUp(t, lo, SafeSplit(t, lo, limit))
  OBVIOUS
<1>4. PICK end : end = StripRight(t, lo, k)
  OBVIOUS
<1>5. PICK next : next = StripLeft(t, k, Size(t))
  OBVIOUS
<1>6. PICK s : s = CutCaption(t, lo)
  OBVIOUS
<1>7. s = IF Units(t, lo, Size(t)) <= limit THEN Step(<<piece(Size(t))>>, Size(t))
          ELSE Step(IF end = lo THEN <<>> ELSE <<piece(end)>>, next)
  BY <1>1, <1>2, <1>3, <1>4, <1>5, <1>6 DEF CutCaption
<1>8. /\ Size(t) \in Nat /\ lo \in Nat /\ lo < Size(t) /\ limit \in Nat /\ limit > 1
      /\ head \in {0, HeaderLength} /\ head \in Nat
  BY <1>1, <1>2, TextFacts, TextsAssumption
<1>9. ASSUME NEW m \in t.marks, Plainly(t, m) PROVE m.len <= limit
  BY <1>1, <1>9, PlainlyFits
<1>10. ASSUME NEW hi \in 0..Size(t), lo <= hi
       PROVE  /\ piece(hi) \in Sounds(t) /\ piece(hi).lo = lo /\ piece(hi).hi = hi
              /\ \A m \in t.marks : \A a, b \in 0..Size(t) :
                    Plainly(t, m) /\ Spans(t, m, a, b) /\ lo <= a /\ b <= hi => piece(hi) \in Homes(t, m)
  <2>1. lo \in 0..hi
    BY <1>8, <1>10
  <2> QED BY <1>8, <2>1, RebuiltIs
<1> HIDE DEF piece
<1>11. CASE Units(t, lo, Size(t)) <= limit
  <2>1. PICK p : p = piece(Size(t))
    OBVIOUS
  <2>2. s.part = <<p>> /\ s.next = Size(t)
    BY <1>7, <1>11, <2>1 DEF Step
  <2>3. /\ p \in Sounds(t) /\ p.lo = lo /\ p.hi = Size(t)
        /\ \A m \in t.marks : \A a, b \in 0..Size(t) :
              Plainly(t, m) /\ Spans(t, m, a, b) /\ lo <= a /\ b <= Size(t) => p \in Homes(t, m)
    BY <1>8, <1>10, <2>1
  <2>4. s.next \in lo + 1..Size(t) /\ p.hi \in lo..s.next
    BY <1>8, <2>2, <2>3
  <2>5. Makes(lo, s, Sounds(t), Visible(t))
    <3>1. \A j \in Visible(t) : lo <= j /\ j < s.next => j < p.hi
      BY <2>2, <2>3
    <3> QED BY <2>2, <2>3, <2>4, <3>1 DEF Makes
  <2>6. ASSUME NEW m \in t.marks, NEW a \in 0..Size(t), NEW b \in 0..Size(t),
               Plainly(t, m), Spans(t, m, a, b), lo <= a
        PROVE  \E q \in Homes(t, m) \cap Sounds(t) : s.part = <<q>>
    <3>1. b <= Size(t)
      BY <1>8
    <3>2. p \in Homes(t, m)
      BY <2>3, <2>6, <3>1
    <3> QED BY <2>2, <2>3, <3>2
  <2>7. GoodStep(t, lo, s)
    BY <2>4, <2>5, <2>6 DEF GoodStep
  <2> QED BY <1>6, <2>7
<1>12. CASE ~(Units(t, lo, Size(t)) <= limit)
  <2>1. PICK u : u = SafeSplit(t, lo, limit)
    OBVIOUS
  <2>2. /\ u \in Nat /\ u > 0
        /\ \A m \in t.marks : \A a, b \in 0..Size(t) :
              Plainly(t, m) /\ m.len <= limit /\ Spans(t, m, a, b) /\ lo <= a =>
                  u <= Units(t, lo, a) \/ Units(t, lo, b) <= u
    BY <1>8, <2>1, SafeSplitIs
  <2>3. lo \in 0..Size(t) /\ k = IndexUp(t, lo, u)
    BY <1>3, <1>8, <2>1
  <2>4. /\ k \in lo..Size(t)
        /\ u <= Units(t, lo, Size(t)) => u <= Units(t, lo, k)
        /\ \A j \in lo..k - 1 : Units(t, lo, j) < u
    BY <2>2, <2>3, IndexUpIs
  <2>5. k # lo
    <3>1. Units(t, lo, lo) = 0
      BY <1>8, UnitsOfNone
    <3>2. u <= Units(t, lo, Size(t)) \/ k = Size(t)
      <4>1. Units(t, lo, Size(t)) < u => IndexUp(t, lo, u) = Size(t)
        BY DEF IndexUp
      <4>2. Units(t, lo, Size(t)) \in Nat
        BY <1>8, UnitsOfSlice
      <4> QED BY <2>2, <2>3, <4>1, <4>2
    <3> QED BY <1>8, <2>2, <2>4, <3>1, <3>2
  <2>6. k \in Nat /\ lo < k /\ k <= Size(t) /\ lo \in 0..k /\ k \in 0..Size(t)
    BY <1>8, <2>4, <2>5
  <2>7. end \in lo..k /\ \A j \in end..k - 1 : IsSpace(t, j)
    BY <1>4, <2>6, StripRightIs
  <2>8. next \in k..Size(t) /\ \A j \in k..next - 1 : IsSpace(t, j)
    BY <1>5, <1>8, <2>6, StripLeftIs
  <2>9. PICK p : p = piece(end)
    OBVIOUS
  <2>10. s.part = (IF end = lo THEN <<>> ELSE <<p>>) /\ s.next = next
    BY <1>7, <1>12, <2>9 DEF Step
  <2>11. end \in 0..Size(t) /\ lo <= end /\ end \in Nat
    BY <1>8, <2>6, <2>7
  <2>12. /\ p \in Sounds(t) /\ p.lo = lo /\ p.hi = end
         /\ \A m \in t.marks : \A a, b \in 0..Size(t) :
               Plainly(t, m) /\ Spans(t, m, a, b) /\ lo <= a /\ b <= end => p \in Homes(t, m)
    BY <1>10, <2>9, <2>11
  <2>13. s.next \in lo + 1..Size(t) /\ end \in lo..s.next
    BY <1>8, <2>6, <2>7, <2>8, <2>10
  <2>14. ASSUME NEW j \in Visible(t), lo <= j, j < s.next PROVE j < end
    <3>1. j \in Nat /\ ~IsSpace(t, j)
      BY <2>14, VisibleIs DEF Visible
    <3>2. ~(j \in end..k - 1) /\ ~(j \in k..next - 1)
      BY <2>7, <2>8, <3>1
    <3> QED BY <1>8, <2>6, <2>8, <2>10, <2>11, <2>14, <3>1, <3>2
  <2>15. Makes(lo, s, Sounds(t), Visible(t))
    <3>1. CASE end = lo
      <4>1. ASSUME NEW j \in Visible(t), lo <= j, j < s.next PROVE FALSE
        <5>1. j < end /\ j \in Nat
          BY <2>14, <4>1, VisibleIs
        <5> QED BY <1>8, <3>1, <4>1, <5>1
      <4> QED BY <2>10, <3>1, <4>1 DEF Makes
    <3>2. CASE end # lo
      <4>1. s.part = <<p>> /\ p.hi \in lo..s.next
        BY <2>10, <2>12, <2>13, <3>2
      <4>2. \A j \in Visible(t) : lo <= j /\ j < s.next => j < p.hi
        BY <2>12, <2>14
      <4> QED BY <2>12, <4>1, <4>2 DEF Makes
    <3> QED BY <3>1, <3>2
  <2>16. ASSUME NEW m \in t.marks, NEW a \in 0..Size(t), NEW b \in 0..Size(t),
                Plainly(t, m), Spans(t, m, a, b), lo <= a
         PROVE  s.next <= a \/ \E q \in Homes(t, m) \cap Sounds(t) : s.part = <<q>>
    <3>1. /\ a \in Nat /\ b \in Nat /\ a < b /\ b <= Size(t)
          /\ m.off = Units(t, 0, a) /\ m.off + m.len = Units(t, 0, b)
          /\ m.off \in Nat /\ m.len \in Nat /\ m.len > 0
      BY <2>16, SpansFacts, MarkSpans DEF Spans
    <3>2. /\ Units(t, lo, a) \in Nat /\ Units(t, lo, b) \in Nat /\ Units(t, lo, k) \in Nat
          /\ Units(t, lo, Size(t)) \in Nat
      BY <1>8, <2>6, <2>16, <3>1, UnitsOfSlice
    <3>3. CASE u <= Units(t, lo, a)
      <4>1. k <= a
        <5>1. a < k => a \in lo..k - 1
          BY <1>8, <2>6, <2>16, <3>1
        <5> QED BY <2>2, <2>4, <2>6, <3>1, <3>2, <3>3, <5>1
      <4>2. ~IsSpace(t, a)
        <5>1. a \in 0..Size(t) - 1 /\ Units(t, 0, a) \in {m.off, m.off + m.len - 1}
          BY <1>8, <3>1
        <5> QED BY <2>16, <5>1 DEF Plainly
      <4>3. ~(a \in k..next - 1)
        BY <2>8, <4>2
      <4>4. next <= a
        BY <2>6, <2>8, <3>1, <4>1, <4>3
      <4> QED BY <2>10, <4>4
    <3>4. CASE Units(t, lo, b) <= u
      <4>1. b <= k
        <5>1. CASE u <= Units(t, lo, Size(t))
          <6>1. Units(t, lo, b) <= Units(t, lo, k)
            BY <2>2, <2>4, <3>2, <3>4, <5>1
          <6> QED BY <1>8, <2>6, <2>16, <3>1, <6>1, UnitsInOrder
        <5>2. CASE ~(u <= Units(t, lo, Size(t)))
          <6>1. Units(t, lo, Size(t)) < u
            BY <2>2, <3>2, <5>2
          <6>2. k = Size(t)
            BY <2>3, <6>1 DEF IndexUp
          <6> QED BY <3>1, <6>2
        <5> QED BY <5>1, <5>2
      <4>2. PICK c \in Nat : c = b - 1
        BY <3>1
      <4>8. lo <= a /\ c + 1 = b /\ a <= c
        BY <2>16, <3>1, <4>2
      <4>3. c \in 0..Size(t) - 1 /\ c < k /\ c + 1 = b /\ lo <= c
        BY <1>8, <2>6, <3>1, <4>1, <4>2, <4>8
      <4>4. ~IsSpace(t, c)
        <5>1. Units(t, 0, b) = Units(t, 0, c) + Units(t, c, c + 1)
          BY <3>1, <4>2, <4>3, UnitsAdd
        <5>2. Units(t, c, c + 1) = IF Char(t, c) = "wide" THEN 2 ELSE 1
          BY <4>2, UnitsOfOne
        <5>3. Units(t, 0, c) \in Nat
          BY <4>2, UnitsOfSlice
        <5>4. CASE Char(t, c) = "wide"
          BY <5>4 DEF IsSpace
        <5>5. CASE Char(t, c) # "wide"
          <6>1. Units(t, 0, c) = m.off + m.len - 1
            BY <3>1, <5>1, <5>2, <5>3, <5>5
          <6> QED BY <2>16, <4>3, <6>1 DEF Plainly
        <5> QED BY <5>4, <5>5
      <4>5. ~(c \in end..k - 1)
        BY <2>7, <4>4
      <4>6. b <= end /\ end # lo
        BY <1>8, <2>6, <2>11, <2>16, <3>1, <4>2, <4>3, <4>5
      <4>7. p \in Homes(t, m)
        BY <2>12, <2>16, <4>6
      <4> QED BY <2>10, <2>12, <4>6, <4>7
    <3>5. u <= Units(t, lo, a) \/ Units(t, lo, b) <= u
      BY <1>9, <2>2, <2>16
    <3> QED BY <3>3, <3>4, <3>5
  <2>17. GoodStep(t, lo, s)
    BY <2>13, <2>15, <2>16 DEF GoodStep
  <2> QED BY <1>6, <2>17
<1> QED BY <1>11, <1>12

\* Captions of single posts.
LEMMA SplitCaptionIs ==
    ASSUME NEW t \in TextType
    PROVE  Rendered(t, 0, SplitCaption(t))
<1> DEFINE step == [lo \in 0..Size(t) - 1 |-> CutCaption(t, lo)]
<1>1. 0 \in 0..Size(t)
  BY TextFacts
<1>2. SplitCaption(t) = Cut(Size(t), 0, step)
  BY DEF SplitCaption
<1>3. ASSUME NEW lo \in 0..Size(t) - 1 PROVE step[lo] = CutCaption(t, lo)
  OBVIOUS
<1> HIDE DEF step
<1>4. ASSUME NEW lo \in 0..Size(t) - 1 PROVE GoodStep(t, lo, step[lo])
  BY <1>3, CutCaptionIs
<1>5. Rendered(t, 0, Cut(Size(t), 0, step))
  BY <1>1, <1>4, StepsRender
<1> QED BY <1>2, <1>5

\* All pieces but the first put together are a piece without entities.
LEMMA TogetherIs ==
    ASSUME NEW t \in TextType, NEW c \in Seq(Sounds(t)), Len(c) > 1
    PROVE  Together(c) \in Sounds(t)
<1>1. c[2] \in Sounds(t) /\ c[Len(c)] \in Sounds(t)
  OBVIOUS
<1>2. c[2].lo \in Nat /\ c[Len(c)].hi \in Nat
  BY <1>1 DEF Sounds, PieceType
<1>3. PICK lo : lo = c[2].lo
  OBVIOUS
<1>4. PICK end : end = c[Len(c)].hi
  OBVIOUS
<1>5. PICK most : most = lo + MessageLimit - 1 - HeaderLength
  OBVIOUS
<1>6. PICK hi : hi = IF end < most THEN end ELSE most
  OBVIOUS
<1>7. most \in Nat
  BY <1>2, <1>3, <1>5, TextsAssumption
<1>8. hi \in Nat /\ lo \in Nat
  BY <1>2, <1>3, <1>4, <1>6, <1>7
<1>9. Together(c) = [lo |-> lo, hi |-> hi, head |-> HeaderLength, marks |-> {}]
  BY <1>3, <1>4, <1>5, <1>6 DEF Together
<1>10. HeaderLength \in {0, HeaderLength}
  OBVIOUS
<1> QED BY <1>8, <1>9, <1>10, BareIs

-----------------------------------------------------------------------------
(* The words on their way                                                  *)

\* Pieces that tell the whole text: all that is visible; its plain links, unless they are
\* bare; and in order.
KeptFor(t, c, bare) ==
    /\ \A k \in Visible(t) : \E i \in 1..Len(c) : k \in c[i].lo..c[i].hi - 1
    /\ ~bare => \A m \in t.marks : Plainly(t, m) => Meets(c, Homes(t, m))
    /\ ~bare => \A i \in 1..Len(c) - 1 : c[i].hi <= c[i + 1].lo

\* Slices that tell the whole text do so without its entities.
LEMMA WholeKept ==
    ASSUME NEW t \in TextType, NEW c, Whole(c, 0, Size(t), Sounds(t), Visible(t))
    PROVE  c \in Seq(Sounds(t)) /\ KeptFor(t, c, TRUE)
<1>1. /\ c \in Seq(Sounds(t))
      /\ \A k \in Visible(t) : 0 <= k /\ k < Size(t) => \E i \in 1..Len(c) : c[i].lo <= k /\ k < c[i].hi
  BY Zenon DEF Whole
<1>2. ASSUME NEW k \in Visible(t) PROVE \E i \in 1..Len(c) : k \in c[i].lo..c[i].hi - 1
  <2>1. 0 <= k /\ k < Size(t) /\ k \in Nat
    BY TextFacts DEF Visible
  <2>2. PICK i \in 1..Len(c) : c[i].lo <= k /\ k < c[i].hi
    BY <1>1, <2>1
  <2>3. c[i] \in Sounds(t)
    BY <1>1
  <2>4. c[i].lo \in Nat /\ c[i].hi \in Nat
    BY <2>3 DEF Sounds, PieceType
  <2> QED BY <2>1, <2>2, <2>4
<1> QED BY <1>1, <1>2 DEF KeptFor

\* What a renderer makes tells it with them.
LEMMA RenderedKept ==
    ASSUME NEW t \in TextType, NEW c, Rendered(t, 0, c), NEW bare
    PROVE  c \in Seq(Sounds(t)) /\ KeptFor(t, c, bare)
<1>1. Whole(c, 0, Size(t), Sounds(t), Visible(t))
  BY DEF Rendered
<1>2. c \in Seq(Sounds(t)) /\ KeptFor(t, c, TRUE)
  BY <1>1, WholeKept
<1>3. ASSUME NEW m \in t.marks, Plainly(t, m) PROVE Meets(c, Homes(t, m))
  <2>1. PICK a, b \in 0..Size(t) : Spans(t, m, a, b)
    BY MarkSpans
  <2>2. 0 <= a
    OBVIOUS
  <2> QED BY <1>3, <2>1, <2>2 DEF Rendered
<1>4. \A i \in 1..Len(c) - 1 : c[i].hi <= c[i + 1].lo
  <2>1. Len(c) \in Nat
    BY <1>2
  <2>2. ASSUME NEW i \in 1..Len(c) - 1 PROVE c[i].hi <= c[i + 1].lo
    <3>1. i \in 1..Len(c) /\ i + 1 \in 1..Len(c) /\ i < i + 1
      BY <2>1
    <3> QED BY <1>1, <3>1 DEF Whole
  <2> QED BY <2>2
<1> QED BY <1>2, <1>3, <1>4 DEF KeptFor

\* Behind what was told before, the text is told; in order if that was nothing.
LEMMA BehindKept ==
    ASSUME NEW t \in TextType, NEW r \in Seq(Sounds(t)), NEW c \in Seq(Sounds(t)),
           NEW bare, KeptFor(t, c, bare), ~bare => r = <<>>
    PROVE  r \o c \in Seq(Sounds(t)) /\ KeptFor(t, r \o c, bare)
<1>1. PICK d : d = r \o c
  OBVIOUS
<1>2. /\ d \in Seq(Sounds(t)) /\ Len(d) = Len(r) + Len(c) /\ Len(r) \in Nat /\ Len(c) \in Nat
      /\ \A i \in 1..Len(c) : Len(r) + i \in 1..Len(d) /\ d[Len(r) + i] = c[i]
  BY <1>1
<1>3. ASSUME NEW k \in Visible(t) PROVE \E i \in 1..Len(d) : k \in d[i].lo..d[i].hi - 1
  <2>1. PICK i \in 1..Len(c) : k \in c[i].lo..c[i].hi - 1
    BY DEF KeptFor
  <2> QED BY <1>2, <2>1
<1>4. ASSUME ~bare, NEW m \in t.marks, Plainly(t, m) PROVE Meets(d, Homes(t, m))
  <2>1. PICK i \in 1..Len(c) : c[i] \in Homes(t, m)
    BY <1>4 DEF KeptFor, Meets
  <2>2. Len(r) + i \in 1..Len(d) /\ d[Len(r) + i] \in Homes(t, m)
    BY <1>2, <2>1
  <2> QED BY <2>2 DEF Meets
<1>5. ASSUME ~bare PROVE \A i \in 1..Len(d) - 1 : d[i].hi <= d[i + 1].lo
  <2>1. d = c
    BY <1>1, <1>5
  <2> QED BY <1>5, <2>1 DEF KeptFor
<1>6. KeptFor(t, d, bare)
  BY <1>3, <1>4, <1>5 DEF KeptFor
<1> QED BY <1>1, <1>2, <1>6

\* A piece that goes from what is to be sent to what has been read.
LEMMA PieceMoves ==
    ASSUME NEW S, NEW r \in Seq(S), NEW c \in Seq(S), c # <<>>
    PROVE  /\ Head(c) \in S /\ Append(r, Head(c)) \in Seq(S) /\ Tail(c) \in Seq(S)
           /\ Append(r, Head(c)) \o Tail(c) = r \o c
           /\ r \o <<>> = r
<1>1. Head(c) \in S /\ Append(r, Head(c)) \in Seq(S) /\ Tail(c) \in Seq(S)
  OBVIOUS
<1>2. PICK d : d = Append(r, Head(c)) \o Tail(c)
  OBVIOUS
<1>3. PICK e : e = r \o c
  OBVIOUS
<1>4. d \in Seq(S) /\ e \in Seq(S) /\ Len(d) = Len(r) + Len(c) /\ Len(e) = Len(r) + Len(c)
      /\ Len(r) \in Nat /\ Len(c) \in Nat /\ Len(c) > 0
  BY <1>1, <1>2, <1>3
<1>5. ASSUME NEW i \in 1..Len(d) PROVE d[i] = e[i]
  <2>1. CASE i <= Len(r)
    BY <1>1, <1>2, <1>3, <1>4, <2>1
  <2>2. CASE i = Len(r) + 1
    BY <1>1, <1>2, <1>3, <1>4, <2>2
  <2>3. CASE i > Len(r) + 1
    <3>1. d[i] = Tail(c)[i - Len(r) - 1]
      BY <1>1, <1>2, <1>4, <2>3
    <3>2. Tail(c)[i - Len(r) - 1] = c[i - Len(r)]
      BY <1>4, <2>3
    <3>3. e[i] = c[i - Len(r)]
      BY <1>3, <1>4, <2>3
    <3> QED BY <3>1, <3>2, <3>3
  <2> QED BY <1>4, <2>1, <2>2, <2>3
<1>6. d = e
  BY <1>4, <1>5
<1>7. r \o <<>> = r
  OBVIOUS
<1> QED BY <1>1, <1>2, <1>3, <1>6, <1>7

\* A text that is not NoWords has characters.
LEMMA WordsSized ==
    ASSUME NEW t \in TextType, t # NoWords
    PROVE  Size(t) > 0 /\ Visible(t) # {}
<1>1. t \in [chars : Seq(Characters), marks : SUBSET [kind : MarkKinds, off : Nat, len : Nat \ {0}]]
  BY DEF TextType
<1>2. t = [chars |-> t.chars, marks |-> t.marks] /\ t.chars \in Seq(Characters) /\ Size(t) = Len(t.chars)
  BY <1>1 DEF Size
<1>3. ASSUME Size(t) = 0 PROVE FALSE
  <2>1. t.chars = <<>>
    <3>1. PICK s \in Seq(Characters) : s = t.chars
      BY <1>2
    <3>2. Len(s) = 0
      BY <1>2, <1>3, <3>1
    <3>3. s = <<>>
      BY <3>2
    <3> QED BY <3>1, <3>3
  <2>2. ASSUME NEW m \in t.marks PROVE FALSE
    <3>1. PICK a, b \in 0..Size(t) : Spans(t, m, a, b)
      BY MarkSpans
    <3>2. a < b /\ a \in Nat /\ b \in Nat /\ b <= Size(t)
      BY <3>1, SpansFacts
    <3> QED BY <1>3, <3>2
  <2>3. t.marks = {}
    BY <2>2
  <2> QED BY <1>2, <2>1, <2>3 DEF NoWords
<1>4. Size(t) \in Nat /\ Size(t) > 0
  BY <1>3, TextFacts
<1>5. ~IsSpace(t, 0) /\ 0 \in 0..Size(t) - 1
  BY <1>4, TextFacts
<1> QED BY <1>4, <1>5 DEF Visible

\* Pieces that tell such a text are not none.
LEMMA KeptNotEmpty ==
    ASSUME NEW t \in TextType, t # NoWords, NEW c, NEW bare, KeptFor(t, c, bare)
    PROVE  c # <<>>
<1>1. PICK k : k \in Visible(t)
  BY WordsSized
<1>2. PICK i \in 1..Len(c) : k \in c[i].lo..c[i].hi - 1
  BY <1>1 DEF KeptFor
<1>3. c = <<>> => Len(c) = 0
  OBVIOUS
<1> QED BY <1>2, <1>3

AtWords == {"text", "overflow", "albumText"}

\* The pieces are sound; words are sent only where there are some.
WordTypes ==
    /\ read \in Seq(Sounds(link.words)) /\ out \in Seq(Sounds(link.words))
    /\ plain \in BOOLEAN /\ parsed \subseteq 1..Len(read)
    /\ pc \in AtWords => link.words # NoWords

Linkless(p) == \A m \in p.marks : m.kind # "link"

\* Markup is not read in pieces with links, nor in what goes out literally.
MarkupFits ==
    /\ ~plain => \A i \in parsed : Linkless(read[i])
    /\ link.words # NoWords =>
          /\ Private /\ ~link.captioned /\ ~plain => parsed = {}
          /\ link.captioned /\ pc = "overflow" => parsed = {}
          /\ link.captioned /\ WordsSent /\ ~PhotoAlbum(Here) => parsed = {}

\* Before its words are sent, nothing of a post has been read.  While they are, what has
\* been read and what is to be sent tell the whole text; so does what has been read when
\* the post counts as sent.  Captions may be given up.
WordsFit ==
    link.words # NoWords =>
        /\ pc \in Before \ {"text"} => ~plain /\ read = <<>>
        /\ pc = "text" => ~link.captioned
        /\ pc \in {"deliver", "overflow", "albumText"} => link.captioned
        /\ pc = "overflow" => out # <<>> /\ Len(SplitCaption(link.words)) > 1
        /\ pc \in AtWords => \/ plain /\ link.captioned
                             \/ KeptFor(link.words, read \o out, plain)
        /\ WordsSent => \/ plain /\ link.captioned
                        \/ KeptFor(link.words, read, plain)

WordInv == WordTypes /\ WordsFit /\ MarkupFits

\* The kinds of steps, as to the words.
Same == UNCHANGED textVars

Wordless == link.words = NoWords /\ Same /\ pc' \notin AtWords

Rests == Same /\ pc' = "done"

Begins == /\ pc = "head" /\ pc' \in {"detect", "fetch", "done"}
          /\ out' = <<>> /\ plain' = FALSE /\ read' = <<>> /\ parsed' = {}

Goes == /\ Same
        /\ pc \in Before \ {"text"} /\ pc' \in Before \ {"text"}
        /\ pc' = "deliver" => ~IsText

\* The post at hand, and perhaps its album, is done with and not counted as sent.
Misses == /\ Same
          /\ pc \in Before /\ pc' \in {"head", "wait", "done"}
          /\ pc' = "head" => again' = again /\ processed' = processed
          /\ pc' = "wait" => again'
          /\ pos' = pos \/ (Private /\ PhotoAlbum(Here) /\ Jumps)
          /\ blurred' = blurred

Waits == Same /\ pc = "wait" /\ pc' = "head" /\ again' = again

Stays == UNCHANGED textVars /\ UNCHANGED <<pc, again, pos, processed, blurred>>

BeginsText == /\ pc = "single" /\ pc' = "text" /\ IsText
              /\ out' = Pieces
              /\ UNCHANGED <<read, plain, parsed>>

TakesSlices == /\ pc = "text" /\ pc' = "text"
               /\ plain' = TRUE /\ out' = Slices(link.words)
               /\ UNCHANGED <<read, parsed>>

BeginsAlbum == /\ pc = "out" /\ pc' = "albumText" /\ link.words # NoWords
               /\ out' = Tail(SmartCaption(link.words))
               /\ read' = <<Head(SmartCaption(link.words))>>
               /\ parsed' = {} \/ (parsed' = {1} /\ Linkless(Head(SmartCaption(link.words))))
               /\ UNCHANGED plain

BeginsCaption == /\ pc = "deliver" /\ link.words # NoWords
                 /\ read' = Append(read, SplitCaption(link.words)[1])
                 /\ out' = Tail(SplitCaption(link.words))
                 /\ IF out' = <<>> THEN pc' \in {"head", "done"} ELSE pc' = "overflow"
                 /\ UNCHANGED <<plain, parsed, pos>>

Advances == /\ pc \in AtWords /\ out # <<>>
            /\ read' = Append(read, Head(out)) /\ out' = Tail(out)
            /\ \/ pc' = pc /\ (pc = "overflow" => out' # <<>>)
               \/ pc = "overflow" /\ out' = <<>> /\ pc' \in {"head", "done"}
            /\ \/ UNCHANGED parsed
               \/ /\ parsed' = parsed \cup {Len(read) + 1}
                  /\ pc # "overflow" /\ (pc = "text" /\ Private => plain)
                  /\ plain \/ Linkless(Head(out))
            /\ UNCHANGED <<plain, pos, blurred>>

\* The last of the words is sent, and the album, if it is one, jumped.
Completes == /\ pc \in {"text", "albumText"} /\ out = <<>> /\ pc' \in {"head", "done"}
             /\ processed' = processed \cup {At} /\ blurred' = blurred
             /\ pc = "albumText" => Jumps
             /\ UNCHANGED textVars

\* The rest of a caption is given up, in part or wholly.
GivesUp == /\ plain' = TRUE /\ UNCHANGED <<pos, parsed>>
           /\ \/ pc = "albumText" /\ pc' = pc /\ out # <<>> /\ out' = Tail(out) /\ read' = read
              \/ /\ pc = "overflow" /\ pc' \in {"head", "done"} /\ out' = <<>>
                 /\ read' \in {read, Append(read, Together(SplitCaption(link.words)))}

WordKinds == \/ Wordless \/ Rests \/ Begins \/ Goes \/ Misses \/ Waits \/ Stays
             \/ BeginsText \/ TakesSlices \/ BeginsAlbum \/ BeginsCaption
             \/ Advances \/ Completes \/ GivesUp

\* The order of a walk is of the posts of its link.
LEMMA OrderOfIds ==
    ASSUME link \in Links, NEW k \in 1..Len(Order)
    PROVE  Order[k] \in ToSet(link.ids)
<1>1. link.ids \in Seq(Posts)
  BY PostWalkAssumption DEF LinkType
<1>2. CASE ~Comments
  <2>1. Order = link.ids
    BY <1>2 DEF Order
  <2> QED BY <1>1, <2>1 DEF ToSet
<1>3. CASE Comments
  <2> DEFINE S == ToSet(link.ids) \ (link.gone \cup link.outside)
  <2>1. Order = InOrder(S)
    BY <1>3 DEF Order
  <2>2. Posts \in SUBSET Nat /\ IsFiniteSet(Posts)
    <3>1. MaxPost \in Nat
      BY PostWalkAssumption
    <3> QED BY <3>1, FS_Interval DEF Posts
  <2>3. S \in SUBSET Posts
    BY <1>1 DEF ToSet
  <2>4. IsFiniteSet(S) /\ S \in SUBSET Nat
    BY <2>2, <2>3, FS_Subset
  <2>5. Order \in Seq(Posts)
    BY LinkFacts
  <2> HIDE DEF S
  <2>6. Order \in [1..Cardinality(S) -> S] /\ Cardinality(S) \in Nat
    BY <2>1, <2>4, InOrderSorts
  <2>7. 1..Len(Order) = 1..Cardinality(S)
    BY <2>5, <2>6
  <2>8. Order[k] \in S
    BY <2>6, <2>7
  <2> QED BY <2>8 DEF S
<1> QED BY <1>2, <1>3

\* Words of posts in albums are captions of private walks.
LEMMA AlbumCaptions ==
    ASSUME WalkTypes, NEW k \in 1..Len(Order), link.words # NoWords, AlbumOf(Order[k]) # NoAlbum
    PROVE  Private /\ link.captioned
<1>1. link \in Links
  BY DEF WalkTypes
<1>2. Order[k] \in ToSet(link.ids) /\ link.album[Order[k]] # NoAlbum
  BY <1>1, OrderOfIds DEF AlbumOf
<1> QED BY <1>1, <1>2, PostWalkAssumption DEF Private

\* So is that of the post at hand.
LEMMA CaptionHere ==
    ASSUME WalkTypes, pos # 0, link.words # NoWords, Here # NoAlbum
    PROVE  Private /\ link.captioned
<1>1. pos \in 1..Len(Order) /\ Here = AlbumOf(Order[pos])
  BY AtHand DEF Here, At
<1> QED BY <1>1, AlbumCaptions

\* Markup is read where no link goes with a piece, or in plain slices.
LEMMA MarkedOnes ==
    ASSUME NEW p
    PROVE  /\ CaptionMarked(p) => Linkless(p)
           /\ Marked(p) => plain \/ Linkless(p)
           /\ Marked(p) /\ Private => plain
BY DEF CaptionMarked, Marked, AsMarkdown, Linkless

\* Each action is a step of one of the kinds.
LEMMA WordKindOfStep ==
    ASSUME WalkTypes, Placed, WordInv, [WalkNext]_walkVars
    PROVE  WordKinds
<1> USE DEF textVars
<1>1. CASE Stopped
  BY <1>1 DEF Stopped, Leave, Uncounted, WordKinds, Rests, Same, WordTypes, WordInv
<1>2. CASE TakeNext
  BY <1>2 DEF TakeNext, Goto, Finish, WordKinds, Begins
<1> DEFINE albumless == \/ link.words = NoWords
                        \/ pos # 0 /\ Here = NoAlbum
                        \/ pos # 0 /\ Private
                        \/ pos = 0
<1>22. albumless
  BY CaptionHere
<1>23. floods \in {floods, floods + 1}
  OBVIOUS
<1>24. \A a : PhotoAlbum(a) => a # NoAlbum
  BY LinkFacts DEF WalkTypes
<1>3. CASE Detect
  BY <1>3, <1>23 DEF Detect, Raises, Goto, Uncounted, countVars, WordKinds, Misses, Goes, Same, Before, Placed, Jumps
<1>4. CASE Collect
  BY <1>4, <1>23 DEF Collect, AlbumCancelled, AlbumEnds, Settle, Leave, Finish, Goto, Uncounted, countVars, NothingComes,
     historyVars, WordKinds, Misses, Goes, Rests, Same, Before, Placed, Jumps
<1>5. CASE LoadAlbum
  BY <1>5, <1>23 DEF LoadAlbum, AlbumCancelled, AlbumEnds, Settle, Leave, Finish, Goto, Uncounted, countVars, NothingComes,
     historyVars, WordKinds, Misses, Goes, Rests, Same, Before, Placed, Jumps
<1>6. CASE CheckAlbum
  BY <1>6, <1>23 DEF CheckAlbum, AlbumCancelled, AlbumFails, AlbumEnds, Settle, Leave, Finish, Goto, Uncounted, countVars,
     NothingComes, historyVars, WordKinds, Misses, Goes, Rests, Same, Before, Placed, Jumps
<1>7. CASE SendAlbum
  <2>0. pc = "out" /\ Private /\ PhotoAlbum(Here)
    BY <1>7 DEF SendAlbum, Placed
  <2>1. CASE AlbumFails /\ NothingComes /\ UNCHANGED <<seen, floods, textVars>>
    BY <2>0, <2>1, <1>23 DEF AlbumFails, AlbumEnds, Settle, Finish, Goto, NothingComes, historyVars, WordKinds, Misses, Same,
       Before, Jumps
  <2>2. CASE LosesAnswer(todo) /\ AlbumEnds(FALSE) /\ UNCHANGED <<seen, floods, textVars>>
    BY <2>0, <2>2, <1>23 DEF LosesAnswer, Reach, AlbumEnds, Settle, Finish, Goto, WordKinds, Misses, Same, Before, Jumps
  <2>3. CASE /\ Flooded /\ Errors(errs + 1) /\ Goto("send")
             /\ NothingComes /\ UNCHANGED <<pos, seen, countVars, again, textVars>>
    BY <2>0, <2>3 DEF Flooded, Goto, WordKinds, Goes, Same, Before
  <2>4. CASE /\ Arrives(todo) /\ seen' = seen \cup {Here}
             /\ IF link.words = NoWords
                THEN AlbumEnds(TRUE) /\ UNCHANGED textVars
                ELSE /\ Goto("albumText") /\ Uncounted /\ UNCHANGED <<pos, plain>>
                     /\ out' = Tail(SmartCaption(link.words))
                     /\ read' = <<Head(SmartCaption(link.words))>>
                     /\ parsed' = IF CaptionMarked(Head(SmartCaption(link.words))) THEN {1} ELSE {}
             /\ UNCHANGED floods
    BY <2>0, <2>4, MarkedOnes DEF AlbumEnds, Settle, Finish, Goto, Uncounted, WordKinds, Wordless, BeginsAlbum, Same, AtWords
  <2> QED BY <1>7, <2>1, <2>2, <2>3, <2>4 DEF SendAlbum
<1>8. CASE SendAlbumText
  <2>1. pc = "albumText"
    BY <1>8 DEF SendAlbumText
  <2>2. CASE out = <<>>
    BY <1>8, <2>1, <2>2 DEF SendAlbumText, AlbumEnds, Settle, Finish, Goto, NothingComes, historyVars, WordKinds,
       Completes, Jumps
  <2>3. CASE out # <<>> /\ PieceArrives(Head(out), CaptionMarked(Head(out))) /\ UNCHANGED plain
    BY <1>8, <2>1, <2>3, MarkedOnes DEF SendAlbumText, PieceArrives, Goto, Uncounted, NothingComes, historyVars,
       WordKinds, Advances, AtWords
  <2>4. CASE out # <<>> /\ plain' = TRUE /\ UNCHANGED <<read, parsed>>
    BY <1>8, <2>1, <2>4 DEF SendAlbumText, Goto, Uncounted, WordKinds, GivesUp
  <2> QED BY <1>8, <2>2, <2>3, <2>4 DEF SendAlbumText
<1>9. CASE Fetch
  <2>1. link.words = NoWords \/ Here = NoAlbum
    BY <1>9, <1>22 DEF Fetch, Placed
  <2>2. pc = "fetch" /\ pos # 0 /\ ~Private /\ NoAlbum \notin seen
    BY <1>9, LinkFacts DEF Fetch, Placed, WalkTypes
  <2>3. UNCHANGED textVars /\ UNCHANGED <<pos, blurred>>
    BY <1>9 DEF Fetch, NothingComes, historyVars
  <2>4. CASE /\ ~Comments
             /\ failed' = failed \cup {At} /\ Goto("head") /\ UNCHANGED <<processed, skipped, errs, again, floods>>
    BY <2>2, <2>3, <2>4, <1>23 DEF Goto, WordKinds, Misses, Same, Before
  <2>5. CASE (Raises \/ Skips) /\ UNCHANGED floods
    BY <2>2, <2>3, <2>5, <1>23 DEF Raises, Skips, Goto, WordKinds, Misses, Same, Before
  <2>6. CASE Flooded /\ SingleFloods
    BY <2>2, <2>3, <2>6, <1>23 DEF Flooded, SingleFloods, Goto, Finish, WordKinds, Misses, Rests, Same, Before
  <2>7. CASE /\ Goto(IF Here = NoAlbum THEN "single" ELSE IF Here \in seen THEN "head" ELSE "group")
             /\ Uncounted /\ UNCHANGED floods
    <3>1. CASE Here = NoAlbum
      BY <2>2, <2>3, <2>7, <1>23, <3>1 DEF Goto, Uncounted, WordKinds, Goes, Same, Before
    <3>2. CASE Here # NoAlbum
      BY <2>1, <2>2, <2>3, <2>7, <1>23, <3>2 DEF Goto, Uncounted, WordKinds, Wordless, Same, AtWords
    <3> QED BY <3>1, <3>2
  <2> QED BY <1>9, <2>4, <2>5, <2>6, <2>7 DEF Fetch
<1>10. CASE Group
  <2>1. link.words = NoWords
    BY <1>10, CaptionHere DEF Group, Placed
  <2> QED BY <1>10, <1>23, <2>1 DEF Group, Settle, Finish, Goto, Uncounted, WordKinds, Wordless, Same, AtWords
<1>11. CASE LoadPhotos
  <2>1. link.words = NoWords
    BY <1>11, <1>24, CaptionHere DEF LoadPhotos, Placed
  <2> QED BY <1>11, <1>23, <2>1 DEF LoadPhotos, Settle, Finish, Goto, Uncounted, WordKinds, Wordless, Same, AtWords
<1>12. CASE SendPhotos
  <2>1. link.words = NoWords
    BY <1>12, <1>24, CaptionHere DEF SendPhotos, Placed
  <2> QED BY <1>12, <1>23, <2>1 DEF SendPhotos, Settle, Finish, Goto, Uncounted, WordKinds, Wordless, Same, AtWords
<1>13. CASE SendEach
  <2>1. link.words = NoWords
    BY <1>13, <1>24, CaptionHere DEF SendEach, Placed
  <2> QED BY <1>13, <1>23, <2>1 DEF SendEach, Settle, Finish, Goto, Uncounted, WordKinds, Wordless, Same, AtWords
<1>14. CASE NextMember
  <2>1. link.words = NoWords
    BY <1>14, CaptionHere DEF NextMember, Placed
  <2> QED BY <1>14, <1>23, <2>1 DEF NextMember, Settle, Finish, Goto, Uncounted, WordKinds, Wordless, Same, AtWords
<1>15. CASE SendMember
  <2>1. link.words = NoWords
    BY <1>15, CaptionHere DEF SendMember, Placed
  <2> QED BY <1>15, <1>23, <2>1 DEF SendMember, Goto, Uncounted, WordKinds, Wordless, Same, AtWords
<1>16. CASE StartSingle
  BY <1>16 DEF StartSingle, Settle, Deleted, Finish, Goto, Uncounted, NothingComes, historyVars, WordKinds, Misses,
     BeginsText, Goes, Same, Before, IsText
<1>17. CASE SendText
  <2>0. pc = "text" /\ UNCHANGED pos /\ UNCHANGED link
    BY <1>17 DEF SendText
  <2>1. CASE out = <<>> /\ Settle(TRUE) /\ Arrives({At}) /\ UNCHANGED <<textVars, floods>>
    BY <2>0, <2>1 DEF Settle, Finish, Goto, Arrives, Reach, WordKinds, Completes
  <2>2. CASE /\ out # <<>>
             /\ PieceArrives(Head(out), Marked(Head(out))) /\ out' = Tail(out)
             /\ Goto("text") /\ Uncounted /\ NothingComes /\ UNCHANGED <<plain, floods>>
    BY <2>0, <2>2, MarkedOnes DEF PieceArrives, Goto, Uncounted, NothingComes, historyVars, WordKinds, Advances, AtWords
  <2>3. CASE /\ out # <<>> /\ Private /\ ~plain
             /\ plain' = TRUE /\ out' = Slices(link.words)
             /\ Goto("text") /\ Uncounted /\ NothingComes /\ UNCHANGED <<read, parsed, floods>>
    BY <2>0, <2>3 DEF Goto, Uncounted, WordKinds, TakesSlices
  <2>4. CASE /\ out # <<>> /\ (Private => plain)
             /\ Settle(FALSE) /\ NothingComes /\ UNCHANGED <<textVars, floods>>
    BY <2>0, <2>4, <1>23 DEF Settle, Finish, Goto, NothingComes, historyVars, WordKinds, Misses, Same, Before
  <2>5. CASE /\ out # <<>> /\ ~Comments
             /\ Flooded /\ SingleFloods /\ NothingComes /\ UNCHANGED textVars
    BY <2>0, <2>5, <1>23 DEF Flooded, SingleFloods, Goto, Finish, NothingComes, historyVars, WordKinds, Misses, Rests, Same,
       Before
  <2> QED BY <1>17, <2>1, <2>2, <2>3, <2>4, <2>5 DEF SendText
<1>18. CASE Deliver
  <2>0. pc \in {"deliver", "alone"} /\ UNCHANGED pos /\ UNCHANGED link /\ pos # 0
    BY <1>18 DEF Deliver, Placed
  <2>1. pc = "alone" => link.words = NoWords
    BY <2>0, CaptionHere DEF Placed
  <2>2. CASE /\ Arrives({At})
             /\ IF link.words = NoWords
                THEN Settle(TRUE) /\ UNCHANGED textVars
                ELSE LET pieces == SplitCaption(link.words) IN
                     /\ Units(link.words, pieces[1].lo, pieces[1].hi) <= CaptionLimit
                     /\ read' = Append(read, pieces[1])
                     /\ out' = Tail(pieces)
                     /\ IF out' = <<>> THEN Settle(TRUE) ELSE Goto("overflow") /\ Uncounted
                     /\ UNCHANGED <<plain, parsed>>
             /\ UNCHANGED floods
    BY <2>0, <2>1, <2>2, <1>23 DEF Settle, Finish, Goto, Uncounted, WordKinds, Wordless, BeginsCaption, Same, AtWords
  <2>3. CASE Settle(FALSE) /\ (LosesAnswer({At}) \/ NothingComes) /\ UNCHANGED <<textVars, floods>>
    BY <2>0, <2>3, <1>23 DEF Settle, Finish, Goto, LosesAnswer, Reach, NothingComes, historyVars, WordKinds, Misses, Same,
       Before
  <2>4. CASE /\ Flooded /\ NothingComes /\ UNCHANGED textVars
             /\ IF pc = "alone" THEN Settle(FALSE) ELSE SingleFloods
    BY <2>0, <2>4, <1>23 DEF Settle, Flooded, SingleFloods, Goto, Finish, NothingComes, historyVars, WordKinds, Misses, Rests,
       Same, Before
  <2>5. CASE flag /\ Leave(Private) /\ Uncounted /\ NothingComes /\ UNCHANGED <<textVars, floods>>
    BY <2>5, <1>23 DEF Leave, Uncounted, WordKinds, Rests, Same
  <2> QED BY <1>18, <2>2, <2>3, <2>4, <2>5 DEF Deliver
<1>19. CASE SendOverflow
  <2>0. pc = "overflow" /\ out # <<>> /\ UNCHANGED floods
    BY <1>19 DEF SendOverflow, WordInv, WordTypes, WordsFit, AtWords
  <2> QED BY <1>19, <2>0 DEF SendOverflow, PieceArrives, Settle, Finish, Goto, Uncounted, NothingComes, historyVars,
             WordKinds, Advances, GivesUp, AtWords
<1>20. CASE Wait
  BY <1>20, <1>23 DEF Wait, Goto, Leave, Uncounted, WordKinds, Waits, Rests, Same
<1>21. CASE RaiseFlag
  BY <1>21 DEF RaiseFlag, countVars, historyVars, WordKinds, Stays
<1>25. CASE UNCHANGED walkVars
  BY <1>25 DEF walkVars, countVars, historyVars, WordKinds, Stays
<1> QED BY <1>1, <1>2, <1>3, <1>4, <1>5, <1>6, <1>7, <1>8, <1>9, <1>10, <1>11, <1>12, <1>13, <1>14, <1>15, <1>16,
           <1>17, <1>18, <1>19, <1>20, <1>21, <1>25 DEF WalkNext

\* Of a post with words that is to come, and of its album if it was seen as one, nothing
\* counts as sent.
LEMMA NotYet ==
    ASSUME WalkInv, link.words # NoWords, NEW k \in 1..Len(Order), NEW p, p = Order[k],
           ToCome(p), AlbumOf(p) \notin blurred
    PROVE  With(p) \cap processed = {}
<1> SUFFICES ASSUME NEW q \in With(p), q \in processed PROVE FALSE
  OBVIOUS
<1>1. WalkTypes /\ PrivateFits /\ OthersFit /\ TruthFits
  BY DEF WalkInv
<1>2. /\ p \in Posts /\ q \in Posts /\ link.photos \subseteq Albums /\ NoAlbum \notin Albums
      /\ got[p] \in Nat /\ got[q] \in Nat
  <2>1. Order \in Seq(Posts) /\ link.photos \subseteq Albums /\ NoAlbum \notin Albums
    BY <1>1, LinkFacts DEF WalkTypes
  <2> QED BY <1>1, <2>1 DEF WalkTypes
<1>3. Vouched(q)
  BY <1>1 DEF TruthFits
<1>4. CASE ~(Private /\ PhotoAlbum(AlbumOf(p)))
  <2>1. ~Private => AlbumOf(p) = NoAlbum
    BY <1>1, AlbumCaptions
  <2>2. \A r : r \in With(p) => r = p
    BY <1>4, <2>1 DEF With, SameAlbum
  <2>3. got[p] = 0
    BY <1>1, <1>2, <2>1 DEF PrivateFits, OthersFit
  <2>4. q = p
    BY <2>2
  <2>5. ~(\E r \in With(p) : got[r] > 0)
    BY <2>2, <2>3
  <2> QED BY <1>2, <1>3, <1>4, <2>1, <2>4, <2>5 DEF Vouched, Enough
<1>5. CASE Private /\ PhotoAlbum(AlbumOf(p))
  <2>1. Open(AlbumOf(p))
    BY <1>2 DEF Open
  <2>2. \A r \in Posts : AlbumOf(r) = AlbumOf(p) => got[r] = 0
    <3> SUFFICES ASSUME NEW r \in Posts, AlbumOf(r) = AlbumOf(p) PROVE got[r] = 0
      OBVIOUS
    <3>1. got[r] <= 0 /\ got[r] \in Nat
      BY <1>1, <1>5, <2>1 DEF PrivateFits, WalkTypes
    <3> QED BY <3>1
  <2>3. AlbumOf(q) = AlbumOf(p)
    BY <1>5 DEF With, SameAlbum
  <2>4. AlbumOf(p) \in link.photos
    BY <1>1, <1>5, LinkFacts DEF WalkTypes
  <2>5. Enough(q)
    BY <1>3, <1>5, <2>3, <2>4 DEF Vouched
  <2>6. PICK r \in With(q) : got[r] > 0
    BY <1>5, <2>3, <2>5 DEF Enough
  <2>7. r \in Posts /\ AlbumOf(r) = AlbumOf(p)
    BY <1>1, <1>2, <1>5, <2>3, <2>6, GoTogether DEF With, SameAlbum
  <2> QED BY <2>2, <2>6, <2>7
<1> QED BY <1>4, <1>5

\* So the next look at the post at hand does not find it sent.
LEMMA MissesWords ==
    ASSUME WalkInv, Misses, link' = link, link.words # NoWords
    PROVE  ~WordsSent'
<1> SUFFICES ASSUME WordsSent' PROVE FALSE
  OBVIOUS
<1>1. /\ pc' = "head" /\ pc \in Before /\ ~again' /\ pos' > 0
      /\ processed' = processed /\ blurred' = blurred
      /\ (With(At) \cap processed)' # {} /\ Here' \notin blurred
  BY DEF WordsSent, Misses
<1>2. WalkTypes /\ Placed
  BY DEF WalkInv
<1>3. pos # 0 /\ pos \in 1..Len(Order) /\ Order \in Seq(Posts) /\ Len(Order) \in Nat
  <2>1. pos # 0
    BY <1>1, <1>2 DEF Placed, Before
  <2>2. Order \in Seq(Posts)
    BY <1>2, LinkFacts DEF WalkTypes
  <2> QED BY <1>2, <2>1, <2>2 DEF WalkTypes
<1>4. pos' \in pos..Len(Order)
  <2>1. CASE pos' = pos
    BY <1>3, <2>1
  <2>2. CASE Private /\ PhotoAlbum(Here) /\ Jumps
    BY <1>2, <1>3, <2>2, JumpFacts DEF Jumps
  <2> QED BY <2>1, <2>2 DEF Misses
<1>5. PICK k : k = pos'
  OBVIOUS
<1>6. k \in 1..Len(Order) /\ (k = pos \/ k \in pos + 1..Len(Order))
  BY <1>3, <1>4, <1>5
<1>7. PICK p : p = Order[k]
  OBVIOUS
<1>8. At' = p /\ Order' = Order
  BY <1>5, <1>7, LinkStays DEF At
<1>9. ToCome(p)
  BY <1>1, <1>6, <1>7 DEF ToCome, Ahead, At, Before
<1>10. (With(At) \cap processed)' = With(p) \cap processed /\ Here' = AlbumOf(p)
  BY <1>1, <1>8, LinkStays DEF Here, With, SameAlbum, AlbumOf, Private, PhotoAlbum, Members
<1>11. AlbumOf(p) \notin blurred /\ With(p) \cap processed # {}
  BY <1>1, <1>10
<1> QED BY <1>6, <1>7, <1>9, <1>11, NotYet

\* When the words of an album are through, the next look at the post at hand does not take
\* them for those of a post outside of it.
LEMMA AlbumPast ==
    ASSUME WalkInv, pc = "albumText", Jumps, processed' = processed \cup {At}, blurred' = blurred,
           link' = link, link.words # NoWords, WordsSent'
    PROVE  PhotoAlbum(Here)'
<1> SUFFICES ASSUME ~PhotoAlbum(Here)' PROVE FALSE
  OBVIOUS
<1>1. WalkTypes /\ Placed
  BY DEF WalkInv
<1>2. Private /\ PhotoAlbum(Here) /\ pos # 0
  BY <1>1 DEF Placed
<1>3. pos \in 1..Len(Order) /\ Order \in Seq(Posts) /\ Len(Order) \in Nat /\ pos' \in pos..Len(Order)
  <2>1. Order \in Seq(Posts)
    BY <1>1, LinkFacts DEF WalkTypes
  <2>2. pos' \in pos..Len(Order)
    BY <1>1, <1>2, JumpFacts DEF Jumps
  <2> QED BY <1>1, <1>2, <2>1, <2>2 DEF WalkTypes
<1>4. PICK k : k = pos'
  OBVIOUS
<1>5. PICK p : p = Order[k]
  OBVIOUS
<1>6. At' = p /\ Here' = AlbumOf(p)
  BY <1>4, <1>5, LinkStays DEF At, Here, AlbumOf
<1>7. ~PhotoAlbum(AlbumOf(p)) /\ (PhotoAlbum(Here)' <=> PhotoAlbum(AlbumOf(p)))
  BY <1>6 DEF PhotoAlbum, Members, AlbumOf
<1>8. k \in pos + 1..Len(Order) /\ p # At /\ AlbumOf(p) # Here
  BY <1>2, <1>3, <1>4, <1>5, <1>7 DEF At, Here
<1>9. ToCome(p)
  BY <1>5, <1>8 DEF ToCome, Ahead
<1>10. p \in processed' /\ AlbumOf(p) \notin blurred
  BY <1>2, <1>6, <1>7 DEF WordsSent, With, Private, PhotoAlbum, Members, AlbumOf
<1>11. With(p) \cap processed = {}
  BY <1>3, <1>5, <1>8, <1>9, <1>10, NotYet
<1>12. p \in With(p)
  BY <1>2, <1>7 DEF With
<1> QED BY <1>8, <1>10, <1>11, <1>12

\* A walk begins with nothing read.
LEMMA FirstWords == WalkInit => WordInv
<1> SUFFICES ASSUME WalkInit PROVE WordInv
  OBVIOUS
<1>1. WordTypes
  <2>1. \A S : <<>> \in Seq(S)
    OBVIOUS
  <2> QED BY <2>1 DEF WalkInit, WordTypes, AtWords
<1>2. WordsFit
  BY DEF WalkInit, WordsFit, AtWords, Before, WordsSent
<1>3. MarkupFits
  BY DEF WalkInit, MarkupFits
<1> QED BY <1>1, <1>2, <1>3 DEF WordInv

\* What a text is cut into tells it.
LEMMA CutsTell ==
    ASSUME NEW t \in TextType, t # NoWords
    PROVE  /\ \A c \in {RenderWords(t), RenderSmart(t), SmartCaption(t), SplitCaption(t)} :
                 c \in Seq(Sounds(t)) /\ KeptFor(t, c, FALSE) /\ c # <<>>
           /\ Slices(t) \in Seq(Sounds(t)) /\ KeptFor(t, Slices(t), TRUE)
<1>1. ASSUME NEW c, Rendered(t, 0, c)
      PROVE  c \in Seq(Sounds(t)) /\ KeptFor(t, c, FALSE) /\ c # <<>>
  <2>1. c \in Seq(Sounds(t)) /\ KeptFor(t, c, FALSE)
    BY <1>1, RenderedKept
  <2> QED BY <2>1, KeptNotEmpty
<1>2. \A c \in {RenderWords(t), RenderSmart(t), SmartCaption(t), SplitCaption(t)} : Rendered(t, 0, c)
  <2>1. Size(t) > 0
    BY WordsSized
  <2> QED BY <2>1, RenderWordsIs, RenderSmartIs, SmartCaptionIs, SplitCaptionIs
<1>3. Slices(t) \in Seq(Sounds(t)) /\ KeptFor(t, Slices(t), TRUE)
  BY SlicesAre, WholeKept
<1> QED BY <1>1, <1>2, <1>3

\* What has been read and is to be sent, or has been read, tells the words.
Telling(c, is) == (is /\ link.captioned) \/ KeptFor(link.words, c, is)

\* Every step keeps what has been read and what is to be sent telling the words.
LEMMA NextWords == WalkInv /\ WordInv /\ [WalkNext]_walkVars => WordInv'
<1> SUFFICES ASSUME WalkInv, WordInv, [WalkNext]_walkVars PROVE WordInv'
  OBVIOUS
<1>1. WalkTypes /\ Placed /\ WordTypes /\ WordsFit /\ MarkupFits
  BY DEF WalkInv, WordInv
<1>2. Kinds /\ WordKinds
  BY <1>1, KindOfStep, WordKindOfStep
<1>3. link' = link
  BY <1>1, <1>2, TypesKept
<1>4. PICK t : t = link.words
  OBVIOUS
<1>5. t \in TextType
  BY <1>1, <1>4, PostWalkAssumption DEF WalkTypes, LinkType
<1>6. read \in Seq(Sounds(t)) /\ out \in Seq(Sounds(t)) /\ plain \in BOOLEAN /\ parsed \subseteq 1..Len(read)
  BY <1>1, <1>4 DEF WordTypes
<1>7. ASSUME /\ read' \in Seq(Sounds(t)) /\ out' \in Seq(Sounds(t)) /\ plain' \in BOOLEAN
             /\ pc' \in AtWords => t # NoWords
             /\ \/ t = NoWords
                \/ /\ pc' \in Before \ {"text"} => ~plain' /\ read' = <<>>
                   /\ pc' = "text" => ~link.captioned
                   /\ pc' \in {"deliver", "overflow", "albumText"} => link.captioned
                   /\ pc' = "overflow" => out' # <<>> /\ Len(SplitCaption(t)) > 1
                   /\ pc' \in AtWords => Telling(read' \o out', plain')
                   /\ WordsSent' => Telling(read', plain')
             /\ parsed' \subseteq 1..Len(read')
             /\ MarkupFits'
      PROVE  WordInv'
  <2>1. WordTypes'
    BY <1>1, <1>3, <1>4, <1>6, <1>7 DEF WordTypes
  <2>2. WordsFit'
    BY <1>3, <1>4, <1>7 DEF WordsFit, Telling
  <2> QED BY <1>7, <2>1, <2>2 DEF WordInv
<1>8. t # NoWords =>
         /\ pc \in Before \ {"text"} => ~plain /\ read = <<>>
         /\ pc = "text" => ~link.captioned
         /\ pc \in {"deliver", "overflow", "albumText"} => link.captioned
         /\ pc = "overflow" => out # <<>> /\ Len(SplitCaption(t)) > 1
         /\ pc \in AtWords => Telling(read \o out, plain)
         /\ WordsSent => Telling(read, plain)
  BY <1>1, <1>4 DEF WordsFit, Telling
<1> HIDE DEF WordInv
<1>9. \A r : r \in Seq(Sounds(t)) => r \o <<>> = r
  OBVIOUS
\* The same pieces, at a place where the words do not count as sent.
<1>25. ASSUME UNCHANGED textVars, t # NoWords => pc' # "overflow" /\ ~WordsSent'
       PROVE  MarkupFits'
  BY <1>1, <1>3, <1>4, <1>25, LinkStays DEF MarkupFits, textVars, Private
<1>11. CASE Wordless
  <2>1. t = NoWords
    BY <1>4, <1>11 DEF Wordless
  <2> QED BY <1>4, <1>6, <1>7, <1>11, <1>25, <2>1 DEF Wordless, Same, textVars
<1>12. CASE Rests
  <2>1. pc' = "done" /\ UNCHANGED textVars /\ ~WordsSent'
    BY <1>12 DEF Rests, Same, WordsSent
  <2> QED BY <1>6, <1>7, <1>25, <2>1 DEF textVars, Before, AtWords
<1>13. CASE Begins
  <2>1. /\ pc' \in {"detect", "fetch", "done"} /\ ~plain' /\ plain' \in BOOLEAN /\ parsed' = {}
        /\ read' = <<>> /\ out' = <<>> /\ ~WordsSent'
    BY <1>13 DEF Begins, WordsSent
  <2>2. read' \in Seq(Sounds(t)) /\ out' \in Seq(Sounds(t))
    BY <2>1
  <2>3. MarkupFits'
    BY <2>1 DEF MarkupFits
  <2> QED BY <1>7, <2>1, <2>2, <2>3 DEF Before, AtWords
<1>14. CASE Goes
  <2>1. pc' = "deliver" /\ t # NoWords => link.captioned
    BY <1>4, <1>14 DEF Goes, IsText
  <2>2. pc' \in Before \ {"text"} /\ pc \in Before \ {"text"} /\ UNCHANGED textVars /\ ~WordsSent'
    BY <1>14 DEF Goes, Same, WordsSent, Before
  <2>3. MarkupFits'
    BY <1>25, <2>2 DEF Before
  <2> QED BY <1>6, <1>7, <1>8, <2>1, <2>2, <2>3 DEF textVars, Before, AtWords
<1>15. CASE Misses
  <2>1. t # NoWords => ~WordsSent'
    BY <1>3, <1>4, <1>15, MissesWords
  <2>2. pc' \in {"head", "wait", "done"} /\ UNCHANGED textVars
    BY <1>15 DEF Misses, Same
  <2>3. MarkupFits'
    BY <1>25, <2>1, <2>2
  <2> QED BY <1>6, <1>7, <2>1, <2>2, <2>3 DEF textVars, Before, AtWords
<1>16. CASE Waits
  <2>1. again'
    BY <1>1, <1>16 DEF Waits, Placed
  <2>2. pc' = "head" /\ UNCHANGED textVars /\ ~WordsSent'
    BY <1>16, <2>1 DEF Waits, Same, WordsSent
  <2>3. MarkupFits'
    BY <1>25, <2>2
  <2> QED BY <1>6, <1>7, <2>2, <2>3 DEF textVars, Before, AtWords
<1>17. CASE Stays
  <2>1. WordsSent' => WordsSent
    BY <1>3, <1>17, LinkStays, HereStays DEF Stays, WordsSent, With, SameAlbum, AlbumOf, Private, PhotoAlbum, Members
  <2>2. pc \in AtWords => t # NoWords
    BY <1>1, <1>4 DEF WordTypes
  <2>3. Here' = Here
    BY <1>3, <1>17, LinkStays DEF Stays, Here, At, AlbumOf
  <2>4. PhotoAlbum(Here)' <=> PhotoAlbum(Here)
    BY <1>3, <2>3 DEF PhotoAlbum, Members, AlbumOf
  <2>5. MarkupFits'
    BY <1>1, <1>3, <1>17, <2>1, <2>4 DEF MarkupFits, Stays, textVars, Private
  <2> QED BY <1>6, <1>7, <1>8, <1>17, <2>1, <2>2, <2>5 DEF Stays, textVars
<1>18. CASE BeginsText
  <2>1. t # NoWords /\ ~link.captioned /\ ~plain /\ read = <<>>
    BY <1>4, <1>8, <1>18 DEF BeginsText, IsText, Before
  <2>2. out' \in Seq(Sounds(t)) /\ KeptFor(t, out', FALSE)
    <3>1. out' \in {RenderWords(t), RenderSmart(t)}
      BY <1>4, <1>18 DEF BeginsText, Pieces
    <3> QED BY <1>5, <2>1, <3>1, CutsTell
  <2>3. KeptFor(t, read \o out', FALSE)
    BY <1>5, <1>6, <2>1, <2>2, BehindKept
  <2>4. Telling(read' \o out', plain')
    BY <1>4, <1>6, <1>18, <2>1, <2>3 DEF BeginsText, Telling
  <2>5. MarkupFits'
    BY <1>1, <1>3, <1>18 DEF MarkupFits, BeginsText, WordsSent, Private
  <2> QED BY <1>6, <1>7, <1>18, <2>1, <2>2, <2>4, <2>5 DEF BeginsText, WordsSent, Before, AtWords
<1>19. CASE TakesSlices
  <2>1. t # NoWords /\ ~link.captioned
    BY <1>1, <1>4, <1>8, <1>19 DEF TakesSlices, WordTypes, AtWords
  <2>2. out' \in Seq(Sounds(t)) /\ KeptFor(t, out', TRUE)
    BY <1>4, <1>5, <1>19, <2>1, CutsTell DEF TakesSlices
  <2>3. KeptFor(t, read \o out', TRUE)
    BY <1>5, <1>6, <2>2, BehindKept
  <2>4. Telling(read' \o out', plain')
    BY <1>4, <1>19, <2>3 DEF TakesSlices, Telling
  <2>5. MarkupFits'
    BY <1>3, <1>19 DEF MarkupFits, TakesSlices, WordsSent
  <2> QED BY <1>6, <1>7, <1>19, <2>1, <2>2, <2>4, <2>5 DEF TakesSlices, WordsSent, Before, AtWords
<1>20. CASE BeginsAlbum
  <2>1. t # NoWords /\ ~plain /\ link.captioned
    <3>1. pos # 0 /\ PhotoAlbum(Here)
      BY <1>1, <1>20 DEF BeginsAlbum, Placed
    <3>2. Here # NoAlbum
      BY <1>1, <3>1, LinkFacts DEF WalkTypes
    <3> QED BY <1>1, <1>4, <1>8, <1>20, <3>1, <3>2, CaptionHere DEF BeginsAlbum, Before
  <2>2. PICK c : c = SmartCaption(t)
    OBVIOUS
  <2>3. c \in Seq(Sounds(t)) /\ KeptFor(t, c, FALSE) /\ c # <<>>
    BY <1>5, <2>1, <2>2, CutsTell
  <2>4. read' = Append(<<>>, Head(c)) /\ out' = Tail(c)
    BY <1>4, <1>20, <2>2 DEF BeginsAlbum
  <2>5. read' \in Seq(Sounds(t)) /\ out' \in Seq(Sounds(t)) /\ read' \o out' = <<>> \o c
    BY <2>3, <2>4, PieceMoves
  <2>6. <<>> \o c = c
    BY <2>3
  <2>7. Telling(read' \o out', plain')
    BY <1>4, <1>6, <1>20, <2>1, <2>3, <2>5, <2>6 DEF BeginsAlbum, Telling
  <2>8. /\ Len(read') = 1 /\ read'[1] = Head(c) /\ parsed' \subseteq {1}
        /\ 1 \in parsed' => Linkless(Head(c))
    BY <1>4, <1>20, <2>2 DEF BeginsAlbum
  <2>9. parsed' \subseteq 1..Len(read') /\ \A i \in parsed' : Linkless(read'[i])
    BY <2>8
  <2>10. MarkupFits'
    BY <1>3, <1>4, <1>20, <2>1, <2>9 DEF MarkupFits, BeginsAlbum, WordsSent
  <2> QED BY <1>6, <1>7, <1>20, <2>1, <2>5, <2>7, <2>9, <2>10 DEF BeginsAlbum, WordsSent, Before, AtWords
<1>21. CASE BeginsCaption
  <2>1. t # NoWords /\ ~plain /\ link.captioned /\ read = <<>>
    BY <1>4, <1>8, <1>21 DEF BeginsCaption, Before
  <2>2. PICK c : c = SplitCaption(t)
    OBVIOUS
  <2>3. c \in Seq(Sounds(t)) /\ KeptFor(t, c, FALSE) /\ c # <<>>
    BY <1>5, <2>1, <2>2, CutsTell
  <2>4. read' = Append(read, Head(c)) /\ out' = Tail(c)
    BY <1>4, <1>21, <2>2, <2>3 DEF BeginsCaption
  <2>5. read' \in Seq(Sounds(t)) /\ out' \in Seq(Sounds(t)) /\ read' \o out' = read \o c
    BY <1>6, <2>3, <2>4, PieceMoves
  <2>6. KeptFor(t, read \o c, FALSE)
    BY <1>5, <1>6, <2>1, <2>3, BehindKept
  <2>7. Telling(read' \o out', plain')
    BY <1>4, <1>6, <1>21, <2>1, <2>5, <2>6 DEF BeginsCaption, Telling
  <2>10. parsed' = {}
    <3>1. Len(read) = 0
      BY <2>1
    <3>2. 1..Len(read) = {}
      BY <3>1
    <3> QED BY <1>6, <1>21, <3>2 DEF BeginsCaption
  <2>11. MarkupFits'
    BY <2>10 DEF MarkupFits
  <2>8. CASE out' = <<>>
    <3>1. Telling(read', plain')
      BY <1>9, <2>5, <2>7, <2>8
    <3> QED BY <1>6, <1>7, <1>21, <2>1, <2>5, <2>8, <2>10, <2>11, <3>1 DEF BeginsCaption, Before, AtWords
  <2>9. CASE out' # <<>>
    <3>1. Len(c) > 1
      BY <2>3, <2>4, <2>9
    <3> QED BY <1>6, <1>7, <1>21, <2>1, <2>2, <2>5, <2>7, <2>9, <2>10, <2>11, <3>1 DEF BeginsCaption, WordsSent, Before, AtWords
  <2> QED BY <2>8, <2>9
<1>22. CASE Advances
  <2>1. t # NoWords /\ Telling(read \o out, plain)
    BY <1>1, <1>4, <1>8, <1>22 DEF Advances, WordTypes
  <2>2. read' \in Seq(Sounds(t)) /\ out' \in Seq(Sounds(t)) /\ read' \o out' = read \o out
    BY <1>6, <1>22, PieceMoves DEF Advances
  <2>3. Telling(read' \o out', plain')
    BY <1>22, <2>1, <2>2 DEF Advances
  <2>4. out' = <<>> => Telling(read', plain')
    BY <1>9, <2>2, <2>3
  <2>5. /\ Len(read') = Len(read) + 1 /\ Len(read) \in Nat /\ read'[Len(read) + 1] = Head(out)
        /\ \A i \in 1..Len(read) : read'[i] = read[i]
    BY <1>6, <1>22 DEF Advances
  <2>6. parsed' \subseteq 1..Len(read')
    <3>1. parsed \subseteq 1..Len(read)
      BY <1>1 DEF WordTypes
    <3>2. parsed' \subseteq parsed \cup {Len(read) + 1}
      BY <1>22 DEF Advances
    <3>3. 1..Len(read) \subseteq 1..Len(read') /\ Len(read) + 1 \in 1..Len(read')
      BY <2>5
    <3> QED BY <3>1, <3>2, <3>3
  <2>7. ~plain' => \A i \in parsed' : Linkless(read'[i])
    <3> SUFFICES ASSUME ~plain', NEW i \in parsed' PROVE Linkless(read'[i])
      OBVIOUS
    <3>1. ~plain
      BY <1>22 DEF Advances
    <3>2. CASE i \in parsed
      BY <1>1, <1>6, <2>5, <3>1, <3>2 DEF MarkupFits
    <3>3. CASE i \notin parsed
      <4>1. i = Len(read) + 1 /\ Linkless(Head(out))
        BY <1>22, <3>1, <3>3 DEF Advances
      <4> QED BY <2>5, <4>1
    <3> QED BY <3>2, <3>3
  <2>8. MarkupFits'
    <3>1. pc = "overflow" => parsed' = {}
      BY <1>1, <1>4, <1>8, <1>22, <2>1 DEF MarkupFits, Advances
    <3>2. ~link.captioned => pc = "text"
      BY <1>8, <1>22, <2>1 DEF Advances, AtWords
    <3>3. Private /\ ~link.captioned /\ ~plain => parsed' = {}
      BY <1>1, <1>4, <1>22, <2>1, <3>2 DEF MarkupFits, Advances
    <3>4. WordsSent' => pc = "overflow"
      BY <1>22 DEF Advances, WordsSent, AtWords
    <3>5. pc' = "overflow" => pc = "overflow"
      BY <1>22 DEF Advances
    <3>6. plain' = plain /\ (Private' <=> Private)
      BY <1>3, <1>22 DEF Advances, Private
    <3> QED BY <1>3, <2>7, <3>1, <3>3, <3>4, <3>5, <3>6 DEF MarkupFits
  <2> QED BY <1>6, <1>7, <1>8, <1>22, <2>1, <2>2, <2>3, <2>4, <2>6, <2>8 DEF Advances, WordsSent, Before, AtWords
<1>23. CASE Completes
  <2>1. t # NoWords /\ Telling(read \o out, plain)
    BY <1>1, <1>4, <1>8, <1>23 DEF Completes, WordTypes, AtWords
  <2>2. Telling(read, plain)
    BY <1>6, <1>9, <1>23, <2>1 DEF Completes
  <2>3. link.captioned /\ WordsSent' => PhotoAlbum(Here)'
    <3>1. link.captioned => pc = "albumText"
      BY <1>4, <1>8, <1>23, <2>1 DEF Completes
    <3> QED BY <1>3, <1>4, <1>23, <2>1, <3>1, AlbumPast DEF Completes
  <2>4. MarkupFits'
    BY <1>1, <1>3, <1>23, <2>3 DEF MarkupFits, Completes, textVars, Private
  <2> QED BY <1>6, <1>7, <1>23, <2>1, <2>2, <2>4 DEF Completes, textVars, Before, AtWords
<1>24. CASE GivesUp
  <2>1. t # NoWords /\ link.captioned /\ (pc = "overflow" => Len(SplitCaption(t)) > 1)
    BY <1>1, <1>4, <1>8, <1>24 DEF GivesUp, WordTypes, AtWords
  <2>2. read' \in Seq(Sounds(t)) /\ out' \in Seq(Sounds(t))
    <3>1. CASE pc = "albumText" /\ out # <<>> /\ out' = Tail(out) /\ read' = read
      BY <1>6, <3>1
    <3>2. CASE pc = "overflow" /\ out' = <<>> /\ read' \in {read, Append(read, Together(SplitCaption(t)))}
      <4>1. SplitCaption(t) \in Seq(Sounds(t))
        BY <1>5, <2>1, CutsTell
      <4>2. Together(SplitCaption(t)) \in Sounds(t)
        BY <1>5, <2>1, <3>2, <4>1, TogetherIs
      <4> QED BY <1>6, <3>2, <4>2
    <3> QED BY <1>4, <1>24, <3>1, <3>2 DEF GivesUp
  <2>3. \A r : Telling(r, plain')
    BY <1>24, <2>1 DEF GivesUp, Telling
  <2>4. parsed' \subseteq 1..Len(read')
    BY <1>24, <1>6, <2>2 DEF GivesUp
  <2>5. MarkupFits'
    <3>1. pc = "overflow" => parsed' = {}
      BY <1>1, <1>4, <1>24, <2>1 DEF MarkupFits, GivesUp
    <3>2. plain' = TRUE /\ (WordsSent' => pc = "overflow") /\ pc' # "overflow"
      BY <1>24 DEF GivesUp, WordsSent
    <3> QED BY <3>1, <3>2 DEF MarkupFits
  <2> QED BY <1>6, <1>7, <1>24, <2>1, <2>2, <2>3, <2>4, <2>5 DEF GivesUp, WordsSent, Before, AtWords
<1> QED BY <1>2, <1>11, <1>12, <1>13, <1>14, <1>15, <1>16, <1>17, <1>18, <1>19, <1>20, <1>21, <1>22, <1>23, <1>24
        DEF WordKinds

\* What the invariant says is what WordsKept wants.  What is seen of a piece is all of it and
\* its marks, unless the library reads markup, and then all but the delimiters.
LEMMA InvGivesWords == WalkTypes /\ WordInv => WordsKept
<1> SUFFICES ASSUME WalkTypes, WordInv PROVE WordsKept
  OBVIOUS
<1>1. WordTypes /\ WordsFit /\ MarkupFits
  BY DEF WordInv
<1>2. PICK t : t = link.words
  OBVIOUS
<1>3. WordsSent => (plain /\ link.captioned) \/ KeptFor(t, read, plain)
  BY <1>1, <1>2 DEF WordsFit, WordsSent
<1>8. ASSUME NEW i \in 1..Len(read)
      PROVE  /\ Seen(i).lo = read[i].lo /\ Seen(i).hi = read[i].hi
             /\ Seen(i).eaten \subseteq Ticks(t, read[i])
             /\ i \notin parsed => Seen(i).eaten = {} /\ Seen(i).marks = read[i].marks
             /\ Seen(i).eaten = {} => Seen(i).marks \subseteq read[i].marks
  <2>1. PICK p : p = read[i]
    OBVIOUS
  <2>2. PICK v : v = Seen(i)
    OBVIOUS
  <2>3. v = Received(t, p, i \in parsed)
    BY <1>2, <2>1, <2>2, Zenon DEF Seen
  <2> DEFINE shown(marks, eaten) == [lo |-> p.lo, hi |-> p.hi, head |-> p.head,
                                    marks |-> marks, eaten |-> eaten]
  <2>4. CASE i \notin parsed
    <3>1. v = shown(p.marks, {})
      BY <2>3, <2>4 DEF Received
    <3>2. v.lo = p.lo /\ v.hi = p.hi /\ v.eaten = {} /\ v.marks = p.marks
      BY <3>1
    <3> QED BY <2>1, <2>2, <2>4, <3>2, Zenon
  <2>5. CASE i \in parsed /\ Ticks(t, p) = {}
    <3>1. v = shown(Written(p), {})
      BY <2>3, <2>5 DEF Received
    <3>2. Written(p) \subseteq p.marks
      BY DEF Written
    <3> HIDE DEF Written
    <3>3. v.lo = p.lo /\ v.hi = p.hi /\ v.eaten = {} /\ v.marks \subseteq p.marks
      BY <3>1, <3>2
    <3> QED BY <2>1, <2>2, <2>5, <3>3, Zenon
  <2>6. CASE i \in parsed /\ Ticks(t, p) # {}
    <3>1. v = shown(Paired(t, p), Ticks(t, p))
      BY <2>3, <2>6 DEF Received
    <3>2. v.lo = p.lo /\ v.hi = p.hi /\ v.eaten = Ticks(t, p)
      BY <3>1
    <3> QED BY <2>1, <2>2, <2>6, <3>2, Zenon
  <2> QED BY <2>4, <2>5, <2>6
<1>9. ASSUME WordsSent, ~plain \/ ~link.captioned, NEW k \in Visible(t)
      PROVE  \/ Char(t, k) = "tick" /\ ~Literally
             \/ \E i \in 1..Len(read) : k \in (Seen(i).lo..Seen(i).hi - 1) \ Seen(i).eaten
  <2>1. PICK i \in 1..Len(read) : k \in read[i].lo..read[i].hi - 1
    BY <1>3, <1>9 DEF KeptFor
  <2>2. k \in Seen(i).lo..Seen(i).hi - 1
    BY <1>8, <2>1
  <2>3. CASE k \notin Seen(i).eaten
    BY <2>2, <2>3
  <2>4. CASE k \in Seen(i).eaten
    <3>1. Char(t, k) = "tick"
      BY <1>8, <2>4 DEF Ticks
    <3>2. parsed # {}
      BY <1>8, <2>4
    <3>3. ~Literally
      BY <1>1, <1>9, <3>2 DEF MarkupFits, Literally, WordsSent
    <3> QED BY <3>1, <3>3
  <2> QED BY <2>3, <2>4
<1>4. TextKept
  BY <1>2, <1>3, <1>9 DEF TextKept, KeptFor
<1>5. ASSUME NEW i \in 1..Len(read), Seen(i).eaten = {}, NEW m \in Seen(i).marks
      PROVE  /\ read[i].head <= m.off /\ m.off + m.len <= read[i].head + Units(t, read[i].lo, read[i].hi)
             /\ \E n \in t.marks :
                   /\ n.kind = m.kind
                   /\ n.off <= Origin(read[i], m) /\ Origin(read[i], m) + m.len <= n.off + n.len
  <2>1. read[i] \in Sounds(t) /\ m \in read[i].marks
    BY <1>1, <1>2, <1>5, <1>8 DEF WordTypes
  <2>2. Honest(t, read[i], m)
    BY <2>1 DEF Sounds
  <2> QED BY <1>2, <2>2 DEF Honest, Origin
<1>6. ASSUME WordsSent, ~plain, NEW m \in t.marks, Plainly(t, m)
      PROVE  \E i \in 1..Len(read) : \E n \in Seen(i).marks :
                 n.kind = "link" /\ n.len = m.len /\ Origin(read[i], n) = m.off
  <2>1. Meets(read, Homes(t, m))
    BY <1>3, <1>6 DEF KeptFor
  <2>2. PICK i \in 1..Len(read) : read[i] \in Homes(t, m)
    BY <2>1 DEF Meets
  <2>3. PICK n \in read[i].marks :
            n.kind = "link" /\ n.len = m.len /\ Units(t, 0, read[i].lo) + n.off - read[i].head = m.off
    BY <2>2 DEF Homes
  <2>4. i \notin parsed
    BY <1>1, <1>6, <2>3 DEF MarkupFits, Linkless
  <2>5. n \in Seen(i).marks
    BY <1>8, <2>3, <2>4
  <2> QED BY <1>2, <2>3, <2>5 DEF Origin
<1>7. MarksKept
  BY <1>2, <1>5, <1>6 DEF MarksKept
<1> QED BY <1>4, <1>7 DEF WordsKept

\* Nothing visible of a text or caption that counts as sent is lost, nor a link that fits a
\* piece, and no entity covers what it did not cover in the post; for any text, entities,
\* limits and walk: render_chunks of both renderers, split_caption, and the ways in which a
\* text is begun again or given up.
THEOREM WordsAreKept == WalkSpec => []WordsKept
<1>1. WalkInit => WalkInv /\ WordInv
  BY FirstStep, FirstWords
<1>2. WalkInv /\ WordInv /\ [WalkNext]_walkVars => (WalkInv /\ WordInv)'
  BY NextStep, NextWords
<1>3. WalkInv /\ WordInv => WordsKept
  BY InvGivesWords DEF WalkInv
<1> QED BY <1>1, <1>2, <1>3, PTL DEF WalkSpec

==============================================================================
