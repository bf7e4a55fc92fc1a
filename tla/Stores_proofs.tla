--------------------------- MODULE Stores_proofs ---------------------------
(***************************************************************************)
(* The stores of the users' sessions, for any users, calls and workloads,  *)
(* any number of faults and of retries; and the owner's settings, for any  *)
(* commands and items, any number of launches and of faults.  The two      *)
(* share neither state nor calls.                                          *)
(***************************************************************************)
EXTENDS UserStore, OwnerSettings, TLAPS

\* The file is written with every change of the list.
FileCurrent == phase # "down" => In(file) = In(pending)

\* The process takes its memory with it.
DownEmpty ==
    phase = "down" => /\ flight = {} /\ landed = {} /\ pending = <<>> /\ flush = NoFlush
                      /\ todo = {} /\ cache = [u \in Users |-> Absent]
                      /\ \A c \in Calls : pc[c] \in {"new", "done"}

\* What a flush has passed, it has kept, brought to MongoDB, or given up.
FlushKeeps ==
    /\ flush = NoFlush \/ flush.at \in 1..(Len(pending) + 1)
    /\ \A i \in DOMAIN pending :
          i < flush.at => pending[i].write \in In(flush.kept) \cup applied \cup dropped
    /\ flush.hit => Flushing /\ Current \in applied

\* The histories have noted what they watch.
RacingNoted == \A u \in Users : Racing(u) => u \in raced

\* What the calls of a user know of the row and of the cache while none races.
Good(u) ==
    /\ \A c \in CallsOf(u) : /\ pc[c] = "found" => val[c] = row[u]
                             /\ pc[c] = "mirror" => cache[u] \in {Absent, val[c]}
                             /\ pc[c] \in Updating => cache[u] = Absent
    /\ cache[u] \in {Absent, row[u]} \/ At(u, {"mirror"}) # {}

AllGood == \A u \in Users \ (raced \cup missed) : Good(u)

\* Only a login talks, and only it and assign save.
Kinded ==
    \A c \in Calls : /\ pc[c] \in {"check", "talk"} => KindOf[c] = "login"
                     /\ pc[c] = "save" => KindOf[c] \in {"login", "assign"}

IInv == /\ TypeOK /\ Kinded
        /\ FileCurrent /\ DownEmpty /\ FlushKeeps /\ NoWriteLost
        /\ RacingNoted /\ AllGood

-----------------------------------------------------------------------------
(* Lists of failed writes.                                                 *)

LEMMA AppendFacts ==
    ASSUME NEW q \in Seq(Entries), NEW e \in Entries
    PROVE  /\ Append(q, e) \in Seq(Entries)
           /\ Len(q) \in Nat /\ DOMAIN q = 1..Len(q)
           /\ DOMAIN Append(q, e) = 1..(Len(q) + 1)
           /\ \A i \in 1..Len(q) : Append(q, e)[i] = q[i]
           /\ Append(q, e)[Len(q) + 1] = e
OBVIOUS

\* A write that joins the list.
LEMMA InAppend ==
    ASSUME NEW q \in Seq(Entries), NEW e \in Entries
    PROVE  In(Append(q, e)) = In(q) \cup {e.write}
<1> DEFINE r == Append(q, e)
<1>1. /\ Len(q) \in Nat /\ DOMAIN q = 1..Len(q) /\ DOMAIN r = 1..(Len(q) + 1)
      /\ \A i \in 1..Len(q) : r[i] = q[i]
      /\ r[Len(q) + 1] = e
  BY AppendFacts
<1> HIDE DEF r
<1>2. ASSUME NEW i \in DOMAIN r
      PROVE  r[i].write \in In(q) \cup {e.write}
  <2>1. CASE i = Len(q) + 1
    BY <1>1, <2>1
  <2>2. CASE i # Len(q) + 1
    <3>1. i \in DOMAIN q /\ r[i] = q[i]
      BY <1>1, <2>2
    <3> QED BY <3>1 DEF In
  <2> QED BY <2>1, <2>2
<1>3. ASSUME NEW i \in DOMAIN q
      PROVE  q[i].write \in In(r)
  <2>1. i \in DOMAIN r /\ r[i] = q[i]
    BY <1>1
  <2> QED BY <2>1 DEF In
<1>4. e.write \in In(r)
  <2>1. Len(q) + 1 \in DOMAIN r
    BY <1>1
  <2> QED BY <1>1, <2>1 DEF In
<1>5. In(r) \subseteq In(q) \cup {e.write}
  BY <1>2 DEF In
<1>6. In(q) \subseteq In(r)
  BY <1>3 DEF In
<1> QED BY <1>4, <1>5, <1>6 DEF r

\* An entry that is counted once more keeps its write.
LEMMA Recounted ==
    ASSUME NEW q \in Seq(Entries), NEW j \in DOMAIN q
    PROVE  LET e == [q[j] EXCEPT !.retries = @ + 1]
               r == [q EXCEPT ![j] = e]
           IN  /\ e \in Entries /\ e.write = q[j].write
               /\ r \in Seq(Entries) /\ DOMAIN r = DOMAIN q /\ Len(r) = Len(q)
               /\ \A i \in DOMAIN q : r[i].write = q[i].write
               /\ In(r) = In(q)
<1> DEFINE e == [q[j] EXCEPT !.retries = @ + 1]
           r == [q EXCEPT ![j] = e]
<1>1. Len(q) \in Nat /\ DOMAIN q = 1..Len(q) /\ q \in [1..Len(q) -> Entries]
  OBVIOUS
<1>2. q[j] \in Entries
  BY <1>1
<1>3. e \in Entries /\ e.write = q[j].write
  BY <1>2 DEF Entries
<1> HIDE DEF e
<1>4. r \in [1..Len(q) -> Entries] /\ DOMAIN r = DOMAIN q
  BY <1>1, <1>3
<1>5. r \in Seq(Entries) /\ Len(r) = Len(q)
  BY <1>1, <1>4
<1>6. \A i \in DOMAIN q : r[i].write = q[i].write
  BY <1>1, <1>3
<1> HIDE DEF r
<1>7. In(r) = In(q)
  BY <1>4, <1>6 DEF In
<1> QED BY <1>3, <1>4, <1>5, <1>6, <1>7 DEF e, r

LEMMA EntryFacts ==
    ASSUME NEW w \in Writes
    PROVE  Entry(w) \in Entries /\ Entry(w).write = w
BY DEF Entry, Entries

LEMMA EmptyIn == In(<<>>) = {}
BY DEF In

-----------------------------------------------------------------------------
(* Every step keeps the types.                                             *)

LEMMA EnterTypes ==
    ASSUME TypeOK, NEW c \in Calls, NEW where \in Places,
           NEW kept \in Records \cup {Absent}, Enter(c, where, kept)
    PROVE  /\ pc' \in [Calls -> Places]
           /\ val' \in [Calls -> Records \cup {Absent}]
           /\ cache' \in [Users -> Records \cup {Absent}]
BY UserStoreAssumption DEF Enter, TypeOK

\* What an Enter changes, call by call and user by user.
LEMMA EnterFacts ==
    ASSUME TypeOK, NEW c \in Calls, NEW where, NEW kept, Enter(c, where, kept)
    PROVE  /\ pc'[c] = where /\ val'[c] = IF where = "mirror" THEN val[c] ELSE Absent
           /\ \A d \in Calls : d # c => pc'[d] = pc[d] /\ val'[d] = val[d]
           /\ cache'[UserOf[c]] = IF where \in Updating THEN Absent ELSE kept
           /\ \A u \in Users : u # UserOf[c] => cache'[u] = cache[u]
BY UserStoreAssumption DEF Enter, TypeOK

LEMMA AfterFacts ==
    ASSUME NEW c \in Calls, NEW r
    PROVE  After(c, r) \in {"check", "talk", "done", "again", "clear"}
BY UserStoreAssumption DEF After, Kinds

LEMMA OpeningFacts ==
    ASSUME NEW c \in Calls
    PROVE  Opening(c) \in {"look", "save", "clear", "find"}
BY UserStoreAssumption DEF Opening, Kinds

LEMMA CachedType ==
    ASSUME TypeOK, NEW c \in Calls
    PROVE  Cached(c) \in Records \cup {Absent}
BY UserStoreAssumption DEF Cached, TypeOK

\* Steps of a call that are not writes.
LEMMA ReadTypes ==
    ASSUME TypeOK, NEW c \in Calls,
           Start(c) \/ FindCached(c) \/ FindMisses(c) \/ Select(c) \/ Fill(c) \/ Ask(c)
           \/ AskInVain(c) \/ Came(c) \/ Mirror(c) \/ Look(c) \/ Check(c) \/ Talk(c)
    PROVE  TypeOK'
<1>0. After(c, Absent) \in Places /\ Opening(c) \in Places /\ UserOf[c] \in Users
      /\ Cached(c) \in Records \cup {Absent} /\ val[c] \in Records \cup {Absent}
      /\ \A r : After(c, r) \in Places
  BY AfterFacts, OpeningFacts, CachedType, UserStoreAssumption
  DEF Places, Changing, Updating, TypeOK
<1>00. {"found", "ask", "came", "mirror", "done", "save", "clear", "select", "insert", "find"}
           \subseteq Places
  BY DEF Places, Changing, Updating
<1>1. CASE Start(c)
  BY <1>0, <1>1, EnterTypes DEF Start, TypeOK, Watch, syncVars, startVars, fates
<1>2. CASE FindCached(c)
  BY <1>0, <1>2, EnterTypes DEF FindCached, TypeOK, Watch, syncVars, startVars, fates
<1>3. CASE FindMisses(c)
  BY <1>0, <1>00, <1>3, EnterTypes DEF FindMisses, TypeOK, Watch, syncVars, startVars, fates
<1>4. CASE Select(c)
  <2>1. PICK r \in {row[UserOf[c]], Absent} :
           /\ IF r = row[UserOf[c]] THEN UNCHANGED <<missed, faults>> ELSE SqliteFails(UserOf[c])
           /\ val' = [val EXCEPT ![c] = r]
           /\ pc' = [pc EXCEPT ![c] = IF r = Absent THEN "ask" ELSE "found"]
    BY <1>4 DEF Select
  <2>2. val' \in [Calls -> Records \cup {Absent}] /\ pc' \in [Calls -> Places]
    BY <1>0, <1>00, <2>1 DEF TypeOK
  <2>3. missed' \subseteq Users /\ faults' \in Nat
    BY <1>0, <2>1 DEF SqliteFails, Fault, TypeOK
  <2> QED BY <1>4, <2>2, <2>3 DEF Select, TypeOK, Watch, stores, syncVars, startVars
<1>5. CASE Fill(c)
  BY <1>0, <1>5, EnterTypes DEF Fill, TypeOK, Watch, syncVars, startVars, fates
<1>6. CASE Ask(c)
  BY <1>0, <1>00, <1>6 DEF Ask, TypeOK, Watch, stores, syncVars, startVars, fates
<1>7. CASE AskInVain(c)
  BY <1>0, <1>7, EnterTypes DEF AskInVain, Fault, TypeOK, Watch, syncVars, startVars, fates
<1>8. CASE Came(c)
  BY <1>0, <1>00, <1>8, EnterTypes DEF Came, TypeOK, Watch, syncVars, startVars, fates
<1>9. CASE Mirror(c)
  <2>1. pc' \in [Calls -> Places] /\ val' \in [Calls -> Records \cup {Absent}]
        /\ cache' \in [Users -> Records \cup {Absent}]
    BY <1>0, <1>9, EnterTypes DEF Mirror
  <2>2. row' \in [Users -> Records \cup {Absent}]
    BY <1>0, <1>9 DEF Mirror, TypeOK
  <2>3. missed' \subseteq Users /\ faults' \in Nat
    BY <1>0, <1>9 DEF Mirror, SqliteFails, Fault, TypeOK
  <2> QED BY <1>9, <2>1, <2>2, <2>3 DEF Mirror, TypeOK, Watch, syncVars, startVars
<1>10. CASE Look(c)
  <2>1. pc' \in [Calls -> Places]
    BY <1>00, <1>10 DEF Look, TypeOK
  <2>2. missed' \subseteq Users /\ faults' \in Nat
    BY <1>0, <1>10 DEF Look, SqliteFails, Fault, TypeOK
  <2> QED BY <1>10, <2>1, <2>2 DEF Look, TypeOK, Watch, stores, syncVars, startVars
<1>11. CASE Check(c)
  BY <1>0, <1>00, <1>11, EnterTypes DEF Check, TypeOK, Watch, syncVars, startVars, fates
<1>12. CASE Talk(c)
  BY <1>0, <1>00, <1>12, EnterTypes DEF Talk, TypeOK, Watch, syncVars, startVars, fates
<1> QED BY <1>1, <1>2, <1>3, <1>4, <1>5, <1>6, <1>7, <1>8, <1>9, <1>10, <1>11, <1>12

\* The list holds writes.
LEMMA CurrentFacts ==
    ASSUME TypeOK, Flushing
    PROVE  /\ flush.at \in DOMAIN pending /\ pending[flush.at] \in Entries
           /\ Current \in Writes /\ Owner(Current) \in Users
<1>1. flush.at \in DOMAIN pending /\ pending[flush.at] \in Entries
  BY DEF Flushing, TypeOK
<1> QED BY <1>1, UserStoreAssumption DEF Current, Entries, Writes, Owner

LEMMA OpenWrites ==
    ASSUME TypeOK
    PROVE  Open \subseteq Writes
<1>1. ASSUME NEW i \in DOMAIN pending
      PROVE  pending[i].write \in Writes
  <2>1. pending[i] \in Entries
    BY DEF TypeOK
  <2> QED BY <2>1 DEF Entries
<1> QED BY <1>1 DEF Open, In, TypeOK

\* The two writes of a call.
LEMMA WriteTypes ==
    ASSUME TypeOK, Kinded, NEW c \in Calls, Insert(c) \/ Update(c)
    PROVE  TypeOK'
<1>0. UserOf[c] \in Users /\ None \in Records /\ {"done", "talk", "find"} \subseteq Places
  BY UserStoreAssumption DEF Records, Places
<1>1. CASE Insert(c)
  <2>1. [by |-> c, step |-> pc[c], rec |-> None] \in Writes
    BY <1>0, <1>1 DEF Insert, Writes
  <2>2. issued' \subseteq Writes /\ flight' \subseteq Writes
    BY <1>1, <2>1 DEF Insert, Issue, TypeOK
  <2>3. row' \in [Users -> Records \cup {Absent}]
    BY <1>0, <1>1 DEF Insert, TypeOK
  <2>4. missed' \subseteq Users /\ faults' \in Nat
    BY <1>0, <1>1 DEF Insert, SqliteFails, Fault, TypeOK
  <2>5. pc' \in [Calls -> Places]
    BY <1>0, <1>1 DEF Insert, TypeOK
  <2> QED BY <1>1, <2>2, <2>3, <2>4, <2>5 DEF Insert, TypeOK, Watch, startVars
<1>2. CASE Update(c)
  <2> DEFINE r == IF pc[c] = "save" THEN c ELSE None
  <2>0. Updating = {"clear", "again", "save"}
    BY DEF Updating
  <2>1. /\ pc[c] \in Updating /\ Issue(c, r)
        /\ \/ row' = [row EXCEPT ![UserOf[c]] = r] /\ UNCHANGED <<missed, faults>>
           \/ SqliteFails(UserOf[c]) /\ UNCHANGED row
    BY <1>2 DEF Update
  <2>2. r \in Records
    BY <1>0, <2>1 DEF Kinded, Records, Sessions
  <2> HIDE DEF r
  <2>3. [by |-> c, step |-> pc[c], rec |-> r] \in Writes
    BY <2>0, <2>1, <2>2 DEF Writes
  <2>4. issued' \subseteq Writes /\ flight' \subseteq Writes
    BY <2>1, <2>3 DEF Issue, TypeOK
  <2>5. /\ row' \in [Users -> Records \cup {Absent}]
        /\ missed' \subseteq Users /\ faults' \in Nat
    <3>1. row' \in [Users -> Records \cup {Absent}]
      BY <1>0, <2>1, <2>2 DEF TypeOK
    <3>2. missed' \subseteq Users /\ faults' \in Nat
      BY <1>0, <2>1 DEF SqliteFails, Fault, TypeOK
    <3> QED BY <3>1, <3>2
  <2>6. pc' \in [Calls -> Places] /\ cleared' \subseteq Users /\ verifying' \subseteq Calls
    BY <1>0, <1>2 DEF Update, TypeOK
  <2> QED BY <1>2, <2>4, <2>5, <2>6 DEF Update, TypeOK, Watch, startVars
<1> QED BY <1>1, <1>2

\* A flush that goes on to the next entry.
LEMMA Advanced ==
    ASSUME NEW f \in [at : Nat, kept : Seq(Entries), hit : BOOLEAN],
           NEW g, g = [f EXCEPT !.at = @ + 1, !.hit = FALSE]
    PROVE  /\ g \in [at : Nat, kept : Seq(Entries), hit : BOOLEAN]
           /\ g.at = f.at + 1 /\ g.kept = f.kept /\ g.hit = FALSE
<1>1. [f EXCEPT !.at = @ + 1] \in [at : Nat, kept : Seq(Entries), hit : BOOLEAN]
  OBVIOUS
<1>2. g = [[f EXCEPT !.at = @ + 1] EXCEPT !.hit = FALSE]
  OBVIOUS
<1> QED BY <1>1, <1>2

\* SyncManager.
LEMMA SyncTypes ==
    ASSUME TypeOK, (\E w \in Open : Delivery(w)) \/ Flush
    PROVE  TypeOK'
<1>0. Open \subseteq Writes
  BY OpenWrites
<1>1. ASSUME NEW w \in Open, Land(w)
      PROVE  TypeOK'
  BY <1>0, <1>1, UserStoreAssumption
  DEF Land, Apply, Owner, Writes, TypeOK, Watch, callVars, startVars
<1>2. ASSUME NEW w \in Open, Answer(w)
      PROVE  TypeOK'
  BY <1>2 DEF Answer, TypeOK, Watch, stores, callVars, startVars, fates
<1>3. ASSUME NEW w \in Open, Fail(w)
      PROVE  TypeOK'
  <2>1. pending' \in Seq(Entries) /\ file' \in Seq(Entries)
    BY <1>0, <1>3, EntryFacts, AppendFacts DEF Fail, TypeOK
  <2>2. flight' \subseteq Writes /\ landed' \subseteq Writes /\ faults' \in Nat
    BY <1>3 DEF Fail, Fault, TypeOK
  <2> QED BY <1>3, <2>1, <2>2 DEF Fail, TypeOK, Watch, stores, callVars, startVars, fates
<1>4. CASE FlushStarts
  <2>1. flush' \in [at : Nat, kept : Seq(Entries), hit : BOOLEAN]
    <3>1. flush' = [at |-> 1, kept |-> <<>>, hit |-> FALSE]
      BY <1>4 DEF FlushStarts, NoFlush
    <3> QED BY <3>1
  <2> QED BY <1>4, <2>1 DEF FlushStarts, TypeOK, Watch, stores, callVars, startVars, fates
<1>5. CASE FlushLands
  <2>1. Current \in Writes
    BY <1>5, CurrentFacts DEF FlushLands
  <2>2. flush' \in [at : Nat, kept : Seq(Entries), hit : BOOLEAN]
    BY <1>5 DEF FlushLands, TypeOK
  <2>3. doc' \in [Users -> Records \cup {Absent}] /\ applied' \subseteq Writes
    BY <1>5, <2>1 DEF FlushLands, Apply, Writes, TypeOK
  <2> QED BY <1>5, <2>2, <2>3 DEF FlushLands, TypeOK, Watch, callVars, startVars
<1>6. CASE FlushAnswered
  <2>1. flush' \in [at : Nat, kept : Seq(Entries), hit : BOOLEAN]
    <3>1. flush \in [at : Nat, kept : Seq(Entries), hit : BOOLEAN]
          /\ flush' = [flush EXCEPT !.at = @ + 1, !.hit = FALSE]
      BY <1>6 DEF FlushAnswered, TypeOK
    <3> QED BY <3>1, Advanced
  <2> QED BY <1>6, <2>1 DEF FlushAnswered, TypeOK, Watch, stores, callVars, startVars, fates
<1>7. CASE FlushFails
  <2> DEFINE e == [pending[flush.at] EXCEPT !.retries = @ + 1]
  <2>1. /\ Flushing /\ Fault
        /\ pending' = [pending EXCEPT ![flush.at] = e]
        /\ IF e.retries < MaxRetries
           THEN /\ flush' = [at |-> flush.at + 1, kept |-> Append(flush.kept, e), hit |-> FALSE]
                /\ UNCHANGED dropped
           ELSE /\ flush' = [flush EXCEPT !.at = @ + 1, !.hit = FALSE]
                /\ dropped' = dropped \cup {e.write}
    BY <1>7 DEF FlushFails
  <2>2. e \in Entries /\ pending' \in Seq(Entries)
    BY <2>1, Recounted DEF Flushing, TypeOK
  <2> HIDE DEF e
  <2>3. flush' \in [at : Nat, kept : Seq(Entries), hit : BOOLEAN]
    <3>1. flush \in [at : Nat, kept : Seq(Entries), hit : BOOLEAN]
      BY DEF TypeOK
    <3>2. Append(flush.kept, e) \in Seq(Entries)
      BY <2>2, <3>1, AppendFacts
    <3>3. CASE e.retries < MaxRetries
      <4>1. flush' = [at |-> flush.at + 1, kept |-> Append(flush.kept, e), hit |-> FALSE]
        BY <2>1, <3>3
      <4>2. flush.at + 1 \in Nat
        BY <3>1
      <4> QED BY <3>2, <4>1, <4>2
    <3>4. CASE ~(e.retries < MaxRetries)
      BY <2>1, <3>1, <3>4, Advanced
    <3> QED BY <3>3, <3>4
  <2>4. dropped' \subseteq Writes /\ faults' \in Nat
    BY <2>1, <2>2 DEF Entries, Fault, TypeOK
  <2> QED BY <1>7, <2>2, <2>3, <2>4 DEF FlushFails, TypeOK, Watch, stores, callVars, startVars
<1>8. CASE FlushEnds
  <2>1. flush' \in [at : Nat, kept : Seq(Entries), hit : BOOLEAN]
    BY <1>8 DEF FlushEnds, NoFlush
  <2> QED BY <1>8, <2>1 DEF FlushEnds, TypeOK, Watch, stores, callVars, startVars, fates
<1> QED BY <1>1, <1>2, <1>3, <1>4, <1>5, <1>6, <1>7, <1>8 DEF Delivery, Flush

\* The process ends and starts.
LEMMA StartTypes ==
    ASSUME TypeOK, Crash \/ Boot \/ Startup
    PROVE  TypeOK'
<1>0. {"new", "done"} \subseteq Places
  BY DEF Places
<1>1. CASE Crash
  <2>1. pending' \in Seq(Entries) /\ flush' \in [at : Nat, kept : Seq(Entries), hit : BOOLEAN]
    BY <1>1 DEF Crash, NoFlush
  <2>2. pc' \in [Calls -> Places] /\ val' \in [Calls -> Records \cup {Absent}]
        /\ cache' \in [Users -> Records \cup {Absent}] /\ snap' \in [Users -> Records \cup {Absent}]
    BY <1>0, <1>1 DEF Crash, TypeOK
  <2> QED BY <1>1, <2>1, <2>2 DEF Crash, Fault, TypeOK, Watch
<1>2. CASE Boot
  BY <1>2 DEF Boot, TypeOK, Watch, stores, callVars, fates
<1>3. CASE SyncReads
  BY <1>3 DEF SyncReads, TypeOK, Watch, stores, callVars, syncVars, fates
<1>4. CASE SyncFails
  BY <1>4 DEF SyncFails, Fault, TypeOK, Watch, stores, callVars, syncVars, fates
<1>5. CASE SyncEnds
  BY <1>5 DEF SyncEnds, TypeOK, Watch, stores, callVars, syncVars, fates
<1>6. ASSUME NEW u \in Users, SyncCopies(u)
      PROVE  TypeOK'
  <2>1. row' \in [Users -> Records \cup {Absent}] /\ snap' \in [Users -> Records \cup {Absent}]
    BY <1>6 DEF SyncCopies, TypeOK
  <2>2. missed' \subseteq Users /\ faults' \in Nat /\ todo' \subseteq Users
    BY <1>6 DEF SyncCopies, SqliteFails, Fault, TypeOK
  <2> QED BY <1>6, <2>1, <2>2 DEF SyncCopies, TypeOK, Watch, callVars, syncVars
<1> QED BY <1>1, <1>2, <1>3, <1>4, <1>5, <1>6 DEF Startup

LEMMA TypeStep ==
    ASSUME TypeOK, Kinded, [Next]_vars
    PROVE  TypeOK'
<1>1. ASSUME NEW c \in Calls, Start(c) \/ Talk(c) \/ Handler(c)
      PROVE  TypeOK'
  BY <1>1, ReadTypes, WriteTypes DEF Handler
<1>2. CASE UNCHANGED vars
  BY <1>2 DEF vars, stores, callVars, syncVars, startVars, fates, TypeOK
<1> QED BY <1>1, <1>2, SyncTypes, StartTypes DEF Next

\* Where a call goes next: no step but its own moves it.
LEMMA KindedStep ==
    ASSUME TypeOK, Kinded, [Next]_vars
    PROVE  Kinded'
<1>00. \A c \in Calls : pc[c] = "talk" => KindOf[c] = "login"
  BY DEF Kinded
<1>0. \A c \in Calls : \A r :
         After(c, r) \in {"check", "talk"} => KindOf[c] = "login"
  BY UserStoreAssumption DEF After, Kinds
<1>1. ASSUME NEW c \in Calls, Start(c) \/ Talk(c) \/ Handler(c)
      PROVE  /\ \A d \in Calls : d # c => pc'[d] = pc[d]
             /\ pc'[c] \in {"check", "talk"} => KindOf[c] = "login"
             /\ pc'[c] = "save" => KindOf[c] \in {"login", "assign"}
  <2>1. CASE Start(c)
    <3>1. /\ Opening(c) \notin {"check", "talk"}
          /\ Opening(c) = "save" => KindOf[c] = "assign"
      BY UserStoreAssumption DEF Opening, Kinds
    <3> QED BY <2>1, <3>1, EnterFacts DEF Start
  <2>2. CASE FindCached(c)
    BY <1>0, <2>2, AfterFacts, EnterFacts DEF FindCached
  <2>3. CASE FindMisses(c)
    BY <2>3, EnterFacts DEF FindMisses
  <2>4. CASE Select(c)
    <3>1. PICK r : pc' = [pc EXCEPT ![c] = IF r = Absent THEN "ask" ELSE "found"]
      BY <2>4 DEF Select
    <3> QED BY <3>1 DEF TypeOK
  <2>5. CASE Fill(c)
    BY <1>0, <2>5, AfterFacts, EnterFacts DEF Fill
  <2>6. CASE Ask(c)
    BY <2>6 DEF Ask, TypeOK
  <2>7. CASE AskInVain(c)
    BY <1>0, <2>7, AfterFacts, EnterFacts DEF AskInVain
  <2>8. CASE Came(c)
    BY <2>8, EnterFacts DEF Came
  <2>9. CASE Mirror(c)
    BY <1>0, <2>9, AfterFacts, EnterFacts DEF Mirror
  <2>10. CASE Look(c)
    BY <2>10 DEF Look, TypeOK
  <2>11. CASE Insert(c)
    BY <2>11 DEF Insert, TypeOK
  <2>12. CASE Check(c)
    BY <2>12, EnterFacts DEF Check
  <2>13. CASE Talk(c)
    <3>1. PICK where \in {"done", "save"} : Enter(c, where, Cached(c))
      BY <2>13 DEF Talk
    <3>2. KindOf[c] = "login"
      BY <1>00, <2>13 DEF Talk
    <3> QED BY <3>1, <3>2, EnterFacts
  <2>14. CASE Update(c)
    BY <2>14 DEF Update, TypeOK
  <2> QED BY <1>1, <2>1, <2>2, <2>3, <2>4, <2>5, <2>6, <2>7, <2>8, <2>9, <2>10, <2>11,
             <2>12, <2>13, <2>14 DEF Handler
<1>2. ASSUME NEW c \in Calls, Start(c) \/ Talk(c) \/ Handler(c)
      PROVE  Kinded'
  BY <1>1, <1>2 DEF Kinded
<1>3. CASE Crash
  BY <1>3 DEF Crash, Kinded
<1>4. CASE (\E w \in Open : Delivery(w)) \/ Flush \/ Startup \/ Boot \/ UNCHANGED vars
  <2>1. pc' = pc
    BY <1>4 DEF Delivery, Land, Answer, Fail, Flush, FlushStarts, FlushLands, FlushAnswered,
       FlushFails, FlushEnds, Startup, SyncReads, SyncFails, SyncCopies, SyncEnds, Boot,
       callVars, vars
  <2> QED BY <2>1 DEF Kinded
<1> QED BY <1>2, <1>3, <1>4 DEF Next

-----------------------------------------------------------------------------
(* The list, the file and the end of the process.                          *)

\* What a step of a call leaves alone.
LEMMA CallKeeps ==
    ASSUME NEW c \in Calls, Start(c) \/ Talk(c) \/ Handler(c)
    PROVE  /\ UNCHANGED <<landed, pending, file, flush, phase, todo, applied, dropped, cut>>
           /\ \/ UNCHANGED <<flight, issued>>
              \/ pc[c] \in Updating \cup {"insert"}
                 /\ \E w : issued' = issued \cup {w} /\ flight' = flight \cup {w}
<1>1. CASE Insert(c)
  BY <1>1 DEF Insert, Issue, startVars
<1>2. CASE Update(c)
  BY <1>2 DEF Update, Issue, startVars
<1>3. CASE ~(Insert(c) \/ Update(c))
  BY <1>3 DEF Handler, Start, Talk, FindCached, FindMisses, Select, Fill, Ask, AskInVain, Came,
     Mirror, Look, Check, syncVars, startVars, fates
<1> QED BY <1>1, <1>2, <1>3

LEMMA InPrimed == In(file)' = In(file') /\ In(pending)' = In(pending')
BY DEF In

LEMMA FileStep ==
    ASSUME TypeOK, FileCurrent, [Next]_vars
    PROVE  FileCurrent'
<1>1. ASSUME NEW c \in Calls, Start(c) \/ Talk(c) \/ Handler(c)
      PROVE  FileCurrent'
  BY <1>1, CallKeeps DEF FileCurrent, In
<1>2. ASSUME NEW w \in Open, Delivery(w)
      PROVE  FileCurrent'
  BY <1>2 DEF Delivery, Land, Answer, Fail, FileCurrent, In, startVars
<1>3. CASE FlushFails
  <2>1. In(pending') = In(pending)
    BY <1>3, Recounted DEF FlushFails, Flushing, TypeOK
  <2>2. file' = file /\ phase' = phase
    BY <1>3 DEF FlushFails, startVars
  <2>3. In(file') = In(file)
    BY <2>2
  <2>4. phase # "down" => In(file) = In(pending)
    BY DEF FileCurrent
  <2>5. phase' # "down" => In(file') = In(pending')
    BY <2>1, <2>2, <2>3, <2>4
  <2> QED BY <2>5, InPrimed DEF FileCurrent
<1>4. CASE FlushStarts \/ FlushLands \/ FlushAnswered \/ FlushEnds
  <2>1. \/ UNCHANGED <<file, pending, phase>>
        \/ file' = pending' /\ phase' = phase
    BY <1>4 DEF FlushStarts, FlushLands, FlushAnswered, FlushEnds, startVars
  <2>2. phase' # "down" => In(file') = In(pending')
    BY <2>1 DEF FileCurrent
  <2> QED BY <2>2, InPrimed DEF FileCurrent
<1>5. CASE Crash \/ Boot
  BY <1>5 DEF Crash, Boot, FileCurrent, In
<1>6. CASE Startup
  BY <1>6 DEF Startup, SyncReads, SyncFails, SyncCopies, SyncEnds, FileCurrent, In, syncVars
<1>7. CASE UNCHANGED vars
  BY <1>7 DEF vars, syncVars, startVars, FileCurrent, In
<1> QED BY <1>1, <1>2, <1>3, <1>4, <1>5, <1>6, <1>7 DEF Next, Flush

LEMMA DownStep ==
    ASSUME TypeOK, DownEmpty, [Next]_vars
    PROVE  DownEmpty'
<1>0. phase = "down" => Open = {} /\ ~Flushing
  BY DEF DownEmpty, Open, In, Flushing
<1>1. ASSUME NEW c \in Calls, Start(c) \/ Talk(c) \/ Handler(c)
      PROVE  phase # "down" /\ phase' # "down"
  <2>1. pc[c] = "new" => phase # "down"
    BY <1>1 DEF Start, Talk, Handler, FindCached, FindMisses, Select, Fill, Ask, AskInVain,
       Came, Mirror, Look, Insert, Check, Update, Updating
  <2>2. pc[c] # "done"
    BY <1>1 DEF Start, Talk, Handler, FindCached, FindMisses, Select, Fill, Ask, AskInVain,
       Came, Mirror, Look, Insert, Check, Update, Updating
  <2>3. phase' = phase
    BY <1>1, CallKeeps
  <2> QED BY <2>1, <2>2, <2>3 DEF DownEmpty
<1>2. ASSUME NEW w \in Open, Delivery(w)
      PROVE  phase # "down" /\ phase' # "down"
  BY <1>0, <1>2 DEF Delivery, Land, Answer, Fail, startVars
<1>3. CASE Flush
  <2>1. phase # "down"
    BY <1>0, <1>3 DEF Flush, FlushStarts, FlushLands, FlushAnswered, FlushFails, FlushEnds,
       DownEmpty
  <2>2. phase' = phase
    BY <1>3 DEF Flush, FlushStarts, FlushLands, FlushAnswered, FlushFails, FlushEnds, startVars
  <2> QED BY <2>1, <2>2 DEF DownEmpty
<1>4. CASE Crash
  <2>1. \A c \in Calls : pc'[c] \in {"new", "done"}
    BY <1>4 DEF Crash
  <2> QED BY <1>4, <2>1 DEF Crash, DownEmpty
<1>5. CASE Boot \/ SyncReads \/ SyncFails \/ SyncEnds
  BY <1>5 DEF Boot, SyncReads, SyncFails, SyncEnds, DownEmpty
<1>6. ASSUME NEW u \in Users, SyncCopies(u)
      PROVE  phase # "down" /\ phase' # "down"
  BY <1>6 DEF SyncCopies, DownEmpty
<1>7. CASE UNCHANGED vars
  BY <1>7 DEF vars, stores, callVars, syncVars, startVars, DownEmpty
<1> QED BY <1>1, <1>2, <1>3, <1>4, <1>5, <1>6, <1>7 DEF Next, Startup, DownEmpty

\* FlushKeeps, written out for any values of the variables.
Kept(p, f, a, d) ==
    /\ f = NoFlush \/ f.at \in 1..(Len(p) + 1)
    /\ \A i \in DOMAIN p : i < f.at => p[i].write \in In(f.kept) \cup a \cup d
    /\ f.hit => f.at \in DOMAIN p /\ p[f.at].write \in a

LEMMA KeepsIsKept == /\ FlushKeeps = Kept(pending, flush, applied, dropped)
                     /\ FlushKeeps' = Kept(pending', flush', applied', dropped')
BY DEF FlushKeeps, Kept, Flushing, Current, In, NoFlush

LEMMA KeepsStep ==
    ASSUME TypeOK, FlushKeeps, DownEmpty, [Next]_vars
    PROVE  FlushKeeps'
<1> DEFINE R == [at : Nat, kept : Seq(Entries), hit : BOOLEAN]
<1>0. /\ Kept(pending, flush, applied, dropped)
      /\ pending \in Seq(Entries) /\ flush \in R /\ flush.at \in Nat
      /\ flush.kept \in Seq(Entries) /\ Len(pending) \in Nat /\ DOMAIN pending = 1..Len(pending)
  BY KeepsIsKept DEF TypeOK
<1>1. SUFFICES Kept(pending', flush', applied', dropped')
  BY KeepsIsKept
<1>2. CASE UNCHANGED <<pending, flush, dropped>> /\ applied \subseteq applied'
  BY <1>0, <1>2 DEF Kept
<1>3. ASSUME NEW c \in Calls, Start(c) \/ Talk(c) \/ Handler(c)
      PROVE  Kept(pending', flush', applied', dropped')
  BY <1>2, <1>3, CallKeeps
<1>4. ASSUME NEW w \in Open, Land(w) \/ Answer(w)
      PROVE  Kept(pending', flush', applied', dropped')
  BY <1>2, <1>4 DEF Land, Apply, Answer, fates
<1>5. ASSUME NEW w \in Open, Fail(w)
      PROVE  Kept(pending', flush', applied', dropped')
  <2>1. w \in Writes /\ Entry(w) \in Entries
    BY OpenWrites, EntryFacts
  <2>2. /\ DOMAIN pending' = 1..(Len(pending) + 1)
        /\ \A i \in 1..Len(pending) : pending'[i] = pending[i]
        /\ UNCHANGED <<flush, applied, dropped>>
        /\ pending'[Len(pending) + 1] = Entry(w)
    BY <1>0, <1>5, <2>1, AppendFacts DEF Fail, fates
  <2>3. flush = NoFlush \/ flush.at <= Len(pending) + 1
    BY <1>0 DEF Kept
  <2>4. ASSUME NEW i \in DOMAIN pending', i < flush'.at
        PROVE  pending'[i].write \in In(flush'.kept) \cup applied' \cup dropped'
    <3>1. i \in DOMAIN pending /\ pending'[i] = pending[i]
      BY <1>0, <2>2, <2>3, <2>4 DEF NoFlush
    <3> QED BY <1>0, <2>2, <2>4, <3>1 DEF Kept
  <2>5. flush'.hit => flush'.at \in DOMAIN pending' /\ pending'[flush'.at].write \in applied'
    BY <1>0, <2>2 DEF Kept
  <2>6. flush' = NoFlush \/ flush'.at \in 1..(Len(pending') + 1)
    <3>1. Len(pending') = Len(pending) + 1
      BY <1>0, <1>5, <2>1 DEF Fail
    <3> QED BY <1>0, <2>2, <3>1 DEF Kept
  <2> QED BY <2>4, <2>5, <2>6 DEF Kept
<1>6. CASE FlushStarts
  <2>1. /\ flush' = [at |-> 1, kept |-> <<>>, hit |-> FALSE]
        /\ UNCHANGED <<pending, applied, dropped>>
    BY <1>6 DEF FlushStarts, NoFlush, fates
  <2> QED BY <1>0, <2>1 DEF Kept
<1>7. CASE FlushLands
  <2>1. /\ flush' = [flush EXCEPT !.hit = TRUE]
        /\ UNCHANGED <<pending, dropped>> /\ applied' = applied \cup {pending[flush.at].write}
    BY <1>7 DEF FlushLands, Apply, Current
  <2>2. flush'.at = flush.at /\ flush'.kept = flush.kept
    BY <1>0, <2>1
  <2>3. flush.at \in 1..Len(pending) /\ flush'.at \in DOMAIN pending'
    BY <1>0, <1>7, <2>1, <2>2 DEF FlushLands, Flushing
  <2>4. ASSUME NEW i \in DOMAIN pending', i < flush'.at
        PROVE  pending'[i].write \in In(flush'.kept) \cup applied' \cup dropped'
    BY <1>0, <2>1, <2>2, <2>4 DEF Kept
  <2>5. pending'[flush'.at].write \in applied'
    BY <2>1, <2>2
  <2>6. flush'.at \in 1..(Len(pending') + 1)
    BY <1>0, <2>1, <2>2, <2>3
  <2> QED BY <2>3, <2>4, <2>5, <2>6 DEF Kept
<1>8. CASE FlushAnswered
  <2>1. /\ flush'.at = flush.at + 1 /\ flush'.kept = flush.kept /\ flush'.hit = FALSE
        /\ UNCHANGED <<pending, applied, dropped>> /\ flush.at \in DOMAIN pending /\ flush.hit
    BY <1>0, <1>8, Advanced DEF FlushAnswered, Flushing, fates
  <2> QED BY <1>0, <2>1 DEF Kept
<1>9. CASE FlushFails
  <2> DEFINE e == [pending[flush.at] EXCEPT !.retries = @ + 1]
  <2>1. /\ flush.at \in DOMAIN pending
        /\ pending' = [pending EXCEPT ![flush.at] = e]
        /\ IF e.retries < MaxRetries
           THEN /\ flush' = [at |-> flush.at + 1, kept |-> Append(flush.kept, e), hit |-> FALSE]
                /\ UNCHANGED dropped
           ELSE /\ flush' = [flush EXCEPT !.at = @ + 1, !.hit = FALSE]
                /\ dropped' = dropped \cup {e.write}
        /\ UNCHANGED applied
    BY <1>9 DEF FlushFails, Flushing
  <2>2. /\ e \in Entries /\ e.write = pending[flush.at].write
        /\ DOMAIN pending' = DOMAIN pending /\ Len(pending') = Len(pending)
        /\ \A i \in DOMAIN pending : pending'[i].write = pending[i].write
    BY <1>0, <2>1, Recounted
  <2> HIDE DEF e
  <2>3. In(Append(flush.kept, e)) = In(flush.kept) \cup {e.write}
    BY <1>0, <2>2, InAppend
  <2>4. /\ flush'.at = flush.at + 1 /\ flush'.hit = FALSE
        /\ In(flush.kept) \cup dropped \cup {e.write} \subseteq In(flush'.kept) \cup dropped'
    <3>1. CASE e.retries < MaxRetries
      <4>1. flush' = [at |-> flush.at + 1, kept |-> Append(flush.kept, e), hit |-> FALSE]
            /\ dropped' = dropped
        BY <2>1, <3>1
      <4> QED BY <2>3, <4>1
    <3>2. CASE ~(e.retries < MaxRetries)
      <4>1. flush' = [flush EXCEPT !.at = @ + 1, !.hit = FALSE]
            /\ dropped' = dropped \cup {e.write}
        BY <2>1, <3>2
      <4>2. flush'.at = flush.at + 1 /\ flush'.hit = FALSE /\ flush'.kept = flush.kept
        BY <1>0, <4>1, Advanced
      <4> QED BY <4>1, <4>2
    <3> QED BY <3>1, <3>2
  <2>5. ASSUME NEW i \in DOMAIN pending', i < flush'.at
        PROVE  pending'[i].write \in In(flush'.kept) \cup applied' \cup dropped'
    <3>1. i < flush.at \/ i = flush.at
      BY <1>0, <2>2, <2>4, <2>5
    <3>2. pending'[i].write \in In(flush.kept) \cup applied \cup dropped \cup {e.write}
      BY <1>0, <2>2, <2>5, <3>1 DEF Kept
    <3> QED BY <2>1, <2>4, <3>2
  <2>6. flush'.at \in 1..(Len(pending') + 1) /\ ~flush'.hit
    BY <1>0, <2>1, <2>2, <2>4
  <2> QED BY <2>5, <2>6 DEF Kept
<1>10. CASE FlushEnds \/ Crash
  <2>1. flush' = NoFlush
    BY <1>10 DEF FlushEnds, Crash
  <2>2. \A i \in DOMAIN pending' : i < NoFlush.at => FALSE
    <3>1. pending' = flush.kept \/ pending' = <<>>
      BY <1>10 DEF FlushEnds, Crash
    <3>2. CASE pending' = flush.kept
      <4>1. Len(flush.kept) \in Nat /\ DOMAIN flush.kept = 1..Len(flush.kept)
        BY <1>0
      <4> QED BY <3>2, <4>1 DEF NoFlush
    <3>3. CASE pending' = <<>>
      BY <3>3
    <3> QED BY <3>1, <3>2, <3>3
  <2> QED BY <2>1, <2>2 DEF Kept, NoFlush
<1>11. CASE Boot
  <2>1. flush' = NoFlush /\ pending' \in Seq(Entries)
    BY <1>11 DEF Boot, DownEmpty, TypeOK
  <2> QED BY <2>1 DEF Kept, NoFlush
<1>12. CASE Startup \/ UNCHANGED vars
  BY <1>2, <1>12 DEF Startup, SyncReads, SyncFails, SyncCopies, SyncEnds, vars, syncVars, fates
<1> QED BY <1>3, <1>4, <1>5, <1>6, <1>7, <1>8, <1>9, <1>10, <1>11, <1>12
        DEF Next, Delivery, Flush

\* NoWriteLost, written out like Kept.
Somewhere(i, f, a, d, k, l) == i \subseteq f \cup a \cup d \cup k \cup l

Recorded(ph, p, fl) == In(IF ph = "down" THEN fl ELSE p)

LEMMA LostIsSomewhere ==
    /\ NoWriteLost = Somewhere(issued, flight, applied, dropped, cut,
                               Recorded(phase, pending, file))
    /\ NoWriteLost' = Somewhere(issued', flight', applied', dropped', cut',
                                Recorded(phase', pending', file'))
BY DEF NoWriteLost, Somewhere, Recorded, In

LEMMA LostStep ==
    ASSUME TypeOK, FileCurrent, DownEmpty, FlushKeeps, NoWriteLost, [Next]_vars
    PROVE  NoWriteLost'
<1>0. Somewhere(issued, flight, applied, dropped, cut, Recorded(phase, pending, file))
  BY LostIsSomewhere
<1>1. SUFFICES Somewhere(issued', flight', applied', dropped', cut',
                         Recorded(phase', pending', file'))
  BY LostIsSomewhere
<1> DEFINE Goal == Somewhere(issued', flight', applied', dropped', cut',
                             Recorded(phase', pending', file'))
<1>2. ASSUME NEW c \in Calls, Start(c) \/ Talk(c) \/ Handler(c)
      PROVE  Goal
  BY <1>0, <1>2, CallKeeps DEF Somewhere
<1>3. ASSUME NEW w \in Open, Land(w) \/ Answer(w)
      PROVE  Goal
  BY <1>0, <1>3 DEF Land, Apply, Answer, Somewhere, startVars, fates
<1>4. ASSUME NEW w \in Open, Fail(w)
      PROVE  Goal
  <2>1. w \in Writes /\ Entry(w) \in Entries /\ Entry(w).write = w
    BY OpenWrites, EntryFacts
  <2>2. phase # "down" /\ phase' = phase
    BY <1>4 DEF Fail, DownEmpty, startVars
  <2>3. In(pending') = In(pending) \cup {w}
    BY <1>4, <2>1, InAppend DEF Fail, TypeOK
  <2> QED BY <1>0, <1>4, <2>2, <2>3 DEF Fail, Somewhere, Recorded, fates
<1>5. CASE FlushStarts \/ FlushLands \/ FlushAnswered
  BY <1>0, <1>5 DEF FlushStarts, FlushLands, FlushAnswered, Apply, Somewhere, startVars, fates
<1>6. CASE FlushFails
  <2>1. In(pending') = In(pending)
    BY <1>6, Recounted DEF FlushFails, Flushing, TypeOK
  <2>2. UNCHANGED <<flight, file, phase, issued, applied, cut>> /\ dropped \subseteq dropped'
    BY <1>6 DEF FlushFails, startVars
  <2>3. Recorded(phase', pending', file') = Recorded(phase, pending, file)
    BY <2>1, <2>2 DEF Recorded
  <2> QED BY <1>0, <2>2, <2>3 DEF Somewhere
<1>7. CASE FlushEnds
  <2>1. /\ phase # "down" /\ ~Flushing /\ flush # NoFlush
        /\ UNCHANGED <<flight, phase, issued, applied, cut, dropped>>
        /\ pending' = flush.kept
    BY <1>7 DEF FlushEnds, DownEmpty, startVars, fates
  <2>2. ASSUME NEW i \in DOMAIN pending
        PROVE  pending[i].write \in In(flush.kept) \cup applied \cup dropped
    <3>1. /\ pending \in Seq(Entries) /\ DOMAIN pending = 1..Len(pending)
          /\ Len(pending) \in Nat /\ flush.at \in Nat
      BY DEF TypeOK
    <3>2. i < flush.at
      BY <2>1, <3>1 DEF FlushKeeps, Flushing
    <3> QED BY <3>2 DEF FlushKeeps
  <2>3. In(pending) \subseteq In(flush.kept) \cup applied \cup dropped
    BY <2>2 DEF In
  <2>4. Recorded(phase, pending, file) = In(pending)
        /\ Recorded(phase', pending', file') = In(flush.kept)
    BY <2>1 DEF Recorded
  <2> QED BY <1>0, <2>1, <2>3, <2>4 DEF Somewhere
<1>8. CASE Crash
  <2>1. Recorded(phase, pending, file) = In(file)
        /\ Recorded(phase', pending', file') = In(file)
    BY <1>8 DEF Crash, Recorded, FileCurrent
  <2> QED BY <1>0, <1>8, <2>1 DEF Crash, Somewhere
<1>9. CASE Boot
  <2>1. Recorded(phase', pending', file') = Recorded(phase, pending, file)
    BY <1>9 DEF Boot, Recorded
  <2> QED BY <1>0, <1>9, <2>1 DEF Boot, Somewhere, fates
<1>10. CASE Startup \/ UNCHANGED vars
  <2>1. Recorded(phase', pending', file') = Recorded(phase, pending, file)
    BY <1>10 DEF Startup, SyncReads, SyncFails, SyncCopies, SyncEnds, vars, syncVars, startVars,
       Recorded
  <2> QED BY <1>0, <1>10, <2>1 DEF Startup, SyncReads, SyncFails, SyncCopies, SyncEnds,
          vars, syncVars, fates, Somewhere
<1> QED BY <1>2, <1>3, <1>4, <1>5, <1>6, <1>7, <1>8, <1>9, <1>10 DEF Next, Delivery, Flush

-----------------------------------------------------------------------------
(* The cache.                                                              *)

\* Each step but the end of the process watches.
LEMMA Watched ==
    ASSUME [Next]_vars
    PROVE  Watch \/ UNCHANGED vars
BY DEF Next, Start, Talk, Handler, FindCached, FindMisses, Select, Fill, Ask, AskInVain, Came,
   Mirror, Look, Insert, Check, Update, Delivery, Land, Answer, Fail, Flush, FlushStarts,
   FlushLands, FlushAnswered, FlushFails, FlushEnds, Crash, Boot, Startup, SyncReads,
   SyncFails, SyncCopies, SyncEnds

LEMMA RacingStep ==
    ASSUME RacingNoted, DownEmpty', [Next]_vars
    PROVE  RacingNoted'
<1>1. CASE Watch /\ phase' # "down"
  BY <1>1 DEF Watch, RacingNoted
<1>2. CASE phase' = "down"
  <2>1. todo' = {} /\ \A c \in Calls : pc'[c] \in {"new", "done"}
    BY <1>2 DEF DownEmpty
  <2>2. ASSUME NEW u \in Users
        PROVE  ~Racing(u)'
    BY <2>1 DEF Racing, At, CallsOf, Holding
  <2> QED BY <2>2 DEF RacingNoted
<1>3. CASE UNCHANGED vars
  BY <1>3 DEF RacingNoted, Racing, At, CallsOf, vars, stores, callVars, startVars
<1> QED BY <1>1, <1>2, <1>3, Watched

\* Two calls of a user who do not race.
LEMMA NotRacing ==
    ASSUME NEW u \in Users, ~Racing(u)
    PROVE  /\ \A c, d \in CallsOf(u) :
                 c # d /\ pc[c] \in Updating \cup {"insert", "mirror"} => pc[d] \notin Holding
           /\ u \in todo => cache[u] = Absent /\ \A d \in CallsOf(u) : pc[d] \notin Holding
BY DEF Racing, At, CallsOf

LEMMA NotRacingNext ==
    ASSUME NEW u \in Users, ~Racing(u)'
    PROVE  \A c, d \in CallsOf(u) :
              c # d /\ pc'[c] \in Updating \cup {"insert", "mirror"} => pc'[d] \notin Holding
BY DEF Racing, At, CallsOf

\* A call touches its own user's record only.
LEMMA OwnRecord ==
    ASSUME TypeOK, NEW c \in Calls, Start(c) \/ Talk(c) \/ Handler(c)
    PROVE  /\ \A d \in Calls : d # c => pc'[d] = pc[d] /\ val'[d] = val[d]
           /\ \A v \in Users : v # UserOf[c] => row'[v] = row[v] /\ cache'[v] = cache[v]
<1>1. CASE Start(c) \/ FindCached(c) \/ FindMisses(c) \/ Fill(c) \/ AskInVain(c) \/ Came(c)
           \/ Check(c) \/ Talk(c)
  BY <1>1, EnterFacts DEF Start, FindCached, FindMisses, Fill, AskInVain, Came, Check, Talk
<1>2. CASE Mirror(c)
  <2>1. \A v \in Users : v # UserOf[c] => row'[v] = row[v]
    BY <1>2 DEF Mirror, TypeOK
  <2> QED BY <1>2, <2>1, EnterFacts DEF Mirror
<1>3. CASE Select(c)
  BY <1>3 DEF Select, TypeOK, stores
<1>4. CASE Ask(c) \/ Look(c)
  BY <1>4 DEF Ask, Look, TypeOK, stores
<1>5. CASE Insert(c) \/ Update(c)
  <2>1. \A d \in Calls : d # c => pc'[d] = pc[d] /\ val'[d] = val[d]
    BY <1>5 DEF Insert, Update, TypeOK
  <2>2. \A v \in Users : v # UserOf[c] => row'[v] = row[v]
    BY <1>5 DEF Insert, Update, SqliteFails, TypeOK
  <2> QED BY <1>5, <2>1, <2>2 DEF Insert, Update
<1> QED BY <1>1, <1>2, <1>3, <1>4, <1>5 DEF Handler

\* A step of a call that keeps what its user's other calls know.
LEMMA OwnGood ==
    ASSUME TypeOK, NEW c \in Calls, Start(c) \/ Talk(c) \/ Handler(c),
           NEW u, u = UserOf[c], u \in Users, Good(u), ~Racing(u), ~Racing(u)', u \notin missed'
    PROVE  Good(u)'
<1>0. /\ c \in CallsOf(u) /\ CallsOf(u) \subseteq Calls
      /\ \A d \in Calls : d # c => pc'[d] = pc[d] /\ val'[d] = val[d]
      /\ \A d \in CallsOf(u) : /\ pc[d] = "found" => val[d] = row[u]
                               /\ pc[d] = "mirror" => cache[u] \in {Absent, val[d]}
                               /\ pc[d] \in Updating => cache[u] = Absent
      /\ cache[u] \in {Absent, row[u]} \/ \E d \in CallsOf(u) : pc[d] = "mirror"
  BY OwnRecord DEF CallsOf, Good, At
<1>00. /\ \A d, e \in CallsOf(u) :
             d # e /\ pc[d] \in Updating \cup {"insert", "mirror"} => pc[e] \notin Holding
       /\ \A d, e \in CallsOf(u) :
             d # e /\ pc'[d] \in Updating \cup {"insert", "mirror"} => pc'[e] \notin Holding
       /\ Holding = {"found", "came", "mirror"} /\ Updating = {"clear", "again", "save"}
  BY NotRacing, NotRacingNext DEF Holding, Updating
<1> DEFINE Goal == /\ \A d \in CallsOf(u) : /\ pc'[d] = "found" => val'[d] = row'[u]
                                            /\ pc'[d] = "mirror" => cache'[u] \in {Absent, val'[d]}
                                            /\ pc'[d] \in Updating => cache'[u] = Absent
                   /\ cache'[u] \in {Absent, row'[u]} \/ \E d \in CallsOf(u) : pc'[d] = "mirror"
<1>1. SUFFICES Goal
  BY DEF Good, At, CallsOf
<1>2. /\ \A r : After(c, r) \notin {"found", "mirror"}
      /\ Opening(c) \notin {"found", "mirror"}
  BY AfterFacts, OpeningFacts
\* A step that leaves the row alone, and the cache alone or empty.
<1>3. ASSUME pc[c] # "mirror", pc'[c] \notin {"found", "mirror"}, row'[u] = row[u],
             cache'[u] = Absent \/ (cache'[u] = cache[u] /\ pc'[c] \notin Updating)
      PROVE  Goal
  <2>1. (\E d \in CallsOf(u) : pc[d] = "mirror") => \E d \in CallsOf(u) : pc'[d] = "mirror"
    BY <1>0, <1>3
  <2>2. ASSUME NEW d \in CallsOf(u)
        PROVE  /\ pc'[d] = "found" => val'[d] = row'[u]
               /\ pc'[d] = "mirror" => cache'[u] \in {Absent, val'[d]}
               /\ pc'[d] \in Updating => cache'[u] = Absent
    BY <1>0, <1>3
  <2> QED BY <1>0, <1>3, <2>1, <2>2
<1> HIDE DEF Goal
<1>4. ASSUME NEW where, Enter(c, where, Cached(c)) \/ Enter(c, where, Absent),
             where \notin {"found", "mirror"}, row' = row, pc[c] # "mirror"
      PROVE  Goal
  BY <1>3, <1>4, EnterFacts DEF Cached
<1>5. CASE Start(c)
  BY <1>2, <1>4, <1>5 DEF Start
<1>6. CASE FindCached(c) \/ AskInVain(c)
  BY <1>2, <1>4, <1>6 DEF FindCached, AskInVain
<1>7. CASE FindMisses(c)
  BY <1>4, <1>7 DEF FindMisses
<1>8. CASE Check(c) \/ Talk(c)
  <2>1. PICK where \in {"done", "clear", "save"} : Enter(c, where, Cached(c))
    BY <1>8 DEF Check, Talk
  <2> QED BY <1>4, <1>8, <2>1 DEF Check, Talk
<1>9. CASE Ask(c) \/ Look(c)
  <2>1. pc'[c] \in {"came", "insert", "find"}
    BY <1>9 DEF Ask, Look, TypeOK
  <2>2. pc[c] # "mirror" /\ row' = row /\ cache' = cache
    BY <1>9 DEF Ask, Look, stores
  <2> QED BY <1>00, <1>3, <2>1, <2>2
<1>10. CASE Select(c)
  <2>1. PICK r \in {row[u], Absent} :
           /\ r # row[u] => u \in missed'
           /\ val' = [val EXCEPT ![c] = r]
           /\ pc' = [pc EXCEPT ![c] = IF r = Absent THEN "ask" ELSE "found"]
    BY <1>10 DEF Select, SqliteFails
  <2>2. val'[c] = row[u] /\ pc'[c] \in {"ask", "found"} /\ pc[c] = "select"
        /\ row' = row /\ cache' = cache
    BY <1>10, <2>1 DEF Select, TypeOK, stores
  <2> QED BY <1>0, <1>00, <2>2 DEF Goal
<1>11. CASE Fill(c)
  <2>1. /\ pc[c] = "found" /\ pc'[c] \notin {"found", "mirror"} /\ row' = row
        /\ cache'[u] = IF pc'[c] \in Updating THEN Absent ELSE val[c]
    BY <1>2, <1>11, EnterFacts DEF Fill
  <2>2. \A d \in CallsOf(u) : d # c => pc[d] \notin Updating \cup {"mirror"}
    BY <1>0, <1>00, <2>1
  <2> QED BY <1>0, <2>1, <2>2 DEF Goal
<1>12. CASE Came(c)
  <2>1. /\ pc'[c] = "mirror" /\ val'[c] = val[c] /\ row' = row /\ cache'[u] = val[c]
    BY <1>00, <1>12, EnterFacts DEF Came
  <2>2. \A d \in CallsOf(u) : d # c => pc'[d] \notin Updating \cup {"mirror"}
    BY <1>0, <1>00, <2>1
  <2>3. \A d \in CallsOf(u) : d # c => pc'[d] # "found"
    BY <1>0, <1>00, <2>1
  <2> QED BY <1>0, <1>00, <2>1, <2>2, <2>3 DEF Goal
<1>13. CASE Mirror(c)
  <2>1. /\ pc[c] = "mirror" /\ pc'[c] \notin {"found", "mirror"}
        /\ cache'[u] = IF pc'[c] \in Updating THEN Absent ELSE cache[u]
    BY <1>2, <1>13, EnterFacts DEF Mirror, Cached
  <2>2. row'[u] = val[c]
    BY <1>13 DEF Mirror, SqliteFails, TypeOK
  <2>3. \A d \in CallsOf(u) : d # c => pc[d] \notin Holding
    BY <1>0, <1>00, <2>1
  <2>4. \A d \in CallsOf(u) : d # c => pc[d] \notin Updating
    BY <1>0, <1>00, <2>1
  <2> QED BY <1>0, <1>00, <2>1, <2>2, <2>3, <2>4 DEF Goal
<1>14. CASE Insert(c)
  <2>1. /\ pc[c] = "insert" /\ pc'[c] = "find" /\ cache' = cache
        /\ row'[u] = row[u] \/ row[u] = Absent
    BY <1>14 DEF Insert, SqliteFails, TypeOK
  <2>2. \A d \in CallsOf(u) : d # c => pc[d] \notin Holding
    BY <1>0, <1>00, <2>1
  <2> QED BY <1>0, <1>00, <2>1, <2>2 DEF Goal
<1>15. CASE Update(c)
  <2>1. /\ pc[c] \in Updating /\ pc'[c] \notin {"found", "mirror"} /\ cache' = cache
    BY <1>15 DEF Update, TypeOK
  <2>2. \A d \in CallsOf(u) : d # c => pc[d] \notin Holding
    BY <1>0, <1>00, <2>1
  <2> QED BY <1>0, <1>00, <2>1, <2>2 DEF Goal
<1> QED BY <1>5, <1>6, <1>7, <1>8, <1>9, <1>10, <1>11, <1>12, <1>13, <1>14, <1>15 DEF Handler

\* The histories only grow, until the process ends.
LEMMA Grow ==
    ASSUME [Next]_vars, phase' # "down"
    PROVE  missed \subseteq missed' /\ raced \subseteq raced'
<1>1. missed \subseteq missed'
  BY DEF Next, Start, Talk, Handler, FindCached, FindMisses, Select, Fill, Ask, AskInVain, Came,
   Mirror, Look, Insert, Check, Update, Delivery, Land, Answer, Fail, Flush, FlushStarts,
   FlushLands, FlushAnswered, FlushFails, FlushEnds, Crash, Boot, Startup, SyncReads,
   SyncFails, SyncCopies, SyncEnds, SqliteFails, fates, vars
<1> QED BY <1>1, Watched DEF Watch, vars

LEMMA GoodStep ==
    ASSUME TypeOK, RacingNoted, AllGood, RacingNoted', DownEmpty', [Next]_vars
    PROVE  AllGood'
<1>1. CASE phase' = "down"
  <2>1. /\ cache' = [u \in Users |-> Absent] /\ \A c \in Calls : pc'[c] \in {"new", "done"}
    BY <1>1 DEF DownEmpty
  <2> QED BY <2>1 DEF AllGood, Good, At, CallsOf, Updating
<1>2. SUFFICES ASSUME phase' # "down", NEW u \in Users, u \notin raced', u \notin missed'
               PROVE  Good(u)'
  BY <1>1 DEF AllGood
<1>3. u \notin raced /\ u \notin missed /\ Good(u) /\ ~Racing(u) /\ ~Racing(u)'
  <2>1. u \notin missed /\ u \notin raced
    BY <1>2, Grow
  <2> QED BY <1>2, <2>1 DEF AllGood, RacingNoted
<1>4. CASE UNCHANGED <<row, cache, pc, val>>
  BY <1>3, <1>4 DEF Good, At, CallsOf
<1>5. ASSUME NEW c \in Calls, Start(c) \/ Talk(c) \/ Handler(c)
      PROVE  Good(u)'
  <2>1. CASE u = UserOf[c]
    BY <1>2, <1>3, <1>5, <2>1, OwnGood
  <2>2. CASE u # UserOf[c]
    <3>1. /\ \A d \in CallsOf(u) : pc'[d] = pc[d] /\ val'[d] = val[d]
          /\ row'[u] = row[u] /\ cache'[u] = cache[u]
      BY <1>5, <2>2, OwnRecord DEF CallsOf
    <3> QED BY <1>3, <3>1 DEF Good, At, CallsOf
  <2> QED BY <2>1, <2>2
<1>6. ASSUME NEW v \in Users, SyncCopies(v)
      PROVE  Good(u)'
  <2>1. UNCHANGED <<cache, pc, val>> /\ (u # v => row'[u] = row[u])
    BY <1>6 DEF SyncCopies, callVars, TypeOK
  <2>2. CASE u = v
    <3>1. cache[u] = Absent /\ \A d \in CallsOf(u) : pc[d] \notin Holding
      BY <1>3, <1>6, <2>2, NotRacing DEF SyncCopies
    <3> QED BY <2>1, <3>1 DEF Good, At, CallsOf, Holding
  <2>3. CASE u # v
    BY <1>3, <2>1, <2>3 DEF Good, At, CallsOf
  <2> QED BY <2>2, <2>3
<1>7. CASE (\E w \in Open : Delivery(w)) \/ Flush \/ Boot \/ SyncReads \/ SyncFails \/ SyncEnds
           \/ UNCHANGED vars
  BY <1>4, <1>7 DEF Delivery, Land, Answer, Fail, Flush, FlushStarts, FlushLands, FlushAnswered,
     FlushFails, FlushEnds, Boot, SyncReads, SyncFails, SyncEnds, stores, callVars, vars
<1>8. CASE Crash
  BY <1>2, <1>8 DEF Crash
<1> QED BY <1>5, <1>6, <1>7, <1>8 DEF Next, Startup

-----------------------------------------------------------------------------
LEMMA InitInv == Init => IInv
<1> SUFFICES ASSUME Init
             PROVE  IInv
  OBVIOUS
<1>1. TypeOK
  <2>1. row \in [Users -> Records \cup {Absent}] /\ doc \in [Users -> Records \cup {Absent}]
    BY DEF Init, Records, Sessions
  <2>2. pc \in [Calls -> Places] /\ faults \in Nat
    BY UserStoreAssumption DEF Init, Places
  <2>3. flush \in [at : Nat, kept : Seq(Entries), hit : BOOLEAN]
        /\ pending \in Seq(Entries) /\ file \in Seq(Entries)
    BY DEF Init, NoFlush
  <2> QED BY <2>1, <2>2, <2>3 DEF Init, TypeOK
<1>2. \A c \in Calls : pc[c] \in {"new", "done"}
  BY DEF Init
<1>3. Kinded
  BY <1>2 DEF Kinded
<1>4. FileCurrent /\ DownEmpty /\ FlushKeeps /\ NoWriteLost
  BY DEF Init, FileCurrent, DownEmpty, FlushKeeps, NoWriteLost, In, NoFlush
<1>5. RacingNoted
  BY <1>2 DEF Init, RacingNoted, Racing, At, CallsOf, Holding
<1>6. AllGood
  BY <1>2 DEF Init, AllGood, Good, At, CallsOf, Updating
<1> QED BY <1>1, <1>3, <1>4, <1>5, <1>6 DEF IInv

\* The strengthened invariant is inductive, so it always holds.
THEOREM Inductive == Spec => []IInv
<1>1. Init => IInv
  BY InitInv
<1>2. IInv /\ [Next]_vars => IInv'
  BY TypeStep, KindedStep, FileStep, DownStep, KeepsStep, LostStep, RacingStep, GoodStep
  DEF IInv
<1> QED BY <1>1, <1>2, PTL DEF Spec

\* Type correctness of the stores.
THEOREM TypeCorrect == Spec => []TypeOK
<1>1. IInv => TypeOK
  BY DEF IInv
<1> QED BY <1>1, Inductive, PTL

\* SyncManager: whatever fails and whenever the process ends, a write is on its way,
\* in MongoDB, in the list or its file, or given up; only what is under way is cut.
THEOREM WritesAreKept == Spec => []NoWriteLost
<1>1. IInv => NoWriteLost
  BY DEF IInv
<1> QED BY <1>1, Inductive, PTL

\* AsyncDatabase: the cache of a user whose reads and writes have not raced is the row.
THEOREM CacheIsFresh == Spec => []CacheFresh
<1>1. IInv => CacheFresh
  BY DEF IInv, AllGood, Good, CacheFresh
<1> QED BY <1>1, Inductive, PTL

-----------------------------------------------------------------------------
(* The owner's settings: the invariant.                                    *)

\* The values of a process are those of its file, save a list that was there before
\* the settings were; what is pending is set, and the same in both.
FilesAgree ==
    /\ unsent = store.pending
    /\ values["limits"] = store.values["limits"]
    /\ \A k \in unsent : values[k] = store.values[k] /\ values[k] # Unset
    /\ process # "up" \/ restored => values = store.values
    /\ values["channels"] # store.values["channels"] => store.values["channels"] = Unset

\* Nothing waits for the lock, and nothing is restored, before start().
Lifetime ==
    /\ process # "up" => queue = <<>> /\ status = "not_started" /\ ~restored /\ ~enacted
    /\ process = "down" => /\ live = Empty /\ mem = Empty
                           /\ \A p \in Procs : place[p] \in {"new", "done"}
                           /\ \A c \in Commands : before[c] = Unset
    /\ \A p \in Procs : place[p] \in {"wait", "find", "push", "sleep"} => process = "up"
    /\ \A p \in {boot, retry} : place[p] \notin {"new", "reply"}
    /\ \A c \in Commands : place[c] = "reply" => Does[c].key = "channels"

\* Who reads or writes MongoDB has the lock; the writes are of keys that are pending;
\* the retry task starts when the restore of start() has ended.
LockHeld ==
    /\ \A p \in Procs : /\ place[p] \in {"find", "push"} => Holds(p)
                        /\ place[p] = "push" =>
                               /\ restored /\ at.key \in unsent /\ left \subseteq unsent
                               /\ at.key \notin left /\ at.val # Unset
                        /\ place[p] = "find" => ~restored \/ Insists(p)
    /\ process = "up" /\ place[boot] # "done" => place[retry] = "done"
    /\ enacted => restored /\ place[boot] = "done"

\* "synced" is said of a process with nothing pending, and the next sync is due.
SyncedIsSent == queue = <<>> /\ status = "synced" => unsent = {}

\* A list of channels has a file.
ListHasFile ==
    /\ \A c \in Commands : before[c] # Unset => listing # Unset
    /\ mem # Empty => listing # Unset
    /\ owed => listing # Unset

\* What is not pending is what MongoDB has.
MongoKnown ==
    \A k \in Keys \ (spoiled \cup unsent) :
        /\ store.values[k] \in {Unset, remote[k]} \/ (k = "channels" /\ owed)
        /\ restored => values[k] = remote[k]

\* The list that the values have and their file has not is that of the list's file.
ListSeeded ==
    values["channels"] # store.values["channels"] =>
        /\ listing # Unset
        /\ ~owed /\ "channels" \notin spoiled => listing = values["channels"]

\* The first half of SettingsKept.
OwnersWord ==
    \A k \in Keys \ spoiled :
          \/ Durable(k) = wanted[k] /\ (restored => values[k] = wanted[k])
          \/ k = "channels" /\ owed /\ listing = wanted[k]

\* The list's file and the list in memory; a retry that has restored has yet to apply.
ListInForce ==
    /\ "channels" \notin spoiled /\ (listing # Unset \/ enacted) => listing = wanted["channels"]
    /\ enacted => mem = Given(listing)
    /\ enacted /\ ~owed /\ ~(place[retry] = "push" /\ insist) => listing = values["channels"]
    /\ process = "up" /\ values["channels"] = Unset /\ ~owed => listing = Unset

\* A command of the queue that is about to set the limit of i, and the last of them.
LimitOf(p, i)    == p \in Commands /\ Does[p].key = "limits" /\ Does[p].item = i
Awaited(q, i)    == \E j \in DOMAIN q : LimitOf(q[j], i)
LastFor(q, j, i) == /\ j \in DOMAIN q /\ LimitOf(q[j], i)
                    /\ \A h \in DOMAIN q : h > j => ~LimitOf(q[h], i)

\* A limit in force is one that the owner has set; the commands that wait will bring
\* into force what the values say, and where none waits it is in force.
LimitsInForce ==
    "limits" \notin spoiled =>
        \A i \in Items :
            /\ Awaited(queue, i) => restored \/ "limits" \in unsent
            /\ Awaited(queue, i) \/ live[i] # NoLevel => Given(wanted["limits"])[i] # NoLevel
            /\ \A j \in DOMAIN queue :
                  LastFor(queue, j, i) => Given(values["limits"])[i] = Does[queue[j]].level
            /\ enacted /\ ~Awaited(queue, i) => live[i] = Given(values["limits"])[i]

SettingsInv == /\ SettingsTypeOK /\ FilesAgree /\ Lifetime /\ LockHeld /\ SyncedIsSent
               /\ ListHasFile /\ MongoKnown /\ ListSeeded /\ OwnersWord
               /\ ListInForce /\ LimitsInForce

-----------------------------------------------------------------------------
(* The owner's settings: types.                                            *)

\* A value of a key, or an empty one.
LEMMA GivenType ==
    ASSUME NEW v \in Value \cup {Unset}
    PROVE  Given(v) \in Value
BY OwnerSettingsAssumption DEF Given, Empty, Value

\* What a command makes of a value.
LEMMA ChangedType ==
    ASSUME NEW v \in Value, NEW c \in Commands
    PROVE  Changed(v, c) \in Value
BY OwnerSettingsAssumption DEF Changed, Value, Levels

\* What the lock is asked in order is a sequence of processes.
LEMMA QueueFacts ==
    ASSUME NEW q \in Seq(Procs)
    PROVE  /\ \A p \in Procs : Append(q, p) \in Seq(Procs)
           /\ q # <<>> => Tail(q) \in Seq(Procs) /\ Head(q) \in Procs
OBVIOUS

\* apply() keeps the types.
LEMMA EnactTypes ==
    ASSUME SettingsTypeOK, NEW vals \in [Keys -> Value \cup {Unset}], NEW known \in BOOLEAN,
           Enact(vals, known)
    PROVE  listing' \in Value \cup {Unset} /\ mem' \in Value /\ live' \in Value
           /\ spoiled' \in SUBSET Keys /\ enacted' \in BOOLEAN
<1>1. listing' \in Value \cup {Unset}
  BY DEF SettingsTypeOK, Enact, Keys
<1>2. mem' \in Value
  BY <1>1, GivenType DEF Enact
<1>3. live' \in Value
  <2>1. Given(vals["limits"]) \in Value /\ live \in Value
    BY GivenType DEF Keys, SettingsTypeOK
  <2>2. live' = [i \in Items |-> IF Given(vals["limits"])[i] = NoLevel THEN live[i]
                                 ELSE vals["limits"][i]]
    BY DEF Enact
  <2>3. \A i \in Items : Given(vals["limits"])[i] # NoLevel => vals["limits"] \in Value
    BY DEF Given, Empty, Keys
  <2> QED BY <2>1, <2>2, <2>3 DEF Value
<1> QED BY <1>1, <1>2, <1>3 DEF Enact, SettingsTypeOK, Keys

\* So does the setting of a limit.
LEMMA ObeyTypes ==
    ASSUME SettingsTypeOK, NEW c \in Commands, Obey(c)
    PROVE  live' \in Value
BY OwnerSettingsAssumption DEF SettingsTypeOK, Obey, Value, Levels

\* The end of a sync keeps the types.
LEMMA LeaveTypes ==
    ASSUME SettingsTypeOK, NEW p \in Procs, queue # <<>>,
           NEW vals \in [Keys -> Value \cup {Unset}], NEW known \in BOOLEAN, NEW st,
           Leave(p, st, vals, known)
    PROVE  /\ queue' \in Seq(Procs) /\ left' = {} /\ at' = Nothing /\ status' = st
           /\ place' \in [Procs -> {"new", "reply", "wait", "find", "push", "sleep", "done"}]
           /\ listing' \in Value \cup {Unset} /\ mem' \in Value /\ live' \in Value
           /\ spoiled' \in SUBSET Keys /\ enacted' \in BOOLEAN
<1>1. /\ queue' \in Seq(Procs) /\ left' = {} /\ at' = Nothing /\ status' = st
      /\ place' \in [Procs -> {"new", "reply", "wait", "find", "push", "sleep", "done"}]
  BY QueueFacts DEF Leave, SettingsTypeOK, Procs
<1>2. CASE p \in Commands /\ Obey(p)
  BY <1>1, <1>2, ObeyTypes DEF Obey, SettingsTypeOK, channels
<1>3. CASE Enact(vals, known)
  BY <1>1, <1>3, EnactTypes
<1>4. CASE UNCHANGED <<channels, live, enacted, spoiled>>
  BY <1>1, <1>4 DEF SettingsTypeOK, channels
<1> QED BY <1>2, <1>3, <1>4, OwnerSettingsAssumption DEF Leave, Procs, Insists

\* And so does any step of a sync that has its answer.
LEMMA GoOnTypes ==
    ASSUME SettingsTypeOK, NEW p \in Procs, queue # <<>>,
           NEW vals \in [Keys -> Value \cup {Unset}], NEW known \in BOOLEAN,
           NEW rest \in SUBSET Keys, NEW pend, GoOn(p, rest, vals, pend, known)
    PROVE  /\ queue' \in Seq(Procs) /\ left' \in SUBSET Keys
           /\ at' \in [key : Keys, val : Value \cup {Unset}]
           /\ status' \in {"not_started", "synced", "pending", "restore_failed"}
           /\ place' \in [Procs -> {"new", "reply", "wait", "find", "push", "sleep", "done"}]
           /\ listing' \in Value \cup {Unset} /\ mem' \in Value /\ live' \in Value
           /\ spoiled' \in SUBSET Keys /\ enacted' \in BOOLEAN
<1>1. CASE rest = {} /\ Leave(p, IF pend = {} THEN "synced" ELSE "pending", vals, known)
  <2> DEFINE st == IF pend = {} THEN "synced" ELSE "pending"
  <2>1. st \in {"not_started", "synced", "pending", "restore_failed"}
    OBVIOUS
  <2>2. Leave(p, st, vals, known)
    BY <1>1
  <2> HIDE DEF st
  <2> QED BY <2>1, <2>2, LeaveTypes DEF Nothing, Keys
<1>2. CASE \E k \in rest :
               /\ at' = [key |-> k, val |-> vals[k]] /\ left' = rest \ {k}
               /\ place' = [place EXCEPT ![p] = "push"]
               /\ UNCHANGED <<queue, status, channels, live, enacted, spoiled>>
  BY <1>2 DEF SettingsTypeOK, channels
<1> QED BY <1>1, <1>2 DEF GoOn

\* What is merged is a value for every key.
LEMMA MergedType ==
    ASSUME SettingsTypeOK
    PROVE  Merged \in [Keys -> Value \cup {Unset}]
BY DEF SettingsTypeOK, Merged

\* Syncs keep the types.
LEMMA SyncKeepsTypes ==
    ASSUME SettingsTypeOK, LockHeld, NEW p \in Procs, Sync(p)
    PROVE  SettingsTypeOK'
<1>0. /\ queue # <<>> /\ place[p] \in {"wait", "find", "push"}
      /\ place[p] = "push" => at \in [key : Keys, val : Value]
  BY DEF Sync, Acquire, FindAnswers, FindFails, PushAnswers, PushFails, Holds, LockHeld,
         SettingsTypeOK
<1>1. CASE Acquire(p)
  <2>1. CASE ~restored \/ Insists(p)
    BY <1>1, <2>1 DEF Acquire, SettingsTypeOK, syncing, channels, local, bounds
  <2>2. CASE GoOn(p, unsent, values, unsent, restored)
    <3>1. unsent \in SUBSET Keys /\ values \in [Keys -> Value \cup {Unset}] /\ restored \in BOOLEAN
      BY DEF SettingsTypeOK
    <3>2. UNCHANGED <<process, local, restored, remote, before, insist, late, bounds, wanted, owed>>
      BY <1>1 DEF Acquire
    <3> QED BY <1>0, <2>2, <3>1, <3>2, GoOnTypes DEF SettingsTypeOK, local, bounds
  <2> QED BY <1>1, <2>1, <2>2 DEF Acquire
<1>2. CASE FindAnswers(p)
  <2> DEFINE pend == unsent \cup {k \in Keys : Merged[k] # Unset /\ remote[k] = Unset}
  <2>1. pend \in SUBSET Keys /\ Merged \in [Keys -> Value \cup {Unset}]
    BY MergedType DEF SettingsTypeOK
  <2>2. /\ GoOn(p, pend, Merged, pend, TRUE)
        /\ values' = Merged /\ unsent' = pend /\ store' = [values |-> Merged, pending |-> pend]
        /\ restored' = TRUE
        /\ owed' = (owed /\ ~("channels" \in pend /\ Merged["channels"] = listing))
        /\ UNCHANGED <<process, remote, before, insist, late, bounds, wanted>>
    BY <1>2 DEF FindAnswers
  <2> HIDE DEF pend
  <2> QED BY <1>0, <2>1, <2>2, GoOnTypes DEF SettingsTypeOK, bounds
<1>3. CASE FindFails(p)
  <2> DEFINE st == IF unsent = {} THEN "restore_failed" ELSE "pending"
  <2>1. /\ Leave(p, st, values, restored) /\ st \in {"restore_failed", "pending"}
        /\ mishaps' \in Nat
        /\ UNCHANGED <<process, local, restored, remote, before, insist, late, launches, wanted, owed>>
    BY <1>3 DEF FindFails, Mishap, SettingsTypeOK
  <2>2. values \in [Keys -> Value \cup {Unset}] /\ restored \in BOOLEAN
    BY DEF SettingsTypeOK
  <2> HIDE DEF st
  <2> QED BY <1>0, <2>1, <2>2, LeaveTypes DEF SettingsTypeOK, local, Nothing, Keys
<1>4. CASE PushAnswers(p)
  <2> DEFINE pend == IF values[at.key] = at.val THEN unsent \ {at.key} ELSE unsent
  <2>1. pend \in SUBSET Keys /\ left \in SUBSET Keys /\ values \in [Keys -> Value \cup {Unset}]
        /\ restored \in BOOLEAN
    BY DEF SettingsTypeOK
  <2>2. /\ GoOn(p, left, values, pend, restored)
        /\ remote' = [remote EXCEPT ![at.key] = at.val]
        /\ unsent' = pend /\ store' = [values |-> values, pending |-> pend]
        /\ UNCHANGED <<process, values, restored, before, insist, late, bounds, wanted, owed>>
        /\ place[p] = "push"
    BY <1>4 DEF PushAnswers
  <2> HIDE DEF pend
  <2>3. remote' \in [Keys -> Value \cup {Unset}]
    BY <1>0, <2>2 DEF SettingsTypeOK
  <2> QED BY <1>0, <2>1, <2>2, <2>3, GoOnTypes DEF SettingsTypeOK, bounds
<1>5. CASE PushFails(p)
  <2>1. /\ Leave(p, "pending", values, restored)
        /\ mishaps' \in Nat
        /\ late' \in {late, late \cup {at}} /\ place[p] = "push"
        /\ UNCHANGED <<process, local, restored, remote, before, insist, launches, wanted, owed>>
    BY <1>5 DEF PushFails, Mishap, SettingsTypeOK
  <2>2. values \in [Keys -> Value \cup {Unset}] /\ restored \in BOOLEAN
    BY DEF SettingsTypeOK
  <2>3. late' \in SUBSET [key : Keys, val : Value]
    BY <1>0, <2>1 DEF SettingsTypeOK
  <2> QED BY <1>0, <2>1, <2>2, <2>3, LeaveTypes DEF SettingsTypeOK, local, Nothing, Keys
<1> QED BY <1>1, <1>2, <1>3, <1>4, <1>5 DEF Sync

\* The owner's commands keep the types.
LEMMA CommandKeepsTypes ==
    ASSUME SettingsTypeOK, NEW c \in Commands,
           SetLimit(c) \/ SetChannel(c) \/ Replied(c) \/ ReplyFails(c)
    PROVE  SettingsTypeOK'
<1>0. /\ Does[c] \in [key : Keys, item : Items, level : Levels \cup {NoLevel}]
      /\ \A k \in Keys : Given(wanted[k]) \in Value /\ Given(values[k]) \in Value
      /\ c \in Procs /\ "limits" \in Keys /\ "channels" \in Keys
  BY OwnerSettingsAssumption, GivenType DEF SettingsTypeOK, Procs, Keys
<1>1. ASSUME AskLock(c)
      PROVE  queue' \in Seq(Procs)
             /\ place' \in [Procs -> {"new", "reply", "wait", "find", "push", "sleep", "done"}]
  <2>1. queue \in Seq(Procs) /\ Append(queue, c) \in Seq(Procs)
    BY <1>0, QueueFacts DEF SettingsTypeOK
  <2>2. queue' \in {queue, Append(queue, c)}
    BY <1>1 DEF AskLock
  <2>3. place' \in [Procs -> {"new", "reply", "wait", "find", "push", "sleep", "done"}]
    BY <1>1 DEF AskLock, SettingsTypeOK
  <2> QED BY <2>1, <2>2, <2>3
<1>2. ASSUME NEW k \in Keys, NEW base \in Value, NEW settled, Wants(k, c, base, settled)
      PROVE  wanted' \in [Keys -> Value \cup {Unset}] /\ spoiled' \in SUBSET Keys
  <2>1. Changed(Given(wanted[k]), c) \in Value
    BY <1>0, ChangedType
  <2> QED BY <1>2, <2>1 DEF Wants, SettingsTypeOK
<1>3. ASSUME NEW k \in Keys, NEW v \in Value, Stage(k, v)
      PROVE  /\ values' \in [Keys -> Value \cup {Unset}] /\ unsent' \in SUBSET Keys
             /\ store' \in [values : [Keys -> Value \cup {Unset}], pending : SUBSET Keys]
  BY <1>3 DEF Stage, SettingsTypeOK
<1>4. CASE SetLimit(c)
  <2>1. Given(values["limits"]) \in Value /\ Changed(Given(values["limits"]), c) \in Value
    BY <1>0, ChangedType
  <2>2. live' \in Value
    BY <1>0, <1>4 DEF SetLimit, SettingsTypeOK, Value
  <2>3. /\ Stage("limits", Changed(Given(values["limits"]), c))
        /\ Wants("limits", c, Given(values["limits"]), restored) /\ AskLock(c)
        /\ UNCHANGED <<process, restored, status, remote, channels, before, insist, left, at, late,
                       bounds, owed, enacted>>
    BY <1>4 DEF SetLimit
  <2>4. /\ queue' \in Seq(Procs)
        /\ place' \in [Procs -> {"new", "reply", "wait", "find", "push", "sleep", "done"}]
    BY <1>1, <2>3
  <2>5. wanted' \in [Keys -> Value \cup {Unset}] /\ spoiled' \in SUBSET Keys
    BY <1>0, <1>2, <2>1, <2>3
  <2>6. /\ values' \in [Keys -> Value \cup {Unset}] /\ unsent' \in SUBSET Keys
        /\ store' \in [values : [Keys -> Value \cup {Unset}], pending : SUBSET Keys]
    BY <1>0, <1>3, <2>1, <2>3
  <2> QED BY <2>2, <2>3, <2>4, <2>5, <2>6 DEF SettingsTypeOK, channels, bounds
<1>5. CASE SetChannel(c)
  <2>1. mem \in Value /\ Changed(mem, c) \in Value
    BY ChangedType DEF SettingsTypeOK
  <2>2. wanted' \in [Keys -> Value \cup {Unset}] /\ spoiled' \in SUBSET Keys
    BY <1>0, <1>2, <1>5, <2>1 DEF SetChannel
  <2> QED BY <1>0, <1>5, <2>1, <2>2 DEF SetChannel, SettingsTypeOK, syncing, local, bounds
<1>6. CASE Replied(c)
  <2> DEFINE differs == process = "up" /\ listing # before[c]
             staged == differs /\ values["channels"] # listing
  <2>1. /\ staged => Stage("channels", listing) /\ owed' = FALSE
        /\ ~staged => UNCHANGED local /\ owed' = (owed /\ ~(differs /\ restored))
        /\ AskLock(c) /\ before' = [before EXCEPT ![c] = Unset]
        /\ UNCHANGED <<process, restored, status, remote, channels, live, insist, left, at, late,
                       bounds, wanted, enacted, spoiled>>
    BY <1>6 DEF Replied
  <2> HIDE DEF staged, differs
  <2>2. /\ queue' \in Seq(Procs)
        /\ place' \in [Procs -> {"new", "reply", "wait", "find", "push", "sleep", "done"}]
    BY <1>1, <2>1
  <2>3. /\ values' \in [Keys -> Value \cup {Unset}] /\ unsent' \in SUBSET Keys
        /\ store' \in [values : [Keys -> Value \cup {Unset}], pending : SUBSET Keys]
    <3>1. CASE staged
      <4>1. listing \in Value \cup {Unset}
        BY DEF SettingsTypeOK
      <4>2. values' = [values EXCEPT !["channels"] = listing] /\ unsent' = unsent \cup {"channels"}
            /\ store' = [values |-> values', pending |-> unsent']
        BY <2>1, <3>1 DEF Stage
      <4>3. values' \in [Keys -> Value \cup {Unset}] /\ unsent' \in SUBSET Keys
        BY <1>0, <4>1, <4>2 DEF SettingsTypeOK
      <4> QED BY <4>2, <4>3
    <3>2. CASE ~staged
      BY <2>1, <3>2 DEF SettingsTypeOK, local
    <3> QED BY <3>1, <3>2
  <2>4. owed' \in BOOLEAN
    BY <2>1 DEF SettingsTypeOK
  <2> QED BY <2>1, <2>2, <2>3, <2>4 DEF SettingsTypeOK, channels, bounds
<1>7. CASE ReplyFails(c)
  BY <1>0, <1>7 DEF ReplyFails, Mishap, SettingsTypeOK, syncing, local, channels, history
<1> QED BY <1>4, <1>5, <1>6, <1>7

\* The rest of the steps: of the channels themselves, of MongoDB, and of the process.
Others ==
    \/ \E i \in Items : AutoDisable(i)
    \/ \E w \in late : ArriveLate(w)
    \/ Launch \/ StartSettings \/ Wake \/ Die \/ Move

\* They keep the types.
LEMMA OthersKeepTypes ==
    ASSUME SettingsTypeOK, Others
    PROVE  SettingsTypeOK'
<1>0. /\ \A k \in Keys : Given(wanted[k]) \in Value
      /\ boot \in Procs /\ retry \in Procs /\ "limits" \in Keys /\ "channels" \in Keys
      /\ Empty \in Value /\ Nothing \in [key : Keys, val : Value \cup {Unset}]
      /\ Low \in Levels
  BY GivenType DEF SettingsTypeOK, Procs, Keys, Empty, Value, Nothing, Levels
<1>1. ASSUME NEW i \in Items, AutoDisable(i)
      PROVE  SettingsTypeOK'
  <2>1. mem' \in Value /\ [Given(wanted["channels"]) EXCEPT ![i] = Low] \in Value
    BY <1>0, <1>1 DEF AutoDisable, SettingsTypeOK, Value
  <2>2. /\ wanted' = [wanted EXCEPT !["channels"] = [Given(wanted["channels"]) EXCEPT ![i] = Low]]
        /\ listing' = mem' /\ owed' = TRUE /\ mishaps' \in Nat /\ spoiled' \in SUBSET Keys
        /\ UNCHANGED <<process, local, restored, status, remote, live, place, before, insist, syncing,
                       late, launches, enacted>>
    BY <1>0, <1>1 DEF AutoDisable, Mishap, SettingsTypeOK
  <2>3. wanted' \in [Keys -> Value \cup {Unset}]
    BY <1>0, <2>1, <2>2 DEF SettingsTypeOK
  <2> QED BY <2>1, <2>2, <2>3 DEF SettingsTypeOK, local, syncing
<1>2. ASSUME NEW w \in late, ArriveLate(w)
      PROVE  SettingsTypeOK'
  BY <1>2 DEF ArriveLate, SettingsTypeOK, local, channels, syncing, bounds
<1>3. CASE Launch
  BY <1>3 DEF Launch, SettingsTypeOK, local, channels, syncing, history
<1>4. CASE StartSettings
  BY <1>0, <1>4, QueueFacts DEF StartSettings, SettingsTypeOK, channels, bounds, history
<1>5. CASE Wake
  <2>1. insist' \in BOOLEAN
    BY <1>5 DEF Wake
  <2>2. Append(queue, retry) \in Seq(Procs)
    BY <1>0, QueueFacts DEF SettingsTypeOK
  <2>3. queue' = Append(queue, retry) /\ place' = [place EXCEPT ![retry] = "wait"]
        /\ UNCHANGED <<process, local, restored, status, remote, channels, live, before, left, at,
                       late, bounds, history>>
    BY <1>5 DEF Wake
  <2> QED BY <1>0, <2>1, <2>2, <2>3 DEF SettingsTypeOK, local, channels, bounds, history
<1>6. CASE Die
  <2>1. /\ process' = "down" /\ restored' = FALSE /\ status' = "not_started"
        /\ values' = store.values /\ unsent' = store.pending
        /\ mem' = Empty /\ live' = Empty /\ insist' = FALSE
        /\ queue' = <<>> /\ left' = {} /\ at' = Nothing /\ enacted' = FALSE
        /\ UNCHANGED <<store, remote, listing, late, launches, wanted, owed, spoiled>>
    BY <1>6 DEF Die
  <2>2. mishaps' \in Nat
    BY <1>6 DEF Die, SettingsTypeOK, Mishap
  <2>3. place' \in [Procs -> {"new", "reply", "wait", "find", "push", "sleep", "done"}]
    BY <1>6 DEF Die
  <2>4. before' \in [Commands -> Value \cup {Unset}]
    BY <1>6 DEF Die
  <2>5. queue' \in Seq(Procs)
    BY <2>1
  <2>6. values' \in [Keys -> Value \cup {Unset}] /\ unsent' \in SUBSET Keys
    BY <2>1 DEF SettingsTypeOK
  <2> QED BY <1>0, <2>1, <2>2, <2>3, <2>4, <2>5, <2>6 DEF SettingsTypeOK
<1>7. CASE Move
  <2>1. store' = [values |-> [k \in Keys |-> Unset], pending |-> {}]
        /\ values' = store'.values /\ unsent' = {} /\ listing' = Unset /\ owed' = FALSE
        /\ UNCHANGED <<process, restored, status, remote, mem, live, place, before, insist,
                       queue, left, at, late, launches, enacted, spoiled>>
    BY <1>7 DEF Move, syncing
  <2>2. store' \in [values : [Keys -> Value \cup {Unset}], pending : SUBSET Keys]
        /\ values' \in [Keys -> Value \cup {Unset}] /\ unsent' \in SUBSET Keys
    BY <2>1
  <2>3. mishaps' \in Nat
    BY <1>7 DEF Move, Mishap, SettingsTypeOK
  <2>4. wanted' \in [Keys -> Value \cup {Unset}]
    BY <1>7 DEF Move, SettingsTypeOK
  <2> QED BY <2>1, <2>2, <2>3, <2>4 DEF SettingsTypeOK
<1> QED BY <1>1, <1>2, <1>3, <1>4, <1>5, <1>6, <1>7 DEF Others

\* SettingsNext is the syncs, the commands and the rest.
LEMMA ThreeKinds ==
    ASSUME SettingsNext
    PROVE  \/ \E p \in Procs : Sync(p)
           \/ \E c \in Commands : SetLimit(c) \/ SetChannel(c) \/ Replied(c) \/ ReplyFails(c)
           \/ Others
BY DEF SettingsNext, Others

-----------------------------------------------------------------------------
(* The owner's settings: what is kept, and where.                          *)

\* A value is not empty, and the two keys are keys.
LEMMA KeyFacts ==
    /\ "limits" \in Keys /\ "channels" \in Keys /\ Unset \notin Value
    /\ \A k \in Keys : k = "limits" \/ k = "channels"
BY OwnerSettingsAssumption DEF Keys

\* A list that a checkpoint stages is not empty.
LEMMA StagedIsSet ==
    ASSUME SettingsTypeOK, ListHasFile, NEW c \in Commands, Replied(c)
    PROVE  listing # before[c] => listing \in Value
BY DEF SettingsTypeOK, ListHasFile

\* The values of a process stay those of its file.
LEMMA FilesStep ==
    ASSUME SettingsTypeOK, FilesAgree, Lifetime, ListHasFile, SettingsNext
    PROVE  FilesAgree'
<1>1. ASSUME UNCHANGED <<process, local, restored>>
      PROVE  FilesAgree'
  BY <1>1 DEF FilesAgree, local
<1>2. ASSUME NEW p \in Procs, Sync(p)
      PROVE  FilesAgree'
  <2>1. CASE Acquire(p) \/ FindFails(p) \/ PushFails(p)
    BY <1>1, <2>1 DEF Acquire, FindFails, PushFails
  <2>2. CASE FindAnswers(p)
    <3>1. /\ values' = Merged /\ store' = [values |-> Merged, pending |-> unsent']
          /\ unsent' = unsent \cup {k \in Keys : Merged[k] # Unset /\ remote[k] = Unset}
      BY <2>2 DEF FindAnswers
    <3>2. \A k \in unsent' : Merged[k] # Unset
      BY <3>1 DEF Merged, FilesAgree, SettingsTypeOK
    <3> QED BY <3>1, <3>2 DEF FilesAgree
  <2>3. CASE PushAnswers(p)
    <3>1. /\ values' = values /\ store' = [values |-> values, pending |-> unsent']
          /\ unsent' \subseteq unsent
      BY <2>3 DEF PushAnswers
    <3> QED BY <3>1 DEF FilesAgree
  <2> QED BY <1>2, <2>1, <2>2, <2>3 DEF Sync
<1>3. ASSUME NEW k \in Keys, NEW v \in Value, Stage(k, v)
      PROVE  FilesAgree'
  <2>1. /\ values' = [values EXCEPT ![k] = v] /\ unsent' = unsent \cup {k}
        /\ store' = [values |-> values', pending |-> unsent']
    BY <1>3 DEF Stage
  <2>2. \A j \in unsent' : values'[j] # Unset
    BY <2>1, KeyFacts DEF FilesAgree, SettingsTypeOK
  <2> QED BY <2>1, <2>2 DEF FilesAgree
<1>4. ASSUME NEW c \in Commands, SetLimit(c) \/ SetChannel(c) \/ Replied(c) \/ ReplyFails(c)
      PROVE  FilesAgree'
  <2>1. CASE SetLimit(c)
    <3>1. Given(values["limits"]) \in Value
      BY KeyFacts, GivenType DEF SettingsTypeOK
    <3> QED BY <1>3, <2>1, <3>1, KeyFacts, ChangedType DEF SetLimit
  <2>2. CASE Replied(c)
    <3>1. CASE Stage("channels", listing) /\ listing # before[c]
      BY <1>3, <2>2, <3>1, KeyFacts, StagedIsSet
    <3>2. CASE UNCHANGED local
      BY <1>1, <2>2, <3>2 DEF Replied
    <3> QED BY <2>2, <3>1, <3>2 DEF Replied
  <2> QED BY <1>1, <1>4, <2>1, <2>2 DEF SetChannel, ReplyFails
<1>5. CASE Others
  <2>1. CASE StartSettings
    <3>1. /\ ~restored /\ ~restored' /\ values = store.values
          /\ values' = [values EXCEPT !["channels"] = IF @ = Unset THEN listing ELSE @]
          /\ UNCHANGED <<store, unsent>>
      BY <2>1 DEF StartSettings, FilesAgree, Lifetime
    <3>2. /\ values'["limits"] = values["limits"]
          /\ \A k \in Keys : values[k] # Unset => values'[k] = values[k]
      BY <3>1, KeyFacts DEF SettingsTypeOK
    <3>3. unsent \subseteq Keys
      BY DEF SettingsTypeOK
    <3> QED BY <2>1, <3>1, <3>2, <3>3, KeyFacts DEF FilesAgree, StartSettings
  <2>2. CASE Launch
    BY <2>2 DEF Launch, FilesAgree, local
  <2>3. CASE Die
    BY <2>3 DEF Die, FilesAgree
  <2>4. CASE Move
    BY <2>4 DEF Move, FilesAgree
  <2> QED BY <1>1, <1>5, <2>1, <2>2, <2>3, <2>4 DEF Others, AutoDisable, ArriveLate, Wake
<1> QED BY <1>2, <1>4, <1>5, ThreeKinds

-----------------------------------------------------------------------------
(* The owner's settings: what a sync does.                                 *)

\* The holder goes on to read, to write, or leaves.
Reads(p) ==
    /\ place[p] = "wait" /\ (~restored \/ Insists(p))
    /\ place' = [place EXCEPT ![p] = "find"]
    /\ UNCHANGED <<local, restored, status, remote, syncing, channels, live, enacted, spoiled,
                   owed>>

Sends(p) ==
    /\ restored' /\ at'.key \in unsent' /\ at'.val = values'[at'.key]
    /\ left' \subseteq unsent' /\ at'.key \notin left'
    /\ place' = [place EXCEPT ![p] = "push"]
    /\ UNCHANGED <<queue, status, channels, live, enacted, spoiled>>

Leaves(p) ==
    \E st \in {"synced", "pending", "restore_failed"} :
        /\ Leave(p, st, values', restored')
        /\ st = "synced" => unsent' = {}

\* The settings stay; they are restored; MongoDB has taken a write.
Unmoved  == UNCHANGED <<local, restored, remote, owed>>
Restores(p) ==
    /\ place[p] = "find"
    /\ values' = Merged
    /\ unsent' = unsent \cup {k \in Keys : Merged[k] # Unset /\ remote[k] = Unset}
    /\ store' = [values |-> values', pending |-> unsent']
    /\ restored' = TRUE
    /\ owed' = (owed /\ ~("channels" \in unsent' /\ values'["channels"] = listing))
    /\ UNCHANGED remote
Takes(p) ==
    /\ place[p] = "push" /\ restored /\ at.key \in unsent /\ at.val # Unset
    /\ remote' = [remote EXCEPT ![at.key] = at.val]
    /\ unsent' = IF values[at.key] = at.val THEN unsent \ {at.key} ELSE unsent
    /\ store' = [values |-> values, pending |-> unsent']
    /\ UNCHANGED <<values, restored, owed>>

\* A sync that goes on writes or leaves.
LEMMA GoOnWay ==
    ASSUME NEW p \in Procs, NEW rest, GoOn(p, rest, values', unsent', restored'),
           restored', rest \subseteq unsent'
    PROVE  Sends(p) \/ Leaves(p)
<1>1. CASE rest = {} /\ Leave(p, IF unsent' = {} THEN "synced" ELSE "pending", values', restored')
  <2>1. CASE unsent' = {}
    <3>1. Leave(p, "synced", values', restored')
      BY <1>1, <2>1
    <3> QED BY <2>1, <3>1 DEF Leaves
  <2>2. CASE unsent' # {}
    <3>1. Leave(p, "pending", values', restored')
      BY <1>1, <2>2
    <3> QED BY <3>1 DEF Leaves
  <2> QED BY <2>1, <2>2
<1>2. CASE \E k \in rest :
               /\ at' = [key |-> k, val |-> values'[k]] /\ left' = rest \ {k}
               /\ place' = [place EXCEPT ![p] = "push"]
               /\ UNCHANGED <<queue, status, channels, live, enacted, spoiled>>
  BY <1>2 DEF Sends
<1> QED BY <1>1, <1>2 DEF GoOn

\* A sync, as seen from the lock and from the settings.
LEMMA SyncWay ==
    ASSUME SettingsTypeOK, FilesAgree, Lifetime, LockHeld, NEW p \in Procs, Sync(p)
    PROVE  /\ process = "up" /\ queue # <<>> /\ Head(queue) = p
           /\ place[p] \in {"wait", "find", "push"}
           /\ UNCHANGED <<process, before, insist, launches, wanted>>
           /\ Reads(p) \/ Sends(p) \/ Leaves(p)
           /\ Unmoved \/ Restores(p) \/ Takes(p)
<1>1. /\ queue # <<>> /\ Head(queue) = p /\ place[p] \in {"wait", "find", "push"}
      /\ UNCHANGED <<process, before, insist, launches, wanted>>
  BY DEF Sync, Acquire, FindAnswers, FindFails, PushAnswers, PushFails, Holds, bounds
<1>2. process = "up"
  BY <1>1 DEF Lifetime
<1>3. CASE Acquire(p)
  <2>1. UNCHANGED <<local, restored, remote, owed>>
    BY <1>3 DEF Acquire
  <2>2. CASE ~restored \/ Insists(p)
    <3>1. Reads(p)
      BY <1>3, <2>1, <2>2 DEF Acquire, Reads
    <3> QED BY <1>1, <1>2, <2>1, <3>1 DEF Unmoved
  <2>3. CASE ~(~restored \/ Insists(p))
    <3>1. GoOn(p, unsent', values', unsent', restored')
      BY <1>3, <2>1, <2>3 DEF Acquire, local
    <3>2. restored'
      BY <2>1, <2>3
    <3>3. Sends(p) \/ Leaves(p)
      BY <3>1, <3>2, GoOnWay
    <3> QED BY <1>1, <1>2, <2>1, <3>3 DEF Unmoved
  <2> QED BY <2>2, <2>3
<1>4. CASE FindAnswers(p)
  <2>1. GoOn(p, unsent', values', unsent', restored') /\ Restores(p)
    BY <1>4 DEF FindAnswers, Restores
  <2>2. Sends(p) \/ Leaves(p)
    BY <2>1, GoOnWay DEF Restores
  <2> QED BY <1>1, <1>2, <2>1, <2>2
<1>5. CASE FindFails(p) \/ PushFails(p)
  <2>1. Unmoved
    BY <1>5 DEF FindFails, PushFails, Unmoved
  <2>2. PICK st \in {"pending", "restore_failed"} : Leave(p, st, values, restored)
    BY <1>5 DEF FindFails, PushFails
  <2>3. Leave(p, st, values', restored')
    BY <2>1, <2>2 DEF Unmoved, local
  <2> QED BY <1>1, <1>2, <2>1, <2>3 DEF Leaves
<1>6. CASE PushAnswers(p)
  <2>1. /\ GoOn(p, left, values', unsent', restored') /\ Takes(p)
        /\ restored' /\ left \subseteq unsent'
    BY <1>6 DEF PushAnswers, Takes, LockHeld
  <2>2. Sends(p) \/ Leaves(p)
    BY <2>1, GoOnWay
  <2> QED BY <1>1, <1>2, <2>1, <2>2
<1> QED BY <1>3, <1>4, <1>5, <1>6 DEF Sync

-----------------------------------------------------------------------------
(* The owner's settings: the process, the lock and the list's file.        *)

\* What the commands do to the lock and to the places.
LEMMA CommandWay ==
    ASSUME SettingsTypeOK, Lifetime, NEW c \in Commands,
           SetLimit(c) \/ SetChannel(c) \/ Replied(c) \/ ReplyFails(c)
    PROVE  /\ process # "down" /\ place[c] \in {"new", "reply"} /\ c \in Procs /\ c \notin {boot, retry}
           /\ place'[c] = "reply" => Does[c].key = "channels"
           /\ UNCHANGED <<process, restored, status, remote, insist, left, at, late, enacted>>
           /\ \/ queue' = queue /\ place' = [place EXCEPT ![c] = "reply"]
              \/ queue' = queue /\ place' = [place EXCEPT ![c] = "done"]
              \/ /\ queue' = Append(queue, c) /\ place' = [place EXCEPT ![c] = "wait"]
                 /\ process = "up"
           /\ unsent \subseteq unsent'
           /\ unsent' = unsent \/ queue' = Append(queue, c) \/ process # "up"
<1>0. c \in Procs /\ c \notin {boot, retry} /\ (process = "down" => place[c] # "reply")
  BY OwnerSettingsAssumption DEF Procs, Lifetime
<1>1. CASE SetLimit(c)
  BY <1>0, <1>1 DEF SetLimit, AskLock, Stage, SettingsTypeOK
<1>2. CASE SetChannel(c)
  BY <1>0, <1>2 DEF SetChannel, local, syncing
<1>3. CASE Replied(c)
  BY <1>0, <1>3 DEF Replied, AskLock, Stage, local, SettingsTypeOK
<1>4. CASE ReplyFails(c)
  BY <1>0, <1>4 DEF ReplyFails, local, syncing, history, SettingsTypeOK
<1> QED BY <1>1, <1>2, <1>3, <1>4

\* Who comes to a lock that is held waits behind its holder.
LEMMA AppendHolds ==
    ASSUME NEW q \in Seq(Procs), NEW p \in Procs
    PROVE  /\ Append(q, p) # <<>>
           /\ q # <<>> => Head(Append(q, p)) = Head(q)
BY SMTT(30)

\* Nothing runs before the process, nor outlives it.
LEMMA LifetimeStep ==
    ASSUME SettingsTypeOK, FilesAgree, Lifetime, LockHeld, SettingsNext
    PROVE  Lifetime'
<1>0. boot \in Procs /\ retry \in Procs /\ boot # retry
  BY OwnerSettingsAssumption DEF Procs
<1>1. ASSUME NEW p \in Procs, Sync(p)
      PROVE  Lifetime'
  <2>1. process' = "up" /\ (Reads(p) \/ Sends(p) \/ Leaves(p))
    BY <1>1, SyncWay
  <2>2. /\ \A r \in {boot, retry} : place'[r] \notin {"new", "reply"}
        /\ \A c \in Commands : place'[c] = "reply" => place[c] = "reply"
    BY <1>0, <2>1 DEF Procs, Reads, Sends, Leaves, Leave, Lifetime, SettingsTypeOK, Procs
  <2> QED BY <2>1, <2>2 DEF Lifetime
<1>2. ASSUME NEW c \in Commands, SetLimit(c) \/ SetChannel(c) \/ Replied(c) \/ ReplyFails(c)
      PROVE  Lifetime'
  <2>1. process # "down" /\ c \in Procs /\ c \notin {boot, retry} /\ process' = process
        /\ UNCHANGED <<status, restored, enacted>>
        /\ \/ queue' = queue /\ place' = [place EXCEPT ![c] = "reply"]
           \/ queue' = queue /\ place' = [place EXCEPT ![c] = "done"]
           \/ place' = [place EXCEPT ![c] = "wait"] /\ process = "up"
    BY <1>2, CommandWay
  <2>2. \A d \in Commands : place'[d] = "reply" => Does[d].key = "channels"
    <3>1. place'[c] = "reply" => Does[c].key = "channels"
      BY <1>2, CommandWay
    <3>2. PICK w : place' = [place EXCEPT ![c] = w]
      BY <2>1
    <3>3. \A d \in Procs : d # c => place'[d] = place[d]
      BY <3>2 DEF SettingsTypeOK
    <3>4. Commands \subseteq Procs
      BY DEF Procs
    <3>5. \A d \in Commands : place[d] = "reply" => Does[d].key = "channels"
      BY DEF Lifetime
    <3> QED BY <3>1, <3>3, <3>4, <3>5
  <2>3. /\ \A p \in Procs : place'[p] \in {"wait", "find", "push", "sleep"} => process = "up"
        /\ \A p \in {boot, retry} : place'[p] \notin {"new", "reply"}
    BY <1>0, <2>1 DEF Lifetime, SettingsTypeOK
  <2>4. process # "up" => queue' = <<>> /\ status = "not_started" /\ ~restored /\ ~enacted
    BY <2>1 DEF Lifetime
  <2> QED BY <2>1, <2>2, <2>3, <2>4 DEF Lifetime
<1>3. CASE Others
  <2>1. CASE StartSettings
    BY <1>0, <2>1 DEF StartSettings, Lifetime, SettingsTypeOK, Procs
  <2>2. CASE Wake
    BY <1>0, <2>2 DEF Wake, Lifetime, SettingsTypeOK, Procs, channels
  <2>3. CASE Die
    BY <1>0, <2>3 DEF Die, Lifetime, SettingsTypeOK, Procs
  <2>4. CASE Launch
    BY <1>0, <2>4 DEF Launch, Lifetime, SettingsTypeOK, Procs, syncing, history, channels
  <2>5. CASE Move
    BY <1>0, <2>5 DEF Move, Lifetime, SettingsTypeOK, Procs, syncing
  <2>6. ASSUME NEW i \in Items, AutoDisable(i)
        PROVE  Lifetime'
    BY <1>0, <2>6 DEF AutoDisable, Lifetime, SettingsTypeOK, Procs, syncing
  <2>7. ASSUME NEW w \in late, ArriveLate(w)
        PROVE  Lifetime'
    BY <1>0, <2>7 DEF ArriveLate, Lifetime, SettingsTypeOK, Procs, syncing, channels
  <2> QED BY <1>3, <2>1, <2>2, <2>3, <2>4, <2>5, <2>6, <2>7 DEF Others
<1> QED BY <1>1, <1>2, <1>3, ThreeKinds

\* The lock is its holder's.
LEMMA LockStep ==
    ASSUME SettingsTypeOK, FilesAgree, Lifetime, LockHeld, ListHasFile, SettingsNext
    PROVE  LockHeld'
<1>0. boot \in Procs /\ retry \in Procs /\ boot # retry /\ queue \in Seq(Procs)
  BY OwnerSettingsAssumption DEF Procs, SettingsTypeOK
<1>1. ASSUME NEW p \in Procs, Sync(p)
      PROVE  LockHeld'
  <2>1. /\ process' = process /\ process = "up" /\ queue # <<>> /\ Head(queue) = p /\ insist' = insist
        /\ place[p] \in {"wait", "find", "push"}
        /\ Reads(p) \/ Sends(p) \/ Leaves(p)
        /\ Unmoved \/ Restores(p) \/ Takes(p)
    BY <1>1, SyncWay
  <2>2. \A q \in Procs : q # p => place[q] \notin {"find", "push"}
    BY <2>1 DEF LockHeld, Holds
  <2>3. restored => restored'
    BY <2>1 DEF Unmoved, Restores, Takes
  <2>4. p # boot /\ place[boot] # "done" => p # retry
    BY <2>1 DEF LockHeld
  <2>5. CASE Reads(p)
    <3>1. /\ place'[p] = "find" /\ \A q \in Procs : q # p => place'[q] = place[q]
          /\ UNCHANGED <<queue, restored, unsent, at, left, enacted>> /\ (~restored \/ Insists(p))
      BY <2>5 DEF Reads, SettingsTypeOK, local, syncing
    <3> QED BY <1>0, <2>1, <2>2, <2>4, <3>1 DEF LockHeld, Holds, Insists
  <2>6. CASE Sends(p)
    <3>1. /\ place'[p] = "push" /\ \A q \in Procs : q # p => place'[q] = place[q]
          /\ UNCHANGED <<queue, enacted>>
          /\ restored' /\ at'.key \in unsent' /\ at'.val = values'[at'.key]
          /\ left' \subseteq unsent' /\ at'.key \notin left'
      BY <2>6 DEF Sends, SettingsTypeOK
    <3>2. at'.val # Unset
      <4>1. FilesAgree'
        BY FilesStep
      <4> QED BY <3>1, <4>1 DEF FilesAgree
    <3> QED BY <1>0, <2>1, <2>2, <2>4, <3>1, <3>2 DEF LockHeld, Holds, Insists
  <2>7. CASE Leaves(p)
    <3>1. PICK st : Leave(p, st, values', restored')
      BY <2>7 DEF Leaves
    <3>2. /\ place'[p] \in {"sleep", "done"}
          /\ \A q \in Procs : q # p => place'[q] \in {place[q], "sleep"}
          /\ place'[boot] = IF p = boot THEN "done" ELSE place[boot]
          /\ place'[retry] = IF p \in {boot, retry} THEN "sleep" ELSE place[retry]
      BY <1>0, <3>1 DEF Leave, SettingsTypeOK
    <3>3. \A q \in Procs : place'[q] \notin {"find", "push"}
      BY <2>2, <3>2
    <3>4. enacted' => restored' /\ place'[boot] = "done"
      <4>1. CASE enacted' = enacted
        BY <2>3, <3>2, <4>1 DEF LockHeld
      <4>2. CASE enacted' # enacted
        <5>1. enacted' = restored' /\ p \in {boot, retry}
          BY <3>1, <4>2 DEF Leave, Enact, Obey, Insists
        <5> QED BY <2>4, <3>2, <5>1
      <4> QED BY <4>1, <4>2
    <3> QED BY <2>1, <2>4, <3>2, <3>3, <3>4 DEF LockHeld
  <2> QED BY <2>1, <2>5, <2>6, <2>7
<1>2. ASSUME NEW c \in Commands, SetLimit(c) \/ SetChannel(c) \/ Replied(c) \/ ReplyFails(c)
      PROVE  LockHeld'
  <2>1. /\ place[c] \in {"new", "reply"} /\ c \in Procs /\ c \notin {boot, retry}
        /\ process' = process /\ UNCHANGED <<restored, insist, left, at, enacted>>
        /\ queue' \in {queue, Append(queue, c)}
        /\ \E w \in {"reply", "done", "wait"} : place' = [place EXCEPT ![c] = w]
        /\ unsent \subseteq unsent'
    BY <1>2, CommandWay
  <2>2. \A q \in Procs : place'[q] \in {"find", "push"} => place'[q] = place[q] /\ Holds(q)'
    <3>1. SUFFICES ASSUME NEW q \in Procs, place'[q] \in {"find", "push"}
                   PROVE  place'[q] = place[q] /\ Holds(q)'
      OBVIOUS
    <3>2. place'[q] = place[q]
      BY <2>1, <3>1 DEF SettingsTypeOK
    <3>3. queue # <<>> /\ Head(queue) = q
      BY <3>1, <3>2 DEF LockHeld, Holds
    <3> QED BY <1>0, <2>1, <3>2, <3>3, AppendHolds DEF Holds
  <2>3. place'[boot] = place[boot] /\ place'[retry] = place[retry]
    BY <1>0, <2>1 DEF SettingsTypeOK
  <2> QED BY <1>0, <2>1, <2>2, <2>3 DEF LockHeld, Insists
<1>3. CASE Others
  <2>1. CASE StartSettings
    <3>1. /\ queue = <<>> /\ process' = "up" /\ ~enacted /\ ~enacted'
          /\ \A q \in Procs : place[q] \notin {"wait", "find", "push", "sleep"}
          /\ place[retry] = "done"
          /\ place' = [place EXCEPT ![boot] = "wait"]
      BY <1>0, <2>1 DEF StartSettings, Lifetime, SettingsTypeOK, history
    <3> QED BY <1>0, <3>1 DEF LockHeld, SettingsTypeOK
  <2>2. CASE Wake
    <3>1. /\ place[retry] = "sleep" /\ place' = [place EXCEPT ![retry] = "wait"]
          /\ queue' = Append(queue, retry) /\ place[boot] = "done"
          /\ UNCHANGED <<process, restored, unsent, left, at, enacted>>
      BY <2>2, <1>0 DEF Wake, LockHeld, Lifetime, local, history
    <3>2. \A q \in Procs : place'[q] \in {"find", "push"} =>
               q # retry /\ place'[q] = place[q] /\ Holds(q)'
      BY <1>0, <3>1, AppendHolds DEF LockHeld, Holds, SettingsTypeOK
    <3>3. place'[boot] = "done"
      BY <1>0, <3>1 DEF SettingsTypeOK
    <3> QED BY <1>0, <3>1, <3>2, <3>3 DEF LockHeld, Insists
  <2>3. CASE Die
    BY <2>3 DEF Die, LockHeld
  <2>4. CASE Launch
    BY <2>4 DEF Launch, LockHeld, Lifetime, local, syncing, history, Holds, Insists
  <2>5. CASE Move
    <3>1. \A q \in Procs : place'[q] \in {"new", "done"}
      BY <2>5 DEF Move, Lifetime
    <3>2. process' = "down" /\ ~enacted'
      BY <2>5 DEF Move, Lifetime
    <3> QED BY <3>1, <3>2 DEF LockHeld
  <2>6. ASSUME NEW i \in Items, AutoDisable(i)
        PROVE  LockHeld'
    BY <2>6 DEF AutoDisable, LockHeld, Holds, Insists, syncing, local
  <2>7. ASSUME NEW w \in late, ArriveLate(w)
        PROVE  LockHeld'
    BY <2>7 DEF ArriveLate, LockHeld, Holds, Insists, syncing, local
  <2> QED BY <1>3, <2>1, <2>2, <2>3, <2>4, <2>5, <2>6, <2>7 DEF Others
<1> QED BY <1>1, <1>2, <1>3, ThreeKinds


\* Who leaves with "synced" has left nothing pending.
LEMMA SyncedStep ==
    ASSUME SettingsTypeOK, FilesAgree, Lifetime, LockHeld, SyncedIsSent, SettingsNext
    PROVE  SyncedIsSent'
<1>0. queue \in Seq(Procs) /\ boot \in Procs /\ retry \in Procs
  BY DEF SettingsTypeOK, Procs
<1>1. ASSUME NEW p \in Procs, Sync(p)
      PROVE  SyncedIsSent'
  <2>1. queue # <<>> /\ (Reads(p) \/ Sends(p) \/ Leaves(p))
    BY <1>1, SyncWay
  <2>2. CASE Leaves(p)
    BY <2>2 DEF Leaves, Leave, SyncedIsSent
  <2> QED BY <2>1, <2>2 DEF Reads, Sends, syncing, SyncedIsSent
<1>2. ASSUME NEW c \in Commands, SetLimit(c) \/ SetChannel(c) \/ Replied(c) \/ ReplyFails(c)
      PROVE  SyncedIsSent'
  <2>1. /\ UNCHANGED <<process, status>> /\ c \in Procs
        /\ queue' \in {queue, Append(queue, c)}
        /\ unsent' = unsent \/ queue' = Append(queue, c) \/ process # "up"
    BY <1>2, CommandWay
  <2> QED BY <1>0, <2>1, AppendHolds DEF SyncedIsSent, Lifetime
<1>3. CASE Others
  <2>1. CASE StartSettings \/ Wake
    BY <1>0, <2>1, AppendHolds DEF StartSettings, Wake, SyncedIsSent
  <2>2. CASE Die
    BY <2>2 DEF Die, SyncedIsSent
  <2>3. CASE Move
    BY <2>3 DEF Move, SyncedIsSent, Lifetime
  <2> QED BY <1>3, <2>1, <2>2, <2>3
          DEF Others, AutoDisable, ArriveLate, Launch, local, syncing, SyncedIsSent
<1> QED BY <1>1, <1>2, <1>3, ThreeKinds

\* What apply() and the end of a sync do to the list.
LEMMA LeaveList ==
    ASSUME SettingsTypeOK, NEW p \in Procs, NEW st, NEW vals, NEW known, Leave(p, st, vals, known)
    PROVE  \/ Enact(vals, known) /\ (p = boot \/ Insists(p))
           \/ ~(p = boot \/ Insists(p)) /\ UNCHANGED <<listing, mem, enacted, spoiled>>
<1>1. CASE p \in Commands
  BY <1>1, OwnerSettingsAssumption DEF Leave, Obey, channels, Insists
<1>2. CASE p \notin Commands
  BY <1>2 DEF Leave, channels
<1> QED BY <1>1, <1>2

\* No step but a move takes the list's file away.
LEMMA ListStep ==
    ASSUME SettingsTypeOK, FilesAgree, Lifetime, LockHeld, ListHasFile, SettingsNext
    PROVE  ListHasFile'
<1>1. ASSUME UNCHANGED <<before, listing, mem, owed>>
      PROVE  ListHasFile'
  BY <1>1 DEF ListHasFile
<1>2. ASSUME NEW p \in Procs, Sync(p)
      PROVE  ListHasFile'
  <2>1. /\ UNCHANGED before /\ (Reads(p) \/ Sends(p) \/ Leaves(p))
        /\ Unmoved \/ Restores(p) \/ Takes(p)
    BY <1>2, SyncWay
  <2>2. owed' => owed
    BY <2>1 DEF Unmoved, Restores, Takes
  <2>3. CASE UNCHANGED <<listing, mem>>
    BY <2>1, <2>2, <2>3 DEF ListHasFile
  <2>4. ASSUME Enact(values', restored')
        PROVE  ListHasFile'
    <3>1. (listing # Unset => listing' # Unset) /\ mem' = Given(listing')
      BY <2>4 DEF Enact
    <3> QED BY <2>1, <2>2, <3>1 DEF ListHasFile, Given
  <2> QED BY <2>1, <2>3, <2>4, LeaveList DEF Reads, Sends, Leaves, channels
<1>3. ASSUME NEW c \in Commands, SetLimit(c) \/ SetChannel(c) \/ Replied(c) \/ ReplyFails(c)
      PROVE  ListHasFile'
  <2>1. CASE SetChannel(c)
    <3>1. Changed(mem, c) # Unset /\ mem \in Value
      BY ChangedType, KeyFacts DEF SettingsTypeOK
    <3>2. /\ before'[c] \in {listing, Unset} /\ \A d \in Commands : d # c => before'[d] = before[d]
          /\ mem' = Changed(mem, c)
          /\ listing' = IF Changed(mem, c) = mem THEN listing ELSE Changed(mem, c)
          /\ owed' = (owed \/ listing' # listing)
      BY <2>1 DEF SetChannel, SettingsTypeOK
    <3> QED BY <3>1, <3>2 DEF ListHasFile
  <2>2. CASE Replied(c)
    <3>1. /\ UNCHANGED <<listing, mem>> /\ (owed' => owed)
          /\ before' = [before EXCEPT ![c] = Unset]
      BY <2>2 DEF Replied, channels
    <3> QED BY <3>1 DEF ListHasFile, SettingsTypeOK
  <2>3. CASE ReplyFails(c)
    BY <2>3 DEF ReplyFails, ListHasFile, SettingsTypeOK, channels, history
  <2> QED BY <1>1, <1>3, <2>1, <2>2, <2>3 DEF SetLimit, channels
<1>4. CASE Others
  <2>1. ASSUME NEW i \in Items, AutoDisable(i)
        PROVE  ListHasFile'
    <3>1. mem' \in Value /\ listing' = mem' /\ UNCHANGED before
      BY <2>1 DEF AutoDisable, SettingsTypeOK, Value, Levels
    <3> QED BY <3>1, KeyFacts DEF ListHasFile
  <2>2. CASE Die
    BY <2>2 DEF Die, ListHasFile
  <2>3. CASE Move
    BY <2>3 DEF Move, ListHasFile, Lifetime
  <2> QED BY <1>1, <1>4, <2>1, <2>2, <2>3
          DEF Others, ArriveLate, Launch, StartSettings, Wake, channels, history
<1> QED BY <1>2, <1>3, <1>4, ThreeKinds

-----------------------------------------------------------------------------
(* The owner's settings: what MongoDB has, and what the owner wants.       *)

\* What the values have that their file has not is restored from the list's file, which
\* is what the owner wants of the channels.
LEMMA SeededIsWanted ==
    ASSUME SettingsTypeOK, ListSeeded, OwnersWord, ListInForce,
           values["channels"] # store.values["channels"], ~owed, "channels" \notin spoiled
    PROVE  values["channels"] = wanted["channels"] /\ Durable("channels") = wanted["channels"]
BY KeyFacts DEF ListSeeded, OwnersWord, ListInForce

\* A checkpoint stages the list, leaves it, or finds it staged already.
LEMMA RepliedWay ==
    ASSUME SettingsTypeOK, NEW c \in Commands, Replied(c)
    PROVE  /\ UNCHANGED <<listing, mem, remote, restored, spoiled, wanted, enacted, live>>
           /\ \/ /\ Stage("channels", listing) /\ owed' = FALSE /\ listing # before[c]
                 /\ process = "up"
              \/ UNCHANGED local /\ owed' = owed
              \/ UNCHANGED local /\ owed' = FALSE /\ restored /\ values["channels"] = listing
BY DEF Replied, SettingsTypeOK, channels

\* What is not pending stays what MongoDB has.
LEMMA MongoStep ==
    ASSUME SettingsTypeOK, FilesAgree, Lifetime, LockHeld, ListHasFile, MongoKnown, ListSeeded,
           OwnersWord, ListInForce, SettingsNext
    PROVE  MongoKnown'
<1>1. ASSUME UNCHANGED <<local, remote, restored, owed>>, spoiled \subseteq spoiled'
      PROVE  MongoKnown'
  BY <1>1 DEF MongoKnown, local
<1>2. ASSUME NEW p \in Procs, Sync(p)
      PROVE  MongoKnown'
  <2>1. /\ Reads(p) \/ Sends(p) \/ Leaves(p)
        /\ Unmoved \/ Restores(p) \/ Takes(p)
    BY <1>2, SyncWay
  <2>2. spoiled \subseteq spoiled'
    BY <2>1, LeaveList DEF Reads, Sends, Leaves, Enact
  <2>3. CASE Unmoved
    BY <1>1, <2>2, <2>3 DEF Unmoved
  <2>4. CASE Restores(p)
    <3>1. \A k \in Keys \ unsent' : values'[k] = remote[k]
      BY <2>4 DEF Restores, Merged
    <3> QED BY <2>2, <2>4, <3>1 DEF Restores, MongoKnown
  <2>5. CASE Takes(p)
    <3>1. /\ values' = values /\ restored /\ store' = [values |-> values, pending |-> unsent']
          /\ remote' = [remote EXCEPT ![at.key] = at.val] /\ at.key \in unsent
          /\ unsent' = IF values[at.key] = at.val THEN unsent \ {at.key} ELSE unsent
      BY <2>5 DEF Takes
    <3>2. \A k \in Keys \ (spoiled \cup unsent') : values[k] = remote'[k]
      BY <3>1 DEF MongoKnown, SettingsTypeOK
    <3> QED BY <2>2, <3>1, <3>2 DEF MongoKnown
  <2> QED BY <2>1, <2>3, <2>4, <2>5
<1>3. ASSUME NEW c \in Commands, SetLimit(c) \/ SetChannel(c) \/ Replied(c) \/ ReplyFails(c)
      PROVE  MongoKnown'
  <2>1. CASE SetLimit(c)
    <3>1. PICK v : Stage("limits", v)
      BY <2>1 DEF SetLimit
    <3>2. /\ values' = [values EXCEPT !["limits"] = v] /\ unsent' = unsent \cup {"limits"}
          /\ store' = [values |-> values', pending |-> unsent']
          /\ UNCHANGED <<remote, restored, owed>> /\ spoiled \subseteq spoiled'
      BY <2>1, <3>1 DEF SetLimit, Stage, Wants
    <3>3. values'["channels"] = values["channels"]
      BY <3>2, KeyFacts DEF SettingsTypeOK
    <3>4. CASE values["channels"] = store.values["channels"]
      BY <3>2, <3>3, <3>4, KeyFacts DEF MongoKnown
    <3>5. CASE values["channels"] # store.values["channels"]
      <4>1. ~restored
        BY <3>5 DEF FilesAgree
      <4>2. ASSUME "channels" \notin spoiled \cup unsent, ~owed
            PROVE  values["channels"] = remote["channels"]
        BY <3>5, <4>2, SeededIsWanted DEF Durable, FilesAgree
      <4> QED BY <3>2, <3>3, <4>1, <4>2, KeyFacts DEF MongoKnown
    <3> QED BY <3>4, <3>5
  <2>2. CASE SetChannel(c)
    <3>1. UNCHANGED <<local, remote, restored>> /\ (owed => owed') /\ spoiled \subseteq spoiled'
      BY <2>2 DEF SetChannel, Wants
    <3> QED BY <3>1 DEF MongoKnown, local
  <2>3. CASE Replied(c) /\ Stage("channels", listing)
    <3>1. /\ values' = [values EXCEPT !["channels"] = listing] /\ unsent' = unsent \cup {"channels"}
          /\ store' = [values |-> values', pending |-> unsent']
          /\ UNCHANGED <<remote, restored, spoiled>>
      BY <2>3 DEF Replied, Stage
    <3>2. values'["limits"] = values["limits"]
      BY <3>1, KeyFacts DEF SettingsTypeOK
    <3> QED BY <3>1, <3>2, KeyFacts DEF MongoKnown, FilesAgree
  <2>4. CASE Replied(c) /\ UNCHANGED local /\ (owed => owed' \/ restored)
    <3>1. UNCHANGED <<remote, restored, spoiled>>
      BY <2>4, RepliedWay
    <3> QED BY <2>4, <3>1 DEF MongoKnown, local, FilesAgree
  <2>5. CASE ReplyFails(c)
    BY <1>1, <2>5 DEF ReplyFails, history
  <2> QED BY <1>3, <2>1, <2>2, <2>3, <2>4, <2>5, RepliedWay
<1>4. CASE Others
  <2>1. ASSUME NEW i \in Items, AutoDisable(i)
        PROVE  MongoKnown'
    BY <2>1 DEF AutoDisable, MongoKnown, local
  <2>2. ASSUME NEW w \in late, ArriveLate(w)
        PROVE  MongoKnown'
    <3>1. /\ remote' = [remote EXCEPT ![w.key] = w.val]
          /\ spoiled' = spoiled \cup
                 (IF w.key \notin store.pending /\ remote[w.key] # w.val THEN {w.key} ELSE {})
          /\ UNCHANGED <<store, values, unsent, restored, owed>>
      BY <2>2 DEF ArriveLate, local
    <3>2. \A k \in Keys \ (spoiled' \cup unsent) : remote'[k] = remote[k]
      BY <3>1 DEF SettingsTypeOK, FilesAgree
    <3> QED BY <3>1, <3>2 DEF MongoKnown
  <2>3. CASE StartSettings
    BY <2>3 DEF StartSettings, MongoKnown, Lifetime, history
  <2>4. CASE Die
    BY <2>4 DEF Die, MongoKnown, FilesAgree
  <2>5. CASE Move
    BY <2>5 DEF Move, MongoKnown, Lifetime
  <2> QED BY <1>1, <1>4, <2>1, <2>2, <2>3, <2>4, <2>5 DEF Others, Launch, Wake, history
<1> QED BY <1>2, <1>3, <1>4, ThreeKinds

\* A seeded list stays the one of its file.
LEMMA SeededStep ==
    ASSUME SettingsTypeOK, FilesAgree, Lifetime, LockHeld, ListHasFile, ListSeeded, SettingsNext
    PROVE  ListSeeded'
<1>1. ASSUME UNCHANGED <<values, store, listing, owed>>, spoiled \subseteq spoiled'
      PROVE  ListSeeded'
  BY <1>1 DEF ListSeeded
<1>2. ASSUME values'["channels"] = store'.values["channels"]
      PROVE  ListSeeded'
  BY <1>2 DEF ListSeeded
<1>3. ASSUME NEW p \in Procs, Sync(p)
      PROVE  ListSeeded'
  <2>1. /\ Reads(p) \/ Sends(p) \/ Leaves(p)
        /\ Unmoved \/ Restores(p) \/ Takes(p)
    BY <1>3, SyncWay
  <2>2. CASE Restores(p) \/ Takes(p)
    BY <1>2, <2>2 DEF Restores, Takes
  <2>3. CASE Unmoved /\ UNCHANGED <<listing, spoiled>>
    BY <1>1, <2>3 DEF Unmoved, local
  <2>4. CASE Unmoved /\ Enact(values', restored')
    <3>1. /\ UNCHANGED <<values, store, owed>> /\ spoiled \subseteq spoiled'
          /\ listing' = IF values["channels"] = Unset THEN listing ELSE values["channels"]
      BY <2>4 DEF Unmoved, local, Enact
    <3> QED BY <3>1 DEF ListSeeded, FilesAgree
  <2> QED BY <2>1, <2>2, <2>3, <2>4, LeaveList DEF Reads, Sends, Leaves, channels
<1>4. ASSUME NEW c \in Commands, SetLimit(c) \/ SetChannel(c) \/ Replied(c) \/ ReplyFails(c)
      PROVE  ListSeeded'
  <2>1. CASE \E k, v : Stage(k, v)
    BY <1>2, <2>1 DEF Stage
  <2>2. CASE SetChannel(c)
    <3>1. /\ UNCHANGED <<values, store>> /\ spoiled \subseteq spoiled'
          /\ owed' = (owed \/ listing' # listing) /\ listing' \in {listing, Changed(mem, c)}
      BY <2>2 DEF SetChannel, Wants, local
    <3>2. Changed(mem, c) # Unset
      BY ChangedType, KeyFacts DEF SettingsTypeOK
    <3> QED BY <3>1, <3>2 DEF ListSeeded
  <2>3. CASE Replied(c) /\ UNCHANGED local /\ (owed => owed' \/ restored)
    <3>1. UNCHANGED <<listing, spoiled>>
      BY <2>3, RepliedWay
    <3> QED BY <2>3, <3>1 DEF ListSeeded, FilesAgree, local
  <2>4. CASE ReplyFails(c)
    BY <1>1, <2>4 DEF ReplyFails, history, local, channels
  <2> QED BY <1>4, <2>1, <2>2, <2>3, <2>4, RepliedWay DEF SetLimit
<1>5. CASE Others
  <2>1. ASSUME NEW i \in Items, AutoDisable(i)
        PROVE  ListSeeded'
    <3>1. owed' /\ listing' \in Value
      BY <2>1 DEF AutoDisable, SettingsTypeOK, Value, Levels
    <3> QED BY <3>1, KeyFacts DEF ListSeeded
  <2>2. CASE StartSettings
    <3>1. /\ values["channels"] = store.values["channels"] /\ UNCHANGED <<store, listing>>
          /\ values'["channels"] = IF values["channels"] = Unset THEN listing ELSE values["channels"]
      BY <2>2, KeyFacts DEF StartSettings, FilesAgree, SettingsTypeOK, channels
    <3> QED BY <3>1 DEF ListSeeded
  <2>3. CASE Die
    BY <1>2, <2>3 DEF Die
  <2>4. CASE Move
    BY <1>2, <2>4 DEF Move
  <2> QED BY <1>1, <1>5, <2>1, <2>2, <2>3, <2>4
          DEF Others, ArriveLate, Launch, Wake, history, local, channels
<1> QED BY <1>3, <1>4, <1>5, ThreeKinds

\* A command on the list changes nothing, or makes the list that the owner wants; the
\* exception is a list that is not what he takes it for.
LEMMA ListMade ==
    ASSUME SettingsTypeOK, ListHasFile, ListInForce, NEW c \in Commands, SetChannel(c),
           "channels" \notin spoiled'
    PROVE  \/ UNCHANGED <<listing, mem, wanted, owed>>
           \/ /\ listing' = wanted'["channels"] /\ owed' /\ listing' \in Value
              /\ wanted'["limits"] = wanted["limits"]
<1> DEFINE new == Changed(mem, c)
<1>1. /\ mem' = new /\ listing' = (IF new = mem THEN listing ELSE new)
      /\ owed' = (owed \/ listing' # listing) /\ Wants("channels", c, mem, enacted)
      /\ UNCHANGED enacted
  BY DEF SetChannel
<1>2. new \in Value /\ mem \in Value /\ "channels" \notin spoiled
  BY <1>1, ChangedType DEF SettingsTypeOK, Wants
<1>3. CASE new = mem /\ Given(wanted["channels"]) = mem
  BY <1>1, <1>2, <1>3 DEF Wants, SettingsTypeOK
<1>4. CASE ~(new = mem /\ Given(wanted["channels"]) = mem)
  <2>1. /\ wanted' = [wanted EXCEPT !["channels"] = Changed(Given(@), c)]
        /\ enacted \/ mem = Given(wanted["channels"])
    BY <1>1, <1>2, <1>4, KeyFacts DEF Wants
  <2>2. mem = Given(wanted["channels"])
    BY <1>2, <2>1 DEF ListInForce
  <2>3. new # mem
    BY <1>4, <2>2
  <2>4. /\ wanted'["channels"] = new /\ wanted'["limits"] = wanted["limits"]
    BY <2>1, <2>2, KeyFacts DEF SettingsTypeOK
  <2>5. listing # new
    <3>1. listing # Unset => Given(listing) = mem
      BY <1>2, <2>2 DEF ListInForce
    <3> QED BY <1>2, <2>3, <3>1, KeyFacts DEF Given
  <2> QED BY <1>1, <1>2, <2>3, <2>4, <2>5
<1> QED BY <1>3, <1>4

\* So does the switching off of a channel.
LEMMA ListSwitched ==
    ASSUME SettingsTypeOK, ListInForce, NEW i \in Items, AutoDisable(i),
           "channels" \notin spoiled'
    PROVE  /\ listing' = wanted'["channels"] /\ owed' /\ listing' \in Value /\ mem' = listing'
           /\ wanted'["limits"] = wanted["limits"]
<1>1. /\ mem' = [mem EXCEPT ![i] = Low] /\ listing' = mem' /\ owed' = TRUE
      /\ wanted' = [wanted EXCEPT !["channels"] = [Given(wanted["channels"]) EXCEPT ![i] = Low]]
      /\ enacted \/ mem = Given(wanted["channels"])
      /\ "channels" \notin spoiled
  BY DEF AutoDisable
<1>2. mem = Given(wanted["channels"])
  BY <1>1 DEF ListInForce
<1>3. /\ wanted'["channels"] = mem' /\ wanted'["limits"] = wanted["limits"]
  BY <1>1, <1>2, KeyFacts DEF SettingsTypeOK
<1>4. mem' \in Value
  BY <1>1 DEF SettingsTypeOK, Value, Levels
<1> QED BY <1>1, <1>3, <1>4

\* A restore of a key leaves what the owner wants of it where the next start finds it.
LEMMA RestoredWord ==
    ASSUME SettingsTypeOK, FilesAgree, ListHasFile, MongoKnown, ListSeeded, ListInForce,
           NEW p \in Procs, Restores(p), NEW k \in Keys \ spoiled, Durable(k) = wanted[k]
    PROVE  Durable(k)' = wanted[k] /\ values'[k] = wanted[k]
<1>1. /\ values' = Merged /\ store' = [values |-> Merged, pending |-> unsent']
      /\ unsent' = unsent \cup {j \in Keys : Merged[j] # Unset /\ remote[j] = Unset}
      /\ remote' = remote /\ unsent = store.pending
      /\ Merged[k] = IF k \in unsent \/ remote[k] = Unset THEN values[k] ELSE remote[k]
  BY DEF Restores, FilesAgree, Merged
<1>2. Durable(k)' = IF k \in unsent' THEN Merged[k] ELSE remote[k]
  BY <1>1 DEF Durable
<1>3. CASE k \in unsent
  BY <1>1, <1>2, <1>3 DEF FilesAgree, Durable
<1>4. CASE k \notin unsent /\ remote[k] # Unset
  BY <1>1, <1>2, <1>4 DEF Durable
<1>5. CASE k \notin unsent /\ remote[k] = Unset
  <2>1. wanted[k] = Unset
    BY <1>1, <1>5 DEF Durable
  <2>2. values[k] = Unset
    <3>1. CASE k = "limits"
      BY <1>5, <3>1 DEF MongoKnown, FilesAgree
    <3>2. CASE k = "channels"
      <4>1. listing = Unset
        BY <2>1, <3>2 DEF ListInForce
      <4>2. ~owed /\ values["channels"] = store.values["channels"]
        BY <4>1 DEF ListHasFile, ListSeeded
      <4> QED BY <1>5, <3>2, <4>2 DEF MongoKnown
    <3> QED BY <3>1, <3>2, KeyFacts
  <2> QED BY <1>1, <1>2, <1>5, <2>1, <2>2
<1> QED BY <1>3, <1>4, <1>5

\* What MongoDB has taken is still what the owner wants.
LEMMA TakenWord ==
    ASSUME SettingsTypeOK, FilesAgree, NEW p \in Procs, Takes(p), NEW k \in Keys,
           Durable(k) = wanted[k], values[k] = wanted[k]
    PROVE  Durable(k)' = wanted[k]
<1>1. /\ remote' = [remote EXCEPT ![at.key] = at.val] /\ unsent = store.pending
      /\ store' = [values |-> values, pending |-> unsent']
      /\ unsent' = IF values[at.key] = at.val THEN unsent \ {at.key} ELSE unsent
      /\ at.key \in unsent
  BY DEF Takes, FilesAgree
<1>2. Durable(k)' = IF k \in unsent' THEN values[k] ELSE remote'[k]
  BY <1>1 DEF Durable
<1>3. k \notin unsent' => remote'[k] = wanted[k]
  BY <1>1 DEF SettingsTypeOK, Durable
<1> QED BY <1>2, <1>3

\* What the owner wants of the settings is kept: SettingsKept's first half.
LEMMA WordStep ==
    ASSUME SettingsTypeOK, FilesAgree, Lifetime, LockHeld, ListHasFile, MongoKnown, ListSeeded,
           OwnersWord, ListInForce, SettingsNext
    PROVE  OwnersWord'
<1>1. ASSUME UNCHANGED <<store, values, restored, remote, owed, listing, wanted>>,
             spoiled \subseteq spoiled'
      PROVE  OwnersWord'
  BY <1>1 DEF OwnersWord, Durable
<1>2. ASSUME NEW p \in Procs, Sync(p)
      PROVE  OwnersWord'
  <2>1. /\ UNCHANGED wanted /\ (Reads(p) \/ Sends(p) \/ Leaves(p))
        /\ Unmoved \/ Restores(p) \/ Takes(p)
    BY <1>2, SyncWay
  <2>2. spoiled \subseteq spoiled' /\ (owed /\ listing' # listing => "channels" \in spoiled')
    BY <2>1, LeaveList DEF Reads, Sends, Leaves, Enact, channels
  <2>3. SUFFICES ASSUME NEW k \in Keys \ spoiled'
                 PROVE  \/ Durable(k)' = wanted[k] /\ (restored' => values'[k] = wanted[k])
                        \/ k = "channels" /\ owed' /\ listing' = wanted[k]
    BY <2>1 DEF OwnersWord
  <2>4. CASE Durable(k) = wanted[k] /\ (restored => values[k] = wanted[k])
    <3>1. CASE Unmoved
      BY <2>4, <3>1 DEF Unmoved, local, Durable
    <3>2. CASE Restores(p)
      BY <2>2, <2>4, <3>2, RestoredWord
    <3>3. CASE Takes(p)
      BY <2>4, <3>3, TakenWord DEF Takes
    <3> QED BY <2>1, <3>1, <3>2, <3>3
  <2>5. CASE k = "channels" /\ owed /\ listing = wanted[k]
    <3>1. CASE owed'
      BY <2>2, <2>5, <3>1
    <3>2. CASE ~owed'
      <4>1. Restores(p) /\ "channels" \in unsent' /\ values'["channels"] = listing
        BY <2>1, <2>5, <3>2 DEF Unmoved, Restores, Takes
      <4>2. Durable("channels")' = listing
        BY <4>1 DEF Restores, Durable
      <4> QED BY <2>5, <4>1, <4>2
    <3> QED BY <3>1, <3>2
  <2> QED BY <2>2, <2>4, <2>5 DEF OwnersWord
<1>3. ASSUME NEW c \in Commands, SetLimit(c) \/ SetChannel(c) \/ Replied(c) \/ ReplyFails(c)
      PROVE  OwnersWord'
  <2>1. CASE SetLimit(c)
    <3> DEFINE base == Given(values["limits"])
               new  == Changed(base, c)
    <3>1. /\ values' = [values EXCEPT !["limits"] = new] /\ unsent' = unsent \cup {"limits"}
          /\ store' = [values |-> values', pending |-> unsent']
          /\ UNCHANGED <<remote, restored, owed, listing>> /\ Wants("limits", c, base, restored)
      BY <2>1 DEF SetLimit, Stage, channels
    <3>2. base \in Value /\ new \in Value /\ wanted["limits"] \in Value \cup {Unset}
      BY KeyFacts, GivenType, ChangedType DEF SettingsTypeOK
    <3>3. "limits" \notin spoiled' => wanted'["limits"] = new
      <4>1. CASE new = base /\ Given(wanted["limits"]) = base
        <5>1. wanted["limits"] = Unset => base = Empty
          BY <4>1 DEF Given
        <5>2. new[Does[c].item] = Does[c].level /\ Does[c].level # NoLevel /\ Does[c].item \in Items
          BY <2>1, <3>2, OwnerSettingsAssumption DEF SetLimit, Changed, Value
        <5>3. new # Empty
          BY <5>2 DEF Empty
        <5>4. wanted["limits"] = new /\ wanted' = wanted
          BY <3>1, <4>1, <5>1, <5>3 DEF Given, Wants
        <5> QED BY <5>4
      <4>2. CASE ~(new = base /\ Given(wanted["limits"]) = base)
        <5>1. wanted'["limits"] = Changed(Given(wanted["limits"]), c)
          BY <3>1, <4>2, KeyFacts DEF Wants, SettingsTypeOK
        <5>2. ASSUME "limits" \notin spoiled'
              PROVE  base = Given(wanted["limits"])
          <6>1. "limits" \notin spoiled /\ (restored \/ base = Given(wanted["limits"]))
            BY <3>1, <5>2 DEF Wants
          <6>2. restored => values["limits"] = wanted["limits"]
            BY <6>1, KeyFacts DEF OwnersWord
          <6> QED BY <6>1, <6>2
        <5> QED BY <5>1, <5>2
      <4> QED BY <4>1, <4>2
    <3>4. wanted'["channels"] = wanted["channels"] /\ values'["channels"] = values["channels"]
          /\ values'["limits"] = new /\ spoiled \subseteq spoiled'
      BY <3>1, KeyFacts DEF Wants, SettingsTypeOK
    <3>5. Durable("limits")' = new /\ Durable("channels")' = Durable("channels")
      <4>1. Durable("limits")' = new
        BY <3>1, <3>4 DEF Durable
      <4>2. "channels" \in unsent => values["channels"] = store.values["channels"]
        BY DEF FilesAgree
      <4>3. Durable("channels")' = Durable("channels")
        BY <3>1, <3>4, <4>2 DEF Durable, FilesAgree
      <4> QED BY <4>1, <4>3
    <3> HIDE DEF base, new
    <3> QED BY <3>1, <3>3, <3>4, <3>5, KeyFacts DEF OwnersWord
  <2>2. CASE SetChannel(c)
    <3>1. UNCHANGED <<local, remote, restored>> /\ spoiled \subseteq spoiled'
          /\ wanted'["limits"] = wanted["limits"]
      BY <2>2, KeyFacts DEF SetChannel, Wants, SettingsTypeOK
    <3>2. \A k \in Keys : Durable(k)' = Durable(k) /\ values'[k] = values[k] /\ restored' = restored
      BY <3>1 DEF Durable, local
    <3>3. ASSUME "channels" \notin spoiled'
          PROVE  \/ UNCHANGED <<listing, wanted, owed>>
                 \/ listing' = wanted'["channels"] /\ owed'
      BY <2>2, <3>3, ListMade
    <3> QED BY <3>1, <3>2, <3>3, KeyFacts DEF OwnersWord
  <2>3. CASE Replied(c)
    <3>1. UNCHANGED <<listing, wanted, spoiled, remote, restored>>
      BY <2>3, RepliedWay
    <3>2. CASE Stage("channels", listing) /\ owed' = FALSE /\ listing # before[c]
      <4>1. listing \in Value
        BY <2>3, <3>2, StagedIsSet
      <4>2. /\ values' = [values EXCEPT !["channels"] = listing]
            /\ unsent' = unsent \cup {"channels"}
            /\ store' = [values |-> values', pending |-> unsent']
        BY <3>2 DEF Stage
      <4>3. values'["channels"] = listing /\ values'["limits"] = values["limits"]
        BY <4>2, KeyFacts DEF SettingsTypeOK
      <4>4. Durable("channels")' = listing /\ Durable("limits")' = Durable("limits")
        BY <3>1, <4>2, <4>3 DEF Durable, FilesAgree
      <4>5. "channels" \notin spoiled => listing = wanted["channels"]
        BY <4>1, KeyFacts DEF ListInForce
      <4> QED BY <3>1, <4>3, <4>4, <4>5, KeyFacts DEF OwnersWord
    <3>3. CASE UNCHANGED local /\ owed' = owed
      BY <1>1, <3>1, <3>3 DEF local
    <3>4. CASE UNCHANGED local /\ owed' = FALSE /\ restored /\ values["channels"] = listing
      <4>1. \A k \in Keys : Durable(k)' = Durable(k) /\ values'[k] = values[k]
        BY <3>1, <3>4 DEF Durable, local
      <4>2. ASSUME "channels" \notin spoiled
            PROVE  Durable("channels") = values["channels"]
        BY <3>4, <4>2, KeyFacts DEF Durable, FilesAgree, MongoKnown
      <4> QED BY <3>1, <3>4, <4>1, <4>2, KeyFacts DEF OwnersWord
    <3> QED BY <2>3, <3>2, <3>3, <3>4, RepliedWay
  <2>4. CASE ReplyFails(c)
    BY <1>1, <2>4 DEF ReplyFails, history, local, channels
  <2> QED BY <1>3, <2>1, <2>2, <2>3, <2>4
<1>4. CASE Others
  <2>1. ASSUME NEW i \in Items, AutoDisable(i)
        PROVE  OwnersWord'
    <3>1. UNCHANGED <<local, remote, restored>> /\ spoiled \subseteq spoiled'
          /\ wanted'["limits"] = wanted["limits"]
      BY <2>1, KeyFacts DEF AutoDisable, SettingsTypeOK
    <3>2. \A k \in Keys : Durable(k)' = Durable(k) /\ values'[k] = values[k] /\ restored' = restored
      BY <3>1 DEF Durable, local
    <3>3. "channels" \notin spoiled' => listing' = wanted'["channels"] /\ owed'
      BY <2>1, ListSwitched
    <3> QED BY <3>1, <3>2, <3>3, KeyFacts DEF OwnersWord
  <2>2. ASSUME NEW w \in late, ArriveLate(w)
        PROVE  OwnersWord'
    <3>1. /\ remote' = [remote EXCEPT ![w.key] = w.val]
          /\ spoiled' = spoiled \cup
                 (IF w.key \notin store.pending /\ remote[w.key] # w.val THEN {w.key} ELSE {})
          /\ UNCHANGED <<store, values, restored, owed, listing, wanted>>
      BY <2>2 DEF ArriveLate, local, channels
    <3>2. \A k \in Keys \ spoiled' : Durable(k)' = Durable(k)
      BY <3>1 DEF SettingsTypeOK, Durable
    <3> QED BY <3>1, <3>2 DEF OwnersWord
  <2>3. CASE StartSettings
    BY <2>3 DEF StartSettings, OwnersWord, Lifetime, history, Durable, channels
  <2>4. CASE Die
    BY <2>4 DEF Die, OwnersWord, Durable
  <2>5. CASE Move
    <3>1. \A k \in Keys : Durable(k)' = remote[k]
      BY <2>5 DEF Move, Durable
    <3>2. /\ wanted' = [k \in Keys |-> IF k \in store.pending \/ (k = "channels" /\ owed)
                                      THEN remote[k] ELSE wanted[k]]
          /\ ~restored' /\ spoiled' = spoiled
      BY <2>5 DEF Move, Lifetime
    <3>3. \A k \in Keys \ spoiled : wanted'[k] = remote[k]
      BY <3>2 DEF OwnersWord, Durable
    <3> QED BY <3>1, <3>2, <3>3 DEF OwnersWord
  <2> QED BY <1>1, <1>4, <2>1, <2>2, <2>3, <2>4, <2>5
          DEF Others, Launch, Wake, history, local, channels
<1> QED BY <1>2, <1>3, <1>4, ThreeKinds

-----------------------------------------------------------------------------
(* The owner's settings: the list in force.                                *)

\* A restore that leaves the list unset has found it unset.
LEMMA UnsetBefore ==
    ASSUME SettingsTypeOK, FilesAgree, NEW p \in Procs, Unmoved \/ Restores(p) \/ Takes(p),
           values'["channels"] = Unset
    PROVE  values["channels"] = Unset /\ owed' = owed
<1>1. CASE Unmoved \/ Takes(p)
  BY <1>1 DEF Unmoved, Takes, local
<1>2. CASE Restores(p)
  <2>1. values' = Merged /\ owed' = (owed /\ ~("channels" \in unsent' /\ values'["channels"] = listing))
        /\ unsent' = unsent \cup {k \in Keys : Merged[k] # Unset /\ remote[k] = Unset}
    BY <1>2 DEF Restores
  <2>2. values["channels"] = Unset /\ "channels" \notin unsent
    BY <2>1, KeyFacts DEF Merged, FilesAgree
  <2>3. "channels" \notin unsent'
    BY <2>1, <2>2
  <2> QED BY <2>1, <2>2, <2>3 DEF SettingsTypeOK
<1> QED BY <1>1, <1>2

\* apply() makes the list what the owner wants, unless it overwrites a change of his.
LEMMA EnactedList ==
    ASSUME SettingsTypeOK, FilesAgree, Lifetime, LockHeld, ListHasFile, MongoKnown, ListSeeded,
           OwnersWord, ListInForce, SettingsNext, NEW p \in Procs, Sync(p),
           Enact(values', restored'), "channels" \notin spoiled', listing' # Unset \/ enacted'
    PROVE  listing' = wanted'["channels"]
<1>1. OwnersWord' /\ ListHasFile'
  BY WordStep, ListStep
<1>2. /\ UNCHANGED wanted /\ (Unmoved \/ Restores(p) \/ Takes(p))
  BY SyncWay
<1>3. /\ listing' = IF values'["channels"] = Unset THEN listing ELSE values'["channels"]
      /\ (owed => listing' = listing) /\ "channels" \notin spoiled /\ enacted' = restored'
  BY DEF Enact
<1>4. CASE listing' = listing /\ listing # Unset
  BY <1>2, <1>3, <1>4 DEF ListInForce
<1>5. CASE restored'
  <2>1. CASE values'["channels"] = wanted'["channels"]
    BY <1>3, <1>4, <2>1
  <2>2. CASE owed' /\ listing' = wanted'["channels"]
    BY <2>2
  <2> QED BY <1>1, <1>5, <2>1, <2>2, KeyFacts DEF OwnersWord
<1>6. CASE ~restored' /\ listing' # listing
  <2>1. /\ UNCHANGED <<values, store>> /\ ~owed /\ listing' = values["channels"]
        /\ values["channels"] # Unset
    BY <1>2, <1>3, <1>6 DEF Unmoved, Restores, Takes, local
  <2>2. values["channels"] = store.values["channels"]
    BY <1>3, <1>6, <2>1 DEF ListSeeded
  <2>3. Durable("channels") = wanted["channels"]
    BY <1>3, <2>1, KeyFacts DEF OwnersWord
  <2>4. values["channels"] = Durable("channels")
    BY <1>3, <2>1, <2>2, KeyFacts DEF Durable, MongoKnown, FilesAgree
  <2> QED BY <1>2, <2>1, <2>3, <2>4
<1> QED BY <1>3, <1>4, <1>5, <1>6

\* The list of channels follows the settings.
LEMMA ForceStep ==
    ASSUME SettingsTypeOK, FilesAgree, Lifetime, LockHeld, ListHasFile, MongoKnown, ListSeeded,
           OwnersWord, ListInForce, SettingsNext
    PROVE  ListInForce'
<1>0. retry \in Procs
  BY DEF Procs
<1>1. ASSUME UNCHANGED <<listing, mem, wanted, enacted, owed, values, process, insist>>,
             place'[retry] = place[retry], spoiled \subseteq spoiled'
      PROVE  ListInForce'
  BY <1>1 DEF ListInForce
<1>2. ASSUME NEW p \in Procs, Sync(p)
      PROVE  ListInForce'
  <2>1. /\ UNCHANGED <<wanted, process, insist>> /\ process = "up"
        /\ Reads(p) \/ Sends(p) \/ Leaves(p)
        /\ Unmoved \/ Restores(p) \/ Takes(p)
        /\ queue # <<>> /\ Head(queue) = p
    BY <1>2, SyncWay
  <2>2. values'["channels"] = Unset /\ ~owed' => listing = Unset
    BY <2>1, UnsetBefore DEF ListInForce
  <2>3. CASE Enact(values', restored')
    <3>1. "channels" \notin spoiled' /\ (listing' # Unset \/ enacted') => listing' = wanted'["channels"]
      BY <1>2, <2>3, EnactedList
    <3>2. /\ listing' = IF values'["channels"] = Unset THEN listing ELSE values'["channels"]
          /\ mem' = Given(listing')
      BY <2>3 DEF Enact
    <3> QED BY <2>2, <3>1, <3>2 DEF ListInForce
  <2>4. CASE UNCHANGED <<listing, mem, enacted, spoiled>> /\ (Reads(p) \/ Sends(p) \/ ~Insists(p))
    <3>1. ASSUME enacted, ~owed', ~(place'[retry] = "push" /\ insist)
          PROVE  listing = values'["channels"]
      <4>1. ~Restores(p) /\ owed' = owed /\ UNCHANGED values
        <5>1. CASE Restores(p)
          <6>1. place[p] = "find" /\ p = retry /\ insist
            BY <3>1, <5>1 DEF Restores, LockHeld, Insists
          <6>2. Sends(p)
            BY <2>1, <2>4, <6>1 DEF Reads, Insists
          <6>3. place'[retry] = "push"
            BY <1>0, <6>1, <6>2 DEF Sends, SettingsTypeOK
          <6> QED BY <2>1, <3>1, <6>1, <6>3
        <5> QED BY <2>1, <5>1 DEF Unmoved, Takes, local
      <4>2. ~(place[retry] = "push" /\ insist)
        <5>1. SUFFICES ASSUME place[retry] = "push", insist
                       PROVE  FALSE
          OBVIOUS
        <5>2. p = retry /\ Insists(p) /\ Sends(p)
          BY <1>0, <2>1, <2>4, <5>1 DEF LockHeld, Holds, Insists, Reads
        <5>3. place'[retry] = "push"
          BY <1>0, <5>2 DEF Sends, SettingsTypeOK
        <5> QED BY <3>1, <5>1, <5>3
      <4> QED BY <3>1, <4>1, <4>2 DEF ListInForce
    <3> QED BY <2>1, <2>2, <2>4, <3>1 DEF ListInForce
  <2> QED BY <2>1, <2>3, <2>4, LeaveList DEF Reads, Sends, Leaves, channels
<1>3. ASSUME NEW c \in Commands, SetLimit(c) \/ SetChannel(c) \/ Replied(c) \/ ReplyFails(c)
      PROVE  ListInForce'
  <2>0. /\ UNCHANGED <<process, insist, enacted>> /\ place'[retry] = place[retry]
    BY <1>0, <1>3, CommandWay DEF SettingsTypeOK
  <2>1. CASE SetLimit(c)
    <3>1. /\ wanted'["channels"] = wanted["channels"] /\ values'["channels"] = values["channels"]
          /\ UNCHANGED <<listing, mem, owed>> /\ spoiled \subseteq spoiled'
      BY <2>1, KeyFacts DEF SetLimit, Stage, Wants, SettingsTypeOK, channels
    <3> QED BY <2>0, <3>1 DEF ListInForce
  <2>2. CASE SetChannel(c)
    <3> DEFINE new == Changed(mem, c)
    <3>1. /\ mem' = new /\ listing' = (IF new = mem THEN listing ELSE new)
          /\ owed' = (owed \/ listing' # listing) /\ UNCHANGED values
          /\ new \in Value /\ mem \in Value
          /\ spoiled \subseteq spoiled'
      BY <2>2, ChangedType DEF SetChannel, SettingsTypeOK, local, Wants
    <3>2. "channels" \notin spoiled' =>
              UNCHANGED <<listing, mem, wanted, owed>> \/ listing' = wanted'["channels"]
      BY <2>2, ListMade
    <3>3. enacted' => mem' = Given(listing')
      BY <2>0, <3>1, KeyFacts DEF ListInForce, Given
    <3>4. "channels" \notin spoiled' /\ (listing' # Unset \/ enacted') => listing' = wanted'["channels"]
      BY <2>0, <3>1, <3>2 DEF ListInForce
    <3>5. ~owed' => ~owed /\ listing' = listing
      BY <3>1
    <3> HIDE DEF new
    <3> QED BY <2>0, <3>1, <3>3, <3>4, <3>5 DEF ListInForce
  <2>3. CASE Replied(c)
    <3>1. UNCHANGED <<listing, mem, wanted, spoiled>>
      BY <2>3, RepliedWay
    <3>2. CASE Stage("channels", listing) /\ listing # before[c]
      <4>1. values'["channels"] = listing /\ listing # Unset
        BY <2>3, <3>2, StagedIsSet, KeyFacts DEF Stage, SettingsTypeOK
      <4> QED BY <2>0, <3>1, <4>1 DEF ListInForce
    <3>3. CASE UNCHANGED local /\ owed' = owed
      BY <1>1, <2>0, <3>1, <3>3 DEF local
    <3>4. CASE UNCHANGED local /\ values["channels"] = listing
      BY <2>0, <3>1, <3>4 DEF ListInForce, local
    <3> QED BY <2>3, <3>2, <3>3, <3>4, RepliedWay
  <2>4. CASE ReplyFails(c)
    BY <1>1, <2>0, <2>4 DEF ReplyFails, history, local, channels
  <2> QED BY <1>3, <2>1, <2>2, <2>3, <2>4
<1>4. CASE Others
  <2>1. ASSUME NEW i \in Items, AutoDisable(i)
        PROVE  ListInForce'
    <3>1. "channels" \notin spoiled' => listing' = wanted'["channels"]
      BY <2>1, ListSwitched
    <3>2. owed' /\ mem' \in Value /\ listing' = mem'
      BY <2>1 DEF AutoDisable, SettingsTypeOK, Value, Levels
    <3>3. mem' = Given(listing')
      BY <3>2, KeyFacts DEF Given
    <3> QED BY <3>1, <3>2, <3>3 DEF ListInForce
  <2>2. ASSUME NEW w \in late, ArriveLate(w)
        PROVE  ListInForce'
    BY <1>1, <2>2 DEF ArriveLate, local, channels
  <2>3. CASE StartSettings
    <3>1. values'["channels"] = IF values["channels"] = Unset THEN listing ELSE values["channels"]
      BY <2>3, KeyFacts DEF StartSettings, SettingsTypeOK
    <3>2. ~enacted /\ UNCHANGED <<enacted, listing, wanted, spoiled>>
      BY <2>3 DEF StartSettings, Lifetime, channels, history
    <3> QED BY <3>1, <3>2 DEF ListInForce
  <2>4. CASE Launch
    BY <2>4 DEF Launch, ListInForce, Lifetime, channels, history
  <2>5. CASE Wake
    BY <2>5 DEF Wake, ListInForce, channels, history, local
  <2>6. CASE Die
    BY <2>6 DEF Die, ListInForce
  <2>7. CASE Move
    BY <2>7 DEF Move, ListInForce, Lifetime
  <2> QED BY <1>4, <2>1, <2>2, <2>3, <2>4, <2>5, <2>6, <2>7 DEF Others
<1> QED BY <1>2, <1>3, <1>4, ThreeKinds

-----------------------------------------------------------------------------
(* The owner's settings: the limits in force.                              *)

\* One more in the queue.
LEMMA AppendAwaits ==
    ASSUME NEW q \in Seq(Procs), NEW p \in Procs, NEW i \in Items
    PROVE  /\ Awaited(Append(q, p), i) <=> Awaited(q, i) \/ LimitOf(p, i)
           /\ \A j \in DOMAIN Append(q, p) :
                 LastFor(Append(q, p), j, i) =>
                     IF LimitOf(p, i) THEN Append(q, p)[j] = p
                     ELSE LastFor(q, j, i) /\ Append(q, p)[j] = q[j]
<1> DEFINE r == Append(q, p)
<1>1. /\ Len(q) \in Nat /\ DOMAIN q = 1..Len(q) /\ DOMAIN r = 1..(Len(q) + 1)
      /\ \A j \in 1..Len(q) : r[j] = q[j]
      /\ r[Len(q) + 1] = p
  OBVIOUS
<1> HIDE DEF r
<1>2. Awaited(r, i) <=> Awaited(q, i) \/ LimitOf(p, i)
  BY <1>1 DEF Awaited
<1>3. ASSUME NEW j \in DOMAIN r, LastFor(r, j, i)
      PROVE  IF LimitOf(p, i) THEN r[j] = p ELSE LastFor(q, j, i) /\ r[j] = q[j]
  <2>1. CASE LimitOf(p, i)
    <3>1. ~(Len(q) + 1 > j)
      BY <1>1, <1>3, <2>1 DEF LastFor
    <3>2. j = Len(q) + 1
      BY <1>1, <3>1
    <3> QED BY <1>1, <2>1, <3>2
  <2>2. CASE ~LimitOf(p, i)
    <3>1. j \in 1..Len(q)
      BY <1>1, <1>3, <2>2 DEF LastFor
    <3> QED BY <1>1, <1>3, <2>2, <3>1 DEF LastFor
  <2> QED BY <2>1, <2>2
<1> QED BY <1>2, <1>3 DEF r

\* One less.
LEMMA TailAwaits ==
    ASSUME NEW q \in Seq(Procs), q # <<>>, NEW i \in Items
    PROVE  /\ Awaited(q, i) <=> Awaited(Tail(q), i) \/ LimitOf(Head(q), i)
           /\ \A j \in DOMAIN Tail(q) :
                 LastFor(Tail(q), j, i) =>
                     j + 1 \in DOMAIN q /\ LastFor(q, j + 1, i) /\ Tail(q)[j] = q[j + 1]
           /\ LimitOf(Head(q), i) /\ ~Awaited(Tail(q), i) =>
                  1 \in DOMAIN q /\ LastFor(q, 1, i) /\ q[1] = Head(q)
<1> DEFINE r == Tail(q)
<1>1. /\ Len(q) \in Nat /\ Len(q) > 0 /\ DOMAIN q = 1..Len(q) /\ DOMAIN r = 1..(Len(q) - 1)
      /\ \A j \in 1..(Len(q) - 1) : r[j] = q[j + 1]
      /\ Head(q) = q[1]
  OBVIOUS
<1> HIDE DEF r
<1>2. \A h \in DOMAIN q : h # 1 => h - 1 \in DOMAIN r /\ r[h - 1] = q[h]
  BY <1>1
<1>3. Awaited(q, i) <=> Awaited(r, i) \/ LimitOf(Head(q), i)
  <2>1. ASSUME Awaited(q, i), ~LimitOf(Head(q), i)
        PROVE  Awaited(r, i)
    <3>1. PICK h \in DOMAIN q : LimitOf(q[h], i)
      BY <2>1 DEF Awaited
    <3>2. h # 1
      BY <1>1, <2>1, <3>1
    <3> QED BY <1>2, <3>1, <3>2 DEF Awaited
  <2>2. ASSUME Awaited(r, i)
        PROVE  Awaited(q, i)
    <3>1. PICK h \in DOMAIN r : LimitOf(r[h], i)
      BY <2>2 DEF Awaited
    <3>2. h + 1 \in DOMAIN q /\ r[h] = q[h + 1]
      BY <1>1
    <3> QED BY <3>1, <3>2 DEF Awaited
  <2>3. LimitOf(Head(q), i) => Awaited(q, i)
    BY <1>1 DEF Awaited
  <2> QED BY <2>1, <2>2, <2>3
<1>4. ASSUME NEW j \in DOMAIN r, LastFor(r, j, i)
      PROVE  j + 1 \in DOMAIN q /\ LastFor(q, j + 1, i) /\ r[j] = q[j + 1]
  <2>1. j \in Nat /\ j + 1 \in DOMAIN q /\ r[j] = q[j + 1]
    BY <1>1
  <2>2. ASSUME NEW h \in DOMAIN q, h > j + 1
        PROVE  ~LimitOf(q[h], i)
    <3>1. h - 1 \in DOMAIN r /\ r[h - 1] = q[h] /\ h - 1 > j
      BY <1>1, <1>2, <2>1, <2>2
    <3> QED BY <1>4, <3>1 DEF LastFor
  <2> QED BY <1>4, <2>1, <2>2 DEF LastFor
<1>5. ASSUME LimitOf(Head(q), i), ~Awaited(r, i)
      PROVE  1 \in DOMAIN q /\ LastFor(q, 1, i) /\ q[1] = Head(q)
  <2>1. \A h \in DOMAIN q : h > 1 => ~LimitOf(q[h], i)
    BY <1>1, <1>2, <1>5 DEF Awaited
  <2> QED BY <1>1, <1>5, <2>1 DEF LastFor
<1> QED BY <1>3, <1>4, <1>5 DEF r

\* A restore leaves limits that a command waits for, or that are restored, alone; and
\* apply() finds no limits but those that the owner wants.
LEMMA LimitsRestored ==
    ASSUME SettingsTypeOK, FilesAgree, Lifetime, LockHeld, ListHasFile, MongoKnown, ListSeeded,
           OwnersWord, ListInForce, SettingsNext, NEW p \in Procs, Sync(p),
           "limits" \notin spoiled
    PROVE  /\ restored \/ "limits" \in unsent => values'["limits"] = values["limits"]
           /\ restored \/ "limits" \in unsent => restored' \/ "limits" \in unsent'
           /\ "limits" \notin spoiled' => values'["limits"] \in {Unset, wanted["limits"]}
           /\ "limits" \notin spoiled' /\ restored' => values'["limits"] = wanted["limits"]
<1>1. /\ UNCHANGED wanted /\ (Unmoved \/ Restores(p) \/ Takes(p))
  BY SyncWay
<1>2. restored \/ "limits" \in unsent => values'["limits"] = values["limits"]
  <2>1. CASE Restores(p)
    <3>1. restored /\ "limits" \notin unsent => values["limits"] = remote["limits"]
      BY KeyFacts DEF MongoKnown
    <3> QED BY <2>1, <3>1, KeyFacts DEF Restores, Merged
  <2> QED BY <1>1, <2>1 DEF Unmoved, Takes, local
<1>3. restored \/ "limits" \in unsent => restored' \/ "limits" \in unsent'
  BY <1>1 DEF Unmoved, Restores, Takes, local
<1>4. "limits" \notin spoiled' /\ restored' => values'["limits"] = wanted["limits"]
  BY <1>1, WordStep, KeyFacts DEF OwnersWord
<1>5. ASSUME ~restored'
      PROVE  values'["limits"] \in {Unset, wanted["limits"]}
  <2>1. UNCHANGED values /\ values["limits"] = store.values["limits"]
    BY <1>1, <1>5 DEF Unmoved, Restores, Takes, local, FilesAgree
  <2>2. Durable("limits") = wanted["limits"]
    BY KeyFacts DEF OwnersWord
  <2>3. store.values["limits"] \in {Unset, wanted["limits"]}
    BY <2>2, KeyFacts DEF Durable, MongoKnown, FilesAgree
  <2> QED BY <2>1, <2>3
<1> QED BY <1>2, <1>3, <1>4, <1>5

\* apply() sets the limits that the values name.
LEMMA EnactedLimits ==
    ASSUME SettingsTypeOK, NEW vals \in [Keys -> Value \cup {Unset}], NEW known,
           Enact(vals, known), NEW i \in Items
    PROVE  live'[i] = IF Given(vals["limits"])[i] = NoLevel THEN live[i]
                      ELSE Given(vals["limits"])[i]
<1>1. Given(vals["limits"])[i] # NoLevel => Given(vals["limits"]) = vals["limits"]
  BY DEF Given, Empty
<1> QED BY <1>1 DEF Enact

\* The sync of a command, or of start() or the retry task, leaves the limits in force.
LEMMA LimitsSync ==
    ASSUME SettingsTypeOK, FilesAgree, Lifetime, LockHeld, ListHasFile, MongoKnown, ListSeeded,
           OwnersWord, ListInForce, LimitsInForce, SettingsNext, NEW p \in Procs, Sync(p)
    PROVE  LimitsInForce'
<1>1. /\ UNCHANGED wanted /\ queue # <<>> /\ Head(queue) = p
      /\ Reads(p) \/ Sends(p) \/ Leaves(p)
      /\ Unmoved \/ Restores(p) \/ Takes(p)
  BY SyncWay
<1>2. spoiled \subseteq spoiled'
  BY <1>1, LeaveList DEF Reads, Sends, Leaves, Enact
<1>3. SUFFICES ASSUME "limits" \notin spoiled', NEW i \in Items
               PROVE  /\ Awaited(queue', i) => restored' \/ "limits" \in unsent'
                      /\ Awaited(queue', i) \/ live'[i] # NoLevel => Given(wanted["limits"])[i] # NoLevel
                      /\ \A j \in DOMAIN queue' :
                            LastFor(queue', j, i) =>
                                Given(values'["limits"])[i] = Does[queue'[j]].level
                      /\ enacted' /\ ~Awaited(queue', i) => live'[i] = Given(values'["limits"])[i]
  BY <1>1 DEF LimitsInForce
<1>4. "limits" \notin spoiled /\ queue \in Seq(Procs)
  BY <1>2, <1>3 DEF SettingsTypeOK
<1>5. /\ Awaited(queue, i) => restored \/ "limits" \in unsent
      /\ Awaited(queue, i) \/ live[i] # NoLevel => Given(wanted["limits"])[i] # NoLevel
      /\ \A j \in DOMAIN queue :
            LastFor(queue, j, i) => Given(values["limits"])[i] = Does[queue[j]].level
      /\ enacted /\ ~Awaited(queue, i) => live[i] = Given(values["limits"])[i]
  BY <1>4 DEF LimitsInForce
<1>6. /\ restored \/ "limits" \in unsent => values'["limits"] = values["limits"]
      /\ restored \/ "limits" \in unsent => restored' \/ "limits" \in unsent'
      /\ values'["limits"] \in {Unset, wanted["limits"]}
      /\ restored' => values'["limits"] = wanted["limits"]
  BY <1>3, <1>4, LimitsRestored
<1>7. enacted => restored
  BY DEF LockHeld
<1>8. \A j \in DOMAIN queue : LastFor(queue, j, i) => Awaited(queue, i)
  BY DEF LastFor, Awaited
<1>9. CASE Reads(p) \/ Sends(p)
  <2>1. UNCHANGED <<queue, live, enacted>>
    BY <1>9 DEF Reads, Sends, syncing
  <2> QED BY <1>5, <1>6, <1>7, <1>8, <2>1
<1>10. CASE Leaves(p)
  <2>1. PICK st : Leave(p, st, values', restored')
    BY <1>10 DEF Leaves
  <2>2. queue' = Tail(queue)
    BY <2>1 DEF Leave
  <2>3. /\ Awaited(queue, i) <=> Awaited(queue', i) \/ LimitOf(p, i)
        /\ \A j \in DOMAIN queue' :
              LastFor(queue', j, i) =>
                  /\ j + 1 \in DOMAIN queue /\ LastFor(queue, j + 1, i)
                  /\ queue'[j] = queue[j + 1]
        /\ LimitOf(p, i) /\ ~Awaited(queue', i) =>
               1 \in DOMAIN queue /\ LastFor(queue, 1, i) /\ queue[1] = p
    BY <1>1, <1>4, <2>2, TailAwaits
  <2>4. /\ Awaited(queue', i) => restored' \/ "limits" \in unsent'
        /\ Awaited(queue', i) => Given(wanted["limits"])[i] # NoLevel
        /\ \A j \in DOMAIN queue' :
              LastFor(queue', j, i) => Given(values'["limits"])[i] = Does[queue'[j]].level
    <3>1. ASSUME NEW j \in DOMAIN queue', LastFor(queue', j, i)
          PROVE  Given(values'["limits"])[i] = Does[queue'[j]].level
      <4>1. /\ j + 1 \in DOMAIN queue /\ LastFor(queue, j + 1, i)
            /\ queue'[j] = queue[j + 1]
        BY <2>3, <3>1
      <4> QED BY <1>5, <1>6, <1>8, <4>1
    <3> QED BY <1>5, <1>6, <2>3, <3>1
  <2>5. CASE p \in Commands
    <3>1. /\ live' = IF Does[p].key = "limits" THEN [live EXCEPT ![Does[p].item] = Does[p].level]
                     ELSE live
          /\ UNCHANGED enacted
      BY <2>1, <2>5, OwnerSettingsAssumption DEF Leave, Obey, Insists
    <3>2. live'[i] = IF LimitOf(p, i) THEN Does[p].level ELSE live[i]
      BY <2>5, <3>1 DEF LimitOf, SettingsTypeOK, Value
    <3>3. LimitOf(p, i) => Awaited(queue, i)
      BY <2>3
    <3>4. live'[i] # NoLevel => Given(wanted["limits"])[i] # NoLevel
      BY <1>5, <3>2, <3>3
    <3>5. ASSUME enacted', ~Awaited(queue', i)
          PROVE  live'[i] = Given(values'["limits"])[i]
      BY <1>5, <1>6, <1>7, <2>3, <3>1, <3>2, <3>5
    <3> QED BY <2>4, <3>4, <3>5
  <2>6. CASE p \notin Commands /\ Enact(values', restored')
    <3>1. values' \in [Keys -> Value \cup {Unset}]
      BY SyncKeepsTypes DEF SettingsTypeOK
    <3>2. live'[i] = IF Given(values'["limits"])[i] = NoLevel THEN live[i]
                     ELSE Given(values'["limits"])[i]
      BY <2>6, <3>1, EnactedLimits
    <3>3. Given(values'["limits"])[i] # NoLevel => values'["limits"] = wanted["limits"]
      BY <1>6 DEF Given, Empty
    <3>4. live'[i] # NoLevel => Given(wanted["limits"])[i] # NoLevel
      BY <1>5, <3>2, <3>3
    <3>5. ASSUME enacted'
          PROVE  live'[i] = Given(values'["limits"])[i]
      <4>1. values'["limits"] = wanted["limits"]
        BY <1>6, <2>6, <3>5 DEF Enact
      <4> QED BY <1>5, <3>2, <4>1
    <3> QED BY <2>4, <3>4, <3>5
  <2>7. CASE p \notin Commands /\ UNCHANGED <<live, enacted>>
    <3>1. ~LimitOf(p, i)
      BY <2>7 DEF LimitOf
    <3> QED BY <1>5, <1>6, <1>7, <2>3, <2>4, <2>7, <3>1
  <2> QED BY <2>1, <2>5, <2>6, <2>7 DEF Leave
<1> QED BY <1>1, <1>9, <1>10

\* The owner sets a limit: it waits for the command's sync, or is in force at once.
LEMMA LimitsSet ==
    ASSUME SettingsTypeOK, FilesAgree, Lifetime, LockHeld, OwnersWord, LimitsInForce,
           NEW c \in Commands, SetLimit(c)
    PROVE  LimitsInForce'
<1> DEFINE base == Given(values["limits"])
           new  == Changed(base, c)
           x    == Does[c].item
           l    == Does[c].level
<1>1. /\ values' = [values EXCEPT !["limits"] = new] /\ unsent' = unsent \cup {"limits"}
      /\ UNCHANGED enacted /\ Wants("limits", c, base, restored) /\ AskLock(c)
      /\ live' = IF process = "up" THEN live ELSE [live EXCEPT ![x] = l]
      /\ Does[c].key = "limits" /\ process # "down"
  BY DEF SetLimit, Stage
<1>2. /\ base \in Value /\ Given(wanted["limits"]) \in Value
      /\ l # NoLevel /\ x \in Items /\ queue \in Seq(Procs) /\ c \in Procs
      /\ new \in Value
  BY <1>1, KeyFacts, GivenType, ChangedType, OwnerSettingsAssumption DEF SettingsTypeOK, Procs
<1>3. Given(values'["limits"]) = new
  BY <1>1, <1>2, KeyFacts DEF SettingsTypeOK, Given
<1>4. ASSUME NEW v \in Value
      PROVE  Changed(v, c) = [v EXCEPT ![x] = l]
  BY <1>1 DEF Changed
<1>5. new[x] = l /\ \A i \in Items : i # x => new[i] = base[i]
  BY <1>2, <1>4 DEF Value
<1>6. /\ Given(wanted'["limits"])[x] = l
      /\ \A i \in Items : i # x => Given(wanted'["limits"])[i] = Given(wanted["limits"])[i]
  <2>1. CASE new = base /\ Given(wanted["limits"]) = base
    BY <1>1, <1>5, <2>1 DEF Wants
  <2>2. CASE ~(new = base /\ Given(wanted["limits"]) = base)
    <3> DEFINE w == Given(wanted["limits"])
    <3>1. wanted'["limits"] = Changed(w, c)
      BY <1>1, <2>2, KeyFacts DEF Wants, SettingsTypeOK
    <3>2. Changed(w, c) \in Value /\ Changed(w, c) = [w EXCEPT ![x] = l]
      BY <1>2, <1>4, ChangedType
    <3>3. Given(wanted'["limits"]) = [w EXCEPT ![x] = l]
      BY <3>1, <3>2, KeyFacts DEF Given
    <3> QED BY <1>2, <3>3 DEF Value
  <2> QED BY <2>1, <2>2
<1>7. "limits" \notin spoiled' => "limits" \notin spoiled
  BY <1>1 DEF Wants
<1>8. \A i \in Items : LimitOf(c, i) <=> i = x
  BY <1>1 DEF LimitOf
<1> HIDE DEF base, new, x, l
<1>9. CASE process = "up"
  <2>1. queue' = Append(queue, c) /\ live' = live
    BY <1>1, <1>9 DEF AskLock
  <2>2. SUFFICES ASSUME "limits" \notin spoiled', NEW i \in Items
                 PROVE  /\ Awaited(queue', i) => "limits" \in unsent'
                        /\ Awaited(queue', i) \/ live[i] # NoLevel => Given(wanted'["limits"])[i] # NoLevel
                        /\ \A j \in DOMAIN queue' :
                              LastFor(queue', j, i) =>
                                  Given(values'["limits"])[i] = Does[queue'[j]].level
                        /\ enacted /\ ~Awaited(queue', i) => live[i] = Given(values'["limits"])[i]
    BY <1>1, <2>1 DEF LimitsInForce
  <2>3. /\ Awaited(queue, i) \/ live[i] # NoLevel => Given(wanted["limits"])[i] # NoLevel
        /\ \A j \in DOMAIN queue :
              LastFor(queue, j, i) => base[i] = Does[queue[j]].level
        /\ enacted /\ ~Awaited(queue, i) => live[i] = base[i]
    BY <1>7, <2>2 DEF LimitsInForce, base
  <2>4. /\ Awaited(queue', i) <=> Awaited(queue, i) \/ LimitOf(c, i)
        /\ \A j \in DOMAIN queue' :
              LastFor(queue', j, i) =>
                  IF LimitOf(c, i) THEN queue'[j] = c
                  ELSE LastFor(queue, j, i) /\ queue'[j] = queue[j]
    BY <1>2, <2>1, AppendAwaits
  <2>5. ASSUME NEW j \in DOMAIN queue', LastFor(queue', j, i)
        PROVE  new[i] = Does[queue'[j]].level
    <3>1. CASE i = x
      <4>1. queue'[j] = c
        BY <1>8, <2>4, <2>5, <3>1
      <4> QED BY <1>5, <3>1, <4>1 DEF l
    <3>2. CASE i # x
      <4>1. LastFor(queue, j, i) /\ queue'[j] = queue[j]
        BY <1>8, <2>4, <2>5, <3>2
      <4>2. j \in DOMAIN queue
        BY <4>1 DEF LastFor
      <4> QED BY <1>5, <2>3, <3>2, <4>1, <4>2
    <3> QED BY <3>1, <3>2
  <2>6. Awaited(queue', i) \/ live[i] # NoLevel => Given(wanted'["limits"])[i] # NoLevel
    BY <1>2, <1>6, <1>8, <2>3, <2>4
  <2>7. enacted /\ ~Awaited(queue', i) => live[i] = new[i]
    BY <1>5, <1>8, <2>3, <2>4
  <2> QED BY <1>1, <1>3, <2>5, <2>6, <2>7
<1>10. CASE process # "up"
  <2>1. queue' = <<>> /\ ~enacted' /\ live' = [live EXCEPT ![x] = l]
    BY <1>1, <1>10 DEF AskLock, Lifetime
  <2>2. \A i \in Items : ~Awaited(queue', i)
    BY <2>1 DEF Awaited
  <2>3. SUFFICES ASSUME "limits" \notin spoiled', NEW i \in Items, live'[i] # NoLevel
                 PROVE  Given(wanted'["limits"])[i] # NoLevel
    BY <2>1, <2>2 DEF LimitsInForce, LastFor
  <2>4. i # x => live'[i] = live[i]
    BY <2>1 DEF SettingsTypeOK, Value
  <2>5. live[i] # NoLevel => Given(wanted["limits"])[i] # NoLevel
    BY <1>7, <2>3 DEF LimitsInForce
  <2> QED BY <1>2, <1>6, <2>3, <2>4, <2>5
<1> QED BY <1>9, <1>10

\* The limits follow the settings.
LEMMA LimitsStep ==
    ASSUME SettingsTypeOK, FilesAgree, Lifetime, LockHeld, ListHasFile, MongoKnown, ListSeeded,
           OwnersWord, ListInForce, LimitsInForce, SettingsNext
    PROVE  LimitsInForce'
<1>0. queue \in Seq(Procs) /\ boot \in Procs /\ retry \in Procs /\ boot # retry
      /\ \A i \in Items : ~LimitOf(boot, i) /\ ~LimitOf(retry, i)
  BY OwnerSettingsAssumption DEF SettingsTypeOK, Procs, LimitOf
<1>1. ASSUME UNCHANGED <<live, enacted, restored>>, spoiled \subseteq spoiled',
             values'["limits"] = values["limits"], wanted'["limits"] = wanted["limits"],
             unsent \subseteq unsent',
             \/ queue' = queue
             \/ \E p \in Procs : queue' = Append(queue, p) /\ \A i \in Items : ~LimitOf(p, i)
      PROVE  LimitsInForce'
  <2>1. CASE queue' = queue
    BY <1>1, <2>1 DEF LimitsInForce
  <2>2. ASSUME NEW p \in Procs, queue' = Append(queue, p), \A i \in Items : ~LimitOf(p, i)
        PROVE  LimitsInForce'
    <3>1. ASSUME NEW i \in Items
          PROVE  /\ Awaited(queue', i) <=> Awaited(queue, i)
                 /\ \A j \in DOMAIN queue' :
                       LastFor(queue', j, i) => LastFor(queue, j, i) /\ queue'[j] = queue[j]
      BY <1>0, <2>2, AppendAwaits
    <3>2. \A i \in Items, j \in DOMAIN queue' : LastFor(queue, j, i) => j \in DOMAIN queue
      BY DEF LastFor
    <3> QED BY <1>1, <3>1, <3>2 DEF LimitsInForce
  <2> QED BY <1>1, <2>1, <2>2
<1>2. ASSUME queue' = <<>>, ~enacted', live' = Empty
      PROVE  LimitsInForce'
  BY <1>2 DEF LimitsInForce, Awaited, LastFor, Empty
<1>3. ASSUME NEW c \in Commands, SetLimit(c) \/ SetChannel(c) \/ Replied(c) \/ ReplyFails(c)
      PROVE  LimitsInForce'
  <2>1. CASE SetChannel(c)
    <3>1. wanted'["limits"] = wanted["limits"]
      BY <2>1, KeyFacts DEF SetChannel, Wants, SettingsTypeOK
    <3> QED BY <1>1, <2>1, <3>1 DEF SetChannel, Wants, local, syncing
  <2>2. CASE Replied(c)
    <3>1. /\ UNCHANGED <<live, enacted, restored, spoiled, wanted>>
          /\ values'["limits"] = values["limits"] /\ unsent \subseteq unsent'
      BY <2>2, RepliedWay, KeyFacts, ZenonT(60) DEF Stage, local, SettingsTypeOK
    <3>2. c \in Procs /\ \A i \in Items : ~LimitOf(c, i)
      BY <2>2 DEF Replied, Lifetime, LimitOf, Procs
    <3>3. queue' = queue \/ queue' = Append(queue, c)
      BY <2>2 DEF Replied, AskLock
    <3> QED BY <1>1, <3>1, <3>2, <3>3
  <2>3. CASE ReplyFails(c)
    BY <1>1, <2>3 DEF ReplyFails, history, local, syncing
  <2> QED BY <1>3, <2>1, <2>2, <2>3, LimitsSet
<1>4. CASE Others
  <2>1. ASSUME NEW i \in Items, AutoDisable(i)
        PROVE  LimitsInForce'
    <3>1. wanted'["limits"] = wanted["limits"]
      BY <2>1, KeyFacts DEF AutoDisable, SettingsTypeOK
    <3> QED BY <1>1, <2>1, <3>1 DEF AutoDisable, local, syncing
  <2>2. ASSUME NEW w \in late, ArriveLate(w)
        PROVE  LimitsInForce'
    BY <1>1, <2>2 DEF ArriveLate, local, syncing
  <2>3. CASE StartSettings
    <3>1. values'["limits"] = values["limits"]
      BY <2>3, KeyFacts DEF StartSettings, SettingsTypeOK
    <3> QED BY <1>0, <1>1, <2>3, <3>1 DEF StartSettings, history
  <2>4. CASE Wake
    <3>1. UNCHANGED <<live, enacted, restored, spoiled, values, wanted, unsent>>
          /\ queue' = Append(queue, retry)
      BY <2>4 DEF Wake, local, history
    <3> QED BY <1>0, <1>1, <3>1
  <2>5. CASE Launch
    BY <1>1, <2>5 DEF Launch, local, syncing, history
  <2>6. CASE Die
    BY <1>2, <2>6 DEF Die
  <2>7. CASE Move
    BY <1>2, <2>7 DEF Move, Lifetime, syncing
  <2> QED BY <1>4, <2>1, <2>2, <2>3, <2>4, <2>5, <2>6, <2>7 DEF Others
<1> QED BY <1>3, <1>4, LimitsSync, ThreeKinds

-----------------------------------------------------------------------------
(* The owner's settings: the theorems.                                     *)

\* The settings that a first start finds are the ones of the file, or of MongoDB.
LEMMA SettingsStart == SettingsInit => SettingsInv
<1> SUFFICES ASSUME SettingsInit
             PROVE  SettingsInv
  OBVIOUS
<1>1. PICK held \in SUBSET Keys :
          remote = [k \in Keys |-> IF k \in held THEN Earlier[k] ELSE Unset]
  BY DEF SettingsInit
<1>2. PICK v \in {remote, [k \in Keys |-> Unset]} : store = [values |-> v, pending |-> {}]
  BY DEF SettingsInit
<1>3. PICK case \in Cases :
          /\ place = [p \in Procs |-> IF p \in case.commands THEN "new" ELSE "done"]
          /\ launches = case.launches /\ mishaps = case.faults
  BY DEF SettingsInit
<1>4. /\ remote \in [Keys -> Value \cup {Unset}] /\ v \in [Keys -> Value \cup {Unset}]
      /\ Earlier["channels"] \in Value
  BY <1>1, KeyFacts, OwnerSettingsAssumption
<1>5. /\ case.commands \subseteq Commands /\ launches \in Nat /\ mishaps \in Nat
      /\ boot \notin Commands /\ retry \notin Commands
      /\ boot \in Procs /\ retry \in Procs
  BY <1>3, OwnerSettingsAssumption DEF Procs
<1>6. Empty \in Value /\ Nothing \in [key : Keys, val : Value \cup {Unset}]
  BY DEF Empty, Value, Nothing, Keys
<1>7. listing \in Value \cup {Unset}
  BY <1>4 DEF SettingsInit
<1>8. wanted \in [Keys -> Value \cup {Unset}]
  BY <1>4, <1>7 DEF SettingsInit
<1>9. SettingsTypeOK
  <2>1. place \in [Procs -> {"new", "reply", "wait", "find", "push", "sleep", "done"}]
    BY <1>3
  <2>2. store \in [values : [Keys -> Value \cup {Unset}], pending : SUBSET Keys]
        /\ values \in [Keys -> Value \cup {Unset}]
    BY <1>2, <1>4 DEF SettingsInit
  <2>3. owed \in BOOLEAN
    BY DEF SettingsInit
  <2>4. /\ process = "down" /\ restored = FALSE /\ status = "not_started"
        /\ unsent = {} /\ mem = Empty /\ live = Empty
        /\ before = [c \in Commands |-> Unset] /\ insist = FALSE
        /\ queue = <<>> /\ left = {} /\ at = Nothing /\ late = {}
        /\ enacted = FALSE /\ spoiled = {}
    BY DEF SettingsInit
  <2>5. queue \in Seq(Procs)
    BY <2>4
  <2> QED BY <1>4, <1>5, <1>6, <1>7, <1>8, <2>1, <2>2, <2>3, <2>4, <2>5 DEF SettingsTypeOK
<1>10. FilesAgree /\ SyncedIsSent
  BY <1>2 DEF SettingsInit, FilesAgree, SyncedIsSent
<1>11. Lifetime /\ LockHeld
  <2>1. \A p \in Procs : place[p] \in {"new", "done"}
    BY <1>3
  <2>2. place[boot] = "done" /\ place[retry] = "done"
    BY <1>3, <1>5
  <2>3. Commands \subseteq Procs
    BY DEF Procs
  <2> QED BY <2>1, <2>2, <2>3 DEF SettingsInit, Lifetime, LockHeld
<1>12. ListHasFile
  BY DEF SettingsInit, ListHasFile
<1>13. MongoKnown /\ ListSeeded
  BY <1>2 DEF SettingsInit, MongoKnown, ListSeeded
<1>14. OwnersWord
  <2>1. \A k \in Keys : Durable(k) = remote[k]
    BY <1>2 DEF Durable
  <2>2. wanted["limits"] = remote["limits"]
    BY KeyFacts DEF SettingsInit
  <2>3. \/ wanted["channels"] = remote["channels"]
        \/ owed /\ listing = wanted["channels"]
    BY KeyFacts DEF SettingsInit
  <2> QED BY <2>1, <2>2, <2>3, KeyFacts DEF OwnersWord, SettingsInit
<1>15. ListInForce
  <2>1. listing # Unset => listing = wanted["channels"]
    BY <1>1, KeyFacts DEF SettingsInit
  <2> QED BY <2>1 DEF ListInForce, SettingsInit
<1>16. LimitsInForce
  BY DEF SettingsInit, LimitsInForce, Awaited, LastFor, Empty
<1> QED BY <1>9, <1>10, <1>11, <1>12, <1>13, <1>14, <1>15, <1>16 DEF SettingsInv

\* Every step keeps all of the invariant.
LEMMA SettingsKeepInv == SettingsInv /\ [SettingsNext]_settingsVars => SettingsInv'
<1> SUFFICES ASSUME SettingsInv, [SettingsNext]_settingsVars
             PROVE  SettingsInv'
  OBVIOUS
<1>1. CASE SettingsNext
  <2>1. SettingsTypeOK'
    BY <1>1, ThreeKinds, SyncKeepsTypes, CommandKeepsTypes, OthersKeepTypes DEF SettingsInv
  <2>2. FilesAgree' /\ Lifetime' /\ LockHeld' /\ SyncedIsSent' /\ ListHasFile'
    BY <1>1, FilesStep, LifetimeStep, LockStep, SyncedStep, ListStep DEF SettingsInv
  <2>3. MongoKnown' /\ ListSeeded' /\ OwnersWord' /\ ListInForce' /\ LimitsInForce'
    BY <1>1, MongoStep, SeededStep, WordStep, ForceStep, LimitsStep DEF SettingsInv
  <2> QED BY <2>1, <2>2, <2>3 DEF SettingsInv
<1>2. CASE UNCHANGED settingsVars
  BY <1>2 DEF settingsVars, local, channels, bounds, syncing, history, SettingsInv, SettingsTypeOK,
      FilesAgree, Lifetime, LockHeld, SyncedIsSent, ListHasFile, MongoKnown, ListSeeded, OwnersWord,
      ListInForce, LimitsInForce, Durable, Holds, Insists
<1> QED BY <1>1, <1>2

\* The invariant says that the settings are sound.
LEMMA InvIsSound == SettingsInv => SettingsSound
<1> SUFFICES ASSUME SettingsInv
             PROVE  SettingsSound
  OBVIOUS
<1>1. SettingsKept
  BY DEF SettingsInv, OwnersWord, SyncedIsSent, SettingsKept, Resting
<1>2. ASSUME Resting, enacted, ~owed
      PROVE  /\ listing = values["channels"] /\ mem = Given(listing)
             /\ "limits" \notin spoiled => live = Given(values["limits"])
  <2>1. queue = <<>> /\ retry \in Procs
    BY <1>2 DEF Resting, Procs
  <2>2. place[retry] # "push"
    BY <2>1 DEF SettingsInv, LockHeld, Holds
  <2>3. listing = values["channels"] /\ mem = Given(listing)
    BY <1>2, <2>2 DEF SettingsInv, ListInForce
  <2>4. ASSUME "limits" \notin spoiled
        PROVE  live = Given(values["limits"])
    <3>1. \A i \in Items : ~Awaited(queue, i)
      BY <2>1 DEF Awaited
    <3>2. \A i \in Items : live[i] = Given(values["limits"])[i]
      BY <1>2, <2>4, <3>1 DEF SettingsInv, LimitsInForce
    <3>3. live \in Value /\ Given(values["limits"]) \in Value
      BY GivenType, KeyFacts DEF SettingsInv, SettingsTypeOK
    <3> QED BY <3>2, <3>3 DEF Value
  <2> QED BY <2>3, <2>4
<1> QED BY <1>1, <1>2 DEF SettingsSound, InForce

\* The types of the settings, for any commands and items, any launches and faults.
THEOREM SettingsTypesHold == SettingsSpec => []SettingsTypeOK
<1>1. SettingsInv => SettingsTypeOK
  BY DEF SettingsInv
<1> QED BY <1>1, SettingsStart, SettingsKeepInv, PTL DEF SettingsSpec

\* What the owner has set is what the next process finds, and what is in force, though
\* commands overlap with each other, with restores, with failing and late writes, and
\* with restarts and moves: SettingsSound, for any commands, items, launches and faults.
THEOREM SettingsAreSound == SettingsSpec => []SettingsSound
BY SettingsStart, SettingsKeepInv, InvIsSound, PTL DEF SettingsSpec
=============================================================================
