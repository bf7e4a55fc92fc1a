------------------------------ MODULE Login_proofs ------------------------------
(***************************************************************************)
(* Safety of /login and of its limiter for any users, any conversations,   *)
(* any limits and any number of workers; and the limiter as a set of slots *)
(* with a queue.                                                           *)
(***************************************************************************)
EXTENDS Login, FiniteSetTheorems, TLAPS

-----------------------------------------------------------------------------
(* The inductive invariant.                                                *)

Asking == {"prompt", "asked", "answered"}

\* What a conversation remembers fits the place where it is.
Fits(c) ==
    /\ pc[c] \in {"acquire", "sleep", "slot", "connect"} => kind[c] = "phone"
    /\ pc[c] \in Asking /\ asks[c].for # "password" => kind[c] = "phone"
    /\ pc[c] = "scan" => kind[c] = "qr"
    /\ pc[c] \notin Asking \cup {"export"} => asks[c].for = "phone"

AllFit == \A c \in Convs : Fits(c)

\* A conversation that can_login has let go on and that has no slot yet.
LetOn(c) ==
    \/ pc[c] \in {"acquire", "sleep", "slot"}
    \/ pc[c] \in Asking /\ asks[c].for = "phone"

\* For its user the wait is over and the hour has room, and remain so.
Room(c) == since[UserOf[c]] = UserCooldown /\ attempts[UserOf[c]] < MaxPerHour

AllRoom == \A c \in Convs : UserOf[c] \notin crossed /\ LetOn(c) => Room(c)

\* Who waits for the semaphore is in its queue once and does nothing else.
QueueFits ==
    /\ \A i \in DOMAIN queue : pc[queue[i]] = "slot"
    /\ \A i, j \in DOMAIN queue : queue[i] = queue[j] => i = j

\* A command that no worker has taken is in the inbox once.
InboxFits ==
    /\ \A i \in DOMAIN inbox : inbox[i].conv # NoOne => pc[inbox[i].conv] = "sent"
    /\ \A i, j \in DOMAIN inbox :
          inbox[i].conv # NoOne /\ inbox[i].conv = inbox[j].conv => i = j

\* Two conversations of a user at once have been noticed.
CrossSeen ==
    \A c, d \in Convs :
        c # d /\ UserOf[c] = UserOf[d] /\ {c, d} \subseteq Handled => UserOf[c] \in crossed

\* The history of a user's attempts is the clock of the limiter.
SameClock == gap = since

IInv == /\ LoginTypeOK
        /\ SlotsExact
        /\ AllFit
        /\ QueueFits
        /\ InboxFits
        /\ CrossSeen
        /\ FlagTrue
        /\ QuestionHeard
        /\ AllRoom
        /\ HourlyLimit
        /\ SameClock

-----------------------------------------------------------------------------
(* What the steps come to, seen from the invariant.                        *)

\* Nobody but c moves.
OthersStay(c) ==
    \A d \in Convs \ {c} : pc'[d] = pc[d] /\ kind'[d] = kind[d] /\ asks'[d] = asks[d]

\* Nobody has to wait longer than before.
Mild ==
    /\ SameClock'
    /\ \A u \in Users : /\ since[u] = UserCooldown => since'[u] = UserCooldown
                        /\ attempts'[u] <= attempts[u]

\* The futures of other users stay registered.
OtherFutures(c) == \A u \in Users \ {UserOf[c]} : waiting'[u] = waiting[u]

\* A step of c that has to do with no slot.
Talk(c) ==
    /\ OthersStay(c)
    /\ c \in Handled /\ pc[c] # "slot" /\ pc'[c] \in Places \ {"unsent", "sent", "slot"}
    /\ Fits(c)' /\ (Inside(c)' <=> Inside(c))
    /\ LetOn(c)' => LetOn(c) \/ Room(c)'
    /\ Mild
    /\ OtherFutures(c) /\ (pc'[c] = "asked" => waiting'[UserOf[c]] = c)
    /\ UNCHANGED <<slotVars, inbox>> /\ Watch

\* A step that ends c, and gives its slot back if it has one.
Ending(c) ==
    /\ OthersStay(c)
    /\ c \in Handled /\ pc[c] # "slot" /\ pc'[c] = "done" /\ Fits(c)'
    /\ Give(c) /\ Mild /\ OtherFutures(c)
    /\ UNCHANGED <<queue, inbox>> /\ Watch

\* A step that makes c wait for the semaphore.
Joining(c) ==
    /\ pc[c] \in {"acquire", "sleep"} /\ Join(c) /\ GoTo(c, "slot")
    /\ Mild /\ UNCHANGED <<permits, active, holders, loggingIn, kind, asks, waiting, inbox>>
    /\ Watch

\* A step of nobody's.
Still ==
    /\ Mild /\ UNCHANGED <<slotVars, pc, kind, asks, waiting, inbox>> /\ Watch

-----------------------------------------------------------------------------
(* Lemmas.                                                                 *)

\* What Watch notes.
LEMMA Watching ==
    ASSUME LoginTypeOK, LoginTypeOK', Watch
    PROVE  crossed \subseteq crossed' /\ CrossSeen'
<1>1. crossed \subseteq crossed'
  BY DEF Watch
<1>2. ASSUME NEW c \in Convs, NEW d \in Convs, c # d, UserOf[c] = UserOf[d],
             {c, d} \subseteq Handled'
      PROVE  UserOf[c] \in crossed'
  <2>1. UserOf[c] \in Users /\ {c, d} \subseteq Of(UserOf[c])
    BY <1>2, LimiterAssumption DEF Of
  <2> QED BY <1>2, <2>1 DEF Watch
<1> QED BY <1>1, <1>2 DEF CrossSeen

\* A conversation that has a slot is at work, and its user's others are noticed.
LEMMA HoldersHandled ==
    ASSUME IInv
    PROVE  /\ holders \subseteq Handled
           /\ \A c \in Convs : c \in holders <=> Inside(c)
BY DEF IInv, SlotsExact, Inside, Handled

\* A slot that comes back is one that was out.
LEMMA Giving ==
    ASSUME IInv, NEW c \in Convs, Give(c)
    PROVE  /\ holders' = holders \ {c}
           /\ active' = Cardinality(holders')
           /\ permits' = MaxConcurrent - Cardinality(holders')
           /\ loggingIn' = IF c \in holders THEN [loggingIn EXCEPT ![UserOf[c]] = FALSE]
                           ELSE loggingIn
<1>1. IsFiniteSet(holders) /\ Cardinality(holders) \in Nat
  BY LimiterAssumption, FS_Subset, FS_CardinalityType DEF IInv, LoginTypeOK
<1>2. c \in holders => Cardinality(holders \ {c}) = Cardinality(holders) - 1
  BY <1>1, FS_RemoveElement
<1>3. /\ active = Cardinality(holders) /\ permits = MaxConcurrent - Cardinality(holders)
      /\ MaxConcurrent \in Nat
  BY LimiterAssumption DEF IInv, SlotsExact
<1>4. CASE c \in holders
  BY <1>1, <1>2, <1>3, <1>4 DEF Give
<1>5. CASE c \notin holders
  BY <1>1, <1>3, <1>5 DEF Give
<1> QED BY <1>4, <1>5

\* A slot that is taken was free.
LEMMA Taking ==
    ASSUME IInv, NEW c \in Convs, c \notin holders, Take(c)
    PROVE  /\ holders' = holders \cup {c}
           /\ active' = Cardinality(holders')
           /\ permits' = MaxConcurrent - Cardinality(holders')
           /\ permits' \in Nat /\ Cardinality(holders) < MaxConcurrent
<1>1. IsFiniteSet(holders) /\ Cardinality(holders) \in Nat
  BY LimiterAssumption, FS_Subset, FS_CardinalityType DEF IInv, LoginTypeOK
<1>2. Cardinality(holders \cup {c}) = Cardinality(holders) + 1
  BY <1>1, FS_AddElement
<1>3. /\ active = Cardinality(holders) /\ permits = MaxConcurrent - Cardinality(holders)
      /\ permits \in Nat /\ MaxConcurrent \in Nat
  BY LimiterAssumption DEF IInv, SlotsExact, LoginTypeOK
<1>4. holders' = holders \cup {c} /\ active' = active + 1 /\ permits' = permits - 1 /\ permits > 0
  BY DEF Take
<1> QED BY <1>1, <1>2, <1>3, <1>4

\* What can_login does to the stamps.
LEMMA AskingStamps ==
    ASSUME LoginTypeOK, NEW u \in Users, Ask(u)
    PROVE  /\ attempts' \in [Users -> Nat] /\ sinceGlobal' = sinceGlobal /\ since' = since
           /\ sinceHour' \in [Users -> 0..Hour]
           /\ grant' \in [Users -> {NoGrant} \cup 0..FastWait]
           /\ \A w \in Users : attempts'[w] <= attempts[w]
<1> USE DEF LoginTypeOK
<1>1. CASE loggingIn[u]
  BY <1>1 DEF Ask, stampVars
<1>2. CASE ~loggingIn[u]
  <2>1. Refresh(u, Attempts(u) < MaxPerHour)
    BY <1>2 DEF Ask
  <2>2. Attempts(u) \in Nat /\ Attempts(u) <= attempts[u]
    BY DEF Attempts
  <2>3. attempts' \in [Users -> Nat] /\ \A w \in Users : attempts'[w] <= attempts[w]
    BY <2>1, <2>2 DEF Refresh
  <2>4. sinceHour' \in [Users -> 0..Hour]
    BY <2>1, LimiterAssumption DEF Refresh
  <2>5. grant' \in [Users -> {NoGrant} \cup 0..FastWait]
    BY <2>1 DEF Refresh
  <2> QED BY <2>1, <2>3, <2>4, <2>5 DEF Refresh
<1> QED BY <1>1, <1>2

\* What the grant of a fast login does to them.
LEMMA GrantingStamps ==
    ASSUME LoginTypeOK, NEW u \in Users, FastRelogin(u)
    PROVE  /\ attempts' \in [Users -> Nat] /\ sinceGlobal' = sinceGlobal /\ since' = since
           /\ sinceHour' \in [Users -> 0..Hour]
           /\ grant' \in [Users -> {NoGrant} \cup 0..FastWait]
           /\ \A w \in Users : attempts'[w] <= attempts[w]
<1> USE DEF LoginTypeOK
<1>1. CASE ~LightLoad
  BY <1>1 DEF FastRelogin, stampVars
<1>2. CASE LightLoad
  <2>1. /\ attempts' = [attempts EXCEPT ![u] = Attempts(u)]
        /\ sinceHour' = [sinceHour EXCEPT ![u] = IF HourOver(u) THEN 0 ELSE @]
        /\ grant' = [grant EXCEPT ![u] = IF UserWait(u) > FastWait THEN FastWait
                                         ELSE IF @ = 0 THEN NoGrant ELSE @]
        /\ UNCHANGED <<sinceGlobal, since>>
    BY <1>2 DEF FastRelogin
  <2>2. Attempts(u) \in Nat /\ Attempts(u) <= attempts[u]
    BY DEF Attempts
  <2>3. attempts' \in [Users -> Nat] /\ \A w \in Users : attempts'[w] <= attempts[w]
    BY <2>1, <2>2
  <2>4. sinceHour' \in [Users -> 0..Hour]
    BY <2>1, LimiterAssumption
  <2>5. grant' \in [Users -> {NoGrant} \cup 0..FastWait]
    BY <2>1, LimiterAssumption
  <2> QED BY <1>2, <2>3, <2>4, <2>5 DEF FastRelogin
<1> QED BY <1>1, <1>2

\* What an attempt does to them.
LEMMA RecordingStamps ==
    ASSUME LoginTypeOK, NEW u \in Users, Record(u)
    PROVE  /\ attempts' \in [Users -> Nat] /\ sinceGlobal' \in 0..GlobalCooldown
           /\ since' = [since EXCEPT ![u] = 0] /\ since' \in [Users -> 0..UserCooldown]
           /\ sinceHour' \in [Users -> 0..Hour]
           /\ grant' \in [Users -> {NoGrant} \cup 0..FastWait]
           /\ attempts'[u] <= attempts[u] + 1
           /\ \A w \in Users \ {u} : attempts'[w] = attempts[w]
BY LimiterAssumption DEF LoginTypeOK, Record, Attempts, HourOver, NoGrant

\* What time does to them.
LEMMA AgeingStamps ==
    ASSUME LoginTypeOK, Older
    PROVE  /\ attempts' = attempts /\ sinceGlobal' \in 0..GlobalCooldown
           /\ since' \in [Users -> 0..UserCooldown]
           /\ sinceHour' \in [Users -> 0..Hour]
           /\ grant' \in [Users -> {NoGrant} \cup 0..FastWait]
BY LimiterAssumption DEF LoginTypeOK, Older, AtMost, AtLeast, NoGrant

\* Nobody waits longer, nobody gets another slot: those with room keep it.
LEMMA RoomStays ==
    ASSUME IInv, LoginTypeOK', Mild, crossed \subseteq crossed',
           \A d \in Convs : LetOn(d)' => LetOn(d) \/ Room(d)'
    PROVE  AllRoom' /\ HourlyLimit' /\ SameClock'
<1>1. AllRoom'
  <2> SUFFICES ASSUME NEW d \in Convs, UserOf[d] \notin crossed', LetOn(d)'
               PROVE  Room(d)'
    BY DEF AllRoom
  <2>1. UserOf[d] \in Users /\ UserOf[d] \notin crossed
    BY LimiterAssumption
  <2>2. CASE LetOn(d)
    <3>1. Room(d)
      BY <2>1, <2>2 DEF IInv, AllRoom
    <3>2. /\ attempts[UserOf[d]] \in Nat /\ attempts'[UserOf[d]] \in Nat /\ MaxPerHour \in Nat
          /\ attempts'[UserOf[d]] <= attempts[UserOf[d]]
          /\ since'[UserOf[d]] = UserCooldown
      BY <2>1, <3>1, LimiterAssumption DEF IInv, LoginTypeOK, Mild, Room
    <3> QED BY <3>1, <3>2 DEF Room
  <2> QED BY <2>2
<1>2. HourlyLimit'
  <2> SUFFICES ASSUME NEW u \in Users, u \notin crossed' PROVE attempts'[u] <= MaxPerHour
    BY DEF HourlyLimit
  <2>1. attempts[u] \in Nat /\ attempts'[u] \in Nat /\ MaxPerHour \in Nat
    BY LimiterAssumption DEF IInv, LoginTypeOK
  <2>2. attempts[u] <= MaxPerHour /\ attempts'[u] <= attempts[u]
    BY DEF IInv, HourlyLimit, Mild
  <2> QED BY <2>1, <2>2
<1> QED BY <1>1, <1>2 DEF Mild

\* A conversation that asks nothing new of the futures leaves those that are heard heard.
LEMMA HeardStays ==
    ASSUME IInv, CrossSeen', crossed \subseteq crossed', NEW c \in Convs, c \in Handled,
           OthersStay(c), OtherFutures(c),
           pc'[c] = "asked" => waiting'[UserOf[c]] = c
    PROVE  QuestionHeard'
<1> SUFFICES ASSUME NEW d \in Convs, pc'[d] = "asked", UserOf[d] \notin crossed'
             PROVE  waiting'[UserOf[d]] = d
  BY DEF QuestionHeard
<1>1. CASE d = c
  BY <1>1
<1>2. CASE d # c
  <2>1. pc[d] = "asked"
    BY <1>2 DEF OthersStay
  <2>2. waiting[UserOf[d]] = d
    BY <2>1 DEF IInv, QuestionHeard
  <2>3. UserOf[d] # UserOf[c]
    BY <1>2, <2>1 DEF IInv, CrossSeen, Handled
  <2> QED BY <2>2, <2>3, LimiterAssumption DEF OtherFutures
<1> QED BY <1>1, <1>2

\* An update in the inbox is from a user, and a command belongs to a conversation.
Update == [from : Users, what : {"text", "command"}, conv : Convs \cup {NoOne}]

LEMMA InboxType ==
    ASSUME LoginTypeOK
    PROVE  inbox \in Seq(Update) /\ \A i \in DOMAIN inbox : inbox[i].conv \in Convs \cup {NoOne}
<1>1. inbox \in Seq(Update)
  BY DEF LoginTypeOK, Update
<1>2. \A i \in DOMAIN inbox : inbox[i] \in Update
  BY <1>1
<1> QED BY <1>1, <1>2 DEF Update

\* Nobody is moved into or out of the queue and the inbox.
LEMMA LinesStay ==
    ASSUME IInv, NEW c \in Convs, OthersStay(c), UNCHANGED <<queue, inbox>>,
           pc[c] \notin {"slot", "sent"}
    PROVE  QueueFits' /\ InboxFits'
<1>1. QueueFits'
  <2>1. \A i \in DOMAIN queue : queue[i] \in Convs /\ queue[i] # c
    BY DEF IInv, QueueFits, LoginTypeOK
  <2> QED BY <2>1 DEF IInv, QueueFits, OthersStay
<1>2. InboxFits'
  <2>1. \A i \in DOMAIN inbox : inbox[i].conv # NoOne => inbox[i].conv \in Convs \ {c}
    BY InboxType DEF IInv, InboxFits
  <2> QED BY <2>1 DEF IInv, InboxFits, OthersStay
<1> QED BY <1>1, <1>2

\* Nobody else's memory changes.
LEMMA FitStays ==
    ASSUME IInv, NEW c \in Convs, OthersStay(c), Fits(c)'
    PROVE  AllFit'
<1> SUFFICES ASSUME NEW d \in Convs PROVE Fits(d)'
  BY DEF AllFit
<1>1. CASE d # c
  BY <1>1 DEF IInv, AllFit, OthersStay, Fits
<1> QED BY <1>1

\* Steps that have to do with no slot.
LEMMA TalkKeeps ==
    ASSUME IInv, LoginTypeOK', NEW c \in Convs, Talk(c)
    PROVE  IInv'
<1>1. crossed \subseteq crossed' /\ CrossSeen'
  BY Watching DEF Talk, IInv
<1>2. SlotsExact'
  <2>1. \A d \in Convs : Inside(d)' <=> Inside(d)
    BY DEF Talk, OthersStay, Inside
  <2> QED BY <2>1 DEF IInv, SlotsExact, Talk, slotVars
<1>3. AllFit'
  BY FitStays DEF Talk
<1>4. QueueFits' /\ InboxFits'
  BY LinesStay DEF Talk, Handled, slotVars
<1>5. FlagTrue'
  BY <1>1 DEF IInv, FlagTrue, Talk, slotVars
<1>6. QuestionHeard'
  BY <1>1, HeardStays DEF Talk
<1>7. AllRoom' /\ HourlyLimit' /\ SameClock'
  <2>1. \A d \in Convs : LetOn(d)' => LetOn(d) \/ Room(d)'
    BY DEF Talk, OthersStay, LetOn
  <2> QED BY <1>1, <2>1, RoomStays DEF Talk
<1> QED BY <1>1, <1>2, <1>3, <1>4, <1>5, <1>6, <1>7 DEF IInv

\* Steps that end a conversation.
LEMMA EndingKeeps ==
    ASSUME IInv, LoginTypeOK', NEW c \in Convs, Ending(c)
    PROVE  IInv'
<1>1. crossed \subseteq crossed' /\ CrossSeen'
  BY Watching DEF Ending, IInv
<1>2. /\ holders' = holders \ {c} /\ active' = Cardinality(holders')
      /\ permits' = MaxConcurrent - Cardinality(holders')
      /\ loggingIn' = IF c \in holders THEN [loggingIn EXCEPT ![UserOf[c]] = FALSE]
                      ELSE loggingIn
  BY Giving DEF Ending
<1>3. SlotsExact'
  <2>1. \A d \in Convs \ {c} : Inside(d)' <=> Inside(d)
    BY DEF Ending, OthersStay, Inside
  <2>2. ~Inside(c)'
    BY DEF Ending, Inside
  <2> QED BY <1>2, <2>1, <2>2 DEF IInv, SlotsExact
<1>4. AllFit'
  BY FitStays DEF Ending
<1>5. QueueFits' /\ InboxFits'
  BY LinesStay DEF Ending, Handled
<1>6. FlagTrue'
  <2>1. CASE c \notin holders
    BY <1>1, <1>2, <2>1 DEF IInv, FlagTrue
  <2>2. CASE c \in holders
    <3> SUFFICES ASSUME NEW u \in Users
                 PROVE  /\ loggingIn'[u] => \E d \in Of(u) : d \in holders'
                        /\ u \notin crossed' /\ (\E d \in Of(u) : d \in holders')
                              => loggingIn'[u]
      BY DEF FlagTrue, Of
    <3>1. CASE u = UserOf[c]
      <4>1. ~loggingIn'[u]
        BY <1>2, <2>2, <3>1 DEF IInv, LoginTypeOK
      <4>2. \A d \in Of(u) : d \in holders' => u \in crossed
        BY <1>2, <2>2, <3>1, HoldersHandled DEF IInv, CrossSeen, Of
      <4> QED BY <1>1, <4>1, <4>2
    <3>2. CASE u # UserOf[c]
      <4>1. c \notin Of(u) /\ loggingIn'[u] = loggingIn[u]
        BY <1>2, <2>2, <3>2 DEF IInv, LoginTypeOK, Of
      <4> QED BY <1>1, <1>2, <4>1 DEF IInv, FlagTrue
    <3> QED BY <3>1, <3>2
  <2> QED BY <2>1, <2>2
<1>7. QuestionHeard'
  BY <1>1, HeardStays DEF Ending
<1>8. AllRoom' /\ HourlyLimit' /\ SameClock'
  <2>1. \A d \in Convs : LetOn(d)' => LetOn(d) \/ Room(d)'
    BY DEF Ending, OthersStay, LetOn, Asking
  <2> QED BY <1>1, <2>1, RoomStays DEF Ending
<1> QED BY <1>1, <1>3, <1>4, <1>5, <1>6, <1>7, <1>8 DEF IInv

\* What Append, Tail and Without do to a sequence.
LEMMA Lines ==
    ASSUME NEW S, NEW q \in Seq(S), NEW e \in S
    PROVE  /\ DOMAIN q = 1..Len(q) /\ Len(q) \in Nat
           /\ Append(q, e) \in Seq(S) /\ DOMAIN Append(q, e) = 1..(Len(q) + 1)
           /\ Append(q, e)[Len(q) + 1] = e
           /\ \A i \in DOMAIN q : Append(q, e)[i] = q[i]
           /\ q # <<>> => /\ Tail(q) \in Seq(S) /\ DOMAIN Tail(q) = 1..(Len(q) - 1)
                          /\ Head(q) = q[1] /\ 1 \in DOMAIN q
                          /\ \A i \in DOMAIN Tail(q) : Tail(q)[i] = q[i + 1]
OBVIOUS

LEMMA TakenOut ==
    ASSUME NEW S, NEW q \in Seq(S), NEW i \in DOMAIN q
    PROVE  /\ Without(q, i) \in Seq(S)
           /\ \A k \in DOMAIN Without(q, i) :
                 \E m \in DOMAIN q \ {i} : Without(q, i)[k] = q[m]
                                           /\ m = IF k < i THEN k ELSE k + 1
<1>1. Len(q) \in Nat /\ DOMAIN q = 1..Len(q) /\ i \in 1..Len(q) /\ \A k \in DOMAIN q : q[k] \in S
  OBVIOUS
<1>2. Len(q) - 1 \in Nat /\ DOMAIN Without(q, i) = 1..(Len(q) - 1)
  BY <1>1 DEF Without
<1>3. ASSUME NEW k \in 1..(Len(q) - 1)
      PROVE  \E m \in DOMAIN q \ {i} : Without(q, i)[k] = q[m]
                                       /\ m = IF k < i THEN k ELSE k + 1
  <2>1. CASE k < i
    <3>1. k \in DOMAIN q \ {i} /\ Without(q, i)[k] = q[k]
      BY <1>1, <1>2, <1>3, <2>1 DEF Without
    <3> QED BY <2>1, <3>1
  <2>2. CASE ~(k < i)
    <3>1. k + 1 \in DOMAIN q \ {i} /\ Without(q, i)[k] = q[k + 1]
      BY <1>1, <1>2, <1>3, <2>2 DEF Without
    <3> QED BY <2>2, <3>1
  <2> QED BY <2>1, <2>2
<1>4. Without(q, i) \in Seq(S)
  <2>1. \A k \in 1..(Len(q) - 1) : Without(q, i)[k] \in S
    BY <1>1, <1>3
  <2>2. Without(q, i) = [k \in 1..(Len(q) - 1) |-> Without(q, i)[k]]
    BY DEF Without
  <2> HIDE DEF Without
  <2> QED BY <1>2, <2>1, <2>2
<1> QED BY <1>2, <1>3, <1>4

\* A step that makes a conversation wait for the semaphore.
LEMMA JoiningKeeps ==
    ASSUME IInv, LoginTypeOK', NEW c \in Convs, Joining(c)
    PROVE  IInv'
<1>0. /\ pc \in [Convs -> Places] /\ pc' = [pc EXCEPT ![c] = "slot"]
      /\ queue \in Seq(Convs) /\ queue' = Append(queue, c)
      /\ c \in Handled /\ OthersStay(c)
  BY DEF IInv, LoginTypeOK, Joining, GoTo, Join, Handled, OthersStay
<1>1. crossed \subseteq crossed' /\ CrossSeen'
  BY Watching DEF Joining, IInv
<1>2. SlotsExact'
  <2>1. \A d \in Convs : Inside(d)' <=> Inside(d)
    BY <1>0 DEF Joining, Inside
  <2> QED BY <2>1 DEF IInv, SlotsExact, Joining
<1>3. AllFit'
  <2>1. Fits(c)'
    BY <1>0 DEF IInv, AllFit, Fits, Asking, Joining
  <2> QED BY <1>0, <2>1, FitStays
<1>4. QueueFits'
  <2>1. \A i \in DOMAIN queue : queue[i] \in Convs /\ queue[i] # c
    BY <1>0 DEF IInv, QueueFits, Joining
  <2> DEFINE n == Len(queue)
  <2>2. /\ n \in Nat /\ DOMAIN queue = 1..n /\ DOMAIN queue' = 1..(n + 1)
        /\ queue'[n + 1] = c /\ \A i \in 1..n : queue'[i] = queue[i]
    BY <1>0, Lines
  <2> HIDE DEF n
  <2>3. \A i \in 1..(n + 1) : i \in 1..n \/ i = n + 1
    BY <2>2
  <2>4. \A i \in DOMAIN queue' : pc'[queue'[i]] = "slot"
    BY <1>0, <2>1, <2>2, <2>3 DEF IInv, QueueFits
  <2>5. \A i, j \in DOMAIN queue' : queue'[i] = queue'[j] => i = j
    BY <2>1, <2>2, <2>3 DEF IInv, QueueFits
  <2> QED BY <2>4, <2>5 DEF QueueFits
<1>5. InboxFits'
  BY <1>0 DEF IInv, InboxFits, Joining
<1>6. FlagTrue'
  BY <1>1 DEF IInv, FlagTrue, Joining
<1>7. QuestionHeard'
  BY <1>0, <1>1, HeardStays DEF Joining, OtherFutures
<1>8. AllRoom' /\ HourlyLimit' /\ SameClock'
  <2>1. \A d \in Convs : LetOn(d)' => LetOn(d)
    BY <1>0 DEF Joining, LetOn
  <2> QED BY <1>1, <2>1, RoomStays DEF Joining
<1> QED BY <1>1, <1>2, <1>3, <1>4, <1>5, <1>6, <1>7, <1>8 DEF IInv

\* The wait for the semaphore has lasted too long.
LEMMA LeavingKeeps ==
    ASSUME IInv, LoginTypeOK', NEW c \in Convs, SlotTimesOut(c)
    PROVE  IInv'
<1>0. /\ queue \in Seq(Convs) /\ OthersStay(c)
      /\ pc[c] = "slot" /\ pc'[c] = "done" /\ asks'[c].for = "phone" /\ c \in Handled
  BY DEF IInv, LoginTypeOK, SlotTimesOut, Close, GoTo, Question, OthersStay, Handled
<1>a. /\ UNCHANGED <<permits, active, holders, loggingIn, inbox, waiting>> /\ Watch /\ Mild
  BY DEF IInv, LoginTypeOK, SlotTimesOut, stampVars, mailVars, Quiet, Mild, SameClock
<1>1. crossed \subseteq crossed' /\ CrossSeen'
  BY <1>a, Watching DEF IInv
<1>2. SlotsExact'
  <2>1. \A d \in Convs : Inside(d)' <=> Inside(d)
    BY <1>0 DEF Inside, OthersStay
  <2> QED BY <1>a, <2>1 DEF IInv, SlotsExact
<1>3. AllFit'
  <2>1. Fits(c)'
    BY <1>0 DEF Fits, Asking
  <2> QED BY <1>0, <2>1, FitStays
<1>4. QueueFits'
  <2>1. PICK i \in DOMAIN queue : queue[i] = c /\ queue' = Without(queue, i)
    BY DEF SlotTimesOut, Leave
  <2>2. \A k \in DOMAIN queue' :
           \E m \in DOMAIN queue \ {i} : queue'[k] = queue[m]
                                         /\ m = IF k < i THEN k ELSE k + 1
    BY <1>0, <2>1, TakenOut
  <2>3. \A m \in DOMAIN queue \ {i} : queue[m] \in Convs \ {c} /\ pc'[queue[m]] = "slot"
    BY <1>0, <2>1 DEF IInv, QueueFits, OthersStay
  <2>4. \A k \in DOMAIN queue' : pc'[queue'[k]] = "slot"
    BY <2>2, <2>3
  <2>5. DOMAIN queue' \subseteq Nat /\ i \in Nat
    BY <1>0, <2>1 DEF Without
  <2>6. \A k, l \in DOMAIN queue' : queue'[k] = queue'[l] => k = l
    <3> SUFFICES ASSUME NEW k \in DOMAIN queue', NEW l \in DOMAIN queue', queue'[k] = queue'[l]
                 PROVE  k = l
      OBVIOUS
    <3>1. PICK m \in DOMAIN queue : queue'[k] = queue[m] /\ m = IF k < i THEN k ELSE k + 1
      BY <2>2
    <3>2. PICK p \in DOMAIN queue : queue'[l] = queue[p] /\ p = IF l < i THEN l ELSE l + 1
      BY <2>2
    <3>3. m = p
      BY <3>1, <3>2 DEF IInv, QueueFits
    <3> QED BY <2>5, <3>1, <3>2, <3>3
  <2> QED BY <2>4, <2>6 DEF QueueFits
<1>5. InboxFits'
  <2>1. \A k \in DOMAIN inbox : inbox[k].conv \in Convs \cup {NoOne}
    BY InboxType DEF IInv
  <2> QED BY <1>0, <1>a, <2>1 DEF IInv, InboxFits, OthersStay
<1>6. FlagTrue'
  BY <1>1, <1>a DEF IInv, FlagTrue
<1>7. QuestionHeard'
  BY <1>0, <1>a, <1>1, HeardStays DEF OtherFutures
<1>8. AllRoom' /\ HourlyLimit' /\ SameClock'
  <2>1. \A d \in Convs : LetOn(d)' => LetOn(d)
    BY <1>0 DEF LetOn, OthersStay, Asking
  <2> QED BY <1>a, <1>1, <2>1, RoomStays
<1> QED BY <1>1, <1>2, <1>3, <1>4, <1>5, <1>6, <1>7, <1>8 DEF IInv

\* The first in the queue gets a slot.
LEMMA GettingKeeps ==
    ASSUME IInv, LoginTypeOK', NEW c \in Convs, GetsSlot(c)
    PROVE  IInv'
<1>0. /\ queue \in Seq(Convs) /\ queue # <<>> /\ Head(queue) = c /\ queue' = Tail(queue)
      /\ OthersStay(c) /\ pc[c] = "slot" /\ pc'[c] = "connect" /\ c \in Handled
      /\ kind' = kind /\ asks' = asks /\ inbox' = inbox /\ waiting' = waiting
      /\ Watch /\ Take(c) /\ UserOf[c] \in Users
  BY LimiterAssumption
     DEF IInv, LoginTypeOK, GetsSlot, Take, GoTo, OthersStay, Handled, mailVars, locals
<1>1. crossed \subseteq crossed' /\ CrossSeen'
  BY <1>0, Watching DEF IInv
<1>2. c \notin holders
  BY <1>0, HoldersHandled DEF Inside
<1>3. /\ holders' = holders \cup {c} /\ active' = Cardinality(holders')
      /\ permits' = MaxConcurrent - Cardinality(holders')
  BY <1>0, <1>2, Taking
<1>4. SlotsExact'
  <2>1. \A d \in Convs \ {c} : Inside(d)' <=> Inside(d)
    BY <1>0 DEF OthersStay, Inside
  <2>2. Inside(c)'
    BY <1>0 DEF Inside
  <2> QED BY <1>3, <2>1, <2>2 DEF IInv, SlotsExact
<1>5. AllFit'
  <2>1. Fits(c)'
    BY <1>0 DEF IInv, AllFit, Fits, Asking
  <2> QED BY <1>0, <2>1, FitStays
<1>6. QueueFits'
  <2>1. \A i \in DOMAIN queue' : /\ i \in Nat /\ i + 1 \in DOMAIN queue /\ i + 1 # 1
                                 /\ queue'[i] = queue[i + 1]
    BY <1>0, Lines
  <2>2. queue[1] = c /\ 1 \in DOMAIN queue
    BY <1>0, Lines
  <2>3. \A i \in DOMAIN queue : queue[i] \in Convs
    BY <1>0
  <2>4. \A i \in DOMAIN queue : i # 1 => queue[i] # c /\ pc'[queue[i]] = "slot"
    BY <1>0, <2>2, <2>3 DEF IInv, QueueFits, OthersStay
  <2>5. \A i, j \in DOMAIN queue' : queue'[i] = queue'[j] => i = j
    <3> SUFFICES ASSUME NEW i \in DOMAIN queue', NEW j \in DOMAIN queue', queue'[i] = queue'[j]
                 PROVE  i = j
      OBVIOUS
    <3>1. i + 1 = j + 1
      BY <2>1 DEF IInv, QueueFits
    <3> QED BY <2>1, <3>1
  <2> QED BY <2>1, <2>4, <2>5 DEF QueueFits
<1>7. InboxFits'
  <2>1. \A i \in DOMAIN inbox : inbox[i].conv \in Convs \cup {NoOne}
    BY InboxType DEF IInv
  <2> QED BY <1>0, <2>1 DEF IInv, InboxFits, OthersStay
<1>8. FlagTrue'
  <2>1. loggingIn' = [loggingIn EXCEPT ![UserOf[c]] = TRUE] /\ loggingIn \in [Users -> BOOLEAN]
    BY <1>0 DEF Take, IInv, LoginTypeOK
  <2>2. c \in Of(UserOf[c])
    BY DEF Of
  <2> SUFFICES ASSUME NEW u \in Users
               PROVE  /\ loggingIn'[u] => \E d \in Of(u) : d \in holders'
                      /\ u \notin crossed' /\ (\E d \in Of(u) : d \in holders') => loggingIn'[u]
    BY DEF FlagTrue, Of
  <2>3. CASE u = UserOf[c]
    BY <1>3, <2>1, <2>2, <2>3
  <2>4. CASE u # UserOf[c]
    <3>1. c \notin Of(u) /\ loggingIn'[u] = loggingIn[u]
      BY <2>1, <2>4 DEF Of
    <3> QED BY <1>1, <1>3, <3>1 DEF IInv, FlagTrue
  <2> QED BY <2>3, <2>4
<1>9. QuestionHeard'
  BY <1>0, <1>1, HeardStays DEF OtherFutures
<1>10. /\ since' = [since EXCEPT ![UserOf[c]] = 0]
       /\ attempts'[UserOf[c]] <= attempts[UserOf[c]] + 1
       /\ \A w \in Users \ {UserOf[c]} : attempts'[w] = attempts[w]
  BY <1>0, RecordingStamps DEF Take, IInv
<1>11. AllRoom'
  <2> SUFFICES ASSUME NEW d \in Convs, UserOf[d] \notin crossed', LetOn(d)' PROVE Room(d)'
    BY DEF AllRoom
  <2>1. d # c
    BY <1>0 DEF LetOn, Asking
  <2>2. LetOn(d) /\ d \in Handled
    BY <1>0, <2>1 DEF LetOn, OthersStay, Handled, Asking
  <2>3. UserOf[d] \in Users \ {UserOf[c]}
    BY <1>0, <1>1, <2>1, <2>2, LimiterAssumption DEF IInv, CrossSeen
  <2>4. Room(d)
    BY <1>1, <2>2 DEF IInv, AllRoom
  <2> QED BY <1>10, <2>3, <2>4 DEF Room, IInv, LoginTypeOK
<1>12. HourlyLimit'
  <2> SUFFICES ASSUME NEW u \in Users, u \notin crossed' PROVE attempts'[u] <= MaxPerHour
    BY DEF HourlyLimit
  <2>1. CASE u = UserOf[c]
    <3>1. Room(c)
      BY <1>0, <1>1, <2>1 DEF IInv, AllRoom, LetOn
    <3>2. attempts[u] \in Nat /\ attempts'[u] \in Nat /\ MaxPerHour \in Nat
      BY LimiterAssumption DEF IInv, LoginTypeOK
    <3> QED BY <1>10, <2>1, <3>1, <3>2 DEF Room
  <2>2. CASE u # UserOf[c]
    BY <1>1, <1>10, <2>2 DEF IInv, HourlyLimit
  <2> QED BY <2>1, <2>2
<1>13. SameClock'
  BY <1>10 DEF GetsSlot, IInv, SameClock
<1> QED BY <1>1, <1>4, <1>5, <1>6, <1>7, <1>8, <1>9, <1>11, <1>12, <1>13 DEF IInv

\* A worker takes an update.
LEMMA TakingKeeps ==
    ASSUME IInv, LoginTypeOK', TakeUpdate
    PROVE  IInv'
<1> DEFINE m == Head(inbox)
<1>0. /\ inbox \in Seq(Update) /\ inbox # <<>> /\ inbox' = Tail(inbox)
      /\ UNCHANGED <<limiterVars, waiting, locals, gap>> /\ Watch
  BY InboxType DEF IInv, TakeUpdate, Quiet
<1>1. \A d \in Convs : pc'[d] = IF d = m.conv THEN "entry"
                                ELSE IF d \in Heard(m) THEN "answered" ELSE pc[d]
  BY DEF TakeUpdate
<1>2. m = inbox[1] /\ 1 \in DOMAIN inbox
  BY <1>0, Lines
<1>3. \A d \in Convs : /\ d = m.conv => pc[d] = "sent"
                       /\ d \in Heard(m) => pc[d] = "asked"
  BY <1>2, LoginAssumption DEF IInv, InboxFits, Heard
<1> HIDE DEF m
<1>4. \A d \in Convs : \/ pc[d] = "sent" /\ pc'[d] = "entry"
                       \/ pc[d] = "asked" /\ pc'[d] = "answered"
                       \/ pc'[d] = pc[d] /\ d # m.conv
  BY <1>1, <1>3
<1>5. crossed \subseteq crossed' /\ CrossSeen'
  BY <1>0, Watching DEF IInv
<1>6. kind' = kind /\ asks' = asks /\ queue' = queue /\ holders' = holders
      /\ loggingIn' = loggingIn /\ active' = active /\ permits' = permits
      /\ since' = since /\ attempts' = attempts /\ waiting' = waiting /\ gap' = gap
  BY <1>0 DEF limiterVars, slotVars, stampVars, locals
<1>7. SlotsExact'
  <2>1. \A d \in Convs : Inside(d)' <=> Inside(d)
    BY <1>4, <1>6 DEF Inside
  <2> QED BY <1>6, <2>1 DEF IInv, SlotsExact
<1>8. AllFit'
  BY <1>4, <1>6 DEF IInv, AllFit, Fits, Asking
<1>9. QueueFits'
  <2>1. \A i \in DOMAIN queue : queue[i] \in Convs
    BY DEF IInv, LoginTypeOK
  <2> QED BY <1>4, <1>6, <2>1 DEF IInv, QueueFits
<1>10. InboxFits'
  <2>1. \A i \in DOMAIN inbox' : /\ i \in Nat /\ i + 1 \in DOMAIN inbox /\ i + 1 # 1
                                 /\ inbox'[i] = inbox[i + 1]
    BY <1>0, Lines
  <2>2. \A i \in DOMAIN inbox : inbox[i].conv \in Convs \cup {NoOne}
    BY InboxType DEF IInv
  <2>3. \A i \in DOMAIN inbox : i # 1 /\ inbox[i].conv # NoOne =>
            inbox[i].conv # m.conv /\ pc[inbox[i].conv] = "sent"
    BY <1>2 DEF IInv, InboxFits
  <2>4. \A i \in DOMAIN inbox : i # 1 /\ inbox[i].conv # NoOne => pc'[inbox[i].conv] = "sent"
    BY <1>1, <1>3, <2>2, <2>3
  <2>5. ASSUME NEW i \in DOMAIN inbox', NEW j \in DOMAIN inbox', inbox'[i].conv # NoOne,
               inbox'[i].conv = inbox'[j].conv
        PROVE  i = j
    <3>1. i + 1 = j + 1
      BY <2>1, <2>5 DEF IInv, InboxFits
    <3> QED BY <2>1, <3>1
  <2> QED BY <2>1, <2>4, <2>5 DEF InboxFits
<1>11. FlagTrue'
  BY <1>5, <1>6 DEF IInv, FlagTrue
<1>12. QuestionHeard'
  BY <1>4, <1>5, <1>6 DEF IInv, QuestionHeard
<1>13. AllRoom' /\ HourlyLimit' /\ SameClock'
  <2>1. \A d \in Convs : LetOn(d)' => LetOn(d)
    BY <1>4, <1>6 DEF LetOn, Asking
  <2>2. Mild
    BY <1>6 DEF IInv, LoginTypeOK, Mild, SameClock
  <2> QED BY <1>5, <2>1, <2>2, RoomStays
<1> QED BY <1>5, <1>7, <1>8, <1>9, <1>10, <1>11, <1>12, <1>13 DEF IInv

\* What an update more leaves of the inbox.
LEMMA SendingFits ==
    ASSUME IInv, NEW x \in Update, inbox' = Append(inbox, x),
           \A d \in Convs : pc[d] = "sent" => pc'[d] = "sent",
           x.conv # NoOne => pc[x.conv] = "unsent" /\ pc'[x.conv] = "sent"
    PROVE  InboxFits'
<1> DEFINE n == Len(inbox)
<1>1. /\ n \in Nat /\ DOMAIN inbox = 1..n /\ DOMAIN inbox' = 1..(n + 1)
      /\ inbox'[n + 1] = x /\ \A i \in 1..n : inbox'[i] = inbox[i]
  BY InboxType, Lines DEF IInv
<1> HIDE DEF n
<1>2. \A i \in 1..(n + 1) : i \in 1..n \/ i = n + 1
  BY <1>1
<1>3. \A i \in 1..n : /\ inbox[i].conv \in Convs \cup {NoOne}
                      /\ inbox[i].conv # NoOne => pc[inbox[i].conv] = "sent"
  BY <1>1, InboxType DEF IInv, InboxFits
<1>4. \A i \in DOMAIN inbox' : inbox'[i].conv # NoOne => pc'[inbox'[i].conv] = "sent"
  BY <1>1, <1>2, <1>3
<1>5. \A i \in 1..n : inbox[i].conv # NoOne => inbox[i].conv # x.conv
  BY <1>3
<1>6. \A i, j \in DOMAIN inbox' :
          inbox'[i].conv # NoOne /\ inbox'[i].conv = inbox'[j].conv => i = j
  BY <1>1, <1>2, <1>5 DEF IInv, InboxFits
<1> QED BY <1>4, <1>6 DEF InboxFits

\* Steps of nobody's, another message of a user among them.
LEMMA StillKeeps ==
    ASSUME IInv, LoginTypeOK', Mild, Watch, InboxFits',
           UNCHANGED <<slotVars, pc, kind, asks, waiting>>
    PROVE  IInv'
<1>1. crossed \subseteq crossed' /\ CrossSeen'
  BY Watching DEF IInv
<1>2. SlotsExact'
  BY DEF IInv, SlotsExact, Inside, slotVars
<1>3. AllFit' /\ QueueFits'
  BY DEF IInv, AllFit, Fits, QueueFits, slotVars
<1>4. FlagTrue' /\ QuestionHeard'
  BY <1>1 DEF IInv, FlagTrue, QuestionHeard, slotVars
<1>5. AllRoom' /\ HourlyLimit' /\ SameClock'
  <2>1. \A d \in Convs : LetOn(d)' => LetOn(d)
    BY DEF LetOn
  <2> QED BY <1>1, <2>1, RoomStays
<1> QED BY <1>1, <1>2, <1>3, <1>4, <1>5 DEF IInv

\* A user sends /login or /qrlogin.
LEMMA LogInKeeps ==
    ASSUME IInv, LoginTypeOK', NEW c \in Convs, NEW how \in {"phone", "qr"}, UserLogsIn(c, how)
    PROVE  IInv'
<1> DEFINE x == [from |-> UserOf[c], what |-> "command", conv |-> c]
<1>0. /\ OthersStay(c) /\ pc[c] = "unsent" /\ pc'[c] = "sent" /\ asks' = asks /\ Watch
      /\ UNCHANGED <<slotVars, stampVars, waiting, gap>> /\ inbox' = Append(inbox, x)
  BY DEF IInv, LoginTypeOK, UserLogsIn, GoTo, OthersStay, Quiet, limiterVars
<1>a. x \in Update /\ x.conv = c
  BY LimiterAssumption DEF Update
<1> HIDE DEF x
<1>1. crossed \subseteq crossed' /\ CrossSeen'
  BY <1>0, Watching DEF IInv
<1>2. SlotsExact'
  <2>1. \A d \in Convs : Inside(d)' <=> Inside(d)
    BY <1>0 DEF Inside, OthersStay
  <2> QED BY <1>0, <2>1 DEF IInv, SlotsExact, slotVars
<1>3. AllFit'
  <2>1. Fits(c)'
    BY <1>0 DEF IInv, AllFit, Fits, Asking
  <2> QED BY <1>0, <2>1, FitStays
<1>4. QueueFits'
  <2>1. \A i \in DOMAIN queue : queue[i] \in Convs /\ queue[i] # c
    BY <1>0 DEF IInv, QueueFits, LoginTypeOK
  <2> QED BY <1>0, <2>1 DEF IInv, QueueFits, OthersStay, slotVars
<1>5. InboxFits'
  <2>1. \A d \in Convs : pc[d] = "sent" => pc'[d] = "sent"
    BY <1>0 DEF OthersStay
  <2> QED BY <1>0, <1>a, <2>1, SendingFits
<1>6. FlagTrue'
  BY <1>0, <1>1 DEF IInv, FlagTrue, slotVars
<1>7. QuestionHeard'
  BY <1>0, <1>1 DEF IInv, QuestionHeard, OthersStay
<1>8. AllRoom' /\ HourlyLimit' /\ SameClock'
  <2>1. \A d \in Convs : LetOn(d)' => LetOn(d)
    BY <1>0 DEF LetOn, OthersStay, Asking
  <2>2. Mild
    BY <1>0 DEF IInv, LoginTypeOK, Mild, SameClock, stampVars
  <2> QED BY <1>1, <2>1, <2>2, RoomStays
<1> QED BY <1>1, <1>2, <1>3, <1>4, <1>5, <1>6, <1>7, <1>8 DEF IInv

-----------------------------------------------------------------------------
(* Types.                                                                  *)

\* What the slots may be.
SlotTypes ==
    /\ permits \in Nat /\ active \in Nat /\ holders \subseteq Convs
    /\ queue \in Seq(Convs) /\ loggingIn \in [Users -> BOOLEAN]

StampTypes ==
    /\ attempts \in [Users -> Nat] /\ sinceGlobal \in 0..GlobalCooldown
    /\ since \in [Users -> 0..UserCooldown] /\ sinceHour \in [Users -> 0..Hour]
    /\ grant \in [Users -> {NoGrant} \cup 0..FastWait]

MailTypes ==
    /\ inbox \in Seq(Update) /\ ans \in [Convs -> {"text", "command"}]
    /\ waiting \in [Users -> Convs \cup {NoOne}]

TalkTypes ==
    /\ pc \in [Convs -> Places] /\ kind \in [Convs -> {"phone", "qr"}]
    /\ asks \in [Convs -> [for : {"phone", "code", "password"}, failed : Nat]]
    /\ seen \in [Convs -> Sessions \cup {NoOne}]
    /\ sleep \in [Convs -> Nat] /\ signed \subseteq Convs

StoreTypes ==
    /\ stored \in [Users -> Sessions \cup {NoOne}]
    /\ held \in [Users -> Sessions \cup {NoOne}]

HistoryTypes ==
    /\ crossed \subseteq Users
    /\ promise \in [Users -> {NoGrant} \cup 0..FastWait]
    /\ gap \in [Users -> 0..UserCooldown]

LEMMA TypesOf ==
    LoginTypeOK <=> /\ SlotTypes /\ StampTypes /\ MailTypes
                    /\ TalkTypes /\ StoreTypes /\ HistoryTypes
BY DEF LoginTypeOK, SlotTypes, StampTypes, MailTypes, TalkTypes, StoreTypes, HistoryTypes, Update

LEMMA TypesThen ==
    ASSUME SlotTypes', StampTypes', MailTypes', TalkTypes', StoreTypes', HistoryTypes'
    PROVE  LoginTypeOK'
BY DEF LoginTypeOK, SlotTypes, StampTypes, MailTypes, TalkTypes, StoreTypes, HistoryTypes, Update

\* What stays as it is keeps its type.
LEMMA TypesStay ==
    ASSUME LoginTypeOK
    PROVE  /\ UNCHANGED slotVars => SlotTypes'
           /\ UNCHANGED stampVars => StampTypes'
           /\ UNCHANGED limiterVars => SlotTypes' /\ StampTypes'
           /\ UNCHANGED mailVars => MailTypes'
           /\ UNCHANGED talkVars => TalkTypes'
           /\ UNCHANGED storeVars => StoreTypes'
<1> USE TypesOf
<1>1. UNCHANGED slotVars => SlotTypes'
  BY DEF SlotTypes, slotVars
<1>2. UNCHANGED stampVars => StampTypes'
  BY DEF StampTypes, stampVars
<1>3. UNCHANGED mailVars => MailTypes'
  BY DEF MailTypes, mailVars
<1>4. UNCHANGED talkVars => TalkTypes'
  BY DEF TalkTypes, talkVars, locals
<1>5. UNCHANGED storeVars => StoreTypes'
  BY DEF StoreTypes, storeVars
<1> QED BY <1>1, <1>2, <1>3, <1>4, <1>5 DEF limiterVars

LEMMA HistoryStays ==
    ASSUME LoginTypeOK, Watch
    PROVE  /\ crossed' \subseteq Users
           /\ UNCHANGED <<promise, gap>> => HistoryTypes'
BY TypesOf, LimiterAssumption DEF HistoryTypes, Watch, Handled

\* Slots given back, and conversations that end.
LEMMA GiveTypes ==
    ASSUME IInv, NEW c \in Convs, Give(c), UNCHANGED queue
    PROVE  SlotTypes'
<1>1. SlotTypes /\ UserOf[c] \in Users
  BY TypesOf, LimiterAssumption DEF IInv
<1>2. holders' = holders \ {c} /\ active' = Cardinality(holders')
  BY Giving
<1>3. Cardinality(holders') \in Nat
  BY <1>1, <1>2, LimiterAssumption, FS_Subset, FS_CardinalityType DEF SlotTypes
<1>4. permits' \in Nat
  BY <1>1 DEF SlotTypes, Give
<1>5. loggingIn' \in [Users -> BOOLEAN]
  <2>1. CASE c \in holders
    <3>1. loggingIn' = [loggingIn EXCEPT ![UserOf[c]] = FALSE]
      BY <2>1 DEF Give
    <3> QED BY <1>1, <3>1 DEF SlotTypes
  <2>2. CASE c \notin holders
    BY <1>1, <2>2 DEF SlotTypes, Give
  <2> QED BY <2>1, <2>2
<1> QED BY <1>1, <1>2, <1>3, <1>4, <1>5 DEF SlotTypes

LEMMA CloseTypes ==
    ASSUME LoginTypeOK, NEW c \in Convs, Close(c)
    PROVE  TalkTypes'
BY TypesOf DEF TalkTypes, Close, GoTo, Question, Places

\* A step of a conversation that changes what is named only.
LEMMA MoveTypes ==
    ASSUME LoginTypeOK, NEW c \in Convs, NEW p \in Places, GoTo(c, p), UNCHANGED locals
    PROVE  TalkTypes'
BY TypesOf DEF TalkTypes, GoTo, locals

LEMMA ReadTypes ==
    ASSUME LoginTypeOK, NEW c \in Convs, NEW what, Reads(c, what)
    PROVE  MailTypes'
BY TypesOf, LimiterAssumption DEF MailTypes, Reads, Unregister

LEMMA AskTypes ==
    ASSUME LoginTypeOK, NEW c \in Convs, Ask(UserOf[c])
    PROVE  StampTypes'
BY TypesOf, AskingStamps, LimiterAssumption DEF StampTypes

\* A session that is cleared.
LEMMA ClearTypes ==
    ASSUME LoginTypeOK, NEW u \in Users, Clear(u)
    PROVE  stored' \in [Users -> Sessions \cup {NoOne}]
BY TypesOf DEF StoreTypes, Clear

\* A fast login that is granted.
LEMMA PromiseTypes ==
    ASSUME LoginTypeOK, NEW u \in Users, Promised(u)
    PROVE  promise' \in [Users -> {NoGrant} \cup 0..FastWait]
BY TypesOf, LimiterAssumption DEF HistoryTypes, Promised

\* Every step of a conversation keeps the types.
LEMMA StepTypes ==
    ASSUME IInv, NEW c \in Convs, Step(c)
    PROVE  LoginTypeOK'
<1>0. UserOf[c] \in Users /\ LoginTypeOK
  BY LimiterAssumption DEF IInv
<1>1. CASE Enter(c)
  <2>1. TalkTypes'
    BY <1>0, <1>1, TypesOf DEF Enter, TalkTypes, StoreTypes, GoTo, Places
  <2> QED BY <1>0, <1>1, <2>1, TypesThen, TypesStay, HistoryStays DEF Enter, Quiet
<1>2. CASE ProbeGood(c)
  BY <1>0, <1>2, CloseTypes, TypesThen, TypesStay, HistoryStays DEF ProbeGood, Quiet
<1>3. CASE ProbeBad(c)
  <2>1. StampTypes'
    BY <1>0, <1>3, GrantingStamps, TypesOf DEF ProbeBad, StampTypes
  <2>2. StoreTypes' /\ HistoryTypes'
    BY <1>0, <1>3, ClearTypes, PromiseTypes, TypesOf, HistoryStays
       DEF ProbeBad, StoreTypes, HistoryTypes
  <2>3. TalkTypes'
    BY <1>0, <1>3, TypesOf DEF ProbeBad, TalkTypes, GoTo, Places
  <2> QED BY <1>0, <1>3, <2>1, <2>2, <2>3, TypesThen, TypesStay DEF ProbeBad
<1>4. CASE Refused(c)
  BY <1>0, <1>4, AskTypes, CloseTypes, TypesThen, TypesStay, HistoryStays DEF Refused, Quiet
<1>5. CASE Admitted(c)
  <2>1. TalkTypes'
    BY <1>0, <1>5, MoveTypes DEF Admitted, Places
  <2> QED BY <1>0, <1>5, <2>1, AskTypes, TypesThen, TypesStay, HistoryStays DEF Admitted, Quiet
<1>6. CASE Register(c)
  <2>1. MailTypes'
    BY <1>0, <1>6, TypesOf DEF Register, MailTypes
  <2>2. TalkTypes'
    BY <1>0, <1>6, MoveTypes DEF Register, Places
  <2> QED BY <1>0, <1>6, <2>1, <2>2, TypesThen, TypesStay, HistoryStays DEF Register, Quiet
<1>7. CASE \E what : Reads(c, what) /\ End(c) /\ UNCHANGED storeVars /\ Quiet
  <2>1. MailTypes'
    BY <1>0, <1>7, ReadTypes
  <2> QED BY <1>0, <1>7, <2>1, GiveTypes, CloseTypes, TypesThen, TypesStay, HistoryStays
          DEF End, Quiet
<1>8. CASE AskTimesOut(c)
  <2>1. MailTypes'
    BY <1>0, <1>8, TypesOf DEF AskTimesOut, Unregister, MailTypes
  <2> QED BY <1>0, <1>8, <2>1, GiveTypes, CloseTypes, TypesThen, TypesStay, HistoryStays
          DEF AskTimesOut, End, Quiet
<1>9. CASE PhoneGiven(c)
  <2>1. TalkTypes'
    BY <1>0, <1>9, MoveTypes DEF PhoneGiven, Places
  <2>2. MailTypes'
    BY <1>0, <1>9, ReadTypes DEF PhoneGiven
  <2> QED BY <1>0, <1>9, <2>1, <2>2, TypesThen, TypesStay, HistoryStays DEF PhoneGiven, Quiet
<1>10. CASE Queues(c)
  <2>1. TalkTypes'
    BY <1>0, <1>10, MoveTypes DEF Queues, Places
  <2>2. SlotTypes'
    BY <1>0, <1>10, TypesOf DEF Queues, SlotTypes, Join
  <2> QED BY <1>0, <1>10, <2>1, <2>2, AskTypes, TypesThen, TypesStay, HistoryStays
          DEF Queues, Quiet
<1>11. CASE Sleeps(c)
  <2>1. TalkTypes'
    BY <1>0, <1>11, TypesOf, LimiterAssumption DEF Sleeps, TalkTypes, GoTo, Places
  <2> QED BY <1>0, <1>11, <2>1, AskTypes, TypesThen, TypesStay, HistoryStays DEF Sleeps, Quiet
<1>12. CASE TurnedAway(c)
  BY <1>0, <1>12, AskTypes, CloseTypes, TypesThen, TypesStay, HistoryStays DEF TurnedAway, Quiet
<1>13. CASE Wakes(c)
  <2>1. TalkTypes'
    BY <1>0, <1>13, MoveTypes DEF Wakes, Places
  <2>2. SlotTypes'
    BY <1>0, <1>13, TypesOf DEF Wakes, SlotTypes, Join
  <2> QED BY <1>0, <1>13, <2>1, <2>2, TypesThen, TypesStay, HistoryStays DEF Wakes, Quiet
<1>14. CASE SlotTimesOut(c)
  <2>1. queue' \in Seq(Convs)
    BY <1>0, <1>14, TypesOf, TakenOut DEF SlotTimesOut, Leave, SlotTypes
  <2>2. SlotTypes'
    BY <1>0, <1>14, <2>1, TypesOf DEF SlotTimesOut, SlotTypes
  <2> QED BY <1>0, <1>14, <2>2, CloseTypes, TypesThen, TypesStay, HistoryStays
          DEF SlotTimesOut, Quiet
<1>15. CASE GetsSlot(c)
  <2>1. TalkTypes'
    BY <1>0, <1>15, MoveTypes DEF GetsSlot, Places
  <2>2. c \notin holders
    BY <1>15, HoldersHandled DEF GetsSlot, Inside
  <2>3. permits' \in Nat /\ holders' \subseteq Convs
    BY <1>15, <2>2, Taking, TypesOf, <1>0 DEF GetsSlot, SlotTypes
  <2>4. active' \in Nat
    BY <1>0, <1>15, TypesOf DEF GetsSlot, Take, SlotTypes
  <2>5. queue' \in Seq(Convs)
    BY <1>0, <1>15, TypesOf, Lines DEF GetsSlot, Take, SlotTypes
  <2>6. loggingIn' \in [Users -> BOOLEAN]
    <3>1. loggingIn' = [loggingIn EXCEPT ![UserOf[c]] = TRUE] /\ loggingIn \in [Users -> BOOLEAN]
      BY <1>0, <1>15, TypesOf DEF GetsSlot, Take, SlotTypes
    <3> QED BY <1>0, <3>1
  <2>7. SlotTypes'
    BY <2>3, <2>4, <2>5, <2>6 DEF SlotTypes
  <2>8. StampTypes'
    BY <1>0, <1>15, RecordingStamps DEF GetsSlot, Take, StampTypes
  <2>9. HistoryTypes'
    <3>1. crossed' \subseteq Users
      BY <1>0, <1>15, HistoryStays DEF GetsSlot
    <3> QED BY <1>0, <1>15, <3>1, TypesOf, LimiterAssumption DEF GetsSlot, HistoryTypes, NoGrant
  <2> QED BY <1>0, <1>15, <2>1, <2>7, <2>8, <2>9, TypesThen, TypesStay DEF GetsSlot
<1>16. CASE CodeSent(c)
  <2>1. TalkTypes'
    BY <1>0, <1>16, TypesOf DEF CodeSent, TalkTypes, GoTo, Places, Question
  <2> QED BY <1>0, <1>16, <2>1, TypesThen, TypesStay, HistoryStays DEF CodeSent, Quiet
<1>17. CASE CodeRefused(c) \/ AskFails(c)
  BY <1>0, <1>17, GiveTypes, CloseTypes, TypesThen, TypesStay, HistoryStays
     DEF CodeRefused, AskFails, End, Quiet
<1>18. CASE \E what : Reads(c, what) /\ AsksAgain(c) /\ UNCHANGED storeVars /\ Quiet
  <2>1. TalkTypes'
    <3>1. asks' \in [Convs -> [for : {"phone", "code", "password"}, failed : Nat]]
      BY <1>0, <1>18, TypesOf DEF AsksAgain, TalkTypes
    <3> QED BY <1>0, <1>18, <3>1, TypesOf DEF AsksAgain, TalkTypes, GoTo, Places
  <2>2. MailTypes'
    BY <1>0, <1>18, ReadTypes
  <2> QED BY <1>0, <1>18, <2>1, <2>2, TypesThen, TypesStay, HistoryStays DEF AsksAgain, Quiet
<1>19. CASE /\ \E what : Reads(c, what)
            /\ GoTo(c, "export") /\ UNCHANGED <<limiterVars, locals, storeVars>> /\ Quiet
  <2>1. TalkTypes'
    BY <1>0, <1>19, MoveTypes DEF Places
  <2>2. MailTypes'
    BY <1>0, <1>19, ReadTypes
  <2> QED BY <1>0, <1>19, <2>1, <2>2, TypesThen, TypesStay, HistoryStays DEF Quiet
<1>20. CASE (\E what : Reads(c, what)) /\ SignsIn(c)
  <2>1. TalkTypes'
    BY <1>0, <1>20, TypesOf DEF SignsIn, TalkTypes, GoTo, Places
  <2>2. MailTypes'
    BY <1>0, <1>20, ReadTypes
  <2> QED BY <1>0, <1>20, <2>1, <2>2, TypesThen, TypesStay, HistoryStays DEF SignsIn, Quiet
<1>21. CASE PasswordNeeded(c)
  <2>1. TalkTypes'
    BY <1>0, <1>21, TypesOf DEF PasswordNeeded, TalkTypes, GoTo, Places, Question
  <2>2. MailTypes'
    BY <1>0, <1>21, ReadTypes DEF PasswordNeeded
  <2> QED BY <1>0, <1>21, <2>1, <2>2, TypesThen, TypesStay, HistoryStays DEF PasswordNeeded, Quiet
<1>22. CASE Scanned(c)
  <2>1. TalkTypes'
    BY <1>0, <1>22, TypesOf DEF Scanned, SignsIn, TalkTypes, GoTo, Places
  <2> QED BY <1>0, <1>22, <2>1, TypesThen, TypesStay, HistoryStays DEF Scanned, SignsIn, Quiet
<1>33. CASE ScannedLocked(c)
  <2>1. TalkTypes'
    BY <1>0, <1>33, TypesOf DEF ScannedLocked, TalkTypes, GoTo, Places, Question
  <2> QED BY <1>0, <1>33, <2>1, TypesThen, TypesStay, HistoryStays DEF ScannedLocked, Quiet
<1>23. CASE NotScanned(c)
  BY <1>0, <1>23, CloseTypes, TypesThen, TypesStay, HistoryStays DEF NotScanned, Quiet
<1>24. CASE Stores(c)
  <2>1. StoreTypes'
    BY <1>0, <1>24, TypesOf DEF Stores, StoreTypes, Sessions
  <2> QED BY <1>0, <1>24, <2>1, GiveTypes, CloseTypes, TypesThen, TypesStay, HistoryStays
          DEF Stores, End, Quiet
<1>25. CASE ExportFails(c)
  BY <1>0, <1>25, GiveTypes, CloseTypes, TypesThen, TypesStay, HistoryStays
     DEF ExportFails, End, Quiet
<1>26. CASE Cancels(c)
  BY <1>7, <1>26 DEF Cancels
<1>27. CASE CodeUseless(c)
  BY <1>18, <1>19, <1>27 DEF CodeUseless
<1>28. CASE CodeInvalid(c)
  BY <1>7, <1>18, <1>28 DEF CodeInvalid
<1>29. CASE AnswerFails(c)
  BY <1>7, <1>29 DEF AnswerFails
<1>30. CASE CodeRight(c)
  BY <1>20, <1>30 DEF CodeRight
<1>31. CASE PasswordRight(c)
  BY <1>20, <1>31 DEF PasswordRight
<1>32. CASE PasswordWrong(c)
  BY <1>7, <1>18, <1>32 DEF PasswordWrong
<1> QED BY <1>1, <1>2, <1>3, <1>4, <1>5, <1>6, <1>8, <1>9, <1>10, <1>11, <1>12, <1>13, <1>14,
           <1>15, <1>16, <1>17, <1>21, <1>22, <1>23, <1>24, <1>25, <1>26, <1>27, <1>28, <1>29,
           <1>30, <1>31, <1>32, <1>33 DEF Step

-----------------------------------------------------------------------------
(* Which step is of which shape.                                           *)

\* Nobody has to wait longer when nothing is stamped, when can_login looks, or after
\* the grant of a fast login.
LEMMA Mildness ==
    ASSUME IInv, NEW u \in Users, UNCHANGED gap,
           UNCHANGED stampVars \/ Ask(u) \/ FastRelogin(u)
    PROVE  Mild
<1>1. LoginTypeOK /\ SameClock
  BY DEF IInv
<1>2. since' = since /\ \A w \in Users : attempts'[w] <= attempts[w]
  <2>1. CASE UNCHANGED stampVars
    BY <1>1, <2>1 DEF stampVars, LoginTypeOK
  <2>2. CASE Ask(u) \/ FastRelogin(u)
    BY <1>1, <2>2, AskingStamps, GrantingStamps
  <2> QED BY <2>1, <2>2
<1> QED BY <1>1, <1>2 DEF Mild, SameClock

\* Whom can_login lets go on has waited long enough, and the hour has room.
LEMMA FreeHasRoom ==
    ASSUME IInv, NEW c \in Convs, Verdict(UserOf[c]) = Free, Ask(UserOf[c])
    PROVE  Room(c)'
<1> DEFINE u == UserOf[c]
<1>0. u \in Users /\ LoginTypeOK
  BY LimiterAssumption DEF IInv
<1>1. /\ attempts[u] \in Nat /\ since[u] \in 0..UserCooldown /\ sinceHour[u] \in 0..Hour
      /\ grant[u] \in {NoGrant} \cup 0..FastWait
  BY <1>0 DEF LoginTypeOK
<1>2. Attempts(u) \in Nat
  BY <1>1 DEF Attempts
<1>3. ~loggingIn[u] /\ Attempts(u) < MaxPerHour /\ ~(UserWait(u) > 0)
  <2>1. ~loggingIn[u]
    BY DEF Verdict, Free, Never
  <2>2. Attempts(u) < MaxPerHour
    <3>1. Hour - sinceHour[u] # Free
      BY <1>1, LimiterAssumption DEF Free
    <3> QED BY <1>2, <2>1, <3>1, LimiterAssumption DEF Verdict
  <2>3. ~(UserWait(u) > 0)
    <3>1. UserWait(u) > 0 => UserWait(u) # Free
      <4>1. UserWait(u) \in Int
        BY <1>1, LimiterAssumption DEF UserWait, AtMost, AtLeast, NoGrant
      <4> QED BY <4>1 DEF Free
    <3> QED BY <1>2, <2>1, <2>2, <3>1, LimiterAssumption DEF Verdict
  <2> QED BY <2>1, <2>2, <2>3
<1>4. since[u] = UserCooldown
  BY <1>1, <1>3, LimiterAssumption DEF UserWait, AtMost, AtLeast, NoGrant
<1>5. attempts' = [attempts EXCEPT ![u] = Attempts(u)] /\ since' = since
  BY <1>3 DEF Ask, Refresh
<1> QED BY <1>0, <1>3, <1>4, <1>5 DEF Room, LoginTypeOK

\* What the invariant says of one conversation.
LEMMA OfOne ==
    ASSUME IInv, NEW c \in Convs
    PROVE  /\ pc \in [Convs -> Places] /\ kind \in [Convs -> {"phone", "qr"}]
           /\ asks \in [Convs -> [for : {"phone", "code", "password"}, failed : Nat]]
           /\ waiting \in [Users -> Convs \cup {NoOne}]
           /\ UserOf[c] \in Users /\ Fits(c)
BY LimiterAssumption DEF IInv, LoginTypeOK, AllFit

\* How a conversation that is not between acquire() and its end goes away.
LEMMA ClosingTalks ==
    ASSUME IInv, NEW c \in Convs, pc[c] \in {"probe", "check", "acquire", "scan"}, Close(c),
           Mild, Watch, UNCHANGED <<slotVars, inbox, waiting>>
    PROVE  Talk(c)
<1>1. OthersStay(c) /\ pc'[c] = "done" /\ asks'[c].for = "phone"
  BY OfOne DEF Close, GoTo, Question, OthersStay
<1>2. Fits(c)' /\ (Inside(c)' <=> Inside(c)) /\ ~LetOn(c)'
  BY <1>1 DEF Fits, Inside, LetOn, Asking
<1> QED BY <1>1, <1>2 DEF Talk, OtherFutures, Handled, Places

\* And one that is.
LEMMA EndingEnds ==
    ASSUME IInv, NEW c \in Convs, c \in Handled, pc[c] # "slot", End(c),
           Watch, UNCHANGED <<inbox, gap>>, OtherFutures(c)
    PROVE  Ending(c)
<1>1. OthersStay(c) /\ pc'[c] = "done" /\ asks'[c].for = "phone"
  BY OfOne DEF End, Close, GoTo, Question, OthersStay
<1>2. Fits(c)'
  BY <1>1 DEF Fits, Asking
<1>3. Mild
  BY OfOne, Mildness DEF End
<1> QED BY <1>1, <1>2, <1>3 DEF Ending, End

\* An answer is read: the futures of others stay.
LEMMA Reading ==
    ASSUME IInv, NEW c \in Convs, NEW what, Reads(c, what)
    PROVE  c \in Handled /\ pc[c] = "answered" /\ OtherFutures(c) /\ inbox' = inbox
BY OfOne DEF Reads, Unregister, OtherFutures, Handled

\* The conversation goes on with the answer, without a change of slots.
LEMMA ReadingTalks ==
    ASSUME IInv, NEW c \in Convs, NEW what, Reads(c, what), OthersStay(c), kind' = kind,
           \/ pc'[c] = "acquire" /\ asks' = asks /\ asks[c].for = "phone"
           \/ pc'[c] = "prompt" /\ asks'[c].for = asks[c].for
           \/ pc'[c] = "prompt" /\ asks[c].for # "phone" /\ asks'[c].for = "password"
           \/ pc'[c] = "export" /\ asks' = asks /\ asks[c].for # "phone",
           UNCHANGED <<limiterVars, gap>>, Watch
    PROVE  Talk(c)
<1>1. c \in Handled /\ pc[c] = "answered" /\ OtherFutures(c) /\ inbox' = inbox
  BY Reading
<1>2. asks[c].for # "password" => kind[c] = "phone"
  BY <1>1, OfOne DEF Fits, Asking
<1>3. Fits(c)' /\ (Inside(c)' <=> Inside(c)) /\ (LetOn(c)' => LetOn(c))
  BY <1>1, <1>2 DEF Fits, Inside, LetOn, Asking
<1>4. Mild
  BY OfOne, Mildness DEF limiterVars
<1> QED BY <1>1, <1>3, <1>4 DEF Talk, Places, limiterVars

\* Every step of a conversation keeps the invariant.
LEMMA StepKeeps ==
    ASSUME IInv, NEW c \in Convs, Step(c)
    PROVE  IInv'
<1>0. LoginTypeOK'
  BY StepTypes
<1>a. ASSUME Talk(c) PROVE IInv'
  BY <1>0, <1>a, TalkKeeps
<1>b. ASSUME Ending(c) PROVE IInv'
  BY <1>0, <1>b, EndingKeeps
<1> USE OfOne, Mildness
<1>1. CASE Enter(c)
  <2>1. OthersStay(c) /\ pc[c] = "entry" /\ pc'[c] \in {"check", "probe"}
        /\ kind' = kind /\ asks' = asks
    BY <1>1 DEF Enter, GoTo, OthersStay
  <2>2. Fits(c)' /\ (Inside(c)' <=> Inside(c)) /\ ~LetOn(c)'
    BY <2>1 DEF Fits, Inside, LetOn, Asking
  <2>3. Talk(c)
    BY <1>1, <2>1, <2>2 DEF Talk, Enter, Quiet, limiterVars, mailVars, OtherFutures, Handled, Places
  <2> QED BY <1>a, <2>3
<1>2. CASE ProbeGood(c) \/ NotScanned(c)
  BY <1>2, <1>a, ClosingTalks DEF ProbeGood, NotScanned, Quiet, limiterVars, mailVars
<1>3. CASE ProbeBad(c)
  <2>1. OthersStay(c) /\ pc[c] = "probe" /\ pc'[c] = "check" /\ kind' = kind /\ asks' = asks
    BY <1>3 DEF ProbeBad, GoTo, OthersStay
  <2>2. Fits(c)' /\ (Inside(c)' <=> Inside(c)) /\ ~LetOn(c)'
    BY <2>1 DEF Fits, Inside, LetOn, Asking
  <2>3. Talk(c)
    BY <1>3, <2>1, <2>2 DEF Talk, ProbeBad, mailVars, OtherFutures, Handled, Places
  <2> QED BY <1>a, <2>3
<1>4. CASE Refused(c) \/ TurnedAway(c)
  BY <1>4, <1>a, ClosingTalks DEF Refused, TurnedAway, Quiet, mailVars
<1>5. CASE Admitted(c)
  <2>1. OthersStay(c) /\ pc[c] = "check" /\ kind' = kind /\ asks' = asks
        /\ pc'[c] = IF kind[c] = "qr" THEN "scan" ELSE "prompt"
    BY <1>5 DEF Admitted, GoTo, OthersStay, locals
  <2>2. Fits(c)' /\ (Inside(c)' <=> Inside(c))
    BY <2>1 DEF Fits, Inside, Asking
  <2>3. Room(c)'
    BY <1>5, FreeHasRoom DEF Admitted
  <2>4. Talk(c)
    BY <1>5, <2>1, <2>2, <2>3 DEF Talk, Admitted, Quiet, mailVars, OtherFutures, Handled, Places
  <2> QED BY <1>a, <2>4
<1>6. CASE Register(c)
  <2>1. OthersStay(c) /\ pc[c] = "prompt" /\ pc'[c] = "asked" /\ kind' = kind /\ asks' = asks
        /\ OtherFutures(c) /\ waiting'[UserOf[c]] = c
    BY <1>6 DEF Register, GoTo, OthersStay, OtherFutures, locals
  <2>2. Fits(c)' /\ (Inside(c)' <=> Inside(c)) /\ (LetOn(c)' => LetOn(c))
    BY <2>1 DEF Fits, Inside, LetOn, Asking
  <2>3. Talk(c)
    BY <1>6, <2>1, <2>2 DEF Talk, Register, Quiet, limiterVars, Handled, Places
  <2> QED BY <1>a, <2>3
<1>7. ASSUME NEW what, Reads(c, what), End(c), Quiet PROVE IInv'
  <2>1. c \in Handled /\ pc[c] = "answered" /\ OtherFutures(c) /\ inbox' = inbox
    BY <1>7, Reading
  <2> QED BY <1>7, <1>b, <2>1, EndingEnds DEF Quiet
<1>8. CASE AskTimesOut(c)
  <2>1. c \in Handled /\ pc[c] = "asked" /\ OtherFutures(c) /\ inbox' = inbox
    BY <1>8 DEF AskTimesOut, Unregister, OtherFutures, Handled
  <2> QED BY <1>8, <1>b, <2>1, EndingEnds DEF AskTimesOut, Quiet
<1>9. CASE CodeRefused(c) \/ AskFails(c) \/ Stores(c) \/ ExportFails(c)
  <2>1. c \in Handled /\ pc[c] # "slot" /\ End(c) /\ Quiet /\ UNCHANGED mailVars
    BY <1>9 DEF CodeRefused, AskFails, Stores, ExportFails, Handled
  <2>2. OtherFutures(c)
    BY <2>1 DEF OtherFutures, mailVars
  <2> QED BY <1>b, <2>1, <2>2, EndingEnds DEF Quiet, mailVars
<1>10. CASE PhoneGiven(c)
  <2>1. OthersStay(c) /\ pc'[c] = "acquire" /\ kind' = kind /\ asks' = asks
    BY <1>10 DEF PhoneGiven, GoTo, OthersStay, locals
  <2> QED BY <1>10, <1>a, <2>1, ReadingTalks DEF PhoneGiven, Asked, Quiet
<1>11. CASE Queues(c) \/ Wakes(c)
  <2>1. Joining(c)
    BY <1>11 DEF Queues, Wakes, Joining, Quiet, mailVars, locals
  <2> QED BY <1>0, <2>1, JoiningKeeps
<1>12. CASE Sleeps(c)
  <2>1. OthersStay(c) /\ pc[c] = "acquire" /\ pc'[c] = "sleep" /\ kind' = kind /\ asks' = asks
    BY <1>12 DEF Sleeps, GoTo, OthersStay
  <2>2. Fits(c)' /\ (Inside(c)' <=> Inside(c)) /\ LetOn(c)
    BY <2>1 DEF Fits, Inside, LetOn, Asking
  <2>3. Talk(c)
    BY <1>12, <2>1, <2>2 DEF Talk, Sleeps, Quiet, mailVars, OtherFutures, Handled, Places
  <2> QED BY <1>a, <2>3
<1>13. CASE SlotTimesOut(c)
  BY <1>0, <1>13, LeavingKeeps
<1>14. CASE GetsSlot(c)
  BY <1>0, <1>14, GettingKeeps
<1>15. CASE CodeSent(c)
  <2>1. OthersStay(c) /\ pc[c] = "connect" /\ pc'[c] = "prompt" /\ kind' = kind
        /\ asks'[c].for = "code"
    BY <1>15 DEF CodeSent, GoTo, Question, OthersStay
  <2>2. Fits(c)' /\ (Inside(c)' <=> Inside(c)) /\ ~LetOn(c)'
    BY <2>1 DEF Fits, Inside, LetOn, Asking
  <2>3. Talk(c)
    BY <1>15, <2>1, <2>2
       DEF Talk, CodeSent, Quiet, limiterVars, mailVars, OtherFutures, Handled, Places
  <2> QED BY <1>a, <2>3
<1>16. ASSUME NEW what, Reads(c, what), AsksAgain(c), Quiet PROVE IInv'
  <2>1. OthersStay(c) /\ pc'[c] = "prompt" /\ kind' = kind /\ asks'[c].for = asks[c].for
    BY <1>16 DEF AsksAgain, GoTo, OthersStay
  <2> QED BY <1>16, <1>a, <2>1, ReadingTalks DEF AsksAgain, Quiet
<1>17. ASSUME NEW what, Reads(c, what), asks[c].for # "phone", GoTo(c, "export"), Quiet,
              UNCHANGED <<limiterVars, kind, asks>>
       PROVE  IInv'
  <2>1. OthersStay(c) /\ pc'[c] = "export"
    BY <1>17 DEF GoTo, OthersStay
  <2> QED BY <1>17, <1>a, <2>1, ReadingTalks DEF Quiet
<1>18. CASE PasswordNeeded(c)
  <2>1. OthersStay(c) /\ pc'[c] = "prompt" /\ kind' = kind /\ asks'[c].for = "password"
    BY <1>18 DEF PasswordNeeded, GoTo, Question, OthersStay
  <2> QED BY <1>18, <1>a, <2>1, ReadingTalks DEF PasswordNeeded, Asked, Quiet
<1>19. CASE Scanned(c)
  <2>1. OthersStay(c) /\ pc[c] = "scan" /\ pc'[c] = "export" /\ kind' = kind /\ asks' = asks
    BY <1>19 DEF Scanned, SignsIn, GoTo, OthersStay
  <2>2. Fits(c)' /\ (Inside(c)' <=> Inside(c)) /\ ~LetOn(c)'
    BY <2>1 DEF Fits, Inside, LetOn, Asking
  <2>3. Talk(c)
    BY <1>19, <2>1, <2>2
       DEF Talk, Scanned, SignsIn, Quiet, limiterVars, mailVars, OtherFutures, Handled, Places
  <2> QED BY <1>a, <2>3
<1>24. CASE ScannedLocked(c)
  <2>1. OthersStay(c) /\ pc[c] = "scan" /\ pc'[c] = "prompt" /\ kind' = kind
        /\ asks'[c].for = "password"
    BY <1>24 DEF ScannedLocked, GoTo, Question, OthersStay
  <2>2. kind[c] = "qr"
    BY <2>1 DEF IInv, AllFit, Fits
  <2>3. Fits(c)' /\ (Inside(c)' <=> Inside(c)) /\ ~LetOn(c)'
    BY <2>1, <2>2 DEF Fits, Inside, LetOn, Asking
  <2>4. Talk(c)
    BY <1>24, <2>1, <2>3
       DEF Talk, ScannedLocked, Quiet, limiterVars, mailVars, OtherFutures, Handled, Places
  <2> QED BY <1>a, <2>4
<1>20. CASE Cancels(c) \/ AnswerFails(c)
  BY <1>7, <1>20 DEF Cancels, AnswerFails
<1>21. CASE CodeUseless(c)
  BY <1>16, <1>17, <1>21 DEF CodeUseless, Asked, locals
<1>22. CASE CodeInvalid(c) \/ PasswordWrong(c)
  BY <1>7, <1>16, <1>22 DEF CodeInvalid, PasswordWrong
<1>23. CASE CodeRight(c) \/ PasswordRight(c)
  BY <1>17, <1>23 DEF CodeRight, PasswordRight, SignsIn, Asked
<1> QED BY <1>1, <1>2, <1>3, <1>4, <1>5, <1>6, <1>8, <1>9, <1>10, <1>11, <1>12, <1>13, <1>14,
           <1>15, <1>18, <1>19, <1>20, <1>21, <1>22, <1>23, <1>24 DEF Step

\* Users, links and time keep it.
LEMMA OthersKeep ==
    ASSUME IInv,
           \/ \E u \in Users, what \in {"text", "command"} : UserSends(u, what)
           \/ TakeUpdate
           \/ \E u \in Linkers : LinkBegins(u) \/ LinkEnds(u) \/ LinkRejected(u)
           \/ Tick
    PROVE  IInv'
<1>0. LoginTypeOK /\ SameClock
  BY DEF IInv
<1> USE TypesOf, TypesStay, TypesThen, HistoryStays
<1>1. ASSUME NEW u \in Users, NEW what \in {"text", "command"}, UserSends(u, what) PROVE IInv'
  <2> DEFINE x == [from |-> u, what |-> what, conv |-> NoOne]
  <2>1. x \in Update /\ x.conv = NoOne
    BY DEF Update
  <2>2. inbox' = Append(inbox, x)
    BY <1>1 DEF UserSends
  <2> HIDE DEF x
  <2>3. MailTypes'
    BY <1>0, <1>1, <2>1, <2>2, Lines DEF MailTypes, UserSends
  <2>4. LoginTypeOK'
    BY <1>0, <1>1, <2>3 DEF UserSends, Quiet
  <2>5. InboxFits'
    BY <1>1, <2>1, <2>2, SendingFits DEF UserSends, talkVars
  <2> QED BY <1>1, <2>4, <2>5, Mildness, StillKeeps
          DEF UserSends, Quiet, limiterVars, talkVars, locals
<1>2. CASE TakeUpdate
  <2>0. inbox \in Seq(Update) /\ inbox # <<>> /\ Head(inbox) \in Update /\ Tail(inbox) \in Seq(Update)
    BY <1>0, <1>2 DEF MailTypes, TakeUpdate
  <2>a. Head(inbox).what \in {"text", "command"}
    BY <2>0 DEF Update
  <2>1. MailTypes'
    BY <1>0, <1>2, <2>0, <2>a DEF MailTypes, TakeUpdate
  <2>2. TalkTypes'
    BY <1>0, <1>2 DEF TalkTypes, TakeUpdate, locals, Places
  <2>3. LoginTypeOK'
    BY <1>0, <1>2, <2>1, <2>2 DEF TakeUpdate, Quiet
  <2> QED BY <1>2, <2>3, TakingKeeps
<1>3. ASSUME NEW u \in Linkers, LinkBegins(u) \/ LinkEnds(u) PROVE IInv'
  <2>1. /\ UNCHANGED <<limiterVars, mailVars, stored, talkVars>> /\ Quiet
        /\ held' \in [Users -> Sessions \cup {NoOne}]
    BY <1>0, <1>3, LoginAssumption DEF LinkBegins, LinkEnds, StoreTypes
  <2>2. LoginTypeOK'
    BY <1>0, <2>1 DEF StoreTypes, Quiet
  <2>3. InboxFits'
    BY <2>1 DEF IInv, InboxFits, mailVars, talkVars
  <2> QED BY <2>1, <2>2, <2>3, Mildness, StillKeeps, LoginAssumption
          DEF Quiet, limiterVars, mailVars, talkVars, locals
<1>4. ASSUME NEW u \in Linkers, LinkRejected(u) PROVE IInv'
  <2>0. u \in Users
    BY LoginAssumption
  <2>1. StampTypes'
    BY <1>0, <1>4, <2>0, GrantingStamps DEF LinkRejected, StampTypes
  <2>2. StoreTypes'
    BY <1>0, <1>4, <2>0, ClearTypes DEF LinkRejected, StoreTypes
  <2>3. HistoryTypes'
    <3>1. crossed' \subseteq Users
      BY <1>0, <1>4 DEF LinkRejected
    <3>2. promise' \in [Users -> {NoGrant} \cup 0..FastWait]
      BY <1>0, <1>4, <2>0, PromiseTypes DEF LinkRejected
    <3> QED BY <1>0, <1>4, <3>1, <3>2 DEF LinkRejected, HistoryTypes
  <2>4. LoginTypeOK'
    BY <1>0, <1>4, <2>1, <2>2, <2>3 DEF LinkRejected
  <2>5. InboxFits'
    BY <1>4 DEF LinkRejected, IInv, InboxFits, mailVars, talkVars
  <2> QED BY <1>4, <2>0, <2>4, <2>5, Mildness, StillKeeps
          DEF LinkRejected, mailVars, talkVars, locals
<1>5. CASE Tick
  <2>1. StampTypes'
    BY <1>0, <1>5, AgeingStamps DEF Tick, StampTypes
  <2>2. TalkTypes'
    BY <1>0, <1>5 DEF Tick, TalkTypes, AtLeast
  <2>3. HistoryTypes'
    BY <1>0, <1>5, LimiterAssumption DEF Tick, HistoryTypes, AtLeast, AtMost, NoGrant
  <2>4. LoginTypeOK'
    BY <1>0, <1>5, <2>1, <2>2, <2>3 DEF Tick
  <2>5. InboxFits'
    BY <1>5 DEF Tick, IInv, InboxFits, mailVars
  <2>6. Mild
    <3>1. gap' = since'
      BY <1>0, <1>5 DEF Tick, Older, SameClock
    <3>2. \A u \in Users : since[u] = UserCooldown => since'[u] = UserCooldown
      BY <1>5, LimiterAssumption DEF Tick, Older, AtMost
    <3>3. \A u \in Users : attempts'[u] <= attempts[u]
      BY <1>0, <1>5 DEF Tick, Older, StampTypes
    <3> QED BY <3>1, <3>2, <3>3 DEF Mild, SameClock
  <2> QED BY <1>5, <2>4, <2>5, <2>6, StillKeeps DEF Tick, mailVars
<1> QED BY <1>1, <1>2, <1>3, <1>4, <1>5

-----------------------------------------------------------------------------
(* Theorems.                                                               *)

LEMMA LoginInitInv == LoginInit => IInv
<1> SUFFICES ASSUME LoginInit PROVE IInv
  OBVIOUS
<1> USE DEF LoginInit, LimiterInit
<1>1. LoginTypeOK
  <2>1. SlotTypes /\ StampTypes
    BY LimiterAssumption DEF SlotTypes, StampTypes, NoGrant
  <2>2. MailTypes /\ TalkTypes
    BY DEF MailTypes, TalkTypes, Places, Question
  <2>3. StoreTypes /\ HistoryTypes
    BY LimiterAssumption DEF StoreTypes, HistoryTypes, Sessions, NoGrant
  <2> QED BY <2>1, <2>2, <2>3, TypesOf
<1>2. SlotsExact
  <2>1. Cardinality({}) = 0
    BY FS_EmptySet
  <2> QED BY <2>1, LimiterAssumption DEF SlotsExact, Inside
<1>3. AllFit /\ QueueFits /\ InboxFits
  BY DEF AllFit, Fits, QueueFits, InboxFits, Question, Asking
<1>4. CrossSeen /\ FlagTrue /\ QuestionHeard
  BY DEF CrossSeen, FlagTrue, QuestionHeard, Handled
<1>5. AllRoom /\ HourlyLimit /\ SameClock
  BY LimiterAssumption DEF AllRoom, LetOn, HourlyLimit, SameClock, Asking
<1> QED BY <1>1, <1>2, <1>3, <1>4, <1>5 DEF IInv

LEMMA LoginNextInv == IInv /\ [LoginNext]_loginVars => IInv'
<1> SUFFICES ASSUME IInv, [LoginNext]_loginVars PROVE IInv'
  OBVIOUS
<1>1. ASSUME NEW c \in Convs, Step(c) PROVE IInv'
  BY <1>1, StepKeeps
<1>2. ASSUME NEW c \in Convs, NEW how \in {"phone", "qr"}, UserLogsIn(c, how) PROVE IInv'
  <2>1. MailTypes'
    <3>1. [from |-> UserOf[c], what |-> "command", conv |-> c] \in Update
      BY LimiterAssumption DEF Update
    <3> QED BY <1>2, <3>1, TypesOf, Lines DEF IInv, UserLogsIn, MailTypes
  <2>2. TalkTypes'
    BY <1>2, TypesOf DEF IInv, UserLogsIn, TalkTypes, GoTo, Places
  <2>3. LoginTypeOK'
    BY <1>2, <2>1, <2>2, TypesThen, TypesStay, HistoryStays DEF IInv, UserLogsIn, Quiet
  <2> QED BY <1>2, <2>3, LogInKeeps
<1>3. CASE UNCHANGED loginVars
  <2>1. UNCHANGED <<slotVars, stampVars, mailVars, storeVars, talkVars, crossed, promise, gap>>
    BY <1>3 DEF loginVars, limiterVars
  <2>2. LoginTypeOK'
    BY <2>1, TypesOf, TypesThen, TypesStay DEF IInv, HistoryTypes
  <2>3. Mild
    BY <2>1 DEF IInv, Mild, SameClock, stampVars, LoginTypeOK
  <2>4. InboxFits'
    BY <2>1 DEF IInv, InboxFits, mailVars, talkVars
  <2>5. Watch
    BY <2>1 DEF IInv, CrossSeen, Watch, Handled, Of, talkVars
  <2> QED BY <2>1, <2>2, <2>3, <2>4, <2>5, StillKeeps DEF mailVars, talkVars, locals
<1> QED BY <1>1, <1>2, <1>3, OthersKeep DEF LoginNext

LEMMA LoginInvariant == LoginSpec => []IInv
BY LoginInitInv, LoginNextInv, PTL DEF LoginSpec

\* The limiter, the conversations, the stores and the inbox always hold values of
\* their types.
THEOREM TypeCorrect == LoginSpec => []LoginTypeOK
<1>1. IInv => LoginTypeOK
  BY DEF IInv
<1> QED BY <1>1, LoginInvariant, PTL

\* Whichever way logins end, with any limits: the slots that are out and those that
\* are left make up the limit, and nobody is told for good that he is logging in
\* (acquire() and its finally).
THEOREM NoLoginSlotLeaks == LoginSpec => []SlotsSound
<1>1. IInv => SlotsSound
  BY DEF IInv, SlotsSound
<1> QED BY <1>1, LoginInvariant, PTL

\* A user who has one conversation at a time is heard whenever he is asked
\* (ask_message, _response_handler).
THEOREM AnswersAreHeard == LoginSpec => []QuestionHeard
<1>1. IInv => QuestionHeard
  BY DEF IInv
<1> QED BY <1>1, LoginInvariant, PTL

\* What a step does to the slots and their queue.
LEMMA SlotSteps ==
    ASSUME IInv, [LoginNext]_loginVars
    PROVE  \/ UNCHANGED <<queue, holders>>
           \/ \E c \in Convs : Joining(c)
           \/ \E c \in Convs : GetsSlot(c)
           \/ \E c \in Convs : SlotTimesOut(c)
           \/ \E c \in holders : queue' = queue /\ holders' = holders \ {c}
<1>1. ASSUME NEW c \in Convs, Step(c), ~SlotTimesOut(c), ~GetsSlot(c)
      PROVE  UNCHANGED <<queue, holders>> \/ Joining(c) \/ (Give(c) /\ queue' = queue)
  <2>1. CASE Queues(c) \/ Wakes(c)
    BY <2>1, OfOne, Mildness DEF Queues, Wakes, Joining, Quiet, mailVars, locals
  <2>2. CASE CodeUseless(c) \/ CodeInvalid(c) \/ PasswordWrong(c)
    BY <2>2 DEF CodeUseless, CodeInvalid, PasswordWrong, AsksAgain, End, limiterVars, slotVars
  <2>3. CASE Cancels(c) \/ AnswerFails(c) \/ AskFails(c) \/ AskTimesOut(c) \/ CodeRefused(c)
             \/ Stores(c) \/ ExportFails(c)
    BY <2>3 DEF Cancels, AnswerFails, AskFails, AskTimesOut, CodeRefused, Stores, ExportFails, End
  <2>4. CASE Enter(c) \/ ProbeGood(c) \/ ProbeBad(c) \/ Refused(c) \/ Admitted(c)
             \/ Register(c) \/ PhoneGiven(c) \/ Sleeps(c) \/ TurnedAway(c) \/ CodeSent(c)
             \/ NotScanned(c)
    BY <2>4 DEF Enter, ProbeGood, ProbeBad, Refused, Admitted, Register, PhoneGiven, Sleeps,
                TurnedAway, CodeSent, NotScanned, limiterVars, slotVars
  <2>5. CASE CodeRight(c) \/ PasswordRight(c) \/ PasswordNeeded(c) \/ Scanned(c)
             \/ ScannedLocked(c)
    BY <2>5 DEF CodeRight, PasswordRight, PasswordNeeded, Scanned, ScannedLocked, SignsIn,
                limiterVars, slotVars
  <2> QED BY <1>1, <2>1, <2>2, <2>3, <2>4, <2>5 DEF Step
<1>2. ASSUME NEW c \in Convs, Step(c), ~SlotTimesOut(c), ~GetsSlot(c)
      PROVE  \/ UNCHANGED <<queue, holders>>
             \/ Joining(c)
             \/ c \in holders /\ queue' = queue /\ holders' = holders \ {c}
  BY <1>1, <1>2 DEF Give
<1>3. CASE ~\E c \in Convs : Step(c)
  BY <1>3 DEF LoginNext, UserLogsIn, UserSends, TakeUpdate, LinkBegins, LinkEnds, LinkRejected,
              Tick, loginVars, limiterVars, slotVars
<1> QED BY <1>2, <1>3

\* A user who has one conversation at a time keeps to the hourly limit, and his
\* attempts are a cooldown apart, although can_login asks before the questions and the
\* attempt is counted after them.
THEOREM LimitsAreKept == LoginSpec => LimitsKept
<1>1. IInv /\ IInv' /\ [LoginNext]_loginVars
        => [/\ HourlyLimit'
            /\ \A c \in holders' \ holders :
                  LET u == UserOf[c]
                  IN  u \in crossed' \/ gap[u] >= UserCooldown \/ promise[u] = 0]_loginVars
  <2> SUFFICES ASSUME IInv, IInv', LoginNext, NEW c \in holders' \ holders,
                      UserOf[c] \notin crossed'
               PROVE  gap[UserOf[c]] >= UserCooldown
    BY DEF IInv
  <2>1. c \in Convs /\ Inside(c)' /\ ~Inside(c)
    BY DEF IInv, SlotsExact, LoginTypeOK
  <2>2. PICK d \in Convs : GetsSlot(d)
    BY SlotSteps DEF Joining, SlotTimesOut
  <2>3. d = c /\ pc[c] = "slot"
    BY <2>2 DEF GetsSlot, Take
  <2>4. UserOf[c] \notin crossed
    BY <2>2, Watching DEF GetsSlot, IInv
  <2> QED BY <2>1, <2>3, <2>4, LimiterAssumption DEF IInv, AllRoom, LetOn, Room, SameClock
<1> QED BY <1>1, LoginInvariant, PTL DEF LoginSpec, LimitsKept

\* The limiter implements a set of MaxConcurrent slots with a queue: whoever is let in
\* is the first of those who wait, and there is room for him (asyncio.Semaphore as
\* acquire() uses it).
THEOREM LimiterIsSlotQueue == LoginSpec => SlotsInOrder
<1>1. LoginInit => Slots!SlotQueueInit
  BY DEF LoginInit, LimiterInit, Slots!SlotQueueInit
<1>2. IInv /\ [LoginNext]_loginVars => [Slots!SlotQueueNext]_Slots!slotQueueVars
  <2> SUFFICES ASSUME IInv, [LoginNext]_loginVars
               PROVE  Slots!SlotQueueNext \/ UNCHANGED <<queue, holders>>
    BY DEF Slots!slotQueueVars
  <2>0. \A c \in Convs : c \in holders <=> Inside(c)
    BY HoldersHandled
  <2>1. ASSUME NEW c \in Convs, Joining(c) PROVE Slots!Arrive(c)
    <3>1. ~Slots!Waits(c)
      BY <2>1 DEF Joining, Slots!Waits, IInv, QueueFits
    <3>2. c \notin holders
      BY <2>0, <2>1 DEF Joining, Inside
    <3> QED BY <2>1, <3>1, <3>2 DEF Joining, Join, Slots!Arrive
  <2>2. ASSUME NEW c \in Convs, GetsSlot(c) PROVE Slots!LetIn(c)
    <3>1. c \notin holders
      BY <2>0, <2>2 DEF GetsSlot, Inside
    <3>2. Cardinality(holders) < MaxConcurrent
      BY <2>2, <3>1, Taking DEF GetsSlot
    <3>3. /\ queue # <<>> /\ Head(queue) = c
          /\ queue' = Tail(queue) /\ holders' = holders \cup {c}
      BY <2>2 DEF GetsSlot, Take
    <3>4. Slots!Cardinality(holders) = Cardinality(holders)
      BY DEF Slots!Cardinality, Cardinality
    <3> QED BY <3>2, <3>3, <3>4 DEF Slots!LetIn
  <2>3. ASSUME NEW c \in Convs, SlotTimesOut(c) PROVE Slots!GiveUpWaiting(c)
    BY <2>3 DEF SlotTimesOut, Leave, Without, Slots!GiveUpWaiting, Slots!Without
  <2>4. ASSUME NEW c \in holders, queue' = queue, holders' = holders \ {c}
        PROVE  c \in Convs /\ Slots!GoOut(c)
    BY <2>4 DEF Slots!GoOut, IInv, LoginTypeOK
  <2> QED BY <2>1, <2>2, <2>3, <2>4, SlotSteps DEF Slots!SlotQueueNext
<1> QED BY <1>1, <1>2, LoginInvariant, PTL DEF LoginSpec, SlotsInOrder, Slots!SlotQueueSpec

=============================================================================
