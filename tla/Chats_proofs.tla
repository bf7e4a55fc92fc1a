---------------------------- MODULE Chats_proofs ----------------------------
(***************************************************************************)
(* What the bot does with whole chats.                                     *)
(*                                                                         *)
(* The broadcast: whoever the databases list, however many attempts a      *)
(* recipient has, and whatever goes wrong, is banned or is stopped         *)
(* meanwhile.                                                              *)
(*                                                                         *)
(* The forwarding of a channel: any posts and albums, any orders of the    *)
(* owner, any troubles and restarts.                                       *)
(*                                                                         *)
(* The chat log: any messages, users, policies and orders, and whatever    *)
(* becomes of the calls, the process and the server.                       *)
(*                                                                         *)
(* The extraction of a topic: any messages of any topics, any requests at  *)
(* the same time, any length of a page, whatever Search does not find, and *)
(* whatever arrives and vanishes meanwhile.                                *)
(***************************************************************************)
EXTENDS Broadcast, ChannelForward, ChatLog, TopicExtractor, FiniteSetTheorems, WellFoundedInduction,
        TLAPS

\* The stages in which a recipient has its turn.
Serving == {"gate", "send", "backoff", "next"}

\* The users of the rows that were read.
RowsSeen == {Rows[k] : k \in 1..(row - 1)}

\* Whose copy was acknowledged.
Acknowledged == {u \in Users : got[u] > lost[u]}

CastTypes ==
    /\ stage \in {"idle", "hello", "rows", "turn", "gate", "send", "backoff", "next", "closing", "ended"}
    /\ people \in Seq(Users) /\ turn \in Nat \ {0} /\ turn <= Len(people) + 1
    /\ row \in 1..(Len(Rows) + 1) /\ tries \in 0..MaxAttempts
    /\ tally \in [{"successful", "failed", "skipped"} -> Nat] /\ excluded \in Nat /\ after \in Nat
    /\ cancel \in BOOLEAN /\ whole \in BOOLEAN /\ flood \in BOOLEAN /\ covered \in BOOLEAN
    /\ barred \subseteq Users /\ met \subseteq Users
    /\ got \in [Users -> Nat] /\ lost \in [Users -> Nat]
    /\ quota \in [jobs : Nat, stops : Nat, bans : Nat, errors : Nat]

\* Recipients are users of the rows read so far, each taken once.
Selected ==
    /\ \A i, j \in DOMAIN people : people[i] = people[j] => i = j
    /\ \A i \in DOMAIN people : people[i] \in RowsSeen
    /\ IsFiniteSet(RowsSeen) /\ Len(people) + excluded <= Cardinality(RowsSeen)

\* Everybody before the one whose turn it is is counted once at most, and exactly once
\* while nobody has cancelled.
Counts ==
    /\ stage \in {"idle", "hello", "rows"} => turn = 1
    /\ stage \in Serving => turn <= Len(people) /\ tries > 0
    /\ stage \notin {"closing", "ended"} => Processed <= turn - 1
    /\ stage \in {"closing", "ended"} => Processed <= Len(people)
    /\ ~cancel /\ stage \notin {"closing", "ended"} => Processed = turn - 1
    /\ stage = "next" => cancel
    /\ ~cancel /\ stage \in Serving \cup {"turn"} => whole
    /\ status = "completed" =>
          stage \in {"closing", "ended"} /\ Processed = Len(people) /\ whole

\* Copies went to those who had their turn, and to the one who has it.
Copies ==
    /\ \A u \in Users : lost[u] <= got[u] /\ got[u] <= lost[u] + 1
    /\ \A u \in Users : got[u] > 0 =>
          \E i \in DOMAIN people : people[i] = u /\ i <= turn
    /\ \A i \in DOMAIN people : i >= turn => got[people[i]] = lost[people[i]]
    /\ stage \in {"idle", "hello", "rows", "turn"} =>
          \A i \in DOMAIN people : i >= turn => got[people[i]] = 0
    /\ \A u \in met : got[u] = 0 /\ \E i \in DOMAIN people : people[i] = u /\ i < turn
    /\ IsFiniteSet(Acknowledged) /\ tally.successful = Cardinality(Acknowledged)

\* A recipient receives one copy an attempt at most.
Tried ==
    /\ stage \in {"gate", "send"} => got[Recipient] < tries
    /\ stage = "backoff" => got[Recipient] <= tries /\ tries < MaxAttempts
    /\ \A u \in Users : got[u] <= MaxAttempts

\* Once cancelled, a job that could still send has sent nothing since.
Stopping ==
    /\ after <= 1
    /\ stage \in {"gate", "send"} \/ ~cancel => after = 0

CastInv == CastTypes /\ Selected /\ Counts /\ Copies /\ Tried /\ Stopping

\* The tallies, which are a record of counters.
TallyType == [{"successful", "failed", "skipped"} -> Nat]

\* One more in one of the counters.
LEMMA OneMore ==
    ASSUME tally \in TallyType, NEW what \in {"successful", "failed", "skipped"},
           tally' = [tally EXCEPT ![what] = @ + 1]
    PROVE  /\ tally' \in TallyType /\ Processed' = Processed + 1
           /\ tally'.successful = tally.successful + (IF what = "successful" THEN 1 ELSE 0)
BY DEF TallyType, Processed

\* What a step may spend.
LEMMA QuotaStep ==
    ASSUME quota \in [jobs : Nat, stops : Nat, bans : Nat, errors : Nat], [CastNext]_castVars
    PROVE  quota' \in [jobs : Nat, stops : Nat, bans : Nat, errors : Nat]
<1>1. ASSUME NEW what \in {"jobs", "stops", "bans", "errors"}, Spend(what)
      PROVE  quota' \in [jobs : Nat, stops : Nat, bans : Nat, errors : Nat]
  BY <1>1 DEF Spend
<1>2. CASE UNCHANGED quota
  BY <1>2
<1> QED BY <1>1, <1>2
       DEF CastNext, Run, Start, Hello, Row, RowsEnd, RowsFail, Turn, TurnsEnd, PassedOver,
           GatePasses, Sent, Refused, Halted, Flooded, Transient, Backoff, Close, CancelJob, Kill,
           ProgressFlooded, FloodEnds, Ban, castVars

\* What is selected changes with the rows only.
LEMMA SelectionStays ==
    ASSUME [CastNext]_castVars, ~Start, ~Row
    PROVE  UNCHANGED <<row, people, excluded>>
BY DEF CastNext, Run, Hello, RowsEnd, RowsFail, Turn, TurnsEnd, PassedOver,
       GatePasses, Sent, Refused, Halted, Flooded, Transient, Backoff, Close, CancelJob, Kill,
       ProgressFlooded, FloodEnds, Ban, castVars, recipients

\* Whoever is counted passes the turn on, unless the broadcast is halted; a turn passes
\* uncounted only when the job was cancelled in a wait.
LEMMA CountStep ==
    ASSUME [CastNext]_castVars, ~Start
    PROVE  \/ UNCHANGED <<turn, tally>>
           \/ /\ tally' = [tally EXCEPT !["failed"] = @ + 1] /\ turn' = turn
              /\ stage = "send" /\ stage' = "closing"
           \/ /\ turn' = turn + 1 /\ stage' = "turn"
              /\ \/ stage = "next" /\ tally' = tally
                 \/ /\ stage = "turn" /\ turn <= Len(people)
                    /\ tally' = [tally EXCEPT !["skipped"] = @ + 1]
                 \/ /\ stage = "send"
                    /\ \E what \in {"successful", "failed", "skipped"} :
                          tally' = [tally EXCEPT ![what] = @ + 1]
BY DEF CastNext, Run, Hello, Row, RowsEnd, RowsFail, Turn, TurnsEnd, PassedOver,
       GatePasses, Sent, Refused, Halted, Flooded, Transient, Backoff, Close, CancelJob, Kill,
       ProgressFlooded, FloodEnds, Ban, castVars, recipients, Counted, Finish, ToGate

\* How attempts are counted: one more whenever the gate is entered again.
LEMMA TriesStep ==
    ASSUME [CastNext]_castVars, ~Start
    PROVE  /\ \/ tries' = tries \/ tries' = 1
              \/ tries' = tries + 1 /\ (stage = "backoff" \/ (stage = "send" /\ tries # MaxAttempts))
           /\ stage' = "gate" =>
                 \/ stage = "gate" /\ tries' = tries
                 \/ stage = "turn" /\ tries' = 1 /\ ~cancel
                 \/ stage \in {"send", "backoff"} /\ tries' = tries + 1 /\ ~cancel
           /\ stage' = "send" => stage \in {"gate", "send"} /\ tries' = tries
           /\ stage' = "backoff" =>
                 tries' = tries /\ (stage = "backoff" \/ (stage = "send" /\ tries # MaxAttempts))
<1> USE DEF ToGate, Counted, Finish, WaitCut, CastNext, Run, Start, Hello, Row, RowsEnd, RowsFail, Turn, TurnsEnd, PassedOver,
           GatePasses, Sent, Refused, Halted, Flooded, Transient, Backoff, Close, CancelJob, Kill,
           ProgressFlooded, FloodEnds, Ban, castVars, recipients, castHistory
<1>1. \/ tries' = tries \/ tries' = 1
      \/ tries' = tries + 1 /\ (stage = "backoff" \/ (stage = "send" /\ tries # MaxAttempts))
  OBVIOUS
<1>2. stage' = "gate" =>
          \/ stage = "gate" /\ tries' = tries
          \/ stage = "turn" /\ tries' = 1 /\ ~cancel
          \/ stage \in {"send", "backoff"} /\ tries' = tries + 1 /\ ~cancel
  OBVIOUS
<1>3. stage' = "send" => stage \in {"gate", "send"} /\ tries' = tries
  OBVIOUS
<1>4. stage' = "backoff" =>
          tries' = tries /\ (stage = "backoff" \/ (stage = "send" /\ tries # MaxAttempts))
  OBVIOUS
<1> QED BY ONLY <1>1, <1>2, <1>3, <1>4

\* Who is met: the recipient whose turn it is, if banned, and then the turn passes.
LEMMA MetStep ==
    ASSUME [CastNext]_castVars, ~Start
    PROVE  \/ met' = met
           \/ /\ stage = "turn" /\ turn <= Len(people) /\ turn' = turn + 1
              /\ met' = met \cup {Recipient} /\ UNCHANGED <<got, lost, people>>
BY DEF ToGate, Counted, Finish, Unsent, CastNext, Run, Start, Hello, Row, RowsEnd, RowsFail, Turn, TurnsEnd, PassedOver,
           GatePasses, Sent, Refused, Halted, Flooded, Transient, Backoff, Close, CancelJob, Kill,
           ProgressFlooded, FloodEnds, Ban, castVars, recipients, castHistory

\* The deliveries of a step: none, or one to the recipient whose send is on its way.
Delivers ==
    /\ stage = "send" /\ got' = [got EXCEPT ![Recipient] = @ + 1]
    /\ \/ /\ lost' = lost /\ stage' = "turn" /\ turn' = turn + 1
          /\ tally' = [tally EXCEPT !["successful"] = @ + 1]
       \/ /\ lost' = [lost EXCEPT ![Recipient] = @ + 1]
          /\ \/ UNCHANGED <<tally, turn>> /\ stage' \in {"backoff", "closing"}
             \/ /\ tally' = [tally EXCEPT !["failed"] = @ + 1]
                /\ stage' = "turn" /\ turn' = turn + 1
    /\ after' = (IF cancel THEN after + 1 ELSE after) /\ UNCHANGED <<met, cancel>>

LEMMA DeliveryStep ==
    ASSUME [CastNext]_castVars, ~Start
    PROVE  \/ UNCHANGED <<got, lost, after>>
              /\ \/ tally' = tally
                 \/ \E what \in {"skipped", "failed"} : tally' = [tally EXCEPT ![what] = @ + 1]
           \/ Delivers
BY DEF Delivers, Reaches, Unsent, Finish, Counted, ToGate, CastNext, Run, Start, Hello, Row, RowsEnd, RowsFail, Turn, TurnsEnd, PassedOver,
           GatePasses, Sent, Refused, Halted, Flooded, Transient, Backoff, Close, CancelJob, Kill,
           ProgressFlooded, FloodEnds, Ban, castVars, recipients, castHistory

\* The types are kept.
LEMMA CastTypesStep == ASSUME CastInv, [CastNext]_castVars PROVE CastTypes'
<1>1. quota' \in [jobs : Nat, stops : Nat, bans : Nat, errors : Nat]
  BY QuotaStep DEF CastInv, CastTypes
<1>2. CASE Start
  <2>1. people' \in Seq(Users) /\ row' \in 1..(Len(Rows) + 1) /\ turn' \in Nat \ {0}
        /\ turn' <= Len(people') + 1 /\ tries' \in 0..MaxAttempts /\ excluded' \in Nat
    BY <1>2, BroadcastAssumption DEF Start
  <2>2. tally' \in [{"successful", "failed", "skipped"} -> Nat]
    BY <1>2 DEF Start, NoTally
  <2>3. got' \in [Users -> Nat] /\ lost' \in [Users -> Nat]
    BY <1>2 DEF Start
  <2> QED BY <1>1, <1>2, <2>1, <2>2, <2>3 DEF Start, CastInv, CastTypes
<1>3. CASE ~Start
  <2>1. tally' \in [{"successful", "failed", "skipped"} -> Nat]
    BY <1>3, CountStep, OneMore DEF TallyType, CastInv, CastTypes
  <2>2. people' \in Seq(Users) /\ row' \in 1..(Len(Rows) + 1) /\ excluded' \in Nat
        /\ Len(people') >= Len(people) /\ Len(people) \in Nat /\ Len(people') \in Nat
    <3>1. CASE Row
      <4>1. Rows[row] \in Users /\ people \in Seq(Users) /\ row \in Nat /\ excluded \in Nat
        BY <3>1, BroadcastAssumption DEF Row, CastInv, CastTypes
      <4>2. people' = people \/ people' = Append(people, Rows[row])
        BY <3>1 DEF Row
      <4>3. row <= Len(Rows) /\ row' = row + 1 /\ (excluded' = excluded \/ excluded' = excluded + 1)
        BY <3>1 DEF Row
      <4>4. row' \in 1..(Len(Rows) + 1) /\ excluded' \in Nat
        BY <4>1, <4>3, BroadcastAssumption
      <4>5. people' \in Seq(Users) /\ Len(people') >= Len(people)
        BY <4>1, <4>2
      <4> QED BY <4>1, <4>4, <4>5
    <3> QED BY <3>1, <1>3, SelectionStays DEF CastInv, CastTypes
  <2>3. turn' \in Nat \ {0} /\ turn' <= Len(people') + 1
    <3>1. stage \in Serving => turn <= Len(people)
      BY DEF CastInv, Counts
    <3>2. turn \in Nat \ {0} /\ turn <= Len(people) + 1
      BY DEF CastInv, CastTypes
    <3> QED BY <2>2, <3>1, <3>2, <1>3, CountStep DEF Serving
  <2>4. tries' \in 0..MaxAttempts
    <3>1. tries \in 0..MaxAttempts /\ MaxAttempts \in Nat \ {0} /\ (stage = "backoff" => tries < MaxAttempts)
      BY BroadcastAssumption DEF CastInv, CastTypes, Tried
    <3> QED BY <1>3, <3>1, TriesStep
  <2>5. stage = "send" => Recipient \in Users
    BY DEF CastInv, CastTypes, Counts, Serving, Recipient
  <2>6. got' \in [Users -> Nat] /\ lost' \in [Users -> Nat] /\ after' \in Nat
    <3>1. got \in [Users -> Nat] /\ lost \in [Users -> Nat] /\ after \in Nat
      BY DEF CastInv, CastTypes
    <3>2. UNCHANGED <<got, lost, after>> \/ Delivers
      BY <1>3, DeliveryStep
    <3> QED BY <2>5, <3>1, <3>2 DEF Delivers
  <2>7. met' \subseteq Users /\ barred' \subseteq Users
    BY <1>3 DEF CastInv, CastTypes, Unsent, Recipient, CastNext, Run, Start, Hello, Row, RowsEnd, RowsFail, Turn, TurnsEnd, PassedOver,
           GatePasses, Sent, Refused, Halted, Flooded, Transient, Backoff, Close, CancelJob, Kill,
           ProgressFlooded, FloodEnds, Ban, castVars, recipients, castHistory
  <2>8. /\ cancel' \in BOOLEAN /\ whole' \in BOOLEAN /\ flood' \in BOOLEAN /\ covered' \in BOOLEAN
        /\ stage' \in {"idle", "hello", "rows", "turn", "gate", "send", "backoff", "next",
                       "closing", "ended"}
    BY <1>3, ZenonT(60) DEF CastInv, CastTypes, ToGate, Counted, Finish, CastNext, Run, Start, Hello, Row, RowsEnd, RowsFail, Turn, TurnsEnd, PassedOver,
           GatePasses, Sent, Refused, Halted, Flooded, Transient, Backoff, Close, CancelJob, Kill,
           ProgressFlooded, FloodEnds, Ban, castVars, recipients, castHistory
  <2> QED BY <1>1, <2>1, <2>2, <2>3, <2>4, <2>6, <2>7, <2>8 DEF CastTypes
<1> QED BY <1>2, <1>3

\* Where a step may lead: a recipient's turn begins in stage "turn" only, and a job that is
\* closing stays so until the next one starts.
LEMMA StageStep ==
    ASSUME [CastNext]_castVars, ~Start
    PROVE  /\ stage' \in {"idle", "hello", "rows"} =>
                 stage \in {"idle", "hello", "rows"} /\ turn' = turn
           /\ stage \in {"closing", "ended"} =>
                 stage' \in {"closing", "ended"} /\ UNCHANGED <<turn, tally>>
           /\ stage' \in Serving =>
                 /\ UNCHANGED <<turn, people>>
                 /\ stage \in Serving \/ (stage = "turn" /\ turn <= Len(people) /\ tries' = 1)
           /\ stage' = "next" => stage = "next" \/ cancel
           /\ stage' = "turn" => stage \in {"turn", "rows"} \/ (stage \in Serving /\ turn' = turn + 1)
<1> USE DEF Serving, ToGate, WaitCut, Finish, Counted, CastNext, Run, Start, Hello, Row, RowsEnd, RowsFail, Turn, TurnsEnd, PassedOver,
           GatePasses, Sent, Refused, Halted, Flooded, Transient, Backoff, Close, CancelJob, Kill,
           ProgressFlooded, FloodEnds, Ban, castVars, recipients, castHistory
<1>1. stage' \in {"idle", "hello", "rows"} =>
          stage \in {"idle", "hello", "rows"} /\ turn' = turn
  OBVIOUS
<1>2. stage \in {"closing", "ended"} =>
          stage' \in {"closing", "ended"} /\ UNCHANGED <<turn, tally>>
  OBVIOUS
<1>3. stage' \in Serving =>
          /\ UNCHANGED <<turn, people>>
          /\ stage \in Serving \/ (stage = "turn" /\ turn <= Len(people) /\ tries' = 1)
  OBVIOUS
<1>4. stage' = "next" => stage = "next" \/ cancel
  OBVIOUS
<1>5. stage' = "turn" => stage \in {"turn", "rows"} \/ (stage \in Serving /\ turn' = turn + 1)
  OBVIOUS
<1> QED BY ONLY <1>1, <1>2, <1>3, <1>4, <1>5

\* What cancelling, the end of the selection and the last turn change.
LEMMA CancelStep ==
    ASSUME [CastNext]_castVars, ~Start
    PROVE  /\ cancel => cancel'
           /\ cancel' = cancel \/ UNCHANGED <<stage, turn, tally, got, lost, after>>
           /\ stage # "rows" => whole' = whole
           /\ stage = "rows" /\ stage' = "turn" => whole' = ~cancel
           /\ status' = "completed" =>
                 \/ status' = status
                 \/ /\ stage = "turn" /\ stage' = "closing" /\ ~cancel /\ turn > Len(people)
                    /\ UNCHANGED <<tally, people, whole>>
<1> USE DEF Finish, Counted, ToGate, CastNext, Run, Start, Hello, Row, RowsEnd, RowsFail, Turn, TurnsEnd, PassedOver,
           GatePasses, Sent, Refused, Halted, Flooded, Transient, Backoff, Close, CancelJob, Kill,
           ProgressFlooded, FloodEnds, Ban, castVars, recipients, castHistory
<1>1. cancel => cancel'
  OBVIOUS
<1>2. cancel' = cancel \/ UNCHANGED <<stage, turn, tally, got, lost, after>>
  OBVIOUS
<1>3. /\ stage # "rows" => whole' = whole
      /\ stage = "rows" /\ stage' = "turn" => whole' = ~cancel
  OBVIOUS
<1>4. status' = "completed" => status' = status \/ TurnsEnd
  OBVIOUS
<1>5. TurnsEnd /\ status' = "completed" =>
          /\ stage = "turn" /\ stage' = "closing" /\ ~cancel /\ turn > Len(people)
          /\ UNCHANGED <<tally, people, whole>>
  OBVIOUS
<1> QED BY ONLY <1>1, <1>2, <1>3, <1>4, <1>5

\* What is known of the numbers.
LEMMA CastNumbers ==
    ASSUME CastInv
    PROVE  /\ people \in Seq(Users) /\ Len(people) \in Nat /\ DOMAIN people = 1..Len(people)
           /\ turn \in Nat \ {0} /\ turn <= Len(people) + 1 /\ Processed \in Nat
           /\ stage \in Serving => turn <= Len(people) /\ Recipient \in Users
<1>1. Processed \in Nat
  <2>1. tally \in [{"successful", "failed", "skipped"} -> Nat] /\ excluded \in Nat
    BY DEF CastInv, CastTypes
  <2> QED BY <2>1 DEF Processed
<1>2. people \in Seq(Users) /\ turn \in Nat \ {0} /\ turn <= Len(people) + 1
  BY DEF CastInv, CastTypes
<1>3. stage \in Serving => turn <= Len(people)
  BY DEF CastInv, Counts
<1>4. turn <= Len(people) => Recipient \in Users
  BY <1>2 DEF Recipient
<1> QED BY <1>1, <1>2, <1>3, <1>4

\* Everybody whose turn it was stays counted.
LEMMA CountsKept == ASSUME CastInv, [CastNext]_castVars PROVE Counts'
<1>1. CASE Start
  BY <1>1 DEF Start, Counts, Processed, NoTally, Serving
<1>2. CASE ~Start
  <2>1. /\ Len(people) \in Nat /\ turn \in Nat \ {0} /\ turn <= Len(people) + 1 /\ Processed \in Nat
        /\ stage \in Serving => turn <= Len(people)
    BY CastNumbers
  <2>2. \/ turn' = turn /\ Processed' = Processed /\ tally' = tally
        \/ turn' = turn /\ Processed' = Processed + 1 /\ stage = "send" /\ stage' = "closing"
        \/ turn' = turn + 1 /\ stage' = "turn" /\ Processed' = Processed /\ stage = "next"
        \/ /\ turn' = turn + 1 /\ stage' = "turn" /\ Processed' = Processed + 1
           /\ stage = "send" \/ (stage = "turn" /\ turn <= Len(people))
    BY <1>2, CountStep, OneMore DEF Processed, CastInv, CastTypes, TallyType
  <2>3. stage # "rows" => people' = people
    BY <1>2, SelectionStays DEF Row
  <2>4. stage' \in {"idle", "hello", "rows"} => turn' = 1
    BY <1>2, StageStep DEF CastInv, Counts
  <2>5. stage' \in Serving => turn' <= Len(people') /\ tries' > 0
    <3>1. stage' \in Serving => turn' <= Len(people')
      BY <1>2, <2>1, StageStep
    <3>2. tries \in Nat /\ (stage \in Serving => tries > 0)
      BY BroadcastAssumption DEF CastInv, CastTypes, Counts
    <3> QED BY <1>2, <3>1, <3>2, StageStep, TriesStep DEF Serving
  <2>6. stage' \notin {"closing", "ended"} => Processed' <= turn' - 1
    <3>1. stage \notin {"closing", "ended"} => Processed <= turn - 1
      BY DEF CastInv, Counts
    <3> QED BY <1>2, <2>1, <2>2, <3>1, StageStep
  <2>7. stage' \in {"closing", "ended"} => Processed' <= Len(people')
    <3>1. CASE stage \in {"closing", "ended"}
      BY <1>2, <2>1, <2>2, <2>3, <3>1, StageStep DEF CastInv, Counts
    <3>2. CASE stage \notin {"closing", "ended"}
      <4>1. Processed <= turn - 1
        BY <3>2 DEF CastInv, Counts
      <4>2. stage = "rows" => turn = 1
        BY DEF CastInv, Counts
      <4>3. stage = "rows" => Len(people') \in Nat
        BY CastTypesStep DEF CastTypes
      <4> QED BY <2>1, <2>2, <2>3, <3>2, <4>1, <4>2, <4>3 DEF Serving
    <3> QED BY <3>1, <3>2
  <2>8. ~cancel' /\ stage' \notin {"closing", "ended"} => Processed' = turn' - 1
    <3>1. /\ ~cancel /\ stage \notin {"closing", "ended"} => Processed = turn - 1
          /\ stage = "next" => cancel
      BY DEF CastInv, Counts
    <3> QED BY <1>2, <2>1, <2>2, <3>1, StageStep, CancelStep
  <2>9. stage' = "next" => cancel'
    BY <1>2, StageStep, CancelStep DEF CastInv, Counts
  <2>10. ~cancel' /\ stage' \in Serving \cup {"turn"} => whole'
    BY <1>2, StageStep, CancelStep DEF CastInv, Counts, Serving
  <2>11. status' = "completed" =>
            stage' \in {"closing", "ended"} /\ Processed' = Len(people') /\ whole'
    <3>1. CASE status' = "completed" /\ status = "completed"
      <4>1. stage \in {"closing", "ended"} /\ Processed = Len(people) /\ whole
        BY <3>1 DEF CastInv, Counts
      <4> QED BY <1>2, <2>2, <2>3, <4>1, StageStep, CancelStep
    <3>2. CASE status' = "completed" /\ status # "completed"
      <4>1. /\ stage = "turn" /\ stage' = "closing" /\ ~cancel /\ turn > Len(people)
            /\ UNCHANGED <<tally, people, whole>>
        BY <1>2, <3>2, CancelStep
      <4>2. Processed = turn - 1 /\ whole /\ Processed' = Processed
        BY <4>1 DEF CastInv, Counts, Serving, Processed
      <4> QED BY <2>1, <4>1, <4>2
    <3> QED BY <3>1, <3>2
  <2> QED BY <2>4, <2>5, <2>6, <2>7, <2>8, <2>9, <2>10, <2>11 DEF Counts
<1> QED BY <1>1, <1>2

\* A row adds a recipient, or one who is excluded, only when it names a user for the first time.
LEMMA SelectedKept == ASSUME CastInv, [CastNext]_castVars PROVE Selected'
<1>1. CASE Start
  <2>1. people' = <<>> /\ excluded' = 0 /\ row' = 1
    BY <1>1 DEF Start
  <2>2. RowsSeen' = {}
    BY <2>1 DEF RowsSeen
  <2> QED BY <2>1, <2>2, FS_EmptySet DEF Selected
<1>2. CASE Row
  <2> DEFINE u == Rows[row]
  <2>0. row \in 1..(Len(Rows) + 1) /\ row <= Len(Rows) /\ row' = row + 1
    BY <1>2 DEF Row, CastInv, CastTypes
  <2>1. /\ row \in Nat \ {0} /\ row' = row + 1 /\ people \in Seq(Users) /\ u \in Users
        /\ excluded \in Nat
    <3>1. Rows \in Seq(Users) /\ Len(Rows) \in Nat
      BY BroadcastAssumption
    <3>2. row \in 1..Len(Rows)
      BY <2>0, <3>1
    <3>3. Rows[row] \in Users
      BY <3>1, <3>2
    <3>4. people \in Seq(Users) /\ excluded \in Nat
      BY DEF CastInv, CastTypes
    <3> QED BY <2>0, <3>2, <3>3, <3>4
  <2>2. RowsSeen' = RowsSeen \cup {u}
    BY <2>1 DEF RowsSeen
  <2>3. /\ IsFiniteSet(RowsSeen) /\ Cardinality(RowsSeen) \in Nat
        /\ Len(people) + excluded <= Cardinality(RowsSeen)
        /\ \A i, j \in DOMAIN people : people[i] = people[j] => i = j
        /\ \A i \in DOMAIN people : people[i] \in RowsSeen
    BY FS_CardinalityType DEF CastInv, Selected
  <2>4. /\ IsFiniteSet(RowsSeen')
        /\ Cardinality(RowsSeen') = IF u \in RowsSeen THEN Cardinality(RowsSeen)
                                                      ELSE Cardinality(RowsSeen) + 1
    BY <2>2, <2>3, FS_AddElement
  <2>5. \/ people' = people /\ excluded' = excluded
        \/ u \notin RowsSeen /\ people' = people /\ excluded' = excluded + 1
        \/ u \notin RowsSeen /\ people' = Append(people, u) /\ excluded' = excluded
    BY <1>2 DEF Row, RowsSeen
  <2>6. Len(people') + excluded' <= Cardinality(RowsSeen')
    BY <2>1, <2>3, <2>4, <2>5
  <2>7. /\ \A i, j \in DOMAIN people' : people'[i] = people'[j] => i = j
        /\ \A i \in DOMAIN people' : people'[i] \in RowsSeen'
    <3>1. CASE people' = people
      BY <2>2, <2>3, <3>1
    <3>2. CASE u \notin RowsSeen /\ people' = Append(people, u)
      <4> HIDE DEF u
      <4>1. /\ DOMAIN people = 1..Len(people) /\ DOMAIN people' = 1..(Len(people) + 1) /\ Len(people) \in Nat
            /\ \A i \in 1..Len(people) : people'[i] = people[i]
            /\ people'[Len(people) + 1] = u
        BY <2>1, <3>2
      <4> QED BY <2>2, <2>3, <3>2, <4>1
    <3> QED BY <2>5, <3>1, <3>2
  <2> QED BY <2>4, <2>6, <2>7 DEF Selected
<1>3. CASE ~Start /\ ~Row
  <2>1. UNCHANGED <<row, people, excluded>>
    BY <1>3, SelectionStays
  <2>2. RowsSeen' = RowsSeen
    BY <2>1 DEF RowsSeen
  <2> QED BY <2>1, <2>2 DEF CastInv, Selected
<1> QED BY <1>1, <1>2, <1>3

\* The copies of a step that delivers none.
LEMMA NoCopy ==
    ASSUME CastInv, [CastNext]_castVars, ~Start, ~Row, UNCHANGED <<got, lost>>,
           tally' = tally \/ \E what \in {"skipped", "failed"} : tally' = [tally EXCEPT ![what] = @ + 1]
    PROVE  Copies'
<1>1. UNCHANGED people
  BY SelectionStays
<1>2. /\ people \in Seq(Users) /\ DOMAIN people = 1..Len(people) /\ turn \in Nat \ {0}
      /\ turn <= Len(people) + 1 /\ Len(people) \in Nat
      /\ got \in [Users -> Nat] /\ lost \in [Users -> Nat]
      /\ \A i, j \in DOMAIN people : people[i] = people[j] => i = j
  BY CastNumbers DEF CastInv, CastTypes, Selected
<1>3. turn' \in {turn, turn + 1}
  BY CountStep
<1>4. \A u \in Users : got[u] > 0 => \E i \in DOMAIN people : people[i] = u /\ i <= turn
  BY DEF CastInv, Copies
<1>5. \A i \in DOMAIN people : i > turn => got[people[i]] = 0
  <2> SUFFICES ASSUME NEW i \in DOMAIN people, i > turn, got[people[i]] # 0 PROVE FALSE
    OBVIOUS
  <2>1. people[i] \in Users /\ got[people[i]] > 0
    BY <1>2
  <2>2. PICK k \in DOMAIN people : people[k] = people[i] /\ k <= turn
    BY <1>4, <2>1
  <2> QED BY <1>2, <2>2
<1>6. \A u \in Users : got'[u] > 0 => \E i \in DOMAIN people' : people'[i] = u /\ i <= turn'
  BY <1>1, <1>2, <1>3, <1>4
<1>7. \A i \in DOMAIN people' : i >= turn' => got'[people'[i]] = lost'[people'[i]]
  BY <1>1, <1>2, <1>3 DEF CastInv, Copies
<1>8. stage' \in {"idle", "hello", "rows", "turn"} =>
          \A i \in DOMAIN people' : i >= turn' => got'[people'[i]] = 0
  <2>1. CASE turn' = turn + 1
    BY <1>1, <1>2, <1>5, <2>1
  <2>2. CASE turn' = turn
    <3>1. stage' \in {"idle", "hello", "rows", "turn"} => stage \in {"idle", "hello", "rows", "turn"}
      BY <1>2, <2>2, StageStep
    <3> QED BY <1>1, <2>2, <3>1 DEF CastInv, Copies
  <2> QED BY <1>3, <2>1, <2>2
<1>9. \A u \in met' : got'[u] = 0 /\ \E i \in DOMAIN people' : people'[i] = u /\ i < turn'
  <2>1. \A u \in met : got[u] = 0 /\ \E i \in DOMAIN people : people[i] = u /\ i < turn
    BY DEF CastInv, Copies
  <2>2. CASE met' = met
    BY <1>1, <1>2, <1>3, <2>1, <2>2
  <2>3. CASE /\ stage = "turn" /\ turn <= Len(people) /\ turn' = turn + 1
             /\ met' = met \cup {Recipient}
    <3>1. \A i \in DOMAIN people : i >= turn => got[people[i]] = 0
      BY <2>3 DEF CastInv, Copies
    <3>5. turn \in DOMAIN people
      BY <1>2, <2>3
    <3>2. turn \in DOMAIN people /\ people[turn] = Recipient /\ got[Recipient] = 0
      <4>1. turn >= turn
        BY <1>2
      <4>2. people[turn] = Recipient
        BY DEF Recipient
      <4>3. got[people[turn]] = 0
        BY <3>1, <3>5, <4>1
      <4> QED BY <3>5, <4>2, <4>3
    <3> SUFFICES ASSUME NEW u \in met'
                 PROVE  got[u] = 0 /\ \E i \in DOMAIN people : people[i] = u /\ i < turn + 1
      BY <1>1, <2>3
    <3>3. CASE u = Recipient
      <4>1. turn < turn + 1
        BY <1>2
      <4> QED BY <3>2, <3>3, <4>1
    <3>4. CASE u \in met
      <4>1. PICK i \in DOMAIN people : people[i] = u /\ i < turn
        BY <2>1, <3>4
      <4> QED BY <1>2, <2>1, <3>4, <4>1
    <3> QED BY <2>3, <3>3, <3>4
  <2> QED BY <2>2, <2>3, MetStep
<1>10. Acknowledged' = Acknowledged /\ tally'.successful = tally.successful
  BY OneMore DEF Acknowledged, CastInv, CastTypes, TallyType
<1> QED BY <1>6, <1>7, <1>8, <1>9, <1>10 DEF CastInv, Copies

\* The copies of a step that delivers one.
LEMMA OneCopy ==
    ASSUME CastInv, [CastNext]_castVars, ~Start, ~Row, Delivers
    PROVE  Copies'
<1> DEFINE r == people[turn]
<1>1. UNCHANGED <<people, met>> /\ stage = "send" /\ got' = [got EXCEPT ![r] = @ + 1]
  BY SelectionStays DEF Delivers, Recipient
<1>2. /\ people \in Seq(Users) /\ DOMAIN people = 1..Len(people) /\ turn \in Nat \ {0}
      /\ turn <= Len(people) /\ Len(people) \in Nat /\ r \in Users
      /\ got \in [Users -> Nat] /\ lost \in [Users -> Nat]
      /\ \A i, j \in DOMAIN people : people[i] = people[j] => i = j
  BY <1>1, CastNumbers DEF CastInv, CastTypes, Selected, Serving, Recipient
<1>3. /\ \A u \in Users : lost[u] <= got[u] /\ got[u] <= lost[u] + 1
      /\ IsFiniteSet(Acknowledged) /\ tally.successful = Cardinality(Acknowledged)
  BY DEF CastInv, Copies
<1>4. \A u \in Users : got[u] > 0 => \E i \in DOMAIN people : people[i] = u /\ i <= turn
  BY DEF CastInv, Copies
<1>12. \A i \in DOMAIN people : i >= turn => got[people[i]] = lost[people[i]]
  BY DEF CastInv, Copies
<1>13. \A u \in met : got[u] = 0 /\ \E i \in DOMAIN people : people[i] = u /\ i < turn
  BY DEF CastInv, Copies
<1>14. r \notin met
  BY <1>2, <1>13
<1>15. turn \in DOMAIN people /\ got[r] = lost[r] /\ people[turn] = r
  <2>1. turn \in DOMAIN people /\ turn >= turn
    BY <1>2
  <2> QED BY <1>12, <2>1
<1>5. \A i \in DOMAIN people : i > turn => people[i] # r /\ got[people[i]] = 0
  <2> SUFFICES ASSUME NEW i \in DOMAIN people, i > turn PROVE people[i] # r /\ got[people[i]] = 0
    OBVIOUS
  <2>1. people[i] # r
    BY <1>2
  <2>2. ASSUME got[people[i]] # 0 PROVE FALSE
    <3>1. people[i] \in Users /\ got[people[i]] > 0
      BY <1>2, <2>2
    <3>2. PICK k \in DOMAIN people : people[k] = people[i] /\ k <= turn
      BY <1>4, <3>1
    <3> QED BY <1>2, <3>2
  <2> QED BY <2>1, <2>2
<1>6. turn' \in {turn, turn + 1} /\ tally \in TallyType
  BY CountStep DEF CastInv, CastTypes, TallyType
<1> HIDE DEF r
<1>7. /\ got'[r] = got[r] + 1
      /\ \A u \in Users : u # r => got'[u] = got[u]
  BY <1>1, <1>2
<1>8. \A u \in Users : got'[u] > 0 => \E i \in DOMAIN people' : people'[i] = u /\ i <= turn'
  <2> SUFFICES ASSUME NEW u \in Users, got'[u] > 0
               PROVE  \E i \in DOMAIN people : people[i] = u /\ i <= turn'
    BY <1>1
  <2>1. CASE u = r
    BY <1>2, <1>6, <1>15, <2>1
  <2>2. CASE u # r
    <3>1. PICK i \in DOMAIN people : people[i] = u /\ i <= turn
      BY <1>4, <1>7, <2>2
    <3> QED BY <1>2, <1>6, <3>1
  <2> QED BY <2>1, <2>2
<1>9. \A u \in met' : got'[u] = 0 /\ \E i \in DOMAIN people' : people'[i] = u /\ i < turn'
  <2>1. met \subseteq Users
    BY DEF CastInv, CastTypes
  <2> SUFFICES ASSUME NEW u \in met
               PROVE  got'[u] = 0 /\ \E i \in DOMAIN people : people[i] = u /\ i < turn'
    BY <1>1
  <2>2. PICK i \in DOMAIN people : people[i] = u /\ i < turn
    BY <1>13
  <2>3. got'[u] = 0
    BY <1>7, <1>13, <1>14, <2>1
  <2> QED BY <1>2, <1>6, <2>2, <2>3
<1>10. CASE /\ lost' = lost /\ stage' = "turn" /\ turn' = turn + 1
            /\ tally' = [tally EXCEPT !["successful"] = @ + 1]
  <2>1. \A i \in DOMAIN people' : i >= turn' => got'[people'[i]] = 0 /\ lost'[people'[i]] = 0
    <3> SUFFICES ASSUME NEW i \in DOMAIN people, i >= turn + 1
                 PROVE  got'[people[i]] = 0 /\ lost[people[i]] = 0
      BY <1>1, <1>10
    <3>1. people[i] \in Users /\ people[i] # r /\ got[people[i]] = 0 /\ got[people[i]] = lost[people[i]]
      <4>1. i > turn /\ i >= turn
        BY <1>2
      <4> QED BY <1>2, <1>5, <1>12, <4>1
    <3> QED BY <1>7, <3>1
  <2>2. Acknowledged' = Acknowledged \cup {r} /\ r \notin Acknowledged
    BY <1>2, <1>3, <1>7, <1>10, <1>15 DEF Acknowledged
  <2>3. IsFiniteSet(Acknowledged') /\ Cardinality(Acknowledged') = Cardinality(Acknowledged) + 1
    BY <1>3, <2>2, FS_AddElement
  <2>4. tally'.successful = tally.successful + 1
    BY <1>6, <1>10, OneMore
  <2>5. \A u \in Users : lost'[u] <= got'[u] /\ got'[u] <= lost'[u] + 1
    <3> SUFFICES ASSUME NEW u \in Users PROVE lost[u] <= got'[u] /\ got'[u] <= lost[u] + 1
      BY <1>10
    <3>1. got[u] \in Nat /\ lost[u] \in Nat /\ lost[u] <= got[u] /\ got[u] <= lost[u] + 1
      BY <1>2, <1>3
    <3> QED BY <1>7, <1>15, <3>1
  <2> QED BY <1>3, <1>8, <1>9, <2>1, <2>3, <2>4, <2>5 DEF Copies
<1>11. CASE /\ lost' = [lost EXCEPT ![r] = @ + 1]
            /\ \/ UNCHANGED <<tally, turn>> /\ stage' \in {"backoff", "closing"}
               \/ /\ tally' = [tally EXCEPT !["failed"] = @ + 1]
                  /\ stage' = "turn" /\ turn' = turn + 1
  <2>1. lost'[r] = lost[r] + 1 /\ \A u \in Users : u # r => lost'[u] = lost[u]
    BY <1>2, <1>11
  <2>2. \A i \in DOMAIN people' : i >= turn' =>
            got'[people'[i]] = lost'[people'[i]] /\ (i > turn => got'[people'[i]] = 0)
    <3> SUFFICES ASSUME NEW i \in DOMAIN people, i >= turn
                 PROVE  got'[people[i]] = lost'[people[i]] /\ (i > turn => got'[people[i]] = 0)
      BY <1>1, <1>2, <1>6
    <3>1. people[i] \in Users /\ got[people[i]] = lost[people[i]]
          /\ (i > turn => people[i] # r /\ got[people[i]] = 0)
      BY <1>2, <1>5, <1>12
    <3> QED BY <1>7, <1>15, <2>1, <3>1
  <2>3. Acknowledged' = Acknowledged
    <3> SUFFICES ASSUME NEW u \in Users PROVE got'[u] > lost'[u] <=> got[u] > lost[u]
      BY DEF Acknowledged
    <3>1. got[u] \in Nat /\ lost[u] \in Nat
      BY <1>2
    <3> QED BY <1>7, <2>1, <3>1
  <2>4. tally'.successful = tally.successful
    <3>1. CASE tally' = [tally EXCEPT !["failed"] = @ + 1]
      BY <1>6, <3>1, OneMore
    <3>2. CASE tally' = tally
      BY <3>2
    <3> QED BY <1>11, <3>1, <3>2
  <2>5. \A u \in Users : lost'[u] <= got'[u] /\ got'[u] <= lost'[u] + 1
    <3> SUFFICES ASSUME NEW u \in Users PROVE lost'[u] <= got'[u] /\ got'[u] <= lost'[u] + 1
      OBVIOUS
    <3>1. got[u] \in Nat /\ lost[u] \in Nat /\ lost[u] <= got[u] /\ got[u] <= lost[u] + 1
      BY <1>2, <1>3
    <3> QED BY <1>7, <2>1, <3>1
  <2>6. stage' \in {"idle", "hello", "rows", "turn"} =>
            \A i \in DOMAIN people' : i >= turn' => got'[people'[i]] = 0
    BY <1>1, <1>2, <1>11, <2>2
  <2> QED BY <1>3, <1>8, <1>9, <2>2, <2>3, <2>4, <2>5, <2>6 DEF Copies
<1> QED BY <1>10, <1>11 DEF Delivers, Recipient, r

LEMMA CopiesKept == ASSUME CastInv, [CastNext]_castVars PROVE Copies'
<1>1. CASE Start
  <2>1. /\ got' = [u \in Users |-> 0] /\ lost' = [u \in Users |-> 0] /\ people' = <<>> /\ met' = {}
        /\ tally'.successful = 0
    BY <1>1 DEF Start, NoTally
  <2>2. Acknowledged' = {}
    BY <2>1 DEF Acknowledged
  <2> QED BY <2>1, <2>2, FS_EmptySet DEF Copies
<1>2. CASE Row
  <2>1. UNCHANGED <<got, lost, met, tally, turn, stage>> /\ stage = "rows"
        /\ (people' = people \/ people' = Append(people, Rows[row]))
    BY <1>2 DEF Row, castHistory
  <2>2. /\ turn = 1 /\ people \in Seq(Users) /\ Rows[row] \in Users
        /\ got \in [Users -> Nat] /\ lost \in [Users -> Nat] /\ met \subseteq Users
    <3>1. Rows \in Seq(Users) /\ Len(Rows) \in Nat
      BY BroadcastAssumption
    <3>2. row \in 1..(Len(Rows) + 1) /\ row <= Len(Rows)
      BY <1>2 DEF Row, CastInv, CastTypes
    <3>3. Rows[row] \in Users
      BY <3>1, <3>2
    <3>4. /\ turn = 1 /\ people \in Seq(Users)
          /\ got \in [Users -> Nat] /\ lost \in [Users -> Nat] /\ met \subseteq Users
      BY <1>2, <2>1 DEF CastInv, CastTypes, Counts
    <3> QED BY <3>3, <3>4
  <2>3. /\ \A u \in Users : lost[u] <= got[u]
        /\ \A u \in Users : got[u] > 0 => \E i \in DOMAIN people : people[i] = u /\ i <= turn
        /\ \A i \in DOMAIN people : i >= turn => got[people[i]] = 0
        /\ \A u \in met : \E i \in DOMAIN people : people[i] = u /\ i < turn
        /\ IsFiniteSet(Acknowledged) /\ tally.successful = Cardinality(Acknowledged)
    BY <2>1 DEF CastInv, Copies
  <2>4. \A u \in Users : got[u] = 0 /\ lost[u] = 0
    <3> SUFFICES ASSUME NEW u \in Users PROVE got[u] = 0 /\ lost[u] = 0
      OBVIOUS
    <3>0. got[u] \in Nat /\ lost[u] \in Nat /\ lost[u] <= got[u]
      BY <2>2, <2>3
    <3>1. ASSUME got[u] > 0 PROVE FALSE
      <4>1. PICK i \in DOMAIN people : people[i] = u /\ i <= 1
        BY <2>2, <2>3, <3>1
      <4>2. i \in Nat \ {0}
        BY <2>2
      <4>3. i >= turn
        BY <2>2, <4>1, <4>2
      <4> QED BY <2>3, <3>1, <4>1, <4>3
    <3> QED BY <3>0, <3>1
  <2>5. met = {}
    <3> SUFFICES ASSUME NEW u \in met PROVE FALSE
      OBVIOUS
    <3>1. PICK i \in DOMAIN people : people[i] = u /\ i < 1
      BY <2>2, <2>3
    <3> QED BY <2>2, <3>1
  <2>6. people' \in Seq(Users) /\ \A i \in DOMAIN people' : people'[i] \in Users
    <3>1. people' \in Seq(Users)
      <4> DEFINE u == Rows[row]
      <4>1. u \in Users /\ (people' = people \/ people' = Append(people, u))
        BY <2>1, <2>2
      <4> HIDE DEF u
      <4>2. CASE people' = people
        BY <2>2, <4>2
      <4>3. CASE people' = Append(people, u)
        BY <2>2, <4>1, <4>3
      <4> QED BY <4>1, <4>2, <4>3
    <3> QED BY <3>1
  <2>7. Acknowledged' = Acknowledged
    BY <2>1 DEF Acknowledged
  <2> QED BY <2>1, <2>3, <2>4, <2>5, <2>6, <2>7 DEF Copies
<1>3. CASE ~Start /\ ~Row
  BY <1>3, DeliveryStep, NoCopy, OneCopy
<1> QED BY <1>1, <1>2, <1>3

\* An attempt is begun after the copies of the earlier ones.
LEMMA TriedKept == ASSUME CastInv, [CastNext]_castVars PROVE Tried'
<1>1. CASE Start
  BY <1>1, BroadcastAssumption DEF Start, Tried
<1>2. CASE Row
  BY <1>2 DEF Row, castHistory, CastInv, Tried
<1>3. CASE ~Start /\ ~Row
  <2>1. UNCHANGED people
    BY <1>3, SelectionStays
  <2>2. /\ got \in [Users -> Nat] /\ tries \in Nat /\ tries <= MaxAttempts /\ MaxAttempts \in Nat
        /\ stage \in Serving => turn <= Len(people) /\ Recipient \in Users
        /\ turn \in Nat \ {0} /\ DOMAIN people = 1..Len(people) /\ people \in Seq(Users)
    BY CastNumbers, BroadcastAssumption DEF CastInv, CastTypes
  <2>3. /\ stage \in {"gate", "send"} => got[Recipient] < tries
        /\ stage = "backoff" => got[Recipient] <= tries /\ tries < MaxAttempts
        /\ \A u \in Users : got[u] <= MaxAttempts
    BY DEF CastInv, Tried
  <2>4. stage = "turn" /\ turn <= Len(people) => got[Recipient] = 0
    <3>1. stage = "turn" => \A i \in DOMAIN people : i >= turn => got[people[i]] = 0
      BY DEF CastInv, Copies
    <3>2. turn <= Len(people) => turn \in DOMAIN people /\ turn >= turn
      BY <2>2
    <3> QED BY <3>1, <3>2 DEF Recipient
  <2>5. stage' \in Serving =>
            /\ Recipient' = Recipient
            /\ stage \in Serving \/ (stage = "turn" /\ turn <= Len(people) /\ tries' = 1)
    BY <1>3, StageStep DEF Recipient
  <2>6. CASE UNCHANGED got
    <3>1. stage' \in {"gate", "send"} => got[Recipient] < tries'
      BY <1>3, <2>2, <2>3, <2>4, <2>5, TriesStep DEF Serving
    <3>2. stage' = "backoff" => got[Recipient] <= tries' /\ tries' < MaxAttempts
      BY <1>3, <2>2, <2>3, <2>5, TriesStep DEF Serving
    <3> QED BY <2>3, <2>5, <2>6, <3>1, <3>2 DEF Tried, Serving
  <2>7. CASE Delivers
    <3>1. /\ stage = "send" /\ got' = [got EXCEPT ![Recipient] = @ + 1]
          /\ stage' \in {"turn", "backoff", "closing"}
      BY <2>7 DEF Delivers
    <3>2. Recipient \in Users /\ got[Recipient] < tries
      BY <2>2, <2>3, <3>1 DEF Serving
    <3>3. got'[Recipient] = got[Recipient] + 1 /\ got[Recipient] \in Nat
      BY <2>2, <3>1, <3>2
    <3>4. \A u \in Users : got'[u] <= MaxAttempts
      BY <2>2, <2>3, <3>1, <3>2, <3>3
    <3>5. stage' = "backoff" => got'[Recipient'] <= tries' /\ tries' < MaxAttempts
      BY <1>3, <2>2, <2>5, <3>1, <3>2, <3>3, TriesStep DEF Serving
    <3> QED BY <3>1, <3>4, <3>5 DEF Tried
  <2> QED BY <1>3, <2>6, <2>7, DeliveryStep
<1> QED BY <1>1, <1>2, <1>3

\* After the cancellation only the delivery that was on its way arrives.
LEMMA StoppingKept == ASSUME CastInv, [CastNext]_castVars PROVE Stopping'
<1>1. CASE Start
  BY <1>1 DEF Start, Stopping
<1>2. CASE ~Start
  <2>1. /\ after <= 1 /\ after \in Nat
        /\ stage \in {"gate", "send"} \/ ~cancel => after = 0
    BY DEF CastInv, CastTypes, Stopping
  <2>2. stage' \in {"gate", "send"} => stage \in {"gate", "send"} \/ ~cancel
    BY <1>2, TriesStep
  <2>3. ~cancel' => ~cancel
    BY <1>2, CancelStep
  <2>4. CASE UNCHANGED after
    BY <2>1, <2>2, <2>3, <2>4 DEF Stopping
  <2>5. CASE Delivers
    <3>1. stage = "send" /\ stage' \notin {"gate", "send"}
          /\ after' = (IF cancel THEN after + 1 ELSE after)
      BY <2>5 DEF Delivers
    <3> QED BY <2>1, <2>3, <3>1 DEF Stopping
  <2> QED BY <1>2, <2>4, <2>5, DeliveryStep
<1> QED BY <1>1, <1>2

\* Nothing has begun.
LEMMA CastInitInv == CastInit => CastInv
<1> SUFFICES ASSUME CastInit PROVE CastInv
  OBVIOUS
<1>1. /\ stage = "idle" /\ row = 1 /\ people = <<>> /\ turn = 1 /\ cancel = FALSE
      /\ tally = NoTally /\ excluded = 0 /\ whole = FALSE /\ status = "none" /\ tries = 0
      /\ flood = FALSE /\ covered = FALSE /\ barred \subseteq Users /\ quota \in CastCases
      /\ got = [u \in Users |-> 0] /\ lost = [u \in Users |-> 0] /\ met = {} /\ after = 0
  BY DEF CastInit
<1>2. CastTypes
  <2>1. tally \in [{"successful", "failed", "skipped"} -> Nat]
    BY <1>1 DEF NoTally
  <2>2. quota \in [jobs : Nat, stops : Nat, bans : Nat, errors : Nat]
    BY <1>1, BroadcastAssumption
  <2>3. /\ people \in Seq(Users) /\ turn \in Nat \ {0} /\ turn <= Len(people) + 1
        /\ row \in 1..(Len(Rows) + 1) /\ tries \in 0..MaxAttempts
    BY <1>1, BroadcastAssumption
  <2> QED BY <1>1, <2>1, <2>2, <2>3 DEF CastTypes
<1>3. Selected
  <2>1. RowsSeen = {}
    BY <1>1 DEF RowsSeen
  <2> QED BY <1>1, <2>1, FS_EmptySet DEF Selected
<1>4. Counts
  BY <1>1 DEF Counts, Processed, NoTally, Serving
<1>5. Copies
  <2>1. Acknowledged = {}
    BY <1>1 DEF Acknowledged
  <2>2. tally.successful = 0
    BY <1>1 DEF NoTally
  <2> QED BY <1>1, <2>1, <2>2, FS_EmptySet DEF Copies
<1>6. Tried /\ Stopping
  BY <1>1, BroadcastAssumption DEF Tried, Stopping
<1> QED BY <1>2, <1>3, <1>4, <1>5, <1>6 DEF CastInv

LEMMA CastInvariant == CastSpec => []CastInv
<1>1. CastInv /\ [CastNext]_castVars => CastInv'
  BY CastTypesStep, SelectedKept, CountsKept, CopiesKept, TriedKept, StoppingKept DEF CastInv
<1> QED BY <1>1, CastInitInv, PTL DEF CastSpec

\* The types of a broadcast, and its bounds: a recipient is listed once, has no more copies
\* than attempts, and no counter exceeds the recipients.
THEOREM BroadcastTypes == CastSpec => []CastTypeOK
<1>1. CastInv => CastTypeOK
  <2> SUFFICES ASSUME CastInv PROVE CastTypeOK
    OBVIOUS
  <2>1. tally \in [{"successful", "failed", "skipped"} -> 0..Len(people)]
    <3>1. tally \in [{"successful", "failed", "skipped"} -> Nat] /\ Len(people) \in Nat
          /\ Processed <= Len(people)
      BY CastNumbers, SMTT(30) DEF CastInv, CastTypes, Counts
    <3> QED BY <3>1 DEF Processed
  <2>2. got \in [Users -> 0..MaxAttempts] /\ lost \in [Users -> 0..MaxAttempts]
    <3>1. /\ got \in [Users -> Nat] /\ lost \in [Users -> Nat] /\ MaxAttempts \in Nat
          /\ \A u \in Users : got[u] <= MaxAttempts /\ lost[u] <= got[u]
      BY BroadcastAssumption DEF CastInv, CastTypes, Tried, Copies
    <3> QED BY <3>1
  <2>3. IsInjective(people)
    BY DEF IsInjective, CastInv, Selected
  <2>4. turn \in 1..(Len(people) + 1)
    BY CastNumbers
  <2> QED BY <2>1, <2>2, <2>3, <2>4 DEF CastInv, CastTypes, CastTypeOK
<1> QED BY <1>1, CastInvariant, PTL

\* A broadcast's statistics are true, nobody receives more copies than were lost on the way
\* back plus one, nobody who was met banned receives any, and a cancelled job delivers
\* nothing but what was on its way (CastSound), however the attempts of the recipients,
\* bans, floods, failures, /stop and shutdown are interleaved.
THEOREM BroadcastIsSound == CastSpec => []CastSound
<1>1. CastInv => CastSound
  <2> SUFFICES ASSUME CastInv PROVE CastSound
    OBVIOUS
  <2>1. Processed <= Len(people)
    BY CastNumbers DEF CastInv, Counts
  <2>2. Len(people) + excluded <= Cardinality(Range(Rows))
    <3>1. Rows \in Seq(Users) /\ Len(Rows) \in Nat /\ DOMAIN Rows = 1..Len(Rows)
      BY BroadcastAssumption
    <3>2. Rows \in Surjection(1..Len(Rows), Range(Rows))
      BY <3>1 DEF Surjection, Range
    <3>3. IsFiniteSet(Range(Rows))
      BY <3>1, <3>2, FS_Interval, FS_Surjection
    <3>4. RowsSeen \subseteq Range(Rows)
      <4>1. row \in 1..(Len(Rows) + 1)
        BY DEF CastInv, CastTypes
      <4>2. \A k \in 1..(row - 1) : k \in DOMAIN Rows
        BY <3>1, <4>1
      <4> QED BY <4>2 DEF RowsSeen, Range
    <3>5. Cardinality(RowsSeen) <= Cardinality(Range(Rows))
      BY <3>3, <3>4, FS_Subset
    <3>6. /\ Len(people) + excluded <= Cardinality(RowsSeen) /\ Cardinality(RowsSeen) \in Nat
          /\ Cardinality(Range(Rows)) \in Nat /\ Len(people) \in Nat /\ excluded \in Nat
      BY <3>3, CastNumbers, FS_CardinalityType DEF CastInv, CastTypes, Selected
    <3> QED BY <3>5, <3>6
  <2>3. TallyTrue
    BY <2>1, <2>2 DEF CastInv, Counts, Copies, Acknowledged, TallyTrue
  <2>4. OneCopyEach
    BY DEF CastInv, CastTypes, Copies, OneCopyEach
  <2> QED BY <2>3, <2>4 DEF CastInv, Stopping, StopsAtOnce, CastSound
<1> QED BY <1>1, CastInvariant, PTL

-----------------------------------------------------------------------------
(* The forwarding of a channel's posts, for any channel and any albums.    *)

\* Copies of q whose answer came.
Acked(q) == copies[q] - unsure[q]

\* What a handler does under its lock.
Sends   == {"probe", "group", "album", "parts", "single", "text"}
Working == Sends \cup {"record"}

\* Copied, or excused.
Handled(q) == copies[q] > 0 \/ Group[q] \in failed

Spots   == {"new", "wait", "done"} \cup Working

ForwardTypes ==
    /\ entry \in [there : BOOLEAN, on : BOOLEAN, last : Posts \cup {0}]
    /\ losses \in Nat /\ strikes \in Nat
    /\ line \in [Posts -> Seq(Posts)]
    /\ spot \in [Posts -> Spots]
    /\ todo \in [Posts -> SUBSET Posts] /\ any \in [Posts -> BOOLEAN]
    /\ budget \in [orders : Nat, troubles : Nat, restarts : Nat]
    /\ copies \in [Posts -> Nat] /\ unsure \in [Posts -> Nat] /\ newest \in Posts \cup {0}
    /\ skipped \subseteq Posts /\ late \subseteq Posts /\ failed \subseteq Posts /\ apart \subseteq Posts
    /\ anew \in BOOLEAN

\* The way of a handler: its form decides it, and it is announced before.
OnTheWay ==
    \A p \in Posts :
        /\ spot[p] = "text" => FormOf[p] = "text"
        /\ spot[p] \in {"group", "album", "parts"} => InAlbum(p)
        /\ spot[p] = "single" /\ InAlbum(p) => Group[p] \in apart /\ Group[p] \in failed
        /\ spot[p] = "parts" => todo[p] \subseteq Mates(p)
        /\ spot[p] \notin {"new", "done"} => p <= newest
        /\ p = newest => spot[p] # "new"

\* One handler of an album works, the first in its line; who waits is in the line.
Locked ==
    /\ \A p \in Posts : spot[p] \in Working => line[Group[p]] # <<>> /\ Head(line[Group[p]]) = p
    /\ \A p \in Posts : spot[p] = "wait" =>
          \E i \in DOMAIN line[Group[p]] : line[Group[p]][i] = p

\* Whoever worked for an album has handled all of it.
Served ==
    /\ \A p \in Posts : spot[p] = "record" => \A q \in Mates(p) : Handled(q)
    /\ \A p \in Posts : spot[p] = "parts" => \A q \in Mates(p) \ todo[p] : Handled(q)
    /\ \A g \in Posts : line[g] # <<>> =>
          \/ \E h \in Posts : Group[h] = g /\ spot[h] \in Working
          \/ \A q \in Posts : Group[q] = g => Handled(q)

\* The list runs ahead of the posts announced only by posts that were handled.
LastServed ==
    \A p \in Posts : p > newest /\ p <= entry.last => Handled(p) \/ Enclosed(p)

\* The list says that an album is through, or will never want it again, and nobody sends.
Through(g) ==
    /\ entry.there => \A m \in Posts : Group[m] = g => m <= entry.last
    /\ \A m \in Posts : Group[m] = g => spot[m] \notin Sends

\* Handlers whose copy of q, as a member of the album, is behind them.
Contributed(q) == {p \in Mates(q) : \/ spot[p] \in {"record", "done", "single"}
                                    \/ spot[p] = "parts" /\ q \notin todo[p]}

OwnCopy(q) == IF spot[q] \in {"record", "done"} THEN 1 ELSE 0

CopiesBounded ==
    /\ \A q \in Posts : unsure[q] <= copies[q]
    /\ \A q \in Posts : ~InAlbum(q) => Acked(q) <= OwnCopy(q)
    /\ \A q \in Posts : InAlbum(q) => Acked(q) <= Cardinality(Contributed(q)) + OwnCopy(q)

\* While an album holds together, a copy of one of its posts is the last one.
OneRound ==
    ~anew => \A q \in Posts : InAlbum(q) /\ Group[q] \notin apart /\ Acked(q) # 0 =>
        /\ Acked(q) = 1
        /\ \/ Through(Group[q])
           \/ \E p \in Mates(q) : spot[p] = "parts" /\ q \notin todo[p] /\ any[p]

\* Losses are counted truly, and a channel that is listed and on has not lost too often.
Struck ==
    /\ strikes = losses
    /\ entry.on => entry.there
    /\ ~anew /\ entry.there => losses < FailLimit

ForwardInv == /\ ForwardTypes /\ OnTheWay /\ Locked /\ Served /\ LastServed /\ NonePassedOver
              /\ CopiesBounded /\ OneRound /\ Struck


\* Handlers other than that of p are where they were.
OthersRest(p) == \A q \in Posts \ {p} : spot'[q] = spot[q] /\ todo'[q] = todo[q] /\ any'[q] = any[q]

\* What has happened has happened.
HistoryGrows ==
        /\ \A q \in Posts : copies[q] <= copies'[q]
        /\ skipped \subseteq skipped' /\ late \subseteq late' /\ failed \subseteq failed'
        /\ apart \subseteq apart' /\ newest <= newest'

\* What Append and Tail do to a line.
LEMMA AppendFacts ==
    ASSUME NEW S, NEW q \in Seq(S), NEW x \in S
    PROVE  /\ Append(q, x) \in Seq(S) /\ Append(q, x) # <<>>
           /\ Len(Append(q, x)) = Len(q) + 1 /\ DOMAIN Append(q, x) = 1..(Len(q) + 1)
           /\ \A i \in 1..Len(q) : Append(q, x)[i] = q[i]
           /\ Append(q, x)[Len(q) + 1] = x
           /\ Head(Append(q, x)) = (IF q = <<>> THEN x ELSE Head(q))
  OBVIOUS

LEMMA TailFacts ==
    ASSUME NEW S, NEW q \in Seq(S), q # <<>>
    PROVE  /\ Head(q) \in S /\ Head(q) = q[1] /\ Tail(q) \in Seq(S)
           /\ Len(q) \in Nat /\ Len(q) >= 1 /\ Len(Tail(q)) = Len(q) - 1
           /\ DOMAIN Tail(q) = 1..(Len(q) - 1)
           /\ \A i \in 1..(Len(q) - 1) : Tail(q)[i] = q[i + 1]
  OBVIOUS

\* An album has a last post, and finitely many; who belongs to one shares its form.
LEMMA AlbumFacts ==
    ASSUME NEW p \in Posts
    PROVE  /\ p \in Mates(p) /\ Mates(p) \subseteq Posts /\ IsFiniteSet(Mates(p))
           /\ \A q \in Mates(p) : Mates(q) = Mates(p) /\ (InAlbum(q) <=> InAlbum(p))
           /\ ~InAlbum(p) => Mates(p) = {p}
           /\ Highest(Mates(p)) \in Mates(p) /\ \A q \in Mates(p) : q <= Highest(Mates(p))
           /\ Group[p] \in Posts /\ p \in Nat /\ p > 0
<1>0. /\ Posts \subseteq Nat \ {0} /\ Group[p] \in Posts
      /\ \A q \in Posts : Group[p] = Group[q] /\ p # q => FormOf[p] \in {"photo", "mixed"}
  BY ForwardAssumption
<1>1. p \in Mates(p) /\ Mates(p) \subseteq Posts
  BY DEF Mates
<1>2. PICK h \in Mates(p) : \A q \in Mates(p) : q <= h
  BY ForwardAssumption
<1>3. IsFiniteSet(Mates(p))
  <2>1. h \in Nat /\ \A q \in Mates(p) : q \in Nat /\ q <= h
    BY <1>0, <1>1, <1>2
  <2>2. IsFiniteSet(0..h)
    BY <2>1, FS_Interval
  <2>3. \A q \in Nat : q <= h => q \in 0..h
    BY <2>1
  <2>4. Mates(p) \subseteq 0..h
    BY <2>1, <2>3
  <2> QED BY <2>2, <2>4, FS_Subset
<1>4. \A q \in Mates(p) : Mates(q) = Mates(p) /\ (InAlbum(q) <=> InAlbum(p))
  <2> SUFFICES ASSUME NEW q \in Mates(p) PROVE Mates(q) = Mates(p) /\ (InAlbum(q) <=> InAlbum(p))
    OBVIOUS
  <2>1. q \in Posts /\ Group[q] = Group[p]
    BY DEF Mates
  <2>2. FormOf[q] = FormOf[p]
    BY <2>1, ForwardAssumption
  <2> QED BY <2>1, <2>2 DEF Mates, InAlbum
<1>5. ~InAlbum(p) => Mates(p) = {p}
  BY <1>0, <1>1 DEF Mates, InAlbum
<1>6. Highest(Mates(p)) \in Mates(p) /\ \A q \in Mates(p) : q <= Highest(Mates(p))
  BY <1>2 DEF Highest
<1> QED BY <1>0, <1>1, <1>3, <1>4, <1>5, <1>6

\* A set of posts that is not empty has a first one.
LEMMA LowestIsIn ==
    ASSUME NEW S \in SUBSET Posts, S # {}
    PROVE  Lowest(S) \in S
<1>1. S \subseteq Nat
  BY ForwardAssumption
<1>2. PICK p \in S : \A q \in S : ~(<<q, p>> \in OpToRel(<, Nat))
  BY <1>1, NatLessThanWellFounded, WFMin
<1>3. \A q \in S : p <= q
  <2> SUFFICES ASSUME NEW q \in S PROVE ~(q < p)
    BY <1>1
  <2>1. q < p => <<q, p>> \in OpToRel(<, Nat)
    BY <1>1 DEF OpToRel
  <2> QED BY <2>1, <1>2
<1> QED BY <1>3 DEF Lowest

\* The step of a handler, one variable after the other.
LEMMA WayStep ==
    ASSUME ForwardTypes, NEW p \in Posts, Handler(p)
    PROVE  /\ OthersRest(p)
           /\ spot'[p] # "new" /\ spot[p] # "new" /\ spot[p] # "done"
           /\ \/ spot[p] = "wait" /\ Wanted(p) /\ spot'[p] = (IF FormOf[p] = "text" THEN "text" ELSE "probe")
              \/ spot[p] = "wait" /\ ~Wanted(p) /\ spot'[p] = "done"
              \/ spot[p] = "text" /\ spot'[p] \in {"record", "done"}
              \/ spot[p] = "probe" /\ spot'[p] = (IF InAlbum(p) THEN "group" ELSE "single")
              \/ spot[p] = "probe" /\ spot'[p] = "done"
              \/ spot[p] = "group" /\ spot'[p] \in {"album", "parts", "done"}
              \/ spot[p] = "album" /\ spot'[p] \in {"record", "done"}
              \/ spot[p] = "parts" /\ spot'[p] \in {"parts", "record", "done"}
              \/ spot[p] \in {"group", "album", "parts"} /\ spot'[p] = "single"
                   /\ Group[p] \in failed' /\ Group[p] \in apart'
              \/ spot[p] = "single" /\ spot'[p] \in {"record", "done"}
              \/ spot[p] = "record" /\ spot'[p] = "done"
<1> USE DEF ForwardTypes, In, To, Quit, Trouble, CopyFails, OthersRest
<1>1. CASE Admit(p)
  BY <1>1, SMTT(30) DEF Admit, Enters
<1>2. CASE Text(p)
  BY <1>2 DEF Text
<1>3. CASE LookUp(p)
  BY <1>3 DEF LookUp
<1>4. CASE ProbeFails(p)
  BY <1>4 DEF ProbeFails
<1>5. CASE Gather(p)
  BY <1>5 DEF Gather
<1>6. CASE WholeAlbum(p)
  BY <1>6 DEF WholeAlbum
<1>7. CASE FallsApart(p)
  BY <1>7 DEF FallsApart
<1>8. CASE Part(p)
  BY <1>8 DEF Part
<1>9. CASE PartsEnd(p)
  BY <1>9 DEF PartsEnd
<1>10. CASE Single(p)
  BY <1>10 DEF Single
<1>11. CASE Record(p)
  BY <1>11 DEF Record
<1>12. CASE LoseAccess(p)
  BY <1>12 DEF LoseAccess
<1> QED BY <1>1, <1>2, <1>3, <1>4, <1>5, <1>6, <1>7, <1>8, <1>9, <1>10, <1>11, <1>12 DEF Handler

LEMMA LineStep ==
    ASSUME ForwardTypes, NEW p \in Posts, Handler(p)
    PROVE  \/ line' = line /\ spot'[p] \in Working
           \/ line' = [line EXCEPT ![Group[p]] = Tail(@)] /\ spot'[p] = "done"
  BY DEF ForwardTypes, In, To, Quit, Trouble, CopyFails, Handler, Admit, Enters, Text, LookUp, ProbeFails, Gather,
         WholeAlbum, FallsApart, Part, PartsEnd, Single, Record, LoseAccess, Working, Sends

LEMMA TheFirst ==
    ASSUME ForwardTypes, Locked, NEW p \in Posts, Handler(p)
    PROVE  /\ Head(line[Group[p]]) = p /\ line[Group[p]] # <<>> /\ line[Group[p]] \in Seq(Posts)
           /\ \A q \in Posts \ {p} : Group[q] = Group[p] => spot[q] \notin Working
<1>0. Group[p] \in Posts /\ line[Group[p]] \in Seq(Posts)
  BY ForwardAssumption DEF ForwardTypes
<1>1. CASE spot[p] = "wait"
  <2>1. Head(line[Group[p]]) = p
    BY <1>1 DEF Handler, In, Admit, Text, LookUp, ProbeFails, Gather,
         WholeAlbum, FallsApart, Part, PartsEnd, Single, Record, LoseAccess
  <2>2. line[Group[p]] # <<>>
    BY <1>0, <1>1 DEF Locked
  <2> QED BY <2>1, <2>2, <1>0 DEF Locked
<1>2. CASE spot[p] # "wait"
  <2>1. spot[p] \in Working
    BY <1>2, WayStep DEF Working, Sends
  <2> QED BY <2>1, <1>0 DEF Locked
<1> QED BY <1>1, <1>2

LEMMA KeptStep ==
    ASSUME ForwardTypes, NEW p \in Posts, Handler(p)
    PROVE  HistoryGrows /\ newest' = newest /\ late' = late /\ anew' = anew
<1>1. newest' = newest /\ late' = late /\ anew' = anew
  BY DEF forwardHistory, Trouble, CopyFails, Quit, Handler, Admit, Text, LookUp, ProbeFails, Gather, WholeAlbum,
         FallsApart, Part, PartsEnd, Single, Record, LoseAccess
<1>2. skipped \subseteq skipped' /\ failed \subseteq failed' /\ apart \subseteq apart'
  BY DEF forwardHistory, Trouble, CopyFails, Quit, PassedBy, Handler, Admit, Text, LookUp, ProbeFails, Gather,
         WholeAlbum, FallsApart, Part, PartsEnd, Single, Record, LoseAccess
<1>3. \A q \in Posts : copies[q] <= copies'[q]
  <2>1. copies' = copies \/ \E S : copies' = [q \in Posts |-> copies[q] + IF q \in S THEN 1 ELSE 0]
    BY DEF forwardHistory, Trouble, CopyFails, Copy, Quit, PassedBy, Handler, Admit, Text, LookUp, ProbeFails,
           Gather, WholeAlbum, FallsApart, Part, PartsEnd, Single, Record, LoseAccess
  <2>2. copies \in [Posts -> Nat]
    BY DEF ForwardTypes
  <2> QED BY <2>1, <2>2
<1>4. newest <= newest'
  BY <1>1, ForwardAssumption DEF ForwardTypes
<1> QED BY <1>1, <1>2, <1>3, <1>4 DEF HistoryGrows

\* The list remembers the post, or the last of its album; it never goes back.
LEMMA EntryStep ==
    ASSUME ForwardTypes, NEW p \in Posts, Handler(p)
    PROVE  /\ entry' \in [there : BOOLEAN, on : BOOLEAN, last : Posts \cup {0}]
           /\ entry'.there = entry.there /\ (entry'.on => entry.on) /\ entry.last <= entry'.last
           /\ \/ entry'.last = entry.last
              \/ entry'.last = p /\ spot[p] = "record"
              \/ entry'.last = Highest(Mates(p)) /\ spot'[p] = "record"
           /\ spot[p] \in {"album", "parts"} /\ spot'[p] = "record" =>
                 Forwarded(Highest(Mates(p)))
<1>0. /\ entry \in [there : BOOLEAN, on : BOOLEAN, last : Posts \cup {0}] /\ spot \in [Posts -> Spots]
      /\ \A q \in Posts \cup {0} : q \in Nat
  BY ForwardAssumption DEF ForwardTypes
<1>1. Highest(Mates(p)) \in Posts
  BY AlbumFacts
<1>2. \/ entry' = entry
      \/ entry' = [entry EXCEPT !.on = FALSE]
      \/ Forwarded(p) /\ spot[p] = "record"
      \/ Forwarded(Highest(Mates(p))) /\ spot' = [spot EXCEPT ![p] = "record"]
  BY DEF forwardHistory, In, To, Quit, Handler, Admit, Text, LookUp, ProbeFails, Gather, WholeAlbum,
         FallsApart, Part, PartsEnd, Single, Record, LoseAccess
<1>3. spot[p] \in {"album", "parts"} /\ spot'[p] = "record" => Forwarded(Highest(Mates(p)))
  BY <1>0 DEF forwardHistory, In, To, Quit, Handler, Admit, Text, LookUp, ProbeFails, Gather, WholeAlbum,
         FallsApart, Part, PartsEnd, Single, Record, LoseAccess
<1>4. ASSUME NEW n \in Posts, Forwarded(n)
      PROVE  /\ entry' \in [there : BOOLEAN, on : BOOLEAN, last : Posts \cup {0}]
             /\ entry'.there = entry.there /\ entry'.on = entry.on /\ entry.last <= entry'.last
             /\ entry'.last = entry.last \/ entry'.last = n
  BY <1>0, <1>4 DEF Forwarded
<1>5. CASE entry' = entry \/ entry' = [entry EXCEPT !.on = FALSE]
  <2>1. /\ entry' \in [there : BOOLEAN, on : BOOLEAN, last : Posts \cup {0}]
        /\ entry'.there = entry.there /\ (entry'.on => entry.on) /\ entry'.last = entry.last
    BY <1>0, <1>5
  <2> QED BY <1>0, <1>3, <2>1
<1>6. CASE Forwarded(p) /\ spot[p] = "record"
  BY <1>3, <1>4, <1>6
<1>7. CASE Forwarded(Highest(Mates(p))) /\ spot' = [spot EXCEPT ![p] = "record"]
  BY <1>0, <1>1, <1>3, <1>4, <1>7
<1> QED BY <1>2, <1>5, <1>6, <1>7

\* Whose copy, sent by the handler of p, is acknowledged.
Gets(p, q) == \/ spot[p] \in {"text", "single"} /\ spot'[p] = "record" /\ q = p
              \/ spot[p] = "album" /\ spot'[p] = "record" /\ q \in Mates(p)
              \/ /\ spot[p] = "parts" /\ spot'[p] = "parts" /\ q \in todo[p]
                 /\ todo'[p] = todo[p] \ {q} /\ any'[p]

LEMMA AckStep ==
    ASSUME ForwardTypes, NEW p \in Posts, Handler(p), NEW q \in Posts
    PROVE  /\ copies' \in [Posts -> Nat] /\ unsure' \in [Posts -> Nat]
           /\ unsure[q] <= copies[q] => unsure'[q] <= copies'[q]
           /\ Acked(q)' = Acked(q) \/ (Acked(q)' = Acked(q) + 1 /\ Gets(p, q) /\ copies'[q] > 0)
           /\ Gets(p, q) /\ spot[p] # "single" /\ spot[p] # "parts" => copies'[q] > 0
<1>0. copies \in [Posts -> Nat] /\ unsure \in [Posts -> Nat] /\ spot \in [Posts -> Spots]
      /\ todo \in [Posts -> SUBSET Posts] /\ any \in [Posts -> BOOLEAN]
  BY DEF ForwardTypes
<1>1. \/ copies' = copies /\ unsure' = unsure
      \/ \E S : /\ copies' = [x \in Posts |-> copies[x] + IF x \in S THEN 1 ELSE 0]
                /\ unsure' = [x \in Posts |-> unsure[x] + IF x \in S THEN 1 ELSE 0]
      \/ \E S : /\ copies' = [x \in Posts |-> copies[x] + IF x \in S THEN 1 ELSE 0] /\ unsure' = unsure
                /\ q \in S => Gets(p, q)
  <2>1. CASE Text(p) \/ Single(p)
    BY <1>0, <2>1 DEF Text, Single, In, To, Copy, CopyFails, Gets
  <2>2. CASE WholeAlbum(p)
    BY <1>0, <2>2 DEF WholeAlbum, In, To, Copy, Gets
  <2>3. CASE Part(p)
    <3>1. Lowest(todo[p]) \in todo[p]
      BY <1>0, <2>3, LowestIsIn DEF Part
    <3> QED BY <1>0, <2>3, <3>1 DEF Part, In, Copy, CopyFails, Gets
  <2>4. CASE FallsApart(p)
    BY <2>4 DEF FallsApart, CopyFails, Copy
  <2>5. CASE \/ Admit(p) \/ LookUp(p) \/ ProbeFails(p) \/ Gather(p) \/ PartsEnd(p) \/ Record(p) \/ LoseAccess(p)
    BY <2>5 DEF forwardHistory, Admit, LookUp, ProbeFails, Gather, PartsEnd, Record, LoseAccess
  <2> QED BY <2>1, <2>2, <2>3, <2>4, <2>5 DEF Handler
<1>2. ASSUME copies' = copies, unsure' = unsure
      PROVE  /\ copies' \in [Posts -> Nat] /\ unsure' \in [Posts -> Nat]
             /\ unsure[q] <= copies[q] => unsure'[q] <= copies'[q]
             /\ Acked(q)' = Acked(q)
  BY <1>0, <1>2 DEF Acked
<1>3. ASSUME NEW S, copies' = [x \in Posts |-> copies[x] + IF x \in S THEN 1 ELSE 0],
             unsure' = [x \in Posts |-> unsure[x] + IF x \in S THEN 1 ELSE 0]
      PROVE  /\ copies' \in [Posts -> Nat] /\ unsure' \in [Posts -> Nat]
             /\ unsure[q] <= copies[q] => unsure'[q] <= copies'[q]
             /\ Acked(q)' = Acked(q)
  BY <1>0, <1>3 DEF Acked
<1>4. ASSUME NEW S, copies' = [x \in Posts |-> copies[x] + IF x \in S THEN 1 ELSE 0], unsure' = unsure,
             q \in S => Gets(p, q)
      PROVE  /\ copies' \in [Posts -> Nat] /\ unsure' \in [Posts -> Nat]
             /\ unsure[q] <= copies[q] => unsure'[q] <= copies'[q]
             /\ Acked(q)' = Acked(q) \/ (Acked(q)' = Acked(q) + 1 /\ Gets(p, q) /\ copies'[q] > 0)
  BY <1>0, <1>4 DEF Acked
<1>5. Gets(p, q) /\ spot[p] # "single" /\ spot[p] # "parts" => copies'[q] > 0
  <2> SUFFICES ASSUME Gets(p, q), spot[p] # "single", spot[p] # "parts" PROVE copies'[q] > 0
    OBVIOUS
  <2>1. \/ copies' = [x \in Posts |-> copies[x] + IF x \in {p} THEN 1 ELSE 0] /\ q \in {p}
        \/ copies' = [x \in Posts |-> copies[x] + IF x \in Mates(p) THEN 1 ELSE 0] /\ q \in Mates(p)
    BY <1>0 DEF Gets, Handler, In, To, Quit, Admit, Text, LookUp, ProbeFails, Gather, WholeAlbum, FallsApart, Part,
                PartsEnd, Single, Record, LoseAccess, Copy
  <2> QED BY <1>0, <2>1
<1> QED BY <1>1, <1>2, <1>3, <1>4, <1>5

\* The types, for any step.
LEMMA PaysStep ==
    ASSUME ForwardTypes, NEW what \in {"orders", "troubles", "restarts"}, Pays(what)
    PROVE  budget' \in [orders : Nat, troubles : Nat, restarts : Nat]
<1>1. budget \in [orders : Nat, troubles : Nat, restarts : Nat]
  BY DEF ForwardTypes
<1>2. CASE what = "orders"
  BY <1>1, <1>2 DEF Pays
<1>3. CASE what = "troubles"
  BY <1>1, <1>3 DEF Pays
<1>4. CASE what = "restarts"
  BY <1>1, <1>4 DEF Pays
<1> QED BY <1>2, <1>3, <1>4

LEMMA ForwardTypesStep ==
    ASSUME ForwardTypes, Locked, [ForwardNext]_forwardVars
    PROVE  ForwardTypes'
<1>0. /\ Posts \subseteq Nat \ {0} /\ Group \in [Posts -> Posts]
  BY ForwardAssumption
<1>. /\ spot \in [Posts -> Spots] /\ line \in [Posts -> Seq(Posts)] /\ newest \in Posts \cup {0}
     /\ todo \in [Posts -> SUBSET Posts] /\ any \in [Posts -> BOOLEAN]
     /\ copies \in [Posts -> Nat] /\ unsure \in [Posts -> Nat]
  BY DEF ForwardTypes
<1>1. ASSUME NEW p \in Posts, Announce(p) PROVE ForwardTypes'
  <2>1. spot' \in [Posts -> Spots]
    BY <1>1 DEF Announce, To, Enters, Spots, Working, Sends
  <2>4. newest' \in Posts \cup {0}
    BY <1>1 DEF Announce
  <2>3. line' \in [Posts -> Seq(Posts)]
    <3>1. line' = line \/ line' = [line EXCEPT ![Group[p]] = Append(@, p)]
      BY <1>1 DEF Announce
    <3>2. Group[p] \in Posts /\ line[Group[p]] \in Seq(Posts)
      BY <1>0
    <3>3. Append(line[Group[p]], p) \in Seq(Posts)
      BY <3>2, AppendFacts
    <3> QED BY <3>1, <3>2, <3>3
  <2>2. skipped' \subseteq Posts /\ late' \subseteq Posts
    BY <1>1 DEF Announce, PassedBy, ForwardTypes
  <2>5. ForwardTypes /\ UNCHANGED <<entry, losses, todo, any, budget, copies, unsure, failed, apart, anew, strikes>>
    BY <1>1 DEF Announce
  <2> QED BY <2>1, <2>2, <2>3, <2>4, <2>5 DEF ForwardTypes
<1>2. ASSUME NEW p \in Posts, Handler(p) PROVE ForwardTypes'
  <2>1. entry' \in [there : BOOLEAN, on : BOOLEAN, last : Posts \cup {0}]
    BY <1>2, EntryStep
  <2>2. losses' \in Nat /\ strikes' \in Nat
    BY <1>2 DEF ForwardTypes, forwardHistory, Quit, CopyFails, Handler, Admit, Text, LookUp, ProbeFails, Gather,
                WholeAlbum, FallsApart, Part, PartsEnd, Single, Record, LoseAccess
  <2>3. line' \in [Posts -> Seq(Posts)]
    <3>1. Group[p] \in Posts /\ line[Group[p]] \in Seq(Posts) /\ line[Group[p]] # <<>>
      BY <1>0, <1>2, TheFirst
    <3>3. \A q \in Seq(Posts) : q # <<>> => Tail(q) \in Seq(Posts)
      BY TailFacts
    <3>2. Tail(line[Group[p]]) \in Seq(Posts)
      BY <3>1, <3>3
    <3>4. line' = line \/ line' = [line EXCEPT ![Group[p]] = Tail(@)]
      BY <1>2, LineStep
    <3> QED BY <3>1, <3>2, <3>4
  <2>4. spot' \in [Posts -> Spots]
    BY <1>2 DEF ForwardTypes, Spots, Working, Sends, To, Quit, Enters, Handler, Admit, Text, LookUp, ProbeFails, Gather,
                WholeAlbum, FallsApart, Part, PartsEnd, Single, Record, LoseAccess
  <2>5. todo' \in [Posts -> SUBSET Posts] /\ any' \in [Posts -> BOOLEAN]
    <3>1. Mates(p) \subseteq Posts
      BY AlbumFacts
    <3>2. \/ todo' = todo
          \/ \E q : todo' = [todo EXCEPT ![p] = @ \ {q}]
          \/ todo' = [todo EXCEPT ![p] = {}]
          \/ todo' = [todo EXCEPT ![p] = Mates(p)]
      BY <1>2 DEF forwardHistory, Handler, Admit, Text, LookUp, ProbeFails, Gather, WholeAlbum, FallsApart, Part,
                  PartsEnd, Single, Record, LoseAccess
    <3>3. any' = any \/ any' = [any EXCEPT ![p] = TRUE]
      BY <1>2 DEF forwardHistory, Handler, Admit, Text, LookUp, ProbeFails, Gather, WholeAlbum, FallsApart, Part,
                  PartsEnd, Single, Record, LoseAccess
    <3>4. todo' \in [Posts -> SUBSET Posts]
      BY <3>1, <3>2
    <3> QED BY <3>3, <3>4
  <2>6. budget' \in [orders : Nat, troubles : Nat, restarts : Nat]
    <3>1. budget' = budget \/ Pays("troubles")
      BY <1>2 DEF forwardHistory, Trouble, CopyFails, Quit, Handler, Admit, Text, LookUp, ProbeFails, Gather,
                WholeAlbum, FallsApart, Part, PartsEnd, Single, Record, LoseAccess
    <3> QED BY <3>1, PaysStep DEF ForwardTypes
  <2>7. copies' \in [Posts -> Nat] /\ unsure' \in [Posts -> Nat]
    BY <1>2, AckStep
  <2>8. newest' \in Posts \cup {0} /\ late' \subseteq Posts /\ anew' \in BOOLEAN
    BY <1>2, KeptStep DEF ForwardTypes
  <2>9. skipped' \subseteq Posts /\ failed' \subseteq Posts /\ apart' \subseteq Posts
    <3>1. skipped \subseteq Posts /\ failed \subseteq Posts /\ apart \subseteq Posts /\ Group[p] \in Posts
      BY <1>0 DEF ForwardTypes
    <3>2. skipped' = skipped \/ skipped' = skipped \cup {p}
      BY <1>2 DEF forwardHistory, PassedBy, Handler, Admit, Text, LookUp, ProbeFails, Gather, WholeAlbum, FallsApart,
                  Part, PartsEnd, Single, Record, LoseAccess
    <3>3. failed' = failed \/ failed' = failed \cup {Group[p]}
      BY <1>2 DEF forwardHistory, Trouble, CopyFails, Handler, Admit, Text, LookUp, ProbeFails, Gather, WholeAlbum,
                  FallsApart, Part, PartsEnd, Single, Record, LoseAccess
    <3>4. apart' = apart \/ apart' = apart \cup {Group[p]}
      BY <1>2 DEF forwardHistory, Handler, Admit, Text, LookUp, ProbeFails, Gather, WholeAlbum, FallsApart, Part,
                  PartsEnd, Single, Record, LoseAccess
    <3> QED BY <3>1, <3>2, <3>3, <3>4
  <2> QED BY <2>1, <2>2, <2>3, <2>4, <2>5, <2>6, <2>7, <2>8, <2>9 DEF ForwardTypes
<1>3. CASE OwnerOrders
  <2>1. budget' \in [orders : Nat, troubles : Nat, restarts : Nat]
    BY <1>3, PaysStep DEF OwnerOrders
  <2>2. entry' \in [there : BOOLEAN, on : BOOLEAN, last : Posts \cup {0}] /\ anew' \in BOOLEAN
    <3>1. entry \in [there : BOOLEAN, on : BOOLEAN, last : Posts \cup {0}] /\ anew \in BOOLEAN
      BY DEF ForwardTypes
    <3>2. anew' \in BOOLEAN
      BY <1>3, <3>1 DEF OwnerOrders
    <3>3. entry' = Listed \/ entry' = NotListed \/ entry' = [entry EXCEPT !.on = ~@]
      BY <1>3 DEF OwnerOrders
    <3>4. entry' \in [there : BOOLEAN, on : BOOLEAN, last : Posts \cup {0}]
      <4>1. CASE entry' = [entry EXCEPT !.on = ~@]
        <5>1. (~ entry.on) \in BOOLEAN
          OBVIOUS
        <5>2. PICK b \in BOOLEAN : entry' = [entry EXCEPT !.on = b]
          BY <4>1, <5>1
        <5> QED BY <3>1, <5>2
      <4>2. CASE entry' = [there |-> TRUE, on |-> TRUE, last |-> 0]
        BY <4>2
      <4>3. CASE entry' = [there |-> FALSE, on |-> FALSE, last |-> 0]
        BY <4>3
      <4> QED BY <3>3, <4>1, <4>2, <4>3 DEF Listed, NotListed
    <3> QED BY <3>2, <3>4
  <2> QED BY <1>3, <2>1, <2>2 DEF OwnerOrders, ForwardTypes
<1>4. CASE Restart
  <2>1. budget' \in [orders : Nat, troubles : Nat, restarts : Nat]
    BY <1>4, PaysStep DEF Restart
  <2>2. copies' \in [Posts -> Nat] /\ unsure' \in [Posts -> Nat]
    <3>1. PICK S : /\ copies' = [q \in Posts |-> copies[q] + IF q \in S THEN 1 ELSE 0]
                   /\ unsure' = [q \in Posts |-> unsure[q] + IF q \in S THEN 1 ELSE 0]
      BY <1>4 DEF Restart, Copy
    <3> QED BY <3>1
  <2>3. spot' \in [Posts -> Spots]
    BY <1>4 DEF Restart, Spots
  <2>4. line' \in [Posts -> Seq(Posts)]
    BY <1>4 DEF Restart
  <2>5. apart' \subseteq Posts
    <3>1. apart \subseteq Posts /\ \A p \in Posts : Group[p] \in Posts
      BY <1>0 DEF ForwardTypes
    <3> QED BY <1>4, <3>1 DEF Restart
  <2>6. /\ ForwardTypes /\ UNCHANGED <<entry, todo, any, skipped, newest, late, failed, anew>>
        /\ losses' = 0 /\ strikes' = 0
    BY <1>4 DEF Restart
  <2> QED BY <2>1, <2>2, <2>3, <2>4, <2>5, <2>6 DEF ForwardTypes
<1>5. CASE UNCHANGED forwardVars
  BY <1>5 DEF forwardVars, forwardHistory, ForwardTypes
<1> QED BY <1>1, <1>2, <1>3, <1>4, <1>5 DEF ForwardNext

\* Where the handlers are, what they need for it.
LEMMA OnTheWayStep ==
    ASSUME ForwardTypes, ForwardTypes', OnTheWay, [ForwardNext]_forwardVars
    PROVE  OnTheWay'
<1>0. /\ newest \in Nat /\ \A p \in Posts : p \in Nat /\ p > 0 /\ Group[p] \in Posts
      /\ spot \in [Posts -> Spots] /\ spot' \in [Posts -> Spots]
  <2>1. \A p \in Posts : p \in Nat /\ p > 0 /\ Group[p] \in Posts
    BY ForwardAssumption
  <2>2. newest \in Posts \cup {0} /\ spot \in [Posts -> Spots] /\ spot' \in [Posts -> Spots]
    BY DEF ForwardTypes
  <2> QED BY <2>1, <2>2
<1>1. ASSUME NEW p \in Posts, Announce(p) PROVE OnTheWay'
  <2>1. /\ spot[p] = "new" /\ \A q \in Posts \ {p} : spot'[q] = spot[q]
        /\ spot'[p] \in {"done", "text", "probe", "wait"} /\ (spot'[p] = "text" => FormOf[p] = "text")
    BY <1>0, <1>1 DEF Announce, In, To, Enters
  <2>2. newest' \in Nat /\ newest' >= newest /\ newest' >= p /\ newest' \in {newest, p}
    BY <1>0, <1>1 DEF Announce
  <2>3. todo' = todo /\ apart' = apart /\ failed' = failed
    BY <1>1 DEF Announce
  <2> SUFFICES ASSUME NEW q \in Posts
               PROVE  /\ spot'[q] = "text" => FormOf[q] = "text"
                      /\ spot'[q] \in {"group", "album", "parts"} => InAlbum(q)
                      /\ spot'[q] = "single" /\ InAlbum(q) => Group[q] \in apart' /\ Group[q] \in failed'
                      /\ spot'[q] = "parts" => todo'[q] \subseteq Mates(q)
                      /\ spot'[q] \notin {"new", "done"} => q <= newest'
                      /\ q = newest' => spot'[q] # "new"
    BY DEF OnTheWay, InAlbum, Mates
  <2>4. /\ spot[q] = "text" => FormOf[q] = "text"
        /\ spot[q] \in {"group", "album", "parts"} => InAlbum(q)
        /\ spot[q] = "single" /\ InAlbum(q) => Group[q] \in apart /\ Group[q] \in failed
        /\ spot[q] = "parts" => todo[q] \subseteq Mates(q)
        /\ spot[q] \notin {"new", "done"} => q <= newest
        /\ q = newest => spot[q] # "new"
    BY DEF OnTheWay
  <2>5. CASE q = p
    BY <1>0, <2>1, <2>2, <2>5
  <2>6. CASE q # p
    BY <1>0, <2>1, <2>2, <2>3, <2>4, <2>6
  <2> QED BY <2>5, <2>6
<1>2. ASSUME NEW p \in Posts, Handler(p) PROVE OnTheWay'
  <2> SUFFICES ASSUME NEW q \in Posts
               PROVE  /\ spot'[q] = "text" => FormOf[q] = "text"
                      /\ spot'[q] \in {"group", "album", "parts"} => InAlbum(q)
                      /\ spot'[q] = "single" /\ InAlbum(q) => Group[q] \in apart' /\ Group[q] \in failed'
                      /\ spot'[q] = "parts" => todo'[q] \subseteq Mates(q)
                      /\ spot'[q] \notin {"new", "done"} => q <= newest'
                      /\ q = newest' => spot'[q] # "new"
    BY DEF OnTheWay, InAlbum, Mates
  <2>1. /\ spot[q] = "text" => FormOf[q] = "text"
        /\ spot[q] \in {"group", "album", "parts"} => InAlbum(q)
        /\ spot[q] = "single" /\ InAlbum(q) => Group[q] \in apart /\ Group[q] \in failed
        /\ spot[q] = "parts" => todo[q] \subseteq Mates(q)
        /\ spot[q] \notin {"new", "done"} => q <= newest
        /\ q = newest => spot[q] # "new"
    BY DEF OnTheWay
  <2>2. newest' = newest /\ apart \subseteq apart' /\ failed \subseteq failed'
    BY <1>2, KeptStep DEF HistoryGrows
  <2>3. CASE q # p
    BY <1>2, <2>1, <2>2, <2>3, WayStep DEF OthersRest
  <2>4. CASE q = p
    <3>1. /\ spot[p] # "new" /\ spot[p] # "done" /\ spot'[p] # "new"
      BY <1>2, WayStep
    <3>2. spot'[p] = "text" => FormOf[p] = "text"
      BY <1>2, WayStep
    <3>3. spot'[p] \in {"group", "album", "parts"} => InAlbum(p)
      BY <1>2, <2>1, <2>4, WayStep
    <3>4. spot'[p] = "single" /\ InAlbum(p) => Group[p] \in apart' /\ Group[p] \in failed'
      BY <1>2, WayStep
    <3>5. spot'[p] = "parts" => todo'[p] \subseteq Mates(p)
      <4>1. CASE spot[p] = "group"
        BY <1>0, <1>2, <4>1 DEF ForwardTypes, Handler, In, To, Quit, Admit, Text, LookUp, ProbeFails, Gather, WholeAlbum,
              FallsApart, Part, PartsEnd, Single, Record, LoseAccess
      <4>2. CASE spot[p] = "parts"
        <5>1. todo'[p] \subseteq todo[p]
          <6>1. todo' = todo \/ \E x : todo' = [todo EXCEPT ![p] = @ \ {x}]
            BY <1>0, <1>2, <4>2 DEF forwardHistory, Handler, In, Admit, Text, LookUp, ProbeFails, Gather, WholeAlbum,
                  FallsApart, Part, PartsEnd, Single, Record, LoseAccess
          <6>2. todo \in [Posts -> SUBSET Posts]
            BY DEF ForwardTypes
          <6> QED BY <6>1, <6>2
        <5> QED BY <2>1, <2>4, <4>2, <5>1
      <4> QED BY <1>2, <4>1, <4>2, WayStep
    <3> QED BY <2>1, <2>2, <2>4, <3>1, <3>2, <3>3, <3>4, <3>5
  <2> QED BY <2>3, <2>4
<1>3. CASE OwnerOrders
  BY <1>3 DEF OwnerOrders, OnTheWay, InAlbum, Mates
<1>4. CASE Restart
  BY <1>0, <1>4 DEF Restart, In, OnTheWay, InAlbum, Mates
<1>5. CASE UNCHANGED forwardVars
  BY <1>5 DEF forwardVars, forwardHistory, OnTheWay, InAlbum, Mates
<1> QED BY <1>1, <1>2, <1>3, <1>4, <1>5 DEF ForwardNext

LEMMA AnnounceStep ==
    ASSUME ForwardTypes, NEW p \in Posts, Announce(p)
    PROVE  /\ OthersRest(p) /\ spot[p] = "new" /\ todo' = todo /\ any' = any
           /\ \/ /\ Wanted(p) /\ line' = [line EXCEPT ![Group[p]] = Append(@, p)] /\ skipped' = skipped
                 /\ line[Group[p]] = <<>> => spot'[p] \in {"text", "probe"}
                 /\ line[Group[p]] # <<>> => spot'[p] = "wait"
              \/ ~Wanted(p) /\ line' = line /\ spot'[p] = "done" /\ PassedBy(p)
           /\ HistoryGrows /\ newest' \in {newest, p} /\ p <= newest' /\ (p < newest => p \in late')
           /\ UNCHANGED <<entry, losses, budget, copies, unsure, failed, apart, anew, strikes>>
<1>1. spot \in [Posts -> Spots] /\ newest \in Nat /\ \A q \in Posts : q \in Nat /\ copies[q] \in Nat
  <2>1. newest \in Posts \cup {0} /\ \A q \in Posts : q \in Nat
    BY ForwardAssumption DEF ForwardTypes
  <2> QED BY <2>1 DEF ForwardTypes
<1>2. OthersRest(p) /\ spot[p] = "new" /\ todo' = todo /\ any' = any
  BY <1>1 DEF Announce, In, To, Enters, OthersRest
<1>3. \/ /\ Wanted(p) /\ line' = [line EXCEPT ![Group[p]] = Append(@, p)] /\ skipped' = skipped
         /\ line[Group[p]] = <<>> => spot'[p] \in {"text", "probe"}
         /\ line[Group[p]] # <<>> => spot'[p] = "wait"
      \/ ~Wanted(p) /\ line' = line /\ spot'[p] = "done" /\ PassedBy(p)
  BY <1>1 DEF Announce, To, Enters
<1>4. newest' \in {newest, p} /\ p <= newest' /\ (p < newest => p \in late') /\ newest <= newest'
  BY <1>1 DEF Announce
<1>5. /\ skipped \subseteq skipped' /\ late \subseteq late'
      /\ UNCHANGED <<entry, losses, budget, copies, unsure, failed, apart, anew, strikes>>
  BY DEF Announce, PassedBy
<1> QED BY <1>1, <1>2, <1>3, <1>4, <1>5 DEF HistoryGrows

\* One handler of an album at a time.
LEMMA LockedStep ==
    ASSUME ForwardTypes, Locked, [ForwardNext]_forwardVars
    PROVE  Locked'
<1>0. /\ \A p \in Posts : Group[p] \in Posts
      /\ spot \in [Posts -> Spots] /\ line \in [Posts -> Seq(Posts)]
  BY ForwardAssumption DEF ForwardTypes
<1>a. ASSUME NEW q \in Posts
      PROVE  /\ line[Group[q]] \in Seq(Posts)
             /\ spot[q] \in Working => line[Group[q]] # <<>> /\ Head(line[Group[q]]) = q
             /\ spot[q] = "wait" => \E i \in DOMAIN line[Group[q]] : line[Group[q]][i] = q
  BY <1>0 DEF Locked
<1>1. ASSUME NEW p \in Posts, Announce(p) PROVE Locked'
  <2> DEFINE g == Group[p]
  <2>0. g \in Posts /\ line[g] \in Seq(Posts)
    BY <1>0
  <2>1. CASE spot'[p] = "done" /\ line' = line
    BY <1>1, <2>1, <1>0, <1>a, AnnounceStep, SMTT(30) DEF Locked, OthersRest, Working, Sends
  <2>2. CASE /\ line' = [line EXCEPT ![g] = Append(@, p)]
             /\ line[g] = <<>> => spot'[p] \in {"text", "probe"}
             /\ line[g] # <<>> => spot'[p] = "wait"
    <3>1. /\ line'[g] = Append(line[g], p) /\ \A k \in Posts \ {g} : line'[k] = line[k]
      BY <1>0, <2>0, <2>2
    <3>2. /\ line'[g] # <<>> /\ Len(line[g]) \in Nat /\ DOMAIN line[g] = 1..Len(line[g])
          /\ DOMAIN line'[g] = 1..(Len(line[g]) + 1)
          /\ \A i \in 1..Len(line[g]) : line'[g][i] = line[g][i]
          /\ line'[g][Len(line[g]) + 1] = p
          /\ Head(line'[g]) = (IF line[g] = <<>> THEN p ELSE Head(line[g]))
      BY <2>0, <3>1, AppendFacts
    <3> HIDE DEF g
    <3> SUFFICES ASSUME NEW q \in Posts
                 PROVE  /\ spot'[q] \in Working => line'[Group[q]] # <<>> /\ Head(line'[Group[q]]) = q
                        /\ spot'[q] = "wait" => \E i \in DOMAIN line'[Group[q]] : line'[Group[q]][i] = q
      BY DEF Locked
    <3>3. CASE q = p
      <4>1. Group[q] = g
        BY <3>3 DEF g
      <4>2. spot'[p] \in Working => line[g] = <<>>
        BY <2>2 DEF Working, Sends
      <4>3. Len(line[g]) + 1 \in DOMAIN line'[g]
        BY <3>2
      <4> QED BY <3>2, <3>3, <4>1, <4>2, <4>3
    <3>4. CASE q # p
      <4>1. spot'[q] = spot[q]
        BY <1>1, <3>4, AnnounceStep DEF OthersRest
      <4>2. CASE Group[q] = g
        <5>1. spot[q] \in Working => line'[g] # <<>> /\ Head(line'[g]) = q
          BY <1>a, <3>2, <4>2
        <5>2. ASSUME spot[q] = "wait" PROVE \E i \in DOMAIN line'[g] : line'[g][i] = q
          <6>1. PICK i \in DOMAIN line[g] : line[g][i] = q
            BY <1>a, <4>2, <5>2
          <6>2. i \in DOMAIN line'[g] /\ line'[g][i] = q
            BY <3>2, <6>1
          <6> QED BY <6>2
        <5> QED BY <4>1, <4>2, <5>1, <5>2
      <4>3. CASE Group[q] # g
        <5>1. line'[Group[q]] = line[Group[q]]
          BY <1>0, <3>1, <4>3
        <5> QED BY <1>a, <4>1, <5>1
      <4> QED BY <4>2, <4>3
    <3> QED BY <3>3, <3>4
  <2> QED BY <1>1, <2>1, <2>2, AnnounceStep
<1>2. ASSUME NEW p \in Posts, Handler(p) PROVE Locked'
  <2> DEFINE g == Group[p]
  <2>0. /\ g \in Posts /\ line[g] \in Seq(Posts) /\ line[g] # <<>> /\ Head(line[g]) = p
        /\ \A q \in Posts \ {p} : spot'[q] = spot[q] /\ (Group[q] = g => spot[q] \notin Working)
    BY <1>0, <1>2, TheFirst, WayStep DEF OthersRest
  <2>1. CASE line' = line /\ spot'[p] \in Working
    <3>1. spot'[p] # "wait"
      BY <2>1 DEF Working, Sends
    <3> QED BY <1>a, <2>0, <2>1, <3>1 DEF Locked
  <2>2. CASE line' = [line EXCEPT ![g] = Tail(@)] /\ spot'[p] = "done"
    <3>1. /\ line'[g] = Tail(line[g]) /\ \A k \in Posts \ {g} : line'[k] = line[k]
      BY <1>0, <2>0, <2>2
    <3>2. /\ Len(line[g]) \in Nat /\ DOMAIN line[g] = 1..Len(line[g]) /\ line[g][1] = p
          /\ DOMAIN line'[g] = 1..(Len(line[g]) - 1)
          /\ \A i \in 1..(Len(line[g]) - 1) : line'[g][i] = line[g][i + 1]
      BY <2>0, <3>1, TailFacts
    <3>3. spot'[p] \notin Working /\ spot'[p] # "wait"
      BY <2>2 DEF Working, Sends
    <3> HIDE DEF g
    <3> SUFFICES ASSUME NEW q \in Posts, q # p
                 PROVE  /\ spot'[q] \in Working => line'[Group[q]] # <<>> /\ Head(line'[Group[q]]) = q
                        /\ spot'[q] = "wait" => \E i \in DOMAIN line'[Group[q]] : line'[Group[q]][i] = q
      BY <3>3 DEF Locked
    <3>4. CASE Group[q] = g
      <4>1. ASSUME spot[q] = "wait" PROVE \E i \in DOMAIN line'[g] : line'[g][i] = q
        <5>1. PICK i \in DOMAIN line[g] : line[g][i] = q
          BY <1>a, <3>4, <4>1
        <5>2. i \in 1..Len(line[g]) /\ i # 1
          BY <3>2, <5>1
        <5>3. i - 1 \in 1..(Len(line[g]) - 1) /\ (i - 1) + 1 = i
          BY <3>2, <5>2
        <5>4. i - 1 \in DOMAIN line'[g] /\ line'[g][i - 1] = q
          BY <3>2, <5>1, <5>3
        <5> QED BY <5>4
      <4> QED BY <2>0, <3>4, <4>1
    <3>5. CASE Group[q] # g
      <4>1. line'[Group[q]] = line[Group[q]]
        BY <1>0, <3>1, <3>5
      <4> QED BY <1>a, <2>0, <4>1
    <3> QED BY <3>4, <3>5
  <2> QED BY <1>2, <2>1, <2>2, LineStep
<1>3. CASE OwnerOrders
  BY <1>3 DEF OwnerOrders, Locked
<1>4. CASE Restart
  BY <1>4 DEF Restart, In, Locked, Working, Sends
<1>5. CASE UNCHANGED forwardVars
  BY <1>5 DEF forwardVars, forwardHistory, Locked
<1> QED BY <1>1, <1>2, <1>3, <1>4, <1>5 DEF ForwardNext

LEMMA HandledKept ==
    ASSUME ForwardTypes, ForwardTypes', [ForwardNext]_forwardVars
    PROVE  HistoryGrows /\ \A q \in Posts : Handled(q) => Handled(q)'
<1>0. /\ copies \in [Posts -> Nat] /\ copies' \in [Posts -> Nat] /\ newest \in Nat
      /\ \A p \in Posts : p \in Nat
  <2>1. newest \in Posts \cup {0} /\ \A q \in Posts : q \in Nat
    BY ForwardAssumption DEF ForwardTypes
  <2>2. copies \in [Posts -> Nat] /\ copies' \in [Posts -> Nat]
    BY DEF ForwardTypes
  <2> QED BY <2>1, <2>2
<1>1. HistoryGrows
  <2>1. ASSUME NEW p \in Posts, Announce(p) PROVE HistoryGrows
    BY <2>1, AnnounceStep
  <2>2. ASSUME NEW p \in Posts, Handler(p) PROVE HistoryGrows
    BY <2>2, KeptStep
  <2>3. CASE OwnerOrders
    BY <1>0, <2>3 DEF OwnerOrders, HistoryGrows
  <2>4. CASE Restart
    <3>1. PICK S : copies' = [q \in Posts |-> copies[q] + IF q \in S THEN 1 ELSE 0]
      BY <2>4 DEF Restart, Copy
    <3>2. \A q \in Posts : copies[q] <= copies'[q]
      BY <1>0, <3>1
    <3> QED BY <1>0, <2>4, <3>2 DEF Restart, HistoryGrows
  <2>5. CASE UNCHANGED forwardVars
    BY <1>0, <2>5 DEF forwardVars, forwardHistory, HistoryGrows
  <2> QED BY <2>1, <2>2, <2>3, <2>4, <2>5 DEF ForwardNext
<1>2. ASSUME NEW q \in Posts, Handled(q) PROVE Handled(q)'
  <2>1. copies[q] <= copies'[q] /\ failed \subseteq failed' /\ copies[q] \in Nat /\ copies'[q] \in Nat
    BY <1>0, <1>1 DEF HistoryGrows
  <2> QED BY <1>2, <2>1 DEF Handled
<1> QED BY <1>1, <1>2

\* How a handler ends, and what it leaves of a mixed album.
LEMMA EndingStep ==
    ASSUME ForwardTypes, NEW p \in Posts, Handler(p)
    PROVE  /\ spot'[p] = "done" /\ spot[p] \in Sends \ {"parts"} => Group[p] \in failed'
           /\ spot[p] = "single" /\ spot'[p] = "record" => copies'[p] > 0 \/ Group[p] \in failed'
           /\ spot[p] = "parts" /\ spot'[p] \in {"done", "record"} =>
                 \/ todo[p] = {} /\ todo' = todo /\ any' = any
                 \/ spot'[p] = "done" /\ Group[p] \in failed' \cap apart'
           /\ spot[p] = "parts" /\ spot'[p] = "record" => any[p]
           /\ spot[p] = "parts" /\ spot'[p] = "parts" =>
                 \E q \in todo[p] : /\ todo'[p] = todo[p] \ {q} /\ (any[p] => any'[p])
                                    /\ copies'[q] > 0 \/ Group[p] \in failed'
           /\ spot[p] # "parts" /\ spot'[p] = "parts" => todo'[p] = Mates(p)
<1>0. /\ spot \in [Posts -> Spots] /\ todo \in [Posts -> SUBSET Posts] /\ any \in [Posts -> BOOLEAN]
      /\ copies \in [Posts -> Nat]
  BY DEF ForwardTypes
<1>1. spot'[p] = "done" /\ spot[p] \in Sends \ {"parts"} => Group[p] \in failed'
  BY <1>0 DEF In, To, Trouble, CopyFails, Sends, Handler, Admit, Text, LookUp, ProbeFails, Gather, WholeAlbum,
              FallsApart, Part, PartsEnd, Single, Record, LoseAccess
<1>2. spot[p] = "single" /\ spot'[p] = "record" => copies'[p] > 0 \/ Group[p] \in failed'
  <2> SUFFICES ASSUME spot[p] = "single", spot'[p] = "record" PROVE copies'[p] > 0 \/ Group[p] \in failed'
    OBVIOUS
  <2>1. copies' = [q \in Posts |-> copies[q] + IF q \in {p} THEN 1 ELSE 0] \/ Group[p] \in failed'
    BY <1>0 DEF In, To, Trouble, Copy, CopyFails, Sends, Handler, Admit, Text, LookUp, ProbeFails, Gather, WholeAlbum,
              FallsApart, Part, PartsEnd, Single, Record, LoseAccess
  <2> QED BY <1>0, <2>1
<1>3. /\ spot[p] = "parts" /\ spot'[p] \in {"done", "record"} =>
            \/ todo[p] = {} /\ todo' = todo /\ any' = any
            \/ spot'[p] = "done" /\ Group[p] \in failed' \cap apart'
      /\ spot[p] = "parts" /\ spot'[p] = "record" => any[p]
  BY <1>0 DEF In, To, Quit, Trouble, Handler, Admit, Text, LookUp, ProbeFails, Gather, WholeAlbum, FallsApart, Part,
              PartsEnd, Single, Record, LoseAccess
<1>4. ASSUME spot[p] = "parts", spot'[p] = "parts"
      PROVE  \E q \in todo[p] : /\ todo'[p] = todo[p] \ {q} /\ (any[p] => any'[p])
                                /\ copies'[q] > 0 \/ Group[p] \in failed'
  <2>1. Part(p)
    BY <1>0, <1>4 DEF In, To, Quit, Handler, Admit, Text, LookUp, ProbeFails, Gather, WholeAlbum, FallsApart,
              PartsEnd, Single, Record, LoseAccess
  <2> DEFINE q == Lowest(todo[p])
  <2>2. q \in todo[p] /\ q \in Posts
    BY <1>0, <2>1, LowestIsIn DEF Part
  <2>3. todo'[p] = todo[p] \ {q} /\ (any[p] => any'[p])
    BY <1>0, <2>1 DEF Part
  <2>4. copies' = [x \in Posts |-> copies[x] + IF x \in {q} THEN 1 ELSE 0] \/ Group[p] \in failed'
    BY <2>1 DEF Part, Copy, CopyFails, Trouble
  <2> HIDE DEF q
  <2>5. copies'[q] > 0 \/ Group[p] \in failed'
    BY <1>0, <2>2, <2>4
  <2> QED BY <2>2, <2>3, <2>5
<1>5. spot[p] # "parts" /\ spot'[p] = "parts" => todo'[p] = Mates(p)
  BY <1>0 DEF Whole, Enters, In, To, Quit, Handler, Admit, Text, LookUp, ProbeFails, Gather, WholeAlbum, FallsApart, Part,
              PartsEnd, Single, Record, LoseAccess
<1> QED BY <1>1, <1>2, <1>3, <1>4, <1>5

\* Whoever ends or records has handled its album.
LEMMA QuitHandled ==
    ASSUME ForwardTypes, ForwardTypes', OnTheWay, Locked, Served, NEW p \in Posts, Handler(p),
           spot'[p] \in {"done", "record"}
    PROVE  \A q \in Mates(p) : Handled(q)'
<1>0. /\ \A q \in Posts : Handled(q) => Handled(q)'
      /\ \A q \in Mates(p) : q \in Posts /\ Group[q] = Group[p]
      /\ Group[p] \in Posts
  BY HandledKept, AlbumFacts DEF ForwardNext, Mates
<1>1. Group[p] \in failed' => \A q \in Mates(p) : Handled(q)'
  BY <1>0 DEF Handled
<1>2. CASE spot[p] = "wait"
  <2>1. line[Group[p]] # <<>> /\ \A q \in Posts : Group[q] = Group[p] => spot[q] \notin Working
    BY <1>2, TheFirst DEF Working, Sends
  <2>2. \A q \in Posts : Group[q] = Group[p] => Handled(q)
    BY <1>0, <2>1 DEF Served
  <2> QED BY <1>0, <2>2
<1>3. CASE spot'[p] = "done" /\ spot[p] \in Sends \ {"parts"}
  BY <1>1, <1>3, EndingStep
<1>4. CASE spot[p] = "parts"
  BY <1>0, <1>1, <1>4, EndingStep DEF Served
<1>5. CASE spot[p] = "record"
  BY <1>0, <1>5 DEF Served
<1>6. CASE spot[p] = "text" /\ spot'[p] = "record"
  <2>1. FormOf[p] = "text" /\ Gets(p, p)
    BY <1>6 DEF OnTheWay, Gets
  <2>2. Mates(p) = {p}
    BY <2>1, AlbumFacts DEF InAlbum
  <2>3. copies'[p] > 0
    BY <1>6, <2>1, AckStep
  <2> QED BY <2>2, <2>3 DEF Handled
<1>7. CASE spot[p] = "album" /\ spot'[p] = "record"
  <2>1. ASSUME NEW q \in Mates(p) PROVE copies'[q] > 0
    <3>1. Gets(p, q) /\ q \in Posts
      BY <1>0, <1>7 DEF Gets
    <3> QED BY <1>7, <3>1, AckStep
  <2> QED BY <2>1 DEF Handled
<1>8. CASE spot[p] = "single" /\ spot'[p] = "record"
  <2>1. CASE InAlbum(p)
    BY <1>0, <1>8, <2>1 DEF OnTheWay, Handled
  <2>2. CASE ~InAlbum(p)
    <3>1. Mates(p) = {p}
      BY <2>2, AlbumFacts
    <3> QED BY <1>8, <3>1, EndingStep DEF Handled
  <2> QED BY <2>1, <2>2
<1> QED BY <1>2, <1>3, <1>4, <1>5, <1>6, <1>7, <1>8, WayStep DEF Sends

\* Albums are handled one handler after the other.
LEMMA ServedStep ==
    ASSUME ForwardTypes, ForwardTypes', OnTheWay, Locked, Served, [ForwardNext]_forwardVars
    PROVE  Served'
<1>0. /\ \A p \in Posts : Group[p] \in Posts /\ Mates(p) \subseteq Posts
      /\ \A p \in Posts : \A q \in Mates(p) : Group[q] = Group[p]
      /\ \A p \in Posts : Handled(p) => Handled(p)'
      /\ spot \in [Posts -> Spots] /\ line \in [Posts -> Seq(Posts)]
  BY AlbumFacts, HandledKept DEF ForwardTypes, Mates
<1> DEFINE Recorded(p) == spot[p] = "record" => \A q \in Mates(p) : Handled(q)
           Copying(p)  == spot[p] = "parts" => \A q \in Mates(p) \ todo[p] : Handled(q)
           InLine(g)   == line[g] # <<>> => \/ \E h \in Posts : Group[h] = g /\ spot[h] \in Working
                                            \/ \A q \in Posts : Group[q] = g => Handled(q)
<1>a. \A p \in Posts : Recorded(p) /\ Copying(p) /\ InLine(p)
  BY DEF Served
<1>b. (\A p \in Posts : Recorded(p)' /\ Copying(p)' /\ InLine(p)') => Served'
  BY DEF Served, Mates
<1>c. ASSUME NEW p \in Posts, spot'[p] = spot[p], todo'[p] = todo[p] PROVE Recorded(p)' /\ Copying(p)'
  BY <1>a, <1>0, <1>c DEF Mates
<1>1. ASSUME NEW p \in Posts, Announce(p) PROVE Served'
  <2>0. OthersRest(p) /\ todo' = todo /\ spot[p] = "new" /\ spot'[p] \in {"done", "wait", "text", "probe"}
    BY <1>1, AnnounceStep
  <2>1. ASSUME NEW q \in Posts PROVE Recorded(q)' /\ Copying(q)'
    <3>1. CASE q = p
      BY <2>0, <3>1
    <3>2. CASE q # p
      BY <1>c, <2>0, <3>2 DEF OthersRest
    <3> QED BY <3>1, <3>2
  <2>2. ASSUME NEW g \in Posts PROVE InLine(g)'
    <3>1. CASE line'[g] = line[g]
      <4>1. \A h \in Posts : spot[h] \in Working => h # p
        BY <2>0 DEF Working, Sends
      <4> QED BY <1>a, <1>0, <2>0, <3>1, <4>1 DEF OthersRest
    <3>2. CASE line'[g] # line[g]
      <4>1. g = Group[p] /\ (line[g] = <<>> => spot'[p] \in {"text", "probe"})
        BY <1>0, <1>1, <3>2, AnnounceStep
      <4>2. CASE line[g] = <<>>
        BY <4>1, <4>2 DEF Working, Sends
      <4>3. CASE line[g] # <<>>
        <5>1. \A h \in Posts : spot[h] \in Working => h # p
          BY <2>0 DEF Working, Sends
        <5> QED BY <1>a, <1>0, <2>0, <4>3, <5>1 DEF OthersRest
      <4> QED BY <4>2, <4>3
    <3> QED BY <3>1, <3>2
  <2> QED BY <1>b, <2>1, <2>2
<1>2. ASSUME NEW p \in Posts, Handler(p) PROVE Served'
  <2>0. OthersRest(p)
    BY <1>2, WayStep
  <2>a. spot'[p] \in {"done", "record"} => \A q \in Mates(p) : Handled(q)'
    BY <1>2, QuitHandled
  <2>1. Recorded(p)' /\ Copying(p)'
    <3>1. Recorded(p)'
      BY <2>a DEF Mates
    <3>2. CASE spot[p] # "parts" /\ spot'[p] = "parts"
      <4>1. todo'[p] = Mates(p)
        BY <1>2, <3>2, EndingStep
      <4> QED BY <3>1, <4>1 DEF Mates
    <3>3. CASE spot[p] = "parts" /\ spot'[p] = "parts"
      <4>1. PICK q \in todo[p] : todo'[p] = todo[p] \ {q} /\ (copies'[q] > 0 \/ Group[p] \in failed')
        BY <1>2, <3>3, EndingStep
      <4>2. \A x \in Mates(p) \ todo[p] : Handled(x)'
        BY <1>0, <1>a, <3>3
      <4>3. q \in Mates(p) => Handled(q)'
        BY <1>0, <4>1 DEF Handled
      <4>4. \A x \in Mates(p) \ todo'[p] : Handled(x)'
        BY <4>1, <4>2, <4>3
      <4> QED BY <3>1, <4>4 DEF Mates
    <3> QED BY <3>1, <3>2, <3>3
  <2>2. ASSUME NEW q \in Posts, q # p PROVE Recorded(q)' /\ Copying(q)'
    BY <1>c, <2>0, <2>2 DEF OthersRest
  <2>3. ASSUME NEW g \in Posts PROVE InLine(g)'
    <3>1. CASE g = Group[p] /\ line' = line /\ spot'[p] \in Working
      BY <3>1
    <3>2. CASE g = Group[p] /\ spot'[p] = "done"
      <4>1. \A q \in Posts : Group[q] = g => Handled(q)'
        BY <2>a, <3>2 DEF Mates
      <4> QED BY <4>1
    <3>3. CASE g # Group[p]
      <4>1. line'[g] = line[g]
        BY <1>0, <1>2, <3>3, LineStep
      <4>2. \A h \in Posts : Group[h] = g => spot'[h] = spot[h]
        BY <2>0, <3>3 DEF OthersRest
      <4> QED BY <1>a, <1>0, <4>1, <4>2
    <3> QED BY <1>2, <3>1, <3>2, <3>3, LineStep
  <2> QED BY <1>b, <2>1, <2>2, <2>3
<1>3. CASE OwnerOrders
  BY <1>3 DEF OwnerOrders, Served, Mates, Handled
<1>4. CASE Restart
  <2>1. \A p \in Posts : spot'[p] \in {"new", "done"} /\ line'[p] = <<>>
    BY <1>4 DEF Restart
  <2> QED BY <1>b, <2>1
<1>5. CASE UNCHANGED forwardVars
  BY <1>5 DEF forwardVars, forwardHistory, Served, Mates, Handled
<1> QED BY <1>1, <1>2, <1>3, <1>4, <1>5 DEF ForwardNext

\* The list runs ahead of the posts only where they were handled, or lie within an album.
LEMMA LastServedStep ==
    ASSUME ForwardTypes, ForwardTypes', OnTheWay, Locked, Served, LastServed, [ForwardNext]_forwardVars
    PROVE  LastServed'
<1>0. /\ \A p \in Posts : p \in Nat /\ p > 0 /\ (Handled(p) => Handled(p)')
      /\ newest \in Nat /\ newest' \in Nat /\ newest <= newest' /\ entry.last \in Nat
  <2>1. \A p \in Posts : p \in Nat /\ p > 0
    BY ForwardAssumption
  <2>2. /\ newest \in Posts \cup {0} /\ newest' \in Posts \cup {0}
        /\ entry \in [there : BOOLEAN, on : BOOLEAN, last : Posts \cup {0}]
    BY DEF ForwardTypes
  <2> QED BY <2>1, <2>2, HandledKept DEF HistoryGrows
<1>a. ASSUME NEW p \in Posts, p > newest', p <= entry.last PROVE Handled(p)' \/ Enclosed(p)
  BY <1>0, <1>a DEF LastServed
<1>b. (\A p \in Posts : p > newest' /\ p <= entry'.last => Handled(p)' \/ Enclosed(p)) => LastServed'
  BY DEF LastServed, Enclosed
<1>1. CASE entry'.last = entry.last
  BY <1>1, <1>a, <1>b
<1>2. ASSUME NEW p \in Posts, Handler(p) PROVE LastServed'
  <2>0. newest' = newest /\ p <= newest
    BY <1>2, KeptStep, WayStep DEF OnTheWay
  <2>1. CASE entry'.last = p
    BY <1>0, <1>b, <2>0, <2>1
  <2>2. CASE entry'.last = Highest(Mates(p)) /\ spot'[p] = "record"
    <3> DEFINE h == Highest(Mates(p))
    <3>1. h \in Posts /\ Group[h] = Group[p] /\ \A q \in Mates(p) : Handled(q)'
      BY <1>2, <2>2, QuitHandled, AlbumFacts DEF Mates
    <3> HIDE DEF h
    <3>2. ASSUME NEW q \in Posts, q > newest', q <= h PROVE Handled(q)' \/ Enclosed(q)
      <4>1. CASE Group[q] = Group[p]
        BY <3>1, <4>1 DEF Mates
      <4>2. CASE Group[q] # Group[p]
        <5>1. q # h /\ p < q /\ q < h
          BY <1>0, <2>0, <3>1, <3>2, <4>2
        <5> QED BY <3>1, <4>2, <5>1 DEF Enclosed
      <4> QED BY <4>1, <4>2
    <3> QED BY <1>b, <2>2, <3>2 DEF h
  <2> QED BY <1>1, <1>2, <2>1, <2>2, EntryStep
<1>3. CASE OwnerOrders
  <2>1. entry'.last = 0 \/ entry'.last = entry.last
    <3>1. entry \in [there : BOOLEAN, on : BOOLEAN, last : Posts \cup {0}]
      BY DEF ForwardTypes
    <3> QED BY <1>3, <3>1 DEF OwnerOrders, Listed, NotListed
  <2> QED BY <1>0, <1>1, <1>b, <2>1
<1>4. ASSUME NEW p \in Posts, Announce(p) PROVE LastServed'
  BY <1>1, <1>4, AnnounceStep
<1>5. CASE Restart
  BY <1>1, <1>5 DEF Restart
<1>6. CASE UNCHANGED forwardVars
  BY <1>1, <1>6 DEF forwardVars
<1> QED BY <1>2, <1>3, <1>4, <1>5, <1>6 DEF ForwardNext

\* Nobody is passed over for nothing.
LEMMA PassedStep ==
    ASSUME ForwardTypes, ForwardTypes', OnTheWay, Locked, Served, LastServed, NonePassedOver,
           [ForwardNext]_forwardVars
    PROVE  NonePassedOver'
<1>0. /\ \A p \in Posts : p \in Nat /\ p > 0 /\ (Handled(p) => Handled(p)')
      /\ newest \in Nat /\ entry \in [there : BOOLEAN, on : BOOLEAN, last : Posts \cup {0}] /\ HistoryGrows
      /\ skipped \subseteq Posts
  <2>1. \A p \in Posts : p \in Nat /\ p > 0
    BY ForwardAssumption
  <2>2. /\ newest \in Posts \cup {0} /\ skipped \subseteq Posts
        /\ entry \in [there : BOOLEAN, on : BOOLEAN, last : Posts \cup {0}]
    BY DEF ForwardTypes
  <2> QED BY <2>1, <2>2, HandledKept
<1>a. ASSUME NEW p \in skipped PROVE Handled(p)' \/ p \in late' \/ Enclosed(p)
  BY <1>0 DEF NonePassedOver, Handled, HistoryGrows
<1>b. (\A p \in skipped' : Handled(p)' \/ p \in late' \/ Enclosed(p)) => NonePassedOver'
  BY DEF NonePassedOver, Handled, Enclosed
<1>1. CASE skipped' = skipped
  BY <1>1, <1>a, <1>b
<1>2. ASSUME NEW p \in Posts, Announce(p) PROVE NonePassedOver'
  <2>1. CASE skipped' = skipped \cup {p} /\ entry.on /\ ~Wanted(p)
    <3>1. p <= entry.last /\ p # newest /\ (p < newest => p \in late')
      <4>1. p <= entry.last
        BY <1>0, <2>1 DEF Wanted
      <4>2. p # newest
        BY <1>2, AnnounceStep DEF OnTheWay
      <4> QED BY <1>2, <4>1, <4>2, AnnounceStep
    <3>2. p > newest => Handled(p)' \/ Enclosed(p)
      BY <1>0, <3>1 DEF LastServed
    <3>3. Handled(p)' \/ p \in late' \/ Enclosed(p)
      BY <1>0, <3>1, <3>2
    <3> QED BY <1>a, <1>b, <2>1, <3>3
  <2>2. skipped' = skipped \/ (skipped' = skipped \cup {p} /\ entry.on /\ ~Wanted(p))
    BY <1>2, AnnounceStep DEF PassedBy
  <2> QED BY <1>1, <2>1, <2>2
<1>3. ASSUME NEW p \in Posts, Handler(p) PROVE NonePassedOver'
  <2>1. skipped' = skipped \/ (skipped' = skipped \cup {p} /\ spot'[p] = "done")
    <3>1. spot \in [Posts -> Spots]
      BY DEF ForwardTypes
    <3> QED BY <1>3, <3>1 DEF forwardHistory, PassedBy, In, To, Quit, Handler, Admit, Text, LookUp, ProbeFails, Gather,
              WholeAlbum, FallsApart, Part, PartsEnd, Single, Record, LoseAccess
  <2>2. CASE skipped' = skipped \cup {p} /\ spot'[p] = "done"
    <3>1. Handled(p)'
      BY <1>3, <2>2, QuitHandled, AlbumFacts
    <3> QED BY <1>a, <1>b, <2>2, <3>1
  <2> QED BY <1>1, <2>1, <2>2
<1>4. CASE OwnerOrders
  BY <1>1, <1>4 DEF OwnerOrders
<1>5. CASE Restart
  BY <1>1, <1>5 DEF Restart
<1>6. CASE UNCHANGED forwardVars
  BY <1>1, <1>6 DEF forwardVars, forwardHistory
<1> QED BY <1>2, <1>3, <1>4, <1>5, <1>6 DEF ForwardNext

\* How many copies a post may have had.
LEMMA CopiesStep ==
    ASSUME ForwardTypes, ForwardTypes', OnTheWay, CopiesBounded, [ForwardNext]_forwardVars
    PROVE  CopiesBounded'
<1>0. /\ copies \in [Posts -> Nat] /\ unsure \in [Posts -> Nat]
      /\ copies' \in [Posts -> Nat] /\ unsure' \in [Posts -> Nat]
      /\ spot \in [Posts -> Spots] /\ todo \in [Posts -> SUBSET Posts]
  BY DEF ForwardTypes
<1>a. ASSUME NEW q \in Posts
      PROVE  /\ Acked(q) \in Int /\ Acked(q)' \in Int /\ unsure[q] <= copies[q]
             /\ ~InAlbum(q) => Acked(q) <= OwnCopy(q)
             /\ InAlbum(q) => Acked(q) <= Cardinality(Contributed(q)) + OwnCopy(q)
  BY <1>0 DEF CopiesBounded, Acked
<1>b. ASSUME NEW q \in Posts
      PROVE  /\ IsFiniteSet(Contributed(q)) /\ Cardinality(Contributed(q)) \in Nat
             /\ IsFiniteSet(Contributed(q)') /\ Cardinality(Contributed(q)') \in Nat
             /\ OwnCopy(q) \in {0, 1} /\ OwnCopy(q)' \in {0, 1}
  <2>1. Contributed(q) \subseteq Mates(q) /\ Contributed(q)' \subseteq Mates(q) /\ IsFiniteSet(Mates(q))
    BY AlbumFacts DEF Contributed, Mates
  <2>2. IsFiniteSet(Contributed(q)) /\ IsFiniteSet(Contributed(q)')
    BY <2>1, FS_Subset
  <2>3. Cardinality(Contributed(q)) \in Nat /\ Cardinality(Contributed(q)') \in Nat
    BY <2>2, FS_CardinalityType
  <2> QED BY <2>2, <2>3 DEF OwnCopy
<1>c. ASSUME NEW q \in Posts, Contributed(q) \subseteq Contributed(q)'
      PROVE  Cardinality(Contributed(q)) <= Cardinality(Contributed(q)')
  BY <1>b, <1>c, FS_Subset
<1>d. (\A q \in Posts :
          /\ unsure'[q] <= copies'[q]
          /\ ~InAlbum(q) => Acked(q)' <= OwnCopy(q)'
          /\ InAlbum(q) => Acked(q)' <= Cardinality(Contributed(q)') + OwnCopy(q)')
      => CopiesBounded'
  BY DEF CopiesBounded, Acked, OwnCopy, Contributed, InAlbum, Mates
\* Where nothing arrives, or its answer is lost, more handlers have their copies behind them.
<1>e. ASSUME NEW q \in Posts, unsure'[q] <= copies'[q], Acked(q)' = Acked(q), OwnCopy(q) <= OwnCopy(q)',
             Contributed(q) \subseteq Contributed(q)'
      PROVE  /\ unsure'[q] <= copies'[q]
             /\ ~InAlbum(q) => Acked(q)' <= OwnCopy(q)'
             /\ InAlbum(q) => Acked(q)' <= Cardinality(Contributed(q)') + OwnCopy(q)'
  <2>1. Cardinality(Contributed(q)) <= Cardinality(Contributed(q)')
    BY <1>c, <1>e
  <2> QED BY <1>a, <1>b, <1>e, <2>1
<1>1. ASSUME NEW p \in Posts, Announce(p) PROVE CopiesBounded'
  <2>1. /\ spot[p] = "new" /\ todo' = todo /\ copies' = copies /\ unsure' = unsure
        /\ \A x \in Posts \ {p} : spot'[x] = spot[x]
    BY <1>1, AnnounceStep DEF OthersRest
  <2>2. ASSUME NEW q \in Posts PROVE /\ Acked(q)' = Acked(q) /\ unsure'[q] <= copies'[q]
                                     /\ OwnCopy(q) <= OwnCopy(q)' /\ Contributed(q) \subseteq Contributed(q)'
    <3>1. Acked(q)' = Acked(q) /\ unsure'[q] <= copies'[q]
      BY <1>a, <2>1 DEF Acked
    <3>2. OwnCopy(q) <= OwnCopy(q)'
      BY <2>1 DEF OwnCopy
    <3>3. Contributed(q) \subseteq Contributed(q)'
      BY <2>1 DEF Contributed, Mates
    <3> QED BY <3>1, <3>2, <3>3
  <2> QED BY <1>d, <1>e, <2>2
<1>2. ASSUME NEW p \in Posts, Handler(p) PROVE CopiesBounded'
  <2>0. /\ \A x \in Posts \ {p} : spot'[x] = spot[x] /\ todo'[x] = todo[x]
        /\ p \in Posts /\ p \in Mates(p) /\ Mates(p) \subseteq Posts
    BY <1>2, WayStep, AlbumFacts DEF OthersRest
  <2>1. ASSUME NEW q \in Posts PROVE OwnCopy(q) <= OwnCopy(q)' /\ Contributed(q) \subseteq Contributed(q)'
    <3>1. /\ spot[p] \in {"record", "done"} => spot'[p] \in {"record", "done"}
          /\ spot[p] \in {"record", "done", "single"} => spot'[p] \in {"record", "done", "single"}
          /\ spot[p] = "parts" => spot'[p] \in {"record", "done", "single", "parts"}
      BY <1>2, WayStep
    <3>2. spot[p] = "parts" /\ spot'[p] = "parts" => todo'[p] \subseteq todo[p]
      BY <1>2, EndingStep
    <3>3. OwnCopy(q) <= OwnCopy(q)'
      BY <2>0, <3>1 DEF OwnCopy
    <3>4. ASSUME NEW x \in Contributed(q) PROVE x \in Contributed(q)'
      <4>1. x \in Mates(q) /\ x \in Posts
        BY DEF Contributed, Mates
      <4>2. spot[x] \in {"record", "done", "single"} \/ (spot[x] = "parts" /\ q \notin todo[x])
        BY DEF Contributed
      <4>3. spot'[x] \in {"record", "done", "single"} \/ (spot'[x] = "parts" /\ q \notin todo'[x])
        BY <2>0, <3>1, <3>2, <4>1, <4>2
      <4> QED BY <4>1, <4>3 DEF Contributed, Mates
    <3> QED BY <3>3, <3>4
  <2>2. ASSUME NEW q \in Posts, Acked(q)' = Acked(q) + 1, Gets(p, q)
        PROVE  /\ ~InAlbum(q) => Acked(q)' <= OwnCopy(q)'
               /\ InAlbum(q) => Acked(q)' <= Cardinality(Contributed(q)') + OwnCopy(q)'
    <3>1. CASE spot[p] \in {"text", "single"} /\ spot'[p] = "record" /\ q = p
      <4>1. OwnCopy(q) = 0 /\ OwnCopy(q)' = 1
        BY <3>1 DEF OwnCopy
      <4>2. Cardinality(Contributed(q)) <= Cardinality(Contributed(q)')
        BY <1>c, <2>1
      <4> QED BY <1>a, <1>b, <2>2, <4>1, <4>2
    <3>2. CASE spot[p] \in {"album", "parts"}
      <4>1. InAlbum(p) /\ q \in Mates(p)
        BY <2>2, <3>2 DEF Gets, OnTheWay
      <4>2. InAlbum(q) /\ p \in Mates(q)
        BY <2>0, <4>1, AlbumFacts DEF Mates
      <4>3. p \notin Contributed(q) /\ p \in Contributed(q)'
        <5>1. spot[p] = "parts" => q \in todo[p] /\ spot'[p] = "parts" /\ q \notin todo'[p]
          BY <2>2 DEF Gets
        <5>2. spot[p] = "album" => spot'[p] = "record"
          BY <2>2 DEF Gets
        <5> QED BY <3>2, <4>2, <5>1, <5>2 DEF Contributed, Mates
      <4>4. Cardinality(Contributed(q)) + 1 <= Cardinality(Contributed(q)')
        <5>1. Cardinality(Contributed(q) \cup {p}) = Cardinality(Contributed(q)) + 1
          BY <1>b, <4>3, FS_AddElement
        <5>2. Contributed(q) \cup {p} \subseteq Contributed(q)'
          BY <2>1, <4>3
        <5>3. Cardinality(Contributed(q) \cup {p}) <= Cardinality(Contributed(q)')
          BY <1>b, <5>2, FS_Subset
        <5> QED BY <5>1, <5>3
      <4> QED BY <1>a, <1>b, <2>1, <2>2, <4>2, <4>4
    <3> QED BY <2>2, <3>1, <3>2 DEF Gets
  <2>3. ASSUME NEW q \in Posts
        PROVE  /\ unsure'[q] <= copies'[q]
               /\ Acked(q)' = Acked(q) \/ (Acked(q)' = Acked(q) + 1 /\ Gets(p, q))
    BY <1>2, <1>a, AckStep
  <2> QED BY <1>d, <1>e, <2>1, <2>2, <2>3
<1>3. CASE OwnerOrders
  BY <1>3 DEF OwnerOrders, CopiesBounded, Acked, OwnCopy, Contributed, InAlbum, Mates
<1>4. CASE Restart
  <2>1. PICK S : /\ copies' = [q \in Posts |-> copies[q] + IF q \in S THEN 1 ELSE 0]
                 /\ unsure' = [q \in Posts |-> unsure[q] + IF q \in S THEN 1 ELSE 0]
    BY <1>4 DEF Restart, Copy
  <2>2. todo' = todo /\ \A x \in Posts : spot'[x] = IF spot[x] = "new" THEN "new" ELSE "done"
    BY <1>4 DEF Restart, In
  <2>3. ASSUME NEW q \in Posts PROVE /\ Acked(q)' = Acked(q) /\ unsure'[q] <= copies'[q]
                                     /\ OwnCopy(q) <= OwnCopy(q)' /\ Contributed(q) \subseteq Contributed(q)'
    <3>1. Acked(q)' = Acked(q) /\ unsure'[q] <= copies'[q]
      BY <1>0, <1>a, <2>1 DEF Acked
    <3>2. OwnCopy(q) <= OwnCopy(q)'
      BY <2>2 DEF OwnCopy
    <3>3. Contributed(q) \subseteq Contributed(q)'
      BY <2>2 DEF Contributed, Mates
    <3> QED BY <3>1, <3>2, <3>3
  <2> QED BY <1>d, <1>e, <2>3
<1>5. CASE UNCHANGED forwardVars
  BY <1>5 DEF forwardVars, forwardHistory, CopiesBounded, Acked, OwnCopy, Contributed, InAlbum, Mates
<1> QED BY <1>1, <1>2, <1>3, <1>4, <1>5 DEF ForwardNext

\* The losses of access, and whether the channel is still on.
LEMMA StruckStep ==
    ASSUME ForwardTypes, Struck, [ForwardNext]_forwardVars
    PROVE  Struck'
<1>0. /\ losses \in Nat /\ strikes \in Nat /\ FailLimit \in Nat \ {0}
      /\ entry \in [there : BOOLEAN, on : BOOLEAN, last : Posts \cup {0}]
  BY ForwardAssumption DEF ForwardTypes
<1>1. ASSUME NEW p \in Posts, Announce(p) PROVE Struck'
  BY <1>1, AnnounceStep DEF Struck
<1>2. ASSUME NEW p \in Posts, Handler(p) PROVE Struck'
  <2>0. entry'.there = entry.there /\ (entry'.on => entry.on) /\ anew' = anew
    BY <1>2, EntryStep, KeptStep
  <2>1. \/ losses' = losses /\ strikes' = strikes
        \/ losses' = 0 /\ strikes' = 0
        \/ losses' = losses + 1 /\ strikes' = strikes + 1 /\ ~Disables
    BY <1>2 DEF forwardHistory, Handler, Admit, Text, LookUp, ProbeFails, Gather, WholeAlbum, FallsApart, Part,
                PartsEnd, Single, Record, LoseAccess
  <2>2. CASE losses' = losses /\ strikes' = strikes
    BY <2>0, <2>2 DEF Struck
  <2>3. CASE losses' = 0 /\ strikes' = 0
    BY <1>0, <2>0, <2>3 DEF Struck
  <2>4. CASE losses' = losses + 1 /\ strikes' = strikes + 1 /\ ~Disables
    BY <1>0, <2>0, <2>4 DEF Struck, Disables
  <2> QED BY <2>1, <2>2, <2>3, <2>4
<1>3. CASE OwnerOrders
  <2>0. losses' = losses /\ strikes' = strikes
    BY <1>3 DEF OwnerOrders
  <2>1. CASE entry' = Listed /\ anew' = TRUE
    BY <2>0, <2>1 DEF Struck, Listed
  <2>2. CASE entry' = NotListed /\ anew' = anew
    BY <2>0, <2>2 DEF Struck, NotListed
  <2>3. CASE entry.there /\ entry' = [entry EXCEPT !.on = ~@] /\ anew' = anew
    BY <1>0, <2>0, <2>3 DEF Struck
  <2> QED BY <1>3, <2>1, <2>2, <2>3 DEF OwnerOrders
<1>4. CASE Restart
  BY <1>0, <1>4 DEF Restart, Struck
<1>5. CASE UNCHANGED forwardVars
  BY <1>5 DEF forwardVars, forwardHistory, Struck
<1> QED BY <1>1, <1>2, <1>3, <1>4, <1>5 DEF ForwardNext

\* An album that holds together is copied in one round.
LEMMA OneRoundStep ==
    ASSUME ForwardTypes, ForwardTypes', OnTheWay, Locked, Struck, OneRound, [ForwardNext]_forwardVars
    PROVE  OneRound'
<1> DEFINE Round(q)   == InAlbum(q) /\ Group[q] \notin apart /\ Acked(q) # 0
           PartOf(q)  == \E p \in Posts : Group[p] = Group[q] /\ spot[p] = "parts" /\ q \notin todo[p] /\ any[p]
           Single1(q) == Acked(q) = 1 /\ (Through(Group[q]) \/ PartOf(q))
<1>0. /\ \A p \in Posts : p \in Nat /\ Group[p] \in Posts
      /\ copies \in [Posts -> Nat] /\ unsure \in [Posts -> Nat]
      /\ copies' \in [Posts -> Nat] /\ unsure' \in [Posts -> Nat]
      /\ spot \in [Posts -> Spots] /\ spot' \in [Posts -> Spots]
      /\ entry \in [there : BOOLEAN, on : BOOLEAN, last : Posts \cup {0}]
      /\ entry' \in [there : BOOLEAN, on : BOOLEAN, last : Posts \cup {0}]
  <2>1. \A p \in Posts : p \in Nat /\ Group[p] \in Posts
    BY ForwardAssumption
  <2> QED BY <2>1 DEF ForwardTypes
<1>l. entry.last \in Nat /\ entry'.last \in Nat /\ \A q \in Posts : Acked(q) \in Int /\ Acked(q)' \in Int
  BY <1>0 DEF Acked
<1>a. ASSUME ~anew, NEW q \in Posts, Round(q) PROVE Single1(q)
  BY <1>a DEF OneRound, Mates
<1>b. (~anew' => \A q \in Posts : Round(q)' => Single1(q)') => OneRound'
  BY DEF OneRound, Mates, InAlbum, Acked, Through
<1> HIDE DEF Round, PartOf, Single1
\* A step that leaves the copies and the album of q alone.
<1>c. ASSUME ~anew, NEW q \in Posts, Round(q), Acked(q)' = Acked(q),
             \A m \in Posts : Group[m] = Group[q] =>
                spot'[m] = spot[m] /\ todo'[m] = todo[m] /\ any'[m] = any[m],
             entry'.there => entry.there /\ entry.last <= entry'.last
      PROVE  Single1(q)'
  <2>1. Single1(q)
    BY <1>a, <1>c
  <2>2. Through(Group[q]) => Through(Group[q])'
    BY <1>0, <1>l, <1>c DEF Through
  <2>3. PartOf(q) => PartOf(q)'
    BY <1>c DEF PartOf
  <2> QED BY <1>c, <2>1, <2>2, <2>3 DEF Single1
<1>1. ASSUME NEW p \in Posts, Announce(p) PROVE OneRound'
  <2>0. /\ \A x \in Posts \ {p} : spot'[x] = spot[x]
        /\ spot[p] = "new" /\ spot'[p] \in {"wait", "done", "text", "probe"} /\ todo' = todo /\ any' = any
        /\ spot'[p] # "done" => Wanted(p)
        /\ UNCHANGED <<entry, copies, unsure, apart, anew>>
    BY <1>1, AnnounceStep DEF OthersRest
  <2> SUFFICES ASSUME ~anew, NEW q \in Posts, Round(q)' PROVE Single1(q)'
    BY <1>b, <2>0
  <2>1. Round(q) /\ Acked(q)' = Acked(q)
    BY <2>0 DEF Round, InAlbum, Acked
  <2>2. Single1(q)
    BY <1>a, <2>1
  <2>3. PartOf(q) => PartOf(q)'
    BY <2>0 DEF PartOf
  <2>4. ASSUME Through(Group[q]) PROVE Through(Group[q])'
    <3>1. CASE Group[p] = Group[q]
      <4>1. ~Wanted(p)
        BY <1>0, <1>l, <2>4, <3>1 DEF Through, Wanted, Struck
      <4> QED BY <2>0, <2>4, <4>1 DEF Through, Sends
    <3>2. CASE Group[p] # Group[q]
      BY <2>0, <2>4, <3>2 DEF Through
    <3> QED BY <3>1, <3>2
  <2> QED BY <2>1, <2>2, <2>3, <2>4 DEF Single1
<1>2. ASSUME NEW p \in Posts, Handler(p) PROVE OneRound'
  <2>0. /\ \A x \in Posts \ {p} : spot'[x] = spot[x] /\ todo'[x] = todo[x] /\ any'[x] = any[x]
        /\ \A x \in Posts \ {p} : Group[x] = Group[p] => spot[x] \notin Working
        /\ entry'.there = entry.there /\ entry.last <= entry'.last
        /\ anew' = anew /\ apart \subseteq apart'
    BY <1>2, WayStep, TheFirst, EntryStep, KeptStep DEF OthersRest, HistoryGrows
  <2> SUFFICES ASSUME ~anew, NEW q \in Posts, Round(q)' PROVE Single1(q)'
    BY <1>b, <2>0
  <2>1. InAlbum(q) /\ Group[q] \notin apart /\ Group[q] \notin apart' /\ Acked(q)' # 0
    BY <2>0 DEF Round, InAlbum
  <2>2. Acked(q)' = Acked(q) \/ (Acked(q)' = Acked(q) + 1 /\ Gets(p, q))
    BY <1>2, AckStep
  <2>3. CASE Group[p] # Group[q]
    <3>1. ~Gets(p, q)
      <4>1. spot[p] = "parts" => todo[p] \subseteq Mates(p)
        BY DEF OnTheWay
      <4> QED BY <2>3, <4>1 DEF Gets, Mates
    <3>2. Round(q) /\ Acked(q)' = Acked(q)
      BY <2>1, <2>2, <3>1 DEF Round
    <3> QED BY <1>c, <2>0, <2>3, <3>2
  <2>4. CASE Group[p] = Group[q]
    <3>0. /\ InAlbum(p) /\ \A m \in Posts : Group[m] = Group[q] => m \in Mates(p)
          /\ \A m \in Mates(p) : m <= Highest(Mates(p))
      <4>1. p \in Mates(q)
        BY <2>4 DEF Mates
      <4> QED BY <2>1, <2>4, <4>1, AlbumFacts DEF Mates
    <3>1. spot[p] # "single" /\ spot[p] # "text" /\ spot'[p] # "single"
      <4>1. spot[p] # "single"
        BY <2>1, <2>4, <3>0 DEF OnTheWay
      <4>2. spot[p] # "text"
        BY <3>0 DEF OnTheWay, InAlbum
      <4>3. spot'[p] # "single"
        BY <1>2, <2>1, <2>4, <3>0, WayStep
      <4> QED BY <4>1, <4>2, <4>3
    \* Through: nobody of the album wants to be copied again.
    <3>2. ASSUME Round(q), Through(Group[q])
          PROVE  /\ Acked(q)' = Acked(q) /\ Single1(q)'
      <4>1. spot[p] \notin Sends
        BY <2>4, <3>2 DEF Through
      <4>2. ~Gets(p, q)
        BY <4>1 DEF Gets, Sends
      <4>3. Acked(q)' = Acked(q) /\ Acked(q) = 1
        BY <1>a, <2>2, <3>2, <4>2 DEF Single1
      <4>4. ~Wanted(p)
        BY <1>0, <1>l, <2>4, <3>2 DEF Through, Wanted, Struck
      <4>5. spot'[p] \notin Sends
        BY <1>2, <4>1, <4>4, WayStep DEF Sends
      <4>6. Through(Group[q])'
        BY <1>0, <1>l, <2>0, <3>2, <4>5 DEF Through
      <4> QED BY <4>3, <4>6 DEF Single1
    \* The handler of p is through with the album.
    <3>3. ASSUME spot[p] \in {"album", "parts"}, spot'[p] = "record" PROVE Through(Group[q])'
      <4>1. entry'.there => \A m \in Posts : Group[m] = Group[q] => m <= entry'.last
        <5>1. Forwarded(Highest(Mates(p))) /\ Highest(Mates(p)) \in Posts
          BY <1>2, <3>3, EntryStep, AlbumFacts
        <5>2. entry'.there => Highest(Mates(p)) <= entry'.last
          <6> DEFINE h == Highest(Mates(p))
          <6>1. h \in Nat /\ entry' = [entry EXCEPT !.last = IF entry.there /\ h > @ THEN h ELSE @]
            BY <1>0, <5>1 DEF Forwarded
          <6> HIDE DEF h
          <6>2. entry'.there => h <= entry'.last
            BY <1>0, <1>l, <6>1
          <6> QED BY <6>2 DEF h
        <5> QED BY <1>0, <1>l, <3>0, <5>1, <5>2
      <4>2. \A m \in Posts : Group[m] = Group[q] => spot'[m] \notin Sends
        BY <2>0, <2>4, <3>3 DEF Working, Sends
      <4> QED BY <4>1, <4>2 DEF Through
    <3>4. CASE Acked(q) = 0
      <4>1. Acked(q)' = 1 /\ Gets(p, q)
        BY <1>l, <2>1, <2>2, <3>4
      <4>2. CASE spot[p] = "album" /\ spot'[p] = "record"
        BY <3>3, <4>1, <4>2 DEF Single1
      <4>3. CASE /\ spot[p] = "parts" /\ spot'[p] = "parts" /\ q \in todo[p]
                 /\ todo'[p] = todo[p] \ {q} /\ any'[p]
        <5>1. PartOf(q)'
          BY <2>4, <4>3 DEF PartOf
        <5> QED BY <4>1, <5>1 DEF Single1
      <4> QED BY <3>1, <4>1, <4>2, <4>3 DEF Gets
    <3>5. CASE Acked(q) # 0 /\ ~Through(Group[q])
      <4>1. Round(q) /\ Acked(q) = 1 /\ PartOf(q)
        BY <1>a, <2>1, <3>5 DEF Round, Single1
      <4>2. PICK x \in Posts : Group[x] = Group[q] /\ spot[x] = "parts" /\ q \notin todo[x] /\ any[x]
        BY <4>1 DEF PartOf
      <4>3. CASE x # p
        <5>1. x \in Posts \ {p} /\ Group[x] = Group[p] /\ spot[x] \in Working
          BY <2>4, <4>2, <4>3 DEF Working, Sends
        <5> QED BY <2>0, <5>1
      <4>4. CASE x = p
        <5>1. ~Gets(p, q)
          BY <4>2, <4>4 DEF Gets
        <5>2. Acked(q)' = 1
          BY <2>2, <4>1, <5>1
        <5>3. CASE spot'[p] = "parts"
          <6>1. todo'[p] \subseteq todo[p] /\ any'[p]
            BY <1>2, <4>2, <4>4, <5>3, EndingStep
          <6>2. PartOf(q)'
            BY <4>2, <4>4, <5>3, <6>1 DEF PartOf
          <6> QED BY <5>2, <6>2 DEF Single1
        <5>4. CASE spot'[p] = "record"
          BY <3>3, <4>2, <4>4, <5>2, <5>4 DEF Single1
        <5>5. CASE spot'[p] = "done"
          <6>0. ~LoseAccess(p)
            BY <2>1, <2>4, <4>2, <4>4 DEF Round, LoseAccess, In
          <6>1. PartsEnd(p)
            BY <1>0, <1>2, <4>2, <4>4, <5>5, <6>0 DEF In, To, Quit, Handler, Admit, Text, LookUp, ProbeFails, Gather,
               WholeAlbum, FallsApart, Part, Single, Record
          <6> QED BY <1>0, <4>2, <4>4, <5>5, <6>1 DEF PartsEnd, To
        <5> QED BY <1>2, <3>1, <4>2, <4>4, <5>3, <5>4, <5>5, WayStep
      <4> QED BY <4>3, <4>4
    <3>6. CASE Acked(q) # 0 /\ Through(Group[q])
      <4>1. Round(q)
        BY <2>1, <3>6 DEF Round
      <4> QED BY <3>2, <3>6, <4>1
    <3> QED BY <3>4, <3>5, <3>6
  <2> QED BY <2>3, <2>4
<1>3. CASE OwnerOrders
  <2>0. UNCHANGED <<spot, todo, any, copies, unsure, apart>>
    BY <1>3 DEF OwnerOrders
  <2>1. anew' \/ (anew' = anew /\ (entry'.there => entry.there /\ entry'.last = entry.last))
    BY <1>0, <1>3 DEF OwnerOrders, Listed, NotListed
  <2> SUFFICES ASSUME ~anew', NEW q \in Posts, Round(q)' PROVE Single1(q)'
    BY <1>b
  <2>2. Round(q) /\ Acked(q)' = Acked(q)
    BY <2>0 DEF Round, InAlbum, Acked
  <2> QED BY <1>c, <1>l, <2>0, <2>1, <2>2
<1>4. CASE Restart
  <2>1. PICK S : /\ copies' = [q \in Posts |-> copies[q] + IF q \in S THEN 1 ELSE 0]
                 /\ unsure' = [q \in Posts |-> unsure[q] + IF q \in S THEN 1 ELSE 0]
    BY <1>4 DEF Restart, Copy
  <2>2. /\ \A x \in Posts : spot'[x] = IF spot[x] = "new" THEN "new" ELSE "done"
        /\ UNCHANGED <<entry, todo, any, anew>>
        /\ apart \subseteq apart' /\ \A x \in Posts : spot[x] = "parts" => Group[x] \in apart'
    BY <1>4 DEF Restart, In
  <2> SUFFICES ASSUME ~anew, NEW q \in Posts, Round(q)' PROVE Single1(q)'
    BY <1>b, <2>2
  <2>3. Acked(q)' = Acked(q)
    BY <1>0, <2>1 DEF Acked
  <2>4. Round(q) /\ Group[q] \notin apart'
    BY <2>2, <2>3 DEF Round, InAlbum
  <2>5. Acked(q) = 1 /\ Through(Group[q])
    BY <1>a, <2>2, <2>4 DEF Single1, PartOf
  <2>6. Through(Group[q])'
    BY <2>2, <2>5 DEF Through, Sends
  <2> QED BY <2>3, <2>5, <2>6 DEF Single1
<1>5. CASE UNCHANGED forwardVars
  BY <1>5 DEF forwardVars, forwardHistory, OneRound, Mates, InAlbum, Acked, Through
<1> QED BY <1>1, <1>2, <1>3, <1>4, <1>5 DEF ForwardNext

LEMMA ForwardInitInv == ForwardInit => ForwardInv
<1> SUFFICES ASSUME ForwardInit PROVE ForwardInv
  OBVIOUS
<1>0. /\ FailLimit \in Nat \ {0} /\ \A p \in Posts : p \in Nat /\ p > 0
      /\ ForwardCases \subseteq [posts : SUBSET Posts, orders : Nat, troubles : Nat, restarts : Nat]
  BY ForwardAssumption
<1>1. /\ entry = [there |-> TRUE, on |-> TRUE, last |-> 0] /\ losses = 0 /\ strikes = 0
      /\ line = [p \in Posts |-> <<>>] /\ todo = [p \in Posts |-> {}] /\ any = [p \in Posts |-> FALSE]
      /\ copies = [p \in Posts |-> 0] /\ unsure = [p \in Posts |-> 0] /\ newest = 0
      /\ skipped = {} /\ late = {} /\ failed = {} /\ apart = {} /\ anew = FALSE
  BY DEF ForwardInit, Listed
<1>2. PICK case \in ForwardCases :
          /\ budget = [orders |-> case.orders, troubles |-> case.troubles, restarts |-> case.restarts]
          /\ spot = [p \in Posts |-> IF p \in case.posts THEN "new" ELSE "done"]
  BY DEF ForwardInit
<1>3. \A p \in Posts : spot[p] \in {"new", "done"}
  BY <1>2
<1>4. ForwardTypes
  <2>1. budget \in [orders : Nat, troubles : Nat, restarts : Nat]
    BY <1>0, <1>2
  <2>2. spot \in [Posts -> Spots]
    BY <1>2 DEF Spots
  <2>3. /\ entry \in [there : BOOLEAN, on : BOOLEAN, last : Posts \cup {0}] /\ losses \in Nat /\ strikes \in Nat
        /\ line \in [Posts -> Seq(Posts)] /\ todo \in [Posts -> SUBSET Posts] /\ any \in [Posts -> BOOLEAN]
    BY <1>1
  <2>4. /\ copies \in [Posts -> Nat] /\ unsure \in [Posts -> Nat] /\ newest \in Posts \cup {0}
        /\ skipped \subseteq Posts /\ late \subseteq Posts /\ failed \subseteq Posts /\ apart \subseteq Posts
        /\ anew \in BOOLEAN
    BY <1>1
  <2> QED BY <2>1, <2>2, <2>3, <2>4 DEF ForwardTypes
<1>5. OnTheWay
  BY <1>0, <1>1, <1>3 DEF OnTheWay
<1>6. Locked /\ Served
  BY <1>1, <1>3 DEF Locked, Served, Working, Sends
<1>7. LastServed /\ NonePassedOver
  BY <1>0, <1>1 DEF LastServed, NonePassedOver
<1>8. \A q \in Posts : Acked(q) = 0
  BY <1>1 DEF Acked
<1>9. CopiesBounded
  <2>1. ASSUME NEW q \in Posts
        PROVE  Cardinality(Contributed(q)) \in Nat /\ OwnCopy(q) \in Nat
    <3>1. Contributed(q) \subseteq Mates(q) /\ IsFiniteSet(Mates(q))
      BY AlbumFacts DEF Contributed
    <3>2. IsFiniteSet(Contributed(q))
      BY <3>1, FS_Subset
    <3> QED BY <3>2, FS_CardinalityType DEF OwnCopy
  <2>2. \A q \in Posts : unsure[q] <= copies[q]
    BY <1>1
  <2> QED BY <1>8, <2>1, <2>2 DEF CopiesBounded
<1>10. OneRound
  BY <1>8 DEF OneRound
<1>11. Struck
  BY <1>0, <1>1 DEF Struck
<1> QED BY <1>4, <1>5, <1>6, <1>7, <1>9, <1>10, <1>11 DEF ForwardInv

LEMMA ForwardInvariant == ForwardSpec => []ForwardInv
<1>1. ForwardInv /\ [ForwardNext]_forwardVars => ForwardInv'
  <2> SUFFICES ASSUME ForwardInv, [ForwardNext]_forwardVars PROVE ForwardInv'
    OBVIOUS
  <2>1. ForwardTypes'
    BY ForwardTypesStep DEF ForwardInv
  <2>2. OnTheWay' /\ Locked' /\ Struck'
    BY <2>1, OnTheWayStep, LockedStep, StruckStep DEF ForwardInv
  <2>3. Served' /\ LastServed' /\ NonePassedOver'
    BY <2>1, ServedStep, LastServedStep, PassedStep DEF ForwardInv
  <2>4. CopiesBounded' /\ OneRound'
    BY <2>1, CopiesStep, OneRoundStep DEF ForwardInv
  <2> QED BY <2>1, <2>2, <2>3, <2>4 DEF ForwardInv
<1> QED BY <1>1, ForwardInitInv, PTL DEF ForwardSpec

\* Every handler is where it can be, the list names a post, and what is recorded of the
\* posts is about posts: the types of ForwardTypeOK.
THEOREM ForwardTypesHold == ForwardSpec => []ForwardTypeOK
<1>1. ForwardInv => ForwardTypeOK
  BY DEF ForwardInv, ForwardTypes, ForwardTypeOK, Spots, Working, Sends
<1> QED BY <1>1, ForwardInvariant, PTL

\* A post of a monitored channel is copied once, but for the exceptions that CopiedOnce names;
\* none is passed over that should have been copied; and a channel that is on has not lost
\* access too often.  For any posts, albums, orders of the owner, troubles and restarts.
THEOREM ForwardIsSound == ForwardSpec => []ForwardSound
<1>1. ASSUME ForwardInv PROVE ForwardSound
  <2>0. ForwardTypes /\ CopiesBounded /\ OneRound /\ NonePassedOver /\ Struck
    BY <1>1 DEF ForwardInv
  <2>1. CopiedOnce
    <3> SUFFICES ASSUME ~anew, NEW p \in Posts
                 PROVE  copies[p] <= unsure[p] + 1 + (IF Group[p] \in apart THEN Cardinality(Mates(p)) ELSE 0)
      BY DEF CopiedOnce
    <3>1. copies[p] \in Nat /\ unsure[p] \in Nat /\ Acked(p) \in Int /\ copies[p] = unsure[p] + Acked(p)
      BY <2>0 DEF ForwardTypes, Acked
    <3>2. Cardinality(Contributed(p)) <= Cardinality(Mates(p))
          /\ Cardinality(Mates(p)) \in Nat /\ Cardinality(Contributed(p)) \in Nat
      <4>1. Contributed(p) \subseteq Mates(p) /\ IsFiniteSet(Mates(p))
        BY AlbumFacts DEF Contributed
      <4>2. IsFiniteSet(Contributed(p)) /\ Cardinality(Contributed(p)) <= Cardinality(Mates(p))
        BY <4>1, FS_Subset
      <4> QED BY <4>1, <4>2, FS_CardinalityType
    <3>3. OwnCopy(p) \in Int /\ OwnCopy(p) <= 1
      BY DEF OwnCopy
    <3>4. CASE ~InAlbum(p)
      <4>1. Acked(p) <= OwnCopy(p)
        BY <2>0, <3>4 DEF CopiesBounded
      <4> QED BY <3>1, <3>2, <3>3, <4>1
    <3>5. CASE InAlbum(p) /\ Group[p] \in apart
      <4>1. Acked(p) <= Cardinality(Contributed(p)) + OwnCopy(p)
        BY <2>0, <3>5 DEF CopiesBounded
      <4> QED BY <3>1, <3>2, <3>3, <3>5, <4>1
    <3>6. CASE InAlbum(p) /\ Group[p] \notin apart
      <4>1. Acked(p) = 0 \/ Acked(p) = 1
        BY <2>0, <3>6 DEF OneRound
      <4> QED BY <3>1, <3>6, <4>1
    <3> QED BY <3>4, <3>5, <3>6
  <2>2. SwitchedOff
    BY <2>0 DEF SwitchedOff, Struck
  <2> QED BY <2>0, <2>1, <2>2 DEF ForwardSound
<1> QED BY <1>1, ForwardInvariant, PTL

-----------------------------------------------------------------------------
(* The log of the private conversations, for any messages and orders.      *)

Procs   == Syncing \cup {worker}
Calling == {"look", "header", "forward"}
AtWork  == {"cool", "wait"} \cup Calling
Syncs   == {"new", "validate", "save", "wait", "find", "push", "sleep", "done"}

\* A policy that is on has a target, and one that is not the owner's is that of the
\* environment; of a document, a reset.
Sane(p) == p \in Policies /\ (p.on => p.target # NoTarget)
Good == {p \in Policies : Sane(p) /\ (p.owner \/ p = ByEnv)}
Docs == {p \in Policies : Sane(p) /\ (p.owner \/ p = Reset)}

Events == [rev : Nat, target : Targets, letter : Letters, ver : 0..2]
Thing(m) == IF AlbumOf[m] = NoAlbum THEN m ELSE AlbumOf[m]
Things == {Thing(m) : m \in Letters}
Heads == [user : Chats, what : {<<>>}, shows : {<<>>}]
Texted == [user : Chats, what : Nat \X Nat \X Things \X (0..2), shows : Letters \X (0..2)]

ServerTypes ==
    /\ bot \in {"down", "connect", "up"} /\ policy \in Good /\ revision \in Nat
    /\ pending \in BOOLEAN /\ restored \in BOOLEAN /\ named \in BOOLEAN
    /\ lock \in Seq(Procs)
    /\ file = Absent \/ file \in [doc : Docs, pending : BOOLEAN]
    /\ cloud \in Docs \cup {Absent} /\ overdue \in Docs \cup {Absent}
    /\ step \in [Procs -> AtWork \cup Syncs \cup {"idle"}]
    /\ ordered \in [Orders -> Policies] /\ \A k \in Orders : step[k] \in {"validate", "save"} => ordered[k] \in Good
    /\ boots \in Nat /\ faults \in Nat /\ chosen \in Docs /\ spoiled \in BOOLEAN

QueueTypes ==
    /\ backlog \in Seq(Events) /\ event \in Events \cup {NoEvent}
    /\ attempt \in Nat /\ cooling \in BOOLEAN /\ lastHeader \in Nat \X (Chats \cup {Absent}) /\ stale \in BOOLEAN
    /\ seen \subseteq Nat \X Letters \X (0..2) /\ control \subseteq Chats /\ auth \subseteq Chats

TalkTypes ==
    /\ unwritten \subseteq Letters /\ version \in [Letters -> 0..2] /\ echoes \subseteq Letters
    /\ asking \in [Chats -> {"no", "sure", "unsure"}] /\ posted \in [Targets -> Seq(Heads \cup Texted)]
    /\ private \subseteq Letters \X {0} /\ slipped \subseteq Letters /\ blurred \in BOOLEAN

LogTypes == ServerTypes /\ QueueTypes /\ TalkTypes

\* Who works in the lock has it; while the process is down nobody does anything.
Holding ==
    /\ step[worker] \in Calling => Owns(worker)
    /\ \A p \in Syncing : step[p] \in {"find", "push"} => Owns(p)
Awake ==
    /\ bot = "down" => lock = <<>> /\ lastHeader = NoHeader /\ \A p \in Syncing : step[p] \in {"new", "done"}
    /\ bot # "up" => step[worker] = "done" /\ backlog = <<>>
    /\ IF step[worker] \in AtWork THEN event \in Events ELSE event = NoEvent
    /\ step[starter] # "done" => bot = "connect"
    /\ step[worker] # "new" /\ step[starter] # "new"

\* What the worker is at belongs to the policy in force.
InForce == step[worker] \in Calling => event.rev = revision /\ policy.on /\ event.target = policy.target

\* A message, or an album, under a policy.
KeyOf(rev, m, v) == <<rev, Thing(m), IF AlbumOf[m] = NoAlbum THEN v ELSE 0>>
EventKey(e) == KeyOf(e.rev, e.letter, e.ver)
PostKey(x)  == KeyOf(x.what[2], x.shows[1], x.what[4])
Marks == {KeyOf(s[1], s[2], s[3]) : s \in seen}

Unrepeated ==
    /\ \A s \in seen : AlbumOf[s[2]] # NoAlbum => <<s[1], AlbumOf[s[2]]>> \in albums
    /\ \A i \in DOMAIN backlog : EventKey(backlog[i]) \in Marks
    /\ \A i, j \in DOMAIN backlog : EventKey(backlog[i]) = EventKey(backlog[j]) => i = j
    /\ event # NoEvent =>
          EventKey(event) \in Marks /\ \A i \in DOMAIN backlog : EventKey(backlog[i]) # EventKey(event)

\* What has been posted by this process is marked, and not in the queue any more.
Accounted(x) ==
    IsPost(x) => /\ x.what[1] >= boots /\ x.what[3] = Thing(x.shows[1])
                 /\ x.what[1] = boots /\ bot # "down" =>
                       /\ PostKey(x) \in Marks
                       /\ \A j \in DOMAIN backlog : EventKey(backlog[j]) # PostKey(x)
                       /\ event # NoEvent => EventKey(event) # PostKey(x)
PostedOnce == (\A t \in Targets : \A i \in DOMAIN posted[t] : Accounted(posted[t][i])) /\ LoggedOnce

\* The header that the worker remembers is the last of the chat it posts to.
Headed ==
    /\ lastHeader[1] <= revision
    /\ step[worker] = "forward" => lastHeader = HeaderKey
    /\ ~blurred /\ lastHeader # NoHeader /\ lastHeader[1] = revision =>
          /\ policy.target \in Targets
          /\ Under(posted[policy.target], Len(posted[policy.target])) = lastHeader[2]
    /\ UnderOwnName

\* Who answers a login is known to be in one; what was answered is not queued.
Discreet ==
    /\ \A c \in Chats : asking[c] = "sure" => c \in auth
    /\ \A x \in private : x[1] \notin unwritten /\ KindOf[x[1]] \in {"text", "photo"}
    /\ \A m \in echoes : KindOf[m] \in FromBot /\ m \notin unwritten
    /\ \A i \in DOMAIN backlog :
          backlog[i].letter \notin unwritten /\ <<backlog[i].letter, backlog[i].ver>> \notin private
    /\ event # NoEvent => event.letter \notin unwritten /\ <<event.letter, event.ver>> \notin private
    /\ \A t \in Targets : \A i \in DOMAIN posted[t] : IsPost(posted[t][i]) => posted[t][i].shows[1] \notin unwritten
    /\ step[worker] \in {"header", "forward"} /\ Progress(event.letter, version[event.letter]) =>
          event.letter \in slipped
    /\ KeptOut

\* Where the policy stands.
Stored ==
    /\ bot = "down" => ~restored
    /\ bot # "down" => (pending <=> file # Absent /\ file.pending)
    /\ bot # "down" /\ file = Absent => policy = ByEnv
    /\ \A p \in Syncing : /\ step[p] = "find" => ~pending
                          /\ step[p] = "push" => pending
    /\ file # Absent /\ ~file.pending => cloud # Absent
    /\ ~spoiled => /\ file # Absent => file.doc = chosen
                   /\ \/ cloud = chosen
                      \/ file # Absent /\ file.pending
                      \/ cloud = Absent /\ chosen = Reset
                   /\ bot # "down" /\ (restored \/ file # Absent) => policy = Decode(chosen)

LogInv == LogTypes /\ Holding /\ Awake /\ InForce /\ Unrepeated /\ PostedOnce /\ Headed /\ Discreet /\ Stored

\* The four sorts of steps: of the conversations, of the worker, of the settings, and of
\* the process.
Talks == \/ \E m \in Letters : Write(m) \/ Echo(m) \/ Edit(m)
         \/ \E c \in Chats : LoginEnds(c)
Works == Deliver \/ CooldownEnds \/ HeaderAges \/ CallFails \/ Flood
Settles == \/ \E k \in Orders : Order(k) \/ Validate(k) \/ Save(k)
           \/ \E p \in Syncing : Sync(p) \/ SyncFails(p)
           \/ LateWrite \/ Minute
Restarts == Boot \/ StartLog \/ Down \/ OtherServer

LEMMA FourSorts == [LogNext]_logVars <=> Talks \/ Works \/ Settles \/ Restarts \/ UNCHANGED logVars
  BY DEF LogNext, Talks, Works, Settles, Restarts

\* The processes of the log are different ones.
LEMMA Distinct ==
    /\ worker \notin Syncing /\ Syncing \subseteq Procs /\ worker \in Procs /\ Orders \subseteq Syncing
    /\ starter \in Syncing /\ minute \in Syncing /\ starter \notin Orders /\ minute \notin Orders /\ starter # minute
  BY ChatLogAssumption DEF Procs, Syncing

\* What the steps of the conversations, the worker and the settings leave alone.
LEMMA TalksFrame ==
    ASSUME Talks
    PROVE  UNCHANGED <<bot, policy, revision, pending, restored, named, lock, file, cloud, overdue, step, ordered,
                       event, attempt, cooling, lastHeader, stale, posted, boots, faults, chosen, spoiled, blurred>>
  BY DEF Talks, Write, Echo, Edit, LoginEnds, settings, delivery, marks, logHistory

LEMMA WorksFrame ==
    ASSUME LogTypes, Works
    PROVE  /\ UNCHANGED <<bot, policy, revision, pending, restored, named, file, cloud, overdue, ordered, seen, albums,
                          control, auth, unwritten, version, echoes, asking, boots, chosen, spoiled, private, slipped>>
           /\ \A p \in Syncing : step'[p] = step[p]
<1>1. UNCHANGED <<bot, policy, revision, pending, restored, named, file, cloud, overdue, ordered, seen, albums,
                  control, auth, unwritten, version, echoes, asking, boots, chosen, spoiled, private, slipped>>
  BY DEF Works, Deliver, Take, DropInCooldown, CooldownEnds, HeaderAges, WorkerAsks, WorkerLocked, Look, Header, Forward,
         CallFails, Flood, Settled, settings, marks, talk, logHistory
<1>2. step' = step \/ \E x : step' = [step EXCEPT ![worker] = x]
  BY DEF Works, Deliver, Take, DropInCooldown, CooldownEnds, HeaderAges, WorkerAsks, WorkerLocked, Look, Header, Forward,
         CallFails, Flood, Settled, Moves
<1>3. step \in [Procs -> AtWork \cup Syncs \cup {"idle"}]
  BY DEF LogTypes, ServerTypes
<1> QED BY <1>1, <1>2, <1>3, Distinct

LEMMA SettlesFrame ==
    ASSUME Settles
    PROVE  UNCHANGED <<backlog, event, attempt, cooling, lastHeader, stale, seen, albums, control, auth, unwritten,
                       version, echoes, asking, posted, boots, private, blurred, slipped>>
  BY DEF Settles, Order, Validate, Save, Sync, SyncLocked, Find, Push, SyncFails, LateWrite, Minute, delivery, marks,
         talk, logHistory

LEMMA RestartsFrame ==
    ASSUME Restarts
    PROVE  /\ UNCHANGED <<ordered, posted, unwritten, version, private, blurred, slipped, chosen, cloud, overdue>>
           /\ \/ UNCHANGED <<backlog, event, attempt, cooling, lastHeader, stale, seen, albums, control, auth, echoes,
                             asking>>
              \/ Down
  BY DEF Restarts, Boot, StartLog, Down, OtherServer, delivery, marks, talk, logHistory

LEMMA NothingFrame ==
    ASSUME UNCHANGED logVars
    PROVE  UNCHANGED <<bot, policy, revision, pending, restored, named, lock, file, cloud, overdue, step, ordered,
                       backlog, event, attempt, cooling, lastHeader, stale, seen, albums, control, auth, unwritten,
                       version, echoes, asking, posted, boots, faults, chosen, spoiled, private, blurred, slipped>>
  BY DEF logVars, settings, delivery, marks, talk, logHistory

\* Documents: what is kept of a policy gives it back.
LEMMA DocumentFacts ==
    /\ ByEnv \in Good /\ Reset \in Docs /\ ByEnv.target # NoTarget
    /\ \A p \in Good : Document(p) \in Docs /\ Decode(Document(p)) = p
    /\ \A d \in Docs : Decode(d) \in Good /\ Document(Decode(d)) = d
    /\ Absent \notin Docs /\ \A d \in Docs : \A b \in BOOLEAN : [doc |-> d, pending |-> b] # Absent
<1>1. EnvTarget \in Targets /\ NoTarget \notin Targets
      /\ Absent \notin Policies /\ Absent \notin [doc : Policies, pending : BOOLEAN]
  BY ChatLogAssumption
<1>2. ByEnv \in Good /\ Reset \in Docs /\ ByEnv.target # NoTarget
  BY <1>1 DEF ByEnv, Reset, Good, Docs, Sane, Policies
<1>3. \A p \in Good : Document(p) \in Docs /\ Decode(Document(p)) = p
  BY <1>1, <1>2 DEF Good, Docs, Document, Decode, Reset, ByEnv
<1>4. \A d \in Docs : Decode(d) \in Good /\ Document(Decode(d)) = d
  BY <1>1, <1>2 DEF Good, Docs, Document, Decode, Reset, ByEnv
<1>5. Absent \notin Docs /\ \A d \in Docs : \A b \in BOOLEAN : [doc |-> d, pending |-> b] # Absent
  <2>1. \A d \in Docs : \A b \in BOOLEAN : [doc |-> d, pending |-> b] \in [doc : Policies, pending : BOOLEAN]
    BY DEF Docs
  <2> QED BY <1>1, <2>1 DEF Docs
<1> QED BY <1>2, <1>3, <1>4, <1>5

\* Who has the lock.
LEMMA LockFacts ==
    ASSUME lock \in Seq(Procs)
    PROVE  /\ \A p \in Procs : Append(lock, p) \in Seq(Procs) /\ Append(lock, p) # <<>>
           /\ \A p \in Procs : Owns(p) => /\ lock # <<>> /\ Tail(lock) \in Seq(Procs)
                                         /\ Append(Tail(lock), p) \in Seq(Procs)
           /\ \A p, q \in Procs : Owns(p) /\ Owns(q) => p = q
           /\ \A p, q \in Procs : Owns(q) /\ lock' = Append(lock, p) => Owns(q)'
<1>1. \A p \in Procs : Append(lock, p) \in Seq(Procs) /\ Append(lock, p) # <<>>
  BY AppendFacts
<1>2. lock # <<>> => Tail(lock) \in Seq(Procs)
  BY TailFacts
<1>3. \A s \in Seq(Procs), p \in Procs : Append(s, p) \in Seq(Procs)
  BY AppendFacts
<1>4. \A p \in Procs : lock # <<>> => Head(Append(lock, p)) = Head(lock)
  BY AppendFacts
<1> QED BY <1>1, <1>2, <1>3, <1>4 DEF Owns

\* The lock and the place of the worker.
LEMMA WorkerWay ==
    ASSUME LogTypes, Holding, Works
    PROVE  /\ \/ lock' = lock /\ (step'[worker] \in Calling => step[worker] \in Calling \/ Owns(worker))
              \/ lock' = Append(lock, worker) /\ step'[worker] = "wait"
              \/ Owns(worker) /\ lock' = Tail(lock) /\ step'[worker] \in {"idle", "cool"}
           /\ \/ step' = step
              \/ \E x \in AtWork \cup {"idle"} : step' = [step EXCEPT ![worker] = x]
<1>1. step \in [Procs -> AtWork \cup Syncs \cup {"idle"}] /\ worker \in Procs
  BY Distinct DEF LogTypes, ServerTypes
<1>2. CASE Take \/ DropInCooldown \/ CooldownEnds \/ HeaderAges \/ WorkerAsks
  BY <1>1, <1>2 DEF Take, DropInCooldown, CooldownEnds, HeaderAges, WorkerAsks, Moves, AtWork, Calling, settings
<1>3. CASE WorkerLocked \/ Look \/ Header
  BY <1>1, <1>3 DEF WorkerLocked, Look, Header, Settled, Release, Moves, Stands, AtWork, Calling, Onwards, settings,
                    Holding
<1>4. CASE Forward \/ CallFails \/ Flood
  BY <1>1, <1>4 DEF Forward, CallFails, Flood, Settled, Release, Moves, Stands, AtCall, AtWork, Calling, Holding
<1> QED BY <1>2, <1>3, <1>4 DEF Works, Deliver

\* The lock and the places of the others.
LEMMA SyncWay ==
    ASSUME LogTypes, NEW p \in Syncing,
           \/ p \in Orders /\ (Order(p) \/ Validate(p) \/ Save(p))
           \/ Sync(p) \/ SyncFails(p)
           \/ p = minute /\ Minute
    PROVE  /\ \/ lock' = lock /\ (step'[p] \in {"find", "push"} => Owns(p))
              \/ lock' = Append(lock, p) /\ step'[p] \in {"save", "wait"}
              \/ Owns(p) /\ lock' = Tail(lock) /\ step'[p] \in {"done", "sleep"}
              \/ Owns(p) /\ lock' = Append(Tail(lock), p) /\ step'[p] = "wait"
           /\ \/ /\ bot' = bot /\ \E x \in Syncs : step' = [step EXCEPT ![p] = x]
              \/ /\ p = starter /\ bot' = "up" /\ Owns(p) /\ lock' = Tail(lock)
                 /\ step' = [step EXCEPT ![p] = "done", ![worker] = "idle", ![minute] = "sleep"]
<1>1. /\ step \in [Procs -> AtWork \cup Syncs \cup {"idle"}] /\ p \in Procs /\ minute \in Procs
      /\ starter # minute /\ starter # worker
  BY Distinct DEF LogTypes, ServerTypes
<1>2. CASE p \in Orders /\ (Order(p) \/ Validate(p) \/ Save(p))
  BY <1>1, <1>2 DEF Order, Validate, Save, Moves, Syncs
<1>3. CASE SyncLocked(p) \/ Find(p)
  BY <1>1, <1>3 DEF SyncLocked, Find, Leaves, Release, Moves, Syncs
<1>4. CASE Push(p) \/ SyncFails(p) \/ (p = minute /\ Minute)
  BY <1>1, <1>4 DEF Push, SyncFails, Minute, Leaves, Release, Moves, Syncs
<1> QED BY <1>2, <1>3, <1>4 DEF Sync

\* The steps of the settings, by who takes them.
LEMMA SettlesBy ==
    ASSUME Settles
    PROVE  \/ \E p \in Syncing : \/ p \in Orders /\ (Order(p) \/ Validate(p) \/ Save(p))
                                 \/ Sync(p) \/ SyncFails(p)
                                 \/ p = minute /\ Minute
           \/ LateWrite
  BY Distinct DEF Settles

\* Who is not the one that takes the step stays where it is, but for the start.
LEMMA OthersWay ==
    ASSUME LogTypes, NEW p \in Syncing,
           \/ \E x \in Syncs : step' = [step EXCEPT ![p] = x]
           \/ p = starter /\ step' = [step EXCEPT ![p] = "done", ![worker] = "idle", ![minute] = "sleep"]
    PROVE  /\ \A q \in Procs \ {p} : \/ step'[q] = step[q]
                                     \/ p = starter /\ step'[q] = (IF q = worker THEN "idle" ELSE "sleep")
           /\ step'[worker] \in Calling => step[worker] = step'[worker]
           /\ \A q \in Syncing \ {p} : step'[q] \in {"find", "push", "validate", "save"} => step'[q] = step[q]
<1>1. /\ step \in [Procs -> AtWork \cup Syncs \cup {"idle"}] /\ p \in Procs /\ worker \in Procs /\ minute \in Procs
      /\ starter # minute /\ starter # worker /\ Syncing \subseteq Procs /\ p # worker /\ minute # worker
  BY Distinct DEF LogTypes, ServerTypes
<1> QED BY <1>1 DEF Calling

LEMMA HoldingStep ==
    ASSUME LogTypes, Holding, [LogNext]_logVars
    PROVE  Holding'
<1>0. /\ lock \in Seq(Procs) /\ step \in [Procs -> AtWork \cup Syncs \cup {"idle"}]
      /\ \A q \in Syncing : q \in Procs /\ q # worker
      /\ worker \in Procs
  BY Distinct DEF LogTypes, ServerTypes
<1>1. CASE Talks \/ UNCHANGED logVars
  BY <1>1, TalksFrame, NothingFrame DEF Holding, Owns
<1>2. CASE Works
  <2>1. \A q \in Syncing : step'[q] = step[q]
    BY <1>2, WorksFrame
  <2>2. CASE lock' = lock /\ (step'[worker] \in Calling => step[worker] \in Calling \/ Owns(worker))
    BY <2>1, <2>2 DEF Holding, Owns
  <2>3. CASE lock' = Append(lock, worker) /\ step'[worker] = "wait"
    <3>1. \A q \in Procs : Owns(q) => Owns(q)'
      BY <1>0, <2>3, LockFacts
    <3> QED BY <1>0, <2>1, <2>3, <3>1 DEF Holding, Calling
  <2>4. CASE Owns(worker) /\ lock' = Tail(lock) /\ step'[worker] \in {"idle", "cool"}
    <3>1. \A q \in Syncing : ~Owns(q)
      BY <1>0, <2>4, LockFacts
    <3> QED BY <2>1, <2>4, <3>1 DEF Holding, Calling
  <2> QED BY <1>2, <2>2, <2>3, <2>4, WorkerWay
<1>3. CASE Settles
  <2>1. CASE LateWrite
    BY <2>1 DEF LateWrite, Holding, Owns
  <2>2. ASSUME NEW p \in Syncing, \/ p \in Orders /\ (Order(p) \/ Validate(p) \/ Save(p))
                                  \/ Sync(p) \/ SyncFails(p)
                                  \/ p = minute /\ Minute
        PROVE  Holding'
    <3>1. /\ step'[worker] \in Calling => step[worker] \in Calling
          /\ \A q \in Syncing \ {p} : step'[q] \in {"find", "push"} => step'[q] = step[q]
      BY <2>2, SyncWay, OthersWay
    <3>2. CASE lock' = lock /\ (step'[p] \in {"find", "push"} => Owns(p))
      BY <3>1, <3>2 DEF Holding, Owns
    <3>3. CASE lock' = Append(lock, p) /\ step'[p] \in {"save", "wait"}
      <4>1. \A q \in Procs : Owns(q) => Owns(q)'
        BY <1>0, <3>3, LockFacts
      <4> QED BY <1>0, <3>1, <3>3, <4>1 DEF Holding
    <3>4. CASE Owns(p) /\ step'[p] \in {"done", "sleep", "wait"}
      <4>1. \A q \in Procs \ {p} : ~Owns(q)
        BY <1>0, <3>4, LockFacts
      <4> QED BY <1>0, <3>1, <3>4, <4>1 DEF Holding
    <3> QED BY <2>2, <3>2, <3>3, <3>4, SyncWay
  <2> QED BY <1>3, <2>1, <2>2, SettlesBy
<1>4. CASE Restarts
  <2>1. CASE Boot \/ OtherServer
    BY <2>1 DEF Boot, OtherServer, Holding, Owns
  <2>2. CASE StartLog
    <3>1. \A q \in Procs : Owns(q) => Owns(q)'
      BY <1>0, <2>2, LockFacts, Distinct DEF StartLog
    <3>2. step' = [step EXCEPT ![starter] = "wait"] /\ starter \in Syncing
      BY <2>2, Distinct DEF StartLog, Moves
    <3> QED BY <1>0, <3>1, <3>2 DEF Holding, Calling
  <2>3. CASE Down
    <3>1. \A q \in Procs : step'[q] \in {"new", "done"}
      BY <1>0, <2>3 DEF Down
    <3> QED BY <1>0, <3>1 DEF Holding, Calling
  <2> QED BY <1>4, <2>1, <2>2, <2>3 DEF Restarts
<1> QED BY <1>1, <1>2, <1>3, <1>4, FourSorts
\* What submit() does to the queue and the marks.
Queued(m, v) == [rev |-> revision, target |-> policy.target, letter |-> m, ver |-> v]

LEMMA SubmitWay ==
    ASSUME LogTypes, NEW m \in Letters, NEW v \in 0..2, Submit(m, v)
    PROVE  /\ control' \subseteq Chats /\ auth' \subseteq Chats
           /\ \/ UNCHANGED <<backlog, seen, albums>>
              \/ /\ bot = "up" /\ policy.on /\ Passes(m, v) /\ Queued(m, v) \in Events
                 /\ backlog' = Append(backlog, Queued(m, v)) /\ seen' = seen \cup {Mark(m, v)}
                 /\ albums' = IF AlbumOf[m] = NoAlbum THEN albums ELSE albums \cup {AlbumMark(m)}
<1>1. /\ control \subseteq Chats /\ auth \subseteq Chats /\ ChatOf[m] \in Chats
      /\ policy \in Good /\ revision \in Nat
  BY ChatLogAssumption DEF LogTypes, ServerTypes, QueueTypes
<1>2. control' \subseteq Chats /\ auth' \subseteq Chats
  BY <1>1 DEF Submit, ControlAfter, AuthAfter, marks
<1>3. policy.on => Queued(m, v) \in Events
  BY <1>1 DEF Good, Sane, Policies, Queued, Events
<1>4. \/ UNCHANGED <<backlog, seen, albums>>
      \/ /\ bot = "up" /\ policy.on /\ Passes(m, v)
         /\ backlog' = Append(backlog, Queued(m, v)) /\ seen' = seen \cup {Mark(m, v)}
         /\ albums' = IF AlbumOf[m] = NoAlbum THEN albums ELSE albums \cup {AlbumMark(m)}
  BY DEF Submit, Logs, Queued, marks
<1> QED BY <1>2, <1>3, <1>4

\* A step of the conversations hands at most one message to submit().
LEMMA TalksWay ==
    ASSUME LogTypes, Talks
    PROVE  /\ \/ \E m \in Letters, v \in 0..2 : Submit(m, v)
              \/ UNCHANGED <<backlog, marks>>
           /\ unwritten' \subseteq unwritten
           /\ version' \in [Letters -> 0..2] /\ echoes' \subseteq Letters
           /\ asking' \in [Chats -> {"no", "sure", "unsure"}]
           /\ private' \subseteq Letters \X {0} /\ slipped' \subseteq Letters
<1>1. TalkTypes
  BY DEF LogTypes
<1>2. ASSUME NEW m \in Letters, Write(m)
      PROVE  /\ Submit(m, 0) /\ unwritten' \subseteq unwritten /\ version' = version /\ echoes' \subseteq Letters
             /\ asking' \in [Chats -> {"no", "sure", "unsure"}]
             /\ private' \subseteq Letters \X {0} /\ slipped' = slipped
  <2>1. ChatOf[m] \in Chats
    BY ChatLogAssumption
  <2>2. asking' \in [Chats -> {"no", "sure", "unsure"}]
    BY <1>1, <1>2, <2>1 DEF Write, TalkTypes
  <2> QED BY <1>1, <1>2, <2>2 DEF Write, TalkTypes
<1>3. ASSUME NEW m \in Letters, Echo(m)
      PROVE  /\ Submit(m, version[m]) /\ version[m] \in 0..2 /\ echoes' \subseteq Letters
             /\ UNCHANGED <<unwritten, version, asking, private, slipped>>
  BY <1>1, <1>3 DEF Echo, TalkTypes, logHistory
<1>4. ASSUME NEW m \in Letters, Edit(m)
      PROVE  /\ Submit(m, version[m] + 1) /\ version[m] + 1 \in 0..2 /\ version' \in [Letters -> 0..2]
             /\ UNCHANGED <<unwritten, echoes, asking, private>> /\ slipped' \subseteq Letters
  BY <1>1, <1>4 DEF Edit, TalkTypes
<1>5. ASSUME NEW c \in Chats, LoginEnds(c)
      PROVE  /\ UNCHANGED <<backlog, marks, unwritten, version, echoes, private, slipped>>
             /\ asking' \in [Chats -> {"no", "sure", "unsure"}]
  BY <1>1, <1>5 DEF LoginEnds, TalkTypes, delivery, logHistory
<1>6. CASE \E m \in Letters : Write(m)
  BY <1>1, <1>2, <1>6 DEF TalkTypes
<1>7. CASE \E m \in Letters : Echo(m)
  BY <1>1, <1>3, <1>7 DEF TalkTypes
<1>8. CASE \E m \in Letters : Edit(m)
  BY <1>1, <1>4, <1>8 DEF TalkTypes
<1>9. CASE \E c \in Chats : LoginEnds(c)
  BY <1>1, <1>5, <1>9 DEF TalkTypes
<1> QED BY <1>6, <1>7, <1>8, <1>9 DEF Talks

LEMMA TalksTypes ==
    ASSUME LogTypes, Talks
    PROVE  LogTypes'
<1>1. ServerTypes'
  BY TalksFrame DEF LogTypes, ServerTypes
<1>2. TalkTypes'
  <2>1. unwritten' \subseteq Letters
    BY TalksWay DEF LogTypes, TalkTypes
  <2> QED BY <2>1, TalksWay, TalksFrame DEF LogTypes, TalkTypes
<1>3. ASSUME NEW m \in Letters, NEW v \in 0..2, Submit(m, v)
      PROVE  /\ backlog' \in Seq(Events) /\ seen' \subseteq Nat \X Letters \X (0..2)
             /\ control' \subseteq Chats /\ auth' \subseteq Chats
  <2>1. revision \in Nat /\ backlog \in Seq(Events) /\ seen \subseteq Nat \X Letters \X (0..2)
    BY DEF LogTypes, ServerTypes, QueueTypes
  <2>2. \A e \in Events : Append(backlog, e) \in Seq(Events)
    BY <2>1, AppendFacts
  <2>3. Mark(m, v) \in Nat \X Letters \X (0..2)
    BY <2>1 DEF Mark
  <2>4. /\ control' \subseteq Chats /\ auth' \subseteq Chats
        /\ \/ backlog' = backlog /\ seen' = seen
           \/ /\ Queued(m, v) \in Events
              /\ backlog' = Append(backlog, Queued(m, v)) /\ seen' = seen \cup {Mark(m, v)}
    BY <1>3, SubmitWay
  <2>5. backlog' \in Seq(Events)
    BY <2>1, <2>2, <2>4
  <2>6. seen' \subseteq Nat \X Letters \X (0..2)
    BY <2>1, <2>3, <2>4
  <2> QED BY <2>4, <2>5, <2>6
<1>4. CASE UNCHANGED <<backlog, marks>>
  BY <1>1, <1>2, <1>4, TalksFrame DEF LogTypes, QueueTypes, marks
<1>5. CASE \E m \in Letters, v \in 0..2 : Submit(m, v)
  <2>1. QueueTypes'
    BY <1>3, <1>5, TalksFrame DEF LogTypes, QueueTypes
  <2> QED BY <1>1, <1>2, <2>1 DEF LogTypes
<1> QED BY <1>4, <1>5, TalksWay

\* What the worker does to the queue, its event and the posts.
LEMMA WorkerQueue ==
    ASSUME LogTypes, Works
    PROVE  \/ /\ UNCHANGED <<backlog, event, lastHeader>> /\ (step'[worker] = step[worker] \/ posted' = posted)
              /\ posted' = posted /\ blurred' = blurred
              /\ step'[worker] \in AtWork <=> step[worker] \in AtWork
           \/ /\ step[worker] = "idle" /\ backlog # <<>> /\ event' = Head(backlog) /\ backlog' = Tail(backlog)
              /\ step'[worker] = "cool" /\ UNCHANGED <<lastHeader, posted, blurred>>
           \/ /\ step[worker] \in AtWork /\ event' = NoEvent /\ step'[worker] = "idle"
              /\ UNCHANGED <<backlog, lastHeader, posted, blurred>>
           \/ /\ step[worker] = "header" /\ step'[worker] = "forward" /\ lastHeader' = HeaderKey
              /\ Post(event.target, Name(ChatOf[event.letter])) /\ UNCHANGED <<backlog, event, blurred>>
           \/ /\ step[worker] = "header" /\ step'[worker] = "idle" /\ event' = NoEvent /\ blurred' = TRUE
              /\ Post(event.target, Name(ChatOf[event.letter])) /\ UNCHANGED <<backlog, lastHeader>>
           \/ /\ step[worker] = "forward" /\ step'[worker] = "idle" /\ event' = NoEvent
              /\ Post(event.target, Content) /\ UNCHANGED <<backlog, lastHeader, blurred>>
<1>1. step \in [Procs -> AtWork \cup Syncs \cup {"idle"}] /\ worker \in Procs
  BY Distinct DEF LogTypes, ServerTypes
<1>2. CASE Take \/ DropInCooldown \/ CooldownEnds \/ HeaderAges \/ WorkerAsks
  BY <1>1, <1>2 DEF Take, DropInCooldown, CooldownEnds, HeaderAges, WorkerAsks, Moves, Stands, AtWork, Calling,
                    logHistory, delivery
<1>3. CASE WorkerLocked \/ Look \/ Header
  BY <1>1, <1>3 DEF WorkerLocked, Look, Header, Settled, Moves, Stands, AtWork, Calling, Onwards, settings, logHistory
<1>4. CASE Forward \/ CallFails \/ Flood
  BY <1>1, <1>4 DEF Forward, CallFails, Flood, Settled, Moves, Stands, AtCall, AtWork, Calling, logHistory
<1> QED BY <1>2, <1>3, <1>4 DEF Works, Deliver

LEMMA WorksTypes ==
    ASSUME LogTypes, Holding, Awake, Works
    PROVE  LogTypes'
<1>0. /\ lock \in Seq(Procs) /\ step \in [Procs -> AtWork \cup Syncs \cup {"idle"}] /\ worker \in Procs
      /\ backlog \in Seq(Events) /\ posted \in [Targets -> Seq(Heads \cup Texted)] /\ boots \in Nat
      /\ lastHeader \in Nat \X (Chats \cup {Absent}) /\ blurred \in BOOLEAN /\ version \in [Letters -> 0..2]
      /\ ChatOf \in [Letters -> Chats] /\ event \in Events \cup {NoEvent}
      /\ step[worker] \in AtWork => event \in Events
  BY Distinct, ChatLogAssumption DEF LogTypes, ServerTypes, QueueTypes, TalkTypes, Awake
<1>1. lock' \in Seq(Procs)
  BY <1>0, WorkerWay, LockFacts
<1>2. step' \in [Procs -> AtWork \cup Syncs \cup {"idle"}] /\ \A k \in Orders : step'[k] = step[k]
  BY <1>0, WorkerWay, Distinct
<1>3. faults' \in Nat
  BY DEF Works, Deliver, Take, DropInCooldown, CooldownEnds, HeaderAges, WorkerAsks, WorkerLocked, Look, Header, Forward,
         CallFails, Flood, Fault, LogTypes, ServerTypes
<1>4. attempt' \in Nat /\ cooling' \in BOOLEAN /\ stale' \in BOOLEAN
  <2>1. attempt \in Nat /\ cooling \in BOOLEAN /\ stale \in BOOLEAN
    BY DEF LogTypes, QueueTypes
  <2>2. attempt' = attempt \/ attempt' = 0 \/ attempt' = 1 \/ attempt' = attempt + 1
    BY DEF Works, Deliver, Take, DropInCooldown, CooldownEnds, HeaderAges, WorkerAsks, WorkerLocked, Look, Header,
           Forward, CallFails, Flood, Settled, delivery
  <2>3. (cooling' = cooling \/ cooling' = FALSE \/ cooling' = TRUE) /\ (stale' = stale \/ stale' = TRUE \/ stale' = FALSE)
    BY DEF Works, Deliver, Take, DropInCooldown, CooldownEnds, HeaderAges, WorkerAsks, WorkerLocked, Look, Header,
           Forward, CallFails, Flood, delivery
  <2>4. attempt' \in Nat
    BY <2>1, <2>2
  <2> QED BY <2>1, <2>3, <2>4
<1>5. ServerTypes'
  BY <1>1, <1>2, <1>3, WorksFrame DEF LogTypes, ServerTypes
<1>6. backlog' \in Seq(Events) /\ event' \in Events \cup {NoEvent}
  <2>1. backlog # <<>> => Head(backlog) \in Events /\ Tail(backlog) \in Seq(Events)
    BY <1>0, TailFacts
  <2> QED BY <1>0, <2>1, WorkerQueue
<1>7. lastHeader' \in Nat \X (Chats \cup {Absent})
  <2>1. step[worker] = "header" => HeaderKey \in Nat \X (Chats \cup {Absent})
    BY <1>0 DEF HeaderKey, Events, AtWork, Calling
  <2> QED BY <1>0, <2>1, WorkerQueue
<1>8. posted' \in [Targets -> Seq(Heads \cup Texted)] /\ blurred' \in BOOLEAN
  <2>1. ASSUME step[worker] \in Calling
        PROVE  event.target \in Targets /\ Name(ChatOf[event.letter]) \in Heads /\ Content \in Texted
    BY <1>0, <2>1 DEF Name, Content, Events, AtWork, Calling, Heads, Texted, Things, Thing
  <2>2. ASSUME NEW t \in Targets, NEW x \in Heads \cup Texted, Post(t, x)
        PROVE  posted' \in [Targets -> Seq(Heads \cup Texted)]
    <3>1. Append(posted[t], x) \in Seq(Heads \cup Texted)
      BY <1>0, AppendFacts
    <3> QED BY <1>0, <2>2, <3>1 DEF Post
  <2> QED BY <1>0, <2>1, <2>2, WorkerQueue DEF Calling
<1>9. QueueTypes'
  BY <1>4, <1>6, <1>7, WorksFrame DEF LogTypes, QueueTypes
<1>10. TalkTypes'
  BY <1>8, WorksFrame DEF LogTypes, TalkTypes
<1> QED BY <1>5, <1>9, <1>10 DEF LogTypes

LEMMA SettlesTypes ==
    ASSUME LogTypes, Settles
    PROVE  LogTypes'
<1>0. /\ lock \in Seq(Procs) /\ step \in [Procs -> AtWork \cup Syncs \cup {"idle"}] /\ worker \in Procs
      /\ policy \in Good /\ revision \in Nat /\ ordered \in [Orders -> Policies] /\ cloud \in Docs \cup {Absent}
      /\ pending \in BOOLEAN /\ restored \in BOOLEAN /\ spoiled \in BOOLEAN /\ overdue \in Docs \cup {Absent}
      /\ file = Absent \/ file \in [doc : Docs, pending : BOOLEAN]
      /\ bot \in {"down", "connect", "up"} /\ faults \in Nat /\ chosen \in Docs
      /\ \A k \in Orders : step[k] \in {"validate", "save"} => ordered[k] \in Good
  BY Distinct DEF LogTypes, ServerTypes
<1>1. QueueTypes' /\ TalkTypes'
  BY SettlesFrame DEF LogTypes, QueueTypes, TalkTypes
<1>2. faults' \in Nat /\ restored' \in BOOLEAN /\ named' = named /\ boots' = boots
  <2>1. /\ faults' = faults \/ (faults > 0 /\ faults' = faults - 1)
        /\ restored' = restored \/ restored' = TRUE
        /\ named' = named /\ boots' = boots
    BY DEF Settles, Order, Validate, Save, Sync, SyncLocked, Find, Push, SyncFails, LateWrite, Minute, Fault
  <2>2. faults' \in Nat
    BY <1>0, <2>1
  <2> QED BY <1>0, <2>1, <2>2
<1>3. CASE LateWrite
  <2>1. /\ cloud' \in Docs \cup {Absent} /\ overdue' \in Docs \cup {Absent} /\ spoiled' \in BOOLEAN
        /\ UNCHANGED <<bot, policy, revision, pending, restored, named, lock, file, step, ordered, boots, faults,
                       chosen>>
    BY <1>0, <1>3 DEF LateWrite
  <2> QED BY <1>1, <2>1 DEF LogTypes, ServerTypes
<1>4. ASSUME NEW p \in Syncing, \/ p \in Orders /\ (Order(p) \/ Validate(p) \/ Save(p))
                                \/ Sync(p) \/ SyncFails(p)
                                \/ p = minute /\ Minute
      PROVE  LogTypes'
  <2>1. p \in Procs /\ minute \in Procs /\ starter \in Procs /\ Orders \subseteq Procs
    BY Distinct
  <2>2. lock' \in Seq(Procs)
    <3>1. \/ lock' = lock \/ lock' = Append(lock, p)
          \/ Owns(p) /\ (lock' = Tail(lock) \/ lock' = Append(Tail(lock), p))
      BY <1>4, SyncWay
    <3>2. Append(lock, p) \in Seq(Procs) /\ (Owns(p) => Tail(lock) \in Seq(Procs) /\ Append(Tail(lock), p) \in Seq(Procs))
      BY <1>0, <2>1, LockFacts
    <3> QED BY <1>0, <3>1, <3>2
  <2>3. step' \in [Procs -> AtWork \cup Syncs \cup {"idle"}] /\ bot' \in {"down", "connect", "up"}
    BY <1>0, <1>4, <2>1, SyncWay DEF Syncs
  <2>4. ordered' \in [Orders -> Policies] /\ \A k \in Orders : step'[k] \in {"validate", "save"} => ordered'[k] \in Good
    <3>1. \A q \in Syncing \ {p} : step'[q] \in {"validate", "save"} => step'[q] = step[q]
      BY <1>4, SyncWay, OthersWay
    <3>2. CASE p \in Orders /\ Order(p)
      <4>1. OrderOf[p] \in {"off", "on", "remove", "reset"} \cup Targets /\ Targets \cap {"off", "on", "remove", "reset"} = {}
        BY <3>2, ChatLogAssumption
      <4>2. /\ policy \in Policies /\ policy.target \in Targets \cup {NoTarget} /\ ByEnv \in Good
            /\ NoTarget \notin Targets
        BY <1>0, DocumentFacts, ChatLogAssumption DEF Good, Policies
      <4>3. ASSUME NEW x \in Policies, ordered' = [ordered EXCEPT ![p] = x],
                   step'[p] \in {"validate", "save"} => x \in Good
            PROVE  ordered' \in [Orders -> Policies]
                   /\ \A k \in Orders : step'[k] \in {"validate", "save"} => ordered'[k] \in Good
        BY <1>0, <3>1, <3>2, <4>3, Distinct
      <4>4. \A t \in Targets \cup {NoTarget}, b \in BOOLEAN :
               LET x == [owner |-> TRUE, on |-> b, target |-> t] IN
               x \in Policies /\ (t # NoTarget \/ ~b => x \in Good)
        BY DEF Policies, Good, Sane
      <4>5. CASE OrderOf[p] = "off"
        <5> DEFINE x == [owner |-> TRUE, on |-> FALSE, target |-> policy.target]
        <5>1. ordered' = [ordered EXCEPT ![p] = x]
          BY <3>2, <4>1, <4>5 DEF Order
        <5>2. x \in Policies /\ x \in Good
          BY <4>2, <4>4
        <5> HIDE DEF x
        <5> QED BY <4>3, <5>1, <5>2
      <4>6. CASE OrderOf[p] = "remove"
        <5> DEFINE x == [owner |-> TRUE, on |-> FALSE, target |-> NoTarget]
        <5>1. ordered' = [ordered EXCEPT ![p] = x]
          BY <3>2, <4>1, <4>6 DEF Order
        <5>2. x \in Policies /\ x \in Good
          BY <4>4
        <5> HIDE DEF x
        <5> QED BY <4>3, <5>1, <5>2
      <4>7. CASE OrderOf[p] = "on"
        <5> DEFINE x == [owner |-> TRUE, on |-> TRUE, target |-> policy.target]
        <5>1. ordered' = [ordered EXCEPT ![p] = x]
          BY <3>2, <4>1, <4>7 DEF Order
        <5>2. step' = [step EXCEPT ![p] = IF policy.target = NoTarget THEN "done" ELSE "validate"]
          BY <3>2, <4>7 DEF Order, Moves
        <5>3. step'[p] = "done" \/ policy.target # NoTarget
          BY <1>0, <2>1, <5>2
        <5>4. x \in Policies /\ (policy.target # NoTarget => x \in Good)
          BY <4>2, <4>4
        <5> HIDE DEF x
        <5> QED BY <4>3, <5>1, <5>3, <5>4
      <4>8. CASE OrderOf[p] = "reset"
        <5>1. ordered' = [ordered EXCEPT ![p] = ByEnv]
          BY <3>2, <4>1, <4>8 DEF Order
        <5> QED BY <4>2, <4>3, <5>1 DEF Good
      <4>9. CASE OrderOf[p] \in Targets
        <5> DEFINE x == [owner |-> TRUE, on |-> TRUE, target |-> OrderOf[p]]
        <5>1. /\ OrderOf[p] # "off" /\ OrderOf[p] # "remove" /\ OrderOf[p] # "on" /\ OrderOf[p] # "reset"
              /\ OrderOf[p] # NoTarget
          BY <4>1, <4>2, <4>9
        <5>2. ordered' = [ordered EXCEPT ![p] = x]
          BY <3>2, <4>9, <5>1 DEF Order
        <5>3. x \in Policies /\ x \in Good
          BY <4>4, <4>9, <5>1
        <5> HIDE DEF x
        <5> QED BY <4>3, <5>2, <5>3
      <4> QED BY <4>1, <4>5, <4>6, <4>7, <4>8, <4>9
    <3>3. CASE ordered' = ordered /\ (p \in Orders /\ step'[p] \in {"validate", "save"} => step[p] \in {"validate", "save"})
      BY <1>0, <3>1, <3>3, Distinct
    <3>4. ASSUME ~(p \in Orders /\ Order(p))
          PROVE  ordered' = ordered /\ (p \in Orders /\ step'[p] \in {"validate", "save"} => step[p] \in {"validate", "save"})
      <4>1. CASE p \in Orders /\ (Validate(p) \/ Save(p))
        BY <1>0, <2>1, <4>1 DEF Validate, Save, Moves, Stands
      <4>2. CASE Sync(p) \/ SyncFails(p)
        BY <1>0, <2>1, <4>2, Distinct DEF Sync, SyncLocked, Find, Push, SyncFails, Leaves, Moves, Stands
      <4>3. CASE p = minute /\ Minute
        BY <4>3, Distinct DEF Minute
      <4> QED BY <1>4, <3>4, <4>1, <4>2, <4>3
    <3> QED BY <3>2, <3>3, <3>4
  <2>5. /\ policy' \in Good /\ revision' \in Nat /\ pending' \in BOOLEAN /\ spoiled' \in BOOLEAN /\ chosen' \in Docs
        /\ file' = Absent \/ file' \in [doc : Docs, pending : BOOLEAN]
        /\ cloud' \in Docs \cup {Absent} /\ overdue' \in Docs \cup {Absent}
    <3>1. /\ Document(policy) \in Docs /\ (cloud \in Docs => Decode(cloud) \in Good) /\ Absent \notin Docs
          /\ \A d \in Docs, b \in BOOLEAN : [doc |-> d, pending |-> b] \in [doc : Docs, pending : BOOLEAN]
      BY <1>0, DocumentFacts
    <3>2. CASE p \in Orders /\ Save(p)
      <4>1. ordered[p] \in Good
        BY <1>0, <3>2 DEF Save, Stands
      <4>2. Document(ordered[p]) \in Docs
        BY <4>1, DocumentFacts
      <4>3. file' \in [doc : Docs, pending : BOOLEAN]
        BY <3>1, <3>2, <4>2 DEF Save
      <4>4. revision' \in Nat
        BY <1>0, <3>2 DEF Save
      <4>5. pending' = TRUE /\ spoiled' = FALSE /\ policy' = ordered[p] /\ chosen' = Document(ordered[p])
            /\ cloud' = cloud /\ overdue' = overdue
        BY <3>2 DEF Save
      <4> QED BY <1>0, <4>1, <4>2, <4>3, <4>4, <4>5
    <3>3. CASE Find(p)
      <4>1. file' = Absent \/ file' \in [doc : Docs, pending : BOOLEAN]
        BY <1>0, <3>1, <3>3 DEF Find
      <4>2. revision' = revision \/ revision' = revision + 1
        BY <3>3 DEF Find
      <4>3. policy' \in Good
        BY <1>0, <3>1, <3>3 DEF Find
      <4>4. (pending' = pending \/ pending' = TRUE) /\ UNCHANGED <<spoiled, chosen, cloud, overdue>>
        BY <3>3 DEF Find, logHistory
      <4>5. revision' \in Nat
        BY <1>0, <4>2
      <4> QED BY <1>0, <4>1, <4>3, <4>4, <4>5
    <3>4. CASE Push(p)
      <4>1. file' \in [doc : Docs, pending : BOOLEAN]
        BY <3>1, <3>4 DEF Push
      <4>2. cloud' \in Docs /\ pending' = FALSE /\ UNCHANGED <<spoiled, chosen, overdue, policy, revision>>
        BY <3>1, <3>4 DEF Push, logHistory
      <4> QED BY <1>0, <4>1, <4>2
    <3>5. CASE SyncFails(p)
      <4>1. overdue' = overdue \/ overdue' = Document(policy)
        BY <3>5 DEF SyncFails
      <4>2. UNCHANGED <<policy, revision, pending, spoiled, chosen, file, cloud>>
        BY <3>5 DEF SyncFails, logHistory
      <4> QED BY <1>0, <3>1, <4>1, <4>2
    <3>6. CASE (p \in Orders /\ (Order(p) \/ Validate(p))) \/ SyncLocked(p) \/ Minute
      <4>1. UNCHANGED <<policy, revision, pending, spoiled, chosen, file, cloud, overdue>>
        BY <3>6 DEF Order, Validate, SyncLocked, Minute, logHistory
      <4> QED BY <1>0, <4>1
    <3> QED BY <1>4, <3>2, <3>3, <3>4, <3>5, <3>6 DEF Sync
  <2>6. boots' \in Nat /\ faults' \in Nat /\ restored' \in BOOLEAN /\ named' \in BOOLEAN
    BY <1>2 DEF LogTypes, ServerTypes
  <2>7. ServerTypes'
    BY <2>2, <2>3, <2>4, <2>5, <2>6 DEF ServerTypes
  <2> QED BY <1>1, <2>7 DEF LogTypes
<1> QED BY <1>3, <1>4, SettlesBy

LEMMA RestartsTypes ==
    ASSUME LogTypes, Restarts
    PROVE  LogTypes'
<1>0. /\ lock \in Seq(Procs) /\ step \in [Procs -> AtWork \cup Syncs \cup {"idle"}]
      /\ file = Absent \/ file \in [doc : Docs, pending : BOOLEAN]
      /\ \A k \in Orders : k \in Procs /\ (step[k] \in {"validate", "save"} => ordered[k] \in Good)
      /\ boots \in Nat /\ faults \in Nat /\ spoiled \in BOOLEAN
  BY Distinct DEF LogTypes, ServerTypes
<1>1. CASE Boot
  <2>1. policy' \in Good /\ pending' \in BOOLEAN /\ boots' \in Nat /\ bot' = "connect"
    BY <1>0, <1>1, DocumentFacts DEF Boot
  <2> QED BY <1>1, <2>1 DEF Boot, LogTypes, ServerTypes, QueueTypes, TalkTypes, delivery, marks, talk, logHistory
<1>2. CASE StartLog
  <2>1. lock' \in Seq(Procs) /\ step' = [step EXCEPT ![starter] = "wait"] /\ starter \in Procs /\ starter \notin Orders
    BY <1>0, <1>2, Distinct, LockFacts DEF StartLog, Moves
  <2>2. step' \in [Procs -> AtWork \cup Syncs \cup {"idle"}] /\ \A k \in Orders : step'[k] = step[k]
    BY <1>0, <2>1 DEF Syncs
  <2> QED BY <1>2, <2>1, <2>2 DEF StartLog, LogTypes, ServerTypes, QueueTypes, TalkTypes, delivery, marks, talk, logHistory
<1>3. CASE OtherServer
  <2>1. spoiled' \in BOOLEAN /\ faults' \in Nat /\ file' = Absent
    BY <1>0, <1>3 DEF OtherServer, Fault
  <2> QED BY <1>3, <2>1 DEF OtherServer, LogTypes, ServerTypes, QueueTypes, TalkTypes, delivery, marks, talk
<1>4. CASE Down
  <2>1. /\ step' \in [Procs -> AtWork \cup Syncs \cup {"idle"}] /\ \A k \in Orders : step'[k] \in {"new", "done"}
        /\ faults' \in Nat /\ lock' \in Seq(Procs)
    BY <1>0, <1>4 DEF Down, Fault, Syncs
  <2>2. ServerTypes'
    BY <1>4, <2>1 DEF Down, LogTypes, ServerTypes, logHistory
  <2>3. QueueTypes'
    <3>1. \A S : <<>> \in Seq(S)
      OBVIOUS
    <3>2. NoHeader \in Nat \X (Chats \cup {Absent})
      BY DEF NoHeader
    <3> QED BY <1>4, <3>1, <3>2 DEF Down, QueueTypes
  <2>4. TalkTypes'
    BY <1>4 DEF Down, LogTypes, TalkTypes, logHistory
  <2> QED BY <2>2, <2>3, <2>4 DEF LogTypes
<1> QED BY <1>1, <1>2, <1>3, <1>4 DEF Restarts

LEMMA LogTypesStep ==
    ASSUME LogTypes, Holding, Awake, [LogNext]_logVars
    PROVE  LogTypes'
<1>1. CASE UNCHANGED logVars
  BY <1>1, NothingFrame DEF LogTypes, ServerTypes, QueueTypes, TalkTypes
<1> QED BY <1>1, FourSorts, TalksTypes, WorksTypes, SettlesTypes, RestartsTypes
LEMMA AwakeStep ==
    ASSUME LogTypes, Holding, Awake, [LogNext]_logVars
    PROVE  Awake'
<1>0. /\ step \in [Procs -> AtWork \cup Syncs \cup {"idle"}] /\ lock \in Seq(Procs) /\ backlog \in Seq(Events)
      /\ bot \in {"down", "connect", "up"}
  BY DEF LogTypes, ServerTypes, QueueTypes
<1>1. CASE Talks
  <2>1. \A m \in Letters, v \in 0..2 : Submit(m, v) => backlog' = backlog \/ bot = "up"
    BY SubmitWay
  <2>2. backlog' = backlog \/ bot = "up"
    BY <1>1, <2>1, TalksWay
  <2> QED BY <1>1, <2>2, TalksFrame DEF Awake
<1>2. CASE UNCHANGED logVars
  BY <1>2, NothingFrame DEF Awake
<1>3. CASE Works
  <2>1. step[worker] = "done" => UNCHANGED <<step, lock, backlog, event, lastHeader>>
    BY <1>3 DEF Works, Deliver, Take, DropInCooldown, CooldownEnds, HeaderAges, WorkerAsks, WorkerLocked, Look, Header,
                Forward, CallFails, Flood, AtCall, Stands, settings, delivery
  <2>2. bot' = bot /\ (\A p \in Syncing : step'[p] = step[p]) /\ starter \in Syncing
    BY <1>3, WorksFrame, Distinct
  <2>3. IF step'[worker] \in AtWork THEN event' \in Events ELSE event' = NoEvent
    <3>1. backlog # <<>> => Head(backlog) \in Events
      BY <1>0, TailFacts
    <3>2. "idle" \notin AtWork /\ "cool" \in AtWork /\ "forward" \in AtWork /\ "header" \in AtWork
      BY DEF AtWork, Calling
    <3> QED BY <1>3, <3>1, <3>2, WorkerQueue DEF Awake
  <2>4. step'[worker] # "new"
    <3>1. \/ step' = step \/ \E x \in AtWork \cup {"idle"} : step' = [step EXCEPT ![worker] = x]
      BY <1>3, WorkerWay
    <3> QED BY <1>0, <3>1, Distinct DEF Awake, AtWork, Calling
  <2> QED BY <2>1, <2>2, <2>3, <2>4 DEF Awake
<1>4. CASE Settles
  <2>1. UNCHANGED <<backlog, event, lastHeader>>
    BY <1>4, SettlesFrame
  <2>2. CASE LateWrite
    BY <2>1, <2>2 DEF LateWrite, Awake
  <2>3. ASSUME NEW p \in Syncing, \/ p \in Orders /\ (Order(p) \/ Validate(p) \/ Save(p))
                                  \/ Sync(p) \/ SyncFails(p)
                                  \/ p = minute /\ Minute
        PROVE  Awake'
    <3>1. p \in Procs /\ starter \in Procs /\ worker \in Procs /\ worker # p /\ starter \notin Orders /\ starter # minute
          /\ worker # starter /\ worker # minute
      BY Distinct
    <3>2. bot # "down" /\ step[p] # "done"
      <4>1. CASE p \in Orders /\ Order(p)
        BY <4>1 DEF Order, Stands
      <4>2. step[p] \in {"validate", "save", "wait", "find", "push", "sleep"} => bot # "down"
        BY DEF Awake
      <4> QED BY <2>3, <4>1, <4>2 DEF Validate, Save, Sync, SyncLocked, Find, Push, SyncFails, Minute, Stands
    <3>3. CASE bot' = bot /\ \E x \in Syncs : step' = [step EXCEPT ![p] = x]
      <4>1. PICK x \in Syncs : step' = [step EXCEPT ![p] = x]
        BY <3>3
      <4>2. step'[worker] = step[worker] /\ (p # starter => step'[starter] = step[starter])
            /\ (p = starter => step'[starter] = x)
        BY <1>0, <3>1, <4>1
      <4>3. step'[starter] # "new"
        <5>1. p = starter => x # "new"
          <6>1. p = starter => step'[p] # "new"
            BY <1>0, <2>3, <3>1 DEF Sync, SyncLocked, Find, Push, SyncFails, Minute, Leaves, Moves, Awake
          <6> QED BY <4>2, <6>1
        <5> QED BY <4>2, <5>1 DEF Awake
      <4> QED BY <2>1, <3>2, <3>3, <4>2, <4>3 DEF Awake
    <3>4. CASE p = starter /\ bot' = "up"
               /\ step' = [step EXCEPT ![p] = "done", ![worker] = "idle", ![minute] = "sleep"]
      <4>1. step'[worker] = "idle" /\ step'[starter] = "done"
        BY <1>0, <3>1, <3>4
      <4>2. event = NoEvent
        BY <3>2, <3>4 DEF Awake, AtWork, Calling
      <4> QED BY <2>1, <3>4, <4>1, <4>2 DEF Awake, AtWork, Calling
    <3> QED BY <2>3, <3>3, <3>4, SyncWay
  <2> QED BY <1>4, <2>2, <2>3, SettlesBy
<1>5. CASE Restarts
  <2>1. CASE Boot
    BY <2>1 DEF Boot, Awake, delivery
  <2>2. CASE StartLog
    <3>1. step' = [step EXCEPT ![starter] = "wait"] /\ starter \in Procs /\ worker # starter /\ worker \in Procs
      BY <2>2, Distinct DEF StartLog, Moves
    <3>2. step'[worker] = step[worker] /\ step'[starter] = "wait"
      BY <1>0, <3>1
    <3> QED BY <2>2, <3>2 DEF StartLog, Awake, delivery
  <2>3. CASE OtherServer
    BY <2>3 DEF OtherServer, Awake, delivery
  <2>4. CASE Down
    <3>1. /\ \A q \in Procs : step'[q] \in {"new", "done"} /\ (step[q] # "new" => step'[q] = "done")
          /\ worker \in Procs /\ starter \in Procs /\ Syncing \subseteq Procs
      BY <1>0, <2>4, Distinct DEF Down
    <3>2. step'[worker] = "done" /\ step'[starter] = "done"
      BY <3>1 DEF Awake
    <3> QED BY <2>4, <3>1, <3>2 DEF Down, Awake, AtWork, Calling
  <2> QED BY <1>5, <2>1, <2>2, <2>3, <2>4 DEF Restarts
<1> QED BY <1>1, <1>2, <1>3, <1>4, <1>5, FourSorts

\* The worker gets to a call only with an event of the policy in force; while it is there,
\* nobody else has the lock, and the policy stays.
LEMMA InForceStep ==
    ASSUME LogTypes, Holding, Awake, InForce, [LogNext]_logVars
    PROVE  InForce'
<1>0. /\ step \in [Procs -> AtWork \cup Syncs \cup {"idle"}] /\ lock \in Seq(Procs) /\ worker \in Procs
      /\ \A p \in Syncing : p \in Procs /\ p # worker
  BY Distinct DEF LogTypes, ServerTypes
<1>1. CASE Talks \/ UNCHANGED logVars
  BY <1>1, TalksFrame, NothingFrame DEF InForce
<1>2. CASE Works
  <2>1. step'[worker] \in Calling => event' = event /\ (step[worker] \in Calling \/ Current)
    <3>1. CASE Take \/ DropInCooldown \/ CooldownEnds \/ HeaderAges \/ WorkerAsks
      BY <1>0, <3>1 DEF Take, DropInCooldown, CooldownEnds, HeaderAges, WorkerAsks, Moves, Stands, Calling, delivery
    <3>2. CASE WorkerLocked \/ Look \/ Header
      BY <1>0, <3>2 DEF WorkerLocked, Look, Header, Settled, Moves, Stands, Calling
    <3>3. CASE Forward \/ CallFails \/ Flood
      BY <1>0, <3>3 DEF Forward, CallFails, Flood, Settled, Moves, Stands, AtCall, Calling
    <3> QED BY <1>2, <3>1, <3>2, <3>3 DEF Works, Deliver
  <2> QED BY <1>2, <2>1, WorksFrame DEF InForce, Current
<1>3. CASE Settles
  <2>1. event' = event
    BY <1>3, SettlesFrame
  <2>2. CASE LateWrite
    BY <2>1, <2>2 DEF LateWrite, InForce
  <2>3. ASSUME NEW p \in Syncing, \/ p \in Orders /\ (Order(p) \/ Validate(p) \/ Save(p))
                                  \/ Sync(p) \/ SyncFails(p)
                                  \/ p = minute /\ Minute
        PROVE  InForce'
    <3>1. step'[worker] \in Calling => step[worker] \in Calling
      BY <2>3, SyncWay, OthersWay
    <3>2. UNCHANGED <<policy, revision>> \/ Owns(p)
      BY <2>3 DEF Order, Validate, Save, Sync, SyncLocked, Find, Push, SyncFails, Minute
    <3>3. step[worker] \in Calling => ~Owns(p)
      BY <1>0, LockFacts DEF Holding
    <3> QED BY <2>1, <3>1, <3>2, <3>3 DEF InForce
  <2> QED BY <1>3, <2>2, <2>3, SettlesBy
<1>4. CASE Restarts
  <2>1. CASE Boot
    BY <2>1 DEF Boot, Awake, InForce, Calling, delivery
  <2>2. CASE StartLog \/ OtherServer
    <3>1. step'[worker] = step[worker]
      BY <1>0, <2>2, Distinct DEF StartLog, OtherServer, Moves
    <3> QED BY <2>2, <3>1 DEF StartLog, OtherServer, InForce, delivery
  <2>3. CASE Down
    BY <1>0, <2>3 DEF Down, InForce, Calling
  <2> QED BY <1>4, <2>1, <2>2, <2>3 DEF Restarts
<1> QED BY <1>1, <1>2, <1>3, <1>4, FourSorts

\* What is posted is posted in force.
LEMMA PostsInForce ==
    ASSUME LogTypes, InForce, [LogNext]_logVars
    PROVE  \A t \in Targets : posted'[t] # posted[t] =>
               policy.on /\ policy.target = t /\ event.rev = revision
<1>1. posted \in [Targets -> Seq(Heads \cup Texted)]
  BY DEF LogTypes, TalkTypes
<1>2. CASE Works
  <2>1. posted' = posted \/ (step[worker] \in Calling /\ \E x : Post(event.target, x))
    BY <1>2, WorkerQueue DEF Calling
  <2>2. CASE step[worker] \in Calling /\ \E x : Post(event.target, x)
    BY <1>1, <2>2 DEF Post, InForce
  <2> QED BY <2>1, <2>2
<1>3. CASE ~Works
  BY <1>3, FourSorts, TalksFrame, SettlesFrame, RestartsFrame, NothingFrame
<1> QED BY <1>2, <1>3
\* A message without an album is not taken for an album, nor for another message.
LEMMA KeyFacts ==
    /\ \A m, n \in Letters : Thing(m) = Thing(n) =>
          /\ AlbumOf[m] = NoAlbum <=> AlbumOf[n] = NoAlbum
          /\ AlbumOf[m] = NoAlbum => m = n
          /\ AlbumOf[m] # NoAlbum => AlbumOf[m] = AlbumOf[n]
    /\ \A m, n \in Letters : \A r, s, v, w :
          KeyOf(r, m, v) = KeyOf(s, n, w) <=>
              r = s /\ Thing(m) = Thing(n) /\ (AlbumOf[m] = NoAlbum => v = w)
<1>1. \A m, n \in Letters : Thing(m) = Thing(n) =>
          /\ AlbumOf[m] = NoAlbum <=> AlbumOf[n] = NoAlbum
          /\ AlbumOf[m] = NoAlbum => m = n
          /\ AlbumOf[m] # NoAlbum => AlbumOf[m] = AlbumOf[n]
  BY ChatLogAssumption DEF Thing
<1>2. ASSUME NEW m \in Letters, NEW n \in Letters, NEW r, NEW s, NEW v, NEW w
      PROVE  KeyOf(r, m, v) = KeyOf(s, n, w) <=>
                 r = s /\ Thing(m) = Thing(n) /\ (AlbumOf[m] = NoAlbum => v = w)
  BY <1>1 DEF KeyOf
<1> QED BY <1>1, <1>2

\* What submit() queues has not been marked.
LEMMA FreshKey ==
    ASSUME LogTypes, Unrepeated, NEW m \in Letters, NEW v \in 0..2, Passes(m, v)
    PROVE  KeyOf(revision, m, v) \notin Marks
<1> SUFFICES ASSUME NEW s \in seen, KeyOf(s[1], s[2], s[3]) = KeyOf(revision, m, v)
             PROVE  FALSE
  BY DEF Marks
<1>1. s \in Nat \X Letters \X (0..2)
  BY DEF LogTypes, QueueTypes
<1>2. s[2] \in Letters /\ s = <<s[1], s[2], s[3]>>
  BY <1>1
<1>3. /\ s[1] = revision /\ Thing(s[2]) = Thing(m) /\ (AlbumOf[m] = NoAlbum => s[3] = v)
      /\ AlbumOf[m] = NoAlbum => s[2] = m
      /\ AlbumOf[m] # NoAlbum => AlbumOf[s[2]] = AlbumOf[m]
  BY <1>2, KeyFacts
<1>4. CASE AlbumOf[m] = NoAlbum
  BY <1>2, <1>3, <1>4 DEF Passes, Mark
<1>5. CASE AlbumOf[m] # NoAlbum
  BY <1>3, <1>5 DEF Passes, AlbumMark, Unrepeated
<1> QED BY <1>4, <1>5

\* What a step of the conversations queues, or that it queues nothing.
LEMMA TalksQueue ==
    ASSUME LogTypes, Unrepeated, Talks
    PROVE  \/ UNCHANGED <<backlog, seen, albums>>
           \/ \E e \in Events : /\ backlog' = Append(backlog, e) /\ EventKey(e) \notin Marks
                                /\ Marks' = Marks \cup {EventKey(e)}
                                /\ \A s \in seen' : AlbumOf[s[2]] # NoAlbum => <<s[1], AlbumOf[s[2]]>> \in albums'
<1>1. ASSUME NEW m \in Letters, NEW v \in 0..2, Submit(m, v), ~UNCHANGED <<backlog, seen, albums>>
      PROVE  \E e \in Events : /\ backlog' = Append(backlog, e) /\ EventKey(e) \notin Marks
                               /\ Marks' = Marks \cup {EventKey(e)}
                               /\ \A s \in seen' : AlbumOf[s[2]] # NoAlbum => <<s[1], AlbumOf[s[2]]>> \in albums'
  <2>1. /\ Passes(m, v) /\ Queued(m, v) \in Events
        /\ backlog' = Append(backlog, Queued(m, v)) /\ seen' = seen \cup {Mark(m, v)}
        /\ albums' = IF AlbumOf[m] = NoAlbum THEN albums ELSE albums \cup {AlbumMark(m)}
    BY <1>1, SubmitWay
  <2>2. EventKey(Queued(m, v)) = KeyOf(revision, m, v)
    BY DEF EventKey, Queued
  <2>3. KeyOf(revision, m, v) \notin Marks
    BY <2>1, FreshKey
  <2>4. Marks' = Marks \cup {KeyOf(revision, m, v)}
    <3>1. Mark(m, v)[1] = revision /\ Mark(m, v)[2] = m /\ Mark(m, v)[3] = v
      BY DEF Mark
    <3>2. \A x : x \in Marks' <=> \E s \in seen' : x = KeyOf(s[1], s[2], s[3])
      BY DEF Marks, KeyOf, Thing
    <3>3. \A x : x \in Marks <=> \E s \in seen : x = KeyOf(s[1], s[2], s[3])
      BY DEF Marks
    <3>4. ASSUME NEW x
          PROVE  x \in Marks' <=> x \in Marks \/ x = KeyOf(revision, m, v)
      BY <2>1, <3>1, <3>2, <3>3
    <3> QED BY <3>4
  <2>5. \A s \in seen' : AlbumOf[s[2]] # NoAlbum => <<s[1], AlbumOf[s[2]]>> \in albums'
    BY <2>1 DEF Unrepeated, Mark, AlbumMark
  <2> QED BY <2>1, <2>2, <2>3, <2>4, <2>5
<1> QED BY <1>1, TalksWay DEF marks

LEMMA UnrepeatedStep ==
    ASSUME LogTypes, Holding, Awake, Unrepeated, [LogNext]_logVars
    PROVE  Unrepeated'
<1>0. backlog \in Seq(Events)
  BY DEF LogTypes, QueueTypes
<1>1. CASE Talks
  <2>1. event' = event
    BY <1>1, TalksFrame
  <2>2. CASE UNCHANGED <<backlog, seen, albums>>
    BY <2>1, <2>2 DEF Unrepeated, Marks
  <2>3. ASSUME NEW e \in Events, backlog' = Append(backlog, e), EventKey(e) \notin Marks,
               Marks' = Marks \cup {EventKey(e)},
               \A s \in seen' : AlbumOf[s[2]] # NoAlbum => <<s[1], AlbumOf[s[2]]>> \in albums'
        PROVE  Unrepeated'
    <3>1. /\ DOMAIN backlog' = 1..(Len(backlog) + 1) /\ Len(backlog) \in Nat /\ DOMAIN backlog = 1..Len(backlog)
          /\ \A i \in 1..Len(backlog) : backlog'[i] = backlog[i]
          /\ backlog'[Len(backlog) + 1] = e
      BY <1>0, <2>3, AppendFacts
    <3>2. /\ \A i \in DOMAIN backlog : EventKey(backlog[i]) \in Marks
          /\ \A i, j \in DOMAIN backlog : EventKey(backlog[i]) = EventKey(backlog[j]) => i = j
          /\ event # NoEvent =>
                EventKey(event) \in Marks /\ \A i \in DOMAIN backlog : EventKey(backlog[i]) # EventKey(event)
      BY DEF Unrepeated
    <3>3. \A i \in DOMAIN backlog' : i \in DOMAIN backlog \/ i = Len(backlog) + 1
      BY <3>1
    <3>4. \A i \in DOMAIN backlog' : EventKey(backlog'[i]) \in Marks'
      BY <2>3, <3>1, <3>2, <3>3
    <3>5. \A i, j \in DOMAIN backlog' : EventKey(backlog'[i]) = EventKey(backlog'[j]) => i = j
      BY <2>3, <3>1, <3>2, <3>3
    <3>6. event' # NoEvent =>
              EventKey(event') \in Marks' /\ \A i \in DOMAIN backlog' : EventKey(backlog'[i]) # EventKey(event')
      BY <2>1, <2>3, <3>1, <3>2, <3>3
    <3> QED BY <2>3, <3>4, <3>5, <3>6 DEF Unrepeated, EventKey, KeyOf, Thing
  <2> QED BY <1>1, <2>2, <2>3, TalksQueue
<1>2. CASE Works
  <2>1. seen' = seen /\ albums' = albums /\ Marks' = Marks
    BY <1>2, WorksFrame DEF Marks
  <2>2. CASE UNCHANGED backlog /\ (event' = event \/ event' = NoEvent)
    BY <2>1, <2>2 DEF Unrepeated
  <2>3. CASE step[worker] = "idle" /\ backlog # <<>> /\ event' = Head(backlog) /\ backlog' = Tail(backlog)
    <3>1. /\ Head(backlog) = backlog[1] /\ 1 \in DOMAIN backlog /\ DOMAIN backlog' = 1..(Len(backlog) - 1)
          /\ Len(backlog) \in Nat /\ DOMAIN backlog = 1..Len(backlog)
          /\ \A i \in 1..(Len(backlog) - 1) : backlog'[i] = backlog[i + 1]
      BY <1>0, <2>3, TailFacts
    <3>2. \A i \in DOMAIN backlog' : i + 1 \in DOMAIN backlog /\ i + 1 # 1 /\ backlog'[i] = backlog[i + 1] /\ i \in Nat
      BY <3>1
    <3>3. \A i \in DOMAIN backlog' : EventKey(backlog'[i]) \in Marks /\ EventKey(backlog'[i]) # EventKey(event')
      BY <2>3, <3>1, <3>2 DEF Unrepeated
    <3>4. \A i, j \in DOMAIN backlog' : EventKey(backlog'[i]) = EventKey(backlog'[j]) => i = j
      <4>1. \A i, j \in DOMAIN backlog : EventKey(backlog[i]) = EventKey(backlog[j]) => i = j
        BY DEF Unrepeated
      <4>2. \A i, j \in DOMAIN backlog' : EventKey(backlog'[i]) = EventKey(backlog'[j]) => i + 1 = j + 1
        BY <3>2, <4>1
      <4> QED BY <3>2, <4>2
    <3>5. EventKey(event') \in Marks
      BY <2>3, <3>1 DEF Unrepeated
    <3> QED BY <2>1, <3>3, <3>4, <3>5 DEF Unrepeated, EventKey, KeyOf, Thing
  <2> QED BY <1>2, <2>2, <2>3, WorkerQueue
<1>3. CASE Settles \/ UNCHANGED logVars
  BY <1>3, SettlesFrame, NothingFrame DEF Unrepeated, Marks
<1>4. CASE Restarts
  <2>1. CASE UNCHANGED <<backlog, event, seen, albums>>
    BY <2>1 DEF Unrepeated, Marks
  <2>2. CASE Down
    BY <2>2 DEF Down, Unrepeated
  <2> QED BY <1>4, <2>1, <2>2, RestartsFrame
<1> QED BY <1>1, <1>2, <1>3, <1>4, FourSorts

\* What the owner's chats show: as before, and what is posted last.
LEMMA PostFacts ==
    ASSUME LogTypes, NEW t \in Targets, NEW x \in Heads \cup Texted, Post(t, x)
    PROVE  /\ \A s \in Targets : /\ DOMAIN posted[s] = 1..Len(posted[s]) /\ Len(posted[s]) \in Nat
                                 /\ \A i \in DOMAIN posted[s] : i \in DOMAIN posted'[s] /\ posted'[s][i] = posted[s][i]
                                 /\ s # t => posted'[s] = posted[s]
           /\ DOMAIN posted'[t] = 1..(Len(posted[t]) + 1) /\ Len(posted'[t]) = Len(posted[t]) + 1
           /\ posted'[t][Len(posted[t]) + 1] = x
           /\ \A s \in Targets : \A i \in DOMAIN posted'[s] :
                 \/ i \in DOMAIN posted[s] /\ posted'[s][i] = posted[s][i]
                 \/ s = t /\ i = Len(posted[t]) + 1 /\ posted'[s][i] = x
<1>1. posted \in [Targets -> Seq(Heads \cup Texted)]
  BY DEF LogTypes, TalkTypes
<1>2. posted' = [posted EXCEPT ![t] = Append(posted[t], x)]
  BY DEF Post
<1>3. posted'[t] = Append(posted[t], x) /\ \A s \in Targets \ {t} : posted'[s] = posted[s]
  BY <1>1, <1>2
<1>4. \A s \in Targets : DOMAIN posted[s] = 1..Len(posted[s]) /\ Len(posted[s]) \in Nat
  BY <1>1
<1>5. /\ Len(posted'[t]) = Len(posted[t]) + 1 /\ DOMAIN posted'[t] = 1..(Len(posted[t]) + 1)
      /\ \A i \in 1..Len(posted[t]) : posted'[t][i] = posted[t][i]
      /\ posted'[t][Len(posted[t]) + 1] = x
  BY <1>1, <1>3, AppendFacts
<1>6. \A i \in DOMAIN posted'[t] : i \in DOMAIN posted[t] \/ i = Len(posted[t]) + 1
  BY <1>4, <1>5
<1> QED BY <1>3, <1>4, <1>5, <1>6

\* The events and what is posted, by their kinds.
LEMMA Kinds ==
    ASSUME LogTypes
    PROVE  /\ NoEvent \notin Events
           /\ event # NoEvent => event \in Events
           /\ \A t \in Targets : \A i \in DOMAIN posted[t] : posted[t][i] \in Heads \cup Texted
           /\ \A x \in Heads : ~IsPost(x)
           /\ \A x \in Texted : /\ IsPost(x) /\ x.shows[1] \in Letters /\ x.shows[2] \in 0..2 /\ x.what[1] \in Nat
                                /\ x.user \in Chats
           /\ \A c \in Chats : Name(c) \in Heads /\ Name(c).user = c
           /\ event \in Events => /\ Content \in Texted /\ event.letter \in Letters /\ event.target \in Targets
                                  /\ ChatOf[event.letter] \in Chats /\ event.rev \in Nat
<1>1. NoTarget \notin Targets /\ ChatOf \in [Letters -> Chats]
  BY ChatLogAssumption
<1>2. /\ event \in Events \cup {NoEvent} /\ posted \in [Targets -> Seq(Heads \cup Texted)]
      /\ version \in [Letters -> 0..2] /\ boots \in Nat
  BY DEF LogTypes, ServerTypes, QueueTypes, TalkTypes
<1>3. NoEvent \notin Events
  BY <1>1 DEF NoEvent, Events
<1>4. \A t \in Targets : \A i \in DOMAIN posted[t] : posted[t][i] \in Heads \cup Texted
  BY <1>2
<1>5. \A x \in Heads : ~IsPost(x)
  BY DEF Heads, IsPost
<1>6. \A x \in Texted : /\ x.what \in Nat \X Nat \X Things \X (0..2) /\ x.shows \in Letters \X (0..2)
                        /\ x.user \in Chats
  BY DEF Texted
<1>7. \A q \in Nat \X Nat \X Things \X (0..2) : q # <<>> /\ q[1] \in Nat
  OBVIOUS
<1>8. \A q \in Letters \X (0..2) : q[1] \in Letters /\ q[2] \in 0..2
  OBVIOUS
<1>9. \A c \in Chats : Name(c) \in Heads /\ Name(c).user = c
  BY DEF Name, Heads
<1>10. event \in Events => /\ Content \in Texted /\ event.letter \in Letters /\ event.target \in Targets
                           /\ ChatOf[event.letter] \in Chats /\ event.rev \in Nat
  BY <1>1, <1>2 DEF Content, Events, Texted, Things, Thing
<1> QED BY <1>2, <1>3, <1>4, <1>5, <1>6, <1>7, <1>8, <1>9, <1>10 DEF IsPost
\* The settings neither start nor end the process; they may open it for logging.
LEMMA SettlesBot ==
    ASSUME LogTypes, Awake, Settles
    PROVE  bot' = bot \/ (bot = "connect" /\ bot' = "up" /\ step[worker] = "done" /\ event = NoEvent)
<1>1. CASE LateWrite
  BY <1>1 DEF LateWrite
<1>2. ASSUME NEW p \in Syncing, \/ p \in Orders /\ (Order(p) \/ Validate(p) \/ Save(p))
                                \/ Sync(p) \/ SyncFails(p)
                                \/ p = minute /\ Minute,
             bot' # bot
      PROVE  bot = "connect" /\ bot' = "up" /\ step[worker] = "done" /\ event = NoEvent
  <2>1. p = starter /\ bot' = "up"
    BY <1>2, SyncWay
  <2>2. step[p] # "done"
    BY <1>2, <2>1, Distinct DEF Sync, SyncLocked, Find, Push, SyncFails, Stands
  <2> QED BY <2>1, <2>2 DEF Awake, AtWork, Calling
<1> QED BY <1>1, <1>2, SettlesBy

LEMMA PostedOnceStep ==
    ASSUME LogTypes, Holding, Awake, Unrepeated, PostedOnce, [LogNext]_logVars
    PROVE  PostedOnce'
<1>0. /\ backlog \in Seq(Events) /\ boots \in Nat /\ posted \in [Targets -> Seq(Heads \cup Texted)]
      /\ step \in [Procs -> AtWork \cup Syncs \cup {"idle"}] /\ worker \in Procs
  BY Distinct DEF LogTypes, ServerTypes, QueueTypes, TalkTypes
<1>a. \A t \in Targets : \A i \in DOMAIN posted[t] : Accounted(posted[t][i])
  BY DEF PostedOnce
<1>b. posted' = posted => LoggedOnce'
  BY DEF PostedOnce, LoggedOnce, IsPost
<1>c. ASSUME posted' = posted,
             \A t \in Targets : \A i \in DOMAIN posted[t] : Accounted(posted[t][i])'
      PROVE  PostedOnce'
  BY <1>b, <1>c DEF PostedOnce, Accounted, IsPost, PostKey, EventKey, KeyOf, Thing, Marks
<1>d. ASSUME \A s \in Targets : \A i \in DOMAIN posted'[s] : \E y : y = posted'[s][i] /\ Accounted(y)',
             LoggedOnce'
      PROVE  PostedOnce'
  BY <1>d DEF PostedOnce, Accounted, IsPost, PostKey, EventKey, KeyOf, Thing, Marks
<1>1. CASE Talks
  <2>1. UNCHANGED <<event, posted, boots, bot>>
    BY <1>1, TalksFrame
  <2>2. CASE UNCHANGED <<backlog, seen, albums>>
    BY <1>a, <1>c, <2>1, <2>2 DEF Accounted, Marks, PostedOnce
  <2>3. ASSUME NEW e \in Events, backlog' = Append(backlog, e), EventKey(e) \notin Marks,
               Marks' = Marks \cup {EventKey(e)}
        PROVE  PostedOnce'
    <3>1. /\ DOMAIN backlog' = 1..(Len(backlog) + 1) /\ Len(backlog) \in Nat /\ DOMAIN backlog = 1..Len(backlog)
          /\ \A i \in 1..Len(backlog) : backlog'[i] = backlog[i]
          /\ backlog'[Len(backlog) + 1] = e
      BY <1>0, <2>3, AppendFacts
    <3>2. \A i \in DOMAIN backlog' : (i \in DOMAIN backlog /\ backlog'[i] = backlog[i]) \/ backlog'[i] = e
      BY <3>1
    <3>3. ASSUME NEW t \in Targets, NEW i \in DOMAIN posted[t]
          PROVE  Accounted(posted[t][i])'
      <4>1. Accounted(posted[t][i])
        BY <1>a
      <4> QED BY <2>1, <2>3, <3>2, <4>1 DEF Accounted
    <3> QED BY <1>c, <2>1, <3>3
  <2> QED BY <1>1, <2>2, <2>3, TalksQueue
<1>2. CASE Works
  <2>1. UNCHANGED <<seen, boots, bot>> /\ Marks' = Marks
    BY <1>2, WorksFrame DEF Marks
  <2>2. ASSUME \A j \in DOMAIN backlog' : \E k \in DOMAIN backlog : backlog'[j] = backlog[k],
               \/ event' = event \/ event' = NoEvent
               \/ \E k \in DOMAIN backlog : event' = backlog[k],
               NEW x, Accounted(x)
        PROVE  Accounted(x)'
    BY <2>1, <2>2 DEF Accounted
  <2>3. CASE backlog' = backlog /\ (event' = event \/ event' = NoEvent)
    <3>1. \A x : Accounted(x) => Accounted(x)'
      BY <2>2, <2>3
    <3>2. CASE posted' = posted
      BY <1>a, <1>c, <3>1, <3>2
    <3>3. ASSUME NEW t \in Targets, NEW x \in Heads, Post(t, x)
          PROVE  PostedOnce'
      <4>1. /\ \A s \in Targets : \A i \in DOMAIN posted'[s] :
                 \/ i \in DOMAIN posted[s] /\ posted'[s][i] = posted[s][i]
                 \/ s = t /\ i = Len(posted[t]) + 1 /\ posted'[s][i] = x
            /\ ~IsPost(x)
        BY <3>3, PostFacts, Kinds
      <4>2. ASSUME NEW s \in Targets, NEW i \in DOMAIN posted'[s]
            PROVE  \E y : y = posted'[s][i] /\ Accounted(y)'
        <5>1. PICK y : y = posted'[s][i]
          OBVIOUS
        <5>2. ~IsPost(x) => Accounted(x)'
          BY DEF Accounted
        <5>3. Accounted(y)'
          BY <1>a, <3>1, <4>1, <5>1, <5>2
        <5> QED BY <5>1, <5>3
      <4>3. LoggedOnce'
        <5>1. LoggedOnce
          BY DEF PostedOnce
        <5>2. ASSUME NEW s \in Targets, NEW u \in Targets, NEW i \in DOMAIN posted'[s], NEW j \in DOMAIN posted'[u],
                     IsPost(posted'[s][i]), posted'[s][i].what = posted'[u][j].what
              PROVE  s = u /\ i = j
          <6>1. i \in DOMAIN posted[s] /\ posted'[s][i] = posted[s][i]
            BY <4>1, <5>2
          <6>2. j \in DOMAIN posted[u] /\ posted'[u][j] = posted[u][j]
            BY <4>1, <5>2 DEF IsPost
          <6> QED BY <5>1, <5>2, <6>1, <6>2 DEF LoggedOnce
        <5> QED BY <5>2 DEF LoggedOnce, IsPost
      <4> QED BY <1>d, <4>2, <4>3
    <3>4. ASSUME step[worker] = "forward", Post(event.target, Content), event' = NoEvent
          PROVE  PostedOnce'
      <4>1. event \in Events /\ event # NoEvent /\ bot = "up"
        BY <3>4, Kinds DEF Awake, AtWork, Calling
      <4>2. PICK x \in Texted : /\ x = Content /\ IsPost(x) /\ x.shows[1] = event.letter
                                /\ x.what[1] = boots /\ x.what[2] = event.rev /\ x.what[3] = Thing(event.letter)
                                /\ x.what[4] = event.ver
        <5>1. Content \in Texted /\ IsPost(Content)
          BY <4>1, Kinds
        <5> QED BY <5>1 DEF Content, Thing
      <4>3. event.target \in Targets /\ event.letter \in Letters /\ PostKey(x) = EventKey(event)
        BY <4>1, <4>2, Kinds DEF PostKey, EventKey
      <4>4. /\ EventKey(event) \in Marks /\ \A j \in DOMAIN backlog : EventKey(backlog[j]) # EventKey(event)
        BY <4>1 DEF Unrepeated
      <4>5. Accounted(x)'
        <5>1. x.what[1] >= boots
          BY <1>0, <4>2
        <5> QED BY <2>1, <2>3, <3>4, <4>2, <4>3, <4>4, <5>1 DEF Accounted
      <4>6. /\ \A s \in Targets : \A i \in DOMAIN posted'[s] :
                 \/ i \in DOMAIN posted[s] /\ posted'[s][i] = posted[s][i]
                 \/ s = event.target /\ i = Len(posted[event.target]) + 1 /\ posted'[s][i] = x
        BY <3>4, <4>2, <4>3, PostFacts
      <4>7. ASSUME NEW s \in Targets, NEW i \in DOMAIN posted[s], IsPost(posted[s][i])
            PROVE  posted[s][i].what # x.what
        <5>1. PICK y \in Texted : y = posted[s][i] /\ IsPost(y) /\ Accounted(y) /\ y.shows[1] \in Letters
          BY <1>a, <4>7, Kinds
        <5>2. SUFFICES ASSUME y.what = x.what
                       PROVE  FALSE
          BY <5>1
        <5>3. y.what[1] = boots /\ y.what[2] = event.rev /\ y.what[3] = Thing(event.letter) /\ y.what[4] = event.ver
          BY <4>2, <5>2
        <5>4. y.what[3] = Thing(y.shows[1]) /\ EventKey(event) # PostKey(y)
          BY <4>1, <5>1, <5>3 DEF Accounted
        <5>5. PostKey(y) = KeyOf(event.rev, y.shows[1], event.ver)
          BY <5>3 DEF PostKey
        <5>6. KeyOf(event.rev, y.shows[1], event.ver) = KeyOf(event.rev, event.letter, event.ver)
          <6>1. Thing(y.shows[1]) = Thing(event.letter)
            BY <5>3, <5>4
          <6>2. AlbumOf[y.shows[1]] = NoAlbum <=> AlbumOf[event.letter] = NoAlbum
            BY <4>3, <5>1, <6>1, KeyFacts
          <6> QED BY <6>1, <6>2 DEF KeyOf
        <5> QED BY <5>4, <5>5, <5>6 DEF EventKey
      <4>8. ASSUME NEW s \in Targets, NEW i \in DOMAIN posted'[s]
            PROVE  \E y : y = posted'[s][i] /\ Accounted(y)'
        <5>1. PICK y : y = posted'[s][i]
          OBVIOUS
        <5>2. Accounted(y)'
          BY <1>a, <3>1, <4>5, <4>6, <5>1
        <5> QED BY <5>1, <5>2
      <4>9. LoggedOnce'
        <5>1. LoggedOnce
          BY DEF PostedOnce
        <5>2. ASSUME NEW s \in Targets, NEW u \in Targets, NEW i \in DOMAIN posted'[s], NEW j \in DOMAIN posted'[u],
                     IsPost(posted'[s][i]), posted'[s][i].what = posted'[u][j].what
              PROVE  s = u /\ i = j
          <6>1. CASE i \in DOMAIN posted[s] /\ posted'[s][i] = posted[s][i] /\ j \in DOMAIN posted[u] /\ posted'[u][j] = posted[u][j]
            BY <5>1, <5>2, <6>1 DEF LoggedOnce
          <6>2. CASE i \in DOMAIN posted[s] /\ posted'[s][i] = posted[s][i] /\ posted'[u][j] = x
            BY <4>7, <5>2, <6>2
          <6>3. CASE posted'[s][i] = x /\ j \in DOMAIN posted[u] /\ posted'[u][j] = posted[u][j]
            BY <4>7, <5>2, <6>3 DEF IsPost
          <6>4. CASE s = event.target /\ i = Len(posted[event.target]) + 1 /\ u = event.target /\ j = Len(posted[event.target]) + 1
            BY <6>4
          <6> QED BY <4>6, <6>1, <6>2, <6>3, <6>4
        <5> QED BY <5>2 DEF LoggedOnce, IsPost
      <4> QED BY <1>d, <4>8, <4>9
    <3>5. step[worker] = "header" => event.target \in Targets /\ Name(ChatOf[event.letter]) \in Heads
      BY Kinds DEF Awake, AtWork, Calling
    <3> QED BY <1>2, <2>3, <3>2, <3>3, <3>4, <3>5, WorkerQueue
  <2>4. CASE step[worker] = "idle" /\ backlog # <<>> /\ event' = Head(backlog) /\ backlog' = Tail(backlog) /\ posted' = posted
    <3>1. /\ Head(backlog) = backlog[1] /\ 1 \in DOMAIN backlog
          /\ \A j \in DOMAIN backlog' : \E k \in DOMAIN backlog : backlog'[j] = backlog[k]
      <4>1. /\ Head(backlog) = backlog[1] /\ DOMAIN backlog' = 1..(Len(backlog) - 1) /\ Len(backlog) \in Nat
            /\ DOMAIN backlog = 1..Len(backlog) /\ Len(backlog) >= 1
            /\ \A j \in 1..(Len(backlog) - 1) : backlog'[j] = backlog[j + 1]
        BY <1>0, <2>4, TailFacts
      <4>2. \A j \in DOMAIN backlog' : j + 1 \in DOMAIN backlog /\ backlog'[j] = backlog[j + 1]
        BY <4>1
      <4> QED BY <4>1, <4>2
    <3>2. \A x : Accounted(x) => Accounted(x)'
      BY <2>2, <2>4, <3>1
    <3> QED BY <1>a, <1>c, <2>4, <3>2
  <2> QED BY <1>2, <2>3, <2>4, WorkerQueue
<1>3. CASE Settles
  <2>1. UNCHANGED <<backlog, event, seen, albums, posted, boots>> /\ (bot = "down" => bot' = "down")
        /\ (bot' # "down" => bot # "down") /\ Marks' = Marks
    BY <1>3, SettlesFrame, SettlesBot DEF Marks
  <2>2. \A x : Accounted(x) => Accounted(x)'
    BY <2>1 DEF Accounted
  <2> QED BY <1>a, <1>c, <2>1, <2>2
<1>4. CASE UNCHANGED logVars
  <2>1. UNCHANGED <<bot, backlog, event, seen, albums, posted, boots>> /\ Marks' = Marks
    BY <1>4, NothingFrame DEF Marks
  <2>2. \A x : Accounted(x) => Accounted(x)'
    BY <2>1 DEF Accounted
  <2> QED BY <1>a, <1>c, <2>1, <2>2
<1>5. CASE Restarts
  <2>1. posted' = posted
    BY <1>5, RestartsFrame
  <2>2. CASE Boot
    <3>1. boots' \in Nat /\ boots > boots' /\ bot' # "down"
      BY <1>0, <2>2 DEF Boot
    <3>2. ASSUME NEW t \in Targets, NEW i \in DOMAIN posted[t]
          PROVE  Accounted(posted[t][i])'
      <4>1. Accounted(posted[t][i]) /\ (IsPost(posted[t][i]) => posted[t][i].what[1] \in Nat)
        BY <1>a, Kinds
      <4>2. IsPost(posted[t][i]) => posted[t][i].what[1] >= boots' /\ posted[t][i].what[1] # boots'
                                    /\ posted[t][i].what[3] = Thing(posted[t][i].shows[1])
        BY <1>0, <3>1, <4>1 DEF Accounted
      <4> QED BY <2>1, <4>2 DEF Accounted, IsPost
    <3> QED BY <1>c, <2>1, <3>2
  <2>3. CASE Down
    <3>1. bot' = "down" /\ boots' = boots
      BY <2>3 DEF Down
    <3>2. \A x : Accounted(x) => Accounted(x)'
      BY <3>1 DEF Accounted
    <3> QED BY <1>a, <1>c, <2>1, <3>2
  <2>4. CASE StartLog \/ OtherServer
    <3>1. UNCHANGED <<bot, backlog, event, seen, boots>> /\ Marks' = Marks
      BY <2>4 DEF StartLog, OtherServer, delivery, marks, Marks
    <3>2. \A x : Accounted(x) => Accounted(x)'
      BY <3>1 DEF Accounted
    <3> QED BY <1>a, <1>c, <2>1, <3>2
  <2> QED BY <1>5, <2>2, <2>3, <2>4 DEF Restarts
<1> QED BY <1>1, <1>2, <1>3, <1>4, <1>5, FourSorts
\* Among the places below n there is a last one.
LEMMA LastOf ==
    ASSUME NEW n \in Nat, NEW H \in SUBSET (1..n), H # {}
    PROVE  \E h \in H : \A g \in H : g <= h
<1> DEFINE D == {n - h : h \in H}
<1>1. D \subseteq Nat /\ D # {}
  <2>1. \A h \in H : h \in 1..n /\ n - h \in Nat
    OBVIOUS
  <2> QED BY <2>1
<1>2. PICK d \in D : \A e \in D : ~(<<e, d>> \in OpToRel(<, Nat))
  BY <1>1, NatLessThanWellFounded, WFMin
<1>3. PICK h \in H : d = n - h
  BY <1>2
<1>4. ASSUME NEW g \in H
      PROVE  g <= h
  <2>1. n - g \in D /\ n - g \in Nat /\ d \in Nat
    BY <1>1, <1>3
  <2>2. ~(n - g < d)
    <3>1. n - g < d => <<n - g, d>> \in OpToRel(<, Nat)
      BY <2>1 DEF OpToRel
    <3> QED BY <1>2, <2>1, <3>1
  <2> QED BY <1>3, <2>2
<1> QED BY <1>4

\* A message that is appended stands under the last header, and a header under itself.
LEMMA UnderFacts ==
    ASSUME NEW s \in Seq(Heads \cup Texted), NEW x \in Heads \cup Texted
    PROVE  /\ \A i \in 1..Len(s) : Under(Append(s, x), i) = Under(s, i)
           /\ IsPost(x) => Under(Append(s, x), Len(s) + 1) = Under(s, Len(s))
           /\ ~IsPost(x) => Under(Append(s, x), Len(s) + 1) = x.user
<1> DEFINE q == Append(s, x)
           H(i) == {h \in 1..i : ~IsPost(q[h])}
           F(i) == {h \in 1..i : ~IsPost(s[h])}
<1>1. Len(s) \in Nat /\ (\A i \in 1..Len(s) : q[i] = s[i]) /\ q[Len(s) + 1] = x
  BY AppendFacts
<1> HIDE DEF q
<1>2. \A i \in 0..Len(s) : H(i) = F(i)
  BY <1>1
<1>3. \A i \in Nat : F(i) # {} => (CHOOSE h \in F(i) : \A g \in F(i) : g <= h) \in F(i)
  BY LastOf
<1>4. ASSUME NEW i \in 0..Len(s)
      PROVE  Under(q, i) = Under(s, i)
  <2>1. H(i) = F(i) /\ i \in Nat
    BY <1>1, <1>2
  <2>2. F(i) # {} => (CHOOSE h \in F(i) : \A g \in F(i) : g <= h) \in 1..Len(s)
    BY <1>1, <1>3, <2>1
  <2> HIDE DEF H, F
  <2>3. Under(q, i) = IF H(i) = {} THEN Absent ELSE q[CHOOSE h \in H(i) : \A g \in H(i) : g <= h].user
    BY DEF Under, H
  <2>4. Under(s, i) = IF F(i) = {} THEN Absent ELSE s[CHOOSE h \in F(i) : \A g \in F(i) : g <= h].user
    BY DEF Under, F
  <2> QED BY <1>1, <2>1, <2>2, <2>3, <2>4
<1>5. ASSUME IsPost(x)
      PROVE  Under(q, Len(s) + 1) = Under(q, Len(s))
  <2>1. H(Len(s) + 1) = H(Len(s))
    <3>1. \A h \in 1..(Len(s) + 1) : ~IsPost(q[h]) => h \in 1..Len(s)
      BY <1>1, <1>5
    <3>2. \A h \in 1..Len(s) : h \in 1..(Len(s) + 1)
      BY <1>1
    <3> QED BY <3>1, <3>2
  <2>2. \A i : Under(q, i) = IF H(i) = {} THEN Absent ELSE q[CHOOSE h \in H(i) : \A g \in H(i) : g <= h].user
    BY DEF Under
  <2> HIDE DEF H
  <2> QED BY <2>1, <2>2
<1>6. ASSUME ~IsPost(x)
      PROVE  Under(q, Len(s) + 1) = x.user
  <2> DEFINE n == Len(s) + 1
  <2>1. n \in H(n) /\ \A g \in H(n) : g \in Nat /\ g <= n
    BY <1>1, <1>6
  <2>2. (CHOOSE h \in H(n) : \A g \in H(n) : g <= h) = n
    <3>1. \A h \in H(n) : (\A g \in H(n) : g <= h) => h = n
      BY <1>1, <2>1
    <3> HIDE DEF H, n
    <3>2. \E h \in H(n) : \A g \in H(n) : g <= h
      BY <2>1
    <3> QED BY <3>1, <3>2
  <2> QED BY <1>1, <2>1, <2>2 DEF Under
<1>7. Len(s) \in 0..Len(s) /\ 1..Len(s) \subseteq 0..Len(s)
  BY <1>1
<1> QED BY <1>4, <1>5, <1>6, <1>7 DEF q

LEMMA HeadedStep ==
    ASSUME LogTypes, Holding, Awake, InForce, Headed, [LogNext]_logVars
    PROVE  Headed'
<1>0. /\ posted \in [Targets -> Seq(Heads \cup Texted)] /\ lastHeader \in Nat \X (Chats \cup {Absent}) /\ revision \in Nat
      /\ step \in [Procs -> AtWork \cup Syncs \cup {"idle"}] /\ worker \in Procs /\ blurred \in BOOLEAN
      /\ \A p \in Syncing : p # worker
      /\ Absent \notin Chats
  BY Distinct, ChatLogAssumption DEF LogTypes, ServerTypes, QueueTypes, TalkTypes
<1>b. UNCHANGED <<posted, blurred>> => (UnderOwnName => UnderOwnName')
  BY DEF UnderOwnName
<1>a. ASSUME UNCHANGED <<lastHeader, revision, policy, event, posted, blurred>>,
             step'[worker] = "forward" => step[worker] = "forward"
      PROVE  Headed'
  BY <1>a, <1>b DEF Headed, HeaderKey
<1>1. CASE Talks \/ UNCHANGED logVars
  BY <1>1, <1>a, TalksFrame, NothingFrame
<1>2. CASE Works
  <2>1. UNCHANGED <<revision, policy>>
    BY <1>2, WorksFrame
  <2>2. step'[worker] = "forward" => /\ event' = event /\ (step[worker] = "forward" \/ lastHeader' = HeaderKey)
                                     /\ lastHeader' = lastHeader \/ lastHeader' = HeaderKey
    <3>1. CASE Take \/ DropInCooldown \/ CooldownEnds \/ HeaderAges \/ WorkerAsks
      BY <1>0, <3>1 DEF Take, DropInCooldown, CooldownEnds, HeaderAges, WorkerAsks, Moves, Stands, delivery
    <3>2. CASE WorkerLocked \/ Look \/ Header
      BY <1>0, <3>2 DEF WorkerLocked, Look, Header, Settled, Onwards, Moves, Stands
    <3>3. CASE Forward \/ CallFails \/ Flood
      BY <1>0, <3>3 DEF Forward, CallFails, Flood, Settled, Moves, Stands
    <3> QED BY <1>2, <3>1, <3>2, <3>3 DEF Works, Deliver
  <2>3. step'[worker] = "forward" => lastHeader' = HeaderKey'
    BY <2>2 DEF Headed, HeaderKey
  <2>4. CASE UNCHANGED <<posted, blurred, lastHeader>>
    BY <1>b, <2>1, <2>3, <2>4 DEF Headed
  <2>5. CASE blurred' = TRUE /\ lastHeader' = lastHeader
    BY <2>1, <2>3, <2>5 DEF Headed, UnderOwnName
  <2>6. ASSUME step[worker] \in Calling
        PROVE  /\ event \in Events /\ event # NoEvent /\ event.rev = revision /\ event.target = policy.target
               /\ event.target \in Targets /\ event.letter \in Letters /\ ChatOf[event.letter] \in Chats
               /\ Content \in Texted /\ IsPost(Content) /\ Content.user = ChatOf[event.letter]
               /\ Name(ChatOf[event.letter]) \in Heads /\ ~IsPost(Name(ChatOf[event.letter]))
               /\ Name(ChatOf[event.letter]).user = ChatOf[event.letter]
    <3>1. event \in Events /\ event.rev = revision /\ event.target = policy.target
      BY <2>6 DEF Awake, InForce, AtWork
    <3>2. Content.user = ChatOf[event.letter]
      BY DEF Content
    <3> QED BY <3>1, <3>2, Kinds
  <2>7. ASSUME NEW t \in Targets, NEW x \in Heads \cup Texted, Post(t, x), blurred' = blurred,
               ~blurred /\ IsPost(x) => Under(posted[t], Len(posted[t])) = x.user
        PROVE  UnderOwnName'
    <3> SUFFICES ASSUME ~blurred, NEW s \in Targets, NEW i \in DOMAIN posted'[s], IsPost(posted'[s][i])
                 PROVE  Under(posted'[s], i) = posted'[s][i].user
      BY <2>7 DEF UnderOwnName
    <3>1. posted' = [posted EXCEPT ![t] = Append(posted[t], x)] /\ posted[t] \in Seq(Heads \cup Texted)
      BY <1>0, <2>7 DEF Post
    <3>2. \A j \in DOMAIN posted[s] : IsPost(posted[s][j]) => Under(posted[s], j) = posted[s][j].user
      BY DEF Headed, UnderOwnName
    <3>3. CASE s # t
      BY <1>0, <3>1, <3>2, <3>3
    <3>4. CASE s = t /\ i \in DOMAIN posted[t] /\ posted'[s][i] = posted[t][i]
      <4>1. posted'[t] = Append(posted[t], x) /\ DOMAIN posted[t] = 1..Len(posted[t])
        BY <1>0, <3>1
      <4> QED BY <3>1, <3>2, <3>4, <4>1, UnderFacts
    <3>5. CASE s = t /\ i = Len(posted[t]) + 1 /\ posted'[s][i] = x
      <4>1. posted'[t] = Append(posted[t], x)
        BY <1>0, <3>1
      <4> QED BY <2>7, <3>1, <3>5, <4>1, UnderFacts
    <3> QED BY <2>7, <3>3, <3>4, <3>5, PostFacts
  <2>8. CASE step[worker] = "header" /\ lastHeader' = HeaderKey /\ Post(event.target, Name(ChatOf[event.letter])) /\ blurred' = blurred
    <3>1. event.target \in Targets /\ event.target = policy.target /\ HeaderKey[1] = revision
          /\ HeaderKey[2] = ChatOf[event.letter]
      BY <2>6, <2>8 DEF HeaderKey, Calling
    <3>2. UnderOwnName'
      BY <2>6, <2>7, <2>8 DEF Calling
    <3>3. Under(posted'[event.target], Len(posted'[event.target])) = ChatOf[event.letter]
      <4>1. PICK x \in Heads : x = Name(ChatOf[event.letter]) /\ ~IsPost(x) /\ x.user = ChatOf[event.letter]
        BY <2>6, <2>8 DEF Calling
      <4>2. /\ posted'[event.target] = Append(posted[event.target], x) /\ posted[event.target] \in Seq(Heads \cup Texted)
            /\ Len(posted'[event.target]) = Len(posted[event.target]) + 1
        BY <1>0, <2>8, <3>1, <4>1, PostFacts DEF Post
      <4> QED BY <4>1, <4>2, UnderFacts
    <3> QED BY <1>0, <2>1, <2>3, <2>8, <3>1, <3>2, <3>3 DEF Headed
  <2>9. CASE step[worker] = "forward" /\ Post(event.target, Content) /\ UNCHANGED <<blurred, lastHeader>>
    <3>1. PICK x \in Texted : x = Content /\ IsPost(x) /\ x.user = ChatOf[event.letter]
      BY <2>6, <2>9 DEF Calling
    <3>2. event.target \in Targets /\ event.target = policy.target /\ lastHeader = <<revision, x.user>>
          /\ lastHeader # NoHeader /\ lastHeader[1] = revision /\ lastHeader[2] = x.user
      BY <1>0, <2>6, <2>9, <3>1 DEF Headed, HeaderKey, Calling, NoHeader
    <3>3. ~blurred => Under(posted[event.target], Len(posted[event.target])) = x.user
      BY <3>2 DEF Headed
    <3>4. UnderOwnName'
      BY <2>7, <2>9, <3>1, <3>2, <3>3
    <3>5. ~blurred => Under(posted'[event.target], Len(posted'[event.target])) = x.user
      <4>1. /\ posted'[event.target] = Append(posted[event.target], x) /\ posted[event.target] \in Seq(Heads \cup Texted)
            /\ Len(posted'[event.target]) = Len(posted[event.target]) + 1
        BY <1>0, <2>9, <3>1, <3>2, PostFacts DEF Post
      <4> QED BY <3>1, <3>3, <4>1, UnderFacts
    <3> QED BY <1>0, <2>1, <2>3, <2>9, <3>2, <3>4, <3>5 DEF Headed
  <2> QED BY <1>2, <2>4, <2>5, <2>8, <2>9, WorkerQueue
<1>3. CASE Settles
  <2>1. UNCHANGED <<lastHeader, event, posted, blurred>>
    BY <1>3, SettlesFrame
  <2>2. step'[worker] = "forward" => step[worker] = "forward"
    <3>1. CASE LateWrite
      BY <3>1 DEF LateWrite
    <3>2. ASSUME NEW p \in Syncing, \/ p \in Orders /\ (Order(p) \/ Validate(p) \/ Save(p))
                                    \/ Sync(p) \/ SyncFails(p)
                                    \/ p = minute /\ Minute
          PROVE  step'[worker] = "forward" => step[worker] = "forward"
      BY <3>2, SyncWay, OthersWay DEF Calling
    <3> QED BY <1>3, <3>1, <3>2, SettlesBy
  <2>3. UNCHANGED <<policy, revision>> \/ revision' = revision + 1
    BY <1>3 DEF Settles, Order, Validate, Save, Sync, SyncLocked, Find, Push, SyncFails, LateWrite, Minute
  <2>4. CASE revision' = revision + 1
    <3>1. lastHeader[1] <= revision /\ lastHeader[1] \in Nat
      BY <1>0 DEF Headed
    <3>2. lastHeader'[1] <= revision' /\ lastHeader'[1] # revision'
      BY <1>0, <2>1, <2>4, <3>1
    <3> QED BY <1>b, <2>1, <2>2, <3>2 DEF Headed, HeaderKey
  <2> QED BY <1>a, <2>1, <2>2, <2>3, <2>4
<1>4. CASE Restarts
  <2>1. UNCHANGED <<posted, blurred>>
    BY <1>4, RestartsFrame
  <2>2. CASE Boot
    <3>1. lastHeader' = NoHeader /\ step'[worker] = "done" /\ revision' \in Nat
      BY <1>0, <2>2 DEF Boot, Awake, delivery
    <3>2. NoHeader[1] = 0 /\ (revision' \in Nat => 0 <= revision')
      BY DEF NoHeader
    <3> QED BY <1>b, <2>1, <3>1, <3>2 DEF Headed
  <2>3. CASE StartLog \/ OtherServer
    <3>1. step'[worker] = step[worker]
      BY <1>0, <2>3, Distinct DEF StartLog, OtherServer, Moves
    <3> QED BY <1>a, <2>1, <2>3, <3>1 DEF StartLog, OtherServer, delivery
  <2>4. CASE Down
    <3>1. lastHeader' = NoHeader /\ step'[worker] \in {"new", "done"} /\ revision' = 0
      BY <1>0, <2>4 DEF Down
    <3>2. NoHeader[1] = 0
      BY DEF NoHeader
    <3> QED BY <1>b, <2>1, <3>1, <3>2 DEF Headed
  <2> QED BY <1>4, <2>2, <2>3, <2>4 DEF Restarts
<1> QED BY <1>1, <1>2, <1>3, <1>4, FourSorts
\* What the conversations do to what is kept out: what they queue is written and not
\* private, what becomes private was not written before.
LEMMA TalksDiscreetly ==
    ASSUME LogTypes, Discreet, Talks
    PROVE  /\ \A c \in Chats : asking'[c] = "sure" => c \in auth'
           /\ \A x \in private' : x[1] \notin unwritten' /\ KindOf[x[1]] \in {"text", "photo"}
           /\ \A m \in echoes' : KindOf[m] \in FromBot /\ m \notin unwritten'
           /\ \A m \in Letters, v \in 0..2 :
                 m \notin unwritten /\ <<m, v>> \notin private => m \notin unwritten' /\ <<m, v>> \notin private'
           /\ \/ backlog' = backlog
              \/ \E e \in Events : /\ backlog' = Append(backlog, e)
                                   /\ e.letter \notin unwritten' /\ <<e.letter, e.ver>> \notin private'
           /\ slipped \subseteq slipped'
           /\ \A m \in Letters : version'[m] # version[m] /\ event.letter = m /\ step[worker] \in {"header", "forward"} =>
                 m \in slipped'
<1>0. /\ unwritten \subseteq Letters /\ version \in [Letters -> 0..2] /\ asking \in [Chats -> {"no", "sure", "unsure"}]
      /\ private \subseteq Letters \X {0} /\ ChatOf \in [Letters -> Chats] /\ KindOf \in [Letters -> FromUser \cup FromBot]
  BY ChatLogAssumption DEF LogTypes, TalkTypes
<1>a. /\ \A c \in Chats : asking[c] = "sure" => c \in auth
      /\ \A x \in private : x[1] \notin unwritten /\ KindOf[x[1]] \in {"text", "photo"}
      /\ \A m \in echoes : KindOf[m] \in FromBot /\ m \notin unwritten
  BY DEF Discreet
<1>b. ASSUME NEW m \in Letters, NEW v \in 0..2, Submit(m, v)
      PROVE  \/ backlog' = backlog
             \/ \E e \in Events : /\ backlog' = Append(backlog, e) /\ Passes(m, v) /\ Logs
                                  /\ e.letter = m /\ e.ver = v
  <2>1. CASE backlog' = Append(backlog, Queued(m, v)) /\ Queued(m, v) \in Events /\ Passes(m, v) /\ bot = "up" /\ policy.on
    BY <2>1 DEF Queued, Logs
  <2> QED BY <1>b, <2>1, SubmitWay
<1>1. ASSUME NEW m \in Letters, Write(m)
      PROVE  /\ \A c \in Chats : asking'[c] = "sure" => c \in auth'
             /\ \A x \in private' : x[1] \notin unwritten' /\ KindOf[x[1]] \in {"text", "photo"}
             /\ \A n \in echoes' : KindOf[n] \in FromBot /\ n \notin unwritten'
             /\ \A n \in Letters, v \in 0..2 :
                   n \notin unwritten /\ <<n, v>> \notin private => n \notin unwritten' /\ <<n, v>> \notin private'
             /\ \/ backlog' = backlog
                \/ \E e \in Events : /\ backlog' = Append(backlog, e)
                                     /\ e.letter \notin unwritten' /\ <<e.letter, e.ver>> \notin private'
             /\ UNCHANGED <<slipped, version>>
  <2>1. /\ m \in unwritten /\ unwritten' = unwritten \ {m} /\ Submit(m, 0) /\ UNCHANGED <<slipped, version>>
        /\ private' = IF asking[ChatOf[m]] = "sure" /\ KindOf[m] \in {"text", "photo"}
                      THEN private \cup {<<m, 0>>} ELSE private
        /\ echoes' = IF KindOf[m] \in FromBot THEN echoes \cup {m} ELSE echoes
    BY <1>1 DEF Write
  <2>2. ChatOf[m] \in Chats
    BY <1>0
  <2>3. ASSUME NEW c \in Chats, asking'[c] = "sure"
        PROVE  c \in auth'
    <3>1. asking' = [asking EXCEPT ![ChatOf[m]] = IF KindOf[m] = "login" THEN (IF Logs THEN "sure" ELSE "unsure")
                                       ELSE IF KindOf[m] = "link" /\ @ = "sure" THEN "unsure" ELSE @]
      BY <1>1 DEF Write
    <3>2. (~Logs => auth' = auth) /\ (Logs => auth' = AuthAfter(m))
      BY <2>1 DEF Submit, marks
    <3>3. CASE c # ChatOf[m]
      <4>1. asking[c] = "sure"
        BY <1>0, <2>2, <2>3, <3>1, <3>3
      <4> QED BY <1>a, <3>2, <3>3, <4>1 DEF AuthAfter
    <3>4. CASE c = ChatOf[m]
      <4>1. asking'[c] = IF KindOf[m] = "login" THEN (IF Logs THEN "sure" ELSE "unsure")
                         ELSE IF KindOf[m] = "link" /\ asking[c] = "sure" THEN "unsure" ELSE asking[c]
        BY <1>0, <3>1, <3>4
      <4>2. \/ KindOf[m] = "login" /\ Logs
            \/ KindOf[m] # "login" /\ KindOf[m] # "link" /\ asking[c] = "sure"
        BY <2>3, <4>1
      <4> QED BY <1>a, <3>2, <3>4, <4>2 DEF AuthAfter
    <3> QED BY <3>3, <3>4
  <2>4. \A x \in private' : x[1] \notin unwritten' /\ KindOf[x[1]] \in {"text", "photo"}
    BY <1>a, <2>1
  <2>5. \A n \in echoes' : KindOf[n] \in FromBot /\ n \notin unwritten'
    BY <1>a, <2>1
  <2>6. \A n \in Letters, v \in 0..2 :
            n \notin unwritten /\ <<n, v>> \notin private => n \notin unwritten' /\ <<n, v>> \notin private'
    BY <2>1
  <2>7. <<m, 0>> \notin private
    BY <1>a, <2>1
  <2>8. Passes(m, 0) => <<m, 0>> \notin private'
    <3>1. KindOf[m] \in {"text", "photo"} /\ asking[ChatOf[m]] = "sure" => ~Passes(m, 0)
      BY <1>a, <2>2 DEF Passes, AuthAfter
    <3> QED BY <2>1, <2>7, <3>1
  <2>9. \/ backlog' = backlog
        \/ \E e \in Events : /\ backlog' = Append(backlog, e)
                             /\ e.letter \notin unwritten' /\ <<e.letter, e.ver>> \notin private'
    <3>1. \/ backlog' = backlog
          \/ \E e \in Events : backlog' = Append(backlog, e) /\ Passes(m, 0) /\ e.letter = m /\ e.ver = 0
      BY <1>b, <2>1
    <3>2. m \notin unwritten'
      BY <2>1
    <3> QED BY <2>8, <3>1, <3>2
  <2> QED BY <2>1, <2>3, <2>4, <2>5, <2>6, <2>9
<1>2. ASSUME NEW m \in Letters, NEW v \in 0..2, Submit(m, v), KindOf[m] \in FromBot, m \notin unwritten,
             UNCHANGED <<unwritten, private, asking>>, echoes' \subseteq echoes
      PROVE  /\ \A c \in Chats : asking'[c] = "sure" => c \in auth'
             /\ \A x \in private' : x[1] \notin unwritten' /\ KindOf[x[1]] \in {"text", "photo"}
             /\ \A n \in echoes' : KindOf[n] \in FromBot /\ n \notin unwritten'
             /\ \A n \in Letters, w \in 0..2 :
                   n \notin unwritten /\ <<n, w>> \notin private => n \notin unwritten' /\ <<n, w>> \notin private'
             /\ \/ backlog' = backlog
                \/ \E e \in Events : /\ backlog' = Append(backlog, e)
                                     /\ e.letter \notin unwritten' /\ <<e.letter, e.ver>> \notin private'
  <2>1. auth' = auth
    BY <1>2 DEF Submit, AuthAfter, FromBot, marks
  <2>2. <<m, v>> \notin private
    BY <1>a, <1>2 DEF FromBot
  <2>3. \/ backlog' = backlog
        \/ \E e \in Events : backlog' = Append(backlog, e) /\ e.letter = m /\ e.ver = v
    BY <1>b, <1>2
  <2> QED BY <1>a, <1>2, <2>1, <2>2, <2>3
<1>3. CASE \E m \in Letters : Write(m)
  BY <1>1, <1>3
<1>4. CASE \E m \in Letters : Echo(m)
  <2>1. PICK m \in Letters : Echo(m)
    BY <1>4
  <2>2. /\ Submit(m, version[m]) /\ version[m] \in 0..2 /\ KindOf[m] \in FromBot /\ m \notin unwritten
        /\ UNCHANGED <<unwritten, private, asking, slipped, version>> /\ echoes' \subseteq echoes
    BY <1>0, <1>a, <2>1 DEF Echo, logHistory
  <2> QED BY <1>2, <2>2
<1>5. CASE \E m \in Letters : Edit(m)
  <2>1. PICK m \in Letters : Edit(m)
    BY <1>5
  <2>2. /\ Submit(m, version[m] + 1) /\ version[m] + 1 \in 0..2 /\ KindOf[m] \in FromBot /\ m \notin unwritten
        /\ UNCHANGED <<unwritten, private, asking, echoes>> /\ slipped \subseteq slipped'
    BY <1>0, <2>1 DEF Edit, FromBot
  <2>3. \A n \in Letters : version'[n] # version[n] /\ event.letter = n /\ step[worker] \in {"header", "forward"} =>
            n \in slipped'
    <3>1. \A n \in Letters : version'[n] # version[n] => n = m
      BY <1>0, <2>1 DEF Edit
    <3> QED BY <2>1, <3>1 DEF Edit
  <2> QED BY <1>2, <2>2, <2>3
<1>6. CASE \E c \in Chats : LoginEnds(c)
  <2>1. UNCHANGED <<backlog, auth, unwritten, version, echoes, private, slipped>>
    BY <1>6 DEF LoginEnds, delivery, marks, logHistory
  <2>2. \A c \in Chats : asking'[c] = "sure" => asking[c] = "sure"
    BY <1>0, <1>6 DEF LoginEnds
  <2> QED BY <1>a, <2>1, <2>2
<1> QED BY <1>3, <1>4, <1>5, <1>6 DEF Talks

LEMMA DiscreetStep ==
    ASSUME LogTypes, Holding, Awake, Discreet, [LogNext]_logVars
    PROVE  Discreet'
<1>0. /\ posted \in [Targets -> Seq(Heads \cup Texted)] /\ backlog \in Seq(Events)
      /\ step \in [Procs -> AtWork \cup Syncs \cup {"idle"}] /\ worker \in Procs
      /\ \A p \in Syncing : p # worker
  BY Distinct DEF LogTypes, ServerTypes, QueueTypes, TalkTypes
<1> DEFINE Clean(m, v) == m \notin unwritten /\ <<m, v>> \notin private
           Known == /\ \A c \in Chats : asking[c] = "sure" => c \in auth
                    /\ \A x \in private : x[1] \notin unwritten /\ KindOf[x[1]] \in {"text", "photo"}
                    /\ \A m \in echoes : KindOf[m] \in FromBot /\ m \notin unwritten
           Queues == \A i \in DOMAIN backlog : Clean(backlog[i].letter, backlog[i].ver)
           AtHand == event # NoEvent => Clean(event.letter, event.ver)
           Shown == \A t \in Targets : \A i \in DOMAIN posted[t] : IsPost(posted[t][i]) => posted[t][i].shows[1] \notin unwritten
           Seen == step[worker] \in {"header", "forward"} /\ Progress(event.letter, version[event.letter]) =>
                       event.letter \in slipped
<1>a. Known /\ Queues /\ AtHand /\ Shown /\ Seen /\ KeptOut
  BY DEF Discreet
<1>b. Known' /\ Queues' /\ AtHand' /\ Shown' /\ Seen' /\ KeptOut' => Discreet'
  BY DEF Discreet
<1>1. CASE Talks
  <2>1. UNCHANGED <<event, posted, step>>
    BY <1>1, TalksFrame
  <2>2. Known'
    BY <1>1, TalksDiscreetly
  <2>3. \A m \in Letters, v \in 0..2 : Clean(m, v) => Clean(m, v)'
    BY <1>1, TalksDiscreetly
  <2>4. Queues'
    <3>1. \A e \in Events : e.letter \in Letters /\ e.ver \in 0..2
      BY DEF Events
    <3>2. \A i \in DOMAIN backlog : /\ backlog[i].letter \notin unwritten'
                                      /\ <<backlog[i].letter, backlog[i].ver>> \notin private'
      <4>1. \A i \in DOMAIN backlog : backlog[i] \in Events
        BY <1>0
      <4> QED BY <1>a, <2>3, <3>1, <4>1
    <3>3. CASE backlog' = backlog
      BY <3>2, <3>3
    <3>4. ASSUME NEW e \in Events, backlog' = Append(backlog, e), Clean(e.letter, e.ver)'
          PROVE  Queues'
      <4>1. \A i \in DOMAIN backlog' : (i \in DOMAIN backlog /\ backlog'[i] = backlog[i]) \/ backlog'[i] = e
        <5>1. /\ DOMAIN backlog' = 1..(Len(backlog) + 1) /\ Len(backlog) \in Nat /\ DOMAIN backlog = 1..Len(backlog)
              /\ \A i \in 1..Len(backlog) : backlog'[i] = backlog[i]
              /\ backlog'[Len(backlog) + 1] = e
          BY <1>0, <3>4, AppendFacts
        <5> QED BY <5>1
      <4> QED BY <3>2, <3>4, <4>1
    <3> QED BY <1>1, <3>3, <3>4, TalksDiscreetly
  <2>5. AtHand'
    <3>1. event # NoEvent => event.letter \in Letters /\ event.ver \in 0..2
      BY Kinds DEF Events
    <3> QED BY <1>a, <2>1, <2>3, <3>1
  <2>6. Shown'
    <3>1. unwritten' \subseteq unwritten
      BY <1>1, TalksWay
    <3> QED BY <1>a, <2>1, <3>1
  <2>7. Seen'
    <3>1. step[worker] \in {"header", "forward"} => event.letter \in Letters
      BY DEF Awake, AtWork, Calling, Events
    <3>2. slipped \subseteq slipped'
          /\ \A m \in Letters : version'[m] # version[m] /\ event.letter = m /\ step[worker] \in {"header", "forward"} =>
                m \in slipped'
      BY <1>1, TalksDiscreetly
    <3> QED BY <1>a, <2>1, <3>1, <3>2
  <2>8. KeptOut'
    <3> SUFFICES ASSUME NEW t \in Targets, NEW i \in DOMAIN posted[t], IsPost(posted[t][i])
                 PROVE  /\ <<posted[t][i].shows[1], posted[t][i].what[4]>> \notin private'
                        /\ posted[t][i].shows[1] \in slipped' \/ ~Progress(posted[t][i].shows[1], posted[t][i].shows[2])
      BY <2>1 DEF KeptOut
    <3>1. PICK x : x = posted[t][i] /\ x \in Texted
      BY Kinds
    <3>2. x.shows[1] \in Letters /\ x.what[4] \in 0..2
      <4>1. x.what \in Nat \X Nat \X Things \X (0..2) /\ x.shows \in Letters \X (0..2)
        BY <3>1 DEF Texted
      <4> QED BY <4>1
    <3>3. Clean(x.shows[1], x.what[4]) /\ (x.shows[1] \in slipped \/ ~Progress(x.shows[1], x.shows[2]))
      BY <1>a, <3>1 DEF KeptOut
    <3>4. slipped \subseteq slipped'
      BY <1>1, TalksDiscreetly
    <3> QED BY <2>3, <3>1, <3>2, <3>3, <3>4
  <2> QED BY <1>b, <2>2, <2>4, <2>5, <2>6, <2>7, <2>8
<1>2. CASE Works
  <2>1. UNCHANGED <<asking, auth, private, unwritten, echoes, slipped, version>>
    BY <1>2, WorksFrame
  <2>2. Known' /\ \A m, v : Clean(m, v)' <=> Clean(m, v)
    BY <1>a, <2>1
  <2>3. Queues' /\ AtHand'
    <3>1. backlog # <<>> => /\ Head(backlog) = backlog[1] /\ 1 \in DOMAIN backlog
                            /\ \A j \in DOMAIN Tail(backlog) : \E k \in DOMAIN backlog : Tail(backlog)[j] = backlog[k]
      <4> SUFFICES ASSUME backlog # <<>>
                   PROVE  /\ Head(backlog) = backlog[1] /\ 1 \in DOMAIN backlog
                          /\ \A j \in DOMAIN Tail(backlog) : \E k \in DOMAIN backlog : Tail(backlog)[j] = backlog[k]
        OBVIOUS
      <4>1. /\ Head(backlog) = backlog[1] /\ DOMAIN Tail(backlog) = 1..(Len(backlog) - 1) /\ Len(backlog) \in Nat
            /\ DOMAIN backlog = 1..Len(backlog) /\ Len(backlog) >= 1
            /\ \A j \in 1..(Len(backlog) - 1) : Tail(backlog)[j] = backlog[j + 1]
        BY <1>0, TailFacts
      <4>2. \A j \in DOMAIN Tail(backlog) : j + 1 \in DOMAIN backlog /\ Tail(backlog)[j] = backlog[j + 1]
        BY <4>1
      <4> QED BY <4>1, <4>2
    <3>2. CASE backlog' = backlog /\ (event' = event \/ event' = NoEvent)
      BY <1>a, <2>2, <3>2
    <3>3. CASE backlog # <<>> /\ event' = Head(backlog) /\ backlog' = Tail(backlog)
      BY <1>a, <2>2, <3>1, <3>3
    <3> QED BY <1>2, <3>2, <3>3, WorkerQueue
  <2>4. Seen'
    <3>1. step'[worker] \in {"header", "forward"} =>
              event' = event /\ (step[worker] \in {"header", "forward"} \/ ~Progress(event.letter, version[event.letter]))
      <4>1. CASE Take \/ DropInCooldown \/ CooldownEnds \/ HeaderAges \/ WorkerAsks
        BY <1>0, <4>1 DEF Take, DropInCooldown, CooldownEnds, HeaderAges, WorkerAsks, Moves, Stands, delivery
      <4>2. CASE WorkerLocked \/ Look \/ Header
        BY <1>0, <4>2 DEF WorkerLocked, Look, Header, Settled, BotText, Progress, Moves, Stands
      <4>3. CASE Forward \/ CallFails \/ Flood
        BY <1>0, <4>3 DEF Forward, CallFails, Flood, Settled, Moves, Stands
      <4> QED BY <1>2, <4>1, <4>2, <4>3 DEF Works, Deliver
    <3> QED BY <1>a, <2>1, <3>1
  <2>5. Shown' /\ KeptOut'
    <3>1. CASE posted' = posted
      BY <1>a, <2>1, <3>1 DEF KeptOut, IsPost
    <3>2. ASSUME NEW t \in Targets, NEW x \in Heads \cup Texted, Post(t, x),
                 IsPost(x) => /\ x.shows[1] \notin unwritten /\ <<x.shows[1], x.what[4]>> \notin private
                              /\ x.shows[1] \in slipped \/ ~Progress(x.shows[1], x.shows[2])
          PROVE  Shown' /\ KeptOut'
      <4>1. \A s \in Targets : \A i \in DOMAIN posted'[s] :
                 \/ i \in DOMAIN posted[s] /\ posted'[s][i] = posted[s][i]
                 \/ posted'[s][i] = x
        BY <3>2, PostFacts
      <4>2. Shown'
        BY <1>a, <2>1, <3>2, <4>1
      <4>3. KeptOut'
        BY <1>a, <2>1, <3>2, <4>1 DEF KeptOut
      <4> QED BY <4>2, <4>3
    <3>3. CASE step[worker] = "header" /\ Post(event.target, Name(ChatOf[event.letter]))
      <4>1. event.target \in Targets /\ Name(ChatOf[event.letter]) \in Heads /\ ~IsPost(Name(ChatOf[event.letter]))
        BY <3>3, Kinds DEF Awake, AtWork, Calling
      <4> QED BY <3>2, <3>3, <4>1
    <3>4. CASE step[worker] = "forward" /\ Post(event.target, Content)
      <4>1. event \in Events /\ event # NoEvent /\ event.target \in Targets /\ Content \in Texted
        BY <3>4, Kinds DEF Awake, AtWork, Calling
      <4>2. PICK x \in Texted : /\ x = Content /\ x.shows[1] = event.letter /\ x.what[4] = event.ver
                                /\ x.shows[2] = version[event.letter]
        BY <4>1 DEF Content
      <4> QED BY <1>a, <3>2, <3>4, <4>1, <4>2
    <3> QED BY <1>2, <3>1, <3>3, <3>4, WorkerQueue
  <2> QED BY <1>b, <2>2, <2>3, <2>4, <2>5
<1>c. ASSUME UNCHANGED <<event, posted, version, unwritten, private, slipped, backlog, asking, auth, echoes>>,
             step'[worker] \in {"header", "forward"} => step[worker] \in {"header", "forward"}
      PROVE  Discreet'
  BY <1>a, <1>b, <1>c DEF KeptOut
<1>3. CASE Settles
  <2>1. step'[worker] \in {"header", "forward"} => step[worker] \in {"header", "forward"}
    <3>1. CASE LateWrite
      BY <3>1 DEF LateWrite
    <3>2. ASSUME NEW p \in Syncing, \/ p \in Orders /\ (Order(p) \/ Validate(p) \/ Save(p))
                                    \/ Sync(p) \/ SyncFails(p)
                                    \/ p = minute /\ Minute
          PROVE  step'[worker] \in {"header", "forward"} => step[worker] \in {"header", "forward"}
      BY <3>2, SyncWay, OthersWay DEF Calling
    <3> QED BY <1>3, <3>1, <3>2, SettlesBy
  <2> QED BY <1>3, <1>c, <2>1, SettlesFrame
<1>4. CASE UNCHANGED logVars
  BY <1>4, <1>c, NothingFrame
<1>5. CASE Restarts
  <2>1. CASE Boot \/ StartLog \/ OtherServer
    <3>1. step'[worker] = step[worker]
      BY <1>0, <2>1, Distinct DEF Boot, StartLog, OtherServer, Moves
    <3> QED BY <1>c, <2>1, <3>1 DEF Boot, StartLog, OtherServer, delivery, marks, talk, logHistory
  <2>2. CASE Down
    <3>1. /\ UNCHANGED <<posted, version, unwritten, private, slipped>> /\ backlog' = <<>> /\ event' = NoEvent
          /\ echoes' = {} /\ asking' = [c \in Chats |-> "no"] /\ step'[worker] \in {"new", "done"}
      BY <1>0, <2>2 DEF Down, logHistory
    <3>2. Known' /\ Queues' /\ AtHand' /\ Seen'
      BY <1>a, <3>1
    <3>3. Shown' /\ KeptOut'
      BY <1>a, <3>1 DEF KeptOut
    <3> QED BY <1>b, <3>2, <3>3
  <2> QED BY <1>5, <2>1, <2>2 DEF Restarts
<1> QED BY <1>1, <1>2, <1>3, <1>4, <1>5, FourSorts
\* What the file and MongoDB hold of the policy, after any step.
LEMMA StoredStep ==
    ASSUME LogTypes, Holding, Awake, Stored, [LogNext]_logVars
    PROVE  Stored'
<1>0. /\ lock \in Seq(Procs) /\ step \in [Procs -> AtWork \cup Syncs \cup {"idle"}]
      /\ policy \in Good /\ chosen \in Docs /\ (cloud = Absent \/ cloud \in Docs) /\ (overdue = Absent \/ overdue \in Docs)
      /\ file = Absent \/ (file \in [doc : Docs, pending : BOOLEAN] /\ file # Absent)
      /\ bot \in {"down", "connect", "up"}
      /\ \A q \in Syncing : q \in Procs /\ q # worker
  BY Distinct, DocumentFacts DEF LogTypes, ServerTypes
<1> DEFINE Marked == file # Absent /\ file.pending
           Says(d) == file # Absent => file.doc = d
           Places == \A p \in Syncing : (step[p] = "find" => ~pending) /\ (step[p] = "push" => pending)
           Held == ~spoiled => /\ Says(chosen)
                               /\ cloud = chosen \/ Marked \/ (cloud = Absent /\ chosen = Reset)
                               /\ bot # "down" /\ (restored \/ file # Absent) => policy = Decode(chosen)
           Rest == /\ bot = "down" => ~restored
                   /\ bot # "down" => (pending <=> Marked)
                   /\ bot # "down" /\ file = Absent => policy = ByEnv
                   /\ file # Absent /\ ~Marked => cloud # Absent
<1>a. Places /\ Held /\ Rest
  BY DEF Stored
<1>b. Places' /\ Held' /\ Rest' => Stored'
  BY DEF Stored
<1>c. ASSUME UNCHANGED <<pending, file, policy, cloud, restored, spoiled, chosen>>,
             bot' = bot \/ (bot # "down" /\ bot' # "down")
      PROVE  Held' /\ Rest'
  BY <1>a, <1>c
<1>1. CASE Talks \/ Works \/ UNCHANGED logVars
  <2>1. UNCHANGED <<pending, file, policy, cloud, restored, spoiled, chosen, bot>>
    BY <1>1, TalksFrame, WorksFrame, NothingFrame
  <2>2. \A p \in Syncing : step'[p] = step[p]
    BY <1>1, TalksFrame, WorksFrame, NothingFrame
  <2>3. Places'
    BY <1>a, <2>1, <2>2
  <2>4. Held' /\ Rest'
    BY <1>c, <2>1
  <2> QED BY <1>b, <2>3, <2>4
<1>2. CASE LateWrite
  <2>1. /\ overdue # Absent /\ cloud' = overdue
        /\ spoiled' = (spoiled \/ (overdue # chosen /\ ~Marked))
        /\ UNCHANGED <<bot, pending, file, policy, restored, chosen, step>>
    BY <1>2 DEF LateWrite
  <2>2. Places'
    BY <1>a, <2>1
  <2>3. Rest'
    BY <1>a, <2>1
  <2>4. Held'
    BY <1>a, <2>1
  <2> QED BY <1>b, <2>2, <2>3, <2>4
<1>3. ASSUME NEW p \in Syncing, \/ p \in Orders /\ (Order(p) \/ Validate(p) \/ Save(p))
                                \/ Sync(p) \/ SyncFails(p)
                                \/ p = minute /\ Minute
      PROVE  Stored'
  <2>1. bot # "down" /\ bot' # "down"
    <3>1. CASE p \in Orders /\ Order(p)
      BY <3>1 DEF Order
    <3>2. step[p] \in {"validate", "save", "wait", "find", "push", "sleep"} => bot # "down"
      BY DEF Awake
    <3>3. bot # "down"
      BY <1>3, <3>1, <3>2 DEF Validate, Save, Sync, SyncLocked, Find, Push, SyncFails, Minute, Stands
    <3> QED BY <1>3, <3>3, SyncWay
  <2>2. \A q \in Syncing \ {p} : step'[q] \in {"find", "push"} => step'[q] = step[q]
    BY <1>3, SyncWay, OthersWay
  <2>3. Owns(p) => \A q \in Syncing \ {p} : step'[q] \notin {"find", "push"}
    BY <1>0, <2>2, LockFacts DEF Holding
  <2>4. p \in Procs
    BY <1>0
  <2>5. CASE p \in Orders /\ Save(p)
    <3>1. /\ Owns(p) /\ step[p] = "save" /\ policy' = ordered[p] /\ pending' = TRUE
          /\ file' = [doc |-> Document(ordered[p]), pending |-> TRUE]
          /\ chosen' = Document(ordered[p]) /\ spoiled' = FALSE /\ UNCHANGED <<restored, cloud>>
          /\ step' = [step EXCEPT ![p] = IF named THEN "wait" ELSE "done"]
      BY <2>5 DEF Save, Moves, Stands
    <3>2. ordered[p] \in Good
      BY <2>5, <3>1 DEF LogTypes, ServerTypes
    <3>3. Document(ordered[p]) \in Docs /\ Decode(Document(ordered[p])) = ordered[p]
      BY <3>2, DocumentFacts
    <3>4. file' # Absent /\ file'.pending = TRUE /\ file'.doc = Document(ordered[p])
      BY <3>1, <3>3, DocumentFacts
    <3>5. Places'
      BY <1>0, <2>3, <2>4, <3>1
    <3>6. Rest'
      BY <2>1, <3>1, <3>4
    <3>7. Held'
      BY <3>1, <3>3, <3>4
    <3> QED BY <1>b, <3>5, <3>6, <3>7
  <2>6. CASE SyncLocked(p)
    <3>1. UNCHANGED <<pending, file, policy, cloud, restored, spoiled, chosen>>
      BY <2>6 DEF SyncLocked, logHistory
    <3>2. Places'
      <4>1. (step'[p] = "find" => ~pending) /\ (step'[p] = "push" => pending)
        BY <1>0, <2>4, <2>6 DEF SyncLocked, Leaves, Moves
      <4>2. \A q \in Syncing \ {p} : step'[q] \notin {"find", "push"}
        BY <2>3, <2>6 DEF SyncLocked
      <4> QED BY <3>1, <4>1, <4>2
    <3>3. Held' /\ Rest'
      BY <1>c, <2>1, <3>1
    <3> QED BY <1>b, <3>2, <3>3
  <2>7. CASE Find(p)
    <3>1. Owns(p) /\ step[p] = "find" /\ restored' = TRUE /\ UNCHANGED <<cloud, spoiled, chosen>>
      BY <2>7 DEF Find, Stands, logHistory
    <3>2. ~pending /\ ~Marked
      BY <1>a, <2>1, <3>1
    <3>3. file # Absent => cloud # Absent
      BY <1>a, <3>2
    <3>4. \/ /\ cloud # Absent /\ policy' = Decode(cloud) /\ file' = [doc |-> cloud, pending |-> FALSE]
             /\ Leaves(p) /\ pending' = pending
          \/ cloud = Absent /\ file = Absent /\ Leaves(p) /\ UNCHANGED <<policy, pending, file>>
      BY <2>7, <3>3 DEF Find
    <3>5. Places'
      <4>1. step'[p] \notin {"find", "push"}
        BY <1>0, <2>4, <3>4 DEF Leaves, Moves
      <4> QED BY <2>3, <3>1, <4>1
    <3>6. CASE cloud # Absent /\ policy' = Decode(cloud) /\ file' = [doc |-> cloud, pending |-> FALSE] /\ pending' = pending
      <4>1. file' # Absent /\ file'.pending = FALSE /\ file'.doc = cloud
        BY <1>0, <3>6, DocumentFacts
      <4>2. ~spoiled => cloud = chosen
        BY <1>a, <3>2, <3>6
      <4>3. Rest'
        BY <2>1, <3>1, <3>2, <3>6, <4>1
      <4>4. Held'
        BY <3>1, <3>6, <4>1, <4>2
      <4> QED BY <1>b, <3>5, <4>3, <4>4
    <3>7. CASE cloud = Absent /\ file = Absent /\ UNCHANGED <<policy, pending, file>>
      <4>1. policy = ByEnv /\ chosen # Absent
        BY <1>0, <1>a, <2>1, <3>7, DocumentFacts
      <4>2. Decode(Reset) = ByEnv
        BY DEF Decode, Reset
      <4>3. ~spoiled => chosen = Reset
        BY <1>a, <3>7, <4>1
      <4>4. Rest'
        BY <1>a, <2>1, <3>1, <3>2, <3>7
      <4>5. Held'
        BY <1>a, <3>1, <3>7, <4>1, <4>2, <4>3
      <4> QED BY <1>b, <3>5, <4>4, <4>5
    <3> QED BY <3>4, <3>6, <3>7
  <2>8. CASE Push(p)
    <3>1. /\ Owns(p) /\ step[p] = "push" /\ cloud' = Document(policy) /\ Leaves(p)
          /\ file' = [doc |-> Document(policy), pending |-> FALSE] /\ pending' = FALSE /\ restored' = TRUE
          /\ UNCHANGED <<policy, spoiled, chosen>>
      BY <2>8 DEF Push, Stands, logHistory
    <3>2. Marked /\ file # Absent
      BY <1>a, <2>1, <3>1
    <3>3. ~spoiled => policy = Decode(chosen)
      BY <1>a, <2>1, <3>2
    <3>4. Document(Decode(chosen)) = chosen /\ Document(policy) \in Docs
      BY <1>0, DocumentFacts
    <3>5. file' # Absent /\ file'.pending = FALSE /\ file'.doc = Document(policy) /\ cloud' # Absent
      BY <3>1, <3>4, DocumentFacts
    <3>6. Places'
      <4>1. step'[p] \notin {"find", "push"}
        BY <1>0, <2>4, <3>1 DEF Leaves, Moves
      <4> QED BY <2>3, <3>1, <4>1
    <3>7. Rest'
      BY <2>1, <3>1, <3>5
    <3>8. Held'
      BY <3>1, <3>3, <3>4, <3>5
    <3> QED BY <1>b, <3>6, <3>7, <3>8
  <2>9. CASE (p \in Orders /\ (Order(p) \/ Validate(p))) \/ SyncFails(p) \/ (p = minute /\ Minute)
    <3>1. UNCHANGED <<pending, file, policy, cloud, restored, spoiled, chosen>>
      BY <2>9 DEF Order, Validate, SyncFails, Minute, logHistory
    <3>2. step'[p] \notin {"find", "push"}
      BY <1>0, <2>4, <2>9 DEF Order, Validate, SyncFails, Minute, Leaves, Moves
    <3>3. Places'
      BY <1>a, <2>2, <3>1, <3>2
    <3>4. Held' /\ Rest'
      BY <1>c, <2>1, <3>1
    <3> QED BY <1>b, <3>3, <3>4
  <2> QED BY <1>3, <2>5, <2>6, <2>7, <2>8, <2>9 DEF Sync
<1>4. CASE Restarts
  <2>1. CASE Boot
    <3>1. /\ bot = "down" /\ bot' = "connect"
          /\ policy' = IF file = Absent THEN ByEnv ELSE Decode(file.doc)
          /\ pending' = Marked /\ UNCHANGED <<file, restored, cloud, spoiled, chosen, step>>
      BY <2>1 DEF Boot, logHistory
    <3>2. Places'
      BY <3>1 DEF Awake
    <3>3. Rest'
      BY <1>a, <3>1
    <3>4. Held'
      BY <1>a, <3>1
    <3> QED BY <1>b, <3>2, <3>3, <3>4
  <2>2. CASE StartLog
    <3>1. UNCHANGED <<pending, file, policy, cloud, restored, spoiled, chosen, bot>>
      BY <2>2 DEF StartLog, logHistory
    <3>2. \A q \in Syncing : step'[q] = step[q] \/ step'[q] = "wait"
      BY <1>0, <2>2 DEF StartLog, Moves
    <3>3. Places'
      BY <1>a, <3>1, <3>2
    <3>4. Held' /\ Rest'
      BY <1>c, <3>1
    <3> QED BY <1>b, <3>3, <3>4
  <2>3. CASE Down
    <3>1. /\ bot' = "down" /\ restored' = FALSE /\ UNCHANGED <<pending, file, policy, cloud, spoiled, chosen>>
          /\ \A q \in Syncing : step'[q] \in {"new", "done"}
      BY <1>0, <2>3 DEF Down, logHistory
    <3>2. Places' /\ Rest'
      BY <1>a, <3>1
    <3>3. Held'
      BY <1>a, <3>1
    <3> QED BY <1>b, <3>2, <3>3
  <2>4. CASE OtherServer
    <3>1. /\ bot = "down" /\ file # Absent /\ spoiled' = (spoiled \/ file.pending) /\ file' = Absent
          /\ UNCHANGED <<bot, policy, pending, restored, cloud, chosen, step>>
      BY <2>4 DEF OtherServer
    <3>2. Places' /\ Rest'
      BY <1>a, <3>1
    <3>3. Held'
      BY <1>a, <3>1
    <3> QED BY <1>b, <3>2, <3>3
  <2> QED BY <1>4, <2>1, <2>2, <2>3, <2>4 DEF Restarts
<1> QED BY <1>1, <1>2, <1>3, <1>4, FourSorts, SettlesBy

-----------------------------------------------------------------------------

LEMMA LogInitInv == LogInit => LogInv
<1> SUFFICES ASSUME LogInit
             PROVE  LogInv
  OBVIOUS
<1>1. PICK case \in LogCases :
          /\ unwritten = case.letters /\ boots = case.launches /\ faults = case.faults
          /\ step = [p \in Procs |-> IF p \in case.orders THEN "new" ELSE "done"]
  BY DEF LogInit, Procs
<1>2. /\ case.letters \subseteq Letters /\ case.orders \subseteq Orders /\ case.launches \in Nat /\ case.faults \in Nat
      /\ NoTarget \notin Targets /\ Absent \notin Chats
  BY ChatLogAssumption
<1>3. /\ worker \in Procs /\ starter \in Procs /\ worker \notin case.orders /\ starter \notin case.orders
      /\ Syncing \subseteq Procs
  BY <1>2, Distinct
<1>4. \A S : <<>> \in Seq(S)
  OBVIOUS
<1>5. ServerTypes
  <2>1. step \in [Procs -> AtWork \cup Syncs \cup {"idle"}] /\ \A k \in Orders : step[k] \notin {"validate", "save"}
    BY <1>1, <1>3, Distinct DEF Syncs
  <2>2. ordered \in [Orders -> Policies]
    BY DocumentFacts DEF LogInit, Good
  <2> QED BY <1>1, <1>2, <1>4, <2>1, <2>2, DocumentFacts DEF ServerTypes, LogInit
<1>6. QueueTypes
  BY <1>4 DEF QueueTypes, LogInit, NoHeader
<1>7. TalkTypes
  <2>1. posted \in [Targets -> Seq(Heads \cup Texted)] /\ asking \in [Chats -> {"no", "sure", "unsure"}]
        /\ version \in [Letters -> 0..2]
    BY <1>4 DEF LogInit
  <2>2. unwritten \subseteq Letters /\ echoes = {} /\ private = {} /\ slipped = {} /\ blurred = FALSE
    BY <1>1, <1>2 DEF LogInit
  <2> QED BY <2>1, <2>2 DEF TalkTypes
<1>8. Holding /\ Awake /\ InForce
  <2>1. \A p \in Procs : step[p] \in {"new", "done"}
    BY <1>1
  <2>2. step[worker] = "done" /\ step[starter] = "done"
    BY <1>1, <1>3
  <2> QED BY <1>3, <2>1, <2>2 DEF Holding, Awake, InForce, LogInit, AtWork, Calling
<1>9. \A t \in Targets : DOMAIN posted[t] = {}
  BY DEF LogInit
<1>10. LoggedOnce /\ UnderOwnName /\ KeptOut
  BY <1>9 DEF LoggedOnce, UnderOwnName, KeptOut
<1>11. Unrepeated /\ PostedOnce
  BY <1>9, <1>10 DEF Unrepeated, PostedOnce, LogInit
<1>12. step[worker] = "done"
  BY <1>1, <1>3
<1>13. Headed
  BY <1>10, <1>12 DEF Headed, LogInit, NoHeader
<1>14. Discreet
  BY <1>9, <1>10, <1>12 DEF Discreet, LogInit
<1>15. Stored
  <2>1. \A p \in Syncing : step[p] \in {"new", "done"}
    BY <1>1, <1>3
  <2> QED BY <2>1 DEF Stored, LogInit
<1> QED BY <1>5, <1>6, <1>7, <1>8, <1>11, <1>13, <1>14, <1>15 DEF LogInv, LogTypes

LEMMA LogInvariant == LogSpec => []LogInv
<1>1. LogInv /\ [LogNext]_logVars => LogInv'
  BY LogTypesStep, HoldingStep, AwakeStep, InForceStep, UnrepeatedStep, PostedOnceStep, HeadedStep, DiscreetStep, StoredStep
     DEF LogInv
<1> QED BY <1>1, LogInitInv, PTL DEF LogSpec

\* Nothing is logged twice, nor under another user's name; a login and the progress of a
\* transfer stay out; and the owner's last choice is the policy, over restarts and on
\* another server.
THEOREM LogIsSound == LogSpec => []LogSound
<1>1. LogInv => LogSound
  <2> SUFFICES ASSUME LogInv
               PROVE  LogSound
    OBVIOUS
  <2>1. LoggedOnce /\ UnderOwnName /\ KeptOut
    BY DEF LogInv, PostedOnce, Headed, Discreet
  <2>2. PolicyKept
    BY DEF LogInv, Stored, PolicyKept
  <2> QED BY <2>1, <2>2 DEF LogSound
<1> QED BY <1>1, LogInvariant, PTL

\* What reaches the owner's chat was written under the policy in force, and goes where
\* that policy says, however a /logchannel falls between the worker's steps.
THEOREM LogObeysPolicy == LogSpec => PostsAsConfigured
<1>1. LogInv /\ [LogNext]_logVars =>
          [\A t \in Targets : posted'[t] # posted[t] =>
               policy.on /\ policy.target = t /\ event.rev = revision]_logVars
  BY PostsInForce DEF LogInv
<1> QED BY <1>1, LogInvariant, PTL DEF LogSpec, PostsAsConfigured

-----------------------------------------------------------------------------
(* Numbers in order                                                        *)

\* How many numbers of S go up to x, and how many down to it.
Upto(S, x)   == Cardinality({n \in S : n <= x})
Downto(S, x) == Cardinality({n \in S : n >= x})

\* Numbers that all differ, as many as there are, are all those numbers.
LEMMA RanksMeetAll ==
    ASSUME NEW S, IsFiniteSet(S), NEW rank \in [S -> 1..Cardinality(S)],
           \A x, z \in S : rank[x] = rank[z] => x = z
    PROVE  \A i \in 1..Cardinality(S) : \E x \in S : rank[x] = i
<1>1. Cardinality(S) \in Nat
  BY FS_CardinalityType
<1>2. rank \in Injection(S, 1..Cardinality(S))
  BY DEF Injection, IsInjective
<1>3. IsFiniteSet(1..Cardinality(S)) /\ Cardinality(1..Cardinality(S)) = Cardinality(S)
  BY <1>1, FS_Interval
<1>4. rank \in Surjection(S, 1..Cardinality(S))
  BY <1>2, <1>3, FS_Injection
<1> QED BY <1>4 DEF Surjection

LEMMA UptoRanks ==
    ASSUME NEW S \in SUBSET Nat, IsFiniteSet(S)
    PROVE  /\ Cardinality(S) \in Nat
           /\ \A x \in S : Upto(S, x) \in 1..Cardinality(S)
           /\ \A x, z \in S : x < z <=> Upto(S, x) < Upto(S, z)
           /\ \A i \in 1..Cardinality(S) : \E x \in S : Upto(S, x) = i
<1> DEFINE part(x) == {n \in S : n <= x}
           rank == [x \in S |-> Upto(S, x)]
<1>1. Cardinality(S) \in Nat
  BY FS_CardinalityType
<1>2. \A x \in S : IsFiniteSet(part(x)) /\ Upto(S, x) \in 1..Cardinality(S)
  <2> SUFFICES ASSUME NEW x \in S PROVE IsFiniteSet(part(x)) /\ Upto(S, x) \in 1..Cardinality(S)
    OBVIOUS
  <2>1. part(x) \in SUBSET S /\ part(x) # {}
    OBVIOUS
  <2>2. IsFiniteSet(part(x)) /\ Cardinality(part(x)) <= Cardinality(S)
    BY <2>1, FS_Subset
  <2>3. Cardinality(part(x)) \in Nat /\ Cardinality(part(x)) # 0
    BY <2>1, <2>2, FS_CardinalityType, FS_EmptySet
  <2> QED BY <1>1, <2>2, <2>3 DEF Upto
<1>0. \A x \in S : Upto(S, x) \in Nat
  <2> HIDE DEF part
  <2> QED BY <1>1, <1>2
<1>3. \A x, z \in S : x < z => Upto(S, x) < Upto(S, z)
  <2> SUFFICES ASSUME NEW x \in S, NEW z \in S, x < z PROVE Upto(S, x) < Upto(S, z)
    OBVIOUS
  <2>0. z <= z /\ ~(z <= x) /\ \A n \in S : n <= x => n <= z
    OBVIOUS
  <2>1. part(x) \in SUBSET part(z) /\ z \in part(z) /\ z \notin part(x)
    BY <2>0
  <2>2. Cardinality(part(x)) <= Cardinality(part(z)) /\ Cardinality(part(x)) # Cardinality(part(z))
    BY <1>2, <2>1, FS_Subset
  <2> QED BY <1>1, <1>2, <2>2 DEF Upto
<1>4. \A x, z \in S : x < z <=> Upto(S, x) < Upto(S, z)
  <2> SUFFICES ASSUME NEW x \in S, NEW z \in S, Upto(S, x) < Upto(S, z) PROVE x < z
    BY <1>3
  <2>1. ~(z < x) /\ z # x
    BY <1>0, <1>3
  <2> QED BY <2>1
<1>5. \A x, z \in S : rank[x] = rank[z] => x = z
  <2> SUFFICES ASSUME NEW x \in S, NEW z \in S, Upto(S, x) = Upto(S, z) PROVE x = z
    OBVIOUS
  <2>1. ~(x < z) /\ ~(z < x)
    BY <1>0, <1>3
  <2> QED BY <2>1
<1>6. rank \in [S -> 1..Cardinality(S)]
  BY <1>2
<1>7. \A i \in 1..Cardinality(S) : \E x \in S : rank[x] = i
  BY <1>5, <1>6, RanksMeetAll
<1> QED BY <1>1, <1>2, <1>4, <1>7

LEMMA DowntoRanks ==
    ASSUME NEW S \in SUBSET Nat, IsFiniteSet(S)
    PROVE  /\ Cardinality(S) \in Nat
           /\ \A x \in S : Downto(S, x) \in 1..Cardinality(S)
           /\ \A x, z \in S : x < z <=> Downto(S, z) < Downto(S, x)
           /\ \A i \in 1..Cardinality(S) : \E x \in S : Downto(S, x) = i
<1> DEFINE part(x) == {n \in S : n >= x}
           rank == [x \in S |-> Downto(S, x)]
<1>1. Cardinality(S) \in Nat
  BY FS_CardinalityType
<1>2. \A x \in S : IsFiniteSet(part(x)) /\ Downto(S, x) \in 1..Cardinality(S)
  <2> SUFFICES ASSUME NEW x \in S PROVE IsFiniteSet(part(x)) /\ Downto(S, x) \in 1..Cardinality(S)
    OBVIOUS
  <2>1. part(x) \in SUBSET S /\ part(x) # {}
    OBVIOUS
  <2>2. IsFiniteSet(part(x)) /\ Cardinality(part(x)) <= Cardinality(S)
    BY <2>1, FS_Subset
  <2>3. Cardinality(part(x)) \in Nat /\ Cardinality(part(x)) # 0
    BY <2>1, <2>2, FS_CardinalityType, FS_EmptySet
  <2> QED BY <1>1, <2>2, <2>3 DEF Downto
<1>0. \A x \in S : Downto(S, x) \in Nat
  <2> HIDE DEF part
  <2> QED BY <1>1, <1>2
<1>3. \A x, z \in S : x < z => Downto(S, z) < Downto(S, x)
  <2> SUFFICES ASSUME NEW x \in S, NEW z \in S, x < z PROVE Downto(S, z) < Downto(S, x)
    OBVIOUS
  <2>0. x >= x /\ ~(x >= z) /\ \A n \in S : n >= z => n >= x
    OBVIOUS
  <2>1. part(z) \in SUBSET part(x) /\ x \in part(x) /\ x \notin part(z)
    BY <2>0
  <2>2. Cardinality(part(z)) <= Cardinality(part(x)) /\ Cardinality(part(z)) # Cardinality(part(x))
    BY <1>2, <2>1, FS_Subset
  <2> QED BY <1>1, <1>2, <2>2 DEF Downto
<1>4. \A x, z \in S : x < z <=> Downto(S, z) < Downto(S, x)
  <2> SUFFICES ASSUME NEW x \in S, NEW z \in S, Downto(S, z) < Downto(S, x) PROVE x < z
    BY <1>3
  <2>1. ~(z < x) /\ z # x
    BY <1>0, <1>3
  <2> QED BY <2>1
<1>5. \A x, z \in S : rank[x] = rank[z] => x = z
  <2> SUFFICES ASSUME NEW x \in S, NEW z \in S, Downto(S, x) = Downto(S, z) PROVE x = z
    OBVIOUS
  <2>1. ~(x < z) /\ ~(z < x)
    BY <1>0, <1>3
  <2> QED BY <2>1
<1>6. rank \in [S -> 1..Cardinality(S)]
  BY <1>2
<1>7. \A i \in 1..Cardinality(S) : \E x \in S : rank[x] = i
  BY <1>5, <1>6, RanksMeetAll
<1> QED BY <1>1, <1>2, <1>4, <1>7

\* ByDate lists a set of numbers upwards, Newest downwards.
LEMMA ByDateSorts ==
    ASSUME NEW S \in SUBSET Nat, IsFiniteSet(S)
    PROVE  /\ ByDate(S) \in Seq(S) /\ DOMAIN ByDate(S) = 1..Cardinality(S) /\ Len(ByDate(S)) = Cardinality(S)
           /\ \A i, j \in DOMAIN ByDate(S) : i < j <=> ByDate(S)[i] < ByDate(S)[j]
           /\ \A i \in DOMAIN ByDate(S) : Upto(S, ByDate(S)[i]) = i
           /\ Elems(ByDate(S)) = S
<1>1. ByDate(S) = [i \in 1..Cardinality(S) |-> CHOOSE m \in S : Upto(S, m) = i]
  BY DEF ByDate, Upto
<1>2. Cardinality(S) \in Nat
  BY UptoRanks
<1>3. \A i \in 1..Cardinality(S) : ByDate(S)[i] \in S /\ Upto(S, ByDate(S)[i]) = i
  <2> SUFFICES ASSUME NEW i \in 1..Cardinality(S) PROVE ByDate(S)[i] \in S /\ Upto(S, ByDate(S)[i]) = i
    OBVIOUS
  <2>1. ByDate(S)[i] = CHOOSE m \in S : Upto(S, m) = i
    BY <1>1
  <2>2. \E m \in S : Upto(S, m) = i
    BY UptoRanks
  <2> QED BY <2>1, <2>2
<1>4. ByDate(S) \in [1..Cardinality(S) -> S]
  BY <1>1, <1>3
<1>5. ByDate(S) \in Seq(S) /\ Len(ByDate(S)) = Cardinality(S) /\ DOMAIN ByDate(S) = 1..Cardinality(S)
  BY <1>2, <1>4
<1>6. \A i, j \in DOMAIN ByDate(S) : i < j <=> ByDate(S)[i] < ByDate(S)[j]
  <2> SUFFICES ASSUME NEW i \in 1..Cardinality(S), NEW j \in 1..Cardinality(S)
               PROVE  i < j <=> ByDate(S)[i] < ByDate(S)[j]
    BY <1>5
  <2>1. /\ ByDate(S)[i] \in S /\ Upto(S, ByDate(S)[i]) = i
        /\ ByDate(S)[j] \in S /\ Upto(S, ByDate(S)[j]) = j
    BY <1>3
  <2>2. \A x, z \in S : x < z <=> Upto(S, x) < Upto(S, z)
    BY UptoRanks
  <2>3. i < j <=> Upto(S, ByDate(S)[i]) < Upto(S, ByDate(S)[j])
    BY <2>1
  <2>4. i < j <=> ByDate(S)[i] < ByDate(S)[j]
    BY ONLY <2>1, <2>2, <2>3
  <2> QED BY <2>4
<1>7. ASSUME NEW x \in S PROVE x \in Elems(ByDate(S))
  <2>1. Upto(S, x) \in DOMAIN ByDate(S)
    BY <1>5, UptoRanks
  <2> DEFINE y == ByDate(S)[Upto(S, x)]
  <2>2. y \in S /\ Upto(S, y) = Upto(S, x)
    BY <1>3, <1>5, <2>1
  <2>3. Upto(S, x) \in Nat
    BY <1>2, UptoRanks
  <2> HIDE DEF y
  <2>4. ~(x < y) /\ ~(y < x)
    BY <2>2, <2>3, UptoRanks
  <2>5. y = x
    BY <2>2, <2>4
  <2> QED BY <2>1, <2>5 DEF Elems, y
<1>8. Elems(ByDate(S)) = S
  BY <1>3, <1>5, <1>7 DEF Elems
<1> QED BY <1>3, <1>5, <1>6, <1>8

LEMMA NewestSorts ==
    ASSUME NEW S \in SUBSET Nat, IsFiniteSet(S)
    PROVE  /\ Newest(S) \in Seq(S) /\ DOMAIN Newest(S) = 1..Cardinality(S) /\ Len(Newest(S)) = Cardinality(S)
           /\ \A i \in DOMAIN Newest(S) : Downto(S, Newest(S)[i]) = i
           /\ \A x \in S : Downto(S, x) \in DOMAIN Newest(S) /\ Newest(S)[Downto(S, x)] = x
<1>1. Newest(S) = [i \in 1..Cardinality(S) |-> CHOOSE m \in S : Downto(S, m) = i]
  BY DEF Newest, Downto
<1>2. Cardinality(S) \in Nat
  BY DowntoRanks
<1>3. \A i \in 1..Cardinality(S) : Newest(S)[i] \in S /\ Downto(S, Newest(S)[i]) = i
  <2> SUFFICES ASSUME NEW i \in 1..Cardinality(S) PROVE Newest(S)[i] \in S /\ Downto(S, Newest(S)[i]) = i
    OBVIOUS
  <2>1. Newest(S)[i] = CHOOSE m \in S : Downto(S, m) = i
    BY <1>1
  <2>2. \E m \in S : Downto(S, m) = i
    BY DowntoRanks
  <2> QED BY <2>1, <2>2
<1>4. Newest(S) \in [1..Cardinality(S) -> S]
  BY <1>1, <1>3
<1>5. Newest(S) \in Seq(S) /\ Len(Newest(S)) = Cardinality(S) /\ DOMAIN Newest(S) = 1..Cardinality(S)
  BY <1>2, <1>4
<1>6. ASSUME NEW x \in S PROVE Downto(S, x) \in DOMAIN Newest(S) /\ Newest(S)[Downto(S, x)] = x
  <2>1. Downto(S, x) \in DOMAIN Newest(S)
    BY <1>5, DowntoRanks
  <2> DEFINE y == Newest(S)[Downto(S, x)]
  <2>2. y \in S /\ Downto(S, y) = Downto(S, x)
    BY <1>3, <1>5, <2>1
  <2>3. Downto(S, x) \in Nat
    BY <1>2, DowntoRanks
  <2> HIDE DEF y
  <2>4. ~(x < y) /\ ~(y < x)
    BY <2>2, <2>3, DowntoRanks
  <2>5. y = x
    BY <2>2, <2>4
  <2> QED BY <2>1, <2>5 DEF y
<1> QED BY <1>3, <1>5, <1>6

LEMMA OneUpTo == ASSUME NEW n \in Nat PROVE IsFiniteSet(1..n) /\ Cardinality(1..n) = n
BY FS_Interval

\* A list that goes upwards is what ByDate makes of its elements.
LEMMA UpwardsIsByDate ==
    ASSUME NEW s \in Seq(Nat), \A i, j \in DOMAIN s : i < j => s[i] < s[j]
    PROVE  s = ByDate(Elems(s)) /\ IsFiniteSet(Elems(s))
<1> DEFINE S == Elems(s)
<1>1. S \in SUBSET Nat /\ Len(s) \in Nat /\ DOMAIN s = 1..Len(s)
  BY DEF Elems
<1>2. \A i, j \in DOMAIN s : i < j <=> s[i] < s[j]
  <2> SUFFICES ASSUME NEW i \in DOMAIN s, NEW j \in DOMAIN s, s[i] < s[j] PROVE i < j
    OBVIOUS
  <2>1. i \in Nat /\ j \in Nat /\ s[i] \in Nat /\ s[j] \in Nat
    BY <1>1
  <2>2. ~(j < i) /\ i # j
    BY <2>1
  <2> QED BY <2>1, <2>2
<1>3. \A i, j \in DOMAIN s : s[i] = s[j] => i = j
  <2> SUFFICES ASSUME NEW i \in DOMAIN s, NEW j \in DOMAIN s, s[i] = s[j] PROVE i = j
    OBVIOUS
  <2>1. i \in Nat /\ j \in Nat /\ s[i] \in Nat
    BY <1>1
  <2>2. ~(j < i) /\ ~(i < j)
    BY <1>2, <2>1
  <2> QED BY <2>1, <2>2
<1>4. \A i \in DOMAIN s : s[i] \in S
  BY DEF Elems
<1>5. \A i \in DOMAIN s : Upto(S, s[i]) = i /\ IsFiniteSet({n \in S : n <= s[i]})
  <2> SUFFICES ASSUME NEW i \in DOMAIN s
               PROVE  Cardinality({n \in S : n <= s[i]}) = i /\ IsFiniteSet({n \in S : n <= s[i]})
    BY DEF Upto
  <2> DEFINE f == [k \in 1..i |-> s[k]]
             T == {n \in S : n <= s[i]}
  <2>1. i \in Nat /\ 1..i \subseteq DOMAIN s /\ \A k \in 1..i : k \in Nat
    BY <1>1
  <2>2. \A k \in 1..i : s[k] \in T
    <3> SUFFICES ASSUME NEW k \in 1..i PROVE s[k] \in T
      OBVIOUS
    <3>1. k \in DOMAIN s /\ (k < i \/ k = i)
      BY <2>1
    <3>2. s[k] \in Nat /\ s[i] \in Nat
      BY <3>1
    <3>3. s[k] <= s[i]
      BY <3>1, <3>2
    <3> QED BY <1>4, <3>1, <3>3
  <2>3. \A n \in T : \E k \in 1..i : s[k] = n
    <3> SUFFICES ASSUME NEW n \in T PROVE \E k \in 1..i : s[k] = n
      OBVIOUS
    <3>1. PICK k \in DOMAIN s : s[k] = n
      BY DEF Elems
    <3>2. s[k] <= s[i] /\ s[k] \in Nat /\ s[i] \in Nat /\ k \in Nat \ {0} /\ i \in Nat
      BY <1>1, <3>1
    <3>3. ~(i < k)
      BY <3>2
    <3>4. k \in 1..i
      BY <3>2, <3>3
    <3> QED BY <3>1, <3>4
  <2>4. f \in Bijection(1..i, T)
    <3> HIDE DEF T
    <3>1. f \in [1..i -> T]
      BY <2>2
    <3>2. \A k, l \in 1..i : f[k] = f[l] => k = l
      BY <1>3, <2>1
    <3>3. \A n \in T : \E k \in 1..i : f[k] = n
      BY <2>3
    <3> QED BY <3>1, <3>2, <3>3 DEF Bijection, Injection, Surjection, IsInjective
  <2>5. IsFiniteSet(1..i) /\ Cardinality(1..i) = i
    BY <2>1, FS_Interval
  <2>6. IsFiniteSet(T) /\ Cardinality(T) = i
    BY <2>4, <2>5, FS_Bijection DEF ExistsBijection
  <2> QED BY <2>6
<1>6. IsFiniteSet(S) /\ Cardinality(S) = Len(s)
  <2>1. s \in Bijection(1..Len(s), S)
    <3>1. s \in [1..Len(s) -> S] /\ \A n \in S : \E k \in 1..Len(s) : s[k] = n
      BY <1>1, <1>4 DEF Elems
    <3>2. \A k, l \in 1..Len(s) : s[k] = s[l] => k = l
      BY <1>1, <1>3
    <3> HIDE DEF S
    <3> QED BY <3>1, <3>2 DEF Bijection, Injection, Surjection, IsInjective
  <2>2. IsFiniteSet(1..Len(s)) /\ Cardinality(1..Len(s)) = Len(s)
    BY <1>1, OneUpTo
  <2> QED BY <2>1, <2>2, FS_Bijection DEF ExistsBijection
<1> HIDE DEF S
<1>7. /\ ByDate(S) \in Seq(S) /\ DOMAIN ByDate(S) = DOMAIN s /\ Len(ByDate(S)) = Len(s)
      /\ \A i \in DOMAIN s : Upto(S, ByDate(S)[i]) = i /\ ByDate(S)[i] \in S
  <2>1. /\ ByDate(S) \in Seq(S) /\ DOMAIN ByDate(S) = 1..Cardinality(S)
        /\ \A i \in DOMAIN ByDate(S) : Upto(S, ByDate(S)[i]) = i
    BY <1>1, <1>6, ByDateSorts
  <2> QED BY <1>1, <1>6, <2>1
<1>9. \A i \in DOMAIN s : Upto(S, s[i]) = i
  BY <1>5
<1>8. \A i \in DOMAIN s : ByDate(S)[i] = s[i]
  <2> SUFFICES ASSUME NEW i \in DOMAIN s PROVE ByDate(S)[i] = s[i]
    OBVIOUS
  <2> DEFINE y == ByDate(S)[i]
             z == s[i]
  <2>1. y \in S /\ z \in S /\ Upto(S, y) = i /\ Upto(S, z) = i /\ i \in Nat
    BY <1>1, <1>4, <1>7, <1>9
  <2> HIDE DEF y, z
  <2>2. ~(y < z) /\ ~(z < y)
    BY <1>1, <1>6, <2>1, UptoRanks
  <2>3. y = z
    BY <1>1, <2>1, <2>2
  <2> QED BY <2>3 DEF y, z
<1>10. s = ByDate(S)
  <2>1. s = [i \in 1..Len(s) |-> s[i]]
    OBVIOUS
  <2>2. ByDate(S) = [i \in 1..Len(s) |-> ByDate(S)[i]]
    BY <1>1, <1>7
  <2> QED BY <1>1, <1>8, <2>1, <2>2
<1> QED BY <1>6, <1>10 DEF S

\* Only keeps the elements of a list that are in S, in their order.
LEMMA OnlyKeeps ==
    ASSUME NEW T, NEW s \in Seq(T), NEW S
    PROVE  Only(s, S) \in Seq(T) /\ Elems(Only(s, S)) = Elems(s) \cap S
<1> DEFINE I == {i \in DOMAIN s : s[i] \in S}
<1>1. I \in SUBSET Nat /\ IsFiniteSet(I)
  <2>1. DOMAIN s = 1..Len(s) /\ Len(s) \in Nat
    OBVIOUS
  <2>2. I \in SUBSET (1..Len(s)) /\ IsFiniteSet(1..Len(s))
    BY <2>1, FS_Interval
  <2> QED BY <2>2, FS_Subset
<1>2. /\ ByDate(I) \in Seq(I) /\ DOMAIN ByDate(I) = 1..Cardinality(I) /\ Cardinality(I) \in Nat
      /\ Elems(ByDate(I)) = I
  BY <1>1, ByDateSorts, FS_CardinalityType
<1>3. Only(s, S) = [k \in DOMAIN ByDate(I) |-> s[ByDate(I)[k]]]
  BY DEF Only
<1>4. \A i \in I : i \in DOMAIN s /\ s[i] \in T \cap S
  OBVIOUS
<1>5. \A i \in DOMAIN s : s[i] \in S => i \in I
  OBVIOUS
<1> HIDE DEF I
<1>6. \A k \in DOMAIN ByDate(I) : ByDate(I)[k] \in I
  BY <1>2
<1>7. Only(s, S) \in [1..Cardinality(I) -> T]
  BY <1>2, <1>3, <1>4, <1>6
<1>8. Only(s, S) \in Seq(T) /\ DOMAIN Only(s, S) = DOMAIN ByDate(I)
  BY <1>2, <1>7
<1>9. \A k \in DOMAIN Only(s, S) : Only(s, S)[k] \in Elems(s) \cap S
  BY <1>3, <1>4, <1>6, <1>8 DEF Elems
<1>10. \A m \in Elems(s) \cap S : \E k \in DOMAIN Only(s, S) : Only(s, S)[k] = m
  <2> SUFFICES ASSUME NEW m \in Elems(s) \cap S PROVE \E k \in DOMAIN Only(s, S) : Only(s, S)[k] = m
    OBVIOUS
  <2>1. PICK i \in DOMAIN s : s[i] = m
    BY DEF Elems
  <2>2. i \in Elems(ByDate(I))
    BY <1>2, <1>5, <2>1
  <2>3. PICK k \in DOMAIN ByDate(I) : ByDate(I)[k] = i
    BY <2>2 DEF Elems
  <2> QED BY <1>3, <1>8, <2>1, <2>3
<1> QED BY <1>8, <1>9, <1>10 DEF Elems

PageOf(S, o) == FirstOf(SubSeq(Newest(S), o + 1, Len(Newest(S))), PageLimit)

\* What a page of the numbers of S contains: those that come next, downwards.
LEMMA PageDown ==
    ASSUME NEW S \in SUBSET Nat, IsFiniteSet(S), NEW o \in Nat, NEW page, page = PageOf(S, o)
    PROVE  /\ page \in Seq(S) /\ Len(page) \in Nat /\ Len(page) <= PageLimit
           /\ \A i \in DOMAIN page : Downto(S, page[i]) = o + i
           /\ \A m \in S : o < Downto(S, m) /\ Downto(S, m) <= o + Len(page) => m \in Elems(page)
           /\ Len(page) < PageLimit => \A m \in S : Downto(S, m) <= o + Len(page)
           /\ \A i, j \in DOMAIN page : i < j <=> page[j] < page[i]
<1> DEFINE N == Newest(S)
           c == Cardinality(S)
           rest == SubSeq(N, o + 1, Len(N))
<1>1. /\ N \in Seq(S) /\ DOMAIN N = 1..c /\ Len(N) = c /\ c \in Nat
      /\ \A i \in DOMAIN N : Downto(S, N[i]) = i
      /\ \A x \in S : Downto(S, x) \in DOMAIN N /\ N[Downto(S, x)] = x
  BY NewestSorts, DowntoRanks
<1> HIDE DEF N, c
<1>2. /\ rest \in Seq(S) /\ Len(rest) = (IF o < c THEN c - o ELSE 0)
      /\ \A i \in 1..Len(rest) : rest[i] = N[o + i]
  <2>1. CASE o < c
    <3>1. rest = [i \in 1..(c - o) |-> N[o + i]]
      BY <1>1, <2>1
    <3>2. c - o \in Nat /\ \A i \in 1..(c - o) : o + i \in 1..c
      BY <1>1, <2>1
    <3>3. \A i \in 1..(c - o) : N[o + i] \in S
      BY <1>1, <3>2
    <3> HIDE DEF rest
    <3> QED BY <2>1, <3>1, <3>2, <3>3
  <2>2. CASE ~(o < c)
    <3>1. rest = <<>>
      BY <1>1, <2>2
    <3> HIDE DEF rest
    <3> QED BY <2>2, <3>1
  <2> QED BY <2>1, <2>2
<1> HIDE DEF rest
<1>3. page = FirstOf(rest, PageLimit)
  BY DEF rest, N, PageOf
<1>4. /\ page \in Seq(S) /\ Len(page) = (IF PageLimit < Len(rest) THEN PageLimit ELSE Len(rest))
      /\ \A i \in 1..Len(page) : page[i] = rest[i]
  <2> DEFINE n == IF PageLimit < Len(rest) THEN PageLimit ELSE Len(rest)
  <2>0. Len(rest) \in Nat /\ PageLimit \in Nat /\ DOMAIN rest = 1..Len(rest)
    BY <1>2, TopicAssumption
  <2>1. n \in Nat /\ n <= Len(rest)
    BY <2>0
  <2>3. page = SubSeq(rest, 1, n)
    BY <1>3 DEF FirstOf
  <2> HIDE DEF n
  <2>4. page = [i \in 1..n |-> rest[i]]
    BY <1>2, <2>0, <2>1, <2>3
  <2>5. \A i \in 1..n : rest[i] \in S
    BY <1>2, <2>0, <2>1
  <2>2. page \in Seq(S) /\ Len(page) = n /\ \A i \in 1..n : page[i] = rest[i]
    BY <2>1, <2>4, <2>5
  <2> QED BY <2>2 DEF n
<1>5. /\ Len(page) \in Nat /\ Len(page) <= PageLimit /\ DOMAIN page = 1..Len(page)
      /\ Len(page) <= Len(rest) /\ Len(rest) \in Nat
  BY <1>1, <1>2, <1>4, TopicAssumption
<1>6. \A i \in DOMAIN page : o + i \in 1..c /\ page[i] = N[o + i] /\ page[i] \in S
  BY <1>1, <1>2, <1>4, <1>5
<1>7. \A i \in DOMAIN page : Downto(S, page[i]) = o + i
  BY <1>1, <1>6
<1>8. ASSUME NEW m \in S, o < Downto(S, m), Downto(S, m) <= o + Len(page) PROVE m \in Elems(page)
  <2>1. Downto(S, m) \in Nat
    BY <1>1
  <2>2. PICK i \in DOMAIN page : Downto(S, m) = o + i
    <3>1. Downto(S, m) - o \in 1..Len(page) /\ Downto(S, m) = o + (Downto(S, m) - o)
      BY <1>5, <1>8, <2>1
    <3> QED BY <1>5, <3>1
  <2>3. page[i] = m
    BY <1>1, <1>6, <2>2
  <2> QED BY <2>3 DEF Elems
<1>9. ASSUME Len(page) < PageLimit, NEW m \in S PROVE Downto(S, m) <= o + Len(page)
  <2>1. Downto(S, m) \in 1..c
    BY <1>1
  <2> QED BY <1>1, <1>2, <1>4, <1>9, <2>1, TopicAssumption
<1>10. ASSUME NEW i \in DOMAIN page, NEW j \in DOMAIN page PROVE i < j <=> page[j] < page[i]
  <2>1. /\ page[i] \in S /\ Downto(S, page[i]) = o + i
        /\ page[j] \in S /\ Downto(S, page[j]) = o + j
        /\ i \in Nat /\ j \in Nat
    BY <1>5, <1>6, <1>7
  <2>2. page[j] < page[i] <=> Downto(S, page[i]) < Downto(S, page[j])
    BY <2>1, DowntoRanks
  <2>3. i < j <=> Downto(S, page[i]) < Downto(S, page[j])
    BY <2>1
  <2> QED BY ONLY <2>2, <2>3
<1> QED BY <1>4, <1>5, <1>7, <1>8, <1>9, <1>10

-----------------------------------------------------------------------------
(* The invariant                                                           *)

ScanPlaces      == {"idle", "serve", "prefix", "page", "root", "between", "anchors", "probe", "done", "failed"}
Entries    == [known : Seq(Messages), last : Nat, full : BOOLEAN]
Extractors == [entry : Entries, search : {"untried", "used", "broken"}, replies : {"untried", "used"},
               hit : BOOLEAN, list : Seq(Messages), seen : SUBSET Messages, fresh : SUBSET Messages,
               bounded : BOOLEAN, offset : Nat, before : Nat, first : BOOLEAN]

TopicTypes ==
    /\ arrived \in 0..Latest /\ deleted \in SUBSET Messages /\ blind \in SUBSET Messages
    /\ cache \in Entries /\ slid \in BOOLEAN /\ served \in SUBSET Requests
    /\ pc \in [Requests -> ScanPlaces] /\ want \in [Requests -> {All} \cup (Messages \X Messages)]
    /\ ex \in [Requests -> Extractors] /\ result \in [Requests -> Seq(Messages)]
    /\ there \in [Requests -> SUBSET Messages]

\* What Search finds; what has come of the topic; what a request has to return at least.
Found  == Topic \ (blind \cup {Root})
Come   == InTopic \cap (1..arrived)
Owed(r) == there[r] \ (blind \cup {Root})

\* A list of the cache is of messages that have come, its last one is the last, and one
\* that is complete lacks only newer messages.
Filed(e) == /\ Elems(e.known) \subseteq Come
            /\ IF e.known = <<>> THEN e.last = 0 /\ ~e.full ELSE e.last = e.known[Len(e.known)]
LacksNewer(e) == e.full /\ ~slid => \A m \in Found \ Elems(e.known) : e.last < m
EntryFits(e) == Filed(e) /\ LacksNewer(e)

\* A request that does not scan has nothing of a scan.
Rested(x) == x.seen = {} /\ x.fresh = {} /\ ~x.bounded /\ x.offset = 0 /\ x.before = 0

SpotFits(r) ==
    /\ pc[r] \in {"page", "root"} \/ Rested(ex[r])
    /\ pc[r] \in {"serve", "between", "anchors", "probe"} => want[r] # All
    /\ pc[r] = "prefix" => ex[r].entry.full
    /\ pc[r] \in {"idle", "done", "failed"} \/ there[r] \subseteq Topic
    /\ pc[r] = "idle" => r \notin served /\ there[r] = {}
    /\ want[r] = All => r \notin served /\ (pc[r] = "root" \/ ~ex[r].hit)
    /\ ex[r].search # "broken" => ex[r].before = 0
    /\ Elems(ex[r].list) \subseteq Come /\ Elems(result[r]) \subseteq InTopic
    /\ ex[r].seen \subseteq Come /\ there[r] \subseteq Come /\ ex[r].fresh \subseteq ex[r].seen
    /\ ex[r].bounded => ex[r].entry.full /\ Found \cap Elems(ex[r].entry.known) \subseteq ex[r].seen

\* The pages to come will show m; m is newer than all that the request knows.
Coming(x, m) == IF x.search = "broken" THEN x.before = 0 \/ m < x.before
                ELSE x.offset < Downto(Found, m)
Late(r, m)   == m \notin there[r] /\ \A k \in ex[r].seen \cup Elems(ex[r].entry.known) : k < m

\* While pages are fetched, a message that was not seen will come or is late, and what
\* has to be returned has been seen down to whatever has been fetched.
PageFits(r) ==
    pc[r] = "page" /\ ~slid =>
        /\ \A m \in Found \ ex[r].seen : Coming(ex[r], m) \/ Late(r, m)
        /\ \A f \in ex[r].fresh, m \in Owed(r) \ ex[r].seen : m < f

\* Then nothing is missing that was there.
RootFits(r) ==
    pc[r] = "root" /\ ~slid =>
        IF want[r] = All THEN \A m \in Found \ ex[r].seen : Late(r, m)
        ELSE r \in served \/ Due(r) \subseteq ex[r].seen

ListFits(r) ==
    pc[r] \in {"between", "anchors", "probe"} /\ r \notin served =>
        /\ ex[r].list = ByDate(Elems(ex[r].list))
        /\ ~slid => Due(r) \subseteq Elems(ex[r].list)

DoneFits(r) ==
    ~slid /\ Answered(r) /\ r \notin served =>
        /\ Due(r) \subseteq Elems(result[r])
        /\ Elems(result[r]) \subseteq Within(want[r])
        /\ result[r] = ByDate(Elems(result[r]))

Fits(r) == /\ EntryFits(ex[r].entry) /\ SpotFits(r) /\ PageFits(r) /\ RootFits(r)
           /\ ListFits(r) /\ DoneFits(r)

TopicInv == TopicTypes /\ EntryFits(cache) /\ \A r \in Requests : Fits(r)

LEMMA TopicConstants ==
    /\ Latest \in Nat \ {0} /\ PageLimit \in Nat \ {0} /\ Messages \in SUBSET Nat /\ IsFiniteSet(Messages)
    /\ Root \in Messages /\ Root = 1 /\ InTopic \in SUBSET Messages /\ Root \in InTopic /\ 0 \notin Messages
    /\ Present \in 0..Latest /\ Wants \subseteq {All} \cup (Messages \X Messages)
<1>1. Latest \in Nat \ {0} /\ PageLimit \in Nat \ {0} /\ Present \in 0..Latest
  BY TopicAssumption
<1>2. IsFiniteSet(Messages)
  BY <1>1, OneUpTo DEF Messages
<1> QED BY <1>1, <1>2, TopicAssumption DEF Messages, InTopic, Root

\* A set of messages is a finite set of numbers.
LEMMA FewMessages == ASSUME NEW S \in SUBSET Messages PROVE S \in SUBSET Nat /\ IsFiniteSet(S)
BY TopicConstants, FS_Subset

LEMMA ByDateOfMessages ==
    ASSUME NEW S \in SUBSET Messages
    PROVE  /\ ByDate(S) \in Seq(Messages) /\ Elems(ByDate(S)) = S /\ ByDate(Elems(ByDate(S))) = ByDate(S)
           /\ ByDate(S) = <<>> <=> S = {}
<1>1. S \in SUBSET Nat /\ IsFiniteSet(S)
  BY FewMessages
<1>2. ByDate(S) \in Seq(S) /\ Elems(ByDate(S)) = S
  BY <1>1, ByDateSorts
<1>3. ByDate(S) = <<>> => S = {}
  BY <1>2 DEF Elems
<1>4. S = {} => ByDate(S) = <<>>
  BY <1>2
<1> QED BY <1>2, <1>3, <1>4

LEMMA ElemsOf == ASSUME NEW T, NEW s \in Seq(T) PROVE Elems(s) \subseteq T /\ Len(s) \in Nat /\ DOMAIN s = 1..Len(s)
BY DEF Elems

\* What Merged makes of an entry.
LEMMA MergedFits ==
    ASSUME NEW e \in Entries, NEW found \in Seq(Messages), NEW full \in BOOLEAN,
           Filed(e), Elems(found) \subseteq Come
    PROVE  /\ Merged(e, found, full) \in Entries /\ Filed(Merged(e, found, full))
           /\ Elems(Merged(e, found, full).known) = Elems(e.known) \cup Elems(found)
           /\ found # <<>> => Merged(e, found, full).full = full
           /\ found # <<>> => Merged(e, found, full).last \in Elems(e.known) \cup Elems(found)
           /\ found = <<>> => Merged(e, found, full) = e
<1>1. CASE found = <<>>
  <2>1. Elems(found) = {} /\ Merged(e, found, full) = e
    BY <1>1 DEF Elems, Merged
  <2> QED BY <1>1, <2>1
<1>2. CASE found # <<>>
  <2> DEFINE rest == Only(found, Messages \ Elems(e.known))
             known == e.known \o rest
  <2>1. e.known \in Seq(Messages) /\ Elems(found) \subseteq Messages
    BY ElemsOf DEF Entries
  <2>2. rest \in Seq(Messages) /\ Elems(rest) = Elems(found) \ Elems(e.known)
    BY <2>1, OnlyKeeps
  <2>3. Merged(e, found, full) = [known |-> known, last |-> known[Len(known)], full |-> full]
    BY <1>2 DEF Merged
  <2> HIDE DEF rest
  <2>4. /\ known \in Seq(Messages) /\ Len(known) = Len(e.known) + Len(rest)
        /\ \A i \in 1..Len(e.known) : known[i] = e.known[i]
        /\ \A j \in DOMAIN rest : known[Len(e.known) + j] = rest[j]
    BY <2>1, <2>2
  <2> HIDE DEF known
  <2>5. Elems(known) = Elems(e.known) \cup Elems(rest)
    <3>1. /\ Len(e.known) \in Nat /\ Len(rest) \in Nat /\ DOMAIN e.known = 1..Len(e.known)
          /\ DOMAIN rest = 1..Len(rest) /\ DOMAIN known = 1..(Len(e.known) + Len(rest))
      BY <2>1, <2>2, <2>4
    <3>2. \A i \in DOMAIN known : \/ i \in DOMAIN e.known
                                  \/ \E j \in DOMAIN rest : i = Len(e.known) + j
      <4> SUFFICES ASSUME NEW i \in DOMAIN known, i \notin DOMAIN e.known
                   PROVE  \E j \in DOMAIN rest : i = Len(e.known) + j
        OBVIOUS
      <4>1. i - Len(e.known) \in 1..Len(rest) /\ i = Len(e.known) + (i - Len(e.known))
        BY <3>1
      <4> QED BY <3>1, <4>1
    <3>3. \A i \in DOMAIN e.known : i \in DOMAIN known
      BY <3>1
    <3>4. \A j \in DOMAIN rest : Len(e.known) + j \in DOMAIN known
      BY <3>1
    <3>8. \A j \in DOMAIN rest : known[Len(e.known) + j] = rest[j]
      BY <2>4
    <3>5. \A i \in DOMAIN known : known[i] \in Elems(e.known) \cup Elems(rest)
      <4> SUFFICES ASSUME NEW i \in DOMAIN known PROVE known[i] \in Elems(e.known) \cup Elems(rest)
        OBVIOUS
      <4>1. CASE i \in DOMAIN e.known
        BY <2>4, <3>1, <4>1 DEF Elems
      <4>2. ASSUME NEW j \in DOMAIN rest, i = Len(e.known) + j PROVE known[i] \in Elems(rest)
        <5>1. known[i] = rest[j]
          BY <3>8, <4>2
        <5> QED BY <4>2, <5>1 DEF Elems
      <4> QED BY <3>2, <4>1, <4>2
    <3>6. \A i \in DOMAIN e.known : e.known[i] \in Elems(known)
      BY <2>4, <3>1, <3>3 DEF Elems
    <3>7. \A j \in DOMAIN rest : rest[j] \in Elems(known)
      <4> SUFFICES ASSUME NEW j \in DOMAIN rest PROVE rest[j] \in Elems(known)
        OBVIOUS
      <4>1. known[Len(e.known) + j] = rest[j]
        BY <3>8
      <4>2. Len(e.known) + j \in DOMAIN known
        BY <3>4
      <4> QED BY <4>1, <4>2 DEF Elems
    <3> QED BY <3>5, <3>6, <3>7 DEF Elems
  <2>6. known # <<>> /\ known[Len(known)] \in Elems(known)
    <3>1. 1 \in DOMAIN found
      BY <1>2
    <3>2. found[1] \in Elems(known)
      BY <2>2, <2>5, <3>1 DEF Elems
    <3>3. known # <<>>
      BY <3>2 DEF Elems
    <3>4. Len(known) \in DOMAIN known
      BY <2>4, <3>3
    <3> QED BY <3>3, <3>4 DEF Elems
  <2>7. known[Len(known)] \in Nat
    BY <2>4, <2>6, ElemsOf, TopicConstants
  <2>8. Elems(known) = Elems(e.known) \cup Elems(found)
    BY <2>2, <2>5
  <2>9. Merged(e, found, full) \in Entries
    BY <2>3, <2>4, <2>7 DEF Entries
  <2>10. /\ Merged(e, found, full).known = known /\ Merged(e, found, full).full = full
         /\ Merged(e, found, full).last = known[Len(known)]
    BY <2>3
  <2>11. Filed(Merged(e, found, full))
    BY <2>6, <2>8, <2>10 DEF Filed
  <2> QED BY <1>2, <2>6, <2>8, <2>9, <2>10, <2>11
<1> QED BY <1>1, <1>2

\* The part of a page in front of the last message of the cache.
LEMMA BoundaryCuts ==
    ASSUME NEW x \in Extractors, NEW page \in Seq(Messages),
           \A i, j \in DOMAIN page : i < j <=> page[j] < page[i]
    PROVE  /\ UpToBoundary(x, page) \in Seq(Messages)
           /\ Elems(UpToBoundary(x, page)) \subseteq Elems(page)
           /\ UpToBoundary(x, page) # page => x.bounded /\ x.entry.last \in Elems(page)
           /\ \A m \in Elems(page) : m \in Elems(UpToBoundary(x, page)) \/ (x.bounded /\ m <= x.entry.last)
<1>1. CASE ~(x.bounded /\ \E i \in DOMAIN page : page[i] = x.entry.last)
  <2>1. UpToBoundary(x, page) = page
    BY <1>1 DEF UpToBoundary
  <2> QED BY <2>1
<1>2. CASE x.bounded /\ \E i \in DOMAIN page : page[i] = x.entry.last
  <2> DEFINE k == CHOOSE i \in DOMAIN page : page[i] = x.entry.last
  <2>1. k \in DOMAIN page /\ page[k] = x.entry.last
    BY <1>2
  <2>2. UpToBoundary(x, page) = SubSeq(page, 1, k - 1)
    BY <1>2 DEF UpToBoundary
  <2> HIDE DEF k
  <2>3. k \in 1..Len(page) /\ Len(page) \in Nat /\ DOMAIN page = 1..Len(page)
    BY <2>1
  <2>4. SubSeq(page, 1, k - 1) = [i \in 1..(k - 1) |-> page[i]]
    BY <2>3
  <2>5. /\ UpToBoundary(x, page) \in Seq(Messages) /\ DOMAIN UpToBoundary(x, page) = 1..(k - 1)
        /\ \A i \in 1..(k - 1) : UpToBoundary(x, page)[i] = page[i] /\ i \in DOMAIN page
    <3>1. \A i \in 1..(k - 1) : i \in DOMAIN page /\ page[i] \in Messages
      BY <2>3
    <3>2. k - 1 \in Nat
      BY <2>3
    <3> QED BY <2>2, <2>4, <3>1, <3>2
  <2>6. Elems(UpToBoundary(x, page)) \subseteq Elems(page)
    BY <2>5 DEF Elems
  <2>7. ASSUME NEW m \in Elems(page), m \notin Elems(UpToBoundary(x, page)) PROVE m <= x.entry.last
    <3>1. PICK i \in DOMAIN page : page[i] = m
      BY DEF Elems
    <3>2. i \notin 1..(k - 1)
      BY <2>5, <2>7, <3>1 DEF Elems
    <3>3. ~(i < k)
      BY <2>3, <3>2
    <3>4. page[i] \in Nat /\ page[k] \in Nat
      <4>1. page[i] \in Messages /\ page[k] \in Messages
        BY <2>1, <3>1
      <4> QED BY <4>1, TopicConstants
    <3>5. ~(page[k] < page[i])
      BY <2>1, <3>3
    <3> QED BY <2>1, <3>1, <3>4, <3>5
  <2> QED BY <1>2, <2>1, <2>5, <2>6, <2>7 DEF Elems
<1> QED BY <1>1, <1>2

-----------------------------------------------------------------------------
(* The chat                                                                *)

LEMMA ChatPlaces ==
    ASSUME arrived \in 0..Latest
    PROVE  Found \subseteq Topic /\ Topic \subseteq Come /\ Come \subseteq Messages /\ Root \notin Found
           /\ Found \in SUBSET Nat /\ IsFiniteSet(Found) /\ \A m \in Come : m <= arrived /\ m \in Nat
<1>1. arrived \in Nat /\ Latest \in Nat /\ arrived <= Latest
  BY TopicConstants
<1>2. Found \subseteq Topic /\ Topic \subseteq Come /\ Root \notin Found
  BY DEF Found, Topic, Come, Existing
<1>3. Come \subseteq Messages /\ \A m \in Come : m <= arrived /\ m \in Nat
  BY <1>1, TopicConstants DEF Come
<1>4. Found \in SUBSET Messages
  BY <1>2, <1>3
<1> QED BY <1>2, <1>3, <1>4, FewMessages

\* A set is at most as large as one that contains it, down to any message.
LEMMA DowntoGrows ==
    ASSUME NEW S, NEW T \in SUBSET Nat, S \subseteq T, IsFiniteSet(T), NEW m
    PROVE  Downto(S, m) \in Nat /\ Downto(T, m) \in Nat /\ Downto(S, m) <= Downto(T, m)
<1> DEFINE A == {k \in S : k >= m}
           B == {k \in T : k >= m}
<1>1. A \in SUBSET B /\ B \in SUBSET T
  OBVIOUS
<1>2. IsFiniteSet(B)
  BY <1>1, FS_Subset
<1>3. IsFiniteSet(A) /\ Cardinality(A) <= Cardinality(B)
  BY <1>1, <1>2, FS_Subset
<1> QED BY <1>2, <1>3, FS_CardinalityType DEF Downto

\* A complete list ends with one of its messages.
LEMMA LastOfComplete ==
    ASSUME NEW e \in Entries, Filed(e), e.full
    PROVE  e.last \in Elems(e.known)
<1>1. e.known # <<>> /\ e.last = e.known[Len(e.known)] /\ e.known \in Seq(Messages)
  BY DEF Filed, Entries
<1>2. Len(e.known) \in DOMAIN e.known
  BY <1>1
<1> QED BY <1>1, <1>2 DEF Elems

LEMMA ArriveFits ==
    ASSUME TopicInv, Arrive
    PROVE  TopicInv'
<1> DEFINE n == arrived + 1
<1>1. /\ arrived' = n /\ arrived < Latest /\ UNCHANGED <<deleted, blind, cache, pc, want, ex, result, historyVars>>
      /\ TopicTypes
  BY DEF Arrive, TopicInv
<1>2. TopicTypes' /\ arrived \in 0..Latest /\ arrived' \in 0..Latest
  <2>1. arrived \in 0..Latest /\ arrived' \in 0..Latest
    BY <1>1, TopicConstants DEF TopicTypes
  <2> QED BY <1>1, <2>1 DEF TopicTypes, historyVars
<1>3. /\ Come \subseteq Come' /\ \A m \in Come : m < n /\ m \in Nat
      /\ Found \subseteq Found' /\ \A m \in Found' : m \in Found \/ m = n
      /\ Topic \subseteq Topic' /\ n \notin Come /\ n \in Nat
  <2>1. arrived \in Nat
    BY <1>1, TopicConstants DEF TopicTypes
  <2>2. 1..arrived \subseteq 1..arrived' /\ \A m \in 1..arrived' : m \in 1..arrived \/ m = n
    BY <1>1, <2>1
  <2>3. Come \subseteq Come' /\ Topic \subseteq Topic' /\ Found \subseteq Found'
        /\ \A m \in Found' : m \in Found \/ m = n
    BY <1>1, <2>2 DEF Come, Topic, Found, Existing
  <2>4. \A m \in Come : m < n /\ m \in Nat
    <3>1. \A m \in Come : m <= arrived /\ m \in Nat
      BY <1>2, ChatPlaces
    <3> QED BY <2>1, <3>1
  <2>5. n \notin Come /\ n \in Nat
    BY <2>1, <2>4
  <2> QED BY <2>3, <2>4, <2>5
<1>7. Found' \in SUBSET Nat /\ IsFiniteSet(Found')
  <2>1. Found' \in SUBSET Messages
    BY <1>1, <1>2, TopicConstants DEF Found, Topic, Existing, InTopic, Messages
  <2> QED BY <2>1, FewMessages
<1> HIDE DEF n
<1>4. ASSUME NEW e \in Entries, EntryFits(e) PROVE EntryFits(e)'
  <2>1. Filed(e)'
    BY <1>3, <1>4 DEF EntryFits, Filed
  <2>2. ASSUME e.full, ~slid, NEW m \in Found' \ Elems(e.known) PROVE e.last < m
    <3>1. CASE m \in Found
      BY <1>4, <2>2, <3>1 DEF EntryFits, LacksNewer
    <3>2. CASE m = n
      <4>1. e.last \in Come
        BY <1>4, <2>2, LastOfComplete DEF EntryFits, Filed
      <4> QED BY <1>3, <3>2, <4>1
    <3> QED BY <1>3, <2>2, <3>1, <3>2
  <2>3. LacksNewer(e)'
    BY <1>1, <2>2 DEF LacksNewer, historyVars
  <2> QED BY <2>1, <2>3 DEF EntryFits
<1>5. ASSUME NEW r \in Requests PROVE Fits(r)'
  <2>0. PICK x \in Extractors : x = ex[r]
    BY <1>1 DEF TopicTypes
  <2>1. /\ Fits(r) /\ x.entry \in Entries /\ ex[r] = x
        /\ ex'[r] = x /\ pc'[r] = pc[r] /\ want'[r] = want[r] /\ there'[r] = there[r]
        /\ result'[r] = result[r] /\ served' = served /\ slid' = slid /\ blind' = blind
    BY <1>1, <2>0 DEF TopicInv, TopicTypes, Extractors, historyVars
  <2>2. EntryFits(x.entry)'
    BY <1>4, <2>1 DEF Fits
  <2>3. EntryFits(ex[r].entry)'
    BY <2>1, <2>2 DEF EntryFits, Filed, LacksNewer
  <2>4. Elems(x.entry.known) \subseteq Come /\ x.seen \subseteq Come /\ there[r] \subseteq Come
    BY <2>1 DEF Fits, EntryFits, Filed, SpotFits
  <2>5. SpotFits(r)'
    <3>1. x.bounded => Found' \cap Elems(x.entry.known) \subseteq x.seen
      BY <1>3, <2>1, <2>4 DEF Fits, SpotFits
    <3>2. pc[r] \in {"idle", "done", "failed"} \/ there[r] \subseteq Topic'
      BY <1>3, <2>1 DEF Fits, SpotFits
    <3>3. x.seen \subseteq Come' /\ there[r] \subseteq Come' /\ Elems(x.list) \subseteq Come'
      BY <1>3, <2>1, <2>4 DEF Fits, SpotFits
    <3> QED BY <2>1, <3>1, <3>2, <3>3 DEF Fits, SpotFits, Rested
  <2>6. ASSUME pc[r] = "page", ~slid, NEW m \in Found' \ x.seen PROVE Coming(x, m)' \/ Late(r, m)
    <3>1. CASE m \in Found
      <4>1. Downto(Found, m) <= Downto(Found', m) /\ Downto(Found, m) \in Nat /\ Downto(Found', m) \in Nat
        BY <1>3, <1>7, DowntoGrows
      <4>2. Coming(x, m) \/ Late(r, m)
        BY <2>1, <2>6, <3>1 DEF Fits, PageFits
      <4>3. x.offset \in Nat
        BY DEF Extractors
      <4>4. Coming(x, m) => Coming(x, m)'
        BY <4>1, <4>3 DEF Coming
      <4> QED BY <4>2, <4>4
    <3>2. CASE m = n
      BY <1>3, <2>1, <2>4, <3>2 DEF Late
    <3> QED BY <1>3, <2>6, <3>1, <3>2
  <2>7. PageFits(r)'
    <3>1. ASSUME NEW m PROVE Late(r, m) => Late(r, m)'
      BY <2>1 DEF Late
    <3>2. ASSUME NEW m PROVE Coming(x, m)' => Coming(ex[r], m)'
      BY <2>1 DEF Coming
    <3>3. pc[r] = "page" /\ ~slid => \A f \in x.fresh, m \in Owed(r)' \ x.seen : m < f
      BY <2>1 DEF Fits, PageFits, Owed
    <3>4. pc[r] = "page" /\ ~slid => \A m \in Found' \ x.seen : Coming(ex[r], m)' \/ Late(r, m)'
      BY <2>6, <3>1, <3>2
    <3> QED BY <2>1, <3>3, <3>4 DEF PageFits
  <2>8. RootFits(r)'
    <3>1. ASSUME pc[r] = "root", ~slid, want[r] = All, NEW m \in Found' \ x.seen PROVE Late(r, m)
      <4>1. CASE m \in Found
        BY <2>1, <3>1, <4>1 DEF Fits, RootFits
      <4>2. CASE m = n
        BY <1>3, <2>1, <2>4, <4>2 DEF Late
      <4> QED BY <1>3, <3>1, <4>1, <4>2
    <3>2. ASSUME NEW m PROVE Late(r, m) => Late(r, m)'
      BY <2>1 DEF Late
    <3>3. Due(r)' = Due(r)
      BY <2>1 DEF Due, Within
    <3>4. pc[r] = "root" /\ ~slid /\ want[r] = All => \A m \in Found' \ x.seen : Late(r, m)'
      BY <3>1, <3>2
    <3> QED BY <2>1, <3>3, <3>4 DEF Fits, RootFits
  <2>9. ListFits(r)' /\ DoneFits(r)'
    <3>1. Due(r)' = Due(r) /\ Within(want[r])' = Within(want[r]) /\ (Answered(r)' <=> Answered(r))
      BY <2>1 DEF Due, Within, Answered, At
    <3> QED BY <2>1, <3>1 DEF Fits, ListFits, DoneFits
  <2> QED BY <2>3, <2>5, <2>7, <2>8, <2>9 DEF Fits
<1>6. EntryFits(cache)'
  <2>0. PICK e \in Entries : e = cache
    BY <1>1 DEF TopicTypes
  <2>1. EntryFits(e) /\ cache' = e
    BY <1>1, <2>0 DEF TopicInv, TopicTypes
  <2>2. EntryFits(e)'
    BY <1>4, <2>1
  <2> QED BY <2>1, <2>2 DEF EntryFits, Filed, LacksNewer
<1> QED BY <1>2, <1>5, <1>6 DEF TopicInv

LEMMA DeleteFits ==
    ASSUME TopicInv, NEW d \in Messages, Delete(d)
    PROVE  TopicInv'
<1>1. /\ deleted' = deleted \cup {d} /\ UNCHANGED <<arrived, blind, cache, pc, want, ex, result, served>>
      /\ there' = [r \in Requests |-> IF Active(r) THEN there[r] \ {d} ELSE there[r]]
      /\ slid' = (slid \/ \E r \in Requests : At(r, "page") /\ ex[r].offset > 0)
      /\ TopicTypes
  BY DEF Delete, TopicInv
<1>2. TopicTypes' /\ arrived \in 0..Latest /\ slid \in BOOLEAN /\ slid' \in BOOLEAN
  <2>1. deleted' \in SUBSET Messages
    BY <1>1 DEF TopicTypes
  <2>2. slid' \in BOOLEAN /\ slid \in BOOLEAN
    BY <1>1 DEF TopicTypes
  <2>3. there' \in [Requests -> SUBSET Messages]
    BY <1>1 DEF TopicTypes
  <2> QED BY <1>1, <2>1, <2>2, <2>3 DEF TopicTypes
<1>3. /\ Come' = Come /\ Found' \subseteq Found /\ \A m \in Topic : m # d => m \in Topic'
      /\ Topic' \subseteq Topic
  BY <1>1 DEF Come, Topic, Found, Existing
<1>7. Found' \in SUBSET Nat /\ IsFiniteSet(Found')
  <2>1. Found \in SUBSET Nat /\ IsFiniteSet(Found)
    BY <1>2, ChatPlaces
  <2> QED BY <1>3, <2>1, FS_Subset
<1>8. ~slid' => ~slid /\ \A r \in Requests : pc[r] = "page" => ~(ex[r].offset > 0)
  BY <1>1, <1>2 DEF At
<1>4. ASSUME NEW e \in Entries, EntryFits(e) PROVE EntryFits(e)'
  <2>1. Filed(e)'
    BY <1>3, <1>4 DEF EntryFits, Filed
  <2>2. LacksNewer(e)'
    BY <1>3, <1>4, <1>8 DEF EntryFits, LacksNewer
  <2> QED BY <2>1, <2>2 DEF EntryFits
<1>5. ASSUME NEW r \in Requests PROVE Fits(r)'
  <2>0. PICK x \in Extractors : x = ex[r]
    BY <1>1 DEF TopicTypes
  <2>1. /\ Fits(r) /\ x.entry \in Entries /\ ex[r] = x
        /\ ex'[r] = x /\ pc'[r] = pc[r] /\ want'[r] = want[r]
        /\ result'[r] = result[r] /\ served' = served /\ blind' = blind
    BY <1>1, <2>0 DEF TopicInv, TopicTypes, Extractors
  <2>2. /\ there'[r] \subseteq there[r]
        /\ pc[r] \in {"idle", "done", "failed"} \/ d \notin there'[r]
    BY <1>1 DEF Active
  <2>3. EntryFits(ex[r].entry)'
    <3>1. EntryFits(x.entry)'
      BY <1>4, <2>1 DEF Fits
    <3> QED BY <2>1, <3>1 DEF EntryFits, Filed, LacksNewer
  <2>5. SpotFits(r)'
    <3>1. x.bounded => Found' \cap Elems(x.entry.known) \subseteq x.seen
      BY <1>3, <2>1 DEF Fits, SpotFits
    <3>2. pc[r] \in {"idle", "done", "failed"} \/ there'[r] \subseteq Topic'
      BY <1>3, <2>1, <2>2 DEF Fits, SpotFits
    <3>3. pc[r] = "idle" => there'[r] = {}
      BY <2>1, <2>2 DEF Fits, SpotFits
    <3>4. x.seen \subseteq Come' /\ there'[r] \subseteq Come' /\ Elems(x.list) \subseteq Come'
      BY <1>3, <2>1, <2>2 DEF Fits, SpotFits
    <3> QED BY <2>1, <3>1, <3>2, <3>3, <3>4 DEF Fits, SpotFits, Rested
  <2>6. ASSUME NEW m PROVE Late(r, m) => Late(r, m)'
    BY <2>1, <2>2 DEF Late
  <2>10. Owed(r)' \subseteq Owed(r) /\ Due(r)' \subseteq Due(r) /\ (Answered(r)' <=> Answered(r))
         /\ Within(want[r])' = Within(want[r])
    <3>1. Owed(r)' \subseteq Owed(r)
      BY <2>1, <2>2 DEF Owed
    <3>2. Due(r)' \subseteq Due(r)
      BY <2>1, <2>2 DEF Due, Within
    <3>3. (Answered(r)' <=> Answered(r)) /\ Within(want[r])' = Within(want[r])
      BY <2>1 DEF Answered, At, Within
    <3> QED BY <3>1, <3>2, <3>3
  <2>7. PageFits(r)'
    <3>1. ASSUME pc[r] = "page", ~slid', NEW m \in Found' \ x.seen PROVE Coming(ex[r], m)' \/ Late(r, m)'
      <4>1. CASE Late(r, m)
        BY <2>6, <4>1
      <4>2. CASE Coming(x, m)
        <5>1. CASE x.search = "broken"
          BY <2>1, <4>2, <5>1 DEF Coming
        <5>2. CASE x.search # "broken"
          <6>1. m \in Found' /\ ~(x.offset > 0) /\ x.offset \in Nat
            BY <1>8, <2>1, <3>1 DEF Extractors
          <6>2. Downto(Found', m) \in 1..Cardinality(Found') /\ Cardinality(Found') \in Nat
            BY <1>7, <6>1, DowntoRanks
          <6>3. x.offset < Downto(Found', m)
            BY <6>1, <6>2
          <6> QED BY <2>1, <5>2, <6>3 DEF Coming
        <5> QED BY <5>1, <5>2
      <4> QED BY <1>3, <1>8, <2>1, <3>1, <4>1, <4>2 DEF Fits, PageFits
    <3>2. pc[r] = "page" /\ ~slid' => \A f \in x.fresh, m \in Owed(r)' \ x.seen : m < f
      BY <1>8, <2>1, <2>10 DEF Fits, PageFits
    <3> QED BY <2>1, <3>1, <3>2 DEF PageFits
  <2>8. RootFits(r)'
    <3>1. ASSUME pc[r] = "root", ~slid', want[r] = All, NEW m \in Found' \ x.seen PROVE Late(r, m)'
      BY <1>3, <1>8, <2>1, <2>6, <3>1 DEF Fits, RootFits
    <3>2. pc[r] = "root" /\ ~slid' /\ want[r] # All => r \in served \/ Due(r)' \subseteq x.seen
      BY <1>8, <2>1, <2>10 DEF Fits, RootFits
    <3> QED BY <2>1, <3>1, <3>2 DEF RootFits
  <2>9. ListFits(r)' /\ DoneFits(r)'
    BY <1>8, <2>1, <2>10 DEF Fits, ListFits, DoneFits
  <2> QED BY <2>3, <2>5, <2>7, <2>8, <2>9 DEF Fits
<1>6. EntryFits(cache)'
  <2>0. PICK e \in Entries : e = cache
    BY <1>1 DEF TopicTypes
  <2>1. EntryFits(e) /\ cache' = e
    BY <1>1, <2>0 DEF TopicInv, TopicTypes
  <2>2. EntryFits(e)'
    BY <1>4, <2>1
  <2> QED BY <2>1, <2>2 DEF EntryFits, Filed, LacksNewer
<1> QED BY <1>2, <1>5, <1>6 DEF TopicInv

\* What a step of one request leaves to the others.
LEMMA OthersFit ==
    ASSUME NEW r \in Requests, Fits(r), chatVars' = chatVars, slid' = slid,
           pc'[r] = pc[r], want'[r] = want[r], ex'[r] = ex[r], result'[r] = result[r], there'[r] = there[r],
           r \in served' <=> r \in served
    PROVE  Fits(r)'
<1>1. Found' = Found /\ Come' = Come /\ Topic' = Topic /\ blind' = blind
  BY DEF chatVars, Found, Come, Topic, Existing
<1>2. EntryFits(ex[r].entry)'
  BY <1>1 DEF Fits, EntryFits, Filed, LacksNewer
<1>3. SpotFits(r)'
  BY <1>1 DEF Fits, SpotFits, Rested
<1>4. PageFits(r)'
  BY <1>1 DEF Fits, PageFits, Coming, Late, Owed
<1>5. RootFits(r)'
  BY <1>1 DEF Fits, RootFits, Late, Due, Within
<1>6. ListFits(r)' /\ DoneFits(r)'
  BY <1>1 DEF Fits, ListFits, DoneFits, Due, Within, Answered, At
<1> QED BY <1>2, <1>3, <1>4, <1>5, <1>6 DEF Fits

-----------------------------------------------------------------------------
(* The steps of a request                                                  *)

\* An entry remains right as long as the chat does not change.
LEMMA EntryStays ==
    ASSUME NEW e, EntryFits(e), chatVars' = chatVars, slid' = slid
    PROVE  EntryFits(e)'
<1>1. Found' = Found /\ Come' = Come
  BY DEF chatVars, Found, Come, Topic, Existing
<1> QED BY <1>1 DEF EntryFits, Filed, LacksNewer

\* A step of one request keeps the invariant if it is right for that request and the cache.
LEMMA RequestFits ==
    ASSUME TopicInv, NEW r \in Requests, chatVars' = chatVars, slid' = slid, TopicTypes',
           NEW p, NEW w, NEW x, NEW s, NEW t,
           pc' = [pc EXCEPT ![r] = p], want' = [want EXCEPT ![r] = w], ex' = [ex EXCEPT ![r] = x],
           result' = [result EXCEPT ![r] = s], there' = [there EXCEPT ![r] = t],
           served' \ {r} = served \ {r},
           NEW c, cache' = c, EntryFits(c), Fits(r)'
    PROVE  TopicInv'
<1>1. ASSUME NEW q \in Requests, q # r PROVE Fits(q)'
  <2>1. /\ pc'[q] = pc[q] /\ want'[q] = want[q] /\ ex'[q] = ex[q] /\ result'[q] = result[q]
        /\ there'[q] = there[q] /\ (q \in served' <=> q \in served)
    BY <1>1 DEF TopicInv, TopicTypes
  <2>2. Fits(q)
    BY DEF TopicInv
  <2> QED BY <2>1, <2>2, OthersFit
<1>2. EntryFits(cache)'
  <2>1. EntryFits(c)'
    BY EntryStays
  <2> QED BY <2>1 DEF EntryFits, Filed, LacksNewer
<1> QED BY <1>1, <1>2 DEF TopicInv

\* A scan that begins has every message that Search finds before it.
LEMMA AllComing ==
    ASSUME arrived \in 0..Latest, NEW x, Rested(x)
    PROVE  \A m \in Found : Coming(x, m)
<1>1. Found \in SUBSET Nat /\ IsFiniteSet(Found)
  BY ChatPlaces
<1>2. ASSUME NEW m \in Found PROVE 0 < Downto(Found, m)
  <2>1. Downto(Found, m) \in 1..Cardinality(Found) /\ Cardinality(Found) \in Nat
    BY <1>1, DowntoRanks
  <2> QED BY <2>1
<1> QED BY <1>2 DEF Rested, Coming

LEMMA NoEntryFits == NoEntry \in Entries /\ EntryFits(NoEntry) /\ Elems(NoEntry.known) = {}
<1>1. NoEntry.known = <<>> /\ NoEntry.last = 0 /\ NoEntry.full = FALSE
  BY DEF NoEntry
<1>2. Elems(NoEntry.known) = {}
  BY <1>1 DEF Elems
<1>3. NoEntry \in Entries
  BY DEF NoEntry, Entries
<1> QED BY <1>1, <1>2, <1>3 DEF EntryFits, Filed, LacksNewer

LEMMA NewExtractorIs ==
    ASSUME NEW e \in Entries
    PROVE  /\ NewExtractor(e) \in Extractors /\ Rested(NewExtractor(e)) /\ NewExtractor(e).entry = e
           /\ NewExtractor(e).list = <<>> /\ ~NewExtractor(e).hit /\ Elems(NewExtractor(e).list) = {}
BY DEF NewExtractor, Extractors, Rested, Elems

\* A request that has ended well, or not.
LEMMA EndFits ==
    ASSUME TopicInv, NEW r \in Requests, NEW place \in {"done", "failed"}, NEW s \in Seq(Messages),
           Elems(s) \subseteq InTopic, End(r, place, s),
           chatVars' = chatVars, UNCHANGED <<want, historyVars>>, pc[r] # "idle",
           NEW c \in Entries, cache' = c, EntryFits(c),
           place = "done" /\ ~slid /\ Anchors(want[r]) \subseteq Elems(s) /\ r \notin served =>
               /\ Due(r) \subseteq Elems(s) /\ Elems(s) \subseteq Within(want[r]) /\ s = ByDate(Elems(s))
    PROVE  TopicInv'
<1> DEFINE y == NewExtractor(NoEntry)
<1>1. TopicTypes /\ Fits(r)
  BY DEF TopicInv
<1>2. y \in Extractors /\ Rested(y) /\ y.entry = NoEntry /\ ~y.hit /\ Elems(y.list) = {} /\ EntryFits(NoEntry)
  BY NoEntryFits, NewExtractorIs
<1> HIDE DEF y
<1>3. /\ pc' = [pc EXCEPT ![r] = place] /\ ex' = [ex EXCEPT ![r] = y] /\ result' = [result EXCEPT ![r] = s]
      /\ want' = want /\ there' = there /\ slid' = slid /\ served' = served
  BY DEF End, Goto, Put, y, historyVars
<1>4. TopicTypes'
  BY <1>1, <1>2, <1>3 DEF TopicTypes, chatVars, ScanPlaces
<1>5. /\ pc'[r] = place /\ ex'[r] = y /\ result'[r] = s /\ want'[r] = want[r] /\ there'[r] = there[r]
  BY <1>1, <1>3 DEF TopicTypes
<1>6. Found' = Found /\ Come' = Come /\ Topic' = Topic /\ blind' = blind
  BY DEF chatVars, Found, Come, Topic, Existing
<1>7. Fits(r)'
  <2>1. EntryFits(ex[r].entry)'
    <3>1. EntryFits(NoEntry)'
      BY <1>2, <1>3, EntryStays
    <3> QED BY <1>2, <1>5, <3>1 DEF EntryFits, Filed, LacksNewer
  <2>2. SpotFits(r)'
    <3>1. want[r] = All => r \notin served
      BY <1>1 DEF Fits, SpotFits
    <3>2. there[r] \subseteq Come
      BY <1>1 DEF Fits, SpotFits
    <3> QED BY <1>2, <1>3, <1>5, <1>6, <3>1, <3>2 DEF SpotFits, Rested
  <2>3. PageFits(r)' /\ RootFits(r)' /\ ListFits(r)'
    BY <1>5 DEF PageFits, RootFits, ListFits
  <2>4. DoneFits(r)'
    <3>1. Due(r)' = Due(r) /\ Within(want[r])' = Within(want[r])
      BY <1>5, <1>6 DEF Due, Within
    <3>2. Answered(r)' => place = "done" /\ Anchors(want[r]) \subseteq Elems(s)
      BY <1>5 DEF Answered, At
    <3> QED BY <1>3, <1>5, <3>1, <3>2 DEF DoneFits
  <2> QED BY <2>1, <2>2, <2>3, <2>4 DEF Fits
<1>8. PICK w, t : want' = [want EXCEPT ![r] = w] /\ there' = [there EXCEPT ![r] = t]
  <2>1. want = [want EXCEPT ![r] = want[r]] /\ there = [there EXCEPT ![r] = there[r]]
    BY <1>1 DEF TopicTypes
  <2> QED BY <1>3, <2>1
<1> QED BY <1>3, <1>4, <1>7, <1>8, RequestFits

LEMMA FailsFits ==
    ASSUME TopicInv, NEW r \in Requests, Fails(r)
    PROVE  TopicInv'
<1>1. /\ End(r, "failed", <<>>) /\ chatVars' = chatVars /\ cache' = cache /\ UNCHANGED <<want, historyVars>>
      /\ pc[r] # "idle"
  BY DEF Fails, At
<1>2. <<>> \in Seq(Messages) /\ Elems(<<>>) = {}
  BY DEF Elems
<1>3. PICK c \in Entries : c = cache /\ EntryFits(c)
  BY DEF TopicInv, TopicTypes
<1> QED BY <1>1, <1>2, <1>3, EndFits

LEMMA BeginFits ==
    ASSUME TopicInv, NEW r \in Requests, NEW w \in Wants, Begin(r, w)
    PROVE  TopicInv'
<1> DEFINE p == Opening(w, cache)
<1>1. TopicTypes /\ Fits(r) /\ EntryFits(cache) /\ arrived \in 0..Latest /\ w \in {All} \cup (Messages \X Messages)
  BY TopicConstants DEF TopicInv, TopicTypes
<1>2. PICK c \in Entries, y \in Extractors, t \in SUBSET Messages :
          c = cache /\ y = NewExtractor(c) /\ t = Topic
  BY <1>1, NewExtractorIs, ChatPlaces DEF TopicTypes
<1>3. /\ Rested(y) /\ y.entry = c /\ ~y.hit /\ Elems(y.list) = {} /\ EntryFits(c)
      /\ y.before = 0 /\ y.seen = {} /\ y.fresh = {} /\ ~y.bounded
  BY <1>1, <1>2, NewExtractorIs DEF Rested
<1>4. /\ p \in {"serve", "prefix", "page"} /\ (p = "serve" => w # All) /\ (p = "prefix" => c.full)
  BY <1>2 DEF Opening, Beyond
<1> HIDE DEF p
<1>5. /\ pc' = [pc EXCEPT ![r] = p] /\ ex' = [ex EXCEPT ![r] = y] /\ want' = [want EXCEPT ![r] = w]
      /\ there' = [there EXCEPT ![r] = t]
      /\ pc[r] = "idle" /\ UNCHANGED <<chatVars, cache, result, slid, served>>
  BY <1>2 DEF Begin, Goto, Put, At, p
<1>6. TopicTypes'
  BY <1>1, <1>4, <1>5 DEF TopicTypes, chatVars, ScanPlaces
<1>7. /\ pc'[r] = p /\ ex'[r] = y /\ result'[r] = result[r] /\ want'[r] = w /\ there'[r] = t
  BY <1>1, <1>5 DEF TopicTypes
<1>8. Found' = Found /\ Come' = Come /\ Topic' = Topic /\ blind' = blind
  BY <1>5 DEF chatVars, Found, Come, Topic, Existing
<1>9. Fits(r)'
  <2>1. EntryFits(ex[r].entry)'
    <3>1. EntryFits(c)'
      BY <1>3, <1>5, EntryStays
    <3> QED BY <1>3, <1>7, <3>1 DEF EntryFits, Filed, LacksNewer
  <2>2. SpotFits(r)'
    <3>1. r \notin served /\ Elems(result[r]) \subseteq InTopic
      BY <1>1, <1>5 DEF Fits, SpotFits
    <3>2. t \subseteq Come /\ t = Topic
      BY <1>1, <1>2, ChatPlaces
    <3> QED BY <1>3, <1>4, <1>5, <1>7, <1>8, <3>1, <3>2 DEF SpotFits, Rested
  <2>3. PageFits(r)'
    <3>1. \A m \in Found : Coming(y, m)
      BY <1>1, <1>3, AllComing
    <3>2. \A m \in Found : Coming(ex[r], m)'
      BY <1>7, <1>8, <3>1 DEF Coming
    <3> QED BY <1>3, <1>7, <1>8, <3>2 DEF PageFits
  <2>4. RootFits(r)' /\ ListFits(r)' /\ DoneFits(r)'
    BY <1>4, <1>7 DEF RootFits, ListFits, DoneFits, Answered, At
  <2> QED BY <2>1, <2>2, <2>3, <2>4 DEF Fits
<1>10. PICK s : result' = [result EXCEPT ![r] = s]
  <2>1. result = [result EXCEPT ![r] = result[r]]
    BY <1>1 DEF TopicTypes
  <2> QED BY <1>5, <2>1
<1> QED BY <1>2, <1>3, <1>5, <1>6, <1>9, <1>10, RequestFits

\* A step to another place of the same request, with the same wish and the same history.
LEMMA MovesFit ==
    ASSUME TopicInv, NEW r \in Requests, NEW p \in ScanPlaces \ {"idle", "done", "failed"}, NEW y \in Extractors,
           pc[r] \notin {"idle", "done", "failed"}, Goto(r, p), Put(r, y),
           chatVars' = chatVars, UNCHANGED <<want, result, there, slid>>,
           served' \in SUBSET Requests, served' \ {r} = served \ {r},
           NEW c \in Entries, cache' = c, EntryFits(c), EntryFits(y.entry),
           p \in {"page", "root"} \/ Rested(y),
           want[r] = All => /\ p \notin {"serve", "between", "anchors", "probe"}
                            /\ r \notin served' /\ (p = "root" \/ ~y.hit),
           p = "prefix" => y.entry.full,
           y.search # "broken" => y.before = 0,
           Elems(y.list) \subseteq Come, y.seen \subseteq Come, y.fresh \subseteq y.seen,
           y.bounded => y.entry.full /\ Found \cap Elems(y.entry.known) \subseteq y.seen,
           p = "page" /\ ~slid =>
               /\ \A m \in Found \ y.seen :
                      \/ Coming(y, m)
                      \/ m \notin there[r] /\ \A k \in y.seen \cup Elems(y.entry.known) : k < m
               /\ \A f \in y.fresh, m \in Owed(r) \ y.seen : m < f,
           p = "root" /\ ~slid =>
               IF want[r] = All
               THEN \A m \in Found \ y.seen :
                        m \notin there[r] /\ \A k \in y.seen \cup Elems(y.entry.known) : k < m
               ELSE r \in served' \/ Due(r) \subseteq y.seen,
           p \in {"between", "anchors", "probe"} /\ r \notin served' =>
               /\ y.list = ByDate(Elems(y.list))
               /\ ~slid => Due(r) \subseteq Elems(y.list)
    PROVE  TopicInv'
<1>1. TopicTypes /\ Fits(r)
  BY DEF TopicInv
<1>2. /\ pc' = [pc EXCEPT ![r] = p] /\ ex' = [ex EXCEPT ![r] = y] /\ result' = result
      /\ want' = want /\ there' = there /\ slid' = slid
  BY DEF Goto, Put
<1>3. TopicTypes'
  BY <1>1, <1>2 DEF TopicTypes, chatVars
<1>4. /\ pc'[r] = p /\ ex'[r] = y /\ result'[r] = result[r] /\ want'[r] = want[r] /\ there'[r] = there[r]
  BY <1>1, <1>2 DEF TopicTypes
<1>5. Found' = Found /\ Come' = Come /\ Topic' = Topic /\ blind' = blind
  BY DEF chatVars, Found, Come, Topic, Existing
<1>6. EntryFits(ex[r].entry)'
  <2>0. PICK e : e = y.entry
    OBVIOUS
  <2>1. EntryFits(e)'
    BY <1>2, <2>0, EntryStays
  <2> QED BY <1>4, <2>0, <2>1 DEF EntryFits, Filed, LacksNewer
<1>7. SpotFits(r)'
  <2>1. Elems(result[r]) \subseteq InTopic /\ there[r] \subseteq Come /\ there[r] \subseteq Topic
    BY <1>1 DEF Fits, SpotFits
  <2> QED BY <1>4, <1>5, <2>1 DEF SpotFits, Rested, ScanPlaces
<1>8. PageFits(r)'
  <2>1. ASSUME NEW m, Coming(y, m) PROVE Coming(ex[r], m)'
    BY <1>4, <1>5, <2>1 DEF Coming
  <2>2. ASSUME NEW m, m \notin there[r], \A k \in y.seen \cup Elems(y.entry.known) : k < m PROVE Late(r, m)'
    BY <1>4, <2>2 DEF Late
  <2>3. Owed(r)' = Owed(r)
    BY <1>4, <1>5 DEF Owed
  <2> QED BY <1>2, <1>4, <1>5, <2>1, <2>2, <2>3 DEF PageFits
<1>9. Due(r)' = Due(r)
  BY <1>4, <1>5 DEF Due, Within
<1>10. RootFits(r)'
  BY <1>2, <1>4, <1>5, <1>9 DEF RootFits, Late
<1>11. ListFits(r)'
  BY <1>2, <1>4, <1>9 DEF ListFits
<1>12. DoneFits(r)'
  BY <1>4 DEF DoneFits, Answered, At
<1>13. Fits(r)'
  BY <1>6, <1>7, <1>8, <1>10, <1>11, <1>12 DEF Fits
<1>14. PICK w, s, t : /\ want' = [want EXCEPT ![r] = w] /\ result' = [result EXCEPT ![r] = s]
                      /\ there' = [there EXCEPT ![r] = t]
  <2>1. /\ want = [want EXCEPT ![r] = want[r]] /\ result = [result EXCEPT ![r] = result[r]]
        /\ there = [there EXCEPT ![r] = there[r]]
    BY <1>1 DEF TopicTypes
  <2> QED BY <1>2, <2>1
<1> QED BY <1>2, <1>3, <1>13, <1>14, RequestFits

\* What a request has while it does not scan.
LEMMA RestedHas ==
    ASSUME NEW x \in Extractors, Rested(x)
    PROVE  x.seen = {} /\ x.fresh = {} /\ ~x.bounded /\ x.before = 0
BY DEF Rested

LEMMA ServeFits ==
    ASSUME TopicInv, NEW r \in Requests, Serve(r)
    PROVE  TopicInv'
<1>1. /\ TopicTypes /\ Fits(r) /\ arrived \in 0..Latest /\ pc[r] = "serve"
      /\ chatVars' = chatVars /\ UNCHANGED <<cache, want, result, there, slid>>
  BY DEF TopicInv, TopicTypes, Serve, At
<1>2. PICK x \in Extractors, c \in Entries : x = ex[r] /\ c = cache /\ EntryFits(c)
  BY <1>1 DEF TopicTypes, TopicInv
<1>3. /\ x.entry \in Entries /\ EntryFits(x.entry) /\ Rested(x) /\ want[r] # All
      /\ x.search # "broken" => x.before = 0
      /\ x.before = 0 /\ x.seen = {} /\ x.fresh = {} /\ ~x.bounded
      /\ Elems(x.list) \subseteq Come
  <2>1. x.entry \in Entries /\ Rested(x) /\ want[r] # All /\ EntryFits(x.entry) /\ Elems(x.list) \subseteq Come
    BY <1>1, <1>2 DEF Extractors, Fits, SpotFits
  <2> QED BY <2>1, RestedHas
<1>4. CASE Put(r, [ex[r] EXCEPT !.list = Hydrated(ex[r].entry)]) /\ served' = served \cup {r} /\ Goto(r, "between")
  <2>1. Hydrated(x.entry) \in Seq(Messages) /\ Elems(Hydrated(x.entry)) \subseteq Come
    <3>1. x.entry.known \in Seq(Messages)
      BY <1>3 DEF Entries
    <3>2. Hydrated(x.entry) \in Seq(Messages) /\ Elems(Hydrated(x.entry)) \subseteq Topic
      BY <3>1, OnlyKeeps DEF Hydrated
    <3> QED BY <1>1, <3>2, ChatPlaces
  <2>2. PICK y \in Extractors : y = [x EXCEPT !.list = Hydrated(x.entry)]
    BY <2>1 DEF Extractors
  <2>3. /\ y.entry = x.entry /\ Rested(y) /\ y.hit = x.hit /\ y.search = x.search /\ y.before = x.before
        /\ y.seen = {} /\ y.fresh = {} /\ ~y.bounded
        /\ Elems(y.list) \subseteq Come
    BY <1>3, <2>1, <2>2 DEF Extractors, Rested
  <2>4. Put(r, y) /\ Goto(r, "between") /\ r \in served' /\ served' \ {r} = served \ {r}
        /\ served' \in SUBSET Requests
    BY <1>1, <1>2, <1>4, <2>2 DEF TopicTypes
  <2>5. "between" \in ScanPlaces \ {"idle", "done", "failed"} /\ EntryFits(y.entry)
    BY <1>3, <2>3 DEF ScanPlaces
  <2> QED BY <1>1, <1>2, <1>3, <2>3, <2>4, <2>5, MovesFit
<1>5. CASE Goto(r, Beyond(ex[r].entry)) /\ UNCHANGED <<ex, served>>
  <2>1. PICK p : p = Beyond(x.entry)
    OBVIOUS
  <2>2. p \in {"prefix", "page"} /\ (p = "prefix" => x.entry.full) /\ p \in ScanPlaces \ {"idle", "done", "failed"}
    BY <2>1 DEF Beyond, ScanPlaces
  <2>3. Goto(r, p) /\ Put(r, x) /\ served' = served /\ served' \in SUBSET Requests
    BY <1>1, <1>2, <1>5, <2>1 DEF Goto, Put, TopicTypes
  <2>4. \A m \in Found : Coming(x, m)
    BY <1>1, <1>3, AllComing
  <2> QED BY <1>1, <1>2, <1>3, <2>2, <2>3, <2>4, MovesFit
<1> QED BY <1>4, <1>5 DEF Serve

LEMMA PrefixFits ==
    ASSUME TopicInv, NEW r \in Requests, Prefix(r)
    PROVE  TopicInv'
<1>1. /\ TopicTypes /\ Fits(r) /\ arrived \in 0..Latest /\ pc[r] = "prefix" /\ Goto(r, "page")
      /\ chatVars' = chatVars /\ UNCHANGED <<cache, want, result, there, slid, served>>
      /\ Put(r, [ex[r] EXCEPT !.seen = Elems(Hydrated(ex[r].entry)), !.bounded = TRUE])
  BY DEF TopicInv, TopicTypes, Prefix, At, historyVars
<1>2. PICK x \in Extractors, c \in Entries : x = ex[r] /\ c = cache /\ EntryFits(c)
  BY <1>1 DEF TopicTypes, TopicInv
<1>3. /\ x.entry \in Entries /\ EntryFits(x.entry) /\ Rested(x) /\ x.entry.full
      /\ Elems(x.list) \subseteq Come /\ (want[r] = All => r \notin served /\ ~x.hit)
  BY <1>1, <1>2 DEF Extractors, Fits, SpotFits
<1>4. Elems(Hydrated(x.entry)) \subseteq Topic /\ Found \cap Elems(x.entry.known) \subseteq Elems(Hydrated(x.entry))
      /\ Elems(Hydrated(x.entry)) \subseteq Come /\ Elems(Hydrated(x.entry)) \in SUBSET Messages
  <2>1. x.entry.known \in Seq(Messages)
    BY <1>3 DEF Entries
  <2>2. Elems(Hydrated(x.entry)) = Elems(x.entry.known) \cap Topic
    BY <2>1, OnlyKeeps DEF Hydrated
  <2> QED BY <1>1, <2>2, ChatPlaces
<1>5. PICK y \in Extractors : y = [x EXCEPT !.seen = Elems(Hydrated(x.entry)), !.bounded = TRUE]
  BY <1>4 DEF Extractors
<1>6. /\ y.entry = x.entry /\ y.hit = x.hit /\ y.search = x.search /\ y.before = 0 /\ y.offset = 0
      /\ y.seen = Elems(Hydrated(x.entry)) /\ y.fresh = {} /\ y.bounded /\ y.list = x.list
  BY <1>3, <1>5 DEF Extractors, Rested
<1>7. \A m \in Found : Coming(y, m)
  <2>1. \A m \in Found : Coming(x, m)
    BY <1>1, <1>3, AllComing
  <2> QED BY <1>3, <1>6, <2>1 DEF Coming, Rested
<1>8. Put(r, y) /\ served' = served /\ served' \in SUBSET Requests /\ "page" \in ScanPlaces \ {"idle", "done", "failed"}
  BY <1>1, <1>2, <1>5 DEF TopicTypes, ScanPlaces
<1>9. EntryFits(y.entry) /\ (y.bounded => y.entry.full /\ Found \cap Elems(y.entry.known) \subseteq y.seen)
      /\ y.seen \subseteq Come /\ y.fresh \subseteq y.seen /\ Elems(y.list) \subseteq Come
  BY <1>3, <1>4, <1>6
<1> QED BY <1>1, <1>2, <1>3, <1>6, <1>7, <1>8, <1>9, MovesFit

LEMMA SearchBreaksFits ==
    ASSUME TopicInv, NEW r \in Requests, SearchBreaks(r)
    PROVE  TopicInv'
<1>1. /\ TopicTypes /\ Fits(r) /\ pc[r] = "page" /\ ex[r].search # "broken" /\ pc' = pc
      /\ chatVars' = chatVars /\ UNCHANGED <<cache, want, result, there, slid, served>>
      /\ Put(r, [ex[r] EXCEPT !.search = "broken"])
  BY DEF TopicInv, SearchBreaks, At, historyVars
<1>2. PICK x \in Extractors, c \in Entries : x = ex[r] /\ c = cache /\ EntryFits(c)
  BY <1>1 DEF TopicTypes, TopicInv
<1>3. /\ x.entry \in Entries /\ EntryFits(x.entry) /\ x.before = 0 /\ x.seen \subseteq Come
      /\ Elems(x.list) \subseteq Come /\ (want[r] = All => r \notin served /\ ~x.hit)
      /\ x.fresh \subseteq x.seen
      /\ x.bounded => x.entry.full /\ Found \cap Elems(x.entry.known) \subseteq x.seen
  BY <1>1, <1>2 DEF Extractors, Fits, SpotFits
<1>4. PICK y \in Extractors : y = [x EXCEPT !.search = "broken"]
  BY DEF Extractors
<1>5. /\ y.entry = x.entry /\ y.hit = x.hit /\ y.search = "broken" /\ y.before = 0
      /\ y.seen = x.seen /\ y.fresh = x.fresh /\ y.bounded = x.bounded /\ y.list = x.list
  BY <1>3, <1>4 DEF Extractors
<1>6. \A m \in Found : Coming(y, m)
  BY <1>5 DEF Coming
<1>7. Put(r, y) /\ served' = served /\ served' \in SUBSET Requests /\ "page" \in ScanPlaces \ {"idle", "done", "failed"}
      /\ Goto(r, "page")
  BY <1>1, <1>2, <1>4 DEF TopicTypes, ScanPlaces, Goto
<1>8. ~slid => \A f \in y.fresh, m \in Owed(r) \ y.seen : m < f
  BY <1>1, <1>2, <1>5 DEF Fits, PageFits
<1> QED BY <1>1, <1>2, <1>3, <1>5, <1>6, <1>7, <1>8, MovesFit

\* A page is taken in.  It is of messages of the topic, newest first; what was not to come
\* is newer than all of it, and what is still to come is older and the page is full.
LEMMA TakePageFits ==
    ASSUME TopicInv, NEW r \in Requests, pc[r] = "page",
           NEW x \in Extractors, NEW page \in Seq(Messages), NEW byOffset \in BOOLEAN,
           TakePage(r, x, page, byOffset),
           x.entry = ex[r].entry, x.hit = ex[r].hit, x.list = ex[r].list, x.seen = ex[r].seen,
           x.fresh = ex[r].fresh, x.bounded = ex[r].bounded, x.offset = ex[r].offset, x.before = ex[r].before,
           x.search = "broken" <=> ~byOffset, ex[r].search = "broken" <=> ~byOffset,
           Elems(page) \subseteq Topic, \A i, j \in DOMAIN page : i < j <=> page[j] < page[i],
           \A m \in Found \ Elems(page) : Coming(x, m) =>
               /\ ~(Len(page) < PageLimit) /\ \A p \in Elems(page) : m < p
               /\ byOffset => x.offset + Len(page) < Downto(Found, m),
           \A m \in Found : ~Coming(x, m) => \A p \in Elems(page) : p < m
    PROVE  TopicInv'
<1> DEFINE part == UpToBoundary(x, page)
           new  == Elems(part) \ x.seen
           y    == [x EXCEPT !.seen = @ \cup new, !.fresh = @ \cup new, !.first = FALSE,
                             !.hit = @ \/ part # page]
           over == \/ page = <<>> \/ y.hit \/ Len(page) < PageLimit
                   \/ want[r] # All /\ Anchors(want[r]) \subseteq y.fresh
           z    == IF over THEN y
                   ELSE IF byOffset THEN [y EXCEPT !.offset = @ + Len(page)]
                   ELSE [y EXCEPT !.before = page[Len(page)]]
           place == IF over THEN "root" ELSE "page"
<1>1. /\ Put(r, z) /\ Goto(r, place) /\ served' = (IF x.hit THEN served \cup {r} ELSE served)
      /\ chatVars' = chatVars /\ UNCHANGED <<cache, want, result, there, slid>>
  BY DEF TakePage
<1>2. TopicTypes /\ Fits(r) /\ arrived \in 0..Latest /\ served \in SUBSET Requests
  BY DEF TopicInv, TopicTypes
<1>3. /\ x.entry \in Entries /\ EntryFits(x.entry) /\ x.hit \in BOOLEAN /\ x.seen \subseteq Come
      /\ x.fresh \subseteq x.seen /\ Elems(x.list) \subseteq Come
      /\ (want[r] = All => r \notin served /\ ~x.hit)
      /\ x.bounded => x.entry.full /\ Found \cap Elems(x.entry.known) \subseteq x.seen
      /\ x.search # "broken" => x.before = 0
      /\ x.offset \in Nat /\ x.seen \in SUBSET Messages /\ x.fresh \in SUBSET Messages
      /\ there[r] \subseteq Topic
  BY <1>2 DEF Extractors, Fits, SpotFits
<1>4. /\ part \in Seq(Messages) /\ Elems(part) \subseteq Elems(page)
      /\ part # page => x.bounded /\ x.entry.last \in Elems(page)
      /\ \A m \in Elems(page) : m \in Elems(part) \/ (x.bounded /\ m <= x.entry.last)
  BY BoundaryCuts
<1>5. Elems(page) \subseteq Come /\ Elems(page) \subseteq Messages /\ Elems(part) \subseteq Messages
      /\ Found \subseteq Messages /\ Messages \subseteq Nat
  BY <1>2, <1>4, ChatPlaces, TopicConstants
<1> HIDE DEF part
<1>6. /\ y \in Extractors /\ y.entry = x.entry /\ y.list = x.list /\ y.bounded = x.bounded
      /\ y.search = x.search /\ y.offset = x.offset /\ y.before = x.before
      /\ y.seen = x.seen \cup Elems(part) /\ y.fresh = x.fresh \cup new
      /\ y.hit <=> x.hit \/ part # page
  BY <1>3, <1>5 DEF Extractors
<1>14. new \subseteq Elems(page) /\ \A p \in Elems(part) : p \in new \/ p \in x.seen
  BY <1>4
<1> HIDE DEF y, new
<1>7. /\ z \in Extractors /\ z.entry = x.entry /\ z.list = x.list /\ z.bounded = x.bounded
      /\ z.search = x.search /\ z.seen = y.seen /\ z.fresh = y.fresh /\ z.hit = y.hit
      /\ ~over => z.offset = (IF byOffset THEN x.offset + Len(page) ELSE x.offset)
      /\ ~over => z.before = (IF byOffset THEN x.before ELSE page[Len(page)])
      /\ over => z.offset = x.offset /\ z.before = x.before
  <2>1. Len(page) \in Nat /\ x.offset + Len(page) \in Nat
    BY <1>3
  <2>2. CASE over
    BY <1>6, <2>2
  <2>3. CASE ~over /\ byOffset
    <3>1. z = [y EXCEPT !.offset = x.offset + Len(page)]
      BY <1>6, <2>3
    <3> HIDE DEF over, z
    <3> QED BY <1>6, <2>1, <2>3, <3>1 DEF Extractors
  <2>4. CASE ~over /\ ~byOffset
    <3>1. page # <<>>
      BY <2>4
    <3>2. page[Len(page)] \in Messages /\ page[Len(page)] \in Nat
      <4>1. Len(page) \in DOMAIN page
        BY <3>1
      <4>2. page[Len(page)] \in Messages
        BY <4>1
      <4> QED BY <1>5, <4>2
    <3>3. z = [y EXCEPT !.before = page[Len(page)]]
      BY <2>4
    <3> HIDE DEF over, z
    <3> QED BY <1>6, <2>4, <3>2, <3>3 DEF Extractors
  <2> QED BY <2>2, <2>3, <2>4
<1> HIDE DEF z
<1>8. place \in ScanPlaces \ {"idle", "done", "failed"} /\ (place = "page" => ~over) /\ (place = "root" => over)
      /\ place \in {"page", "root"}
  BY DEF ScanPlaces
<1> HIDE DEF place
\* Where the last message of the cache ends the scan, older ones have been seen.
<1>9. ASSUME ~slid, NEW m \in Found, m <= x.entry.last, x.bounded PROVE m \in x.seen
  <2>1. m \in Elems(x.entry.known)
    <3>1. m \notin Elems(x.entry.known) => x.entry.last < m
      BY <1>3, <1>9 DEF EntryFits, LacksNewer
    <3>2. x.entry.last \in Nat /\ m \in Nat
      BY <1>3, <1>5 DEF Entries
    <3> QED BY <1>9, <3>1, <3>2
  <2> QED BY <1>3, <1>9, <2>1
\* What this page does not show is not on it.
<1>10. ASSUME ~slid, NEW m \in Found, m \notin y.seen PROVE m \notin Elems(page)
  <2>1. SUFFICES ASSUME m \in Elems(page) PROVE FALSE
    OBVIOUS
  <2>2. x.bounded /\ m <= x.entry.last
    BY <1>4, <1>6, <1>10, <2>1
  <2> QED BY <1>6, <1>9, <1>10, <2>2
\* If the scan ended before the end, it met the cache.
<1>11. ASSUME ~slid, NEW m \in Found, m \notin y.seen, Coming(x, m)
       PROVE  part = page /\ ~(Len(page) < PageLimit) /\ \A p \in Elems(page) : m < p
  <2>1. ~(Len(page) < PageLimit) /\ \A p \in Elems(page) : m < p
    BY <1>10, <1>11
  <2>2. ASSUME part # page PROVE FALSE
    <3>1. x.bounded /\ m < x.entry.last
      BY <1>4, <2>1, <2>2
    <3>3. x.entry.last \in Nat /\ m \in Nat
      BY <1>3, <1>5 DEF Entries
    <3>2. m <= x.entry.last
      BY ONLY <3>1, <3>3
    <3> QED BY <1>6, <1>9, <1>11, <3>1, <3>2
  <2> QED BY <2>1, <2>2
<1>12. page # <<>> \/ Len(page) < PageLimit
  BY TopicConstants
<1>13. ASSUME ~slid, NEW m \in Found, m \notin y.seen, ~Coming(x, m)
       PROVE  m \notin there[r] /\ \A k \in y.seen \cup Elems(x.entry.known) : k < m
  <2>1. ~Coming(ex[r], m)
    BY <1>13 DEF Coming
  <2>2. Late(r, m)
    BY <1>2, <1>6, <1>13, <2>1 DEF Fits, PageFits
  <2>3. \A p \in Elems(part) : p < m
    BY <1>4, <1>13
  <2> QED BY <1>6, <2>2, <2>3 DEF Late
\* What has to be returned and was not seen is older than all that this request fetched.
<1>15. ASSUME ~slid, NEW m \in Owed(r), m \notin y.seen
       PROVE  m \in Found /\ Coming(x, m) /\ \A f \in y.fresh : m < f
  <2>1. m \in Found /\ m \in there[r]
    BY <1>3, <1>15 DEF Owed, Found
  <2>2. Coming(x, m)
    BY <1>13, <1>15, <2>1
  <2>3. \A p \in Elems(page) : m < p
    BY <1>11, <1>15, <2>1, <2>2
  <2>4. \A f \in x.fresh : m < f
    <3>1. m \in Owed(r) \ ex[r].seen
      BY <1>6, <1>15
    <3> QED BY <1>2, <1>15, <3>1 DEF Fits, PageFits
  <2> QED BY <1>6, <1>14, <2>1, <2>2, <2>3, <2>4
<1>16. place = "page" /\ ~slid =>
           /\ \A m \in Found \ z.seen :
                  \/ Coming(z, m)
                  \/ m \notin there[r] /\ \A k \in z.seen \cup Elems(z.entry.known) : k < m
           /\ \A f \in z.fresh, m \in Owed(r) \ z.seen : m < f
  <2>1. SUFFICES ASSUME place = "page", ~slid PROVE
           /\ \A m \in Found \ z.seen :
                  \/ Coming(z, m)
                  \/ m \notin there[r] /\ \A k \in z.seen \cup Elems(z.entry.known) : k < m
           /\ \A f \in z.fresh, m \in Owed(r) \ z.seen : m < f
    OBVIOUS
  <2>2. ASSUME NEW m \in Found \ z.seen, Coming(x, m) PROVE Coming(z, m)
    <3>1. m \in Found /\ m \notin y.seen /\ ~over /\ page # <<>>
      BY <1>7, <1>8, <2>1, <2>2
    <3>2. \A p \in Elems(page) : m < p
      BY <1>11, <2>1, <2>2, <3>1
    <3>3. CASE byOffset
      <4>1. x.offset + Len(page) < Downto(Found, m)
        BY <1>10, <2>1, <2>2, <3>1, <3>3
      <4> QED BY <1>7, <3>1, <3>3, <4>1 DEF Coming
    <3>4. CASE ~byOffset
      <4>1. Len(page) \in DOMAIN page
        BY <3>1
      <4>2. m < page[Len(page)]
        BY <3>2, <4>1 DEF Elems
      <4> QED BY <1>7, <3>1, <3>4, <4>2 DEF Coming
    <3> QED BY <3>3, <3>4
  <2>3. ASSUME NEW m \in Found \ z.seen, ~Coming(x, m)
        PROVE  m \notin there[r] /\ \A k \in z.seen \cup Elems(z.entry.known) : k < m
    BY <1>7, <1>13, <2>1, <2>3
  <2>4. ASSUME NEW f \in z.fresh, NEW m \in Owed(r) \ z.seen PROVE m < f
    BY <1>7, <1>15, <2>1, <2>4
  <2> QED BY <2>2, <2>3, <2>4
<1>17. place = "root" /\ ~slid =>
           IF want[r] = All
           THEN \A m \in Found \ z.seen :
                    m \notin there[r] /\ \A k \in z.seen \cup Elems(z.entry.known) : k < m
           ELSE r \in served' \/ Due(r) \subseteq z.seen
  <2>1. SUFFICES ASSUME place = "root", ~slid PROVE
           IF want[r] = All
           THEN \A m \in Found \ z.seen :
                    m \notin there[r] /\ \A k \in z.seen \cup Elems(z.entry.known) : k < m
           ELSE r \in served' \/ Due(r) \subseteq z.seen
    OBVIOUS
  <2>2. ASSUME NEW m \in Found, m \notin y.seen, Coming(x, m), ~x.hit
        PROVE  want[r] # All /\ Anchors(want[r]) \subseteq y.fresh
    <3>1. over
      BY <1>8, <2>1
    <3>2. ~(Len(page) < PageLimit) /\ part = page
      BY <1>11, <1>12, <2>1, <2>2
    <3>3. ~y.hit /\ page # <<>>
      BY <1>6, <1>12, <2>2, <3>2
    <3> QED BY <3>1, <3>2, <3>3
  <2>3. CASE want[r] = All
    <3>1. ASSUME NEW m \in Found \ z.seen PROVE ~Coming(x, m)
      BY <1>3, <1>7, <2>2, <2>3, <3>1
    <3> QED BY <1>7, <1>13, <2>1, <2>3, <3>1
  <2>4. CASE want[r] # All
    <3>1. CASE x.hit
      BY <1>1, <2>4, <3>1
    <3>2. CASE ~x.hit
      <4>1. ASSUME NEW m \in Due(r), m \notin z.seen PROVE FALSE
        <5>1. m \in Owed(r) /\ m \in Within(want[r]) /\ m \notin y.seen
          BY <1>7, <4>1 DEF Due, Owed
        <5>2. m \in Found /\ Coming(x, m) /\ \A f \in y.fresh : m < f
          BY <1>15, <2>1, <5>1
        <5>3. Anchors(want[r]) \subseteq y.fresh
          BY <2>2, <3>2, <5>1, <5>2
        <5>4. m < want[r][1] /\ m < want[r][2]
          BY <2>4, <5>2, <5>3 DEF Anchors
        <5>5. want[r] \in Messages \X Messages
          BY <1>2, <2>4 DEF TopicTypes
        <5>6. want[r][1] \in Nat /\ want[r][2] \in Nat /\ m \in Nat
          BY <1>5, <5>2, <5>5
        <5>7. ~(want[r][1] <= m) /\ ~(want[r][2] <= m)
          BY <5>4, <5>6
        <5> QED BY <2>4, <5>1, <5>7 DEF Within
      <4> QED BY <2>4, <4>1
    <3> QED BY <3>1, <3>2
  <2> QED BY <2>3, <2>4
<1>18. /\ EntryFits(z.entry) /\ Elems(z.list) \subseteq Come /\ z.seen \subseteq Come /\ z.fresh \subseteq z.seen
       /\ z.bounded => z.entry.full /\ Found \cap Elems(z.entry.known) \subseteq z.seen
  <2>1. y.seen \subseteq Come /\ y.fresh \subseteq y.seen
    BY <1>3, <1>4, <1>5, <1>6 DEF new
  <2> QED BY <1>3, <1>6, <1>7, <2>1
<1>19. z.search # "broken" => z.before = 0
  <2>1. CASE over
    BY <1>3, <1>7, <2>1
  <2>2. CASE ~over
    BY <1>3, <1>7, <2>2
  <2> QED BY <2>1, <2>2
<1>20. want[r] = All => r \notin served' /\ (place = "root" \/ ~z.hit)
  BY <1>1, <1>3, <1>7, <1>8
<1>21. served' \in SUBSET Requests /\ served' \ {r} = served \ {r}
  BY <1>1, <1>2
<1>22. PICK c \in Entries : c = cache /\ EntryFits(c)
  BY <1>2 DEF TopicTypes, TopicInv
<1>23. PICK zz, pp : zz = z /\ pp = place
  OBVIOUS
<1> HIDE DEF over
<1>24. place \notin {"serve", "between", "anchors", "probe", "prefix"}
  BY <1>8
<1>25. /\ zz \in Extractors /\ pp \in ScanPlaces \ {"idle", "done", "failed"} /\ Goto(r, pp) /\ Put(r, zz)
       /\ pp \in {"page", "root"} \/ Rested(zz)
       /\ want[r] = All => /\ pp \notin {"serve", "between", "anchors", "probe"}
                           /\ r \notin served' /\ (pp = "root" \/ ~zz.hit)
       /\ pp # "prefix" /\ pp \notin {"between", "anchors", "probe"}
       /\ zz.search # "broken" => zz.before = 0
  BY <1>1, <1>7, <1>8, <1>19, <1>20, <1>23, <1>24 DEF Goto, Put
<1>26. /\ EntryFits(zz.entry) /\ Elems(zz.list) \subseteq Come /\ zz.seen \subseteq Come /\ zz.fresh \subseteq zz.seen
       /\ zz.bounded => zz.entry.full /\ Found \cap Elems(zz.entry.known) \subseteq zz.seen
  BY <1>18, <1>23
<1>27. pp = "page" /\ ~slid =>
           /\ \A m \in Found \ zz.seen :
                  \/ Coming(zz, m)
                  \/ m \notin there[r] /\ \A k \in zz.seen \cup Elems(zz.entry.known) : k < m
           /\ \A f \in zz.fresh, m \in Owed(r) \ zz.seen : m < f
  BY <1>16, <1>23
<1>28. pp = "root" /\ ~slid =>
           IF want[r] = All
           THEN \A m \in Found \ zz.seen :
                    m \notin there[r] /\ \A k \in zz.seen \cup Elems(zz.entry.known) : k < m
           ELSE r \in served' \/ Due(r) \subseteq zz.seen
  BY <1>17, <1>23
<1>29. pc[r] \notin {"idle", "done", "failed"} /\ cache' = c
  BY <1>1, <1>22
<1> QED BY <1>1, <1>21, <1>22, <1>25, <1>26, <1>27, <1>28, <1>29, MovesFit

\* What lies on a page of the numbers of S, and what does not.
LEMMA PageParts ==
    ASSUME NEW S \in SUBSET Messages, NEW o \in Nat, NEW page, page = PageOf(S, o)
    PROVE  /\ page \in Seq(Messages) /\ Elems(page) \subseteq S
           /\ \A i, j \in DOMAIN page : i < j <=> page[j] < page[i]
           /\ \A m \in S \ Elems(page) : o < Downto(S, m) =>
                  /\ ~(Len(page) < PageLimit) /\ \A p \in Elems(page) : m < p
                  /\ o + Len(page) < Downto(S, m)
           /\ \A m \in S : ~(o < Downto(S, m)) => \A p \in Elems(page) : p < m
<1>1. /\ page \in Seq(S) /\ Len(page) \in Nat
      /\ \A i \in DOMAIN page : Downto(S, page[i]) = o + i
      /\ \A m \in S : o < Downto(S, m) /\ Downto(S, m) <= o + Len(page) => m \in Elems(page)
      /\ Len(page) < PageLimit => \A m \in S : Downto(S, m) <= o + Len(page)
      /\ \A i, j \in DOMAIN page : i < j <=> page[j] < page[i]
  <2>1. S \in SUBSET Nat /\ IsFiniteSet(S)
    BY FewMessages
  <2> QED BY <2>1, PageDown
<1>2. \A m \in S : Downto(S, m) \in Nat
  <2>1. Cardinality(S) \in Nat /\ \A m \in S : Downto(S, m) \in 1..Cardinality(S)
    BY DowntoRanks, FewMessages
  <2> QED BY <2>1
<1>3. \A x, z \in S : x < z <=> Downto(S, z) < Downto(S, x)
  BY DowntoRanks, FewMessages
<1>4. page \in Seq(Messages) /\ Elems(page) \subseteq S
  <2>1. DOMAIN page = 1..Len(page) /\ \A i \in 1..Len(page) : page[i] \in S
    BY <1>1
  <2>2. page = [i \in 1..Len(page) |-> page[i]]
    BY <1>1
  <2> QED BY <1>1, <2>1, <2>2 DEF Elems
<1>5. ASSUME NEW p \in Elems(page)
      PROVE  p \in S /\ o < Downto(S, p) /\ Downto(S, p) <= o + Len(page)
  <2>1. PICK i \in DOMAIN page : p = page[i]
    BY DEF Elems
  <2>2. i \in 1..Len(page) /\ Downto(S, p) = o + i
    BY <1>1, <2>1
  <2> QED BY <1>1, <1>4, <2>2
<1>6. ASSUME NEW m \in S \ Elems(page), o < Downto(S, m)
      PROVE  /\ ~(Len(page) < PageLimit) /\ \A p \in Elems(page) : m < p
             /\ o + Len(page) < Downto(S, m)
  <2>1. o + Len(page) < Downto(S, m)
    BY <1>1, <1>2, <1>6
  <2>2. ~(Len(page) < PageLimit)
    BY <1>1, <1>2, <2>1
  <2>3. ASSUME NEW p \in Elems(page) PROVE m < p
    <3>1. p \in S /\ Downto(S, p) < Downto(S, m)
      BY <1>1, <1>2, <1>5, <2>1
    <3> QED BY <1>3, <3>1
  <2> QED BY <2>1, <2>2, <2>3
<1>7. ASSUME NEW m \in S, ~(o < Downto(S, m)), NEW p \in Elems(page) PROVE p < m
  <2>1. p \in S /\ Downto(S, m) < Downto(S, p)
    BY <1>2, <1>5, <1>7
  <2> QED BY <1>3, <2>1
<1> QED BY <1>1, <1>4, <1>6, <1>7

LEMMA BySearchFits ==
    ASSUME TopicInv, NEW r \in Requests, BySearch(r)
    PROVE  TopicInv'
<1>1. TopicTypes /\ arrived \in 0..Latest /\ pc[r] = "page" /\ ex[r].search # "broken" /\ ex[r] \in Extractors
  BY DEF TopicInv, TopicTypes, BySearch, At
<1>2. PICK x \in Extractors : x = [ex[r] EXCEPT !.search = "used"]
  BY <1>1 DEF Extractors
<1>3. /\ x.entry = ex[r].entry /\ x.hit = ex[r].hit /\ x.list = ex[r].list /\ x.seen = ex[r].seen
      /\ x.fresh = ex[r].fresh /\ x.bounded = ex[r].bounded /\ x.offset = ex[r].offset
      /\ x.before = ex[r].before /\ x.search = "used" /\ x.offset \in Nat
  BY <1>1, <1>2 DEF Extractors
<1>4. PICK S, page : S = Found /\ page = SearchPage(ex[r])
  OBVIOUS
<1>5. S \in SUBSET Messages /\ S \subseteq Topic
  BY <1>1, <1>4, ChatPlaces
<1>6. page = PageOf(S, x.offset)
  BY <1>3, <1>4 DEF SearchPage, Found, PageOf
<1>7. /\ page \in Seq(Messages) /\ Elems(page) \subseteq S
      /\ \A i, j \in DOMAIN page : i < j <=> page[j] < page[i]
      /\ \A m \in S \ Elems(page) : x.offset < Downto(S, m) =>
             /\ ~(Len(page) < PageLimit) /\ \A p \in Elems(page) : m < p
             /\ x.offset + Len(page) < Downto(S, m)
      /\ \A m \in S : ~(x.offset < Downto(S, m)) => \A p \in Elems(page) : p < m
  <2>1. x.offset \in Nat
    BY <1>3

  <2>2. PICK o \in Nat : o = x.offset
    BY <2>1
  <2>3. page = PageOf(S, o)
    BY <1>6, <2>2
  <2>4. /\ page \in Seq(Messages) /\ Elems(page) \subseteq S
        /\ \A i, j \in DOMAIN page : i < j <=> page[j] < page[i]
        /\ \A m \in S \ Elems(page) : o < Downto(S, m) =>
               /\ ~(Len(page) < PageLimit) /\ \A p \in Elems(page) : m < p
               /\ o + Len(page) < Downto(S, m)
        /\ \A m \in S : ~(o < Downto(S, m)) => \A p \in Elems(page) : p < m
    BY ONLY <1>5, <2>3, PageParts
  <2> QED BY ONLY <2>2, <2>4
<1>8. TakePage(r, x, page, TRUE)
  BY <1>2, <1>4 DEF BySearch, TakePage
<1>9. \A m : Coming(x, m) <=> x.offset < Downto(Found, m)
  BY <1>3 DEF Coming
<1>10. /\ \A m \in Found \ Elems(page) : Coming(x, m) =>
              /\ ~(Len(page) < PageLimit) /\ \A p \in Elems(page) : m < p
              /\ x.offset + Len(page) < Downto(Found, m)
       /\ \A m \in Found : ~Coming(x, m) => \A p \in Elems(page) : p < m
       /\ Elems(page) \subseteq Topic
  BY <1>4, <1>5, <1>7, <1>9
<1>11. (x.search = "broken" <=> ~TRUE) /\ (ex[r].search = "broken" <=> ~TRUE) /\ TRUE \in BOOLEAN
  BY <1>1, <1>3
<1> QED BY <1>1, <1>3, <1>7, <1>8, <1>10, <1>11, TakePageFits

LEMMA ByRepliesFits ==
    ASSUME TopicInv, NEW r \in Requests, ByReplies(r)
    PROVE  TopicInv'
<1>1. TopicTypes /\ arrived \in 0..Latest /\ pc[r] = "page" /\ ex[r].search = "broken" /\ ex[r] \in Extractors
  BY DEF TopicInv, TopicTypes, ByReplies, At
<1>2. PICK x \in Extractors : x = [ex[r] EXCEPT !.replies = "used"]
  BY <1>1 DEF Extractors
<1>3. /\ x.entry = ex[r].entry /\ x.hit = ex[r].hit /\ x.list = ex[r].list /\ x.seen = ex[r].seen
      /\ x.fresh = ex[r].fresh /\ x.bounded = ex[r].bounded /\ x.offset = ex[r].offset
      /\ x.before = ex[r].before /\ x.search = "broken" /\ x.before \in Nat
  BY <1>1, <1>2 DEF Extractors
<1>4. PICK S, page : S = {m \in Topic \ {Root} : x.before = 0 \/ m < x.before} /\ page = RepliesPage(ex[r])
  OBVIOUS
<1>5. S \in SUBSET Messages /\ S \subseteq Topic /\ Messages \subseteq Nat
  BY <1>1, <1>4, ChatPlaces, TopicConstants
<1>6. page = PageOf(S, 0)
  <2>1. page = FirstOf(Newest(S), PageLimit)
    BY <1>3, <1>4 DEF RepliesPage
  <2>2. Newest(S) \in Seq(S)
    BY <1>5, FewMessages, NewestSorts
  <2>3. SubSeq(Newest(S), 0 + 1, Len(Newest(S))) = Newest(S)
    BY <2>2
  <2> QED BY <2>1, <2>3 DEF PageOf
<1>7. /\ page \in Seq(Messages) /\ Elems(page) \subseteq S
      /\ \A i, j \in DOMAIN page : i < j <=> page[j] < page[i]
      /\ \A m \in S \ Elems(page) : 0 < Downto(S, m) =>
             /\ ~(Len(page) < PageLimit) /\ \A p \in Elems(page) : m < p
  <2>1. 0 \in Nat
    OBVIOUS
  <2> QED BY <1>5, <1>6, <2>1, PageParts
<1>8. TakePage(r, x, page, FALSE)
  BY <1>2, <1>4 DEF ByReplies, TakePage
<1>9. ASSUME NEW m \in S PROVE 0 < Downto(S, m)
  <2>1. Downto(S, m) \in 1..Cardinality(S) /\ Cardinality(S) \in Nat
    BY <1>5, FewMessages, DowntoRanks
  <2> QED BY <2>1
<1>10. \A m : Coming(x, m) <=> x.before = 0 \/ m < x.before
  BY <1>3 DEF Coming
<1>11. ASSUME NEW m \in Found \ Elems(page), Coming(x, m)
       PROVE  ~(Len(page) < PageLimit) /\ \A p \in Elems(page) : m < p
  <2>1. m \in S
    BY <1>4, <1>10, <1>11 DEF Found
  <2> QED BY <1>7, <1>9, <1>11, <2>1
<1>12. ASSUME NEW m \in Found, ~Coming(x, m), NEW p \in Elems(page) PROVE p < m
  <2>1. x.before # 0 /\ ~(m < x.before) /\ p \in S /\ m \in Nat /\ p \in Nat
    BY <1>1, <1>5, <1>7, <1>10, <1>12, ChatPlaces
  <2>2. p < x.before
    BY <1>4, <2>1
  <2> QED BY <1>3, <2>1, <2>2
<1>13. (x.search = "broken" <=> ~FALSE) /\ (ex[r].search = "broken" <=> ~FALSE) /\ FALSE \in BOOLEAN
       /\ Elems(page) \subseteq Topic
  BY <1>1, <1>3, <1>5, <1>7
<1> QED BY <1>1, <1>3, <1>7, <1>8, <1>11, <1>12, <1>13, TakePageFits

\* The part of a list from one place to a later one.
LEMMA PartOfList ==
    ASSUME NEW s \in Seq(Messages), NEW a \in DOMAIN s, NEW b \in DOMAIN s, a <= b
    PROVE  /\ SubSeq(s, a, b) \in Seq(Messages) /\ Elems(SubSeq(s, a, b)) = {s[k] : k \in a..b}
           /\ a..b \subseteq DOMAIN s
           /\ (\A i, j \in DOMAIN s : i < j => s[i] < s[j]) =>
                  \A i, j \in DOMAIN SubSeq(s, a, b) : i < j => SubSeq(s, a, b)[i] < SubSeq(s, a, b)[j]
<1> DEFINE t == SubSeq(s, a, b)
           n == b - a + 1
<1>1. /\ Len(s) \in Nat /\ DOMAIN s = 1..Len(s) /\ a \in Nat \ {0} /\ b \in Nat \ {0} /\ b <= Len(s)
      /\ n \in Nat
  OBVIOUS
<1>2. a..b \subseteq DOMAIN s
  BY <1>1
<1>3. t = [i \in 1..n |-> s[a + i - 1]]
  BY <1>1
<1>4. \A i \in 1..n : a + i - 1 \in a..b
  BY <1>1
<1>5. \A k \in a..b : k - a + 1 \in 1..n /\ a + (k - a + 1) - 1 = k
  BY <1>1
<1> HIDE DEF t, n
<1>6. \A k \in a..b : s[k] \in Messages
  BY <1>2
<1>7. t \in Seq(Messages) /\ DOMAIN t = 1..n /\ \A i \in 1..n : t[i] = s[a + i - 1]
  BY <1>1, <1>3, <1>4, <1>6
<1>8. Elems(t) = {s[k] : k \in a..b}
  <2>1. ASSUME NEW m \in Elems(t) PROVE m \in {s[k] : k \in a..b}
    <3>1. PICK i \in 1..n : m = t[i]
      BY <1>7 DEF Elems
    <3> QED BY <1>4, <1>7, <3>1
  <2>2. ASSUME NEW k \in a..b PROVE s[k] \in Elems(t)
    <3>1. PICK i \in 1..n : k = a + i - 1
      BY <1>5
    <3>2. t[i] = s[k]
      BY <1>7, <3>1
    <3> QED BY <1>7, <3>1, <3>2 DEF Elems
  <2> QED BY <2>1, <2>2
<1>9. ASSUME \A i, j \in DOMAIN s : i < j => s[i] < s[j], NEW i \in DOMAIN t, NEW j \in DOMAIN t, i < j
      PROVE  t[i] < t[j]
  <2>1. a + i - 1 \in DOMAIN s /\ a + j - 1 \in DOMAIN s /\ a + i - 1 < a + j - 1
    BY <1>1, <1>2, <1>4, <1>7, <1>9
  <2>2. PICK k \in DOMAIN s, l \in DOMAIN s : k = a + i - 1 /\ l = a + j - 1 /\ k < l
    BY <2>1
  <2>3. t[i] = s[k] /\ t[j] = s[l]
    BY <1>7, <2>2
  <2>4. s[k] < s[l]
    BY <1>9, <2>2
  <2> QED BY <2>3, <2>4
<1> QED BY <1>2, <1>7, <1>8, <1>9 DEF t

\* A slice is of the list, and of a sorted list that has both anchors it is what lies between.
LEMMA SliceFits ==
    ASSUME NEW s \in Seq(Messages), NEW w \in Messages \X Messages, w # All
    PROVE  /\ Slice(s, w) \in Seq(Messages) /\ Elems(Slice(s, w)) \subseteq Elems(s)
           /\ s = ByDate(Elems(s)) /\ Anchors(w) \subseteq Elems(s) =>
                  /\ Elems(Slice(s, w)) = Elems(s) \cap Within(w)
                  /\ Slice(s, w) = ByDate(Elems(Slice(s, w)))
<1>1. CASE ~(Anchors(w) \subseteq Elems(s))
  <2>1. Slice(s, w) = Only(s, Span(w))
    BY <1>1 DEF Slice
  <2> QED BY <1>1, <2>1, OnlyKeeps
<1>2. CASE Anchors(w) \subseteq Elems(s)
  <2>1. w[1] \in Elems(s) /\ w[2] \in Elems(s)
    BY <1>2 DEF Anchors
  <2>2. PICK i \in DOMAIN s, j \in DOMAIN s : i = Place(s, w[1]) /\ j = Place(s, w[2]) /\ s[i] = w[1] /\ s[j] = w[2]
    BY <2>1 DEF Elems, Place
  <2>3. PICK a \in {i, j}, b \in {i, j} : {a, b} = {i, j} /\ a <= b /\ Slice(s, w) = SubSeq(s, a, b)
    <3>1. i \in Nat /\ j \in Nat
      OBVIOUS
    <3>2. Slice(s, w) = IF i <= j THEN SubSeq(s, i, j) ELSE SubSeq(s, j, i)
      BY <1>2, <2>2 DEF Slice
    <3>3. CASE i <= j
      BY <3>2, <3>3
    <3>4. CASE ~(i <= j)
      <4>1. j <= i
        BY <3>1, <3>4
      <4> QED BY <3>2, <3>4, <4>1
    <3> QED BY <3>3, <3>4
  <2>4. /\ a \in DOMAIN s /\ b \in DOMAIN s
        /\ {s[a], s[b]} = {w[1], w[2]} /\ s[a] \in Messages /\ s[b] \in Messages
    BY <2>2, <2>3
  <2>5. /\ Slice(s, w) \in Seq(Messages) /\ Elems(Slice(s, w)) = {s[k] : k \in a..b} /\ a..b \subseteq DOMAIN s
        /\ (\A k, l \in DOMAIN s : k < l => s[k] < s[l]) =>
               \A k, l \in DOMAIN Slice(s, w) : k < l => Slice(s, w)[k] < Slice(s, w)[l]
    <3>1. PICK t : t = SubSeq(s, a, b)
      OBVIOUS
    <3>2. a <= b
      BY <2>3
    <3>3. /\ t \in Seq(Messages) /\ Elems(t) = {s[k] : k \in a..b} /\ a..b \subseteq DOMAIN s
          /\ (\A k, l \in DOMAIN s : k < l => s[k] < s[l]) => \A k, l \in DOMAIN t : k < l => t[k] < t[l]
      BY <2>4, <3>1, <3>2, PartOfList
    <3>4. Slice(s, w) = t
      BY <2>3, <3>1
    <3> QED BY ONLY <3>3, <3>4
  <2>6. Elems(Slice(s, w)) \subseteq Elems(s)
    BY <2>5 DEF Elems
  <2>7. ASSUME s = ByDate(Elems(s))
        PROVE  /\ Elems(Slice(s, w)) = Elems(s) \cap Within(w)
               /\ Slice(s, w) = ByDate(Elems(Slice(s, w)))
    <3>1. \A k, l \in DOMAIN s : k < l <=> s[k] < s[l]
      <4>1. Elems(s) \in SUBSET Nat /\ IsFiniteSet(Elems(s))
        BY ElemsOf, FewMessages
      <4>2. PICK S : S = Elems(s)
        OBVIOUS
      <4>3. \A k, l \in DOMAIN ByDate(S) : k < l <=> ByDate(S)[k] < ByDate(S)[l]
        BY <4>1, <4>2, ByDateSorts
      <4>4. s = ByDate(S)
        BY <2>7, <4>2
      <4> QED BY ONLY <4>3, <4>4
    <3>2. Slice(s, w) = ByDate(Elems(Slice(s, w)))
      <4>1. PICK t \in Seq(Messages) : t = Slice(s, w)
        BY <2>5
      <4>2. t \in Seq(Nat)
        <5>1. Messages \subseteq Nat
          BY TopicConstants
        <5>5. \A k \in DOMAIN t : t[k] \in Messages
          OBVIOUS
        <5>2. \A k \in DOMAIN t : t[k] \in Nat
          BY ONLY <5>1, <5>5
        <5>3. t = [k \in 1..Len(t) |-> t[k]] /\ Len(t) \in Nat /\ DOMAIN t = 1..Len(t)
          OBVIOUS
        <5>4. t \in [1..Len(t) -> Nat]
          BY <5>2, <5>3
        <5> QED BY ONLY <5>3, <5>4
      <4>3. \A k, l \in DOMAIN t : k < l => t[k] < t[l]
        BY <2>5, <3>1, <4>1
      <4>4. t = ByDate(Elems(t))
        BY <4>2, <4>3, UpwardsIsByDate
      <4> QED BY <4>1, <4>4
    <3>3. /\ \A k \in DOMAIN s : k \in Nat /\ s[k] \in Nat
          /\ a \in Nat /\ b \in Nat /\ s[a] \in Nat /\ s[b] \in Nat
      <4>1. \A k \in DOMAIN s : k \in Nat /\ s[k] \in Messages
        OBVIOUS
      <4>2. Messages \subseteq Nat
        BY TopicConstants
      <4> QED BY <2>4, <4>1, <4>2
    <3>4. \A k \in DOMAIN s : k \in a..b <=> s[a] <= s[k] /\ s[k] <= s[b]
      <4> SUFFICES ASSUME NEW k \in DOMAIN s PROVE k \in a..b <=> s[a] <= s[k] /\ s[k] <= s[b]
        OBVIOUS
      <4>1. k < a <=> s[k] < s[a]
        BY <2>4, <3>1
      <4>2. b < k <=> s[b] < s[k]
        BY <2>4, <3>1
      <4>3. k \in a..b <=> ~(k < a) /\ ~(b < k)
        BY ONLY <3>3, k \in DOMAIN s
      <4>4. s[a] <= s[k] /\ s[k] <= s[b] <=> ~(s[k] < s[a]) /\ ~(s[b] < s[k])
        <5>1. PICK p \in Nat, q \in Nat, u \in Nat : p = s[a] /\ q = s[k] /\ u = s[b]
          BY <3>3
        <5>2. p <= q /\ q <= u <=> ~(q < p) /\ ~(u < q)
          OBVIOUS
        <5> QED BY ONLY <5>1, <5>2
      <4> QED BY <4>1, <4>2, <4>3, <4>4
    <3>5. \A m \in Messages : m \in Within(w) <=> s[a] <= m /\ m <= s[b]
      <4> SUFFICES ASSUME NEW m \in Messages PROVE m \in Within(w) <=> s[a] <= m /\ m <= s[b]
        OBVIOUS
      <4>1. m \in Within(w) <=> (w[1] <= m /\ m <= w[2]) \/ (w[2] <= m /\ m <= w[1])
        BY DEF Within
      <4>2. s[a] <= s[b]
        <5>1. a < b => s[a] < s[b]
          BY <2>4, <3>1
        <5>2. a < b \/ a = b
          BY <2>3, <3>3
        <5> QED BY <3>3, <5>1, <5>2
      <4>3. m \in Nat
        BY TopicConstants
      <4>4. \/ w[1] = s[a] /\ w[2] = s[b]
            \/ w[1] = s[b] /\ w[2] = s[a]
        BY <2>4
      <4>5. (s[b] <= m /\ m <= s[a]) => (s[a] <= m /\ m <= s[b])
        BY <3>3, <4>2, <4>3
      <4> QED BY <4>1, <4>4, <4>5
    <3>6. ASSUME NEW m \in Elems(s) \cap Within(w) PROVE m \in Elems(Slice(s, w))
      <4>1. PICK k \in DOMAIN s : m = s[k]
        BY DEF Elems
      <4>2. m \in Messages
        BY <4>1
      <4>3. k \in a..b
        BY <3>4, <3>5, <3>6, <4>1, <4>2
      <4> QED BY <2>5, <4>1, <4>3
    <3>7. ASSUME NEW m \in Elems(Slice(s, w)) PROVE m \in Elems(s) \cap Within(w)
      <4>1. PICK k \in a..b : m = s[k]
        BY <2>5
      <4>2. k \in DOMAIN s /\ m \in Messages
        BY <2>5, <4>1
      <4> QED BY <2>6, <3>4, <3>5, <4>1, <4>2
    <3> QED BY <3>2, <3>6, <3>7
  <2> QED BY <2>5, <2>6, <2>7
<1> QED BY <1>1, <1>2

\* A scan is over: what it has found, with the root or without, is sorted and stored.
LEMMA CollectedFits ==
    ASSUME TopicInv, NEW r \in Requests, Collected(r)
    PROVE  TopicInv'
<1>1. /\ TopicTypes /\ Fits(r) /\ arrived \in 0..Latest /\ pc[r] = "root"
      /\ chatVars' = chatVars /\ UNCHANGED <<want, historyVars>>
  BY DEF TopicInv, TopicTypes, Collected, At
<1>2. PICK x \in Extractors : x = ex[r]
  BY <1>1 DEF TopicTypes
<1>3. /\ x.entry \in Entries /\ EntryFits(x.entry) /\ x.seen \subseteq Come /\ x.hit \in BOOLEAN
      /\ (want[r] = All => r \notin served) /\ there[r] \subseteq Topic
      /\ ~slid => IF want[r] = All THEN \A m \in Found \ x.seen : Late(r, m)
                  ELSE r \in served \/ Due(r) \subseteq x.seen
  BY <1>1, <1>2 DEF Extractors, Fits, SpotFits, RootFits
<1>4. Topic \subseteq Come /\ Come \subseteq Messages /\ Found \subseteq Messages /\ Messages \subseteq Nat
      /\ Root \notin Found /\ Come \subseteq InTopic
  BY <1>1, ChatPlaces, TopicConstants DEF Come
<1>15. PICK all \in {x.seen, x.seen \cup ({Root} \cap Existing)} :
           LET e == Merged(x.entry, ByDate(all), want[r] = All)
           IN  /\ StoreCache(e, ByDate(all))
               /\ IF want[r] = All THEN End(r, "done", ByDate(all))
                  ELSE /\ Goto(r, "between") /\ UNCHANGED result
                       /\ Put(r, NewScan([x EXCEPT !.entry = e, !.list = ByDate(all)]))
  BY <1>2 DEF Collected, Put
<1>16. PICK s : s = ByDate(all)
  OBVIOUS
<1>17. PICK e : e = Merged(x.entry, s, want[r] = All)
  OBVIOUS
<1>5. /\ StoreCache(e, s)
      /\ IF want[r] = All THEN End(r, "done", s)
         ELSE /\ Goto(r, "between") /\ UNCHANGED result
              /\ Put(r, NewScan([x EXCEPT !.entry = e, !.list = s]))
  BY <1>15, <1>16, <1>17 DEF StoreCache, End, Put
<1>6. x.seen \subseteq all /\ all \subseteq Come /\ all \subseteq x.seen \cup {Root}
  <2>1. {Root} \cap Existing \subseteq Come
    BY <1>4, TopicConstants DEF Topic
  <2> QED BY <1>3, <2>1
<1>7. /\ s \in Seq(Messages) /\ Elems(s) = all /\ s = ByDate(Elems(s)) /\ (s = <<>> <=> all = {})
  <2>1. all \in SUBSET Messages
    BY <1>4, <1>6
  <2> QED BY <1>16, <2>1, ByDateOfMessages
<1>8. PICK full \in BOOLEAN : full = (want[r] = All)
  OBVIOUS
<1>9. /\ e \in Entries /\ Filed(e) /\ Elems(e.known) = Elems(x.entry.known) \cup all
      /\ s # <<>> => e.full = full
      /\ s # <<>> => e.last \in Elems(x.entry.known) \cup all
      /\ s = <<>> => e = x.entry
  <2>1. e = Merged(x.entry, s, full)
    BY <1>8, <1>17
  <2>2. Filed(x.entry) /\ Elems(s) \subseteq Come
    BY <1>3, <1>6, <1>7 DEF EntryFits
  <2>3. PICK k \in Entries : k = x.entry /\ Filed(k)
    BY <1>3, <2>2
  <2>4. e = Merged(k, s, full)
    BY <2>1, <2>3
  <2>5. /\ e \in Entries /\ Filed(e) /\ Elems(e.known) = Elems(k.known) \cup Elems(s)
        /\ s # <<>> => e.full = full
        /\ s # <<>> => e.last \in Elems(k.known) \cup Elems(s)
        /\ s = <<>> => e = k
    BY <1>7, <2>2, <2>3, <2>4, MergedFits
  <2> QED BY <1>7, <2>3, <2>5
<1>10. EntryFits(e)
  <2>1. CASE s = <<>>
    BY <1>3, <1>9, <2>1
  <2>2. ASSUME s # <<>>, e.full, ~slid, NEW m \in Found \ Elems(e.known) PROVE e.last < m
    <3>1. want[r] = All /\ m \in Found \ x.seen
      BY <1>6, <1>8, <1>9, <2>2
    <3>2. \A k \in x.seen \cup Elems(x.entry.known) : k < m
      BY <1>2, <1>3, <2>2, <3>1 DEF Late
    <3>3. Root < m
      BY <1>4, <2>2, TopicConstants DEF Messages
    <3> QED BY <1>6, <1>9, <2>2, <3>2, <3>3
  <2> QED BY <1>9, <2>1, <2>2 DEF EntryFits, LacksNewer
<1>11. PICK c \in Entries : cache' = c /\ EntryFits(c)
  BY <1>1, <1>5, <1>9, <1>10 DEF StoreCache, TopicInv, TopicTypes
<1>12. ASSUME ~slid, want[r] = All PROVE Due(r) \subseteq all
  <2>1. ASSUME NEW m \in Due(r), m \notin x.seen PROVE FALSE
    <3>1. m \in Found \ x.seen /\ m \in there[r]
      BY <1>3, <2>1 DEF Due, Found
    <3>2. Late(r, m)
      BY <1>3, <1>12, <3>1
    <3> QED BY <3>1, <3>2 DEF Late
  <2> QED BY <1>6, <2>1
<1>13. CASE want[r] = All
  <2>1. End(r, "done", s)
    BY <1>5, <1>13
  <2>2. Elems(s) \subseteq InTopic /\ Elems(s) \subseteq Within(want[r])
    BY <1>4, <1>6, <1>7, <1>13 DEF Within
  <2>3. "done" \in {"done", "failed"} /\ pc[r] # "idle"
    BY <1>1
  <2> QED BY <1>1, <1>7, <1>11, <1>12, <1>13, <2>1, <2>2, <2>3, EndFits
<1>14. CASE want[r] # All
  <2>1. PICK y : y = NewScan([x EXCEPT !.entry = e, !.list = s])
    OBVIOUS
  <2>2. /\ y \in Extractors /\ y.entry = e /\ y.list = s /\ y.hit = x.hit /\ Rested(y)
        /\ y.search = x.search
    BY <1>7, <1>9, <2>1 DEF NewScan, Extractors, Rested
  <2>3. y.before = 0 /\ y.seen = {} /\ y.fresh = {} /\ ~y.bounded
    BY <2>2, RestedHas
  <2>4. Goto(r, "between") /\ UNCHANGED result /\ Put(r, y)
    BY <1>2, <1>5, <1>14, <2>1
  <2>5. r \notin served /\ ~slid => Due(r) \subseteq Elems(y.list)
    BY <1>3, <1>6, <1>7, <1>14, <2>2
  <2>6. Elems(y.list) \subseteq Come /\ y.list = ByDate(Elems(y.list)) /\ EntryFits(y.entry)
    BY <1>4, <1>6, <1>7, <1>10, <2>2
  <2>7. "between" \in ScanPlaces \ {"idle", "done", "failed"} /\ served' = served /\ served' \in SUBSET Requests
        /\ there' = there /\ slid' = slid /\ want' = want
    BY <1>1 DEF ScanPlaces, TopicTypes, historyVars
  <2> QED BY <1>1, <1>11, <1>14, <2>2, <2>3, <2>4, <2>5, <2>6, <2>7, MovesFit
<1> QED BY <1>13, <1>14

\* The range is cut out, or looked for once more.
LEMMA BetweenFits ==
    ASSUME TopicInv, NEW r \in Requests, Between(r)
    PROVE  TopicInv'
<1>1. /\ TopicTypes /\ Fits(r) /\ arrived \in 0..Latest /\ pc[r] = "between"
      /\ chatVars' = chatVars /\ UNCHANGED <<cache, want, historyVars>>
  BY DEF TopicInv, TopicTypes, Between, At
<1>2. PICK x, c, w : /\ x \in Extractors /\ x = ex[r] /\ c \in Entries /\ c = cache /\ EntryFits(c)
                     /\ w = want[r]
  BY <1>1 DEF TopicTypes, TopicInv
<1>3. /\ x.entry \in Entries /\ EntryFits(x.entry) /\ x.list \in Seq(Messages) /\ Rested(x)
      /\ Elems(x.list) \subseteq Come /\ w \in Messages \X Messages /\ w # All
      /\ x.before = 0 /\ x.seen = {} /\ x.fresh = {} /\ ~x.bounded
      /\ r \notin served => /\ x.list = ByDate(Elems(x.list))
                            /\ ~slid => Due(r) \subseteq Elems(x.list)
  <2>1. /\ x.entry \in Entries /\ EntryFits(x.entry) /\ x.list \in Seq(Messages) /\ Rested(x)
        /\ Elems(x.list) \subseteq Come /\ w # All
        /\ r \notin served => /\ x.list = ByDate(Elems(x.list))
                              /\ ~slid => Due(r) \subseteq Elems(x.list)
    BY <1>1, <1>2 DEF Extractors, Fits, SpotFits, ListFits
  <2>2. w \in Messages \X Messages
    BY <1>1, <1>2, <2>1 DEF TopicTypes
  <2> QED BY <1>2, <2>1, <2>2, RestedHas
<1>4. CASE Missing(r) = {}
  <2>1. PICK s : s = Slice(x.list, w)
    OBVIOUS
  <2>2. End(r, "done", s) /\ Anchors(w) \subseteq Elems(x.list)
    BY <1>2, <1>4, <2>1 DEF Between, Missing
  <2>3. /\ s \in Seq(Messages) /\ Elems(s) \subseteq Elems(x.list)
        /\ x.list = ByDate(Elems(x.list)) =>
               Elems(s) = Elems(x.list) \cap Within(w) /\ s = ByDate(Elems(s))
    BY <1>3, <2>1, <2>2, SliceFits
  <2>4. Due(r) \subseteq Within(w)
    BY <1>2 DEF Due
  <2>5. ~slid /\ r \notin served =>
            Due(r) \subseteq Elems(s) /\ Elems(s) \subseteq Within(w) /\ s = ByDate(Elems(s))
    BY <1>3, <2>3, <2>4
  <2>6. "done" \in {"done", "failed"} /\ pc[r] # "idle" /\ Elems(s) \subseteq InTopic
    BY <1>1, <1>3, <2>3 DEF Come
  <2> QED BY <1>1, <1>2, <2>2, <2>3, <2>5, <2>6, EndFits
<1>5. CASE Missing(r) # {}
  <2>1. served' = served /\ served' \in SUBSET Requests /\ UNCHANGED <<result, want, there, slid>>
    BY <1>1, <1>5 DEF Between, historyVars, TopicTypes
  <2>2. CASE ex[r].search = "used" /\ ex[r].replies = "untried"
    <3>1. PICK p : p = Opening(w, x.entry)
      OBVIOUS
    <3>2. /\ p \in ScanPlaces \ {"idle", "done", "failed"} /\ p \in {"serve", "prefix", "page"}
          /\ (p = "prefix" => x.entry.full)
      BY <3>1 DEF Opening, Beyond, ScanPlaces
    <3>3. PICK y \in Extractors : y = [x EXCEPT !.search = "broken"]
      BY <1>2 DEF Extractors
    <3>4. /\ y.entry = x.entry /\ y.list = x.list /\ y.hit = x.hit /\ Rested(y) /\ y.search = "broken"
          /\ y.before = 0 /\ y.seen = {} /\ y.fresh = {} /\ ~y.bounded
      BY <1>2, <1>3, <3>3 DEF Extractors, Rested
    <3>5. Goto(r, p) /\ Put(r, y)
      BY <1>2, <1>5, <2>2, <3>1, <3>3 DEF Between
    <3>6. \A m \in Found : Coming(y, m)
      BY <1>1, <3>4, AllComing
    <3> QED BY <1>1, <1>2, <1>3, <2>1, <3>2, <3>4, <3>5, <3>6, MovesFit
  <2>3. CASE ~(ex[r].search = "used" /\ ex[r].replies = "untried")
    <3>1. Goto(r, "anchors") /\ Put(r, x)
      <4>1. Goto(r, "anchors") /\ ex' = ex
        BY <1>5, <2>3 DEF Between
      <4> QED BY <1>1, <1>2, <4>1 DEF Put, TopicTypes
    <3>2. "anchors" \in ScanPlaces \ {"idle", "done", "failed"}
      BY DEF ScanPlaces
    <3> QED BY <1>1, <1>2, <1>3, <2>1, <3>1, <3>2, MovesFit
  <2> QED BY <2>2, <2>3
<1> QED BY <1>4, <1>5

\* Messages fetched by their IDs join the list and the entry.
LEMMA RecoveredFits ==
    ASSUME arrived \in 0..Latest, NEW x \in Extractors, NEW r, x = ex[r], NEW ids,
           EntryFits(x.entry), Elems(x.list) \subseteq Come, NEW all, all = Recovered(r, ids)
    PROVE  /\ all \in Seq(Messages) /\ Elems(x.list) \subseteq Elems(all) /\ Elems(all) \subseteq Come
           /\ x.list = ByDate(Elems(x.list)) => all = ByDate(Elems(all))
           /\ Kept(r, all) \in Entries /\ EntryFits(Kept(r, all))
           /\ CacheKept(r, all) => cache' = cache \/ cache' = Kept(r, all)
<1>1. x.entry \in Entries /\ x.list \in Seq(Messages)
  BY DEF Extractors
<1>2. Topic \subseteq Come /\ Come \subseteq Messages
  BY ChatPlaces
<1>3. CASE all = x.list
  <2>1. Kept(r, all) = x.entry
    BY <1>3 DEF Kept
  <2> QED BY <1>1, <1>3, <2>1 DEF CacheKept, StoreCache
<1>4. CASE all # x.list
  <2> DEFINE S == Elems(x.list) \cup Belongs(ids)
  <2>1. all = ByDate(S) /\ S \in SUBSET Messages /\ S \subseteq Come
    BY <1>2, <1>4 DEF Recovered, Belongs
  <2> HIDE DEF S
  <2>2. all \in Seq(Messages) /\ Elems(all) = S /\ all = ByDate(Elems(all))
    BY <2>1, ByDateOfMessages
  <2>3. PICK e \in Entries : e = x.entry /\ Filed(e)
    BY <1>1 DEF EntryFits
  <2>4. Kept(r, all) = Merged(e, all, FALSE)
    BY <1>4, <2>3 DEF Kept
  <2>5. /\ Merged(e, all, FALSE) \in Entries /\ Filed(Merged(e, all, FALSE))
        /\ all # <<>> => Merged(e, all, FALSE).full = FALSE
        /\ all = <<>> => Merged(e, all, FALSE) = e
    BY <2>1, <2>2, <2>3, MergedFits
  <2>6. EntryFits(Merged(e, all, FALSE))
    BY <2>3, <2>5 DEF EntryFits, LacksNewer
  <2>7. CacheKept(r, all) => cache' = cache \/ cache' = Kept(r, all)
    BY DEF CacheKept, StoreCache
  <2>8. Elems(x.list) \subseteq Elems(all)
    BY <2>2 DEF S
  <2> QED BY <2>1, <2>2, <2>4, <2>5, <2>6, <2>7, <2>8
<1> QED BY <1>3, <1>4

LEMMA FetchAnchorsFits ==
    ASSUME TopicInv, NEW r \in Requests, FetchAnchors(r)
    PROVE  TopicInv'
<1>1. /\ TopicTypes /\ Fits(r) /\ arrived \in 0..Latest /\ pc[r] = "anchors" /\ Goto(r, "probe")
      /\ chatVars' = chatVars /\ UNCHANGED <<want, result, historyVars>> /\ EntryFits(cache)
  BY DEF TopicInv, TopicTypes, FetchAnchors, At
<1>2. PICK x \in Extractors : x = ex[r]
  BY <1>1 DEF TopicTypes
<1>3. /\ EntryFits(x.entry) /\ Rested(x) /\ Elems(x.list) \subseteq Come /\ want[r] # All
      /\ x.before = 0 /\ x.seen = {} /\ x.fresh = {} /\ ~x.bounded
      /\ r \notin served => /\ x.list = ByDate(Elems(x.list))
                            /\ ~slid => Due(r) \subseteq Elems(x.list)
  <2>1. /\ EntryFits(x.entry) /\ Rested(x) /\ Elems(x.list) \subseteq Come /\ want[r] # All
        /\ r \notin served => /\ x.list = ByDate(Elems(x.list))
                              /\ ~slid => Due(r) \subseteq Elems(x.list)
    BY <1>1, <1>2 DEF Fits, SpotFits, ListFits
  <2> QED BY <2>1, RestedHas
<1>4. PICK ids \in {{}, Missing(r)} :
          /\ CacheKept(r, Recovered(r, ids))
          /\ Put(r, [ex[r] EXCEPT !.list = Recovered(r, ids), !.entry = Kept(r, Recovered(r, ids))])
  BY DEF FetchAnchors
<1>5. PICK all : all = Recovered(r, ids)
  OBVIOUS
<1>6. PICK k : k = Kept(r, all)
  OBVIOUS
<1>7. /\ all \in Seq(Messages) /\ Elems(x.list) \subseteq Elems(all) /\ Elems(all) \subseteq Come
      /\ x.list = ByDate(Elems(x.list)) => all = ByDate(Elems(all))
      /\ k \in Entries /\ EntryFits(k)
      /\ CacheKept(r, all) => cache' = cache \/ cache' = k
  BY <1>1, <1>2, <1>3, <1>5, <1>6, RecoveredFits
<1>8. CacheKept(r, all) /\ Put(r, [x EXCEPT !.list = all, !.entry = k])
  BY <1>2, <1>4, <1>5, <1>6 DEF CacheKept, StoreCache, Put
<1>9. PICK c \in Entries : cache' = c /\ EntryFits(c)
  BY <1>1, <1>7, <1>8 DEF TopicTypes
<1>10. PICK y : y = [x EXCEPT !.list = all, !.entry = k]
  OBVIOUS
<1>11. /\ y \in Extractors /\ y.entry = k /\ y.list = all /\ y.hit = x.hit /\ Rested(y)
       /\ y.search = x.search
  BY <1>3, <1>7, <1>10 DEF Extractors, Rested
<1>12. y.before = 0 /\ y.seen = {} /\ y.fresh = {} /\ ~y.bounded /\ Put(r, y)
  BY <1>8, <1>10, <1>11, RestedHas
<1>13. /\ r \notin served => y.list = ByDate(Elems(y.list)) /\ (~slid => Due(r) \subseteq Elems(y.list))
       /\ Elems(y.list) \subseteq Come /\ EntryFits(y.entry)
  BY <1>3, <1>7, <1>11
<1>14. /\ served' = served /\ served' \in SUBSET Requests /\ "probe" \in ScanPlaces \ {"idle", "done", "failed"}
       /\ UNCHANGED <<result, want, there, slid>>
  BY <1>1 DEF TopicTypes, historyVars, ScanPlaces
<1> QED BY <1>1, <1>3, <1>9, <1>11, <1>12, <1>13, <1>14, MovesFit

LEMMA ProbeFits ==
    ASSUME TopicInv, NEW r \in Requests, Probe(r)
    PROVE  TopicInv'
<1>1. /\ TopicTypes /\ Fits(r) /\ arrived \in 0..Latest /\ pc[r] = "probe"
      /\ chatVars' = chatVars /\ UNCHANGED <<want, historyVars>> /\ EntryFits(cache)
  BY DEF TopicInv, TopicTypes, Probe, At
<1>2. PICK x, w : x \in Extractors /\ x = ex[r] /\ w = want[r]
  BY <1>1 DEF TopicTypes
<1>3. /\ EntryFits(x.entry) /\ Elems(x.list) \subseteq Come /\ w # All
      /\ r \notin served => /\ x.list = ByDate(Elems(x.list))
                            /\ ~slid => Due(r) \subseteq Elems(x.list)
  BY <1>1, <1>2 DEF Fits, SpotFits, ListFits
<1>4. PICK ids : CacheKept(r, Recovered(r, ids)) /\ End(r, "done", Slice(Recovered(r, ids), want[r]))
  BY DEF Probe
<1>5. PICK all : all = Recovered(r, ids)
  OBVIOUS
<1>6. PICK k, s : k = Kept(r, all) /\ s = Slice(all, w)
  OBVIOUS
<1>7. /\ all \in Seq(Messages) /\ Elems(x.list) \subseteq Elems(all) /\ Elems(all) \subseteq Come
      /\ x.list = ByDate(Elems(x.list)) => all = ByDate(Elems(all))
      /\ k \in Entries /\ EntryFits(k)
      /\ CacheKept(r, all) => cache' = cache \/ cache' = k
  BY <1>1, <1>2, <1>3, <1>5, <1>6, RecoveredFits
<1>8. CacheKept(r, all) /\ End(r, "done", s)
  BY <1>2, <1>4, <1>5, <1>6 DEF CacheKept, StoreCache, End
<1>9. PICK c \in Entries : cache' = c /\ EntryFits(c)
  BY <1>1, <1>7, <1>8 DEF TopicTypes
<1>10. w \in Messages \X Messages
  BY <1>1, <1>2, <1>3 DEF TopicTypes
<1>11. /\ s \in Seq(Messages) /\ Elems(s) \subseteq Elems(all)
       /\ all = ByDate(Elems(all)) /\ Anchors(w) \subseteq Elems(all) =>
              /\ Elems(s) = Elems(all) \cap Within(w) /\ s = ByDate(Elems(s))
  BY <1>3, <1>6, <1>7, <1>10, SliceFits
<1>12. Due(r) \subseteq Within(w)
  BY <1>2 DEF Due
<1>13. ~slid /\ Anchors(w) \subseteq Elems(s) /\ r \notin served =>
           Due(r) \subseteq Elems(s) /\ Elems(s) \subseteq Within(w) /\ s = ByDate(Elems(s))
  BY <1>3, <1>7, <1>11, <1>12
<1>14. "done" \in {"done", "failed"} /\ pc[r] # "idle" /\ Elems(s) \subseteq InTopic
  BY <1>1, <1>7, <1>11 DEF Come
<1> QED BY <1>1, <1>2, <1>8, <1>9, <1>11, <1>13, <1>14, EndFits

-----------------------------------------------------------------------------
(* The theorem                                                             *)

LEMMA TopicStarts == TopicInit => TopicInv
<1> SUFFICES ASSUME TopicInit PROVE TopicInv
  OBVIOUS
<1> DEFINE x == NewExtractor(NoEntry)
<1>1. NoEntry \in Entries /\ EntryFits(NoEntry) /\ x \in Extractors /\ Rested(x) /\ x.entry = NoEntry
      /\ ~x.hit /\ x.list = <<>> /\ Elems(x.list) = {}
  BY NoEntryFits, NewExtractorIs
<1>2. x.seen = {} /\ x.fresh = {} /\ ~x.bounded /\ x.before = 0 /\ Elems(<<>>) = {} /\ <<>> \in Seq(Messages)
  BY <1>1, RestedHas DEF Elems
<1> HIDE DEF x
<1>3. arrived \in 0..Latest /\ blind \in SUBSET Messages /\ cache = NoEntry /\ deleted = {}
      /\ pc = [r \in Requests |-> "idle"] /\ want = [r \in Requests |-> All]
      /\ ex = [r \in Requests |-> x] /\ result = [r \in Requests |-> <<>>]
      /\ there = [r \in Requests |-> {}] /\ slid = FALSE /\ served = {}
  BY TopicConstants, TopicAssumption DEF TopicInit, x
<1>4. TopicTypes
  BY <1>1, <1>2, <1>3 DEF TopicTypes, ScanPlaces
<1>5. ASSUME NEW r \in Requests PROVE Fits(r)
  <2>1. pc[r] = "idle" /\ ex[r] = x /\ result[r] = <<>> /\ there[r] = {} /\ want[r] = All
    BY <1>3
  <2>2. EntryFits(ex[r].entry) /\ SpotFits(r)
    BY <1>1, <1>2, <1>3, <2>1 DEF SpotFits
  <2>3. PageFits(r) /\ RootFits(r) /\ ListFits(r) /\ DoneFits(r)
    BY <2>1 DEF PageFits, RootFits, ListFits, DoneFits, Answered, At
  <2> QED BY <2>2, <2>3 DEF Fits
<1> QED BY <1>1, <1>3, <1>4, <1>5 DEF TopicInv

LEMMA TopicGoesOn == TopicInv /\ [TopicNext]_topicVars => TopicInv'
<1> SUFFICES ASSUME TopicInv, [TopicNext]_topicVars PROVE TopicInv'
  OBVIOUS
<1>1. ASSUME NEW r \in Requests, NEW w \in Wants, Begin(r, w) PROVE TopicInv'
  BY <1>1, BeginFits
<1>2. ASSUME NEW r \in Requests, Extract(r) PROVE TopicInv'
  BY <1>2, ServeFits, PrefixFits, BySearchFits, SearchBreaksFits, ByRepliesFits, CollectedFits,
     BetweenFits, FetchAnchorsFits, ProbeFits, FailsFits DEF Extract
<1>3. ASSUME Arrive PROVE TopicInv'
  BY <1>3, ArriveFits
<1>4. ASSUME NEW d \in Messages, Delete(d) PROVE TopicInv'
  BY <1>4, DeleteFits
<1>5. ASSUME UNCHANGED topicVars PROVE TopicInv'
  <2>1. /\ TopicTypes' /\ chatVars' = chatVars /\ cache' = cache /\ slid' = slid /\ served' = served
        /\ UNCHANGED <<pc, want, ex, result, there>>
    BY <1>5 DEF topicVars, chatVars, historyVars, TopicTypes, TopicInv
  <2>2. ASSUME NEW r \in Requests PROVE Fits(r)'
    BY <2>1, OthersFit DEF TopicInv
  <2>3. PICK c : c = cache /\ EntryFits(c)
    BY DEF TopicInv
  <2>4. EntryFits(c)'
    BY <2>1, <2>3, EntryStays
  <2>5. EntryFits(cache)'
    BY <2>1, <2>3, <2>4 DEF EntryFits, Filed, LacksNewer
  <2> QED BY <2>1, <2>2, <2>5 DEF TopicInv
<1> QED BY <1>1, <1>2, <1>3, <1>4, <1>5 DEF TopicNext

LEMMA TopicHolds == TopicInv => TopicSound
<1> SUFFICES ASSUME TopicInv PROVE TopicSound
  OBVIOUS
<1>1. OnlyTopic
  <2>1. Elems(cache.known) \subseteq InTopic
    BY DEF TopicInv, EntryFits, Filed, Come
  <2>2. \A r \in Requests : Elems(result[r]) \subseteq InTopic
    BY DEF TopicInv, Fits, SpotFits
  <2> QED BY <2>1, <2>2 DEF OnlyTopic
<1>2. ScanExact
  BY DEF TopicInv, Fits, DoneFits, ScanExact
<1>3. CacheTruth
  <2>1. ASSUME cache.full, ~slid, NEW m \in Topic \ (blind \cup {Root} \cup Elems(cache.known))
        PROVE  m > cache.last
    <3>1. m \in Found \ Elems(cache.known)
      BY <2>1 DEF Found
    <3>2. cache.last < m
      BY <2>1, <3>1 DEF TopicInv, EntryFits, LacksNewer
    <3>3. cache.last \in Nat /\ m \in Nat
      BY <3>1, ChatPlaces DEF TopicInv, TopicTypes, Entries
    <3> QED BY <3>2, <3>3
  <2> QED BY <2>1 DEF CacheTruth
<1> QED BY <1>1, <1>2, <1>3 DEF TopicSound, TopicExact

\* TopicSound: what a request for a topic returns is the topic, or all of it that lies
\* between two anchors, and a cache recorded as complete is one, however many requests scan
\* the topic while messages come and go.
THEOREM TopicIsSound == TopicSpec => []TopicSound
<1>1. TopicSpec => []TopicInv
  BY TopicStarts, TopicGoesOn, PTL DEF TopicSpec
<1> QED BY <1>1, TopicHolds, PTL
=============================================================================
