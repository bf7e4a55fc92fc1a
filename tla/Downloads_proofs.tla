-------------------------- MODULE Downloads_proofs --------------------------
(***************************************************************************)
(* The files of a download, for any users, jobs and sizes: a private       *)
(* link's file stays as it was downloaded, and what part files, state      *)
(* files and streams are put together to is the post's file.  And the pool *)
(* that runs the downloads: its per-user slots and its queue, for any      *)
(* users and tasks, any limit and any number of workers.                   *)
(***************************************************************************)
EXTENDS Downloads, WorkerPool, FiniteSetTheorems, SequenceTheorems, TLAPS

\* A user has one download under way.
Serial ==
    \A j, k \in Jobs : j # k /\ UserOf[j] = UserOf[k] => pc[j] \in Over \/ pc[k] \in Over

\* A stream to disk has its path for itself.
Exclusive ==
    \A j, k \in Jobs : j # k /\ PathOf[j] = PathOf[k] /\ Stream(j, "disk") => pc[k] # "stream"

IInv == TypeOK /\ Serial /\ Exclusive /\ PrivateFilesIntact

-----------------------------------------------------------------------------
(* Files, chunks and pieces of a file                                      *)

LEMMA WriteFacts ==
    ASSUME NEW fs, NEW p, NEW c
    PROVE  /\ DOMAIN Write(fs, p, c) = DOMAIN fs \cup {p}
           /\ Write(fs, p, c)[p] = c
           /\ \A q \in DOMAIN fs : q # p => Write(fs, p, c)[q] = fs[q]
BY DEF Write

LEMMA DeleteFacts ==
    ASSUME NEW fs, NEW ps
    PROVE  /\ DOMAIN Delete(fs, ps) = DOMAIN fs \ ps
           /\ \A q \in DOMAIN fs \ ps : Delete(fs, ps)[q] = fs[q]
BY DEF Delete

LEMMA FilesWritten ==
    ASSUME NEW fs, FilesOK(fs), NEW p \in Paths, NEW c \in Seq(Units)
    PROVE  FilesOK(Write(fs, p, c))
<1> DEFINE after == Write(fs, p, c)
<1>1. /\ DOMAIN after = DOMAIN fs \cup {p} /\ after[p] = c
      /\ \A q \in DOMAIN fs : q # p => after[q] = fs[q]
  BY DEF Write
<1> SUFFICES FilesOK(after)
  OBVIOUS
<1> HIDE DEF after
<1> QED BY <1>1 DEF FilesOK

LEMMA FilesDeleted ==
    ASSUME NEW fs, FilesOK(fs), NEW ps
    PROVE  FilesOK(Delete(fs, ps))
<1> DEFINE after == Delete(fs, ps)
<1>1. /\ DOMAIN after = DOMAIN fs \ ps
      /\ \A q \in DOMAIN fs \ ps : after[q] = fs[q]
  BY DEF Delete
<1> SUFFICES FilesOK(after)
  OBVIOUS
<1> HIDE DEF after
<1> QED BY <1>1 DEF FilesOK

LEMMA ChunkFacts ==
    ASSUME NEW n \in Nat
    PROVE  Chunks(n) \in Nat /\ Chunks(n) * Chunk \in 0..n
BY DownloadsAssumption DEF Chunks

LEMMA SpanType ==
    ASSUME NEW j \in Jobs, NEW from \in Nat, NEW to \in Nat, from <= to
    PROVE  Span(j, from, to) \in Seq(Units)
<1>1. PostOf[j] \in {PostOf[k] : k \in Jobs}
  OBVIOUS
<1>2. \A i \in 1..(to - from) : <<PostOf[j], from + i>> \in Units
  BY <1>1 DEF Units
<1>3. to - from \in Nat
  OBVIOUS
<1> QED BY <1>2, <1>3 DEF Span

LEMMA JoinType ==
    ASSUME NEW s \in Seq(Units), NEW t \in Seq(Units)
    PROVE  s \o t \in Seq(Units)
OBVIOUS

LEMMA KeptType ==
    ASSUME NEW j \in Jobs, FilesOK(part), PathOf[j] \in DOMAIN part
    PROVE  Kept(j) \in Seq(Units) /\ Len(Kept(j)) \in Nat
<1> DEFINE s == part[PathOf[j]]
           m == Chunks(Len(s)) * Chunk
<1>1. s \in Seq(Units)
  BY DEF FilesOK
<1>2. m \in 0..Len(s)
  <2> HIDE DEF s
  <2>1. Len(s) \in Nat
    BY <1>1
  <2> QED BY <2>1, ChunkFacts
<1>3. SubSeq(s, 1, m) \in Seq(Units)
  <2> HIDE DEF s, m
  <2> QED BY <1>1, <1>2
<1> QED BY <1>3 DEF Kept

\* The states of a download count bytes and chunks.
LEMMA StateTypes ==
    ASSUME NEW st \in States
    PROVE  /\ \A s \in Seq(Units) : AtEndOf(st, s) \in States
           /\ \A n \in Nat : [st EXCEPT !.bytes = n] \in States
           /\ \A id \in FileIds : Fresh(id) \in States
<1>1. \A s \in Seq(Units) : Len(s) \in Nat /\ Chunks(Len(s)) \in Nat
  BY ChunkFacts
<1> QED BY <1>1 DEF AtEndOf, States, Fresh

\* The next chunk of a file that is not at its end.
LEMMA NextFacts ==
    ASSUME NEW j \in Jobs, State(j) \in States, ~AllRead(j)
    PROVE  NextFrom(j) \in Nat /\ NextEnd(j) \in Nat /\ NextFrom(j) < NextEnd(j)
<1>1. State(j).chunk \in Nat /\ Chunk \in Nat \ {0} /\ Size[j] \in Nat
  BY DownloadsAssumption DEF States
<1>2. NextFrom(j) \in Nat
  BY <1>1 DEF NextFrom
<1> QED BY <1>1, <1>2 DEF AllRead, NextEnd, Least

LEMMA LoadedType ==
    ASSUME NEW j \in Jobs, TypeOK
    PROVE  Loaded(j) \in States
<1> DEFINE p  == PathOf[j]
           st == IF p \in DOMAIN saved /\ saved[p].id = fileId[j] THEN saved[p]
                                                                  ELSE Fresh(fileId[j])
<1>1. st \in States
  BY StateTypes DEF TypeOK, SavedOK, States, Fresh
<1>2. <<>> \in Seq(Units)
  OBVIOUS
<1>3. p \in DOMAIN part => Kept(j) \in Seq(Units)
  BY KeptType DEF TypeOK
<1>4. Loaded(j) = IF p \in DOMAIN part
                  THEN AtEndOf(st, IF Len(part[p]) <= Size[j] THEN Kept(j) ELSE <<>>)
                  ELSE st
  BY DEF Loaded
<1> HIDE DEF p, st
<1> QED BY <1>1, <1>2, <1>3, <1>4, StateTypes

LEMMA NoCallType == NoId \in FileIds /\ NoCall \in Calls
BY DownloadsAssumption DEF NoId, NoCall, Calls, Fresh, States

-----------------------------------------------------------------------------
(* Types                                                                   *)

LEMMA InitInv == ASSUME Init PROVE IInv
<1>1. DOMAIN file = {} /\ DOMAIN part = {} /\ DOMAIN saved = {}
  BY DEF Init
<1>2. TypeOK
  BY <1>1, NoCallType, DownloadsAssumption DEF Init, TypeOK, FilesOK, SavedOK, NoCall, Stream
<1>3. Serial /\ Exclusive /\ PrivateFilesIntact
  BY DEF Init, Serial, Over, Exclusive, Stream, PrivateFilesIntact
<1> QED BY <1>2, <1>3 DEF IInv

\* A download's step changes its own pc and call, if any.
LEMMA LeaveFacts ==
    ASSUME NEW j \in Jobs, NEW where, Leave(j, where), TypeOK,
           where \in {"failed", "got"}
    PROVE  /\ pc' \in [Jobs -> {"new", "lost", "try", "stream", "failed", "got", "sent", "done"}]
           /\ call' \in [Jobs -> Calls]
           /\ \A k \in Jobs : pc'[k] = "stream" <=> call'[k].mode # "none"
           /\ \A k \in Jobs : pc'[k] = "stream" => k # j /\ pc[k] = "stream" /\ call'[k] = call[k]
           /\ pc'[j] = where
BY NoCallType DEF Leave, Goto, TypeOK, NoCall

LEMMA AgainFacts ==
    ASSUME NEW j \in Jobs, NEW st \in States, Again(j, st), TypeOK, pc[j] = "stream",
           call[j].try < StreamTries
    PROVE  /\ pc' = pc /\ call' \in [Jobs -> Calls]
           /\ \A k \in Jobs : call'[k].mode = call[k].mode
<1>1. call[j] \in Calls /\ call[j].try + 1 \in 0..StreamTries
  BY DownloadsAssumption DEF TypeOK, Calls
<1>2. [call[j] EXCEPT !.try = @ + 1, !.state = st] \in Calls
  BY <1>1 DEF Calls
<1>3. call' = [call EXCEPT ![j] = [call[j] EXCEPT !.try = @ + 1, !.state = st]]
  BY DEF Again, TypeOK
<1> QED BY <1>1, <1>2, <1>3 DEF Again, TypeOK, Calls

LEMMA SavedWritten ==
    ASSUME NEW j \in Jobs, NEW st \in States, saved' = Write(saved, PathOf[j], st), TypeOK
    PROVE  SavedOK'
<1> DEFINE p == PathOf[j]
<1>1. /\ DOMAIN saved' = DOMAIN saved \cup {p} /\ saved'[p] = st
      /\ \A q \in DOMAIN saved : q # p => saved'[q] = saved[q]
  BY DEF Write
<1>2. p \in Paths
  BY DEF Paths
<1> HIDE DEF p
<1> QED BY <1>1, <1>2 DEF TypeOK, SavedOK

\* What a finished download does to the files.
LEMMA ReturnFacts ==
    ASSUME NEW j \in Jobs, NEW content \in Seq(Units), Succeeds(j, content), TypeOK
    PROVE  /\ FilesOK(file)' /\ FilesOK(part)' /\ SavedOK' /\ given' \in [Jobs -> Seq(Units)]
           /\ DOMAIN part' = DOMAIN part \ {PathOf[j]}
           /\ \/ Leave(j, "failed") /\ UNCHANGED given
              \/ Leave(j, "got") /\ PathOf[j] \in DOMAIN file' /\ given'[j] = file'[PathOf[j]]
           /\ \A k \in Jobs \ {j} : given'[k] = given[k]
           /\ \A p \in DOMAIN file \ {PathOf[j]} : p \in DOMAIN file' /\ file'[p] = file[p]
<1> DEFINE p == PathOf[j]
           c == IF p \in DOMAIN part THEN part[p] ELSE content
<1>1. c \in Seq(Units) /\ p \in Paths
  BY DEF TypeOK, FilesOK, Paths
<1>2. FilesOK(part)' /\ DOMAIN part' = DOMAIN part \ {p}
  BY FilesDeleted, DeleteFacts DEF Succeeds, TypeOK, FilesOK
<1>3. SavedOK'
  BY DEF Succeeds, Delete, TypeOK, SavedOK
<1>4. Returns(j, c)
  BY DEF Succeeds
<1>5. CASE c = <<>>
  <2>1. file' = Delete(file, {p}) /\ Leave(j, "failed") /\ given' = given
    BY <1>4, <1>5 DEF Returns
  <2>2. FilesOK(file)'
    BY <2>1, FilesDeleted DEF TypeOK, FilesOK
  <2>3. \A q \in DOMAIN file \ {p} : q \in DOMAIN file' /\ file'[q] = file[q]
    BY <2>1, DeleteFacts
  <2> QED BY <1>2, <1>3, <2>1, <2>2, <2>3 DEF TypeOK
<1>6. CASE c # <<>>
  <2>1. /\ file' = Write(file, p, c) /\ Leave(j, "got")
        /\ given' = [given EXCEPT ![j] = c]
    BY <1>4, <1>6 DEF Returns
  <2>2. FilesOK(file)'
    BY <1>1, <2>1, FilesWritten DEF TypeOK, FilesOK
  <2>3. /\ p \in DOMAIN file' /\ file'[p] = c
        /\ \A q \in DOMAIN file \ {p} : q \in DOMAIN file' /\ file'[q] = file[q]
    <3> HIDE DEF c, p
    <3> QED BY <2>1 DEF Write
  <2>4. given' \in [Jobs -> Seq(Units)] /\ given'[j] = c /\ \A k \in Jobs \ {j} : given'[k] = given[k]
    <3> HIDE DEF c
    <3> QED BY <1>1, <2>1 DEF TypeOK
  <2> HIDE DEF c
  <2> QED BY <1>2, <1>3, <2>1, <2>2, <2>3, <2>4
<1> QED BY <1>5, <1>6

\* The files of some directories are removed, all others stay.
LEMMA RemoveFacts ==
    ASSUME NEW dirs, Remove(dirs), TypeOK
    PROVE  /\ FilesOK(file)' /\ FilesOK(part)' /\ SavedOK'
           /\ \A p \in DOMAIN part : Dir(p) \notin dirs => p \in DOMAIN part'
           /\ \A p \in DOMAIN file :
                 Dir(p) \notin dirs => p \in DOMAIN file' /\ file'[p] = file[p]
<1> DEFINE gone == {p \in Paths : Dir(p) \in dirs}
<1>1. /\ file' = Delete(file, gone) /\ part' = Delete(part, gone)
      /\ saved' = Delete(saved, gone)
  BY DEF Remove
<1>2. \A p : Dir(p) \notin dirs => p \notin gone
  OBVIOUS
<1> HIDE DEF gone
<1>3. FilesOK(file)' /\ FilesOK(part)'
  <2>1. FilesOK(Delete(file, gone)) /\ FilesOK(Delete(part, gone))
    BY FilesDeleted DEF TypeOK
  <2> QED BY <1>1, <2>1 DEF FilesOK
<1>4. SavedOK'
  BY <1>1 DEF Delete, TypeOK, SavedOK
<1>5. \A p \in DOMAIN part : p \notin gone => p \in DOMAIN part'
  BY <1>1 DEF Delete
<1>6. \A p \in DOMAIN file : p \notin gone => p \in DOMAIN file' /\ file'[p] = file[p]
  BY <1>1 DEF Delete
<1> QED BY <1>2, <1>3, <1>4, <1>5, <1>6

LEMMA EndFacts ==
    ASSUME NEW js, End(js), TypeOK
    PROVE  /\ pc' \in [Jobs -> {"new", "lost", "try", "stream", "failed", "got", "sent", "done"}]
           /\ attempt' \in [Jobs -> 0..MaxAttempts] /\ fileId' \in [Jobs -> FileIds]
           /\ \A k \in Jobs : pc'[k] = IF k \in js THEN "lost" ELSE pc[k]
BY NoCallType, DownloadsAssumption DEF End, TypeOK

LEMMA TypeStep ==
    ASSUME TypeOK, Serial, Exclusive, [Next]_vars
    PROVE  TypeOK'
<1> USE DEF Stream
<1>1. ASSUME NEW j \in Jobs, Begin(j) PROVE TypeOK'
  BY <1>1, DownloadsAssumption DEF Begin, TypeOK, Goto, fileVars, boundVars, FilesOK, SavedOK
<1>2. ASSUME NEW j \in Jobs, Found(j) PROVE TypeOK'
  <2>1. FilesOK(file)' /\ FilesOK(part)' /\ SavedOK'
    BY <1>2, FilesDeleted DEF Found, TypeOK, FilesOK, SavedOK, Delete
  <2>2. given' \in [Jobs -> Seq(Units)]
    BY <1>2 DEF Found, TypeOK, FilesOK
  <2>3. \A k \in Jobs : Stream(k, "disk")' => PathOf[k] \in DOMAIN part'
    <3>1. DOMAIN part' = DOMAIN part \ {PathOf[j]}
      BY <1>2 DEF Found, Delete
    <3>2. \A k \in Jobs : pc'[k] = "stream" => pc[k] = "stream" /\ call'[k] = call[k]
      BY <1>2 DEF Found, TypeOK, Goto
    <3> QED BY <1>2, <3>1, <3>2 DEF Found, TypeOK, NoStream
  <2>4. /\ pc' \in [Jobs -> {"new", "lost", "try", "stream", "failed", "got", "sent", "done"}]
        /\ \A k \in Jobs : pc'[k] = "stream" <=> call'[k].mode # "none"
    BY <1>2 DEF Found, TypeOK, Goto
  <2> QED BY <1>2, <2>1, <2>2, <2>3, <2>4 DEF Found, TypeOK, boundVars
<1>3. ASSUME NEW j \in Jobs, Open(j) PROVE TypeOK'
  <2> DEFINE p == PathOf[j]
             content == IF p \in DOMAIN part /\ Len(part[p]) <= Size[j] THEN Kept(j) ELSE <<>>
             opened(mode) == [mode |-> mode, try |-> 1, state |-> Loaded(j)]
  <2>1. p \in Paths /\ content \in Seq(Units) /\ <<>> \in Seq(Units)
    BY KeptType DEF TypeOK, Paths
  <2>2. PICK mode \in {"ram", "disk"}, c \in {opened("ram"), opened("disk")} :
          /\ c = opened(mode) /\ call' = [call EXCEPT ![j] = c]
          /\ \/ part' = Write(part, p, content)
             \/ part' = Delete(part, {p}) /\ mode = "ram"
             \/ part' = Write(part, p, <<>>)
    BY <1>3 DEF Open, OpenPart
  <2>3. c \in Calls /\ c.mode = mode
    BY <2>2, LoadedType, DownloadsAssumption DEF Calls
  <2>4. /\ pc' \in [Jobs -> {"new", "lost", "try", "stream", "failed", "got", "sent", "done"}]
        /\ \A k \in Jobs : pc'[k] = IF k = j THEN "stream" ELSE pc[k]
    BY <1>3 DEF Open, Goto, TypeOK
  <2>5. /\ call' \in [Jobs -> Calls]
        /\ \A k \in Jobs : call'[k] = IF k = j THEN c ELSE call[k]
    <3> HIDE DEF opened
    <3> QED BY <2>2, <2>3 DEF TypeOK
  <2>6. \A k \in Jobs : pc'[k] = "stream" <=> call'[k].mode # "none"
    BY <2>3, <2>4, <2>5 DEF TypeOK
  <2>7. FilesOK(part)' /\ DOMAIN part \ {p} \subseteq DOMAIN part'
        /\ (mode = "disk" => p \in DOMAIN part')
    <3>1. FilesOK(part)
      BY DEF TypeOK
    <3>2. /\ FilesOK(Write(part, p, content)) /\ FilesOK(Write(part, p, <<>>))
          /\ FilesOK(Delete(part, {p}))
      <4> HIDE DEF content, p
      <4> QED BY <2>1, <3>1, FilesWritten, FilesDeleted
    <3>3. FilesOK(part)'
      <4> HIDE DEF content, p
      <4> QED BY <2>2, <3>2 DEF FilesOK
    <3>4. \/ DOMAIN part' = DOMAIN part \cup {p}
          \/ DOMAIN part' = DOMAIN part \ {p} /\ mode = "ram"
      <4> HIDE DEF content, p, opened
      <4>1. /\ DOMAIN Write(part, p, content) = DOMAIN part \cup {p}
            /\ DOMAIN Write(part, p, <<>>) = DOMAIN part \cup {p}
        BY DEF Write
      <4>2. DOMAIN Delete(part, {p}) = DOMAIN part \ {p}
        BY DEF Delete
      <4>3. \/ DOMAIN part' = DOMAIN Write(part, p, content)
            \/ DOMAIN part' = DOMAIN Delete(part, {p}) /\ mode = "ram"
            \/ DOMAIN part' = DOMAIN Write(part, p, <<>>)
        BY <2>2
      <4> QED BY <4>1, <4>2, <4>3
    <3> QED BY <3>3, <3>4
  <2>8. \A k \in Jobs : Stream(k, "disk")' => PathOf[k] \in DOMAIN part'
    <3>1. \A k \in Jobs \ {j} : Stream(k, "disk")' => Stream(k, "disk") /\ PathOf[k] # p
      BY <1>3, <2>4, <2>5 DEF Open, NoStream
    <3>2. Stream(j, "disk")' => mode = "disk"
      BY <2>3, <2>5
    <3> QED BY <2>7, <3>1, <3>2 DEF TypeOK
  <2>9. FilesOK(file)' /\ SavedOK'
    BY <1>3 DEF Open, TypeOK, FilesOK, SavedOK
  <2> HIDE DEF content, p, opened
  <2> QED BY <1>3, <2>4, <2>5, <2>6, <2>7, <2>8, <2>9 DEF Open, TypeOK, boundVars
<1>4. ASSUME NEW j \in Jobs, RamFetch(j) PROVE TypeOK'
  <2>1. PICK n \in 1..Size[j] : Succeeds(j, Span(j, 0, n))
    BY <1>4 DEF RamFetch
  <2>2. Span(j, 0, n) \in Seq(Units)
    BY SpanType, DownloadsAssumption
  <2>3. faults' \in Nat
    BY <1>4 DEF RamFetch, Fault, TypeOK
  <2>4. \A k \in Jobs : Stream(k, "disk")' => PathOf[k] \in DOMAIN part'
    <3>1. /\ DOMAIN part' = DOMAIN part \ {PathOf[j]}
          /\ \A k \in Jobs : pc'[k] = "stream" => k # j /\ pc[k] = "stream" /\ call'[k] = call[k]
      BY <2>1, <2>2, ReturnFacts, LeaveFacts
    <3> QED BY <1>4, <3>1 DEF RamFetch, TypeOK, Exclusive
  <2> QED BY <1>4, <2>1, <2>2, <2>3, <2>4, ReturnFacts, LeaveFacts DEF RamFetch, TypeOK
<1>5. ASSUME NEW j \in Jobs, RamShort(j) PROVE TypeOK'
  <2>1. FilesOK(file)'
    <3>1. file' = Delete(file, {PathOf[j]}) \/ file' = file
      BY <1>5 DEF RamShort
    <3>2. FilesOK(Delete(file, {PathOf[j]})) /\ FilesOK(file)
      BY FilesDeleted DEF TypeOK
    <3> QED BY <3>1, <3>2 DEF FilesOK
  <2>2. FilesOK(part)' /\ SavedOK' /\ faults' \in Nat
    BY <1>5 DEF RamShort, TypeOK, FilesOK, SavedOK, Fault
  <2>3. \A k \in Jobs : Stream(k, "disk")' => PathOf[k] \in DOMAIN part'
    BY <1>5, LeaveFacts DEF RamShort, TypeOK
  <2> QED BY <1>5, <2>1, <2>2, <2>3, LeaveFacts DEF RamShort, TypeOK
<1>6. ASSUME NEW j \in Jobs, RamFails(j) PROVE TypeOK'
  <2> DEFINE p == PathOf[j]
  <2>1. PICK st \in {[State(j) EXCEPT !.bytes = seen] : seen \in {0, Size[j]}} :
          \/ Fails(j, st)
          \/ /\ call[j].try < StreamTries /\ saved' = Write(saved, p, st)
             /\ \E next \in {st} \cup {AtEndOf(st, part[q]) : q \in {p} \cap DOMAIN part} :
                   Again(j, next)
    BY <1>6 DEF RamFails
  <2>2. st \in States
    <3>1. PICK seen \in {0, Size[j]} : st = [State(j) EXCEPT !.bytes = seen]
      OBVIOUS
    <3> QED BY <3>1, StateTypes, DownloadsAssumption DEF State, TypeOK, Calls
  <2>3. saved' = Write(saved, p, st)
    BY <2>1 DEF Fails
  <2>4. SavedOK'
    BY <2>2, <2>3, SavedWritten
  <2>5. FilesOK(file)' /\ FilesOK(part)'
    BY <1>6 DEF RamFails, TypeOK, FilesOK
  <2>6. faults' \in Nat
    BY <1>6 DEF RamFails, Fault, TypeOK
  <2>7. CASE Fails(j, st)
    <3>1. Leave(j, "failed")
      BY <2>7 DEF Fails
    <3> QED BY <1>6, <2>4, <2>5, <2>6, <3>1, LeaveFacts DEF RamFails, TypeOK
  <2>8. CASE /\ call[j].try < StreamTries
             /\ \E next \in {st} \cup {AtEndOf(st, part[q]) : q \in {p} \cap DOMAIN part} :
                   Again(j, next)
    <3>1. PICK next \in States : Again(j, next)
      BY <2>2, <2>8, StateTypes DEF TypeOK, FilesOK
    <3> QED BY <1>6, <2>4, <2>5, <2>6, <2>8, <3>1, AgainFacts DEF RamFails, TypeOK
  <2> QED BY <2>1, <2>7, <2>8
<1>7. ASSUME NEW j \in Jobs, DiskChunk(j) PROVE TypeOK'
  <2> DEFINE p == PathOf[j]
             st == [State(j) EXCEPT !.bytes = @ + NextEnd(j) - NextFrom(j), !.chunk = @ + 1]
             content == part[p] \o Span(j, NextFrom(j), NextEnd(j))
  <2>1. p \in DOMAIN part /\ p \in Paths
    BY <1>7 DEF DiskChunk, TypeOK, Paths
  <2>2. State(j) \in States
    BY DEF State, TypeOK, Calls
  <2>3. NextFrom(j) \in Nat /\ NextEnd(j) \in Nat /\ NextFrom(j) <= NextEnd(j)
    BY <1>7, <2>2, NextFacts DEF DiskChunk
  <2>4. content \in Seq(Units)
    <3>1. part[p] \in Seq(Units) /\ Span(j, NextFrom(j), NextEnd(j)) \in Seq(Units)
      BY <2>1, <2>3, SpanType DEF TypeOK, FilesOK
    <3> QED BY <3>1, JoinType
  <2>5. st \in States
    <3>1. /\ State(j).bytes + NextEnd(j) - NextFrom(j) \in Nat
          /\ State(j).chunk + 1 \in Nat
      BY <2>2, <2>3 DEF States
    <3> QED BY <2>2, <3>1 DEF States
  <2>6. part' = Write(part, p, content) /\ (saved' = saved \/ saved' = Write(saved, p, st))
    BY <1>7 DEF DiskChunk
  <2>7. call' = [call EXCEPT ![j] = [call[j] EXCEPT !.state = st]]
    BY <1>7 DEF DiskChunk, TypeOK
  <2> HIDE DEF content, st
  <2>8. SavedOK'
    BY <2>5, <2>6, SavedWritten DEF TypeOK, SavedOK
  <2>9. FilesOK(part)' /\ DOMAIN part' = DOMAIN part
    <3>1. FilesOK(Write(part, p, content))
      BY <2>1, <2>4, FilesWritten DEF TypeOK
    <3>2. DOMAIN part' = DOMAIN part \cup {p}
      BY <2>6 DEF Write
    <3> HIDE DEF p
    <3> QED BY <2>1, <2>6, <3>1, <3>2 DEF FilesOK
  <2>10. call' \in [Jobs -> Calls] /\ \A k \in Jobs : call'[k].mode = call[k].mode
    <3>1. [call[j] EXCEPT !.state = st] \in Calls
      BY <2>5 DEF TypeOK, Calls
    <3> QED BY <2>7, <3>1 DEF TypeOK, Calls
  <2>11. FilesOK(file)'
    BY <1>7 DEF DiskChunk, TypeOK, FilesOK
  <2> HIDE DEF p
  <2> QED BY <1>7, <2>8, <2>9, <2>10, <2>11 DEF DiskChunk, TypeOK, boundVars
<1>8. ASSUME NEW j \in Jobs, DiskEnds(j) PROVE TypeOK'
  <2> DEFINE content == part[PathOf[j]]
  <2>1. content \in Seq(Units) /\ State(j) \in States
    BY <1>8 DEF DiskEnds, TypeOK, FilesOK, State, Calls
  <2>2. faults' \in Nat
    BY <1>8 DEF DiskEnds, Fault, TypeOK
  <2>3. \/ Succeeds(j, content)
        \/ Fails(j, State(j)) /\ UNCHANGED <<file, part, given>>
    BY <1>8 DEF DiskEnds
  <2> HIDE DEF content
  <2>4. CASE Succeeds(j, content)
    <3>1. \A k \in Jobs : Stream(k, "disk")' => PathOf[k] \in DOMAIN part'
      <4>1. /\ DOMAIN part' = DOMAIN part \ {PathOf[j]}
            /\ \A k \in Jobs : pc'[k] = "stream" => k # j /\ pc[k] = "stream" /\ call'[k] = call[k]
        BY <2>1, <2>4, ReturnFacts, LeaveFacts
      <4> QED BY <1>8, <4>1 DEF DiskEnds, TypeOK, Exclusive
    <3> QED BY <1>8, <2>1, <2>2, <2>4, <3>1, ReturnFacts, LeaveFacts DEF DiskEnds, TypeOK
  <2>5. CASE Fails(j, State(j)) /\ UNCHANGED <<file, part, given>>
    <3>1. Leave(j, "failed") /\ SavedOK'
      BY <2>1, <2>5, SavedWritten DEF Fails
    <3> QED BY <1>8, <2>2, <2>5, <3>1, LeaveFacts DEF DiskEnds, TypeOK, FilesOK
  <2> QED BY <2>3, <2>4, <2>5
<1>9. ASSUME NEW j \in Jobs, DiskFails(j) PROVE TypeOK'
  <2> DEFINE p == PathOf[j]
             content(n) == part[p] \o Span(j, NextFrom(j), n)
             st(n) == AtEndOf(State(j), content(n))
  <2>1. p \in DOMAIN part /\ p \in Paths
    BY <1>9 DEF DiskFails, TypeOK, Paths
  <2>2. State(j) \in States
    BY DEF State, TypeOK, Calls
  <2>3. PICK n \in NextFrom(j)..(NextEnd(j) - 1) :
          \/ /\ part' = Write(part, p, content(n))
             /\ Fails(j, State(j))
             /\ UNCHANGED spoilt
          \/ /\ call[j].try < StreamTries
             /\ part' = OpenPart(j, st(n), content(n))
             /\ Again(j, st(n))
             /\ saved' = Write(saved, p, State(j))
             /\ spoilt' = IF Len(content(n)) % Chunk = 0 THEN spoilt ELSE spoilt \cup {p}
    BY <1>9 DEF DiskFails
  <2>4. content(n) \in Seq(Units)
    <3>1. NextFrom(j) \in Nat /\ NextEnd(j) \in Nat
      BY <1>9, <2>2, NextFacts DEF DiskFails
    <3>2. n \in Nat /\ NextFrom(j) <= n
      BY <2>3, <3>1
    <3>3. part[p] \in Seq(Units) /\ Span(j, NextFrom(j), n) \in Seq(Units)
      BY <2>1, <3>1, <3>2, SpanType DEF TypeOK, FilesOK
    <3> QED BY <3>3, JoinType
  <2>5. st(n) \in States
    <3> HIDE DEF content
    <3> QED BY <2>2, <2>4, StateTypes
  <2>6. saved' = Write(saved, p, State(j)) /\ spoilt' \subseteq Paths
    BY <2>1, <2>3 DEF Fails, TypeOK
  <2>7. SavedOK'
    BY <2>2, <2>6, SavedWritten
  <2>8. FilesOK(part)' /\ DOMAIN part' = DOMAIN part
    <3> HIDE DEF content, st
    <3>1. PICK c \in Seq(Units) : part' = Write(part, p, c)
      <4>1. <<>> \in Seq(Units)
        OBVIOUS
      <4> QED BY <2>3, <2>4, <4>1 DEF OpenPart
    <3>2. FilesOK(Write(part, p, c))
      BY <2>1, FilesWritten DEF TypeOK
    <3>3. DOMAIN part' = DOMAIN part \cup {p}
      BY <3>1 DEF Write
    <3> HIDE DEF p
    <3> QED BY <2>1, <3>1, <3>2, <3>3 DEF FilesOK
  <2>9. FilesOK(file)' /\ faults' \in Nat
    BY <1>9 DEF DiskFails, TypeOK, FilesOK, Fault
  <2>10. /\ pc' \in [Jobs -> {"new", "lost", "try", "stream", "failed", "got", "sent", "done"}]
         /\ call' \in [Jobs -> Calls]
         /\ \A k \in Jobs : pc'[k] = "stream" <=> call'[k].mode # "none"
         /\ \A k \in Jobs : Stream(k, "disk")' => Stream(k, "disk")
    <3> HIDE DEF content, st
    <3>1. CASE Leave(j, "failed")
      BY <3>1, LeaveFacts
    <3>2. CASE call[j].try < StreamTries /\ Again(j, st(n))
      <4>1. pc[j] = "stream"
        BY <1>9 DEF DiskFails
      <4> QED BY <2>5, <3>2, <4>1, AgainFacts DEF TypeOK
    <3> QED BY <2>3, <3>1, <3>2 DEF Fails
  <2> HIDE DEF content, st, p
  <2> QED BY <1>9, <2>6, <2>7, <2>8, <2>9, <2>10 DEF DiskFails, TypeOK
<1>10. ASSUME NEW j \in Jobs, Stall(j) PROVE TypeOK'
  BY <1>10, LeaveFacts DEF Stall, TypeOK, FilesOK, SavedOK, fileVars, boundVars
<1>11. ASSUME NEW j \in Jobs, Retry(j) PROVE TypeOK'
  <2>1. FilesOK(file)' /\ FilesOK(part)' /\ SavedOK'
    BY <1>11 DEF Retry, TypeOK, FilesOK, SavedOK, fileVars
  <2>2. CASE End({j})
    <3>1. /\ pc' \in [Jobs -> {"new", "lost", "try", "stream", "failed", "got", "sent", "done"}]
          /\ attempt' \in [Jobs -> 0..MaxAttempts] /\ fileId' \in [Jobs -> FileIds]
          /\ \A k \in Jobs : pc'[k] = IF k = j THEN "lost" ELSE pc[k]
      BY <2>2, EndFacts
    <3>2. \A k \in Jobs : pc'[k] = "stream" <=> pc[k] = "stream"
      BY <1>11, <3>1 DEF Retry
    <3> QED BY <1>11, <2>1, <3>1, <3>2 DEF Retry, TypeOK, fileVars, boundVars
  <2>3. CASE /\ attempt[j] < MaxAttempts
             /\ attempt' = [attempt EXCEPT ![j] = @ + 1]
             /\ \E id \in FileIds : fileId' = [fileId EXCEPT ![j] = id]
             /\ Goto(j, "try")
    <3>1. attempt' \in [Jobs -> 0..MaxAttempts]
      BY <2>3, DownloadsAssumption DEF TypeOK
    <3> QED BY <1>11, <2>1, <2>3, <3>1 DEF Retry, Goto, TypeOK, fileVars, boundVars
  <2> QED BY <1>11, <2>2, <2>3 DEF Retry
<1>12. ASSUME NEW j \in Jobs, Upload(j) PROVE TypeOK'
  BY <1>12 DEF Upload, Goto, TypeOK, FilesOK, SavedOK, fileVars, boundVars
<1>13. ASSUME NEW j \in Jobs, Cleanup(j) PROVE TypeOK'
  <2>1. FilesOK(file)'
    <3>1. FilesOK(Delete(file, {PathOf[j]}))
      BY FilesDeleted DEF TypeOK
    <3> QED BY <1>13, <3>1 DEF Cleanup, FilesOK
  <2>2. FilesOK(part)' /\ SavedOK'
    BY <1>13 DEF Cleanup, TypeOK, FilesOK, SavedOK
  <2>3. <<>> \in Seq(Units) /\ 0 \in 0..MaxAttempts
    BY DownloadsAssumption
  <2> QED BY <1>13, <2>1, <2>2, <2>3, NoCallType DEF Cleanup, Goto, TypeOK, boundVars
<1>14. ASSUME NEW j \in Jobs, SendAgain(j) PROVE TypeOK'
  <2>1. FilesOK(file)' /\ FilesOK(part)' /\ SavedOK'
    BY <1>14, RemoveFacts DEF SendAgain
  <2>2. \A k \in Jobs : Stream(k, "disk") => Dir(PathOf[k]) \notin {Dir(PathOf[j])} \cap OwnDirs
    BY <1>14 DEF SendAgain, Over
  <2>3. \A k \in Jobs : Stream(k, "disk") => PathOf[k] \in DOMAIN part'
    BY <1>14, <2>2, RemoveFacts DEF SendAgain, TypeOK
  <2> QED BY <1>14, <2>1, <2>3 DEF SendAgain, Goto, TypeOK, boundVars
<1>15. ASSUME NEW u \in Users, Stop(u) PROVE TypeOK'
  <2> DEFINE js == {j \in Jobs : UserOf[j] = u /\ pc[j] \in {"try", "stream", "failed"}}
  <2>1. /\ End({j \in {i \in Jobs : UserOf[i] = u} : pc[j] \in {"try", "stream", "failed"}})
        /\ call' = [j \in Jobs |-> IF UserOf[j] = u THEN NoCall ELSE call[j]]
        /\ stopped' \subseteq Jobs /\ breaks' \in Nat
    BY <1>15 DEF Stop, TypeOK
  <2>2. {j \in {i \in Jobs : UserOf[i] = u} : pc[j] \in {"try", "stream", "failed"}} = js
    OBVIOUS
  <2>3. End(js)
    BY <2>1, <2>2
  <2>4. FilesOK(file)' /\ FilesOK(part)' /\ SavedOK'
    BY <1>15, RemoveFacts DEF Stop
  <2>5. \A k \in Jobs : pc'[k] = IF k \in js THEN "lost" ELSE pc[k]
    BY <2>3, EndFacts
  <2>6. \A k \in Jobs : pc'[k] = "stream" <=> call'[k].mode # "none"
    BY <2>1, <2>5 DEF TypeOK, NoCall
  <2>7. \A k \in Jobs : Stream(k, "disk")' => PathOf[k] \in DOMAIN part'
    <3>1. \A k \in Jobs : Stream(k, "disk")' => Stream(k, "disk") /\ UserOf[k] # u
      BY <2>1, <2>5 DEF NoCall
    <3>2. \A k \in Jobs : UserOf[k] # u => Dir(PathOf[k]) \notin DirsOf(u)
      BY DownloadsAssumption DEF DirsOf
    <3> QED BY <1>15, <3>1, <3>2, RemoveFacts DEF Stop, TypeOK
  <2>8. call' \in [Jobs -> Calls]
    BY <2>1, NoCallType DEF TypeOK
  <2> HIDE DEF js
  <2> QED BY <1>15, <2>1, <2>3, <2>4, <2>6, <2>7, <2>8, EndFacts DEF Stop, TypeOK
<1>16. ASSUME Crash PROVE TypeOK'
  <2>1. FilesOK(file)' /\ FilesOK(part)' /\ SavedOK'
    BY <1>16, RemoveFacts DEF Crash
  <2>2. \A k \in Jobs : pc'[k] # "stream" /\ call'[k].mode = "none"
    BY <1>16, EndFacts DEF Crash, NoCall, Over
  <2>3. call' \in [Jobs -> Calls] /\ given' \in [Jobs -> Seq(Units)] /\ breaks' \in Nat
    BY <1>16, NoCallType DEF Crash, TypeOK
  <2>4. /\ pc' \in [Jobs -> {"new", "lost", "try", "stream", "failed", "got", "sent", "done"}]
        /\ attempt' \in [Jobs -> 0..MaxAttempts] /\ fileId' \in [Jobs -> FileIds]
    BY <1>16, EndFacts DEF Crash
  <2> QED BY <1>16, <2>1, <2>2, <2>3, <2>4 DEF Crash, TypeOK
<1>17. ASSUME UNCHANGED vars PROVE TypeOK'
  BY <1>17 DEF vars, fileVars, jobVars, boundVars, TypeOK, FilesOK, SavedOK
<1> QED BY <1>1, <1>2, <1>3, <1>4, <1>5, <1>6, <1>7, <1>8, <1>9, <1>10, <1>11, <1>12, <1>13,
           <1>14, <1>15, <1>16, <1>17 DEF Next, Engine, Telegram

-----------------------------------------------------------------------------
(* One download of a user at a time, one stream to a path                  *)

\* The downloads a step takes on, ends or leaves alone.
LEMMA PcFacts ==
    ASSUME TypeOK, [Next]_vars
    PROVE  \A k \in Jobs : pc'[k] \notin Over => pc[k] \notin Over \/ Begin(k)
<1>1. ASSUME NEW j \in Jobs, Engine(j) \/ Telegram(j) \/ Stall(j) \/ SendAgain(j)
      PROVE  /\ \A k \in Jobs \ {j} : pc'[k] = pc[k]
             /\ pc'[j] \notin Over => pc[j] \notin Over \/ Begin(j)
  <2> USE DEF TypeOK, Goto, Leave, Again, Over
  <2>1. CASE Engine(j)
    BY <2>1 DEF Engine, Begin, Found, Open, Retry, End, Upload, Cleanup
  <2>2. CASE Telegram(j)
    BY <2>2 DEF Telegram, Stream, RamFetch, RamShort, RamFails, DiskChunk, DiskEnds, DiskFails,
                Succeeds, Returns, Fails
  <2>3. CASE Stall(j)
    BY <2>3 DEF Stall
  <2>4. CASE SendAgain(j)
    BY <2>4 DEF SendAgain
  <2> QED BY <1>1, <2>1, <2>2, <2>3, <2>4
<1>2. ASSUME NEW u \in Users, Stop(u) PROVE \A k \in Jobs : pc'[k] \in {pc[k], "lost"}
  BY <1>2, EndFacts DEF Stop
<1>3. ASSUME Crash PROVE \A k \in Jobs : pc'[k] \in {pc[k], "lost"}
  BY <1>3, EndFacts DEF Crash
<1>4. ASSUME UNCHANGED vars PROVE pc' = pc
  BY <1>4 DEF vars, jobVars
<1> QED BY <1>1, <1>2, <1>3, <1>4 DEF Next, Over

LEMMA SerialStep ==
    ASSUME TypeOK, Serial, [Next]_vars
    PROVE  Serial'
<1> SUFFICES ASSUME NEW j \in Jobs, NEW k \in Jobs, j # k, UserOf[j] = UserOf[k],
                    pc'[j] \notin Over, pc'[k] \notin Over
             PROVE  FALSE
  BY DEF Serial, Over
<1>1. CASE Begin(j)
  BY <1>1 DEF Begin, Goto, TypeOK
<1>2. CASE Begin(k)
  BY <1>2 DEF Begin, Goto, TypeOK
<1>3. CASE ~Begin(j) /\ ~Begin(k)
  BY <1>3, PcFacts DEF Serial
<1> QED BY <1>1, <1>2, <1>3

\* Only Open begins a stream.
LEMMA StreamFacts ==
    ASSUME TypeOK, [Next]_vars
    PROVE  \/ \E j \in Jobs : Open(j)
           \/ \A k \in Jobs : pc'[k] = "stream" =>
                 pc[k] = "stream" /\ call'[k].mode = call[k].mode
<1>1. ASSUME NEW j \in Jobs, Engine(j) \/ Stall(j) \/ SendAgain(j), ~Open(j)
      PROVE  \A k \in Jobs : pc'[k] = "stream" => pc[k] = "stream" /\ call'[k] = call[k]
  <2> USE DEF TypeOK, Goto, Leave
  <2>1. CASE Stall(j)
    BY <2>1 DEF Stall
  <2>2. CASE SendAgain(j)
    BY <2>2 DEF SendAgain
  <2>3. CASE Engine(j)
    BY <1>1, <2>3 DEF Engine, Begin, Found, Retry, End, Upload, Cleanup
  <2> QED BY <1>1, <2>1, <2>2, <2>3
<1>2. ASSUME NEW j \in Jobs, Telegram(j)
      PROVE  \A k \in Jobs : pc'[k] = "stream" =>
                pc[k] = "stream" /\ call'[k].mode = call[k].mode
  <2>1. \/ Leave(j, "failed") \/ Leave(j, "got")
        \/ \E st : pc' = pc /\ call' = [call EXCEPT ![j].try = @ + 1, ![j].state = st]
        \/ \E st : pc' = pc /\ call' = [call EXCEPT ![j].state = st]
    BY <1>2 DEF Telegram, RamFetch, RamShort, RamFails, DiskChunk, DiskEnds, DiskFails,
                Succeeds, Returns, Fails, Again
  <2>2. CASE Leave(j, "failed") \/ Leave(j, "got")
    BY <2>2, LeaveFacts
  <2>3. CASE \E st : pc' = pc /\ call' = [call EXCEPT ![j].try = @ + 1, ![j].state = st]
    BY <2>3 DEF TypeOK, Calls
  <2>4. CASE \E st : pc' = pc /\ call' = [call EXCEPT ![j].state = st]
    BY <2>4 DEF TypeOK, Calls
  <2> QED BY <2>1, <2>2, <2>3, <2>4
<1>3. ASSUME NEW u \in Users, Stop(u)
      PROVE  \A k \in Jobs : pc'[k] = "stream" => pc[k] = "stream" /\ call'[k] = call[k]
  <2>1. \A k \in Jobs : pc'[k] = "stream" => pc[k] = "stream" /\ UserOf[k] # u
    BY <1>3 DEF Stop, End
  <2> QED BY <1>3, <2>1 DEF Stop
<1>4. ASSUME Crash PROVE \A k \in Jobs : pc'[k] # "stream"
  BY <1>4, EndFacts DEF Crash, Over
<1>5. ASSUME UNCHANGED vars PROVE pc' = pc /\ call' = call
  BY <1>5 DEF vars, jobVars
<1> QED BY <1>1, <1>2, <1>3, <1>4, <1>5 DEF Next

LEMMA ExclusiveStep ==
    ASSUME TypeOK, Exclusive, [Next]_vars
    PROVE  Exclusive'
<1>1. ASSUME NEW i \in Jobs, Open(i) PROVE Exclusive'
  <2>1. /\ \A k \in Jobs : pc'[k] = IF k = i THEN "stream" ELSE pc[k]
        /\ \A k \in Jobs \ {i} : call'[k] = call[k]
        /\ NoStream(i, {"disk"})
        /\ call'[i].mode = "disk" => NoStream(i, {"ram"})
    BY <1>1 DEF Open, Goto, TypeOK
  <2>2. \A k \in Jobs : pc[k] = "stream" => call[k].mode \in {"ram", "disk"}
    BY DEF TypeOK, Calls
  <2> QED BY <2>1, <2>2 DEF Exclusive, Stream, NoStream
<1>2. CASE \A k \in Jobs : pc'[k] = "stream" =>
              pc[k] = "stream" /\ call'[k].mode = call[k].mode
  BY <1>2 DEF Exclusive, Stream
<1> QED BY <1>1, <1>2, StreamFacts

-----------------------------------------------------------------------------
(* The files of private links                                              *)

Intact(k) ==
    pc[k] = "got" /\ Dir(PathOf[k]) \in OwnDirs /\ k \notin stopped =>
        PathOf[k] \in DOMAIN file /\ file[PathOf[k]] = given[k]

\* A download touches no file that another one of a private link has finished: they
\* would have the same user.
LEMMA OthersIntact ==
    ASSUME NEW j \in Jobs, pc[j] \notin Over, Serial, PrivateFilesIntact,
           \A k \in Jobs \ {j} : pc'[k] = pc[k] /\ given'[k] = given[k],
           stopped \subseteq stopped' \cup {j},
           \A p \in DOMAIN file \ {PathOf[j]} : p \in DOMAIN file' /\ file'[p] = file[p]
    PROVE  \A k \in Jobs \ {j} : Intact(k)'
<1> SUFFICES ASSUME NEW k \in Jobs \ {j}, pc'[k] = "got", Dir(PathOf[k]) \in OwnDirs,
                    k \notin stopped'
             PROVE  PathOf[k] \in DOMAIN file' /\ file'[PathOf[k]] = given'[k]
  BY DEF Intact
<1>1. PathOf[k] \in DOMAIN file /\ file[PathOf[k]] = given[k]
  BY DEF PrivateFilesIntact
<1>2. PathOf[k] # PathOf[j]
  <2>1. PathOf[k] = PathOf[j] => UserOf[k] = UserOf[j]
    BY DownloadsAssumption
  <2> QED BY <2>1 DEF Serial, Over
<1> QED BY <1>1, <1>2

LEMMA PrivateStep ==
    ASSUME IInv, [Next]_vars
    PROVE  PrivateFilesIntact'
<1> SUFFICES \A k \in Jobs : Intact(k)'
  BY DEF Intact, PrivateFilesIntact
<1> USE DEF IInv
<1>1. ASSUME NEW j \in Jobs, Begin(j) \/ Open(j) \/ Retry(j) \/ Upload(j) \/ Stall(j)
      PROVE  \A k \in Jobs : Intact(k)'
  <2>1. \A k \in Jobs : pc'[k] = "got" => pc[k] = "got"
    BY <1>1 DEF Begin, Open, Retry, End, Upload, Stall, Leave, Goto, TypeOK
  <2>2. UNCHANGED <<file, given, stopped>>
    BY <1>1 DEF Begin, Open, Retry, Upload, Stall, fileVars
  <2> QED BY <2>1, <2>2 DEF Intact, PrivateFilesIntact
<1>2. ASSUME NEW j \in Jobs, RamShort(j) \/ RamFails(j) \/ DiskChunk(j) \/ DiskFails(j)
      PROVE  \A k \in Jobs : Intact(k)'
  <2>1. pc[j] = "stream" /\ UNCHANGED <<given, stopped>>
    BY <1>2 DEF RamShort, RamFails, DiskChunk, DiskFails, Stream
  <2>2. pc'[j] # "got" /\ \A k \in Jobs \ {j} : pc'[k] = pc[k]
    BY <1>2 DEF RamShort, RamFails, DiskChunk, DiskFails, Stream, Fails, Again, Leave, Goto, TypeOK
  <2>3. \A p \in DOMAIN file \ {PathOf[j]} : p \in DOMAIN file' /\ file'[p] = file[p]
    BY <1>2 DEF RamShort, RamFails, DiskChunk, DiskFails, Delete
  <2> QED BY <2>1, <2>2, <2>3, OthersIntact DEF Intact, Over
<1>3. ASSUME NEW j \in Jobs, NEW content \in Seq(Units), Succeeds(j, content),
             pc[j] = "stream", UNCHANGED stopped
      PROVE  \A k \in Jobs : Intact(k)'
  <2>1. /\ \A p \in DOMAIN file \ {PathOf[j]} : p \in DOMAIN file' /\ file'[p] = file[p]
        /\ \A k \in Jobs \ {j} : given'[k] = given[k]
        /\ \/ Leave(j, "failed")
           \/ Leave(j, "got") /\ PathOf[j] \in DOMAIN file' /\ given'[j] = file'[PathOf[j]]
    BY <1>3, ReturnFacts
  <2>2. /\ \A k \in Jobs \ {j} : pc'[k] = pc[k]
        /\ pc'[j] = "got" => PathOf[j] \in DOMAIN file' /\ given'[j] = file'[PathOf[j]]
    BY <2>1 DEF Leave, Goto, TypeOK
  <2> QED BY <1>3, <2>1, <2>2, OthersIntact DEF Intact, Over
<1>4. ASSUME NEW j \in Jobs, RamFetch(j) \/ DiskEnds(j)
      PROVE  \A k \in Jobs : Intact(k)'
  <2>1. CASE \E content \in Seq(Units) : Succeeds(j, content)
    BY <1>3, <1>4, <2>1 DEF RamFetch, DiskEnds, Stream
  <2>2. CASE Fails(j, State(j)) /\ UNCHANGED <<file, part, given>>
    <3>1. \A k \in Jobs : pc'[k] = "got" => pc[k] = "got"
      BY <2>2 DEF Fails, Leave, Goto, TypeOK
    <3> QED BY <1>4, <2>2, <3>1 DEF RamFetch, DiskEnds, Intact, PrivateFilesIntact
  <2>3. RamFetch(j) => \E content \in Seq(Units) : Succeeds(j, content)
    BY SpanType, DownloadsAssumption DEF RamFetch
  <2>4. DiskEnds(j) => part[PathOf[j]] \in Seq(Units)
    BY DEF DiskEnds, TypeOK, FilesOK
  <2> QED BY <1>4, <2>1, <2>2, <2>3, <2>4 DEF DiskEnds
<1>5. ASSUME NEW j \in Jobs, Found(j) PROVE \A k \in Jobs : Intact(k)'
  <2>1. pc[j] = "try" /\ UNCHANGED <<file, stopped>> /\ PathOf[j] \in DOMAIN file
    BY <1>5 DEF Found
  <2>2. /\ \A k \in Jobs \ {j} : pc'[k] = pc[k] /\ given'[k] = given[k]
        /\ given'[j] = file[PathOf[j]]
    BY <1>5 DEF Found, Goto, TypeOK
  <2> QED BY <2>1, <2>2, OthersIntact DEF Intact, Over
<1>6. ASSUME NEW j \in Jobs, Cleanup(j) PROVE \A k \in Jobs : Intact(k)'
  <2>1. /\ pc[j] = "sent" /\ pc'[j] # "got" /\ stopped' = stopped \ {j}
        /\ \A k \in Jobs \ {j} : pc'[k] = pc[k] /\ given'[k] = given[k]
    BY <1>6 DEF Cleanup, Goto, TypeOK
  <2>2. \A p \in DOMAIN file \ {PathOf[j]} : p \in DOMAIN file' /\ file'[p] = file[p]
    BY <1>6, DeleteFacts DEF Cleanup
  <2> QED BY <2>1, <2>2, OthersIntact DEF Intact, Over
<1>7. ASSUME NEW j \in Jobs, SendAgain(j) PROVE \A k \in Jobs : Intact(k)'
  <2>1. /\ \A k \in Jobs : pc'[k] = "got" => pc[k] = "got"
        /\ UNCHANGED <<given, stopped>>
    BY <1>7 DEF SendAgain, Goto, TypeOK
  <2>2. \A k \in Jobs : pc[k] = "got" => Dir(PathOf[k]) \notin {Dir(PathOf[j])} \cap OwnDirs
    BY <1>7 DEF SendAgain, Over
  <2>3. \A p \in DOMAIN file :
           Dir(p) \notin {Dir(PathOf[j])} \cap OwnDirs => p \in DOMAIN file' /\ file'[p] = file[p]
    BY <1>7, RemoveFacts DEF SendAgain
  <2> QED BY <2>1, <2>2, <2>3 DEF Intact, PrivateFilesIntact
<1>8. ASSUME NEW u \in Users, Stop(u) PROVE \A k \in Jobs : Intact(k)'
  <2>1. /\ \A k \in Jobs : pc'[k] = "got" => pc[k] = "got"
        /\ \A k \in Jobs : pc[k] = "got" /\ k \notin stopped' => UserOf[k] # u /\ k \notin stopped
        /\ UNCHANGED given
    BY <1>8 DEF Stop, End
  <2>2. \A k \in Jobs : UserOf[k] # u => Dir(PathOf[k]) \notin DirsOf(u)
    BY DownloadsAssumption DEF DirsOf
  <2>3. \A p \in DOMAIN file : Dir(p) \notin DirsOf(u) => p \in DOMAIN file' /\ file'[p] = file[p]
    BY <1>8, RemoveFacts DEF Stop
  <2> QED BY <2>1, <2>2, <2>3 DEF Intact, PrivateFilesIntact
<1>9. ASSUME Crash PROVE \A k \in Jobs : Intact(k)'
  BY <1>9, EndFacts DEF Crash, Over, Intact
<1>10. ASSUME UNCHANGED vars PROVE \A k \in Jobs : Intact(k)'
  BY <1>10 DEF vars, fileVars, jobVars, boundVars, Intact, PrivateFilesIntact
<1> QED BY <1>1, <1>2, <1>4, <1>5, <1>6, <1>7, <1>8, <1>9, <1>10 DEF Next, Engine, Telegram

-----------------------------------------------------------------------------
(* What is put together for a path nobody else uses is the post's file     *)

\* The first units of the job's file.
Prefix(j, c) == \E n \in 0..Size[j] : c = Span(j, 0, n)

Sole(j) == Unshared(j) /\ PathOf[j] \notin spoilt

\* What lies on disk under the job's path comes from its post; a state file that
\* outlives its part file claims no chunk.
FilesGood(j) ==
    LET p == PathOf[j] IN
    /\ p \in DOMAIN file => Prefix(j, file[p])
    /\ p \in DOMAIN part => Prefix(j, part[p])
    /\ p \in DOMAIN saved /\ p \notin DOMAIN part => saved[p].chunk = 0

\* A stream to disk goes on where its part file ends; one to memory finds nothing in it.
StreamGood(j) ==
    LET p == PathOf[j] IN
    /\ Stream(j, "disk") => Len(part[p]) = Least(NextFrom(j), Size[j])
    /\ Stream(j, "ram") => State(j).chunk = 0 /\ (p \in DOMAIN part => part[p] = <<>>)

GivenGood(j) == given[j] # <<>> => Complete(j)

WholeInv == \A j \in Jobs : Sole(j) => FilesGood(j) /\ StreamGood(j) /\ GivenGood(j)

LEMMA SpanFacts ==
    ASSUME NEW j \in Jobs, NEW m \in Nat, NEW n \in Nat, m <= n
    PROVE  /\ Len(Span(j, m, n)) = n - m
           /\ Span(j, 0, m) \o Span(j, m, n) = Span(j, 0, n)
           /\ SubSeq(Span(j, 0, n), 1, m) = Span(j, 0, m)
           /\ Span(j, 0, 0) = <<>>
<1>0. n - m \in Nat
  OBVIOUS
<1>1. Len(Span(j, m, n)) = n - m /\ DOMAIN Span(j, m, n) = 1..(n - m)
  BY <1>0 DEF Span
<1>2. /\ Len(Span(j, 0, m)) = m /\ Len(Span(j, 0, n)) = n
      /\ DOMAIN Span(j, 0, m) = 1..m /\ DOMAIN Span(j, 0, n) = 1..n
  BY DEF Span
<1>3. /\ \A i \in 1..m : Span(j, 0, m)[i] = <<PostOf[j], i>>
      /\ \A i \in 1..n : Span(j, 0, n)[i] = <<PostOf[j], i>>
      /\ \A i \in 1..(n - m) : Span(j, m, n)[i] = <<PostOf[j], m + i>>
  BY DEF Span
<1>4. /\ Span(j, 0, m) \in Seq(Units) /\ Span(j, m, n) \in Seq(Units)
      /\ Span(j, 0, n) \in Seq(Units)
  <2>1. 0 \in Nat /\ 0 <= m /\ 0 <= n
    OBVIOUS
  <2> QED BY <2>1, SpanType
<1>5. Span(j, 0, m) \o Span(j, m, n) = Span(j, 0, n)
  <2> DEFINE a == Span(j, 0, m)
             b == Span(j, m, n)
             c == Span(j, 0, n)
  <2>1. a \in Seq(Units) /\ b \in Seq(Units) /\ c \in Seq(Units)
    BY <1>4
  <2>2. Len(a) = m /\ Len(b) = n - m /\ Len(c) = n
    BY <1>1, <1>2
  <2>3. /\ \A i \in 1..m : a[i] = <<PostOf[j], i>>
        /\ \A i \in 1..n : c[i] = <<PostOf[j], i>>
        /\ \A i \in 1..(n - m) : b[i] = <<PostOf[j], m + i>>
    BY <1>3
  <2> HIDE DEF a, b, c
  <2>4. /\ a \o b \in Seq(Units) /\ Len(a \o b) = n
        /\ \A i \in 1..n : (a \o b)[i] = IF i <= m THEN a[i] ELSE b[i - m]
    <3>1. m + (n - m) = n
      OBVIOUS
    <3> QED BY <2>1, <2>2, <3>1, ConcatProperties
  <2>5. ASSUME NEW i \in 1..n PROVE (a \o b)[i] = c[i]
    <3>1. CASE i <= m
      <4>1. i \in 1..m /\ (a \o b)[i] = a[i]
        BY <2>4, <3>1
      <4> QED BY <2>3, <4>1
    <3>2. CASE ~(i <= m)
      <4>1. i - m \in 1..(n - m) /\ m + (i - m) = i
        BY <3>2
      <4>2. (a \o b)[i] = b[i - m]
        BY <2>4, <3>2
      <4>3. b[i - m] = <<PostOf[j], m + (i - m)>>
        BY <2>3, <4>1
      <4>4. c[i] = <<PostOf[j], i>>
        BY <2>3
      <4> QED BY <4>1, <4>2, <4>3, <4>4
    <3> QED BY <3>1, <3>2
  <2> DEFINE d == a \o b
  <2>6. d \in Seq(Units) /\ Len(d) = Len(c) /\ \A i \in 1..Len(d) : d[i] = c[i]
    BY <2>2, <2>4, <2>5
  <2>7. d = c
    <3> HIDE DEF d
    <3> QED BY <2>1, <2>6, SeqEqual
  <2> QED BY <2>7 DEF a, b, c, d
<1>6. SubSeq(Span(j, 0, n), 1, m) = Span(j, 0, m)
  <2> DEFINE a == Span(j, 0, m)
             c == Span(j, 0, n)
             s == SubSeq(c, 1, m)
  <2>1. a \in Seq(Units) /\ c \in Seq(Units) /\ Len(a) = m /\ Len(c) = n
    BY <1>2, <1>4
  <2>2. /\ \A i \in 1..m : a[i] = <<PostOf[j], i>>
        /\ \A i \in 1..n : c[i] = <<PostOf[j], i>>
    BY <1>3
  <2> HIDE DEF a, c
  <2>3. s \in Seq(Units) /\ Len(s) = m /\ \A i \in 1..m : s[i] = c[i]
    BY <2>1
  <2>4. 1..m \subseteq 1..n /\ \A i \in 1..m : s[i] = a[i]
    <3>1. 1..m \subseteq 1..n
      OBVIOUS
    <3> HIDE DEF s
    <3> QED BY <2>2, <2>3, <3>1
  <2> HIDE DEF s
  <2>5. Len(s) = Len(a) /\ 1..Len(s) = 1..m
    BY <2>1, <2>3
  <2>6. \A i \in 1..Len(s) : s[i] = a[i]
    BY <2>4, <2>5
  <2>7. s = a
    BY <2>1, <2>3, <2>5, <2>6, SeqEqual
  <2> QED BY <2>7 DEF a, c, s
<1>7. Span(j, 0, 0) = <<>>
  BY SpanType DEF Span
<1> QED BY <1>1, <1>5, <1>6, <1>7

LEMMA PrefixFacts ==
    ASSUME NEW j \in Jobs, NEW c, Prefix(j, c)
    PROVE  c \in Seq(Units) /\ Len(c) \in 0..Size[j] /\ c = Span(j, 0, Len(c))
<1>1. PICK n \in 0..Size[j] : c = Span(j, 0, n)
  BY DEF Prefix
<1>2. n \in Nat /\ 0 \in Nat /\ n - 0 = n /\ 0 <= n
  BY DownloadsAssumption
<1>3. Len(c) = n /\ c \in Seq(Units)
  BY <1>1, <1>2, SpanFacts, SpanType
<1> QED BY <1>1, <1>3

LEMMA EmptyPrefix ==
    ASSUME NEW j \in Jobs
    PROVE  Prefix(j, <<>>)
<1>1. 0 \in 0..Size[j] /\ 0 \in Nat
  BY DownloadsAssumption
<1>2. Span(j, 0, 0) = <<>>
  BY <1>1, SpanFacts
<1> QED BY <1>1, <1>2 DEF Prefix

\* The whole chunks of a piece of the file are a piece of it, and as long as its state says.
LEMMA ChunkRound ==
    ASSUME NEW n \in Nat
    PROVE  /\ Chunks(Chunks(n) * Chunk) = Chunks(n)
           /\ n % Chunk = 0 => Chunks(n) * Chunk = n
           /\ Chunks(0) = 0
<1>1. Chunk \in Nat \ {0}
  BY DownloadsAssumption
<1> DEFINE m == n \div Chunk
<1>2. m \in Nat
  BY <1>1
<1>3. (m * Chunk) \div Chunk = m
  <2> HIDE DEF m
  <2> QED BY <1>1, <1>2
<1>4. n % Chunk = 0 => m * Chunk = n
  BY <1>1
<1>5. 0 \div Chunk = 0
  BY <1>1
<1> QED BY <1>3, <1>4, <1>5 DEF Chunks

LEMMA KeptPrefix ==
    ASSUME NEW j \in Jobs, Prefix(j, part[PathOf[j]])
    PROVE  Prefix(j, Kept(j)) /\ Chunks(Len(Kept(j))) * Chunk = Len(Kept(j))
<1> DEFINE c == part[PathOf[j]]
           m == Chunks(Len(c)) * Chunk
<1>1. Len(c) \in Nat /\ Len(c) <= Size[j] /\ c = Span(j, 0, Len(c)) /\ Size[j] \in Nat
  <2> HIDE DEF c
  <2> QED BY PrefixFacts, DownloadsAssumption DEF c
<1>2. m \in 0..Len(c)
  BY <1>1, ChunkFacts
<1>3. Kept(j) = SubSeq(c, 1, m)
  BY DEF Kept
<1>4. SubSeq(Span(j, 0, Len(c)), 1, m) = Span(j, 0, m) /\ Len(Span(j, 0, m)) = m
  <2> HIDE DEF c, m
  <2>1. m \in Nat /\ m <= Len(c) /\ 0 \in Nat /\ 0 <= m /\ m - 0 = m
    BY <1>1, <1>2
  <2>2. SubSeq(Span(j, 0, Len(c)), 1, m) = Span(j, 0, m)
    BY <1>1, <2>1, SpanFacts
  <2>3. Len(Span(j, 0, m)) = m - 0
    BY <2>1, SpanFacts
  <2> QED BY <2>1, <2>2, <2>3
<1>5. Kept(j) = Span(j, 0, m) /\ Len(Kept(j)) = m
  <2> HIDE DEF c, m
  <2> QED BY <1>1, <1>3, <1>4
<1>6. Chunks(m) = Chunks(Len(c))
  BY <1>1, ChunkRound
<1>7. Chunks(Len(Kept(j))) * Chunk = Len(Kept(j))
  <2>1. Chunks(m) * Chunk = m
    BY <1>6
  <2> HIDE DEF m
  <2> QED BY <1>5, <2>1
<1>8. m \in 0..Size[j]
  <2> HIDE DEF m, c
  <2> QED BY <1>1, <1>2
<1> HIDE DEF m
<1> QED BY <1>5, <1>7, <1>8 DEF Prefix

\* Two jobs with a path of their post's own put together the same file.
LEMMA Mates ==
    ASSUME NEW j \in Jobs, NEW k \in Jobs, Sole(k), PathOf[k] = PathOf[j]
    PROVE  /\ Sole(j) /\ UserOf[j] = UserOf[k]
           /\ \A c : Prefix(j, c) => Prefix(k, c)
<1>1. PostOf[j] = PostOf[k] /\ UserOf[j] = UserOf[k] /\ Sole(j)
  BY DEF Sole, Unshared
<1>2. Size[j] = Size[k]
  BY <1>1, DownloadsAssumption
<1>3. \A n : Span(j, 0, n) = Span(k, 0, n)
  BY <1>1 DEF Span
<1> QED BY <1>1, <1>2, <1>3 DEF Prefix

\* Nothing changes at the path.
Still(p) ==
    /\ p \in DOMAIN file' <=> p \in DOMAIN file
    /\ p \in DOMAIN part' <=> p \in DOMAIN part
    /\ p \in DOMAIN saved' <=> p \in DOMAIN saved
    /\ p \in DOMAIN file => file'[p] = file[p]
    /\ p \in DOMAIN part => part'[p] = part[p]
    /\ p \in DOMAIN saved => saved'[p] = saved[p]

\* The step is the job's own: nothing of the others changes, and nothing at their paths.
Own(j) ==
    /\ spoilt \subseteq spoilt'
    /\ \A k \in Jobs \ {j} : pc'[k] = pc[k] /\ call'[k] = call[k] /\ given'[k] = given[k]
    /\ \A p : p # PathOf[j] => Still(p)

LEMMA StillGood ==
    ASSUME NEW k \in Jobs, FilesGood(k), StreamGood(k), TypeOK, Still(PathOf[k]),
           pc'[k] = "stream" => pc[k] = "stream" /\ call'[k] = call[k]
    PROVE  FilesGood(k)' /\ StreamGood(k)'
<1>1. FilesGood(k)'
  BY DEF FilesGood, Still
<1>2. StreamGood(k)'
  <2>1. Stream(k, "disk")' => Stream(k, "disk") /\ PathOf[k] \in DOMAIN part
    BY DEF Stream, TypeOK
  <2>2. Stream(k, "ram")' => Stream(k, "ram")
    BY DEF Stream
  <2>3. pc'[k] = "stream" => State(k)' = State(k) /\ NextFrom(k)' = NextFrom(k)
    BY DEF State, NextFrom
  <2> QED BY <2>1, <2>2, <2>3 DEF StreamGood, Still, Stream
<1> QED BY <1>1, <1>2

LEMMA OwnStep ==
    ASSUME TypeOK, Serial, WholeInv, NEW j \in Jobs, pc[j] \notin Over, Own(j),
           Sole(j) /\ Sole(j)' => FilesGood(j)' /\ StreamGood(j)' /\ GivenGood(j)'
    PROVE  WholeInv'
<1> SUFFICES ASSUME NEW k \in Jobs, Sole(k)'
             PROVE  FilesGood(k)' /\ StreamGood(k)' /\ GivenGood(k)'
  BY DEF WholeInv
<1>1. Sole(k)
  BY DEF Sole, Unshared, Own
<1>2. FilesGood(k) /\ StreamGood(k) /\ GivenGood(k)
  BY <1>1 DEF WholeInv
<1>3. CASE k = j
  BY <1>1, <1>3
<1>4. CASE k # j
  <2>1. pc'[k] = pc[k] /\ call'[k] = call[k] /\ given'[k] = given[k]
    BY <1>4 DEF Own
  <2>2. GivenGood(k)'
    BY <1>2, <2>1 DEF GivenGood, Complete
  <2>3. CASE PathOf[k] # PathOf[j]
    BY <1>2, <2>1, <2>2, <2>3, StillGood DEF Own
  <2>4. CASE PathOf[k] = PathOf[j]
    <3>1. /\ Sole(j) /\ UserOf[j] = UserOf[k]
          /\ \A c : Prefix(j, c) => Prefix(k, c)
      BY <1>1, <2>4, Mates
    <3>2. Sole(j)'
      BY <2>4, <3>1 DEF Sole, Unshared
    <3>3. FilesGood(k)'
      BY <2>4, <3>1, <3>2 DEF FilesGood
    <3>4. pc[k] \in Over
      BY <1>4, <3>1 DEF Serial, Over
    <3>5. StreamGood(k)'
      BY <2>1, <3>4 DEF StreamGood, Stream, Over
    <3> QED BY <2>2, <3>3, <3>5
  <2> QED BY <2>3, <2>4
<1> QED BY <1>3, <1>4

\* A download that does not touch the files.
LEMMA QuietWhole ==
    ASSUME TypeOK, WholeInv, UNCHANGED <<fileVars, given, spoilt>>,
           \A k \in Jobs : pc'[k] = "stream" => pc[k] = "stream" /\ call'[k] = call[k]
    PROVE  WholeInv'
<1> SUFFICES ASSUME NEW k \in Jobs, Sole(k)'
             PROVE  FilesGood(k)' /\ StreamGood(k)' /\ GivenGood(k)'
  BY DEF WholeInv
<1>1. Sole(k)
  BY DEF Sole, Unshared
<1>2. FilesGood(k) /\ StreamGood(k) /\ GivenGood(k)
  BY <1>1 DEF WholeInv
<1>3. Still(PathOf[k])
  BY DEF Still, fileVars
<1>4. GivenGood(k)'
  BY <1>2 DEF GivenGood, Complete
<1> QED BY <1>2, <1>3, <1>4, StillGood

\* Directories are removed in which nobody streams.
LEMMA RemoveWhole ==
    ASSUME TypeOK, WholeInv, NEW dirs, Remove(dirs), spoilt' = spoilt,
           \A k \in Jobs : given'[k] \in {given[k], <<>>},
           \A k \in Jobs : pc'[k] = "stream" =>
              pc[k] = "stream" /\ call'[k] = call[k] /\ Dir(PathOf[k]) \notin dirs
    PROVE  WholeInv'
<1> DEFINE gone == {p \in Paths : Dir(p) \in dirs}
<1> SUFFICES ASSUME NEW k \in Jobs, Sole(k)'
             PROVE  FilesGood(k)' /\ StreamGood(k)' /\ GivenGood(k)'
  BY DEF WholeInv
<1>1. Sole(k)
  BY DEF Sole, Unshared
<1>2. FilesGood(k) /\ StreamGood(k) /\ GivenGood(k)
  BY <1>1 DEF WholeInv
<1>3. GivenGood(k)'
  BY <1>2 DEF GivenGood, Complete
<1>4. /\ file' = Delete(file, gone) /\ part' = Delete(part, gone)
      /\ saved' = Delete(saved, gone)
  BY DEF Remove
<1>5. CASE Dir(PathOf[k]) \in dirs
  <2>1. PathOf[k] \in gone
    BY <1>5 DEF Paths
  <2>2. PathOf[k] \notin DOMAIN file' /\ PathOf[k] \notin DOMAIN part' /\ PathOf[k] \notin DOMAIN saved'
    <3> HIDE DEF gone
    <3> QED BY <1>4, <2>1 DEF Delete
  <2>3. FilesGood(k)'
    BY <2>2 DEF FilesGood
  <2>4. StreamGood(k)'
    BY <1>5 DEF StreamGood, Stream
  <2> QED BY <1>3, <2>3, <2>4
<1>6. CASE Dir(PathOf[k]) \notin dirs
  <2>1. PathOf[k] \notin gone
    BY <1>6
  <2>2. Still(PathOf[k])
    <3> HIDE DEF gone
    <3> QED BY <1>4, <2>1 DEF Delete, Still
  <2> QED BY <1>2, <1>3, <2>2, StillGood
<1> QED BY <1>5, <1>6

\* A file system in which one path was written or removed, or nothing changed.
Touched(after, fs, p) == after = fs \/ after = Delete(fs, {p}) \/ \E c : after = Write(fs, p, c)

\* The files at all other paths stay.
LEMMA StillElsewhere ==
    ASSUME NEW p, Touched(file', file, p), Touched(part', part, p), Touched(saved', saved, p)
    PROVE  \A q : q # p => Still(q)
<1> SUFFICES ASSUME NEW q, q # p
             PROVE  Still(q)
  OBVIOUS
<1>1. ASSUME NEW fs, NEW after, Touched(after, fs, p)
      PROVE  (q \in DOMAIN after <=> q \in DOMAIN fs) /\ (q \in DOMAIN fs => after[q] = fs[q])
  <2>1. CASE after = fs
    BY <2>1
  <2>2. CASE \E c : after = Write(fs, p, c)
    BY <2>2 DEF Write
  <2>3. CASE after = Delete(fs, {p})
    BY <2>3 DEF Delete
  <2> QED BY <1>1, <2>1, <2>2, <2>3 DEF Touched
<1>2. /\ q \in DOMAIN file' <=> q \in DOMAIN file
      /\ q \in DOMAIN file => file'[q] = file[q]
  BY <1>1
<1>3. /\ q \in DOMAIN part' <=> q \in DOMAIN part
      /\ q \in DOMAIN part => part'[q] = part[q]
  BY <1>1
<1>4. /\ q \in DOMAIN saved' <=> q \in DOMAIN saved
      /\ q \in DOMAIN saved => saved'[q] = saved[q]
  BY <1>1
<1> QED BY <1>2, <1>3, <1>4 DEF Still

\* What a download goes on with: whole chunks of the post's file, as many as its state says.
LEMMA LoadedGood ==
    ASSUME TypeOK, NEW j \in Jobs, FilesGood(j), NEW content,
           content = IF PathOf[j] \in DOMAIN part /\ Len(part[PathOf[j]]) <= Size[j]
                     THEN Kept(j) ELSE <<>>
    PROVE  /\ Prefix(j, content)
           /\ Len(content) = Loaded(j).chunk * Chunk
           /\ Loaded(j).bytes = 0 => Loaded(j).chunk = 0 /\ content = <<>>
<1> DEFINE p  == PathOf[j]
           st == IF p \in DOMAIN saved /\ saved[p].id = fileId[j] THEN saved[p]
                                                                  ELSE Fresh(fileId[j])
<1>0. Chunk \in Nat \ {0}
  BY DownloadsAssumption
<1>1. st \in States
  BY StateTypes DEF TypeOK, SavedOK, States, Fresh
<1>2. CASE p \in DOMAIN part
  <2>1. Prefix(j, part[p])
    BY <1>2 DEF FilesGood
  <2>2. content = Kept(j) /\ Loaded(j) = AtEndOf(st, Kept(j))
    <3>1. Len(part[p]) <= Size[j]
      BY <2>1, PrefixFacts, DownloadsAssumption
    <3> QED BY <1>2, <3>1 DEF Loaded
  <2>3. Prefix(j, Kept(j)) /\ Chunks(Len(Kept(j))) * Chunk = Len(Kept(j))
    BY <2>1, KeptPrefix
  <2>4. Loaded(j).bytes = Len(Kept(j)) /\ Loaded(j).chunk = Chunks(Len(Kept(j)))
    <3> HIDE DEF st
    <3> QED BY <1>1, <2>2 DEF AtEndOf, States
  <2>5. Len(Kept(j)) = 0 => Kept(j) = <<>>
    <3>1. Kept(j) = Span(j, 0, Len(Kept(j)))
      BY <2>3, PrefixFacts
    <3>2. Span(j, 0, 0) = <<>>
      BY SpanFacts
    <3> QED BY <3>1, <3>2
  <2> QED BY <2>2, <2>3, <2>4, <2>5, ChunkRound
<1>3. CASE p \notin DOMAIN part
  <2>1. content = <<>> /\ Loaded(j) = st
    BY <1>3 DEF Loaded
  <2>2. st.chunk = 0
    BY <1>3 DEF FilesGood, Fresh
  <2>3. Len(<<>>) = 0 /\ 0 * Chunk = 0
    BY <1>0
  <2> HIDE DEF st
  <2> QED BY <2>1, <2>2, <2>3, EmptyPrefix
<1> QED BY <1>2, <1>3

LEMMA OpenWhole ==
    ASSUME TypeOK, Serial, WholeInv, NEW j \in Jobs, Open(j)
    PROVE  WholeInv'
<1> DEFINE p == PathOf[j]
           content == IF p \in DOMAIN part /\ Len(part[p]) <= Size[j] THEN Kept(j) ELSE <<>>
           opened(mode) == [mode |-> mode, try |-> 1, state |-> Loaded(j)]
<1>1. pc[j] \notin Over
  BY DEF Open, Over
<1>2. PICK mode \in {"ram", "disk"}, c \in {opened("ram"), opened("disk")} :
          /\ c = opened(mode) /\ call' = [call EXCEPT ![j] = c]
          /\ \/ /\ mode = "ram" /\ Loaded(j).bytes = 0
                /\ part' = Write(part, p, content) \/ part' = Delete(part, {p})
             \/ /\ mode = "disk"
                /\ part' = Write(part, p, IF Loaded(j).bytes > 0 THEN content ELSE <<>>)
  BY DEF Open, OpenPart
<1>3. pc' = [pc EXCEPT ![j] = "stream"] /\ UNCHANGED <<file, saved, given, spoilt>>
  BY DEF Open, Goto
<1>4. Own(j)
  <2> HIDE DEF content, opened
  <2>1. Touched(part', part, p)
    BY <1>2 DEF Touched
  <2>2. \A q : q # p => Still(q)
    BY <1>3, <2>1, StillElsewhere DEF Touched
  <2>3. \A k \in Jobs \ {j} : pc'[k] = pc[k] /\ call'[k] = call[k] /\ given'[k] = given[k]
    BY <1>2, <1>3 DEF TypeOK
  <2> QED BY <1>3, <2>2, <2>3 DEF Own
<1>5. ASSUME Sole(j) PROVE FilesGood(j)' /\ StreamGood(j)' /\ GivenGood(j)'
  <2>1. FilesGood(j) /\ GivenGood(j)
    BY <1>5 DEF WholeInv
  <2>2. /\ Prefix(j, content) /\ Len(content) = Loaded(j).chunk * Chunk
        /\ Loaded(j).bytes = 0 => Loaded(j).chunk = 0 /\ content = <<>>
    BY <2>1, LoadedGood
  <2>3. Loaded(j).bytes \in Nat /\ Loaded(j).chunk \in Nat /\ c.state = Loaded(j) /\ c.mode = mode
    BY <1>2, LoadedType DEF States
  <2>4. call'[j] = c /\ State(j)' = Loaded(j) /\ pc'[j] = "stream"
    <3> HIDE DEF opened
    <3> QED BY <1>2, <1>3, <2>3 DEF State, TypeOK
  <2>5. GivenGood(j)'
    BY <1>3, <2>1 DEF GivenGood, Complete
  <2>6. \/ p \in DOMAIN part' /\ part'[p] = content
        \/ p \notin DOMAIN part' /\ mode = "ram"
    <3> HIDE DEF content, opened
    <3>1. (IF Loaded(j).bytes > 0 THEN content ELSE <<>>) = content
      BY <2>2, <2>3
    <3>2. part' = Write(part, p, content) \/ (part' = Delete(part, {p}) /\ mode = "ram")
      BY <1>2, <3>1
    <3> QED BY <3>2 DEF Write, Delete
  <2>7. p \notin DOMAIN part' => p \notin DOMAIN part \/ Prefix(j, part[p])
    BY <2>1 DEF FilesGood
  <2>8. p \notin DOMAIN part' => p \notin DOMAIN part
    <3> SUFFICES ASSUME p \in DOMAIN part PROVE p \in DOMAIN part'
      OBVIOUS
    <3>1. Len(part[p]) <= Size[j]
      BY <2>1, PrefixFacts, DownloadsAssumption DEF FilesGood
    <3>2. part' = Write(part, p, content) \/ part' = OpenPart(j, Loaded(j), content)
      BY <3>1 DEF Open
    <3> HIDE DEF content
    <3> QED BY <3>2 DEF OpenPart, Write
  <2> HIDE DEF content, opened
  <2>9. FilesGood(j)'
    BY <1>3, <2>1, <2>2, <2>6, <2>8 DEF FilesGood
  <2>10. StreamGood(j)'
    <3>1. Stream(j, "disk")' => mode = "disk"
      BY <2>3, <2>4 DEF Stream
    <3>2. Stream(j, "ram")' => mode = "ram"
      BY <2>3, <2>4 DEF Stream
    <3>3. mode = "ram" => State(j)'.chunk = 0 /\ (p \in DOMAIN part' => part'[p] = <<>>)
      BY <1>2, <2>2, <2>4, <2>6
    <3>4. mode = "disk" => Len(part'[p]) = Least(NextFrom(j)', Size[j])
      <4>1. Len(content) \in 0..Size[j]
        BY <2>2, PrefixFacts
      <4>2. NextFrom(j)' = Len(content)
        BY <2>2, <2>4 DEF NextFrom
      <4>3. Least(Len(content), Size[j]) = Len(content)
        BY <4>1, DownloadsAssumption DEF Least
      <4> QED BY <2>6, <4>2, <4>3
    <3> QED BY <3>1, <3>2, <3>3, <3>4 DEF StreamGood
  <2> QED BY <2>5, <2>9, <2>10
<1> QED BY <1>1, <1>4, <1>5, OwnStep

LEMMA FoundWhole ==
    ASSUME TypeOK, Serial, WholeInv, NEW j \in Jobs, Found(j)
    PROVE  WholeInv'
<1> DEFINE p == PathOf[j]
<1>1. /\ pc[j] = "try" /\ p \in DOMAIN file /\ Len(file[p]) = Size[j]
      /\ pc' = [pc EXCEPT ![j] = "got"] /\ given' = [given EXCEPT ![j] = file[p]]
      /\ part' = Delete(part, {p}) /\ saved' = Delete(saved, {p})
      /\ UNCHANGED <<file, call, spoilt>>
  BY DEF Found, Goto
<1>2. Own(j)
  <2>1. \A q : q # p => Still(q)
    BY <1>1, StillElsewhere DEF Touched
  <2> QED BY <1>1, <2>1 DEF Own, TypeOK
<1>3. ASSUME Sole(j) PROVE FilesGood(j)' /\ StreamGood(j)' /\ GivenGood(j)'
  <2>1. Prefix(j, file[p])
    BY <1>1, <1>3 DEF WholeInv, FilesGood
  <2>2. p \notin DOMAIN part' /\ p \notin DOMAIN saved'
    BY <1>1 DEF Delete
  <2>3. FilesGood(j)'
    BY <1>1, <2>1, <2>2 DEF FilesGood
  <2>4. StreamGood(j)'
    BY <1>1 DEF StreamGood, Stream, TypeOK
  <2>5. given'[j] = file[p]
    BY <1>1 DEF TypeOK
  <2>6. Complete(j)'
    BY <1>1, <2>1, <2>5, PrefixFacts, DownloadsAssumption DEF Complete, LongEnough
  <2> QED BY <2>3, <2>4, <2>6 DEF GivenGood
<1> QED BY <1>1, <1>2, <1>3, OwnStep DEF Over

\* A download that succeeds.
LEMMA SucceedsWhole ==
    ASSUME TypeOK, Serial, WholeInv, NEW j \in Jobs, pc[j] = "stream",
           NEW content, Succeeds(j, content), spoilt' = spoilt,
           NEW c, c = IF PathOf[j] \in DOMAIN part THEN part[PathOf[j]] ELSE content,
           Sole(j) /\ c # <<>> => Prefix(j, c) /\ LongEnough(j, Len(c))
    PROVE  WholeInv'
<1> DEFINE p == PathOf[j]
<1>1. /\ Returns(j, c)
      /\ part' = Delete(part, {p}) /\ saved' = Delete(saved, {p})
  BY DEF Succeeds
<1>2. p \notin DOMAIN part' /\ p \notin DOMAIN saved'
  BY <1>1 DEF Delete
<1>3. CASE c = <<>>
  <2>1. file' = Delete(file, {p}) /\ Leave(j, "failed") /\ given' = given
    BY <1>1, <1>3 DEF Returns
  <2>2. Own(j)
    <3>1. \A q : q # p => Still(q)
      BY <1>1, <2>1, StillElsewhere DEF Touched
    <3> QED BY <2>1, <3>1 DEF Own, TypeOK, Leave, Goto
  <2>3. p \notin DOMAIN file' /\ pc'[j] = "failed"
    BY <2>1 DEF Delete, Leave, Goto, TypeOK
  <2>4. FilesGood(j)' /\ StreamGood(j)'
    BY <1>2, <2>3 DEF FilesGood, StreamGood, Stream
  <2>5. Sole(j) => GivenGood(j)'
    BY <2>1 DEF WholeInv, GivenGood, Complete
  <2> QED BY <2>2, <2>4, <2>5, OwnStep DEF Over
<1>4. CASE c # <<>>
  <2>1. file' = Write(file, p, c) /\ Leave(j, "got") /\ given' = [given EXCEPT ![j] = c]
    BY <1>1, <1>4 DEF Returns
  <2>2. Own(j)
    <3>1. \A q : q # p => Still(q)
      BY <1>1, <2>1, StillElsewhere DEF Touched
    <3> QED BY <2>1, <3>1 DEF Own, TypeOK, Leave, Goto
  <2>3. file'[p] = c /\ given'[j] = c /\ pc'[j] = "got"
    <3>1. file'[p] = c
      BY <2>1 DEF Write
    <3> QED BY <2>1, <3>1 DEF Leave, Goto, TypeOK
  <2>4. StreamGood(j)'
    BY <2>3 DEF StreamGood, Stream
  <2>5. Sole(j) => FilesGood(j)'
    BY <1>2, <1>4, <2>3 DEF FilesGood
  <2>6. Sole(j) => GivenGood(j)'
    <3> SUFFICES ASSUME Sole(j) PROVE Complete(j)'
      BY DEF GivenGood
    <3>1. Prefix(j, c) /\ LongEnough(j, Len(c))
      BY <1>4
    <3>2. c = Span(j, 0, Len(c))
      BY <3>1, PrefixFacts
    <3> QED BY <2>3, <3>1, <3>2 DEF Complete
  <2> QED BY <2>2, <2>4, <2>5, <2>6, OwnStep DEF Over
<1> QED BY <1>3, <1>4

LEMMA RamWhole ==
    ASSUME TypeOK, Serial, WholeInv, NEW j \in Jobs, RamFetch(j) \/ RamShort(j) \/ RamFails(j)
    PROVE  WholeInv'
<1> DEFINE p == PathOf[j]
<1>0. pc[j] = "stream" /\ pc[j] \notin Over /\ Stream(j, "ram")
  BY DEF RamFetch, RamShort, RamFails, Stream, Over
<1>1. Sole(j) => State(j).chunk = 0 /\ (p \in DOMAIN part => part[p] = <<>>)
  BY <1>0 DEF WholeInv, StreamGood
<1>2. CASE RamFetch(j)
  <2>1. PICK n \in 1..Size[j] : LongEnough(j, n) /\ Succeeds(j, Span(j, 0, n))
    BY <1>2 DEF RamFetch
  <2>2. n \in 0..Size[j] /\ Prefix(j, Span(j, 0, n)) /\ Len(Span(j, 0, n)) = n
    <3>1. n \in Nat /\ 0 \in Nat /\ 0 <= n /\ n - 0 = n /\ n \in 0..Size[j]
      BY DownloadsAssumption
    <3> QED BY <3>1, SpanFacts DEF Prefix
  <2> DEFINE c == IF p \in DOMAIN part THEN part[p] ELSE Span(j, 0, n)
  <2>3. Sole(j) /\ c # <<>> => Prefix(j, c) /\ LongEnough(j, Len(c))
    BY <1>1, <2>1, <2>2
  <2>4. spoilt' = spoilt
    BY <1>2 DEF RamFetch
  <2> HIDE DEF c
  <2> QED BY <1>0, <2>1, <2>3, <2>4, SucceedsWhole DEF c
<1>3. CASE RamShort(j)
  <2>1. /\ file' = Delete(file, {p}) \/ file' = file
        /\ Leave(j, "failed") /\ UNCHANGED <<part, saved, given, spoilt>>
    BY <1>3 DEF RamShort
  <2>2. Own(j)
    <3>1. \A q : q # p => Still(q)
      BY <2>1, StillElsewhere DEF Touched
    <3> QED BY <2>1, <3>1 DEF Own, TypeOK, Leave, Goto
  <2>3. Sole(j) => FilesGood(j)'
    <3> SUFFICES ASSUME Sole(j) PROVE FilesGood(j)'
      OBVIOUS
    <3>1. FilesGood(j)
      BY DEF WholeInv
    <3>2. p \in DOMAIN file' => p \in DOMAIN file /\ file'[p] = file[p]
      BY <2>1 DEF Delete
    <3> QED BY <2>1, <3>1, <3>2 DEF FilesGood
  <2>4. StreamGood(j)'
    BY <2>1 DEF StreamGood, Stream, Leave, Goto, TypeOK
  <2>5. Sole(j) => GivenGood(j)'
    BY <2>1 DEF WholeInv, GivenGood, Complete
  <2> QED BY <1>0, <2>2, <2>3, <2>4, <2>5, OwnStep
<1>4. CASE RamFails(j)
  <2>1. PICK st \in {[State(j) EXCEPT !.bytes = seen] : seen \in {0, Size[j]}} :
          /\ saved' = Write(saved, p, st)
          /\ \/ Leave(j, "failed")
             \/ \E next \in {st} \cup {AtEndOf(st, part[q]) : q \in {p} \cap DOMAIN part} :
                   Again(j, next)
    BY <1>4 DEF RamFails, Fails
  <2>2. UNCHANGED <<file, part, given, spoilt>>
    BY <1>4 DEF RamFails
  <2>3. Own(j)
    <3>1. \A q : q # p => Still(q)
      BY <2>1, <2>2, StillElsewhere DEF Touched
    <3>2. \A k \in Jobs \ {j} : pc'[k] = pc[k] /\ call'[k] = call[k]
      BY <2>1 DEF Leave, Goto, Again, TypeOK
    <3> QED BY <2>2, <3>1, <3>2 DEF Own
  <2>4. st \in States /\ st.chunk = State(j).chunk
    <3>1. PICK seen \in {0, Size[j]} : st = [State(j) EXCEPT !.bytes = seen]
      OBVIOUS
    <3>2. State(j) \in States
      BY DEF State, TypeOK, Calls
    <3> QED BY <3>1, <3>2, StateTypes, DownloadsAssumption DEF States
  <2>5. p \in DOMAIN saved' /\ saved'[p] = st
    <3> HIDE DEF p
    <3> QED BY <2>1 DEF Write
  <2>6. Sole(j) => FilesGood(j)'
    <3> SUFFICES ASSUME Sole(j) PROVE FilesGood(j)'
      OBVIOUS
    <3>1. FilesGood(j)
      BY DEF WholeInv
    <3> QED BY <1>1, <2>2, <2>4, <2>5, <3>1 DEF FilesGood
  <2>7. Sole(j) => StreamGood(j)'
    <3> SUFFICES ASSUME Sole(j) PROVE StreamGood(j)'
      OBVIOUS
    <3>1. CASE Leave(j, "failed")
      BY <3>1 DEF StreamGood, Stream, Leave, Goto, TypeOK
    <3>2. CASE \E next \in {st} \cup {AtEndOf(st, part[q]) : q \in {p} \cap DOMAIN part} :
                   Again(j, next)
      <4>1. PICK next \in {st} \cup {AtEndOf(st, part[q]) : q \in {p} \cap DOMAIN part} :
                   Again(j, next)
        BY <3>2
      <4>2. next.chunk = 0
        <5>1. CASE next = st
          BY <1>1, <2>4, <5>1
        <5>2. CASE p \in DOMAIN part /\ next = AtEndOf(st, part[p])
          <6>1. next = AtEndOf(st, <<>>) /\ Len(<<>>) = 0 /\ Chunks(0) = 0
            BY <1>1, <5>2, ChunkRound
          <6> QED BY <2>4, <6>1 DEF AtEndOf, States
        <5> QED BY <4>1, <5>1, <5>2
      <4>3. State(j)' = next /\ call'[j].mode = "ram"
        BY <1>0, <4>1 DEF Again, State, TypeOK, Calls, Stream
      <4> QED BY <1>1, <2>2, <4>2, <4>3 DEF StreamGood, Stream
    <3> QED BY <2>1, <3>1, <3>2
  <2>8. Sole(j) => GivenGood(j)'
    BY <2>2 DEF WholeInv, GivenGood, Complete
  <2> QED BY <1>0, <2>3, <2>6, <2>7, <2>8, OwnStep
<1> QED BY <1>2, <1>3, <1>4

\* A piece of the file put behind what is there already.
LEMMA Appended ==
    ASSUME TypeOK, NEW j \in Jobs, FilesGood(j), StreamGood(j), Stream(j, "disk"), ~AllRead(j),
           NEW n \in NextFrom(j)..NextEnd(j),
           NEW content, content = part[PathOf[j]] \o Span(j, NextFrom(j), n)
    PROVE  Prefix(j, content) /\ Len(content) = n /\ n \in Nat
<1>1. State(j) \in States
  BY DEF State, TypeOK, Calls
<1>2. NextFrom(j) \in Nat /\ NextEnd(j) \in Nat /\ NextFrom(j) < NextEnd(j)
  BY <1>1, NextFacts
<1>3. Size[j] \in Nat /\ NextFrom(j) < Size[j] /\ NextEnd(j) <= Size[j]
  <2>1. Chunk \in Nat /\ Size[j] \in Nat
    BY DownloadsAssumption
  <2>2. NextFrom(j) < Size[j]
    BY <1>2, <2>1 DEF AllRead
  <2> QED BY <1>2, <2>1, <2>2 DEF NextEnd, Least
<1>4. n \in Nat /\ NextFrom(j) <= n /\ n <= Size[j]
  BY <1>2, <1>3
<1>5. Prefix(j, part[PathOf[j]]) /\ Len(part[PathOf[j]]) = NextFrom(j)
  <2>1. PathOf[j] \in DOMAIN part
    BY DEF TypeOK
  <2>2. Least(NextFrom(j), Size[j]) = NextFrom(j)
    BY <1>3 DEF Least
  <2> QED BY <2>1, <2>2 DEF FilesGood, StreamGood
<1>6. part[PathOf[j]] = Span(j, 0, NextFrom(j))
  BY <1>5, PrefixFacts
<1>7. content = Span(j, 0, n)
  BY <1>2, <1>4, <1>6, SpanFacts
<1>8. Len(Span(j, 0, n)) = n
  <2>1. 0 \in Nat /\ 0 <= n /\ n - 0 = n
    BY <1>4
  <2> QED BY <1>4, <2>1, SpanFacts
<1> QED BY <1>4, <1>7, <1>8 DEF Prefix

LEMMA DiskChunkWhole ==
    ASSUME TypeOK, Serial, WholeInv, NEW j \in Jobs, DiskChunk(j)
    PROVE  WholeInv'
<1> DEFINE p == PathOf[j]
           st == [State(j) EXCEPT !.bytes = @ + NextEnd(j) - NextFrom(j), !.chunk = @ + 1]
           content == part[p] \o Span(j, NextFrom(j), NextEnd(j))
<1>1. /\ Stream(j, "disk") /\ ~AllRead(j) /\ pc[j] = "stream"
      /\ part' = Write(part, p, content) /\ call' = [call EXCEPT ![j].state = st]
      /\ saved' \in {saved, Write(saved, p, st)}
      /\ UNCHANGED <<file, pc, given, spoilt>>
  BY DEF DiskChunk, Stream
<1>2. State(j) \in States
  BY DEF State, TypeOK, Calls
<1>3. NextFrom(j) \in Nat /\ NextEnd(j) \in Nat /\ NextFrom(j) < NextEnd(j)
  BY <1>1, <1>2, NextFacts
<1>4. State(j)' = st /\ st.chunk = State(j).chunk + 1
  <2>1. st.chunk = State(j).chunk + 1
    BY <1>2 DEF States
  <2> HIDE DEF st
  <2> QED BY <1>1, <2>1 DEF State, TypeOK, Calls
<1>5. p \in DOMAIN part' /\ part'[p] = content
  <2> HIDE DEF content, p
  <2> QED BY <1>1 DEF Write
<1> HIDE DEF content, st
<1>6. Own(j)
  <2>1. \A q : q # p => Still(q)
    BY <1>1, StillElsewhere DEF Touched
  <2> QED BY <1>1, <2>1 DEF Own, TypeOK
<1>7. ASSUME Sole(j) PROVE FilesGood(j)' /\ StreamGood(j)' /\ GivenGood(j)'
  <2>1. FilesGood(j) /\ StreamGood(j) /\ GivenGood(j)
    BY <1>7 DEF WholeInv
  <2>2. NextEnd(j) \in NextFrom(j)..NextEnd(j)
    BY <1>3
  <2>3. Prefix(j, content) /\ Len(content) = NextEnd(j)
    BY <1>1, <2>1, <2>2, Appended DEF content
  <2>4. FilesGood(j)'
    BY <1>1, <1>5, <2>1, <2>3 DEF FilesGood
  <2>5. NextFrom(j)' = NextFrom(j) + Chunk
    <3>1. State(j).chunk \in Nat /\ Chunk \in Nat
      BY <1>2, DownloadsAssumption DEF States
    <3>2. (State(j).chunk + 1) * Chunk = State(j).chunk * Chunk + Chunk
      BY <3>1
    <3> QED BY <1>4, <3>2 DEF NextFrom
  <2>6. StreamGood(j)'
    <3>1. Stream(j, "ram")' = FALSE
      BY <1>1 DEF Stream, TypeOK, Calls
    <3>2. Len(part'[p]) = Least(NextFrom(j)', Size[j])
      BY <1>5, <2>3, <2>5 DEF NextEnd
    <3> QED BY <3>1, <3>2 DEF StreamGood
  <2>7. GivenGood(j)'
    BY <1>1, <2>1 DEF GivenGood, Complete
  <2> QED BY <2>4, <2>6, <2>7
<1> QED BY <1>1, <1>6, <1>7, OwnStep DEF Over

LEMMA DiskEndsWhole ==
    ASSUME TypeOK, Serial, WholeInv, NEW j \in Jobs, DiskEnds(j)
    PROVE  WholeInv'
<1> DEFINE p == PathOf[j]
           content == part[p]
<1>1. Stream(j, "disk") /\ pc[j] = "stream" /\ p \in DOMAIN part /\ UNCHANGED spoilt
  BY DEF DiskEnds, Stream, TypeOK
<1>2. CASE LongEnough(j, Len(content)) /\ Succeeds(j, content)
  <2>1. Sole(j) => Prefix(j, content)
    BY <1>1 DEF WholeInv, FilesGood
  <2>2. content = IF p \in DOMAIN part THEN part[p] ELSE content
    OBVIOUS
  <2> HIDE DEF content
  <2> QED BY <1>1, <1>2, <2>1, <2>2, SucceedsWhole
<1>3. CASE Fails(j, State(j)) /\ UNCHANGED <<file, part, given>>
  <2>1. saved' = Write(saved, p, State(j)) /\ Leave(j, "failed")
    BY <1>3 DEF Fails
  <2>2. Own(j)
    <3>1. \A q : q # p => Still(q)
      <4> HIDE DEF p, content
      <4> QED BY <1>3, <2>1, StillElsewhere DEF Touched
    <3> QED BY <1>1, <1>3, <2>1, <3>1 DEF Own, TypeOK, Leave, Goto
  <2>3. Sole(j) => FilesGood(j)'
    BY <1>1, <1>3 DEF WholeInv, FilesGood
  <2>4. StreamGood(j)'
    BY <2>1 DEF StreamGood, Stream, Leave, Goto, TypeOK
  <2>5. Sole(j) => GivenGood(j)'
    BY <1>3 DEF WholeInv, GivenGood, Complete
  <2> QED BY <1>1, <2>2, <2>3, <2>4, <2>5, OwnStep DEF Over
<1> QED BY <1>2, <1>3 DEF DiskEnds

LEMMA DiskFailsWhole ==
    ASSUME TypeOK, Serial, WholeInv, NEW j \in Jobs, DiskFails(j)
    PROVE  WholeInv'
<1> DEFINE p == PathOf[j]
           content(n) == part[p] \o Span(j, NextFrom(j), n)
           st(n) == AtEndOf(State(j), content(n))
<1>1. PICK n \in NextFrom(j)..(NextEnd(j) - 1) :
          \/ /\ part' = Write(part, p, content(n))
             /\ Fails(j, State(j))
             /\ UNCHANGED spoilt
          \/ /\ part' = OpenPart(j, st(n), content(n))
             /\ Again(j, st(n))
             /\ saved' = Write(saved, p, State(j))
             /\ spoilt' = IF Len(content(n)) % Chunk = 0 THEN spoilt ELSE spoilt \cup {p}
  BY DEF DiskFails
<1>2. /\ Stream(j, "disk") /\ ~AllRead(j) /\ pc[j] = "stream" /\ UNCHANGED <<file, given>>
      /\ p \in DOMAIN part
  BY DEF DiskFails, Stream, TypeOK
<1>3. State(j) \in States
  BY DEF State, TypeOK, Calls
<1>4. NextFrom(j) \in Nat /\ NextEnd(j) \in Nat /\ NextFrom(j) < NextEnd(j)
  BY <1>2, <1>3, NextFacts
<1>5. n \in NextFrom(j)..NextEnd(j)
  BY <1>1, <1>4
<1>6. Own(j)
  <2> HIDE DEF content, st
  <2>1. Touched(part', part, p)
    BY <1>1 DEF OpenPart, Touched
  <2>2. saved' = Write(saved, p, State(j))
    BY <1>1 DEF Fails
  <2>3. \A q : q # p => Still(q)
    BY <1>2, <2>1, <2>2, StillElsewhere DEF Touched
  <2>4. \A k \in Jobs \ {j} : pc'[k] = pc[k] /\ call'[k] = call[k]
    BY <1>1 DEF Fails, Leave, Goto, Again, TypeOK
  <2>5. spoilt \subseteq spoilt'
    BY <1>1
  <2> QED BY <1>2, <2>3, <2>4, <2>5 DEF Own
<1>7. ASSUME Sole(j), Sole(j)' PROVE FilesGood(j)' /\ StreamGood(j)' /\ GivenGood(j)'
  <2>1. FilesGood(j) /\ StreamGood(j) /\ GivenGood(j)
    BY <1>7 DEF WholeInv
  <2>2. Prefix(j, content(n)) /\ Len(content(n)) = n /\ n \in Nat
    BY <1>2, <1>5, <2>1, Appended
  <2>3. GivenGood(j)'
    BY <1>2, <2>1 DEF GivenGood, Complete
  <2>4. CASE part' = Write(part, p, content(n)) /\ Fails(j, State(j))
    <3> HIDE DEF content, st
    <3>1. p \in DOMAIN part' /\ part'[p] = content(n)
      <4> HIDE DEF p
      <4> QED BY <2>4 DEF Write
    <3>2. FilesGood(j)'
      BY <1>2, <2>1, <2>2, <3>1 DEF FilesGood
    <3>3. StreamGood(j)'
      BY <2>4 DEF StreamGood, Stream, Fails, Leave, Goto, TypeOK
    <3> QED BY <2>3, <3>2, <3>3
  <2>5. CASE /\ part' = OpenPart(j, st(n), content(n)) /\ Again(j, st(n))
             /\ spoilt' = IF Len(content(n)) % Chunk = 0 THEN spoilt ELSE spoilt \cup {p}
    <3>1. st(n).bytes = n /\ st(n).chunk = Chunks(n)
      <4> HIDE DEF content
      <4> QED BY <1>3, <2>2 DEF AtEndOf, States
    <3> HIDE DEF content, st
    <3>2. n % Chunk = 0
      BY <1>7, <2>2, <2>5 DEF Sole
    <3>3. Chunks(n) * Chunk = n
      BY <2>2, <3>2, ChunkRound
    <3>4. content(n) = Span(j, 0, n)
      BY <2>2, PrefixFacts
    <3>5. (IF st(n).bytes > 0 THEN content(n) ELSE <<>>) = content(n)
      <4>1. n = 0 => Span(j, 0, n) = <<>>
        BY SpanFacts
      <4> QED BY <2>2, <3>1, <3>4, <4>1
    <3>6. p \in DOMAIN part' /\ part'[p] = content(n)
      <4>1. part' = Write(part, p, content(n))
        BY <2>5, <3>5 DEF OpenPart
      <4> HIDE DEF p
      <4> QED BY <4>1 DEF Write
    <3>7. FilesGood(j)'
      BY <1>2, <2>1, <2>2, <3>6 DEF FilesGood
    <3>8. State(j)' = st(n) /\ call'[j].mode = "disk"
      BY <1>2, <2>5 DEF Again, State, TypeOK, Calls, Stream
    <3>9. NextFrom(j)' = n
      BY <3>1, <3>3, <3>8 DEF NextFrom
    <3>10. Least(n, Size[j]) = n
      <4>1. n \in 0..Size[j]
        BY <2>2, PrefixFacts
      <4> QED BY <4>1, DownloadsAssumption DEF Least
    <3>11. StreamGood(j)'
      BY <2>2, <3>6, <3>8, <3>9, <3>10 DEF StreamGood, Stream
    <3> QED BY <2>3, <3>7, <3>11
  <2> QED BY <1>1, <2>4, <2>5
<1> QED BY <1>2, <1>6, <1>7, OwnStep DEF Over

-----------------------------------------------------------------------------
LEMMA InitWhole == ASSUME Init PROVE WholeInv
<1>1. DOMAIN file = {} /\ DOMAIN part = {} /\ DOMAIN saved = {}
  BY DEF Init
<1>2. ASSUME NEW j \in Jobs PROVE FilesGood(j) /\ StreamGood(j) /\ GivenGood(j)
  BY <1>1 DEF Init, FilesGood, StreamGood, Stream, GivenGood
<1> QED BY <1>2 DEF WholeInv

LEMMA WholeStep ==
    ASSUME TypeOK, Serial, WholeInv, [Next]_vars
    PROVE  WholeInv'
<1>1. ASSUME NEW j \in Jobs, Begin(j) \/ Retry(j) \/ Upload(j) \/ Stall(j) PROVE WholeInv'
  <2>1. \A k \in Jobs : pc'[k] = "stream" => pc[k] = "stream" /\ call'[k] = call[k]
    BY <1>1 DEF Begin, Retry, End, Upload, Stall, Leave, Goto, TypeOK
  <2>2. UNCHANGED <<fileVars, given, spoilt>>
    BY <1>1 DEF Begin, Retry, Upload, Stall
  <2> QED BY <2>1, <2>2, QuietWhole
<1>2. ASSUME NEW j \in Jobs, Cleanup(j) PROVE WholeInv'
  <2> DEFINE p == PathOf[j]
  <2>1. /\ pc[j] = "sent" /\ pc' = [pc EXCEPT ![j] = "done"] /\ given' = [given EXCEPT ![j] = <<>>]
        /\ file' = Delete(file, {p}) /\ UNCHANGED <<part, saved, call, spoilt>>
    BY <1>2 DEF Cleanup, Goto
  <2>2. Own(j)
    <3>1. \A q : q # p => Still(q)
      BY <2>1, StillElsewhere DEF Touched
    <3> QED BY <2>1, <3>1 DEF Own, TypeOK
  <2>3. Sole(j) => FilesGood(j)'
    <3>1. p \notin DOMAIN file'
      BY <2>1 DEF Delete
    <3> QED BY <2>1, <3>1 DEF WholeInv, FilesGood
  <2>4. StreamGood(j)' /\ GivenGood(j)'
    BY <2>1 DEF StreamGood, Stream, GivenGood, TypeOK
  <2> QED BY <2>1, <2>2, <2>3, <2>4, OwnStep DEF Over
<1>3. ASSUME NEW j \in Jobs, SendAgain(j) PROVE WholeInv'
  <2>1. \A k \in Jobs : pc'[k] = "stream" =>
           pc[k] = "stream" /\ call'[k] = call[k] /\ Dir(PathOf[k]) \notin {Dir(PathOf[j])} \cap OwnDirs
    BY <1>3 DEF SendAgain, Goto, Over, TypeOK
  <2> QED BY <1>3, <2>1, RemoveWhole DEF SendAgain
<1>4. ASSUME NEW u \in Users, Stop(u) PROVE WholeInv'
  <2>1. \A k \in Jobs : pc'[k] = "stream" =>
           pc[k] = "stream" /\ call'[k] = call[k] /\ UserOf[k] # u
    BY <1>4 DEF Stop, End
  <2>2. \A k \in Jobs : UserOf[k] # u => Dir(PathOf[k]) \notin DirsOf(u)
    BY DownloadsAssumption DEF DirsOf
  <2> QED BY <1>4, <2>1, <2>2, RemoveWhole DEF Stop
<1>5. ASSUME Crash PROVE WholeInv'
  <2>1. \A k \in Jobs : pc'[k] # "stream"
    BY <1>5, EndFacts DEF Crash, Over
  <2> QED BY <1>5, <2>1, RemoveWhole DEF Crash
<1>6. ASSUME UNCHANGED vars PROVE WholeInv'
  BY <1>6, QuietWhole DEF vars, jobVars
<1> QED BY <1>1, <1>2, <1>3, <1>4, <1>5, <1>6, FoundWhole, OpenWhole, RamWhole, DiskChunkWhole,
           DiskEndsWhole, DiskFailsWhole DEF Next, Engine, Telegram

-----------------------------------------------------------------------------
LEMMA Invariance == Spec => [](IInv /\ WholeInv)
<1>1. Init => IInv /\ WholeInv
  BY InitInv, InitWhole
<1>2. (IInv /\ WholeInv) /\ [Next]_vars => (IInv /\ WholeInv)'
  BY TypeStep, SerialStep, ExclusiveStep, PrivateStep, WholeStep DEF IInv
<1> QED BY <1>1, <1>2, PTL DEF Spec

\* Part files, state files, calls and attempts keep their types; an open part file
\* exists, whatever other downloads, /stop commands and restarts remove.
THEOREM TypeCorrect == Spec => []TypeOK
<1>1. IInv => TypeOK
  BY DEF IInv
<1> QED BY <1>1, Invariance, PTL

\* The file of a private link stays what was downloaded until it is uploaded, for any
\* number of users, links and retries.
THEOREM PrivateFiles == Spec => []PrivateFilesIntact
<1>1. IInv => PrivateFilesIntact
  BY DEF IInv
<1> QED BY <1>1, Invariance, PTL

\* Put together from part files, state files and streams of any number of attempts and
\* runs of the process, the file of a post nobody else downloads to the same path begins
\* with its first unit, misses none in between and at most one per cent at its end.
THEOREM FilesAreWhole == Spec => []FileIsWhole
<1>1. WholeInv => FileIsWhole
  BY DEF WholeInv, Sole, GivenGood, FileIsWhole
<1> QED BY <1>1, Invariance, PTL

-----------------------------------------------------------------------------
(* The worker pool                                                         *)

\* What cancel_user_tasks can stop is tracked in _active_downloads.
RunningTracked == \A t \in Tasks : place[t] = "running" => t \in downloads

\* A task cancelled in the queue still carries its flag.
ToldFlagged ==
    \A t \in told : /\ place[t] \in {"queued", "cancelling", "signalled", "returned"}
                    /\ place[t] = "queued" => t \in cancelFlags

PoolInv == /\ PoolTypeOK
        /\ SlotsExact
        /\ UserLimit
        /\ QueueExact
        /\ RunningTracked
        /\ ToldFlagged
        /\ CancelledYieldsNothing

\* What Append, Head and Tail do to a queue.
LEMMA AppendFacts ==
    ASSUME NEW S, NEW q \in Seq(S), NEW e \in S
    PROVE  /\ Append(q, e) \in Seq(S)
           /\ DOMAIN q = 1..Len(q) /\ Len(q) \in Nat
           /\ DOMAIN Append(q, e) = 1..(Len(q) + 1)
           /\ Append(q, e)[Len(q) + 1] = e
           /\ \A i \in 1..Len(q) : Append(q, e)[i] = q[i]
OBVIOUS

LEMMA TailFacts ==
    ASSUME NEW S, NEW q \in Seq(S), q # <<>>
    PROVE  /\ Head(q) \in S /\ Head(q) = q[1] /\ Tail(q) \in Seq(S)
           /\ DOMAIN q = 1..Len(q) /\ Len(q) \in Nat \ {0}
           /\ DOMAIN Tail(q) = 1..(Len(q) - 1)
           /\ \A i \in 1..(Len(q) - 1) : Tail(q)[i] = q[i + 1]
OBVIOUS

\* What a concatenation with sentinels does to the queue.
LEMMA SentinelFacts ==
    ASSUME NEW q \in Seq(Tasks \cup {Shutdown}), NEW n \in Nat
    PROVE  LET r == q \o [i \in 1..n |-> Shutdown] IN
           /\ r \in Seq(Tasks \cup {Shutdown})
           /\ DOMAIN q = 1..Len(q) /\ Len(q) \in Nat
           /\ DOMAIN r = 1..(Len(q) + n)
           /\ \A i \in 1..Len(q) : r[i] = q[i]
           /\ \A i \in 1..(Len(q) + n) : i > Len(q) => r[i] = Shutdown
<1> DEFINE s == [i \in 1..n |-> Shutdown]
<1>1. s \in Seq(Tasks \cup {Shutdown}) /\ Len(s) = n
  OBVIOUS
<1> QED BY <1>1

\* Every step keeps the types.
LEMMA PoolTypeStep ==
    ASSUME PoolTypeOK, [PoolNext]_poolVars
    PROVE  PoolTypeOK'
<1>1. ASSUME NEW t \in Tasks, Submit(t)
      PROVE  PoolTypeOK'
  BY <1>1, WorkerPoolAssumption
  DEF Submit, PoolTypeOK, Places, Tracked, Held, trackVars, poolBoundVars
<1>2. ASSUME NEW t \in Tasks, Admit(t)
      PROVE  PoolTypeOK'
  <2>1. Append(queue, t) \in Seq(Tasks \cup {Shutdown})
    BY DEF PoolTypeOK
  <2>2. userTasks' \in [PoolUsers -> SUBSET Tasks]
    BY <1>2, WorkerPoolAssumption DEF Admit, PoolTypeOK
  <2>3. place' \in [Tasks -> Places]
    BY <1>2 DEF Admit, PoolTypeOK, Places, Tracked, Held
  <2> QED BY <1>2, <2>1, <2>2, <2>3 DEF Admit, PoolTypeOK, poolBoundVars
<1>3. ASSUME NEW t \in Tasks, Return(t)
      PROVE  PoolTypeOK'
  BY <1>3, WorkerPoolAssumption
  DEF Return, PoolTypeOK, Places, Tracked, Held, trackVars, poolBoundVars
<1>4. ASSUME NEW t \in Tasks, Start(t)
      PROVE  PoolTypeOK'
  <2>1. queue' \in Seq(Tasks \cup {Shutdown}) /\ idle' \in Nat
    BY <1>4, TailFacts DEF Start, PoolTypeOK
  <2>2. active' \in [PoolUsers -> SUBSET Tasks] /\ downloads' \subseteq Tasks
    BY <1>4, WorkerPoolAssumption, ZenonT(60) DEF Start, PoolTypeOK
  <2>3. place' \in [Tasks -> Places]
    BY <1>4 DEF Start, PoolTypeOK, Places, Tracked, Held
  <2>4. status' \in [Tasks -> {"pending", "running", "completed", "failed", "cancelled"}]
    BY <1>4 DEF Start, PoolTypeOK
  <2> QED BY <1>4, <2>1, <2>2, <2>3, <2>4 DEF Start, PoolTypeOK, poolBoundVars
<1>5. ASSUME NEW t \in Tasks, Skip(t)
      PROVE  PoolTypeOK'
  <2>1. queue' \in Seq(Tasks \cup {Shutdown})
    BY <1>5, TailFacts DEF Skip, PoolTypeOK
  <2>2. idle' \in Nat
    BY <1>5 DEF Skip, PoolTypeOK
  <2> QED BY <1>5, <2>1, <2>2 DEF Skip, PoolTypeOK, Places, Tracked, Held, trackVars, poolBoundVars
<1>6. ASSUME NEW t \in Tasks, DownloadOver(t)
      PROVE  PoolTypeOK'
  BY <1>6, WorkerPoolAssumption
  DEF DownloadOver, PoolTypeOK, Places, Tracked, Held, trackVars, poolBoundVars
<1>7. ASSUME NEW t \in Tasks, Finish(t)
      PROVE  PoolTypeOK'
  <2>1. active' \in [PoolUsers -> SUBSET Tasks] /\ downloads' \subseteq Tasks /\ cancelFlags' \subseteq Tasks
    BY <1>7, WorkerPoolAssumption DEF Finish, Unregister, PoolTypeOK
  <2>2. place' \in [Tasks -> Places] /\ idle' \in Nat
    BY <1>7 DEF Finish, PoolTypeOK, Places, Tracked, Held
  <2>3. status' \in [Tasks -> {"pending", "running", "completed", "failed", "cancelled"}]
    BY <1>7 DEF Finish, PoolTypeOK
  <2> QED BY <1>7, <2>1, <2>2, <2>3 DEF Finish, PoolTypeOK, poolBoundVars
<1>8. ASSUME NEW t \in Tasks, Cancelled(t)
      PROVE  PoolTypeOK'
  BY <1>8, WorkerPoolAssumption
  DEF Cancelled, Unregister, PoolTypeOK, Places, Tracked, Held, trackVars, poolBoundVars
<1>9. CASE ShutDownTimeout
  BY <1>9, WorkerPoolAssumption
  DEF ShutDownTimeout, PoolTypeOK, Places, Tracked, Held, trackVars, poolBoundVars
<1>10. ASSUME NEW u \in PoolUsers, CancelUser(u)
      PROVE  PoolTypeOK'
  <2>1. cancelFlags' \subseteq Tasks /\ told' \subseteq Tasks /\ downloads' \subseteq Tasks
    BY <1>10 DEF CancelUser, PoolTypeOK
  <2>2. place' \in [Tasks -> Places]
    BY <1>10 DEF CancelUser, PoolTypeOK, Places, Tracked, Held
  <2>3. status' \in [Tasks -> {"pending", "running", "completed", "failed", "cancelled"}]
    BY <1>10 DEF CancelUser, PoolTypeOK
  <2> QED BY <1>10, <2>1, <2>2, <2>3 DEF CancelUser, PoolTypeOK
<1>11. CASE Scale
  <2> DEFINE wanted == IF current + ScaleStep < MaxWorkers THEN current + ScaleStep ELSE MaxWorkers
  <2>1. ScaleStep \in Nat /\ MaxWorkers \in Nat
    BY WorkerPoolAssumption
  <2>2. wanted > current /\ idle' = idle + (wanted - current) /\ current' = wanted - current
        /\ scalings' = scalings + 1
    BY <1>11 DEF Scale
  <2>3. wanted \in Nat /\ current \in Nat /\ idle \in Nat
    BY <2>1 DEF PoolTypeOK
  <2> HIDE DEF wanted
  <2>4. idle' \in Nat /\ current' \in Nat
    BY <2>2, <2>3
  <2> QED BY <1>11, <2>2, <2>4 DEF Scale, PoolTypeOK, trackVars
<1>12. CASE ShutDown
  <2>1. queue' \in Seq(Tasks \cup {Shutdown})
    BY <1>12, SentinelFacts DEF ShutDown, PoolTypeOK
  <2> QED BY <1>12, <2>1 DEF ShutDown, PoolTypeOK, Places, Tracked, Held, trackVars, poolBoundVars
<1>13. CASE TakeSentinel
  <2>1. queue' \in Seq(Tasks \cup {Shutdown}) /\ idle' \in Nat
    BY <1>13, TailFacts DEF TakeSentinel, PoolTypeOK
  <2> QED BY <1>13, <2>1 DEF TakeSentinel, PoolTypeOK, Places, Tracked, Held, trackVars, poolBoundVars
<1>14. CASE IdleExit
  BY <1>14, WorkerPoolAssumption
  DEF IdleExit, PoolTypeOK, Places, Tracked, Held, trackVars, poolBoundVars
<1>15. CASE UNCHANGED poolVars
  BY <1>15 DEF poolVars, PoolTypeOK, Places, Tracked, Held, trackVars, poolBoundVars
<1> QED BY <1>1, <1>2, <1>3, <1>4, <1>5, <1>6, <1>7, <1>8, <1>9, <1>10,
           <1>11, <1>12, <1>13, <1>14, <1>15 DEF PoolNext, Submitter, Worker

\* Every step keeps a user's slots equal to the user's unfinished tasks.
LEMMA SlotsStep ==
    ASSUME PoolTypeOK, QueueExact, SlotsExact, [PoolNext]_poolVars
    PROVE  SlotsExact'
<1>1. ASSUME NEW t \in Tasks, Submit(t)
      PROVE  SlotsExact'
  BY <1>1, WorkerPoolAssumption
  DEF Submit, PoolTypeOK, SlotsExact, TasksOf, Places, Tracked, Held, trackVars, poolBoundVars
<1>2. ASSUME NEW t \in Tasks, Admit(t)
      PROVE  SlotsExact'
  BY <1>2, WorkerPoolAssumption
  DEF Admit, PoolTypeOK, SlotsExact, TasksOf, Places, Tracked, Held, trackVars, poolBoundVars
<1>3. ASSUME NEW t \in Tasks, Return(t)
      PROVE  SlotsExact'
  BY <1>3, WorkerPoolAssumption
  DEF Return, PoolTypeOK, SlotsExact, TasksOf, Places, Tracked, Held, trackVars, poolBoundVars
<1>4. ASSUME NEW t \in Tasks, Start(t)
      PROVE  SlotsExact'
  <2>1. place[t] = "queued" /\ place' = [place EXCEPT ![t] = "running"]
    BY <1>4, TailFacts DEF Start, QueueExact, PoolTypeOK
  <2>2. userTasks' = userTasks /\ active' = [active EXCEPT ![TaskOwner[t]] = @ \cup {t}]
    BY <1>4 DEF Start
  <2> QED BY <2>1, <2>2, WorkerPoolAssumption
     DEF PoolTypeOK, SlotsExact, TasksOf, Places, Tracked, Held, trackVars, poolBoundVars
<1>5. ASSUME NEW t \in Tasks, Skip(t)
      PROVE  SlotsExact'
  <2>1. place[t] = "queued" /\ place' = [place EXCEPT ![t] = "signalled"]
    BY <1>5, TailFacts DEF Skip, QueueExact, PoolTypeOK
  <2>2. userTasks' = userTasks /\ active' = active
    BY <1>5 DEF Skip, trackVars
  <2> QED BY <2>1, <2>2, WorkerPoolAssumption
     DEF PoolTypeOK, SlotsExact, TasksOf, Places, Tracked, Held, trackVars, poolBoundVars
<1>6. ASSUME NEW t \in Tasks, DownloadOver(t)
      PROVE  SlotsExact'
  BY <1>6, WorkerPoolAssumption
  DEF DownloadOver, PoolTypeOK, SlotsExact, TasksOf, Places, Tracked, Held, trackVars, poolBoundVars
<1>7. ASSUME NEW t \in Tasks, Finish(t)
      PROVE  SlotsExact'
  BY <1>7, WorkerPoolAssumption
  DEF Finish, Unregister, PoolTypeOK, SlotsExact, TasksOf, Places, Tracked, Held, trackVars, poolBoundVars
<1>8. ASSUME NEW t \in Tasks, Cancelled(t)
      PROVE  SlotsExact'
  BY <1>8, WorkerPoolAssumption
  DEF Cancelled, Unregister, PoolTypeOK, SlotsExact, TasksOf, Places, Tracked, Held, trackVars, poolBoundVars
<1>9. CASE ShutDownTimeout
  BY <1>9, WorkerPoolAssumption
  DEF ShutDownTimeout, PoolTypeOK, SlotsExact, TasksOf, Places, Tracked, Held, trackVars, poolBoundVars
<1>10. ASSUME NEW u \in PoolUsers, CancelUser(u)
      PROVE  SlotsExact'
  <2>1. place' = [t \in Tasks |-> IF t \in (userTasks[u] \cup active[u]) \cap downloads /\ place[t] = "running"
                               THEN "cancelling" ELSE place[t]]
    BY <1>10 DEF CancelUser
  <2>2. userTasks' = userTasks /\ active' = active
    BY <1>10 DEF CancelUser
  <2>3. \A t \in Tasks : (place'[t] \in Tracked <=> place[t] \in Tracked) /\ (place'[t] \in Held <=> place[t] \in Held)
    BY <2>1 DEF Tracked, Held
  <2> HIDE <2>1
  <2> QED BY <2>2, <2>3 DEF SlotsExact, TasksOf
<1>11. CASE Scale
  BY <1>11, WorkerPoolAssumption
  DEF Scale, PoolTypeOK, SlotsExact, TasksOf, Places, Tracked, Held, trackVars, poolBoundVars
<1>12. CASE ShutDown
  BY <1>12, WorkerPoolAssumption
  DEF ShutDown, PoolTypeOK, SlotsExact, TasksOf, Places, Tracked, Held, trackVars, poolBoundVars
<1>13. CASE TakeSentinel
  BY <1>13, WorkerPoolAssumption
  DEF TakeSentinel, PoolTypeOK, SlotsExact, TasksOf, Places, Tracked, Held, trackVars, poolBoundVars
<1>14. CASE IdleExit
  BY <1>14, WorkerPoolAssumption
  DEF IdleExit, PoolTypeOK, SlotsExact, TasksOf, Places, Tracked, Held, trackVars, poolBoundVars
<1>15. CASE UNCHANGED poolVars
  BY <1>15 DEF poolVars, PoolTypeOK, SlotsExact, TasksOf, Places, Tracked, Held, trackVars, poolBoundVars
<1> QED BY <1>1, <1>2, <1>3, <1>4, <1>5, <1>6, <1>7, <1>8, <1>9, <1>10,
           <1>11, <1>12, <1>13, <1>14, <1>15 DEF PoolNext, Submitter, Worker

\* Only Admit adds to a user's unfinished tasks, and it tests the limit first.
LEMMA LimitStep ==
    ASSUME PoolTypeOK, QueueExact, SlotsExact, SlotsExact', UserLimit, [PoolNext]_poolVars
    PROVE  UserLimit'
<1> USE WorkerPoolAssumption
<1>1. SUFFICES ASSUME NEW u \in PoolUsers
               PROVE  Cardinality(userTasks'[u]) <= PerUserLimit
  BY DEF UserLimit, SlotsExact, TasksOf
<1>2. /\ IsFiniteSet(userTasks[u]) /\ Cardinality(userTasks[u]) \in Nat
      /\ Cardinality(userTasks[u]) <= PerUserLimit
  <2>1. userTasks[u] \subseteq Tasks
    BY DEF PoolTypeOK
  <2>2. userTasks[u] = {t \in TasksOf(u) : place[t] \in Tracked}
    BY DEF SlotsExact
  <2> QED BY <2>1, <2>2, FS_Subset, FS_CardinalityType DEF UserLimit
<1>3. CASE userTasks'[u] \subseteq userTasks[u]
  <2>1. Cardinality(userTasks'[u]) <= Cardinality(userTasks[u]) /\ Cardinality(userTasks'[u]) \in Nat
    BY <1>2, <1>3, FS_Subset, FS_CardinalityType
  <2> QED BY <1>2, <2>1
<1>4. ASSUME NEW t \in Tasks, Admit(t)
      PROVE  Cardinality(userTasks'[u]) <= PerUserLimit
  <2>1. userTasks' = [userTasks EXCEPT ![TaskOwner[t]] = @ \cup {t}]
    BY <1>4 DEF Admit
  <2>2. CASE u # TaskOwner[t]
    BY <1>2, <2>1, <2>2 DEF PoolTypeOK
  <2>3. CASE u = TaskOwner[t]
    <3>1. userTasks'[u] = userTasks[u] \cup {t}
      BY <2>1, <2>3 DEF PoolTypeOK
    <3>2. t \notin userTasks[u]
      BY <1>4 DEF Admit, SlotsExact, Tracked, Held
    <3>3. Load(u) < PerUserLimit
      BY <1>4, <2>3 DEF Admit
    <3>4. Cardinality(userTasks[u]) < PerUserLimit
      <4>1. active[u] \subseteq Tasks
        BY DEF PoolTypeOK
      <4>2. Cardinality(active[u]) \in Nat
        BY <4>1, FS_Subset, FS_CardinalityType
      <4> QED BY <1>2, <3>3, <4>2 DEF Load
    <3>5. Cardinality(userTasks'[u]) = Cardinality(userTasks[u]) + 1
      BY <1>2, <3>1, <3>2, FS_AddElement
    <3> QED BY <1>2, <3>4, <3>5
  <2> QED BY <2>2, <2>3
<1>5. ASSUME NEW t \in Tasks, Return(t)
      PROVE  userTasks'[u] \subseteq userTasks[u]
  BY <1>5 DEF Return, PoolTypeOK
<1>6. (\A t \in Tasks : ~Admit(t) /\ ~Return(t)) => userTasks' = userTasks
  BY DEF PoolNext, poolVars, Submitter, Worker, Submit, Start, Skip, DownloadOver, Finish, Cancelled,
         ShutDownTimeout, CancelUser, Scale, ShutDown, TakeSentinel, IdleExit, trackVars
<1> QED BY <1>3, <1>4, <1>5, <1>6

\* No step loses a queued task or queues it twice.
LEMMA QueueStep ==
    ASSUME PoolTypeOK, QueueExact, [PoolNext]_poolVars
    PROVE  QueueExact'
<1>1. ASSUME NEW t \in Tasks, Submit(t)
      PROVE  QueueExact'
  <2>1. queue' = queue /\ (\A s \in Tasks : place[s] = "queued" <=> place'[s] = "queued")
    BY <1>1 DEF Submit, PoolTypeOK
  <2> QED BY <2>1 DEF QueueExact
<1>2. ASSUME NEW t \in Tasks, Admit(t)
      PROVE  QueueExact'
  <2>1. /\ queue' = Append(queue, t) /\ queue \in Seq(Tasks \cup {Shutdown})
        /\ place[t] = "waiting" /\ \A s \in Tasks : place'[s] = IF s = t THEN "queued" ELSE place[s]
    BY <1>2 DEF Admit, PoolTypeOK
  <2>2. /\ DOMAIN queue = 1..Len(queue) /\ Len(queue) \in Nat
        /\ DOMAIN queue' = 1..(Len(queue) + 1)
        /\ queue'[Len(queue) + 1] = t
        /\ \A i \in 1..Len(queue) : queue'[i] = queue[i]
    BY <2>1, AppendFacts
  <2>3. \A i \in 1..Len(queue) : queue[i] # t /\ (queue[i] \in Tasks => place[queue[i]] = "queued")
    BY <2>1, <2>2 DEF QueueExact
  <2>4. \A i \in DOMAIN queue' : queue'[i] \in Tasks => place'[queue'[i]] = "queued"
    BY <2>1, <2>2, <2>3
  <2>5. \A i, j \in DOMAIN queue' : queue'[i] \in Tasks /\ queue'[i] = queue'[j] => i = j
    BY <2>2, <2>3 DEF QueueExact
  <2>6. \A s \in Tasks : place'[s] = "queued" => \E i \in DOMAIN queue' : queue'[i] = s
    BY <2>1, <2>2 DEF QueueExact
  <2> QED BY <2>4, <2>5, <2>6 DEF QueueExact
<1>3. ASSUME NEW t \in Tasks, Return(t)
      PROVE  QueueExact'
  <2>1. queue' = queue /\ (\A s \in Tasks : place[s] = "queued" <=> place'[s] = "queued")
    BY <1>3 DEF Return, PoolTypeOK
  <2> QED BY <2>1 DEF QueueExact
<1>4. ASSUME NEW t \in Tasks, Start(t)
      PROVE  QueueExact'
  <2>1. queue # <<>> /\ queue' = Tail(queue) /\ queue \in Seq(Tasks \cup {Shutdown})
    BY <1>4 DEF Start, PoolTypeOK
  <2>2. /\ queue[1] = t /\ DOMAIN queue = 1..Len(queue) /\ Len(queue) \in Nat \ {0}
        /\ DOMAIN queue' = 1..(Len(queue) - 1)
        /\ \A i \in 1..(Len(queue) - 1) : queue'[i] = queue[i + 1]
    BY <1>4, <2>1, TailFacts DEF Start
  <2>3. \A s \in Tasks : place'[s] = "queued" <=> place[s] = "queued" /\ s # t
    BY <1>4 DEF Start, PoolTypeOK
  <2>4. \A i \in DOMAIN queue' : queue'[i] \in Tasks => place'[queue'[i]] = "queued"
    <3> SUFFICES ASSUME NEW i \in 1..(Len(queue) - 1), queue[i + 1] \in Tasks
                 PROVE  place'[queue[i + 1]] = "queued"
      BY <2>2
    <3>1. i + 1 \in 1..Len(queue) /\ 1 \in 1..Len(queue) /\ i + 1 # 1
      BY <2>2
    <3>2. queue[i + 1] # t /\ place[queue[i + 1]] = "queued"
      BY <2>2, <3>1 DEF QueueExact
    <3> QED BY <2>3, <3>2
  <2>5. \A i, j \in DOMAIN queue' : queue'[i] \in Tasks /\ queue'[i] = queue'[j] => i = j
    <3> SUFFICES ASSUME NEW i \in 1..(Len(queue) - 1), NEW j \in 1..(Len(queue) - 1),
                        queue[i + 1] \in Tasks, queue[i + 1] = queue[j + 1]
                 PROVE  i = j
      BY <2>2
    <3>1. i + 1 \in 1..Len(queue) /\ j + 1 \in 1..Len(queue)
      BY <2>2
    <3>2. i + 1 = j + 1
      BY <2>2, <3>1 DEF QueueExact
    <3> QED BY <3>2
  <2>6. ASSUME NEW s \in Tasks, place'[s] = "queued"
        PROVE  \E i \in DOMAIN queue' : queue'[i] = s
    <3>1. place[s] = "queued" /\ s # t
      BY <2>3, <2>6, WorkerPoolAssumption
    <3>2. PICK i \in 1..Len(queue) : queue[i] = s
      BY <2>2, <3>1 DEF QueueExact
    <3>3. i # 1
      BY <2>2, <3>1, <3>2
    <3>4. i - 1 \in 1..(Len(queue) - 1) /\ (i - 1) + 1 = i
      BY <2>2, <3>3
    <3>5. queue'[i - 1] = s
      BY <2>2, <3>2, <3>4
    <3> QED BY <2>2, <3>4, <3>5
  <2> QED BY <2>4, <2>5, <2>6 DEF QueueExact
<1>5. ASSUME NEW t \in Tasks, Skip(t)
      PROVE  QueueExact'
  <2>1. queue # <<>> /\ queue' = Tail(queue) /\ queue \in Seq(Tasks \cup {Shutdown})
    BY <1>5 DEF Skip, PoolTypeOK
  <2>2. /\ queue[1] = t /\ DOMAIN queue = 1..Len(queue) /\ Len(queue) \in Nat \ {0}
        /\ DOMAIN queue' = 1..(Len(queue) - 1)
        /\ \A i \in 1..(Len(queue) - 1) : queue'[i] = queue[i + 1]
    BY <1>5, <2>1, TailFacts DEF Skip
  <2>3. \A s \in Tasks : place'[s] = "queued" <=> place[s] = "queued" /\ s # t
    BY <1>5 DEF Skip, PoolTypeOK
  <2>4. \A i \in DOMAIN queue' : queue'[i] \in Tasks => place'[queue'[i]] = "queued"
    <3> SUFFICES ASSUME NEW i \in 1..(Len(queue) - 1), queue[i + 1] \in Tasks
                 PROVE  place'[queue[i + 1]] = "queued"
      BY <2>2
    <3>1. i + 1 \in 1..Len(queue) /\ 1 \in 1..Len(queue) /\ i + 1 # 1
      BY <2>2
    <3>2. queue[i + 1] # t /\ place[queue[i + 1]] = "queued"
      BY <2>2, <3>1 DEF QueueExact
    <3> QED BY <2>3, <3>2
  <2>5. \A i, j \in DOMAIN queue' : queue'[i] \in Tasks /\ queue'[i] = queue'[j] => i = j
    <3> SUFFICES ASSUME NEW i \in 1..(Len(queue) - 1), NEW j \in 1..(Len(queue) - 1),
                        queue[i + 1] \in Tasks, queue[i + 1] = queue[j + 1]
                 PROVE  i = j
      BY <2>2
    <3>1. i + 1 \in 1..Len(queue) /\ j + 1 \in 1..Len(queue)
      BY <2>2
    <3>2. i + 1 = j + 1
      BY <2>2, <3>1 DEF QueueExact
    <3> QED BY <3>2
  <2>6. ASSUME NEW s \in Tasks, place'[s] = "queued"
        PROVE  \E i \in DOMAIN queue' : queue'[i] = s
    <3>1. place[s] = "queued" /\ s # t
      BY <2>3, <2>6, WorkerPoolAssumption
    <3>2. PICK i \in 1..Len(queue) : queue[i] = s
      BY <2>2, <3>1 DEF QueueExact
    <3>3. i # 1
      BY <2>2, <3>1, <3>2
    <3>4. i - 1 \in 1..(Len(queue) - 1) /\ (i - 1) + 1 = i
      BY <2>2, <3>3
    <3>5. queue'[i - 1] = s
      BY <2>2, <3>2, <3>4
    <3> QED BY <2>2, <3>4, <3>5
  <2> QED BY <2>4, <2>5, <2>6 DEF QueueExact
<1>6. ASSUME NEW t \in Tasks, DownloadOver(t)
      PROVE  QueueExact'
  <2>1. queue' = queue /\ (\A s \in Tasks : place[s] = "queued" <=> place'[s] = "queued")
    BY <1>6 DEF DownloadOver, PoolTypeOK
  <2> QED BY <2>1 DEF QueueExact
<1>7. ASSUME NEW t \in Tasks, Finish(t)
      PROVE  QueueExact'
  <2>1. queue' = queue /\ (\A s \in Tasks : place[s] = "queued" <=> place'[s] = "queued")
    BY <1>7 DEF Finish, PoolTypeOK
  <2> QED BY <2>1 DEF QueueExact
<1>8. ASSUME NEW t \in Tasks, Cancelled(t)
      PROVE  QueueExact'
  <2>1. queue' = queue /\ (\A s \in Tasks : place[s] = "queued" <=> place'[s] = "queued")
    BY <1>8 DEF Cancelled, PoolTypeOK
  <2> QED BY <2>1 DEF QueueExact
<1>9. CASE ShutDownTimeout
  <2>1. queue' = queue /\ (\A s \in Tasks : place[s] = "queued" <=> place'[s] = "queued")
    BY <1>9 DEF ShutDownTimeout, PoolTypeOK
  <2> QED BY <2>1 DEF QueueExact
<1>10. ASSUME NEW u \in PoolUsers, CancelUser(u)
      PROVE  QueueExact'
  <2>1. queue' = queue /\ (\A s \in Tasks : place[s] = "queued" <=> place'[s] = "queued")
    BY <1>10 DEF CancelUser, PoolTypeOK
  <2> QED BY <2>1 DEF QueueExact
<1>11. CASE Scale
  BY <1>11 DEF Scale, QueueExact
<1>12. CASE ShutDown
  <2>1. queue' = queue \o [i \in 1..current |-> Shutdown] /\ place' = place
    BY <1>12 DEF ShutDown
  <2>2. /\ DOMAIN queue = 1..Len(queue) /\ Len(queue) \in Nat /\ current \in Nat
        /\ DOMAIN queue' = 1..(Len(queue) + current)
        /\ \A i \in 1..Len(queue) : queue'[i] = queue[i]
        /\ \A i \in 1..(Len(queue) + current) : i > Len(queue) => queue'[i] = Shutdown
    BY <2>1, SentinelFacts DEF PoolTypeOK
  <2>3. \A i \in DOMAIN queue' : queue'[i] \in Tasks => i \in DOMAIN queue
    BY <2>2, WorkerPoolAssumption
  <2>4. \A i \in DOMAIN queue' : queue'[i] \in Tasks => place'[queue'[i]] = "queued"
    BY <2>1, <2>2, <2>3 DEF QueueExact
  <2>5. \A i, j \in DOMAIN queue' : queue'[i] \in Tasks /\ queue'[i] = queue'[j] => i = j
    BY <2>2, <2>3 DEF QueueExact
  <2>6. \A s \in Tasks : place'[s] = "queued" => \E i \in DOMAIN queue' : queue'[i] = s
    BY <2>1, <2>2 DEF QueueExact
  <2> QED BY <2>4, <2>5, <2>6 DEF QueueExact
<1>13. CASE TakeSentinel
  <2>1. queue # <<>> /\ queue' = Tail(queue) /\ queue \in Seq(Tasks \cup {Shutdown})
    BY <1>13 DEF TakeSentinel, PoolTypeOK
  <2>2. /\ queue[1] = Shutdown /\ DOMAIN queue = 1..Len(queue) /\ Len(queue) \in Nat \ {0}
        /\ DOMAIN queue' = 1..(Len(queue) - 1)
        /\ \A i \in 1..(Len(queue) - 1) : queue'[i] = queue[i + 1]
    BY <1>13, <2>1, TailFacts DEF TakeSentinel
  <2>3. \A s \in Tasks : (place'[s] = "queued" <=> place[s] = "queued") /\ s # Shutdown
    BY <1>13, WorkerPoolAssumption DEF TakeSentinel
  <2>4. \A i \in DOMAIN queue' : queue'[i] \in Tasks => place'[queue'[i]] = "queued"
    <3> SUFFICES ASSUME NEW i \in 1..(Len(queue) - 1), queue[i + 1] \in Tasks
                 PROVE  place'[queue[i + 1]] = "queued"
      BY <2>2
    <3>1. i + 1 \in 1..Len(queue) /\ 1 \in 1..Len(queue) /\ i + 1 # 1
      BY <2>2
    <3>2. queue[i + 1] # Shutdown /\ place[queue[i + 1]] = "queued"
      BY <2>2, <3>1 DEF QueueExact
    <3> QED BY <2>3, <3>2
  <2>5. \A i, j \in DOMAIN queue' : queue'[i] \in Tasks /\ queue'[i] = queue'[j] => i = j
    <3> SUFFICES ASSUME NEW i \in 1..(Len(queue) - 1), NEW j \in 1..(Len(queue) - 1),
                        queue[i + 1] \in Tasks, queue[i + 1] = queue[j + 1]
                 PROVE  i = j
      BY <2>2
    <3>1. i + 1 \in 1..Len(queue) /\ j + 1 \in 1..Len(queue)
      BY <2>2
    <3>2. i + 1 = j + 1
      BY <2>2, <3>1 DEF QueueExact
    <3> QED BY <3>2
  <2>6. ASSUME NEW s \in Tasks, place'[s] = "queued"
        PROVE  \E i \in DOMAIN queue' : queue'[i] = s
    <3>1. place[s] = "queued" /\ s # Shutdown
      BY <2>3, <2>6, WorkerPoolAssumption
    <3>2. PICK i \in 1..Len(queue) : queue[i] = s
      BY <2>2, <3>1 DEF QueueExact
    <3>3. i # 1
      BY <2>2, <3>1, <3>2
    <3>4. i - 1 \in 1..(Len(queue) - 1) /\ (i - 1) + 1 = i
      BY <2>2, <3>3
    <3>5. queue'[i - 1] = s
      BY <2>2, <3>2, <3>4
    <3> QED BY <2>2, <3>4, <3>5
  <2> QED BY <2>4, <2>5, <2>6 DEF QueueExact
<1>14. CASE IdleExit
  BY <1>14 DEF IdleExit, QueueExact
<1>15. CASE UNCHANGED poolVars
  BY <1>15 DEF poolVars, QueueExact
<1> QED BY <1>1, <1>2, <1>3, <1>4, <1>5, <1>6, <1>7, <1>8, <1>9, <1>10,
           <1>11, <1>12, <1>13, <1>14, <1>15 DEF PoolNext, Submitter, Worker

\* A cancelled task ends as cancelled.
LEMMA ToldStep ==
    ASSUME PoolTypeOK, QueueExact, SlotsExact, RunningTracked, ToldFlagged, CancelledYieldsNothing,
           [PoolNext]_poolVars
    PROVE  (RunningTracked /\ ToldFlagged /\ CancelledYieldsNothing)'
<1>1. ASSUME NEW t \in Tasks, Submit(t)
      PROVE  (RunningTracked /\ ToldFlagged /\ CancelledYieldsNothing)'
  BY <1>1, WorkerPoolAssumption
  DEF Submit, PoolTypeOK, RunningTracked, ToldFlagged, CancelledYieldsNothing, trackVars, poolBoundVars
<1>2. ASSUME NEW t \in Tasks, Admit(t)
      PROVE  (RunningTracked /\ ToldFlagged /\ CancelledYieldsNothing)'
  BY <1>2, WorkerPoolAssumption
  DEF Admit, PoolTypeOK, RunningTracked, ToldFlagged, CancelledYieldsNothing, trackVars, poolBoundVars
<1>3. ASSUME NEW t \in Tasks, Return(t)
      PROVE  (RunningTracked /\ ToldFlagged /\ CancelledYieldsNothing)'
  BY <1>3, WorkerPoolAssumption
  DEF Return, PoolTypeOK, RunningTracked, ToldFlagged, CancelledYieldsNothing, trackVars, poolBoundVars
<1>4. ASSUME NEW t \in Tasks, Start(t)
      PROVE  (RunningTracked /\ ToldFlagged /\ CancelledYieldsNothing)'
  <2>1. place[t] = "queued" /\ t \notin cancelFlags
    BY <1>4, TailFacts DEF Start, QueueExact, PoolTypeOK
  <2>2. t \notin told
    BY <2>1 DEF ToldFlagged
  <2>3. /\ place' = [place EXCEPT ![t] = "running"] /\ status' = [status EXCEPT ![t] = "running"]
        /\ downloads' = downloads \cup {t} /\ told' = told /\ cancelFlags' = cancelFlags
    BY <1>4 DEF Start
  <2>4. RunningTracked'
    BY <2>3 DEF RunningTracked, PoolTypeOK
  <2>5. told \subseteq Tasks
    BY DEF PoolTypeOK
  <2>6. ToldFlagged' /\ CancelledYieldsNothing'
    BY <2>2, <2>3, <2>5 DEF ToldFlagged, CancelledYieldsNothing, PoolTypeOK
  <2> QED BY <2>4, <2>6
<1>5. ASSUME NEW t \in Tasks, Skip(t)
      PROVE  (RunningTracked /\ ToldFlagged /\ CancelledYieldsNothing)'
  BY <1>5, WorkerPoolAssumption
  DEF Skip, PoolTypeOK, RunningTracked, ToldFlagged, CancelledYieldsNothing, trackVars, poolBoundVars
<1>6. ASSUME NEW t \in Tasks, DownloadOver(t)
      PROVE  (RunningTracked /\ ToldFlagged /\ CancelledYieldsNothing)'
  BY <1>6, WorkerPoolAssumption
  DEF DownloadOver, PoolTypeOK, RunningTracked, ToldFlagged, CancelledYieldsNothing, trackVars, poolBoundVars
<1>7. ASSUME NEW t \in Tasks, Finish(t)
      PROVE  (RunningTracked /\ ToldFlagged /\ CancelledYieldsNothing)'
  BY <1>7, WorkerPoolAssumption
  DEF Finish, Unregister, PoolTypeOK, RunningTracked, ToldFlagged, CancelledYieldsNothing, trackVars, poolBoundVars
<1>8. ASSUME NEW t \in Tasks, Cancelled(t)
      PROVE  (RunningTracked /\ ToldFlagged /\ CancelledYieldsNothing)'
  BY <1>8, WorkerPoolAssumption
  DEF Cancelled, Unregister, PoolTypeOK, RunningTracked, ToldFlagged, CancelledYieldsNothing, trackVars, poolBoundVars
<1>9. CASE ShutDownTimeout
  BY <1>9, WorkerPoolAssumption
  DEF ShutDownTimeout, PoolTypeOK, RunningTracked, ToldFlagged, CancelledYieldsNothing, trackVars, poolBoundVars
<1>10. ASSUME NEW u \in PoolUsers, CancelUser(u)
      PROVE  (RunningTracked /\ ToldFlagged /\ CancelledYieldsNothing)'
  <2> DEFINE ids == userTasks[u] \cup active[u]
  <2>1. \A t \in ids : t \in Tasks /\ place[t] \in Tracked
    BY DEF SlotsExact, TasksOf, Tracked
  <2>2. /\ cancelFlags' = cancelFlags \cup ids
        /\ downloads' = downloads \ ids
        /\ told' = told \cup {t \in ids : place[t] \in {"queued", "running"}}
    BY <1>10 DEF CancelUser
  <2>3. \A t \in Tasks :
          /\ status'[t] = IF t \in ids THEN "cancelled" ELSE status[t]
          /\ place'[t] = IF t \in ids \cap downloads /\ place[t] = "running" THEN "cancelling" ELSE place[t]
    BY <1>10 DEF CancelUser
  <2> HIDE DEF ids
  <2>4. RunningTracked'
    BY <2>2, <2>3 DEF RunningTracked
  <2>5. \A t \in Tasks : place[t] = "running" => t \in downloads
    BY DEF RunningTracked
  <2>6. told \subseteq Tasks
    BY DEF PoolTypeOK
  <2>7. ToldFlagged' /\ CancelledYieldsNothing'
    BY <2>1, <2>2, <2>3, <2>5, <2>6 DEF ToldFlagged, CancelledYieldsNothing
  <2> QED BY <2>4, <2>7
<1>11. CASE Scale
  BY <1>11, WorkerPoolAssumption
  DEF Scale, PoolTypeOK, RunningTracked, ToldFlagged, CancelledYieldsNothing, trackVars, poolBoundVars
<1>12. CASE ShutDown
  BY <1>12, WorkerPoolAssumption
  DEF ShutDown, PoolTypeOK, RunningTracked, ToldFlagged, CancelledYieldsNothing, trackVars, poolBoundVars
<1>13. CASE TakeSentinel
  BY <1>13, WorkerPoolAssumption
  DEF TakeSentinel, PoolTypeOK, RunningTracked, ToldFlagged, CancelledYieldsNothing, trackVars, poolBoundVars
<1>14. CASE IdleExit
  BY <1>14, WorkerPoolAssumption
  DEF IdleExit, PoolTypeOK, RunningTracked, ToldFlagged, CancelledYieldsNothing, trackVars, poolBoundVars
<1>15. CASE UNCHANGED poolVars
  BY <1>15 DEF poolVars, PoolTypeOK, RunningTracked, ToldFlagged, CancelledYieldsNothing, trackVars, poolBoundVars
<1> QED BY <1>1, <1>2, <1>3, <1>4, <1>5, <1>6, <1>7, <1>8, <1>9, <1>10,
           <1>11, <1>12, <1>13, <1>14, <1>15 DEF PoolNext, Submitter, Worker

\* An empty pool satisfies the invariant.
LEMMA PoolInitInv == PoolInit => PoolInv
<1> SUFFICES ASSUME PoolInit PROVE PoolInv
  OBVIOUS
<1> USE WorkerPoolAssumption DEF PoolInit
<1>1. PoolTypeOK
  BY DEF PoolTypeOK, Places, Tracked, Held
<1>2. SlotsExact /\ QueueExact /\ RunningTracked /\ ToldFlagged /\ CancelledYieldsNothing
  BY DEF SlotsExact, QueueExact, RunningTracked, ToldFlagged, CancelledYieldsNothing,
         Tracked, Held, TasksOf
<1>3. UserLimit
  <2>1. \A u \in PoolUsers : {t \in TasksOf(u) : place[t] \in Tracked} = {}
    BY DEF Tracked, Held, TasksOf
  <2>2. 0 <= PerUserLimit
    OBVIOUS
  <2>3. Cardinality({}) = 0
    BY FS_EmptySet
  <2> QED BY <2>1, <2>2, <2>3 DEF UserLimit
<1> QED BY <1>1, <1>2, <1>3 DEF PoolInv

\* The strengthened invariant is inductive, so it always holds.
THEOREM PoolInductive == PoolSpec => []PoolInv
<1>1. PoolInit => PoolInv
  BY PoolInitInv
<1>2. PoolInv /\ [PoolNext]_poolVars => PoolInv'
  BY PoolTypeStep, SlotsStep, LimitStep, QueueStep, ToldStep DEF PoolInv
<1> QED BY <1>1, <1>2, PTL DEF PoolSpec

\* Type correctness of the worker pool.
THEOREM PoolTypesHold == PoolSpec => []PoolTypeOK
<1>1. PoolInv => PoolTypeOK
  BY DEF PoolInv
<1> QED BY <1>1, PoolInductive, PTL

\* WorkerPool: slots, limit and queue are exact, in whatever way tasks end, cancellations
\* come and the pool is scaled or shut down.
THEOREM NothingLeaks == PoolSpec => []PoolExact
<1>1. PoolInv => PoolExact
  BY DEF PoolInv, PoolExact, UserSlots
<1> QED BY <1>1, PoolInductive, PTL

\* cancel_user_tasks: a task cancelled before its download was over never hands
\* over a file.
THEOREM CancelIsFinal == PoolSpec => []CancelledYieldsNothing
<1>1. PoolInv => CancelledYieldsNothing
  BY DEF PoolInv
<1> QED BY <1>1, PoolInductive, PTL
=============================================================================
