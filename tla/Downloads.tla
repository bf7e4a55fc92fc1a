----------------------------- MODULE Downloads ------------------------------
(***************************************************************************)
(* The files of a download: DownloadEngine._handle_download tries a few    *)
(* times to get a post's file through ResumableDownloader, which keeps a   *)
(* part file and a state file beside it, and the delivery reads the file   *)
(* and removes it.  Downloads of all users run side by side; private links *)
(* have a directory of their own, public ones share TEMP_DOWNLOAD_DIR.     *)
(*                                                                         *)
(* An action is what a coroutine does between two awaits.  What            *)
(* download_media leaves while it runs is in files of its own and not      *)
(* modelled, and a stream to disk is given its path for itself.            *)
(***************************************************************************)
EXTENDS Integers, Sequences

CONSTANTS Jobs,         \* downloads
          Users, UserOf,
          PostOf,       \* the post whose file each of them is for
          PathOf,       \* directory and file name
          OwnDirs,      \* directories of private links; the rest is shared
          OwnerOf,      \* whose they are
          Size,         \* file size of each job's post, in units
          Chunk,        \* CHUNK_SIZE, in units
          Threshold,    \* SMALL_FILE_THRESHOLD
          Slack,        \* units that may be missing: one per cent of a file
          MaxAttempts,  \* MAX_RETRIES of the engine
          StreamTries,  \* max_retries of _stream_download
          FileIds,      \* file ids a post's message may come with
          FaultLimit,   \* bound: calls that fail
          BreakLimit    \* bound: /stop commands and restarts of the process

Dir(p) == p[1]
Paths  == {PathOf[j] : j \in Jobs}
Units  == {PostOf[j] : j \in Jobs} \X (Nat \ {0})

ASSUME DownloadsAssumption ==
    /\ UserOf \in [Jobs -> Users] /\ DOMAIN PostOf = Jobs /\ DOMAIN PathOf = Jobs
    /\ OwnerOf \in [OwnDirs -> Users]
    /\ \A j \in Jobs : Dir(PathOf[j]) \in OwnDirs => OwnerOf[Dir(PathOf[j])] = UserOf[j]
    /\ Size \in [Jobs -> Nat \ {0}]
    /\ \A j, k \in Jobs : PostOf[j] = PostOf[k] => Size[j] = Size[k]
    /\ {Chunk, MaxAttempts, StreamTries} \subseteq Nat \ {0}
    /\ {Threshold, FaultLimit, BreakLimit} \subseteq Nat
    /\ Slack \in [Jobs -> Nat] /\ \A j \in Jobs : Slack[j] < Size[j]
    /\ FileIds # {}

VARIABLES
    file,     \* the files on disk, by path
    part,     \* the part files
    saved,    \* the state files
    pc,       \* where each download is
    attempt,  \* the engine's attempt
    fileId,   \* the file id of the job's message
    call,     \* the call of _stream_download under way, with its ResumeState
    faults, breaks,  \* counters, bounded by the limits
    given,    \* history: what the file held when its path was returned
    spoilt,   \* history: paths where a stream went on behind an incomplete chunk
    stopped   \* history: jobs with a file, met by /stop

fileVars  == <<file, part, saved>>
jobVars   == <<pc, attempt, fileId, call>>
boundVars == <<faults, breaks>>
vars      == <<fileVars, jobVars, boundVars, given, spoilt, stopped>>

\* A file system is a function from the paths that exist.
Write(fs, p, content) ==
    [q \in DOMAIN fs \cup {p} |-> IF q = p THEN content ELSE fs[q]]
Delete(fs, ps) == [p \in DOMAIN fs \ ps |-> fs[p]]

\* The first n units of the job's file, and those from one to another.
Span(j, from, to) == [i \in 1..(to - from) |-> <<PostOf[j], from + i>>]
Whole(j)          == Span(j, 0, Size[j])
Chunks(n)         == n \div Chunk
Least(a, b)       == IF a < b THEN a ELSE b
\* Both ways of downloading take a file for complete when it is this long.
LongEnough(j, n)  == n + Slack[j] >= Size[j]

Fresh(id) == [id |-> id, bytes |-> 0, chunk |-> 0]
NoId      == CHOOSE id \in FileIds : TRUE
NoCall    == [mode |-> "none", try |-> 0, state |-> Fresh(NoId)]

Init ==
    /\ file = <<>> /\ part = <<>> /\ saved = <<>>
    /\ pc = [j \in Jobs |-> "new"]
    /\ attempt = [j \in Jobs |-> 0]
    /\ fileId = [j \in Jobs |-> NoId]
    /\ call = [j \in Jobs |-> NoCall]
    /\ faults = 0 /\ breaks = 0
    /\ given = [j \in Jobs |-> <<>>]
    /\ spoilt = {} /\ stopped = {}

Goto(j, where) == pc' = [pc EXCEPT ![j] = where]
Fault          == faults < FaultLimit /\ faults' = faults + 1
State(j)       == call[j].state
Stream(j, how) == pc[j] = "stream" /\ call[j].mode = how
\* The call is over, or goes on with another state.
Leave(j, where)  == Goto(j, where) /\ call' = [call EXCEPT ![j] = NoCall]
Again(j, st)     == UNCHANGED pc /\ call' = [call EXCEPT ![j].try = @ + 1, ![j].state = st]

-----------------------------------------------------------------------------
(* ResumableDownloader.download                                            *)

Over == {"new", "lost", "done"}

\* The posts of a user come one after another.
Begin(j) ==
    /\ pc[j] = "new"
    /\ \A k \in Jobs \ {j} : UserOf[k] = UserOf[j] => pc[k] \in Over
    /\ Goto(j, "try")
    /\ attempt' = [attempt EXCEPT ![j] = 1]
    /\ \E id \in FileIds : fileId' = [fileId EXCEPT ![j] = id]
    /\ UNCHANGED <<fileVars, call, boundVars, given, spoilt, stopped>>

\* A stream to disk shares its path with no other download.
NoStream(j, modes) ==
    \A k \in Jobs : PathOf[k] = PathOf[j] /\ pc[k] = "stream" => call[k].mode \notin modes

\* A file of the right length is already there: it is taken for the post's.
Found(j) ==
    LET p == PathOf[j] IN
    /\ pc[j] = "try" /\ NoStream(j, {"disk"})
    /\ p \in DOMAIN file /\ Len(file[p]) = Size[j]
    /\ Goto(j, "got")
    /\ given' = [given EXCEPT ![j] = file[p]]
    /\ part' = Delete(part, {p}) /\ saved' = Delete(saved, {p})
    /\ UNCHANGED <<file, attempt, fileId, call, boundVars, spoilt, stopped>>

\* Fault: what is behind the last whole chunk stays.
KeptUncut(j) == part[PathOf[j]]

\* The whole chunks of the part file.
Kept(j) ==
    LET content == part[PathOf[j]] IN SubSeq(content, 1, Chunks(Len(content)) * Chunk)

AtEndOf(st, content) == [st EXCEPT !.bytes = Len(content), !.chunk = Chunks(Len(content))]

\* Where the download goes on: the part file tells, otherwise the state file if
\* it is for the same file id.  A part file longer than the post's file is of no
\* use.
Loaded(j) ==
    LET p == PathOf[j]
        st == IF p \in DOMAIN saved /\ saved[p].id = fileId[j] THEN saved[p]
                                                               ELSE Fresh(fileId[j])
    IN  IF p \in DOMAIN part
        THEN AtEndOf(st, IF Len(part[p]) <= Size[j] THEN Kept(j) ELSE <<>>)
        ELSE st

\* open(part_path, 'ab' or 'wb'), with what it holds by now
OpenPart(j, st, content) == Write(part, PathOf[j], IF st.bytes > 0 THEN content ELSE <<>>)

\* Files up to the threshold are fetched with download_media, unless the state
\* says that something is there already.
Open(j) ==
    LET p == PathOf[j]
        usable == p \in DOMAIN part /\ Len(part[p]) <= Size[j]
        content == IF usable THEN Kept(j) ELSE <<>>
        opened(mode) == [mode |-> mode, try |-> 1, state |-> Loaded(j)]
    IN
    /\ pc[j] = "try" /\ NoStream(j, {"disk"})
    /\ ~(p \in DOMAIN file /\ Len(file[p]) = Size[j])
    /\ \/ /\ Size[j] <= Threshold /\ Loaded(j).bytes = 0
          /\ call' = [call EXCEPT ![j] = opened("ram")]
          /\ part' = IF usable THEN Write(part, p, content) ELSE Delete(part, {p})
       \/ /\ Size[j] > Threshold \/ Loaded(j).bytes > 0
          /\ NoStream(j, {"ram"})
          /\ call' = [call EXCEPT ![j] = opened("disk")]
          /\ part' = OpenPart(j, Loaded(j), content)
    /\ Goto(j, "stream")
    /\ UNCHANGED <<file, saved, attempt, fileId, boundVars, given, spoilt, stopped>>

\* Fault: an empty file is a download, too.
ReturnsAnything(j, content) ==
    /\ file' = Write(file, PathOf[j], content)
    /\ given' = [given EXCEPT ![j] = content]
    /\ Leave(j, "got")

\* _handle_download looks once more: an empty file is removed and counts as a
\* failed attempt.
Returns(j, content) ==
    IF content = <<>>
    THEN /\ file' = Delete(file, {PathOf[j]})
         /\ Leave(j, "failed")
         /\ UNCHANGED given
    ELSE /\ file' = Write(file, PathOf[j], content)
         /\ given' = [given EXCEPT ![j] = content]
         /\ Leave(j, "got")

\* The download succeeded.  A part file, whoever left it, becomes the file.
Succeeds(j, content) ==
    LET p == PathOf[j] IN
    /\ Returns(j, IF p \in DOMAIN part THEN part[p] ELSE content)
    /\ part' = Delete(part, {p}) /\ saved' = Delete(saved, {p})

\* The try ends in an exception that is not retried, or comes back with too
\* little: the state is saved.
Fails(j, st) ==
    /\ saved' = Write(saved, PathOf[j], st)
    /\ Leave(j, "failed")

-----------------------------------------------------------------------------
(* _stream_ram_buffer: client.download_media                               *)

RamFetch(j) ==
    /\ Stream(j, "ram")
    /\ \E n \in 1..Size[j] :
          /\ LongEnough(j, n)
          /\ \/ n = Size[j] /\ UNCHANGED faults
             \/ n < Size[j] /\ Fault
          /\ Succeeds(j, Span(j, 0, n))
    /\ UNCHANGED <<attempt, fileId, breaks, spoilt, stopped>>

\* A file that is too short is removed, nothing is saved.
RamShort(j) ==
    /\ Stream(j, "ram")
    /\ Fault
    /\ \/ file' = Delete(file, {PathOf[j]})
       \/ UNCHANGED file
    /\ Leave(j, "failed")
    /\ UNCHANGED <<part, saved, attempt, fileId, breaks, given, spoilt, stopped>>

\* An exception; the progress callback has counted what had arrived.  Connection
\* errors are tried again after a look at the part file, others without.
RamFails(j) ==
    LET p == PathOf[j] IN
    /\ Stream(j, "ram")
    /\ Fault
    /\ \E seen \in {0, Size[j]} :
       LET st == [State(j) EXCEPT !.bytes = seen] IN
       \/ Fails(j, st)
       \/ /\ call[j].try < StreamTries
          /\ \E next \in {st} \cup {AtEndOf(st, part[q]) : q \in {p} \cap DOMAIN part} :
                Again(j, next)
          /\ saved' = Write(saved, p, st)
    /\ UNCHANGED <<file, part, attempt, fileId, breaks, given, spoilt, stopped>>

-----------------------------------------------------------------------------
(* _stream_to_disk: client.stream_media                                    *)

\* Where the next chunk begins and ends.
NextFrom(j) == State(j).chunk * Chunk
NextEnd(j)  == Least(NextFrom(j) + Chunk, Size[j])
AllRead(j)  == NextFrom(j) >= Size[j]

\* A chunk arrives; now and then the state is saved.
DiskChunk(j) ==
    LET p == PathOf[j]
        st == [State(j) EXCEPT !.bytes = @ + NextEnd(j) - NextFrom(j), !.chunk = @ + 1]
    IN
    /\ Stream(j, "disk") /\ ~AllRead(j)
    /\ part' = Write(part, p, part[p] \o Span(j, NextFrom(j), NextEnd(j)))
    /\ call' = [call EXCEPT ![j].state = st]
    /\ saved' \in {saved, Write(saved, p, st)}
    /\ UNCHANGED <<file, pc, attempt, fileId, boundVars, given, spoilt, stopped>>

\* The stream is over, perhaps too early.
DiskEnds(j) ==
    LET content == part[PathOf[j]] IN
    /\ Stream(j, "disk")
    /\ \/ AllRead(j) /\ UNCHANGED faults
       \/ ~AllRead(j) /\ Fault
    /\ \/ /\ LongEnough(j, Len(content))
          /\ Succeeds(j, content)
       \/ /\ ~LongEnough(j, Len(content))
          /\ Fails(j, State(j)) /\ UNCHANGED <<file, part, given>>
    /\ UNCHANGED <<attempt, fileId, breaks, spoilt, stopped>>

\* The connection breaks, or the disk is full in the middle of a chunk.  The next
\* try goes on from the length of the part file, in whole chunks, behind whatever
\* the part file ends with.
DiskFails(j) ==
    LET p == PathOf[j] IN
    /\ Stream(j, "disk") /\ ~AllRead(j)
    /\ Fault
    /\ \E n \in NextFrom(j)..(NextEnd(j) - 1) :
       LET content == part[p] \o Span(j, NextFrom(j), n)
           st == AtEndOf(State(j), content)
       IN
       \/ /\ part' = Write(part, p, content)
          /\ Fails(j, State(j))
          /\ UNCHANGED spoilt
       \/ /\ call[j].try < StreamTries
          /\ part' = OpenPart(j, st, content)
          /\ Again(j, st)
          /\ saved' = Write(saved, p, State(j))
          /\ spoilt' = IF Len(content) % Chunk = 0 THEN spoilt ELSE spoilt \cup {p}
    /\ UNCHANGED <<file, attempt, fileId, breaks, given, stopped>>

-----------------------------------------------------------------------------
(* DownloadEngine._handle_download                                         *)

\* Fault: the watchdog lets a stream run that has begun.
StallAtFirst(j) ==
    /\ Stream(j, "ram")
    /\ Leave(j, "failed")
    /\ UNCHANGED <<fileVars, attempt, fileId, boundVars, given, spoilt, stopped>>

\* No progress for STALL_TIMEOUT: the download is cancelled, nothing is saved.
Stall(j) ==
    /\ pc[j] = "stream"
    /\ Leave(j, "failed")
    /\ UNCHANGED <<fileVars, attempt, fileId, boundVars, given, spoilt, stopped>>

\* These downloads are given up.
End(js) ==
    /\ pc' = [j \in Jobs |-> IF j \in js THEN "lost" ELSE pc[j]]
    /\ attempt' = [j \in Jobs |-> IF j \in js THEN 0 ELSE attempt[j]]
    /\ fileId' = [j \in Jobs |-> IF j \in js THEN NoId ELSE fileId[j]]

\* Another attempt, with the message fetched anew if that works.  A file reference
\* that cannot be renewed ends the download.
Retry(j) ==
    /\ pc[j] = "failed"
    /\ \/ /\ attempt[j] < MaxAttempts
          /\ attempt' = [attempt EXCEPT ![j] = @ + 1]
          /\ \E id \in FileIds : fileId' = [fileId EXCEPT ![j] = id]
          /\ Goto(j, "try")
       \/ End({j})
    /\ UNCHANGED <<fileVars, call, boundVars, given, spoilt, stopped>>

-----------------------------------------------------------------------------
(* download_and_send_media: the file is read for the upload, then removed  *)

Upload(j) ==
    /\ pc[j] = "got"
    /\ Goto(j, "sent")
    /\ UNCHANGED <<fileVars, attempt, fileId, call, boundVars, given, spoilt, stopped>>

Cleanup(j) ==
    /\ pc[j] = "sent"
    /\ Goto(j, "done")
    /\ attempt' = [attempt EXCEPT ![j] = 0] /\ fileId' = [fileId EXCEPT ![j] = NoId]
    /\ file' = Delete(file, {PathOf[j]})
    /\ given' = [given EXCEPT ![j] = <<>>]
    /\ stopped' = stopped \ {j}
    /\ UNCHANGED <<part, saved, call, boundVars, spoilt>>

Remove(dirs) ==
    LET gone == {p \in Paths : Dir(p) \in dirs} IN
    /\ file' = Delete(file, gone) /\ part' = Delete(part, gone) /\ saved' = Delete(saved, gone)

\* A link that failed is sent again.  A private one gets another directory: the old
\* one was removed at its end.
SendAgain(j) ==
    /\ pc[j] = "lost"
    /\ \A k \in Jobs : Dir(PathOf[k]) = Dir(PathOf[j]) /\ Dir(PathOf[j]) \in OwnDirs
                        => pc[k] \in Over
    /\ Goto(j, "new")
    /\ Remove({Dir(PathOf[j])} \cap OwnDirs)
    /\ UNCHANGED <<attempt, fileId, call, boundVars, given, spoilt, stopped>>

-----------------------------------------------------------------------------
(* /stop, a restart                                                        *)

\* Fault: the directories of all users whose id begins alike.
DirsOfAll(u) == OwnDirs

\* cleanup_user_temp: the user's directories, those of the link under way included.
DirsOf(u) == {d \in OwnDirs : OwnerOf[d] = u}

\* stop_command: the user's downloads are cancelled and the directories removed.
Stop(u) ==
    /\ breaks < BreakLimit /\ breaks' = breaks + 1
    /\ LET mine == {j \in Jobs : UserOf[j] = u} IN
       /\ stopped' = stopped \cup {j \in mine : pc[j] = "got"}
       /\ End({j \in mine : pc[j] \in {"try", "stream", "failed"}})
       /\ call' = [j \in Jobs |-> IF j \in mine THEN NoCall ELSE call[j]]
    /\ Remove(DirsOf(u))
    /\ UNCHANGED <<faults, given, spoilt>>

\* The process ends and starts again.  Private links will have new directories,
\* the shared one is as it was.
Crash ==
    /\ breaks < BreakLimit /\ breaks' = breaks + 1
    /\ End({j \in Jobs : pc[j] \notin Over})
    /\ call' = [j \in Jobs |-> NoCall]
    /\ given' = [j \in Jobs |-> <<>>]
    /\ stopped' = {}
    /\ Remove(OwnDirs)
    /\ UNCHANGED <<faults, spoilt>>

-----------------------------------------------------------------------------
Engine(j)   == Begin(j) \/ Found(j) \/ Open(j) \/ Retry(j) \/ Upload(j) \/ Cleanup(j)
Telegram(j) == \/ RamFetch(j) \/ RamShort(j) \/ RamFails(j)
               \/ DiskChunk(j) \/ DiskEnds(j) \/ DiskFails(j)

Next == \/ \E j \in Jobs : Engine(j) \/ Telegram(j) \/ Stall(j) \/ SendAgain(j)
        \/ \E u \in Users : Stop(u)
        \/ Crash

Spec == Init /\ [][Next]_vars

\* The engine's own steps are taken and its watchdog looks every five seconds.
\* Telegram need not answer.
FairSpec == Spec /\ \A j \in Jobs : WF_vars(Engine(j)) /\ WF_vars(Stall(j))

-----------------------------------------------------------------------------
States == [id : FileIds, bytes : Nat, chunk : Nat]
Calls  == [mode : {"none", "ram", "disk"}, try : 0..StreamTries, state : States]

FilesOK(fs) == DOMAIN fs \subseteq Paths /\ \A p \in DOMAIN fs : fs[p] \in Seq(Units)
SavedOK     == DOMAIN saved \subseteq Paths /\ \A p \in DOMAIN saved : saved[p] \in States

TypeOK ==
    /\ FilesOK(file) /\ FilesOK(part) /\ SavedOK
    /\ pc \in [Jobs -> {"new", "lost", "try", "stream", "failed", "got", "sent", "done"}]
    /\ attempt \in [Jobs -> 0..MaxAttempts] /\ fileId \in [Jobs -> FileIds]
    /\ call \in [Jobs -> Calls]
    /\ \A j \in Jobs : pc[j] = "stream" <=> call[j].mode # "none"
    /\ faults \in Nat /\ breaks \in Nat
    /\ given \in [Jobs -> Seq(Units)]
    /\ spoilt \subseteq Paths /\ stopped \subseteq Jobs
    \* an open part file exists
    /\ \A j \in Jobs : Stream(j, "disk") => PathOf[j] \in DOMAIN part

Complete(j) == LongEnough(j, Len(given[j])) /\ given[j] = Span(j, 0, Len(given[j]))

\* Nobody else puts another post's file under the same path.
Unshared(j) ==
    \A k \in Jobs : PathOf[k] = PathOf[j] => PostOf[k] = PostOf[j] /\ UserOf[k] = UserOf[j]

\* A download that succeeds hands over the post's file, from its first unit on and
\* with one per cent missing at most, however many attempts, restarts, part files
\* and state files it was put together from; only a chunk written in part and then
\* resumed at once may break it.
FileIsWhole ==
    \A j \in Jobs : given[j] # <<>> /\ Unshared(j) /\ PathOf[j] \notin spoilt => Complete(j)

\* TaskManager: "Each user has isolated ... temp directories."  A private link's
\* file stays what was downloaded until it is uploaded, whatever other users do.
PrivateFilesIntact ==
    \A j \in Jobs : pc[j] = "got" /\ Dir(PathOf[j]) \in OwnDirs /\ j \notin stopped =>
        PathOf[j] \in DOMAIN file /\ file[PathOf[j]] = given[j]

\* The same of every link.
FilesIntact ==
    \A j \in Jobs : pc[j] = "got" /\ j \notin stopped =>
        PathOf[j] \in DOMAIN file /\ file[PathOf[j]] = given[j]

\* A download that begins ends, also when Telegram stops answering in the middle of
\* a file.
DownloadEnds == \A j \in Jobs : pc[j] = "try" ~> pc[j] \in {"lost", "done"}

\* download(): "New download" when the state file is for another file id.
NoForeignPart ==
    \A j \in Jobs : given[j] # <<>> /\ Dir(PathOf[j]) \in OwnDirs /\ PathOf[j] \notin spoilt => Complete(j)
=============================================================================
