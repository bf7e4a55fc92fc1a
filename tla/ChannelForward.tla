---------------------------- MODULE ChannelForward ----------------------------
(***************************************************************************)
(* monitored_channel_handler of save.py: every new post of a channel on    *)
(* the owner's list is copied to a chat.  The handlers of several posts    *)
(* run side by side; those of one album take turns.  The list remembers    *)
(* the last post forwarded, and three losses of access in a row switch     *)
(* the channel off.                                                        *)
(*                                                                         *)
(* One channel.  A post is its ID; Group gives its album, or itself.  The  *)
(* copying of one post (process_single_post, process_album_with_session)   *)
(* is one step here: it delivers, fails, or delivers and fails.            *)
(***************************************************************************)
EXTENDS Integers, Sequences, FiniteSets, SequencesExt

CONSTANTS Posts,        \* IDs
          Group, FormOf,
          FailLimit,    \* _CHANNEL_MONITOR_ACCESS_FAIL_LIMIT
          ForwardCases  \* bound: posts announced, orders of the owner, troubles, restarts

Forms == {"text", "single", "photo", "mixed"}

Mates(p)   == {q \in Posts : Group[q] = Group[p]}
Highest(S) == CHOOSE p \in S : \A q \in S : q <= p
Lowest(S)  == CHOOSE p \in S : \A q \in S : p <= q

ASSUME ForwardAssumption ==
    /\ Posts \subseteq Nat \ {0} /\ Group \in [Posts -> Posts] /\ FormOf \in [Posts -> Forms]
    /\ \A p \in Posts : Group[Group[p]] = Group[p] /\ FormOf[p] = FormOf[Group[p]]
    /\ \A p, q \in Posts : Group[p] = Group[q] /\ p # q => FormOf[p] \in {"photo", "mixed"}
    /\ \A p \in Posts : \E h \in Mates(p) : \A q \in Mates(p) : q <= h
    /\ FailLimit \in Nat \ {0}
    /\ ForwardCases \subseteq [posts : SUBSET Posts, orders : Nat, troubles : Nat, restarts : Nat]

VARIABLES
    entry,     \* of the channel in channel_monitor: there, on, last
    losses,    \* _channel_monitor_access_failures
    line,      \* per album or post: who holds its lock, and who waits for it
    spot,      \* where the handler of each post is
    todo,      \* posts of a mixed album that are still to be copied; whether one was
    any,
    budget,    \* what may still happen
    copies, unsure,   \* history: copies of each post; those whose answer was lost
    skipped,          \* history: posts that were passed over
    newest, late,     \* history: the highest post announced; posts that came after a higher one
    failed, apart,    \* history: albums and posts with a trouble; albums that fell apart
    anew,             \* history: the channel was added again
    strikes           \* history: losses of access since the last success or switch

forwardHistory == <<copies, unsure, skipped, newest, late, failed, apart, anew, strikes>>
forwardVars    == <<entry, losses, line, spot, todo, any, budget, forwardHistory>>

NotListed == [there |-> FALSE, on |-> FALSE, last |-> 0]
Listed    == [there |-> TRUE, on |-> TRUE, last |-> 0]

ForwardInit ==
    /\ entry = Listed /\ losses = 0
    /\ line = [p \in Posts |-> <<>>]
    /\ \E case \in ForwardCases :
          /\ budget = [orders |-> case.orders, troubles |-> case.troubles, restarts |-> case.restarts]
          /\ spot = [p \in Posts |-> IF p \in case.posts THEN "new" ELSE "done"]
    /\ todo = [p \in Posts |-> {}] /\ any = [p \in Posts |-> FALSE]
    /\ copies = [p \in Posts |-> 0] /\ unsure = copies
    /\ skipped = {} /\ newest = 0 /\ late = {} /\ failed = {}
    /\ apart = {} /\ anew = FALSE /\ strikes = 0

Pays(what)   == budget[what] > 0 /\ budget' = [budget EXCEPT ![what] = @ - 1]
In(p, where) == spot[p] = where
To(p, where) == spot' = [spot EXCEPT ![p] = where]

\* Fault: the lock is not given back.
QuitHolding(p) == To(p, "done") /\ UNCHANGED line

\* The handler of p is through and leaves its lock.
Quit(p) == /\ To(p, "done")
           /\ line' = [line EXCEPT ![Group[p]] = Tail(@)]

\* update_last_forwarded, of the entry that the list has now.
Forwarded(n) == entry' = [entry EXCEPT !.last = IF entry.there /\ n > @ THEN n ELSE @]

Wanted(p) == entry.on /\ p > entry.last

Enters(p) == To(p, IF FormOf[p] = "text" THEN "text" ELSE "probe")
PassedBy(p) == skipped' = IF entry.on THEN skipped \cup {p} ELSE skipped

\* The update comes; posts are announced in any order.  A lock that is free is taken at once.
Announce(p) ==
    /\ In(p, "new")
    /\ newest' = IF p > newest THEN p ELSE newest
    /\ late' = IF p < newest THEN late \cup {p} ELSE late
    /\ IF ~Wanted(p) THEN PassedBy(p) /\ To(p, "done") /\ UNCHANGED line
       ELSE /\ line' = [line EXCEPT ![Group[p]] = Append(@, p)]
            /\ IF line[Group[p]] = <<>> THEN Enters(p) ELSE To(p, "wait")
            /\ UNCHANGED skipped
    /\ UNCHANGED <<entry, losses, todo, any, budget, copies, unsure, failed, apart, anew, strikes>>

\* Fault: the entry is not looked at again under the lock.
AdmitAnyway(p) ==
    /\ In(p, "wait") /\ Head(line[Group[p]]) = p
    /\ Enters(p)
    /\ UNCHANGED <<entry, losses, line, todo, any, budget, copies, unsure, skipped, newest, late, failed, apart,
                   anew, strikes>>

\* Who has waited for the lock looks at the entry again.
Admit(p) ==
    /\ In(p, "wait") /\ Head(line[Group[p]]) = p
    /\ IF Wanted(p) THEN Enters(p) /\ UNCHANGED <<line, skipped>>
       ELSE Quit(p) /\ PassedBy(p)
    /\ UNCHANGED <<entry, losses, todo, any, budget, copies, unsure, newest, late, failed, apart, anew, strikes>>

Copy(S) == copies' = [q \in Posts |-> copies[q] + IF q \in S THEN 1 ELSE 0]

Trouble(p) == Pays("troubles") /\ failed' = failed \cup {Group[p]}

\* Copying S fails: nothing arrived, or it did and the answer was lost.
CopyFails(p, S) ==
    /\ Trouble(p)
    /\ \/ UNCHANGED <<copies, unsure>>
       \/ Copy(S) /\ unsure' = [q \in Posts |-> unsure[q] + IF q \in S THEN 1 ELSE 0]

\* A text goes by the bot.
Text(p) ==
    /\ In(p, "text")
    /\ \/ To(p, "record") /\ Copy({p}) /\ UNCHANGED <<line, unsure, budget, failed>>
       \/ Quit(p) /\ CopyFails(p, {p})
    /\ UNCHANGED <<entry, losses, todo, any, skipped, newest, late, apart, anew, strikes>>

InAlbum(p) == FormOf[p] \in {"photo", "mixed"}
Whole(p)   == FormOf[p] = "photo" /\ Cardinality(Mates(p)) >= 2

\* A session of the system looks for the post, and for those of its album.
LookUp(p) ==
    /\ In(p, "probe") /\ To(p, IF InAlbum(p) THEN "group" ELSE "single")
    /\ UNCHANGED <<entry, losses, line, todo, any, budget, forwardHistory>>

Gather(p) ==
    /\ In(p, "group") /\ To(p, IF Whole(p) THEN "album" ELSE "parts")
    /\ todo' = [todo EXCEPT ![p] = IF Whole(p) THEN {} ELSE Mates(p)]
    /\ UNCHANGED <<entry, losses, line, any, budget, forwardHistory>>

\* No session, no such post, a FloodWait or another error: given up for good.
ProbeFails(p) ==
    /\ In(p, "probe") /\ Trouble(p) /\ Quit(p)
    /\ UNCHANGED <<entry, losses, todo, any, copies, unsure, skipped, newest, late, apart, anew, strikes>>

\* Fault: the post behind the album counts as forwarded.
WholeAlbumAndNext(p) ==
    /\ In(p, "album") /\ To(p, "record")
    /\ Copy(Mates(p)) /\ Forwarded(Highest(Mates(p)) + 1)
    /\ UNCHANGED <<losses, line, todo, any, budget, unsure, skipped, newest, late, failed, apart, anew, strikes>>

\* process_album_with_session: the whole album.
WholeAlbum(p) ==
    /\ In(p, "album") /\ To(p, "record")
    /\ Copy(Mates(p)) /\ Forwarded(Highest(Mates(p)))
    /\ UNCHANGED <<losses, line, todo, any, budget, unsure, skipped, newest, late, failed, apart, anew, strikes>>

\* Gathering or sending the album fails, or the copy of a part meets a flood: the single
\* post goes in its place.
FallsApart(p) ==
    /\ \/ In(p, "group") /\ Trouble(p) /\ UNCHANGED <<copies, unsure>>
       \/ In(p, "album") /\ CopyFails(p, Mates(p))
       \/ In(p, "parts") /\ todo[p] # {} /\ CopyFails(p, {Lowest(todo[p])})
    /\ To(p, "single") /\ apart' = apart \cup {Group[p]}
    /\ UNCHANGED <<entry, losses, line, todo, any, skipped, newest, late, anew, strikes>>

\* A mixed album, post by post.
Part(p) ==
    LET q == Lowest(todo[p]) IN
    /\ In(p, "parts") /\ todo[p] # {}
    /\ todo' = [todo EXCEPT ![p] = @ \ {q}]
    /\ \/ Copy({q}) /\ any' = [any EXCEPT ![p] = TRUE] /\ UNCHANGED <<budget, unsure, failed>>
       \/ CopyFails(p, {q}) /\ UNCHANGED any
    /\ UNCHANGED <<entry, losses, line, spot, skipped, newest, late, apart, anew, strikes>>

PartsEnd(p) ==
    /\ In(p, "parts") /\ todo[p] = {}
    /\ IF any[p] THEN To(p, "record") /\ Forwarded(Highest(Mates(p))) /\ UNCHANGED line
       ELSE Quit(p) /\ UNCHANGED entry
    /\ UNCHANGED <<losses, todo, any, budget, forwardHistory>>

\* process_single_post; a post that was deleted counts as copied.
Single(p) ==
    /\ In(p, "single")
    /\ \/ To(p, "record") /\ Copy({p}) /\ UNCHANGED <<line, unsure, budget, failed>>
       \/ To(p, "record") /\ Trouble(p) /\ UNCHANGED <<line, copies, unsure>>
       \/ Quit(p) /\ CopyFails(p, {p})
    /\ UNCHANGED <<entry, losses, todo, any, skipped, newest, late, apart, anew, strikes>>

\* The post is copied.
Record(p) ==
    /\ In(p, "record") /\ Quit(p) /\ Forwarded(p)
    /\ losses' = 0 /\ strikes' = 0
    /\ UNCHANGED <<todo, any, budget, copies, unsure, skipped, newest, late, failed, apart, anew>>

Disables == losses + 1 = FailLimit /\ entry.there

\* Fault: the limit is one too high.
LoseOneMore(p) ==
    /\ spot[p] \in {"probe", "group", "album", "single"} \/ (In(p, "parts") /\ todo[p] # {})
    /\ Trouble(p) /\ Quit(p)
    /\ apart' = IF In(p, "parts") THEN apart \cup {Group[p]} ELSE apart
    /\ IF losses = FailLimit /\ entry.there
       THEN losses' = 0 /\ strikes' = 0 /\ entry' = [entry EXCEPT !.on = FALSE]
       ELSE losses' = losses + 1 /\ strikes' = strikes + 1 /\ UNCHANGED entry
    /\ UNCHANGED <<todo, any, copies, unsure, skipped, newest, late, anew>>

\* The session has no access to the channel any more, which every call on the way may tell:
\* at the third time in a row the channel is switched off, if it is still on the list.
LoseAccess(p) ==
    /\ spot[p] \in {"probe", "group", "album", "single"} \/ (In(p, "parts") /\ todo[p] # {})
    /\ Trouble(p) /\ Quit(p)
    /\ apart' = IF In(p, "parts") THEN apart \cup {Group[p]} ELSE apart
    /\ IF Disables THEN losses' = 0 /\ strikes' = 0 /\ entry' = [entry EXCEPT !.on = FALSE]
       ELSE losses' = losses + 1 /\ strikes' = strikes + 1 /\ UNCHANGED entry
    /\ UNCHANGED <<todo, any, copies, unsure, skipped, newest, late, anew>>

\* /addchannel, /removechannel and /togglechannel.
OwnerOrders ==
    /\ Pays("orders")
    /\ \/ entry' = Listed /\ anew' = TRUE
       \/ entry.there /\ entry' = NotListed /\ UNCHANGED anew
       \/ entry.there /\ entry' = [entry EXCEPT !.on = ~@] /\ UNCHANGED anew
    /\ UNCHANGED <<losses, line, spot, todo, any, copies, unsure, skipped, newest, late, failed, apart, strikes>>

\* What the handler of p sends.
Sending(p) == CASE In(p, "album") -> Mates(p)
                [] In(p, "parts") -> IF todo[p] = {} THEN {} ELSE {Lowest(todo[p])}
                [] spot[p] \in {"text", "single"} -> {p}
                [] OTHER -> {}

\* The bot is restarted: the list is read from its file, the handlers are gone.  What they
\* were sending may have arrived, and no part of an album is recorded before the last.
Restart ==
    /\ Pays("restarts")
    /\ losses' = 0 /\ strikes' = 0 /\ line' = [p \in Posts |-> <<>>]
    /\ spot' = [p \in Posts |-> IF In(p, "new") THEN "new" ELSE "done"]
    /\ \E S \in SUBSET (UNION {Sending(p) : p \in Posts}) :
          Copy(S) /\ unsure' = [q \in Posts |-> unsure[q] + IF q \in S THEN 1 ELSE 0]
    /\ apart' = apart \cup {Group[p] : p \in {q \in Posts : In(q, "parts")}}
    /\ UNCHANGED <<entry, todo, any, skipped, newest, late, failed, anew>>

Handler(p) == \/ Admit(p) \/ Text(p) \/ LookUp(p) \/ ProbeFails(p) \/ Gather(p) \/ WholeAlbum(p) \/ FallsApart(p)
              \/ Part(p) \/ PartsEnd(p) \/ Single(p) \/ Record(p) \/ LoseAccess(p)

ForwardNext == \/ \E p \in Posts : Announce(p) \/ Handler(p)
               \/ OwnerOrders \/ Restart

\* Every call of a handler has an end, and asyncio's locks are fair.
ForwardFairness == \A p \in Posts : WF_forwardVars(Handler(p))
ForwardSpec == ForwardInit /\ [][ForwardNext]_forwardVars /\ ForwardFairness

-----------------------------------------------------------------------------
(* Properties.                                                             *)

ForwardTypeOK ==
    /\ entry \in [there : BOOLEAN, on : BOOLEAN, last : Posts \cup {0}]
    /\ losses \in Nat /\ strikes \in Nat
    /\ line \in [Posts -> Seq(Posts)]
    /\ spot \in [Posts -> {"new", "wait", "text", "probe", "group", "album", "parts", "single", "record", "done"}]
    /\ todo \in [Posts -> SUBSET Posts] /\ any \in [Posts -> BOOLEAN]
    /\ {skipped, late, failed, apart} \subseteq SUBSET Posts /\ anew \in BOOLEAN

\* A post is copied once, unless an answer was lost, the channel was added again or its album
\* fell apart: what was sent as a single post, or before a restart, comes again with the album
\* of the next.
CopiedOnce ==
    ~anew => \A p \in Posts :
                 copies[p] <= unsure[p] + 1 + (IF Group[p] \in apart THEN Cardinality(Mates(p)) ELSE 0)

\* The ID of p lies between those of an album.
Enclosed(p) == \E a, b \in Posts : Group[a] = Group[b] /\ Group[a] # Group[p] /\ a < p /\ p < b

\* Where nothing went wrong with a post or its album, it is passed over only if a copy of it
\* went out, or if its update came behind that of a later post, or of an album around it.
NonePassedOver ==
    \A p \in skipped : copies[p] > 0 \/ p \in late \/ Group[p] \in failed \/ Enclosed(p)

\* A channel that is on has lost access less than three times in a row.
SwitchedOff == entry.on /\ ~anew => strikes < FailLimit

ForwardSound == CopiedOnce /\ NonePassedOver /\ SwitchedOff

\* The handler of every post comes to its end.
ForwardEnds == []<>(\A p \in Posts : spot[p] \in {"new", "done"})

\* "Every new post is copied": none is passed over.
EveryPostCopied == \A p \in skipped : copies[p] > 0
===============================================================================
