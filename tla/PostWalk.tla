------------------------------ MODULE PostWalk -------------------------------
(***************************************************************************)
(* The walks of TechVJ/save.py over the posts of a link and their ways     *)
(* with albums: private ranges, topics and comment threads.                *)
(*                                                                         *)
(* Posts are numbered as in their chat.  What becomes of one post is the   *)
(* subject of MediaDelivery and one step here; this module is about which  *)
(* posts are visited, sent together, counted and left out, and about what  *)
(* becomes of their texts and captions (Texts).  Photos go out through the *)
(* user's own session, so that nothing has to be copied.                   *)
(***************************************************************************)
EXTENDS Texts

CONSTANTS Links,        \* the links walked over
          MaxPost,      \* bound: numbers of posts
          ErrorLimit,   \* MAX_CONSECUTIVE_ERRORS
          FloodLimit,   \* bound: FloodWait answers, messages that fail
          LossLimit,    \* bound: sends whose answer is lost
          BlurLimit     \* bound: albums that get_media_group does not show

Posts   == 1..MaxPost
NoAlbum == 0
Albums  == 1..MaxPost

\* A link: the posts it asks for and, of its chat, the album of each post, the albums of
\* photos only, the posts that are deleted and those of another topic or thread.
LinkType == [mode : {"private", "topic", "comments"}, ids : Seq(Posts),
             album : [Posts -> {NoAlbum} \cup Albums], photos : SUBSET Albums,
             gone : SUBSET Posts, outside : SUBSET Posts,
             words : TextType, captioned : BOOLEAN]

\* What its posts say: they are texts, or media and photo albums with it as their caption.
NoWords == [chars |-> <<>>, marks |-> {}]

ASSUME PostWalkAssumption ==
    /\ Links \subseteq LinkType
    /\ {MaxPost, ErrorLimit} \subseteq Nat \ {0}
    /\ {FloodLimit, LossLimit, BlurLimit} \subseteq Nat
    /\ \A l \in Links : \A p \in ToSet(l.ids) : l.words # NoWords /\ l.album[p] # NoAlbum =>
           l.mode = "private" /\ l.captioned
    /\ \A l \in Links : /\ \A p \in l.gone : l.album[p] = NoAlbum
                        /\ \A i, j \in DOMAIN l.ids : i < j =>
                              IF l.mode = "private" THEN l.ids[i] < l.ids[j] ELSE l.ids[i] # l.ids[j]

VARIABLES
    link,       \* the link
    pc,         \* where the walk is
    pos,        \* posts taken from the order
    again,      \* retry_post_id is set
    flag,       \* the user's cancel flag
    seen,       \* processed_albums, albums_done
    errs,       \* _consecutive_errors
    active,     \* the user is in BatchController._active_users
    todo,       \* photos or members still to be sent, one by one
    some,       \* processed_count > 0
    processed, failed, skipped,  \* the posts counted as such
    out,        \* pieces of the text still to be sent
    plain,      \* they are sent without their entities
    floods,     \* counter, bounded by FloodLimit
    read,       \* history: pieces that reached the user in this try at the post
    parsed,     \* history: which of them the library read markup in
    got,        \* history: how often each post reached the user
    lost,       \* history: posts an answer was lost for
    late,       \* history: posts that first reached the user after /stop
    blurred     \* history: albums a member of which was taken for a single post

countVars   == <<processed, failed, skipped>>
textVars    == <<out, plain, read, parsed>>
historyVars == <<got, lost, late, blurred>>
walkVars    == <<link, pc, pos, again, flag, seen, errs, active, todo, some, countVars,
                 textVars, floods, historyVars>>

Private  == link.mode = "private"
Comments == link.mode = "comments"
\* Comments have no BatchController.
Batch    == ~Comments

\* SetToSortSeq(S, <), written out because SortSeq is built into the tools.
InOrder(S) ==
    [i \in 1..Cardinality(S) |-> CHOOSE x \in S : Cardinality({y \in S : y <= x}) = i]

\* The order of the walk.  The comments of a range are fetched at once, those that are
\* missing or of another thread left out, and the others sorted.
Order == IF Comments
         THEN InOrder(ToSet(link.ids) \ (link.gone \cup link.outside))
         ELSE link.ids

At         == Order[pos]
AlbumOf(p) == link.album[p]
Here       == AlbumOf(At)
Members(a) == {p \in Posts \ link.gone : AlbumOf(p) = a}
\* detect_album_boundary, _is_photo_only_group: at least two members, all photos.
PhotoAlbum(a) == a \in link.photos /\ Cardinality(Members(a)) >= 2

WalkInit ==
    /\ link \in Links
    /\ pc = "head" /\ pos = 0 /\ again = FALSE
    /\ flag = FALSE
    /\ seen = {} /\ errs = 0
    /\ active = Batch
    /\ todo = {} /\ some = FALSE
    /\ out = <<>> /\ plain = FALSE /\ read = <<>> /\ parsed = {}
    /\ processed = {} /\ failed = {} /\ skipped = {}
    /\ floods = 0
    /\ got = [p \in Posts |-> 0]
    /\ lost = {} /\ late = {} /\ blurred = {}

-----------------------------------------------------------------------------
(* Effects several steps share                                             *)

Goto(where) == pc' = where /\ UNCHANGED active

\* batch.finish() at the regular end of the loop.
Finish == pc' = "done" /\ active' = FALSE

\* The walk is left early: a return, or a CancelledError that only the private walk
\* answers with batch.finish().
Leave(finishes) == pc' = "done" /\ active' = (active /\ ~finishes)

Reach(S) == /\ got' = [p \in Posts |-> IF p \in S THEN got[p] + 1 ELSE got[p]]
            /\ late' = IF flag THEN late \cup {p \in S : got[p] = 0} ELSE late
            /\ UNCHANGED blurred

Arrives(S) == Reach(S) /\ UNCHANGED lost

\* The posts arrive and the answer that says so does not.
LosesAnswer(S) == /\ Cardinality(lost) < LossLimit
                  /\ lost' = lost \cup S
                  /\ Reach(S)

Flooded == floods < FloodLimit /\ floods' = floods + 1

NothingComes == UNCHANGED historyVars

\* A piece reaches the user, who sees what the library makes of it.
PieceArrives(p, marked) ==
    /\ ~Refused(link.words, Received(link.words, p, marked), MessageLimit)
    /\ read' = Append(read, p)
    /\ parsed' = IF marked THEN parsed \cup {Len(read) + 1} ELSE parsed

Errors(n) == errs' = IF Batch THEN n ELSE errs

\* record_success and record_error, then should_stop.
Settle(ok) ==
    /\ IF ok THEN processed' = processed \cup {At} /\ UNCHANGED failed
             ELSE failed' = failed \cup {At} /\ UNCHANGED processed
    /\ Errors(IF ok THEN 0 ELSE errs + 1)
    /\ IF Batch /\ errs' >= ErrorLimit THEN Finish ELSE Goto("head")
    /\ UNCHANGED <<skipped, again>>

\* An exception that reaches the loop: it is counted, and the loop goes on without a look
\* at the errors in a row.
Raises == /\ failed' = failed \cup {At}
          /\ Errors(errs + 1)
          /\ Goto("head")
          /\ UNCHANGED <<processed, skipped, again>>

Skips == /\ skipped' = skipped \cup {At}
         /\ Goto("head")
         /\ UNCHANGED <<processed, failed, errs, again>>

\* A deleted post of a private walk; should_stop sees the errors of others.
Deleted == /\ skipped' = skipped \cup {At}
           /\ IF errs >= ErrorLimit THEN Finish ELSE Goto("head")
           /\ UNCHANGED <<processed, failed, errs, again>>

Uncounted == UNCHANGED <<countVars, errs, again>>

\* A flood of a single post.  A private walk waits and takes the post again; a topic counts
\* it as failed, or ends uncounted when the wait is long; comments only count it.
SingleFloods ==
    /\ \/ Private /\ again' = TRUE /\ Goto("wait") /\ UNCHANGED failed
       \/ ~Private /\ failed' = failed \cup {At} /\ Goto("head") /\ UNCHANGED again
       \/ link.mode = "topic" /\ Finish /\ UNCHANGED <<failed, again>>
    /\ Errors(errs + 1)
    /\ UNCHANGED <<processed, skipped>>

-----------------------------------------------------------------------------
(* The head of the loops                                                   *)

Stopped ==
    /\ pc = "head" /\ flag
    /\ Leave(FALSE)
    /\ Uncounted /\ NothingComes
    /\ UNCHANGED <<link, textVars, pos, flag, seen, todo, some, floods>>

\* A flooded post of a private walk is taken again.
TakeNext ==
    /\ pc = "head" /\ ~flag
    /\ IF again \/ pos < Len(Order)
       THEN /\ pos' = IF again THEN pos ELSE pos + 1
            /\ Goto(IF Private THEN "detect" ELSE "fetch")
       ELSE UNCHANGED pos /\ Finish
    /\ again' = FALSE
    /\ out' = <<>> /\ plain' = FALSE /\ read' = <<>> /\ parsed' = {}
    /\ NothingComes
    /\ UNCHANGED <<link, flag, seen, errs, todo, some, countVars, floods>>

-----------------------------------------------------------------------------
(* Albums of a private walk                                                *)

\* Fault: the post after the album is jumped, too.
JumpTooFar(n) == CHOOSE i \in pos..Len(Order) : /\ i < Len(Order) => Order[i + 1] > n
                                                /\ \A k \in pos + 1..i : Order[k] <= n

\* AlbumAwareIterator.skip_to: the posts before number n count as taken.
SkipTo(n) == CHOOSE i \in pos..Len(Order) : /\ i < Len(Order) => Order[i + 1] >= n
                                            /\ \A k \in pos + 1..i : Order[k] < n

\* boundary.next_message_id
Beyond(a) == CHOOSE n \in 2..MaxPost + 1 : n - 1 \in Members(a) /\ \A p \in Members(a) : p < n

\* detect_album_boundary.  A fetch that fails, floods or runs into Pyrofork's
\* incompatibility makes the post a single one; a revoked session is an exception.
Detect ==
    /\ pc = "detect"
    /\ \/ /\ PhotoAlbum(Here) /\ Here \in seen
          /\ pos' = SkipTo(Beyond(Here)) /\ Goto("head")
          /\ Uncounted /\ UNCHANGED blurred
       \/ /\ PhotoAlbum(Here) /\ Here \notin seen
          /\ Goto("collect")
          /\ Uncounted /\ UNCHANGED <<pos, blurred>>
       \/ /\ PhotoAlbum(Here)
          /\ Cardinality(blurred) < BlurLimit
          /\ blurred' = blurred \cup {Here}
          /\ Goto("single")
          /\ Uncounted /\ UNCHANGED pos
       \/ ~PhotoAlbum(Here) /\ Goto("single") /\ Uncounted /\ UNCHANGED <<pos, blurred>>
       \/ Raises /\ UNCHANGED <<pos, blurred>>
    /\ UNCHANGED <<link, textVars, flag, seen, todo, some, floods, got, lost, late>>

\* The album is done with, for better or worse: its other posts are jumped.
AlbumEnds(ok) == Settle(ok) /\ pos' = SkipTo(Beyond(Here))

\* process_album_with_session returns "cancelled": CancelledError.
AlbumCancelled == flag /\ Leave(TRUE) /\ Uncounted /\ UNCHANGED pos

\* collect_album: the album is looked up again, and once more.
Collect ==
    /\ pc = "collect"
    /\ \/ AlbumCancelled
       \/ AlbumEnds(FALSE)
       \/ ~flag /\ Goto("load") /\ Uncounted /\ UNCHANGED pos
    /\ NothingComes
    /\ UNCHANGED <<link, textVars, flag, seen, todo, some, floods>>

\* download_album_photos: photos that fail are left out, two are enough.
LoadAlbum ==
    /\ pc = "load" /\ Private
    /\ \/ AlbumCancelled /\ UNCHANGED todo
       \/ AlbumEnds(FALSE) /\ UNCHANGED todo
       \/ /\ ~flag
          /\ todo' \in {S \in SUBSET Members(Here) : Cardinality(S) >= 2}
          /\ Goto("send") /\ Uncounted /\ UNCHANGED pos
    /\ NothingComes
    /\ UNCHANGED <<link, textVars, flag, seen, some, floods>>

\* Fault: a send that fails is counted as sent.
AlbumFailsUnseen == AlbumEnds(TRUE)

\* send_failed
AlbumFails == AlbumEnds(FALSE)

\* send_album and its look at the flag before every try: after /stop the send fails or is
\* cancelled, as the first or a later look sees it.
CheckAlbum ==
    /\ pc = "send" /\ Private
    /\ \/ AlbumCancelled
       \/ flag /\ AlbumFails
       \/ ~flag /\ Goto("out") /\ Uncounted /\ UNCHANGED pos
    /\ NothingComes
    /\ UNCHANGED <<link, textVars, flag, seen, todo, some, floods>>

\* The markup of an album's caption is read where no entities go with it: InputMediaPhoto and
\* the messages behind are not told the parse mode, and a header is bold.
CaptionMarked(p) ==
    p.head = 0 /\ (p.marks = {} \/ AsMarkdown(link.words, p, CaptionMarkdownLimit, CaptionLimit))

\* send_media_group, the first photo with as much of the caption as it takes; a flood is
\* waited out and the batch sent again.
SendAlbum ==
    /\ pc = "out"
    /\ \/ AlbumFails /\ NothingComes /\ UNCHANGED <<seen, floods, textVars>>
       \/ /\ Arrives(todo)
          /\ seen' = seen \cup {Here}
          /\ IF link.words = NoWords
             THEN AlbumEnds(TRUE) /\ UNCHANGED textVars
             ELSE /\ Goto("albumText") /\ Uncounted /\ UNCHANGED <<pos, plain>>
                  /\ out' = Tail(SmartCaption(link.words))
                  /\ read' = <<Head(SmartCaption(link.words))>>
                  /\ parsed' = IF CaptionMarked(Head(SmartCaption(link.words))) THEN {1} ELSE {}
          /\ UNCHANGED floods
       \/ LosesAnswer(todo) /\ AlbumEnds(FALSE) /\ UNCHANGED <<seen, floods, textVars>>
       \/ /\ Flooded
          /\ Errors(errs + 1)
          /\ Goto("send")
          /\ NothingComes /\ UNCHANGED <<pos, seen, countVars, again, textVars>>
    /\ UNCHANGED <<link, flag, todo, some>>

\* overflow_chunks: a message for each; those that fail are passed over.
SendAlbumText ==
    /\ pc = "albumText"
    /\ IF out = <<>>
       THEN AlbumEnds(TRUE) /\ UNCHANGED textVars
       ELSE /\ out' = Tail(out)
            /\ \/ PieceArrives(Head(out), CaptionMarked(Head(out))) /\ UNCHANGED plain
               \/ plain' = TRUE /\ UNCHANGED <<read, parsed>>
            /\ Goto("albumText") /\ Uncounted /\ UNCHANGED pos
    /\ NothingComes
    /\ UNCHANGED <<link, flag, seen, todo, some, floods>>

-----------------------------------------------------------------------------
(* Albums of topics and comments                                           *)

\* The post is fetched, unless the extractor or the range brought it.  A time-out, an id
\* that Telegram calls invalid, a deleted post and one of another topic are counted.
Fetch ==
    /\ pc = "fetch"
    /\ \/ /\ ~Comments
          /\ \/ failed' = failed \cup {At} /\ Goto("head") /\ UNCHANGED <<processed, skipped, errs, again, floods>>
             \/ (Raises \/ Skips) /\ UNCHANGED floods
             \/ Flooded /\ SingleFloods
       \/ At \in link.gone \cup link.outside /\ Skips /\ UNCHANGED floods
       \/ /\ At \notin link.gone \cup link.outside
          /\ Goto(IF Here = NoAlbum THEN "single" ELSE IF Here \in seen THEN "head" ELSE "group")
          /\ Uncounted /\ UNCHANGED floods
    /\ NothingComes
    /\ UNCHANGED <<link, textVars, pos, flag, seen, todo, some>>

\* Fault: the album is not remembered.
Forgets(a) == UNCHANGED seen

\* albums_done.add
Remembers(a) == seen' = seen \cup {a}

\* get_media_group raises, a flood among others; shows nothing, so that the post goes alone
\* and stands for its album; or shows the album.
Group ==
    /\ pc = "group"
    /\ \/ Settle(FALSE) /\ UNCHANGED <<seen, todo, blurred>>
       \/ /\ Cardinality(blurred) < BlurLimit
          /\ blurred' = blurred \cup {Here}
          /\ Remembers(Here)
          /\ Goto("alone") /\ Uncounted /\ UNCHANGED todo
       \/ /\ Remembers(Here)
          /\ IF PhotoAlbum(Here) THEN Goto("load") /\ UNCHANGED todo
                                 ELSE Goto("member") /\ todo' = Members(Here)
          /\ Uncounted /\ UNCHANGED blurred
    /\ some' = FALSE
    /\ UNCHANGED <<link, textVars, pos, flag, floods, got, lost, late>>

\* process_album_messages: the photos that can be had go out as a group, or one by one
\* when there are less than two.
LoadPhotos ==
    /\ pc = "load" /\ ~Private
    /\ \/ Settle(FALSE) /\ UNCHANGED todo
       \/ /\ ~flag
          /\ todo' \in SUBSET Members(Here)
          /\ Goto(IF Cardinality(todo') >= 2 THEN "send" ELSE "each")
          /\ Uncounted
    /\ NothingComes
    /\ UNCHANGED <<link, textVars, pos, flag, seen, some, floods>>

\* send_media_group; any exception leads to the photos one by one.
SendPhotos ==
    /\ pc = "send" /\ ~Private
    /\ \/ Settle(TRUE) /\ Arrives(todo)
       \/ Goto("each") /\ LosesAnswer(todo) /\ Uncounted
       \/ Goto("each") /\ NothingComes /\ Uncounted
    /\ UNCHANGED <<link, textVars, pos, flag, seen, todo, some, floods>>

Least(S) == CHOOSE p \in S : \A q \in S : p <= q

\* A photo by itself: failures are passed over, nobody looks at the flag, and in the end
\* the album counts.
SendEach ==
    /\ pc = "each"
    /\ IF todo = {}
       THEN Settle(TRUE) /\ NothingComes /\ UNCHANGED todo
       ELSE LET p == Least(todo) IN
            /\ todo' = todo \ {p}
            /\ Arrives({p}) \/ LosesAnswer({p}) \/ NothingComes
            /\ Goto("each") /\ Uncounted
    /\ UNCHANGED <<link, textVars, pos, flag, seen, some, floods>>

\* Fault: the members follow each other without a look at the flag.
HeedsNothing == FALSE

\* check_cancelled between the members
Heeds == flag

\* _process_media_group_sequential: one member after the other, floods passed over.
NextMember ==
    /\ pc = "member"
    /\ IF todo = {} \/ Heeds THEN Settle(some /\ ~Heeds) ELSE Goto("sendMember") /\ Uncounted
    /\ NothingComes
    /\ UNCHANGED <<link, textVars, pos, flag, seen, todo, some, floods>>

SendMember ==
    /\ pc = "sendMember"
    /\ LET p == Least(todo) IN
       /\ todo' = todo \ {p}
       /\ \/ Arrives({p}) /\ some' = TRUE
          \/ (LosesAnswer({p}) \/ NothingComes) /\ UNCHANGED some
    /\ Goto("member") /\ Uncounted
    /\ UNCHANGED <<link, textVars, pos, flag, seen, floods>>

-----------------------------------------------------------------------------
(* Single posts                                                            *)

IsText == link.words # NoWords /\ ~link.captioned

\* render_chunks of the renderer that the walk uses.
Pieces == IF link.mode = "topic" THEN RenderSmart(link.words) ELSE RenderWords(link.words)

\* process_single_post and download_and_send_media look at the flag once more; nobody does
\* for the texts of topics and comments.
LooksAgain == Private \/ ~IsText

StartSingle ==
    /\ pc = "single"
    /\ \/ flag /\ LooksAgain /\ Settle(FALSE) /\ UNCHANGED out
       \/ At \in link.gone /\ Deleted /\ UNCHANGED out
       \/ /\ ~(flag /\ LooksAgain) /\ At \notin link.gone
          /\ IF IsText THEN Goto("text") /\ out' = Pieces ELSE Goto("deliver") /\ UNCHANGED out
          /\ Uncounted
    /\ NothingComes
    /\ UNCHANGED <<link, plain, read, parsed, pos, flag, seen, todo, some, floods>>

\* Fault: send_text_message does not forbid the library to read markup.
AllMarked(p) == TRUE

\* The markup of a text is read unless entities go with it or the sender forbids it: a
\* private walk does, but for plain slices.  Short texts of topics are written with markup.
Marked(p) == IF Private THEN plain
             ELSE \/ p.marks = {}
                  \/ ~Comments /\ AsMarkdown(link.words, p, MarkdownLimit, MessageLimit)

\* send_text_message, and what topics and comments have for it: the pieces, one message
\* each.  If one fails, a private walk sends the whole text again in plain slices; a flood
\* leaves the text where it is, and comments take it for any other error.
SendText ==
    /\ pc = "text"
    /\ \/ /\ out = <<>>
          /\ Settle(TRUE) /\ Arrives({At}) /\ UNCHANGED <<textVars, floods>>
       \/ /\ out # <<>>
          /\ PieceArrives(Head(out), Marked(Head(out))) /\ out' = Tail(out)
          /\ Goto("text") /\ Uncounted /\ NothingComes /\ UNCHANGED <<plain, floods>>
       \/ /\ out # <<>> /\ Private /\ ~plain
          /\ plain' = TRUE /\ out' = Slices(link.words)
          /\ Goto("text") /\ Uncounted /\ NothingComes /\ UNCHANGED <<read, parsed, floods>>
       \/ /\ out # <<>> /\ (Private => plain)
          /\ Settle(FALSE) /\ NothingComes /\ UNCHANGED <<textVars, floods>>
       \/ /\ out # <<>> /\ ~Comments
          /\ Flooded /\ SingleFloods /\ NothingComes /\ UNCHANGED textVars
    /\ UNCHANGED <<link, pos, flag, seen, todo, some>>

\* download_and_send_media: /stop may come while it is at work.  The media is refused with a
\* caption that is too long; what of the caption goes into messages is sent after it.
Deliver ==
    /\ pc \in {"deliver", "alone"}
    /\ \/ /\ Arrives({At})
          /\ IF link.words = NoWords
             THEN Settle(TRUE) /\ UNCHANGED textVars
             ELSE LET pieces == SplitCaption(link.words) IN
                  /\ Units(link.words, pieces[1].lo, pieces[1].hi) <= CaptionLimit
                  /\ read' = Append(read, pieces[1])
                  /\ out' = Tail(pieces)
                  /\ IF out' = <<>> THEN Settle(TRUE) ELSE Goto("overflow") /\ Uncounted
                  /\ UNCHANGED <<plain, parsed>>
          /\ UNCHANGED floods
       \/ Settle(FALSE) /\ (LosesAnswer({At}) \/ NothingComes) /\ UNCHANGED <<textVars, floods>>
       \/ /\ Flooded /\ NothingComes /\ UNCHANGED textVars
          /\ IF pc = "alone" THEN Settle(FALSE) ELSE SingleFloods
       \/ flag /\ Leave(Private) /\ Uncounted /\ NothingComes /\ UNCHANGED <<textVars, floods>>
    /\ UNCHANGED <<link, pos, flag, seen, todo, some>>

\* The rest of the caption.  If a message fails, all of it is sent once more as one, without
\* entities, as far as it goes; the media counts as sent in any case.
SendOverflow ==
    /\ pc = "overflow"
    /\ \/ /\ PieceArrives(Head(out), FALSE) /\ out' = Tail(out)
          /\ IF out' = <<>> THEN Settle(TRUE) ELSE Goto("overflow") /\ Uncounted
          /\ UNCHANGED plain
       \/ LET rest == Together(SplitCaption(link.words)) IN
          /\ plain' = TRUE /\ out' = <<>>
          /\ PieceArrives(rest, FALSE) \/ UNCHANGED <<read, parsed>>
          /\ Settle(TRUE)
    /\ NothingComes
    /\ UNCHANGED <<link, pos, flag, seen, todo, some, floods>>

\* wait_for_flood, which ends the walk when the flag is up.
Wait ==
    /\ pc = "wait"
    /\ IF flag THEN Leave(TRUE) ELSE Goto("head")
    /\ Uncounted /\ NothingComes
    /\ UNCHANGED <<link, textVars, pos, flag, seen, todo, some, floods>>

\* /stop
RaiseFlag ==
    /\ pc # "done" /\ ~flag
    /\ flag' = TRUE
    /\ UNCHANGED <<link, textVars, pc, pos, again, seen, errs, active, todo, some, countVars,
                   floods, historyVars>>

WalkNext ==
    \/ Stopped \/ TakeNext
    \/ Detect \/ Collect \/ LoadAlbum \/ CheckAlbum \/ SendAlbum \/ SendAlbumText
    \/ Fetch \/ Group \/ LoadPhotos \/ SendPhotos \/ SendEach
    \/ NextMember \/ SendMember
    \/ StartSingle \/ SendText \/ Deliver \/ SendOverflow \/ Wait
    \/ RaiseFlag

WalkSpec == WalkInit /\ [][WalkNext]_walkVars

-----------------------------------------------------------------------------
WalkTypeOK ==
    /\ link \in Links
    /\ pc \in {"head", "detect", "collect", "load", "send", "fetch", "group", "each",
               "member", "sendMember", "out", "albumText", "single", "text", "deliver",
              "overflow", "alone", "wait", "done"}
    /\ pos \in 0..Len(Order)
    /\ {again, flag, active, some} \subseteq BOOLEAN
    /\ seen \subseteq Albums /\ blurred \subseteq Albums
    /\ errs \in Nat /\ floods \in 0..FloodLimit
    /\ {todo, processed, failed, skipped, lost, late} \subseteq SUBSET Posts
    /\ got \in [Posts -> Nat]
    /\ {out, read} \subseteq Seq(PieceType) /\ plain \in BOOLEAN
    /\ parsed \subseteq 1..Len(read)

SameAlbum(p, q) == p = q \/ (AlbumOf(p) # NoAlbum /\ AlbumOf(p) = AlbumOf(q))

\* The posts that are sent and counted with p: a private walk takes the members of an album
\* that is not of photos only one by one.
With(p) == IF Private /\ ~PhotoAlbum(AlbumOf(p)) THEN {p} ELSE {q \in Posts : SameAlbum(p, q)}

\* No post reaches the user twice, by itself and with its album or with two members that
\* both lead to it, over floods, retries and fallbacks; a lost answer costs one repetition,
\* and so does an album that could not be seen at its first member.
AlbumsOnce ==
    \A p \in Posts :
        got[p] <= IF p \in lost \/ AlbumOf(p) \in blurred THEN 2 ELSE 1

\* Between the first and the last photo of an album, as posts of others can be in a group.
Between(p) == \E a \in link.photos : /\ \E q \in Members(a) : q < p
                                     /\ \E q \in Members(a) : p < q
                                     /\ AlbumOf(p) # a

\* A walk that comes to its end leaves no post of the link out: each one, or another member
\* of its album, was counted as sent, failed or missing.  Not so the posts that a private
\* walk jumps because an album encloses them.
Accounted ==
    pc = "head" /\ pos = Len(Order) /\ ~again =>
        \A p \in ToSet(Order) : \/ Private /\ Between(p)
                                \/ With(p) \cap (processed \cup failed \cup skipped) # {}

\* What is counted as sent reached the user, an album of a private walk with two photos at
\* least; what is counted as failed did not, unless an answer was lost or its album seen
\* too late.  Photo albums of topics and comments are no part of this: see Hollow.
Truthful ==
    /\ \A p \in processed :
          IF AlbumOf(p) \in link.photos
          THEN Private => Cardinality({q \in With(p) : got[q] > 0}) >=
                          IF PhotoAlbum(AlbumOf(p)) /\ AlbumOf(p) \notin blurred THEN 2 ELSE 1
          ELSE \E q \in With(p) : got[q] > 0
    /\ \A p \in failed \ lost :
          Private /\ AlbumOf(p) \notin blurred \cup seen =>
              \A q \in With(p) : got[q] = 0 \/ q \in lost

\* What a walk counts is what its user has received: no post is passed over in silence,
\* and none is counted for another.
FullAccount == Accounted /\ Truthful

\* What a link asks for arrives once, and is told.
PostsSound == AlbumsOnce /\ FullAccount

\* After /stop no more than one post begins to reach the user, the one under way, or the
\* photos of one album.
OneAlbumAfterStop ==
    \A p, q \in late : p = q \/ (SameAlbum(p, q) /\ PhotoAlbum(AlbumOf(p)))

Visible(t) == {k \in 0..Size(t) - 1 : ~IsSpace(t, k)}

\* The post at hand is a text or has one as its caption, and has been counted as sent.
WordsSent == /\ pc = "head" /\ pos > 0 /\ ~again /\ link.words # NoWords
             /\ With(At) \cap processed # {} /\ Here \notin blurred

\* What the user has seen of a piece.
Seen(i) == Received(link.words, read[i], i \in parsed)

\* The post goes out with its characters as they are: texts of private walks, unless in plain
\* slices, and captions of all that is not a photo album.
Literally == IF link.captioned THEN ~PhotoAlbum(Here) ELSE Private /\ ~plain

\* A text that counts as sent has reached the user with every visible character, in order
\* and once unless it was begun again in plain slices.  A caption has, unless one of its
\* messages failed.  Delimiters are lost where the library may take them for markup, and
\* nowhere else.
TextKept ==
    WordsSent =>
        /\ ~plain \/ ~link.captioned =>
              \A k \in Visible(link.words) :
                  \/ Char(link.words, k) = "tick" /\ ~Literally
                  \/ \E i \in 1..Len(read) : k \in (Seen(i).lo..Seen(i).hi - 1) \ Seen(i).eaten
        /\ ~plain => \A i \in 1..Len(read) - 1 : read[i].hi <= read[i + 1].lo

\* Where an entity of a piece begins in the whole text.
Origin(p, m) == Units(link.words, 0, p.lo) + m.off - p.head

\* A link that fits into any piece, begins and ends with something visible and is not inside
\* another entity.
Plainly(t, m) ==
    /\ m.kind = "link"
    /\ m.len <= CaptionLimit /\ m.len <= MessageLimit
    /\ \A k \in 0..Size(t) - 1 :
           Units(t, 0, k) \in {m.off, m.off + m.len - 1} => ~IsSpace(t, k)
    /\ \A n \in t.marks \ {m} : m.off < n.off \/ n.off + n.len <= m.off

\* Wherever a text is cut, no entity of a piece reaches out of the piece or covers anything
\* that an entity of its kind did not cover in the post, unless the library has taken
\* delimiters of the text for markup; and a link that fits arrives whole in any case.
MarksKept ==
    /\ \A i \in 1..Len(read) : Seen(i).eaten = {} => \A m \in Seen(i).marks :
          LET p == read[i] IN
          /\ p.head <= m.off /\ m.off + m.len <= p.head + Units(link.words, p.lo, p.hi)
          /\ \E n \in link.words.marks :
                 /\ n.kind = m.kind
                 /\ n.off <= Origin(p, m) /\ Origin(p, m) + m.len <= n.off + n.len
    /\ WordsSent /\ ~plain =>
          \A m \in {x \in link.words.marks : Plainly(link.words, x)} :
              \E i \in 1..Len(read) : \E n \in Seen(i).marks :
                  n.kind = "link" /\ n.len = m.len /\ Origin(read[i], n) = m.off

\* Nothing of the words and of their entities is lost or invented where a text is cut, nor
\* on the way but for literal markup where the library reads it.
WordsKept == TextKept /\ MarksKept

\* send_text_message: "Auto-splits for 4096 char limit while preserving entities".
EntitiesPreserved ==
    WordsSent /\ ~plain /\ IsText /\ Private =>
        \A m \in link.words.marks :
            \E i \in 1..Len(read) : \E n \in Seen(i).marks : n.kind = m.kind

\* SmartRenderer, "MODE B - ENTITY-SAFE": "Required when ANY condition is true: [...] Caption
\* for media [...] Reconstructed from msg.text + msg.entities"; send_comment_to_user: "use
\* MessageEntity (NO MARKDOWN)".
NothingEaten == \A i \in 1..Len(read) : Seen(i).eaten = {}

\* caption_splitter: "each <= 4096 UTF-16 units"; and render_chunks.
PiecesFit == \A i \in 1..Len(out) :
                 ~plain => out[i].head + Units(link.words, out[i].lo, out[i].hi) <= MessageLimit

\* download_album_photos: "True if all photos downloaded successfully".
AlbumsWhole ==
    Private => \A p \in processed, q \in Posts \ link.gone :
                   SameAlbum(p, q) /\ AlbumOf(p) \notin blurred => got[q] > 0

\* BatchController: five errors in a row and the batch is stopped.
StopsAfterErrors == pc = "head" => errs < ErrorLimit

\* BatchController's usage: "finally: batch.finish()".
FinishesBatch == pc = "done" => ~active

\* A photo album that counts as sent has reached the user in part, at least.
Hollow == \A p \in processed : \E q \in Posts : SameAlbum(p, q) /\ got[q] > 0
=============================================================================
