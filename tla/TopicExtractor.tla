---------------------------- MODULE TopicExtractor ----------------------------
(***************************************************************************)
(* core/topic_extractor.py and core/topic_cache.py: the messages of a      *)
(* forum topic, all of them (/group) or those between two anchors (a link  *)
(* with a range), fetched page by page from Telegram and remembered for    *)
(* the next request of anybody.                                            *)
(*                                                                         *)
(* A message is the number of its place in time; Id gives its message ID,  *)
(* which need not grow with it.  What a scan has found is kept as a set,   *)
(* since _collect_all sorts it by date in the end.  An action ends where   *)
(* the code awaits an answer of Telegram.                                  *)
(***************************************************************************)
EXTENDS Integers, Sequences, FiniteSets, Functions

CONSTANTS Requests,   \* handlers that use the extractor, one request each
          Wants,      \* what they may ask for: All, or a pair of anchors
          All,
          Latest,     \* bound: the last message to arrive
          Foreign,    \* messages of other topics
          Id,
          PageLimit,  \* _page_limit()
          MaxSpan,    \* _DIRECT_RANGE_MAX_SPAN
          Present,    \* bound: messages that are there at the start
          Blindnesses,\* what Search may leave out
          DeleteLimit \* bound: messages that are deleted

Messages == 1..Latest
Root     == 1          \* the message that opened the topic
InTopic  == Messages \ Foreign

ASSUME TopicAssumption ==
    /\ Latest \in Nat \ {0} /\ PageLimit \in Nat \ {0}
    /\ {MaxSpan, Present, DeleteLimit} \subseteq Nat /\ Present <= Latest
    /\ Foreign \subseteq Messages \ {Root}
    /\ Id \in [Messages -> Nat] /\ \A m, n \in Messages : Id[m] = Id[n] => m = n
    /\ Wants \subseteq {All} \cup (Messages \X Messages)
    /\ Blindnesses \subseteq SUBSET Messages

VARIABLES
    arrived,  \* the messages 1..arrived have been sent
    deleted,
    blind,    \* messages that Search does not find
    cache,    \* the entry of the topic in topic_cache
    pc,       \* where each request is
    want,
    ex,       \* the TopicExtractor of each request
    result,   \* what it has returned
    there,    \* history: messages that were there all the time of a request
    slid,     \* history: a message went while Search counted pages
    served    \* history: requests that the cache answered, or its boundary cut short

chatVars    == <<arrived, deleted, blind>>
historyVars == <<there, slid, served>>
topicVars   == <<chatVars, cache, pc, want, ex, result, historyVars>>

NoEntry == [known |-> <<>>, last |-> 0, full |-> FALSE]

\* entry, search, replies and hit are the fields _cache_entry, _raw_search_supported,
\* _raw_replies_supported and _hit_cache_boundary; list is all_msgs.  The others are the
\* locals of _collect_all: all it has seen and what it has fetched itself, whether the
\* last message of the cache ends the scan, and the position of the next page.
NewExtractor(e) ==
    [entry |-> e, search |-> "untried", replies |-> "untried", hit |-> FALSE, list |-> <<>>,
     seen |-> {}, fresh |-> {}, bounded |-> FALSE, offset |-> 0, before |-> 0, first |-> TRUE]
NewScan(x) == [x EXCEPT !.seen = {}, !.fresh = {}, !.bounded = FALSE,
                        !.offset = 0, !.before = 0, !.first = TRUE]

Existing == (1..arrived) \ deleted
Topic    == Existing \cap InTopic

Anchors(w) == IF w = All THEN {} ELSE {w[1], w[2]}
Elems(s)   == {s[i] : i \in DOMAIN s}

\* The numbers of S upwards and downwards, and the elements of s that are in S.
ByDate(S)  == [i \in 1..Cardinality(S) |-> CHOOSE m \in S : Cardinality({n \in S : n <= m}) = i]
Newest(S)  == [i \in 1..Cardinality(S) |-> CHOOSE m \in S : Cardinality({n \in S : n >= m}) = i]
Only(s, S) == LET places == ByDate({i \in DOMAIN s : s[i] \in S})
              IN  [k \in DOMAIN places |-> s[places[k]]]
FirstOf(s, n) == SubSeq(s, 1, IF n < Len(s) THEN n ELSE Len(s))

TopicInit ==
    /\ arrived = Present /\ deleted = {} /\ blind \in Blindnesses
    /\ cache = NoEntry
    /\ pc = [r \in Requests |-> "idle"]
    /\ want = [r \in Requests |-> All]
    /\ ex = [r \in Requests |-> NewExtractor(NoEntry)]
    /\ result = [r \in Requests |-> <<>>]
    /\ there = [r \in Requests |-> {}] /\ slid = FALSE /\ served = {}

At(r, place)   == pc[r] = place
Active(r)      == pc[r] \notin {"idle", "done", "failed"}
Goto(r, place) == pc' = [pc EXCEPT ![r] = place]
Put(r, x)      == ex' = [ex EXCEPT ![r] = x]

-----------------------------------------------------------------------------
(* _collect_all.                                                           *)

\* Its first lines: the anchors are in the cache, or the cache is a complete list
\* to go on from, or neither.
Beyond(e) == IF e.full /\ e.last # 0 THEN "prefix" ELSE "page"
Opening(w, e) == IF w # All /\ Anchors(w) \subseteq Elems(e.known) THEN "serve" ELSE Beyond(e)

Begin(r, w) ==
    /\ At(r, "idle")
    /\ want' = [want EXCEPT ![r] = w]
    /\ Put(r, NewExtractor(cache))
    /\ Goto(r, Opening(w, cache))
    /\ there' = [there EXCEPT ![r] = Topic]
    /\ UNCHANGED <<chatVars, cache, result, slid, served>>

\* _hydrate_cached_ids: the messages are fetched, and come in the order of the cache.
Hydrated(e) == Only(e.known, Topic)

\* If the anchors are still there, the whole cached list is the answer.
Serve(r) ==
    /\ At(r, "serve")
    /\ IF Anchors(want[r]) \subseteq Elems(Hydrated(ex[r].entry))
       THEN /\ Put(r, [ex[r] EXCEPT !.list = Hydrated(ex[r].entry)])
            /\ served' = served \cup {r} /\ Goto(r, "between")
       ELSE Goto(r, Beyond(ex[r].entry)) /\ UNCHANGED <<ex, served>>
    /\ UNCHANGED <<chatVars, cache, want, result, there, slid>>

Prefix(r) ==
    /\ At(r, "prefix") /\ Goto(r, "page")
    /\ Put(r, [ex[r] EXCEPT !.seen = Elems(Hydrated(ex[r].entry)), !.bounded = TRUE])
    /\ UNCHANGED <<chatVars, cache, want, result, historyVars>>

\* What Telegram answers, newest first: Search counts from the newest message on,
\* GetReplies goes on behind a message.  Neither gives the root.
SearchPage(x) ==
    LET found == Newest(Topic \ (blind \cup {Root}))
    IN  FirstOf(SubSeq(found, x.offset + 1, Len(found)), PageLimit)
RepliesPage(x) ==
    FirstOf(Newest({m \in Topic \ {Root} : x.before = 0 \/ m < x.before}), PageLimit)

\* Fault: any message of the cache ends the scan, not its last one.
UpToAny(x, page) == Only(page, Messages \ Elems(x.entry.known))

\* The part of a page in front of the last message of the cache.
UpToBoundary(x, page) ==
    IF x.bounded /\ \E i \in DOMAIN page : page[i] = x.entry.last
    THEN SubSeq(page, 1, (CHOOSE i \in DOMAIN page : page[i] = x.entry.last) - 1)
    ELSE page

\* A page is taken in, and the loop goes on, or not.
TakePage(r, x, page, byOffset) ==
    LET part == UpToBoundary(x, page)
        new  == Elems(part) \ x.seen
        y    == [x EXCEPT !.seen = @ \cup new, !.fresh = @ \cup new, !.first = FALSE,
                          !.hit = @ \/ part # page]
        over == \/ page = <<>> \/ y.hit \/ Len(page) < PageLimit
                \/ want[r] # All /\ Anchors(want[r]) \subseteq y.fresh
    IN  /\ Put(r, IF over THEN y
                  ELSE IF byOffset THEN [y EXCEPT !.offset = @ + Len(page)]
                  ELSE [y EXCEPT !.before = page[Len(page)]])
        /\ served' = IF x.hit THEN served \cup {r} ELSE served
        /\ Goto(r, IF over THEN "root" ELSE "page")
        /\ UNCHANGED <<chatVars, cache, want, result, there, slid>>

BySearch(r) ==
    /\ At(r, "page") /\ ex[r].search # "broken"
    /\ ~(SearchPage(ex[r]) = <<>> /\ ex[r].first)
    /\ TakePage(r, [ex[r] EXCEPT !.search = "used"], SearchPage(ex[r]), TRUE)

\* Search raises an error, or finds nothing at all: the next page comes from GetReplies.
SearchBreaks(r) ==
    /\ At(r, "page") /\ ex[r].search # "broken"
    /\ Put(r, [ex[r] EXCEPT !.search = "broken"])
    /\ UNCHANGED <<chatVars, cache, pc, want, result, historyVars>>

ByReplies(r) ==
    /\ At(r, "page") /\ ex[r].search = "broken"
    /\ TakePage(r, [ex[r] EXCEPT !.replies = "used"], RepliesPage(ex[r]), FALSE)

End(r, place, s) ==
    /\ Goto(r, place)
    /\ result' = [result EXCEPT ![r] = s]
    /\ Put(r, NewExtractor(NoEntry))

\* An error of a fetch by ID ends the request, and one of GetReplies, behind which there is
\* nothing to fall back on; a flood wait is such an error there, as it is one of Search
\* (SearchBreaks).
Fails(r) ==
    /\ \/ pc[r] \in {"serve", "prefix", "root", "anchors", "probe"}
       \/ At(r, "page") /\ ex[r].search = "broken"
    /\ End(r, "failed", <<>>)
    /\ UNCHANGED <<chatVars, cache, want, historyVars>>

\* Fault: a scan that stopped at its anchors passes for a complete one.
MergedAsFull(e, found, full) ==
    LET known == e.known \o Only(found, Messages \ Elems(e.known))
    IN  IF found = <<>> THEN e ELSE [known |-> known, last |-> known[Len(known)], full |-> TRUE]

\* _store_cache: what is new goes behind what the request found in the cache when it
\* began; what others have written in the meantime is overwritten.
Merged(e, found, full) ==
    LET known == e.known \o Only(found, Messages \ Elems(e.known))
    IN  IF found = <<>> THEN e ELSE [known |-> known, last |-> known[Len(known)], full |-> full]

StoreCache(e, found) == cache' = IF found = <<>> THEN cache ELSE e

\* The root is looked up unless it has been found; the lookups may fail.  Then
\* everything is sorted and stored.
Collected(r) ==
    /\ At(r, "root")
    /\ \E all \in {ex[r].seen, ex[r].seen \cup ({Root} \cap Existing)} :
           LET e == Merged(ex[r].entry, ByDate(all), want[r] = All)
           IN  /\ StoreCache(e, ByDate(all))
               /\ IF want[r] = All THEN End(r, "done", ByDate(all))
                  ELSE /\ Goto(r, "between") /\ UNCHANGED result
                       /\ Put(r, NewScan([ex[r] EXCEPT !.entry = e, !.list = ByDate(all)]))
    /\ UNCHANGED <<chatVars, want, historyVars>>

-----------------------------------------------------------------------------
(* extract_between.                                                        *)

Missing(r) == Anchors(want[r]) \ Elems(ex[r].list)

Place(s, m) == CHOOSE i \in DOMAIN s : s[i] = m

InIdRange(w, m) == \/ Id[w[1]] <= Id[m] /\ Id[m] <= Id[w[2]]
                   \/ Id[w[2]] <= Id[m] /\ Id[m] <= Id[w[1]]
Span(w) == {m \in Messages : InIdRange(w, m)}

\* The slice between the anchors, whichever comes first; if one could not be found,
\* what lies between their IDs.
Slice(s, w) ==
    IF ~(Anchors(w) \subseteq Elems(s)) THEN Only(s, Span(w))
    ELSE LET i == Place(s, w[1]) j == Place(s, w[2])
         IN  IF i <= j THEN SubSeq(s, i, j) ELSE SubSeq(s, j, i)

\* Both anchors are in the list; or Search may have missed them, and everything is
\* fetched once more with GetReplies; or they are fetched by their IDs.
Between(r) ==
    /\ At(r, "between")
    /\ IF Missing(r) = {} THEN End(r, "done", Slice(ex[r].list, want[r]))
       ELSE /\ IF ex[r].search = "used" /\ ex[r].replies = "untried"
               THEN /\ Goto(r, Opening(want[r], ex[r].entry))
                    /\ Put(r, [ex[r] EXCEPT !.search = "broken"])
               ELSE Goto(r, "anchors") /\ UNCHANGED ex
            /\ UNCHANGED result
    /\ UNCHANGED <<chatVars, cache, want, historyVars>>

\* Fault: an ID is fetched and not looked at.
BelongsUnchecked(S) == S \cap Existing

\* _is_topic_message, of messages fetched by their IDs.
Belongs(S) == S \cap Topic

\* What has been recovered joins the list, and the cache; the fetch may also fail.
Recovered(r, ids) ==
    IF Belongs(ids) \subseteq Elems(ex[r].list) THEN ex[r].list
    ELSE ByDate(Elems(ex[r].list) \cup Belongs(ids))
Kept(r, all)     == IF all = ex[r].list THEN ex[r].entry ELSE Merged(ex[r].entry, all, FALSE)
CacheKept(r, all) == StoreCache(Kept(r, all), IF all = ex[r].list THEN <<>> ELSE all)

\* _hydrate_missing_anchor_ids.
FetchAnchors(r) ==
    /\ At(r, "anchors") /\ Goto(r, "probe")
    /\ \E ids \in {{}, Missing(r)} :
           /\ CacheKept(r, Recovered(r, ids))
           /\ Put(r, [ex[r] EXCEPT !.list = Recovered(r, ids), !.entry = Kept(r, Recovered(r, ids))])
    /\ UNCHANGED <<chatVars, want, result, historyVars>>

\* _direct_id_range_fallback fetches the IDs between the anchors, unless both have
\* been found or the span is too large.
ToProbe(r) == /\ Missing(r) # {}
              /\ Id[want[r][1]] - Id[want[r][2]] \in -(MaxSpan - 1)..(MaxSpan - 1)
Probe(r) ==
    /\ At(r, "probe")
    /\ \E ids \in IF ToProbe(r) THEN {{}, Span(want[r])} ELSE {{}} :
           /\ CacheKept(r, Recovered(r, ids))
           /\ End(r, "done", Slice(Recovered(r, ids), want[r]))
    /\ UNCHANGED <<chatVars, want, historyVars>>

-----------------------------------------------------------------------------
(* The chat.                                                               *)

Arrive ==
    /\ arrived < Latest /\ arrived' = arrived + 1
    /\ UNCHANGED <<deleted, blind, cache, pc, want, ex, result, historyVars>>

Delete(m) ==
    /\ m \in Existing /\ Cardinality(deleted) < DeleteLimit
    /\ deleted' = deleted \cup {m}
    /\ there' = [r \in Requests |-> IF Active(r) THEN there[r] \ {m} ELSE there[r]]
    /\ slid' = (slid \/ \E r \in Requests : At(r, "page") /\ ex[r].offset > 0)
    /\ UNCHANGED <<arrived, blind, cache, pc, want, ex, result, served>>

Extract(r) ==
    \/ Serve(r) \/ Prefix(r) \/ BySearch(r) \/ SearchBreaks(r) \/ ByReplies(r) \/ Collected(r)
    \/ Between(r) \/ FetchAnchors(r) \/ Probe(r) \/ Fails(r)

TopicNext ==
    \/ \E r \in Requests, w \in Wants : Begin(r, w)
    \/ \E r \in Requests : Extract(r)
    \/ Arrive
    \/ \E m \in Messages : Delete(m)

TopicSpec == TopicInit /\ [][TopicNext]_topicVars

-----------------------------------------------------------------------------
(* Properties.                                                             *)

\* The type invariant: lists and the cache hold each message at most once, a complete
\* cache is not empty, and its last message is one it knows.
TypeOfEntry(e) ==
    /\ IsInjective(e.known) /\ Elems(e.known) \subseteq Messages /\ e.full \in BOOLEAN
    /\ IF e.known = <<>> THEN e.last = 0 /\ ~e.full ELSE e.last \in Elems(e.known)

TopicTypeOK ==
    /\ arrived \in Present..Latest /\ deleted \subseteq Messages /\ blind \in Blindnesses
    /\ TypeOfEntry(cache) /\ slid \in BOOLEAN /\ served \subseteq Requests
    /\ pc \in [Requests -> {"idle", "serve", "prefix", "page", "root", "between",
                            "anchors", "probe", "done", "failed"}]
    /\ want \in [Requests -> Wants \cup {All}]
    /\ \A r \in Requests :
          /\ TypeOfEntry(ex[r].entry) /\ ex[r].hit \in BOOLEAN
          /\ ex[r].search \in {"untried", "used", "broken"} /\ ex[r].replies \in {"untried", "used"}
          /\ ex[r].fresh \subseteq ex[r].seen /\ ex[r].seen \subseteq Messages
          /\ \A s \in {ex[r].list, result[r]} : IsInjective(s) /\ Elems(s) \subseteq Messages

\* "Only messages belonging to the target topic" (topic_extractor.py:7): neither a
\* result nor the cache holds a message of another topic, whichever of the four ways
\* of fetching it was used.
OnlyTopic ==
    /\ Elems(cache.known) \subseteq InTopic
    /\ \A r \in Requests : Elems(result[r]) \subseteq InTopic

Within(w) == {m \in Messages : \/ w = All
                               \/ w[1] <= m /\ m <= w[2]
                               \/ w[2] <= m /\ m <= w[1]}

\* What a request must return: what it wants of the messages that were there from its
\* beginning to its end, but for the root, whose lookup may fail, and for what Search
\* does not find.
Due(r) == (there[r] \ (blind \cup {Root})) \cap Within(want[r])

Answered(r) == At(r, "done") /\ Anchors(want[r]) \subseteq Elems(result[r])

\* A request that scans the topic returns all of it, or all between its anchors and
\* nothing else, oldest first: pages that shift while messages arrive, a change from
\* Search to GetReplies, the cached part and other requests that write the cache in
\* the meantime leave no hole.  Not so once a message has vanished while Search counted
\* its pages, nor (RangeExact) when the cache answers or its boundary ends a second scan.
ScanExact ==
    ~slid => \A r \in Requests : Answered(r) /\ r \notin served =>
        /\ Due(r) \subseteq Elems(result[r])
        /\ Elems(result[r]) \subseteq Within(want[r])
        /\ result[r] = ByDate(Elems(result[r]))

\* A request returns what it asks for and nothing of another topic.
TopicExact == OnlyTopic /\ ScanExact

\* What is recorded as a complete list is one: a message that is not in it is newer
\* than the message at which the next scan will stop, or could not be found.
CacheTruth ==
    cache.full /\ ~slid =>
        \A m \in Topic \ (blind \cup {Root} \cup Elems(cache.known)) : m > cache.last

\* What a request returns, and what it leaves for the next, is what the topic holds.
TopicSound == TopicExact /\ CacheTruth

\* extract_between returns "the chronological topic slice between two anchor message
\* IDs" (topic_extractor.py:695): nothing outside it, and all of it.
RangeExact ==
    ~slid => \A r \in Requests : Answered(r) /\ want[r] # All =>
        Elems(result[r]) \subseteq Within(want[r])
RangeWhole ==
    ~slid => \A r \in Requests : Answered(r) /\ want[r] # All => Due(r) \subseteq Elems(result[r])
=============================================================================
