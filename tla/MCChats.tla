------------------------------- MODULE MCChats -------------------------------
(***************************************************************************)
(* What the bot does with whole chats: the messages of a topic, the posts  *)
(* of a monitored channel, the log of the private conversations, and a     *)
(* broadcast to everybody.  The four share no state: a behaviour works on  *)
(* one of them and leaves the others alone.                                *)
(***************************************************************************)
EXTENDS TopicExtractor, ChannelForward, ChatLog, Broadcast

CONSTANTS r1, r2, r3

\* The third message belongs to another topic and its ID lies between those of the next
\* two, of which Search misses one.
MCId    == <<1, 2, 4, 3, 5>>
MCWants == {All, <<5, 4>>}
MCRanges == {<<5, 4>>, <<2, 2>>, <<5, 2>>}
MCBlindnesses == {{4}}

\* The requests are alike: r1 is the first to begin.
InTurn == \A r \in Requests : pc'[r] # "idle" => pc'[r1] # "idle"

-----------------------------------------------------------------------------
\* An album of photos, a text, an album of photos and videos, a video.
MCGroup  == <<1, 1, 3, 4, 4, 6>>
MCFormOf == <<"photo", "photo", "text", "mixed", "mixed", "single">>
Forwarding(ps, o, t, r) == [posts |-> ps, orders |-> o, troubles |-> t, restarts |-> r]
MCForwardCases == {Forwarding({}, 0, 0, 0), Forwarding({1, 2, 3}, 0, 3, 0), Forwarding({4, 5, 6}, 0, 3, 0),
                   Forwarding({1, 2, 3}, 1, 1, 0), Forwarding({3, 6}, 1, 2, 1),
                   Forwarding({1, 2}, 0, 1, 1), Forwarding({4, 5}, 0, 1, 1)}

-----------------------------------------------------------------------------
CONSTANTS a, b, hello, setup, code, link, work, other, p1, p2, cmd,
          setB, off, on, remove, reset, tA, tB

MCChatOf  == [m \in Letters |-> IF m \in {other, p1, p2} THEN b ELSE a]
MCKindOf  == [m \in Letters |->
                 CASE m \in {hello, code, other} -> "text" [] m = setup -> "login" [] m = link -> "link"
                   [] m = cmd -> "command" [] m = work -> "status" [] m \in {p1, p2} -> "media"]
MCAlbumOf == [m \in Letters |-> IF m \in {p1, p2} THEN "album" ELSE NoAlbum]
MCOrderOf == [k \in Orders |-> CASE k = setB -> tB [] k = off -> "off" [] k = on -> "on"
                                 [] k = remove -> "remove" [] k = reset -> "reset"]
Logging(l, o, n, f) == [letters |-> l, orders |-> o, launches |-> n, faults |-> f]
MCLogCases ==
    {Logging({}, {}, 0, 0), Logging({hello, other}, {}, 1, 2), Logging({p1, p2}, {}, 1, 1),
     Logging({hello}, {off}, 1, 1), Logging({hello}, {setB}, 1, 1), Logging({setup, code}, {off}, 1, 0),
     Logging({setup, code, link}, {}, 1, 0), Logging({work, cmd, other}, {}, 1, 0),
     Logging({}, {remove, on}, 1, 0), Logging({}, {setB}, 2, 3), Logging({}, {setB, reset}, 2, 2)}

-----------------------------------------------------------------------------
CONSTANTS u1, u2, u3

MCRows == <<u1, u2, u1, u3>>
Casting(j, s, n, e) == [jobs |-> j, stops |-> s, bans |-> n, errors |-> e]
MCCastCases == {Casting(0, 0, 0, 0), Casting(1, 1, 1, 2), Casting(1, 0, 0, 3), Casting(2, 1, 0, 1)}

-----------------------------------------------------------------------------
VARIABLE part
chatsVars == <<part, topicVars, forwardVars, logVars, castVars>>

ChatsInit ==
    /\ part \in {"topic", "forward", "log", "cast"}
    /\ TopicInit /\ ForwardInit /\ LogInit /\ CastInit
    /\ part # "forward" <=> budget.troubles = 0
    /\ part # "log"     <=> boots = 0
    /\ part # "cast"    <=> quota.jobs = 0
    /\ part # "cast"     => barred = {}

ChatsNext ==
    /\ UNCHANGED part
    /\ \/ part = "topic"   /\ TopicNext   /\ InTurn /\ UNCHANGED <<forwardVars, logVars, castVars>>
       \/ part = "forward" /\ ForwardNext /\ UNCHANGED <<topicVars, logVars, castVars>>
       \/ part = "log"     /\ LogNext     /\ UNCHANGED <<topicVars, forwardVars, castVars>>
       \/ part = "cast"    /\ CastNext    /\ UNCHANGED <<topicVars, forwardVars, logVars>>

ChatsSpec == ChatsInit /\ [][ChatsNext]_chatsVars /\ ForwardFairness /\ LogFairness /\ CastFairness

\* The handler of every post, every /logchannel and every broadcast comes to its end.
WorkEnds == ForwardEnds /\ OrdersEnd /\ CastEnds
=============================================================================
