----------------------------- MODULE MCPostWalk ------------------------------
EXTENDS PostWalk

Link(mode, ids, album, photos, gone, outside) ==
    [mode |-> mode, ids |-> ids, album |-> album, photos |-> photos, gone |-> gone,
     outside |-> outside, words |-> NoWords, captioned |-> FALSE]

\* Albums at the start, at the end and around a post of its own; an album the link begins
\* or ends in the middle of; albums of photos and mixed ones; deleted members; posts of
\* other topics and threads; ids in the order of the topic, which need not be theirs.
MCRanges ==
    {Link("private", <<1, 2, 3, 4, 5>>, <<1, 0, 1, 0, 0>>, {1}, {}, {}),
     Link("private", <<1, 2, 3, 4, 5>>, <<1, 1, 0, 2, 2>>, {1}, {3}, {}),
     Link("private", <<2, 3, 4>>, <<1, 1, 1, 0, 0>>, {1}, {}, {}),
     Link("private", <<1, 2, 3, 4>>, <<0, 0, 1, 1, 1>>, {1}, {}, {}),
     Link("topic", <<3, 1, 2, 4>>, <<1, 1, 0, 0, 0>>, {1}, {}, {4}),
     Link("topic", <<1, 2, 3, 4, 5>>, <<1, 1, 2, 0, 2>>, {1}, {4}, {}),
     Link("topic", <<1, 2, 3, 4>>, <<1, 0, 1, 1, 0>>, {1}, {}, {}),
     Link("comments", <<4, 3, 2, 1>>, <<1, 1, 2, 2, 0>>, {1}, {}, {}),
     Link("comments", <<1, 2, 3, 4, 5>>, <<1, 0, 1, 0, 0>>, {1}, {2}, {4})}

\* Texts of letters and blanks, and short ones of everything, with no entity or one; texts of
\* letters with a link and a style that meet, overlap or enclose each other, or with an
\* entity of another kind; and letters with two delimiters around them, and a style.
Trimmed(s) == \A k \in {1, Len(s)} : s[k] \notin {"blank", "line"}
Strings == {s \in UNION {[1..n -> {"letter", "blank"}] : n \in 1..6}
                  \cup UNION {[1..n -> Characters \ {"tick"}] : n \in 1..3}
                  \cup UNION {[1..n -> {"letter", "wide", "tick"}] : n \in 1..3} : Trimmed(s)}
Mark(kind, s, a, b) ==
    LET u(k) == k + Cardinality({i \in 1..k : s[i] = "wide"})
    IN [kind |-> kind, off |-> u(a), len |-> u(b) - u(a)]
MarksFor(s) == {Mark(k, s, a, b) :
                   k \in {"link", "style"}, a \in 0..Len(s) - 1, b \in 1..Len(s)}
Good(s) == {m \in MarksFor(s) : m.len > 0}
Letters == [k \in 1..4 |-> "letter"]
MCTexts == UNION {{[chars |-> s, marks |-> {}]}
                  \cup {[chars |-> s, marks |-> {m}] : m \in Good(s)} : s \in Strings}
           \cup {[chars |-> Letters, marks |-> {m, n}] :
                    m \in {x \in Good(Letters) : x.kind = "link"},
                    n \in {x \in Good(Letters) : x.kind = "style"}}
           \cup {[chars |-> s, marks |-> {Mark(k, s, 0, 1)}] :
                    k \in {"emoji", "spoiler", "underline"},
                    s \in {[i \in 1..n |-> "letter"] : n \in 1..6}}
           \cup {[chars |-> s, marks |-> M] :
                    s \in {<<"tick", "letter", "tick", "letter">>, <<"tick", "letter", "letter", "tick">>,
                           <<"letter", "tick", "letter", "letter", "tick">>},
                    M \in {{}} \cup {{m} : m \in Good(Letters)}}

\* A post with such a text or caption, and an album.
Post(mode, ids, album, t, captioned) ==
    [Link(mode, ids, album, {1}, {}, {}) EXCEPT !.words = t, !.captioned = captioned]
MCPosts ==
    UNION {{Post("private", <<1>>, <<0, 0, 0, 0, 0>>, t, FALSE),
            Post("topic", <<1>>, <<0, 0, 0, 0, 0>>, t, FALSE),
            Post("comments", <<1>>, <<0, 0, 0, 0, 0>>, t, FALSE),
            Post("private", <<1>>, <<0, 0, 0, 0, 0>>, t, TRUE),
            Post("private", <<1, 2>>, <<1, 1, 0, 0, 0>>, t, TRUE)} : t \in MCTexts}

MCLinks == MCRanges \cup MCPosts
=============================================================================
