-------------------------------- MODULE Texts --------------------------------
(***************************************************************************)
(* Texts and captions of posts and the three ways in which they are cut to *)
(* the length that Telegram takes: TextRenderer (core/text_renderer.py),   *)
(* SmartRenderer (core/smart_renderer.py) and split_caption                *)
(* (core/caption_splitter.py).                                             *)
(*                                                                         *)
(* Telegram counts UTF-16 units, Python characters: a character outside    *)
(* the basic plane, "wide", is two units.  Slices are given by character   *)
(* indices, as in Python: lo..hi-1, counted from 0; marks (entities), the  *)
(* limits and the header by units.                                         *)
(***************************************************************************)
EXTENDS Integers, FiniteSets, Sequences, SequencesExt

CONSTANTS MessageLimit,  \* MAX_MESSAGE_LENGTH, MESSAGE_LIMIT
          CaptionLimit,  \* CAPTION_LIMIT
          HeaderLength,  \* units of "Davomi n/m" and of "[Caption continued]"
          MarkdownLimit, CaptionMarkdownLimit, \* MARKDOWN_SAFE_LIMIT, CAPTION_MARKDOWN_LIMIT
          ComplexLimit   \* the 2000 units of _detect_mode

ASSUME TextsAssumption ==
    /\ {MessageLimit, CaptionLimit} \subseteq Nat \ {0, 1}
    /\ HeaderLength \in 1..MessageLimit - 1 /\ HeaderLength + CaptionLimit <= MessageLimit
    /\ {MarkdownLimit, CaptionMarkdownLimit, ComplexLimit} \subseteq Nat
    /\ MarkdownLimit <= MessageLimit /\ CaptionMarkdownLimit <= CaptionLimit

\* A "tick" stands for any delimiter of the markup that the library reads: ** __ ` and so on.
Characters == {"letter", "blank", "line", "wide", "tick"}

\* "style": bold, italic, code, strikethrough; "spoiler": a block of code, too.
MarkKinds  == {"link", "style", "spoiler", "underline", "emoji"}

\* What is sent: a slice of the text, the units of a header before it, and its entities.
PieceType == [lo : Nat, hi : Nat, head : {0, HeaderLength},
              marks : SUBSET [kind : MarkKinds, off : Nat, len : Nat]]

Size(t)    == Len(t.chars)
Char(t, k) == t.chars[k + 1]
IsSpace(t, k) == Char(t, k) \in {"blank", "line"}

\* utf16_len of a slice
Units(t, lo, hi) == hi - lo + Cardinality({k \in lo..hi - 1 : Char(t, k) = "wide"})

\* A text and its entities, as Telegram has them: it is trimmed, entities begin and end at
\* characters, and no two links overlap.
TextType ==
    {t \in [chars : Seq(Characters), marks : SUBSET [kind : MarkKinds, off : Nat, len : Nat \ {0}]] :
        /\ Size(t) > 0 => ~IsSpace(t, 0) /\ ~IsSpace(t, Size(t) - 1)
        /\ \A m \in t.marks : {m.off, m.off + m.len} \subseteq {Units(t, 0, k) : k \in 0..Size(t)}
        /\ \A m, n \in {x \in t.marks : x.kind = "link"} :
               m = n \/ m.off + m.len <= n.off \/ n.off + n.len <= m.off}

\* utf16_to_char_index: behind a character that the offset lies within.
IndexUp(t, lo, u) ==
    IF Units(t, lo, Size(t)) < u THEN Size(t)
    ELSE CHOOSE k \in lo..Size(t) : /\ Units(t, lo, k) >= u
                                    /\ \A j \in lo..k - 1 : Units(t, lo, j) < u

\* utf16_offset_to_index: before it.
IndexDown(t, lo, hi, u) ==
    CHOOSE k \in lo..hi : /\ Units(t, lo, k) <= u
                          /\ \A j \in k + 1..hi : Units(t, lo, j) > u

\* Fault: the character behind a cut is taken for the blank.
SkipsOne(t, lo, hi) == IF lo < hi THEN lo + 1 ELSE hi

\* rstrip and lstrip: the end and the beginning of what is left.
StripRight(t, lo, hi) == CHOOSE k \in lo..hi : /\ \A j \in k..hi - 1 : IsSpace(t, j)
                                               /\ k > lo => ~IsSpace(t, k - 1)
StripLeft(t, lo, hi) == CHOOSE k \in lo..hi : /\ \A j \in lo..k - 1 : IsSpace(t, j)
                                              /\ k < hi => ~IsSpace(t, k)

\* rfind: the last place of a separator in the slice, lo - 1 if there is none.
Found(t, sep, lo, hi) ==
    LET places == {k \in lo..hi - Len(sep) : \A i \in 1..Len(sep) : Char(t, k + i - 1) = sep[i]}
    IN CHOOSE k \in places \cup {lo - 1} : \A j \in places : j <= k

-----------------------------------------------------------------------------
(* Taking a text apart                                                     *)

\* From a place on: at each place a step says what is made of the text there, and where
\* the next one begins.
Cut(size, start, step) ==
    LET from[lo \in 0..size] == IF lo = size THEN <<>> ELSE step[lo].part \o from[step[lo].next]
    IN from[start]

Step(part, next) == [part |-> part, next |-> next]

\* extract_to_renderer, from_text_and_entities: the entities sorted by offset, longer ones
\* first; those that begin inside an earlier one are skipped.
Earlier(m, n) == m.off < n.off \/ (m.off = n.off /\ m.len > n.len)

Upcoming(t, pos) == {m \in t.marks : /\ m.len > 0 /\ m.off + m.len <= Units(t, 0, Size(t))
                                  /\ IndexUp(t, 0, m.off) >= pos}

SegmentFrom(t, pos) ==
    LET ahead == Upcoming(t, pos)
        m     == CHOOSE m \in ahead : \A n \in ahead : ~Earlier(n, m)
        begin == IndexUp(t, 0, m.off)
    IN IF ahead = {}      THEN [lo |-> pos, hi |-> Size(t), kind |-> "plain"]
       ELSE IF begin > pos THEN [lo |-> pos, hi |-> begin, kind |-> "plain"]
       ELSE [lo |-> pos, hi |-> IndexUp(t, 0, m.off + m.len), kind |-> m.kind]

Segments(t) ==
    ToSet(Cut(Size(t), 0, [pos \in 0..Size(t) - 1 |->
                              Step(<<SegmentFrom(t, pos)>>, SegmentFrom(t, pos).hi)]))

SegmentAt(segs, lo) == CHOOSE s \in segs : s.lo <= lo /\ lo < s.hi

\* render: the offsets of the entities are those of the segments in the piece.
PieceOf(t, segs, lo, hi, head) ==
    [lo |-> lo, hi |-> hi, head |-> head,
     marks |-> {[kind |-> s.kind, off |-> head + Units(t, lo, s.lo), len |-> Units(t, s.lo, s.hi)] :
                   s \in {x \in segs : x.kind # "plain" /\ lo <= x.lo /\ x.hi <= hi}}]

\* The ends of the segments that fit into a piece that begins here.
Fitting(t, segs, lo, head, limit) ==
    {s.hi : s \in {x \in segs : x.hi > lo /\ head + Units(t, lo, x.hi) <= limit}}

\* The segments fill one piece after the other; one that is too long is a piece of its own.
Fill(t, segs, lo, head) ==
    LET ends == Fitting(t, segs, lo, head, MessageLimit)
        hi   == IF ends = {} THEN SegmentAt(segs, lo).hi ELSE Max(ends)
    IN Step(<<PieceOf(t, segs, lo, hi, head)>>, hi)

-----------------------------------------------------------------------------
(* TextRenderer.render_chunks                                              *)

\* The last blank behind the middle of what fits, else the last line break there.
WordCut(t, lo, hi) ==
    LET most  == IndexDown(t, lo, hi, MessageLimit)
        half  == lo + (most - lo) \div 2
        blank == Found(t, <<"blank">>, lo, most)
        line  == Found(t, <<"line">>, lo, most)
    IN IF blank > half THEN blank ELSE IF line > half THEN line ELSE most

\* A plain segment too long for a message is cut at words, and what remains of it is the
\* first segment of a new piece.
CutWords(t, lo, hi) ==
    LET k   == WordCut(t, lo, hi)
        end == StripRight(t, lo, k)
    IN Step(IF end = lo THEN <<>> ELSE <<[lo |-> lo, hi |-> end, head |-> 0, marks |-> {}]>>,
            StripLeft(t, k, hi))

RenderWords(t) ==
    LET segs   == Segments(t)
        end(lo) == SegmentAt(segs, lo).hi
    IN Cut(Size(t), 0, [lo \in 0..Size(t) - 1 |->
           IF SegmentAt(segs, lo).kind = "plain" /\ Units(t, lo, end(lo)) > MessageLimit
           THEN CutWords(t, lo, end(lo))
           ELSE Fill(t, segs, lo, 0)])

-----------------------------------------------------------------------------
(* SmartRenderer: render_chunks, render_caption_chunks                     *)

\* _expand_segments: any segment too long is cut, whatever it is.  Custom emojis are plain.
CutHard(s, lo, hi) ==
    Step(<<[lo |-> lo, hi |-> hi, kind |-> IF s.kind = "emoji" THEN "plain" ELSE s.kind]>>, hi)

Expanded(t, limit) ==
    LET segs == Segments(t)
    IN ToSet(Cut(Size(t), 0, [lo \in 0..Size(t) - 1 |->
                 CutHard(SegmentAt(segs, lo), lo, IndexDown(t, lo, SegmentAt(segs, lo).hi, limit))]))

RenderSmart(t) ==
    LET segs == Expanded(t, MessageLimit)
    IN Cut(Size(t), 0, [lo \in 0..Size(t) - 1 |-> Fill(t, segs, lo, 0)])

\* The segments that fit go with the first photo, the rest into messages, the first of
\* which begins with a header.
SmartCaption(t) ==
    LET segs == Expanded(t, CaptionLimit)
        n    == Max(Fitting(t, segs, 0, 0, CaptionLimit))
        head(lo) == IF lo = n THEN HeaderLength ELSE 0
    IN <<PieceOf(t, segs, 0, n, 0)>>
       \o Cut(Size(t), n, [lo \in 0..Size(t) - 1 |-> Fill(t, segs, lo, head(lo))])

-----------------------------------------------------------------------------
(* split_caption                                                           *)

\* Fault: a link is cut like any other text.
NoLinks(t, lo) == {}

\* _hyperlink_ranges of _relativize_entities: the links that begin in what is left, their
\* offsets counted from there.
LinksFrom(t, lo) ==
    {[from |-> m.off - Units(t, 0, lo), to |-> m.off + m.len - Units(t, 0, lo)] :
        m \in {x \in t.marks : x.kind = "link" /\ x.off >= Units(t, 0, lo)}}

\* _find_safe_split: before a link that does not end in time; else behind the last break of
\* a paragraph, of a line, of a word in the second half; else where the limit is.
SafeSplit(t, lo, limit) ==
    LET links  == LinksFrom(t, lo)
        across == {l \in links : l.from < limit /\ limit <= l.to}
        inside(u) == \E l \in links : l.from < u /\ u < l.to
        after(sep) == LET k == Found(t, sep, lo, IndexUp(t, lo, limit)) IN
                      IF k <= lo THEN 0 ELSE Units(t, lo, k + Len(sep))
        good(sep) == after(sep) >= limit \div 2 /\ after(sep) > 0 /\ ~inside(after(sep))
    IN IF across # {}
       THEN LET l == CHOOSE l \in across : TRUE IN
            IF l.to = limit \/ l.from = 0 THEN limit ELSE l.from
       ELSE IF good(<<"line", "line">>) THEN after(<<"line", "line">>)
       ELSE IF good(<<"line">>) THEN after(<<"line">>)
       ELSE IF good(<<"blank">>) THEN after(<<"blank">>)
       ELSE limit

\* Fault: the entities keep the offsets they had in the whole caption.
OldOffset(t, m, lo) == m.off

\* new_offset
NewOffset(t, m, lo) == IF m.off > Units(t, 0, lo) THEN m.off - Units(t, 0, lo) ELSE 0

\* _reconstruct_entities_for_chunk: what of an entity lies in the slice; a link whole or not
\* at all; no custom emojis.
Rebuilt(t, lo, hi, head) ==
    LET from == Units(t, 0, lo)
        to   == Units(t, 0, hi)
        kept == {m \in t.marks : /\ m.off + m.len > from /\ m.off < to
                                 /\ m.kind # "emoji"
                                 /\ m.kind = "link" => from <= m.off /\ m.off + m.len <= to}
        end(m) == IF m.off + m.len < to THEN m.off + m.len - from ELSE to - from
    IN {[kind |-> m.kind, off |-> head + NewOffset(t, m, lo), len |-> end(m) - NewOffset(t, m, lo)] :
            m \in kept}

\* _split_text_into_chunks, and the headers of all pieces but the first.
CutCaption(t, lo) ==
    LET limit == IF lo = 0 THEN CaptionLimit ELSE MessageLimit
        head  == IF lo = 0 THEN 0 ELSE HeaderLength
        piece(hi) == [lo |-> lo, hi |-> hi, head |-> head, marks |-> Rebuilt(t, lo, hi, head)]
        k   == IndexUp(t, lo, SafeSplit(t, lo, limit))
        end == StripRight(t, lo, k)
    IN IF Units(t, lo, Size(t)) <= limit THEN Step(<<piece(Size(t))>>, Size(t))
       ELSE Step(IF end = lo THEN <<>> ELSE <<piece(end)>>, StripLeft(t, k, Size(t)))

SplitCaption(t) == Cut(Size(t), 0, [lo \in 0..Size(t) - 1 |-> CutCaption(t, lo)])

-----------------------------------------------------------------------------
(* Markup                                                                  *)

\* _detect_mode of a piece that is all of its text: what has no links and is short enough is
\* written with markup (underlines have none) in place of its entities.
AsMarkdown(t, p, safe, limit) ==
    LET total == Units(t, 0, Size(t)) IN
    /\ \A m \in p.marks : m.kind # "link"
    /\ total <= safe
    /\ Size(t) + 2 * Cardinality({m \in p.marks : m.kind # "underline"}) <= limit
    /\ (\E m \in p.marks : m.kind \in {"spoiler", "underline"}) => total <= ComplexLimit

Ticks(t, p) == {k \in p.lo..p.hi - 1 : Char(t, k) = "tick"}

\* to_markdown
Written(p) == {m \in p.marks : m.kind # "underline"}

\* External: the library pairs the delimiters as they come, those that to_markdown wrote and
\* those of the text.  One that is not the text's is 3 * place if it ends an entity, plus 1
\* if it begins one; one of the text is 3 * place + 2.
Paired(t, p) ==
    LET delimiters == {3 * Units(t, p.lo, k) + 2 : k \in Ticks(t, p)}
                      \cup {3 * m.off + 1 : m \in Written(p)}
                      \cup {3 * (m.off + m.len) : m \in Written(p)}
        rank(d)   == Cardinality({e \in delimiters : e <= d})
        behind(d) == (d + 1) \div 3
    IN {[kind |-> "style", off |-> behind(x[1]), len |-> x[2] \div 3 - behind(x[1])] :
           x \in {y \in delimiters \X delimiters : /\ rank(y[1]) % 2 = 1
                                                  /\ rank(y[2]) = rank(y[1]) + 1
                                                  /\ behind(y[1]) < y[2] \div 3}}

\* What the user sees of a piece.  Where markup is read, the delimiters of the text are eaten
\* and make entities of their own; the places of entities are those in what was sent.
Received(t, p, parsed) ==
    LET shown(marks, eaten) == [lo |-> p.lo, hi |-> p.hi, head |-> p.head,
                               marks |-> marks, eaten |-> eaten]
    IN IF ~parsed            THEN shown(p.marks, {})
       ELSE IF Ticks(t, p) = {} THEN shown(Written(p), {})
       ELSE shown(Paired(t, p), Ticks(t, p))

-----------------------------------------------------------------------------
(* Telegram, and what is sent when a piece fails                           *)

\* The whole text in slices of as many characters as a message has units.
Slices(t) ==
    LET to(lo) == IF lo + MessageLimit < Size(t) THEN lo + MessageLimit ELSE Size(t)
    IN Cut(Size(t), 0, [lo \in 0..Size(t) - 1 |->
               Step(<<[lo |-> lo, hi |-> to(lo), head |-> 0, marks |-> {}]>>, to(lo))])

\* All pieces after the first put together, cut off before the length of a message.
Together(pieces) ==
    LET lo   == pieces[2].lo
        most == lo + MessageLimit - 1 - HeaderLength
        hi   == pieces[Len(pieces)].hi
    IN [lo |-> lo, hi |-> IF hi < most THEN hi ELSE most, head |-> HeaderLength, marks |-> {}]

\* External: a message that shows too much or nothing is refused.
Refused(t, p, limit) ==
    \/ p.head + Units(t, p.lo, p.hi) - Cardinality(p.eaten) > limit
    \/ p.head = 0 /\ \A k \in (p.lo..p.hi - 1) \ p.eaten : IsSpace(t, k)
=============================================================================
