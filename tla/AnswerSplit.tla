----------------------------- MODULE AnswerSplit ------------------------------
(***************************************************************************)
(* llm/streaming.py: how _send_bubbles cuts an answer into messages.  A    *)
(* text is a sequence of characters: two letters, the mark that ends a     *)
(* sentence, the line break and the other blank.                           *)
(***************************************************************************)
EXTENDS Naturals, Sequences, SequencesExt

CONSTANT MAX_CHARS    \* config.ADV_MAX_CHARS

ASSUME SplitAssumption == MAX_CHARS \in Nat \ {0}

Blanks == {"break", "space"}
Stops == {"stop", "break"}
Chars == {"a", "b"} \cup Stops \cup Blanks

Solid(t) == {i \in DOMAIN t : t[i] \notin Blanks}
Strip(t) == IF Solid(t) = {} THEN <<>> ELSE SubSeq(t, Min(Solid(t)), Max(Solid(t)))

\* Two line breaks or more in a row part paragraphs.
Gaps(t) == {i \in DOMAIN t : t[i] = "break"
                             /\ \E j \in {i - 1, i + 1} \cap DOMAIN t : t[j] = "break"}

Blocks(t) ==
    LET text   == DOMAIN t \ Gaps(t)
        firsts == SetToSortSeq({i \in text : i - 1 \notin text}, <)
        end(i) == Max({j \in text : i <= j /\ i..j \subseteq text})
    IN  SelectSeq([n \in DOMAIN firsts |-> Strip(SubSeq(t, firsts[n], end(firsts[n])))],
                  LAMBDA b : b # <<>>)

\* Paragraphs are put together as long as the limit allows; it counts one
\* character for what joins them, which is two.
Joined(blocks) ==
    FoldLeft(LAMBDA segs, b :
                 IF segs # <<>> /\ Len(Last(segs)) + Len(b) + 1 <= MAX_CHARS
                 THEN Append(Front(segs), Last(segs) \o <<"break", "break">> \o b)
                 ELSE Append(segs, b),
             <<>>, blocks)

\* _split_long_paragraph: behind the last mark in the final two fifths of what
\* fits, or right at the limit.
LongSplit[t \in Seq(Chars)] ==
    IF Len(t) <= MAX_CHARS THEN IF t = <<>> THEN <<>> ELSE <<t>>
    ELSE LET least == Max({(MAX_CHARS * 3) \div 5, 1})
             marks == {i \in 1..MAX_CHARS : i - 1 > least /\ t[i] \in Stops}
             cut   == Max(marks \cup {IF marks = {} THEN MAX_CHARS ELSE 0})
         IN  <<Strip(SubSeq(t, 1, cut))>> \o LongSplit[Strip(SubSeq(t, cut + 1, Len(t)))]

split_for_wechat(t) ==
    IF Len(t) <= MAX_CHARS THEN <<t>>
    ELSE FlattenSeq([n \in DOMAIN Joined(Blocks(t)) |-> LongSplit[Joined(Blocks(t))[n]]])
-----------------------------------------------------------------------------
Words(t) == SelectSeq(t, LAMBDA c : c \notin Blanks)

\* Nothing a user could read is lost, repeated or moved by the cutting.
WordsSent(t) == Words(FlattenSeq(split_for_wechat(t))) = Words(t)

\* No message is longer than the limit, not even where two paragraphs that just
\* fitted were joined.
FitsMessages(t) == \A n \in DOMAIN split_for_wechat(t) : Len(split_for_wechat(t)[n]) <= MAX_CHARS

\* A text that is cut makes no message without words.
NoBlankMessage(t) ==
    Len(t) > MAX_CHARS => \A n \in DOMAIN split_for_wechat(t) : Words(split_for_wechat(t)[n]) # <<>>
=============================================================================
