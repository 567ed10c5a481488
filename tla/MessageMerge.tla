----------------------------- MODULE MessageMerge -----------------------------
(***************************************************************************)
(* What becomes of the texts, pictures, files and voices of a batch:       *)
(* _parse_message makes a message of an iLink item list, merge_messages    *)
(* joins a batch (MessageLoop keeps it as the sequence of its messages; a  *)
(* batch put back because the user is busy is merged again), and           *)
(* handle_message and react_node take the media from the result.           *)
(*                                                                         *)
(* A text is the sequence of the messages whose words it holds, a medium   *)
(* the number of the message it came with (its url and media_ref are one), *)
(* 0 if there is none, or if the item has no link to it.                   *)
(***************************************************************************)
EXTENDS Naturals, Sequences, FiniteSets, SequencesExt

CONSTANT MaxMerged    \* bound: messages in a batch

ASSUME MergeAssumption == MaxMerged \in Nat

Media == {"image", "file", "voice", "video"}
NoMedia == [k \in Media |-> 0]

\* _parse_message: the message numbered n, with items of the given kinds of
\* which the last one sets msg_type; its text is never empty, every kind adds
\* its mark.  An item that names no link leaves its kind without a medium.
Parsed(n, shape) ==
    [type |-> shape.type, text |-> <<n>>, token |-> n, voices |-> <<>>,
     media |-> [k \in Media |-> IF k \in shape.links THEN n ELSE 0]]

\* Texts, single media with a link and without, and messages with two items.
Shapes ==
    {[type |-> "text", links |-> {}]} \cup [type : Media, links : {{}}]
    \cup {s \in [type : Media, links : {S \in SUBSET Media : Cardinality(S) <= 2}] :
              s.type \in s.links}

Batches == {[i \in DOMAIN s |-> Parsed(i, s[i])] : s \in SeqOf(Shapes, MaxMerged) \ {<<>>}}
-----------------------------------------------------------------------------
FirstIn(order, P(_)) == LET i == SelectInSeq(order, P) IN IF i = 0 THEN "text" ELSE order[i]

\* The type of a merged message: the first of these that occurs.
Top(types) == LET Occurs(k) == k \in types
              IN  FirstIn(<<"image", "file", "voice", "video">>, Occurs)

\* The media of a kind that a batch brings: those of messages of that type.
Collected(batch, k) ==
    LET Brings(m) == m.type = k /\ m.media[k] # 0
        of == SelectSeq(batch, Brings)
    IN  [i \in DOMAIN of |-> of[i].media[k]]

FirstOf(s) == IF s = <<>> THEN 0 ELSE s[1]

\* merge_messages: the texts in order, the first medium of every kind, all
\* voices, and the rest from the last message.
Merge(batch) ==
    IF Len(batch) = 1 THEN batch[1]
    ELSE [type   |-> Top({batch[i].type : i \in DOMAIN batch}),
          text   |-> FlattenSeq([i \in DOMAIN batch |-> batch[i].text]),
          token  |-> Last(batch).token,
          voices |-> Collected(batch, "voice"),
          media  |-> [k \in Media |-> FirstOf(Collected(batch, k))]]

\* handle_message: what goes into the state of the graph; the list of voices
\* of a merged message replaces its single voice.
MediaState(msg) ==
    [k \in Media |-> IF k = "voice" /\ msg.voices # <<>> THEN msg.voices
                     ELSE IF msg.media[k] = 0 THEN <<>> ELSE <<msg.media[k]>>]

\* react_node: the one kind of media the model is told about, or the text only.
Told(state) == LET There(k) == state[k] # <<>>
               IN  FirstIn(<<"file", "voice", "video", "image">>, There)
-----------------------------------------------------------------------------
(* What holds of every batch of at most MaxMerged messages.  TLC evaluates  *)
(* these as assumptions of the module that instantiates this one.           *)

\* b, put back after its first `cut` messages and merged again with the rest.
Requeued(b, cut) == Merge(<<Merge(SubSeq(b, 1, cut))>> \o SubSeq(b, cut + 1, Len(b)))

\* A batch that is put back and merged again, at any point, ends with the same
\* text, type and context token as one merged at once: requeueing neither
\* drops, repeats nor reorders words, nor makes a message a duplicate of
\* another (main._message_loop's insert(0, merged_msg), message_signature).
\* This is what lets MessageLoop keep a batch as its sequence of messages.
RequeueKeepsWords ==
    \A b \in Batches : \A cut \in DOMAIN b :
        LET again == Requeued(b, cut)
        IN  /\ again.text = Merge(b).text
            /\ again.type = Merge(b).type /\ again.token = Merge(b).token

Linked(msg) == msg.type # "text" /\ msg.media[msg.type] # 0

\* Whatever a batch mixes and wherever it is put back, the model is told of a
\* medium exactly when the batch holds one with a link (merge_messages,
\* _FIELD_MAP, and the order of react_node's branches); a batch with a medium
\* without a link must not be put back.
MediaNoticed ==
    \A b \in Batches : \A cut \in DOMAIN b :
        \/ cut < Len(b) /\ \E i \in DOMAIN b : b[i].type # "text" /\ ~Linked(b[i])
        \/ Told(MediaState(Requeued(b, cut))) = "text" <=> \A i \in DOMAIN b : ~Linked(b[i])

\* All voices of a batch merged once are there for react_node, in their order
\* ("多语音合并时，使用完整列表覆盖单条").
EveryVoiceKept ==
    \A b \in Batches :
        LET Spoken(m) == m.type = "voice" /\ Linked(m)
            spoken == SelectSeq(b, Spoken)
        IN  Len(b) > 1 => MediaState(Merge(b))["voice"] = [i \in DOMAIN spoken |-> spoken[i].token]
=============================================================================
