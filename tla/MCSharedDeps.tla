----------------------------- MODULE MCSharedDeps -----------------------------
(* Instances of SharedDeps for TLC, and the texts on which the cutting of    *)
(* answers is evaluated.                                                     *)
EXTENDS SharedDeps, AnswerSplit

CONSTANT MaxText    \* bound: characters in a text
Texts == UNION {[1..n -> Chars] : n \in 0..MaxText}

ASSUME AnswersSplit == \A t \in Texts : WordsSent(t) /\ FitsMessages(t) /\ NoBlankMessage(t)
=============================================================================
