---------------------------- MODULE MCMessageLoop ----------------------------
(* Instances of MessageLoop, and of MessageMerge for its batches, for TLC. *)
EXTENDS MessageLoop, MessageMerge

\* A batch may stand for its merged message.
ASSUME BatchesMerge == RequeueKeepsWords /\ MediaNoticed /\ EveryVoiceKept
=============================================================================
