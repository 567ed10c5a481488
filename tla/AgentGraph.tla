------------------------------ MODULE AgentGraph ------------------------------
(***************************************************************************)
(* One WeChat user's conversation: Dispatcher.handle_message driving the   *)
(* LangGraph of core/graph.py (classify, react, handle_meta,               *)
(* handle_confirm, interrupt before wait_user).  MessageLoop shows that    *)
(* the messages of one user are handled one at a time, so the steps below  *)
(* are sequential; what interferes is a failing LLM call, eviction of the  *)
(* session by another user's thread, and a restart of the process.         *)
(*                                                                         *)
(* LangGraph commits the channels (chan) and the node to run next (next)   *)
(* after every node; what a node has not returned yet is in `run`.  The    *)
(* model decides every classification and every tool call.  A message of   *)
(* the history keeps its role, the call ids it makes or answers, and its   *)
(* position in the messages channel (0 until add_messages stores it).      *)
(* final_response is present or absent; the model's texts are non-empty.   *)
(* A picture is the number of the turn it came with, 0 for none; `pics`    *)
(* are the pictures whose description a message contains.  Only react_node *)
(* writes one (an answer that repeats its mark is left out).               *)
(***************************************************************************)
EXTENDS Naturals, Sequences, SequencesExt

CONSTANTS Inputs,           \* messages the user may send; "photo" has a picture
          VisionModel,      \* is there a vision model besides the main one?
          MAX_TOOL_ROUNDS,  \* config.MAX_TOOL_ROUNDS
          MAX_HISTORY,      \* config.MAX_HISTORY
          MaxTurns,         \* bound: messages the user sends
          MaxCalls,         \* bound: tool calls the model ever makes
          MaxBatch,         \* bound: tool calls in one model answer
          MaxErrors,        \* bound: failing model calls and sends
          MaxRestarts       \* bound: process restarts

ASSUME GraphAssumption ==
    /\ Inputs \subseteq {"Y", "N", "ask", "photo", "/status", "/reset", "/cal"}
    /\ VisionModel \in BOOLEAN
    /\ MAX_TOOL_ROUNDS \in Nat \ {0} /\ MAX_HISTORY \in Nat \ {0}
    /\ {MaxTurns, MaxCalls, MaxBatch, MaxErrors, MaxRestarts} \subseteq Nat

\* A command comes without a picture; /cal with one leaves it to the next message.

VARIABLES
    busy,       \* a handle_message call is under way
    resumed,    \* it took the user's text as the answer to a prompt
    text,       \* the text it handles, "" when idle
    next,       \* the checkpoint's next node, "end" when there is none
    chan,       \* the checkpointed channels of AgentState
    run,        \* react_node's local variables
    sess,       \* Dispatcher._sessions[uid]
    sent,       \* what the current or last turn sent to the user, or failed to send
    turns,      \* messages received; the current turn's number
    calls,      \* tool calls made
    faults,     \* failed model calls, failed sends, restarts; was the history ever cut
    prompts,    \* history: confirmation prompts of this task
    rounds,     \* history: model rounds of this task
    reply,      \* history: per call, "N" or another answer to its prompt, or "unasked"
    ran         \* history: per call, times handle_confirm carried it out

vars == <<busy, resumed, text, next, chan, run, sess, sent, turns, calls, faults, prompts,
          rounds, reply, ran>>

CallIds == 1..MaxCalls
NoPending == [call |-> 0, kind |-> "none"]     \* pending_confirmation = {}

\* How handle_confirm_node treats a pending confirmation: it carries the
\* operation out (dangerous_command, delete_file, pip_install, skill_action),
\* calls the tool once more (a detail with a tool_name), or does nothing (the
\* types write_outside_workspace, batch_rename, organize_files, system_action,
\* kill_process, ai_denied, ai_ask_user carry no tool_name).
Kinds == {"direct", "again", "bare"}
Pending == {NoPending} \cup [call : CallIds, kind : Kinds]

Msg(role, ids) == [role |-> role, ids |-> ids, pics |-> {}, mid |-> 0]
ToolMsg(c)     == Msg("tool", {c})
SystemMsg      == Msg("system", {})

\* Dispatcher._new_state: the fields the graph reads.  `fresh`: its messages are
\* the system prompt alone, not yet stored in the channel.
NewState == [fresh |-> TRUE, pending |-> NoPending, resp |-> "",
             confirms |-> 0, complete |-> FALSE, final |-> FALSE, photo |-> 0]
NoSession == [fresh |-> FALSE, pending |-> NoPending, resp |-> "absent",
              confirms |-> 0, complete |-> FALSE, final |-> FALSE, photo |-> 0]

\* add_messages: known messages stay where they are, new ones go to the end.
AddMessages(old, conv) ==
    LET new == FlattenSeq([i \in DOMAIN conv |->
                   IF conv[i].mid = 0 THEN <<conv[i]>> ELSE <<>>])
    IN  old \o [i \in DOMAIN new |-> [new[i] EXCEPT !.mid = Len(old) + i]]

\* The end of the run of tool messages that follows position b.
ToolsEnd(conv, b) ==
    CHOOSE e \in b..Len(conv) :
        /\ \A k \in (b + 1)..e : conv[k].role = "tool"
        /\ e < Len(conv) => conv[e + 1].role # "tool"

\* Calls of the assistant message at b without a result right behind it.
Unanswered(conv, b) ==
    conv[b].ids \ UNION {conv[k].ids : k \in (b + 1)..ToolsEnd(conv, b)}

\* _fix_orphaned_tool_calls: a result for each of them at the end of that run.
FixOrphaned(conv) ==
    LET After(e) == UNION {Unanswered(conv, b) :
                             b \in {b \in 1..e : /\ conv[b].role = "assistant"
                                                 /\ ToolsEnd(conv, b) = e}}
    IN  FlattenSeq([e \in DOMAIN conv |->
            <<conv[e]>> \o [i \in DOMAIN SetToSeq(After(e)) |->
                               ToolMsg(SetToSeq(After(e))[i])]])

\* _has_pending_tool_calls: the last message that is not the user's or the
\* system's is a tool result or asks for tools.
HasPendingToolCalls(conv) ==
    LET k == SelectLastInSeq(conv, LAMBDA m : m.role \in {"tool", "assistant"})
    IN  k # 0 /\ (conv[k].role = "tool" \/ conv[k].ids # {})

\* _trim: the system prompt and the last MAX_HISTORY messages, without tool
\* results whose request was cut off.
Trim(conv) ==
    IF Len(conv) <= MAX_HISTORY + 1 THEN conv
    ELSE LET recent == SubSeq(conv, Len(conv) - MAX_HISTORY + 1, Len(conv))
             first  == SelectInSeq(recent, LAMBDA m : m.role # "tool")
         IN  <<conv[1]>> \o (IF first = 0 THEN <<>>
                             ELSE SubSeq(recent, first, Len(recent)))

Idle == [at |-> "start", conv |-> <<>>, round |-> 0, todo |-> <<>>, confirms |-> 0,
         shown |-> 0]

EmptyChannels == [msgs |-> <<>>, pending |-> NoPending, resp |-> "",
                  confirms |-> 0, complete |-> FALSE, final |-> FALSE, photo |-> 0]

Init ==
    /\ busy = FALSE /\ resumed = FALSE /\ text = "" /\ next = "end"
    /\ chan = EmptyChannels /\ run = Idle /\ sess = NoSession
    /\ sent = "nothing" /\ turns = 0 /\ calls = 0
    /\ faults = [error |-> 0, send |-> 0, restart |-> 0, cut |-> FALSE]
    /\ prompts = 0 /\ rounds = 0
    /\ reply = [c \in CallIds |-> ""] /\ ran = [c \in CallIds |-> 0]
-----------------------------------------------------------------------------
\* handle_message up to graph.ainvoke, when the graph waits for the user:
\* update_state(..., as_node="wait_user"), whatever the text is and whether or
\* not the prompt was sent.
Resume ==
    /\ ~busy /\ next = "wait_user" /\ turns < MaxTurns
    /\ \E t \in Inputs :
          /\ text' = t
          /\ chan' = [chan EXCEPT !.resp = t]
          /\ reply' = [reply EXCEPT ![chan.pending.call] =
                                      IF sent # "prompt" THEN "unasked"
                                      ELSE IF t = "N" THEN "N" ELSE "other"]
    /\ busy' = TRUE /\ turns' = turns + 1 /\ sent' = "nothing"
    /\ next' = "handle_confirm" /\ resumed' = TRUE
    /\ UNCHANGED <<run, sess, calls, faults, prompts, rounds, ran>>

\* media_state: the picture of this message, if it has one, replaces the one of
\* an earlier message.
WithMedia(st) == [st EXCEPT !.photo = IF text' = "photo" THEN turns' ELSE @]

\* Mutant of StartingState: a completed task's state is used again.
StartingStateReused(old) == old

\* A completed task makes way for _new_state; a run that failed half-way (next
\* is some other node) starts over from the saved session.
StartingState(old) == IF next = "end" /\ old.complete THEN NewState ELSE old

\* The other paths of handle_message: every channel except messages is
\* overwritten.  A saved state is changed in place.
Invoke ==
    /\ ~busy /\ next # "wait_user" /\ turns < MaxTurns
    /\ text' \in Inputs
    /\ turns' = turns + 1
    /\ LET old  == IF sess = NoSession THEN NewState ELSE sess
           st   == StartingState(old)
           msgs == IF st.fresh THEN AddMessages(chan.msgs, <<SystemMsg>>)
                   ELSE chan.msgs
       IN  /\ chan' = [msgs |-> msgs, pending |-> st.pending, resp |-> st.resp,
                       confirms |-> st.confirms, complete |-> st.complete,
                       final |-> st.final, photo |-> WithMedia(st).photo]
           /\ sess' = IF st = old THEN WithMedia(old) ELSE old
           /\ prompts' = IF st = NewState THEN 0 ELSE prompts
           /\ rounds' = IF st = NewState THEN 0 ELSE rounds
    /\ busy' = TRUE /\ sent' = "nothing"
    /\ next' = "classify" /\ resumed' = FALSE
    /\ UNCHANGED <<run, calls, faults, reply, ran>>

\* _after_classify.  An edge function only reads: its assignments to the state
\* are dropped.
Route(type) ==
    CASE type = "confirm" /\ chan.resp = "N" -> "end"
      [] type = "confirm" /\ chan.resp # "N" -> "handle_confirm"
      [] type = "meta"                       -> "handle_meta"
      [] OTHER                               -> "react"

\* classify_node and its edge; handle_interrupt only sets fields nobody reads
\* and goes on to react.
Classify ==
    /\ busy /\ next = "classify"
    /\ \E type \in {"meta", "confirm", "interrupt", "new_task"} :
          next' = Route(type)
    /\ UNCHANGED <<busy, resumed, text, chan, run, sess, sent, turns, calls, faults,
                   prompts, rounds, reply, ran>>

\* handle_meta_node, whose only edge leads to END.  "/status" stands for every
\* command that just answers, "/cal" for /cal, /doc and /msg, which rewrite
\* user_input for a react run.
HandleMeta ==
    /\ busy /\ next = "handle_meta"
    /\ chan' = CASE text = "/cal"   -> [chan EXCEPT !.complete = FALSE]
                 [] text = "/reset" -> [chan EXCEPT !.pending = NoPending, !.resp = "",
                                          !.complete = TRUE, !.final = TRUE]
                 [] OTHER           -> [chan EXCEPT !.complete = TRUE, !.final = TRUE]
    /\ next' = "end"
    /\ UNCHANGED <<busy, resumed, text, run, sess, sent, turns, calls, faults, prompts,
                   rounds, reply, ran>>

\* Mutant of HandleConfirm: pending_confirmation is not cleared.
HandleConfirmKeepsPending ==
    /\ busy /\ next = "handle_confirm"
    /\ LET p   == chan.pending
           did == IF p.call = 0 THEN ran ELSE [ran EXCEPT ![p.call] = @ + 1]
       IN /\ ran' \in CASE p.kind = "direct" -> {did}
                        [] p.kind = "again"  -> {did, ran}
                        [] OTHER             -> {ran}
          /\ chan' = [chan EXCEPT
                !.msgs = IF p.kind \in {"direct", "again"}
                         THEN AddMessages(@, <<ToolMsg(p.call)>>) ELSE @,
                !.resp = ""]
    /\ next' = "react"
    /\ UNCHANGED <<busy, resumed, text, run, sess, sent, turns, calls, faults, prompts,
                   rounds, reply>>

\* handle_confirm_node: carries the pending operation out without looking at
\* the answer.  Calling the tool again may run it or ask once more, which is
\* taken as its result.
HandleConfirm ==
    /\ busy /\ next = "handle_confirm"
    /\ LET p   == chan.pending
           did == IF p.call = 0 THEN ran ELSE [ran EXCEPT ![p.call] = @ + 1]
       IN /\ ran' \in CASE p.kind = "direct" -> {did}
                        [] p.kind = "again"  -> {did, ran}
                        [] OTHER             -> {ran}
          /\ chan' = [chan EXCEPT
                !.msgs = IF p.kind \in {"direct", "again"}
                         THEN AddMessages(@, <<ToolMsg(p.call)>>) ELSE @,
                !.pending = NoPending, !.resp = ""]
    /\ next' = "react"
    /\ UNCHANGED <<busy, resumed, text, run, sess, sent, turns, calls, faults, prompts,
                   rounds, reply>>
-----------------------------------------------------------------------------
(* react_node.                                                             *)

\* extract_recent_image_context: the descriptions in the last six messages.
RecentImageContext(conv) ==
    UNION {conv[k].pics : k \in {k \in DOMAIN conv : k + 6 > Len(conv)}}

\* The user's message: with the description of the state's picture (from
\* classify_node) or the picture itself, or else with what is still known of
\* earlier pictures.
UserMessage(conv) ==
    [Msg("user", {turns}) EXCEPT
        !.pics = IF chan.photo = 0 THEN RecentImageContext(conv)
                 ELSE IF VisionModel THEN {chan.photo} ELSE {}]

\* Mutant of ReactStart: the history is used as it is stored.
ReactStartUnfixed ==
    /\ busy /\ next = "react" /\ run.at = "start"
    /\ LET conv == chan.msgs
           resuming == chan.pending = NoPending /\ HasPendingToolCalls(conv)
       IN  run' = [Idle EXCEPT !.at = "llm", !.round = 1, !.confirms = chan.confirms,
                      !.conv = IF resuming THEN conv ELSE Append(conv, UserMessage(conv)),
                      !.shown = IF resuming THEN 0 ELSE chan.photo]
    /\ UNCHANGED <<busy, resumed, text, next, chan, sess, sent, turns, calls, faults,
                   prompts, rounds, reply, ran>>

\* The conversation for the model: after a confirmation it goes on where it
\* stopped, otherwise the user's message is added.
ReactStart ==
    /\ busy /\ next = "react" /\ run.at = "start"
    /\ LET conv == FixOrphaned(chan.msgs)
           resuming == chan.pending = NoPending /\ HasPendingToolCalls(conv)
       IN  run' = [Idle EXCEPT !.at = "llm", !.round = 1, !.confirms = chan.confirms,
                      !.conv = IF resuming THEN conv ELSE Append(conv, UserMessage(conv)),
                      !.shown = IF resuming THEN 0 ELSE chan.photo]
    /\ UNCHANGED <<busy, resumed, text, next, chan, sess, sent, turns, calls, faults,
                   prompts, rounds, reply, ran>>

\* The node returns with a text answer.
FinishReact(conv) ==
    /\ chan' = [chan EXCEPT !.msgs = AddMessages(@, Trim(conv)), !.final = TRUE,
                            !.complete = TRUE, !.confirms = run.confirms]
    /\ faults' = [faults EXCEPT !.cut = @ \/ Trim(conv) # conv]
    /\ next' = IF chan.pending = NoPending THEN "end" ELSE "wait_user"
    /\ run' = Idle

\* The model answers in text; after MAX_TOOL_ROUNDS it is told to.
ModelText ==
    /\ busy /\ run.at = "llm"
    /\ LET asked == IF run.round <= MAX_TOOL_ROUNDS THEN run.conv
                    ELSE Append(run.conv, Msg("user", {}))
       IN  FinishReact(Append(asked, Msg("assistant", {})))
    /\ UNCHANGED <<busy, resumed, text, sess, sent, turns, calls, prompts, rounds,
                   reply, ran>>

\* The model asks for a batch of tools.
ModelTools ==
    /\ busy /\ run.at = "llm" /\ run.round <= MAX_TOOL_ROUNDS
    /\ \E n \in 1..MaxBatch :
          /\ calls + n <= MaxCalls
          /\ calls' = calls + n
          /\ run' = [run EXCEPT !.at = "tools",
                        !.conv = Append(@, Msg("assistant", (calls + 1)..(calls + n))),
                        !.todo = [i \in 1..n |-> calls + i]]
    /\ rounds' = rounds + 1
    /\ UNCHANGED <<busy, resumed, text, next, chan, sess, sent, turns, faults, prompts,
                   reply, ran>>

\* A tool that needs no confirmation, or fails: its result is recorded.
RunTool ==
    /\ busy /\ run.at = "tools" /\ run.todo # <<>>
    /\ run' = [run EXCEPT !.conv = Append(@, ToolMsg(Head(run.todo))),
                          !.todo = Tail(@)]
    /\ UNCHANGED <<busy, resumed, text, next, chan, sess, sent, turns, calls, faults,
                   prompts, rounds, reply, ran>>

\* Mutant of AskUser: the graph does not stop before the confirmation.
AskUserNoInterrupt ==
    /\ busy /\ run.at = "tools" /\ run.todo # <<>>
    /\ LET call == Head(run.todo)
       IN  IF run.confirms + 1 > 3
           THEN /\ run' = [run EXCEPT !.conv = Append(@, ToolMsg(call)),
                                      !.todo = Tail(@), !.confirms = @ + 1]
                /\ UNCHANGED <<next, chan>>
           ELSE /\ \E k \in Kinds :
                      chan' = [chan EXCEPT !.pending = [call |-> call, kind |-> k],
                                  !.msgs = AddMessages(@, run.conv),
                                  !.confirms = run.confirms + 1]
                /\ next' = "handle_confirm" /\ run' = Idle
    /\ UNCHANGED <<busy, resumed, text, sess, sent, turns, calls, faults, prompts, rounds,
                   reply, ran>>

\* A tool that needs confirmation: the node returns at once, leaving the rest
\* of the batch; from the fourth request of a task on it is cancelled instead.
AskUser ==
    /\ busy /\ run.at = "tools" /\ run.todo # <<>>
    /\ LET call == Head(run.todo)
       IN  IF run.confirms + 1 > 3
           THEN /\ run' = [run EXCEPT !.conv = Append(@, ToolMsg(call)),
                                      !.todo = Tail(@), !.confirms = @ + 1]
                /\ UNCHANGED <<next, chan>>
           ELSE /\ \E k \in Kinds :
                      chan' = [chan EXCEPT !.pending = [call |-> call, kind |-> k],
                                  !.msgs = AddMessages(@, run.conv),
                                  !.confirms = run.confirms + 1]
                /\ next' = "wait_user" /\ run' = Idle
    /\ UNCHANGED <<busy, resumed, text, sess, sent, turns, calls, faults, prompts, rounds,
                   reply, ran>>

\* Mutant of NextRound: the round is not counted.
NextRoundUncounted ==
    /\ busy /\ run.at = "tools" /\ run.todo = <<>>
    /\ run' = [run EXCEPT !.at = "llm"]
    /\ UNCHANGED <<busy, resumed, text, next, chan, sess, sent, turns, calls, faults,
                   prompts, rounds, reply, ran>>

\* The batch is done: next round.
NextRound ==
    /\ busy /\ run.at = "tools" /\ run.todo = <<>>
    /\ run' = [run EXCEPT !.at = "llm", !.round = @ + 1]
    /\ UNCHANGED <<busy, resumed, text, next, chan, sess, sent, turns, calls, faults,
                   prompts, rounds, reply, ran>>
-----------------------------------------------------------------------------
\* ainvoke returned: save the result, then send the answer or else the prompt.
\* A send may raise; main._dispatch_message apologises, the graph stays as it is.
Respond ==
    /\ busy /\ next \in {"end", "wait_user"}
    /\ sess' = [fresh |-> FALSE, pending |-> chan.pending, resp |-> chan.resp,
                confirms |-> chan.confirms, complete |-> chan.complete,
                final |-> chan.final, photo |-> chan.photo]
    /\ LET asks == chan.pending # NoPending /\ ~chan.complete
           what == IF chan.final THEN "answer" ELSE IF asks THEN "prompt" ELSE "nothing"
       IN /\ \/ sent' = what /\ UNCHANGED faults
             \/ /\ what # "nothing" /\ faults.error + faults.send < MaxErrors
                /\ sent' = IF what = "prompt" THEN "lost prompt" ELSE "lost answer"
                /\ faults' = [faults EXCEPT !.send = @ + 1]
          /\ prompts' = IF what = "prompt" THEN prompts + 1 ELSE prompts
    /\ busy' = FALSE /\ text' = ""
    /\ UNCHANGED <<resumed, next, chan, run, turns, calls, rounds, reply, ran>>

\* A model call raises: the node commits nothing, nothing is saved, and
\* main._dispatch_message tells the user.
ModelFails ==
    /\ busy /\ faults.error + faults.send < MaxErrors
    /\ next = "classify" \/ run.at = "llm"
    /\ faults' = [faults EXCEPT !.error = @ + 1]
    /\ busy' = FALSE /\ text' = "" /\ run' = Idle /\ sent' = "error"
    /\ UNCHANGED <<resumed, next, chan, sess, turns, calls, prompts, rounds, reply, ran>>

\* Another user's thread expires or evicts this session (_get_or_create_state).
Evict ==
    /\ sess # NoSession
    /\ sess' = NoSession
    /\ UNCHANGED <<busy, resumed, text, next, chan, run, sent, turns, calls, faults,
                   prompts, rounds, reply, ran>>

\* The process stops and starts again: checkpoints (MemorySaver) and sessions
\* are gone.
Restart ==
    /\ faults.restart < MaxRestarts
    /\ faults' = [faults EXCEPT !.restart = @ + 1]
    /\ busy' = FALSE /\ text' = "" /\ next' = "end" /\ chan' = EmptyChannels
    /\ run' = Idle /\ sess' = NoSession /\ sent' = "nothing"
    /\ UNCHANGED <<resumed, turns, calls, prompts, rounds, reply, ran>>

React == \/ ReactStart \/ ModelText \/ ModelTools \/ RunTool \/ AskUser \/ NextRound

Next == \/ Resume \/ Invoke \/ Classify \/ HandleMeta \/ HandleConfirm
        \/ React \/ Respond \/ ModelFails \/ Evict \/ Restart

Spec == Init /\ [][Next]_vars
-----------------------------------------------------------------------------
(* Properties.                                                             *)

Message == [role : {"system", "user", "assistant", "tool"},
            ids : SUBSET (0..(MaxTurns + MaxCalls)), pics : SUBSET (0..MaxTurns),
            mid : Nat]

\* Types of the checkpoint, the session, the react locals and the history.
TypeOK ==
    /\ busy \in BOOLEAN /\ resumed \in BOOLEAN /\ text \in Inputs \cup {""}
    /\ next \in {"end", "classify", "handle_meta", "handle_confirm", "react", "wait_user"}
    /\ chan \in [msgs : Seq(Message), pending : Pending, resp : Inputs \cup {""},
                 confirms : Nat, complete : BOOLEAN, final : BOOLEAN, photo : 0..MaxTurns]
    /\ run \in [at : {"start", "llm", "tools"}, conv : Seq(Message),
                round : 0..(MAX_TOOL_ROUNDS + 1), todo : Seq(CallIds), confirms : Nat,
                shown : 0..MaxTurns]
    /\ sess = NoSession \/ sess \in [fresh : BOOLEAN, pending : Pending, resp : Inputs \cup {""},
                 confirms : Nat, complete : BOOLEAN, final : BOOLEAN, photo : 0..MaxTurns]
    /\ sent \in {"nothing", "answer", "prompt", "lost answer", "lost prompt", "error"}
    /\ turns \in 0..MaxTurns /\ calls \in 0..MaxCalls
    /\ faults \in [error : 0..MaxErrors, send : 0..MaxErrors, restart : 0..MaxRestarts,
                   cut : BOOLEAN]
    /\ prompts \in Nat /\ rounds \in Nat
    /\ reply \in [CallIds -> {"", "N", "other", "unasked"}] /\ ran \in [CallIds -> Nat]

\* Does the chat API accept this history?  Every tool request is followed by
\* exactly one result per call, and no result stands anywhere else.
Accepted(conv) ==
    /\ \A b \in DOMAIN conv : conv[b].role = "assistant" =>
          /\ Unanswered(conv, b) = {}
          /\ Cardinality(conv[b].ids) = ToolsEnd(conv, b) - b
    /\ \A k \in DOMAIN conv : conv[k].role = "tool" =>
          \E b \in 1..(k - 1) : /\ conv[b].role = "assistant"
                                /\ conv[k].ids \subseteq conv[b].ids
                                /\ k <= ToolsEnd(conv, b)

\* No model call has failed: after a failure a run may start over from a stale
\* session, and much of what follows is lost (README, known deviations).
NoFailure == faults.error = 0

\* react_node never calls the model with a tool request that lacks a result or
\* a result without its request, however often confirmations cut a batch short
\* (_fix_orphaned_tool_calls, handle_confirm_node's tool message), as long as
\* the history has not outgrown MAX_HISTORY.
HistoryAccepted ==
    NoFailure /\ ~faults.cut /\ run.at = "llm" => Accepted(run.conv)

\* When the model is called for a message that is not the reply to a prompt,
\* that message is in the conversation (react_node's is_resuming guess).
RequestReachesModel ==
    NoFailure /\ run.at = "llm" /\ ~resumed =>
        \E k \in DOMAIN run.conv : run.conv[k].role = "user" /\ turns \in run.conv[k].ids

\* The picture the model is shown is the one of the message it answers, whatever
\* tasks, prompts and hand-overs came before (media_state, _new_state, and a state
\* that is changed in place).  The description of an earlier one is never put
\* beside it; only to a message without a picture is it quoted (react_node's
\* last branch).
PictureOfThisMessage ==
    NoFailure /\ run.at = "llm" /\ ~resumed =>
        /\ run.shown = IF text = "photo" THEN turns ELSE 0
        /\ text = "photo" =>
              \A k \in DOMAIN run.conv :
                  run.conv[k].role = "user" /\ turns \in run.conv[k].ids =>
                      run.conv[k].pics \subseteq {turns}

\* The model is called with the message it is to answer and with that message's
\* picture: no run takes up another turn's request or another turn's picture.
MessageReachesModel == RequestReachesModel /\ PictureOfThisMessage

\* Between turns, the graph waits for a confirmation exactly when the prompt for
\* it was the last thing sent to the user or lost on the way: as long as sends
\* succeed no other message is ever taken for an answer (handle_message's two
\* branches on final_response and pending_confirmation against the interrupt of
\* the graph; the state is saved before the send).
WaitsIffPrompted ==
    NoFailure /\ ~busy => (next = "wait_user" <=> sent \in {"prompt", "lost prompt"})

\* An operation that needs confirmation is carried out at most once: no other
\* message, classification or resumption reaches its confirmation again.
RunsOnce == NoFailure => \A c \in CallIds : ran[c] <= 1

\* Even when model calls fail and runs start over, an operation that needs
\* confirmation never runs before the user has replied to its prompt, or, if the
\* prompt was not sent, before the message that is taken for the reply.
RunsOnlyAfterReply == \A c \in CallIds : ran[c] > 0 => reply[c] # ""

\* A task asks for at most three confirmations, over all its interrupts and
\* resumptions (confirm_rounds in react_node).
AtMostThreePrompts == NoFailure => prompts <= 3

\* Each prompt buys a task at most MAX_TOOL_ROUNDS more model rounds, so with
\* AtMostThreePrompts no task goes on for ever (react_node's loop and the edge
\* from handle_confirm back to react).
RoundsBounded == NoFailure => rounds <= MAX_TOOL_ROUNDS * (prompts + 1)

\* The cancel branch of _after_classify is unreachable: confirmation_response
\* is empty whenever classify runs, after failures and restarts too.
NoReplyAtClassify == next = "classify" => chan.resp = ""

\* A reply is used once, and for the operation it was given for: no operation
\* runs twice or before it, and none is left over for a later classification.
RepliesUsedOnce == RunsOnce /\ RunsOnlyAfterReply /\ NoReplyAtClassify

\* No task goes on for ever: three prompts, each buying it a bounded number of
\* model rounds, over all interrupts and resumptions.
TaskBounded == AtMostThreePrompts /\ RoundsBounded

\* README: "危险操作人工确认（Y/N）": what the user refused is not carried out.
RefusedNeverRuns == \A c \in CallIds : reply[c] = "N" => ran[c] = 0
=============================================================================
