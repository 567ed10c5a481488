------------------------------ MODULE SharedDeps ------------------------------
(***************************************************************************)
(* What the turns of different users share: the Deps object with its       *)
(* single stream_callback, the model object with its list of tool schemas, *)
(* and the dispatcher's one event loop.  A turn starts and ends on its own *)
(* dispatch thread; react_node runs on the loop and gives it up only where *)
(* a tool really awaits.                                                   *)
(*                                                                         *)
(* An answer is the chunks 1..AnswerLen, all of one length, so that        *)
(* character counts are chunk counts; the text a model may write in front  *)
(* of its tool calls is the chunk 0.  A stream callback is the turn whose  *)
(* handle_message made it.  A user's skill tool stands for all the skills  *)
(* a message triggers.                                                     *)
(***************************************************************************)
EXTENDS Naturals, Sequences, SequencesExt

CONSTANTS Users,
          MAX_TOOL_ROUNDS,  \* config.MAX_TOOL_ROUNDS
          AnswerLen,        \* chunks in a final answer
          MaxTurns,         \* bound: turns altogether
          MaxErrors         \* bound: failing streamed sends and model calls

ASSUME SharedAssumption == /\ {MAX_TOOL_ROUNDS, AnswerLen} \subseteq Nat \ {0}
                           /\ {MaxTurns, MaxErrors} \subseteq Nat /\ "none" \notin Users

VARIABLES
    turn,      \* per user, number of the last turn started
    at,        \* per user, where its turn is
    callback,  \* deps.stream_callback
    loop,      \* the user whose react_node holds the event loop
    tools,     \* skill tools in model._tool_schemas
    skill,     \* per user, does the turn's message trigger a skill
    saved,     \* per user, _inject_skill_tools' original_schemas
    cb,        \* per user, react_node's local stream_callback
    round,     \* per user, _round + 1
    todo,      \* per user, chunks of the current model answer still to come
    counted,   \* per user, _stream_sent_chars of the turn
    errors,    \* failed streamed sends and model calls so far
    got,       \* history: chunks the user received in this turn, with their author
    offered,   \* history: the skill tools the latest model call saw ({} before any)
    overlap    \* history: two turns have been under way at once

shared == <<callback, loop, tools>>
vars == <<turn, at, callback, loop, tools, skill, saved, cb, round, todo, counted,
          errors, got, offered, overlap>>

NoTurn   == [user |-> "none", turn |-> 0]
Turn(u)  == [user |-> u, turn |-> turn[u]]
Answer   == [i \in 1..AnswerLen |-> i]
None     == "none"     \* no user holds the loop

Init ==
    /\ turn = [u \in Users |-> 0] /\ at = [u \in Users |-> "idle"]
    /\ callback = NoTurn /\ loop = None /\ tools = {}
    /\ skill = [u \in Users |-> FALSE] /\ saved = [u \in Users |-> {}]
    /\ cb = [u \in Users |-> NoTurn] /\ round = [u \in Users |-> 0]
    /\ todo = [u \in Users |-> <<>>] /\ counted = [u \in Users |-> 0]
    /\ errors = 0 /\ got = [u \in Users |-> <<>>] /\ offered = {} /\ overlap = FALSE
-----------------------------------------------------------------------------
\* handle_message installs its callback and submits the graph run.
Start(u) ==
    /\ at[u] = "idle" /\ FoldFunction(+, 0, turn) < MaxTurns
    /\ turn' = [turn EXCEPT ![u] = @ + 1]
    /\ callback' = [user |-> u, turn |-> turn[u] + 1]
    /\ \E s \in BOOLEAN : skill' = [skill EXCEPT ![u] = s]
    /\ at' = [at EXCEPT ![u] = "queued"]
    /\ round' = [round EXCEPT ![u] = 1] /\ counted' = [counted EXCEPT ![u] = 0]
    /\ got' = [got EXCEPT ![u] = <<>>]
    /\ UNCHANGED <<loop, tools, saved, cb, todo, errors, offered>>
    /\ overlap' = (overlap \/ \E v \in Users \ {u} : at[v] # "idle")

\* react_node begins: _inject_skill_tools remembers the schemas and adds to them.
Enter(u) ==
    /\ at[u] = "queued" /\ loop = None
    /\ loop' = u
    /\ saved' = [saved EXCEPT ![u] = tools]
    /\ tools' = IF skill[u] THEN tools \cup {u} ELSE tools
    /\ at' = [at EXCEPT ![u] = "round"]
    /\ UNCHANGED <<turn, callback, skill, cb, round, todo, counted, errors, got, offered, overlap>>

Offer(u) == /\ offered' = {[user |-> u, round |-> round[u], wanted |-> skill[u],
                              tools |-> tools]}
            /\ UNCHANGED overlap

\* A round: the callback is looked up and the model starts to answer, with
\* tool calls (perhaps after some text) or with the final answer.
ModelCall(u) ==
    /\ at[u] = "round" /\ round[u] <= MAX_TOOL_ROUNDS
    /\ Offer(u)
    /\ cb' = [cb EXCEPT ![u] = callback]
    /\ \/ \E text \in {<<>>, <<0>>} : /\ todo' = [todo EXCEPT ![u] = text]
                                      /\ at' = [at EXCEPT ![u] = "talk"]
       \/ /\ todo' = [todo EXCEPT ![u] = Answer]
          /\ at' = [at EXCEPT ![u] = "answer"]
    /\ UNCHANGED <<turn, shared, skill, saved, round, counted, errors, got>>

\* The last call after MAX_TOOL_ROUNDS: model.chat, not streamed.
LastCall(u) ==
    /\ at[u] = "round" /\ round[u] > MAX_TOOL_ROUNDS
    /\ Offer(u)
    /\ at' = [at EXCEPT ![u] = "restore"]
    /\ UNCHANGED <<turn, shared, skill, saved, cb, round, todo, counted, errors, got>>

\* One streamed chunk: _stream_callback sends it to the user it was made for
\* and counts it in its own turn; a failing send is swallowed, not counted.
Stream(u) ==
    /\ at[u] \in {"talk", "answer"} /\ todo[u] # <<>>
    /\ todo' = [todo EXCEPT ![u] = Tail(@)]
    /\ LET to   == cb[u]
           part == [by |-> u, turn |-> turn[u], chunk |-> Head(todo[u])]
       IN  \/ /\ to # NoTurn
              /\ got' = [got EXCEPT ![to.user] = Append(@, part)]
              /\ counted' = IF to.turn = turn[to.user]
                            THEN [counted EXCEPT ![to.user] = @ + 1] ELSE counted
              /\ UNCHANGED errors
           \/ /\ to # NoTurn /\ errors < MaxErrors
              /\ errors' = errors + 1
              /\ UNCHANGED <<got, counted>>
           \/ /\ to = NoTurn
              /\ UNCHANGED <<got, counted, errors>>
    /\ UNCHANGED <<turn, at, shared, skill, saved, cb, round, offered, overlap>>

\* The final answer is out.
Answered(u) ==
    /\ at[u] = "answer" /\ todo[u] = <<>>
    /\ at' = [at EXCEPT ![u] = "restore"]
    /\ UNCHANGED <<turn, shared, skill, saved, cb, round, todo, counted, errors,
                   got, offered, overlap>>

\* Mutant of CallTool: waiting for a tool does not give the loop up.
CallToolBlocking(u) ==
    /\ at[u] = "talk" /\ todo[u] = <<>>
    /\ round' = [round EXCEPT ![u] = @ + 1]
    /\ \/ /\ at' = [at EXCEPT ![u] = "round"] /\ UNCHANGED loop
       \/ /\ at' = [at EXCEPT ![u] = "await"] /\ UNCHANGED loop
    /\ UNCHANGED <<turn, callback, tools, skill, saved, cb, todo, counted, errors,
                   got, offered, overlap>>

\* The tool call: an ordinary handler runs on the loop, a coroutine that has to
\* wait lets other turns in.
CallTool(u) ==
    /\ at[u] = "talk" /\ todo[u] = <<>>
    /\ round' = [round EXCEPT ![u] = @ + 1]
    /\ \/ /\ at' = [at EXCEPT ![u] = "round"] /\ UNCHANGED loop
       \/ /\ at' = [at EXCEPT ![u] = "await"] /\ loop' = None
    /\ UNCHANGED <<turn, callback, tools, skill, saved, cb, todo, counted, errors,
                   got, offered, overlap>>

\* The awaited tool is done and the loop comes back to this turn.
ToolDone(u) ==
    /\ at[u] = "await" /\ loop = None
    /\ loop' = u
    /\ at' = [at EXCEPT ![u] = "round"]
    /\ UNCHANGED <<turn, callback, tools, skill, saved, cb, round, todo, counted,
                   errors, got, offered, overlap>>

\* Mutant of Restore: the schemas are not restored.
RestoreNothing(u) ==
    /\ at[u] = "restore"
    /\ loop' = None
    /\ at' = [at EXCEPT ![u] = "clear"]
    /\ UNCHANGED <<turn, callback, tools, skill, saved, cb, round, todo, counted, errors,
                   got, offered, overlap>>

\* restore_tools: the schemas as they were when this turn began.
Restore(u) ==
    /\ at[u] = "restore"
    /\ tools' = IF skill[u] THEN saved[u] ELSE tools
    /\ loop' = None
    /\ at' = [at EXCEPT ![u] = "clear"]
    /\ UNCHANGED <<turn, callback, skill, saved, cb, round, todo, counted, errors,
                   got, offered, overlap>>

\* A model call raises: neither restore_tools nor the clearing of the callback
\* is reached.
ModelFails(u) ==
    /\ at[u] = "round" /\ errors < MaxErrors
    /\ errors' = errors + 1
    /\ loop' = None
    /\ at' = [at EXCEPT ![u] = "idle"]
    /\ UNCHANGED <<turn, callback, tools, skill, saved, cb, round, todo, counted,
                   got, offered, overlap>>

\* handle_message, back on its thread, clears whatever callback is installed.
Clear(u) ==
    /\ at[u] = "clear"
    /\ callback' = NoTurn
    /\ at' = [at EXCEPT ![u] = "send"]
    /\ UNCHANGED <<turn, loop, tools, skill, saved, cb, round, todo, counted, errors,
                   got, offered, overlap>>

\* Mutant of Rest: the counted position itself is skipped.
RestOffByOne(u) == SubSeq(Answer, counted[u] + 2, AnswerLen)

\* What handle_message still sends: the answer from the counted position on.
Rest(u) == SubSeq(Answer, counted[u] + 1, AnswerLen)

Send(u) ==
    /\ at[u] = "send"
    /\ got' = [got EXCEPT ![u] = @ \o [i \in DOMAIN Rest(u) |->
                  [by |-> u, turn |-> turn[u], chunk |-> Rest(u)[i]]]]
    /\ at' = [at EXCEPT ![u] = "idle"]
    /\ UNCHANGED <<turn, shared, skill, saved, cb, round, todo, counted, errors, offered, overlap>>

React(u) == \/ Enter(u) \/ ModelCall(u) \/ LastCall(u) \/ Stream(u) \/ Answered(u)
            \/ CallTool(u) \/ ToolDone(u) \/ Restore(u)
Finish(u) == Clear(u) \/ Send(u)

Next == \E u \in Users : Start(u) \/ React(u) \/ ModelFails(u) \/ Finish(u)

Spec == Init /\ [][Next]_vars

\* The event loop takes its ready callbacks in turn, so a queued or waiting
\* turn is not passed over for ever; the dispatch threads are scheduled.
Fairness == \A u \in Users : SF_vars(React(u)) /\ WF_vars(Finish(u))
FairSpec == Spec /\ Fairness
-----------------------------------------------------------------------------
(* Properties.                                                             *)

Turns == {NoTurn} \cup [user : Users, turn : Nat]
Part  == [by : Users, turn : Nat, chunk : 0..AnswerLen]

\* Types of the shared objects and of each turn's locals.
TypeOK ==
    /\ turn \in [Users -> Nat]
    /\ at \in [Users -> {"idle", "queued", "round", "talk", "answer", "await",
                         "restore", "clear", "send"}]
    /\ callback \in Turns /\ loop \in Users \cup {None} /\ tools \subseteq Users
    /\ skill \in [Users -> BOOLEAN] /\ saved \in [Users -> SUBSET Users]
    /\ cb \in [Users -> Turns] /\ round \in [Users -> Nat]
    /\ todo \in [Users -> Seq(0..AnswerLen)] /\ counted \in [Users -> Nat]
    /\ errors \in Nat /\ got \in [Users -> Seq(Part)]
    /\ offered \subseteq [user : Users, round : Nat, wanted : BOOLEAN, tools : SUBSET Users]
    /\ overlap \in BOOLEAN

\* What streaming delivered is not sent once more at the end of the turn, even
\* when turns overwrite each other's callback: unless a streamed send failed, no
\* chunk of an answer reaches its user twice (handle_message's count of
\* streamed characters).
NoDuplicateText ==
    errors = 0 => \A u \in Users : \A i, j \in DOMAIN got[u] :
        i # j /\ got[u][i] = got[u][j] => got[u][i].chunk = 0 \/ got[u][i].by # u

\* A triggered skill is among the tools of its turn's first model call, whatever
\* other turns do to the shared list (no await between injection and call).
FirstCallOffersSkill ==
    \A o \in offered : o.round = 1 /\ o.wanted => o.user \in o.tools

\* _inject_skill_tools: the skills are taken back afterwards, "避免跨用户污染".
\* As long as no two turns overlap and no model call fails, each call is offered
\* its own turn's skill and no other.
SkillsAsTriggered ==
    ~overlap /\ errors = 0 =>
        \A o \in offered : o.tools = IF o.wanted THEN {o.user} ELSE {}

\* What injecting and taking back skills promises each model call.
SkillsOffered == FirstCallOffersSkill /\ SkillsAsTriggered

\* Streamed part and remainder make up the answer: at the end of a turn the user
\* has received all of it, if no two turns overlapped, no send failed and the
\* model wrote no text in front of its tool calls.
AnswerComplete ==
    \A u \in Users :
        /\ at[u] = "idle" /\ turn[u] > 0 /\ ~overlap /\ errors = 0
        /\ \A i \in DOMAIN got[u] : got[u][i].chunk # 0
        => \A c \in 1..AnswerLen :
               [by |-> u, turn |-> turn[u], chunk |-> c] \in Range(got[u])

\* Streaming and sending the remainder fit together: nothing twice, nothing lost
\* (handle_message's count of streamed characters).
AnswerText == NoDuplicateText /\ AnswerComplete

\* Every turn comes to an end, though all share one event loop.
TurnsEnd == \A u \in Users : at[u] # "idle" ~> at[u] = "idle"

\* README: "按微信用户 ID 隔离对话历史": no user receives another's text.
NoForeignText == \A u \in Users : \A i \in DOMAIN got[u] : got[u][i].by = u
=============================================================================
