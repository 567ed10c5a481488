# WxAgent in TLA+

WxAgent answers WeChat messages with an LLM agent: a long-polling loop collects
messages, dispatch threads drive a LangGraph per user, tools run on an event
loop, in thread pools and in MCP child processes, and a web console in a process
of its own starts, stops and configures it all. This directory models the parts
whose correctness depends on order, interleaving and failure, checks them with
TLC and proves the most important results with TLAPS. Paths are relative to
`src/`.

- [The system](#the-system): components, state, interactions, what is hard
- [The modules](#the-modules): what each models and how it maps to the code
- [The runs](#the-runs): what is checked, with which bounds, and what it shows
- [Fairness](#fairness)
- [The proofs](#the-proofs)
- [Known deviations](#known-deviations): where code and documentation differ
- [Not modelled](#not-modelled) and [Plan](#plan)

## The system

| Component | State it keeps | Operations | What makes it correct | Module |
|---|---|---|---|---|
| Message loop (`main.py`, `channel/message.py`) | cursor, per-user pending lists, `last_msg_time`, dedup records, `processing_uids` | poll, collect, merge, dedup, requeue, dispatch, re-login, stop | one thread per user; messages in order, none lost or repeated; no queue wedged | MessageLoop, UserLines, MessageMerge |
| Channel (`channel/`) | sessions, context tokens, `session.json`, QR codes | login, receive, save and load, reply, send a file | a restart or a login loses neither session nor reply context | Channel |
| Dispatcher and agent graph (`core/`) | checkpoint channels, session cache, `react_node` locals | resume or invoke, classify, meta, confirm, react, interrupt | the confirmation protocol: nothing dangerous without a reply, nothing twice; a history the chat API accepts | AgentGraph |
| Deps, model object, event loop (`core/deps.py`, `react.py`) | `stream_callback`, tool schemas; shared by all users | install, stream, inject, restore | users do not see each other's text or skills | SharedDeps |
| Answers (`llm/streaming.py`) | none | cut an answer into messages | nothing lost, nothing too long | AnswerSplit |
| Session cache (`core/dispatcher.py`) | `OrderedDict` of sessions | get or create, save | limit, LRU order, no failing turn | SessionCache |
| Tasks (`tasks/manager.py`, subtitle jobs) | task table, futures, pool, a temporary file | submit, run, cancel, notify | each job reported once, to its owner | TaskManager |
| HTTP layer (`network/async_client.py`, downloads) | one loop thread, queues of streams | start, request, stream | one loop; every call served; a finished download is whole | StreamBridge |
| MCP (`mcp_client/`) | child processes, pipes, request ids | connect, call, log, disconnect, serve | the handshake first; a call gets its own response and returns | McpStdio |
| Tool registry (`tools/`, MCP loader) | tables, clients, skill files, views | connect, disconnect, refresh, edit skills | tables, clients, files and views agree | ToolRegistry |
| Service control (`web/api/routes/service.py`) | `_process`, ready and shutdown files | start, stop, restart | one agent; answers are true; every request is answered | ServiceControl |
| Configuration (`config_service.py`, `config.py`) | `.env`, `config.yaml`, environment | show, save, reload, restart | no update lost, no secret masked away, a save changes what was edited | ConfigStore, AtomicFiles |
| Memory, scheduler, LLM adapters, security, parsers, observability, front end | little or none | checks, conversions, storage by libraries | | [not modelled](#not-modelled) |

How they interact. `main` polls iLink and starts one dispatch thread per ready
user. The thread calls `Dispatcher.handle_message`, which submits the graph run
to the dispatcher's event loop and waits. `react_node` calls the model (which
streams through a callback stored in the shared `Deps`) and tools from
`ToolRegistry`: plain handlers on the loop, coroutines that await, long jobs
through `AsyncTaskManager`, MCP tools through a child process's pipes. All HTTP
of all threads goes through the one loop thread of `async_client`. Answers are
sent by the dispatch thread and, for jobs, by pool workers. The web console is
another process: it shares with the agent the process table, two signal files,
`.env`, `config.yaml` and the skill files, and has a tool registry of its own.

The hard behaviours: dispatch threads against the loop's queues; interrupts and
resumptions of a graph whose node returns in the middle of a batch; a checkpoint
and a session cache that can disagree after a failure; objects shared by the
turns of all users; a blocking queue on an event loop; unlocked dictionaries and
pipes; re-login while threads run; a session file written by several threads
that may end with the process; console requests that overlap, against processes
that die; files that are truncated before they are written. `PROJECT.json` lists
them as hazards, each at its line, with the properties that cover it.

## The modules

Each module models the whole of each operation it names; `PROJECT.json`'s `map`
gives the lines. `MC<module>` instantiates a module for TLC; the modules whose
names end in `Proofs` have the theorems (see [The proofs](#the-proofs)). An
operator commented *Mutant of X* is a plausible wrong version of `X`; it shows
that the property it is paired with can fail.

**MessageLoop** is `_message_loop` with the dispatch threads and `session.json`.
`pc` is where the loop is (`top`, `poll`, `collect`, `drain`), `pending`, `timed`
and `due` are `pending_msgs`, `last_msg_time` and the debounce delay having
passed, `last`/`stamped` the dedup records, `processing` is `processing_uids`,
`threads` the dispatch threads with the session object they were started with.
`epoch` numbers the logins; `buf[e]` is the cursor in the session object of login
`e`. A message is its number, user and text. Time is abstracted to "the
debounce delay is over"; a thread's `handle_message` is one step here and the
subject of AgentGraph. **UserLines** is its abstract specification: each user
has a line in which messages stand in the order of their arrival and which is
served as a whole, one batch at a time; a line may only be dropped as a whole.
MessageLoop implements it (`KeepsLines`) with `pending` for the lines,
`Serving(threads)` for what is being served and `handled` for what is done:
debounce, merge, dedup records and requeues are all stutters or whole drops.

**MessageMerge** has no state: it is `_parse_message`, `merge_messages`, the
media fields of `handle_message` and the choice `react_node` makes among them.
MessageLoop keeps a batch as the sequence of its messages; MessageMerge shows
for every batch of up to three messages of all kinds that a batch merged again
after a requeue has the words, type and context token of one merged at once,
which is what the dedup signature and the graph see. Items that name no link
(a type but no medium) are among the messages, except in pairs; an item with a
`cdn_url` alone, whose `media_ref` is empty, is not.

**AgentGraph** is one user's conversation: `Dispatcher.handle_message` and the
graph with `classify`, `handle_meta`, `handle_confirm`, `react` and the
interrupt before `wait_user`. `chan` is the checkpoint, `next` the checkpoint's
next node, `run` the local variables of `react_node`, `sess` the cached session.
The model's choices are nondeterministic: every classification, text or any
batch of tool calls, any tool asking for confirmation. A message of the history
is its role and the calls it makes or answers; `add_messages`, `_trim`,
`_fix_orphaned_tool_calls` and `_has_pending_tool_calls` are operators on such
sequences. A picture is the number of its turn, from `media_state` through the
checkpoint into `react_node`; `pics` of a message are the pictures it describes,
which `react_node` writes with a vision model and quotes, out of the last six
messages, to a message that has no picture. `Respond` may fail to send what the
checkpoint already holds (`sent` is then "lost answer" or "lost prompt").
Steps of one user's turn are sequential because of MessageLoop's
`OneThreadPerUser`; eviction (`Evict`) by other users' threads comes at any time,
`ModelFails` and `Restart` too.

**SharedDeps** has the turns of several users on the dispatcher's event loop,
with what they share: `deps.stream_callback`, the list of tool schemas, the loop
itself. A turn gives the loop up only at a tool that awaits.

**AnswerSplit** is `split_for_wechat` with `_split_long_paragraph`, without
state, over texts of five kinds of characters.

**SessionCache** is `_get_or_create_state` and `_save_state` with a step for
every operation on the `OrderedDict`. A failed `pop`, `del`, `popitem` or
iteration ends the turn, as the exception does.

**TaskManager** is `AsyncTaskManager` with its I/O pool and the dispatcher's
`on_complete`, a step per lock section. `queue` is the pool's; a cancelled job
stays in it until a worker passes over it (`Drop`). Subtitle jobs have steps of
their own because all of them use one `audio_temp.wav` (`audio`: whose sound is
in it, possibly that of an earlier process). A report that is not sent ends its
job like one that is ("unsent").

**StreamBridge** is the HTTP loop thread with plain calls and streamed
downloads, and the lazy start that makes it (`start`, `lock`, `started`,
`loops`). `blocked` says on which item the loop thread is stuck in `queue.put`.

**McpStdio** is `MCPClient` over stdio between `MCPLoader` and the loop of
`MCPServer`: the handshake, tool calls from several turns, the stderr pipe and
the thread that drains it, notifications the server prints, its exit, a
disconnect and the `close` that follows. An operation is in `pc`, its request's
number in `id`, the line it took for its response in `result`.

**ToolRegistry** has the tables (`tools`, `handlers`), the loader's `clients`
and `loaded`, the skill table and the skill files, and the two views made from
the tables (`llm`, `index`), under the console's requests. Connects and
disconnects are coroutines that give the loop up where they wait (`loop`); the
others are threads. `List` and `Clear` read a table in one step: the code walks
through a dict to which another request may add, which would end the request
with an error and leave the views as they were. The tools that are always listed
beside the bridge tools (`tools/__init__.py:45-54`; none by default) are left out.

**Channel** spans several lives of the process: the QR login with codes that
expire, ask for a number or are bound already; `session.json` with a step for
opening, taking the fields and writing; the cursor and the context tokens;
replies and files. A login is the number of its code, a context token the number
of its message. Messages come with a context token, without one, with nothing the
parser knows (skipped, and its token with it), or with an item the parser fails
on: the cursor has moved by then, and what `answer` brought is gone (`lost`).
MessageLoop's `log` has the messages that get through. What the server says to
a file decides nothing but the text of the tool's result, so `SendItem` keeps
the context the file went to.

**ServiceControl** has a step for every look a handler takes at a process, a
file or `_process`, and the agent as far as it touches the signal files.
Look-ups with `wmic` may time out (`see` is FALSE), users may start an agent by
hand, the console may be restarted.

**ConfigStore** has the thirteen pages with the keys that are treated
differently, their forms, the save under `_lock` as read, truncate, write per
file, the console's environment, and what an agent makes of the files
(`Meaning`). **AtomicFiles** is its abstract specification: a save changes each
file in one step from what it holds at that moment; the end of the console may
cost one file. ConfigStore implements it under the mapping `Logical`, which
shows a file that a save has emptied as it was until it is written.

Composition is by assumption and guarantee: AgentGraph's sequential steps and
SessionCache's "one turn per user" rest on MessageLoop's `OneThreadPerUser`;
MessageLoop's batches on MessageMerge; SharedDeps is AgentGraph's `react_node`
seen from several users; Channel takes "a user's messages are dispatched when
its thread is free" from MessageLoop; ToolRegistry's connect is McpStdio's
handshake in one step per wait.

## The runs

| Run | Properties | What it shows |
|---|---|---|
| `loop` | `OneThreadPerUser`, `ArrivalOrder`, `Accounted`, `KeepsLines`, `EveryMessageSettles`; assumption `BatchesMerge` | two threads never answer one user; a user's messages stay in order; the loop implements UserLines; each message is in exactly one place; no queue is wedged; merging again keeps words |
| `graph` | `HistoryAccepted`, `MessageReachesModel`, `WaitsIffPrompted`, `RepliesUsedOnce`, `TaskBounded` | see below |
| `graph_refused` | `RefusedNeverRuns`, violated | what the user refused with N runs all the same (deviation 1) |
| `shared` | `AnswerText`, `SkillsOffered`, `TurnsEnd`; assumption `AnswersSplit` | overlapping turns still repeat no text and offer a triggered skill to the first call; turns on their own deliver the whole answer and offer no foreign skill; all turns end; no text is lost by cutting |
| `tasks` | `OwnerNotified`, `OwnSubtitles`, `EveryJobReported` | notifications, lost ones too, and `cancel` races; subtitle jobs one after the other keep their sound |
| `stream` | `WholeBody`, `OneLoop`, `CallsEnd` | a finished file is whole; one loop thread; only an abandoned stream can block it for good |
| `mcp` | `Responses`, `HandshakeFirst`, `CallsReturn` | responses are never shared, a lone call gets its own; the handshake is never overtaken; calls always return |
| `cache` | `SessionsBounded`, `NoTurnFails` | how far races may exceed the limit, and correctness without them |
| `service` | `OneAgent`, `SignalFiles`, `StoppedIsStopped`, `RequestsServed` | requests on their own keep one agent, true files and true answers; every request is answered and a stop takes effect in any case |
| `config` | `SecretsSurvive`, `Implements`, `SaveMeansEdit` | saves are atomic per file, keep secrets, and change for an agent what the user changed |
| `tools` | `RegistryTypeOK`, `ToolsAndClients`, `ViewsCurrent`, `SkillsMatchFiles` | whatever was connected, renamed and removed before, tables, clients, files and views agree |
| `channel` | `ChannelTypeOK`, `SessionSurvives`, `CursorSound`, `ReplyInContext`, `LoginEnds` | what a restart finds, which context an answer has, that a login ends |

A property that joins several is defined from named parts, each with its comment:
`MessageReachesModel` is `RequestReachesModel /\ PictureOfThisMessage`, and so on.
Where a module's `TypeOK` is not in a run, it is proved (see
[The proofs](#the-proofs)).

The properties of `graph` in words. `HistoryAccepted`: the model is never called
with a tool request that lacks a result or a result without its request.
`MessageReachesModel`: a new message and its picture are in the conversation of
its turn, and no earlier picture is shown or described beside it, so the guess
"this run resumes an interrupted one" is never wrong the harmful way; only a
message without a picture is given the descriptions of earlier ones
(`react.py:305-315`). `WaitsIffPrompted`: the graph waits at `wait_user` exactly
when the last thing the agent sent, or failed to send, is the prompt.
`RepliesUsedOnce`: a confirmed operation runs at most once, never before a reply
(or the message that is taken for one, when the prompt was lost), and the cancel
branch of `_after_classify` is dead code. `TaskBounded`:
at most three prompts and MAX_TOOL_ROUNDS rounds for each.

The other joined properties. `AnswerText`: no streamed chunk is sent again at the
end of the turn, and streamed part and remainder are the whole answer.
`SkillsOffered`: what injecting skills into the shared list promises a model
call. `CallsEnd`: requests and downloads end. `Responses`: no response is
shared; a lone call gets its own. `SessionsBounded`: the limit for turns on their
own, and the bound for races. `SignalFiles`: ready means listening, and no agent
is told to leave by an old shutdown file. `RequestsServed`: every request is
answered and a stop takes effect. `ToolsAndClients`: tables match clients, and no
server process is left without one. `CursorSound`: the saved cursor is not past a
context it lacks, but for messages the parser skipped or lost, and not before an
answered message. `ReplyInContext`: answers and files go to their user's context.
`EveryJobReported` is about the call of `on_complete`: every job that is not
cancelled comes to it, and a message that is not sent (deviation 27) holds nobody
up.

Several properties carry a condition (`NoFailure`, `~faults.cut`, `~overlap`,
`~raced`, `~mixed`, `~clash`, `"race" \notin seen`, `odd`, `Abandoned`). It is
part of the result: each run also reaches the states outside the condition,
where the unconditional property fails, and
[Known deviations](#known-deviations) says how. The conditions are as weak as
the code allows: they name the one event that breaks the promise.

Bounds and why they are enough.

- `loop`: two users, two messages, answers of up to two messages, two texts (a
  duplicate and a different one), one re-login. Two messages of one user are
  what requeue, merge and dedup need; a second user what the shared structures
  need. The safety part is also proved without bounds. Batches of up to three
  for merging: one before, one at and one behind the point of the requeue.
- `graph`: four calls in batches of two reach the fourth confirmation request of
  a task, an interrupt in the middle of a batch and a repair; four turns reach
  prompt, reply, second prompt, new task. What a reply says does not change what
  the graph does with it (deviation 1), so any input stands for Y and N.
  `MAX_HISTORY = 8` is small enough to cut histories; one failure (`MaxErrors`:
  of a model call or of a send) and one restart can hit any step.
- `shared`: three turns, so that one turn spans the end of one and the start of
  another; two chunks per answer, so that a part can be streamed. Texts of up to
  seven characters against a limit of three: two cuts and a joined pair.
- `tasks`: three jobs, two of them subtitle jobs, two workers, two seconds: a job
  waits, ids repeat, a file is left behind. The clock stops when the last job is
  named: nothing else reads it.
- `stream`: four chunks against a queue of two, so that the producer blocks;
  three callers that start the loop.
- `mcp`: three calls can all be under way with a notification in between; a pipe
  of one line is full after one.
- `cache`: four users for two places, six turns, two at a time.
- `service`: two requests are all that can meet; four processes and two upsets.
- `config`: two users, two saves, two values; the five pages cover both files,
  merged and replaced sections, shared sections, secrets and the special
  fields (TLC's `Pages`; the proofs are for all thirteen).
- `tools`: three requests: two that change something and one that sees it; the
  name of one server is a prefix of the other's.
- `channel`: two users, two messages of any kind, in one answer or two, two
  codes, two lives, three polls.

All deadlock checks are off: each module has bounds on its inputs, so each model
stops when they are used up; "never stuck" is stated as liveness instead.

## Fairness

- `MessageLoop`: the main thread and the dispatch threads are scheduled (weak);
  the poll answers and a login succeeds if tried again and again, and the
  debounce delay passes (strong), because these actions are disabled and enabled
  again by the loop. Model, tool and send calls have timeouts, so threads end.
  Signals, expiry and shutdown are not fair.
- `SharedDeps`: asyncio's ready queue is FIFO, so a queued turn is not passed
  over for ever: strong fairness of each turn's steps.
- `TaskManager`: pool threads are scheduled, jobs run subprocesses with timeouts.
- `StreamBridge`: the loop serves its coroutines in turn and httpx has timeouts
  (strong, since `blocked` disables them); a consumer inside its `with` reads on.
  Leaving is never forced.
- `McpStdio`: threads are scheduled and the server answers what it reads; its
  exit, a notification and a disconnect are not forced.
- `ServiceControl`: handlers wait with timeouts everywhere; the agent's loop goes
  on and its poll ends. Failures, requests and restarts are not forced.
- `Channel`: the login's thread and saving threads are scheduled, a user who is
  asked for a number enters one. Scans, confirmations and expiry are not forced.

## The proofs

Every component that has state is proved about, from the assumptions on its
constants (`LoopAssumption`, `GraphAssumption`, ...) and nothing else, so for any
number of users, threads, messages, chunks, calls and processes. Each proof goes
from an inductive invariant, one lemma for its start, one for its steps with a
case per action, and a last temporal step. Where an invariant has several parts,
lemmas named after the actions (`PollDoes`, `RunToolDoes`, ...) say once what each
changes. Five proof modules have one component each; ToolProofs, InterfaceProofs
and ConsoleProofs have two.

- **MessageLoopProofs**: `TypeOK` in groups of variables; `BusyMatchesThreads`
  with `OneThreadPerUser`, neither of which is inductive alone: that a user has
  one thread needs that `processing_uids` names exactly the users with threads,
  and a thread's last step frees its user only because it was the only one.
  `ArrivalOrder` joins handled, running, pending and just received messages in
  one sequence per user, whose numbers only grow; `HandledInOrder` follows.
  `Accounted` from `Placed` (the six places a message can be in are pairwise
  disjoint and, while the loop runs, cover the log) and `Owned` (queues and
  threads hold messages of their own user, so emptying one takes nothing from
  another): each action moves a set of messages from one place to another.
  `LinesKept` is the refinement of UserLines: because a user has at most one
  thread, what it answers is a function of `threads`; `ArrivalOrder` puts an
  arriving message behind all of its user's; a user who is busy is never started
  (`StartThread` is `Serve`), a requeue puts back what was taken (a stutter), a
  duplicate or a re-login empties whole lines (`Drop`), and the exit is `Close`.
- **AgentGraphProofs**: `Conversation` joins what holds always, while no model
  call has failed, and while in addition no history was cut. `Types`; `Replies`
  (no operation has run, and none is about to, without a reply); `Phase` (where
  a turn stands, what the session holds and what the user was sent agree), from
  which `WaitsIffPrompted` follows; `Once` (the calls still to do have not run);
  `Prompted` and `Rounds` (the prompts so far pay for the rounds so far) for
  `TaskBounded`; `Picture`, `Own` (stored user messages are of earlier turns, and
  the current one describes no picture but its own) and `Taken` (the stored
  history is settled whenever no reply is being dealt with, so `react_node` never
  mistakes a new message for a resumption) for `MessageReachesModel`; `History` for `HistoryAccepted`: in
  `Shape` every request but the last is followed by one result for each of its
  calls, the open calls of the last are the batch under way, or those a pending
  confirmation will find repaired. It needs what `FixOrphaned`, `AddMessages`
  and `Trim` do to any history of that shape. They are built from `FlattenSeq`,
  a recursive function of the library: its facts (`FlattenAppend`, ...) are
  proved by minimal counterexample from the least element of a set of naturals.
- **InterfaceProofs**, for StreamBridge: `OneLoop` from `StartInv` (who holds
  the lock, and what it has seen of the flag). `WholeBody` from `ShapeInv`: for
  each stream what the file has, what is in the queue and what is stuck in `put`
  are, in this order, the chunks of the body produced so far, and an end marker
  is last. For Channel: `Typed` and `Placed` (types, the context tokens of a
  session are those of its users' messages, what goes on in which state of the
  process) give `ChannelTypeOK`. `SessionSurvives` from `Lone` (until two saves
  overlap there is one at a time) and `Ready` (the file is torn exactly while it
  is being saved). `ReplyInContext` from `InOrder` (the cursor has passed every
  parsed message, and no parsed one is newer than one that is not) and
  `Answered` (the session a thread works with has a context token for what it
  answers). `CursorSound` from `Covered` (all messages between the first poll of
  a login and a session's cursor left their token in it, also in the copy a save
  has half taken, but for empty and lost ones) and `NotAgain` (the session the
  server accepts is the newest one and is past all that was answered), with
  `Newest`.
- **ToolProofs**, for TaskManager: `TypeOK` with `Tables` (which ids and futures
  exist, by how far each `submit` is). `OwnerNotified` and `StatusForward` from
  `Apart`: while submissions do not meet, records are pairwise different and
  agree with their jobs, reported or not. `OwnSubtitles` from `Sound`: unless an
  earlier process left it, the file is there only while the one job that made it
  is at work. For ToolRegistry: `Registry`
  (types, and which request can be where) and `Alone` (two requests under way
  share only what is marked `odd`). `ToolsAndClients` from `Wired`: a server's
  tools are in the tables only with an open client that is its own, or while its
  disconnect is still at work. `ViewsCurrent` from `Viewed`: the view is current
  or a request is on its way to rebuild it from the tables as they are.
  `SkillsMatchFiles` from `Filed`: table and file agree or one request is
  between the two.
- **McpStdioProofs**: `TypeOK` with `Numbers` (ids count the requests).
  `Responses` from `OnePlace` and `OneAnswer` (a request and its answer are in
  one place of stdin, server, stdout and results), `InTurn`, and `Alone`: while
  nothing was disturbed, only the operation under way can be anywhere in the
  pipes. `HandshakeFirst` from `HandshakeSent`: as long as the server lives,
  each step of the handshake is written before the next, and before any call.
- **ConsoleProofs**, for ServiceControl: `Orderly` says for every place of the
  one request under way which processes may be alive, what `_process` is and
  what the files hold; it is kept as long as no request meets another.
  `OneAgent`, `SignalFiles` and `StoppedIsStopped` follow. For ConfigStore:
  `Types` and `Forms`; `Exclusive` (the lock is held exactly by the save at
  work); `SecretsSurvive` from `Unmasked` (what a save read and what a form
  shows contain the mask only where it is skipped). The refinement `Implements`
  needs `ReadIsCurrent`: what a save read is what the file held when it was
  emptied. Under `Logical`, `Write` is AtomicFiles' `Save`, a restart of the
  console may be its `Lose`, every other step stutters. `SaveMeansEdit` needs
  the same invariant and that a page which replaces a section has all its
  fields.
- **SessionCacheProofs**: `SessionsBounded` from `Fresh` (who is about to insert
  is absent) and `Room` (entries of the dict plus the turns whose entry is
  missing never exceed the limit, counting one for each other turn once a race
  was seen); `NoTurnFails` with `Swept` and `Calm` in addition.
- **SharedDepsProofs**: `SkillsOffered` from `LoopHeld` (who holds the loop is
  where), `FirstOffer`, `OneTurn` and `OwnSkill` (without overlap the list has
  the skill of the turn under way or nothing). `AnswerText` from `LastCallback`
  (a user's callback is of its last turn), `Text` (chunks of the answer that a
  user has are at most as many as its turn has counted, and they are there only
  if the turn's callback is its own) and `Whole` (without overlap the count is
  the length of what was received).

Proved but in no run, because the proof says more than an instance could:
`TypeOK` of all modules but ToolRegistry and Channel, `BusyMatchesThreads`,
`HandledInOrder`, `StatusForward`, `Exclusive`.

Model-checked only: liveness (`EveryMessageSettles`, `TurnsEnd`,
`EveryJobReported`, `CallsEnd`, `CallsReturn`, `RequestsServed`, `LoginEnds`),
which is beyond TLAPS under fairness; and what MessageMerge and AnswerSplit
compute (`BatchesMerge`, `AnswersSplit`), which TLC evaluates for all inputs
within the bounds. Every safety property of a passing run is a theorem.

## Known deviations

Found by a run (`PROJECT.json`, `findings`):

1. `README.md:106` "危险操作人工确认（Y/N）": N executes too (`graph_refused`).

Sentences of comments and documentation that the models refute. The modules keep
the refuted property; a `.cfg` with that one property shows the run.

2. `main.py:206` "将消息放回队列等待": a requeued batch equals its own dedup record
   and is dropped (`MessageLoop!SkipsOnlyRepeats`).
3. `main.py:151`: after a re-login the dispatcher answers on the expired session
   (`MessageLoop!AnswersOnCurrentSession`).
4. `README.md:183` "按微信用户 ID 隔离": one `stream_callback` for all users
   (`SharedDeps!NoForeignText`).
5. `network/async_client.py:3` "非阻塞连接管理": a blocking `put` on the loop thread
   (`StreamBridge!CallsServed`).
6. The llm page says a restart applies its values, while `config.py:9` lets an
   inherited environment win (`ConfigStore!RestartApplies`).

Behind the conditions of the passing runs; dropping a condition makes TLC show
the behaviour:

7. `NoFailure` in AgentGraph: when a model call fails after a confirmed
   operation, nothing is saved, `dispatcher.py:129` starts the next run from the
   stale session, and the pending confirmation is back: the operation can run
   twice. A picture of the failed turn is shown with the next text message, and
   an answer the session still has can be sent in place of a prompt. A send that
   fails needs no condition, but see 28.
8. `~faults.cut`: `_trim` (`react.py:407`) cuts new messages before
   `add_messages` stores them; a lost repair is repeated in the wrong place.
9. `TaskBounded`: `README.md:315` calls MAX_TOOL_ROUNDS "每任务最大工具调用轮数";
   the count starts anew after each confirmation.
10. `/cal`, `/doc`, `/msg` (`graph.py:122`) end at `END` with nothing done and
    nothing said, and a picture that came with one stays for the next message.
    After Y, only four confirmation types and details with a
    `tool_name` are executed (`graph.py:187-267`; kind `bare` in AgentGraph).
11. `~overlap` in `SkillsAsTriggered`: `react.py:98` "避免跨用户污染": overlapping
    turns restore each other's tool lists.
12. `AnswerComplete`: text streamed before tool calls is counted against the
    final answer, whose beginning is then not sent (`dispatcher.py:165`).
13. `~raced` in TaskManager: ids are second and size, read before the lock
    (`tasks/manager.py:45`); two submissions share an id and one user is told of
    the other's job. `~mixed`: subtitle jobs share `audio_temp.wav`; a failed one
    or killed one leaves it, ffmpeg without `-y` does not replace it, and its
    result is not looked at, so the next job transcribes the old video.
14. `~raced` in McpStdio: responses are read without the lock and without
    comparing ids (`mcp_client/client.py:150`). One notification shifts all
    responses; `list_tools` then reads the answer to `initialize`: no tools.
15. `seen` in SessionCache: an answer to a prompt puts an evicted session back
    over the limit (`dispatcher.py:64`); another user's eviction between `in` and
    `pop` ends a turn with a `KeyError` (`dispatcher.py:46`).
16. `clash` in ServiceControl: two starts, or a start beside an agent the look-up
    does not see, make two agents; a killed agent leaves its signal files.
17. `odd` in ToolRegistry: disconnecting `a` removes the tools of `a_b`; a
    reconnect overwrites a client without closing it; a client whose start fails
    half-way stays open; renaming a skill leaves the old file; an update without
    triggers leaves the old entry; a file torn by a stop stays.
18. `odd` in Channel: a process that ends during a save, overlapping saves, or a
    key added while `json.dump` iterates leave a `session.json` on which every
    start fails; a save between cursor and contexts loses context tokens; a
    thread of an old login may save the old token over the new one.

Seen while modelling, outside the properties:

19. `README.md:107` "SQLite 持久化": without `langgraph-checkpoint-sqlite`, which
    `requirements.txt` does not list, `build_agent_graph` uses `MemorySaver`;
    AgentGraph's `Restart` loses the checkpoints accordingly.
20. Merging keeps one picture or file, and a batch merged again loses further
    voices, or, behind a picture whose item has no link, the file
    (`message.py:43-55`); the second of two voices is not transcribed; the answer
    to a prompt drops its media; a file hides the other media in `react_node`.
21. `streaming.py:38`: paragraphs are joined with two characters and counted with
    one; the second cut repairs it.
22. MCP: the console is a process of its own, so its registry and refresh do not
    reach the agent (`routes/mcp.py:70`); `_mcp_handlers` keeps entries after a
    disconnect, so `/api/mcp/status` says connected; `list_tools` swallows errors;
    `transport.py:52` calls `.send()` on a request, which httpx does not have, so
    SSE never starts; connecting pops `app_id_env` from the shared configuration.
23. Tools: enable switches are not persisted, do not reach the model's list and do
    not find skills by name; skill routes do not refresh list and index; skills'
    triggers are not in the index; `ToolRegistry.reload` is never called; a skill
    without triggers has a file and no entry.
24. Files: the console's signal files are under PROJECT_ROOT, the agent's under
    `DATA_DIR`, which a customised workspace moves. Saving an unedited page writes
    empty values for missing keys; two defaults differ between console and agent;
    `max_tokens` and `file_size_limit_mb` are never saved; `workspace.dir` of the
    yaml is not read by the agent; the router page writes the console's
    environment; a stale form overwrites other saves; unlocked readers can meet an
    emptied file.
25. Login: it looks at no shutdown file and `input()` waits for ever; an answer
    without `ilink_bot_id` or a bound code ends the process; a failed re-login
    leaves the ready file; `send_message` does not look at `ret`, and
    `_send_media_item` (`upload.py:168-176`) at nothing else: an empty body, an
    `errcode` or a file without a `download_param` (`upload.py:135-139`) counts as
    sent. The cursor is saved before messages are dispatched: a crash loses them.
    So does, for its whole answer, a message the parser fails on (an item that is
    no dict, `receiver.py:76`; a file length that is no number, `receiver.py:110`),
    because the cursor moved at line 57. The context token of a message without
    content is not noted (`receiver.py:66`).
26. `tasks/monitor.py`'s call of `send_message` misses the session argument; a
    changed page is monitored on with the default interval and a new baseline.
27. `tools/builtin/download.py:133` "完成后通知你", as in `media.py:107`: the message
    of `on_complete` is sent once, and a failure is passed over
    (`dispatcher.py:205-209`): the user is never told.
28. `dispatcher.py:152`: the state is saved before the prompt is sent. If the send
    fails, the graph waits for the reply to a prompt nobody saw, and the next
    message of the user, whatever it says, carries the operation out.
29. `README.md:183` again: `find_recent_image_files` (`message.py:184`) quotes the
    newest images of the last five minutes, whoever sent them, and
    `save_recent_images` names a file by its second alone, so that two users'
    pictures can replace each other. A description that was quoted is quoted
    again as long as each such message comes within six of the one before.

## Not modelled

Pure I/O and conversions (AES, HTTP headers, parsers, LLM formats, prompt text),
decision tables (security), the front end, and what only third-party code does
(ChromaDB, APScheduler, aria2, Feishu). The Feishu token is written after its
lock is released but with no `await` in between, so nothing can come between on
one loop; `cost_stats.json` torn by an exit starts at zero again. In the modelled
parts: start-up order in `init_phase3`, the dry run, the legacy agent loop, the
content of messages and media, the interrupt classification's plan fields, the
process pool, the HTTP and SSE transports of MCP. Components in `PROJECT.json`
give the reason for each.

## Plan

Done: MessageLoop, MessageMerge, AgentGraph, SharedDeps, AnswerSplit,
SessionCache, TaskManager, StreamBridge, McpStdio, ToolRegistry, Channel,
ServiceControl, ConfigStore with AtomicFiles, UserLines; proofs about all of them
but the two pure algorithms.

What is left, in this order:

1. Proofs: that no message of `split_for_wechat` exceeds the limit, for every text
   (AnswerSplit's `FitsMessages`), which needs that the recursion of `LongSplit`
   has a solution; that merging again loses no text, for every batch.
2. Models: the file indexer's two threads (an older text under a newer time), the
   page monitor, the legacy loop.
3. Abstract specifications: a confirmation protocol for AgentGraph, a byte stream
   for StreamBridge.
