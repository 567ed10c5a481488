------------------------------- MODULE McpStdio -------------------------------
(***************************************************************************)
(* One MCP server as a child process: MCPClient over stdio, the steps of   *)
(* MCPLoader that use it, and the loop of MCPServer.run_stdio at the other *)
(* end of the pipes.                                                       *)
(*                                                                         *)
(* connect_server starts the process and makes the handshake: initialize,  *)
(* the notification initialized, tools/list.  Then the handlers of the     *)
(* server's tools call it, from several turns at the same time.  Every     *)
(* request writes a line under _lock and then reads a line from stdout     *)
(* without it, on a thread of asyncio.to_thread.                           *)
(*                                                                         *)
(* The server answers requests one after the other, logs to stderr while   *)
(* it does so (a pipe of PipeSize lines, emptied by _drain_stderr) and may *)
(* print a notification of its own (line 0), as MCP servers do.  It may    *)
(* exit at any time, and the console may disconnect it; lines already in   *)
(* the pipe can still be read.                                             *)
(***************************************************************************)
EXTENDS Naturals, Sequences, FiniteSets, SequencesExt

CONSTANTS Calls,       \* calls of the server's tools
          Concurrent,  \* calls under way at the same time
          MaxNotices,  \* bound: notifications the server prints
          PipeSize,    \* lines the stderr pipe holds before a write blocks
          CanExit      \* may the server process exit?

Handshake == <<"initialize", "initialized", "list">>
Ops == Calls \cup {"initialize", "initialized", "list"}
MaxId == Cardinality(Calls) + 2        \* a notification has no id

ASSUME McpAssumption ==
    /\ Concurrent \in Nat \ {0} /\ MaxNotices \in Nat /\ PipeSize \in Nat \ {0}
    /\ CanExit \in BOOLEAN /\ IsFiniteSet(Calls)
    /\ Calls \cap {"initialize", "initialized", "list", "none"} = {}

VARIABLES
    nextId,   \* _request_id
    id,       \* per operation, the id of its request
    pc,       \* per operation: new, held, made, written, ended
    client,   \* the loader holds the client (_clients)
    open,     \* close() has not ended yet: _proc is set
    stdin,    \* messages the server has not read
    stdout,   \* lines the server printed: the id answered, 0 a notification
    stderr,   \* number of lines in the stderr pipe
    alive,    \* the process runs
    serving,  \* the message being handled, and how far: <<op, stage>>
    seen,     \* history: the messages the server has handled, in order
    notices,  \* notifications printed so far
    result,   \* per operation, the id in the line it took for its response
    raced     \* history: two calls have been under way at once

callVars == <<nextId, id, raced>>
serverVars == <<stderr, serving, seen>>
vars == <<callVars, pc, client, open, stdin, stdout, alive, serverVars, notices, result>>

NoResult == MaxId + 1                  \* not yet, or an error was returned
Idle == <<"none", "idle">>

Init ==
    /\ nextId = 0 /\ id = [o \in Ops |-> 0] /\ pc = [o \in Ops |-> "new"]
    /\ client = FALSE /\ open = TRUE
    /\ stdin = <<>> /\ stdout = <<>> /\ stderr = 0 /\ alive = TRUE
    /\ serving = Idle /\ seen = <<>> /\ notices = 0
    /\ result = [o \in Ops |-> NoResult] /\ raced = FALSE
-----------------------------------------------------------------------------
(* The client.                                                             *)

UnderWay == {c \in Calls : pc[c] \in {"held", "made", "written"}}

\* load_server registers the tools that list_tools found: those of the answer
\* to tools/list; any other line it reads for it has none.
Offered == pc["list"] = "ended" /\ result["list"] = id["list"]

\* The handler of a tool looks its client up; a server that was disconnected
\* ends the call.
Lookup(c) ==
    /\ pc[c] = "new" /\ Offered /\ Cardinality(UnderWay) < Concurrent
    /\ pc' = [pc EXCEPT ![c] = IF client THEN "held" ELSE "ended"]
    /\ raced' = (raced \/ UnderWay # {})
    /\ UNCHANGED <<nextId, id, client, open, stdin, stdout, alive, serverVars, notices, result>>

\* Mutant of Ready: the handshake does not wait for the answers.
ReadyAtOnce(o) == o \in Calls => pc[o] = "held"

\* Whose turn it is: connect_server awaits one step of the handshake after the
\* other, beginning when the process has lived for half a second.
Ready(o) ==
    CASE o = "initialize"  -> alive
      [] o = "initialized" -> pc["initialize"] = "ended"
      [] o = "list"        -> pc["initialized"] = "ended"
      [] OTHER             -> pc[o] = "held"

\* _send fails at once when the process is gone or the client closed.
Sent(o) == pc' = [pc EXCEPT ![o] = IF open /\ alive THEN "made" ELSE "ended"]

\* load_server stores the client before it asks for the tools.
Stored(o) == client' = (client \/ o = "list")

Waiting(o) == IF o \in Calls THEN pc[o] = "held" ELSE pc[o] = "new"

\* Mutant of Request: the counter starts anew for every call.
RequestSameId(o) ==
    /\ Waiting(o) /\ Ready(o) /\ o # "initialized"
    /\ id' = [id EXCEPT ![o] = nextId + 1] /\ UNCHANGED nextId
    /\ Sent(o) /\ Stored(o)
    /\ UNCHANGED <<open, stdin, stdout, alive, serverVars, notices, result, raced>>

\* _request numbers the request and sends it.
Request(o) ==
    /\ Waiting(o) /\ Ready(o) /\ o # "initialized"
    /\ nextId' = nextId + 1
    /\ id' = [id EXCEPT ![o] = nextId + 1]
    /\ Sent(o) /\ Stored(o)
    /\ UNCHANGED <<open, stdin, stdout, alive, serverVars, notices, result, raced>>

\* initialize() sends its notification, whatever became of the request.
Notify ==
    /\ pc["initialized"] = "new" /\ Ready("initialized")
    /\ Sent("initialized")
    /\ UNCHANGED <<callVars, client, open, stdin, stdout, alive, serverVars, notices, result>>

\* The locked part of _send_stdio; _write_stdio is all of it and awaits no
\* line.  A dead process or a closed client raises.
Write(o) ==
    /\ pc[o] = "made"
    /\ LET up == open /\ alive IN
       /\ pc' = [pc EXCEPT ![o] = IF up /\ o # "initialized" THEN "written" ELSE "ended"]
       /\ stdin' = IF up THEN Append(stdin, o) ELSE stdin
    /\ UNCHANGED <<callVars, client, open, stdout, alive, serverVars, notices, result>>

\* readline without the lock: the next line, whoever it answers; the end of
\* the file raises EOFError.
Read(o) ==
    /\ pc[o] = "written"
    /\ \/ /\ stdout # <<>>
          /\ stdout' = Tail(stdout)
          /\ result' = [result EXCEPT ![o] = Head(stdout)]
       \/ /\ stdout = <<>> /\ ~alive
          /\ UNCHANGED <<stdout, result>>
    /\ pc' = [pc EXCEPT ![o] = "ended"]
    /\ UNCHANGED <<callVars, client, open, stdin, alive, serverVars, notices>>

\* Mutant of DrainStderr: nobody reads the pipe.
DrainNever == FALSE /\ UNCHANGED vars

\* _drain_stderr on its daemon thread: one line.
DrainStderr ==
    /\ open /\ stderr > 0
    /\ stderr' = stderr - 1
    /\ UNCHANGED <<callVars, pc, client, open, stdin, stdout, alive, serving, seen,
                   notices, result>>

\* unload_server forgets the tools and the client, then closes it.
Unload ==
    /\ client
    /\ client' = FALSE
    /\ UNCHANGED <<callVars, pc, open, stdin, stdout, alive, serverVars, notices, result>>

\* The end of close(): the process was asked to terminate, then killed.
Close ==
    /\ ~client /\ pc["list"] # "new" /\ open
    /\ open' = FALSE /\ alive' = FALSE
    /\ UNCHANGED <<callVars, pc, client, stdin, stdout, serverVars, notices, result>>
-----------------------------------------------------------------------------
(* The server process.                                                     *)

ServerReceive ==
    /\ alive /\ serving = Idle /\ stdin # <<>>
    /\ serving' = <<Head(stdin), "received">> /\ stdin' = Tail(stdin)
    /\ seen' = Append(seen, Head(stdin))
    /\ UNCHANGED <<callVars, pc, client, open, stdout, stderr, alive, notices, result>>

\* The handler logs a line; a full pipe blocks it.
ServerLog ==
    /\ alive /\ serving[2] = "received" /\ stderr < PipeSize
    /\ stderr' = stderr + 1 /\ serving' = <<serving[1], "logged">>
    /\ UNCHANGED <<callVars, pc, client, open, stdin, stdout, alive, seen, notices, result>>

\* handle_request: a request gets one response with its id, errors and unknown
\* methods included; a notification gets none.
ResponseTo(o) == IF o = "initialized" THEN <<>> ELSE <<id[o]>>

ServerAnswer ==
    /\ alive /\ serving[2] = "logged"
    /\ serving' = Idle
    /\ stdout' = stdout \o ResponseTo(serving[1])
    /\ UNCHANGED <<callVars, pc, client, open, stdin, stderr, alive, seen, notices, result>>

Notice ==
    /\ alive /\ notices < MaxNotices
    /\ notices' = notices + 1
    /\ stdout' = Append(stdout, 0)
    /\ UNCHANGED <<callVars, pc, client, open, stdin, alive, serverVars, result>>

ServerExits ==
    /\ CanExit /\ alive
    /\ alive' = FALSE
    /\ UNCHANGED <<callVars, pc, client, open, stdin, stdout, serverVars, notices, result>>

Next == \/ \E c \in Calls : Lookup(c)
        \/ \E o \in Ops : Request(o) \/ Write(o) \/ Read(o)
        \/ Notify \/ DrainStderr \/ Unload \/ Close
        \/ ServerReceive \/ ServerLog \/ ServerAnswer \/ Notice \/ ServerExits

Spec == Init /\ [][Next]_vars

\* Threads are scheduled, a close ends within its five seconds, and the server
\* answers what it reads.
Fairness == /\ \A o \in Ops : WF_vars(Request(o)) /\ WF_vars(Write(o)) /\ WF_vars(Read(o))
            /\ WF_vars(Notify) /\ WF_vars(DrainStderr) /\ WF_vars(Close)
            /\ WF_vars(ServerReceive) /\ WF_vars(ServerLog) /\ WF_vars(ServerAnswer)
FairSpec == Spec /\ Fairness
-----------------------------------------------------------------------------
(* Properties.                                                             *)

\* Types of the operations, the pipes and the server.
TypeOK ==
    /\ nextId \in 0..MaxId
    /\ id \in [Ops -> 0..MaxId]
    /\ pc \in [Ops -> {"new", "held", "made", "written", "ended"}]
    /\ client \in BOOLEAN /\ open \in BOOLEAN
    /\ stdin \in Seq(Ops) /\ stdout \in Seq(0..MaxId) /\ stderr \in 0..PipeSize
    /\ serving \in {Idle} \cup (Ops \X {"received", "logged"}) /\ seen \in Seq(Ops)
    /\ alive \in BOOLEAN /\ notices \in 0..MaxNotices
    /\ result \in [Ops -> 0..NoResult] /\ raced \in BOOLEAN

\* No two operations ever get the same response, whatever the order in which
\* their threads write and read (ids of _next_id, one line per readline).
OneResponsePerCall ==
    \A c, d \in Ops : c # d /\ result[c] = result[d] => result[c] \in {0, NoResult}

\* The server handles initialize, initialized and tools/list, in this order,
\* before it sees a call of a tool, even when a notification of its own makes
\* the client take one answer for another (MCPClient.initialize, load_server).
HandshakeFirst == IsPrefix(seen, Handshake) \/ IsPrefix(Handshake, seen)

\* An operation that was begun returns, with a response or an error, even if
\* the server exits or is disconnected in between, and however much it logs
\* ("请求（有 id）会等待响应", "防止管道阻塞").
CallsReturn == \A o \in Ops : pc[o] \in {"held", "made"} ~> pc[o] = "ended"

\* What an operation returns as its response is the response to its own
\* request, as long as calls do not overlap and the server prints nothing else
\* (_send: a request with an id waits for its response).
OwnResponse == ~raced /\ notices = 0 => \A o \in Ops : result[o] \in {id[o], NoResult}

\* Each operation gets its own response, or at least none that another one got
\* when their threads overlap on the one pipe.
Responses == OneResponsePerCall /\ OwnResponse
=============================================================================
