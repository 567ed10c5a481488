----------------------------- MODULE ToolRegistry -----------------------------
(***************************************************************************)
(* The tables of tools (tools/registry.py), the MCP loader that fills them *)
(* (mcp_client/loader.py), the skill files, the list of tools for the      *)
(* model and the search index built from the tables, under the console's   *)
(* requests (web/api/routes/mcp.py, tools.py).                             *)
(*                                                                         *)
(* connect and disconnect are coroutines of one event loop and give it up  *)
(* where they wait for the server; the other requests run in threads and   *)
(* interleave with everything at every access to a table or a file.        *)
(***************************************************************************)
EXTENDS Naturals, FiniteSets

CONSTANTS Servers,       \* the configured MCP servers
          Shadows,       \* pairs <<s, t>>: the name of t begins with s and "_"
          Names,         \* what servers call their tools
          Skills,        \* names of skills
          Given,         \* the skill whose file is there at first
          MaxRequests    \* bound: requests, numbered as they arrive

ASSUME RegistryAssumption ==
    /\ Shadows \subseteq {p \in Servers \X Servers : p[1] # p[2]}
    /\ Given \in Skills /\ MaxRequests \in Nat

Requests == 1..MaxRequests
Nobody == 0
McpTools == Servers \X Names                   \* mcp_<server>_<name>

\* A skill as saved by a request; Torn: its file is open for writing.
Saved == [triggers : BOOLEAN, by : Requests \cup {0}]
NoSkill == [triggers |-> FALSE, by |-> MaxRequests + 1]
Torn == [triggers |-> FALSE, by |-> MaxRequests + 2]

Jobs == [op : {"connect", "disconnect"}, server : Servers]
        \cup [op : {"reload", "searchOn", "searchOff"}]
        \cup [op : {"create", "delete", "generate"}, skill : Skills, triggers : BOOLEAN]
        \cup [op : {"update"}, skill : Skills, to : Skills, triggers : BOOLEAN]

VARIABLES
    tools,      \* MCP tools in _tools and _metas
    handlers,   \* MCP tools in _mcp_handlers
    clients,    \* loader._clients: per server, the request that opened it
    loaded,     \* loader._tools: per server, the tools registered for it
    open,       \* clients whose process or connection is there
    search,     \* TOOL_SEARCH_ENABLED
    llm,        \* MCP tools in ALL_TOOLS
    index,      \* MCP tools in the search index
    skill,      \* per name, the skill in the tables
    file,       \* per name, the skill's file
    pc, asked,  \* per request, where it is and what it is
    seen,       \* per request, what its refresh or its server listed
    loop,       \* the coroutine that holds the event loop
    odd         \* history: names and servers for which agreement is not claimed,
                \*   "index" for the index

tables == <<tools, handlers>>
loader == <<clients, loaded, open>>
views == <<search, llm, index>>
store == <<skill, file>>
requests == <<pc, asked, seen, loop>>
registryVars == <<tables, loader, views, store, requests, odd>>

Over == {"idle", "ok", "failed"}
UnderWay == {r \in Requests : pc[r] \notin Over}
Free(r) == loop \in {Nobody, r}
Go(r, there) == pc' = [pc EXCEPT ![r] = there] /\ UNCHANGED asked
IsMcp(r) == asked[r].op \in {"connect", "disconnect"}
Touches(j) == CASE j.op \in {"connect", "disconnect"} -> {j.server}
                [] j.op = "update" -> {j.skill, j.to}
                [] j.op \in {"create", "delete", "generate"} -> {j.skill}
                [] OTHER -> {}

\* discover: a skill is what its file says, if that can be read and has triggers.
Loads(f) == IF f.by \in Requests \cup {0} /\ f.triggers THEN f ELSE NoSkill

RegistryInit ==
    /\ tools = {} /\ handlers = {}
    /\ clients = [s \in Servers |-> Nobody] /\ loaded = [s \in Servers |-> {}] /\ open = {}
    /\ search \in BOOLEAN /\ llm = {} /\ index = {}
    /\ file = [k \in Skills |-> IF k = Given THEN [triggers |-> TRUE, by |-> 0] ELSE NoSkill]
    /\ skill = [k \in Skills |-> Loads(file[k])]
    /\ pc = [r \in Requests |-> "idle"] /\ asked = [r \in Requests |-> [op |-> "reload"]]
    /\ seen = [r \in Requests |-> {}] /\ loop = Nobody /\ odd = {}

\* A request arrives.  For what two requests under way both work on, and for the
\* index when one of them rebuilds it in a thread, nothing is claimed from then on.
Issue(r, j) ==
    /\ pc[r] = "idle" /\ \A q \in 1..(r - 1) : pc[q] # "idle"
    /\ asked' = [asked EXCEPT ![r] = j]
    /\ pc' = [pc EXCEPT ![r] = CASE j.op \in {"connect", "disconnect"} -> j.op
                                 [] j.op \in {"reload", "searchOn", "searchOff"} -> "list"
                                 [] OTHER -> "check"]
    /\ search' = CASE j.op = "searchOn" -> TRUE [] j.op = "searchOff" -> FALSE [] OTHER -> search
    /\ odd' = odd \cup {x \in Touches(j) : \E q \in UnderWay : x \in Touches(asked[q])}
                  \cup {x \in {"index"} : \E q \in UnderWay :
                            {j.op, asked[q].op} \cap {"reload", "searchOn", "searchOff"} # {}}
    /\ UNCHANGED <<tables, loader, llm, index, store, seen, loop>>
-----------------------------------------------------------------------------
\* connect_server: the client starts its server and shakes hands; a client that
\* fails when it is half started is not closed.
Connect(r) ==
    /\ pc[r] = "connect" /\ loop = Nobody
    /\ \/ open' = open \cup {r} /\ Go(r, "load") /\ UNCHANGED odd
       \/ open' \in {open, open \cup {r}} /\ Go(r, "failed")
          /\ odd' = odd \cup (IF r \in open' THEN {asked[r].server} ELSE {})
    /\ UNCHANGED <<tables, clients, loaded, views, store, seen, loop>>

\* load_server keeps the client, whatever client was there, and asks for its
\* tools; an answer of another form ends the request ...
Load(r) ==
    LET s == asked[r].server IN
    /\ pc[r] = "load" /\ loop = Nobody
    /\ clients' = [clients EXCEPT ![s] = r]
    /\ odd' = odd \cup (IF clients[s] \in open THEN {s} ELSE {})
    /\ Go(r, "listing")
    /\ UNCHANGED <<tables, loaded, open, views, store, seen, loop>>

ListFails(r) ==
    /\ pc[r] = "listing" /\ loop = Nobody /\ Go(r, "failed")
    /\ UNCHANGED <<tables, loader, views, store, seen, loop, odd>>

\* Mutant of Register: the tools are registered like built-in ones.
RegisterPlain(r, offered) ==
    LET s == asked[r].server  new == {s} \X offered IN
    /\ pc[r] = "listing" /\ loop = Nobody /\ (r \notin open => offered = {})
    /\ tools' = tools \cup new
    /\ loaded' = [loaded EXCEPT ![s] = new]
    /\ loop' = r /\ Go(r, "list")
    /\ UNCHANGED <<handlers, clients, open, views, store, seen, odd>>

\* ... and registers them: none if the client was closed meanwhile.
Register(r, offered) ==
    LET s == asked[r].server  new == {s} \X offered IN
    /\ pc[r] = "listing" /\ loop = Nobody /\ (r \notin open => offered = {})
    /\ tools' = tools \cup new /\ handlers' = handlers \cup new
    /\ loaded' = [loaded EXCEPT ![s] = new]
    /\ loop' = r /\ Go(r, "list")
    /\ UNCHANGED <<clients, open, views, store, seen, odd>>

\* Mutant of Unload: the client is dropped, not closed.
UnloadDropped(r) ==
    LET s == asked[r].server IN
    /\ pc[r] = "disconnect" /\ loop = Nobody
    /\ tools' = tools \ loaded[s] /\ loaded' = [loaded EXCEPT ![s] = {}]
    /\ clients' = [clients EXCEPT ![s] = Nobody] /\ open' = open
    /\ Go(r, "unregister")
    /\ UNCHANGED <<handlers, views, store, seen, loop, odd>>

\* unload_server: unregister leaves _mcp_handlers alone; then the client is closed.
Unload(r) ==
    LET s == asked[r].server IN
    /\ pc[r] = "disconnect" /\ loop = Nobody
    /\ tools' = tools \ loaded[s] /\ loaded' = [loaded EXCEPT ![s] = {}]
    /\ clients' = [clients EXCEPT ![s] = Nobody] /\ open' = open \ {clients[s]}
    /\ Go(r, "unregister")
    /\ UNCHANGED <<handlers, views, store, seen, loop, odd>>

Matching(s) == {tool \in tools : tool[1] = s \/ <<s, tool[1]>> \in Shadows}

\* unregister_mcp goes by the prefix of the names that are still in _tools.
UnregisterMcp(r) ==
    LET s == asked[r].server IN
    /\ pc[r] = "unregister" /\ loop = Nobody
    /\ tools' = tools \ Matching(s) /\ handlers' = handlers \ Matching(s)
    /\ odd' = odd \cup {t \in Servers : <<s, t>> \in Shadows}
    /\ loop' = r /\ Go(r, "list")
    /\ UNCHANGED <<loader, views, store, seen>>
-----------------------------------------------------------------------------
\* The list for the model: the tools themselves, or the three bridge tools (the
\* tools that are listed beside them, none by default, are left out).  A table
\* is read in one step: that one grows under the walk and ends it is left out.
List(r) ==
    /\ pc[r] = "list" /\ (IsMcp(r) => Free(r))
    /\ llm' = IF search THEN {} ELSE tools
    /\ IF search THEN Go(r, "clear") /\ loop' = loop
       ELSE Go(r, "ok") /\ loop' = IF loop = r THEN Nobody ELSE loop
    /\ UNCHANGED <<tables, loader, search, index, store, seen, odd>>

\* Mutant of Clear: the old index is kept and added to.
ClearNot(r) ==
    /\ pc[r] = "clear"
    /\ seen' = [seen EXCEPT ![r] = tools]
    /\ Go(r, "fill")
    /\ UNCHANGED <<tables, loader, views, store, loop, odd>>

\* Then build_index clears the index and takes the tools there are ...
Clear(r) ==
    /\ pc[r] = "clear"
    /\ index' = {} /\ seen' = [seen EXCEPT ![r] = tools]
    /\ Go(r, "fill")
    /\ UNCHANGED <<tables, loader, search, llm, store, loop, odd>>

\* ... and adds them.
Fill(r) ==
    /\ pc[r] = "fill"
    /\ index' = index \cup seen[r] /\ seen' = [seen EXCEPT ![r] = {}]
    /\ loop' = IF loop = r THEN Nobody ELSE loop
    /\ Go(r, "ok")
    /\ UNCHANGED <<tables, loader, search, llm, store, odd>>
-----------------------------------------------------------------------------
\* The skill requests: what is looked up first ...
Check(r) ==
    LET j == asked[r] IN
    /\ pc[r] = "check"
    /\ CASE j.op = "create" -> Go(r, IF file[j.skill] # NoSkill THEN "failed" ELSE "cut")
         [] j.op = "update" ->
                Go(r, IF skill[j.skill] = NoSkill \/ file[j.skill] = NoSkill THEN "failed" ELSE "cut")
         [] j.op = "delete" -> Go(r, IF skill[j.skill] = NoSkill THEN "failed" ELSE "unlink")
         [] j.op = "generate" -> Go(r, "cut")
    /\ UNCHANGED <<tables, loader, views, store, seen, loop, odd>>

Target(j) == IF j.op = "update" THEN j.to ELSE j.skill

\* ... _save_skill_file opens the file and writes it; an update under another
\* name leaves the old file ...
Cut(r) ==
    /\ pc[r] = "cut" /\ Go(r, "write")
    /\ file' = [file EXCEPT ![Target(asked[r])] = Torn]
    /\ UNCHANGED <<tables, loader, views, skill, seen, loop, odd>>

Write(r) ==
    /\ pc[r] = "write" /\ Go(r, "table")
    /\ file' = [file EXCEPT ![Target(asked[r])] = [triggers |-> asked[r].triggers, by |-> r]]
    /\ UNCHANGED <<tables, loader, views, skill, seen, loop, odd>>

\* ... and _register_skill_as_tool, for a skill with triggers, replaces its entry;
\* a renamed skill's entry is removed.
Table(r) ==
    LET j == asked[r]
        kept == IF Target(j) = j.skill THEN skill ELSE [skill EXCEPT ![j.skill] = NoSkill] IN
    /\ pc[r] = "table" /\ Go(r, "ok")
    /\ skill' = IF j.triggers THEN [kept EXCEPT ![Target(j)] = [triggers |-> TRUE, by |-> r]]
                              ELSE kept
    /\ odd' = odd \cup (IF Target(j) # j.skill THEN {j.skill} ELSE {})
                  \cup (IF ~j.triggers THEN {Target(j)} ELSE {})
    /\ UNCHANGED <<tables, loader, views, file, seen, loop>>

\* delete_skill removes the file and the entry.
Unlink(r) ==
    /\ pc[r] = "unlink" /\ Go(r, "remove")
    /\ file' = [file EXCEPT ![asked[r].skill] = NoSkill]
    /\ UNCHANGED <<tables, loader, views, skill, seen, loop, odd>>

\* Mutant of Remove: unregister is given the skill's name, not its tool's.
RemoveByName(r) ==
    /\ pc[r] = "remove" /\ Go(r, "ok")
    /\ UNCHANGED <<tables, loader, views, store, seen, loop, odd>>

Remove(r) ==
    /\ pc[r] = "remove" /\ Go(r, "ok")
    /\ skill' = [skill EXCEPT ![asked[r].skill] = NoSkill]
    /\ UNCHANGED <<tables, loader, views, file, seen, loop, odd>>

\* The console ends and is started again: its servers end with it, the tables
\* are discovered anew, the search mode is the configured one again.
ConsoleRestart ==
    /\ UnderWay # {}
    /\ tools' = {} /\ handlers' = {}
    /\ clients' = [s \in Servers |-> Nobody] /\ loaded' = [s \in Servers |-> {}] /\ open' = {}
    /\ search' \in BOOLEAN /\ llm' = {} /\ index' = {}
    /\ skill' = [k \in Skills |-> Loads(file[k])] /\ UNCHANGED file
    /\ pc' = [r \in Requests |-> IF r \in UnderWay THEN "failed" ELSE pc[r]] /\ UNCHANGED asked
    /\ seen' = [r \in Requests |-> {}] /\ loop' = Nobody /\ odd' = {}

\* refresh_runtime_tools; the console has no graph to hand the list to.
Refresh(r) == List(r) \/ Clear(r) \/ Fill(r)

Step(r) ==
    \/ Connect(r) \/ Load(r) \/ ListFails(r)
    \/ \E offered \in SUBSET Names : Register(r, offered)
    \/ Unload(r) \/ UnregisterMcp(r)
    \/ Refresh(r)
    \/ Check(r) \/ Cut(r) \/ Write(r) \/ Table(r) \/ Unlink(r) \/ Remove(r)

RegistryNext ==
    \/ \E r \in Requests : (\E j \in Jobs : Issue(r, j)) \/ Step(r)
    \/ ConsoleRestart

RegistrySpec == RegistryInit /\ [][RegistryNext]_registryVars
-----------------------------------------------------------------------------
Places == Over \cup {"connect", "load", "listing", "disconnect", "unregister", "list",
                     "clear", "fill", "check", "cut", "write", "table", "unlink", "remove"}

\* The variables have their types; a tool in the tables has its MCP handler.
RegistryTypeOK ==
    /\ tools \subseteq handlers /\ handlers \subseteq McpTools
    /\ clients \in [Servers -> Requests \cup {Nobody}]
    /\ loaded \in [Servers -> SUBSET McpTools] /\ open \subseteq Requests
    /\ search \in BOOLEAN /\ llm \subseteq McpTools /\ index \subseteq McpTools
    /\ skill \in [Skills -> Saved \cup {NoSkill}]
    /\ file \in [Skills -> Saved \cup {NoSkill, Torn}]
    /\ pc \in [Requests -> Places] /\ asked \in [Requests -> Jobs]
    /\ seen \in [Requests -> SUBSET McpTools] /\ loop \in Requests \cup {Nobody}
    /\ odd \subseteq Servers \cup Skills \cup {"index"}

Quiet(x) == x \notin odd /\ \A r \in UnderWay : x \notin Touches(asked[r])

\* A tool of a server is in the tables only while there is a client to call it
\* with, and all tools of a server that is connected are: whatever was connected,
\* reconnected with other tools, and disconnected before.
ToolsMatchClients ==
    \A s \in Servers : Quiet(s) =>
        /\ clients[s] = Nobody => \A tool \in tools : tool[1] # s
        /\ loaded[s] \subseteq tools
        /\ clients[s] \in open \cup {Nobody}

\* No server process is left behind by a disconnect.
NoStrayClient ==
    \A r \in open : \/ r \in UnderWay \/ clients[asked[r].server] = r
                    \/ asked[r].server \in odd

\* Tables, clients and server processes agree once nobody is changing them.
ToolsAndClients == ToolsMatchClients /\ NoStrayClient

\* Between requests, what the model is offered and what its search finds are the
\* tools there are.
ViewsCurrent ==
    UnderWay = {} /\ "index" \notin odd => IF search THEN index = tools ELSE llm = tools

\* Between requests for it, a skill is in the tables as the next start will find
\* it in its file.
SkillsMatchFiles == \A k \in Skills : Quiet(k) => skill[k] = Loads(file[k])
=============================================================================
