---------------------------- MODULE ServiceControl ----------------------------
(***************************************************************************)
(* The web console's start, stop and restart requests (web/api/routes/     *)
(* service.py) against the agent's process (main.py).  The two sides share *)
(* the process table, a ready file and a shutdown file.  FastAPI runs the  *)
(* handlers in a thread pool without a lock, so requests interleave at     *)
(* every look at a process, a file or the module variable _process.        *)
(*                                                                         *)
(* A handler that waits for a process goes on when it has ended or when    *)
(* its time is up; how long things take is not modelled.                   *)
(***************************************************************************)
EXTENDS Naturals, FiniteSets

CONSTANTS MaxRequests,   \* bound: requests, numbered as they arrive
          MaxAgents,     \* bound: agent processes, numbered as they start
          MaxUpsets      \* bound: agents started from a terminal, process
                         \*   look-ups (wmic) that time out, restarts of the
                         \*   console itself

ASSUME ServiceAssumption ==
    /\ MaxRequests \in Nat /\ MaxAgents \in Nat /\ MaxUpsets \in Nat
    /\ MaxAgents >= MaxRequests + MaxUpsets      \* no start lacks a number

Requests == 1..MaxRequests
Pids == 1..MaxAgents
NoPid == 0                 \* None

VARIABLES
    agent,      \* per process: none, boot, loop, poll, leaving, dead
    proc,       \* _process
    ready,      \* ready_signal exists
    shutdown,   \* shutdown_signal exists
    handling,   \* per request, where its handler is, or its answer
    restart,    \* requests under way that are restarts
    victim,     \* per request under way, the process it waits for
    upsets,     \* upsets so far
    clash,      \* history: two requests were under way at once, a look-up was
                \*   blind, or a user started an agent
    inherited   \* history: processes that found an old shutdown file

files == <<ready, shutdown>>
handlers == <<handling, restart, victim>>
history == <<upsets, clash, inherited>>
serviceVars == <<agent, proc, files, handlers, history>>

ServiceInit ==
    /\ agent = [p \in Pids |-> "none"] /\ proc = NoPid
    /\ ready = FALSE /\ shutdown = FALSE
    /\ handling = [r \in Requests |-> "idle"] /\ restart = {}
    /\ victim = [r \in Requests |-> NoPid]
    /\ upsets = 0 /\ clash = FALSE /\ inherited = {}
-----------------------------------------------------------------------------
IsAlive(p) == p \in Pids /\ agent[p] \in {"boot", "loop", "poll", "leaving"}
Alive == {p \in Pids : IsAlive(p)}
Answers == {"started", "stopped", "already_stopped", "conflict", "error"}
UnderWay == {r \in Requests : handling[r] \notin Answers \cup {"idle"}}

At(r, here) == handling[r] = here
Go(r, there) == handling' = [handling EXCEPT ![r] = there] /\ UNCHANGED restart
Reply(r, a) == handling' = [handling EXCEPT ![r] = a] /\ restart' = restart \ {r}
Waits(r, p) == victim' = [victim EXCEPT ![r] = p]

\* A new process; whether it sees a shutdown file that was there before it.
Spawn(p) ==
    /\ agent[p] = "none" /\ \A q \in 1..(p - 1) : agent[q] # "none"
    /\ agent' = [agent EXCEPT ![p] = "boot"]
    /\ inherited' = IF shutdown THEN inherited \cup {p} ELSE inherited

\* _find_main_process finds one of the agents, or NoPid; see is FALSE when
\* wmic timed out.
Found(p, see) ==
    \/ see /\ IsAlive(p)
    \/ see /\ Alive = {} /\ p = NoPid
    \/ ~see /\ p = NoPid

Look(see) ==
    /\ see \/ upsets < MaxUpsets
    /\ upsets' = IF see THEN upsets ELSE upsets + 1
    /\ clash' = (clash \/ ~see)

\* Mutant of StartCheck: only the console's own process counts.
StartCheckOwn(r, p, see) ==
    /\ At(r, "startCheck") /\ p = NoPid /\ see
    /\ IF IsAlive(proc) THEN Reply(r, "conflict")
       ELSE Go(r, "startClean")
    /\ UNCHANGED <<agent, proc, files, victim, history>>

\* A request reaches the console.
Issue(r, k) ==
    /\ At(r, "idle") /\ \A q \in 1..(r - 1) : handling[q] # "idle"
    /\ handling' = [handling EXCEPT ![r] = IF k = "start" THEN "startCheck" ELSE "stopCheck"]
    /\ restart' = IF k = "restart" THEN restart \cup {r} ELSE restart
    /\ clash' = (clash \/ UnderWay # {})
    /\ UNCHANGED <<agent, proc, files, victim, upsets, inherited>>
-----------------------------------------------------------------------------
\* start_service refuses when it knows or finds a running agent.
StartCheck(r, p, see) ==
    /\ At(r, "startCheck")
    /\ IF IsAlive(proc)
       THEN p = NoPid /\ see /\ Reply(r, "conflict") /\ UNCHANGED <<upsets, clash>>
       ELSE /\ Found(p, see) /\ Look(see)
            /\ IF p # NoPid THEN Reply(r, "conflict")
               ELSE Go(r, "startClean")
    /\ UNCHANGED <<agent, proc, files, victim, inherited>>

\* Mutant of StartClean: the ready file is left.
StartCleanShutdown(r) ==
    /\ At(r, "startClean")
    /\ shutdown' = FALSE /\ UNCHANGED ready
    /\ Go(r, "startSpawn")
    /\ UNCHANGED <<agent, proc, victim, history>>

\* Old signal files are removed, "so that the new process does not misread them".
StartClean(r) ==
    /\ At(r, "startClean")
    /\ ready' = FALSE /\ shutdown' = FALSE
    /\ Go(r, "startSpawn")
    /\ UNCHANGED <<agent, proc, victim, history>>

StartSpawn(r, p) ==
    /\ At(r, "startSpawn") /\ Spawn(p)
    /\ proc' = p /\ Go(r, "startWait")
    /\ UNCHANGED <<files, victim, upsets, clash>>

\* After two seconds: the process has ended, _process is gone (another request
\* reset it: the attribute error is answered as a failure), or it runs.
StartWait(r) ==
    /\ At(r, "startWait")
    /\ Reply(r, IF IsAlive(proc) THEN "started" ELSE "error")
    /\ proc' = IF IsAlive(proc) THEN proc ELSE NoPid
    /\ UNCHANGED <<agent, files, victim, history>>
-----------------------------------------------------------------------------
\* A restart goes on with start_service after a stop that raised nothing.
Stopped(r, a) ==
    IF r \in restart THEN handling' = [handling EXCEPT ![r] = "startCheck"] /\ restart' = restart \ {r}
                     ELSE Reply(r, a)

\* stop_service asks the agent to leave by touching the shutdown file.
StopCheck(r, p, see) ==
    /\ At(r, "stopCheck")
    /\ IF IsAlive(proc)
       THEN /\ p = NoPid /\ see /\ shutdown' = TRUE /\ Go(r, "stopGrab")
            /\ UNCHANGED <<victim, upsets, clash>>
       ELSE /\ Found(p, see) /\ Look(see)
            /\ IF p = NoPid
               THEN Stopped(r, "already_stopped") /\ UNCHANGED <<shutdown, victim>>
               ELSE /\ shutdown' = TRUE /\ Go(r, "killWait")
                    /\ Waits(r, p)
    /\ UNCHANGED <<agent, proc, ready, inherited>>

\* _process.wait(timeout=10): _process is read here; finally resets it even
\* when it is gone already and the attribute error ends the request.
StopGrab(r) ==
    /\ At(r, "stopGrab")
    /\ IF proc = NoPid
       THEN Reply(r, "error") /\ ready' = FALSE /\ UNCHANGED victim
       ELSE Waits(r, proc) /\ Go(r, "stopWait") /\ UNCHANGED ready
    /\ UNCHANGED <<agent, proc, shutdown, history>>

\* Mutant of StopWait: when the time is up the request just goes on.
StopWaitOnly(r) ==
    /\ At(r, "stopWait") /\ Go(r, "stopEnd")
    /\ UNCHANGED <<agent, proc, files, victim, history>>

\* Mutant of StopWait: no timeout, the request waits for the process to end.
StopWaitForEver(r) ==
    /\ At(r, "stopWait") /\ ~IsAlive(victim[r]) /\ Go(r, "stopEnd")
    /\ UNCHANGED <<agent, proc, files, victim, history>>

\* The agent has left, or it is killed; kill reads _process again.
StopWait(r) ==
    /\ At(r, "stopWait") /\ Go(r, "stopEnd")
    /\ agent' = IF IsAlive(victim[r]) /\ IsAlive(proc)
                THEN [agent EXCEPT ![proc] = "dead"] ELSE agent
    /\ UNCHANGED <<proc, files, victim, history>>

StopEnd(r) ==
    /\ At(r, "stopEnd")
    /\ proc' = NoPid /\ ready' = FALSE
    /\ Stopped(r, "stopped") /\ Waits(r, NoPid)
    /\ UNCHANGED <<agent, shutdown, history>>

\* _kill_main_process_graceful: wait, then taskkill, then look again.  A look-up
\* that times out counts as "still running".
KillWait(r, see) ==
    /\ At(r, "killWait") /\ Look(see)
    /\ agent' = IF IsAlive(victim[r]) THEN [agent EXCEPT ![victim[r]] = "dead"] ELSE agent
    /\ IF see THEN proc' = NoPid /\ Stopped(r, "stopped")
              ELSE Reply(r, "error") /\ UNCHANGED proc
    /\ Waits(r, NoPid)
    /\ UNCHANGED <<files, inherited>>
-----------------------------------------------------------------------------
\* The agent: main() until the loop, which may fail (no API key, a login that
\* times out) ...
Boot(p) ==
    /\ agent[p] = "boot"
    /\ agent' = [agent EXCEPT ![p] = "loop"] /\ ready' = TRUE
    /\ UNCHANGED <<proc, shutdown, handlers, history>>

BootFails(p) ==
    /\ agent[p] = "boot" /\ agent' = [agent EXCEPT ![p] = "dead"]
    /\ UNCHANGED <<proc, files, handlers, history>>

\* ... the top of the loop ...
Top(p) ==
    /\ agent[p] = "loop"
    /\ IF shutdown
       THEN /\ shutdown' = FALSE /\ ready' = FALSE
            /\ agent' = [agent EXCEPT ![p] = "leaving"]
       ELSE agent' = [agent EXCEPT ![p] = "poll"] /\ UNCHANGED files
    /\ UNCHANGED <<proc, handlers, history>>

\* ... the poll, which ends the process when a login is needed and times out ...
Poll(p) ==
    /\ agent[p] = "poll"
    /\ agent' = [agent EXCEPT ![p] = "loop"]
    /\ UNCHANGED <<proc, files, handlers, history>>

LoginFails(p) ==
    /\ agent[p] = "poll"
    /\ agent' = [agent EXCEPT ![p] = "dead"]
    /\ UNCHANGED <<proc, files, handlers, history>>

\* ... and main()'s own _clear_ready_signal after the loop.
LeaveLoop(p) ==
    /\ agent[p] = "leaving"
    /\ agent' = [agent EXCEPT ![p] = "dead"] /\ ready' = FALSE
    /\ UNCHANGED <<proc, shutdown, handlers, history>>

\* A user starts main.py in a terminal.
StartExternally(p) ==
    /\ upsets < MaxUpsets /\ Spawn(p)
    /\ upsets' = upsets + 1 /\ clash' = TRUE
    /\ UNCHANGED <<proc, files, handlers>>

\* The console is restarted: its requests are lost, the agent runs on.
ReloadConsole ==
    /\ upsets < MaxUpsets /\ upsets' = upsets + 1
    /\ proc' = NoPid /\ restart' = {}
    /\ handling' = [r \in Requests |-> IF r \in UnderWay THEN "error" ELSE handling[r]]
    /\ victim' = [r \in Requests |-> NoPid]
    /\ UNCHANGED <<agent, files, clash, inherited>>

Handle(r) ==
    \/ \E p \in Pids \cup {NoPid}, see \in BOOLEAN :
           StartCheck(r, p, see) \/ StopCheck(r, p, see)
    \/ StartClean(r) \/ StartWait(r) \/ StopGrab(r) \/ StopWait(r) \/ StopEnd(r)
    \/ \E p \in Pids : StartSpawn(r, p)
    \/ \E see \in BOOLEAN : KillWait(r, see)

Run(p) == Boot(p) \/ BootFails(p) \/ Top(p) \/ Poll(p) \/ LoginFails(p) \/ LeaveLoop(p)

ServiceNext ==
    \/ \E r \in Requests : \E k \in {"start", "stop", "restart"} : Issue(r, k)
    \/ \E r \in Requests : Handle(r)
    \/ \E p \in Pids : Run(p) \/ StartExternally(p)
    \/ ReloadConsole

ServiceSpec == ServiceInit /\ [][ServiceNext]_serviceVars

\* Handlers have timeouts everywhere; the agent's loop goes on and its poll
\* ends.  Nothing forces a failure, a request, a user or a reload.
FairSpec ==
    /\ ServiceSpec
    /\ \A r \in Requests : WF_serviceVars(Handle(r))
    /\ \A p \in Pids : WF_serviceVars(Top(p)) /\ WF_serviceVars(Poll(p)) /\ WF_serviceVars(LeaveLoop(p))
-----------------------------------------------------------------------------
Places == {"idle", "startCheck", "startClean", "startSpawn", "startWait",
           "stopCheck", "stopGrab", "stopWait", "stopEnd", "killWait"}

\* The variables have their types.
ServiceTypeOK ==
    /\ agent \in [Pids -> {"none", "boot", "loop", "poll", "leaving", "dead"}]
    /\ proc \in Pids \cup {NoPid} /\ ready \in BOOLEAN /\ shutdown \in BOOLEAN
    /\ handling \in [Requests -> Places \cup Answers] /\ restart \subseteq Requests
    /\ victim \in [Requests -> Pids \cup {NoPid}]
    /\ \A r \in Requests : handling[r] \in {"stopWait", "stopEnd", "killWait"} => victim[r] # NoPid
    /\ upsets \in 0..MaxUpsets /\ clash \in BOOLEAN /\ inherited \subseteq Pids

\* Requests that do not overlap never lead to two agents, whatever stops, kills
\* and restarts came before (service.py checks, then cleans, then starts).
OneAgent == ~clash => \A p, q \in Alive : p = q

\* The ready file never announces an agent that still starts (get_status).
ReadyMeansListening == ~clash /\ ready => \A p \in Pids : agent[p] # "boot"

\* No agent is told to leave by a shutdown file older than itself.
FreshStart == ~clash => inherited = {}

\* A start leaves no signal file of an earlier agent to be taken for the new
\* one's, whichever way the earlier one ended.
SignalFiles == ReadyMeansListening /\ FreshStart

\* "stopped" is answered only when the agent in question has ended.
StoppedIsStopped ==
    [][~clash' => \A r \in Requests : handling[r] # "stopped" /\ handling'[r] = "stopped" =>
          victim[r] \in Pids /\ agent'[victim[r]] = "dead"]_serviceVars

\* Every request gets an answer.
EveryRequestAnswered == \A r \in Requests : (r \in UnderWay) ~> (handling[r] \in Answers)

\* A running agent that is asked to leave does, unless the request is withdrawn
\* by the next start.
StopTakesEffect ==
    \A p \in Pids : (agent[p] = "loop" /\ shutdown) ~> (~IsAlive(p) \/ ~shutdown)

\* What was requested happens in the end: an answer, and a stop of the agent.
RequestsServed == EveryRequestAnswered /\ StopTakesEffect
=============================================================================
