---------------------------- MODULE StreamBridge -----------------------------
(***************************************************************************)
(* network/async_client.py: one event-loop thread serves every HTTP call   *)
(* of the process.  A streamed download is a producer coroutine on that    *)
(* loop and a consumer thread, joined by a queue of two items; the         *)
(* producer's queue.put is the blocking one of the queue module, so while  *)
(* it waits for space the whole loop stands still.  The first call of the  *)
(* process makes the loop; _shutdown, at exit, is left out.                *)
(*                                                                         *)
(* A chunk is its number.  The server's answer to a stream has at most     *)
(* MaxChunks chunks and may break off with an error at any point.          *)
(***************************************************************************)
EXTENDS Naturals, Sequences, SequencesExt

CONSTANTS Streams,     \* streamed requests
          Requests,    \* plain requests (request_sync, async_request)
          MaxChunks    \* bound: chunks in one body

ASSUME StreamAssumption == /\ MaxChunks \in Nat
                           /\ Streams \cap Requests = {}
                           /\ <<>> \notin Streams \cup Requests     \* Free

QueueSize == 2         \* queue.Queue(maxsize=2)
Callers == Streams \cup Requests

VARIABLES
    prod,     \* per stream, where _produce is
    body,     \* per stream, chunks handed to the queue so far
    queue,    \* per stream, _q
    blocked,  \* what the loop thread is blocked on: an item it cannot put
    cons,     \* per stream, where the consumer is
    file,     \* per stream, chunks the consumer wrote
    req,      \* per plain request, its state
    start,    \* per caller, where it is in _ensure_started
    lock,     \* the caller that holds _lock
    started,  \* _started
    loops     \* loop threads made so far

starting == <<start, lock, started, loops>>
vars == <<prod, body, queue, blocked, cons, file, req, starting>>

Chunk(n)  == [kind |-> "chunk", n |-> n]
Item(k)   == [kind |-> k, n |-> 0]       \* response, done, error
Items     == {Item(k) : k \in {"response", "done", "error"}} \cup {Chunk(n) : n \in 1..MaxChunks}
Free      == <<>>

Init ==
    /\ prod = [s \in Streams |-> "none"] /\ body = [s \in Streams |-> 0]
    /\ queue = [s \in Streams |-> <<>>] /\ blocked = Free
    /\ cons = [s \in Streams |-> "new"] /\ file = [s \in Streams |-> <<>>]
    /\ req = [r \in Requests |-> "new"]
    /\ start = [c \in Callers |-> "out"] /\ lock = Free /\ started = FALSE /\ loops = 0
-----------------------------------------------------------------------------
(* _ensure_started, on the caller's thread.                                *)

CheckStarted(c) ==
    /\ start[c] = "out"
    /\ start' = [start EXCEPT ![c] = IF started THEN "passed" ELSE "checked"]
    /\ UNCHANGED <<prod, body, queue, blocked, cons, file, req, lock, started, loops>>

Lock(c) ==
    /\ start[c] = "checked" /\ lock = Free
    /\ lock' = c /\ start' = [start EXCEPT ![c] = "locked"]
    /\ UNCHANGED <<prod, body, queue, blocked, cons, file, req, started, loops>>

\* Mutant of MakeLoop: no second look at _started.
MakeLoopAlways(c) ==
    /\ start[c] = "locked"
    /\ loops' = loops + 1
    /\ start' = [start EXCEPT ![c] = "made"]
    /\ UNCHANGED <<prod, body, queue, blocked, cons, file, req, lock, started>>

\* The second look at _started: the loop, the client and the thread are made ...
MakeLoop(c) ==
    /\ start[c] = "locked"
    /\ loops' = IF started THEN loops ELSE loops + 1
    /\ start' = [start EXCEPT ![c] = "made"]
    /\ UNCHANGED <<prod, body, queue, blocked, cons, file, req, lock, started>>

\* ... before _started says so and the lock is given back.
Publish(c) ==
    /\ start[c] = "made"
    /\ started' = TRUE /\ lock' = Free
    /\ start' = [start EXCEPT ![c] = "passed"]
    /\ UNCHANGED <<prod, body, queue, blocked, cons, file, req, loops>>

EnsureStarted(c) == CheckStarted(c) \/ Lock(c) \/ MakeLoop(c) \/ Publish(c)
-----------------------------------------------------------------------------
(* The loop thread.                                                        *)

\* Mutant of Put: put_nowait with its exception swallowed.
PutOrDrop(s, item) ==
    IF Len(queue[s]) < QueueSize
    THEN queue' = [queue EXCEPT ![s] = Append(@, item)] /\ UNCHANGED blocked
    ELSE UNCHANGED <<queue, blocked>>

\* queue.put: at once when there is space, otherwise the thread blocks.
Put(s, item) ==
    IF Len(queue[s]) < QueueSize
    THEN queue' = [queue EXCEPT ![s] = Append(@, item)] /\ UNCHANGED blocked
    ELSE blocked' = <<s, item>> /\ UNCHANGED queue

\* The blocked put succeeds.
Unblock ==
    /\ blocked # Free
    /\ LET s == blocked[1] IN
          /\ Len(queue[s]) < QueueSize
          /\ queue' = [queue EXCEPT ![s] = Append(@, blocked[2])]
    /\ blocked' = Free
    /\ UNCHANGED <<prod, body, cons, file, req, starting>>

\* The response headers arrive, or the request fails.
Respond(s) ==
    /\ blocked = Free /\ prod[s] = "started"
    /\ \/ Put(s, Item("response")) /\ prod' = [prod EXCEPT ![s] = "body"]
       \/ Put(s, Item("error")) /\ prod' = [prod EXCEPT ![s] = "ended"]
    /\ UNCHANGED <<body, cons, file, req, starting>>

\* The next chunk, the end of the body, or an error.
Produce(s) ==
    /\ blocked = Free /\ prod[s] = "body"
    /\ \/ /\ body[s] < MaxChunks
          /\ body' = [body EXCEPT ![s] = @ + 1]
          /\ Put(s, Chunk(body[s] + 1))
          /\ UNCHANGED prod
       \/ \E end \in {"done", "error"} :
             /\ Put(s, Item(end))
             /\ prod' = [prod EXCEPT ![s] = "ended"]
             /\ UNCHANGED body
    /\ UNCHANGED <<cons, file, req, starting>>

\* A plain request is served by the same loop.
Serve(r) ==
    /\ blocked = Free /\ req[r] = "waiting"
    /\ req' = [req EXCEPT ![r] = "served"]
    /\ UNCHANGED <<prod, body, queue, blocked, cons, file, starting>>
-----------------------------------------------------------------------------
(* The calling threads.                                                    *)

Call(r) ==
    /\ start[r] = "passed" /\ req[r] = "new"
    /\ req' = [req EXCEPT ![r] = "waiting"]
    /\ UNCHANGED <<prod, body, queue, blocked, cons, file, starting>>

\* __enter__ starts the producer ...
Open(s) ==
    /\ start[s] = "passed" /\ cons[s] = "new"
    /\ prod' = [prod EXCEPT ![s] = "started"]
    /\ cons' = [cons EXCEPT ![s] = "opening"]
    /\ UNCHANGED <<body, queue, blocked, file, req, starting>>

\* Mutant of Enter: the status is checked here, with the producer running on.
EnterChecksStatus(s) ==
    /\ cons[s] = "opening" /\ queue[s] # <<>>
    /\ cons' \in {[cons EXCEPT ![s] = "failed"], [cons EXCEPT ![s] = "inside"]}
    /\ queue' = [queue EXCEPT ![s] = Tail(@)]
    /\ UNCHANGED <<prod, body, blocked, file, req, starting>>

\* ... and waits for its first item: the response or an error.
Enter(s) ==
    /\ cons[s] = "opening" /\ queue[s] # <<>>
    /\ cons' = [cons EXCEPT ![s] = IF Head(queue[s]).kind = "error" THEN "failed"
                                   ELSE "inside"]
    /\ queue' = [queue EXCEPT ![s] = Tail(@)]
    /\ UNCHANGED <<prod, body, blocked, file, req, starting>>

\* iter_bytes: one item.
Read(s) ==
    /\ cons[s] = "inside" /\ queue[s] # <<>>
    /\ LET item == Head(queue[s]) IN
          /\ file' = IF item.kind = "chunk" THEN [file EXCEPT ![s] = Append(@, item.n)]
                     ELSE file
          /\ cons' = CASE item.kind = "done"  -> [cons EXCEPT ![s] = "finished"]
                       [] item.kind = "error" -> [cons EXCEPT ![s] = "failed"]
                       [] OTHER               -> cons
    /\ queue' = [queue EXCEPT ![s] = Tail(@)]
    /\ UNCHANGED <<prod, body, blocked, req, starting>>

\* _http_download leaves the `with`: raise_for_status raises, the answer is a
\* web page, or writing fails.  __exit__ does nothing.
Leave(s) ==
    /\ cons[s] = "inside"
    /\ cons' = [cons EXCEPT ![s] = "left"]
    /\ UNCHANGED <<prod, body, queue, blocked, file, req, starting>>

Loop == \/ Unblock
        \/ \E s \in Streams : Respond(s) \/ Produce(s)
        \/ \E r \in Requests : Serve(r)

Next == \/ Loop
        \/ \E s \in Streams : Open(s) \/ Enter(s) \/ Read(s) \/ Leave(s)
        \/ \E r \in Requests : Call(r)
        \/ \E c \in Callers : EnsureStarted(c)

Spec == Init /\ [][Next]_vars

\* The loop serves its coroutines in turn and every server answers or fails
\* within the client's timeout; a consumer inside the `with` keeps reading.
Fairness == /\ WF_vars(Unblock)
            /\ \A s \in Streams : /\ SF_vars(Respond(s)) /\ SF_vars(Produce(s))
                                  /\ WF_vars(Enter(s)) /\ WF_vars(Read(s))
            /\ \A r \in Requests : SF_vars(Serve(r))
FairSpec == Spec /\ Fairness
-----------------------------------------------------------------------------
(* Properties.                                                             *)

\* Types; in particular no stream ever buffers more than two items.
TypeOK ==
    /\ prod \in [Streams -> {"none", "started", "body", "ended"}]
    /\ body \in [Streams -> 0..MaxChunks]
    /\ queue \in [Streams -> Seq(Items)] /\ \A s \in Streams : Len(queue[s]) <= QueueSize
    /\ blocked = Free \/ blocked \in Streams \X Items
    /\ cons \in [Streams -> {"new", "opening", "inside", "finished", "failed", "left"}]
    /\ file \in [Streams -> Seq(1..MaxChunks)]
    /\ req \in [Requests -> {"new", "waiting", "served"}]
    /\ start \in [Callers -> {"out", "checked", "locked", "made", "passed"}]
    /\ lock \in Callers \cup {Free} /\ started \in BOOLEAN /\ loops \in Nat

\* A download that ends without an error has every chunk of the body once and
\* in order, however the loop and the consumer took turns.
WholeBody ==
    \A s \in Streams : cons[s] = "finished" => file[s] = [i \in 1..body[s] |-> i]

\* However many threads make the first call at once, the process has one loop
\* thread, and no call is handed to it before it is there.
OneLoop == loops <= 1 /\ \A c \in Callers : start[c] = "passed" => loops = 1

\* Someone left a `with` before the end of the body.
Abandoned == \E s \in Streams : cons[s] = "left"

\* Only an abandoned stream can hold up the shared loop for good: otherwise every
\* HTTP call of the process is served, however slowly the consumers read.
ServedUnlessAbandoned ==
    \A r \in Requests : req[r] = "waiting" ~> req[r] = "served" \/ Abandoned

\* Every download ends, with or without an error, on the same condition.
DownloadsEnd ==
    \A s \in Streams : cons[s] = "opening" ~> cons[s] \in {"finished", "failed"} \/ Abandoned

\* Nothing but an abandoned stream holds up requests and downloads for good.
CallsEnd == ServedUnlessAbandoned /\ DownloadsEnd

\* The module's promise of "非阻塞连接管理" without the condition.
CallsServed == \A r \in Requests : req[r] = "waiting" ~> req[r] = "served"
=============================================================================
