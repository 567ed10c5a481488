----------------------------- MODULE MessageLoop -----------------------------
(***************************************************************************)
(* The agent process around main._message_loop: one main thread polls the  *)
(* iLink server, debounces and deduplicates messages per WeChat user, and  *)
(* starts one daemon thread per dispatched batch.  The dispatch threads    *)
(* share processing_uids, the session objects and the session file with    *)
(* the main thread.                                                        *)
(*                                                                         *)
(* Abstractions.  A message is its receipt number, its sender and a text   *)
(* drawn from a small set.  A batch is the sequence of messages merged     *)
(* into it: merge_messages joins the texts in order, so merging a merged   *)
(* message again is concatenation, and message_signature is the sequence   *)
(* of texts.  Clock readings become two nondeterministic facts that only   *)
(* come true while the loop is polling: a user's debounce delay is over    *)
(* (due), a dedup record is older than 60 s (chosen in Cleanup).  The      *)
(* consecutive_errors counter only lengthens a pause and is left out.      *)
(***************************************************************************)
EXTENDS Naturals, Sequences, FiniteSets, Functions

CONSTANTS Users,      \* WeChat user ids
          Texts,      \* message contents the deduplication can tell apart
          MaxMsgs,    \* bound: messages the server ever delivers
          MaxBatch,   \* bound: new messages in one getupdates answer
          MaxLogins   \* bound: session objects ever created (1 = no re-login)

ASSUME LoopAssumption == /\ MaxMsgs \in Nat
                         /\ MaxBatch \in Nat
                         /\ MaxLogins \in Nat \ {0}

VARIABLES
    log,        \* what the server delivered so far; a cursor is a position in it
                \*   (without what the parser skips or fails on: see Channel)
    expired,    \* the server no longer accepts the newest token
    epoch,      \* number of the newest session object, the loop's local `state`
    buf,        \* get_updates_buf of every session object (0 is "")
    dsess,      \* the session object Dispatcher.session points at
    file,       \* session.json: the saved session and cursor, or truncated
    pc,         \* where the main thread is
    running,    \* config.running
    shutdown,   \* data/shutdown_signal exists
    inbox,      \* messages of the last answer not yet collected
    pending,    \* pending_msgs
    timed,      \* keys of last_msg_time
    due,        \* users of timed whose debounce delay has passed
    ready,      \* ready_uids still to be visited in this iteration
    last,       \* last_processed: signature per user, <<>> when absent
    stamped,    \* users whose record was written in this iteration
    processing, \* processing_uids
    threads,    \* dispatch threads that are alive
    handled,    \* history: per user, messages whose dispatch thread finished
    skipped,    \* history: per user, batches dropped as duplicates
    cleared,    \* history: messages thrown away by a re-login
    replies     \* history: sessions a thread was started with and answered on

server   == <<log, expired>>
sessions == <<epoch, buf, dsess>>
queue    == <<pending, timed, due>>
dedup    == <<last, stamped>>
history  == <<handled, skipped, cleared, replies>>
vars == <<log, expired, epoch, buf, dsess, file, pc, running, shutdown, inbox,
          pending, timed, due, ready, last, stamped, processing, threads,
          handled, skipped, cleared, replies>>

Message  == [id : 1..MaxMsgs, user : Users, text : Texts]
Sessions == 1..MaxLogins
Saved    == [sess : Sessions, buf : 0..MaxMsgs]
Torn     == [sess |-> 0, buf |-> 0]     \* session.json opened for writing

Thread == [uid : Users, batch : Seq(Message), sess : Sessions,
           at : {"handle", "save", "write", "cleanup"}]

\* message_signature of a merged batch: the joined texts.
Signature(batch) == [i \in 1..Len(batch) |-> batch[i].text]

Init ==
    /\ log = <<>> /\ expired = FALSE
    /\ epoch = 1 /\ buf = [e \in Sessions |-> 0] /\ dsess = 1
    /\ file = [sess |-> 1, buf |-> 0]
    /\ pc = "top" /\ running = TRUE /\ shutdown = FALSE
    /\ inbox = <<>> /\ ready = {}
    /\ pending = [u \in Users |-> <<>>] /\ timed = {} /\ due = {}
    /\ last = [u \in Users |-> <<>>] /\ stamped = {}
    /\ processing = {} /\ threads = {}
    /\ handled = [u \in Users |-> <<>>]
    /\ skipped = [u \in Users |-> {}]
    /\ cleared = {} /\ replies = {}
-----------------------------------------------------------------------------
(* The main thread.                                                        *)

\* The loop ends: the daemon threads die with the process.
Exit ==
    /\ pc' = "exited"
    /\ threads' = {}
    /\ UNCHANGED <<server, sessions, file, inbox, queue, ready, dedup,
                   processing, history>>

LoopTop ==
    /\ pc = "top"
    /\ \/ /\ ~running
          /\ Exit /\ UNCHANGED <<running, shutdown>>
       \/ /\ running /\ shutdown
          /\ shutdown' = FALSE /\ running' = FALSE
          /\ Exit
       \/ /\ running /\ ~shutdown
          /\ pc' = "poll"
          /\ UNCHANGED <<server, sessions, file, running, shutdown, inbox, queue,
                         ready, dedup, processing, threads, history>>

\* getupdates answers: the cursor moves before the messages are looked at.
\* The empty cursor of a new login means "from now on".
PollAnswer ==
    /\ pc = "poll" /\ ~expired
    /\ \E n \in 0..MaxBatch :
          /\ Len(log) + n <= MaxMsgs
          /\ \E new \in [1..n -> Users \X Texts] :
                LET from == IF buf[epoch] = 0 THEN Len(log) ELSE buf[epoch]
                    msgs == [i \in 1..n |-> [id   |-> Len(log) + i,
                                             user |-> new[i][1],
                                             text |-> new[i][2]]]
                IN  /\ log' = log \o msgs
                    /\ inbox' = SubSeq(log \o msgs, from + 1, Len(log) + n)
                    /\ buf' = [buf EXCEPT ![epoch] = Len(log) + n]
    /\ pc' = "collect"
    /\ UNCHANGED <<expired, epoch, dsess, file, running, shutdown, queue, ready,
                   dedup, processing, threads, history>>

\* A network or API error: `continue`, without looking at the queues.
PollError ==
    /\ pc = "poll"
    /\ pc' = "top"
    /\ UNCHANGED <<server, sessions, file, running, shutdown, inbox, queue,
                   ready, dedup, processing, threads, history>>

\* SessionExpired: do_login stores a fresh session object in the local `state`
\* and saves it; the queues are emptied, processing_uids and
\* dispatcher.session are not touched.  A failed login ends the process.
Relogin ==
    /\ pc = "poll" /\ expired /\ epoch < MaxLogins
    /\ \/ /\ epoch' = epoch + 1 /\ expired' = FALSE
          /\ file' = [sess |-> epoch + 1, buf |-> 0]
          /\ cleared' = cleared \cup UNION {Range(pending[u]) : u \in Users}
          /\ pending' = [u \in Users |-> <<>>] /\ timed' = {} /\ due' = {}
          /\ last' = [u \in Users |-> <<>>]
          /\ pc' = "top"
          /\ UNCHANGED <<log, buf, dsess, running, shutdown, inbox, ready, stamped,
                         processing, threads, handled, skipped, replies>>
       \/ /\ Exit
          /\ UNCHANGED <<running, shutdown>>

\* Mutant of Collect: new messages go to the front of the queue.
CollectInFront ==
    /\ pc = "collect" /\ inbox # <<>> /\ running
    /\ LET msg == Head(inbox) IN
          /\ pending' = [pending EXCEPT ![msg.user] = <<msg>> \o @]
          /\ timed' = timed \cup {msg.user}
          /\ due' = due \ {msg.user}
    /\ inbox' = Tail(inbox)
    /\ UNCHANGED <<server, sessions, file, pc, running, shutdown, ready, dedup,
                   processing, threads, history>>

\* `for msg in msgs`: queue one message and restart its sender's debounce.
Collect ==
    /\ pc = "collect" /\ inbox # <<>> /\ running
    /\ LET msg == Head(inbox) IN
          /\ pending' = [pending EXCEPT ![msg.user] = Append(@, msg)]
          /\ timed' = timed \cup {msg.user}
          /\ due' = due \ {msg.user}
    /\ inbox' = Tail(inbox)
    /\ UNCHANGED <<server, sessions, file, pc, running, shutdown, ready, dedup,
                   processing, threads, history>>

\* All collected, or `running` was cleared and the rest of the answer is left.
ComputeReady ==
    /\ pc = "collect" /\ (inbox = <<>> \/ ~running)
    /\ ready' = {u \in due : pending[u] # <<>>}
    /\ inbox' = <<>>
    /\ pc' = "drain"
    /\ UNCHANGED <<server, sessions, file, running, shutdown, queue, dedup,
                   processing, threads, history>>

\* pending_msgs.pop(uid), del last_msg_time[uid]
TakeBatch(u) ==
    /\ pc = "drain" /\ u \in ready
    /\ ready' = ready \ {u}
    /\ due' = due \ {u}

SkipDuplicate(u) ==
    /\ TakeBatch(u)
    /\ Signature(pending[u]) = last[u]
    /\ skipped' = [skipped EXCEPT ![u] = @ \cup {pending[u]}]
    /\ pending' = [pending EXCEPT ![u] = <<>>] /\ timed' = timed \ {u}
    /\ UNCHANGED <<server, sessions, file, pc, running, shutdown, inbox, dedup,
                   processing, threads, handled, cleared, replies>>

\* The dedup record is written before the busy check.
Stamp(u) ==
    /\ Signature(pending[u]) # last[u]
    /\ last' = [last EXCEPT ![u] = Signature(pending[u])]
    /\ stamped' = stamped \cup {u}

\* Mutant of RequeueBusy: `continue` without putting the batch back.
RequeueDropped(u) ==
    /\ TakeBatch(u) /\ Stamp(u)
    /\ u \in processing
    /\ pending' = [pending EXCEPT ![u] = <<>>] /\ timed' = timed \ {u}
    /\ UNCHANGED <<server, sessions, file, pc, running, shutdown, inbox,
                   processing, threads, history>>

\* Mutant of RequeueBusy: the batch goes back but last_msg_time is not set.
RequeueUntimed(u) ==
    /\ TakeBatch(u) /\ Stamp(u)
    /\ u \in processing
    /\ timed' = timed \ {u}
    /\ UNCHANGED <<server, sessions, file, pc, running, shutdown, inbox, pending,
                   processing, threads, history>>

\* The user's previous batch is still running: the merged batch goes back to
\* the (just emptied) queue and last_msg_time is set again.
RequeueBusy(u) ==
    /\ TakeBatch(u) /\ Stamp(u)
    /\ u \in processing
    /\ UNCHANGED <<server, sessions, file, pc, running, shutdown, inbox, pending,
                   timed, processing, threads, history>>

\* Mutant of StartThread: the busy check is dropped.
StartThreadUnchecked(u) ==
    /\ TakeBatch(u) /\ Stamp(u)
    /\ processing' = processing \cup {u}
    /\ threads' = threads \cup {[uid |-> u, batch |-> pending[u],
                                 sess |-> epoch, at |-> "handle"]}
    /\ pending' = [pending EXCEPT ![u] = <<>>] /\ timed' = timed \ {u}
    /\ UNCHANGED <<server, sessions, file, pc, running, shutdown, inbox, history>>

\* Mutant of StartThread: the batch is read but not taken out of the queue.
StartThreadKeeps(u) ==
    /\ TakeBatch(u) /\ Stamp(u)
    /\ u \notin processing
    /\ processing' = processing \cup {u}
    /\ threads' = threads \cup {[uid |-> u, batch |-> pending[u],
                                 sess |-> epoch, at |-> "handle"]}
    /\ UNCHANGED <<server, sessions, file, pc, running, shutdown, inbox, pending,
                   timed, history>>

\* Not busy: mark the user busy, then start the daemon thread.
StartThread(u) ==
    /\ TakeBatch(u) /\ Stamp(u)
    /\ u \notin processing
    /\ processing' = processing \cup {u}
    /\ threads' = threads \cup {[uid |-> u, batch |-> pending[u],
                                 sess |-> epoch, at |-> "handle"]}
    /\ pending' = [pending EXCEPT ![u] = <<>>] /\ timed' = timed \ {u}
    /\ UNCHANGED <<server, sessions, file, pc, running, shutdown, inbox, history>>

\* Dedup records older than 60 s go; those written in this iteration are not.
Cleanup ==
    /\ pc = "drain" /\ ready = {}
    /\ \E old \in SUBSET (Users \ stamped) :
          last' = [u \in Users |-> IF u \in old THEN <<>> ELSE last[u]]
    /\ stamped' = {}
    /\ pc' = "top"
    /\ UNCHANGED <<server, sessions, file, running, shutdown, inbox, queue, ready,
                   processing, threads, history>>
-----------------------------------------------------------------------------
(* A dispatch thread: _dispatch_and_cleanup around _dispatch_message.      *)

Move(t, to) == threads' = (threads \ {t}) \cup {[t EXCEPT !.at = to]}

\* dispatcher.handle_message returns, its answers sent on Dispatcher.session;
\* or it raises and the apology goes out on the session the thread was given.
Handle(t) ==
    /\ t.at = "handle"
    /\ \/ Move(t, "save")    /\ replies' = replies \cup {[from |-> t.sess, on |-> dsess]}
       \/ Move(t, "cleanup") /\ replies' = replies \cup {[from |-> t.sess, on |-> t.sess]}
    /\ UNCHANGED <<server, sessions, file, pc, running, shutdown, inbox, queue, ready,
                   dedup, processing, handled, skipped, cleared>>

\* save_session: open(path, "w") truncates, json.dump fills in what the
\* thread's session object holds by then.
SaveOpen(t) ==
    /\ t.at = "save"
    /\ Move(t, "write")
    /\ file' = Torn
    /\ UNCHANGED <<server, sessions, pc, running, shutdown, inbox, queue, ready,
                   dedup, processing, history>>

\* json.dump may raise: context_tokens grows under its iteration when the
\* main thread receives a first message from another user.
SaveWrite(t) ==
    /\ t.at = "write"
    /\ Move(t, "cleanup")
    /\ \/ file' = [sess |-> t.sess, buf |-> buf[t.sess]] /\ UNCHANGED replies
       \/ UNCHANGED file /\ replies' = replies \cup {[from |-> t.sess, on |-> t.sess]}
    /\ UNCHANGED <<server, sessions, pc, running, shutdown, inbox, queue, ready,
                   dedup, processing, handled, skipped, cleared>>

\* finally: processing_uids.discard(uid), and the thread is gone.
Finish(t) ==
    /\ t.at = "cleanup"
    /\ threads' = threads \ {t}
    /\ processing' = processing \ {t.uid}
    /\ handled' = [handled EXCEPT ![t.uid] = @ \o t.batch]
    /\ UNCHANGED <<server, sessions, file, pc, running, shutdown, inbox, queue, ready,
                   dedup, skipped, cleared, replies>>
-----------------------------------------------------------------------------
(* The environment.                                                        *)

\* now - last_msg_time[u] >= DEBOUNCE_DELAY
DebounceOver(u) ==
    /\ pc = "poll" /\ u \in timed \ due
    /\ due' = due \cup {u}
    /\ UNCHANGED <<server, sessions, file, pc, running, shutdown, inbox, pending,
                   timed, ready, dedup, processing, threads, history>>

TokenExpires ==
    /\ pc # "exited" /\ ~expired /\ epoch < MaxLogins
    /\ expired' = TRUE
    /\ UNCHANGED <<log, sessions, file, pc, running, shutdown, inbox, queue,
                   ready, dedup, processing, threads, history>>

\* SIGINT / SIGTERM handler
Signal ==
    /\ pc # "exited" /\ running
    /\ running' = FALSE
    /\ UNCHANGED <<server, sessions, file, pc, shutdown, inbox, queue, ready,
                   dedup, processing, threads, history>>

\* The web panel writes data/shutdown_signal.
ShutdownFile ==
    /\ pc # "exited" /\ ~shutdown
    /\ shutdown' = TRUE
    /\ UNCHANGED <<server, sessions, file, pc, running, inbox, queue, ready,
                   dedup, processing, threads, history>>

Main == LoopTop \/ PollAnswer \/ PollError \/ Relogin \/ Collect \/ ComputeReady
        \/ (\E u \in Users : SkipDuplicate(u) \/ RequeueBusy(u) \/ StartThread(u))
        \/ Cleanup
DispatchThread(t) == Handle(t) \/ SaveOpen(t) \/ SaveWrite(t) \/ Finish(t)
Environment == (\E u \in Users : DebounceOver(u))
               \/ TokenExpires \/ Signal \/ ShutdownFile

Next == Main \/ (\E t \in threads : DispatchThread(t)) \/ Environment
Spec == Init /\ [][Next]_vars
-----------------------------------------------------------------------------
(* Properties.                                                             *)

SessionType ==
    /\ log \in Seq(Message)
    /\ epoch \in Sessions /\ dsess \in Sessions
    /\ buf \in [Sessions -> 0..MaxMsgs]
    /\ file \in Saved \cup {Torn}
ControlType ==
    /\ pc \in {"top", "poll", "collect", "drain", "exited"}
    /\ expired \in BOOLEAN /\ running \in BOOLEAN /\ shutdown \in BOOLEAN
QueueType ==
    /\ inbox \in Seq(Message)
    /\ pending \in [Users -> Seq(Message)]
    /\ timed \subseteq Users /\ due \subseteq timed /\ ready \subseteq Users
    /\ last \in [Users -> Seq(Texts)] /\ stamped \subseteq Users
ThreadType ==
    /\ processing \subseteq Users
    /\ threads \subseteq Thread
HistoryType ==
    /\ handled \in [Users -> Seq(Message)]
    /\ skipped \in [Users -> SUBSET Seq(Message)]
    /\ cleared \subseteq Message
    /\ replies \subseteq [from : Sessions, on : Sessions]

\* Every variable stays in its type; in particular a saved or live cursor never
\* passes the messages there are, and only a timed user can be due.
TypeOK == SessionType /\ ControlType /\ QueueType /\ ThreadType /\ HistoryType

\* main.py:206-219: a user never has two dispatch threads at once, whatever
\* the threads, the debounce timer and a re-login do in between.
OneThreadPerUser ==
    \A s, t \in threads : s.uid = t.uid => s = t

\* main.py:235: processing_uids names exactly the users with a live thread,
\* so nobody is refused for a thread that is gone and nobody slips past one.
BusyMatchesThreads ==
    pc # "exited" => processing = {t.uid : t \in threads}

Sorted(s)      == \A i, j \in 1..Len(s) : i < j => s[i].id < s[j].id
Precedes(s, t) == \A i \in 1..Len(s), j \in 1..Len(t) : s[i].id < t[j].id

\* main.py:178-219: the messages of a user are handled in the order they
\* arrived and none is handled twice, through debouncing, merging and requeues.
HandledInOrder ==
    \A u \in Users : Sorted(handled[u])

\* The inductive form of HandledInOrder: a user's messages stand in line as
\* handled, then running, then pending, then in the answer being collected.
Old(s) == /\ \A i \in 1..Len(s) : s[i].id <= Len(log)
          /\ pc = "collect" => Precedes(s, inbox)
ArrivalOrder ==
    /\ \A i \in 1..Len(log) : log[i].id = i
    /\ buf[epoch] \in {0, Len(log)} /\ \A e \in Sessions : e > epoch => buf[e] = 0
    /\ pc = "collect" => Sorted(inbox) /\ \A i \in 1..Len(inbox) : inbox[i].id <= Len(log)
    /\ \A u \in Users :
          /\ Sorted(handled[u]) /\ Old(handled[u])
          /\ Sorted(pending[u]) /\ Old(pending[u])
          /\ Precedes(handled[u], pending[u])
    /\ \A t \in threads :
          /\ Sorted(t.batch) /\ Old(t.batch)
          /\ Precedes(handled[t.uid], t.batch) /\ Precedes(t.batch, pending[t.uid])

\* Where a received message can be.
Held == [inbox   |-> Range(inbox),
         queued  |-> UNION {Range(pending[u]) : u \in Users},
         running |-> UNION {Range(t.batch) : t \in threads},
         handled |-> UNION {Range(handled[u]) : u \in Users},
         skipped |-> UNION {UNION {Range(b) : b \in skipped[u]} : u \in Users},
         cleared |-> cleared]

\* main.py:173-219: until it is told to stop the loop loses track of no
\* message: each one received is in exactly one place.
Accounted ==
    pc # "exited" /\ running =>
        \A m \in Range(log) : Cardinality({p \in DOMAIN Held : m \in Held[p]}) = 1

\* main.py:197-210: what is dropped as a duplicate repeats something that was
\* dispatched; "如果该用户正在处理中，将消息放回队列等待" promises a queued
\* message its turn.
SkipsOnlyRepeats ==
    pc # "exited" => \A u \in Users : \A b \in skipped[u] :
        \/ \E t \in threads : t.uid = u /\ Signature(t.batch) = Signature(b)
        \/ \E i, j \in DOMAIN handled[u] :
               Signature(SubSeq(handled[u], i, j)) = Signature(b)

\* main.py:150-152: after the re-login, replies go out on the session the
\* message came in on (or a newer one), never on the expired one.
AnswersOnCurrentSession ==
    \A r \in replies : r.on >= r.from

\* The batch that threads of a set answer for each user.
Serving(ts) == [u \in Users |-> LET of == {t \in ts : t.uid = u}
                                IN  IF of = {} THEN <<>> ELSE (CHOOSE t \in of : TRUE).batch]

Lines == INSTANCE UserLines
    WITH line <- pending, served <- Serving(threads), done <- handled, open <- pc # "exited",
         Messages <- Message

\* main.py:122-257: through debouncing, merging, busy checks, requeues, logins and
\* the end of the process, each user's messages are a line that is served a batch
\* at a time, and whatever one user waits for concerns no other.
KeepsLines == Lines!Spec

Settled(i) ==
    \E m \in Held.handled \cup Held.skipped \cup Held.cleared : m.id = i

\* main.py:122-235: unless the process is stopped, a time comes again and again
\* when every message received so far has been handled, or dropped as a
\* duplicate or by a re-login: debounce, busy check, requeue and thread exit
\* never wedge a user's queue.
EveryMessageSettles ==
    []<>(~running \/ pc = "exited" \/ \A i \in 1..Len(log) : Settled(i))

\* The main thread is scheduled and the server answers again and again, time
\* passes, and the model, tool and send calls of a thread end (all of them
\* have timeouts).  Signals and expiries are not fair.
Fairness ==
    /\ WF_vars(Main) /\ SF_vars(PollAnswer) /\ SF_vars(Relogin)
    /\ \A u \in Users : SF_vars(DebounceOver(u))
    /\ \A u \in Users : WF_vars(\E t \in threads : t.uid = u /\ DispatchThread(t))

FairSpec == Spec /\ Fairness
=============================================================================
