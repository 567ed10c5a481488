------------------------------- MODULE Channel -------------------------------
(***************************************************************************)
(* The iLink channel over the lives of several agent processes: the login  *)
(* with a QR code (channel/login.py), session.json (session.py), the       *)
(* cursor and the context tokens that answers need (receiver.py,           *)
(* sender.py), files sent through the CDN (upload.py).                     *)
(*                                                                         *)
(* MessageLoop has the debouncing and deduplication between receiving and  *)
(* dispatching; here a user's messages are dispatched when its thread is   *)
(* free.  A login is known by the number of its QR code, a context token   *)
(* by the number of its message.  The server answers an empty cursor with  *)
(* what arrives from then on.                                              *)
(***************************************************************************)
EXTENDS Naturals, Sequences, FiniteSets, FiniteSetsExt

CONSTANTS Users,      \* WeChat users; each has at most one dispatch thread
          Owner,      \* the user who scans the codes
          Main,       \* the main thread, where it saves the session
          MaxMsgs,    \* bound: messages ever sent to the bot
          MaxCodes,   \* bound: QR codes ever issued
          MaxRuns,    \* bound: starts of the agent
          MaxPolls    \* polls of a code's state until the deadline of a login

ASSUME ChannelAssumption ==
    /\ Owner \in Users /\ Main \notin Users
    /\ MaxMsgs \in Nat /\ MaxCodes \in Nat /\ MaxRuns \in Nat /\ MaxPolls \in Nat

Codes == 1..MaxCodes
Savers == Users \cup {Main}

\* What a message brings: a context token, none, nothing that the parser knows
\* (though a token), or an item that the parser fails on.
Kinds == {"token", "bare", "empty", "bad"}
Inbound == [user : Users, kind : Kinds]

\* A session, in memory or saved.  A context token is a message's number, 0 the
\* empty one, NoKey a user without an entry.
NoKey == MaxMsgs + 1
NoContexts == [u \in Users |-> NoKey]
Sessions == [tok : Codes, buf : 0..MaxMsgs, ctx : [Users -> 0..NoKey]]
NewSession(c) == [tok |-> c, buf |-> 0, ctx |-> [NoContexts EXCEPT ![Owner] = 0]]
Torn == [tok |-> 0, buf |-> 0, ctx |-> NoContexts]
Missing == [tok |-> MaxCodes + 1, buf |-> 0, ctx |-> NoContexts]

NotSaving == [at |-> "no", copy |-> Torn, mixed |-> FALSE]
NoThread == [at |-> "none", obj |-> 1, msgs |-> {}, ctx |-> NoKey]

VARIABLES
    log,       \* messages ever sent: who, and what they bring
    code,      \* per QR code, its state at the server
    codes,     \* codes issued
    accepted,  \* the login whose token the server accepts, 0 for none
    stored,    \* session.json
    runs,      \* starts of the agent
    pc,        \* where the main thread is
    qrcode,    \* the code wait_for_login asks about
    polls,     \* polls left until its deadline
    objs,      \* session objects of the process; the dispatcher has the first
    inbox,     \* messages of the last answer that are not parsed yet
    answer,    \* all messages of the last answer
    pending,   \* parsed messages that wait for their thread
    thread,    \* per user, its dispatch thread: its session object, the messages it
               \*   answers, the context token of what it sent last
    save,      \* per thread, how far it is in save_session
    kept,      \* history: messages whose cursor was saved after their answer
    base,      \* history: per login, the messages before its first poll
    lost,      \* history: messages not parsed, for an error in their answer
    odd        \* history: what went wrong with the file

server == <<log, code, codes, accepted>>
login == <<qrcode, polls>>
incoming == <<inbox, answer, pending>>
history == <<kept, base, lost>>
channelVars == <<server, stored, runs, pc, login, objs, incoming, thread, save, history, odd>>

Cur == Len(objs)
Busy == {w \in Savers : save[w].at # "no"}
Context(s, u) == IF s.ctx[u] = NoKey THEN 0 ELSE s.ctx[u]

ChannelInit ==
    /\ log = <<>> /\ code = [c \in Codes |-> "none"] /\ codes = 0 /\ accepted = 0
    /\ stored = Missing /\ runs = 0
    /\ pc = "down" /\ qrcode = 0 /\ polls = 0 /\ objs = <<>>
    /\ inbox = {} /\ answer = {} /\ pending = {}
    /\ thread = [u \in Users |-> NoThread] /\ save = [w \in Savers |-> NotSaving]
    /\ kept = {} /\ base = [c \in Codes |-> 0] /\ lost = {} /\ odd = {}
-----------------------------------------------------------------------------
(* The process.                                                            *)

\* Mutant of Start: a session that cannot be read is taken as it is.
StartTorn ==
    /\ pc = "down" /\ runs < MaxRuns /\ runs' = runs + 1
    /\ pc' = IF stored = Missing THEN "newcode" ELSE "loop"
    /\ objs' = IF stored = Missing THEN <<>> ELSE <<stored>>
    /\ UNCHANGED <<server, stored, login, incoming, thread, save, history, odd>>

\* load_session, in main: an error when the file is torn ends the process.
Start ==
    /\ pc = "down" /\ runs < MaxRuns /\ runs' = runs + 1
    /\ pc' = IF stored = Torn THEN "down" ELSE IF stored = Missing THEN "newcode" ELSE "loop"
    /\ objs' = IF stored \in {Torn, Missing} THEN <<>> ELSE <<stored>>
    /\ UNCHANGED <<server, stored, login, incoming, thread, save, history, odd>>

Over ==
    /\ pc' = "down" /\ objs' = <<>> /\ qrcode' = 0 /\ polls' = 0
    /\ inbox' = {} /\ answer' = {} /\ pending' = {}
    /\ thread' = [u \in Users |-> NoThread] /\ save' = [w \in Savers |-> NotSaving]
    /\ odd' = odd \cup (IF Busy # {} THEN {"midsave"} ELSE {})
    /\ UNCHANGED <<server, stored, runs, history>>

\* The process ends, by a request to stop, an error or a kill: its threads are
\* daemons and end wherever they are.
End == pc # "down" /\ Over

\* A user removes a session.json that cannot be read.
RemoveFile ==
    /\ pc = "down" /\ stored = Torn /\ stored' = Missing
    /\ UNCHANGED <<server, runs, pc, login, objs, incoming, thread, save, history, odd>>
-----------------------------------------------------------------------------
(* The login.                                                              *)

\* start_qr_login: the server issues a code, or fails.
Issue ==
    /\ codes < MaxCodes
    /\ codes' = codes + 1 /\ code' = [code EXCEPT ![codes + 1] = "fresh"]
    /\ qrcode' = codes + 1 /\ pc' = "wait"
    /\ UNCHANGED <<log, accepted, stored, runs, objs, incoming, thread, save, history, odd>>

NewCode ==
    /\ pc = "newcode"
    /\ \/ Issue /\ polls' = MaxPolls
       \/ Over

Passes == polls' = polls - 1

\* A code that has expired or was blocked is replaced by a new one ...
Refresh ==
    /\ pc = "wait" /\ polls > 0 /\ code[qrcode] \in {"expired", "blocked"}
    /\ \/ Issue /\ Passes
       \/ Over

\* Mutant of Wait: waiting for a scan does not count towards the deadline.
WaitForEver ==
    /\ pc = "wait" /\ polls > 0 /\ code[qrcode] \in {"fresh", "scanned"}
    /\ UNCHANGED channelVars

\* ... one that is not confirmed yet is asked about again ...
Wait ==
    /\ pc = "wait" /\ polls > 0 /\ code[qrcode] \in {"fresh", "scanned"}
    /\ Passes
    /\ UNCHANGED <<server, stored, runs, pc, qrcode, objs, incoming, thread, save, history, odd>>

\* ... and one that asks for the number the phone shows waits for input().
AskNumber ==
    /\ pc = "wait" /\ polls > 0 /\ code[qrcode] = "asks"
    /\ Passes /\ pc' = "number"
    /\ UNCHANGED <<server, stored, runs, qrcode, objs, incoming, thread, save, history, odd>>

\* Mutant of LoggedIn: the session is kept in memory only.
LoggedInUnsaved(c) ==
    /\ objs' = Append(objs, NewSession(c)) /\ pc' = "loop"
    /\ inbox' = {} /\ answer' = {} /\ pending' = {} /\ qrcode' = 0 /\ polls' = 0

\* do_login makes the session and saves it.
LoggedIn(c) ==
    /\ objs' = Append(objs, NewSession(c)) /\ pc' = "save"
    /\ inbox' = {} /\ answer' = {} /\ pending' = {} /\ qrcode' = 0 /\ polls' = 0

\* The number, given with another poll: it is right, wrong, or wrong too often.
EnterNumber ==
    /\ pc = "number"
    /\ \/ /\ code[qrcode] = "asks"
          /\ code' = [code EXCEPT ![qrcode] = "confirmed"] /\ accepted' = qrcode
          /\ LoggedIn(qrcode)
       \/ /\ code' = [code EXCEPT ![qrcode] = IF code[qrcode] = "asks" THEN "blocked" ELSE @]
          /\ pc' = "wait" /\ UNCHANGED <<accepted, login, objs, incoming>>
       \/ pc' = "wait" /\ UNCHANGED <<code, accepted, login, objs, incoming>>
    /\ UNCHANGED <<log, codes, stored, runs, thread, save, history, odd>>

\* A confirmed code comes with a token; without an id that is an error.
Confirmed ==
    /\ pc = "wait" /\ polls > 0 /\ code[qrcode] = "confirmed"
    /\ \/ /\ LoggedIn(qrcode) /\ accepted' = qrcode
          /\ UNCHANGED <<log, code, codes, stored, runs, thread, save, history, odd>>
       \/ Over

\* The deadline, or a code of a bot that is bound already: the process ends.
GiveUp == pc = "wait" /\ (polls = 0 \/ code[qrcode] = "bound") /\ Over

\* The phone and the server change the state of the newest code.
Phone ==
    /\ codes > 0
    /\ \E to \in {"scanned", "asks", "confirmed", "expired", "bound"} :
          /\ <<code[codes], to>> \in
                {<<"fresh", "scanned">>, <<"scanned", "asks">>, <<"scanned", "confirmed">>,
                 <<"scanned", "bound">>}
                \cup ({"fresh", "scanned", "asks"} \X {"expired"})
          /\ code' = [code EXCEPT ![codes] = to]
    /\ UNCHANGED <<log, codes, accepted, stored, runs, pc, login, objs, incoming, thread, save,
                   history, odd>>

Expire ==
    /\ accepted # 0 /\ accepted' = 0
    /\ UNCHANGED <<log, code, codes, stored, runs, pc, login, objs, incoming, thread, save,
                   history, odd>>
-----------------------------------------------------------------------------
(* Receiving.                                                              *)

\* SessionExpired: the loop logs in again.
Refused ==
    /\ pc = "loop" /\ inbox = {} /\ objs[Cur].tok # accepted
    /\ pc' = "newcode"
    /\ UNCHANGED <<server, stored, runs, login, objs, incoming, thread, save, history, odd>>

\* get_updates: new messages arrive, from any users; the cursor moves first ...
Poll ==
    LET s == objs[Cur]
        from == IF s.buf = 0 THEN Len(log) ELSE s.buf IN
    /\ pc = "loop" /\ inbox = {} /\ s.tok = accepted
    /\ \E k \in 0..(MaxMsgs - Len(log)) : \E new \in [1..k -> Inbound] : log' = log \o new
    /\ inbox' = (from + 1)..Len(log') /\ answer' = inbox'
    /\ objs' = [objs EXCEPT ![Cur].buf = Len(log')]
    /\ base' = IF s.buf = 0 THEN [base EXCEPT ![s.tok] = Len(log)] ELSE base
    /\ UNCHANGED <<code, codes, accepted, stored, runs, pc, login, pending, thread, save,
                   kept, lost, odd>>

\* Mutant of Parse: a known user keeps its old context token.
ParseKeeps ==
    /\ pc = "loop" /\ inbox # {}
    /\ LET m == Min(inbox)  u == log[m].user IN
       /\ log[m].kind # "bad"
       /\ objs' = IF log[m].kind = "token" /\ Context(objs[Cur], u) = 0
                  THEN [objs EXCEPT ![Cur].ctx[u] = m] ELSE objs
       /\ inbox' = inbox \ {m}
       /\ pending' = IF log[m].kind = "empty" THEN pending ELSE pending \cup {m}
    /\ UNCHANGED <<server, stored, runs, pc, login, answer, thread, save, history, odd>>

\* ... then each message is parsed and its context token noted; one that holds
\* nothing is skipped, its token with it.
Parse ==
    /\ pc = "loop" /\ inbox # {}
    /\ LET m == Min(inbox)  u == log[m].user IN
       /\ log[m].kind # "bad"
       /\ objs' = IF log[m].kind = "token" THEN [objs EXCEPT ![Cur].ctx[u] = m] ELSE objs
       /\ inbox' = inbox \ {m}
       /\ pending' = IF log[m].kind = "empty" THEN pending ELSE pending \cup {m}
    /\ UNCHANGED <<server, stored, runs, pc, login, answer, thread, save, history, odd>>

\* An error while a message is parsed loses the whole answer: what is not parsed
\* yet, and what was, as get_updates returns nothing.
ParseFails ==
    /\ pc = "loop" /\ inbox # {} /\ log[Min(inbox)].kind = "bad"
    /\ inbox' = {} /\ pending' = pending \ answer /\ lost' = lost \cup inbox
    /\ UNCHANGED <<server, stored, runs, pc, login, objs, answer, thread, save, kept, base, odd>>

Dispatch(u) ==
    LET msgs == {m \in pending : log[m].user = u} IN
    /\ pc = "loop" /\ inbox = {} /\ msgs # {} /\ thread[u] = NoThread
    /\ thread' = [thread EXCEPT ![u] = [NoThread EXCEPT !.at = "handle", !.obj = Cur, !.msgs = msgs]]
    /\ pending' = pending \ msgs
    /\ UNCHANGED <<server, stored, runs, pc, login, objs, inbox, answer, save, history, odd>>
-----------------------------------------------------------------------------
(* A dispatch thread.                                                      *)

ThreadOnly == UNCHANGED <<server, stored, runs, pc, login, objs, incoming, save, history, odd>>

\* send_file: a file goes to the CDN, and an item that refers to it into the chat.
\* What the server answers decides only what the tool tells the model.
SendItem(u) ==
    /\ thread[u].at = "handle"
    /\ thread' = [thread EXCEPT ![u].ctx = Context(objs[1], u)]
    /\ ThreadOnly

\* Mutant of Reply: the answer goes out with the token of the latest writer.
ReplyLatest(u) ==
    /\ thread[u].at = "handle"
    /\ thread' = [thread EXCEPT ![u].at = "save",
                      ![u].ctx = Max({Context(objs[1], v) : v \in Users})]
    /\ ThreadOnly

\* send_message, with the session of the dispatcher: what the server answers is
\* not looked at.
Reply(u) ==
    /\ thread[u].at = "handle"
    /\ thread' = [thread EXCEPT ![u].at = "save", ![u].ctx = Context(objs[1], u)]
    /\ ThreadOnly

\* The turn fails: the thread apologises and ends without saving.
Fail(u) ==
    /\ thread[u].at = "handle"
    /\ thread' = [thread EXCEPT ![u] = NoThread]
    /\ ThreadOnly
-----------------------------------------------------------------------------
(* save_session, by a dispatch thread or by the main thread's login.       *)

Object(w) == IF w = Main THEN Cur ELSE thread[w].obj
MaySave(w) == IF w = Main THEN pc = "save" ELSE thread[w].at = "save"

\* open truncates the file ...
OpenFile(w) ==
    /\ MaySave(w) /\ save[w].at = "no"
    /\ save' = [x \in Savers |-> IF x = w THEN [NotSaving EXCEPT !.at = "open", !.mixed = Busy # {}]
                               ELSE [save[x] EXCEPT !.mixed = x \in Busy]]
    /\ stored' = Torn
    /\ odd' = odd \cup (IF Busy # {} THEN {"overlap"} ELSE {})
    /\ UNCHANGED <<server, runs, pc, login, objs, incoming, thread, history>>

\* ... the token and the cursor are read, and the dict of context tokens is
\* walked through ...
Take(w) ==
    /\ save[w].at = "open"
    /\ save' = [save EXCEPT ![w].at = "taken", ![w].copy = objs[Object(w)]]
    /\ odd' = odd \cup (IF inbox # {} /\ Object(w) = Cur THEN {"early"} ELSE {})
    /\ UNCHANGED <<server, stored, runs, pc, login, objs, incoming, thread, history>>

Keys(ctx) == {u \in Users : ctx[u] # NoKey}

\* ... which another thread may have changed meanwhile; the text is written when
\* the file is closed, over what another thread wrote since it was opened.
Write(w) ==
    LET whole == [save[w].copy EXCEPT !.ctx = objs[Object(w)].ctx] IN
    /\ save[w].at = "taken"
    /\ save' = [save EXCEPT ![w] = NotSaving]
    /\ stored' \in {whole} \cup (IF save[w].mixed THEN {Torn} ELSE {})
    /\ IF w = Main
       THEN pc' = "loop" /\ UNCHANGED <<thread, kept>>
       ELSE /\ thread' = [thread EXCEPT ![w] = NoThread]
            /\ kept' = IF thread[w].obj = Cur THEN kept \cup thread[w].msgs ELSE kept
            /\ UNCHANGED pc
    /\ UNCHANGED <<server, runs, login, objs, incoming, base, lost, odd>>

\* A key that is added during the walk ends it with an error.
WriteFails(w) ==
    /\ save[w].at = "taken" /\ w # Main
    /\ Keys(save[w].copy.ctx) # Keys(objs[Object(w)].ctx)
    /\ save' = [save EXCEPT ![w] = NotSaving] /\ stored' = Torn
    /\ thread' = [thread EXCEPT ![w] = NoThread] /\ odd' = odd \cup {"key"}
    /\ UNCHANGED <<server, runs, pc, login, objs, incoming, history>>
-----------------------------------------------------------------------------
Login == NewCode \/ Refresh \/ Wait \/ AskNumber \/ EnterNumber \/ Confirmed \/ GiveUp
Saving(w) == OpenFile(w) \/ Take(w) \/ Write(w) \/ WriteFails(w)
Turn(u) == Dispatch(u) \/ SendItem(u) \/ Reply(u) \/ Fail(u)

ChannelNext ==
    \/ Start \/ End \/ RemoveFile
    \/ Login \/ Phone \/ Expire
    \/ Refused \/ Poll \/ Parse \/ ParseFails
    \/ \E u \in Users : Turn(u)
    \/ \E w \in Savers : Saving(w)

ChannelSpec == ChannelInit /\ [][ChannelNext]_channelVars

\* Threads go on; a user who is asked for a number enters one.
FairChannelSpec ==
    ChannelSpec /\ WF_channelVars(Login) /\ \A w \in Savers : WF_channelVars(Saving(w))
-----------------------------------------------------------------------------
(* Properties.                                                             *)

Stages == {"none", "fresh", "scanned", "asks", "blocked", "expired", "confirmed", "bound"}

\* The variables have their types; a running process has a session.
ChannelTypeOK ==
    /\ log \in Seq(Inbound) /\ Len(log) <= MaxMsgs
    /\ code \in [Codes -> Stages] /\ codes \in 0..MaxCodes /\ accepted \in 0..MaxCodes
    /\ stored \in Sessions \cup {Torn, Missing} /\ runs \in 0..MaxRuns
    /\ pc \in {"down", "newcode", "wait", "number", "save", "loop"}
    /\ qrcode \in 0..MaxCodes /\ polls \in 0..MaxPolls
    /\ objs \in Seq(Sessions) /\ (pc \in {"save", "loop"} => objs # <<>>)
    /\ inbox \subseteq 1..Len(log) /\ answer \subseteq 1..Len(log) /\ pending \subseteq 1..Len(log)
    /\ \A u \in Users : /\ thread[u].at \in {"none", "handle", "save"}
                        /\ thread[u].at # "none" => thread[u].obj \in 1..Cur
    /\ save \in [Savers -> [at : {"no", "open", "taken"}, copy : Sessions \cup {Torn}, mixed : BOOLEAN]]
    /\ kept \subseteq 1..Len(log) /\ lost \subseteq 1..Len(log)
    /\ base \in [Codes -> 0..MaxMsgs]

\* A login ends: with a session, or with the process, at the latest at its deadline.
LoginEnds == pc = "newcode" ~> pc \in {"loop", "down"}

\* Whenever nobody is saving, session.json can be read, and a process that
\* listens has left one -- unless a process ended during a save, two saves
\* overlapped, or a user wrote for the first time during one.
SessionSurvives ==
    odd \cap {"midsave", "overlap", "key"} = {} /\ Busy = {}
        => stored # Torn /\ (pc = "loop" => stored # Missing)

\* Messages that a session's cursor has passed left their context tokens in it:
\* across logins, saves and restarts a user is past the cursor and without a token
\* only if its message was empty or lost with an answer that the parser failed on,
\* while an answer is parsed, or after a save just then.
CursorCoversContexts ==
    LET Covers(s, but) == \A m \in (base[s.tok] + 1)..s.buf :
            log[m].kind = "token" /\ m \notin but \cup lost => Context(s, log[m].user) >= m
    IN  odd \cap {"early", "overlap"} = {} =>
        /\ \A i \in 1..Cur : Covers(objs[i], IF i = Cur THEN inbox ELSE {})
        /\ stored \in Sessions => Covers(stored, {})

\* What a turn sends, files and the answer, carries a context token of its user,
\* and while the process has not logged in again none older than the messages it
\* answers.
ReplyInContext ==
    \A u \in Users : LET t == thread[u] IN
        t.at # "none" /\ t.ctx # NoKey =>
            /\ t.ctx # 0 => log[t.ctx].user = u
            /\ t.obj = 1 => \A m \in t.msgs : log[m].kind = "token" => t.ctx >= m

\* A message is not delivered again once its answer was sent and the session saved.
NoReplay == "overlap" \notin odd => inbox \cap kept = {}

\* The saved cursor stands where it should: not past what is needed to answer a
\* message, not before a message that was answered.
CursorSound == CursorCoversContexts /\ NoReplay
=============================================================================
