-------------------------- MODULE MessageLoopProofs --------------------------
(***************************************************************************)
(* Proofs about MessageLoop for every number of users, texts, messages and *)
(* logins: type correctness, at most one dispatch thread per user,         *)
(* handling of each user's messages in the order of their arrival, and no  *)
(* message lost.                                                           *)
(***************************************************************************)
EXTENDS MessageLoop, FiniteSetTheorems, SequenceTheorems, TLAPS

\* The tuples of UNCHANGED variables, opened in every leaf.
USE DEF server, sessions, queue, dedup, history
-----------------------------------------------------------------------------
(* Type correctness.                                                       *)

\* A sequence given by its elements.
LEMMA SeqByElements ==
    ASSUME NEW S, NEW n \in Nat, NEW f \in [1..n -> S]
    PROVE  f \in Seq(S)
BY SeqDef, Zenon

\* The signature of a batch (message_signature) is a Signature.
LEMMA SignatureType ==
    ASSUME NEW batch \in Seq(Message)
    PROVE  Signature(batch) \in Seq(Texts)
<1>1. Len(batch) \in Nat /\ \A i \in 1..Len(batch) : batch[i].text \in Texts
    <2>1. Len(batch) \in Nat /\ \A i \in 1..Len(batch) : batch[i] \in Message
        BY LenProperties, ElementOfSeq
    <2> QED BY <2>1 DEF Message
<1>2. Signature(batch) \in [1..Len(batch) -> Texts]
    BY <1>1 DEF Signature
<1> QED BY <1>1, <1>2, SeqByElements

\* The process starts well typed.
LEMMA InitType == Init => TypeOK
<1> SUFFICES ASSUME Init PROVE TypeOK
    OBVIOUS
<1>1. \A S : <<>> \in Seq(S)
    BY EmptySeq
<1>2. SessionType
    BY <1>1, LoopAssumption DEF Init, SessionType, Sessions, Saved, Torn, LoopAssumption
<1>3. ControlType
    BY DEF Init, ControlType
<1>4. QueueType
    BY <1>1 DEF Init, QueueType
<1>5. ThreadType
    BY DEF Init, ThreadType
<1>6. HistoryType
    BY <1>1 DEF Init, HistoryType
<1> QED BY <1>2, <1>3, <1>4, <1>5, <1>6 DEF TypeOK

\* Leaving the loop (main's finally) changes the control state only.
LEMMA ExitType ==
    ASSUME TypeOK, Exit, running' \in BOOLEAN, shutdown' \in BOOLEAN
    PROVE  TypeOK'
BY DEF TypeOK, SessionType, ControlType, QueueType, ThreadType, HistoryType, Exit

\* The head of _message_loop keeps the types.
LEMMA LoopTopType == TypeOK /\ LoopTop => TypeOK'
<1> SUFFICES ASSUME TypeOK, LoopTop PROVE TypeOK'
    OBVIOUS
<1>1. CASE Exit /\ UNCHANGED <<running, shutdown>>
    BY <1>1, ExitType DEF TypeOK, ControlType
<1>2. CASE Exit /\ running' = FALSE /\ shutdown' = FALSE
    BY <1>2, ExitType
<1>3. CASE pc' = "poll" /\ UNCHANGED <<server, sessions, file, running, shutdown, inbox,
               queue, ready, dedup, processing, threads, history>>
    BY <1>3 DEF TypeOK, SessionType, ControlType, QueueType, ThreadType, HistoryType
<1> QED BY <1>1, <1>2, <1>3 DEF LoopTop

\* An answer of get_updates extends log and inbox by typed messages.
LEMMA PollAnswerType == TypeOK /\ PollAnswer => TypeOK'
<1> SUFFICES ASSUME TypeOK, PollAnswer PROVE TypeOK'
    OBVIOUS
<1> DEFINE from == IF buf[epoch] = 0 THEN Len(log) ELSE buf[epoch]
           msgs(n, new) == [i \in 1..n |-> [id   |-> Len(log) + i,
                                            user |-> new[i][1],
                                            text |-> new[i][2]]]
<1>1. PICK n \in 0..MaxBatch : \E new \in [1..n -> Users \X Texts] :
           /\ Len(log) + n <= MaxMsgs
           /\ log' = log \o msgs(n, new)
           /\ inbox' = SubSeq(log \o msgs(n, new), from + 1, Len(log) + n)
           /\ buf' = [buf EXCEPT ![epoch] = Len(log) + n]
    BY DEF PollAnswer
<1>2. PICK new \in [1..n -> Users \X Texts] :
           /\ Len(log) + n <= MaxMsgs
           /\ log' = log \o msgs(n, new)
           /\ inbox' = SubSeq(log \o msgs(n, new), from + 1, Len(log) + n)
           /\ buf' = [buf EXCEPT ![epoch] = Len(log) + n]
    BY <1>1
<1>3. n \in Nat /\ Len(log) \in Nat /\ from \in Nat /\ log \in Seq(Message)
    BY LoopAssumption DEF LoopAssumption, TypeOK, SessionType, Sessions
<1>4. msgs(n, new) \in Seq(Message) /\ Len(msgs(n, new)) = n
    <2>1. \A i \in 1..n : new[i] \in Users \X Texts
        OBVIOUS
    <2>2. msgs(n, new) \in [1..n -> Message]
        BY <1>2, <1>3, <2>1, LoopAssumption DEF LoopAssumption, Message
    <2> QED BY <1>3, <2>2, SeqByElements
<1> HIDE DEF msgs
<1>5. log' \in Seq(Message) /\ Len(log') = Len(log) + n
    <2>1. /\ log \o msgs(n, new) \in Seq(Message)
          /\ Len(log \o msgs(n, new)) = Len(log) + Len(msgs(n, new))
        BY <1>3, <1>4, ConcatProperties, Zenon
    <2> QED BY <1>2, <1>4, <2>1
<1>6. inbox' \in Seq(Message)
    <2>1. \A i \in (from + 1)..(Len(log) + n) : log'[i] \in Message
        BY <1>3, <1>5, ElementOfSeq
    <2>2. SubSeq(log', from + 1, Len(log) + n) \in Seq(Message)
        BY <1>3, <2>1, SubSeqProperties
    <2> QED BY <1>2, <2>2
<1>7. buf' \in [Sessions -> 0..MaxMsgs]
    BY <1>2, <1>3 DEF TypeOK, SessionType
<1> QED BY <1>5, <1>6, <1>7
        DEF PollAnswer, TypeOK, SessionType, ControlType, QueueType, ThreadType, HistoryType

\* A failed poll keeps the types.
LEMMA PollErrorType == TypeOK /\ PollError => TypeOK'
BY DEF PollError, TypeOK, SessionType, ControlType, QueueType, ThreadType, HistoryType

\* The elements of a sequence over S are in S.
LEMMA RangeType ==
    ASSUME NEW S, NEW s \in Seq(S)
    PROVE  Range(s) \subseteq S
BY LenProperties, ElementOfSeq DEF Range

\* Expiry and re-login keep the types; the epoch stays within MaxLogins.
LEMMA ReloginType == TypeOK /\ Relogin => TypeOK'
<1> SUFFICES ASSUME TypeOK, Relogin PROVE TypeOK'
    OBVIOUS
<1>1. CASE Exit /\ UNCHANGED <<running, shutdown>>
    BY <1>1, ExitType DEF TypeOK, ControlType
<1>2. CASE ~Exit
    <2>1. epoch + 1 \in Sessions
        BY LoopAssumption DEF LoopAssumption, Relogin, TypeOK, SessionType, Sessions
    <2>2. SessionType'
        <3>1. [sess |-> epoch + 1, buf |-> 0] \in Saved
            BY <2>1, LoopAssumption DEF LoopAssumption, Saved
        <3> QED BY <1>2, <2>1, <3>1 DEF Relogin, TypeOK, SessionType
    <2>3. ControlType'
        BY <1>2 DEF Relogin, TypeOK, ControlType
    <2>4. QueueType'
        BY <1>2, EmptySeq DEF Relogin, TypeOK, QueueType
    <2>5. ThreadType'
        BY <1>2 DEF Relogin, TypeOK, ThreadType
    <2>6. HistoryType'
        <3>1. \A u \in Users : Range(pending[u]) \subseteq Message
            BY RangeType DEF TypeOK, QueueType
        <3> QED BY <1>2, <3>1 DEF Relogin, TypeOK, HistoryType
    <2> QED BY <2>2, <2>3, <2>4, <2>5, <2>6 DEF TypeOK
<1> QED BY <1>1, <1>2 DEF Relogin

\* Moving a message from inbox to its user's queue keeps the types.
LEMMA CollectType == TypeOK /\ Collect => TypeOK'
<1> SUFFICES ASSUME TypeOK, Collect PROVE TypeOK'
    OBVIOUS
<1>1. Head(inbox) \in Message /\ Tail(inbox) \in Seq(Message)
    BY HeadTailProperties DEF Collect, TypeOK, QueueType
<1>2. Head(inbox).user \in Users
    BY <1>1 DEF Message
<1>3. Append(pending[Head(inbox).user], Head(inbox)) \in Seq(Message)
    BY <1>1, <1>2 DEF TypeOK, QueueType
<1>4. QueueType'
    BY <1>1, <1>2, <1>3 DEF Collect, TypeOK, QueueType
<1> QED BY <1>4 DEF Collect, TypeOK, SessionType, ControlType, ThreadType, HistoryType

\* The list of ready users consists of users.
LEMMA ComputeReadyType == TypeOK /\ ComputeReady => TypeOK'
BY EmptySeq
   DEF ComputeReady, TypeOK, SessionType, ControlType, QueueType, ThreadType, HistoryType

\* Taking, dropping, requeueing or dispatching a batch keeps the types.
LEMMA DrainType ==
    ASSUME TypeOK, NEW u \in Users,
           SkipDuplicate(u) \/ RequeueBusy(u) \/ StartThread(u)
    PROVE  TypeOK'
<1>1. /\ <<>> \in Seq(Message) /\ pending[u] \in Seq(Message)
      /\ Signature(pending[u]) \in Seq(Texts)
    BY EmptySeq, SignatureType DEF TypeOK, QueueType
<1>2. CASE SkipDuplicate(u)
    <2>1. QueueType'
        BY <1>1, <1>2 DEF SkipDuplicate, TakeBatch, TypeOK, QueueType
    <2>2. HistoryType'
        BY <1>1, <1>2 DEF SkipDuplicate, TypeOK, HistoryType
    <2> QED BY <1>2, <2>1, <2>2 DEF SkipDuplicate, TypeOK, SessionType, ControlType, ThreadType
<1>3. CASE RequeueBusy(u)
    <2>1. QueueType'
        BY <1>1, <1>3 DEF RequeueBusy, TakeBatch, Stamp, TypeOK, QueueType
    <2> QED BY <1>3, <2>1 DEF RequeueBusy, TypeOK, SessionType, ControlType, ThreadType, HistoryType
<1>4. CASE StartThread(u)
    <2>1. QueueType'
        BY <1>1, <1>4 DEF StartThread, TakeBatch, Stamp, TypeOK, QueueType
    <2>2. [uid |-> u, batch |-> pending[u], sess |-> epoch, at |-> "handle"] \in Thread
        BY <1>1 DEF Thread, TypeOK, SessionType
    <2>3. ThreadType'
        BY <1>4, <2>2 DEF StartThread, TypeOK, ThreadType
    <2> QED BY <1>4, <2>1, <2>3 DEF StartThread, TypeOK, SessionType, ControlType, HistoryType
<1> QED BY <1>2, <1>3, <1>4

\* Dropping old dedup records keeps the types.
LEMMA CleanupType == TypeOK /\ Cleanup => TypeOK'
<1> SUFFICES ASSUME TypeOK, Cleanup PROVE TypeOK'
    OBVIOUS
<1>1. last' \in [Users -> Seq(Texts)]
    <2>1. PICK old \in SUBSET (Users \ stamped) :
              last' = [u \in Users |-> IF u \in old THEN <<>> ELSE last[u]]
        BY DEF Cleanup
    <2>2. <<>> \in Seq(Texts)
        BY EmptySeq
    <2> QED BY <2>1, <2>2 DEF TypeOK, QueueType
<1> QED BY <1>1
        DEF Cleanup, TypeOK, SessionType, ControlType, QueueType, ThreadType, HistoryType

\* A thread step keeps the thread's user, batch and session.
LEMMA MoveType ==
    ASSUME ThreadType, NEW t \in threads, NEW to \in {"handle", "save", "write", "cleanup"},
           Move(t, to)
    PROVE  threads' \subseteq Thread
BY DEF ThreadType, Move, Thread

\* A dispatch thread's own steps keep the types.
LEMMA ThreadStepType ==
    ASSUME TypeOK, NEW t \in threads, DispatchThread(t)
    PROVE  TypeOK'
<1>1. t \in Thread /\ t.sess \in Sessions /\ t.uid \in Users /\ t.batch \in Seq(Message)
    BY DEF TypeOK, ThreadType, Thread
<1>2. CASE Handle(t)
    <2>1. threads' \subseteq Thread
        BY <1>2, MoveType DEF Handle, TypeOK
    <2>2. replies' \subseteq [from : Sessions, on : Sessions]
        BY <1>1, <1>2 DEF Handle, TypeOK, SessionType, HistoryType
    <2> QED BY <1>2, <2>1, <2>2
            DEF Handle, TypeOK, SessionType, ControlType, QueueType, ThreadType, HistoryType
<1>3. CASE SaveOpen(t)
    <2>1. threads' \subseteq Thread
        BY <1>3, MoveType DEF SaveOpen, TypeOK
    <2> QED BY <1>3, <2>1
            DEF SaveOpen, TypeOK, SessionType, ControlType, QueueType, ThreadType, HistoryType
<1>4. CASE SaveWrite(t)
    <2>1. threads' \subseteq Thread
        BY <1>4, MoveType DEF SaveWrite, TypeOK
    <2>2. file' \in Saved \cup {Torn}
        BY <1>1, <1>4 DEF SaveWrite, TypeOK, SessionType, Saved
    <2>3. replies' \subseteq [from : Sessions, on : Sessions]
        BY <1>1, <1>4 DEF SaveWrite, TypeOK, HistoryType
    <2> QED BY <1>4, <2>1, <2>2, <2>3
            DEF SaveWrite, TypeOK, SessionType, ControlType, QueueType, ThreadType, HistoryType
<1>5. CASE Finish(t)
    <2>1. handled[t.uid] \o t.batch \in Seq(Message)
        BY <1>1, ConcatProperties DEF TypeOK, HistoryType
    <2> QED BY <1>1, <1>5, <2>1
            DEF Finish, TypeOK, SessionType, ControlType, QueueType, ThreadType, HistoryType
<1> QED BY <1>2, <1>3, <1>4, <1>5 DEF DispatchThread

\* Time, expiry of the token and shutdown requests keep the types.
LEMMA EnvironmentType == TypeOK /\ Environment => TypeOK'
BY DEF Environment, DebounceOver, TokenExpires, Signal, ShutdownFile,
       TypeOK, SessionType, ControlType, QueueType, ThreadType, HistoryType

\* Every variable stays in its type, along every step of the process.
THEOREM TypeCorrect == Spec => []TypeOK
<1>1. TypeOK /\ [Next]_vars => TypeOK'
    <2> SUFFICES ASSUME TypeOK, [Next]_vars PROVE TypeOK'
        OBVIOUS
    <2>1. CASE Main
        BY <2>1, LoopTopType, PollAnswerType, PollErrorType, ReloginType, CollectType,
           ComputeReadyType, DrainType, CleanupType DEF Main
    <2>2. CASE \E t \in threads : DispatchThread(t)
        BY <2>2, ThreadStepType
    <2>3. CASE Environment
        BY <2>3, EnvironmentType
    <2>4. CASE UNCHANGED vars
        BY <2>4 DEF vars, TypeOK, SessionType, ControlType, QueueType, ThreadType, HistoryType
    <2> QED BY <2>1, <2>2, <2>3, <2>4 DEF Next
<1> QED BY <1>1, InitType, PTL DEF Spec
-----------------------------------------------------------------------------
(* One dispatch thread per user.                                           *)

ThreadInv == OneThreadPerUser /\ BusyMatchesThreads

\* The steps that leave processing_uids and the threads alone.
LEMMA ThreadInvFrame ==
    ASSUME ThreadInv, UNCHANGED <<threads, processing>>, pc' = "exited" \/ pc # "exited"
    PROVE  ThreadInv'
BY DEF ThreadInv, OneThreadPerUser, BusyMatchesThreads

\* No step but LoopTop and Relogin ends the process, and none revives it.
LEMMA ThreadInvExit ==
    ASSUME Exit
    PROVE  ThreadInv'
BY DEF Exit, ThreadInv, OneThreadPerUser, BusyMatchesThreads

\* A thread that moves on keeps its user.
LEMMA ThreadInvMove ==
    ASSUME TypeOK, ThreadInv, NEW t \in threads, NEW to, Move(t, to),
           UNCHANGED <<processing, pc>>
    PROVE  ThreadInv'
<1> DEFINE moved == [t EXCEPT !.at = to]
<1>1. moved.uid = t.uid
    BY DEF TypeOK, ThreadType, Thread
<1>2. threads' = (threads \ {t}) \cup {moved}
    BY DEF Move
<1> HIDE DEF moved
<1>3. OneThreadPerUser'
    BY <1>1, <1>2 DEF ThreadInv, OneThreadPerUser
<1>4. {s.uid : s \in threads'} = {s.uid : s \in threads}
    BY <1>1, <1>2
<1>5. BusyMatchesThreads'
    BY <1>4 DEF ThreadInv, BusyMatchesThreads
<1> QED BY <1>3, <1>5 DEF ThreadInv

\* StartThread's busy check: the user of the new thread had none.
LEMMA ThreadInvStart ==
    ASSUME ThreadInv, NEW u \in Users, StartThread(u)
    PROVE  ThreadInv'
<1> DEFINE new == [uid |-> u, batch |-> pending[u], sess |-> epoch, at |-> "handle"]
<1>1. new.uid = u /\ threads' = threads \cup {new} /\ processing' = processing \cup {u}
    BY DEF StartThread
<1>2. pc = "drain" /\ pc' = pc /\ u \notin processing
    BY DEF StartThread, TakeBatch
<1>3. \A s \in threads : s.uid # u
    BY <1>2 DEF ThreadInv, BusyMatchesThreads
<1> HIDE DEF new
<1>4. OneThreadPerUser'
    BY <1>1, <1>3 DEF ThreadInv, OneThreadPerUser
<1>5. {s.uid : s \in threads'} = {s.uid : s \in threads} \cup {u}
    BY <1>1
<1>6. BusyMatchesThreads'
    BY <1>1, <1>2, <1>5 DEF ThreadInv, BusyMatchesThreads
<1> QED BY <1>4, <1>6 DEF ThreadInv

\* The last step of a thread frees exactly its own user (discard).
LEMMA ThreadInvFinish ==
    ASSUME ThreadInv, NEW t \in threads, Finish(t)
    PROVE  ThreadInv'
<1>1. threads' = threads \ {t} /\ processing' = processing \ {t.uid} /\ pc' = pc
    BY DEF Finish
<1>2. OneThreadPerUser'
    BY <1>1 DEF ThreadInv, OneThreadPerUser
<1>3. {s.uid : s \in threads'} = {s.uid : s \in threads} \ {t.uid}
    BY <1>1 DEF ThreadInv, OneThreadPerUser
<1>4. BusyMatchesThreads'
    BY <1>1, <1>3 DEF ThreadInv, BusyMatchesThreads
<1> QED BY <1>2, <1>4 DEF ThreadInv

\* One thread per user, and processing_uids names exactly the users that have
\* one: neither debouncing nor a re-login can start a second one.
LEMMA ThreadInvCorrect == Spec => []ThreadInv
<1>1. Init => ThreadInv
    BY DEF Init, ThreadInv, OneThreadPerUser, BusyMatchesThreads
<1>2. TypeOK /\ ThreadInv /\ [Next]_vars => ThreadInv'
    <2> SUFFICES ASSUME TypeOK, ThreadInv, [Next]_vars PROVE ThreadInv'
        OBVIOUS
    <2>1. CASE Exit
        BY <2>1, ThreadInvExit
    <2>2. CASE (LoopTop \/ Relogin) /\ ~Exit
        BY <2>2, ThreadInvFrame DEF LoopTop, Relogin
    <2>3. CASE PollAnswer \/ PollError \/ Collect \/ ComputeReady \/ Cleanup \/ Environment
        BY <2>3, ThreadInvFrame
           DEF PollAnswer, PollError, Collect, ComputeReady, Cleanup, Environment,
               DebounceOver, TokenExpires, Signal, ShutdownFile
    <2>4. CASE \E u \in Users : SkipDuplicate(u) \/ RequeueBusy(u)
        BY <2>4, ThreadInvFrame DEF SkipDuplicate, RequeueBusy, TakeBatch
    <2>5. CASE \E u \in Users : StartThread(u)
        BY <2>5, ThreadInvStart
    <2>6. CASE \E t \in threads : DispatchThread(t)
        BY <2>6, ThreadInvMove, ThreadInvFinish
           DEF DispatchThread, Handle, SaveOpen, SaveWrite
    <2>7. CASE UNCHANGED vars
        BY <2>7, ThreadInvFrame DEF vars
    <2> QED BY <2>1, <2>2, <2>3, <2>4, <2>5, <2>6, <2>7 DEF Next, Main
<1> QED BY <1>1, <1>2, TypeCorrect, PTL DEF Spec

THEOREM OneThreadPerUserCorrect == Spec => [](OneThreadPerUser /\ BusyMatchesThreads)
<1>1. ThreadInv => OneThreadPerUser /\ BusyMatchesThreads
    BY DEF ThreadInv
<1> QED BY <1>1, ThreadInvCorrect, PTL
-----------------------------------------------------------------------------
(* Messages are handled in arrival order.                                  *)

\* Sequences in a line: what joining two sorted runs gives.
LEMMA SortedConcat ==
    ASSUME NEW s \in Seq(Message), NEW t \in Seq(Message),
           Sorted(s), Sorted(t), Precedes(s, t)
    PROVE  Sorted(s \o t)
<1>1. /\ Len(s \o t) = Len(s) + Len(t)
      /\ \A i \in 1..Len(s) + Len(t) :
             (s \o t)[i] = IF i <= Len(s) THEN s[i] ELSE t[i - Len(s)]
    BY ConcatProperties
<1>2. Len(s) \in Nat /\ Len(t) \in Nat
    BY LenProperties
<1>3. SUFFICES ASSUME NEW i \in 1..Len(s \o t), NEW j \in 1..Len(s \o t), i < j
               PROVE  (s \o t)[i].id < (s \o t)[j].id
    BY DEF Sorted
<1>4. CASE j <= Len(s)
    BY <1>1, <1>2, <1>3, <1>4 DEF Sorted
<1>5. CASE i <= Len(s) /\ j > Len(s)
    BY <1>1, <1>2, <1>3, <1>5 DEF Precedes
<1>6. CASE i > Len(s)
    <2>1. i - Len(s) \in 1..Len(t) /\ j - Len(s) \in 1..Len(t) /\ i - Len(s) < j - Len(s)
        BY <1>1, <1>2, <1>3, <1>6
    <2>2. t[i - Len(s)].id < t[j - Len(s)].id
        BY <2>1 DEF Sorted
    <2> QED BY <1>1, <1>2, <1>3, <1>6, <2>2
<1> QED BY <1>2, <1>3, <1>4, <1>5, <1>6, <1>1

\* A joined run precedes what both its parts precede, and conversely.
LEMMA PrecedesConcat ==
    ASSUME NEW s \in Seq(Message), NEW t \in Seq(Message), NEW r \in Seq(Message),
           Precedes(s, r), Precedes(t, r)
    PROVE  Precedes(s \o t, r)
<1>1. /\ Len(s \o t) = Len(s) + Len(t)
      /\ \A i \in 1..Len(s) + Len(t) :
             (s \o t)[i] = IF i <= Len(s) THEN s[i] ELSE t[i - Len(s)]
    BY ConcatProperties
<1>2. Len(s) \in Nat /\ Len(t) \in Nat
    BY LenProperties
<1> QED BY <1>1, <1>2 DEF Precedes

\* A joined run is old when its parts are.
LEMMA OldConcat ==
    ASSUME NEW s \in Seq(Message), NEW t \in Seq(Message), inbox \in Seq(Message),
           Old(s), Old(t)
    PROVE  Old(s \o t)
<1>1. /\ Len(s \o t) = Len(s) + Len(t)
      /\ \A i \in 1..Len(s) + Len(t) :
             (s \o t)[i] = IF i <= Len(s) THEN s[i] ELSE t[i - Len(s)]
    BY ConcatProperties
<1>2. Len(s) \in Nat /\ Len(t) \in Nat
    BY LenProperties
<1>3. pc = "collect" => Precedes(s \o t, inbox)
    BY PrecedesConcat DEF Old
<1>4. \A i \in 1..Len(s \o t) : (s \o t)[i].id <= Len(log)
    BY <1>1, <1>2 DEF Old
<1> QED BY <1>3, <1>4 DEF Old

\* The empty run is sorted and stands anywhere.
LEMMA EmptyOrder ==
    /\ Sorted(<<>>) /\ Old(<<>>)
    /\ \A s : Precedes(<<>>, s) /\ Precedes(s, <<>>)
BY DEF Sorted, Old, Precedes

\* Steps that leave the line of every user as it is and do not start a
\* collection.
LEMMA OrderFrame ==
    ASSUME ArrivalOrder,
           UNCHANGED <<log, buf, epoch, handled, pending>>, threads' \subseteq threads,
           pc' = "collect" => pc = "collect" /\ UNCHANGED inbox
    PROVE  ArrivalOrder'
<1>1. \A s : Old(s) => Old(s)'
    BY DEF Old, Precedes
<1> QED BY <1>1 DEF ArrivalOrder, Sorted, Precedes, Old

\* An answer brings the messages behind those of the log, numbered on.
LEMMA Received ==
    ASSUME TypeOK, ArrivalOrder, PollAnswer
    PROVE  \E n \in Nat :
               /\ Len(log) \in Nat /\ Len(log') = Len(log) + n /\ Len(inbox') = n
               /\ Len(log) + n <= MaxMsgs /\ buf' = [buf EXCEPT ![epoch] = Len(log) + n]
               /\ \A i \in 1..Len(log) : log'[i] = log[i]
               /\ \A i \in 1..n : inbox'[i] = log'[Len(log) + i]
               /\ \A i \in 1..Len(log) + n : log'[i].id = i
<1> DEFINE msgs(n, new) == [i \in 1..n |-> [id   |-> Len(log) + i,
                                            user |-> new[i][1],
                                            text |-> new[i][2]]]
<1>1. PICK n \in 0..MaxBatch : \E new \in [1..n -> Users \X Texts] :
           /\ log' = log \o msgs(n, new)
           /\ inbox' = SubSeq(log \o msgs(n, new), Len(log) + 1, Len(log) + n)
           /\ buf' = [buf EXCEPT ![epoch] = Len(log) + n]
           /\ Len(log) + n <= MaxMsgs
    BY DEF PollAnswer, ArrivalOrder
<1>2. PICK new \in [1..n -> Users \X Texts] :
           /\ log' = log \o msgs(n, new)
           /\ inbox' = SubSeq(log \o msgs(n, new), Len(log) + 1, Len(log) + n)
           /\ buf' = [buf EXCEPT ![epoch] = Len(log) + n]
           /\ Len(log) + n <= MaxMsgs
    BY <1>1
<1> DEFINE ms == msgs(n, new)
<1>3. n \in Nat /\ Len(log) \in Nat /\ log \in Seq(Message)
    BY LoopAssumption DEF LoopAssumption, TypeOK, SessionType
<1>4. /\ ms \in Seq(Message) /\ Len(ms) = n
      /\ \A i \in 1..n : ms[i].id = Len(log) + i
    <2>1. \A i \in 1..n : new[i] \in Users \X Texts
        OBVIOUS
    <2>2. ms \in [1..n -> Message]
        BY <1>2, <1>3, <2>1, LoopAssumption DEF LoopAssumption, Message
    <2> QED BY <1>3, <2>2, SeqByElements
<1>5. log' = log \o ms /\ inbox' = SubSeq(log \o ms, Len(log) + 1, Len(log) + n)
    BY <1>2
<1> HIDE DEF ms
<1>6. /\ log' \in Seq(Message) /\ Len(log') = Len(log) + n
      /\ \A i \in 1..Len(log) + n : log'[i].id = i
      /\ \A i \in 1..Len(log) : log'[i] = log[i]
    <2>1. /\ log \o ms \in Seq(Message)
          /\ Len(log \o ms) = Len(log) + Len(ms)
          /\ \A i \in 1..Len(log) + Len(ms) :
                 (log \o ms)[i] = IF i <= Len(log) THEN log[i] ELSE ms[i - Len(log)]
        BY <1>3, <1>4, ConcatProperties, Zenon
    <2>2. \A i \in 1..Len(log) + n : (log \o ms)[i].id = i
        BY <1>3, <1>4, <2>1 DEF ArrivalOrder
    <2>3. \A i \in 1..Len(log) : (log \o ms)[i] = log[i]
        BY <1>3, <1>4, <2>1
    <2> QED BY <1>5, <1>4, <2>1, <2>2, <2>3
<1>7. /\ Len(inbox') = n
      /\ \A i \in 1..n : inbox'[i] = log'[Len(log) + i]
    <2>1. \A i \in (Len(log) + 1)..(Len(log) + n) : log'[i] \in Message
        BY <1>3, <1>6, ElementOfSeq
    <2> DEFINE cut == SubSeq(log', Len(log) + 1, Len(log) + n)
    <2>2. /\ Len(cut) = IF Len(log) + 1 <= Len(log) + n THEN Len(log) + n - (Len(log) + 1) + 1 ELSE 0
          /\ \A i \in 1..Len(log) + n - (Len(log) + 1) + 1 : cut[i] = log'[Len(log) + 1 + i - 1]
        BY <1>3, <2>1, SubSeqProperties
    <2>3. inbox' = cut
        BY <1>5
    <2> HIDE DEF cut
    <2>4. Len(cut) = n /\ \A i \in 1..n : cut[i] = log'[Len(log) + i]
        BY <1>3, <2>2
    <2> QED BY <1>3, <1>6, <2>3, <2>4
<1> QED BY <1>2, <1>3, <1>6, <1>7

\* New messages get larger ids than all that were received before.
LEMMA OrderPollAnswer ==
    ASSUME TypeOK, ArrivalOrder, PollAnswer
    PROVE  ArrivalOrder'
<1>1. PICK n \in Nat :
          /\ Len(log) \in Nat /\ Len(log') = Len(log) + n /\ Len(inbox') = n
          /\ Len(log) + n <= MaxMsgs /\ buf' = [buf EXCEPT ![epoch] = Len(log) + n]
          /\ \A i \in 1..Len(log) : log'[i] = log[i]
          /\ \A i \in 1..n : inbox'[i] = log'[Len(log) + i]
          /\ \A i \in 1..Len(log) + n : log'[i].id = i
    BY Received
<1>2. buf' = [buf EXCEPT ![epoch] = Len(log) + n]
    BY <1>1
<1>3. n \in Nat /\ Len(log) \in Nat
    BY <1>1
<1>6. Len(log') = Len(log) + n /\ \A i \in 1..Len(log') : log'[i].id = i
    BY <1>1
<1>7. Len(inbox') = n /\ \A i \in 1..n : inbox'[i].id = Len(log) + i
    BY <1>1
<1>8. \A s \in Seq(Message) : Old(s) => Old(s)'
    <2>1. ASSUME NEW s \in Seq(Message), Old(s) PROVE Old(s)'
        <3>1. s \in [1..Len(s) -> Message]
            BY LenProperties
        <3>2. \A i \in 1..Len(s) : s[i].id \in Nat /\ s[i].id <= Len(log)
            BY <2>1, <3>1 DEF Old, Message
        <3> QED BY <1>3, <1>6, <1>7, <3>2 DEF Old, Precedes
    <2> QED BY <2>1
<1>9. UNCHANGED <<handled, pending, threads, epoch>>
    BY DEF PollAnswer
<1>10. Sorted(inbox)' /\ \A i \in 1..Len(inbox') : inbox'[i].id <= Len(log')
    BY <1>3, <1>6, <1>7 DEF Sorted
<1>11. buf'[epoch'] \in {0, Len(log')} /\ \A e \in Sessions : e > epoch' => buf'[e] = 0
    BY <1>2, <1>3, <1>6, <1>9 DEF ArrivalOrder, TypeOK, SessionType, Sessions
<1>12. \A u \in Users : /\ Sorted(handled'[u]) /\ Old(handled[u])'
                        /\ Sorted(pending'[u]) /\ Old(pending[u])'
                        /\ Precedes(handled'[u], pending'[u])
    BY <1>8, <1>9 DEF ArrivalOrder, TypeOK, QueueType, HistoryType
<1>13. \A t \in threads' : /\ Sorted(t.batch) /\ Old(t.batch)'
                           /\ Precedes(handled'[t.uid], t.batch)
                           /\ Precedes(t.batch, pending'[t.uid])
    <2>1. \A t \in threads : t.batch \in Seq(Message)
        BY DEF TypeOK, ThreadType, Thread
    <2> QED BY <1>8, <1>9, <2>1 DEF ArrivalOrder
<1> QED BY <1>6, <1>10, <1>11, <1>12, <1>13 DEF ArrivalOrder

\* The first message of the answer goes behind its user's pending ones.
LEMMA OrderCollect ==
    ASSUME TypeOK, ArrivalOrder, Collect
    PROVE  ArrivalOrder'
<1> DEFINE msg == Head(inbox)
           u   == msg.user
<1>1. /\ pc = "collect" /\ pc' = "collect" /\ inbox \in Seq(Message) /\ inbox # <<>>
      /\ inbox' = Tail(inbox)
      /\ pending' = [pending EXCEPT ![u] = Append(pending[u], msg)]
      /\ UNCHANGED <<log, buf, epoch, handled, threads>>
    BY DEF Collect, TypeOK, QueueType
<1>2. /\ msg = inbox[1] /\ msg \in Message /\ u \in Users
      /\ Len(inbox) \in Nat /\ Len(inbox) >= 1
      /\ Len(inbox') = Len(inbox) - 1
      /\ \A i \in 1..Len(inbox') : inbox'[i] = inbox[i + 1]
    <2>1. /\ Head(inbox) \in Message /\ Len(Tail(inbox)) = Len(inbox) - 1
          /\ \A i \in 1..Len(Tail(inbox)) : Tail(inbox)[i] = inbox[i + 1]
        BY <1>1, HeadTailProperties
    <2>2. Len(inbox) \in Nat /\ Len(inbox) >= 1 /\ Head(inbox) = inbox[1]
        BY <1>1, EmptySeq
    <2> QED BY <1>1, <2>1, <2>2 DEF Message
<1>3. ASSUME NEW s, Len(s) \in Nat, Old(s) PROVE Old(s)'
    BY <1>1, <1>2, <1>3 DEF Old, Precedes
<1>4. \A j \in 1..Len(inbox') : msg.id < inbox'[j].id
    BY <1>1, <1>2 DEF ArrivalOrder, Sorted
<1>5. Sorted(inbox)' /\ \A i \in 1..Len(inbox') : inbox'[i].id <= Len(log')
    BY <1>1, <1>2 DEF ArrivalOrder, Sorted
<1>6. msg.id <= Len(log)
    BY <1>1, <1>2 DEF ArrivalOrder
<1>7. \A s : Old(s) /\ Len(s) \in Nat => \A i \in 1..Len(s) : s[i].id < msg.id
    BY <1>1, <1>2 DEF Old, Precedes
<1> HIDE DEF msg, u
<1>8. ASSUME NEW v \in Users
      PROVE  /\ Sorted(handled'[v]) /\ Old(handled[v])'
             /\ Sorted(pending'[v]) /\ Old(pending[v])'
             /\ Precedes(handled'[v], pending'[v])
    <2>1. handled[v] \in Seq(Message) /\ pending[v] \in Seq(Message)
        BY DEF TypeOK, QueueType, HistoryType
    <2>2. Len(handled[v]) \in Nat /\ Len(pending[v]) \in Nat
        BY <2>1, LenProperties
    <2>3. Sorted(handled'[v]) /\ Old(handled[v])'
        BY <1>1, <1>3, <2>2 DEF ArrivalOrder
    <2>4. CASE v # u
        <3>1. pending'[v] = pending[v]
            BY <1>1, <2>4 DEF TypeOK, QueueType
        <3> QED BY <1>1, <1>3, <2>2, <2>3, <3>1 DEF ArrivalOrder
    <2>5. CASE v = u
        <3>1. /\ pending'[v] = Append(pending[v], msg)
              /\ Len(pending'[v]) = Len(pending[v]) + 1
              /\ pending'[v][Len(pending[v]) + 1] = msg
              /\ \A i \in 1..Len(pending[v]) : pending'[v][i] = pending[v][i]
            BY <1>1, <1>2, <2>1, <2>2, <2>5 DEF TypeOK, QueueType
        <3>2. Sorted(pending'[v])
            BY <1>7, <2>2, <3>1 DEF ArrivalOrder, Sorted
        <3>3. Old(pending[v])'
            <4>1. Old(pending[v])
                BY DEF ArrivalOrder
            <4>2. \A i \in 1..Len(pending'[v]) : pending'[v][i].id <= Len(log')
                BY <1>1, <1>6, <2>2, <3>1, <4>1 DEF Old
            <4>3. \A i \in 1..Len(pending[v]), j \in 1..Len(inbox') :
                      pending[v][i].id < inbox'[j].id
                BY <1>1, <1>2, <4>1 DEF Old, Precedes
            <4>4. Precedes(pending'[v], inbox')
                BY <1>4, <2>2, <3>1, <4>3 DEF Precedes
            <4> QED BY <4>2, <4>4 DEF Old
        <3>4. Precedes(handled'[v], pending'[v])
            <4>1. Old(handled[v]) /\ Precedes(handled[v], pending[v])
                BY DEF ArrivalOrder
            <4>2. \A i \in 1..Len(handled[v]) : handled[v][i].id < msg.id
                BY <1>7, <2>2, <4>1
            <4>3. Precedes(handled[v], pending'[v])
                BY <2>2, <3>1, <4>1, <4>2 DEF Precedes
            <4> QED BY <1>1, <4>3
        <3> QED BY <2>3, <3>2, <3>3, <3>4
    <2> QED BY <2>4, <2>5
<1>9. ASSUME NEW t \in threads'
      PROVE  /\ Sorted(t.batch) /\ Old(t.batch)'
             /\ Precedes(handled'[t.uid], t.batch)
             /\ Precedes(t.batch, pending'[t.uid])
    <2>1. t \in threads /\ t.batch \in Seq(Message) /\ t.uid \in Users
        BY <1>1 DEF TypeOK, ThreadType, Thread
    <2>2. Len(t.batch) \in Nat /\ pending[t.uid] \in Seq(Message)
        BY <2>1, LenProperties DEF TypeOK, QueueType
    <2>3. Sorted(t.batch) /\ Old(t.batch)' /\ Precedes(handled'[t.uid], t.batch)
        BY <1>1, <1>3, <2>1, <2>2 DEF ArrivalOrder
    <2>4. CASE t.uid # u
        <3>1. pending'[t.uid] = pending[t.uid]
            BY <1>1, <2>1, <2>4 DEF TypeOK, QueueType
        <3> QED BY <2>1, <2>3, <3>1 DEF ArrivalOrder
    <2>5. CASE t.uid = u
        <3>1. /\ Len(pending[u]) \in Nat
              /\ Len(pending'[u]) = Len(pending[u]) + 1
              /\ pending'[u][Len(pending[u]) + 1] = msg
              /\ \A i \in 1..Len(pending[u]) : pending'[u][i] = pending[u][i]
            BY <1>1, <1>2, <2>2, <2>5 DEF TypeOK, QueueType
        <3>2. Old(t.batch) /\ Precedes(t.batch, pending[u])
            BY <2>1, <2>5 DEF ArrivalOrder
        <3>3. \A i \in 1..Len(t.batch) : t.batch[i].id < msg.id
            BY <1>7, <2>2, <3>2
        <3>4. ASSUME NEW i \in 1..Len(t.batch), NEW j \in 1..Len(pending'[u])
              PROVE  t.batch[i].id < pending'[u][j].id
            <4>1. CASE j <= Len(pending[u])
                BY <3>1, <3>2, <4>1 DEF Precedes
            <4>2. CASE j = Len(pending[u]) + 1
                BY <3>1, <3>3, <4>2
            <4> QED BY <3>1, <4>1, <4>2
        <3>5. Precedes(t.batch, pending'[u])
            BY <3>4 DEF Precedes
        <3> QED BY <2>3, <2>5, <3>5
    <2> QED BY <2>4, <2>5
<1> QED BY <1>1, <1>5, <1>8, <1>9 DEF ArrivalOrder

\* A taken batch becomes the running thread's, or leaves the line.
LEMMA OrderDrain ==
    ASSUME TypeOK, ArrivalOrder, ThreadInv, NEW u \in Users,
           SkipDuplicate(u) \/ StartThread(u)
    PROVE  ArrivalOrder'
<1>1. /\ pc = "drain" /\ pc' = "drain"
      /\ pending' = [pending EXCEPT ![u] = <<>>]
      /\ UNCHANGED <<log, buf, epoch, handled>>
    BY DEF SkipDuplicate, StartThread, TakeBatch
<1>2. PICK new : /\ new.uid = u /\ new.batch = pending[u]
                 /\ threads' = threads \/ threads' = threads \cup {new}
    <2> DEFINE n == [uid |-> u, batch |-> pending[u], sess |-> epoch, at |-> "handle"]
    <2>1. threads' = threads \/ threads' = threads \cup {n}
        BY DEF SkipDuplicate, StartThread
    <2>2. n.uid = u /\ n.batch = pending[u]
        OBVIOUS
    <2> HIDE DEF n
    <2> QED BY <2>1, <2>2
<1>3. \A s : Old(s) => Old(s)'
    BY <1>1 DEF Old
<1>4. \A v \in Users : pending'[v] = IF v = u THEN <<>> ELSE pending[v]
    BY <1>1 DEF TypeOK, QueueType
<1>5. \A v \in Users : /\ Sorted(handled'[v]) /\ Old(handled[v])'
                       /\ Sorted(pending'[v]) /\ Old(pending[v])'
                       /\ Precedes(handled'[v], pending'[v])
    <2>1. Old(<<>>)'
        BY EmptyOrder, <1>3
    <2> QED BY <1>1, <1>3, <1>4, <2>1, EmptyOrder DEF ArrivalOrder, Old
<1>6. \A t \in threads : /\ Sorted(t.batch) /\ Old(t.batch)'
                         /\ Precedes(handled'[t.uid], t.batch)
                         /\ Precedes(t.batch, pending'[t.uid])
    <2>1. \A t \in threads : t.uid \in Users
        BY DEF TypeOK, ThreadType, Thread
    <2> QED BY <1>1, <1>3, <1>4, <2>1, EmptyOrder DEF ArrivalOrder
<1>7. /\ Sorted(new.batch) /\ Old(new.batch)'
      /\ Precedes(handled'[new.uid], new.batch)
      /\ Precedes(new.batch, pending'[new.uid])
    BY <1>1, <1>2, <1>3, <1>4, EmptyOrder DEF ArrivalOrder
<1>8. ASSUME NEW t \in threads'
      PROVE  /\ Sorted(t.batch) /\ Old(t.batch)'
             /\ Precedes(handled'[t.uid], t.batch)
             /\ Precedes(t.batch, pending'[t.uid])
    <2>1. CASE t \in threads
        BY <1>6, <2>1
    <2>2. CASE t = new
        BY <1>7, <2>2
    <2> QED BY <1>2, <2>1, <2>2
<1> QED BY <1>1, <1>5, <1>8 DEF ArrivalOrder

\* A thread that moves on carries the same batch.
LEMMA OrderMove ==
    ASSUME TypeOK, ArrivalOrder, NEW t \in threads, NEW to, Move(t, to),
           UNCHANGED <<log, buf, epoch, handled, pending, pc, inbox>>
    PROVE  ArrivalOrder'
<1>1. PICK moved : /\ moved.uid = t.uid /\ moved.batch = t.batch
                   /\ threads' = (threads \ {t}) \cup {moved}
    <2> DEFINE m == [t EXCEPT !.at = to]
    <2>1. m.uid = t.uid /\ m.batch = t.batch
        BY DEF TypeOK, ThreadType, Thread
    <2>2. threads' = (threads \ {t}) \cup {m}
        BY DEF Move
    <2> HIDE DEF m
    <2> QED BY <2>1, <2>2
<1>2. \A s : Old(s) => Old(s)'
    BY DEF Old
<1>3. ASSUME NEW x \in threads'
      PROVE  /\ Sorted(x.batch) /\ Old(x.batch)'
             /\ Precedes(handled'[x.uid], x.batch)
             /\ Precedes(x.batch, pending'[x.uid])
    BY <1>1, <1>2 DEF ArrivalOrder
<1>4. \A u \in Users : Old(handled[u])' /\ Old(pending[u])'
    BY DEF ArrivalOrder, Old
<1> QED BY <1>2, <1>3, <1>4 DEF ArrivalOrder

\* The finished batch is next in line after what the user had handled before;
\* no other thread of the user is left.
LEMMA OrderFinish ==
    ASSUME TypeOK, ArrivalOrder, ThreadInv, NEW t \in threads, Finish(t)
    PROVE  ArrivalOrder'
<1>1. /\ t.uid \in Users /\ t.batch \in Seq(Message)
      /\ handled \in [Users -> Seq(Message)] /\ pending \in [Users -> Seq(Message)]
      /\ inbox \in Seq(Message)
    BY DEF TypeOK, ThreadType, Thread, HistoryType, QueueType
<1>2. /\ threads' = threads \ {t}
      /\ handled' = [handled EXCEPT ![t.uid] = handled[t.uid] \o t.batch]
      /\ UNCHANGED <<log, buf, epoch, pending, pc, inbox>>
    BY DEF Finish
<1>3. \A s : Old(s) => Old(s)'
    BY <1>2 DEF Old
<1>4. \A x \in threads' : x.uid # t.uid
    BY <1>2 DEF ThreadInv, OneThreadPerUser
<1>5. \A x \in threads' : /\ Sorted(x.batch) /\ Old(x.batch)'
                          /\ Precedes(handled'[x.uid], x.batch)
                          /\ Precedes(x.batch, pending'[x.uid])
    <2>1. \A x \in threads : x.uid \in Users
        BY DEF TypeOK, ThreadType, Thread
    <2> QED BY <1>1, <1>2, <1>3, <1>4, <2>1 DEF ArrivalOrder
<1>6. ASSUME NEW u \in Users
      PROVE  /\ Sorted(handled'[u]) /\ Old(handled[u])'
             /\ Sorted(pending'[u]) /\ Old(pending[u])'
             /\ Precedes(handled'[u], pending'[u])
    <2>1. Sorted(pending'[u]) /\ Old(pending[u])'
        BY <1>2 DEF ArrivalOrder, Old
    <2>2. CASE u # t.uid
        <3>1. handled'[u] = handled[u]
            BY <1>1, <1>2, <2>2
        <3> QED BY <1>2, <1>3, <2>1, <3>1 DEF ArrivalOrder
    <2>3. CASE u = t.uid
        <3>1. handled'[u] = handled[u] \o t.batch
            BY <1>1, <1>2, <2>3
        <3>2. /\ Sorted(handled[u]) /\ Sorted(t.batch) /\ Precedes(handled[u], t.batch)
              /\ Old(handled[u]) /\ Old(t.batch)
              /\ Precedes(handled[u], pending[u]) /\ Precedes(t.batch, pending[u])
            BY <2>3 DEF ArrivalOrder
        <3>3. Sorted(handled[u] \o t.batch)
            BY <1>1, <3>2, SortedConcat
        <3>4. Old(handled[u] \o t.batch)
            BY <1>1, <3>2, OldConcat
        <3>5. Precedes(handled[u] \o t.batch, pending[u])
            BY <1>1, <3>2, PrecedesConcat
        <3>6. Old(handled[u])'
            BY <1>2, <3>1, <3>4 DEF Old
        <3> QED BY <1>2, <2>1, <3>1, <3>3, <3>5, <3>6
    <2> QED BY <2>2, <2>3
<1> QED BY <1>2, <1>5, <1>6 DEF ArrivalOrder

\* A new session starts from the empty cursor and with empty queues.
LEMMA OrderRelogin ==
    ASSUME TypeOK, ArrivalOrder, Relogin, ~Exit
    PROVE  ArrivalOrder'
<1>1. /\ epoch' = epoch + 1 /\ epoch + 1 \in Sessions /\ pc' = "top"
      /\ pending' = [u \in Users |-> <<>>]
      /\ UNCHANGED <<log, buf, threads, handled>>
    BY LoopAssumption DEF LoopAssumption, Relogin, TypeOK, SessionType, Sessions
<1>2. epoch \in Nat /\ Sessions \subseteq Nat
    BY DEF TypeOK, SessionType, Sessions
<1>3. \A s : Old(s) => Old(s)'
    BY <1>1 DEF Old
<1>4. \A u \in Users : pending'[u] = <<>>
    BY <1>1
<1>5. buf'[epoch'] \in {0, Len(log')} /\ \A e \in Sessions : e > epoch' => buf'[e] = 0
    BY <1>1, <1>2 DEF ArrivalOrder
<1>6. \A u \in Users : /\ Sorted(handled'[u]) /\ Old(handled[u])'
                       /\ Sorted(pending'[u]) /\ Old(pending[u])'
                       /\ Precedes(handled'[u], pending'[u])
    BY <1>1, <1>3, <1>4, EmptyOrder DEF ArrivalOrder, Old
<1>7. \A t \in threads' : /\ Sorted(t.batch) /\ Old(t.batch)'
                          /\ Precedes(handled'[t.uid], t.batch)
                          /\ Precedes(t.batch, pending'[t.uid])
    <2>1. \A t \in threads : t.uid \in Users
        BY DEF TypeOK, ThreadType, Thread
    <2> QED BY <1>1, <1>3, <1>4, <2>1, EmptyOrder DEF ArrivalOrder
<1> QED BY <1>1, <1>5, <1>6, <1>7 DEF ArrivalOrder

\* A user's messages are in the order of their arrival wherever they are: handled, in
\* a thread, pending, or just received (collect, merge, requeue, re-login).
THEOREM ArrivalOrderCorrect == Spec => []ArrivalOrder
<1>1. Init => ArrivalOrder
    <2> SUFFICES ASSUME Init PROVE ArrivalOrder
        OBVIOUS
    <2>1. Len(log) = 0 /\ buf[epoch] = 0 /\ (\A e \in Sessions : buf[e] = 0)
        BY LoopAssumption, EmptySeq DEF Init, Sessions, LoopAssumption
    <2> QED BY <2>1, EmptyOrder DEF Init, ArrivalOrder
<1>2. TypeOK /\ ThreadInv /\ ArrivalOrder /\ [Next]_vars => ArrivalOrder'
    <2> SUFFICES ASSUME TypeOK, ThreadInv, ArrivalOrder, [Next]_vars PROVE ArrivalOrder'
        OBVIOUS
    <2>1. CASE Exit
        BY <2>1, OrderFrame DEF Exit
    <2>2. CASE LoopTop /\ ~Exit
        BY <2>2, OrderFrame DEF LoopTop
    <2>3. CASE PollError \/ Cleanup \/ Environment
        BY <2>3, OrderFrame
           DEF PollError, Cleanup, Environment, DebounceOver, TokenExpires, Signal, ShutdownFile
    <2>4. CASE PollAnswer
        BY <2>4, OrderPollAnswer
    <2>5. CASE Relogin /\ ~Exit
        BY <2>5, OrderRelogin
    <2>6. CASE Collect
        BY <2>6, OrderCollect
    <2>7. CASE ComputeReady
        BY <2>7, OrderFrame DEF ComputeReady
    <2>8. CASE \E u \in Users : SkipDuplicate(u) \/ StartThread(u)
        BY <2>8, OrderDrain
    <2>9. CASE \E u \in Users : RequeueBusy(u)
        BY <2>9, OrderFrame DEF RequeueBusy, TakeBatch
    <2>10. CASE \E t \in threads : DispatchThread(t)
        BY <2>10, OrderMove, OrderFinish
           DEF DispatchThread, Handle, SaveOpen, SaveWrite
    <2>11. CASE UNCHANGED vars
        BY <2>11, OrderFrame DEF vars
    <2> QED BY <2>1, <2>2, <2>3, <2>4, <2>5, <2>6, <2>7, <2>8, <2>9, <2>10, <2>11 DEF Next, Main
<1> QED BY <1>1, <1>2, TypeCorrect, ThreadInvCorrect, PTL DEF Spec

\* The messages of a user are handled in the order they arrived, none twice.
THEOREM HandledInOrderCorrect == Spec => []HandledInOrder
<1>1. ArrivalOrder => HandledInOrder
    BY DEF ArrivalOrder, HandledInOrder
<1> QED BY <1>1, ArrivalOrderCorrect, PTL
-----------------------------------------------------------------------------
(* No message is lost.                                                     *)

Places == {"inbox", "queued", "running", "handled", "skipped", "cleared"}

\* Messages are with their own user; an answer is collected to the end.
Owned ==
    /\ \A u \in Users : \A m \in Range(pending[u]) : m.user = u
    /\ \A t \in threads : \A m \in Range(t.batch) : m.user = t.uid
    /\ pc \in {"top", "poll", "drain"} => inbox = <<>>

\* Every place holds received messages, no message is in two of them, and while
\* the loop runs each is in one.
Placed ==
    /\ \A p \in Places : Held[p] \subseteq Range(log)
    /\ \A p \in Places, q \in Places : p # q => Held[p] \cap Held[q] = {}
    /\ pc # "exited" /\ running => \A m \in Range(log) : \E p \in Places : m \in Held[p]

\* What the places hold.
LEMMA HeldAt ==
    /\ DOMAIN Held = Places /\ Held["inbox"] = Range(inbox) /\ Held["cleared"] = cleared
    /\ \A m : m \in Held["queued"] <=> \E u \in Users : m \in Range(pending[u])
    /\ \A m : m \in Held["running"] <=> \E t \in threads : m \in Range(t.batch)
    /\ \A m : m \in Held["handled"] <=> \E u \in Users : m \in Range(handled[u])
    /\ \A m : m \in Held["skipped"] <=> \E u \in Users : \E b \in skipped[u] : m \in Range(b)
BY DEF Held, Places

\* Being in one place each is what Accounted counts.
LEMMA PlacedAccounted == Placed => Accounted
<1> SUFFICES ASSUME Placed, pc # "exited", running, NEW m \in Range(log)
             PROVE  Cardinality({p \in DOMAIN Held : m \in Held[p]}) = 1
    BY DEF Accounted
<1>1. PICK p \in Places : m \in Held[p]
    BY DEF Placed
<1>2. {q \in DOMAIN Held : m \in Held[q]} = {p}
    BY <1>1, HeldAt DEF Placed
<1> QED BY <1>2, FS_Singleton

\* Messages that move from one place to another stay in one.
LEMMA PlacedMove ==
    ASSUME Placed, NEW p \in Places, NEW q \in Places, p # q, NEW X, X \subseteq Held[p],
           Held'[p] = Held[p] \ X, Held'[q] = Held[q] \cup X,
           \A r \in Places \ {p, q} : Held'[r] = Held[r],
           log' = log, running' = running, pc' # "exited" => pc # "exited"
    PROVE  Placed'
<1>1. \A r \in Places : Held'[r] \subseteq Range(log')
    BY DEF Placed
<1>2. ASSUME NEW r \in Places, NEW s \in Places, r # s PROVE Held'[r] \cap Held'[s] = {}
    <2>1. \A a \in Places : a # p => X \cap Held[a] = {}
        BY DEF Placed
    <2>2. Held[r] \cap Held[s] = {}
        BY <1>2 DEF Placed
    <2>3. \A a \in Places : Held'[a] \subseteq Held[a] \cup X /\ (a # q => Held'[a] \subseteq Held[a])
        OBVIOUS
    <2>4. CASE r # q /\ s # q
        BY <2>2, <2>3, <2>4
    <2>5. CASE r = q /\ s = p
        BY <2>2, <2>5
    <2>6. CASE r = q /\ s # p
        BY <1>2, <2>1, <2>2, <2>6
    <2>7. CASE s = q /\ r = p
        BY <2>2, <2>7
    <2>8. CASE s = q /\ r # p
        BY <1>2, <2>1, <2>2, <2>8
    <2> QED BY <1>2, <2>4, <2>5, <2>6, <2>7, <2>8
<1>3. ASSUME pc' # "exited", running', NEW m \in Range(log')
      PROVE  \E r \in Places : m \in Held'[r]
    <2>1. PICK r \in Places : m \in Held[r]
        BY <1>3 DEF Placed
    <2>2. m \in Held'[r] \/ m \in Held'[q]
        BY <2>1
    <2> QED BY <2>1, <2>2
<1> QED BY <1>1, <1>2, <1>3 DEF Placed

\* The elements of a sequence of messages.
LEMMA InRange ==
    ASSUME NEW S, NEW s \in Seq(S)
    PROVE  \A m : m \in Range(s) <=> \E i \in 1..Len(s) : m = s[i]
BY LenProperties DEF Range

\* Steps that leave the messages where they are.
LEMMA PlacedFrame ==
    ASSUME Placed, Owned, UNCHANGED <<log, inbox, pending, threads, handled, skipped, cleared>>,
           running' => running, pc' # "exited" => pc # "exited",
           pc' \in {"top", "poll", "drain"} => pc \in {"top", "poll", "drain"} \/ inbox = <<>>
    PROVE  Placed' /\ Owned'
<1>1. Held' = Held
    BY DEF Held
<1> QED BY <1>1 DEF Placed, Owned

\* The end of the process takes the threads with their messages.
LEMMA PlacedExit ==
    ASSUME Placed, Owned, Exit
    PROVE  Placed' /\ Owned'
<1>1. /\ pc' = "exited" /\ threads' = {}
      /\ UNCHANGED <<log, inbox, pending, handled, skipped, cleared>>
    BY DEF Exit
<1>2. \A p \in Places : Held'[p] \subseteq Held[p]
    BY <1>1 DEF Held, Places
<1> QED BY <1>1, <1>2 DEF Placed, Owned

\* Another thread of the same batch does not change what is where.
LEMMA PlacedThread ==
    ASSUME TypeOK, Placed, Owned, NEW t \in threads, NEW to, Move(t, to),
           UNCHANGED <<log, inbox, pending, handled, skipped, cleared, pc, running>>
    PROVE  Placed' /\ Owned'
<1>1. PICK moved : /\ moved.uid = t.uid /\ moved.batch = t.batch
                   /\ threads' = (threads \ {t}) \cup {moved}
    <2> DEFINE m == [t EXCEPT !.at = to]
    <2>1. m.uid = t.uid /\ m.batch = t.batch
        BY DEF TypeOK, ThreadType, Thread
    <2>2. threads' = (threads \ {t}) \cup {m}
        BY DEF Move
    <2> HIDE DEF m
    <2> QED BY <2>1, <2>2
<1>2. UNION {Range(x.batch) : x \in threads'} = UNION {Range(x.batch) : x \in threads}
    BY <1>1
<1>3. Held' = Held
    BY <1>2 DEF Held
<1>4. Owned'
    BY <1>1 DEF Owned
<1> QED BY <1>3, <1>4 DEF Placed

\* What an answer brings is new, and the inbox was empty.
LEMMA PlacedAnswer ==
    ASSUME TypeOK, TypeOK', ArrivalOrder, Placed, Owned, PollAnswer
    PROVE  Placed' /\ Owned'
<1>1. PICK n \in Nat :
          /\ Len(log) \in Nat /\ Len(log') = Len(log) + n /\ Len(inbox') = n
          /\ \A i \in 1..Len(log) : log'[i] = log[i]
          /\ \A i \in 1..n : inbox'[i] = log'[Len(log) + i]
          /\ \A i \in 1..Len(log) + n : log'[i].id = i
    BY Received
<1>2. /\ log \in Seq(Message) /\ log' \in Seq(Message) /\ inbox' \in Seq(Message)
      /\ inbox \in Seq(Message)
    BY DEF TypeOK, SessionType, QueueType
<1>3. \A m : m \in Range(log') <=> m \in Range(log) \/ m \in Range(inbox')
    <2>1. ASSUME NEW m \in Range(log') PROVE m \in Range(log) \/ m \in Range(inbox')
        <3>1. PICK i \in 1..Len(log') : m = log'[i]
            BY <1>2, InRange
        <3>2. CASE i <= Len(log)
            <4>1. i \in 1..Len(log) /\ m = log[i]
                BY <1>1, <3>1, <3>2
            <4> QED BY <1>2, <4>1, InRange
        <3>3. CASE i > Len(log)
            <4>1. i - Len(log) \in 1..n /\ Len(log) + (i - Len(log)) = i
                BY <1>1, <3>3
            <4>2. m = inbox'[i - Len(log)] /\ i - Len(log) \in 1..Len(inbox')
                BY <1>1, <3>1, <4>1
            <4> QED BY <1>2, <4>2, InRange
        <3> QED BY <1>1, <3>2, <3>3
    <2>2. ASSUME NEW m \in Range(log) PROVE m \in Range(log')
        <3>1. PICK i \in 1..Len(log) : m = log[i]
            BY <1>2, InRange
        <3>2. i \in 1..Len(log') /\ m = log'[i]
            BY <1>1, <3>1
        <3> QED BY <1>2, <3>2, InRange
    <2>3. ASSUME NEW m \in Range(inbox') PROVE m \in Range(log')
        <3>1. PICK i \in 1..Len(inbox') : m = inbox'[i]
            BY <1>2, InRange
        <3>2. Len(log) + i \in 1..Len(log') /\ m = log'[Len(log) + i]
            BY <1>1, <3>1
        <3> QED BY <1>2, <3>2, InRange
    <2> QED BY <2>1, <2>2, <2>3
<1>4. Range(log) \cap Range(inbox') = {}
    <2> SUFFICES ASSUME NEW m, m \in Range(log), m \in Range(inbox') PROVE FALSE
        OBVIOUS
    <2>1. PICK i \in 1..Len(log) : m = log[i]
        BY <1>2, InRange
    <2>2. PICK j \in 1..Len(inbox') : m = inbox'[j]
        BY <1>2, InRange
    <2>3. i \in 1..Len(log) + n /\ m = log'[i]
        BY <1>1, <2>1
    <2>4. Len(log) + j \in 1..Len(log) + n /\ m = log'[Len(log) + j]
        BY <1>1, <2>2
    <2>5. m.id = i /\ m.id = Len(log) + j
        BY <1>1, <2>3, <2>4
    <2> QED BY <1>1, <2>1, <2>2, <2>5
<1>5. /\ pc = "poll" /\ pc' = "collect" /\ inbox = <<>>
      /\ UNCHANGED <<pending, threads, handled, skipped, cleared, running>>
    BY DEF PollAnswer, Owned
<1>6. Held'["inbox"] = Range(inbox') /\ \A p \in Places \ {"inbox"} : Held'[p] = Held[p]
    <2>1. Held'["inbox"] = Range(inbox')
        BY DEF Held
    <2>2. Held'["queued"] = Held["queued"] /\ Held'["running"] = Held["running"]
        BY <1>5 DEF Held
    <2>3. Held'["handled"] = Held["handled"] /\ Held'["skipped"] = Held["skipped"]
        BY <1>5 DEF Held
    <2>4. Held'["cleared"] = Held["cleared"]
        BY <1>5 DEF Held
    <2> QED BY <2>1, <2>2, <2>3, <2>4 DEF Places
<1>7. \A p \in Places : Held'[p] \subseteq Range(log')
    BY <1>3, <1>6 DEF Placed
<1>8. \A p \in Places \ {"inbox"} : Held'[p] \cap Held'["inbox"] = {}
    BY <1>4, <1>6 DEF Placed
<1>9. \A p \in Places, q \in Places : p # q => Held'[p] \cap Held'[q] = {}
    <2> SUFFICES ASSUME NEW p \in Places, NEW q \in Places, p # q
                 PROVE  Held'[p] \cap Held'[q] = {}
        OBVIOUS
    <2>1. CASE p = "inbox" \/ q = "inbox"
        BY <1>8, <2>1
    <2>2. CASE p # "inbox" /\ q # "inbox"
        BY <1>6, <2>2 DEF Placed
    <2> QED BY <2>1, <2>2
<1>10. ASSUME running', NEW m \in Range(log') PROVE \E p \in Places : m \in Held'[p]
    <2>1. CASE m \in Range(inbox')
        BY <1>6, <2>1 DEF Places
    <2>2. CASE m \in Range(log)
        <3>1. PICK p \in Places : m \in Held[p]
            BY <1>5, <1>10, <2>2 DEF Placed
        <3>2. p # "inbox"
            <4>1. Range(inbox) = {}
                BY <1>5 DEF Range
            <4> QED BY <3>1, <4>1, HeldAt
        <3> QED BY <1>6, <3>1, <3>2
    <2> QED BY <1>3, <1>10, <2>1, <2>2
<1> QED BY <1>5, <1>7, <1>9, <1>10 DEF Placed, Owned

\* A message that is collected leaves the inbox for its sender's queue.
LEMMA PlacedCollect ==
    ASSUME TypeOK, ArrivalOrder, Placed, Owned, Collect
    PROVE  Placed' /\ Owned'
<1> DEFINE msg == Head(inbox)
           u   == msg.user
<1>1. /\ inbox \in Seq(Message) /\ inbox # <<>> /\ pc = "collect" /\ pc' = pc
      /\ inbox' = Tail(inbox) /\ pending' = [pending EXCEPT ![u] = Append(pending[u], msg)]
      /\ UNCHANGED <<log, threads, handled, skipped, cleared, running>>
    BY DEF Collect, TypeOK, QueueType
<1>2. /\ msg = inbox[1] /\ msg \in Message /\ u \in Users /\ inbox' \in Seq(Message)
      /\ Len(inbox) \in Nat /\ Len(inbox) >= 1 /\ Len(inbox') = Len(inbox) - 1
      /\ \A i \in 1..Len(inbox') : inbox'[i] = inbox[i + 1]
    <2>1. /\ Head(inbox) \in Message /\ Tail(inbox) \in Seq(Message)
          /\ Len(Tail(inbox)) = Len(inbox) - 1
          /\ \A i \in 1..Len(Tail(inbox)) : Tail(inbox)[i] = inbox[i + 1]
        BY <1>1, HeadTailProperties
    <2>2. Len(inbox) \in Nat /\ Len(inbox) >= 1 /\ Head(inbox) = inbox[1]
        BY <1>1, EmptySeq
    <2> QED BY <1>1, <2>1, <2>2 DEF Message
<1> HIDE DEF msg
<1>3. Range(inbox') = Range(inbox) \ {msg} /\ msg \in Range(inbox)
    <2>1. \A i \in 2..Len(inbox) : inbox[i] # msg
        <3>1. Sorted(inbox) /\ inbox \in [1..Len(inbox) -> Message]
            BY <1>1, LenProperties DEF ArrivalOrder
        <3>2. \A i \in 2..Len(inbox) : inbox[1].id < inbox[i].id /\ inbox[1].id \in Nat
            BY <1>2, <3>1 DEF Sorted, Message
        <3> QED BY <1>2, <3>2
    <2>2. ASSUME NEW m PROVE m \in Range(inbox') <=> m \in Range(inbox) /\ m # msg
        <3>1. m \in Range(inbox') <=> \E i \in 1..Len(inbox') : m = inbox'[i]
            BY <1>2, InRange
        <3>2. m \in Range(inbox) <=> \E i \in 1..Len(inbox) : m = inbox[i]
            BY <1>1, InRange
        <3>3. (\E i \in 1..Len(inbox') : m = inbox'[i]) => \E i \in 2..Len(inbox) : m = inbox[i]
            <4> SUFFICES ASSUME NEW i \in 1..Len(inbox'), m = inbox'[i]
                         PROVE  \E k \in 2..Len(inbox) : m = inbox[k]
                OBVIOUS
            <4>1. i + 1 \in 2..Len(inbox) /\ m = inbox[i + 1]
                BY <1>2
            <4> QED BY <4>1
        <3>4. (\E i \in 2..Len(inbox) : m = inbox[i]) => \E i \in 1..Len(inbox') : m = inbox'[i]
            <4> SUFFICES ASSUME NEW i \in 2..Len(inbox), m = inbox[i]
                         PROVE  \E k \in 1..Len(inbox') : m = inbox'[k]
                OBVIOUS
            <4>1. i - 1 \in 1..Len(inbox') /\ (i - 1) + 1 = i
                BY <1>2
            <4>2. m = inbox'[i - 1]
                BY <1>2, <4>1
            <4> QED BY <4>1, <4>2
        <3>5. (\E i \in 1..Len(inbox) : m = inbox[i]) <=>
                  m = msg \/ \E i \in 2..Len(inbox) : m = inbox[i]
            BY <1>2
        <3> QED BY <2>1, <3>1, <3>2, <3>3, <3>4, <3>5
    <2>3. msg \in Range(inbox)
        BY <1>1, <1>2, InRange
    <2> QED BY <2>2, <2>3
<1>4. /\ \A v \in Users \ {u} : pending'[v] = pending[v]
      /\ Range(pending'[u]) = Range(pending[u]) \cup {msg}
    <2>1. pending[u] \in Seq(Message) /\ pending'[u] = Append(pending[u], msg)
          /\ \A v \in Users \ {u} : pending'[v] = pending[v]
        BY <1>1, <1>2 DEF TypeOK, QueueType
    <2>2. /\ Append(pending[u], msg) \in Seq(Message) /\ Len(pending[u]) \in Nat
          /\ Len(Append(pending[u], msg)) = Len(pending[u]) + 1
          /\ Append(pending[u], msg)[Len(pending[u]) + 1] = msg
          /\ \A i \in 1..Len(pending[u]) : Append(pending[u], msg)[i] = pending[u][i]
        BY <1>2, <2>1, AppendProperties
    <2>3. ASSUME NEW m PROVE m \in Range(pending'[u]) <=> m \in Range(pending[u]) \/ m = msg
        <3>0. pending'[u] \in Seq(Message)
            BY <2>1, <2>2
        <3>1. m \in Range(pending'[u]) <=> \E i \in 1..Len(pending'[u]) : m = pending'[u][i]
            BY <3>0, InRange
        <3>2. m \in Range(pending[u]) <=> \E i \in 1..Len(pending[u]) : m = pending[u][i]
            BY <2>1, InRange
        <3> QED BY <2>1, <2>2, <3>1, <3>2
    <2> QED BY <2>1, <2>3
<1>5. Held'["inbox"] = Held["inbox"] \ {msg} /\ {msg} \subseteq Held["inbox"]
    BY <1>3, HeldAt DEF Held
<1>6. Held'["queued"] = Held["queued"] \cup {msg}
    <2>1. \A m : m \in Held'["queued"] <=> \E v \in Users : m \in Range(pending'[v])
        BY DEF Held
    <2>2. \A v \in Users : \A m : m \in Range(pending'[v]) <=>
              m \in Range(pending[v]) \/ (v = u /\ m = msg)
        BY <1>4
    <2> QED BY <1>2, <2>1, <2>2, HeldAt
<1>7. \A r \in Places \ {"inbox", "queued"} : Held'[r] = Held[r]
    <2>1. Held'["running"] = Held["running"] /\ Held'["cleared"] = Held["cleared"]
        BY <1>1 DEF Held
    <2>2. Held'["handled"] = Held["handled"] /\ Held'["skipped"] = Held["skipped"]
        BY <1>1 DEF Held
    <2> QED BY <2>1, <2>2 DEF Places
<1>8. Placed'
    BY <1>1, <1>5, <1>6, <1>7, PlacedMove DEF Places
<1>9. Owned'
    BY <1>1, <1>4 DEF Owned
<1> QED BY <1>8, <1>9

\* A batch that is taken leaves its user's queue, for a thread or as a duplicate.
LEMMA PlacedDrain ==
    ASSUME TypeOK, Placed, Owned, NEW u \in Users, SkipDuplicate(u) \/ StartThread(u)
    PROVE  Placed' /\ Owned'
<1> DEFINE X == Range(pending[u])
<1>1. /\ pc = "drain" /\ pc' = pc /\ pending' = [pending EXCEPT ![u] = <<>>]
      /\ UNCHANGED <<log, inbox, running, handled, cleared>>
    BY DEF SkipDuplicate, StartThread, TakeBatch
<1>2. /\ \A v \in Users \ {u} : pending'[v] = pending[v]
      /\ Range(pending'[u]) = {}
    BY <1>1 DEF TypeOK, QueueType, Range
<1>3. X \subseteq Held["queued"]
    BY HeldAt
<1>4. Held'["queued"] = Held["queued"] \ X
    <2>1. \A m : m \in Held'["queued"] <=> \E v \in Users : m \in Range(pending'[v])
        BY DEF Held
    <2>2. \A v \in Users \ {u} : Range(pending[v]) \cap X = {}
        BY DEF Owned
    <2> HIDE DEF X
    <2>3. ASSUME NEW m \in Held["queued"], m \notin X PROVE m \in Held'["queued"]
        <3>1. PICK v \in Users : m \in Range(pending[v])
            BY <2>3, HeldAt
        <3>2. v # u
            BY <2>3, <3>1 DEF X
        <3> QED BY <1>2, <2>1, <3>1, <3>2
    <2>4. ASSUME NEW m \in Held'["queued"] PROVE m \in Held["queued"] /\ m \notin X
        <3>1. PICK v \in Users : m \in Range(pending'[v])
            BY <2>1, <2>4
        <3> QED BY <1>2, <2>2, <3>1, HeldAt
    <2> QED BY <2>3, <2>4
<1>5. Held'["inbox"] = Held["inbox"] /\ Held'["handled"] = Held["handled"]
      /\ Held'["cleared"] = Held["cleared"]
    BY <1>1 DEF Held
<1>6. \A v \in Users : \A m \in Range(pending'[v]) : m.user = v
    BY <1>2 DEF Owned
<1>7. CASE SkipDuplicate(u)
    <2>1. UNCHANGED threads /\ skipped' = [skipped EXCEPT ![u] = skipped[u] \cup {pending[u]}]
        BY <1>7 DEF SkipDuplicate
    <2>2. Held'["running"] = Held["running"]
        BY <2>1 DEF Held
    <2>3. Held'["skipped"] = Held["skipped"] \cup X
        <3>1. \A m : m \in Held'["skipped"] <=> \E v \in Users : \E b \in skipped'[v] : m \in Range(b)
            BY DEF Held
        <3>2. \A v \in Users : skipped'[v] = IF v = u THEN skipped[v] \cup {pending[u]} ELSE skipped[v]
            BY <2>1 DEF TypeOK, HistoryType
        <3>3. \A m : m \in Held'["skipped"] <=> m \in Held["skipped"] \/ m \in X
            BY <3>1, <3>2, HeldAt
        <3> QED BY <3>3
    <2> HIDE DEF X
    <2>4. \A r \in Places \ {"queued", "skipped"} : Held'[r] = Held[r]
        BY <1>5, <2>2 DEF Places
    <2>5. Placed'
        BY <1>1, <1>3, <1>4, <2>3, <2>4, PlacedMove DEF Places
    <2> QED BY <1>1, <1>6, <2>1, <2>5 DEF Owned
<1>8. CASE StartThread(u)
    <2>1. UNCHANGED skipped
        BY <1>8 DEF StartThread
    <2>2. PICK new : new.uid = u /\ new.batch = pending[u] /\ threads' = threads \cup {new}
        <3> DEFINE n == [uid |-> u, batch |-> pending[u], sess |-> epoch, at |-> "handle"]
        <3>1. threads' = threads \cup {n} /\ n.uid = u /\ n.batch = pending[u]
            BY <1>8 DEF StartThread
        <3> HIDE DEF n
        <3> QED BY <3>1
    <2>3. Held'["skipped"] = Held["skipped"]
        BY <2>1 DEF Held
    <2>4. Held'["running"] = Held["running"] \cup X
        <3>1. \A m : m \in Held'["running"] <=> \E t \in threads' : m \in Range(t.batch)
            BY DEF Held
        <3>2. \A m : m \in Held'["running"] <=> m \in Held["running"] \/ m \in X
            BY <2>2, <3>1, HeldAt
        <3> QED BY <3>2
    <2>5. Owned'
        BY <1>1, <1>6, <2>2 DEF Owned
    <2> HIDE DEF X
    <2>6. \A r \in Places \ {"queued", "running"} : Held'[r] = Held[r]
        BY <1>5, <2>3 DEF Places
    <2>7. Placed'
        BY <1>1, <1>3, <1>4, <2>4, <2>6, PlacedMove DEF Places
    <2> QED BY <2>5, <2>7
<1> QED BY <1>7, <1>8

\* A thread that ends leaves its messages handled; no other has its user's.
LEMMA PlacedFinish ==
    ASSUME TypeOK, ThreadInv, Placed, Owned, NEW t \in threads, Finish(t)
    PROVE  Placed' /\ Owned'
<1> DEFINE X == Range(t.batch)
<1>1. /\ threads' = threads \ {t} /\ handled' = [handled EXCEPT ![t.uid] = handled[t.uid] \o t.batch]
      /\ UNCHANGED <<log, pc, running, inbox, pending, skipped, cleared>>
    BY DEF Finish
<1>2. /\ t.uid \in Users /\ t.batch \in Seq(Message) /\ handled[t.uid] \in Seq(Message)
      /\ handled \in [Users -> Seq(Message)]
    BY DEF TypeOK, ThreadType, Thread, HistoryType
<1>3. X \subseteq Held["running"]
    BY HeldAt
<1>4. Held'["running"] = Held["running"] \ X
    <2>1. \A m : m \in Held'["running"] <=> \E s \in threads' : m \in Range(s.batch)
        BY DEF Held
    <2>2. \A s \in threads \ {t} : Range(s.batch) \cap X = {}
        BY DEF Owned, ThreadInv, OneThreadPerUser
    <2>3. \A m : m \in Held'["running"] <=> m \in Held["running"] /\ m \notin X
        BY <1>1, <2>1, <2>2, HeldAt
    <2> QED BY <2>3
<1>5. Held'["handled"] = Held["handled"] \cup X
    <2>1. \A m : m \in Held'["handled"] <=> \E u \in Users : m \in Range(handled'[u])
        BY DEF Held
    <2>2. Range(handled[t.uid] \o t.batch) = Range(handled[t.uid]) \cup X
        BY <1>2, RangeConcatenation
    <2>3. \A u \in Users : handled'[u] = IF u = t.uid THEN handled[t.uid] \o t.batch ELSE handled[u]
        BY <1>1, <1>2
    <2>4. \A m : m \in Held'["handled"] <=> m \in Held["handled"] \/ m \in X
        BY <1>2, <2>1, <2>2, <2>3, HeldAt
    <2> QED BY <2>4
<1>6. \A r \in Places \ {"running", "handled"} : Held'[r] = Held[r]
    <2>1. Held'["inbox"] = Held["inbox"] /\ Held'["queued"] = Held["queued"]
        BY <1>1 DEF Held
    <2>2. Held'["skipped"] = Held["skipped"] /\ Held'["cleared"] = Held["cleared"]
        BY <1>1 DEF Held
    <2> QED BY <2>1, <2>2 DEF Places
<1> HIDE DEF X
<1>7. Placed'
    BY <1>1, <1>3, <1>4, <1>5, <1>6, PlacedMove DEF Places
<1> QED BY <1>1, <1>7 DEF Owned

\* A re-login clears what was queued.
LEMMA PlacedRelogin ==
    ASSUME TypeOK, Placed, Owned, Relogin, ~Exit
    PROVE  Placed' /\ Owned'
<1> DEFINE X == UNION {Range(pending[u]) : u \in Users}
<1>1. /\ pending' = [u \in Users |-> <<>>] /\ cleared' = cleared \cup X
      /\ pc = "poll" /\ pc' = "top"
      /\ UNCHANGED <<log, running, inbox, threads, handled, skipped>>
    BY DEF Relogin
<1>2. X = Held["queued"]
    BY DEF Held
<1>3. Held'["queued"] = {}
    <2>1. \A u \in Users : Range(pending'[u]) = {}
        BY <1>1 DEF Range
    <2> QED BY <2>1 DEF Held
<1>4. Held'["cleared"] = Held["cleared"] \cup X
    BY <1>1 DEF Held
<1>5. \A r \in Places \ {"queued", "cleared"} : Held'[r] = Held[r]
    <2>1. Held'["inbox"] = Held["inbox"] /\ Held'["running"] = Held["running"]
        BY <1>1 DEF Held
    <2>2. Held'["skipped"] = Held["skipped"] /\ Held'["handled"] = Held["handled"]
        BY <1>1 DEF Held
    <2> QED BY <2>1, <2>2 DEF Places
<1>6. \A u \in Users : \A m \in Range(pending'[u]) : m.user = u
    BY <1>1 DEF Range
<1> HIDE DEF X
<1>7. Placed'
    <2>1. X \subseteq Held["queued"] /\ Held'["queued"] = Held["queued"] \ X
        BY <1>2, <1>3
    <2> QED BY <1>1, <1>4, <1>5, <2>1, PlacedMove DEF Places
<1> QED BY <1>1, <1>6, <1>7 DEF Owned

\* A loop that was told to stop drops the rest of the answer.
LEMMA PlacedReady ==
    ASSUME Placed, Owned, ComputeReady
    PROVE  Placed' /\ Owned'
<1>1. /\ pc = "collect" /\ pc' = "drain" /\ inbox' = <<>> /\ (inbox = <<>> \/ ~running)
      /\ UNCHANGED <<log, running, pending, threads, handled, skipped, cleared>>
    BY DEF ComputeReady
<1>2. CASE inbox = <<>>
    BY <1>1, <1>2, PlacedFrame
<1>3. CASE ~running
    <2>1. Held'["inbox"] = {}
        BY <1>1 DEF Held, Range
    <2>2. Held'["queued"] = Held["queued"] /\ Held'["running"] = Held["running"]
        BY <1>1 DEF Held
    <2>3. Held'["handled"] = Held["handled"] /\ Held'["skipped"] = Held["skipped"]
        BY <1>1 DEF Held
    <2>4. Held'["cleared"] = Held["cleared"]
        BY <1>1 DEF Held
    <2>5. \A p \in Places : Held'[p] \subseteq Held[p]
        BY <2>1, <2>2, <2>3, <2>4 DEF Places
    <2> QED BY <1>1, <1>3, <2>5 DEF Placed, Owned
<1> QED BY <1>1, <1>2, <1>3

\* No message is lost and none is in two places, as long as the loop runs: through
\* the inbox, the queues, the threads, requeues and re-logins.
THEOREM AccountedCorrect == Spec => []Accounted
<1>1. Init => Placed /\ Owned
    <2> SUFFICES ASSUME Init PROVE Placed /\ Owned
        OBVIOUS
    <2>1. Range(log) = {} /\ Range(inbox) = {} /\ threads = {} /\ cleared = {} /\ inbox = <<>>
        BY DEF Init, Range
    <2>2. \A u \in Users : Range(pending[u]) = {} /\ Range(handled[u]) = {} /\ skipped[u] = {}
        BY DEF Init, Range
    <2>3. \A p \in Places : Held[p] = {}
        BY <2>1, <2>2, HeldAt DEF Places
    <2> QED BY <2>1, <2>2, <2>3 DEF Placed, Owned
<1>2. /\ TypeOK /\ TypeOK' /\ ThreadInv /\ ArrivalOrder /\ Placed /\ Owned /\ [Next]_vars
      => Placed' /\ Owned'
    <2> SUFFICES ASSUME TypeOK, TypeOK', ThreadInv, ArrivalOrder, Placed, Owned, [Next]_vars
                 PROVE  Placed' /\ Owned'
        OBVIOUS
    <2>1. CASE Exit
        BY <2>1, PlacedExit
    <2>2. CASE LoopTop /\ ~Exit
        BY <2>2, PlacedFrame DEF LoopTop
    <2>3. CASE PollError \/ Cleanup \/ Environment
        BY <2>3, PlacedFrame
           DEF PollError, Cleanup, Environment, DebounceOver, TokenExpires, Signal, ShutdownFile
    <2>4. CASE PollAnswer
        BY <2>4, PlacedAnswer
    <2>5. CASE Relogin /\ ~Exit
        BY <2>5, PlacedRelogin
    <2>6. CASE Collect
        BY <2>6, PlacedCollect
    <2>7. CASE ComputeReady
        BY <2>7, PlacedReady
    <2>8. CASE \E u \in Users : SkipDuplicate(u) \/ StartThread(u)
        BY <2>8, PlacedDrain
    <2>9. CASE \E u \in Users : RequeueBusy(u)
        BY <2>9, PlacedFrame DEF RequeueBusy, TakeBatch
    <2>10. CASE \E t \in threads : DispatchThread(t)
        BY <2>10, PlacedThread, PlacedFinish DEF DispatchThread, Handle, SaveOpen, SaveWrite
    <2>11. CASE UNCHANGED vars
        BY <2>11, PlacedFrame DEF vars
    <2> QED BY <2>1, <2>2, <2>3, <2>4, <2>5, <2>6, <2>7, <2>8, <2>9, <2>10, <2>11 DEF Next, Main
<1>3. Placed => Accounted
    BY PlacedAccounted
<1> QED BY <1>1, <1>2, <1>3, TypeCorrect, ThreadInvCorrect, ArrivalOrderCorrect, PTL DEF Spec
-----------------------------------------------------------------------------
(* The lines of the users: MessageLoop implements UserLines.               *)

\* The one thread of a user answers its batch; who has none is not served.
LEMMA ServingIs ==
    ASSUME NEW ts, \A s, t \in ts : s.uid = t.uid => s = t
    PROVE  \A u \in Users : /\ \A t \in ts : t.uid = u => Serving(ts)[u] = t.batch
                            /\ (\A t \in ts : t.uid # u) => Serving(ts)[u] = <<>>
<1> SUFFICES ASSUME NEW u \in Users
             PROVE  /\ \A t \in ts : t.uid = u => Serving(ts)[u] = t.batch
                    /\ (\A t \in ts : t.uid # u) => Serving(ts)[u] = <<>>
    OBVIOUS
<1> DEFINE of == {t \in ts : t.uid = u}
           one == CHOOSE t \in of : TRUE
<1>1. Serving(ts)[u] = IF of = {} THEN <<>> ELSE one.batch
    BY DEF Serving
<1>2. ASSUME NEW t \in ts, t.uid = u PROVE one = t /\ of # {}
    <2>1. t \in of
        BY <1>2
    <2>2. one \in of
        BY <2>1
    <2> QED BY <1>2, <2>1, <2>2
<1> HIDE DEF one
<1>3. (\A t \in ts : t.uid # u) => of = {}
    OBVIOUS
<1> HIDE DEF of
<1> QED BY <1>1, <1>2, <1>3

LEMMA ServingType == \A ts : Serving(ts) = [u \in Users |-> Serving(ts)[u]]
BY DEF Serving

\* The threads end with the process.
Ended == pc = "exited" => threads = {}

LEMMA EndedStep ==
    Ended /\ [Next]_vars => Ended'
<1> SUFFICES ASSUME Ended, [Next]_vars PROVE Ended'
    OBVIOUS
<1>1. CASE Exit
    BY <1>1 DEF Exit, Ended
<1>2. CASE \E t \in threads : DispatchThread(t)
    BY <1>2 DEF Ended, DispatchThread, Handle, SaveOpen, SaveWrite, Finish
<1>3. CASE Main /\ ~Exit
    BY <1>3 DEF Main, LoopTop, PollAnswer, PollError, Relogin, Collect, ComputeReady, SkipDuplicate,
                RequeueBusy, StartThread, TakeBatch, Cleanup, Ended
<1>4. CASE Environment \/ UNCHANGED vars
    BY <1>4 DEF Environment, DebounceOver, TokenExpires, Signal, ShutdownFile, vars, Ended
<1> QED BY <1>1, <1>2, <1>3, <1>4 DEF Next

\* What leaves the lines, the threads' batches and the answered messages alone.
LEMMA LinesStutter ==
    ASSUME UNCHANGED <<pending, handled>>, Serving(threads') = Serving(threads),
           pc' = "exited" <=> pc = "exited"
    PROVE  UNCHANGED Lines!vars
BY DEF Lines!vars

LEMMA LinesCollect ==
    ASSUME TypeOK, ThreadInv, ArrivalOrder, Collect
    PROVE  Lines!Next
<1> DEFINE m == Head(inbox)
<1>1. /\ inbox \in Seq(Message) /\ inbox # <<>> /\ pc = "collect" /\ pc' = pc
      /\ pending' = [pending EXCEPT ![m.user] = Append(@, m)]
      /\ UNCHANGED <<threads, handled>>
    BY DEF Collect, TypeOK, QueueType
<1>2. m \in Message /\ m = inbox[1] /\ 1 \in 1..Len(inbox) /\ m.user \in Users
    <2>1. Len(inbox) \in Nat /\ Len(inbox) # 0 /\ \A i \in 1..Len(inbox) : inbox[i] \in Message
        BY <1>1, EmptySeq, LenProperties
    <2> QED BY <1>1, <2>1 DEF Message
<1> HIDE DEF m
<1>3. ASSUME NEW s \in Seq(Message), Old(s), NEW i \in DOMAIN s PROVE s[i].id < m.id
    <2>1. i \in 1..Len(s)
        BY LenProperties
    <2> QED BY <1>1, <1>2, <1>3, <2>1 DEF Old, Precedes
<1>4. /\ pending[m.user] \in Seq(Message) /\ Old(pending[m.user])
      /\ handled[m.user] \in Seq(Message) /\ Old(handled[m.user])
    BY <1>2 DEF TypeOK, QueueType, HistoryType, ArrivalOrder
<1>5. \A i \in DOMAIN Serving(threads)[m.user] : Serving(threads)[m.user][i].id < m.id
    <2>1. CASE \E t \in threads : t.uid = m.user
        <3>1. PICK t \in threads : t.uid = m.user
            BY <2>1
        <3>2. Serving(threads)[m.user] = t.batch
            BY <1>2, <3>1, ServingIs DEF ThreadInv, OneThreadPerUser
        <3>3. t.batch \in Seq(Message) /\ Old(t.batch)
            BY DEF TypeOK, ThreadType, Thread, ArrivalOrder
        <3> QED BY <1>3, <3>2, <3>3
    <2>2. CASE \A t \in threads : t.uid # m.user
        <3>1. Serving(threads)[m.user] = <<>>
            BY <1>2, <2>2, ServingIs DEF ThreadInv, OneThreadPerUser
        <3> QED BY <3>1
    <2> QED BY <2>1, <2>2
<1>6. Lines!Arrive(m)
    BY <1>1, <1>3, <1>4, <1>5 DEF Lines!Arrive
<1> QED BY <1>2, <1>6 DEF Lines!Next

LEMMA LinesStart ==
    ASSUME TypeOK, ThreadInv, NEW u \in Users, StartThread(u)
    PROVE  Lines!Next \/ UNCHANGED Lines!vars
<1> DEFINE new == [uid |-> u, batch |-> pending[u], sess |-> epoch, at |-> "handle"]
<1>1. /\ pc = "drain" /\ pc' = pc /\ u \notin processing /\ threads' = threads \cup {new}
      /\ pending' = [pending EXCEPT ![u] = <<>>] /\ handled' = handled
    BY DEF StartThread, TakeBatch
<1>2. new.uid = u /\ new.batch = pending[u]
    OBVIOUS
<1> HIDE DEF new
<1>3. \A t \in threads : t.uid # u
    BY <1>1 DEF ThreadInv, BusyMatchesThreads
<1>4. \A s, t \in threads' : s.uid = t.uid => s = t
    BY <1>1, <1>2, <1>3 DEF ThreadInv, OneThreadPerUser
<1>5. Serving(threads)[u] = <<>> /\ Serving(threads')[u] = pending[u]
    BY <1>1, <1>2, <1>3, <1>4, ServingIs DEF ThreadInv, OneThreadPerUser
<1>6. ASSUME NEW v \in Users, v # u PROVE Serving(threads')[v] = Serving(threads)[v]
    <2>1. CASE \E t \in threads : t.uid = v
        <3>1. PICK t \in threads : t.uid = v
            BY <2>1
        <3>2. t \in threads'
            BY <1>1
        <3> QED BY <1>4, <3>1, <3>2, ServingIs DEF ThreadInv, OneThreadPerUser
    <2>2. CASE \A t \in threads : t.uid # v
        <3>1. \A t \in threads' : t.uid # v
            BY <1>1, <1>2, <1>6, <2>2
        <3> QED BY <1>4, <2>2, <3>1, ServingIs DEF ThreadInv, OneThreadPerUser
    <2> QED BY <2>1, <2>2
<1>7. Serving(threads') = [Serving(threads) EXCEPT ![u] = pending[u]]
    <2> DEFINE S == Serving(threads)
               R == Serving(threads')
    <2>1. R = [v \in Users |-> R[v]] /\ S = [v \in Users |-> S[v]]
        BY ServingType
    <2>2. R[u] = pending[u] /\ \A v \in Users : v # u => R[v] = S[v]
        BY <1>5, <1>6
    <2> HIDE DEF R, S
    <2>3. R = [S EXCEPT ![u] = pending[u]]
        BY <2>1, <2>2
    <2> QED BY <2>3 DEF R, S
<1>8. CASE pending[u] # <<>>
    <2>1. Lines!Serve(u)
        BY <1>1, <1>5, <1>7, <1>8 DEF Lines!Serve
    <2> QED BY <2>1 DEF Lines!Next
<1>9. CASE pending[u] = <<>>
    <2>1. pending' = pending
        BY <1>1, <1>9 DEF TypeOK, QueueType
    <2>2. Serving(threads') = Serving(threads)
        BY <1>5, <1>7, <1>9, ServingType
    <2> QED BY <1>1, <2>1, <2>2, LinesStutter
<1> QED BY <1>8, <1>9

\* A thread that moves on answers the same batch.
LEMMA LinesMove ==
    ASSUME TypeOK, ThreadInv, ThreadInv', NEW t \in threads, NEW to, Move(t, to), pc # "exited", pc' = pc
    PROVE  Serving(threads') = Serving(threads)
<1> DEFINE moved == [t EXCEPT !.at = to]
<1>1. moved.uid = t.uid /\ moved.batch = t.batch
    BY DEF TypeOK, ThreadType, Thread
<1>2. threads' = (threads \ {t}) \cup {moved}
    BY DEF Move
<1> HIDE DEF moved
<1>3. /\ \A r, s \in threads : r.uid = s.uid => r = s
      /\ \A r, s \in threads' : r.uid = s.uid => r = s
    BY DEF ThreadInv, OneThreadPerUser
<1>4. ASSUME NEW u \in Users PROVE Serving(threads')[u] = Serving(threads)[u]
    <2>1. CASE t.uid = u
        BY <1>1, <1>2, <1>3, <2>1, ServingIs
    <2>2. CASE t.uid # u /\ \E s \in threads : s.uid = u
        <3>1. PICK s \in threads : s.uid = u
            BY <2>2
        <3>2. s \in threads'
            BY <1>2, <2>2, <3>1
        <3> QED BY <1>3, <3>1, <3>2, ServingIs
    <2>3. CASE \A s \in threads : s.uid # u
        <3>1. \A s \in threads' : s.uid # u
            BY <1>1, <1>2, <2>3
        <3> QED BY <1>3, <2>3, <3>1, ServingIs
    <2> QED BY <2>1, <2>2, <2>3
<1> QED BY <1>4, ServingType DEF Serving

LEMMA LinesFinish ==
    ASSUME TypeOK, ThreadInv, ThreadInv', NEW t \in threads, Finish(t), pc # "exited"
    PROVE  Lines!Next \/ UNCHANGED Lines!vars
<1> DEFINE u == t.uid
           S == Serving(threads)
           R == Serving(threads')
<1>1. /\ threads' = threads \ {t} /\ handled' = [handled EXCEPT ![u] = @ \o t.batch]
      /\ pending' = pending /\ pc' = pc
    BY DEF Finish
<1>2. u \in Users /\ t.batch \in Seq(Message)
    BY DEF TypeOK, ThreadType, Thread
<1>3. /\ \A r, s \in threads : r.uid = s.uid => r = s
      /\ \A r, s \in threads' : r.uid = s.uid => r = s
    BY DEF ThreadInv, OneThreadPerUser
<1>4. \A s \in threads' : s.uid # u
    BY <1>1, <1>3
<1>5. S[u] = t.batch /\ R[u] = <<>>
    BY <1>2, <1>3, <1>4, ServingIs
<1>6. ASSUME NEW v \in Users, v # u PROVE R[v] = S[v]
    <2>1. CASE \E s \in threads : s.uid = v
        <3>1. PICK s \in threads : s.uid = v
            BY <2>1
        <3>2. s \in threads'
            BY <1>1, <1>6, <3>1
        <3> QED BY <1>3, <3>1, <3>2, ServingIs
    <2>2. CASE \A s \in threads : s.uid # v
        <3>1. \A s \in threads' : s.uid # v
            BY <1>1, <2>2
        <3> QED BY <1>3, <2>2, <3>1, ServingIs
    <2> QED BY <2>1, <2>2
<1>7. S = [v \in Users |-> S[v]] /\ R = [v \in Users |-> R[v]]
    BY ServingType
<1>8. CASE t.batch # <<>>
    <2>1. R = [S EXCEPT ![u] = <<>>]
        <3> HIDE DEF R, S, u
        <3> QED BY <1>2, <1>5, <1>6, <1>7
    <2>2. Lines!Finish(u)
        BY <1>1, <1>5, <1>8, <2>1 DEF Lines!Finish
    <2> QED BY <1>2, <2>2 DEF Lines!Next
<1>9. CASE t.batch = <<>>
    <2>1. R = S
        <3> HIDE DEF R, S, u
        <3> QED BY <1>2, <1>5, <1>6, <1>7, <1>9
    <2>2. handled' = handled
        <3>1. handled[u] \o <<>> = handled[u] /\ handled \in [Users -> Seq(Message)]
            BY <1>2, ConcatEmptySeq DEF TypeOK, HistoryType
        <3> QED BY <1>1, <1>9, <3>1
    <2> QED BY <1>1, <2>1, <2>2, LinesStutter
<1> QED BY <1>8, <1>9

LEMMA LinesStep ==
    TypeOK /\ ThreadInv /\ ThreadInv' /\ ArrivalOrder /\ Ended /\ [Next]_vars => [Lines!Next]_(Lines!vars)
<1> SUFFICES ASSUME TypeOK, ThreadInv, ThreadInv', ArrivalOrder, Ended, [Next]_vars
             PROVE  Lines!Next \/ UNCHANGED Lines!vars
    OBVIOUS
<1>1. CASE Exit /\ pc # "exited"
    <2>1. Serving(threads') = Lines!Nobody
        BY <1>1 DEF Exit, Serving, Lines!Nobody
    <2>2. Lines!Close
        BY <1>1, <2>1 DEF Exit, Lines!Close
    <2> QED BY <2>2 DEF Lines!Next
<1>2. CASE (LoopTop \/ Relogin) /\ Exit
    BY <1>1, <1>2 DEF LoopTop, Relogin
<1>3. CASE LoopTop /\ ~Exit
    BY <1>3, LinesStutter DEF LoopTop
<1>4. CASE Relogin /\ ~Exit
    <2>1. /\ pc # "exited" /\ pc' # "exited" /\ pending' = [u \in Users |-> <<>>]
          /\ UNCHANGED <<threads, handled>>
        BY <1>4 DEF Relogin
    <2>2. Lines!Drop(Users)
        BY <2>1 DEF Lines!Drop
    <2> QED BY <2>2 DEF Lines!Next
<1>5. CASE PollAnswer \/ PollError \/ ComputeReady \/ Cleanup
    BY <1>5, LinesStutter DEF PollAnswer, PollError, ComputeReady, Cleanup
<1>6. CASE Collect
    BY <1>6, LinesCollect
<1>7. ASSUME NEW u \in Users, SkipDuplicate(u) PROVE Lines!Next
    <2>1. /\ pc # "exited" /\ pc' = pc /\ pending' = [pending EXCEPT ![u] = <<>>]
          /\ UNCHANGED <<threads, handled>> /\ pending \in [Users -> Seq(Message)]
        BY <1>7 DEF SkipDuplicate, TakeBatch, TypeOK, QueueType
    <2>2. pending' = [v \in Users |-> IF v \in {u} THEN <<>> ELSE pending[v]]
        BY <2>1
    <2>3. Lines!Drop({u})
        BY <2>1, <2>2 DEF Lines!Drop
    <2> QED BY <2>3 DEF Lines!Next
<1>8. ASSUME NEW u \in Users, RequeueBusy(u) PROVE UNCHANGED Lines!vars
    BY <1>8, LinesStutter DEF RequeueBusy, TakeBatch
<1>9. ASSUME NEW u \in Users, StartThread(u) PROVE Lines!Next \/ UNCHANGED Lines!vars
    BY <1>9, LinesStart
<1>10. ASSUME NEW t \in threads, DispatchThread(t) PROVE Lines!Next \/ UNCHANGED Lines!vars
    <2>1. pc # "exited"
        BY DEF Ended
    <2>2. CASE Finish(t)
        BY <2>1, <2>2, LinesFinish
    <2>3. CASE Handle(t) \/ SaveOpen(t) \/ SaveWrite(t)
        <3>1. UNCHANGED <<pending, handled, pc>> /\ \E to : Move(t, to)
            BY <2>3 DEF Handle, SaveOpen, SaveWrite
        <3> QED BY <2>1, <3>1, LinesMove, LinesStutter
    <2> QED BY <1>10, <2>2, <2>3 DEF DispatchThread
<1>11. CASE Environment
    BY <1>11, LinesStutter DEF Environment, DebounceOver, TokenExpires, Signal, ShutdownFile
<1>12. CASE UNCHANGED vars
    BY <1>12, LinesStutter DEF vars
<1> QED
    BY <1>2, <1>3, <1>4, <1>5, <1>6, <1>7, <1>8, <1>9, <1>10, <1>11, <1>12 DEF Next, Main

\* The message loop keeps a line per user: messages stand in it in the order of
\* their arrival, it is served a batch at a time and only as a whole, and nothing
\* but the end of the process takes a batch away from who answers it.
THEOREM LinesKept == Spec => KeepsLines
<1>1. Init => Lines!Init /\ Ended
    <2> SUFFICES ASSUME Init PROVE Lines!Init /\ Ended
        OBVIOUS
    <2>1. Serving(threads) = [u \in Users |-> <<>>]
        BY DEF Init, Serving
    <2> QED BY <2>1 DEF Init, Ended, Lines!Init, Lines!Nobody
<1>2. Spec => []Ended
    BY <1>1, EndedStep, PTL DEF Spec
<1> QED
    BY <1>1, <1>2, LinesStep, TypeCorrect, ThreadInvCorrect, ArrivalOrderCorrect, PTL
       DEF Spec, KeepsLines, Lines!Spec
=============================================================================
