---------------------------- MODULE McpStdioProofs -----------------------------
(***************************************************************************)
(* Proofs about McpStdio, for every set of calls and every size of the     *)
(* stderr pipe: its type invariant, that no two operations ever get the    *)
(* same response, that one on its own gets its own, and that no call       *)
(* overtakes the handshake.                                                *)
(***************************************************************************)
EXTENDS McpStdio, SequenceTheorems, FiniteSetTheorems, TLAPS

USE DEF callVars, serverVars, vars
-----------------------------------------------------------------------------
(* Sequences as collections.                                               *)

In(x, s) == \E i \in 1..Len(s) : s[i] = x
Once(s, X) == \A i, j \in 1..Len(s) : i # j /\ s[i] = s[j] => s[i] \in X

\* What is in a sequence after an element was appended.
LEMMA AppendIn ==
    ASSUME NEW S, NEW s \in Seq(S), NEW e \in S
    PROVE  /\ \A x : In(x, Append(s, e)) <=> In(x, s) \/ x = e
           /\ \A X : Once(s, X) /\ (In(e, s) => e \in X) => Once(Append(s, e), X)
<1> DEFINE t == Append(s, e)
<1>1. /\ Len(s) \in Nat /\ Len(t) = Len(s) + 1 /\ t[Len(s) + 1] = e
      /\ \A i \in 1..Len(s) : t[i] = s[i]
    BY AppendProperties, LenProperties
<1> HIDE DEF t
<1>2. \A x : In(x, t) <=> In(x, s) \/ x = e
    BY <1>1 DEF In
<1>3. ASSUME NEW X, Once(s, X), In(e, s) => e \in X,
             NEW i \in 1..Len(t), NEW j \in 1..Len(t), i # j, t[i] = t[j]
      PROVE  t[i] \in X
    <2>1. CASE i \in 1..Len(s) /\ j \in 1..Len(s)
        BY <1>1, <1>3, <2>1 DEF Once
    <2>2. CASE i = Len(s) + 1
        BY <1>1, <1>3, <2>2 DEF In
    <2>3. CASE j = Len(s) + 1
        BY <1>1, <1>3, <2>3 DEF In
    <2> QED BY <1>1, <2>1, <2>2, <2>3
<1> QED BY <1>2, <1>3 DEF Once, t

\* What is in a sequence after its head was taken.
LEMMA TailIn ==
    ASSUME NEW S, NEW s \in Seq(S), s # <<>>
    PROVE  /\ In(Head(s), s)
           /\ \A x : In(x, Tail(s)) => In(x, s)
           /\ \A X : Once(s, X) => /\ Once(Tail(s), X)
                                   /\ In(Head(s), Tail(s)) => Head(s) \in X
<1> DEFINE t == Tail(s)
<1>1. /\ Len(s) \in Nat /\ Len(s) > 0 /\ Len(t) = Len(s) - 1
      /\ \A i \in 1..Len(t) : t[i] = s[i + 1]
    BY HeadTailProperties, LenProperties, EmptySeq
<1>2. Head(s) = s[1]
    OBVIOUS
<1> HIDE DEF t
<1>3. In(Head(s), s)
    BY <1>1, <1>2 DEF In
<1>4. \A x : In(x, t) => In(x, s)
    BY <1>1 DEF In
<1>5. ASSUME NEW X, Once(s, X) PROVE Once(t, X) /\ (In(Head(s), t) => Head(s) \in X)
    BY <1>1, <1>2, <1>5 DEF Once, In
<1> QED BY <1>3, <1>4, <1>5 DEF t
-----------------------------------------------------------------------------
(* Requests are numbered once.                                             *)

Numbered == {o \in Ops : id[o] # 0}

\* A request that was not made yet has no number, two requests have different
\* ones, and the counter is the number of requests made.
Numbers ==
    /\ nextId = Cardinality(Numbered)
    /\ id \in [Ops -> Nat] /\ id["initialized"] = 0
    /\ pc \in [Ops -> {"new", "held", "made", "written", "ended"}]
    /\ \A o \in Ops : pc[o] \in {"new", "held"} => id[o] = 0
    /\ \A o \in Ops : id[o] <= nextId
    /\ \A o, p \in Ops : o # p /\ id[o] = id[p] => id[o] = 0
    /\ \A o \in Ops \ Calls : pc[o] # "held"

\* There are as many numbers as operations that ask for an answer.
LEMMA OpsFinite ==
    /\ IsFiniteSet(Ops \ {"initialized"}) /\ Cardinality(Ops \ {"initialized"}) = MaxId
    /\ MaxId \in Nat
<1>1. IsFiniteSet(Calls) /\ Cardinality(Calls) \in Nat
    BY McpAssumption, FS_CardinalityType
<1>2. /\ IsFiniteSet(Calls \cup {"initialize"})
      /\ Cardinality(Calls \cup {"initialize"}) = Cardinality(Calls) + 1
    BY <1>1, FS_AddElement, McpAssumption
<1>3. /\ IsFiniteSet((Calls \cup {"initialize"}) \cup {"list"})
      /\ Cardinality((Calls \cup {"initialize"}) \cup {"list"}) = Cardinality(Calls) + 2
    <2>1. "list" \notin Calls \cup {"initialize"}
        BY McpAssumption
    <2> QED BY <1>1, <1>2, <2>1, FS_AddElement
<1>4. Ops \ {"initialized"} = (Calls \cup {"initialize"}) \cup {"list"}
    BY McpAssumption DEF Ops
<1> QED BY <1>1, <1>3, <1>4 DEF MaxId

Bounded == nextId \in 0..MaxId /\ id \in [Ops -> 0..MaxId] /\ IsFiniteSet(Numbered)

\* The counter stays within its bound.
LEMMA NumbersBounded ==
    Numbers => Bounded
<1> SUFFICES ASSUME Numbers PROVE Bounded
    OBVIOUS
<1>1. Numbered \in SUBSET (Ops \ {"initialized"})
    BY DEF Numbers, Numbered
<1>2. IsFiniteSet(Numbered) /\ Cardinality(Numbered) <= MaxId
    BY <1>1, OpsFinite, FS_Subset
<1>3. Cardinality(Numbered) \in Nat
    BY <1>2, FS_CardinalityType
<1>4. nextId \in 0..MaxId
    BY <1>2, <1>3, OpsFinite DEF Numbers
<1> QED BY <1>2, <1>4, OpsFinite DEF Numbers, Bounded

\* No request has a number at the start.
LEMMA InitNumbers == Init => Numbers
<1> SUFFICES ASSUME Init PROVE Numbers
    OBVIOUS
<1>1. Numbered = {} /\ Cardinality({}) = 0
    BY FS_EmptySet DEF Init, Numbered
<1> QED BY <1>1 DEF Init, Numbers, Ops

\* Every step keeps the numbers.
LEMMA StepNumbers == Numbers /\ [Next]_vars => Numbers'
<1> SUFFICES ASSUME Numbers, [Next]_vars PROVE Numbers'
    OBVIOUS
<1> USE DEF Waiting
<1>1. ASSUME NEW c \in Calls, Lookup(c) PROVE Numbers'
    <2>1. nextId' = nextId /\ id' = id /\ pc' = [pc EXCEPT ![c] = pc'[c]]
          /\ pc[c] = "new" /\ pc'[c] \in {"held", "ended"}
        BY <1>1 DEF Numbers, Lookup, Ops
    <2>2. Numbered' = Numbered
        BY <2>1 DEF Numbered
    <2> QED BY <2>1, <2>2 DEF Numbers, Ops
<1>2. ASSUME NEW o \in Ops, Request(o) PROVE Numbers'
    <2>1. /\ id[o] = 0 /\ id' = [id EXCEPT ![o] = nextId + 1] /\ nextId' = nextId + 1
          /\ o # "initialized" /\ pc' = [pc EXCEPT ![o] = pc'[o]] /\ pc'[o] \in {"made", "ended"}
        BY <1>2 DEF Request, Numbers, Sent
    <2>2. nextId \in Nat /\ IsFiniteSet(Numbered)
        BY NumbersBounded, OpsFinite DEF Bounded
    <2>3. Numbered' = Numbered \cup {o} /\ o \notin Numbered
        BY <2>1, <2>2 DEF Numbered, Numbers
    <2>4. Cardinality(Numbered') = nextId + 1
        BY <2>2, <2>3, FS_AddElement DEF Numbers
    <2>5. \A p \in Ops \ {o} : id'[p] = id[p] /\ pc'[p] = pc[p] /\ id[p] <= nextId
        BY <2>1 DEF Numbers
    <2>6. id'[o] = nextId + 1 /\ id' \in [Ops -> Nat]
        BY <2>1, <2>2 DEF Numbers
    <2>7. pc' \in [Ops -> {"new", "held", "made", "written", "ended"}]
        BY <2>1 DEF Numbers
    <2>8. \A p \in Ops : id'[p] <= nextId'
        BY <2>1, <2>2, <2>5, <2>6 DEF Numbers
    <2>9. \A p, q \in Ops : p # q /\ id'[p] = id'[q] => id'[p] = 0
        BY <2>2, <2>5, <2>6 DEF Numbers
    <2> QED BY <2>1, <2>4, <2>5, <2>6, <2>7, <2>8, <2>9 DEF Numbers
<1>3. ASSUME Notify PROVE Numbers'
    BY <1>3 DEF Numbers, Numbered, Notify, Sent
<1>4. ASSUME NEW o \in Ops, Write(o) PROVE Numbers'
    BY <1>4 DEF Numbers, Numbered, Write
<1>5. ASSUME NEW o \in Ops, Read(o) PROVE Numbers'
    BY <1>5 DEF Numbers, Numbered, Read
<1>6. ASSUME UNCHANGED <<nextId, id, pc>> PROVE Numbers'
    BY <1>6 DEF Numbers, Numbered
<1> QED BY <1>1, <1>2, <1>3, <1>4, <1>5, <1>6 DEF Next, DrainStderr, Unload, Close,
        ServerReceive, ServerLog, ServerAnswer, Notice, ServerExits
-----------------------------------------------------------------------------
(* Type correctness.                                                       *)

\* The line a server prints for a message it has handled.
LEMMA ResponseType ==
    ASSUME NEW o \in Ops, TypeOK
    PROVE  stdout \o ResponseTo(o) = IF o = "initialized" THEN stdout ELSE Append(stdout, id[o])
<1>1. stdout \in Seq(0..MaxId) /\ id[o] \in 0..MaxId
    BY DEF TypeOK
<1> QED BY <1>1, ConcatEmptySeq, AppendIsConcat DEF ResponseTo

\* The process starts well typed.
LEMMA InitType == Init => TypeOK
<1> SUFFICES ASSUME Init PROVE TypeOK
    OBVIOUS
<1>1. nextId \in 0..MaxId /\ id \in [Ops -> 0..MaxId]
    BY InitNumbers, NumbersBounded DEF Bounded
<1>2. stdin \in Seq(Ops) /\ stdout \in Seq(0..MaxId) /\ seen \in Seq(Ops)
    BY EmptySeq DEF Init
<1>3. result \in [Ops -> 0..NoResult] /\ stderr \in 0..PipeSize /\ notices \in 0..MaxNotices
    BY OpsFinite, McpAssumption DEF Init, NoResult
<1> QED BY <1>1, <1>2, <1>3 DEF Init, TypeOK

\* Every step keeps the types.
LEMMA StepType == TypeOK /\ Numbers /\ [Next]_vars => TypeOK'
<1> SUFFICES ASSUME TypeOK, Numbers, [Next]_vars PROVE TypeOK'
    OBVIOUS
<1>0. nextId' \in 0..MaxId /\ id' \in [Ops -> 0..MaxId]
    <2>1. Bounded'
        BY StepNumbers, NumbersBounded, PTL
    <2> QED BY <2>1 DEF Bounded
<1>0a. MaxId \in Nat /\ NoResult = MaxId + 1 /\ PipeSize \in Nat /\ MaxNotices \in Nat
    BY OpsFinite, McpAssumption DEF NoResult
<1>1. ASSUME NEW c \in Calls, Lookup(c) PROVE TypeOK'
    BY <1>1 DEF TypeOK, Lookup, Ops
<1>2. ASSUME NEW o \in Ops, Request(o) PROVE TypeOK'
    <2>1. pc' \in [Ops -> {"new", "held", "made", "written", "ended"}] /\ client' \in BOOLEAN
        BY <1>2 DEF TypeOK, Request, Sent, Stored
    <2> QED BY <1>0, <1>2, <2>1 DEF TypeOK, Request
<1>3. ASSUME Notify PROVE TypeOK'
    BY <1>3 DEF TypeOK, Notify, Sent, Ops
<1>4. ASSUME NEW o \in Ops, Write(o) PROVE TypeOK'
    <2>1. Append(stdin, o) \in Seq(Ops)
        BY AppendProperties DEF TypeOK
    <2> QED BY <1>4, <2>1 DEF TypeOK, Write
<1>5. ASSUME NEW o \in Ops, Read(o) PROVE TypeOK'
    <2>1. stdout # <<>> => Head(stdout) \in 0..MaxId /\ Tail(stdout) \in Seq(0..MaxId)
        BY HeadTailProperties DEF TypeOK
    <2>2. CASE stdout # <<>> /\ stdout' = Tail(stdout)
               /\ result' = [result EXCEPT ![o] = Head(stdout)]
        <3>1. Head(stdout) \in 0..NoResult
            BY <1>0a, <2>1, <2>2
        <3> QED BY <1>5, <2>1, <2>2, <3>1 DEF TypeOK, Read
    <2>3. CASE UNCHANGED <<stdout, result>>
        BY <1>5, <2>3 DEF TypeOK, Read
    <2> QED BY <1>5, <2>2, <2>3 DEF Read
<1>6. ASSUME DrainStderr PROVE TypeOK'
    BY <1>0a, <1>6 DEF TypeOK, DrainStderr
<1>7. ASSUME Unload \/ Close \/ ServerExits PROVE TypeOK'
    BY <1>7 DEF TypeOK, Unload, Close, ServerExits
<1>8. ASSUME ServerReceive PROVE TypeOK'
    <2>1. Head(stdin) \in Ops /\ Tail(stdin) \in Seq(Ops) /\ Append(seen, Head(stdin)) \in Seq(Ops)
        BY <1>8, HeadTailProperties, AppendProperties DEF TypeOK, ServerReceive
    <2> QED BY <1>8, <2>1 DEF TypeOK, ServerReceive
<1>9. ASSUME ServerLog PROVE TypeOK'
    <2>1. serving \in Ops \X {"received", "logged"}
        BY <1>9 DEF TypeOK, ServerLog, Idle
    <2> QED BY <1>0a, <1>9, <2>1 DEF TypeOK, ServerLog
<1>10. ASSUME ServerAnswer PROVE TypeOK'
    <2>1. serving[1] \in Ops
        BY <1>10 DEF TypeOK, ServerAnswer, Idle
    <2>2. Append(stdout, id[serving[1]]) \in Seq(0..MaxId)
        BY <2>1, AppendProperties DEF TypeOK
    <2>3. stdout' \in Seq(0..MaxId)
        BY <1>10, <2>1, <2>2, ResponseType DEF TypeOK, ServerAnswer
    <2> QED BY <1>10, <2>3 DEF TypeOK, ServerAnswer
<1>11. ASSUME Notice PROVE TypeOK'
    <2>1. Append(stdout, 0) \in Seq(0..MaxId)
        BY <1>0a, AppendProperties DEF TypeOK
    <2> QED BY <1>0a, <1>11, <2>1 DEF TypeOK, Notice
<1>12. ASSUME UNCHANGED vars PROVE TypeOK'
    BY <1>12 DEF TypeOK
<1> QED BY <1>1, <1>2, <1>3, <1>4, <1>5, <1>6, <1>7, <1>8, <1>9, <1>10, <1>11, <1>12 DEF Next

\* The operations, the two ends of the pipes and the server always have their
\* types; the counter of requests never passes the number of operations.
THEOREM TypeCorrect == Spec => []TypeOK
<1>1. Init => TypeOK /\ Numbers
    BY InitType, InitNumbers
<1>2. TypeOK /\ Numbers /\ [Next]_vars => TypeOK' /\ Numbers'
    BY StepType, StepNumbers
<1> QED BY <1>1, <1>2, PTL DEF Spec
-----------------------------------------------------------------------------
(* Responses.                                                              *)

\* A message the server has still to answer, or one not sent yet.
Ahead(o) == pc[o] \in {"new", "held", "made"} \/ In(o, stdin) \/ serving[1] = o

\* A line that answers a request has been printed.
Given(v) == In(v, stdout) \/ \E p \in Ops : result[p] = v

\* An operation is in one place only on its way to the server.
OnePlace ==
    /\ \A o \in Ops : pc[o] \in {"new", "held", "made"} => ~In(o, stdin) /\ serving[1] # o
    /\ Once(stdin, {}) /\ \A o \in Ops : serving[1] = o => ~In(o, stdin)

\* The answer to a request is printed once, after the request was handled, and
\* read once.
OneAnswer ==
    /\ \A o \in Ops : Ahead(o) /\ id[o] # 0 => ~Given(id[o])
    /\ \A v \in 0..MaxId : Given(v) => v <= nextId
    /\ Once(stdout, {0})
    /\ \A p \in Ops : In(result[p], stdout) => result[p] = 0
    /\ OneResponsePerCall

\* Every step keeps an operation in one place.
LEMMA StepOnePlace == TypeOK /\ OnePlace /\ [Next]_vars => OnePlace'
<1> SUFFICES ASSUME TypeOK, OnePlace, [Next]_vars PROVE OnePlace'
    OBVIOUS
<1> DEFINE Early == {"new", "held", "made"}
<1>1. ASSUME stdin' = stdin, serving' = serving,
             \A o \in Ops : pc'[o] \in Early => pc[o] \in Early
      PROVE  OnePlace'
    BY <1>1 DEF OnePlace
<1>2. ASSUME NEW o \in Ops, Write(o) PROVE OnePlace'
    <2>1. /\ serving' = serving /\ pc[o] = "made" /\ pc'[o] \notin Early
          /\ \A p \in Ops \ {o} : pc'[p] = pc[p]
        BY <1>2 DEF Write, TypeOK
    <2>2. ~In(o, stdin) /\ serving[1] # o
        BY <2>1 DEF OnePlace
    <2>3. CASE stdin' = stdin
        BY <2>1, <2>3 DEF OnePlace
    <2>4. CASE stdin' = Append(stdin, o)
        <3>1. stdin \in Seq(Ops)
            BY DEF TypeOK
        <3>2. /\ \A x : In(x, stdin') <=> In(x, stdin) \/ x = o
              /\ Once(stdin', {})
            BY <2>2, <2>4, <3>1, AppendIn DEF OnePlace
        <3> QED BY <2>1, <2>2, <3>2 DEF OnePlace
    <2> QED BY <1>2, <2>3, <2>4 DEF Write
<1>3. ASSUME ServerReceive PROVE OnePlace'
    <2>1. /\ stdin # <<>> /\ stdin' = Tail(stdin) /\ serving'[1] = Head(stdin) /\ pc' = pc
          /\ stdin \in Seq(Ops) /\ Once(stdin, {})
        BY <1>3 DEF ServerReceive, TypeOK, OnePlace
    <2>2. /\ In(Head(stdin), stdin) /\ \A x : In(x, stdin') => In(x, stdin)
          /\ Once(stdin', {}) /\ ~In(Head(stdin), stdin')
        BY <2>1, TailIn
    <2> QED BY <2>1, <2>2 DEF OnePlace
<1>4. ASSUME ServerLog PROVE OnePlace'
    BY <1>4 DEF ServerLog, OnePlace
<1>5. ASSUME ServerAnswer PROVE OnePlace'
    <2>1. serving'[1] = "none" /\ "none" \notin Ops /\ stdin' = stdin /\ pc' = pc
        BY <1>5, McpAssumption DEF ServerAnswer, Idle, Ops
    <2> QED BY <2>1 DEF OnePlace
<1>6. ASSUME NEW c \in Calls, Lookup(c) PROVE OnePlace'
    BY <1>1, <1>6 DEF Lookup, TypeOK
<1>7. ASSUME NEW o \in Ops, Request(o) PROVE OnePlace'
    <2>1. pc[o] \in Early
        BY <1>7 DEF Request, Waiting
    <2> QED BY <1>1, <1>7, <2>1 DEF Request, Sent, TypeOK
<1>8. ASSUME Notify PROVE OnePlace'
    BY <1>1, <1>8 DEF Notify, Sent, TypeOK
<1>9. ASSUME NEW o \in Ops, Read(o) PROVE OnePlace'
    BY <1>1, <1>9 DEF Read, TypeOK
<1>10. ASSUME UNCHANGED <<pc, stdin, serving>> PROVE OnePlace'
    BY <1>1, <1>10
<1> QED BY <1>2, <1>3, <1>4, <1>5, <1>6, <1>7, <1>8, <1>9, <1>10 DEF Next, DrainStderr,
        Unload, Close, Notice, ServerExits

\* Every step keeps the answers apart.
LEMMA StepOneAnswer ==
    TypeOK /\ Numbers /\ OnePlace /\ OneAnswer /\ [Next]_vars => OneAnswer'
<1> SUFFICES ASSUME TypeOK, Numbers, OnePlace, OneAnswer, [Next]_vars PROVE OneAnswer'
    OBVIOUS
<1>0. MaxId \in Nat /\ nextId \in Nat /\ NoResult = MaxId + 1
    BY OpsFinite DEF NoResult, TypeOK
<1>1. ASSUME nextId' = nextId, id' = id, stdout' = stdout, result' = result,
             \A o \in Ops : Ahead(o)' => Ahead(o)
      PROVE  OneAnswer'
    BY <1>1 DEF OneAnswer, OneResponsePerCall, Given
<1>2. ASSUME NEW c \in Calls, Lookup(c) PROVE OneAnswer'
    BY <1>1, <1>2 DEF Lookup, Ahead, TypeOK
<1>3. ASSUME NEW o \in Ops, Request(o) PROVE OneAnswer'
    <2>1. /\ nextId' = nextId + 1 /\ id'[o] = nextId + 1 /\ stdout' = stdout /\ result' = result
          /\ stdin' = stdin /\ serving' = serving
          /\ \A p \in Ops \ {o} : id'[p] = id[p] /\ pc'[p] = pc[p]
          /\ nextId + 1 \in 0..MaxId
        <3>1. nextId' \in 0..MaxId
            <4>1. Bounded'
                BY StepNumbers, NumbersBounded, PTL
            <4> QED BY <4>1 DEF Bounded
        <3> QED BY <1>3, <3>1 DEF Request, Sent, TypeOK
    <2>2. \A v : Given(v)' <=> Given(v)
        BY <2>1 DEF Given
    <2>3. ~Given(nextId + 1)
        BY <1>0, <2>1 DEF OneAnswer
    <2>4. \A p \in Ops \ {o} : Ahead(p)' => Ahead(p)
        BY <2>1 DEF Ahead
    <2>5. \A p \in Ops : (Ahead(p) /\ id[p] # 0 => ~Given(id[p]))'
        BY <2>1, <2>2, <2>3, <2>4 DEF OneAnswer
    <2>6. \A v \in 0..MaxId : Given(v)' => v <= nextId'
        BY <1>0, <2>1, <2>2 DEF OneAnswer
    <2> QED BY <2>1, <2>5, <2>6 DEF OneAnswer, OneResponsePerCall
<1>4. ASSUME Notify PROVE OneAnswer'
    BY <1>1, <1>4 DEF Notify, Sent, Ahead, TypeOK
<1>5. ASSUME NEW o \in Ops, Write(o) PROVE OneAnswer'
    <2>1. stdin' = stdin \/ stdin' = Append(stdin, o)
        BY <1>5 DEF Write
    <2>2. \A x : In(x, stdin') => In(x, stdin) \/ x = o
        BY <2>1, AppendIn DEF TypeOK
    <2>3. \A p \in Ops : Ahead(p)' => Ahead(p)
        BY <1>5, <2>2 DEF Write, Ahead, TypeOK
    <2> QED BY <1>1, <1>5, <2>3 DEF Write
<1>6. ASSUME NEW o \in Ops, Read(o) PROVE OneAnswer'
    <2>1. \A p \in Ops : Ahead(p)' => Ahead(p)
        BY <1>6 DEF Read, Ahead, TypeOK
    <2>2. CASE UNCHANGED <<stdout, result>>
        BY <1>1, <1>6, <2>1, <2>2 DEF Read
    <2>3. CASE stdout # <<>> /\ stdout' = Tail(stdout)
               /\ result' = [result EXCEPT ![o] = Head(stdout)]
        <3> DEFINE h == Head(stdout)
        <3>1. stdout \in Seq(0..MaxId) /\ Once(stdout, {0}) /\ h \in 0..MaxId
            BY <2>3, HeadTailProperties DEF TypeOK, OneAnswer
        <3>2. /\ In(h, stdout) /\ \A x : In(x, stdout') => In(x, stdout)
              /\ Once(stdout', {0}) /\ (In(h, stdout') => h = 0)
            BY <2>3, <3>1, TailIn
        <3>3. result'[o] = h /\ \A p \in Ops \ {o} : result'[p] = result[p]
            BY <2>3 DEF TypeOK
        <3> HIDE DEF h
        <3>4. \A v : Given(v)' => Given(v)
            BY <3>2, <3>3 DEF Given
        <3>5. \A p \in Ops \ {o} : result[p] = h => h = 0
            BY <3>2 DEF OneAnswer
        <3>6. \A p \in Ops : In(result'[p], stdout') => result'[p] = 0
            BY <3>2, <3>3 DEF OneAnswer
        <3>7. OneResponsePerCall'
            BY <3>3, <3>5 DEF OneAnswer, OneResponsePerCall
        <3>8. id' = id /\ nextId' = nextId
            BY <1>6 DEF Read
        <3> QED BY <2>1, <3>2, <3>4, <3>6, <3>7, <3>8 DEF OneAnswer
    <2> QED BY <1>6, <2>2, <2>3 DEF Read
<1>7. ASSUME ServerReceive PROVE OneAnswer'
    <2>1. /\ stdin # <<>> /\ stdin' = Tail(stdin) /\ serving'[1] = Head(stdin) /\ pc' = pc
          /\ stdin \in Seq(Ops)
        BY <1>7 DEF ServerReceive, TypeOK
    <2>2. \A p \in Ops : Ahead(p)' => Ahead(p)
        BY <2>1, TailIn DEF Ahead
    <2> QED BY <1>1, <1>7, <2>2 DEF ServerReceive
<1>8. ASSUME ServerLog PROVE OneAnswer'
    BY <1>1, <1>8 DEF ServerLog, Ahead
<1>9. ASSUME ServerAnswer PROVE OneAnswer'
    <2> DEFINE o == serving[1]
    <2>1. /\ o \in Ops /\ serving'[1] = "none" /\ "none" \notin Ops
          /\ stdin' = stdin /\ pc' = pc /\ id' = id /\ nextId' = nextId /\ result' = result
        BY <1>9, McpAssumption DEF ServerAnswer, Idle, Ops, TypeOK
    <2>2. \A p \in Ops : Ahead(p)' => Ahead(p) /\ p # o
        BY <2>1 DEF Ahead, OnePlace
    <2>3. stdout' = IF o = "initialized" THEN stdout ELSE Append(stdout, id[o])
        BY <1>9, <2>1, ResponseType DEF ServerAnswer
    <2> HIDE DEF o
    <2>4. CASE stdout' = stdout
        BY <1>1, <2>1, <2>2, <2>4
    <2>5. CASE stdout' = Append(stdout, id[o])
        <3>1. stdout \in Seq(0..MaxId) /\ id[o] \in 0..MaxId
            BY <2>1 DEF TypeOK
        <3>2. Ahead(o)
            BY DEF Ahead, o
        <3>3. id[o] # 0 => ~Given(id[o])
            BY <2>1, <3>2 DEF OneAnswer
        <3>4. /\ \A x : In(x, stdout') <=> In(x, stdout) \/ x = id[o]
              /\ Once(stdout', {0})
            <4>1. Once(stdout, {0}) /\ (In(id[o], stdout) => id[o] \in {0})
                BY <3>3 DEF OneAnswer, Given
            <4> QED BY <2>5, <3>1, <4>1, AppendIn
        <3>5. \A v : Given(v)' => Given(v) \/ v = id[o]
            BY <2>1, <3>4 DEF Given
        <3>6. \A p \in Ops : (Ahead(p) /\ id[p] # 0 => ~Given(id[p]))'
            BY <2>1, <2>2, <3>5 DEF OneAnswer, Numbers
        <3>7. \A v \in 0..MaxId : Given(v)' => v <= nextId'
            BY <2>1, <3>5 DEF OneAnswer, Numbers
        <3>8. \A p \in Ops : In(result'[p], stdout') => result'[p] = 0
            BY <2>1, <3>3, <3>4 DEF OneAnswer, Given
        <3> QED BY <2>1, <3>4, <3>6, <3>7, <3>8 DEF OneAnswer, OneResponsePerCall
    <2> QED BY <2>3, <2>4, <2>5
<1>10. ASSUME Notice PROVE OneAnswer'
    <2>1. /\ stdout' = Append(stdout, 0) /\ stdout \in Seq(0..MaxId) /\ 0 \in 0..MaxId
          /\ Once(stdout, {0})
        BY <1>0, <1>10 DEF Notice, TypeOK, OneAnswer
    <2>2. (\A x : In(x, stdout') <=> In(x, stdout) \/ x = 0) /\ Once(stdout', {0})
        BY <2>1, AppendIn
    <2>3. \A p \in Ops : Ahead(p)' <=> Ahead(p)
        BY <1>10 DEF Notice, Ahead
    <2>4. /\ id' = id /\ nextId' = nextId /\ result' = result
        BY <1>10 DEF Notice
    <2>5. \A v : Given(v)' => Given(v) \/ v = 0
        BY <2>2, <2>4 DEF Given
    <2>6. \A v \in 0..MaxId : Given(v)' => v <= nextId'
        BY <1>0, <2>4, <2>5 DEF OneAnswer
    <2> QED BY <2>2, <2>3, <2>4, <2>5, <2>6 DEF OneAnswer, OneResponsePerCall
<1>11. ASSUME DrainStderr \/ Unload \/ Close \/ ServerExits \/ UNCHANGED vars PROVE OneAnswer'
    BY <1>1, <1>11 DEF DrainStderr, Unload, Close, ServerExits, Ahead
<1> QED BY <1>2, <1>3, <1>4, <1>5, <1>6, <1>7, <1>8, <1>9, <1>10, <1>11 DEF Next

\* Nothing is under way at the start.
LEMMA InitOneAnswer == Init => OnePlace /\ OneAnswer
<1> SUFFICES ASSUME Init PROVE OnePlace /\ OneAnswer
    OBVIOUS
<1>1. stdin = <<>> /\ stdout = <<>> /\ Len(<<>>) = 0
    BY DEF Init
<1>2. (\A x : ~In(x, stdin) /\ ~In(x, stdout)) /\ Once(stdin, {}) /\ Once(stdout, {0})
    BY <1>1 DEF In, Once
<1>3. serving[1] = "none" /\ "none" \notin Ops
    BY McpAssumption DEF Init, Idle, Ops
<1>4. \A v \in 0..MaxId : ~Given(v)
    BY <1>2, OpsFinite DEF Given, Init, NoResult
<1>5. \A o \in Ops : id[o] = 0 /\ result[o] = NoResult
    BY DEF Init
<1> QED BY <1>2, <1>3, <1>4, <1>5 DEF OnePlace, OneAnswer, OneResponsePerCall
-----------------------------------------------------------------------------
(* Own responses.                                                          *)

Going(o) == pc[o] \in {"held", "made", "written"}

\* The handshake goes step by step and calls come after it; what has not ended
\* has no response, and what is sent and wants one has a number.
InTurn ==
    /\ pc["initialized"] # "new" => pc["initialize"] = "ended"
    /\ pc["list"] # "new" => pc["initialized"] = "ended"
    /\ \A c \in Calls : pc[c] # "new" => pc["list"] = "ended"
    /\ pc["initialized"] # "written"
    /\ \A o \in Ops : pc[o] # "ended" => result[o] = NoResult
    /\ \A o \in Ops \ {"initialized"} : pc[o] \in {"made", "written"} => id[o] # 0

\* At most one operation is under way; as long as the server lives, what it has
\* to answer is that operation's request; what it has printed is the answer to it.
OneGoing  == \A o, p \in Ops : Going(o) /\ Going(p) => o = p
AtServer  == alive => \A o \in Ops \ {"initialized"} :
                         In(o, stdin) \/ serving[1] = o => pc[o] = "written"
InOutput  == \A v \in 0..MaxId : In(v, stdout) => \E o \in Ops : pc[o] = "written" /\ id[o] = v
OwnResult == \A o \in Ops : result[o] \in {id[o], NoResult}
Undisturbed == ~raced /\ notices = 0
Alone == Undisturbed => OneGoing /\ AtServer /\ InOutput /\ OwnResult

\* Every step keeps to the order.
LEMMA StepInTurn == TypeOK /\ Numbers /\ InTurn /\ [Next]_vars => InTurn'
<1> SUFFICES ASSUME TypeOK, Numbers, InTurn, [Next]_vars PROVE InTurn'
    OBVIOUS
<1> USE McpAssumption DEF Ops
<1>1. ASSUME NEW c \in Calls, Lookup(c) PROVE InTurn'
    BY <1>1 DEF TypeOK, InTurn, Lookup, Offered
<1>2. ASSUME NEW o \in Ops, Request(o) PROVE InTurn'
    <2>1. nextId \in Nat /\ id'[o] = nextId + 1 /\ \A p \in Ops \ {o} : id'[p] = id[p]
        BY <1>2 DEF Request, TypeOK
    <2>2. o = "initialize" \/ o = "list" \/ o \in Calls
        BY <1>2 DEF Request
    <2>3. result' = result /\ pc' = [pc EXCEPT ![o] = pc'[o]] /\ pc'[o] \in {"made", "ended"}
          /\ (o \notin Calls => pc[o] = "new") /\ (o = "list" => pc["initialized"] = "ended")
          /\ (o \in Calls => pc[o] = "held")
        BY <1>2 DEF Request, Sent, Waiting, Ready, TypeOK
    <2> QED BY <2>1, <2>2, <2>3 DEF TypeOK, InTurn
<1>3. ASSUME Notify PROVE InTurn'
    BY <1>3 DEF TypeOK, InTurn, Notify, Sent, Ready
<1>4. ASSUME NEW o \in Ops, Write(o) PROVE InTurn'
    BY <1>4 DEF TypeOK, InTurn, Write
<1>5. ASSUME NEW o \in Ops, Read(o) PROVE InTurn'
    BY <1>5 DEF TypeOK, InTurn, Read
<1>6. ASSUME UNCHANGED <<pc, id, result>> PROVE InTurn'
    BY <1>6 DEF InTurn
<1> QED BY <1>1, <1>2, <1>3, <1>4, <1>5, <1>6 DEF Next, DrainStderr, Unload, Close,
        ServerReceive, ServerLog, ServerAnswer, Notice, ServerExits

\* A step that begins no operation and leaves the pipes alone changes nothing
\* about who is answered.
LEMMA NothingNew ==
    ASSUME TypeOK, Alone, UNCHANGED <<id, stdin, stdout, result>>, Undisturbed' => Undisturbed,
           alive' => alive, serving'[1] = serving[1], \A o \in Ops : Going(o)' => Going(o),
           \A o \in Ops : pc[o] = "written" => pc'[o] = "written"
    PROVE  Alone'
BY DEF Alone, OneGoing, AtServer, InOutput, OwnResult

\* Every step of an undisturbed operation keeps it so.
LEMMA StepAlone ==
    TypeOK /\ Numbers /\ OnePlace /\ OneAnswer /\ InTurn /\ Alone /\ [Next]_vars => Alone'
<1> SUFFICES ASSUME TypeOK, Numbers, OnePlace, OneAnswer, InTurn, Alone, [Next]_vars,
                    Undisturbed'
             PROVE  Alone'
    BY DEF Alone
<1>0. MaxId \in Nat /\ NoResult = MaxId + 1 /\ notices \in Nat /\ stdout \in Seq(0..MaxId)
      /\ stdin \in Seq(Ops)
    BY OpsFinite, McpAssumption DEF NoResult, TypeOK
<1>1. ASSUME NEW c \in Calls, Lookup(c) PROVE Alone'
    <2>1. Undisturbed /\ UnderWay = {}
        BY <1>1 DEF Lookup, Undisturbed
    <2>2. \A o \in Ops : ~Going(o)
        BY <1>1, <2>1, McpAssumption DEF Lookup, Offered, InTurn, UnderWay, Going, Ops
    <2>3. /\ UNCHANGED <<id, stdin, stdout, result, alive, serving>>
          /\ \A o \in Ops \ {c} : pc'[o] = pc[o]
        BY <1>1 DEF Lookup, TypeOK
    <2>4. OneGoing'
        BY <2>2, <2>3 DEF OneGoing, Going
    <2>5. \A o \in Ops : pc[o] # "written"
        BY <2>2 DEF Going
    <2> QED BY <2>1, <2>3, <2>4, <2>5 DEF Alone, AtServer, InOutput, OwnResult
<1>2. ASSUME NEW o \in Ops, Request(o) PROVE Alone'
    <2>1. /\ Undisturbed /\ o # "initialized" /\ pc[o] \in {"new", "held"}
          /\ UNCHANGED <<stdin, stdout, result, alive, serving>>
          /\ \A p \in Ops \ {o} : id'[p] = id[p] /\ pc'[p] = pc[p]
        BY <1>2 DEF Request, Sent, Waiting, TypeOK, Undisturbed
    <2>2. OneGoing
        BY <2>1 DEF Alone
    <2>3. \A p \in Ops \ {o} : ~Going(p)
        <3>1. CASE o \in Calls
            BY <1>2, <2>2, <3>1 DEF Request, Waiting, OneGoing, Going
        <3>2. CASE o \notin Calls
            BY <1>2, <3>2, McpAssumption DEF Request, Waiting, Ready, InTurn, Going, Ops, TypeOK
        <3> QED BY <3>1, <3>2
    <2>4. OneGoing'
        BY <2>1, <2>3 DEF OneGoing, Going
    <2>5. result[o] = NoResult
        BY <2>1 DEF InTurn
    <2> QED BY <2>1, <2>4, <2>5 DEF Alone, AtServer, InOutput, OwnResult
<1>3. ASSUME Notify PROVE Alone'
    <2>1. /\ Undisturbed /\ pc["initialized"] = "new" /\ pc["initialize"] = "ended"
          /\ UNCHANGED <<id, stdin, stdout, result, alive, serving>>
          /\ \A p \in Ops \ {"initialized"} : pc'[p] = pc[p]
        BY <1>3 DEF Notify, Sent, Ready, TypeOK, Undisturbed
    <2>2. \A p \in Ops \ {"initialized"} : ~Going(p)
        BY <2>1 DEF InTurn, Going, Ops
    <2>3. OneGoing'
        BY <2>1, <2>2 DEF OneGoing, Going
    <2> QED BY <2>1, <2>3 DEF Alone, AtServer, InOutput, OwnResult
<1>4. ASSUME NEW o \in Ops, Write(o) PROVE Alone'
    <2>1. /\ Undisturbed /\ pc[o] = "made"
          /\ UNCHANGED <<id, stdout, result, alive, serving>>
          /\ \A p \in Ops \ {o} : pc'[p] = pc[p]
        BY <1>4 DEF Write, TypeOK, Undisturbed
    <2>2. OneGoing'
        BY <2>1 DEF Alone, OneGoing, Going
    <2>3. AtServer'
        <3>1. CASE open /\ alive
            <4>1. /\ \A x : In(x, stdin') <=> In(x, stdin) \/ x = o
                  /\ o # "initialized" => pc'[o] = "written"
                BY <1>0, <1>4, <3>1, AppendIn DEF Write, TypeOK
            <4> QED BY <2>1, <4>1 DEF Alone, AtServer
        <3>2. CASE ~(open /\ alive)
            <4>1. stdin' = stdin /\ ~In(o, stdin) /\ serving[1] # o
                BY <1>4, <2>1, <3>2 DEF Write, OnePlace
            <4> QED BY <2>1, <4>1 DEF Alone, AtServer
        <3> QED BY <3>1, <3>2
    <2> QED BY <2>1, <2>2, <2>3 DEF Alone, InOutput, OwnResult
<1>5. ASSUME NEW o \in Ops, Read(o) PROVE Alone'
    <2>1. /\ Undisturbed /\ pc[o] = "written" /\ pc'[o] = "ended" /\ o # "initialized"
          /\ UNCHANGED <<id, stdin, alive, serving>>
          /\ \A p \in Ops \ {o} : pc'[p] = pc[p]
        BY <1>5 DEF Read, TypeOK, Undisturbed, InTurn
    <2>2. OneGoing /\ AtServer /\ InOutput /\ OwnResult
        BY <2>1 DEF Alone
    <2>3. OneGoing'
        BY <2>1, <2>2 DEF OneGoing, Going
    <2>4. \A p \in Ops : pc[p] = "written" => p = o
        BY <2>1, <2>2 DEF OneGoing, Going
    <2>5. CASE stdout = <<>> /\ ~alive /\ UNCHANGED <<stdout, result>>
        <3>1. \A v : ~In(v, stdout)
            BY <2>5 DEF In
        <3> QED BY <2>1, <2>2, <2>3, <2>5, <3>1 DEF Alone, AtServer, InOutput, OwnResult
    <2>6. CASE stdout # <<>> /\ stdout' = Tail(stdout)
               /\ result' = [result EXCEPT ![o] = Head(stdout)]
        <3>1. /\ Head(stdout) \in 0..MaxId /\ In(Head(stdout), stdout)
              /\ \A x : In(x, stdout') => In(x, stdout)
              /\ In(Head(stdout), stdout') => Head(stdout) = 0
            BY <1>0, <2>6, TailIn, HeadTailProperties DEF OneAnswer
        <3>2. Head(stdout) = id[o] /\ id[o] # 0
            BY <2>1, <2>2, <2>4, <3>1 DEF InOutput, InTurn
        <3>3. \A v \in 0..MaxId : ~In(v, stdout')
            BY <2>2, <2>4, <3>1, <3>2 DEF InOutput
        <3>4. ~Ahead(o)
            BY <3>1, <3>2 DEF OneAnswer, Given
        <3>5. AtServer'
            BY <2>1, <2>2, <2>4, <3>4 DEF AtServer, Ahead
        <3>6. OwnResult'
            BY <2>1, <2>2, <2>6, <3>2 DEF OwnResult, TypeOK
        <3> QED BY <2>3, <3>3, <3>5, <3>6 DEF Alone, InOutput
    <2> QED BY <1>5, <2>5, <2>6 DEF Read
<1>6. ASSUME ServerReceive PROVE Alone'
    <2>1. /\ Undisturbed /\ stdin # <<>> /\ stdin' = Tail(stdin) /\ serving'[1] = Head(stdin)
          /\ UNCHANGED <<id, pc, stdout, result, alive>>
        BY <1>6 DEF ServerReceive, Undisturbed
    <2>2. In(Head(stdin), stdin) /\ \A x : In(x, stdin') => In(x, stdin)
        BY <1>0, <2>1, TailIn
    <2> QED BY <2>1, <2>2 DEF Alone, OneGoing, Going, AtServer, InOutput, OwnResult
<1>7. ASSUME ServerAnswer PROVE Alone'
    <2> DEFINE o == serving[1]
    <2>1. /\ o \in Ops /\ serving'[1] = "none" /\ "none" \notin Ops /\ Undisturbed /\ alive
          /\ UNCHANGED <<id, pc, stdin, result, alive>>
        BY <1>7, McpAssumption DEF ServerAnswer, Idle, Ops, TypeOK, Undisturbed
    <2>2. stdout' = IF o = "initialized" THEN stdout ELSE Append(stdout, id[o])
        BY <1>7, <2>1, ResponseType DEF ServerAnswer
    <2>3. o # "initialized" => pc[o] = "written"
        BY <2>1 DEF Alone, AtServer
    <2> HIDE DEF o
    <2>4. id[o] \in 0..MaxId
        BY <2>1 DEF TypeOK
    <2>5. \A x : In(x, stdout') => In(x, stdout) \/ (o # "initialized" /\ x = id[o])
        BY <1>0, <2>2, <2>4, AppendIn
    <2>6. InOutput'
        BY <2>1, <2>3, <2>5 DEF Alone, InOutput
    <2> QED BY <2>1, <2>6 DEF Alone, OneGoing, Going, AtServer, OwnResult
<1>8. ASSUME Notice PROVE Alone'
    BY <1>0, <1>8 DEF Notice, Undisturbed
<1>9. ASSUME DrainStderr \/ Unload \/ Close \/ ServerExits \/ UNCHANGED vars PROVE Alone'
    BY <1>9, NothingNew DEF DrainStderr, Unload, Close, ServerExits, Undisturbed, Going
<1>10. ASSUME ServerLog PROVE Alone'
    BY <1>10, NothingNew DEF ServerLog, Undisturbed, Going
<1> QED BY <1>1, <1>2, <1>3, <1>4, <1>5, <1>6, <1>7, <1>8, <1>9, <1>10 DEF Next

\* Nothing is under way at the start.
LEMMA InitAlone == Init => InTurn /\ Alone
<1> SUFFICES ASSUME Init PROVE InTurn /\ Alone
    OBVIOUS
<1>1. (\A x : ~In(x, stdin) /\ ~In(x, stdout)) /\ serving[1] = "none" /\ "none" \notin Ops
    BY McpAssumption DEF Init, In, Idle, Ops
<1>2. \A o \in Ops : pc[o] = "new" /\ result[o] = NoResult
    BY DEF Init
<1>3. InTurn
    BY <1>2 DEF InTurn, Ops
<1>4. Alone
    BY <1>1, <1>2 DEF Alone, OneGoing, Going, AtServer, InOutput, OwnResult
<1> QED BY <1>3, <1>4

\* An operation never takes the response that another one got and, as long as
\* calls do not overlap and the server prints no notification, gets its own.
THEOREM ResponsesCorrect == Spec => []Responses
<1> DEFINE IInv == TypeOK /\ Numbers /\ OnePlace /\ OneAnswer /\ InTurn /\ Alone
<1>1. Init => IInv
    BY InitType, InitNumbers, InitOneAnswer, InitAlone
<1>2. IInv /\ [Next]_vars => IInv'
    BY StepType, StepNumbers, StepOnePlace, StepOneAnswer, StepInTurn, StepAlone
<1>3. IInv => Responses
    BY DEF OneAnswer, Alone, Undisturbed, OwnResult, OwnResponse, Responses
<1> QED BY <1>1, <1>2, <1>3, PTL DEF Spec
-----------------------------------------------------------------------------
(* The handshake.                                                          *)

\* The messages written to the server, in order: those it has seen come first.
WayLen == Len(seen) + Len(stdin)
Way(i) == IF i <= Len(seen) THEN seen[i] ELSE stdin[i - Len(seen)]

\* As long as the server lives, each step of the handshake has been written before
\* the next one, and no call before the last of them.
HandshakeSent ==
    /\ \A i \in 1..3 : i <= WayLen => Way(i) = Handshake[i]
    /\ alive => /\ open
                /\ pc["initialize"] \in {"new", "made"} => WayLen = 0
                /\ pc["initialize"] \in {"written", "ended"} /\ pc["initialized"] \in {"new", "made"}
                   => WayLen = 1
                /\ pc["initialized"] = "ended" /\ pc["list"] \in {"new", "made"} => WayLen = 2
                /\ pc["list"] \in {"written", "ended"} => WayLen >= 3

LEMMA InitHandshake == Init => HandshakeSent
<1> SUFFICES ASSUME Init PROVE HandshakeSent
    OBVIOUS
<1>1. /\ WayLen = 0 /\ open /\ pc["initialize"] = "new" /\ pc["initialized"] = "new"
      /\ pc["list"] = "new"
    BY DEF Init, WayLen, Ops
<1> QED BY <1>1 DEF HandshakeSent

\* A message that is written goes behind all others.
LEMMA WayWritten ==
    ASSUME TypeOK, NEW o \in Ops, stdin' = Append(stdin, o), seen' = seen
    PROVE  /\ WayLen \in Nat /\ WayLen' = WayLen + 1
           /\ \A i : i = WayLen + 1 => Way(i)' = o
           /\ \A i \in 1..WayLen : Way(i)' = Way(i)
<1>1. stdin \in Seq(Ops) /\ seen \in Seq(Ops) /\ Len(stdin) \in Nat /\ Len(seen) \in Nat
    BY LenProperties DEF TypeOK
<1>2. /\ Len(stdin') = Len(stdin) + 1 /\ stdin'[Len(stdin) + 1] = o
      /\ \A i \in 1..Len(stdin) : stdin'[i] = stdin[i]
    BY <1>1, AppendProperties
<1>3. WayLen \in Nat /\ WayLen' = WayLen + 1
    BY <1>1, <1>2 DEF WayLen
<1>4. ASSUME NEW i, i = WayLen + 1 PROVE Way(i)' = o
    <2>1. ~(i <= Len(seen)) /\ i - Len(seen) = Len(stdin) + 1
        BY <1>1, <1>4 DEF WayLen
    <2> QED BY <1>2, <2>1 DEF Way
<1>5. ASSUME NEW i \in 1..WayLen PROVE Way(i)' = Way(i)
    <2>1. i <= Len(seen) \/ i - Len(seen) \in 1..Len(stdin)
        BY <1>1, <1>5 DEF WayLen
    <2> QED BY <1>2, <2>1 DEF Way
<1> QED BY <1>3, <1>4, <1>5

\* A message that is read stays where it is in this order.
LEMMA WayRead ==
    ASSUME TypeOK, stdin # <<>>, stdin' = Tail(stdin), seen' = Append(seen, Head(stdin))
    PROVE  WayLen' = WayLen /\ \A i \in 1..WayLen : Way(i)' = Way(i)
<1>1. stdin \in Seq(Ops) /\ seen \in Seq(Ops) /\ Len(stdin) \in Nat /\ Len(seen) \in Nat
    BY LenProperties DEF TypeOK
<1>2. Len(stdin) > 0 /\ Head(stdin) = stdin[1] /\ Head(stdin) \in Ops
    <2>1. Len(stdin) > 0
        BY <1>1, EmptySeq
    <2>2. Head(stdin) \in Ops
        BY <1>1, HeadTailProperties
    <2>3. Head(stdin) = stdin[1]
        BY <1>1
    <2> QED BY <2>1, <2>2, <2>3
<1>3. Len(stdin') = Len(stdin) - 1 /\ \A i \in 1..(Len(stdin) - 1) : stdin'[i] = stdin[i + 1]
    BY <1>1, HeadTailProperties
<1>4. /\ Len(seen') = Len(seen) + 1 /\ seen'[Len(seen) + 1] = stdin[1]
      /\ \A i \in 1..Len(seen) : seen'[i] = seen[i]
    BY <1>1, <1>2, AppendProperties
<1>5. WayLen' = WayLen
    BY <1>1, <1>3, <1>4 DEF WayLen
<1>6. ASSUME NEW i \in 1..WayLen PROVE Way(i)' = Way(i)
    <2>0. i \in Nat /\ 1 <= i /\ i <= Len(seen) + Len(stdin)
        BY <1>1, <1>6 DEF WayLen
    <2>1. CASE i <= Len(seen)
        BY <1>1, <1>4, <2>0, <2>1 DEF Way
    <2>2. CASE i = Len(seen) + 1
        BY <1>1, <1>4, <2>2 DEF Way
    <2>3. CASE i > Len(seen) + 1
        <3>1. ~(i <= Len(seen)) /\ ~(i <= Len(seen'))
            BY <1>1, <1>4, <2>0, <2>3
        <3>2. i - Len(seen') \in 1..(Len(stdin) - 1) /\ (i - Len(seen')) + 1 = i - Len(seen)
            BY <1>1, <1>4, <2>0, <2>3
        <3> QED BY <1>3, <3>1, <3>2 DEF Way
    <2> QED BY <1>1, <2>0, <2>1, <2>2, <2>3
<1> QED BY <1>5, <1>6

\* Every step keeps to the handshake.
LEMMA StepHandshake == TypeOK /\ InTurn /\ HandshakeSent /\ [Next]_vars => HandshakeSent'
<1> SUFFICES ASSUME TypeOK, InTurn, HandshakeSent, [Next]_vars PROVE HandshakeSent'
    OBVIOUS
<1>0. /\ WayLen \in Nat /\ {"initialize", "initialized", "list"} \subseteq Ops
      /\ Calls \cap {"initialize", "initialized", "list"} = {}
    <2>1. Len(stdin) \in Nat /\ Len(seen) \in Nat
        BY LenProperties DEF TypeOK
    <2> QED BY <2>1, McpAssumption DEF WayLen, Ops
<1>1. ASSUME WayLen' = WayLen, \A i \in 1..WayLen : Way(i)' = Way(i),
             alive' => alive, open' = open \/ ~alive',
             alive => \A o \in {"initialize", "initialized", "list"} :
                 \/ pc'[o] = pc[o]
                 \/ pc[o] = "new" /\ pc'[o] = "made"
                 \/ pc[o] = "written" /\ pc'[o] = "ended"
      PROVE  HandshakeSent'
    <2>1. \A i \in 1..3 : i <= WayLen' => Way(i)' = Handshake[i]
        <3>1. \A i \in 1..3 : i <= WayLen => i \in 1..WayLen
            BY <1>0
        <3> QED BY <1>1, <3>1 DEF HandshakeSent
    <2>2. pc["initialized"] # "written"
        BY DEF InTurn
    <2> QED BY <1>1, <2>1, <2>2 DEF HandshakeSent
<1>2. ASSUME UNCHANGED <<stdin, seen>> PROVE WayLen' = WayLen /\ \A i : Way(i)' = Way(i)
    BY <1>2 DEF WayLen, Way
<1>3. ASSUME NEW c \in Calls, Lookup(c) PROVE HandshakeSent'
    <2>1. \A o \in {"initialize", "initialized", "list"} : pc'[o] = pc[o]
        BY <1>0, <1>3 DEF Lookup, TypeOK
    <2> QED BY <1>1, <1>2, <1>3, <2>1 DEF Lookup
<1>4. ASSUME NEW o \in Ops, Request(o) PROVE HandshakeSent'
    <2>1. /\ \A p \in Ops \ {o} : pc'[p] = pc[p]
          /\ alive => pc'[o] = "made" /\ (o \notin Calls => pc[o] = "new")
        BY <1>4 DEF Request, Sent, Waiting, TypeOK, HandshakeSent
    <2> QED BY <1>0, <1>1, <1>2, <1>4, <2>1 DEF Request
<1>5. ASSUME Notify PROVE HandshakeSent'
    <2>1. /\ \A p \in Ops \ {"initialized"} : pc'[p] = pc[p]
          /\ pc["initialized"] = "new" /\ (alive => pc'["initialized"] = "made")
        BY <1>0, <1>5 DEF Notify, Sent, TypeOK, HandshakeSent
    <2> QED BY <1>0, <1>1, <1>2, <1>5, <2>1 DEF Notify
<1>6. ASSUME NEW o \in Ops, Write(o) PROVE HandshakeSent'
    <2>1. /\ pc[o] = "made" /\ alive' = alive /\ open' = open /\ seen' = seen
          /\ pc' = [pc EXCEPT ![o] = IF open /\ alive /\ o # "initialized" THEN "written" ELSE "ended"]
          /\ stdin' = IF open /\ alive THEN Append(stdin, o) ELSE stdin
        BY <1>6 DEF Write
    <2>2. CASE ~alive
        BY <1>1, <1>2, <2>1, <2>2
    <2>3. CASE alive
        <3>1. open /\ stdin' = Append(stdin, o)
            BY <2>1, <2>3 DEF HandshakeSent
        <3>2. /\ WayLen' = WayLen + 1 /\ \A i : i = WayLen + 1 => Way(i)' = o
              /\ \A i \in 1..WayLen : Way(i)' = Way(i)
            BY <2>1, <3>1, WayWritten
        <3>3. \A i \in 1..3 : i <= WayLen => Way(i)' = Handshake[i]
            <4>1. \A i \in 1..3 : i <= WayLen => i \in 1..WayLen
                BY <1>0
            <4> QED BY <3>2, <4>1 DEF HandshakeSent
        <3>4. Handshake[1] = "initialize" /\ Handshake[2] = "initialized" /\ Handshake[3] = "list"
            BY DEF Handshake
        <3>5. pc'[o] = IF o = "initialized" THEN "ended" ELSE "written"
            BY <2>1, <2>3, <3>1 DEF TypeOK
        <3>6. \A p \in Ops \ {o} : pc'[p] = pc[p]
            BY <2>1 DEF TypeOK
        <3>7. CASE o = "initialize"
            <4>1. WayLen = 0 /\ pc["initialized"] = "new" /\ pc["list"] = "new"
                BY <2>1, <2>3, <3>7 DEF HandshakeSent, InTurn
            <4>2. \A i \in 1..3 : i <= WayLen' => Way(i)' = Handshake[i]
                BY <3>2, <3>4, <3>7, <4>1
            <4> QED BY <1>0, <2>1, <2>3, <3>1, <3>2, <3>5, <3>6, <3>7, <4>1, <4>2
                    DEF HandshakeSent
        <3>8. CASE o = "initialized"
            <4>1. WayLen = 1 /\ pc["initialize"] = "ended" /\ pc["list"] = "new"
                BY <2>1, <2>3, <3>8 DEF HandshakeSent, InTurn
            <4>2. \A i \in 1..3 : i <= WayLen' => Way(i)' = Handshake[i]
                BY <3>2, <3>3, <3>4, <3>8, <4>1
            <4> QED BY <1>0, <2>1, <2>3, <3>1, <3>2, <3>5, <3>6, <3>8, <4>1, <4>2
                    DEF HandshakeSent
        <3>9. CASE o = "list"
            <4>1. WayLen = 2 /\ pc["initialize"] = "ended" /\ pc["initialized"] = "ended"
                BY <2>1, <2>3, <3>9 DEF HandshakeSent, InTurn
            <4>2. \A i \in 1..3 : i <= WayLen' => Way(i)' = Handshake[i]
                BY <3>2, <3>3, <3>4, <3>9, <4>1
            <4> QED BY <1>0, <2>1, <2>3, <3>1, <3>2, <3>5, <3>6, <3>9, <4>1, <4>2
                    DEF HandshakeSent
        <3>10. CASE o \in Calls
            <4>1. /\ pc["list"] = "ended" /\ pc["initialized"] = "ended" /\ pc["initialize"] = "ended"
                  /\ WayLen >= 3
                BY <2>1, <2>3, <3>10 DEF HandshakeSent, InTurn
            <4>2. \A i \in 1..3 : i <= WayLen' => Way(i)' = Handshake[i]
                BY <1>0, <3>2, <3>3, <4>1
            <4> QED BY <1>0, <2>1, <2>3, <3>1, <3>2, <3>6, <3>10, <4>1, <4>2 DEF HandshakeSent
        <3> QED BY <3>7, <3>8, <3>9, <3>10 DEF Ops
    <2> QED BY <2>2, <2>3
<1>7. ASSUME NEW o \in Ops, Read(o) PROVE HandshakeSent'
    <2>1. pc[o] = "written" /\ pc'[o] = "ended" /\ \A p \in Ops \ {o} : pc'[p] = pc[p]
        BY <1>7 DEF Read, TypeOK
    <2> QED BY <1>0, <1>1, <1>2, <1>7, <2>1 DEF Read
<1>8. ASSUME ServerReceive PROVE HandshakeSent'
    <2>1. WayLen' = WayLen /\ \A i \in 1..WayLen : Way(i)' = Way(i)
        BY <1>8, WayRead DEF ServerReceive
    <2> QED BY <1>1, <1>8, <2>1 DEF ServerReceive
<1>9. ASSUME DrainStderr \/ Unload \/ Close \/ ServerLog \/ ServerAnswer \/ Notice \/ ServerExits
             \/ UNCHANGED vars
      PROVE  HandshakeSent'
    <2>1. UNCHANGED <<pc, stdin, seen>> /\ (alive' => alive) /\ (open' = open \/ ~alive')
        BY <1>9 DEF DrainStderr, Unload, Close, ServerLog, ServerAnswer, Notice, ServerExits
    <2> QED BY <1>1, <1>2, <2>1
<1> QED BY <1>3, <1>4, <1>5, <1>6, <1>7, <1>8, <1>9 DEF Next

\* What the server has seen is the beginning of what was written.
LEMMA HandshakeSeen == TypeOK /\ HandshakeSent => HandshakeFirst
<1> SUFFICES ASSUME TypeOK, HandshakeSent PROVE HandshakeFirst
    OBVIOUS
<1> DEFINE n == Len(seen)
           k == IF n <= 3 THEN n ELSE 3
<1>1. seen \in Seq(Ops) /\ n \in Nat /\ Len(stdin) \in Nat
    BY LenProperties DEF TypeOK
<1>2. Handshake \in Seq(Ops) /\ Len(Handshake) = 3
    BY DEF Handshake, Ops
<1>3. \A i \in 1..k : seen[i] = Handshake[i] /\ seen[i] \in Ops /\ Handshake[i] \in Ops
    <2> SUFFICES ASSUME NEW i \in 1..k
                 PROVE  seen[i] = Handshake[i] /\ seen[i] \in Ops
        OBVIOUS
    <2>1. i \in 1..3 /\ i \in 1..n /\ i <= WayLen
        BY <1>1 DEF WayLen
    <2> QED BY <1>1, <2>1, ElementOfSeq DEF HandshakeSent, Way
<1> HIDE DEF k, n
<1>4. k \in Nat
    BY <1>1 DEF k
<1>5. SubSeq(seen, 1, k) = SubSeq(Handshake, 1, k)
    <2> DEFINE s == SubSeq(seen, 1, k)
               t == SubSeq(Handshake, 1, k)
    <2>1. 1 \in Int /\ k \in Int
        BY <1>4
    <2>2. /\ s \in Seq(Ops) /\ Len(s) = IF 1 <= k THEN k - 1 + 1 ELSE 0
          /\ \A i \in 1..(k - 1 + 1) : s[i] = seen[1 + i - 1]
        BY <1>3, <2>1, SubSeqProperties
    <2>3. /\ t \in Seq(Ops) /\ Len(t) = IF 1 <= k THEN k - 1 + 1 ELSE 0
          /\ \A i \in 1..(k - 1 + 1) : t[i] = Handshake[1 + i - 1]
        BY <1>3, <2>1, SubSeqProperties
    <2> HIDE DEF s, t
    <2>4. k - 1 + 1 = k /\ \A i \in 1..k : 1 + i - 1 = i
        BY <1>4
    <2>5. Len(s) = k /\ Len(t) = k
        BY <1>4, <2>2, <2>3, <2>4
    <2>6. \A i \in 1..Len(s) : s[i] = t[i]
        BY <1>3, <2>2, <2>3, <2>4, <2>5
    <2>7. s = t
        BY <2>2, <2>3, <2>5, <2>6, SeqEqual
    <2> QED BY <2>7 DEF s, t
<1>6. CASE n <= 3
    BY <1>1, <1>2, <1>5, <1>6 DEF HandshakeFirst, IsPrefix, k, n
<1>7. CASE ~(n <= 3)
    BY <1>1, <1>2, <1>5, <1>7 DEF HandshakeFirst, IsPrefix, k, n
<1> QED BY <1>6, <1>7

\* The server handles initialize, initialized and tools/list, in this order,
\* before any call, whatever the client reads for an answer.
THEOREM HandshakeFirstCorrect == Spec => []HandshakeFirst
<1> DEFINE IInv == TypeOK /\ Numbers /\ OnePlace /\ OneAnswer /\ InTurn /\ Alone /\ HandshakeSent
<1>1. Init => IInv
    BY InitType, InitNumbers, InitOneAnswer, InitAlone, InitHandshake
<1>2. IInv /\ [Next]_vars => IInv'
    BY StepType, StepNumbers, StepOnePlace, StepOneAnswer, StepInTurn, StepAlone, StepHandshake
<1>3. IInv => HandshakeFirst
    BY HandshakeSeen
<1> QED BY <1>1, <1>2, <1>3, PTL DEF Spec
=============================================================================
