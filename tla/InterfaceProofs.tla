---------------------------- MODULE InterfaceProofs ---------------------------
(***************************************************************************)
(* Proofs about what connects the agent to the outside.                    *)
(*                                                                         *)
(* StreamBridge: its type invariant, that there is one loop thread, and    *)
(* that a finished download is whole, for every set of streams and         *)
(* requests and every number of chunks.                                    *)
(*                                                                         *)
(* Channel: its type invariant, that session.json can be read, that a turn *)
(* answers in context, and that the cursor stands where it should, for     *)
(* every set of users and any number of messages, logins and starts.       *)
(***************************************************************************)
EXTENDS StreamBridge, Channel, FiniteSetTheorems, SequenceTheorems, WellFoundedInduction, TLAPS

USE DEF starting
-----------------------------------------------------------------------------
(* Type correctness.                                                       *)

\* A blocked loop thread is told from a free one.
LEMMA BlockedNotFree == \A b \in Streams \X Items : b # Free
BY DEF Free

\* A put keeps the queues and the loop thread well typed.
LEMMA PutType ==
    ASSUME TypeOK, NEW s \in Streams, NEW item \in Items, Put(s, item), blocked = Free
    PROVE  /\ queue' \in [Streams -> Seq(Items)]
           /\ \A r \in Streams : Len(queue'[r]) <= QueueSize
           /\ blocked' = Free \/ blocked' \in Streams \X Items
<1>1. CASE Len(queue[s]) < QueueSize
    <2>1. Append(queue[s], item) \in Seq(Items) /\ Len(Append(queue[s], item)) = Len(queue[s]) + 1
        BY AppendProperties DEF TypeOK
    <2>2. queue' = [queue EXCEPT ![s] = Append(queue[s], item)] /\ blocked' = blocked
        BY <1>1 DEF Put
    <2>3. \A r \in Streams : Len(queue'[r]) <= QueueSize
        BY <1>1, <2>1, <2>2, LenProperties DEF TypeOK, QueueSize
    <2> QED BY <2>1, <2>2, <2>3 DEF TypeOK
<1>2. CASE ~(Len(queue[s]) < QueueSize)
    BY <1>2 DEF TypeOK, Put
<1> QED BY <1>1, <1>2

\* Taking the head of a queue keeps the queues well typed.
LEMMA TailType ==
    ASSUME TypeOK, NEW s \in Streams, queue[s] # <<>>, queue' = [queue EXCEPT ![s] = Tail(@)]
    PROVE  /\ queue' \in [Streams -> Seq(Items)]
           /\ \A r \in Streams : Len(queue'[r]) <= QueueSize
           /\ Head(queue[s]) \in Items
<1>1. Tail(queue[s]) \in Seq(Items) /\ Len(Tail(queue[s])) = Len(queue[s]) - 1
      /\ Head(queue[s]) \in Items
    BY HeadTailProperties DEF TypeOK
<1> QED BY <1>1, LenProperties DEF TypeOK, QueueSize

\* The process starts well typed.
LEMMA InitType == Init => TypeOK
<1> SUFFICES ASSUME Init PROVE TypeOK
    OBVIOUS
<1>1. queue \in [Streams -> Seq(Items)] /\ file \in [Streams -> Seq(1..MaxChunks)]
    BY EmptySeq DEF Init
<1>2. \A s \in Streams : Len(queue[s]) <= QueueSize
    BY EmptySeq DEF Init, QueueSize
<1>3. body \in [Streams -> 0..MaxChunks]
    BY StreamAssumption DEF Init, StreamAssumption
<1>4. /\ prod \in [Streams -> {"none"}] /\ cons \in [Streams -> {"new"}]
      /\ req \in [Requests -> {"new"}] /\ start \in [Callers -> {"out"}]
    BY DEF Init
<1>5. blocked = Free /\ lock = Free /\ started \in BOOLEAN /\ loops \in Nat
    BY DEF Init
<1> QED BY <1>1, <1>2, <1>3, <1>4, <1>5 DEF TypeOK

\* Every step keeps the types.
LEMMA NextType == TypeOK /\ [Next]_vars => TypeOK'
<1> SUFFICES ASSUME TypeOK, [Next]_vars PROVE TypeOK'
    OBVIOUS
<1>1. CASE Unblock
    <2>1. blocked \in Streams \X Items
        BY <1>1 DEF TypeOK, Unblock
    <2>2. /\ blocked[1] \in Streams /\ blocked[2] \in Items
          /\ Append(queue[blocked[1]], blocked[2]) \in Seq(Items)
          /\ Len(Append(queue[blocked[1]], blocked[2])) = Len(queue[blocked[1]]) + 1
        BY <2>1, AppendProperties DEF TypeOK
    <2> QED BY <1>1, <2>2, LenProperties DEF TypeOK, Unblock, QueueSize
<1>2. ASSUME NEW s \in Streams, Respond(s) PROVE TypeOK'
    <2>1. Item("response") \in Items /\ Item("error") \in Items
        BY DEF Items
    <2>2. PICK item \in Items : Put(s, item)
        BY <1>2, <2>1 DEF Respond
    <2> QED BY <1>2, <2>2, PutType DEF TypeOK, Respond
<1>3. ASSUME NEW s \in Streams, Produce(s) PROVE TypeOK'
    <2>0. Item("done") \in Items /\ Item("error") \in Items
        BY DEF Items
    <2>1. body[s] < MaxChunks => Chunk(body[s] + 1) \in Items
        <3>1. body[s] < MaxChunks => body[s] + 1 \in 1..MaxChunks
            BY StreamAssumption DEF TypeOK, StreamAssumption
        <3> QED BY <3>1 DEF Items
    <2>2. PICK item \in Items : Put(s, item)
        BY <1>3, <2>0, <2>1 DEF Produce
    <2>3. body' \in [Streams -> 0..MaxChunks] /\ blocked = Free
        <3>1. body[s] < MaxChunks => body[s] + 1 \in 0..MaxChunks
            BY StreamAssumption DEF TypeOK, StreamAssumption
        <3>2. \/ body' = [body EXCEPT ![s] = body[s] + 1] /\ body[s] < MaxChunks
              \/ body' = body
            BY <1>3 DEF Produce
        <3> QED BY <1>3, <3>1, <3>2 DEF TypeOK, Produce
    <2>4. prod' \in [Streams -> {"none", "started", "body", "ended"}]
        BY <1>3 DEF TypeOK, Produce
    <2> QED BY <1>3, <2>2, <2>3, <2>4, PutType DEF TypeOK, Produce
<1>4. ASSUME NEW s \in Streams, Enter(s) PROVE TypeOK'
    BY <1>4, TailType DEF TypeOK, Enter
<1>5. ASSUME NEW s \in Streams, Read(s) PROVE TypeOK'
    <2>1. Head(queue[s]) \in Items
        BY <1>5, TailType DEF Read
    <2>2. Head(queue[s]).kind = "chunk" => Head(queue[s]).n \in 1..MaxChunks
        BY <2>1 DEF Items, Item, Chunk
    <2>3. file' \in [Streams -> Seq(1..MaxChunks)]
        BY <1>5, <2>2, AppendProperties DEF Read, TypeOK
    <2> QED BY <1>5, <2>3, TailType DEF TypeOK, Read
<1>6. CASE \E s \in Streams : Open(s) \/ Leave(s)
    BY <1>6 DEF TypeOK, Open, Leave
<1>7. CASE \E r \in Requests : Serve(r) \/ Call(r)
    BY <1>7 DEF TypeOK, Serve, Call
<1>8. CASE \E c \in Callers : EnsureStarted(c)
    <2> PICK c \in Callers : EnsureStarted(c)
        BY <1>8
    <2>1. CASE CheckStarted(c)
        BY <2>1 DEF TypeOK, CheckStarted
    <2>2. CASE Lock(c)
        BY <2>2 DEF TypeOK, Lock
    <2>3. CASE MakeLoop(c)
        BY <2>3 DEF TypeOK, MakeLoop
    <2>4. CASE Publish(c)
        BY <2>4 DEF TypeOK, Publish
    <2> QED BY <2>1, <2>2, <2>3, <2>4 DEF EnsureStarted
<1>9. CASE UNCHANGED vars
    BY <1>9 DEF TypeOK, vars
<1> QED BY <1>1, <1>2, <1>3, <1>4, <1>5, <1>6, <1>7, <1>8, <1>9 DEF Next, Loop

\* Queues, threads and files have their types in every reachable state; no
\* stream ever buffers more than two items.
THEOREM TypeCorrect == Spec => []TypeOK
BY InitType, NextType, PTL DEF Spec
-----------------------------------------------------------------------------
(* One loop.                                                               *)

\* Whoever is behind the lock holds it, and _started tells that there is a loop:
\* the holder that has made it is the only one for whom the two differ.
StartInv ==
    /\ \A c \in Callers : start[c] \in {"locked", "made"} => lock = c
    /\ \A c \in Callers : start[c] \in {"made", "passed"} => loops = 1
    /\ started => loops = 1
    /\ ~started => loops = 0 \/ (lock \in Callers /\ start[lock] = "made")
    /\ loops \in {0, 1}

\* Only the first caller that gets the lock makes a loop.
LEMMA StartStep == TypeOK /\ StartInv /\ [Next]_vars => StartInv'
<1> SUFFICES ASSUME TypeOK, StartInv, [Next]_vars PROVE StartInv'
    OBVIOUS
<1>1. ASSUME NEW c \in Callers, CheckStarted(c) PROVE StartInv'
    BY <1>1 DEF StartInv, TypeOK, CheckStarted
<1>2. ASSUME NEW c \in Callers, Lock(c) PROVE StartInv'
    BY <1>2, StreamAssumption DEF StartInv, TypeOK, Lock, Free, Callers, StreamAssumption
<1>3. ASSUME NEW c \in Callers, MakeLoop(c) PROVE StartInv'
    BY <1>3 DEF StartInv, TypeOK, MakeLoop
<1>4. ASSUME NEW c \in Callers, Publish(c) PROVE StartInv'
    BY <1>4 DEF StartInv, TypeOK, Publish
<1>5. CASE UNCHANGED starting
    BY <1>5 DEF StartInv
<1>6. CASE Unblock \/ (\E s \in Streams : Respond(s) \/ Produce(s) \/ Open(s) \/ Enter(s) \/ Read(s) \/ Leave(s))
    BY <1>5, <1>6 DEF Unblock, Respond, Produce, Open, Enter, Read, Leave
<1>7. CASE \E r \in Requests : Serve(r) \/ Call(r)
    BY <1>5, <1>7 DEF Serve, Call
<1>8. CASE UNCHANGED vars
    BY <1>5, <1>8 DEF vars
<1> QED BY <1>1, <1>2, <1>3, <1>4, <1>6, <1>7, <1>8 DEF Next, Loop, EnsureStarted

\* The process has at most one loop thread, and every call that passes
\* _ensure_started finds it.
THEOREM OneLoopCorrect == Spec => []OneLoop
<1>1. Init => StartInv
    BY DEF Init, StartInv
<1>2. StartInv => OneLoop
    BY DEF StartInv, OneLoop
<1> QED BY <1>1, <1>2, StartStep, TypeCorrect, PTL DEF Spec
-----------------------------------------------------------------------------
(* Whole downloads.                                                        *)

\* What is on its way to the consumer of s: its queue and the item the loop
\* thread waits to put there.
OnTheWay(s) == IF blocked # Free /\ blocked[1] = s THEN Append(queue[s], blocked[2]) ELSE queue[s]

\* The chunks from the n-th on, and what ends a body.
Chunks(q, from, to, n) == \A i \in from..to : q[i] = Chunk(n + i - from)
Ends(q) == q[Len(q)] \in {Item("done"), Item("error")}

\* What the producer, at p after b chunks, has put and a consumer that waits for
\* the first item has before it: q; the same for one that has read got chunks.
Waiting(p, b, q) ==
    \/ p = "started" /\ q = <<>> /\ b = 0
    \/ p = "ended" /\ q[1] = Item("error")
    \/ p = "body" /\ Len(q) = b + 1 /\ q[1] = Item("response") /\ Chunks(q, 2, Len(q), 1)
    \/ p = "ended" /\ Len(q) = b + 2 /\ q[1] = Item("response")
       /\ Chunks(q, 2, Len(q) - 1, 1) /\ Ends(q)
Reading(p, b, q, got) ==
    \/ p = "body" /\ got + Len(q) = b /\ Chunks(q, 1, Len(q), got + 1)
    \/ p = "ended" /\ got + Len(q) = b + 1 /\ Chunks(q, 1, Len(q) - 1, got + 1) /\ Ends(q)

UpTo(n) == [i \in 1..n |-> i]

\* Producer, consumer and what is between them fit together.
Fits(p, c, b, f, q) ==
    /\ c = "new" => p = "none"
    /\ p \in {"none", "started"} => q = <<>> /\ b = 0
    /\ c \in {"new", "opening"} => f = <<>>
    /\ c = "opening" => Waiting(p, b, q)
    /\ c = "inside" => f = UpTo(Len(f)) /\ Reading(p, b, q, Len(f))
    /\ c = "finished" => p = "ended" /\ f = UpTo(b)

Shape(s) == Fits(prod[s], cons[s], body[s], file[s], OnTheWay(s))
ShapeInv == \A s \in Streams : Shape(s)

LEMMA WayType == TypeOK => \A s \in Streams : OnTheWay(s) \in Seq(Items)
<1> SUFFICES ASSUME TypeOK, NEW s \in Streams PROVE OnTheWay(s) \in Seq(Items)
    OBVIOUS
<1>1. blocked # Free => blocked[2] \in Items
    BY DEF TypeOK
<1>2. queue[s] \in Seq(Items)
    BY DEF TypeOK
<1>3. blocked # Free => Append(queue[s], blocked[2]) \in Seq(Items)
    BY <1>1, <1>2, AppendProperties
<1> QED BY <1>2, <1>3 DEF OnTheWay

\* A put, blocking or not, adds its item to what is on the way.
LEMMA PutWay ==
    ASSUME TypeOK, NEW s \in Streams, NEW item \in Items, blocked = Free, Put(s, item)
    PROVE  /\ OnTheWay(s)' = Append(OnTheWay(s), item)
           /\ \A r \in Streams \ {s} : OnTheWay(r)' = OnTheWay(r)
<1>1. CASE Len(queue[s]) < QueueSize
    BY <1>1 DEF OnTheWay, Put, TypeOK
<1>2. CASE ~(Len(queue[s]) < QueueSize)
    <2>1. blocked' = <<s, item>> /\ queue' = queue
        BY <1>2 DEF Put
    <2>2. blocked' # Free /\ blocked'[1] = s /\ blocked'[2] = item
        BY <2>1 DEF Free
    <2> QED BY <2>1, <2>2 DEF OnTheWay
<1> QED BY <1>1, <1>2

\* When the blocked put succeeds, nothing changes for the consumer.
LEMMA UnblockWay ==
    ASSUME TypeOK, Unblock, NEW s \in Streams
    PROVE  OnTheWay(s)' = OnTheWay(s)
<1>1. blocked \in Streams \X Items /\ blocked # Free /\ blocked' = Free
      /\ queue' = [queue EXCEPT ![blocked[1]] = Append(queue[blocked[1]], blocked[2])]
    BY DEF Unblock, TypeOK
<1>2. queue'[s] = IF s = blocked[1] THEN Append(queue[s], blocked[2]) ELSE queue[s]
    BY <1>1 DEF TypeOK
<1> QED BY <1>1, <1>2 DEF OnTheWay

\* The consumer takes the first item.
LEMMA TakeWay ==
    ASSUME TypeOK, NEW s \in Streams, queue[s] # <<>>, UNCHANGED blocked,
           queue' = [queue EXCEPT ![s] = Tail(@)]
    PROVE  /\ OnTheWay(s) # <<>> /\ OnTheWay(s)' = Tail(OnTheWay(s))
           /\ Head(queue[s]) = OnTheWay(s)[1]
           /\ \A r \in Streams \ {s} : OnTheWay(r)' = OnTheWay(r)
<1>1. queue[s] \in Seq(Items) /\ queue'[s] = Tail(queue[s])
      /\ \A r \in Streams \ {s} : queue'[r] = queue[r]
    BY DEF TypeOK
<1>2. ASSUME NEW x \in Items
      PROVE  /\ Append(queue[s], x) # <<>> /\ Tail(Append(queue[s], x)) = Append(Tail(queue[s]), x)
             /\ Append(queue[s], x)[1] = Head(queue[s])
    <2>1. Append(queue[s], x) # <<>> /\ Append(queue[s], x) \in Seq(Items)
        BY <1>1, AppendProperties
    <2>2. Head(Append(queue[s], x)) = Append(queue[s], x)[1]
        BY <2>1, HeadTailProperties
    <2> QED BY <1>1, <2>1, <2>2, HeadTailAppend
<1>3. blocked # Free => blocked[2] \in Items
    BY DEF TypeOK
<1>4. Head(queue[s]) = queue[s][1]
    BY <1>1, HeadTailProperties
<1>5. CASE blocked # Free /\ blocked[1] = s
    <2>1. /\ OnTheWay(s) = Append(queue[s], blocked[2])
          /\ OnTheWay(s)' = Append(Tail(queue[s]), blocked[2])
        BY <1>1, <1>5 DEF OnTheWay
    <2>2. \A r \in Streams \ {s} : OnTheWay(r)' = OnTheWay(r)
        BY <1>1, <1>5 DEF OnTheWay
    <2> QED BY <1>2, <1>3, <1>5, <2>1, <2>2
<1>6. CASE ~(blocked # Free /\ blocked[1] = s)
    <2>1. OnTheWay(s) = queue[s] /\ OnTheWay(s)' = Tail(queue[s])
        BY <1>1, <1>6 DEF OnTheWay
    <2>2. \A r \in Streams \ {s} : OnTheWay(r)' = OnTheWay(r)
        BY <1>1 DEF OnTheWay
    <2> QED BY <1>4, <2>1, <2>2
<1> QED BY <1>5, <1>6

\* A stream whose own state does not change keeps its shape.
LEMMA ShapeFrame ==
    ASSUME NEW s \in Streams, Shape(s), OnTheWay(s)' = OnTheWay(s),
           UNCHANGED <<prod[s], body[s], cons[s], file[s]>>
    PROVE  Shape(s)'
BY DEF Shape
-----------------------------------------------------------------------------
\* The kinds of items are told apart.
LEMMA ItemKinds ==
    /\ \A n \in Nat : Chunk(n).kind = "chunk" /\ Chunk(n).n = n
    /\ \A k : Item(k).kind = k
BY DEF Chunk, Item

\* The next chunk, for a consumer that waits or reads.
LEMMA ChunkPut ==
    ASSUME NEW b \in Nat, NEW q \in Seq(Items), Chunk(b + 1) \in Items
    PROVE  /\ Waiting("body", b, q) => Waiting("body", b + 1, Append(q, Chunk(b + 1)))
           /\ \A got \in Nat : Reading("body", b, q, got)
                                 => Reading("body", b + 1, Append(q, Chunk(b + 1)), got)
<1> DEFINE p == Append(q, Chunk(b + 1))
<1>1. /\ Len(q) \in Nat /\ Len(p) = Len(q) + 1 /\ p[Len(q) + 1] = Chunk(b + 1)
      /\ \A i \in 1..Len(q) : p[i] = q[i]
    BY AppendProperties, LenProperties
<1> HIDE DEF p
<1>2. Waiting("body", b, q) => Waiting("body", b + 1, p)
    BY <1>1 DEF Waiting, Chunks
<1>3. \A got \in Nat : Reading("body", b, q, got) => Reading("body", b + 1, p, got)
    <2> SUFFICES ASSUME NEW got \in Nat, Reading("body", b, q, got)
                 PROVE  Reading("body", b + 1, p, got)
        OBVIOUS
    <2>1. got + Len(q) = b /\ \A i \in 1..Len(q) : q[i] = Chunk(got + 1 + i - 1)
        BY DEF Reading, Chunks
    <2>2. got + Len(p) = b + 1 /\ b + 1 = got + 1 + (Len(q) + 1) - 1
        BY <1>1, <2>1
    <2>3. ASSUME NEW i \in 1..Len(p) PROVE p[i] = Chunk(got + 1 + i - 1)
        <3>1. CASE i \in 1..Len(q)
            BY <1>1, <2>1, <3>1
        <3>2. CASE i = Len(q) + 1
            BY <1>1, <2>2, <3>2
        <3> QED BY <1>1, <3>1, <3>2
    <2> QED BY <2>2, <2>3 DEF Reading, Chunks
<1> QED BY <1>2, <1>3 DEF p

\* The end of the body, or an error.
LEMMA EndPut ==
    ASSUME NEW b \in Nat, NEW q \in Seq(Items), NEW end \in {"done", "error"}, Item(end) \in Items
    PROVE  /\ Waiting("body", b, q) => Waiting("ended", b, Append(q, Item(end)))
           /\ \A got \in Nat : Reading("body", b, q, got)
                                 => Reading("ended", b, Append(q, Item(end)), got)
<1> DEFINE p == Append(q, Item(end))
<1>1. /\ Len(q) \in Nat /\ Len(p) = Len(q) + 1 /\ p[Len(q) + 1] = Item(end)
      /\ \A i \in 1..Len(q) : p[i] = q[i]
    BY AppendProperties, LenProperties
<1> HIDE DEF p
<1>2. Waiting("body", b, q) => Waiting("ended", b, p)
    BY <1>1 DEF Waiting, Chunks, Ends
<1>3. \A got \in Nat : Reading("body", b, q, got) => Reading("ended", b, p, got)
    BY <1>1 DEF Reading, Chunks, Ends
<1> QED BY <1>2, <1>3 DEF p

\* The consumer takes the response and begins to read.
LEMMA ResponseTaken ==
    ASSUME NEW p, NEW b \in Nat, NEW q \in Seq(Items), q # <<>>,
           Waiting(p, b, q), q[1].kind # "error"
    PROVE  Reading(p, b, Tail(q), 0)
<1>1. /\ Len(q) \in Nat \ {0} /\ Len(Tail(q)) = Len(q) - 1
      /\ \A i \in 1..Len(Tail(q)) : Tail(q)[i] = q[i + 1]
    BY HeadTailProperties, LenProperties, EmptySeq
<1>2. q[1] # Item("error")
    BY ItemKinds
<1>3. CASE p = "body" /\ Len(q) = b + 1 /\ Chunks(q, 2, Len(q), 1)
    <2>1. 0 + Len(Tail(q)) = b
        BY <1>1, <1>3
    <2>2. ASSUME NEW i \in 1..Len(Tail(q)) PROVE Tail(q)[i] = Chunk(0 + 1 + i - 1)
        <3>1. i + 1 \in 2..Len(q) /\ 1 + (i + 1) - 2 = 0 + 1 + i - 1
            BY <1>1
        <3> QED BY <1>1, <1>3, <3>1 DEF Chunks
    <2> QED BY <1>3, <2>1, <2>2 DEF Reading, Chunks
<1>4. CASE p = "ended" /\ Len(q) = b + 2 /\ Chunks(q, 2, Len(q) - 1, 1) /\ Ends(q)
    <2>1. 0 + Len(Tail(q)) = b + 1 /\ Tail(q)[Len(Tail(q))] = q[Len(q)]
        BY <1>1, <1>4
    <2>2. ASSUME NEW i \in 1..(Len(Tail(q)) - 1) PROVE Tail(q)[i] = Chunk(0 + 1 + i - 1)
        <3>1. i + 1 \in 2..(Len(q) - 1) /\ 1 + (i + 1) - 2 = 0 + 1 + i - 1
              /\ i \in 1..Len(Tail(q))
            BY <1>1
        <3> QED BY <1>1, <1>4, <3>1 DEF Chunks
    <2> QED BY <1>4, <2>1, <2>2 DEF Reading, Chunks, Ends
<1> QED BY <1>2, <1>3, <1>4 DEF Waiting

\* The consumer takes a chunk, or learns that there are no more.
LEMMA ItemTaken ==
    ASSUME NEW p, NEW b \in Nat, NEW q \in Seq(Items), NEW got \in Nat, q # <<>>,
           Reading(p, b, q, got)
    PROVE  /\ q[1].kind = "chunk" => /\ q[1].n = got + 1 /\ Reading(p, b, Tail(q), got + 1)
           /\ q[1].kind = "done" => p = "ended" /\ got = b
           /\ q[1].kind \in {"chunk", "done", "error"}
<1>1. /\ Len(q) \in Nat \ {0} /\ Len(Tail(q)) = Len(q) - 1
      /\ \A i \in 1..Len(Tail(q)) : Tail(q)[i] = q[i + 1]
    BY HeadTailProperties, LenProperties, EmptySeq
<1>2. Chunk(got + 1).kind = "chunk" /\ Chunk(got + 1).n = got + 1
    BY ItemKinds
<1>3. CASE p = "body"
    <2>1. got + Len(q) = b /\ Chunks(q, 1, Len(q), got + 1)
        BY <1>3 DEF Reading
    <2>2. q[1] = Chunk(got + 1)
        BY <1>1, <2>1 DEF Chunks
    <2>3. Reading(p, b, Tail(q), got + 1)
        BY <1>1, <1>3, <2>1 DEF Reading, Chunks
    <2> QED BY <1>2, <2>2, <2>3
<1>4. CASE p = "ended"
    <2>1. got + Len(q) = b + 1 /\ Chunks(q, 1, Len(q) - 1, got + 1) /\ Ends(q)
        BY <1>4 DEF Reading
    <2>2. CASE Len(q) = 1
        BY <1>4, <2>1, <2>2, ItemKinds DEF Ends
    <2>3. CASE Len(q) > 1
        <3>1. q[1] = Chunk(got + 1)
            BY <1>1, <2>1, <2>3 DEF Chunks
        <3>2. Reading(p, b, Tail(q), got + 1)
            <4>1. (got + 1) + Len(Tail(q)) = b + 1 /\ Tail(q)[Len(Tail(q))] = q[Len(q)]
                BY <1>1, <2>1, <2>3
            <4>2. ASSUME NEW i \in 1..(Len(Tail(q)) - 1)
                  PROVE  Tail(q)[i] = Chunk((got + 1) + 1 + i - 1)
                <5>1. /\ i + 1 \in 1..(Len(q) - 1) /\ i \in 1..Len(Tail(q))
                      /\ (got + 1) + (i + 1) - 1 = (got + 1) + 1 + i - 1
                    BY <1>1
                <5> QED BY <1>1, <2>1, <5>1 DEF Chunks
            <4> QED BY <1>4, <2>1, <4>1, <4>2 DEF Reading, Chunks, Ends
        <3> QED BY <1>2, <3>1, <3>2
    <2> QED BY <1>1, <2>2, <2>3
<1> QED BY <1>3, <1>4 DEF Reading
-----------------------------------------------------------------------------
\* A step of one stream leaves the others their shape.
LEMMA OthersKeep ==
    ASSUME ShapeInv, NEW s \in Streams, Shape(s)',
           \A r \in Streams \ {s} :
               OnTheWay(r)' = OnTheWay(r) /\ UNCHANGED <<prod[r], body[r], cons[r], file[r]>>
    PROVE  ShapeInv'
<1>1. \A r \in Streams \ {s} : Shape(r)'
    BY ShapeFrame DEF ShapeInv
<1> QED BY <1>1 DEF ShapeInv

LEMMA ShapeRespond ==
    ASSUME TypeOK, ShapeInv, NEW s \in Streams, Respond(s) PROVE ShapeInv'
<1>1. Item("response") \in Items /\ Item("error") \in Items
    BY DEF Items
<1>2. PICK item \in Items : /\ Put(s, item)
                            /\ \/ item = Item("response") /\ prod' = [prod EXCEPT ![s] = "body"]
                               \/ item = Item("error") /\ prod' = [prod EXCEPT ![s] = "ended"]
    BY <1>1 DEF Respond
<1>3. blocked = Free /\ prod[s] = "started" /\ UNCHANGED <<body, cons, file>>
    BY DEF Respond
<1>4. /\ OnTheWay(s)' = Append(OnTheWay(s), item)
      /\ \A r \in Streams \ {s} : OnTheWay(r)' = OnTheWay(r)
    BY <1>2, <1>3, PutWay
<1>5. OnTheWay(s) = <<>> /\ body[s] = 0
    BY <1>3 DEF ShapeInv, Shape, Fits
<1>6. OnTheWay(s)' = <<item>>
    BY <1>4, <1>5
<1>7. Waiting(prod'[s], body[s], <<item>>)
    BY <1>2, <1>5 DEF Waiting, Chunks, TypeOK
<1>8. Shape(s)'
    <2>1. Fits(prod[s], cons[s], body[s], file[s], OnTheWay(s))
        BY DEF ShapeInv, Shape
    <2>2. cons[s] \notin {"new", "inside", "finished"}
        BY <1>3, <2>1 DEF Fits, Reading
    <2>3. prod'[s] \in {"body", "ended"}
        BY <1>2 DEF TypeOK
    <2>4. Fits(prod'[s], cons[s], body[s], file[s], <<item>>)
        BY <1>7, <2>1, <2>2, <2>3 DEF Fits
    <2> QED BY <1>3, <1>6, <2>4 DEF Shape
<1>9. \A r \in Streams \ {s} : UNCHANGED <<prod[r], body[r], cons[r], file[r]>>
    BY <1>2, <1>3 DEF TypeOK
<1> QED BY <1>4, <1>8, <1>9, OthersKeep

LEMMA ShapeProduce ==
    ASSUME TypeOK, ShapeInv, NEW s \in Streams, Produce(s) PROVE ShapeInv'
<1>1. Fits("body", cons[s], body[s], file[s], OnTheWay(s)) /\ prod[s] = "body" /\ blocked = Free
    BY DEF ShapeInv, Shape, Produce
<1>2. /\ body[s] \in 0..MaxChunks /\ body[s] \in Nat /\ OnTheWay(s) \in Seq(Items)
      /\ Len(file[s]) \in Nat
    BY WayType, LenProperties, StreamAssumption DEF TypeOK, StreamAssumption
<1>3. UNCHANGED <<cons, file>>
    BY DEF Produce
<1>4. CASE body[s] < MaxChunks /\ body' = [body EXCEPT ![s] = @ + 1]
           /\ Put(s, Chunk(body[s] + 1)) /\ prod' = prod
    <2>1. Chunk(body[s] + 1) \in Items
        <3>1. body[s] + 1 \in 1..MaxChunks
            BY <1>2, <1>4, StreamAssumption DEF StreamAssumption
        <3> QED BY <3>1 DEF Items
    <2>2. /\ OnTheWay(s)' = Append(OnTheWay(s), Chunk(body[s] + 1))
          /\ \A r \in Streams \ {s} : OnTheWay(r)' = OnTheWay(r)
        BY <1>1, <1>4, <2>1, PutWay
    <2>3. Fits("body", cons[s], body[s] + 1, file[s], Append(OnTheWay(s), Chunk(body[s] + 1)))
        BY <1>1, <1>2, <2>1, ChunkPut DEF Fits
    <2>4. body'[s] = body[s] + 1 /\ prod'[s] = "body"
        BY <1>1, <1>4 DEF TypeOK
    <2>5. Shape(s)'
        BY <1>3, <2>2, <2>3, <2>4 DEF Shape
    <2>6. \A r \in Streams \ {s} : UNCHANGED <<prod[r], body[r], cons[r], file[r]>>
        BY <1>3, <1>4 DEF TypeOK
    <2> QED BY <2>2, <2>5, <2>6, OthersKeep
<1>5. ASSUME NEW end \in {"done", "error"}, Put(s, Item(end)),
             prod' = [prod EXCEPT ![s] = "ended"], body' = body
      PROVE  ShapeInv'
    <2>1. Item(end) \in Items
        BY DEF Items
    <2>2. /\ OnTheWay(s)' = Append(OnTheWay(s), Item(end))
          /\ \A r \in Streams \ {s} : OnTheWay(r)' = OnTheWay(r)
        BY <1>1, <1>5, <2>1, PutWay
    <2>3. cons[s] # "finished"
        BY <1>1 DEF Fits
    <2>4. cons[s] # "new"
        BY <1>1 DEF Fits
    <2>5. Fits("ended", cons[s], body[s], file[s], Append(OnTheWay(s), Item(end)))
        BY <1>1, <1>2, <2>1, <2>3, <2>4, EndPut DEF Fits
    <2>6. prod'[s] = "ended"
        BY <1>5 DEF TypeOK
    <2>7. Shape(s)'
        BY <1>3, <1>5, <2>2, <2>5, <2>6 DEF Shape
    <2>8. \A r \in Streams \ {s} : UNCHANGED <<prod[r], body[r], cons[r], file[r]>>
        BY <1>3, <1>5 DEF TypeOK
    <2> QED BY <2>2, <2>7, <2>8, OthersKeep
<1> QED BY <1>4, <1>5 DEF Produce

LEMMA ShapeEnter ==
    ASSUME TypeOK, ShapeInv, NEW s \in Streams, Enter(s) PROVE ShapeInv'
<1>1. /\ cons[s] = "opening" /\ queue[s] # <<>>
      /\ queue' = [queue EXCEPT ![s] = Tail(@)] /\ UNCHANGED <<blocked, prod, body, file>>
      /\ cons' = [cons EXCEPT ![s] = IF Head(queue[s]).kind = "error" THEN "failed" ELSE "inside"]
    BY DEF Enter
<1>2. /\ OnTheWay(s) # <<>> /\ OnTheWay(s)' = Tail(OnTheWay(s))
      /\ Head(queue[s]) = OnTheWay(s)[1]
      /\ \A r \in Streams \ {s} : OnTheWay(r)' = OnTheWay(r)
    BY <1>1, TakeWay
<1>3. Fits(prod[s], "opening", body[s], file[s], OnTheWay(s))
    BY <1>1 DEF ShapeInv, Shape
<1>4. OnTheWay(s) \in Seq(Items) /\ body[s] \in Nat
    BY WayType, StreamAssumption DEF TypeOK, StreamAssumption
<1>5. prod[s] \notin {"none", "started"}
    BY <1>2, <1>3 DEF Fits
<1>6. cons'[s] = "inside" => Fits(prod[s], "inside", body[s], file[s], Tail(OnTheWay(s)))
    <2> SUFFICES ASSUME cons'[s] = "inside"
                 PROVE  Fits(prod[s], "inside", body[s], file[s], Tail(OnTheWay(s)))
        OBVIOUS
    <2>1. OnTheWay(s)[1].kind # "error"
        BY <1>1, <1>2 DEF TypeOK
    <2>2. Reading(prod[s], body[s], Tail(OnTheWay(s)), 0)
        BY <1>2, <1>3, <1>4, <2>1, ResponseTaken DEF Fits
    <2>3. file[s] = <<>> /\ Len(file[s]) = 0
        BY <1>3 DEF Fits
    <2>4. file[s] = UpTo(Len(file[s]))
        BY <2>3 DEF UpTo
    <2> QED BY <1>5, <2>2, <2>3, <2>4 DEF Fits
<1>7. cons'[s] = "failed" => Fits(prod[s], "failed", body[s], file[s], Tail(OnTheWay(s)))
    BY <1>5 DEF Fits
<1>8. cons'[s] \in {"inside", "failed"}
    BY <1>1 DEF TypeOK
<1>9. Shape(s)'
    BY <1>1, <1>2, <1>6, <1>7, <1>8 DEF Shape
<1>10. \A r \in Streams \ {s} : UNCHANGED <<prod[r], body[r], cons[r], file[r]>>
    BY <1>1 DEF TypeOK
<1> QED BY <1>2, <1>9, <1>10, OthersKeep
\* The file grown by the next chunk.
LEMMA FileGrows ==
    ASSUME NEW n \in Nat, NEW f \in Seq(Nat), Len(f) = n, f = UpTo(n)
    PROVE  Append(f, n + 1) = UpTo(n + 1) /\ Len(Append(f, n + 1)) = n + 1
<1>1. /\ Append(f, n + 1) \in Seq(Nat) /\ Len(Append(f, n + 1)) = n + 1
      /\ \A i \in 1..n : Append(f, n + 1)[i] = i
      /\ Append(f, n + 1)[n + 1] = n + 1
    BY AppendProperties DEF UpTo
<1>2. UpTo(n + 1) \in Seq(Nat)
    BY DEF UpTo
<1>3. Len(UpTo(n + 1)) = n + 1
    BY DEF UpTo
<1>4. \A i \in 1..(n + 1) : Append(f, n + 1)[i] = UpTo(n + 1)[i]
    BY <1>1 DEF UpTo
<1> QED BY <1>1, <1>2, <1>3, <1>4, SeqEqual

LEMMA ShapeRead ==
    ASSUME TypeOK, ShapeInv, NEW s \in Streams, Read(s) PROVE ShapeInv'
<1> DEFINE item == Head(queue[s])
<1>1. /\ cons[s] = "inside" /\ queue[s] # <<>>
      /\ queue' = [queue EXCEPT ![s] = Tail(@)] /\ UNCHANGED <<blocked, prod, body>>
      /\ file' = IF item.kind = "chunk" THEN [file EXCEPT ![s] = Append(@, item.n)] ELSE file
      /\ cons' = CASE item.kind = "done"  -> [cons EXCEPT ![s] = "finished"]
                   [] item.kind = "error" -> [cons EXCEPT ![s] = "failed"]
                   [] OTHER               -> cons
    BY DEF Read
<1>2. /\ OnTheWay(s) # <<>> /\ OnTheWay(s)' = Tail(OnTheWay(s))
      /\ item = OnTheWay(s)[1]
      /\ \A r \in Streams \ {s} : OnTheWay(r)' = OnTheWay(r)
    BY <1>1, TakeWay
<1> HIDE DEF item
<1>3. Fits(prod[s], "inside", body[s], file[s], OnTheWay(s))
    BY <1>1 DEF ShapeInv, Shape
<1>4. /\ OnTheWay(s) \in Seq(Items) /\ body[s] \in Nat
      /\ file[s] \in Seq(Nat) /\ Len(file[s]) \in Nat
    <2>1. file[s] \in Seq(1..MaxChunks)
        BY DEF TypeOK
    <2>2. 1..MaxChunks \subseteq Nat
        BY StreamAssumption DEF StreamAssumption
    <2>3. file[s] \in Seq(Nat)
        BY <2>1, <2>2, SeqMonotonic
    <2> QED BY <2>3, WayType, LenProperties, StreamAssumption DEF TypeOK, StreamAssumption
<1>5. /\ Reading(prod[s], body[s], OnTheWay(s), Len(file[s])) /\ file[s] = UpTo(Len(file[s]))
      /\ prod[s] \notin {"none", "started"}
    BY <1>2, <1>3 DEF Fits
<1>11. /\ item.kind = "chunk" => /\ item.n = Len(file[s]) + 1
                                  /\ Reading(prod[s], body[s], Tail(OnTheWay(s)), Len(file[s]) + 1)
       /\ item.kind = "done" => prod[s] = "ended" /\ Len(file[s]) = body[s]
       /\ item.kind \in {"chunk", "done", "error"}
    <2> DEFINE q == OnTheWay(s)  got == Len(file[s])
    <2>1. q \in Seq(Items) /\ q # <<>> /\ body[s] \in Nat /\ got \in Nat
          /\ Reading(prod[s], body[s], q, got)
        BY <1>2, <1>4, <1>5
    <2> HIDE DEF q, got
    <2>2. /\ q[1].kind = "chunk" => q[1].n = got + 1 /\ Reading(prod[s], body[s], Tail(q), got + 1)
          /\ q[1].kind = "done" => prod[s] = "ended" /\ got = body[s]
          /\ q[1].kind \in {"chunk", "done", "error"}
        BY <2>1, ItemTaken
    <2> QED BY <1>2, <2>2 DEF q, got
<1>6. \A r \in Streams \ {s} : UNCHANGED <<prod[r], body[r], cons[r], file[r]>>
    <2>1. \A r \in Streams \ {s} : file'[r] = file[r]
        BY <1>1 DEF TypeOK
    <2>2. \A r \in Streams \ {s} : cons'[r] = cons[r]
        BY <1>1 DEF TypeOK
    <2> QED BY <1>1, <2>1, <2>2
<1>7. CASE item.kind = "chunk"
    <2>1. item.n = Len(file[s]) + 1
          /\ Reading(prod[s], body[s], Tail(OnTheWay(s)), Len(file[s]) + 1)
        BY <1>7, <1>11
    <2>2. file'[s] = Append(file[s], Len(file[s]) + 1) /\ cons' = cons
        BY <1>1, <1>7, <2>1 DEF TypeOK
    <2>3. file'[s] = UpTo(Len(file'[s])) /\ Len(file'[s]) = Len(file[s]) + 1
        BY <1>4, <1>5, <2>2, FileGrows
    <2>4. Fits(prod[s], "inside", body[s], file'[s], Tail(OnTheWay(s)))
        BY <1>5, <2>1, <2>3 DEF Fits
    <2>5. Shape(s)'
        BY <1>1, <1>2, <2>2, <2>4 DEF Shape
    <2> QED BY <1>2, <1>6, <2>5, OthersKeep
<1>8. CASE item.kind = "done"
    <2>1. prod[s] = "ended" /\ Len(file[s]) = body[s]
        BY <1>8, <1>11
    <2>2. file' = file /\ cons'[s] = "finished"
        BY <1>1, <1>8 DEF TypeOK
    <2>3. Fits(prod[s], "finished", body[s], file[s], Tail(OnTheWay(s)))
        BY <1>5, <2>1 DEF Fits
    <2>4. Shape(s)'
        BY <1>1, <1>2, <2>2, <2>3 DEF Shape
    <2> QED BY <1>2, <1>6, <2>4, OthersKeep
<1>9. CASE item.kind = "error"
    <2>1. file' = file /\ cons'[s] = "failed"
        BY <1>1, <1>9 DEF TypeOK
    <2>2. Fits(prod[s], "failed", body[s], file[s], Tail(OnTheWay(s)))
        BY <1>5 DEF Fits
    <2>3. Shape(s)'
        BY <1>1, <1>2, <2>1, <2>2 DEF Shape
    <2> QED BY <1>2, <1>6, <2>3, OthersKeep
<1>10. item.kind \in {"chunk", "done", "error"}
    BY <1>11
<1> QED BY <1>7, <1>8, <1>9, <1>10

LEMMA ShapeStep == TypeOK /\ ShapeInv /\ [Next]_vars => ShapeInv'
<1> SUFFICES ASSUME TypeOK, ShapeInv, [Next]_vars PROVE ShapeInv'
    OBVIOUS
<1>1. ASSUME UNCHANGED <<prod, body, cons, file>>, \A s \in Streams : OnTheWay(s)' = OnTheWay(s)
      PROVE  ShapeInv'
    BY <1>1, ShapeFrame DEF ShapeInv
<1>2. ASSUME UNCHANGED <<prod, body, cons, file, queue, blocked>> PROVE ShapeInv'
    BY <1>1, <1>2 DEF OnTheWay
<1>3. CASE Unblock
    <2>1. \A s \in Streams : OnTheWay(s)' = OnTheWay(s)
        BY <1>3, UnblockWay
    <2> QED BY <1>1, <1>3, <2>1 DEF Unblock
<1>4. ASSUME NEW s \in Streams, Open(s) PROVE ShapeInv'
    <2>1. /\ cons[s] = "new" /\ prod' = [prod EXCEPT ![s] = "started"]
          /\ cons' = [cons EXCEPT ![s] = "opening"] /\ UNCHANGED <<body, queue, blocked, file>>
        BY <1>4 DEF Open
    <2>2. \A r \in Streams : OnTheWay(r)' = OnTheWay(r)
        BY <2>1 DEF OnTheWay
    <2>3. Fits("none", "new", body[s], file[s], OnTheWay(s))
        BY <2>1 DEF ShapeInv, Shape, Fits
    <2>4. Fits("started", "opening", body[s], file[s], OnTheWay(s))
        BY <2>3 DEF Fits, Waiting
    <2>5. Shape(s)'
        BY <2>1, <2>2, <2>4 DEF Shape, TypeOK
    <2> QED BY <2>1, <2>2, <2>5, OthersKeep DEF TypeOK
<1>5. ASSUME NEW s \in Streams, Leave(s) PROVE ShapeInv'
    <2>1. /\ cons[s] = "inside" /\ cons' = [cons EXCEPT ![s] = "left"]
          /\ UNCHANGED <<prod, body, queue, blocked, file>>
        BY <1>5 DEF Leave
    <2>2. \A r \in Streams : OnTheWay(r)' = OnTheWay(r)
        BY <2>1 DEF OnTheWay
    <2>3. Fits(prod[s], "left", body[s], file[s], OnTheWay(s))
        BY <2>1 DEF ShapeInv, Shape, Fits
    <2>4. Shape(s)'
        BY <2>1, <2>2, <2>3 DEF Shape, TypeOK
    <2> QED BY <2>1, <2>2, <2>4, OthersKeep DEF TypeOK
<1>6. CASE \E s \in Streams : Respond(s) \/ Produce(s) \/ Enter(s) \/ Read(s)
    BY <1>6, ShapeRespond, ShapeProduce, ShapeEnter, ShapeRead
<1>7. CASE \E r \in Requests : Serve(r) \/ Call(r)
    BY <1>2, <1>7 DEF Serve, Call
<1>8. CASE \E c \in Callers : EnsureStarted(c)
    BY <1>2, <1>8 DEF EnsureStarted, CheckStarted, Lock, MakeLoop, Publish
<1>9. CASE UNCHANGED vars
    BY <1>2, <1>9 DEF vars
<1> QED BY <1>3, <1>4, <1>5, <1>6, <1>7, <1>8, <1>9 DEF Next, Loop

\* A download that ends without an error has every chunk of the body once and
\* in order, whatever its length and however loop and consumer took turns.
THEOREM WholeBodyCorrect == Spec => []WholeBody
<1>1. Init => ShapeInv
    BY DEF Init, ShapeInv, Shape, Fits, OnTheWay
<1>2. ShapeInv => WholeBody
    BY DEF ShapeInv, Shape, Fits, WholeBody, UpTo
<1> QED BY <1>1, <1>2, ShapeStep, TypeCorrect, PTL DEF Spec
-----------------------------------------------------------------------------
(***************************************************************************)
(* The channel.                                                            *)
(***************************************************************************)
Threads == [at : {"none", "handle", "save"}, obj : Nat \ {0},
            msgs : SUBSET (1..MaxMsgs), ctx : 0..NoKey]

\* A session that could have been made so far: its context tokens are those of
\* its users' messages.
Sane(s) ==
    /\ s.buf <= Len(log) /\ s.tok <= codes
    /\ \A u \in Users : s.ctx[u] \in 1..MaxMsgs => s.ctx[u] <= Len(log) /\ log[s.ctx[u]].user = u

Saves == [at : {"no", "open", "taken"}, copy : Sessions \cup {Torn}, mixed : BOOLEAN]

Typed ==
    /\ ChannelTypeOK /\ thread \in [Users -> Threads]
    /\ \A u \in Users : thread[u].msgs \subseteq 1..Len(log)
    /\ \A i \in 1..Cur : Sane(objs[i])
    /\ stored \in Sessions => Sane(stored)
    /\ \A c \in Codes : base[c] <= Len(log)

\* What goes on in which state of the process, and whose session is being saved.
Placed ==
    /\ pc = "down" => /\ objs = <<>>
                      /\ \A u \in Users : thread[u].at = "none"
                      /\ \A w \in Savers : save[w].at = "no"
    /\ pc # "loop" => inbox = {}
    /\ pc \in {"wait", "number"} => qrcode \in 1..codes
    /\ save[Main].at # "no" => pc = "save"
    /\ \A u \in Users : save[u].at # "no" => thread[u].at = "save"
    /\ \A w \in Savers : save[w].at = "taken" =>
          /\ save[w].copy \in Sessions /\ save[w].copy.tok = objs[Object(w)].tok
          /\ save[w].copy.buf <= objs[Object(w)].buf

LogGrows == Len(log') >= Len(log) /\ \A i \in 1..Len(log) : log'[i] = log[i]

\* Bounds.
LEMMA Numbers ==
    /\ MaxMsgs \in Nat /\ MaxCodes \in Nat /\ MaxRuns \in Nat /\ MaxPolls \in Nat
    /\ NoKey = MaxMsgs + 1 /\ Codes = 1..MaxCodes
    /\ Owner \in Users /\ Main \notin Users /\ Savers = Users \cup {Main}
BY ChannelAssumption DEF NoKey, Codes, Savers

\* Sessions, and what is none.
LEMMA SessionFields ==
    ASSUME NEW s \in Sessions
    PROVE  /\ s.tok \in 1..MaxCodes /\ s.buf \in 0..MaxMsgs /\ s.ctx \in [Users -> 0..NoKey]
           /\ s # Torn /\ s # Missing /\ s.tok # 0
           /\ \A u \in Users : /\ Context(s, u) \in 0..MaxMsgs
                               /\ Context(s, u) = 0 \/ Context(s, u) = s.ctx[u]
           /\ s = [tok |-> s.tok, buf |-> s.buf, ctx |-> s.ctx]
<1>1. s.tok \in 1..MaxCodes /\ s.buf \in 0..MaxMsgs /\ s.ctx \in [Users -> 0..NoKey]
  BY Numbers DEF Sessions
<1>2. s # Torn /\ s # Missing
  BY <1>1, Numbers DEF Torn, Missing
<1>3. \A u \in Users : Context(s, u) \in 0..MaxMsgs /\ (Context(s, u) = 0 \/ Context(s, u) = s.ctx[u])
  BY <1>1, Numbers DEF Context
<1> QED BY <1>1, <1>2, <1>3, Numbers DEF Sessions

LEMMA NoSessions ==
    /\ Torn \notin Sessions /\ Missing \notin Sessions /\ Torn # Missing
<1>1. Torn.tok = 0 /\ Missing.tok = MaxCodes + 1 BY DEF Torn, Missing
<1> QED BY <1>1, Numbers DEF Sessions

LEMMA NewSessionType ==
    ASSUME NEW c \in Codes
    PROVE  /\ NewSession(c) \in Sessions
           /\ NewSession(c).tok = c /\ NewSession(c).buf = 0
           /\ \A u \in Users : NewSession(c).ctx[u] \in {0, NoKey}
BY Numbers DEF NewSession, Sessions, NoContexts

LEMMA NoThreadType ==
    /\ NoThread \in Threads /\ NoThread.at = "none" /\ NoThread.msgs = {}
    /\ NoThread.obj = 1 /\ NoThread.ctx = NoKey
BY Numbers DEF NoThread, Threads

LEMMA NotSavingType ==
    NotSaving \in Saves /\ NotSaving.at = "no" /\ NotSaving.mixed = FALSE
BY DEF NotSaving, Saves

LEMMA SaneStays ==
    ASSUME NEW s \in Sessions, Sane(s), LogGrows, codes' >= codes, Typed, codes' \in Nat,
           Len(log') \in Nat
    PROVE  Sane(s)'
<1>1. Len(log) \in Nat /\ codes \in Nat BY DEF Typed, ChannelTypeOK
<1>2. /\ s.tok \in Nat /\ s.buf \in Nat /\ s.ctx \in [Users -> 0..NoKey]
  BY SessionFields
<1>3. s.buf <= Len(log)' /\ s.tok <= codes' BY <1>1, <1>2 DEF Sane, LogGrows
<1>4. ASSUME NEW u \in Users, s.ctx[u] \in 1..MaxMsgs
      PROVE  s.ctx[u] <= Len(log') /\ log'[s.ctx[u]].user = u
  BY <1>1, <1>2, <1>4, Numbers DEF Sane, LogGrows
<1> QED BY <1>3, <1>4 DEF Sane
-----------------------------------------------------------------------------
(* What the steps do.                                                      *)

LEMMA ObjsType ==
    ASSUME Typed
    PROVE  /\ objs \in Seq(Sessions) /\ Cur \in Nat /\ DOMAIN objs = 1..Cur
           /\ \A i \in 1..Cur : objs[i] \in Sessions
           /\ pc \in {"save", "loop"} => Cur > 0
           /\ Len(log) \in Nat /\ Len(log) <= MaxMsgs /\ codes \in Nat
           /\ \A i \in 1..Len(log) : log[i].user \in Users /\ log[i].kind \in Kinds
<1>1. /\ objs \in Seq(Sessions) /\ (pc \in {"save", "loop"} => objs # <<>>)
      /\ log \in Seq(Inbound) /\ Len(log) <= MaxMsgs /\ codes \in 0..MaxCodes
  BY DEF Typed, ChannelTypeOK
<1>2. Len(objs) \in Nat /\ DOMAIN objs = 1..Len(objs) /\ \A i \in 1..Len(objs) : objs[i] \in Sessions
  BY <1>1, LenProperties
<1>3. objs # <<>> => Len(objs) > 0 BY <1>1, EmptySeq
<1>4. Len(log) \in Nat /\ \A i \in 1..Len(log) : log[i] \in Inbound
  BY <1>1, LenProperties
<1> QED BY <1>1, <1>2, <1>3, <1>4, Numbers DEF Cur, Inbound

\* The messages that are not parsed yet have an earliest one.
LEMMA Earliest ==
    ASSUME NEW S, S \subseteq Nat, S # {}
    PROVE  Min(S) \in S /\ \A m \in S : Min(S) <= m
<1> DEFINE R == OpToRel(<, Nat)
<1>1. PICK n \in S : \A m \in S : ~(<<m, n>> \in R)
  <2>1. IsWellFoundedOn(R, Nat) BY NatLessThanWellFounded
  <2> HIDE DEF R
  <2> QED BY <2>1, WFMin
<1>2. \A m, k \in Nat : <<m, k>> \in R <=> m < k BY DEF OpToRel
<1> HIDE DEF R
<1>3. ASSUME NEW m \in S PROVE n <= m
  <2>1. m \in Nat /\ n \in Nat /\ ~(<<m, n>> \in R) BY <1>1, <1>3
  <2> QED BY <1>2, <2>1
<1> QED BY <1>3 DEF Min

\* The login goes on without a session.
Asking ==
    /\ pc \in {"newcode", "wait", "number"} /\ pc' \in {"wait", "number"}
    /\ \/ codes' = codes + 1 /\ qrcode' = codes' /\ codes' <= MaxCodes
       \/ codes' = codes /\ qrcode' = qrcode /\ pc # "newcode"
    /\ code' \in [Codes -> Stages] /\ polls' \in 0..MaxPolls
    /\ UNCHANGED <<log, accepted, stored, runs, objs, inbox, answer, pending, thread, save, kept, base, lost, odd>>

\* ... or with one.
LoggingIn ==
    /\ pc \in {"wait", "number"} /\ pc' = "save"
    /\ accepted' = qrcode /\ code' \in [Codes -> Stages] /\ qrcode' = 0 /\ polls' = 0
    /\ objs' = Append(objs, NewSession(qrcode))
    /\ inbox' = {} /\ answer' = {} /\ pending' = {}
    /\ UNCHANGED <<log, codes, stored, runs, thread, save, kept, base, lost, odd>>

LEMMA LoginDoes ==
    ASSUME Typed, Placed, Login
    PROVE  Asking \/ LoggingIn \/ (pc # "down" /\ Over)
<1>1. /\ code \in [Codes -> Stages] /\ codes \in 0..MaxCodes /\ polls \in 0..MaxPolls
      /\ pc \in {"wait", "number"} => qrcode \in Codes
  BY Numbers DEF Typed, ChannelTypeOK, Placed
<1>2. ASSUME Issue, pc \in {"newcode", "wait"}, polls' \in 0..MaxPolls PROVE Asking
  <2>1. codes + 1 \in Codes /\ codes' = codes + 1 /\ codes' <= MaxCodes
    BY <1>1, <1>2, Numbers DEF Issue
  <2>2. code' \in [Codes -> Stages] BY <1>1, <1>2, <2>1 DEF Issue, Stages
  <2> QED BY <1>2, <2>1, <2>2 DEF Issue, Asking, incoming, history
<1>3. CASE NewCode BY <1>2, <1>3, Numbers DEF NewCode
<1>4. CASE Refresh BY <1>1, <1>2, <1>4, Numbers DEF Refresh, Passes
<1>5. CASE Wait BY <1>1, <1>5, Numbers DEF Wait, Passes, Asking, server, incoming, history
<1>6. CASE AskNumber BY <1>1, <1>6, Numbers DEF AskNumber, Passes, Asking, server, incoming, history
<1>7. CASE EnterNumber
  <2>1. code' \in [Codes -> Stages] BY <1>1, <1>7 DEF EnterNumber, Stages
  <2>2. pc' = "wait" \/ (LoggedIn(qrcode) /\ accepted' = qrcode) BY <1>7 DEF EnterNumber
  <2>3. CASE LoggedIn(qrcode) /\ accepted' = qrcode
    BY <1>7, <2>1, <2>3 DEF EnterNumber, LoggedIn, LoggingIn, history
  <2>4. CASE ~(LoggedIn(qrcode) /\ accepted' = qrcode)
    BY <1>1, <1>7, <2>1, <2>4 DEF EnterNumber, Asking, login, incoming, history
  <2> QED BY <2>3, <2>4
<1>8. CASE Confirmed
  BY <1>1, <1>8 DEF Confirmed, LoggedIn, LoggingIn, history
<1>9. CASE GiveUp BY <1>9 DEF GiveUp
<1> QED BY <1>3, <1>4, <1>5, <1>6, <1>7, <1>8, <1>9 DEF Login

LEMMA PollDoes ==
    ASSUME Typed, Placed, Poll
    PROVE  LET s == objs[Cur]
               from == IF s.buf = 0 THEN Len(log) ELSE s.buf IN
           /\ pc = "loop" /\ Cur > 0 /\ inbox = {} /\ s \in Sessions /\ s.tok = accepted
           /\ log' \in Seq(Inbound) /\ LogGrows /\ Len(log') <= MaxMsgs
           /\ Len(log') \in Nat /\ from \in 0..Len(log)
           /\ inbox' = (from + 1)..Len(log') /\ answer' = inbox'
           /\ objs' \in Seq(Sessions) /\ Cur' = Cur
           /\ objs'[Cur].tok = s.tok /\ objs'[Cur].buf = Len(log') /\ objs'[Cur].ctx = s.ctx
           /\ \A i \in 1..Cur : i # Cur => objs'[i] = objs[i]
           /\ base' = IF s.buf = 0 THEN [base EXCEPT ![s.tok] = Len(log)] ELSE base
           /\ UNCHANGED <<code, codes, accepted, stored, runs, pc, qrcode, polls, pending, thread,
                          save, kept, lost, odd>>
<1> DEFINE s == objs[Cur]
           from == IF s.buf = 0 THEN Len(log) ELSE s.buf
<1>1. /\ objs \in Seq(Sessions) /\ Cur \in Nat /\ Cur > 0 /\ Cur \in 1..Len(objs) /\ s \in Sessions
      /\ log \in Seq(Inbound) /\ Len(log) \in Nat /\ Len(log) <= MaxMsgs
      /\ Sane(s)
  <2>1. pc = "loop" BY DEF Poll
  <2>2. Cur > 0 /\ Cur \in 1..Cur BY <2>1, ObjsType
  <2> QED BY <2>2, ObjsType DEF Typed, ChannelTypeOK, Cur
<1>2. /\ log' \in Seq(Inbound) /\ LogGrows /\ Len(log') <= MaxMsgs
      /\ Len(log') \in Nat
  <2>0. PICK k \in 0..(MaxMsgs - Len(log)) : \E new \in [1..k -> Inbound] : log' = log \o new
    BY DEF Poll
  <2>1. PICK new \in [1..k -> Inbound] : log' = log \o new BY <2>0
  <2>2. k \in Nat /\ Len(log) + k <= MaxMsgs BY <1>1, <2>0, Numbers
  <2>3. new \in Seq(Inbound) /\ Len(new) = k BY <2>2
  <2> HIDE DEF s, from
  <2>4. /\ log' \in Seq(Inbound) /\ Len(log') = Len(log) + k
        /\ \A i \in 1..Len(log) : log'[i] = log[i]
    <3>1. /\ log \o new \in Seq(Inbound) /\ Len(log \o new) = Len(log) + Len(new)
          /\ \A i \in 1..(Len(log) + Len(new)) :
                (log \o new)[i] = IF i <= Len(log) THEN log[i] ELSE new[i - Len(log)]
      BY <1>1, <2>3, ConcatProperties
    <3>2. \A i \in 1..Len(log) : i \in 1..(Len(log) + Len(new)) /\ i <= Len(log)
      BY <1>1, <2>2, <2>3
    <3> QED BY <2>1, <2>3, <3>1, <3>2
  <2> QED BY <1>1, <2>2, <2>4 DEF LogGrows
<1>3. from \in 0..Len(log)
  BY <1>1, SessionFields DEF Sane
<1>4. objs' = [objs EXCEPT ![Cur] = [s EXCEPT !.buf = Len(log')]] BY DEF Poll
<1>5. [s EXCEPT !.buf = Len(log')] \in Sessions
  <2> DEFINE b == Len(log')
  <2>1. b \in 0..MaxMsgs /\ s \in Sessions BY <1>1, <1>2, Numbers
  <2> HIDE DEF b, s, from
  <2>2. [s EXCEPT !.buf = b] \in Sessions BY <2>1 DEF Sessions
  <2> QED BY <2>2 DEF b
<1>6. /\ objs' \in Seq(Sessions) /\ Len(objs') = Len(objs)
      /\ objs'[Cur] = [s EXCEPT !.buf = Len(log')]
      /\ \A i \in 1..Cur : i # Cur => objs'[i] = objs[i]
  <2> DEFINE t == [s EXCEPT !.buf = Len(log')]
  <2>1. objs' = [objs EXCEPT ![Cur] = t] /\ t \in Sessions BY <1>4, <1>5
  <2> HIDE DEF s, from, t
  <2>2. objs' \in Seq(Sessions) /\ Len(objs') = Len(objs) /\ objs'[Cur] = t
        /\ \A i \in 1..Cur : i # Cur => objs'[i] = objs[i]
    BY <1>1, <2>1, ExceptSeq DEF Cur
  <2> QED BY <2>2 DEF t
<1>7. /\ objs'[Cur].tok = s.tok /\ objs'[Cur].buf = Len(log') /\ objs'[Cur].ctx = s.ctx
  BY <1>1, <1>6, SessionFields
<1>8. Cur' = Cur BY <1>6 DEF Cur
<1> QED BY <1>1, <1>2, <1>3, <1>6, <1>7, <1>8 DEF Poll, login

LEMMA ParseDoes ==
    ASSUME Typed, Placed, Parse
    PROVE  \E m \in inbox :
               LET u == log[m].user  s == objs[Cur] IN
               /\ pc = "loop" /\ Cur > 0 /\ s \in Sessions
               /\ m \in 1..Len(log) /\ u \in Users /\ \A n \in inbox : m <= n
               /\ inbox' = inbox \ {m} /\ pending' \in {pending, pending \cup {m}}
               /\ objs' \in Seq(Sessions) /\ Cur' = Cur
               /\ objs'[Cur].tok = s.tok /\ objs'[Cur].buf = s.buf
               /\ objs'[Cur].ctx[u] = IF log[m].kind = "token" THEN m ELSE s.ctx[u]
               /\ \A v \in Users : v # u => objs'[Cur].ctx[v] = s.ctx[v]
               /\ \A i \in 1..Cur : i # Cur => objs'[i] = objs[i]
               /\ UNCHANGED <<log, code, codes, accepted, stored, runs, pc, qrcode, polls, answer, thread,
                              save, kept, base, lost, odd>>
<1> DEFINE m == Min(inbox)
           u == log[m].user
           s == objs[Cur]
<1>1. /\ objs \in Seq(Sessions) /\ Cur \in Nat /\ Cur > 0 /\ Cur \in 1..Len(objs) /\ s \in Sessions
      /\ Len(log) \in Nat /\ Len(log) <= MaxMsgs /\ inbox \subseteq 1..Len(log) /\ inbox # {}
      /\ pc = "loop"
  <2>1. pc = "loop" /\ inbox # {} BY DEF Parse
  <2>2. Cur > 0 /\ Cur \in 1..Cur BY <2>1, ObjsType
  <2> QED BY <2>1, <2>2, ObjsType DEF Typed, ChannelTypeOK, Cur
<1>2. m \in inbox /\ \A n \in inbox : m <= n
  <2>1. inbox \subseteq Nat BY <1>1
  <2> QED BY <1>1, <2>1, Earliest
<1>3. m \in 1..Len(log) /\ u \in Users BY <1>1, <1>2, ObjsType
<1> HIDE DEF m
<1>4. /\ objs' = IF log[m].kind = "token" THEN [objs EXCEPT ![Cur] = [s EXCEPT !.ctx = [s.ctx EXCEPT ![u] = m]]]
                               ELSE objs
      /\ inbox' = inbox \ {m} /\ pending' \in {pending, pending \cup {m}}
      /\ UNCHANGED <<log, code, codes, accepted, stored, runs, pc, qrcode, polls, answer, thread,
                              save, kept, base, lost, odd>>
  BY DEF Parse, m, server, login, history
<1> DEFINE t == IF log[m].kind = "token" THEN [s EXCEPT !.ctx = [s.ctx EXCEPT ![u] = m]] ELSE s
<1>5. s.ctx \in [Users -> 0..NoKey] /\ s.tok \in Codes /\ s.buf \in 0..MaxMsgs /\ m \in 0..NoKey
  <2>1. m \in 0..NoKey BY <1>1, <1>3, Numbers
  <2> HIDE DEF s
  <2>2. s \in Sessions BY <1>1 DEF s
  <2> QED BY <2>1, <2>2, SessionFields, Numbers
<1>6. /\ t \in Sessions /\ t.tok = s.tok /\ t.buf = s.buf
      /\ t.ctx[u] = IF log[m].kind = "token" THEN m ELSE s.ctx[u]
      /\ \A v \in Users : v # u => t.ctx[v] = s.ctx[v]
  <2>1. CASE log[m].kind = "token"
    <3> DEFINE e == [s.ctx EXCEPT ![u] = m]
    <3>1. e \in [Users -> 0..NoKey] /\ e[u] = m /\ \A v \in Users : v # u => e[v] = s.ctx[v]
      BY <1>3, <1>5
    <3> HIDE DEF e
    <3>2. t = [s EXCEPT !.ctx = e] BY <2>1 DEF e
    <3> HIDE DEF t
    <3>3. t \in Sessions /\ t.tok = s.tok /\ t.buf = s.buf /\ t.ctx = e
      BY <1>1, <3>1, <3>2, SessionFields DEF Sessions
    <3> QED BY <2>1, <3>1, <3>3
  <2>2. CASE log[m].kind # "token" BY <1>1, <2>2
  <2> QED BY <2>1, <2>2
<1>7. objs' = [objs EXCEPT ![Cur] = t]
  <2>1. CASE log[m].kind = "token" BY <1>4, <2>1
  <2>2. CASE log[m].kind # "token"
    <3>1. objs' = objs /\ t = objs[Cur] BY <1>4, <2>2
    <3> HIDE DEF t
    <3>2. objs = [objs EXCEPT ![Cur] = objs[Cur]] BY <1>1, LenProperties
    <3> QED BY <3>1, <3>2
  <2> QED BY <2>1, <2>2
<1> HIDE DEF t, s, u
<1>8. /\ objs' \in Seq(Sessions) /\ Len(objs') = Len(objs) /\ objs'[Cur] = t
      /\ \A i \in 1..Cur : i # Cur => objs'[i] = objs[i]
  BY <1>1, <1>6, <1>7, ExceptSeq DEF Cur
<1>9. Cur' = Cur BY <1>8 DEF Cur
<1> USE DEF s, u
<1> QED BY <1>1, <1>2, <1>3, <1>4, <1>6, <1>8, <1>9

LEMMA ParseFailsDoes ==
    ASSUME ParseFails
    PROVE  /\ pc = "loop" /\ inbox' = {} /\ pending' \subseteq pending
           /\ lost' = lost \cup inbox
           /\ UNCHANGED <<log, code, codes, accepted, stored, runs, pc, qrcode, polls, objs, answer,
                          thread, save, kept, base, odd>>
BY DEF ParseFails, server, login

LEMMA ThreadsType ==
    ASSUME Typed
    PROVE  /\ thread \in [Users -> Threads]
           /\ \A u \in Users : /\ thread[u].at \in {"none", "handle", "save"}
                               /\ thread[u].obj \in Nat \ {0} /\ thread[u].msgs \subseteq 1..Len(log)
                               /\ thread[u].ctx \in 0..NoKey
                               /\ thread[u].at # "none" => thread[u].obj \in 1..Cur
BY DEF Typed, Threads, ChannelTypeOK

LEMMA DispatchDoes ==
    ASSUME Typed, Placed, NEW u \in Users, Dispatch(u)
    PROVE  /\ pc = "loop" /\ inbox = {} /\ Cur > 0
           /\ thread' \in [Users -> Threads] /\ \A v \in Users : v # u => thread'[v] = thread[v]
           /\ thread'[u].at = "handle" /\ thread'[u].obj = Cur
           /\ thread'[u].msgs = {m \in pending : log[m].user = u}
           /\ thread'[u].ctx = NoKey /\ thread[u].at = "none"
           /\ pending' \subseteq pending
           /\ UNCHANGED <<log, code, codes, accepted, stored, runs, pc, qrcode, polls, objs, inbox,
                          answer, save, kept, base, lost, odd>>
<1> DEFINE msgs == {m \in pending : log[m].user = u}
           t == [NoThread EXCEPT !.at = "handle", !.obj = Cur, !.msgs = msgs]
<1>1. pending \subseteq 1..Len(log) /\ thread \in [Users -> Threads]
  BY DEF Typed, ChannelTypeOK
<1>2. pc = "loop" /\ inbox = {} /\ Cur > 0 /\ Cur \in Nat /\ Len(log) \in Nat /\ Len(log) <= MaxMsgs
  BY ObjsType DEF Dispatch
<1>3. msgs \subseteq 1..MaxMsgs
  <2> DEFINE k == Len(log)
  <2>1. msgs \subseteq 1..k BY <1>1
  <2>2. k \in Nat /\ k <= MaxMsgs BY <1>2
  <2> HIDE DEF msgs, k
  <2> QED BY <2>1, <2>2, Numbers
<1>4. thread' = [thread EXCEPT ![u] = t] /\ pending' = pending \ msgs /\ thread[u] = NoThread
  BY DEF Dispatch
<1> HIDE DEF msgs
<1>5. t \in Threads /\ t.at = "handle" /\ t.obj = Cur /\ t.msgs = msgs /\ t.ctx = NoKey
  <2> DEFINE c == Cur
  <2>1. c \in Nat \ {0} /\ NoThread \in Threads /\ NoThread.ctx = NoKey BY <1>2, NoThreadType
  <2>2. t = [NoThread EXCEPT !.at = "handle", !.obj = c, !.msgs = msgs] OBVIOUS
  <2> HIDE DEF t, c
  <2>3. t \in Threads /\ t.at = "handle" /\ t.obj = c /\ t.msgs = msgs /\ t.ctx = NoKey
    BY <1>3, <2>1, <2>2 DEF Threads
  <2> QED BY <2>3 DEF c
<1> HIDE DEF t
<1>6. /\ thread' \in [Users -> Threads] /\ thread'[u] = t
      /\ \A v \in Users : v # u => thread'[v] = thread[v]
  BY <1>1, <1>4, <1>5
<1> QED BY <1>2, <1>4, <1>5, <1>6, NoThreadType DEF Dispatch, msgs, server, login, history

\* The steps of a turn before it is saved.
Turning(u) == SendItem(u) \/ Reply(u) \/ Fail(u)

LEMMA TurnDoes ==
    ASSUME Typed, Placed, NEW u \in Users, Turning(u)
    PROVE  LET t == thread[u]  n == thread'[u] IN
           /\ t.at = "handle" /\ Cur > 0
           /\ thread' \in [Users -> Threads] /\ \A v \in Users : v # u => thread'[v] = thread[v]
           /\ \/ n = NoThread
              \/ /\ n.at \in {"handle", "save"} /\ n.obj = t.obj /\ n.msgs = t.msgs
                 /\ n.ctx = Context(objs[1], u)
           /\ UNCHANGED <<log, code, codes, accepted, stored, runs, pc, qrcode, polls, objs, inbox,
                          answer, pending, save, kept, base, lost, odd>>
<1> DEFINE t == thread[u]
           c == Context(objs[1], u)
<1>1. t \in Threads /\ thread \in [Users -> Threads] BY ThreadsType
<1>2. t.at = "handle" BY DEF Turning, SendItem, Reply, Fail
<1>3. Cur > 0 /\ c \in 0..NoKey
  <2>1. Cur > 0 /\ Cur \in Nat BY <1>2, ThreadsType, ObjsType
  <2>2. c \in 0..MaxMsgs BY <2>1, ObjsType, SessionFields
  <2> QED BY <2>1, <2>2, Numbers
<1>4. UNCHANGED <<log, code, codes, accepted, stored, runs, pc, qrcode, polls, objs, inbox,
                          answer, pending, save, kept, base, lost, odd>>
  BY DEF Turning, SendItem, Reply, Fail, ThreadOnly, server, login, incoming, history
<1> DEFINE After(n) == /\ n.at \in {"handle", "save"} /\ n.obj = t.obj /\ n.msgs = t.msgs
                       /\ n.ctx = c
<1>5. \E n \in Threads : thread' = [thread EXCEPT ![u] = n] /\ (n = NoThread \/ After(n))
  <2>1. CASE SendItem(u)
    <3> DEFINE n == [t EXCEPT !.ctx = c]
    <3>1. thread' = [thread EXCEPT ![u] = n] BY <2>1 DEF SendItem
    <3> HIDE DEF t, c
    <3>2. n \in Threads /\ After(n) BY <1>1, <1>2, <1>3 DEF Threads
    <3> QED BY <3>1, <3>2
  <2>2. CASE Reply(u)
    <3> DEFINE n == [t EXCEPT !.at = "save", !.ctx = c]
    <3>1. thread' = [thread EXCEPT ![u] = n] BY <1>1, <2>2 DEF Reply
    <3> HIDE DEF t, c
    <3>2. n \in Threads /\ After(n) BY <1>1, <1>3 DEF Threads
    <3> QED BY <3>1, <3>2
  <2>3. CASE Fail(u) BY <2>3, NoThreadType DEF Fail
  <2> QED BY <2>1, <2>2, <2>3 DEF Turning
<1>6. ASSUME NEW n \in Threads, thread' = [thread EXCEPT ![u] = n]
      PROVE  /\ thread' \in [Users -> Threads] /\ thread'[u] = n
             /\ \A v \in Users : v # u => thread'[v] = thread[v]
  BY <1>1, <1>6
<1> HIDE DEF After
<1>7. /\ thread' \in [Users -> Threads] /\ \A v \in Users : v # u => thread'[v] = thread[v]
      /\ thread'[u] = NoThread \/ After(thread'[u])
  BY <1>5, <1>6
<1> QED BY <1>2, <1>3, <1>4, <1>7 DEF After

LEMMA SavesType ==
    ASSUME Typed
    PROVE  /\ save \in [Savers -> Saves]
           /\ \A w \in Savers : /\ save[w].at \in {"no", "open", "taken"} /\ save[w].mixed \in BOOLEAN
                                /\ save[w].copy \in Sessions \cup {Torn}
BY DEF Typed, ChannelTypeOK, Saves

\* Whose session a thread in a save writes, and who can be in one.
LEMMA ObjectType ==
    ASSUME Typed, Placed, NEW w \in Savers, save[w].at # "no" \/ MaySave(w)
    PROVE  /\ Object(w) \in 1..Cur /\ objs[Object(w)] \in Sessions /\ Cur > 0 /\ Cur \in Nat
           /\ w # Main => w \in Users /\ thread[w].at = "save" /\ Object(w) = thread[w].obj
           /\ w = Main => Object(w) = Cur /\ pc = "save"
<1>1. CASE w = Main
  <2>1. pc = "save" BY <1>1 DEF Placed, MaySave
  <2>2. Cur > 0 /\ Cur \in Nat /\ Object(w) = Cur BY <1>1, <2>1, ObjsType DEF Object
  <2> QED BY <1>1, <2>1, <2>2, ObjsType
<1>2. CASE w # Main
  <2>1. w \in Users BY <1>2, Numbers
  <2>2. thread[w].at = "save" BY <1>2, <2>1 DEF Placed, MaySave
  <2>3. Object(w) = thread[w].obj /\ thread[w].obj \in 1..Cur
    BY <1>2, <2>1, <2>2, ThreadsType DEF Object
  <2>4. Cur \in Nat BY ObjsType
  <2>5. objs[Object(w)] \in Sessions BY <2>3, ObjsType
  <2> QED BY <1>2, <2>1, <2>2, <2>3, <2>4, <2>5
<1> QED BY <1>1, <1>2

LEMMA OpenDoes ==
    ASSUME Typed, Placed, NEW w \in Savers, OpenFile(w)
    PROVE  /\ MaySave(w) /\ save[w].at = "no" /\ stored' = Torn
           /\ save' \in [Savers -> Saves] /\ save'[w].at = "open"
           /\ Busy = {} => save'[w].mixed = FALSE
           /\ \A x \in Savers : x # w => save'[x].at = save[x].at /\ save'[x].copy = save[x].copy
           /\ odd' = odd \cup (IF Busy # {} THEN {"overlap"} ELSE {})
           /\ UNCHANGED <<log, code, codes, accepted, runs, pc, qrcode, polls, objs, inbox, answer, pending,
                          thread, kept, base, lost>>
<1> DEFINE Saved(x) == IF x = w THEN [NotSaving EXCEPT !.at = "open", !.mixed = Busy # {}]
                                ELSE [save[x] EXCEPT !.mixed = x \in Busy]
<1>1. save' = [x \in Savers |-> Saved(x)] BY DEF OpenFile
<1>2. Saved(w) \in Saves /\ Saved(w).at = "open" /\ (Busy = {} => Saved(w).mixed = FALSE)
  BY DEF NotSaving, Saves
<1>3. ASSUME NEW x \in Savers, x # w
      PROVE  Saved(x) \in Saves /\ Saved(x).at = save[x].at /\ Saved(x).copy = save[x].copy
  <2>1. save[x] \in Saves /\ (x \in Busy) \in BOOLEAN BY SavesType
  <2>2. Saved(x) = [save[x] EXCEPT !.mixed = x \in Busy] BY <1>3
  <2> QED BY <2>1, <2>2 DEF Saves
<1> HIDE DEF Saved
<1> QED BY <1>1, <1>2, <1>3 DEF OpenFile, server, login, incoming, history

LEMMA TakeDoes ==
    ASSUME Typed, Placed, NEW w \in Savers, Take(w)
    PROVE  /\ save[w].at = "open"
           /\ save' \in [Savers -> Saves] /\ save'[w].at = "taken"
           /\ save'[w].copy = objs[Object(w)] /\ save'[w].mixed = save[w].mixed
           /\ \A x \in Savers : x # w => save'[x] = save[x]
           /\ odd' = odd \cup (IF inbox # {} /\ Object(w) = Cur THEN {"early"} ELSE {})
           /\ UNCHANGED <<log, code, codes, accepted, stored, runs, pc, qrcode, polls, objs, inbox,
                          answer, pending, thread, kept, base, lost>>
<1> DEFINE s == save[w]
           o == objs[Object(w)]
           n == [s EXCEPT !.at = "taken", !.copy = o]
<1>1. s.at = "open" BY DEF Take
<1>2. s \in Saves /\ save \in [Savers -> Saves] BY SavesType
<1>3. o \in Sessions BY <1>1, ObjectType
<1>4. save' = [save EXCEPT ![w] = n] BY <1>2 DEF Take
<1> HIDE DEF s, o
<1>5. n \in Saves /\ n.at = "taken" /\ n.copy = o /\ n.mixed = s.mixed BY <1>2, <1>3 DEF Saves
<1> HIDE DEF n
<1>6. save' \in [Savers -> Saves] /\ save'[w] = n /\ \A x \in Savers : x # w => save'[x] = save[x]
  BY <1>2, <1>4, <1>5
<1> QED BY <1>1, <1>5, <1>6 DEF Take, s, o, server, login, incoming, history

\* What a save writes.
Whole(w) == [save[w].copy EXCEPT !.ctx = objs[Object(w)].ctx]

LEMMA WholeType ==
    ASSUME Typed, Placed, NEW w \in Savers, save[w].at = "taken"
    PROVE  /\ Whole(w) \in Sessions /\ Whole(w).tok = objs[Object(w)].tok
           /\ Whole(w).buf = save[w].copy.buf /\ Whole(w).ctx = objs[Object(w)].ctx
           /\ Whole(w).buf <= objs[Object(w)].buf /\ Sane(Whole(w))
<1> DEFINE s == save[w].copy
           o == objs[Object(w)]
           c == o.ctx
           n == [s EXCEPT !.ctx = c]
<1>1. s \in Sessions /\ s.tok = o.tok /\ s.buf <= o.buf BY DEF Placed
<1>2. o \in Sessions /\ Object(w) \in 1..Cur BY ObjectType
<1>3. Sane(o) BY <1>2 DEF Typed
<1>4. c \in [Users -> 0..NoKey] /\ o.buf \in Nat /\ s.buf \in Nat /\ Len(log) \in Nat
  BY <1>1, <1>2, SessionFields, ObjsType
<1>5. Whole(w) = n BY DEF Whole
<1> HIDE DEF s, o
<1>6. n \in Sessions /\ n.tok = s.tok /\ n.buf = s.buf /\ n.ctx = c
  <2> HIDE DEF c
  <2> QED BY <1>1, <1>4 DEF Sessions
<1> HIDE DEF n
<1>7. Sane(n) BY <1>1, <1>3, <1>4, <1>6 DEF Sane
<1> QED BY <1>1, <1>5, <1>6, <1>7 DEF s, o

LEMMA WriteDoes ==
    ASSUME Typed, Placed, NEW w \in Savers, Write(w)
    PROVE  /\ save[w].at = "taken" /\ save[w].copy \in Sessions
           /\ save' \in [Savers -> Saves] /\ save'[w].at = "no"
           /\ \A x \in Savers : x # w => save'[x] = save[x]
           /\ stored' = Whole(w) \/ (save[w].mixed /\ stored' = Torn)
           /\ thread' \in [Users -> Threads]
           /\ \A u \in Users : u # w => thread'[u] = thread[u]
           /\ w # Main => /\ thread'[w] = NoThread /\ pc' = pc
                          /\ kept' = IF thread[w].obj = Cur THEN kept \cup thread[w].msgs ELSE kept
           /\ w = Main => pc' = "loop" /\ thread' = thread /\ kept' = kept
           /\ UNCHANGED <<log, code, codes, accepted, runs, qrcode, polls, objs, inbox, answer, pending,
                          base, lost, odd>>
<1>1. save[w].at = "taken" /\ save[w].copy \in Sessions BY DEF Write, Placed
<1>2. save' \in [Savers -> Saves] /\ save'[w].at = "no" /\ \A x \in Savers : x # w => save'[x] = save[x]
  BY SavesType, NotSavingType DEF Write
<1>3. stored' = Whole(w) \/ (save[w].mixed /\ stored' = Torn) BY DEF Write, Whole
<1>4. /\ thread' \in [Users -> Threads] /\ \A u \in Users : u # w => thread'[u] = thread[u]
      /\ w # Main => thread'[w] = NoThread
  <2>1. thread \in [Users -> Threads] BY ThreadsType
  <2>2. CASE w = Main BY <2>1, <2>2 DEF Write
  <2>3. CASE w # Main
    <3>1. w \in Users BY <2>3, Numbers
    <3> QED BY <2>1, <2>3, <3>1, NoThreadType DEF Write
  <2> QED BY <2>2, <2>3
<1> QED BY <1>1, <1>2, <1>3, <1>4 DEF Write, server, login, incoming

LEMMA WriteFailsDoes ==
    ASSUME Typed, Placed, NEW w \in Savers, WriteFails(w)
    PROVE  /\ save[w].at = "taken" /\ w \in Users
           /\ save' \in [Savers -> Saves] /\ save'[w].at = "no"
           /\ \A x \in Savers : x # w => save'[x] = save[x]
           /\ stored' = Torn /\ thread' \in [Users -> Threads] /\ thread'[w] = NoThread
           /\ \A u \in Users : u # w => thread'[u] = thread[u]
           /\ odd' = odd \cup {"key"}
           /\ UNCHANGED <<log, code, codes, accepted, runs, pc, qrcode, polls, objs, inbox, answer, pending,
                          kept, base, lost>>
<1>1. save[w].at = "taken" /\ w \in Users BY Numbers DEF WriteFails
<1>2. save' \in [Savers -> Saves] /\ save'[w].at = "no" /\ \A x \in Savers : x # w => save'[x] = save[x]
  BY SavesType, NotSavingType DEF WriteFails
<1>3. thread' \in [Users -> Threads] /\ thread'[w] = NoThread
      /\ \A u \in Users : u # w => thread'[u] = thread[u]
  BY <1>1, ThreadsType, NoThreadType DEF WriteFails
<1> QED BY <1>1, <1>2, <1>3 DEF WriteFails, server, login, incoming, history

\* The phone and the server, or nothing.
Signalled ==
    /\ accepted' \in {accepted, 0} /\ code' \in [Codes -> Stages]
    /\ UNCHANGED <<log, codes, stored, runs, pc, qrcode, polls, objs, inbox, answer, pending, thread, save,
                   kept, base, lost, odd>>

LEMMA StartDoes ==
    ASSUME Typed, Placed, Start
    PROVE  /\ pc = "down" /\ runs' \in 0..MaxRuns
           /\ \/ stored \in Sessions /\ pc' = "loop" /\ objs' = <<stored>>
              \/ stored \notin Sessions /\ pc' \in {"down", "newcode"} /\ objs' = <<>>
           /\ UNCHANGED <<log, code, codes, accepted, stored, qrcode, polls, inbox, answer, pending, thread,
                          save, kept, base, lost, odd>>
<1>1. stored \in Sessions \cup {Torn, Missing} /\ runs \in 0..MaxRuns
  BY DEF Typed, ChannelTypeOK
<1>2. CASE stored \in Sessions
  BY <1>1, <1>2, NoSessions, Numbers DEF Start, server, login, incoming, history
<1>3. CASE stored \notin Sessions
  BY <1>1, <1>3, NoSessions, Numbers DEF Start, server, login, incoming, history
<1> QED BY <1>2, <1>3

LEMMA OverDoes ==
    ASSUME Over
    PROVE  /\ pc' = "down" /\ objs' = <<>> /\ qrcode' = 0 /\ polls' = 0
           /\ inbox' = {} /\ answer' = {} /\ pending' = {}
           /\ thread' = [u \in Users |-> NoThread] /\ save' = [w \in Savers |-> NotSaving]
           /\ odd' = odd \cup (IF Busy # {} THEN {"midsave"} ELSE {})
           /\ UNCHANGED <<log, code, codes, accepted, stored, runs, kept, base, lost>>
BY DEF Over, server, history

LEMMA ChannelSteps ==
    ASSUME Typed, Placed, [ChannelNext]_channelVars
    PROVE  \/ Start \/ (pc # "down" /\ Over) \/ RemoveFile
           \/ Asking \/ LoggingIn \/ Signalled
           \/ Refused \/ Poll \/ Parse \/ ParseFails
           \/ \E u \in Users : Dispatch(u) \/ Turning(u)
           \/ \E w \in Savers : Saving(w)
<1>1. code \in [Codes -> Stages] BY DEF Typed, ChannelTypeOK
<1>2. CASE Phone BY <1>1, <1>2 DEF Phone, Signalled, Stages, login, incoming, history
<1>3. CASE Expire BY <1>1, <1>3 DEF Expire, Signalled, login, incoming, history
<1>4. CASE UNCHANGED channelVars
  BY <1>1, <1>4 DEF channelVars, Signalled, server, login, incoming, history
<1>5. CASE Login BY <1>5, LoginDoes
<1>6. ASSUME NEW u \in Users, Turn(u) PROVE Dispatch(u) \/ Turning(u)
  BY <1>6 DEF Turn, Turning
<1> QED BY <1>2, <1>3, <1>4, <1>5, <1>6 DEF ChannelNext, End
-----------------------------------------------------------------------------
(* Type correctness.                                                       *)

LEMMA ChannelInitType == ChannelInit => Typed /\ Placed
<1> SUFFICES ASSUME ChannelInit PROVE Typed /\ Placed OBVIOUS
<1>1. ChannelTypeOK
  <2>1. log \in Seq(Inbound) /\ objs \in Seq(Sessions) /\ Len(log) = 0
    BY EmptySeq DEF ChannelInit
  <2>2. code \in [Codes -> Stages] /\ base \in [Codes -> 0..MaxMsgs]
    BY Numbers DEF ChannelInit, Stages
  <2>3. \A u \in Users : thread[u].at = "none" BY NoThreadType DEF ChannelInit
  <2>4. save \in [Savers -> Saves] BY NotSavingType DEF ChannelInit
  <2> QED BY <2>1, <2>2, <2>3, <2>4, Numbers DEF ChannelInit, ChannelTypeOK, Saves
<1>2. Cur = 0 BY EmptySeq DEF ChannelInit, Cur
<1>3. Typed
  <2>1. \A u \in Users : thread[u].msgs = {} BY NoThreadType DEF ChannelInit
  <2>2. thread \in [Users -> Threads] BY NoThreadType DEF ChannelInit
  <2>3. stored \notin Sessions BY NoSessions DEF ChannelInit
  <2>4. \A c \in Codes : base[c] <= Len(log) BY EmptySeq DEF ChannelInit
  <2> QED BY <1>1, <1>2, <2>1, <2>2, <2>3, <2>4 DEF Typed
<1>4. Placed
  <2>1. \A u \in Users : thread[u].at = "none" BY NoThreadType DEF ChannelInit
  <2>2. \A w \in Savers : save[w].at = "no" BY NotSavingType DEF ChannelInit
  <2> QED BY <2>1, <2>2, Numbers DEF Placed, ChannelInit
<1> QED BY <1>3, <1>4

\* The log only grows, and so do the codes.
LEMMA GrowStep ==
    ASSUME Typed, Placed, [ChannelNext]_channelVars
    PROVE  LogGrows /\ codes' \in Nat /\ codes' >= codes /\ Len(log') \in Nat
<1>1. Len(log) \in Nat /\ codes \in Nat BY ObjsType
<1>2. CASE Poll BY <1>1, <1>2, PollDoes
<1>3. CASE ~Poll
  <2>1. log' = log /\ (codes' = codes \/ codes' = codes + 1)
    BY <1>3, ChannelSteps
       DEF Start, Over, RemoveFile, Asking, LoggingIn, Signalled, Refused, Parse, ParseFails, Dispatch, Turning,
           SendItem, Reply, Fail, ThreadOnly, Saving, OpenFile, Take, Write, WriteFails, server
  <2> QED BY <1>1, <2>1 DEF LogGrows
<1> QED BY <1>2, <1>3

LEMMA TypedStep ==
    ASSUME Typed, Placed, [ChannelNext]_channelVars
    PROVE  /\ ChannelTypeOK' /\ thread' \in [Users -> Threads]
           /\ \A u \in Users : thread'[u].msgs \subseteq 1..Len(log')
<1> DEFINE Good == /\ ChannelTypeOK /\ thread \in [Users -> Threads]
                   /\ \A u \in Users : thread[u].msgs \subseteq 1..Len(log)
<1> SUFFICES Good' OBVIOUS
<1>1. /\ log \in Seq(Inbound) /\ Len(log) <= MaxMsgs /\ Len(log) \in Nat
      /\ code \in [Codes -> Stages] /\ codes \in 0..MaxCodes /\ accepted \in 0..MaxCodes
      /\ stored \in Sessions \cup {Torn, Missing} /\ runs \in 0..MaxRuns
      /\ pc \in {"down", "newcode", "wait", "number", "save", "loop"}
      /\ qrcode \in 0..MaxCodes /\ polls \in 0..MaxPolls
      /\ objs \in Seq(Sessions) /\ (pc \in {"save", "loop"} => objs # <<>>)
      /\ inbox \subseteq 1..Len(log) /\ answer \subseteq 1..Len(log) /\ pending \subseteq 1..Len(log)
      /\ \A u \in Users : /\ thread[u].at \in {"none", "handle", "save"}
                          /\ thread[u].at # "none" => thread[u].obj \in 1..Cur
      /\ save \in [Savers -> Saves]
      /\ kept \subseteq 1..Len(log) /\ lost \subseteq 1..Len(log) /\ base \in [Codes -> 0..MaxMsgs]
      /\ thread \in [Users -> Threads]
      /\ \A u \in Users : thread[u].msgs \subseteq 1..Len(log)
      /\ Cur \in Nat
  BY ObjsType DEF Typed, ChannelTypeOK, Saves
<1>2. ASSUME /\ log' \in Seq(Inbound) /\ Len(log') <= MaxMsgs
             /\ code' \in [Codes -> Stages] /\ codes' \in 0..MaxCodes /\ accepted' \in 0..MaxCodes
             /\ stored' \in Sessions \cup {Torn, Missing} /\ runs' \in 0..MaxRuns
             /\ pc' \in {"down", "newcode", "wait", "number", "save", "loop"}
             /\ qrcode' \in 0..MaxCodes /\ polls' \in 0..MaxPolls
             /\ objs' \in Seq(Sessions) /\ (pc' \in {"save", "loop"} => objs' # <<>>)
             /\ inbox' \subseteq 1..Len(log') /\ answer' \subseteq 1..Len(log')
             /\ pending' \subseteq 1..Len(log')
             /\ \A u \in Users : thread'[u].at # "none" => thread'[u].obj \in 1..Cur'
             /\ save' \in [Savers -> Saves]
             /\ kept' \subseteq 1..Len(log') /\ lost' \subseteq 1..Len(log')
             /\ base' \in [Codes -> 0..MaxMsgs]
             /\ thread' \in [Users -> Threads]
             /\ \A u \in Users : thread'[u].msgs \subseteq 1..Len(log')
      PROVE  Good'
  <2>1. \A u \in Users : thread'[u].at \in {"none", "handle", "save"}
    BY <1>2 DEF Threads
  <2> QED BY <1>2, <2>1 DEF ChannelTypeOK, Saves
<1> HIDE DEF Good
<1>3. CASE Start
  <2>1. \A u \in Users : thread[u].at = "none" BY <1>3, StartDoes DEF Placed
  <2>2. objs' \in Seq(Sessions) /\ (pc' = "loop" => objs' # <<>>)
    <3>1. CASE stored \in Sessions
      <4>1. objs' = <<stored>> BY <1>3, <3>1, StartDoes
      <4> QED BY <3>1, <4>1
    <3>2. CASE stored \notin Sessions BY <1>3, <3>2, StartDoes, EmptySeq
    <3> QED BY <3>1, <3>2
  <2> QED BY <1>1, <1>2, <1>3, <2>1, <2>2, StartDoes
<1>4. CASE Over
  <2>1. objs' \in Seq(Sessions) BY <1>4, OverDoes, EmptySeq
  <2>2. /\ thread' \in [Users -> Threads] /\ save' \in [Savers -> Saves]
        /\ \A u \in Users : thread'[u].at = "none" /\ thread'[u].msgs = {}
    BY <1>4, OverDoes, NoThreadType, NotSavingType
  <2>3. /\ pc' = "down" /\ qrcode' = 0 /\ polls' = 0 /\ inbox' = {} /\ answer' = {} /\ pending' = {}
        /\ UNCHANGED <<log, code, codes, accepted, stored, runs, kept, base, lost>>
    BY <1>4, OverDoes
  <2> QED BY <1>1, <1>2, <2>1, <2>2, <2>3, Numbers
<1>5. CASE RemoveFile
  BY <1>1, <1>2, <1>5 DEF RemoveFile, server, login, incoming, history, Cur
<1>6. CASE Asking
  <2>1. codes' \in 0..MaxCodes /\ qrcode' \in 0..MaxCodes BY <1>1, <1>6, Numbers DEF Asking
  <2> QED BY <1>1, <1>2, <1>6, <2>1 DEF Asking, Cur
<1>7. CASE LoggingIn
  <2>1. qrcode \in Codes BY <1>1, <1>7, Numbers DEF LoggingIn, Placed
  <2>2. objs' \in Seq(Sessions) /\ Len(objs') = Len(objs) + 1 /\ objs' # <<>>
    <3> DEFINE n == NewSession(qrcode)
    <3>1. n \in Sessions BY <2>1, NewSessionType
    <3>2. objs' = Append(objs, n) BY <1>7 DEF LoggingIn
    <3> HIDE DEF n
    <3>3. objs' \in Seq(Sessions) /\ Len(objs') = Len(objs) + 1
      BY <1>1, <3>1, <3>2, AppendProperties
    <3> QED BY <1>1, <3>3, EmptySeq DEF Cur
  <2>3. \A u \in Users : thread'[u].at # "none" => thread'[u].obj \in 1..Cur'
    BY <1>1, <1>7, <2>2 DEF LoggingIn, Cur
  <2> QED BY <1>1, <1>2, <1>7, <2>1, <2>2, <2>3, Numbers DEF LoggingIn
<1>8. CASE Signalled BY <1>1, <1>2, <1>8, Numbers DEF Signalled, Cur
<1>9. CASE Refused
  BY <1>1, <1>2, <1>9 DEF Refused, server, login, incoming, history, Cur
<1>10. CASE Poll
  <2>1. objs' # <<>> BY <1>1, <1>10, PollDoes, EmptySeq DEF Cur
  <2>2. base' \in [Codes -> 0..MaxMsgs]
    <3>1. PICK t : base' \in {base, [base EXCEPT ![t] = Len(log)]} BY <1>10, PollDoes
    <3>2. Len(log) \in 0..MaxMsgs BY <1>1, Numbers
    <3> QED BY <1>1, <3>1, <3>2
  <2>3. inbox' \subseteq 1..Len(log') BY <1>1, <1>10, PollDoes
  <2>4. 1..Len(log) \subseteq 1..Len(log') BY <1>1, <1>10, PollDoes DEF LogGrows
  <2> QED BY <1>1, <1>2, <1>10, <2>1, <2>2, <2>3, <2>4, PollDoes
<1>11. CASE Parse
  <2>1. objs' # <<>> BY <1>1, <1>11, ParseDoes, EmptySeq DEF Cur
  <2> QED BY <1>1, <1>2, <1>11, <2>1, ParseDoes
<1>18. CASE ParseFails BY <1>1, <1>2, <1>18, ParseFailsDoes DEF Cur
<1>12. ASSUME NEW u \in Users, Dispatch(u) PROVE Good'
  <2>1. /\ \A v \in Users : thread'[v].at # "none" => thread'[v].obj \in 1..Cur'
        /\ \A v \in Users : thread'[v].msgs \subseteq 1..Len(log')
    <3>1. /\ Cur' = Cur /\ Cur > 0 /\ log' = log
          /\ \A v \in Users : v # u => thread'[v] = thread[v]
          /\ thread'[u].obj = Cur /\ thread'[u].msgs = {m \in pending : log[m].user = u}
      BY <1>12, DispatchDoes DEF Cur
    <3>2. thread'[u].msgs \subseteq 1..Len(log) BY <1>1, <3>1
    <3>3. Cur \in 1..Cur' BY <1>1, <3>1
    <3>4. ASSUME NEW v \in Users
          PROVE  /\ thread'[v].at # "none" => thread'[v].obj \in 1..Cur'
                 /\ thread'[v].msgs \subseteq 1..Len(log')
      <4>1. CASE v = u BY <3>1, <3>2, <3>3, <4>1
      <4>2. CASE v # u BY <1>1, <3>1, <4>2
      <4> QED BY <4>1, <4>2
    <3> QED BY <3>4
  <2> QED BY <1>1, <1>2, <1>12, <2>1, DispatchDoes
<1>13. ASSUME NEW u \in Users, Turning(u) PROVE Good'
  <2>1. /\ \A v \in Users : thread'[v].at # "none" => thread'[v].obj \in 1..Cur'
        /\ \A v \in Users : thread'[v].msgs \subseteq 1..Len(log')
    BY <1>1, <1>13, TurnDoes, NoThreadType DEF Cur
  <2> QED BY <1>1, <1>2, <1>13, <2>1, TurnDoes
<1>14. ASSUME NEW w \in Savers, OpenFile(w) PROVE Good'
  BY <1>1, <1>2, <1>14, OpenDoes DEF Cur
<1>15. ASSUME NEW w \in Savers, Take(w) PROVE Good'
  BY <1>1, <1>2, <1>15, TakeDoes DEF Cur
<1>16. ASSUME NEW w \in Savers, Write(w) PROVE Good'
  <2>1. stored' \in Sessions \cup {Torn, Missing} BY <1>16, WriteDoes, WholeType
  <2>2. /\ \A v \in Users : thread'[v].at # "none" => thread'[v].obj \in 1..Cur'
        /\ \A v \in Users : thread'[v].msgs \subseteq 1..Len(log')
    BY <1>1, <1>16, WriteDoes, NoThreadType DEF Cur
  <2>3. kept' \subseteq 1..Len(log') /\ pc' \in {pc, "loop"} /\ (pc' = "loop" => objs' # <<>>)
    <3>1. CASE w = Main
      <4>1. pc = "save" BY <1>16, <3>1, WriteDoes DEF Placed
      <4> QED BY <1>1, <1>16, <3>1, <4>1, WriteDoes
    <3>2. CASE w # Main
      <4>1. w \in Users BY <3>2, Numbers
      <4> QED BY <1>1, <1>16, <3>2, <4>1, WriteDoes
    <3> QED BY <3>1, <3>2
  <2> QED BY <1>1, <1>2, <1>16, <2>1, <2>2, <2>3, WriteDoes
<1>17. ASSUME NEW w \in Savers, WriteFails(w) PROVE Good'
  <2>1. /\ \A v \in Users : thread'[v].at # "none" => thread'[v].obj \in 1..Cur'
        /\ \A v \in Users : thread'[v].msgs \subseteq 1..Len(log')
    BY <1>1, <1>17, WriteFailsDoes, NoThreadType DEF Cur
  <2> QED BY <1>1, <1>2, <1>17, <2>1, WriteFailsDoes
<1> QED
  BY <1>3, <1>4, <1>5, <1>6, <1>7, <1>8, <1>9, <1>10, <1>11, <1>12, <1>13, <1>14, <1>15, <1>16,
     <1>17, <1>18, ChannelSteps DEF Saving

\* Sessions, in memory and saved, stay such as could have been made.
LEMMA SaneStep ==
    ASSUME Typed, Placed, [ChannelNext]_channelVars
    PROVE  /\ (\A i \in 1..Cur : Sane(objs[i]))'
           /\ (stored \in Sessions => Sane(stored))'
           /\ \A c \in Codes : base'[c] <= Len(log')
<1> DEFINE SaneNow(s) == /\ s.buf <= Len(log') /\ s.tok <= codes'
                         /\ \A u \in Users : s.ctx[u] \in 1..MaxMsgs =>
                               s.ctx[u] <= Len(log') /\ log'[s.ctx[u]].user = u
<1>1. /\ LogGrows /\ codes' \in Nat /\ codes' >= codes /\ Len(log') \in Nat BY GrowStep
<1>2. \A s \in Sessions : Sane(s) => SaneNow(s)
  <2>1. ASSUME NEW s \in Sessions, Sane(s) PROVE SaneNow(s)
    <3>1. Sane(s)' BY <1>1, <2>1, SaneStays
    <3> QED BY <3>1 DEF Sane
  <2> QED BY <2>1
<1>3. /\ \A i \in 1..Cur : objs[i] \in Sessions /\ Sane(objs[i])
      /\ stored \in Sessions => Sane(stored)
      /\ \A c \in Codes : base[c] <= Len(log) /\ base[c] \in Nat
      /\ Len(log) \in Nat /\ objs \in Seq(Sessions) /\ Cur \in Nat /\ Cur = Len(objs)
  BY ObjsType DEF Typed, Cur, ChannelTypeOK
<1>4. SUFFICES /\ \A i \in 1..Len(objs') : SaneNow(objs'[i])
               /\ stored' \in Sessions => SaneNow(stored')
               /\ \A c \in Codes : base'[c] <= Len(log')
  BY DEF Sane, Cur
<1>5. CASE Start
  <2>1. base' = base /\ stored' = stored BY <1>5, StartDoes
  <2>2. CASE stored \in Sessions
    <3>1. objs' = <<stored>> BY <1>5, <2>2, StartDoes
    <3>2. SaneNow(stored) BY <1>2, <1>3, <2>2
    <3> HIDE DEF SaneNow
    <3>3. Len(objs') = 1 /\ objs'[1] = stored BY <3>1
    <3> QED BY <1>1, <1>3, <2>1, <3>2, <3>3 DEF LogGrows
  <2>3. CASE stored \notin Sessions
    <3>1. Len(objs') = 0 BY <1>5, <2>3, StartDoes, EmptySeq
    <3> QED BY <1>1, <1>3, <2>1, <2>3, <3>1 DEF LogGrows
  <2> QED BY <2>2, <2>3
<1>6. CASE Over
  <2>1. base' = base /\ stored' = stored /\ Len(objs') = 0 BY <1>6, OverDoes, EmptySeq
  <2> HIDE DEF SaneNow
  <2> QED BY <1>1, <1>2, <1>3, <2>1 DEF LogGrows
<1>7. ASSUME base' = base, objs' = objs,
             \/ stored' \in {stored, Torn, Missing}
             \/ \E w \in Savers : save[w].at = "taken" /\ stored' = Whole(w)
      PROVE  /\ \A i \in 1..Len(objs') : SaneNow(objs'[i])
             /\ stored' \in Sessions => SaneNow(stored')
             /\ \A c \in Codes : base'[c] <= Len(log')
  <2> HIDE DEF SaneNow
  <2>1. stored' \in Sessions => SaneNow(stored')
    <3>1. CASE stored' \in {stored, Torn, Missing} BY <1>2, <1>3, <3>1, NoSessions
    <3>2. CASE \E w \in Savers : save[w].at = "taken" /\ stored' = Whole(w)
      BY <1>2, <3>2, WholeType
    <3> QED BY <1>7, <3>1, <3>2
  <2> QED BY <1>1, <1>2, <1>3, <1>7, <2>1 DEF LogGrows
<1>8. CASE RemoveFile \/ Asking \/ Signalled \/ Refused \/ ParseFails \/ (\E u \in Users : Dispatch(u) \/ Turning(u))
              \/ \E w \in Savers : OpenFile(w) \/ Take(w) \/ WriteFails(w)
  <2>1. base' = base /\ objs' = objs /\ stored' \in {stored, Torn, Missing}
    BY <1>8, ParseFailsDoes, DispatchDoes, TurnDoes, OpenDoes, TakeDoes, WriteFailsDoes
       DEF RemoveFile, Asking, Signalled, Refused, history
  <2> QED BY <1>7, <2>1
<1>9. CASE \E w \in Savers : Write(w)
  <2>1. PICK w \in Savers : Write(w) BY <1>9
  <2>2. base' = base /\ objs' = objs /\ save[w].at = "taken" /\ stored' \in {Whole(w), Torn}
    BY <2>1, WriteDoes
  <2> QED BY <1>7, <2>2
<1>10. CASE LoggingIn
  <2>1. qrcode \in Codes /\ qrcode <= codes /\ codes' = codes /\ stored' = stored /\ base' = base
    BY <1>10, Numbers DEF LoggingIn, Placed, Typed, ChannelTypeOK
  <2> DEFINE n == NewSession(qrcode)
  <2>2. n \in Sessions /\ Sane(n)
    BY <1>3, <2>1, NewSessionType, Numbers DEF Sane
  <2>3. objs' = Append(objs, n) BY <1>10 DEF LoggingIn
  <2> HIDE DEF n, SaneNow
  <2>4. /\ Len(objs') = Cur + 1 /\ objs'[Cur + 1] = n
        /\ \A i \in 1..Cur : objs'[i] = objs[i]
    BY <1>3, <2>2, <2>3, AppendProperties
  <2>5. \A i \in 1..Len(objs') : SaneNow(objs'[i])
    BY <1>2, <1>3, <2>2, <2>4
  <2> QED BY <1>1, <1>2, <1>3, <2>1, <2>5 DEF LogGrows
<1>11. CASE Poll
  <2> DEFINE s == objs[Cur]
  <2>1. /\ Cur > 0 /\ s \in Sessions /\ stored' = stored
        /\ Cur' = Cur /\ objs'[Cur].tok = s.tok /\ objs'[Cur].buf = Len(log') /\ objs'[Cur].ctx = s.ctx
        /\ \A i \in 1..Cur : i # Cur => objs'[i] = objs[i]
        /\ base' = IF s.buf = 0 THEN [base EXCEPT ![s.tok] = Len(log)] ELSE base
    BY <1>11, PollDoes
  <2>2. \A c \in Codes : base'[c] <= Len(log')
    <3>1. base \in [Codes -> 0..MaxMsgs] /\ s.tok \in Codes
      BY <2>1, SessionFields, Numbers DEF Typed, ChannelTypeOK
    <3> HIDE DEF s, SaneNow
    <3> QED BY <1>1, <1>3, <2>1, <3>1 DEF LogGrows
  <2>3. SaneNow(s) BY <1>2, <1>3, <2>1
  <2>4. SaneNow(objs'[Cur]) BY <1>1, <2>1, <2>3
  <2> HIDE DEF SaneNow
  <2> QED BY <1>2, <1>3, <2>1, <2>2, <2>4 DEF Cur
<1>12. CASE Parse
  <2>1. PICK m \in inbox :
               LET u == log[m].user  s == objs[Cur] IN
               /\ pc = "loop" /\ Cur > 0 /\ s \in Sessions
               /\ m \in 1..Len(log) /\ u \in Users
               /\ objs' \in Seq(Sessions) /\ Cur' = Cur
               /\ objs'[Cur].tok = s.tok /\ objs'[Cur].buf = s.buf
               /\ objs'[Cur].ctx[u] = IF log[m].kind = "token" THEN m ELSE s.ctx[u]
               /\ \A v \in Users : v # u => objs'[Cur].ctx[v] = s.ctx[v]
               /\ \A i \in 1..Cur : i # Cur => objs'[i] = objs[i]
               /\ log' = log /\ stored' = stored /\ base' = base
    BY <1>12, ParseDoes
  <2>2. SaneNow(objs[Cur]) BY <1>2, <1>3, <2>1
  <2>3. SaneNow(objs'[Cur]) BY <1>1, <1>3, <2>1, <2>2
  <2> HIDE DEF SaneNow
  <2> QED BY <1>1, <1>2, <1>3, <2>1, <2>3 DEF Cur, LogGrows
<1> QED
  BY <1>5, <1>6, <1>8, <1>9, <1>10, <1>11, <1>12, ChannelSteps DEF Saving

\* A session in memory keeps its login, and its cursor never goes back, as long
\* as the process lives.
Onward(i) == objs'[i].tok = objs[i].tok /\ objs'[i].buf >= objs[i].buf

LEMMA OnwardStep ==
    ASSUME Typed, Placed, [ChannelNext]_channelVars, pc # "down", ~Over
    PROVE  Cur' >= Cur /\ Cur' \in Nat /\ \A i \in 1..Cur : Onward(i)
<1>1. /\ Cur \in Nat /\ objs \in Seq(Sessions) /\ Cur = Len(objs) /\ Len(log) \in Nat
      /\ \A i \in 1..Cur : objs[i] \in Sessions /\ objs[i].buf \in Nat /\ Sane(objs[i])
  BY ObjsType, SessionFields DEF Cur, Typed
<1>2. CASE objs' = objs BY <1>1, <1>2 DEF Onward, Cur
<1>3. CASE LoggingIn
  <2> DEFINE n == NewSession(qrcode)
  <2>1. qrcode \in Codes
    BY <1>3, Numbers DEF LoggingIn, Placed, Typed, ChannelTypeOK
  <2>2. n \in Sessions /\ objs' = Append(objs, n) BY <1>3, <2>1, NewSessionType DEF LoggingIn
  <2> HIDE DEF n
  <2>3. Len(objs') = Len(objs) + 1 /\ \A i \in 1..Len(objs) : objs'[i] = objs[i]
    BY <1>1, <2>2, AppendProperties
  <2> QED BY <1>1, <2>3 DEF Onward, Cur
<1>4. CASE Poll
  <2>1. /\ Cur' = Cur /\ Cur > 0 /\ \A i \in 1..Cur : i # Cur => objs'[i] = objs[i]
        /\ objs'[Cur].tok = objs[Cur].tok /\ objs'[Cur].buf = Len(log')
        /\ Len(log') >= Len(log)
    BY <1>4, PollDoes DEF LogGrows
  <2>2. objs[Cur].buf <= Len(log) /\ objs[Cur].buf \in Nat BY <1>1, <2>1 DEF Sane
  <2>3. Len(log') \in Nat BY <1>4, PollDoes
  <2> QED BY <1>1, <2>1, <2>2, <2>3 DEF Onward
<1>5. CASE Parse
  <2>1. /\ Cur' = Cur /\ Cur > 0 /\ \A i \in 1..Cur : i # Cur => objs'[i] = objs[i]
        /\ objs'[Cur].tok = objs[Cur].tok /\ objs'[Cur].buf = objs[Cur].buf
    BY <1>5, ParseDoes
  <2> QED BY <1>1, <2>1 DEF Onward
<1>6. objs' = objs \/ LoggingIn \/ Poll \/ Parse
  BY ChannelSteps, StartDoes, ParseFailsDoes, DispatchDoes, TurnDoes, OpenDoes, TakeDoes, WriteDoes, WriteFailsDoes
     DEF RemoveFile, Asking, Signalled, Refused, Saving
<1> QED BY <1>2, <1>3, <1>4, <1>5, <1>6

\* Who is in a save stays in it with its session, or comes out.
LEMMA SaveStays ==
    ASSUME Typed, Placed, [ChannelNext]_channelVars, pc # "down", ~Over, NEW w \in Savers,
           save[w].at # "no", save'[w].at # "no"
    PROVE  /\ Object(w)' = Object(w) /\ Onward(Object(w)) /\ Object(w) \in 1..Cur
           /\ w = Main => pc' = "save" /\ Cur' = Cur
           /\ w # Main => thread'[w].at = "save" /\ thread'[w].obj = thread[w].obj
                          /\ thread'[w].msgs = thread[w].msgs
<1>1. /\ Object(w) \in 1..Cur
      /\ w # Main => w \in Users /\ thread[w].at = "save" /\ Object(w) = thread[w].obj
      /\ w = Main => Object(w) = Cur /\ pc = "save"
  BY ObjectType
<1>2. Onward(Object(w)) BY <1>1, OnwardStep
<1>3. CASE w = Main
  <2>1. pc' = "save" /\ Cur' = Cur
    <3>1. CASE RemoveFile \/ Start BY <3>1, StartDoes DEF RemoveFile
    <3>2. CASE Asking \/ LoggingIn \/ Refused \/ Poll \/ Parse \/ ParseFails \/ \E u \in Users : Dispatch(u)
      BY <1>1, <1>3, <3>2 DEF Asking, LoggingIn, Refused, Poll, Parse, ParseFails, Dispatch
    <3>3. CASE Signalled \/ \E u \in Users : Turning(u)
      BY <1>1, <1>3, <3>3, TurnDoes DEF Signalled, Cur
    <3>4. ASSUME NEW x \in Savers, OpenFile(x) \/ Take(x) \/ WriteFails(x)
          PROVE  pc' = "save" /\ Cur' = Cur
      BY <1>1, <1>3, <3>4, OpenDoes, TakeDoes, WriteFailsDoes DEF Cur
    <3>5. ASSUME NEW x \in Savers, Write(x) PROVE pc' = "save" /\ Cur' = Cur
      <4>1. x # Main BY <1>3, <3>5, WriteDoes
      <4> QED BY <1>1, <1>3, <3>5, <4>1, WriteDoes DEF Cur
    <3> QED BY <3>1, <3>2, <3>3, <3>4, <3>5, ChannelSteps DEF Saving
  <2> QED BY <1>1, <1>2, <1>3, <2>1 DEF Object
<1>4. CASE w # Main
  <2>1. thread'[w] = thread[w]
    <3>1. CASE RemoveFile \/ Start BY <3>1, StartDoes DEF RemoveFile
    <3>2. CASE Asking \/ LoggingIn \/ Refused \/ Poll \/ Parse \/ ParseFails \/ Signalled
      BY <3>2, PollDoes, ParseDoes, ParseFailsDoes DEF Asking, LoggingIn, Refused, Signalled
    <3>3. ASSUME NEW u \in Users, Dispatch(u) \/ Turning(u) PROVE thread'[w] = thread[w]
      <4>1. w # u BY <1>1, <1>4, <3>3, DispatchDoes, TurnDoes
      <4> QED BY <1>1, <1>4, <3>3, <4>1, DispatchDoes, TurnDoes
    <3>4. ASSUME NEW x \in Savers, OpenFile(x) \/ Take(x) PROVE thread'[w] = thread[w]
      BY <3>4, OpenDoes, TakeDoes
    <3>5. ASSUME NEW x \in Savers, Write(x) \/ WriteFails(x) PROVE thread'[w] = thread[w]
      <4>1. x # w BY <3>5, WriteDoes, WriteFailsDoes
      <4> QED BY <1>1, <1>4, <3>5, <4>1, WriteDoes, WriteFailsDoes
    <3> QED BY <3>1, <3>2, <3>3, <3>4, <3>5, ChannelSteps DEF Saving
  <2> QED BY <1>1, <1>2, <1>4, <2>1 DEF Object
<1> QED BY <1>3, <1>4

LEMMA PlacedStep ==
    ASSUME Typed, Placed, [ChannelNext]_channelVars
    PROVE  Placed'
<1> DEFINE Down == pc = "down" => /\ objs = <<>>
                                  /\ \A u \in Users : thread[u].at = "none"
                                  /\ \A w \in Savers : save[w].at = "no"
           Main1 == /\ pc # "loop" => inbox = {}
                    /\ pc \in {"wait", "number"} => qrcode \in 1..codes
           InSave == /\ save[Main].at # "no" => pc = "save"
                     /\ \A u \in Users : save[u].at # "no" => thread[u].at = "save"
                     /\ \A w \in Savers : save[w].at = "taken" =>
                          /\ save[w].copy \in Sessions /\ save[w].copy.tok = objs[Object(w)].tok
                          /\ save[w].copy.buf <= objs[Object(w)].buf
<1>1. Down /\ Main1 /\ InSave BY DEF Placed
<1>2. codes \in Nat /\ Len(log) \in Nat BY ObjsType
<1>3. CASE Over
  <2>1. pc' = "down" /\ objs' = <<>> /\ inbox' = {} BY <1>3, OverDoes
  <2>2. \A u \in Users : thread'[u].at = "none" BY <1>3, OverDoes, NoThreadType
  <2>3. \A w \in Savers : save'[w].at = "no" BY <1>3, OverDoes, NotSavingType
  <2> QED BY <2>1, <2>2, <2>3, Numbers DEF Placed
<1>4. CASE pc = "down" /\ ~Over
  <2>1. CASE Start
    <3>1. /\ thread' = thread /\ save' = save /\ inbox' = inbox
          /\ pc' \in {"loop", "down", "newcode"} /\ (pc' = "down" => objs' = <<>>)
      BY <2>1, StartDoes
    <3> QED BY <1>1, <1>4, <3>1, Numbers DEF Placed
  <2>2. CASE RemoveFile
    BY <1>1, <1>4, <2>2, Numbers DEF RemoveFile, Placed, server, login, incoming
  <2>3. CASE Signalled
    BY <1>1, <1>4, <2>3, Numbers DEF Signalled, Placed
  <2>4. ASSUME NEW u \in Users, Dispatch(u) \/ Turning(u) PROVE FALSE
    BY <1>1, <1>4, <2>4, DispatchDoes, TurnDoes
  <2>5. ASSUME NEW w \in Savers, Saving(w) PROVE FALSE
    BY <1>1, <1>4, <2>5, OpenDoes, TakeDoes, WriteDoes, WriteFailsDoes, ObjectType, ObjsType,
       EmptySeq DEF Saving, Cur
  <2> QED
    BY <1>4, <2>1, <2>2, <2>3, <2>4, <2>5, ChannelSteps
       DEF Asking, LoggingIn, Refused, Poll, Parse, ParseFails
<1>5. CASE pc # "down" /\ ~Over
  <2>1. pc' # "down" /\ Main1'
    <3>1. CASE RemoveFile \/ Start BY <1>5, <3>1, StartDoes DEF RemoveFile
    <3>2. CASE Asking BY <1>1, <1>2, <3>2 DEF Asking
    <3>3. CASE LoggingIn BY <3>3 DEF LoggingIn
    <3>4. CASE Refused BY <3>4 DEF Refused, incoming
    <3>5. CASE Poll BY <1>5, <3>5, PollDoes
    <3>6. CASE Parse \/ ParseFails BY <1>5, <3>6, ParseDoes, ParseFailsDoes
    <3>7. CASE Signalled BY <1>1, <1>5, <3>7 DEF Signalled
    <3>8. ASSUME NEW u \in Users, Dispatch(u) \/ Turning(u) PROVE pc' # "down" /\ Main1'
      BY <1>1, <1>5, <3>8, DispatchDoes, TurnDoes
    <3>9. ASSUME NEW w \in Savers, OpenFile(w) \/ Take(w) \/ WriteFails(w) PROVE pc' # "down" /\ Main1'
      BY <1>1, <1>5, <3>9, OpenDoes, TakeDoes, WriteFailsDoes
    <3>10. ASSUME NEW w \in Savers, Write(w) PROVE pc' # "down" /\ Main1'
      BY <1>1, <1>5, <3>10, WriteDoes
    <3> QED
      BY <1>5, <3>1, <3>2, <3>3, <3>4, <3>5, <3>6, <3>7, <3>8, <3>9, <3>10, ChannelSteps DEF Saving
  <2>2. ASSUME NEW w \in Savers, save'[w].at # "no", save[w].at # "no"
        PROVE  /\ w = Main => pc' = "save"
               /\ w # Main => thread'[w].at = "save"
    BY <1>5, <2>2, SaveStays
  <2>3. ASSUME NEW w \in Savers, save'[w].at # "no", save[w].at = "no"
        PROVE  OpenFile(w) /\ save'[w].at = "open"
    <3>1. save' # save BY <2>3
    <3>2. PICK x \in Savers : Saving(x)
      BY <1>5, <3>1, ChannelSteps, StartDoes, PollDoes, ParseDoes, ParseFailsDoes, DispatchDoes, TurnDoes
         DEF RemoveFile, Asking, LoggingIn, Signalled, Refused
    <3> QED BY <2>3, <3>2, OpenDoes, TakeDoes, WriteDoes, WriteFailsDoes DEF Saving
  <2>4. ASSUME NEW w \in Savers, save'[w].at # "no"
        PROVE  /\ w = Main => pc' = "save"
               /\ w # Main => thread'[w].at = "save"
    <3>1. CASE save[w].at # "no" BY <2>2, <2>4, <3>1
    <3>2. CASE save[w].at = "no"
      BY <2>3, <2>4, <3>2, OpenDoes DEF MaySave
    <3> QED BY <3>1, <3>2
  <2>5. ASSUME NEW w \in Savers, save'[w].at = "taken"
        PROVE  /\ save'[w].copy \in Sessions /\ (save[w].copy.tok = objs[Object(w)].tok)'
               /\ (save[w].copy.buf <= objs[Object(w)].buf)'
    <3>1. save[w].at # "no" BY <2>3, <2>5
    <3> DEFINE o == Object(w)
    <3>2. /\ Object(w)' = o /\ objs'[o].tok = objs[o].tok /\ objs'[o].buf >= objs[o].buf
          /\ o \in 1..Cur
      BY <1>5, <2>5, <3>1, SaveStays DEF Onward
    <3>3. objs[o] \in Sessions /\ objs[o].buf \in Nat BY <3>2, ObjsType, SessionFields
    <3>4. CASE save[w].at = "taken"
      <4>1. save'[w].copy = save[w].copy
        <5>1. CASE save' = save BY <5>1
        <5>2. CASE save' # save
          <6>1. PICK x \in Savers : Saving(x)
            BY <1>5, <5>2, ChannelSteps, StartDoes, PollDoes, ParseDoes, ParseFailsDoes, DispatchDoes, TurnDoes
               DEF RemoveFile, Asking, LoggingIn, Signalled, Refused
          <6> QED BY <2>5, <3>4, <6>1, OpenDoes, TakeDoes, WriteDoes, WriteFailsDoes DEF Saving
        <5> QED BY <5>1, <5>2
      <4>2. save[w].copy \in Sessions /\ save[w].copy.buf \in Nat /\ save[w].copy.tok = objs[o].tok
            /\ save[w].copy.buf <= objs[o].buf
        BY <1>1, <3>4, SessionFields
      <4>3. objs'[o].buf >= save[w].copy.buf
        <5>1. objs' \in Seq(Sessions) /\ o \in 1..Cur' /\ Cur' = Len(objs')
          BY <1>5, <3>2, OnwardStep, TypedStep, ObjsType DEF ChannelTypeOK, Cur
        <5>2. objs'[o] \in Sessions BY <5>1
        <5>3. objs'[o].buf \in Nat BY <5>2, SessionFields
        <5> HIDE DEF o
        <5> QED BY <3>2, <3>3, <4>2, <5>3
      <4> HIDE DEF o
      <4> QED BY <3>2, <4>1, <4>2, <4>3
    <3>5. CASE save[w].at = "open"
      <4>1. Take(w)
        <5>1. save' # save BY <2>5, <3>5
        <5>2. PICK x \in Savers : Saving(x)
          BY <1>5, <5>1, ChannelSteps, StartDoes, PollDoes, ParseDoes, ParseFailsDoes, DispatchDoes, TurnDoes
             DEF RemoveFile, Asking, LoggingIn, Signalled, Refused
        <5> QED BY <2>5, <3>5, <5>2, OpenDoes, TakeDoes, WriteDoes, WriteFailsDoes DEF Saving
      <4>2. save'[w].copy = objs[o] /\ objs' = objs BY <4>1, TakeDoes
      <4> HIDE DEF o
      <4> QED BY <3>2, <3>3, <4>2
    <3> QED BY <3>1, <3>4, <3>5, SavesType
  <2>6. InSave'
    <3>1. save'[Main].at # "no" => pc' = "save" BY <2>4, Numbers
    <3>2. \A u \in Users : save'[u].at # "no" => thread'[u].at = "save" BY <2>4, Numbers
    <3> QED BY <3>1, <3>2, <2>5
  <2> QED BY <2>1, <2>6 DEF Placed
<1> QED BY <1>3, <1>4, <1>5

LEMMA TypedAlways == ChannelSpec => [](Typed /\ Placed)
<1>1. Typed /\ Placed /\ [ChannelNext]_channelVars => Typed' /\ Placed'
  BY TypedStep, SaneStep, PlacedStep DEF Typed
<1> QED BY <1>1, ChannelInitType, PTL DEF ChannelSpec

\* The variables have their types, and a running process has a session, over any
\* number of starts, logins and messages.
THEOREM ChannelTypeCorrect == ChannelSpec => []ChannelTypeOK
<1>1. Typed => ChannelTypeOK BY DEF Typed
<1> QED BY <1>1, TypedAlways, PTL
-----------------------------------------------------------------------------
(* What is left of session.json.                                           *)

\* Only the saves, the end of the process and the user touch what they write.
LEMMA Unsaved ==
    ASSUME Typed, Placed, [ChannelNext]_channelVars, ~Over, ~ \E w \in Savers : Saving(w)
    PROVE  /\ save' = save /\ odd' = odd /\ kept' = kept
           /\ \/ stored' = stored
              \/ pc = "down" /\ pc' = "down" /\ stored' = Missing /\ UNCHANGED accepted
BY ChannelSteps, StartDoes, PollDoes, ParseDoes, ParseFailsDoes, DispatchDoes, TurnDoes
   DEF RemoveFile, Asking, LoggingIn, Signalled, Refused, server, history

LEMMA OddGrows ==
    ASSUME Typed, Placed, [ChannelNext]_channelVars
    PROVE  odd \subseteq odd'
<1>1. CASE Over BY <1>1, OverDoes
<1>2. ASSUME NEW w \in Savers, Saving(w) PROVE odd \subseteq odd'
  BY <1>2, OpenDoes, TakeDoes, WriteDoes, WriteFailsDoes DEF Saving
<1> QED BY <1>1, <1>2, Unsaved

\* Until two saves overlap there is one at a time, and none writes over another.
Lone ==
    "overlap" \notin odd => /\ \A w, x \in Busy : w = x
                            /\ \A w \in Busy : ~save[w].mixed

LEMMA InitLone == ChannelInit => Lone
BY NotSavingType DEF ChannelInit, Lone, Busy

LEMMA LoneStep ==
    Typed /\ Placed /\ Lone /\ [ChannelNext]_channelVars => Lone'
<1> SUFFICES ASSUME Typed, Placed, Lone, [ChannelNext]_channelVars, "overlap" \notin odd'
             PROVE  /\ \A w, x \in Busy' : w = x
                    /\ \A w \in Busy' : ~save'[w].mixed
  BY DEF Lone
<1>1. /\ \A w, x \in Busy : w = x
      /\ \A w \in Busy : ~save[w].mixed
  BY OddGrows DEF Lone
<1>2. CASE Over BY <1>2, OverDoes, NotSavingType DEF Busy
<1>3. ASSUME NEW w \in Savers, OpenFile(w)
      PROVE  /\ \A y, x \in Busy' : y = x
             /\ \A y \in Busy' : ~save'[y].mixed
  <2>1. Busy = {} BY <1>3, OpenDoes
  <2>2. /\ ~save'[w].mixed /\ \A x \in Savers : x # w => save'[x].at = "no"
    BY <1>3, <2>1, OpenDoes DEF Busy
  <2> QED BY <2>2 DEF Busy
<1>4. ASSUME NEW w \in Savers, Take(w) \/ Write(w) \/ WriteFails(w)
      PROVE  /\ \A y, x \in Busy' : y = x
             /\ \A y \in Busy' : ~save'[y].mixed
  <2>1. Busy' \subseteq Busy /\ \A x \in Busy' : save'[x].mixed = save[x].mixed
    BY <1>4, TakeDoes, WriteDoes, WriteFailsDoes DEF Busy
  <2> QED BY <1>1, <2>1
<1>5. CASE save' = save BY <1>1, <1>5 DEF Busy
<1> QED BY <1>2, <1>3, <1>4, <1>5, Unsaved DEF Saving

Clean == odd \cap {"midsave", "overlap", "key"} = {}

\* While nothing went wrong with it the file is torn exactly while it is saved,
\* and a process that listens has one.
Ready ==
    Clean => /\ stored = Torn <=> Busy # {}
             /\ pc = "loop" => stored # Missing

LEMMA InitReady == ChannelInit => Ready
BY NotSavingType, NoSessions DEF ChannelInit, Ready, Busy

LEMMA ReadyStep ==
    Typed /\ Placed /\ Lone /\ Ready /\ [ChannelNext]_channelVars => Ready'
<1> SUFFICES ASSUME Typed, Placed, Lone, Ready, [ChannelNext]_channelVars, Clean'
             PROVE  /\ stored' = Torn <=> Busy' # {}
                    /\ pc' = "loop" => stored' # Missing
  BY DEF Ready
<1>1. /\ stored = Torn <=> Busy # {}
      /\ pc = "loop" => stored # Missing
      /\ "overlap" \notin odd /\ stored \in Sessions \cup {Torn, Missing}
  BY OddGrows DEF Ready, Clean, Typed, ChannelTypeOK
<1>2. CASE Over
  <2>1. Busy = {} BY <1>2, OverDoes DEF Clean
  <2>2. Busy' = {} BY <1>2, OverDoes, NotSavingType DEF Busy
  <2>3. pc' = "down" /\ stored' = stored BY <1>2, OverDoes
  <2> QED BY <1>1, <2>1, <2>2, <2>3
<1>3. ASSUME NEW w \in Savers, OpenFile(w)
      PROVE  /\ stored' = Torn /\ Busy' # {}
  BY <1>3, OpenDoes DEF Busy
<1>4. ASSUME NEW w \in Savers, Take(w)
      PROVE  /\ stored' = stored /\ Busy' = Busy /\ pc' = pc
  BY <1>4, TakeDoes DEF Busy
<1>5. ASSUME NEW w \in Savers, Write(w)
      PROVE  /\ stored' \in Sessions /\ Busy' = {}
  <2>1. save[w].at = "taken" /\ w \in Busy /\ ~save[w].mixed
    BY <1>1, <1>5, WriteDoes DEF Lone, Busy
  <2>2. stored' = Whole(w) /\ Whole(w) \in Sessions BY <1>5, <2>1, WriteDoes, WholeType
  <2>3. \A x \in Savers : x # w => save'[x].at = "no"
    BY <1>1, <1>5, <2>1, WriteDoes DEF Lone, Busy
  <2>4. save'[w].at = "no" BY <1>5, WriteDoes
  <2> QED BY <2>2, <2>3, <2>4 DEF Busy
<1>6. ASSUME NEW w \in Savers, WriteFails(w) PROVE FALSE
  BY <1>6, WriteFailsDoes DEF Clean
<1>7. CASE ~Over /\ ~ \E w \in Savers : Saving(w)
  <2>1. save' = save /\ Busy' = Busy BY <1>7, Unsaved DEF Busy
  <2>2. CASE stored' = stored
    <3>1. pc' = "loop" => pc = "loop" \/ stored \in Sessions
      BY <1>7, ChannelSteps, StartDoes, PollDoes, ParseDoes, ParseFailsDoes, DispatchDoes, TurnDoes
         DEF RemoveFile, Asking, LoggingIn, Signalled, Refused
    <3> QED BY <1>1, <2>1, <2>2, <3>1, NoSessions
  <2>3. CASE stored' # stored
    <3>1. pc = "down" /\ pc' = "down" /\ stored' = Missing BY <1>7, <2>3, Unsaved
    <3>2. Busy = {} BY <3>1 DEF Placed, Busy
    <3> QED BY <2>1, <3>1, <3>2, NoSessions
  <2> QED BY <2>2, <2>3
<1> QED BY <1>1, <1>2, <1>3, <1>4, <1>5, <1>6, <1>7, NoSessions DEF Saving

LEMMA LoneAlways == ChannelSpec => [](Typed /\ Placed /\ Lone)
BY TypedAlways, InitLone, LoneStep, PTL DEF ChannelSpec

\* Whenever nobody is saving, session.json can be read, and a process that
\* listens has left one, unless one of the three things happened to a save that
\* the property names.
THEOREM SessionReadable == ChannelSpec => []SessionSurvives
<1>1. Ready => SessionSurvives
  BY DEF Ready, Clean, SessionSurvives
<1>2. ChannelSpec => []Ready
  BY LoneAlways, InitReady, ReadyStep, PTL DEF ChannelSpec
<1> QED BY <1>1, <1>2, PTL
-----------------------------------------------------------------------------
(* Turns.                                                                  *)

\* Messages that are parsed are older than those that are not, and the cursor has
\* passed them all: those that wait for their thread ...
Parsed(m) == m <= objs[Cur].buf /\ \A n \in inbox : m < n

\* ... and those that a thread of the newest session answers; what is not parsed
\* yet is all there is up to the cursor.
InOrder ==
    /\ pc = "down" => pending = {}
    /\ pc \in {"save", "loop"} => \A m \in pending : Parsed(m)
    /\ \A u \in Users : thread[u].at # "none" /\ thread[u].obj = Cur =>
                            \A m \in thread[u].msgs : Parsed(m)
    /\ \A n \in inbox : n <= objs[Cur].buf /\ n..objs[Cur].buf \subseteq inbox

\* The first session of the process has the context token of every message that
\* waits, or is answered, under it.
Noted(m) == log[m].kind = "token" => Context(objs[1], log[m].user) >= m

Answering(u) ==
    /\ \A m \in thread[u].msgs : log[m].user = u
    /\ thread[u].obj = 1 => \A m \in thread[u].msgs : Noted(m)
    /\ thread[u].ctx # NoKey =>
          /\ thread[u].ctx # 0 => thread[u].ctx <= Len(log) /\ log[thread[u].ctx].user = u
          /\ thread[u].obj = 1 => \A m \in thread[u].msgs : log[m].kind = "token" => thread[u].ctx >= m

Answered ==
    /\ pc \in {"save", "loop"} /\ Cur = 1 => \A m \in pending : Noted(m)
    /\ \A u \in Users : thread[u].at # "none" => Answering(u)

LEMMA InitInOrder == ChannelInit => InOrder /\ Answered
<1> SUFFICES ASSUME ChannelInit PROVE InOrder /\ Answered OBVIOUS
<1>1. \A u \in Users : thread[u].at = "none" BY NoThreadType DEF ChannelInit
<1> QED BY <1>1 DEF ChannelInit, InOrder, Answered

\* What leaves the messages where they are, or takes some away.
LEMMA OrderStays ==
    ASSUME Typed, InOrder, Answered, UNCHANGED <<log, objs, inbox>>,
           pending' \subseteq pending, pc' = "down" => pc = "down",
           pc' \in {"save", "loop"} => pc \in {"save", "loop"},
           \A u \in Users : thread'[u] = thread[u] \/ thread'[u].at = "none"
    PROVE  InOrder' /\ Answered'
<1>1. Cur' = Cur BY DEF Cur
<1>2. \A m : Parsed(m)' <=> Parsed(m) BY <1>1 DEF Parsed
<1>3. \A m : Noted(m)' <=> Noted(m) BY DEF Noted, Context
<1>4. InOrder'
  <2>1. pc' = "down" => pending' = {} BY DEF InOrder
  <2>2. pc' \in {"save", "loop"} => \A m \in pending' : Parsed(m)' BY <1>2 DEF InOrder
  <2>3. \A u \in Users : thread'[u].at # "none" /\ thread'[u].obj = Cur' =>
            \A m \in thread'[u].msgs : Parsed(m)'
    BY <1>1, <1>2 DEF InOrder
  <2>4. \A n \in inbox' : n <= objs'[Cur'].buf /\ n..objs'[Cur'].buf \subseteq inbox'
    BY <1>1 DEF InOrder
  <2> QED BY <2>1, <2>2, <2>3, <2>4 DEF InOrder
<1>5. pc' \in {"save", "loop"} /\ Cur' = 1 => \A m \in pending' : Noted(m)'
  BY <1>1, <1>3 DEF Answered
<1>6. ASSUME NEW u \in Users, thread'[u].at # "none" PROVE Answering(u)'
  <2>1. thread'[u] = thread[u] /\ Answering(u) BY <1>6 DEF Answered
  <2> QED BY <1>3, <2>1 DEF Answering
<1> QED BY <1>4, <1>5, <1>6 DEF Answered

\* A poll moves the cursor past what it asks for.
LEMMA PollOrder ==
    ASSUME Typed, Placed, InOrder, Answered, Poll
    PROVE  InOrder' /\ Answered'
<1> DEFINE s == objs[Cur]
           from == IF s.buf = 0 THEN Len(log) ELSE s.buf
<1>1. /\ pc = "loop" /\ Cur > 0 /\ Cur \in Nat /\ s \in Sessions /\ s.buf \in Nat
      /\ Len(log) \in Nat /\ Len(log') \in Nat /\ Len(log') >= Len(log) /\ from \in 0..Len(log)
      /\ \A i \in 1..Len(log) : log'[i] = log[i]
      /\ inbox' = (from + 1)..Len(log') /\ Cur' = Cur /\ objs'[Cur].buf = Len(log')
      /\ \A i \in 1..Cur : objs'[i].ctx = objs[i].ctx
      /\ UNCHANGED <<pc, pending, thread>>
      /\ pending \subseteq 1..Len(log)
  <2>1. /\ pc = "loop" /\ Cur > 0 /\ s \in Sessions
        /\ Len(log') \in Nat /\ LogGrows /\ from \in 0..Len(log)
        /\ inbox' = (from + 1)..Len(log') /\ Cur' = Cur
        /\ objs'[Cur].buf = Len(log') /\ objs'[Cur].ctx = objs[Cur].ctx
        /\ \A i \in 1..Cur : i # Cur => objs'[i] = objs[i]
        /\ UNCHANGED <<pc, pending, thread>>
    BY PollDoes
  <2>2. \A i \in 1..Cur : objs'[i].ctx = objs[i].ctx BY <2>1
  <2>3. s.buf \in Nat /\ Cur \in Nat /\ Len(log) \in Nat BY <2>1, SessionFields, ObjsType
  <2>4. pending \subseteq 1..Len(log) BY DEF Typed, ChannelTypeOK
  <2> HIDE DEF s, from
  <2> QED BY <2>1, <2>2, <2>3, <2>4 DEF LogGrows
<1>2. ASSUME NEW m \in 1..Len(log), Parsed(m) PROVE Parsed(m)'
  <2>1. m <= s.buf BY <1>2 DEF Parsed
  <2> HIDE DEF s
  <2>2. m <= from BY <1>1, <2>1
  <2> HIDE DEF from
  <2> QED BY <1>1, <2>2 DEF Parsed
<1>3. ASSUME NEW m \in 1..Len(log), Noted(m) PROVE Noted(m)'
  <2>1. objs'[1].ctx = objs[1].ctx /\ log'[m] = log[m] BY <1>1
  <2> QED BY <1>3, <2>1 DEF Noted, Context
<1>4. \A n \in inbox' : n <= objs'[Cur'].buf /\ n..objs'[Cur'].buf \subseteq inbox'
  <2> HIDE DEF s, from
  <2> QED BY <1>1
<1> HIDE DEF s, from
<1>5. \A u \in Users : thread[u].msgs \subseteq 1..Len(log) /\ thread[u].ctx \in Nat
  BY ThreadsType, Numbers
<1>6. InOrder' BY <1>1, <1>2, <1>4, <1>5 DEF InOrder
<1>7. ASSUME NEW u \in Users, Answering(u) PROVE Answering(u)'
  <2>1. \A m \in thread[u].msgs : log'[m] = log[m] /\ (Noted(m) => Noted(m)')
    BY <1>1, <1>3, <1>5
  <2>2. thread[u].ctx # NoKey /\ thread[u].ctx # 0 =>
            thread[u].ctx <= Len(log') /\ log'[thread[u].ctx].user = u
    BY <1>1, <1>5, <1>7 DEF Answering
  <2> QED BY <1>1, <1>7, <2>1, <2>2 DEF Answering
<1> QED BY <1>1, <1>3, <1>6, <1>7 DEF Answered

\* The earliest message is parsed, and its token noted over those of the messages
\* before it.
LEMMA ParseOrder ==
    ASSUME Typed, Placed, InOrder, Answered, Parse
    PROVE  InOrder' /\ Answered'
<1>1. PICK k \in inbox :
         LET u == log[k].user  s == objs[Cur] IN
         /\ pc = "loop" /\ Cur > 0 /\ s \in Sessions
         /\ k \in 1..Len(log) /\ u \in Users /\ \A n \in inbox : k <= n
         /\ inbox' = inbox \ {k} /\ pending' \in {pending, pending \cup {k}}
         /\ objs' \in Seq(Sessions) /\ Cur' = Cur
         /\ objs'[Cur].tok = s.tok /\ objs'[Cur].buf = s.buf
         /\ objs'[Cur].ctx[u] = IF log[k].kind = "token" THEN k ELSE s.ctx[u]
         /\ \A v \in Users : v # u => objs'[Cur].ctx[v] = s.ctx[v]
         /\ \A i \in 1..Cur : i # Cur => objs'[i] = objs[i]
         /\ UNCHANGED <<log, pc, thread>>
  BY ParseDoes
<1>2. /\ Cur \in Nat /\ Len(log) \in Nat /\ k \in Nat /\ k \in 0..MaxMsgs /\ inbox \subseteq Nat
      /\ objs[Cur].buf \in Nat /\ k # NoKey /\ pending \subseteq 1..Len(log)
  <2>1. /\ Cur \in Nat /\ Len(log) \in Nat /\ Len(log) <= MaxMsgs /\ objs[Cur] \in Sessions
        /\ inbox \subseteq 1..Len(log) /\ pending \subseteq 1..Len(log)
    BY <1>1, ObjsType DEF Typed, ChannelTypeOK
  <2>2. objs[Cur].buf \in 0..MaxMsgs BY <2>1, SessionFields
  <2>3. k \in 1..Len(log) BY <1>1
  <2> QED BY <2>1, <2>2, <2>3, Numbers
<1>3. ASSUME NEW m \in 1..Len(log), Parsed(m) PROVE Parsed(m)'
  BY <1>1, <1>3 DEF Parsed
<1>4. Parsed(k)'
  <2>1. k <= objs[Cur].buf BY DEF InOrder
  <2>2. ASSUME NEW n \in inbox \ {k} PROVE k < n
    <3>1. k <= n /\ n \in Nat /\ k # n BY <1>1, <1>2
    <3> QED BY <1>2, <3>1
  <2> QED BY <1>1, <2>1, <2>2 DEF Parsed
<1>5. \A n \in inbox' : n <= objs'[Cur'].buf /\ n..objs'[Cur'].buf \subseteq inbox'
  <2>1. ASSUME NEW n \in inbox \ {k}, NEW x \in n..objs[Cur].buf PROVE x \in inbox \ {k}
    <3>1. x \in inbox BY DEF InOrder
    <3>2. k <= n /\ k # n /\ n \in Nat BY <1>1, <1>2
    <3>3. k # x
      <4>1. n <= x /\ x \in Nat BY <1>2, <2>1, <3>2
      <4> QED BY <1>2, <3>2, <4>1
    <3> QED BY <3>1, <3>3
  <2> QED BY <1>1, <2>1 DEF InOrder
<1>6. InOrder'
  <2>1. \A u \in Users : thread[u].msgs \subseteq 1..Len(log) BY ThreadsType
  <2>2. \A u \in Users : thread'[u].at # "none" /\ thread'[u].obj = Cur' =>
            \A m \in thread'[u].msgs : Parsed(m)'
    BY <1>1, <1>3, <2>1 DEF InOrder
  <2>3. \A m \in pending' : Parsed(m)' BY <1>1, <1>2, <1>3, <1>4 DEF InOrder
  <2> QED BY <1>1, <1>5, <2>2, <2>3 DEF InOrder
<1>7. Cur = 1 => Noted(k)'
  <2>1. SUFFICES ASSUME Cur = 1, log[k].kind = "token" PROVE Noted(k)' BY <1>1 DEF Noted
  <2>2. objs'[1].ctx[log[k].user] = k BY <1>1, <2>1
  <2> QED BY <1>1, <1>2, <2>2 DEF Noted, Context
<1>8. ASSUME NEW m \in 1..Len(log), Noted(m), Cur = 1 => Parsed(m) PROVE Noted(m)'
  <2> DEFINE u == log[m].user
  <2>1. CASE Cur # 1
    <3>1. objs'[1] = objs[1] BY <1>1, <1>2, <2>1
    <3> QED BY <1>1, <1>8, <3>1 DEF Noted, Context
  <2>2. CASE Cur = 1 /\ u = log[k].user /\ log[k].kind = "token"
    <3>1. m <= k BY <1>1, <1>2, <1>8, <2>2 DEF Parsed
    <3>2. objs'[1].ctx[u] = k BY <1>1, <2>2
    <3> HIDE DEF u
    <3>3. Context(objs'[1], u) >= m BY <1>2, <3>1, <3>2 DEF Context
    <3> USE DEF u
    <3> QED BY <1>1, <3>3 DEF Noted, Context
  <2>3. CASE Cur = 1 /\ ~(u = log[k].user /\ log[k].kind = "token")
    <3>1. u \in Users BY ObjsType
    <3>2. objs'[1].ctx[u] = objs[1].ctx[u] BY <1>1, <2>3, <3>1
    <3> QED BY <1>1, <1>8, <3>2 DEF Noted, Context
  <2> QED BY <2>1, <2>2, <2>3
<1>9. ASSUME NEW u \in Users, thread[u].at # "none" PROVE Answering(u)'
  <2>1. thread[u].msgs \subseteq 1..Len(log) /\ Answering(u) /\ thread' = thread /\ log' = log
    BY <1>1, <1>9, ThreadsType DEF Answered
  <2>2. ASSUME thread[u].obj = 1, NEW m \in thread[u].msgs PROVE Noted(m)'
    <3>1. Noted(m) BY <2>1, <2>2 DEF Answering
    <3>2. Cur = 1 => Parsed(m) BY <1>9, <2>2 DEF InOrder
    <3> QED BY <1>8, <2>1, <3>1, <3>2
  <2> QED BY <2>1, <2>2 DEF Answering
<1>10. Cur = 1 => \A m \in pending' : Noted(m)'
  BY <1>1, <1>2, <1>7, <1>8 DEF Answered, InOrder
<1> QED BY <1>1, <1>6, <1>9, <1>10 DEF Answered

\* An answer that cannot be parsed takes its messages with it.
LEMMA ParseFailsOrder ==
    ASSUME Typed, Placed, InOrder, Answered, ParseFails
    PROVE  InOrder' /\ Answered'
<1>1. /\ inbox' = {} /\ pending' \subseteq pending /\ pc = "loop" /\ pc' = pc
      /\ UNCHANGED <<log, objs, thread>> /\ Cur' = Cur
  BY ParseFailsDoes DEF Cur
<1>2. \A m : (Parsed(m) => Parsed(m)') /\ (Noted(m)' <=> Noted(m))
  BY <1>1 DEF Parsed, Noted, Context
<1>3. InOrder' BY <1>1, <1>2 DEF InOrder
<1>4. \A u \in Users : Answering(u) => Answering(u)' BY <1>1, <1>2 DEF Answering
<1> QED BY <1>1, <1>2, <1>3, <1>4 DEF Answered

LEMMA LoginOrder ==
    ASSUME Typed, Placed, InOrder, Answered, LoggingIn
    PROVE  InOrder' /\ Answered'
<1> DEFINE n == NewSession(qrcode)
<1>1. qrcode \in Codes /\ n \in Sessions
  BY NewSessionType, Numbers DEF LoggingIn, Placed, Typed, ChannelTypeOK
<1> HIDE DEF n
<1>2. /\ objs' = Append(objs, n) /\ pc' = "save" /\ inbox' = {} /\ pending' = {}
      /\ UNCHANGED <<log, thread>>
  BY DEF LoggingIn, n
<1>3. /\ Cur \in Nat /\ Cur' = Cur + 1 /\ \A i \in 1..Cur : objs'[i] = objs[i]
  BY <1>1, <1>2, ObjsType, AppendProperties DEF Cur
<1>4. \A u \in Users : thread[u].at # "none" => thread[u].obj \in 1..Cur BY ThreadsType
<1>5. InOrder' BY <1>2, <1>3, <1>4 DEF InOrder
<1>6. ASSUME NEW u \in Users, thread[u].at # "none" PROVE Answering(u)'
  <2>1. Answering(u) /\ objs'[1] = objs[1] BY <1>3, <1>4, <1>6 DEF Answered
  <2>2. \A m : Noted(m) => Noted(m)' BY <1>2, <2>1 DEF Noted, Context
  <2> QED BY <1>2, <2>1, <2>2 DEF Answering
<1> QED BY <1>2, <1>5, <1>6 DEF Answered

LEMMA DispatchOrder ==
    ASSUME Typed, Placed, InOrder, Answered, NEW u \in Users, Dispatch(u)
    PROVE  InOrder' /\ Answered'
<1>1. /\ pc = "loop" /\ thread'[u].at = "handle" /\ thread'[u].obj = Cur
      /\ thread'[u].ctx = NoKey /\ thread'[u].msgs = {m \in pending : log[m].user = u}
      /\ \A v \in Users : v # u => thread'[v] = thread[v]
      /\ pending' \subseteq pending /\ UNCHANGED <<log, pc, objs, inbox>>
  BY DispatchDoes
<1>2. Cur' = Cur BY <1>1 DEF Cur
<1>3. \A m : (Parsed(m)' <=> Parsed(m)) /\ (Noted(m)' <=> Noted(m))
  BY <1>1, <1>2 DEF Parsed, Noted, Context
<1>4. InOrder'
  <2>1. \A m \in pending : Parsed(m) BY <1>1 DEF InOrder
  <2>2. ASSUME NEW v \in Users, thread'[v].at # "none", thread'[v].obj = Cur'
        PROVE  \A m \in thread'[v].msgs : Parsed(m)'
    BY <1>1, <1>2, <1>3, <2>1, <2>2 DEF InOrder
  <2>3. \A n \in inbox' : n <= objs'[Cur'].buf /\ n..objs'[Cur'].buf \subseteq inbox'
    BY <1>1, <1>2 DEF InOrder
  <2> QED BY <1>1, <1>3, <2>1, <2>2, <2>3 DEF InOrder
<1>5. ASSUME NEW v \in Users, thread'[v].at # "none" PROVE Answering(v)'
  <2>1. CASE v = u BY <1>1, <1>3, <2>1 DEF Answered, Answering
  <2>2. CASE v # u
    <3>1. thread'[v] = thread[v] /\ Answering(v) BY <1>1, <1>5, <2>2 DEF Answered
    <3> QED BY <1>1, <1>3, <3>1 DEF Answering
  <2> QED BY <2>1, <2>2
<1>6. pc' \in {"save", "loop"} /\ Cur' = 1 => \A m \in pending' : Noted(m)'
  BY <1>1, <1>2, <1>3 DEF Answered
<1> QED BY <1>4, <1>5, <1>6 DEF Answered

\* The answer is sent with the token that the session has for its user then.
LEMMA TurnOrder ==
    ASSUME Typed, Placed, InOrder, Answered, NEW u \in Users, Turning(u)
    PROVE  InOrder' /\ Answered'
<1> DEFINE t == thread[u]
           n == thread'[u]
<1>1. /\ t.at # "none" /\ Cur > 0 /\ Cur \in Nat /\ \A v \in Users : v # u => thread'[v] = thread[v]
      /\ \/ n.at = "none"
         \/ /\ n.at # "none" /\ n.obj = t.obj /\ n.msgs = t.msgs
            /\ n.ctx = Context(objs[1], u)
      /\ UNCHANGED <<log, pc, objs, inbox, answer, pending>>
  BY TurnDoes, NoThreadType, ObjsType
<1>2. Cur' = Cur BY <1>1 DEF Cur
<1>3. \A m : (Parsed(m)' <=> Parsed(m)) /\ (Noted(m)' <=> Noted(m))
  BY <1>1, <1>2 DEF Parsed, Noted, Context
<1>4. InOrder'
  <2>1. ASSUME NEW v \in Users, thread'[v].at # "none", thread'[v].obj = Cur'
        PROVE  \A m \in thread'[v].msgs : Parsed(m)'
    BY <1>1, <1>2, <1>3, <2>1 DEF InOrder
  <2>2. \A k \in inbox' : k <= objs'[Cur'].buf /\ k..objs'[Cur'].buf \subseteq inbox'
    BY <1>1, <1>2 DEF InOrder
  <2> QED BY <1>1, <1>3, <2>1, <2>2 DEF InOrder
<1>5. ASSUME n.at # "none" PROVE Answering(u)'
  <2>1. Answering(u) /\ n.obj = t.obj /\ n.msgs = t.msgs /\ log' = log
    BY <1>1, <1>5 DEF Answered
  <2>2. \A m \in n.msgs : log[m].user = u BY <2>1 DEF Answering
  <2>3. n.obj = 1 => \A m \in n.msgs : Noted(m) BY <2>1 DEF Answering
  <2>4. /\ n.ctx # 0 => n.ctx <= Len(log) /\ log[n.ctx].user = u
        /\ n.obj = 1 => \A m \in n.msgs : log[m].kind = "token" => n.ctx >= m
    <3>1. n.ctx = Context(objs[1], u) BY <1>1, <1>5
    <3>2. objs[1] \in Sessions /\ Sane(objs[1]) BY <1>1, ObjsType DEF Typed
    <3>3. n.ctx \in 0..MaxMsgs /\ (n.ctx = 0 \/ n.ctx = objs[1].ctx[u])
      BY <3>1, <3>2, SessionFields
    <3>4. n.ctx # 0 => n.ctx <= Len(log) /\ log[n.ctx].user = u
      BY <3>2, <3>3, Numbers DEF Sane
    <3>5. n.obj = 1 => \A m \in n.msgs : log[m].kind = "token" => n.ctx >= m
      BY <2>2, <2>3, <3>1 DEF Noted
    <3> QED BY <3>4, <3>5
  <2> QED BY <1>3, <2>1, <2>2, <2>3, <2>4 DEF Answering
<1>6. ASSUME NEW v \in Users, v # u, thread'[v].at # "none" PROVE Answering(v)'
  <2>1. thread'[v] = thread[v] /\ Answering(v) BY <1>1, <1>6 DEF Answered
  <2> QED BY <1>1, <1>3, <2>1 DEF Answering
<1>7. pc' \in {"save", "loop"} /\ Cur' = 1 => \A m \in pending' : Noted(m)'
  BY <1>1, <1>2, <1>3 DEF Answered
<1> QED BY <1>4, <1>5, <1>6, <1>7 DEF Answered

LEMMA OrderStep ==
    Typed /\ Placed /\ InOrder /\ Answered /\ [ChannelNext]_channelVars => InOrder' /\ Answered'
<1> SUFFICES ASSUME Typed, Placed, InOrder, Answered, [ChannelNext]_channelVars
             PROVE  InOrder' /\ Answered'
  OBVIOUS
<1>1. CASE Over \/ Start
  <2>1. /\ \A u \in Users : thread'[u].at = "none"
        /\ inbox' = {} /\ pending' = {}
    BY <1>1, StartDoes, OverDoes, NoThreadType DEF Placed, InOrder
  <2> QED BY <2>1 DEF InOrder, Answered
<1>2. CASE RemoveFile \/ Asking \/ Signalled \/ Refused
  BY <1>2, OrderStays DEF RemoveFile, Asking, Signalled, Refused, server, incoming
<1>3. ASSUME NEW w \in Savers, Saving(w) PROVE InOrder' /\ Answered'
  <2>1. CASE OpenFile(w) \/ Take(w) BY <2>1, OpenDoes, TakeDoes, OrderStays
  <2>2. CASE Write(w) \/ WriteFails(w)
    <3>1. \A u \in Users : thread'[u] = thread[u] \/ thread'[u].at = "none"
      BY <2>2, WriteDoes, WriteFailsDoes, NoThreadType
    <3>2. UNCHANGED <<log, objs, inbox, answer, pending>> BY <2>2, WriteDoes, WriteFailsDoes
    <3>3. pc' = pc \/ (pc = "save" /\ pc' = "loop")
      BY <2>2, WriteDoes, WriteFailsDoes, ObjectType
    <3> QED BY <3>1, <3>2, <3>3, OrderStays
  <2> QED BY <1>3, <2>1, <2>2 DEF Saving
<1> QED
  BY <1>1, <1>2, <1>3, LoginOrder, PollOrder, ParseOrder, ParseFailsOrder, DispatchOrder, TurnOrder, ChannelSteps

\* Files and answers go out in their user's context: with a context token of that
\* user, none older than the messages answered while the process has one session.
THEOREM AnswersInContext == ChannelSpec => []ReplyInContext
<1>1. Typed /\ Answered => ReplyInContext
  <2> SUFFICES ASSUME Typed, Answered, NEW u \in Users, thread[u].at # "none", thread[u].ctx # NoKey
               PROVE  /\ thread[u].ctx # 0 => log[thread[u].ctx].user = u
                      /\ thread[u].obj = 1 =>
                            \A m \in thread[u].msgs : log[m].kind = "token" => thread[u].ctx >= m
    BY DEF ReplyInContext
  <2> QED BY DEF Answered, Answering
<1> QED BY <1>1, TypedAlways, InitInOrder, OrderStep, PTL DEF ChannelSpec
-----------------------------------------------------------------------------
(* The cursor.                                                             *)

\* Messages from a login's first poll to a session's cursor have left their
\* context tokens in the session; l and b are the log and the first polls.
Covers(s, but, l, b) ==
    \A m \in (b[s.tok] + 1)..s.buf :
        l[m].kind = "token" /\ m \notin but => Context(s, l[m].user) >= m

\* A save that has read the cursor stays behind what is not parsed, so that the
\* walk through the tokens finds those of all messages up to it.
CoversInSave(w) ==
    save[w].at = "taken" =>
        /\ Covers(Whole(w), lost, log, base)
        /\ Object(w) = Cur => \A n \in inbox : save[w].copy.buf < n

Covered ==
    "early" \notin odd =>
        /\ \A i \in 1..Cur : Covers(objs[i], IF i = Cur THEN inbox \cup lost ELSE lost, log, base)
        /\ stored \in Sessions => Covers(stored, lost, log, base)
        /\ \A w \in Savers : CoversInSave(w)

\* The log and the first polls move on without uncovering anything.
LEMMA CoversStays ==
    ASSUME Typed, LogGrows, NEW s \in Sessions, Sane(s), lost \subseteq lost',
           \A c \in Codes : base[c] \in Nat /\ base'[c] \in Nat /\ base'[c] >= base[c],
           Covers(s, lost, log, base),
           NEW t, t.tok = s.tok, t.buf = s.buf, t.ctx = s.ctx
    PROVE  Covers(t, lost', log', base')
<1> DEFINE c == s.tok
           e == s.buf
<1>1. c \in Codes /\ e \in Nat /\ e <= Len(log) /\ Len(log) \in Nat
  BY SessionFields, ObjsType, Numbers DEF Sane
<1>2. base[c] \in Nat /\ base'[c] \in Nat /\ base'[c] >= base[c] BY <1>1
<1> HIDE DEF c, e
<1>3. ASSUME NEW m \in (base'[c] + 1)..e PROVE m \in (base[c] + 1)..e /\ m \in 1..Len(log)
  BY <1>1, <1>2
<1>4. \A u : Context(t, u) = Context(s, u) BY DEF Context
<1>5. ASSUME NEW m \in (base'[c] + 1)..e, log'[m].kind = "token", m \notin lost'
      PROVE  Context(t, log'[m].user) >= m
  <2>1. m \in (base[c] + 1)..e /\ log'[m] = log[m] BY <1>3, <1>5 DEF LogGrows
  <2> QED BY <1>4, <1>5, <2>1 DEF Covers, c, e
<1> QED BY <1>5 DEF Covers, c, e

\* Only an answer that cannot be parsed loses messages.
LEMMA LostGrows ==
    ASSUME Typed, Placed, [ChannelNext]_channelVars
    PROVE  lost \subseteq lost' /\ (~ParseFails => lost' = lost)
<1>1. ~ParseFails => lost' = lost
  BY ChannelSteps, StartDoes, OverDoes, PollDoes, ParseDoes, DispatchDoes, TurnDoes, OpenDoes, TakeDoes,
     WriteDoes, WriteFailsDoes
     DEF RemoveFile, Asking, LoggingIn, Signalled, Refused, Saving, history
<1> QED BY <1>1, ParseFailsDoes

LEMMA BaseGrows ==
    ASSUME Typed, Placed, [ChannelNext]_channelVars
    PROVE  \A c \in Codes : base[c] \in Nat /\ base'[c] \in Nat /\ base'[c] >= base[c]
<1>1. Len(log) \in Nat /\ base \in [Codes -> 0..MaxMsgs] /\ \A c \in Codes : base[c] <= Len(log)
  BY ObjsType DEF Typed, ChannelTypeOK
<1>2. CASE Poll
  <2>1. base' = base \/ \E d : base' = [base EXCEPT ![d] = Len(log)]
    BY <1>2, PollDoes
  <2> QED BY <1>1, <2>1, Numbers
<1>3. CASE base' = base BY <1>1, <1>3, Numbers
<1>4. base' = base \/ Poll
  BY ChannelSteps, StartDoes, OverDoes, ParseDoes, ParseFailsDoes, DispatchDoes, TurnDoes, OpenDoes, TakeDoes,
     WriteDoes, WriteFailsDoes
     DEF RemoveFile, Asking, LoggingIn, Signalled, Refused, Saving, history
<1> QED BY <1>2, <1>3, <1>4

\* Who has read the session in a save did it now, or had before.
LEMMA TakenWas ==
    ASSUME Typed, Placed, [ChannelNext]_channelVars, NEW w \in Savers, save'[w].at = "taken"
    PROVE  /\ pc # "down" /\ ~Over
           /\ Take(w) \/ (save[w].at = "taken" /\ save'[w].copy = save[w].copy /\ ~Take(w))
<1>1. ~Over BY OverDoes, NotSavingType
<1>2. Take(w) \/ (save[w].at = "taken" /\ save'[w].copy = save[w].copy)
  <2>1. CASE save' = save BY <2>1
  <2>2. CASE save' # save
    <3>1. PICK x \in Savers : Saving(x) BY <1>1, <2>2, Unsaved
    <3> QED BY <3>1, OpenDoes, TakeDoes, WriteDoes, WriteFailsDoes DEF Saving
  <2> QED BY <2>1, <2>2
<1>3. save[w].at # "no" BY <1>2, TakeDoes
<1>4. pc # "down" BY <1>3 DEF Placed
<1>5. Take(w) => save[w].at # "taken" BY TakeDoes
<1> QED BY <1>1, <1>2, <1>4, <1>5

\* What a save writes changes only with the context tokens of its session.
LEMMA WholeStays ==
    ASSUME Typed, Placed, [ChannelNext]_channelVars, NEW w \in Savers, save'[w].at = "taken", ~Take(w)
    PROVE  /\ save[w].at = "taken" /\ save'[w].copy = save[w].copy
           /\ Object(w)' = Object(w) /\ Object(w) \in 1..Cur /\ Whole(w) \in Sessions /\ Sane(Whole(w))
           /\ Whole(w)'.tok = Whole(w).tok /\ Whole(w)'.buf = Whole(w).buf
           /\ Whole(w)'.ctx = objs'[Object(w)].ctx
           /\ Cur' >= Cur /\ Cur' \in Nat
<1>1. save[w].at = "taken" /\ save'[w].copy = save[w].copy /\ pc # "down" /\ ~Over BY TakenWas
<1>2. Object(w)' = Object(w) /\ Object(w) \in 1..Cur BY <1>1, SaveStays
<1>3. Whole(w) \in Sessions /\ Sane(Whole(w)) BY <1>1, WholeType
<1> DEFINE s == save[w].copy
           o == Object(w)
           c == objs'[o].ctx
<1>4. s \in Sessions BY <1>1 DEF Placed
<1>5. Whole(w)' = [s EXCEPT !.ctx = c] BY <1>1, <1>2 DEF Whole
<1>6. Whole(w).tok = s.tok /\ Whole(w).buf = s.buf
  <2> DEFINE d == objs[o].ctx
  <2>1. Whole(w) = [s EXCEPT !.ctx = d] BY DEF Whole
  <2> HIDE DEF s, d
  <2> QED BY <1>4, <2>1 DEF Sessions
<1> HIDE DEF s, c
<1>7. Whole(w)'.tok = s.tok /\ Whole(w)'.buf = s.buf /\ Whole(w)'.ctx = c
  BY <1>4, <1>5 DEF Sessions
<1> QED BY <1>1, <1>2, <1>3, <1>6, <1>7, OnwardStep DEF s, c

InMemory == \A i \in 1..Cur : Covers(objs[i], IF i = Cur THEN inbox \cup lost ELSE lost, log, base)
OnDisk == stored \in Sessions => Covers(stored, lost, log, base)

\* The message that is parsed leaves its token over those of earlier messages.
LEMMA ParseCovers ==
    ASSUME Typed, Placed, InOrder, Parse, NEW s \in Sessions, NEW t, NEW but, NEW less,
           t.tok = s.tok, t.buf = s.buf, t.ctx = objs'[Cur].ctx, s.ctx = objs[Cur].ctx,
           s.buf <= objs[Cur].buf,
           Covers(s, but, log, base),
           \/ but = inbox \cup lost /\ less = inbox' \cup lost
           \/ but = lost /\ less = lost /\ \A n \in inbox : s.buf < n
    PROVE  Covers(t, less, log, base)
<1>1. PICK k \in inbox :
         LET u == log[k].user  o == objs[Cur] IN
         /\ o \in Sessions /\ k \in 1..Len(log) /\ u \in Users
         /\ inbox' = inbox \ {k}
         /\ objs'[Cur].ctx[u] = IF log[k].kind = "token" THEN k ELSE o.ctx[u]
         /\ \A v \in Users : v # u => objs'[Cur].ctx[v] = o.ctx[v]
  BY ParseDoes
<1> DEFINE e == s.buf
           b == base[s.tok]
<1>2. /\ k \in Nat /\ k # NoKey /\ e \in Nat /\ objs[Cur].buf \in Nat /\ Len(log) \in Nat
      /\ b \in Nat
  <2>1. e \in Nat /\ s.tok \in Codes /\ objs[Cur].buf \in Nat BY <1>1, SessionFields, Numbers
  <2>2. b \in Nat BY <2>1, Numbers DEF Typed, ChannelTypeOK
  <2>3. Len(log) \in Nat /\ Len(log) <= MaxMsgs BY ObjsType
  <2> HIDE DEF e, b
  <2> QED BY <1>1, <2>1, <2>2, <2>3, Numbers
<1>3. e <= Len(log)
  <2>1. Cur \in 1..Cur BY ObjsType, <1>2 DEF Parse
  <2>2. objs[Cur].buf <= Len(log) BY <2>1 DEF Typed, Sane
  <2> HIDE DEF e
  <2>3. e <= objs[Cur].buf BY DEF e
  <2> QED BY <1>2, <2>2, <2>3
<1>4. ASSUME NEW m \in (b + 1)..e, log[m].kind = "token", m \notin less PROVE Context(t, log[m].user) >= m
  <2> DEFINE u == log[m].user
  <2>1. m \in 1..Len(log) /\ m \in Nat
    <3> HIDE DEF e, b
    <3> QED BY <1>2, <1>3
  <2>2. u \in Users BY <2>1, ObjsType
  <2>3. CASE m = k
    <3>1. t.ctx[u] = k BY <1>1, <1>4, <2>3
    <3> QED BY <1>2, <2>3, <3>1 DEF Context
  <2>4. CASE m # k
    <3>1. m \notin but BY <1>1, <1>4, <2>4
    <3>2. Context(s, u) >= m BY <1>4, <3>1 DEF Covers
    <3>3. CASE u = log[k].user /\ log[k].kind = "token"
      <4>1. t.ctx[u] = k BY <1>1, <3>3
      <4>2. m < k
        <5>1. CASE but = inbox \cup lost
          <6>1. \A x \in k..objs[Cur].buf : x \in inbox BY DEF InOrder
          <6>2. m \notin k..objs[Cur].buf BY <3>1, <5>1, <6>1
          <6>3. m <= e BY <1>2, <2>1
          <6>4. e <= objs[Cur].buf OBVIOUS
          <6> HIDE DEF e
          <6> QED BY <1>2, <2>1, <6>2, <6>3, <6>4
        <5>2. CASE \A n \in inbox : s.buf < n
          <6>1. e < k BY <5>2
          <6> HIDE DEF e, b
          <6> QED BY <1>2, <2>1, <6>1
        <5> QED BY <5>1, <5>2
      <4>3. Context(t, u) = k BY <1>2, <4>1 DEF Context
      <4> QED BY <1>2, <2>1, <4>2, <4>3
    <3>4. CASE ~(u = log[k].user /\ log[k].kind = "token")
      <4>1. t.ctx[u] = s.ctx[u] BY <1>1, <2>2, <3>4
      <4>2. Context(t, u) = Context(s, u) BY <4>1 DEF Context
      <4> QED BY <3>2, <4>2
    <3> QED BY <3>3, <3>4
  <2> QED BY <2>3, <2>4
<1> QED BY <1>4 DEF Covers

LEMMA MemoryCovered ==
    ASSUME Typed, Placed, InOrder, InMemory, [ChannelNext]_channelVars, pc # "down", ~Over
    PROVE  InMemory'
<1>1. /\ LogGrows
      /\ \A c \in Codes : base[c] \in Nat /\ base'[c] \in Nat /\ base'[c] >= base[c]
      /\ lost \subseteq lost' /\ (~ParseFails => lost' = lost)
  BY GrowStep, BaseGrows, LostGrows
<1>2. /\ Cur \in Nat /\ \A i \in 1..Cur : objs[i] \in Sessions /\ Sane(objs[i])
      /\ Len(log) \in Nat
  BY ObjsType DEF Typed
<1>3. CASE LoggingIn
  <2> DEFINE n == NewSession(qrcode)
  <2>1. qrcode \in Codes /\ n \in Sessions /\ n.buf = 0 /\ n.tok = qrcode
    BY <1>3, NewSessionType, Numbers DEF LoggingIn, Placed, Typed, ChannelTypeOK
  <2> HIDE DEF n
  <2>2. /\ objs' = Append(objs, n) /\ log' = log /\ base' = base /\ lost' = lost
        /\ inbox' \cup lost' = lost /\ inbox \cup lost = lost
    BY <1>3 DEF LoggingIn, n, Placed
  <2>3. Cur' = Cur + 1 /\ objs'[Cur + 1] = n /\ \A i \in 1..Cur : objs'[i] = objs[i]
    BY <2>1, <2>2, ObjsType, AppendProperties DEF Cur
  <2>4. Covers(n, lost, log, base)
    <3>1. base[n.tok] \in Nat BY <1>1, <2>1
    <3>2. (base[n.tok] + 1)..n.buf = {} BY <2>1, <3>1
    <3> QED BY <3>2 DEF Covers
  <2>5. ASSUME NEW i \in 1..(Cur + 1)
        PROVE  Covers(objs'[i], IF i = Cur + 1 THEN inbox' \cup lost' ELSE lost', log', base')
    <3>1. CASE i = Cur + 1 BY <2>2, <2>3, <2>4, <3>1
    <3>2. CASE i \in 1..Cur
      <4>1. Covers(objs[i], lost, log, base) BY <2>2, <3>2 DEF InMemory
      <4>2. i # Cur + 1 BY <1>2, <3>2
      <4> QED BY <2>2, <2>3, <3>2, <4>1, <4>2
    <3> QED BY <1>2, <3>1, <3>2
  <2> QED BY <2>3, <2>5 DEF InMemory
<1>4. CASE Poll
  <2> DEFINE s == objs[Cur]
             from == IF s.buf = 0 THEN Len(log) ELSE s.buf
             t == objs'[Cur]
  <2>1. /\ Cur > 0 /\ s \in Sessions /\ s.tok \in Codes /\ s.buf \in Nat /\ inbox = {}
        /\ lost' = lost
        /\ from \in 0..Len(log) /\ Len(log') \in Nat /\ Len(log') >= Len(log)
        /\ inbox' = (from + 1)..Len(log') /\ Cur' = Cur
        /\ t.tok = s.tok /\ t.buf = Len(log') /\ t.ctx = s.ctx
        /\ \A i \in 1..Cur : i # Cur => objs'[i] = objs[i]
        /\ base' = IF s.buf = 0 THEN [base EXCEPT ![s.tok] = Len(log)] ELSE base
    BY <1>4, PollDoes, SessionFields, Numbers DEF LogGrows
  <2>2. Covers(s, lost, log, base)
    <3>1. inbox \cup lost = lost BY <2>1
    <3> QED BY <1>2, <2>1, <3>1 DEF InMemory
  <2>3. ASSUME NEW m \in (base'[s.tok] + 1)..Len(log'), m \notin inbox'
        PROVE  m \in (base[s.tok] + 1)..s.buf
    <3>1. s.buf # 0 /\ base' = base /\ from = s.buf
      <4>1. SUFFICES ASSUME s.buf = 0 PROVE FALSE BY <2>1
      <4>2. base'[s.tok] = Len(log) /\ from = Len(log)
        BY <2>1, <4>1 DEF Typed, ChannelTypeOK
      <4> QED BY <2>1, <2>3, <4>2
    <3>2. base[s.tok] \in Nat BY <1>1, <2>1
    <3> HIDE DEF s, from
    <3> QED BY <1>2, <2>1, <2>3, <3>1, <3>2
  <2>4. Covers(t, inbox' \cup lost', log', base')
    <3>1. ASSUME NEW m \in (base'[s.tok] + 1)..Len(log'), log'[m].kind = "token",
                 m \notin inbox' \cup lost'
          PROVE  Context(t, log'[m].user) >= m
      <4>0. m \notin inbox' /\ m \notin lost BY <2>1, <3>1
      <4>1. m \in (base[s.tok] + 1)..s.buf BY <2>3, <3>1, <4>0
      <4>2. m \in 1..Len(log)
        <5>1. s.buf <= Len(log) BY <1>2, <2>1 DEF Sane
        <5>2. base[s.tok] \in Nat BY <1>1, <2>1
        <5> HIDE DEF s
        <5> QED BY <1>2, <2>1, <4>1, <5>1, <5>2
      <4>3. log'[m] = log[m] BY <1>1, <4>2 DEF LogGrows
      <4>4. Context(s, log[m].user) >= m BY <2>2, <3>1, <4>0, <4>1, <4>3 DEF Covers
      <4> QED BY <2>1, <4>3, <4>4 DEF Context
    <3> QED BY <2>1, <3>1 DEF Covers
  <2>5. ASSUME NEW i \in 1..Cur, i # Cur PROVE Covers(objs'[i], lost', log', base')
    <3>1. objs'[i] = objs[i] /\ Covers(objs[i], lost, log, base) BY <2>1, <2>5 DEF InMemory
    <3> QED BY <1>1, <1>2, <2>5, <3>1, CoversStays
  <2> QED BY <1>2, <2>1, <2>4, <2>5 DEF InMemory
<1>5. CASE Parse
  <2>1. /\ Cur' = Cur /\ Cur > 0 /\ Cur \in 1..Cur /\ log' = log /\ base' = base /\ lost' = lost
        /\ objs'[Cur].tok = objs[Cur].tok /\ objs'[Cur].buf = objs[Cur].buf
        /\ \A i \in 1..Cur : i # Cur => objs'[i] = objs[i]
    BY <1>2, <1>5, ParseDoes
  <2>2. Covers(objs'[Cur], inbox' \cup lost, log, base)
    <3>1. objs[Cur] \in Sessions /\ objs[Cur].buf <= objs[Cur].buf
      <4>1. objs[Cur] \in Sessions BY <1>2, <2>1
      <4> QED BY <4>1, SessionFields
    <3>2. Covers(objs[Cur], inbox \cup lost, log, base) BY <1>2, <2>1 DEF InMemory
    <3> QED BY <1>5, <2>1, <3>1, <3>2, ParseCovers
  <2>3. \A i \in 1..Cur : i # Cur => Covers(objs'[i], lost, log, base) BY <2>1 DEF InMemory
  <2> QED BY <2>1, <2>2, <2>3 DEF InMemory
<1>6. CASE UNCHANGED <<objs, inbox, log, base, lost>>
  BY <1>6 DEF InMemory, Cur
<1>8. CASE ParseFails
  <2>1. /\ UNCHANGED <<objs, log, base>> /\ Cur' = Cur
        /\ inbox' \cup lost' = inbox \cup lost /\ lost \subseteq lost'
    BY <1>8, ParseFailsDoes DEF Cur
  <2>2. ASSUME NEW i \in 1..Cur
        PROVE  Covers(objs[i], IF i = Cur THEN inbox' \cup lost' ELSE lost', log, base)
    <3>1. CASE i = Cur BY <2>1, <2>2, <3>1 DEF InMemory
    <3>2. CASE i # Cur
      <4>1. Covers(objs[i], lost, log, base) BY <2>2, <3>2 DEF InMemory
      <4>2. Covers(objs[i], lost', log, base) BY <2>1, <4>1 DEF Covers
      <4> QED BY <3>2, <4>2
    <3> QED BY <3>1, <3>2
  <2> QED BY <2>1, <2>2 DEF InMemory
<1>7. UNCHANGED <<objs, inbox, log, base, lost>> \/ LoggingIn \/ Poll \/ Parse \/ ParseFails
  BY ChannelSteps, StartDoes, ParseFailsDoes, DispatchDoes, TurnDoes, OpenDoes, TakeDoes, WriteDoes, WriteFailsDoes
     DEF RemoveFile, Asking, Signalled, Refused, Saving, server, incoming, history
<1> QED BY <1>3, <1>4, <1>5, <1>6, <1>7, <1>8

LEMMA DiskCovered ==
    ASSUME Typed, Placed, OnDisk, \A w \in Savers : CoversInSave(w), [ChannelNext]_channelVars
    PROVE  OnDisk'
<1>1. /\ LogGrows
      /\ \A c \in Codes : base[c] \in Nat /\ base'[c] \in Nat /\ base'[c] >= base[c]
      /\ lost \subseteq lost' /\ (~ParseFails => lost' = lost)
  BY GrowStep, BaseGrows, LostGrows
<1>2. CASE stored' = stored
  <2>1. SUFFICES ASSUME stored \in Sessions PROVE Covers(stored, lost', log', base')
    BY <1>2 DEF OnDisk
  <2>2. Covers(stored, lost, log, base) /\ Sane(stored) BY <2>1 DEF OnDisk, Typed
  <2> QED BY <1>1, <2>1, <2>2, CoversStays
<1>3. ASSUME NEW w \in Savers, Write(w) PROVE OnDisk'
  <2>1. Covers(Whole(w), lost, log, base) BY <1>3, WriteDoes DEF CoversInSave
  <2>2. log' = log /\ base' = base /\ lost' = lost /\ (stored' = Whole(w) \/ stored' = Torn) BY <1>3, WriteDoes
  <2> QED BY <2>1, <2>2, NoSessions DEF OnDisk
<1>4. CASE stored' \in {Torn, Missing} BY <1>4, NoSessions DEF OnDisk
<1>5. stored' = stored \/ stored' \in {Torn, Missing} \/ \E w \in Savers : Write(w)
  <2>1. CASE Over BY <2>1, OverDoes
  <2>2. ASSUME NEW w \in Savers, Saving(w) PROVE stored' = stored \/ stored' = Torn \/ Write(w)
    BY <2>2, OpenDoes, TakeDoes, WriteFailsDoes DEF Saving
  <2> QED BY <2>1, <2>2, Unsaved
<1> QED BY <1>2, <1>3, <1>4, <1>5

LEMMA SaveCovered ==
    ASSUME Typed, Placed, InOrder, InMemory, [ChannelNext]_channelVars,
           NEW w \in Savers, CoversInSave(w), "early" \notin odd'
    PROVE  CoversInSave(w)'
<1> DEFINE o == Object(w)
<1> SUFFICES ASSUME save'[w].at = "taken"
             PROVE  /\ Covers(Whole(w)', lost', log', base')
                    /\ Object(w)' = Cur' => \A n \in inbox' : save'[w].copy.buf < n
  BY DEF CoversInSave
<1>1. /\ LogGrows
      /\ \A c \in Codes : base[c] \in Nat /\ base'[c] \in Nat /\ base'[c] >= base[c]
      /\ lost \subseteq lost' /\ (~ParseFails => lost' = lost)
  BY GrowStep, BaseGrows, LostGrows
<1>2. pc # "down" /\ ~Over BY TakenWas
<1>3. CASE Take(w)
  <2>1. /\ save[w].at = "open" /\ save'[w].copy = objs[o]
        /\ odd' = odd \cup (IF inbox # {} /\ o = Cur THEN {"early"} ELSE {})
        /\ UNCHANGED <<log, base, lost, objs, inbox, thread>>
    BY <1>3, TakeDoes
  <2>2. o \in 1..Cur /\ objs[o] \in Sessions BY <2>1, ObjectType
  <2>3. o = Cur => inbox = {} /\ inbox \cup lost = lost BY <2>1
  <2>4. Object(w)' = o /\ Cur' = Cur BY <2>1 DEF Object, Cur
  <2>5. Covers(objs[o], lost, log, base)
    <3>1. Covers(objs[o], IF o = Cur THEN inbox \cup lost ELSE lost, log, base) BY <2>2 DEF InMemory
    <3> QED BY <2>3, <3>1
  <2>6. Whole(w)'.tok = objs[o].tok /\ Whole(w)'.buf = objs[o].buf /\ Whole(w)'.ctx = objs[o].ctx
    <3> DEFINE s == objs[o]
               c == s.ctx
    <3>1. Whole(w)' = [s EXCEPT !.ctx = c] BY <2>1, <2>4 DEF Whole
    <3> HIDE DEF s, c, o
    <3>2. s \in Sessions BY <2>2 DEF s
    <3>3. Whole(w)'.tok = s.tok /\ Whole(w)'.buf = s.buf /\ Whole(w)'.ctx = c
      BY <3>1, <3>2 DEF Sessions
    <3> QED BY <3>3 DEF s, c
  <2>7. Sane(objs[o]) BY <2>2 DEF Typed
  <2>8. Covers(Whole(w)', lost', log', base') BY <1>1, <2>2, <2>5, <2>6, <2>7, CoversStays
  <2> QED BY <2>1, <2>3, <2>4, <2>8
<1>4. CASE ~Take(w)
  <2> DEFINE s == Whole(w)
  <2>1. /\ save[w].at = "taken" /\ save'[w].copy = save[w].copy
        /\ Object(w)' = o /\ o \in 1..Cur /\ s \in Sessions /\ Sane(s)
        /\ s'.tok = s.tok /\ s'.buf = s.buf /\ s'.ctx = objs'[o].ctx
        /\ Cur' >= Cur /\ Cur' \in Nat
    BY <1>4, WholeStays
  <2>2. /\ Covers(s, lost, log, base) /\ (o = Cur => \A n \in inbox : save[w].copy.buf < n)
    BY <2>1 DEF CoversInSave
  <2>3. s.ctx = objs[o].ctx /\ s.buf = save[w].copy.buf /\ s.buf <= objs[o].buf
    BY <2>1, WholeType
  <2>4. CASE Parse /\ o = Cur
    <3>1. Covers(s', lost, log, base) BY <2>1, <2>2, <2>3, <2>4, ParseCovers
    <3>2. /\ log' = log /\ base' = base /\ lost' = lost
          /\ inbox' \subseteq inbox /\ Cur' = Cur
      BY <2>4, ParseDoes
    <3> QED BY <2>1, <2>2, <2>4, <3>1, <3>2
  <2>5. CASE ~(Parse /\ o = Cur)
    <3>1. objs'[o].ctx = objs[o].ctx
      <4>1. CASE Parse BY <2>1, <2>5, <4>1, ParseDoes
      <4>2. CASE Poll BY <2>1, <4>2, PollDoes
      <4>3. CASE LoggingIn
        <5> DEFINE n == NewSession(qrcode)
        <5>1. n \in Sessions
          BY <4>3, NewSessionType, Numbers DEF LoggingIn, Placed, Typed, ChannelTypeOK
        <5>2. objs' = Append(objs, n) BY <4>3 DEF LoggingIn
        <5> HIDE DEF n
        <5> QED BY <2>1, <5>1, <5>2, ObjsType, AppendProperties DEF Cur
      <4>4. objs' = objs \/ LoggingIn \/ Poll \/ Parse
        BY <1>2, ChannelSteps, StartDoes, ParseFailsDoes, DispatchDoes, TurnDoes, OpenDoes, TakeDoes, WriteDoes,
           WriteFailsDoes
           DEF RemoveFile, Asking, Signalled, Refused, Saving, server, incoming, history
      <4> QED BY <4>1, <4>2, <4>3, <4>4
    <3>2. Covers(s', lost', log', base') BY <1>1, <2>1, <2>2, <2>3, <3>1, CoversStays
    <3>3. ASSUME o = Cur', NEW n \in inbox' PROVE save[w].copy.buf < n
      <4>1. o = Cur /\ Cur' = Cur
        <5> HIDE DEF o
        <5> QED BY <2>1, <3>3, ObjsType
      <4>2. CASE Poll
        <5> DEFINE r == objs[Cur]
                   from == IF r.buf = 0 THEN Len(log) ELSE r.buf
        <5>1. /\ r \in Sessions /\ r.buf \in Nat /\ from \in 0..Len(log) /\ Len(log') \in Nat
              /\ inbox' = (from + 1)..Len(log') /\ Len(log) \in Nat
          BY <4>2, PollDoes, SessionFields, ObjsType
        <5>2. s.buf <= r.buf /\ s.buf \in Nat BY <2>1, <2>3, <4>1, SessionFields
        <5> HIDE DEF s, r
        <5>3. s.buf <= from BY <5>1, <5>2
        <5>4. s.buf < n
          <6> HIDE DEF from
          <6> QED BY <3>3, <5>1, <5>2, <5>3
        <5> QED BY <2>3, <5>4 DEF s
      <4>3. CASE inbox' \subseteq inbox BY <2>2, <3>3, <4>1, <4>3
      <4>4. inbox' \subseteq inbox \/ Poll
        BY <1>2, ChannelSteps, StartDoes, ParseDoes, ParseFailsDoes, DispatchDoes, TurnDoes, OpenDoes, TakeDoes,
           WriteDoes, WriteFailsDoes
           DEF RemoveFile, Asking, LoggingIn, Signalled, Refused, Saving, server, incoming, history
      <4> QED BY <4>2, <4>3, <4>4
    <3> QED BY <2>1, <3>2, <3>3
  <2> QED BY <2>4, <2>5
<1> QED BY <1>3, <1>4

LEMMA CoveredStep ==
    Typed /\ Placed /\ InOrder /\ Covered /\ [ChannelNext]_channelVars => Covered'
<1> SUFFICES ASSUME Typed, Placed, InOrder, Covered, [ChannelNext]_channelVars, "early" \notin odd'
             PROVE  /\ InMemory' /\ OnDisk'
                    /\ \A w \in Savers : CoversInSave(w)'
  BY DEF Covered, InMemory, OnDisk
<1>1. InMemory /\ OnDisk /\ \A w \in Savers : CoversInSave(w)
  BY OddGrows DEF Covered, InMemory, OnDisk
<1>2. OnDisk' BY <1>1, DiskCovered
<1>3. \A w \in Savers : CoversInSave(w)' BY <1>1, SaveCovered
<1>4. InMemory'
  <2>1. CASE pc # "down" /\ ~Over BY <1>1, <2>1, MemoryCovered
  <2>2. CASE Over
    <3>1. Cur' = 0 BY <2>2, OverDoes, EmptySeq DEF Cur
    <3> QED BY <3>1 DEF InMemory
  <2>3. CASE Start
    <3>1. CASE stored \in Sessions
      <4>1. objs' = <<stored>> /\ stored' = stored /\ inbox' = {} /\ log' = log /\ base' = base
        BY <2>3, <3>1, StartDoes DEF Placed
      <4>2. Cur' = 1 /\ objs'[1] = stored BY <4>1 DEF Cur
      <4>3. Covers(stored, lost', log', base') BY <1>2, <3>1, <4>1 DEF OnDisk
      <4> QED BY <4>1, <4>2, <4>3 DEF InMemory
    <3>2. CASE stored \notin Sessions
      <4>1. objs' = <<>> BY <2>3, <3>2, StartDoes
      <4>2. Cur' = 0 BY <4>1, EmptySeq DEF Cur
      <4> QED BY <4>2 DEF InMemory
    <3> QED BY <3>1, <3>2
  <2>4. CASE pc = "down" /\ ~Over /\ ~Start
    <3>1. objs = <<>> /\ objs' = objs
      BY <2>4, ChannelSteps, DispatchDoes, TurnDoes, OpenDoes, TakeDoes, WriteDoes, WriteFailsDoes
         DEF Placed, RemoveFile, Asking, LoggingIn, Signalled, Refused, Poll, Parse, ParseFails, Saving
    <3>2. Cur' = 0 BY <3>1, EmptySeq DEF Cur
    <3> QED BY <3>2 DEF InMemory
  <2> QED BY <2>1, <2>2, <2>3, <2>4
<1> QED BY <1>2, <1>3, <1>4

LEMMA InitCovered == ChannelInit => Covered
<1> SUFFICES ASSUME ChannelInit PROVE Covered OBVIOUS
<1>1. Cur = 0 BY EmptySeq DEF ChannelInit, Cur
<1>2. \A w \in Savers : save[w].at = "no" BY NotSavingType DEF ChannelInit
<1> QED BY <1>1, <1>2, NoSessions DEF ChannelInit, Covered, CoversInSave

\* The newest session is the one the server accepts, if it accepts any that this
\* process has; a code that is asked about is newer than every session.
Newest ==
    /\ \A i \in 1..Cur : i < Cur => objs[i].tok # accepted
    /\ pc \in {"wait", "number"} => /\ \A i \in 1..Cur : objs[i].tok < qrcode
                                    /\ stored \in Sessions => stored.tok < qrcode

LEMMA InitNewest == ChannelInit => Newest
<1> SUFFICES ASSUME ChannelInit PROVE Newest OBVIOUS
<1>1. Cur = 0 BY EmptySeq DEF ChannelInit, Cur
<1> QED BY <1>1 DEF ChannelInit, Newest

LEMMA NewestStep ==
    Typed /\ Placed /\ Newest /\ [ChannelNext]_channelVars => Newest'
<1> SUFFICES ASSUME Typed, Placed, Newest, [ChannelNext]_channelVars PROVE Newest' OBVIOUS
<1>1. /\ Cur \in Nat /\ codes \in Nat
      /\ \A i \in 1..Cur : objs[i].tok \in Nat \ {0} /\ objs[i].tok <= codes
      /\ stored \in Sessions => stored.tok \in Nat \ {0} /\ stored.tok <= codes
  BY ObjsType, SessionFields DEF Typed, Sane
<1>2. CASE Over \/ Start
  <2>1. Cur' \in {0, 1}
    <3>1. objs' = <<>> \/ \E s \in Sessions : objs' = <<s>> BY <1>2, OverDoes, StartDoes
    <3> QED BY <3>1, EmptySeq DEF Cur
  <2>2. pc' \notin {"wait", "number"} BY <1>2, OverDoes, StartDoes
  <2> QED BY <2>1, <2>2 DEF Newest
<1>3. CASE RemoveFile \/ Refused
  BY <1>3, NoSessions DEF Newest, RemoveFile, Refused, Cur, server, login, incoming
<1>4. CASE Asking
  <2>1. /\ accepted' = accepted /\ stored' = stored /\ objs' = objs /\ Cur' = Cur
        /\ \/ qrcode' = codes + 1
           \/ qrcode' = qrcode /\ pc \in {"wait", "number"}
    BY <1>4 DEF Asking, Cur
  <2>2. \A i \in 1..Cur : objs[i].tok < qrcode' BY <1>1, <2>1 DEF Newest
  <2>3. stored \in Sessions => stored.tok < qrcode' BY <1>1, <2>1 DEF Newest
  <2> QED BY <2>1, <2>2, <2>3 DEF Newest
<1>5. CASE LoggingIn
  <2> DEFINE n == NewSession(qrcode)
  <2>1. qrcode \in Codes /\ n \in Sessions
    BY <1>5, NewSessionType, Numbers DEF LoggingIn, Placed, Typed, ChannelTypeOK
  <2> HIDE DEF n
  <2>2. objs' = Append(objs, n) /\ accepted' = qrcode /\ pc' = "save" /\ pc \in {"wait", "number"}
    BY <1>5 DEF LoggingIn, n
  <2>3. Cur' = Cur + 1 /\ \A i \in 1..Cur : objs'[i] = objs[i]
    BY <2>1, <2>2, ObjsType, AppendProperties DEF Cur
  <2>4. \A i \in 1..Cur : objs[i].tok < qrcode BY <2>2 DEF Newest
  <2>5. qrcode \in Nat BY <2>1, Numbers
  <2>6. ASSUME NEW i \in 1..Cur', i < Cur' PROVE objs'[i].tok # accepted'
    <3>1. i \in 1..Cur BY <1>1, <2>3, <2>6
    <3> DEFINE c == objs[i].tok
    <3>2. c \in Nat /\ c < qrcode /\ objs'[i].tok = c BY <1>1, <2>3, <2>4, <3>1
    <3> HIDE DEF c
    <3>3. c # qrcode BY <2>5, <3>2
    <3> QED BY <2>2, <3>2, <3>3
  <2> QED BY <2>2, <2>6 DEF Newest
<1>6. CASE Signalled
  <2>1. accepted' \in {accepted, 0} /\ UNCHANGED <<objs, pc, qrcode, stored>> /\ Cur' = Cur
    BY <1>6 DEF Signalled, Cur
  <2> QED BY <1>1, <2>1 DEF Newest
<1>7. CASE Poll \/ Parse \/ ParseFails
  <2>1. /\ pc = "loop" /\ pc' = "loop" /\ accepted' = accepted /\ Cur' = Cur
        /\ \A i \in 1..Cur : i < Cur => objs'[i] = objs[i]
    BY <1>1, <1>7, PollDoes, ParseDoes, ParseFailsDoes DEF Cur
  <2> QED BY <2>1 DEF Newest
<1>8. ASSUME NEW u \in Users, Dispatch(u) \/ Turning(u) PROVE Newest'
  BY <1>8, DispatchDoes, TurnDoes DEF Newest, Cur
<1>9. ASSUME NEW w \in Savers, Saving(w) PROVE Newest'
  <2>1. UNCHANGED <<objs, accepted, qrcode>> /\ Cur' = Cur
    BY <1>9, OpenDoes, TakeDoes, WriteDoes, WriteFailsDoes DEF Saving, Cur
  <2>2. pc' \in {"wait", "number"} => pc = pc'
    BY <1>9, OpenDoes, TakeDoes, WriteDoes, WriteFailsDoes DEF Saving
  <2>3. stored' \in Sessions => stored' = stored \/ \E i \in 1..Cur : stored'.tok = objs[i].tok
    <3>1. CASE Write(w)
      <4>1. stored' = Whole(w) \/ stored' = Torn BY <3>1, WriteDoes
      <4>2. Object(w) \in 1..Cur /\ Whole(w).tok = objs[Object(w)].tok
        BY <3>1, WriteDoes, WholeType, ObjectType
      <4> QED BY <4>1, <4>2, NoSessions
    <3> QED BY <1>9, <3>1, OpenDoes, TakeDoes, WriteFailsDoes, NoSessions DEF Saving
  <2> QED BY <2>1, <2>2, <2>3 DEF Newest
<1> QED BY <1>2, <1>3, <1>4, <1>5, <1>6, <1>7, <1>8, <1>9, ChannelSteps

\* A session's cursor is past all messages of a set, or asks for new ones only.
Past(s, done) == s.buf = 0 \/ \A k \in done : k <= s.buf

\* What a save writes is past the messages that were answered before, and those
\* that it is about to mark as answered.
PastInSave(w) ==
    save[w].at = "taken" /\ Object(w) = Cur =>
        /\ save[w].copy.tok = accepted => Past(save[w].copy, kept)
        /\ w # Main => \A k \in thread[w].msgs : k <= save[w].copy.buf

NotAgain ==
    "overlap" \notin odd =>
        /\ inbox \cap kept = {}
        /\ Cur > 0 /\ objs[Cur].tok = accepted => Past(objs[Cur], kept)
        /\ stored \in Sessions /\ stored.tok = accepted => Past(stored, kept)
        /\ \A w \in Savers : PastInSave(w)

LEMMA InitNotAgain == ChannelInit => NotAgain
<1> SUFFICES ASSUME ChannelInit PROVE NotAgain OBVIOUS
<1>1. Cur = 0 BY EmptySeq DEF ChannelInit, Cur
<1>2. \A w \in Savers : save[w].at = "no" BY NotSavingType DEF ChannelInit
<1> QED BY <1>1, <1>2, NoSessions DEF ChannelInit, NotAgain, PastInSave

LEMMA NotAgainStep ==
    Typed /\ Placed /\ Lone /\ InOrder /\ Newest /\ NotAgain /\ [ChannelNext]_channelVars => NotAgain'
<1> SUFFICES ASSUME Typed, Placed, Lone, InOrder, Newest, NotAgain, [ChannelNext]_channelVars,
                    "overlap" \notin odd'
             PROVE  /\ inbox' \cap kept' = {}
                    /\ Cur' > 0 /\ objs'[Cur'].tok = accepted' => Past(objs'[Cur'], kept')
                    /\ stored' \in Sessions /\ stored'.tok = accepted' => Past(stored', kept')
                    /\ \A w \in Savers : PastInSave(w)'
  BY DEF NotAgain
<1>1. /\ inbox \cap kept = {}
      /\ Cur > 0 /\ objs[Cur].tok = accepted => Past(objs[Cur], kept)
      /\ stored \in Sessions /\ stored.tok = accepted => Past(stored, kept)
      /\ \A w \in Savers : PastInSave(w)
      /\ "overlap" \notin odd
  BY OddGrows DEF NotAgain
<1>2. /\ Cur \in Nat /\ codes \in Nat /\ kept \subseteq 1..Len(log) /\ Len(log) \in Nat
      /\ \A i \in 1..Cur : objs[i] \in Sessions /\ objs[i].tok # 0 /\ objs[i].buf \in Nat
                           /\ objs[i].buf <= Len(log)
      /\ stored \in Sessions => stored.tok # 0
  BY ObjsType, SessionFields DEF Typed, Sane, ChannelTypeOK

\* Who has read the session, and nothing of it is answered now.
<1>3. ASSUME NEW w \in Savers, save'[w].at = "taken", Object(w)' = Cur', ~Take(w), kept' = kept,
             accepted' \in {accepted, 0}
      PROVE  /\ save'[w].copy.tok = accepted' => Past(save'[w].copy, kept')
             /\ w # Main => \A k \in thread'[w].msgs : k <= save'[w].copy.buf
  <2>1. /\ save[w].at = "taken" /\ save'[w].copy = save[w].copy /\ pc # "down" /\ ~Over
        /\ Object(w)' = Object(w) /\ Object(w) \in 1..Cur /\ Cur' >= Cur /\ Cur' \in Nat
    BY <1>3, TakenWas, WholeStays
  <2>2. Object(w) = Cur
    <3> DEFINE o == Object(w)
    <3>1. o = Cur' /\ o \in 1..Cur BY <1>3, <2>1
    <3>2. Cur' >= Cur /\ Cur' \in Nat /\ Cur \in Nat BY <1>2, <2>1
    <3> HIDE DEF o
    <3>3. o = Cur BY <3>1, <3>2
    <3> QED BY <3>3 DEF o
  <2>3. save[w].copy.tok # 0 /\ save[w].copy \in Sessions BY <2>1, SessionFields DEF Placed
  <2>4. w # Main => thread'[w].msgs = thread[w].msgs BY <1>3, <2>1, SaveStays
  <2> QED BY <1>1, <1>3, <2>1, <2>2, <2>3, <2>4 DEF PastInSave

<1>4. CASE Over
  <2>1. Cur' = 0 /\ inbox' = {} /\ UNCHANGED <<stored, accepted, kept>>
    BY <1>4, OverDoes, EmptySeq DEF Cur
  <2>2. \A w \in Savers : save'[w].at = "no" BY <1>4, OverDoes, NotSavingType
  <2> QED BY <1>1, <2>1, <2>2 DEF PastInSave
<1>5. CASE Start
  <2>1. inbox' = {} /\ UNCHANGED <<stored, accepted, kept, save>> /\ \A w \in Savers : save[w].at = "no"
    BY <1>5, StartDoes DEF Placed
  <2>2. CASE stored \in Sessions
    <3>1. objs' = <<stored>> BY <1>5, <2>2, StartDoes
    <3>2. Cur' = 1 /\ objs'[1] = stored BY <3>1 DEF Cur
    <3> QED BY <1>1, <2>1, <2>2, <3>2 DEF PastInSave
  <2>3. CASE stored \notin Sessions
    <3>1. Cur' = 0 BY <1>5, <2>3, StartDoes, EmptySeq DEF Cur
    <3> QED BY <1>1, <2>1, <2>3, <3>1 DEF PastInSave
  <2> QED BY <2>2, <2>3
<1>6. CASE LoggingIn
  <2> DEFINE n == NewSession(qrcode)
  <2>1. qrcode \in Codes /\ n \in Sessions /\ n.buf = 0
    BY <1>6, NewSessionType, Numbers DEF LoggingIn, Placed, Typed, ChannelTypeOK
  <2> HIDE DEF n
  <2>2. /\ objs' = Append(objs, n) /\ accepted' = qrcode /\ pc \in {"wait", "number"} /\ inbox' = {}
        /\ UNCHANGED <<stored, save, thread, kept>>
    BY <1>6 DEF LoggingIn, n
  <2>3. Cur' = Cur + 1 /\ objs'[Cur'] = n
    BY <2>1, <2>2, ObjsType, AppendProperties DEF Cur
  <2>4. stored \in Sessions => stored.tok # qrcode
    <3>1. stored \in Sessions => stored.tok < qrcode BY <2>2 DEF Newest
    <3>2. stored \in Sessions => stored.tok \in Nat BY SessionFields, Numbers
    <3>3. qrcode \in Nat BY <2>1, Numbers
    <3> QED BY <3>1, <3>2, <3>3
  <2>5. ASSUME NEW w \in Savers, save[w].at = "taken" PROVE Object(w)' # Cur'
    <3>1. w # Main /\ w \in Users BY <2>2, <2>5, Numbers DEF Placed
    <3>2. Object(w)' = Object(w) /\ Object(w) \in 1..Cur BY <2>2, <2>5, <3>1, ObjectType DEF Object
    <3> DEFINE o == Object(w)
    <3>3. Object(w)' = o /\ o \in 1..Cur BY <3>2
    <3> HIDE DEF o
    <3> QED BY <1>2, <2>3, <3>3
  <2> QED BY <2>1, <2>2, <2>3, <2>4, <2>5 DEF Past, PastInSave
<1>7. CASE Poll
  <2> DEFINE s == objs[Cur]
             from == IF s.buf = 0 THEN Len(log) ELSE s.buf
  <2>1. /\ Cur > 0 /\ s \in Sessions /\ s.tok = accepted /\ s.buf \in Nat /\ s.buf <= Len(log)
        /\ Len(log') \in Nat /\ Len(log') >= Len(log)
        /\ inbox' = (from + 1)..Len(log') /\ Cur' = Cur /\ objs'[Cur].buf = Len(log')
        /\ UNCHANGED <<stored, accepted, kept, save, thread>>
    BY <1>2, <1>7, PollDoes, SessionFields DEF LogGrows
  <2>2. Past(s, kept) BY <1>1, <2>1
  <2>3. \A k \in kept : k <= from /\ k \in Nat /\ k <= Len(log')
    <3>1. s.buf # 0 => \A k \in kept : k <= s.buf BY <2>2 DEF Past
    <3>2. \A k \in kept : k \in Nat /\ k <= Len(log) BY <1>2
    <3> HIDE DEF s
    <3> QED BY <1>2, <2>1, <3>1, <3>2
  <2>4. inbox' \cap kept = {}
    <3>1. from \in Nat BY <1>2, <2>1
    <3> HIDE DEF from, s
    <3> QED BY <2>1, <2>3, <3>1
  <2>5. Past(objs'[Cur], kept) BY <2>1, <2>3 DEF Past
  <2>6. \A w \in Savers : PastInSave(w)'
    <3>1. \A w \in Savers : ~(save'[w].at = "taken" /\ Take(w)) BY <2>1, TakeDoes
    <3> QED BY <1>3, <2>1, <3>1 DEF PastInSave
  <2> QED BY <1>1, <2>1, <2>4, <2>5, <2>6
<1>8. CASE Parse
  <2>1. /\ Cur > 0 /\ Cur' = Cur /\ inbox' \subseteq inbox
        /\ objs'[Cur].tok = objs[Cur].tok /\ objs'[Cur].buf = objs[Cur].buf
        /\ UNCHANGED <<stored, accepted, kept, save>>
    BY <1>8, ParseDoes
  <2>2. \A w \in Savers : PastInSave(w)'
    <3>1. \A w \in Savers : ~(save'[w].at = "taken" /\ Take(w)) BY <2>1, TakeDoes
    <3> QED BY <1>3, <2>1, <3>1 DEF PastInSave
  <2> QED BY <1>1, <2>1, <2>2 DEF Past
<1>9. ASSUME NEW w \in Savers, Take(w) PROVE NotAgain'
  <2>1. /\ save[w].at = "open" /\ save'[w].copy = objs[Object(w)]
        /\ \A x \in Savers : x # w => save'[x] = save[x]
        /\ UNCHANGED <<stored, accepted, kept, objs, inbox, thread>>
    BY <1>9, TakeDoes
  <2>2. Cur' = Cur /\ Object(w)' = Object(w) BY <2>1 DEF Cur, Object
  <2>3. /\ Object(w) \in 1..Cur /\ Cur > 0
        /\ w # Main => w \in Users /\ thread[w].at = "save" /\ Object(w) = thread[w].obj
    BY <2>1, ObjectType
  <2>4. w # Main /\ Object(w) = Cur => \A k \in thread[w].msgs : k <= objs[Cur].buf
    BY <2>3 DEF InOrder, Parsed
  <2>5. PastInSave(w)' BY <1>1, <2>1, <2>2, <2>3, <2>4 DEF PastInSave
  <2>6. \A x \in Savers : x # w => PastInSave(x)'
    <3>1. ASSUME NEW x \in Savers, x # w, save'[x].at = "taken" PROVE ~Take(x)
      BY <2>1, <3>1, TakeDoes
    <3> QED BY <1>3, <2>1, <3>1 DEF PastInSave
  <2> QED BY <1>1, <2>1, <2>2, <2>5, <2>6 DEF NotAgain
<1>10. ASSUME NEW w \in Savers, Write(w) PROVE NotAgain'
  <2>1. /\ save[w].at = "taken" /\ save'[w].at = "no" /\ w \in Busy /\ ~save[w].mixed
        /\ \A x \in Savers : x # w => save'[x].at = "no"
        /\ UNCHANGED <<accepted, objs, inbox>> /\ stored' = Whole(w) /\ Cur' = Cur
    BY <1>1, <1>10, WriteDoes DEF Lone, Busy, Cur
  <2>2. \A x \in Savers : PastInSave(x)' BY <2>1 DEF PastInSave
  <2>3. /\ Object(w) \in 1..Cur /\ Cur > 0 /\ objs[Object(w)].tok = Whole(w).tok
        /\ w # Main => w \in Users /\ thread[w].at = "save" /\ Object(w) = thread[w].obj
        /\ w = Main => Object(w) = Cur
        /\ Whole(w).buf = save[w].copy.buf /\ Whole(w).tok = save[w].copy.tok
        /\ save[w].copy \in Sessions /\ save[w].copy.buf \in Nat
        /\ save[w].copy.buf <= objs[Object(w)].buf
    BY <2>1, ObjectType, WholeType, SessionFields DEF Placed
  <2>4. CASE w # Main /\ Object(w) = Cur
    <3> DEFINE msgs == thread[w].msgs
    <3>1. kept' = kept \cup msgs BY <1>10, <2>3, <2>4, WriteDoes
    <3>2. \A k \in msgs : k <= save[w].copy.buf BY <1>1, <2>1, <2>4 DEF PastInSave
    <3>3. \A k \in msgs : k <= objs[Cur].buf /\ \A n \in inbox : k < n
      BY <2>3, <2>4 DEF InOrder, Parsed
    <3>4. inbox' \cap kept' = {}
      <4>1. inbox \subseteq Nat /\ msgs \subseteq Nat
        BY <1>2, <2>3, <2>4, ThreadsType DEF Typed, ChannelTypeOK
      <4> HIDE DEF msgs
      <4>2. inbox \cap msgs = {} BY <3>3, <4>1
      <4> QED BY <1>1, <2>1, <3>1, <4>2
    <3>5. objs[Cur].tok = accepted => Past(objs[Cur], kept') BY <1>1, <2>3, <3>1, <3>3 DEF Past
    <3>6. Whole(w).tok = accepted => Past(Whole(w), kept')
      <4>1. Whole(w).tok = accepted => Past(save[w].copy, kept)
        BY <1>1, <2>1, <2>3, <2>4 DEF PastInSave
      <4> QED BY <2>3, <3>1, <3>2, <4>1 DEF Past
    <3> QED BY <2>1, <2>2, <3>4, <3>5, <3>6 DEF NotAgain
  <2>5. CASE ~(w # Main /\ Object(w) = Cur)
    <3>1. kept' = kept BY <1>10, <2>3, <2>5, WriteDoes
    <3>2. CASE Object(w) = Cur
      <4>1. Whole(w).tok = accepted => Past(Whole(w), kept)
        BY <1>1, <2>1, <2>3, <3>2 DEF PastInSave, Past
      <4> QED BY <1>1, <2>1, <2>2, <3>1, <4>1 DEF NotAgain
    <3>3. CASE Object(w) # Cur
      <4> DEFINE o == Object(w)
      <4>1. o \in 1..Cur /\ o # Cur BY <2>3, <3>3
      <4> HIDE DEF o
      <4>2. o < Cur BY <1>2, <4>1
      <4>3. objs[o].tok # accepted BY <4>1, <4>2 DEF Newest
      <4>4. Whole(w).tok # accepted BY <2>3, <4>3 DEF o
      <4> QED BY <1>1, <2>1, <2>2, <3>1, <4>4 DEF NotAgain
    <3> QED BY <3>2, <3>3
  <2> QED BY <2>4, <2>5
<1>11. CASE /\ UNCHANGED <<objs, kept>> /\ inbox' \subseteq inbox /\ accepted' \in {accepted, 0}
            /\ stored' = stored \/ stored' \in {Torn, Missing}
            /\ \A w \in Savers : ~Take(w)
  <2>1. Cur' = Cur BY <1>11 DEF Cur
  <2>2. \A w \in Savers : PastInSave(w)' BY <1>3, <1>11 DEF PastInSave
  <2>3. Cur > 0 /\ objs[Cur].tok = accepted' => Past(objs[Cur], kept) BY <1>1, <1>2, <1>11
  <2>4. stored' \in Sessions /\ stored'.tok = accepted' => Past(stored', kept)
    BY <1>1, <1>2, <1>11, NoSessions
  <2> QED BY <1>1, <1>11, <2>1, <2>2, <2>3, <2>4
<1>12. CASE ~Over /\ ~Start /\ ~LoggingIn /\ ~Poll /\ ~Parse /\ \A w \in Savers : ~Take(w) /\ ~Write(w)
  <2>1. CASE RemoveFile \/ Asking \/ Signalled \/ Refused \/ ParseFails
    BY <1>11, <1>12, <2>1, ParseFailsDoes DEF RemoveFile, Asking, Signalled, Refused, server, incoming, history
  <2>2. ASSUME NEW u \in Users, Dispatch(u) \/ Turning(u)
        PROVE  UNCHANGED <<objs, kept, inbox, accepted, stored>>
    BY <2>2, DispatchDoes, TurnDoes
  <2>3. ASSUME NEW w \in Savers, OpenFile(w) \/ WriteFails(w)
        PROVE  UNCHANGED <<objs, kept, inbox, accepted>> /\ stored' = Torn
    BY <2>3, OpenDoes, WriteFailsDoes
  <2> QED BY <1>11, <1>12, <2>1, <2>2, <2>3, ChannelSteps DEF Saving
<1> QED BY <1>4, <1>5, <1>6, <1>7, <1>8, <1>9, <1>10, <1>12 DEF NotAgain

\* The saved cursor stands where it should: across logins, saves and restarts,
\* nobody is past it without a context token, and no message is delivered again
\* once its answer was sent and the session saved.
THEOREM CursorIsSound == ChannelSpec => []CursorSound
<1>1. Covered /\ NotAgain => CursorSound
  <2> SUFFICES ASSUME Covered, NotAgain PROVE CursorSound OBVIOUS
  <2>1. CursorCoversContexts BY DEF Covered, Covers, CursorCoversContexts
  <2>2. NoReplay BY DEF NotAgain, NoReplay
  <2> QED BY <2>1, <2>2 DEF CursorSound
<1>2. ChannelSpec => [](InOrder /\ Answered)
  BY TypedAlways, InitInOrder, OrderStep, PTL DEF ChannelSpec
<1>3. ChannelSpec => []Covered
  BY <1>2, TypedAlways, InitCovered, CoveredStep, PTL DEF ChannelSpec
<1>4. ChannelSpec => []Newest
  BY TypedAlways, InitNewest, NewestStep, PTL DEF ChannelSpec
<1>5. ChannelSpec => []NotAgain
  BY <1>2, <1>4, LoneAlways, InitNotAgain, NotAgainStep, PTL DEF ChannelSpec
<1> QED BY <1>1, <1>3, <1>5, PTL
=============================================================================
