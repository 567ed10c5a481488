-------------------------- MODULE SessionCacheProofs --------------------------
(***************************************************************************)
(* Proofs about SessionCache, for every number of users, threads and       *)
(* sessions: its type invariant, how far the limit can be exceeded, and    *)
(* that turns which do not overlap never fail in the cache.                *)
(***************************************************************************)
EXTENDS SessionCache, SequenceTheorems, FiniteSetTheorems, TLAPS

USE DEF vars
-----------------------------------------------------------------------------
(* Keys of a dict.                                                         *)

Keys == order \in Seq(Users) /\ IsInjective(order)

\* del and pop take one key out.
LEMMA WithoutKey ==
    ASSUME Keys, NEW k \in Cached
    PROVE  /\ Without(k) \in Seq(Users) /\ IsInjective(Without(k))
           /\ Len(Without(k)) = Len(order) - 1 /\ Range(Without(k)) = Cached \ {k}
<1> DEFINE i == CHOOSE j \in DOMAIN order : order[j] = k
<1>1. order \in Seq(Users) /\ DOMAIN order = 1..Len(order) /\ Len(order) \in Nat
      /\ \A a, b \in 1..Len(order) : order[a] = order[b] => a = b
    BY LenProperties DEF Keys, IsInjective
<1>2. i \in 1..Len(order) /\ order[i] = k
    BY <1>1 DEF Cached, Range
<1>3. Without(k) = SubSeq(order, 1, i - 1) \o SubSeq(order, i + 1, Len(order))
    BY DEF Without, RemoveAt
<1> HIDE DEF i
<1> DEFINE s == SubSeq(order, 1, i - 1)
           t == SubSeq(order, i + 1, Len(order))
<1>4. /\ s \in Seq(Users) /\ Len(s) = i - 1 /\ \A j \in 1..(i - 1) : s[j] = order[j]
      /\ t \in Seq(Users) /\ Len(t) = Len(order) - i
      /\ \A j \in 1..(Len(order) - i) : t[j] = order[i + j]
    <2>1. \A j \in 1..Len(order) : order[j] \in Users
        BY <1>1, ElementOfSeq
    <2>2. i - 1 \in Int /\ i + 1 \in Int /\ 1 \in Int /\ Len(order) \in Int
        BY <1>1, <1>2
    <2>3. \A j \in 1..(i - 1) : order[j] \in Users
        BY <1>1, <1>2, <2>1
    <2>4. \A j \in (i + 1)..Len(order) : order[j] \in Users
        BY <1>1, <1>2, <2>1
    <2>5. /\ s \in Seq(Users) /\ Len(s) = IF 1 <= i - 1 THEN (i - 1) - 1 + 1 ELSE 0
          /\ \A j \in 1..((i - 1) - 1 + 1) : s[j] = order[1 + j - 1]
        BY <2>2, <2>3, SubSeqProperties
    <2>6. /\ t \in Seq(Users)
          /\ Len(t) = IF i + 1 <= Len(order) THEN Len(order) - (i + 1) + 1 ELSE 0
          /\ \A j \in 1..(Len(order) - (i + 1) + 1) : t[j] = order[(i + 1) + j - 1]
        BY <2>2, <2>4, SubSeqProperties
    <2> HIDE DEF s, t
    <2>7. Len(order) \in Nat /\ i \in Nat /\ 1 <= i /\ i <= Len(order)
        BY <1>1, <1>2
    <2>8. Len(s) = i - 1 /\ \A j \in 1..(i - 1) : s[j] = order[j]
        <3>1. (i - 1) - 1 + 1 = i - 1 /\ \A j \in 1..(i - 1) : 1 + j - 1 = j
            BY <2>7
        <3> QED BY <2>5, <2>7, <3>1
    <2>9. Len(t) = Len(order) - i /\ \A j \in 1..(Len(order) - i) : t[j] = order[i + j]
        <3>1. /\ Len(order) - (i + 1) + 1 = Len(order) - i
              /\ \A j \in 1..(Len(order) - i) : (i + 1) + j - 1 = i + j
            BY <2>7
        <3>2. Len(t) = Len(order) - i
            BY <2>6, <2>7
        <3> QED BY <2>6, <3>1, <3>2
    <2> QED BY <2>5, <2>6, <2>8, <2>9
<1> HIDE DEF s, t
<1> DEFINE w == s \o t
<1>5. /\ w \in Seq(Users) /\ Len(w) = Len(order) - 1
      /\ \A j \in 1..Len(w) : w[j] = IF j < i THEN order[j] ELSE order[j + 1]
    <2>1. /\ w \in Seq(Users) /\ Len(w) = Len(s) + Len(t)
          /\ \A j \in 1..(Len(s) + Len(t)) :
                w[j] = IF j <= Len(s) THEN s[j] ELSE t[j - Len(s)]
        BY <1>4, ConcatProperties
    <2> HIDE DEF w
    <2>2. Len(order) \in Nat /\ i \in Nat /\ 1 <= i /\ i <= Len(order)
        BY <1>1, <1>2
    <2>3. Len(s) = i - 1 /\ Len(t) = Len(order) - i
        BY <1>4
    <2>4. Len(w) = Len(order) - 1
        BY <2>1, <2>2, <2>3
    <2>5. ASSUME NEW j \in 1..Len(w) PROVE w[j] = IF j < i THEN order[j] ELSE order[j + 1]
        <3>1. j \in 1..(Len(s) + Len(t))
            BY <2>1, <2>5
        <3>2. CASE j < i
            <4>1. j <= Len(s) /\ j \in 1..(i - 1)
                BY <2>2, <2>3, <2>4, <3>2
            <4> QED BY <1>4, <2>1, <3>1, <3>2, <4>1
        <3>3. CASE ~(j < i)
            <4>1. ~(j <= Len(s)) /\ j - Len(s) \in 1..(Len(order) - i) /\ i + (j - Len(s)) = j + 1
                BY <2>2, <2>3, <2>4, <3>3
            <4>2. w[j] = t[j - Len(s)] /\ t[j - Len(s)] = order[i + (j - Len(s))]
                BY <1>4, <2>1, <3>1, <4>1
            <4> QED BY <3>3, <4>1, <4>2
        <3> QED BY <3>2, <3>3
    <2> QED BY <2>1, <2>4, <2>5
<1> HIDE DEF w
<1>6. DOMAIN w = 1..Len(w)
    BY <1>5, LenProperties
<1>7. IsInjective(w)
    BY <1>1, <1>2, <1>5, <1>6 DEF IsInjective
<1>8. ASSUME NEW x \in Cached \ {k} PROVE x \in Range(w)
    <2>1. PICK j \in 1..Len(order) : order[j] = x
        BY <1>1 DEF Cached, Range
    <2>2. CASE j < i
        BY <1>2, <1>5, <1>6, <2>1, <2>2 DEF Range
    <2>3. CASE j > i
        <3>1. j - 1 \in 1..Len(w) /\ w[j - 1] = x
            BY <1>1, <1>2, <1>5, <2>1, <2>3
        <3> QED BY <1>6, <3>1 DEF Range
    <2> QED BY <1>1, <1>2, <2>1, <2>2, <2>3
<1>9. ASSUME NEW x \in Range(w) PROVE x \in Cached \ {k}
    <2>1. PICK j \in 1..Len(w) : w[j] = x
        BY <1>6 DEF Range
    <2> QED BY <1>1, <1>2, <1>5, <2>1 DEF Cached, Range
<1>10. Range(w) = Cached \ {k}
    BY <1>8, <1>9
<1> QED BY <1>3, <1>5, <1>7, <1>10 DEF w, s, t

\* popitem(last=False) takes the oldest key.
LEMMA TailKey ==
    ASSUME Keys, order # <<>>
    PROVE  /\ Tail(order) \in Seq(Users) /\ IsInjective(Tail(order))
           /\ Len(Tail(order)) = Len(order) - 1 /\ Head(order) \in Cached
           /\ Range(Tail(order)) = Cached \ {Head(order)}
<1> DEFINE t == Tail(order)
<1>1. /\ order \in Seq(Users) /\ DOMAIN order = 1..Len(order) /\ Len(order) \in Nat
      /\ \A a, b \in 1..Len(order) : order[a] = order[b] => a = b
    BY LenProperties DEF Keys, IsInjective
<1>2. /\ t \in Seq(Users) /\ Len(t) = Len(order) - 1 /\ Len(order) > 0
      /\ Head(order) = order[1] /\ \A j \in 1..Len(t) : t[j] = order[j + 1]
    BY <1>1, HeadTailProperties, EmptySeq
<1> HIDE DEF t
<1>3. DOMAIN t = 1..Len(t)
    BY <1>2, LenProperties
<1>4. IsInjective(t)
    BY <1>1, <1>2, <1>3 DEF IsInjective
<1>5. ASSUME NEW x \in Cached \ {order[1]} PROVE x \in Range(t)
    <2>1. PICK j \in 1..Len(order) : order[j] = x
        BY <1>1 DEF Cached, Range
    <2>2. j - 1 \in 1..Len(t) /\ t[j - 1] = x
        BY <1>1, <1>2, <2>1
    <2> QED BY <1>3, <2>2 DEF Range
<1>6. ASSUME NEW x \in Range(t) PROVE x \in Cached \ {order[1]}
    <2>1. PICK j \in 1..Len(t) : t[j] = x
        BY <1>3 DEF Range
    <2> QED BY <1>1, <1>2, <2>1 DEF Cached, Range
<1>7. Range(t) = Cached \ {order[1]} /\ order[1] \in Cached
    <2>1. 1 \in 1..Len(order)
        BY <1>1, <1>2
    <2> QED BY <1>1, <1>5, <1>6, <2>1 DEF Cached, Range
<1> QED BY <1>2, <1>4, <1>7 DEF t

\* An assignment to a new key puts it at the end.
LEMMA AppendKey ==
    ASSUME Keys, NEW k \in Users \ Cached
    PROVE  /\ Append(order, k) \in Seq(Users) /\ IsInjective(Append(order, k))
           /\ Len(Append(order, k)) = Len(order) + 1 /\ Range(Append(order, k)) = Cached \cup {k}
<1> DEFINE t == Append(order, k)
<1>1. /\ order \in Seq(Users) /\ DOMAIN order = 1..Len(order) /\ Len(order) \in Nat
      /\ \A a, b \in 1..Len(order) : order[a] = order[b] => a = b
    BY LenProperties DEF Keys, IsInjective
<1>2. /\ t \in Seq(Users) /\ Len(t) = Len(order) + 1 /\ t[Len(order) + 1] = k
      /\ \A j \in 1..Len(order) : t[j] = order[j] /\ order[j] # k
    BY <1>1, AppendProperties DEF Cached, Range
<1> HIDE DEF t
<1>3. DOMAIN t = 1..(Len(order) + 1)
    BY <1>2, LenProperties
<1>4. IsInjective(t)
    BY <1>1, <1>2, <1>3 DEF IsInjective
<1>5. Range(t) = Cached \cup {k}
    <2>1. Cached \cup {k} \subseteq Range(t)
        BY <1>1, <1>2, <1>3 DEF Cached, Range
    <2>2. ASSUME NEW x \in Range(t) PROVE x \in Cached \cup {k}
        <3>1. PICK j \in 1..(Len(order) + 1) : t[j] = x
            BY <1>3 DEF Range
        <3>2. j = Len(order) + 1 \/ j \in 1..Len(order)
            BY <1>1
        <3> QED BY <1>1, <1>2, <3>1, <3>2 DEF Cached, Range
    <2> QED BY <2>1, <2>2
<1> QED BY <1>2, <1>4, <1>5 DEF t
-----------------------------------------------------------------------------
(* Type correctness.                                                       *)

\* A turn that makes room for its entry has none: only its own thread could
\* have put one there.
Fresh == \A u \in Users : pc[u] \in {"scan", "expire", "evict", "put"} => u \notin Cached

\* An empty cache is well typed.
LEMMA InitType == Init => TypeOK
<1> SUFFICES ASSUME Init PROVE TypeOK
    OBVIOUS
<1>1. order \in Seq(Users) /\ IsInjective(order) /\ Cached = {}
    BY EmptySeq DEF Init, IsInjective, Cached, Range
<1> QED BY <1>1, CacheAssumption DEF Init, TypeOK

\* Every step keeps the types; a key never occurs twice.
LEMMA StepType == TypeOK /\ Fresh /\ [Next]_vars => TypeOK'
<1> SUFFICES ASSUME TypeOK, Fresh, [Next]_vars PROVE TypeOK'
    OBVIOUS
<1>0. Keys
    BY DEF TypeOK, Keys
<1>1. ASSUME Age PROVE TypeOK'
    BY <1>1 DEF TypeOK, Age, Cached
<1>2. ASSUME NEW u \in Users, Begin(u) PROVE TypeOK'
    <2>1. UNCHANGED <<order, old, expired, hit, failed>> /\ turns' \in 0..MaxTurns
        BY <1>2, CacheAssumption DEF Begin, TypeOK
    <2>2. pc' \in [Users -> {"idle", "pop", "scan", "expire", "evict", "put", "turn"}]
          /\ hit \subseteq {v \in Users : pc'[v] = "scan"} /\ seen' \subseteq {"race", "resume"}
        BY <1>2 DEF Begin, TypeOK
    <2> QED BY <2>1, <2>2 DEF TypeOK, Cached
<1>3. ASSUME NEW u \in Users, Pop(u) PROVE TypeOK'
    <2>1. UNCHANGED <<expired, turns, seen>> /\ failed' \subseteq Users
          /\ pc' \in [Users -> {"idle", "pop", "scan", "expire", "evict", "put", "turn"}]
          /\ hit' \subseteq {v \in Users : pc'[v] = "scan"}
        BY <1>3 DEF Pop, Fail, Disturb, TypeOK
    <2>2. CASE u \in Cached
        BY <1>0, <1>3, <2>1, <2>2, WithoutKey DEF Pop, TypeOK, Cached
    <2>3. CASE u \notin Cached
        BY <1>3, <2>1, <2>3 DEF Pop, TypeOK, Cached
    <2> QED BY <2>2, <2>3
<1>4. ASSUME NEW u \in Users, Scan(u) PROVE TypeOK'
    <2>1. old \cap Cached \subseteq Users
        BY <1>0, RangeOfSeq DEF Keys, Cached
    <2>2. UNCHANGED <<order, old, turns, seen>> /\ failed' \subseteq Users
          /\ expired' \in [Users -> SUBSET Users]
          /\ pc' \in [Users -> {"idle", "pop", "scan", "expire", "evict", "put", "turn"}]
          /\ hit' \subseteq {v \in Users : pc'[v] = "scan"}
        BY <1>4, <2>1 DEF Scan, Fail, TypeOK
    <2> QED BY <2>2 DEF TypeOK, Cached
<1>5. ASSUME NEW u \in Users, Expire(u) PROVE TypeOK'
    <2>1. PICK k \in expired[u] :
             IF k \in Cached
             THEN /\ order' = Without(k) /\ old' = old \ {k}
                  /\ expired' = [expired EXCEPT ![u] = @ \ {k}]
                  /\ Disturb /\ UNCHANGED <<pc, failed>>
             ELSE /\ Fail(u) /\ expired' = [expired EXCEPT ![u] = {}]
                  /\ UNCHANGED <<order, old, hit>>
        BY <1>5 DEF Expire
    <2>2. pc[u] = "expire" /\ UNCHANGED <<turns, seen>>
        BY <1>5 DEF Expire
    <2>3. CASE k \in Cached
        <3>1. hit' \subseteq {v \in Users : pc'[v] = "scan"} /\ expired' \in [Users -> SUBSET Users]
            BY <2>1, <2>3 DEF Disturb, TypeOK
        <3> QED BY <1>0, <2>1, <2>2, <2>3, <3>1, WithoutKey DEF TypeOK, Cached
    <2>4. CASE k \notin Cached
        <3>1. hit' \subseteq {v \in Users : pc'[v] = "scan"} /\ expired' \in [Users -> SUBSET Users]
              /\ pc' \in [Users -> {"idle", "pop", "scan", "expire", "evict", "put", "turn"}]
            BY <2>1, <2>2, <2>4 DEF Fail, TypeOK
        <3> QED BY <2>1, <2>2, <2>4, <3>1 DEF Fail, TypeOK, Cached
    <2> QED BY <2>3, <2>4
<1>6. ASSUME NEW u \in Users, Trim(u) PROVE TypeOK'
    BY <1>6 DEF Trim, TypeOK, Cached
<1>7. ASSUME NEW u \in Users, Evict(u) PROVE TypeOK'
    <2>1. UNCHANGED <<expired, turns, seen>> /\ failed' \subseteq Users
          /\ pc' \in [Users -> {"idle", "pop", "scan", "expire", "evict", "put", "turn"}]
          /\ hit' \subseteq {v \in Users : pc'[v] = "scan"}
        BY <1>7 DEF Evict, Fail, Disturb, TypeOK
    <2>2. CASE order # <<>>
        BY <1>0, <1>7, <2>1, <2>2, TailKey DEF Evict, TypeOK, Cached
    <2>3. CASE order = <<>>
        BY <1>7, <2>1, <2>3 DEF Evict, TypeOK, Cached
    <2> QED BY <2>2, <2>3
<1>8. ASSUME NEW u \in Users, Put(u) \/ Save(u) PROVE TypeOK'
    <2>1. /\ UNCHANGED <<expired, turns, failed, seen>> /\ old' \subseteq old
          /\ pc' \in [Users -> {"idle", "pop", "scan", "expire", "evict", "put", "turn"}]
          /\ hit' \subseteq {v \in Users : pc'[v] = "scan"}
        BY <1>8 DEF Put, Save, Disturb, TypeOK
    <2>2. CASE order' = order
        BY <2>1, <2>2 DEF TypeOK, Cached
    <2>3. CASE order' = Append(order, u) /\ u \notin Cached
        BY <1>0, <2>1, <2>3, AppendKey DEF TypeOK, Cached
    <2> QED BY <1>8, <2>2, <2>3 DEF Put, Save, Fresh
<1>9. ASSUME UNCHANGED vars PROVE TypeOK'
    BY <1>9 DEF TypeOK, Cached
<1> QED BY <1>1, <1>2, <1>3, <1>4, <1>5, <1>6, <1>7, <1>8, <1>9 DEF Next, Step

\* How the keys change in a step of a turn: one comes, one goes, or none.
OneGoes(k) == /\ k \in Cached /\ Len(order') = Len(order) - 1
              /\ Cached' = Cached \ {k}
OneComes(k) == /\ k \in Users \ Cached /\ Len(order') = Len(order) + 1
               /\ Cached' = Cached \cup {k}

\* What each action does to the keys and to its turn's place.
LEMMA Moves ==
    ASSUME TypeOK, Fresh, NEW u \in Users, Step(u)
    PROVE  /\ \A v \in Users \ {u} : pc'[v] = pc[v]
           /\ \/ Begin(u) /\ order' = order
              \/ pc[u] = "pop" /\ pc'[u] = "put" /\ OneGoes(u) /\ UNCHANGED <<failed, seen>>
              \/ /\ pc[u] \in {"pop", "scan", "expire", "evict"} /\ pc'[u] = "idle"
                 /\ UNCHANGED <<order, seen>>
              \/ /\ pc[u] = "scan" /\ pc'[u] = "expire"
                 /\ UNCHANGED <<order, failed, seen>>
              \/ /\ pc[u] = "expire" /\ pc'[u] = "expire" /\ UNCHANGED <<failed, seen>>
                 /\ \E k \in expired[u] : OneGoes(k) /\ expired' = [expired EXCEPT ![u] = @ \ {k}]
              \/ Trim(u)
              \/ /\ pc[u] = "evict" /\ pc'[u] = "expire" /\ UNCHANGED <<failed, seen, expired>>
                 /\ OneGoes(Head(order))
              \/ pc[u] = "put" /\ pc'[u] = "turn" /\ OneComes(u) /\ UNCHANGED <<failed, seen>>
              \/ /\ pc[u] = "turn" /\ pc'[u] = "idle" /\ UNCHANGED <<failed, seen>>
                 /\ IF u \in Cached THEN order' = order ELSE OneComes(u)
<1>0. Keys
    BY DEF TypeOK, Keys
<1>1. CASE Begin(u)
    BY <1>1 DEF Begin, TypeOK
<1>2. CASE Pop(u)
    <2>1. CASE u \in Cached
        BY <1>0, <1>2, <2>1, WithoutKey DEF Pop, TypeOK, OneGoes, Cached
    <2>2. CASE u \notin Cached
        BY <1>2, <2>2 DEF Pop, Fail, TypeOK
    <2> QED BY <2>1, <2>2
<1>3. CASE Scan(u)
    BY <1>3 DEF Scan, Fail, TypeOK
<1>4. CASE Expire(u)
    <2>1. PICK k \in expired[u] :
             IF k \in Cached
             THEN /\ order' = Without(k) /\ expired' = [expired EXCEPT ![u] = @ \ {k}]
                  /\ UNCHANGED <<pc, failed>>
             ELSE Fail(u) /\ UNCHANGED order
        BY <1>4 DEF Expire
    <2>2. pc[u] = "expire" /\ UNCHANGED seen
        BY <1>4 DEF Expire
    <2>3. CASE k \in Cached
        <3>1. OneGoes(k)
            BY <1>0, <2>1, <2>3, WithoutKey DEF OneGoes, Cached
        <3> QED BY <2>1, <2>2, <2>3, <3>1
    <2>4. CASE k \notin Cached
        BY <2>1, <2>2, <2>4 DEF Fail, TypeOK
    <2> QED BY <2>3, <2>4
<1>5. CASE Trim(u)
    BY <1>5 DEF Trim, TypeOK
<1>6. CASE Evict(u)
    <2>1. CASE order # <<>>
        BY <1>0, <1>6, <2>1, TailKey DEF Evict, TypeOK, OneGoes, Cached
    <2>2. CASE order = <<>>
        BY <1>6, <2>2 DEF Evict, Fail, TypeOK
    <2> QED BY <2>1, <2>2
<1>7. CASE Put(u)
    <2>1. u \in Users \ Cached
        BY <1>7 DEF Put, Fresh
    <2> QED BY <1>0, <1>7, <2>1, AppendKey DEF Put, TypeOK, OneComes, Cached
<1>8. CASE Save(u)
    <2>1. CASE u \in Cached
        BY <1>8, <2>1 DEF Save, TypeOK
    <2>2. CASE u \notin Cached
        BY <1>0, <1>8, <2>2, AppendKey DEF Save, TypeOK, OneComes, Cached
    <2> QED BY <2>1, <2>2
<1> QED BY <1>1, <1>2, <1>3, <1>4, <1>5, <1>6, <1>7, <1>8 DEF Step

\* Nobody else adds the entry a turn is making room for.
LEMMA StepFresh == TypeOK /\ Fresh /\ [Next]_vars => Fresh'
<1> SUFFICES ASSUME TypeOK, Fresh, [Next]_vars PROVE Fresh'
    OBVIOUS
<1>1. ASSUME NEW u \in Users, Step(u) PROVE Fresh'
    <2>1. CASE Begin(u) /\ order' = order
        BY <2>1 DEF Begin, Fresh, Cached, TypeOK
    <2>2. CASE Trim(u)
        BY <2>2 DEF Trim, Fresh, Cached, TypeOK
    <2> QED BY <1>1, <2>1, <2>2, Moves DEF Fresh, OneGoes, OneComes, Cached
<1>2. ASSUME Age \/ UNCHANGED vars PROVE Fresh'
    BY <1>2 DEF Age, Fresh, Cached
<1> QED BY <1>1, <1>2 DEF Next

\* No turn is under way at the start.
LEMMA InitFresh == Init => Fresh
BY DEF Init, Fresh

\* Every variable keeps its type and no key occurs twice in the dict, however
\* the operations of several threads interleave.
THEOREM TypeCorrect == Spec => []TypeOK
<1>1. TypeOK /\ Fresh /\ [Next]_vars => TypeOK' /\ Fresh'
    BY StepType, StepFresh
<1> QED BY <1>1, InitType, InitFresh, PTL DEF Spec
-----------------------------------------------------------------------------
(* The number of sessions.                                                 *)

\* Turns whose session is not in the dict and will come, or come back, into it.
Absent == {u \in Users : pc[u] \in {"put", "turn"} /\ u \notin Cached}

Limit == MAX_SESSIONS + (IF "race" \in seen THEN Threads - 1 ELSE 0)

\* Sessions that are there and those to come stay within the limit; a race can
\* add one for every other turn.
Room ==
    /\ Cardinality(Active) <= Threads
    /\ "race" \notin seen => Cardinality(Active) <= 1
    /\ "resume" \notin seen => Len(order) + Cardinality(Absent) <= Limit

\* Sets of users can be counted.
LEMMA Counts ==
    /\ IsFiniteSet(Active) /\ Cardinality(Active) \in Nat
    /\ IsFiniteSet(Absent) /\ Cardinality(Absent) \in Nat
    /\ Threads \in Nat /\ Threads >= 1 /\ MAX_SESSIONS \in Nat /\ MAX_SESSIONS >= 1
<1>1. Active \in SUBSET Users /\ Absent \in SUBSET Users
    BY DEF Active, Absent
<1> QED BY <1>1, CacheAssumption, FS_Subset, FS_CardinalityType

\* A turn that has begun stays counted until it ends.
LEMMA FewActive ==
    ASSUME TypeOK, Fresh, Room, NEW u \in Users, Step(u)
    PROVE  /\ Cardinality(Active') <= Threads
           /\ "race" \notin seen' => Cardinality(Active') <= 1
           /\ seen \subseteq seen'
<1>1. CASE Begin(u)
    <2>1. Active' = Active \cup {u} /\ Cardinality(Active) < Threads
        BY <1>1 DEF Begin, Active, TypeOK
    <2>2. Cardinality(Active') <= Cardinality(Active) + 1
        <3>1. Cardinality(Active \cup {u}) <= Cardinality(Active) + 1
            <4>1. Cardinality(Active \cup {u})
                      = IF u \in Active THEN Cardinality(Active) ELSE Cardinality(Active) + 1
                BY Counts, FS_AddElement
            <4> QED BY <4>1, Counts
        <3> QED BY <2>1, <3>1
    <2>3. seen \subseteq seen' /\ ("race" \notin seen' => Active = {})
        BY <1>1 DEF Begin
    <2>4. Active = {} => Cardinality(Active) = 0
        BY FS_EmptySet
    <2>5. Cardinality(Active') \in Nat
        BY <2>1, Counts, FS_AddElement, FS_CardinalityType
    <2> QED BY <2>1, <2>2, <2>3, <2>4, <2>5, Counts
<1>2. CASE ~Begin(u)
    <2>1. seen' = seen /\ Active' \subseteq Active
        <3>1. CASE Trim(u)
            BY <3>1 DEF Trim, Active, TypeOK
        <3> QED BY <1>2, <3>1, Moves DEF Active
    <2>2. Cardinality(Active') <= Cardinality(Active)
        BY <2>1, Counts, FS_Subset
    <2>3. Cardinality(Active') \in Nat
        BY <2>1, Counts, FS_Subset, FS_CardinalityType
    <2> QED BY <2>1, <2>2, <2>3, Counts DEF Room
<1> QED BY <1>1, <1>2

\* At most one more session is to come than before.
LEMMA OneMore ==
    ASSUME NEW k, Absent' \subseteq Absent \cup {k}
    PROVE  Cardinality(Absent') \in Nat /\ Cardinality(Absent') <= Cardinality(Absent) + 1
<1>1. IsFiniteSet(Absent \cup {k}) /\ Cardinality(Absent \cup {k}) <= Cardinality(Absent) + 1
    BY Counts, FS_AddElement
<1>2. IsFiniteSet(Absent') /\ Cardinality(Absent') <= Cardinality(Absent \cup {k})
    BY <1>1, FS_Subset
<1>3. Cardinality(Absent') \in Nat /\ Cardinality(Absent \cup {k}) \in Nat
    BY <1>1, <1>2, FS_CardinalityType
<1> QED BY <1>1, <1>2, <1>3, Counts

\* One that was to come has come.
LEMMA OneLess ==
    ASSUME NEW k \in Absent, Absent' \subseteq Absent \ {k}
    PROVE  Cardinality(Absent') \in Nat /\ Cardinality(Absent') <= Cardinality(Absent) - 1
<1>1. IsFiniteSet(Absent \ {k}) /\ Cardinality(Absent \ {k}) = Cardinality(Absent) - 1
    BY Counts, FS_RemoveElement
<1>2. IsFiniteSet(Absent') /\ Cardinality(Absent') <= Cardinality(Absent \ {k})
    BY <1>1, FS_Subset
<1>3. Cardinality(Absent') \in Nat
    BY <1>2, FS_CardinalityType
<1> QED BY <1>1, <1>2, <1>3

\* No more are to come than before.
LEMMA NoMore ==
    ASSUME Absent' \subseteq Absent
    PROVE  Cardinality(Absent') \in Nat /\ Cardinality(Absent') <= Cardinality(Absent)
BY Counts, FS_Subset, FS_CardinalityType

\* Every step of a turn keeps to the limit.
LEMMA StepRoom == TypeOK /\ Fresh /\ Room /\ [Next]_vars => Room'
<1> SUFFICES ASSUME TypeOK, Fresh, Room, [Next]_vars PROVE Room'
    OBVIOUS
<1>0. Len(order) \in Nat
    BY LenProperties DEF TypeOK
<1>1. ASSUME NEW u \in Users, Step(u) PROVE Room'
    <2> DEFINE Fits == Len(order') + Cardinality(Absent') <= Limit'
    <2>1. seen \subseteq seen' /\ Limit \in Nat /\ Limit' \in Nat /\ Limit <= Limit'
        <3>1. seen \subseteq seen'
            BY <1>1, FewActive
        <3>2. Limit' = MAX_SESSIONS + (IF "race" \in seen' THEN Threads - 1 ELSE 0)
            BY DEF Limit
        <3> QED BY <3>1, <3>2, Counts DEF Limit
    <2> SUFFICES ASSUME "resume" \notin seen' PROVE Fits
        BY <1>1, FewActive DEF Room
    <2>2. Len(order) + Cardinality(Absent) <= Limit
        BY <2>1 DEF Room
    <2>3. \A v \in Users \ {u} : pc'[v] = pc[v]
        BY <1>1, Moves
    <2>4. CASE Begin(u)
        <3>1. pc'[u] \in {"pop", "scan"} /\ order' = order
            BY <2>4 DEF Begin, TypeOK
        <3>2. Absent' \subseteq Absent
            BY <2>3, <3>1 DEF Absent, Cached
        <3> QED BY <1>0, <2>1, <2>2, <3>1, <3>2, NoMore, Counts
    <2>5. CASE Trim(u)
        <3>1. order' = order /\ (pc'[u] = "evict" \/ (pc'[u] = "put" /\ Len(order) < MAX_SESSIONS))
            BY <1>0, <2>5, Counts DEF Trim, TypeOK
        <3>2. CASE pc'[u] = "evict"
            <4>1. Absent' \subseteq Absent
                BY <2>3, <3>1, <3>2 DEF Absent, Cached
            <4> QED BY <1>0, <2>1, <2>2, <3>1, <4>1, NoMore, Counts
        <3>3. CASE pc'[u] = "put"
            <4>1. Absent' \subseteq Active' /\ IsFiniteSet(Active')
                <5>1. Active' \in SUBSET Users
                    BY DEF Active
                <5> QED BY <5>1, CacheAssumption, FS_Subset DEF Absent, Active
            <4>2. Cardinality(Absent') <= Cardinality(Active') /\ Cardinality(Absent') \in Nat
                  /\ Cardinality(Active') \in Nat
                BY <4>1, FS_Subset, FS_CardinalityType
            <4>3. Limit' = MAX_SESSIONS + (IF "race" \in seen' THEN Threads - 1 ELSE 0)
                BY DEF Limit
            <4> QED BY <1>0, <1>1, <3>1, <3>3, <4>2, <4>3, FewActive, Counts
        <3> QED BY <3>1, <3>2, <3>3
    <2>6. ASSUME NEW k, OneGoes(k), pc'[u] \in {"put", "expire"}, pc'[u] = "put" => k = u PROVE Fits
        <3>1. Absent' \subseteq Absent \cup {k}
            BY <2>3, <2>6 DEF OneGoes, Absent
        <3>2. Cardinality(Absent') \in Nat /\ Cardinality(Absent') <= Cardinality(Absent) + 1
            BY <3>1, OneMore
        <3>3. Len(order') = Len(order) - 1
            BY <2>6 DEF OneGoes
        <3> QED BY <1>0, <2>1, <2>2, <3>2, <3>3, Counts
    <2>7. ASSUME OneComes(u), pc[u] \in {"put", "turn"} PROVE Fits
        <3>1. u \in Absent /\ Absent' \subseteq Absent \ {u}
            BY <2>3, <2>7 DEF OneComes, Absent
        <3> QED BY <1>0, <2>1, <2>2, <2>7, <3>1, OneLess, Counts DEF OneComes
    <2>8. ASSUME order' = order, pc'[u] \in {"idle", "expire"} PROVE Fits
        <3>1. Absent' \subseteq Absent
            BY <2>3, <2>8 DEF Absent, Cached
        <3> QED BY <1>0, <2>1, <2>2, <2>8, <3>1, NoMore, Counts
    <2> QED BY <1>1, <2>4, <2>5, <2>6, <2>7, <2>8, Moves
<1>2. ASSUME Age \/ UNCHANGED vars PROVE Room'
    BY <1>2 DEF Age, Room, Active, Absent, Cached, Limit
<1> QED BY <1>1, <1>2 DEF Next

\* The cache starts empty.
LEMMA InitRoom == Init => Room
<1> SUFFICES ASSUME Init PROVE Room
    OBVIOUS
<1>1. Active = {} /\ Absent = {} /\ Cardinality({}) = 0 /\ Len(order) = 0
    BY FS_EmptySet DEF Init, Active, Absent
<1> QED BY <1>1, Counts DEF Room, Limit, Init

\* As long as no turn resumes a session without looking it up, races between the
\* turns under way exceed max_sessions by at most one entry per other turn; turns
\* that do not overlap keep it.
THEOREM SessionsCorrect == Spec => []SessionsBounded
<1> DEFINE IInv == TypeOK /\ Fresh /\ Room
<1>1. Init => IInv
    BY InitType, InitFresh, InitRoom
<1>2. IInv /\ [Next]_vars => IInv'
    BY StepType, StepFresh, StepRoom
<1>3. IInv => SessionsBounded
    <2> SUFFICES ASSUME IInv PROVE SessionsBounded
        OBVIOUS
    <2>1. Len(order) \in Nat
        BY LenProperties DEF TypeOK
    <2> QED BY <2>1, Counts DEF Room, Limit, SessionsBounded, AtMostMaxSessions, OvershootBounded
<1> QED BY <1>1, <1>2, <1>3, PTL DEF Spec
-----------------------------------------------------------------------------
(* Turns that do not overlap.                                              *)

\* A turn on its own finds what it saw: the key it is to pop, the keys it found
\* expired, a key to evict; and nothing changed while it iterated.
Calm ==
    "race" \notin seen =>
        /\ failed = {} /\ hit = {}
        /\ \A u \in Users : /\ pc[u] = "pop" => u \in Cached
                            /\ pc[u] = "expire" => expired[u] \subseteq Cached
                            /\ pc[u] = "evict" => order # <<>>

\* A turn makes room only when its list of expired keys is done.
Swept == \A u \in Users : pc[u] = "evict" => expired[u] = {}

\* Nothing is expired at the start.
LEMMA InitSwept == Init => Swept
BY DEF Init, Swept

\* Every step keeps it so.
LEMMA StepSwept == TypeOK /\ Swept /\ [Next]_vars => Swept'
<1> SUFFICES ASSUME TypeOK, Swept, [Next]_vars PROVE Swept'
    OBVIOUS
<1>1. ASSUME NEW u \in Users, Step(u) PROVE Swept'
    BY <1>1 DEF Step, Begin, Pop, Scan, Expire, Trim, Evict, Put, Save, Fail, Swept, TypeOK
<1>2. ASSUME Age \/ UNCHANGED vars PROVE Swept'
    BY <1>2 DEF Age, Swept
<1> QED BY <1>1, <1>2 DEF Next

\* Without a race, only one turn is under way.
LEMMA Lonely ==
    ASSUME Room, "race" \notin seen, NEW u \in Active, NEW v \in Active
    PROVE  u = v
<1> SUFFICES ASSUME u # v PROVE FALSE
    OBVIOUS
<1>1. IsFiniteSet({u, v}) /\ Cardinality({u, v}) = 2
    <2>1. IsFiniteSet({u}) /\ Cardinality({u}) = 1
        BY FS_Singleton
    <2>2. {u, v} = {u} \cup {v} /\ v \notin {u}
        OBVIOUS
    <2> QED BY <2>1, <2>2, FS_AddElement
<1>2. {u, v} \in SUBSET Active
    OBVIOUS
<1>3. 2 <= Cardinality(Active)
    BY <1>1, <1>2, Counts, FS_Subset
<1> QED BY <1>3, Counts DEF Room

\* Every step of a turn on its own keeps it calm.
LEMMA StepCalm == TypeOK /\ Fresh /\ Swept /\ Room /\ Calm /\ [Next]_vars => Calm'
<1> SUFFICES ASSUME TypeOK, Fresh, Swept, Room, Calm, [Next]_vars, "race" \notin seen' PROVE Calm'
    BY DEF Calm
<1>1. ASSUME NEW u \in Users, Step(u) PROVE Calm'
    <2>1. "race" \notin seen
        BY <1>1, FewActive
    <2>2. CASE Begin(u)
        <3>1. /\ Active = {} /\ UNCHANGED <<order, expired, hit, failed>>
              /\ pc'[u] = "pop" => u \in Cached
              /\ pc'[u] \in {"pop", "scan", "turn"}
            BY <2>2 DEF Begin, TypeOK
        <3>2. \A v \in Users \ {u} : pc'[v] = "idle"
            BY <2>2, <3>1, Moves, <1>1 DEF Active
        <3> QED BY <2>1, <3>1, <3>2 DEF Calm, Cached
    <2>3. CASE ~Begin(u)
        <3>1. pc[u] # "idle"
            BY <1>1, <2>3 DEF Step, Pop, Scan, Expire, Trim, Evict, Put, Save
        <3>2. \A v \in Users \ {u} : pc[v] = "idle" /\ pc'[v] = "idle"
            BY <1>1, <2>1, <3>1, Lonely, Moves DEF Active
        <3>3. hit = {} /\ failed = {}
            BY <2>1 DEF Calm
        <3>4. CASE Pop(u) \/ Put(u) \/ Save(u)
            <4>1. /\ pc[u] # "scan" /\ failed' = failed /\ hit' \subseteq hit \cup {v \in Users : pc[v] = "scan"}
                  /\ pc'[u] \in {"put", "turn", "idle"}
                BY <2>1, <3>4 DEF Pop, Put, Save, Disturb, Calm, TypeOK
            <4> QED BY <3>2, <3>3, <4>1 DEF Calm
        <3>5. CASE Scan(u)
            BY <3>2, <3>3, <3>5 DEF Scan, Calm, Cached, TypeOK
        <3>6. CASE Expire(u)
            <4>1. PICK k \in expired[u] :
                     /\ k \in Cached
                     /\ order' = Without(k) /\ expired' = [expired EXCEPT ![u] = @ \ {k}]
                     /\ Disturb /\ UNCHANGED <<pc, failed>>
                BY <2>1, <3>6 DEF Expire, Calm
            <4>2. Cached' = Cached \ {k}
                <5>1. Keys
                    BY DEF TypeOK, Keys
                <5> QED BY <4>1, <5>1, WithoutKey DEF Cached
            <4>3. pc[u] = "expire" /\ expired[u] \subseteq Cached
                BY <2>1, <3>6 DEF Expire, Calm
            <4>4. hit' = {}
                BY <3>2, <3>3, <4>1, <4>3 DEF Disturb
            <4>5. expired'[u] = expired[u] \ {k}
                BY <4>1 DEF TypeOK
            <4> QED BY <3>2, <3>3, <4>1, <4>2, <4>3, <4>4, <4>5 DEF Calm
        <3>7. CASE Trim(u)
            <4>1. /\ UNCHANGED <<order, expired, hit, failed>> /\ pc'[u] \in {"evict", "put"}
                  /\ pc'[u] = "evict" => Len(order) >= MAX_SESSIONS
                BY <3>7 DEF Trim, TypeOK
            <4>2. Len(<<>>) = 0
                OBVIOUS
            <4>3. pc'[u] = "evict" => order # <<>>
                BY <4>1, <4>2, Counts
            <4> QED BY <3>2, <3>3, <4>1, <4>3 DEF Calm
        <3>8. CASE Evict(u)
            <4>1. /\ pc[u] = "evict" /\ order # <<>> /\ UNCHANGED <<failed, expired>>
                  /\ pc'[u] = "expire" /\ Disturb
                BY <2>1, <3>8 DEF Evict, Calm, TypeOK
            <4>2. expired[u] = {}
                BY <2>1, <4>1 DEF Swept
            <4> QED BY <3>2, <3>3, <4>1, <4>2 DEF Calm, Disturb
        <3> QED BY <1>1, <2>3, <3>4, <3>5, <3>6, <3>7, <3>8 DEF Step
    <2> QED BY <2>2, <2>3
<1>2. ASSUME Age \/ UNCHANGED vars PROVE Calm'
    BY <1>2 DEF Age, Calm, Cached
<1> QED BY <1>1, <1>2 DEF Next

\* Nothing has failed at the start.
LEMMA InitCalm == Init => Calm
BY DEF Init, Calm

\* A turn that overlaps no other never dies of a key that is gone or of a dict
\* that changed while it was iterated over.
THEOREM NoTurnFailsCorrect == Spec => []NoTurnFails
<1> DEFINE IInv == TypeOK /\ Fresh /\ Swept /\ Room /\ Calm
<1>1. Init => IInv
    BY InitType, InitFresh, InitSwept, InitRoom, InitCalm
<1>2. IInv /\ [Next]_vars => IInv'
    BY StepType, StepFresh, StepSwept, StepRoom, StepCalm
<1>3. IInv => NoTurnFails
    BY DEF Calm, NoTurnFails
<1> QED BY <1>1, <1>2, <1>3, PTL DEF Spec
=============================================================================
