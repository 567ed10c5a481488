--------------------------- MODULE AgentGraphProofs ---------------------------
(***************************************************************************)
(* Proofs about the conversation of AgentGraph, for every set of inputs,   *)
(* history length, round limit and number of turns, calls, model failures  *)
(* and restarts: its type invariant, and every safety invariant the run    *)
(* checks.                                                                 *)
(*                                                                         *)
(* The first part says what FlattenSeq computes, by minimal                *)
(* counterexamples over the naturals; the second what _fix_orphaned_tool_  *)
(* calls, add_messages and _trim do to a history; the rest are the         *)
(* inductive invariants.                                                   *)
(***************************************************************************)
EXTENDS AgentGraph, SequenceTheorems, FiniteSetTheorems, WellFoundedInduction, TLAPS

-----------------------------------------------------------------------------
(* Sequences of sequences.                                                 *)

\* A non-empty set of naturals has a least element ...
LEMMA Least ==
    ASSUME NEW S, S \subseteq Nat, S # {}
    PROVE  \E n \in S : \A m \in S : n <= m
<1> DEFINE R == OpToRel(<, Nat)
<1>1. IsWellFoundedOn(R, Nat)
    BY NatLessThanWellFounded
<1>2. PICK n \in S : \A m \in S : ~(<<m, n>> \in R)
    <2> HIDE DEF R
    <2> QED BY <1>1, WFMin
<1>3. \A m, k \in Nat : <<m, k>> \in R <=> m < k
    BY DEF OpToRel
<1> HIDE DEF R
<1>4. ASSUME NEW m \in S PROVE n <= m
    <2>1. m \in Nat /\ n \in Nat /\ ~(<<m, n>> \in R)
        BY <1>2
    <2>2. ~(m < n)
        BY <1>3, <2>1
    <2> QED BY <2>1, <2>2
<1> QED BY <1>4

\* ... and a bounded one a greatest.
LEMMA Greatest ==
    ASSUME NEW n \in Nat, NEW S, S \subseteq 0..n, S # {}
    PROVE  \E m \in S : \A k \in S : k <= m
<1> DEFINE Rest == {j \in Nat : \E k \in S : j = n - k}
<1>1. Rest # {} /\ Rest \subseteq Nat
    <2>1. PICK k \in S : TRUE
        OBVIOUS
    <2>2. n - k \in Rest
        BY <2>1
    <2> QED BY <2>2
<1>2. PICK j \in Rest : \A i \in Rest : j <= i
    BY <1>1, Least
<1>3. PICK m \in S : j = n - m
    BY <1>2
<1>4. ASSUME NEW k \in S PROVE k <= m
    <2>1. n - k \in Rest
        OBVIOUS
    <2>2. n - m <= n - k
        BY <1>2, <1>3, <2>1
    <2> QED BY <2>2
<1> QED BY <1>4

\* f holds what FlattenSeq has joined up to each position.
Joins(f, seqs, n) == f = [i \in 1..n |-> IF i = 1 THEN seqs[i] ELSE f[i - 1] \o seqs[i]]
Joined(seqs, n) == CHOOSE f : Joins(f, seqs, n)

LEMMA FlattenJoins ==
    ASSUME NEW seqs, Len(seqs) # 0
    PROVE  FlattenSeq(seqs) = Joined(seqs, Len(seqs))[Len(seqs)]
BY DEF FlattenSeq, Joined, Joins

LEMMA JoinsNext ==
    ASSUME NEW seqs, NEW n \in Nat \ {0}, NEW f, Joins(f, seqs, n)
    PROVE  \E g : Joins(g, seqs, n + 1)
<1> DEFINE g == [i \in 1..(n + 1) |-> IF i = 1 THEN seqs[i] ELSE f[i - 1] \o seqs[i]]
           h == [i \in 1..(n + 1) |-> IF i = 1 THEN seqs[i] ELSE g[i - 1] \o seqs[i]]
<1>1. ASSUME NEW i \in 1..n PROVE f[i] = IF i = 1 THEN seqs[i] ELSE f[i - 1] \o seqs[i]
    BY DEF Joins
<1>2. ASSUME NEW i \in 1..n PROVE g[i] = f[i]
    BY <1>1
<1>3. ASSUME NEW i \in 1..(n + 1) PROVE g[i] = h[i]
    <2>1. CASE i = 1
        BY <2>1
    <2>2. CASE i # 1
        <3>1. i - 1 \in 1..n
            BY <2>2
        <3>2. g[i - 1] = f[i - 1]
            BY <3>1, <1>2
        <3> QED BY <2>2, <3>2
    <2> QED BY <2>1, <2>2
<1>4. g = h
    BY <1>3
<1> HIDE DEF g
<1> QED BY <1>4 DEF Joins

LEMMA JoinsExists ==
    ASSUME NEW seqs, NEW n \in Nat \ {0}
    PROVE  Joins(Joined(seqs, n), seqs, n)
<1> DEFINE Bad == {k \in Nat \ {0} : ~ \E f : Joins(f, seqs, k)}
<1>0. SUFFICES ASSUME Bad # {} PROVE FALSE
    BY DEF Joined
<1>1. PICK k \in Bad : \A m \in Bad : k <= m
    BY <1>0, Least
<1>2. k # 1
    <2>1. Joins([i \in 1..1 |-> seqs[i]], seqs, 1)
        BY DEF Joins
    <2> QED BY <2>1
<1>3. k - 1 \in Nat \ {0} /\ k - 1 \notin Bad
    BY <1>1, <1>2
<1>4. PICK f : Joins(f, seqs, k - 1)
    BY <1>3
<1>5. \E g : Joins(g, seqs, (k - 1) + 1)
    BY <1>3, <1>4, JoinsNext
<1>6. (k - 1) + 1 = k
    BY <1>1
<1> QED BY <1>1, <1>5, <1>6

LEMMA JoinsAt ==
    ASSUME NEW seqs, NEW n, NEW f, Joins(f, seqs, n), NEW i \in 1..n
    PROVE  f[i] = IF i = 1 THEN seqs[i] ELSE f[i - 1] \o seqs[i]
<1> DEFINE J(x) == IF x = 1 THEN seqs[x] ELSE f[x - 1] \o seqs[x]
<1>1. f = [x \in 1..n |-> J(x)]
    BY DEF Joins
<1>2. J(i) = IF i = 1 THEN seqs[i] ELSE f[i - 1] \o seqs[i]
    OBVIOUS
<1> HIDE DEF J
<1>3. f[i] = J(i)
    BY <1>1
<1> QED BY <1>2, <1>3

\* Joining depends on the sequences up to a position only.
LEMMA JoinsSame ==
    ASSUME NEW s, NEW t, NEW n \in Nat, NEW m \in Nat, NEW f, NEW g,
           Joins(f, s, n), Joins(g, t, m), \A i \in 1..n : s[i] = t[i], n <= m
    PROVE  \A i \in 1..n : f[i] = g[i]
<1> DEFINE Bad == {k \in Nat : k \in 1..n /\ f[k] # g[k]}
<1> SUFFICES ASSUME Bad # {} PROVE FALSE
    OBVIOUS
<1>1. PICK k \in Bad : \A j \in Bad : k <= j
    BY Least
<1>2. /\ f[k] = IF k = 1 THEN s[k] ELSE f[k - 1] \o s[k]
      /\ g[k] = IF k = 1 THEN t[k] ELSE g[k - 1] \o t[k]
    BY <1>1, JoinsAt
<1>3. k # 1
    BY <1>1, <1>2
<1>4. k - 1 \in 1..n /\ k - 1 \notin Bad
    BY <1>1, <1>3
<1>5. f[k - 1] = g[k - 1]
    BY <1>4
<1> QED BY <1>1, <1>2, <1>3, <1>5

\* What FlattenSeq computes.
LEMMA FlattenEmpty == FlattenSeq(<<>>) = <<>>
BY DEF FlattenSeq

LEMMA FlattenAppend ==
    ASSUME NEW T, NEW seqs \in Seq(Seq(T)), NEW s \in Seq(T)
    PROVE  FlattenSeq(Append(seqs, s)) = FlattenSeq(seqs) \o s
<1> DEFINE n == Len(seqs)
           new == Append(seqs, s)
           F == Joined(seqs, n)
           G == Joined(new, n + 1)
<1>1. n \in Nat /\ Len(new) = n + 1 /\ new[n + 1] = s /\ \A i \in 1..n : seqs[i] = new[i]
    BY AppendProperties, LenProperties
<1>2. FlattenSeq(new) = G[n + 1]
    <2> HIDE DEF new
    <2>1. Len(new) # 0
        BY <1>1
    <2>2. FlattenSeq(new) = Joined(new, Len(new))[Len(new)]
        BY <2>1, FlattenJoins
    <2> QED BY <1>1, <2>2
<1>3. Joins(G, new, n + 1)
    BY <1>1, JoinsExists
<1>4. n # 0 => Joins(F, seqs, n) /\ FlattenSeq(seqs) = F[n]
    BY <1>1, JoinsExists, FlattenJoins
<1>5. n = 0 => seqs = <<>>
    BY EmptySeq
<1>6. G[n + 1] = IF n + 1 = 1 THEN new[n + 1] ELSE G[(n + 1) - 1] \o new[n + 1]
    <2> HIDE DEF new, G, n
    <2>1. n + 1 \in 1..(n + 1)
        BY <1>1
    <2> QED BY <2>1, <1>3, JoinsAt
<1>7. n # 0 => G[n] = F[n]
    <2> SUFFICES ASSUME n # 0 PROVE G[n] = F[n]
        OBVIOUS
    <2> HIDE DEF n, F, G, new
    <2>1. Joins(F, seqs, n) /\ n \in 1..n /\ n + 1 \in Nat /\ n <= n + 1
        BY <1>1, <1>4
    <2>2. n \in Nat /\ \A i \in 1..n : seqs[i] = new[i]
        BY <1>1
    <2>3. \A i \in 1..n : F[i] = G[i]
        <3> DEFINE m == n + 1
        <3>1. m \in Nat /\ n <= m /\ Joins(G, new, m)
            BY <1>3, <2>1
        <3> HIDE DEF m
        <3> QED BY <2>1, <2>2, <3>1, JoinsSame, SMTT(60)
    <2> QED BY <2>1, <2>3
<1> HIDE DEF n, F, G, new
<1>8. CASE n = 0
    <2>1. <<>> \o s = s
        BY ConcatEmptySeq
    <2>2. FlattenSeq(seqs) = <<>>
        BY <1>5, <1>8, FlattenEmpty
    <2>3. G[n + 1] = s
        BY <1>1, <1>6, <1>8
    <2> QED BY <1>2, <2>1, <2>2, <2>3 DEF new
<1>9. CASE n # 0
    <2>1. (n + 1) - 1 = n /\ n + 1 # 1
        BY <1>1, <1>9
    <2>2. G[n + 1] = FlattenSeq(seqs) \o s
        BY <1>1, <1>4, <1>6, <1>7, <1>9, <2>1
    <2> QED BY <1>2, <2>2 DEF new
<1> QED BY <1>8, <1>9

LEMMA FlattenType ==
    ASSUME NEW T, NEW seqs \in Seq(Seq(T))
    PROVE  FlattenSeq(seqs) \in Seq(T)
<1> DEFINE Bad == {k \in Nat : \E s \in Seq(Seq(T)) : Len(s) = k /\ FlattenSeq(s) \notin Seq(T)}
<1> SUFFICES ASSUME Bad # {} PROVE FALSE
    BY LenProperties
<1>1. PICK k \in Bad : \A m \in Bad : k <= m
    BY Least
<1>2. PICK s \in Seq(Seq(T)) : Len(s) = k /\ FlattenSeq(s) \notin Seq(T)
    BY <1>1
<1>3. s # <<>>
    BY <1>2, FlattenEmpty, EmptySeq
<1>4. PICK t \in Seq(Seq(T)), e \in Seq(T) : s = Append(t, e)
    BY <1>3, SequenceEmptyOrAppend
<1>5. Len(t) \in Nat /\ Len(s) = Len(t) + 1
    BY <1>4, AppendProperties, LenProperties
<1>6. FlattenSeq(t) \in Seq(T)
    <2>1. Len(t) \notin Bad
        <3> HIDE DEF Bad
        <3>1. k = Len(t) + 1 /\ (Len(t) \in Bad => k <= Len(t))
            BY <1>1, <1>2, <1>5
        <3> QED BY <1>5, <3>1
    <2> QED BY <1>5, <2>1
<1>7. FlattenSeq(s) = FlattenSeq(t) \o e
    BY <1>4, FlattenAppend
<1> QED BY <1>2, <1>6, <1>7, ConcatProperties

\* Where every sequence from a position on holds one element, flattening leaves
\* those elements in place.
LEMMA FlattenSingles ==
    ASSUME NEW T, NEW seqs \in Seq(Seq(T)), NEW s \in Seq(T),
           Len(seqs) = Len(s),
           NEW j \in 0..Len(s), \A i \in (j + 1)..Len(s) : seqs[i] = <<s[i]>>
    PROVE  FlattenSeq(seqs) = FlattenSeq(SubSeq(seqs, 1, j)) \o SubSeq(s, j + 1, Len(s))
<1> DEFINE P(n) == FlattenSeq(SubSeq(seqs, 1, n))
                     = FlattenSeq(SubSeq(seqs, 1, j)) \o SubSeq(s, j + 1, n)
           Bad == {n \in Nat : n \in j..Len(s) /\ ~P(n)}
<1>0. Len(s) \in Nat /\ Len(seqs) = Len(s) /\ j \in Nat
    BY LenProperties
<1>1. \A n \in 0..Len(s) : SubSeq(seqs, 1, n) \in Seq(Seq(T))
    BY <1>0, SubSeqProperties, ElementOfSeq
<1>2. Bad = {}
    <2> SUFFICES ASSUME Bad # {} PROVE FALSE
        OBVIOUS
    <2>1. PICK n \in Bad : \A m \in Bad : n <= m
        BY Least
    <2>2. n # j
        <3>1. SubSeq(s, j + 1, j) = <<>>
            BY <1>0, SubSeqEmpty
        <3>2. FlattenSeq(SubSeq(seqs, 1, j)) \in Seq(T)
            BY <1>1, FlattenType
        <3>3. P(j)
            BY <3>1, <3>2, ConcatEmptySeq
        <3> QED BY <2>1, <3>3
    <2>3. n - 1 \in j..Len(s) /\ n \in 1..Len(s) /\ n \in (j + 1)..Len(s) /\ n - 1 \in Nat
        <3>1. n \in Nat /\ n \in j..Len(s) /\ n # j
            BY <2>1, <2>2
        <3> QED BY <1>0, <3>1
    <2>4. P(n - 1)
        <3> HIDE DEF P
        <3>1. n - 1 \notin Bad
            BY <2>1, <2>3
        <3> QED BY <2>3, <3>1
    <2>5. SubSeq(seqs, 1, n) = SubSeq(seqs, 1, n - 1) \o <<seqs[n]>>
        <3>1. 1 \in 1..Len(seqs) /\ n \in 1..Len(seqs)
            BY <1>0, <2>3
        <3> QED BY <3>1, SubSeqRecursiveSecond
    <2>6. SubSeq(s, j + 1, n) = SubSeq(s, j + 1, n - 1) \o <<s[n]>>
        <3> DEFINE i == j + 1
        <3>1. i \in 1..Len(s) /\ n \in i..Len(s)
            BY <1>0, <2>3
        <3> HIDE DEF i
        <3>2. SubSeq(s, i, n) = SubSeq(s, i, n - 1) \o <<s[n]>>
            BY <3>1, SubSeqRecursiveSecond
        <3> QED BY <3>2 DEF i
    <2>7. seqs[n] \in Seq(T) /\ seqs[n] = <<s[n]>>
        BY <1>0, <2>3, ElementOfSeq
    <2>8. SubSeq(seqs, 1, n - 1) \in Seq(Seq(T)) /\ SubSeq(seqs, 1, j) \in Seq(Seq(T))
        <3>1. n - 1 \in 0..Len(s) /\ j \in 0..Len(s)
            BY <1>0, <2>3
        <3> QED BY <1>1, <3>1
    <2>9. SubSeq(seqs, 1, n) = Append(SubSeq(seqs, 1, n - 1), seqs[n])
        BY <2>5, <2>7, <2>8, AppendIsConcat
    <2>10. FlattenSeq(SubSeq(seqs, 1, n)) = FlattenSeq(SubSeq(seqs, 1, n - 1)) \o <<s[n]>>
        BY <2>7, <2>8, <2>9, FlattenAppend
    <2>11. SubSeq(s, j + 1, n - 1) \in Seq(T)
        BY <1>0, <2>3, SubSeqProperties, ElementOfSeq
    <2>12. P(n)
        <3> DEFINE X == FlattenSeq(SubSeq(seqs, 1, j))
                   Y == SubSeq(s, j + 1, n - 1)
                   Z == <<s[n]>>
        <3>1. X \in Seq(T) /\ Y \in Seq(T) /\ Z \in Seq(T)
            BY <2>7, <2>8, <2>11, FlattenType
        <3>2. FlattenSeq(SubSeq(seqs, 1, n)) = (X \o Y) \o Z
            BY <2>4, <2>10
        <3>3. SubSeq(s, j + 1, n) = Y \o Z
            BY <2>6
        <3>4. (X \o Y) \o Z = X \o (Y \o Z)
            <4> HIDE DEF X, Y, Z
            <4> QED BY <3>1, SMTT(60)
        <3> HIDE DEF X, Y, Z
        <3>5. FlattenSeq(SubSeq(seqs, 1, n)) = X \o SubSeq(s, j + 1, n)
            BY <3>2, <3>3, <3>4
        <3> QED BY <3>5 DEF X
    <2> QED BY <2>1, <2>12
<1>3. P(Len(s))
    <2> HIDE DEF P
    <2>1. Len(s) \in j..Len(s) /\ Len(s) \notin Bad
        BY <1>0, <1>2
    <2> QED BY <1>0, <2>1
<1>4. SubSeq(seqs, 1, Len(s)) = seqs
    BY <1>0, SubSeqFull
<1> QED BY <1>3, <1>4

\* Flattening nothing but empty sequences gives nothing.
LEMMA FlattenEmpties ==
    ASSUME NEW T, NEW seqs \in Seq(Seq(T)), NEW j \in 0..Len(seqs),
           \A i \in 1..j : seqs[i] = <<>>
    PROVE  FlattenSeq(SubSeq(seqs, 1, j)) = <<>>
<1> DEFINE Bad == {n \in Nat : n \in 0..j /\ FlattenSeq(SubSeq(seqs, 1, n)) # <<>>}
<1>0. Len(seqs) \in Nat /\ j \in Nat
    BY LenProperties
<1> SUFFICES ASSUME Bad # {} PROVE FALSE
    BY <1>0
<1>1. PICK n \in Bad : \A m \in Bad : n <= m
    BY Least
<1>2. n # 0
    <2>1. SubSeq(seqs, 1, 0) = <<>>
        BY SubSeqEmpty
    <2> QED BY <1>1, <2>1, FlattenEmpty
<1>3. n - 1 \in 0..j /\ n - 1 \in Nat /\ n \in 1..j /\ n \in 1..Len(seqs)
    BY <1>0, <1>1, <1>2
<1>4. FlattenSeq(SubSeq(seqs, 1, n - 1)) = <<>>
    BY <1>1, <1>3
<1>5. SubSeq(seqs, 1, n - 1) \in Seq(Seq(T)) /\ seqs[n] \in Seq(T) /\ <<>> \in Seq(T)
    BY <1>0, <1>3, SubSeqProperties, ElementOfSeq, EmptySeq
<1>6. SubSeq(seqs, 1, n) = SubSeq(seqs, 1, n - 1) \o <<seqs[n]>>
    BY <1>0, <1>3, SubSeqRecursiveSecond
<1>7. SubSeq(seqs, 1, n) = Append(SubSeq(seqs, 1, n - 1), seqs[n])
    BY <1>5, <1>6, AppendIsConcat
<1>8. FlattenSeq(SubSeq(seqs, 1, n)) = <<>> \o <<>>
    BY <1>3, <1>4, <1>5, <1>7, FlattenAppend
<1>9. FlattenSeq(SubSeq(seqs, 1, n)) = <<>>
    BY <1>5, <1>8, ConcatEmptySeq
<1> QED BY <1>1, <1>9
-----------------------------------------------------------------------------
(* The helpers of react_node.                                              *)

Ids  == 0..(MaxTurns + MaxCalls)
Msgs == Seq(Message)

\* What the user, the model and the tools say are messages.
LEMMA MsgType ==
    ASSUME NEW role \in {"system", "user", "assistant", "tool"}, NEW ids \in SUBSET Ids
    PROVE  Msg(role, ids) \in Message /\ Msg(role, ids).role = role
           /\ Msg(role, ids).ids = ids /\ Msg(role, ids).mid = 0
BY DEF Msg, Message, Ids

\* The ids of a message are finitely many.
LEMMA IdsFinite == \A S \in SUBSET Ids : IsFiniteSet(S)
<1>1. MaxTurns + MaxCalls \in Int /\ 0 \in Int
    BY GraphAssumption
<1>2. IsFiniteSet(Ids)
    BY <1>1, FS_Interval DEF Ids
<1> QED BY <1>2, FS_Subset

\* ToolsEnd is the last of the tool messages that follow a position ...
LEMMA ToolsEndIs ==
    ASSUME NEW conv \in Msgs, NEW b \in 1..Len(conv)
    PROVE  /\ ToolsEnd(conv, b) \in b..Len(conv)
           /\ \A k \in (b + 1)..ToolsEnd(conv, b) : conv[k].role = "tool"
           /\ ToolsEnd(conv, b) < Len(conv) => conv[ToolsEnd(conv, b) + 1].role # "tool"
<1> DEFINE S == {e \in b..Len(conv) : \A k \in (b + 1)..e : conv[k].role = "tool"}
<1>0. Len(conv) \in Nat /\ b \in Nat
    BY LenProperties DEF Msgs
<1>1. b \in S /\ S \subseteq 0..Len(conv)
    BY <1>0
<1>2. PICK e \in S : \A m \in S : m <= e
    <2> HIDE DEF S
    <2> QED BY <1>0, <1>1, Greatest
<1>3. e < Len(conv) => conv[e + 1].role # "tool"
    <2> SUFFICES ASSUME e < Len(conv), conv[e + 1].role = "tool" PROVE FALSE
        OBVIOUS
    <2>1. e + 1 \in b..Len(conv) /\ \A k \in (b + 1)..(e + 1) : conv[k].role = "tool"
        BY <1>0
    <2>2. e + 1 \in S
        BY <2>1
    <2> QED BY <1>0, <1>2, <2>2
<1> DEFINE End(x) == /\ \A k \in (b + 1)..x : conv[k].role = "tool"
                     /\ x < Len(conv) => conv[x + 1].role # "tool"
<1>4. e \in b..Len(conv) /\ End(e)
    BY <1>3
<1>5. ToolsEnd(conv, b) = CHOOSE x \in b..Len(conv) : End(x)
    BY DEF ToolsEnd
<1> HIDE DEF End
<1>6. ToolsEnd(conv, b) \in b..Len(conv) /\ End(ToolsEnd(conv, b))
    BY <1>4, <1>5
<1> QED BY <1>6 DEF End

\* ... and no other position is.
LEMMA ToolsEndUnique ==
    ASSUME NEW conv \in Msgs, NEW b \in 1..Len(conv), NEW e \in b..Len(conv),
           \A k \in (b + 1)..e : conv[k].role = "tool",
           e < Len(conv) => conv[e + 1].role # "tool"
    PROVE  ToolsEnd(conv, b) = e
<1> DEFINE t == ToolsEnd(conv, b)
<1>1. /\ t \in b..Len(conv) /\ \A k \in (b + 1)..t : conv[k].role = "tool"
      /\ t < Len(conv) => conv[t + 1].role # "tool"
    BY ToolsEndIs
<1>2. Len(conv) \in Nat
    BY LenProperties DEF Msgs
<1> HIDE DEF t
<1>3. ~(t < e)
    <2> SUFFICES ASSUME t < e PROVE FALSE
        OBVIOUS
    <2>1. t + 1 \in (b + 1)..e /\ t < Len(conv)
        BY <1>1, <1>2
    <2> QED BY <1>1, <2>1
<1>4. ~(e < t)
    <2> SUFFICES ASSUME e < t PROVE FALSE
        OBVIOUS
    <2>1. e + 1 \in (b + 1)..t /\ e < Len(conv)
        BY <1>1, <1>2
    <2> QED BY <1>1, <2>1
<1>5. t = e
    BY <1>1, <1>2, <1>3, <1>4
<1> QED BY <1>5 DEF t

\* Unanswered calls are ids.
LEMMA UnansweredIds ==
    ASSUME NEW conv \in Msgs, NEW b \in 1..Len(conv)
    PROVE  Unanswered(conv, b) \in SUBSET Ids
<1>1. conv[b] \in Message
    BY ElementOfSeq DEF Msgs
<1> QED BY <1>1 DEF Unanswered, Message, Ids

\* The results _fix_orphaned_tool_calls puts behind position e.
After(conv, e) ==
    UNION {Unanswered(conv, b) : b \in {b \in 1..e : /\ conv[b].role = "assistant"
                                                     /\ ToolsEnd(conv, b) = e}}
Results(S) == [i \in DOMAIN SetToSeq(S) |-> ToolMsg(SetToSeq(S)[i])]
Parts(conv) == [e \in DOMAIN conv |-> <<conv[e]>> \o Results(After(conv, e))]

LEMMA FixIs == \A conv : FixOrphaned(conv) = FlattenSeq(Parts(conv))
BY DEF FixOrphaned, Parts, After, Results

LEMMA AfterIds ==
    ASSUME NEW conv \in Msgs, NEW e \in 1..Len(conv)
    PROVE  After(conv, e) \in SUBSET Ids
<1>1. \A b \in 1..e : b \in 1..Len(conv)
    BY LenProperties DEF Msgs
<1> QED BY <1>1, UnansweredIds DEF After

\* A finite set, one element after the other, each once.
LEMMA SetToSeqIs ==
    ASSUME NEW S, IsFiniteSet(S)
    PROVE  /\ Cardinality(S) \in Nat /\ SetToSeq(S) \in [1..Cardinality(S) -> S]
           /\ IsInjective(SetToSeq(S)) /\ \A x \in S : \E i \in 1..Cardinality(S) : SetToSeq(S)[i] = x
<1> DEFINE n == Cardinality(S)
<1>1. n \in Nat /\ ExistsBijection(1..n, S)
    BY FS_CardinalityType
<1>2. PICK g \in Bijection(1..n, S) : TRUE
    BY <1>1 DEF ExistsBijection
<1>3. g \in [1..n -> S] /\ IsInjective(g)
    BY <1>2 DEF Bijection, Injection, IsInjective
<1>4. SetToSeq(S) = CHOOSE f \in [1..n -> S] : IsInjective(f)
    BY DEF SetToSeq
<1> DEFINE s == SetToSeq(S)
<1>5. s \in [1..n -> S] /\ IsInjective(s)
    BY <1>3, <1>4
<1>6. IsFiniteSet(1..n) /\ Cardinality(1..n) = n
    BY <1>1, FS_Interval
<1> HIDE DEF s, n
<1>7. s \in Injection(1..n, S)
    BY <1>5 DEF Injection, IsInjective
<1>8. s \in Surjection(1..n, S)
    <2>1. Cardinality(1..n) = Cardinality(S)
        BY <1>6 DEF n
    <2> QED BY <1>7, <2>1, FS_Injection
<1>9. \A x \in S : \E i \in 1..n : s[i] = x
    BY <1>8 DEF Surjection
<1> QED BY <1>1, <1>5, <1>9 DEF n, s

\* The results are tool messages, one for each call.
LEMMA ResultsAre ==
    ASSUME NEW S \in SUBSET Ids
    PROVE  /\ Results(S) \in Msgs /\ Len(Results(S)) = Cardinality(S)
           /\ Cardinality(S) \in Nat
           /\ \A i \in 1..Cardinality(S) : /\ Results(S)[i] = ToolMsg(SetToSeq(S)[i])
                                           /\ SetToSeq(S)[i] \in S
                                           /\ Results(S)[i].role = "tool" /\ Results(S)[i].mid = 0
                                           /\ Results(S)[i].ids = {SetToSeq(S)[i]}
<1>1. IsFiniteSet(S)
    BY IdsFinite
<1> DEFINE n == Cardinality(S)
           s == SetToSeq(S)
<1>2. n \in Nat /\ s \in [1..n -> S]
    BY <1>1, SetToSeqIs
<1>3. \A c \in Ids : ToolMsg(c) \in Message /\ ToolMsg(c).role = "tool" /\ ToolMsg(c).ids = {c}
                     /\ ToolMsg(c).mid = 0
    BY DEF ToolMsg, Msg, Message, Ids
<1> HIDE DEF n, s
<1>4. [i \in 1..n |-> ToolMsg(s[i])] \in [1..n -> Message]
    BY <1>2, <1>3
<1>5. Results(S) = [i \in 1..n |-> ToolMsg(s[i])]
    BY <1>2 DEF Results, s
<1>6. Results(S) \in Msgs /\ Len(Results(S)) = n
    BY <1>2, <1>4, <1>5 DEF Msgs
<1>7. \A i \in 1..n : /\ Results(S)[i] = ToolMsg(s[i]) /\ s[i] \in S
                      /\ Results(S)[i].role = "tool" /\ Results(S)[i].mid = 0
                      /\ Results(S)[i].ids = {s[i]}
    BY <1>2, <1>3, <1>5
<1> QED BY <1>2, <1>6, <1>7 DEF n, s

LEMMA ResultsEmpty == Results({}) = <<>>
<1>1. {} \in SUBSET Ids /\ Cardinality({}) = 0
    BY FS_EmptySet
<1>2. Results({}) \in Msgs /\ Len(Results({})) = 0
    BY <1>1, ResultsAre
<1> QED BY <1>2, EmptySeq DEF Msgs

\* The parts of the repaired history are histories.
LEMMA PartsType ==
    ASSUME NEW conv \in Msgs
    PROVE  /\ Parts(conv) \in Seq(Msgs) /\ Len(Parts(conv)) = Len(conv)
           /\ \A e \in 1..Len(conv) : Parts(conv)[e] = <<conv[e]>> \o Results(After(conv, e))
<1>1. Len(conv) \in Nat /\ DOMAIN conv = 1..Len(conv)
    BY LenProperties DEF Msgs
<1>2. ASSUME NEW e \in 1..Len(conv) PROVE <<conv[e]>> \o Results(After(conv, e)) \in Msgs
    <2>1. conv[e] \in Message
        BY ElementOfSeq DEF Msgs
    <2>2. <<conv[e]>> \in Seq(Message) /\ Results(After(conv, e)) \in Seq(Message)
        BY <2>1, AfterIds, ResultsAre DEF Msgs
    <2> QED BY <2>2, ConcatProperties DEF Msgs
<1>3. Parts(conv) \in [1..Len(conv) -> Msgs]
    BY <1>1, <1>2 DEF Parts
<1>4. Parts(conv) = [e \in 1..Len(conv) |-> <<conv[e]>> \o Results(After(conv, e))]
    BY <1>1 DEF Parts
<1> QED BY <1>1, <1>3, <1>4

LEMMA FixType == \A conv \in Msgs : FixOrphaned(conv) \in Msgs
BY FixIs, PartsType, FlattenType DEF Msgs

\* _fix_orphaned_tool_calls leaves a position alone behind which nothing is
\* missing.
LEMMA PartSingle ==
    ASSUME NEW conv \in Msgs, NEW e \in 1..Len(conv), After(conv, e) = {}
    PROVE  Parts(conv)[e] = <<conv[e]>>
<1>1. Parts(conv)[e] = <<conv[e]>> \o <<>>
    BY PartsType, ResultsEmpty
<1>2. <<conv[e]>> \in Seq(Message)
    <2>1. conv[e] \in Message
        BY ElementOfSeq DEF Msgs
    <2> QED BY <2>1
<1> QED BY <1>1, <1>2, ConcatEmptySeq

\* A history whose last position alone misses results gets them at its end.
LEMMA FixLast ==
    ASSUME NEW conv \in Msgs, conv # <<>>,
           \A e \in 1..(Len(conv) - 1) : After(conv, e) = {}
    PROVE  FixOrphaned(conv) = conv \o Results(After(conv, Len(conv)))
<1> DEFINE n == Len(conv)
           p == Parts(conv)
           R == Results(After(conv, n))
           front == SubSeq(p, 1, n - 1)
           head == SubSeq(conv, 1, n - 1)
<1>0. n \in Nat /\ n # 0 /\ n \in 1..n /\ n - 1 \in Nat
    BY EmptySeq, LenProperties DEF Msgs
<1>1. p \in Seq(Msgs) /\ Len(p) = n /\ p[n] = <<conv[n]>> \o R
    BY <1>0, PartsType
<1>2. R \in Msgs
    BY <1>0, AfterIds, ResultsAre
<1>3. conv[n] \in Message /\ <<conv[n]>> \in Msgs
    BY <1>0, ElementOfSeq DEF Msgs
<1>4. \A i \in 1..(n - 1) : i \in 1..n /\ p[i] = <<conv[i]>> /\ p[i] \in Msgs /\ conv[i] \in Message
    <2> SUFFICES ASSUME NEW i \in 1..(n - 1)
                 PROVE  i \in 1..n /\ p[i] = <<conv[i]>> /\ p[i] \in Msgs /\ conv[i] \in Message
        OBVIOUS
    <2>1. i \in 1..n
        BY <1>0
    <2>2. p[i] = <<conv[i]>>
        BY <2>1, PartSingle
    <2>3. conv[i] \in Message
        BY <2>1, ElementOfSeq DEF Msgs
    <2>4. <<conv[i]>> \in Msgs
        BY <2>3 DEF Msgs
    <2> QED BY <2>1, <2>2, <2>3, <2>4
<1> HIDE DEF n, p, R
<1>5. /\ front \in Seq(Msgs) /\ Len(front) = n - 1 /\ \A i \in 1..(n - 1) : front[i] = p[i]
      /\ head \in Msgs /\ Len(head) = n - 1 /\ \A i \in 1..(n - 1) : head[i] = conv[i]
    <2>1. /\ SubSeq(p, 1, n - 1) \in Seq(Msgs)
          /\ Len(SubSeq(p, 1, n - 1)) = IF 1 <= n - 1 THEN (n - 1) - 1 + 1 ELSE 0
          /\ \A i \in 1..((n - 1) - 1 + 1) : SubSeq(p, 1, n - 1)[i] = p[1 + i - 1]
        BY <1>0, <1>4, SubSeqProperties
    <2>2. /\ SubSeq(conv, 1, n - 1) \in Seq(Message)
          /\ Len(SubSeq(conv, 1, n - 1)) = IF 1 <= n - 1 THEN (n - 1) - 1 + 1 ELSE 0
          /\ \A i \in 1..((n - 1) - 1 + 1) : SubSeq(conv, 1, n - 1)[i] = conv[1 + i - 1]
        BY <1>0, <1>4, SubSeqProperties
    <2>3. (n - 1) - 1 + 1 = n - 1 /\ \A i \in 1..(n - 1) : 1 + i - 1 = i
        BY <1>0
    <2> QED BY <1>0, <2>1, <2>2, <2>3 DEF Msgs
<1> HIDE DEF front, head
<1>6. FlattenSeq(front) = head
    <2>1. FlattenSeq(front) = FlattenSeq(SubSeq(front, 1, 0)) \o SubSeq(head, 1, Len(head))
        <3>1. \A i \in (0 + 1)..Len(head) : front[i] = <<head[i]>>
            BY <1>0, <1>4, <1>5
        <3>2. 0 \in 0..Len(head) /\ Len(front) = Len(head)
            BY <1>0, <1>5
        <3>3. front \in Seq(Seq(Message)) /\ head \in Seq(Message)
            BY <1>5 DEF Msgs
        <3>4. FlattenSeq(front) = FlattenSeq(SubSeq(front, 1, 0)) \o SubSeq(head, 0 + 1, Len(head))
            BY <3>1, <3>2, <3>3, FlattenSingles
        <3> QED BY <3>4
    <2>2. SubSeq(front, 1, 0) = <<>> /\ SubSeq(head, 1, Len(head)) = head
        BY <1>5, SubSeqEmpty, SubSeqFull DEF Msgs
    <2>3. <<>> \o head = head
        BY <1>5, ConcatEmptySeq DEF Msgs
    <2> QED BY <2>1, <2>2, <2>3, FlattenEmpty
<1>7. p = Append(front, p[n])
    <2>1. SubSeq(p, 1, n) = SubSeq(p, 1, n - 1) \o <<p[n]>>
        <3>1. 1 \in 1..Len(p) /\ n \in 1..Len(p)
            BY <1>0, <1>1
        <3> QED BY <1>1, <3>1, SubSeqRecursiveSecond
    <2>2. SubSeq(p, 1, n) = p
        BY <1>1, SubSeqFull
    <2>3. p[n] \in Msgs
        BY <1>0, <1>1, ElementOfSeq
    <2> QED BY <1>5, <2>1, <2>2, <2>3, AppendIsConcat DEF front
<1>8. FlattenSeq(p) = head \o (<<conv[n]>> \o R)
    <2>1. p[n] \in Seq(Message) /\ front \in Seq(Seq(Message))
        BY <1>0, <1>1, <1>5, ElementOfSeq DEF Msgs
    <2>2. FlattenSeq(Append(front, p[n])) = FlattenSeq(front) \o p[n]
        BY <2>1, FlattenAppend
    <2> QED BY <1>1, <1>6, <1>7, <2>2
<1>9. head \o (<<conv[n]>> \o R) = (head \o <<conv[n]>>) \o R
    <2> DEFINE x == <<conv[n]>>
    <2>1. x \in Seq(Message) /\ head \in Seq(Message) /\ R \in Seq(Message)
        BY <1>2, <1>3, <1>5 DEF Msgs
    <2> HIDE DEF x
    <2>2. head \o (x \o R) = (head \o x) \o R
        BY <2>1, SMTT(60)
    <2> QED BY <2>2 DEF x
<1>10. head \o <<conv[n]>> = conv
    <2>1. SubSeq(conv, 1, n) = SubSeq(conv, 1, n - 1) \o <<conv[n]>>
        <3>1. 1 \in 1..Len(conv) /\ n \in 1..Len(conv)
            BY <1>0 DEF n
        <3> QED BY <3>1, SubSeqRecursiveSecond DEF Msgs
    <2>2. SubSeq(conv, 1, n) = conv
        BY SubSeqFull DEF n, Msgs
    <2> QED BY <2>1, <2>2 DEF head
<1> QED BY <1>8, <1>9, <1>10, FixIs DEF p, R, n

\* add_messages keeps what is stored and gives every new message a place.
New(conv) == FlattenSeq([i \in DOMAIN conv |-> IF conv[i].mid = 0 THEN <<conv[i]>> ELSE <<>>])
Placed(old, new) == [i \in DOMAIN new |-> [new[i] EXCEPT !.mid = Len(old) + i]]

LEMMA AddIs == \A old, conv : AddMessages(old, conv) = old \o Placed(old, New(conv))
BY DEF AddMessages, New, Placed

LEMMA NewParts ==
    ASSUME NEW conv \in Msgs
    PROVE  LET p == [i \in DOMAIN conv |-> IF conv[i].mid = 0 THEN <<conv[i]>> ELSE <<>>]
           IN  p \in Seq(Msgs) /\ Len(p) = Len(conv) /\ New(conv) = FlattenSeq(p)
               /\ \A i \in 1..Len(conv) : p[i] = IF conv[i].mid = 0 THEN <<conv[i]>> ELSE <<>>
<1> DEFINE p == [i \in DOMAIN conv |-> IF conv[i].mid = 0 THEN <<conv[i]>> ELSE <<>>]
<1>1. Len(conv) \in Nat /\ DOMAIN conv = 1..Len(conv)
    BY LenProperties DEF Msgs
<1>2. ASSUME NEW i \in 1..Len(conv) PROVE (IF conv[i].mid = 0 THEN <<conv[i]>> ELSE <<>>) \in Msgs
    <2>1. conv[i] \in Message
        BY ElementOfSeq DEF Msgs
    <2>2. <<conv[i]>> \in Msgs /\ <<>> \in Msgs
        BY <2>1 DEF Msgs
    <2> QED BY <2>2
<1>3. p \in [1..Len(conv) -> Msgs]
    BY <1>1, <1>2
<1>4. p \in Seq(Msgs) /\ Len(p) = Len(conv)
    BY <1>1, <1>3
<1>5. \A i \in 1..Len(conv) : p[i] = IF conv[i].mid = 0 THEN <<conv[i]>> ELSE <<>>
    BY <1>1
<1>6. New(conv) = FlattenSeq(p)
    BY DEF New
<1> HIDE DEF p
<1>7. p \in Seq(Msgs) /\ Len(p) = Len(conv) /\ New(conv) = FlattenSeq(p)
      /\ \A i \in 1..Len(conv) : p[i] = IF conv[i].mid = 0 THEN <<conv[i]>> ELSE <<>>
    BY <1>4, <1>5, <1>6
<1> QED BY <1>7 DEF p

LEMMA NewType == \A conv \in Msgs : New(conv) \in Msgs
BY NewParts, FlattenType DEF Msgs

LEMMA PlacedIs ==
    ASSUME NEW old \in Msgs, NEW new \in Msgs
    PROVE  /\ Placed(old, new) \in Msgs /\ Len(Placed(old, new)) = Len(new)
           /\ \A i \in 1..Len(new) : /\ Placed(old, new)[i].role = new[i].role
                                     /\ Placed(old, new)[i].ids = new[i].ids
                                     /\ Placed(old, new)[i].mid = Len(old) + i
<1>1. /\ Len(new) \in Nat /\ DOMAIN new = 1..Len(new) /\ Len(old) \in Nat
      /\ \A i \in 1..Len(new) : new[i] \in Message
    BY LenProperties, ElementOfSeq DEF Msgs
<1>2. ASSUME NEW i \in 1..Len(new)
      PROVE  LET m == [new[i] EXCEPT !.mid = Len(old) + i]
             IN  m \in Message /\ m.role = new[i].role /\ m.ids = new[i].ids /\ m.mid = Len(old) + i
    BY <1>1 DEF Message
<1>3. Placed(old, new) = [i \in 1..Len(new) |-> [new[i] EXCEPT !.mid = Len(old) + i]]
    BY <1>1 DEF Placed
<1>4. Placed(old, new) \in [1..Len(new) -> Message]
    BY <1>2, <1>3
<1>5. Placed(old, new) \in Msgs /\ Len(Placed(old, new)) = Len(new)
    BY <1>1, <1>4 DEF Msgs
<1> QED BY <1>2, <1>3, <1>5

LEMMA AddType ==
    ASSUME NEW old \in Msgs, NEW conv \in Msgs
    PROVE  AddMessages(old, conv) \in Msgs
BY AddIs, NewType, PlacedIs, ConcatProperties DEF Msgs

\* Nothing add_messages stores is without a place.
StoredMsgs(msgs) == \A k \in 1..Len(msgs) : msgs[k].mid # 0

LEMMA AddStored ==
    ASSUME NEW old \in Msgs, NEW conv \in Msgs, StoredMsgs(old)
    PROVE  StoredMsgs(AddMessages(old, conv))
<1> DEFINE P == Placed(old, New(conv))
<1>1. P \in Msgs /\ \A i \in 1..Len(P) : P[i].mid = Len(old) + i
    BY NewType, PlacedIs
<1>2. Len(old) \in Nat /\ Len(P) \in Nat
    BY <1>1, LenProperties DEF Msgs
<1> HIDE DEF P
<1>3. /\ Len(old \o P) = Len(old) + Len(P)
      /\ \A i \in 1..(Len(old) + Len(P)) : (old \o P)[i] = IF i <= Len(old) THEN old[i] ELSE P[i - Len(old)]
    BY <1>1, ConcatProperties DEF Msgs
<1>4. \A k \in 1..Len(old \o P) : (old \o P)[k].mid # 0
    BY <1>1, <1>2, <1>3 DEF StoredMsgs
<1> QED BY <1>4, AddIs DEF P, StoredMsgs

\* From a position on where every message is new, add_messages takes them all.
LEMMA NewTail ==
    ASSUME NEW conv \in Msgs, NEW j \in 0..Len(conv),
           \A i \in (j + 1)..Len(conv) : conv[i].mid = 0
    PROVE  \E x \in Msgs : /\ New(conv) = x \o SubSeq(conv, j + 1, Len(conv))
                           /\ (\A i \in 1..j : conv[i].mid # 0) => x = <<>>
<1> DEFINE p == [i \in DOMAIN conv |-> IF conv[i].mid = 0 THEN <<conv[i]>> ELSE <<>>]
           x == FlattenSeq(SubSeq(p, 1, j))
<1>1. p \in Seq(Msgs) /\ Len(p) = Len(conv) /\ New(conv) = FlattenSeq(p)
      /\ \A i \in 1..Len(conv) : p[i] = IF conv[i].mid = 0 THEN <<conv[i]>> ELSE <<>>
    BY NewParts
<1>2. Len(conv) \in Nat /\ j \in Nat
    BY LenProperties DEF Msgs
<1> HIDE DEF p
<1>3. ASSUME NEW i \in (j + 1)..Len(conv) PROVE p[i] = <<conv[i]>>
    <2>1. i \in 1..Len(conv) /\ conv[i].mid = 0
        BY <1>2
    <2> QED BY <1>1, <2>1
<1>4. New(conv) = x \o SubSeq(conv, j + 1, Len(conv))
    <2>1. p \in Seq(Seq(Message)) /\ conv \in Seq(Message)
        BY <1>1 DEF Msgs
    <2> QED BY <1>1, <1>3, <2>1, FlattenSingles
<1>5. x \in Msgs
    <2>1. SubSeq(p, 1, j) \in Seq(Msgs)
        BY <1>1, <1>2, SubSeqProperties, ElementOfSeq
    <2> QED BY <2>1, FlattenType DEF Msgs
<1>6. (\A i \in 1..j : conv[i].mid # 0) => x = <<>>
    <2> SUFFICES ASSUME \A i \in 1..j : conv[i].mid # 0 PROVE x = <<>>
        OBVIOUS
    <2>1. ASSUME NEW i \in 1..j PROVE p[i] = <<>>
        <3>1. i \in 1..Len(conv) /\ conv[i].mid # 0
            BY <1>2
        <3> QED BY <1>1, <3>1
    <2>2. p \in Seq(Seq(Message)) /\ j \in 0..Len(p)
        BY <1>1 DEF Msgs
    <2> QED BY <2>1, <2>2, FlattenEmpties
<1> HIDE DEF x
<1> QED BY <1>4, <1>5, <1>6

\* a holds the messages of conv, whatever their places.
Same(a, conv) == /\ Len(a) = Len(conv)
                 /\ \A k \in 1..Len(conv) : a[k].role = conv[k].role /\ a[k].ids = conv[k].ids

\* conv goes on from the stored msgs with new messages only.
Extends(conv, msgs) ==
    /\ Len(msgs) <= Len(conv)
    /\ \A k \in 1..Len(conv) : IF k <= Len(msgs) THEN conv[k] = msgs[k] ELSE conv[k].mid = 0

\* add_messages stores a conversation that goes on from the history as it is.
LEMMA AddExtends ==
    ASSUME NEW old \in Msgs, NEW conv \in Msgs, StoredMsgs(old), Extends(conv, old)
    PROVE  Same(AddMessages(old, conv), conv)
<1> DEFINE j == Len(old)
           tail == SubSeq(conv, j + 1, Len(conv))
           P == Placed(old, tail)
<1>1. j \in Nat /\ Len(conv) \in Nat /\ j \in 0..Len(conv)
    BY LenProperties DEF Msgs, Extends
<1>2. /\ \A i \in (j + 1)..Len(conv) : conv[i].mid = 0
      /\ \A i \in 1..j : conv[i].mid # 0 /\ conv[i] = old[i]
    BY <1>1 DEF Extends, StoredMsgs
<1>3. tail \in Msgs /\ Len(tail) = Len(conv) - j
      /\ \A i \in 1..(Len(conv) - j) : tail[i] = conv[j + i]
    <2>1. \A i \in (j + 1)..Len(conv) : conv[i] \in Message
        BY <1>1, ElementOfSeq DEF Msgs
    <2>2. /\ tail \in Seq(Message)
          /\ Len(tail) = IF j + 1 <= Len(conv) THEN Len(conv) - (j + 1) + 1 ELSE 0
          /\ \A i \in 1..(Len(conv) - (j + 1) + 1) : tail[i] = conv[j + 1 + i - 1]
        BY <1>1, <2>1, SubSeqProperties
    <2> HIDE DEF tail, j
    <2>3. Len(conv) - (j + 1) + 1 = Len(conv) - j
        BY <1>1
    <2>4. Len(tail) = Len(conv) - j
        BY <1>1, <2>2
    <2>5. \A i \in 1..(Len(conv) - j) : j + 1 + i - 1 = j + i
        BY <1>1
    <2> QED BY <2>2, <2>3, <2>4, <2>5 DEF Msgs
<1> HIDE DEF j
<1>4. New(conv) = tail
    <2>1. PICK x \in Msgs : New(conv) = x \o tail /\ ((\A i \in 1..j : conv[i].mid # 0) => x = <<>>)
        BY <1>1, <1>2, NewTail
    <2>2. x = <<>>
        BY <1>2, <2>1
    <2> HIDE DEF tail
    <2> QED BY <1>3, <2>1, <2>2, ConcatEmptySeq DEF Msgs
<1> HIDE DEF tail
<1>5. P \in Msgs /\ Len(P) = Len(conv) - j
      /\ \A i \in 1..(Len(conv) - j) : P[i].role = tail[i].role /\ P[i].ids = tail[i].ids
    BY <1>3, PlacedIs
<1> HIDE DEF P
<1>6. /\ Len(old \o P) = j + Len(P)
      /\ \A i \in 1..(j + Len(P)) : (old \o P)[i] = IF i <= j THEN old[i] ELSE P[i - j]
    BY <1>5, ConcatProperties DEF Msgs, j
<1>7. j + Len(P) = Len(conv)
    BY <1>1, <1>5
<1>8. ASSUME NEW k \in 1..Len(conv)
      PROVE  (old \o P)[k].role = conv[k].role /\ (old \o P)[k].ids = conv[k].ids
    <2>1. CASE k <= j
        BY <1>1, <1>2, <1>6, <1>7, <2>1
    <2>2. CASE ~(k <= j)
        <3>1. k - j \in 1..(Len(conv) - j) /\ j + (k - j) = k
            BY <1>1, <2>2
        <3>2. tail[k - j] = conv[k]
            BY <1>3, <3>1
        <3> QED BY <1>5, <1>6, <1>7, <2>2, <3>1, <3>2
    <2> QED BY <2>1, <2>2
<1>9. AddMessages(old, conv) = old \o P
    BY <1>4, AddIs DEF P
<1> QED BY <1>6, <1>7, <1>8, <1>9 DEF Same

\* A new last message is the last message stored.
LEMMA AddLast ==
    ASSUME NEW old \in Msgs, NEW conv \in Msgs, conv # <<>>, conv[Len(conv)].mid = 0
    PROVE  LET a == AddMessages(old, conv)
           IN  a # <<>> /\ a[Len(a)].role = conv[Len(conv)].role
               /\ a[Len(a)].ids = conv[Len(conv)].ids
<1> DEFINE n == Len(conv)
           j == n - 1
           t == SubSeq(conv, j + 1, n)
<1>0. n \in Nat /\ n # 0 /\ j \in 0..n /\ j + 1 = n /\ Len(old) \in Nat
    BY EmptySeq, LenProperties DEF Msgs
<1>1. t \in Msgs /\ Len(t) = 1 /\ t[1] = conv[n]
    <2>1. \A i \in n..n : conv[i] \in Message
        BY <1>0, ElementOfSeq DEF Msgs
    <2> HIDE DEF n
    <2>2. /\ SubSeq(conv, n, n) \in Seq(Message)
          /\ Len(SubSeq(conv, n, n)) = IF n <= n THEN n - n + 1 ELSE 0
          /\ \A i \in 1..(n - n + 1) : SubSeq(conv, n, n)[i] = conv[n + i - 1]
        BY <1>0, <2>1, SubSeqProperties
    <2>3. n - n + 1 = 1 /\ n + 1 - 1 = n /\ n <= n
        BY <1>0
    <2> QED BY <1>0, <2>2, <2>3 DEF Msgs
<1>2. PICK x \in Msgs : New(conv) = x \o t
    <2> HIDE DEF n, j
    <2>1. \A i \in (j + 1)..n : conv[i].mid = 0
        BY <1>0 DEF n
    <2> QED BY <1>0, <2>1, NewTail DEF n
<1> HIDE DEF n, j, t
<1>3. Len(x) \in Nat /\ Len(x \o t) = Len(x) + 1 /\ x \o t \in Msgs /\ (x \o t)[Len(x) + 1] = conv[n]
    <2>1. Len(x) \in Nat
        BY LenProperties DEF Msgs
    <2>2. /\ x \o t \in Seq(Message) /\ Len(x \o t) = Len(x) + Len(t)
          /\ \A i \in 1..(Len(x) + Len(t)) : (x \o t)[i] = IF i <= Len(x) THEN x[i] ELSE t[i - Len(x)]
        BY <1>1, ConcatProperties DEF Msgs
    <2>3. Len(x) + 1 \in 1..(Len(x) + Len(t)) /\ ~(Len(x) + 1 <= Len(x)) /\ (Len(x) + 1) - Len(x) = 1
        BY <1>1, <2>1
    <2> QED BY <1>1, <2>1, <2>2, <2>3 DEF Msgs
<1> DEFINE m == Len(x) + 1
           P == Placed(old, New(conv))
<1>4. m \in Nat /\ m # 0 /\ Len(New(conv)) = m /\ New(conv) \in Msgs /\ New(conv)[m] = conv[n]
    BY <1>2, <1>3
<1> HIDE DEF m
<1>5. P \in Msgs /\ Len(P) = m /\ P[m].role = conv[n].role /\ P[m].ids = conv[n].ids
    <2>1. m \in 1..Len(New(conv))
        BY <1>4
    <2> QED BY <1>4, <2>1, PlacedIs
<1> HIDE DEF P
<1> DEFINE a == old \o P
<1>6. /\ Len(a) = Len(old) + m /\ a \in Msgs
      /\ \A i \in 1..(Len(old) + m) : a[i] = IF i <= Len(old) THEN old[i] ELSE P[i - Len(old)]
    BY <1>5, ConcatProperties DEF Msgs
<1>7. /\ Len(old) + m \in 1..(Len(old) + m) /\ ~(Len(old) + m <= Len(old))
      /\ (Len(old) + m) - Len(old) = m
    BY <1>0, <1>4
<1> HIDE DEF a
<1>8. a[Len(a)] = P[m]
    BY <1>6, <1>7
<1>9. a # <<>>
    BY <1>0, <1>4, <1>6, EmptySeq
<1>10. AddMessages(old, conv) = a
    BY AddIs DEF P, a
<1> QED BY <1>5, <1>8, <1>9, <1>10 DEF n

\* One new message goes to the end.
LEMMA AddOne ==
    ASSUME NEW old \in Msgs, NEW m \in Message, m.mid = 0
    PROVE  Same(AddMessages(old, <<m>>), Append(old, m))
<1>1. <<m>> \in Msgs /\ Len(<<m>>) = 1 /\ <<m>>[1] = m /\ Len(old) \in Nat
    BY LenProperties DEF Msgs
<1>2. New(<<m>>) = <<m>>
    <2>1. \A i \in (0 + 1)..Len(<<m>>) : <<m>>[i].mid = 0
        BY <1>1
    <2>2. 0 \in 0..Len(<<m>>)
        BY <1>1
    <2> DEFINE c == <<m>>
    <2> HIDE DEF c
    <2>3. c \in Msgs /\ \A i \in (0 + 1)..Len(c) : c[i].mid = 0
        BY <1>1, <2>1 DEF c
    <2>4. 0 \in 0..Len(c)
        BY <2>2 DEF c
    <2>5. PICK x \in Msgs : New(c) = x \o SubSeq(c, 0 + 1, Len(c))
                            /\ ((\A i \in 1..0 : c[i].mid # 0) => x = <<>>)
        BY <2>3, <2>4, NewTail
    <2>6. New(c) = <<>> \o SubSeq(c, 1, Len(c))
        BY <2>5
    <2>7. SubSeq(c, 1, Len(c)) = c
        BY <2>3, SubSeqFull DEF Msgs
    <2>8. New(c) = c
        BY <2>3, <2>6, <2>7, ConcatEmptySeq DEF Msgs
    <2> QED BY <2>8 DEF c
<1> DEFINE P == Placed(old, <<m>>)
<1>3. P \in Msgs /\ Len(P) = 1 /\ P[1].role = m.role /\ P[1].ids = m.ids
    BY <1>1, PlacedIs
<1> HIDE DEF P
<1>4. /\ Len(old \o P) = Len(old) + 1
      /\ \A i \in 1..(Len(old) + 1) : (old \o P)[i] = IF i <= Len(old) THEN old[i] ELSE P[i - Len(old)]
    <2>1. old \in Seq(Message) /\ P \in Seq(Message)
        BY <1>3 DEF Msgs
    <2>2. /\ Len(old \o P) = Len(old) + Len(P)
          /\ \A i \in 1..(Len(old) + Len(P)) : (old \o P)[i] = IF i <= Len(old) THEN old[i] ELSE P[i - Len(old)]
        BY <2>1, ConcatProperties
    <2> QED BY <1>3, <2>2
<1>5. /\ Len(Append(old, m)) = Len(old) + 1 /\ \A i \in 1..Len(old) : Append(old, m)[i] = old[i]
      /\ Append(old, m)[Len(old) + 1] = m
    BY AppendProperties DEF Msgs
<1>6. ASSUME NEW k \in 1..(Len(old) + 1)
      PROVE  (old \o P)[k].role = Append(old, m)[k].role /\ (old \o P)[k].ids = Append(old, m)[k].ids
    <2>1. CASE k <= Len(old)
        BY <1>1, <1>4, <1>5, <2>1
    <2>2. CASE k = Len(old) + 1
        <3>1. (old \o P)[k] = P[1]
            BY <1>1, <1>4, <2>2
        <3> QED BY <1>3, <1>5, <2>2, <3>1
    <2>3. k <= Len(old) \/ k = Len(old) + 1
        BY <1>1
    <2> QED BY <2>1, <2>2, <2>3
<1> QED BY <1>2, <1>4, <1>5, <1>6, AddIs DEF P, Same

\* _trim keeps the last message, unless it is a tool result.
LEMMA TrimIs ==
    ASSUME NEW conv \in Msgs, conv # <<>>, conv[Len(conv)].role # "tool"
    PROVE  Trim(conv) \in Msgs /\ Trim(conv) # <<>> /\ Trim(conv)[Len(Trim(conv))] = conv[Len(conv)]
<1> DEFINE n == Len(conv)
           H == MAX_HISTORY
           recent == SubSeq(conv, n - H + 1, n)
           I == {i \in 1..Len(recent) : recent[i].role # "tool"}
           first == SelectInSeq(recent, LAMBDA m : m.role # "tool")
           rest == SubSeq(recent, first, Len(recent))
<1>0. n \in Nat /\ n # 0 /\ H \in Nat \ {0} /\ \A i \in 1..n : conv[i] \in Message
    BY EmptySeq, LenProperties, ElementOfSeq, GraphAssumption DEF Msgs
<1>1. CASE n <= H + 1
    BY <1>1 DEF Trim
<1>2. CASE ~(n <= H + 1)
    <2>1. recent \in Msgs /\ Len(recent) = H /\ recent[H] = conv[n]
        <3> HIDE DEF n, H
        <3>1. \A i \in (n - H + 1)..n : i \in 1..n /\ conv[i] \in Message
            BY <1>0, <1>2
        <3>2. /\ SubSeq(conv, n - H + 1, n) \in Seq(Message)
              /\ Len(SubSeq(conv, n - H + 1, n))
                    = IF n - H + 1 <= n THEN n - (n - H + 1) + 1 ELSE 0
              /\ \A i \in 1..(n - (n - H + 1) + 1) :
                    SubSeq(conv, n - H + 1, n)[i] = conv[(n - H + 1) + i - 1]
            BY <1>0, <3>1, SubSeqProperties
        <3>3. n - (n - H + 1) + 1 = H /\ n - H + 1 <= n /\ (n - H + 1) + H - 1 = n
            BY <1>0
        <3> QED BY <1>0, <3>2, <3>3 DEF Msgs
    <2> HIDE DEF recent, n
    <2>2. H \in I /\ I \subseteq Nat
        BY <1>0, <2>1 DEF n
    <2>3. first = Min(I)
        BY <2>2 DEF SelectInSeq
    <2>4. first \in I
        <3>1. \E i \in I : \A k \in I : i <= k
            <4> HIDE DEF I
            <4> QED BY <2>2, Least
        <3> HIDE DEF I
        <3> QED BY <2>3, <3>1 DEF Min
    <2> HIDE DEF first
    <2>5. first \in 1..H
        BY <2>1, <2>4
    <2>6. rest \in Msgs /\ Len(rest) = H - first + 1 /\ rest[H - first + 1] = conv[n]
        <3> HIDE DEF H
        <3>1. \A i \in first..H : recent[i] \in Message
            BY <1>0, <2>1, <2>5, ElementOfSeq DEF Msgs
        <3>2. /\ SubSeq(recent, first, H) \in Seq(Message)
              /\ Len(SubSeq(recent, first, H)) = IF first <= H THEN H - first + 1 ELSE 0
              /\ \A i \in 1..(H - first + 1) : SubSeq(recent, first, H)[i] = recent[first + i - 1]
            BY <1>0, <2>5, <3>1, SubSeqProperties
        <3>3. first <= H /\ H - first + 1 \in 1..(H - first + 1) /\ first + (H - first + 1) - 1 = H
            BY <1>0, <2>5
        <3>4. SubSeq(recent, first, H)[H - first + 1] = recent[H]
            BY <3>2, <3>3
        <3> QED BY <2>1, <3>2, <3>3, <3>4 DEF Msgs
    <2>7. H - first + 1 \in Nat /\ H - first + 1 # 0
        BY <1>0, <2>5
    <2> DEFINE one == <<conv[1]>>
               t == one \o rest
    <2>8. one \in Msgs /\ Len(one) = 1
        BY <1>0 DEF Msgs
    <2> HIDE DEF one, rest
    <2>9. /\ t \in Msgs /\ Len(t) = 1 + (H - first + 1)
          /\ \A i \in 1..(1 + (H - first + 1)) : t[i] = IF i <= 1 THEN one[i] ELSE rest[i - 1]
        <3>1. one \in Seq(Message) /\ rest \in Seq(Message)
            BY <2>6, <2>8 DEF Msgs
        <3>2. /\ t \in Seq(Message) /\ Len(t) = Len(one) + Len(rest)
              /\ \A i \in 1..(Len(one) + Len(rest)) : t[i] = IF i <= Len(one) THEN one[i] ELSE rest[i - Len(one)]
            BY <3>1, ConcatProperties
        <3> QED BY <2>6, <2>8, <3>2 DEF Msgs
    <2>10. LET k == 1 + (H - first + 1) IN k \in 1..k /\ ~(k <= 1) /\ k - 1 = H - first + 1 /\ k # 0
        BY <2>7
    <2> HIDE DEF t
    <2>11. t[Len(t)] = conv[n] /\ Len(t) # 0
        BY <2>6, <2>9, <2>10
    <2>12. first # 0
        BY <2>5
    <2>13. Trim(conv) = t
        BY <1>2, <2>12 DEF Trim, t, one, rest, n, recent, first
    <2> QED BY <2>9, <2>11, <2>13, EmptySeq DEF n
<1> QED BY <1>1, <1>2

Talk == {"tool", "assistant"}

\* _has_pending_tool_calls says no when the last tool message or assistant
\* message is a plain answer.
Settled(conv) == ~HasPendingToolCalls(conv)
LastTalk(conv, k) ==
    /\ k \in 1..Len(conv) /\ conv[k].role \in Talk
    /\ \A j \in (k + 1)..Len(conv) : conv[j].role \notin Talk

LEMMA SettledIs ==
    ASSUME NEW conv \in Msgs
    PROVE  Settled(conv) <=> \A k \in 1..Len(conv) :
                                LastTalk(conv, k) => conv[k].role # "tool" /\ conv[k].ids = {}
<1> DEFINE I == {i \in 1..Len(conv) : conv[i].role \in Talk}
           k == SelectLastInSeq(conv, LAMBDA m : m.role \in {"tool", "assistant"})
<1>0. Len(conv) \in Nat
    BY LenProperties DEF Msgs
<1>1. k = IF I # {} THEN Max(I) ELSE 0
    BY DEF SelectLastInSeq, Talk
<1>2. HasPendingToolCalls(conv) <=> k # 0 /\ (conv[k].role = "tool" \/ conv[k].ids # {})
    BY DEF HasPendingToolCalls
<1> HIDE DEF k
<1>3. CASE I = {}
    <2>1. k = 0 /\ \A i \in 1..Len(conv) : ~LastTalk(conv, i)
        BY <1>1, <1>3 DEF LastTalk
    <2> QED BY <1>2, <2>1 DEF Settled
<1>4. CASE I # {}
    <2>1. \E i \in I : \A j \in I : j <= i
        <3>1. I \subseteq 0..Len(conv)
            BY <1>0
        <3> HIDE DEF I
        <3> QED BY <1>0, <1>4, <3>1, Greatest
    <2>2. k \in I /\ \A j \in I : k >= j
        <3>1. \E i \in I : \A j \in I : i >= j
            BY <1>0, <2>1
        <3> HIDE DEF I
        <3> QED BY <1>1, <1>4, <3>1 DEF Max
    <2>3. LastTalk(conv, k) /\ k # 0
        <3> SUFFICES ASSUME NEW j \in (k + 1)..Len(conv), conv[j].role \in Talk PROVE FALSE
            BY <1>0, <2>2 DEF LastTalk
        <3>1. j \in I /\ ~(k >= j)
            BY <1>0, <2>2
        <3> QED BY <2>2, <3>1
    <2>4. \A i \in 1..Len(conv) : LastTalk(conv, i) => i = k
        <3> SUFFICES ASSUME NEW i \in 1..Len(conv), LastTalk(conv, i), i # k PROVE FALSE
            OBVIOUS
        <3>1. i \in I /\ k >= i
            BY <2>2 DEF LastTalk
        <3>2. k \in (i + 1)..Len(conv)
            BY <1>0, <2>2, <3>1
        <3> QED BY <2>2, <3>2 DEF LastTalk
    <2>5. k \in 1..Len(conv) /\ conv[k].role \in Talk
        BY <2>3 DEF LastTalk
    <2> QED BY <1>2, <2>3, <2>4, <2>5 DEF Settled
<1> QED BY <1>3, <1>4

\* An answer without tool calls settles a conversation.
LEMMA SettledAnswer ==
    ASSUME NEW conv \in Msgs, conv # <<>>, conv[Len(conv)].role = "assistant",
           conv[Len(conv)].ids = {}
    PROVE  Settled(conv)
<1>1. Len(conv) \in Nat /\ Len(conv) \in 1..Len(conv)
    BY EmptySeq, LenProperties DEF Msgs
<1>2. \A k \in 1..Len(conv) : LastTalk(conv, k) => k = Len(conv)
    <2> SUFFICES ASSUME NEW k \in 1..Len(conv), LastTalk(conv, k), k # Len(conv) PROVE FALSE
        OBVIOUS
    <2>1. Len(conv) \in (k + 1)..Len(conv)
        BY <1>1
    <2> QED BY <2>1 DEF LastTalk, Talk
<1> QED BY <1>2, SettledIs

\* It depends on roles and calls only, ...
LEMMA SettledSame ==
    ASSUME NEW a \in Msgs, NEW conv \in Msgs, Same(a, conv), Settled(conv)
    PROVE  Settled(a)
<1> SUFFICES ASSUME NEW k \in 1..Len(a), LastTalk(a, k) PROVE a[k].role # "tool" /\ a[k].ids = {}
    BY SettledIs
<1>1. k \in 1..Len(conv) /\ a[k].role = conv[k].role /\ a[k].ids = conv[k].ids
    BY DEF Same
<1>2. \A j \in (k + 1)..Len(conv) : j \in 1..Len(conv)
    BY LenProperties DEF Msgs
<1>3. LastTalk(conv, k)
    BY <1>1, <1>2 DEF LastTalk, Same
<1> QED BY <1>1, <1>3, SettledIs

\* ... and a message of the user or the system leaves it settled.
LEMMA SettledAppend ==
    ASSUME NEW conv \in Msgs, Settled(conv), NEW m \in Message, m.role \notin Talk
    PROVE  Settled(Append(conv, m))
<1> DEFINE a == Append(conv, m)
<1>1. /\ a \in Msgs /\ Len(a) = Len(conv) + 1 /\ Len(conv) \in Nat
      /\ \A i \in 1..Len(conv) : a[i] = conv[i]
      /\ a[Len(conv) + 1] = m
    BY AppendProperties, LenProperties DEF Msgs
<1> HIDE DEF a
<1>2. SUFFICES ASSUME NEW k \in 1..Len(a), LastTalk(a, k) PROVE a[k].role # "tool" /\ a[k].ids = {}
    BY <1>1, SettledIs DEF a
<1>3. k \in 1..Len(conv)
    BY <1>1, <1>2 DEF LastTalk
<1>4. LastTalk(conv, k)
    BY <1>1, <1>2, <1>3 DEF LastTalk
<1> QED BY <1>1, <1>2, <1>3, <1>4, SettledIs

\* Nothing is missing behind the last answer, so _fix_orphaned_tool_calls
\* leaves a settled conversation settled.
LEMMA SettledAfter ==
    ASSUME NEW conv \in Msgs, Settled(conv), NEW k \in 1..Len(conv), LastTalk(conv, k),
           NEW e \in k..Len(conv)
    PROVE  After(conv, e) = {}
<1>0. Len(conv) \in Nat /\ conv[k].role # "tool" /\ conv[k].ids = {}
    BY SettledIs, LenProperties DEF Msgs
<1> SUFFICES ASSUME NEW b \in 1..e, conv[b].role = "assistant", ToolsEnd(conv, b) = e
             PROVE  Unanswered(conv, b) = {}
    BY DEF After
<1>1. b \in 1..Len(conv) /\ \A j \in (b + 1)..e : conv[j].role = "tool"
    BY <1>0, ToolsEndIs
<1>2. ~(b < k)
    <2> SUFFICES ASSUME b < k PROVE FALSE
        OBVIOUS
    <2>1. k \in (b + 1)..e
        BY <1>0
    <2> QED BY <1>0, <1>1, <2>1
<1>3. ~(k < b)
    <2> SUFFICES ASSUME k < b PROVE FALSE
        OBVIOUS
    <2>1. b \in (k + 1)..Len(conv)
        BY <1>0, <1>1
    <2> QED BY <2>1 DEF LastTalk, Talk
<1>4. b = k
    BY <1>0, <1>2, <1>3
<1> QED BY <1>0, <1>4 DEF Unanswered

LEMMA SettledFix ==
    ASSUME NEW conv \in Msgs, Settled(conv)
    PROVE  Settled(FixOrphaned(conv))
<1> DEFINE n == Len(conv)
           p == Parts(conv)
<1>0. n \in Nat /\ FixOrphaned(conv) \in Msgs
    BY LenProperties, FixType DEF Msgs
<1>1. p \in Seq(Seq(Message)) /\ Len(p) = n
    BY PartsType DEF Msgs
<1>2. CASE \A k \in 1..n : ~LastTalk(conv, k)
    <2>1. \A i \in 1..n : conv[i].role \notin Talk
        <3> DEFINE I == {i \in 1..n : conv[i].role \in Talk}
        <3> SUFFICES ASSUME I # {} PROVE FALSE
            OBVIOUS
        <3>1. I \subseteq 0..n
            BY <1>0
        <3>2. PICK k \in I : \A j \in I : j <= k
            <4> HIDE DEF I
            <4> QED BY <1>0, <3>1, Greatest
        <3>3. \A j \in (k + 1)..n : j \notin I
            BY <1>0, <3>2
        <3>4. LastTalk(conv, k)
            BY <1>0, <3>3 DEF LastTalk
        <3> QED BY <1>2, <3>4
    <2>2. ASSUME NEW e \in 1..n PROVE After(conv, e) = {}
        <3>1. \A b \in 1..e : b \in 1..n
            BY <1>0
        <3> QED BY <2>1, <3>1 DEF After, Talk
    <2>3. ASSUME NEW i \in (0 + 1)..n PROVE p[i] = <<conv[i]>>
        BY <2>2, PartSingle
    <2> HIDE DEF p, n
    <2>4. FlattenSeq(p) = FlattenSeq(SubSeq(p, 1, 0)) \o SubSeq(conv, 0 + 1, Len(conv))
        <3>1. 0 \in 0..Len(conv) /\ Len(p) = Len(conv) /\ conv \in Seq(Message)
            BY <1>0, <1>1 DEF n, Msgs
        <3>2. \A i \in (0 + 1)..Len(conv) : p[i] = <<conv[i]>>
            BY <2>3 DEF n
        <3> QED BY <1>1, <3>1, <3>2, FlattenSingles
    <2>5. SubSeq(p, 1, 0) = <<>> /\ SubSeq(conv, 1, Len(conv)) = conv /\ <<>> \o conv = conv
        BY SubSeqEmpty, SubSeqFull, ConcatEmptySeq DEF Msgs
    <2>6. FlattenSeq(p) = conv
        <3>1. 0 + 1 = 1
            OBVIOUS
        <3> QED BY <2>4, <2>5, <3>1, FlattenEmpty
    <2> QED BY <2>6, FixIs DEF p
<1>3. ASSUME NEW k \in 1..n, LastTalk(conv, k) PROVE Settled(FixOrphaned(conv))
    <2>0. conv[k].role \in Talk /\ conv[k].role # "tool" /\ conv[k].ids = {}
        BY <1>3, SettledIs DEF LastTalk
    <2> DEFINE j == k - 1
               x == FlattenSeq(SubSeq(p, 1, j))
               t == SubSeq(conv, j + 1, n)
               r == x \o t
    <2>1. j \in 0..n /\ j \in Nat /\ j + 1 = k
        BY <1>0
    <2>2. ASSUME NEW i \in (j + 1)..n PROVE p[i] = <<conv[i]>>
        <3>1. i \in k..Len(conv) /\ i \in 1..Len(conv)
            BY <1>0, <2>1
        <3>2. After(conv, i) = {}
            BY <1>3, <3>1, SettledAfter
        <3> QED BY <3>1, <3>2, PartSingle
    <2>3. t \in Msgs /\ Len(t) = n - j /\ \A i \in 1..(n - j) : t[i] = conv[j + i]
        <3>1. \A i \in (j + 1)..n : conv[i] \in Message
            BY <1>0, ElementOfSeq DEF Msgs
        <3> HIDE DEF j, n
        <3>2. /\ SubSeq(conv, j + 1, n) \in Seq(Message)
              /\ Len(SubSeq(conv, j + 1, n)) = IF j + 1 <= n THEN n - (j + 1) + 1 ELSE 0
              /\ \A i \in 1..(n - (j + 1) + 1) : SubSeq(conv, j + 1, n)[i] = conv[(j + 1) + i - 1]
            BY <1>0, <2>1, <3>1, SubSeqProperties
        <3>3. n - (j + 1) + 1 = n - j
            BY <1>0, <2>1
        <3>4. Len(SubSeq(conv, j + 1, n)) = n - j
            BY <1>0, <2>1, <3>2
        <3>5. \A i \in 1..(n - j) : (j + 1) + i - 1 = j + i
            BY <2>1
        <3> QED BY <3>2, <3>3, <3>4, <3>5 DEF Msgs
    <2> HIDE DEF p, n, j
    <2>4. FlattenSeq(p) = r
        <3>1. j \in 0..Len(conv) /\ Len(p) = Len(conv) /\ conv \in Seq(Message)
            BY <1>1, <2>1 DEF n, Msgs
        <3>2. \A i \in (j + 1)..Len(conv) : p[i] = <<conv[i]>>
            BY <2>2 DEF n
        <3> QED BY <1>1, <3>1, <3>2, FlattenSingles DEF n
    <2>5. x \in Msgs
        <3>1. SubSeq(p, 1, j) \in Seq(Seq(Message))
            BY <1>0, <1>1, <2>1, SubSeqProperties, ElementOfSeq
        <3> QED BY <3>1, FlattenType DEF Msgs
    <2> HIDE DEF x, t
    <2>6. /\ r \in Msgs /\ Len(r) = Len(x) + (n - j) /\ Len(x) \in Nat
          /\ \A i \in 1..(Len(x) + (n - j)) : r[i] = IF i <= Len(x) THEN x[i] ELSE t[i - Len(x)]
        <3>1. x \in Seq(Message) /\ t \in Seq(Message) /\ Len(x) \in Nat
            BY <2>3, <2>5, LenProperties DEF Msgs
        <3>2. /\ r \in Seq(Message) /\ Len(r) = Len(x) + Len(t)
              /\ \A i \in 1..(Len(x) + Len(t)) : r[i] = IF i <= Len(x) THEN x[i] ELSE t[i - Len(x)]
            BY <3>1, ConcatProperties
        <3> QED BY <2>3, <3>1, <3>2 DEF Msgs
    <2> HIDE DEF r
    <2> DEFINE q == Len(x) + 1
    <2>7. q \in 1..Len(r) /\ r[q] = conv[k]
        BY <1>0, <2>1, <2>3, <2>6
    <2>8. ASSUME NEW i \in (q + 1)..Len(r) PROVE r[i].role \notin Talk
        <3>1. i - Len(x) \in 1..(n - j) /\ r[i] = t[i - Len(x)]
            BY <1>0, <2>1, <2>6
        <3>2. r[i] = conv[j + (i - Len(x))]
            BY <2>3, <3>1
        <3>3. j + (i - Len(x)) \in (k + 1)..Len(conv)
            BY <1>0, <2>1, <2>6, <3>1 DEF n
        <3> QED BY <1>3, <3>2, <3>3 DEF LastTalk
    <2>9. ASSUME NEW i \in 1..Len(r), LastTalk(r, i) PROVE i = q
        <3>1. ~(i > q)
            <4> SUFFICES ASSUME i > q PROVE FALSE
                OBVIOUS
            <4>1. i \in (q + 1)..Len(r)
                BY <2>6, <2>7
            <4> QED BY <2>8, <2>9, <4>1 DEF LastTalk
        <3>2. ~(i < q)
            <4> SUFFICES ASSUME i < q PROVE FALSE
                OBVIOUS
            <4>1. q \in (i + 1)..Len(r)
                BY <2>6, <2>7
            <4> QED BY <2>0, <2>7, <2>9, <4>1 DEF LastTalk
        <3> QED BY <2>6, <3>1, <3>2
    <2>10. Settled(r)
        <3> HIDE DEF q
        <3> QED BY <2>0, <2>6, <2>7, <2>9, SettledIs
    <2> QED BY <2>4, <2>10, FixIs DEF p
<1> QED BY <1>2, <1>3
-----------------------------------------------------------------------------
(* Type correctness, and where react_node stands.                          *)

Resps == Inputs \cup {""}
Replied == {"", "N", "other", "unasked"}
Sends == {"nothing", "answer", "prompt", "lost answer", "lost prompt", "error"}
Faults == [error : 0..MaxErrors, send : 0..MaxErrors, restart : 0..MaxRestarts, cut : BOOLEAN]
Channels == [msgs : Msgs, pending : Pending, resp : Resps, confirms : Nat,
             complete : BOOLEAN, final : BOOLEAN, photo : 0..MaxTurns]
Sessions == [fresh : BOOLEAN, pending : Pending, resp : Resps, confirms : Nat,
             complete : BOOLEAN, final : BOOLEAN, photo : 0..MaxTurns]
Runs == [at : {"start", "llm", "tools"}, conv : Msgs, round : 0..(MAX_TOOL_ROUNDS + 1),
         todo : Seq(CallIds), confirms : Nat, shown : 0..MaxTurns]

\* react_node runs only while a message is handled and its node is next, and no
\* more than MAX_TOOL_ROUNDS rounds of tools.
RunAt ==
    /\ run.at = "start" => run = Idle
    /\ run.at # "start" => busy /\ next = "react" /\ run.round >= 1
    /\ run.at = "tools" => run.round <= MAX_TOOL_ROUNDS
    /\ run.at = "llm" => run.todo = <<>>

Types == TypeOK /\ RunAt

LEMMA Bounds ==
    /\ MAX_TOOL_ROUNDS \in Nat \ {0} /\ MAX_HISTORY \in Nat \ {0} /\ MaxTurns \in Nat
    /\ MaxCalls \in Nat /\ MaxBatch \in Nat /\ MaxErrors \in Nat /\ MaxRestarts \in Nat
BY GraphAssumption

LEMMA Texts == "" \notin Inputs /\ "absent" \notin Resps
BY GraphAssumption DEF Resps

LEMMA TypeIs ==
    TypeOK <=> /\ busy \in BOOLEAN /\ resumed \in BOOLEAN /\ text \in Resps
               /\ next \in {"end", "classify", "handle_meta", "handle_confirm", "react", "wait_user"}
               /\ chan \in Channels /\ run \in Runs /\ (sess = NoSession \/ sess \in Sessions)
               /\ sent \in Sends
               /\ turns \in 0..MaxTurns /\ calls \in 0..MaxCalls
               /\ faults \in Faults
               /\ prompts \in Nat /\ rounds \in Nat
               /\ reply \in [CallIds -> Replied] /\ ran \in [CallIds -> Nat]
BY DEF TypeOK, Channels, Runs, Sessions, Resps, Replied, Sends, Faults, Msgs

\* A few records of the code.
LEMMA Constants ==
    /\ NoPending \in Pending /\ NoPending.call = 0 /\ Idle \in Runs /\ EmptyChannels \in Channels
    /\ NewState \in Sessions /\ NoSession \notin Sessions /\ Idle.at = "start"
<1>1. <<>> \in Msgs /\ <<>> \in Seq(CallIds) /\ 0 \in 0..MaxTurns /\ 0 \in 0..(MAX_TOOL_ROUNDS + 1)
    <2>1. 0 \in 0..MaxTurns /\ 0 \in 0..(MAX_TOOL_ROUNDS + 1)
        BY Bounds
    <2> QED BY <2>1, EmptySeq DEF Msgs
<1>2. NoPending \in Pending /\ NoPending.call = 0
    BY DEF Pending, NoPending
<1>3. "" \in Resps
    BY DEF Resps
<1>4. Idle \in Runs /\ Idle.at = "start"
    BY <1>1 DEF Idle, Runs
<1>5. EmptyChannels \in Channels /\ NewState \in Sessions
    BY <1>1, <1>2, <1>3 DEF EmptyChannels, NewState, Channels, Sessions
<1>6. NoSession \notin Sessions
    BY Texts DEF NoSession, Sessions
<1> QED BY <1>2, <1>4, <1>5, <1>6

LEMMA InitType == Init => Types
<1> SUFFICES ASSUME Init PROVE Types
    OBVIOUS
<1>1. chan \in Channels /\ run \in Runs /\ run.at = "start" /\ run = Idle /\ sess = NoSession
    BY Constants DEF Init
<1>2. RunAt
    BY <1>1 DEF RunAt
<1>3. TypeOK
    <2>1. turns \in 0..MaxTurns /\ calls \in 0..MaxCalls /\ prompts \in Nat /\ rounds \in Nat
        <3>1. turns = 0 /\ calls = 0 /\ prompts = 0 /\ rounds = 0
            BY DEF Init
        <3> QED BY <3>1, Bounds
    <2>2. faults \in Faults
        <3>1. faults = [error |-> 0, send |-> 0, restart |-> 0, cut |-> FALSE]
            BY DEF Init
        <3> QED BY <3>1, Bounds DEF Faults
    <2>3. reply \in [CallIds -> Replied] /\ ran \in [CallIds -> Nat]
        BY DEF Init, Replied
    <2>4. busy \in BOOLEAN /\ resumed \in BOOLEAN /\ text \in Resps /\ next = "end" /\ sent \in Sends
        BY DEF Init, Resps, Sends
    <2> QED BY <1>1, <2>1, <2>2, <2>3, <2>4, TypeIs
<1> QED BY <1>2, <1>3 DEF Types

\* What a turn starts from.
Old       == IF sess = NoSession THEN NewState ELSE sess
Start     == StartingState(Old)
WithPhoto(st, t, n) == [st EXCEPT !.photo = IF t = "photo" THEN n ELSE @]

LEMMA StartType ==
    ASSUME TypeOK
    PROVE  Old \in Sessions /\ Start \in Sessions
BY TypeIs, Constants DEF Old, Start, StartingState

LEMMA PhotoType ==
    ASSUME NEW st \in Sessions, NEW t, NEW n \in 0..MaxTurns
    PROVE  /\ WithPhoto(st, t, n) \in Sessions
           /\ WithPhoto(st, t, n).photo = IF t = "photo" THEN n ELSE st.photo
           /\ WithPhoto(st, t, n).complete = st.complete /\ WithPhoto(st, t, n).pending = st.pending
           /\ WithPhoto(st, t, n).resp = st.resp /\ WithPhoto(st, t, n).confirms = st.confirms
           /\ WithPhoto(st, t, n).final = st.final /\ WithPhoto(st, t, n).fresh = st.fresh
BY DEF WithPhoto, Sessions

\* Invoke, in the terms above.
LEMMA InvokeIs ==
    ASSUME Invoke
    PROVE  LET msgs == IF Start.fresh THEN AddMessages(chan.msgs, <<SystemMsg>>) ELSE chan.msgs
           IN  /\ ~busy /\ next # "wait_user" /\ turns < MaxTurns
               /\ text' \in Inputs /\ turns' = turns + 1
               /\ chan' = [msgs |-> msgs, pending |-> Start.pending, resp |-> Start.resp,
                           confirms |-> Start.confirms, complete |-> Start.complete,
                           final |-> Start.final, photo |-> WithPhoto(Start, text', turns').photo]
               /\ sess' = IF Start = Old THEN WithPhoto(Old, text', turns') ELSE Old
               /\ prompts' = IF Start = NewState THEN 0 ELSE prompts
               /\ rounds' = IF Start = NewState THEN 0 ELSE rounds
               /\ busy' = TRUE /\ sent' = "nothing" /\ next' = "classify" /\ resumed' = FALSE
               /\ UNCHANGED <<run, calls, faults, reply, ran>>
BY DEF Invoke, WithMedia, WithPhoto, Start, Old

LEMMA SystemType == SystemMsg \in Message /\ SystemMsg.role = "system" /\ SystemMsg.mid = 0
BY MsgType DEF SystemMsg

\* The conversation react_node starts with.
Fixed    == FixOrphaned(chan.msgs)
Resuming == chan.pending = NoPending /\ HasPendingToolCalls(Fixed)
UserMsg  == UserMessage(Fixed)

LEMMA ReactStartIs ==
    ASSUME ReactStart
    PROVE  /\ busy /\ next = "react" /\ run.at = "start"
           /\ run' = [Idle EXCEPT !.at = "llm", !.round = 1, !.confirms = chan.confirms,
                          !.conv = IF Resuming THEN Fixed ELSE Append(Fixed, UserMsg),
                          !.shown = IF Resuming THEN 0 ELSE chan.photo]
           /\ UNCHANGED <<busy, resumed, text, next, chan, sess, sent, turns, calls, faults,
                          prompts, rounds, reply, ran>>
BY DEF ReactStart, Fixed, Resuming, UserMsg

LEMMA FixedType ==
    ASSUME TypeOK
    PROVE  Fixed \in Msgs /\ UserMsg \in Message /\ Append(Fixed, UserMsg) \in Msgs
           /\ UserMsg.role = "user" /\ UserMsg.ids = {turns} /\ UserMsg.mid = 0
<1>1. Fixed \in Msgs
    BY TypeIs, FixType DEF Fixed, Channels
<1>2. {turns} \in SUBSET Ids
    <2>1. turns \in 0..MaxTurns
        BY TypeIs
    <2> QED BY <2>1, Bounds DEF Ids
<1>3. UserMsg \in Message /\ UserMsg.role = "user" /\ UserMsg.ids = {turns} /\ UserMsg.mid = 0
    <2> DEFINE pics == IF chan.photo = 0 THEN RecentImageContext(Fixed)
                       ELSE IF VisionModel THEN {chan.photo} ELSE {}
               m == Msg("user", {turns})
    <2>1. RecentImageContext(Fixed) \subseteq 0..MaxTurns
        <3>1. \A k \in DOMAIN Fixed : Fixed[k].pics \subseteq 0..MaxTurns
            <4>1. \A k \in DOMAIN Fixed : Fixed[k] \in Message
                BY <1>1, ElementOfSeq, LenProperties DEF Msgs
            <4> QED BY <4>1 DEF Message
        <3> QED BY <3>1 DEF RecentImageContext
    <2>2. pics \subseteq 0..MaxTurns
        BY <2>1, TypeIs DEF Channels
    <2>3. m \in Message /\ m.role = "user" /\ m.ids = {turns} /\ m.mid = 0
        BY <1>2, MsgType
    <2>4. UserMsg = [m EXCEPT !.pics = pics]
        BY DEF UserMsg, UserMessage
    <2> HIDE DEF pics, m
    <2> QED BY <2>2, <2>3, <2>4 DEF Message
<1>4. Append(Fixed, UserMsg) \in Msgs
    BY <1>1, <1>3, AppendProperties DEF Msgs
<1> QED BY <1>1, <1>3, <1>4

\* The conversation with the model's answer.
Asked  == IF run.round <= MAX_TOOL_ROUNDS THEN run.conv ELSE Append(run.conv, Msg("user", {}))
Answer == Append(Asked, Msg("assistant", {}))

LEMMA AnswerType ==
    ASSUME TypeOK
    PROVE  /\ Asked \in Msgs /\ Answer \in Msgs /\ Answer # <<>>
           /\ Answer[Len(Answer)] = Msg("assistant", {})
           /\ Trim(Answer) \in Msgs /\ Trim(Answer) # <<>>
           /\ Trim(Answer)[Len(Trim(Answer))] = Msg("assistant", {})
           /\ AddMessages(chan.msgs, Trim(Answer)) \in Msgs
<1>1. run.conv \in Msgs /\ chan.msgs \in Msgs
    BY TypeIs DEF Runs, Channels
<1>2. /\ Msg("user", {}) \in Message
      /\ Msg("assistant", {}) \in Message /\ Msg("assistant", {}).role = "assistant"
    BY MsgType
<1>3. Asked \in Msgs
    <2>1. Append(run.conv, Msg("user", {})) \in Msgs
        BY <1>1, <1>2, AppendProperties DEF Msgs
    <2> QED BY <1>1, <2>1 DEF Asked
<1>4. Answer \in Msgs /\ Answer # <<>> /\ Answer[Len(Answer)] = Msg("assistant", {})
    <2>1. /\ Answer \in Msgs /\ Answer # <<>> /\ Len(Answer) = Len(Asked) + 1
          /\ Answer[Len(Asked) + 1] = Msg("assistant", {})
        BY <1>2, <1>3, AppendProperties DEF Msgs, Answer
    <2> QED BY <2>1
<1>5. /\ Trim(Answer) \in Msgs /\ Trim(Answer) # <<>>
      /\ Trim(Answer)[Len(Trim(Answer))] = Msg("assistant", {})
    <2>1. Answer[Len(Answer)].role # "tool"
        BY <1>2, <1>4
    <2> QED BY <1>4, <2>1, TrimIs
<1> QED BY <1>1, <1>3, <1>4, <1>5, AddType

LEMMA ModelTextIs ==
    ASSUME ModelText
    PROVE  /\ busy /\ run.at = "llm"
           /\ chan' = [chan EXCEPT !.msgs = AddMessages(@, Trim(Answer)), !.final = TRUE,
                                   !.complete = TRUE, !.confirms = run.confirms]
           /\ faults' = [faults EXCEPT !.cut = @ \/ Trim(Answer) # Answer]
           /\ next' = IF chan.pending = NoPending THEN "end" ELSE "wait_user"
           /\ run' = Idle
           /\ UNCHANGED <<busy, resumed, text, sess, sent, turns, calls, prompts, rounds,
                          reply, ran>>
BY DEF ModelText, FinishReact, Answer, Asked

\* The calls of a batch.
LEMMA BatchType ==
    ASSUME TypeOK, NEW n \in 1..MaxBatch, calls + n <= MaxCalls
    PROVE  LET m == Msg("assistant", (calls + 1)..(calls + n))
               todo == [i \in 1..n |-> calls + i]
           IN  /\ m \in Message /\ m.role = "assistant" /\ m.ids = (calls + 1)..(calls + n)
               /\ m.mid = 0
               /\ todo \in Seq(CallIds) /\ Append(run.conv, m) \in Msgs
<1>1. calls \in Nat /\ n \in Nat /\ run.conv \in Msgs
    BY TypeIs DEF Runs
<1>2. (calls + 1)..(calls + n) \in SUBSET Ids
    <2> SUFFICES ASSUME NEW c \in (calls + 1)..(calls + n) PROVE c \in Ids
        OBVIOUS
    <2>1. MaxTurns \in Nat /\ MaxCalls \in Nat
        BY Bounds
    <2> QED BY <1>1, <2>1 DEF Ids
<1>3. [i \in 1..n |-> calls + i] \in [1..n -> CallIds]
    <2> SUFFICES ASSUME NEW i \in 1..n PROVE calls + i \in CallIds
        OBVIOUS
    <2>1. MaxCalls \in Nat
        BY Bounds
    <2> QED BY <1>1, <2>1 DEF CallIds
<1>4. [i \in 1..n |-> calls + i] \in Seq(CallIds)
    BY <1>1, <1>3
<1> DEFINE m == Msg("assistant", (calls + 1)..(calls + n))
<1>5. m \in Message /\ m.role = "assistant" /\ m.ids = (calls + 1)..(calls + n) /\ m.mid = 0
    BY <1>2, MsgType
<1> HIDE DEF m
<1>6. Append(run.conv, m) \in Msgs
    BY <1>1, <1>5, AppendProperties DEF Msgs
<1> QED BY <1>4, <1>5, <1>6 DEF m

\* The result of the next call of a batch.
LEMMA ResultType ==
    ASSUME TypeOK, run.todo # <<>>
    PROVE  LET m == ToolMsg(Head(run.todo))
           IN  /\ Head(run.todo) \in CallIds /\ Tail(run.todo) \in Seq(CallIds)
               /\ m \in Message /\ m.role = "tool" /\ m.ids = {Head(run.todo)} /\ m.mid = 0
               /\ Append(run.conv, m) \in Msgs
<1>1. run.todo \in Seq(CallIds) /\ run.conv \in Msgs
    BY TypeIs DEF Runs
<1>2. Head(run.todo) \in CallIds /\ Tail(run.todo) \in Seq(CallIds)
    BY <1>1, HeadTailProperties
<1> DEFINE c == Head(run.todo)
           m == ToolMsg(c)
<1> HIDE DEF c
<1>3. {c} \in SUBSET Ids
    <2>1. c \in CallIds /\ MaxTurns \in Nat /\ MaxCalls \in Nat
        BY <1>2, Bounds DEF c
    <2> QED BY <2>1 DEF Ids, CallIds
<1>4. m \in Message /\ m.role = "tool" /\ m.ids = {c} /\ m.mid = 0
    BY <1>3, MsgType DEF ToolMsg
<1> HIDE DEF m
<1>5. Append(run.conv, m) \in Msgs
    BY <1>1, <1>4, AppendProperties DEF Msgs
<1> QED BY <1>2, <1>4, <1>5 DEF m, c

\* The message handle_confirm_node adds.
LEMMA ConfirmType ==
    ASSUME TypeOK
    PROVE  LET m == ToolMsg(chan.pending.call)
           IN  /\ m \in Message /\ m.role = "tool" /\ m.ids = {chan.pending.call} /\ m.mid = 0
               /\ AddMessages(chan.msgs, <<m>>) \in Msgs
<1>1. chan.msgs \in Msgs /\ chan.pending \in Pending
    BY TypeIs DEF Channels
<1> DEFINE c == chan.pending.call
           m == ToolMsg(c)
<1> HIDE DEF c
<1>2. {c} \in SUBSET Ids
    <2>1. c \in 0..MaxCalls
        <3>1. c = 0 \/ c \in CallIds
            BY <1>1 DEF Pending, NoPending, c
        <3> QED BY <3>1, Bounds DEF CallIds
    <2>2. MaxTurns \in Nat /\ MaxCalls \in Nat
        BY Bounds
    <2> QED BY <2>1, <2>2 DEF Ids
<1>3. m \in Message /\ m.role = "tool" /\ m.ids = {c} /\ m.mid = 0
    BY <1>2, MsgType DEF ToolMsg
<1> HIDE DEF m
<1>4. <<m>> \in Msgs
    BY <1>3 DEF Msgs
<1>5. AddMessages(chan.msgs, <<m>>) \in Msgs
    BY <1>1, <1>4, AddType
<1> QED BY <1>3, <1>5 DEF m, c

\* Every step keeps the types.
LEMMA StepTypeOK == Types /\ [Next]_vars => TypeOK'
<1> SUFFICES ASSUME Types, [Next]_vars PROVE TypeOK'
    OBVIOUS
<1> DEFINE Goal == /\ busy' \in BOOLEAN /\ resumed' \in BOOLEAN /\ text' \in Resps
               /\ next' \in {"end", "classify", "handle_meta", "handle_confirm", "react", "wait_user"}
               /\ chan' \in Channels /\ run' \in Runs /\ (sess' = NoSession \/ sess' \in Sessions)
               /\ sent' \in Sends
               /\ turns' \in 0..MaxTurns /\ calls' \in 0..MaxCalls
               /\ faults' \in Faults
               /\ prompts' \in Nat /\ rounds' \in Nat
               /\ reply' \in [CallIds -> Replied] /\ ran' \in [CallIds -> Nat]
<1>0. Goal => TypeOK'
    BY DEF TypeOK, Channels, Runs, Sessions, Resps, Replied, Sends, Faults, Msgs
<1>1. /\ TypeOK /\ RunAt
      /\ busy \in BOOLEAN /\ resumed \in BOOLEAN /\ text \in Resps
      /\ next \in {"end", "classify", "handle_meta", "handle_confirm", "react", "wait_user"}
      /\ chan \in Channels /\ run \in Runs /\ (sess = NoSession \/ sess \in Sessions)
      /\ sent \in Sends
      /\ turns \in 0..MaxTurns /\ calls \in 0..MaxCalls
      /\ faults \in Faults
      /\ prompts \in Nat /\ rounds \in Nat
      /\ reply \in [CallIds -> Replied] /\ ran \in [CallIds -> Nat]
    BY TypeIs DEF Types
<1>2. \A t \in Inputs : t \in Resps
    BY DEF Resps
<1>3. turns < MaxTurns => turns + 1 \in 0..MaxTurns
    BY <1>1, Bounds
<1>4. ASSUME Resume PROVE Goal
    <2>1. PICK t \in Inputs, a \in Replied \ {""} :
                 /\ text' = t /\ chan' = [chan EXCEPT !.resp = t]
                 /\ reply' = [reply EXCEPT ![chan.pending.call] = a]
        BY <1>4 DEF Resume, Replied
    <2>2. chan' \in Channels
        BY <1>1, <1>2, <2>1 DEF Channels
    <2>3. reply' \in [CallIds -> Replied]
        BY <1>1, <1>2, <2>1
    <2> QED BY <1>1, <1>2, <1>3, <1>4, <2>1, <2>2, <2>3 DEF Resume, Sends
<1>5. ASSUME Invoke PROVE Goal
    <2>1. Old \in Sessions /\ Start \in Sessions /\ turns' \in 0..MaxTurns
        BY <1>1, <1>3, <1>5, StartType, InvokeIs
    <2>2. WithPhoto(Old, text', turns') \in Sessions /\ WithPhoto(Start, text', turns') \in Sessions
        BY <2>1, PhotoType
    <2>3. chan' \in Channels
        <3> DEFINE msgs == IF Start.fresh THEN AddMessages(chan.msgs, <<SystemMsg>>) ELSE chan.msgs
                   photo == WithPhoto(Start, text', turns').photo
        <3>1. msgs \in Msgs
            <4>1. chan.msgs \in Msgs /\ <<SystemMsg>> \in Msgs
                BY <1>1, SystemType DEF Channels, Msgs
            <4> QED BY <4>1, AddType
        <3>2. photo \in 0..MaxTurns
            BY <2>2 DEF Sessions
        <3>3. chan' = [msgs |-> msgs, pending |-> Start.pending, resp |-> Start.resp,
                       confirms |-> Start.confirms, complete |-> Start.complete,
                       final |-> Start.final, photo |-> photo]
            BY <1>5, InvokeIs
        <3> HIDE DEF msgs, photo
        <3> QED BY <2>1, <3>1, <3>2, <3>3 DEF Channels, Sessions
    <2>4. sess' \in Sessions
        BY <1>5, <2>1, <2>2, InvokeIs
    <2>5. /\ busy' = TRUE /\ sent' = "nothing" /\ next' = "classify" /\ resumed' = FALSE
          /\ UNCHANGED <<run, calls, faults, reply, ran>> /\ text' \in Resps
        BY <1>2, <1>5, InvokeIs
    <2>6. prompts' \in Nat /\ rounds' \in Nat
        BY <1>1, <1>5, InvokeIs
    <2> QED BY <1>1, <2>1, <2>3, <2>4, <2>5, <2>6 DEF Sends
<1>6. ASSUME Classify PROVE Goal
    <2>1. next' \in {"end", "classify", "handle_meta", "handle_confirm", "react", "wait_user"}
        BY <1>6 DEF Classify, Route
    <2> QED BY <1>1, <1>6, <2>1 DEF Classify
<1>7. ASSUME HandleMeta PROVE Goal
    <2>1. chan' \in Channels
        BY <1>1, <1>7, Constants DEF HandleMeta, Channels, Resps
    <2> QED BY <1>1, <1>7, <2>1 DEF HandleMeta
<1>8. ASSUME HandleConfirm PROVE Goal
    <2> DEFINE p == chan.pending
               did == IF p.call = 0 THEN ran ELSE [ran EXCEPT ![p.call] = @ + 1]
               msgs == IF p.kind \in {"direct", "again"}
                       THEN AddMessages(chan.msgs, <<ToolMsg(p.call)>>) ELSE chan.msgs
    <2>1. msgs \in Msgs
        BY <1>1, ConfirmType DEF Channels
    <2>2. did \in [CallIds -> Nat]
        <3> DEFINE x == p.call
        <3>1. x \in CallIds => ran[x] + 1 \in Nat
            BY <1>1
        <3>2. did = IF x = 0 THEN ran ELSE [ran EXCEPT ![x] = ran[x] + 1]
            OBVIOUS
        <3> HIDE DEF x, did
        <3> QED BY <1>1, <3>1, <3>2
    <2>3. ran' \in {did, ran}
        BY <1>8 DEF HandleConfirm
    <2>4. chan' = [chan EXCEPT !.msgs = msgs, !.pending = NoPending, !.resp = ""]
        BY <1>8 DEF HandleConfirm
    <2> HIDE DEF msgs, did
    <2>5. chan' \in Channels
        BY <1>1, <2>1, <2>4, Constants DEF Channels, Resps
    <2>6. ran' \in [CallIds -> Nat]
        BY <1>1, <2>2, <2>3
    <2> QED BY <1>1, <1>8, <2>5, <2>6 DEF HandleConfirm
<1>9. ASSUME ReactStart PROVE Goal
    <2> DEFINE conv == IF Resuming THEN Fixed ELSE Append(Fixed, UserMsg)
               shown == IF Resuming THEN 0 ELSE chan.photo
    <2>1. conv \in Msgs
        BY <1>1, FixedType
    <2>2. shown \in 0..MaxTurns /\ chan.confirms \in Nat /\ 1 \in 0..(MAX_TOOL_ROUNDS + 1)
        BY <1>1, Bounds DEF Channels
    <2>3. run' = [Idle EXCEPT !.at = "llm", !.round = 1, !.confirms = chan.confirms,
                          !.conv = conv, !.shown = shown]
        BY <1>9, ReactStartIs
    <2> HIDE DEF conv, shown
    <2>4. run' \in Runs
        BY <2>1, <2>2, <2>3, Constants DEF Runs
    <2> QED BY <1>1, <1>9, <2>4, ReactStartIs
<1>10. ASSUME ModelText PROVE Goal
    <2> DEFINE msgs == AddMessages(chan.msgs, Trim(Answer))
    <2>1. msgs \in Msgs /\ run.confirms \in Nat
        BY <1>1, AnswerType DEF Runs
    <2>2. chan' = [chan EXCEPT !.msgs = msgs, !.final = TRUE, !.complete = TRUE,
                               !.confirms = run.confirms]
        BY <1>10, ModelTextIs
    <2> HIDE DEF msgs
    <2>3. chan' \in Channels
        BY <1>1, <2>1, <2>2 DEF Channels
    <2>4. faults' \in Faults
        <3> DEFINE cut == faults.cut \/ Trim(Answer) # Answer
        <3>1. cut \in BOOLEAN
            OBVIOUS
        <3>2. faults' = [faults EXCEPT !.cut = cut]
            BY <1>10, ModelTextIs
        <3> HIDE DEF cut
        <3> QED BY <1>1, <3>1, <3>2 DEF Faults
    <2>5. run' \in Runs /\ next' \in {"end", "wait_user"}
        BY <1>10, ModelTextIs, Constants
    <2>6. UNCHANGED <<busy, resumed, text, sess, sent, turns, calls, prompts, rounds, reply, ran>>
        BY <1>10, ModelTextIs
    <2> QED BY <1>1, <2>3, <2>4, <2>5, <2>6
<1>11. ASSUME ModelTools PROVE Goal
    <2>1. PICK n \in 1..MaxBatch :
              /\ calls + n <= MaxCalls /\ calls' = calls + n
              /\ run' = [run EXCEPT !.at = "tools",
                            !.conv = Append(@, Msg("assistant", (calls + 1)..(calls + n))),
                            !.todo = [i \in 1..n |-> calls + i]]
        BY <1>11 DEF ModelTools
    <2> DEFINE conv == Append(run.conv, Msg("assistant", (calls + 1)..(calls + n)))
               todo == [i \in 1..n |-> calls + i]
    <2>2. conv \in Msgs /\ todo \in Seq(CallIds)
        BY <1>1, <2>1, BatchType
    <2>3. run' = [run EXCEPT !.at = "tools", !.conv = conv, !.todo = todo]
        BY <2>1
    <2> HIDE DEF conv, todo
    <2>4. run' \in Runs
        BY <1>1, <2>2, <2>3 DEF Runs
    <2>5. calls' \in 0..MaxCalls /\ rounds' \in Nat
        BY <1>1, <1>11, <2>1, Bounds DEF ModelTools
    <2> QED BY <1>1, <1>11, <2>4, <2>5 DEF ModelTools
<1>12. ASSUME RunTool PROVE Goal
    <2> DEFINE conv == Append(run.conv, ToolMsg(Head(run.todo)))
               todo == Tail(run.todo)
    <2>1. conv \in Msgs /\ todo \in Seq(CallIds)
        BY <1>1, <1>12, ResultType DEF RunTool
    <2>2. run' = [run EXCEPT !.conv = conv, !.todo = todo]
        BY <1>12 DEF RunTool
    <2> HIDE DEF conv, todo
    <2>3. run' \in Runs
        BY <1>1, <2>1, <2>2 DEF Runs
    <2> QED BY <1>1, <1>12, <2>3 DEF RunTool
<1>13. ASSUME AskUser PROVE Goal
    <2> DEFINE call == Head(run.todo)
               conv == Append(run.conv, ToolMsg(call))
               todo == Tail(run.todo)
    <2>1. conv \in Msgs /\ todo \in Seq(CallIds) /\ call \in CallIds /\ run.confirms \in Nat
          /\ run.conv \in Msgs
        BY <1>1, <1>13, ResultType DEF AskUser, Runs
    <2>2. CASE run.confirms + 1 > 3
        <3> DEFINE confirms == run.confirms + 1
        <3>1. run' = [run EXCEPT !.conv = conv, !.todo = todo, !.confirms = confirms]
              /\ UNCHANGED <<next, chan>>
            BY <1>13, <2>2 DEF AskUser
        <3>2. run' \in Runs
            <4>1. confirms \in Nat
                BY <2>1
            <4> HIDE DEF conv, todo, confirms
            <4> QED BY <1>1, <2>1, <3>1, <4>1 DEF Runs
        <3> QED BY <1>1, <1>13, <3>1, <3>2 DEF AskUser
    <2>3. CASE ~(run.confirms + 1 > 3)
        <3> DEFINE msgs == AddMessages(chan.msgs, run.conv)
                   confirms == run.confirms + 1
        <3>1. PICK k \in Kinds :
                  chan' = [chan EXCEPT !.pending = [call |-> call, kind |-> k], !.msgs = msgs,
                                       !.confirms = confirms]
            BY <1>13, <2>3 DEF AskUser
        <3>2. msgs \in Msgs
            BY <1>1, <2>1, AddType DEF Channels
        <3>3. confirms \in Nat
            BY <2>1
        <3> HIDE DEF msgs, call, confirms
        <3> DEFINE pending == [call |-> call, kind |-> k]
        <3>4. chan' \in Channels
            <4>1. pending \in Pending
                BY <2>1 DEF Pending
            <4>2. chan' = [chan EXCEPT !.pending = pending, !.msgs = msgs, !.confirms = confirms]
                BY <3>1
            <4> HIDE DEF pending
            <4> QED BY <1>1, <3>2, <3>3, <4>1, <4>2 DEF Channels
        <3>5. next' = "wait_user" /\ run' = Idle
            BY <1>13, <2>3 DEF AskUser
        <3> QED BY <1>1, <1>13, <3>4, <3>5, Constants DEF AskUser
    <2> QED BY <2>2, <2>3
<1>14. ASSUME NextRound PROVE Goal
    <2>1. run.round + 1 \in 0..(MAX_TOOL_ROUNDS + 1)
        BY <1>1, <1>14, Bounds DEF NextRound, RunAt, Runs
    <2>2. run' \in Runs
        BY <1>1, <1>14, <2>1 DEF NextRound, Runs
    <2> QED BY <1>1, <1>14, <2>2 DEF NextRound
<1>15. ASSUME Respond PROVE Goal
    <2>1. sess' \in Sessions
        BY <1>1, <1>15 DEF Respond, Sessions, Channels
    <2>2. sent' \in Sends /\ prompts' \in Nat
        <3>1. /\ sent' \in Sends
              /\ prompts' = prompts \/ prompts' = prompts + 1
            BY <1>15 DEF Respond, Sends
        <3> QED BY <1>1, <3>1
    <2>3. faults' \in Faults
        <3> DEFINE x == faults.send + 1
        <3>1. CASE faults' = faults
            BY <1>1, <3>1
        <3>2. CASE faults.error + faults.send < MaxErrors /\ faults' = [faults EXCEPT !.send = x]
            <4>1. x \in 0..MaxErrors
                BY <1>1, <3>2, Bounds DEF Faults
            <4> HIDE DEF x
            <4> QED BY <1>1, <3>2, <4>1 DEF Faults
        <3> QED BY <1>15, <3>1, <3>2 DEF Respond
    <2> QED BY <1>1, <1>15, <2>1, <2>2, <2>3 DEF Respond, Resps
<1>16. ASSUME ModelFails PROVE Goal
    <2>1. faults' \in Faults
        <3> DEFINE x == faults.error + 1
        <3>1. x \in 0..MaxErrors
            <4>1. faults.error \in 0..MaxErrors /\ faults.send \in 0..MaxErrors /\ MaxErrors \in Nat
                BY <1>1, Bounds DEF Faults
            <4>2. faults.error + faults.send < MaxErrors
                BY <1>16 DEF ModelFails
            <4> QED BY <4>1, <4>2
        <3>2. faults' = [faults EXCEPT !.error = x]
            BY <1>16 DEF ModelFails
        <3> HIDE DEF x
        <3> QED BY <1>1, <3>1, <3>2 DEF Faults
    <2> QED BY <1>1, <1>16, <2>1, Constants DEF ModelFails, Resps, Sends
<1>17. ASSUME Evict PROVE Goal
    BY <1>1, <1>17 DEF Evict
<1>18. ASSUME Restart PROVE Goal
    <2>1. faults' \in Faults
        <3> DEFINE x == faults.restart + 1
        <3>1. x \in 0..MaxRestarts
            <4>1. faults.restart \in 0..MaxRestarts /\ MaxRestarts \in Nat
                BY <1>1, Bounds DEF Faults
            <4>2. faults.restart < MaxRestarts
                BY <1>18 DEF Restart
            <4> QED BY <4>1, <4>2
        <3>2. faults' = [faults EXCEPT !.restart = x]
            BY <1>18 DEF Restart
        <3> HIDE DEF x
        <3> QED BY <1>1, <3>1, <3>2 DEF Faults
    <2> QED BY <1>1, <1>18, <2>1, Constants DEF Restart, Resps, Sends
<1>19. ASSUME UNCHANGED vars PROVE Goal
    BY <1>1, <1>19 DEF vars
<1> HIDE DEF Goal
<1> QED BY <1>0, <1>4, <1>5, <1>6, <1>7, <1>8, <1>9, <1>10, <1>11, <1>12, <1>13, <1>14, <1>15,
           <1>16, <1>17, <1>18, <1>19 DEF Next, React

\* Every step keeps react_node where it stands.
LEMMA StepRunAt == Types /\ [Next]_vars => RunAt'
<1> SUFFICES ASSUME Types, [Next]_vars PROVE RunAt'
    OBVIOUS
<1>1. RunAt /\ run \in Runs
    BY TypeIs DEF Types
<1>2. CASE ReactStart
    <2>1. run'.at = "llm" /\ run'.round = 1 /\ run'.todo = <<>> /\ busy' /\ next' = "react"
        <3> DEFINE conv == IF Resuming THEN Fixed ELSE Append(Fixed, UserMsg)
                   shown == IF Resuming THEN 0 ELSE chan.photo
        <3>1. run' = [Idle EXCEPT !.at = "llm", !.round = 1, !.confirms = chan.confirms,
                          !.conv = conv, !.shown = shown]
            BY <1>2, ReactStartIs
        <3> HIDE DEF conv, shown
        <3>2. run'.at = "llm" /\ run'.round = 1 /\ run'.todo = <<>>
            BY <3>1 DEF Idle
        <3> QED BY <1>2, <3>2, ReactStartIs
    <2> QED BY <2>1 DEF RunAt
<1>3. CASE ModelText \/ ModelFails \/ Restart
    <2>1. run' = Idle
        BY <1>3, ModelTextIs DEF ModelFails, Restart
    <2> QED BY <2>1 DEF RunAt, Idle
<1>4. CASE ModelTools
    <2>1. PICK n \in 1..MaxBatch :
              run' = [run EXCEPT !.at = "tools",
                            !.conv = Append(@, Msg("assistant", (calls + 1)..(calls + n))),
                            !.todo = [i \in 1..n |-> calls + i]]
        BY <1>4 DEF ModelTools
    <2>2. run'.at = "tools" /\ run'.round = run.round
        BY <1>1, <2>1 DEF Runs
    <2>3. run.round <= MAX_TOOL_ROUNDS /\ run.at = "llm" /\ busy' = busy /\ next' = next
        BY <1>4 DEF ModelTools
    <2> QED BY <1>1, <2>2, <2>3 DEF RunAt
<1>5. CASE RunTool
    <2>1. run'.at = run.at /\ run'.round = run.round /\ run.at = "tools"
        BY <1>1, <1>5 DEF RunTool, Runs
    <2> QED BY <1>1, <1>5, <2>1 DEF RunAt, RunTool
<1>6. CASE AskUser
    <2>1. CASE run.confirms + 1 > 3
        <3>1. run'.at = run.at /\ run'.round = run.round /\ run.at = "tools" /\ next' = next
            BY <1>1, <1>6, <2>1 DEF AskUser, Runs
        <3> QED BY <1>1, <1>6, <3>1 DEF RunAt, AskUser
    <2>2. CASE ~(run.confirms + 1 > 3)
        <3>1. run' = Idle
            BY <1>6, <2>2 DEF AskUser
        <3> QED BY <3>1 DEF RunAt, Idle
    <2> QED BY <2>1, <2>2
<1>7. CASE NextRound
    <2>1. /\ run'.at = "llm" /\ run'.round = run.round + 1 /\ run'.todo = <<>> /\ run.at = "tools"
          /\ run.round \in Nat
        BY <1>1, <1>7 DEF NextRound, Runs
    <2> QED BY <1>1, <1>7, <2>1 DEF RunAt, NextRound
<1>8. CASE Resume
    BY <1>1, <1>8 DEF RunAt, Resume, Idle
<1>9. CASE Invoke
    <2>1. run.at = "start"
        BY <1>1, <1>9, InvokeIs DEF RunAt
    <2> QED BY <1>1, <1>9, <2>1, InvokeIs DEF RunAt, Idle
<1>10. CASE Classify
    <2>1. run.at = "start" /\ run' = run
        BY <1>1, <1>10 DEF RunAt, Classify
    <2> QED BY <1>1, <2>1 DEF RunAt, Idle
<1>11. CASE HandleMeta \/ HandleConfirm
    <2>1. run.at = "start" /\ run' = run
        BY <1>1, <1>11 DEF RunAt, HandleMeta, HandleConfirm
    <2> QED BY <1>1, <2>1 DEF RunAt, Idle
<1>12. CASE Respond
    <2>1. run.at = "start" /\ run' = run
        BY <1>1, <1>12 DEF RunAt, Respond
    <2> QED BY <1>1, <2>1 DEF RunAt, Idle
<1>13. CASE Evict \/ UNCHANGED vars
    BY <1>1, <1>13 DEF RunAt, Evict, vars
<1> QED BY <1>2, <1>3, <1>4, <1>5, <1>6, <1>7, <1>8, <1>9, <1>10, <1>11, <1>12, <1>13
    DEF Next, React

\* The checkpoint, the session and react_node's variables are well typed,
\* whatever fails, is evicted or restarts.
THEOREM TypeCorrect == Spec => []Types
<1>1. Types /\ [Next]_vars => Types'
    BY StepTypeOK, StepRunAt DEF Types
<1> QED BY <1>1, InitType, PTL DEF Spec

THEOREM AgentTypeOK == Spec => []TypeOK
<1>1. Types => TypeOK
    BY DEF Types
<1> QED BY <1>1, TypeCorrect, PTL
-----------------------------------------------------------------------------
(* What the steps do to the fields of the checkpoint and of the run.       *)

SameTask == /\ chan'.pending = chan.pending /\ chan'.resp = chan.resp
            /\ chan'.confirms = chan.confirms /\ chan'.complete = chan.complete
            /\ chan'.final = chan.final /\ chan'.photo = chan.photo

LEMMA ResumeDoes ==
    ASSUME TypeOK, Resume
    PROVE  /\ ~busy /\ next = "wait_user" /\ busy' /\ resumed' /\ next' = "handle_confirm"
           /\ text' \in Inputs /\ turns' = turns + 1
           /\ chan'.msgs = chan.msgs /\ chan'.pending = chan.pending /\ chan'.resp = text'
           /\ chan'.confirms = chan.confirms /\ chan'.complete = chan.complete
           /\ chan'.final = chan.final /\ chan'.photo = chan.photo
           /\ \E a \in Replied \ {""} : reply' = [reply EXCEPT ![chan.pending.call] = a]
           /\ UNCHANGED <<run, sess, calls, faults, prompts, rounds, ran>>
BY TypeIs DEF Resume, Channels, Replied

LEMMA InvokeDoes ==
    ASSUME TypeOK, Invoke
    PROVE  /\ ~busy /\ next # "wait_user" /\ busy' /\ ~resumed' /\ next' = "classify"
           /\ text' \in Inputs /\ turns' = turns + 1
           /\ chan'.msgs = IF Start.fresh THEN AddMessages(chan.msgs, <<SystemMsg>>) ELSE chan.msgs
           /\ chan'.pending = Start.pending /\ chan'.resp = Start.resp
           /\ chan'.confirms = Start.confirms /\ chan'.complete = Start.complete
           /\ chan'.final = Start.final
           /\ chan'.photo = IF text' = "photo" THEN turns' ELSE Start.photo
           /\ sess' # NoSession /\ sess'.pending = Old.pending /\ sess'.resp = Old.resp
           /\ prompts' = IF Start = NewState THEN 0 ELSE prompts
           /\ rounds' = IF Start = NewState THEN 0 ELSE rounds
           /\ UNCHANGED <<run, calls, faults, reply, ran>>
<1>1. Old \in Sessions /\ Start \in Sessions
    BY StartType
<1>2. turns' \in 0..MaxTurns
    BY TypeIs, Bounds, InvokeIs
<1>3. /\ WithPhoto(Start, text', turns').photo = IF text' = "photo" THEN turns' ELSE Start.photo
      /\ WithPhoto(Old, text', turns') \in Sessions
      /\ WithPhoto(Old, text', turns').pending = Old.pending
      /\ WithPhoto(Old, text', turns').resp = Old.resp
    BY <1>1, <1>2, PhotoType
<1>4. sess' \in Sessions /\ sess'.pending = Old.pending /\ sess'.resp = Old.resp
    BY <1>1, <1>3, InvokeIs
<1> DEFINE photo == WithPhoto(Start, text', turns').photo
           msgs == IF Start.fresh THEN AddMessages(chan.msgs, <<SystemMsg>>) ELSE chan.msgs
<1>5. chan' = [msgs |-> msgs, pending |-> Start.pending, resp |-> Start.resp,
               confirms |-> Start.confirms, complete |-> Start.complete,
               final |-> Start.final, photo |-> photo]
    BY InvokeIs
<1>6. photo = IF text' = "photo" THEN turns' ELSE Start.photo
    BY <1>3
<1> HIDE DEF photo, msgs
<1>7. /\ chan'.msgs = msgs /\ chan'.pending = Start.pending /\ chan'.resp = Start.resp
      /\ chan'.confirms = Start.confirms /\ chan'.complete = Start.complete
      /\ chan'.final = Start.final /\ chan'.photo = photo
    BY <1>5
<1>8. /\ ~busy /\ next # "wait_user" /\ busy' /\ ~resumed' /\ next' = "classify"
      /\ text' \in Inputs /\ turns' = turns + 1
      /\ prompts' = IF Start = NewState THEN 0 ELSE prompts
      /\ rounds' = IF Start = NewState THEN 0 ELSE rounds
      /\ UNCHANGED <<run, calls, faults, reply, ran>>
    BY InvokeIs
<1> QED BY <1>4, <1>6, <1>7, <1>8, Constants DEF msgs

LEMMA ClassifyDoes ==
    ASSUME Classify
    PROVE  /\ busy /\ next = "classify" /\ next' \in {"end", "handle_confirm", "handle_meta", "react"}
           /\ next' = "end" => chan.resp = "N"
           /\ UNCHANGED <<busy, resumed, text, chan, run, sess, sent, turns, calls, faults,
                          prompts, rounds, reply, ran>>
BY DEF Classify, Route

LEMMA MetaDoes ==
    ASSUME TypeOK, HandleMeta
    PROVE  /\ busy /\ next = "handle_meta" /\ next' = "end"
           /\ chan'.msgs = chan.msgs
           /\ chan'.pending = chan.pending \/ chan'.pending = NoPending
           /\ chan'.resp = chan.resp \/ chan'.resp = ""
           /\ chan'.confirms = chan.confirms /\ chan'.photo = chan.photo
           /\ IF text = "/cal" THEN ~chan'.complete /\ chan'.final = chan.final
                               ELSE chan'.complete /\ chan'.final
           /\ UNCHANGED <<busy, resumed, text, run, sess, sent, turns, calls, faults, prompts,
                          rounds, reply, ran>>
<1>1. chan \in Channels
    BY TypeIs
<1>2. CASE text = "/cal"
    <2>1. chan' = [chan EXCEPT !.complete = FALSE]
        BY <1>2 DEF HandleMeta
    <2> QED BY <1>1, <1>2, <2>1 DEF HandleMeta, Channels
<1>3. CASE text = "/reset"
    <2>1. chan' = [chan EXCEPT !.pending = NoPending, !.resp = "", !.complete = TRUE, !.final = TRUE]
        BY <1>3 DEF HandleMeta
    <2> QED BY <1>1, <1>3, <2>1 DEF HandleMeta, Channels
<1>4. CASE text # "/cal" /\ text # "/reset"
    <2>1. chan' = [chan EXCEPT !.complete = TRUE, !.final = TRUE]
        BY <1>4 DEF HandleMeta
    <2> QED BY <1>1, <1>4, <2>1 DEF HandleMeta, Channels
<1> QED BY <1>2, <1>3, <1>4

LEMMA ConfirmDoes ==
    ASSUME TypeOK, HandleConfirm
    PROVE  /\ busy /\ next = "handle_confirm" /\ next' = "react"
           /\ \/ chan'.msgs = chan.msgs
              \/ /\ chan.pending # NoPending
                 /\ chan'.msgs = AddMessages(chan.msgs, <<ToolMsg(chan.pending.call)>>)
           /\ chan'.pending = NoPending /\ chan'.resp = ""
           /\ chan'.confirms = chan.confirms /\ chan'.complete = chan.complete
           /\ chan'.final = chan.final /\ chan'.photo = chan.photo
           /\ ran' = ran \/ (chan.pending.call # 0 /\ ran' = [ran EXCEPT ![chan.pending.call] = @ + 1])
           /\ UNCHANGED <<busy, resumed, text, run, sess, sent, turns, calls, faults, prompts,
                          rounds, reply>>
<1> DEFINE p == chan.pending
           did == IF p.call = 0 THEN ran ELSE [ran EXCEPT ![p.call] = @ + 1]
           msgs == IF p.kind \in {"direct", "again"}
                   THEN AddMessages(chan.msgs, <<ToolMsg(p.call)>>) ELSE chan.msgs
<1>1. chan \in Channels
    BY TypeIs
<1>2. chan' = [chan EXCEPT !.msgs = msgs, !.pending = NoPending, !.resp = ""]
    BY DEF HandleConfirm
<1>3. msgs = chan.msgs \/ (p # NoPending /\ msgs = AddMessages(chan.msgs, <<ToolMsg(p.call)>>))
    BY DEF NoPending
<1>4. ran' \in {did, ran}
    BY DEF HandleConfirm
<1> HIDE DEF msgs
<1>5. /\ chan'.msgs = msgs /\ chan'.pending = NoPending /\ chan'.resp = ""
      /\ chan'.confirms = chan.confirms /\ chan'.complete = chan.complete
      /\ chan'.final = chan.final /\ chan'.photo = chan.photo
    BY <1>1, <1>2 DEF Channels
<1>6. /\ busy /\ next = "handle_confirm" /\ next' = "react"
      /\ UNCHANGED <<busy, resumed, text, run, sess, sent, turns, calls, faults, prompts,
                     rounds, reply>>
    BY DEF HandleConfirm
<1>7. ran' = ran \/ (p.call # 0 /\ ran' = [ran EXCEPT ![p.call] = @ + 1])
    BY <1>4
<1> QED BY <1>3, <1>5, <1>6, <1>7

LEMMA ReactStartDoes ==
    ASSUME TypeOK, ReactStart
    PROVE  /\ busy /\ next = "react" /\ run.at = "start"
           /\ run'.at = "llm" /\ run'.round = 1 /\ run'.confirms = chan.confirms /\ run'.todo = <<>>
           /\ run'.conv = IF Resuming THEN Fixed ELSE Append(Fixed, UserMsg)
           /\ run'.shown = IF Resuming THEN 0 ELSE chan.photo
           /\ UNCHANGED <<busy, resumed, text, next, chan, sess, sent, turns, calls, faults,
                          prompts, rounds, reply, ran>>
<1> DEFINE conv == IF Resuming THEN Fixed ELSE Append(Fixed, UserMsg)
           shown == IF Resuming THEN 0 ELSE chan.photo
<1>1. run' = [Idle EXCEPT !.at = "llm", !.round = 1, !.confirms = chan.confirms,
                          !.conv = conv, !.shown = shown]
    BY ReactStartIs
<1> HIDE DEF conv, shown
<1>2. /\ run'.at = "llm" /\ run'.round = 1 /\ run'.confirms = chan.confirms /\ run'.todo = <<>>
      /\ run'.conv = conv /\ run'.shown = shown
    BY <1>1 DEF Idle
<1> QED BY <1>2, ReactStartIs DEF conv, shown

LEMMA ModelTextDoes ==
    ASSUME TypeOK, ModelText
    PROVE  /\ busy /\ run.at = "llm" /\ run' = Idle
           /\ chan'.msgs = AddMessages(chan.msgs, Trim(Answer))
           /\ chan'.pending = chan.pending /\ chan'.resp = chan.resp
           /\ chan'.confirms = run.confirms /\ chan'.complete /\ chan'.final
           /\ chan'.photo = chan.photo
           /\ faults'.error = faults.error /\ faults'.cut = (faults.cut \/ Trim(Answer) # Answer)
           /\ next' = IF chan.pending = NoPending THEN "end" ELSE "wait_user"
           /\ UNCHANGED <<busy, resumed, text, sess, sent, turns, calls, prompts, rounds,
                          reply, ran>>
<1> DEFINE msgs == AddMessages(chan.msgs, Trim(Answer))
           cut == faults.cut \/ Trim(Answer) # Answer
<1>1. /\ chan' = [chan EXCEPT !.msgs = msgs, !.final = TRUE, !.complete = TRUE,
                              !.confirms = run.confirms]
      /\ faults' = [faults EXCEPT !.cut = cut]
    BY ModelTextIs
<1>2. chan \in Channels /\ faults \in Faults
    BY TypeIs
<1> HIDE DEF msgs, cut
<1>3. /\ chan'.msgs = msgs /\ chan'.pending = chan.pending /\ chan'.resp = chan.resp
      /\ chan'.confirms = run.confirms /\ chan'.complete /\ chan'.final
      /\ chan'.photo = chan.photo
    BY <1>1, <1>2 DEF Channels
<1>4. faults'.error = faults.error /\ faults'.cut = cut
    BY <1>1, <1>2 DEF Faults
<1> QED BY <1>3, <1>4, ModelTextIs DEF msgs, cut

LEMMA ModelToolsDoes ==
    ASSUME TypeOK, ModelTools
    PROVE  /\ busy /\ run.at = "llm" /\ run.round <= MAX_TOOL_ROUNDS
           /\ \E n \in 1..MaxBatch :
                 /\ calls + n <= MaxCalls /\ calls' = calls + n
                 /\ run'.conv = Append(run.conv, Msg("assistant", (calls + 1)..(calls + n)))
                 /\ run'.todo = [i \in 1..n |-> calls + i]
           /\ run'.at = "tools" /\ run'.round = run.round /\ run'.confirms = run.confirms
           /\ run'.shown = run.shown /\ rounds' = rounds + 1
           /\ UNCHANGED <<busy, resumed, text, next, chan, sess, sent, turns, faults, prompts,
                          reply, ran>>
<1>1. PICK n \in 1..MaxBatch :
          /\ calls + n <= MaxCalls /\ calls' = calls + n
          /\ run' = [run EXCEPT !.at = "tools",
                        !.conv = Append(@, Msg("assistant", (calls + 1)..(calls + n))),
                        !.todo = [i \in 1..n |-> calls + i]]
    BY DEF ModelTools
<1> DEFINE conv == Append(run.conv, Msg("assistant", (calls + 1)..(calls + n)))
           todo == [i \in 1..n |-> calls + i]
<1>2. run' = [run EXCEPT !.at = "tools", !.conv = conv, !.todo = todo]
    BY <1>1
<1> HIDE DEF conv, todo
<1>3. /\ run'.conv = conv /\ run'.todo = todo /\ run'.at = "tools" /\ run'.round = run.round
      /\ run'.confirms = run.confirms /\ run'.shown = run.shown
    BY <1>2, TypeIs DEF Runs
<1>4. /\ busy /\ run.at = "llm" /\ run.round <= MAX_TOOL_ROUNDS /\ rounds' = rounds + 1
      /\ UNCHANGED <<busy, resumed, text, next, chan, sess, sent, turns, faults, prompts,
                     reply, ran>>
    BY DEF ModelTools
<1>5. \E i \in 1..MaxBatch :
                 /\ calls + i <= MaxCalls /\ calls' = calls + i
                 /\ run'.conv = Append(run.conv, Msg("assistant", (calls + 1)..(calls + i)))
                 /\ run'.todo = [k \in 1..i |-> calls + k]
    BY <1>1, <1>3 DEF conv, todo
<1> QED BY <1>3, <1>4, <1>5

\* A call is answered by its tool, or cancelled.
Answers ==
    /\ busy /\ run.at = "tools" /\ run.todo # <<>>
    /\ run'.conv = Append(run.conv, ToolMsg(Head(run.todo))) /\ run'.todo = Tail(run.todo)
    /\ run'.at = "tools" /\ run'.round = run.round /\ run'.shown = run.shown
    /\ run'.confirms >= run.confirms
    /\ UNCHANGED <<busy, resumed, text, next, chan, sess, sent, turns, calls, faults, prompts,
                   rounds, reply, ran>>

\* The user is asked about a call.
Asks ==
    /\ busy /\ run.at = "tools" /\ run.todo # <<>> /\ run.confirms + 1 <= 3
    /\ chan'.pending.call = Head(run.todo) /\ chan'.pending # NoPending
    /\ chan'.msgs = AddMessages(chan.msgs, run.conv) /\ chan'.confirms = run.confirms + 1
    /\ chan'.resp = chan.resp /\ chan'.complete = chan.complete /\ chan'.final = chan.final
    /\ chan'.photo = chan.photo
    /\ next' = "wait_user" /\ run' = Idle
    /\ UNCHANGED <<busy, resumed, text, sess, sent, turns, calls, faults, prompts, rounds,
                   reply, ran>>

LEMMA RunToolDoes ==
    ASSUME TypeOK, RunTool
    PROVE  Answers
<1> DEFINE conv == Append(run.conv, ToolMsg(Head(run.todo)))
           todo == Tail(run.todo)
<1>1. run' = [run EXCEPT !.conv = conv, !.todo = todo]
    BY DEF RunTool
<1> HIDE DEF conv, todo
<1>2. run \in Runs
    BY TypeIs
<1>3. /\ run'.conv = conv /\ run'.todo = todo /\ run'.round = run.round
      /\ run'.at = run.at /\ run'.confirms = run.confirms /\ run'.shown = run.shown
      /\ run.confirms \in Nat
    BY <1>1, <1>2 DEF Runs
<1> QED BY <1>3 DEF Answers, RunTool, conv, todo

LEMMA AskUserDoes ==
    ASSUME TypeOK, AskUser
    PROVE  Answers \/ Asks
<1>0. run \in Runs /\ chan \in Channels /\ run.confirms \in Nat
    BY TypeIs DEF Runs
<1> DEFINE call == Head(run.todo)
           conv == Append(run.conv, ToolMsg(call))
           todo == Tail(run.todo)
           confirms == run.confirms + 1
<1>1. CASE confirms > 3
    <2>1. run' = [run EXCEPT !.conv = conv, !.todo = todo, !.confirms = confirms]
          /\ UNCHANGED <<next, chan>>
        BY <1>1 DEF AskUser
    <2>2. confirms >= run.confirms
        BY <1>0
    <2> HIDE DEF conv, todo, confirms
    <2>3. /\ run'.conv = conv /\ run'.todo = todo /\ run'.at = run.at /\ run'.round = run.round
          /\ run'.confirms = confirms /\ run'.shown = run.shown
        BY <1>0, <2>1 DEF Runs
    <2> QED BY <2>1, <2>2, <2>3 DEF Answers, AskUser, conv, todo
<1>2. CASE ~(confirms > 3)
    <2> DEFINE msgs == AddMessages(chan.msgs, run.conv)
    <2>1. PICK k \in Kinds :
              chan' = [chan EXCEPT !.pending = [call |-> call, kind |-> k], !.msgs = msgs,
                                   !.confirms = confirms]
        BY <1>2 DEF AskUser
    <2> DEFINE pending == [call |-> call, kind |-> k]
    <2>2. pending.call = call /\ pending # NoPending
        BY DEF NoPending, Kinds
    <2>3. chan' = [chan EXCEPT !.pending = pending, !.msgs = msgs, !.confirms = confirms]
        BY <2>1
    <2>4. confirms <= 3 /\ next' = "wait_user" /\ run' = Idle
        <3>1. confirms <= 3
            BY <1>0, <1>2
        <3>2. next' = "wait_user" /\ run' = Idle
            BY <1>2 DEF AskUser
        <3> QED BY <3>1, <3>2
    <2> HIDE DEF msgs, pending
    <2>5. /\ chan'.pending = pending /\ chan'.msgs = msgs /\ chan'.confirms = confirms
          /\ chan'.resp = chan.resp /\ chan'.complete = chan.complete /\ chan'.final = chan.final
          /\ chan'.photo = chan.photo
        BY <1>0, <2>3 DEF Channels
    <2> QED BY <2>2, <2>4, <2>5 DEF Asks, AskUser, msgs
<1> QED BY <1>1, <1>2

LEMMA NextRoundDoes ==
    ASSUME TypeOK, NextRound
    PROVE  /\ busy /\ run.at = "tools" /\ run.todo = <<>>
           /\ run'.at = "llm" /\ run'.round = run.round + 1 /\ run'.conv = run.conv
           /\ run'.todo = <<>> /\ run'.confirms = run.confirms /\ run'.shown = run.shown
           /\ UNCHANGED <<busy, resumed, text, next, chan, sess, sent, turns, calls, faults,
                          prompts, rounds, reply, ran>>
BY TypeIs DEF NextRound, Runs

\* The session handle_message saves.
Saved == [fresh |-> FALSE, pending |-> chan.pending, resp |-> chan.resp,
          confirms |-> chan.confirms, complete |-> chan.complete,
          final |-> chan.final, photo |-> chan.photo]

LEMMA RespondDoes ==
    ASSUME Respond
    PROVE  /\ busy /\ next \in {"end", "wait_user"} /\ ~busy' /\ sess' = Saved
           /\ sent' \in IF chan.final THEN {"answer", "lost answer"}
                        ELSE IF chan.pending # NoPending /\ ~chan.complete
                             THEN {"prompt", "lost prompt"} ELSE {"nothing"}
           /\ prompts' = IF ~chan.final /\ chan.pending # NoPending /\ ~chan.complete
                         THEN prompts + 1 ELSE prompts
           /\ UNCHANGED <<resumed, next, chan, run, turns, calls, rounds, reply, ran>>
BY DEF Respond, Saved

LEMMA RespondFaults ==
    ASSUME TypeOK, Respond
    PROVE  faults'.error = faults.error /\ faults'.cut = faults.cut
<1> DEFINE x == faults.send + 1
<1>1. faults' = faults \/ faults' = [faults EXCEPT !.send = x]
    BY DEF Respond
<1> HIDE DEF x
<1> QED BY <1>1, TypeIs DEF Faults

LEMMA ModelFailsDoes ==
    ASSUME TypeOK, ModelFails
    PROVE  /\ busy /\ faults'.error # 0 /\ faults'.cut = faults.cut
           /\ next = "classify" \/ run.at = "llm"
           /\ ~busy' /\ text' = "" /\ run' = Idle /\ sent' = "error"
           /\ UNCHANGED <<resumed, next, chan, sess, turns, calls, prompts, rounds, reply, ran>>
<1> DEFINE x == faults.error + 1
<1>1. faults \in Faults
    BY TypeIs
<1>2. faults' = [faults EXCEPT !.error = x] /\ x # 0
    <2>1. x # 0
        BY <1>1 DEF Faults
    <2>2. faults' = [faults EXCEPT !.error = x]
        BY DEF ModelFails
    <2> QED BY <2>1, <2>2
<1> HIDE DEF x
<1>3. faults'.error = x /\ faults'.cut = faults.cut
    BY <1>1, <1>2 DEF Faults
<1> QED BY <1>2, <1>3 DEF ModelFails

LEMMA RestartDoes ==
    ASSUME TypeOK, Restart
    PROVE  /\ faults'.error = faults.error /\ faults'.cut = faults.cut
           /\ ~busy' /\ text' = "" /\ next' = "end" /\ chan' = EmptyChannels /\ run' = Idle
           /\ sess' = NoSession /\ sent' = "nothing"
           /\ UNCHANGED <<resumed, turns, calls, prompts, rounds, reply, ran>>
<1> DEFINE x == faults.restart + 1
<1>1. faults \in Faults
    BY TypeIs
<1>2. faults' = [faults EXCEPT !.restart = x]
    BY DEF Restart
<1> HIDE DEF x
<1>3. faults'.error = faults.error /\ faults'.cut = faults.cut
    BY <1>1, <1>2 DEF Faults
<1> QED BY <1>3 DEF Restart

\* The steps, by what they do.
LEMMA Steps ==
    TypeOK /\ [Next]_vars =>
       \/ Resume \/ Invoke \/ Classify \/ HandleMeta \/ HandleConfirm \/ ReactStart \/ ModelText
       \/ ModelTools \/ Answers \/ Asks \/ NextRound \/ Respond \/ ModelFails \/ Evict \/ Restart
       \/ UNCHANGED vars
BY RunToolDoes, AskUserDoes DEF Next, React

\* A checkpoint without a task.
LEMMA EmptyIs ==
    /\ EmptyChannels.pending = NoPending /\ EmptyChannels.pending.call = 0
    /\ EmptyChannels.resp = "" /\ EmptyChannels.msgs = <<>>
    /\ EmptyChannels.final = FALSE /\ EmptyChannels.complete = FALSE
BY DEF EmptyChannels, NoPending

LEMMA IdleIs == Idle.at = "start" /\ Idle.todo = <<>>
BY DEF Idle

\* A failure stays one.
LEMMA FailureStays == TypeOK /\ [Next]_vars /\ NoFailure' => NoFailure /\ ~ModelFails
<1> SUFFICES ASSUME TypeOK, [Next]_vars, NoFailure' PROVE NoFailure /\ ~ModelFails
    OBVIOUS
<1>1. ~ModelFails
    BY ModelFailsDoes DEF NoFailure
<1>2. faults'.error = faults.error
    <2>1. CASE Resume \/ Invoke \/ HandleMeta \/ HandleConfirm \/ ReactStart \/ ModelText
        BY <2>1, ResumeDoes, InvokeDoes, MetaDoes, ConfirmDoes, ReactStartDoes, ModelTextDoes
    <2>2. CASE Classify \/ ModelTools \/ Answers \/ Asks \/ NextRound \/ Respond
        BY <2>2, ClassifyDoes, ModelToolsDoes, NextRoundDoes, RespondFaults DEF Answers, Asks
    <2>3. CASE Evict \/ Restart \/ UNCHANGED vars
        BY <2>3, RestartDoes DEF Evict, vars
    <2> QED BY <1>1, <2>1, <2>2, <2>3, Steps
<1> QED BY <1>1, <1>2 DEF NoFailure
-----------------------------------------------------------------------------
(* Replies: nothing that needs confirmation runs before its reply, and no  *)
(* reply is left over, whatever fails.                                     *)

Replies ==
    /\ \A c \in CallIds : ran[c] > 0 => reply[c] # ""
    /\ chan.pending.call # 0 /\ next # "wait_user" => reply[chan.pending.call] # ""
    /\ sess # NoSession /\ sess.pending.call # 0 =>
          reply[sess.pending.call] # "" \/ (next = "wait_user" /\ sess.pending = chan.pending)
    /\ next # "handle_confirm" => chan.resp = ""
    /\ sess # NoSession => sess.resp = ""

LEMMA InitReplies == Init => Replies
<1> SUFFICES ASSUME Init PROVE Replies
    OBVIOUS
<1>1. chan.pending.call = 0 /\ chan.resp = "" /\ sess = NoSession
    BY EmptyIs DEF Init
<1>2. \A c \in CallIds : ran[c] = 0
    BY DEF Init
<1>3. \A c \in CallIds : ~(ran[c] > 0)
    BY <1>2
<1> QED BY <1>1, <1>3 DEF Replies

\* A pending confirmation is one of a call.
LEMMA PendingCall == TypeOK => chan.pending \in Pending /\ (chan.pending = NoPending <=> chan.pending.call = 0)
<1> SUFFICES ASSUME TypeOK PROVE chan.pending \in Pending /\ (chan.pending = NoPending <=> chan.pending.call = 0)
    OBVIOUS
<1>1. chan.pending \in Pending
    BY TypeIs DEF Channels
<1>2. chan.pending = NoPending \/ chan.pending.call \in 1..MaxCalls
    BY <1>1 DEF Pending, CallIds
<1> QED BY <1>1, <1>2, Constants

LEMMA StepReplies == Types /\ Replies /\ [Next]_vars => Replies'
<1> SUFFICES ASSUME Types, Replies, [Next]_vars PROVE Replies'
    OBVIOUS
<1>0. TypeOK /\ RunAt /\ reply \in [CallIds -> Replied] /\ ran \in [CallIds -> Nat]
      /\ chan.pending \in Pending /\ (chan.pending = NoPending <=> chan.pending.call = 0)
    BY TypeIs, PendingCall DEF Types
<1>1. CASE Resume
    <2> DEFINE c == chan.pending.call
    <2>2. PICK a \in Replied \ {""} : reply' = [reply EXCEPT ![c] = a]
        BY <1>0, <1>1, ResumeDoes
    <2>3. c # 0 => c \in CallIds
        BY <1>0 DEF Pending, NoPending
    <2> HIDE DEF c
    <2>4. \A d \in CallIds : reply[d] # "" => reply'[d] # ""
        BY <1>0, <2>2
    <2>5. c # 0 => reply'[c] # ""
        BY <1>0, <2>2, <2>3
    <2>6. /\ chan'.pending = chan.pending /\ next' = "handle_confirm" /\ ran' = ran /\ sess' = sess
          /\ next = "wait_user"
        BY <1>0, <1>1, ResumeDoes
    <2>7. sess # NoSession /\ sess.pending.call # 0 => reply'[sess.pending.call] # ""
        <3> SUFFICES ASSUME sess # NoSession, sess.pending.call # 0 PROVE reply'[sess.pending.call] # ""
            OBVIOUS
        <3>1. sess.pending.call \in CallIds
            <4>1. sess.pending \in Pending
                BY <1>0, TypeIs DEF Sessions
            <4>2. \A p \in Pending : p.call # 0 => p.call \in CallIds
                BY Constants DEF Pending
            <4> QED BY <4>1, <4>2
        <3>2. CASE sess.pending = chan.pending
            BY <2>5, <3>2 DEF c
        <3>3. CASE sess.pending # chan.pending
            BY <2>4, <3>1, <3>3 DEF Replies
        <3> QED BY <3>2, <3>3
    <2> QED BY <2>4, <2>5, <2>6, <2>7 DEF Replies, c
<1>2. CASE Invoke
    <2>1. /\ next # "wait_user" /\ chan'.pending = Start.pending /\ chan'.resp = Start.resp
          /\ sess'.pending = Old.pending /\ sess'.resp = Old.resp /\ next' = "classify"
          /\ reply' = reply /\ ran' = ran
        BY <1>0, <1>2, InvokeDoes
    <2>2. /\ Old.resp = "" /\ Start.resp = ""
          /\ Old.pending.call # 0 => reply[Old.pending.call] # ""
          /\ Start.pending.call # 0 => reply[Start.pending.call] # ""
        BY <2>1 DEF Replies, Old, Start, StartingState, NewState, NoPending
    <2> QED BY <2>1, <2>2 DEF Replies
<1>3. CASE Classify
    BY <1>0, <1>3, ClassifyDoes DEF Replies
<1>4. CASE HandleMeta
    BY <1>0, <1>4, MetaDoes, Constants DEF Replies
<1>5. CASE HandleConfirm
    <2> DEFINE c == chan.pending.call
    <2>1. /\ next = "handle_confirm" /\ next' = "react" /\ chan'.pending = NoPending
          /\ chan'.resp = "" /\ reply' = reply /\ sess' = sess
          /\ ran' = ran \/ (c # 0 /\ ran' = [ran EXCEPT ![c] = @ + 1])
        BY <1>0, <1>5, ConfirmDoes
    <2>2. c # 0 => reply[c] # ""
        BY <2>1 DEF Replies
    <2> HIDE DEF c
    <2>3. \A d \in CallIds : ran'[d] > 0 => reply[d] # ""
        BY <1>0, <2>1, <2>2 DEF Replies
    <2> QED BY <2>1, <2>3, Constants DEF Replies
<1>6. CASE ReactStart
    BY <1>0, <1>6, ReactStartDoes DEF Replies
<1>7. CASE ModelText
    <2>1. /\ chan'.pending = chan.pending /\ chan'.resp = chan.resp /\ next = "react"
          /\ next' \in {"end", "wait_user"} /\ reply' = reply /\ ran' = ran /\ sess' = sess
        BY <1>0, <1>7, ModelTextDoes DEF RunAt
    <2> QED BY <2>1 DEF Replies
<1>8. CASE ModelTools
    BY <1>0, <1>8, ModelToolsDoes DEF Replies
<1>9. CASE Answers
    BY <1>9 DEF Replies, Answers
<1>10. CASE Asks
    <2>1. next = "react" /\ next' = "wait_user" /\ chan'.resp = chan.resp
          /\ reply' = reply /\ ran' = ran /\ sess' = sess
        BY <1>0, <1>10 DEF Asks, RunAt
    <2> QED BY <2>1 DEF Replies
<1>11. CASE NextRound
    BY <1>0, <1>11, NextRoundDoes DEF Replies
<1>12. CASE Respond
    <2>1. sess' = Saved /\ next' = next /\ chan' = chan /\ reply' = reply /\ ran' = ran
          /\ next \in {"end", "wait_user"}
        BY <1>12, RespondDoes
    <2>2. sess'.pending = chan.pending /\ sess'.resp = chan.resp
        BY <2>1 DEF Saved
    <2> QED BY <2>1, <2>2 DEF Replies
<1>13. CASE ModelFails
    BY <1>0, <1>13, ModelFailsDoes DEF Replies
<1>14. CASE Evict
    BY <1>14 DEF Replies, Evict
<1>15. CASE Restart
    <2>1. chan'.pending.call = 0 /\ chan'.resp = "" /\ sess' = NoSession /\ reply' = reply /\ ran' = ran
        BY <1>0, <1>15, RestartDoes, EmptyIs
    <2> QED BY <2>1 DEF Replies
<1>16. CASE UNCHANGED vars
    BY <1>16 DEF Replies, vars
<1> QED BY <1>0, <1>1, <1>2, <1>3, <1>4, <1>5, <1>6, <1>7, <1>8, <1>9, <1>10, <1>11, <1>12, <1>13,
           <1>14, <1>15, <1>16, Steps
-----------------------------------------------------------------------------
(* While no model call has failed: where a turn stands, what the session   *)
(* holds, and what the user was sent.                                      *)

Phase ==
    /\ ~busy => next \in {"end", "wait_user"}
    /\ ~busy => (next = "wait_user" <=> sent \in {"prompt", "lost prompt"})
    /\ ~busy /\ sess # NoSession => sess = Saved
    /\ next # "end" => ~chan.final /\ ~chan.complete
    /\ next = "end" => chan.final = chan.complete
    /\ next = "wait_user" => chan.pending # NoPending
    /\ chan.pending # NoPending => next = "wait_user" \/ (next = "handle_confirm" /\ resumed)
    /\ busy /\ resumed => next \notin {"classify", "handle_meta"}

LEMMA InitPhase == Init => Phase
<1> SUFFICES ASSUME Init PROVE Phase
    OBVIOUS
<1>1. /\ chan.pending = NoPending /\ ~chan.final /\ ~chan.complete /\ sess = NoSession
      /\ next = "end" /\ busy = FALSE /\ sent = "nothing" /\ chan.final = chan.complete
    BY EmptyIs DEF Init
<1> QED BY <1>1 DEF Phase

\* A turn starts from a task that is not complete; from an old one only with
\* the session of the checkpoint.
LEMMA StartIs ==
    ASSUME TypeOK, Phase, ~busy, next # "wait_user"
    PROVE  /\ next = "end" /\ chan.pending = NoPending
           /\ Start.pending = NoPending /\ ~Start.final /\ ~Start.complete
           /\ Start # NewState => /\ sess # NoSession /\ ~chan.complete /\ ~Start.fresh
                                  /\ Start.confirms = chan.confirms /\ Start.photo = chan.photo
           /\ Start = NewState => Start.photo = 0 /\ Start.confirms = 0
<1>1. next = "end" /\ chan.pending = NoPending /\ chan.final = chan.complete
    BY DEF Phase
<1>2. CASE sess = NoSession
    <2>1. Start = NewState
        BY <1>2 DEF Old, Start, StartingState
    <2> QED BY <1>1, <2>1 DEF NewState
<1>3. CASE sess # NoSession
    <2>1. Old = Saved
        BY <1>3 DEF Old, Phase
    <2>2. Old.complete = chan.complete /\ Old.final = chan.final /\ Old.pending = NoPending /\ ~Old.fresh
          /\ Old.confirms = chan.confirms /\ Old.photo = chan.photo
        BY <1>1, <2>1 DEF Saved
    <2>3. CASE chan.complete
        <3>1. Start = NewState
            BY <1>1, <2>2, <2>3 DEF Start, StartingState
        <3> QED BY <1>1, <3>1 DEF NewState
    <2>4. CASE ~chan.complete
        <3>1. Start = Old
            BY <1>1, <2>2, <2>4 DEF Start, StartingState
        <3>2. NewState.photo = 0 /\ NewState.confirms = 0
            BY DEF NewState
        <3> QED BY <1>1, <1>3, <2>2, <2>4, <3>1, <3>2
    <2> QED BY <2>3, <2>4
<1> QED BY <1>2, <1>3

LEMMA StepPhase == Types /\ Replies /\ Phase /\ [Next]_vars /\ ~ModelFails => Phase'
<1> SUFFICES ASSUME Types, Replies, Phase, [Next]_vars, ~ModelFails PROVE Phase'
    OBVIOUS
<1>0. TypeOK /\ RunAt /\ (chan.pending = NoPending <=> chan.pending.call = 0)
      /\ chan.complete \in BOOLEAN /\ chan.final \in BOOLEAN
    BY TypeIs, PendingCall DEF Types, Channels
<1>1. CASE Resume
    BY <1>0, <1>1, ResumeDoes DEF Phase
<1>2. CASE Invoke
    <2>1. /\ chan'.pending = Start.pending /\ chan'.final = Start.final /\ chan'.complete = Start.complete
          /\ next' = "classify" /\ busy' /\ ~resumed' /\ ~busy /\ next # "wait_user"
        BY <1>0, <1>2, InvokeDoes
    <2>2. Start.pending = NoPending /\ ~Start.final /\ ~Start.complete
        BY <1>0, <2>1, StartIs
    <2> QED BY <2>1, <2>2 DEF Phase
<1>3. CASE Classify
    <2>1. next' # "end"
        BY <1>3, ClassifyDoes DEF Replies
    <2> QED BY <1>3, <2>1, ClassifyDoes DEF Phase
<1>4. CASE HandleMeta
    <2>1. chan.pending = NoPending /\ ~resumed /\ ~chan.final
        BY <1>0, <1>4, MetaDoes DEF Phase
    <2>2. chan'.pending = NoPending /\ chan'.final = chan'.complete
        <3>1. chan'.complete \in BOOLEAN /\ chan'.final \in BOOLEAN
            BY StepTypeOK DEF TypeOK, Types
        <3> QED BY <1>0, <1>4, <2>1, <3>1, MetaDoes
    <2> QED BY <1>0, <1>4, <2>1, <2>2, MetaDoes DEF Phase
<1>5. CASE HandleConfirm
    BY <1>0, <1>5, ConfirmDoes DEF Phase
<1>6. CASE ReactStart
    BY <1>0, <1>6, ReactStartDoes DEF Phase
<1>7. CASE ModelText
    <2>1. chan.pending = NoPending
        BY <1>0, <1>7, ModelTextDoes DEF Phase, RunAt
    <2>2. chan'.final = chan'.complete
        <3>1. chan'.complete \in BOOLEAN /\ chan'.final \in BOOLEAN
            BY StepTypeOK DEF TypeOK, Types
        <3> QED BY <1>0, <1>7, <3>1, ModelTextDoes
    <2> QED BY <1>0, <1>7, <2>1, <2>2, ModelTextDoes DEF Phase
<1>8. CASE ModelTools
    BY <1>0, <1>8, ModelToolsDoes DEF Phase
<1>9. CASE Answers
    BY <1>9 DEF Phase, Answers
<1>10. CASE Asks
    <2>1. next = "react"
        BY <1>0, <1>10 DEF Asks, RunAt
    <2> QED BY <1>10, <2>1 DEF Phase, Asks
<1>11. CASE NextRound
    BY <1>0, <1>11, NextRoundDoes DEF Phase
<1>12. CASE Respond
    <2>1. /\ sess' = Saved /\ next' = next /\ chan' = chan /\ ~busy' /\ resumed' = resumed
          /\ next \in {"end", "wait_user"}
        BY <1>12, RespondDoes
    <2>2. Saved' = Saved
        BY <2>1 DEF Saved
    <2>3. next = "wait_user" <=> sent' \in {"prompt", "lost prompt"}
        <3>1. sent' \in IF chan.final THEN {"answer", "lost answer"}
                        ELSE IF chan.pending # NoPending /\ ~chan.complete
                             THEN {"prompt", "lost prompt"} ELSE {"nothing"}
            BY <1>12, RespondDoes
        <3>2. CASE next = "wait_user"
            BY <2>1, <3>1, <3>2 DEF Phase
        <3>3. CASE next = "end"
            <4>1. chan.pending = NoPending
                BY <3>3 DEF Phase
            <4> QED BY <3>1, <3>3, <4>1
        <3> QED BY <2>1, <3>2, <3>3
    <2> QED BY <2>1, <2>2, <2>3 DEF Phase
<1>14. CASE Evict
    BY <1>14 DEF Phase, Evict
<1>15. CASE Restart
    <2>1. /\ chan'.pending = NoPending /\ chan'.final = FALSE /\ chan'.complete = FALSE /\ sess' = NoSession
          /\ next' = "end" /\ ~busy' /\ sent' = "nothing"
        BY <1>0, <1>15, RestartDoes, EmptyIs
    <2> QED BY <2>1 DEF Phase
<1>16. CASE UNCHANGED vars
    BY <1>16 DEF Phase, Saved, vars
<1> QED BY <1>0, <1>1, <1>2, <1>3, <1>4, <1>5, <1>6, <1>7, <1>8, <1>9, <1>10, <1>11, <1>12,
           <1>14, <1>15, <1>16, Steps
-----------------------------------------------------------------------------
(* No operation runs twice.                                                *)

Once ==
    /\ \A c \in CallIds : ran[c] <= 1 /\ (c > calls => ran[c] = 0)
    /\ chan.pending # NoPending => chan.pending.call <= calls /\ ran[chan.pending.call] = 0
    /\ \A i \in DOMAIN run.todo : run.todo[i] <= calls /\ ran[run.todo[i]] = 0

LEMMA InitOnce == Init => Once
<1> SUFFICES ASSUME Init PROVE Once
    OBVIOUS
<1>1. chan.pending = NoPending /\ run.todo = <<>> /\ \A c \in CallIds : ran[c] = 0
    BY EmptyIs DEF Init, Idle
<1> QED BY <1>1 DEF Once

\* The calls a batch still has to answer, after the first.
LEMMA TodoTail ==
    ASSUME TypeOK, run.todo # <<>>
    PROVE  /\ Head(run.todo) = run.todo[1] /\ 1 \in DOMAIN run.todo /\ Head(run.todo) \in CallIds
           /\ \A i \in DOMAIN Tail(run.todo) : i + 1 \in DOMAIN run.todo
                                               /\ Tail(run.todo)[i] = run.todo[i + 1]
<1>1. run.todo \in Seq(CallIds)
    BY TypeIs DEF Runs
<1> DEFINE s == run.todo
<1>2. s \in Seq(CallIds) /\ s # <<>>
    BY <1>1
<1> HIDE DEF s
<1>3. Len(s) \in Nat \ {0} /\ DOMAIN s = 1..Len(s)
    BY <1>2, EmptySeq, LenProperties
<1>4. /\ Tail(s) \in Seq(CallIds) /\ Len(Tail(s)) = Len(s) - 1
      /\ \A i \in 1..Len(Tail(s)) : Tail(s)[i] = s[i + 1]
      /\ Head(s) = s[1] /\ Head(s) \in CallIds
    BY <1>2, HeadTailProperties
<1>5. DOMAIN Tail(s) = 1..Len(Tail(s))
    BY <1>4, LenProperties
<1>6. /\ Head(s) = s[1] /\ 1 \in DOMAIN s /\ Head(s) \in CallIds
      /\ \A i \in DOMAIN Tail(s) : i + 1 \in DOMAIN s /\ Tail(s)[i] = s[i + 1]
    BY <1>3, <1>4, <1>5
<1> QED BY <1>6 DEF s

LEMMA StepOnce == Types /\ Replies /\ Phase /\ Once /\ [Next]_vars /\ ~ModelFails => Once'
<1> SUFFICES ASSUME Types, Replies, Phase, Once, [Next]_vars, ~ModelFails PROVE Once'
    OBVIOUS
<1>0. TypeOK /\ RunAt /\ (chan.pending = NoPending <=> chan.pending.call = 0)
      /\ ran \in [CallIds -> Nat] /\ calls \in Nat /\ chan.pending \in Pending
    BY TypeIs, PendingCall DEF Types
<1>1. CASE Resume
    BY <1>0, <1>1, ResumeDoes DEF Once
<1>2. CASE Invoke
    <2>1. /\ chan'.pending = Start.pending /\ ~busy /\ next # "wait_user"
          /\ ran' = ran /\ calls' = calls /\ run' = run
        BY <1>0, <1>2, InvokeDoes
    <2>2. Start.pending = NoPending
        BY <1>0, <2>1, StartIs
    <2> QED BY <2>1, <2>2 DEF Once
<1>3. CASE Classify
    BY <1>3, ClassifyDoes DEF Once
<1>4. CASE HandleMeta
    <2>1. chan'.pending = chan.pending \/ chan'.pending = NoPending
        BY <1>0, <1>4, MetaDoes
    <2> QED BY <1>0, <1>4, <2>1, MetaDoes DEF Once
<1>5. CASE HandleConfirm
    <2> DEFINE c == chan.pending.call
    <2>1. /\ chan'.pending = NoPending /\ calls' = calls /\ run' = run /\ next = "handle_confirm"
          /\ ran' = ran \/ (c # 0 /\ ran' = [ran EXCEPT ![c] = @ + 1])
        BY <1>0, <1>5, ConfirmDoes
    <2>2. run.todo = <<>>
        BY <2>1, <1>0 DEF RunAt, Idle
    <2>3. c # 0 => c \in CallIds /\ c <= calls /\ ran[c] = 0
        BY <1>0 DEF Once, Pending, NoPending
    <2> HIDE DEF c
    <2>4. \A d \in CallIds : ran'[d] <= 1 /\ (d > calls => ran'[d] = 0)
        <3> SUFFICES ASSUME NEW d \in CallIds PROVE ran'[d] <= 1 /\ (d > calls => ran'[d] = 0)
            OBVIOUS
        <3>1. ran[d] <= 1 /\ (d > calls => ran[d] = 0) /\ d \in Nat
            BY DEF Once, CallIds
        <3>2. CASE ran' = ran
            BY <3>1, <3>2
        <3>3. CASE c # 0 /\ ran' = [ran EXCEPT ![c] = @ + 1]
            <4>1. CASE d = c
                <5>1. ran'[c] = ran[c] + 1
                    BY <1>0, <2>3, <3>3
                <5>2. ran'[d] = 1 /\ ~(d > calls)
                    BY <1>0, <2>3, <3>1, <3>3, <4>1, <5>1
                <5> QED BY <5>2
            <4>2. CASE d # c
                BY <1>0, <2>3, <3>1, <3>3, <4>2
            <4> QED BY <4>1, <4>2
        <3> QED BY <2>1, <3>2, <3>3
    <2> QED BY <2>1, <2>2, <2>4 DEF Once
<1>6. CASE ReactStart
    BY <1>0, <1>6, ReactStartDoes DEF Once
<1>7. CASE ModelText
    <2>1. run'.todo = <<>> /\ chan'.pending = chan.pending /\ ran' = ran /\ calls' = calls
        BY <1>0, <1>7, ModelTextDoes DEF Idle
    <2> QED BY <2>1 DEF Once
<1>8. CASE ModelTools
    <2>1. PICK n \in 1..MaxBatch : calls + n <= MaxCalls /\ calls' = calls + n
                                   /\ run'.todo = [i \in 1..n |-> calls + i]
        BY <1>0, <1>8, ModelToolsDoes
    <2>2. chan' = chan /\ ran' = ran
        BY <1>0, <1>8, ModelToolsDoes
    <2>3. \A i \in DOMAIN run'.todo : run'.todo[i] <= calls' /\ ran[run'.todo[i]] = 0
        <3> SUFFICES ASSUME NEW i \in 1..n PROVE calls + i <= calls + n /\ ran[calls + i] = 0
            BY <2>1
        <3>1. calls + i \in CallIds /\ calls + i > calls /\ calls + i <= calls + n
            BY <1>0, <2>1, Bounds DEF CallIds
        <3> QED BY <3>1 DEF Once
    <2>4. \A c \in CallIds : c > calls' => c > calls
        BY <1>0, <2>1 DEF CallIds
    <2>5. chan.pending # NoPending => chan.pending.call <= calls'
        BY <1>0, <2>1 DEF Once, Pending, CallIds
    <2> QED BY <2>2, <2>3, <2>4, <2>5 DEF Once
<1>9. CASE Answers
    <2>1. run'.todo = Tail(run.todo) /\ ran' = ran /\ calls' = calls /\ chan' = chan
        BY <1>9 DEF Answers
    <2>2. \A i \in DOMAIN Tail(run.todo) : Tail(run.todo)[i] <= calls /\ ran[Tail(run.todo)[i]] = 0
        BY <1>0, <1>9, TodoTail DEF Answers, Once
    <2> QED BY <2>1, <2>2 DEF Once
<1>10. CASE Asks
    <2>1. chan'.pending.call = Head(run.todo) /\ run'.todo = <<>> /\ ran' = ran /\ calls' = calls
        BY <1>10 DEF Asks, Idle
    <2>2. Head(run.todo) <= calls /\ ran[Head(run.todo)] = 0
        BY <1>0, <1>10, TodoTail DEF Asks, Once
    <2> QED BY <2>1, <2>2 DEF Once
<1>11. CASE NextRound
    BY <1>0, <1>11, NextRoundDoes DEF Once
<1>12. CASE Respond
    BY <1>12, RespondDoes DEF Once
<1>14. CASE Evict
    BY <1>14 DEF Once, Evict
<1>15. CASE Restart
    <2>1. chan'.pending = NoPending /\ run'.todo = <<>> /\ ran' = ran /\ calls' = calls
        BY <1>0, <1>15, RestartDoes, EmptyIs, IdleIs
    <2> QED BY <2>1 DEF Once
<1>16. CASE UNCHANGED vars
    BY <1>16 DEF Once, vars
<1> QED BY <1>0, <1>1, <1>2, <1>3, <1>4, <1>5, <1>6, <1>7, <1>8, <1>9, <1>10, <1>11, <1>12,
           <1>14, <1>15, <1>16, Steps
-----------------------------------------------------------------------------
(* The prompts and the rounds of a task.                                   *)

Prompted ==
    /\ prompts <= 3
    /\ busy \/ next = "wait_user" \/ sess # NoSession => prompts <= chan.confirms
    /\ busy /\ next = "wait_user" => prompts < chan.confirms /\ chan.confirms <= 3
    /\ run.at # "start" => chan.confirms <= run.confirms

LEMMA InitPrompted == Init => Prompted
<1> SUFFICES ASSUME Init PROVE Prompted
    OBVIOUS
<1>1. prompts = 0 /\ busy = FALSE /\ next = "end" /\ sess = NoSession /\ run.at = "start"
    BY DEF Init, Idle
<1> QED BY <1>1 DEF Prompted

LEMMA StepPrompted == Types /\ Replies /\ Phase /\ Prompted /\ [Next]_vars /\ ~ModelFails => Prompted'
<1> SUFFICES ASSUME Types, Replies, Phase, Prompted, [Next]_vars, ~ModelFails PROVE Prompted'
    OBVIOUS
<1>0. TypeOK /\ RunAt /\ prompts \in Nat /\ chan.confirms \in Nat /\ run.confirms \in Nat
    BY TypeIs DEF Types, Channels, Runs
<1>1. CASE Resume
    BY <1>0, <1>1, ResumeDoes DEF Prompted, RunAt
<1>2. CASE Invoke
    <2>1. /\ chan'.confirms = Start.confirms /\ ~busy /\ next # "wait_user" /\ run' = run
          /\ prompts' = (IF Start = NewState THEN 0 ELSE prompts) /\ next' = "classify"
          /\ run.at = "start"
        BY <1>0, <1>2, InvokeDoes DEF RunAt
    <2>2. /\ Start # NewState => sess # NoSession /\ Start.confirms = chan.confirms
          /\ Start = NewState => Start.confirms = 0
        BY <1>0, <2>1, StartIs
    <2> QED BY <1>0, <2>1, <2>2 DEF Prompted
<1>3. CASE Classify
    BY <1>3, ClassifyDoes DEF Prompted
<1>4. CASE HandleMeta
    BY <1>0, <1>4, MetaDoes DEF Prompted
<1>5. CASE HandleConfirm
    BY <1>0, <1>5, ConfirmDoes DEF Prompted
<1>6. CASE ReactStart
    BY <1>0, <1>6, ReactStartDoes DEF Prompted
<1>7. CASE ModelText
    <2>1. chan.pending = NoPending
        BY <1>0, <1>7, ModelTextDoes DEF Phase, RunAt
    <2>2. /\ chan'.confirms = run.confirms /\ prompts' = prompts /\ next' = "end" /\ run'.at = "start"
          /\ busy /\ chan.confirms <= run.confirms
        BY <1>0, <1>7, <2>1, ModelTextDoes DEF Idle, Prompted
    <2> QED BY <1>0, <2>2 DEF Prompted
<1>8. CASE ModelTools
    BY <1>0, <1>8, ModelToolsDoes DEF Prompted
<1>9. CASE Answers
    <2>1. /\ run'.confirms >= run.confirms /\ run'.confirms \in Nat /\ chan.confirms <= run.confirms
          /\ UNCHANGED <<busy, next, chan, sess, prompts>>
        BY <1>9, StepTypeOK DEF Prompted, Answers, TypeOK, Types
    <2> QED BY <1>0, <2>1 DEF Prompted
<1>10. CASE Asks
    <2>1. /\ chan'.confirms = run.confirms + 1 /\ prompts' = prompts /\ run'.at = "start"
          /\ busy /\ chan.confirms <= run.confirms /\ run.confirms + 1 <= 3
        BY <1>10 DEF Asks, Idle, Prompted
    <2> QED BY <1>0, <2>1 DEF Prompted
<1>11. CASE NextRound
    BY <1>0, <1>11, NextRoundDoes DEF Prompted
<1>12. CASE Respond
    <2>1. next = "end" \/ next = "wait_user"
        BY <1>12, RespondDoes
    <2>2. CASE next = "end"
        <3>1. prompts' = prompts
            BY <1>12, <2>2, RespondDoes DEF Phase
        <3> QED BY <1>12, <2>2, <3>1, RespondDoes DEF Prompted
    <2>3. CASE next = "wait_user"
        <3>1. prompts' = prompts \/ prompts' = prompts + 1
            BY <1>12, RespondDoes
        <3>2. prompts < chan.confirms /\ chan.confirms <= 3
            BY <1>12, <2>3, RespondDoes DEF Prompted
        <3>3. ~busy' /\ next' = next /\ chan' = chan /\ run' = run /\ run.at = "start"
            BY <1>0, <1>12, <2>3, RespondDoes DEF RunAt
        <3> QED BY <1>0, <2>3, <3>1, <3>2, <3>3 DEF Prompted
    <2> QED BY <2>1, <2>2, <2>3
<1>14. CASE Evict
    BY <1>14 DEF Prompted, Evict
<1>15. CASE Restart
    <2>1. prompts' = prompts /\ ~busy' /\ next' = "end" /\ sess' = NoSession /\ run'.at = "start"
        BY <1>0, <1>15, RestartDoes, IdleIs
    <2> QED BY <2>1 DEF Prompted
<1>16. CASE UNCHANGED vars
    BY <1>16 DEF Prompted, vars
<1> QED BY <1>0, <1>1, <1>2, <1>3, <1>4, <1>5, <1>6, <1>7, <1>8, <1>9, <1>10, <1>11, <1>12,
           <1>14, <1>15, <1>16, Steps

\* The rounds the prompts so far have paid for.
Paid == MAX_TOOL_ROUNDS * prompts
Rounds ==
    /\ rounds <= Paid + MAX_TOOL_ROUNDS
    /\ next \notin {"react", "end", "wait_user"} => rounds <= Paid
    /\ ~busy /\ next = "wait_user" => rounds <= Paid
    /\ next = "end" /\ ~chan.complete /\ (busy \/ sess # NoSession) => rounds <= Paid
    /\ next = "react" /\ run.at = "start" => rounds <= Paid
    /\ run.at = "llm" => rounds <= Paid + (run.round - 1)
    /\ run.at = "tools" => rounds <= Paid + run.round

LEMMA PaidNext ==
    ASSUME NEW m \in Nat, NEW p \in Nat
    PROVE  m * p \in Nat /\ m * (p + 1) = m * p + m /\ m * 0 = 0
OBVIOUS

LEMMA InitRounds == Init => Rounds
<1> SUFFICES ASSUME Init PROVE Rounds
    OBVIOUS
<1>1. rounds = 0 /\ prompts = 0 /\ next = "end" /\ sess = NoSession /\ run.at = "start" /\ busy = FALSE
    BY DEF Init, Idle
<1>2. Paid = 0
    BY <1>1, Bounds DEF Paid
<1> QED BY <1>1, <1>2, Bounds DEF Rounds

LEMMA StepRounds == Types /\ Replies /\ Phase /\ Rounds /\ [Next]_vars /\ ~ModelFails => Rounds'
<1> SUFFICES ASSUME Types, Replies, Phase, Rounds, [Next]_vars, ~ModelFails PROVE Rounds'
    OBVIOUS
<1>0. /\ TypeOK /\ RunAt /\ prompts \in Nat /\ rounds \in Nat /\ run.round \in Nat
      /\ Paid \in Nat /\ MAX_TOOL_ROUNDS \in Nat
      /\ run.at \in {"start", "llm", "tools"}
    <2>1. prompts \in Nat /\ rounds \in Nat /\ run.round \in Nat /\ run.at \in {"start", "llm", "tools"}
        BY TypeIs DEF Types, Runs
    <2>2. Paid \in Nat /\ MAX_TOOL_ROUNDS \in Nat
        BY <2>1, Bounds, PaidNext DEF Paid
    <2> QED BY <2>1, <2>2 DEF Types
<1>17. prompts' = prompts => Paid' = Paid
    BY DEF Paid
<1>1. CASE Resume
    BY <1>0, <1>1, <1>17, ResumeDoes DEF Rounds, RunAt
<1>2. CASE Invoke
    <2>1. /\ ~busy /\ next # "wait_user" /\ run' = run /\ next' = "classify" /\ run.at = "start"
          /\ prompts' = (IF Start = NewState THEN 0 ELSE prompts)
          /\ rounds' = (IF Start = NewState THEN 0 ELSE rounds)
        BY <1>0, <1>2, InvokeDoes DEF RunAt
    <2>2. next = "end" /\ (Start # NewState => sess # NoSession /\ ~chan.complete)
        BY <1>0, <2>1, StartIs
    <2>3. CASE Start = NewState
        <3>1. Paid' = 0 /\ rounds' = 0
            BY <1>0, <2>1, <2>3 DEF Paid
        <3> QED BY <1>0, <2>1, <3>1 DEF Rounds
    <2>4. CASE Start # NewState
        <3>1. Paid' = Paid /\ rounds' = rounds /\ rounds <= Paid
            BY <1>17, <2>1, <2>2, <2>4 DEF Rounds
        <3> QED BY <1>0, <2>1, <3>1 DEF Rounds
    <2> QED BY <2>3, <2>4
<1>3. CASE Classify
    BY <1>0, <1>3, <1>17, ClassifyDoes DEF Rounds, RunAt
<1>4. CASE HandleMeta
    BY <1>0, <1>4, <1>17, MetaDoes DEF Rounds, RunAt
<1>5. CASE HandleConfirm
    BY <1>0, <1>5, <1>17, ConfirmDoes DEF Rounds, RunAt
<1>6. CASE ReactStart
    BY <1>0, <1>6, <1>17, ReactStartDoes DEF Rounds
<1>7. CASE ModelText
    <2>1. /\ run'.at = "start" /\ rounds' = rounds /\ Paid' = Paid /\ next' = "end" /\ chan'.complete
          /\ busy' = busy /\ busy /\ run.at = "llm"
        BY <1>0, <1>7, <1>17, ModelTextDoes DEF Idle, Phase, RunAt
    <2> QED BY <1>0, <2>1 DEF Rounds
<1>8. CASE ModelTools
    <2>1. /\ run.at = "llm" /\ run'.at = "tools" /\ run'.round = run.round /\ rounds' = rounds + 1
          /\ Paid' = Paid /\ next' = next /\ next = "react" /\ run.round <= MAX_TOOL_ROUNDS
        BY <1>0, <1>8, <1>17, ModelToolsDoes DEF RunAt
    <2> QED BY <1>0, <2>1 DEF Rounds
<1>9. CASE Answers
    <2>1. /\ run'.at = "tools" /\ run.at = "tools" /\ run'.round = run.round /\ rounds' = rounds
          /\ Paid' = Paid /\ next' = next /\ next = "react"
        BY <1>0, <1>9, <1>17 DEF Answers, RunAt
    <2> QED BY <1>0, <2>1 DEF Rounds
<1>10. CASE Asks
    <2>1. /\ run'.at = "start" /\ run.at = "tools" /\ run.round <= MAX_TOOL_ROUNDS /\ rounds' = rounds
          /\ Paid' = Paid /\ next' = "wait_user" /\ busy'
        BY <1>0, <1>10, <1>17 DEF Asks, RunAt, Idle
    <2> QED BY <1>0, <2>1 DEF Rounds
<1>11. CASE NextRound
    <2>1. /\ run'.at = "llm" /\ run.at = "tools" /\ run'.round = run.round + 1 /\ rounds' = rounds
          /\ Paid' = Paid /\ next' = next /\ next = "react" /\ run.round <= MAX_TOOL_ROUNDS
        BY <1>0, <1>11, <1>17, NextRoundDoes DEF RunAt
    <2> QED BY <1>0, <2>1 DEF Rounds
<1>12. CASE Respond
    <2>1. /\ next' = next /\ run' = run /\ rounds' = rounds /\ chan' = chan /\ busy /\ ~busy'
          /\ run.at = "start" /\ next \in {"end", "wait_user"}
        BY <1>0, <1>12, RespondDoes DEF RunAt
    <2>2. CASE next = "end"
        <3>1. prompts' = prompts
            BY <1>12, <2>2, RespondDoes DEF Phase
        <3> QED BY <1>0, <1>17, <2>1, <2>2, <3>1 DEF Rounds
    <2>3. CASE next = "wait_user"
        <3>1. prompts' = prompts + 1
            BY <1>12, <2>3, RespondDoes DEF Phase
        <3>2. Paid' = Paid + MAX_TOOL_ROUNDS
            BY <1>0, <3>1, PaidNext DEF Paid
        <3> QED BY <1>0, <2>1, <2>3, <3>2 DEF Rounds
    <2> QED BY <2>1, <2>2, <2>3
<1>14. CASE Evict
    BY <1>0, <1>14, <1>17 DEF Rounds, Evict
<1>15. CASE Restart
    <2>1. /\ Paid' = Paid /\ rounds' = rounds /\ ~busy' /\ next' = "end" /\ sess' = NoSession
          /\ run'.at = "start"
        BY <1>0, <1>15, <1>17, RestartDoes, IdleIs
    <2> QED BY <1>0, <2>1 DEF Rounds
<1>16. CASE UNCHANGED vars
    BY <1>0, <1>16, <1>17 DEF Rounds, vars
<1> QED BY <1>0, <1>1, <1>2, <1>3, <1>4, <1>5, <1>6, <1>7, <1>8, <1>9, <1>10, <1>11, <1>12,
           <1>14, <1>15, <1>16, Steps
-----------------------------------------------------------------------------
(* The message and the picture react_node tells the model about.           *)

Pic(t, n) == IF t = "photo" THEN n ELSE 0
Picture ==
    /\ busy /\ ~resumed /\ (next # "end" \/ ~chan.complete) => chan.photo = Pic(text, turns)
    /\ next = "end" /\ ~chan.complete /\ (busy \/ sess # NoSession) => chan.photo = 0

LEMMA InitPicture == Init => Picture
<1> SUFFICES ASSUME Init PROVE Picture
    OBVIOUS
<1>1. sess = NoSession /\ busy = FALSE
    BY DEF Init
<1> QED BY <1>1 DEF Picture

LEMMA StepPicture == Types /\ Replies /\ Phase /\ Picture /\ [Next]_vars /\ ~ModelFails => Picture'
<1> SUFFICES ASSUME Types, Replies, Phase, Picture, [Next]_vars, ~ModelFails PROVE Picture'
    OBVIOUS
<1>0. TypeOK /\ RunAt
    BY DEF Types
<1>1. CASE Resume
    BY <1>0, <1>1, ResumeDoes DEF Picture
<1>2. CASE Invoke
    <2>1. /\ ~busy /\ next # "wait_user" /\ next' = "classify" /\ busy'
          /\ chan'.photo = IF text' = "photo" THEN turns' ELSE Start.photo
        BY <1>0, <1>2, InvokeDoes
    <2>2. Start.photo = 0
        BY <1>0, <2>1, StartIs DEF Picture
    <2> QED BY <2>1, <2>2 DEF Picture, Pic
<1>3. CASE Classify
    <2>1. next' # "end"
        BY <1>3, ClassifyDoes DEF Replies
    <2> QED BY <1>3, <2>1, ClassifyDoes DEF Picture
<1>4. CASE HandleMeta
    <2>1. ~resumed /\ chan.photo = Pic(text, turns)
        BY <1>0, <1>4, MetaDoes DEF Phase, Picture
    <2>2. ~chan'.complete => text = "/cal" /\ chan'.photo = 0
        BY <1>0, <1>4, <2>1, MetaDoes DEF Pic
    <2>3. text' = text /\ turns' = turns /\ chan'.photo = chan.photo
        BY <1>0, <1>4, MetaDoes
    <2> QED BY <2>1, <2>2, <2>3 DEF Picture
<1>5. CASE HandleConfirm
    BY <1>0, <1>5, ConfirmDoes DEF Picture
<1>6. CASE ReactStart
    BY <1>0, <1>6, ReactStartDoes DEF Picture
<1>7. CASE ModelText
    <2>1. chan'.complete /\ next' = "end"
        BY <1>0, <1>7, ModelTextDoes DEF Phase, RunAt
    <2> QED BY <2>1 DEF Picture
<1>8. CASE ModelTools
    BY <1>0, <1>8, ModelToolsDoes DEF Picture
<1>9. CASE Answers
    BY <1>9 DEF Picture, Answers
<1>10. CASE Asks
    <2>1. next = "react"
        BY <1>0, <1>10 DEF Asks, RunAt
    <2> QED BY <1>10, <2>1 DEF Picture, Asks
<1>11. CASE NextRound
    BY <1>0, <1>11, NextRoundDoes DEF Picture
<1>12. CASE Respond
    BY <1>12, RespondDoes DEF Picture
<1>14. CASE Evict
    BY <1>14 DEF Picture, Evict
<1>15. CASE Restart
    BY <1>0, <1>15, RestartDoes DEF Picture
<1>16. CASE UNCHANGED vars
    BY <1>16 DEF Picture, vars
<1> QED BY <1>0, <1>1, <1>2, <1>3, <1>4, <1>5, <1>6, <1>7, <1>8, <1>9, <1>10, <1>11, <1>12,
           <1>14, <1>15, <1>16, Steps

-----------------------------------------------------------------------------
(* The turns and the pictures of the messages.                             *)

\* Messages of turns before n, and messages whose own turn, if that is n, has
\* no picture but n.
Early(n) == {m \in Message : m.role = "user" => \A t \in m.ids : t < n}
Mine(n)  == {m \in Message : m.role = "user" /\ n \in m.ids => m.pics \subseteq {n}}

LEMMA EarlyIs ==
    /\ \A n : Early(n) \subseteq Message /\ Mine(n) \subseteq Message
    /\ \A n \in Nat : Early(n) \subseteq Early(n + 1) /\ Early(n) \subseteq Mine(n)
    /\ \A n : \A m \in Message : m.role # "user" \/ m.ids = {} => m \in Early(n) /\ m \in Mine(n)
<1>1. \A n : Early(n) \subseteq Message /\ Mine(n) \subseteq Message
    BY DEF Early, Mine
<1>2. ASSUME NEW n \in Nat, NEW m \in Early(n) PROVE m \in Early(n + 1) /\ m \in Mine(n)
    <2>1. m \in Message /\ m.ids \subseteq Ids
        BY DEF Early, Message, Ids
    <2>2. \A t \in Ids : t < n => t < n + 1 /\ t # n
        BY Bounds DEF Ids
    <2> QED BY <2>1, <2>2 DEF Early, Mine
<1>3. \A n : \A m \in Message : m.role # "user" \/ m.ids = {} => m \in Early(n) /\ m \in Mine(n)
    BY DEF Early, Mine
<1> QED BY <1>1, <1>2, <1>3

LEMMA WiderSeq ==
    ASSUME NEW S, NEW T, S \subseteq T, NEW s \in Seq(S)
    PROVE  s \in Seq(T)
<1>1. Len(s) \in Nat /\ s \in [1..Len(s) -> S]
    BY LenProperties
<1>2. s \in [1..Len(s) -> T]
    BY <1>1
<1> QED BY <1>1, <1>2

\* What the helpers of react_node do keeps to such a set of messages.
Keeps(T) ==
    /\ T \subseteq Message
    /\ \A m \in Message : m.role # "user" \/ m.ids = {} => m \in T
    /\ \A m \in T, k \in Nat : [m EXCEPT !.mid = k] \in T

LEMMA EarlyKeeps == \A n : Keeps(Early(n)) /\ Keeps(Mine(n))
<1> SUFFICES ASSUME NEW n PROVE Keeps(Early(n)) /\ Keeps(Mine(n))
    OBVIOUS
<1>1. ASSUME NEW m \in Message, NEW k \in Nat
      PROVE  LET p == [m EXCEPT !.mid = k]
             IN  p \in Message /\ p.role = m.role /\ p.ids = m.ids /\ p.pics = m.pics
    BY DEF Message
<1>2. \A m \in Early(n), k \in Nat : [m EXCEPT !.mid = k] \in Early(n)
    BY <1>1 DEF Early
<1>3. \A m \in Mine(n), k \in Nat : [m EXCEPT !.mid = k] \in Mine(n)
    BY <1>1 DEF Mine
<1> QED BY <1>2, <1>3, EarlyIs DEF Keeps

LEMMA FixKeeps ==
    ASSUME NEW T, Keeps(T), NEW conv \in Seq(T)
    PROVE  FixOrphaned(conv) \in Seq(T)
<1>1. conv \in Msgs /\ Len(conv) \in Nat /\ DOMAIN conv = 1..Len(conv)
      /\ \A e \in 1..Len(conv) : conv[e] \in T
    BY WiderSeq, LenProperties, ElementOfSeq DEF Keeps, Msgs
<1>2. ASSUME NEW e \in 1..Len(conv) PROVE Parts(conv)[e] \in Seq(T)
    <2> DEFINE A == After(conv, e)
    <2>1. A \in SUBSET Ids
        BY <1>1, AfterIds
    <2> HIDE DEF A
    <2>2. /\ Results(A) \in Seq(Message) /\ Len(Results(A)) = Cardinality(A)
          /\ \A i \in 1..Cardinality(A) : Results(A)[i].role = "tool"
        BY <2>1, ResultsAre DEF Msgs
    <2>3. Len(Results(A)) \in Nat /\ Results(A) \in [1..Len(Results(A)) -> Message]
        BY <2>2, LenProperties
    <2>4. Results(A) \in [1..Len(Results(A)) -> T]
        BY <2>2, <2>3 DEF Keeps
    <2>5. Results(A) \in Seq(T)
        BY <2>3, <2>4
    <2>6. <<conv[e]>> \in Seq(T)
        BY <1>1
    <2>7. Parts(conv)[e] = <<conv[e]>> \o Results(A)
        BY <1>1, PartsType DEF A
    <2> QED BY <2>5, <2>6, <2>7, ConcatProperties
<1>3. Parts(conv) \in Seq(Seq(T))
    <2>1. Parts(conv) \in Seq(Msgs) /\ Len(Parts(conv)) = Len(conv)
        BY <1>1, PartsType
    <2>2. Parts(conv) \in [1..Len(conv) -> Msgs]
        BY <2>1, LenProperties
    <2>3. Parts(conv) \in [1..Len(conv) -> Seq(T)]
        BY <1>2, <2>2
    <2> QED BY <1>1, <2>3
<1> QED BY <1>3, FixIs, FlattenType

LEMMA AddKeeps ==
    ASSUME NEW T, Keeps(T), NEW old \in Seq(T), NEW conv \in Seq(T)
    PROVE  AddMessages(old, conv) \in Seq(T)
<1> DEFINE p == [i \in DOMAIN conv |-> IF conv[i].mid = 0 THEN <<conv[i]>> ELSE <<>>]
<1>1. Len(conv) \in Nat /\ DOMAIN conv = 1..Len(conv) /\ Len(old) \in Nat
      /\ \A i \in 1..Len(conv) : conv[i] \in T
    BY LenProperties, ElementOfSeq
<1>2. \A i \in 1..Len(conv) : (IF conv[i].mid = 0 THEN <<conv[i]>> ELSE <<>>) \in Seq(T)
    <2>1. \A x \in T : <<x>> \in Seq(T)
        OBVIOUS
    <2> QED BY <1>1, <2>1, EmptySeq
<1>3. p \in [1..Len(conv) -> Seq(T)]
    BY <1>1, <1>2
<1>4. p \in Seq(Seq(T)) /\ New(conv) = FlattenSeq(p)
    BY <1>1, <1>3 DEF New
<1> HIDE DEF p
<1> DEFINE new == New(conv)
<1>5. new \in Seq(T)
    BY <1>4, FlattenType
<1> HIDE DEF new
<1>6. Len(new) \in Nat /\ DOMAIN new = 1..Len(new) /\ \A i \in 1..Len(new) : new[i] \in T
    BY <1>5, LenProperties, ElementOfSeq
<1>7. \A i \in 1..Len(new) : [new[i] EXCEPT !.mid = Len(old) + i] \in T
    <2> TAKE i \in 1..Len(new)
    <2>1. Len(old) + i \in Nat /\ new[i] \in T
        BY <1>1, <1>6
    <2> HIDE DEF Keeps
    <2> QED BY <2>1 DEF Keeps
<1>8. Placed(old, new) \in [1..Len(new) -> T]
    BY <1>6, <1>7 DEF Placed
<1>9. Placed(old, new) \in Seq(T)
    BY <1>6, <1>8
<1> QED BY <1>9, AddIs, ConcatProperties DEF new

LEMMA TrimKeeps ==
    ASSUME NEW T, Keeps(T), NEW conv \in Seq(T), conv # <<>>
    PROVE  Trim(conv) \in Seq(T)
<1> DEFINE n == Len(conv)
           H == MAX_HISTORY
           recent == SubSeq(conv, n - H + 1, n)
           first == SelectInSeq(recent, LAMBDA m : m.role # "tool")
<1>0. n \in Nat /\ n # 0 /\ H \in Nat \ {0} /\ \A i \in 1..n : conv[i] \in T
    BY EmptySeq, LenProperties, ElementOfSeq, GraphAssumption
<1>1. CASE n <= H + 1
    BY <1>1 DEF Trim
<1>2. CASE ~(n <= H + 1)
    <2>1. recent \in Seq(T) /\ Len(recent) \in Nat
        <3> HIDE DEF n, H
        <3>1. \A i \in (n - H + 1)..n : conv[i] \in T
            BY <1>0, <1>2
        <3>2. SubSeq(conv, n - H + 1, n) \in Seq(T)
            BY <1>0, <3>1, SubSeqProperties
        <3> QED BY <3>2, LenProperties
    <2>2. first \in Nat
        <3> DEFINE I == {i \in 1..Len(recent) : recent[i].role # "tool"}
        <3>1. first = 0 \/ first \in I
            <4>1. first = IF I # {} THEN Min(I) ELSE 0
                BY DEF SelectInSeq, first
            <4>2. CASE I # {}
                <5>1. I \subseteq Nat
                    BY <2>1
                <5> HIDE DEF I
                <5>2. \E i \in I : \A k \in I : i <= k
                    BY <4>2, <5>1, Least
                <5> QED BY <4>1, <4>2, <5>2 DEF Min
            <4> QED BY <4>1, <4>2
        <3> HIDE DEF first, recent
        <3> QED BY <2>1, <3>1
    <2> HIDE DEF first, recent
    <2>3. first # 0 => SubSeq(recent, first, Len(recent)) \in Seq(T)
        <3> SUFFICES ASSUME first # 0 PROVE SubSeq(recent, first, Len(recent)) \in Seq(T)
            OBVIOUS
        <3>1. \A i \in 1..Len(recent) : recent[i] \in T
            BY <2>1, ElementOfSeq
        <3>2. \A i \in first..Len(recent) : recent[i] \in T
            BY <2>1, <2>2, <3>1
        <3> QED BY <2>1, <2>2, <3>2, SubSeqProperties
    <2> DEFINE rest == IF first = 0 THEN <<>> ELSE SubSeq(recent, first, Len(recent))
    <2>4. rest \in Seq(T)
        BY <2>3, EmptySeq
    <2>5. <<conv[1]>> \in Seq(T)
        BY <1>0
    <2>6. Trim(conv) = <<conv[1]>> \o rest
        BY <1>2 DEF Trim, first, recent
    <2> HIDE DEF rest
    <2> QED BY <2>4, <2>5, <2>6, ConcatProperties
<1> QED BY <1>1, <1>2

\* The message of turn n is in the conversation.
Holds(conv, n) == \E k \in DOMAIN conv : conv[k].role = "user" /\ n \in conv[k].ids

\* Unless a reply is being dealt with, the stored history is settled, so that
\* react_node takes the message up.
Taken ==
    /\ next = "end" \/ (busy /\ ~resumed /\ next # "wait_user") => Settled(chan.msgs)
    /\ run.at # "start" /\ ~resumed => Holds(run.conv, turns) /\ run.shown = Pic(text, turns)

LEMMA HoldsAppend ==
    ASSUME NEW conv \in Msgs, NEW m \in Message, NEW n
    PROVE  /\ Holds(conv, n) => Holds(Append(conv, m), n)
           /\ m.role = "user" /\ n \in m.ids => Holds(Append(conv, m), n)
<1> DEFINE a == Append(conv, m)
<1>1. /\ a \in Msgs /\ Len(a) = Len(conv) + 1 /\ \A i \in 1..Len(conv) : a[i] = conv[i]
      /\ a[Len(conv) + 1] = m /\ Len(conv) \in Nat /\ DOMAIN conv = 1..Len(conv)
    BY AppendProperties, LenProperties DEF Msgs
<1> HIDE DEF a
<1>2. DOMAIN a = 1..(Len(conv) + 1)
    BY <1>1, LenProperties DEF Msgs
<1>3. \A i \in 1..Len(conv) : i \in DOMAIN a
    BY <1>1, <1>2
<1>4. Len(conv) + 1 \in DOMAIN a
    BY <1>1, <1>2
<1>5. Holds(conv, n) => Holds(a, n)
    BY <1>1, <1>3 DEF Holds
<1>6. m.role = "user" /\ n \in m.ids => Holds(a, n)
    BY <1>1, <1>4 DEF Holds
<1> QED BY <1>5, <1>6 DEF a

\* While a message that is not a reply is dealt with, the stored messages are of
\* earlier turns; once react_node has taken it up, none of its turn has another
\* picture.
Own ==
    /\ busy => turns # 0
    /\ chan.msgs \in Seq(Early(turns + 1))
    /\ busy /\ ~resumed /\ next \notin {"end", "wait_user"} => chan.msgs \in Seq(Early(turns))
    /\ run.conv \in Seq(Early(turns + 1))
    /\ run.at # "start" /\ ~resumed /\ text = "photo" => run.conv \in Seq(Mine(turns))

LEMMA InitOwn == Init => Own
<1>1. <<>> \in Seq(Early(turns + 1))
    BY EmptySeq
<1>2. Init => chan.msgs = <<>> /\ run.conv = <<>> /\ run.at = "start" /\ busy = FALSE
    <2>1. Idle.conv = <<>>
        BY DEF Idle
    <2> QED BY <2>1, EmptyIs, IdleIs DEF Init
<1> QED BY <1>1, <1>2 DEF Own

LEMMA KeptAppend ==
    ASSUME NEW T, Keeps(T), NEW conv \in Seq(T), NEW m \in Message, m.role # "user" \/ m.ids = {}
    PROVE  Append(conv, m) \in Seq(T)
<1>1. m \in T
    BY DEF Keeps
<1> QED BY <1>1, AppendProperties

LEMMA StepOwn == Types /\ Phase /\ Picture /\ Own /\ [Next]_vars /\ ~ModelFails => Own'
<1> SUFFICES ASSUME Types, Phase, Picture, Own, [Next]_vars, ~ModelFails PROVE Own'
    OBVIOUS
<1>0. /\ TypeOK /\ RunAt /\ turns \in Nat /\ turns + 1 \in Nat /\ run.conv \in Msgs
      /\ chan.msgs \in Seq(Early(turns + 1)) /\ run.conv \in Seq(Early(turns + 1))
    BY TypeIs, Bounds DEF Types, Own, Runs
<1>1. Keeps(Early(turns)) /\ Keeps(Early(turns + 1)) /\ Keeps(Mine(turns))
    BY EarlyKeeps
<1>2. \A s : s \in Seq(Early(turns + 1)) => s \in Seq(Early(turns + 1 + 1))
    BY <1>0, EarlyIs, WiderSeq
<1>3. CASE Resume
    <2>1. resumed' /\ turns' = turns + 1 /\ run' = run /\ chan'.msgs = chan.msgs
        BY <1>0, <1>3, ResumeDoes
    <2>2. chan'.msgs \in Seq(Early(turns' + 1)) /\ run'.conv \in Seq(Early(turns' + 1))
        BY <1>0, <1>2, <2>1
    <2>3. turns' # 0
        BY <1>0, <2>1
    <2> QED BY <2>1, <2>2, <2>3 DEF Own
<1>4. CASE Invoke
    <2>1. /\ ~busy /\ turns' = turns + 1 /\ run' = run /\ run.at = "start"
          /\ chan'.msgs = IF Start.fresh THEN AddMessages(chan.msgs, <<SystemMsg>>) ELSE chan.msgs
        BY <1>0, <1>4, InvokeDoes DEF RunAt
    <2>2. <<SystemMsg>> \in Seq(Early(turns + 1))
        <3>1. SystemMsg \in Early(turns + 1)
            BY <1>1, SystemType DEF Keeps
        <3> QED BY <3>1
    <2>3. chan'.msgs \in Seq(Early(turns + 1))
        BY <1>0, <1>1, <2>1, <2>2, AddKeeps
    <2> QED BY <1>0, <1>2, <2>1, <2>3 DEF Own
<1>5. CASE Classify
    <2>1. busy /\ next = "classify" /\ UNCHANGED <<busy, resumed, text, chan, run, turns>>
        BY <1>5, ClassifyDoes
    <2> QED BY <2>1 DEF Own
<1>6. CASE HandleMeta
    BY <1>0, <1>6, MetaDoes DEF Own
<1>7. CASE HandleConfirm
    <2>1. /\ busy /\ next = "handle_confirm" /\ UNCHANGED <<busy, resumed, text, run, turns>>
          /\ run.at = "start"
        BY <1>0, <1>7, ConfirmDoes DEF RunAt
    <2>2. ~resumed => chan'.msgs = chan.msgs
        BY <1>0, <1>7, <2>1, ConfirmDoes DEF Phase
    <2>3. chan'.msgs \in Seq(Early(turns + 1))
        <3>1. CASE chan'.msgs = chan.msgs
            BY <1>0, <3>1
        <3>2. CASE chan'.msgs = AddMessages(chan.msgs, <<ToolMsg(chan.pending.call)>>)
            <4> DEFINE m == ToolMsg(chan.pending.call)
            <4>1. m \in Message /\ m.role = "tool"
                BY <1>0, ConfirmType
            <4> HIDE DEF m
            <4>2. <<m>> \in Seq(Early(turns + 1))
                BY <1>1, <4>1 DEF Keeps
            <4> QED BY <1>0, <1>1, <3>2, <4>2, AddKeeps DEF m
        <3> QED BY <1>0, <1>7, <3>1, <3>2, ConfirmDoes
    <2> QED BY <1>0, <2>1, <2>2, <2>3 DEF Own
<1>8. CASE ReactStart
    <2>1. /\ busy /\ next = "react" /\ run'.conv = (IF Resuming THEN Fixed ELSE Append(Fixed, UserMsg))
          /\ UNCHANGED <<busy, resumed, text, next, chan, turns>>
        BY <1>0, <1>8, ReactStartDoes
    <2>2. /\ UserMsg \in Message /\ UserMsg.ids = {turns}
          /\ chan.photo = turns /\ turns # 0 => UserMsg.pics \subseteq {turns}
        <3> DEFINE pics == IF chan.photo = 0 THEN RecentImageContext(Fixed)
                           ELSE IF VisionModel THEN {chan.photo} ELSE {}
                   m == Msg("user", {turns})
        <3>1. m \in Message
            <4>1. {turns} \in SUBSET Ids
                BY <1>0, TypeIs, Bounds DEF Ids
            <4> QED BY <4>1, MsgType
        <3>2. UserMsg = [m EXCEPT !.pics = pics]
            BY DEF UserMsg, UserMessage
        <3>3. chan.photo = turns /\ turns # 0 => pics \subseteq {turns}
            OBVIOUS
        <3> HIDE DEF pics, m
        <3>4. UserMsg.pics = pics
            BY <3>1, <3>2 DEF Message
        <3> QED BY <1>0, <3>3, <3>4, FixedType
    <2>3. Fixed \in Seq(Early(turns + 1))
        BY <1>0, <1>1, FixKeeps DEF Fixed
    <2>4. run'.conv \in Seq(Early(turns + 1))
        <3>1. UserMsg \in Early(turns + 1)
            BY <1>0, <2>2 DEF Early
        <3>2. Append(Fixed, UserMsg) \in Seq(Early(turns + 1))
            BY <2>3, <3>1, AppendProperties
        <3> QED BY <2>1, <2>3, <3>2
    <2>5. ASSUME ~resumed, text = "photo" PROVE run'.conv \in Seq(Mine(turns))
        <3>1. chan.msgs \in Seq(Early(turns))
            BY <2>1, <2>5 DEF Own
        <3>2. Fixed \in Seq(Mine(turns))
            <4>1. Fixed \in Seq(Early(turns))
                BY <1>1, <3>1, FixKeeps DEF Fixed
            <4> QED BY <1>0, <4>1, EarlyIs, WiderSeq
        <3>3. UserMsg \in Mine(turns)
            <4>1. chan.photo = turns
                BY <2>1, <2>5 DEF Picture, Pic
            <4>2. turns # 0
                BY <1>0, <2>1, <2>5 DEF Own
            <4> QED BY <2>2, <4>1, <4>2 DEF Mine
        <3>4. Append(Fixed, UserMsg) \in Seq(Mine(turns))
            BY <3>2, <3>3, AppendProperties
        <3> QED BY <2>1, <3>2, <3>4
    <2> QED BY <1>0, <2>1, <2>4, <2>5 DEF Own
<1>9. CASE ModelText
    <2>1. /\ run' = Idle /\ chan'.msgs = AddMessages(chan.msgs, Trim(Answer)) /\ turns' = turns
          /\ busy' = busy /\ next' \in {"end", "wait_user"}
        BY <1>0, <1>9, ModelTextDoes
    <2>2. Asked \in Seq(Early(turns + 1))
        <3>1. Append(run.conv, Msg("user", {})) \in Seq(Early(turns + 1))
            BY <1>0, <1>1, MsgType, KeptAppend
        <3> QED BY <1>0, <3>1 DEF Asked
    <2>3. Answer \in Seq(Early(turns + 1)) /\ Answer # <<>>
        <3>1. Msg("assistant", {}) \in Message /\ Msg("assistant", {}).role # "user"
            BY MsgType
        <3> QED BY <1>0, <1>1, <2>2, <3>1, KeptAppend, AnswerType DEF Answer
    <2>4. chan'.msgs \in Seq(Early(turns + 1))
        BY <1>0, <1>1, <2>1, <2>3, TrimKeeps, AddKeeps
    <2>5. Idle.conv \in Seq(Early(turns + 1)) /\ Idle.at = "start"
        BY EmptySeq DEF Idle
    <2> QED BY <2>1, <2>4, <2>5 DEF Own
<1>10. CASE ModelTools
    <2>1. PICK n \in 1..MaxBatch :
              /\ calls + n <= MaxCalls
              /\ run'.conv = Append(run.conv, Msg("assistant", (calls + 1)..(calls + n)))
        BY <1>0, <1>10, ModelToolsDoes
    <2> DEFINE m == Msg("assistant", (calls + 1)..(calls + n))
    <2>2. m \in Message /\ m.role # "user"
        BY <1>0, <2>1, BatchType
    <2> HIDE DEF m
    <2>3. run'.conv = Append(run.conv, m)
        BY <2>1 DEF m
    <2>4. run'.conv \in Seq(Early(turns + 1))
        BY <1>0, <1>1, <2>2, <2>3, KeptAppend
    <2>5. run.conv \in Seq(Mine(turns)) => run'.conv \in Seq(Mine(turns))
        BY <1>1, <2>2, <2>3, KeptAppend
    <2>6. run.at # "start" /\ UNCHANGED <<busy, resumed, text, next, chan, turns>>
        BY <1>0, <1>10, ModelToolsDoes
    <2> QED BY <2>4, <2>5, <2>6 DEF Own
<1>11. CASE Answers
    <2> DEFINE m == ToolMsg(Head(run.todo))
    <2>1. run'.conv = Append(run.conv, m) /\ run.todo # <<>>
        BY <1>11 DEF Answers
    <2>2. m \in Message /\ m.role # "user"
        BY <1>0, <2>1, ResultType
    <2> HIDE DEF m
    <2>3. run'.conv \in Seq(Early(turns + 1))
        BY <1>0, <1>1, <2>1, <2>2, KeptAppend
    <2>4. run.conv \in Seq(Mine(turns)) => run'.conv \in Seq(Mine(turns))
        BY <1>1, <2>1, <2>2, KeptAppend
    <2>5. run.at # "start" /\ UNCHANGED <<busy, resumed, text, next, chan, turns>>
        BY <1>11 DEF Answers
    <2> QED BY <2>3, <2>4, <2>5 DEF Own
<1>12. CASE Asks
    <2>1. /\ next' = "wait_user" /\ run' = Idle /\ turns' = turns /\ busy' = busy
          /\ chan'.msgs = AddMessages(chan.msgs, run.conv)
        BY <1>12 DEF Asks
    <2>2. chan'.msgs \in Seq(Early(turns + 1))
        BY <1>0, <1>1, <2>1, AddKeeps
    <2>3. Idle.conv \in Seq(Early(turns + 1)) /\ Idle.at = "start"
        BY EmptySeq DEF Idle
    <2> QED BY <2>1, <2>2, <2>3 DEF Own
<1>13. CASE NextRound
    <2>1. run.at # "start" /\ run'.conv = run.conv /\ UNCHANGED <<busy, resumed, text, next, chan, turns>>
        BY <1>0, <1>13, NextRoundDoes
    <2> QED BY <2>1 DEF Own
<1>14. CASE Respond
    <2>1. ~busy' /\ UNCHANGED <<next, chan, run, turns>> /\ run.at = "start"
        BY <1>0, <1>14, RespondDoes DEF RunAt
    <2> QED BY <2>1 DEF Own
<1>15. CASE Evict
    BY <1>15 DEF Own, Evict
<1>16. CASE Restart
    <2>1. chan'.msgs = <<>> /\ run' = Idle /\ ~busy' /\ turns' = turns
        BY <1>0, <1>16, RestartDoes, EmptyIs
    <2>2. Idle.conv = <<>> /\ Idle.at = "start" /\ <<>> \in Seq(Early(turns + 1))
        BY EmptySeq DEF Idle
    <2> QED BY <2>1, <2>2 DEF Own
<1>17. CASE UNCHANGED vars
    BY <1>17 DEF Own, vars
<1> QED BY <1>3, <1>4, <1>5, <1>6, <1>7, <1>8, <1>9, <1>10, <1>11, <1>12, <1>13, <1>14, <1>15,
           <1>16, <1>17, Steps, <1>0

LEMMA InitTaken == Init => Taken
<1> SUFFICES ASSUME Init PROVE Taken
    OBVIOUS
<1>1. chan.msgs = <<>> /\ run.at = "start"
    BY EmptyIs, IdleIs DEF Init
<1>2. Settled(<<>>)
    <2>1. <<>> \in Msgs /\ Len(<<>>) = 0
        BY EmptySeq DEF Msgs
    <2> QED BY <2>1, SettledIs
<1> QED BY <1>1, <1>2 DEF Taken

\* The system prompt of a new task leaves the history settled.
LEMMA SettledSystem ==
    ASSUME NEW msgs \in Msgs, Settled(msgs)
    PROVE  Settled(AddMessages(msgs, <<SystemMsg>>))
<1>1. Same(AddMessages(msgs, <<SystemMsg>>), Append(msgs, SystemMsg))
    BY SystemType, AddOne
<1>2. Append(msgs, SystemMsg) \in Msgs
    BY SystemType, AppendProperties DEF Msgs
<1>3. AddMessages(msgs, <<SystemMsg>>) \in Msgs
    <2>1. <<SystemMsg>> \in Msgs
        BY SystemType DEF Msgs
    <2> QED BY <2>1, AddType
<1>4. Settled(Append(msgs, SystemMsg))
    BY SystemType, SettledAppend DEF Talk
<1> QED BY <1>1, <1>2, <1>3, <1>4, SettledSame

\* A text answer settles it.
LEMMA SettledText ==
    ASSUME TypeOK
    PROVE  Settled(AddMessages(chan.msgs, Trim(Answer)))
<1> DEFINE t == Trim(Answer)
           a == AddMessages(chan.msgs, t)
           m == Msg("assistant", {})
<1>1. t \in Msgs /\ t # <<>> /\ t[Len(t)] = m /\ a \in Msgs /\ chan.msgs \in Msgs
    BY AnswerType, TypeIs DEF Channels
<1>2. m.role = "assistant" /\ m.ids = {} /\ m.mid = 0
    BY MsgType
<1> HIDE DEF t, m
<1>3. a # <<>> /\ a[Len(a)].role = t[Len(t)].role /\ a[Len(a)].ids = t[Len(t)].ids
    BY <1>1, <1>2, AddLast
<1> HIDE DEF a
<1>4. Settled(a)
    BY <1>1, <1>2, <1>3, SettledAnswer
<1> QED BY <1>4 DEF a, t

LEMMA StepTaken ==
    Types /\ Replies /\ Phase /\ Picture /\ Taken /\ [Next]_vars /\ ~ModelFails => Taken'
<1> SUFFICES ASSUME Types, Replies, Phase, Picture, Taken, [Next]_vars, ~ModelFails PROVE Taken'
    OBVIOUS
<1>0. TypeOK /\ RunAt /\ chan.msgs \in Msgs /\ run.conv \in Msgs
    BY TypeIs DEF Types, Channels, Runs
<1>1. CASE Resume
    <2>1. resumed' /\ next' = "handle_confirm" /\ run' = run
        BY <1>0, <1>1, ResumeDoes
    <2> QED BY <2>1 DEF Taken
<1>2. CASE Invoke
    <2>1. /\ ~busy /\ next # "wait_user" /\ run' = run /\ run.at = "start"
          /\ chan'.msgs = IF Start.fresh THEN AddMessages(chan.msgs, <<SystemMsg>>) ELSE chan.msgs
        BY <1>0, <1>2, InvokeDoes DEF RunAt
    <2>2. Settled(chan.msgs)
        BY <1>0, <2>1, StartIs DEF Taken
    <2>3. Settled(chan'.msgs)
        BY <1>0, <2>1, <2>2, SettledSystem
    <2> QED BY <2>1, <2>3 DEF Taken
<1>3. CASE Classify
    <2>1. busy /\ next = "classify" /\ chan' = chan /\ run' = run /\ UNCHANGED <<busy, resumed, text, turns>>
          /\ ~resumed
        BY <1>3, ClassifyDoes DEF Phase
    <2> QED BY <2>1 DEF Taken
<1>4. CASE HandleMeta
    <2>1. /\ busy /\ next = "handle_meta" /\ chan'.msgs = chan.msgs /\ run' = run /\ ~resumed
          /\ UNCHANGED <<busy, resumed, text, turns>>
        BY <1>0, <1>4, MetaDoes DEF Phase
    <2> QED BY <2>1 DEF Taken
<1>5. CASE HandleConfirm
    <2>1. /\ busy /\ next = "handle_confirm" /\ next' = "react" /\ run' = run /\ run.at = "start"
          /\ UNCHANGED <<busy, resumed, text, turns>>
        BY <1>0, <1>5, ConfirmDoes DEF RunAt
    <2>2. ~resumed => chan'.msgs = chan.msgs
        BY <1>0, <1>5, <2>1, ConfirmDoes DEF Phase
    <2> QED BY <2>1, <2>2 DEF Taken
<1>6. CASE ReactStart
    <2>1. /\ busy /\ next = "react" /\ run'.conv = (IF Resuming THEN Fixed ELSE Append(Fixed, UserMsg))
          /\ run'.shown = (IF Resuming THEN 0 ELSE chan.photo)
          /\ UNCHANGED <<busy, resumed, text, next, chan, turns>>
        BY <1>0, <1>6, ReactStartDoes
    <2>2. ASSUME ~resumed PROVE Holds(run'.conv, turns) /\ run'.shown = Pic(text, turns)
        <3>1. Settled(Fixed)
            BY <1>0, <2>1, <2>2, SettledFix DEF Taken, Fixed
        <3>2. run'.conv = Append(Fixed, UserMsg) /\ run'.shown = chan.photo
            BY <2>1, <3>1 DEF Resuming, Settled
        <3>3. Holds(Append(Fixed, UserMsg), turns)
            BY <1>0, FixedType, HoldsAppend
        <3>4. chan.photo = Pic(text, turns)
            BY <2>1, <2>2 DEF Picture
        <3> QED BY <3>2, <3>3, <3>4
    <2> QED BY <2>1, <2>2 DEF Taken
<1>7. CASE ModelText
    <2>1. run'.at = "start" /\ chan'.msgs = AddMessages(chan.msgs, Trim(Answer))
        BY <1>0, <1>7, ModelTextDoes, IdleIs
    <2> QED BY <1>0, <2>1, SettledText DEF Taken
<1>8. CASE ModelTools
    <2>1. PICK n \in 1..MaxBatch :
              /\ calls + n <= MaxCalls
              /\ run'.conv = Append(run.conv, Msg("assistant", (calls + 1)..(calls + n)))
        BY <1>0, <1>8, ModelToolsDoes
    <2>2. Msg("assistant", (calls + 1)..(calls + n)) \in Message
        BY <1>0, <2>1, BatchType
    <2>3. Holds(run.conv, turns) => Holds(run'.conv, turns)
        BY <1>0, <2>1, <2>2, HoldsAppend
    <2>4. /\ run.at # "start" /\ run'.shown = run.shown
          /\ UNCHANGED <<busy, resumed, text, next, chan, turns>>
        BY <1>0, <1>8, ModelToolsDoes
    <2> QED BY <2>3, <2>4 DEF Taken
<1>9. CASE Answers
    <2>1. run'.conv = Append(run.conv, ToolMsg(Head(run.todo))) /\ run.todo # <<>>
        BY <1>9 DEF Answers
    <2>2. ToolMsg(Head(run.todo)) \in Message
        BY <1>0, <2>1, ResultType
    <2>3. Holds(run.conv, turns) => Holds(run'.conv, turns)
        BY <1>0, <2>1, <2>2, HoldsAppend
    <2>4. /\ run.at # "start" /\ run'.shown = run.shown
          /\ UNCHANGED <<busy, resumed, text, next, chan, turns>>
        BY <1>9 DEF Answers
    <2> QED BY <2>3, <2>4 DEF Taken
<1>10. CASE Asks
    <2>1. next' = "wait_user" /\ run'.at = "start"
        BY <1>10, IdleIs DEF Asks
    <2> QED BY <2>1 DEF Taken
<1>11. CASE NextRound
    BY <1>0, <1>11, NextRoundDoes DEF Taken
<1>12. CASE Respond
    <2>1. ~busy' /\ UNCHANGED <<resumed, next, chan, run, turns>> /\ run.at = "start"
        BY <1>0, <1>12, RespondDoes DEF RunAt
    <2> QED BY <2>1 DEF Taken
<1>14. CASE Evict
    BY <1>14 DEF Taken, Evict
<1>15. CASE Restart
    <2>1. chan'.msgs = <<>> /\ run'.at = "start"
        BY <1>0, <1>15, RestartDoes, EmptyIs, IdleIs
    <2>2. Settled(<<>>)
        <3>1. <<>> \in Msgs /\ Len(<<>>) = 0
            BY EmptySeq DEF Msgs
        <3> QED BY <3>1, SettledIs
    <2> QED BY <2>1, <2>2 DEF Taken
<1>16. CASE UNCHANGED vars
    BY <1>16 DEF Taken, vars
<1> QED BY <1>0, <1>1, <1>2, <1>3, <1>4, <1>5, <1>6, <1>7, <1>8, <1>9, <1>10, <1>11, <1>12,
           <1>14, <1>15, <1>16, Steps
-----------------------------------------------------------------------------
(* The history the model is called with.                                   *)

\* What is behind the last position changes with a message at the end.
LEMMA EndAppend ==
    ASSUME NEW conv \in Msgs, NEW m \in Message, NEW b \in 1..Len(conv)
    PROVE  LET grows == ToolsEnd(conv, b) = Len(conv) /\ m.role = "tool"
               a     == Append(conv, m)
           IN  /\ ToolsEnd(a, b) = IF grows THEN Len(conv) + 1 ELSE ToolsEnd(conv, b)
               /\ Unanswered(a, b) = IF grows THEN Unanswered(conv, b) \ m.ids
                                     ELSE Unanswered(conv, b)
<1> DEFINE n == Len(conv)
           a == Append(conv, m)
           t == ToolsEnd(conv, b)
           grows == t = n /\ m.role = "tool"
           e == IF grows THEN n + 1 ELSE t
<1>1. /\ a \in Msgs /\ Len(a) = n + 1 /\ n \in Nat /\ b \in 1..n
      /\ \A i \in 1..n : a[i] = conv[i]
      /\ a[n + 1] = m
    BY AppendProperties, LenProperties DEF Msgs
<1>2. /\ t \in b..n /\ \A k \in (b + 1)..t : conv[k].role = "tool"
      /\ t < n => conv[t + 1].role # "tool"
    BY ToolsEndIs
<1> HIDE DEF a, t, n
<1>3. b \in 1..Len(a) /\ e \in b..Len(a)
    BY <1>1, <1>2
<1>4. \A k \in (b + 1)..e : a[k].role = "tool"
    <2> SUFFICES ASSUME NEW k \in (b + 1)..e PROVE a[k].role = "tool"
        OBVIOUS
    <2>1. CASE k <= n
        <3>1. k \in 1..n /\ k \in (b + 1)..t
            BY <1>1, <1>2, <2>1
        <3> QED BY <1>1, <1>2, <3>1
    <2>2. CASE ~(k <= n)
        <3>1. k = n + 1 /\ grows
            BY <1>1, <1>2, <2>2
        <3> QED BY <1>1, <3>1
    <2> QED BY <2>1, <2>2
<1>5. e < Len(a) => a[e + 1].role # "tool"
    <2> SUFFICES ASSUME e < Len(a) PROVE a[e + 1].role # "tool"
        OBVIOUS
    <2>1. ~grows /\ e = t
        BY <1>1
    <2>2. CASE t = n
        <3>1. m.role # "tool" /\ a[e + 1] = m
            BY <1>1, <2>1, <2>2
        <3> QED BY <3>1
    <2>3. CASE t # n
        <3>1. t < n /\ t + 1 \in 1..n
            BY <1>1, <1>2, <2>3
        <3>2. a[e + 1] = conv[t + 1]
            BY <1>1, <2>1, <3>1
        <3> QED BY <1>2, <3>1, <3>2
    <2> QED BY <2>2, <2>3
<1>6. ToolsEnd(a, b) = e
    <2> HIDE DEF e
    <2> QED BY <1>1, <1>3, <1>4, <1>5, ToolsEndUnique
<1>7. Unanswered(a, b) = IF grows THEN Unanswered(conv, b) \ m.ids ELSE Unanswered(conv, b)
    <2>1. a[b].ids = conv[b].ids
        BY <1>1
    <2>2. CASE grows
        <3>1. \A k : k \in (b + 1)..e <=> (k \in (b + 1)..t \/ k = n + 1)
            BY <1>1, <1>2, <2>2
        <3>2. \A k \in (b + 1)..t : a[k] = conv[k]
            BY <1>1, <1>2
        <3>3. UNION {a[k].ids : k \in (b + 1)..e} = (UNION {conv[k].ids : k \in (b + 1)..t}) \cup m.ids
            <4> DEFINE K == (b + 1)..e
                       J == (b + 1)..t
            <4>1. \A k : k \in K <=> (k \in J \/ k = n + 1)
                BY <3>1
            <4>2. \A k \in J : a[k].ids = conv[k].ids
                BY <3>2
            <4>3. a[n + 1].ids = m.ids
                BY <1>1
            <4> HIDE DEF K, J
            <4>4. UNION {a[k].ids : k \in K} = (UNION {conv[k].ids : k \in J}) \cup m.ids
                <5>1. ASSUME NEW x, NEW k \in K, x \in a[k].ids
                      PROVE  x \in (UNION {conv[i].ids : i \in J}) \cup m.ids
                    BY <4>1, <4>2, <4>3, <5>1
                <5>2. ASSUME NEW x, NEW k \in J, x \in conv[k].ids PROVE \E i \in K : x \in a[i].ids
                    BY <4>1, <4>2, <5>2
                <5>3. ASSUME NEW x \in m.ids PROVE \E i \in K : x \in a[i].ids
                    BY <4>1, <4>3
                <5> QED BY <5>1, <5>2, <5>3
            <4> QED BY <4>4 DEF K, J
        <3>4. Unanswered(a, b) = conv[b].ids \ UNION {a[k].ids : k \in (b + 1)..e}
            <4> HIDE DEF e
            <4> QED BY <1>6, <2>1 DEF Unanswered
        <3>5. Unanswered(conv, b) = conv[b].ids \ UNION {conv[k].ids : k \in (b + 1)..t}
            BY DEF Unanswered, t
        <3> HIDE DEF e
        <3> DEFINE A == conv[b].ids
                   B == UNION {a[k].ids : k \in (b + 1)..e}
                   C == UNION {conv[k].ids : k \in (b + 1)..t}
        <3>6. B = C \cup m.ids
            BY <3>3
        <3> HIDE DEF A, B, C
        <3>7. A \ B = (A \ C) \ m.ids
            BY <3>6
        <3>8. Unanswered(a, b) = Unanswered(conv, b) \ m.ids
            BY <3>4, <3>5, <3>7 DEF A, B, C
        <3> HIDE DEF grows
        <3> QED BY <2>2, <3>8
    <2>3. CASE ~grows
        <3>1. e = t
            BY <2>3
        <3>2. \A k \in (b + 1)..t : a[k] = conv[k]
            BY <1>1, <1>2
        <3>3. UNION {a[k].ids : k \in (b + 1)..t} = UNION {conv[k].ids : k \in (b + 1)..t}
            BY <3>2
        <3>4. Unanswered(a, b) = conv[b].ids \ UNION {a[k].ids : k \in (b + 1)..t}
            BY <1>6, <2>1, <3>1 DEF Unanswered
        <3>5. Unanswered(conv, b) = conv[b].ids \ UNION {conv[k].ids : k \in (b + 1)..t}
            BY DEF Unanswered, t
        <3> HIDE DEF grows
        <3> QED BY <2>3, <3>3, <3>4, <3>5
    <2> QED BY <2>2, <2>3
<1> HIDE DEF grows
<1>8. /\ ToolsEnd(a, b) = IF grows THEN n + 1 ELSE t
      /\ Unanswered(a, b) = IF grows THEN Unanswered(conv, b) \ m.ids ELSE Unanswered(conv, b)
    BY <1>6, <1>7
<1> QED BY <1>8 DEF a, t, n, grows

\* The message at the end has nothing behind it.
LEMMA EndLast ==
    ASSUME NEW conv \in Msgs, conv # <<>>
    PROVE  /\ ToolsEnd(conv, Len(conv)) = Len(conv)
           /\ Unanswered(conv, Len(conv)) = conv[Len(conv)].ids
<1>1. Len(conv) \in Nat /\ Len(conv) # 0 /\ Len(conv) \in 1..Len(conv)
    BY EmptySeq, LenProperties DEF Msgs
<1>2. ToolsEnd(conv, Len(conv)) = Len(conv)
    BY <1>1, ToolsEndIs
<1>3. (Len(conv) + 1)..Len(conv) = {}
    BY <1>1
<1> QED BY <1>2, <1>3 DEF Unanswered

\* Roles and ids decide what follows a position.
LEMMA EndSame ==
    ASSUME NEW a \in Msgs, NEW conv \in Msgs, Same(a, conv), NEW b \in 1..Len(conv)
    PROVE  ToolsEnd(a, b) = ToolsEnd(conv, b) /\ Unanswered(a, b) = Unanswered(conv, b)
<1> DEFINE t == ToolsEnd(conv, b)
<1>1. /\ t \in b..Len(conv) /\ \A k \in (b + 1)..t : conv[k].role = "tool"
      /\ t < Len(conv) => conv[t + 1].role # "tool"
    BY ToolsEndIs
<1>2. /\ Len(a) = Len(conv) /\ Len(conv) \in Nat
      /\ \A k \in 1..Len(conv) : a[k].role = conv[k].role /\ a[k].ids = conv[k].ids
    BY LenProperties DEF Same, Msgs
<1> HIDE DEF t
<1>3. \A k \in (b + 1)..t : k \in 1..Len(conv)
    BY <1>1, <1>2
<1>4. t < Len(conv) => t + 1 \in 1..Len(conv)
    BY <1>1, <1>2
<1>5. b \in 1..Len(a) /\ t \in b..Len(a)
    BY <1>1, <1>2
<1>6. /\ \A k \in (b + 1)..t : a[k].role = "tool"
      /\ t < Len(a) => a[t + 1].role # "tool"
    BY <1>1, <1>2, <1>3, <1>4
<1>7. ToolsEnd(a, b) = t
    BY <1>5, <1>6, ToolsEndUnique
<1>8. UNION {a[k].ids : k \in (b + 1)..t} = UNION {conv[k].ids : k \in (b + 1)..t}
    BY <1>2, <1>3
<1>9. a[b].ids = conv[b].ids
    BY <1>2
<1>10. Unanswered(a, b) = Unanswered(conv, b)
    BY <1>7, <1>8, <1>9 DEF Unanswered, t
<1> QED BY <1>7, <1>10 DEF t

\* Every result stands in the run behind its request, once, and the calls U of
\* the last request still lack theirs: no other request lacks any.
ResultsPlaced(conv) ==
    \A k \in 1..Len(conv) : conv[k].role = "tool" =>
        \E b \in 1..(k - 1) : /\ conv[b].role = "assistant" /\ conv[k].ids \subseteq conv[b].ids
                              /\ k <= ToolsEnd(conv, b)
Counted(conv, b, U) ==
    /\ Cardinality(conv[b].ids) = ToolsEnd(conv, b) - b + Cardinality(Unanswered(conv, b))
    /\ Unanswered(conv, b) = IF ToolsEnd(conv, b) = Len(conv) THEN U ELSE {}
Shape(conv, U) ==
    /\ ResultsPlaced(conv)
    /\ \A b \in 1..Len(conv) : conv[b].role = "assistant" => Counted(conv, b, U)
    /\ U # {} => \E b \in 1..Len(conv) : conv[b].role = "assistant" /\ ToolsEnd(conv, b) = Len(conv)

LEMMA ShapeEmpty == Shape(<<>>, {})
<1>1. Len(<<>>) = 0
    OBVIOUS
<1> QED BY <1>1 DEF Shape, ResultsPlaced

\* Something said after a history that lacks no result: its calls lack theirs.
LEMMA ShapeSay ==
    ASSUME NEW conv \in Msgs, Shape(conv, {}), NEW m \in Message, m.role # "tool"
    PROVE  Shape(Append(conv, m), IF m.role = "assistant" THEN m.ids ELSE {})
<1> DEFINE n == Len(conv)
           a == Append(conv, m)
           V == IF m.role = "assistant" THEN m.ids ELSE {}
<1>1. /\ a \in Msgs /\ Len(a) = n + 1 /\ n \in Nat /\ a # <<>>
      /\ \A i \in 1..n : a[i] = conv[i]
      /\ a[n + 1] = m
    BY AppendProperties, LenProperties, EmptySeq DEF Msgs
<1>2. \A b \in 1..n : /\ ToolsEnd(a, b) = ToolsEnd(conv, b) /\ ToolsEnd(conv, b) \in b..n
                      /\ Unanswered(a, b) = Unanswered(conv, b)
    BY EndAppend, ToolsEndIs
<1>3. ToolsEnd(a, n + 1) = n + 1 /\ Unanswered(a, n + 1) = m.ids
    BY <1>1, EndLast
<1> HIDE DEF a, n
<1>4. ResultsPlaced(a)
    <2> SUFFICES ASSUME NEW k \in 1..Len(a), a[k].role = "tool"
                 PROVE  \E b \in 1..(k - 1) : /\ a[b].role = "assistant" /\ a[k].ids \subseteq a[b].ids
                                              /\ k <= ToolsEnd(a, b)
        BY DEF ResultsPlaced
    <2>1. k \in 1..n
        BY <1>1
    <2>2. PICK b \in 1..(k - 1) : /\ conv[b].role = "assistant" /\ conv[k].ids \subseteq conv[b].ids
                                  /\ k <= ToolsEnd(conv, b)
        BY <1>1, <2>1 DEF Shape, ResultsPlaced, n
    <2>3. b \in 1..n
        BY <1>1, <2>1
    <2> QED BY <1>1, <1>2, <2>1, <2>2, <2>3
<1>5. ASSUME NEW b \in 1..Len(a), a[b].role = "assistant"
      PROVE  Counted(a, b, V)
    <2>1. CASE b \in 1..n
        <3>1. Counted(conv, b, {})
            BY <1>1, <1>5, <2>1 DEF Shape, n
        <3>2. ToolsEnd(a, b) # Len(a) /\ a[b] = conv[b]
            BY <1>1, <1>2, <2>1
        <3> QED BY <1>2, <2>1, <3>1, <3>2 DEF Counted
    <2>2. CASE b = n + 1
        <3>1. V = m.ids /\ Unanswered(a, b) = V /\ ToolsEnd(a, b) = b /\ ToolsEnd(a, b) = Len(a)
            BY <1>1, <1>3, <1>5, <2>2
        <3>2. Cardinality(m.ids) \in Nat
            BY IdsFinite, FS_CardinalityType DEF Message, Ids
        <3>3. a[b].ids = m.ids
            BY <1>1, <2>2
        <3> QED BY <1>1, <2>2, <3>1, <3>2, <3>3 DEF Counted
    <2> QED BY <1>1, <2>1, <2>2
<1>6. V # {} => \E b \in 1..Len(a) : a[b].role = "assistant" /\ ToolsEnd(a, b) = Len(a)
    BY <1>1, <1>3
<1>7. Shape(a, V)
    <2> HIDE DEF V
    <2> QED BY <1>4, <1>5, <1>6 DEF Shape
<1> QED BY <1>7 DEF a

\* A result of one of the calls that lack theirs.
LEMMA ShapeResult ==
    ASSUME NEW conv \in Msgs, NEW U \in SUBSET Ids, Shape(conv, U), NEW m \in Message,
           m.role = "tool", NEW c \in U, m.ids = {c}
    PROVE  Shape(Append(conv, m), U \ {c})
<1> DEFINE n == Len(conv)
           a == Append(conv, m)
<1>1. /\ a \in Msgs /\ Len(a) = n + 1 /\ n \in Nat
      /\ \A i \in 1..n : a[i] = conv[i]
      /\ a[n + 1] = m
    BY AppendProperties, LenProperties DEF Msgs
<1>2. \A b \in 1..n :
        /\ ToolsEnd(conv, b) \in b..n
        /\ ToolsEnd(conv, b) = n => ToolsEnd(a, b) = n + 1 /\ Unanswered(a, b) = Unanswered(conv, b) \ {c}
        /\ ToolsEnd(conv, b) # n => ToolsEnd(a, b) = ToolsEnd(conv, b) /\ Unanswered(a, b) = Unanswered(conv, b)
    BY EndAppend, ToolsEndIs
<1>3. PICK last \in 1..n : conv[last].role = "assistant" /\ ToolsEnd(conv, last) = n
    BY DEF Shape
<1>4. IsFiniteSet(U) /\ Cardinality(U) \in Nat /\ Cardinality(U \ {c}) = Cardinality(U) - 1
    BY IdsFinite, FS_CardinalityType, FS_RemoveElement
<1> HIDE DEF a, n
<1>5. ResultsPlaced(a)
    <2> SUFFICES ASSUME NEW k \in 1..Len(a), a[k].role = "tool"
                 PROVE  \E b \in 1..(k - 1) : /\ a[b].role = "assistant" /\ a[k].ids \subseteq a[b].ids
                                              /\ k <= ToolsEnd(a, b)
        BY DEF ResultsPlaced
    <2>1. CASE k \in 1..n
        <3>1. PICK b \in 1..(k - 1) : /\ conv[b].role = "assistant" /\ conv[k].ids \subseteq conv[b].ids
                                      /\ k <= ToolsEnd(conv, b)
            BY <1>1, <2>1 DEF Shape, ResultsPlaced, n
        <3>2. b \in 1..n
            BY <1>1, <2>1
        <3>3. k <= ToolsEnd(a, b)
            BY <1>1, <1>2, <2>1, <3>1, <3>2
        <3> QED BY <1>1, <2>1, <3>1, <3>2, <3>3
    <2>2. CASE k = n + 1
        <3>1. Unanswered(conv, last) = U
            BY <1>3 DEF Shape, Counted, n
        <3>2. c \in conv[last].ids
            BY <3>1 DEF Unanswered
        <3>3. last \in 1..(k - 1) /\ a[last] = conv[last] /\ a[k] = m /\ k <= ToolsEnd(a, last)
            BY <1>1, <1>2, <1>3, <2>2
        <3> QED BY <1>3, <3>2, <3>3
    <2> QED BY <1>1, <2>1, <2>2
<1>6. ASSUME NEW b \in 1..Len(a), a[b].role = "assistant"
      PROVE  Counted(a, b, U \ {c})
    <2>1. b \in 1..n /\ a[b] = conv[b]
        BY <1>1, <1>6
    <2>2. Counted(conv, b, U)
        BY <1>6, <2>1 DEF Shape, n
    <2>3. ToolsEnd(conv, b) \in Nat /\ b \in Nat
        BY <1>1, <1>2, <2>1
    <2>4. CASE ToolsEnd(conv, b) = n
        <3>1. Unanswered(conv, b) = U /\ Cardinality(conv[b].ids) = n - b + Cardinality(U)
            BY <2>2, <2>4 DEF Counted, n
        <3>2. ToolsEnd(a, b) = n + 1 /\ Unanswered(a, b) = U \ {c}
            BY <1>2, <2>1, <2>4, <3>1
        <3>3. n - b + Cardinality(U) = n + 1 - b + Cardinality(U \ {c})
            BY <1>1, <1>4, <2>3
        <3> QED BY <1>1, <2>1, <3>1, <3>2, <3>3 DEF Counted
    <2>5. CASE ToolsEnd(conv, b) # n
        <3>1. ToolsEnd(a, b) = ToolsEnd(conv, b) /\ Unanswered(a, b) = Unanswered(conv, b)
            BY <1>2, <2>1, <2>5
        <3>2. ToolsEnd(a, b) # Len(a)
            BY <1>1, <1>2, <2>1, <3>1
        <3> QED BY <2>1, <2>2, <2>5, <3>1, <3>2 DEF Counted, n
    <2> QED BY <2>4, <2>5
<1>7. \E b \in 1..Len(a) : a[b].role = "assistant" /\ ToolsEnd(a, b) = Len(a)
    BY <1>1, <1>2, <1>3
<1>8. Shape(a, U \ {c})
    BY <1>5, <1>6, <1>7 DEF Shape
<1> QED BY <1>8 DEF a

\* Storing a history leaves its shape.
LEMMA ShapeSame ==
    ASSUME NEW a \in Msgs, NEW conv \in Msgs, Same(a, conv), NEW U, Shape(conv, U)
    PROVE  Shape(a, U)
<1>1. /\ Len(a) = Len(conv) /\ Len(conv) \in Nat
      /\ \A k \in 1..Len(conv) : a[k].role = conv[k].role /\ a[k].ids = conv[k].ids
    BY LenProperties DEF Same, Msgs
<1>2. \A b \in 1..Len(conv) : ToolsEnd(a, b) = ToolsEnd(conv, b) /\ Unanswered(a, b) = Unanswered(conv, b)
    BY EndSame
<1>3. ResultsPlaced(a)
    <2> SUFFICES ASSUME NEW k \in 1..Len(conv), conv[k].role = "tool"
                 PROVE  \E b \in 1..(k - 1) : /\ a[b].role = "assistant" /\ a[k].ids \subseteq a[b].ids
                                              /\ k <= ToolsEnd(a, b)
        BY <1>1 DEF ResultsPlaced
    <2>1. PICK b \in 1..(k - 1) : /\ conv[b].role = "assistant" /\ conv[k].ids \subseteq conv[b].ids
                                  /\ k <= ToolsEnd(conv, b)
        BY DEF Shape, ResultsPlaced
    <2>2. b \in 1..Len(conv)
        BY <1>1
    <2> QED BY <1>1, <1>2, <2>1, <2>2
<1>4. \A b \in 1..Len(a) : a[b].role = "assistant" => Counted(a, b, U)
    BY <1>1, <1>2 DEF Shape, Counted
<1>5. U # {} => \E b \in 1..Len(a) : a[b].role = "assistant" /\ ToolsEnd(a, b) = Len(a)
    BY <1>1, <1>2 DEF Shape
<1> QED BY <1>3, <1>4, <1>5 DEF Shape

\* A history in which nothing is missing is one the chat API accepts.
LEMMA ShapeAccepted ==
    ASSUME NEW conv \in Msgs, Shape(conv, {})
    PROVE  Accepted(conv)
<1>1. DOMAIN conv = 1..Len(conv) /\ Len(conv) \in Nat
    BY LenProperties DEF Msgs
<1>2. ASSUME NEW b \in 1..Len(conv), conv[b].role = "assistant"
      PROVE  Unanswered(conv, b) = {} /\ Cardinality(conv[b].ids) = ToolsEnd(conv, b) - b
    <2>1. Unanswered(conv, b) = {}
          /\ Cardinality(conv[b].ids) = ToolsEnd(conv, b) - b + Cardinality(Unanswered(conv, b))
        BY <1>2 DEF Shape, Counted
    <2>2. Cardinality({}) = 0 /\ ToolsEnd(conv, b) \in Nat /\ b \in Nat
        BY <1>1, FS_EmptySet, ToolsEndIs
    <2> QED BY <2>1, <2>2
<1> QED BY <1>1, <1>2 DEF Shape, ResultsPlaced, Accepted

\* The results _fix_orphaned_tool_calls adds complete a history.
LEMMA ShapeResults ==
    ASSUME NEW conv \in Msgs, NEW U \in SUBSET Ids, Shape(conv, U)
    PROVE  Shape(conv \o Results(U), {})
<1> DEFINE R == Results(U)
           s == SetToSeq(U)
           n == Cardinality(U)
           pre(i) == conv \o SubSeq(R, 1, i)
           left(i) == U \ {s[j] : j \in 1..i}
           P(i) == Shape(pre(i), left(i))
           Bad == {i \in Nat : i \in 0..n /\ ~P(i)}
<1>1. /\ n \in Nat /\ R \in Seq(Message) /\ Len(R) = n
      /\ \A i \in 1..n : R[i] \in Message /\ s[i] \in U /\ R[i].role = "tool" /\ R[i].ids = {s[i]}
    <2>1. R \in Msgs /\ Len(R) = n /\ n \in Nat
          /\ \A i \in 1..n : s[i] \in U /\ R[i].role = "tool" /\ R[i].ids = {s[i]}
        BY ResultsAre
    <2> QED BY <2>1, ElementOfSeq DEF Msgs
<1>2. /\ \A i, j \in 1..n : s[i] = s[j] => i = j
      /\ \A x \in U : \E i \in 1..n : s[i] = x
    <2>1. IsFiniteSet(U)
        BY IdsFinite
    <2>2. s \in [1..n -> U] /\ IsInjective(s) /\ \A x \in U : \E i \in 1..n : s[i] = x
        BY <2>1, SetToSeqIs
    <2> QED BY <2>2 DEF IsInjective
<1>3. conv \in Seq(Message)
    BY DEF Msgs
<1> HIDE DEF R, s, n
<1>4. \A i \in 0..n : SubSeq(R, 1, i) \in Seq(Message) /\ pre(i) \in Msgs
    <2> SUFFICES ASSUME NEW i \in 0..n PROVE SubSeq(R, 1, i) \in Seq(Message) /\ pre(i) \in Msgs
        OBVIOUS
    <2>1. SubSeq(R, 1, i) \in Seq(Message)
        BY <1>1, SubSeqProperties
    <2> QED BY <1>3, <2>1, ConcatProperties DEF Msgs
<1>5. P(0)
    <2>1. SubSeq(R, 1, 0) = <<>>
        BY SubSeqEmpty
    <2>2. pre(0) = conv
        BY <1>3, <2>1, ConcatEmptySeq
    <2>3. 1..0 = {}
        OBVIOUS
    <2>4. left(0) = U
        BY <2>3
    <2> HIDE DEF pre, left
    <2> QED BY <2>2, <2>4
<1>6. ASSUME NEW i \in 1..n, P(i - 1) PROVE P(i)
    <2>1. i - 1 \in 0..n /\ i \in 0..n /\ i - 1 \in Nat /\ 1 \in 1..Len(R) /\ i \in 1..Len(R)
        BY <1>1
    <2>2. SubSeq(R, 1, i) = SubSeq(R, 1, i - 1) \o <<R[i]>>
        BY <1>1, <2>1, SubSeqRecursiveSecond
    <2>3. pre(i) = Append(pre(i - 1), R[i])
        <3> DEFINE X == SubSeq(R, 1, i - 1)
                   m == R[i]
        <3>1. X \in Seq(Message) /\ m \in Message /\ <<m>> \in Seq(Message)
            BY <1>1, <1>4, <2>1
        <3> HIDE DEF X, m
        <3>2. conv \o (X \o <<m>>) = (conv \o X) \o <<m>>
            BY <1>3, <3>1, ConcatAssociative
        <3>3. (conv \o X) \o <<m>> = Append(conv \o X, m)
            BY <1>3, <3>1, ConcatProperties, AppendIsConcat
        <3> QED BY <2>2, <3>2, <3>3 DEF X, m
    <2>4. s[i] \in left(i - 1)
        <3> SUFFICES ASSUME NEW j \in 1..(i - 1), s[i] = s[j] PROVE FALSE
            BY <1>1
        <3>1. j \in 1..n /\ j # i
            BY <1>1, <2>1
        <3> QED BY <1>2, <3>1
    <2>5. left(i) = left(i - 1) \ {s[i]}
        <3>1. \A j : j \in 1..i <=> (j \in 1..(i - 1) \/ j = i)
            BY <1>1, <2>1
        <3> DEFINE I == 1..i
                   J == 1..(i - 1)
        <3>2. \A j : j \in I <=> (j \in J \/ j = i)
            BY <3>1
        <3> HIDE DEF I, J
        <3>3. U \ {s[j] : j \in I} = (U \ {s[j] : j \in J}) \ {s[i]}
            BY <3>2
        <3> QED BY <3>3 DEF I, J
    <2>6. left(i - 1) \in SUBSET Ids /\ pre(i - 1) \in Msgs
        BY <1>4, <2>1
    <2>7. R[i] \in Message /\ R[i].role = "tool" /\ R[i].ids = {s[i]}
        BY <1>1
    <2>8. Shape(pre(i - 1), left(i - 1))
        BY <1>6
    <2> HIDE DEF pre, left
    <2>9. Shape(Append(pre(i - 1), R[i]), left(i - 1) \ {s[i]})
        BY <2>4, <2>6, <2>7, <2>8, ShapeResult
    <2> QED BY <2>3, <2>5, <2>9
<1>7. Bad = {}
    <2> HIDE DEF P
    <2> SUFFICES ASSUME Bad # {} PROVE FALSE
        OBVIOUS
    <2>1. PICK i \in Bad : \A m \in Bad : i <= m
        BY Least
    <2>2. i \in 1..n /\ i - 1 \in Nat /\ i - 1 \in 0..n
        <3>1. i \in Nat /\ i \in 0..n /\ i # 0
            BY <1>5, <2>1
        <3> QED BY <1>1, <3>1
    <2>3. i - 1 \notin Bad
        BY <2>1, <2>2
    <2>4. P(i - 1)
        BY <2>2, <2>3
    <2> QED BY <1>6, <2>1, <2>2, <2>4
<1>8. P(n)
    <2> HIDE DEF P
    <2>1. n \in 0..n /\ n \notin Bad
        BY <1>1, <1>7
    <2> QED BY <1>1, <2>1
<1>9. SubSeq(R, 1, n) = R
    BY <1>1, SubSeqFull
<1>10. left(n) = {}
    BY <1>2
<1> HIDE DEF left
<1> QED BY <1>8, <1>9, <1>10 DEF R

\* _fix_orphaned_tool_calls adds, at the end, what is missing, and nothing else.
LEMMA FixShape ==
    ASSUME NEW conv \in Msgs, NEW U \in SUBSET Ids, Shape(conv, U)
    PROVE  FixOrphaned(conv) = conv \o Results(U) /\ Shape(FixOrphaned(conv), {})
<1>1. CASE conv = <<>>
    <2>1. Len(conv) = 0
        BY <1>1
    <2>2. U = {}
        BY <2>1 DEF Shape
    <2>3. Parts(conv) \in Seq(Msgs) /\ Len(Parts(conv)) = 0
        BY <2>1, PartsType
    <2>4. Parts(conv) = <<>>
        BY <2>3, EmptySeq
    <2>5. FixOrphaned(conv) = <<>>
        BY <2>4, FixIs, FlattenEmpty
    <2>6. conv \o Results(U) = <<>>
        BY <1>1, <2>2, ResultsEmpty, ConcatEmptySeq DEF Msgs
    <2> QED BY <2>5, <2>6, ShapeEmpty
<1>2. CASE conv # <<>>
    <2>1. Len(conv) \in Nat /\ Len(conv) \in 1..Len(conv)
        BY <1>2, EmptySeq, LenProperties DEF Msgs
    <2>2. \A b \in 1..Len(conv) : conv[b].role = "assistant" =>
              Unanswered(conv, b) = IF ToolsEnd(conv, b) = Len(conv) THEN U ELSE {}
        BY DEF Shape, Counted
    <2>3. \A e \in 1..(Len(conv) - 1) : After(conv, e) = {}
        <3> SUFFICES ASSUME NEW e \in 1..(Len(conv) - 1), NEW b \in 1..e,
                            conv[b].role = "assistant", ToolsEnd(conv, b) = e
                     PROVE  Unanswered(conv, b) = {}
            BY DEF After
        <3>1. b \in 1..Len(conv) /\ e # Len(conv)
            BY <2>1
        <3> QED BY <2>2, <3>1
    <2>4. After(conv, Len(conv)) = U
        <3> DEFINE B == {b \in 1..Len(conv) : conv[b].role = "assistant" /\ ToolsEnd(conv, b) = Len(conv)}
        <3>1. After(conv, Len(conv)) = UNION {Unanswered(conv, b) : b \in B}
            BY DEF After
        <3>2. \A b \in B : Unanswered(conv, b) = U
            BY <2>2
        <3>3. U # {} => B # {}
            BY DEF Shape
        <3> HIDE DEF B
        <3>4. UNION {Unanswered(conv, b) : b \in B} = U
            BY <3>2, <3>3
        <3> QED BY <3>1, <3>4
    <2>5. FixOrphaned(conv) = conv \o Results(U)
        BY <1>2, <2>3, <2>4, FixLast
    <2> QED BY <2>5, ShapeResults
<1> QED BY <1>1, <1>2

\* It only adds new messages.
LEMMA ExtendsFix ==
    ASSUME NEW conv \in Msgs, NEW U \in SUBSET Ids
    PROVE  Extends(conv \o Results(U), conv)
<1> DEFINE R == Results(U)
<1>1. /\ R \in Seq(Message) /\ Len(R) \in Nat /\ conv \in Seq(Message) /\ Len(conv) \in Nat
      /\ \A i \in 1..Len(R) : R[i].mid = 0
    BY ResultsAre, LenProperties DEF Msgs
<1> HIDE DEF R
<1>2. /\ Len(conv \o R) = Len(conv) + Len(R)
      /\ \A i \in 1..(Len(conv) + Len(R)) : (conv \o R)[i] = IF i <= Len(conv) THEN conv[i] ELSE R[i - Len(conv)]
    BY <1>1, ConcatProperties
<1>3. Extends(conv \o R, conv)
    BY <1>1, <1>2 DEF Extends
<1> QED BY <1>3 DEF R

LEMMA ExtendsAppend ==
    ASSUME NEW conv \in Msgs, NEW msgs \in Msgs, Extends(conv, msgs), NEW m \in Message, m.mid = 0
    PROVE  Extends(Append(conv, m), msgs)
<1>1. /\ Len(Append(conv, m)) = Len(conv) + 1 /\ Len(conv) \in Nat /\ Len(msgs) \in Nat
      /\ \A i \in 1..Len(conv) : Append(conv, m)[i] = conv[i]
      /\ Append(conv, m)[Len(conv) + 1] = m
    BY AppendProperties, LenProperties DEF Msgs
<1> DEFINE a == Append(conv, m)
<1> HIDE DEF a
<1>2. Extends(a, msgs)
    <2>1. Len(msgs) <= Len(a)
        BY <1>1 DEF Extends, a
    <2>2. ASSUME NEW k \in 1..Len(a)
          PROVE  IF k <= Len(msgs) THEN a[k] = msgs[k] ELSE a[k].mid = 0
        <3>1. CASE k \in 1..Len(conv)
            BY <1>1, <3>1 DEF Extends, a
        <3>2. CASE k = Len(conv) + 1
            <4>1. ~(k <= Len(msgs)) /\ a[k] = m
                BY <1>1, <3>2 DEF Extends, a
            <4> QED BY <4>1
        <3> QED BY <1>1, <3>1, <3>2 DEF a
    <2> QED BY <2>1, <2>2 DEF Extends
<1> QED BY <1>2 DEF a

\* The calls of a batch without a result so far.
Calls(todo) == {todo[i] : i \in DOMAIN todo}

LEMMA CallsAre ==
    ASSUME TypeOK
    PROVE  Calls(run.todo) \in SUBSET CallIds /\ CallIds \subseteq Ids /\ Calls(<<>>) = {}
<1>1. run.todo \in Seq(CallIds)
    BY TypeIs DEF Runs
<1>2. Calls(run.todo) \in SUBSET CallIds
    BY <1>1, ElementOfSeq, LenProperties DEF Calls
<1>3. CallIds \subseteq Ids
    BY Bounds DEF CallIds, Ids
<1>4. Calls(<<>>) = {}
    BY DEF Calls
<1> QED BY <1>2, <1>3, <1>4

LEMMA CallsTail ==
    ASSUME TypeOK, run.todo # <<>>, IsInjective(run.todo)
    PROVE  /\ Head(run.todo) \in Calls(run.todo) /\ IsInjective(Tail(run.todo))
           /\ Calls(Tail(run.todo)) = Calls(run.todo) \ {Head(run.todo)}
<1> DEFINE s == run.todo
           t == Tail(run.todo)
<1>1. s \in Seq(CallIds) /\ s # <<>>
    BY TypeIs DEF Runs
<1>2. /\ Len(s) \in Nat \ {0} /\ DOMAIN s = 1..Len(s)
      /\ Head(s) = s[1] /\ t \in Seq(CallIds) /\ Len(t) = Len(s) - 1
      /\ \A i \in 1..Len(t) : t[i] = s[i + 1]
    BY <1>1, HeadTailProperties, LenProperties, EmptySeq
<1>3. DOMAIN t = 1..Len(t)
    BY <1>2, LenProperties
<1>4. \A i, j \in 1..Len(s) : s[i] = s[j] => i = j
    BY <1>2 DEF IsInjective
<1> HIDE DEF s, t
<1>5. s[1] \in Calls(s)
    BY <1>2 DEF Calls
<1>6. IsInjective(t)
    <2> SUFFICES ASSUME NEW i \in 1..Len(t), NEW j \in 1..Len(t), t[i] = t[j] PROVE i = j
        BY <1>3 DEF IsInjective
    <2>1. i + 1 \in 1..Len(s) /\ j + 1 \in 1..Len(s) /\ s[i + 1] = s[j + 1]
        BY <1>2
    <2>2. i + 1 = j + 1
        BY <1>4, <2>1
    <2> QED BY <2>2
<1>7. Calls(t) = Calls(s) \ {s[1]}
    <2>1. ASSUME NEW i \in 1..Len(t) PROVE t[i] \in Calls(s) /\ t[i] # s[1]
        <3>1. i + 1 \in 1..Len(s) /\ i + 1 # 1 /\ 1 \in 1..Len(s) /\ t[i] = s[i + 1]
            BY <1>2
        <3> QED BY <1>2, <1>4, <3>1 DEF Calls
    <2>2. ASSUME NEW i \in 1..Len(s), s[i] # s[1] PROVE s[i] \in Calls(t)
        <3>1. i - 1 \in 1..Len(t) /\ t[i - 1] = s[i]
            <4>1. i # 1
                BY <2>2
            <4>2. i - 1 \in 1..Len(t) /\ (i - 1) + 1 = i
                BY <1>2, <4>1
            <4> QED BY <1>2, <4>2
        <3> QED BY <1>3, <3>1 DEF Calls
    <2> QED BY <1>2, <1>3, <2>1, <2>2 DEF Calls
<1> QED BY <1>2, <1>5, <1>6, <1>7 DEF s, t

\* As long as no history was cut: only a confirmation that is being dealt with
\* leaves calls without results, and react_node's conversation goes on from the
\* stored history, with the batch it works on as the only open one.
Open(U) ==
    /\ Shape(chan.msgs, U)
    /\ chan.pending # NoPending => chan.pending.call \in U
    /\ U # {} => next = "wait_user" \/ (busy /\ resumed /\ next \in {"handle_confirm", "react"})
Working ==
    run.at # "start" => /\ Shape(run.conv, Calls(run.todo)) /\ IsInjective(run.todo)
                        /\ Extends(run.conv, chan.msgs)
History ==
    /\ StoredMsgs(chan.msgs)
    /\ \E U \in SUBSET CallIds : Open(U)
    /\ Working

LEMMA EmptyHistory ==
    ASSUME chan.msgs = <<>>, chan.pending = NoPending, run.at = "start"
    PROVE  History
<1>1. StoredMsgs(<<>>)
    <2>1. Len(<<>>) = 0
        OBVIOUS
    <2> QED BY <2>1 DEF StoredMsgs
<1>2. Open({})
    BY ShapeEmpty DEF Open
<1> QED BY <1>1, <1>2 DEF History, Working

LEMMA InitHistory == Init => History
BY EmptyHistory, EmptyIs, IdleIs DEF Init

\* Steps that leave the stored history and the conversation alone.
LEMMA SameHistory ==
    ASSUME History, chan'.msgs = chan.msgs, run' = run,
           NEW U \in SUBSET CallIds, Open(U),
           chan'.pending # NoPending => chan'.pending = chan.pending,
           U # {} => next' = "wait_user" \/ (busy' /\ resumed' /\ next' \in {"handle_confirm", "react"})
    PROVE  History'
<1>1. Open(U)'
    BY DEF Open
<1>2. Working'
    BY DEF History, Working
<1>3. StoredMsgs(chan.msgs)'
    BY DEF History
<1> QED BY <1>1, <1>2, <1>3 DEF History

LEMMA StepHistory ==
    Types /\ Replies /\ Phase /\ History /\ [Next]_vars /\ ~ModelFails /\ ~faults'.cut => History'
<1> SUFFICES ASSUME Types, Replies, Phase, History, [Next]_vars, ~ModelFails, ~faults'.cut
             PROVE  History'
    OBVIOUS
<1>0. /\ TypeOK /\ RunAt /\ chan.msgs \in Msgs /\ run.conv \in Msgs
      /\ StoredMsgs(chan.msgs) /\ Working
    BY TypeIs DEF Types, Channels, Runs, History
<1>20. PICK U \in SUBSET CallIds : Open(U)
    BY DEF History
<1>21. U \in SUBSET Ids
    BY <1>0, CallsAre
<1>22. Shape(chan.msgs, U) /\ (chan.pending # NoPending => chan.pending.call \in U)
       /\ (U # {} => next = "wait_user" \/ (busy /\ resumed /\ next \in {"handle_confirm", "react"}))
    BY <1>20 DEF Open
<1>23. ASSUME chan'.msgs \in Msgs, StoredMsgs(chan'.msgs), NEW V \in SUBSET CallIds,
              Shape(chan'.msgs, V), chan'.pending # NoPending => chan'.pending.call \in V,
              V # {} => next' = "wait_user" \/ (busy' /\ resumed' /\ next' \in {"handle_confirm", "react"}),
              run'.at = "start"
       PROVE  History'
    <2>1. Open(V)'
        BY <1>23 DEF Open
    <2>2. StoredMsgs(chan.msgs)' /\ Working'
        BY <1>23 DEF Working
    <2> QED BY <2>1, <2>2 DEF History
<1>24. ASSUME chan'.msgs = chan.msgs, chan'.pending = chan.pending, next' = next, busy' = busy,
              resumed' = resumed,
              Shape(run'.conv, Calls(run'.todo)), IsInjective(run'.todo), Extends(run'.conv, chan.msgs)
       PROVE  History'
    <2>1. Open(U)'
        BY <1>22, <1>24 DEF Open
    <2>2. StoredMsgs(chan.msgs)' /\ Working'
        BY <1>0, <1>24 DEF Working
    <2> QED BY <2>1, <2>2 DEF History
<1>1. CASE Resume
    <2>1. /\ chan'.msgs = chan.msgs /\ chan'.pending = chan.pending /\ run' = run
          /\ busy' /\ resumed' /\ next' = "handle_confirm"
        BY <1>0, <1>1, ResumeDoes
    <2> QED BY <1>20, <2>1, SameHistory
<1>2. CASE Invoke
    <2>1. /\ ~busy /\ next # "wait_user" /\ run' = run /\ run.at = "start"
          /\ chan'.msgs = IF Start.fresh THEN AddMessages(chan.msgs, <<SystemMsg>>) ELSE chan.msgs
          /\ chan'.pending = Start.pending
        BY <1>0, <1>2, InvokeDoes DEF RunAt
    <2>2. U = {} /\ chan'.pending = NoPending
        BY <1>0, <1>22, <2>1, StartIs
    <2>3. CASE Start.fresh
        <3> DEFINE a == AddMessages(chan.msgs, <<SystemMsg>>)
        <3>1. SystemMsg \in Message /\ SystemMsg.role = "system" /\ SystemMsg.mid = 0
              /\ <<SystemMsg>> \in Msgs
            BY SystemType DEF Msgs
        <3>2. a \in Msgs /\ StoredMsgs(a) /\ Same(a, Append(chan.msgs, SystemMsg))
            BY <1>0, <3>1, AddType, AddStored, AddOne
        <3>3. Shape(Append(chan.msgs, SystemMsg), {}) /\ Append(chan.msgs, SystemMsg) \in Msgs
            <4>1. "system" # "tool" /\ "system" # "assistant"
                OBVIOUS
            <4>2. Append(chan.msgs, SystemMsg) \in Msgs
                BY <1>0, <3>1, AppendProperties DEF Msgs
            <4> QED BY <1>0, <1>22, <2>2, <3>1, <4>1, <4>2, ShapeSay
        <3>4. Shape(a, {})
            BY <3>2, <3>3, ShapeSame
        <3> HIDE DEF a
        <3>5. chan'.msgs = a
            BY <2>1, <2>3 DEF a
        <3> QED BY <1>23, <2>1, <2>2, <3>2, <3>4, <3>5
    <2>4. CASE ~Start.fresh
        <3>1. chan'.msgs = chan.msgs
            BY <2>1, <2>4
        <3> QED BY <1>20, <2>1, <2>2, <3>1, SameHistory
    <2> QED BY <2>3, <2>4
<1>3. CASE Classify
    <2>1. next = "classify" /\ chan' = chan /\ run' = run
        BY <1>3, ClassifyDoes
    <2>2. U = {}
        BY <1>0, <1>22, <1>3, <2>1 DEF Phase
    <2> QED BY <1>20, <2>1, <2>2, SameHistory
<1>4. CASE HandleMeta
    <2>1. /\ next = "handle_meta" /\ chan'.msgs = chan.msgs /\ run' = run
          /\ chan'.pending = chan.pending \/ chan'.pending = NoPending
        BY <1>0, <1>4, MetaDoes
    <2>2. U = {}
        BY <1>22, <2>1
    <2> QED BY <1>20, <2>1, <2>2, SameHistory
<1>5. CASE HandleConfirm
    <2>1. /\ busy /\ next = "handle_confirm" /\ next' = "react" /\ run' = run /\ run.at = "start"
          /\ chan'.pending = NoPending /\ busy' = busy /\ resumed' = resumed
          /\ \/ chan'.msgs = chan.msgs
             \/ /\ chan.pending # NoPending
                /\ chan'.msgs = AddMessages(chan.msgs, <<ToolMsg(chan.pending.call)>>)
        BY <1>0, <1>5, ConfirmDoes DEF RunAt
    <2>2. U # {} => busy' /\ resumed' /\ next' \in {"handle_confirm", "react"}
        BY <1>22, <2>1
    <2>3. CASE chan'.msgs = chan.msgs
        BY <1>20, <2>1, <2>2, <2>3, SameHistory
    <2>4. CASE chan.pending # NoPending /\ chan'.msgs = AddMessages(chan.msgs, <<ToolMsg(chan.pending.call)>>)
        <3> DEFINE c == chan.pending.call
                   m == ToolMsg(c)
                   a == AddMessages(chan.msgs, <<m>>)
                   V == U \ {c}
        <3>1. m \in Message /\ m.role = "tool" /\ m.ids = {c} /\ m.mid = 0 /\ c \in U
            BY <1>0, <1>22, <2>4, ConfirmType
        <3> HIDE DEF c, m
        <3>2. <<m>> \in Msgs /\ Append(chan.msgs, m) \in Msgs
            BY <1>0, <3>1, AppendProperties DEF Msgs
        <3>3. a \in Msgs /\ StoredMsgs(a) /\ Same(a, Append(chan.msgs, m))
            BY <1>0, <3>1, <3>2, AddType, AddStored, AddOne
        <3>4. Shape(Append(chan.msgs, m), V)
            BY <1>0, <1>21, <1>22, <3>1, ShapeResult
        <3>5. Shape(a, V)
            BY <3>2, <3>3, <3>4, ShapeSame
        <3>6. chan'.msgs = a
            BY <2>4 DEF m, c
        <3>7. V \in SUBSET CallIds /\ (V # {} => U # {})
            OBVIOUS
        <3> HIDE DEF a, V
        <3> QED BY <1>23, <2>1, <2>2, <3>3, <3>5, <3>6, <3>7
    <2> QED BY <2>1, <2>3, <2>4
<1>6. CASE ReactStart
    <2>1. /\ run'.conv = (IF Resuming THEN Fixed ELSE Append(Fixed, UserMsg)) /\ run'.todo = <<>>
          /\ UNCHANGED <<busy, resumed, next, chan>>
        BY <1>0, <1>6, ReactStartDoes
    <2>2. Shape(Fixed, {}) /\ Fixed = chan.msgs \o Results(U)
        BY <1>0, <1>21, <1>22, FixShape DEF Fixed
    <2>3. Extends(Fixed, chan.msgs)
        BY <1>0, <1>21, <2>2, ExtendsFix
    <2>4. /\ Fixed \in Msgs /\ UserMsg \in Message /\ UserMsg.role = "user" /\ UserMsg.mid = 0
        BY <1>0, FixedType
    <2>5. Shape(Append(Fixed, UserMsg), {})
        <3>1. UserMsg.role # "tool" /\ UserMsg.role # "assistant"
            BY <2>4
        <3> QED BY <2>2, <2>4, <3>1, ShapeSay
    <2>6. Extends(Append(Fixed, UserMsg), chan.msgs)
        BY <1>0, <2>3, <2>4, ExtendsAppend
    <2>7. Calls(run'.todo) = {} /\ IsInjective(run'.todo)
        BY <1>0, <2>1, CallsAre DEF IsInjective
    <2> QED BY <1>24, <2>1, <2>2, <2>3, <2>5, <2>6, <2>7
<1>7. CASE ModelText
    <2>1. /\ run.at = "llm" /\ run'.at = "start" /\ chan'.msgs = AddMessages(chan.msgs, Trim(Answer))
          /\ chan'.pending = chan.pending /\ Trim(Answer) = Answer
        BY <1>0, <1>7, ModelTextDoes, IdleIs
    <2>2. /\ run.todo = <<>> /\ next = "react"
        BY <1>0, <2>1 DEF RunAt
    <2>3. chan.pending = NoPending
        BY <2>2 DEF Phase
    <2>4. Shape(run.conv, {}) /\ Extends(run.conv, chan.msgs)
        BY <1>0, <2>1, <2>2, CallsAre DEF Working
    <2>5. /\ Msg("user", {}) \in Message /\ Msg("user", {}).role = "user" /\ Msg("user", {}).mid = 0
          /\ Msg("assistant", {}) \in Message /\ Msg("assistant", {}).role = "assistant"
          /\ Msg("assistant", {}).ids = {} /\ Msg("assistant", {}).mid = 0
        BY MsgType
    <2>6. Asked \in Msgs /\ Answer \in Msgs
        BY <1>0, AnswerType
    <2>7. Shape(Asked, {}) /\ Extends(Asked, chan.msgs)
        <3> DEFINE m == Msg("user", {})
        <3>1. m \in Message /\ m.role # "tool" /\ m.role # "assistant" /\ m.mid = 0
            BY <2>5
        <3> HIDE DEF m
        <3>2. Shape(Append(run.conv, m), {}) /\ Extends(Append(run.conv, m), chan.msgs)
            BY <1>0, <2>4, <3>1, ShapeSay, ExtendsAppend
        <3> QED BY <2>4, <3>2 DEF Asked, m
    <2>8. Shape(Answer, {}) /\ Extends(Answer, chan.msgs)
        <3> DEFINE m == Msg("assistant", {})
        <3>1. m \in Message /\ m.role # "tool" /\ m.ids = {} /\ m.mid = 0
            BY <2>5
        <3> HIDE DEF m
        <3>2. Shape(Append(Asked, m), {}) /\ Extends(Append(Asked, m), chan.msgs)
            BY <1>0, <2>6, <2>7, <3>1, ShapeSay, ExtendsAppend
        <3> QED BY <3>2 DEF Answer, m
    <2>9. /\ chan'.msgs = AddMessages(chan.msgs, Answer)
          /\ AddMessages(chan.msgs, Answer) \in Msgs /\ StoredMsgs(AddMessages(chan.msgs, Answer))
          /\ Same(AddMessages(chan.msgs, Answer), Answer)
        BY <1>0, <2>1, <2>6, <2>8, AddType, AddStored, AddExtends
    <2>10. Shape(AddMessages(chan.msgs, Answer), {})
        BY <2>6, <2>8, <2>9, ShapeSame
    <2> QED BY <1>23, <2>1, <2>3, <2>9, <2>10
<1>8. CASE ModelTools
    <2>1. PICK n \in 1..MaxBatch :
              /\ calls + n <= MaxCalls
              /\ run'.conv = Append(run.conv, Msg("assistant", (calls + 1)..(calls + n)))
              /\ run'.todo = [i \in 1..n |-> calls + i]
        BY <1>0, <1>8, ModelToolsDoes
    <2>2. /\ run.at = "llm" /\ run.todo = <<>> /\ UNCHANGED <<busy, resumed, next, chan>>
        BY <1>0, <1>8, ModelToolsDoes DEF RunAt
    <2>3. Shape(run.conv, {}) /\ Extends(run.conv, chan.msgs)
        BY <1>0, <2>2, CallsAre DEF Working
    <2> DEFINE m == Msg("assistant", (calls + 1)..(calls + n))
    <2>4. m \in Message /\ m.role = "assistant" /\ m.ids = (calls + 1)..(calls + n) /\ m.mid = 0
        BY <1>0, <2>1, BatchType
    <2>5. calls \in Nat /\ n \in Nat
        BY <1>0, TypeIs
    <2>6. Calls(run'.todo) = (calls + 1)..(calls + n) /\ IsInjective(run'.todo)
        <3>1. DOMAIN run'.todo = 1..n /\ \A i \in 1..n : run'.todo[i] = calls + i
            BY <2>1
        <3>2. IsInjective(run'.todo)
            BY <2>5, <3>1 DEF IsInjective
        <3>3. ASSUME NEW i \in 1..n PROVE calls + i \in (calls + 1)..(calls + n)
            BY <2>5
        <3>4. ASSUME NEW c \in (calls + 1)..(calls + n) PROVE c - calls \in 1..n /\ calls + (c - calls) = c
            BY <2>5
        <3>5. \A c : c \in Calls(run'.todo) <=> c \in (calls + 1)..(calls + n)
            <4>1. \A c : c \in Calls(run'.todo) <=> \E i \in 1..n : c = calls + i
                BY <3>1 DEF Calls
            <4> QED BY <3>3, <3>4, <4>1
        <3> QED BY <3>2, <3>5
    <2> HIDE DEF m
    <2>7. Shape(Append(run.conv, m), (calls + 1)..(calls + n)) /\ Extends(Append(run.conv, m), chan.msgs)
        <3>1. m.role # "tool"
            BY <2>4
        <3> QED BY <1>0, <2>3, <2>4, <3>1, ShapeSay, ExtendsAppend
    <2>8. run'.conv = Append(run.conv, m)
        BY <2>1 DEF m
    <2> QED BY <1>24, <2>2, <2>6, <2>7, <2>8
<1>9. CASE Answers
    <2>1. /\ run.at = "tools" /\ run.todo # <<>> /\ UNCHANGED <<busy, resumed, next, chan>>
          /\ run'.conv = Append(run.conv, ToolMsg(Head(run.todo))) /\ run'.todo = Tail(run.todo)
        BY <1>9 DEF Answers
    <2>2. Shape(run.conv, Calls(run.todo)) /\ IsInjective(run.todo) /\ Extends(run.conv, chan.msgs)
        BY <1>0, <2>1 DEF Working
    <2> DEFINE c == Head(run.todo)
               m == ToolMsg(c)
    <2>3. m \in Message /\ m.role = "tool" /\ m.ids = {c} /\ m.mid = 0
        BY <1>0, <2>1, ResultType
    <2>4. c \in Calls(run.todo) /\ IsInjective(run'.todo) /\ Calls(run'.todo) = Calls(run.todo) \ {c}
        BY <1>0, <2>1, <2>2, CallsTail
    <2>5. Calls(run.todo) \in SUBSET Ids
        BY <1>0, CallsAre
    <2>6. run'.conv = Append(run.conv, m)
        BY <2>1
    <2> HIDE DEF m, c
    <2>7. Shape(Append(run.conv, m), Calls(run.todo) \ {c}) /\ Extends(Append(run.conv, m), chan.msgs)
        BY <1>0, <2>2, <2>3, <2>4, <2>5, ShapeResult, ExtendsAppend
    <2> QED BY <1>24, <2>1, <2>4, <2>6, <2>7
<1>10. CASE Asks
    <2>1. /\ run.at = "tools" /\ run.todo # <<>> /\ run'.at = "start" /\ next' = "wait_user"
          /\ chan'.msgs = AddMessages(chan.msgs, run.conv) /\ chan'.pending.call = Head(run.todo)
        BY <1>10, IdleIs DEF Asks
    <2>2. Shape(run.conv, Calls(run.todo)) /\ IsInjective(run.todo) /\ Extends(run.conv, chan.msgs)
        BY <1>0, <2>1 DEF Working
    <2>3. Head(run.todo) \in Calls(run.todo) /\ Calls(run.todo) \in SUBSET CallIds
        BY <1>0, <2>1, <2>2, CallsTail, CallsAre
    <2>4. /\ AddMessages(chan.msgs, run.conv) \in Msgs /\ StoredMsgs(AddMessages(chan.msgs, run.conv))
          /\ Same(AddMessages(chan.msgs, run.conv), run.conv)
        BY <1>0, <2>2, AddType, AddStored, AddExtends
    <2>5. Shape(AddMessages(chan.msgs, run.conv), Calls(run.todo))
        BY <1>0, <2>2, <2>4, ShapeSame
    <2> QED BY <1>23, <2>1, <2>3, <2>4, <2>5
<1>11. CASE NextRound
    <2>1. /\ run.at = "tools" /\ run'.conv = run.conv /\ run'.todo = run.todo
          /\ UNCHANGED <<busy, resumed, next, chan>>
        BY <1>0, <1>11, NextRoundDoes
    <2>2. Shape(run.conv, Calls(run.todo)) /\ IsInjective(run.todo) /\ Extends(run.conv, chan.msgs)
        BY <1>0, <2>1 DEF Working
    <2> QED BY <1>24, <2>1, <2>2
<1>12. CASE Respond
    <2>1. next \in {"end", "wait_user"} /\ UNCHANGED <<next, chan, run>>
        BY <1>12, RespondDoes
    <2> QED BY <1>20, <1>22, <2>1, SameHistory
<1>14. CASE Evict
    <2>1. UNCHANGED <<busy, resumed, next, chan, run>>
        BY <1>14 DEF Evict
    <2> QED BY <1>20, <1>22, <2>1, SameHistory
<1>15. CASE Restart
    <2>1. chan'.msgs = <<>> /\ chan'.pending = NoPending /\ run'.at = "start"
        BY <1>0, <1>15, RestartDoes, EmptyIs, IdleIs
    <2>2. <<>> \in Msgs /\ StoredMsgs(<<>>) /\ Shape(<<>>, {}) /\ {} \in SUBSET CallIds
        <3>1. <<>> \in Msgs /\ Len(<<>>) = 0
            BY EmptySeq DEF Msgs
        <3> QED BY <3>1, ShapeEmpty DEF StoredMsgs
    <2> QED BY <1>23, <2>1, <2>2
<1>16. CASE UNCHANGED vars
    <2>1. UNCHANGED <<busy, resumed, next, chan, run>>
        BY <1>16 DEF vars
    <2> QED BY <1>20, <1>22, <2>1, SameHistory
<1> QED BY <1>0, <1>1, <1>2, <1>3, <1>4, <1>5, <1>6, <1>7, <1>8, <1>9, <1>10, <1>11, <1>12,
           <1>14, <1>15, <1>16, Steps
-----------------------------------------------------------------------------
(* The inductive invariant and what follows from it.                       *)

\* What holds as long as no model call has failed.
Sound == Phase /\ Once /\ Prompted /\ Rounds /\ Picture /\ Taken /\ Own

Conversation ==
    /\ Types /\ Replies
    /\ NoFailure => Sound
    /\ NoFailure /\ ~faults.cut => History

LEMMA InitConversation == Init => Conversation
BY InitType, InitReplies, InitPhase, InitOnce, InitPrompted, InitRounds, InitPicture, InitTaken,
   InitOwn, InitHistory DEF Conversation, Sound

\* What was cut stays cut.
LEMMA CutStays == TypeOK /\ [Next]_vars /\ ~faults'.cut => ~faults.cut
<1> SUFFICES ASSUME TypeOK, [Next]_vars PROVE faults.cut => faults'.cut
    OBVIOUS
<1>1. CASE ModelText
    BY <1>1, ModelTextDoes
<1>2. CASE ModelFails
    BY <1>2, ModelFailsDoes
<1>3. CASE Restart
    BY <1>3, RestartDoes
<1>4. CASE Resume \/ Invoke \/ Classify \/ HandleMeta \/ HandleConfirm
    BY <1>4, ResumeDoes, InvokeDoes, ClassifyDoes, MetaDoes, ConfirmDoes
<1>5. CASE ReactStart \/ ModelTools \/ NextRound \/ Respond
    BY <1>5, ReactStartDoes, ModelToolsDoes, NextRoundDoes, RespondFaults
<1>6. CASE Answers \/ Asks \/ Evict \/ UNCHANGED vars
    BY <1>6 DEF Answers, Asks, Evict, vars
<1> QED BY <1>1, <1>2, <1>3, <1>4, <1>5, <1>6, Steps

LEMMA StepConversation == Conversation /\ [Next]_vars => Conversation'
<1> SUFFICES ASSUME Conversation, [Next]_vars PROVE Conversation'
    OBVIOUS
<1>1. Types /\ Replies /\ TypeOK
    BY DEF Conversation, Types
<1>2. Types'
    BY <1>1, StepTypeOK, StepRunAt DEF Types
<1>3. Replies'
    BY <1>1, StepReplies
<1>4. ASSUME NoFailure' PROVE Sound'
    <2>1. NoFailure /\ ~ModelFails
        BY <1>1, <1>4, FailureStays
    <2>2. Phase /\ Once /\ Prompted /\ Rounds /\ Picture /\ Taken /\ Own
        BY <2>1 DEF Conversation, Sound
    <2>3. Phase' /\ Once'
        BY <1>1, <2>1, <2>2, StepPhase, StepOnce
    <2>4. Prompted' /\ Rounds'
        BY <1>1, <2>1, <2>2, StepPrompted, StepRounds
    <2>5. Picture' /\ Taken' /\ Own'
        BY <1>1, <2>1, <2>2, StepPicture, StepTaken, StepOwn
    <2> QED BY <2>3, <2>4, <2>5 DEF Sound
<1>5. ASSUME NoFailure', ~faults'.cut PROVE History'
    <2>1. NoFailure /\ ~ModelFails /\ ~faults.cut
        BY <1>1, <1>5, FailureStays, CutStays
    <2>2. Phase /\ History
        BY <2>1 DEF Conversation, Sound
    <2> QED BY <1>1, <1>5, <2>1, <2>2, StepHistory
<1> QED BY <1>2, <1>3, <1>4, <1>5 DEF Conversation

\* Replies, phases, counters, pictures and histories stay as the invariant says,
\* whatever is evicted or restarts.
THEOREM ConversationHolds == Spec => []Conversation
BY InitConversation, StepConversation, PTL DEF Spec

\* Between turns the graph waits for a confirmation exactly when its prompt was
\* the last thing sent to the user, or lost on the way: the state is saved before
\* the send, which may fail (handle_message's branches on final_response and
\* pending_confirmation), as long as no model call has failed.
THEOREM WaitsWhenPrompted == Spec => []WaitsIffPrompted
<1>1. Conversation => WaitsIffPrompted
    BY DEF Conversation, Sound, Phase, WaitsIffPrompted
<1> QED BY <1>1, ConversationHolds, PTL

\* A reply is used once and for its own operation: nothing runs twice while no
\* model call fails, and nothing runs before its reply (or, if the prompt was not
\* sent, the message taken for it), and no reply is left for a classification,
\* even when they fail and sessions are evicted.
THEOREM ReplyUsedOnce == Spec => []RepliesUsedOnce
<1>1. Conversation => RunsOnlyAfterReply /\ NoReplyAtClassify
    <2> SUFFICES ASSUME Replies PROVE RunsOnlyAfterReply /\ NoReplyAtClassify
        BY DEF Conversation
    <2>1. next # "handle_confirm" => chan.resp = ""
        BY DEF Replies
    <2>2. \A c \in CallIds : ran[c] > 0 => reply[c] # ""
        BY DEF Replies
    <2> QED BY <2>1, <2>2 DEF RunsOnlyAfterReply, NoReplyAtClassify
<1>2. Conversation => RunsOnce
    BY DEF Conversation, Sound, Once, RunsOnce
<1>3. Conversation => RepliesUsedOnce
    BY <1>1, <1>2 DEF RepliesUsedOnce
<1> QED BY <1>3, ConversationHolds, PTL

\* A task asks for at most three confirmations, and each buys it at most
\* MAX_TOOL_ROUNDS more model rounds, over all interrupts and resumptions.
THEOREM TasksBounded == Spec => []TaskBounded
<1>1. Conversation => AtMostThreePrompts
    BY DEF Conversation, Sound, Prompted, AtMostThreePrompts
<1>2. Conversation => RoundsBounded
    <2> SUFFICES ASSUME Conversation, NoFailure PROVE rounds <= MAX_TOOL_ROUNDS * (prompts + 1)
        BY DEF RoundsBounded
    <2>1. prompts \in Nat /\ MAX_TOOL_ROUNDS \in Nat
        BY GraphAssumption DEF Conversation, Types, TypeOK
    <2>2. rounds <= MAX_TOOL_ROUNDS * prompts + MAX_TOOL_ROUNDS
        BY DEF Conversation, Sound, Rounds, Paid
    <2> QED BY <2>1, <2>2, PaidNext
<1>3. Conversation => TaskBounded
    BY <1>1, <1>2 DEF TaskBounded
<1> QED BY <1>3, ConversationHolds, PTL

\* Whatever tasks, prompts, evictions and restarts came before, a run that does
\* not deal with a reply calls the model with the message it is to answer and
\* with that message's picture, beside which no other is described (react_node's
\* is_resuming guess, media_state, extract_recent_image_context).
THEOREM MessageTaken == Spec => []MessageReachesModel
<1>1. Conversation => RequestReachesModel
    <2> SUFFICES ASSUME Conversation, NoFailure, run.at = "llm", ~resumed
                 PROVE  Holds(run.conv, turns)
        BY DEF RequestReachesModel, Holds
    <2> QED BY DEF Conversation, Sound, Taken
<1>2. Conversation => PictureOfThisMessage
    <2> SUFFICES ASSUME Conversation, NoFailure, run.at = "llm", ~resumed
                 PROVE  /\ run.shown = Pic(text, turns)
                        /\ text = "photo" =>
                              \A k \in DOMAIN run.conv :
                                  run.conv[k].role = "user" /\ turns \in run.conv[k].ids =>
                                      run.conv[k].pics \subseteq {turns}
        BY DEF PictureOfThisMessage, Pic
    <2>1. Taken /\ Own
        BY DEF Conversation, Sound
    <2>2. run.shown = Pic(text, turns)
        BY <2>1 DEF Taken
    <2>3. text = "photo" => run.conv \in Seq(Mine(turns))
        BY <2>1 DEF Own
    <2>4. \A s \in Seq(Mine(turns)) : \A k \in DOMAIN s : s[k] \in Mine(turns)
        BY ElementOfSeq, LenProperties
    <2> QED BY <2>2, <2>3, <2>4 DEF Mine
<1>3. Conversation => MessageReachesModel
    BY <1>1, <1>2 DEF MessageReachesModel
<1> QED BY <1>3, ConversationHolds, PTL

\* react_node never calls the model with a tool request that lacks a result or a
\* result without its request, however many confirmations cut batches short,
\* as long as no model call failed and the history was not cut
\* (_fix_orphaned_tool_calls, handle_confirm_node's tool message, add_messages).
THEOREM HistoryIsAccepted == Spec => []HistoryAccepted
<1>1. Conversation => HistoryAccepted
    <2> SUFFICES ASSUME Conversation, NoFailure, ~faults.cut, run.at = "llm" PROVE Accepted(run.conv)
        BY DEF HistoryAccepted
    <2>1. TypeOK /\ RunAt /\ Working
        BY DEF Conversation, Types, History
    <2>2. run.conv \in Msgs /\ run.todo = <<>>
        BY <2>1, TypeIs DEF Runs, RunAt
    <2>3. Shape(run.conv, {})
        BY <2>1, <2>2, CallsAre DEF Working
    <2> QED BY <2>2, <2>3, ShapeAccepted
<1> QED BY <1>1, ConversationHolds, PTL
=============================================================================
