--------------------------- MODULE SharedDepsProofs ---------------------------
(***************************************************************************)
(* Proofs about SharedDeps, for every number of users and turns: its type  *)
(* invariant, which skills a model call is offered, and that streaming and *)
(* sending the remainder of an answer fit together.                        *)
(***************************************************************************)
EXTENDS SharedDeps, SequenceTheorems, TLAPS

USE DEF shared, vars
-----------------------------------------------------------------------------
(* Type correctness.                                                       *)

\* What is still to be sent is part of the answer.
LEMMA RestType ==
    ASSUME TypeOK, NEW u \in Users
    PROVE  /\ Rest(u) \in Seq(0..AnswerLen)
           /\ Len(Rest(u)) = IF counted[u] < AnswerLen THEN AnswerLen - counted[u] ELSE 0
           /\ \A i \in 1..Len(Rest(u)) : Rest(u)[i] = counted[u] + i
<1>1. counted[u] \in Nat /\ AnswerLen \in Nat
    BY SharedAssumption DEF TypeOK
<1>2. \A i \in (counted[u] + 1)..AnswerLen : Answer[i] \in 0..AnswerLen /\ Answer[i] = i
    BY <1>1 DEF Answer
<1> DEFINE m == counted[u] + 1
<1>3. m \in Int /\ AnswerLen \in Int /\ \A i \in m..AnswerLen : Answer[i] \in 0..AnswerLen
    BY <1>1, <1>2
<1>4. /\ Rest(u) \in Seq(0..AnswerLen)
      /\ Len(Rest(u)) = IF m <= AnswerLen THEN AnswerLen - m + 1 ELSE 0
      /\ \A i \in 1..(AnswerLen - m + 1) : Rest(u)[i] = Answer[m + i - 1]
    <2> HIDE DEF m
    <2>1. Rest(u) = SubSeq(Answer, m, AnswerLen)
        BY DEF Rest, m
    <2> QED BY <1>3, <2>1, SubSeqProperties
<1>5. \A i \in 1..(AnswerLen - m + 1) : Rest(u)[i] = counted[u] + i
    <2> SUFFICES ASSUME NEW i \in 1..(AnswerLen - m + 1) PROVE Rest(u)[i] = counted[u] + i
        OBVIOUS
    <2>1. m + i - 1 = counted[u] + i /\ m + i - 1 \in m..AnswerLen
        BY <1>1
    <2>2. Rest(u)[i] = Answer[m + i - 1]
        BY <1>4
    <2> QED BY <1>2, <2>1, <2>2
<1> QED BY <1>1, <1>4, <1>5

\* Nothing has begun at the start.
LEMMA InitType == Init => TypeOK
<1> SUFFICES ASSUME Init PROVE TypeOK
    OBVIOUS
<1>1. NoTurn \in Turns
    BY DEF Turns
<1>2. <<>> \in Seq(0..AnswerLen) /\ <<>> \in Seq(Part)
    BY EmptySeq
<1>3. todo \in [Users -> Seq(0..AnswerLen)] /\ got \in [Users -> Seq(Part)]
    BY <1>2 DEF Init
<1> QED BY <1>1, <1>3 DEF Init, TypeOK

\* The remainder as it is received.
Sent(u) == [i \in DOMAIN Rest(u) |-> [by |-> u, turn |-> turn[u], chunk |-> Rest(u)[i]]]

LEMMA SentType ==
    ASSUME TypeOK, NEW u \in Users
    PROVE  /\ Sent(u) \in Seq(Part) /\ Len(Sent(u)) = Len(Rest(u))
           /\ \A i \in 1..Len(Rest(u)) :
                 Sent(u)[i] = [by |-> u, turn |-> turn[u], chunk |-> counted[u] + i]
<1>1. DOMAIN Rest(u) = 1..Len(Rest(u)) /\ Len(Rest(u)) \in Nat
      /\ \A i \in 1..Len(Rest(u)) : Rest(u)[i] \in 0..AnswerLen
    BY RestType, LenProperties, ElementOfSeq
<1>2. \A i \in 1..Len(Rest(u)) :
         [by |-> u, turn |-> turn[u], chunk |-> Rest(u)[i]] \in Part
    BY <1>1 DEF TypeOK, Part
<1> DEFINE f == Sent(u)
<1>3. f = [i \in 1..Len(Rest(u)) |-> f[i]] /\ \A i \in 1..Len(Rest(u)) : f[i] \in Part
    BY <1>1, <1>2 DEF Sent
<1>4. f \in Seq(Part) /\ Len(f) = Len(Rest(u))
    BY <1>1, <1>3, IsASeq
<1> QED BY <1>1, <1>4, RestType DEF Sent

\* Every step keeps the types.
LEMMA StepType == TypeOK /\ [Next]_vars => TypeOK'
<1> SUFFICES ASSUME TypeOK, [Next]_vars PROVE TypeOK'
    OBVIOUS
<1> DEFINE Places == {"idle", "queued", "round", "talk", "answer", "await",
                      "restore", "clear", "send"}
<1>0. NoTurn \in Turns /\ None \in Users \cup {None} /\ <<>> \in Seq(Part)
      /\ <<>> \in Seq(0..AnswerLen) /\ AnswerLen \in Nat
    BY EmptySeq, SharedAssumption DEF Turns
<1>1. ASSUME NEW u \in Users, Start(u) PROVE TypeOK'
    <2>1. callback' \in Turns
        <3>1. callback' = [user |-> u, turn |-> turn[u] + 1]
            BY <1>1 DEF Start
        <3>2. turn[u] + 1 \in Nat
            BY DEF TypeOK
        <3> QED BY <3>1, <3>2 DEF Turns
    <2>2. skill' \in [Users -> BOOLEAN] /\ overlap' \in BOOLEAN
        BY <1>1 DEF Start, TypeOK
    <2>3. /\ turn' = [turn EXCEPT ![u] = @ + 1] /\ at' = [at EXCEPT ![u] = "queued"]
          /\ round' = [round EXCEPT ![u] = 1] /\ counted' = [counted EXCEPT ![u] = 0]
          /\ got' = [got EXCEPT ![u] = <<>>]
          /\ UNCHANGED <<loop, tools, saved, cb, todo, errors, offered>>
        BY <1>1 DEF Start
    <2>4. turn' \in [Users -> Nat] /\ round' \in [Users -> Nat] /\ counted' \in [Users -> Nat]
        BY <2>3 DEF TypeOK
    <2>5. at' \in [Users -> Places] /\ got' \in [Users -> Seq(Part)]
        BY <1>0, <2>3 DEF TypeOK
    <2> QED BY <2>1, <2>2, <2>3, <2>4, <2>5 DEF TypeOK
<1>2. ASSUME NEW u \in Users, Enter(u) PROVE TypeOK'
    BY <1>2 DEF Enter, TypeOK
<1>3. ASSUME NEW u \in Users, ModelCall(u) PROVE TypeOK'
    <2>1. <<0>> \in Seq(0..AnswerLen) /\ Answer \in Seq(0..AnswerLen)
        <3>1. <<0>> = [i \in 1..1 |-> 0]
            OBVIOUS
        <3>2. <<0>> \in Seq(0..AnswerLen)
            BY <1>0
        <3>3. \A i \in 1..AnswerLen : i \in 0..AnswerLen
            BY <1>0
        <3> QED BY <1>0, <3>2, <3>3, IsASeq DEF Answer
    <2>2. offered' \subseteq [user : Users, round : Nat, wanted : BOOLEAN, tools : SUBSET Users]
          /\ overlap' = overlap
        BY <1>3 DEF ModelCall, Offer, TypeOK
    <2>3. todo' \in [Users -> Seq(0..AnswerLen)] /\ at' \in [Users -> Places]
        <3>1. \E a \in {"talk", "answer"}, t \in Seq(0..AnswerLen) :
                  at' = [at EXCEPT ![u] = a] /\ todo' = [todo EXCEPT ![u] = t]
            BY <1>0, <1>3, <2>1 DEF ModelCall
        <3> QED BY <3>1 DEF TypeOK
    <2>4. cb' \in [Users -> Turns]
        BY <1>3 DEF ModelCall, TypeOK
    <2> QED BY <1>3, <2>2, <2>3, <2>4 DEF ModelCall, TypeOK
<1>4. ASSUME NEW u \in Users, LastCall(u) PROVE TypeOK'
    <2>1. offered' \subseteq [user : Users, round : Nat, wanted : BOOLEAN, tools : SUBSET Users]
          /\ overlap' = overlap
        BY <1>4 DEF LastCall, Offer, TypeOK
    <2> QED BY <1>4, <2>1 DEF LastCall, TypeOK
<1>5. ASSUME NEW u \in Users, Stream(u) PROVE TypeOK'
    <2> DEFINE part == [by |-> u, turn |-> turn[u], chunk |-> Head(todo[u])]
    <2>1. Head(todo[u]) \in 0..AnswerLen /\ Tail(todo[u]) \in Seq(0..AnswerLen)
        BY <1>5, HeadTailProperties DEF Stream, TypeOK
    <2>2. part \in Part
        BY <2>1 DEF Part, TypeOK
    <2> HIDE DEF part
    <2>3. todo' \in [Users -> Seq(0..AnswerLen)]
        BY <1>5, <2>1 DEF Stream, TypeOK
    <2>4. cb[u] = NoTurn \/ cb[u].user \in Users
        BY DEF TypeOK, Turns
    <2>5. \/ /\ cb[u] # NoTurn
             /\ got' = [got EXCEPT ![cb[u].user] = Append(@, part)]
             /\ counted' = IF cb[u].turn = turn[cb[u].user]
                           THEN [counted EXCEPT ![cb[u].user] = @ + 1] ELSE counted
             /\ UNCHANGED errors
          \/ errors' = errors + 1 /\ UNCHANGED <<got, counted>>
          \/ UNCHANGED <<got, counted, errors>>
        BY <1>5 DEF Stream, part
    <2>6. got' \in [Users -> Seq(Part)]
        <3>1. \A v \in Users : Append(got[v], part) \in Seq(Part)
            BY <2>2, AppendProperties DEF TypeOK
        <3> QED BY <2>4, <2>5, <3>1 DEF TypeOK
    <2>7. counted' \in [Users -> Nat] /\ errors' \in Nat
        <3>1. \A v \in Users : counted[v] + 1 \in Nat
            BY DEF TypeOK
        <3>2. counted \in [Users -> Nat] /\ errors \in Nat /\ errors + 1 \in Nat
            BY DEF TypeOK
        <3>3. counted' = counted \/ \E v \in Users : counted' = [counted EXCEPT ![v] = @ + 1]
            BY <2>4, <2>5
        <3>4. errors' = errors \/ errors' = errors + 1
            BY <2>5
        <3> QED BY <3>1, <3>2, <3>3, <3>4
    <2> QED BY <1>5, <2>3, <2>6, <2>7 DEF Stream, TypeOK
<1>6. ASSUME NEW u \in Users, Answered(u) PROVE TypeOK'
    BY <1>6 DEF Answered, TypeOK
<1>7. ASSUME NEW u \in Users, CallTool(u) PROVE TypeOK'
    <2>1. /\ \E a \in {"round", "await"} : at' = [at EXCEPT ![u] = a]
          /\ round' = [round EXCEPT ![u] = @ + 1] /\ loop' \in {loop, None}
          /\ UNCHANGED <<turn, callback, tools, skill, saved, cb, todo, counted, errors,
                         got, offered, overlap>>
        BY <1>7 DEF CallTool
    <2>2. round' \in [Users -> Nat] /\ at' \in [Users -> Places]
        BY <2>1 DEF TypeOK
    <2> QED BY <2>1, <2>2 DEF TypeOK
<1>8. ASSUME NEW u \in Users, ToolDone(u) PROVE TypeOK'
    BY <1>8 DEF ToolDone, TypeOK
<1>9. ASSUME NEW u \in Users, Restore(u) PROVE TypeOK'
    BY <1>9 DEF Restore, TypeOK, None
<1>10. ASSUME NEW u \in Users, ModelFails(u) PROVE TypeOK'
    BY <1>10 DEF ModelFails, TypeOK, None
<1>11. ASSUME NEW u \in Users, Clear(u) PROVE TypeOK'
    BY <1>0, <1>11 DEF Clear, TypeOK
<1>12. ASSUME NEW u \in Users, Send(u) PROVE TypeOK'
    <2>1. got' = [got EXCEPT ![u] = @ \o Sent(u)]
        BY <1>12 DEF Send, Sent
    <2>2. got[u] \o Sent(u) \in Seq(Part)
        BY SentType, ConcatProperties DEF TypeOK
    <2>3. got' \in [Users -> Seq(Part)]
        BY <2>1, <2>2 DEF TypeOK
    <2> QED BY <1>12, <2>3 DEF Send, TypeOK
<1>13. ASSUME UNCHANGED vars PROVE TypeOK'
    BY <1>13 DEF TypeOK
<1> QED BY <1>1, <1>2, <1>3, <1>4, <1>5, <1>6, <1>7, <1>8, <1>9, <1>10, <1>11, <1>12,
           <1>13 DEF Next, React, Finish

\* What the turns share and what each keeps for itself always has its type.
THEOREM TypeCorrect == Spec => []TypeOK
BY InitType, StepType, PTL DEF Spec
-----------------------------------------------------------------------------
(* Skills.                                                                 *)

Holding == {"round", "talk", "answer", "restore"}
Within  == Holding \cup {"await"}

\* A turn holds the event loop from its entry into react_node to its end, but
\* for the time it awaits a tool.
LoopHeld == \A u \in Users : loop = u <=> at[u] \in Holding

\* Until its first model call nobody could take a turn's skill from the list.
FirstOffer ==
    /\ \A u \in Users : at[u] = "queued" => round[u] = 1
    /\ \A u \in Users : at[u] \in Within => round[u] >= 1
    /\ \A u \in Users : at[u] = "await" => round[u] > 1
    /\ \A u \in Users : at[u] \in Holding /\ round[u] = 1 /\ skill[u] => u \in tools
    /\ FirstCallOffersSkill

\* Turns that do not overlap find the list empty and leave it empty.
OneTurn == ~overlap => \A u, v \in Users : at[u] # "idle" /\ at[v] # "idle" => u = v
OwnSkill ==
    ~overlap /\ errors = 0 =>
        /\ \A u \in Users : u \in tools <=> at[u] \in Within /\ skill[u]
        /\ \A u \in Users : at[u] \in Within => saved[u] = {}
        /\ \A o \in offered : o.tools = IF o.wanted THEN {o.user} ELSE {}

\* A step of one turn leaves the others where they are.
LEMMA OthersStay ==
    ASSUME TypeOK, NEW u \in Users, Start(u) \/ React(u) \/ ModelFails(u) \/ Finish(u)
    PROVE  \A v \in Users \ {u} : at'[v] = at[v] /\ round'[v] = round[v] /\ skill'[v] = skill[v]
                                  /\ saved'[v] = saved[v]
<1>1. CASE Start(u)
    <2>1. /\ at' = [at EXCEPT ![u] = "queued"] /\ round' = [round EXCEPT ![u] = 1]
          /\ (\E b \in BOOLEAN : skill' = [skill EXCEPT ![u] = b]) /\ saved' = saved
        BY <1>1 DEF Start
    <2> QED BY <2>1 DEF TypeOK
<1>2. CASE Enter(u)
    BY <1>2 DEF Enter, TypeOK
<1>3. CASE ModelCall(u)
    BY <1>3 DEF ModelCall, TypeOK
<1>4. CASE LastCall(u) \/ Answered(u) \/ ToolDone(u) \/ Restore(u) \/ ModelFails(u)
    BY <1>4 DEF LastCall, Answered, ToolDone, Restore, ModelFails, TypeOK
<1>5. CASE Stream(u)
    BY <1>5 DEF Stream
<1>6. CASE CallTool(u)
    BY <1>6 DEF CallTool, TypeOK
<1>7. CASE Finish(u)
    BY <1>7 DEF Finish, Clear, Send, TypeOK
<1> QED BY <1>1, <1>2, <1>3, <1>4, <1>5, <1>6, <1>7 DEF React

\* What a step does to the loop, the list and the round of its turn.
LEMMA TurnMoves ==
    ASSUME TypeOK, NEW u \in Users, Start(u) \/ React(u) \/ ModelFails(u) \/ Finish(u)
    PROVE  \/ /\ at[u] = "idle" /\ at'[u] = "queued" /\ round'[u] = 1
              /\ UNCHANGED <<loop, tools, saved, errors, offered>>
              /\ overlap' = (overlap \/ \E v \in Users \ {u} : at[v] # "idle")
           \/ /\ at[u] = "queued" /\ at'[u] = "round" /\ loop = None /\ loop' = u
              /\ saved'[u] = tools /\ tools' = (IF skill[u] THEN tools \cup {u} ELSE tools)
              /\ UNCHANGED <<round, skill, errors, offered, overlap>>
           \/ /\ at[u] = "round" /\ at'[u] \in {"talk", "answer", "restore"}
              /\ offered' = {[user |-> u, round |-> round[u], wanted |-> skill[u], tools |-> tools]}
              /\ UNCHANGED <<loop, tools, saved, round, skill, errors, overlap>>
           \/ /\ at[u] \in {"talk", "answer"} /\ at'[u] = at[u] /\ errors' \in {errors, errors + 1}
              /\ UNCHANGED <<loop, tools, saved, round, skill, offered, overlap>>
           \/ /\ at[u] = "answer" /\ at'[u] = "restore"
              /\ UNCHANGED <<loop, tools, saved, round, skill, errors, offered, overlap>>
           \/ /\ at[u] = "talk" /\ round'[u] = round[u] + 1
              /\ \/ at'[u] = "round" /\ loop' = loop
                 \/ at'[u] = "await" /\ loop' = None
              /\ UNCHANGED <<tools, saved, skill, errors, offered, overlap>>
           \/ /\ at[u] = "await" /\ at'[u] = "round" /\ loop = None /\ loop' = u
              /\ UNCHANGED <<tools, saved, round, skill, errors, offered, overlap>>
           \/ /\ at[u] = "restore" /\ at'[u] = "clear" /\ loop' = None
              /\ tools' = (IF skill[u] THEN saved[u] ELSE tools)
              /\ UNCHANGED <<saved, round, skill, errors, offered, overlap>>
           \/ /\ at[u] = "round" /\ at'[u] = "idle" /\ loop' = None /\ errors' = errors + 1
              /\ UNCHANGED <<tools, saved, round, skill, offered, overlap>>
           \/ /\ at[u] \in {"clear", "send"} /\ at'[u] \in {"send", "idle"}
              /\ UNCHANGED <<loop, tools, saved, round, skill, errors, offered, overlap>>
<1>1. CASE Start(u)
    BY <1>1 DEF Start, TypeOK
<1>2. CASE Enter(u)
    BY <1>2 DEF Enter, TypeOK
<1>3. CASE ModelCall(u) \/ LastCall(u)
    BY <1>3 DEF ModelCall, LastCall, Offer, TypeOK
<1>4. CASE Stream(u)
    BY <1>4 DEF Stream, TypeOK
<1>5. CASE Answered(u)
    BY <1>5 DEF Answered, TypeOK
<1>6. CASE CallTool(u)
    BY <1>6 DEF CallTool, TypeOK
<1>7. CASE ToolDone(u)
    BY <1>7 DEF ToolDone, TypeOK
<1>8. CASE Restore(u)
    BY <1>8 DEF Restore, TypeOK
<1>9. CASE ModelFails(u)
    BY <1>9 DEF ModelFails, TypeOK
<1>10. CASE Finish(u)
    BY <1>10 DEF Finish, Clear, Send, TypeOK
<1> QED BY <1>1, <1>2, <1>3, <1>4, <1>5, <1>6, <1>7, <1>8, <1>9, <1>10 DEF React

\* Every step keeps what is said about loop, list and turns.
LEMMA StepSkills ==
    ASSUME TypeOK, LoopHeld, FirstOffer, OneTurn, OwnSkill, [Next]_vars
    PROVE  LoopHeld' /\ FirstOffer' /\ OneTurn' /\ OwnSkill'
<1>1. ASSUME NEW u \in Users, Start(u) \/ React(u) \/ ModelFails(u) \/ Finish(u)
      PROVE  LoopHeld' /\ FirstOffer' /\ OneTurn' /\ OwnSkill'
    <2>0. None \notin Users
        BY SharedAssumption DEF None
    <2>1. \A v \in Users \ {u} : at'[v] = at[v] /\ round'[v] = round[v] /\ skill'[v] = skill[v]
                                  /\ saved'[v] = saved[v]
        BY <1>1, OthersStay
    <2>2. LoopHeld'
        BY <1>1, <2>0, <2>1, TurnMoves DEF LoopHeld, Holding, TypeOK
    <2>3. \A v \in Users : (at[v] \in Holding => loop = v) /\ round[v] \in Nat
        BY DEF LoopHeld, TypeOK
    <2>4. FirstOffer'
        BY <1>1, <2>0, <2>1, <2>3, TurnMoves DEF FirstOffer, FirstCallOffersSkill, Holding, Within
    <2>5. OneTurn'
        BY <1>1, <2>1, TurnMoves DEF OneTurn, TypeOK
    <2>6. OwnSkill'
        <3> SUFFICES ASSUME ~overlap', errors' = 0 PROVE OwnSkill'
            BY DEF OwnSkill
        <3>1. ~overlap /\ errors = 0
            BY <1>1, TurnMoves DEF TypeOK
        <3>2. \A v \in Users \ {u} : at[v] = "idle" /\ v \notin tools
            <4>1. \A v \in Users \ {u} : at[v] = "idle"
                BY <1>1, <3>1, TurnMoves DEF OneTurn
            <4> QED BY <3>1, <4>1 DEF OwnSkill, Within, Holding
        <3>3. /\ u \in tools <=> at[u] \in Within /\ skill[u]
              /\ at[u] \in Within => saved[u] = {}
              /\ tools \subseteq {u}
            BY <3>1, <3>2 DEF OwnSkill, TypeOK
        <3>4. \A v \in Users : v \in tools' <=> at'[v] \in Within /\ skill'[v]
            <4>1. ASSUME NEW v \in Users \ {u} PROVE v \notin tools' /\ at'[v] \notin Within
                BY <1>1, <2>1, <3>2, <3>3, TurnMoves DEF Within, Holding
            <4>2. u \in tools' <=> at'[u] \in Within /\ skill'[u]
                BY <1>1, <3>1, <3>3, TurnMoves DEF Within, Holding
            <4> QED BY <4>1, <4>2
        <3>5. \A v \in Users : at'[v] \in Within => saved'[v] = {}
            <4>1. ASSUME NEW v \in Users \ {u} PROVE at'[v] \notin Within
                BY <2>1, <3>2 DEF Within, Holding
            <4>2. tools = {} \/ u \in tools
                BY <3>3
            <4>3. at[u] = "queued" => tools = {}
                BY <3>3, <4>2 DEF Within, Holding
            <4>4. at'[u] \in Within => saved'[u] = {}
                BY <1>1, <3>3, <4>3, TurnMoves DEF Within, Holding
            <4> QED BY <4>1, <4>4
        <3>6. offered' = offered
              \/ /\ at[u] = "round"
                 /\ offered' = {[user |-> u, round |-> round[u], wanted |-> skill[u], tools |-> tools]}
            BY <1>1, TurnMoves
        <3>7. at[u] = "round" => tools = IF skill[u] THEN {u} ELSE {}
            BY <3>3 DEF Within, Holding
        <3>8. \A o \in offered' : o.tools = IF o.wanted THEN {o.user} ELSE {}
            <4>1. CASE offered' = offered
                BY <3>1, <4>1 DEF OwnSkill
            <4>2. CASE offered' # offered
                <5>1. \A o \in offered' : o.user = u /\ o.wanted = skill[u] /\ o.tools = tools
                    BY <3>6, <4>2
                <5> QED BY <3>6, <3>7, <4>2, <5>1
            <4> QED BY <4>1, <4>2
        <3> QED BY <3>4, <3>5, <3>8 DEF OwnSkill
    <2> QED BY <2>2, <2>4, <2>5, <2>6
<1>2. ASSUME UNCHANGED vars PROVE LoopHeld' /\ FirstOffer' /\ OneTurn' /\ OwnSkill'
    BY <1>2 DEF LoopHeld, FirstOffer, OneTurn, OwnSkill, FirstCallOffersSkill
<1> QED BY <1>1, <1>2 DEF Next

\* It holds at the start.
LEMMA InitSkills == Init => LoopHeld /\ FirstOffer /\ OneTurn /\ OwnSkill
BY SharedAssumption
   DEF Init, LoopHeld, FirstOffer, OneTurn, OwnSkill, FirstCallOffersSkill, Holding, Within, None

\* The first model call of a turn is offered the skill the turn triggers, and as
\* long as no turns overlap and nothing fails, every call is offered its own
\* turn's skill and no other.
THEOREM SkillsCorrect == Spec => []SkillsOffered
<1> DEFINE IInv == TypeOK /\ LoopHeld /\ FirstOffer /\ OneTurn /\ OwnSkill
<1>1. Init => IInv
    BY InitType, InitSkills
<1>2. IInv /\ [Next]_vars => IInv'
    BY StepType, StepSkills
<1>3. IInv => SkillsOffered
    BY DEF FirstOffer, OwnSkill, SkillsOffered, SkillsAsTriggered
<1> QED BY <1>1, <1>2, <1>3, PTL DEF Spec
-----------------------------------------------------------------------------
(* The text of an answer.                                                  *)

Before == {"queued", "round", "talk", "await"}   \* no final answer yet
After  == {"restore", "clear", "send"}

\* The parts of the final answer of its own turn that a user has received.
Own(u) == {i \in 1..Len(got[u]) : got[u][i].by = u /\ got[u][i].chunk # 0}

\* A user's callback belongs to its last turn.
LastCallback == \A u \in Users : callback.user = u => callback.turn = turn[u]

\* What a user has received of an answer was counted in its turn, so that the
\* remainder starts after it.  Len(todo[u]) chunks are still to be streamed.
Text(u) ==
    /\ at[u] \in Before => Own(u) = {}
    /\ at[u] = "talk" => todo[u] \in {<<>>, <<0>>}
    /\ at[u] = "answer" =>
        /\ \A j \in 1..Len(todo[u]) : todo[u][j] = AnswerLen - Len(todo[u]) + j
        /\ \A i \in Own(u) : got[u][i].chunk + Len(todo[u]) <= AnswerLen
        /\ Own(u) # {} => cb[u].user = u
        /\ cb[u].user = u => cb[u].turn = turn[u]
        /\ errors = 0 /\ cb[u].user = u => AnswerLen <= counted[u] + Len(todo[u])
    /\ errors = 0 /\ at[u] \in After => \A i \in Own(u) : got[u][i].chunk <= counted[u]
    /\ errors = 0 => \A i, j \in Own(u) : i # j => got[u][i].chunk # got[u][j].chunk

\* A turn that overlaps no other streams to its own user only, and all of it.
NoZero(u) == \A i \in 1..Len(got[u]) : got[u][i].chunk # 0
OwnPart(u, c) == [by |-> u, turn |-> turn[u], chunk |-> c]
Whole(u) ==
    ~overlap /\ errors = 0 =>
        /\ at[u] \in Before \cup {"answer"} => callback = Turn(u)
        /\ at[u] \in {"talk", "answer"} => cb[u] = Turn(u)
        /\ at[u] # "idle" => counted[u] = Len(got[u])
        /\ NoZero(u) =>
            /\ at[u] # "idle" => \A i \in 1..Len(got[u]) : got[u][i] = OwnPart(u, i)
            /\ at[u] \in Before => Len(got[u]) = 0
            /\ at[u] = "answer" => Len(got[u]) + Len(todo[u]) = AnswerLen
            /\ at[u] = "idle" /\ turn[u] > 0 =>
                   \A c \in 1..AnswerLen : OwnPart(u, c) \in Range(got[u])

\* What a turn's steps can do to another user: send it text, and count it.
LEMMA OthersHear ==
    ASSUME TypeOK, NEW u \in Users, Start(u) \/ React(u) \/ ModelFails(u) \/ Finish(u),
           NEW v \in Users \ {u}
    PROVE  /\ at'[v] = at[v] /\ todo'[v] = todo[v] /\ cb'[v] = cb[v] /\ turn'[v] = turn[v]
           /\ counted[v] <= counted'[v]
           /\ Len(got[v]) \in Nat /\ Len(got'[v]) \in Nat /\ Len(got[v]) <= Len(got'[v])
           /\ \A i \in 1..Len(got[v]) : got'[v][i] = got[v][i]
           /\ \A i \in 1..Len(got'[v]) : i > Len(got[v]) => got'[v][i].by = u
<1>0. got[v] \in Seq(Part) /\ Len(got[v]) \in Nat /\ counted[v] \in Nat
    BY LenProperties DEF TypeOK
<1>1. CASE Stream(u)
    <2> DEFINE part == [by |-> u, turn |-> turn[u], chunk |-> Head(todo[u])]
    <2>1. /\ at' = at /\ cb' = cb /\ turn' = turn
          /\ todo' = [todo EXCEPT ![u] = Tail(@)]
        BY <1>1 DEF Stream
    <2>2. counted'[v] \in {counted[v], counted[v] + 1}
        BY <1>1 DEF Stream, TypeOK
    <2>3. got'[v] = got[v] \/ got'[v] = Append(got[v], part)
        BY <1>1 DEF Stream, TypeOK
    <2>4. part \in Part
        <3>1. Head(todo[u]) \in 0..AnswerLen
            BY <1>1, HeadTailProperties DEF Stream, TypeOK
        <3> QED BY <3>1 DEF Part, TypeOK
    <2>5. part.by = u
        OBVIOUS
    <2> HIDE DEF part
    <2>6. CASE got'[v] = got[v]
        BY <1>0, <2>1, <2>2, <2>6 DEF TypeOK
    <2>7. CASE got'[v] = Append(got[v], part)
        <3>1. /\ Len(got'[v]) = Len(got[v]) + 1
              /\ \A i \in 1..Len(got[v]) : got'[v][i] = got[v][i]
              /\ got'[v][Len(got[v]) + 1] = part
            BY <1>0, <2>4, <2>7, AppendProperties
        <3>2. \A i \in 1..Len(got'[v]) : i > Len(got[v]) => i = Len(got[v]) + 1
            BY <1>0, <3>1
        <3> QED BY <1>0, <2>1, <2>2, <2>5, <3>1, <3>2 DEF TypeOK
    <2> QED BY <2>3, <2>6, <2>7
<1>2. CASE ~Stream(u)
    <2>1. /\ at'[v] = at[v] /\ todo'[v] = todo[v] /\ cb'[v] = cb[v] /\ turn'[v] = turn[v]
          /\ counted'[v] = counted[v] /\ got'[v] = got[v]
        <3>1. CASE Start(u)
            BY <3>1 DEF Start, TypeOK
        <3>2. CASE Enter(u) \/ ModelCall(u)
            BY <3>2 DEF Enter, ModelCall, TypeOK
        <3>3. CASE LastCall(u) \/ Answered(u) \/ ToolDone(u) \/ Restore(u) \/ ModelFails(u)
            BY <3>3 DEF LastCall, Answered, ToolDone, Restore, ModelFails, TypeOK
        <3>4. CASE CallTool(u)
            BY <3>4 DEF CallTool, TypeOK
        <3>5. CASE Finish(u)
            BY <3>5 DEF Finish, Clear, Send, TypeOK
        <3> QED BY <1>2, <3>1, <3>2, <3>3, <3>4, <3>5 DEF React
    <2> QED BY <1>0, <2>1
<1> QED BY <1>1, <1>2

\* Failures are only ever added.
LEMMA ErrorsStay ==
    ASSUME TypeOK, NEW u \in Users, Start(u) \/ React(u) \/ ModelFails(u) \/ Finish(u)
    PROVE  /\ errors' = 0 => errors = 0
           /\ ~overlap' => ~overlap
           /\ Start(u) => overlap' = (overlap \/ \E v \in Users \ {u} : at[v] # "idle")
           /\ ~Start(u) => at[u] # "idle"
<1>1. errors \in Nat
    BY DEF TypeOK
<1>2. Start(u) => /\ overlap' = (overlap \/ \E v \in Users \ {u} : at[v] # "idle")
                  /\ errors' = errors
    BY DEF Start
<1>3. ~Start(u) => at[u] # "idle" /\ overlap' = overlap /\ errors' \in {errors, errors + 1}
    BY DEF React, Finish, Enter, ModelCall, LastCall, Offer, Stream, Answered, CallTool, ToolDone,
           Restore, ModelFails, Clear, Send
<1>4. errors' \in {errors, errors + 1}
    BY <1>2, <1>3
<1>5. errors' = 0 => errors = 0
    BY <1>1, <1>4
<1>6. ~overlap' => ~overlap
    <2>1. CASE Start(u)
        BY <1>2, <2>1
    <2>2. CASE ~Start(u)
        BY <1>3, <2>2
    <2> QED BY <2>1, <2>2
<1> QED BY <1>2, <1>3, <1>5, <1>6

\* So the answer of the other users is not disturbed.
LEMMA OthersText ==
    ASSUME TypeOK, TypeOK', OneTurn, NEW u \in Users,
           Start(u) \/ React(u) \/ ModelFails(u) \/ Finish(u),
           NEW v \in Users \ {u}, Text(v), Whole(v)
    PROVE  Text(v)' /\ Whole(v)'
<1>1. /\ at'[v] = at[v] /\ todo'[v] = todo[v] /\ cb'[v] = cb[v] /\ turn'[v] = turn[v]
      /\ counted[v] <= counted'[v]
      /\ Len(got[v]) \in Nat /\ Len(got'[v]) \in Nat /\ Len(got[v]) <= Len(got'[v])
      /\ \A i \in 1..Len(got[v]) : got'[v][i] = got[v][i]
      /\ \A i \in 1..Len(got'[v]) : i > Len(got[v]) => got'[v][i].by = u
    BY OthersHear
<1>2. errors' = 0 => errors = 0
    BY ErrorsStay
<1>3. Own(v)' = Own(v) /\ \A i \in Own(v) : got'[v][i] = got[v][i]
    BY <1>1 DEF Own
<1>4. Text(v)'
    <2>1. counted[v] \in Nat /\ counted'[v] \in Nat /\ Len(todo[v]) \in Nat /\ AnswerLen \in Nat
          /\ \A i \in Own(v) : got[v][i].chunk \in Nat
        <3>1. \A i \in Own(v) : got[v][i] \in Part
            BY ElementOfSeq DEF Own, TypeOK
        <3>2. \A i \in Own(v) : got[v][i].chunk \in Nat
            BY <3>1, SharedAssumption DEF Part
        <3> QED BY <3>2, LenProperties, SharedAssumption DEF TypeOK
    <2>2. at[v] = "answer" /\ errors' = 0 /\ cb[v].user = v
          => AnswerLen <= counted'[v] + Len(todo[v])
        BY <1>1, <1>2, <2>1 DEF Text
    <2>3. errors' = 0 /\ at[v] \in After => \A i \in Own(v) : got[v][i].chunk <= counted'[v]
        BY <1>1, <1>2, <2>1 DEF Text
    <2> QED BY <1>1, <1>2, <1>3, <2>2, <2>3 DEF Text
<1>5. Whole(v)'
    <2> SUFFICES ASSUME ~overlap', errors' = 0 PROVE Whole(v)'
        BY DEF Whole
    <2>1. ~overlap /\ errors = 0 /\ at'[v] = "idle"
        BY <1>1, ErrorsStay DEF OneTurn
    <2>2. NoZero(v)' => NoZero(v)
        BY <1>1 DEF NoZero
    <2>3. \A c \in 1..AnswerLen : OwnPart(v, c) \in Range(got[v]) => OwnPart(v, c)' \in Range(got'[v])
        <3>1. got[v] \in Seq(Part) /\ got'[v] \in Seq(Part)
            BY DEF TypeOK
        <3>2. DOMAIN got[v] = 1..Len(got[v]) /\ DOMAIN got'[v] = 1..Len(got'[v])
            BY <3>1, LenProperties
        <3> QED BY <1>1, <3>2 DEF Range, OwnPart
    <2> QED BY <1>1, <2>1, <2>2, <2>3 DEF Whole, Before
<1> QED BY <1>4, <1>5

\* The turn's own streaming: the next chunk of the answer goes to its callback.
LEMMA StreamText ==
    ASSUME TypeOK, TypeOK', NEW u \in Users, Stream(u), Text(u), Whole(u)
    PROVE  Text(u)' /\ Whole(u)'
<1> DEFINE part == [by |-> u, turn |-> turn[u], chunk |-> Head(todo[u])]
           n == Len(todo[u])
<1>1. /\ at' = at /\ cb' = cb /\ turn' = turn /\ callback' = callback /\ overlap' = overlap
      /\ at[u] \in {"talk", "answer"} /\ todo[u] # <<>> /\ todo'[u] = Tail(todo[u])
    BY DEF Stream, TypeOK
<1>2. \/ /\ cb[u] # NoTurn /\ got' = [got EXCEPT ![cb[u].user] = Append(@, part)]
         /\ counted' = IF cb[u].turn = turn[cb[u].user]
                       THEN [counted EXCEPT ![cb[u].user] = @ + 1] ELSE counted
         /\ UNCHANGED errors
      \/ cb[u] # NoTurn /\ errors' = errors + 1 /\ UNCHANGED <<got, counted>>
      \/ cb[u] = NoTurn /\ UNCHANGED <<got, counted, errors>>
    BY DEF Stream, part
<1>3. /\ todo[u] \in Seq(0..AnswerLen) /\ n \in Nat /\ n > 0
      /\ Head(todo[u]) = todo[u][1] /\ Len(todo'[u]) = n - 1
      /\ \A j \in 1..(n - 1) : todo'[u][j] = todo[u][j + 1]
      /\ Head(todo[u]) \in 0..AnswerLen
    <2>1. todo[u] \in Seq(0..AnswerLen) /\ todo[u] # <<>>
        BY <1>1 DEF TypeOK
    <2>2. n \in Nat /\ n > 0
        BY <2>1, EmptySeq, LenProperties
    <2>3. Head(todo[u]) = todo[u][1] /\ Head(todo[u]) \in 0..AnswerLen
        <3>1. Head(todo[u]) \in 0..AnswerLen
            BY <2>1, HeadTailProperties
        <3>2. Head(todo[u]) = todo[u][1]
            BY <2>1
        <3> QED BY <3>1, <3>2
    <2>4. /\ Len(Tail(todo[u])) = n - 1
          /\ \A j \in 1..(n - 1) : Tail(todo[u])[j] = todo[u][j + 1]
        BY <2>1, <2>2, HeadTailProperties
    <2> QED BY <1>1, <2>1, <2>2, <2>3, <2>4
<1>4. part \in Part /\ part.by = u /\ part.chunk = Head(todo[u]) /\ part = OwnPart(u, Head(todo[u]))
    BY <1>3 DEF Part, TypeOK, OwnPart
<1> HIDE DEF part, n
<1>5. /\ AnswerLen \in Nat /\ counted[u] \in Nat /\ errors \in Nat
      /\ got[u] \in Seq(Part) /\ Len(got[u]) \in Nat
      /\ \A i \in 1..Len(got[u]) : got[u][i].chunk \in Nat
    <2>1. got[u] \in Seq(Part)
        BY DEF TypeOK
    <2>2. \A i \in 1..Len(got[u]) : got[u][i].chunk \in Nat
        <3>1. \A i \in 1..Len(got[u]) : got[u][i] \in Part
            BY <2>1, ElementOfSeq
        <3> QED BY <3>1, SharedAssumption DEF Part
    <2> QED BY <2>1, <2>2, LenProperties, SharedAssumption DEF TypeOK
\* Either the user keeps what it has, or the chunk is appended and counted.
<1>6. \/ /\ got'[u] = got[u] /\ counted'[u] = counted[u]
         /\ errors' = errors => cb[u].user # u
      \/ /\ cb[u].user = u /\ got'[u] = Append(got[u], part) /\ errors' = errors
         /\ cb[u].turn = turn[u] => counted'[u] = counted[u] + 1
         /\ counted'[u] \in {counted[u], counted[u] + 1}
    <2>1. NoTurn.user # u /\ (cb[u] # NoTurn => cb[u].user \in Users)
        <3>1. cb[u] \in Turns
            BY DEF TypeOK
        <3> QED BY <3>1, SharedAssumption DEF NoTurn, Turns
    <2>2. errors + 1 # errors
        BY <1>5
    <2>3. CASE /\ cb[u] # NoTurn /\ got' = [got EXCEPT ![cb[u].user] = Append(@, part)]
               /\ counted' = IF cb[u].turn = turn[cb[u].user]
                             THEN [counted EXCEPT ![cb[u].user] = @ + 1] ELSE counted
               /\ UNCHANGED errors
        <3>1. CASE cb[u].user = u
            BY <2>3, <3>1 DEF TypeOK
        <3>2. CASE cb[u].user # u
            BY <2>1, <2>3, <3>2 DEF TypeOK
        <3> QED BY <3>1, <3>2
    <2> QED BY <1>2, <2>1, <2>2, <2>3
<1>7. errors' = 0 => errors = 0 /\ errors' = errors
    BY <1>2, <1>5
<1>8. ASSUME got'[u] = Append(got[u], part)
      PROVE  /\ Len(got'[u]) = Len(got[u]) + 1 /\ got'[u][Len(got[u]) + 1] = part
             /\ \A i \in 1..Len(got[u]) : got'[u][i] = got[u][i]
    BY <1>4, <1>5, <1>8, AppendProperties
<1>9. CASE at[u] = "talk"
    <2>1. todo[u] = <<0>>
        BY <1>1, <1>9 DEF Text
    <2>2. Head(todo[u]) = 0 /\ todo'[u] = <<>>
        BY <1>1, <2>1
    <2>3. Own(u) = {} /\ Own(u)' = {}
        <3>1. Own(u) = {}
            BY <1>9 DEF Text, Before
        <3>2. CASE got'[u] = got[u]
            BY <3>1, <3>2 DEF Own
        <3>3. CASE got'[u] = Append(got[u], part)
            BY <1>4, <1>5, <1>8, <2>2, <3>1, <3>3 DEF Own
        <3> QED BY <1>6, <3>1, <3>2, <3>3
    <2>4. Text(u)'
        BY <1>1, <1>9, <2>2, <2>3 DEF Text, Before, After
    <2>5. Whole(u)'
        <3> SUFFICES ASSUME ~overlap', errors' = 0 PROVE Whole(u)'
            BY DEF Whole
        <3>1. cb[u] = Turn(u) /\ callback = Turn(u) /\ counted[u] = Len(got[u])
            BY <1>1, <1>7, <1>9 DEF Whole, Before
        <3>2. got'[u] = Append(got[u], part) /\ counted'[u] = counted[u] + 1
            BY <1>6, <1>7, <3>1 DEF Turn
        <3>3. ~NoZero(u)'
            BY <1>4, <1>5, <1>8, <2>2, <3>2 DEF NoZero
        <3> QED BY <1>1, <1>5, <1>8, <1>9, <3>1, <3>2, <3>3 DEF Whole, Turn
    <2> QED BY <2>4, <2>5
<1>10. CASE at[u] = "answer"
    <2>1. /\ \A j \in 1..n : todo[u][j] = AnswerLen - n + j
          /\ \A i \in Own(u) : got[u][i].chunk + n <= AnswerLen
          /\ Own(u) # {} => cb[u].user = u
          /\ cb[u].user = u => cb[u].turn = turn[u]
          /\ errors = 0 /\ cb[u].user = u => AnswerLen <= counted[u] + n
          /\ errors = 0 => \A i, j \in Own(u) : i # j => got[u][i].chunk # got[u][j].chunk
        BY <1>10 DEF Text, n
    <2>2. Head(todo[u]) = AnswerLen - n + 1
        BY <1>3, <2>1
    <2>3. \A j \in 1..(n - 1) : todo'[u][j] = AnswerLen - (n - 1) + j
        <3> SUFFICES ASSUME NEW j \in 1..(n - 1) PROVE todo'[u][j] = AnswerLen - (n - 1) + j
            OBVIOUS
        <3>1. j + 1 \in 1..n
            BY <1>3
        <3> QED BY <1>3, <1>5, <2>1, <3>1
    <2>4. /\ \A i \in Own(u)' : got'[u][i].chunk + (n - 1) <= AnswerLen
          /\ Own(u)' # {} => cb[u].user = u
          /\ errors' = 0 => \A i, j \in Own(u)' : i # j => got'[u][i].chunk # got'[u][j].chunk
        <3>1. CASE got'[u] = got[u]
            <4>1. Own(u)' = Own(u)
                BY <3>1 DEF Own
            <4>2. \A i \in Own(u) : got[u][i].chunk \in Nat
                BY <1>5 DEF Own
            <4> QED BY <1>3, <1>5, <1>7, <2>1, <3>1, <4>1, <4>2
        <3>2. CASE cb[u].user = u /\ got'[u] = Append(got[u], part)
            <4>1. \A i \in Own(u)' : \/ i \in Own(u) /\ got'[u][i] = got[u][i]
                                     \/ i = Len(got[u]) + 1 /\ got'[u][i] = part
                <5>1. \A i \in 1..Len(got'[u]) : i \in 1..Len(got[u]) \/ i = Len(got[u]) + 1
                    BY <1>5, <1>8, <3>2
                <5> QED BY <1>8, <3>2, <5>1 DEF Own
            <4>2. \A i \in Own(u) : got[u][i].chunk \in Nat /\ i \in 1..Len(got[u])
                BY <1>5 DEF Own
            <4>3. part.chunk + n = AnswerLen + 1 /\ part.chunk \in Nat
                BY <1>3, <1>4, <1>5, <2>2
            <4>4. \A i \in Own(u) : got[u][i].chunk # part.chunk
                BY <1>3, <1>5, <2>1, <4>2, <4>3
            <4>5. \A i \in Own(u)' : got'[u][i].chunk + (n - 1) <= AnswerLen
                <5>1. \A i \in Own(u) : got[u][i].chunk + (n - 1) <= AnswerLen
                    BY <1>3, <1>5, <2>1, <4>2
                <5>2. part.chunk + (n - 1) <= AnswerLen
                    BY <1>3, <1>5, <4>3
                <5> QED BY <4>1, <5>1, <5>2
            <4>6. errors' = 0 => \A i, j \in Own(u)' : i # j => got'[u][i].chunk # got'[u][j].chunk
                BY <1>7, <2>1, <4>1, <4>4
            <4> QED BY <3>2, <4>5, <4>6
        <3> QED BY <1>6, <3>1, <3>2
    <2>5. errors' = 0 /\ cb[u].user = u => AnswerLen <= counted'[u] + (n - 1)
        BY <1>3, <1>5, <1>6, <1>7, <2>1
    <2>6. Text(u)'
        BY <1>1, <1>3, <1>10, <2>1, <2>3, <2>4, <2>5 DEF Text, Before, After
    <2>7. Whole(u)'
        <3> SUFFICES ASSUME ~overlap', errors' = 0 PROVE Whole(u)'
            BY DEF Whole
        <3>1. /\ cb[u] = Turn(u) /\ callback = Turn(u) /\ counted[u] = Len(got[u])
              /\ NoZero(u) => /\ \A i \in 1..Len(got[u]) : got[u][i] = OwnPart(u, i)
                              /\ Len(got[u]) + n = AnswerLen
            BY <1>1, <1>7, <1>10 DEF Whole, Before, n
        <3>2. got'[u] = Append(got[u], part) /\ counted'[u] = counted[u] + 1
            BY <1>6, <1>7, <3>1 DEF Turn
        <3>3. NoZero(u)' => NoZero(u)
            BY <1>5, <1>8, <3>2 DEF NoZero
        <3>4. NoZero(u) => part = OwnPart(u, Len(got[u]) + 1)
            <4>1. NoZero(u) => Head(todo[u]) = Len(got[u]) + 1
                BY <1>3, <1>5, <2>2, <3>1
            <4> QED BY <1>4, <4>1
        <3>5. NoZero(u) => \A i \in 1..Len(got'[u]) : got'[u][i] = OwnPart(u, i)
            BY <1>5, <1>8, <3>1, <3>2, <3>4
        <3>6. NoZero(u) => Len(got'[u]) + Len(todo'[u]) = AnswerLen
            <4>1. Len(got'[u]) = Len(got[u]) + 1 /\ Len(todo'[u]) = n - 1
                BY <1>3, <1>8, <3>2
            <4> QED BY <1>3, <1>5, <3>1, <4>1
        <3>7. \A i : OwnPart(u, i)' = OwnPart(u, i)
            BY <1>1 DEF OwnPart
        <3> QED BY <1>1, <1>5, <1>8, <1>10, <3>1, <3>2, <3>3, <3>5, <3>6, <3>7
               DEF Whole, Turn, Before
    <2> QED BY <2>6, <2>7
<1> QED BY <1>1, <1>9, <1>10

\* The end of the turn: the remainder follows what was counted.
LEMMA SendText ==
    ASSUME TypeOK, TypeOK', NEW u \in Users, Send(u), Text(u), Whole(u)
    PROVE  Text(u)' /\ Whole(u)'
<1> DEFINE m == Len(got[u])
           r == Len(Rest(u))
<1>1. /\ at[u] = "send" /\ at'[u] = "idle" /\ got'[u] = got[u] \o Sent(u)
      /\ turn' = turn /\ errors' = errors /\ overlap' = overlap
    BY DEF Send, Sent, TypeOK
<1>2. /\ counted[u] \in Nat /\ AnswerLen \in Nat /\ turn[u] \in Nat /\ errors \in Nat
      /\ got[u] \in Seq(Part) /\ m \in Nat
    BY LenProperties, SharedAssumption DEF TypeOK
<1>3. r = IF counted[u] < AnswerLen THEN AnswerLen - counted[u] ELSE 0
    BY RestType
<1>4. /\ Sent(u) \in Seq(Part) /\ Len(Sent(u)) = r
      /\ \A i \in 1..r : Sent(u)[i] = OwnPart(u, counted[u] + i)
    BY SentType DEF OwnPart
<1> HIDE DEF m, r
<1>5. /\ Len(got'[u]) = m + r
      /\ \A i \in 1..(m + r) : got'[u][i] = IF i <= m THEN got[u][i] ELSE Sent(u)[i - m]
    <2> DEFINE s == got[u]
               t == Sent(u)
    <2>1. s \in Seq(Part) /\ t \in Seq(Part) /\ Len(s) = m /\ Len(t) = r
        BY <1>2, <1>4 DEF m
    <2>2. got'[u] = s \o t
        BY <1>1
    <2> HIDE DEF s, t
    <2>3. /\ Len(s \o t) = Len(s) + Len(t)
          /\ \A i \in 1..(Len(s) + Len(t)) : (s \o t)[i] = IF i <= Len(s) THEN s[i] ELSE t[i - Len(s)]
        BY <2>1, ConcatProperties
    <2> QED BY <2>1, <2>2, <2>3 DEF s, t
<1>6. r \in Nat
    BY <1>2, <1>3
<1>7. \A i \in 1..m : i \in 1..(m + r) /\ got'[u][i] = got[u][i]
    BY <1>2, <1>5, <1>6
<1>8. \A i \in 1..(m + r) : i > m => /\ i - m \in 1..r
                                     /\ got'[u][i] = OwnPart(u, counted[u] + (i - m))
    <2> SUFFICES ASSUME NEW i \in 1..(m + r), i > m
                 PROVE  i - m \in 1..r /\ got'[u][i] = OwnPart(u, counted[u] + (i - m))
        OBVIOUS
    <2>1. i - m \in 1..r
        BY <1>2, <1>6
    <2>2. got'[u][i] = Sent(u)[i - m]
        BY <1>2, <1>5, <1>6
    <2> QED BY <1>4, <2>1, <2>2
<1>9. Text(u)'
    <2> SUFFICES ASSUME errors' = 0,
                        NEW i \in Own(u)', NEW j \in Own(u)', i # j
                 PROVE  got'[u][i].chunk # got'[u][j].chunk
        BY <1>1 DEF Text, Before, After
    <2>1. /\ \A k \in Own(u) : got[u][k].chunk <= counted[u]
          /\ \A k, l \in Own(u) : k # l => got[u][k].chunk # got[u][l].chunk
        BY <1>1 DEF Text, After
    <2>2. \A k \in Own(u)' : \/ k \in Own(u) /\ got'[u][k] = got[u][k]
                             \/ k > m /\ got'[u][k].chunk = counted[u] + (k - m)
        <3> SUFFICES ASSUME NEW k \in Own(u)'
                     PROVE  \/ k \in Own(u) /\ got'[u][k] = got[u][k]
                            \/ k > m /\ got'[u][k].chunk = counted[u] + (k - m)
            OBVIOUS
        <3>1. k \in 1..(m + r) /\ got'[u][k].by = u /\ got'[u][k].chunk # 0
            BY <1>5 DEF Own
        <3>2. CASE k \in 1..m
            <4>1. got'[u][k] = got[u][k]
                BY <1>7, <3>2
            <4> QED BY <3>1, <3>2, <4>1 DEF Own, m
        <3>3. CASE k > m
            <4>1. got'[u][k] = OwnPart(u, counted[u] + (k - m))
                BY <1>8, <3>1, <3>3
            <4> QED BY <3>3, <4>1 DEF OwnPart
        <3> QED BY <1>2, <1>6, <3>1, <3>2, <3>3
    <2>3. \A k \in Own(u) : k \in 1..m /\ got[u][k].chunk \in Nat
        <3>1. \A k \in 1..m : got[u][k] \in Part
            BY <1>2, ElementOfSeq DEF m
        <3> QED BY <3>1, SharedAssumption DEF Own, Part, m
    <2>4. i \in Nat /\ j \in Nat
        BY DEF Own
    <2>5. CASE i \in Own(u) /\ got'[u][i] = got[u][i]
        <3>1. CASE j \in Own(u) /\ got'[u][j] = got[u][j]
            BY <2>1, <2>5, <3>1
        <3>2. CASE j > m /\ got'[u][j].chunk = counted[u] + (j - m)
            <4>1. got[u][i].chunk <= counted[u] /\ got[u][i].chunk \in Nat
                BY <2>1, <2>3, <2>5
            <4> QED BY <1>2, <2>4, <2>5, <3>2, <4>1
        <3> QED BY <2>2, <3>1, <3>2
    <2>6. CASE i > m /\ got'[u][i].chunk = counted[u] + (i - m)
        <3>1. CASE j \in Own(u) /\ got'[u][j] = got[u][j]
            <4>1. got[u][j].chunk <= counted[u] /\ got[u][j].chunk \in Nat
                BY <2>1, <2>3, <3>1
            <4> QED BY <1>2, <2>4, <2>6, <3>1, <4>1
        <3>2. CASE j > m /\ got'[u][j].chunk = counted[u] + (j - m)
            BY <1>2, <2>4, <2>6, <3>2
        <3> QED BY <2>2, <3>1, <3>2
    <2> QED BY <2>2, <2>5, <2>6
<1>10. Whole(u)'
    <2> SUFFICES ASSUME ~overlap', errors' = 0, NoZero(u)', NEW c \in 1..AnswerLen
                 PROVE  OwnPart(u, c)' \in Range(got'[u])
        BY <1>1 DEF Whole, Before
    <2>1. NoZero(u)
        BY <1>5, <1>7 DEF NoZero, m
    <2>2. counted[u] = m /\ \A i \in 1..m : got[u][i] = OwnPart(u, i)
        BY <1>1, <2>1 DEF Whole, m
    <2>3. OwnPart(u, c)' = OwnPart(u, c)
        BY <1>1 DEF OwnPart
    <2>4. DOMAIN got'[u] = 1..(m + r)
        <3>1. got'[u] \in Seq(Part)
            BY DEF TypeOK
        <3> QED BY <1>5, <3>1, LenProperties
    <2>5. c \in 1..(m + r) /\ got'[u][c] = OwnPart(u, c)
        <3>1. CASE c <= m
            BY <1>2, <1>7, <2>2, <3>1
        <3>2. CASE c > m
            <4>1. c \in 1..(m + r)
                BY <1>2, <1>3, <2>2, <3>2
            <4>2. counted[u] + (c - m) = c
                BY <1>2, <2>2
            <4> QED BY <1>8, <3>2, <4>1, <4>2
        <3> QED BY <1>2, <3>1, <3>2
    <2> QED BY <2>3, <2>4, <2>5 DEF Range
<1> QED BY <1>9, <1>10

\* The turn's other steps send nothing.
LEMMA QuietText ==
    ASSUME TypeOK, TypeOK', LastCallback, NEW u \in Users, Text(u), Whole(u),
           Start(u) \/ Enter(u) \/ ModelCall(u) \/ LastCall(u) \/ Answered(u) \/ CallTool(u)
           \/ ToolDone(u) \/ Restore(u) \/ ModelFails(u) \/ Clear(u)
    PROVE  Text(u)' /\ Whole(u)'
<1>0. /\ AnswerLen \in Nat /\ Len(got[u]) \in Nat /\ counted[u] \in Nat /\ errors \in Nat
      /\ turn[u] \in Nat
    BY LenProperties, SharedAssumption DEF TypeOK
<1>1. CASE Start(u)
    <2>1. /\ at'[u] = "queued" /\ got'[u] = <<>> /\ counted'[u] = 0 /\ turn'[u] = turn[u] + 1
          /\ callback' = [user |-> u, turn |-> turn[u] + 1]
        BY <1>1 DEF Start, TypeOK
    <2>2. Len(got'[u]) = 0 /\ Own(u)' = {}
        BY <2>1 DEF Own
    <2>3. callback' = Turn(u)'
        BY <2>1 DEF Turn
    <2> QED BY <2>1, <2>2, <2>3 DEF Text, Whole, Before, After
<1>2. CASE Enter(u) \/ CallTool(u) \/ ToolDone(u)
    <2>1. /\ at[u] \in Before /\ at'[u] \in Before \ {"talk"}
          /\ got' = got /\ counted' = counted /\ turn' = turn /\ callback' = callback
          /\ errors' = errors /\ overlap' = overlap
        BY <1>2 DEF Enter, CallTool, ToolDone, TypeOK, Before
    <2>2. Own(u)' = Own(u) /\ (NoZero(u)' <=> NoZero(u)) /\ \A c : OwnPart(u, c)' = OwnPart(u, c)
          /\ Turn(u)' = Turn(u)
        BY <2>1 DEF Own, NoZero, OwnPart, Turn
    <2> QED BY <2>1, <2>2 DEF Text, Whole, Before, After
<1>3. CASE ModelCall(u)
    <2>1. /\ at[u] = "round" /\ cb'[u] = callback
          /\ \/ at'[u] = "talk" /\ todo'[u] \in {<<>>, <<0>>}
             \/ at'[u] = "answer" /\ todo'[u] = Answer
          /\ got' = got /\ counted' = counted /\ turn' = turn /\ callback' = callback
          /\ errors' = errors /\ overlap' = overlap
        BY <1>3 DEF ModelCall, Offer, TypeOK
    <2>2. Own(u) = {} /\ Own(u)' = {} /\ (NoZero(u)' <=> NoZero(u))
          /\ (\A c : OwnPart(u, c)' = OwnPart(u, c)) /\ Turn(u)' = Turn(u)
        BY <2>1 DEF Own, NoZero, OwnPart, Turn, Text, Before
    <2>3. Len(Answer) = AnswerLen /\ \A i \in 1..AnswerLen : Answer[i] = i
        <3>1. Answer \in Seq(Nat)
            <4>1. \A i \in 1..AnswerLen : i \in Nat
                OBVIOUS
            <4> QED BY <1>0, <4>1, IsASeq DEF Answer
        <3> QED BY <1>0, <3>1, LenProperties DEF Answer
    <2>4. callback.user = u => callback.turn = turn[u]
        BY DEF LastCallback
    <2>5. CASE at'[u] = "talk" /\ todo'[u] \in {<<>>, <<0>>}
        BY <2>1, <2>2, <2>5 DEF Text, Whole, Before, After
    <2>6. CASE at'[u] = "answer" /\ todo'[u] = Answer
        <3>1. Text(u)'
            BY <1>0, <2>1, <2>2, <2>3, <2>4, <2>6 DEF Text, Before, After
        <3>2. Whole(u)'
            BY <1>0, <2>1, <2>2, <2>3, <2>6 DEF Whole, Before
        <3> QED BY <3>1, <3>2
    <2> QED BY <2>1, <2>5, <2>6
<1>4. CASE LastCall(u) \/ Answered(u) \/ Restore(u) \/ Clear(u)
    <2>1. /\ at[u] = "round" \/ (at[u] = "answer" /\ todo[u] = <<>>) \/ at[u] \in After
          /\ at'[u] \in After
          /\ got' = got /\ counted' = counted /\ turn' = turn
          /\ errors' = errors /\ overlap' = overlap
        BY <1>4 DEF LastCall, Answered, Restore, Clear, Offer, TypeOK, After
    <2>2. Own(u)' = Own(u) /\ (NoZero(u)' <=> NoZero(u)) /\ \A c : OwnPart(u, c)' = OwnPart(u, c)
        BY <2>1 DEF Own, NoZero, OwnPart
    <2>3. errors = 0 => \A i \in Own(u) : got[u][i].chunk <= counted[u]
        <3>1. CASE at[u] = "round"
            BY <3>1 DEF Text, Before
        <3>2. CASE at[u] = "answer" /\ todo[u] = <<>>
            <4>1. Len(todo[u]) = 0
                BY <3>2
            <4>2. \A i \in Own(u) : got[u][i].chunk \in Nat
                <5>1. \A i \in Own(u) : got[u][i] \in Part
                    BY ElementOfSeq DEF Own, TypeOK
                <5> QED BY <5>1, SharedAssumption DEF Part
            <4> QED BY <1>0, <3>2, <4>1, <4>2 DEF Text
        <3>3. CASE at[u] \in After
            BY <3>3 DEF Text
        <3> QED BY <2>1, <3>1, <3>2, <3>3
    <2>4. Text(u)'
        BY <2>1, <2>2, <2>3 DEF Text, Before, After
    <2>5. Whole(u)'
        BY <2>1, <2>2 DEF Whole, Before, After
    <2> QED BY <2>4, <2>5
<1>5. CASE ModelFails(u)
    <2>1. errors' # 0 /\ at'[u] = "idle"
        BY <1>0, <1>5 DEF ModelFails, TypeOK
    <2> QED BY <2>1 DEF Text, Whole, Before, After
<1> QED BY <1>1, <1>2, <1>3, <1>4, <1>5

\* Every step keeps the callback with its turn, and the texts in order.
LEMMA StepText ==
    ASSUME TypeOK, TypeOK', OneTurn, LastCallback, \A u \in Users : Text(u) /\ Whole(u), [Next]_vars
    PROVE  LastCallback' /\ \A u \in Users : (Text(u) /\ Whole(u))'
<1>1. ASSUME NEW u \in Users, Start(u) \/ React(u) \/ ModelFails(u) \/ Finish(u)
      PROVE  LastCallback' /\ \A v \in Users : (Text(v) /\ Whole(v))'
    <2>1. LastCallback'
        <3>1. \/ callback' = callback /\ turn' = turn
              \/ callback' = NoTurn
              \/ turn' = [turn EXCEPT ![u] = @ + 1] /\ callback' = [user |-> u, turn |-> turn[u] + 1]
            BY <1>1 DEF Start, React, Finish, Enter, ModelCall, LastCall, Stream, Answered, CallTool,
                        ToolDone, Restore, ModelFails, Clear, Send
        <3>2. CASE callback' = callback /\ turn' = turn
            BY <3>2 DEF LastCallback
        <3>3. CASE callback' = NoTurn
            BY <3>3, SharedAssumption DEF LastCallback, NoTurn
        <3>4. CASE turn' = [turn EXCEPT ![u] = @ + 1]
                   /\ callback' = [user |-> u, turn |-> turn[u] + 1]
            BY <3>4 DEF LastCallback, TypeOK
        <3> QED BY <3>1, <3>2, <3>3, <3>4
    <2>2. \A v \in Users \ {u} : (Text(v) /\ Whole(v))'
        BY <1>1, OthersText
    <2>3. (Text(u) /\ Whole(u))'
        BY <1>1, StreamText, SendText, QuietText DEF React, Finish
    <2> QED BY <2>1, <2>2, <2>3
<1>2. ASSUME UNCHANGED vars PROVE LastCallback' /\ \A u \in Users : (Text(u) /\ Whole(u))'
    <2>1. LastCallback'
        BY <1>2 DEF LastCallback
    <2>2. ASSUME NEW u \in Users PROVE Text(u)' /\ Whole(u)'
        <3>1. Own(u)' = Own(u) /\ (NoZero(u)' <=> NoZero(u)) /\ Turn(u)' = Turn(u)
              /\ \A c : OwnPart(u, c)' = OwnPart(u, c)
            BY <1>2 DEF Own, NoZero, OwnPart, Turn
        <3>2. Text(u)'
            BY <1>2, <3>1 DEF Text
        <3>3. Whole(u)'
            BY <1>2, <3>1 DEF Whole
        <3> QED BY <3>2, <3>3
    <2> QED BY <2>1, <2>2
<1> QED BY <1>1, <1>2 DEF Next

\* Nobody has received anything at the start.
LEMMA InitText == Init => LastCallback /\ \A u \in Users : Text(u) /\ Whole(u)
<1> SUFFICES ASSUME Init PROVE LastCallback /\ \A u \in Users : Text(u) /\ Whole(u)
    OBVIOUS
<1>1. LastCallback
    BY SharedAssumption DEF Init, LastCallback, NoTurn
<1>2. ASSUME NEW u \in Users PROVE Text(u) /\ Whole(u)
    <2>1. at[u] = "idle" /\ turn[u] = 0 /\ Len(got[u]) = 0
        BY DEF Init
    <2>2. Own(u) = {}
        BY <2>1 DEF Own
    <2> QED BY <2>1, <2>2 DEF Text, Whole, Before, After
<1> QED BY <1>1, <1>2

\* These invariants say what the users hold.
LEMMA TextSaid ==
    ASSUME TypeOK, \A u \in Users : Text(u) /\ Whole(u)
    PROVE  AnswerText
<1>1. \A u \in Users : DOMAIN got[u] = 1..Len(got[u])
    BY LenProperties DEF TypeOK
<1>2. NoDuplicateText
    <2> SUFFICES ASSUME errors = 0, NEW u \in Users, NEW i \in DOMAIN got[u], NEW j \in DOMAIN got[u],
                        i # j, got[u][i] = got[u][j], got[u][i].chunk # 0, got[u][i].by = u
                 PROVE  FALSE
        BY DEF NoDuplicateText
    <2>1. i \in Own(u) /\ j \in Own(u)
        BY <1>1 DEF Own
    <2>2. \A k, l \in Own(u) : k # l => got[u][k].chunk # got[u][l].chunk
        BY DEF Text
    <2> QED BY <2>1, <2>2
<1>3. AnswerComplete
    <2> SUFFICES ASSUME NEW u \in Users, at[u] = "idle", turn[u] > 0, ~overlap, errors = 0,
                        \A i \in DOMAIN got[u] : got[u][i].chunk # 0, NEW c \in 1..AnswerLen
                 PROVE  [by |-> u, turn |-> turn[u], chunk |-> c] \in Range(got[u])
        BY DEF AnswerComplete
    <2>1. NoZero(u)
        BY <1>1 DEF NoZero
    <2> QED BY <2>1 DEF Whole, OwnPart
<1> QED BY <1>2, <1>3 DEF AnswerText

\* Streaming and sending the remainder fit together: unless a send fails no
\* chunk of an answer reaches its user twice, however the turns overwrite each
\* other's callback; and a turn that overlaps no other delivers all of it.
THEOREM TextCorrect == Spec => []AnswerText
<1> DEFINE IInv == TypeOK /\ LoopHeld /\ FirstOffer /\ OneTurn /\ OwnSkill /\ LastCallback
                   /\ \A u \in Users : Text(u) /\ Whole(u)
<1>1. Init => IInv
    BY InitType, InitSkills, InitText
<1>2. IInv /\ [Next]_vars => IInv'
    BY StepType, StepSkills, StepText
<1>3. IInv => AnswerText
    BY TextSaid
<1> QED BY <1>1, <1>2, <1>3, PTL DEF Spec
=============================================================================
