------------------------------ MODULE ToolProofs ------------------------------
(***************************************************************************)
(* Proofs about what stands behind the agent's tools: the jobs that tools  *)
(* submit (TaskManager) and the tables the tools are in (ToolRegistry).    *)
(*                                                                         *)
(* TaskManager, for every set of submissions and every number of           *)
(* submitting threads, workers and seconds: its type invariant, that       *)
(* submissions that do not meet keep their records apart and each reports  *)
(* to its owner, that a status only moves forward, and that subtitle jobs  *)
(* that run one after the other, on a file nobody left there, transcribe   *)
(* their own videos.                                                       *)
(*                                                                         *)
(* ToolRegistry, for every set of servers, names that are prefixes of one  *)
(* another, tools, skills and requests: its type invariant; that tables,   *)
(* clients and server processes agree; that the list for the model and the *)
(* index are made from the tools there are; and that skills are in the     *)
(* tables as their files say.                                              *)
(***************************************************************************)
EXTENDS TaskManager, ToolRegistry, FiniteSetTheorems, SequenceTheorems, TLAPS

USE DEF vars, sound

Stored == {t \in Tasks : sub[t] \in {"stored", "pooled", "done"}}
-----------------------------------------------------------------------------
(* Type correctness.                                                       *)

\* The ids in _tasks are those of the submissions stored, the futures those of
\* the submissions that are through, and only subtitle jobs have steps.
Tables ==
    /\ DOMAIN infos = {id[t] : t \in Stored}
    /\ \A i \in DOMAIN futures : /\ futures[i] \in Tasks /\ id[futures[i]] = i
                                 /\ sub[futures[i]] = "done"
    /\ \A t \in Tasks : job[t] # "none" => sub[t] \in {"pooled", "done"}
    /\ \A t \in Tasks : job[t] \in {"extracted", "deleted"} => t \in Subtitled

\* Tables are no larger than the set of submissions.
LEMMA InfosFinite ==
    ASSUME Tables
    PROVE  /\ IsFiniteSet(DOMAIN infos) /\ Cardinality(DOMAIN infos) \in 0..Cardinality(Tasks)
           /\ Cardinality(Tasks) \in Nat
<1>1. /\ IsFiniteSet(Stored) /\ Cardinality(Stored) <= Cardinality(Tasks)
      /\ Cardinality(Tasks) \in Nat /\ Cardinality(Stored) \in Nat
    <2>1. Stored \in SUBSET Tasks
        BY DEF Stored
    <2> QED BY <2>1, TaskAssumption, FS_Subset, FS_CardinalityType
<1> DEFINE f == [t \in Stored |-> id[t]]
<1>2. f \in Surjection(Stored, DOMAIN infos)
    <2>1. f \in [Stored -> DOMAIN infos]
        BY DEF Tables
    <2>2. \A i \in DOMAIN infos : \E t \in Stored : f[t] = i
        BY DEF Tables
    <2> QED BY <2>1, <2>2 DEF Surjection
<1>3. IsFiniteSet(DOMAIN infos) /\ Cardinality(DOMAIN infos) <= Cardinality(Stored)
    BY <1>1, <1>2, FS_Surjection
<1>4. Cardinality(DOMAIN infos) \in Nat
    BY <1>3, FS_CardinalityType
<1> QED BY <1>1, <1>3, <1>4

\* The jobs at work are finitely many.
LEMMA BusyFinite == IsFiniteSet(Busy) /\ Cardinality(Busy) \in Nat
<1>1. Busy \in SUBSET Tasks
    BY DEF Busy
<1> QED BY <1>1, TaskAssumption, FS_Subset, FS_CardinalityType

\* The process starts well typed.
LEMMA InitType == Init => TypeOK /\ Tables
<1> SUFFICES ASSUME Init PROVE TypeOK /\ Tables
    OBVIOUS
<1>1. Stored = {} /\ Busy = {} /\ Cardinality({}) = 0
    BY FS_EmptySet DEF Init, Stored, Busy, AtWork
<1>2. DOMAIN infos = {} /\ DOMAIN futures = {}
    BY DEF Init
<1>3. Tables
    BY <1>1, <1>2 DEF Init, Tables
<1>4. <<0, 0>> \in Ids /\ 0 \in 0..MaxSecond
    BY <1>3, InfosFinite, TaskAssumption DEF Ids
<1>5. queue \in Seq(Tasks) /\ notes = {}
    BY EmptySeq DEF Init
<1>6. Cardinality(Busy) <= Workers
    BY <1>1, TaskAssumption
<1>7. /\ sub \in [Tasks -> {"new"}] /\ job \in [Tasks -> {"none"}] /\ id \in [Tasks -> Ids]
      /\ heard \in [Tasks -> {NoFile}] /\ raced = FALSE /\ second = 0
    BY <1>4 DEF Init
<1>8. audio \in {NoFile, Leftover} /\ mixed \in BOOLEAN
    BY DEF Init
<1> QED BY <1>2, <1>3, <1>4, <1>5, <1>6, <1>7, <1>8 DEF TypeOK, Sounds

\* Every step keeps the tables.
LEMMA StepTables == TypeOK /\ Tables /\ [Next]_vars => Tables'
<1> SUFFICES ASSUME TypeOK, Tables, [Next]_vars PROVE Tables'
    OBVIOUS
<1>1. ASSUME sub' = sub, id' = id, futures' = futures, DOMAIN infos' = DOMAIN infos,
             \A t \in Tasks : job[t] = "none" => job'[t] = "none",
             \A t \in Tasks : job'[t] \in {"extracted", "deleted"} =>
                 job[t] \in {"extracted", "deleted"} \/ t \in Subtitled
      PROVE  Tables'
    BY <1>1 DEF Tables, Stored
<1>2. ASSUME Tick PROVE Tables'
    BY <1>1, <1>2 DEF Tick
<1>3. ASSUME NEW t \in Tasks, Name(t) PROVE Tables'
    <2>1. /\ sub[t] = "new" /\ sub'[t] = "named" /\ job' = job
          /\ infos' = infos /\ futures' = futures
          /\ \A u \in Tasks \ {t} : sub'[u] = sub[u] /\ id'[u] = id[u]
        BY <1>3 DEF Name, TypeOK
    <2>2. Stored' = Stored /\ t \notin Stored
        BY <2>1 DEF Stored
    <2> QED BY <2>1, <2>2 DEF Tables, Stored
<1>4. ASSUME NEW t \in Tasks, Store(t) PROVE Tables'
    <2>1. /\ sub[t] = "named" /\ sub'[t] = "stored" /\ id' = id /\ job' = job
          /\ futures' = futures /\ DOMAIN infos' = DOMAIN infos \cup {id[t]}
          /\ \A u \in Tasks \ {t} : sub'[u] = sub[u]
        BY <1>4 DEF Store, Put, TypeOK
    <2>2. Stored' = Stored \cup {t}
        BY <2>1 DEF Stored
    <2> QED BY <2>1, <2>2 DEF Tables
<1>5. ASSUME NEW t \in Tasks, Pool(t) PROVE Tables'
    <2>1. /\ sub[t] = "stored" /\ sub'[t] = "pooled" /\ id' = id /\ job'[t] = "queued"
          /\ futures' = futures /\ infos' = infos
          /\ \A u \in Tasks \ {t} : sub'[u] = sub[u] /\ job'[u] = job[u]
        BY <1>5 DEF Pool, TypeOK
    <2>2. Stored' = Stored
        BY <2>1 DEF Stored
    <2> QED BY <2>1, <2>2 DEF Tables
<1>6. ASSUME NEW t \in Tasks, StoreFuture(t) PROVE Tables'
    <2>1. /\ sub[t] = "pooled" /\ sub'[t] = "done" /\ id' = id /\ job' = job /\ infos' = infos
          /\ futures' = Put(futures, id[t], t) /\ \A u \in Tasks \ {t} : sub'[u] = sub[u]
        BY <1>6 DEF StoreFuture, TypeOK
    <2>2. Stored' = Stored
        BY <2>1 DEF Stored
    <2>3. \A i \in DOMAIN futures' : /\ futures'[i] \in Tasks /\ id[futures'[i]] = i
                                     /\ sub'[futures'[i]] = "done"
        BY <2>1 DEF Put, Tables
    <2> QED BY <2>1, <2>2, <2>3 DEF Tables
<1>7. ASSUME NEW t \in Tasks, Run(t) \/ Drop(t) \/ Extract(t) \/ Transcribe(t) \/ Notify(t)
      PROVE  Tables'
    BY <1>1, <1>7 DEF Run, Drop, Extract, Transcribe, Notify, TypeOK
<1>8. ASSUME NEW t \in Tasks, End(t) PROVE Tables'
    BY <1>1, <1>8 DEF End, AtWork, TypeOK
<1>9. ASSUME NEW i \in Ids, Cancel(i) PROVE Tables'
    BY <1>1, <1>9 DEF Cancel, TypeOK
<1>10. ASSUME UNCHANGED vars PROVE Tables'
    BY <1>1, <1>10
<1> QED BY <1>2, <1>3, <1>4, <1>5, <1>6, <1>7, <1>8, <1>9, <1>10 DEF Next, Submit, Work

\* A change of one status keeps the type of the records.
LEMMA InfosType ==
    ASSUME TypeOK, NEW i, NEW st \in Statuses, infos' = [infos EXCEPT ![i].status = st]
    PROVE  /\ DOMAIN infos' = DOMAIN infos
           /\ \A k \in DOMAIN infos' : infos'[k] \in [owner : Tasks, status : Statuses]
           /\ i \in DOMAIN infos => infos'[i].status = st /\ infos'[i].owner = infos[i].owner
           /\ \A k \in DOMAIN infos \ {i} : infos'[k] = infos[k]
BY DEF TypeOK

\* The pool keeps to its workers as long as only Run takes one.
LEMMA BusyBounded ==
    ASSUME TypeOK, Busy' \subseteq Busy
    PROVE  Cardinality(Busy') <= Workers
<1>1. Busy' \in SUBSET Busy
    OBVIOUS
<1>2. Cardinality(Busy') <= Cardinality(Busy) /\ Cardinality(Busy') \in Nat
    BY <1>1, BusyFinite, FS_Subset, FS_CardinalityType
<1> QED BY <1>2, BusyFinite, TaskAssumption DEF TypeOK

\* Every step keeps the types.
LEMMA StepType == TypeOK /\ Tables /\ [Next]_vars => TypeOK'
<1> SUFFICES ASSUME TypeOK, Tables, [Next]_vars PROVE TypeOK'
    OBVIOUS
<1> USE DEF AtWork
<1>1. ASSUME Tick PROVE TypeOK'
    <2>1. Busy' = Busy
        BY <1>1 DEF Tick, Busy
    <2> QED BY <1>1, <2>1, BusyBounded, TaskAssumption DEF TypeOK, Tick
<1>2. ASSUME NEW t \in Tasks, Name(t) PROVE TypeOK'
    <2>1. <<second, Cardinality(DOMAIN infos)>> \in Ids
        BY InfosFinite DEF TypeOK, Ids
    <2>2. Busy' = Busy
        BY <1>2 DEF Name, Busy
    <2> QED BY <1>2, <2>1, <2>2, BusyBounded DEF TypeOK, Name
<1>3. ASSUME NEW t \in Tasks, Store(t) PROVE TypeOK'
    <2>1. /\ DOMAIN infos' = DOMAIN infos \cup {id[t]}
          /\ \A i \in DOMAIN infos' : infos'[i] \in [owner : Tasks, status : Statuses]
        BY <1>3 DEF Store, Put, TypeOK, Statuses
    <2>2. Busy' = Busy
        BY <1>3 DEF Store, Busy
    <2> QED BY <1>3, <2>1, <2>2, BusyBounded DEF TypeOK, Store
<1>4. ASSUME NEW t \in Tasks, Pool(t) PROVE TypeOK'
    <2>1. Append(queue, t) \in Seq(Tasks)
        BY AppendProperties DEF TypeOK
    <2>2. Busy' \subseteq Busy
        BY <1>4 DEF Pool, Busy, TypeOK
    <2>3. Cardinality(Busy') <= Workers
        BY <2>2, BusyBounded
    <2> QED BY <1>4, <2>1, <2>3 DEF TypeOK, Pool
<1>5. ASSUME NEW t \in Tasks, StoreFuture(t) PROVE TypeOK'
    <2>1. /\ DOMAIN futures' = DOMAIN futures \cup {id[t]}
          /\ \A i \in DOMAIN futures' : futures'[i] \in Tasks
        BY <1>5 DEF StoreFuture, Put, TypeOK
    <2>2. id[t] \in DOMAIN infos
        BY <1>5 DEF StoreFuture, Tables, Stored
    <2>3. Busy' = Busy
        BY <1>5 DEF StoreFuture, Busy
    <2> QED BY <1>5, <2>1, <2>2, <2>3, BusyBounded DEF TypeOK, StoreFuture
<1>6. ASSUME NEW t \in Tasks, Run(t) PROVE TypeOK'
    <2>1. Tail(queue) \in Seq(Tasks)
        BY <1>6, HeadTailProperties DEF Run, TypeOK
    <2>2. /\ DOMAIN infos' = DOMAIN infos
          /\ \A k \in DOMAIN infos' : infos'[k] \in [owner : Tasks, status : Statuses]
        BY <1>6, InfosType DEF Run, Statuses
    <2>3. Busy' = Busy \cup {t} /\ t \notin Busy
        BY <1>6 DEF Run, Busy, TypeOK
    <2>4. Cardinality(Busy') <= Workers
        <3>1. Cardinality(Busy \cup {t}) = Cardinality(Busy) + 1
            BY <2>3, BusyFinite, FS_AddElement
        <3>2. Cardinality(Busy) < Workers
            BY <1>6 DEF Run
        <3> QED BY <2>3, <3>1, <3>2, BusyFinite, TaskAssumption
    <2> QED BY <1>6, <2>1, <2>2, <2>4 DEF TypeOK, Run
<1>7. ASSUME NEW t \in Tasks, Drop(t) PROVE TypeOK'
    <2>1. Tail(queue) \in Seq(Tasks)
        BY <1>7, HeadTailProperties DEF Drop, TypeOK
    <2>2. Busy' = Busy
        BY <1>7 DEF Drop, Busy
    <2> QED BY <1>7, <2>1, <2>2, BusyBounded DEF TypeOK, Drop
<1>8. ASSUME NEW t \in Tasks, Extract(t) \/ Transcribe(t) PROVE TypeOK'
    <2> USE DEF Sounds
    <2>1. Busy' \subseteq Busy
        BY <1>8 DEF Extract, Transcribe, Busy, TypeOK
    <2>2. Cardinality(Busy') <= Workers
        BY <2>1, BusyBounded
    <2> QED BY <1>8, <2>2 DEF TypeOK, Extract, Transcribe
<1>9. ASSUME NEW t \in Tasks, End(t) PROVE TypeOK'
    <2> USE DEF Sounds
    <2>1. PICK st \in Finished : infos' = [infos EXCEPT ![id[t]].status = st]
                                 /\ mixed' = (mixed \/ (t \in Subtitled /\ st = "failed"))
        BY <1>9 DEF End
    <2>2. /\ DOMAIN infos' = DOMAIN infos
          /\ \A k \in DOMAIN infos' : infos'[k] \in [owner : Tasks, status : Statuses]
        BY <2>1, InfosType DEF Finished, Statuses
    <2>3. Busy' \subseteq Busy
        BY <1>9 DEF End, Busy, TypeOK
    <2>4. Cardinality(Busy') <= Workers
        BY <2>3, BusyBounded
    <2> QED BY <1>9, <2>1, <2>2, <2>4 DEF TypeOK, End
<1>10. ASSUME NEW t \in Tasks, Notify(t) PROVE TypeOK'
    <2>1. id[t] \in DOMAIN infos
        BY <1>10 DEF Notify, Tables, Stored
    <2>2. Busy' \subseteq Busy
        BY <1>10 DEF Notify, Busy, TypeOK
    <2>3. Cardinality(Busy') <= Workers
        BY <2>2, BusyBounded
    <2>4. Told(t) \in [job : Tasks, user : Tasks, status : Statuses, text : Sounds]
        BY <2>1 DEF TypeOK, Told
    <2> QED BY <1>10, <2>3, <2>4 DEF TypeOK, Notify
<1>11. ASSUME NEW i \in Ids, Cancel(i) PROVE TypeOK'
    <2>1. futures[i] \in Tasks
        BY <1>11 DEF Cancel, TypeOK
    <2>2. /\ DOMAIN infos' = DOMAIN infos
          /\ \A k \in DOMAIN infos' : infos'[k] \in [owner : Tasks, status : Statuses]
        BY <1>11, InfosType DEF Cancel, Statuses
    <2>3. Busy' \subseteq Busy
        BY <1>11 DEF Cancel, Busy, TypeOK
    <2>4. Cardinality(Busy') <= Workers
        BY <2>3, BusyBounded
    <2> QED BY <1>11, <2>1, <2>2, <2>4 DEF TypeOK, Cancel
<1>12. ASSUME UNCHANGED vars PROVE TypeOK'
    BY <1>12 DEF TypeOK, Busy
<1> QED BY <1>1, <1>2, <1>3, <1>4, <1>5, <1>6, <1>7, <1>8, <1>9, <1>10, <1>11, <1>12
        DEF Next, Submit, Work

\* The tables of the manager, the submissions and the pool always have their
\* types, and no more jobs are at work than the pool has workers.
THEOREM TypeCorrect == Spec => []TypeOK
<1>1. Init => TypeOK /\ Tables
    BY InitType
<1>2. TypeOK /\ Tables /\ [Next]_vars => TypeOK' /\ Tables'
    BY StepType, StepTables
<1> QED BY <1>1, <1>2, PTL DEF Spec
-----------------------------------------------------------------------------
(* Records and owners.                                                     *)

\* Jobs whose message was sent, or lost.
Reported == {"notified", "unsent"}

\* The status of a record goes with the job of the submission it was made for.
Agree(t) ==
    infos[id[t]].status \in CASE job[t] \in {"none", "queued"}    -> {"queued"}
                              [] job[t] \in AtWork                -> {"running"}
                              [] job[t] \in Reported \cup {"ended"} -> Finished
                              [] OTHER                            -> {"cancelled"}

\* As long as no two threads met in submit, an id that was made is new when the
\* record is stored: it has the size of _tasks in it, and a record stored has a
\* smaller one.
Apart ==
    ~raced =>
        /\ \A t, u \in Submitting : t = u
        /\ \A t \in Tasks : sub[t] = "named" => id[t][2] = Cardinality(DOMAIN infos)
        /\ \A t \in Stored : /\ id[t][2] < Cardinality(DOMAIN infos)
                             /\ infos[id[t]].owner = t /\ Agree(t)
        /\ \A n \in notes : n.user = n.job /\ n.status \in Finished

\* Two submissions stored have different ids.
LEMMA IdsDiffer ==
    ASSUME Apart, ~raced, NEW t \in Stored, NEW u \in Stored, id[t] = id[u]
    PROVE  t = u
BY DEF Apart

\* One job and the status of its record move on together.
LEMMA OneMoves ==
    ASSUME TypeOK, Tables, Apart, NEW t \in Stored, NEW st \in Statuses,
           sub' = sub, id' = id, raced' = raced, notes' = notes,
           \A u \in Tasks \ {t} : job'[u] = job[u],
           infos' = [infos EXCEPT ![id[t]].status = st], ~raced => Agree(t)'
    PROVE  Apart'
<1>1. id[t] \in DOMAIN infos
    BY DEF Tables
<1>2. /\ DOMAIN infos' = DOMAIN infos
      /\ infos'[id[t]].owner = infos[id[t]].owner
      /\ \A k \in DOMAIN infos \ {id[t]} : infos'[k] = infos[k]
    BY <1>1, InfosType
<1>3. Stored' = Stored /\ Submitting' = Submitting
    BY DEF Stored, Submitting
<1> SUFFICES ASSUME ~raced PROVE Apart'
    BY DEF Apart
<1>4. ASSUME NEW u \in Stored, u # t PROVE infos'[id[u]] = infos[id[u]] /\ Agree(u)'
    <2>1. id[u] \in DOMAIN infos /\ id[u] # id[t]
        BY <1>4, IdsDiffer DEF Tables
    <2>2. u \in Tasks
        BY DEF Stored
    <2> QED BY <1>2, <1>4, <2>1, <2>2 DEF Agree, Reported, Apart
<1> QED BY <1>2, <1>3, <1>4 DEF Apart

\* Every step keeps the records apart.
LEMMA StepApart == TypeOK /\ Tables /\ Apart /\ [Next]_vars => Apart'
<1> SUFFICES ASSUME TypeOK, Tables, Apart, [Next]_vars PROVE Apart'
    OBVIOUS
<1>0. IsFiniteSet(DOMAIN infos) /\ Cardinality(DOMAIN infos) \in Nat
    BY InfosFinite
<1>1. ASSUME UNCHANGED <<sub, id, infos, notes, raced>>,
             \A t \in Stored : Agree(t) => Agree(t)'
      PROVE  Apart'
    BY <1>1 DEF Apart, Stored, Submitting
<1>2. ASSUME Tick PROVE Apart'
    BY <1>1, <1>2 DEF Tick, Agree, Reported
<1>3. ASSUME NEW t \in Tasks, Name(t) PROVE Apart'
    <2>1. /\ sub[t] = "new" /\ sub'[t] = "named" /\ infos' = infos /\ job' = job /\ notes' = notes
          /\ id'[t] = <<second, Cardinality(DOMAIN infos)>>
          /\ \A u \in Tasks \ {t} : sub'[u] = sub[u] /\ id'[u] = id[u]
          /\ raced' = (raced \/ Submitting # {})
        BY <1>3 DEF Name, TypeOK
    <2>2. Stored' = Stored /\ t \notin Stored /\ Submitting' = Submitting \cup {t}
        BY <2>1 DEF Stored, Submitting
    <2>3. \A u \in Stored : id'[u] = id[u] /\ (Agree(u) => Agree(u)')
        BY <2>1, <2>2 DEF Stored, Agree, Reported
    <2>4. ASSUME ~raced' PROVE ~raced /\ Submitting = {}
        BY <2>1, <2>4
    <2>5. ASSUME ~raced', NEW u \in Tasks, sub'[u] = "named" PROVE u = t
        BY <2>1, <2>4, <2>5 DEF Submitting
    <2> QED BY <2>1, <2>2, <2>3, <2>4, <2>5 DEF Apart
<1>4. ASSUME NEW t \in Tasks, Store(t) PROVE Apart'
    <2> SUFFICES ASSUME ~raced PROVE Apart'
        BY <1>4 DEF Apart, Store
    <2>1. /\ sub[t] = "named" /\ sub'[t] = "stored" /\ id' = id /\ job' = job /\ notes' = notes
          /\ raced' = raced
          /\ DOMAIN infos' = DOMAIN infos \cup {id[t]}
          /\ infos'[id[t]] = [owner |-> t, status |-> "queued"]
          /\ \A k \in DOMAIN infos \ {id[t]} : infos'[k] = infos[k]
          /\ \A u \in Tasks \ {t} : sub'[u] = sub[u]
        BY <1>4 DEF Store, Put, TypeOK
    <2>2. Stored' = Stored \cup {t} /\ Submitting' = Submitting /\ t \notin Stored
        BY <2>1 DEF Stored, Submitting
    <2>3. id[t][2] = Cardinality(DOMAIN infos)
        BY <2>1 DEF Apart
    <2>4. \A u \in Stored : id[u] # id[t] /\ id[u] \in DOMAIN infos
        BY <1>0, <2>3 DEF Apart, Tables
    <2>5. id[t] \notin DOMAIN infos
        BY <2>4 DEF Tables
    <2>6. Cardinality(DOMAIN infos') = Cardinality(DOMAIN infos) + 1
        BY <1>0, <2>1, <2>5, FS_AddElement
    <2>7. \A u \in Stored : infos'[id[u]] = infos[id[u]] /\ (Agree(u) => Agree(u)')
        BY <2>1, <2>4 DEF Agree, Reported
    <2>8. job[t] = "none"
        BY <2>1 DEF Tables
    <2>9. Agree(t)' /\ infos'[id'[t]].owner = t
        BY <2>1, <2>8 DEF Agree, Reported, AtWork
    <2>10. ASSUME NEW u \in Tasks, sub'[u] = "named" PROVE FALSE
        <3>1. u # t /\ sub[u] = "named"
            BY <2>1, <2>10
        <3> QED BY <2>1, <3>1 DEF Apart, Submitting
    <2>11. \A u \in Stored' : id'[u][2] < Cardinality(DOMAIN infos')
        <3>1. \A u \in Stored : id[u][2] \in Nat /\ id[u][2] < Cardinality(DOMAIN infos)
            BY DEF Apart, TypeOK, Ids, Stored
        <3> QED BY <1>0, <2>1, <2>2, <2>3, <2>6, <3>1
    <2> QED BY <2>1, <2>2, <2>7, <2>9, <2>10, <2>11 DEF Apart
<1>5. ASSUME NEW t \in Tasks, Pool(t) PROVE Apart'
    <2>1. /\ sub[t] = "stored" /\ sub'[t] = "pooled" /\ id' = id /\ infos' = infos
          /\ notes' = notes /\ raced' = raced /\ job[t] = "none" /\ job'[t] = "queued"
          /\ \A u \in Tasks \ {t} : sub'[u] = sub[u] /\ job'[u] = job[u]
        BY <1>5 DEF Pool, TypeOK, Tables
    <2>2. Stored' = Stored /\ Submitting' = Submitting
        BY <2>1 DEF Stored, Submitting
    <2>3. \A u \in Stored : Agree(u) => Agree(u)'
        BY <2>1 DEF Agree, Reported, Stored, AtWork
    <2> QED BY <2>1, <2>2, <2>3 DEF Apart
<1>6. ASSUME NEW t \in Tasks, StoreFuture(t) PROVE Apart'
    <2>1. /\ sub[t] = "pooled" /\ sub'[t] = "done" /\ id' = id /\ infos' = infos
          /\ notes' = notes /\ raced' = raced /\ job' = job
          /\ \A u \in Tasks \ {t} : sub'[u] = sub[u]
        BY <1>6 DEF StoreFuture, TypeOK
    <2>2. Stored' = Stored /\ Submitting' \subseteq Submitting
        BY <2>1 DEF Stored, Submitting
    <2>3. \A u \in Stored : Agree(u) => Agree(u)'
        BY <2>1 DEF Agree, Reported
    <2> QED BY <2>1, <2>2, <2>3 DEF Apart
<1>7. ASSUME NEW t \in Tasks, Run(t) PROVE Apart'
    <2>1. job[t] = "queued" /\ job'[t] = "running" /\ t \in Stored
          /\ infos' = [infos EXCEPT ![id[t]].status = "running"]
          /\ \A u \in Tasks \ {t} : job'[u] = job[u]
        BY <1>7 DEF Run, TypeOK, Tables, Stored
    <2>2. infos'[id[t]].status = "running"
        BY <2>1, InfosType DEF Statuses, Tables
    <2>3. Agree(t)'
        BY <1>7, <2>1, <2>2 DEF Run, Agree, Reported, AtWork
    <2> QED BY <1>7, <2>1, <2>3, OneMoves DEF Run, Statuses
<1>8. ASSUME NEW t \in Tasks, Drop(t) PROVE Apart'
    BY <1>1, <1>8 DEF Drop, Agree, Reported
<1>9. ASSUME NEW t \in Tasks, Extract(t) \/ Transcribe(t) PROVE Apart'
    <2>1. /\ job[t] \in AtWork /\ job'[t] \in AtWork
          /\ \A u \in Tasks \ {t} : job'[u] = job[u]
          /\ UNCHANGED <<sub, id, infos, notes, raced>>
        BY <1>9 DEF Extract, Transcribe, AtWork, TypeOK
    <2>2. \A u \in Stored : Agree(u) => Agree(u)'
        BY <2>1 DEF Agree, Reported, Stored, AtWork
    <2> QED BY <1>1, <2>1, <2>2
<1>10. ASSUME NEW t \in Tasks, End(t) PROVE Apart'
    <2>1. PICK st \in Finished : infos' = [infos EXCEPT ![id[t]].status = st]
        BY <1>10 DEF End
    <2>2. job[t] # "none" /\ job'[t] = "ended" /\ t \in Stored
          /\ \A u \in Tasks \ {t} : job'[u] = job[u]
        BY <1>10 DEF End, AtWork, TypeOK, Tables, Stored
    <2>3. infos'[id[t]].status = st /\ st \in Statuses
        BY <2>1, <2>2, InfosType DEF Finished, Statuses, Tables
    <2>4. Agree(t)'
        BY <1>10, <2>2, <2>3 DEF End, Agree, Reported, AtWork
    <2> QED BY <1>10, <2>1, <2>2, <2>3, <2>4, OneMoves DEF End
<1>11. ASSUME NEW t \in Tasks, Notify(t) PROVE Apart'
    <2>1. /\ UNCHANGED <<sub, id, infos, raced>> /\ job[t] = "ended" /\ job'[t] \in Reported
          /\ t \in Stored /\ \A u \in Tasks \ {t} : job'[u] = job[u]
          /\ notes' \subseteq notes \cup {Told(t)}
        BY <1>11 DEF Notify, TypeOK, Tables, Stored, Reported
    <2>2. \A u \in Stored : Agree(u) => Agree(u)'
        BY <2>1 DEF Agree, Reported, Stored, AtWork
    <2>3. ~raced => infos[id[t]].owner = t /\ infos[id[t]].status \in Finished
        BY <2>1 DEF Apart, Agree, Reported, AtWork
    <2>4. ~raced => Told(t).user = Told(t).job /\ Told(t).status \in Finished
        BY <2>3 DEF Told
    <2> QED BY <2>1, <2>2, <2>3, <2>4 DEF Apart, Stored, Submitting
<1>12. ASSUME NEW i \in Ids, Cancel(i) PROVE Apart'
    <2>1. PICK t \in Tasks : t = futures[i]
        BY <1>12 DEF Cancel, TypeOK
    <2>2. /\ i = id[t] /\ job[t] = "queued" /\ job'[t] = "cancelled" /\ t \in Stored
          /\ infos' = [infos EXCEPT ![i].status = "cancelled"]
          /\ \A u \in Tasks \ {t} : job'[u] = job[u]
          /\ UNCHANGED <<sub, id, raced, notes>>
        BY <1>12, <2>1 DEF Cancel, TypeOK, Tables, Stored
    <2>3. infos'[id[t]].status = "cancelled"
        BY <2>2, InfosType DEF Statuses, Tables
    <2>4. Agree(t)'
        BY <2>2, <2>3 DEF Agree, Reported, AtWork
    <2> QED BY <2>2, <2>4, OneMoves DEF Statuses
<1>13. ASSUME UNCHANGED vars PROVE Apart'
    BY <1>1, <1>13 DEF Agree, Reported
<1> QED BY <1>2, <1>3, <1>4, <1>5, <1>6, <1>7, <1>8, <1>9, <1>10, <1>11, <1>12, <1>13
        DEF Next, Submit, Work

\* There is nothing to keep apart at the start.
LEMMA InitApart == Init => Apart
<1> SUFFICES ASSUME Init PROVE Apart
    OBVIOUS
<1>1. Stored = {} /\ Submitting = {} /\ notes = {} /\ \A t \in Tasks : sub[t] = "new"
    BY DEF Init, Stored, Submitting
<1> QED BY <1>1 DEF Apart

\* A job reports to the user who submitted it and says how it ended, unless two
\* threads have met in submit.
THEOREM OwnerCorrect == Spec => []OwnerNotified
<1>1. Init => TypeOK /\ Tables /\ Apart
    BY InitType, InitApart
<1>2. TypeOK /\ Tables /\ Apart /\ [Next]_vars => TypeOK' /\ Tables' /\ Apart'
    BY StepType, StepTables, StepApart
<1>3. Apart => OwnerNotified
    BY DEF Apart, OwnerNotified
<1> QED BY <1>1, <1>2, <1>3, PTL DEF Spec

\* What a step does to the status of a record that has its last one.
LastKept == ~raced' => \A i \in DOMAIN infos :
                infos[i].status \in Finished \cup {"cancelled"} =>
                    infos'[i].status = infos[i].status

\* No step takes a last status back.
LEMMA StepForward == TypeOK /\ Tables /\ Apart /\ [Next]_vars => LastKept
<1> SUFFICES ASSUME TypeOK, Tables, Apart, [Next]_vars, ~raced'
             PROVE  \A i \in DOMAIN infos : infos[i].status \in Finished \cup {"cancelled"} =>
                        infos'[i].status = infos[i].status
    BY DEF LastKept
<1> USE DEF Finished, AtWork
<1>1. ASSUME NEW t \in Stored, infos[id[t]].status \in {"queued", "running"},
             NEW st \in Statuses, infos' = [infos EXCEPT ![id[t]].status = st]
      PROVE  \A i \in DOMAIN infos : infos[i].status \in Finished \cup {"cancelled"} =>
                 infos'[i].status = infos[i].status
    BY <1>1, InfosType
<1>2. ASSUME NEW t \in Tasks, Store(t)
      PROVE  \A i \in DOMAIN infos : infos'[i] = infos[i]
    <2>1. /\ ~raced /\ sub[t] = "named"
          /\ \A i \in DOMAIN infos \ {id[t]} : infos'[i] = infos[i]
        BY <1>2 DEF Store, Put
    <2>2. id[t][2] = Cardinality(DOMAIN infos) /\ Cardinality(DOMAIN infos) \in Nat
        BY <2>1, InfosFinite DEF Apart
    <2>3. \A u \in Stored : id[u] # id[t]
        BY <2>1, <2>2 DEF Apart
    <2> QED BY <2>1, <2>3 DEF Tables
<1>3. ASSUME NEW t \in Tasks, Run(t) \/ End(t)
      PROVE  \A i \in DOMAIN infos : infos[i].status \in Finished \cup {"cancelled"} =>
                 infos'[i].status = infos[i].status
    <2>1. t \in Stored /\ ~raced /\ job[t] \in {"queued"} \cup AtWork
        BY <1>3 DEF Run, End, Tables, Stored
    <2>2. infos[id[t]].status \in {"queued", "running"}
        BY <2>1 DEF Apart, Agree, Reported
    <2> QED BY <1>1, <1>3, <2>1, <2>2 DEF Run, End, Statuses
<1>4. ASSUME NEW i \in Ids, Cancel(i)
      PROVE  \A k \in DOMAIN infos : infos[k].status \in Finished \cup {"cancelled"} =>
                 infos'[k].status = infos[k].status
    <2>1. PICK t \in Tasks : t = futures[i]
        BY <1>4 DEF Cancel, TypeOK
    <2>2. t \in Stored /\ ~raced /\ job[t] = "queued" /\ i = id[t]
        BY <1>4, <2>1 DEF Cancel, Tables, Stored
    <2>3. infos[id[t]].status \in {"queued", "running"}
        BY <2>2 DEF Apart, Agree, Reported
    <2> QED BY <1>1, <1>4, <2>2, <2>3 DEF Cancel, Statuses
<1>5. ASSUME UNCHANGED infos
      PROVE  \A i \in DOMAIN infos : infos'[i] = infos[i]
    BY <1>5
<1> QED BY <1>2, <1>3, <1>4, <1>5 DEF Next, Submit, Work, Tick, Name, Pool, StoreFuture, Drop,
        Extract, Transcribe, Notify

\* A finished or cancelled task never counts as queued or running again, unless
\* two threads have met in submit.
THEOREM StatusCorrect == Spec => StatusForward
<1>1. Init => TypeOK /\ Tables /\ Apart
    BY InitType, InitApart
<1>2. TypeOK /\ Tables /\ Apart /\ [Next]_vars => TypeOK' /\ Tables' /\ Apart'
    BY StepType, StepTables, StepApart
<1>3. TypeOK /\ Tables /\ Apart /\ [Next]_vars => [LastKept]_vars
    BY StepForward
<1>4. StatusForward <=> [][LastKept]_vars
    BY DEF StatusForward, LastKept
<1> QED BY <1>1, <1>2, <1>3, <1>4, PTL DEF Spec
-----------------------------------------------------------------------------
(* Subtitles.                                                              *)

\* Where the sound is while one subtitle job is at it and none was cut short.
Sound ==
    ~mixed =>
        /\ \A t, u \in Subtitled : job[t] \in AtWork /\ job[u] \in AtWork => t = u
        /\ audio # NoFile => \E t \in Subtitled : job[t] = "extracted" /\ audio = t
        /\ \A t \in Subtitled : job[t] \in Reported \cup {"deleted", "ended"} => heard[t] = t
        /\ \A n \in notes : n.job \in Subtitled => n.text = n.job

\* Every step keeps the sound where it belongs.
LEMMA StepSound == TypeOK /\ Tables /\ Sound /\ [Next]_vars => Sound'
<1> SUFFICES ASSUME TypeOK, Tables, Sound, [Next]_vars PROVE Sound'
    OBVIOUS
<1> USE TaskAssumption DEF AtWork, Reported
<1>1. ASSUME UNCHANGED <<audio, heard, mixed, notes>>,
             \A t \in Subtitled : \/ job'[t] = job[t]
                                  \/ job'[t] \in {"queued", "cancelled"}
                                     /\ job[t] \in {"none", "queued"}
      PROVE  Sound'
    BY <1>1 DEF Sound
<1>2. ASSUME NEW t \in Tasks, Submit(t) PROVE Sound'
    <2>1. job' = job \/ (job[t] = "none" /\ job' = [job EXCEPT ![t] = "queued"])
        BY <1>2 DEF Submit, Name, Store, Pool, StoreFuture, Tables
    <2>2. UNCHANGED <<audio, heard, mixed, notes>>
        BY <1>2 DEF Submit, Name, Store, Pool, StoreFuture
    <2> QED BY <1>1, <2>1, <2>2 DEF TypeOK
<1>3. ASSUME NEW t \in Tasks, Run(t) PROVE Sound'
    <2>1. /\ job[t] = "queued" /\ job' = [job EXCEPT ![t] = "running"]
          /\ UNCHANGED <<audio, heard, notes>>
          /\ mixed' = (mixed \/ Meets(t))
        BY <1>3 DEF Run
    <2>2. ASSUME ~mixed', t \in Subtitled
          PROVE  ~mixed /\ \A u \in Subtitled \ {t} : job[u] \notin AtWork
        BY <2>1, <2>2 DEF Meets
    <2>3. ~mixed' => ~mixed
        BY <2>1
    <2> QED BY <2>1, <2>2, <2>3 DEF Sound, TypeOK
<1>4. ASSUME NEW t \in Tasks, Drop(t) PROVE Sound'
    BY <1>1, <1>4 DEF Drop
<1>5. ASSUME NEW t \in Tasks, Extract(t) PROVE Sound'
    <2>1. /\ t \in Subtitled /\ job[t] = "running" /\ job' = [job EXCEPT ![t] = "extracted"]
          /\ audio' \in {audio, t} /\ UNCHANGED <<heard, notes, mixed>>
        BY <1>5 DEF Extract
    <2>2. ~mixed => audio = NoFile
        BY <2>1 DEF Sound
    <2> QED BY <2>1, <2>2 DEF Sound, TypeOK
<1>6. ASSUME NEW t \in Tasks, Transcribe(t) PROVE Sound'
    <2>1. /\ t \in Subtitled /\ job[t] = "extracted" /\ job' = [job EXCEPT ![t] = "deleted"]
          /\ audio # NoFile /\ heard' = [heard EXCEPT ![t] = audio] /\ audio' = NoFile
          /\ UNCHANGED <<notes, mixed>>
        BY <1>6 DEF Transcribe, Tables
    <2>2. ~mixed => audio = t
        BY <2>1 DEF Sound
    <2> QED BY <2>1, <2>2 DEF Sound, TypeOK
<1>7. ASSUME NEW t \in Tasks, End(t) PROVE Sound'
    <2>1. PICK st \in Finished : /\ t \in Subtitled => (st = "completed" <=> job[t] = "deleted")
                                 /\ mixed' = (mixed \/ (t \in Subtitled /\ st = "failed"))
        BY <1>7 DEF End
    <2>2. /\ job[t] \in AtWork /\ job' = [job EXCEPT ![t] = "ended"]
          /\ UNCHANGED <<heard, notes>>
          /\ audio' \in {audio} \cup (IF job[t] = "running" THEN Subtitled \cap {t} ELSE {})
        BY <1>7 DEF End
    <2>3. CASE t \in Subtitled
        <3>1. ~mixed' => ~mixed /\ st = "completed"
            BY <2>1, <2>3 DEF Finished
        <3>2. ~mixed' => job[t] = "deleted" /\ audio' = audio
            BY <2>1, <2>2, <2>3, <3>1
        <3> QED BY <2>2, <2>3, <3>1, <3>2 DEF Sound, TypeOK
    <2>4. CASE t \notin Subtitled
        <3>1. audio' = audio /\ mixed' = mixed /\ \A u \in Subtitled : job'[u] = job[u]
            BY <2>1, <2>2, <2>4 DEF TypeOK
        <3> QED BY <1>1, <2>2, <3>1
    <2> QED BY <2>3, <2>4
<1>8. ASSUME NEW t \in Tasks, Notify(t) PROVE Sound'
    <2>1. PICK now \in Reported : job' = [job EXCEPT ![t] = now]
        BY <1>8 DEF Notify
    <2>2. /\ job[t] = "ended" /\ notes' \subseteq notes \cup {Told(t)}
          /\ UNCHANGED <<audio, heard, mixed>>
        BY <1>8 DEF Notify
    <2>3. ~mixed /\ Told(t).job \in Subtitled => Told(t).text = Told(t).job
        BY <2>2 DEF Sound, Told
    <2> QED BY <2>1, <2>2, <2>3 DEF Sound, TypeOK
<1>9. ASSUME NEW i \in Ids, Cancel(i) PROVE Sound'
    <2>1. PICK t \in Tasks : t = futures[i]
        BY <1>9 DEF Cancel, TypeOK
    <2>2. job[t] = "queued" /\ job' = [job EXCEPT ![t] = "cancelled"]
        BY <1>9, <2>1 DEF Cancel
    <2> QED BY <1>1, <1>9, <2>2 DEF Cancel, TypeOK
<1>10. ASSUME Tick \/ UNCHANGED vars PROVE Sound'
    BY <1>1, <1>10 DEF Tick
<1> QED BY <1>2, <1>3, <1>4, <1>5, <1>6, <1>7, <1>8, <1>9, <1>10 DEF Next, Work

\* Nobody is at the file at the start.
LEMMA InitSound == Init => Sound
<1> SUFFICES ASSUME Init PROVE Sound
    OBVIOUS
<1>1. /\ notes = {} /\ \A t \in Subtitled : job[t] = "none"
      /\ ~mixed => audio = NoFile
    BY TaskAssumption DEF Init
<1> QED BY <1>1 DEF Sound, AtWork, Reported

\* A subtitle job reports the words of its own video, as long as no two of them
\* ran at once and none was cut short, in this process or in an earlier one.
THEOREM SubtitlesCorrect == Spec => []OwnSubtitles
<1>1. Init => TypeOK /\ Tables /\ Sound
    BY InitType, InitSound
<1>2. TypeOK /\ Tables /\ Sound /\ [Next]_vars => TypeOK' /\ Tables' /\ Sound'
    BY StepType, StepTables, StepSound
<1>3. Sound => OwnSubtitles
    BY DEF Sound, OwnSubtitles
<1> QED BY <1>1, <1>2, <1>3, PTL DEF Spec
-----------------------------------------------------------------------------
(***************************************************************************)
(* The tables of tools.                                                    *)
(***************************************************************************)
Rebuilds == {"reload", "searchOn", "searchOff"}
Saves == {"create", "generate", "update"}
Edits == Saves \cup {"delete"}
At(r, places) == pc[r] \in places

\* Where a request is goes with what it asks for; an MCP request holds the loop
\* while it refreshes the list; who opened a client, and what is loaded from it,
\* go with its server.
Where ==
    /\ \A r \in Requests :
          /\ At(r, {"connect", "load", "listing"}) => asked[r].op = "connect"
          /\ At(r, {"disconnect", "unregister"}) => asked[r].op = "disconnect"
          /\ At(r, {"list", "clear", "fill"}) => asked[r].op \notin Edits
          /\ At(r, {"check"}) => asked[r].op \in Edits
          /\ At(r, {"cut", "write", "table"}) => asked[r].op \in Saves
          /\ At(r, {"unlink", "remove"}) => asked[r].op = "delete"
          /\ At(r, {"list", "clear", "fill"}) /\ IsMcp(r) => loop = r
    /\ loop # Nobody => At(loop, {"list", "clear", "fill"}) /\ IsMcp(loop)
    /\ \A r \in open : pc[r] # "idle" /\ asked[r].op = "connect"
    /\ \A s \in Servers :
          /\ loaded[s] \subseteq {s} \X Names
          /\ clients[s] # Nobody => /\ pc[clients[s]] # "idle"
                                    /\ asked[clients[s]].op = "connect"
                                    /\ asked[clients[s]].server = s

\* Two requests under way work on the same thing only where nothing is claimed.
Alone ==
    \A q, r \in UnderWay : q # r =>
        /\ Touches(asked[q]) \cap Touches(asked[r]) \subseteq odd
        /\ asked[q].op \in Rebuilds => "index" \in odd

Registry == RegistryTypeOK /\ Where

\* What a request is made of.
LEMMA JobFields ==
    ASSUME NEW j \in Jobs
    PROVE  /\ j.op \in {"connect", "disconnect"} \cup Rebuilds \cup Edits
           /\ j.op \in {"connect", "disconnect"} => j.server \in Servers
           /\ j.op \in Edits => j.skill \in Skills /\ j.triggers \in BOOLEAN
           /\ j.op = "update" => j.to \in Skills
BY DEF Jobs, Rebuilds, Edits, Saves

LEMMA JobTouches ==
    ASSUME NEW j \in Jobs
    PROVE  /\ j.op \in {"connect", "disconnect"} => Touches(j) = {j.server}
           /\ j.op \in Edits => /\ Target(j) \in Skills /\ Target(j) \in Touches(j)
                                /\ j.skill \in Touches(j) /\ Touches(j) \subseteq Skills
           /\ j.op \in Rebuilds => Touches(j) = {}
           /\ Touches(j) \subseteq Servers \cup Skills
BY JobFields DEF Touches, Target, Edits, Saves, Rebuilds

\* A step of a request moves this request and no other, and claims no more than before.
LEMMA StepMoves ==
    ASSUME Registry, NEW r \in Requests, Step(r)
    PROVE  /\ asked' = asked /\ r \in UnderWay /\ pc[r] # "idle" /\ odd \subseteq odd'
           /\ pc' \in [Requests -> Places] /\ pc'[r] # "idle"
           /\ \A q \in Requests : q # r => pc'[q] = pc[q]
           /\ UnderWay' \subseteq UnderWay
<1> DEFINE Moved(there) == Go(r, there) /\ there \in Places /\ there # "idle"
<1>1. pc \in [Requests -> Places] /\ asked \in [Requests -> Jobs]
  BY DEF Registry, RegistryTypeOK
<1>2. ASSUME NEW there \in Places \ {"idle"}, Go(r, there), pc[r] \notin Over, odd \subseteq odd'
      PROVE  /\ asked' = asked /\ r \in UnderWay /\ pc[r] # "idle" /\ odd \subseteq odd'
             /\ pc' \in [Requests -> Places] /\ pc'[r] # "idle"
             /\ \A q \in Requests : q # r => pc'[q] = pc[q]
             /\ UnderWay' \subseteq UnderWay
  BY <1>1, <1>2 DEF Go, UnderWay, Over
<1>3. CASE Connect(r) BY <1>2, <1>3 DEF Connect, Over, Places
<1>4. CASE Load(r) BY <1>2, <1>4 DEF Load, Over, Places
<1>5. CASE ListFails(r) BY <1>2, <1>5 DEF ListFails, Over, Places
<1>6. CASE \E offered \in SUBSET Names : Register(r, offered)
  BY <1>2, <1>6 DEF Register, Over, Places
<1>7. CASE Unload(r) BY <1>2, <1>7 DEF Unload, Over, Places
<1>8. CASE UnregisterMcp(r) BY <1>2, <1>8 DEF UnregisterMcp, Over, Places
<1>9. CASE List(r) BY <1>2, <1>9 DEF List, Over, Places
<1>10. CASE Clear(r) BY <1>2, <1>10 DEF Clear, Over, Places
<1>11. CASE Fill(r) BY <1>2, <1>11 DEF Fill, Over, Places
<1>12. CASE Check(r)
  <2>1. PICK there \in {"failed", "cut", "unlink"} : Go(r, there)
    <3>1. asked[r].op \in Edits BY <1>1, <1>12 DEF Check, Registry, Where, At
    <3> QED BY <3>1, <1>12 DEF Check, Edits, Saves
  <2> QED BY <2>1, <1>2, <1>12 DEF Check, Over, Places
<1>13. CASE Cut(r) BY <1>2, <1>13 DEF Cut, Over, Places
<1>14. CASE Write(r) BY <1>2, <1>14 DEF Write, Over, Places
<1>15. CASE Table(r) BY <1>2, <1>15 DEF Table, Over, Places
<1>16. CASE Unlink(r) BY <1>2, <1>16 DEF Unlink, Over, Places
<1>17. CASE Remove(r) BY <1>2, <1>17 DEF Remove, Over, Places
<1> QED
  BY <1>3, <1>4, <1>5, <1>6, <1>7, <1>8, <1>9, <1>10, <1>11, <1>12, <1>13, <1>14, <1>15,
     <1>16, <1>17 DEF Step, Refresh

\* What a request's arrival leaves alone.
LEMMA IssueMoves ==
    ASSUME Registry, NEW r \in Requests, NEW j \in Jobs, Issue(r, j)
    PROVE  /\ pc[r] = "idle" /\ asked'[r] = j /\ odd \subseteq odd'
           /\ pc'[r] \in {"connect", "disconnect", "list", "check"}
           /\ pc'[r] \in {"connect", "disconnect"} => j.op = pc'[r]
           /\ pc'[r] = "list" <=> j.op \in Rebuilds
           /\ pc'[r] = "check" <=> j.op \in Edits
           /\ pc' \in [Requests -> Places] /\ asked' \in [Requests -> Jobs]
           /\ \A q \in Requests : q # r => pc'[q] = pc[q] /\ asked'[q] = asked[q]
           /\ UnderWay' = UnderWay \cup {r} /\ r \notin UnderWay
           /\ search' # search => j.op \in Rebuilds
           /\ UNCHANGED <<tables, loader, llm, index, store, seen, loop>>
<1>1. pc \in [Requests -> Places] /\ asked \in [Requests -> Jobs]
  BY DEF Registry, RegistryTypeOK
<1>2. /\ pc[r] = "idle" /\ asked'[r] = j /\ asked' \in [Requests -> Jobs]
      /\ \A q \in Requests : q # r => asked'[q] = asked[q]
  BY <1>1 DEF Issue
<1>3. /\ pc'[r] \in {"connect", "disconnect", "list", "check"}
      /\ pc'[r] \in {"connect", "disconnect"} => j.op = pc'[r]
      /\ pc'[r] = "list" <=> j.op \in Rebuilds
      /\ pc'[r] = "check" <=> j.op \in Edits
      /\ \A q \in Requests : q # r => pc'[q] = pc[q]
      /\ DOMAIN pc' = Requests /\ pc' = [q \in Requests |-> pc'[q]]
  BY <1>1, JobFields DEF Issue, Rebuilds, Edits, Saves
<1>4. pc' \in [Requests -> Places] BY <1>1, <1>3 DEF Places
<1>5. UnderWay' = UnderWay \cup {r} /\ r \notin UnderWay
  BY <1>2, <1>3 DEF UnderWay, Over
<1>6. search' # search => j.op \in Rebuilds BY DEF Issue, Rebuilds
<1> QED BY <1>2, <1>3, <1>4, <1>5, <1>6 DEF Issue

-----------------------------------------------------------------------------
(* Type correctness.                                                       *)

LEMMA LoadsType ==
    ASSUME NEW f \in Saved \cup {NoSkill, Torn}
    PROVE  Loads(f) \in Saved \cup {NoSkill}
BY RegistryAssumption DEF Loads, NoSkill, Torn, Requests

\* What the next start finds in a file: nothing in none, and a skill with
\* triggers as it was saved.
LEMMA LoadsDoes ==
    /\ Loads(NoSkill) = NoSkill
    /\ \A r \in Requests : LET f == [triggers |-> TRUE, by |-> r] IN Loads(f) = f
BY RegistryAssumption DEF Loads, NoSkill, Requests

LEMMA RegistryInitType == RegistryInit => Registry
<1> SUFFICES ASSUME RegistryInit PROVE Registry OBVIOUS
<1>1. file \in [Skills -> Saved \cup {NoSkill, Torn}]
  BY DEF RegistryInit, Saved
<1>2. skill \in [Skills -> Saved \cup {NoSkill}]
  BY <1>1, LoadsType DEF RegistryInit
<1>3. pc \in [Requests -> Places] BY DEF RegistryInit, Places, Over
<1>4. asked \in [Requests -> Jobs] BY DEF RegistryInit, Jobs
<1>5. RegistryTypeOK
  BY <1>1, <1>2, <1>3, <1>4 DEF RegistryInit, RegistryTypeOK, Nobody
<1>6. Where
  BY DEF RegistryInit, Where, At, Nobody
<1> QED BY <1>5, <1>6 DEF Registry

\* The server of an MCP request, and the skill another one edits.
LEMMA AskedDoes ==
    ASSUME Registry, NEW r \in Requests
    PROVE  /\ asked[r] \in Jobs
           /\ At(r, {"connect", "load", "listing"}) => asked[r].op = "connect"
           /\ At(r, {"disconnect", "unregister"}) => asked[r].op = "disconnect"
           /\ At(r, {"connect", "load", "listing", "disconnect", "unregister"})
                => IsMcp(r) /\ asked[r].server \in Servers /\ Touches(asked[r]) = {asked[r].server}
           /\ At(r, {"cut", "write", "table", "unlink", "remove"})
                => asked[r].op \in Edits /\ asked[r].skill \in Skills
                   /\ Target(asked[r]) \in Skills /\ asked[r].triggers \in BOOLEAN
<1>1. asked[r] \in Jobs BY DEF Registry, RegistryTypeOK
<1>2. /\ At(r, {"connect", "load", "listing"}) => asked[r].op = "connect"
      /\ At(r, {"disconnect", "unregister"}) => asked[r].op = "disconnect"
      /\ At(r, {"cut", "write", "table"}) => asked[r].op \in Saves
      /\ At(r, {"unlink", "remove"}) => asked[r].op = "delete"
  BY DEF Registry, Where
<1>3. At(r, {"connect", "load", "listing", "disconnect", "unregister"})
         => asked[r].op \in {"connect", "disconnect"}
  BY <1>2 DEF At
<1>4. At(r, {"cut", "write", "table", "unlink", "remove"}) => asked[r].op \in Edits
  BY <1>2 DEF At, Edits
<1> QED BY <1>1, <1>2, <1>3, <1>4, JobFields, JobTouches DEF IsMcp

\* A request's step keeps the types of the tables and of the loader.
LEMMA TablesType ==
    ASSUME Registry, NEW r \in Requests, Step(r)
    PROVE  /\ tools' \subseteq handlers' /\ handlers' \subseteq McpTools
           /\ clients' \in [Servers -> Requests \cup {Nobody}]
           /\ loaded' \in [Servers -> SUBSET McpTools] /\ open' \subseteq Requests
           /\ search' \in BOOLEAN /\ llm' \subseteq McpTools /\ index' \subseteq McpTools
           /\ seen' \in [Requests -> SUBSET McpTools] /\ loop' \in Requests \cup {Nobody}
<1> DEFINE Kept == /\ tools \subseteq handlers /\ handlers \subseteq McpTools
                   /\ clients \in [Servers -> Requests \cup {Nobody}]
                   /\ loaded \in [Servers -> SUBSET McpTools] /\ open \subseteq Requests
                   /\ search \in BOOLEAN /\ llm \subseteq McpTools /\ index \subseteq McpTools
                   /\ seen \in [Requests -> SUBSET McpTools] /\ loop \in Requests \cup {Nobody}
<1>1. Kept BY DEF Registry, RegistryTypeOK
<1> SUFFICES Kept' OBVIOUS
<1>3. CASE Connect(r) BY <1>1, <1>3 DEF Connect, tables, views, store
<1>4. CASE Load(r) BY <1>1, <1>4 DEF Load, tables, views, store
<1>5. CASE ListFails(r) BY <1>1, <1>5 DEF ListFails, tables, loader, views, store
<1>6. CASE \E offered \in SUBSET Names : Register(r, offered)
  <2>1. PICK offered \in SUBSET Names : Register(r, offered) BY <1>6
  <2>2. asked[r].server \in Servers BY <2>1, AskedDoes DEF Register, At
  <2>3. {asked[r].server} \X offered \subseteq McpTools BY <2>2 DEF McpTools
  <2> QED BY <1>1, <2>1, <2>3 DEF Register, views, store
<1>7. CASE Unload(r) BY <1>1, <1>7 DEF Unload, views, store, Nobody
<1>8. CASE UnregisterMcp(r) BY <1>1, <1>8 DEF UnregisterMcp, Matching, loader, views, store
<1>9. CASE List(r) BY <1>1, <1>9 DEF List, tables, loader, store, Nobody
<1>10. CASE Clear(r) BY <1>1, <1>10 DEF Clear, tables, loader, store
<1>11. CASE Fill(r) BY <1>1, <1>11 DEF Fill, tables, loader, store, Nobody
<1>12. CASE Check(r) BY <1>1, <1>12 DEF Check, tables, loader, views, store
<1>13. CASE Cut(r) BY <1>1, <1>13 DEF Cut, tables, loader, views
<1>14. CASE Write(r) BY <1>1, <1>14 DEF Write, tables, loader, views
<1>15. CASE Table(r) BY <1>1, <1>15 DEF Table, tables, loader, views
<1>16. CASE Unlink(r) BY <1>1, <1>16 DEF Unlink, tables, loader, views
<1>17. CASE Remove(r) BY <1>1, <1>17 DEF Remove, tables, loader, views
<1> QED
  BY <1>3, <1>4, <1>5, <1>6, <1>7, <1>8, <1>9, <1>10, <1>11, <1>12, <1>13, <1>14, <1>15,
     <1>16, <1>17 DEF Step, Refresh

\* ... and of the skills, their files and what nothing is claimed for.
LEMMA SkillsType ==
    ASSUME Registry, NEW r \in Requests, Step(r)
    PROVE  /\ skill' \in [Skills -> Saved \cup {NoSkill}]
           /\ file' \in [Skills -> Saved \cup {NoSkill, Torn}]
           /\ odd' \subseteq Servers \cup Skills \cup {"index"}
<1> DEFINE Kept == /\ skill \in [Skills -> Saved \cup {NoSkill}]
                   /\ file \in [Skills -> Saved \cup {NoSkill, Torn}]
                   /\ odd \subseteq Servers \cup Skills \cup {"index"}
<1>1. Kept BY DEF Registry, RegistryTypeOK
<1> SUFFICES Kept' OBVIOUS
<1>2. At(r, {"cut", "write", "table", "unlink", "remove"})
         => asked[r].skill \in Skills /\ Target(asked[r]) \in Skills
            /\ asked[r].triggers \in BOOLEAN
  BY AskedDoes
<1>3. CASE Connect(r)
  <2>1. asked[r].server \in Servers BY <1>3, AskedDoes DEF Connect, At
  <2> QED BY <1>1, <1>3, <2>1 DEF Connect, views, store
<1>4. CASE Load(r)
  <2>1. asked[r].server \in Servers BY <1>4, AskedDoes DEF Load, At
  <2> QED BY <1>1, <1>4, <2>1 DEF Load, views, store
<1>5. CASE ListFails(r) BY <1>1, <1>5 DEF ListFails, store
<1>6. CASE \E offered \in SUBSET Names : Register(r, offered) BY <1>1, <1>6 DEF Register, store
<1>7. CASE Unload(r) BY <1>1, <1>7 DEF Unload, store
<1>8. CASE UnregisterMcp(r) BY <1>1, <1>8 DEF UnregisterMcp, store
<1>9. CASE List(r) BY <1>1, <1>9 DEF List, store
<1>10. CASE Clear(r) BY <1>1, <1>10 DEF Clear, store
<1>11. CASE Fill(r) BY <1>1, <1>11 DEF Fill, store
<1>12. CASE Check(r) BY <1>1, <1>12 DEF Check, store
<1>13. CASE Cut(r) BY <1>1, <1>13 DEF Cut
<1>14. CASE Write(r)
  <2>1. [triggers |-> asked[r].triggers, by |-> r] \in Saved
    BY <1>2, <1>14 DEF Write, At, Saved
  <2> QED BY <1>1, <1>14, <2>1 DEF Write
<1>15. CASE Table(r)
  <2>1. [triggers |-> TRUE, by |-> r] \in Saved BY DEF Saved
  <2>2. asked[r].skill \in Skills /\ Target(asked[r]) \in Skills BY <1>2, <1>15 DEF Table, At
  <2> QED BY <1>1, <1>15, <2>1, <2>2 DEF Table
<1>16. CASE Unlink(r) BY <1>1, <1>16 DEF Unlink
<1>17. CASE Remove(r) BY <1>1, <1>17 DEF Remove
<1> QED
  BY <1>3, <1>4, <1>5, <1>6, <1>7, <1>8, <1>9, <1>10, <1>11, <1>12, <1>13, <1>14, <1>15,
     <1>16, <1>17 DEF Step, Refresh

\* A request's step leaves every request where its operation goes.
LEMMA RequestsPlaced ==
    ASSUME Registry, NEW r \in Requests, Step(r)
    PROVE  /\ \A q \in Requests :
                 /\ At(q, {"connect", "load", "listing"})' => asked[q].op = "connect"
                 /\ At(q, {"disconnect", "unregister"})' => asked[q].op = "disconnect"
                 /\ At(q, {"list", "clear", "fill"})' => asked[q].op \notin Edits
                 /\ At(q, {"check"})' => asked[q].op \in Edits
                 /\ At(q, {"cut", "write", "table"})' => asked[q].op \in Saves
                 /\ At(q, {"unlink", "remove"})' => asked[q].op = "delete"
                 /\ At(q, {"list", "clear", "fill"})' /\ IsMcp(q) => loop' = q
           /\ loop' # Nobody => At(loop, {"list", "clear", "fill"})' /\ IsMcp(loop')
<1> DEFINE Placed(q) ==
                 /\ At(q, {"connect", "load", "listing"}) => asked[q].op = "connect"
                 /\ At(q, {"disconnect", "unregister"}) => asked[q].op = "disconnect"
                 /\ At(q, {"list", "clear", "fill"}) => asked[q].op \notin Edits
                 /\ At(q, {"check"}) => asked[q].op \in Edits
                 /\ At(q, {"cut", "write", "table"}) => asked[q].op \in Saves
                 /\ At(q, {"unlink", "remove"}) => asked[q].op = "delete"
                 /\ At(q, {"list", "clear", "fill"}) /\ IsMcp(q) => loop = q
           Held == loop # Nobody => At(loop, {"list", "clear", "fill"}) /\ IsMcp(loop)
           In(places) == pc'[r] \in places
<1>1. /\ \A q \in Requests : Placed(q)
      /\ Held /\ loop \in Requests \cup {Nobody}
      /\ pc \in [Requests -> Places] /\ Nobody \notin Requests
  BY DEF Registry, RegistryTypeOK, Where, Nobody, Requests
<1>2. /\ asked' = asked /\ pc' \in [Requests -> Places]
      /\ \A q \in Requests : q # r => pc'[q] = pc[q]
  BY StepMoves
<1>3. ASSUME /\ \/ loop' = loop /\ (loop = r => In({"list", "clear", "fill"}))
                \/ loop' = r /\ loop = Nobody /\ In({"list", "clear", "fill"}) /\ IsMcp(r)
                \/ loop' = Nobody /\ (loop = r \/ loop = Nobody) /\ ~In({"list", "clear", "fill"})
             /\ In({"connect", "load", "listing"}) => asked[r].op = "connect"
             /\ In({"disconnect", "unregister"}) => asked[r].op = "disconnect"
             /\ In({"list", "clear", "fill"}) => asked[r].op \notin Edits
             /\ In({"check"}) => asked[r].op \in Edits
             /\ In({"cut", "write", "table"}) => asked[r].op \in Saves
             /\ In({"unlink", "remove"}) => asked[r].op = "delete"
             /\ In({"list", "clear", "fill"}) /\ IsMcp(r) => loop' = r
      PROVE  (\A q \in Requests : Placed(q)') /\ Held'
  <2>1. Placed(r)' BY <1>2, <1>3 DEF At, IsMcp
  <2>2. ASSUME NEW q \in Requests, q # r PROVE Placed(q)'
    <3>1. pc'[q] = pc[q] /\ Placed(q) BY <1>1, <1>2, <2>2
    <3>2. loop = q => loop' = q BY <1>1, <1>3, <2>2
    <3> QED BY <1>2, <3>1, <3>2 DEF At, IsMcp
  <2>3. Held' BY <1>1, <1>2, <1>3 DEF At, IsMcp
  <2> QED BY <2>1, <2>2, <2>3
<1> SUFFICES (\A q \in Requests : Placed(q)') /\ Held'
  BY <1>2 DEF At, IsMcp
<1> HIDE DEF Placed, Held
<1>4. /\ Held => (loop = r => At(r, {"list", "clear", "fill"}))
      /\ Placed(r) => /\ At(r, {"connect", "load", "listing"}) => asked[r].op = "connect"
                      /\ At(r, {"disconnect", "unregister"}) => asked[r].op = "disconnect"
                      /\ At(r, {"list", "clear", "fill"}) => asked[r].op \notin Edits
                      /\ At(r, {"check"}) => asked[r].op \in Edits
                      /\ At(r, {"cut", "write", "table"}) => asked[r].op \in Saves
                      /\ At(r, {"unlink", "remove"}) => asked[r].op = "delete"
                      /\ At(r, {"list", "clear", "fill"}) /\ IsMcp(r) => loop = r
  BY <1>1 DEF Placed, Held
<1>a. /\ r \in DOMAIN pc /\ r # Nobody /\ Held /\ Placed(r)
      /\ loop = r => At(r, {"list", "clear", "fill"})
  BY <1>1, <1>4
<1>5. CASE Connect(r) BY <1>3, <1>4, <1>a, <1>5 DEF Connect, Go, At
<1>6. CASE Load(r) BY <1>3, <1>4, <1>a, <1>6 DEF Load, Go, At
<1>7. CASE ListFails(r) BY <1>3, <1>4, <1>a, <1>7 DEF ListFails, Go, At
<1>8. CASE \E offered \in SUBSET Names : Register(r, offered)
  BY <1>3, <1>4, <1>a, <1>8 DEF Register, Go, At, IsMcp, Edits, Saves
<1>9. CASE Unload(r) BY <1>3, <1>4, <1>a, <1>9 DEF Unload, Go, At
<1>10. CASE UnregisterMcp(r)
  BY <1>3, <1>4, <1>a, <1>10 DEF UnregisterMcp, Go, At, IsMcp, Edits, Saves
<1>11. CASE List(r)
  <2>1. CASE search BY <1>3, <1>4, <1>a, <1>11, <2>1 DEF List, Go, At
  <2>2. CASE ~search BY <1>3, <1>4, <1>a, <1>11, <2>2 DEF List, Go, At, Free
  <2> QED BY <2>1, <2>2
<1>12. CASE Clear(r) BY <1>3, <1>4, <1>a, <1>12 DEF Clear, Go, At
<1>13. CASE Fill(r) BY <1>3, <1>4, <1>a, <1>13 DEF Fill, Go, At
<1>14. CASE Check(r)
  <2>1. asked[r].op \in Edits /\ loop # r /\ loop' = loop
    BY <1>4, <1>a, <1>14 DEF Check, At
  <2>2. \/ In({"failed"})
        \/ In({"cut"}) /\ asked[r].op \in Saves
        \/ In({"unlink"}) /\ asked[r].op = "delete"
    BY <1>a, <1>14, <2>1 DEF Check, Go, Edits, Saves
  <2> QED BY <1>3, <2>1, <2>2
<1>15. CASE Cut(r) BY <1>3, <1>4, <1>a, <1>15 DEF Cut, Go, At
<1>16. CASE Write(r) BY <1>3, <1>4, <1>a, <1>16 DEF Write, Go, At
<1>17. CASE Table(r) BY <1>3, <1>4, <1>a, <1>17 DEF Table, Go, At
<1>18. CASE Unlink(r) BY <1>3, <1>4, <1>a, <1>18 DEF Unlink, Go, At
<1>19. CASE Remove(r) BY <1>3, <1>4, <1>a, <1>19 DEF Remove, Go, At
<1> QED
  BY <1>5, <1>6, <1>7, <1>8, <1>9, <1>10, <1>11, <1>12, <1>13, <1>14, <1>15, <1>16,
     <1>17, <1>18, <1>19 DEF Step, Refresh

\* A request's step keeps the clients with their servers.
LEMMA ClientsPlaced ==
    ASSUME Registry, NEW r \in Requests, Step(r)
    PROVE  /\ \A q \in open' : pc'[q] # "idle" /\ asked[q].op = "connect"
           /\ \A s \in Servers :
                 /\ loaded'[s] \subseteq {s} \X Names
                 /\ clients'[s] # Nobody => /\ pc'[clients'[s]] # "idle"
                                            /\ asked[clients'[s]].op = "connect"
                                            /\ asked[clients'[s]].server = s
<1>1. /\ \A q \in open : pc[q] # "idle" /\ asked[q].op = "connect"
      /\ \A s \in Servers :
            /\ loaded[s] \subseteq {s} \X Names
            /\ clients[s] # Nobody => /\ pc[clients[s]] # "idle"
                                      /\ asked[clients[s]].op = "connect"
                                      /\ asked[clients[s]].server = s
      /\ clients \in [Servers -> Requests \cup {Nobody}] /\ open \subseteq Requests
      /\ loaded \in [Servers -> SUBSET McpTools]
  BY DEF Registry, RegistryTypeOK, Where
<1>2. /\ pc'[r] # "idle" /\ \A q \in Requests : q # r => pc'[q] = pc[q]
  BY StepMoves
<1>3. At(r, {"connect", "load", "listing"}) => asked[r].op = "connect" /\ asked[r].server \in Servers
  BY AskedDoes DEF At
<1>5. CASE Connect(r) BY <1>1, <1>2, <1>3, <1>5 DEF Connect, At
<1>6. CASE Load(r) BY <1>1, <1>2, <1>3, <1>6 DEF Load, At
<1>8. CASE \E offered \in SUBSET Names : Register(r, offered)
  <2>1. PICK offered \in SUBSET Names : Register(r, offered) BY <1>8
  <2>2. {asked[r].server} \X offered \subseteq {asked[r].server} \X Names OBVIOUS
  <2> QED BY <1>1, <1>2, <1>3, <2>1, <2>2 DEF Register
<1>9. CASE Unload(r) BY <1>1, <1>2, <1>9 DEF Unload, Nobody
<1>10. CASE UNCHANGED loader BY <1>1, <1>2, <1>10 DEF loader
<1>11. UNCHANGED loader \/ Connect(r) \/ Load(r) \/ Unload(r)
          \/ \E offered \in SUBSET Names : Register(r, offered)
  BY DEF Step, Refresh, ListFails, UnregisterMcp, List, Clear, Fill, Check, Cut, Write, Table,
         Unlink, Remove, loader
<1> QED BY <1>5, <1>6, <1>8, <1>9, <1>10, <1>11

\* The arrival of a request keeps types and places.
LEMMA IssueType ==
    ASSUME Registry, NEW r \in Requests, NEW j \in Jobs, Issue(r, j)
    PROVE  Registry'
<1>1. /\ pc[r] = "idle" /\ asked'[r] = j
      /\ pc'[r] \in {"connect", "disconnect", "list", "check"}
      /\ pc'[r] \in {"connect", "disconnect"} => j.op = pc'[r]
      /\ pc'[r] = "list" <=> j.op \in Rebuilds
      /\ pc'[r] = "check" <=> j.op \in Edits
      /\ pc' \in [Requests -> Places] /\ asked' \in [Requests -> Jobs]
      /\ \A q \in Requests : q # r => pc'[q] = pc[q] /\ asked'[q] = asked[q]
      /\ UNCHANGED <<tables, loader, llm, index, store, seen, loop>>
  BY IssueMoves
<1>2. RegistryTypeOK'
  <2>1. search' \in BOOLEAN BY DEF Issue, Registry, RegistryTypeOK
  <2>2. odd' \subseteq Servers \cup Skills \cup {"index"}
    BY JobTouches DEF Issue, Registry, RegistryTypeOK
  <2> QED BY <1>1, <2>1, <2>2 DEF Registry, RegistryTypeOK, tables, loader, store
<1>3. Where'
  <2>1. /\ loop # r /\ r \notin open /\ \A s \in Servers : clients[s] # r
        /\ open \subseteq Requests /\ loop \in Requests \cup {Nobody}
        /\ clients \in [Servers -> Requests \cup {Nobody}]
    BY <1>1 DEF Registry, RegistryTypeOK, Where, At, Nobody, Requests
  <2>2. UNCHANGED <<clients, loaded, open, loop>> BY <1>1 DEF loader
  <2>3. ASSUME NEW q \in Requests
        PROVE  /\ At(q, {"connect", "load", "listing"})' => asked'[q].op = "connect"
               /\ At(q, {"disconnect", "unregister"})' => asked'[q].op = "disconnect"
               /\ At(q, {"list", "clear", "fill"})' => asked'[q].op \notin Edits
               /\ At(q, {"check"})' => asked'[q].op \in Edits
               /\ At(q, {"cut", "write", "table"})' => asked'[q].op \in Saves
               /\ At(q, {"unlink", "remove"})' => asked'[q].op = "delete"
               /\ At(q, {"list", "clear", "fill"})' /\ IsMcp(q)' => loop' = q
    <3>1. CASE q = r
      BY <1>1, <3>1 DEF At, IsMcp, Rebuilds, Edits, Saves
    <3>2. CASE q # r
      BY <1>1, <2>2, <3>2 DEF At, IsMcp, Registry, Where
    <3> QED BY <3>1, <3>2
  <2>4. loop' # Nobody => At(loop, {"list", "clear", "fill"})' /\ IsMcp(loop)'
    BY <1>1, <2>1, <2>2 DEF At, IsMcp, Registry, Where
  <2>5. \A q \in open' : pc'[q] # "idle" /\ asked'[q].op = "connect"
    BY <1>1, <2>1, <2>2 DEF Registry, Where
  <2>6. \A s \in Servers :
            /\ loaded'[s] \subseteq {s} \X Names
            /\ clients'[s] # Nobody => /\ pc'[clients'[s]] # "idle"
                                       /\ asked'[clients'[s]].op = "connect"
                                       /\ asked'[clients'[s]].server = s
    BY <1>1, <2>1, <2>2 DEF Registry, Where
  <2> HIDE DEF At
  <2> QED BY <2>3, <2>4, <2>5, <2>6 DEF Where, Registry
<1> QED BY <1>2, <1>3 DEF Registry

\* So does the end of the console.
LEMMA RestartType ==
    ASSUME Registry, ConsoleRestart
    PROVE  Registry' /\ UnderWay' = {}
<1>1. pc' \in [Requests -> Places] /\ \A q \in Requests : pc'[q] \in Over
  BY DEF ConsoleRestart, Registry, RegistryTypeOK, UnderWay, Places, Over
<1>2. skill' \in [Skills -> Saved \cup {NoSkill}]
  BY LoadsType DEF ConsoleRestart, Registry, RegistryTypeOK
<1>3. RegistryTypeOK'
  BY <1>1, <1>2 DEF ConsoleRestart, Registry, RegistryTypeOK, Nobody
<1>4. Where'
  BY <1>1 DEF ConsoleRestart, Where, At, Over, Nobody
<1> QED BY <1>1, <1>3, <1>4 DEF Registry, UnderWay

LEMMA RegistryStepType == Registry /\ [RegistryNext]_registryVars => Registry'
<1> SUFFICES ASSUME Registry, [RegistryNext]_registryVars PROVE Registry' OBVIOUS
<1>1. ASSUME NEW r \in Requests, NEW j \in Jobs, Issue(r, j) PROVE Registry'
  BY <1>1, IssueType
<1>2. ASSUME NEW r \in Requests, Step(r) PROVE Registry'
  <2>1. RegistryTypeOK'
    BY <1>2, StepMoves, TablesType, SkillsType DEF Registry, RegistryTypeOK
  <2>2. asked' = asked BY <1>2, StepMoves
  <2>3. Where'
    BY <1>2, <2>2, RequestsPlaced, ClientsPlaced DEF Where, IsMcp
  <2> QED BY <2>1, <2>3 DEF Registry
<1>3. CASE ConsoleRestart BY <1>3, RestartType
<1>4. CASE UNCHANGED registryVars
  BY <1>4 DEF registryVars, tables, loader, views, store, requests, Registry, RegistryTypeOK,
              Where, At, IsMcp
<1> QED BY <1>1, <1>2, <1>3, <1>4 DEF RegistryNext

LEMMA RegistryAlways == RegistrySpec => []Registry
BY RegistryInitType, RegistryStepType, PTL DEF RegistrySpec

\* The variables have their types, and a tool in the tables has its MCP handler,
\* whatever requests interleave and fail.
THEOREM RegistryTypeCorrect == RegistrySpec => []RegistryTypeOK
<1>1. Registry => RegistryTypeOK BY DEF Registry
<1> QED BY <1>1, RegistryAlways, PTL

-----------------------------------------------------------------------------
(* Requests that share nothing.                                            *)

LEMMA RegistryInitAlone == RegistryInit => Alone
BY DEF RegistryInit, Alone, UnderWay, Over

LEMMA RegistryStepAlone ==
    Registry /\ Alone /\ [RegistryNext]_registryVars => Alone'
<1> SUFFICES ASSUME Registry, Alone, [RegistryNext]_registryVars PROVE Alone' OBVIOUS
<1>1. ASSUME NEW r \in Requests, NEW j \in Jobs, Issue(r, j) PROVE Alone'
  <2>1. /\ asked'[r] = j /\ odd \subseteq odd' /\ UnderWay' = UnderWay \cup {r} /\ r \notin UnderWay
        /\ \A q \in Requests : q # r => asked'[q] = asked[q]
    BY <1>1, IssueMoves
  <2>2. UnderWay \subseteq Requests BY DEF UnderWay
  <2>3. ASSUME NEW q \in UnderWay
        PROVE  /\ Touches(j) \cap Touches(asked[q]) \subseteq odd'
               /\ j.op \in Rebuilds \/ asked[q].op \in Rebuilds => "index" \in odd'
    BY <1>1 DEF Issue, Rebuilds
  <2>4. ASSUME NEW p \in UnderWay', NEW q \in UnderWay', p # q
        PROVE  /\ Touches(asked'[p]) \cap Touches(asked'[q]) \subseteq odd'
               /\ asked'[p].op \in Rebuilds => "index" \in odd'
    <3>1. CASE p = r BY <2>1, <2>2, <2>3, <2>4, <3>1
    <3>2. CASE q = r BY <2>1, <2>2, <2>3, <2>4, <3>2
    <3>3. CASE p # r /\ q # r
      <4>1. p \in UnderWay /\ q \in UnderWay /\ asked'[p] = asked[p] /\ asked'[q] = asked[q]
        BY <2>1, <2>2, <3>3
      <4> QED BY <4>1, <2>1, <2>4 DEF Alone
    <3> QED BY <3>1, <3>2, <3>3
  <2> QED BY <2>4 DEF Alone, Touches
<1>2. ASSUME NEW r \in Requests, Step(r) PROVE Alone'
  <2>1. asked' = asked /\ odd \subseteq odd' /\ UnderWay' \subseteq UnderWay BY <1>2, StepMoves
  <2> QED BY <2>1 DEF Alone, Touches
<1>3. CASE ConsoleRestart
  <2>1. UnderWay' = {} BY <1>3, RestartType
  <2> QED BY <2>1 DEF Alone
<1>4. CASE UNCHANGED registryVars
  BY <1>4 DEF registryVars, requests, Alone, UnderWay, Touches
<1> QED BY <1>1, <1>2, <1>3, <1>4 DEF RegistryNext

LEMMA AloneAlways == RegistrySpec => [](Registry /\ Alone)
BY RegistryInitType, RegistryInitAlone, RegistryStepType, RegistryStepAlone, PTL DEF RegistrySpec

\* What another request under way works on too is claimed for nothing.
LEMMA AloneOn ==
    ASSUME Registry, Alone, NEW q \in UnderWay, NEW r \in UnderWay, q # r,
           NEW x \in Touches(asked[q]), x \in Touches(asked[r])
    PROVE  x \in odd
BY DEF Alone
-----------------------------------------------------------------------------
(* Tables, clients and server processes.                                   *)

\* A server for which something is claimed has its tools in the tables, all of
\* them, a client that is there or none, and with none no tool, once the prefix
\* has been matched ...
Served(s) ==
    /\ loaded[s] \subseteq tools /\ clients[s] \in open \cup {Nobody}
    /\ clients[s] = Nobody =>
          \/ \A tool \in tools : tool[1] # s
          \/ \E r \in Requests : At(r, {"unregister"}) /\ asked[r].server = s

\* ... and a request for one has got as far as it is.
Handled(r) ==
    LET s == asked[r].server IN
    /\ At(r, {"load"}) => r \in open
    /\ At(r, {"listing"}) => clients[s] = r
    /\ At(r, {"unregister"}) => loaded[s] = {} /\ clients[s] = Nobody
    /\ r \in open => At(r, {"load"}) \/ clients[s] = r

Wired ==
    /\ \A s \in Servers \ odd : Served(s)
    /\ \A r \in Requests : IsMcp(r) /\ asked[r].server \notin odd => Handled(r)

LEMMA InitWired == RegistryInit => Wired
BY DEF RegistryInit, Wired, Served, Handled, At, Nobody

\* What leaves tables, clients and processes alone, and moves no request into or
\* out of the work on them.
LEMMA WiredStays ==
    ASSUME Wired, UNCHANGED <<tools, clients, loaded, open>>, odd \subseteq odd',
           \A q \in Requests :
              /\ pc'[q] \in {"load", "listing", "unregister"} => pc'[q] = pc[q] /\ asked'[q] = asked[q]
              /\ pc[q] \in {"load", "unregister"} => pc'[q] = pc[q] /\ asked'[q] = asked[q]
              /\ q \in open => asked'[q] = asked[q]
    PROVE  Wired'
<1>1. ASSUME NEW s \in Servers \ odd' PROVE Served(s)'
  <2>1. Served(s) BY <1>1 DEF Wired
  <2> QED BY <2>1 DEF Served, At
<1>2. ASSUME NEW r \in Requests, IsMcp(r)', asked'[r].server \notin odd' PROVE Handled(r)'
  <2>1. CASE asked'[r] = asked[r]
    <3>1. Handled(r) BY <1>2, <2>1 DEF Wired, IsMcp
    <3> QED BY <2>1, <3>1 DEF Handled, At
  <2>2. CASE asked'[r] # asked[r] BY <2>2 DEF Handled, At
  <2> QED BY <2>1, <2>2
<1> QED BY <1>1, <1>2 DEF Wired

\* Two requests at work on one server are claimed for nothing.
LEMMA NoOther ==
    ASSUME Registry, Alone, NEW r \in Requests, NEW q \in Requests, q # r,
           At(r, {"connect", "load", "listing", "disconnect", "unregister"}),
           At(q, {"connect", "load", "listing", "disconnect", "unregister"}),
           asked[q].server = asked[r].server
    PROVE  asked[r].server \in odd
<1>1. q \in UnderWay /\ r \in UnderWay BY DEF At, UnderWay, Over
<1>2. Touches(asked[q]) = {asked[r].server} /\ Touches(asked[r]) = {asked[r].server}
  BY AskedDoes
<1> QED BY <1>1, <1>2, AloneOn

\* The types the steps on the tables need.
LEMMA ServedTypes ==
    ASSUME Registry, NEW r \in Requests,
           At(r, {"connect", "load", "listing", "disconnect", "unregister"})
    PROVE  /\ asked[r].server \in Servers /\ IsMcp(r)
           /\ pc \in [Requests -> Places] /\ Nobody \notin Requests
           /\ clients \in [Servers -> Requests \cup {Nobody}]
           /\ loaded \in [Servers -> SUBSET McpTools] /\ open \subseteq Requests
           /\ \A s \in Servers : /\ loaded[s] \subseteq {s} \X Names
                                 /\ clients[s] # Nobody => asked[clients[s]].server = s
           /\ \A q \in open : IsMcp(q)
           /\ \A q \in Requests : At(q, {"load", "listing", "unregister"}) => IsMcp(q)
BY AskedDoes DEF Registry, RegistryTypeOK, Where, Nobody, Requests, IsMcp, At

LEMMA ConnectWired ==
    ASSUME Registry, Alone, Wired, NEW r \in Requests, Connect(r)
    PROVE  Wired'
<1>1. At(r, {"connect"}) BY DEF Connect, At
<1>2. /\ asked' = asked /\ odd \subseteq odd' /\ \A q \in Requests : q # r => pc'[q] = pc[q]
      /\ pc'[r] \in {"load", "failed"} /\ (pc'[r] = "load" => r \in open')
      /\ open' \in {open, open \cup {r}} /\ UNCHANGED <<tools, clients, loaded>>
      /\ pc'[r] = "failed" /\ r \in open' => asked[r].server \in odd'
  <2>1. pc \in [Requests -> Places] BY DEF Registry, RegistryTypeOK
  <2> QED BY <2>1 DEF Connect, Go, tables
<1>3. ASSUME NEW s \in Servers \ odd' PROVE Served(s)'
  <2>1. Served(s) BY <1>2, <1>3 DEF Wired
  <2>2. \A q \in Requests : At(q, {"unregister"}) => At(q, {"unregister"})'
    BY <1>1, <1>2 DEF At
  <2> QED BY <1>2, <2>1, <2>2 DEF Served
<1>4. ASSUME NEW q \in Requests, IsMcp(q)', asked'[q].server \notin odd' PROVE Handled(q)'
  <2>1. Handled(q) BY <1>2, <1>4 DEF Wired, IsMcp
  <2>2. CASE q = r BY <1>1, <1>2, <1>4, <2>1, <2>2 DEF Handled, At
  <2>3. CASE q # r BY <1>2, <2>1, <2>3 DEF Handled, At
  <2> QED BY <2>2, <2>3
<1> QED BY <1>3, <1>4 DEF Wired

LEMMA LoadWired ==
    ASSUME Registry, Alone, Wired, NEW r \in Requests, Load(r)
    PROVE  Wired'
<1> DEFINE s == asked[r].server
<1>1. At(r, {"load"}) BY DEF Load, At
<1>2. /\ s \in Servers /\ IsMcp(r) /\ pc \in [Requests -> Places] /\ Nobody \notin Requests
      /\ clients \in [Servers -> Requests \cup {Nobody}]
      /\ \A q \in open : IsMcp(q)
      /\ open \subseteq Requests
  BY <1>1, ServedTypes DEF At
<1>3. /\ asked' = asked /\ odd \subseteq odd' /\ \A q \in Requests : q # r => pc'[q] = pc[q]
      /\ pc'[r] = "listing" /\ UNCHANGED <<tools, loaded, open>>
      /\ clients[s] \in open => s \in odd'
      /\ clients'[s] = r /\ \A t \in Servers : t # s => clients'[t] = clients[t]
  BY <1>2 DEF Load, Go, tables
<1>4. s \notin odd' => r \in open /\ \A q \in open : asked[q].server = s => q = r
  <2> SUFFICES ASSUME s \notin odd' PROVE r \in open /\ \A q \in open : asked[q].server = s => q = r
    OBVIOUS
  <2>1. r \in open BY <1>1, <1>2, <1>3 DEF Wired, Handled
  <2>2. ASSUME NEW q \in open, asked[q].server = s, q # r PROVE FALSE
    <3>1. Handled(q) BY <1>2, <1>3, <2>2 DEF Wired
    <3>2. clients[s] # q BY <1>3, <2>2
    <3>3. At(q, {"load"}) BY <2>2, <3>1, <3>2 DEF Handled
    <3> QED BY <1>1, <1>2, <1>3, <2>2, <3>3, NoOther DEF At
  <2> QED BY <2>1, <2>2
<1> HIDE DEF s
<1>5. ASSUME NEW t \in Servers \ odd' PROVE Served(t)'
  <2>1. Served(t) BY <1>3, <1>5 DEF Wired
  <2>2. \A q \in Requests : At(q, {"unregister"}) => At(q, {"unregister"})'
    BY <1>1, <1>3 DEF At
  <2>3. CASE t = s BY <1>2, <1>3, <1>4, <1>5, <2>1, <2>3 DEF Served
  <2>4. CASE t # s BY <1>3, <2>1, <2>2, <2>4 DEF Served
  <2> QED BY <2>3, <2>4
<1>6. ASSUME NEW q \in Requests, IsMcp(q)', asked'[q].server \notin odd' PROVE Handled(q)'
  <2> DEFINE t == asked[q].server
  <2>1. Handled(q) /\ t \in Servers /\ t \notin odd'
    <3>1. asked[q] \in Jobs /\ IsMcp(q) BY <1>3, <1>6, AskedDoes DEF IsMcp
    <3> QED BY <1>3, <1>6, <3>1, JobFields DEF Wired, IsMcp
  <2>2. CASE q = r BY <1>3, <2>2 DEF Handled, At, s
  <2>3. CASE q # r /\ t = s
    <3>1. ~At(q, {"load", "listing", "unregister"})
      BY <1>1, <1>3, <2>1, <2>3, NoOther DEF At, s
    <3>2. q \notin open BY <1>4, <2>1, <2>3
    <3> QED BY <1>3, <2>3, <3>1, <3>2 DEF Handled, At
  <2>4. CASE q # r /\ t # s
    <3>1. clients'[t] = clients[t] BY <1>3, <2>1, <2>4
    <3> QED BY <1>3, <2>1, <2>4, <3>1 DEF Handled, At
  <2> QED BY <2>2, <2>3, <2>4
<1> QED BY <1>5, <1>6 DEF Wired

LEMMA RegisterWired ==
    ASSUME Registry, Alone, Wired, NEW r \in Requests, NEW offered \in SUBSET Names,
           Register(r, offered)
    PROVE  Wired'
<1> DEFINE s == asked[r].server
           new == {s} \X offered
<1>1. At(r, {"listing"}) BY DEF Register, At
<1>2. /\ s \in Servers /\ IsMcp(r) /\ pc \in [Requests -> Places] /\ Nobody \notin Requests
      /\ loaded \in [Servers -> SUBSET McpTools]
  BY <1>1, ServedTypes DEF At
<1>3. /\ asked' = asked /\ odd' = odd /\ \A q \in Requests : q # r => pc'[q] = pc[q]
      /\ pc'[r] = "list" /\ UNCHANGED <<clients, open>> /\ tools' = tools \cup new
      /\ loaded'[s] = new /\ \A t \in Servers : t # s => loaded'[t] = loaded[t]
  BY <1>2 DEF Register, Go
<1>4. \A tool \in new : tool[1] = s OBVIOUS
<1>5. s \notin odd => clients[s] = r BY <1>1, <1>2 DEF Wired, Handled
<1> HIDE DEF s, new
<1>6. ASSUME NEW t \in Servers \ odd' PROVE Served(t)'
  <2>1. Served(t) BY <1>3, <1>6 DEF Wired
  <2>2. \A q \in Requests : At(q, {"unregister"}) => At(q, {"unregister"})'
    BY <1>1, <1>3 DEF At
  <2>3. CASE t = s BY <1>2, <1>3, <1>5, <1>6, <2>1, <2>3 DEF Served
  <2>4. CASE t # s BY <1>3, <1>4, <2>1, <2>2, <2>4 DEF Served
  <2> QED BY <2>3, <2>4
<1>7. ASSUME NEW q \in Requests, IsMcp(q)', asked'[q].server \notin odd' PROVE Handled(q)'
  <2> DEFINE t == asked[q].server
  <2>1. Handled(q) /\ t \in Servers /\ t \notin odd
    <3>1. asked[q] \in Jobs /\ IsMcp(q) BY <1>3, <1>7, AskedDoes DEF IsMcp
    <3> QED BY <1>3, <1>7, <3>1, JobFields DEF Wired, IsMcp
  <2>2. CASE q = r BY <1>1, <1>3, <1>5, <2>1, <2>2 DEF Handled, At, s
  <2>3. CASE q # r /\ t = s
    <3>1. ~At(q, {"load", "listing", "unregister"})
      BY <1>1, <1>3, <2>1, <2>3, NoOther DEF At, s
    <3> QED BY <1>3, <2>1, <2>3, <3>1 DEF Handled, At
  <2>4. CASE q # r /\ t # s
    <3>1. loaded'[t] = loaded[t] BY <1>3, <2>1, <2>4
    <3> QED BY <1>3, <2>1, <2>4, <3>1 DEF Handled, At
  <2> QED BY <2>2, <2>3, <2>4
<1> QED BY <1>6, <1>7 DEF Wired

LEMMA UnloadWired ==
    ASSUME Registry, Alone, Wired, NEW r \in Requests, Unload(r)
    PROVE  Wired'
<1> DEFINE s == asked[r].server
           gone == clients[s]
           dropped == loaded[s]
<1>1. At(r, {"disconnect"}) BY DEF Unload, At
<1>2. /\ s \in Servers /\ IsMcp(r) /\ pc \in [Requests -> Places] /\ Nobody \notin Requests
      /\ clients \in [Servers -> Requests \cup {Nobody}]
      /\ loaded \in [Servers -> SUBSET McpTools] /\ open \subseteq Requests
      /\ \A t \in Servers : /\ loaded[t] \subseteq {t} \X Names
                            /\ clients[t] # Nobody => asked[clients[t]].server = t
  BY <1>1, ServedTypes DEF At
<1>3. /\ asked' = asked /\ odd' = odd /\ \A q \in Requests : q # r => pc'[q] = pc[q]
      /\ pc'[r] = "unregister" /\ open' = open \ {gone} /\ tools' = tools \ dropped
      /\ loaded'[s] = {} /\ \A t \in Servers : t # s => loaded'[t] = loaded[t]
      /\ clients'[s] = Nobody /\ \A t \in Servers : t # s => clients'[t] = clients[t]
  BY <1>2 DEF Unload, Go
<1>4. gone # Nobody => asked[gone].server = s BY <1>2
<1>5. \A tool \in dropped : tool[1] = s BY <1>2
<1>6. \A t \in Servers : t # s => (loaded[t] \cap dropped = {} /\ (clients[t] # Nobody => clients[t] # gone))
  BY <1>2, <1>4, <1>5
<1> HIDE DEF s, gone, dropped
<1>7. ASSUME NEW t \in Servers \ odd' PROVE Served(t)'
  <2>1. Served(t) BY <1>3, <1>7 DEF Wired
  <2>2. \A q \in Requests : At(q, {"unregister"}) => At(q, {"unregister"})'
    BY <1>1, <1>3 DEF At
  <2>3. CASE t = s
    <3>1. At(r, {"unregister"})' /\ asked'[r].server = t BY <1>3, <2>3 DEF At, s
    <3> QED BY <1>3, <2>3, <3>1 DEF Served
  <2>4. CASE t # s
    <3>1. loaded[t] \cap dropped = {} /\ (clients[t] # Nobody => clients[t] # gone)
      BY <1>6, <1>7, <2>4
    <3>2. clients'[t] = clients[t] /\ loaded'[t] = loaded[t] BY <1>3, <1>7, <2>4
    <3> QED BY <1>2, <1>3, <2>1, <2>2, <3>1, <3>2 DEF Served
  <2> QED BY <2>3, <2>4
<1>8. ASSUME NEW q \in Requests, IsMcp(q)', asked'[q].server \notin odd' PROVE Handled(q)'
  <2> DEFINE t == asked[q].server
  <2>1. Handled(q) /\ t \in Servers /\ t \notin odd
    <3>1. asked[q] \in Jobs /\ IsMcp(q) BY <1>3, <1>8, AskedDoes DEF IsMcp
    <3> QED BY <1>3, <1>8, <3>1, JobFields DEF Wired, IsMcp
  <2>2. q # r /\ t = s => ~At(q, {"load", "listing", "unregister"})
    BY <1>1, <2>1, NoOther DEF At, s
  <2>3. CASE q # r /\ t = s
    <3>1. q \in open => q = gone BY <2>1, <2>2, <2>3 DEF Handled, At, gone
    <3> QED BY <1>3, <2>2, <2>3, <3>1 DEF Handled, At
  <2>4. CASE q = r
    <3>1. q \in open => q = gone BY <1>1, <2>1, <2>4 DEF Handled, At, gone, s
    <3> QED BY <1>3, <2>4, <3>1 DEF Handled, At, s
  <2>5. CASE q # r /\ t # s
    <3>1. loaded'[t] = loaded[t] /\ clients'[t] = clients[t] BY <1>3, <2>1, <2>5
    <3>2. q # gone BY <1>2, <1>4, <2>5
    <3> QED BY <1>3, <2>1, <2>5, <3>1, <3>2 DEF Handled, At
  <2> QED BY <2>3, <2>4, <2>5
<1> QED BY <1>7, <1>8 DEF Wired

LEMMA UnregisterWired ==
    ASSUME Registry, Alone, Wired, NEW r \in Requests, UnregisterMcp(r)
    PROVE  Wired'
<1> DEFINE s == asked[r].server
<1>1. At(r, {"unregister"}) BY DEF UnregisterMcp, At
<1>2. /\ s \in Servers /\ IsMcp(r) /\ pc \in [Requests -> Places]
      /\ \A t \in Servers : loaded[t] \subseteq {t} \X Names
  BY <1>1, ServedTypes DEF At
<1>3. /\ asked' = asked /\ odd \subseteq odd' /\ \A q \in Requests : q # r => pc'[q] = pc[q]
      /\ pc'[r] = "list" /\ UNCHANGED <<clients, loaded, open>>
  BY <1>2 DEF UnregisterMcp, Go, loader
<1>4. tools' \subseteq tools /\ \A tool \in tools' : tool[1] # s
  BY DEF UnregisterMcp, Matching
<1>5. \A t \in Servers \ odd' : t # s => \A tool \in tools : tool[1] = t => tool \in tools'
  BY DEF UnregisterMcp, Matching
<1>6. s \notin odd => loaded[s] = {} /\ clients[s] = Nobody
  BY <1>1, <1>2 DEF Wired, Handled
<1> HIDE DEF s
<1>7. ASSUME NEW t \in Servers \ odd' PROVE Served(t)'
  <2>1. Served(t) BY <1>3, <1>7 DEF Wired
  <2>2. CASE t = s BY <1>3, <1>4, <1>6, <1>7, <2>1, <2>2 DEF Served
  <2>3. CASE t # s
    <3>1. \A tool \in loaded[t] : tool[1] = t BY <1>2
    <3>2. loaded[t] \subseteq tools' BY <1>5, <1>7, <2>1, <2>3, <3>1 DEF Served
    <3>3. \A q \in Requests : At(q, {"unregister"}) /\ asked[q].server = t => At(q, {"unregister"})'
      BY <1>1, <1>3, <2>3 DEF At, s
    <3> QED BY <1>3, <1>4, <2>1, <3>2, <3>3 DEF Served
  <2> QED BY <2>2, <2>3
<1>8. ASSUME NEW q \in Requests, IsMcp(q)', asked'[q].server \notin odd' PROVE Handled(q)'
  <2>1. Handled(q) BY <1>3, <1>8 DEF Wired, IsMcp
  <2>2. CASE q = r BY <1>1, <1>3, <2>1, <2>2 DEF Handled, At
  <2>3. CASE q # r BY <1>3, <2>1, <2>3 DEF Handled, At
  <2> QED BY <2>2, <2>3
<1> QED BY <1>7, <1>8 DEF Wired

LEMMA StepWired == Registry /\ Alone /\ Wired /\ [RegistryNext]_registryVars => Wired'
<1> SUFFICES ASSUME Registry, Alone, Wired, [RegistryNext]_registryVars PROVE Wired' OBVIOUS
<1>1. ASSUME NEW r \in Requests, NEW j \in Jobs, Issue(r, j) PROVE Wired'
  <2>1. r \notin open BY <1>1, IssueMoves DEF Registry, Where
  <2> QED BY <1>1, <2>1, IssueMoves, WiredStays DEF tables, loader
<1>2. ASSUME NEW r \in Requests, Step(r) PROVE Wired'
  <2>1. CASE Connect(r) BY <2>1, ConnectWired
  <2>2. CASE Load(r) BY <2>2, LoadWired
  <2>3. CASE \E offered \in SUBSET Names : Register(r, offered) BY <2>3, RegisterWired
  <2>4. CASE Unload(r) BY <2>4, UnloadWired
  <2>5. CASE UnregisterMcp(r) BY <2>5, UnregisterWired
  <2>6. CASE ListFails(r) \/ Refresh(r) \/ Check(r) \/ Cut(r) \/ Write(r) \/ Table(r)
                \/ Unlink(r) \/ Remove(r)
    <3>1. /\ asked' = asked /\ odd \subseteq odd' /\ pc' \in [Requests -> Places]
          /\ \A q \in Requests : q # r => pc'[q] = pc[q]
      BY <1>2, StepMoves
    <3>2. UNCHANGED <<tools, clients, loaded, open>>
      BY <2>6 DEF ListFails, Refresh, List, Clear, Fill, Check, Cut, Write, Table, Unlink, Remove,
                  tables, loader
    <3>3. pc[r] \notin {"load", "unregister"}
      BY <2>6 DEF ListFails, Refresh, List, Clear, Fill, Check, Cut, Write, Table, Unlink, Remove
    <3>4. pc'[r] \notin {"load", "listing", "unregister"}
      <4>1. pc \in [Requests -> Places] BY DEF Registry, RegistryTypeOK
      <4>2. CASE Check(r)
        <5>1. asked[r].op \in Edits BY <4>2 DEF Check, Registry, Where, At
        <5> QED BY <4>1, <4>2, <5>1 DEF Check, Go, Edits, Saves
      <4> QED
        BY <2>6, <4>1, <4>2
           DEF ListFails, Refresh, List, Clear, Fill, Cut, Write, Table, Unlink, Remove, Go
    <3> QED BY <3>1, <3>2, <3>3, <3>4, WiredStays
  <2> QED BY <1>2, <2>1, <2>2, <2>3, <2>4, <2>5, <2>6 DEF Step
<1>3. CASE ConsoleRestart
  <2>1. \A r \in Requests : pc'[r] \in Over
    BY <1>3 DEF ConsoleRestart, UnderWay, Over
  <2> QED BY <1>3, <2>1 DEF ConsoleRestart, Wired, Served, Handled, At, Over, Nobody
<1>4. CASE UNCHANGED registryVars
  BY <1>4, WiredStays DEF registryVars, tables, loader, requests
<1> QED BY <1>1, <1>2, <1>3, <1>4 DEF RegistryNext

\* A tool of a server is in the tables only while there is a client to call it
\* with, the tools of a connected server are all there, and no server process is
\* left behind: whatever is connected, reconnected and disconnected before, for
\* a server that no two requests worked on at once.
THEOREM ToolsWired == RegistrySpec => []ToolsAndClients
<1>1. Registry /\ Wired => ToolsMatchClients
  <2> SUFFICES ASSUME Registry, Wired, NEW s \in Servers, Quiet(s)
               PROVE  /\ clients[s] = Nobody => \A tool \in tools : tool[1] # s
                      /\ loaded[s] \subseteq tools
                      /\ clients[s] \in open \cup {Nobody}
    BY DEF ToolsMatchClients
  <2>1. Served(s) BY DEF Wired, Quiet
  <2>2. ASSUME NEW r \in Requests, At(r, {"unregister"}), asked[r].server = s PROVE FALSE
    <3>1. r \in UnderWay BY <2>2 DEF At, UnderWay, Over
    <3>2. s \in Touches(asked[r]) BY <2>2, AskedDoes DEF At
    <3> QED BY <3>1, <3>2 DEF Quiet
  <2> QED BY <2>1, <2>2 DEF Served
<1>2. Registry /\ Wired => NoStrayClient
  <2> SUFFICES ASSUME Registry, Wired, NEW r \in open, asked[r].server \notin odd
               PROVE  r \in UnderWay \/ clients[asked[r].server] = r
    BY DEF NoStrayClient
  <2>1. r \in Requests /\ IsMcp(r) BY DEF Registry, RegistryTypeOK, Where, IsMcp
  <2>2. Handled(r) BY <2>1 DEF Wired
  <2> QED BY <2>1, <2>2 DEF Handled, At, UnderWay, Over
<1>3. RegistrySpec => []Wired
  BY InitWired, StepWired, AloneAlways, PTL DEF RegistrySpec
<1> QED BY <1>1, <1>2, <1>3, RegistryAlways, PTL DEF ToolsAndClients

-----------------------------------------------------------------------------
(* The list for the model and the index.                                   *)

Current == IF search THEN index = tools ELSE llm = tools

\* Unless a rebuild met another request, the list is current or a request is on
\* the way to make it so, and the index being built will hold the tools there are.
Viewed ==
    "index" \notin odd =>
        /\ Current \/ \E r \in Requests : At(r, {"unregister", "list", "clear", "fill"})
        /\ \A r \in Requests : /\ At(r, {"clear", "fill"}) => search
                               /\ At(r, {"fill"}) => index = {} /\ seen[r] = tools

LEMMA InitViewed == RegistryInit => Viewed
BY DEF RegistryInit, Viewed, Current, At

\* A request that refreshes the list beside another one holds the loop.
LEMMA OneRefresh ==
    ASSUME Registry, Alone, "index" \notin odd, NEW q \in Requests, NEW r \in Requests, q # r,
           At(q, {"clear", "fill"}), pc[r] \notin Over
    PROVE  loop = q /\ asked[r].op \notin Rebuilds
<1>1. q \in UnderWay /\ r \in UnderWay BY DEF At, UnderWay, Over
<1>2. asked[q].op \notin Rebuilds /\ asked[r].op \notin Rebuilds BY <1>1 DEF Alone
<1>3. IsMcp(q)
  <2>1. asked[q].op \notin Edits /\ asked[q] \in Jobs
    BY DEF Registry, RegistryTypeOK, Where, At
  <2> QED BY <1>2, <2>1, JobFields DEF IsMcp
<1>4. loop = q BY <1>3 DEF Registry, Where, At
<1> QED BY <1>2, <1>4

\* What leaves the tables and what was made of them alone, and takes no request
\* out of the refresh or into building the index.
LEMMA ViewedStays ==
    ASSUME Viewed, UNCHANGED <<tools, search, llm, index, seen>>, odd \subseteq odd',
           \A q \in Requests :
              /\ pc[q] \in {"unregister", "list", "clear", "fill"} => pc'[q] = pc[q]
              /\ pc'[q] \in {"clear", "fill"} => pc'[q] = pc[q]
    PROVE  Viewed'
<1> SUFFICES ASSUME "index" \notin odd'
             PROVE  /\ Current' \/ \E q \in Requests : At(q, {"unregister", "list", "clear", "fill"})'
                    /\ \A q \in Requests : /\ At(q, {"clear", "fill"})' => search'
                                           /\ At(q, {"fill"})' => index' = {} /\ seen'[q] = tools'
  BY DEF Viewed, At
<1> QED BY DEF Viewed, Current, At

\* A coroutine that changes the tables does so while nobody builds the index.
LEMMA ChangeViewed ==
    ASSUME Registry, Alone, Viewed, NEW r \in Requests,
           (\E offered \in SUBSET Names : Register(r, offered)) \/ Unload(r) \/ UnregisterMcp(r)
    PROVE  Viewed'
<1>1. /\ pc[r] \notin Over /\ loop = Nobody /\ pc \in [Requests -> Places]
      /\ pc'[r] \in {"unregister", "list"} /\ \A q \in Requests : q # r => pc'[q] = pc[q]
      /\ odd \subseteq odd'
  <2>1. pc \in [Requests -> Places] BY DEF Registry, RegistryTypeOK
  <2> QED BY <2>1 DEF Register, Unload, UnregisterMcp, Go, Over
<1>2. "index" \notin odd => \A q \in Requests : q # r => ~At(q, {"clear", "fill"})
  BY <1>1, OneRefresh DEF Nobody, Requests
<1> QED BY <1>1, <1>2 DEF Viewed, At

LEMMA RefreshViewed ==
    ASSUME Registry, Alone, Viewed, NEW r \in Requests, Refresh(r)
    PROVE  Viewed'
<1> SUFFICES ASSUME "index" \notin odd'
             PROVE  /\ Current' \/ \E q \in Requests : At(q, {"unregister", "list", "clear", "fill"})'
                    /\ \A q \in Requests : /\ At(q, {"clear", "fill"})' => search'
                                           /\ At(q, {"fill"})' => index' = {} /\ seen'[q] = tools'
  BY DEF Viewed, At
<1>1. /\ asked' = asked /\ odd' = odd /\ UNCHANGED <<tools, search>>
      /\ \A q \in Requests : q # r => pc'[q] = pc[q]
      /\ pc \in [Requests -> Places] /\ seen \in [Requests -> SUBSET McpTools]
      /\ pc[r] \in {"list", "clear", "fill"}
  <2>1. /\ pc \in [Requests -> Places] /\ seen \in [Requests -> SUBSET McpTools]
    BY DEF Registry, RegistryTypeOK
  <2>2. odd' = odd /\ UNCHANGED <<tools, search>> /\ pc[r] \in {"list", "clear", "fill"}
    BY DEF Refresh, List, Clear, Fill, tables
  <2> QED BY <2>1, <2>2, StepMoves DEF Step
<1>2. /\ \A q \in Requests : /\ At(q, {"clear", "fill"}) => search
                             /\ At(q, {"fill"}) => index = {} /\ seen[q] = tools
      /\ Current \/ \E q \in Requests : At(q, {"unregister", "list", "clear", "fill"})
  BY <1>1 DEF Viewed
<1>3. ASSUME NEW q \in Requests, q # r PROVE ~At(q, {"clear", "fill"})
  <2> SUFFICES ASSUME At(q, {"clear", "fill"}) PROVE FALSE OBVIOUS
  <2>1. loop = q /\ asked[r].op \notin Rebuilds
    BY <1>1, <1>3, OneRefresh DEF Over
  <2>2. asked[r].op \notin Edits /\ asked[r] \in Jobs
    BY <1>1 DEF Registry, RegistryTypeOK, Where, At
  <2>3. IsMcp(r) BY <2>1, <2>2, JobFields DEF IsMcp
  <2>4. CASE List(r) BY <1>3, <2>1, <2>3, <2>4 DEF List, Free, Nobody, Requests
  <2>5. CASE pc[r] \in {"clear", "fill"}
    <3>1. loop = r BY <2>3, <2>5 DEF Registry, Where, At
    <3> QED BY <1>3, <2>1, <3>1
  <2> QED BY <2>4, <2>5 DEF Refresh, Clear, Fill
<1>4. \A q \in Requests : q # r => ~At(q, {"clear", "fill"})' BY <1>1, <1>3 DEF At
<1>5. CASE List(r) /\ search
  <2>1. pc'[r] = "clear" BY <1>1, <1>5 DEF List, Go
  <2> QED BY <1>1, <1>4, <1>5, <2>1 DEF At
<1>6. CASE List(r) /\ ~search
  <2>1. pc'[r] = "ok" /\ llm' = tools' BY <1>1, <1>6 DEF List, Go
  <2> QED BY <1>1, <1>4, <1>6, <2>1 DEF At, Current
<1>7. CASE Clear(r)
  <2>1. pc'[r] = "fill" /\ index' = {} /\ seen'[r] = tools' /\ search'
    BY <1>1, <1>2, <1>7 DEF Clear, Go, At
  <2> QED BY <1>4, <2>1 DEF At
<1>8. CASE Fill(r)
  <2>1. pc'[r] = "ok" /\ index' = tools' /\ search'
    BY <1>1, <1>2, <1>8 DEF Fill, Go, At
  <2> QED BY <1>4, <2>1 DEF At, Current
<1> QED BY <1>5, <1>6, <1>7, <1>8 DEF Refresh

LEMMA StepViewed == Registry /\ Alone /\ Viewed /\ [RegistryNext]_registryVars => Viewed'
<1> SUFFICES ASSUME Registry, Alone, Viewed, [RegistryNext]_registryVars PROVE Viewed' OBVIOUS
<1>1. ASSUME NEW r \in Requests, NEW j \in Jobs, Issue(r, j) PROVE Viewed'
  <2>1. /\ pc[r] = "idle" /\ pc'[r] \in {"connect", "disconnect", "list", "check"} /\ odd \subseteq odd'
        /\ \A q \in Requests : q # r => pc'[q] = pc[q]
        /\ UNCHANGED <<tables, loader, llm, index, store, seen, loop>>
    BY <1>1, IssueMoves
  <2>2. CASE search' = search BY <2>1, <2>2, ViewedStays DEF tables
  <2>3. CASE search' # search
    <3>1. pc'[r] = "list" /\ j.op \in Rebuilds BY <1>1, <2>3, IssueMoves
    <3>2. "index" \notin odd' => UnderWay = {} BY <1>1, <3>1 DEF Issue, Rebuilds
    <3>3. "index" \notin odd' => \A q \in Requests : q # r => ~At(q, {"clear", "fill"})'
      BY <2>1, <3>2 DEF UnderWay, Over, At
    <3> QED BY <3>1, <3>3 DEF Viewed, At
  <2> QED BY <2>2, <2>3
<1>2. ASSUME NEW r \in Requests, Step(r) PROVE Viewed'
  <2>1. CASE (\E offered \in SUBSET Names : Register(r, offered)) \/ Unload(r) \/ UnregisterMcp(r)
    BY <2>1, ChangeViewed
  <2>2. CASE Refresh(r) BY <2>2, RefreshViewed
  <2>3. CASE Connect(r) \/ Load(r) \/ ListFails(r) \/ Check(r) \/ Cut(r) \/ Write(r) \/ Table(r)
                \/ Unlink(r) \/ Remove(r)
    <3>1. odd \subseteq odd' /\ \A q \in Requests : q # r => pc'[q] = pc[q]
      BY <1>2, StepMoves
    <3>2. UNCHANGED <<tools, search, llm, index, seen>>
      BY <2>3 DEF Connect, Load, ListFails, Check, Cut, Write, Table, Unlink, Remove, tables, views
    <3>3. pc[r] \notin {"unregister", "list", "clear", "fill"}
      BY <2>3 DEF Connect, Load, ListFails, Check, Cut, Write, Table, Unlink, Remove
    <3>4. pc'[r] \notin {"clear", "fill"}
      <4>1. pc \in [Requests -> Places] BY DEF Registry, RegistryTypeOK
      <4>2. CASE Check(r)
        <5>1. asked[r].op \in Edits BY <4>2 DEF Check, Registry, Where, At
        <5> QED BY <4>1, <4>2, <5>1 DEF Check, Go, Edits, Saves
      <4> QED
        BY <2>3, <4>1, <4>2 DEF Connect, Load, ListFails, Cut, Write, Table, Unlink, Remove, Go
    <3> QED BY <3>1, <3>2, <3>3, <3>4, ViewedStays
  <2> QED BY <1>2, <2>1, <2>2, <2>3 DEF Step
<1>3. CASE ConsoleRestart
  <2>1. \A r \in Requests : pc'[r] \in Over
    BY <1>3 DEF ConsoleRestart, UnderWay, Over
  <2> QED BY <1>3, <2>1 DEF ConsoleRestart, Viewed, Current, At, Over
<1>4. CASE UNCHANGED registryVars
  BY <1>4, ViewedStays DEF registryVars, tables, views, requests
<1> QED BY <1>1, <1>2, <1>3, <1>4 DEF RegistryNext

\* Between requests, what the model is offered, and what its search finds, are
\* the tools there are, unless a rebuild met another request.
THEOREM ListCurrent == RegistrySpec => []ViewsCurrent
<1>1. Viewed => ViewsCurrent
  <2> SUFFICES ASSUME Viewed, UnderWay = {}, "index" \notin odd PROVE Current
    BY DEF ViewsCurrent, Current
  <2>1. \A r \in Requests : pc[r] \in Over BY DEF UnderWay
  <2> QED BY <2>1 DEF Viewed, At, Over
<1>2. RegistrySpec => []Viewed
  BY InitViewed, StepViewed, AloneAlways, PTL DEF RegistrySpec
<1> QED BY <1>1, <1>2, PTL
-----------------------------------------------------------------------------
(* Skills and their files.                                                 *)

\* A skill for which something is claimed is in the tables as its file says, or
\* a request is between the file and the tables ...
Agrees(k) ==
    \/ skill[k] = Loads(file[k])
    \/ \E r \in Requests : At(r, {"write", "table", "remove"}) /\ Target(asked[r]) = k

\* ... and then the file is as that request left it.
FileDone(r) ==
    Target(asked[r]) \notin odd =>
        /\ At(r, {"table"}) =>
              file[Target(asked[r])] = [triggers |-> asked[r].triggers, by |-> r]
        /\ At(r, {"remove"}) => file[Target(asked[r])] = NoSkill

Filed == (\A k \in Skills \ odd : Agrees(k)) /\ \A r \in Requests : FileDone(r)

LEMMA InitFiled == RegistryInit => Filed
BY DEF RegistryInit, Filed, Agrees, FileDone, At

LEMMA FiledStays ==
    ASSUME Filed, UNCHANGED <<skill, file>>, odd \subseteq odd',
           \A q \in Requests :
              /\ pc[q] \in {"write", "table", "remove"} => pc'[q] = pc[q] /\ asked'[q] = asked[q]
              /\ pc'[q] \in {"table", "remove"} => pc'[q] = pc[q] /\ asked'[q] = asked[q]
    PROVE  Filed'
<1>1. ASSUME NEW k \in Skills \ odd' PROVE Agrees(k)'
  <2>1. Agrees(k) BY <1>1 DEF Filed
  <2> QED BY <2>1 DEF Agrees, At, Target
<1>2. ASSUME NEW q \in Requests PROVE FileDone(q)'
  <2>1. CASE pc'[q] \in {"table", "remove"}
    <3>1. FileDone(q) BY DEF Filed
    <3> QED BY <2>1, <3>1 DEF FileDone, At, Target
  <2>2. CASE pc'[q] \notin {"table", "remove"} BY <2>2 DEF FileDone, At
  <2> QED BY <2>1, <2>2
<1> QED BY <1>1, <1>2 DEF Filed

\* The skill whose file a request writes or removes is nobody else's.
LEMMA OneWriter ==
    ASSUME Registry, Alone, NEW r \in Requests, NEW q \in Requests, q # r,
           At(r, {"cut", "write", "table", "unlink", "remove"}),
           At(q, {"cut", "write", "table", "unlink", "remove"}),
           Target(asked[q]) = Target(asked[r])
    PROVE  Target(asked[r]) \in odd
<1>1. q \in UnderWay /\ r \in UnderWay BY DEF At, UnderWay, Over
<1>2. /\ Target(asked[q]) \in Touches(asked[q]) /\ Target(asked[r]) \in Touches(asked[r])
  BY AskedDoes, JobTouches
<1> QED BY <1>1, <1>2, AloneOn

\* What a step of r on the file of its skill needs to keep: only this file
\* changes, r says what the tables are to hold, and others are as they were.
LEMMA FileStep ==
    ASSUME Registry, Alone, Filed, NEW r \in Requests, Step(r),
           At(r, {"cut", "write", "table", "unlink", "remove"}),
           NEW t \in Skills, t = Target(asked[r]),
           \A k \in Skills \ odd' : k # t => file'[k] = file[k] /\ skill'[k] = skill[k],
           t \notin odd' => Agrees(t)' /\ FileDone(r)'
    PROVE  Filed'
<1>1. /\ asked' = asked /\ odd \subseteq odd' /\ \A q \in Requests : q # r => pc'[q] = pc[q]
  BY StepMoves
<1>2. ASSUME NEW k \in Skills \ odd' PROVE Agrees(k)'
  <2>1. CASE k = t BY <1>2, <2>1
  <2>2. CASE k # t
    <3>1. Agrees(k) BY <1>1, <1>2 DEF Filed
    <3>2. file'[k] = file[k] /\ skill'[k] = skill[k] BY <1>2, <2>2
    <3>3. \A q \in Requests : q # r =>
             (At(q, {"write", "table", "remove"}) => At(q, {"write", "table", "remove"})')
      BY <1>1 DEF At
    <3> QED BY <1>1, <2>2, <3>1, <3>2, <3>3 DEF Agrees, Target
  <2> QED BY <2>1, <2>2
<1>3. ASSUME NEW q \in Requests PROVE FileDone(q)'
  <2> DEFINE k == Target(asked[q])
  <2> SUFFICES ASSUME k \notin odd', At(q, {"table", "remove"})' PROVE FileDone(q)'
    BY <1>1 DEF FileDone, At, Target
  <2>1. CASE q = r BY <2>1
  <2>2. CASE q # r
    <3>1. At(q, {"table", "remove"}) BY <1>1, <2>2 DEF At
    <3>2. k \in Skills BY <3>1, AskedDoes DEF At
    <3>3. k # t BY <1>1, <2>2, <3>1, OneWriter DEF At
    <3>4. file'[k] = file[k] BY <3>2, <3>3
    <3>5. FileDone(q) BY DEF Filed
    <3> QED BY <1>1, <2>2, <3>4, <3>5 DEF FileDone, At, Target
  <2> QED BY <2>1, <2>2
<1> QED BY <1>2, <1>3 DEF Filed

LEMMA EditFiled ==
    ASSUME Registry, Alone, Filed, NEW r \in Requests,
           Cut(r) \/ Write(r) \/ Table(r) \/ Unlink(r) \/ Remove(r)
    PROVE  Filed'
<1> DEFINE j == asked[r]
<1> PICK t \in Skills : t = Target(j)
  BY AskedDoes DEF Cut, Write, Table, Unlink, Remove, At
<1>1. /\ Step(r) /\ At(r, {"cut", "write", "table", "unlink", "remove"})
  BY DEF Step, Cut, Write, Table, Unlink, Remove, At
<1>2. /\ asked' = asked /\ odd \subseteq odd' /\ pc \in [Requests -> Places]
      /\ skill \in [Skills -> Saved \cup {NoSkill}] /\ file \in [Skills -> Saved \cup {NoSkill, Torn}]
      /\ t \in Skills /\ j.skill \in Skills /\ j.triggers \in BOOLEAN
      /\ At(r, {"unlink", "remove"}) => t = j.skill
  <2>1. At(r, {"unlink", "remove"}) => t = j.skill
    BY DEF Registry, Where, Target
  <2> QED BY <1>1, <2>1, StepMoves, AskedDoes DEF Registry, RegistryTypeOK
<1>3. FileDone(r) BY DEF Filed
<1>4. Target(asked'[r]) = t BY <1>2 DEF Target
<1>a. t = Target(asked[r]) /\ j = asked[r] OBVIOUS
<1> HIDE DEF j
<1>5. SUFFICES /\ \A k \in Skills \ odd' : k # t => file'[k] = file[k] /\ skill'[k] = skill[k]
               /\ t \notin odd' =>
                     /\ skill'[t] = Loads(file'[t]) \/ At(r, {"write", "table", "remove"})'
                     /\ At(r, {"table"})' => file'[t] = [triggers |-> j.triggers, by |-> r]
                     /\ At(r, {"remove"})' => file'[t] = NoSkill
  <2>1. t \notin odd' => Agrees(t)' /\ FileDone(r)'
    <3>1. t \notin odd' => Agrees(t)'
      BY <1>2, <1>4, <1>5 DEF Agrees, Loads
    <3>2. t \notin odd' => FileDone(r)'
      BY <1>2, <1>4, <1>5, <1>a DEF FileDone, Target
    <3> QED BY <3>1, <3>2
  <2> QED BY <1>1, <1>5, <2>1, FileStep DEF j
<1>6. CASE Cut(r)
  <2>1. pc'[r] = "write" BY <1>2, <1>6 DEF Cut, Go
  <2> QED BY <1>2, <1>6, <2>1 DEF Cut, At, j
<1>7. CASE Write(r)
  <2>1. pc'[r] = "table" BY <1>2, <1>7 DEF Write, Go
  <2>2. file'[t] = [triggers |-> j.triggers, by |-> r] BY <1>2, <1>7 DEF Write, j
  <2> QED BY <1>2, <1>7, <2>1, <2>2 DEF Write, At, j
<1>8. CASE Table(r)
  <2>1. pc'[r] = "ok" /\ file' = file BY <1>2, <1>8 DEF Table, Go
  <2>2. t \notin odd' => j.triggers /\ file[t] = [triggers |-> TRUE, by |-> r]
    <3>1. t \notin odd' => j.triggers BY <1>8 DEF Table, j
    <3>2. t \notin odd' => file[t] = [triggers |-> j.triggers, by |-> r]
      BY <1>2, <1>3, <1>8 DEF FileDone, Table, At, j
    <3> QED BY <1>2, <3>1, <3>2
  <2>3. t \notin odd' => skill'[t] = [triggers |-> TRUE, by |-> r]
    BY <1>2, <1>8, <2>2 DEF Table, j
  <2>4. \A k \in Skills \ odd' : k # t => skill'[k] = skill[k]
    BY <1>2, <1>8 DEF Table, j
  <2> QED BY <2>1, <2>2, <2>3, <2>4, LoadsDoes DEF At
<1>9. CASE Unlink(r)
  <2>1. pc'[r] = "remove" BY <1>2, <1>9 DEF Unlink, Go
  <2>2. t = j.skill BY <1>2, <1>9 DEF Unlink, At
  <2> QED BY <1>2, <1>9, <2>1, <2>2 DEF Unlink, At, j
<1>10. CASE Remove(r)
  <2>1. pc'[r] = "ok" /\ file' = file BY <1>2, <1>10 DEF Remove, Go
  <2>2. t = j.skill BY <1>2, <1>10 DEF Remove, At
  <2>3. t \notin odd => file[t] = NoSkill BY <1>3, <1>10 DEF FileDone, Remove, At, j
  <2> QED BY <1>2, <1>10, <2>1, <2>2, <2>3, LoadsDoes DEF Remove, At, j
<1> QED BY <1>6, <1>7, <1>8, <1>9, <1>10

LEMMA StepFiled == Registry /\ Alone /\ Filed /\ [RegistryNext]_registryVars => Filed'
<1> SUFFICES ASSUME Registry, Alone, Filed, [RegistryNext]_registryVars PROVE Filed' OBVIOUS
<1>1. ASSUME NEW r \in Requests, NEW j \in Jobs, Issue(r, j) PROVE Filed'
  BY <1>1, IssueMoves, FiledStays DEF store
<1>2. ASSUME NEW r \in Requests, Step(r) PROVE Filed'
  <2>1. CASE Cut(r) \/ Write(r) \/ Table(r) \/ Unlink(r) \/ Remove(r) BY <2>1, EditFiled
  <2>2. CASE Connect(r) \/ Load(r) \/ ListFails(r) \/ (\E offered \in SUBSET Names : Register(r, offered))
                \/ Unload(r) \/ UnregisterMcp(r) \/ Refresh(r) \/ Check(r)
    <3>1. /\ asked' = asked /\ odd \subseteq odd' /\ \A q \in Requests : q # r => pc'[q] = pc[q]
      BY <1>2, StepMoves
    <3>2. UNCHANGED <<skill, file>>
      BY <2>2 DEF Connect, Load, ListFails, Register, Unload, UnregisterMcp, Refresh, List, Clear,
                  Fill, Check, store
    <3>3. pc[r] \notin {"write", "table", "remove"}
      BY <2>2 DEF Connect, Load, ListFails, Register, Unload, UnregisterMcp, Refresh, List, Clear,
                  Fill, Check
    <3>4. pc'[r] \notin {"table", "remove"}
      <4>1. pc \in [Requests -> Places] BY DEF Registry, RegistryTypeOK
      <4>2. CASE Check(r)
        <5>1. asked[r].op \in Edits BY <4>2 DEF Check, Registry, Where, At
        <5> QED BY <4>1, <4>2, <5>1 DEF Check, Go, Edits, Saves
      <4> QED
        BY <2>2, <4>1, <4>2
           DEF Connect, Load, ListFails, Register, Unload, UnregisterMcp, Refresh, List, Clear, Fill, Go
    <3> QED BY <3>1, <3>2, <3>3, <3>4, FiledStays
  <2> QED BY <1>2, <2>1, <2>2 DEF Step
<1>3. CASE ConsoleRestart
  <2>1. \A r \in Requests : pc'[r] \in Over
    BY <1>3 DEF ConsoleRestart, UnderWay, Over
  <2>2. \A k \in Skills : skill'[k] = Loads(file'[k])
    BY <1>3 DEF ConsoleRestart, Loads
  <2> QED BY <2>1, <2>2 DEF Filed, Agrees, FileDone, At, Over, Loads
<1>4. CASE UNCHANGED registryVars
  BY <1>4, FiledStays DEF registryVars, store, requests
<1> QED BY <1>1, <1>2, <1>3, <1>4 DEF RegistryNext

\* Between requests for it, a skill is in the tables as the next start will find
\* it in its file, for a skill that no two requests worked on at once.
THEOREM SkillsFiled == RegistrySpec => []SkillsMatchFiles
<1>1. Registry /\ Filed => SkillsMatchFiles
  <2> SUFFICES ASSUME Registry, Filed, NEW k \in Skills, Quiet(k) PROVE skill[k] = Loads(file[k])
    BY DEF SkillsMatchFiles
  <2>1. Agrees(k) BY DEF Filed, Quiet
  <2>2. ASSUME NEW r \in Requests, At(r, {"write", "table", "remove"}), Target(asked[r]) = k
        PROVE  FALSE
    <3>1. r \in UnderWay BY <2>2 DEF At, UnderWay, Over
    <3>2. k \in Touches(asked[r]) BY <2>2, AskedDoes, JobTouches DEF At
    <3> QED BY <3>1, <3>2 DEF Quiet
  <2> QED BY <2>1, <2>2 DEF Agrees
<1>2. RegistrySpec => []Filed
  BY InitFiled, StepFiled, AloneAlways, PTL DEF RegistrySpec
<1> QED BY <1>1, <1>2, RegistryAlways, PTL
=============================================================================
