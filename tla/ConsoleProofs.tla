----------------------------- MODULE ConsoleProofs -----------------------------
(***************************************************************************)
(* Proofs about the two parts of the web console that decide what the      *)
(* agent finds when it starts: the configuration pages (ConfigStore) and   *)
(* the requests that start and stop it (ServiceControl).                   *)
(*                                                                         *)
(* ConfigStore, for every set of browser tabs, pages and values: one save  *)
(* at a time works on the files, no secret is replaced by its mask, the    *)
(* saves implement the atomic ones of AtomicFiles, and a save changes the  *)
(* meaning of what its user edited only.                                   *)
(*                                                                         *)
(* ServiceControl, for every number of requests, processes and upsets: its *)
(* type invariant and what requests that do not overlap guarantee -- one   *)
(* agent, started without old signal files, announced only when it         *)
(* listens, and ended when the console says so.                            *)
(***************************************************************************)
EXTENDS ConfigStore, ServiceControl, TLAPS

Stored == Content \cup {Masked}

\* The variables the proofs speak of; the pages a form is for are those of Pages.
Types ==
    /\ disk \in [Fields -> Stored] /\ environ \in [InFile("env") -> Stored]
    /\ lock \in Users \cup {Nobody}
    /\ pc \in [Users -> {"away", "form", "queued", "read", "cut", "write", "done"}]
    /\ at \in [Users -> Files] /\ edited \in [Users -> Fields \cup {"none"}]
    /\ old \in [Users -> [Fields -> Stored]] /\ saves \in 0..MaxSaves
Forms ==
    /\ DOMAIN form = Users
    /\ \A u \in Users : IF pc[u] = "away" THEN form[u] = NoForm
                        ELSE /\ form[u] = [page |-> form[u].page, values |-> form[u].values]
                             /\ form[u].page \in Pages
                             /\ form[u].values \in FormValues(form[u].page)

USE DEF vars
-----------------------------------------------------------------------------
(* Facts about the pages and the files.                                    *)

\* Every field is kept in one of the two files.
LEMMA FileOfType == \A f \in Fields : FileOf(f) \in Files
BY DEF FileOf, Files

\* The fields of a page are fields of the files.
LEMMA PageFields == \A p \in DOMAIN Page : Page[p].fields \subseteq Fields
BY DEF Page, Fields, Section, LlmPage, RouterPage, SecurityPage, LimitsPage, WorkspacePage,
       IndexerPage, RetrieverPage, MemoryPage, ToolsPage, PromptsPage, SystemControlPage,
       FileOrganizePage, AdvancedPage

\* The fields of .env are fields.
LEMMA NamedFields ==
    /\ "WORKSPACE_DIR" \in InFile("env") /\ "VISION_MODEL" \in InFile("env")
    /\ InFile("env") \subseteq Fields /\ "env" \in Files /\ "yaml" \in Files
BY DEF Fields, Section, InFile, FileOf, Files

\* What a page shows of a well-typed file is a value of a form.
LEMMA ShownType ==
    ASSUME Types, NEW f \in Fields
    PROVE  Shown(disk, f) \in Value
<1>1. \A g \in Fields : EnvShown(disk, g) \in Value
    <2> SUFFICES ASSUME NEW g \in Fields PROVE EnvShown(disk, g) \in Value
        OBVIOUS
    <2>1. disk[g] \in Stored
        BY DEF Types
    <2> QED BY <2>1 DEF EnvShown, Value, Stored, Content
<1>2. disk[f] \in Stored
    BY DEF Types
<1>3. "WORKSPACE_DIR" \in Fields
    BY NamedFields
<1> QED BY <1>1, <1>2, <1>3 DEF Shown, Value, Stored, Content
-----------------------------------------------------------------------------
(* Type correctness.                                                       *)

\* The console starts well typed.
LEMMA InitType == Init => Types /\ Forms
<1> SUFFICES ASSUME Init PROVE Types /\ Forms
    OBVIOUS
<1>1. PICK added \in {Missing, CHOOSE v \in Vals : TRUE} :
          disk = [f \in Fields |-> CASE f = "WORKSPACE_DIR" -> Missing
                                     [] f \in {"VISION_MODEL", "max_chars"} -> added
                                     [] OTHER -> CHOOSE v \in Vals : TRUE]
    BY DEF Init
<1>2. (CHOOSE v \in Vals : TRUE) \in Vals
    BY ConfigAssumption
<1>3. disk \in [Fields -> Stored]
    BY <1>1, <1>2 DEF Stored, Content
<1>4. environ \in [InFile("env") -> Stored]
    BY <1>3, NamedFields DEF Init
<1>5. [f \in Fields |-> Missing] \in [Fields -> Stored]
    BY DEF Stored, Content
<1> QED BY <1>3, <1>4, <1>5, NamedFields, ConfigAssumption DEF Init, Types, Forms, Gone

\* Every step keeps the types.
LEMMA StepTypes == Types /\ Forms /\ [Next]_vars => Types'
<1> SUFFICES ASSUME Types, Forms, [Next]_vars PROVE Types'
    OBVIOUS
<1>1. ASSUME NEW u \in Users, NEW page \in Pages, Open(u, page) PROVE Types'
    BY <1>1 DEF Types, Open
<1>2. ASSUME NEW u \in Users, NEW f \in Fields, NEW v \in Vals, Edit(u, f, v) PROVE Types'
    BY <1>2 DEF Types, Edit
<1>3. ASSUME NEW u \in Users, Put(u) PROVE Types'
    BY <1>3, ConfigAssumption DEF Types, Put
<1>4. ASSUME NEW u \in Users, Lock(u) PROVE Types'
    BY <1>4, NamedFields DEF Types, Lock
<1>5. ASSUME NEW u \in Users, Read(u) PROVE Types'
    BY <1>5 DEF Types, Read
<1>6. ASSUME NEW u \in Users, Truncate(u) PROVE Types'
    BY <1>6 DEF Types, Truncate, Stored, Content
<1>7. ASSUME NEW u \in Users, Write(u) PROVE Types'
    <2>1. form[u].page \in Pages /\ form[u].values \in [Page[form[u].page].fields -> Value]
        BY <1>7 DEF Forms, FormValues, Write
    <2>2. \A f \in Fields : Apply(old[u], form[u])[f] \in Stored
        <3> SUFFICES ASSUME NEW f \in Fields PROVE Apply(old[u], form[u])[f] \in Stored
            OBVIOUS
        <3>1. old[u][f] \in Stored /\ Missing \in Stored
            BY DEF Types, Stored, Content
        <3>2. f \in Page[form[u].page].fields => form[u].values[f] \in Stored
            BY <2>1 DEF Value, Stored, Content
        <3> QED BY <3>1, <3>2 DEF Apply
    <2>3. disk' \in [Fields -> Stored]
        BY <1>7, <2>2 DEF Types, Write
    <2> QED BY <1>7, <2>3, NamedFields DEF Types, Write
<1>8. ASSUME NEW u \in Users, Leave(u), lock' \in Users \cup {Nobody} PROVE Types'
    <2>1. Gone \in [Fields -> Stored]
        BY DEF Gone, Stored, Content
    <2> QED BY <1>8, <2>1, NamedFields DEF Types, Leave
<1>9. ASSUME Reload PROVE Types'
    BY <1>9, NamedFields DEF Types, Reload
<1>10. ASSUME ConsoleRestart PROVE Types'
    <2>1. Gone \in [Fields -> Stored]
        BY DEF Gone, Stored, Content
    <2> QED BY <1>10, <2>1, NamedFields DEF Types, ConsoleRestart
<1>11. ASSUME UNCHANGED vars PROVE Types'
    BY <1>11 DEF Types
<1>12. ASSUME NEW u \in Users, Unlock(u) \/ Close(u) PROVE Types'
    BY <1>8, <1>12 DEF Unlock, Close, Types
<1> QED BY <1>1, <1>2, <1>3, <1>4, <1>5, <1>6, <1>7, <1>9, <1>10, <1>11, <1>12 DEF Next, SaveStep

\* Every step keeps the forms.
LEMMA StepForms == Types /\ Forms /\ [Next]_vars => Forms'
<1> SUFFICES ASSUME Types, Forms, [Next]_vars PROVE Forms'
    OBVIOUS
<1>1. ASSUME NEW u \in Users, NEW page \in Pages, Open(u, page) PROVE Forms'
    <2>1. Page[page].fields \subseteq Fields
        BY PageFields, ConfigAssumption
    <2>2. [f \in Page[page].fields |-> Shown(disk, f)] \in FormValues(page)
        BY <2>1, ShownType DEF FormValues
    <2> QED BY <1>1, <2>2 DEF Forms, Types, Open
<1>2. ASSUME NEW u \in Users, NEW f \in Fields, NEW v \in Vals, Edit(u, f, v) PROVE Forms'
    <2>1. /\ form[u] = [page |-> form[u].page, values |-> form[u].values]
          /\ form[u].page \in Pages /\ form[u].values \in FormValues(form[u].page)
        BY <1>2 DEF Forms, Edit
    <2> DEFINE val == [g \in FieldsOf(u) |->
                           IF g = f \/ (f = "WORKSPACE_DIR" /\ g = "dir") THEN v
                           ELSE form[u].values[g]]
    <2>2. val \in FormValues(form[u].page)
        BY <2>1 DEF FormValues, FieldsOf, Value
    <2>3. form' = [form EXCEPT ![u] = [page |-> form[u].page, values |-> val]]
        <3>1. form' = [form EXCEPT ![u] = [form[u] EXCEPT !.values = val]]
            BY <1>2 DEF Edit
        <3>2. [form[u] EXCEPT !.values = val] = [page |-> form[u].page, values |-> val]
            <4> HIDE DEF val
            <4> QED BY <2>1
        <3> QED BY <3>1, <3>2
    <2> QED BY <1>2, <2>1, <2>2, <2>3 DEF Forms, Types, Edit
<1>3. ASSUME NEW u \in Users, Put(u) \/ Lock(u) \/ Read(u) \/ Truncate(u) \/ Write(u) PROVE Forms'
    BY <1>3 DEF Forms, Types, Put, Lock, Read, Truncate, Write
<1>4. ASSUME NEW u \in Users, Leave(u) PROVE Forms'
    BY <1>4 DEF Forms, Types, Leave
<1>5. ASSUME Reload PROVE Forms'
    BY <1>5 DEF Forms, Reload
<1>6. ASSUME ConsoleRestart PROVE Forms'
    BY <1>6 DEF Forms, Types, ConsoleRestart
<1>7. ASSUME UNCHANGED vars PROVE Forms'
    BY <1>7 DEF Forms
<1>8. ASSUME NEW u \in Users, Unlock(u) \/ Close(u) PROVE Forms'
    BY <1>4, <1>8 DEF Unlock, Close
<1> QED BY <1>1, <1>2, <1>3, <1>5, <1>6, <1>7, <1>8 DEF Next, SaveStep

\* Types and Forms are the type invariant.
LEMMA TypesGiveTypeOK == Types /\ Forms => TypeOK
BY DEF Types, Forms, TypeOK, Stored

\* The two files, the environment, the lock, the forms and the saves always have
\* their types.
THEOREM TypeCorrect == Spec => []TypeOK
<1>1. Init => Types /\ Forms
    BY InitType
<1>2. Types /\ Forms /\ [Next]_vars => Types' /\ Forms'
    BY StepTypes, StepForms
<1> QED BY <1>1, <1>2, TypesGiveTypeOK, PTL DEF Spec
-----------------------------------------------------------------------------
(* One save at a time.                                                     *)

\* Every step keeps the lock with the save that works on the files.
LEMMA StepExclusive == Types /\ Exclusive /\ [Next]_vars => Exclusive'
<1> SUFFICES ASSUME Types, Exclusive, [Next]_vars PROVE Exclusive'
    OBVIOUS
<1> USE DEF Types, Exclusive, Saving
<1>1. ASSUME NEW u \in Users, NEW page \in Pages, Open(u, page) PROVE Exclusive'
    BY <1>1 DEF Open
<1>2. ASSUME NEW u \in Users, NEW f \in Fields, NEW v \in Vals, Edit(u, f, v) PROVE Exclusive'
    BY <1>2 DEF Edit
<1>3. ASSUME NEW u \in Users, Put(u) PROVE Exclusive'
    BY <1>3 DEF Put
<1>4. ASSUME NEW u \in Users, Lock(u) PROVE Exclusive'
    BY <1>4, ConfigAssumption DEF Lock, Nobody
<1>5. ASSUME NEW u \in Users, Read(u) \/ Truncate(u) PROVE Exclusive'
    BY <1>5 DEF Read, Truncate
<1>6. ASSUME NEW u \in Users, Write(u) PROVE Exclusive'
    BY <1>6 DEF Write
<1>7. ASSUME NEW u \in Users, Unlock(u) PROVE Exclusive'
    BY <1>7, ConfigAssumption DEF Unlock, Leave, Nobody
<1>8. ASSUME NEW u \in Users, Close(u) PROVE Exclusive'
    BY <1>8 DEF Close, Leave
<1>9. ASSUME Reload PROVE Exclusive'
    BY <1>9 DEF Reload
<1>10. ASSUME ConsoleRestart PROVE Exclusive'
    BY <1>10, ConfigAssumption DEF ConsoleRestart, Nobody
<1>11. ASSUME UNCHANGED vars PROVE Exclusive'
    BY <1>11
<1> QED BY <1>1, <1>2, <1>3, <1>4, <1>5, <1>6, <1>7, <1>8, <1>9, <1>10, <1>11 DEF Next, SaveStep

\* The console starts with the lock free.
LEMMA InitExclusive == Init => Exclusive
<1> SUFFICES ASSUME Init, NEW u \in Users PROVE Saving(u) <=> lock = u
    BY DEF Exclusive
<1>1. pc[u] = "away" /\ lock # u
    BY ConfigAssumption DEF Init, Nobody
<1> QED BY <1>1 DEF Saving

\* At any moment the files are read, emptied and written by one save, the one
\* that holds _lock.
THEOREM ExclusiveCorrect == Spec => []Exclusive
<1>1. Init => Types /\ Forms /\ Exclusive
    BY InitType, InitExclusive
<1>2. Types /\ Forms /\ Exclusive /\ [Next]_vars => Types' /\ Forms' /\ Exclusive'
    BY StepTypes, StepForms, StepExclusive
<1> QED BY <1>1, <1>2, PTL DEF Spec
-----------------------------------------------------------------------------
(* Secrets.                                                                *)

\* No copy of the files has a mask in it, and no form one in a field that is
\* saved as it is.
Unmasked ==
    /\ \A f \in Fields : disk[f] # Masked
    /\ \A u \in Users, f \in Fields : old[u][f] # Masked
    /\ \A u \in Users : pc[u] # "away" =>
          \A f \in FieldsOf(u) : FileOf(f) = "yaml" => form[u].values[f] # Masked

\* A page shows a mask only in a field of .env: the directory it takes from
\* there is no secret.
LEMMA ShownUnmasked ==
    ASSUME Types, Unmasked, NEW f \in Fields, FileOf(f) = "yaml"
    PROVE  Shown(disk, f) # Masked
<1>1. EnvShown(disk, "WORKSPACE_DIR") # Masked
    BY NamedFields, ConfigAssumption DEF EnvShown, Secrets, Unmasked
<1> QED BY <1>1, ConfigAssumption DEF Shown, Unmasked

\* A save writes no mask.
LEMMA AppliedUnmasked ==
    ASSUME Unmasked, NEW u \in Users, pc[u] # "away", NEW f \in Fields
    PROVE  Apply(old[u], form[u])[f] # Masked
BY FileOfType, ConfigAssumption DEF Unmasked, Apply, FieldsOf, Files

\* Every step keeps the files and the forms free of masks.
LEMMA StepUnmasked == Types /\ Forms /\ Unmasked /\ [Next]_vars => Unmasked'
<1> SUFFICES ASSUME Types, Forms, Unmasked, [Next]_vars PROVE Unmasked'
    OBVIOUS
<1>1. ASSUME NEW u \in Users, NEW page \in Pages, Open(u, page) PROVE Unmasked'
    <2>1. Page[page].fields \subseteq Fields
        BY PageFields, ConfigAssumption
    <2>2. form'[u] = [page |-> page, values |-> [f \in Page[page].fields |-> Shown(disk, f)]]
        BY <1>1 DEF Open, Forms
    <2>3. \A f \in Page[page].fields : FileOf(f) = "yaml" => form'[u].values[f] # Masked
        BY <2>1, <2>2, ShownUnmasked
    <2>4. \A w \in Users \ {u} : form'[w] = form[w] /\ pc'[w] = pc[w]
        BY <1>1 DEF Open, Forms, Types
    <2> QED BY <1>1, <2>2, <2>3, <2>4 DEF Unmasked, Open, FieldsOf
<1>2. ASSUME NEW u \in Users, NEW g \in Fields, NEW v \in Vals, Edit(u, g, v) PROVE Unmasked'
    <2> DEFINE val == [f \in FieldsOf(u) |->
                           IF f = g \/ (g = "WORKSPACE_DIR" /\ f = "dir") THEN v
                           ELSE form[u].values[f]]
    <2>1. form' = [form EXCEPT ![u] = [form[u] EXCEPT !.values = val]]
        BY <1>2 DEF Edit
    <2>2. form'[u].values = val /\ form'[u].page = form[u].page
        <3> HIDE DEF val
        <3>1. form[u] = [page |-> form[u].page, values |-> form[u].values]
            BY <1>2 DEF Edit, Forms
        <3>2. form'[u] = [page |-> form[u].page, values |-> val]
            BY <2>1, <3>1 DEF Forms
        <3> QED BY <3>2
    <2>3. \A w \in Users \ {u} : form'[w] = form[w]
        BY <2>1 DEF Forms
    <2>4. v # Masked
        BY ConfigAssumption
    <2>5. \A f \in FieldsOf(u) : FileOf(f) = "yaml" => form'[u].values[f] # Masked
        BY <1>2, <2>2, <2>4 DEF Unmasked, Edit
    <2> QED BY <1>2, <2>2, <2>3, <2>5 DEF Unmasked, Edit, FieldsOf
<1>3. ASSUME NEW u \in Users, Put(u) \/ Lock(u) PROVE Unmasked'
    BY <1>3 DEF Unmasked, FieldsOf, Types, Put, Lock
<1>4. ASSUME NEW u \in Users, Read(u) PROVE Unmasked'
    BY <1>4 DEF Unmasked, FieldsOf, Types, Read
<1>5. ASSUME NEW u \in Users, Truncate(u) PROVE Unmasked'
    BY <1>5, ConfigAssumption DEF Unmasked, FieldsOf, Types, Truncate
<1>6. ASSUME NEW u \in Users, Write(u) PROVE Unmasked'
    <2>1. \A f \in Fields : Apply(old[u], form[u])[f] # Masked
        BY <1>6, AppliedUnmasked DEF Write
    <2>2. \A f \in Fields : disk'[f] # Masked
        BY <1>6, <2>1 DEF Write, Unmasked
    <2> QED BY <1>6, <2>2 DEF Unmasked, FieldsOf, Types, Write
<1>7. ASSUME NEW u \in Users, Leave(u) PROVE Unmasked'
    BY <1>7, ConfigAssumption DEF Unmasked, FieldsOf, Types, Forms, Leave, Gone
<1>8. ASSUME Reload PROVE Unmasked'
    BY <1>8 DEF Unmasked, FieldsOf, Reload
<1>9. ASSUME ConsoleRestart PROVE Unmasked'
    BY <1>9, ConfigAssumption DEF Unmasked, FieldsOf, Types, ConsoleRestart, Gone
<1>10. ASSUME UNCHANGED vars PROVE Unmasked'
    BY <1>10 DEF Unmasked, FieldsOf
<1>11. ASSUME NEW u \in Users, Unlock(u) \/ Close(u) PROVE Unmasked'
    BY <1>7, <1>11 DEF Unlock, Close
<1> QED BY <1>1, <1>2, <1>3, <1>4, <1>5, <1>6, <1>8, <1>9, <1>10, <1>11 DEF Next, SaveStep

\* The files of a console that starts hold no mask.
LEMMA InitUnmasked == Init => Unmasked
<1> SUFFICES ASSUME Init PROVE Unmasked
    OBVIOUS
<1>1. (CHOOSE v \in Vals : TRUE) \in Vals
    BY ConfigAssumption
<1>2. \A f \in Fields : disk[f] # Masked
    BY <1>1, ConfigAssumption DEF Init
<1> QED BY <1>2, ConfigAssumption DEF Init, Unmasked, Gone

\* A secret in .env is never replaced by the mask a page shows of it.
THEOREM SecretsCorrect == Spec => []SecretsSurvive
<1>1. Init => Types /\ Forms /\ Unmasked
    BY InitType, InitUnmasked
<1>2. Types /\ Forms /\ Unmasked /\ [Next]_vars => Types' /\ Forms' /\ Unmasked'
    BY StepTypes, StepForms, StepUnmasked
<1>3. Unmasked => SecretsSurvive
    BY DEF Unmasked, SecretsSurvive
<1> QED BY <1>1, <1>2, <1>3, PTL DEF Spec
-----------------------------------------------------------------------------
(* The refinement.                                                         *)

\* What a save has read is what its file held when it was emptied, and the file
\* is empty until it is written.
ReadIsCurrent ==
    \A u \in Users :
        /\ pc[u] = "cut" => old[u] = disk
        /\ pc[u] = "write" => \A f \in Fields :
               IF FileOf(f) = at[u] THEN disk[f] = Missing ELSE old[u][f] = disk[f]

\* A process that has the lock is the only one past it.
LEMMA Alone ==
    ASSUME Types, Exclusive, NEW u \in Users, Saving(u)
    PROVE  lock = u /\ \A w \in Users \ {u} : ~Saving(w)
BY DEF Exclusive

\* Every step keeps what a save has read current.
LEMMA StepCurrent ==
    Types /\ Exclusive /\ ReadIsCurrent /\ [Next]_vars => ReadIsCurrent'
<1> SUFFICES ASSUME Types, Exclusive, ReadIsCurrent, [Next]_vars PROVE ReadIsCurrent'
    OBVIOUS
<1> USE DEF Types, ReadIsCurrent
<1>1. ASSUME NEW u \in Users, NEW page \in Pages, Open(u, page) PROVE ReadIsCurrent'
    BY <1>1 DEF Open
<1>2. ASSUME NEW u \in Users, NEW f \in Fields, NEW v \in Vals, Edit(u, f, v)
      PROVE  ReadIsCurrent'
    BY <1>2 DEF Edit
<1>3. ASSUME NEW u \in Users, Put(u) PROVE ReadIsCurrent'
    BY <1>3 DEF Put
<1>4. ASSUME NEW u \in Users, Lock(u) PROVE ReadIsCurrent'
    BY <1>4 DEF Lock
<1>5. ASSUME NEW u \in Users, Read(u) PROVE ReadIsCurrent'
    BY <1>5 DEF Read
<1>6. ASSUME NEW u \in Users, Truncate(u) PROVE ReadIsCurrent'
    <2>1. \A w \in Users \ {u} : ~Saving(w) /\ pc'[w] = pc[w]
        BY <1>6, Alone DEF Truncate, Saving
    <2>2. \A f \in Fields : disk'[f] = IF FileOf(f) = at[u] THEN Missing ELSE disk[f]
        BY <1>6 DEF Truncate
    <2> QED BY <1>6, <2>1, <2>2 DEF Truncate, Saving
<1>7. ASSUME NEW u \in Users, Write(u) PROVE ReadIsCurrent'
    <2>1. \A w \in Users \ {u} : ~Saving(w) /\ pc'[w] = pc[w]
        BY <1>7, Alone DEF Write, Saving
    <2>2. pc'[u] \notin {"cut", "write"}
        BY <1>7 DEF Write
    <2> QED BY <2>1, <2>2 DEF Saving
<1>8. ASSUME NEW u \in Users, Leave(u) PROVE ReadIsCurrent'
    BY <1>8 DEF Leave
<1>9. ASSUME Reload PROVE ReadIsCurrent'
    BY <1>9 DEF Reload
<1>10. ASSUME ConsoleRestart PROVE ReadIsCurrent'
    BY <1>10 DEF ConsoleRestart
<1>11. ASSUME UNCHANGED vars PROVE ReadIsCurrent'
    BY <1>11
<1>12. ASSUME NEW u \in Users, Unlock(u) \/ Close(u) PROVE ReadIsCurrent'
    BY <1>8, <1>12 DEF Unlock, Close
<1> QED BY <1>1, <1>2, <1>3, <1>4, <1>5, <1>6, <1>7, <1>9, <1>10, <1>11, <1>12 DEF Next, SaveStep

\* Steps that touch neither the files nor the progress of the save at work are
\* stuttering steps of the promise.
LEMMA Quiet ==
    ASSUME Types, Exclusive,
           disk' = disk, lock' = lock, old' = old, at' = at,
           \A u \in Users : Saving(u) => pc'[u] = pc[u]
    PROVE  UNCHANGED Logical
<1>1. lock \in Users => pc'[lock] = pc[lock]
    BY DEF Types, Exclusive
<1> QED BY <1>1 DEF Logical, Types

\* Every step is a step of AtomicFiles: Write saves one file, ConsoleRestart may
\* lose one, and no other step is seen.
LEMMA StepRefines ==
    Types /\ Exclusive /\ ReadIsCurrent /\ [Next]_vars => [Store!Next]_Logical
<1> SUFFICES ASSUME Types, Exclusive, ReadIsCurrent, [Next]_vars
             PROVE  Store!Next \/ UNCHANGED Logical
    OBVIOUS
<1>1. ASSUME NEW u \in Users, NEW page \in Pages, Open(u, page) PROVE UNCHANGED Logical
    BY <1>1, Quiet DEF Open, Saving, Types
<1>2. ASSUME NEW u \in Users, NEW f \in Fields, NEW v \in Vals, Edit(u, f, v)
      PROVE  UNCHANGED Logical
    BY <1>2, Quiet DEF Edit
<1>3. ASSUME NEW u \in Users, Put(u) PROVE UNCHANGED Logical
    BY <1>3, Quiet DEF Put, Saving, Types
<1>4. ASSUME NEW u \in Users, Lock(u) PROVE UNCHANGED Logical
    <2>1. lock = Nobody /\ lock' = u /\ pc'[u] = "read" /\ disk' = disk
        BY <1>4 DEF Lock, Types
    <2> QED BY <2>1 DEF Logical
<1>5. ASSUME NEW u \in Users, Read(u) PROVE UNCHANGED Logical
    <2>1. lock = u /\ lock' = lock /\ pc[u] = "read" /\ pc'[u] = "cut" /\ disk' = disk
        BY <1>5, Alone DEF Read, Saving, Types
    <2> QED BY <2>1 DEF Logical
<1>6. ASSUME NEW u \in Users, Truncate(u) PROVE UNCHANGED Logical
    <2>1. /\ lock = u /\ lock' = lock /\ pc[u] = "cut" /\ pc'[u] = "write"
          /\ old[u] = disk /\ old' = old /\ at' = at
        BY <1>6, Alone DEF Truncate, Saving, Types, ReadIsCurrent
    <2>2. \A f \in Fields : disk'[f] = IF FileOf(f) = at[u] THEN Missing ELSE disk[f]
        BY <1>6 DEF Truncate
    <2>3. Logical = [f \in Fields |-> disk[f]]
        BY <2>1 DEF Logical
    <2>4. Logical' = [f \in Fields |-> IF at[u] = FileOf(f) THEN old[u][f] ELSE disk'[f]]
        BY <2>1, <1>6, ConfigAssumption DEF Logical, Nobody
    <2> QED BY <2>1, <2>2, <2>3, <2>4
<1>7. ASSUME NEW u \in Users, Write(u) PROVE Store!Next
    <2>1. /\ lock = u /\ u # Nobody /\ lock' = lock /\ pc[u] = "write" /\ pc'[u] # "write"
          /\ at[u] \in Files
        BY <1>7, Alone, ConfigAssumption DEF Write, Saving, Types, Nobody
    <2>2. Logical = [f \in Fields |-> IF at[u] = FileOf(f) THEN old[u][f] ELSE disk[f]]
        BY <2>1 DEF Logical
    <2>3. \A f \in Fields : Logical'[f] = IF FileOf(f) = at[u] THEN Apply(old[u], form[u])[f]
                                          ELSE disk[f]
        BY <1>7, <2>1 DEF Logical, Write
    <2>4. \A f \in Fields : FileOf(f) = at[u] =>
              Apply(old[u], form[u])[f] = Apply(Logical, form[u])[f]
        BY <2>2 DEF Apply
    <2>5. Logical' = [f \in Fields |-> IF FileOf(f) = at[u] THEN Apply(Logical, form[u])[f]
                                       ELSE Logical[f]]
        BY <2>2, <2>3, <2>4 DEF Logical
    <2>6. Store!Save(form[u], at[u])
        BY <2>5 DEF Store!Save, Store!Replace
    <2> QED BY <2>1, <2>6 DEF Store!Next
<1>8. ASSUME NEW u \in Users, Unlock(u) PROVE UNCHANGED Logical
    <2>1. lock = u /\ pc[u] = "done" /\ lock' = Nobody /\ disk' = disk
        BY <1>8, Alone DEF Unlock, Leave, Saving
    <2> QED BY <2>1 DEF Logical
<1>9. ASSUME NEW u \in Users, Close(u) PROVE UNCHANGED Logical
    <2>1. /\ lock' = lock /\ disk' = disk /\ lock # u
          /\ \A w \in Users \ {u} : pc'[w] = pc[w] /\ old'[w] = old[w] /\ at'[w] = at[w]
        BY <1>9 DEF Close, Leave, Types, Exclusive, Saving
    <2> QED BY <2>1 DEF Logical, Types
<1>10. ASSUME Reload PROVE UNCHANGED Logical
    BY <1>10, Quiet DEF Reload
<1>11. ASSUME ConsoleRestart PROVE Store!Next \/ UNCHANGED Logical
    <2>1. Logical' = [f \in Fields |-> disk[f]]
        BY <1>11 DEF Logical, ConsoleRestart
    <2>2. CASE lock # Nobody /\ pc[lock] = "write"
        <3>1. lock \in Users /\ at[lock] \in Files
            BY <2>2 DEF Types
        <3>2. \A f \in Fields : FileOf(f) = at[lock] => disk[f] = Missing
            BY <2>2, <3>1 DEF ReadIsCurrent
        <3>3. Logical' = [f \in Fields |-> IF FileOf(f) = at[lock]
                              THEN [g \in Fields |-> Missing][f] ELSE Logical[f]]
            BY <2>1, <2>2, <3>2 DEF Logical
        <3>4. Store!Lose(at[lock])
            BY <3>3 DEF Store!Lose, Store!Replace
        <3> QED BY <3>1, <3>4 DEF Store!Next
    <2>3. CASE ~(lock # Nobody /\ pc[lock] = "write")
        BY <2>1, <2>3 DEF Logical
    <2> QED BY <2>2, <2>3
<1>12. ASSUME UNCHANGED vars PROVE UNCHANGED Logical
    BY <1>12 DEF Logical
<1> QED BY <1>1, <1>2, <1>3, <1>4, <1>5, <1>6, <1>7, <1>8, <1>9, <1>10, <1>11, <1>12
        DEF Next, SaveStep

\* The saves of all pages, by any number of users, are the atomic ones of
\* AtomicFiles, however their steps interleave; only an end of the console costs
\* a file, and one at the most.
THEOREM ConfigStoreImplements == Spec => Implements
<1>1. Init => Types /\ Forms /\ Exclusive /\ ReadIsCurrent
    BY InitType, InitExclusive DEF Init, ReadIsCurrent
<1>2. Types /\ Forms /\ Exclusive /\ ReadIsCurrent /\ [Next]_vars
          => Types' /\ Forms' /\ Exclusive' /\ ReadIsCurrent'
    BY StepTypes, StepForms, StepExclusive, StepCurrent
<1> QED BY <1>1, <1>2, StepRefines, PTL DEF Spec, Implements, Store!Spec
-----------------------------------------------------------------------------
(* What a save means.                                                      *)

\* A page that replaces a section has all fields of the section.
LEMMA WholeSections ==
    \A p \in DOMAIN Page : \A f \in Fields :
        Section[f] \in Page[p].replaces => f \in Page[p].fields
<1> SUFFICES ASSUME NEW p \in DOMAIN Page, NEW f \in Fields, Section[f] \in Page[p].replaces
             PROVE  f \in Page[p].fields
    OBVIOUS
<1>1. \/ f = "max_history" /\ Section[f] = "limits"
      \/ f \in {"max_chars", "relevance_threshold", "whisper_model"} /\ Section[f] = "advanced"
      \/ f = "vision_route" /\ Section[f] = "model_router"
      \/ f = "dev_mode" /\ Section[f] = "security"
      \/ f = "dir" /\ Section[f] = "workspace"
      \/ f = "indexer_enabled" /\ Section[f] = "indexer"
      \/ f = "default_top_k" /\ Section[f] = "retriever"
      \/ f = "system_prompt" /\ Section[f] = "prompts"
      \/ f = "actions" /\ Section[f] = "system_control"
      \/ f = "rules" /\ Section[f] = "file_organize"
      \/ f = "servers" /\ Section[f] = "mcp"
      \/ f \in {"LLM_MODEL", "LLM_API_KEY", "VISION_MODEL", "WORKSPACE_DIR"} /\ Section[f] = "env"
    BY DEF Fields, Section
<1> QED BY <1>1
    DEF Page, LlmPage, RouterPage, SecurityPage, LimitsPage, WorkspacePage, IndexerPage,
        RetrieverPage, MemoryPage, ToolsPage, PromptsPage, SystemControlPage,
        FileOrganizePage, AdvancedPage

\* The condition of SaveMeansEdit, for one field and what the save read.
Kept(f, read) ==
    \/ Meaning(disk', f) = Meaning(read, f)
    \/ read[f] = Missing /\ f \in OwnDefault
    \/ f = "vision_route" /\ environ["VISION_MODEL"] # read["VISION_MODEL"]

\* What a write puts into a field nobody changed has the meaning of what the save
\* read, up to the defaults and the vision model named there.
LEMMA WriteKeeps ==
    ASSUME Types, Forms, Unmasked, ReadIsCurrent, NEW u \in Users, Write(u), UpToDate(u),
           NEW f \in InFile(at[u]) \ {edited[u], "dir"}
    PROVE  Kept(f, old[u])
<1> DEFINE val == form[u].values[f]
<1>1. /\ pc[u] = "write" /\ f \in Fields /\ FileOf(f) = at[u]
      /\ form[u].page \in DOMAIN Page /\ old[u][f] \in Stored /\ old[u][f] # Masked
    BY ConfigAssumption DEF Write, InFile, Forms, Types, Unmasked
<1>2. disk'[f] = Apply(old[u], form[u])[f]
    BY <1>1 DEF Write
<1>3. f = "vision_route" => disk'["VISION_MODEL"] = old[u]["VISION_MODEL"]
    <2>1. FileOf("VISION_MODEL") = "env" /\ FileOf("vision_route") = "yaml" /\ "env" # "yaml"
          /\ "VISION_MODEL" \in Fields
        BY DEF FileOf, Section, Fields
    <2> QED BY <1>1, <2>1 DEF Write, ReadIsCurrent
<1>4. CASE f \notin FieldsOf(u)
    <2>1. Section[f] \notin Page[form[u].page].replaces
        BY <1>1, <1>4, WholeSections DEF FieldsOf
    <2>2. disk'[f] = old[u][f]
        BY <1>1, <1>2, <1>4, <2>1 DEF Apply, FieldsOf
    <2> QED BY <1>3, <2>2 DEF Kept, Meaning
<1>5. CASE f \in FieldsOf(u)
    <2>1. val = Shown(old[u], f)
        BY <1>5 DEF UpToDate
    <2>2. disk'[f] = IF FileOf(f) = "env" /\ val = Masked THEN old[u][f] ELSE val
        BY <1>1, <1>2, <1>5 DEF Apply, FieldsOf
    <2> HIDE DEF val
    <2>3. CASE FileOf(f) = "env"
        <3>1. val = EnvShown(old[u], f) /\ f # "vision_route"
            BY <2>1, <2>3 DEF Shown, FileOf, Section
        <3>2. CASE old[u][f] \in {Missing, Empty}
            <4>1. disk'[f] = Empty
                BY <2>2, <3>1, <3>2, ConfigAssumption DEF EnvShown
            <4> QED BY <2>3, <3>1, <3>2, <4>1, ConfigAssumption DEF Kept, Meaning
        <3>3. CASE old[u][f] \notin {Missing, Empty}
            <4>1. disk'[f] = old[u][f]
                BY <2>2, <2>3, <3>1, <3>3 DEF EnvShown
            <4> QED BY <3>1, <4>1 DEF Kept, Meaning
        <3> QED BY <3>2, <3>3
    <2>4. CASE FileOf(f) # "env"
        <3>1. disk'[f] = val
            BY <2>2, <2>4
        <3>2. CASE f = "vision_route" /\ environ["VISION_MODEL"] \in Vals
            <4>1. CASE environ["VISION_MODEL"] # old[u]["VISION_MODEL"]
                BY <3>2, <4>1 DEF Kept
            <4>2. CASE environ["VISION_MODEL"] = old[u]["VISION_MODEL"]
                <5>1. old[u]["VISION_MODEL"] \in Vals /\ disk'["VISION_MODEL"] \in Vals
                    BY <1>3, <3>2, <4>2
                <5>2. Meaning(disk', f) = disk'["VISION_MODEL"]
                    BY <3>2, <5>1 DEF Meaning
                <5>3. Meaning(old[u], f) = old[u]["VISION_MODEL"]
                    BY <3>2, <5>1 DEF Meaning
                <5> QED BY <1>3, <3>2, <5>2, <5>3 DEF Kept
            <4> QED BY <4>1, <4>2
        <3>3. CASE ~(f = "vision_route" /\ environ["VISION_MODEL"] \in Vals)
            <4>1. val = IF old[u][f] = Missing THEN Default ELSE old[u][f]
                BY <2>1, <2>4, <3>3 DEF Shown
            <4>2. CASE old[u][f] = Missing
                <5>1. disk'[f] = Default /\ Default # Missing
                    BY <3>1, <4>1, <4>2, ConfigAssumption
                <5>2. f \in OwnDefault \/ Meaning(disk', f) = Meaning(old[u], f)
                    BY <1>3, <2>4, <4>2, <5>1 DEF Meaning
                <5> QED BY <4>2, <5>2 DEF Kept
            <4>3. CASE old[u][f] # Missing
                BY <1>3, <3>1, <4>1, <4>3 DEF Kept, Meaning
            <4> QED BY <4>2, <4>3
        <3> QED BY <3>2, <3>3
    <2> QED BY <2>3, <2>4
<1> QED BY <1>4, <1>5

\* A save from a form that is up to date changes what its user changed and nothing
\* else, up to defaults that the agent and the console have different and the
\* vision model the console was started with.
THEOREM SaveCorrect == Spec => SaveMeansEdit
<1> DEFINE IInv == Types /\ Forms /\ Exclusive /\ Unmasked /\ ReadIsCurrent
           Fine == \A u \in Users : Write(u) /\ UpToDate(u) =>
                       \A f \in InFile(at[u]) \ {edited[u], "dir"} : Kept(f, old[u])
<1>1. Init => IInv
    BY InitType, InitExclusive, InitUnmasked DEF Init, ReadIsCurrent
<1>2. IInv /\ [Next]_vars => IInv'
    BY StepTypes, StepForms, StepExclusive, StepUnmasked, StepCurrent
<1>3. IInv => Fine
    BY WriteKeeps
<1>4. IInv /\ [Next]_vars => [Fine]_vars
    BY <1>3
<1>5. Fine => \A u \in Users : Write(u) /\ UpToDate(u) =>
          \A f \in InFile(at[u]) \ {edited[u], "dir"} :
              \/ Meaning(disk', f) = Meaning(old[u], f)
              \/ old[u][f] = Missing /\ f \in OwnDefault
              \/ f = "vision_route" /\ environ["VISION_MODEL"] # old[u]["VISION_MODEL"]
    BY DEF Kept
<1> QED BY <1>1, <1>2, <1>4, <1>5, PTL DEF Spec, SaveMeansEdit
-----------------------------------------------------------------------------
(* ServiceControl.                                                         *)

USE DEF serviceVars, files, handlers, history

Stages == {"none", "boot", "loop", "poll", "leaving", "dead"}
Running == {"boot", "loop", "poll", "leaving"}

\* Numbers of processes are no NoPid.
LEMMA PidsType == /\ \A p \in Pids : p # NoPid /\ p \in Nat
                  /\ MaxUpsets \in Nat
BY ServiceAssumption DEF Pids, NoPid
-----------------------------------------------------------------------------
(* Type correctness.                                                       *)

\* A request knows whom it waits for.
Victims == \A r \in Requests : handling[r] \in {"stopWait", "stopEnd", "killWait"} => victim[r] # NoPid

\* The answers and places a handler can go on to.
LEMMA GoType ==
    ASSUME ServiceTypeOK, NEW r \in Requests, NEW a \in Places \cup Answers,
           Go(r, a) \/ Reply(r, a) \/ Stopped(r, a)
    PROVE  /\ handling' \in [Requests -> Places \cup Answers] /\ restart' \subseteq Requests
           /\ \A q \in Requests \ {r} : handling'[q] = handling[q]
           /\ handling'[r] \in {a, "startCheck"}
           /\ (Go(r, a) \/ Reply(r, a)) => handling'[r] = a
BY DEF ServiceTypeOK, Go, Reply, Stopped, Places

\* The console starts well typed.
LEMMA ServiceInitType == ServiceInit => ServiceTypeOK
<1> SUFFICES ASSUME ServiceInit PROVE ServiceTypeOK
    OBVIOUS
<1>1. upsets \in 0..MaxUpsets
    BY PidsType DEF ServiceInit
<1>2. handling \in [Requests -> {"idle"}] /\ restart \subseteq Requests
      /\ victim \in [Requests -> {NoPid}] /\ agent \in [Pids -> {"none"}]
    BY DEF ServiceInit
<1> QED BY <1>1, <1>2 DEF ServiceInit, ServiceTypeOK, Places

\* A look-up that may be blind.
LEMMA LookType ==
    ASSUME ServiceTypeOK, NEW see \in BOOLEAN, Look(see) \/ UNCHANGED <<upsets, clash>>
    PROVE  upsets' \in 0..MaxUpsets /\ clash' \in BOOLEAN
<1>1. CASE UNCHANGED <<upsets, clash>>
    BY <1>1 DEF ServiceTypeOK
<1>2. CASE Look(see)
    <2>1. upsets' \in 0..MaxUpsets
        BY <1>2, PidsType DEF Look, ServiceTypeOK
    <2>2. clash' \in BOOLEAN
        BY <1>2 DEF Look, ServiceTypeOK
    <2> QED BY <2>1, <2>2
<1> QED BY <1>1, <1>2

\* A step of a handler that changes the whereabouts of one request keeps the
\* waiting requests waiting for somebody.
LEMMA VictimsKept ==
    ASSUME ServiceTypeOK, NEW r \in Requests, victim' \in [Requests -> Pids \cup {NoPid}],
           \A q \in Requests \ {r} : handling'[q] = handling[q] /\ victim'[q] = victim[q],
           handling'[r] \in {"stopWait", "stopEnd", "killWait"} => victim'[r] # NoPid
    PROVE  Victims'
BY DEF ServiceTypeOK, Victims

\* Every step of a handler keeps the types.
LEMMA HandleType ==
    ASSUME ServiceTypeOK, NEW r \in Requests, Handle(r)
    PROVE  ServiceTypeOK'
<1> USE DEF At
<1>0. \A p \in Pids : p # NoPid /\ MaxUpsets \in Nat
    BY PidsType
<1>1. ASSUME NEW p \in Pids \cup {NoPid}, NEW see \in BOOLEAN, StartCheck(r, p, see)
      PROVE  ServiceTypeOK'
    <2>1. PICK a \in {"conflict", "startClean"} : Go(r, a) \/ Reply(r, a)
        BY <1>1 DEF StartCheck
    <2>2. /\ handling' \in [Requests -> Places \cup Answers] /\ restart' \subseteq Requests
          /\ \A q \in Requests \ {r} : handling'[q] = handling[q]
          /\ handling'[r] = a
        BY <2>1, GoType DEF Places, Answers
    <2>3. upsets' \in 0..MaxUpsets /\ clash' \in BOOLEAN
        <3>1. Look(see) \/ UNCHANGED <<upsets, clash>>
            BY <1>1 DEF StartCheck
        <3> QED BY <3>1, LookType
    <2>4. Victims'
        BY <1>1, <2>2, VictimsKept DEF StartCheck, ServiceTypeOK
    <2> QED BY <1>1, <2>2, <2>3, <2>4 DEF StartCheck, ServiceTypeOK, Victims
<1>2. ASSUME StartClean(r) PROVE ServiceTypeOK'
    <2>1. /\ handling' \in [Requests -> Places \cup Answers] /\ restart' \subseteq Requests
          /\ \A q \in Requests \ {r} : handling'[q] = handling[q]
          /\ handling'[r] = "startSpawn"
        BY <1>2, GoType DEF StartClean, Places
    <2>2. Victims'
        BY <1>2, <2>1, VictimsKept DEF StartClean, ServiceTypeOK
    <2> QED BY <1>2, <2>1, <2>2 DEF StartClean, ServiceTypeOK, Victims
<1>3. ASSUME NEW p \in Pids, StartSpawn(r, p) PROVE ServiceTypeOK'
    <2>1. /\ handling' \in [Requests -> Places \cup Answers] /\ restart' \subseteq Requests
          /\ \A q \in Requests \ {r} : handling'[q] = handling[q]
          /\ handling'[r] = "startWait"
        BY <1>3, GoType DEF StartSpawn, Places
    <2>2. Victims'
        BY <1>3, <2>1, VictimsKept DEF StartSpawn, ServiceTypeOK
    <2> QED BY <1>3, <2>1, <2>2 DEF StartSpawn, Spawn, ServiceTypeOK, Victims
<1>4. ASSUME StartWait(r) PROVE ServiceTypeOK'
    <2>1. PICK a \in {"started", "error"} : Reply(r, a)
        BY <1>4 DEF StartWait
    <2>2. /\ handling' \in [Requests -> Places \cup Answers] /\ restart' \subseteq Requests
          /\ \A q \in Requests \ {r} : handling'[q] = handling[q]
          /\ handling'[r] = a
        BY <2>1, GoType DEF Answers
    <2>3. Victims'
        BY <1>4, <2>2, VictimsKept DEF StartWait, ServiceTypeOK
    <2> QED BY <1>4, <2>2, <2>3 DEF StartWait, ServiceTypeOK, Victims
<1>5. ASSUME NEW p \in Pids \cup {NoPid}, NEW see \in BOOLEAN, StopCheck(r, p, see)
      PROVE  ServiceTypeOK'
    <2>1. PICK a \in {"stopGrab", "killWait", "already_stopped"} :
              /\ Go(r, a) \/ Stopped(r, a)
              /\ a = "killWait" => p \in Pids /\ Waits(r, p)
              /\ a # "killWait" => victim' = victim
        BY <1>5 DEF StopCheck
    <2>2. /\ handling' \in [Requests -> Places \cup Answers] /\ restart' \subseteq Requests
          /\ \A q \in Requests \ {r} : handling'[q] = handling[q]
          /\ handling'[r] \in {a, "startCheck"}
        BY <2>1, GoType DEF Places, Answers
    <2>3. /\ victim' \in [Requests -> Pids \cup {NoPid}]
          /\ \A q \in Requests \ {r} : victim'[q] = victim[q]
          /\ a = "killWait" => victim'[r] # NoPid
        BY <1>0, <2>1 DEF Waits, ServiceTypeOK
    <2>4. upsets' \in 0..MaxUpsets /\ clash' \in BOOLEAN /\ shutdown' \in BOOLEAN
        <3>1. Look(see) \/ UNCHANGED <<upsets, clash>>
            BY <1>5 DEF StopCheck
        <3>2. shutdown' \in BOOLEAN
            BY <1>5 DEF StopCheck, ServiceTypeOK
        <3> QED BY <3>1, <3>2, LookType
    <2>5. Victims'
        BY <2>2, <2>3, VictimsKept
    <2> QED BY <1>5, <2>2, <2>3, <2>4, <2>5 DEF StopCheck, ServiceTypeOK, Victims
<1>6. ASSUME StopGrab(r) PROVE ServiceTypeOK'
    <2>1. PICK a \in {"error", "stopWait"} :
              /\ Go(r, a) \/ Reply(r, a)
              /\ a = "stopWait" => proc # NoPid /\ Waits(r, proc)
              /\ a # "stopWait" => victim' = victim
        BY <1>6 DEF StopGrab
    <2>2. /\ handling' \in [Requests -> Places \cup Answers] /\ restart' \subseteq Requests
          /\ \A q \in Requests \ {r} : handling'[q] = handling[q]
          /\ handling'[r] = a
        BY <2>1, GoType DEF Places, Answers
    <2>3. /\ victim' \in [Requests -> Pids \cup {NoPid}]
          /\ \A q \in Requests \ {r} : victim'[q] = victim[q]
          /\ a = "stopWait" => victim'[r] # NoPid
        BY <2>1 DEF Waits, ServiceTypeOK
    <2>4. Victims'
        BY <2>2, <2>3, VictimsKept
    <2> QED BY <1>6, <2>2, <2>3, <2>4 DEF StopGrab, ServiceTypeOK, Victims
<1>7. ASSUME StopWait(r) PROVE ServiceTypeOK'
    <2>1. /\ handling' \in [Requests -> Places \cup Answers] /\ restart' \subseteq Requests
          /\ \A q \in Requests \ {r} : handling'[q] = handling[q]
          /\ handling'[r] = "stopEnd"
        BY <1>7, GoType DEF StopWait, Places
    <2>2. victim' = victim /\ victim[r] # NoPid
        BY <1>7 DEF StopWait, ServiceTypeOK
    <2>3. Victims'
        BY <2>1, <2>2, VictimsKept DEF ServiceTypeOK
    <2> QED BY <1>7, <2>1, <2>3 DEF StopWait, ServiceTypeOK, Victims
<1>8. ASSUME StopEnd(r) PROVE ServiceTypeOK'
    <2>1. /\ handling' \in [Requests -> Places \cup Answers] /\ restart' \subseteq Requests
          /\ \A q \in Requests \ {r} : handling'[q] = handling[q]
          /\ handling'[r] \in {"stopped", "startCheck"}
        BY <1>8, GoType DEF StopEnd, Answers
    <2>2. /\ victim' \in [Requests -> Pids \cup {NoPid}]
          /\ \A q \in Requests \ {r} : victim'[q] = victim[q]
        BY <1>8 DEF StopEnd, Waits, ServiceTypeOK
    <2>3. Victims'
        BY <2>1, <2>2, VictimsKept
    <2> QED BY <1>8, <2>1, <2>2, <2>3 DEF StopEnd, ServiceTypeOK, Victims
<1>9. ASSUME NEW see \in BOOLEAN, KillWait(r, see) PROVE ServiceTypeOK'
    <2>1. PICK a \in {"stopped", "error"} : Stopped(r, a) \/ Reply(r, a)
        BY <1>9 DEF KillWait
    <2>2. /\ handling' \in [Requests -> Places \cup Answers] /\ restart' \subseteq Requests
          /\ \A q \in Requests \ {r} : handling'[q] = handling[q]
          /\ handling'[r] \in {a, "startCheck"}
        BY <2>1, GoType DEF Answers
    <2>3. /\ victim' \in [Requests -> Pids \cup {NoPid}]
          /\ \A q \in Requests \ {r} : victim'[q] = victim[q]
        BY <1>9 DEF KillWait, Waits, ServiceTypeOK
    <2>4. upsets' \in 0..MaxUpsets /\ clash' \in BOOLEAN
        BY <1>9, LookType DEF KillWait
    <2>5. Victims'
        BY <2>2, <2>3, VictimsKept
    <2> QED BY <1>9, <2>2, <2>3, <2>4, <2>5 DEF KillWait, ServiceTypeOK, Victims
<1> QED BY <1>1, <1>2, <1>3, <1>4, <1>5, <1>6, <1>7, <1>8, <1>9 DEF Handle

\* Every step keeps the types.
LEMMA ServiceStepType == ServiceTypeOK /\ [ServiceNext]_serviceVars => ServiceTypeOK'
<1> SUFFICES ASSUME ServiceTypeOK, [ServiceNext]_serviceVars PROVE ServiceTypeOK'
    OBVIOUS
<1>0. MaxUpsets \in Nat
    BY PidsType
<1>1. ASSUME NEW r \in Requests, NEW k \in {"start", "stop", "restart"}, Issue(r, k)
      PROVE  ServiceTypeOK'
    <2>1. handling' = [handling EXCEPT ![r] = handling'[r]] /\ handling'[r] \in {"startCheck", "stopCheck"}
        BY <1>1 DEF Issue, ServiceTypeOK
    <2> QED BY <1>1, <2>1 DEF Issue, ServiceTypeOK, Places
<1>2. ASSUME NEW r \in Requests, Handle(r) PROVE ServiceTypeOK'
    BY <1>2, HandleType
<1>3. ASSUME NEW p \in Pids, Run(p) PROVE ServiceTypeOK'
    BY <1>3 DEF Run, Boot, BootFails, Top, Poll, LoginFails, LeaveLoop, ServiceTypeOK
<1>4. ASSUME NEW p \in Pids, StartExternally(p) PROVE ServiceTypeOK'
    BY <1>0, <1>4 DEF StartExternally, Spawn, ServiceTypeOK
<1>5. ASSUME ReloadConsole PROVE ServiceTypeOK'
    <2>1. /\ handling' \in [Requests -> Places \cup Answers]
          /\ \A r \in Requests : handling'[r] \in Answers \cup {"idle"}
        BY <1>5 DEF ReloadConsole, UnderWay, ServiceTypeOK, Answers
    <2> QED BY <1>0, <1>5, <2>1 DEF ReloadConsole, ServiceTypeOK, Answers
<1>6. ASSUME UNCHANGED serviceVars PROVE ServiceTypeOK'
    BY <1>6 DEF ServiceTypeOK
<1> QED BY <1>1, <1>2, <1>3, <1>4, <1>5, <1>6 DEF ServiceNext

\* The processes, the signal files and the handlers always have their types, and
\* a handler that waits for a process has one to wait for.
THEOREM ServiceTypeCorrect == ServiceSpec => []ServiceTypeOK
<1> QED BY ServiceInitType, ServiceStepType, PTL DEF ServiceSpec
-----------------------------------------------------------------------------
(* Requests that do not overlap.                                           *)

\* What holds as long as no two requests were under way at once, no look-up was
\* blind and no user started an agent.
Orderly ==
    ~clash =>
        /\ \A q, r \in UnderWay : q = r
        /\ \A p, q \in Alive : p = q
        /\ ready => \A p \in Pids : agent[p] # "boot"
        /\ inherited = {}
        /\ proc # NoPid => agent[proc] # "none"
        /\ \A r \in Requests :
              /\ handling[r] \in {"startClean", "startSpawn"} => Alive = {}
              /\ handling[r] = "startSpawn" => ~ready /\ ~shutdown
              /\ handling[r] = "stopWait" => victim[r] = proc
              /\ handling[r] = "stopEnd" => agent[victim[r]] = "dead"
              /\ handling[r] = "killWait" => agent[victim[r]] # "none"

\* While one request is at work the others are not under way.
LEMMA OthersIdle ==
    ASSUME ServiceTypeOK, Orderly, ~clash, NEW r \in Requests, handling[r] \notin Answers \cup {"idle"}
    PROVE  \A q \in Requests \ {r} : handling[q] \in Answers \cup {"idle"}
BY DEF Orderly, UnderWay

\* A step of the only request under way: what is left to show.
LEMMA RequestStep ==
    ASSUME ServiceTypeOK, Orderly, ~clash, NEW r \in Requests, handling[r] \notin Answers \cup {"idle"},
           \A q \in Requests \ {r} : handling'[q] = handling[q],
           (\A p, q \in Alive : p = q)',
           ready' => \A p \in Pids : agent'[p] # "boot",
           inherited' = {},
           proc' # NoPid => agent'[proc'] # "none",
           handling'[r] \in {"startClean", "startSpawn"} => Alive' = {},
           handling'[r] = "startSpawn" => ~ready' /\ ~shutdown',
           handling'[r] = "stopWait" => victim'[r] = proc',
           handling'[r] = "stopEnd" => agent'[victim'[r]] = "dead",
           handling'[r] = "killWait" => agent'[victim'[r]] # "none"
    PROVE  Orderly'
<1>1. \A q \in Requests \ {r} : handling'[q] \in Answers \cup {"idle"}
    BY OthersIdle
<1>2. \A q \in Requests \ {r} : handling'[q] \notin {"startClean", "startSpawn", "stopWait", "stopEnd",
                                                    "killWait"}
    BY <1>1 DEF Answers
<1>3. \A q \in UnderWay' : q = r
    BY <1>1 DEF UnderWay
<1> QED BY <1>2, <1>3 DEF Orderly

\* A look-up that sees finds an agent if there is one.
LEMMA FoundSeeing ==
    ASSUME NEW p \in Pids \cup {NoPid}, Found(p, TRUE)
    PROVE  p = NoPid => Alive = {}
BY PidsType DEF Found, IsAlive

\* A handler keeps the order.
LEMMA HandleOrderly ==
    ASSUME ServiceTypeOK, Orderly, NEW r \in Requests, Handle(r), ~clash'
    PROVE  Orderly'
<1> USE DEF At
<1>0. \A p \in Pids : p # NoPid
    BY PidsType
<1>1. ASSUME NEW p \in Pids \cup {NoPid}, NEW see \in BOOLEAN, StartCheck(r, p, see)
      PROVE  Orderly'
    <2>1. /\ handling[r] = "startCheck" /\ ~clash /\ UNCHANGED <<agent, proc, files, victim, inherited>>
          /\ see
        BY <1>1 DEF StartCheck, Look, ServiceTypeOK
    <2>2. PICK a \in {"conflict", "startClean"} :
              /\ Go(r, a) \/ Reply(r, a)
              /\ a = "startClean" => p = NoPid /\ Found(p, see)
        BY <1>1 DEF StartCheck
    <2>3. handling'[r] = a /\ \A q \in Requests \ {r} : handling'[q] = handling[q]
        BY <2>2, GoType DEF Places, Answers
    <2>4. a = "startClean" => Alive = {}
        BY <2>1, <2>2, FoundSeeing
    <2>5. Alive' = Alive
        BY <2>1 DEF Alive, IsAlive
    <2> QED BY <2>1, <2>3, <2>4, <2>5, RequestStep DEF Answers, Orderly
<1>2. ASSUME StartClean(r) PROVE Orderly'
    <2>1. /\ handling[r] = "startClean" /\ ~clash /\ ~ready' /\ ~shutdown'
          /\ UNCHANGED <<agent, proc, victim, inherited>>
        BY <1>2 DEF StartClean
    <2>2. handling'[r] = "startSpawn" /\ \A q \in Requests \ {r} : handling'[q] = handling[q]
        BY <1>2, GoType DEF StartClean, Places
    <2>3. Alive' = Alive
        BY <2>1 DEF Alive, IsAlive
    <2> QED BY <2>1, <2>2, <2>3, RequestStep DEF Answers, Orderly
<1>3. ASSUME NEW p \in Pids, StartSpawn(r, p) PROVE Orderly'
    <2>1. /\ handling[r] = "startSpawn" /\ ~clash /\ UNCHANGED <<files, victim>>
          /\ proc' = p /\ agent' = [agent EXCEPT ![p] = "boot"]
          /\ inherited' = IF shutdown THEN inherited \cup {p} ELSE inherited
        BY <1>3 DEF StartSpawn, Spawn
    <2>2. handling'[r] = "startWait" /\ \A q \in Requests \ {r} : handling'[q] = handling[q]
        BY <1>3, GoType DEF StartSpawn, Places
    <2>3. Alive = {} /\ ~ready /\ ~shutdown /\ inherited = {}
        BY <2>1 DEF Orderly
    <2>4. Alive' \subseteq {p}
        BY <2>1, <2>3 DEF Alive, IsAlive, ServiceTypeOK
    <2>5. agent'[proc'] = "boot"
        BY <2>1 DEF ServiceTypeOK
    <2> QED BY <2>1, <2>2, <2>3, <2>4, <2>5, RequestStep DEF Answers
<1>4. ASSUME StartWait(r) PROVE Orderly'
    <2>1. /\ handling[r] = "startWait" /\ ~clash /\ UNCHANGED <<agent, files, inherited>>
          /\ proc' \in {proc, NoPid}
        BY <1>4 DEF StartWait
    <2>2. PICK a \in {"started", "error"} : Reply(r, a)
        BY <1>4 DEF StartWait
    <2>3. handling'[r] = a /\ \A q \in Requests \ {r} : handling'[q] = handling[q]
        BY <2>2, GoType DEF Answers
    <2>4. Alive' = Alive
        BY <2>1 DEF Alive, IsAlive
    <2> QED BY <2>1, <2>3, <2>4, RequestStep DEF Answers, Orderly
<1>5. ASSUME NEW p \in Pids \cup {NoPid}, NEW see \in BOOLEAN, StopCheck(r, p, see)
      PROVE  Orderly'
    <2>1. /\ handling[r] = "stopCheck" /\ ~clash /\ UNCHANGED <<agent, proc, ready, inherited>> /\ see
        BY <1>5 DEF StopCheck, Look, ServiceTypeOK
    <2>2. PICK a \in {"stopGrab", "killWait", "already_stopped"} :
                    /\ Go(r, a) \/ Stopped(r, a)
                    /\ a = "killWait" => Go(r, a) /\ Found(p, see) /\ p # NoPid /\ Waits(r, p)
        BY <1>5 DEF StopCheck
    <2>3. handling'[r] \in {a, "startCheck"} /\ \A q \in Requests \ {r} : handling'[q] = handling[q]
        BY <2>2, GoType DEF Places, Answers
    <2>4. a = "killWait" => agent'[victim'[r]] # "none"
        BY <2>1, <2>2 DEF Found, Waits, IsAlive, ServiceTypeOK
    <2>5. Alive' = Alive
        BY <2>1 DEF Alive, IsAlive
    <2> QED BY <2>1, <2>3, <2>4, <2>5, RequestStep DEF Answers, Orderly
<1>6. ASSUME StopGrab(r) PROVE Orderly'
    <2>1. /\ handling[r] = "stopGrab" /\ ~clash /\ UNCHANGED <<agent, proc, shutdown, inherited>>
          /\ ready' => ready
        BY <1>6 DEF StopGrab
    <2>2. PICK a \in {"error", "stopWait"} :
              /\ Go(r, a) \/ Reply(r, a)
              /\ a = "stopWait" => Waits(r, proc)
        BY <1>6 DEF StopGrab
    <2>3. handling'[r] = a /\ \A q \in Requests \ {r} : handling'[q] = handling[q]
        BY <2>2, GoType DEF Places, Answers
    <2>4. a = "stopWait" => victim'[r] = proc'
        BY <2>1, <2>2 DEF Waits, ServiceTypeOK
    <2>5. Alive' = Alive
        BY <2>1 DEF Alive, IsAlive
    <2> QED BY <2>1, <2>3, <2>4, <2>5, RequestStep DEF Answers, Orderly
<1>7. ASSUME StopWait(r) PROVE Orderly'
    <2>1. /\ handling[r] = "stopWait" /\ ~clash /\ UNCHANGED <<proc, files, victim, inherited>>
          /\ victim[r] = proc /\ proc \in Pids
        BY <1>7 DEF StopWait, Orderly, ServiceTypeOK
    <2>2. handling'[r] = "stopEnd" /\ \A q \in Requests \ {r} : handling'[q] = handling[q]
        BY <1>7, GoType DEF StopWait, Places
    <2>3. agent' = IF IsAlive(proc) THEN [agent EXCEPT ![proc] = "dead"] ELSE agent
        BY <1>7, <2>1 DEF StopWait
    <2>4. agent'[proc] = "dead"
        BY <1>0, <2>1, <2>3 DEF Orderly, IsAlive, ServiceTypeOK
    <2>5. Alive' \subseteq Alive /\ \A q \in Pids : agent'[q] = "boot" => agent[q] = "boot"
        BY <2>3 DEF Alive, IsAlive, ServiceTypeOK
    <2> QED BY <2>1, <2>2, <2>4, <2>5, RequestStep DEF Answers, Orderly
<1>8. ASSUME StopEnd(r) PROVE Orderly'
    <2>1. /\ handling[r] = "stopEnd" /\ ~clash /\ UNCHANGED <<agent, shutdown, inherited>>
          /\ proc' = NoPid /\ ~ready'
        BY <1>8 DEF StopEnd
    <2>2. handling'[r] \in {"stopped", "startCheck"} /\ \A q \in Requests \ {r} : handling'[q] = handling[q]
        BY <1>8, GoType DEF StopEnd, Answers
    <2>3. Alive' = Alive
        BY <2>1 DEF Alive, IsAlive
    <2> QED BY <2>1, <2>2, <2>3, RequestStep DEF Answers, Orderly
<1>9. ASSUME NEW see \in BOOLEAN, KillWait(r, see) PROVE Orderly'
    <2>1. /\ handling[r] = "killWait" /\ ~clash /\ UNCHANGED <<files, inherited>>
          /\ proc' \in {proc, NoPid}
          /\ agent' = IF IsAlive(victim[r]) THEN [agent EXCEPT ![victim[r]] = "dead"] ELSE agent
        BY <1>9 DEF KillWait, Look
    <2>2. PICK a \in {"stopped", "error"} : Stopped(r, a) \/ Reply(r, a)
        BY <1>9 DEF KillWait
    <2>3. handling'[r] \in {a, "startCheck"} /\ \A q \in Requests \ {r} : handling'[q] = handling[q]
        BY <2>2, GoType DEF Answers
    <2>4. Alive' \subseteq Alive /\ (\A q \in Pids : agent'[q] = "boot" => agent[q] = "boot")
          /\ \A q \in Pids : agent[q] # "none" => agent'[q] # "none"
        BY <2>1 DEF Alive, IsAlive, ServiceTypeOK
    <2> QED BY <2>1, <2>3, <2>4, RequestStep DEF Answers, Orderly, ServiceTypeOK
<1> QED BY <1>1, <1>2, <1>3, <1>4, <1>5, <1>6, <1>7, <1>8, <1>9 DEF Handle

\* An agent that goes on or ends keeps the order.
LEMMA RunOrderly ==
    ASSUME ServiceTypeOK, Orderly, NEW p \in Pids, Run(p), ~clash'
    PROVE  Orderly'
<1>1. /\ ~clash /\ UNCHANGED <<proc, handlers, inherited>> /\ IsAlive(p)
      /\ agent' = [agent EXCEPT ![p] = agent'[p]] /\ agent'[p] \in Stages \ {"none", "boot"}
      /\ shutdown' => shutdown
    BY DEF Run, Boot, BootFails, Top, Poll, LoginFails, LeaveLoop, ServiceTypeOK, Stages, IsAlive
<1>2. Alive' \subseteq Alive /\ p \in Alive
    BY <1>1 DEF Alive, IsAlive, ServiceTypeOK
<1>3. \A q \in Pids : /\ agent'[q] = "boot" => agent[q] = "boot" /\ q # p
                      /\ agent[q] # "none" => agent'[q] # "none"
                      /\ agent[q] = "dead" => agent'[q] = "dead"
    BY <1>1 DEF IsAlive, ServiceTypeOK
<1>4. \A q \in Pids : agent[q] = "boot" => q \in Alive
    BY DEF Alive, IsAlive
<1>5. ready' => \A q \in Pids : agent'[q] # "boot"
    BY <1>1, <1>2, <1>3, <1>4 DEF Orderly
<1>6. \A r \in Requests : handling[r] \notin {"startClean", "startSpawn"}
    BY <1>1, <1>2 DEF Orderly
<1>7. UnderWay' = UnderWay
    BY <1>1 DEF UnderWay
<1> QED BY <1>1, <1>2, <1>3, <1>5, <1>6, <1>7 DEF Orderly, ServiceTypeOK

\* Every step keeps the order.
LEMMA StepOrderly == ServiceTypeOK /\ Orderly /\ [ServiceNext]_serviceVars => Orderly'
<1> SUFFICES ASSUME ServiceTypeOK, Orderly, [ServiceNext]_serviceVars, ~clash' PROVE Orderly'
    BY DEF Orderly
<1>1. ASSUME NEW r \in Requests, NEW k \in {"start", "stop", "restart"}, Issue(r, k)
      PROVE  Orderly'
    <2>1. /\ ~clash /\ UnderWay = {} /\ UNCHANGED <<agent, proc, files, victim, inherited>>
          /\ handling'[r] \in {"startCheck", "stopCheck"} /\ \A q \in Requests \ {r} : handling'[q] = handling[q]
        BY <1>1 DEF Issue, ServiceTypeOK
    <2>2. \A q \in Requests \ {r} : handling'[q] \in Answers \cup {"idle"}
        BY <2>1 DEF UnderWay
    <2>3. \A q \in UnderWay' : q = r
        BY <2>2 DEF UnderWay
    <2>4. \A q \in Requests : handling'[q] \notin {"startClean", "startSpawn", "stopWait", "stopEnd",
                                                   "killWait"}
        BY <2>1, <2>2 DEF Answers
    <2>5. Alive' = Alive
        BY <2>1 DEF Alive, IsAlive
    <2> QED BY <2>1, <2>3, <2>4, <2>5 DEF Orderly
<1>2. ASSUME NEW r \in Requests, Handle(r) PROVE Orderly'
    BY <1>2, HandleOrderly
<1>3. ASSUME NEW p \in Pids, Run(p) PROVE Orderly'
    BY <1>3, RunOrderly
<1>4. ASSUME NEW p \in Pids, StartExternally(p) PROVE Orderly'
    BY <1>4 DEF StartExternally
<1>5. ASSUME ReloadConsole PROVE Orderly'
    <2>1. /\ ~clash /\ UNCHANGED <<agent, files, inherited>> /\ proc' = NoPid
          /\ \A r \in Requests : handling'[r] \in Answers \cup {"idle"}
        BY <1>5 DEF ReloadConsole, UnderWay, ServiceTypeOK, Answers
    <2>2. UnderWay' = {}
        BY <2>1 DEF UnderWay
    <2>3. \A q \in Requests : handling'[q] \notin {"startClean", "startSpawn", "stopWait", "stopEnd",
                                                   "killWait"}
        BY <2>1 DEF Answers
    <2>4. Alive' = Alive
        BY <2>1 DEF Alive, IsAlive
    <2> QED BY <2>1, <2>2, <2>3, <2>4 DEF Orderly
<1>6. ASSUME UNCHANGED serviceVars PROVE Orderly'
    BY <1>6 DEF Orderly, UnderWay, Alive, IsAlive
<1> QED BY <1>1, <1>2, <1>3, <1>4, <1>5, <1>6 DEF ServiceNext

\* Nothing runs at the start.
LEMMA InitOrderly == ServiceInit => Orderly
BY DEF ServiceInit, Orderly, UnderWay, Alive, IsAlive

\* Requests that do not overlap never lead to two agents.
THEOREM OneAgentCorrect == ServiceSpec => []OneAgent
<1>1. Orderly => OneAgent
    BY DEF Orderly, OneAgent
<1> QED BY <1>1, ServiceInitType, InitOrderly, ServiceStepType, StepOrderly, PTL DEF ServiceSpec

\* The ready file announces no agent that is still starting, and no agent is told
\* to leave by a shutdown file older than itself.
THEOREM SignalFilesCorrect == ServiceSpec => []SignalFiles
<1>1. Orderly => SignalFiles
    BY DEF Orderly, SignalFiles, ReadyMeansListening, FreshStart
<1> QED BY <1>1, ServiceInitType, InitOrderly, ServiceStepType, StepOrderly, PTL DEF ServiceSpec

\* What a step has done when it answers "stopped".
AnswerIsTrue ==
    ~clash' => \A r \in Requests : handling[r] # "stopped" /\ handling'[r] = "stopped" =>
                   victim[r] \in Pids /\ agent'[victim[r]] = "dead"

\* Only StopEnd and KillWait answer "stopped".
LEMMA WhoAnswers ==
    ASSUME ServiceTypeOK, ServiceNext, NEW r \in Requests, handling[r] # "stopped", handling'[r] = "stopped"
    PROVE  StopEnd(r) \/ \E see \in BOOLEAN : KillWait(r, see)
<1>1. ASSUME NEW q \in Requests, NEW k \in {"start", "stop", "restart"}, Issue(q, k) PROVE FALSE
    BY <1>1 DEF Issue, ServiceTypeOK
<1>2. ASSUME NEW q \in Requests,
             NEW a \in {"started", "already_stopped", "conflict", "error", "startClean",
                        "startSpawn", "startWait", "stopGrab", "stopWait", "stopEnd", "killWait"},
             Go(q, a) \/ Reply(q, a) \/ Stopped(q, a)
      PROVE  FALSE
    <2>1. a \in Places \cup Answers
        BY DEF Places, Answers
    <2> QED BY <1>2, <2>1, GoType
<1>3. ASSUME NEW q \in Requests, NEW p \in Pids \cup {NoPid}, NEW see \in BOOLEAN,
             StartCheck(q, p, see) \/ StopCheck(q, p, see)
      PROVE  FALSE
    BY <1>2, <1>3 DEF StartCheck, StopCheck
<1>4. ASSUME NEW q \in Requests, StartClean(q) \/ StartWait(q) \/ StopGrab(q) \/ StopWait(q)
      PROVE  FALSE
    BY <1>2, <1>4 DEF StartClean, StartWait, StopGrab, StopWait
<1>5. ASSUME NEW q \in Requests, NEW p \in Pids, StartSpawn(q, p) PROVE FALSE
    BY <1>2, <1>5 DEF StartSpawn
<1>6. ASSUME NEW q \in Requests, StopEnd(q) PROVE q = r
    <2>1. \A o \in Requests \ {q} : handling'[o] = handling[o]
        BY <1>6, GoType DEF StopEnd, Answers
    <2> QED BY <2>1
<1>7. ASSUME NEW q \in Requests, NEW see \in BOOLEAN, KillWait(q, see) PROVE q = r
    <2>1. \A o \in Requests \ {q} : handling'[o] = handling[o]
        BY <1>7, GoType DEF KillWait, Answers
    <2> QED BY <2>1
<1>8. ASSUME NEW p \in Pids, Run(p) \/ StartExternally(p) PROVE FALSE
    BY <1>8 DEF Run, Boot, BootFails, Top, Poll, LoginFails, LeaveLoop, StartExternally
<1>9. ASSUME ReloadConsole PROVE FALSE
    BY <1>9 DEF ReloadConsole, ServiceTypeOK
<1> QED BY <1>1, <1>3, <1>4, <1>5, <1>6, <1>7, <1>8, <1>9 DEF ServiceNext, Handle

\* The answer is true.
LEMMA StepAnswer == ServiceTypeOK /\ Orderly /\ [ServiceNext]_serviceVars => [AnswerIsTrue]_serviceVars
<1> SUFFICES ASSUME ServiceTypeOK, Orderly, ServiceNext, ~clash', NEW r \in Requests,
                    handling[r] # "stopped", handling'[r] = "stopped"
             PROVE  victim[r] \in Pids /\ agent'[victim[r]] = "dead"
    BY DEF AnswerIsTrue
<1>1. CASE StopEnd(r)
    BY <1>1 DEF StopEnd, At, Orderly, ServiceTypeOK
<1>2. ASSUME NEW see \in BOOLEAN, KillWait(r, see)
      PROVE  victim[r] \in Pids /\ agent'[victim[r]] = "dead"
    <2>1. handling[r] = "killWait" /\ ~clash /\ victim[r] \in Pids /\ agent[victim[r]] # "none"
        BY <1>2 DEF KillWait, At, Look, Orderly, ServiceTypeOK
    <2>2. agent' = IF IsAlive(victim[r]) THEN [agent EXCEPT ![victim[r]] = "dead"] ELSE agent
        BY <1>2 DEF KillWait
    <2> QED BY <2>1, <2>2 DEF IsAlive, ServiceTypeOK
<1> QED BY <1>1, <1>2, WhoAnswers

\* "stopped" is answered only when the agent in question has ended.
THEOREM StoppedCorrect == ServiceSpec => StoppedIsStopped
<1>1. StoppedIsStopped <=> [][AnswerIsTrue]_serviceVars
    BY DEF StoppedIsStopped, AnswerIsTrue
<1> QED BY <1>1, ServiceInitType, InitOrderly, ServiceStepType, StepOrderly, StepAnswer, PTL DEF ServiceSpec
=============================================================================
