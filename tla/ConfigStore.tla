------------------------------ MODULE ConfigStore ------------------------------
(***************************************************************************)
(* The web console's configuration pages (web/api/services/                *)
(* config_service.py): forms filled from .env and config.yaml, changed by  *)
(* users and written back by read, merge, truncate and write, under one    *)
(* lock; and what config.py makes of the two files when an agent starts.   *)
(*                                                                         *)
(* Every page stands with the keys that differ in where they are kept, who *)
(* else shows them and how they are saved; keys of a section treated alike *)
(* are one field.                                                          *)
(***************************************************************************)
EXTENDS Naturals

CONSTANTS Users,        \* browser tabs
          Pages,        \* the pages they open
          Vals,         \* values users type
          Missing,      \* the key is not in the file
          Empty,        \* the key is there with no value
          Default,      \* the console's default
          Masked,       \* what mask_value shows of a secret
          Own,          \* the agent's default where the console has another
          MaxSaves      \* bound: saves started

\* Where each field is kept: .env, or a section of config.yaml.
Section ==
    [LLM_MODEL |-> "env", LLM_API_KEY |-> "env", VISION_MODEL |-> "env",
     WORKSPACE_DIR |-> "env", vision_route |-> "model_router",
     dev_mode |-> "security", max_history |-> "limits", max_chars |-> "advanced",
     relevance_threshold |-> "advanced", whisper_model |-> "advanced",
     dir |-> "workspace", indexer_enabled |-> "indexer",
     default_top_k |-> "retriever", system_prompt |-> "prompts",
     actions |-> "system_control", rules |-> "file_organize", servers |-> "mcp"]
Fields == DOMAIN Section

\* What a page saves and the sections it replaces as a whole (replace_keys);
\* in other sections its keys are merged into what is there.
LlmPage == [fields |-> {"LLM_MODEL", "LLM_API_KEY", "VISION_MODEL"}, replaces |-> {}]
RouterPage == [fields |-> {"vision_route"}, replaces |-> {"model_router"}]
SecurityPage == [fields |-> {"dev_mode"}, replaces |-> {"security"}]
LimitsPage == [fields |-> {"max_history", "max_chars"}, replaces |-> {"limits"}]
WorkspacePage == [fields |-> {"WORKSPACE_DIR", "dir"}, replaces |-> {"workspace"}]
IndexerPage == [fields |-> {"indexer_enabled"}, replaces |-> {"indexer"}]
RetrieverPage == [fields |-> {"default_top_k"}, replaces |-> {"retriever"}]
MemoryPage == [fields |-> {"indexer_enabled", "default_top_k", "relevance_threshold"},
               replaces |-> {"indexer", "retriever"}]
ToolsPage == [fields |-> {"whisper_model"}, replaces |-> {}]
PromptsPage == [fields |-> {"system_prompt"}, replaces |-> {"prompts"}]
SystemControlPage == [fields |-> {"actions"}, replaces |-> {"system_control"}]
FileOrganizePage == [fields |-> {"rules"}, replaces |-> {"file_organize"}]

\* Mutant of AdvancedPage: a key of the tools page is not on it.
AdvancedPageShort == [fields |-> {"max_chars", "relevance_threshold"},
                      replaces |-> {"advanced"}]

AdvancedPage == [fields |-> {"max_chars", "relevance_threshold", "whisper_model"},
                 replaces |-> {"advanced"}]

Page == [llm |-> LlmPage, router |-> RouterPage, security |-> SecurityPage,
         limits |-> LimitsPage, workspace |-> WorkspacePage, indexer |-> IndexerPage,
         retriever |-> RetrieverPage, memory |-> MemoryPage, tools |-> ToolsPage,
         prompts |-> PromptsPage, system_control |-> SystemControlPage,
         file_organize |-> FileOrganizePage, advanced |-> AdvancedPage]

ASSUME ConfigAssumption ==
    /\ Masked \notin {Missing, Empty, Default} /\ Missing \notin {Empty, Default, Own}
    /\ Vals # {} /\ Vals \cap {Missing, Empty, Default, Masked, Own} = {}
    /\ Pages \subseteq DOMAIN Page /\ "nobody" \notin Users
    /\ MaxSaves \in Nat

Content == Vals \cup {Missing, Empty, Default}
Value == Vals \cup {Empty, Default, Masked}        \* what a form can show
Secrets == {"LLM_API_KEY"}
Files == {"env", "yaml"}
FileOf(f) == IF Section[f] = "env" THEN "env" ELSE "yaml"
InFile(file) == {f \in Fields : FileOf(f) = file}
-----------------------------------------------------------------------------
VARIABLES
    disk,     \* the two files
    environ,  \* the console's environment: the .env it was started with
    lock,     \* who holds _lock: a user's request, or nobody
    pc,       \* per user: away, form, queued, then the steps of the save
    at,       \* per user, the file its save is at
    form,     \* per user, the page and the values in its form
    edited,   \* per user, the field changed, or none
    old,      \* per user, what its save has read
    saves     \* saves started

vars == <<disk, environ, lock, pc, at, form, edited, old, saves>>

Nobody == "nobody"
Gone == [f \in Fields |-> Missing]
NoForm == [page |-> "none", values |-> <<>>]
FieldsOf(u) == Page[form[u].page].fields

\* read_env gives "" for a key that is not in .env; the yaml getters give the
\* default.  The router page shows the vision model of the console's own
\* environment in place of the route's, and the workspace page takes its
\* directory from .env alone.
EnvShown(disk_, f) ==
    IF disk_[f] \in {Missing, Empty} THEN Empty
    ELSE IF f \in Secrets THEN Masked ELSE disk_[f]

Shown(disk_, f) ==
    CASE FileOf(f) = "env" -> EnvShown(disk_, f)
      [] f = "dir" -> EnvShown(disk_, "WORKSPACE_DIR")
      [] f = "vision_route" /\ environ["VISION_MODEL"] \in Vals -> environ["VISION_MODEL"]
      [] OTHER -> IF disk_[f] = Missing THEN Default ELSE disk_[f]

\* Mutant of Apply: a masked value is written like any other.
ApplyVerbatim(disk_, form_) ==
    [f \in Fields |->
        IF f \in Page[form_.page].fields THEN form_.values[f]
        ELSE IF Section[f] \in Page[form_.page].replaces THEN Missing ELSE disk_[f]]

\* write_env and write_yaml: what the files hold after a save.
Apply(disk_, form_) ==
    [f \in Fields |->
        IF f \in Page[form_.page].fields
        THEN IF FileOf(f) = "env" /\ form_.values[f] = Masked THEN disk_[f] ELSE form_.values[f]
        ELSE IF Section[f] \in Page[form_.page].replaces THEN Missing ELSE disk_[f]]

Writes(page) == {FileOf(f) : f \in Page[page].fields}

\* What an agent started by hand makes of the files: a key that is there has its
\* value, an empty one too; some defaults are not the console's.
OwnDefault == {"LLM_MODEL", "WORKSPACE_DIR", "max_chars"}
Meaning(disk_, f) ==
    IF f = "vision_route" /\ disk_["VISION_MODEL"] \in Vals THEN disk_["VISION_MODEL"]
    ELSE IF disk_[f] # Missing THEN disk_[f]
    ELSE IF f \in OwnDefault THEN Own
    ELSE IF FileOf(f) = "env" THEN Empty ELSE Default

\* An agent started by the console inherits its environment, which load_dotenv
\* does not override; an empty variable is not inherited.
Inherited(f) == IF environ[f] \in Vals THEN environ[f] ELSE Meaning(disk, f)
-----------------------------------------------------------------------------
\* .env has its key and no WORKSPACE_DIR; config.yaml is as delivered; a vision
\* model and the key max_chars are there or not.
Init ==
    /\ \E added \in {Missing, CHOOSE v \in Vals : TRUE} :
           disk = [f \in Fields |-> CASE f = "WORKSPACE_DIR" -> Missing
                                      [] f \in {"VISION_MODEL", "max_chars"} -> added
                                      [] OTHER -> CHOOSE v \in Vals : TRUE]
    /\ environ = [f \in InFile("env") |-> disk[f]]
    /\ lock = Nobody /\ pc = [u \in Users |-> "away"] /\ at = [u \in Users |-> "env"]
    /\ form = [u \in Users |-> NoForm] /\ edited = [u \in Users |-> "none"]
    /\ old = [u \in Users |-> Gone] /\ saves = 0

\* GET /api/config/{module}, under the lock.
Open(u, page) ==
    /\ pc[u] = "away" /\ lock = Nobody
    /\ pc' = [pc EXCEPT ![u] = "form"]
    /\ form' = [form EXCEPT ![u] =
           [page |-> page, values |-> [f \in Page[page].fields |-> Shown(disk, f)]]]
    /\ UNCHANGED <<disk, environ, lock, at, edited, old, saves>>

\* The user changes a field; the directory is one field on the page.
Edit(u, f, v) ==
    /\ pc[u] = "form" /\ edited[u] = "none" /\ f \in FieldsOf(u) \ {"dir"}
    /\ v # form[u].values[f]
    /\ edited' = [edited EXCEPT ![u] = f]
    /\ form' = [form EXCEPT ![u].values =
           [g \in FieldsOf(u) |-> IF g = f \/ (f = "WORKSPACE_DIR" /\ g = "dir") THEN v ELSE @[g]]]
    /\ UNCHANGED <<disk, environ, lock, pc, at, old, saves>>

\* PUT /api/config/{module}: update_module_config waits for the lock ...
Put(u) ==
    /\ pc[u] = "form" /\ saves < MaxSaves
    /\ saves' = saves + 1 /\ pc' = [pc EXCEPT ![u] = "queued"]
    /\ UNCHANGED <<disk, environ, lock, at, form, edited, old>>

\* Mutant of Lock: the save does not wait for the lock.
LockNot(u) ==
    /\ pc[u] = "queued"
    /\ lock' = u /\ pc' = [pc EXCEPT ![u] = "read"]
    /\ at' = [at EXCEPT ![u] = IF "env" \in Writes(form[u].page) THEN "env" ELSE "yaml"]
    /\ UNCHANGED <<disk, environ, form, edited, old, saves>>

\* ... takes it ...
Lock(u) ==
    /\ pc[u] = "queued" /\ lock = Nobody
    /\ lock' = u /\ pc' = [pc EXCEPT ![u] = "read"]
    /\ at' = [at EXCEPT ![u] = IF "env" \in Writes(form[u].page) THEN "env" ELSE "yaml"]
    /\ UNCHANGED <<disk, environ, form, edited, old, saves>>

\* ... reads a file ...
Read(u) ==
    /\ pc[u] = "read"
    /\ old' = [old EXCEPT ![u] = disk] /\ pc' = [pc EXCEPT ![u] = "cut"]
    /\ UNCHANGED <<disk, environ, lock, at, form, edited, saves>>

\* ... opens it for writing, which empties it ...
Truncate(u) ==
    /\ pc[u] = "cut"
    /\ disk' = [f \in Fields |-> IF FileOf(f) = at[u] THEN Missing ELSE disk[f]]
    /\ pc' = [pc EXCEPT ![u] = "write"]
    /\ UNCHANGED <<environ, lock, at, form, edited, old, saves>>

\* ... writes it, and goes on with the second file or is done ...
Write(u) ==
    /\ pc[u] = "write"
    /\ disk' = [f \in Fields |->
                   IF FileOf(f) = at[u] THEN Apply(old[u], form[u])[f] ELSE disk[f]]
    /\ IF at[u] = "env" /\ "yaml" \in Writes(form[u].page)
       THEN pc' = [pc EXCEPT ![u] = "read"] /\ at' = [at EXCEPT ![u] = "yaml"]
       ELSE pc' = [pc EXCEPT ![u] = "done"] /\ at' = at
    /\ UNCHANGED <<environ, lock, form, edited, old, saves>>

Leave(u) ==
    /\ pc' = [pc EXCEPT ![u] = "away"] /\ at' = [at EXCEPT ![u] = "env"]
    /\ form' = [form EXCEPT ![u] = NoForm] /\ edited' = [edited EXCEPT ![u] = "none"]
    /\ old' = [old EXCEPT ![u] = Gone]
    /\ UNCHANGED <<disk, environ, saves>>

\* ... and releases the lock.
Unlock(u) == pc[u] = "done" /\ lock' = Nobody /\ Leave(u)

\* Forms put aside without saving.
Close(u) == pc[u] = "form" /\ Leave(u) /\ UNCHANGED lock

\* POST /api/config/reload: load_dotenv adds the variables that are not set.
Reload ==
    /\ environ' = [f \in InFile("env") |-> IF environ[f] = Missing THEN disk[f] ELSE environ[f]]
    /\ environ' # environ
    /\ UNCHANGED <<disk, lock, pc, at, form, edited, old, saves>>

\* The console ends, maybe between emptying and writing a file, and is started
\* again; forms stay in the browsers, with the saves they were waiting for lost.
ConsoleRestart ==
    /\ environ' = [f \in InFile("env") |-> disk[f]]
    /\ lock' = Nobody /\ at' = [u \in Users |-> "env"] /\ old' = [u \in Users |-> Gone]
    /\ pc' = [u \in Users |-> IF pc[u] = "away" THEN "away" ELSE "form"]
    /\ UNCHANGED <<disk, form, edited, saves>>

SaveStep(u) == Lock(u) \/ Read(u) \/ Truncate(u) \/ Write(u) \/ Unlock(u)

Next ==
    \/ \E u \in Users : \/ \E page \in Pages : Open(u, page)
                        \/ \E f \in Fields, v \in Vals : Edit(u, f, v)
                        \/ Put(u) \/ SaveStep(u) \/ Close(u)
    \/ Reload
    \/ ConsoleRestart

Spec == Init /\ [][Next]_vars
-----------------------------------------------------------------------------
Saving(u) == pc[u] \in {"read", "cut", "write", "done"}
FormValues(page) == [Page[page].fields -> Value]

\* The variables have their types; a form has a value in every field.
TypeOK ==
    /\ disk \in [Fields -> Content \cup {Masked}]
    /\ environ \in [InFile("env") -> Content \cup {Masked}]
    /\ lock \in Users \cup {Nobody}
    /\ pc \in [Users -> {"away", "form", "queued", "read", "cut", "write", "done"}]
    /\ at \in [Users -> Files] /\ edited \in [Users -> Fields \cup {"none"}]
    /\ \A u \in Users : IF pc[u] = "away" THEN form[u] = NoForm
                        ELSE form[u].page \in Pages /\ form[u].values \in FormValues(form[u].page)
    /\ old \in [Users -> [Fields -> Content \cup {Masked}]] /\ saves \in 0..MaxSaves

\* _lock is held exactly while a save works on the files, and by that save.
Exclusive == \A u \in Users : Saving(u) <=> lock = u

\* No key is replaced by what the page shows in its place, whoever saves what.
SecretsSurvive == \A f \in Fields : disk[f] # Masked

\* What the files hold once the save at work is done with the file it empties.
Logical == [f \in Fields |->
               IF lock # Nobody /\ pc[lock] = "write" /\ at[lock] = FileOf(f)
               THEN old[lock][f] ELSE disk[f]]

Store == INSTANCE AtomicFiles
    WITH store <- Logical, asked <- {form[u] : u \in {v \in Users : pc[v] # "away"}}

\* Saves of several users are atomic, file by file.
Implements == Store!Spec

\* A save from a form that shows what the save reads changes, for an agent
\* started by hand, what its user changed and nothing else -- but a default of
\* the agent gives way to the console's, and a route's vision model to the one
\* the console was started with.
UpToDate(u) ==
    \A f \in FieldsOf(u) : \/ form[u].values[f] = Shown(old[u], f)
                           \/ f = edited[u] \/ (f = "dir" /\ edited[u] = "WORKSPACE_DIR")
SaveMeansEdit ==
    [][\A u \in Users : Write(u) /\ UpToDate(u) =>
          \A f \in InFile(at[u]) \ {edited[u], "dir"} :
              \/ Meaning(disk', f) = Meaning(old[u], f)
              \/ old[u][f] = Missing /\ f \in OwnDefault
              \/ f = "vision_route" /\ environ["VISION_MODEL"] # old[u]["VISION_MODEL"]]_vars

\* LLMConfig.tsx:69: what is saved takes effect when the service is restarted,
\* which the dashboard does from the console.
RestartApplies == lock = Nobody => \A f \in InFile("env") : Inherited(f) = Meaning(disk, f)
=============================================================================
