------------------------------ MODULE AtomicFiles ------------------------------
(***************************************************************************)
(* What the console's configuration store promises: every save changes     *)
(* each of its files in one step, from what the file holds at that moment, *)
(* so that no save undoes the change of another one behind its back.  The  *)
(* end of the console may cost one file.                                   *)
(***************************************************************************)
CONSTANTS Fields, Files, FileOf(_),    \* every field is kept in one file
          Apply(_, _),                 \* the contents after saving a form
          Missing

VARIABLES store,                       \* the contents of the files
          asked                        \* the forms there are to save

Replace(file, contents) ==
    store' = [f \in Fields |-> IF FileOf(f) = file THEN contents[f] ELSE store[f]]

Save(form, file) == Replace(file, Apply(store, form))
Lose(file) == Replace(file, [f \in Fields |-> Missing])

Next == \E file \in Files : Lose(file) \/ \E form \in asked : Save(form, file)

Spec == [][Next]_store
=============================================================================
