------------------------- MODULE MCFileTransaction -------------------------
(* Instances of FileTransaction for TLC, and statements of the code's      *)
(* comments that the model refutes.                                        *)
EXTENDS FileTransaction

(* "if rename() succeeds, the file is guaranteed to exist with the new     *)
(* content" (atomic_write_file_async): a file a tool's rename has replaced *)
(* reads as what the tool wrote.                                           *)
RenamedIsNew == \A f \in Files : disk[f].text \in DOMAIN log => Content(f) = disk[f].text

(* "so rollback cannot overwrite a concurrent update" (edit_file): undoing *)
(* replaces nothing but what the call itself has written.                  *)
RollbackKeepsUpdates == \A l \in lost : l.when # "undo"
=============================================================================
