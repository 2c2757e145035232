--------------------------- MODULE ChangeLogStored ---------------------------
(***************************************************************************)
(* The change log implements the RecordStore that its callers rely on.     *)
(***************************************************************************)
EXTENDS ChangeLog

\* A request has taken effect once its file is written or unlinked.
CallOf(w) ==
  [name |-> req[w].name, value |-> req[w].value, alone |-> req[w].alone,
   done |-> req[w].pc \notin {"idle", "write", "writing", "unlink"}]

Store == INSTANCE RecordStore WITH
  record <- file,
  call   <- [w \in Workers |-> CallOf(w)]

\* A put or a delete changes its record once, before it is answered "ok" or with
\* an error, and nothing else changes a record: not the package's import, a lost
\* repository or a "git rm" that removes the file too.  A kill leaves it as it is,
\* torn if a put was just writing it.  Only requests that meet on one record can
\* undo, lose or mix what each other does (store.py:75-112).
KeepsRecords == Store!Spec
=============================================================================
