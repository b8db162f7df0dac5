--------------------------- MODULE MCBackupRestore ---------------------------
(* A small instance: two bodies of the same model and firmware. *)
EXTENDS BackupRestore

MCIdentityOf == [b \in Bodies |-> 1]
=============================================================================
