--------------------------- MODULE MCBackupRestore ---------------------------
(***************************************************************************)
(* BackupRestore for TLC: one book, three operations, and a backup made in *)
(* another installation.                                                   *)
(***************************************************************************)
EXTENDS BackupRestore

CONSTANT Elsewhere      \* the book in the backup made elsewhere

\* Where two were at the lock together the properties ask for nothing more.
OneAtTheLock == ~crossed

MCForeign == [rows |-> {Elsewhere}, files |-> {Elsewhere}, gone |-> {}, swapped |-> {}]
=============================================================================
