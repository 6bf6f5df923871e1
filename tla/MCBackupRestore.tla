--------------------------- MODULE MCBackupRestore ---------------------------
(* Model checking of BackupRestore: see the README for the runs.           *)
EXTENDS BackupRestore, TLC

\* Processes differ in nothing.
Symmetry == Permutations(Process)

===============================================================================
