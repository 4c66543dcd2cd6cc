-------------------------- MODULE MCBackupRestore --------------------------
(* A small instance of BackupRestore for TLC.                               *)
EXTENDS BackupRestore, TLC

CONSTANTS f1, f2, old, new

(* The restore replaces one file and creates the other.                     *)
OneFileMissing == (f1 :> old) @@ (f2 :> None)
BothFiles == (f1 :> new) @@ (f2 :> new)

MCScenes == {
    \* failing system calls and failing cleanup, and a crash or power loss
    [failures |-> {"io", "cleanup"}, faults |-> 2, crashes |-> 1, snapshots |-> 3],
    \* two crashes, one of them perhaps within recovery, and a journal removal not synced
    [failures |-> {"io", "retire"}, faults |-> 1, crashes |-> 2, snapshots |-> 3],
    \* a crash while a snapshot is pruned, and the operations after it
    [failures |-> {}, faults |-> 0, crashes |-> 1, snapshots |-> 4]}
=============================================================================
