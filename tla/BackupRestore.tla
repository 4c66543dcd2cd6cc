--------------------------- MODULE BackupRestore ---------------------------
(* The backup Manager of one project (internal/backup): snapshots of its    *)
(* managed files, the journaled multi-file restore transaction with its     *)
(* rollback, the recovery of that transaction after a crash, and the        *)
(* pruning of snapshots.  Manager.storageMu and the project lock make its   *)
(* operations sequential; what interleaves with them are failing system     *)
(* calls, the death of the process, and the loss of power, which undoes     *)
(* directory changes that were not synced.                                  *)
EXTENDS Naturals, FiniteSets, FiniteSetsExt

CONSTANTS
    Files,          \* managed relative paths
    Ops,            \* restore operation ids
    None,           \* content of a path that does not exist
    Original,       \* contents of the project before the first operation
    Stored,         \* contents in the manual backup that exists at the start
    Edited,         \* what a file write writes
    Keep,           \* AutomaticSnapshotRetention
    MaxSnapshots,   \* bound on backups created
    Scenes          \* kinds and number of failures, number of crashes and of backups

Contents == {Edited, None} \cup {Original[f] : f \in Files} \cup {Stored[f] : f \in Files}
Tree == [Files -> Contents]
Ids == 1..MaxSnapshots
Failures == {"io", "cleanup", "retire"}

ASSUME BackupAssumption ==
    /\ Keep \in Nat \ {0} /\ MaxSnapshots \in Nat \ {0}
    /\ Scenes \subseteq [failures : SUBSET Failures, faults : Nat, crashes : Nat,
                         snapshots : 1..MaxSnapshots]
    /\ {Original, Stored} \subseteq Tree /\ Edited # None

(* A stored backup directory.  Removing one is not atomic: a crash leaves   *)
(* it without its archive, or without its manifest.                         *)
Snapshot == [trigger : {"manual", "pre_write", "pre_restore"}, data : Tree,
             state : {"absent", "ok", "noArchive", "noManifest"}]
NoSnapshot == [trigger |-> "manual", data |-> [f \in Files |-> None], state |-> "absent"]

(* restoreJournal.  Whether a target existed is read off the snapshot, from *)
(* which the field OriginalExisted is filled in.                            *)
Journal == [phase : {"none", "PREPARING", "COMMITTING"}, snap : Ids, files : SUBSET Files,
            replaced : SUBSET Files]
NoJournal == [phase |-> "none", snap |-> 1, files |-> {}, replaced |-> {}]

VARIABLES
    cur, dur,       \* the project files: as seen, and as a power loss may leave them
    stg, stgDur,    \* staging files <<operation, purpose, target>>, likewise
    jr, jrDur,      \* the journal directory, likewise
    snaps, made,    \* the backup directories, in creation order, and how many were made
    blocked,        \* Manager.blocked holds the project
    pc,             \* where the running operation, or Recover, is
    tx,             \* its local variables
    todo,           \* journals Recover has yet to visit
    used,           \* operation ids already given to Restore
    told,           \* history: the trees that what was reported so far allows
    scene,          \* what may still happen
    failed          \* history: the kinds of failure there have been

fileVars == <<cur, dur>>
stgVars == <<stg, stgDur>>
jrVars == <<jr, jrDur>>
snapVars == <<snaps, made>>
bookVars == <<todo, used>>
faultVars == <<scene, failed>>
vars == <<fileVars, stgVars, jrVars, snapVars, blocked, pc, tx, bookVars, told, faultVars>>

(* Locals: the operation, the journal in memory, the purpose being staged,  *)
(* the snapshot staged from, the file in hand, the files rolled back, the   *)
(* tree before the restore, whether Recover runs it, whether discarding is  *)
(* tried again on return, and where to go when pruning is done.             *)
Locals == [op : Ops, j : Journal, purpose : {"restore", "rollback"}, src : Ids, f : Files,
           done : SUBSET Files, before : Tree, recovering : BOOLEAN, again : BOOLEAN,
           rolledBack : BOOLEAN, after : {"up", "write", "prune"}]
NoTx == [op |-> CHOOSE o \in Ops : TRUE, j |-> NoJournal, purpose |-> "restore", src |-> 1,
         f |-> CHOOSE f \in Files : TRUE, done |-> {}, before |-> Original,
         recovering |-> FALSE, again |-> FALSE, rolledBack |-> FALSE, after |-> "up"]

Existing(t) == {f \in Files : t[f] # None}
Entries(i) == Existing(snaps[i].data)
Names(op, purpose) == {<<op, purpose, f>> : f \in Files}
Plan(op, purpose, fs) == {<<op, purpose, f>> : f \in fs}
Automatic == {i \in Ids : snaps[i].state # "absent" /\ snaps[i].trigger # "manual"}
Unreadable == \E i \in Ids : snaps[i].state = "noManifest"
Restored(t, data) == [f \in Files |-> IF data[f] # None THEN data[f] ELSE t[f]]

(* A failure of one kind, while the bound allows one more.                  *)
Fault(kind) ==
    /\ kind \in scene.failures /\ scene.faults > 0
    /\ scene' = [scene EXCEPT !.faults = @ - 1]
    /\ failed' = failed \cup {kind}
NoFault == UNCHANGED faultVars

-----------------------------------------------------------------------------
(* Snapshots.                                                               *)

(* create: the archive and the manifest are synced in a staging directory   *)
(* that is renamed into place.                                              *)
create(trigger, fs) ==
    /\ made < scene.snapshots
    /\ made' = made + 1
    /\ snaps' = [snaps EXCEPT ![made + 1] =
                   [trigger |-> trigger, state |-> "ok",
                    data |-> [f \in Files |-> IF f \in fs THEN cur[f] ELSE None]]]

(* create fails, before or after the rename.                                *)
createFails(trigger, fs) ==
    /\ Fault("io")
    /\ create(trigger, fs) \/ UNCHANGED snapVars

(* backup.create: a manual backup of some existing files.                   *)
Create ==
    /\ pc = "up" /\ ~blocked
    /\ \E fs \in SUBSET Existing(cur) \ {{}} :
         \/ create("manual", fs) /\ NoFault
         \/ createFails("manual", fs)
    /\ UNCHANGED <<fileVars, stgVars, jrVars, blocked, pc, tx, bookVars, told>>

(* The automatic snapshots beyond the newest keep.                          *)
Excess(keep) == {i \in Automatic : Cardinality({k \in Automatic : k > i}) >= keep}

(* PruneAutomatic, at the end of a restore and before a file write commits. *)
(* It reads every manifest first, and fails when one is missing; then it    *)
(* removes the excess, newest first.                                        *)
PruneAutomatic ==
    /\ pc = "prune"
    /\ IF Unreadable
       THEN pc' = "up" /\ tx' = NoTx
       ELSE IF Excess(Keep) = {}
       THEN IF tx.after = "write" THEN pc' = "write" /\ UNCHANGED tx ELSE pc' = "up" /\ tx' = NoTx
       ELSE pc' = "unlink" /\ tx' = [tx EXCEPT !.src = Max(Excess(Keep))]
    /\ UNCHANGED <<fileVars, stgVars, jrVars, snapVars, blocked, bookVars, told, faultVars>>

(* ReclaimExcessAutomaticForDiskPressure and ReclaimOldAutomatic...: remove *)
(* the oldest snapshot beyond the newest Keep, or beyond the newest.        *)
Reclaim ==
    /\ pc = "up" /\ ~Unreadable
    /\ \E keep \in {1, Keep} :
         /\ Excess(keep) # {}
         /\ tx' = [NoTx EXCEPT !.src = Min(Excess(keep))]
    /\ pc' = "unlink"
    /\ UNCHANGED <<fileVars, stgVars, jrVars, snapVars, blocked, bookVars, told, faultVars>>

(* RemoveAll is on its way: archive or manifest is gone, the directory not. *)
RemoveEntry ==
    /\ pc = "unlink" /\ pc' = "rmdir"
    /\ \E s \in {"noArchive", "noManifest"} : snaps' = [snaps EXCEPT ![tx.src].state = s]
    /\ UNCHANGED <<fileVars, stgVars, jrVars, made, blocked, tx, bookVars, told, faultVars>>

(* The directory is gone and the loop goes on, or RemoveAll fails half way. *)
RemoveAll ==
    /\ pc = "rmdir"
    /\ \/ /\ snaps' = [snaps EXCEPT ![tx.src] = NoSnapshot]
          /\ IF tx.after = "up" THEN pc' = "up" /\ tx' = NoTx ELSE pc' = "prune" /\ UNCHANGED tx
          /\ NoFault
       \/ Fault("io") /\ pc' = "up" /\ tx' = NoTx /\ UNCHANGED snaps
    /\ UNCHANGED <<fileVars, stgVars, jrVars, made, blocked, bookVars, told>>

-----------------------------------------------------------------------------
(* A file write: the pre-write snapshot and its pruning, then the atomic    *)
(* and durable replacement of one file.                                     *)
runFileWrite(f) ==
    /\ pc = "up" /\ ~blocked /\ f \in Existing(cur)
    /\ \/ /\ create("pre_write", {f}) /\ NoFault
          /\ pc' = "prune" /\ tx' = [NoTx EXCEPT !.f = f, !.after = "write"]
       \/ createFails("pre_write", {f}) /\ UNCHANGED <<pc, tx>>
    /\ UNCHANGED <<fileVars, stgVars, jrVars, blocked, bookVars, told>>

(* The file is exchanged and the directory synced, or the write is refused: *)
(* a conflict, a cancel at the commit gate, or a failure that it undid.     *)
Write ==
    /\ pc = "write"
    /\ \/ /\ cur' = [cur EXCEPT ![tx.f] = Edited]
          /\ dur' = cur' /\ stgDur' = stg /\ told' = {cur'}
       \/ UNCHANGED <<fileVars, stgDur, told>>
    /\ pc' = "up" /\ tx' = NoTx
    /\ UNCHANGED <<stg, jrVars, snapVars, blocked, bookVars, faultVars>>

-----------------------------------------------------------------------------
(* The journal directory.                                                   *)

(* Mutant of writeJournal: the journal is renamed into place unsynced.      *)
writeJournalUnsynced(op, j, ok, err) ==
    /\ jr' = [jr EXCEPT ![op] = j] /\ UNCHANGED jrDur
    /\ NoFault /\ pc' = ok

(* writeJournal succeeds, or fails before the rename or in the sync after   *)
(* it.                                                                      *)
writeJournal(op, j, ok, err) ==
    \/ /\ jr' = [jr EXCEPT ![op] = j] /\ jrDur' = jr'
       /\ NoFault /\ pc' = ok
    \/ /\ Fault("io") /\ pc' = err
       /\ jr' \in {jr, [jr EXCEPT ![op] = j]} /\ UNCHANGED jrDur

(* removeJournal: the journal goes; or it stays; or it goes but the removal *)
(* is not synced.                                                           *)
removeJournal(op) ==
    /\ jr' = [jr EXCEPT ![op] = NoJournal] /\ jrDur' = jr'
    /\ NoFault

removeJournalFails(op) ==
    \/ Fault("io") /\ UNCHANGED jrVars
    \/ Fault("retire") /\ jr' = [jr EXCEPT ![op] = NoJournal] /\ UNCHANGED jrDur

(* removeStaged ignores its errors, and syncs the project directory.        *)
removeStaged(names) ==
    \/ /\ stg' = stg \ names /\ stgDur' = stg' /\ dur' = cur
       /\ NoFault
    \/ /\ Fault("cleanup")
       /\ \E left \in SUBSET (stg \cap names) : stg' = (stg \ names) \cup left
       /\ \/ stgDur' = stg' /\ dur' = cur
          \/ UNCHANGED <<stgDur, dur>>

-----------------------------------------------------------------------------
(* Restore.                                                                 *)

(* Up to the pre-restore snapshot.                                          *)
Restore(op, b) ==
    /\ pc = "up" /\ ~blocked /\ op \notin used
    /\ snaps[b].state \in {"ok", "noArchive"}
    /\ used' = used \cup {op}
    /\ \/ /\ create("pre_restore", Existing(cur) \cap Entries(b))
          /\ tx' = [NoTx EXCEPT !.op = op, !.src = b, !.before = cur, !.j =
                      [phase |-> "PREPARING", snap |-> made + 1, files |-> Entries(b), replaced |-> {}]]
          /\ pc' = "journal" /\ NoFault
       \/ /\ createFails("pre_restore", Existing(cur) \cap Entries(b))
          /\ UNCHANGED <<pc, tx>>
    /\ UNCHANGED <<fileVars, stgVars, jrVars, blocked, todo, told>>

(* The transaction is over: what is reported, and the pruning that follows. *)
Return(trees) ==
    /\ pc' = "prune" /\ tx' = [NoTx EXCEPT !.after = "prune"]
    /\ told' = trees

(* The first journal.  A failure here returns without discarding.           *)
WritePreparing ==
    /\ pc = "journal"
    /\ writeJournal(tx.op, tx.j, "purge", "prune")
    /\ tx' = IF pc' = "purge" THEN tx ELSE [NoTx EXCEPT !.after = "prune"]
    /\ UNCHANGED <<fileVars, stgVars, snapVars, blocked, bookVars, told>>

(* stageArchive, for the restore and for its rollback: purge what an        *)
(* earlier attempt left, then extract one file after the other.             *)
purgeStaging ==
    /\ pc = "purge" /\ pc' = "stage"
    /\ LET stale == stg \cap Names(tx.op, tx.purpose)
       IN IF stale = {} THEN UNCHANGED <<stgVars, dur>>
                        ELSE stg' = stg \ stale /\ stgDur' = stg' /\ dur' = cur
    /\ UNCHANGED <<cur, jrVars, snapVars, blocked, tx, bookVars, told, faultVars>>

StageFile(f) ==
    /\ pc = "stage" /\ snaps[tx.src].state = "ok"
    /\ f \in Entries(tx.src) /\ <<tx.op, tx.purpose, f>> \notin stg
    /\ stg' = stg \cup {<<tx.op, tx.purpose, f>>}
    /\ UNCHANGED <<fileVars, stgDur, jrVars, snapVars, blocked, pc, tx, bookVars, told, faultVars>>

StageDone ==
    /\ pc = "stage" /\ snaps[tx.src].state = "ok"
    /\ Plan(tx.op, tx.purpose, Entries(tx.src)) \subseteq stg
    /\ stgDur' = stg /\ dur' = cur
    /\ pc' = IF tx.purpose = "restore" THEN "gate" ELSE "rollback"
    /\ UNCHANGED <<cur, stg, jrVars, snapVars, blocked, tx, bookVars, told, faultVars>>

(* Staging fails: the archive is gone, a system call fails, or the restore  *)
(* is canceled.  What was staged is removed; a failing purge removes        *)
(* nothing.                                                                 *)
StageFails ==
    /\ \/ /\ pc = "stage"
          /\ snaps[tx.src].state # "ok" \/ tx.purpose = "restore"
          /\ removeStaged(Names(tx.op, tx.purpose))
       \/ /\ pc = "stage" /\ Fault("io")
          /\ stg' = stg \ Names(tx.op, tx.purpose) /\ stgDur' = stg' /\ dur' = cur
       \/ pc = "purge" /\ Fault("io") /\ UNCHANGED <<stgVars, dur>>
    /\ pc' = IF tx.purpose = "restore" THEN "discard" ELSE "failed"
    /\ UNCHANGED <<cur, jrVars, snapVars, blocked, tx, bookVars, told>>

(* CommitGate.EnterRestoreCommit: the operation engine lets the restore     *)
(* commit, or refuses because it was canceled.                              *)
EnterRestoreCommit ==
    /\ pc = "gate"
    /\ \/ pc' = "commit" /\ UNCHANGED tx
       \/ pc' = "discard" /\ tx' = [tx EXCEPT !.again = TRUE]
    /\ UNCHANGED <<fileVars, stgVars, jrVars, snapVars, blocked, bookVars, told, faultVars>>

(* The transaction enters COMMITTING; if that cannot be recorded it is      *)
(* discarded.                                                               *)
WriteCommitting ==
    /\ pc = "commit"
    /\ LET j == [tx.j EXCEPT !.phase = "COMMITTING"]
       IN /\ writeJournal(tx.op, j, "mark", "discard")
          /\ tx' = [tx EXCEPT !.j = j, !.again = pc' = "discard"]
          /\ told' = IF pc' = "mark" THEN {cur, Restored(cur, snaps[tx.src].data)} ELSE told
    /\ UNCHANGED <<fileVars, stgVars, snapVars, blocked, bookVars>>

(* Mutant of Mark: the file is renamed before the journal says so.          *)
MarkLate(f) ==
    /\ pc = "mark" /\ f \in tx.j.files \ tx.j.replaced
    /\ tx' = [tx EXCEPT !.j.replaced = @ \cup {f}, !.f = f]
    /\ pc' = "rename"
    /\ UNCHANGED <<fileVars, stgVars, jrVars, snapVars, blocked, bookVars, told, faultVars>>

(* A target is marked replaced in the journal before it is replaced.        *)
Mark(f) ==
    /\ pc = "mark" /\ f \in tx.j.files \ tx.j.replaced
    /\ LET j == [tx.j EXCEPT !.replaced = @ \cup {f}]
       IN /\ writeJournal(tx.op, j, "rename", "load")
          /\ tx' = [tx EXCEPT !.j = j, !.f = f]
    /\ UNCHANGED <<fileVars, stgVars, snapVars, blocked, bookVars, told>>

Rename ==
    /\ pc = "rename"
    /\ \/ /\ <<tx.op, "restore", tx.f>> \in stg
          /\ stg' = stg \ {<<tx.op, "restore", tx.f>>}
          /\ cur' = [cur EXCEPT ![tx.f] = snaps[tx.src].data[tx.f]]
          /\ pc' = "sync" /\ NoFault
       \/ Fault("io") /\ pc' = "load" /\ UNCHANGED <<cur, stg>>
    /\ UNCHANGED <<dur, stgDur, jrVars, snapVars, blocked, tx, bookVars, told>>

(* The project directory is synced and the engine's progress advanced; a    *)
(* failure of either rolls back.                                            *)
SyncReplacement ==
    /\ pc = "sync"
    /\ \/ dur' = cur /\ stgDur' = stg /\ pc' = "mark" /\ NoFault
       \/ /\ Fault("io") /\ pc' = "load"
          /\ \/ dur' = cur /\ stgDur' = stg
             \/ UNCHANGED <<dur, stgDur>>
    /\ UNCHANGED <<cur, stg, jrVars, snapVars, blocked, tx, bookVars, told>>

(* Every target is replaced: the journal is retired and success reported,   *)
(* or the project is blocked.                                               *)
Succeed ==
    /\ pc = "mark" /\ tx.j.replaced = tx.j.files
    /\ \/ removeJournal(tx.op) /\ Return({cur}) /\ UNCHANGED blocked
       \/ removeJournalFails(tx.op) /\ Return(told) /\ blocked' = TRUE
    /\ UNCHANGED <<fileVars, stgVars, snapVars, bookVars>>

-----------------------------------------------------------------------------
(* Mutant of LoadRollback: a snapshot that cannot be loaded is tried again. *)
LoadRollbackRetries ==
    /\ pc = "load"
    /\ IF snaps[tx.j.snap].state \in {"ok", "noArchive"}
       THEN /\ tx' = [tx EXCEPT !.purpose = "rollback", !.src = tx.j.snap, !.done = {}]
            /\ pc' = "purge"
       ELSE UNCHANGED <<pc, tx>>
    /\ UNCHANGED <<fileVars, stgVars, jrVars, snapVars, blocked, bookVars, told, faultVars>>

(* rollback: stage the pre-restore snapshot and put its files back.         *)
LoadRollback ==
    /\ pc = "load"
    /\ \/ /\ snaps[tx.j.snap].state \in {"ok", "noArchive"}
          /\ tx' = [tx EXCEPT !.purpose = "rollback", !.src = tx.j.snap, !.done = {}]
          /\ pc' = "purge" /\ NoFault
       \/ /\ pc' = "failed" /\ UNCHANGED tx
          /\ \/ Fault("io")
             \/ snaps[tx.j.snap].state \notin {"ok", "noArchive"} /\ NoFault
    /\ UNCHANGED <<fileVars, stgVars, jrVars, snapVars, blocked, bookVars, told>>

(* A replaced target gets its old content back, or is removed if it did not *)
(* exist.                                                                   *)
RollbackFile(f) ==
    /\ pc = "rollback" /\ f \in tx.j.replaced \ tx.done
    /\ stg' = stg \ {<<tx.op, "rollback", f>>}
    /\ cur' = [cur EXCEPT ![f] = snaps[tx.src].data[f]]
    /\ tx' = [tx EXCEPT !.done = @ \cup {f}] /\ pc' = "rollbackSync"
    /\ UNCHANGED <<dur, stgDur, jrVars, snapVars, blocked, bookVars, told, faultVars>>

RollbackSync ==
    /\ pc = "rollbackSync" /\ pc' = "rollback"
    /\ dur' = cur /\ stgDur' = stg
    /\ UNCHANGED <<cur, stg, jrVars, snapVars, blocked, tx, bookVars, told, faultVars>>

(* A rename or a sync of the rollback fails, and its staging is removed.    *)
RollbackFails ==
    /\ pc \in {"rollback", "rollbackSync"}
    /\ pc = "rollback" => tx.j.replaced # tx.done
    /\ Fault("io") /\ pc' = "failed"
    /\ stg' = stg \ Names(tx.op, "rollback")
    /\ \/ stgDur' = stg' /\ dur' = cur
       \/ UNCHANGED <<stgDur, dur>>
    /\ UNCHANGED <<cur, jrVars, snapVars, blocked, tx, bookVars, told>>

RollbackDone ==
    /\ pc = "rollback" /\ tx.done = tx.j.replaced
    /\ removeStaged(Names(tx.op, "rollback"))
    /\ tx' = [tx EXCEPT !.rolledBack = TRUE] /\ pc' = "discard"
    /\ UNCHANGED <<cur, jrVars, snapVars, blocked, bookVars, told>>

(* The transaction leaves the manager: Recover goes on with the next        *)
(* journal, Restore returns.                                                *)
Leave(trees) ==
    IF tx.recovering
    THEN pc' = "recover" /\ tx' = NoTx /\ UNCHANGED told
    ELSE Return(trees)

(* A rollback that cannot be finished blocks the project and keeps the      *)
(* journal.                                                                 *)
RollbackFailed ==
    /\ pc = "failed" /\ blocked' = TRUE
    /\ Leave(told)
    /\ UNCHANGED <<fileVars, stgVars, jrVars, snapVars, bookVars, faultVars>>

(* discardJournal: first the staging files the journal names, then the      *)
(* journal.                                                                 *)
DiscardStaged ==
    /\ pc = "discard" /\ pc' = "retire"
    /\ removeStaged(Plan(tx.op, "restore", tx.j.files))
    /\ UNCHANGED <<cur, jrVars, snapVars, blocked, tx, bookVars, told>>

(* Before the commit the error is dropped and, where the discard was        *)
(* explicit, the deferred one tries again; after a rollback and in Recover  *)
(* it blocks the project.                                                   *)
DiscardJournal ==
    /\ pc = "retire"
    /\ \/ removeJournal(tx.op) /\ UNCHANGED blocked
       \/ removeJournalFails(tx.op) /\ blocked' = (blocked \/ tx.rolledBack \/ tx.recovering)
    /\ IF tx.again
       THEN pc' = "discard" /\ tx' = [tx EXCEPT !.again = FALSE] /\ UNCHANGED told
       ELSE Leave(IF tx.rolledBack /\ ~blocked' THEN {tx.before} ELSE told)
    /\ UNCHANGED <<fileVars, stgVars, snapVars, bookVars>>

-----------------------------------------------------------------------------
(* Startup.  Recover visits the journals it finds.                          *)
Start ==
    /\ pc = "down" /\ pc' = "recover"
    /\ todo' = {o \in Ops : jr[o] # NoJournal}
    /\ UNCHANGED <<fileVars, stgVars, jrVars, snapVars, blocked, tx, used, told, faultVars>>

(* A journal with a replaced target is rolled back, any other discarded; a  *)
(* project that cannot be resolved is blocked.                              *)
Recover(op) ==
    /\ pc = "recover" /\ op \in todo
    /\ todo' = todo \ {op}
    /\ \/ /\ tx' = [NoTx EXCEPT !.op = op, !.j = jr[op], !.recovering = TRUE]
          /\ pc' = IF jr[op].phase = "PREPARING" \/ jr[op].replaced = {} THEN "discard" ELSE "load"
          /\ NoFault /\ UNCHANGED blocked
       \/ Fault("io") /\ blocked' = TRUE /\ UNCHANGED <<pc, tx>>
    /\ UNCHANGED <<fileVars, stgVars, jrVars, snapVars, used, told>>

Recovered ==
    /\ pc = "recover" /\ todo = {} /\ pc' = "up"
    /\ UNCHANGED <<fileVars, stgVars, jrVars, snapVars, blocked, tx, bookVars, told, faultVars>>

Stopped == pc' = "down" /\ tx' = NoTx /\ todo' = {} /\ blocked' = FALSE

(* The process ends, orderly when idle, or dies: what is visible stays.     *)
Exit ==
    /\ pc = "up" /\ Stopped
    /\ UNCHANGED <<fileVars, stgVars, jrVars, snapVars, used, told, faultVars>>

Crash ==
    /\ scene.crashes > 0 /\ scene' = [scene EXCEPT !.crashes = @ - 1]
    /\ Stopped

Die ==
    /\ pc # "down" /\ Crash
    /\ UNCHANGED <<fileVars, stgVars, jrVars, snapVars, used, told, failed>>

(* Power is lost: each directory entry changed since its directory was last *)
(* synced is as before or as after the change.                              *)
PowerLoss ==
    /\ Crash
    /\ cur' \in {t \in [Files -> Contents] : \A f \in Files : t[f] \in {cur[f], dur[f]}}
    /\ jr' \in {d \in [Ops -> {jr[o] : o \in Ops} \cup {jrDur[o] : o \in Ops}] :
                  \A o \in Ops : d[o] \in {jr[o], jrDur[o]}}
    /\ \E kept \in SUBSET ((stg \cup stgDur) \ (stg \cap stgDur)) : stg' = (stg \cap stgDur) \cup kept
    /\ dur' = cur' /\ jrDur' = jr' /\ stgDur' = stg'
    /\ UNCHANGED <<snapVars, used, told, failed>>

-----------------------------------------------------------------------------
Init ==
    /\ cur = Original /\ dur = Original
    /\ stg = {} /\ stgDur = {}
    /\ jr = [o \in Ops |-> NoJournal] /\ jrDur = jr
    /\ snaps = [i \in Ids |-> IF i = 1 THEN [trigger |-> "manual", data |-> Stored, state |-> "ok"]
                                       ELSE NoSnapshot]
    /\ made = 1
    /\ blocked = FALSE /\ pc = "down" /\ tx = NoTx /\ todo = {} /\ used = {}
    /\ told = {Original}
    /\ scene \in Scenes /\ failed = {}

(* The steps of an operation or of Recover that is under way.               *)
Step ==
    \/ PruneAutomatic \/ RemoveEntry \/ RemoveAll \/ Write
    \/ WritePreparing \/ purgeStaging \/ StageDone \/ StageFails \/ EnterRestoreCommit
    \/ WriteCommitting \/ Rename \/ SyncReplacement \/ Succeed
    \/ LoadRollback \/ RollbackSync \/ RollbackFails \/ RollbackDone \/ RollbackFailed
    \/ DiscardStaged \/ DiscardJournal \/ Start \/ Recovered
    \/ \E f \in Files : StageFile(f) \/ Mark(f) \/ RollbackFile(f)
    \/ \E op \in Ops : Recover(op)

Next ==
    \/ Step \/ Create \/ Reclaim \/ Exit \/ Die \/ PowerLoss
    \/ \E f \in Files : runFileWrite(f)
    \/ \E op \in Ops, b \in Ids : Restore(op, b)

Spec == Init /\ [][Next]_vars

(* An operation under way goes on, and a stopped Agent is started again.    *)
FairSpec == Spec /\ WF_vars(Step)

-----------------------------------------------------------------------------
(* Properties.                                                              *)

(* Every variable keeps its type, and the journals keep to their phases: a  *)
(* target is marked replaced only in COMMITTING, and only if it is one of   *)
(* the files.                                                               *)
TypeOK ==
    /\ \A o \in Ops : \A j \in {jr[o], jrDur[o]} :
          j.replaced \subseteq j.files /\ (j.replaced # {} => j.phase = "COMMITTING")
    /\ {cur, dur} \subseteq Tree
    /\ {stg, stgDur} \subseteq SUBSET (Ops \X {"restore", "rollback"} \X Files)
    /\ {jr, jrDur} \subseteq [Ops -> Journal]
    /\ snaps \in [Ids -> Snapshot] /\ made \in 0..MaxSnapshots
    /\ blocked \in BOOLEAN /\ tx \in Locals
    /\ pc \in {"down", "recover", "up", "prune", "unlink", "rmdir", "write", "journal", "purge",
               "stage", "gate", "commit", "mark", "rename", "sync", "load", "rollback",
               "rollbackSync", "failed", "discard", "retire"}
    /\ {todo, used} \subseteq SUBSET Ops
    /\ told \in SUBSET Tree
    /\ scene \in [failures : SUBSET Failures, faults : Nat, crashes : Nat, snapshots : Nat]
    /\ failed \subseteq scene.failures

(* The restore is all or nothing, and says which: whenever the Agent serves *)
(* and does not block the project, its files, now and after a power loss,   *)
(* are what was reported: all replaced after a success, none after a        *)
(* cancel or a rolled back failure, one of the two after a crash.  A later  *)
(* file write stays.  (Unless the removal of a journal could not be synced: *)
(* a power loss may then bring the journal back, and recovery undoes a      *)
(* later write.)                                                            *)
RestoreIsAtomic ==
    pc = "up" /\ ~blocked /\ "retire" \notin failed => {cur, dur} \subseteq told

(* What recovery reads is there and makes sense: a target is marked         *)
(* replaced only in COMMITTING; until the journal of a restore that has     *)
(* begun to replace files is gone its pre-restore snapshot is whole,        *)
(* whatever retention and disk pressure remove (unless an unsynced removal  *)
(* brings the journal back); and neither ever takes the manual backup.      *)
RollbackPossible ==
    /\ TypeOK
    /\ "retire" \notin failed =>
          \A o \in Ops : \A j \in {jr[o], jrDur[o]} : j.replaced # {} => snaps[j.snap].state = "ok"
    /\ snaps[1].state = "ok"

(* restore.go:117: "no staging file can ever outlive the transaction that   *)
(* owns it": a staging file, also one a power loss may bring back, has a    *)
(* journal.  (It holds for crashes and an unsynced removal of the journal;  *)
(* after a failing system call the rollback stages files under names that   *)
(* the journal does not hold.)                                              *)
StagingIsOwned ==
    failed \subseteq {"retire"} =>
        \A s \in stg \cup stgDur : jr[s[1]] # NoJournal /\ jrDur[s[1]] # NoJournal

(* A restore leaves behind what recovery needs, and nothing that it does    *)
(* not know of.                                                             *)
RecoveryPossible == RollbackPossible /\ StagingIsOwned

(* Every transaction that may have replaced a file is closed: by success,   *)
(* rollback or recovery its journal goes, or the project is blocked.  (One  *)
(* that replaced nothing may leave its journal to the next start, when the  *)
(* discard fails.)                                                          *)
TransactionsClose ==
    []<>(blocked \/ \A o \in Ops : jr[o].replaced = {})
=============================================================================
