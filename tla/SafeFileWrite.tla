---------------------------- MODULE SafeFileWrite ----------------------------
(***************************************************************************)
(* internal/safefile: Root.Write replaces one managed file of a project    *)
(* directory by exchanging it with a staging file, while people edit the   *)
(* same file with their own tools, disk pressure reclaims abandoned        *)
(* staging files (eviction.go), system calls fail, and the process or the  *)
(* machine goes down.  Every actor opens a Root of its own; the Roots of   *)
(* one directory share a lock through a registry of counted entries.       *)
(* Only files directly in the root are writable (defaultAccess), so the    *)
(* parent directory of a write is the opened root itself.                  *)
(***************************************************************************)
EXTENDS Naturals, FiniteSets, Sequences

CONSTANTS
    Writers,      \* actors that write; each writes a text of its own
    Reclaimers,   \* actors that reclaim abandoned staging files
    FirstText,    \* content of the file at the start
    EditTexts,    \* contents people write with their own tools, each once
    Partial,      \* content of a staging file that is not yet written
    MaxStages,    \* bound: staging names used
    FileScenes    \* how many of everything there may be

Target == 0
StageNames == 1 .. MaxStages
Actors == Writers \cup Reclaimers

ASSUME SafeFileAssumption ==
    /\ Writers \cap Reclaimers = {} /\ MaxStages \in Nat
    /\ FileScenes \subseteq [opens : [Actors -> Nat], edits : Nat, removals : Nat, faults : Nat, crashes : Nat]

VARIABLES
    fs,      \* dir: name -> inode (0: none); may: directories a power loss may leave; node: the inodes
    act,     \* the actors
    roots,   \* rootLockRegistry: the entry of this directory (0: none), its refs, entries made
    stages,  \* staging names used
    faced,   \* history: what has happened that a property excepts
    scene    \* what may still happen

fileVars == <<fs, act, roots, stages, faced, scene>>

Off == [pc |-> "idle", lock |-> 0, holds |-> FALSE, expect |-> Partial, orig |-> 0, data |-> Partial,
        stamp |-> 0, tmp |-> 0, node |-> 0, snap |-> Partial, took |-> Partial, late |-> 0,
        bad |-> FALSE, res |-> "none"]

Fine == UNCHANGED scene
Fault == scene.faults > 0 /\ scene' = [scene EXCEPT !.faults = @ - 1]
Set(p, a) == act' = [act EXCEPT ![p] = a]
At(p, pc) == act[p].pc = pc
Here == fs.node[fs.dir[Target]]
Exists == fs.dir[Target] # 0
Free(e) == \A q \in Actors : ~(act[q].holds /\ act[q].lock = e)

(* A directory change is visible at once and durable with the next sync.   *)
Changed(dir) == [fs EXCEPT !.dir = dir, !.may = @ \cup {dir}]
syncDir == [fs EXCEPT !.may = {fs.dir}]
Without(name) == Changed([fs.dir EXCEPT ![name] = 0])
Exchanged(p) == Changed([fs.dir EXCEPT ![Target] = fs.dir[act[p].tmp], ![act[p].tmp] = fs.dir[Target]])

-----------------------------------------------------------------------------
(* OpenRoot and Close: the registry of counted locks. *)
OpenRoot(p) ==
    /\ At(p, "idle") /\ scene.opens[p] > 0
    /\ scene' = [scene EXCEPT !.opens[p] = @ - 1]
    /\ LET entry == IF roots.entry = 0 THEN roots.made + 1 ELSE roots.entry
       IN  /\ roots' = [entry |-> entry, refs |-> roots.refs + 1,
                        made |-> IF roots.entry = 0 THEN roots.made + 1 ELSE roots.made]
           /\ Set(p, [Off EXCEPT !.pc = "open", !.lock = entry,
                                 !.expect = IF Exists THEN Here.data ELSE FirstText])
    /\ UNCHANGED <<fs, stages, faced>>

Close(p) ==
    /\ At(p, "done")
    /\ roots' = [roots EXCEPT !.refs = @ - 1, !.entry = IF roots.refs = 1 THEN 0 ELSE @]
    /\ Set(p, [act[p] EXCEPT !.pc = "idle"])
    /\ UNCHANGED <<fs, stages, faced, scene>>

-----------------------------------------------------------------------------
(* Write.  It returns through its deferred calls: the staging name, if any, *)
(* is unlinked, and the lock released.                                      *)
Returns(p, res) == Set(p, [act[p] EXCEPT !.pc = "defer", !.res = res])
Fails(p) == Set(p, [act[p] EXCEPT !.pc = "defer", !.res = "error", !.bad = TRUE])

(* The file is read and compared with what the request expects.             *)
openExisting(p) ==
    /\ At(p, "open") /\ p \in Writers /\ Free(act[p].lock)
    /\ LET a == [act[p] EXCEPT !.holds = TRUE]
       IN  IF ~Exists THEN Set(p, [a EXCEPT !.pc = "defer", !.res = "refused"])
           ELSE IF Here.data # a.expect THEN Set(p, [a EXCEPT !.pc = "defer", !.res = "conflict"])
           ELSE Set(p, [a EXCEPT !.pc = "stage", !.orig = fs.dir[Target], !.data = Here.data,
                                 !.stamp = Here.stamp])
    /\ UNCHANGED <<fs, roots, stages, faced, scene>>

(* createStaged: a new name, then the text, written and synced.             *)
CreateStaged(p) ==
    /\ At(p, "stage") /\ stages < MaxStages
    /\ \/ /\ stages' = stages + 1
          /\ fs' = [Changed([fs.dir EXCEPT ![stages + 1] = Len(fs.node) + 1])
                       EXCEPT !.node = Append(@, [data |-> Partial, disk |-> Partial, stamp |-> 0])]
          /\ Set(p, [act[p] EXCEPT !.pc = "fill", !.tmp = stages + 1, !.node = Len(fs.node) + 1])
          /\ Fine
       \/ Fault /\ Fails(p) /\ UNCHANGED <<fs, stages>>
    /\ UNCHANGED <<roots, faced>>

FillStaged(p) ==
    /\ At(p, "fill")
    /\ \/ /\ fs' = [fs EXCEPT !.node[act[p].node].data = p, !.node[act[p].node].disk = p]
          /\ Set(p, [act[p] EXCEPT !.pc = "validate"]) /\ Fine
       \/ Fault /\ Fails(p) /\ UNCHANGED fs
    /\ UNCHANGED <<roots, stages, faced>>

(* verifyNamedFile of the staging file: the same inode, the same text.      *)
StagedIntact(p) == fs.dir[act[p].tmp] = act[p].node /\ fs.node[act[p].node].data = p

(* The validator may refuse or the context be canceled.                     *)
Validate(p) ==
    /\ At(p, "validate")
    /\ \/ Returns(p, "refused")
       \/ IF StagedIntact(p) THEN Set(p, [act[p] EXCEPT !.pc = "snapshot"]) ELSE Returns(p, "conflict")
    /\ UNCHANGED <<fs, roots, stages, faced, scene>>

(* The snapshot callback (runFileWrite) copies the file as it is now, or    *)
(* fails.                                                                   *)
Snapshot(p) ==
    /\ At(p, "snapshot")
    /\ \/ Returns(p, "refused")
       \/ Exists /\ Set(p, [act[p] EXCEPT !.pc = "check", !.snap = Here.data])
    /\ UNCHANGED <<fs, roots, stages, faced, scene>>

(* The file is still the inode that was read, not edited in place, and the  *)
(* staging file is intact.                                                  *)
FinalCheck(p) ==
    /\ At(p, "check")
    /\ IF ~Exists THEN Returns(p, "refused")
       ELSE IF /\ fs.dir[Target] = act[p].orig /\ Here.stamp = act[p].stamp /\ Here.data = act[p].data
               /\ StagedIntact(p)
       THEN Set(p, [act[p] EXCEPT !.pc = "gate"])
       ELSE Returns(p, "conflict")
    /\ UNCHANGED <<fs, roots, stages, faced, scene>>

(* The commit gate: Operation.EnterCommit, refused after a cancel.          *)
Commit(p) ==
    /\ At(p, "gate")
    /\ \/ Returns(p, "refused")
       \/ Set(p, [act[p] EXCEPT !.pc = "exchange"])
    /\ UNCHANGED <<fs, roots, stages, faced, scene>>

Exchange(p) ==
    /\ At(p, "exchange")
    /\ \/ /\ Exists /\ fs' = Exchanged(p) /\ Set(p, [act[p] EXCEPT !.pc = "displaced"]) /\ Fine
       \/ ~Exists /\ Returns(p, "error") /\ UNCHANGED <<fs, scene>>
       \/ Fault /\ Fails(p) /\ UNCHANGED fs
    /\ UNCHANGED <<roots, stages, faced>>

(* Mutant of verifyRenamedFile: what was displaced is not looked at. *)
verifyNothing(p) == TRUE

(* verifyRenamedFile: what was displaced is the inode and the text read at  *)
(* the start.                                                               *)
verifyRenamedFile(p) ==
    fs.dir[act[p].tmp] = act[p].orig /\ fs.node[act[p].orig].data = act[p].data

CheckDisplaced(p) ==
    /\ At(p, "displaced")
    /\ Set(p, IF verifyRenamedFile(p) THEN [act[p] EXCEPT !.pc = "sync"]
              ELSE [act[p] EXCEPT !.pc = "rollback", !.res = "conflict"])
    /\ UNCHANGED <<fs, roots, stages, faced, scene>>

SyncCommit(p) ==
    /\ At(p, "sync")
    /\ \/ fs' = syncDir /\ Set(p, [act[p] EXCEPT !.pc = "unlink"]) /\ Fine
       \/ /\ Fault /\ Set(p, [act[p] EXCEPT !.pc = "rollback", !.res = "error", !.bad = TRUE])
          /\ UNCHANGED fs
    /\ UNCHANGED <<roots, stages, faced>>

(* rollback: exchanged back; it fails when the file was removed meanwhile.  *)
Rollback(p) ==
    /\ At(p, "rollback")
    /\ \/ /\ Exists /\ fs' = Exchanged(p) /\ Set(p, [act[p] EXCEPT !.pc = "rollbackSync"]) /\ Fine
       \/ ~Exists /\ Set(p, [act[p] EXCEPT !.pc = "rollbackSync", !.res = "error"]) /\ UNCHANGED <<fs, scene>>
       \/ /\ Fault /\ Set(p, [act[p] EXCEPT !.pc = "rollbackSync", !.res = "error", !.bad = TRUE])
          /\ UNCHANGED fs
    /\ UNCHANGED <<roots, stages, faced>>

(* The sync of a rollback may fail unnoticed.                               *)
RollbackSync(p) ==
    /\ At(p, "rollbackSync")
    /\ \/ fs' = syncDir /\ Set(p, [act[p] EXCEPT !.pc = "defer"]) /\ Fine
       \/ Fault /\ Set(p, [act[p] EXCEPT !.pc = "defer", !.bad = TRUE]) /\ UNCHANGED fs
    /\ UNCHANGED <<roots, stages, faced>>

(* What an unlink destroys: an edit that is neither what the write was to   *)
(* replace nor anywhere else.  Two edits after the final check, or an edit  *)
(* and a failing call, are beyond what the exchange can save.               *)
Destroyed(p, n) ==
    LET text == fs.node[n].data
    IN  IF text \in EditTexts /\ text # act[p].expect /\ ~act[p].bad /\ act[p].late <= 1
        THEN [faced EXCEPT !.lost = @ \cup {text}] ELSE faced

UnlinkDisplaced(p) ==
    /\ At(p, "unlink")
    /\ \/ /\ fs' = Without(act[p].tmp)
          /\ faced' = Destroyed(p, fs.dir[act[p].tmp])
          /\ Set(p, [act[p] EXCEPT !.pc = "cleanup", !.took = fs.node[fs.dir[act[p].tmp]].data])
          /\ Fine
       \/ Fault /\ Fails(p) /\ UNCHANGED <<fs, faced>>
    /\ UNCHANGED <<roots, stages>>

(* The cleanup is synced and the result read back; failing now reports an   *)
(* error for a write that is committed.                                     *)
SyncCleanup(p) ==
    /\ At(p, "cleanup")
    /\ \/ /\ fs' = syncDir /\ Fine
          /\ \/ Exists /\ Returns(p, "ok")
             \/ Returns(p, "error")
       \/ Fault /\ Fails(p) /\ UNCHANGED fs
    /\ UNCHANGED <<roots, stages, faced>>

(* The deferred calls.  An unlink that fails is not noticed.                *)
DeferredUnlink(p) ==
    /\ At(p, "defer") /\ p \in Writers
    /\ Set(p, [act[p] EXCEPT !.pc = "done", !.holds = FALSE])
    /\ LET n == IF act[p].tmp = 0 THEN 0 ELSE fs.dir[act[p].tmp]
       IN  IF n = 0 THEN UNCHANGED <<fs, faced, scene>>
           ELSE \/ fs' = Without(act[p].tmp) /\ faced' = Destroyed(p, n) /\ Fine
                \/ Fault /\ faced' = [faced EXCEPT !.left = TRUE] /\ UNCHANGED fs
    /\ UNCHANGED <<roots, stages>>

-----------------------------------------------------------------------------
(* ReclaimAbandonedStagingForDiskPressure: under the same lock, staging     *)
(* files are unlinked until enough is freed, then the directory is synced.  *)
BeginReclaim(p) ==
    /\ At(p, "open") /\ p \in Reclaimers /\ Free(act[p].lock)
    /\ Set(p, [act[p] EXCEPT !.holds = TRUE, !.pc = "reclaim"])
    /\ UNCHANGED <<fs, roots, stages, faced, scene>>

ReclaimOne(p, n) ==
    /\ At(p, "reclaim") /\ fs.dir[n] # 0
    /\ fs' = Without(n)
    /\ UNCHANGED <<act, roots, stages, faced, scene>>

ReclaimDone(p) ==
    /\ At(p, "reclaim")
    /\ Set(p, [act[p] EXCEPT !.holds = FALSE, !.pc = "done", !.res = "ok"])
    /\ \/ fs' = syncDir /\ Fine
       \/ Fault /\ UNCHANGED fs
    /\ UNCHANGED <<roots, stages, faced>>

-----------------------------------------------------------------------------
(* People edit the file in place, replace it, or remove it.                 *)
Noticed(pcs) == [p \in Actors |-> IF act[p].pc \in pcs THEN [act[p] EXCEPT !.late = @ + 1] ELSE act[p]]
AfterCheck == {"gate", "exchange", "displaced", "sync", "rollback", "rollbackSync", "unlink"}

Edit(text) ==
    /\ scene.edits > 0 /\ text \notin faced.texts
    /\ scene' = [scene EXCEPT !.edits = @ - 1]
    /\ faced' = [faced EXCEPT !.texts = @ \cup {text}]
    /\ act' = Noticed(AfterCheck)
    /\ \/ /\ Exists
          /\ fs' = [fs EXCEPT !.node[fs.dir[Target]] = [data |-> text, disk |-> text, stamp |-> @.stamp + 1]]
       \/ fs' = [Changed([fs.dir EXCEPT ![Target] = Len(fs.node) + 1])
                   EXCEPT !.node = Append(@, [data |-> text, disk |-> text, stamp |-> 0])]
    /\ UNCHANGED <<roots, stages>>

RemoveFile ==
    /\ scene.removals > 0 /\ Exists
    /\ scene' = [scene EXCEPT !.removals = @ - 1]
    /\ faced' = [faced EXCEPT !.removed = TRUE]
    /\ fs' = Without(Target) /\ act' = Noticed(AfterCheck)
    /\ UNCHANGED <<roots, stages>>

(* The Agent dies; with the machine, what was not synced may be undone.     *)
AgentDies ==
    /\ scene.crashes > 0 /\ scene' = [scene EXCEPT !.crashes = @ - 1]
    /\ act' = [p \in Actors |-> Off]
    /\ roots' = [roots EXCEPT !.entry = 0, !.refs = 0]
    /\ faced' = [faced EXCEPT !.left = TRUE]
    /\ \/ UNCHANGED fs
       \/ \E d \in fs.may :
            fs' = [dir |-> d, may |-> {d},
                   node |-> [n \in DOMAIN fs.node |-> [fs.node[n] EXCEPT !.data = fs.node[n].disk]]]
    /\ UNCHANGED stages

-----------------------------------------------------------------------------
FileInit(scenes) ==
    LET dir == [n \in {Target} \cup StageNames |-> IF n = Target THEN 1 ELSE 0]
    IN  /\ fs = [dir |-> dir, may |-> {dir}, node |-> <<[data |-> FirstText, disk |-> FirstText, stamp |-> 0]>>]
        /\ act = [p \in Actors |-> Off]
        /\ roots = [entry |-> 0, refs |-> 0, made |-> 0]
        /\ stages = 0
        /\ faced = [texts |-> {}, removed |-> FALSE, left |-> FALSE, lost |-> {}]
        /\ scene \in scenes

WriteStep(p) ==
    \/ openExisting(p) \/ CreateStaged(p) \/ FillStaged(p) \/ Validate(p) \/ Snapshot(p)
    \/ FinalCheck(p) \/ Commit(p) \/ Exchange(p) \/ CheckDisplaced(p) \/ SyncCommit(p)
    \/ Rollback(p) \/ RollbackSync(p) \/ UnlinkDisplaced(p) \/ SyncCleanup(p) \/ DeferredUnlink(p)

FileNext ==
    \/ \E p \in Actors : OpenRoot(p) \/ Close(p)
    \/ \E p \in Writers : WriteStep(p)
    \/ \E p \in Reclaimers : BeginReclaim(p) \/ ReclaimDone(p) \/ \E n \in StageNames : ReclaimOne(p, n)
    \/ \E text \in EditTexts : Edit(text)
    \/ RemoveFile \/ AgentDies

FileSpec == FileInit(FileScenes) /\ [][FileNext]_fileVars

-----------------------------------------------------------------------------
Images == fs.may \cup {fs.dir}

(* The file is whole at every moment, now and in whatever directory a power *)
(* loss may leave, and is missing only if somebody removed it.              *)
FileIsWhole ==
    \A d \in Images :
        IF d[Target] = 0 THEN faced.removed ELSE fs.node[d[Target]].disk # Partial

(* A write that reports success replaced exactly the text it was asked to   *)
(* replace, and that text is in its snapshot.                               *)
SuccessIsExact ==
    \A p \in Writers : act[p].res = "ok" /\ act[p].pc # "idle" =>
        act[p].took = act[p].expect /\ act[p].snap = act[p].expect

(* A write that was refused or met a conflict is not there, now or after a  *)
(* power loss, unless the sync of its rollback failed.                      *)
RefusedIsAbsent ==
    \A p \in Writers :
        act[p].res \in {"refused", "conflict"} /\ act[p].pc = "done" /\ act[p].node # 0 /\ ~act[p].bad =>
            \A d \in Images : d[Target] # act[p].node

(* All or nothing, as reported: FileIsWhole, SuccessIsExact and             *)
(* RefusedIsAbsent, and no edit somebody else made up to the last instant   *)
(* before the exchange is overwritten (io.go:240).                          *)
WriteAllOrNothing == FileIsWhole /\ SuccessIsExact /\ RefusedIsAbsent /\ faced.lost = {}

(* "a live Write can never be selected" (eviction.go:17): the staging file  *)
(* of a write under way stays, whoever opens and closes Roots of the same   *)
(* directory; and none is left by a write that ended, unless the Agent died *)
(* or the unlink failed.                                                    *)
StagingKept ==
    /\ \A p \in Writers : act[p].pc \in {"validate", "snapshot", "check", "gate", "exchange"} => StagedIntact(p)
    /\ ~faced.left => \A n \in StageNames : fs.dir[n] # 0 => \E p \in Writers : act[p].tmp = n /\ act[p].holds
(* Root.Write is all or nothing, and its staging files are its own.         *)
WriteIsSafe == WriteAllOrNothing /\ StagingKept
=============================================================================
