----------------------------- MODULE MCAgentDisk -----------------------------
(***************************************************************************)
(* An instance for TLC of the components that keep what is on an Agent's   *)
(* disk right and have no state in common: the replacement of a project    *)
(* file, the storage pressure, the record of unobserved changes, the       *)
(* observed Audit, and the catalog of projects with the Server's mirror of *)
(* it.  A behaviour is one of one component, the one `on` names; the       *)
(* others stay as they were at the start.                                  *)
(***************************************************************************)
EXTENDS SafeFileWrite, StoragePressure, DockerSnapshot, ObservedAudit, MCProjects

CONSTANTS w1, w2, r1, d1, d2, d3

VARIABLE on

Three == {d1, d2, d3}

\* An edit before and one after the final check; an edit, a removal and a
\* failing call; a crash with a failing call or an edit; two writers and the
\* reclaimer on one directory.
Opens(a, b, c) == (w1 :> a) @@ (w2 :> b) @@ (r1 :> c)
Calm == [opens |-> Opens(1, 0, 0), edits |-> 0, removals |-> 0, faults |-> 0, crashes |-> 0]
MCFileScenes ==
    {[Calm EXCEPT !.edits = 2, !.opens = Opens(2, 0, 0)],
     [Calm EXCEPT !.edits = 1, !.removals = 1, !.faults = 1],
     [Calm EXCEPT !.crashes = 1, !.faults = 1, !.opens = Opens(1, 0, 1)],
     [Calm EXCEPT !.crashes = 1, !.edits = 1, !.opens = Opens(1, 0, 1)],
     [Calm EXCEPT !.opens = Opens(1, 1, 2)]}

MCBudget ==
    [stateBudget |-> 8, entryFree |-> 2, entryPct |-> 10, exitFree |-> 3, exitPct |-> 15,
     exitStatePct |-> 75, reserve |-> 2]

\* Too much Agent state in every tier; a filesystem the host has filled; a
\* disk between the watermarks.
Mixed == [temp |-> 1, acked |-> 1, expired |-> 1, excess |-> 1, old |-> 1, unacked |-> 2,
          kept |-> 3, staging |-> 1, foreign |-> 2]
MCStorageScenes ==
    {[disk |-> Mixed, faults |-> 0, writes |-> 2],
     [disk |-> [Mixed EXCEPT !.kept = 1, !.foreign = 9], faults |-> 1, writes |-> 1],
     [disk |-> [[k \in Kinds |-> 0] EXCEPT !["acked"] = 3, !["unacked"] = 1, !["kept"] = 2, !["foreign"] = 7],
      faults |-> 0, writes |-> 2]}

(* One event, an Agent that was closed cleanly before, and no failure. *)
Clean == [perSecond |-> 1, window |-> 1, pending |-> 1, keys |-> 2, since |-> 1, events |-> 1,
         lastEmit |-> 2, horizon |-> 3, boots |-> 3, kills |-> 0, power |-> 0, breaks |-> 0,
         stops |-> 0, appends |-> 0, saves |-> 0]

MCSettings == {
    \* storms: a full table, a full second, and a broken stream, on a first boot
    [Clean EXCEPT !.since = 0, !.events = 3, !.boots = 1, !.breaks = 1],
    \* crashes: events in memory that the watermark has passed
    [Clean EXCEPT !.window = 3, !.pending = 2, !.events = 3, !.lastEmit = 3, !.horizon = 4, !.kills = 1],
    \* power loss: records that were not fsynced, a failed save of the state
    [Clean EXCEPT !.events = 2, !.kills = 1, !.power = 1, !.saves = 1],
    \* closes: one key, where the watermark cannot pass a pending event
    [Clean EXCEPT !.perSecond = 2, !.keys = 1, !.events = 3, !.lastEmit = 3, !.power = 1, !.stops = 1],
    \* faults: every failure of a write at once
    [Clean EXCEPT !.keys = 1, !.lastEmit = 1, !.horizon = 2, !.boots = 4, !.kills = 1, !.power = 1,
                 !.breaks = 1, !.appends = 1, !.saves = 1]}

FileRests == FileInit({Calm})
StorageRests == StorageInit({[disk |-> Mixed, faults |-> 0, writes |-> 0]})
SnapshotRests == SnapshotInit /\ inventory = d1
ObservedRests == ObservedInit({Clean})
MirrorRests == MirrorInit({Still})

Init ==
    \/ on = "file" /\ FileInit(FileScenes) /\ StorageRests /\ SnapshotRests /\ ObservedRests /\ MirrorRests
    \/ on = "storage" /\ StorageInit(StorageScenes) /\ FileRests /\ SnapshotRests /\ ObservedRests /\ MirrorRests
    \/ on = "snapshot" /\ SnapshotInit /\ FileRests /\ StorageRests /\ ObservedRests /\ MirrorRests
    \/ on = "observed" /\ ObservedInit(Settings) /\ FileRests /\ StorageRests /\ SnapshotRests /\ MirrorRests
    \/ on = "projects" /\ MirrorInit(CatalogScenes) /\ FileRests /\ StorageRests /\ SnapshotRests /\ ObservedRests

Next ==
    \/ on = "file" /\ FileNext /\ UNCHANGED <<on, storageVars, snapshotVars, observedVars, projectVars>>
    \/ on = "storage" /\ StorageNext /\ UNCHANGED <<on, fileVars, snapshotVars, observedVars, projectVars>>
    \/ on = "snapshot" /\ SnapshotNext /\ UNCHANGED <<on, fileVars, storageVars, observedVars, projectVars>>
    \/ on = "observed" /\ ObservedNext /\ UNCHANGED <<on, fileVars, storageVars, snapshotVars, projectVars>>
    \/ on = "projects" /\ MirrorNext /\ UNCHANGED <<on, fileVars, storageVars, snapshotVars, observedVars>>

Spec == Init /\ [][Next]_<<on, fileVars, storageVars, snapshotVars, observedVars, projectVars>>
=============================================================================
