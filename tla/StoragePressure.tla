-------------------------- MODULE StoragePressure --------------------------
(***************************************************************************)
(* The storage pressure of an Agent: the hysteresis state of               *)
(* internal/diskbudget, the controller and the eviction executor of        *)
(* internal/agentstorage, and the two callers that run the cleanup, the    *)
(* discovery loop and an operation's admission (agentruntime/storage.go).  *)
(*                                                                         *)
(* Bytes are counted in objects of one unit.  A tier's reclaimer deletes   *)
(* objects until it has freed what it was asked for or has none left; it   *)
(* may stop early with an error.  controller.mu is held for one            *)
(* observation and its decision, which is one step here; runtimeStorage.mu *)
(* is held from the first step of a cleanup to its last, which is          *)
(* job.who # "none"; between two steps the rest of the Agent and the host  *)
(* change the disk.                                                        *)
(***************************************************************************)
EXTENDS Integers, Sequences

CONSTANTS
    Budget,        \* diskbudget.Config, EmergencyReserveBytes is reserve
    TotalBytes,    \* size of the state root's filesystem
    MinimumBytes,  \* MinimumOperationDurableBytes
    MaxPasses,     \* storageReclaimMaxPasses
    StorageScenes  \* initial disks, faults and host steps

VARIABLES
    disk,          \* objects per kind
    press,         \* controller.observation and controller.state
    job,           \* the cleanup that holds runtimeStorage.mu
    granted,       \* a backup or a restore that was admitted and not yet written
    left           \* ghost: faults and host steps still allowed

storageVars == <<disk, press, job, granted, left>>

(***************************************************************************)
(* The tiers in the order of diskbudget.Reclaim.  Everything but "staging" *)
(* (project directories) and "foreign" (the host's own files) counts as    *)
(* Agent state; "kept" is what no tier may take: manual backups, the       *)
(* newest snapshot of each project, live records.                          *)
(***************************************************************************)
Tiers == <<"temp", "acked", "expired", "excess", "old", "unacked">>
TierKinds == {Tiers[i] : i \in DOMAIN Tiers}
StateKinds == TierKinds \union {"kept"}
Kinds == StateKinds \union {"staging", "foreign"}

StateHeld(d) ==
    d["temp"] + d["acked"] + d["expired"] + d["excess"] + d["old"] + d["unacked"] + d["kept"]
AllHeld(d) == StateHeld(d) + d["staging"] + d["foreign"]
Disks == {d \in [Kinds -> 0..TotalBytes] : AllHeld(d) <= TotalBytes}

ConfigOK(b) ==
    /\ b.stateBudget \in Nat \ {0} /\ b.entryFree \in Nat \ {0} /\ b.entryPct \in Nat \ {0}
    /\ b.exitFree \in Nat /\ b.exitFree > b.entryFree
    /\ b.exitPct \in Nat /\ b.exitPct > b.entryPct
    /\ b.exitStatePct \in Nat \ {0} /\ b.exitStatePct < 100
    /\ b.reserve \in Nat \ {0} /\ b.reserve < b.stateBudget

ASSUME StorageAssumption ==
    /\ ConfigOK(Budget)
    /\ TotalBytes \in Nat \ {0} /\ MinimumBytes \in Nat
    /\ MaxPasses \in Nat \ {0}
    /\ StorageScenes \subseteq [disk : Disks, faults : Nat, writes : Nat]

percentBytes(total, percent) == (total * percent) \div 100
maximum(a, b) == IF a > b THEN a ELSE b

entryFloor(b, total) == maximum(b.entryFree, percentBytes(total, b.entryPct))
exitFloor(b, total) == maximum(b.exitFree, percentBytes(total, b.exitPct))
exitCeiling(b) == percentBytes(b.stateBudget, b.exitStatePct)

NoReason == "none"
Reasons == {NoReason, "free", "budget", "both"}
Observations == [total : Nat, free : Nat, used : Nat]
Unobserved == [total |-> 0, free |-> 0, used |-> 0]

reason(freeLow, exceeded) ==
    CASE freeLow /\ exceeded -> "both"
      [] freeLow /\ ~exceeded -> "free"
      [] ~freeLow /\ exceeded -> "budget"
      [] OTHER -> NoReason

(***************************************************************************)
(* Manager.Observe: entered on either watermark, left only below both exit *)
(* watermarks; in between the reason of the entry is kept.                 *)
(***************************************************************************)
\* Mutant of Observe: the reason of the hysteresis band is not kept.
ObserveForgets(b, p, obs) ==
    LET freeLow  == obs.free < entryFloor(b, obs.total)
        exceeded == obs.used > b.stateBudget
        atExit   == obs.free >= exitFloor(b, obs.total) /\ obs.used <= exitCeiling(b)
        now      == IF p.degraded THEN ~atExit ELSE freeLow \/ exceeded
    IN [obs |-> obs, degraded |-> now, reason |-> reason(freeLow, exceeded)]

Observe(b, p, obs) ==
    LET freeLow  == obs.free < entryFloor(b, obs.total)
        exceeded == obs.used > b.stateBudget
        atExit   == obs.free >= exitFloor(b, obs.total) /\ obs.used <= exitCeiling(b)
        now      == IF p.degraded THEN ~atExit ELSE freeLow \/ exceeded
        why      == reason(freeLow, exceeded)
    IN [obs |-> obs, degraded |-> now,
        reason |-> IF now /\ why = NoReason THEN p.reason ELSE why]

observeFilesystem(d) ==
    [total |-> TotalBytes,
     free  |-> TotalBytes - AllHeld(d),
     used  |-> StateHeld(d)]

refreshed == Observe(Budget, press, observeFilesystem(disk))

(***************************************************************************)
(* diskbudget.Admit.  "read" stands for the reads and backup.delete, "run" *)
(* for the Compose and container mutations that diskOperation maps to an   *)
(* operation allowed under pressure, "grow" for pull, file writes, backups *)
(* and restores.                                                           *)
(***************************************************************************)
Admit(p, kind, durable) ==
    \/ ~p.degraded
    \/ kind = "read"
    \/ kind = "run" /\ durable

CanWrite(free, bytes, class) ==
    /\ bytes <= free
    /\ class = "reserve" \/ free - bytes >= Budget.reserve

durableCapacity(p) == CanWrite(p.obs.free, MinimumBytes, "reserve")

NoJob == [who |-> "none", at |-> "idle", pass |-> 0, tier |-> 0,
          before |-> Unobserved, needed |-> 0, freed |-> 0, owed |-> [k \in TierKinds |-> 0],
          quiet |-> TRUE]

StorageInit(scenes) ==
    /\ left \in scenes
    /\ disk = left.disk
    /\ press = [obs |-> Unobserved, degraded |-> FALSE, reason |-> NoReason]
    /\ job = NoJob
    /\ granted = "none"

Spend(counter) ==
    /\ left[counter] > 0
    /\ left' = [left EXCEPT ![counter] = @ - 1]

\* What a step on the disk leaves of what the cleanup found when it began.
Owing(d) == [k \in TierKinds |-> IF job.owed[k] < d[k] THEN job.owed[k] ELSE d[k]]

(***************************************************************************)
(* runtimeStorage: the discovery loop's reclaimUntilStable and an          *)
(* operation's AdmitOperation both take runtimeStorage.mu.                 *)
(***************************************************************************)
LoopTick ==
    /\ job.who = "none"
    /\ job' = [NoJob EXCEPT !.who = "loop", !.at = "observe"]
    /\ UNCHANGED <<disk, press, granted, left>>

\* An operation that Controller.AdmitOperation allows goes on without a
\* cleanup; one that it denies starts one and is asked about again after it.
AdmitOperation(kind) ==
    /\ job.who = "none"
    /\ press' = refreshed
    /\ job' = IF Admit(refreshed, kind, durableCapacity(refreshed)) THEN NoJob
              ELSE [NoJob EXCEPT !.who = "admit", !.at = "observe"]
    /\ UNCHANGED <<disk, granted, left>>

AdmitAgain ==
    /\ job.at = "again"
    /\ press' = refreshed
    /\ job' = NoJob
    /\ UNCHANGED <<disk, granted, left>>

\* Every tier has been tried, or enough is freed, or nothing is needed.
TiersDone == job.at = "tiers" /\ job.tier > Len(Tiers)

\* An observation that fails ends what asked for it with an error.
ObserveFails ==
    /\ job.at \in {"observe", "again", "failed"} \/ TiersDone
    /\ Spend("faults")
    /\ job' = NoJob
    /\ UNCHANGED <<disk, press, granted>>

(***************************************************************************)
(* Controller.ReclaimForPressure: observe, compute what both exit          *)
(* watermarks need, run the tiers, observe again.                          *)
(***************************************************************************)
Finish ==
    IF job.who = "admit" THEN [job EXCEPT !.at = "again"] ELSE NoJob

\* Mutant of bytesNeeded: only the filesystem's own deficit is reclaimed.
bytesNeededFree(p) ==
    maximum(0, exitFloor(Budget, p.obs.total) - p.obs.free)

bytesNeeded(p) ==
    maximum(0, maximum(exitFloor(Budget, p.obs.total) - p.obs.free,
                       p.obs.used - exitCeiling(Budget)))

BeginPass ==
    /\ job.at = "observe"
    /\ press' = refreshed
    /\ job' = IF ~refreshed.degraded THEN Finish
              ELSE [job EXCEPT !.at = IF bytesNeeded(refreshed) > 0 THEN "staging" ELSE "tiers",
                               !.tier = IF bytesNeeded(refreshed) > 0 THEN 1 ELSE Len(Tiers) + 1,
                               !.pass = @ + 1, !.freed = 0, !.quiet = TRUE,
                               !.needed = bytesNeeded(refreshed), !.before = refreshed.obs,
                               !.owed = [k \in TierKinds |-> disk[k]]]
    /\ UNCHANGED <<disk, granted, left>>

\* reclaimAbandoned cleans every project's staging first and credits none of it.
ReclaimStaging ==
    /\ job.at = "staging"
    /\ disk' = [disk EXCEPT !["staging"] = 0]
    /\ job' = [job EXCEPT !.at = "tiers"]
    /\ UNCHANGED <<press, granted, left>>

\* The loop of diskbudget.Reclaim: later tiers run only while bytes are missing.
NextTier(taken) ==
    IF job.freed + taken >= job.needed THEN Len(Tiers) + 1 ELSE job.tier + 1

TierTakes(k) ==
    LET missing == job.needed - job.freed IN
    IF disk[k] < missing THEN disk[k] ELSE missing

ReclaimTier ==
    /\ job.at = "tiers" /\ job.tier <= Len(Tiers)
    /\ LET k == Tiers[job.tier]
           n == TierTakes(k)
           d == [disk EXCEPT ![k] = @ - n]
       IN /\ disk' = d
          /\ job' = [job EXCEPT !.freed = @ + n, !.tier = NextTier(n), !.owed = Owing(d)]
    /\ UNCHANGED <<press, granted, left>>

\* A reclaimer that fails part way: what it freed counts, no later tier runs.
ReclaimFails ==
    /\ job.at \in {"staging", "tiers"} /\ job.tier <= Len(Tiers)
    /\ Spend("faults")
    /\ LET k == Tiers[job.tier] IN
       \E n \in 0..(IF job.at = "staging" THEN 0 ELSE TierTakes(k)) :
          LET d == [disk EXCEPT ![k] = @ - n] IN
          /\ disk' = d
          /\ job' = [job EXCEPT !.freed = @ + n, !.at = "failed", !.owed = Owing(d)]
    /\ UNCHANGED <<press, granted>>

storageProgress(p) == p.obs.used < job.before.used \/ p.obs.free > job.before.free

AfterPass ==
    /\ TiersDone
    /\ press' = refreshed
    /\ job' = IF \/ job.who = "admit"
                 \/ ~refreshed.degraded
                 \/ job.freed < job.needed
                 \/ ~storageProgress(refreshed)
                 \/ job.pass = MaxPasses
              THEN Finish
              ELSE [job EXCEPT !.at = "observe"]
    /\ UNCHANGED <<disk, granted, left>>

\* After a failed tier the disk is still observed; the caller gets the error.
AfterFailure ==
    /\ job.at = "failed"
    /\ press' = refreshed
    /\ job' = NoJob
    /\ UNCHANGED <<disk, granted, left>>

(***************************************************************************)
(* Admissions that never take runtimeStorage.mu: the backup manager's and  *)
(* the operation journal's ask the controller directly.                    *)
(***************************************************************************)
AdmitBackup ==
    /\ granted = "none"
    /\ press' = refreshed
    /\ granted' = IF Admit(refreshed, "grow", FALSE) /\ CanWrite(refreshed.obs.free, 1, "ordinary")
                  THEN "backup" ELSE "none"
    /\ UNCHANGED <<disk, job, left>>

\* AdmitOperationPersistence: a journal record may use the emergency reserve,
\* an output tail may not.
Persist(class) ==
    /\ press' = refreshed
    /\ CanWrite(refreshed.obs.free, 1, class)
    /\ Spend("writes")
    /\ disk' = [disk EXCEPT !["kept"] = @ + 1]
    /\ job' = [job EXCEPT !.quiet = FALSE]
    /\ UNCHANGED granted

\* AdmitRestore: the state root's policy, then AdmitProjectStaging on the
\* filesystem of the project, which keeps its entry floor free.
AdmitRestore(free) ==
    /\ granted = "none"
    /\ press' = refreshed
    /\ granted' = IF Admit(refreshed, "grow", FALSE) /\ free - 1 >= entryFloor(Budget, TotalBytes)
                  THEN "restore" ELSE "none"
    /\ UNCHANGED <<disk, job, left>>

\* What was admitted is written, whatever happened in between, unless the
\* filesystem is full.
WriteGranted(k) ==
    /\ \/ granted = "backup" /\ k \in {"excess", "kept"}
       \/ granted = "restore" /\ k = "staging"
    /\ AllHeld(disk) < TotalBytes
    /\ Spend("writes")
    /\ granted' = "none"
    /\ disk' = [disk EXCEPT ![k] = @ + 1]
    /\ job' = [job EXCEPT !.quiet = FALSE]
    /\ UNCHANGED press

(***************************************************************************)
(* The rest of the Agent and the host between two steps of a cleanup:      *)
(* audit appends, acknowledgements, expiring records, a crash's leftovers, *)
(* other programs.                                                         *)
(***************************************************************************)
DiskGrows(k) ==
    /\ AllHeld(disk) < TotalBytes
    /\ Spend("writes")
    /\ disk' = [disk EXCEPT ![k] = @ + 1]
    /\ job' = [job EXCEPT !.quiet = FALSE]
    /\ UNCHANGED <<press, granted>>

DiskMoves(from, to) ==
    /\ disk[from] > 0
    /\ Spend("writes")
    /\ LET d == [disk EXCEPT ![from] = @ - 1, ![to] = @ + 1] IN
       /\ disk' = d
       /\ job' = [job EXCEPT !.quiet = FALSE, !.owed = Owing(d)]
    /\ UNCHANGED <<press, granted>>

StorageNext ==
    \/ LoopTick
    \/ \E kind \in {"run", "grow"} : AdmitOperation(kind)
    \/ AdmitAgain
    \/ ObserveFails
    \/ BeginPass
    \/ ReclaimStaging
    \/ ReclaimTier
    \/ ReclaimFails
    \/ AfterPass
    \/ AfterFailure
    \/ AdmitBackup
    \/ \E k \in {"excess", "kept", "staging"} : WriteGranted(k)
    \/ \E class \in {"reserve", "ordinary"} : Persist(class)
    \/ \E free \in {0, TotalBytes} : AdmitRestore(free)
    \/ \E k \in {"unacked", "temp", "staging", "foreign"} : DiskGrows(k)
    \/ \E m \in {<<"unacked", "acked">>, <<"kept", "expired">>, <<"excess", "old">>} : DiskMoves(m[1], m[2])

StorageSpec == StorageInit(StorageScenes) /\ [][StorageNext]_storageVars

(***************************************************************************)
(* Properties.                                                             *)
(***************************************************************************)
StorageTypeOK ==
    /\ disk \in Disks
    /\ press \in [obs : Observations, degraded : BOOLEAN, reason : Reasons]
    /\ job \in [who : {"none", "loop", "admit"},
               at : {"idle", "observe", "staging", "tiers", "failed", "again"},
               pass : 0..MaxPasses, tier : 0..(Len(Tiers) + 1), before : Observations,
               needed : Nat, freed : Nat, owed : [TierKinds -> Nat], quiet : BOOLEAN]
    /\ granted \in {"none", "backup", "restore"}
    /\ left \in [disk : Disks, faults : Nat, writes : Nat]

\* The pressure state tells the truth about the last observation: an Agent
\* that is degraded always says why and is not within both exit watermarks,
\* one that is not degraded gives no reason and is within both entry
\* watermarks (diskbudget Manager.Observe, over any order of observations;
\* before the first one there is nothing to tell).
PressureState ==
    /\ press.degraded <=> press.reason # NoReason
    /\ press.degraded =>
         \/ press.obs.free < exitFloor(Budget, press.obs.total)
         \/ press.obs.used > exitCeiling(Budget)
    /\ ~press.degraded /\ press.obs.total > 0 =>
         /\ press.obs.free >= entryFloor(Budget, press.obs.total)
         /\ press.obs.used <= Budget.stateBudget

\* Losses are ordered: once a cleanup pass has moved past a tier and still
\* goes on, nothing is left of what that tier held when the pass began, so
\* no byte of unacknowledged audit is given up while a less valuable one
\* could have been freed instead (diskbudget Reclaim).
LossOrdered ==
    job.at = "tiers" /\ job.tier <= Len(Tiers) =>
        \A i \in DOMAIN Tiers : i < job.tier => job.owed[Tiers[i]] = 0

\* A pass that reclaimed what it asked for, with nobody else writing
\* meanwhile, ends the pressure (ReclaimForPressure asks for enough).
EnoughIsAsked ==
    TiersDone /\ job.quiet /\ job.freed >= job.needed =>
        ~refreshed.degraded

\* The cleanup gives things up in order, and asks for enough.
CleanupIsSound == StorageTypeOK /\ LossOrdered /\ EnoughIsAsked

=============================================================================
