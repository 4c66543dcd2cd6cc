--------------------------- MODULE DockerSnapshot ---------------------------
(***************************************************************************)
(* agentruntime/docker_snapshot.go: at every boot and before every event   *)
(* subscription the Agent compares a digest of the container inventory     *)
(* with the one in its state file, and records an unobserved_change when   *)
(* they differ.  The record is appended once per key (auditwal/once.go),   *)
(* the key being the new digest, so that a reconciliation repeated after a *)
(* crash does not append it twice; the key is forgotten at the end.  The   *)
(* payload carries the time of the attempt, so that no two attempts have   *)
(* the same one.  Digests are model values; equal inventories have equal   *)
(* digests.                                                                *)
(***************************************************************************)
EXTENDS Naturals, Sequences

CONSTANTS
    Digests,    \* the inventories the daemon may report
    NoDigest,   \* the state file holds none yet
    MaxChanges, \* bound: changes of the inventory
    MaxFaults   \* budget: crashes and failed writes

VARIABLES
    inventory, \* the daemon's containers
    stored,    \* docker_snapshot_sha256 of the state file
    recorded,  \* unobserved_change records
    receipts,  \* keys whose receipt AppendOnce has saved
    attempt,   \* where the reconciliation is, and what it read
    saves,     \* history: times the stored digest was replaced
    chances    \* budgets that remain

snapshotVars == <<inventory, stored, recorded, receipts, attempt, saves, chances>>

Idle == [at |-> "idle", from |-> NoDigest, to |-> NoDigest]

InventoryChanges ==
    /\ chances.changes > 0
    /\ inventory' \in Digests \ {inventory}
    /\ chances' = [chances EXCEPT !.changes = @ - 1]
    /\ UNCHANGED <<stored, recorded, receipts, attempt, saves>>

(* List, digest, Snapshot: nothing to record when the digest is the stored *)
(* one, and nothing to compare with on the first call.                     *)
reconcileDockerSnapshot ==
    /\ attempt = Idle
    /\ attempt' = [at |-> IF stored = inventory THEN "forget" ELSE IF stored = NoDigest THEN "first" ELSE "append",
                   from |-> stored, to |-> inventory]
    /\ UNCHANGED <<inventory, stored, recorded, receipts, saves, chances>>

ChangeRecord == [from |-> attempt.from, to |-> attempt.to, saves |-> saves]

(* Mutant of SaveReceipt: a receipt counts as the record. *)
SaveReceiptTrusts ==
    /\ attempt.at = "append"
    /\ receipts' = receipts \cup {attempt.to}
    /\ attempt' = [attempt EXCEPT !.at = IF attempt.to \in receipts THEN "set" ELSE "frame"]
    /\ UNCHANGED <<inventory, stored, recorded, saves, chances>>

(* AppendOnce, first half: the receipt of an earlier attempt names another *)
(* payload and refuses this one; otherwise a receipt is saved first.       *)
SaveReceipt ==
    /\ attempt.at = "append"
    /\ receipts' = receipts \cup {attempt.to}
    /\ attempt' = IF attempt.to \in receipts THEN Idle ELSE [attempt EXCEPT !.at = "frame"]
    /\ UNCHANGED <<inventory, stored, recorded, saves, chances>>

(* AppendOnce, second half: append, sync, complete the receipt. *)
AppendFrame ==
    /\ attempt.at = "frame"
    /\ recorded' = Append(recorded, ChangeRecord)
    /\ attempt' = [attempt EXCEPT !.at = "set"]
    /\ UNCHANGED <<inventory, stored, receipts, saves, chances>>

SetDockerSnapshotSHA256 ==
    /\ attempt.at \in {"first", "set"}
    /\ stored' = attempt.to
    /\ saves' = saves + 1
    /\ attempt' = IF attempt.at = "first" THEN Idle ELSE [attempt EXCEPT !.at = "forget"]
    /\ UNCHANGED <<inventory, recorded, receipts, chances>>

ForgetOnce ==
    /\ attempt.at = "forget"
    /\ receipts' = receipts \ {attempt.to}
    /\ attempt' = Idle
    /\ UNCHANGED <<inventory, stored, recorded, saves, chances>>

(* The write fails or the process dies before it: the reconciliation is    *)
(* abandoned, and run again by the loop or by the next boot.               *)
Abandon ==
    /\ attempt # Idle /\ chances.faults > 0
    /\ attempt' = Idle
    /\ chances' = [chances EXCEPT !.faults = @ - 1]
    /\ UNCHANGED <<inventory, stored, recorded, receipts, saves>>

SnapshotInit ==
    /\ inventory \in Digests
    /\ stored = NoDigest
    /\ recorded = <<>>
    /\ receipts = {}
    /\ attempt = Idle
    /\ saves = 0
    /\ chances = [changes |-> MaxChanges, faults |-> MaxFaults]

SnapshotNext ==
    \/ InventoryChanges \/ Abandon
    \/ reconcileDockerSnapshot \/ SaveReceipt \/ AppendFrame \/ SetDockerSnapshotSHA256 \/ ForgetOnce

SnapshotSpec == SnapshotInit /\ [][SnapshotNext]_snapshotVars

-----------------------------------------------------------------------------
(* A reconciliation that is abandoned and repeated does not record its     *)
(* change twice (docker_snapshot.go:56): until the stored digest is        *)
(* replaced each new inventory is recorded at most once.                   *)
NotTwice == \A i, j \in DOMAIN recorded : i # j => recorded[i] # recorded[j]

(* When the inventory differs from the stored digest an unobserved_change  *)
(* is recorded (architecture 11.2, docker_snapshot.go:20): the digest is   *)
(* replaced only after a record of that very change.                       *)
ChangeAudited ==
    attempt.at = "forget" /\ attempt.from # attempt.to =>
        \E i \in DOMAIN recorded : recorded[i] = [from |-> attempt.from, to |-> attempt.to, saves |-> saves - 1]

(* Each change of the inventory is recorded exactly once before its digest *)
(* is stored (ChangeAudited, NotTwice).                                     *)
ChangeRecordedOnce == ChangeAudited /\ NotTwice
=============================================================================
