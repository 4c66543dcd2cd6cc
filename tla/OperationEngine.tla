-------------------------- MODULE OperationEngine --------------------------
(***************************************************************************)
(* The Agent's operation engine (internal/operation) driven by the product *)
(* executor (internal/agentops): durable acceptance, project locks, the    *)
(* status and phase graphs, cancellation against commit, the terminal      *)
(* audit outbox, bounded result retention, shutdown, crash and recovery.   *)
(*                                                                         *)
(* One runner goroutine per operation (pc), one control thread (ctl) for   *)
(* engine startup and Shutdown, and callers that start, cancel and read    *)
(* operations at any moment.  A step is one critical section of            *)
(* Operation.mu, Engine.mu or LockManager.mu.                              *)
(***************************************************************************)
EXTENDS Integers, Sequences, FiniteSets

CONSTANTS
    Ops,            \* operation ids
    Projects,       \* project keys
    NoOp,           \* "no lock holder"
    Specs,          \* the specs callers submit: [type, project]
    ResultMax,      \* Config.ResultMax
    MaxSaveFaults,  \* bound: journal writes or deletes that fail
    MaxAuditFaults, \* bound: audit deliveries or confirmations that fail
    MaxCrashes,     \* bound: process crashes
    MaxCutoff,      \* bound: finish time up to which retention may elapse
    MaxRevision     \* bound: revision up to which progress is reported

(* types.go: the operation types and what they imply. *)
ContainerTypes == {"container.start", "container.stop", "container.restart", "container.remove"}
FileWriteTypes == {"compose.file.write", "env.write", "override.write"}
ComposeRunTypes == {"compose.up", "compose.down", "compose.start", "compose.stop", "compose.restart"}
Types == ContainerTypes \cup FileWriteTypes \cup ComposeRunTypes
           \cup {"compose.pull", "backup.create", "backup.restore", "discovery.rescan"}

cancelModeForType(t) ==
    CASE t \in {"discovery.rescan", "compose.pull", "backup.create"} -> "SAFE"
      [] t \in ComposeRunTypes -> "BEST_EFFORT_PARTIAL"
      [] t \in FileWriteTypes \cup ContainerTypes \cup {"backup.restore"} -> "BEFORE_COMMIT"
      [] OTHER -> "NONE"

requiresProjectLock(t) == t # "discovery.rescan"

(* Operations are finitely many: every set of them has a size.              *)
ASSUME OpsAssumption == (\A S \in SUBSET Ops : Cardinality(S) \in Nat) /\ NoOp \notin Ops
ASSUME SpecsAssumption == Specs # {} /\ Specs \subseteq [type : Types, project : Projects]
ASSUME BoundsAssumption ==
    /\ ResultMax \in Nat \ {0}
    /\ {MaxSaveFaults, MaxAuditFaults, MaxCrashes, MaxCutoff, MaxRevision} \subseteq Nat

TerminalStatuses == {"success", "failed", "canceled", "interrupted", "rejected"}
ActiveStatuses == {"requested", "dispatched", "running"}
Terminal(s) == s \in TerminalStatuses

(* A Record, reduced to what decides control.  status "absent" stands for   *)
(* no entry at all; cancel and commit are CancelRequestedAt and             *)
(* CommitStartedAt being set; fin is FinishedAt on the finish clock.        *)
Record == [status   : ActiveStatuses \cup TerminalStatuses \cup {"absent"},
           phase    : {"PREPARING", "EXECUTING", "COMMITTING", "FINALIZING"},
           cancel   : BOOLEAN,
           commit   : BOOLEAN,
           delivery : {"NONE", "PENDING", "DELIVERED"},
           rev      : Nat,
           fin      : Nat,
           spec     : Specs]

Absent == [status |-> "absent", phase |-> "PREPARING", cancel |-> FALSE, commit |-> FALSE,
           delivery |-> "NONE", rev |-> 0, fin |-> 0, spec |-> CHOOSE s \in Specs : TRUE]

newOperation(spec) == [Absent EXCEPT !.status = "requested", !.rev = 1, !.spec = spec]

VARIABLES
    mem,        \* Engine.items: the records callers see
    disk,       \* FileJournal: the minimal records as a crash would leave them
    unlinked,   \* records removed from the live directory, removal not yet synced
    results,    \* Engine.results: terminal ids, oldest first
    held,       \* LockManager.held: the owner of each project lock
    lease,      \* Operation.lease # nil
    ctx,        \* the execution context: "unset", "live" or "done"
    pc,         \* where the runner goroutine of the operation is
    ctl,        \* where the engine's control thread is
    todo,       \* operations the control thread has yet to visit in its loop
    replayErr,  \* some delivery of the current replay pass failed
    receipt,    \* idempotency receipt at the audit destination
    audited,    \* number of managed audit records appended for the operation
    clock,      \* finish clock: FinishedAt of the newest finished operation
    cutoff,     \* results finished at or before it are past ResultRetention
    faults,     \* [save, audit]: failures so far
    crashes,    \* crashes so far
    outcome,    \* history: the terminal status callers have been shown
    evicted     \* history: "no", or which path dropped the result

storeVars == <<mem, disk, unlinked, faults>>
resultVars == <<results, evicted>>
finishVars == <<clock, cutoff, outcome>>
lockVars == <<held, lease>>
ctlVars == <<ctl, todo, replayErr>>
auditVars == <<receipt, audited>>
vars == <<storeVars, resultVars, finishVars, lockVars, ctlVars, auditVars, ctx, pc, crashes>>

Present(o) == mem[o].status # "absent"
Active(o) == mem[o].status \in ActiveStatuses
Project(o) == mem[o].spec.project
Mode(o) == cancelModeForType(mem[o].spec.type)
shuttingDown == ctl \in {"cancelling", "waiting", "draining", "timedOut", "closed"}
Serving == ctl = "up" \/ shuttingDown
NoRunner == \A o \in Ops : pc[o] = "none"
Goto(o, l) == pc' = [pc EXCEPT ![o] = l]

(* The sequences that list each element of a finite set once.               *)
Enumerations(S) ==
    {s \in [1..Cardinality(S) -> S] :
        /\ \A i, j \in DOMAIN s : s[i] = s[j] => i = j
        /\ \A x \in S : \E i \in DOMAIN s : s[i] = x}

-----------------------------------------------------------------------------
(* The journal.  A directory sync makes every earlier removal durable.      *)
Synced(d) == [o \in Ops |-> IF o \in unlinked THEN Absent ELSE d[o]]

(* Journal.Save succeeds: the record is durable and becomes the one callers *)
(* see.                                                                     *)
Saved(o, r) ==
    /\ mem' = [mem EXCEPT ![o] = r]
    /\ disk' = [Synced(disk) EXCEPT ![o] = r]
    /\ unlinked' = {}
    /\ UNCHANGED faults

(* Mutant of SaveFailed: the record in memory is not rolled back.           *)
SaveFailedNoRollback(o, r) ==
    /\ faults.save < MaxSaveFaults
    /\ faults' = [faults EXCEPT !.save = @ + 1]
    /\ disk' \in {disk, [disk EXCEPT ![o] = r]}
    /\ mem' = [mem EXCEPT ![o] = r]
    /\ UNCHANGED unlinked

(* Journal.Save fails and the caller rolls its record back.  The failure is *)
(* either before the rename or in the directory sync after it.              *)
SaveFailed(o, r) ==
    /\ faults.save < MaxSaveFaults
    /\ faults' = [faults EXCEPT !.save = @ + 1]
    /\ disk' \in {disk, [disk EXCEPT ![o] = r]}
    /\ UNCHANGED <<mem, unlinked>>

(* A guarded journaled update of a runner: where it continues when the      *)
(* update is durable, and where when it is illegal or its save fails.       *)
Update(o, legal, r, ok, err) ==
    /\ \/ legal /\ Saved(o, r) /\ Goto(o, ok)
       \/ legal /\ SaveFailed(o, r) /\ Goto(o, err)
       \/ ~legal /\ Goto(o, err) /\ UNCHANGED storeVars
    /\ UNCHANGED <<resultVars, finishVars, lockVars, ctlVars, auditVars, ctx, crashes>>

(* cleanupLocked: drop results from the oldest on while there are too many  *)
(* or they are past retention, stopping at one whose audit is pending and   *)
(* at a failed deletion.  A deletion that finds the record already removed  *)
(* succeeds without a directory sync.  The set of possible stores after it. *)
Evictable(res, i) ==
    /\ Len(res) - (i - 1) > ResultMax \/ mem[res[i]].fin <= cutoff
    /\ mem[res[i]].delivery # "PENDING"

Deletion(res, n, fault) ==
    LET dropped == {res[i] : i \in 1..n}
        synced == ~(dropped \subseteq unlinked)
    IN [mem |-> [o \in Ops |-> IF o \in dropped THEN Absent ELSE mem[o]],
        disk |-> [o \in Ops |-> IF synced /\ o \in dropped \cup unlinked THEN Absent ELSE disk[o]],
        unlinked |-> (IF synced THEN {} ELSE unlinked)
                        \cup (IF fault = "sync" THEN {res[n + 1]} ELSE {}),
        faults |-> IF fault = "none" THEN faults ELSE [faults EXCEPT !.save = @ + 1],
        results |-> SubSeq(res, n + 1, Len(res)),
        evicted |-> [o \in Ops |-> IF o \in dropped THEN "retention" ELSE evicted[o]]]

cleanupLocked(res) ==
    {Deletion(res, n, "none") : n \in {n \in 0..Len(res) :
        /\ \A i \in 1..n : Evictable(res, i)
        /\ n < Len(res) => ~Evictable(res, n + 1)}}
    \cup
    {Deletion(res, n, fault) : n \in {n \in 0..(Len(res) - 1) :
        /\ faults.save < MaxSaveFaults
        /\ \A i \in 1..(n + 1) : Evictable(res, i)},
        fault \in {"remove", "sync"}}

Publish(st) ==
    /\ mem' = st.mem /\ disk' = st.disk /\ unlinked' = st.unlinked
    /\ faults' = st.faults /\ results' = st.results /\ evicted' = st.evicted

-----------------------------------------------------------------------------
(* Callers.                                                                 *)

(* accept + StartOperation: retention runs first, then the record is made   *)
(* durable and a runner is reserved.  An id that is already known returns   *)
(* the existing record, so only its retention work is a step (Get).         *)
(* Assumed of callers: an id names one request, and is not submitted again  *)
(* once its outcome was shown.                                              *)
StartOperation(o, spec) ==
    /\ ctl = "up"
    /\ ~Present(o) /\ outcome[o] = "none"
    /\ \E st \in cleanupLocked(results) :
         /\ results' = st.results /\ evicted' = st.evicted
         /\ \/ /\ mem' = [st.mem EXCEPT ![o] = newOperation(spec)]
               /\ disk' = [x \in Ops |-> IF x = o THEN newOperation(spec)
                                         ELSE IF x \in st.unlinked THEN Absent ELSE st.disk[x]]
               /\ unlinked' = {}
               /\ faults' = st.faults
               /\ Goto(o, "accepted")
            \/ /\ st.faults.save < MaxSaveFaults
               /\ faults' = [st.faults EXCEPT !.save = @ + 1]
               /\ disk' \in {st.disk, [st.disk EXCEPT ![o] = newOperation(spec)]}
               /\ mem' = st.mem /\ unlinked' = st.unlinked
               /\ UNCHANGED pc
    /\ UNCHANGED <<finishVars, lockVars, ctlVars, auditVars, ctx, crashes>>

(* Get, ListActiveOperations and a repeated StartOperation: retention runs. *)
Get ==
    /\ Serving
    /\ \E st \in cleanupLocked(results) : Publish(st)
    /\ UNCHANGED <<finishVars, lockVars, ctlVars, auditVars, ctx, pc, crashes>>

Committed(r) == r.commit \/ r.phase \in {"COMMITTING", "FINALIZING"}

(* Whether CancelWithError answers ACCEPTED.  Otherwise it answers          *)
(* NOT_FOUND, ALREADY_TERMINAL, NOT_CANCELABLE or TOO_LATE and changes      *)
(* nothing.                                                                 *)
CancelAccepted(o) ==
    /\ Active(o)
    /\ Mode(o) # "NONE"
    /\ Mode(o) = "BEFORE_COMMIT" => ~Committed(mem[o])

(* Operation.CancelWithError, first acceptance: journal the request, then   *)
(* cancel the execution context if the runner has attached one.             *)
CancelWithError(o) ==
    LET r == [mem[o] EXCEPT !.cancel = TRUE, !.rev = @ + 1]
    IN \/ Saved(o, r) /\ ctx' = [ctx EXCEPT ![o] = IF @ = "live" THEN "done" ELSE @]
       \/ SaveFailed(o, r) /\ UNCHANGED ctx

(* A user's CancelOperation, and the timeout timer of a running operation,  *)
(* which takes the same path.                                               *)
Cancel(o) ==
    /\ Serving
    /\ CancelAccepted(o) /\ ~mem[o].cancel
    /\ CancelWithError(o)
    /\ UNCHANGED <<resultVars, finishVars, lockVars, ctlVars, auditVars, pc, crashes>>

(* Time passes: more results are past Config.ResultRetention.               *)
Tick ==
    /\ cutoff' \in (cutoff + 1)..clock /\ cutoff' <= MaxCutoff
    /\ UNCHANGED <<storeVars, resultVars, clock, outcome, lockVars, ctlVars, auditVars, ctx, pc, crashes>>

(* Disk-pressure eviction of results past retention.  It may stop after any *)
(* entry, skips pending audits, stops at a record that is already removed,  *)
(* and drops a result whose removal was done but could not be synced.       *)
ReclaimExpiredForDiskPressure ==
    /\ Serving
    /\ \E n \in 1..Len(results) :
         LET gone == {results[i] : i \in {i \in 1..n : mem[results[i]].delivery # "PENDING"}}
         IN /\ \A i \in 1..n : mem[results[i]].fin <= cutoff
            /\ gone # {} /\ gone \cap unlinked = {}
            /\ mem' = [o \in Ops |-> IF o \in gone THEN Absent ELSE mem[o]]
            /\ evicted' = [o \in Ops |-> IF o \in gone THEN "pressure" ELSE evicted[o]]
            /\ results' \in Enumerations({results[i] : i \in DOMAIN results} \ gone)
            /\ \A i, j \in DOMAIN results' : i < j =>
                  \E k, l \in DOMAIN results : k < l /\ results[k] = results'[i] /\ results[l] = results'[j]
            /\ \/ /\ disk' = [o \in Ops |-> IF o \in gone \cup unlinked THEN Absent ELSE disk[o]]
                  /\ unlinked' = {}
                  /\ UNCHANGED faults
               \/ /\ results[n] \in gone /\ faults.save < MaxSaveFaults
                  /\ LET before == gone \ {results[n]}
                         synced == before # {}
                     IN /\ disk' = [o \in Ops |-> IF synced /\ o \in before \cup unlinked
                                                  THEN Absent ELSE disk[o]]
                        /\ unlinked' = (IF synced THEN {} ELSE unlinked) \cup {results[n]}
                  /\ faults' = [faults EXCEPT !.save = @ + 1]
    /\ UNCHANGED <<finishVars, lockVars, ctlVars, auditVars, ctx, pc, crashes>>

-----------------------------------------------------------------------------
(* The runner goroutine of an operation.                                    *)

RunnerStep(o, from, to) == pc[o] = from /\ Goto(o, to)
OnlyRunner == UNCHANGED <<storeVars, resultVars, finishVars, ctlVars, auditVars, crashes>>

(* attachExecutionCancel: a cancel accepted earlier cancels at once.        *)
AttachExecutionCancel(o) ==
    /\ RunnerStep(o, "accepted", IF requiresProjectLock(mem[o].spec.type) THEN "acquire" ELSE "dispatch")
    /\ ctx' = [ctx EXCEPT ![o] = IF Terminal(mem[o].status) \/ mem[o].cancel THEN "done" ELSE "live"]
    /\ OnlyRunner /\ UNCHANGED lockVars

(* LockManager.Acquire takes a free lock whatever the context says...       *)
Acquire(o) ==
    /\ held[Project(o)] = NoOp
    /\ RunnerStep(o, "acquire", "leased")
    /\ held' = [held EXCEPT ![Project(o)] = o]
    /\ OnlyRunner /\ UNCHANGED <<lease, ctx>>

(* Mutant of AcquireFails: the wait that times out goes on without the lock. *)
AcquireGivesUp(o) ==
    /\ held[Project(o)] # NoOp
    /\ RunnerStep(o, "acquire", "dispatch")
    /\ OnlyRunner /\ UNCHANGED <<lockVars, ctx>>

(* ... and gives up on a held one when canceled or after the bounded wait.  *)
AcquireFails(o) ==
    /\ held[Project(o)] # NoOp
    /\ RunnerStep(o, "acquire", "refused")
    /\ OnlyRunner /\ UNCHANGED <<lockVars, ctx>>

(* Mutant of Refused: the runner returns without finishing the operation.   *)
RefusedSilently(o) ==
    /\ RunnerStep(o, "refused", IF mem[o].cancel THEN "cancel" ELSE "none")
    /\ OnlyRunner /\ UNCHANGED <<lockVars, ctx>>

(* StartOperation after a failed Acquire: look once at the record.          *)
Refused(o) ==
    /\ RunnerStep(o, "refused", IF mem[o].cancel THEN "cancel" ELSE "reject")
    /\ OnlyRunner /\ UNCHANGED <<lockVars, ctx>>

attachLease(o) ==
    /\ RunnerStep(o, "leased", "dispatch")
    /\ IF Terminal(mem[o].status)
       THEN held' = [held EXCEPT ![Project(o)] = NoOp] /\ UNCHANGED lease
       ELSE lease' = [lease EXCEPT ![o] = TRUE] /\ UNCHANGED held
    /\ OnlyRunner /\ UNCHANGED ctx

(* The edges of legalStatusTransition that the Agent's callers use; the     *)
(* Agent never enters "unknown".                                            *)
legalStatusTransition(current, next) ==
    \/ current = "requested" /\ next \in {"dispatched", "rejected", "canceled", "interrupted"}
    \/ current = "dispatched" /\ next \in {"running", "rejected", "canceled", "interrupted"}
    \/ current = "running" /\ next \in {"success", "failed", "canceled", "interrupted"}

(* TransitionStatus to a status that is not terminal.                       *)
TransitionStatus(o, next, ok, err) ==
    Update(o, legalStatusTransition(mem[o].status, next),
           [mem[o] EXCEPT !.status = next, !.rev = @ + 1], ok, err)

Dispatch(o) == pc[o] = "dispatch" /\ TransitionStatus(o, "dispatched", "admit", "reject")

(* Service.run: storage admission, which a rescan does not need.            *)
AdmitOperation(o) ==
    /\ \/ RunnerStep(o, "admit", "run")
       \/ mem[o].spec.type # "discovery.rescan" /\ RunnerStep(o, "admit", "reject")
    /\ OnlyRunner /\ UNCHANGED <<lockVars, ctx>>

(* A runner that cannot record "running" just returns.                      *)
Run(o) == pc[o] = "run" /\ TransitionStatus(o, "running", "prepare", "none")

legalPhase(r, next) ==
    /\ r.status \in ActiveStatuses
    /\ \/ r.phase = "PREPARING" /\ next = "EXECUTING"
       \/ /\ next = "FINALIZING"
          /\ r.phase = IF cancelModeForType(r.spec.type) = "BEFORE_COMMIT" THEN "COMMITTING" ELSE "EXECUTING"

AdvancePhase(o, next, ok, err) ==
    Update(o, legalPhase(mem[o], next), [mem[o] EXCEPT !.phase = next, !.rev = @ + 1], ok, err)

Prepare(o) == pc[o] = "prepare" /\ AdvancePhase(o, "EXECUTING", "work", "fail")

(* Mutant of EnterCommitLegal: an accepted cancel does not stop the commit. *)
EnterCommitIgnoringCancel(o) ==
    /\ Active(o)
    /\ Mode(o) = "BEFORE_COMMIT" /\ mem[o].phase = "EXECUTING"

(* EnterCommit serialises with CancelWithError on Operation.mu.             *)
EnterCommitLegal(o) ==
    /\ Active(o)
    /\ Mode(o) = "BEFORE_COMMIT" /\ mem[o].phase = "EXECUTING"
    /\ ~mem[o].cancel

EnterCommit(o) ==
    /\ pc[o] = "work" /\ Mode(o) = "BEFORE_COMMIT"
    /\ Update(o, EnterCommitLegal(o),
              [mem[o] EXCEPT !.phase = "COMMITTING", !.commit = TRUE, !.rev = @ + 1],
              "commit", "finish")

(* Restore reports each replaced file; a failed report rolls it back.       *)
AdvanceProgress(o) ==
    /\ pc[o] = "commit" /\ mem[o].spec.type = "backup.restore"
    /\ mem[o].rev < MaxRevision
    /\ Update(o, Active(o), [mem[o] EXCEPT !.rev = @ + 1], "commit", "finish")

(* The work returns.  Success of a BEFORE_COMMIT type passes through        *)
(* EnterCommit and ignores the context; any other type needs a live one.    *)
WorkReturns(o) ==
    /\ \/ /\ pc[o] = "commit" \/ (pc[o] = "work" /\ Mode(o) # "BEFORE_COMMIT")
          /\ ctx[o] = "live" \/ mem[o].phase = "COMMITTING"
          /\ Goto(o, "finalize")
       \/ /\ pc[o] = "commit" \/ (pc[o] = "work" /\ mem[o].spec.type \notin ContainerTypes)
          /\ Goto(o, "finish")
    /\ OnlyRunner /\ UNCHANGED <<lockVars, ctx>>

(* finishCanceledOrFailed: canceled only if cancellation was accepted.      *)
FinishCanceledOrFailed(o) ==
    /\ RunnerStep(o, "finish",
         IF (ctx[o] = "live" /\ ~mem[o].cancel) \/ ~CancelAccepted(o) THEN "fail" ELSE "cancel")
    /\ OnlyRunner /\ UNCHANGED <<lockVars, ctx>>

Finalize(o) == pc[o] = "finalize" /\ AdvancePhase(o, "FINALIZING", "succeed", "fail")

(* Mutant of Finished: FinishedAt is not set.                               *)
FinishedWithoutTime(o, next) ==
    [mem[o] EXCEPT !.status = next, !.rev = @ + 1, !.delivery = "PENDING"]

(* finishLocked and its save: the terminal status, the finish time, the     *)
(* pending audit and the surrender of the lease are one durable step.  The  *)
(* lease is released next (if there was one); if the save fails the runner  *)
(* returns and leaves the operation, with its lease, as it was.             *)
Finished(o, next) ==
    [mem[o] EXCEPT !.status = next, !.rev = @ + 1, !.fin = clock + 1, !.delivery = "PENDING"]

Finish(o, legal, next) ==
    /\ \/ /\ legal /\ Saved(o, Finished(o, next))
          /\ lease' = [lease EXCEPT ![o] = FALSE]
          /\ clock' = clock + 1
          /\ outcome' = [outcome EXCEPT ![o] = next]
          /\ Goto(o, IF lease[o] THEN "release" ELSE "index")
       \/ /\ legal /\ SaveFailed(o, Finished(o, next)) /\ Goto(o, "none")
          /\ UNCHANGED <<lease, clock, outcome>>
       \/ /\ ~legal /\ Goto(o, "none")
          /\ UNCHANGED <<storeVars, lease, clock, outcome>>
    /\ UNCHANGED <<resultVars, held, cutoff, ctlVars, auditVars, ctx, crashes>>

Succeed(o) ==
    /\ pc[o] = "succeed"
    /\ Finish(o, legalStatusTransition(mem[o].status, "success") /\ mem[o].phase = "FINALIZING", "success")

Fail(o) ==
    pc[o] = "fail" /\ Finish(o, legalStatusTransition(mem[o].status, "failed"), "failed")

CancelTerminal(o) ==
    /\ pc[o] = "cancel"
    /\ Finish(o, legalStatusTransition(mem[o].status, "canceled") /\ mem[o].cancel, "canceled")

Reject(o) ==
    pc[o] = "reject" /\ Finish(o, Active(o), "rejected")

(* Lease.Release frees the lock only for its owner.                         *)
Release(o) ==
    /\ RunnerStep(o, "release", "index")
    /\ held' = [held EXCEPT ![Project(o)] = IF @ = o THEN NoOp ELSE @]
    /\ OnlyRunner /\ UNCHANGED <<lease, ctx>>

(* onTerminal: index the result and run retention, then deliver the audit.  *)
OnTerminal(o) ==
    /\ RunnerStep(o, "index", "deliver")
    /\ \E st \in cleanupLocked(Append(results, o)) : Publish(st)
    /\ UNCHANGED <<finishVars, lockVars, ctlVars, auditVars, ctx, crashes>>

(* Mutant of ReserveReceipt: a reserved receipt's record is not looked for. *)
ReserveWithoutSearch(o) ==
    /\ RunnerStep(o, "deliver", IF receipt[o] = "stamped" THEN "mark" ELSE "append")
    /\ receipt' = [receipt EXCEPT ![o] = IF @ = "none" THEN "reserved" ELSE @]
    /\ UNCHANGED <<storeVars, resultVars, finishVars, lockVars, ctlVars, audited, ctx, crashes>>

(* deliverTerminalAudit against AppendManagedOnce: reserve a receipt,       *)
(* append unless a reserved receipt's record is already there, stamp the    *)
(* receipt with the cursor, journal DELIVERED, and drop the receipt.        *)
ReserveReceipt(o) ==
    /\ RunnerStep(o, "deliver", CASE receipt[o] = "stamped" -> "mark"
                                  [] receipt[o] = "reserved" /\ audited[o] > 0 -> "stamp"
                                  [] OTHER -> "append")
    /\ receipt' = [receipt EXCEPT ![o] = IF @ = "none" THEN "reserved" ELSE @]
    /\ UNCHANGED <<storeVars, resultVars, finishVars, lockVars, ctlVars, audited, ctx, crashes>>

AppendRecord(o) ==
    /\ RunnerStep(o, "append", "stamp")
    /\ audited' = [audited EXCEPT ![o] = @ + 1]
    /\ UNCHANGED <<storeVars, resultVars, finishVars, lockVars, ctlVars, receipt, ctx, crashes>>

StampReceipt(o) ==
    /\ RunnerStep(o, "stamp", "mark")
    /\ receipt' = [receipt EXCEPT ![o] = "stamped"]
    /\ UNCHANGED <<storeVars, resultVars, finishVars, lockVars, ctlVars, audited, ctx, crashes>>

Replaying == ctl \in {"replaying", "draining"}

MarkDelivered(o) ==
    LET r == [mem[o] EXCEPT !.delivery = "DELIVERED"]
    IN /\ pc[o] = "mark"
       /\ \/ Saved(o, r) /\ Goto(o, "confirm") /\ UNCHANGED replayErr
          \/ SaveFailed(o, r) /\ Goto(o, "none") /\ replayErr' = Replaying
       /\ UNCHANGED <<resultVars, finishVars, lockVars, ctl, todo, auditVars, ctx, crashes>>

ConfirmTerminal(o) ==
    /\ RunnerStep(o, "confirm", "none")
    /\ receipt' = [receipt EXCEPT ![o] = "none"]
    /\ UNCHANGED <<storeVars, resultVars, finishVars, lockVars, ctlVars, audited, ctx, crashes>>

(* The audit destination fails; the caller gives up on this delivery.       *)
AuditFault(o) ==
    /\ pc[o] \in {"deliver", "append", "stamp", "confirm"}
    /\ faults.audit < MaxAuditFaults
    /\ faults' = [faults EXCEPT !.audit = @ + 1]
    /\ Goto(o, "none")
    /\ replayErr' = Replaying
    /\ UNCHANGED <<mem, disk, unlinked, resultVars, finishVars, lockVars, ctl, todo, auditVars, ctx, crashes>>

-----------------------------------------------------------------------------
(* The control thread: New, Shutdown, and the life of the process.          *)

OnlyControl == UNCHANGED <<finishVars, lockVars, auditVars, ctx, crashes>>

(* FileJournal.Load.                                                        *)
Load ==
    /\ ctl = "down"
    /\ ctl' = "loading"
    /\ todo' = {o \in Ops : disk[o].status # "absent"}
    /\ UNCHANGED <<storeVars, resultVars, replayErr, pc>> /\ OnlyControl

(* Mutant of RecoverInterrupted: finished records are interrupted as well.  *)
RecoverEverythingInterrupted(o) ==
    LET r == [disk[o] EXCEPT !.status = "interrupted", !.rev = @ + 1, !.fin = clock + 1,
                             !.delivery = "PENDING"]
    IN /\ ctl = "loading" /\ o \in todo
       /\ Saved(o, r)
       /\ todo' = todo \ {o} /\ clock' = clock + 1
       /\ outcome' = [outcome EXCEPT ![o] = "interrupted"]
       /\ UNCHANGED <<ctl, resultVars, cutoff, replayErr, lockVars, auditVars, ctx, pc, crashes>>

(* recoverJournal on one record: an unfinished one becomes interrupted,     *)
(* with its audit pending, and that is saved before the next is visited.    *)
RecoverInterrupted(o) ==
    LET r == [disk[o] EXCEPT !.status = "interrupted", !.rev = @ + 1, !.fin = clock + 1,
                             !.delivery = "PENDING"]
    IN /\ ctl = "loading" /\ o \in todo
       /\ disk[o].status \in ActiveStatuses
       /\ \/ /\ Saved(o, r)
             /\ todo' = todo \ {o} /\ clock' = clock + 1
             /\ outcome' = [outcome EXCEPT ![o] = "interrupted"]
             /\ UNCHANGED ctl
          \/ /\ SaveFailed(o, r) /\ ctl' = "failed"
             /\ UNCHANGED <<todo, clock, outcome>>
       /\ UNCHANGED <<resultVars, cutoff, replayErr, lockVars, auditVars, ctx, pc, crashes>>

RecoverTerminal(o) ==
    /\ ctl = "loading" /\ o \in todo
    /\ Terminal(disk[o].status)
    /\ mem' = [mem EXCEPT ![o] = disk[o]]
    /\ outcome' = [outcome EXCEPT ![o] = disk[o].status]
    /\ todo' = todo \ {o}
    /\ UNCHANGED <<disk, unlinked, faults, resultVars, clock, cutoff, ctl, replayErr,
                   lockVars, auditVars, ctx, pc, crashes>>

(* ReplayTerminalAudits snapshots the terminal operations to visit.         *)
ReplaySet(m) == {o \in Ops : Terminal(m[o].status)}

(* The end of recoverJournal: results in finish order, then retention; New  *)
(* goes on with the audit replay.                                           *)
Recovered ==
    /\ ctl = "loading" /\ todo = {}
    /\ \E order \in Enumerations({o \in Ops : Present(o)}) :
         /\ \A i, j \in DOMAIN order : i < j => mem[order[i]].fin <= mem[order[j]].fin
         /\ \E st \in cleanupLocked(order) : Publish(st) /\ todo' = ReplaySet(st.mem)
    /\ ctl' = "replaying" /\ replayErr' = FALSE
    /\ UNCHANGED pc /\ OnlyControl

(* One delivery at a time, on the control thread.                           *)
ReplayOne(o) ==
    /\ Replaying /\ NoRunner
    /\ o \in todo
    /\ todo' = todo \ {o}
    /\ Goto(o, IF mem[o].delivery = "PENDING" THEN "deliver" ELSE "confirm")
    /\ UNCHANGED <<storeVars, resultVars, ctl, replayErr>> /\ OnlyControl

(* New returns the engine, or fails when any delivery failed.               *)
StartupDone ==
    /\ ctl = "replaying" /\ todo = {} /\ NoRunner
    /\ ctl' = IF replayErr THEN "failed" ELSE "up"
    /\ replayErr' = FALSE
    /\ UNCHANGED <<storeVars, resultVars, todo, pc>> /\ OnlyControl

(* Shutdown: close admission and snapshot the unfinished operations; a      *)
(* shutdown that timed out may be tried again.                              *)
Shutdown ==
    /\ ctl \in {"up", "timedOut"}
    /\ ctl' = "cancelling"
    /\ todo' = {o \in Ops : Active(o)}
    /\ UNCHANGED <<storeVars, resultVars, replayErr, pc>> /\ OnlyControl

ShutdownCancel(o) ==
    /\ ctl = "cancelling" /\ o \in todo
    /\ todo' = todo \ {o}
    /\ IF CancelAccepted(o) /\ ~mem[o].cancel
       THEN CancelWithError(o)
       ELSE UNCHANGED <<storeVars, ctx>>
    /\ UNCHANGED <<resultVars, finishVars, lockVars, auditVars, ctl, replayErr, pc, crashes>>

ShutdownWait ==
    /\ ctl = "cancelling" /\ todo = {}
    /\ ctl' = "waiting"
    /\ UNCHANGED <<storeVars, resultVars, todo, replayErr, pc>> /\ OnlyControl

(* waitForTerminalRunners succeeds and the outbox is drained.               *)
Drain ==
    /\ ctl = "waiting" /\ NoRunner
    /\ \A o \in Ops : ~Active(o)
    /\ ctl' = "draining"
    /\ todo' = ReplaySet(mem)
    /\ UNCHANGED <<storeVars, resultVars, replayErr, pc>> /\ OnlyControl

(* Mutant of DrainPassDone: the error of a pass is never cleared.           *)
DrainForever ==
    /\ ctl = "draining" /\ todo = {} /\ NoRunner
    /\ IF replayErr THEN todo' = ReplaySet(mem) /\ UNCHANGED ctl
                    ELSE ctl' = "closed" /\ UNCHANGED todo
    /\ UNCHANGED <<storeVars, resultVars, replayErr, pc>> /\ OnlyControl

(* A pass without errors ends Shutdown; otherwise another pass follows.     *)
DrainPassDone ==
    /\ ctl = "draining" /\ todo = {} /\ NoRunner
    /\ IF replayErr THEN todo' = ReplaySet(mem) /\ UNCHANGED ctl
                    ELSE ctl' = "closed" /\ UNCHANGED todo
    /\ replayErr' = FALSE
    /\ UNCHANGED <<storeVars, resultVars, pc>> /\ OnlyControl

(* Shutdown's context expires: while it waits, or while audits are pending. *)
ShutdownExpires ==
    /\ \/ ctl = "waiting"
       \/ /\ ctl = "draining" /\ NoRunner
          /\ replayErr \/ \E o \in todo : mem[o].delivery = "PENDING"
    /\ ctl' = "timedOut"
    /\ todo' = {} /\ replayErr' = FALSE
    /\ UNCHANGED <<storeVars, resultVars, pc>> /\ OnlyControl

(* The process is gone; the next one starts from the journal.               *)
Gone(d) ==
    /\ mem' = [o \in Ops |-> Absent]
    /\ disk' = d
    /\ unlinked' = {}
    /\ results' = << >>
    /\ held' = [p \in Projects |-> NoOp]
    /\ lease' = [o \in Ops |-> FALSE]
    /\ ctx' = [o \in Ops |-> "unset"]
    /\ pc' = [o \in Ops |-> "none"]
    /\ ctl' = "down"
    /\ todo' = {} /\ replayErr' = FALSE
    /\ UNCHANGED <<faults, finishVars, auditVars, evicted>>

(* An orderly exit: after Shutdown, or when New failed.                     *)
Exit ==
    /\ ctl \in {"closed", "failed"}
    /\ Gone(Synced(disk))
    /\ UNCHANGED crashes

(* A crash may undo removals that were never synced.                        *)
Crash ==
    /\ ctl # "down" /\ crashes < MaxCrashes
    /\ crashes' = crashes + 1
    /\ \E lost \in SUBSET unlinked : Gone([o \in Ops |-> IF o \in lost THEN Absent ELSE disk[o]])

-----------------------------------------------------------------------------
Init ==
    /\ mem = [o \in Ops |-> Absent]
    /\ disk = [o \in Ops |-> Absent]
    /\ unlinked = {}
    /\ faults = [save |-> 0, audit |-> 0]
    /\ results = << >>
    /\ evicted = [o \in Ops |-> "no"]
    /\ clock = 0 /\ cutoff = 0
    /\ outcome = [o \in Ops |-> "none"]
    /\ held = [p \in Projects |-> NoOp]
    /\ lease = [o \in Ops |-> FALSE]
    /\ ctl = "down" /\ todo = {} /\ replayErr = FALSE
    /\ receipt = [o \in Ops |-> "none"]
    /\ audited = [o \in Ops |-> 0]
    /\ ctx = [o \in Ops |-> "unset"]
    /\ pc = [o \in Ops |-> "none"]
    /\ crashes = 0

Runner(o) ==
    \/ AttachExecutionCancel(o) \/ Acquire(o) \/ AcquireFails(o) \/ Refused(o) \/ attachLease(o)
    \/ Dispatch(o) \/ AdmitOperation(o) \/ Run(o) \/ Prepare(o) \/ EnterCommit(o) \/ WorkReturns(o)
    \/ FinishCanceledOrFailed(o) \/ Finalize(o)
    \/ Succeed(o) \/ Fail(o) \/ CancelTerminal(o) \/ Reject(o)
    \/ Release(o) \/ OnTerminal(o)
    \/ ReserveReceipt(o) \/ AppendRecord(o) \/ StampReceipt(o) \/ MarkDelivered(o) \/ ConfirmTerminal(o)

Startup ==
    \/ Load \/ Recovered \/ StartupDone
    \/ \E o \in Ops : RecoverInterrupted(o) \/ RecoverTerminal(o)

ShutdownWork ==
    \/ ShutdownWait \/ Drain \/ DrainPassDone
    \/ \E o \in Ops : ShutdownCancel(o)

Next ==
    \/ \E o \in Ops, spec \in Specs : StartOperation(o, spec)
    \/ \E o \in Ops : Runner(o) \/ Cancel(o) \/ AdvanceProgress(o) \/ AuditFault(o) \/ ReplayOne(o)
    \/ Get \/ Tick \/ ReclaimExpiredForDiskPressure
    \/ Startup \/ ShutdownWork \/ Shutdown \/ ShutdownExpires
    \/ Exit \/ Crash

Spec == Init /\ [][Next]_vars

(* Goroutines and the control thread keep running; the work of an operation *)
(* returns; a process that is down is restarted.  Callers, time, faults,    *)
(* crashes and the expiry of Shutdown's context are never forced.           *)
FairSpec ==
    /\ Spec
    /\ \A o \in Ops : WF_vars(Runner(o)) /\ WF_vars(ReplayOne(o))
    /\ WF_vars(Startup) /\ WF_vars(ShutdownWork) /\ WF_vars(Exit)

-----------------------------------------------------------------------------
(* Properties.                                                              *)

Locations == {"none", "accepted", "acquire", "refused", "leased", "dispatch", "admit", "run",
              "prepare", "work", "commit", "finish", "finalize", "succeed", "fail", "cancel",
              "reject", "release", "index", "deliver", "append", "stamp", "mark", "confirm"}
ControlLocations == {"down", "loading", "replaying", "up", "cancelling", "waiting", "draining",
                     "timedOut", "closed", "failed"}

(* validateRecord: the relations between the fields of a journal record.    *)
validateRecord(r) ==
    /\ r.status \in TerminalStatuses <=> r.fin > 0
    /\ r.status \notin TerminalStatuses => r.delivery = "NONE"
    /\ r.status # "absent" => r.rev > 0

(* Every variable keeps its type, and every record in memory or in the      *)
(* journal is one validateRecord accepts, so that no restart refuses it.    *)
TypeOK ==
    /\ \A o \in Ops : validateRecord(mem[o]) /\ validateRecord(disk[o])
    /\ mem \in [Ops -> Record] /\ disk \in [Ops -> Record]
    /\ unlinked \in SUBSET Ops
    /\ faults \in [save : Nat, audit : Nat]
    /\ results \in Seq(Ops)
    /\ evicted \in [Ops -> {"no", "retention", "pressure"}]
    /\ clock \in Nat /\ cutoff \in Nat
    /\ outcome \in [Ops -> TerminalStatuses \cup {"none"}]
    /\ held \in [Projects -> Ops \cup {NoOp}]
    /\ lease \in [Ops -> BOOLEAN]
    /\ ctl \in ControlLocations /\ todo \in SUBSET Ops /\ replayErr \in BOOLEAN
    /\ receipt \in [Ops -> {"none", "reserved", "stamped"}]
    /\ audited \in [Ops -> Nat]
    /\ ctx \in [Ops -> {"unset", "live", "done"}]
    /\ pc \in [Ops -> Locations]
    /\ crashes \in Nat

(* Two operations of one project never change it at the same time: the      *)
(* project lock (LockManager) covers the whole of Service.run's work,       *)
(* whatever is canceled, rejected, timed out, recovered or restarted.       *)
MutualExclusion ==
    \A o, q \in Ops :
        /\ o # q /\ {pc[o], pc[q]} \subseteq {"work", "commit"}
        /\ requiresProjectLock(mem[o].spec.type) /\ requiresProjectLock(mem[q].spec.type)
        => Project(o) # Project(q)

(* No project lock leaks: the holder of a lock is an unfinished operation   *)
(* of that project that owns the lease or is about to attach it, or a       *)
(* finished one whose runner is just releasing it; and an operation that    *)
(* owns a lease does hold its lock.                                         *)
NoLockLeak ==
    /\ \A p \in Projects : held[p] # NoOp =>
          /\ Project(held[p]) = p
          /\ \/ Active(held[p]) /\ (lease[held[p]] \/ pc[held[p]] = "leased")
             \/ Terminal(mem[held[p]].status) /\ pc[held[p]] = "release"
    /\ \A o \in Ops : lease[o] => held[Project(o)] = o

(* The commit point and an accepted cancel exclude each other for a         *)
(* BEFORE_COMMIT type, in memory and in the journal, crashes and failed     *)
(* saves included; one that ends canceled has not entered its commit.       *)
CommitExcludesCancel ==
    \A o \in Ops : \A r \in {mem[o], disk[o]} :
        cancelModeForType(r.spec.type) = "BEFORE_COMMIT" =>
            /\ r.commit => ~r.cancel
            /\ r.commit => r.status # "canceled"

(* An accepted cancel reaches the runner: no runner works on with a live    *)
(* context after CancelWithError answered ACCEPTED, not even when the cancel *)
(* came before attachExecutionCancel.                                       *)
CancelReachesRunner ==
    \A o \in Ops : mem[o].cancel => ctx[o] # "live"

(* What a caller was told is durable: each visible record is in the journal *)
(* as it is, or the journal is ahead of it by the one write that failed     *)
(* after its rename, or its deletion failed after its audit was delivered.  *)
JournalCoversMemory ==
    \A o \in Ops : Present(o) /\ disk[o] # mem[o] =>
        \/ disk[o].rev = mem[o].rev + 1 /\ Active(o)
        \/ disk[o] = [mem[o] EXCEPT !.delivery = "DELIVERED"]
        \/ disk[o] = Absent /\ mem[o].delivery = "DELIVERED"

(* The terminal status once shown for an operation is the only one ever     *)
(* shown, across failed saves, crashes, recovery and resurrection.          *)
TerminalIsFinal ==
    [][\A o \in Ops : outcome[o] # "none" => outcome'[o] = outcome[o]]_vars

(* Terminal audit is exactly once: never two records for one operation, and *)
(* one before the journal says DELIVERED and before the result is dropped   *)
(* by retention or disk pressure.  Until there is one the outcome stays in  *)
(* the journal.                                                             *)
AuditExactlyOnce ==
    \A o \in Ops :
        /\ audited[o] <= 1
        /\ disk[o].delivery = "DELIVERED" \/ evicted[o] # "no" => audited[o] = 1
        /\ outcome[o] # "none" /\ audited[o] = 0 =>
              disk[o].status = outcome[o] /\ disk[o].delivery = "PENDING"

(* The result index is exact: no id twice, only finished operations, and    *)
(* every finished one once its runner is past onTerminal.                   *)
ResultIndexExact ==
    /\ \A i, j \in DOMAIN results : results[i] = results[j] => i = j
    /\ \A i \in DOMAIN results : Terminal(mem[results[i]].status)
    /\ Serving => \A o \in Ops : Terminal(mem[o].status) /\ pc[o] \notin {"release", "index"} =>
                     \E i \in DOMAIN results : results[i] = o

(* Shutdown reports success only when every operation is finished, its      *)
(* audit delivered, no runner is left and every lock is free.               *)
ClosedIsDrained ==
    ctl = "closed" =>
        /\ NoRunner
        /\ \A o \in Ops : ~Active(o) /\ mem[o].delivery # "PENDING"
        /\ \A p \in Projects : held[p] = NoOp

(* The places where the engine keeps an operation agree, whatever is        *)
(* canceled, evicted, refused or restarted: the lock table with the leases, *)
(* an accepted cancel with the runner's context, the result index with the  *)
(* records, the journal with memory, and a Shutdown that says it is done    *)
(* with all of them.                                                        *)
Coherent ==
    NoLockLeak /\ CancelReachesRunner /\ ResultIndexExact /\ JournalCoversMemory /\ ClosedIsDrained

(* Every accepted operation comes to a terminal status, also through a      *)
(* crash and restart, when the journal accepts its writes.                  *)
EveryOperationFinishes ==
    \A o \in Ops : Present(o) ~> outcome[o] # "none"

(* Shutdown does not hang: it closes unless its context expires or the      *)
(* process dies.                                                            *)
ShutdownCompletes ==
    ctl = "cancelling" ~> ctl \in {"closed", "timedOut", "down"}

=============================================================================
