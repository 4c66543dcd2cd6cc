------------------------ MODULE OperationEngineAudit ------------------------
(***************************************************************************)
(* The terminal audit outbox of the operation engine and the coherence of  *)
(* its indexes, proved from the core invariant of OperationEngineProofs.   *)
(***************************************************************************)
EXTENDS OperationEngineSafety

(* Most leaves are first-order; the ones that need arithmetic or updates    *)
(* of functions and records cite SMT.                                       *)
USE Zenon

(* A record that a terminal status was written to has an audit, pending or  *)
(* delivered.                                                               *)
HasAudit(r) == r.status \in TerminalStatuses => r.delivery # "NONE"

(* The runner's place in the delivery, the receipt at the destination and   *)
(* the number of records appended agree; a receipt that is gone while the   *)
(* record is there means that nothing asks for the delivery again.          *)
DeliveryOK(o) ==
    /\ audited[o] \in {0, 1}
    /\ pc[o] = "append" => audited[o] = 0 /\ receipt[o] = "reserved"
    /\ pc[o] = "stamp" => audited[o] = 1 /\ receipt[o] = "reserved"
    /\ pc[o] = "mark" => audited[o] = 1 /\ receipt[o] = "stamped"
    /\ pc[o] = "confirm" => /\ audited[o] = 1
                            /\ mem[o].delivery # "PENDING" /\ disk[o].delivery # "PENDING"
    /\ receipt[o] = "stamped" => audited[o] = 1
    /\ receipt[o] = "none" /\ audited[o] = 1 =>
          mem[o].delivery # "PENDING" /\ disk[o].delivery # "PENDING"

(* What says that the audit was delivered, and what retention removes, has  *)
(* its record at the destination.                                           *)
DeliveredOK(o) ==
    /\ HasAudit(mem[o]) /\ HasAudit(disk[o])
    /\ mem[o].delivery = "DELIVERED" => audited[o] = 1 /\ disk[o].delivery # "PENDING"
    /\ disk[o].delivery = "DELIVERED" => audited[o] = 1
    /\ evicted[o] # "no" => audited[o] = 1
    /\ o \in unlinked => /\ audited[o] = 1 /\ mem[o].status \notin ActiveStatuses
                         /\ mem[o].delivery # "PENDING" /\ disk[o].delivery # "PENDING"

(* An outcome that was shown is the status of the record wherever there is  *)
(* one, and stays in the journal until it is audited; without an outcome    *)
(* nothing was delivered.                                                   *)
OutcomeOK(o) ==
    /\ outcome[o] # "none" =>
          /\ mem[o].status \in {"absent", outcome[o]}
          /\ disk[o].status \in {"absent", outcome[o]}
          /\ audited[o] = 0 => disk[o].status = outcome[o] /\ disk[o].delivery = "PENDING"
    /\ outcome[o] = "none" =>
          /\ audited[o] = 0 /\ receipt[o] = "none" /\ evicted[o] = "no"
          /\ mem[o].status \notin TerminalStatuses

(* What startup and replay still have to visit.                             *)
VisitOK(o) ==
    /\ ctl = "loading" /\ o \notin todo => mem[o].status # "absent" \/ disk[o].status = "absent"
    /\ ctl \in {"replaying", "draining"} /\ o \in todo => outcome[o] # "none"
    /\ ctl \notin {"down", "loading", "failed"} /\ outcome[o] # "none" /\ mem[o].status = "absent" =>
          audited[o] = 1 /\ disk[o].delivery # "PENDING"

RecordsOK(o) == DeliveryOK(o) /\ DeliveredOK(o) /\ OutcomeOK(o)

OutboxInv == \A o \in Ops : RecordsOK(o) /\ VisitOK(o)

-----------------------------------------------------------------------------
(* What a step may do to one operation.                                     *)

Elsewhere(q) == pc'[q] = pc[q] \/ pc'[q] \notin {"append", "stamp", "mark", "confirm"}

LedgerSame(q) ==
    receipt'[q] = receipt[q] /\ audited'[q] = audited[q] /\ outcome'[q] = outcome[q]

(* Nothing, but that a directory sync makes an earlier removal durable.     *)
Spared(q) ==
    /\ mem'[q] = mem[q] /\ evicted'[q] = evicted[q] /\ LedgerSame(q) /\ Elsewhere(q)
    /\ disk'[q] = disk[q] \/ (disk'[q] = Absent /\ q \in unlinked)
    /\ q \in unlinked' => q \in unlinked

(* Retention: the result is dropped only when its audit is delivered.       *)
Dropped(q) ==
    /\ LedgerSame(q) /\ Elsewhere(q)
    /\ mem'[q] # mem[q] \/ evicted'[q] # evicted[q] =>
          mem'[q] = Absent /\ mem[q].delivery # "PENDING" /\ mem[q].status \in TerminalStatuses
    /\ disk'[q] \in {disk[q], Absent}
    /\ disk'[q] # disk[q] \/ q \in unlinked' =>
          q \in unlinked \/ (mem[q].delivery # "PENDING" /\ mem[q].status \in TerminalStatuses)

(* The record of an operation that has shown no outcome is written, and may *)
(* be finished in the journal only.                                         *)
Worked(q, u) ==
    /\ LedgerSame(q) /\ Elsewhere(q) /\ evicted'[q] = evicted[q]
    /\ mem'[q].status \notin TerminalStatuses /\ mem'[q].delivery = "NONE"
    /\ disk'[q] \in {disk[q], u, Absent}
    /\ HasAudit(u) /\ u.delivery # "DELIVERED"
    /\ q \in unlinked' => q \in unlinked

(* The record that stands for no entry asks for no audit.                   *)
LEMMA AbsentAudit == HasAudit(Absent) /\ Absent.delivery = "NONE" /\ Absent.status = "absent"
                     /\ "absent" \notin TerminalStatuses /\ "absent" \notin ActiveStatuses
  BY AbsentRecord DEF HasAudit, TerminalStatuses, ActiveStatuses

(* An unfinished operation has shown no outcome; one whose audit is not     *)
(* pending though it is finished has it delivered.                          *)
LEMMA OutcomeFacts ==
  ASSUME Core, NEW q \in Ops, RecordsOK(q)
  PROVE  /\ mem[q].status \in ActiveStatuses => outcome[q] = "none"
         /\ disk[q].status \in ActiveStatuses => outcome[q] = "none"
         /\ mem[q].status \in TerminalStatuses =>
               outcome[q] = mem[q].status /\ (mem[q].delivery # "PENDING" => mem[q].delivery = "DELIVERED")
         /\ mem[q].delivery = "PENDING" => mem[q].status \in TerminalStatuses
         /\ outcome[q] \in TerminalStatuses \cup {"none"}
  <1>1. /\ outcome[q] \in TerminalStatuses \cup {"none"} /\ mem[q] \in Record /\ validateRecord(mem[q])
    BY DEF Core, TypeOK
  <1>2. mem[q].delivery \in {"NONE", "PENDING", "DELIVERED"}
    BY <1>1 DEF Record
  <1>3. \A s \in ActiveStatuses : s \notin TerminalStatuses /\ s # "absent"
    BY DEF ActiveStatuses, TerminalStatuses
  <1>4. "absent" \notin TerminalStatuses
    BY DEF TerminalStatuses
  <1>5. mem[q].delivery = "PENDING" => mem[q].status \in TerminalStatuses
    BY <1>1 DEF validateRecord
  <1>6. mem[q].status \in ActiveStatuses => outcome[q] = "none"
    BY <1>1, <1>3 DEF RecordsOK, OutcomeOK
  <1>7. disk[q].status \in ActiveStatuses => outcome[q] = "none"
    BY <1>1, <1>3 DEF RecordsOK, OutcomeOK
  <1>8. mem[q].status \in TerminalStatuses => outcome[q] = mem[q].status
    BY <1>1, <1>4 DEF RecordsOK, OutcomeOK
  <1>9. mem[q].status \in TerminalStatuses /\ mem[q].delivery # "PENDING" => mem[q].delivery = "DELIVERED"
    BY <1>2 DEF RecordsOK, DeliveredOK, HasAudit
  <1> QED BY <1>1, <1>5, <1>6, <1>7, <1>8, <1>9

(* An operation that is spared stays as it must be.                         *)
LEMMA SparedKeeps ==
  ASSUME Core, NEW q \in Ops, RecordsOK(q), Spared(q)
  PROVE  RecordsOK(q)'
  <1>1. DeliveryOK(q)'
    BY AbsentAudit DEF RecordsOK, DeliveryOK, Spared, LedgerSame, Elsewhere
  <1>2. DeliveredOK(q)'
    BY AbsentAudit DEF RecordsOK, DeliveredOK, Spared, LedgerSame
  <1>3. OutcomeOK(q)'
    BY AbsentAudit DEF RecordsOK, DeliveredOK, OutcomeOK, Spared, LedgerSame
  <1> QED BY <1>1, <1>2, <1>3 DEF RecordsOK

(* So does one whose result retention may drop.                             *)
LEMMA DroppedKeeps ==
  ASSUME Core, NEW q \in Ops, RecordsOK(q), Dropped(q)
  PROVE  RecordsOK(q)'
  <1>1. mem[q].delivery # "PENDING" /\ mem[q].status \in TerminalStatuses =>
            audited[q] = 1 /\ disk[q].delivery # "PENDING" /\ outcome[q] # "none"
    BY OutcomeFacts DEF RecordsOK, DeliveredOK, OutcomeOK
  <1>2. /\ mem'[q] \in {mem[q], Absent}
        /\ mem'[q] # mem[q] \/ evicted'[q] # evicted[q] \/ disk'[q] # disk[q] \/ q \in unlinked' =>
              audited[q] = 1 /\ disk[q].delivery # "PENDING" /\ outcome[q] # "none"
              /\ mem[q].status \notin ActiveStatuses /\ mem[q].delivery # "PENDING"
    BY <1>1, SMT DEF Dropped, RecordsOK, DeliveredOK, OutcomeOK, ActiveStatuses, TerminalStatuses
  <1>3. DeliveryOK(q)'
    BY <1>2, AbsentAudit DEF RecordsOK, DeliveryOK, Dropped, LedgerSame, Elsewhere
  <1>4. DeliveredOK(q)'
    BY <1>2, AbsentAudit DEF RecordsOK, DeliveredOK, Dropped, LedgerSame
  <1>5. OutcomeOK(q)'
    BY <1>2, AbsentAudit DEF RecordsOK, OutcomeOK, Dropped, LedgerSame
  <1> QED BY <1>3, <1>4, <1>5 DEF RecordsOK

(* And one that is worked on.                                               *)
LEMMA WorkedKeeps ==
  ASSUME Core, NEW q \in Ops, RecordsOK(q), outcome[q] = "none", NEW u, Worked(q, u)
  PROVE  RecordsOK(q)'
  <1>1. /\ audited[q] = 0 /\ receipt[q] = "none" /\ evicted[q] = "no" /\ q \notin unlinked
        /\ pc[q] \notin {"append", "stamp", "mark", "confirm"}
    BY SMT DEF RecordsOK, OutcomeOK, DeliveredOK, DeliveryOK
  <1>2. DeliveryOK(q)'
    BY <1>1, SMT DEF DeliveryOK, Worked, LedgerSame, Elsewhere
  <1>3. DeliveredOK(q)'
    BY <1>1, AbsentAudit DEF RecordsOK, DeliveredOK, Worked, LedgerSame, HasAudit
  <1>4. OutcomeOK(q)'
    BY <1>1 DEF OutcomeOK, Worked, LedgerSame
  <1> QED BY <1>2, <1>3, <1>4 DEF RecordsOK


(* A step that neither starts nor ends a control phase.                     *)
LEMMA VisitKeeps ==
  ASSUME Core, NEW q \in Ops, RecordsOK(q), VisitOK(q),
         ctl' = ctl, ctl \notin {"down", "loading"}, todo' \subseteq todo,
         outcome[q] # "none" => outcome'[q] # "none",
         \/ Spared(q) \/ Dropped(q) \/ outcome'[q] = "none" \/ mem'[q].status # "absent"
         \/ UNCHANGED <<mem, disk, audited, outcome>>
  PROVE  VisitOK(q)'
  <1>1. mem'[q].status = "absent" /\ outcome'[q] # "none" /\ ctl # "failed" =>
            audited'[q] = 1 /\ disk'[q].delivery # "PENDING"
    <2>1. CASE Spared(q)
      BY <2>1, AbsentAudit DEF VisitOK, Spared, LedgerSame
    <2>2. CASE Dropped(q)
      <3>1. /\ mem'[q] \in {mem[q], Absent} /\ audited'[q] = audited[q] /\ disk'[q] \in {disk[q], Absent}
            /\ outcome'[q] = outcome[q]
        BY <2>2 DEF Dropped, LedgerSame
      <3>2. mem'[q] # mem[q] => audited[q] = 1 /\ disk[q].delivery # "PENDING"
        BY <2>2, OutcomeFacts DEF Dropped, RecordsOK, DeliveredOK
      <3> QED BY <3>1, <3>2, AbsentAudit DEF VisitOK
    <2>3. CASE UNCHANGED <<mem, disk, audited, outcome>>
      BY <2>3 DEF VisitOK
    <2> QED BY <2>1, <2>2, <2>3
  <1> QED BY <1>1 DEF VisitOK

(* Journal.Save of one record, whatever its outcome.                        *)
StoreStep(o, u) ==
    /\ \A q \in Ops \ {o} : /\ mem'[q] = mem[q]
                            /\ disk'[q] = disk[q] \/ (disk'[q] = Absent /\ q \in unlinked)
    /\ unlinked' \subseteq unlinked
    /\ \/ mem'[o] = u /\ disk'[o] = u
       \/ mem'[o] = mem[o] /\ disk'[o] \in {disk[o], u}

(* Each of its outcomes is a StoreStep.                                     *)
LEMMA SaveSteps ==
  ASSUME Core, NEW o \in Ops, NEW u, Saved(o, u) \/ SaveFailed(o, u) \/ UNCHANGED storeVars
  PROVE  StoreStep(o, u)
  <1>1. mem \in [Ops -> Record] /\ disk \in [Ops -> Record]
    BY DEF Core, TypeOK
  <1>2. CASE Saved(o, u)
    BY <1>1, <1>2 DEF Saved, Synced, StoreStep
  <1>3. CASE SaveFailed(o, u)
    BY <1>1, <1>3 DEF SaveFailed, StoreStep
  <1>4. CASE UNCHANGED storeVars
    BY <1>4 DEF storeVars, StoreStep
  <1> QED BY <1>2, <1>3, <1>4

(* A runner that moves without delivering.                                  *)
LEMMA OutboxQuiet ==
  ASSUME Core, OutboxInv, NEW o \in Ops,
         \/ AttachExecutionCancel(o) \/ Acquire(o) \/ AcquireFails(o) \/ Refused(o) \/ attachLease(o)
         \/ AdmitOperation(o) \/ WorkReturns(o) \/ FinishCanceledOrFailed(o) \/ Release(o)
         \/ AuditFault(o)
  PROVE  OutboxInv'
  <1> USE DEF RunnerStep, OnlyRunner, storeVars, resultVars, finishVars, ctlVars, auditVars
  <1>0. pc \in [Ops -> Locations]
    BY DEF Core, TypeOK
  <1>1. /\ pc[o] # "none" /\ UNCHANGED <<mem, disk, unlinked, evicted, outcome, receipt, audited, ctl, todo>>
        /\ pc'[o] \notin {"append", "stamp", "mark", "confirm"} /\ \A q \in Ops \ {o} : pc'[q] = pc[q]
    <2>1. CASE AuditFault(o)
      BY <1>0, <2>1 DEF AuditFault, Goto
    <2>2. CASE ~AuditFault(o)
      BY <1>0, <2>2, SMTT(30) DEF AttachExecutionCancel, Acquire, AcquireFails, Refused, attachLease, AdmitOperation,
                        WorkReturns, FinishCanceledOrFailed, Release, Goto
    <2> QED BY <2>1, <2>2
  <1>2. ctl \notin {"down", "loading"}
    BY <1>1, NotLoading
  <1>3. \A q \in Ops : Spared(q)
    BY <1>1 DEF Spared, LedgerSame, Elsewhere
  <1>4. ASSUME NEW q \in Ops
        PROVE  RecordsOK(q)' /\ VisitOK(q)'
    <2>1. RecordsOK(q) /\ VisitOK(q) /\ Spared(q)
      BY <1>3 DEF OutboxInv
    <2>2. VisitOK(q)'
      BY <1>1, <1>2, <2>1, VisitKeeps
    <2> QED BY <2>1, <2>2, SparedKeeps
  <1> QED BY <1>4 DEF OutboxInv

(* A step that spares all operations but one.                               *)
LEMMA OutboxOthers ==
  ASSUME Core, OutboxInv, NEW o \in Ops, \A q \in Ops \ {o} : Spared(q) \/ Dropped(q),
         ctl' = ctl, ctl \notin {"down", "loading"}, todo' \subseteq todo,
         RecordsOK(o)', outcome[o] # "none" => outcome'[o] # "none",
         \/ Dropped(o) \/ outcome'[o] = "none" \/ mem'[o].status # "absent"
         \/ UNCHANGED <<mem, disk, audited, outcome>>
  PROVE  OutboxInv'
  <1>1. ASSUME NEW q \in Ops, q # o
        PROVE  RecordsOK(q)' /\ VisitOK(q)'
    <2>1. RecordsOK(q) /\ VisitOK(q) /\ (Spared(q) \/ Dropped(q))
      BY <1>1 DEF OutboxInv
    <2>2. outcome'[q] = outcome[q]
      BY <2>1 DEF Spared, Dropped, LedgerSame
    <2>3. VisitOK(q)'
      BY <2>1, <2>2, VisitKeeps
    <2> QED BY <2>1, <2>3, SparedKeeps, DroppedKeeps
  <1>2. VisitOK(o)'
    BY VisitKeeps DEF OutboxInv
  <1> QED BY <1>1, <1>2 DEF OutboxInv


(* Progress that is journaled.                                              *)
LEMMA OutboxUpdates ==
  ASSUME Core, OutboxInv, NEW o \in Ops,
         Dispatch(o) \/ Run(o) \/ Prepare(o) \/ EnterCommit(o) \/ AdvanceProgress(o) \/ Finalize(o)
  PROVE  OutboxInv'
  <1> USE DEF storeVars, resultVars, finishVars, ctlVars, auditVars
  <1>1. PICK u : KeptBy(mem[o], u) /\ UpdateStep(o, u)
    BY RunnerUpdates
  <1>2. pc[o] \in Unfinished /\ pc[o] # "none"
    BY DEF Dispatch, Run, Prepare, EnterCommit, AdvanceProgress, Finalize, Unfinished
  <1>3. ctl \notin {"down", "loading"} /\ mem[o].status \in ActiveStatuses /\ validateRecord(mem[o])
    BY <1>2, NotLoading DEF Core, RunnersMatchRecords, TypeOK
  <1>4. StoreStep(o, u) /\ UNCHANGED <<evicted, outcome, receipt, audited, ctl, todo>>
    BY <1>1, SaveSteps DEF UpdateStep
  <1>5. /\ pc'[o] \notin {"append", "stamp", "mark", "confirm"}
        /\ \A q \in Ops \ {o} : pc'[q] = pc[q]
    BY <1>1 DEF UpdateStep, Goto, Locked, Core, TypeOK
  <1>6. \A q \in Ops \ {o} : Spared(q)
    BY <1>4, <1>5 DEF Spared, StoreStep, LedgerSame, Elsewhere
  <1>7. RecordsOK(o) /\ outcome[o] = "none"
    BY <1>3, OutcomeFacts DEF OutboxInv
  <1>8. /\ u.delivery = "NONE" /\ u.status \notin TerminalStatuses
        /\ mem[o].delivery = "NONE" /\ mem[o].status \notin TerminalStatuses
    BY <1>1, <1>3 DEF KeptBy, ActiveStatuses, TerminalStatuses, validateRecord
  <1>9. Worked(o, u)
    BY <1>4, <1>5, <1>8 DEF Worked, StoreStep, LedgerSame, Elsewhere, HasAudit
  <1>10. RecordsOK(o)'
    BY <1>7, <1>9, WorkedKeeps
  <1> QED BY <1>3, <1>4, <1>6, <1>7, <1>10, OutboxOthers

(* A cancel, of a caller or of Shutdown.                                    *)
LEMMA OutboxCancels ==
  ASSUME Core, OutboxInv, NEW o \in Ops, Cancel(o) \/ ShutdownCancel(o)
  PROVE  OutboxInv'
  <1> USE DEF storeVars, resultVars, finishVars, ctlVars, auditVars
  <1>1. PICK u : u = [mem[o] EXCEPT !.cancel = TRUE, !.rev = @ + 1]
    OBVIOUS
  <1>2. /\ UNCHANGED <<evicted, outcome, receipt, audited, ctl, pc>> /\ todo' \subseteq todo
        /\ ctl \notin {"down", "loading"}
    BY DEF Cancel, ShutdownCancel, Serving, shuttingDown
  <1>3. CASE UNCHANGED storeVars
    <2>1. \A q \in Ops : Spared(q)
      BY <1>2, <1>3 DEF Spared, LedgerSame, Elsewhere
    <2>2. RecordsOK(o)'
      BY <2>1, SparedKeeps DEF OutboxInv
    <2> QED BY <1>2, <1>3, <2>1, <2>2, OutboxOthers
  <1>4. CASE CancelAccepted(o) /\ (Saved(o, u) \/ SaveFailed(o, u))
    <2>1. StoreStep(o, u)
      BY <1>4, SaveSteps
    <2>2. /\ u.delivery = "NONE" /\ u.status \in ActiveStatuses
          /\ mem[o].delivery = "NONE" /\ mem[o].status \in ActiveStatuses
      BY <1>1, <1>4, CanceledRecord
    <2>3. \A q \in Ops \ {o} : Spared(q)
      BY <1>2, <2>1 DEF Spared, StoreStep, LedgerSame, Elsewhere
    <2>4. RecordsOK(o) /\ outcome[o] = "none"
      BY <2>2, OutcomeFacts DEF OutboxInv
    <2>5. u.status \notin TerminalStatuses /\ mem[o].status \notin TerminalStatuses
      BY <2>2 DEF ActiveStatuses, TerminalStatuses
    <2>6. Worked(o, u)
      BY <1>2, <2>1, <2>2, <2>5 DEF Worked, StoreStep, LedgerSame, Elsewhere, HasAudit
    <2>7. RecordsOK(o)'
      BY <2>4, <2>6, WorkedKeeps
    <2> QED BY <1>2, <2>3, <2>4, <2>7, OutboxOthers
  <1> QED BY <1>1, <1>3, <1>4 DEF Cancel, ShutdownCancel, CancelWithError

(* The end of an operation: the outcome is shown when it is durable with    *)
(* its audit pending.                                                       *)
LEMMA OutboxFinishes ==
  ASSUME Core, OutboxInv, NEW o \in Ops, Succeed(o) \/ Fail(o) \/ CancelTerminal(o) \/ Reject(o)
  PROVE  OutboxInv'
  <1> USE DEF storeVars, resultVars, ctlVars, auditVars
  <1>1. PICK next \in TerminalStatuses :
            FinishStep(o, next) /\ (next = "canceled" => mem[o].cancel \/ UNCHANGED storeVars)
    BY RunnerFinishes
  <1>2. pc[o] \in Unfinished /\ pc[o] # "none"
    BY RunnerFinishes DEF Unfinished
  <1>3. ctl \notin {"down", "loading"} /\ mem[o].status \in ActiveStatuses /\ validateRecord(mem[o])
    BY <1>2, NotLoading DEF Core, RunnersMatchRecords, TypeOK
  <1>4. PICK u : u = Finished(o, next)
    OBVIOUS
  <1>5. u.status = next /\ u.delivery = "PENDING"
    BY <1>2, <1>4, FinishedRecord, SMT
  <1>6. StoreStep(o, u) /\ UNCHANGED <<evicted, receipt, audited, ctl, todo>>
    BY <1>1, <1>4, SaveSteps DEF FinishStep
  <1>7. /\ pc'[o] \notin {"append", "stamp", "mark", "confirm"}
        /\ \A q \in Ops \ {o} : pc'[q] = pc[q] /\ outcome'[q] = outcome[q]
    <2>1. pc \in [Ops -> Locations] /\ outcome = [q \in Ops |-> outcome[q]]
      BY DEF Core, TypeOK
    <2> QED BY <1>1, <2>1, SMT DEF FinishStep, Goto
  <1>8. \A q \in Ops \ {o} : Spared(q)
    BY <1>6, <1>7 DEF Spared, StoreStep, LedgerSame, Elsewhere
  <1>9. RecordsOK(o) /\ outcome[o] = "none"
    BY <1>3, OutcomeFacts DEF OutboxInv
  <1>10. CASE Saved(o, u) /\ outcome' = [outcome EXCEPT ![o] = next]
    <2>1. mem'[o] = u /\ disk'[o] = u /\ unlinked' = {} /\ outcome'[o] = next
      <3>1. mem \in [Ops -> Record] /\ outcome = [q \in Ops |-> outcome[q]]
        BY DEF Core, TypeOK
      <3> QED BY <1>10, <3>1 DEF Saved, Synced
    <2>2. audited[o] = 0 /\ receipt[o] = "none" /\ evicted[o] = "no"
      BY <1>9 DEF RecordsOK, OutcomeOK
    <2>3. next # "none" /\ next # "absent"
      BY DEF TerminalStatuses
    <2>4. DeliveryOK(o)'
      BY <1>5, <1>6, <1>7, <2>1, <2>2, SMT DEF DeliveryOK
    <2>5. DeliveredOK(o)' /\ OutcomeOK(o)'
      BY <1>5, <1>6, <2>1, <2>2, <2>3 DEF DeliveredOK, OutcomeOK, HasAudit
    <2>6. RecordsOK(o)'
      BY <2>4, <2>5 DEF RecordsOK
    <2> QED BY <1>3, <1>5, <1>6, <1>8, <2>1, <2>3, <2>6, OutboxOthers
  <1>11. CASE UNCHANGED outcome /\ (SaveFailed(o, u) \/ UNCHANGED storeVars)
    <2>1. mem[o].delivery = "NONE" /\ mem[o].status \notin TerminalStatuses /\ mem' = mem
      BY <1>3, <1>11 DEF validateRecord, ActiveStatuses, TerminalStatuses, SaveFailed
    <2>2. Worked(o, u)
      BY <1>5, <1>6, <1>7, <1>11, <2>1 DEF Worked, StoreStep, LedgerSame, Elsewhere, HasAudit
    <2>3. RecordsOK(o)'
      BY <1>9, <2>2, WorkedKeeps
    <2> QED BY <1>3, <1>6, <1>8, <1>9, <1>11, <2>3, OutboxOthers
  <1> QED BY <1>1, <1>4, <1>10, <1>11 DEF FinishStep


(* Retention drops only what is delivered.                                  *)
LEMMA DropsDropped ==
  ASSUME Drops, UNCHANGED <<receipt, audited, outcome>>, NEW q \in Ops, Elsewhere(q)
  PROVE  Dropped(q)
  BY DEF Drops, Dropped, LedgerSame

(* So the outbox stays as it must be under Get, disk pressure and onTerminal.  *)
LEMMA OutboxRetention ==
  ASSUME Core, OutboxInv, Get \/ ReclaimExpiredForDiskPressure \/ \E o \in Ops : OnTerminal(o)
  PROVE  OutboxInv'
  <1> USE DEF finishVars, auditVars, ctlVars
  <1>1. Drops
    BY RetentionDrops
  <1>2. /\ UNCHANGED <<receipt, audited, outcome, ctl, todo>> /\ ctl \notin {"down", "loading"}
        /\ \A q \in Ops : Elsewhere(q)
    <2>1. CASE Get \/ ReclaimExpiredForDiskPressure
      BY <2>1 DEF Get, ReclaimExpiredForDiskPressure, Serving, shuttingDown, Elsewhere
    <2>2. CASE \E o \in Ops : OnTerminal(o)
      <3>1. PICK o \in Ops : OnTerminal(o)
        BY <2>2
      <3>2. pc[o] # "none" /\ pc \in [Ops -> Locations]
        BY <3>1 DEF OnTerminal, RunnerStep, Core, TypeOK
      <3>3. \A q \in Ops : pc'[q] = pc[q] \/ pc'[q] = "deliver"
        BY <3>1, <3>2 DEF OnTerminal, RunnerStep, Goto
      <3> QED BY <3>1, <3>2, <3>3, NotLoading DEF OnTerminal, Elsewhere
    <2> QED BY <2>1, <2>2
  <1>3. ASSUME NEW q \in Ops
        PROVE  RecordsOK(q)' /\ VisitOK(q)'
    <2>1. Dropped(q) /\ RecordsOK(q) /\ VisitOK(q)
      BY <1>1, <1>2, DropsDropped DEF OutboxInv
    <2>2. VisitOK(q)'
      BY <1>2, <2>1, VisitKeeps
    <2> QED BY <2>1, <2>2, DroppedKeeps
  <1> QED BY <1>3 DEF OutboxInv

(* An operation is accepted that has shown no outcome.                      *)
LEMMA OutboxStart ==
  ASSUME Core, OutboxInv, NEW o \in Ops, NEW spec \in Specs, StartOperation(o, spec)
  PROVE  OutboxInv'
  <1> USE DEF finishVars, auditVars, ctlVars
  <1>1. /\ UNCHANGED <<receipt, audited, outcome, ctl, todo>> /\ ctl = "up"
        /\ mem[o].status = "absent" /\ outcome[o] = "none"
    BY DEF StartOperation, Present
  <1>2. PICK u : u = newOperation(spec)
    OBVIOUS
  <1>3. /\ evicted'[o] = evicted[o]
        /\ \/ pc'[o] = "accepted" /\ mem'[o] = u
           \/ pc'[o] = pc[o] /\ mem'[o] = mem[o]
        /\ disk'[o] \in {u, disk[o], Absent}
        /\ o \in unlinked' => o \in unlinked \/ (mem[o].delivery # "PENDING" /\ mem[o].status \in TerminalStatuses)
    BY <1>2, StartDrops
  <1>4. \A q \in Ops \ {o} :
               /\ pc'[q] = pc[q] /\ disk'[q] \in {disk[q], Absent}
               /\ mem'[q] # mem[q] \/ evicted'[q] # evicted[q] =>
                    mem'[q] = Absent /\ mem[q].delivery # "PENDING" /\ mem[q].status \in TerminalStatuses
               /\ disk'[q] # disk[q] \/ q \in unlinked' =>
                    q \in unlinked \/ (mem[q].delivery # "PENDING" /\ mem[q].status \in TerminalStatuses)
    BY StartDrops
  <1>5. \A q \in Ops \ {o} : Dropped(q)
    BY <1>1, <1>4 DEF Dropped, LedgerSame, Elsewhere
  <1>6. RecordsOK(o) /\ mem[o].delivery = "NONE" /\ mem[o].status \notin TerminalStatuses
    BY <1>1, AbsentAudit DEF OutboxInv, Core, TypeOK, validateRecord
  <1>7. u.status \notin TerminalStatuses /\ u.delivery = "NONE"
    BY <1>2, NewRecord DEF TerminalStatuses
  <1>8. Worked(o, u)
    BY <1>1, <1>3, <1>6, <1>7 DEF Worked, LedgerSame, Elsewhere, HasAudit
  <1>9. RecordsOK(o)'
    BY <1>1, <1>6, <1>8, WorkedKeeps
  <1> QED BY <1>1, <1>5, <1>9, OutboxOthers

(* The steps of a delivery.                                                 *)
LEMMA OutboxDeliver ==
  ASSUME Core, OutboxInv, NEW o \in Ops,
         ReserveReceipt(o) \/ AppendRecord(o) \/ StampReceipt(o) \/ ConfirmTerminal(o)
  PROVE  OutboxInv'
  <1> USE DEF RunnerStep, Goto, storeVars, resultVars, finishVars, ctlVars
  <1>1. /\ UNCHANGED <<mem, disk, unlinked, evicted, outcome, ctl, todo>> /\ pc[o] # "none"
        /\ pc[o] \in {"deliver", "append", "stamp", "confirm"}
    BY DEF ReserveReceipt, AppendRecord, StampReceipt, ConfirmTerminal
  <1>2. /\ pc \in [Ops -> Locations] /\ audited \in [Ops -> Nat]
        /\ receipt \in [Ops -> {"none", "reserved", "stamped"}]
        /\ ctl \notin {"down", "loading"}
    BY <1>1, NotLoading DEF Core, TypeOK
  <1>3. RecordsOK(o) /\ (pc[o] # "confirm" => mem[o].delivery = "PENDING")
    BY <1>1 DEF OutboxInv, Core, RunnersMatchRecords, Outbox
  <1>4. outcome[o] # "none"
    <2>1. CASE pc[o] = "confirm"
      BY <1>3, <2>1, SMT DEF RecordsOK, DeliveryOK, OutcomeOK
    <2>2. CASE mem[o].delivery = "PENDING"
      BY <1>3, <2>2, OutcomeFacts DEF TerminalStatuses
    <2> QED BY <1>3, <2>1, <2>2
  <1>5. \A q \in Ops \ {o} : pc'[q] = pc[q] /\ receipt'[q] = receipt[q] /\ audited'[q] = audited[q]
    BY <1>2 DEF ReserveReceipt, AppendRecord, StampReceipt, ConfirmTerminal
  <1>6. \A q \in Ops \ {o} : Spared(q)
    BY <1>1, <1>5 DEF Spared, LedgerSame, Elsewhere
  <1>7. DeliveryOK(o)' /\ audited'[o] >= audited[o]
    <2>1. DeliveryOK(o) /\ audited[o] \in Nat /\ receipt[o] \in {"none", "reserved", "stamped"}
      BY <1>2, <1>3 DEF RecordsOK
    <2>2. CASE ReserveReceipt(o)
      BY <1>1, <1>2, <1>3, <2>1, <2>2, SMT DEF ReserveReceipt, DeliveryOK
    <2>3. CASE AppendRecord(o)
      BY <1>1, <1>2, <1>3, <2>1, <2>3, SMT DEF AppendRecord, DeliveryOK
    <2>4. CASE StampReceipt(o)
      BY <1>1, <1>2, <1>3, <2>1, <2>4, SMT DEF StampReceipt, DeliveryOK
    <2>5. CASE ConfirmTerminal(o)
      BY <1>1, <1>2, <1>3, <2>1, <2>5, SMT DEF ConfirmTerminal, DeliveryOK
    <2> QED BY <2>2, <2>3, <2>4, <2>5
  <1>8. audited[o] \in {0, 1} /\ audited'[o] \in {0, 1} /\ (audited'[o] = 0 => audited[o] = 0)
        /\ (audited[o] = 1 => audited'[o] = 1)
    BY <1>3, <1>7, SMT DEF RecordsOK, DeliveryOK
  <1>9. DeliveredOK(o)' /\ OutcomeOK(o)'
    BY <1>1, <1>3, <1>4, <1>8 DEF RecordsOK, DeliveredOK, OutcomeOK
  <1>10. RecordsOK(o)'
    BY <1>7, <1>9 DEF RecordsOK
  <1>11. mem'[o].status # "absent" \/ UNCHANGED <<mem, disk, audited, outcome>>
    <2>1. CASE pc[o] = "confirm"
      BY <1>1, <2>1 DEF ReserveReceipt, AppendRecord, StampReceipt, ConfirmTerminal
    <2>2. CASE mem[o].delivery = "PENDING"
      BY <1>1, <1>3, <2>2, OutcomeFacts, AbsentAudit
    <2> QED BY <1>3, <2>1, <2>2
  <1> QED BY <1>1, <1>2, <1>4, <1>6, <1>10, <1>11, OutboxOthers


(* The journal says DELIVERED once the record is at the destination.        *)
LEMMA OutboxMark ==
  ASSUME Core, OutboxInv, NEW o \in Ops, MarkDelivered(o)
  PROVE  OutboxInv'
  <1> USE DEF Goto, storeVars, resultVars, finishVars, auditVars
  <1>1. PICK u : u = [mem[o] EXCEPT !.delivery = "DELIVERED"]
    OBVIOUS
  <1>2. /\ pc[o] = "mark" /\ UNCHANGED <<evicted, outcome, receipt, audited, ctl, todo>>
        /\ \/ Saved(o, u) /\ pc' = [pc EXCEPT ![o] = "confirm"]
           \/ SaveFailed(o, u) /\ pc' = [pc EXCEPT ![o] = "none"]
    BY <1>1 DEF MarkDelivered
  <1>3. /\ ctl \notin {"down", "loading"} /\ RecordsOK(o) /\ mem[o].delivery = "PENDING"
        /\ mem[o] \in Record /\ validateRecord(mem[o]) /\ pc \in [Ops -> Locations]
    BY <1>2, NotLoading DEF OutboxInv, Core, TypeOK, RunnersMatchRecords, Outbox
  <1>4. u.status = mem[o].status /\ u.delivery = "DELIVERED" /\ mem[o].status \in TerminalStatuses
    BY <1>1, <1>3 DEF Record, validateRecord
  <1>5. StoreStep(o, u)
    BY <1>2, SaveSteps
  <1>6. \A q \in Ops \ {o} : Spared(q)
    BY <1>2, <1>3, <1>5 DEF Spared, StoreStep, LedgerSame, Elsewhere
  <1>7. audited[o] = 1 /\ receipt[o] = "stamped" /\ outcome[o] = mem[o].status /\ o \notin unlinked
        /\ outcome[o] # "none" /\ outcome[o] # "absent"
    BY <1>2, <1>3, <1>4, OutcomeFacts DEF RecordsOK, DeliveryOK, DeliveredOK, TerminalStatuses
  <1>8. \/ mem'[o] = u /\ disk'[o] = u /\ pc'[o] = "confirm"
        \/ mem'[o] = mem[o] /\ disk'[o] \in {disk[o], u} /\ pc'[o] = "none"
    <2>1. mem \in [Ops -> Record] /\ disk \in [Ops -> Record]
      BY DEF Core, TypeOK
    <2> QED BY <1>2, <1>3, <2>1 DEF Saved, SaveFailed, Synced
  <1>9. DeliveryOK(o)'
    BY <1>2, <1>3, <1>4, <1>7, <1>8 DEF RecordsOK, DeliveryOK
  <1>10. DeliveredOK(o)'
    BY <1>2, <1>3, <1>4, <1>5, <1>7, <1>8 DEF RecordsOK, DeliveredOK, StoreStep, HasAudit
  <1>11. OutcomeOK(o)'
    BY <1>2, <1>3, <1>4, <1>7, <1>8, SMT DEF RecordsOK, OutcomeOK
  <1>12. RecordsOK(o)' /\ mem'[o].status # "absent"
    BY <1>4, <1>7, <1>8, <1>9, <1>10, <1>11 DEF RecordsOK
  <1> QED BY <1>2, <1>3, <1>6, <1>12, OutboxOthers

(* Replay delivers what is pending and confirms the rest.                   *)
LEMMA OutboxReplay ==
  ASSUME Core, OutboxInv, NEW o \in Ops, ReplayOne(o)
  PROVE  OutboxInv'
  <1> USE DEF Goto, storeVars, resultVars, finishVars, auditVars, OnlyControl
  <1>1. /\ UNCHANGED <<mem, disk, unlinked, evicted, outcome, receipt, audited, ctl>>
        /\ ctl \in {"replaying", "draining"} /\ o \in todo /\ todo' \subseteq todo
    BY DEF ReplayOne, Replaying
  <1>2. /\ \A q \in Ops \ {o} : pc'[q] = pc[q]
        /\ \/ pc'[o] = "deliver"
           \/ pc'[o] = "confirm" /\ mem[o].delivery # "PENDING"
    BY DEF ReplayOne, Core, TypeOK
  <1>3. RecordsOK(o) /\ VisitOK(o) /\ outcome[o] # "none"
    BY <1>1 DEF OutboxInv, VisitOK
  <1>4. mem[o].delivery # "PENDING" => audited[o] = 1 /\ disk[o].delivery # "PENDING"
    <2>1. CASE mem[o].status = "absent"
      BY <1>1, <1>3, <2>1 DEF VisitOK
    <2>2. CASE mem[o].status # "absent"
      <3>1. mem[o].status \in TerminalStatuses
        BY <1>3, <2>2, OutcomeFacts DEF RecordsOK, OutcomeOK
      <3> QED BY <1>3, <3>1, OutcomeFacts DEF RecordsOK, DeliveredOK
    <2> QED BY <2>1, <2>2
  <1>5. \A q \in Ops \ {o} : Spared(q)
    BY <1>1, <1>2 DEF Spared, LedgerSame, Elsewhere
  <1>6. DeliveryOK(o)'
    BY <1>1, <1>2, <1>3, <1>4 DEF RecordsOK, DeliveryOK
  <1>7. RecordsOK(o)'
    BY <1>1, <1>3, <1>6 DEF RecordsOK, DeliveredOK, OutcomeOK
  <1> QED BY <1>1, <1>3, <1>5, <1>7, OutboxOthers

(* Recovery of an unfinished record.                                        *)
LEMMA OutboxInterrupted ==
  ASSUME Core, OutboxInv, NEW o \in Ops, RecoverInterrupted(o)
  PROVE  OutboxInv'
  <1> USE DEF resultVars, auditVars
  <1>1. PICK u : u = [disk[o] EXCEPT !.status = "interrupted", !.rev = @ + 1, !.fin = clock + 1,
                                     !.delivery = "PENDING"]
    OBVIOUS
  <1>2. /\ ctl = "loading" /\ disk[o].status \in ActiveStatuses /\ UNCHANGED <<evicted, receipt, audited, pc>>
        /\ \/ /\ Saved(o, u) /\ todo' = todo \ {o}
              /\ outcome' = [outcome EXCEPT ![o] = "interrupted"] /\ ctl' = ctl
           \/ SaveFailed(o, u) /\ ctl' = "failed" /\ UNCHANGED outcome
    BY <1>1 DEF RecoverInterrupted
  <1>3. u.status = "interrupted" /\ u.delivery = "PENDING"
    BY <1>1, <1>2, InterruptedRecord
  <1>4. /\ RecordsOK(o) /\ outcome[o] = "none" /\ pc[o] = "none"
        /\ outcome = [q \in Ops |-> outcome[q]] /\ validateRecord(mem[o])
    BY <1>2, OutcomeFacts DEF OutboxInv, Core, LoadingIsQuiet, TypeOK
  <1>5. audited[o] = 0 /\ receipt[o] = "none" /\ evicted[o] = "no" /\ mem[o].status \notin TerminalStatuses
    BY <1>4 DEF RecordsOK, OutcomeOK
  <1>6. StoreStep(o, u)
    BY <1>2, SaveSteps
  <1>7. \A q \in Ops \ {o} : Spared(q)
    BY <1>2, <1>4, <1>6 DEF Spared, StoreStep, LedgerSame, Elsewhere
  <1>8. ASSUME NEW q \in Ops \ {o}
        PROVE  RecordsOK(q)' /\ VisitOK(q)'
    <2>1. RecordsOK(q) /\ VisitOK(q) /\ Spared(q)
      BY <1>7 DEF OutboxInv
    <2>2. VisitOK(q)'
      BY <1>2, <2>1, AbsentAudit DEF VisitOK, Spared, LedgerSame
    <2> QED BY <2>1, <2>2, SparedKeeps
  <1>9. CASE Saved(o, u)
    <2>1. mem \in [Ops -> Record] /\ ~(ctl' = "failed" /\ SaveFailed(o, u) /\ mem'[o] = mem[o])
      <3>1. mem \in [Ops -> Record]
        BY DEF Core, TypeOK
      <3>2. mem'[o] = u
        BY <1>9, <3>1 DEF Saved
      <3>3. u.status \in TerminalStatuses
        BY <1>3 DEF TerminalStatuses
      <3> QED BY <1>5, <3>1, <3>2, <3>3
    <2>2. mem'[o] = u /\ disk'[o] = u /\ unlinked' = {} /\ outcome'[o] = "interrupted" /\ ctl' = "loading"
      BY <1>2, <1>4, <1>9, <2>1 DEF Saved, SaveFailed, Synced
    <2>3. DeliveryOK(o)'
      BY <1>2, <1>4, <1>5, <2>2, SMT DEF DeliveryOK
    <2>4. DeliveredOK(o)' /\ OutcomeOK(o)' /\ VisitOK(o)'
      BY <1>2, <1>3, <1>5, <2>2 DEF DeliveredOK, OutcomeOK, VisitOK, HasAudit
    <2> QED BY <1>8, <2>3, <2>4 DEF OutboxInv, RecordsOK
  <1>10. CASE SaveFailed(o, u) /\ ctl' = "failed" /\ UNCHANGED outcome
    <2>1. Worked(o, u)
      BY <1>2, <1>3, <1>4, <1>5, <1>6, <1>10 DEF Worked, StoreStep, LedgerSame, Elsewhere, HasAudit,
                                                 SaveFailed, validateRecord
    <2>2. RecordsOK(o)' /\ VisitOK(o)'
      BY <1>4, <1>10, <2>1, WorkedKeeps DEF VisitOK
    <2> QED BY <1>8, <2>2 DEF OutboxInv
  <1> QED BY <1>2, <1>9, <1>10


(* Recovery of a finished record.                                           *)
LEMMA OutboxTerminal ==
  ASSUME Core, OutboxInv, NEW o \in Ops, RecoverTerminal(o)
  PROVE  OutboxInv'
  <1> USE DEF resultVars, auditVars
  <1>1. /\ ctl = "loading" /\ UNCHANGED <<disk, unlinked, evicted, receipt, audited, pc, ctl>>
        /\ todo' = todo \ {o} /\ disk[o].status \in TerminalStatuses
        /\ mem' = [mem EXCEPT ![o] = disk[o]]
        /\ outcome' = [outcome EXCEPT ![o] = disk[o].status]
    BY DEF RecoverTerminal, Terminal
  <1>2. /\ mem'[o] = disk[o] /\ outcome'[o] = disk[o].status
        /\ \A q \in Ops \ {o} : mem'[q] = mem[q] /\ outcome'[q] = outcome[q]
    BY <1>1 DEF Core, TypeOK
  <1>3. /\ RecordsOK(o) /\ pc[o] = "none"
        /\ disk[o].delivery \in {"NONE", "PENDING", "DELIVERED"}
    <2>1. disk[o] \in Record
      BY DEF Core, TypeOK
    <2> QED BY <1>1, <2>1 DEF OutboxInv, Core, LoadingIsQuiet, Record
  <1>4. /\ outcome[o] # "none" => outcome[o] = disk[o].status
        /\ disk[o].delivery \in {"PENDING", "DELIVERED"}
        /\ disk[o].status # "none" /\ disk[o].status # "absent" /\ disk[o].status \notin ActiveStatuses
    BY <1>1, <1>3 DEF RecordsOK, OutcomeOK, DeliveredOK, HasAudit, TerminalStatuses, ActiveStatuses
  <1>5. audited[o] = 0 => disk[o].delivery = "PENDING"
    BY <1>3, <1>4, SMT DEF RecordsOK, DeliveredOK
  <1>6. DeliveryOK(o)'
    BY <1>1, <1>2, <1>3 DEF RecordsOK, DeliveryOK
  <1>7. DeliveredOK(o)'
    BY <1>1, <1>2, <1>3, <1>4 DEF RecordsOK, DeliveredOK
  <1>8. OutcomeOK(o)' /\ VisitOK(o)'
    BY <1>1, <1>2, <1>4, <1>5 DEF OutcomeOK, VisitOK
  <1>9. ASSUME NEW q \in Ops \ {o}
        PROVE  RecordsOK(q)' /\ VisitOK(q)'
    <2>1. RecordsOK(q) /\ VisitOK(q) /\ Spared(q)
      BY <1>1, <1>2 DEF OutboxInv, Spared, LedgerSame, Elsewhere
    <2>2. VisitOK(q)'
      BY <1>1, <1>2 DEF OutboxInv, VisitOK
    <2> QED BY <2>1, <2>2, SparedKeeps
  <1> QED BY <1>6, <1>7, <1>8, <1>9 DEF OutboxInv, RecordsOK

(* The end of recovery: what is not in memory is not in the journal.        *)
LEMMA OutboxRecovered ==
  ASSUME Core, OutboxInv, Recovered
  PROVE  OutboxInv'
  <1> USE DEF finishVars, auditVars, OnlyControl
  <1>1. Drops
    BY RetentionDrops
  <1>2. /\ UNCHANGED <<receipt, audited, outcome, pc>> /\ ctl = "loading" /\ todo = {} /\ ctl' = "replaying"
        /\ todo' = ReplaySet(mem')
    BY DEF Recovered, Publish
  <1>3. ASSUME NEW q \in Ops
        PROVE  RecordsOK(q)' /\ VisitOK(q)'
    <2>1. RecordsOK(q) /\ VisitOK(q) /\ Elsewhere(q)
      BY <1>2 DEF OutboxInv, Elsewhere
    <2>2. Dropped(q)
      BY <1>1, <1>2, <2>1, DropsDropped
    <2>3. RecordsOK(q)'
      BY <2>1, <2>2, DroppedKeeps
    <2>4. q \in todo' => outcome'[q] # "none"
      BY <1>2, <2>3 DEF ReplaySet, Terminal, RecordsOK, OutcomeOK
    <2>5. outcome[q] # "none" /\ mem'[q].status = "absent" => audited[q] = 1 /\ disk'[q].delivery # "PENDING"
      <3>1. mem'[q] # mem[q] => audited[q] = 1 /\ disk[q].delivery # "PENDING"
        BY <2>1, <2>2, OutcomeFacts DEF Dropped, RecordsOK, DeliveredOK
      <3>2. mem[q].status = "absent" => disk[q].status = "absent"
        BY <1>2, <2>1 DEF VisitOK
      <3>3. outcome[q] # "none" /\ disk[q].status = "absent" => audited[q] = 1 /\ disk[q].delivery # "PENDING"
        <4>1. outcome[q] # "absent" /\ audited[q] \in {0, 1} /\ validateRecord(disk[q])
          BY <2>1, OutcomeFacts DEF TerminalStatuses, RecordsOK, DeliveryOK, Core, TypeOK
        <4> QED BY <2>1, <4>1 DEF RecordsOK, OutcomeOK, validateRecord, TerminalStatuses
      <3>4. disk'[q] \in {disk[q], Absent}
        BY <2>2 DEF Dropped
      <3> QED BY <3>1, <3>2, <3>3, <3>4, AbsentAudit
    <2> QED BY <1>2, <2>3, <2>4, <2>5 DEF VisitOK
  <1> QED BY <1>3 DEF OutboxInv

(* Steps of the control thread that touch no record.                        *)
LEMMA OutboxControl ==
  ASSUME Core, OutboxInv,
         \/ Tick \/ Load \/ StartupDone \/ Shutdown \/ ShutdownWait \/ Drain \/ DrainPassDone
         \/ ShutdownExpires \/ UNCHANGED vars
  PROVE  OutboxInv'
  <1> USE DEF storeVars, resultVars, finishVars, auditVars, ctlVars, OnlyControl
  <1>1. UNCHANGED <<mem, disk, unlinked, evicted, outcome, receipt, audited, pc>>
    BY DEF Tick, Load, StartupDone, Shutdown, ShutdownWait, Drain, DrainPassDone, ShutdownExpires, vars
  <1>2. ASSUME NEW q \in Ops
        PROVE  RecordsOK(q)' /\ VisitOK(q)'
    <2>1. RecordsOK(q) /\ VisitOK(q)
      BY DEF OutboxInv
    <2>2. RecordsOK(q)'
      BY <1>1, <2>1 DEF RecordsOK, DeliveryOK, DeliveredOK, OutcomeOK
    <2>3. q \in ReplaySet(mem) => outcome[q] # "none"
      BY <2>1 DEF ReplaySet, Terminal, RecordsOK, OutcomeOK
    <2>4. CASE Tick \/ UNCHANGED vars
      BY <1>1, <2>1, <2>2, <2>4 DEF Tick, vars, VisitOK
    <2>5. CASE Load
      BY <1>1, <2>1, <2>2, <2>5 DEF Load, VisitOK
    <2>6. CASE StartupDone \/ Shutdown \/ ShutdownWait \/ ShutdownExpires
      BY <1>1, <2>1, <2>2, <2>6 DEF StartupDone, Shutdown, ShutdownWait, ShutdownExpires, VisitOK
    <2>7. CASE Drain \/ DrainPassDone
      BY <1>1, <2>1, <2>2, <2>3, <2>7 DEF Drain, DrainPassDone, VisitOK
    <2> QED BY <2>2, <2>4, <2>5, <2>6, <2>7
  <1> QED BY <1>2 DEF OutboxInv

(* The process is gone, and with it removals that were never synced.        *)
LEMMA OutboxGone ==
  ASSUME Core, OutboxInv, Exit \/ Crash
  PROVE  OutboxInv'
  <1> USE DEF finishVars, auditVars
  <1>1. /\ UNCHANGED <<outcome, receipt, audited, evicted>> /\ ctl' = "down" /\ unlinked' = {}
        /\ mem' = [q \in Ops |-> Absent] /\ pc' = [q \in Ops |-> "none"]
    BY DEF Exit, Crash, Gone
  <1>2. \A q \in Ops : disk'[q] = disk[q] \/ (disk'[q] = Absent /\ q \in unlinked)
    BY DEF Exit, Crash, Gone, Synced
  <1>3. ASSUME NEW q \in Ops
        PROVE  RecordsOK(q)' /\ VisitOK(q)'
    <2>1. RecordsOK(q) /\ mem'[q] = Absent /\ pc'[q] = "none"
      BY <1>1 DEF OutboxInv
    <2>2. DeliveryOK(q)'
      BY <1>1, <1>2, <2>1, AbsentAudit DEF RecordsOK, DeliveryOK
    <2>3. DeliveredOK(q)'
      BY <1>1, <1>2, <2>1, AbsentAudit DEF RecordsOK, DeliveredOK
    <2>4. OutcomeOK(q)'
      BY <1>1, <1>2, <2>1, AbsentAudit, SMT DEF RecordsOK, DeliveredOK, OutcomeOK
    <2> QED BY <1>1, <2>2, <2>3, <2>4 DEF RecordsOK, VisitOK
  <1> QED BY <1>3 DEF OutboxInv

(* The initial state is as it must be.                                      *)
LEMMA OutboxInit == Init => OutboxInv
  <1> SUFFICES ASSUME Init, NEW q \in Ops
               PROVE  RecordsOK(q) /\ VisitOK(q)
    BY DEF OutboxInv
  <1>1. /\ mem[q] = Absent /\ disk[q] = Absent /\ unlinked = {} /\ evicted[q] = "no" /\ outcome[q] = "none"
        /\ receipt[q] = "none" /\ audited[q] = 0 /\ pc[q] = "none" /\ ctl = "down"
    BY DEF Init
  <1>2. DeliveryOK(q)
    BY <1>1, SMT DEF DeliveryOK
  <1>3. DeliveredOK(q) /\ OutcomeOK(q)
    BY <1>1, AbsentAudit DEF DeliveredOK, OutcomeOK
  <1> QED BY <1>1, <1>2, <1>3 DEF RecordsOK, VisitOK

(* Every step keeps the outbox as it must be.                               *)
LEMMA OutboxNext == Core /\ OutboxInv /\ [Next]_vars => OutboxInv'
  <1> SUFFICES ASSUME Core, OutboxInv, [Next]_vars
               PROVE  OutboxInv'
    OBVIOUS
  <1>1. CASE \E o \in Ops, spec \in Specs : StartOperation(o, spec)
    BY <1>1, OutboxStart
  <1>2. ASSUME NEW o \in Ops, Runner(o) \/ AdvanceProgress(o) \/ AuditFault(o)
        PROVE  OutboxInv'
    BY <1>2, OutboxQuiet, OutboxUpdates, OutboxFinishes, OutboxRetention, OutboxDeliver, OutboxMark
       DEF Runner
  <1>3. ASSUME NEW o \in Ops, Cancel(o) \/ ShutdownCancel(o) \/ ReplayOne(o)
        PROVE  OutboxInv'
    BY <1>3, OutboxCancels, OutboxReplay
  <1>4. ASSUME NEW o \in Ops, RecoverInterrupted(o) \/ RecoverTerminal(o)
        PROVE  OutboxInv'
    BY <1>4, OutboxInterrupted, OutboxTerminal
  <1>5. CASE Recovered
    BY <1>5, OutboxRecovered
  <1>6. CASE Get \/ ReclaimExpiredForDiskPressure
    BY <1>6, OutboxRetention
  <1>7. CASE \/ Tick \/ Load \/ StartupDone \/ Shutdown \/ ShutdownWait \/ Drain \/ DrainPassDone
             \/ ShutdownExpires \/ UNCHANGED vars
    BY <1>7, OutboxControl
  <1>8. CASE Exit \/ Crash
    BY <1>8, OutboxGone
  <1> QED BY <1>1, <1>2, <1>3, <1>4, <1>5, <1>6, <1>7, <1>8 DEF Next, Startup, ShutdownWork

(* The terminal audit of an operation is exactly once (deliverTerminalAudit *)
(* against AppendManagedOnce, finishLocked, recoverJournal): never two      *)
(* records, one before the journal says DELIVERED and before retention      *)
(* drops the result, and until then the outcome stays in the journal.       *)
THEOREM AuditedOnce == Spec => []AuditExactlyOnce
  <1>1. OutboxInv => AuditExactlyOnce
    BY SMT DEF OutboxInv, RecordsOK, DeliveryOK, DeliveredOK, OutcomeOK, AuditExactlyOnce
  <1> QED BY <1>1, CoreInit, CoreNext, OutboxInit, OutboxNext, PTL DEF Spec

(* An outcome that was shown is never replaced.                             *)
LEMMA OutcomeStays ==
  Core /\ OutboxInv /\ [Next]_vars => [\A o \in Ops : outcome[o] # "none" => outcome'[o] = outcome[o]]_vars
  <1> SUFFICES ASSUME Core, OutboxInv, [Next]_vars, NEW q \in Ops, outcome[q] # "none"
               PROVE  outcome'[q] = outcome[q]
    OBVIOUS
  <1> USE DEF finishVars
  <1>1. CASE UNCHANGED outcome
    BY <1>1
  <1>2. ASSUME NEW o \in Ops, Succeed(o) \/ Fail(o) \/ CancelTerminal(o) \/ Reject(o)
        PROVE  outcome'[q] = outcome[q]
    <2>1. PICK next \in TerminalStatuses :
              FinishStep(o, next) /\ (next = "canceled" => mem[o].cancel \/ UNCHANGED storeVars)
      BY <1>2, RunnerFinishes
    <2>2. pc[o] \in Unfinished
      BY <1>2, RunnerFinishes DEF Unfinished
    <2>3. mem[o].status \in ActiveStatuses
      BY <2>2 DEF Core, RunnersMatchRecords
    <2>4. q # o
      BY <2>3, OutcomeFacts DEF OutboxInv
    <2> QED BY <2>1, <2>4 DEF FinishStep, Core, TypeOK
  <1>3. ASSUME NEW o \in Ops, RecoverInterrupted(o)
        PROVE  outcome'[q] = outcome[q]
    <2>1. disk[o].status \in ActiveStatuses
      BY <1>3 DEF RecoverInterrupted
    <2>2. q # o
      BY <2>1, OutcomeFacts DEF OutboxInv
    <2> QED BY <1>3, <2>2 DEF RecoverInterrupted, Core, TypeOK
  <1>4. ASSUME NEW o \in Ops, RecoverTerminal(o)
        PROVE  outcome'[q] = outcome[q]
    <2>1. disk[o].status \in TerminalStatuses /\ outcome' = [outcome EXCEPT ![o] = disk[o].status]
      BY <1>4 DEF RecoverTerminal, Terminal
    <2>2. q = o => outcome[q] = disk[o].status
      BY <2>1 DEF OutboxInv, RecordsOK, OutcomeOK, TerminalStatuses
    <2> QED BY <2>1, <2>2 DEF Core, TypeOK
  <1>5. ASSUME NEW o \in Ops, \/ Runner(o) /\ ~(Succeed(o) \/ Fail(o) \/ CancelTerminal(o) \/ Reject(o))
                              \/ AdvanceProgress(o) \/ AuditFault(o) \/ Cancel(o) \/ ReplayOne(o)
                              \/ ShutdownCancel(o)
        PROVE  UNCHANGED outcome
    BY <1>5 DEF Runner, AttachExecutionCancel, Acquire, AcquireFails, Refused, attachLease, Dispatch,
           AdmitOperation, Run, Prepare, EnterCommit, WorkReturns, FinishCanceledOrFailed, Finalize,
           Release, OnTerminal, ReserveReceipt, AppendRecord, StampReceipt, MarkDelivered,
           ConfirmTerminal, AdvanceProgress, AuditFault, Cancel, ReplayOne, ShutdownCancel,
           TransitionStatus, AdvancePhase, Update, OnlyRunner, OnlyControl
  <1>6. CASE \/ \E o \in Ops, spec \in Specs : StartOperation(o, spec)
             \/ Get \/ Tick \/ ReclaimExpiredForDiskPressure \/ Load \/ Recovered \/ StartupDone
             \/ ShutdownWait \/ Drain \/ DrainPassDone \/ Shutdown \/ ShutdownExpires \/ Exit \/ Crash
             \/ UNCHANGED vars
    <2>1. UNCHANGED outcome
      BY <1>6 DEF StartOperation, Get, Tick, ReclaimExpiredForDiskPressure, Load, Recovered, StartupDone,
             ShutdownWait, Drain, DrainPassDone, Shutdown, ShutdownExpires, Exit, Crash, Gone, OnlyControl,
             vars
    <2> QED BY <1>1, <2>1
  <1> QED BY <1>1, <1>2, <1>3, <1>4, <1>5, <1>6 DEF Next, Startup, ShutdownWork

(* The terminal status once shown for an operation (finishLocked,           *)
(* recoverJournal) is the only one ever shown.                              *)
THEOREM OutcomesAreFinal == Spec => TerminalIsFinal
  BY CoreInit, CoreNext, OutboxInit, OutboxNext, OutcomeStays, PTL DEF Spec, TerminalIsFinal


-----------------------------------------------------------------------------
(* Memory and the journal.                                                  *)
JournalOK(o) ==
    Present(o) /\ disk[o] # mem[o] =>
        \/ disk[o].rev = mem[o].rev + 1 /\ Active(o)
        \/ disk[o] = [mem[o] EXCEPT !.delivery = "DELIVERED"]
        \/ disk[o] = Absent /\ mem[o].delivery = "DELIVERED"

JournalInv == \A o \in Ops : JournalOK(o)

(* A record that is left alone in memory may only leave the journal, and    *)
(* only when it is delivered; one that is dropped has nothing to match.     *)
LEMMA JournalFrame ==
  ASSUME Core, OutboxInv, JournalInv, NEW q \in Ops,
         \/ mem'[q] = mem[q]
         \/ mem'[q] = Absent,
         \/ disk'[q] = disk[q]
         \/ /\ disk'[q] = Absent
            /\ q \in unlinked \/ (mem[q].delivery # "PENDING" /\ mem[q].status \in TerminalStatuses)
  PROVE  JournalOK(q)'
  <1>1. CASE mem'[q] = Absent
    BY <1>1, AbsentAudit DEF JournalOK, Present
  <1>2. CASE mem'[q] = mem[q] /\ disk'[q] = disk[q]
    BY <1>2 DEF JournalInv, JournalOK, Present, Active
  <1>3. CASE /\ mem'[q] = mem[q] /\ disk'[q] = Absent
             /\ q \in unlinked \/ (mem[q].delivery # "PENDING" /\ mem[q].status \in TerminalStatuses)
    <2>1. RecordsOK(q) /\ mem[q] \in Record
      BY DEF OutboxInv, Core, TypeOK
    <2>2. q \in unlinked => mem[q].delivery # "PENDING" /\ mem[q].status \notin ActiveStatuses
      BY <2>1 DEF RecordsOK, DeliveredOK
    <2>3. Present(q) => mem[q].status \in ActiveStatuses \/ mem[q].status \in TerminalStatuses
      BY <2>1 DEF Present, Record
    <2>4. Present(q) => mem[q].delivery = "DELIVERED"
      BY <1>3, <2>1, <2>2, <2>3, OutcomeFacts
    <2> QED BY <1>3, <2>4 DEF JournalOK, Present
  <1> QED BY <1>1, <1>2, <1>3

(* A save leaves the journal with the record of memory or one ahead of it.  *)
LEMMA JournalWrite ==
  ASSUME Core, OutboxInv, JournalInv, NEW o \in Ops, NEW u, StoreStep(o, u),
         mem'[o] = mem[o] /\ disk'[o] = u /\ Present(o) =>
            (u.rev = mem[o].rev + 1 /\ Active(o)) \/ u = [mem[o] EXCEPT !.delivery = "DELIVERED"]
  PROVE  JournalInv'
  <1>1. ASSUME NEW q \in Ops, q # o
        PROVE  JournalOK(q)'
    BY <1>1, JournalFrame DEF StoreStep
  <1>2. JournalOK(o)'
    <2>1. CASE mem'[o] = u /\ disk'[o] = u
      BY <2>1 DEF JournalOK
    <2>2. CASE mem'[o] = mem[o] /\ disk'[o] = disk[o]
      BY <2>2, JournalFrame
    <2>3. CASE mem'[o] = mem[o] /\ disk'[o] = u
      BY <2>3 DEF JournalOK, Present, Active
    <2> QED BY <2>1, <2>2, <2>3 DEF StoreStep
  <1> QED BY <1>1, <1>2 DEF JournalInv

(* Every step keeps the journal in touch with memory.                       *)
LEMMA JournalNext == Core /\ OutboxInv /\ JournalInv /\ [Next]_vars => JournalInv'
  <1> SUFFICES ASSUME Core, OutboxInv, JournalInv, [Next]_vars
               PROVE  JournalInv'
    OBVIOUS
  <1>1. CASE UNCHANGED <<mem, disk>>
    BY <1>1 DEF JournalInv, JournalOK, Present, Active
  <1>2. ASSUME NEW o \in Ops, NEW spec \in Specs, StartOperation(o, spec)
        PROVE  JournalInv'
    <2>1. \A q \in Ops \ {o} :
               /\ disk'[q] \in {disk[q], Absent}
               /\ mem'[q] # mem[q] => mem'[q] = Absent
               /\ disk'[q] # disk[q] =>
                    q \in unlinked \/ (mem[q].delivery # "PENDING" /\ mem[q].status \in TerminalStatuses)
      BY <1>2, StartDrops
    <2>2. mem'[o] = disk'[o] \/ mem'[o].status = "absent"
      BY <1>2, StartDrops
    <2>3. JournalOK(o)'
      BY <2>2 DEF JournalOK, Present
    <2>4. ASSUME NEW q \in Ops, q # o
          PROVE  JournalOK(q)'
      BY <2>1, <2>4, JournalFrame
    <2> QED BY <2>3, <2>4 DEF JournalInv
  <1>3. ASSUME NEW o \in Ops, \/ Dispatch(o) \/ Run(o) \/ Prepare(o) \/ EnterCommit(o)
                              \/ AdvanceProgress(o) \/ Finalize(o)
        PROVE  JournalInv'
    <2>1. PICK u : KeptBy(mem[o], u) /\ UpdateStep(o, u)
      BY <1>3, RunnerUpdates
    <2>2. pc[o] \in Unfinished
      BY <1>3 DEF Dispatch, Run, Prepare, EnterCommit, AdvanceProgress, Finalize, Unfinished
    <2>3. Active(o)
      BY <2>2 DEF Core, RunnersMatchRecords, Active
    <2>4. CASE UNCHANGED storeVars
      BY <1>1, <2>4 DEF storeVars
    <2>5. CASE (Saved(o, u) \/ SaveFailed(o, u)) /\ u.rev = mem[o].rev + 1
      BY <2>3, <2>5, SaveSteps, JournalWrite
    <2> QED BY <2>1, <2>4, <2>5 DEF UpdateStep
  <1>4. ASSUME NEW o \in Ops, Succeed(o) \/ Fail(o) \/ CancelTerminal(o) \/ Reject(o)
        PROVE  JournalInv'
    <2>1. PICK next \in TerminalStatuses :
              FinishStep(o, next) /\ (next = "canceled" => mem[o].cancel \/ UNCHANGED storeVars)
      BY <1>4, RunnerFinishes
    <2>2. PICK u : u = Finished(o, next)
      OBVIOUS
    <2>3. pc[o] \in Unfinished
      BY <1>4, RunnerFinishes DEF Unfinished
    <2>4. Active(o)
      BY <2>3 DEF Core, RunnersMatchRecords, Active
    <2>6. u.rev = mem[o].rev + 1
      BY <2>2, <2>3, FinishedRecord, SMT
    <2>5. StoreStep(o, u)
      BY <2>1, <2>2, SaveSteps DEF FinishStep
    <2> QED BY <2>4, <2>5, <2>6, JournalWrite
  <1>5. ASSUME NEW o \in Ops, MarkDelivered(o)
        PROVE  JournalInv'
    <2>1. PICK u : u = [mem[o] EXCEPT !.delivery = "DELIVERED"]
      OBVIOUS
    <2>2. StoreStep(o, u)
      BY <1>5, <2>1, SaveSteps DEF MarkDelivered
    <2> QED BY <2>1, <2>2, JournalWrite
  <1>6. ASSUME NEW o \in Ops, Cancel(o) \/ ShutdownCancel(o)
        PROVE  JournalInv'
    <2>1. PICK u : u = [mem[o] EXCEPT !.cancel = TRUE, !.rev = @ + 1]
      OBVIOUS
    <2>2. CASE UNCHANGED storeVars
      BY <1>1, <2>2 DEF storeVars
    <2>3. CASE CancelAccepted(o) /\ (Saved(o, u) \/ SaveFailed(o, u))
      <3>1. u.rev = mem[o].rev + 1 /\ Active(o)
        BY <2>1, <2>3, CanceledRecord DEF Active
      <3> QED BY <2>3, <3>1, SaveSteps, JournalWrite
    <2> QED BY <1>6, <2>1, <2>2, <2>3 DEF Cancel, ShutdownCancel, CancelWithError
  <1>7. CASE Get \/ ReclaimExpiredForDiskPressure \/ Recovered \/ \E o \in Ops : OnTerminal(o)
    <2>1. Drops
      BY <1>7, RetentionDrops
    <2>2. ASSUME NEW q \in Ops PROVE JournalOK(q)'
      BY <2>1, JournalFrame DEF Drops
    <2> QED BY <2>2 DEF JournalInv
  <1>8. ASSUME NEW o \in Ops, RecoverInterrupted(o)
        PROVE  JournalInv'
    <2>1. PICK u : u = [disk[o] EXCEPT !.status = "interrupted", !.rev = @ + 1, !.fin = clock + 1,
                                       !.delivery = "PENDING"]
      OBVIOUS
    <2>2. StoreStep(o, u)
      BY <1>8, <2>1, SaveSteps DEF RecoverInterrupted
    <2>3. disk[o].status \in ActiveStatuses /\ mem[o].status \notin ActiveStatuses /\ mem[o] \in Record
      BY <1>8 DEF RecoverInterrupted, Core, LoadingIsQuiet, TypeOK
    <2>4. mem[o].status \notin TerminalStatuses
      BY <2>3, OutcomeFacts DEF OutboxInv, RecordsOK, OutcomeOK
    <2>5. ~Present(o)
      BY <2>3, <2>4 DEF Present, Record
    <2> QED BY <2>2, <2>5, JournalWrite
  <1>9. ASSUME NEW o \in Ops, RecoverTerminal(o)
        PROVE  JournalInv'
    <2>1. /\ mem'[o] = disk[o] /\ disk' = disk /\ \A q \in Ops \ {o} : mem'[q] = mem[q]
      BY <1>9 DEF RecoverTerminal, Core, TypeOK
    <2>2. JournalOK(o)'
      BY <2>1 DEF JournalOK
    <2>3. ASSUME NEW q \in Ops, q # o PROVE JournalOK(q)'
      BY <2>1, <2>3, JournalFrame
    <2> QED BY <2>2, <2>3 DEF JournalInv
  <1>10. CASE Exit \/ Crash
    <2>1. \A q \in Ops : mem'[q] = Absent
      BY <1>10 DEF Exit, Crash, Gone
    <2> QED BY <2>1, AbsentAudit DEF JournalInv, JournalOK, Present
  <1> USE DEF OnlyRunner, OnlyControl, storeVars
  <1>11. CASE \/ \E o \in Ops : \/ AttachExecutionCancel(o) \/ Acquire(o) \/ AcquireFails(o) \/ Refused(o)
                                \/ attachLease(o) \/ AdmitOperation(o) \/ WorkReturns(o)
                                \/ FinishCanceledOrFailed(o) \/ Release(o) \/ ReserveReceipt(o)
                                \/ AppendRecord(o) \/ StampReceipt(o) \/ ConfirmTerminal(o)
                                \/ AuditFault(o) \/ ReplayOne(o)
              \/ Tick \/ Load \/ StartupDone \/ Shutdown \/ ShutdownWait \/ Drain \/ DrainPassDone
              \/ ShutdownExpires \/ UNCHANGED vars
    <2>1. UNCHANGED <<mem, disk>>
      BY <1>11 DEF AttachExecutionCancel, Acquire, AcquireFails, Refused, attachLease, AdmitOperation,
           WorkReturns, FinishCanceledOrFailed, Release, ReserveReceipt, AppendRecord, StampReceipt,
           ConfirmTerminal, AuditFault, ReplayOne, Tick, Load, StartupDone, Shutdown, ShutdownWait,
           Drain, DrainPassDone, ShutdownExpires, vars
    <2> QED BY <1>1, <2>1
  <1> QED BY <1>2, <1>3, <1>4, <1>5, <1>6, <1>7, <1>8, <1>9, <1>10, <1>11
          DEF Next, Runner, Startup, ShutdownWork


-----------------------------------------------------------------------------
(* An accepted cancel and the runner's context.                             *)
LEMMA CancelNext == Core /\ CancelReachesRunner /\ [Next]_vars => CancelReachesRunner'
  <1> SUFFICES ASSUME Core, CancelReachesRunner, [Next]_vars, NEW q \in Ops
               PROVE  mem'[q].cancel => ctx'[q] # "live"
    BY DEF CancelReachesRunner
  <1> USE DEF CancelReachesRunner
  <1>0. Absent.cancel = FALSE /\ ctx = [x \in Ops |-> ctx[x]] /\ mem \in [Ops -> Record]
    BY AbsentRecord DEF Core, TypeOK
  <1>1. CASE ctx' = ctx /\ mem'[q] \in {mem[q], Absent}
    BY <1>0, <1>1
  <1>2. ASSUME NEW o \in Ops, NEW u, StoreStep(o, u), ctx' = ctx, u.cancel = mem[o].cancel
        PROVE  mem'[q].cancel => ctx'[q] # "live"
    BY <1>2 DEF StoreStep
  <1>3. ASSUME NEW o \in Ops, NEW spec \in Specs, StartOperation(o, spec)
        PROVE  mem'[q].cancel => ctx'[q] # "live"
    <2>1. \A x \in Ops : mem'[x] \in {mem[x], Absent, newOperation(spec)}
      BY <1>3, StartDrops, SMT
    <2>3. ctx' = ctx
      BY <1>3 DEF StartOperation
    <2>2. newOperation(spec).cancel = FALSE
      BY NewRecord
    <2> QED BY <1>0, <2>1, <2>2, <2>3
  <1>4. ASSUME NEW o \in Ops, \/ Dispatch(o) \/ Run(o) \/ Prepare(o) \/ EnterCommit(o)
                              \/ AdvanceProgress(o) \/ Finalize(o)
        PROVE  mem'[q].cancel => ctx'[q] # "live"
    <2>1. PICK u : KeptBy(mem[o], u) /\ UpdateStep(o, u)
      BY <1>4, RunnerUpdates
    <2>2. StoreStep(o, u) /\ ctx' = ctx /\ u.cancel = mem[o].cancel
      BY <2>1, SaveSteps DEF UpdateStep, KeptBy
    <2> QED BY <1>2, <2>2
  <1>5. ASSUME NEW o \in Ops, Succeed(o) \/ Fail(o) \/ CancelTerminal(o) \/ Reject(o)
        PROVE  mem'[q].cancel => ctx'[q] # "live"
    <2>1. PICK next \in TerminalStatuses :
              FinishStep(o, next) /\ (next = "canceled" => mem[o].cancel \/ UNCHANGED storeVars)
      BY <1>5, RunnerFinishes
    <2>2. PICK u : u = Finished(o, next)
      OBVIOUS
    <2>3. pc[o] \in Unfinished
      BY <1>5, RunnerFinishes DEF Unfinished
    <2>4. u.cancel = mem[o].cancel
      BY <2>2, <2>3, FinishedRecord, SMT
    <2>5. StoreStep(o, u) /\ ctx' = ctx
      BY <2>1, <2>2, SaveSteps DEF FinishStep
    <2> QED BY <1>2, <2>4, <2>5
  <1>6. ASSUME NEW o \in Ops, MarkDelivered(o)
        PROVE  mem'[q].cancel => ctx'[q] # "live"
    <2>1. PICK u : u = [mem[o] EXCEPT !.delivery = "DELIVERED"]
      OBVIOUS
    <2>2. u.cancel = mem[o].cancel
      BY <1>0, <2>1 DEF Record
    <2>3. StoreStep(o, u) /\ ctx' = ctx
      BY <1>6, <2>1, SaveSteps DEF MarkDelivered
    <2> QED BY <1>2, <2>2, <2>3
  <1>7. ASSUME NEW o \in Ops, Cancel(o) \/ ShutdownCancel(o)
        PROVE  mem'[q].cancel => ctx'[q] # "live"
    <2>1. PICK u : u = [mem[o] EXCEPT !.cancel = TRUE, !.rev = @ + 1]
      OBVIOUS
    <2>2. CASE UNCHANGED storeVars /\ ctx' = ctx
      BY <1>1, <2>2 DEF storeVars
    <2>3. CASE Saved(o, u) /\ ctx' = [ctx EXCEPT ![o] = IF @ = "live" THEN "done" ELSE @]
      BY <1>0, <2>3 DEF Saved
    <2>4. CASE SaveFailed(o, u) /\ ctx' = ctx
      BY <1>1, <2>4 DEF SaveFailed
    <2> QED BY <1>7, <2>1, <2>2, <2>3, <2>4 DEF Cancel, ShutdownCancel, CancelWithError, ctlVars
  <1>8. CASE Get \/ ReclaimExpiredForDiskPressure \/ Recovered \/ \E o \in Ops : OnTerminal(o)
    <2>1. Drops /\ ctx' = ctx
      BY <1>8, RetentionDrops DEF Get, ReclaimExpiredForDiskPressure, Recovered, OnTerminal, OnlyControl
    <2> QED BY <1>1, <2>1 DEF Drops
  <1>9. ASSUME NEW o \in Ops, RecoverInterrupted(o) \/ RecoverTerminal(o)
        PROVE  mem'[q].cancel => ctx'[q] # "live"
    BY <1>9 DEF RecoverInterrupted, RecoverTerminal, Core, LoadingIsQuiet
  <1>10. CASE Exit \/ Crash
    BY <1>10 DEF Exit, Crash, Gone
  <1>11. ASSUME NEW o \in Ops, AttachExecutionCancel(o)
         PROVE  mem'[q].cancel => ctx'[q] # "live"
    <2>1. mem' = mem /\ ctx' = [ctx EXCEPT ![o] = IF Terminal(mem[o].status) \/ mem[o].cancel THEN "done" ELSE "live"]
      BY <1>11 DEF AttachExecutionCancel, OnlyRunner, storeVars
    <2> QED BY <1>0, <2>1
  <1> USE DEF OnlyRunner, OnlyControl, storeVars
  <1>12. CASE \/ \E o \in Ops : \/ Acquire(o) \/ AcquireFails(o) \/ Refused(o)
                                \/ attachLease(o) \/ AdmitOperation(o) \/ WorkReturns(o)
                                \/ FinishCanceledOrFailed(o) \/ Release(o) \/ ReserveReceipt(o)
                                \/ AppendRecord(o) \/ StampReceipt(o) \/ ConfirmTerminal(o)
                                \/ AuditFault(o) \/ ReplayOne(o)
              \/ Tick \/ Load \/ StartupDone \/ Shutdown \/ ShutdownWait \/ Drain \/ DrainPassDone
              \/ ShutdownExpires \/ UNCHANGED vars
    <2>1. UNCHANGED <<mem, ctx>>
      BY <1>12 DEF Acquire, AcquireFails, Refused, attachLease, AdmitOperation,
           WorkReturns, FinishCanceledOrFailed, Release, ReserveReceipt, AppendRecord, StampReceipt,
           ConfirmTerminal, AuditFault, ReplayOne, Tick, Load, StartupDone, Shutdown, ShutdownWait,
           Drain, DrainPassDone, ShutdownExpires, vars
    <2> QED BY <1>1, <2>1
  <1> QED BY <1>3, <1>4, <1>5, <1>6, <1>7, <1>8, <1>9, <1>10, <1>11, <1>12
          DEF Next, Runner, Startup, ShutdownWork


-----------------------------------------------------------------------------
(* The result index.                                                        *)
Indexed(o) == \E i \in 1..Len(results) : results[i] = o
Indexing(o) == pc[o] \in {"release", "index"}
Unloaded == {"down", "loading", "failed"}

(* A finished operation is in the result index, once its runner is past     *)
(* onTerminal and the process has loaded its journal.                       *)
IndexOK ==
    ctl \notin Unloaded =>
        \A o \in Ops : mem[o].status \in TerminalStatuses /\ ~Indexing(o) => Indexed(o)

(* What leaves the results alone and finishes no operation.                 *)
LEMMA IndexFrame ==
  ASSUME IndexOK, results' = results, ctl' \notin Unloaded => ctl \notin Unloaded,
         \A q \in Ops : mem'[q].status \in TerminalStatuses /\ ~Indexing(q)' =>
                            mem[q].status \in TerminalStatuses /\ ~Indexing(q)
  PROVE  IndexOK'
  BY DEF IndexOK, Indexed

(* Retention keeps every result of its input listed that it does not drop.  *)
LEMMA CleanedIndex ==
  ASSUME Core, NEW st, NEW res, CleanedUp(st, res), mem' = st.mem, results' = st.results, NEW q \in Ops,
         mem'[q].status \in TerminalStatuses, \E k \in 1..Len(res) : res[k] = q
  PROVE  Indexed(q)'
  <1>1. PICK k \in 1..Len(res) : res[k] = q
    OBVIOUS
  <1>2. st.mem[q] # Absent
    BY AbsentAudit
  <1>3. \E i \in 1..Len(st.results) : st.results[i] = res[k]
    BY <1>1, <1>2 DEF CleanedUp
  <1> QED BY <1>1, <1>3 DEF Indexed

(* Retention drops a result from the index with its record.                 *)
LEMMA IndexRetention ==
  ASSUME Core, IndexOK, Get \/ ReclaimExpiredForDiskPressure
  PROVE  IndexOK'
  <1>0. pc' = pc /\ ctl' = ctl
    BY DEF Get, ReclaimExpiredForDiskPressure, ctlVars
  <1>1. \A q \in Ops : mem'[q].status \in TerminalStatuses => mem[q].status \in TerminalStatuses
    BY RetentionDrops, AbsentAudit DEF Drops
  <1> SUFFICES ASSUME NEW q \in Ops, mem'[q].status \in TerminalStatuses, Indexed(q)
               PROVE  Indexed(q)'
    BY <1>0, <1>1 DEF IndexOK, Indexing
  <1>2. CASE Get
    <2>1. PICK st : Publish(st) /\ CleanedUp(st, results) /\ KeepsResults(st, results)
      BY <1>2, GetCleans
    <2> QED BY <2>1, CleanedIndex DEF Publish, Indexed
  <1>3. CASE ReclaimExpiredForDiskPressure
    <2>1. PICK n \in 1..Len(results) : \E gone : Reclaims(n, gone)
      BY <1>3, ReclaimDrops
    <2>2. PICK gone : Reclaims(n, gone)
      BY <2>1
    <2>3. q \notin gone
      BY <2>2, AbsentAudit DEF Reclaims
    <2>4. DOMAIN results = 1..Len(results) /\ \A i \in 1..Len(results) : results[i] \in Ops
      BY SeqFacts DEF Core, TypeOK
    <2>5. PICK S \in SUBSET Ops : S = {results[i] : i \in 1..Len(results)} \ gone /\ results' \in Enumerations(S)
      BY <2>2, <2>4, SMT DEF Reclaims
    <2>6. q \in S
      BY <2>3, <2>5 DEF Indexed
    <2>7. \A x \in S : \E i \in 1..Len(results') : results'[i] = x
      BY <2>5, EnumerationSeq
    <2> QED BY <2>6, <2>7 DEF Indexed
  <1> QED BY <1>2, <1>3

(* onTerminal lists its operation.                                          *)
LEMMA IndexOnTerminal ==
  ASSUME Core, IndexOK, NEW o \in Ops, OnTerminal(o)
  PROVE  IndexOK'
  <1>1. PICK st, res : /\ Publish(st) /\ CleanedUp(st, res) /\ KeepsResults(st, res)
                       /\ \A q \in Ops : q # o /\ pc[q] \in {"release", "index"} =>
                             \A i \in 1..Len(res) : res[i] # q
                       /\ ListsAlso(res, o)
    BY OnTerminalCleans
  <1>2. ctl' = ctl /\ \A q \in Ops \ {o} : pc'[q] = pc[q]
    BY DEF OnTerminal, RunnerStep, Goto, ctlVars, Core, TypeOK
  <1>3. \A q \in Ops : mem'[q].status \in TerminalStatuses => mem[q].status \in TerminalStatuses
    BY RetentionDrops, AbsentAudit DEF Drops
  <1> SUFFICES ASSUME NEW q \in Ops, mem'[q].status \in TerminalStatuses, q = o \/ Indexed(q)
               PROVE  Indexed(q)'
    BY <1>2, <1>3 DEF IndexOK, Indexing
  <1>4. \E k \in 1..Len(res) : res[k] = q
    BY <1>1 DEF ListsAlso, Indexed
  <1> QED BY <1>1, <1>4, CleanedIndex DEF Publish

(* Recovery lists every operation it loaded.                                *)
LEMMA IndexRecovered ==
  ASSUME Core, Recovered
  PROVE  IndexOK'
  <1>1. PICK st, order : /\ Publish(st) /\ todo' = ReplaySet(st.mem)
                         /\ CleanedUp(st, order) /\ KeepsResults(st, order)
                         /\ ListsAll(order)
    BY RecoveredCleans
  <1>2. \A q \in Ops : mem'[q].status \in TerminalStatuses => mem[q].status \in TerminalStatuses
    BY RetentionDrops, AbsentAudit DEF Drops
  <1> SUFFICES ASSUME NEW q \in Ops, mem'[q].status \in TerminalStatuses
               PROVE  Indexed(q)'
    BY DEF IndexOK
  <1>3. \E k \in 1..Len(order) : order[k] = q
    BY <1>1, <1>2, AbsentAudit DEF ListsAll
  <1> QED BY <1>1, <1>3, CleanedIndex DEF Publish

(* Accepting an operation runs retention and adds an unfinished one.        *)
LEMMA IndexStart ==
  ASSUME Core, IndexOK, NEW o \in Ops, NEW spec \in Specs, StartOperation(o, spec)
  PROVE  IndexOK'
  <1>1. PICK st : Starts(o, newOperation(spec), st) /\ CleanedUp(st, results) /\ KeepsResults(st, results)
    BY StartCleans
  <1>2. /\ \A q \in Ops \ {o} : pc'[q] = pc[q] /\ (mem'[q] # mem[q] => mem'[q] = Absent)
        /\ mem'[o].status \notin TerminalStatuses
    <2>1. newOperation(spec).status \notin TerminalStatuses
      BY NewRecord DEF TerminalStatuses
    <2> QED BY <2>1, StartDrops, AbsentAudit
  <1>3. ctl' = ctl
    BY DEF StartOperation, ctlVars
  <1> SUFFICES ASSUME NEW q \in Ops, q # o, mem'[q].status \in TerminalStatuses, Indexed(q)
               PROVE  Indexed(q)'
    BY <1>2, <1>3, AbsentAudit DEF IndexOK, Indexing
  <1>4. st.mem[q] = mem'[q]
    BY <1>1 DEF Starts, CleanedUp
  <1>5. PICK k \in 1..Len(results) : results[k] = q
    BY DEF Indexed
  <1>6. st.mem[q] # Absent
    BY <1>4, AbsentAudit
  <1>7. \E i \in 1..Len(st.results) : st.results[i] = results[k]
    BY <1>1, <1>5, <1>6 DEF CleanedUp
  <1> QED BY <1>1, <1>5, <1>7 DEF Indexed, Starts


(* Every step keeps the result index complete.                              *)
LEMMA IndexNext == Core /\ IndexOK /\ [Next]_vars => IndexOK'
  <1> SUFFICES ASSUME Core, IndexOK, [Next]_vars
               PROVE  IndexOK'
    OBVIOUS
  <1> USE DEF resultVars, ctlVars
  <1>0. \A s \in ActiveStatuses : s \notin TerminalStatuses
    BY DEF ActiveStatuses, TerminalStatuses
  <1>1. ASSUME NEW o \in Ops, results' = results, ctl' = ctl,
               mem'[o].status \in TerminalStatuses /\ ~Indexing(o)' => mem[o].status \in TerminalStatuses /\ ~Indexing(o),
               \A q \in Ops \ {o} : mem'[q] = mem[q] /\ pc'[q] = pc[q]
        PROVE  IndexOK'
    BY <1>1, IndexFrame DEF Indexing
  <1>2. ASSUME NEW o \in Ops, pc[o] \in Unfinished, NEW u, StoreStep(o, u), results' = results, ctl' = ctl,
               u.status \notin TerminalStatuses \/ mem' = mem \/ Indexing(o)',
               \E l : Goto(o, l)
        PROVE  IndexOK'
    <2>1. mem[o].status \notin TerminalStatuses
      BY <1>0, <1>2 DEF Core, RunnersMatchRecords
    <2>2. \A q \in Ops \ {o} : mem'[q] = mem[q] /\ pc'[q] = pc[q]
      BY <1>2 DEF StoreStep, Goto, Core, TypeOK
    <2>3. mem'[o] = u \/ mem'[o] = mem[o]
      BY <1>2 DEF StoreStep
    <2>4. mem'[o].status \in TerminalStatuses => Indexing(o)'
      BY <1>2, <2>1, <2>3
    <2> QED BY <1>1, <1>2, <2>2, <2>4
  <1>3. ASSUME NEW o \in Ops, \/ Dispatch(o) \/ Run(o) \/ Prepare(o) \/ EnterCommit(o)
                              \/ AdvanceProgress(o) \/ Finalize(o)
        PROVE  IndexOK'
    <2>1. PICK u : KeptBy(mem[o], u) /\ UpdateStep(o, u)
      BY <1>3, RunnerUpdates
    <2>2. pc[o] \in Unfinished
      BY <1>3 DEF Dispatch, Run, Prepare, EnterCommit, AdvanceProgress, Finalize, Unfinished
    <2>3. StoreStep(o, u) /\ results' = results /\ ctl' = ctl /\ \E l : Goto(o, l)
      BY <2>1, SaveSteps DEF UpdateStep
    <2>4. u.status \notin TerminalStatuses
      BY <1>0, <2>1 DEF KeptBy
    <2> QED BY <1>2, <2>2, <2>3, <2>4
  <1>4. ASSUME NEW o \in Ops, Succeed(o) \/ Fail(o) \/ CancelTerminal(o) \/ Reject(o)
        PROVE  IndexOK'
    <2>1. PICK next \in TerminalStatuses :
              FinishStep(o, next) /\ (next = "canceled" => mem[o].cancel \/ UNCHANGED storeVars)
      BY <1>4, RunnerFinishes
    <2>2. PICK u : u = Finished(o, next)
      OBVIOUS
    <2>3. pc[o] \in Unfinished
      BY <1>4, RunnerFinishes DEF Unfinished
    <2>4. StoreStep(o, u) /\ results' = results /\ ctl' = ctl /\ \E l : Goto(o, l)
      BY <2>1, <2>2, SaveSteps DEF FinishStep
    <2>5. mem' = mem \/ Indexing(o)'
      <3>1. pc \in [Ops -> Locations]
        BY DEF Core, TypeOK
      <3> QED BY <2>1, <3>1 DEF FinishStep, SaveFailed, Goto, Indexing, storeVars
    <2> QED BY <1>2, <2>3, <2>4, <2>5
  <1>5. ASSUME NEW o \in Ops, MarkDelivered(o)
        PROVE  IndexOK'
    <2>1. PICK u : u = [mem[o] EXCEPT !.delivery = "DELIVERED"]
      OBVIOUS
    <2>0. mem[o] \in Record
      BY DEF Core, TypeOK
    <2>2. u.status = mem[o].status
      BY <2>0, <2>1 DEF Record
    <2>3. /\ StoreStep(o, u) /\ results' = results /\ ctl' = ctl /\ ~Indexing(o)
      BY <1>5, <2>1, SaveSteps DEF MarkDelivered, Indexing
    <2>4. \A q \in Ops \ {o} : pc'[q] = pc[q]
      BY <1>5 DEF MarkDelivered, Goto, Core, TypeOK
    <2> QED BY <1>1, <2>2, <2>3, <2>4 DEF StoreStep
  <1>6. ASSUME NEW o \in Ops, Cancel(o) \/ ShutdownCancel(o)
        PROVE  IndexOK'
    <2>1. PICK u : u = [mem[o] EXCEPT !.cancel = TRUE, !.rev = @ + 1]
      OBVIOUS
    <2>2. results' = results /\ ctl' = ctl /\ pc' = pc
      BY <1>6 DEF Cancel, ShutdownCancel
    <2>3. CASE UNCHANGED storeVars
      BY <1>1, <2>2, <2>3 DEF storeVars, Indexing
    <2>4. CASE CancelAccepted(o) /\ (Saved(o, u) \/ SaveFailed(o, u))
      <3>1. u.status = mem[o].status
        BY <2>1, <2>4, CanceledRecord
      <3> QED BY <1>1, <2>2, <2>4, <3>1, SaveSteps DEF StoreStep, Indexing
    <2> QED BY <1>6, <2>1, <2>3, <2>4 DEF Cancel, ShutdownCancel, CancelWithError
  <1>7. ASSUME NEW o \in Ops, RecoverInterrupted(o) \/ RecoverTerminal(o)
        PROVE  IndexOK'
    BY <1>7 DEF RecoverInterrupted, RecoverTerminal, IndexOK, Unloaded
  <1>8. CASE Exit \/ Crash
    BY <1>8 DEF Exit, Crash, Gone, IndexOK, Unloaded
  <1> USE DEF OnlyRunner, OnlyControl, storeVars, Indexing, Goto
  <1>9. ASSUME NEW o \in Ops, \/ AttachExecutionCancel(o) \/ Acquire(o) \/ AcquireFails(o) \/ Refused(o)
                              \/ attachLease(o) \/ AdmitOperation(o) \/ WorkReturns(o)
                              \/ FinishCanceledOrFailed(o) \/ Release(o) \/ ReserveReceipt(o)
                              \/ AppendRecord(o) \/ StampReceipt(o) \/ ConfirmTerminal(o)
                              \/ AuditFault(o) \/ ReplayOne(o)
        PROVE  IndexOK'
    <2>1. pc \in [Ops -> Locations]
      BY DEF Core, TypeOK
    <2>2. UNCHANGED <<mem, results, ctl>> /\ \E l : Goto(o, l)
      BY <1>9 DEF AttachExecutionCancel, Acquire, AcquireFails, Refused, attachLease, AdmitOperation, RunnerStep,
           WorkReturns, FinishCanceledOrFailed, Release, ReserveReceipt, AppendRecord, StampReceipt,
           ConfirmTerminal, AuditFault, ReplayOne
    <2>3. Indexing(o) => pc'[o] = "index"
      BY <1>9, <2>1 DEF AttachExecutionCancel, Acquire, AcquireFails, Refused, attachLease, AdmitOperation, RunnerStep,
           WorkReturns, FinishCanceledOrFailed, Release, ReserveReceipt, AppendRecord, StampReceipt,
           ConfirmTerminal, AuditFault, ReplayOne, NoRunner
    <2> QED BY <1>1, <2>1, <2>2, <2>3
  <1>10. CASE \/ Tick \/ Load \/ StartupDone \/ Shutdown \/ ShutdownWait \/ Drain \/ DrainPassDone
              \/ ShutdownExpires \/ UNCHANGED vars
    <2>1. UNCHANGED <<mem, results, pc>> /\ (ctl' \notin Unloaded => ctl \notin Unloaded)
      BY <1>10 DEF Tick, Load, StartupDone, Shutdown, ShutdownWait, Drain, DrainPassDone, ShutdownExpires, vars,
                   Unloaded
    <2> QED BY <2>1, IndexFrame
  <1> QED BY <1>3, <1>4, <1>5, <1>6, <1>7, <1>8, <1>9, <1>10, IndexStart, IndexRetention, IndexOnTerminal,
             IndexRecovered
          DEF Next, Runner, Startup, ShutdownWork


-----------------------------------------------------------------------------
(* Nothing is started again while Shutdown drains the outbox; a pass that   *)
(* has seen no error leaves a pending audit only to what it has yet to      *)
(* visit or is delivering.                                                  *)
DrainOK ==
    /\ ctl \in {"draining", "closed"} => \A o \in Ops : mem[o].status \notin ActiveStatuses
    /\ ctl = "draining" /\ ~replayErr =>
          \A o \in Ops : mem[o].delivery = "PENDING" => o \in todo \/ pc[o] \in Outbox
    /\ ctl = "closed" => \A o \in Ops : pc[o] = "none" /\ mem[o].delivery # "PENDING"

(* While Shutdown drains or has closed, a runner only delivers.             *)
LEMMA DrainOnlyDelivers ==
  ASSUME Core, DrainOK, NEW o \in Ops
  PROVE  /\ pc[o] \in Unfinished \/ mem[o].status \in ActiveStatuses => ctl \notin {"draining", "closed"}
         /\ pc[o] # "none" => ctl # "closed"
  BY DEF Core, RunnersMatchRecords, DrainOK

(* Every step keeps Shutdown's account of what is pending.                  *)
LEMMA DrainNext == Core /\ OutboxInv /\ DrainOK /\ [Next]_vars => DrainOK'
  <1> SUFFICES ASSUME Core, OutboxInv, DrainOK, [Next]_vars
               PROVE  DrainOK'
    OBVIOUS
  <1> USE DEF ctlVars, Goto
  <1>0. pc \in [Ops -> Locations] /\ replayErr \in BOOLEAN
    BY DEF Core, TypeOK
  <1>1. CASE ctl' \notin {"draining", "closed"}
    BY <1>1 DEF DrainOK
  <1>2. ASSUME ctl' = ctl, replayErr' = replayErr, todo' = todo, pc' = pc,
               \A q \in Ops : /\ mem'[q].status \in ActiveStatuses => mem[q].status \in ActiveStatuses
                              /\ mem'[q].delivery = "PENDING" => mem[q].delivery = "PENDING"
        PROVE  DrainOK'
    BY <1>2 DEF DrainOK
  <1>3. ASSUME NEW o \in Ops, \/ pc[o] \in Unfinished \/ mem[o].status \in ActiveStatuses, ctl' = ctl
        PROVE  DrainOK'
    BY <1>1, <1>3, DrainOnlyDelivers
  <1>4. ASSUME NEW o \in Ops, \/ AttachExecutionCancel(o) \/ Acquire(o) \/ AcquireFails(o) \/ Refused(o)
                              \/ attachLease(o) \/ AdmitOperation(o) \/ WorkReturns(o)
                              \/ FinishCanceledOrFailed(o)
        PROVE  DrainOK'
    <2>1. pc[o] \in Unfinished /\ ctl' = ctl
      BY <1>4 DEF AttachExecutionCancel, Acquire, AcquireFails, Refused, attachLease, AdmitOperation,
           WorkReturns, FinishCanceledOrFailed, RunnerStep, OnlyRunner, Unfinished
    <2> QED BY <1>3, <2>1
  <1>5. ASSUME NEW o \in Ops, \/ Dispatch(o) \/ Run(o) \/ Prepare(o) \/ EnterCommit(o)
                              \/ AdvanceProgress(o) \/ Finalize(o)
        PROVE  DrainOK'
    <2>1. pc[o] \in Unfinished /\ ctl' = ctl
      BY <1>5 DEF Dispatch, Run, Prepare, EnterCommit, AdvanceProgress, Finalize, TransitionStatus, AdvancePhase,
                  Update, Unfinished
    <2> QED BY <1>3, <2>1
  <1>6. ASSUME NEW o \in Ops, Succeed(o) \/ Fail(o) \/ CancelTerminal(o) \/ Reject(o)
        PROVE  DrainOK'
    <2>1. pc[o] \in Unfinished /\ ctl' = ctl
      BY <1>6 DEF Succeed, Fail, CancelTerminal, Reject, Finish, Unfinished
    <2> QED BY <1>3, <2>1
  <1>7. ASSUME NEW o \in Ops, pc[o] # "none", ctl' = ctl, todo' = todo, replayErr' = replayErr,
               \E l : Goto(o, l) /\ (l \in Outbox \/ mem'[o].delivery # "PENDING"),
               \A q \in Ops : /\ mem'[q].status \in ActiveStatuses => mem[q].status \in ActiveStatuses
                              /\ mem'[q].delivery = "PENDING" => mem[q].delivery = "PENDING"
        PROVE  DrainOK'
    <2>1. ctl # "closed"
      BY <1>7, DrainOnlyDelivers
    <2>2. /\ \A q \in Ops \ {o} : pc'[q] = pc[q]
          /\ mem'[o].delivery = "PENDING" => pc'[o] \in Outbox
      BY <1>0, <1>7
    <2> QED BY <1>7, <2>1, <2>2 DEF DrainOK
  <1>8. ASSUME NEW o \in Ops, Release(o) \/ ReserveReceipt(o) \/ AppendRecord(o) \/ StampReceipt(o) \/ ConfirmTerminal(o)
        PROVE  DrainOK'
    <2>1. pc[o] # "none" /\ UNCHANGED <<ctl, todo, replayErr, mem>>
      BY <1>8 DEF Release, ReserveReceipt, AppendRecord, StampReceipt, ConfirmTerminal, RunnerStep, OnlyRunner, storeVars
    <2>2. CASE ~ConfirmTerminal(o)
      <3>1. \E l : Goto(o, l) /\ l \in Outbox
        BY <1>8, <2>2 DEF Release, ReserveReceipt, AppendRecord, StampReceipt, RunnerStep, Outbox
      <3> QED BY <1>7, <2>1, <3>1
    <2>3. CASE ConfirmTerminal(o)
      <3>1. mem[o].delivery # "PENDING"
        BY <2>3 DEF ConfirmTerminal, RunnerStep, OutboxInv, RecordsOK, DeliveryOK
      <3>2. \E l : Goto(o, l)
        BY <2>3 DEF ConfirmTerminal, RunnerStep
      <3> QED BY <1>7, <2>1, <3>1, <3>2
    <2> QED BY <2>2, <2>3
  <1>9. ASSUME NEW o \in Ops, OnTerminal(o)
        PROVE  DrainOK'
    <2>1. pc[o] # "none" /\ UNCHANGED <<ctl, todo, replayErr>> /\ \E l : Goto(o, l) /\ l \in Outbox
      BY <1>9 DEF OnTerminal, RunnerStep, Outbox
    <2>2. Drops
      BY <1>9, RetentionDrops
    <2>3. \A q \in Ops : mem'[q] \in {mem[q], Absent}
      BY <2>2 DEF Drops
    <2> QED BY <1>7, <2>1, <2>3, AbsentAudit
  <1>10. ASSUME NEW o \in Ops, MarkDelivered(o)
         PROVE  DrainOK'
    <2>1. PICK u : u = [mem[o] EXCEPT !.delivery = "DELIVERED"]
      OBVIOUS
    <2>2. pc[o] # "none" /\ UNCHANGED <<ctl, todo>>
      BY <1>10 DEF MarkDelivered
    <2>0. mem \in [Ops -> Record] /\ mem[o] \in Record
      BY DEF Core, TypeOK
    <2>3. u.status = mem[o].status /\ u.delivery = "DELIVERED"
      BY <2>0, <2>1 DEF Record
    <2>4. CASE Saved(o, u) /\ Goto(o, "confirm") /\ UNCHANGED replayErr
      <3>1. mem'[o] = u /\ \A q \in Ops \ {o} : mem'[q] = mem[q]
        BY <2>0, <2>4 DEF Saved
      <3>2. \A q \in Ops : /\ mem'[q].status \in ActiveStatuses => mem[q].status \in ActiveStatuses
                           /\ mem'[q].delivery = "PENDING" => mem[q].delivery = "PENDING"
        BY <2>3, <3>1
      <3>3. mem'[o].delivery # "PENDING"
        BY <2>3, <3>1
      <3> QED BY <1>7, <2>2, <2>4, <3>2, <3>3
    <2>5. CASE SaveFailed(o, u) /\ Goto(o, "none") /\ replayErr' = Replaying
      <3>1. mem' = mem /\ (ctl = "draining" => replayErr')
        BY <2>5 DEF SaveFailed, Replaying
      <3> QED BY <2>2, <3>1, DrainOnlyDelivers DEF DrainOK
    <2> QED BY <1>10, <2>1, <2>4, <2>5 DEF MarkDelivered
  <1>11. ASSUME NEW o \in Ops, AuditFault(o)
         PROVE  DrainOK'
    <2>1. /\ pc[o] # "none" /\ mem' = mem /\ ctl' = ctl /\ (ctl = "draining" => replayErr')
      BY <1>11 DEF AuditFault, Replaying
    <2> QED BY <2>1, DrainOnlyDelivers DEF DrainOK
  <1>12. ASSUME NEW o \in Ops, ReplayOne(o)
         PROVE  DrainOK'
    <2>1. /\ UNCHANGED <<mem, ctl, replayErr>> /\ ctl # "closed" /\ todo' = todo \ {o}
          /\ \A q \in Ops \ {o} : pc'[q] = pc[q]
          /\ mem[o].delivery = "PENDING" => pc'[o] = "deliver"
      BY <1>0, <1>12 DEF ReplayOne, Replaying, storeVars
    <2> QED BY <2>1 DEF DrainOK, Outbox
  <1>13. ASSUME NEW o \in Ops, Cancel(o)
         PROVE  DrainOK'
    BY <1>3, <1>13 DEF Cancel, CancelAccepted, Active
  <1>14. CASE Get \/ ReclaimExpiredForDiskPressure
    <2>1. Drops /\ UNCHANGED <<ctl, todo, replayErr, pc>>
      BY <1>14, RetentionDrops DEF Get, ReclaimExpiredForDiskPressure
    <2>2. \A q \in Ops : mem'[q] \in {mem[q], Absent}
      BY <2>1 DEF Drops
    <2> QED BY <1>2, <2>1, <2>2, AbsentAudit
  <1>15. CASE Drain
    <2>1. /\ mem' = mem /\ pc' = pc /\ ctl' = "draining" /\ todo' = ReplaySet(mem)
          /\ \A o \in Ops : mem[o].status \notin ActiveStatuses
      BY <1>15 DEF Drain, Active, storeVars
    <2>2. \A o \in Ops : mem[o].delivery = "PENDING" => o \in ReplaySet(mem)
      BY OutcomeFacts DEF OutboxInv, ReplaySet, Terminal
    <2> QED BY <2>1, <2>2 DEF DrainOK
  <1>16. CASE DrainPassDone
    <2>1. mem' = mem /\ pc' = pc /\ \A o \in Ops : pc[o] = "none" /\ mem[o].status \notin ActiveStatuses
      BY <1>16 DEF DrainPassDone, NoRunner, storeVars, DrainOK
    <2>2. \A o \in Ops : mem[o].delivery = "PENDING" => o \in ReplaySet(mem)
      BY OutcomeFacts DEF OutboxInv, ReplaySet, Terminal
    <2>3. CASE replayErr
      BY <1>16, <2>1, <2>2, <2>3 DEF DrainPassDone, DrainOK
    <2>4. CASE ~replayErr
      <3>1. \A o \in Ops : mem[o].delivery # "PENDING"
        BY <1>16, <2>1, <2>4 DEF DrainPassDone, DrainOK, Outbox
      <3> QED BY <1>16, <2>1, <2>4, <3>1 DEF DrainPassDone, DrainOK
    <2> QED BY <2>3, <2>4
  <1>17. CASE Tick \/ UNCHANGED vars
    BY <1>2, <1>17 DEF Tick, vars, storeVars
  <1>18. CASE \/ \E o \in Ops, spec \in Specs : StartOperation(o, spec)
              \/ \E o \in Ops : RecoverInterrupted(o) \/ RecoverTerminal(o) \/ ShutdownCancel(o)
              \/ Recovered \/ Load \/ StartupDone \/ Shutdown \/ ShutdownWait \/ ShutdownExpires \/ Exit \/ Crash
    <2>1. ctl' \notin {"draining", "closed"}
      BY <1>18 DEF StartOperation, RecoverInterrupted, RecoverTerminal, ShutdownCancel, Recovered, Load, StartupDone,
                   Shutdown, ShutdownWait, ShutdownExpires, Exit, Crash, Gone
    <2> QED BY <1>1, <2>1
  <1> QED BY <1>4, <1>5, <1>6, <1>8, <1>9, <1>10, <1>11, <1>12, <1>13, <1>14, <1>15, <1>16, <1>17, <1>18
          DEF Next, Runner, Startup, ShutdownWork

-----------------------------------------------------------------------------
(* The places where the engine keeps an operation agree: the lock table     *)
(* with the leases, an accepted cancel with the runner's context, the       *)
(* result index with the records, the journal with memory, and a Shutdown   *)
(* that says it is done with all of them.                                   *)
THEOREM EngineIsCoherent == Spec => []Coherent
  <1>1. Init => JournalInv /\ CancelReachesRunner /\ IndexOK /\ DrainOK
    <2>1. Init => JournalInv /\ CancelReachesRunner
      BY AbsentRecord DEF Init, JournalInv, JournalOK, Present, CancelReachesRunner
    <2>2. Init => IndexOK /\ DrainOK
      BY DEF Init, IndexOK, Unloaded, DrainOK
    <2> QED BY <2>1, <2>2
  <1>2. Core /\ LockInv /\ JournalInv /\ CancelReachesRunner /\ IndexOK /\ DrainOK => Coherent
    <2> SUFFICES ASSUME Core, LockInv, JournalInv, CancelReachesRunner, IndexOK, DrainOK
                 PROVE  Coherent
      OBVIOUS
    <2>1. NoLockLeak
      BY DEF LockInv
    <2>2. JournalCoversMemory
      BY DEF JournalInv, JournalOK, JournalCoversMemory
    <2>3. ResultIndexExact
      <3>1. DOMAIN results = 1..Len(results)
        BY SeqFacts DEF Core, TypeOK
      <3>2. Serving => ctl \notin Unloaded
        BY DEF Serving, shuttingDown, Unloaded
      <3> QED BY <3>1, <3>2 DEF Core, ResultsAreFinished, IndexOK, Indexed, Indexing, ResultIndexExact, Terminal
    <2>4. ClosedIsDrained
      <3>1. ASSUME ctl = "closed", NEW p \in Projects PROVE held[p] = NoOp
        <4>1. held[p] # NoOp => held[p] \in Ops
          BY DEF Core, TypeOK
        <4> QED BY <2>1, <3>1, <4>1 DEF NoLockLeak, DrainOK, Active
      <3> QED BY <3>1 DEF ClosedIsDrained, DrainOK, NoRunner, Active
    <2> QED BY <2>1, <2>2, <2>3, <2>4 DEF Coherent
  <1> QED BY <1>1, <1>2, CoreInit, CoreNext, LockInit, LockNext, OutboxInit, OutboxNext, JournalNext, CancelNext,
             IndexNext, DrainNext, PTL DEF Spec

=============================================================================
