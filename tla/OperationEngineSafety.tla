------------------------ MODULE OperationEngineSafety ------------------------
(***************************************************************************)
(* The safety properties of the operation engine, proved from the core     *)
(* invariant of OperationEngineProofs.                                     *)
(***************************************************************************)
EXTENDS OperationEngineProofs

(* Most leaves are first-order; the ones that need arithmetic or updates    *)
(* of functions and records cite SMT.                                       *)
USE Zenon

(* Retention and disk pressure drop only finished results with no pending   *)
(* audit, and a restart's retention likewise.                               *)
Drops ==
    /\ \A q \in Ops : mem'[q] # mem[q] \/ evicted'[q] # evicted[q] =>
          mem'[q] = Absent /\ mem[q].delivery # "PENDING" /\ mem[q].status \in TerminalStatuses
    /\ \A q \in Ops : disk'[q] \in {disk[q], Absent}
    /\ \A q \in Ops : disk'[q] # disk[q] \/ q \in unlinked' =>
          q \in unlinked \/ (mem[q].delivery # "PENDING" /\ mem[q].status \in TerminalStatuses)

(* Each step that runs retention drops results as Drops says.               *)
LEMMA RetentionDrops ==
  ASSUME Core, Get \/ ReclaimExpiredForDiskPressure \/ Recovered \/ \E o \in Ops : OnTerminal(o)
  PROVE  Drops
  <1>1. CASE \E st, res : Publish(st) /\ KeepsResults(st, res)
    BY <1>1, SMT DEF Publish, KeepsResults, Drops
  <1>2. CASE ReclaimExpiredForDiskPressure
    <2>1. PICK n \in 1..Len(results) : \E gone : Reclaims(n, gone)
      BY <1>2, ReclaimDrops
    <2>2. PICK gone : Reclaims(n, gone)
      BY <2>1
    <2>3. Len(results) \in Nat /\ mem \in [Ops -> Record] /\ evicted = [q \in Ops |-> evicted[q]]
      BY SeqFacts DEF Core, TypeOK
    <2>4. \A q \in gone : mem[q].delivery # "PENDING" /\ mem[q].status \in TerminalStatuses
      BY <2>2, <2>3, SMT DEF Reclaims, Core, ResultsAreFinished
    <2>5. \A q \in Ops : mem'[q] # mem[q] \/ evicted'[q] # evicted[q] => q \in gone /\ mem'[q] = Absent
      BY <2>2 DEF Reclaims
    <2> QED BY <2>2, <2>4, <2>5 DEF Reclaims, Drops
  <1> QED BY <1>1, <1>2, GetCleans, RecoveredCleans, OnTerminalCleans

(* Accepting an operation also runs retention.                              *)
LEMMA StartDrops ==
  ASSUME Core, NEW o \in Ops, NEW spec \in Specs, StartOperation(o, spec)
  PROVE  /\ mem[o].status = "absent" /\ outcome[o] = "none" /\ evicted'[o] = evicted[o]
         /\ \/ pc'[o] = "accepted" /\ mem'[o] = newOperation(spec) /\ disk'[o] = newOperation(spec)
            \/ pc'[o] = pc[o] /\ mem'[o] = mem[o]
         /\ disk'[o] \in {newOperation(spec), disk[o], Absent}
         /\ \A q \in Ops \ {o} :
               /\ pc'[q] = pc[q] /\ disk'[q] \in {disk[q], Absent}
               /\ mem'[q] # mem[q] \/ evicted'[q] # evicted[q] =>
                    mem'[q] = Absent /\ mem[q].delivery # "PENDING" /\ mem[q].status \in TerminalStatuses
         /\ \A q \in Ops : (q # o /\ disk'[q] # disk[q]) \/ q \in unlinked' =>
               q \in unlinked \/ (mem[q].delivery # "PENDING" /\ mem[q].status \in TerminalStatuses)
  <1> DEFINE new == newOperation(spec)
  <1>1. PICK st : Starts(o, new, st) /\ CleanedUp(st, results) /\ KeepsResults(st, results)
    BY StartCleans
  <1>2. mem[o].status = "absent" /\ outcome[o] = "none"
    BY DEF StartOperation, Present
  <1> HIDE DEF new
  <1>3. mem[o].status \notin TerminalStatuses
    BY <1>2 DEF TerminalStatuses
  <1>4. st.mem[o] = mem[o] /\ st.evicted[o] = evicted[o]
    BY <1>1, <1>3 DEF KeepsResults
  <1>5. st.mem \in [Ops -> Record] /\ st.disk \in [Ops -> Record] /\ pc \in [Ops -> Locations]
    BY <1>1 DEF CleanedUp, Core, TypeOK
  <1>6. /\ \/ pc'[o] = "accepted" /\ mem'[o] = new /\ disk'[o] = new
           \/ pc'[o] = pc[o] /\ mem'[o] = st.mem[o]
        /\ \A q \in Ops \ {o} : pc'[q] = pc[q] /\ mem'[q] = st.mem[q]
    BY <1>1, <1>5 DEF Starts, Goto
  <1>7. /\ disk'[o] \in {new, st.disk[o]}
        /\ \A q \in Ops \ {o} : disk'[q] \in {st.disk[q], Absent}
    BY <1>1, <1>5 DEF Starts
  <1>8. \A q \in Ops : st.disk[q] \in {disk[q], Absent}
    BY <1>1 DEF KeepsResults
  <1>9. \A q \in Ops \ {o} : mem'[q] # mem[q] \/ evicted'[q] # evicted[q] =>
                    mem'[q] = Absent /\ mem[q].delivery # "PENDING" /\ mem[q].status \in TerminalStatuses
    BY <1>1, <1>6 DEF KeepsResults, Starts
  <1>10. evicted'[o] = evicted[o]
    BY <1>1, <1>4 DEF Starts
  <1>11. \A q \in Ops : (q # o /\ disk'[q] # disk[q]) \/ q \in unlinked' =>
               q \in unlinked \/ (mem[q].delivery # "PENDING" /\ mem[q].status \in TerminalStatuses)
    <2>1. \A q \in Ops : (q # o /\ disk'[q] # disk[q]) \/ q \in unlinked' => st.disk[q] # disk[q] \/ q \in st.unlinked
      BY <1>1, <1>5 DEF Starts
    <2> QED BY <1>1, <2>1 DEF KeepsResults
  <1> QED BY <1>2, <1>4, <1>6, <1>7, <1>8, <1>9, <1>10, <1>11 DEF new

-----------------------------------------------------------------------------
(* Project locks.                                                           *)
LeaseOK(o) ==
    /\ lease[o] => mem[o].status \in ActiveStatuses
    /\ pc[o] \in {"leased", "release"} => held[Project(o)] = o
    /\ pc[o] \in {"accepted", "acquire", "refused", "leased"} => ~lease[o]
    /\ pc[o] \in Locked /\ requiresProjectLock(mem[o].spec.type) => lease[o]

LockInv == NoLockLeak /\ \A o \in Ops : LeaseOK(o)

(* The project of an operation is one of the projects.                      *)
LEMMA ProjectType ==
  ASSUME Core, NEW o \in Ops
  PROVE  Project(o) \in Projects /\ mem[o].spec.type \in Types
  <1>1. mem[o].spec \in Specs
    BY DEF Core, TypeOK, Record
  <1> QED BY <1>1, SpecsAssumption DEF Project

(* Steps that leave the locks alone, keep the unfinished operations         *)
(* unfinished, and do not enter or leave the moments between a lock and its *)
(* lease.                                                                   *)
LockFrame ==
    /\ UNCHANGED lockVars
    /\ \A q \in Ops :
         /\ mem[q].status \in ActiveStatuses => mem'[q].status \in ActiveStatuses /\ mem'[q].spec = mem[q].spec
         /\ pc[q] = "release" => mem'[q].status = mem[q].status /\ mem'[q].spec = mem[q].spec
         /\ pc[q] \in {"leased", "release"} \/ pc'[q] \in {"leased", "release"} => pc'[q] = pc[q]
         /\ pc'[q] \in {"accepted", "acquire", "refused"} => ~lease[q]
         /\ pc'[q] \in Locked /\ requiresProjectLock(mem'[q].spec.type) => lease[q]

(* A step that keeps locks, leases and what they depend on keeps LockInv.   *)
LEMMA LockFrameKeeps ==
  ASSUME Core, LockInv, LockFrame
  PROVE  LockInv'
  <1>1. held' = held /\ lease' = lease
    BY DEF LockFrame, lockVars
  <1>2. held \in [Projects -> Ops \cup {NoOp}]
    BY DEF Core, TypeOK
  <1>3. ASSUME NEW q \in Ops PROVE LeaseOK(q)'
    <2>1. CASE pc[q] = "leased"
      <3>1. mem[q].status \in ActiveStatuses
        BY <2>1 DEF Core, RunnersMatchRecords, Unfinished
      <3> QED BY <1>1, <2>1, <3>1 DEF LockInv, LeaseOK, LockFrame, Project
    <2>2. CASE pc[q] # "leased"
      BY <1>1, <2>2 DEF LockInv, LeaseOK, LockFrame, Project
    <2> QED BY <2>1, <2>2
  <1>4. ASSUME NEW p \in Projects, held[p] # NoOp
        PROVE  /\ mem'[held[p]].spec.project = p
               /\ \/ mem'[held[p]].status \in ActiveStatuses /\ (lease[held[p]] \/ pc'[held[p]] = "leased")
                  \/ mem'[held[p]].status \in TerminalStatuses /\ pc'[held[p]] = "release"
    <2>1. held[p] \in Ops
      BY <1>2, <1>4
    <2>2. /\ mem[held[p]].spec.project = p
          /\ \/ mem[held[p]].status \in ActiveStatuses /\ (lease[held[p]] \/ pc[held[p]] = "leased")
             \/ mem[held[p]].status \in TerminalStatuses /\ pc[held[p]] = "release"
      BY <1>4 DEF LockInv, NoLockLeak, Project, Active, Terminal
    <2> QED BY <2>1, <2>2 DEF LockFrame
  <1>5. ASSUME NEW q \in Ops, lease[q] PROVE held[mem'[q].spec.project] = q
    BY <1>5 DEF LockInv, LeaseOK, NoLockLeak, LockFrame, Project
  <1> QED BY <1>1, <1>3, <1>4, <1>5 DEF LockInv, NoLockLeak, Project, Active, Terminal

(* Runner steps that touch neither lock nor record keep LockInv.            *)
LEMMA LockQuietRunner ==
  ASSUME Core, LockInv, NEW o \in Ops,
         \/ AttachExecutionCancel(o) \/ AcquireFails(o) \/ Refused(o) \/ AdmitOperation(o)
         \/ WorkReturns(o) \/ FinishCanceledOrFailed(o)
         \/ ReserveReceipt(o) \/ AppendRecord(o) \/ StampReceipt(o) \/ ConfirmTerminal(o)
         \/ AuditFault(o) \/ ReplayOne(o)
  PROVE  LockFrame
  <1> USE DEF RunnerStep, OnlyRunner, OnlyControl, Goto, storeVars, lockVars
  <1>1. UNCHANGED <<mem, lockVars>>
    BY DEF AttachExecutionCancel, AcquireFails, Refused, AdmitOperation, WorkReturns,
           FinishCanceledOrFailed, ReserveReceipt, AppendRecord, StampReceipt, ConfirmTerminal,
           AuditFault, ReplayOne
  <1>2. PICK l \in Locations :
           /\ pc' = [pc EXCEPT ![o] = l]
           /\ \/ pc[o] \in {"accepted", "acquire"} /\ l \in {"acquire", "refused"}
              \/ pc[o] = "accepted" /\ l = "dispatch" /\ ~requiresProjectLock(mem[o].spec.type)
              \/ pc[o] \in Locked /\ l \in Locked
              \/ l \notin Locked \cup {"accepted", "acquire", "refused", "leased", "release"}
                 /\ pc[o] \notin {"leased", "release"}
    <2>1. \/ AttachExecutionCancel(o) \/ AcquireFails(o) \/ Refused(o) \/ AdmitOperation(o)
          \/ WorkReturns(o) \/ FinishCanceledOrFailed(o)
          => \E l \in Locations :
               /\ pc' = [pc EXCEPT ![o] = l]
               /\ \/ pc[o] \in {"accepted", "acquire"} /\ l \in {"acquire", "refused"}
                  \/ pc[o] = "accepted" /\ l = "dispatch" /\ ~requiresProjectLock(mem[o].spec.type)
                  \/ pc[o] \in Locked /\ l \in Locked
                  \/ l \notin Locked \cup {"accepted", "acquire", "refused", "leased", "release"}
                     /\ pc[o] \notin {"leased", "release"}
      BY DEF AttachExecutionCancel, AcquireFails, Refused, AdmitOperation, WorkReturns,
             FinishCanceledOrFailed, Locations, Locked
    <2>2. \/ ReserveReceipt(o) \/ AppendRecord(o) \/ StampReceipt(o) \/ ConfirmTerminal(o)
          \/ AuditFault(o) \/ ReplayOne(o)
          => \E l \in Locations :
               /\ pc' = [pc EXCEPT ![o] = l]
               /\ l \notin Locked \cup {"accepted", "acquire", "refused", "leased", "release"}
               /\ pc[o] \notin {"leased", "release"}
      BY DEF ReserveReceipt, AppendRecord, StampReceipt, ConfirmTerminal, AuditFault, ReplayOne,
             NoRunner, Locations, Locked
    <2> QED BY <2>1, <2>2
  <1>3. pc'[o] = l /\ \A q \in Ops \ {o} : pc'[q] = pc[q]
    BY <1>2 DEF Core, TypeOK
  <1> QED BY <1>1, <1>2, <1>3, SMT DEF LockFrame, LockInv, LeaseOK, Locked

(* Record updates keep LockInv.                                             *)
LEMMA LockWrites ==
  ASSUME Core, LockInv, NEW o \in Ops,
         \/ Dispatch(o) \/ Run(o) \/ Prepare(o) \/ EnterCommit(o) \/ AdvanceProgress(o) \/ Finalize(o)
         \/ MarkDelivered(o) \/ Cancel(o) \/ ShutdownCancel(o)
  PROVE  LockFrame
  <1> USE DEF storeVars, lockVars
  <1>1. mem \in [Ops -> Record] /\ pc \in [Ops -> Locations]
    BY DEF Core, TypeOK
  <1>2. CASE Dispatch(o) \/ Run(o) \/ Prepare(o) \/ EnterCommit(o) \/ AdvanceProgress(o) \/ Finalize(o)
    <2>1. PICK u : KeptBy(mem[o], u) /\ UpdateStep(o, u)
      BY <1>2, RunnerUpdates
    <2>2. mem'[o] \in {u, mem[o]} /\ \A q \in Ops \ {o} : mem'[q] = mem[q]
      BY <1>1, <2>1 DEF UpdateStep, Saved, SaveFailed
    <2>3. u.status \in ActiveStatuses /\ u.spec = mem[o].spec
      BY <2>1 DEF KeptBy
    <2>4. /\ pc'[o] \in Locked \cup {"reject", "fail", "none"} /\ pc[o] \in Locked
          /\ \A q \in Ops \ {o} : pc'[q] = pc[q]
      BY <1>1, <2>1 DEF UpdateStep, Goto
    <2>5. UNCHANGED lockVars
      BY <2>1 DEF UpdateStep
    <2> QED BY <2>2, <2>3, <2>4, <2>5, SMT DEF LockFrame, LockInv, LeaseOK, Locked
  <1>3. CASE MarkDelivered(o)
    <2>1. PICK u : u = [mem[o] EXCEPT !.delivery = "DELIVERED"]
      OBVIOUS
    <2>2. u.status = mem[o].status /\ u.spec = mem[o].spec
      BY <1>1, <2>1 DEF Record
    <2>3. mem'[o] \in {u, mem[o]} /\ \A q \in Ops \ {o} : mem'[q] = mem[q]
      BY <1>1, <1>3, <2>1 DEF MarkDelivered, Saved, SaveFailed
    <2>4. /\ pc'[o] \in {"confirm", "none"} /\ pc[o] = "mark"
          /\ \A q \in Ops \ {o} : pc'[q] = pc[q]
      BY <1>1, <1>3 DEF MarkDelivered, Goto
    <2>5. UNCHANGED lockVars
      BY <1>3 DEF MarkDelivered
    <2> QED BY <2>2, <2>3, <2>4, <2>5, SMT DEF LockFrame, LockInv, LeaseOK, Locked
  <1>4. CASE Cancel(o) \/ ShutdownCancel(o)
    <2>1. PICK u : u = [mem[o] EXCEPT !.cancel = TRUE, !.rev = @ + 1]
      OBVIOUS
    <2>2. u.status = mem[o].status /\ u.spec = mem[o].spec
      BY <1>1, <2>1, SMT DEF Record
    <2>3. mem'[o] \in {u, mem[o]} /\ \A q \in Ops \ {o} : mem'[q] = mem[q]
      BY <1>1, <1>4, <2>1 DEF Cancel, ShutdownCancel, CancelWithError, Saved, SaveFailed
    <2>4. UNCHANGED <<lockVars, pc>>
      BY <1>4 DEF Cancel, ShutdownCancel
    <2> QED BY <2>2, <2>3, <2>4, SMT DEF LockFrame, LockInv, LeaseOK, Locked
  <1> QED BY <1>2, <1>3, <1>4

(* Retention drops no lock holder.                                          *)
LEMMA LockDrops ==
  ASSUME Core, LockInv,
         Get \/ ReclaimExpiredForDiskPressure \/ Recovered \/ \E o \in Ops : OnTerminal(o)
  PROVE  LockFrame
  <1>1. Drops
    BY RetentionDrops
  <1>2. /\ UNCHANGED lockVars
        /\ \A q \in Ops : pc'[q] = pc[q] \/ (pc[q] = "index" /\ pc'[q] = "deliver")
    <2>1. pc \in [Ops -> Locations]
      BY DEF Core, TypeOK
    <2>2. CASE Get \/ ReclaimExpiredForDiskPressure \/ Recovered
      BY <2>2 DEF Get, ReclaimExpiredForDiskPressure, Recovered, OnlyControl
    <2>3. CASE \E o \in Ops : OnTerminal(o)
      BY <2>1, <2>3 DEF OnTerminal, RunnerStep, Goto
    <2> QED BY <2>2, <2>3
  <1>3. \A q \in Ops : mem'[q] = mem[q] \/ (/\ mem[q].status \notin ActiveStatuses
                                           /\ pc[q] \notin Unfinished /\ pc[q] \notin Outbox)
    BY <1>1 DEF Drops, Core, RunnersMatchRecords, ActiveStatuses, TerminalStatuses
  <1> QED BY <1>2, <1>3, SMT DEF LockFrame, LockInv, LeaseOK, Locked, Unfinished, Outbox

(* Accepting an operation keeps LockInv.                                    *)
LEMMA LockStart ==
  ASSUME Core, LockInv, NEW o \in Ops, NEW spec \in Specs, StartOperation(o, spec)
  PROVE  LockFrame
  <1>1. UNCHANGED lockVars
    BY DEF StartOperation
  <1>2. /\ mem[o].status = "absent"
        /\ pc'[o] = "accepted" \/ (pc'[o] = pc[o] /\ mem'[o] = mem[o])
        /\ \A q \in Ops \ {o} :
             /\ pc'[q] = pc[q]
             /\ mem'[q] # mem[q] => mem[q].delivery # "PENDING" /\ mem[q].status \in TerminalStatuses
    BY StartDrops
  <1>3. /\ mem[o].status \notin ActiveStatuses /\ ~lease[o]
        /\ pc[o] \notin Unfinished /\ pc[o] \notin Outbox
    <2>1. mem[o].status \notin ActiveStatuses /\ mem[o].delivery = "NONE"
      BY <1>2 DEF ActiveStatuses, TerminalStatuses, Core, TypeOK, validateRecord
    <2> QED BY <2>1 DEF Core, RunnersMatchRecords, LockInv, LeaseOK
  <1>4. \A q \in Ops \ {o} : mem'[q] = mem[q] \/ (/\ mem[q].status \notin ActiveStatuses
                                                 /\ pc[q] \notin Unfinished /\ pc[q] \notin Outbox)
    BY <1>2 DEF Core, RunnersMatchRecords, ActiveStatuses, TerminalStatuses
  <1>5. ASSUME NEW q \in Ops \ {o}
        PROVE  /\ mem[q].status \in ActiveStatuses => mem'[q].status \in ActiveStatuses /\ mem'[q].spec = mem[q].spec
               /\ pc[q] = "release" => mem'[q].status = mem[q].status /\ mem'[q].spec = mem[q].spec
               /\ pc'[q] = pc[q]
               /\ pc'[q] \in {"accepted", "acquire", "refused"} => ~lease[q]
               /\ pc'[q] \in Locked /\ requiresProjectLock(mem'[q].spec.type) => lease[q]
    BY <1>2, <1>4, SMT DEF LockInv, LeaseOK, Locked, Unfinished, Outbox
  <1>6. pc'[o] \notin {"leased", "release"} \cup Locked /\ pc[o] \notin {"leased", "release"}
    BY <1>2, <1>3 DEF Unfinished, Outbox, Locked
  <1> QED BY <1>1, <1>3, <1>5, <1>6 DEF LockFrame

(* Startup, replay and Shutdown steps keep LockInv.                         *)
LEMMA LockControl ==
  ASSUME Core, LockInv,
         \/ Tick \/ Load \/ StartupDone \/ Shutdown \/ ShutdownWait \/ Drain \/ DrainPassDone
         \/ ShutdownExpires \/ \E o \in Ops : RecoverInterrupted(o) \/ RecoverTerminal(o)
  PROVE  LockFrame
  <1> USE DEF OnlyControl, storeVars, lockVars
  <1>1. UNCHANGED <<held, lease, pc>>
    BY DEF Tick, Load, StartupDone, Shutdown, ShutdownWait, Drain, DrainPassDone, ShutdownExpires,
           RecoverInterrupted, RecoverTerminal
  <1>2. \/ UNCHANGED mem
        \/ \A q \in Ops : mem[q].status \notin ActiveStatuses /\ pc[q] = "none"
    BY DEF Tick, Load, StartupDone, Shutdown, ShutdownWait, Drain, DrainPassDone, ShutdownExpires,
           RecoverInterrupted, RecoverTerminal, Core, LoadingIsQuiet
  <1> QED BY <1>1, <1>2 DEF LockFrame, LockInv, LeaseOK, Locked

(* LockManager.Acquire takes a free lock only.                              *)
LEMMA LockAcquire ==
  ASSUME Core, LockInv, NEW o \in Ops, Acquire(o)
  PROVE  LockInv'
  <1> DEFINE p == Project(o)
  <1>1. /\ held[p] = NoOp /\ held' = [held EXCEPT ![p] = o] /\ pc[o] = "acquire"
        /\ UNCHANGED <<mem, lease>> /\ pc' = [pc EXCEPT ![o] = "leased"]
    BY DEF Acquire, RunnerStep, OnlyRunner, Goto, storeVars
  <1>2. p \in Projects /\ held \in [Projects -> Ops \cup {NoOp}] /\ pc \in [Ops -> Locations]
    BY ProjectType DEF Core, TypeOK
  <1>3. mem[o].status \in ActiveStatuses
    BY <1>1 DEF Core, RunnersMatchRecords, Unfinished
  <1>4. \A q \in Ops : held[Project(q)] = q => Project(q) # p
    BY <1>1, OpsAssumption
  <1>5. /\ pc'[o] = "leased" /\ \A q \in Ops \ {o} : pc'[q] = pc[q]
        /\ held'[p] = o /\ \A r \in Projects \ {p} : held'[r] = held[r]
    BY <1>1, <1>2
  <1> HIDE DEF p
  <1>6. ASSUME NEW q \in Ops PROVE LeaseOK(q)'
    <2>1. CASE q = o
      BY <1>1, <1>3, <1>5, <2>1 DEF LockInv, LeaseOK, Locked, Project, p
    <2>2. CASE q # o
      <3>1. Project(q) \in Projects
        BY ProjectType
      <3> QED BY <1>1, <1>4, <1>5, <2>2, <3>1 DEF LockInv, LeaseOK, Project
    <2> QED BY <2>1, <2>2
  <1>7. ASSUME NEW r \in Projects, held'[r] # NoOp
        PROVE  /\ mem[held'[r]].spec.project = r
               /\ \/ mem[held'[r]].status \in ActiveStatuses /\ (lease[held'[r]] \/ pc'[held'[r]] = "leased")
                  \/ mem[held'[r]].status \in TerminalStatuses /\ pc'[held'[r]] = "release"
    <2>1. CASE r = p
      BY <1>3, <1>5, <2>1 DEF Project, p
    <2>2. CASE r # p
      <3>1. held[r] \in Ops /\ held'[r] = held[r]
        BY <1>2, <1>5, <1>7, <2>2
      <3>2. /\ mem[held[r]].spec.project = r
            /\ \/ mem[held[r]].status \in ActiveStatuses /\ (lease[held[r]] \/ pc[held[r]] = "leased")
               \/ mem[held[r]].status \in TerminalStatuses /\ pc[held[r]] = "release"
        BY <1>7, <3>1 DEF LockInv, NoLockLeak, Project, Active, Terminal
      <3> QED BY <1>5, <2>2, <3>1, <3>2 DEF Project, p
    <2> QED BY <2>1, <2>2
  <1>8. ASSUME NEW q \in Ops, lease[q] PROVE held'[Project(q)] = q
    <2>1. held[Project(q)] = q /\ Project(q) \in Projects
      BY <1>8, ProjectType DEF LockInv, NoLockLeak
    <2> QED BY <1>4, <1>5, <2>1
  <1> QED BY <1>1, <1>6, <1>7, <1>8 DEF LockInv, NoLockLeak, Project, Active, Terminal

(* attachLease hands the lock to the operation that acquired it.            *)
LEMMA LockAttach ==
  ASSUME Core, LockInv, NEW o \in Ops, attachLease(o)
  PROVE  LockInv'
  <1>1. pc[o] = "leased" /\ pc' = [pc EXCEPT ![o] = "dispatch"] /\ UNCHANGED mem
    BY DEF attachLease, RunnerStep, OnlyRunner, Goto, storeVars
  <1>2. mem[o].status \in ActiveStatuses
    BY <1>1 DEF Core, RunnersMatchRecords, Unfinished
  <1>3. lease' = [lease EXCEPT ![o] = TRUE] /\ held' = held
    BY <1>2 DEF attachLease, Terminal, ActiveStatuses, TerminalStatuses
  <1>4. /\ pc'[o] = "dispatch" /\ \A q \in Ops \ {o} : pc'[q] = pc[q]
        /\ lease'[o] /\ \A q \in Ops \ {o} : lease'[q] = lease[q]
    BY <1>1, <1>3 DEF Core, TypeOK
  <1>5. ASSUME NEW q \in Ops PROVE LeaseOK(q)'
    BY <1>1, <1>2, <1>3, <1>4 DEF LockInv, LeaseOK, Project
  <1>6. ASSUME NEW r \in Projects, held[r] # NoOp
        PROVE  /\ mem[held[r]].spec.project = r
               /\ \/ mem[held[r]].status \in ActiveStatuses /\ (lease'[held[r]] \/ pc'[held[r]] = "leased")
                  \/ mem[held[r]].status \in TerminalStatuses /\ pc'[held[r]] = "release"
    <2>1. held[r] \in Ops
      BY <1>6 DEF Core, TypeOK
    <2>2. /\ mem[held[r]].spec.project = r
          /\ \/ mem[held[r]].status \in ActiveStatuses /\ (lease[held[r]] \/ pc[held[r]] = "leased")
             \/ mem[held[r]].status \in TerminalStatuses /\ pc[held[r]] = "release"
      BY <1>6, <2>1 DEF LockInv, NoLockLeak, Project, Active, Terminal
    <2> QED BY <1>1, <1>2, <1>4, <2>1, <2>2
  <1>7. ASSUME NEW q \in Ops, lease'[q] PROVE held[Project(q)] = q
    BY <1>1, <1>4, <1>7 DEF LockInv, LeaseOK, NoLockLeak
  <1> QED BY <1>1, <1>3, <1>5, <1>6, <1>7, SMT DEF LockInv, NoLockLeak, Project, Active, Terminal

(* Lease.Release frees the lock of the operation that surrendered it.       *)
LEMMA LockRelease ==
  ASSUME Core, LockInv, NEW o \in Ops, Release(o)
  PROVE  LockInv'
  <1> DEFINE p == Project(o)
  <1>1. /\ pc[o] = "release" /\ pc' = [pc EXCEPT ![o] = "index"] /\ UNCHANGED <<mem, lease>>
        /\ held' = [held EXCEPT ![p] = IF @ = o THEN NoOp ELSE @]
    BY DEF Release, RunnerStep, OnlyRunner, Goto, storeVars
  <1>2. p \in Projects /\ held \in [Projects -> Ops \cup {NoOp}] /\ pc \in [Ops -> Locations]
    BY ProjectType DEF Core, TypeOK
  <1>3. held[p] = o
    BY <1>1 DEF LockInv, LeaseOK
  <1>4. /\ pc'[o] = "index" /\ \A q \in Ops \ {o} : pc'[q] = pc[q]
        /\ held'[p] = NoOp /\ \A r \in Projects \ {p} : held'[r] = held[r]
    BY <1>1, <1>2, <1>3
  <1>5. \A q \in Ops \ {o} : held[Project(q)] = q => Project(q) # p
    BY <1>3
  <1>6. ~lease[o]
    <2>1. mem[o].delivery = "PENDING"
      BY <1>1 DEF Core, RunnersMatchRecords, Outbox
    <2>2. mem[o].status \notin ActiveStatuses
      BY <2>1 DEF Core, TypeOK, validateRecord, ActiveStatuses, TerminalStatuses
    <2> QED BY <2>2 DEF LockInv, LeaseOK
  <1> HIDE DEF p
  <1>7. ASSUME NEW q \in Ops PROVE LeaseOK(q)'
    <2>1. CASE q = o
      BY <1>1, <1>4, <1>6, <2>1 DEF LeaseOK, Locked
    <2>2. CASE q # o
      <3>1. Project(q) \in Projects
        BY ProjectType
      <3> QED BY <1>1, <1>4, <1>5, <2>2, <3>1 DEF LockInv, LeaseOK, Project
    <2> QED BY <2>1, <2>2
  <1>8. ASSUME NEW r \in Projects, held'[r] # NoOp
        PROVE  /\ mem[held'[r]].spec.project = r
               /\ \/ mem[held'[r]].status \in ActiveStatuses /\ (lease[held'[r]] \/ pc'[held'[r]] = "leased")
                  \/ mem[held'[r]].status \in TerminalStatuses /\ pc'[held'[r]] = "release"
    <2>1. r # p /\ held'[r] = held[r] /\ held[r] \in Ops
      BY <1>2, <1>4, <1>8
    <2>2. /\ mem[held[r]].spec.project = r
          /\ \/ mem[held[r]].status \in ActiveStatuses /\ (lease[held[r]] \/ pc[held[r]] = "leased")
             \/ mem[held[r]].status \in TerminalStatuses /\ pc[held[r]] = "release"
      BY <1>8, <2>1 DEF LockInv, NoLockLeak, Project, Active, Terminal
    <2>3. held[r] # o
      BY <2>1, <2>2 DEF Project, p
    <2> QED BY <1>4, <2>1, <2>2, <2>3
  <1>9. ASSUME NEW q \in Ops, lease[q] PROVE held'[Project(q)] = q
    <2>1. held[Project(q)] = q /\ Project(q) \in Projects
      BY <1>9, ProjectType DEF LockInv, NoLockLeak
    <2>2. q # o
      BY <1>6, <1>9
    <2> QED BY <1>4, <1>5, <2>1, <2>2
  <1> QED BY <1>1, <1>7, <1>8, <1>9 DEF LockInv, NoLockLeak, Project, Active, Terminal

(* A terminal transition surrenders the lease and goes on to release it.    *)
LEMMA LockFinish ==
  ASSUME Core, LockInv, NEW o \in Ops, Succeed(o) \/ Fail(o) \/ CancelTerminal(o) \/ Reject(o)
  PROVE  LockInv'
  <1>1. PICK next \in TerminalStatuses : FinishStep(o, next)
    BY RunnerFinishes
  <1>2. pc[o] \in {"succeed", "fail", "cancel", "reject"} /\ pc[o] \in Unfinished
    BY RunnerFinishes DEF Unfinished
  <1>3. /\ mem[o].status \in ActiveStatuses /\ mem \in [Ops -> Record] /\ pc \in [Ops -> Locations]
        /\ lease \in [Ops -> BOOLEAN] /\ held \in [Projects -> Ops \cup {NoOp}]
    BY <1>2 DEF Core, TypeOK, RunnersMatchRecords
  <1>4. PICK u : u = Finished(o, next)
    OBVIOUS
  <1>5. u.status = next /\ u.spec = mem[o].spec
    BY <1>2, <1>4, FinishedRecord, SMT
  <1>6. held' = held /\ \A q \in Ops \ {o} : mem'[q] = mem[q] /\ lease'[q] = lease[q] /\ pc'[q] = pc[q]
    BY <1>1, <1>3, <1>4 DEF FinishStep, Saved, SaveFailed, Goto, storeVars
  <1>7. CASE Saved(o, u)
    <2>1. /\ mem'[o] = u /\ lease'[o] = FALSE
          /\ pc'[o] = IF lease[o] THEN "release" ELSE "index"
      <3>1. mem'[o] = u
        BY <1>3, <1>7 DEF Saved
      <3>2. u # mem[o]
        BY <1>3, <1>5 DEF ActiveStatuses, TerminalStatuses
      <3>3. ~(SaveFailed(o, Finished(o, next)) \/ UNCHANGED storeVars)
        BY <3>1, <3>2 DEF SaveFailed, storeVars
      <3> QED BY <1>1, <1>3, <3>1, <3>3 DEF FinishStep, Goto
    <2>2. ASSUME NEW q \in Ops PROVE LeaseOK(q)'
      <3>1. CASE q = o
        <4>1. lease[o] => held[Project(o)] = o
          BY DEF LockInv, NoLockLeak
        <4> QED BY <1>5, <1>6, <2>1, <3>1, <4>1 DEF LeaseOK, Locked, Project
      <3>2. CASE q # o
        <4>1. LeaseOK(q)
          BY DEF LockInv
        <4> QED BY <1>6, <3>2, <4>1 DEF LeaseOK, Project
      <3> QED BY <3>1, <3>2
    <2>3. ASSUME NEW r \in Projects, held[r] # NoOp
          PROVE  /\ mem'[held[r]].spec.project = r
                 /\ \/ mem'[held[r]].status \in ActiveStatuses /\ (lease'[held[r]] \/ pc'[held[r]] = "leased")
                    \/ mem'[held[r]].status \in TerminalStatuses /\ pc'[held[r]] = "release"
      <3>1. held[r] \in Ops
        BY <1>3, <2>3
      <3>2. /\ mem[held[r]].spec.project = r
            /\ \/ mem[held[r]].status \in ActiveStatuses /\ (lease[held[r]] \/ pc[held[r]] = "leased")
               \/ mem[held[r]].status \in TerminalStatuses /\ pc[held[r]] = "release"
        BY <2>3, <3>1 DEF LockInv, NoLockLeak, Project, Active, Terminal
      <3> QED BY <1>2, <1>5, <1>6, <2>1, <3>1, <3>2
    <2>4. ASSUME NEW q \in Ops, lease'[q] PROVE held[mem'[q].spec.project] = q
      BY <1>6, <2>1, <2>4, SMT DEF LockInv, NoLockLeak, Project
    <2> QED BY <1>6, <2>2, <2>3, <2>4 DEF LockInv, NoLockLeak, Project, Active, Terminal
  <1>8. CASE ~Saved(o, u)
    <2>1. mem' = mem /\ lease' = lease /\ pc'[o] = "none"
      BY <1>1, <1>3, <1>4, <1>8 DEF FinishStep, SaveFailed, Goto, storeVars
    <2>2. LockFrame
      BY <1>2, <1>6, <2>1 DEF LockFrame, lockVars, LockInv, LeaseOK, Locked
    <2> QED BY <2>2, LockFrameKeeps
  <1> QED BY <1>7, <1>8

(* A process that ends holds no locks.                                      *)
LEMMA LockGone ==
  ASSUME Core, LockInv, Exit \/ Crash
  PROVE  LockInv'
  <1>1. \E d : Gone(d)
    BY DEF Exit, Crash
  <1>2. /\ \A p \in Projects : held'[p] = NoOp
        /\ \A q \in Ops : lease'[q] = FALSE /\ pc'[q] = "none"
    BY <1>1 DEF Gone
  <1> QED BY <1>2 DEF LockInv, NoLockLeak, LeaseOK, Locked

(* LockInv is inductive, given the core invariant.                          *)
LEMMA LockNext == Core /\ LockInv /\ [Next]_vars => LockInv'
  <1> SUFFICES ASSUME Core, LockInv, [Next]_vars PROVE LockInv'
    OBVIOUS
  <1>1. CASE UNCHANGED vars
    BY <1>1 DEF vars, storeVars, lockVars, LockInv, NoLockLeak, LeaseOK, Project, Active, Terminal
  <1>2. CASE \E o \in Ops, spec \in Specs : StartOperation(o, spec)
    BY <1>2, LockStart, LockFrameKeeps
  <1>3. CASE \E o \in Ops : Runner(o)
    BY <1>3, LockQuietRunner, LockWrites, LockDrops, LockFrameKeeps, LockAcquire, LockAttach,
       LockRelease, LockFinish DEF Runner
  <1>4. CASE \E o \in Ops : Cancel(o) \/ ShutdownCancel(o) \/ AdvanceProgress(o)
    BY <1>4, LockWrites, LockFrameKeeps
  <1>5. CASE \E o \in Ops : AuditFault(o) \/ ReplayOne(o)
    BY <1>5, LockQuietRunner, LockFrameKeeps
  <1>6. CASE Get \/ ReclaimExpiredForDiskPressure \/ Recovered
    BY <1>6, LockDrops, LockFrameKeeps
  <1>7. CASE \/ Tick \/ Load \/ StartupDone \/ Shutdown \/ ShutdownWait \/ Drain \/ DrainPassDone
             \/ ShutdownExpires \/ \E o \in Ops : RecoverInterrupted(o) \/ RecoverTerminal(o)
    BY <1>7, LockControl, LockFrameKeeps
  <1>8. CASE Exit \/ Crash
    BY <1>8, LockGone
  <1> QED BY <1>1, <1>2, <1>3, <1>4, <1>5, <1>6, <1>7, <1>8 DEF Next, Startup, ShutdownWork

(* LockInv holds at the start.                                              *)
LEMMA LockInit == Init => LockInv
  <1> SUFFICES ASSUME Init PROVE LockInv
    OBVIOUS
  <1>1. /\ \A p \in Projects : held[p] = NoOp
        /\ \A q \in Ops : lease[q] = FALSE /\ pc[q] = "none"
    BY DEF Init
  <1> QED BY <1>1 DEF LockInv, NoLockLeak, LeaseOK, Locked

(* No project lock leaks (LockManager, attachLease, finishLocked, Release): *)
(* a held lock always belongs to an unfinished operation that owns or is    *)
(* about to own the lease, or to a runner that is just releasing it.        *)
THEOREM LocksDoNotLeak == Spec => []NoLockLeak
  <1>1. LockInv => NoLockLeak
    BY DEF LockInv
  <1> QED BY <1>1, CoreInit, CoreNext, LockInit, LockNext, PTL DEF Spec

(* Two operations of one project are never at work together.                *)
THEOREM WorkIsExclusive == Spec => []MutualExclusion
  <1>1. LockInv => MutualExclusion
    BY DEF LockInv, NoLockLeak, LeaseOK, MutualExclusion, Locked
  <1> QED BY <1>1, CoreInit, CoreNext, LockInit, LockNext, PTL DEF Spec

-----------------------------------------------------------------------------
(* Cancel against commit.                                                   *)
Undivided(r) ==
    cancelModeForType(r.spec.type) = "BEFORE_COMMIT" =>
        /\ r.commit => ~r.cancel
        /\ r.commit => r.status # "canceled"

(* CommitExcludesCancel is a statement about each record.                   *)
LEMMA CommitParts == CommitExcludesCancel <=> \A o \in Ops : Undivided(mem[o]) /\ Undivided(disk[o])
  BY DEF CommitExcludesCancel, Undivided

(* Every record a step writes keeps the exclusion.                          *)
LEMMA CommitNext == Core /\ CommitExcludesCancel /\ [Next]_vars => CommitExcludesCancel'
  <1> SUFFICES ASSUME Core, CommitExcludesCancel, [Next]_vars
               PROVE  \A q \in Ops : Undivided(mem'[q]) /\ Undivided(disk'[q])
    BY DEF CommitExcludesCancel, Undivided
  <1> USE DEF storeVars
  <1>0. /\ \A q \in Ops : Undivided(mem[q]) /\ Undivided(disk[q])
        /\ Undivided(Absent) /\ StoreOK
    BY CommitParts, AbsentRecord DEF Undivided, Core, TypeOK, StoreOK
  <1>a. ASSUME NEW o \in Ops, NEW u \in Record, validateRecord(u), Undivided(u),
               Saved(o, u) \/ SaveFailed(o, u) \/ UNCHANGED storeVars
        PROVE  \A q \in Ops : Undivided(mem'[q]) /\ Undivided(disk'[q])
    <2>1. CASE Saved(o, u)
      BY <1>0, <1>a, <2>1, SavedStore, SMT
    <2>2. CASE SaveFailed(o, u)
      BY <1>0, <1>a, <2>2, SaveFailedStore
    <2>3. CASE UNCHANGED storeVars
      BY <1>0, <2>3
    <2> QED BY <1>a, <2>1, <2>2, <2>3
  <1>1. CASE UNCHANGED <<mem, disk>>
    BY <1>0, <1>1
  <1>2. CASE \E o \in Ops, spec \in Specs : StartOperation(o, spec)
    <2>1. PICK o \in Ops, spec \in Specs : StartOperation(o, spec)
      BY <1>2
    <2>2. Undivided(newOperation(spec))
      BY NewRecord DEF Undivided
    <2>3. \A q \in Ops : /\ mem'[q] \in {mem[q], Absent, newOperation(spec)}
                         /\ disk'[q] \in {disk[q], Absent, newOperation(spec)}
      BY <2>1, StartDrops, SMT
    <2> QED BY <1>0, <2>2, <2>3
  <1>3. CASE \E o \in Ops : \/ Dispatch(o) \/ Run(o) \/ Prepare(o) \/ EnterCommit(o)
                            \/ AdvanceProgress(o) \/ Finalize(o)
    <2>1. PICK o \in Ops : \/ Dispatch(o) \/ Run(o) \/ Prepare(o) \/ EnterCommit(o)
                           \/ AdvanceProgress(o) \/ Finalize(o)
      BY <1>3
    <2>2. PICK u : KeptBy(mem[o], u) /\ UpdateStep(o, u)
      BY <2>1, RunnerUpdates
    <2>3. Undivided(u)
      BY <1>0, <2>2 DEF Undivided, KeptBy, ActiveStatuses
    <2> QED BY <1>a, <2>2, <2>3 DEF UpdateStep, KeptBy
  <1>4. CASE \E o \in Ops : Succeed(o) \/ Fail(o) \/ CancelTerminal(o) \/ Reject(o)
    <2>1. PICK o \in Ops : Succeed(o) \/ Fail(o) \/ CancelTerminal(o) \/ Reject(o)
      BY <1>4
    <2>2. PICK next \in TerminalStatuses :
              FinishStep(o, next) /\ (next = "canceled" => mem[o].cancel \/ UNCHANGED storeVars)
      BY <2>1, RunnerFinishes
    <2>3. PICK u : u = Finished(o, next)
      OBVIOUS
    <2>4. pc[o] \in Unfinished
      BY <2>1, RunnerFinishes DEF Unfinished
    <2>5. /\ u \in Record /\ validateRecord(u) /\ u.status = next /\ u.spec = mem[o].spec
          /\ u.cancel = mem[o].cancel /\ u.commit = mem[o].commit
      BY <2>3, <2>4, FinishedRecord, SMT
    <2>6. CASE UNCHANGED storeVars
      BY <1>0, <2>6
    <2>7. CASE ~UNCHANGED storeVars
      <3>1. Undivided(u)
        BY <1>0, <2>2, <2>5, <2>7 DEF Undivided
      <3>2. Saved(o, u) \/ SaveFailed(o, u)
        BY <2>2, <2>3, <2>7 DEF FinishStep
      <3> QED BY <1>a, <2>5, <3>1, <3>2
    <2> QED BY <2>6, <2>7
  <1>5. CASE \E o \in Ops : MarkDelivered(o)
    <2>1. PICK o \in Ops : MarkDelivered(o)
      BY <1>5
    <2>2. PICK u : u = [mem[o] EXCEPT !.delivery = "DELIVERED"]
      OBVIOUS
    <2>3. /\ u \in Record /\ validateRecord(u) /\ u.status = mem[o].status /\ u.spec = mem[o].spec
          /\ u.cancel = mem[o].cancel /\ u.commit = mem[o].commit
      <3>1. mem[o] \in Record /\ validateRecord(mem[o]) /\ mem[o].delivery = "PENDING"
        BY <2>1 DEF MarkDelivered, Core, TypeOK, RunnersMatchRecords, Outbox
      <3> QED BY <2>2, <3>1, DeliveredUpdate
    <2>4. Undivided(u)
      BY <1>0, <2>3 DEF Undivided
    <2> QED BY <1>a, <2>1, <2>2, <2>3, <2>4 DEF MarkDelivered
  <1>6. CASE \E o \in Ops : Cancel(o) \/ ShutdownCancel(o)
    <2>1. PICK o \in Ops : Cancel(o) \/ ShutdownCancel(o)
      BY <1>6
    <2>2. PICK u : u = [mem[o] EXCEPT !.cancel = TRUE, !.rev = @ + 1]
      OBVIOUS
    <2>3. CASE UNCHANGED storeVars
      BY <1>0, <2>3
    <2>4. CASE CancelAccepted(o) /\ (Saved(o, u) \/ SaveFailed(o, u))
      <3>1. /\ u \in Record /\ validateRecord(u) /\ u.status = mem[o].status /\ u.spec = mem[o].spec
            /\ u.commit = mem[o].commit /\ mem[o].status \in ActiveStatuses
            /\ cancelModeForType(mem[o].spec.type) = "BEFORE_COMMIT" => ~mem[o].commit
        BY <2>2, <2>4, CanceledRecord
      <3>2. Undivided(u)
        BY <3>1 DEF Undivided
      <3> QED BY <1>a, <2>4, <3>1, <3>2
    <2> QED BY <2>1, <2>2, <2>3, <2>4 DEF Cancel, ShutdownCancel, CancelWithError
  <1>7. CASE Get \/ ReclaimExpiredForDiskPressure \/ Recovered \/ \E o \in Ops : OnTerminal(o)
    <2>1. Drops
      BY <1>7, RetentionDrops
    <2> QED BY <1>0, <2>1 DEF Drops
  <1>8. CASE \E o \in Ops : RecoverInterrupted(o)
    <2>1. PICK o \in Ops : RecoverInterrupted(o)
      BY <1>8
    <2>2. PICK u : u = [disk[o] EXCEPT !.status = "interrupted", !.rev = @ + 1, !.fin = clock + 1,
                                       !.delivery = "PENDING"]
      OBVIOUS
    <2>3. /\ u \in Record /\ validateRecord(u) /\ u.status = "interrupted" /\ u.spec = disk[o].spec
          /\ u.cancel = disk[o].cancel /\ u.commit = disk[o].commit
      BY <2>1, <2>2, InterruptedRecord DEF RecoverInterrupted
    <2>4. Undivided(u)
      BY <1>0, <2>3 DEF Undivided
    <2>5. Saved(o, u) \/ SaveFailed(o, u)
      BY <2>1, <2>2 DEF RecoverInterrupted
    <2> QED BY <1>a, <2>3, <2>4, <2>5
  <1>9. CASE \E o \in Ops : RecoverTerminal(o)
    BY <1>0, <1>9 DEF RecoverTerminal, StoreOK
  <1>10. CASE Exit \/ Crash
    BY <1>0, <1>10, SMT DEF Exit, Crash, Gone, Synced, StoreOK
  <1> USE DEF OnlyRunner, OnlyControl
  <1>11. CASE \/ \E o \in Ops : \/ AttachExecutionCancel(o) \/ Acquire(o) \/ AcquireFails(o) \/ Refused(o)
                                \/ attachLease(o) \/ AdmitOperation(o) \/ WorkReturns(o)
                                \/ FinishCanceledOrFailed(o) \/ Release(o) \/ ReserveReceipt(o)
                                \/ AppendRecord(o) \/ StampReceipt(o) \/ ConfirmTerminal(o)
                                \/ AuditFault(o) \/ ReplayOne(o)
              \/ Tick \/ Load \/ StartupDone \/ Shutdown \/ ShutdownWait \/ Drain \/ DrainPassDone
              \/ ShutdownExpires \/ UNCHANGED vars
    <2>1. UNCHANGED <<mem, disk>>
      BY <1>11 DEF AttachExecutionCancel, Acquire, AcquireFails, Refused, attachLease, AdmitOperation,
           WorkReturns, FinishCanceledOrFailed, Release, ReserveReceipt, AppendRecord, StampReceipt,
           ConfirmTerminal, AuditFault, ReplayOne, Tick, Load, StartupDone, Shutdown, ShutdownWait,
           Drain, DrainPassDone, ShutdownExpires, vars
    <2> QED BY <1>1, <2>1
  <1> QED BY <1>2, <1>3, <1>4, <1>5, <1>6, <1>7, <1>8, <1>9, <1>10, <1>11
          DEF Next, Runner, Startup, ShutdownWork

(* The commit point and an accepted cancel exclude each other               *)
(* (EnterCommit, CancelWithError), in memory and in the journal.            *)
THEOREM CommitOrCancel == Spec => []CommitExcludesCancel
  <1>1. Init => CommitExcludesCancel
    BY AbsentRecord, SMT DEF Init, CommitExcludesCancel
  <1> QED BY <1>1, CoreInit, CoreNext, CommitNext, PTL DEF Spec

=============================================================================
