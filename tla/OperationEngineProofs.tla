------------------------ MODULE OperationEngineProofs ------------------------
(***************************************************************************)
(* Safety of the operation engine for every set of operations and          *)
(* projects, every result limit and every number of faults and crashes.    *)
(***************************************************************************)
EXTENDS OperationEngine, TLAPS

(* Most leaves are first-order; the ones that need arithmetic or updates    *)
(* of functions and records cite SMT.                                       *)
USE Zenon

(* A sequence has a length, and elements of its set at every position.      *)
LEMMA SeqFacts ==
  ASSUME NEW S, NEW seq \in Seq(S)
  PROVE  Len(seq) \in Nat /\ DOMAIN seq = 1..Len(seq) /\ \A i \in 1..Len(seq) : seq[i] \in S
  BY SMT

(* A result that finishes is listed after the others.                       *)
LEMMA AppendFacts ==
  ASSUME NEW S, NEW seq \in Seq(S), NEW elt \in S
  PROVE  /\ Append(seq, elt) \in Seq(S) /\ Len(Append(seq, elt)) = Len(seq) + 1
         /\ \A i \in 1..Len(seq) : Append(seq, elt)[i] = seq[i]
         /\ Append(seq, elt)[Len(seq) + 1] = elt
  BY SMT

(* What is left of the results when the first n are dropped.                *)
LEMMA SuffixFacts ==
  ASSUME NEW S, NEW seq \in Seq(S), NEW n \in 0..Len(seq)
  PROVE  /\ SubSeq(seq, n + 1, Len(seq)) \in Seq(S)
         /\ Len(SubSeq(seq, n + 1, Len(seq))) = Len(seq) - n
         /\ \A i \in 1..(Len(seq) - n) : SubSeq(seq, n + 1, Len(seq))[i] = seq[n + i]
  BY SMT

(* Where a runner has not yet recorded a terminal status, where it is past  *)
(* attachLease and has not failed, and where the terminal status is         *)
(* recorded but its audit not yet journaled as delivered.                   *)
Unfinished == {"accepted", "acquire", "refused", "leased", "dispatch", "admit", "run", "prepare",
               "work", "commit", "finish", "finalize", "succeed", "fail", "cancel", "reject"}
Locked == {"dispatch", "admit", "run", "prepare", "work", "commit", "finish", "finalize", "succeed"}
Outbox == {"release", "index", "deliver", "append", "stamp", "mark"}

(* A runner's location tells the state of its record; a terminal record has *)
(* an audit to deliver; results are listed once, and only when finished; a  *)
(* process that is still loading runs nothing.                              *)
RunnersMatchRecords ==
    \A o \in Ops : /\ pc[o] \in Unfinished => mem[o].status \in ActiveStatuses
                   /\ pc[o] \in Outbox => mem[o].delivery = "PENDING"

ResultsAreFinished ==
    /\ \A i \in 1..Len(results) : mem[results[i]].status \in TerminalStatuses
    /\ \A i, j \in 1..Len(results) : results[i] = results[j] => i = j
    /\ \A o \in Ops : pc[o] \in {"release", "index"} => \A i \in 1..Len(results) : results[i] # o

LoadingIsQuiet ==
    ctl \in {"down", "loading"} =>
        \A o \in Ops : pc[o] = "none" /\ ctx[o] = "unset" /\ mem[o].status \notin ActiveStatuses

(* The core of the inductive invariant.                                     *)
Core == TypeOK /\ RunnersMatchRecords /\ ResultsAreFinished /\ LoadingIsQuiet

-----------------------------------------------------------------------------
(* The record that stands for no entry is one validateRecord accepts.       *)
LEMMA AbsentRecord ==
  /\ Absent \in Record /\ validateRecord(Absent)
  /\ Absent.status = "absent" /\ Absent.delivery = "NONE"
  /\ Absent.cancel = FALSE /\ Absent.commit = FALSE
  <1>1. (CHOOSE s \in Specs : TRUE) \in Specs
    BY SpecsAssumption
  <1> QED BY <1>1, SMT DEF Absent, Record, validateRecord, TerminalStatuses

(* newOperation makes a record validateRecord accepts.                      *)
LEMMA NewRecord ==
  ASSUME NEW s \in Specs
  PROVE  /\ newOperation(s) \in Record /\ validateRecord(newOperation(s))
         /\ newOperation(s).status = "requested" /\ newOperation(s).delivery = "NONE"
         /\ newOperation(s).spec = s
         /\ newOperation(s).cancel = FALSE /\ newOperation(s).commit = FALSE
  <1>1. Absent.fin = 0
    BY DEF Absent
  <1>2. newOperation(s) \in Record
    BY AbsentRecord DEF newOperation, Record, ActiveStatuses
  <1> QED BY <1>1, <1>2, AbsentRecord, SMT DEF newOperation, Record, validateRecord, TerminalStatuses

(* What the journaled updates do to a valid record.                         *)
LEMMA StatusUpdate ==
  ASSUME NEW r \in Record, validateRecord(r), r.status \in ActiveStatuses,
         NEW u, \/ u = [r EXCEPT !.status = "dispatched", !.rev = @ + 1]
                \/ u = [r EXCEPT !.status = "running", !.rev = @ + 1]
  PROVE  /\ u \in Record /\ validateRecord(u) /\ u.status \in ActiveStatuses
         /\ u.delivery = r.delivery /\ u.spec = r.spec
         /\ u.cancel = r.cancel /\ u.commit = r.commit /\ u.phase = r.phase
         /\ u.rev = r.rev + 1
  <1>1. r.rev + 1 \in Nat
    BY SMT DEF Record
  <1>2. CASE u = [r EXCEPT !.status = "dispatched", !.rev = @ + 1]
    <2>1. u \in Record
      BY <1>1, <1>2 DEF Record, ActiveStatuses
    <2> QED BY <1>2, <2>1, SMT DEF Record, validateRecord, ActiveStatuses, TerminalStatuses
  <1>3. CASE u = [r EXCEPT !.status = "running", !.rev = @ + 1]
    <2>1. u \in Record
      BY <1>1, <1>3 DEF Record, ActiveStatuses
    <2> QED BY <1>3, <2>1, SMT DEF Record, validateRecord, ActiveStatuses, TerminalStatuses
  <1> QED BY <1>2, <1>3

(* AdvancePhase keeps a record valid.                                       *)
LEMMA PhaseUpdate ==
  ASSUME NEW r \in Record, validateRecord(r), r.status \in ActiveStatuses,
         NEW u, \/ u = [r EXCEPT !.phase = "EXECUTING", !.rev = @ + 1]
                \/ u = [r EXCEPT !.phase = "FINALIZING", !.rev = @ + 1]
  PROVE  /\ u \in Record /\ validateRecord(u) /\ u.status = r.status
         /\ u.delivery = r.delivery /\ u.spec = r.spec
         /\ u.cancel = r.cancel /\ u.commit = r.commit /\ u.rev = r.rev + 1
  <1>1. r.rev + 1 \in Nat
    BY SMT DEF Record
  <1>2. CASE u = [r EXCEPT !.phase = "EXECUTING", !.rev = @ + 1]
    <2>1. u \in Record
      BY <1>1, <1>2 DEF Record, ActiveStatuses
    <2> QED BY <1>2, <2>1, SMT DEF Record, validateRecord, ActiveStatuses, TerminalStatuses
  <1>3. CASE u = [r EXCEPT !.phase = "FINALIZING", !.rev = @ + 1]
    <2>1. u \in Record
      BY <1>1, <1>3 DEF Record, ActiveStatuses
    <2> QED BY <1>3, <2>1, SMT DEF Record, validateRecord, ActiveStatuses, TerminalStatuses
  <1> QED BY <1>2, <1>3

(* Marking the cancel request keeps a record valid.                         *)
LEMMA CancelUpdate ==
  ASSUME NEW r \in Record, validateRecord(r), r.status \in ActiveStatuses,
         NEW u, u = [r EXCEPT !.cancel = TRUE, !.rev = @ + 1]
  PROVE  /\ u \in Record /\ validateRecord(u) /\ u.status = r.status
         /\ u.delivery = r.delivery /\ u.spec = r.spec
         /\ u.cancel = TRUE /\ u.commit = r.commit /\ u.phase = r.phase
         /\ u.rev = r.rev + 1
  <1>1. r.rev + 1 \in Nat
    BY SMT DEF Record
  <1>2. u \in Record
    BY <1>1 DEF Record
  <1> QED BY <1>2, SMT DEF Record, validateRecord, ActiveStatuses, TerminalStatuses

(* Entering the commit keeps a record valid.                                *)
LEMMA CommitUpdate ==
  ASSUME NEW r \in Record, validateRecord(r), r.status \in ActiveStatuses,
         NEW u, u = [r EXCEPT !.phase = "COMMITTING", !.commit = TRUE, !.rev = @ + 1]
  PROVE  /\ u \in Record /\ validateRecord(u) /\ u.status = r.status
         /\ u.delivery = r.delivery /\ u.spec = r.spec
         /\ u.cancel = r.cancel /\ u.commit = TRUE /\ u.phase = "COMMITTING"
         /\ u.rev = r.rev + 1
  <1>1. r.rev + 1 \in Nat
    BY SMT DEF Record
  <1>2. u \in Record
    BY <1>1 DEF Record
  <1> QED BY <1>2, SMT DEF Record, validateRecord, ActiveStatuses, TerminalStatuses

(* AdvanceProgress keeps a record valid.                                    *)
LEMMA ProgressUpdate ==
  ASSUME NEW r \in Record, validateRecord(r), r.status \in ActiveStatuses,
         NEW u, u = [r EXCEPT !.rev = @ + 1]
  PROVE  /\ u \in Record /\ validateRecord(u) /\ u.status = r.status
         /\ u.delivery = r.delivery /\ u.spec = r.spec
         /\ u.cancel = r.cancel /\ u.commit = r.commit /\ u.phase = r.phase
         /\ u.rev = r.rev + 1
  <1>1. r.rev + 1 \in Nat
    BY SMT DEF Record
  <1>2. u \in Record
    BY <1>1 DEF Record
  <1> QED BY <1>2, SMT DEF Record, validateRecord, ActiveStatuses, TerminalStatuses

(* Marking the audit delivered keeps a terminal record valid.               *)
LEMMA DeliveredUpdate ==
  ASSUME NEW r \in Record, validateRecord(r), r.delivery = "PENDING",
         NEW u, u = [r EXCEPT !.delivery = "DELIVERED"]
  PROVE  /\ u \in Record /\ validateRecord(u) /\ u.status = r.status
         /\ u.delivery = "DELIVERED" /\ u.spec = r.spec
         /\ u.cancel = r.cancel /\ u.commit = r.commit /\ u.phase = r.phase
         /\ r.status \in TerminalStatuses
  BY DEF Record, validateRecord, ActiveStatuses, TerminalStatuses

-----------------------------------------------------------------------------
(* The part of TypeOK about the store.                                      *)
StoreOK ==
    /\ \A o \in Ops : validateRecord(mem[o]) /\ validateRecord(disk[o])
    /\ mem \in [Ops -> Record] /\ disk \in [Ops -> Record]
    /\ unlinked \in SUBSET Ops
    /\ faults \in [save : Nat, audit : Nat]

OtherTypes ==
    /\ results \in Seq(Ops)
    /\ evicted \in [Ops -> {"no", "retention", "pressure"}]
    /\ clock \in Nat /\ cutoff \in Nat
    /\ outcome \in [Ops -> TerminalStatuses \cup {"none"}]
    /\ held \in [Projects -> Ops \cup {NoOp}]
    /\ lease \in [Ops -> BOOLEAN]
    /\ ctl \in ControlLocations /\ todo \in SUBSET Ops /\ replayErr \in BOOLEAN
    /\ receipt \in [Ops -> {"none", "reserved", "stamped"}]
    /\ audited \in [Ops -> Nat]
    /\ ctx \in [Ops -> {"unset", "live", "done"}]
    /\ pc \in [Ops -> Locations]
    /\ crashes \in Nat

(* TypeOK splits into what the journal writes and the rest.                 *)
LEMMA TypeParts == TypeOK <=> StoreOK /\ OtherTypes
  BY DEF TypeOK, StoreOK, OtherTypes

(* A successful Journal.Save of a valid record keeps the store valid.       *)
LEMMA SavedStore ==
  ASSUME StoreOK, NEW o \in Ops, NEW r \in Record, validateRecord(r), Saved(o, r)
  PROVE  /\ StoreOK'
         /\ mem' = [mem EXCEPT ![o] = r] /\ mem'[o] = r /\ disk'[o] = r
         /\ \A q \in Ops : q # o => mem'[q] = mem[q] /\ disk'[q] \in {disk[q], Absent}
  <1>1. Synced(disk) \in [Ops -> Record] /\ \A q \in Ops : Synced(disk)[q] \in {disk[q], Absent}
    BY AbsentRecord DEF Synced, StoreOK
  <1>2. /\ mem' \in [Ops -> Record] /\ mem'[o] = r
        /\ \A q \in Ops : q # o => mem'[q] = mem[q]
    BY DEF Saved, StoreOK
  <1>3. /\ disk' \in [Ops -> Record] /\ disk'[o] = r
        /\ \A q \in Ops : q # o => disk'[q] \in {disk[q], Absent}
    BY <1>1 DEF Saved
  <1>4. \A q \in Ops : validateRecord(mem'[q]) /\ validateRecord(disk'[q])
    BY <1>2, <1>3, AbsentRecord DEF StoreOK
  <1> QED BY <1>2, <1>3, <1>4 DEF Saved, StoreOK

(* A failed Journal.Save leaves memory alone and the journal with the old   *)
(* or the new record.                                                       *)
LEMMA SaveFailedStore ==
  ASSUME StoreOK, NEW o \in Ops, NEW r \in Record, validateRecord(r), SaveFailed(o, r)
  PROVE  /\ StoreOK' /\ mem' = mem
         /\ disk'[o] \in {disk[o], r} /\ \A q \in Ops : q # o => disk'[q] = disk[q]
  <1>1. faults' \in [save : Nat, audit : Nat]
    BY SMT DEF SaveFailed, StoreOK
  <1>2. /\ disk' \in [Ops -> Record] /\ disk'[o] \in {disk[o], r}
        /\ \A q \in Ops : q # o => disk'[q] = disk[q]
    BY DEF SaveFailed, StoreOK
  <1>3. \A q \in Ops : validateRecord(disk'[q])
    BY <1>2 DEF StoreOK
  <1> QED BY <1>1, <1>2, <1>3 DEF SaveFailed, StoreOK

(* Retention drops only listed results whose audit is not pending, and      *)
(* keeps the rest in order.                                                 *)
Distinct(s) == \A i, j \in 1..Len(s) : s[i] = s[j] => i = j

CleanedUp(st, res) ==
    /\ st.mem \in [Ops -> Record] /\ st.disk \in [Ops -> Record]
    /\ \A o \in Ops : validateRecord(st.mem[o]) /\ validateRecord(st.disk[o])
    /\ st.unlinked \in SUBSET Ops /\ st.faults \in [save : Nat, audit : Nat]
    /\ st.evicted \in [Ops -> {"no", "retention", "pressure"}]
    /\ \A o \in Ops : \/ st.mem[o] = mem[o] /\ st.evicted[o] = evicted[o]
                      \/ /\ st.mem[o] = Absent /\ mem[o].delivery # "PENDING"
                         /\ \E i \in 1..Len(res) : res[i] = o
    /\ \A o \in Ops : st.disk[o] \in {disk[o], Absent}
    /\ \A o \in Ops : st.disk[o] # disk[o] \/ o \in st.unlinked =>
          \/ o \in unlinked
          \/ mem[o].delivery # "PENDING" /\ \E i \in 1..Len(res) : res[i] = o
    /\ st.results \in Seq(Ops) /\ Distinct(st.results)
    /\ \A k \in 1..Len(res) : \/ st.mem[res[k]] = Absent
                              \/ \E i \in 1..Len(st.results) : st.results[i] = res[k]
    /\ \A i \in 1..Len(st.results) :
          /\ st.mem[st.results[i]] = mem[st.results[i]]
          /\ \E k \in 1..Len(res) : res[k] = st.results[i]

(* A retention pass that drops the first n results, ended or not by a       *)
(* failing deletion, leaves a store as CleanedUp says.                      *)
LEMMA DeletionStore ==
  ASSUME StoreOK, evicted \in [Ops -> {"no", "retention", "pressure"}],
         NEW res \in Seq(Ops), Distinct(res),
         NEW n \in 0..Len(res), NEW fault \in {"none", "remove", "sync"},
         fault # "none" => n < Len(res) /\ Evictable(res, n + 1),
         \A i \in 1..n : Evictable(res, i),
         NEW st, st = Deletion(res, n, fault)
  PROVE  CleanedUp(st, res)
  <1> DEFINE dropped == {res[i] : i \in 1..n}
             synced == ~(dropped \subseteq unlinked)
  <1>1. /\ st.mem = [o \in Ops |-> IF o \in dropped THEN Absent ELSE mem[o]]
        /\ st.disk = [o \in Ops |-> IF synced /\ o \in dropped \cup unlinked THEN Absent ELSE disk[o]]
        /\ st.unlinked = (IF synced THEN {} ELSE unlinked)
                            \cup (IF fault = "sync" THEN {res[n + 1]} ELSE {})
        /\ st.faults = IF fault = "none" THEN faults ELSE [faults EXCEPT !.save = @ + 1]
        /\ st.results = SubSeq(res, n + 1, Len(res))
        /\ st.evicted = [o \in Ops |-> IF o \in dropped THEN "retention" ELSE evicted[o]]
    BY DEF Deletion
  <1>2. Len(res) \in Nat /\ \A i \in 1..Len(res) : res[i] \in Ops
    BY SeqFacts
  <1>3. /\ st.mem \in [Ops -> Record] /\ st.disk \in [Ops -> Record]
        /\ \A o \in Ops : st.mem[o] \in {mem[o], Absent} /\ st.disk[o] \in {disk[o], Absent}
    BY <1>1, AbsentRecord, SMT DEF StoreOK
  <1>4. \A o \in Ops : validateRecord(st.mem[o]) /\ validateRecord(st.disk[o])
    BY <1>3, AbsentRecord DEF StoreOK
  <1>5. st.unlinked \in SUBSET Ops
    BY <1>1, <1>2, SMT DEF StoreOK
  <1>6. st.faults \in [save : Nat, audit : Nat]
    BY <1>1, SMT DEF StoreOK
  <1>7. st.evicted \in [Ops -> {"no", "retention", "pressure"}]
    BY <1>1
  <1>8. ASSUME NEW o \in Ops
        PROVE  \/ st.mem[o] = mem[o] /\ st.evicted[o] = evicted[o]
               \/ /\ st.mem[o] = Absent /\ mem[o].delivery # "PENDING"
                  /\ \E i \in 1..Len(res) : res[i] = o
    BY <1>1, <1>2, SMT DEF Evictable
  <1>9. /\ st.results \in Seq(Ops) /\ Len(st.results) = Len(res) - n
        /\ \A i \in 1..Len(st.results) : st.results[i] = res[n + i]
    <2>1. \A i \in (n + 1)..Len(res) : res[i] \in Ops
      BY <1>2, SMT
    <2> QED BY <1>1, <1>2, <2>1, SuffixFacts, SMT
  <1>10. Distinct(st.results)
    <2> SUFFICES ASSUME NEW i \in 1..Len(st.results), NEW j \in 1..Len(st.results), st.results[i] = st.results[j]
                 PROVE  i = j
      BY <1>9, SeqFacts DEF Distinct
    <2>1. n + i \in 1..Len(res) /\ n + j \in 1..Len(res) /\ res[n + i] = res[n + j]
      BY <1>2, <1>9, SMTT(20)
    <2>2. n + i = n + j
      BY <2>1 DEF Distinct
    <2> QED BY <2>2, SMT
  <1>11. ASSUME NEW i \in 1..Len(st.results)
         PROVE  /\ st.mem[st.results[i]] = mem[st.results[i]]
                /\ \E k \in 1..Len(res) : res[k] = st.results[i]
    <2>1. n + i \in 1..Len(res) /\ st.results[i] = res[n + i] /\ res[n + i] \in Ops
      BY <1>2, <1>9, SMT
    <2>2. res[n + i] \notin dropped
      BY <1>2, <2>1, SMT DEF Distinct
    <2> QED BY <1>1, <2>1, <2>2
  <1>12. ASSUME NEW o \in Ops, st.disk[o] # disk[o] \/ o \in st.unlinked
         PROVE  \/ o \in unlinked
                \/ mem[o].delivery # "PENDING" /\ \E i \in 1..Len(res) : res[i] = o
    <2>1. o \in dropped => mem[o].delivery # "PENDING" /\ \E i \in 1..Len(res) : res[i] = o
      BY <1>2, SMT DEF Evictable
    <2>2. fault = "sync" => n + 1 \in 1..Len(res) /\ mem[res[n + 1]].delivery # "PENDING"
      BY <1>2, SMT DEF Evictable
    <2> QED BY <1>1, <1>12, <2>1, <2>2
  <1>13. ASSUME NEW k \in 1..Len(res)
         PROVE  \/ st.mem[res[k]] = Absent
                \/ \E i \in 1..Len(st.results) : st.results[i] = res[k]
    <2>1. CASE k <= n
      <3>1. res[k] \in dropped /\ res[k] \in Ops
        BY <1>2, <2>1, SMT
      <3> QED BY <1>1, <3>1
    <2>2. CASE k > n
      <3>1. k - n \in 1..Len(st.results) /\ n + (k - n) = k
        BY <1>2, <1>9, <2>2, SMT
      <3> QED BY <1>9, <3>1
    <2> QED BY <1>2, <2>1, <2>2, SMT
  <1> QED BY <1>3, <1>4, <1>5, <1>6, <1>7, <1>8, <1>9, <1>10, <1>11, <1>12, <1>13 DEF CleanedUp

(* So does every outcome of cleanupLocked.                                  *)
LEMMA CleanupStore ==
  ASSUME StoreOK, evicted \in [Ops -> {"no", "retention", "pressure"}],
         NEW res \in Seq(Ops), Distinct(res), NEW st \in cleanupLocked(res)
  PROVE  CleanedUp(st, res)
  <1>1. Len(res) \in Nat
    BY SeqFacts
  <1>2. \E n \in 0..Len(res), fault \in {"none", "remove", "sync"} :
            /\ fault # "none" => n < Len(res) /\ Evictable(res, n + 1)
            /\ \A i \in 1..n : Evictable(res, i)
            /\ st = Deletion(res, n, fault)
    <2>1. CASE st \in {Deletion(res, n, "none") : n \in {n \in 0..Len(res) :
                          /\ \A i \in 1..n : Evictable(res, i)
                          /\ n < Len(res) => ~Evictable(res, n + 1)}}
      BY <2>1
    <2>2. CASE st \in {Deletion(res, n, fault) : n \in {n \in 0..(Len(res) - 1) :
                          /\ faults.save < MaxSaveFaults
                          /\ \A i \in 1..(n + 1) : Evictable(res, i)},
                          fault \in {"remove", "sync"}}
      <3>1. PICK n \in 0..(Len(res) - 1), fault \in {"remove", "sync"} :
                (\A i \in 1..(n + 1) : Evictable(res, i)) /\ st = Deletion(res, n, fault)
        BY <2>2, SMT
      <3>2. n \in 0..Len(res) /\ n < Len(res) /\ n + 1 \in 1..(n + 1) /\ \A i \in 1..n : i \in 1..(n + 1)
        BY <1>1, SMT
      <3> QED BY <3>1, <3>2
    <2> QED BY <2>1, <2>2, SMT DEF cleanupLocked
  <1> QED BY <1>2, DeletionStore

(* An enumeration of a set of operations is a sequence without repetition.  *)
LEMMA EnumerationSeq ==
  ASSUME NEW S \in SUBSET Ops, NEW s \in Enumerations(S)
  PROVE  /\ s \in Seq(S) /\ Distinct(s) /\ \A i \in 1..Len(s) : s[i] \in S
         /\ \A x \in S : \E i \in 1..Len(s) : s[i] = x
  <1>1. Cardinality(S) \in Nat
    BY OpsAssumption
  <1>2. s \in [1..Cardinality(S) -> S]
    BY DEF Enumerations
  <1>3. s \in Seq(S) /\ Len(s) = Cardinality(S)
    BY <1>1, <1>2, SMT
  <1> QED BY <1>2, <1>3 DEF Enumerations, Distinct

-----------------------------------------------------------------------------
(* Initiation and consecution of the core.                                  *)

(* The core invariant holds at the start.                                   *)
LEMMA CoreInit == Init => Core
  <1> SUFFICES ASSUME Init PROVE Core
    OBVIOUS
  <1>1. TypeOK
    <2>1. StoreOK
      BY AbsentRecord DEF Init, StoreOK
    <2>2. OtherTypes
      <3>1. lease \in [Ops -> BOOLEAN] /\ replayErr \in BOOLEAN
        BY Zenon DEF Init
      <3> QED BY <3>1, SMT DEF Init, OtherTypes, Locations, ControlLocations
    <2> QED BY <2>1, <2>2, TypeParts
  <1>2. RunnersMatchRecords /\ ResultsAreFinished /\ LoadingIsQuiet
    BY AbsentRecord, SMT DEF Init, RunnersMatchRecords, ResultsAreFinished, LoadingIsQuiet,
                        Unfinished, Outbox, ActiveStatuses
  <1> QED BY <1>1, <1>2 DEF Core

(* Steps of a runner that touch neither the store nor the results.          *)
LEMMA CoreQuietRunner ==
  ASSUME Core, NEW o \in Ops,
         \/ AttachExecutionCancel(o) \/ Acquire(o) \/ AcquireFails(o) \/ Refused(o) \/ attachLease(o)
         \/ AdmitOperation(o) \/ WorkReturns(o) \/ FinishCanceledOrFailed(o) \/ Release(o)
         \/ ReserveReceipt(o) \/ AppendRecord(o) \/ StampReceipt(o) \/ ConfirmTerminal(o)
  PROVE  Core'
  <1> USE DEF RunnerStep, OnlyRunner, Goto, storeVars, resultVars, finishVars, lockVars, ctlVars,
              auditVars
  <1> DEFINE Step(S, T) == /\ pc[o] \in S /\ \E l \in T : pc' = [pc EXCEPT ![o] = l]
                           /\ UNCHANGED <<storeVars, resultVars, finishVars, ctl, crashes>>
  <1>1. \/ Step(Unfinished, Unfinished) \/ Step({"release"}, {"index"})
        \/ Step(Outbox \ {"release", "index"}, Outbox \ {"release", "index"}) \/ Step({"confirm"}, {"none"})
    BY DEF Unfinished, Outbox, AttachExecutionCancel, Acquire, AcquireFails, Refused, attachLease,
           AdmitOperation, WorkReturns, FinishCanceledOrFailed, Release, ReserveReceipt,
           AppendRecord, StampReceipt, ConfirmTerminal
  <1>2. /\ pc[o] # "none" /\ pc' \in [Ops -> Locations]
        /\ \A q \in Ops : q # o => pc'[q] = pc[q]
        /\ pc'[o] \in Unfinished => pc[o] \in Unfinished
        /\ pc'[o] \in Outbox => pc[o] \in Outbox
        /\ pc'[o] # "release" /\ (pc'[o] = "index" => pc[o] = "release")
    <2>1. PICK l : /\ pc' = [pc EXCEPT ![o] = l] /\ l \in Locations /\ pc[o] # "none"
                   /\ l \in Unfinished => pc[o] \in Unfinished
                   /\ l \in Outbox => pc[o] \in Outbox
                   /\ l # "release" /\ (l = "index" => pc[o] = "release")
      BY <1>1, SMT DEF Unfinished, Outbox, Locations
    <2>2. pc \in [Ops -> Locations]
      BY DEF Core, TypeOK
    <2> QED BY <2>1, <2>2
  <1>3. UNCHANGED <<storeVars, resultVars, finishVars, ctl, crashes>>
    BY <1>1
  <1>4. StoreOK'
    BY <1>3, TypeParts DEF StoreOK, Core
  <1>5. OtherTypes'
    <2>1. held' \in [Projects -> Ops \cup {NoOp}]
      <3>1. held \in [Projects -> Ops \cup {NoOp}]
        BY DEF Core, TypeOK
      <3>2. \/ \E x \in Ops \cup {NoOp} : held' = [held EXCEPT ![Project(o)] = x]
            \/ held' = [held EXCEPT ![Project(o)] = IF @ = o THEN NoOp ELSE @]
            \/ held' = held
        BY DEF AttachExecutionCancel, Acquire, AcquireFails, Refused, attachLease, AdmitOperation,
               WorkReturns, FinishCanceledOrFailed, Release, ReserveReceipt, AppendRecord,
               StampReceipt, ConfirmTerminal
      <3> QED BY <3>1, <3>2
    <2>4. /\ receipt' \in [Ops -> {"none", "reserved", "stamped"}]
          /\ audited' \in [Ops -> Nat]
      <3>1. receipt \in [Ops -> {"none", "reserved", "stamped"}] /\ audited \in [Ops -> Nat]
        BY DEF Core, TypeOK
      <3>2. \/ \E x \in {"none", "reserved", "stamped"} :
                  receipt' = [receipt EXCEPT ![o] = x] /\ UNCHANGED audited
            \/ audited' = [audited EXCEPT ![o] = @ + 1] /\ UNCHANGED receipt
            \/ UNCHANGED <<receipt, audited>>
        BY <3>1 DEF AttachExecutionCancel, Acquire, AcquireFails, Refused, attachLease, AdmitOperation,
               WorkReturns, FinishCanceledOrFailed, Release, ReserveReceipt, AppendRecord,
               StampReceipt, ConfirmTerminal
      <3> QED BY <3>1, <3>2, SMT
    <2>5. ctx' \in [Ops -> {"unset", "live", "done"}]
      BY DEF Core, TypeOK, AttachExecutionCancel, Acquire, AcquireFails, Refused, attachLease,
             AdmitOperation, WorkReturns, FinishCanceledOrFailed, Release, ReserveReceipt,
             AppendRecord, StampReceipt, ConfirmTerminal
    <2>2. lease' \in [Ops -> BOOLEAN]
      <3>1. \/ lease' = lease
            \/ lease' = [lease EXCEPT ![o] = TRUE]
            \/ lease' = [lease EXCEPT ![o] = FALSE]
        BY DEF AttachExecutionCancel, Acquire, AcquireFails, Refused, attachLease,
               AdmitOperation, WorkReturns, FinishCanceledOrFailed, Release, ReserveReceipt,
               AppendRecord, StampReceipt, ConfirmTerminal
      <3> QED BY <3>1 DEF Core, TypeOK
    <2>3. UNCHANGED <<todo, replayErr>>
      BY DEF Core, TypeOK, AttachExecutionCancel, Acquire, AcquireFails, Refused, attachLease,
             AdmitOperation, WorkReturns, FinishCanceledOrFailed, Release, ReserveReceipt,
             AppendRecord, StampReceipt, ConfirmTerminal
    <2> QED BY <1>2, <1>3, <2>1, <2>2, <2>3, <2>4, <2>5 DEF Core, TypeOK, OtherTypes
  <1>6. RunnersMatchRecords'
    BY <1>2, <1>3 DEF Core, RunnersMatchRecords
  <1>7. ResultsAreFinished'
    BY <1>2, <1>3 DEF Core, ResultsAreFinished
  <1>8. LoadingIsQuiet'
    BY <1>2, <1>3 DEF Core, LoadingIsQuiet
  <1> QED BY <1>4, <1>5, <1>6, <1>7, <1>8 DEF Core, TypeOK, StoreOK, OtherTypes

(* The journaled updates of a runner, with what they share: the operation   *)
(* stays unfinished, and a commit is entered only by an uncanceled one.     *)
UpdateStep(o, r) ==
    /\ \/ (Saved(o, r) \/ SaveFailed(o, r)) /\ r.rev = mem[o].rev + 1
       \/ UNCHANGED storeVars
    /\ pc[o] \in Locked /\ \E l \in Locked \cup {"reject", "fail", "none"} : Goto(o, l)
    /\ UNCHANGED <<resultVars, finishVars, lockVars, ctlVars, auditVars, ctx, crashes>>

KeptBy(r, u) ==
    /\ u \in Record /\ validateRecord(u)
    /\ u.status \in ActiveStatuses /\ u.delivery = "NONE"
    /\ u.spec = r.spec /\ u.cancel = r.cancel
    /\ u.commit => r.commit \/ ~r.cancel

(* What each step of a runner that saves its record does to it.             *)
LEMMA RunnerUpdates ==
  ASSUME Core, NEW o \in Ops,
         Dispatch(o) \/ Run(o) \/ Prepare(o) \/ EnterCommit(o) \/ AdvanceProgress(o) \/ Finalize(o)
  PROVE  \E u : KeptBy(mem[o], u) /\ UpdateStep(o, u)
  <1> DEFINE r == mem[o]
  <1>1. pc[o] \in Unfinished
    BY DEF Dispatch, Run, Prepare, EnterCommit, AdvanceProgress, Finalize, Unfinished
  <1>2. r \in Record /\ validateRecord(r) /\ r.status \in ActiveStatuses /\ r.delivery = "NONE"
    <2>1. r \in Record /\ validateRecord(r) /\ r.status \in ActiveStatuses
      BY <1>1 DEF Core, TypeOK, RunnersMatchRecords
    <2> QED BY <2>1 DEF validateRecord, ActiveStatuses, TerminalStatuses
  <1>3. KeptBy(r, r)
    BY <1>2 DEF KeptBy
  <1> HIDE DEF r
  <1> USE DEF Update, UpdateStep, Locked
  <1>4. CASE Dispatch(o)
    <2> DEFINE u == [r EXCEPT !.status = "dispatched", !.rev = @ + 1]
    <2>0. u = [r EXCEPT !.status = "dispatched", !.rev = @ + 1]
      OBVIOUS
    <2> HIDE DEF u
    <2>1. /\ u \in Record /\ validateRecord(u) /\ u.status \in ActiveStatuses
          /\ u.delivery = r.delivery /\ u.spec = r.spec /\ u.cancel = r.cancel
          /\ u.commit = r.commit /\ u.rev = r.rev + 1
      BY <2>0, <1>2, StatusUpdate, Zenon
    <2>2. KeptBy(r, u)
      BY <1>2, <2>1 DEF KeptBy
    <2> QED BY <1>4, <1>3, <2>0, <2>1, <2>2 DEF Dispatch, TransitionStatus, r
  <1>5. CASE Run(o)
    <2> DEFINE u == [r EXCEPT !.status = "running", !.rev = @ + 1]
    <2>0. u = [r EXCEPT !.status = "running", !.rev = @ + 1]
      OBVIOUS
    <2> HIDE DEF u
    <2>1. /\ u \in Record /\ validateRecord(u) /\ u.status \in ActiveStatuses
          /\ u.delivery = r.delivery /\ u.spec = r.spec /\ u.cancel = r.cancel
          /\ u.commit = r.commit /\ u.rev = r.rev + 1
      BY <2>0, <1>2, StatusUpdate, Zenon
    <2>2. KeptBy(r, u)
      BY <1>2, <2>1 DEF KeptBy
    <2> QED BY <1>5, <1>3, <2>0, <2>1, <2>2 DEF Run, TransitionStatus, r
  <1>6. CASE Prepare(o)
    <2> DEFINE u == [r EXCEPT !.phase = "EXECUTING", !.rev = @ + 1]
    <2>0. u = [r EXCEPT !.phase = "EXECUTING", !.rev = @ + 1]
      OBVIOUS
    <2> HIDE DEF u
    <2>1. /\ u \in Record /\ validateRecord(u) /\ u.status = r.status
          /\ u.delivery = r.delivery /\ u.spec = r.spec /\ u.cancel = r.cancel
          /\ u.commit = r.commit /\ u.rev = r.rev + 1
      BY <2>0, <1>2, PhaseUpdate, Zenon
    <2>2. KeptBy(r, u)
      BY <1>2, <2>1 DEF KeptBy
    <2> QED BY <1>6, <1>3, <2>0, <2>1, <2>2 DEF Prepare, AdvancePhase, r
  <1>7. CASE EnterCommit(o)
    <2> DEFINE u == [r EXCEPT !.phase = "COMMITTING", !.commit = TRUE, !.rev = @ + 1]
    <2>0. u = [r EXCEPT !.phase = "COMMITTING", !.commit = TRUE, !.rev = @ + 1]
      OBVIOUS
    <2> HIDE DEF u
    <2>1. /\ u \in Record /\ validateRecord(u) /\ u.status = r.status
          /\ u.delivery = r.delivery /\ u.spec = r.spec /\ u.cancel = r.cancel
          /\ u.rev = r.rev + 1
      BY <2>0, <1>2, CommitUpdate, Zenon
    <2>2. ~r.cancel => KeptBy(r, u)
      BY <1>2, <2>1 DEF KeptBy
    <2> QED BY <1>7, <1>3, <2>0, <2>1, <2>2 DEF EnterCommit, EnterCommitLegal, r
  <1>8. CASE AdvanceProgress(o)
    <2> DEFINE u == [r EXCEPT !.rev = @ + 1]
    <2>0. u = [r EXCEPT !.rev = @ + 1]
      OBVIOUS
    <2> HIDE DEF u
    <2>1. /\ u \in Record /\ validateRecord(u) /\ u.status = r.status
          /\ u.delivery = r.delivery /\ u.spec = r.spec /\ u.cancel = r.cancel
          /\ u.commit = r.commit /\ u.rev = r.rev + 1
      BY <2>0, <1>2, ProgressUpdate, Zenon
    <2>2. KeptBy(r, u)
      BY <1>2, <2>1 DEF KeptBy
    <2> QED BY <1>8, <1>3, <2>0, <2>1, <2>2 DEF AdvanceProgress, r
  <1>9. CASE Finalize(o)
    <2> DEFINE u == [r EXCEPT !.phase = "FINALIZING", !.rev = @ + 1]
    <2>0. u = [r EXCEPT !.phase = "FINALIZING", !.rev = @ + 1]
      OBVIOUS
    <2> HIDE DEF u
    <2>1. /\ u \in Record /\ validateRecord(u) /\ u.status = r.status
          /\ u.delivery = r.delivery /\ u.spec = r.spec /\ u.cancel = r.cancel
          /\ u.commit = r.commit /\ u.rev = r.rev + 1
      BY <2>0, <1>2, PhaseUpdate, Zenon
    <2>2. KeptBy(r, u)
      BY <1>2, <2>1 DEF KeptBy
    <2> QED BY <1>9, <1>3, <2>0, <2>1, <2>2 DEF Finalize, AdvancePhase, r
  <1> QED BY <1>4, <1>5, <1>6, <1>7, <1>8, <1>9

(* The terminal transitions of a runner, with what they share.              *)
FinishStep(o, next) ==
    /\ \/ /\ Saved(o, Finished(o, next))
          /\ lease' = [lease EXCEPT ![o] = FALSE]
          /\ clock' = clock + 1
          /\ outcome' = [outcome EXCEPT ![o] = next]
          /\ Goto(o, IF lease[o] THEN "release" ELSE "index")
       \/ /\ SaveFailed(o, Finished(o, next)) \/ UNCHANGED storeVars
          /\ Goto(o, "none")
          /\ UNCHANGED <<lease, clock, outcome>>
    /\ UNCHANGED <<resultVars, held, cutoff, ctlVars, auditVars, ctx, crashes>>

(* What each step of a runner that finishes its operation does.             *)
LEMMA RunnerFinishes ==
  ASSUME NEW o \in Ops, Succeed(o) \/ Fail(o) \/ CancelTerminal(o) \/ Reject(o)
  PROVE  /\ pc[o] \in {"succeed", "fail", "cancel", "reject"}
         /\ \E next \in TerminalStatuses :
               FinishStep(o, next) /\ (next = "canceled" => mem[o].cancel \/ UNCHANGED storeVars)
  <1> USE DEF Finish, FinishStep, TerminalStatuses
  <1>1. CASE Succeed(o)
    BY <1>1 DEF Succeed
  <1>2. CASE Fail(o)
    BY <1>2 DEF Fail
  <1>3. CASE CancelTerminal(o)
    BY <1>3 DEF CancelTerminal
  <1>4. CASE Reject(o)
    BY <1>4 DEF Reject
  <1> QED BY <1>1, <1>2, <1>3, <1>4

(* finishLocked makes a valid terminal record with its audit pending.       *)
LEMMA FinishedRecord ==
  ASSUME Core, NEW o \in Ops, pc[o] \in Unfinished, NEW next \in TerminalStatuses,
         NEW u, u = Finished(o, next)
  PROVE  /\ u \in Record /\ validateRecord(u) /\ u.status = next
         /\ u.delivery = "PENDING" /\ u.spec = mem[o].spec
         /\ u.cancel = mem[o].cancel /\ u.commit = mem[o].commit /\ u.rev = mem[o].rev + 1
  <1>1. /\ mem[o] \in Record /\ validateRecord(mem[o]) /\ clock \in Nat
        /\ mem[o].status # "absent"
    BY DEF Core, TypeOK, RunnersMatchRecords, ActiveStatuses
  <1> DEFINE r == mem[o]
             t == clock
  <1> HIDE DEF r, t
  <1>2. u = [r EXCEPT !.status = next, !.rev = @ + 1, !.fin = t + 1, !.delivery = "PENDING"]
    BY DEF Finished, r, t
  <1>3. r \in Record /\ validateRecord(r) /\ t \in Nat /\ r.status # "absent"
    BY <1>1 DEF r, t
  <1>4. /\ u \in Record /\ validateRecord(u) /\ u.status = next
        /\ u.delivery = "PENDING" /\ u.spec = r.spec
        /\ u.cancel = r.cancel /\ u.commit = r.commit /\ u.rev = r.rev + 1
    <2>1. r.rev + 1 \in Nat /\ t + 1 \in Nat
      BY <1>3, SMT DEF Record
    <2>2. u \in Record
      BY <1>2, <1>3, <2>1 DEF Record
    <2> QED BY <1>2, <1>3, <2>2, SMT DEF Record, validateRecord, ActiveStatuses, TerminalStatuses
  <1> QED BY <1>4 DEF r

(* A cancel that is accepted.                                               *)
LEMMA CanceledRecord ==
  ASSUME Core, NEW o \in Ops, CancelAccepted(o),
         NEW u, u = [mem[o] EXCEPT !.cancel = TRUE, !.rev = @ + 1]
  PROVE  /\ u \in Record /\ validateRecord(u) /\ u.status = mem[o].status
         /\ u.delivery = "NONE" /\ mem[o].delivery = "NONE" /\ u.spec = mem[o].spec
         /\ u.cancel = TRUE /\ u.commit = mem[o].commit /\ u.rev = mem[o].rev + 1
         /\ mem[o].status \in ActiveStatuses
         /\ cancelModeForType(mem[o].spec.type) = "BEFORE_COMMIT" => ~mem[o].commit
  <1> DEFINE r == mem[o]
  <1>1. r \in Record /\ validateRecord(r)
    BY DEF Core, TypeOK
  <1>2. r.status \in ActiveStatuses
    BY DEF CancelAccepted, Active
  <1>3. cancelModeForType(r.spec.type) = "BEFORE_COMMIT" => ~r.commit
    BY Zenon DEF CancelAccepted, Mode, Committed
  <1> HIDE DEF r
  <1>4. r.status \in ActiveStatuses /\ r.delivery = "NONE"
    BY <1>1, <1>2 DEF validateRecord, ActiveStatuses, TerminalStatuses
  <1>5. /\ u \in Record /\ validateRecord(u) /\ u.status = r.status
        /\ u.delivery = r.delivery /\ u.spec = r.spec
        /\ u.cancel = TRUE /\ u.commit = r.commit /\ u.rev = r.rev + 1
    <2>1. u = [r EXCEPT !.cancel = TRUE, !.rev = @ + 1]
      BY DEF r
    <2> QED BY <1>1, <1>4, <2>1, CancelUpdate, Zenon
  <1> QED BY <1>3, <1>4, <1>5 DEF r

(* Recovery makes a valid interrupted record with its audit pending.        *)
LEMMA InterruptedRecord ==
  ASSUME Core, NEW o \in Ops, disk[o].status \in ActiveStatuses,
         NEW u, u = [disk[o] EXCEPT !.status = "interrupted", !.rev = @ + 1, !.fin = clock + 1,
                                    !.delivery = "PENDING"]
  PROVE  /\ u \in Record /\ validateRecord(u) /\ u.status = "interrupted"
         /\ u.delivery = "PENDING" /\ u.spec = disk[o].spec
         /\ u.cancel = disk[o].cancel /\ u.commit = disk[o].commit
  <1> DEFINE r == disk[o]
             t == clock
  <1>1. r \in Record /\ validateRecord(r) /\ t \in Nat
    BY DEF Core, TypeOK
  <1>2. r.rev + 1 \in Nat /\ t + 1 \in Nat
    BY <1>1, SMT DEF Record
  <1>3. u = [r EXCEPT !.status = "interrupted", !.rev = @ + 1, !.fin = t + 1, !.delivery = "PENDING"]
    OBVIOUS
  <1> HIDE DEF r, t
  <1>4. u \in Record
    BY <1>1, <1>2, <1>3 DEF Record, TerminalStatuses
  <1>5. /\ validateRecord(u) /\ u.status = "interrupted"
        /\ u.delivery = "PENDING" /\ u.spec = r.spec
        /\ u.cancel = r.cancel /\ u.commit = r.commit
    <2>1. /\ u.status = "interrupted" /\ u.rev = r.rev + 1 /\ u.fin = t + 1
          /\ u.delivery = "PENDING" /\ u.spec = r.spec
          /\ u.cancel = r.cancel /\ u.commit = r.commit
      BY <1>1, <1>3 DEF Record
    <2>2. u.rev > 0 /\ u.fin > 0
      BY <1>1, <2>1, SMT DEF Record
    <2> QED BY <2>1, <2>2 DEF validateRecord, TerminalStatuses
  <1> QED BY <1>4, <1>5 DEF r

(* A step that writes the record of one operation, or none at all, and      *)
(* leaves the results alone: what is left to show of it is its location.    *)
LEMMA CoreWrite ==
  ASSUME Core, NEW o \in Ops, NEW u \in Record, validateRecord(u),
         Saved(o, u) \/ SaveFailed(o, u) \/ UNCHANGED storeVars,
         NEW l \in Locations, Goto(o, l),
         mem'[o].status \in TerminalStatuses \/ mem[o].status \notin TerminalStatuses,
         l \in Unfinished => mem'[o].status \in ActiveStatuses,
         l \in Outbox => mem'[o].delivery = "PENDING",
         l \in {"release", "index"} => mem[o].status \in ActiveStatuses,
         ctl \notin {"down", "loading"},
         UNCHANGED <<results, ctl>>, OtherTypes'
  PROVE  Core'
  <1> USE DEF Goto, storeVars
  <1>1. StoreOK /\ pc \in [Ops -> Locations]
    BY DEF Core, TypeOK, StoreOK
  <1>2. StoreOK' /\ \A q \in Ops : q # o => mem'[q] = mem[q]
    <2>1. CASE Saved(o, u)
      BY <1>1, <2>1, SavedStore
    <2>2. CASE SaveFailed(o, u)
      BY <1>1, <2>2, SaveFailedStore
    <2>3. CASE UNCHANGED storeVars
      BY <1>1, <2>3 DEF StoreOK
    <2> QED BY <2>1, <2>2, <2>3
  <1>3. pc'[o] = l /\ \A q \in Ops : q # o => pc'[q] = pc[q]
    BY <1>1
  <1>4. RunnersMatchRecords'
    BY <1>2, <1>3 DEF Core, RunnersMatchRecords
  <1>5. ResultsAreFinished'
    <2>1. \A i \in 1..Len(results) : results[i] \in Ops /\ mem[results[i]].status \in TerminalStatuses
      BY SeqFacts DEF Core, TypeOK, ResultsAreFinished
    <2>2. \A i \in 1..Len(results) : mem'[results[i]].status \in TerminalStatuses
      BY <1>2, <2>1
    <2>3. l \in {"release", "index"} => \A i \in 1..Len(results) : results[i] # o
      BY <2>1 DEF ActiveStatuses, TerminalStatuses
    <2> QED BY <1>3, <2>2, <2>3, SMT DEF Core, ResultsAreFinished
  <1>6. LoadingIsQuiet'
    BY DEF LoadingIsQuiet
  <1> QED BY <1>2, <1>4, <1>5, <1>6 DEF Core, TypeOK, StoreOK, OtherTypes

(* While a runner exists the process is not loading.                        *)
LEMMA NotLoading ==
  ASSUME Core, NEW o \in Ops, pc[o] # "none"
  PROVE  ctl \notin {"down", "loading"}
  BY DEF Core, LoadingIsQuiet

(* Status, phase, commit and progress updates keep the core invariant.      *)
LEMMA CoreUpdates ==
  ASSUME Core, NEW o \in Ops,
         Dispatch(o) \/ Run(o) \/ Prepare(o) \/ EnterCommit(o) \/ AdvanceProgress(o) \/ Finalize(o)
  PROVE  Core'
  <1>1. PICK u : KeptBy(mem[o], u) /\ UpdateStep(o, u)
    BY RunnerUpdates
  <1>2. pc[o] \in Unfinished /\ pc[o] # "none"
    BY DEF Dispatch, Run, Prepare, EnterCommit, AdvanceProgress, Finalize, Unfinished
  <1>3. ctl \notin {"down", "loading"}
    BY <1>2, NotLoading
  <1>4. mem[o].status \in ActiveStatuses
    BY <1>2 DEF Core, RunnersMatchRecords
  <1>5. mem'[o] \in {u, mem[o]}
    <2>1. mem \in [Ops -> Record]
      BY DEF Core, TypeOK
    <2> QED BY <1>1, <2>1 DEF UpdateStep, Saved, SaveFailed, storeVars
  <1>6. PICK l \in Locked \cup {"reject", "fail", "none"} : Goto(o, l)
    BY <1>1 DEF UpdateStep
  <1>7. OtherTypes'
    <2>1. l \in Locations
      BY DEF Locked, Locations
    <2>2. pc' \in [Ops -> Locations]
      BY <1>6, <2>1 DEF Core, TypeOK, Goto
    <2> QED BY <1>1, <2>2 DEF UpdateStep, Core, TypeOK, OtherTypes, resultVars, finishVars,
                              lockVars, ctlVars, auditVars
  <1>8. mem'[o].status \in ActiveStatuses
    BY <1>1, <1>4, <1>5 DEF KeptBy
  <1>9. mem[o].status \notin TerminalStatuses
    BY <1>4 DEF ActiveStatuses, TerminalStatuses
  <1>10. l \notin Outbox /\ l \notin {"release", "index"} /\ l \in Locations
    BY DEF Locked, Outbox, Locations
  <1> QED BY <1>1, <1>3, <1>6, <1>7, <1>8, <1>9, <1>10, CoreWrite
          DEF UpdateStep, KeptBy, resultVars, ctlVars

(* Terminal transitions keep the core invariant.                            *)
LEMMA CoreFinishes ==
  ASSUME Core, NEW o \in Ops, Succeed(o) \/ Fail(o) \/ CancelTerminal(o) \/ Reject(o)
  PROVE  Core'
  <1>1. PICK next \in TerminalStatuses : FinishStep(o, next)
    BY RunnerFinishes
  <1>2. pc[o] \in Unfinished /\ pc[o] # "none"
    BY RunnerFinishes DEF Unfinished
  <1>3. ctl \notin {"down", "loading"}
    BY <1>2, NotLoading
  <1>4. mem[o].status \in ActiveStatuses /\ mem[o].status \notin TerminalStatuses
    BY <1>2 DEF Core, RunnersMatchRecords, ActiveStatuses, TerminalStatuses
  <1>5. PICK u : u = Finished(o, next)
    OBVIOUS
  <1>6. u \in Record /\ validateRecord(u) /\ u.status = next /\ u.delivery = "PENDING"
    BY <1>2, <1>5, FinishedRecord, SMT
  <1>7. PICK l \in {"release", "index", "none"} :
            /\ Goto(o, l)
            /\ \/ Saved(o, u) /\ lease' = [lease EXCEPT ![o] = FALSE] /\ clock' = clock + 1
                  /\ outcome' = [outcome EXCEPT ![o] = next]
               \/ l = "none" /\ (SaveFailed(o, u) \/ UNCHANGED storeVars)
                  /\ UNCHANGED <<lease, clock, outcome>>
    BY <1>1, <1>5 DEF FinishStep
  <1>8. OtherTypes'
    <2>1. l \in Locations
      BY DEF Locations
    <2>2. pc' \in [Ops -> Locations]
      BY <1>7, <2>1 DEF Core, TypeOK, Goto
    <2>3. clock' \in Nat /\ outcome' \in [Ops -> TerminalStatuses \cup {"none"}]
      <3>1. clock \in Nat /\ outcome \in [Ops -> TerminalStatuses \cup {"none"}]
        BY DEF Core, TypeOK
      <3> QED BY <1>7, <3>1, SMT
    <2>4. lease' \in [Ops -> BOOLEAN]
      <3>1. lease \in [Ops -> BOOLEAN]
        BY DEF Core, TypeOK
      <3> QED BY <1>7, <3>1
    <2> QED BY <1>1, <2>2, <2>3, <2>4 DEF FinishStep, Core, TypeOK, OtherTypes, resultVars, ctlVars,
                                          auditVars
  <1>9. l = "none" \/ mem'[o] = u
    <2>1. mem \in [Ops -> Record]
      BY DEF Core, TypeOK
    <2> QED BY <1>7, <2>1 DEF Saved
  <1>10. l \in Locations /\ l \notin Unfinished /\ (l = "none" => l \notin Outbox)
    BY DEF Unfinished, Outbox, Locations
  <1> QED BY <1>1, <1>3, <1>4, <1>6, <1>7, <1>8, <1>9, <1>10, CoreWrite
          DEF FinishStep, resultVars, ctlVars

(* Journaling the delivered audit keeps the core invariant.                 *)
LEMMA CoreMarkDelivered ==
  ASSUME Core, NEW o \in Ops, MarkDelivered(o)
  PROVE  Core'
  <1>1. pc[o] = "mark" /\ mem[o].delivery = "PENDING"
    BY DEF MarkDelivered, Core, RunnersMatchRecords, Outbox
  <1>2. mem[o] \in Record /\ validateRecord(mem[o])
    BY DEF Core, TypeOK
  <1>3. PICK u : u = [mem[o] EXCEPT !.delivery = "DELIVERED"]
    OBVIOUS
  <1>4. u \in Record /\ validateRecord(u) /\ u.status = mem[o].status
    BY <1>1, <1>2, <1>3, DeliveredUpdate
  <1>5. PICK l \in {"confirm", "none"} : Goto(o, l) /\ (Saved(o, u) \/ SaveFailed(o, u))
    BY <1>3 DEF MarkDelivered
  <1>6. OtherTypes'
    <2>1. l \in Locations
      BY DEF Locations
    <2>2. pc' \in [Ops -> Locations]
      BY <1>5, <2>1 DEF Core, TypeOK, Goto
    <2>3. replayErr' \in BOOLEAN
      <3>1. replayErr \in BOOLEAN
        BY DEF Core, TypeOK
      <3>2. Replaying \in BOOLEAN
        BY SMT DEF Replaying
      <3>3. replayErr' \in {replayErr, Replaying}
        BY DEF MarkDelivered
      <3> QED BY <3>1, <3>2, <3>3
    <2> QED BY <2>2, <2>3 DEF MarkDelivered, Core, TypeOK, OtherTypes, resultVars, finishVars,
                              lockVars, auditVars
  <1>7. mem'[o] \in {u, mem[o]}
    <2>1. mem \in [Ops -> Record]
      BY DEF Core, TypeOK
    <2> QED BY <1>5, <2>1 DEF Saved, SaveFailed
  <1>8. l \in Locations /\ l \notin Unfinished /\ l \notin Outbox
    BY DEF Unfinished, Outbox, Locations
  <1>9. ctl \notin {"down", "loading"}
    BY <1>1, NotLoading
  <1>10. l \notin {"release", "index"} /\ mem'[o].status = mem[o].status
    BY <1>4, <1>7
  <1> QED BY <1>4, <1>5, <1>6, <1>8, <1>9, <1>10, CoreWrite DEF MarkDelivered, resultVars

(* Cancel requests, of callers and of Shutdown, keep the core invariant.    *)
LEMMA CoreCancels ==
  ASSUME Core, NEW o \in Ops, Cancel(o) \/ ShutdownCancel(o)
  PROVE  Core'
  <1> USE DEF storeVars, resultVars, finishVars, lockVars, ctlVars, auditVars
  <1>1. PICK u : u = [mem[o] EXCEPT !.cancel = TRUE, !.rev = @ + 1]
    OBVIOUS
  <1>2. \/ /\ CancelAccepted(o)
           /\ \/ Saved(o, u) /\ ctx' = [ctx EXCEPT ![o] = IF @ = "live" THEN "done" ELSE @]
              \/ SaveFailed(o, u) /\ UNCHANGED ctx
        \/ UNCHANGED <<storeVars, ctx>>
    BY <1>1 DEF Cancel, ShutdownCancel, CancelWithError
  <1>3. /\ UNCHANGED <<resultVars, finishVars, lockVars, auditVars, ctl, replayErr, pc, crashes>>
        /\ todo' \in {todo, todo \ {o}}
        /\ ctl \notin {"down", "loading"}
    BY DEF Cancel, ShutdownCancel, Serving, shuttingDown
  <1>4. OtherTypes'
    <2>1. ctx \in [Ops -> {"unset", "live", "done"}] /\ todo \in SUBSET Ops
      BY DEF Core, TypeOK
    <2>2. ctx' \in [Ops -> {"unset", "live", "done"}]
      BY <1>2, <2>1
    <2> QED BY <1>3, <2>1, <2>2 DEF Core, TypeOK, OtherTypes
  <1>5. CASE UNCHANGED <<storeVars, ctx>>
    <2>1. StoreOK'
      BY <1>5 DEF Core, TypeOK, StoreOK
    <2>2. (RunnersMatchRecords /\ ResultsAreFinished /\ LoadingIsQuiet)'
      BY <1>3, <1>5 DEF Core, RunnersMatchRecords, ResultsAreFinished, LoadingIsQuiet
    <2> QED BY <1>4, <2>1, <2>2 DEF Core, TypeOK, StoreOK, OtherTypes
  <1>6. CASE CancelAccepted(o) /\ (Saved(o, u) \/ SaveFailed(o, u))
    <2>1. /\ u \in Record /\ validateRecord(u) /\ u.status = mem[o].status
          /\ u.delivery = "NONE" /\ mem[o].delivery = "NONE"
          /\ mem[o].status \in ActiveStatuses
      BY <1>1, <1>6, CanceledRecord
    <2>2. PICK l \in Locations : l = pc[o] /\ Goto(o, l)
      BY <1>3, SMT DEF Goto, Core, TypeOK
    <2>3. l \notin Outbox
      BY <2>1, <2>2 DEF Core, RunnersMatchRecords
    <2>4. mem'[o] \in {u, mem[o]}
      <3>1. mem \in [Ops -> Record]
        BY DEF Core, TypeOK
      <3> QED BY <1>6, <3>1 DEF Saved, SaveFailed
    <2>5. mem[o].status \notin TerminalStatuses
      BY <2>1 DEF ActiveStatuses, TerminalStatuses
    <2> QED BY <1>3, <1>4, <1>6, <2>1, <2>2, <2>3, <2>4, <2>5, CoreWrite
  <1> QED BY <1>2, <1>5, <1>6

(* A list that holds the results and one more, and one that holds every     *)
(* operation there is.                                                      *)
ListsAlso(res, o) ==
    /\ \A i \in 1..Len(results) : \E k \in 1..Len(res) : res[k] = results[i]
    /\ \E k \in 1..Len(res) : res[k] = o
ListsAll(res) == \A q \in Ops : mem[q].status # "absent" => \E i \in 1..Len(res) : res[i] = q

(* Steps after which results are those that retention left.                 *)
KeepsResults(st, res) ==
    /\ \A q \in Ops : pc[q] \in Unfinished => st.mem[q] = mem[q]
    /\ \A q \in Ops : pc[q] \in Outbox => st.mem[q] = mem[q]
    /\ \A i \in 1..Len(st.results) : st.mem[st.results[i]].status \in TerminalStatuses
    /\ \A i, j \in 1..Len(st.results) : st.results[i] = st.results[j] => i = j
    /\ \A q \in Ops : (\A i \in 1..Len(res) : res[i] # q) =>
                         \A i \in 1..Len(st.results) : st.results[i] # q
    /\ \A q \in Ops : st.mem[q] # mem[q] \/ st.evicted[q] # evicted[q] =>
          st.mem[q] = Absent /\ mem[q].delivery # "PENDING" /\ mem[q].status \in TerminalStatuses
    /\ \A q \in Ops : st.disk[q] \in {disk[q], Absent}
    /\ \A q \in Ops : st.disk[q] # disk[q] \/ q \in st.unlinked =>
          q \in unlinked \/ (mem[q].delivery # "PENDING" /\ mem[q].status \in TerminalStatuses)

(* Retention keeps the records of unfinished operations and pending audits. *)
LEMMA CoreCleanup ==
  ASSUME Core, NEW res \in Seq(Ops), Distinct(res),
         \A i \in 1..Len(res) : mem[res[i]].status \in TerminalStatuses,
         NEW st, CleanedUp(st, res)
  PROVE  KeepsResults(st, res)
  <1>1. \A q \in Ops : pc[q] \in Unfinished => st.mem[q] = mem[q]
    <2> SUFFICES ASSUME NEW q \in Ops, pc[q] \in Unfinished PROVE st.mem[q] = mem[q]
      OBVIOUS
    <2>1. mem[q].status \notin TerminalStatuses
      BY DEF Core, RunnersMatchRecords, ActiveStatuses, TerminalStatuses
    <2> QED BY <2>1 DEF CleanedUp
  <1>2. \A q \in Ops : pc[q] \in Outbox => st.mem[q] = mem[q]
    BY DEF Core, RunnersMatchRecords, CleanedUp
  <1>3. \A i \in 1..Len(st.results) : st.mem[st.results[i]].status \in TerminalStatuses
    <2> SUFFICES ASSUME NEW i \in 1..Len(st.results) PROVE st.mem[st.results[i]].status \in TerminalStatuses
      OBVIOUS
    <2>1. st.mem[st.results[i]] = mem[st.results[i]] /\ \E k \in 1..Len(res) : res[k] = st.results[i]
      BY DEF CleanedUp
    <2> QED BY <2>1
  <1>4. \A i, j \in 1..Len(st.results) : st.results[i] = st.results[j] => i = j
    BY DEF CleanedUp, Distinct
  <1>5. \A q \in Ops : (\A i \in 1..Len(res) : res[i] # q) => \A i \in 1..Len(st.results) : st.results[i] # q
    <2>1. \A i \in 1..Len(st.results) : \E k \in 1..Len(res) : res[k] = st.results[i]
      BY DEF CleanedUp
    <2> QED BY <2>1
  <1>6. \A q \in Ops : st.mem[q] # mem[q] \/ st.evicted[q] # evicted[q] =>
          st.mem[q] = Absent /\ mem[q].delivery # "PENDING" /\ mem[q].status \in TerminalStatuses
    BY DEF CleanedUp
  <1>7. \A q \in Ops : st.disk[q] # disk[q] \/ q \in st.unlinked =>
          q \in unlinked \/ (mem[q].delivery # "PENDING" /\ mem[q].status \in TerminalStatuses)
    BY DEF CleanedUp
  <1> QED BY <1>1, <1>2, <1>3, <1>4, <1>5, <1>6, <1>7 DEF KeepsResults, CleanedUp

(* Reading the engine runs retention and nothing else.                      *)
LEMMA GetCleans ==
  ASSUME Core, Get
  PROVE  \E st : Publish(st) /\ CleanedUp(st, results) /\ KeepsResults(st, results)
  <1>1. PICK st \in cleanupLocked(results) : Publish(st)
    BY DEF Get
  <1>2. StoreOK /\ OtherTypes /\ Distinct(results)
    BY DEF Core, TypeOK, StoreOK, OtherTypes, ResultsAreFinished, Distinct
  <1>3. CleanedUp(st, results)
    BY <1>2, CleanupStore DEF OtherTypes
  <1>4. KeepsResults(st, results)
    BY <1>2, <1>3, CoreCleanup DEF Core, ResultsAreFinished, OtherTypes
  <1> QED BY <1>1, <1>3, <1>4

(* Reading the engine keeps the core invariant.                             *)
LEMMA CoreGet ==
  ASSUME Core, Get
  PROVE  Core'
  <1> USE DEF storeVars, resultVars, finishVars, lockVars, ctlVars, auditVars
  <1>1. PICK st : Publish(st) /\ CleanedUp(st, results) /\ KeepsResults(st, results)
    BY GetCleans
  <1>2. UNCHANGED <<finishVars, lockVars, ctlVars, auditVars, ctx, pc, crashes>>
        /\ ctl \notin {"down", "loading"}
    BY DEF Get, Serving, shuttingDown
  <1>3. StoreOK' /\ OtherTypes'
    BY <1>1, <1>2 DEF Core, TypeOK, CleanedUp, StoreOK, OtherTypes, Publish
  <1>4. RunnersMatchRecords'
    BY <1>1, <1>2 DEF Core, RunnersMatchRecords, Publish, KeepsResults
  <1>5. ResultsAreFinished'
    BY <1>1, <1>2 DEF Core, ResultsAreFinished, Publish, KeepsResults
  <1>6. LoadingIsQuiet'
    BY <1>2 DEF LoadingIsQuiet
  <1> QED BY <1>3, <1>4, <1>5, <1>6 DEF Core, TypeOK, StoreOK, OtherTypes

(* onTerminal appends the result and then runs retention.                   *)
LEMMA OnTerminalCleans ==
  ASSUME Core, NEW o \in Ops, OnTerminal(o)
  PROVE  /\ pc[o] = "index" /\ Goto(o, "deliver") /\ mem[o].delivery = "PENDING"
         /\ \E st, res : /\ Publish(st) /\ CleanedUp(st, res) /\ KeepsResults(st, res)
                         /\ \A q \in Ops : q # o /\ pc[q] \in {"release", "index"} =>
                               \A i \in 1..Len(res) : res[i] # q
                         /\ ListsAlso(res, o)
  <1> DEFINE res == Append(results, o)
  <1>1. PICK st \in cleanupLocked(res) : Publish(st)
    BY DEF OnTerminal
  <1>2. StoreOK /\ OtherTypes /\ Distinct(results)
    BY DEF Core, TypeOK, StoreOK, OtherTypes, ResultsAreFinished, Distinct
  <1>3. pc[o] = "index" /\ Goto(o, "deliver")
    BY DEF OnTerminal, RunnerStep
  <1>4. mem[o].status \in TerminalStatuses /\ mem[o].delivery = "PENDING"
    <2>1. mem[o].delivery = "PENDING"
      BY <1>3 DEF Core, RunnersMatchRecords, Outbox
    <2> QED BY <1>2, <2>1 DEF StoreOK, validateRecord
  <1>5. /\ res \in Seq(Ops) /\ Len(res) = Len(results) + 1 /\ res[Len(res)] = o
        /\ \A i \in 1..Len(results) : res[i] = results[i]
    BY <1>2, AppendFacts, SMT DEF OtherTypes
  <1>6. Len(results) \in Nat
    BY <1>2, SeqFacts DEF OtherTypes
  <1>7. Distinct(res)
    BY <1>2, <1>3, <1>5, <1>6, SMT DEF Core, ResultsAreFinished, Distinct
  <1>8. \A i \in 1..Len(res) : mem[res[i]].status \in TerminalStatuses
    BY <1>4, <1>5, <1>6, SMT DEF Core, ResultsAreFinished
  <1>9. \A q \in Ops : q # o /\ pc[q] \in {"release", "index"} => \A i \in 1..Len(res) : res[i] # q
    BY <1>5, <1>6, SMT DEF Core, ResultsAreFinished
  <1> HIDE DEF res
  <1>10. CleanedUp(st, res)
    BY <1>2, <1>5, <1>7, CleanupStore DEF OtherTypes
  <1>11. KeepsResults(st, res)
    BY <1>5, <1>7, <1>8, <1>10, CoreCleanup
  <1>12. Len(res) \in 1..Len(res) /\ \A i \in 1..Len(results) : i \in 1..Len(res)
    BY <1>5, <1>6, SMT
  <1>13. ListsAlso(res, o)
    BY <1>5, <1>12 DEF ListsAlso
  <1> QED BY <1>1, <1>3, <1>4, <1>9, <1>10, <1>11, <1>13

(* onTerminal keeps the core invariant.                                     *)
LEMMA CoreOnTerminal ==
  ASSUME Core, NEW o \in Ops, OnTerminal(o)
  PROVE  Core'
  <1> USE DEF storeVars, resultVars, finishVars, lockVars, ctlVars, auditVars
  <1>1. PICK st, res : /\ Publish(st) /\ CleanedUp(st, res) /\ KeepsResults(st, res)
                       /\ \A q \in Ops : q # o /\ pc[q] \in {"release", "index"} =>
                             \A i \in 1..Len(res) : res[i] # q
                       /\ ListsAlso(res, o)
    BY OnTerminalCleans
  <1>2. pc[o] = "index" /\ Goto(o, "deliver") /\ mem[o].delivery = "PENDING"
    BY OnTerminalCleans
  <1>3. UNCHANGED <<finishVars, lockVars, ctlVars, auditVars, ctx, crashes>>
    BY DEF OnTerminal
  <1>4. /\ pc' \in [Ops -> Locations] /\ pc'[o] = "deliver"
        /\ \A q \in Ops : q # o => pc'[q] = pc[q]
    BY <1>2 DEF Core, TypeOK, Goto, Locations
  <1>5. StoreOK' /\ OtherTypes'
    BY <1>1, <1>3, <1>4 DEF Core, TypeOK, CleanedUp, StoreOK, OtherTypes, Publish
  <1>6. RunnersMatchRecords'
    <2>1. \A q \in Ops : pc[q] \in Unfinished \/ pc[q] \in Outbox => mem'[q] = mem[q]
      BY <1>1 DEF Publish, KeepsResults
    <2> QED BY <1>2, <1>4, <2>1 DEF Core, RunnersMatchRecords, Unfinished, Outbox
  <1>7. ResultsAreFinished'
    BY <1>1, <1>4 DEF ResultsAreFinished, Publish, KeepsResults
  <1>8. LoadingIsQuiet'
    BY <1>2, <1>3, NotLoading DEF LoadingIsQuiet
  <1> QED BY <1>5, <1>6, <1>7, <1>8 DEF Core, TypeOK, StoreOK, OtherTypes

Starts(o, new, st) ==
    /\ results' = st.results /\ evicted' = st.evicted
    /\ \/ /\ mem' = [st.mem EXCEPT ![o] = new]
          /\ disk' = [x \in Ops |-> IF x = o THEN new
                                    ELSE IF x \in st.unlinked THEN Absent ELSE st.disk[x]]
          /\ unlinked' = {} /\ faults' = st.faults
          /\ Goto(o, "accepted")
       \/ /\ faults' = [st.faults EXCEPT !.save = @ + 1]
          /\ disk' \in {st.disk, [st.disk EXCEPT ![o] = new]}
          /\ mem' = st.mem /\ unlinked' = st.unlinked
          /\ UNCHANGED pc

(* StartOperation runs retention and then saves the new record.             *)
LEMMA StartCleans ==
  ASSUME Core, NEW o \in Ops, NEW spec \in Specs, StartOperation(o, spec)
  PROVE  \E st : Starts(o, newOperation(spec), st) /\ CleanedUp(st, results) /\ KeepsResults(st, results)
  <1>1. PICK st \in cleanupLocked(results) : Starts(o, newOperation(spec), st)
    BY DEF StartOperation, Starts
  <1>2. StoreOK /\ OtherTypes /\ Distinct(results)
    BY DEF Core, TypeOK, StoreOK, OtherTypes, ResultsAreFinished, Distinct
  <1>3. CleanedUp(st, results)
    BY <1>2, CleanupStore DEF OtherTypes
  <1>4. KeepsResults(st, results)
    BY <1>2, <1>3, CoreCleanup DEF Core, ResultsAreFinished, OtherTypes
  <1> QED BY <1>1, <1>3, <1>4

(* StartOperation keeps the core invariant.                                 *)
LEMMA CoreStart ==
  ASSUME Core, NEW o \in Ops, NEW spec \in Specs, StartOperation(o, spec)
  PROVE  Core'
  <1> USE DEF storeVars, resultVars, finishVars, lockVars, ctlVars, auditVars, Starts
  <1> DEFINE new == newOperation(spec)
  <1>1. /\ new \in Record /\ validateRecord(new) /\ new.status \in ActiveStatuses
    BY NewRecord DEF ActiveStatuses
  <1>0. PICK st : Starts(o, new, st) /\ CleanedUp(st, results) /\ KeepsResults(st, results)
    BY StartCleans
  <1> HIDE DEF new
  <1>2. Starts(o, new, st)
    BY <1>0
  <1>3. StoreOK /\ OtherTypes
    BY DEF Core, TypeOK, StoreOK, OtherTypes
  <1>4. CleanedUp(st, results)
    BY <1>0
  <1>5. KeepsResults(st, results)
    BY <1>0
  <1>6. UNCHANGED <<finishVars, lockVars, ctlVars, auditVars, ctx, crashes>> /\ ctl = "up"
    BY DEF StartOperation
  <1>7. StoreOK'
    <2>0. st.mem \in [Ops -> Record] /\ st.disk \in [Ops -> Record]
      BY <1>4 DEF CleanedUp
    <2>1. /\ mem' \in [Ops -> Record] /\ mem'[o] \in {st.mem[o], new}
          /\ \A q \in Ops : q # o => mem'[q] = st.mem[q]
      BY <1>1, <1>2, <2>0, SMT
    <2>2. /\ disk' \in [Ops -> Record]
          /\ \A q \in Ops : disk'[q] \in {st.disk[q], new, Absent}
      BY <1>1, <1>2, <2>0, AbsentRecord, SMT
    <2>3. unlinked' \in SUBSET Ops
      BY <1>2, <1>4 DEF CleanedUp
    <2>4. faults' \in [save : Nat, audit : Nat]
      BY <1>2, <1>4, SMTT(20) DEF CleanedUp
    <2>5. \A q \in Ops : validateRecord(mem'[q]) /\ validateRecord(disk'[q])
      <3>1. \A q \in Ops : validateRecord(st.mem[q]) /\ validateRecord(st.disk[q])
        BY <1>4 DEF CleanedUp
      <3>2. validateRecord(new) /\ validateRecord(Absent)
        BY <1>1, AbsentRecord
      <3>3. \A q \in Ops : mem'[q] \in {st.mem[q], new}
        BY <2>1
      <3> QED BY <2>2, <3>1, <3>2, <3>3
    <2> QED BY <2>1, <2>2, <2>3, <2>4, <2>5 DEF StoreOK
  <1>8. /\ pc' \in [Ops -> Locations] /\ \A q \in Ops : q # o => pc'[q] = pc[q]
        /\ \/ pc'[o] = "accepted" /\ mem'[o] = new
           \/ pc'[o] = pc[o] /\ mem'[o] = st.mem[o]
        /\ \A q \in Ops : q # o => mem'[q] = st.mem[q]
    <2>1. st.mem \in [Ops -> Record] /\ pc \in [Ops -> Locations]
      BY <1>3, <1>4 DEF OtherTypes, CleanedUp
    <2>2. \/ mem' = [st.mem EXCEPT ![o] = new] /\ Goto(o, "accepted")
          \/ mem' = st.mem /\ UNCHANGED pc
      BY <1>2
    <2> QED BY <2>1, <2>2 DEF Goto, Locations
  <1>9. OtherTypes'
    BY <1>2, <1>3, <1>4, <1>6, <1>8 DEF OtherTypes, CleanedUp
  <1>10. RunnersMatchRecords'
    <2> SUFFICES ASSUME NEW q \in Ops
                 PROVE  /\ pc'[q] \in Unfinished => mem'[q].status \in ActiveStatuses
                        /\ pc'[q] \in Outbox => mem'[q].delivery = "PENDING"
      BY DEF RunnersMatchRecords
    <2>1. CASE pc'[q] = pc[q] /\ mem'[q] = st.mem[q]
      BY <1>5, <2>1, SMT DEF Core, RunnersMatchRecords, KeepsResults
    <2>2. CASE q = o /\ pc'[q] = "accepted" /\ mem'[q] = new
      BY <1>1, <2>2 DEF Outbox
    <2> QED BY <1>8, <2>1, <2>2
  <1>11. ResultsAreFinished'
    <2>1. \A i \in 1..Len(st.results) : st.results[i] \in Ops /\ st.results[i] # o
      <3>1. \A i \in 1..Len(st.results) : st.results[i] \in Ops
        BY <1>4, SeqFacts DEF CleanedUp
      <3>2. \A i \in 1..Len(results) : results[i] # o
        BY DEF Core, ResultsAreFinished, StartOperation, Present, TerminalStatuses
      <3> QED BY <1>5, <3>1, <3>2 DEF KeepsResults
    <2>2. \A i \in 1..Len(st.results) : mem'[st.results[i]].status \in TerminalStatuses
      BY <1>5, <1>8, <2>1 DEF KeepsResults
    <2> QED BY <1>2, <1>5, <1>8, <2>1, <2>2 DEF Core, ResultsAreFinished, KeepsResults
  <1>12. LoadingIsQuiet'
    BY <1>6 DEF LoadingIsQuiet
  <1> QED BY <1>7, <1>9, <1>10, <1>11, <1>12 DEF Core, TypeOK, StoreOK, OtherTypes

(* One pass of disk-pressure eviction, as it bears on types.                *)
Reclaims(n, gone) ==
    /\ gone = {results[i] : i \in {i \in 1..n : mem[results[i]].delivery # "PENDING"}}
    /\ mem' = [o \in Ops |-> IF o \in gone THEN Absent ELSE mem[o]]
    /\ evicted' = [o \in Ops |-> IF o \in gone THEN "pressure" ELSE evicted[o]]
    /\ results' \in Enumerations({results[i] : i \in DOMAIN results} \ gone)
    /\ disk' = [o \in Ops |-> disk'[o]] /\ \A o \in Ops : disk'[o] \in {disk[o], Absent}
    /\ \A o \in Ops : disk'[o] # disk[o] => o \in unlinked \cup gone
    /\ unlinked' \subseteq unlinked \cup gone
    /\ faults' \in {faults, [faults EXCEPT !.save = @ + 1]}

(* Disk-pressure eviction is a step as Reclaims says.                       *)
LEMMA ReclaimDrops ==
  ASSUME ReclaimExpiredForDiskPressure
  PROVE  \E n \in 1..Len(results) : \E gone : Reclaims(n, gone)
  <1> DEFINE Gone0(n) == {results[i] : i \in {i \in 1..n : mem[results[i]].delivery # "PENDING"}}
  <1>1. PICK n \in 1..Len(results) :
          /\ mem' = [o \in Ops |-> IF o \in Gone0(n) THEN Absent ELSE mem[o]]
          /\ evicted' = [o \in Ops |-> IF o \in Gone0(n) THEN "pressure" ELSE evicted[o]]
          /\ results' \in Enumerations({results[i] : i \in DOMAIN results} \ Gone0(n))
          /\ \/ /\ disk' = [o \in Ops |-> IF o \in Gone0(n) \cup unlinked THEN Absent ELSE disk[o]]
                /\ unlinked' = {}
                /\ UNCHANGED faults
             \/ /\ results[n] \in Gone0(n)
                /\ LET before == Gone0(n) \ {results[n]}
                       synced == before # {}
                   IN /\ disk' = [o \in Ops |-> IF synced /\ o \in before \cup unlinked
                                                THEN Absent ELSE disk[o]]
                      /\ unlinked' = (IF synced THEN {} ELSE unlinked) \cup {results[n]}
                /\ faults' = [faults EXCEPT !.save = @ + 1]
    BY DEF ReclaimExpiredForDiskPressure
  <1> DEFINE gone == Gone0(n)
  <1>2. /\ disk' = [o \in Ops |-> disk'[o]] /\ \A o \in Ops : disk'[o] \in {disk[o], Absent}
        /\ \A o \in Ops : disk'[o] # disk[o] => o \in unlinked \cup gone
    <2> HIDE DEF Gone0
    <2> QED BY <1>1
  <1>3. /\ unlinked' \subseteq unlinked \cup gone
        /\ faults' \in {faults, [faults EXCEPT !.save = @ + 1]}
    BY <1>1
  <1>4. Reclaims(n, gone)
    BY <1>1, <1>2, <1>3 DEF Reclaims
  <1> QED BY <1>4

(* Disk-pressure eviction keeps the core invariant.                         *)
LEMMA CoreReclaim ==
  ASSUME Core, ReclaimExpiredForDiskPressure
  PROVE  Core'
  <1> USE DEF Reclaims, storeVars, resultVars, finishVars, lockVars, ctlVars, auditVars
  <1>0. PICK n \in 1..Len(results) : \E gone : Reclaims(n, gone)
    BY ReclaimDrops
  <1>1. PICK gone : Reclaims(n, gone)
    BY <1>0
  <1>2. StoreOK /\ OtherTypes /\ Len(results) \in Nat /\ DOMAIN results = 1..Len(results)
        /\ \A i \in 1..Len(results) : results[i] \in Ops
    BY SeqFacts DEF Core, TypeOK, StoreOK, OtherTypes
  <1>3. UNCHANGED <<finishVars, lockVars, ctlVars, auditVars, ctx, pc, crashes>>
        /\ ctl \notin {"down", "loading"}
    BY DEF ReclaimExpiredForDiskPressure, Serving, shuttingDown
  <1>4. gone \in SUBSET Ops /\ \A q \in gone : /\ mem[q].delivery # "PENDING"
                                              /\ mem[q].status \in TerminalStatuses
    BY <1>1, <1>2, SMT DEF Core, ResultsAreFinished
  <1>5. StoreOK'
    <2>1. /\ mem' \in [Ops -> Record] /\ \A q \in Ops : mem'[q] \in {mem[q], Absent}
      BY <1>1, <1>2, AbsentRecord DEF StoreOK
    <2>2. /\ disk' \in [Ops -> Record] /\ \A q \in Ops : disk'[q] \in {disk[q], Absent}
      BY <1>1, <1>2, AbsentRecord, SMT DEF StoreOK
    <2>3. unlinked' \in SUBSET Ops /\ faults' \in [save : Nat, audit : Nat]
      BY <1>1, <1>2, <1>4, SMT DEF StoreOK
    <2>4. \A q \in Ops : validateRecord(mem'[q]) /\ validateRecord(disk'[q])
      BY <1>2, <2>1, <2>2, AbsentRecord DEF StoreOK
    <2> QED BY <2>1, <2>2, <2>3, <2>4 DEF StoreOK
  <1>6. PICK S \in SUBSET Ops : /\ S = {results[i] : i \in 1..Len(results)} \ gone
                                /\ results' \in Enumerations(S)
    BY <1>1, <1>2, SMT
  <1>7. /\ results' \in Seq(Ops) /\ \A i \in 1..Len(results') : results'[i] \in S
        /\ \A i, j \in 1..Len(results') : results'[i] = results'[j] => i = j
    <2>1. results' \in Seq(S) /\ Distinct(results') /\ \A i \in 1..Len(results') : results'[i] \in S
      BY <1>6, EnumerationSeq
    <2>2. results' \in Seq(Ops)
      BY <2>1, SMT
    <2> QED BY <2>1, <2>2 DEF Distinct
  <1>8. OtherTypes'
    <2>1. evicted' \in [Ops -> {"no", "retention", "pressure"}]
      BY <1>1, <1>2 DEF OtherTypes
    <2> QED BY <1>2, <1>3, <1>7, <2>1 DEF OtherTypes
  <1>9. RunnersMatchRecords'
    <2>1. \A q \in Ops : pc[q] \in Unfinished \/ pc[q] \in Outbox => q \notin gone
      BY <1>4 DEF Core, RunnersMatchRecords, ActiveStatuses, TerminalStatuses
    <2> QED BY <1>1, <1>3, <2>1 DEF Core, RunnersMatchRecords
  <1>10. ResultsAreFinished'
    <2>1. \A q \in S : mem'[q].status \in TerminalStatuses
      BY <1>1, <1>2, <1>6, SMT DEF Core, ResultsAreFinished
    <2>2. \A q \in Ops : pc[q] \in {"release", "index"} => q \notin S
      BY <1>6 DEF Core, ResultsAreFinished
    <2> QED BY <1>3, <1>7, <2>1, <2>2 DEF ResultsAreFinished
  <1>11. LoadingIsQuiet'
    BY <1>3 DEF LoadingIsQuiet
  <1> QED BY <1>5, <1>8, <1>9, <1>10, <1>11 DEF Core, TypeOK, StoreOK, OtherTypes

(* The end of recovery lists the results and runs retention.                *)
LEMMA RecoveredCleans ==
  ASSUME Core, Recovered
  PROVE  /\ \A q \in Ops : pc[q] = "none"
         /\ \E st, order : /\ Publish(st) /\ todo' = ReplaySet(st.mem)
                           /\ CleanedUp(st, order) /\ KeepsResults(st, order)
                           /\ ListsAll(order)
  <1> DEFINE S == {o \in Ops : Present(o)}
  <1>1. PICK order \in Enumerations(S) :
            \E st \in cleanupLocked(order) : Publish(st) /\ todo' = ReplaySet(st.mem)
    BY DEF Recovered
  <1>2. PICK st \in cleanupLocked(order) : Publish(st) /\ todo' = ReplaySet(st.mem)
    BY <1>1
  <1>3. StoreOK /\ OtherTypes
    BY DEF Core, TypeOK, StoreOK, OtherTypes
  <1>4. \A q \in Ops : pc[q] = "none" /\ mem[q].status \notin ActiveStatuses
    BY DEF Core, LoadingIsQuiet, Recovered
  <1>5. /\ order \in Seq(S) /\ Distinct(order) /\ \A i \in 1..Len(order) : order[i] \in S
        /\ \A q \in S : \E i \in 1..Len(order) : order[i] = q
    <2>1. S \in SUBSET Ops
      OBVIOUS
    <2> QED BY <1>1, <2>1, EnumerationSeq
  <1>6. order \in Seq(Ops)
    BY <1>5, SMT
  <1>7. \A q \in S : mem[q].status \in TerminalStatuses
    <2>1. \A q \in Ops : mem[q].status \in ActiveStatuses \cup TerminalStatuses \cup {"absent"}
      BY <1>3 DEF StoreOK, Record
    <2> QED BY <1>4, <2>1 DEF Present
  <1>8. \A i \in 1..Len(order) : mem[order[i]].status \in TerminalStatuses
    BY <1>5, <1>7
  <1>9. CleanedUp(st, order) /\ KeepsResults(st, order)
    BY <1>2, <1>3, <1>5, <1>6, <1>8, CleanupStore, CoreCleanup DEF OtherTypes
  <1>10. ListsAll(order)
    BY <1>5 DEF Present, ListsAll
  <1> QED BY <1>2, <1>4, <1>9, <1>10

(* The end of recovery keeps the core invariant.                            *)
LEMMA CoreRecovered ==
  ASSUME Core, Recovered
  PROVE  Core'
  <1> USE DEF storeVars, resultVars, finishVars, lockVars, ctlVars, auditVars, OnlyControl
  <1>1. PICK st, order : /\ Publish(st) /\ todo' = ReplaySet(st.mem)
                         /\ CleanedUp(st, order) /\ KeepsResults(st, order)
    BY RecoveredCleans
  <1>2. UNCHANGED <<finishVars, lockVars, auditVars, ctx, pc, crashes>>
        /\ ctl' = "replaying" /\ replayErr' = FALSE
    BY DEF Recovered
  <1>3. StoreOK' /\ OtherTypes'
    BY <1>1, <1>2 DEF Core, TypeOK, CleanedUp, StoreOK, OtherTypes, Publish, ControlLocations, ReplaySet
  <1>4. RunnersMatchRecords' /\ ResultsAreFinished' /\ LoadingIsQuiet'
    BY <1>1, <1>2, RecoveredCleans
       DEF RunnersMatchRecords, ResultsAreFinished, LoadingIsQuiet, KeepsResults, Publish, Unfinished, Outbox
  <1> QED BY <1>3, <1>4 DEF Core, TypeOK, StoreOK, OtherTypes

(* Recovering one record keeps the core invariant.                          *)
LEMMA CoreRecoverOne ==
  ASSUME Core, NEW o \in Ops, RecoverInterrupted(o) \/ RecoverTerminal(o)
  PROVE  Core'
  <1> USE DEF storeVars, resultVars, finishVars, lockVars, ctlVars, auditVars
  <1>1. StoreOK /\ OtherTypes /\ ctl = "loading"
    BY DEF Core, TypeOK, StoreOK, OtherTypes, RecoverInterrupted, RecoverTerminal
  <1>2. \A q \in Ops : pc[q] = "none" /\ ctx[q] = "unset" /\ mem[q].status \notin ActiveStatuses
    BY <1>1 DEF Core, LoadingIsQuiet
  <1>3. UNCHANGED <<results, pc, ctx>>
    BY DEF RecoverInterrupted, RecoverTerminal
  <1>4. SUFFICES ASSUME StoreOK', OtherTypes',
                        mem'[o].status \in TerminalStatuses \/ mem'[o] = mem[o],
                        \A q \in Ops : q # o => mem'[q] = mem[q]
                 PROVE  Core'
    <2>1. CASE RecoverInterrupted(o)
      <3>1. PICK u : u = [disk[o] EXCEPT !.status = "interrupted", !.rev = @ + 1, !.fin = clock + 1,
                                         !.delivery = "PENDING"]
        OBVIOUS
      <3>2. u \in Record /\ validateRecord(u) /\ u.status = "interrupted"
        BY <2>1, <3>1, InterruptedRecord DEF RecoverInterrupted
      <3>3. \/ /\ Saved(o, u) /\ todo' = todo \ {o} /\ clock' = clock + 1
               /\ outcome' = [outcome EXCEPT ![o] = "interrupted"] /\ UNCHANGED ctl
            \/ SaveFailed(o, u) /\ ctl' = "failed" /\ UNCHANGED <<todo, clock, outcome>>
        BY <2>1, <3>1 DEF RecoverInterrupted
      <3>4. StoreOK' /\ (mem'[o] \in {u, mem[o]}) /\ \A q \in Ops : q # o => mem'[q] = mem[q]
        <4>1. CASE Saved(o, u)
          BY <1>1, <3>2, <4>1, SavedStore
        <4>2. CASE SaveFailed(o, u)
          BY <1>1, <3>2, <4>2, SaveFailedStore
        <4> QED BY <3>3, <4>1, <4>2
      <3>5. OtherTypes'
        <4>1. /\ todo' \in SUBSET Ops /\ clock' \in Nat /\ ctl' \in ControlLocations
              /\ outcome' \in [Ops -> TerminalStatuses \cup {"none"}]
          <5>1. /\ todo \in SUBSET Ops /\ clock \in Nat /\ ctl \in ControlLocations
                /\ outcome \in [Ops -> TerminalStatuses \cup {"none"}]
            BY <1>1 DEF OtherTypes
          <5>2. "interrupted" \in TerminalStatuses /\ "failed" \in ControlLocations
            BY DEF TerminalStatuses, ControlLocations
          <5>3. /\ todo' \in {todo, todo \ {o}} /\ clock' \in {clock, clock + 1} /\ ctl' \in {ctl, "failed"}
                /\ outcome' \in {outcome, [outcome EXCEPT ![o] = "interrupted"]}
            BY <3>3
          <5>4. todo' \in SUBSET Ops /\ clock' \in Nat /\ ctl' \in ControlLocations
            BY <5>1, <5>2, <5>3, SMT
          <5>5. outcome' \in [Ops -> TerminalStatuses \cup {"none"}]
            BY <5>1, <5>2, <5>3
          <5> QED BY <5>4, <5>5
        <4> QED BY <1>1, <2>1, <4>1 DEF RecoverInterrupted, OtherTypes
      <3> QED BY <3>2, <3>4, <3>5 DEF TerminalStatuses
    <2>2. CASE RecoverTerminal(o)
      <3>1. /\ mem' = [mem EXCEPT ![o] = disk[o]] /\ UNCHANGED <<disk, unlinked, faults>>
            /\ disk[o].status \in TerminalStatuses
        BY <2>2 DEF RecoverTerminal, Terminal
      <3>2. /\ StoreOK' /\ mem'[o].status \in TerminalStatuses
            /\ \A q \in Ops : q # o => mem'[q] = mem[q]
        BY <1>1, <3>1 DEF StoreOK
      <3>3. todo' \in SUBSET Ops /\ outcome' \in [Ops -> TerminalStatuses \cup {"none"}]
        BY <1>1, <2>2, <3>1 DEF RecoverTerminal, OtherTypes
      <3>4. OtherTypes'
        BY <1>1, <2>2, <3>3 DEF RecoverTerminal, OtherTypes
      <3> QED BY <3>2, <3>4
    <2> QED BY <2>1, <2>2
  <1>5. RunnersMatchRecords' /\ LoadingIsQuiet'
    BY <1>2, <1>3, <1>4 DEF RunnersMatchRecords, LoadingIsQuiet, Unfinished, Outbox,
                            ActiveStatuses, TerminalStatuses
  <1>6. ResultsAreFinished'
    <2>1. \A i \in 1..Len(results) : results[i] \in Ops
      BY <1>1, SeqFacts DEF OtherTypes
    <2> QED BY <1>2, <1>3, <1>4, <2>1, SMT DEF Core, ResultsAreFinished
  <1> QED BY <1>4, <1>5, <1>6 DEF Core, TypeOK, StoreOK, OtherTypes

(* The end of the process, orderly or not, keeps the core invariant.        *)
LEMMA CoreGone ==
  ASSUME Core, Exit \/ Crash
  PROVE  Core'
  <1>1. PICK d \in [Ops -> Record] : Gone(d) /\ \A q \in Ops : d[q] \in {disk[q], Absent}
    <2>1. CASE Exit
      <3>1. Synced(disk) \in [Ops -> Record] /\ \A q \in Ops : Synced(disk)[q] \in {disk[q], Absent}
        BY AbsentRecord DEF Core, TypeOK, Synced
      <3> QED BY <2>1, <3>1 DEF Exit
    <2>2. CASE Crash
      <3>1. PICK lost \in SUBSET unlinked : Gone([o \in Ops |-> IF o \in lost THEN Absent ELSE disk[o]])
        BY <2>2 DEF Crash
      <3> DEFINE d == [o \in Ops |-> IF o \in lost THEN Absent ELSE disk[o]]
      <3>2. d \in [Ops -> Record] /\ \A q \in Ops : d[q] \in {disk[q], Absent}
        BY AbsentRecord DEF Core, TypeOK
      <3> QED BY <3>1, <3>2
    <2> QED BY <2>1, <2>2
  <1>2. crashes' \in Nat
    BY SMT DEF Exit, Crash, Core, TypeOK
  <1>3. StoreOK'
    <2>1. mem' \in [Ops -> Record] /\ \A q \in Ops : mem'[q] = Absent
      BY <1>1, AbsentRecord DEF Gone
    <2>2. \A q \in Ops : validateRecord(mem'[q]) /\ validateRecord(disk'[q])
      BY <1>1, <2>1, AbsentRecord DEF Gone, Core, TypeOK
    <2> QED BY <1>1, <2>1, <2>2 DEF Gone, Core, TypeOK, StoreOK
  <1>4. OtherTypes'
    <2>1. lease' \in [Ops -> BOOLEAN] /\ replayErr' \in BOOLEAN
      BY <1>1 DEF Gone
    <2>2. /\ results' \in Seq(Ops) /\ held' \in [Projects -> Ops \cup {NoOp}]
          /\ ctx' \in [Ops -> {"unset", "live", "done"}] /\ pc' \in [Ops -> Locations]
          /\ ctl' \in ControlLocations /\ todo' \in SUBSET Ops
      BY <1>1, SMT DEF Gone, Locations, ControlLocations
    <2> QED BY <1>1, <1>2, <2>1, <2>2 DEF Gone, Core, TypeOK, OtherTypes, finishVars, auditVars
  <1>5. RunnersMatchRecords' /\ LoadingIsQuiet'
    BY <1>1, AbsentRecord DEF Gone, RunnersMatchRecords, LoadingIsQuiet, Unfinished, Outbox, ActiveStatuses
  <1>6. ResultsAreFinished'
    BY <1>1, SMT DEF Gone, ResultsAreFinished
  <1> QED BY <1>3, <1>4, <1>5, <1>6 DEF Core, TypeOK, StoreOK, OtherTypes

(* Steps that only move the control thread, time, or a failed delivery.     *)
LEMMA CoreControl ==
  ASSUME Core,
         \/ Tick \/ Load \/ StartupDone \/ Shutdown \/ ShutdownWait \/ Drain \/ DrainPassDone
         \/ ShutdownExpires
  PROVE  Core'
  <1> USE DEF storeVars, resultVars, finishVars, lockVars, ctlVars, auditVars, OnlyControl
  <1>1. UNCHANGED <<storeVars, resultVars, clock, outcome, lockVars, auditVars, ctx, pc, crashes>>
    BY DEF Tick, Load, StartupDone, Shutdown, ShutdownWait, Drain, DrainPassDone, ShutdownExpires
  <1>2. ctl' \in {"down", "loading"} => ctl \in {"down", "loading"}
    BY DEF Tick, Load, StartupDone, Shutdown, ShutdownWait, Drain, DrainPassDone, ShutdownExpires
  <1>3. StoreOK' /\ OtherTypes'
    <2>1. ctl \in ControlLocations /\ todo \in SUBSET Ops /\ cutoff \in Nat /\ clock \in Nat
      BY DEF Core, TypeOK
    <2>2. ctl' \in ControlLocations /\ todo' \in SUBSET Ops
      BY <2>1 DEF Tick, Load, StartupDone, Shutdown, ShutdownWait, Drain, DrainPassDone,
                  ShutdownExpires, ReplaySet, ControlLocations
    <2>3. cutoff' \in Nat
      <3>1. cutoff' = cutoff \/ cutoff' \in (cutoff + 1)..clock
        BY DEF Tick, Load, StartupDone, Shutdown, ShutdownWait, Drain, DrainPassDone, ShutdownExpires
      <3> QED BY <2>1, <3>1, SMT
    <2>4. replayErr' \in BOOLEAN
      <3>1. replayErr \in BOOLEAN
        BY DEF Core, TypeOK
      <3>2. replayErr' \in {replayErr, FALSE}
        BY DEF Tick, Load, StartupDone, Shutdown, ShutdownWait, Drain, DrainPassDone, ShutdownExpires
      <3> QED BY <3>1, <3>2
    <2> QED BY <1>1, <2>2, <2>3, <2>4 DEF Core, TypeOK, StoreOK, OtherTypes
  <1>4. RunnersMatchRecords' /\ ResultsAreFinished' /\ LoadingIsQuiet'
    BY <1>1, <1>2 DEF Core, RunnersMatchRecords, ResultsAreFinished, LoadingIsQuiet
  <1> QED BY <1>3, <1>4 DEF Core, TypeOK, StoreOK, OtherTypes

(* Replay passes and audit faults keep the core invariant.                  *)
LEMMA CoreDeliveryControl ==
  ASSUME Core, NEW o \in Ops, AuditFault(o) \/ ReplayOne(o)
  PROVE  Core'
  <1> USE DEF storeVars, resultVars, finishVars, lockVars, ctlVars, auditVars, OnlyControl
  <1>1. PICK l \in {"none", "deliver", "confirm"} :
            Goto(o, l) /\ (l = "deliver" => mem[o].delivery = "PENDING")
    BY DEF AuditFault, ReplayOne
  <1>2. /\ UNCHANGED <<mem, disk, unlinked, resultVars, finishVars, lockVars, ctl, auditVars, ctx, crashes>>
        /\ ctl \notin {"down", "loading"}
    BY NotLoading DEF AuditFault, ReplayOne, Replaying
  <1>3. /\ pc' \in [Ops -> Locations] /\ pc'[o] = l
        /\ \A q \in Ops : q # o => pc'[q] = pc[q]
    <2>1. pc \in [Ops -> Locations]
      BY DEF Core, TypeOK
    <2> QED BY <1>1, <2>1 DEF Goto, Locations
  <1>4. StoreOK' /\ OtherTypes'
    <2>1. todo' \in SUBSET Ops
      BY DEF Core, TypeOK, AuditFault, ReplayOne
    <2>2. faults' \in [save : Nat, audit : Nat]
      BY SMT DEF Core, TypeOK, AuditFault, ReplayOne
    <2>3. replayErr' \in BOOLEAN
      <3>1. replayErr \in BOOLEAN /\ Replaying \in BOOLEAN
        BY SMT DEF Core, TypeOK, Replaying
      <3>2. replayErr' \in {replayErr, Replaying}
        BY DEF AuditFault, ReplayOne
      <3> QED BY <3>1, <3>2
    <2> QED BY <1>2, <1>3, <2>1, <2>2, <2>3 DEF Core, TypeOK, StoreOK, OtherTypes
  <1>5. RunnersMatchRecords' /\ ResultsAreFinished' /\ LoadingIsQuiet'
    BY <1>1, <1>2, <1>3 DEF Core, RunnersMatchRecords, ResultsAreFinished, LoadingIsQuiet,
                            Unfinished, Outbox
  <1> QED BY <1>4, <1>5 DEF Core, TypeOK, StoreOK, OtherTypes

(* The core invariant is inductive.                                         *)
LEMMA CoreNext == Core /\ [Next]_vars => Core'
  <1> SUFFICES ASSUME Core, [Next]_vars PROVE Core'
    OBVIOUS
  <1>1. CASE UNCHANGED vars
    <2> USE <1>1 DEF vars, storeVars, resultVars, finishVars, lockVars, ctlVars, auditVars
    <2>1. TypeOK'
      BY DEF Core, TypeOK
    <2>2. RunnersMatchRecords' /\ ResultsAreFinished' /\ LoadingIsQuiet'
      BY DEF Core, RunnersMatchRecords, ResultsAreFinished, LoadingIsQuiet
    <2> QED BY <2>1, <2>2 DEF Core
  <1>2. CASE \E o \in Ops, spec \in Specs : StartOperation(o, spec)
    BY <1>2, CoreStart
  <1>3. CASE \E o \in Ops : Runner(o)
    BY <1>3, CoreQuietRunner, CoreUpdates, CoreFinishes, CoreMarkDelivered, CoreOnTerminal DEF Runner
  <1>4. CASE \E o \in Ops : Cancel(o) \/ ShutdownCancel(o)
    BY <1>4, CoreCancels
  <1>5. CASE \E o \in Ops : AdvanceProgress(o)
    BY <1>5, CoreUpdates
  <1>6. CASE \E o \in Ops : AuditFault(o) \/ ReplayOne(o)
    BY <1>6, CoreDeliveryControl
  <1>7. CASE Get \/ ReclaimExpiredForDiskPressure
    BY <1>7, CoreGet, CoreReclaim
  <1>8. CASE \/ Tick \/ Load \/ StartupDone \/ Shutdown \/ ShutdownWait \/ Drain \/ DrainPassDone
             \/ ShutdownExpires
    BY <1>8, CoreControl
  <1>9. CASE Recovered \/ \E o \in Ops : RecoverInterrupted(o) \/ RecoverTerminal(o)
    BY <1>9, CoreRecovered, CoreRecoverOne
  <1>10. CASE Exit \/ Crash
    BY <1>10, CoreGone
  <1> QED BY <1>1, <1>2, <1>3, <1>4, <1>5, <1>6, <1>7, <1>8, <1>9, <1>10
          DEF Next, Startup, ShutdownWork

(* Every variable keeps its type and every record, visible or journaled, is *)
(* one validateRecord accepts (recoverJournal refuses to start otherwise),  *)
(* in every reachable state.                                                *)
THEOREM TypeCorrect == Spec => []TypeOK
  <1>1. Core => TypeOK
    BY DEF Core
  <1> QED BY <1>1, CoreInit, CoreNext, PTL DEF Spec

=============================================================================
