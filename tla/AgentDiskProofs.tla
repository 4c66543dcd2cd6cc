--------------------------- MODULE AgentDiskProofs ---------------------------
(***************************************************************************)
(* Proofs about the components of an Agent's disk: the storage pressure    *)
(* and its cleanup (StoragePressure), and the record of unobserved changes *)
(* (DockerSnapshot).                                                       *)
(***************************************************************************)
EXTENDS StoragePressure, DockerSnapshot, TLAPS

(* Most leaves are first-order; the ones that need arithmetic or updates    *)
(* of functions and records cite SMT.                                       *)
USE Zenon

-----------------------------------------------------------------------------
(* The watermarks.                                                          *)

(* Multiplication by a natural number keeps the order.                      *)
LEMMA TimesMonotone ==
  ASSUME NEW n \in Nat, NEW a \in Nat, NEW b \in Nat, a <= b
  PROVE  n * a <= n * b
  <1> DEFINE d == b - a
  <1>1. d \in Nat /\ b = a + d
    BY SMT
  <1>2. n * b = n * a + n * d
    BY <1>1, SMT
  <1>3. n * d \in Nat /\ n * a \in Nat
    BY <1>1, SMT
  <1> QED BY <1>2, <1>3, SMT

(* Division by 100 keeps the order.                                         *)
LEMMA HundredthMonotone ==
  ASSUME NEW a \in Nat, NEW b \in Nat, a <= b
  PROVE  a \div 100 \in Nat /\ a \div 100 <= b \div 100
  BY SMT

(* percentBytes grows with the percentage and stays within the whole.       *)
LEMMA PercentBytes ==
  ASSUME NEW total \in Nat, NEW p \in Nat, NEW q \in Nat, p <= q
  PROVE  /\ percentBytes(total, p) \in Nat
         /\ percentBytes(total, p) <= percentBytes(total, q)
         /\ p <= 100 => percentBytes(total, p) <= total
  <1>1. total * p \in Nat /\ total * q \in Nat /\ total * 100 \in Nat
    BY SMT
  <1>2. total * p <= total * q
    BY TimesMonotone
  <1>3. p <= 100 => total * p <= total * 100
    BY TimesMonotone
  <1>4. (total * 100) \div 100 = total
    BY SMT
  <1> QED BY <1>1, <1>2, <1>3, <1>4, HundredthMonotone, SMT DEF percentBytes

(* The exit watermarks are the stricter ones, whatever the configuration   *)
(* that diskbudget.New accepts.                                             *)
LEMMA ExitIsStricter ==
  ASSUME NEW b, ConfigOK(b), NEW total \in Nat
  PROVE  /\ entryFloor(b, total) \in Nat /\ exitFloor(b, total) \in Nat
         /\ entryFloor(b, total) <= exitFloor(b, total)
         /\ exitCeiling(b) \in Nat /\ exitCeiling(b) <= b.stateBudget
  <1>1. /\ b.entryPct \in Nat /\ b.exitPct \in Nat /\ b.entryPct <= b.exitPct
        /\ b.entryFree \in Nat /\ b.exitFree \in Nat /\ b.entryFree <= b.exitFree
        /\ b.stateBudget \in Nat /\ b.exitStatePct \in Nat /\ b.exitStatePct <= 100
    BY SMT DEF ConfigOK
  <1>2. /\ percentBytes(total, b.entryPct) \in Nat /\ percentBytes(total, b.exitPct) \in Nat
        /\ percentBytes(total, b.entryPct) <= percentBytes(total, b.exitPct)
    <2>1. b.exitPct <= b.exitPct
      BY <1>1, SMT
    <2> QED BY <1>1, <2>1, PercentBytes
  <1>3. exitCeiling(b) \in Nat /\ exitCeiling(b) <= b.stateBudget
    BY <1>1, PercentBytes DEF exitCeiling
  <1> HIDE DEF percentBytes
  <1> QED BY <1>1, <1>2, <1>3, SMT DEF entryFloor, exitFloor, maximum

(* The state a Manager may be in after an observation.                      *)
Truthful(b, p) ==
    /\ p.degraded <=> p.reason # NoReason
    /\ p.degraded =>
         p.obs.free < exitFloor(b, p.obs.total) \/ p.obs.used > exitCeiling(b)
    /\ ~p.degraded /\ p.obs.total > 0 =>
         p.obs.free >= entryFloor(b, p.obs.total) /\ p.obs.used <= b.stateBudget

Pressures == [obs : Observations, degraded : BOOLEAN, reason : Reasons]

(* Manager.Observe keeps the pressure state truthful.                       *)
LEMMA ObserveIsTruthful ==
  ASSUME NEW b, ConfigOK(b), NEW p \in Pressures, Truthful(b, p), NEW obs \in Observations
  PROVE  Observe(b, p, obs) \in Pressures /\ Truthful(b, Observe(b, p, obs))
  <1> DEFINE freeLow  == obs.free < entryFloor(b, obs.total)
             exceeded == obs.used > b.stateBudget
             atExit   == obs.free >= exitFloor(b, obs.total) /\ obs.used <= exitCeiling(b)
             now      == IF p.degraded THEN ~atExit ELSE freeLow \/ exceeded
             why      == reason(freeLow, exceeded)
             new      == Observe(b, p, obs)
  <1>1. /\ obs.total \in Nat /\ obs.free \in Nat /\ obs.used \in Nat
        /\ p.degraded \in BOOLEAN /\ p.reason \in Reasons
    BY DEF Observations, Pressures
  <1>2. /\ entryFloor(b, obs.total) \in Nat /\ exitFloor(b, obs.total) \in Nat
        /\ entryFloor(b, obs.total) <= exitFloor(b, obs.total)
        /\ exitCeiling(b) \in Nat /\ exitCeiling(b) <= b.stateBudget /\ b.stateBudget \in Nat
    BY <1>1, ExitIsStricter DEF ConfigOK
  <1>3. why \in Reasons /\ (why = NoReason <=> ~freeLow /\ ~exceeded)
    BY DEF reason, Reasons, NoReason
  <1>4. /\ new.obs = obs /\ new.degraded = now
        /\ new.reason = IF now /\ why = NoReason THEN p.reason ELSE why
        /\ new = [obs |-> obs, degraded |-> now, reason |-> new.reason]
    BY DEF Observe
  <1>5. freeLow => ~atExit
    BY <1>1, <1>2, SMT
  <1>6. exceeded => ~atExit
    BY <1>1, <1>2, SMT
  <1>7. now \in BOOLEAN
    BY <1>1
  <1>8. new.reason \in Reasons
    BY <1>1, <1>3, <1>4
  <1>9. new \in Pressures
    BY <1>4, <1>7, <1>8 DEF Pressures
  <1>10. now => ~atExit
    BY <1>5, <1>6
  <1>11. ~now => ~freeLow /\ ~exceeded
    BY <1>5, <1>6
  <1>12. now <=> new.reason # NoReason
    <2>1. p.degraded <=> p.reason # NoReason
      BY DEF Truthful
    <2>2. now /\ why = NoReason => p.degraded
      BY <1>3
    <2> HIDE DEF now, why
    <2> QED BY <1>3, <1>4, <1>11, <2>1, <2>2
  <1>13. now => obs.free < exitFloor(b, obs.total) \/ obs.used > exitCeiling(b)
    BY <1>1, <1>2, <1>10, SMT
  <1>14. ~now => obs.free >= entryFloor(b, obs.total) /\ obs.used <= b.stateBudget
    BY <1>1, <1>2, <1>11, SMT
  <1>15. new.degraded <=> new.reason # NoReason
    BY <1>4, <1>12
  <1>16. new.degraded => new.obs.free < exitFloor(b, new.obs.total) \/ new.obs.used > exitCeiling(b)
    BY <1>4, <1>13
  <1>17. ~new.degraded => new.obs.free >= entryFloor(b, new.obs.total) /\ new.obs.used <= b.stateBudget
    BY <1>4, <1>14
  <1> HIDE DEF now, new
  <1> QED BY <1>9, <1>15, <1>16, <1>17 DEF Truthful, new

-----------------------------------------------------------------------------
(* The disk.                                                                *)

(* The six tiers, by position.                                              *)
LEMMA TierNames ==
  /\ Len(Tiers) = 6 /\ DOMAIN Tiers = 1..6
  /\ TierKinds = {"temp", "acked", "expired", "excess", "old", "unacked"}
  /\ \A i \in 1..6 : Tiers[i] \in TierKinds
  /\ \A i, j \in 1..6 : Tiers[i] = Tiers[j] => i = j
  <1>1. Len(Tiers) = 6 /\ DOMAIN Tiers = 1..6
    BY SMT DEF Tiers
  <1>2. /\ Tiers[1] = "temp" /\ Tiers[2] = "acked" /\ Tiers[3] = "expired"
        /\ Tiers[4] = "excess" /\ Tiers[5] = "old" /\ Tiers[6] = "unacked"
    BY DEF Tiers
  <1>3. \A i \in 1..6 : i = 1 \/ i = 2 \/ i = 3 \/ i = 4 \/ i = 5 \/ i = 6
    BY SMT
  <1>4. TierKinds = {Tiers[i] : i \in 1..6}
    BY <1>1 DEF TierKinds
  <1>5. TierKinds = {"temp", "acked", "expired", "excess", "old", "unacked"}
    <2>1. \A k : k \in TierKinds => k \in {"temp", "acked", "expired", "excess", "old", "unacked"}
      BY <1>2, <1>3, <1>4
    <2>2. \A k \in {"temp", "acked", "expired", "excess", "old", "unacked"} : k \in TierKinds
      BY <1>2, <1>4, SMT
    <2> QED BY <2>1, <2>2
  <1>6. \A i \in 1..6 : Tiers[i] \in TierKinds
    BY <1>4
  <1>7. \A i, j \in 1..6 : Tiers[i] = Tiers[j] => i = j
    BY <1>2, <1>3
  <1> QED BY <1>1, <1>5, <1>6, <1>7

(* The kinds of objects, by name.                                           *)
LEMMA KindNames ==
  /\ Kinds = {"temp", "acked", "expired", "excess", "old", "unacked", "kept", "staging", "foreign"}
  /\ StateKinds = Kinds \ {"staging", "foreign"}
  /\ TierKinds \subseteq StateKinds
  BY TierNames DEF Kinds, StateKinds

(* The bytes of a disk are natural numbers, and fit.                        *)
LEMMA HeldIsNatural ==
  ASSUME NEW d \in Disks
  PROVE  /\ d \in [Kinds -> Nat]
         /\ StateHeld(d) \in Nat /\ AllHeld(d) \in Nat
         /\ StateHeld(d) <= AllHeld(d) /\ AllHeld(d) <= TotalBytes
  <1>1. \A k \in Kinds : d[k] \in Nat
    BY StorageAssumption, SMT DEF Disks
  <1>2. d = [k \in Kinds |-> d[k]]
    BY DEF Disks
  <1>3. d \in [Kinds -> Nat]
    BY <1>1, <1>2
  <1>4. /\ d["temp"] \in Nat /\ d["acked"] \in Nat /\ d["expired"] \in Nat /\ d["excess"] \in Nat
        /\ d["old"] \in Nat /\ d["unacked"] \in Nat /\ d["kept"] \in Nat
        /\ d["staging"] \in Nat /\ d["foreign"] \in Nat
    BY <1>1, KindNames
  <1>5. AllHeld(d) <= TotalBytes
    BY DEF Disks
  <1> QED BY <1>3, <1>4, <1>5, SMT DEF StateHeld, AllHeld

(* Taking n objects of one kind away, or with a negative n adding some.     *)
LEMMA TakeFromDisk ==
  ASSUME NEW d \in Disks, NEW k \in Kinds, NEW n \in Int, n <= d[k], AllHeld(d) - n <= TotalBytes
  PROVE  LET e == [d EXCEPT ![k] = @ - n] IN
         /\ e \in Disks
         /\ AllHeld(e) = AllHeld(d) - n
         /\ StateHeld(e) = StateHeld(d) - (IF k \in {"staging", "foreign"} THEN 0 ELSE n)
         /\ e[k] = d[k] - n /\ \A q \in Kinds \ {k} : e[q] = d[q]
  <1> DEFINE e == [d EXCEPT ![k] = @ - n]
  <1>1. d \in [Kinds -> Nat] /\ TotalBytes \in Nat
    BY HeldIsNatural, StorageAssumption
  <1>2. e[k] = d[k] - n /\ \A q \in Kinds \ {k} : e[q] = d[q]
    BY <1>1
  <1>3. e \in [Kinds -> Nat]
    BY <1>1, SMT
  <1>4. /\ d["temp"] \in Nat /\ d["acked"] \in Nat /\ d["expired"] \in Nat /\ d["excess"] \in Nat
        /\ d["old"] \in Nat /\ d["unacked"] \in Nat /\ d["kept"] \in Nat
        /\ d["staging"] \in Nat /\ d["foreign"] \in Nat
        /\ e["temp"] \in Nat /\ e["acked"] \in Nat /\ e["expired"] \in Nat /\ e["excess"] \in Nat
        /\ e["old"] \in Nat /\ e["unacked"] \in Nat /\ e["kept"] \in Nat
        /\ e["staging"] \in Nat /\ e["foreign"] \in Nat
    BY <1>1, <1>3, KindNames
  <1> HIDE DEF e
  <1>5. /\ AllHeld(e) = AllHeld(d) - n
        /\ StateHeld(e) = StateHeld(d) - (IF k \in {"staging", "foreign"} THEN 0 ELSE n)
    <2>1. \/ k = "temp" \/ k = "acked" \/ k = "expired" \/ k = "excess" \/ k = "old" \/ k = "unacked"
          \/ k = "kept" \/ k = "staging" \/ k = "foreign"
      BY KindNames
    <2> QED BY <1>2, <1>4, <2>1, KindNames, SMT DEF AllHeld, StateHeld
  <1>6. AllHeld(e) <= TotalBytes
    BY <1>5
  <1>7. \A q \in Kinds : e[q] <= TotalBytes
    <2>1. /\ e["temp"] <= AllHeld(e) /\ e["acked"] <= AllHeld(e) /\ e["expired"] <= AllHeld(e)
          /\ e["excess"] <= AllHeld(e) /\ e["old"] <= AllHeld(e) /\ e["unacked"] <= AllHeld(e)
          /\ e["kept"] <= AllHeld(e) /\ e["staging"] <= AllHeld(e) /\ e["foreign"] <= AllHeld(e)
      BY <1>4, SMT DEF AllHeld, StateHeld
    <2>2. \A q \in Kinds : e[q] <= AllHeld(e)
      BY <2>1, KindNames
    <2>3. AllHeld(e) \in Int
      BY <1>4, SMT DEF AllHeld, StateHeld
    <2> QED BY <1>1, <1>3, <1>6, <2>2, <2>3, SMT
  <1>8. e \in [Kinds -> 0..TotalBytes]
    <2>1. e = [q \in Kinds |-> e[q]]
      BY <1>3
    <2>2. \A q \in Kinds : e[q] \in 0..TotalBytes
      BY <1>1, <1>3, <1>7, SMT
    <2> QED BY <2>1, <2>2
  <1>9. e \in Disks
    BY <1>6, <1>8 DEF Disks
  <1> QED BY <1>2, <1>5, <1>9 DEF e

-----------------------------------------------------------------------------
(* The inductive invariant of StoragePressure.                              *)

(* A pass that is under way asked for what both exit watermarks were        *)
(* missing when it began, and still misses some of it.                      *)
PassAsks ==
    /\ job.at = "observe" => job.pass < MaxPasses
    /\ job.at = "staging" => job.tier = 1
    /\ job.at = "tiers" => job.tier >= 1
    /\ job.at \in {"staging", "tiers"} =>
         /\ job.needed >= exitFloor(Budget, TotalBytes) - job.before.free
         /\ job.needed >= job.before.used - exitCeiling(Budget)
         /\ job.tier <= Len(Tiers) => job.freed < job.needed

(* While nobody else writes, what a pass has freed is what the disk gained. *)
QuietAccount ==
    job.at \in {"staging", "tiers"} /\ job.quiet =>
        /\ StateHeld(disk) = job.before.used - job.freed
        /\ TotalBytes - AllHeld(disk) >= job.before.free + job.freed

StorageInv == StorageTypeOK /\ PressureState /\ LossOrdered /\ PassAsks /\ QuietAccount

(* What an observation of the disk gives.                                   *)
LEMMA RefreshedIsTruthful ==
  ASSUME StorageTypeOK, PressureState
  PROVE  /\ refreshed \in Pressures /\ Truthful(Budget, refreshed)
         /\ refreshed.obs = observeFilesystem(disk)
         /\ refreshed.obs.total = TotalBytes /\ TotalBytes \in Nat
         /\ refreshed.obs.free = TotalBytes - AllHeld(disk) /\ refreshed.obs.free \in Nat
         /\ refreshed.obs.used = StateHeld(disk) /\ refreshed.obs.used \in Nat
         /\ refreshed.degraded \in BOOLEAN
  <1>1. ConfigOK(Budget) /\ TotalBytes \in Nat
    BY StorageAssumption
  <1>2. press \in Pressures /\ Truthful(Budget, press) /\ disk \in Disks
    BY DEF StorageTypeOK, Pressures, PressureState, Truthful
  <1>3. observeFilesystem(disk) \in Observations
    BY <1>1, <1>2, HeldIsNatural, SMT DEF observeFilesystem, Observations
  <1>4. refreshed \in Pressures /\ Truthful(Budget, refreshed)
    BY <1>1, <1>2, <1>3, ObserveIsTruthful DEF refreshed
  <1>5. refreshed.obs = observeFilesystem(disk)
    BY DEF refreshed, Observe
  <1>6. refreshed.degraded \in BOOLEAN /\ refreshed.obs \in Observations
    BY <1>4 DEF Pressures
  <1> QED BY <1>1, <1>3, <1>4, <1>5, <1>6, SMT DEF observeFilesystem, Observations

(* A refreshed pressure state keeps the first two parts of the invariant.   *)
LEMMA PressKept ==
  ASSUME StorageTypeOK, PressureState, press' = refreshed \/ press' = press
  PROVE  press' \in Pressures /\ PressureState'
  <1>1. press \in Pressures /\ Truthful(Budget, press)
    BY DEF StorageTypeOK, Pressures, PressureState, Truthful
  <1>2. press' \in Pressures /\ Truthful(Budget, press')
    BY <1>1, RefreshedIsTruthful
  <1> QED BY <1>2 DEF PressureState, Truthful

(* The records of a cleanup.                                                *)
Jobs == [who : {"none", "loop", "admit"},
         at : {"idle", "observe", "staging", "tiers", "failed", "again"},
         pass : 0..MaxPasses, tier : 0..7, before : Observations,
         needed : Nat, freed : Nat, owed : [TierKinds -> Nat], quiet : BOOLEAN]

(* Without a pass under way the three parts about passes say nothing.       *)
LEMMA NoPass ==
  ASSUME job'.at \in {"idle", "failed", "again"} \/ (job'.at = "observe" /\ job'.pass < MaxPasses)
  PROVE  LossOrdered' /\ PassAsks' /\ QuietAccount'
  BY DEF LossOrdered, PassAsks, QuietAccount

(* NoJob and the end of a pass.                                             *)
LEMMA Ended ==
  ASSUME StorageTypeOK, job' = NoJob \/ job' = Finish
  PROVE  job' \in Jobs /\ job'.at \in {"idle", "again"}
  <1>1. job \in Jobs /\ MaxPasses \in Nat
    BY TierNames, StorageAssumption, SMT DEF StorageTypeOK, Jobs
  <1>2. NoJob \in Jobs /\ NoJob.at = "idle"
    BY <1>1, SMT DEF NoJob, Jobs, Observations, Unobserved
  <1>3. [job EXCEPT !.at = "again"] \in Jobs /\ [job EXCEPT !.at = "again"].at = "again"
    BY <1>1 DEF Jobs
  <1> QED BY <1>2, <1>3 DEF Finish

Lefts == [disk : Disks, faults : Nat, writes : Nat]

(* StorageTypeOK, with the types named.                                     *)
LEMMA StorageTypes ==
  /\ StorageTypeOK <=> /\ disk \in Disks /\ press \in Pressures /\ job \in Jobs
                       /\ granted \in {"none", "backup", "restore"} /\ left \in Lefts
  /\ StorageTypeOK' <=> /\ disk' \in Disks /\ press' \in Pressures /\ job' \in Jobs
                        /\ granted' \in {"none", "backup", "restore"} /\ left' \in Lefts
  BY TierNames, SMT DEF StorageTypeOK, Pressures, Jobs, Lefts

(* A budget that is spent keeps its type.                                   *)
LEMMA SpendKeeps ==
  ASSUME left \in Lefts, NEW c \in {"faults", "writes"}, Spend(c)
  PROVE  left' \in Lefts
  BY SMT DEF Spend, Lefts

(* A step that ends the cleanup, or begins one, whatever it observes.       *)
LEMMA EndsOrBegins ==
  ASSUME StorageInv, press' \in {press, refreshed}, UNCHANGED <<disk, granted>>, left' \in Lefts,
         \/ job' \in {NoJob, Finish}
         \/ job' = [NoJob EXCEPT !.who = "loop", !.at = "observe"]
         \/ job' = [NoJob EXCEPT !.who = "admit", !.at = "observe"]
         \/ job' = [job EXCEPT !.at = "observe"] /\ job.pass # MaxPasses
  PROVE  StorageInv'
  <1>1. job \in Jobs /\ MaxPasses \in Nat \ {0} /\ StorageTypeOK /\ PressureState
    BY StorageTypes, StorageAssumption DEF StorageInv
  <1>2. press' \in Pressures /\ PressureState'
    BY <1>1, PressKept
  <1>3. job' \in Jobs /\ (job'.at \in {"idle", "again"} \/ (job'.at = "observe" /\ job'.pass < MaxPasses))
    <2>1. CASE job' = NoJob \/ job' = Finish
      BY <1>1, <2>1, Ended
    <2>2. CASE job' = [job EXCEPT !.at = "observe"] /\ job.pass # MaxPasses
      BY <1>1, <2>2, SMT DEF Jobs
    <2>3. CASE \E w \in {"loop", "admit"} : job' = [NoJob EXCEPT !.who = w, !.at = "observe"]
      <3>1. NoJob \in Jobs /\ NoJob.pass = 0
        BY <1>1, SMT DEF NoJob, Jobs, Observations, Unobserved
      <3>2. PICK w \in {"loop", "admit"} : job' = [NoJob EXCEPT !.who = w, !.at = "observe"]
        BY <2>3
      <3>3. job' \in Jobs
        BY <3>1, <3>2 DEF Jobs
      <3>4. job'.at = "observe" /\ job'.pass = 0
        BY <3>1, <3>2 DEF Jobs
      <3> QED BY <1>1, <3>3, <3>4, SMT
    <2> QED BY <2>1, <2>2, <2>3
  <1>4. LossOrdered' /\ PassAsks' /\ QuietAccount'
    BY <1>3, NoPass
  <1>5. StorageTypeOK'
    BY <1>1, <1>2, <1>3, StorageTypes
  <1> QED BY <1>2, <1>4, <1>5 DEF StorageInv

(* BeginPass asks for what is missing.                                      *)
LEMMA BeginPassKeeps ==
  ASSUME StorageInv, BeginPass
  PROVE  StorageInv'
  <1>1. job \in Jobs /\ MaxPasses \in Nat /\ StorageTypeOK /\ PressureState /\ disk \in Disks /\ left \in Lefts
    BY StorageTypes, StorageAssumption DEF StorageInv
  <1>2. /\ job.at = "observe" /\ press' = refreshed /\ UNCHANGED <<disk, granted, left>>
        /\ job' = IF ~refreshed.degraded THEN Finish
              ELSE [job EXCEPT !.at = IF bytesNeeded(refreshed) > 0 THEN "staging" ELSE "tiers",
                               !.tier = IF bytesNeeded(refreshed) > 0 THEN 1 ELSE 7,
                               !.pass = @ + 1, !.freed = 0, !.quiet = TRUE,
                               !.needed = bytesNeeded(refreshed), !.before = refreshed.obs,
                               !.owed = [k \in TierKinds |-> disk[k]]]
    BY TierNames, SMT DEF BeginPass
  <1>3. CASE ~refreshed.degraded
    BY <1>1, <1>2, <1>3, EndsOrBegins
  <1>4. CASE refreshed.degraded
    <2> DEFINE n == bytesNeeded(refreshed)
               floor == exitFloor(Budget, TotalBytes)
               ceiling == exitCeiling(Budget)
               o == refreshed.obs
    <2>1. /\ refreshed \in Pressures /\ o \in Observations /\ o.total = TotalBytes
          /\ o.free = TotalBytes - AllHeld(disk) /\ o.used = StateHeld(disk)
          /\ o.free \in Nat /\ o.used \in Nat /\ TotalBytes \in Nat
      BY <1>1, RefreshedIsTruthful DEF Pressures
    <2>2. floor \in Nat /\ ceiling \in Nat
      BY ExitIsStricter, StorageAssumption
    <2>3. n \in Nat /\ n >= floor - o.free /\ n >= o.used - ceiling
      <3> HIDE DEF floor, ceiling, o
      <3>1. n = maximum(0, maximum(floor - o.free, o.used - ceiling))
        BY <2>1 DEF bytesNeeded, floor, ceiling, o
      <3> QED BY <2>1, <2>2, <3>1, SMT DEF maximum
    <2>4. [k \in TierKinds |-> disk[k]] \in [TierKinds -> Nat]
      <3>1. \A k \in TierKinds : disk[k] \in Nat
        BY <1>1, HeldIsNatural, KindNames
      <3> QED BY <3>1
    <2>5. job.pass + 1 \in 0..MaxPasses
      BY <1>1, <1>2, SMT DEF StorageInv, PassAsks, Jobs
    <2> HIDE DEF n, floor, ceiling, o
    <2> DEFINE at2 == IF n > 0 THEN "staging" ELSE "tiers"
               tier2 == IF n > 0 THEN 1 ELSE 7
    <2>6. job' = [job EXCEPT !.at = at2, !.tier = tier2,
                             !.pass = @ + 1, !.freed = 0, !.quiet = TRUE,
                             !.needed = n, !.before = o, !.owed = [k \in TierKinds |-> disk[k]]]
      BY <1>2, <1>4 DEF n, o
    <2>7. /\ job' \in Jobs /\ job'.at = at2 /\ job'.tier = tier2
          /\ job'.freed = 0 /\ job'.needed = n /\ job'.before = o
      <3>1. at2 \in {"staging", "tiers"} /\ tier2 \in 0..7
        BY SMT
      <3>2. o \in Observations
        BY <2>1 DEF o
      <3> HIDE DEF at2, tier2
      <3> QED BY <1>1, <2>3, <2>4, <2>5, <2>6, <3>1, <3>2 DEF Jobs
    <2>8. LossOrdered'
      BY <2>3, <2>7, TierNames, SMT DEF LossOrdered
    <2>9. PassAsks'
      BY <2>3, <2>7, TierNames, SMT DEF PassAsks, floor, ceiling
    <2>10. QuietAccount'
      <3>1. StateHeld(disk') = StateHeld(disk) /\ AllHeld(disk') = AllHeld(disk)
        BY <1>2
      <3> QED BY <2>1, <2>7, <3>1, SMT DEF QuietAccount
    <2>11. press' \in Pressures /\ PressureState'
      BY <1>1, <1>2, PressKept
    <2>12. StorageTypeOK'
      BY <1>1, <1>2, <2>7, <2>11, StorageTypes
    <2> QED BY <2>8, <2>9, <2>10, <2>11, <2>12 DEF StorageInv
  <1> QED BY <1>1, <1>3, <1>4, RefreshedIsTruthful

(* Cleaning the staging files frees no Agent state and is not credited.     *)
LEMMA ReclaimStagingKeeps ==
  ASSUME StorageInv, ReclaimStaging
  PROVE  StorageInv'
  <1>1. /\ job \in Jobs /\ StorageTypeOK /\ PressureState /\ disk \in Disks /\ press \in Pressures
        /\ granted \in {"none", "backup", "restore"} /\ left \in Lefts /\ TotalBytes \in Nat
    BY StorageTypes, StorageAssumption DEF StorageInv
  <1>2. /\ job.at = "staging" /\ disk' = [disk EXCEPT !["staging"] = 0]
        /\ job' = [job EXCEPT !.at = "tiers"] /\ UNCHANGED <<press, granted, left>>
    BY DEF ReclaimStaging
  <1>3. job' \in Jobs /\ job' = [job EXCEPT !.at = "tiers"] /\ job'.at = "tiers"
    BY <1>1, <1>2 DEF Jobs
  <1>4. /\ job'.tier = job.tier /\ job'.freed = job.freed /\ job'.needed = job.needed
        /\ job'.before = job.before /\ job'.quiet = job.quiet /\ job'.owed = job.owed /\ job'.pass = job.pass
    BY <1>1, <1>2 DEF Jobs
  <1>5. disk["staging"] \in Nat /\ "staging" \in Kinds /\ AllHeld(disk) \in Nat /\ AllHeld(disk) <= TotalBytes
    BY <1>1, HeldIsNatural, KindNames
  <1> DEFINE n == disk["staging"]
             d == [disk EXCEPT !["staging"] = @ - n]
  <1>6. disk' = d
    <2>1. n - n = 0
      BY <1>5, SMT
    <2> QED BY <1>2, <2>1
  <1>7. AllHeld(disk) - n <= TotalBytes /\ n \in Int /\ n <= disk["staging"]
    BY <1>1, <1>5, SMT
  <1>8. /\ disk' \in Disks /\ StateHeld(disk') = StateHeld(disk) - 0
        /\ AllHeld(disk') = AllHeld(disk) - n
    <2> HIDE DEF n
    <2>1. /\ d \in Disks /\ AllHeld(d) = AllHeld(disk) - n
          /\ StateHeld(d) = StateHeld(disk) - (IF "staging" \in {"staging", "foreign"} THEN 0 ELSE n)
      BY <1>1, <1>5, <1>7, TakeFromDisk
    <2> HIDE DEF d
    <2> QED BY <1>6, <2>1
  <1>9. LossOrdered' /\ PassAsks'
    <2>1. PassAsks
      BY DEF StorageInv
    <2>2. job'.tier = 1
      BY <1>2, <1>4, <2>1 DEF PassAsks
    <2> QED BY <1>2, <1>3, <1>4, <2>1, <2>2, TierNames, SMT DEF LossOrdered, PassAsks
  <1>10. QuietAccount'
    <2>1. QuietAccount /\ StateHeld(disk) \in Nat /\ job.before.free \in Nat /\ job.freed \in Nat
      BY <1>1, HeldIsNatural DEF StorageInv, Jobs, Observations
    <2> QED BY <1>1, <1>2, <1>3, <1>4, <1>5, <1>8, <2>1, SMT DEF QuietAccount
  <1>11. PressureState'
    BY <1>1, <1>2, PressKept
  <1>12. StorageTypeOK'
    BY <1>1, <1>2, <1>3, <1>8, StorageTypes
  <1> QED BY <1>9, <1>10, <1>11, <1>12 DEF StorageInv

(* What the cleanup still owes never grows, and never exceeds the disk.     *)
LEMMA OwingIsLeast ==
  ASSUME job \in Jobs, NEW d \in Disks
  PROVE  /\ Owing(d) \in [TierKinds -> Nat]
         /\ \A k \in TierKinds : Owing(d)[k] <= job.owed[k] /\ Owing(d)[k] <= d[k]
  <1>1. \A k \in TierKinds : d[k] \in Nat /\ job.owed[k] \in Nat
    BY HeldIsNatural, KindNames DEF Jobs
  <1> QED BY <1>1, SMT DEF Owing

(* A tier gives what it has, or what is missing, whichever is less.         *)
LEMMA TierTakesLeast ==
  ASSUME StorageInv, job.at = "tiers", job.tier <= Len(Tiers)
  PROVE  LET k == Tiers[job.tier] IN
         /\ k \in TierKinds /\ k \in Kinds /\ k \notin {"staging", "foreign"}
         /\ job.tier \in 1..6 /\ disk[k] \in Nat
         /\ TierTakes(k) \in Nat /\ TierTakes(k) <= disk[k]
         /\ job.freed + TierTakes(k) < job.needed => TierTakes(k) = disk[k]
  <1> DEFINE k == Tiers[job.tier]
  <1>1. job \in Jobs /\ disk \in Disks /\ job.tier \in 1..6
    BY StorageTypes, TierNames, SMT DEF StorageInv, PassAsks, Jobs
  <1>2. k \in TierKinds /\ k \in Kinds /\ k \notin {"staging", "foreign"}
    BY <1>1, TierNames, KindNames
  <1>3. disk[k] \in Nat /\ job.freed \in Nat /\ job.needed \in Nat
    BY <1>1, <1>2, HeldIsNatural DEF Jobs
  <1>4. job.freed < job.needed
    BY DEF StorageInv, PassAsks
  <1> HIDE DEF k
  <1> QED BY <1>1, <1>2, <1>3, <1>4, SMT DEF TierTakes, k

(* A tier that is run is exhausted before the next one is.                  *)
LEMMA ReclaimTierKeeps ==
  ASSUME StorageInv, ReclaimTier
  PROVE  StorageInv'
  <1> DEFINE k == Tiers[job.tier]
             n == TierTakes(k)
             d == [disk EXCEPT ![k] = @ - n]
  <1>1. /\ job \in Jobs /\ StorageTypeOK /\ PressureState /\ disk \in Disks /\ press \in Pressures
        /\ granted \in {"none", "backup", "restore"} /\ left \in Lefts /\ TotalBytes \in Nat
    BY StorageTypes, StorageAssumption DEF StorageInv
  <1>2. /\ job.at = "tiers" /\ job.tier <= Len(Tiers) /\ disk' = d
        /\ job' = [job EXCEPT !.freed = @ + n, !.tier = NextTier(n), !.owed = Owing(d)]
        /\ UNCHANGED <<press, granted, left>>
    BY DEF ReclaimTier
  <1>3. /\ k \in TierKinds /\ k \in Kinds /\ k \notin {"staging", "foreign"}
        /\ job.tier \in 1..6 /\ disk[k] \in Nat /\ n \in Nat /\ n <= disk[k]
        /\ job.freed + n < job.needed => n = disk[k]
    BY <1>2, TierTakesLeast
  <1>4. /\ job.freed \in Nat /\ job.needed \in Nat /\ job.before.used \in Nat /\ job.before.free \in Nat
        /\ AllHeld(disk) \in Nat /\ StateHeld(disk) \in Nat /\ AllHeld(disk) <= TotalBytes
    BY <1>1, HeldIsNatural DEF Jobs, Observations
  <1> HIDE DEF n, k
  <1>5. /\ d \in Disks /\ AllHeld(d) = AllHeld(disk) - n /\ StateHeld(d) = StateHeld(disk) - n
        /\ d[k] = disk[k] - n
    <2>1. AllHeld(disk) - n <= TotalBytes
      BY <1>1, <1>3, <1>4, SMT
    <2> QED BY <1>1, <1>3, <2>1, TakeFromDisk, SMT
  <1>6. /\ Owing(d) \in [TierKinds -> Nat]
        /\ \A q \in TierKinds : Owing(d)[q] <= job.owed[q] /\ Owing(d)[q] <= d[q]
    BY <1>1, <1>5, OwingIsLeast
  <1> HIDE DEF d
  <1>7. /\ NextTier(n) \in 2..7
        /\ NextTier(n) <= 6 => NextTier(n) = job.tier + 1 /\ job.freed + n < job.needed
    BY <1>3, <1>4, TierNames, SMT DEF NextTier
  <1>8. job' \in Jobs
    <2>1. job.freed + n \in Nat /\ NextTier(n) \in 0..7
      BY <1>3, <1>4, <1>7, SMT
    <2> QED BY <1>1, <1>2, <1>6, <2>1 DEF Jobs
  <1>9. /\ job'.at = "tiers" /\ job'.freed = job.freed + n /\ job'.tier = NextTier(n) /\ job'.owed = Owing(d)
        /\ job'.needed = job.needed /\ job'.before = job.before /\ job'.quiet = job.quiet
    BY <1>1, <1>2 DEF Jobs
  <1>10. LossOrdered'
    <2>1. SUFFICES ASSUME NextTier(n) <= 6, NEW i \in 1..6, i < NextTier(n)
                   PROVE  Owing(d)[Tiers[i]] = 0
      BY <1>9, TierNames DEF LossOrdered
    <2>2. Tiers[i] \in TierKinds /\ Owing(d)[Tiers[i]] \in Nat /\ job.owed[Tiers[i]] \in Nat
      BY <1>1, <1>6, TierNames DEF Jobs
    <2>3. CASE i = job.tier
      <3>1. Tiers[i] = k /\ d[k] = 0
        BY <1>3, <1>5, <1>7, <2>1, <2>3, SMT DEF k
      <3> QED BY <1>6, <2>2, <3>1, SMT
    <2>4. CASE i < job.tier
      <3>1. job.owed[Tiers[i]] = 0
        BY <1>2, <2>4, TierNames DEF StorageInv, LossOrdered
      <3> QED BY <1>6, <2>2, <3>1, SMT
    <2> QED BY <1>3, <1>7, <2>1, <2>3, <2>4, SMT
  <1>11. PassAsks'
    <2>1. PassAsks
      BY DEF StorageInv
    <2> QED BY <1>2, <1>7, <1>9, <2>1, TierNames, SMT DEF PassAsks
  <1>12. QuietAccount'
    <2>1. QuietAccount
      BY DEF StorageInv
    <2>2. StateHeld(disk') = StateHeld(disk) - n /\ AllHeld(disk') = AllHeld(disk) - n
      BY <1>2, <1>5
    <2>3. SUFFICES ASSUME job.quiet
                   PROVE  /\ StateHeld(disk') = job.before.used - (job.freed + n)
                          /\ TotalBytes - AllHeld(disk') >= job.before.free + (job.freed + n)
      BY <1>9 DEF QuietAccount
    <2>4. /\ StateHeld(disk) = job.before.used - job.freed
          /\ TotalBytes - AllHeld(disk) >= job.before.free + job.freed
      BY <1>2, <2>1, <2>3 DEF QuietAccount
    <2> QED BY <1>1, <1>3, <1>4, <2>2, <2>4, SMT
  <1>13. PressureState'
    BY <1>1, <1>2, PressKept
  <1>14. StorageTypeOK'
    BY <1>1, <1>2, <1>5, <1>8, StorageTypes
  <1> QED BY <1>10, <1>11, <1>12, <1>13, <1>14 DEF StorageInv

(* A tier that fails part way ends the pass.                                *)
LEMMA ReclaimFailsKeeps ==
  ASSUME StorageInv, ReclaimFails
  PROVE  StorageInv'
  <1> DEFINE k == Tiers[job.tier]
             m == IF job.at = "staging" THEN 0 ELSE TierTakes(k)
  <1>1. /\ job \in Jobs /\ StorageTypeOK /\ PressureState /\ disk \in Disks /\ press \in Pressures
        /\ granted \in {"none", "backup", "restore"} /\ left \in Lefts /\ TotalBytes \in Nat
    BY StorageTypes, StorageAssumption DEF StorageInv
  <1>2. /\ job.at \in {"staging", "tiers"} /\ job.tier <= Len(Tiers) /\ Spend("faults")
        /\ UNCHANGED <<press, granted>>
    BY DEF ReclaimFails
  <1>3. PICK n \in 0..m : /\ disk' = [disk EXCEPT ![k] = @ - n]
                          /\ job' = [job EXCEPT !.freed = @ + n, !.at = "failed",
                                                !.owed = Owing([disk EXCEPT ![k] = @ - n])]
    BY DEF ReclaimFails
  <1>4. k \in Kinds /\ m \in Nat /\ m <= disk[k] /\ disk[k] \in Nat
    <2>1. CASE job.at = "tiers"
      BY <1>2, <2>1, TierTakesLeast
    <2>2. CASE job.at = "staging"
      <3>1. job.tier = 1
        BY <2>2 DEF StorageInv, PassAsks
      <3>2. k \in Kinds
        BY <3>1, TierNames, KindNames, SMT
      <3> QED BY <1>1, <2>2, <3>2, HeldIsNatural, SMT
    <2> QED BY <1>2, <2>1, <2>2
  <1>5. n \in Nat /\ n <= disk[k] /\ job.freed \in Nat /\ AllHeld(disk) \in Nat /\ AllHeld(disk) <= TotalBytes
    BY <1>1, <1>3, <1>4, HeldIsNatural, SMT DEF Jobs
  <1> HIDE DEF k, m
  <1> DEFINE d == [disk EXCEPT ![k] = @ - n]
  <1>6. d \in Disks
    <2>1. AllHeld(disk) - n <= TotalBytes
      BY <1>1, <1>5, SMT
    <2> QED BY <1>1, <1>4, <1>5, <2>1, TakeFromDisk, SMT
  <1>7. disk' = d /\ job' = [job EXCEPT !.freed = @ + n, !.at = "failed", !.owed = Owing(d)]
    BY <1>3
  <1> HIDE DEF d
  <1>8. job' \in Jobs /\ job'.at = "failed"
    <2>1. Owing(d) \in [TierKinds -> Nat] /\ job.freed + n \in Nat
      BY <1>1, <1>5, <1>6, OwingIsLeast, SMT
    <2> QED BY <1>1, <1>7, <2>1 DEF Jobs
  <1>9. LossOrdered' /\ PassAsks' /\ QuietAccount'
    BY <1>8, NoPass
  <1>10. PressureState'
    BY <1>1, <1>2, PressKept
  <1>11. left' \in Lefts
    BY <1>1, <1>2, SpendKeeps
  <1>12. StorageTypeOK'
    BY <1>1, <1>2, <1>6, <1>7, <1>8, <1>11, StorageTypes
  <1> QED BY <1>9, <1>10, <1>12 DEF StorageInv

(* Somebody else's write leaves the pass where it is, and no longer quiet.  *)
LEMMA OthersKeep ==
  ASSUME StorageInv, NEW d \in Disks, NEW owed \in [TierKinds -> Nat],
         \A k \in TierKinds : owed[k] <= job.owed[k],
         press' \in {press, refreshed}, granted' \in {"none", "backup", "restore"}, left' \in Lefts,
         disk' = d, job' = [job EXCEPT !.quiet = FALSE, !.owed = owed]
  PROVE  StorageInv'
  <1>1. job \in Jobs /\ StorageTypeOK /\ PressureState /\ PassAsks /\ LossOrdered
    BY StorageTypes DEF StorageInv
  <1>2. /\ job' \in Jobs /\ job'.at = job.at /\ job'.tier = job.tier /\ job'.pass = job.pass
        /\ job'.freed = job.freed /\ job'.needed = job.needed /\ job'.before = job.before
        /\ job'.owed = owed /\ job'.quiet = FALSE
    BY <1>1 DEF Jobs
  <1>3. LossOrdered'
    <2>1. \A k \in TierKinds : job.owed[k] = 0 => owed[k] = 0
      BY <1>1, SMT DEF Jobs
    <2> QED BY <1>1, <1>2, <2>1, TierNames, SMT DEF LossOrdered
  <1>4. PassAsks' /\ QuietAccount'
    BY <1>1, <1>2 DEF PassAsks, QuietAccount
  <1>5. press' \in Pressures /\ PressureState'
    BY <1>1, PressKept
  <1>6. StorageTypeOK'
    BY <1>2, <1>5, StorageTypes
  <1> QED BY <1>3, <1>4, <1>5, <1>6 DEF StorageInv

(* One more object of some kind, if the filesystem has room.                *)
LEMMA GrowsKeeps ==
  ASSUME StorageInv, NEW k \in Kinds, AllHeld(disk) < TotalBytes,
         press' \in {press, refreshed}, granted' \in {"none", "backup", "restore"}, Spend("writes"),
         disk' = [disk EXCEPT ![k] = @ + 1], job' = [job EXCEPT !.quiet = FALSE]
  PROVE  StorageInv'
  <1>1. job \in Jobs /\ disk \in Disks /\ TotalBytes \in Nat /\ left \in Lefts
    BY StorageTypes, StorageAssumption DEF StorageInv
  <1>2. disk \in [Kinds -> Nat] /\ AllHeld(disk) \in Nat
    BY <1>1, HeldIsNatural
  <1>3. disk[k] + 1 = disk[k] - (-1) /\ -1 <= disk[k] /\ AllHeld(disk) - (-1) <= TotalBytes
    BY <1>1, <1>2, SMT
  <1>4. disk' = [disk EXCEPT ![k] = @ - (-1)]
    BY <1>2, <1>3
  <1>5. disk' \in Disks
    <2> DEFINE n == -1
               d == [disk EXCEPT ![k] = @ - n]
    <2>1. n \in Int /\ n <= disk[k] /\ AllHeld(disk) - n <= TotalBytes
      BY <1>3, SMT
    <2>2. disk' = d
      BY <1>4
    <2> HIDE DEF n
    <2>3. d \in Disks
      BY <1>1, <2>1, TakeFromDisk
    <2> QED BY <2>2, <2>3
  <1>6. job.owed \in [TierKinds -> Nat] /\ job' = [job EXCEPT !.quiet = FALSE, !.owed = job.owed]
    BY <1>1 DEF Jobs
  <1>7. \A q \in TierKinds : job.owed[q] <= job.owed[q]
    BY <1>6, SMT
  <1>8. left' \in Lefts
    BY <1>1, SpendKeeps
  <1> QED BY <1>5, <1>6, <1>7, <1>8, OthersKeep

(* An object that changes its kind.                                         *)
LEMMA MovesKeeps ==
  ASSUME StorageInv, NEW from \in Kinds, NEW to \in Kinds, from # to, DiskMoves(from, to)
  PROVE  StorageInv'
  <1> DEFINE e == [disk EXCEPT ![from] = @ - 1]
             d == [disk EXCEPT ![from] = @ - 1, ![to] = @ + 1]
  <1>1. /\ job \in Jobs /\ disk \in Disks /\ TotalBytes \in Nat /\ left \in Lefts
        /\ granted \in {"none", "backup", "restore"}
    BY StorageTypes, StorageAssumption DEF StorageInv
  <1>2. /\ disk[from] > 0 /\ Spend("writes") /\ disk' = d /\ UNCHANGED <<press, granted>>
        /\ job' = [job EXCEPT !.quiet = FALSE, !.owed = Owing(d)]
    BY DEF DiskMoves
  <1>3. disk \in [Kinds -> Nat] /\ AllHeld(disk) \in Nat /\ AllHeld(disk) <= TotalBytes
    BY <1>1, HeldIsNatural
  <1>4. 1 <= disk[from] /\ AllHeld(disk) - 1 <= TotalBytes
    BY <1>1, <1>2, <1>3, SMT
  <1>5. e \in Disks /\ AllHeld(e) = AllHeld(disk) - 1
    BY <1>1, <1>4, TakeFromDisk, SMT
  <1>6. e \in [Kinds -> Nat]
    BY <1>5, HeldIsNatural
  <1>7. d = [e EXCEPT ![to] = @ - (-1)]
    <2>1. d = [e EXCEPT ![to] = @ + 1]
      BY <1>3
    <2>2. e[to] + 1 = e[to] - (-1)
      BY <1>6, SMT
    <2> HIDE DEF d, e
    <2> QED BY <1>6, <2>1, <2>2
  <1>8. d \in Disks
    <2> DEFINE n == -1
    <2>1. n \in Int /\ n <= e[to] /\ AllHeld(e) - n <= TotalBytes
      BY <1>1, <1>3, <1>5, <1>6, SMT
    <2>2. d = [e EXCEPT ![to] = @ - n]
      BY <1>7
    <2> HIDE DEF d, e, n
    <2> QED BY <1>5, <2>1, <2>2, TakeFromDisk
  <1> HIDE DEF d, e
  <1>9. Owing(d) \in [TierKinds -> Nat] /\ \A k \in TierKinds : Owing(d)[k] <= job.owed[k]
    BY <1>1, <1>8, OwingIsLeast
  <1>10. left' \in Lefts
    BY <1>1, <1>2, SpendKeeps
  <1> QED BY <1>1, <1>2, <1>8, <1>9, <1>10, OthersKeep

(* Every step keeps the invariant.                                          *)
LEMMA StorageStepKeeps ==
  ASSUME StorageInv, [StorageNext]_storageVars
  PROVE  StorageInv'
  <1> USE DEF StorageInv
  <1>1. /\ job \in Jobs /\ StorageTypeOK /\ PressureState /\ disk \in Disks /\ press \in Pressures
        /\ granted \in {"none", "backup", "restore"} /\ left \in Lefts
    BY StorageTypes
  <1>2. CASE LoopTick
    BY <1>1, <1>2, EndsOrBegins DEF LoopTick
  <1>3. CASE \E kind \in {"run", "grow"} : AdmitOperation(kind)
    BY <1>1, <1>3, EndsOrBegins DEF AdmitOperation
  <1>4. CASE AdmitAgain \/ AfterFailure
    BY <1>1, <1>4, EndsOrBegins DEF AdmitAgain, AfterFailure
  <1>5. CASE ObserveFails
    <2>1. left' \in Lefts
      BY <1>1, <1>5, SpendKeeps DEF ObserveFails
    <2> QED BY <1>5, <2>1, EndsOrBegins DEF ObserveFails
  <1>6. CASE BeginPass
    BY <1>6, BeginPassKeeps
  <1>7. CASE ReclaimStaging
    BY <1>7, ReclaimStagingKeeps
  <1>8. CASE ReclaimTier
    BY <1>8, ReclaimTierKeeps
  <1>9. CASE ReclaimFails
    BY <1>9, ReclaimFailsKeeps
  <1>10. CASE AfterPass
    BY <1>1, <1>10, EndsOrBegins DEF AfterPass
  <1>11. CASE AdmitBackup \/ \E free \in {0, TotalBytes} : AdmitRestore(free)
    <2>1. /\ press' = refreshed /\ granted' \in {"none", "backup", "restore"} /\ UNCHANGED <<disk, job, left>>
      BY <1>11 DEF AdmitBackup, AdmitRestore
    <2>2. press' \in Pressures /\ PressureState'
      BY <1>1, <2>1, PressKept
    <2>3. LossOrdered' /\ PassAsks' /\ QuietAccount'
      BY <2>1 DEF LossOrdered, PassAsks, QuietAccount
    <2> QED BY <1>1, <2>1, <2>2, <2>3, StorageTypes
  <1>12. CASE \E k \in {"excess", "kept", "staging"} : WriteGranted(k)
    <2>1. PICK k \in {"excess", "kept", "staging"} : WriteGranted(k)
      BY <1>12
    <2>2. k \in Kinds
      BY KindNames
    <2> QED BY <2>1, <2>2, GrowsKeeps DEF WriteGranted
  <1>13. CASE \E class \in {"reserve", "ordinary"} : Persist(class)
    <2>1. PICK class \in {"reserve", "ordinary"} : Persist(class)
      BY <1>13
    <2>2. 1 <= refreshed.obs.free
      BY <2>1 DEF Persist, CanWrite
    <2>3. AllHeld(disk) < TotalBytes
      BY <1>1, <2>2, RefreshedIsTruthful, HeldIsNatural, SMT
    <2>4. "kept" \in Kinds
      BY KindNames
    <2> QED BY <1>1, <2>1, <2>3, <2>4, GrowsKeeps DEF Persist
  <1>14. CASE \E k \in {"unacked", "temp", "staging", "foreign"} : DiskGrows(k)
    <2>1. PICK k \in {"unacked", "temp", "staging", "foreign"} : DiskGrows(k)
      BY <1>14
    <2>2. k \in Kinds
      BY KindNames
    <2> QED BY <1>1, <2>1, <2>2, GrowsKeeps DEF DiskGrows
  <1>15. CASE \E m \in {<<"unacked", "acked">>, <<"kept", "expired">>, <<"excess", "old">>} : DiskMoves(m[1], m[2])
    <2>1. \/ DiskMoves("unacked", "acked") \/ DiskMoves("kept", "expired") \/ DiskMoves("excess", "old")
      BY <1>15, SMT
    <2>2. {"unacked", "acked", "kept", "expired", "excess", "old"} \subseteq Kinds
      BY KindNames
    <2> QED BY <2>1, <2>2, MovesKeeps
  <1>16. CASE UNCHANGED storageVars
    <2>1. UNCHANGED <<disk, press, job, granted, left>>
      BY <1>16 DEF storageVars
    <2>2. LossOrdered' /\ PassAsks' /\ QuietAccount' /\ PressureState'
      BY <2>1 DEF LossOrdered, PassAsks, QuietAccount, PressureState
    <2> QED BY <1>1, <2>1, <2>2, StorageTypes
  <1> QED BY <1>2, <1>3, <1>4, <1>5, <1>6, <1>7, <1>8, <1>9, <1>10, <1>11, <1>12, <1>13, <1>14, <1>15, <1>16
          DEF StorageNext

(* The invariant holds at the start.                                        *)
LEMMA StorageStarts ==
  ASSUME StorageInit(StorageScenes)
  PROVE  StorageInv
  <1>1. MaxPasses \in Nat \ {0} /\ left \in Lefts
    BY StorageAssumption DEF StorageInit, Lefts
  <1>2. disk \in Disks /\ granted = "none" /\ job = NoJob
    BY <1>1 DEF StorageInit, Lefts
  <1>3. Unobserved \in Observations /\ Unobserved.total = 0
    BY DEF Observations, Unobserved
  <1>4. press = [obs |-> Unobserved, degraded |-> FALSE, reason |-> NoReason]
    BY DEF StorageInit
  <1>5. press \in Pressures /\ PressureState
    BY <1>3, <1>4, SMT DEF Pressures, Reasons, PressureState
  <1>6. job \in Jobs /\ job.at = "idle"
    BY <1>1, <1>2, <1>3, SMT DEF NoJob, Jobs
  <1>7. LossOrdered /\ PassAsks /\ QuietAccount
    BY <1>6 DEF LossOrdered, PassAsks, QuietAccount
  <1> QED BY <1>1, <1>2, <1>5, <1>6, <1>7, StorageTypes DEF StorageInv

(* A pass that reclaimed what it asked for ends the pressure.               *)
LEMMA EnoughEnds ==
  ASSUME StorageInv
  PROVE  EnoughIsAsked
  <1>1. SUFFICES ASSUME TiersDone, job.quiet, job.freed >= job.needed
                 PROVE  ~refreshed.degraded
    BY DEF EnoughIsAsked
  <1> DEFINE floor == exitFloor(Budget, TotalBytes)
             ceiling == exitCeiling(Budget)
             o == observeFilesystem(disk)
  <1>2. /\ job \in Jobs /\ disk \in Disks /\ TotalBytes \in Nat /\ ConfigOK(Budget) /\ job.at = "tiers"
        /\ StorageTypeOK /\ PressureState
    BY <1>1, StorageTypes, StorageAssumption DEF StorageInv, TiersDone
  <1>3. /\ job.freed \in Nat /\ job.needed \in Nat /\ job.before.free \in Nat /\ job.before.used \in Nat
        /\ AllHeld(disk) \in Nat /\ StateHeld(disk) \in Nat
    BY <1>2, HeldIsNatural DEF Jobs, Observations
  <1>4. /\ floor \in Nat /\ ceiling \in Nat /\ entryFloor(Budget, TotalBytes) \in Nat
        /\ entryFloor(Budget, TotalBytes) <= floor /\ ceiling <= Budget.stateBudget /\ Budget.stateBudget \in Nat
    BY <1>2, ExitIsStricter DEF ConfigOK
  <1>5. /\ job.needed >= floor - job.before.free /\ job.needed >= job.before.used - ceiling
        /\ StateHeld(disk) = job.before.used - job.freed
        /\ TotalBytes - AllHeld(disk) >= job.before.free + job.freed
    BY <1>1, <1>2 DEF StorageInv, PassAsks, QuietAccount
  <1>6. o.total = TotalBytes /\ o.free = TotalBytes - AllHeld(disk) /\ o.used = StateHeld(disk)
    BY DEF observeFilesystem
  <1> HIDE DEF floor, ceiling, o
  <1>7. o.free >= floor /\ o.used <= ceiling
    BY <1>1, <1>2, <1>3, <1>4, <1>5, <1>6, SMT
  <1>8. ~(o.free < entryFloor(Budget, o.total)) /\ ~(o.used > Budget.stateBudget)
    BY <1>2, <1>3, <1>4, <1>6, <1>7, SMT
  <1>9. refreshed = Observe(Budget, press, o)
    BY DEF refreshed, o
  <1> QED BY <1>6, <1>7, <1>8, <1>9 DEF Observe, floor, ceiling

(* For every configuration diskbudget.New accepts and every size of disk:   *)
(* an Agent's pressure state tells the truth about its last observation     *)
(* (Manager.Observe, PressureState), the cleanup exhausts each tier before  *)
(* it gives up anything of a more valuable one (diskbudget.Reclaim), and a  *)
(* pass that freed what it asked for, with nobody else writing, ends the    *)
(* pressure (Controller.ReclaimForPressure).                                *)
THEOREM StorageIsSound == StorageSpec => [](PressureState /\ CleanupIsSound)
  <1>1. StorageInit(StorageScenes) => StorageInv
    BY StorageStarts
  <1>2. StorageInv /\ [StorageNext]_storageVars => StorageInv'
    BY StorageStepKeeps
  <1>3. StorageInv => PressureState /\ CleanupIsSound
    BY EnoughEnds DEF StorageInv, CleanupIsSound
  <1> QED BY <1>1, <1>2, <1>3, PTL DEF StorageSpec

(* The pressure state tells the truth about the last observation, whatever  *)
(* the order of observations, writes and cleanups (Manager.Observe): a      *)
(* degraded Agent says why and is outside an exit watermark, any other is   *)
(* within both entry watermarks.                                            *)
THEOREM PressureIsTold == StorageSpec => []PressureState
  BY StorageIsSound, PTL

-----------------------------------------------------------------------------
(* The records of unobserved changes (DockerSnapshot).                      *)

AnyDigest == Digests \cup {NoDigest}
Change == [from : AnyDigest, to : AnyDigest, saves : Nat]

(* What the variables of a reconciliation hold.                             *)
SnapshotTyped ==
    /\ inventory \in Digests
    /\ stored \in AnyDigest
    /\ recorded \in Seq(Change)
    /\ receipts \in SUBSET AnyDigest
    /\ attempt \in [at : {"idle", "first", "append", "frame", "set", "forget"}, from : AnyDigest, to : AnyDigest]
    /\ saves \in Nat

(* A change recorded since the digest was last replaced still has its       *)
(* receipt, and is not the stored digest.                                   *)
RecordsHaveReceipts ==
    \A i \in DOMAIN recorded :
        /\ recorded[i].saves <= saves
        /\ recorded[i].saves = saves => recorded[i].to \in receipts /\ recorded[i].to # stored

(* What a reconciliation under way read is still so, and what it has done   *)
(* is there.                                                                *)
AttemptSound ==
    /\ attempt.at \in {"first", "append", "frame", "set"} => attempt.from = stored /\ attempt.to # stored
    /\ attempt.at = "frame" =>
           /\ attempt.to \in receipts
           /\ \A i \in DOMAIN recorded : recorded[i].saves = saves => recorded[i].to # attempt.to
    /\ attempt.at = "set" => \E i \in DOMAIN recorded : recorded[i] = ChangeRecord
    /\ attempt.at = "forget" => attempt.to = stored

SnapshotInv == SnapshotTyped /\ RecordsHaveReceipts /\ AttemptSound /\ ChangeAudited /\ NotTwice

(* An appended record is the last one, and the others stay where they were. *)
LEMMA RecordAppended ==
  ASSUME NEW s \in Seq(Change), NEW r \in Change
  PROVE  /\ Append(s, r) \in Seq(Change)
         /\ DOMAIN Append(s, r) = DOMAIN s \cup {Len(s) + 1}
         /\ Append(s, r)[Len(s) + 1] = r
         /\ \A i \in DOMAIN s : Append(s, r)[i] = s[i] /\ i # Len(s) + 1
  BY SMT

(* Every step of a reconciliation (reconcileDockerSnapshot, AppendOnce,     *)
(* SetDockerSnapshotSHA256, ForgetOnce), every failure of one and every     *)
(* change of the inventory keeps the invariant.                             *)
LEMMA SnapshotStepKeeps == SnapshotInv /\ [SnapshotNext]_snapshotVars => SnapshotInv'
  <1> SUFFICES ASSUME SnapshotInv, [SnapshotNext]_snapshotVars
               PROVE  SnapshotInv'
    OBVIOUS
  <1> USE DEF SnapshotInv, SnapshotTyped, AnyDigest
  <1>1. CASE InventoryChanges
    BY <1>1 DEF InventoryChanges, RecordsHaveReceipts, AttemptSound, ChangeAudited, NotTwice, ChangeRecord
  <1>2. CASE Abandon
    BY <1>2 DEF Abandon, Idle, RecordsHaveReceipts, AttemptSound, ChangeAudited, NotTwice, ChangeRecord
  <1>3. CASE reconcileDockerSnapshot
    <2>1. SnapshotTyped'
      BY <1>3 DEF reconcileDockerSnapshot
    <2>2. attempt'.from = stored' /\ attempt'.to = inventory /\ attempt'.at \in {"first", "append", "forget"}
          /\ (attempt'.at = "forget" <=> stored = inventory)
      BY <1>3 DEF reconcileDockerSnapshot
    <2>3. RecordsHaveReceipts' /\ NotTwice'
      BY <1>3 DEF reconcileDockerSnapshot, RecordsHaveReceipts, NotTwice
    <2>4. AttemptSound' /\ ChangeAudited'
      BY <1>3, <2>2 DEF reconcileDockerSnapshot, AttemptSound, ChangeAudited
    <2> QED BY <2>1, <2>3, <2>4
  <1>4. CASE SaveReceipt
    <2>1. SnapshotTyped'
      BY <1>4 DEF SaveReceipt, Idle
    <2>2. RecordsHaveReceipts' /\ NotTwice'
      BY <1>4 DEF SaveReceipt, RecordsHaveReceipts, NotTwice
    <2>3. attempt' = Idle \/ (attempt' = [attempt EXCEPT !.at = "frame"] /\ attempt.to \notin receipts)
      BY <1>4 DEF SaveReceipt
    <2>4. AttemptSound' /\ ChangeAudited'
      BY <1>4, <2>3 DEF SaveReceipt, Idle, AttemptSound, ChangeAudited, RecordsHaveReceipts
    <2> QED BY <2>1, <2>2, <2>4
  <1>5. CASE AppendFrame
    <2>1. ChangeRecord \in Change
      BY DEF ChangeRecord, Change
    <2>2. /\ recorded' \in Seq(Change)
          /\ DOMAIN recorded' = DOMAIN recorded \cup {Len(recorded) + 1}
          /\ recorded'[Len(recorded) + 1] = ChangeRecord
          /\ \A i \in DOMAIN recorded : recorded'[i] = recorded[i] /\ i # Len(recorded) + 1
      BY <1>5, <2>1, RecordAppended, SMT DEF AppendFrame
    <2>3. /\ ChangeRecord.from = attempt.from /\ ChangeRecord.to = attempt.to /\ ChangeRecord.saves = saves
          /\ attempt.to \in receipts /\ attempt.to # stored
          /\ \A i \in DOMAIN recorded : recorded[i].saves = saves => recorded[i].to # attempt.to
      BY <1>5 DEF AppendFrame, ChangeRecord, AttemptSound
    <2>4. SnapshotTyped'
      BY <1>5, <2>2 DEF AppendFrame
    <2>5. RecordsHaveReceipts'
      BY <1>5, <2>2, <2>3, SMT DEF AppendFrame, RecordsHaveReceipts
    <2>6. NotTwice'
      BY <1>5, <2>2, <2>3, SMT DEF AppendFrame, NotTwice
    <2>7. AttemptSound' /\ ChangeAudited'
      <3>1. ChangeRecord' = ChangeRecord /\ attempt'.at = "set" /\ attempt'.from = attempt.from /\ attempt'.to = attempt.to
        BY <1>5 DEF AppendFrame, ChangeRecord
      <3> QED BY <1>5, <2>2, <3>1 DEF AppendFrame, AttemptSound, ChangeAudited
    <2> QED BY <2>4, <2>5, <2>6, <2>7
  <1>6. CASE SetDockerSnapshotSHA256
    <2>1. SnapshotTyped'
      BY <1>6, SMT DEF SetDockerSnapshotSHA256, Idle
    <2>2. RecordsHaveReceipts' /\ NotTwice'
      <3>1. \A i \in DOMAIN recorded : recorded[i].saves \in Nat
        <4>1. \A i \in DOMAIN recorded : recorded[i] \in Change
          BY SMT
        <4> QED BY <4>1 DEF Change
      <3> QED BY <1>6, <3>1, SMT DEF SetDockerSnapshotSHA256, RecordsHaveReceipts, NotTwice
    <2>3. CASE attempt.at = "first"
      BY <1>6, <2>1, <2>2, <2>3 DEF SetDockerSnapshotSHA256, Idle, AttemptSound, ChangeAudited
    <2>4. CASE attempt.at = "set"
      <3>1. attempt'.at = "forget" /\ attempt'.from = attempt.from /\ attempt'.to = attempt.to
            /\ stored' = attempt.to /\ saves' - 1 = saves /\ recorded' = recorded
        BY <1>6, <2>4, SMT DEF SetDockerSnapshotSHA256
      <3>2. AttemptSound' /\ ChangeAudited'
        BY <2>4, <3>1 DEF AttemptSound, ChangeAudited, ChangeRecord
      <3> QED BY <2>1, <2>2, <3>2
    <2> QED BY <1>6, <2>3, <2>4 DEF SetDockerSnapshotSHA256
  <1>7. CASE ForgetOnce
    <2>1. SnapshotTyped'
      BY <1>7 DEF ForgetOnce, Idle
    <2>2. RecordsHaveReceipts' /\ NotTwice'
      BY <1>7 DEF ForgetOnce, RecordsHaveReceipts, NotTwice, AttemptSound
    <2>3. AttemptSound' /\ ChangeAudited'
      BY <1>7 DEF ForgetOnce, Idle, AttemptSound, ChangeAudited
    <2> QED BY <2>1, <2>2, <2>3
  <1>8. CASE UNCHANGED snapshotVars
    BY <1>8, SMT DEF snapshotVars, RecordsHaveReceipts, AttemptSound, ChangeAudited, NotTwice, ChangeRecord
  <1> QED BY <1>1, <1>2, <1>3, <1>4, <1>5, <1>6, <1>7, <1>8 DEF SnapshotNext

(* For every set of inventories and any number of changes, crashes and      *)
(* failed writes, an unobserved change is recorded exactly once before its  *)
(* digest is stored (reconcileDockerSnapshot, AppendOnce, ForgetOnce).      *)
THEOREM ChangesAreRecordedOnce == SnapshotSpec => []ChangeRecordedOnce
  <1>1. SnapshotInit => SnapshotInv
    BY SMT DEF SnapshotInit, SnapshotInv, SnapshotTyped, AnyDigest, Idle, RecordsHaveReceipts, AttemptSound, ChangeAudited, NotTwice
  <1>2. SnapshotInv /\ [SnapshotNext]_snapshotVars => SnapshotInv'
    BY SnapshotStepKeeps
  <1>3. SnapshotInv => ChangeRecordedOnce
    BY DEF SnapshotInv, ChangeRecordedOnce
  <1> QED BY <1>1, <1>2, <1>3, PTL DEF SnapshotSpec

=============================================================================
