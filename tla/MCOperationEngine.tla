------------------------- MODULE MCOperationEngine -------------------------
(***************************************************************************)
(* Small instances of OperationEngine for TLC.  A scenario bounds how many  *)
(* operations are started, of which specs, and how many faults, crashes and *)
(* retention periods there are.  All of these only grow, so the states that *)
(* fit at least one scenario are those of the behaviours that stay within   *)
(* one of them.                                                             *)
(***************************************************************************)
EXTENDS OperationEngine, TLC

CONSTANTS o1, o2, p1

(* One project, so that operations contend for its lock.                    *)
Of(types) == [type : types, project : {p1}]
MCSpecs == Of({"container.stop", "compose.up", "backup.restore", "discovery.rescan"})
OneSpec == Of({"container.stop"})

Calm == [ops |-> 2, specs |-> OneSpec, saves |-> 0, audits |-> 0, crashes |-> 0, cutoff |-> 0]

Safety == {
    \* races: commit-gated and cancel-any-time types against cancels
    [Calm EXCEPT !.specs = Of({"container.stop", "compose.up"})],
    \* crashes: of a process with two operations
    [Calm EXCEPT !.crashes = 1],
    \* recovery: one operation through crashes, journal and audit failures
    [Calm EXCEPT !.ops = 1, !.specs = Of({"backup.restore", "discovery.rescan"}),
                 !.saves = 2, !.audits = 1, !.crashes = 2, !.cutoff = 1]}

Liveness == {
    \* lock wait: two operations contend for the project lock
    Calm,
    \* restart: a crash and a failing audit delivery
    [Calm EXCEPT !.ops = 1, !.audits = 1, !.crashes = 1]}

(* The operation was accepted at some time. *)
Used(o) == Present(o) \/ disk[o].status # "absent" \/ outcome[o] # "none"

Fits(scene) ==
    /\ crashes <= scene.crashes /\ cutoff <= scene.cutoff
    /\ faults.save <= scene.saves /\ faults.audit <= scene.audits
    /\ \A o \in Ops : /\ Present(o) => mem[o].spec \in scene.specs
                      /\ disk[o].status # "absent" => disk[o].spec \in scene.specs
    /\ scene.ops = 1 => \E o \in Ops : \A q \in Ops \ {o} : ~Used(q)

WithinSafety == \E scene \in Safety : Fits(scene)
WithinLiveness == \E scene \in Liveness : Fits(scene)

Symmetry == Permutations(Ops)
=============================================================================
