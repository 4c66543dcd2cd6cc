----------------------------- MODULE MCAuditWAL -----------------------------
(* The instances of AuditWAL that TLC checks. *)
EXTENDS AuditWAL

CONSTANTS k1, a1

OneKey == {k1}
OneArchive == {a1}

Calm == [bytes |-> 2, sync |-> 2, once |-> FALSE, faults |-> 0, aged |-> 0,
         crashes |-> {"process"}, pressure |-> FALSE, torn |-> FALSE]

(* The process dies anywhere and one system call fails; the power fails     *)
(* while retention works; disk pressure takes un-ACKed segments.            *)
Lives ==
    {[Calm EXCEPT !.once = TRUE, !.faults = 1],
     [Calm EXCEPT !.once = TRUE, !.aged = 1, !.crashes = {"power"}],
     [Calm EXCEPT !.bytes = 4, !.crashes = {"power"}, !.pressure = TRUE]}
=============================================================================
