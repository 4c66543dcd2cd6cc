---- MODULE MCAuditSync ----
(* Instances of AuditSync for TLC. *)
EXTENDS AuditSync

Calm == [inc |-> 1, seq |-> 2, drops |-> 1, breaks |-> 0, restores |-> 0, reinits |-> 0, prunes |-> 0]

(* The Agent restarts and the session breaks; retention runs between the    *)
(* transactions of a session that breaks; the database is put back to a     *)
(* backup of the same archive; or to one of another generation, or is lost. *)
Events ==
    {[Calm EXCEPT !.inc = 2, !.breaks = 1],
     [Calm EXCEPT !.seq = 3, !.breaks = 1, !.prunes = 1],
     [Calm EXCEPT !.seq = 3, !.restores = 1],
     [Calm EXCEPT !.restores = 1, !.reinits = 1]}
====
