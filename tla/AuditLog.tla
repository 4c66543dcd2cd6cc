------------------------------ MODULE AuditLog ------------------------------
(***************************************************************************)
(* What the audit log promises whoever appends to it and whoever reads it, *)
(* without segments, metadata, retention or recovery: cursors are handed   *)
(* out in increasing order, and a record that reached the disk leaves it   *)
(* only when it is released, that is acknowledged by the Server or listed  *)
(* in a gap the Server is shown.  AuditWAL implements it.                  *)
(***************************************************************************)
EXTENDS Integers, Sequences

CONSTANT Cursor  \* pairs <<incarnation, sequence>>

VARIABLES
    issued,   \* the cursors handed out, in order
    held,     \* the records that are on disk or in the page cache
    safe,     \* the records that were fsynced
    released  \* the records acknowledged or listed in a gap

vars == <<issued, held, safe, released>>

Less(a, b) == a[1] < b[1] \/ (a[1] = b[1] /\ a[2] < b[2])

Init == issued = <<>> /\ held = {} /\ safe = {} /\ released = {}

(* At most one record is appended by a step, above every earlier one. *)
Issue ==
    \/ issued' = issued
    \/ \E c \in Cursor :
          /\ \A i \in DOMAIN issued : Less(issued[i], c)
          /\ issued' = Append(issued, c)

Fresh == {issued'[i] : i \in DOMAIN issued' \ DOMAIN issued}

(* Only held records become safe, and they stay so. *)
Secure == safe \subseteq safe' /\ safe' \subseteq safe \cup held \cup Fresh

(* A release may be withdrawn while the record is still held. *)
Release == released \ released' \subseteq held'

(* A record that was not fsynced may vanish; a safe one must be released. *)
Discard ==
    /\ held' \subseteq held \cup Fresh
    /\ (held \cup Fresh) \ held' \subseteq released' \cup {c \in held \cup Fresh : c \notin safe'}

Next == Issue /\ Secure /\ Release /\ Discard

Spec == Init /\ [][Next]_vars

=============================================================================
