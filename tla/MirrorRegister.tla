--------------------------- MODULE MirrorRegister ---------------------------
(***************************************************************************)
(* What the Server's operation mirror promises about one operation id.  An *)
(* Agent owns the operation and moves through states of growing revision;  *)
(* the Server keeps a copy.  The copy starts as a state its Agent was in,  *)
(* stays bound to that Agent and request, and only moves forward, to other *)
(* states its Agent had the id in; it may lag, and the Server may lose it  *)
(* altogether.                                                             *)
(***************************************************************************)
EXTENDS Integers

CONSTANTS
    Agents, Requests,
    States,     \* the states of an operation
    NoCopy      \* the Server has no row

VARIABLES
    past,       \* the states the operation has been in, on every Agent
    copy        \* the Server's row

regVars == <<past, copy>>

Fact == [bind : [agent : Agents, req : Requests], rev : Nat, st : States]

RegInit ==
    /\ past = {}
    /\ copy = NoCopy

(* The Agent that owns the operation moves it. *)
Own ==
    /\ past \subseteq past'
    /\ \A f \in past' \ past : f \in Fact
    /\ UNCHANGED copy

(* The Server learns of a state, in any order and any number of times: only  *)
(* a newer state of the same Agent replaces its copy.  An answer does not    *)
(* name the request, so an Agent that ran the id for two of them can answer  *)
(* with the other's state.                                                   *)
Learn ==
    /\ \E f \in past :
        \/ copy = NoCopy /\ copy' = f
        \/ /\ copy # NoCopy
           /\ f.bind.agent = copy.bind.agent /\ f.rev > copy.rev
           /\ copy' = [bind |-> copy.bind, rev |-> f.rev, st |-> f.st]
    /\ UNCHANGED past

(* The Server is set up anew on an empty database. *)
Lose ==
    /\ copy' = NoCopy
    /\ UNCHANGED past

RegNext == Own \/ Learn \/ Lose

RegSpec == RegInit /\ [][RegNext]_regVars

=============================================================================
