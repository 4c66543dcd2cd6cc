------------------------- MODULE MCOperationMirror -------------------------
(* The scenarios of OperationMirror for TLC. *)
EXTENDS OperationMirror, TLC

AnAgent == CHOOSE a \in Agents : TRUE
OneSpec == {[agent |-> AnAgent, req |-> "managed"]}

TwoSpecs == OneSpec \cup {[agent |-> AnAgent, req |-> "loose"]}

ThreeSpecs ==
    LET b == CHOOSE b \in Agents : b # AnAgent
    IN  TwoSpecs \cup {[agent |-> b, req |-> "loose"]}

(* Every handler, against a running operation. *)
Calm == [specs |-> OneSpec, kinds |-> {"dispatch", "get", "cancel", "recover"},
         rev |-> 3, out |-> 0, restarts |-> 0, resets |-> 0, evictions |-> 0]

MCBudgets == {
    \* restarts of both sides
    [Calm EXCEPT !.restarts = 1, !.resets = 1],
    \* one id used for different Agents and requests
    [Calm EXCEPT !.specs = ThreeSpecs, !.kinds = {"dispatch", "recover"}, !.rev = 2, !.evictions = 1],
    \* one id used for two requests of an Agent, and looked up
    [Calm EXCEPT !.specs = TwoSpecs, !.kinds = {"dispatch", "get"}, !.rev = 2, !.evictions = 1],
    \* output that grows within a revision
    [Calm EXCEPT !.kinds = {"dispatch", "get", "cancel"}, !.rev = 4, !.out = 1]}

Symmetry == Permutations(Handlers)

=============================================================================
