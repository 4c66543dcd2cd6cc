------------------------ MODULE MCAgentCredentials ------------------------
(* The scenarios of AgentCredentials for TLC. *)
EXTENDS AgentCredentials

AnyFault == {"unwritten", "unsynced"}

(* An enrolled Agent that renews once, one of everything that may fail. *)
Calm == [time |-> 1, creds |-> 4, tokens |-> 1, kinds |-> {"join"}, afaults |-> {}, sfaults |-> {},
         faults |-> 0, lost |-> 0, stops |-> 0, drops |-> 0, restores |-> 0, volumes |-> 0]

MCBudgets == {
    \* renewals: the Agent's saves fail, calls are lost, processes stop
    [Calm EXCEPT !.time = 2, !.afaults = AnyFault, !.faults = 1, !.lost = 1, !.stops = 1, !.drops = 1],
    \* archives: databases lost or restored twice, the Server's saves fail
    [Calm EXCEPT !.time = 0, !.creds = 3, !.sfaults = AnyFault, !.afaults = {"unsynced"}, !.faults = 1,
                 !.stops = 2, !.restores = 2],
    \* rejoins: expired credentials, rejoin tokens, a lost state volume
    [Calm EXCEPT !.time = 3, !.kinds = {"join", "rejoin"}, !.tokens = 2, !.lost = 1, !.stops = 1,
                 !.volumes = 1],
    \* reconnects: a failure of every kind on the way back
    [Calm EXCEPT !.time = 2, !.creds = 6, !.sfaults = {"unwritten"}, !.faults = 1, !.lost = 1,
                 !.stops = 1, !.restores = 1],
    \* reenrols: a second rejoin token after a lost answer
    [Calm EXCEPT !.time = 2, !.kinds = {"join", "rejoin"}, !.tokens = 3, !.lost = 1, !.stops = 1]}

(* A repeated revocation after a failed fsync of the identity directory. *)
ResurrectedBudgets == {
    [Calm EXCEPT !.sfaults = {"unsynced"}, !.faults = 1, !.stops = 2, !.drops = 1]}

=============================================================================
