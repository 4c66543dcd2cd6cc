------------------------- MODULE MCSessionRegistry -------------------------
(* The scenarios of SessionRegistry for TLC. *)
EXTENDS SessionRegistry
CONSTANTS a, b

MCServers == {a, b}
MCConns == 1 .. 3

(* One Server, one Agent process, and no fault. *)
Calm == [servers |-> {a}, inc |-> 1, window |-> 2, cut |-> 0, slow |-> 0, miss |-> 0, audit |-> 0,
         store |-> 0, boot |-> 0, loss |-> 0, retire |-> 0]

MCBudgets == {
    \* races: late and replaced connections of two incarnations, a Server restart
    [Calm EXCEPT !.inc = 2, !.slow = 2, !.audit = 1, !.boot = 1],
    \* servers: two Server processes on one database
    [Calm EXCEPT !.servers = {a, b}, !.inc = 3, !.store = 1],
    \* silence: the real window
    [Calm EXCEPT !.window = 3, !.cut = 1, !.miss = 3, !.retire = 1],
    \* heals: a silent path, an abandoned handshake, a missed heartbeat
    [Calm EXCEPT !.cut = 1, !.slow = 1, !.miss = 1, !.boot = 1],
    \* lost: an empty database
    [Calm EXCEPT !.inc = 2, !.slow = 1, !.store = 1, !.loss = 1]}
=============================================================================
