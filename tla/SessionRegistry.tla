-------------------------- MODULE SessionRegistry --------------------------
(***************************************************************************)
(* One Agent's connection to the Server: the Agent's reconnect loop and    *)
(* peer watchdog (producttransport.Maintain, peerWatchdog), the acceptor    *)
(* that turns a connection into a session (ServerAcceptor.Accept), the      *)
(* registry of active sessions with its durable incarnation watermark       *)
(* (SessionRegistry, serverstore agents.last_incarnation) and the heartbeat *)
(* loop.  Sessions of different Agents share nothing but the mutex.         *)
(*                                                                          *)
(* A connection is one record: `pc` is how far Accept has brought it, `ses` *)
(* is the control session built on it, `agent` the Agent's end, `path`      *)
(* whether the network still carries bytes.  Time is counted in heartbeat   *)
(* intervals: a Tick makes every ticker due, and is taken only when the     *)
(* previous round's tickers have run.                                       *)
(***************************************************************************)
EXTENDS Integers, FiniteSetsExt

CONSTANTS
    Servers,        \* Server processes that share the database
    Conns,          \* 1..n, the connections alive at the same time
    MaxInc,         \* bound: Agent starts
    Budgets         \* the scenarios: Server processes (servers), Agent starts
                    \* (inc), OfflineAfter and PeerSilenceTimeout in heartbeat
                    \* intervals (window); and budgets of paths that go silent
                    \* without a reset (cut), handshakes the Agent gives up
                    \* while the Server works on them (slow), heartbeats that
                    \* time out on a healthy path (miss), sessions closed by a
                    \* failed audit sync (audit), failed watermark reads and
                    \* writes (store), Server restarts (boot), restarts with
                    \* an empty database (loss), retirements (retire)

Scenarios ==
    [servers : SUBSET Servers, inc : 1 .. MaxInc, window : Nat \ {0}, cut : Nat, slow : Nat,
     miss : Nat, audit : Nat, store : Nat, boot : Nat, loss : Nat, retire : Nat]

ASSUME SessionAssumption ==
    /\ Servers # {}
    /\ Conns \subseteq Nat \ {0}
    /\ MaxInc \in Nat \ {0}
    /\ Budgets \subseteq Scenarios

VARIABLES
    store,    \* agents.last_incarnation, -1 when the row is gone
    retired,  \* agents.retired_at is set
    reg,      \* per Server process: the registry record, and who holds r.mu
    conn,     \* the connections
    agent,    \* the Agent process
    due,      \* the tickers that have fired and not been served
    high,     \* the highest incarnation each Server's registry accepted (history)
    left      \* the scenario, and what is left of its budgets

vars == <<store, retired, reg, conn, agent, due, high, left>>

None == 0
Free == [pc |-> "none", srv |-> CHOOSE v \in Servers : TRUE, inc |-> 0,
         agent |-> "closed", path |-> "ok", ses |-> "none", last |-> 0,
         prev |-> None, age |-> 0, missed |-> 0]
NoRecord == [last |-> 0, loaded |-> FALSE, active |-> None, mu |-> None]
Watchdog == 0

Init ==
    /\ store = 0
    /\ retired = FALSE
    /\ reg = [v \in Servers |-> NoRecord]
    /\ conn = [c \in Conns |-> Free]
    /\ agent = [inc |-> 1, phase |-> "dial", conn |-> None, silent |-> 0]
    /\ due = {}
    /\ high = [v \in Servers |-> 0]
    /\ left \in Budgets

Spend(b) == left[b] > 0 /\ left' = [left EXCEPT ![b] = @ - 1]

(* A connection both ends have let go of, that no Accept still waits for,   *)
(* is forgotten, and its number used again.                                 *)
Dead(cs, c) ==
    /\ cs[c].agent = "closed"
    /\ cs[c].pc \in {"served", "refused"}
    /\ cs[c].ses \in {"none", "gone"}
    /\ \A d \in Conns : cs[d].prev # c
Settle(cs) == [c \in Conns |-> IF Dead(cs, c) THEN Free ELSE cs[c]]
Set(c, r) == conn' = Settle([conn EXCEPT ![c] = r])

(* The session is still there as far as this Server knows.                  *)
Open(c) == conn[c].ses = "open"
(* The other end has closed, and the close can be seen.                     *)
AgentGone(c) == conn[c].agent = "closed" /\ conn[c].path = "ok"
ServerGone(c) == /\ conn[c].pc = "refused" \/ conn[c].ses \in {"closing", "gone"}
                 /\ conn[c].path = "ok"

-----------------------------------------------------------------------------
(* The Agent: Maintain and AgentConnector.Connect.                          *)

Asleep(inc) == [inc |-> inc, phase |-> "sleep", conn |-> None, silent |-> 0]

Dial ==
    /\ agent.phase = "dial"
    /\ \E c \in Conns, v \in left.servers :
          /\ conn[c] = Free
          /\ \A d \in Conns : conn[d] = Free => c <= d
          /\ conn' = [conn EXCEPT ![c] = [Free EXCEPT !.pc = "queued", !.srv = v,
                                            !.inc = agent.inc, !.agent = "open"]]
          /\ agent' = [agent EXCEPT !.phase = "shake", !.conn = c]
    /\ UNCHANGED <<store, retired, reg, due, high, left>>

(* The Server's answer arrives: the Agent starts serving calls, and its     *)
(* watchdog counts from now.                                                *)
Shaken ==
    /\ agent.phase = "shake"
    /\ conn[agent.conn].pc \notin {"queued", "refused"}
    /\ conn[agent.conn].path = "ok"
    /\ agent' = [agent EXCEPT !.phase = "up", !.silent = 0]
    /\ UNCHANGED <<store, retired, reg, conn, due, high, left>>

(* The handshake fails, or its deadline passes.                             *)
ShakeFails ==
    /\ agent.phase = "shake"
    /\ IF ServerGone(agent.conn) \/ conn[agent.conn].path = "cut"
       THEN UNCHANGED left ELSE Spend("slow")
    /\ Set(agent.conn, [conn[agent.conn] EXCEPT !.agent = "closed"])
    /\ agent' = Asleep(agent.inc)
    /\ UNCHANGED <<store, retired, reg, due, high>>

(* server.Serve returns: the Server closed the connection.                  *)
SessionEnds ==
    /\ agent.phase = "up"
    /\ ServerGone(agent.conn)
    /\ Set(agent.conn, [conn[agent.conn] EXCEPT !.agent = "closed"])
    /\ agent' = Asleep(agent.inc)
    /\ due' = due \ {Watchdog}
    /\ UNCHANGED <<store, retired, reg, high, left>>

Backoff ==
    /\ agent.phase = "sleep"
    /\ agent' = [agent EXCEPT !.phase = "dial"]
    /\ UNCHANGED <<store, retired, reg, conn, due, high, left>>

(* Mutant of WatchdogRun: the silence is never acted on.                    *)
WatchdogSleeps ==
    /\ Watchdog \in due
    /\ due' = due \ {Watchdog}
    /\ UNCHANGED <<store, retired, reg, conn, agent, high, left>>

(* peerWatchdog.run: the ticker fires while the session is up.              *)
WatchdogRun ==
    /\ Watchdog \in due
    /\ due' = due \ {Watchdog}
    /\ IF agent.silent >= left.window
       THEN /\ Set(agent.conn, [conn[agent.conn] EXCEPT !.agent = "closed"])
            /\ agent' = Asleep(agent.inc)
       ELSE UNCHANGED <<conn, agent>>
    /\ UNCHANGED <<store, retired, reg, high, left>>

(* The Agent process dies and starts again with the next incarnation; the   *)
(* kernel closes its sockets.                                               *)
AgentRestart ==
    /\ agent.inc < left.inc
    /\ agent' = [inc |-> agent.inc + 1, phase |-> "dial", conn |-> None, silent |-> 0]
    /\ IF agent.conn = None THEN UNCHANGED conn
       ELSE Set(agent.conn, [conn[agent.conn] EXCEPT !.agent = "closed"])
    /\ due' = due \ {Watchdog}
    /\ UNCHANGED <<store, retired, reg, high, left>>

-----------------------------------------------------------------------------
(* The Server: Accept, RegisterContext.                                     *)

Refuse(c) == Set(c, [conn[c] EXCEPT !.pc = "refused", !.last = 0])
Lock(v, c) == reg' = [reg EXCEPT ![v].mu = c]

(* serverHandshake reads the Agent's header, verifies and answers.  The     *)
(* header is in the socket buffer, so it can be read after the Agent left.  *)
Handshake(c) ==
    /\ conn[c].pc = "queued"
    /\ \/ Set(c, [conn[c] EXCEPT !.pc = "shaken"])
       \/ /\ AgentGone(c) \/ conn[c].path = "cut"
          /\ Refuse(c)
    /\ UNCHANGED <<store, retired, reg, agent, due, high, left>>

(* RestoreAuthenticatedAgent: the row it inserts starts at incarnation 0.   *)
Restored == 0

(* restoringWatermarkStore.LoadIncarnation: the row of an Agent whose       *)
(* credential verifies is created again when the database has lost it.      *)
Loaded == IF store = -1 THEN Restored ELSE store

(* Mutant of Stale: the watermark is not compared.                          *)
StaleNever(c, last) == FALSE

Stale(c, last) == conn[c].inc < last

(* RegisterContext up to the loop: take r.mu, load the watermark, refuse a  *)
(* regressed store or a stale incarnation.                                  *)
RegisterLoad(c) ==
    LET v == conn[c].srv
        r == reg[v]
    IN /\ conn[c].pc = "shaken"
       /\ r.mu = None
       /\ \/ /\ Spend("store")
             /\ Refuse(c)
             /\ UNCHANGED <<store, reg>>
          \/ /\ UNCHANGED left
             /\ store' = Loaded
             /\ IF Loaded = -1 \/ (r.loaded /\ Loaded < r.last)
                THEN Refuse(c) /\ UNCHANGED reg
                ELSE IF Stale(c, Loaded)
                THEN /\ Refuse(c)
                     /\ reg' = [reg EXCEPT ![v].last = Loaded, ![v].loaded = TRUE]
                ELSE /\ Set(c, [conn[c] EXCEPT !.last = Loaded,
                                  !.pc = IF conn[c].inc > Loaded THEN "swap" ELSE "own"])
                     /\ Lock(v, c)
       /\ UNCHANGED <<retired, agent, due, high>>

(* CompareAndSwapIncarnation: UPDATE ... WHERE last_incarnation = old.      *)
Swap(c) ==
    /\ conn[c].pc = "swap"
    /\ \/ /\ Spend("store")
          /\ Refuse(c)
          /\ Lock(conn[c].srv, None)
          /\ UNCHANGED store
       \/ /\ UNCHANGED <<left, reg>>
          /\ IF store = conn[c].last
             THEN /\ store' = conn[c].inc
                  /\ Set(c, [conn[c] EXCEPT !.last = conn[c].inc, !.pc = "own"])
             ELSE /\ UNCHANGED store
                  /\ Set(c, [conn[c] EXCEPT !.pc = "reload"])
    /\ UNCHANGED <<retired, agent, due, high>>

(* The swap lost: load again; no progress is an error, a newer watermark    *)
(* makes the offer stale, an equal one settles it, a lower one swaps again. *)
Reload(c) ==
    LET v == conn[c].srv
        last == Loaded
    IN /\ conn[c].pc = "reload"
       /\ \/ /\ Spend("store")
             /\ Refuse(c)
             /\ Lock(v, None)
             /\ UNCHANGED store
          \/ /\ UNCHANGED left
             /\ store' = last
             /\ IF last <= conn[c].last
                THEN Refuse(c) /\ Lock(v, None)
                ELSE IF Stale(c, last)
                THEN /\ Refuse(c)
                     /\ reg' = [reg EXCEPT ![v].last = last, ![v].loaded = TRUE,
                                           ![v].mu = None]
                ELSE /\ Set(c, [conn[c] EXCEPT !.last = last,
                                  !.pc = IF conn[c].inc > last THEN "swap" ELSE "own"])
                     /\ UNCHANGED reg
       /\ UNCHANGED <<retired, agent, due, high>>

(* Mutant of Commit: the session it replaces is not closed.                 *)
CommitKeeps(c) ==
    LET v == conn[c].srv
    IN /\ conn[c].pc = "own"
       /\ reg' = [reg EXCEPT ![v] = [last |-> conn[c].inc, loaded |-> TRUE,
                                     active |-> c, mu |-> None]]
       /\ Set(c, [conn[c] EXCEPT !.pc = "replace", !.ses = "open",
                                 !.last = 0, !.prev = None])
       /\ high' = [high EXCEPT ![v] = Max({@, conn[c].inc})]
       /\ UNCHANGED <<store, retired, agent, due, left>>

(* The session becomes the Agent's active one; r.mu is released.            *)
Commit(c) ==
    LET v == conn[c].srv
    IN /\ conn[c].pc = "own"
       /\ reg' = [reg EXCEPT ![v] = [last |-> conn[c].inc, loaded |-> TRUE,
                                     active |-> c, mu |-> None]]
       /\ Set(c, [conn[c] EXCEPT !.pc = "replace", !.ses = "open",
                                 !.last = 0, !.prev = reg[v].active])
       /\ high' = [high EXCEPT ![v] = Max({@, conn[c].inc})]
       /\ UNCHANGED <<store, retired, agent, due, left>>

(* controlSession.Close: the first caller finishes the session and closes   *)
(* the connection; every caller then waits for SessionClosed.               *)
Close(c, cs) == [cs EXCEPT ![c].ses = "closing"]

(* After the unlock: previous.Close(ErrSessionReplaced).                    *)
Replace(c) ==
    /\ conn[c].pc = "replace"
    /\ LET p == conn[c].prev
       IN /\ p # None
          /\ Open(p)
          /\ conn' = Close(p, conn)
          /\ due' = due \ {p}
    /\ UNCHANGED <<store, retired, reg, agent, high, left>>

(* SessionClosed detaches only the named session.                           *)
Detached(c) == LET active == reg[conn[c].srv].active
               IN IF active = c THEN None ELSE active

SessionClosed(c) ==
    LET v == conn[c].srv
    IN /\ conn[c].ses = "closing"
       /\ reg[v].mu = None
       /\ reg' = [reg EXCEPT ![v].active = Detached(c)]
       /\ Set(c, [conn[c] EXCEPT !.ses = "gone", !.age = 0, !.missed = 0])
       /\ UNCHANGED <<store, retired, agent, due, high, left>>

(* Accept returns: the heartbeat loop and the audit sync start.             *)
Accepted(c) ==
    /\ conn[c].pc = "replace"
    /\ conn[c].prev # None => conn[conn[c].prev].ses = "gone"
    /\ Set(c, [conn[c] EXCEPT !.pc = "served", !.prev = None])
    /\ UNCHANGED <<store, retired, reg, agent, due, high, left>>

(* auditServer.Run fails, and the accept worker closes the session.         *)
AuditEnds(c) ==
    /\ conn[c].pc = "served"
    /\ Open(c)
    /\ Spend("audit")
    /\ conn' = Close(c, conn)
    /\ due' = due \ {c}
    /\ UNCHANGED <<store, retired, reg, agent, high>>

(* The Agent's end answers calls.                                           *)
Serving(c) == agent.phase = "up" /\ agent.conn = c /\ conn[c].path = "ok"

(* runHeartbeatLoop: one heartbeat.  It succeeds, finds the connection      *)
(* closed (Unavailable) and closes the session, or times out.               *)
Heartbeat(c) ==
    /\ c \in due
    /\ c # Watchdog
    /\ due' = due \ {c}
    /\ \/ /\ Serving(c)
          /\ Set(c, [conn[c] EXCEPT !.age = 0, !.missed = 0])
          /\ agent' = [agent EXCEPT !.silent = 0]
          /\ UNCHANGED left
       \/ /\ AgentGone(c)
          /\ conn' = Close(c, conn)
          /\ UNCHANGED <<agent, left>>
       \/ /\ ~AgentGone(c)
          /\ IF Serving(c) THEN Spend("miss") ELSE UNCHANGED left
          /\ Set(c, [conn[c] EXCEPT !.missed = Min({@ + 1, left.window})])
          /\ UNCHANGED agent
    /\ UNCHANGED <<store, retired, reg, high>>

(* A handshake and the registration behind it are bounded by one            *)
(* HandshakeTimeout, a third of the heartbeat interval.                     *)
Tick ==
    /\ due = {}
    /\ agent.phase # "shake"
    /\ \A c \in Conns : conn[c].pc \in {"none", "queued", "served", "refused"}
    /\ due' = {c \in Conns : conn[c].pc = "served" /\ Open(c)}
              \cup (IF agent.phase = "up" THEN {Watchdog} ELSE {})
    /\ due' # {}
    /\ conn' = [c \in Conns |-> IF Open(c)
                                THEN [conn[c] EXCEPT !.age = Min({@ + 1, left.window})]
                                ELSE conn[c]]
    /\ agent' = IF agent.phase = "up"
                THEN [agent EXCEPT !.silent = Min({@ + 1, left.window})] ELSE agent
    /\ UNCHANGED <<store, retired, reg, high, left>>

-----------------------------------------------------------------------------
(* The environment.                                                         *)

(* A connection goes silent: nothing arrives, nothing is reset.             *)
Cut(c) ==
    /\ conn[c] # Free
    /\ conn[c].path = "ok"
    /\ Spend("cut")
    /\ Set(c, [conn[c] EXCEPT !.path = "cut"])
    /\ UNCHANGED <<store, retired, reg, agent, due, high>>

(* Server processes die and start again: their registries are empty and     *)
(* their connections are closed.                                            *)
Restart(vs) ==
    /\ reg' = [v \in Servers |-> IF v \in vs THEN NoRecord ELSE reg[v]]
    /\ conn' = Settle([c \in Conns |->
                 IF conn[c].srv \in vs /\ conn[c] # Free
                 THEN [conn[c] EXCEPT !.pc = "refused", !.prev = None, !.last = 0,
                         !.ses = "none", !.age = 0, !.missed = 0]
                 ELSE conn[c]])
    /\ due' = due \ {c \in Conns : conn[c].srv \in vs}
    /\ UNCHANGED agent

Reboot(v) == Restart({v}) /\ Spend("boot") /\ UNCHANGED <<store, retired, high>>

(* The Servers start again on an empty database.                            *)
LoseDatabase ==
    /\ Restart(Servers)
    /\ Spend("loss")
    /\ store' = -1
    /\ retired' = FALSE
    /\ high' = [v \in Servers |-> 0]

(* The operator retires the Agent in the database.                          *)
Retire ==
    /\ store # -1
    /\ Spend("retire")
    /\ retired' = TRUE
    /\ UNCHANGED <<store, reg, conn, agent, due, high>>

Next ==
    \/ Dial \/ Shaken \/ ShakeFails \/ SessionEnds \/ Backoff
    \/ WatchdogRun \/ AgentRestart \/ Tick \/ Retire \/ LoseDatabase
    \/ \E c \in Conns :
          \/ Handshake(c) \/ RegisterLoad(c) \/ Swap(c) \/ Reload(c) \/ Commit(c)
          \/ Replace(c) \/ SessionClosed(c) \/ Accepted(c) \/ AuditEnds(c)
          \/ Heartbeat(c) \/ Cut(c)
    \/ \E v \in left.servers : Reboot(v)

Spec == Init /\ [][Next]_vars

(* Every goroutine that can take its step eventually does; a heartbeat on a *)
(* healthy session succeeds once the misses are spent.                      *)
FairSpec ==
    /\ Spec
    /\ WF_vars(Dial) /\ WF_vars(Shaken) /\ WF_vars(SessionEnds)
    /\ WF_vars(Backoff) /\ WF_vars(WatchdogRun) /\ WF_vars(Tick)
    /\ WF_vars(agent.phase = "shake" /\ (ServerGone(agent.conn) \/ conn[agent.conn].path = "cut")
               /\ ShakeFails)
    /\ \A c \in Conns :
          /\ WF_vars(Handshake(c)) /\ WF_vars(RegisterLoad(c)) /\ WF_vars(Swap(c))
          /\ WF_vars(Reload(c)) /\ WF_vars(Commit(c)) /\ WF_vars(Replace(c))
          /\ WF_vars(SessionClosed(c)) /\ WF_vars(Accepted(c)) /\ WF_vars(Heartbeat(c))

-----------------------------------------------------------------------------
(* What the transport promises.                                             *)

Stages == {"none", "queued", "shaken", "swap", "reload", "own", "replace", "served", "refused"}
Connections(window) ==
    [pc : Stages, srv : Servers, inc : 0 .. MaxInc, agent : {"open", "closed"}, path : {"ok", "cut"},
     ses : {"none", "open", "closing", "gone"}, last : 0 .. MaxInc, prev : Conns \cup {None},
     age : 0 .. window, missed : 0 .. window]
Registries ==
    [last : 0 .. MaxInc, loaded : BOOLEAN, active : Conns \cup {None}, mu : Conns \cup {None}]
Agents(window) ==
    [inc : 1 .. MaxInc, phase : {"dial", "shake", "up", "sleep"}, conn : Conns \cup {None},
     silent : 0 .. window]

(* Every variable has its type. *)
TypeOK ==
    /\ store \in -1 .. MaxInc
    /\ high \in [Servers -> 0 .. MaxInc]
    /\ retired \in BOOLEAN
    /\ left \in Scenarios
    /\ reg \in [Servers -> Registries]
    /\ agent \in Agents(left.window)
    /\ conn \in [Conns -> Connections(left.window)]
    /\ due \in SUBSET (Conns \cup {Watchdog})

(* SessionRegistry "enforces one active Reverse gRPC session per Agent": an *)
(* open session is the one the registry hands out, or the one some Accept   *)
(* is about to close in its favour.  An open session neither would be       *)
(* heartbeated, and would hold its audit stream, for ever.                  *)
NoOrphan ==
    \A c \in Conns : Open(c) =>
        \/ reg[conn[c].srv].active = c
        \/ \E d \in Conns : conn[d].prev = c /\ conn[d].pc = "replace"

(* A session that is gone is not the one the registry hands out: the close  *)
(* of a session detaches it, in whatever order closes and registrations     *)
(* run.                                                                     *)
ActiveIsThere ==
    \A v \in Servers : reg[v].active # None =>
        /\ conn[reg[v].active].srv = v
        /\ conn[reg[v].active].ses \in {"open", "closing"}

(* The durable watermark covers every incarnation a registry accepted, so   *)
(* "retains the highest accepted incarnation" survives a restart of the     *)
(* Server.                                                                  *)
WatermarkCovers == \A v \in Servers : high[v] <= Loaded

(* No step makes a session of an older incarnation active once the Server   *)
(* accepted a newer one, across its restarts: a connection of a dead Agent       *)
(* process, served late, never displaces its successor.                     *)
NoRollback ==
    [][\A v \in Servers :
          (reg'[v].active \notin {None, reg[v].active})
             => conn[reg'[v].active].inc >= high[v]]_vars

(* Two Server processes on one database never move the watermark back.      *)
WatermarkMonotone == [][store' # -1 => store' >= store]_store

(* The Agent gives a session up as silent only when the Server's calls      *)
(* stopped arriving: the path is cut, the Server's end is gone, or all but  *)
(* one of the heartbeats of the window were missed.                         *)
SilenceIsReal ==
    [][(agent.phase = "up" /\ agent'.phase = "sleep") =>
          \/ conn[agent.conn].path = "cut"
          \/ ~Open(agent.conn)
          \/ conn[agent.conn].missed >= left.window - 1]_vars

(* The Agent and the registry agree on a healthy session.                   *)
Connected ==
    /\ agent.phase = "up"
    /\ \E v \in Servers : reg[v].active = agent.conn
    /\ Open(agent.conn)
    /\ conn[agent.conn].path = "ok"
    /\ conn[agent.conn].inc = agent.inc

(* However sessions are cut, replaced, restarted or refused, once the       *)
(* faults stop the Agent ends up, for good, on a session the registry hands *)
(* out.                                                                     *)
Reconnects == <>[]Connected

(* The registry hands out one session per Agent, the one that is really     *)
(* there, of an incarnation its durable watermark covers (NoOrphan,         *)
(* ActiveIsThere, WatermarkCovers).                                         *)
OneActiveSession == TypeOK /\ NoOrphan /\ ActiveIsThere /\ WatermarkCovers

(* Neither the active session nor the watermark ever goes back (NoRollback, *)
(* WatermarkMonotone), and the watchdog never breaks a session that was     *)
(* answering (SilenceIsReal).                                               *)
OnlyForward == NoRollback /\ WatermarkMonotone /\ SilenceIsReal
=============================================================================
