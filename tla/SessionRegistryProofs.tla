----------------------- MODULE SessionRegistryProofs -----------------------
(***************************************************************************)
(* Proofs about an Agent's sessions (SessionRegistry).                     *)
(***************************************************************************)
EXTENDS SessionRegistry, TLAPS

(* Most leaves are first-order; the ones that need arithmetic or updates    *)
(* of functions and records cite SMT.                                       *)
USE Zenon

(* Where Accept holds r.mu, and where it has no session yet.               *)
Locked == {"swap", "reload", "own"}
Sessionless == {"none", "queued", "shaken", "swap", "reload", "own", "refused"}

(* One connection as Accept left it: the mutex is its own while it          *)
(* registers, its incarnation is then not below any this Server accepted,   *)
(* and it replaces a session of the same Server.                            *)
ConnSound(c) ==
    /\ conn[c].pc \in Locked => reg[conn[c].srv].mu = c /\ conn[c].inc >= high[conn[c].srv]
    /\ conn[c].pc = "own" => conn[c].inc <= Loaded
    /\ conn[c].pc = "swap" => conn[c].inc > conn[c].last
    /\ conn[c].pc \in Sessionless => conn[c].ses = "none"
    /\ conn[c].pc = "none" => conn[c].agent = "closed"
    /\ conn[c].prev # None =>
          /\ conn[c].pc = "replace"
          /\ conn[conn[c].prev].srv = conn[c].srv /\ conn[conn[c].prev].ses # "none"

Core == (\A c \in Conns : ConnSound(c)) /\ NoOrphan /\ ActiveIsThere /\ WatermarkCovers

(* The Agent holds the connection it shakes hands on or serves.             *)
AgentHolds ==
    /\ agent.phase \in {"shake", "up"} => agent.conn \in Conns /\ conn[agent.conn].agent = "open"
    /\ agent.phase \in {"dial", "sleep"} => agent.conn = None
    /\ agent.phase = "up" => conn[agent.conn].pc # "queued"

(* Tickers run for open sessions and for an Agent that serves one.          *)
DueIsOpen ==
    /\ \A c \in due \ {Watchdog} : conn[c].pc = "served" /\ conn[c].ses = "open"
    /\ Watchdog \in due => agent.phase = "up"

(* The watchdog counts at most one interval more than the heartbeats that   *)
(* were missed.                                                             *)
SilenceCounted ==
    agent.phase = "up" =>
        /\ conn[agent.conn].pc \in {"shaken", "swap", "reload", "own"} => agent.silent = 0
        /\ Open(agent.conn) =>
              agent.silent <= conn[agent.conn].missed + (IF agent.conn \in due THEN 1 ELSE 0)

SessionInv == TypeOK /\ Core /\ AgentHolds /\ DueIsOpen /\ SilenceCounted
-----------------------------------------------------------------------------
(* The operators of the model.                                              *)

Conn == Connections(left.window)
BudgetNames == {"cut", "slow", "miss", "audit", "store", "boot", "loss", "retire"}

(* None is not a connection, and a free connection is one.                  *)
LEMMA FreeIsConn ==
  ASSUME left \in Scenarios
  PROVE  /\ None \notin Conns /\ Watchdog \notin Conns
         /\ Free \in Conn
         /\ Free.pc = "none" /\ Free.agent = "closed" /\ Free.ses = "none" /\ Free.prev = None /\ Free.path = "ok"
         /\ Free.inc = 0 /\ Free.last = 0 /\ Free.age = 0 /\ Free.missed = 0
  <1>1. None \notin Conns /\ Watchdog \notin Conns /\ Servers # {} /\ MaxInc \in Nat
    BY SessionAssumption DEF None, Watchdog
  <1>2. left.window \in Nat
    BY DEF Scenarios
  <1>3. (CHOOSE v \in Servers : TRUE) \in Servers
    BY <1>1
  <1> QED BY <1>1, <1>2, <1>3, SMT DEF Free, Conn, Connections, Stages

(* Spending a budget changes no other part of the scenario.                 *)
LEMMA SpendKeeps ==
  ASSUME left \in Scenarios, NEW b \in BudgetNames, Spend(b)
  PROVE  /\ left' \in Scenarios
         /\ left'.window = left.window /\ left'.servers = left.servers /\ left'.inc = left.inc
  BY SMT DEF Scenarios, Spend, BudgetNames

(* The smaller and the larger of two integers.                              *)
LEMMA MinMax ==
  ASSUME NEW a \in Int, NEW b \in Int
  PROVE  /\ Min({a, b}) = IF a <= b THEN a ELSE b
         /\ Max({a, b}) = IF a <= b THEN b ELSE a
  <1>1. CASE a <= b
    <2>1. a \in {a, b} /\ (\A y \in {a, b} : a <= y) /\ b \in {a, b} /\ (\A y \in {a, b} : b >= y)
      BY <1>1, SMT
    <2>2. Min({a, b}) = a
      BY <1>1, <2>1, SMT DEF Min
    <2>3. Max({a, b}) = b
      BY <1>1, <2>1, SMT DEF Max
    <2> QED BY <1>1, <2>2, <2>3
  <1>2. CASE a > b
    <2>1. b \in {a, b} /\ (\A y \in {a, b} : b <= y) /\ a \in {a, b} /\ (\A y \in {a, b} : a >= y)
      BY <1>2, SMT
    <2>2. Min({a, b}) = b
      BY <1>2, <2>1, SMT DEF Min
    <2>3. Max({a, b}) = a
      BY <1>2, <2>1, SMT DEF Max
    <2> QED BY <1>2, <2>2, <2>3, SMT
  <1> QED BY <1>1, <1>2, SMT

(* What an update of connection c to r leaves: c and the others are as they *)
(* should be, or forgotten because nobody needs them any more.              *)
Unneeded(r) == r.agent = "closed" /\ r.pc \in {"served", "refused"} /\ r.ses \in {"none", "gone"}
Written(c, r) ==
    \/ conn'[c] = r
    \/ conn'[c] = Free /\ Unneeded(r) /\ (\A d \in Conns \ {c} : conn[d].prev # c)
OthersKept(c, r) ==
    \A d \in Conns \ {c} :
        \/ conn'[d] = conn[d]
        \/ /\ conn'[d] = Free /\ Unneeded(conn[d]) /\ r.prev # d
           /\ \A e \in Conns \ {c} : conn[e].prev # d

(* The update of one connection.                                            *)
LEMMA SetOne ==
  ASSUME left \in Scenarios, conn \in [Conns -> Conn], NEW c \in Conns, NEW r \in Conn, Set(c, r)
  PROVE  conn' \in [Conns -> Conn] /\ Written(c, r) /\ OthersKept(c, r)
  <1> DEFINE cs == [conn EXCEPT ![c] = r]
  <1>1. cs \in [Conns -> Conn] /\ cs[c] = r /\ \A d \in Conns \ {c} : cs[d] = conn[d]
    OBVIOUS
  <1>2. conn' = [d \in Conns |-> IF Dead(cs, d) THEN Free ELSE cs[d]]
    BY DEF Set, Settle
  <1>3. Free \in Conn
    BY FreeIsConn
  <1> HIDE DEF cs
  <1>4. conn' \in [Conns -> Conn]
    BY <1>1, <1>2, <1>3
  <1>5. \A d \in Conns : conn'[d] = cs[d] \/ (conn'[d] = Free /\ Dead(cs, d))
    BY <1>2
  <1>6. Written(c, r)
    BY <1>1, <1>5, SMT DEF Dead, Written, Unneeded
  <1>7. OthersKept(c, r)
    BY <1>1, <1>5, SMT DEF Dead, OthersKept, Unneeded
  <1> QED BY <1>4, <1>6, <1>7

(* The fields of a connection.                                              *)
LEMMA ConnFields ==
  ASSUME TypeOK, NEW c \in Conns
  PROVE  /\ conn[c] \in Conn /\ left.window \in Nat /\ left.window > 0 /\ MaxInc \in Nat
         /\ conn[c].pc \in Stages /\ conn[c].srv \in Servers /\ conn[c].inc \in 0 .. MaxInc
         /\ conn[c].agent \in {"open", "closed"} /\ conn[c].path \in {"ok", "cut"}
         /\ conn[c].ses \in {"none", "open", "closing", "gone"} /\ conn[c].last \in 0 .. MaxInc
         /\ conn[c].prev \in Conns \cup {None}
         /\ conn[c].age \in 0 .. left.window /\ conn[c].missed \in 0 .. left.window
  <1>1. conn[c] \in Conn
    BY DEF TypeOK, Conn
  <1>2. left.window \in Nat /\ left.window > 0 /\ MaxInc \in Nat
    BY SessionAssumption, SMT DEF TypeOK, Scenarios
  <1> QED BY <1>1, <1>2 DEF Conn, Connections

-----------------------------------------------------------------------------
(* Steps that change no session.                                            *)

(* What this step leaves a connection that it does not forget.              *)
KeptFields(d) ==
    /\ conn'[d].pc = conn[d].pc /\ conn'[d].srv = conn[d].srv /\ conn'[d].inc = conn[d].inc
    /\ conn'[d].ses = conn[d].ses /\ conn'[d].last = conn[d].last /\ conn'[d].prev = conn[d].prev
    /\ conn[d].agent = "closed" => conn'[d].agent = "closed"
Forgotten(d) ==
    /\ conn'[d] = Free
    /\ conn[d].pc \in {"served", "refused"} /\ conn[d].ses \in {"none", "gone"}
    /\ \A e \in Conns : conn[e].prev # d

(* The registry's guarantees depend on nothing else.                        *)
LEMMA CoreKept ==
  ASSUME TypeOK, Core, conn' \in [Conns -> Conn], UNCHANGED <<store, reg, high>>,
         \A d \in Conns : KeptFields(d) \/ Forgotten(d)
  PROVE  Core'
  <1>1. /\ None \notin Conns /\ Free.pc = "none" /\ Free.agent = "closed" /\ Free.ses = "none" /\ Free.prev = None
    BY FreeIsConn DEF TypeOK
  <1>2. \A d \in Conns : ConnSound(d)'
    <2> SUFFICES ASSUME NEW d \in Conns PROVE ConnSound(d)'
      OBVIOUS
    <2>1. CASE KeptFields(d)
      <3>1. conn[d].prev \in Conns => KeptFields(conn[d].prev)
        BY DEF Forgotten
      <3>2. conn[d].prev \in Conns \cup {None}
        BY ConnFields
      <3> QED BY <1>1, <2>1, <3>1, <3>2, SMTT(20) DEF Core, ConnSound, KeptFields, Loaded, Locked, Sessionless
    <2>2. CASE Forgotten(d)
      BY <1>1, <2>2 DEF ConnSound, Forgotten, Locked
    <2> QED BY <2>1, <2>2
  <1>3. NoOrphan'
    <2> SUFFICES ASSUME NEW c \in Conns, Open(c)'
                 PROVE  \/ reg[conn'[c].srv].active = c
                        \/ \E d \in Conns : conn'[d].prev = c /\ conn'[d].pc = "replace"
      BY DEF NoOrphan
    <2>1. KeptFields(c) /\ Open(c)
      BY <1>1 DEF Open, Forgotten, KeptFields
    <2>2. CASE reg[conn[c].srv].active = c
      BY <2>1, <2>2 DEF KeptFields
    <2>3. CASE \E d \in Conns : conn[d].prev = c /\ conn[d].pc = "replace"
      BY <2>3 DEF KeptFields, Forgotten
    <2> QED BY <2>1, <2>2, <2>3 DEF Core, NoOrphan
  <1>4. ActiveIsThere'
    <2> SUFFICES ASSUME NEW v \in Servers, reg[v].active # None
                 PROVE  conn'[reg[v].active].srv = v /\ conn'[reg[v].active].ses \in {"open", "closing"}
      BY DEF ActiveIsThere
    <2>1. reg[v].active \in Conns
      BY DEF TypeOK, Registries
    <2> QED BY <2>1 DEF Core, ActiveIsThere, KeptFields, Forgotten
  <1>5. WatermarkCovers'
    BY DEF Core, WatermarkCovers, Loaded
  <1> QED BY <1>2, <1>3, <1>4, <1>5 DEF Core

(* An update of one connection that keeps those fields.                     *)
LEMMA QuietSet ==
  ASSUME TypeOK, Core, NEW c \in Conns, NEW r \in Conn, Set(c, r), UNCHANGED <<store, reg, high>>,
         r.pc = conn[c].pc, r.srv = conn[c].srv, r.inc = conn[c].inc, r.ses = conn[c].ses,
         r.last = conn[c].last, r.prev = conn[c].prev, conn[c].agent = "closed" => r.agent = "closed"
  PROVE  /\ conn' \in [Conns -> Conn]
         /\ Core'
         /\ \A d \in Conns : KeptFields(d) \/ Forgotten(d)
         /\ \A d \in Conns \ {c} : conn[d].agent = "open" \/ conn[d].ses = "open" => conn'[d] = conn[d]
         /\ r.agent = "open" \/ r.ses = "open" => conn'[c] = r
  <1>1. left \in Scenarios /\ conn \in [Conns -> Conn]
    BY DEF TypeOK, Conn
  <1>2. conn' \in [Conns -> Conn] /\ Written(c, r) /\ OthersKept(c, r)
    BY <1>1, SetOne
  <1>3. \A d \in Conns : KeptFields(d) \/ Forgotten(d)
    <2>1. \A d \in Conns \ {c} : KeptFields(d) \/ Forgotten(d)
      BY <1>2, SMT DEF KeptFields, Forgotten, OthersKept, Unneeded
    <2>2. KeptFields(c) \/ Forgotten(c)
      <3>1. CASE conn'[c] = r
        BY <3>1 DEF KeptFields
      <3>2. CASE conn'[c] # r
        <4>1. conn'[c] = Free /\ Unneeded(r) /\ (\A d \in Conns \ {c} : conn[d].prev # c)
          BY <1>2, <3>2 DEF Written
        <4>2. conn[c].prev # c
          BY <4>1, FreeIsConn, SMT DEF Unneeded, Core, ConnSound, TypeOK
        <4> QED BY <4>1, <4>2 DEF Forgotten, Unneeded
      <3> QED BY <3>1, <3>2
    <2> QED BY <2>1, <2>2
  <1>4. Core'
    BY <1>2, <1>3, CoreKept
  <1>5. \A d \in Conns \ {c} : conn[d].agent = "open" \/ conn[d].ses = "open" => conn'[d] = conn[d]
    BY <1>2 DEF OthersKept, Unneeded
  <1>6. r.agent = "open" \/ r.ses = "open" => conn'[c] = r
    BY <1>2 DEF Written, Unneeded
  <1> QED BY <1>2, <1>3, <1>4, <1>5, <1>6

(* Tickers of sessions that stay are still right.                           *)
LEMMA DueKept ==
  ASSUME TypeOK, DueIsOpen, \A d \in Conns : KeptFields(d) \/ Forgotten(d), due' \subseteq due,
         Watchdog \in due' => agent'.phase = "up"
  PROVE  DueIsOpen'
  <1>1. \A c \in due' \ {Watchdog} : c \in Conns /\ c \in due \ {Watchdog}
    BY DEF TypeOK
  <1> QED BY <1>1, SMT DEF DueIsOpen, KeptFields, Forgotten

(* The Agent lets its connection go (ShakeFails, SessionEnds, the watchdog, *)
(* a restart).                                                              *)
LEMMA AgentLeaves ==
  ASSUME SessionInv, agent.phase \in {"shake", "up"},
         Set(agent.conn, [conn[agent.conn] EXCEPT !.agent = "closed"]),
         UNCHANGED <<store, retired, reg, high>>,
         left' \in Scenarios, left'.window = left.window, due' = due \ {Watchdog},
         agent' \in Agents(left.window), agent'.conn = None, agent'.phase \in {"dial", "sleep"}
  PROVE  SessionInv'
  <1> DEFINE c == agent.conn
             r == [conn[c] EXCEPT !.agent = "closed"]
  <1>1. TypeOK /\ Core /\ DueIsOpen /\ c \in Conns
    BY DEF SessionInv, AgentHolds
  <1>2. conn[c] \in Conn
    BY <1>1, ConnFields
  <1>3. /\ r \in Conn /\ r.pc = conn[c].pc /\ r.srv = conn[c].srv /\ r.inc = conn[c].inc /\ r.ses = conn[c].ses
        /\ r.last = conn[c].last /\ r.prev = conn[c].prev /\ r.agent = "closed"
    BY <1>2 DEF Conn, Connections
  <1>4. Set(c, r)
    OBVIOUS
  <1> HIDE DEF r
  <1>5. conn' \in [Conns -> Conn] /\ Core' /\ \A d \in Conns : KeptFields(d) \/ Forgotten(d)
    BY <1>1, <1>3, <1>4, QuietSet
  <1>6. TypeOK'
    BY <1>1, <1>5 DEF TypeOK, Conn
  <1>7. DueIsOpen'
    BY <1>1, <1>5, DueKept
  <1> QED BY <1>5, <1>6, <1>7 DEF SessionInv, AgentHolds, SilenceCounted

(* A handshake that fails keeps the invariant.                              *)
LEMMA ShakeFailsKeeps == ASSUME SessionInv, ShakeFails PROVE SessionInv'
  <1>1. TypeOK /\ agent.phase = "shake" /\ agent \in Agents(left.window) /\ left \in Scenarios /\ left.window \in Nat
    BY DEF SessionInv, ShakeFails, TypeOK, Scenarios
  <1>2. left' \in Scenarios /\ left'.window = left.window
    BY <1>1, SpendKeeps DEF ShakeFails, BudgetNames
  <1>3. due' = due \ {Watchdog}
    BY <1>1 DEF ShakeFails, SessionInv, DueIsOpen
  <1>4. agent' \in Agents(left.window) /\ agent'.conn = None /\ agent'.phase = "sleep"
    BY <1>1, SMT DEF ShakeFails, Asleep, Agents
  <1> QED BY <1>1, <1>2, <1>3, <1>4, AgentLeaves DEF ShakeFails

(* An ended session keeps the invariant.                                    *)
LEMMA SessionEndsKeeps == ASSUME SessionInv, SessionEnds PROVE SessionInv'
  <1>1. TypeOK /\ agent.phase = "up" /\ agent \in Agents(left.window) /\ left \in Scenarios /\ left.window \in Nat
    BY DEF SessionInv, SessionEnds, TypeOK, Scenarios
  <1>2. agent' \in Agents(left.window) /\ agent'.conn = None /\ agent'.phase = "sleep"
    BY <1>1, SMT DEF SessionEnds, Asleep, Agents
  <1> QED BY <1>1, <1>2, AgentLeaves DEF SessionEnds

(* A run of the Agent's watchdog keeps the invariant.                       *)
LEMMA WatchdogRunKeeps == ASSUME SessionInv, WatchdogRun PROVE SessionInv'
  <1>1. TypeOK /\ agent.phase = "up" /\ agent \in Agents(left.window) /\ left \in Scenarios /\ left.window \in Nat
    BY DEF SessionInv, WatchdogRun, TypeOK, Scenarios, DueIsOpen
  <1>2. CASE agent.silent >= left.window
    <2>1. agent' \in Agents(left.window) /\ agent'.conn = None /\ agent'.phase = "sleep"
      BY <1>1, <1>2, SMT DEF WatchdogRun, Asleep, Agents
    <2> QED BY <1>1, <1>2, <2>1, AgentLeaves DEF WatchdogRun
  <1>3. CASE ~(agent.silent >= left.window)
    <2>1. UNCHANGED <<conn, agent, store, retired, reg, high, left>> /\ due' = due \ {Watchdog}
      BY <1>3 DEF WatchdogRun
    <2>2. TypeOK' /\ Core' /\ AgentHolds'
      BY <2>1, SMT DEF SessionInv, TypeOK, Core, ConnSound, NoOrphan, ActiveIsThere, WatermarkCovers, Loaded, Open, AgentHolds
    <2>3. agent.conn \in Conns /\ Watchdog \notin Conns
      BY <1>1, FreeIsConn DEF SessionInv, AgentHolds
    <2>4. SilenceCounted'
      <3>1. agent.conn \in due' <=> agent.conn \in due
        BY <2>1, <2>3
      <3> QED BY <2>1, <3>1 DEF SessionInv, SilenceCounted, Open
    <2>5. DueIsOpen'
      BY <2>1 DEF SessionInv, DueIsOpen
    <2> QED BY <2>2, <2>4, <2>5 DEF SessionInv
  <1> QED BY <1>2, <1>3

(* A restart of the Agent keeps the invariant.                              *)
LEMMA AgentRestartKeeps == ASSUME SessionInv, AgentRestart PROVE SessionInv'
  <1>1. TypeOK /\ agent \in Agents(left.window) /\ left \in Scenarios /\ left.window \in Nat /\ left.inc \in 1 .. MaxInc
        /\ MaxInc \in Nat
    BY SessionAssumption DEF SessionInv, TypeOK, Scenarios
  <1>2. agent' \in Agents(left.window) /\ agent'.conn = None /\ agent'.phase = "dial"
    BY <1>1, SMT DEF AgentRestart, Agents
  <1>3. CASE agent.conn = None
    <2>1. agent.phase \in {"dial", "sleep"} /\ Watchdog \notin due
      <3>1. agent.phase \in {"dial", "shake", "up", "sleep"}
        BY <1>1 DEF Agents
      <3>2. agent.phase \notin {"shake", "up"}
        BY <1>1, <1>3, FreeIsConn DEF SessionInv, AgentHolds
      <3> QED BY <3>1, <3>2 DEF SessionInv, DueIsOpen
    <2>2. UNCHANGED <<conn, store, retired, reg, high, left>> /\ due' = due
      BY <1>3, <2>1 DEF AgentRestart
    <2>3. TypeOK' /\ Core'
      BY <1>2, <2>2, SMT DEF SessionInv, TypeOK, Core, ConnSound, NoOrphan, ActiveIsThere, WatermarkCovers, Loaded, Open
    <2> QED BY <1>2, <2>1, <2>2, <2>3 DEF SessionInv, AgentHolds, DueIsOpen, SilenceCounted
  <1>4. CASE agent.conn # None
    <2>1. agent.phase \in {"shake", "up"}
      BY <1>1, <1>4 DEF SessionInv, AgentHolds, Agents
    <2> QED BY <1>1, <1>2, <1>4, <2>1, AgentLeaves DEF AgentRestart
  <1> QED BY <1>3, <1>4


(* A dial takes a free connection, which no session and no Accept uses.     *)
LEMMA DialKeeps == ASSUME SessionInv, Dial PROVE SessionInv'
  <1>1. PICK c \in Conns, v \in left.servers :
           /\ conn[c] = Free
           /\ conn' = [conn EXCEPT ![c] = [Free EXCEPT !.pc = "queued", !.srv = v,
                                             !.inc = agent.inc, !.agent = "open"]]
           /\ agent' = [agent EXCEPT !.phase = "shake", !.conn = c]
    BY DEF Dial
  <1> DEFINE r == [Free EXCEPT !.pc = "queued", !.srv = v, !.inc = agent.inc, !.agent = "open"]
  <1>2. /\ TypeOK /\ Core /\ AgentHolds /\ DueIsOpen /\ agent.phase = "dial"
        /\ UNCHANGED <<store, retired, reg, due, high, left>>
    BY DEF SessionInv, Dial
  <1>3. /\ None \notin Conns /\ Watchdog \notin Conns /\ Free \in Conn
        /\ Free.pc = "none" /\ Free.agent = "closed" /\ Free.ses = "none" /\ Free.prev = None /\ Free.path = "ok"
    BY <1>2, FreeIsConn DEF TypeOK
  <1>4. agent \in Agents(left.window) /\ v \in Servers /\ agent.inc \in 0 .. MaxInc
    BY <1>2, SMT DEF TypeOK, Agents, Scenarios
  <1>5. r \in Conn /\ r.pc = "queued" /\ r.ses = "none" /\ r.prev = None /\ r.agent = "open" /\ r.srv = v
    BY <1>3, <1>4 DEF Conn, Connections, Stages
  <1> HIDE DEF r
  <1>6. conn' \in [Conns -> Conn] /\ conn'[c] = r /\ \A d \in Conns \ {c} : conn'[d] = conn[d]
    BY <1>1, <1>2, <1>5 DEF TypeOK, Conn, r
  <1>7. \A d \in Conns : conn[d].prev # c
    BY <1>1, <1>2, <1>3, SMT DEF Core, ConnSound
  <1>8. TypeOK'
    BY <1>1, <1>2, <1>4, <1>6 DEF TypeOK, Conn, Agents
  <1>9. \A d \in Conns : ConnSound(d)'
    <2> SUFFICES ASSUME NEW d \in Conns PROVE ConnSound(d)'
      OBVIOUS
    <2>1. CASE d = c
      BY <1>5, <1>6, <2>1 DEF ConnSound, Locked, Sessionless
    <2>2. CASE d # c
      <3>1. ConnSound(d) /\ conn'[d] = conn[d] /\ conn[d].prev \in (Conns \ {c}) \cup {None}
        BY <1>2, <1>6, <1>7, <2>2, ConnFields DEF Core
      <3>2. conn[d].prev # None => conn'[conn[d].prev] = conn[conn[d].prev]
        BY <1>6, <3>1
      <3> QED BY <1>2, <3>1, <3>2 DEF ConnSound, Loaded
    <2> QED BY <2>1, <2>2
  <1>10. NoOrphan' /\ ActiveIsThere' /\ WatermarkCovers'
    <2>1. NoOrphan'
      <3> SUFFICES ASSUME NEW e \in Conns, conn'[e].ses = "open"
                   PROVE  \/ reg[conn'[e].srv].active = e
                          \/ \E d \in Conns : conn'[d].prev = e /\ conn'[d].pc = "replace"
        BY <1>2 DEF NoOrphan, Open
      <3>1. e # c /\ conn'[e] = conn[e]
        BY <1>5, <1>6
      <3>2. \/ reg[conn[e].srv].active = e
            \/ \E d \in Conns : conn[d].prev = e /\ conn[d].pc = "replace"
        BY <1>2, <3>1 DEF Core, NoOrphan, Open
      <3>3. \A d \in Conns : conn[d].pc = "replace" => conn'[d] = conn[d]
        BY <1>1, <1>3, <1>6
      <3> QED BY <3>1, <3>2, <3>3
    <2>2. \A w \in Servers : reg[w].active # c /\ reg[w].active \in Conns \cup {None}
      BY <1>1, <1>2, <1>3, ZenonT(40) DEF Core, ActiveIsThere, TypeOK, Registries
    <2>3. ActiveIsThere'
      BY <1>2, <1>6, <2>2, SMT DEF Core, ActiveIsThere
    <2>4. WatermarkCovers'
      BY <1>2 DEF Core, WatermarkCovers, Loaded
    <2> QED BY <2>1, <2>3, <2>4
  <1>11. AgentHolds' /\ DueIsOpen' /\ SilenceCounted'
    <2>1. agent'.phase = "shake" /\ agent'.conn = c
      BY <1>1, <1>4 DEF Agents
    <2>2. Watchdog \notin due /\ c \notin due
      BY <1>1, <1>2, <1>3 DEF DueIsOpen
    <2>3. \A d \in due : d \in Conns
      BY <1>2, <2>2 DEF TypeOK
    <2> QED BY <1>2, <1>5, <1>6, <2>1, <2>2, <2>3, SMT DEF AgentHolds, DueIsOpen, SilenceCounted
  <1> QED BY <1>8, <1>9, <1>10, <1>11 DEF SessionInv, Core

(* Shaken, Backoff and Retire change no connection.                         *)
LEMMA ShakenKeeps == ASSUME SessionInv, Shaken \/ Backoff \/ Retire PROVE SessionInv'
  <1>1. UNCHANGED <<store, reg, conn, due, high>>
    BY DEF Shaken, Backoff, Retire
  <1>2. left' \in Scenarios /\ left'.window = left.window
    BY SpendKeeps DEF SessionInv, TypeOK, Shaken, Backoff, Retire, BudgetNames
  <1>3. agent' \in Agents(left.window) /\ retired' \in BOOLEAN
    <2>1. left.window \in Nat
      BY DEF SessionInv, TypeOK, Scenarios
    <2>2. agent' \in Agents(left.window)
      <3>1. agent \in Agents(left.window)
        BY DEF SessionInv, TypeOK
      <3>2. \/ agent' = agent
            \/ agent' = [agent EXCEPT !.phase = "up", !.silent = 0]
            \/ agent' = [agent EXCEPT !.phase = "dial"]
        BY DEF Shaken, Backoff, Retire
      <3>3. 0 \in 0 .. left.window
        BY <2>1, SMT
      <3>4. [agent EXCEPT !.phase = "up", !.silent = 0] \in Agents(left.window)
        BY <3>1, <3>3 DEF Agents
      <3>5. [agent EXCEPT !.phase = "dial"] \in Agents(left.window)
        BY <3>1 DEF Agents
      <3> QED BY <3>1, <3>2, <3>4, <3>5
    <2>3. retired' = retired \/ retired' = TRUE
      BY DEF Shaken, Backoff, Retire
    <2> QED BY <2>2, <2>3 DEF SessionInv, TypeOK
  <1>4. TypeOK' /\ Core'
    BY <1>1, <1>2, <1>3, SMT DEF SessionInv, TypeOK, Core, ConnSound, NoOrphan, ActiveIsThere, WatermarkCovers, Loaded, Open
  <1>5. \/ UNCHANGED agent
        \/ agent.phase = "sleep" /\ agent'.phase = "dial" /\ agent'.conn = agent.conn
        \/ /\ agent.phase = "shake" /\ agent'.phase = "up" /\ agent'.conn = agent.conn /\ agent'.silent = 0
           /\ conn[agent.conn].pc # "queued"
    BY DEF SessionInv, TypeOK, Agents, Shaken, Backoff, Retire
  <1>6. AgentHolds'
    BY <1>1, <1>5 DEF SessionInv, AgentHolds
  <1>7. DueIsOpen'
    BY <1>1, <1>5 DEF SessionInv, DueIsOpen
  <1>8. SilenceCounted'
    <2>1. agent.phase = "shake" => conn[agent.conn].missed \in Nat
      <3>1. agent.phase = "shake" => agent.conn \in Conns
        BY DEF SessionInv, AgentHolds
      <3> QED BY <3>1, ConnFields, SMT DEF SessionInv
    <2> QED BY <1>1, <1>5, <2>1, SMT DEF SessionInv, SilenceCounted, Open
  <1> QED BY <1>4, <1>6, <1>7, <1>8 DEF SessionInv

(* A path that goes silent.                                                 *)
LEMMA CutKeeps == ASSUME SessionInv, NEW c \in Conns, Cut(c) PROVE SessionInv'
  <1> DEFINE r == [conn[c] EXCEPT !.path = "cut"]
  <1>1. TypeOK /\ Core /\ AgentHolds /\ DueIsOpen /\ UNCHANGED <<store, retired, reg, agent, due, high>>
    BY DEF SessionInv, Cut
  <1>2. left' \in Scenarios /\ left'.window = left.window
    BY <1>1, SpendKeeps DEF Cut, TypeOK, BudgetNames
  <1>3. /\ r \in Conn /\ r.pc = conn[c].pc /\ r.srv = conn[c].srv /\ r.inc = conn[c].inc /\ r.ses = conn[c].ses
        /\ r.last = conn[c].last /\ r.prev = conn[c].prev /\ r.agent = conn[c].agent /\ r.missed = conn[c].missed
    BY <1>1, ConnFields DEF Conn, Connections
  <1>4. Set(c, r)
    BY DEF Cut
  <1> HIDE DEF r
  <1>5. /\ conn' \in [Conns -> Conn] /\ Core' /\ \A d \in Conns : KeptFields(d) \/ Forgotten(d)
        /\ \A d \in Conns \ {c} : conn[d].agent = "open" \/ conn[d].ses = "open" => conn'[d] = conn[d]
        /\ r.agent = "open" \/ r.ses = "open" => conn'[c] = r
    BY <1>1, <1>3, <1>4, QuietSet
  <1>6. TypeOK'
    BY <1>1, <1>2, <1>5 DEF TypeOK, Conn
  <1>7. DueIsOpen'
    BY <1>1, <1>5, DueKept DEF DueIsOpen
  <1>8. AgentHolds' /\ SilenceCounted'
    <2>1. agent.phase \in {"shake", "up"} =>
            /\ agent.conn \in Conns /\ conn'[agent.conn].agent = "open"
            /\ conn'[agent.conn].pc = conn[agent.conn].pc /\ conn'[agent.conn].ses = conn[agent.conn].ses
            /\ conn'[agent.conn].missed = conn[agent.conn].missed
      BY <1>1, <1>3, <1>5 DEF AgentHolds
    <2> QED BY <1>1, <2>1 DEF SessionInv, AgentHolds, SilenceCounted, Open
  <1> QED BY <1>5, <1>6, <1>7, <1>8 DEF SessionInv

(* A round of tickers: only ages and the watchdog's count grow.             *)
LEMMA TickKeeps == ASSUME SessionInv, Tick PROVE SessionInv'
  <1> DEFINE older(c) == [conn[c] EXCEPT !.age = Min({@ + 1, left.window})]
             tickers == {c \in Conns : conn[c].pc = "served" /\ Open(c)}
  <1>1. /\ TypeOK /\ Core /\ AgentHolds /\ DueIsOpen /\ SilenceCounted /\ due = {}
        /\ UNCHANGED <<store, retired, reg, high, left>>
        /\ \A c \in Conns : conn[c].pc \in {"none", "queued", "served", "refused"}
        /\ due' = tickers \cup (IF agent.phase = "up" THEN {Watchdog} ELSE {})
        /\ conn' = [c \in Conns |-> IF Open(c) THEN older(c) ELSE conn[c]]
    BY DEF SessionInv, Tick
  <1>2. left.window \in Nat /\ agent \in Agents(left.window) /\ Watchdog \notin Conns
    BY <1>1, FreeIsConn DEF TypeOK, Scenarios
  <1>3. \A n \in 0 .. left.window : Min({n + 1, left.window}) \in 0 .. left.window /\ Min({n + 1, left.window}) <= n + 1
    BY <1>2, MinMax, SMT
  <1>4. \A c \in Conns : /\ older(c) \in Conn
                         /\ older(c).pc = conn[c].pc /\ older(c).srv = conn[c].srv /\ older(c).inc = conn[c].inc
                         /\ older(c).ses = conn[c].ses /\ older(c).last = conn[c].last /\ older(c).prev = conn[c].prev
                         /\ older(c).agent = conn[c].agent /\ older(c).missed = conn[c].missed
    <2> SUFFICES ASSUME NEW c \in Conns PROVE /\ older(c) \in Conn
                         /\ older(c).pc = conn[c].pc /\ older(c).srv = conn[c].srv /\ older(c).inc = conn[c].inc
                         /\ older(c).ses = conn[c].ses /\ older(c).last = conn[c].last /\ older(c).prev = conn[c].prev
                         /\ older(c).agent = conn[c].agent /\ older(c).missed = conn[c].missed
      OBVIOUS
    <2>1. conn[c] \in Conn /\ Min({conn[c].age + 1, left.window}) \in 0 .. left.window
      BY <1>1, <1>3, ConnFields
    <2> QED BY <2>1 DEF Conn, Connections
  <1> HIDE DEF older
  <1>5. conn' \in [Conns -> Conn] /\ \A d \in Conns : KeptFields(d)
    <2>1. \A d \in Conns : conn[d] \in Conn
      BY <1>1, ConnFields
    <2> QED BY <1>1, <1>4, <2>1 DEF KeptFields
  <1>6. Core'
    BY <1>1, <1>5, CoreKept
  <1>7. /\ agent' \in Agents(left.window) /\ agent'.conn = agent.conn /\ agent'.phase = agent.phase
        /\ agent'.silent <= agent.silent + 1
    <2>1. agent.silent \in 0 .. left.window
      BY <1>2 DEF Agents
    <2>2. Min({agent.silent + 1, left.window}) \in 0 .. left.window /\ Min({agent.silent + 1, left.window}) <= agent.silent + 1
      BY <1>3, <2>1
    <2> QED BY <1>2, <2>1, <2>2, SMT DEF Tick, Agents
  <1>8. TypeOK'
    BY <1>1, <1>5, <1>7 DEF TypeOK, Conn
  <1>9. AgentHolds'
    <2>1. \A c \in Conns : conn'[c].agent = conn[c].agent
      BY <1>1, <1>4
    <2> QED BY <1>1, <1>5, <1>7, <2>1, SMT DEF AgentHolds, KeptFields
  <1>10. DueIsOpen'
    BY <1>1, <1>2, <1>5, <1>7 DEF DueIsOpen, KeptFields, Open
  <1>11. SilenceCounted'
    <2> SUFFICES ASSUME agent.phase = "up"
                 PROVE  /\ conn'[agent.conn].pc \notin {"shaken", "swap", "reload", "own"}
                        /\ conn'[agent.conn].ses = "open" =>
                              agent'.silent <= conn'[agent.conn].missed + (IF agent.conn \in due' THEN 1 ELSE 0)
      BY <1>7 DEF SilenceCounted, Open
    <2>1. agent.conn \in Conns /\ conn[agent.conn].pc # "queued" /\ conn[agent.conn].agent = "open"
      BY <1>1 DEF AgentHolds
    <2>2. conn[agent.conn].pc \in {"served", "refused"}
      BY <1>1, <2>1 DEF Core, ConnSound
    <2>3. conn'[agent.conn].missed = conn[agent.conn].missed /\ conn[agent.conn].missed \in Nat
      BY <1>1, <1>4, <2>1, ConnFields, SMT
    <2>4. ASSUME conn[agent.conn].ses = "open" PROVE agent.conn \in due' /\ agent.silent <= conn[agent.conn].missed
      <3>1. conn[agent.conn].pc = "served"
        BY <1>1, <2>1, <2>2, <2>4 DEF Core, ConnSound, Sessionless
      <3>2. agent.silent <= conn[agent.conn].missed + 0
        BY <1>1, <2>4 DEF SilenceCounted, Open
      <3> QED BY <1>1, <2>1, <2>3, <2>4, <3>1, <3>2, SMT DEF Open
    <2>5. agent.silent \in Nat /\ agent'.silent \in Nat
      BY <1>2, <1>7, SMT DEF Agents
    <2> QED BY <1>5, <1>7, <2>1, <2>2, <2>3, <2>4, <2>5, SMT DEF KeptFields
  <1> QED BY <1>6, <1>8, <1>9, <1>10, <1>11 DEF SessionInv

-----------------------------------------------------------------------------
(* Sessions that close.                                                     *)

(* The first half of a close (Replace, AuditEnds, a heartbeat that finds    *)
(* the connection closed): an open session is closing and has no ticker.    *)
LEMMA CloseKeeps ==
  ASSUME SessionInv, NEW p \in Conns, Open(p), conn' = Close(p, conn), due' = due \ {p},
         UNCHANGED <<store, retired, reg, agent, high>>, left' \in Scenarios, left'.window = left.window
  PROVE  SessionInv'
  <1> DEFINE r == [conn[p] EXCEPT !.ses = "closing"]
  <1>1. TypeOK /\ Core /\ AgentHolds /\ DueIsOpen /\ SilenceCounted /\ Watchdog \notin Conns
    BY FreeIsConn DEF SessionInv, TypeOK
  <1>2. /\ r \in Conn /\ r.ses = "closing"
        /\ r.pc = conn[p].pc /\ r.srv = conn[p].srv /\ r.inc = conn[p].inc /\ r.last = conn[p].last
        /\ r.prev = conn[p].prev /\ r.agent = conn[p].agent /\ r.missed = conn[p].missed
    BY <1>1, ConnFields DEF Conn, Connections
  <1> HIDE DEF r
  <1>3. conn' \in [Conns -> Conn] /\ conn'[p] = r /\ \A d \in Conns \ {p} : conn'[d] = conn[d]
    BY <1>1, <1>2 DEF TypeOK, Conn, Close, r
  <1>4. TypeOK'
    BY <1>1, <1>3 DEF TypeOK, Conn
  <1>5. \A d \in Conns :
           /\ conn'[d].pc = conn[d].pc /\ conn'[d].srv = conn[d].srv /\ conn'[d].inc = conn[d].inc
           /\ conn'[d].last = conn[d].last /\ conn'[d].prev = conn[d].prev
           /\ conn'[d].agent = conn[d].agent /\ conn'[d].missed = conn[d].missed
           /\ conn'[d].ses = conn[d].ses \/ (d = p /\ conn[d].ses = "open" /\ conn'[d].ses = "closing")
    BY <1>2, <1>3 DEF Open
  <1>6. \A d \in Conns : ConnSound(d)'
    <2> SUFFICES ASSUME NEW d \in Conns PROVE ConnSound(d)'
      OBVIOUS
    <2>1. ConnSound(d) /\ conn[d].prev \in Conns \cup {None}
      BY <1>1, ConnFields DEF Core
    <2> QED BY <1>5, <2>1, SMT DEF ConnSound, Loaded
  <1>7. NoOrphan'
    BY <1>1, <1>5, SMT DEF Core, NoOrphan, Open
  <1>8. ActiveIsThere'
    <2>1. \A v \in Servers : reg[v].active \in Conns \cup {None}
      BY <1>1 DEF TypeOK, Registries
    <2> QED BY <1>1, <1>5, <2>1, SMT DEF Core, ActiveIsThere
  <1>9. WatermarkCovers'
    BY <1>1 DEF Core, WatermarkCovers, Loaded
  <1>10. AgentHolds'
    BY <1>1, <1>5 DEF AgentHolds
  <1>11. DueIsOpen'
    <2>1. \A c \in due' \ {Watchdog} : c \in Conns \ {p} /\ c \in due \ {Watchdog}
      BY <1>1 DEF TypeOK
    <2> QED BY <1>1, <1>5, <2>1, SMT DEF DueIsOpen
  <1>12. SilenceCounted'
    <2> SUFFICES ASSUME agent.phase = "up" PROVE SilenceCounted'
      BY DEF SilenceCounted
    <2>1. agent.conn \in Conns
      BY <1>1 DEF AgentHolds
    <2>2. conn'[agent.conn].ses = "open" => (agent.conn \in due' <=> agent.conn \in due)
      BY <1>2, <1>3, <2>1
    <2> QED BY <1>1, <1>5, <2>1, <2>2 DEF SilenceCounted, Open
  <1> QED BY <1>4, <1>6, <1>7, <1>8, <1>9, <1>10, <1>11, <1>12 DEF SessionInv, Core

(* A replaced session and one whose audit sync failed.                      *)
LEMMA ReplaceKeeps == ASSUME SessionInv, NEW c \in Conns, Replace(c) \/ AuditEnds(c) PROVE SessionInv'
  <1>1. TypeOK /\ left \in Scenarios
    BY DEF SessionInv, TypeOK
  <1>2. CASE Replace(c)
    <2>1. conn[c].prev \in Conns
      BY <1>1, <1>2, ConnFields DEF Replace
    <2> QED BY <1>1, <1>2, <2>1, CloseKeeps DEF Replace
  <1>3. CASE AuditEnds(c)
    BY <1>1, <1>3, CloseKeeps, SpendKeeps DEF AuditEnds, BudgetNames
  <1> QED BY <1>2, <1>3

(* A heartbeat that succeeds, finds the connection closed, or times out.    *)
LEMMA HeartbeatKeeps == ASSUME SessionInv, NEW c \in Conns, Heartbeat(c) PROVE SessionInv'
  <1>1. /\ TypeOK /\ Core /\ AgentHolds /\ DueIsOpen /\ SilenceCounted /\ left \in Scenarios /\ agent \in Agents(left.window)
        /\ c \in due /\ c # Watchdog /\ due' = due \ {c} /\ UNCHANGED <<store, retired, reg, high>>
    BY DEF SessionInv, TypeOK, Heartbeat
  <1>2. conn[c].pc = "served" /\ conn[c].ses = "open"
    BY <1>1 DEF DueIsOpen
  <1>3. conn[c] \in Conn /\ left.window \in Nat /\ conn[c].missed \in 0 .. left.window /\ Watchdog \notin Conns
    BY <1>1, ConnFields, FreeIsConn
  <1>4. CASE Serving(c) /\ Set(c, [conn[c] EXCEPT !.age = 0, !.missed = 0]) /\ agent' = [agent EXCEPT !.silent = 0] /\ UNCHANGED left
    <2> DEFINE r == [conn[c] EXCEPT !.age = 0, !.missed = 0]
    <2>1. /\ r \in Conn /\ r.pc = conn[c].pc /\ r.srv = conn[c].srv /\ r.inc = conn[c].inc /\ r.ses = conn[c].ses
          /\ r.last = conn[c].last /\ r.prev = conn[c].prev /\ r.agent = conn[c].agent /\ r.missed = 0
      <3>1. 0 \in 0 .. left.window
        BY <1>3, SMT
      <3> QED BY <1>3, <3>1 DEF Conn, Connections
    <2> HIDE DEF r
    <2>2. Set(c, r)
      BY <1>4 DEF r
    <2>3. /\ conn' \in [Conns -> Conn] /\ Core' /\ (\A d \in Conns : KeptFields(d) \/ Forgotten(d)) /\ conn'[c] = r
      BY <1>1, <1>2, <2>1, <2>2, QuietSet, ZenonT(40)
    <2>4. /\ agent' \in Agents(left.window) /\ agent'.silent = 0 /\ agent'.conn = agent.conn /\ agent'.phase = agent.phase
          /\ agent.conn = c /\ agent.phase = "up"
      BY <1>1, <1>3, <1>4, SMT DEF Agents, Serving
    <2>5. TypeOK'
      BY <1>1, <1>4, <2>3, <2>4 DEF TypeOK, Conn
    <2>6. DueIsOpen'
      <3>1. due' \subseteq due /\ agent'.phase = "up"
        BY <1>1, <2>4
      <3> QED BY <1>1, <2>3, <3>1, DueKept
    <2> QED BY <1>1, <1>2, <2>1, <2>3, <2>4, <2>5, <2>6, SMT DEF SessionInv, AgentHolds, SilenceCounted
  <1>5. CASE AgentGone(c) /\ conn' = Close(c, conn) /\ UNCHANGED <<agent, left>>
    BY <1>1, <1>2, <1>5, CloseKeeps DEF Open
  <1>6. CASE /\ IF Serving(c) THEN Spend("miss") ELSE UNCHANGED left
             /\ Set(c, [conn[c] EXCEPT !.missed = Min({@ + 1, left.window})])
             /\ UNCHANGED agent
    <2> DEFINE n == Min({conn[c].missed + 1, left.window})
               r == [conn[c] EXCEPT !.missed = n]
    <2>1. n \in 0 .. left.window /\ (n = conn[c].missed + 1 \/ n = left.window)
      BY <1>3, MinMax, SMT
    <2> HIDE DEF n
    <2>2. /\ r \in Conn /\ r.pc = conn[c].pc /\ r.srv = conn[c].srv /\ r.inc = conn[c].inc /\ r.ses = conn[c].ses
          /\ r.last = conn[c].last /\ r.prev = conn[c].prev /\ r.agent = conn[c].agent /\ r.missed = n
      BY <1>3, <2>1 DEF Conn, Connections
    <2> HIDE DEF r
    <2>3. Set(c, r)
      BY <1>6 DEF r, n
    <2>4. /\ conn' \in [Conns -> Conn] /\ Core' /\ (\A d \in Conns : KeptFields(d) \/ Forgotten(d)) /\ conn'[c] = r
          /\ \A d \in Conns \ {c} : conn[d].agent = "open" \/ conn[d].ses = "open" => conn'[d] = conn[d]
      BY <1>1, <1>2, <2>2, <2>3, QuietSet, ZenonT(40)
    <2>5. left' \in Scenarios /\ left'.window = left.window
      BY <1>1, <1>6, SpendKeeps DEF BudgetNames
    <2>6. TypeOK'
      BY <1>1, <1>6, <2>4, <2>5 DEF TypeOK, Conn
    <2>7. DueIsOpen'
      BY <1>1, <1>6, <2>4, DueKept DEF DueIsOpen
    <2>8. AgentHolds'
      BY <1>1, <1>6, <2>2, <2>4 DEF AgentHolds
    <2>9. SilenceCounted'
      <3> SUFFICES ASSUME agent.phase = "up" PROVE SilenceCounted'
        BY <1>6 DEF SilenceCounted
      <3>1. agent.conn \in Conns /\ conn[agent.conn].agent = "open" /\ agent.silent \in 0 .. left.window
        BY <1>1 DEF AgentHolds, Agents
      <3>2. CASE agent.conn = c
        <4>1. agent.silent <= conn[c].missed + 1
          BY <1>1, <1>2, <3>2 DEF SilenceCounted, Open
        <4>2. agent.silent <= n
          BY <1>3, <2>1, <3>1, <4>1, SMT
        <4> QED BY <1>1, <1>2, <1>3, <1>6, <2>1, <2>2, <2>4, <3>1, <3>2, <4>2, SMT DEF SilenceCounted, Open
      <3>3. CASE agent.conn # c
        <4>1. conn'[agent.conn] = conn[agent.conn] /\ (agent.conn \in due' <=> agent.conn \in due)
          BY <1>1, <2>4, <3>1, <3>3
        <4> QED BY <1>1, <1>6, <4>1 DEF SilenceCounted, Open
      <3> QED BY <3>2, <3>3
    <2> QED BY <2>4, <2>6, <2>7, <2>8, <2>9 DEF SessionInv
  <1> QED BY <1>4, <1>5, <1>6 DEF Heartbeat

-----------------------------------------------------------------------------
(* Accept, up to the commit.                                                *)

(* What a step of Accept may do to the rest: the watermark does not fall,   *)
(* the active sessions stay, and so does every mutex another one holds.     *)
AcceptFrame(c) ==
    /\ UNCHANGED <<retired, agent, due, high>>
    /\ left' \in Scenarios /\ left'.window = left.window
    /\ store' \in -1 .. MaxInc /\ Loaded <= Loaded'
    /\ reg' \in [Servers -> Registries]
    /\ \A v \in Servers : reg'[v].active = reg[v].active
    /\ \A d \in Conns \ {c} : conn[d].pc \in Locked => reg'[conn[d].srv].mu = d

(* ... and to the connection itself, before it has a session.               *)
AcceptMove(c, r) ==
    /\ conn[c].pc \in {"queued", "shaken", "swap", "reload"}
    /\ r.pc \in {"shaken", "swap", "reload", "own", "refused"}
    /\ r.srv = conn[c].srv /\ r.inc = conn[c].inc /\ r.ses = conn[c].ses /\ r.prev = conn[c].prev
    /\ r.agent = conn[c].agent /\ r.missed = conn[c].missed
    /\ r.pc \in Locked => reg'[r.srv].mu = c /\ r.inc >= high[r.srv]
    /\ r.pc = "own" => r.inc <= Loaded'
    /\ r.pc = "swap" => r.inc > r.last

(* A step of Accept before the connection has a session: it goes on with    *)
(* the mutex and an incarnation that no accepted one exceeds, or is         *)
(* refused.                                                                 *)
LEMMA AcceptStep ==
  ASSUME SessionInv, NEW c \in Conns, NEW r \in Conn, Set(c, r), AcceptMove(c, r), AcceptFrame(c)
  PROVE  SessionInv'
  <1>1. TypeOK /\ Core /\ AgentHolds /\ DueIsOpen /\ SilenceCounted
    BY DEF SessionInv
  <1>2. /\ None \notin Conns /\ Watchdog \notin Conns
        /\ Free.pc = "none" /\ Free.agent = "closed" /\ Free.ses = "none" /\ Free.prev = None
    BY <1>1, FreeIsConn DEF TypeOK
  <1>3. /\ conn[c].ses = "none" /\ conn[c].prev = None /\ c \notin due
        /\ conn[c].pc \in {"queued", "shaken", "swap", "reload"}
    <2>1. conn[c].pc \in {"queued", "shaken", "swap", "reload"}
      BY DEF AcceptMove
    <2>2. ConnSound(c)
      BY <1>1 DEF Core
    <2> QED BY <1>1, <1>2, <2>1, <2>2 DEF ConnSound, Sessionless, DueIsOpen
  <1>4. conn' \in [Conns -> Conn] /\ Written(c, r) /\ OthersKept(c, r)
    BY <1>1, SetOne DEF TypeOK, Conn
  <1>5. /\ conn'[c] = r \/ (conn'[c] = Free /\ r.agent = "closed")
        /\ r.ses = "none" /\ r.prev = None /\ r.agent = conn[c].agent /\ r.missed = conn[c].missed
        /\ r.pc \in {"shaken", "swap", "reload", "own", "refused"}
    BY <1>3, <1>4 DEF Written, Unneeded, AcceptMove
  <1>6. OthersKept(c, r) /\ UNCHANGED <<agent, due>>
    BY <1>4 DEF AcceptFrame
  <1>7. TypeOK'
    BY <1>1, <1>4 DEF TypeOK, Conn, AcceptFrame
  <1>8. Loaded \in Int /\ Loaded' \in Int /\ Loaded <= Loaded' /\ \A v \in Servers : high[v] \in Int /\ high'[v] = high[v]
    <2>1. store \in Int /\ store' \in Int
      BY <1>1, SMT DEF TypeOK, AcceptFrame
    <2> QED BY <1>1, <2>1, SMT DEF Loaded, Restored, TypeOK, AcceptFrame
  <1>9. \A d \in Conns : ConnSound(d)'
    <2> SUFFICES ASSUME NEW d \in Conns PROVE ConnSound(d)'
      OBVIOUS
    <2>1. CASE conn'[d] = Free
      BY <1>2, <2>1 DEF ConnSound, Locked
    <2>2. CASE d = c /\ conn'[c] = r
      <3>1. /\ r.pc \in Locked => reg'[r.srv].mu = c /\ r.inc >= high'[r.srv]
            /\ r.pc = "own" => r.inc <= Loaded'
            /\ r.pc = "swap" => r.inc > r.last
        BY DEF AcceptMove, AcceptFrame
      <3> QED BY <1>5, <2>2, <3>1 DEF ConnSound
    <2>3. CASE d # c /\ conn'[d] = conn[d]
      <3>1. ConnSound(d) /\ conn[d].prev \in Conns \cup {None} /\ conn[d].inc \in Int /\ conn[d].srv \in Servers
        BY <1>1, ConnFields, SMT DEF Core
      <3>2. conn[d].prev # None => conn'[conn[d].prev] = conn[conn[d].prev]
        <4>1. conn[d].prev # None => conn[d].prev # c
          BY <1>3, <3>1 DEF ConnSound
        <4> QED BY <1>6, <2>3, <3>1, <4>1 DEF OthersKept
      <3>3. conn[d].pc \in Locked => reg'[conn[d].srv].mu = d /\ high'[conn[d].srv] = high[conn[d].srv]
        BY <2>3 DEF AcceptFrame
      <3> QED BY <1>8, <2>3, <3>1, <3>2, <3>3, SMTT(20) DEF ConnSound
    <2> QED BY <1>5, <1>6, <2>1, <2>2, <2>3 DEF OthersKept
  <1>10. NoOrphan'
    <2> SUFFICES ASSUME NEW e \in Conns, conn'[e].ses = "open"
                 PROVE  \/ reg'[conn'[e].srv].active = e
                        \/ \E d \in Conns : conn'[d].prev = e /\ conn'[d].pc = "replace"
      BY DEF NoOrphan, Open
    <2>1. e # c /\ conn'[e] = conn[e]
      BY <1>2, <1>5, <1>6 DEF OthersKept
    <2>2. conn[e].srv \in Servers
      BY <1>1, ConnFields
    <2>3. \/ reg[conn[e].srv].active = e
          \/ \E d \in Conns : conn[d].prev = e /\ conn[d].pc = "replace"
      BY <1>1, <2>1 DEF Core, NoOrphan, Open
    <2>4. \A d \in Conns : conn[d].pc = "replace" => conn'[d] = conn[d]
      BY <1>3, <1>6 DEF OthersKept, Unneeded
    <2>5. reg'[conn[e].srv].active = reg[conn[e].srv].active
      BY <2>2 DEF AcceptFrame
    <2> QED BY <2>1, <2>3, <2>4, <2>5
  <1>11. ActiveIsThere'
    <2> SUFFICES ASSUME NEW v \in Servers, reg'[v].active # None
                 PROVE  conn'[reg'[v].active].srv = v /\ conn'[reg'[v].active].ses \in {"open", "closing"}
      BY DEF ActiveIsThere
    <2>1. reg'[v].active = reg[v].active /\ reg[v].active \in Conns
      BY <1>1 DEF AcceptFrame, TypeOK, Registries
    <2>2. conn[reg[v].active].srv = v /\ conn[reg[v].active].ses \in {"open", "closing"}
      BY <1>1, <2>1 DEF Core, ActiveIsThere
    <2> QED BY <1>3, <1>6, <2>1, <2>2, ZenonT(40) DEF OthersKept, Unneeded
  <1>12. WatermarkCovers'
    BY <1>1, <1>8, SMT DEF Core, WatermarkCovers
  <1>13. AgentHolds'
    <2>1. agent.conn \in Conns /\ conn[agent.conn].agent = "open" => conn'[agent.conn].agent = "open"
      BY <1>5, <1>6, ZenonT(40) DEF OthersKept, Unneeded
    <2>2. agent.phase = "up" => conn'[agent.conn].pc # "queued"
      BY <1>1, <1>2, <1>5, <1>6 DEF AgentHolds, OthersKept
    <2> QED BY <1>1, <1>6, <2>1, <2>2 DEF AgentHolds
  <1>14. DueIsOpen'
    <2>1. \A d \in due \ {Watchdog} : d \in Conns \ {c}
      BY <1>1, <1>3 DEF TypeOK
    <2> QED BY <1>1, <1>6, <2>1, SMT DEF DueIsOpen, OthersKept, Unneeded
  <1>15. SilenceCounted'
    <2> SUFFICES ASSUME agent.phase = "up" PROVE SilenceCounted'
      BY <1>6 DEF SilenceCounted
    <2>1. agent.conn \in Conns /\ conn[agent.conn].agent = "open" /\ conn[agent.conn].pc # "queued"
      BY <1>1 DEF AgentHolds
    <2>2. CASE agent.conn = c
      <3>1. agent.silent = 0 /\ conn'[c] = r
        BY <1>1, <1>3, <1>5, <2>1, <2>2 DEF SilenceCounted
      <3> QED BY <1>5, <1>6, <2>2, <3>1 DEF SilenceCounted, Open
    <2>3. CASE agent.conn # c
      <3>1. conn'[agent.conn] = conn[agent.conn]
        BY <1>6, <2>1, <2>3 DEF OthersKept, Unneeded
      <3> QED BY <1>1, <1>6, <3>1 DEF SilenceCounted, Open
    <2> QED BY <2>2, <2>3
  <1> QED BY <1>7, <1>9, <1>10, <1>11, <1>12, <1>13, <1>14, <1>15 DEF SessionInv, Core

(* A connection that is refused, wherever its registration stands.          *)
LEMMA RefuseKeeps ==
  ASSUME SessionInv, NEW c \in Conns, Refuse(c), AcceptFrame(c),
         conn[c].pc \in {"queued", "shaken", "swap", "reload"}
  PROVE  SessionInv'
  <1> DEFINE r == [conn[c] EXCEPT !.pc = "refused", !.last = 0]
  <1>1. conn[c] \in Conn /\ 0 \in 0 .. MaxInc
    BY ConnFields, SMT DEF SessionInv
  <1>2. /\ r \in Conn /\ r.pc = "refused" /\ r.srv = conn[c].srv /\ r.inc = conn[c].inc /\ r.ses = conn[c].ses
        /\ r.prev = conn[c].prev /\ r.agent = conn[c].agent /\ r.missed = conn[c].missed
    BY <1>1 DEF Conn, Connections, Stages
  <1>3. Set(c, r)
    BY DEF Refuse
  <1> HIDE DEF r
  <1>4. AcceptMove(c, r)
    BY <1>2 DEF AcceptMove, Locked
  <1> QED BY <1>2, <1>3, <1>4, AcceptStep

(* A registration that goes on with the watermark it loaded.                *)
LEMMA AdvanceKeeps ==
  ASSUME SessionInv, NEW c \in Conns, NEW stage \in {"shaken", "swap", "reload", "own"}, NEW last \in 0 .. MaxInc,
         Set(c, [conn[c] EXCEPT !.last = last, !.pc = stage]), AcceptFrame(c),
         conn[c].pc \in {"queued", "shaken", "swap", "reload"},
         stage \in Locked => reg'[conn[c].srv].mu = c /\ conn[c].inc >= high[conn[c].srv],
         stage = "own" => conn[c].inc <= Loaded',
         stage = "swap" => conn[c].inc > last
  PROVE  SessionInv'
  <1> DEFINE r == [conn[c] EXCEPT !.last = last, !.pc = stage]
  <1>1. conn[c] \in Conn
    BY ConnFields DEF SessionInv
  <1>2. /\ r \in Conn /\ r.pc = stage /\ r.last = last /\ r.srv = conn[c].srv /\ r.inc = conn[c].inc /\ r.ses = conn[c].ses
        /\ r.prev = conn[c].prev /\ r.agent = conn[c].agent /\ r.missed = conn[c].missed
    BY <1>1 DEF Conn, Connections, Stages
  <1>3. Set(c, r)
    OBVIOUS
  <1> HIDE DEF r
  <1>4. AcceptMove(c, r)
    BY <1>2 DEF AcceptMove
  <1> QED BY <1>2, <1>3, <1>4, AcceptStep

(* While a connection holds r.mu, or nobody does, no other connection of    *)
(* that Server is registering.                                              *)
LEMMA AloneUnderLock ==
  ASSUME SessionInv, NEW c \in Conns, reg[conn[c].srv].mu \in {None, c}, NEW d \in Conns \ {c}, conn[d].pc \in Locked
  PROVE  reg[conn[d].srv].mu = d /\ conn[d].srv # conn[c].srv
  BY FreeIsConn, SMT DEF SessionInv, TypeOK, Core, ConnSound

(* What the step leaves of the other Servers' registries.                   *)
LEMMA FrameFromReg ==
  ASSUME SessionInv, NEW c \in Conns, reg[conn[c].srv].mu \in {None, c},
         NEW e \in Registries, e.active = reg[conn[c].srv].active,
         \/ reg' = [reg EXCEPT ![conn[c].srv] = e]
         \/ reg' = reg /\ e = reg[conn[c].srv]
  PROVE  /\ reg' \in [Servers -> Registries]
         /\ reg'[conn[c].srv] = e
         /\ \A v \in Servers : reg'[v].active = reg[v].active
         /\ \A d \in Conns \ {c} : conn[d].pc \in Locked => reg'[conn[d].srv].mu = d
  <1>1. reg \in [Servers -> Registries] /\ conn[c].srv \in Servers
    BY ConnFields DEF SessionInv, TypeOK
  <1>2. /\ reg' \in [Servers -> Registries] /\ reg'[conn[c].srv] = e
        /\ \A v \in Servers \ {conn[c].srv} : reg'[v] = reg[v]
    BY <1>1
  <1>3. ASSUME NEW d \in Conns \ {c}, conn[d].pc \in Locked PROVE reg'[conn[d].srv].mu = d
    <2>1. reg[conn[d].srv].mu = d /\ conn[d].srv # conn[c].srv
      BY <1>3, AloneUnderLock
    <2>2. conn[d].srv \in Servers
      BY ConnFields DEF SessionInv
    <2> QED BY <1>2, <2>1, <2>2
  <1> QED BY <1>1, <1>2, <1>3

(* Three updates of a registry record.                                      *)
LEMMA RegistryUpdates ==
  ASSUME reg \in [Servers -> Registries], NEW v \in Servers, NEW m \in Conns \cup {None}, NEW last \in 0 .. MaxInc
  PROVE  /\ [reg EXCEPT ![v].mu = m] = [reg EXCEPT ![v] = [reg[v] EXCEPT !.mu = m]]
         /\ [reg[v] EXCEPT !.mu = m] \in Registries /\ [reg[v] EXCEPT !.mu = m].active = reg[v].active
         /\ [reg[v] EXCEPT !.mu = m].mu = m
         /\ [reg EXCEPT ![v].last = last, ![v].loaded = TRUE] = [reg EXCEPT ![v] = [reg[v] EXCEPT !.last = last, !.loaded = TRUE]]
         /\ [reg[v] EXCEPT !.last = last, !.loaded = TRUE] \in Registries
         /\ [reg[v] EXCEPT !.last = last, !.loaded = TRUE].active = reg[v].active
         /\ [reg EXCEPT ![v].last = last, ![v].loaded = TRUE, ![v].mu = None]
               = [reg EXCEPT ![v] = [reg[v] EXCEPT !.last = last, !.loaded = TRUE, !.mu = None]]
         /\ [reg[v] EXCEPT !.last = last, !.loaded = TRUE, !.mu = None] \in Registries
         /\ [reg[v] EXCEPT !.last = last, !.loaded = TRUE, !.mu = None].active = reg[v].active
  <1>1. reg[v] \in Registries
    OBVIOUS
  <1>2. [reg[v] EXCEPT !.mu = m] \in Registries /\ [reg[v] EXCEPT !.mu = m].active = reg[v].active /\ [reg[v] EXCEPT !.mu = m].mu = m
    BY <1>1 DEF Registries
  <1>3. [reg[v] EXCEPT !.last = last, !.loaded = TRUE] \in Registries
        /\ [reg[v] EXCEPT !.last = last, !.loaded = TRUE].active = reg[v].active
    BY <1>1 DEF Registries
  <1>4. [reg[v] EXCEPT !.last = last, !.loaded = TRUE, !.mu = None] \in Registries
        /\ [reg[v] EXCEPT !.last = last, !.loaded = TRUE, !.mu = None].active = reg[v].active
    BY <1>1 DEF Registries
  <1>5. [reg EXCEPT ![v].mu = m] = [reg EXCEPT ![v] = [reg[v] EXCEPT !.mu = m]]
    OBVIOUS
  <1>6. [reg EXCEPT ![v].last = last, ![v].loaded = TRUE] = [reg EXCEPT ![v] = [reg[v] EXCEPT !.last = last, !.loaded = TRUE]]
    OBVIOUS
  <1>7. [reg EXCEPT ![v].last = last, ![v].loaded = TRUE, ![v].mu = None]
               = [reg EXCEPT ![v] = [reg[v] EXCEPT !.last = last, !.loaded = TRUE, !.mu = None]]
    OBVIOUS
  <1> QED BY <1>2, <1>3, <1>4, <1>5, <1>6, <1>7

(* The server's half of the handshake.                                      *)
LEMMA HandshakeKeeps == ASSUME SessionInv, NEW c \in Conns, Handshake(c) PROVE SessionInv'
  <1> DEFINE r == [conn[c] EXCEPT !.pc = "shaken"]
  <1>1. /\ TypeOK /\ left \in Scenarios /\ conn[c] \in Conn /\ store \in -1 .. MaxInc /\ reg \in [Servers -> Registries]
        /\ MaxInc \in Nat /\ conn[c].pc = "queued" /\ UNCHANGED <<store, retired, reg, agent, due, high, left>>
    BY ConnFields DEF SessionInv, TypeOK, Handshake
  <1>2. Loaded' = Loaded /\ Loaded \in Int
    BY <1>1, SMT DEF Loaded, Restored
  <1>3. \A d \in Conns \ {c} : conn[d].pc \in Locked => reg'[conn[d].srv].mu = d
    BY <1>1 DEF SessionInv, Core, ConnSound
  <1>4. AcceptFrame(c)
    BY <1>1, <1>2, <1>3, SMT DEF AcceptFrame
  <1>5. /\ r \in Conn /\ r.pc = "shaken" /\ r.srv = conn[c].srv /\ r.inc = conn[c].inc /\ r.ses = conn[c].ses
        /\ r.prev = conn[c].prev /\ r.agent = conn[c].agent /\ r.missed = conn[c].missed
    BY <1>1 DEF Conn, Connections, Stages
  <1> HIDE DEF r
  <1>6. CASE Set(c, r)
    <2>1. AcceptMove(c, r)
      BY <1>1, <1>5 DEF AcceptMove, Locked
    <2> QED BY <1>4, <1>5, <1>6, <2>1, AcceptStep
  <1>7. CASE Refuse(c)
    BY <1>1, <1>4, <1>7, RefuseKeeps
  <1> QED BY <1>6, <1>7 DEF Handshake, r

(* The watermark as it is loaded.                                           *)
LEMMA LoadedIs ==
  ASSUME SessionInv
  PROVE  /\ MaxInc \in Nat /\ store \in -1 .. MaxInc /\ Loaded \in 0 .. MaxInc /\ store <= Loaded
         /\ \A s \in 0 .. MaxInc : store' = s => Loaded' = s
         /\ store' = store => Loaded' = Loaded
         /\ \A v \in Servers : high[v] \in Int /\ high[v] <= Loaded
  <1>1. MaxInc \in Nat /\ store \in -1 .. MaxInc /\ \A v \in Servers : high[v] \in Int
    BY SessionAssumption, SMT DEF SessionInv, TypeOK
  <1>2. \A v \in Servers : high[v] <= Loaded
    BY DEF SessionInv, Core, WatermarkCovers
  <1>3. Loaded \in 0 .. MaxInc /\ store <= Loaded
    BY <1>1, SMT DEF Loaded, Restored
  <1>4. \A s \in 0 .. MaxInc : store' = s => Loaded' = s
    BY <1>1, SMT DEF Loaded, Restored
  <1>5. store' = store => Loaded' = Loaded
    BY DEF Loaded
  <1> QED BY <1>1, <1>2, <1>3, <1>4, <1>5

(* The load under r.mu: what goes on holds the mutex.                       *)
LEMMA RegisterLoadKeeps == ASSUME SessionInv, NEW c \in Conns, RegisterLoad(c) PROVE SessionInv'
  <1> DEFINE v == conn[c].srv
  <1>1. /\ TypeOK /\ left \in Scenarios /\ reg \in [Servers -> Registries] /\ v \in Servers /\ conn[c].inc \in Nat
        /\ conn[c].pc = "shaken" /\ reg[v].mu = None /\ UNCHANGED <<retired, agent, due, high>>
        /\ reg[v] \in Registries
    BY ConnFields, SMT DEF SessionInv, TypeOK, RegisterLoad
  <1>2. /\ MaxInc \in Nat /\ store \in -1 .. MaxInc /\ Loaded \in 0 .. MaxInc /\ store <= Loaded
        /\ store' = Loaded => Loaded' = Loaded
        /\ store' = store => Loaded' = Loaded
        /\ high[v] \in Int /\ high[v] <= Loaded
    BY <1>1, LoadedIs
  <1>3. CASE Spend("store") /\ Refuse(c) /\ UNCHANGED <<store, reg>>
    <2>1. AcceptFrame(c)
      <3>1. left' \in Scenarios /\ left'.window = left.window
        BY <1>1, <1>3, SpendKeeps DEF BudgetNames
      <3>2. \A d \in Conns \ {c} : conn[d].pc \in Locked => reg'[conn[d].srv].mu = d
        BY <1>1, <1>3, FrameFromReg
      <3> QED BY <1>1, <1>2, <1>3, <3>1, <3>2, SMT DEF AcceptFrame
    <2> QED BY <1>1, <1>3, <2>1, RefuseKeeps
  <1>4. CASE UNCHANGED left /\ store' = Loaded /\ Refuse(c) /\ UNCHANGED reg
    <2>1. AcceptFrame(c)
      <3>2. \A d \in Conns \ {c} : conn[d].pc \in Locked => reg'[conn[d].srv].mu = d
        BY <1>1, <1>4, FrameFromReg
      <3> QED BY <1>1, <1>2, <1>4, <3>2, SMT DEF AcceptFrame
    <2> QED BY <1>1, <1>4, <2>1, RefuseKeeps
  <1>5. CASE UNCHANGED left /\ store' = Loaded /\ Refuse(c)
             /\ reg' = [reg EXCEPT ![v].last = Loaded, ![v].loaded = TRUE]
    <2> DEFINE e == [reg[v] EXCEPT !.last = Loaded, !.loaded = TRUE]
    <2>1. e \in Registries /\ e.active = reg[v].active /\ reg' = [reg EXCEPT ![v] = e]
      BY <1>1, <1>2, <1>5, RegistryUpdates, ZenonT(40)
    <2> HIDE DEF e
    <2>2. AcceptFrame(c)
      <3>1. /\ reg' \in [Servers -> Registries] /\ \A w \in Servers : reg'[w].active = reg[w].active
            /\ \A d \in Conns \ {c} : conn[d].pc \in Locked => reg'[conn[d].srv].mu = d
        BY <1>1, <2>1, FrameFromReg
      <3>2. left' = left /\ store' = Loaded
        BY <1>5
      <3> QED BY <1>1, <1>2, <3>1, <3>2, SMT DEF AcceptFrame
    <2> QED BY <1>1, <1>5, <2>2, RefuseKeeps
  <1>6. CASE /\ UNCHANGED left /\ store' = Loaded /\ ~Stale(c, Loaded) /\ Lock(v, c)
             /\ Set(c, [conn[c] EXCEPT !.last = Loaded, !.pc = IF conn[c].inc > Loaded THEN "swap" ELSE "own"])
    <2> DEFINE e == [reg[v] EXCEPT !.mu = c]
               stage == IF conn[c].inc > Loaded THEN "swap" ELSE "own"
    <2>1. e \in Registries /\ e.active = reg[v].active /\ e.mu = c /\ reg' = [reg EXCEPT ![v] = e]
      BY <1>1, <1>2, <1>6, RegistryUpdates DEF Lock
    <2> HIDE DEF e
    <2>2. /\ reg' \in [Servers -> Registries] /\ (\A w \in Servers : reg'[w].active = reg[w].active) /\ reg'[v] = e
          /\ \A d \in Conns \ {c} : conn[d].pc \in Locked => reg'[conn[d].srv].mu = d
      BY <1>1, <2>1, FrameFromReg
    <2>3. AcceptFrame(c)
      BY <1>1, <1>2, <1>6, <2>2, SMT DEF AcceptFrame
    <2>4. /\ stage \in {"swap", "own"} /\ conn[c].inc >= Loaded
          /\ (stage = "own" => conn[c].inc <= Loaded) /\ (stage = "swap" => conn[c].inc > Loaded)
      BY <1>1, <1>2, <1>6, SMT DEF Stale
    <2>5. Set(c, [conn[c] EXCEPT !.last = Loaded, !.pc = stage])
      BY <1>6
    <2> HIDE DEF stage
    <2>6. reg'[v].mu = c /\ conn[c].inc >= high[v] /\ (stage = "own" => conn[c].inc <= Loaded')
      BY <1>1, <1>2, <1>6, <2>1, <2>2, <2>4, SMT
    <2> QED BY <1>1, <1>2, <2>3, <2>4, <2>5, <2>6, AdvanceKeeps
  <1> QED BY <1>3, <1>4, <1>5, <1>6 DEF RegisterLoad

(* The compare-and-swap of the watermark, under r.mu.                       *)
LEMMA SwapKeeps == ASSUME SessionInv, NEW c \in Conns, Swap(c) PROVE SessionInv'
  <1> DEFINE v == conn[c].srv
  <1>1. /\ TypeOK /\ left \in Scenarios /\ reg \in [Servers -> Registries] /\ v \in Servers /\ conn[c].inc \in 0 .. MaxInc
        /\ conn[c].last \in 0 .. MaxInc /\ conn[c].pc = "swap" /\ UNCHANGED <<retired, agent, due, high>>
        /\ reg[v] \in Registries
    BY ConnFields DEF SessionInv, TypeOK, Swap
  <1>2. /\ MaxInc \in Nat /\ store \in -1 .. MaxInc /\ Loaded \in 0 .. MaxInc /\ store <= Loaded
        /\ store' = conn[c].inc => Loaded' = conn[c].inc
        /\ store' = store => Loaded' = Loaded
        /\ (store = conn[c].last => Loaded = store)
    BY <1>1, LoadedIs, SMT DEF Loaded, Restored
  <1>3. reg[v].mu = c /\ conn[c].inc >= high[v] /\ conn[c].inc > conn[c].last
    BY <1>1 DEF SessionInv, Core, ConnSound, Locked
  <1>4. CASE Spend("store") /\ Refuse(c) /\ Lock(v, None) /\ UNCHANGED store
    <2> DEFINE e == [reg[v] EXCEPT !.mu = None]
    <2>1. e \in Registries /\ e.active = reg[v].active /\ reg' = [reg EXCEPT ![v] = e]
      BY <1>1, <1>4, RegistryUpdates DEF Lock
    <2> HIDE DEF e
    <2>2. /\ reg' \in [Servers -> Registries] /\ (\A w \in Servers : reg'[w].active = reg[w].active)
          /\ \A d \in Conns \ {c} : conn[d].pc \in Locked => reg'[conn[d].srv].mu = d
      BY <1>1, <1>3, <2>1, FrameFromReg
    <2>3. left' \in Scenarios /\ left'.window = left.window /\ store' = store
      BY <1>1, <1>4, SpendKeeps DEF BudgetNames
    <2>4. AcceptFrame(c)
      BY <1>1, <1>2, <2>2, <2>3, SMT DEF AcceptFrame
    <2> QED BY <1>1, <1>4, <2>4, RefuseKeeps
  <1>5. ASSUME UNCHANGED <<left, reg>>, store' \in 0 .. MaxInc \/ store' = store, Loaded <= Loaded' PROVE AcceptFrame(c)
    <2>1. /\ reg' \in [Servers -> Registries] /\ (\A w \in Servers : reg'[w].active = reg[w].active)
          /\ \A d \in Conns \ {c} : conn[d].pc \in Locked => reg'[conn[d].srv].mu = d
      BY <1>1, <1>3, <1>5, FrameFromReg
    <2> QED BY <1>1, <1>2, <1>5, <2>1, SMT DEF AcceptFrame
  <1>6. CASE /\ UNCHANGED <<left, reg>> /\ store = conn[c].last /\ store' = conn[c].inc
             /\ Set(c, [conn[c] EXCEPT !.last = conn[c].inc, !.pc = "own"])
    <2>1. Loaded' = conn[c].inc /\ Loaded <= Loaded'
      BY <1>1, <1>2, <1>3, <1>6, SMT
    <2>2. AcceptFrame(c)
      BY <1>1, <1>5, <1>6, <2>1
    <2>3. Set(c, [conn[c] EXCEPT !.last = conn[c].inc, !.pc = "own"]) /\ reg'[v].mu = c
      BY <1>3, <1>6
    <2>4. conn[c].inc <= Loaded'
      BY <1>1, <2>1, SMT
    <2> QED BY <1>1, <1>3, <2>2, <2>3, <2>4, AdvanceKeeps
  <1>7. CASE UNCHANGED <<left, reg, store>> /\ Set(c, [conn[c] EXCEPT !.pc = "reload"])
    <2> DEFINE r == [conn[c] EXCEPT !.pc = "reload"]
    <2>1. AcceptFrame(c)
      BY <1>2, <1>5, <1>7, SMT
    <2>2. conn[c] \in Conn
      BY <1>1, ConnFields
    <2>3. /\ r \in Conn /\ r.pc = "reload" /\ r.srv = conn[c].srv /\ r.inc = conn[c].inc /\ r.ses = conn[c].ses
          /\ r.prev = conn[c].prev /\ r.agent = conn[c].agent /\ r.missed = conn[c].missed
      BY <2>2 DEF Conn, Connections, Stages
    <2> HIDE DEF r
    <2>4. Set(c, r) /\ reg'[v].mu = c
      BY <1>3, <1>7 DEF r
    <2>5. AcceptMove(c, r)
      BY <1>1, <1>3, <2>3, <2>4 DEF AcceptMove
    <2> QED BY <2>1, <2>3, <2>4, <2>5, AcceptStep
  <1> QED BY <1>4, <1>6, <1>7 DEF Swap

(* The load after a lost swap.                                              *)
LEMMA ReloadKeeps == ASSUME SessionInv, NEW c \in Conns, Reload(c) PROVE SessionInv'
  <1> DEFINE v == conn[c].srv
  <1>1. /\ TypeOK /\ left \in Scenarios /\ reg \in [Servers -> Registries] /\ v \in Servers /\ conn[c].inc \in 0 .. MaxInc
        /\ conn[c].last \in 0 .. MaxInc /\ conn[c].pc = "reload" /\ UNCHANGED <<retired, agent, due, high>>
        /\ reg[v] \in Registries
    BY ConnFields DEF SessionInv, TypeOK, Reload
  <1>2. /\ MaxInc \in Nat /\ store \in -1 .. MaxInc /\ Loaded \in 0 .. MaxInc
        /\ store' = Loaded => Loaded' = Loaded
        /\ store' = store => Loaded' = Loaded
    BY LoadedIs
  <1>3. reg[v].mu = c /\ conn[c].inc >= high[v]
    BY <1>1 DEF SessionInv, Core, ConnSound, Locked
  <1>4. left' \in Scenarios /\ left'.window = left.window /\ (store' = Loaded \/ store' = store)
    BY <1>1, SpendKeeps DEF Reload, BudgetNames
  <1>5. CASE Refuse(c) /\ Lock(v, None)
    <2> DEFINE e == [reg[v] EXCEPT !.mu = None]
    <2>1. e \in Registries /\ e.active = reg[v].active /\ reg' = [reg EXCEPT ![v] = e]
      BY <1>1, <1>5, RegistryUpdates DEF Lock
    <2> HIDE DEF e
    <2>2. /\ reg' \in [Servers -> Registries] /\ (\A w \in Servers : reg'[w].active = reg[w].active)
          /\ \A d \in Conns \ {c} : conn[d].pc \in Locked => reg'[conn[d].srv].mu = d
      BY <1>1, <1>3, <2>1, FrameFromReg
    <2>3. AcceptFrame(c)
      BY <1>1, <1>2, <1>4, <2>2, SMT DEF AcceptFrame
    <2> QED BY <1>1, <1>5, <2>3, RefuseKeeps
  <1>6. CASE Refuse(c) /\ reg' = [reg EXCEPT ![v].last = Loaded, ![v].loaded = TRUE, ![v].mu = None]
    <2> DEFINE e == [reg[v] EXCEPT !.last = Loaded, !.loaded = TRUE, !.mu = None]
    <2>1. e \in Registries /\ e.active = reg[v].active /\ reg' = [reg EXCEPT ![v] = e]
      BY <1>1, <1>2, <1>6, RegistryUpdates
    <2> HIDE DEF e
    <2>2. /\ reg' \in [Servers -> Registries] /\ (\A w \in Servers : reg'[w].active = reg[w].active)
          /\ \A d \in Conns \ {c} : conn[d].pc \in Locked => reg'[conn[d].srv].mu = d
      BY <1>1, <1>3, <2>1, FrameFromReg
    <2>3. AcceptFrame(c)
      BY <1>1, <1>2, <1>4, <2>2, SMT DEF AcceptFrame
    <2> QED BY <1>1, <1>6, <2>3, RefuseKeeps
  <1>7. CASE /\ ~Stale(c, Loaded) /\ store' = Loaded /\ UNCHANGED reg
             /\ Set(c, [conn[c] EXCEPT !.last = Loaded, !.pc = IF conn[c].inc > Loaded THEN "swap" ELSE "own"])
    <2> DEFINE stage == IF conn[c].inc > Loaded THEN "swap" ELSE "own"
    <2>1. AcceptFrame(c)
      <3>1. /\ reg' \in [Servers -> Registries] /\ (\A w \in Servers : reg'[w].active = reg[w].active)
            /\ \A d \in Conns \ {c} : conn[d].pc \in Locked => reg'[conn[d].srv].mu = d
        BY <1>1, <1>3, <1>7, FrameFromReg
      <3> QED BY <1>1, <1>2, <1>4, <3>1, SMT DEF AcceptFrame
    <2>2. /\ stage \in {"swap", "own"} /\ (stage = "own" => conn[c].inc <= Loaded) /\ (stage = "swap" => conn[c].inc > Loaded)
      BY <1>1, <1>2, SMT
    <2>3. Set(c, [conn[c] EXCEPT !.last = Loaded, !.pc = stage])
      BY <1>7
    <2> HIDE DEF stage
    <2>4. reg'[v].mu = c /\ conn[c].inc >= high[v] /\ (stage = "own" => conn[c].inc <= Loaded')
      BY <1>2, <1>3, <1>7, <2>2
    <2> QED BY <1>1, <1>2, <2>1, <2>2, <2>3, <2>4, AdvanceKeeps
  <1> QED BY <1>5, <1>6, <1>7 DEF Reload

-----------------------------------------------------------------------------
(* The commit, the second half of a close, and the return of Accept.        *)

(* The new session is the active one, and the old one is about to be        *)
(* closed.                                                                  *)
LEMMA CommitOwns == ASSUME SessionInv, NEW c \in Conns, Commit(c) PROVE SessionInv'
  <1> DEFINE v == conn[c].srv
             p == reg[v].active
             r == [conn[c] EXCEPT !.pc = "replace", !.ses = "open", !.last = 0, !.prev = p]
             e == [last |-> conn[c].inc, loaded |-> TRUE, active |-> c, mu |-> None]
  <1>1. /\ TypeOK /\ Core /\ AgentHolds /\ DueIsOpen /\ SilenceCounted /\ left \in Scenarios /\ conn \in [Conns -> Conn]
        /\ reg \in [Servers -> Registries] /\ high \in [Servers -> 0 .. MaxInc]
        /\ conn[c].pc = "own" /\ UNCHANGED <<store, retired, agent, due, left>>
    BY DEF SessionInv, TypeOK, Conn, Commit
  <1>2. /\ conn[c] \in Conn /\ v \in Servers /\ conn[c].inc \in 0 .. MaxInc /\ MaxInc \in Nat /\ conn[c].missed \in Nat
        /\ 0 \in 0 .. MaxInc
    BY <1>1, ConnFields, SMT
  <1>3. /\ None \notin Conns /\ Watchdog \notin Conns
        /\ Free.pc = "none" /\ Free.agent = "closed" /\ Free.ses = "none" /\ Free.prev = None
    BY <1>1, FreeIsConn
  <1>4. /\ conn[c].ses = "none" /\ conn[c].prev = None /\ c \notin due
        /\ reg[v].mu = c /\ conn[c].inc >= high[v] /\ conn[c].inc <= Loaded
    BY <1>1, <1>3 DEF Core, ConnSound, Sessionless, Locked, DueIsOpen
  <1>5. p \in Conns \cup {None} /\ (p # None => p # c /\ conn[p].srv = v /\ conn[p].ses \in {"open", "closing"})
    BY <1>1, <1>2, <1>4 DEF Registries, Core, ActiveIsThere
  <1>6. /\ r \in Conn /\ r.pc = "replace" /\ r.ses = "open" /\ r.prev = p /\ r.srv = v /\ r.inc = conn[c].inc
        /\ r.agent = conn[c].agent /\ r.missed = conn[c].missed
    BY <1>2, <1>5 DEF Conn, Connections, Stages
  <1>7. e \in Registries /\ e.active = c /\ e.mu = None
    BY <1>2 DEF Registries
  <1>8. Set(c, r) /\ reg' = [reg EXCEPT ![v] = e] /\ high' = [high EXCEPT ![v] = Max({high[v], conn[c].inc})]
    BY DEF Commit
  <1> HIDE DEF r, e
  <1>9. /\ reg' \in [Servers -> Registries] /\ reg'[v] = e /\ (\A w \in Servers \ {v} : reg'[w] = reg[w])
    BY <1>1, <1>2, <1>7, <1>8
  <1>10. /\ high' \in [Servers -> 0 .. MaxInc] /\ high'[v] = conn[c].inc /\ (\A w \in Servers \ {v} : high'[w] = high[w])
    <2>1. high[v] \in 0 .. MaxInc
      BY <1>1, <1>2
    <2>2. Max({high[v], conn[c].inc}) = conn[c].inc
      <3>1. high[v] \in Int /\ conn[c].inc \in Int /\ high[v] <= conn[c].inc
        BY <1>2, <1>4, <2>1, SMT
      <3>2. Max({high[v], conn[c].inc}) = IF high[v] <= conn[c].inc THEN conn[c].inc ELSE high[v]
        BY <3>1, MinMax
      <3> QED BY <3>1, <3>2
    <2> QED BY <1>1, <1>2, <1>8, <2>2
  <1>11. conn' \in [Conns -> Conn] /\ Written(c, r) /\ OthersKept(c, r)
    BY <1>1, <1>6, <1>8, SetOne
  <1>12. conn'[c] = r
    BY <1>6, <1>11 DEF Written, Unneeded
  <1>13. \A d \in Conns \ {c} :
           \/ conn'[d] = conn[d]
           \/ conn'[d] = Free /\ Unneeded(conn[d]) /\ (\A d2 \in Conns \ {c} : conn[d2].prev # d)
    BY <1>11 DEF OthersKept
  <1>14. TypeOK'
    BY <1>1, <1>9, <1>10, <1>11 DEF TypeOK, Conn
  <1>15. Loaded' = Loaded
    BY <1>1 DEF Loaded
  <1>16. \A d \in Conns : ConnSound(d)'
    <2> SUFFICES ASSUME NEW d \in Conns PROVE ConnSound(d)'
      OBVIOUS
    <2>1. CASE d = c
      <3>1. p # None => conn'[p] = conn[p]
        BY <1>5, <1>13 DEF Unneeded
      <3> QED BY <1>5, <1>6, <1>12, <2>1, <3>1 DEF ConnSound, Locked, Sessionless
    <2>2. CASE d # c /\ conn'[d] = conn[d]
      <3>1. ConnSound(d) /\ conn[d].prev \in Conns \cup {None} /\ conn[d].srv \in Servers
        BY <1>1, ConnFields DEF Core
      <3>2. conn[d].prev # None => conn'[conn[d].prev] = conn[conn[d].prev]
        <4>1. conn[d].prev # None => conn[d].prev # c
          BY <1>4, <3>1 DEF ConnSound
        <4> QED BY <1>13, <2>2, <3>1, <4>1
      <3>3. conn[d].pc \in Locked => conn[d].srv # v
        BY <1>4, <2>2, <3>1 DEF ConnSound
      <3> QED BY <1>9, <1>10, <1>15, <2>2, <3>1, <3>2, <3>3, SMTT(20) DEF ConnSound
    <2>3. CASE d # c /\ conn'[d] = Free
      BY <1>3, <2>3 DEF ConnSound, Locked
    <2> QED BY <1>13, <2>1, <2>2, <2>3
  <1>17. NoOrphan'
    <2> SUFFICES ASSUME NEW o \in Conns, conn'[o].ses = "open"
                 PROVE  \/ reg'[conn'[o].srv].active = o
                        \/ \E d \in Conns : conn'[d].prev = o /\ conn'[d].pc = "replace"
      BY DEF NoOrphan, Open
    <2>1. CASE o = c
      BY <1>6, <1>7, <1>9, <1>12, <2>1
    <2>2. CASE o # c
      <3>1. conn'[o] = conn[o] /\ conn[o].srv \in Servers
        BY <1>1, <1>3, <1>13, <2>2, ConnFields
      <3>2. \/ reg[conn[o].srv].active = o
            \/ \E d \in Conns : conn[d].prev = o /\ conn[d].pc = "replace"
        BY <1>1, <3>1 DEF Core, NoOrphan, Open
      <3>3. \A d \in Conns : conn[d].pc = "replace" => conn'[d] = conn[d]
        BY <1>1, <1>13 DEF Unneeded
      <3>4. CASE reg[conn[o].srv].active = o
        BY <1>6, <1>9, <1>12, <3>1, <3>4, ZenonT(40)
      <3> QED BY <3>1, <3>2, <3>3, <3>4
    <2> QED BY <2>1, <2>2
  <1>18. ActiveIsThere'
    <2> SUFFICES ASSUME NEW w \in Servers, reg'[w].active # None
                 PROVE  conn'[reg'[w].active].srv = w /\ conn'[reg'[w].active].ses \in {"open", "closing"}
      BY DEF ActiveIsThere
    <2>1. CASE w = v
      BY <1>6, <1>7, <1>9, <1>12, <2>1
    <2>2. CASE w # v
      <3>1. reg'[w] = reg[w] /\ reg[w].active \in Conns
        BY <1>1, <1>9, <2>2 DEF Registries
      <3>2. conn[reg[w].active].srv = w /\ conn[reg[w].active].ses \in {"open", "closing"}
        BY <1>1, <2>2, <3>1 DEF Core, ActiveIsThere
      <3> QED BY <1>13, <2>2, <3>1, <3>2 DEF Unneeded
    <2> QED BY <2>1, <2>2
  <1>19. WatermarkCovers'
    BY <1>1, <1>4, <1>10, <1>15 DEF Core, WatermarkCovers
  <1>20. AgentHolds'
    <2>1. agent.conn \in Conns /\ conn[agent.conn].agent = "open" => conn'[agent.conn].agent = "open"
      BY <1>6, <1>12, <1>13, SMT DEF Unneeded
    <2>2. agent.phase = "up" => conn'[agent.conn].pc # "queued"
      BY <1>1, <1>3, <1>6, <1>12, <1>13 DEF AgentHolds
    <2> QED BY <1>1, <2>1, <2>2 DEF AgentHolds
  <1>21. DueIsOpen'
    <2>1. \A d \in due \ {Watchdog} : d \in Conns \ {c}
      BY <1>1, <1>4 DEF TypeOK
    <2> QED BY <1>1, <1>13, <2>1, SMT DEF DueIsOpen, Unneeded
  <1>22. SilenceCounted'
    <2> SUFFICES ASSUME agent.phase = "up" PROVE SilenceCounted'
      BY <1>1 DEF SilenceCounted
    <2>1. agent.conn \in Conns /\ conn[agent.conn].agent = "open"
      BY <1>1 DEF AgentHolds
    <2>2. CASE agent.conn = c
      BY <1>1, <1>2, <1>4, <1>6, <1>12, <2>2, SMT DEF SilenceCounted, Open
    <2>3. CASE agent.conn # c
      <3>1. conn'[agent.conn] = conn[agent.conn]
        BY <1>13, <2>1, <2>3 DEF Unneeded
      <3> QED BY <1>1, <3>1 DEF SilenceCounted, Open
    <2> QED BY <2>2, <2>3
  <1> QED BY <1>14, <1>16, <1>17, <1>18, <1>19, <1>20, <1>21, <1>22 DEF SessionInv, Core

(* SessionClosed detaches the session that closed, and no other.            *)
LEMMA SessionClosedKeeps == ASSUME SessionInv, NEW c \in Conns, SessionClosed(c) PROVE SessionInv'
  <1> DEFINE v == conn[c].srv
             r == [conn[c] EXCEPT !.ses = "gone", !.age = 0, !.missed = 0]
             e == [reg[v] EXCEPT !.active = Detached(c)]
  <1>1. /\ TypeOK /\ Core /\ AgentHolds /\ DueIsOpen /\ SilenceCounted /\ left \in Scenarios /\ conn \in [Conns -> Conn]
        /\ reg \in [Servers -> Registries] /\ conn[c].ses = "closing" /\ UNCHANGED <<store, retired, agent, due, high, left>>
    BY DEF SessionInv, TypeOK, Conn, SessionClosed
  <1>2. conn[c] \in Conn /\ v \in Servers /\ 0 \in 0 .. left.window /\ reg[v] \in Registries /\ conn[c].pc \in Stages
    BY <1>1, ConnFields, SMT
  <1>3. /\ None \notin Conns /\ Watchdog \notin Conns
        /\ Free.pc = "none" /\ Free.agent = "closed" /\ Free.ses = "none" /\ Free.prev = None
    BY <1>1, FreeIsConn
  <1>4. /\ r \in Conn /\ r.pc = conn[c].pc /\ r.ses = "gone" /\ r.prev = conn[c].prev /\ r.srv = v /\ r.inc = conn[c].inc
        /\ r.last = conn[c].last /\ r.agent = conn[c].agent
    BY <1>2 DEF Conn, Connections
  <1>5. Detached(c) = IF reg[v].active = c THEN None ELSE reg[v].active
    BY DEF Detached
  <1>6. e \in Registries /\ e.active = Detached(c) /\ e.mu = reg[v].mu
    BY <1>2, <1>5 DEF Registries
  <1>7. Set(c, r) /\ reg' = [reg EXCEPT ![v] = e] /\ c \notin due /\ conn[c].pc \notin Sessionless
    BY <1>1, <1>3 DEF SessionClosed, DueIsOpen, Core, ConnSound
  <1> HIDE DEF r, e
  <1>8. /\ reg' \in [Servers -> Registries] /\ reg'[v] = e /\ (\A w \in Servers \ {v} : reg'[w] = reg[w])
        /\ \A w \in Servers : reg'[w].mu = reg[w].mu
    BY <1>1, <1>2, <1>6, <1>7
  <1>9. conn' \in [Conns -> Conn] /\ Written(c, r) /\ OthersKept(c, r)
    BY <1>1, <1>4, <1>7, SetOne
  <1>10. conn'[c] = r \/ (conn'[c] = Free /\ Unneeded(r) /\ \A d2 \in Conns \ {c} : conn[d2].prev # c)
    BY <1>9 DEF Written
  <1>11. \A d \in Conns \ {c} :
           \/ conn'[d] = conn[d]
           \/ conn'[d] = Free /\ Unneeded(conn[d]) /\ conn[c].prev # d /\ (\A d2 \in Conns \ {c} : conn[d2].prev # d)
    BY <1>4, <1>9 DEF OthersKept
  <1>12. TypeOK'
    BY <1>1, <1>8, <1>9 DEF TypeOK, Conn
  <1>13. Loaded' = Loaded
    BY <1>1 DEF Loaded
  <1>14. \A d \in Conns : ConnSound(d)'
    <2> SUFFICES ASSUME NEW d \in Conns PROVE ConnSound(d)'
      OBVIOUS
    <2>1. ConnSound(d) /\ conn[d].prev \in Conns \cup {None} /\ conn[d].srv \in Servers
      BY <1>1, ConnFields DEF Core
    <2>2. conn[d].prev # None => conn'[conn[d].prev].srv = conn[conn[d].prev].srv /\ conn'[conn[d].prev].ses # "none"
      <3> SUFFICES ASSUME conn[d].prev # None
                   PROVE  conn'[conn[d].prev].srv = conn[conn[d].prev].srv /\ conn'[conn[d].prev].ses # "none"
        OBVIOUS
      <3>1. conn[d].prev \in Conns /\ conn[d].pc = "replace" /\ conn[conn[d].prev].ses # "none"
        BY <2>1 DEF ConnSound
      <3>2. CASE conn[d].prev = c
        BY <1>4, <1>10, <3>1, <3>2 DEF Unneeded
      <3>3. CASE conn[d].prev # c
        BY <1>11, <3>1, <3>3
      <3> QED BY <3>2, <3>3
    <2>3. CASE conn'[d] = Free
      BY <1>3, <2>3 DEF ConnSound, Locked
    <2>4. CASE d = c /\ conn'[c] = r
      BY <1>4, <1>7, <2>1, <2>2, <2>4 DEF ConnSound, Locked, Sessionless
    <2>5. CASE d # c /\ conn'[d] = conn[d]
      BY <1>1, <1>8, <1>13, <2>1, <2>2, <2>5 DEF ConnSound
    <2> QED BY <1>10, <1>11, <2>3, <2>4, <2>5
  <1>15. NoOrphan'
    <2> SUFFICES ASSUME NEW o \in Conns, conn'[o].ses = "open"
                 PROVE  \/ reg'[conn'[o].srv].active = o
                        \/ \E d \in Conns : conn'[d].prev = o /\ conn'[d].pc = "replace"
      BY DEF NoOrphan, Open
    <2>1. o # c /\ conn'[o] = conn[o] /\ conn[o].srv \in Servers
      BY <1>1, <1>3, <1>4, <1>10, <1>11, ConnFields, SMT
    <2>2. \/ reg[conn[o].srv].active = o
          \/ \E d \in Conns : conn[d].prev = o /\ conn[d].pc = "replace"
      BY <1>1, <2>1 DEF Core, NoOrphan, Open
    <2>3. CASE reg[conn[o].srv].active = o
      BY <1>5, <1>6, <1>8, <2>1, <2>3
    <2>4. \A d \in Conns : conn[d].prev = o /\ conn[d].pc = "replace" => conn'[d].prev = o /\ conn'[d].pc = "replace"
      <3> SUFFICES ASSUME NEW d \in Conns, conn[d].prev = o, conn[d].pc = "replace"
                   PROVE  conn'[d].prev = o /\ conn'[d].pc = "replace"
        OBVIOUS
      <3>1. CASE d = c
        BY <1>4, <1>10, <3>1 DEF Unneeded
      <3>2. CASE d # c
        BY <1>11, <3>2 DEF Unneeded
      <3> QED BY <3>1, <3>2
    <2> QED BY <2>2, <2>3, <2>4
  <1>16. ActiveIsThere'
    <2> SUFFICES ASSUME NEW w \in Servers, reg'[w].active # None
                 PROVE  conn'[reg'[w].active].srv = w /\ conn'[reg'[w].active].ses \in {"open", "closing"}
      BY DEF ActiveIsThere
    <2>1. reg'[w].active = reg[w].active /\ reg[w].active \in Conns
      <3>1. reg[w].active \in Conns \cup {None}
        BY <1>1 DEF Registries
      <3> QED BY <1>5, <1>6, <1>8, <3>1
    <2>2. conn[reg[w].active].srv = w /\ conn[reg[w].active].ses \in {"open", "closing"}
      BY <1>1, <2>1 DEF Core, ActiveIsThere
    <2>3. reg[w].active # c
      BY <1>5, <1>6, <1>8, <2>1, <2>2
    <2> QED BY <1>11, <2>1, <2>2, <2>3, SMT DEF Unneeded
  <1>17. WatermarkCovers'
    BY <1>1, <1>13 DEF Core, WatermarkCovers
  <1>18. AgentHolds'
    <2>1. agent.conn \in Conns /\ conn[agent.conn].agent = "open" =>
             conn'[agent.conn].agent = "open" /\ conn'[agent.conn].pc = conn[agent.conn].pc
      BY <1>4, <1>10, <1>11, SMT DEF Unneeded
    <2> QED BY <1>1, <2>1 DEF AgentHolds
  <1>19. DueIsOpen'
    <2>1. \A d \in due \ {Watchdog} : d \in Conns \ {c}
      BY <1>1, <1>7 DEF TypeOK
    <2> QED BY <1>1, <1>11, <2>1, SMT DEF DueIsOpen, Unneeded
  <1>20. SilenceCounted'
    <2> SUFFICES ASSUME agent.phase = "up" PROVE SilenceCounted'
      BY <1>1 DEF SilenceCounted
    <2>1. agent.conn \in Conns /\ conn[agent.conn].agent = "open"
      BY <1>1 DEF AgentHolds
    <2>2. CASE agent.conn = c
      <3>1. conn'[c] = r
        BY <1>4, <1>10, <2>1, <2>2 DEF Unneeded
      <3> QED BY <1>1, <1>4, <1>7, <2>2, <3>1 DEF SilenceCounted, Open, Sessionless
    <2>3. CASE agent.conn # c
      <3>1. conn'[agent.conn] = conn[agent.conn]
        BY <1>11, <2>1, <2>3 DEF Unneeded
      <3> QED BY <1>1, <3>1 DEF SilenceCounted, Open
    <2> QED BY <2>2, <2>3
  <1> QED BY <1>12, <1>14, <1>15, <1>16, <1>17, <1>18, <1>19, <1>20 DEF SessionInv, Core

(* Accept returns when the session it replaced is gone.                     *)
LEMMA AcceptedKeeps == ASSUME SessionInv, NEW c \in Conns, Accepted(c) PROVE SessionInv'
  <1> DEFINE r == [conn[c] EXCEPT !.pc = "served", !.prev = None]
  <1>1. /\ TypeOK /\ Core /\ AgentHolds /\ DueIsOpen /\ SilenceCounted /\ left \in Scenarios /\ conn \in [Conns -> Conn]
        /\ conn[c].pc = "replace" /\ (conn[c].prev # None => conn[conn[c].prev].ses = "gone")
        /\ UNCHANGED <<store, retired, reg, agent, due, high, left>>
    BY DEF SessionInv, TypeOK, Conn, Accepted
  <1>2. conn[c] \in Conn
    BY <1>1
  <1>3. /\ None \notin Conns /\ Watchdog \notin Conns
        /\ Free.pc = "none" /\ Free.agent = "closed" /\ Free.ses = "none" /\ Free.prev = None
    BY <1>1, FreeIsConn
  <1>4. /\ r \in Conn /\ r.pc = "served" /\ r.prev = None /\ r.ses = conn[c].ses /\ r.srv = conn[c].srv /\ r.inc = conn[c].inc
        /\ r.last = conn[c].last /\ r.agent = conn[c].agent /\ r.missed = conn[c].missed
    BY <1>2 DEF Conn, Connections, Stages
  <1>5. Set(c, r) /\ c \notin due
    BY <1>1, <1>3 DEF Accepted, DueIsOpen
  <1> HIDE DEF r
  <1>6. conn' \in [Conns -> Conn] /\ Written(c, r) /\ OthersKept(c, r)
    BY <1>1, <1>4, <1>5, SetOne
  <1>7. conn'[c] = r \/ (conn'[c] = Free /\ Unneeded(r) /\ \A d2 \in Conns \ {c} : conn[d2].prev # c)
    BY <1>6 DEF Written
  <1>8. \A d \in Conns \ {c} :
           \/ conn'[d] = conn[d]
           \/ conn'[d] = Free /\ Unneeded(conn[d]) /\ (\A d2 \in Conns \ {c} : conn[d2].prev # d)
    BY <1>6 DEF OthersKept
  <1>9. TypeOK'
    BY <1>1, <1>6 DEF TypeOK, Conn
  <1>10. Loaded' = Loaded
    BY <1>1 DEF Loaded
  <1>11. \A d \in Conns : ConnSound(d)'
    <2> SUFFICES ASSUME NEW d \in Conns PROVE ConnSound(d)'
      OBVIOUS
    <2>1. ConnSound(d) /\ conn[d].prev \in Conns \cup {None}
      BY <1>1, ConnFields DEF Core
    <2>2. CASE conn'[d] = Free
      BY <1>3, <2>2 DEF ConnSound, Locked
    <2>3. CASE d = c /\ conn'[c] = r
      BY <1>1, <1>4, <2>1, <2>3 DEF ConnSound, Locked, Sessionless
    <2>4. CASE d # c /\ conn'[d] = conn[d]
      <3>1. conn[d].prev # None => conn'[conn[d].prev].srv = conn[conn[d].prev].srv /\ conn'[conn[d].prev].ses # "none"
        BY <1>4, <1>7, <1>8, <2>1, <2>4, SMT DEF ConnSound
      <3> QED BY <1>1, <1>10, <2>1, <2>4, <3>1 DEF ConnSound
    <2> QED BY <1>7, <1>8, <2>2, <2>3, <2>4
  <1>12. NoOrphan'
    <2> SUFFICES ASSUME NEW o \in Conns, conn'[o].ses = "open"
                 PROVE  \/ reg[conn'[o].srv].active = o
                        \/ \E d \in Conns : conn'[d].prev = o /\ conn'[d].pc = "replace"
      BY <1>1 DEF NoOrphan, Open
    <2>1. conn[o].ses = "open" /\ conn'[o].srv = conn[o].srv
      BY <1>3, <1>4, <1>7, <1>8, ZenonT(40)
    <2>2. \/ reg[conn[o].srv].active = o
          \/ \E d \in Conns : conn[d].prev = o /\ conn[d].pc = "replace"
      BY <1>1, <2>1 DEF Core, NoOrphan, Open
    <2>3. \A d \in Conns : conn[d].prev = o /\ conn[d].pc = "replace" => conn'[d] = conn[d]
      BY <1>1, <1>3, <1>8, <2>1, SMT DEF Unneeded
    <2> QED BY <2>1, <2>2, <2>3
  <1>13. ActiveIsThere'
    <2> SUFFICES ASSUME NEW w \in Servers, reg[w].active # None
                 PROVE  conn'[reg[w].active].srv = w /\ conn'[reg[w].active].ses \in {"open", "closing"}
      BY <1>1 DEF ActiveIsThere
    <2>1. reg[w].active \in Conns
      BY <1>1 DEF TypeOK, Registries
    <2>2. conn[reg[w].active].srv = w /\ conn[reg[w].active].ses \in {"open", "closing"}
      BY <1>1 DEF Core, ActiveIsThere
    <2> QED BY <1>4, <1>7, <1>8, <2>1, <2>2, SMT DEF Unneeded
  <1>14. WatermarkCovers'
    BY <1>1, <1>10 DEF Core, WatermarkCovers
  <1>15. \A d \in Conns : conn[d].agent = "open" =>
            /\ conn'[d].agent = "open" /\ conn'[d].ses = conn[d].ses /\ conn'[d].missed = conn[d].missed
            /\ conn'[d].pc = conn[d].pc \/ conn'[d].pc = "served"
    BY <1>4, <1>7, <1>8, SMT DEF Unneeded
  <1>16. AgentHolds' /\ SilenceCounted'
    BY <1>1, <1>15 DEF AgentHolds, SilenceCounted, Open
  <1>17. DueIsOpen'
    <2>1. \A d \in due \ {Watchdog} : d \in Conns \ {c}
      BY <1>1, <1>5 DEF TypeOK
    <2> QED BY <1>1, <1>8, <2>1, SMT DEF DueIsOpen, Unneeded
  <1> QED BY <1>9, <1>11, <1>12, <1>13, <1>14, <1>16, <1>17 DEF SessionInv, Core

-----------------------------------------------------------------------------
(* Restarts of the Server.                                                  *)

(* Some Servers lose their registries and connections, or all do and the    *)
(* database with them.                                                      *)
LEMMA RestartKeeps ==
  ASSUME SessionInv, NEW vs \in SUBSET Servers, Restart(vs), left' \in Scenarios, left'.window = left.window,
         retired' \in BOOLEAN,
         \/ UNCHANGED <<store, high>>
         \/ vs = Servers /\ store' = -1 /\ high' = [v \in Servers |-> 0]
  PROVE  SessionInv'
  <1> DEFINE hit(c) == conn[c].srv \in vs /\ conn[c] # Free
             r(c) == [conn[c] EXCEPT !.pc = "refused", !.prev = None, !.last = 0,
                         !.ses = "none", !.age = 0, !.missed = 0]
             cs == [c \in Conns |-> IF hit(c) THEN r(c) ELSE conn[c]]
  <1>1. /\ TypeOK /\ Core /\ AgentHolds /\ DueIsOpen /\ SilenceCounted /\ left \in Scenarios /\ conn \in [Conns -> Conn]
        /\ reg \in [Servers -> Registries] /\ UNCHANGED agent /\ due' = due \ {c \in Conns : conn[c].srv \in vs}
        /\ MaxInc \in Nat
    BY SessionAssumption DEF SessionInv, TypeOK, Conn, Restart
  <1>2. /\ None \notin Conns /\ Watchdog \notin Conns /\ Free \in Conn
        /\ Free.pc = "none" /\ Free.agent = "closed" /\ Free.ses = "none" /\ Free.prev = None
    BY <1>1, FreeIsConn
  <1>3. \A c \in Conns : /\ r(c) \in Conn /\ r(c).pc = "refused" /\ r(c).prev = None /\ r(c).ses = "none"
                         /\ r(c).agent = conn[c].agent /\ r(c).srv = conn[c].srv
    <2> SUFFICES ASSUME NEW c \in Conns
                 PROVE  /\ r(c) \in Conn /\ r(c).pc = "refused" /\ r(c).prev = None /\ r(c).ses = "none"
                        /\ r(c).agent = conn[c].agent /\ r(c).srv = conn[c].srv
      OBVIOUS
    <2>1. conn[c] \in Conn /\ 0 \in 0 .. left.window /\ 0 \in 0 .. MaxInc
      BY <1>1, ConnFields, SMT
    <2> QED BY <2>1 DEF Conn, Connections, Stages
  <1>4. conn' = Settle(cs) /\ reg' = [v \in Servers |-> IF v \in vs THEN NoRecord ELSE reg[v]]
    BY DEF Restart
  <1> HIDE DEF r
  <1>5. cs \in [Conns -> Conn]
    BY <1>1, <1>3
  <1>6. \A d \in Conns : conn'[d] = cs[d] \/ (conn'[d] = Free /\ Dead(cs, d))
    BY <1>4 DEF Settle
  <1>7. conn' \in [Conns -> Conn]
    <2>1. conn' = [d \in Conns |-> IF Dead(cs, d) THEN Free ELSE cs[d]]
      BY <1>4 DEF Settle
    <2> QED BY <1>2, <1>5, <2>1
  <1>8. NoRecord \in Registries /\ NoRecord.active = None
    BY <1>1, SMT DEF NoRecord, Registries
  <1>9. reg' \in [Servers -> Registries] /\ \A v \in Servers : reg'[v] = IF v \in vs THEN NoRecord ELSE reg[v]
    BY <1>1, <1>4, <1>8
  <1>10. TypeOK'
    <2>1. store' \in -1 .. MaxInc /\ high' \in [Servers -> 0 .. MaxInc]
      BY <1>1, SMT DEF TypeOK
    <2> QED BY <1>1, <1>7, <1>9, <2>1 DEF TypeOK, Conn
  <1>hits. \A d \in Conns : (hit(d) => cs[d] = r(d)) /\ (~hit(d) => cs[d] = conn[d])
    OBVIOUS
  <1> HIDE DEF cs, hit
  <1>11. ASSUME NEW d \in Conns, hit(d) PROVE conn'[d] = r(d) \/ (conn'[d] = Free /\ conn[d].agent = "closed")
    <2>1. cs[d] = r(d) /\ r(d).agent = conn[d].agent
      BY <1>3, <1>11, <1>hits
    <2> QED BY <1>6, <2>1 DEF Dead
  <1>12. ASSUME NEW d \in Conns, ~hit(d)
         PROVE  \/ conn'[d] = conn[d]
                \/ conn'[d] = Free /\ Unneeded(conn[d]) /\ (\A e \in Conns : ~hit(e) => conn[e].prev # d)
    <2>1. cs[d] = conn[d] /\ \A e \in Conns : ~hit(e) => cs[e] = conn[e]
      BY <1>12, <1>hits
    <2> QED BY <1>6, <2>1, SMT DEF Dead, Unneeded
  <1> USE DEF hit
  <1>13. \A d \in Conns : conn[d].srv \in Servers /\ conn[d].prev \in Conns \cup {None}
    BY <1>1, ConnFields
  <1>14. \A d \in Conns : ConnSound(d)'
    <2> SUFFICES ASSUME NEW d \in Conns PROVE ConnSound(d)'
      OBVIOUS
    <2>1. CASE conn'[d] = Free
      BY <1>2, <2>1 DEF ConnSound, Locked
    <2>2. CASE conn'[d] = r(d)
      BY <1>3, <2>2 DEF ConnSound, Locked
    <2>3. CASE conn'[d] = conn[d] /\ ~hit(d) /\ conn'[d] # Free
      <3>1. conn[d].srv \in Servers \ vs
        BY <1>13, <2>3
      <3>2. UNCHANGED <<store, high>> /\ reg'[conn[d].srv] = reg[conn[d].srv]
        BY <1>9, <3>1
      <3>3. conn[d].prev # None => conn'[conn[d].prev] = conn[conn[d].prev]
        <4>1. conn[d].prev # None => conn[d].prev \in Conns /\ conn[conn[d].prev].srv = conn[d].srv
          BY <1>1, <1>13 DEF Core, ConnSound
        <4> QED BY <1>12, <2>3, <3>1, <4>1
      <3>4. ConnSound(d) /\ Loaded' = Loaded
        BY <1>1, <3>2 DEF Core, Loaded
      <3> QED BY <2>3, <3>2, <3>3, <3>4 DEF ConnSound
    <2> QED BY <1>11, <1>12, <2>1, <2>2, <2>3
  <1>15. NoOrphan'
    <2> SUFFICES ASSUME NEW o \in Conns, conn'[o].ses = "open"
                 PROVE  \/ reg'[conn'[o].srv].active = o
                        \/ \E d \in Conns : conn'[d].prev = o /\ conn'[d].pc = "replace"
      BY DEF NoOrphan, Open
    <2>1. ~hit(o) /\ conn'[o] = conn[o] /\ conn[o].srv \in Servers \ vs
      BY <1>2, <1>3, <1>11, <1>12, <1>13, ZenonT(40) DEF Unneeded
    <2>2. \/ reg[conn[o].srv].active = o
          \/ \E d \in Conns : conn[d].prev = o /\ conn[d].pc = "replace"
      BY <1>1, <2>1 DEF Core, NoOrphan, Open
    <2>3. \A d \in Conns : conn[d].prev = o /\ conn[d].pc = "replace" => conn'[d] = conn[d]
      <3> SUFFICES ASSUME NEW d \in Conns, conn[d].prev = o, conn[d].pc = "replace" PROVE conn'[d] = conn[d]
        OBVIOUS
      <3>1. conn[d].srv = conn[o].srv
        BY <1>1, <1>2 DEF Core, ConnSound
      <3> QED BY <1>12, <2>1, <3>1 DEF Unneeded
    <2> QED BY <1>9, <2>1, <2>2, <2>3
  <1>16. ActiveIsThere'
    <2> SUFFICES ASSUME NEW w \in Servers, reg'[w].active # None
                 PROVE  conn'[reg'[w].active].srv = w /\ conn'[reg'[w].active].ses \in {"open", "closing"}
      BY DEF ActiveIsThere
    <2>1. w \notin vs /\ reg'[w] = reg[w]
      BY <1>8, <1>9
    <2>2. reg[w].active \in Conns
      BY <1>1, <2>1 DEF Registries
    <2>3. conn[reg[w].active].srv = w /\ conn[reg[w].active].ses \in {"open", "closing"}
      BY <1>1, <2>1 DEF Core, ActiveIsThere
    <2> QED BY <1>12, <2>1, <2>2, <2>3 DEF Unneeded
  <1>17. WatermarkCovers'
    BY <1>1, SMT DEF Core, WatermarkCovers, Loaded, Restored
  <1>18. \A d \in Conns : conn[d].agent = "open" =>
            \/ conn'[d] = conn[d] /\ conn[d].srv \notin vs
            \/ conn'[d] = r(d) /\ conn[d].srv \in vs
    BY <1>2, <1>11, <1>12 DEF Unneeded
  <1>19. AgentHolds'
    BY <1>1, <1>3, <1>18 DEF AgentHolds
  <1>20. SilenceCounted'
    <2> SUFFICES ASSUME agent.phase = "up" PROVE SilenceCounted'
      BY <1>1 DEF SilenceCounted
    <2>1. agent.conn \in Conns /\ conn[agent.conn].agent = "open"
      BY <1>1 DEF AgentHolds
    <2>2. CASE conn'[agent.conn] = r(agent.conn)
      BY <1>1, <1>3, <2>1, <2>2 DEF SilenceCounted, Open
    <2>3. CASE conn'[agent.conn] = conn[agent.conn] /\ conn[agent.conn].srv \notin vs
      <3>1. agent.conn \in due' <=> agent.conn \in due
        BY <1>1, <2>1, <2>3
      <3> QED BY <1>1, <2>3, <3>1 DEF SilenceCounted, Open
    <2> QED BY <1>18, <2>1, <2>2, <2>3
  <1>21. DueIsOpen'
    <2>1. \A d \in due' \ {Watchdog} : d \in Conns /\ d \in due \ {Watchdog} /\ conn[d].srv \notin vs
      BY <1>1 DEF TypeOK
    <2>2. \A d \in due' \ {Watchdog} : conn'[d] = conn[d]
      BY <1>1, <1>12, <2>1 DEF DueIsOpen, Unneeded
    <2> QED BY <1>1, <1>2, <2>1, <2>2 DEF DueIsOpen
  <1> QED BY <1>10, <1>14, <1>15, <1>16, <1>17, <1>19, <1>20, <1>21 DEF SessionInv, Core

-----------------------------------------------------------------------------
(* The theorems.                                                            *)

(* At the start nobody is connected.                                        *)
LEMMA SessionsStart == Init => SessionInv
  <1> SUFFICES ASSUME Init PROVE SessionInv
    OBVIOUS
  <1>1. left \in Scenarios /\ MaxInc \in Nat \ {0} /\ left.window \in Nat
    BY SessionAssumption DEF Init, Scenarios
  <1>2. /\ None \notin Conns /\ Free \in Conn
        /\ Free.pc = "none" /\ Free.agent = "closed" /\ Free.ses = "none" /\ Free.prev = None
    BY <1>1, FreeIsConn
  <1>3. NoRecord \in Registries /\ NoRecord.active = None
    BY <1>1, SMT DEF NoRecord, Registries
  <1>4. agent \in Agents(left.window) /\ agent.phase = "dial" /\ agent.conn = None
    BY <1>1, SMT DEF Init, Agents
  <1>5. TypeOK
    <2>1. store \in -1 .. MaxInc /\ high \in [Servers -> 0 .. MaxInc] /\ due \in SUBSET (Conns \cup {Watchdog})
      BY <1>1, SMT DEF Init
    <2>2. reg \in [Servers -> Registries] /\ conn \in [Conns -> Conn]
      BY <1>2, <1>3 DEF Init
    <2>3. retired \in BOOLEAN
      BY DEF Init
    <2> QED BY <1>1, <1>4, <2>1, <2>2, <2>3 DEF TypeOK, Conn
  <1>6. Core
    <2>1. \A c \in Conns : conn[c] = Free
      BY DEF Init
    <2>2. \A v \in Servers : reg[v] = NoRecord /\ high[v] = 0
      BY DEF Init
    <2>3. \A c \in Conns : ConnSound(c)
      BY <1>2, <2>1 DEF ConnSound, Locked
    <2>4. NoOrphan /\ ActiveIsThere
      BY <1>2, <1>3, <2>1, <2>2 DEF NoOrphan, Open, ActiveIsThere
    <2>5. WatermarkCovers
      BY <1>1, <2>2, SMT DEF Init, WatermarkCovers, Loaded, Restored
    <2> QED BY <2>3, <2>4, <2>5 DEF Core
  <1> QED BY <1>4, <1>5, <1>6 DEF Init, SessionInv, AgentHolds, DueIsOpen, SilenceCounted

(* Every step of the Agent, the Server and the environment keeps the        *)
(* invariant.                                                               *)
LEMMA SessionStepKeeps == SessionInv /\ [Next]_vars => SessionInv'
  <1> SUFFICES ASSUME SessionInv, [Next]_vars PROVE SessionInv'
    OBVIOUS
  <1>1. CASE UNCHANGED vars
    <2>1. UNCHANGED <<store, retired, reg, conn, agent, due, high, left>> /\ Loaded' = Loaded
      BY <1>1 DEF vars, Loaded
    <2>2. TypeOK' <=> TypeOK
      BY <2>1 DEF TypeOK
    <2>3. Core' <=> Core
      BY <2>1, SMT DEF Core, ConnSound, NoOrphan, Open, ActiveIsThere, WatermarkCovers
    <2>4. (AgentHolds' <=> AgentHolds) /\ (DueIsOpen' <=> DueIsOpen) /\ (SilenceCounted' <=> SilenceCounted)
      BY <2>1 DEF AgentHolds, DueIsOpen, SilenceCounted, Open
    <2> QED BY <2>2, <2>3, <2>4 DEF SessionInv
  <1>2. CASE Dial \/ Shaken \/ ShakeFails \/ SessionEnds \/ Backoff \/ WatchdogRun \/ AgentRestart \/ Tick \/ Retire
    BY <1>2, DialKeeps, ShakenKeeps, ShakeFailsKeeps, SessionEndsKeeps, WatchdogRunKeeps, AgentRestartKeeps, TickKeeps
  <1>3. CASE LoseDatabase
    <2>1. left' \in Scenarios /\ left'.window = left.window
      BY <1>3, SpendKeeps DEF LoseDatabase, SessionInv, TypeOK, BudgetNames
    <2> QED BY <1>3, <2>1, RestartKeeps DEF LoseDatabase
  <1>4. CASE \E v \in left.servers : Reboot(v)
    <2>1. PICK v \in left.servers : Reboot(v)
      BY <1>4
    <2>2. {v} \in SUBSET Servers /\ retired \in BOOLEAN
      BY DEF SessionInv, TypeOK, Scenarios
    <2>3. left' \in Scenarios /\ left'.window = left.window
      BY <2>1, SpendKeeps DEF Reboot, SessionInv, TypeOK, BudgetNames
    <2> QED BY <2>1, <2>2, <2>3, RestartKeeps DEF Reboot
  <1>5. ASSUME NEW c \in Conns,
               \/ Handshake(c) \/ RegisterLoad(c) \/ Swap(c) \/ Reload(c) \/ Commit(c)
               \/ Replace(c) \/ SessionClosed(c) \/ Accepted(c) \/ AuditEnds(c)
               \/ Heartbeat(c) \/ Cut(c)
        PROVE  SessionInv'
    BY <1>5, HandshakeKeeps, RegisterLoadKeeps, SwapKeeps, ReloadKeeps, CommitOwns, ReplaceKeeps,
       SessionClosedKeeps, AcceptedKeeps, HeartbeatKeeps, CutKeeps
  <1> QED BY <1>1, <1>2, <1>3, <1>4, <1>5 DEF Next

(* For any number of Servers on one database, connections, incarnations and *)
(* faults: the registry hands out one session per Agent, the one that is    *)
(* really there; every other open session is being closed in its favour;    *)
(* and the durable watermark covers every incarnation that was accepted     *)
(* (SessionRegistry.RegisterContext, SessionClosed).                        *)
THEOREM OneSession == Spec => []OneActiveSession
  <1>1. Init => SessionInv
    BY SessionsStart
  <1>2. SessionInv /\ [Next]_vars => SessionInv'
    BY SessionStepKeeps
  <1>3. SessionInv => OneActiveSession
    BY DEF SessionInv, Core, OneActiveSession
  <1> QED BY <1>1, <1>2, <1>3, PTL DEF Spec

(* Only the commit makes another session active, and only one whose         *)
(* incarnation is not below any that this Server accepted.                  *)
LEMMA ActiveOnlyForward ==
  ASSUME SessionInv, [Next]_vars, NEW v \in Servers, reg'[v].active \notin {None, reg[v].active}
  PROVE  conn[reg'[v].active].inc >= high[v]
  <1>1. reg \in [Servers -> Registries]
    BY DEF SessionInv, TypeOK
  <1>2. ASSUME UNCHANGED reg PROVE FALSE
    BY <1>2
  <1>3. ASSUME NEW vs, Restart(vs) PROVE FALSE
    <2>1. reg'[v] = NoRecord \/ reg'[v] = reg[v]
      BY <1>3 DEF Restart
    <2> QED BY <2>1, SMT DEF NoRecord
  <1>4. ASSUME NEW c \in Conns, \/ Handshake(c) \/ Replace(c) \/ Accepted(c) \/ AuditEnds(c) \/ Heartbeat(c) \/ Cut(c)
        PROVE  FALSE
    BY <1>2, <1>4 DEF Handshake, Replace, Accepted, AuditEnds, Heartbeat, Cut
  <1>5. ASSUME NEW c \in Conns, RegisterLoad(c) PROVE FALSE
    BY <1>1, <1>5, SMTT(20) DEF RegisterLoad, Lock, Registries
  <1>6. ASSUME NEW c \in Conns, Swap(c) PROVE FALSE
    BY <1>1, <1>6, SMT DEF Swap, Lock, Registries
  <1>7. ASSUME NEW c \in Conns, Reload(c) PROVE FALSE
    BY <1>1, <1>7, SMTT(20) DEF Reload, Lock, Registries
  <1>8. ASSUME NEW c \in Conns, SessionClosed(c) PROVE FALSE
    <2>1. reg' = [reg EXCEPT ![conn[c].srv].active = Detached(c)]
      BY <1>8 DEF SessionClosed
    <2>2. Detached(c) = None \/ Detached(c) = reg[conn[c].srv].active
      BY DEF Detached
    <2> QED BY <1>1, <2>1, <2>2 DEF Registries
  <1>9. ASSUME NEW c \in Conns, Commit(c) PROVE conn[reg'[v].active].inc >= high[v]
    <2>1. conn[c].pc = "own" /\ reg' = [reg EXCEPT ![conn[c].srv] = [last |-> conn[c].inc, loaded |-> TRUE, active |-> c, mu |-> None]]
      BY <1>9 DEF Commit
    <2>2. conn[c].srv = v /\ reg'[v].active = c
      BY <1>1, <2>1
    <2> QED BY <2>1, <2>2 DEF SessionInv, Core, ConnSound, Locked
  <1>10. CASE UNCHANGED vars
    BY <1>2, <1>10 DEF vars
  <1>11. CASE Dial \/ Shaken \/ ShakeFails \/ SessionEnds \/ Backoff \/ WatchdogRun \/ AgentRestart \/ Tick \/ Retire
    BY <1>2, <1>11 DEF Dial, Shaken, ShakeFails, SessionEnds, Backoff, WatchdogRun, AgentRestart, Tick, Retire
  <1>12. CASE LoseDatabase \/ \E w \in left.servers : Reboot(w)
    BY <1>3, <1>12 DEF LoseDatabase, Reboot
  <1> QED BY <1>4, <1>5, <1>6, <1>7, <1>8, <1>9, <1>10, <1>11, <1>12 DEF Next

(* The watermark is replaced by a higher one, under the compare-and-swap,   *)
(* or is lost with its row.                                                 *)
LEMMA StoreOnlyForward ==
  ASSUME SessionInv, [Next]_vars, store' # -1
  PROVE  store' >= store
  <1>1. /\ MaxInc \in Nat /\ store \in -1 .. MaxInc /\ Loaded \in 0 .. MaxInc /\ store <= Loaded
    BY LoadedIs
  <1>2. ASSUME UNCHANGED store PROVE store' >= store
    BY <1>1, <1>2, SMT
  <1>3. ASSUME store' = Loaded PROVE store' >= store
    BY <1>1, <1>3
  <1>4. ASSUME NEW c \in Conns, Swap(c) PROVE store' >= store
    <2>1. conn[c].inc \in Nat /\ conn[c].last \in Nat /\ conn[c].inc > conn[c].last
      BY <1>4, ConnFields, SMT DEF SessionInv, Core, ConnSound, Swap
    <2> QED BY <1>1, <1>4, <2>1, SMT DEF Swap
  <1>5. ASSUME NEW c \in Conns,
               \/ Handshake(c) \/ RegisterLoad(c) \/ Reload(c) \/ Commit(c)
               \/ Replace(c) \/ SessionClosed(c) \/ Accepted(c) \/ AuditEnds(c)
               \/ Heartbeat(c) \/ Cut(c)
        PROVE  store' >= store
    BY <1>2, <1>3, <1>5 DEF Handshake, RegisterLoad, Reload, Commit, Replace, SessionClosed, Accepted, AuditEnds, Heartbeat, Cut
  <1>6. CASE Dial \/ Shaken \/ ShakeFails \/ SessionEnds \/ Backoff \/ WatchdogRun \/ AgentRestart \/ Tick \/ Retire
             \/ (\E w \in left.servers : Reboot(w)) \/ UNCHANGED vars
    BY <1>2, <1>6 DEF Dial, Shaken, ShakeFails, SessionEnds, Backoff, WatchdogRun, AgentRestart, Tick, Retire, Reboot, vars
  <1>7. CASE LoseDatabase
    BY <1>7 DEF LoseDatabase
  <1> QED BY <1>4, <1>5, <1>6, <1>7 DEF Next

(* The Agent leaves a served session because the Server's end is gone, or   *)
(* because its watchdog counted the window.                                 *)
LEMMA SilenceOnlyReal ==
  ASSUME SessionInv, [Next]_vars, agent.phase = "up", agent'.phase = "sleep"
  PROVE  \/ conn[agent.conn].path = "cut"
         \/ ~Open(agent.conn)
         \/ conn[agent.conn].missed >= left.window - 1
  <1>1. agent \in Agents(left.window) /\ agent.conn \in Conns /\ left.window \in Nat
    BY DEF SessionInv, TypeOK, Scenarios, AgentHolds
  <1>2. agent' # agent /\ (\A n : agent' # [agent EXCEPT !.silent = n])
    BY <1>1 DEF Agents
  <1>3. CASE SessionEnds
    <2>1. conn[agent.conn].pc = "refused" \/ conn[agent.conn].ses \in {"closing", "gone"}
      BY <1>3 DEF SessionEnds, ServerGone
    <2> QED BY <1>1, <2>1 DEF SessionInv, Core, ConnSound, Sessionless, Open
  <1>4. CASE WatchdogRun
    <2>1. agent.silent >= left.window /\ agent.silent \in Nat
      BY <1>1, <1>2, <1>4, SMT DEF WatchdogRun, Agents
    <2>2. conn[agent.conn].missed \in Nat
      BY <1>1, ConnFields, SMT DEF SessionInv
    <2> QED BY <1>1, <2>1, <2>2, SMT DEF SessionInv, SilenceCounted
  <1>5. CASE Dial \/ Shaken \/ ShakeFails \/ Backoff
    BY <1>5 DEF Dial, Shaken, ShakeFails, Backoff
  <1>6. CASE AgentRestart \/ Tick
    BY <1>1, <1>2, <1>6, SMT DEF AgentRestart, Tick
  <1>7. ASSUME NEW c \in Conns, Heartbeat(c) PROVE FALSE
    BY <1>1, <1>2, <1>7 DEF Heartbeat
  <1>8. CASE Retire \/ LoseDatabase \/ (\E w \in left.servers : Reboot(w)) \/ UNCHANGED vars
    BY <1>2, <1>8 DEF Retire, LoseDatabase, Reboot, Restart, vars
  <1>9. ASSUME NEW c \in Conns,
               \/ Handshake(c) \/ RegisterLoad(c) \/ Swap(c) \/ Reload(c) \/ Commit(c)
               \/ Replace(c) \/ SessionClosed(c) \/ Accepted(c) \/ AuditEnds(c) \/ Cut(c)
        PROVE  FALSE
    BY <1>2, <1>9 DEF Handshake, RegisterLoad, Swap, Reload, Commit, Replace, SessionClosed, Accepted, AuditEnds, Cut
  <1> QED BY <1>3, <1>4, <1>5, <1>6, <1>7, <1>8, <1>9 DEF Next

(* For any number of Servers, connections and faults: a connection of an    *)
(* older Agent process never displaces the session of a newer one, across   *)
(* restarts of the Server; the durable watermark never goes back            *)
(* (RegisterContext, CompareAndSwapIncarnation); and the Agent's watchdog   *)
(* never gives up a session whose heartbeats were arriving (peerWatchdog).  *)
THEOREM SessionsOnlyForward == Spec => OnlyForward
  <1>1. Init => SessionInv
    BY SessionsStart
  <1>2. SessionInv /\ [Next]_vars => SessionInv'
    BY SessionStepKeeps
  <1>3. SessionInv /\ [Next]_vars =>
          [\A v \in Servers :
              (reg'[v].active \notin {None, reg[v].active}) => conn[reg'[v].active].inc >= high[v]]_vars
    BY ActiveOnlyForward
  <1>4. SessionInv /\ [Next]_vars => [store' # -1 => store' >= store]_store
    BY StoreOnlyForward
  <1>5. SessionInv /\ [Next]_vars =>
          [(agent.phase = "up" /\ agent'.phase = "sleep") =>
             \/ conn[agent.conn].path = "cut"
             \/ ~Open(agent.conn)
             \/ conn[agent.conn].missed >= left.window - 1]_vars
    BY SilenceOnlyReal
  <1> QED BY <1>1, <1>2, <1>3, <1>4, <1>5, PTL DEF Spec, OnlyForward, NoRollback, WatermarkMonotone, SilenceIsReal

=============================================================================
