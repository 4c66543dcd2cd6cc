--------------------------- MODULE ProjectCatalog ---------------------------
(***************************************************************************)
(* The Agent's catalog of Compose projects (agentprojects, discovery): a   *)
(* periodic rescan of the discovery roots that records what people changed *)
(* behind DockLattice's back, a rescan on request, the rescan of the boot, *)
(* and the targeted refresh that ends a managed operation.                 *)
(*                                                                         *)
(* A project is its directory.  A content is everything Compose reads for  *)
(* a project; FactsOf is what of it the Agent finds and hashes, and Compose*)
(* evaluates a content to a name (NoName: it refuses).  Where the graph of *)
(* sources is complete the facts decide the name.  Services, approvals and *)
(* the other results of an evaluation go wherever the name goes.  A        *)
(* directory is hashed in one step and evaluated in a later one.           *)
(***************************************************************************)
EXTENDS Naturals

CONSTANTS
    Projects,       \* the directories that may hold a project
    Contents,       \* what the files of a project may hold
    Facts,          \* sets of hashed files
    FactsOf,        \* FactsOf[c]: what discovery hashes of c
    NameOf,         \* NameOf[c]: the name Compose gives to c
    Complete,       \* facts whose source graph is complete
    IncludesOf,     \* IncludesOf[f]: directories the sources of f include
    Absent,         \* no Compose file in the directory
    NoFacts,        \* the facts of a directory without a project
    NoName,         \* the empty name
    NoEntry,        \* the catalog has no such project
    CatalogScenes   \* the files at first, the policies, and budgets: people's edits,
                    \* operations, scans, failures, restarts of the Agent,
                    \* and calls of the Server (lists, ones)

(* A complete graph holds every input of the evaluation; the names of       *)
(* nothing are none of the others.                                          *)
ASSUME ContentAssumption ==
    /\ FactsOf \in [Contents -> Facts]
    /\ \A c, d \in Contents : (FactsOf[c] = FactsOf[d] /\ FactsOf[c] \in Complete) => NameOf[c] = NameOf[d]
    /\ IncludesOf \in [Facts -> SUBSET Projects]
    /\ NoFacts \notin Facts
    /\ Absent \notin Contents

Policy == [runnable : SUBSET Projects, writable : SUBSET Projects]

(* A scene is a disk and the policies of its roots. *)
ASSUME SceneAssumption ==
    \A s \in CatalogScenes : s.files \in [Projects -> Contents \cup {Absent}] /\ s.policy \in Policy

VARIABLES
    files,      \* files[p]: what the directory p holds
    catalog,    \* Catalog.projects
    scanned,    \* Catalog.status: when the last scan was published, truncated or not
    walk,       \* the rescan or the targeted refresh that holds scanMu
    ops,        \* ops[p]: the managed operation on p
    done,       \* done[p]: the kinds of operation on p the Agent reports as successful
    containers, \* containers[p]: the project name on the containers started from p
    blocked,    \* projects whose restore could not be rolled back
    owed,       \* history: projects people changed since a scan last took them up
    origin,     \* history: the content an entry was hashed from, and whether
                \* Compose evaluated another one (torn)
    policy,     \* what the policies of the roots let run, and write to
    spare       \* budgets that remain

catalogVars == <<files, catalog, scanned, walk, ops, done, containers, blocked, owed, origin, policy, spare>>

Spends(b) == spare[b] > 0 /\ spare' = [spare EXCEPT ![b] = @ - 1]

Names == {NameOf[c] : c \in Contents} \cup {NoName}

Entry == [facts : Facts, name : Names, executable : BOOLEAN, complete : BOOLEAN, stale : BOOLEAN]

FactsIn(c) == IF c = Absent THEN NoFacts ELSE FactsOf[c]

CatalogFacts(p) == IF catalog[p] = NoEntry THEN NoFacts ELSE catalog[p].facts

(* externallyManaged *)
Managed(e) == e # NoEntry /\ ~e.stale /\ e.executable

(* Project: what an operation may use. *)
Available(p) == Managed(catalog[p]) /\ catalog[p].name # NoName

NoWalk == [kind |-> "none", left |-> {}, cut |-> FALSE, hashed |-> [p \in Projects |-> Absent],
           todo |-> {}, torn |-> {}, next |-> [p \in Projects |-> NoEntry]]

NoOp == [kind |-> "none", phase |-> "none", name |-> NoName]

Locked == walk.kind # "none"

(***************************************************************************)
(* A scan of the roots: discovery.Scanner.Scan and Catalog.rescan          *)
(***************************************************************************)

(* scanMu is taken.  The tick of the discovery loop compares and records;  *)
(* the operation discovery.rescan and the boot do not.                     *)
BeginScan(kind) ==
    /\ ~Locked
    /\ Spends("scans")
    /\ walk' = [NoWalk EXCEPT !.kind = kind, !.left = Projects]
    /\ UNCHANGED <<files, catalog, scanned, ops, done, containers, blocked, owed, origin, policy>>

(* The walk hashes the tracked files of one directory. *)
Visit(p) ==
    /\ p \in walk.left /\ ~walk.cut
    /\ walk' = [walk EXCEPT !.left = @ \ {p}, !.hashed = [@ EXCEPT ![p] = files[p]],
                            !.todo = IF files[p] = Absent THEN @ ELSE @ \cup {p}]
    /\ UNCHANGED <<files, catalog, scanned, ops, done, containers, blocked, owed, origin, policy, spare>>

(* A budget or an unreadable directory cuts the walk short. *)
Truncate ==
    /\ walk.left # {} /\ ~walk.cut
    /\ Spends("failures")
    /\ walk' = [walk EXCEPT !.cut = TRUE]
    /\ UNCHANGED <<files, catalog, scanned, ops, done, containers, blocked, owed, origin, policy>>

Walked == Locked /\ (walk.left = {} \/ walk.cut)

(* classifyEnvFileReferences and the source graph: nothing Compose reads is *)
(* missing from the facts.                                                  *)
GraphComplete(f) == f \in Complete

(* Mutant of Reusable: equal hashes are enough. *)
ReusableByHash(e, f) == e # NoEntry /\ e.facts = f /\ e.executable

(* The last evaluation stands for facts from which nothing is missing. *)
Reusable(e, f) == e # NoEntry /\ e.facts = f /\ e.executable /\ e.complete /\ GraphComplete(f)

(* What Compose makes of the project now: a name, or a refusal. *)
Evaluation(p, fails) == IF fails \/ files[p] = Absent THEN NoName ELSE NameOf[files[p]]

(* One project of rescan: not evaluated under a root that may not run it,  *)
(* the cached name for the facts it was made from, or Compose's answer.    *)
Scanned(p, fails) ==
    LET f == FactsOf[walk.hashed[p]]
        made(name, runs, complete) ==
            [facts |-> f, name |-> name, executable |-> runs, complete |-> complete, stale |-> FALSE]
    IN  CASE p \notin policy.runnable -> made(NoName, FALSE, TRUE)
          [] p \in policy.runnable /\ Reusable(catalog[p], f) -> made(catalog[p].name, TRUE, GraphComplete(f))
          [] OTHER -> made(Evaluation(p, fails), Evaluation(p, fails) # NoName, GraphComplete(f))

Asked(p) == p \in policy.runnable /\ ~Reusable(catalog[p], FactsOf[walk.hashed[p]])

Torn(p) == IF Asked(p) THEN files[p] # walk.hashed[p] ELSE origin[p].torn

(* A directory the walk has found is turned into an entry. *)
Evaluate(p) ==
    /\ Walked /\ p \in walk.todo /\ walk.kind # "one"
    /\ \E fails \in BOOLEAN :
        /\ IF fails THEN Asked(p) /\ Spends("failures") ELSE UNCHANGED spare
        /\ walk' = [walk EXCEPT !.todo = @ \ {p}, !.next = [@ EXCEPT ![p] = Scanned(p, fails)],
                                !.torn = IF Torn(p) THEN @ \cup {p} ELSE @]
    /\ UNCHANGED <<files, catalog, scanned, ops, done, containers, blocked, owed, origin, policy>>

(* A truncated walk proves nothing of what it did not reach. *)
NextCatalog ==
    [p \in Projects |->
        IF walk.next[p] = NoEntry /\ walk.cut /\ catalog[p] # NoEntry
        THEN [catalog[p] EXCEPT !.stale = TRUE, !.executable = FALSE]
        ELSE walk.next[p]]

(* externalConfigChanges: the managed projects of which other files are     *)
(* found, or nothing.                                                       *)
externalConfigChanges ==
    {p \in Projects :
        /\ Managed(catalog[p])
        /\ \/ NextCatalog[p] = NoEntry
           \/ NextCatalog[p] # NoEntry /\ ~NextCatalog[p].stale /\ NextCatalog[p].facts # catalog[p].facts}

(* A change of people that is not among those taken up is still owed, and   *)
(* one that is taken up is owed again where the files have moved on.        *)
OwedAfter(next, taken) ==
    {p \in owed : /\ Managed(next[p])
                  /\ (p \in taken \/ ~Managed(catalog[p])) => FactsIn(files[p]) # next[p].facts}

(* rescan ends: the changes are recorded first, and a record that fails     *)
(* leaves the catalog, and with it the comparison, as it was.               *)
PublishScan ==
    /\ Walked /\ walk.todo = {} /\ walk.kind \in {"periodic", "rescan", "boot"}
    /\ catalog' = NextCatalog
    /\ scanned' = [at |-> scanned.at + 1, cut |-> walk.cut]
    /\ origin' = [p \in Projects |->
                    IF walk.next[p] = NoEntry THEN origin[p]
                    ELSE [of |-> walk.hashed[p], torn |-> p \in walk.torn]]
    /\ owed' = OwedAfter(NextCatalog, IF walk.kind = "periodic" THEN externalConfigChanges ELSE Projects)
    /\ walk' = NoWalk
    /\ UNCHANGED <<files, ops, done, containers, blocked, policy, spare>>

(* The scan is canceled, a file changes under it, or the changes cannot be  *)
(* recorded: nothing is published.  The Agent does not boot without a scan. *)
AbandonScan ==
    /\ walk.kind \in {"periodic", "rescan"}
    /\ Spends("failures")
    /\ walk' = NoWalk
    /\ UNCHANGED <<files, catalog, scanned, ops, done, containers, blocked, owed, origin, policy>>

(***************************************************************************)
(* The end of a managed operation: Catalog.RescanProject                   *)
(***************************************************************************)

(* ScanProject hashes the one directory; a project that is gone, unknown or *)
(* stale fails the operation.                                               *)
BeginRefresh(p) ==
    /\ ops[p].phase = "ran" /\ ~Locked
    /\ IF catalog[p] = NoEntry \/ catalog[p].stale \/ files[p] = Absent
       THEN /\ ops' = [ops EXCEPT ![p] = NoOp]
            /\ UNCHANGED walk
       ELSE /\ walk' = [NoWalk EXCEPT !.kind = "one", !.todo = {p}, !.hashed = [@ EXCEPT ![p] = files[p]]]
            /\ UNCHANGED ops
    /\ UNCHANGED <<files, catalog, scanned, done, containers, blocked, owed, origin, policy, spare>>

(* projectFromFiles: under a root that may not run it the project keeps its *)
(* name.                                                                    *)
Refreshed(p) ==
    IF p \in policy.runnable THEN Scanned(p, FALSE) ELSE [Scanned(p, FALSE) EXCEPT !.name = catalog[p].name]

(* The entry is replaced, and the operation succeeds; an evaluation that    *)
(* fails leaves the entry and fails the operation.                          *)
PublishRefresh(p) ==
    /\ walk.kind = "one" /\ p \in walk.todo
    /\ \E fails \in BOOLEAN :
        /\ fails => Asked(p)
        /\ IF fails /\ Evaluation(p, FALSE) # NoName THEN Spends("failures") ELSE UNCHANGED spare
        /\ (~fails /\ Asked(p)) => Evaluation(p, FALSE) # NoName
        /\ IF fails
           THEN UNCHANGED <<catalog, done, owed, origin>>
           ELSE /\ catalog' = [catalog EXCEPT ![p] = Refreshed(p)]
                /\ done' = [done EXCEPT ![p] = @ \cup {ops[p].kind}]
                /\ owed' = OwedAfter(catalog', {p})
                /\ origin' = [origin EXCEPT ![p] = [of |-> walk.hashed[p], torn |-> Torn(p)]]
    /\ ops' = [ops EXCEPT ![p] = NoOp]
    /\ walk' = NoWalk
    /\ UNCHANGED <<files, scanned, containers, blocked, policy>>

(***************************************************************************)
(* Operations on a project, people, and the process                        *)
(***************************************************************************)

Serving == walk.kind # "boot"

(* StartOperation: the catalog must offer the project, and a write or a     *)
(* restore needs a writable root.  The operation keeps the name it finds.   *)
Accepts(p, kind) == Available(p) /\ (kind = "write" => p \in policy.writable)

StartOperation(p) ==
    /\ Serving /\ ops[p].phase = "sent"
    /\ ops' = [ops EXCEPT ![p] = IF Accepts(p, ops[p].kind)
                                 THEN [kind |-> ops[p].kind, phase |-> "taken", name |-> catalog[p].name]
                                 ELSE NoOp]
    /\ UNCHANGED <<files, catalog, scanned, walk, done, containers, blocked, owed, origin, policy, spare>>

(* run, for compose.up: the containers carry the name the operation keeps,  *)
(* also when Compose fails half way.                                        *)
RunUp(p) ==
    /\ ops[p].phase = "taken" /\ ops[p].kind = "up"
    /\ IF files[p] = Absent
       THEN ops' = [ops EXCEPT ![p] = NoOp] /\ UNCHANGED <<containers, spare>>
       ELSE /\ \/ ops' = [ops EXCEPT ![p].phase = "ran"] /\ UNCHANGED spare
               \/ ops' = [ops EXCEPT ![p] = NoOp] /\ Spends("failures")
            /\ containers' = [containers EXCEPT ![p] = ops[p].name]
    /\ UNCHANGED <<files, catalog, scanned, walk, done, blocked, owed, origin, policy>>

(* run, for a write or a restore, which a stuck restore forbids.  A restore *)
(* that fails and cannot be rolled back blocks the project (BackupRestore). *)
RunWrite(p) ==
    /\ ops[p].phase = "taken" /\ ops[p].kind = "write"
    /\ IF files[p] = Absent \/ p \in blocked
       THEN ops' = [ops EXCEPT ![p] = NoOp] /\ UNCHANGED <<files, owed, blocked, spare>>
       ELSE /\ \E c \in Contents :
                /\ files' = [files EXCEPT ![p] = c]
                /\ owed' = IF FactsIn(c) = CatalogFacts(p) THEN owed \ {p} ELSE owed
            /\ \/ ops' = [ops EXCEPT ![p].phase = "ran"] /\ UNCHANGED <<blocked, spare>>
               \/ ops' = [ops EXCEPT ![p] = NoOp] /\ blocked' = blocked \cup {p} /\ Spends("failures")
    /\ UNCHANGED <<catalog, scanned, walk, done, containers, origin, policy>>

(* People edit, add or remove the files of a project. *)
EditFiles(p) ==
    /\ Spends("edits")
    /\ \E c \in (Contents \cup {Absent}) \ {files[p]} :
        /\ files' = [files EXCEPT ![p] = c]
        /\ owed' = IF FactsIn(c) = CatalogFacts(p) THEN owed \ {p}
                   ELSE IF Managed(catalog[p]) THEN owed \cup {p} ELSE owed
    /\ UNCHANGED <<catalog, scanned, walk, ops, done, containers, blocked, origin, policy>>

ContainersGo(p) ==
    /\ containers[p] # NoName
    /\ Spends("edits")
    /\ containers' = [containers EXCEPT ![p] = NoName]
    /\ UNCHANGED <<files, catalog, scanned, walk, ops, done, blocked, owed, origin, policy>>

(* The Agent starts again; what it was running is interrupted.  Its journal *)
(* keeps what succeeded; the catalog is made anew before it serves, and the *)
(* recovery of a restore may now succeed.                                   *)
AgentStarts ==
    /\ Spends("restarts")
    /\ catalog' = [p \in Projects |-> NoEntry]
    /\ walk' = [NoWalk EXCEPT !.kind = "boot", !.left = Projects]
    /\ ops' = [p \in Projects |-> IF ops[p].phase = "sent" THEN ops[p] ELSE NoOp]
    /\ blocked' \in SUBSET blocked
    /\ owed' = {}
    /\ UNCHANGED <<files, scanned, done, containers, origin, policy>>

CatalogInit(scenes) ==
    \E s \in scenes :
        /\ files = s.files
        /\ catalog = [p \in Projects |-> NoEntry]
        /\ scanned = [at |-> 0, cut |-> FALSE]
        /\ walk = [NoWalk EXCEPT !.kind = "boot", !.left = Projects]
        /\ ops = [p \in Projects |-> NoOp]
        /\ done = [p \in Projects |-> {}]
        /\ containers = [p \in Projects |-> NoName]
        /\ blocked = {}
        /\ owed = {}
        /\ origin = [p \in Projects |-> [of |-> Absent, torn |-> FALSE]]
        /\ policy = s.policy
        /\ spare = s.spare

CatalogNext ==
    \/ \E kind \in {"periodic", "rescan"} : BeginScan(kind)
    \/ \E p \in Projects : Visit(p) \/ Evaluate(p)
    \/ Truncate \/ PublishScan \/ AbandonScan
    \/ \E p \in Projects : BeginRefresh(p) \/ PublishRefresh(p)
    \/ \E p \in Projects : StartOperation(p) \/ RunUp(p) \/ RunWrite(p)
    \/ \E p \in Projects : EditFiles(p) \/ ContainersGo(p)
    \/ AgentStarts

CatalogSpec == CatalogInit(CatalogScenes) /\ [][CatalogNext]_catalogVars

(***************************************************************************)
(* What is right in every state                                            *)
(***************************************************************************)

Walk == [kind : {"none", "periodic", "rescan", "boot", "one"}, left : SUBSET Projects, cut : BOOLEAN,
         hashed : [Projects -> Contents \cup {Absent}], todo : SUBSET Projects, torn : SUBSET Projects,
         next : [Projects -> Entry \cup {NoEntry}]]

Operation == [kind : {"none", "up", "write"}, phase : {"none", "sent", "taken", "ran"}, name : Names]

CatalogTypeOK ==
    /\ files \in [Projects -> Contents \cup {Absent}]
    /\ catalog \in [Projects -> Entry \cup {NoEntry}]
    /\ scanned \in [at : Nat, cut : BOOLEAN]
    /\ walk \in Walk
    /\ ops \in [Projects -> Operation]
    /\ done \in [Projects -> SUBSET {"up", "write"}]
    /\ containers \in [Projects -> Names]
    /\ blocked \in SUBSET Projects
    /\ owed \in SUBSET Projects
    /\ origin \in [Projects -> [of : Contents \cup {Absent}, torn : BOOLEAN]]
    /\ policy \in Policy

(* A change people made and no record tells of is still to be seen: the     *)
(* catalog has other facts than the disk (RescanForExternalChanges records  *)
(* before it publishes, and publishes nothing when it cannot record).       *)
ChangesStayVisible ==
    \A p \in owed : Managed(catalog[p]) => catalog[p].facts # FactsIn(files[p])

(* Unless the files changed between the hash and Compose's evaluation, the  *)
(* name of an executable project is the one Compose gives to the content    *)
(* that was hashed, cached or not (rescan, projectFromFiles).               *)
NamesAreRight ==
    \A p \in Projects : (Managed(catalog[p]) /\ ~origin[p].torn) =>
        (origin[p].of # Absent /\ catalog[p].name = NameOf[origin[p].of])

(* What validateProjectSnapshot demands of an entry. *)
ValidEntry(e) == (e.executable => e.name # NoName) /\ ~(e.stale /\ e.executable)

(* The catalog can be asked at any time, and what it answers passes the     *)
(* Server's strict validation.                                              *)
CatalogIsHonest ==
    /\ CatalogTypeOK
    /\ ChangesStayVisible
    /\ NamesAreRight
    /\ \A p \in Projects : catalog[p] # NoEntry => ValidEntry(catalog[p])
=============================================================================
