---------------------------- MODULE ProjectMirror ----------------------------
(***************************************************************************)
(* The Server's mirror of an Agent's projects (serverapi/projects.go), with *)
(* the Agent of ProjectCatalog.  The Server asks for the list of projects   *)
(* whenever the dashboard is read, and for one project when it learns that  *)
(* a managed change succeeded.  Answers of any number of requests may be    *)
(* merged late and in any order; a request that fails is one that is never  *)
(* answered, or whose answer is never merged.                               *)
(***************************************************************************)
EXTENDS ProjectCatalog

CONSTANTS
    NoRow,      \* the mirror has no such project
    NoItem,     \* the answer has no such project
    NoAnswer    \* the Agent has not answered

VARIABLES
    rows,       \* the table projects
    watermark,  \* agents.projects_scanned_at
    clock,      \* the Server's clock: when the last request was made
    lists,      \* requests for the list, under way
    ones        \* requests for one project, under way

mirrorVars == <<rows, watermark, clock, lists, ones>>

projectVars == <<catalogVars, mirrorVars>>

Present(r) == r # NoRow /\ ~r.missing

(* DriftStatus *)
DriftStatus(applied, current) ==
    IF applied = NoFacts THEN "no-baseline" ELSE IF applied = current THEN "in-sync" ELSE "changed"

(* projectReadOnly *)
projectReadOnly(r) ==
    ~r.managed \/ r.stale \/ ~r.executable \/ ~r.writable \/ r.collision \/ r.recovery

(***************************************************************************)
(* What the Agent answers: projectListResponse, projectResponse            *)
(***************************************************************************)

(* sourceGraphFacts: the directories of the include sources, where the      *)
(* project may run.                                                         *)
Includes(p, f) == IF p \in policy.runnable THEN IncludesOf[f] ELSE {}

(* projectResponse *)
ProjectItem(p) ==
    [managed |-> TRUE, name |-> catalog[p].name, current |-> catalog[p].facts,
     stale |-> catalog[p].stale, executable |-> catalog[p].executable,
     writable |-> p \in policy.writable, recovery |-> p \in blocked,
     includes |-> Includes(p, catalog[p].facts)]

(* projectmodel.Merge: containers whose directory holds no project are an   *)
(* unmanaged one.                                                           *)
ContainersItem(p) ==
    [managed |-> FALSE, name |-> containers[p], current |-> NoFacts, stale |-> FALSE,
     executable |-> FALSE, writable |-> FALSE, recovery |-> FALSE, includes |-> {}]

Items ==
    [p \in Projects |->
        CASE catalog[p] # NoEntry -> ProjectItem(p)
          [] catalog[p] = NoEntry /\ containers[p] # NoName -> ContainersItem(p)
          [] OTHER -> NoItem]

(***************************************************************************)
(* Merging an answer                                                       *)
(***************************************************************************)

(* What both merges make of an item: a stale one keeps the fingerprint and  *)
(* the drift the row had, and an empty name the name.                       *)
Merged(r, i, at, applied) ==
    LET kept == i.stale /\ r # NoRow
    IN  [name |-> IF r # NoRow /\ i.name = NoName THEN r.name ELSE i.name,
         managed |-> i.managed, stale |-> i.stale, executable |-> i.executable,
         writable |-> i.writable, recovery |-> i.recovery, missing |-> FALSE, collision |-> FALSE,
         current |-> IF kept THEN r.current ELSE i.current,
         applied |-> applied,
         drift |-> IF kept THEN r.drift ELSE DriftStatus(applied, i.current),
         observed |-> at, includes |-> i.includes, includedBy |-> {}, readOnly |-> FALSE]

(* markNameCollisions, over the answer *)
NameCollision(items, p) ==
    items[p].name # NoName /\ \E q \in Projects \ {p} : items[q] # NoItem /\ items[q].name = items[p].name

Locks(r, collision) == [r EXCEPT !.collision = collision,
                                 !.readOnly = projectReadOnly([r EXCEPT !.collision = collision])]

(* Mutant of ListRow: the collision found in the answer is not stored. *)
ListRowUnflagged(p, items, at) ==
    Locks(Merged(rows[p], items[p], at, IF rows[p] = NoRow THEN NoFacts ELSE rows[p].applied), FALSE)

(* One project of mergeProjectSnapshotWithDockerObserved *)
ListRow(p, items, at) ==
    LET r == rows[p]
        m == Merged(r, items[p], at, IF r = NoRow THEN NoFacts ELSE r.applied)
    IN  Locks(IF r # NoRow /\ items[p].stale /\ r.name # NoName THEN [m EXCEPT !.name = r.name] ELSE m,
              NameCollision(items, p))

(* Mutant of MissingRow: the row is not locked. *)
MissingRowOpen(r) == [r EXCEPT !.missing = TRUE, !.stale = TRUE, !.collision = FALSE,
                               !.executable = FALSE, !.writable = FALSE, !.includedBy = {}]

(* A project that is not in a complete list *)
MissingRow(r) == [r EXCEPT !.missing = TRUE, !.stale = TRUE, !.readOnly = TRUE, !.collision = FALSE,
                           !.executable = FALSE, !.writable = FALSE, !.includedBy = {}]

(* reconcileProjectIncludeRelations *)
Parents(rs, p) ==
    IF ~Present(rs[p]) THEN {} ELSE {q \in Projects \ {p} : Present(rs[q]) /\ p \in rs[q].includes}

WithIncludes(rs) ==
    [p \in Projects |-> IF rs[p] = NoRow THEN NoRow ELSE [rs[p] EXCEPT !.includedBy = Parents(rs, p)]]

(* reconcileTargetedProjectCollisions *)
Collides(rs, p) ==
    /\ Present(rs[p]) /\ rs[p].name # NoName
    /\ \E q \in Projects \ {p} : Present(rs[q]) /\ rs[q].name = rs[p].name

WithCollisions(rs) ==
    [p \in Projects |-> IF rs[p] = NoRow THEN NoRow ELSE Locks(rs[p], Collides(rs, p))]

(* Mutant of Newer: every answer is taken to be newer. *)
NewerAnyway(p, at) == TRUE

(* isNewerProjectObservation *)
Newer(p, at) == rows[p] = NoRow \/ at > rows[p].observed

(***************************************************************************)
(* The Server                                                              *)
(***************************************************************************)

(* syncAgentProjects notes the time, then asks. *)
AskList ==
    /\ Spends("lists")
    /\ clock' = clock + 1
    /\ lists' = lists \cup {[at |-> clock', answer |-> NoAnswer]}
    /\ UNCHANGED <<files, catalog, scanned, walk, ops, done, containers, blocked, owed, origin, policy>>
    /\ UNCHANGED <<rows, watermark, ones>>

AnswerList(l) ==
    /\ l.answer = NoAnswer /\ Serving
    /\ lists' = (lists \ {l}) \cup {[l EXCEPT !.answer = [items |-> Items, at |-> scanned.at, cut |-> scanned.cut]]}
    /\ UNCHANGED <<catalogVars, rows, watermark, clock, ones>>

(* mergeProjectSnapshotWithDockerObserved: equal or older scans change      *)
(* nothing; a row of a later request stays; a complete scan tells what is   *)
(* missing.                                                                 *)
AfterList(l) ==
    LET items == l.answer.items
        seen(p) == items[p] # NoItem
    IN  WithIncludes([p \in Projects |->
            CASE seen(p) /\ Newer(p, l.at) -> ListRow(p, items, l.at)
              [] ~seen(p) /\ ~l.answer.cut /\ rows[p] # NoRow -> MissingRow(rows[p])
              [] OTHER -> rows[p]])

MergeList(l) ==
    /\ l.answer # NoAnswer
    /\ lists' = lists \ {l}
    /\ IF l.answer.at > watermark
       THEN watermark' = l.answer.at /\ rows' = AfterList(l)
       ELSE UNCHANGED <<watermark, rows>>
    /\ UNCHANGED <<catalogVars, clock, ones>>

(* mergeAndSyncOperation: an operation is looked at, or canceled, and the   *)
(* Agent reports that it succeeded.  compose.up sets the baseline.          *)
AskOne(p) ==
    /\ Spends("ones")
    /\ clock' = clock + 1
    /\ \E kind \in done[p] :
        ones' = ones \cup {[project |-> p, at |-> clock', baseline |-> (kind = "up"), answer |-> NoAnswer]}
    /\ UNCHANGED <<files, catalog, scanned, walk, ops, done, containers, blocked, owed, origin, policy>>
    /\ UNCHANGED <<rows, watermark, lists>>

AnswerOne(o) ==
    /\ o.answer = NoAnswer /\ Serving
    /\ catalog[o.project] # NoEntry
    /\ ones' = (ones \ {o}) \cup {[o EXCEPT !.answer = ProjectItem(o.project)]}
    /\ UNCHANGED <<catalogVars, rows, watermark, clock, lists>>

(* mergeTargetedProjectSnapshotObserved.  Docker's part of the row stays,   *)
(* and the note of a stuck restore is not copied.                           *)
AfterOne(o) ==
    LET r == rows[o.project]
        i == [o.answer EXCEPT !.managed = r.managed, !.recovery = FALSE]
        m == Merged(r, i, o.at, IF o.baseline THEN i.current ELSE r.applied)
    IN  WithCollisions(WithIncludes([rows EXCEPT ![o.project] = m]))

MergeOne(o) ==
    /\ o.answer # NoAnswer
    /\ ones' = ones \ {o}
    /\ IF rows[o.project] = NoRow \/ (o.baseline /\ (o.answer.stale \/ ~o.answer.executable))
       THEN UNCHANGED rows
       ELSE rows' = AfterOne(o)
    /\ UNCHANGED <<catalogVars, watermark, clock, lists>>

(* authorizeOperationTarget, projectAccess: a project that may be changed   *)
(* is sent an operation.                                                    *)
MayChange(r) == r # NoRow /\ ~r.readOnly /\ ~r.collision

Submit(p) ==
    /\ MayChange(rows[p]) /\ ops[p] = NoOp
    /\ Spends("ops")
    /\ \E kind \in {"up", "write"} : ops' = [ops EXCEPT ![p] = [kind |-> kind, phase |-> "sent", name |-> NoName]]
    /\ UNCHANGED <<files, catalog, scanned, walk, done, containers, blocked, owed, origin, policy>>
    /\ UNCHANGED mirrorVars

MirrorInit(scenes) ==
    /\ CatalogInit(scenes)
    /\ rows = [p \in Projects |-> NoRow]
    /\ watermark = 0 /\ clock = 0
    /\ lists = {} /\ ones = {}

MirrorNext ==
    \/ CatalogNext /\ UNCHANGED mirrorVars
    \/ AskList
    \/ \E l \in lists : AnswerList(l) \/ MergeList(l)
    \/ \E p \in Projects : AskOne(p) \/ Submit(p)
    \/ \E o \in ones : AnswerOne(o) \/ MergeOne(o)

MirrorSpec == MirrorInit(CatalogScenes) /\ [][MirrorNext]_projectVars

(***************************************************************************)
(* What is right                                                           *)
(***************************************************************************)

FactsOrNone == Facts \cup {NoFacts}

Item == [managed : BOOLEAN, name : Names, current : FactsOrNone, stale : BOOLEAN, executable : BOOLEAN,
         writable : BOOLEAN, recovery : BOOLEAN, includes : SUBSET Projects]

Row == [name : Names, managed : BOOLEAN, stale : BOOLEAN, executable : BOOLEAN, writable : BOOLEAN,
        recovery : BOOLEAN, missing : BOOLEAN, collision : BOOLEAN, current : FactsOrNone,
        applied : FactsOrNone, drift : {"no-baseline", "in-sync", "changed"}, observed : Nat,
        includes : SUBSET Projects, includedBy : SUBSET Projects, readOnly : BOOLEAN]

(* No row and no item are none of the others. *)
ASSUME RowAssumption == NoRow \notin Row /\ NoItem \notin Item

ListAnswer == [items : [Projects -> Item \cup {NoItem}], at : Nat, cut : BOOLEAN]

MirrorTypeOK ==
    /\ rows \in [Projects -> Row \cup {NoRow}]
    /\ watermark \in Nat /\ clock \in Nat
    /\ lists \in SUBSET [at : Nat, answer : ListAnswer \cup {NoAnswer}]
    /\ ones \in SUBSET [project : Projects, at : Nat, baseline : BOOLEAN, answer : Item \cup {NoAnswer}]

(* A row whose parts agree, whichever answers were merged and in whatever   *)
(* order: the drift shown is that of the two fingerprints shown; only a     *)
(* present, managed, executable project can be changed, and a project that  *)
(* is not in the last complete list cannot; a baseline is the work of a     *)
(* compose.up that succeeded, of an executable project; the lines from      *)
(* parent to child are those of the present rows.                           *)
RowIsConsistent(p) ==
    LET r == rows[p]
    IN  /\ r.drift = DriftStatus(r.applied, r.current)
        /\ r.readOnly = projectReadOnly(r)
        /\ r.missing => (r.readOnly /\ ~r.collision)
        /\ MayChange(r) => (Present(r) /\ r.managed /\ r.executable /\ r.name # NoName /\ r.current # NoFacts)
        /\ r.applied # NoFacts => "up" \in done[p]
        /\ r.includedBy = Parents(rows, p)

(* The mirror never shows a row that contradicts itself or the other rows   *)
(* (mergeProjectSnapshotWithDockerObserved, the targeted merge and its      *)
(* reconciliations).                                                        *)
MirrorIsConsistent == MirrorTypeOK /\ \A p \in Projects : rows[p] # NoRow => RowIsConsistent(p)

(* A list may not touch what it is older than: a row of a later request     *)
(* keeps its name, fingerprints and locks unless the project is gone.       *)
ListsRespectOrder ==
    \A p \in Projects : rows[p] # NoRow =>
        /\ rows'[p].applied = rows[p].applied
        /\ rows'[p].observed >= rows[p].observed
        /\ (rows'[p].observed = rows[p].observed /\ ~rows'[p].missing) =>
             rows'[p] = [rows[p] EXCEPT !.includedBy = rows'[p].includedBy]

(* Scans are taken up in order and rows never vanish; a list never sets a   *)
(* baseline nor undoes the answer of a later request; and a baseline only   *)
(* ever becomes the fingerprint the row shows ("Equal or older Agent        *)
(* snapshots never roll the mirror back").                                  *)
MirrorMovesForward ==
    [][ /\ watermark' >= watermark
        /\ \A p \in Projects : rows[p] # NoRow =>
             /\ rows'[p] # NoRow
             /\ rows'[p].applied # rows[p].applied =>
                  (rows'[p].applied = rows'[p].current /\ rows'[p].executable)
        /\ watermark' # watermark => ListsRespectOrder ]_projectVars

(* What the rows should say of the Agent as it is now. *)
Shows(r, p) ==
    IF Items[p] = NoItem THEN r # NoRow => r.missing
    ELSE /\ Present(r)
         /\ r.managed = Items[p].managed
         /\ r.executable = Items[p].executable /\ r.recovery = Items[p].recovery
         /\ Items[p].name # NoName /\ ~Items[p].stale => r.name = Items[p].name
         /\ ~Items[p].stale => r.current = Items[p].current

Same(p, q) == p # q /\ Items[p] # NoItem /\ Items[q] # NoItem /\ Items[p].name = Items[q].name

(* When the Server merges a complete list that it asked for after every     *)
(* answer it holds, and the Agent has not moved since, the mirror is right: *)
(* every project and no other is shown as it is, and of two projects with   *)
(* one name neither can be changed, whatever went before.                   *)
FreshListHeals ==
    [][ (watermark' # watermark /\ \E l \in lists \ lists' :
            /\ l.answer = [items |-> Items, at |-> scanned.at, cut |-> FALSE]
            /\ \A p \in Projects : Newer(p, l.at))
        => /\ \A p \in Projects : Shows(rows'[p], p)
           /\ \A p, q \in Projects : (Same(p, q) /\ Items[p].name # NoName) => ~MayChange(rows'[p])
      ]_projectVars

(* Two projects of one name, both present and executable, are both flagged  *)
(* ("flags both projects and blocks mutating operations",                   *)
(* docs/concepts.md).                                                       *)
CollisionsFlagged ==
    \A p, q \in Projects :
        (p # q /\ Present(rows[p]) /\ Present(rows[q]) /\ rows[p].executable /\ rows[q].executable
            /\ rows[p].name = rows[q].name) => rows[p].collision /\ rows[q].collision
=============================================================================
