------------------------- MODULE ProjectMirrorProofs -------------------------
(***************************************************************************)
(* Proofs about the catalog of projects and its mirror: that no change     *)
(* slips past the record and cached names are right (CatalogIsHonest),     *)
(* that the rows of the mirror agree with themselves and with each other   *)
(* (MirrorIsConsistent), that late answers roll nothing back               *)
(* (MirrorMovesForward), and that a fresh list makes the mirror right      *)
(* (FreshListHeals); for any number of projects, contents and requests.    *)
(***************************************************************************)
EXTENDS ProjectMirror, TLAPS

(* Most leaves are first-order; the ones that need arithmetic or updates    *)
(* of functions and records cite SMT.                                       *)
USE Zenon

(***************************************************************************)
(* The invariants                                                          *)
(***************************************************************************)

(* The facts of an entry are those of the content it was hashed from, and   *)
(* unless Compose evaluated another content the name is the one of it.      *)
Honest(e, of, torn) ==
    /\ ValidEntry(e)
    /\ e.executable => (of \in Contents /\ e.facts = FactsOf[of] /\ (~torn => e.name = NameOf[of]))

CatalogInv == \A p \in Projects : catalog[p] # NoEntry => Honest(catalog[p], origin[p].of, origin[p].torn)

(* While scanMu is held: what is still to be evaluated was found, nothing   *)
(* is evaluated before the walk ends, the entries made are honest, and a    *)
(* targeted refresh belongs to an operation that ran on a known project.    *)
WalkInv ==
    /\ \A p \in walk.todo : walk.hashed[p] \in Contents /\ p \notin walk.left
    /\ \A p \in Projects : walk.next[p] # NoEntry =>
         /\ walk.left = {} \/ walk.cut
         /\ walk.hashed[p] \in Contents
         /\ Honest(walk.next[p], walk.hashed[p], p \in walk.torn)
    /\ walk.kind = "one" => /\ walk.left = {}
                            /\ \A p \in walk.todo : catalog[p] # NoEntry /\ ops[p].phase = "ran"

OpsInv == \A p \in Projects : ops[p].phase # "none" => ops[p].kind # "none"

(* An executable project has a name and facts, in an item and in a row; a   *)
(* missing row is stale and cannot be executed.                             *)
Runs(r) == r.executable => (r.name # NoName /\ ~r.stale /\ r.current # NoFacts)

RowInv == \A p \in Projects : rows[p] # NoRow =>
    /\ Runs(rows[p])
    /\ rows[p].missing => (rows[p].stale /\ ~rows[p].executable)

AnswerInv ==
    /\ \A l \in lists : l.answer # NoAnswer =>
         \A p \in Projects : l.answer.items[p] # NoItem => Runs(l.answer.items[p])
    /\ \A o \in ones : /\ o.baseline => "up" \in done[o.project]
                       /\ o.answer # NoAnswer => Runs(o.answer)

AgentInv == CatalogTypeOK /\ ChangesStayVisible /\ CatalogInv /\ WalkInv /\ OpsInv

ServerInv == MirrorIsConsistent /\ RowInv /\ AnswerInv

ProjectInv == AgentInv /\ ServerInv

DoneGrows == \A p \in Projects : done[p] \subseteq done'[p]

(***************************************************************************)
(* The catalog: one lemma per action                                       *)
(***************************************************************************)

(* What an evaluation makes of a directory that was found, cached or not:   *)
(* an honest entry (rescan, projectFromFiles).                              *)
LEMMA ScannedHonest ==
    ASSUME AgentInv, NEW p \in walk.todo, NEW fails \in BOOLEAN
    PROVE  /\ Scanned(p, fails) \in Entry
           /\ ~Scanned(p, fails).stale
           /\ Scanned(p, fails).facts = FactsOf[walk.hashed[p]]
           /\ p \notin policy.runnable => ~Scanned(p, fails).executable
           /\ Honest(Scanned(p, fails), walk.hashed[p], Torn(p))
<1> DEFINE f == FactsOf[walk.hashed[p]]
<1>1. p \in Projects /\ walk.hashed[p] \in Contents /\ f \in Facts /\ policy.runnable \in SUBSET Projects
  BY ContentAssumption DEF AgentInv, CatalogTypeOK, Walk, WalkInv, Policy
<1>2. GraphComplete(f) \in BOOLEAN
  BY SMT DEF GraphComplete
<1>3. files[p] # Absent => files[p] \in Contents
  BY <1>1 DEF AgentInv, CatalogTypeOK
<1>4. Evaluation(p, fails) \in Names
  BY <1>3 DEF Evaluation, Names
<1>5. CASE p \notin policy.runnable
  <2>1. Scanned(p, fails) = [facts |-> f, name |-> NoName, executable |-> FALSE, complete |-> TRUE, stale |-> FALSE]
    BY <1>5, SMT DEF Scanned
  <2>2. NoName \in Names /\ TRUE \in BOOLEAN /\ FALSE \in BOOLEAN
    BY DEF Names
  <2>3. /\ Scanned(p, fails) \in Entry /\ Scanned(p, fails).facts = f
        /\ Scanned(p, fails).executable = FALSE /\ ~Scanned(p, fails).stale
    BY <2>1, <2>2, <1>1, SMT DEF Entry
  <2> QED
    BY <2>3, <1>5 DEF Honest, ValidEntry
<1>6. CASE p \in policy.runnable /\ Reusable(catalog[p], f)
  <2>1. Scanned(p, fails) = [facts |-> f, name |-> catalog[p].name, executable |-> TRUE,
                             complete |-> GraphComplete(f), stale |-> FALSE]
    BY <1>6, SMT DEF Scanned
  <2>2. /\ catalog[p] # NoEntry /\ catalog[p].executable /\ catalog[p].facts = f /\ f \in Complete
        /\ catalog[p] \in Entry
    BY <1>6, <1>1 DEF Reusable, GraphComplete, AgentInv, CatalogTypeOK
  <2>3. Honest(catalog[p], origin[p].of, origin[p].torn)
    BY <2>2, <1>1 DEF AgentInv, CatalogInv
  <2>4. Torn(p) = origin[p].torn
    BY <1>6 DEF Torn, Asked
  <2>5. ~origin[p].torn => catalog[p].name = NameOf[walk.hashed[p]]
    BY <2>2, <2>3, <1>1, ContentAssumption DEF Honest
  <2>6. catalog[p].name \in Names /\ catalog[p].name # NoName
    BY <2>2, <2>3 DEF Entry, Honest, ValidEntry
  <2>7. /\ Scanned(p, fails) \in Entry /\ Scanned(p, fails).facts = f
        /\ Scanned(p, fails).name = catalog[p].name /\ ~Scanned(p, fails).stale
    BY <2>1, <2>6, <1>1, <1>2, SMT DEF Entry
  <2> QED
    BY <2>4, <2>5, <2>6, <2>7, <1>1, <1>6 DEF Honest, ValidEntry
<1>7. CASE p \in policy.runnable /\ ~Reusable(catalog[p], f)
  <2>1. Scanned(p, fails) = [facts |-> f, name |-> Evaluation(p, fails), executable |-> Evaluation(p, fails) # NoName,
                             complete |-> GraphComplete(f), stale |-> FALSE]
    BY <1>7, SMT DEF Scanned
  <2>2. Torn(p) = (files[p] # walk.hashed[p])
    BY <1>7 DEF Torn, Asked
  <2>3. (~Torn(p) /\ Evaluation(p, fails) # NoName) => Evaluation(p, fails) = NameOf[walk.hashed[p]]
    BY <2>2 DEF Evaluation
  <2>4. (Evaluation(p, fails) # NoName) \in BOOLEAN
    OBVIOUS
  <2>5. /\ Scanned(p, fails) \in Entry /\ Scanned(p, fails).facts = f
        /\ Scanned(p, fails).name = Evaluation(p, fails) /\ ~Scanned(p, fails).stale
        /\ Scanned(p, fails).executable = (Evaluation(p, fails) # NoName)
    BY <2>1, <2>4, <1>1, <1>2, <1>4, SMT DEF Entry
  <2> QED
    BY <2>3, <2>5, <1>1, <1>7 DEF Honest, ValidEntry
<1> QED
  BY <1>5, <1>6, <1>7

(* A walk that begins, or that is over, has made and found nothing.         *)
LEMMA IdleWalk ==
    NoWalk \in Walk /\ NoWalk.kind = "none" /\ NoWalk.todo = {} /\ \A p \in Projects : NoWalk.next[p] = NoEntry
<1>1. [p \in Projects |-> Absent] \in [Projects -> Contents \cup {Absent}]
  OBVIOUS
<1>2. [p \in Projects |-> NoEntry] \in [Projects -> Entry \cup {NoEntry}]
  OBVIOUS
<1>3. {} \in SUBSET Projects
  OBVIOUS
<1> QED
  BY <1>1, <1>2, <1>3 DEF NoWalk, Walk

(* The same for a walk that holds scanMu. *)
LEMMA FreshWalk ==
    ASSUME NEW k \in {"none", "periodic", "rescan", "boot"}, NEW w,
           w = [NoWalk EXCEPT !.kind = k, !.left = Projects]
    PROVE  w \in Walk /\ w.kind = k /\ w.todo = {} /\ \A p \in Projects : w.next[p] = NoEntry
<1>1. Projects \in SUBSET Projects /\ k \in {"none", "periodic", "rescan", "boot", "one"}
  OBVIOUS
<1>2. w \in Walk
  BY <1>1, IdleWalk DEF Walk
<1>3. w.kind = k /\ w.todo = NoWalk.todo /\ w.next = NoWalk.next
  BY IdleWalk, SMT DEF Walk
<1> QED
  BY <1>2, <1>3, IdleWalk

(* What leaves the catalog and the files alone. *)
LEMMA CatalogStands ==
    ASSUME AgentInv, UNCHANGED <<files, catalog, origin, owed, done>>
    PROVE  ChangesStayVisible' /\ CatalogInv' /\ DoneGrows
  BY DEF AgentInv, ChangesStayVisible, CatalogInv, DoneGrows, Managed, FactsIn, Honest, ValidEntry

(* scanMu is taken (rescan). *)
LEMMA BeginScanKeeps ==
    ASSUME AgentInv, NEW kind \in {"periodic", "rescan"}, BeginScan(kind)
    PROVE  AgentInv' /\ DoneGrows
<1> USE DEF BeginScan
<1>1. walk' \in Walk /\ walk'.kind = kind /\ walk'.todo = {} /\ \A p \in Projects : walk'.next[p] = NoEntry
  <2>1. kind \in {"none", "periodic", "rescan", "boot"}
    OBVIOUS
  <2> QED
    BY <2>1, FreshWalk
<1>2. CatalogTypeOK'
  BY <1>1 DEF AgentInv, CatalogTypeOK
<1>3. ChangesStayVisible' /\ CatalogInv' /\ OpsInv' /\ DoneGrows
  BY CatalogStands DEF AgentInv, OpsInv
<1>4. WalkInv'
  BY <1>1 DEF WalkInv
<1> QED
  BY <1>2, <1>3, <1>4 DEF AgentInv

(* One directory is hashed (Scanner.Scan). *)
LEMMA VisitKeeps ==
    ASSUME AgentInv, NEW p \in Projects, Visit(p)
    PROVE  AgentInv' /\ DoneGrows
<1> USE DEF Visit
<1>1. walk \in Walk /\ walk.todo \in SUBSET Projects /\ walk.hashed \in [Projects -> Contents \cup {Absent}]
  BY DEF AgentInv, CatalogTypeOK, Walk
<1>2. files[p] \in Contents \cup {Absent}
  BY DEF AgentInv, CatalogTypeOK
<1>21. /\ walk.left \ {p} \in SUBSET Projects
      /\ [walk.hashed EXCEPT ![p] = files[p]] \in [Projects -> Contents \cup {Absent}]
      /\ (IF files[p] = Absent THEN walk.todo ELSE walk.todo \cup {p}) \in SUBSET Projects
  BY <1>1, <1>2 DEF Walk
<1>22. walk' \in Walk
  BY <1>1, <1>21 DEF Walk
<1>3. /\ walk'.kind = walk.kind /\ walk'.torn = walk.torn /\ walk'.next = walk.next
      /\ walk'.hashed = [walk.hashed EXCEPT ![p] = files[p]] /\ walk'.left = walk.left \ {p}
      /\ walk'.todo = IF files[p] = Absent THEN walk.todo ELSE walk.todo \cup {p}
  BY <1>1, <1>2, SMT DEF Walk
<1>4. \A q \in Projects : walk'.hashed[q] = IF q = p THEN files[p] ELSE walk.hashed[q]
  BY <1>1, <1>3, SMT
<1>5. \A q \in Projects : walk.next[q] = NoEntry
  BY DEF AgentInv, WalkInv
<1>6. CatalogTypeOK'
  BY <1>22 DEF AgentInv, CatalogTypeOK
<1>7. ChangesStayVisible' /\ CatalogInv' /\ OpsInv' /\ DoneGrows
  BY CatalogStands DEF AgentInv, OpsInv
<1>8. walk.kind # "one"
  BY DEF AgentInv, WalkInv
<1>9. \A q \in walk'.todo : walk'.hashed[q] \in Contents /\ q \notin walk'.left
  <2> SUFFICES ASSUME NEW q \in walk'.todo PROVE walk'.hashed[q] \in Contents /\ q \notin walk'.left
    OBVIOUS
  <2>1. CASE q = p /\ files[p] # Absent
    BY <2>1, <1>2, <1>3, <1>4
  <2>2. CASE ~(q = p /\ files[p] # Absent)
    <3>1. q \in walk.todo /\ q \in Projects
      BY <2>2, <1>1, <1>3, SMT
    <3>2. walk.hashed[q] \in Contents /\ q \notin walk.left
      BY <3>1 DEF AgentInv, WalkInv
    <3> QED
      BY <3>1, <3>2, <1>3, <1>4
  <2> QED
    BY <2>1, <2>2
<1> QED
  BY <1>3, <1>5, <1>6, <1>7, <1>8, <1>9 DEF AgentInv, WalkInv

(* The walk is cut short (finish). *)
LEMMA TruncateKeeps ==
    ASSUME AgentInv, Truncate
    PROVE  AgentInv' /\ DoneGrows
<1> USE DEF Truncate
<1>1. walk \in Walk
  BY DEF AgentInv, CatalogTypeOK
<1>2. walk' \in Walk
  BY <1>1 DEF Walk
<1>3. /\ walk'.kind = walk.kind /\ walk'.torn = walk.torn /\ walk'.next = walk.next
      /\ walk'.hashed = walk.hashed /\ walk'.left = walk.left /\ walk'.todo = walk.todo
  BY <1>1, SMT DEF Walk
<1>4. \A q \in Projects : walk.next[q] = NoEntry
  BY DEF AgentInv, WalkInv
<1>5. CatalogTypeOK'
  BY <1>2 DEF AgentInv, CatalogTypeOK
<1>6. ChangesStayVisible' /\ CatalogInv' /\ OpsInv' /\ DoneGrows
  BY CatalogStands DEF AgentInv, OpsInv
<1>7. WalkInv'
  BY <1>3, <1>4 DEF AgentInv, WalkInv
<1> QED
  BY <1>5, <1>6, <1>7 DEF AgentInv

(* A directory becomes an entry (rescan). *)
LEMMA EvaluateKeeps ==
    ASSUME AgentInv, NEW p \in Projects, Evaluate(p)
    PROVE  AgentInv' /\ DoneGrows
<1>1. PICK fails \in BOOLEAN :
        walk' = [walk EXCEPT !.todo = @ \ {p}, !.next = [@ EXCEPT ![p] = Scanned(p, fails)],
                             !.torn = IF Torn(p) THEN @ \cup {p} ELSE @]
  BY DEF Evaluate
<1>2. /\ Walked /\ p \in walk.todo /\ walk.kind # "one"
      /\ UNCHANGED <<files, catalog, scanned, ops, done, containers, blocked, owed, origin, policy>>
  BY DEF Evaluate
<1>3. walk \in Walk /\ walk.next \in [Projects -> Entry \cup {NoEntry}] /\ walk.torn \in SUBSET Projects
  BY DEF AgentInv, CatalogTypeOK, Walk
<1>4. Scanned(p, fails) \in Entry /\ Honest(Scanned(p, fails), walk.hashed[p], Torn(p))
  BY <1>2, ScannedHonest
<1>5. /\ walk.todo \ {p} \in SUBSET Projects
      /\ [walk.next EXCEPT ![p] = Scanned(p, fails)] \in [Projects -> Entry \cup {NoEntry}]
      /\ (IF Torn(p) THEN walk.torn \cup {p} ELSE walk.torn) \in SUBSET Projects
  BY <1>3, <1>4 DEF Walk
<1>6. walk' \in Walk
  BY <1>1, <1>3, <1>5 DEF Walk
<1>7. /\ walk'.kind = walk.kind /\ walk'.hashed = walk.hashed /\ walk'.left = walk.left /\ walk'.cut = walk.cut
      /\ walk'.todo = walk.todo \ {p}
      /\ walk'.next = [walk.next EXCEPT ![p] = Scanned(p, fails)]
      /\ walk'.torn = IF Torn(p) THEN walk.torn \cup {p} ELSE walk.torn
  BY <1>1, <1>3, SMT DEF Walk
<1>8. \A q \in Projects : walk'.next[q] = IF q = p THEN Scanned(p, fails) ELSE walk.next[q]
  BY <1>3, <1>7, SMT
<1>9. CatalogTypeOK'
  BY <1>2, <1>6 DEF AgentInv, CatalogTypeOK
<1>10. ChangesStayVisible' /\ CatalogInv' /\ OpsInv' /\ DoneGrows
  BY <1>2, CatalogStands DEF AgentInv, OpsInv
<1>11. WalkInv'
  <2>1. \A q \in walk'.todo : walk'.hashed[q] \in Contents /\ q \notin walk'.left
    BY <1>7 DEF AgentInv, WalkInv
  <2>2. ASSUME NEW q \in Projects, walk'.next[q] # NoEntry
        PROVE  /\ walk'.left = {} \/ walk'.cut
               /\ walk'.hashed[q] \in Contents
               /\ Honest(walk'.next[q], walk'.hashed[q], q \in walk'.torn)
    <3>1. CASE q = p
      <4>1. walk'.next[q] = Scanned(p, fails) /\ walk'.hashed[q] = walk.hashed[p]
        BY <3>1, <1>7, <1>8
      <4>2. Torn(p) => q \in walk'.torn
        BY <3>1, <1>7, SMT
      <4>3. walk.hashed[p] \in Contents
        BY <1>2 DEF AgentInv, WalkInv
      <4> QED
        BY <4>1, <4>2, <4>3, <1>2, <1>4, <1>7 DEF Honest, Walked
    <3>2. CASE q # p
      <4>1. walk'.next[q] = walk.next[q] /\ walk'.hashed[q] = walk.hashed[q] /\ ((q \in walk.torn) => (q \in walk'.torn))
        BY <3>2, <1>7, <1>8, SMT
      <4>2. Honest(walk.next[q], walk.hashed[q], q \in walk.torn) /\ walk.hashed[q] \in Contents
        BY <4>1, <2>2 DEF AgentInv, WalkInv
      <4> QED
        BY <4>1, <4>2, <1>2, <1>7 DEF Honest, Walked
    <3> QED
      BY <3>1, <3>2
  <2> QED
    BY <2>1, <2>2, <1>2, <1>7 DEF WalkInv
<1> QED
  BY <1>9, <1>10, <1>11 DEF AgentInv

(* The scan is published, after its changes were recorded (rescan).         *)
LEMMA PublishScanKeeps ==
    ASSUME AgentInv, PublishScan
    PROVE  AgentInv' /\ DoneGrows
<1>1. /\ walk.kind \in {"periodic", "rescan", "boot"} /\ catalog' = NextCatalog /\ walk' = NoWalk
      /\ origin' = [p \in Projects |-> IF walk.next[p] = NoEntry THEN origin[p]
                                       ELSE [of |-> walk.hashed[p], torn |-> p \in walk.torn]]
      /\ scanned' = [at |-> scanned.at + 1, cut |-> walk.cut]
      /\ owed' = OwedAfter(NextCatalog, IF walk.kind = "periodic" THEN externalConfigChanges ELSE Projects)
      /\ UNCHANGED <<files, ops, done, containers, blocked, policy>>
  BY DEF PublishScan
<1>2. walk \in Walk /\ walk.cut \in BOOLEAN /\ walk.next \in [Projects -> Entry \cup {NoEntry}]
      /\ walk.hashed \in [Projects -> Contents \cup {Absent}]
  BY DEF AgentInv, CatalogTypeOK, Walk
<1>3. \A p \in Projects :
        /\ catalog[p] \in Entry \cup {NoEntry} /\ walk.next[p] \in Entry \cup {NoEntry}
        /\ walk.hashed[p] \in Contents \cup {Absent} /\ origin[p] \in [of : Contents \cup {Absent}, torn : BOOLEAN]
  BY <1>2 DEF AgentInv, CatalogTypeOK
<1>4. ASSUME NEW p \in Projects
      PROVE  /\ NextCatalog[p] \in Entry \cup {NoEntry}
             /\ walk.next[p] # NoEntry => NextCatalog[p] = walk.next[p]
             /\ walk.next[p] = NoEntry => NextCatalog[p] = NoEntry \/ (NextCatalog[p].stale /\ ~NextCatalog[p].executable)
  <2> DEFINE old == [catalog[p] EXCEPT !.stale = TRUE, !.executable = FALSE]
  <2>1. NextCatalog[p] = IF walk.next[p] = NoEntry /\ walk.cut /\ catalog[p] # NoEntry THEN old ELSE walk.next[p]
    BY DEF NextCatalog
  <2>2. catalog[p] \in Entry => (old \in Entry /\ old.stale /\ ~old.executable)
    <3>1. catalog[p] \in Entry => old \in Entry
      BY DEF Entry
    <3>2. catalog[p] \in Entry => (old.stale = TRUE /\ old.executable = FALSE)
      BY DEF Entry
    <3> QED
      BY <3>1, <3>2
  <2> HIDE DEF old
  <2>3. catalog[p] \in Entry \cup {NoEntry} /\ walk.next[p] \in Entry \cup {NoEntry}
    BY <1>3
  <2>4. CASE walk.next[p] = NoEntry /\ walk.cut /\ catalog[p] # NoEntry
    <3>1. NextCatalog[p] = old /\ catalog[p] \in Entry
      BY <2>1, <2>3, <2>4
    <3> QED
      BY <3>1, <2>2, <2>4
  <2>5. CASE ~(walk.next[p] = NoEntry /\ walk.cut /\ catalog[p] # NoEntry)
    BY <2>1, <2>3, <2>5
  <2> QED
    BY <2>4, <2>5
<1>5. CatalogTypeOK'
  <2>1. NextCatalog \in [Projects -> Entry \cup {NoEntry}]
    BY <1>4 DEF NextCatalog
  <2>2. origin' \in [Projects -> [of : Contents \cup {Absent}, torn : BOOLEAN]]
    <3>1. \A p \in Projects : (p \in walk.torn) \in BOOLEAN
      BY SMT
    <3> QED
      BY <3>1, <1>1, <1>3
  <2>3. scanned' \in [at : Nat, cut : BOOLEAN]
    BY <1>1, <1>2, SMT DEF AgentInv, CatalogTypeOK
  <2>4. owed' \in SUBSET Projects
    BY <1>1 DEF OwedAfter, AgentInv, CatalogTypeOK
  <2> QED
    BY <2>1, <2>2, <2>3, <2>4, <1>1, IdleWalk DEF AgentInv, CatalogTypeOK
<1>6. ChangesStayVisible'
  <2> SUFFICES ASSUME NEW p \in owed', Managed(NextCatalog[p])
               PROVE  NextCatalog[p].facts # FactsIn(files[p])
    BY <1>1 DEF ChangesStayVisible, FactsIn
  <2> DEFINE taken == IF walk.kind = "periodic" THEN externalConfigChanges ELSE Projects
  <2>1. /\ p \in owed /\ p \in Projects
        /\ (p \in taken \/ ~Managed(catalog[p])) => FactsIn(files[p]) # NextCatalog[p].facts
    BY <1>1 DEF OwedAfter, AgentInv, CatalogTypeOK
  <2>2. CASE p \notin taken /\ Managed(catalog[p])
    <3>1. p \notin externalConfigChanges
      BY <2>1, <2>2
    <3>2. NextCatalog[p] # NoEntry /\ (NextCatalog[p].stale \/ NextCatalog[p].facts = catalog[p].facts)
      BY <3>1, <2>1, <2>2 DEF externalConfigChanges
    <3>3. NextCatalog[p].facts = catalog[p].facts
      BY <3>2 DEF Managed
    <3> QED
      BY <3>3, <2>1, <2>2 DEF AgentInv, ChangesStayVisible
  <2> QED
    BY <2>1, <2>2
<1>7. CatalogInv'
  <2> SUFFICES ASSUME NEW p \in Projects, NextCatalog[p] # NoEntry
               PROVE  Honest(NextCatalog[p], origin'[p].of, origin'[p].torn)
    BY <1>1 DEF CatalogInv, Honest, ValidEntry
  <2>1. CASE walk.next[p] # NoEntry
    <3>1. origin'[p].of = walk.hashed[p] /\ origin'[p].torn = (p \in walk.torn)
      BY <2>1, <1>1
    <3>2. Honest(walk.next[p], walk.hashed[p], p \in walk.torn)
      BY <2>1 DEF AgentInv, WalkInv
    <3> QED
      BY <3>1, <3>2, <2>1, <1>4
  <2>2. CASE walk.next[p] = NoEntry
    BY <2>2, <1>4 DEF Honest, ValidEntry
  <2> QED
    BY <2>1, <2>2
<1>8. WalkInv' /\ OpsInv' /\ DoneGrows
  BY <1>1, IdleWalk DEF AgentInv, WalkInv, OpsInv, DoneGrows
<1> QED
  BY <1>5, <1>6, <1>7, <1>8 DEF AgentInv

(* A scan that fails publishes nothing (rescan). *)
LEMMA AbandonScanKeeps ==
    ASSUME AgentInv, AbandonScan
    PROVE  AgentInv' /\ DoneGrows
<1> USE DEF AbandonScan
<1>1. CatalogTypeOK'
  BY IdleWalk DEF AgentInv, CatalogTypeOK
<1>2. ChangesStayVisible' /\ CatalogInv' /\ OpsInv' /\ DoneGrows
  BY CatalogStands DEF AgentInv, OpsInv
<1>3. WalkInv'
  BY IdleWalk DEF WalkInv
<1> QED
  BY <1>1, <1>2, <1>3 DEF AgentInv

(* No operation is under way. *)
LEMMA NoOpIsOne == NoOp \in Operation /\ NoOp.phase = "none"
  BY SMT DEF NoOp, Operation, Names

(* An operation that has not run yet moves on: no refresh waits for it.     *)
LEMMA OpsMove ==
    ASSUME AgentInv, NEW p \in Projects, ops[p].phase # "ran", NEW o \in Operation,
           o.phase # "none" => o.kind # "none", ops' = [ops EXCEPT ![p] = o], UNCHANGED <<catalog, walk>>
    PROVE  ops' \in [Projects -> Operation] /\ OpsInv' /\ WalkInv'
<1>1. ops \in [Projects -> Operation] /\ walk.todo \in SUBSET Projects
  BY DEF AgentInv, CatalogTypeOK, Walk
<1>2. \A q \in Projects : ops'[q] = IF q = p THEN o ELSE ops[q]
  BY <1>1
<1>3. ops' \in [Projects -> Operation] /\ OpsInv'
  BY <1>1, <1>2 DEF AgentInv, OpsInv
<1>4. WalkInv'
  BY <1>1, <1>2 DEF AgentInv, WalkInv, Honest, ValidEntry
<1> QED
  BY <1>3, <1>4

(* An operation that ran asks for the refresh of its project                *)
(* (RescanProject).                                                         *)
LEMMA BeginRefreshKeeps ==
    ASSUME AgentInv, NEW p \in Projects, BeginRefresh(p)
    PROVE  AgentInv' /\ DoneGrows
<1>1. UNCHANGED <<files, catalog, scanned, done, containers, blocked, owed, origin, policy>>
  BY DEF BeginRefresh
<1>2. ChangesStayVisible' /\ CatalogInv' /\ DoneGrows
  BY <1>1, CatalogStands
<1>3. ops[p].phase = "ran" /\ walk.kind = "none"
  BY DEF BeginRefresh, Locked
<1>4. CASE catalog[p] = NoEntry \/ catalog[p].stale \/ files[p] = Absent
  <2>1. ops' = [ops EXCEPT ![p] = NoOp] /\ walk' = walk
    BY <1>4 DEF BeginRefresh
  <2>3. CatalogTypeOK'
    BY <2>1, <1>1, NoOpIsOne DEF AgentInv, CatalogTypeOK
  <2>4. OpsInv'
    BY <2>1 DEF AgentInv, OpsInv, CatalogTypeOK, NoOp
  <2>5. WalkInv'
    BY <2>1, <1>1, <1>3 DEF AgentInv, WalkInv, Honest, ValidEntry
  <2> QED
    BY <2>3, <2>4, <2>5, <1>2 DEF AgentInv
<1>5. CASE ~(catalog[p] = NoEntry \/ catalog[p].stale \/ files[p] = Absent)
  <2>1. /\ walk' = [NoWalk EXCEPT !.kind = "one", !.todo = {p}, !.hashed = [@ EXCEPT ![p] = files[p]]]
        /\ ops' = ops
    BY <1>5 DEF BeginRefresh
  <2>2. files[p] \in Contents
    BY <1>5 DEF AgentInv, CatalogTypeOK
  <2>3. {p} \in SUBSET Projects /\ NoWalk.hashed = [q \in Projects |-> Absent]
    BY DEF NoWalk
  <2>4. [NoWalk.hashed EXCEPT ![p] = files[p]] \in [Projects -> Contents \cup {Absent}]
    BY <2>2, <2>3
  <2>5. walk' \in Walk
    BY <2>1, <2>3, <2>4, IdleWalk DEF Walk
  <2>6. /\ walk'.kind = "one" /\ walk'.todo = {p} /\ walk'.hashed = [NoWalk.hashed EXCEPT ![p] = files[p]]
        /\ walk'.left = NoWalk.left /\ walk'.next = NoWalk.next
    BY <2>1, IdleWalk, SMT DEF Walk
  <2>7. walk'.hashed[p] = files[p] /\ NoWalk.left = {}
    BY <2>3, <2>6 DEF NoWalk
  <2>8. WalkInv'
    BY <2>1, <2>2, <2>6, <2>7, <1>1, <1>3, <1>5, IdleWalk DEF WalkInv
  <2>9. CatalogTypeOK' /\ OpsInv'
    BY <2>1, <2>5, <1>1 DEF AgentInv, CatalogTypeOK, OpsInv
  <2> QED
    BY <2>8, <2>9, <1>2 DEF AgentInv
<1> QED
  BY <1>4, <1>5

(* The refreshed entry replaces the one before, and the operation succeeds  *)
(* (RescanProject, projectFromFiles).                                       *)
LEMMA PublishRefreshKeeps ==
    ASSUME AgentInv, NEW p \in Projects, PublishRefresh(p)
    PROVE  AgentInv' /\ DoneGrows
<1>1. /\ walk.kind = "one" /\ p \in walk.todo /\ ops' = [ops EXCEPT ![p] = NoOp] /\ walk' = NoWalk
      /\ UNCHANGED <<files, scanned, containers, blocked, policy>>
  BY DEF PublishRefresh
<1>2. /\ catalog[p] # NoEntry /\ ops[p].phase = "ran" /\ walk.hashed[p] \in Contents
      /\ walk.hashed \in [Projects -> Contents \cup {Absent}]
  BY <1>1 DEF AgentInv, WalkInv, CatalogTypeOK, Walk
<1>3. ops' \in [Projects -> Operation]
  BY <1>1, NoOpIsOne DEF AgentInv, CatalogTypeOK
<1>4. WalkInv' /\ OpsInv'
  <2>1. OpsInv'
    BY <1>1 DEF AgentInv, OpsInv, CatalogTypeOK, NoOp
  <2> QED
    BY <2>1, <1>1, IdleWalk DEF WalkInv
<1>5. CASE UNCHANGED <<catalog, done, owed, origin>>
  <2>1. ChangesStayVisible' /\ CatalogInv' /\ DoneGrows
    BY <1>5, <1>1, CatalogStands
  <2>2. CatalogTypeOK'
    BY <1>1, <1>3, <1>5, IdleWalk DEF AgentInv, CatalogTypeOK
  <2> QED
    BY <2>1, <2>2, <1>4 DEF AgentInv
<1>6. CASE /\ catalog' = [catalog EXCEPT ![p] = Refreshed(p)]
           /\ done' = [done EXCEPT ![p] = @ \cup {ops[p].kind}]
           /\ owed' = OwedAfter(catalog', {p})
           /\ origin' = [origin EXCEPT ![p] = [of |-> walk.hashed[p], torn |-> Torn(p)]]
  <2>1. /\ Scanned(p, FALSE) \in Entry /\ ~Scanned(p, FALSE).stale
        /\ p \notin policy.runnable => ~Scanned(p, FALSE).executable
        /\ Honest(Scanned(p, FALSE), walk.hashed[p], Torn(p))
    <3>1. FALSE \in BOOLEAN
      OBVIOUS
    <3> QED
      BY <3>1, <1>1, ScannedHonest
  <2>2. catalog[p] \in Entry /\ catalog[p].name \in Names
    BY <1>2 DEF AgentInv, CatalogTypeOK, Entry
  <2>3. Refreshed(p) \in Entry /\ Honest(Refreshed(p), walk.hashed[p], Torn(p))
    <3>1. CASE p \in policy.runnable
      BY <3>1, <2>1 DEF Refreshed
    <3>2. CASE p \notin policy.runnable
      <4>1. Refreshed(p) = [Scanned(p, FALSE) EXCEPT !.name = catalog[p].name]
        BY <3>2 DEF Refreshed
      <4>2. ~Scanned(p, FALSE).executable
        BY <3>2, <2>1
      <4>3. Refreshed(p) \in Entry
        BY <4>1, <2>1, <2>2 DEF Entry
      <4>4. Refreshed(p).executable = Scanned(p, FALSE).executable
        BY <4>1, <2>1 DEF Entry
      <4> QED
        BY <4>2, <4>3, <4>4 DEF Honest, ValidEntry
    <3> QED
      BY <3>1, <3>2
  <2>4. Torn(p) \in BOOLEAN
    <3>1. origin[p].torn \in BOOLEAN
      BY DEF AgentInv, CatalogTypeOK
    <3>2. (files[p] # walk.hashed[p]) \in BOOLEAN
      OBVIOUS
    <3> QED
      BY <3>1, <3>2 DEF Torn
  <2>5. ops[p].kind \in {"up", "write"}
    BY <1>2 DEF AgentInv, OpsInv, CatalogTypeOK, Operation
  <2>6. done' \in [Projects -> SUBSET {"up", "write"}] /\ DoneGrows
    <3>1. done \in [Projects -> SUBSET {"up", "write"}]
      BY DEF AgentInv, CatalogTypeOK
    <3> QED
      BY <3>1, <2>5, <1>6 DEF DoneGrows
  <2>7. CatalogTypeOK'
    <3>1. catalog' \in [Projects -> Entry \cup {NoEntry}]
      BY <2>3, <1>6 DEF AgentInv, CatalogTypeOK
    <3>2. owed' \in SUBSET Projects
      BY <1>6 DEF OwedAfter, AgentInv, CatalogTypeOK
    <3>3. [of |-> walk.hashed[p], torn |-> Torn(p)] \in [of : Contents \cup {Absent}, torn : BOOLEAN]
      BY <2>4, <1>2
    <3>4. origin' \in [Projects -> [of : Contents \cup {Absent}, torn : BOOLEAN]]
      BY <3>3, <1>6 DEF AgentInv, CatalogTypeOK
    <3> QED
      BY <3>1, <3>2, <3>4, <2>6, <1>1, <1>3, IdleWalk DEF AgentInv, CatalogTypeOK
  <2>8. \A q \in Projects : /\ catalog'[q] = IF q = p THEN Refreshed(p) ELSE catalog[q]
                            /\ origin'[q] = IF q = p THEN [of |-> walk.hashed[p], torn |-> Torn(p)] ELSE origin[q]
    BY <1>6 DEF AgentInv, CatalogTypeOK
  <2>9. ChangesStayVisible'
    <3> SUFFICES ASSUME NEW q \in owed', Managed(catalog'[q])
                 PROVE  catalog'[q].facts # FactsIn(files[q])
      BY <1>1 DEF ChangesStayVisible, FactsIn, Managed
    <3>1. /\ q \in owed /\ q \in Projects
          /\ (q \in {p} \/ ~Managed(catalog[q])) => FactsIn(files[q]) # catalog'[q].facts
      BY <1>6 DEF OwedAfter, AgentInv, CatalogTypeOK
    <3>2. CASE q # p
      BY <3>1, <3>2, <2>8 DEF AgentInv, ChangesStayVisible
    <3> QED
      BY <3>1, <3>2
  <2>10. CatalogInv'
    <3> SUFFICES ASSUME NEW q \in Projects, catalog'[q] # NoEntry
                 PROVE  Honest(catalog'[q], origin'[q].of, origin'[q].torn)
      BY DEF CatalogInv, Honest, ValidEntry
    <3>1. CASE q = p
      <4>1. origin'[q] = [of |-> walk.hashed[p], torn |-> Torn(p)] /\ catalog'[q] = Refreshed(p)
        BY <3>1, <2>8
      <4>2. origin'[q].of = walk.hashed[p] /\ origin'[q].torn = Torn(p)
        BY <4>1, SMT
      <4> QED
        BY <4>1, <4>2, <2>3
    <3>2. CASE q # p
      BY <3>2, <2>8 DEF AgentInv, CatalogInv
    <3> QED
      BY <3>1, <3>2
  <2> QED
    BY <2>6, <2>7, <2>9, <2>10, <1>4 DEF AgentInv
<1> QED
  BY <1>5, <1>6 DEF PublishRefresh

(* The Agent accepts or refuses an operation (StartOperation). *)
LEMMA StartOperationKeeps ==
    ASSUME AgentInv, NEW p \in Projects, StartOperation(p)
    PROVE  AgentInv' /\ DoneGrows
<1>1. /\ ops[p].phase = "sent"
      /\ UNCHANGED <<files, catalog, scanned, walk, done, containers, blocked, owed, origin, policy>>
  BY DEF StartOperation
<1>2. ops[p].kind \in {"up", "write"}
  BY <1>1 DEF AgentInv, CatalogTypeOK, OpsInv, Operation
<1> DEFINE taken == [kind |-> ops[p].kind, phase |-> "taken", name |-> catalog[p].name]
<1>3. CASE Accepts(p, ops[p].kind)
  <2>1. catalog[p].name \in Names
    BY <1>3 DEF Accepts, Available, Managed, AgentInv, CatalogTypeOK, Entry
  <2>2. taken \in Operation /\ taken.kind = ops[p].kind
    BY <2>1, <1>2, SMT DEF Operation
  <2>3. ops' = [ops EXCEPT ![p] = taken]
    BY <1>3 DEF StartOperation
  <2> HIDE DEF taken
  <2>4. ops' \in [Projects -> Operation] /\ OpsInv' /\ WalkInv'
    BY <2>2, <2>3, <1>1, <1>2, OpsMove
  <2> QED
    BY <2>4, <1>1, CatalogStands DEF AgentInv, CatalogTypeOK
<1>4. CASE ~Accepts(p, ops[p].kind)
  <2>1. ops' = [ops EXCEPT ![p] = NoOp]
    BY <1>4 DEF StartOperation
  <2>2. ops' \in [Projects -> Operation] /\ OpsInv' /\ WalkInv'
    BY <2>1, <1>1, NoOpIsOne, OpsMove
  <2> QED
    BY <2>2, <1>1, CatalogStands DEF AgentInv, CatalogTypeOK
<1> QED
  BY <1>3, <1>4

(* An operation runs, or fails (run). *)
LEMMA OpsRun ==
    ASSUME AgentInv, NEW p \in Projects, ops[p].phase = "taken", UNCHANGED <<catalog, walk>>,
           ops' = [ops EXCEPT ![p].phase = "ran"] \/ ops' = [ops EXCEPT ![p] = NoOp]
    PROVE  ops' \in [Projects -> Operation] /\ OpsInv' /\ WalkInv'
<1>1. CASE ops' = [ops EXCEPT ![p] = NoOp]
  BY <1>1, NoOpIsOne, OpsMove
<1>2. CASE ops' = [ops EXCEPT ![p].phase = "ran"]
  <2> DEFINE ran == [ops[p] EXCEPT !.phase = "ran"]
  <2>1. ops[p] \in Operation
    BY DEF AgentInv, CatalogTypeOK
  <2>2. ran \in Operation /\ ran.kind = ops[p].kind
    BY <2>1 DEF Operation
  <2>3. ops[p].kind # "none"
    BY DEF AgentInv, OpsInv
  <2>4. ops' = [ops EXCEPT ![p] = ran]
    BY <1>2
  <2> HIDE DEF ran
  <2> QED
    BY <2>2, <2>3, <2>4, OpsMove
<1> QED
  BY <1>1, <1>2

(* compose.up runs. *)
LEMMA RunUpKeeps ==
    ASSUME AgentInv, NEW p \in Projects, RunUp(p)
    PROVE  AgentInv' /\ DoneGrows
<1>1. /\ ops[p].phase = "taken"
      /\ ops' = [ops EXCEPT ![p].phase = "ran"] \/ ops' = [ops EXCEPT ![p] = NoOp]
      /\ containers' = containers \/ containers' = [containers EXCEPT ![p] = ops[p].name]
      /\ UNCHANGED <<files, catalog, scanned, walk, done, blocked, owed, origin, policy>>
  BY DEF RunUp
<1>2. ops' \in [Projects -> Operation] /\ OpsInv' /\ WalkInv'
  BY <1>1, OpsRun
<1>3. containers' \in [Projects -> Names]
  BY <1>1 DEF AgentInv, CatalogTypeOK, Operation
<1> QED
  BY <1>1, <1>2, <1>3, CatalogStands DEF AgentInv, CatalogTypeOK

(* The files of a project change, by DockLattice or by people: the change   *)
(* is still to be seen, or there is none any more.                          *)
LEMMA FilesMove ==
    ASSUME AgentInv, NEW p \in Projects, NEW c \in Contents \cup {Absent}, files' = [files EXCEPT ![p] = c],
           owed' \in SUBSET (owed \cup {p}), p \in owed' => FactsIn(c) # CatalogFacts(p),
           UNCHANGED <<catalog, origin, done>>
    PROVE  /\ files' \in [Projects -> Contents \cup {Absent}] /\ owed' \in SUBSET Projects
           /\ ChangesStayVisible' /\ CatalogInv' /\ DoneGrows
<1>1. files \in [Projects -> Contents \cup {Absent}] /\ owed \in SUBSET Projects
  BY DEF AgentInv, CatalogTypeOK
<1>2. \A q \in Projects : files'[q] = IF q = p THEN c ELSE files[q]
  BY <1>1
<1>3. files' \in [Projects -> Contents \cup {Absent}] /\ owed' \in SUBSET Projects
  BY <1>1
<1>4. CatalogInv' /\ DoneGrows
  BY DEF AgentInv, CatalogInv, DoneGrows, Honest, ValidEntry
<1>5. ASSUME NEW q \in owed', Managed(catalog[q])
      PROVE  catalog[q].facts # FactsIn(files'[q])
  <2>1. CASE q = p
    BY <2>1, <1>2, <1>5 DEF CatalogFacts, Managed
  <2>2. CASE q # p
    <3>1. q \in owed /\ files'[q] = files[q]
      BY <2>2, <1>1, <1>2
    <3> QED
      BY <3>1, <1>5 DEF AgentInv, ChangesStayVisible
  <2> QED
    BY <2>1, <2>2
<1> QED
  BY <1>3, <1>4, <1>5 DEF ChangesStayVisible, FactsIn, Managed

(* A write or a restore runs. *)
LEMMA RunWriteKeeps ==
    ASSUME AgentInv, NEW p \in Projects, RunWrite(p)
    PROVE  AgentInv' /\ DoneGrows
<1>1. /\ ops[p].phase = "taken"
      /\ ops' = [ops EXCEPT ![p].phase = "ran"] \/ ops' = [ops EXCEPT ![p] = NoOp]
      /\ blocked' = blocked \/ blocked' = blocked \cup {p}
      /\ UNCHANGED <<catalog, scanned, walk, done, containers, origin, policy>>
  BY DEF RunWrite
<1>2. ops' \in [Projects -> Operation] /\ OpsInv' /\ WalkInv'
  BY <1>1, OpsRun
<1>3. blocked' \in SUBSET Projects
  BY <1>1 DEF AgentInv, CatalogTypeOK
<1>4. CASE UNCHANGED <<files, owed>>
  BY <1>1, <1>2, <1>3, <1>4, CatalogStands DEF AgentInv, CatalogTypeOK
<1>5. CASE \E c \in Contents : /\ files' = [files EXCEPT ![p] = c]
                               /\ owed' = IF FactsIn(c) = CatalogFacts(p) THEN owed \ {p} ELSE owed
  <2>1. PICK c \in Contents : /\ files' = [files EXCEPT ![p] = c]
                              /\ owed' = IF FactsIn(c) = CatalogFacts(p) THEN owed \ {p} ELSE owed
    BY <1>5
  <2>2. owed' \in SUBSET (owed \cup {p}) /\ (p \in owed' => FactsIn(c) # CatalogFacts(p))
    BY <2>1
  <2>3. /\ files' \in [Projects -> Contents \cup {Absent}] /\ owed' \in SUBSET Projects
        /\ ChangesStayVisible' /\ CatalogInv' /\ DoneGrows
    BY <2>1, <2>2, <1>1, FilesMove
  <2> QED
    BY <2>3, <1>1, <1>2, <1>3 DEF AgentInv, CatalogTypeOK
<1> QED
  BY <1>4, <1>5 DEF RunWrite

(* People change the files. *)
LEMMA EditFilesKeeps ==
    ASSUME AgentInv, NEW p \in Projects, EditFiles(p)
    PROVE  AgentInv' /\ DoneGrows
<1>1. PICK c \in Contents \cup {Absent} :
        /\ files' = [files EXCEPT ![p] = c]
        /\ owed' = IF FactsIn(c) = CatalogFacts(p) THEN owed \ {p}
                   ELSE IF Managed(catalog[p]) THEN owed \cup {p} ELSE owed
  BY DEF EditFiles
<1>2. UNCHANGED <<catalog, scanned, walk, ops, done, containers, blocked, origin, policy>>
  BY DEF EditFiles
<1>3. owed' \in SUBSET (owed \cup {p}) /\ (p \in owed' => FactsIn(c) # CatalogFacts(p))
  BY <1>1
<1>4. /\ files' \in [Projects -> Contents \cup {Absent}] /\ owed' \in SUBSET Projects
      /\ ChangesStayVisible' /\ CatalogInv' /\ DoneGrows
  BY <1>1, <1>2, <1>3, FilesMove
<1>5. WalkInv' /\ OpsInv'
  BY <1>2 DEF AgentInv, WalkInv, OpsInv, Honest, ValidEntry
<1> QED
  BY <1>2, <1>4, <1>5 DEF AgentInv, CatalogTypeOK

(* Containers are removed. *)
LEMMA ContainersGoKeeps ==
    ASSUME AgentInv, NEW p \in Projects, ContainersGo(p)
    PROVE  AgentInv' /\ DoneGrows
<1> USE DEF ContainersGo
<1>1. NoName \in Names
  BY DEF Names
<1>2. CatalogTypeOK'
  BY <1>1 DEF AgentInv, CatalogTypeOK
<1>3. WalkInv' /\ OpsInv'
  BY DEF AgentInv, WalkInv, OpsInv, Honest, ValidEntry
<1> QED
  BY <1>2, <1>3, CatalogStands DEF AgentInv

(* The Agent starts again (startProduct). *)
LEMMA AgentStartsKeeps ==
    ASSUME AgentInv, AgentStarts
    PROVE  AgentInv' /\ DoneGrows
<1> USE DEF AgentStarts
<1>1. walk' \in Walk /\ walk'.kind = "boot" /\ walk'.todo = {} /\ \A p \in Projects : walk'.next[p] = NoEntry
  BY FreshWalk
<1>2. \A p \in Projects : catalog'[p] = NoEntry
  OBVIOUS
<1>3. CatalogTypeOK'
  <2>1. catalog' \in [Projects -> Entry \cup {NoEntry}] /\ owed' \in SUBSET Projects /\ blocked' \in SUBSET Projects
    BY DEF AgentInv, CatalogTypeOK
  <2>2. ops' \in [Projects -> Operation]
    BY NoOpIsOne DEF AgentInv, CatalogTypeOK
  <2> QED
    BY <2>1, <2>2, <1>1 DEF AgentInv, CatalogTypeOK
<1>4. ChangesStayVisible' /\ CatalogInv' /\ DoneGrows
  BY <1>2 DEF ChangesStayVisible, CatalogInv, DoneGrows
<1>5. OpsInv'
  BY NoOpIsOne DEF AgentInv, OpsInv
<1>6. WalkInv'
  BY <1>1 DEF WalkInv
<1> QED
  BY <1>3, <1>4, <1>5, <1>6 DEF AgentInv

(* Every step of the Agent and of its surroundings keeps the Agent's part   *)
(* of the invariant.                                                        *)
LEMMA CatalogKeeps ==
    ASSUME AgentInv, CatalogNext
    PROVE  AgentInv' /\ DoneGrows
  BY BeginScanKeeps, VisitKeeps, EvaluateKeeps, TruncateKeeps, PublishScanKeeps, AbandonScanKeeps,
     BeginRefreshKeeps, PublishRefreshKeeps, StartOperationKeeps, RunUpKeeps, RunWriteKeeps,
     EditFilesKeeps, ContainersGoKeeps, AgentStartsKeeps DEF CatalogNext

(* The Agent is about to boot for the first time. *)
LEMMA AgentInit ==
    ASSUME CatalogInit(CatalogScenes)
    PROVE  AgentInv
<1>1. PICK s \in CatalogScenes : files = s.files /\ policy = s.policy
  BY DEF CatalogInit
<1>2. walk \in Walk /\ walk.kind = "boot" /\ walk.todo = {} /\ \A p \in Projects : walk.next[p] = NoEntry
  <2>1. walk = [NoWalk EXCEPT !.kind = "boot", !.left = Projects]
    BY DEF CatalogInit
  <2> QED
    BY <2>1, FreshWalk
<1>3. /\ catalog = [p \in Projects |-> NoEntry] /\ scanned = [at |-> 0, cut |-> FALSE]
      /\ ops = [p \in Projects |-> NoOp] /\ done = [p \in Projects |-> {}]
      /\ containers = [p \in Projects |-> NoName] /\ blocked = {} /\ owed = {}
      /\ origin = [p \in Projects |-> [of |-> Absent, torn |-> FALSE]]
  BY DEF CatalogInit
<1>4. CatalogTypeOK
  <2>1. files \in [Projects -> Contents \cup {Absent}] /\ policy \in Policy
    BY <1>1, SceneAssumption
  <2>2. scanned \in [at : Nat, cut : BOOLEAN]
    BY <1>3, SMT
  <2>3. ops \in [Projects -> Operation] /\ containers \in [Projects -> Names]
    BY <1>3, NoOpIsOne DEF Names
  <2>4. origin \in [Projects -> [of : Contents \cup {Absent}, torn : BOOLEAN]]
    BY <1>3
  <2> QED
    BY <2>1, <2>2, <2>3, <2>4, <1>2, <1>3 DEF CatalogTypeOK
<1>5. ChangesStayVisible /\ CatalogInv /\ WalkInv
  BY <1>2, <1>3 DEF ChangesStayVisible, CatalogInv, WalkInv
<1>6. OpsInv
  BY <1>3, NoOpIsOne DEF OpsInv
<1> QED
  BY <1>4, <1>5, <1>6 DEF AgentInv

(***************************************************************************)
(* Items and rows                                                          *)
(***************************************************************************)

(* What the Agent answers of a project it knows (projectResponse). *)
LEMMA ProjectItemRuns ==
    ASSUME AgentInv, NEW p \in Projects, catalog[p] # NoEntry
    PROVE  ProjectItem(p) \in Item /\ Runs(ProjectItem(p))
<1>1. /\ catalog[p] \in Entry /\ ValidEntry(catalog[p]) /\ policy.runnable \in SUBSET Projects
      /\ catalog[p].facts \in Facts
  BY DEF AgentInv, CatalogTypeOK, CatalogInv, Honest, Policy, Entry
<1>2. Includes(p, catalog[p].facts) \in SUBSET Projects
  BY <1>1, ContentAssumption DEF Includes
<1>3. (p \in policy.writable) \in BOOLEAN /\ (p \in blocked) \in BOOLEAN
  BY SMT
<1>4. ProjectItem(p) \in Item
  BY <1>1, <1>2, <1>3 DEF ProjectItem, Item, Entry, FactsOrNone
<1>5. /\ ProjectItem(p).executable = catalog[p].executable /\ ProjectItem(p).name = catalog[p].name
      /\ ProjectItem(p).stale = catalog[p].stale /\ ProjectItem(p).current = catalog[p].facts
  BY DEF ProjectItem
<1> QED
  BY <1>1, <1>4, <1>5, ContentAssumption DEF Runs, ValidEntry

(* The answer to a list (projectListResponse, Merge). *)
LEMMA ItemsRun ==
    ASSUME AgentInv
    PROVE  /\ Items \in [Projects -> Item \cup {NoItem}]
           /\ \A p \in Projects : Items[p] # NoItem => Runs(Items[p])
<1>1. ASSUME NEW p \in Projects
      PROVE  Items[p] \in Item \cup {NoItem} /\ (Items[p] # NoItem => Runs(Items[p]))
  <2>1. CASE catalog[p] # NoEntry
    <3>1. Items[p] = ProjectItem(p)
      BY <2>1, SMT DEF Items
    <3> QED
      BY <3>1, <2>1, ProjectItemRuns
  <2>2. CASE catalog[p] = NoEntry /\ containers[p] # NoName
    <3>1. Items[p] = ContainersItem(p)
      BY <2>2, SMT DEF Items
    <3>2. containers[p] \in Names /\ {} \in SUBSET Projects
      BY DEF AgentInv, CatalogTypeOK
    <3>3. ContainersItem(p) \in Item
      BY <3>2 DEF ContainersItem, Item, FactsOrNone
    <3>4. ContainersItem(p).executable = FALSE
      BY DEF ContainersItem
    <3> QED
      BY <3>1, <3>3, <3>4 DEF Runs
  <2>3. CASE catalog[p] = NoEntry /\ containers[p] = NoName
    <3>1. Items[p] = NoItem
      BY <2>3, SMT DEF Items
    <3> QED
      BY <3>1
  <2> QED
    BY <2>1, <2>2, <2>3
<1> QED
  BY <1>1 DEF Items

(* All of a row but its locks and its include lines is the same. *)
Kept(x, r) ==
    /\ x.name = r.name /\ x.managed = r.managed /\ x.stale = r.stale /\ x.executable = r.executable
    /\ x.writable = r.writable /\ x.recovery = r.recovery /\ x.missing = r.missing
    /\ x.current = r.current /\ x.applied = r.applied /\ x.drift = r.drift /\ x.observed = r.observed
    /\ x.includes = r.includes

(* What both merges make sure of before the locks are set. *)
Sound(r) ==
    /\ r.drift = DriftStatus(r.applied, r.current)
    /\ Runs(r)
    /\ r.missing => (r.stale /\ ~r.executable)

(* Locks and include lines have no part in that. *)
LEMMA KeptIsSound ==
    ASSUME NEW r, NEW x, Kept(x, r), Sound(r)
    PROVE  Sound(x)
  BY DEF Kept, Sound, Runs

(* The locks are set (projectReadOnly). *)
LEMMA LocksRow ==
    ASSUME NEW r \in Row, NEW c \in BOOLEAN
    PROVE  /\ Locks(r, c) \in Row /\ Kept(Locks(r, c), r) /\ Locks(r, c).collision = c
           /\ Locks(r, c).includedBy = r.includedBy /\ Locks(r, c).readOnly = projectReadOnly(Locks(r, c))
<1> DEFINE r1 == [r EXCEPT !.collision = c]
           x == [r EXCEPT !.collision = c, !.readOnly = projectReadOnly(r1)]
<1>1. projectReadOnly(r1) \in BOOLEAN
  BY SMT DEF projectReadOnly
<1>2. /\ r1.collision = c /\ r1.managed = r.managed /\ r1.stale = r.stale /\ r1.executable = r.executable
      /\ r1.writable = r.writable /\ r1.recovery = r.recovery
  BY DEF Row
<1> HIDE DEF r1
<1>3. x \in Row
  BY <1>1 DEF Row
<1>4. Kept(x, r) /\ x.includedBy = r.includedBy
  BY DEF Row, Kept
<1>5. x.collision = c /\ x.readOnly = projectReadOnly(r1)
  BY DEF Row
<1>6. Locks(r, c) = x
  BY DEF Locks, r1
<1>7. projectReadOnly(x) = projectReadOnly(r1)
  BY <1>2, <1>4, <1>5 DEF projectReadOnly, Kept
<1> QED
  BY <1>3, <1>4, <1>5, <1>6, <1>7

(* The include lines are set (reconcileProjectIncludeRelations). *)
LEMMA IncludedRow ==
    ASSUME NEW r \in Row, NEW S \in SUBSET Projects
    PROVE  LET x == [r EXCEPT !.includedBy = S]
           IN  /\ x \in Row /\ Kept(x, r) /\ x.includedBy = S
               /\ x.collision = r.collision /\ x.readOnly = r.readOnly
  BY DEF Row, Kept

Table == [Projects -> Row \cup {NoRow}]

(* The rows of ws are those of rs but for locks and include lines. *)
SameRows(ws, rs) ==
    \A p \in Projects : /\ rs[p] = NoRow => ws[p] = NoRow
                        /\ rs[p] # NoRow => (ws[p] \in Row /\ Kept(ws[p], rs[p]))

(* The parents of a row depend on nothing the reconciliations change.       *)
LEMMA ParentsStay ==
    ASSUME NEW rs \in Table, NEW ws, SameRows(ws, rs), NEW p \in Projects
    PROVE  Parents(ws, p) = Parents(rs, p)
<1>1. \A q \in Projects : Present(ws[q]) <=> Present(rs[q])
  BY RowAssumption DEF Present, SameRows, Kept
<1>2. \A q \in Projects : Present(rs[q]) => ws[q].includes = rs[q].includes
  BY DEF Present, SameRows, Kept
<1> QED
  BY <1>1, <1>2 DEF Parents

(* reconcileProjectIncludeRelations *)
LEMMA WithIncludesRows ==
    ASSUME NEW rs \in Table
    PROVE  /\ WithIncludes(rs) \in Table /\ SameRows(WithIncludes(rs), rs)
           /\ \A p \in Projects : rs[p] # NoRow =>
                /\ WithIncludes(rs)[p] = [rs[p] EXCEPT !.includedBy = Parents(rs, p)]
                /\ WithIncludes(rs)[p].includedBy = Parents(WithIncludes(rs), p)
                /\ WithIncludes(rs)[p].collision = rs[p].collision
                /\ WithIncludes(rs)[p].readOnly = rs[p].readOnly
<1> DEFINE ws == WithIncludes(rs)
<1>1. \A p \in Projects : Parents(rs, p) \in SUBSET Projects
  BY DEF Parents
<1>2. ASSUME NEW p \in Projects, rs[p] # NoRow
      PROVE  /\ ws[p] = [rs[p] EXCEPT !.includedBy = Parents(rs, p)] /\ ws[p] \in Row /\ Kept(ws[p], rs[p])
             /\ ws[p].includedBy = Parents(rs, p) /\ ws[p].collision = rs[p].collision
             /\ ws[p].readOnly = rs[p].readOnly
  <2>1. rs[p] \in Row /\ Parents(rs, p) \in SUBSET Projects
    BY <1>1, <1>2 DEF Table
  <2>2. ws[p] = [rs[p] EXCEPT !.includedBy = Parents(rs, p)]
    BY <1>2 DEF WithIncludes
  <2> DEFINE x == [rs[p] EXCEPT !.includedBy = Parents(rs, p)]
  <2>3. /\ x \in Row /\ Kept(x, rs[p]) /\ x.includedBy = Parents(rs, p)
        /\ x.collision = rs[p].collision /\ x.readOnly = rs[p].readOnly
    BY <2>1, IncludedRow
  <2>4. ws[p] = x
    BY <2>2
  <2> HIDE DEF x, ws
  <2>5. /\ ws[p] \in Row /\ Kept(ws[p], rs[p])
        /\ ws[p].includedBy = Parents(rs, p) /\ ws[p].collision = rs[p].collision
        /\ ws[p].readOnly = rs[p].readOnly
    BY <2>3, <2>4
  <2> QED
    BY <2>2, <2>5
<1>3. \A p \in Projects : rs[p] = NoRow => ws[p] = NoRow
  BY DEF WithIncludes
<1>4. SameRows(ws, rs)
  BY <1>2, <1>3 DEF SameRows
<1>5. ws \in Table
  <2>1. \A p \in Projects : ws[p] \in Row \cup {NoRow}
    BY <1>2, <1>3
  <2> QED
    BY <2>1 DEF WithIncludes, Table
<1>6. \A p \in Projects : Parents(ws, p) = Parents(rs, p)
  BY <1>4, ParentsStay
<1> QED
  BY <1>2, <1>4, <1>5, <1>6

(* reconcileTargetedProjectCollisions *)
LEMMA WithCollisionsRows ==
    ASSUME NEW rs \in Table
    PROVE  /\ WithCollisions(rs) \in Table /\ SameRows(WithCollisions(rs), rs)
           /\ \A p \in Projects : rs[p] # NoRow =>
                /\ WithCollisions(rs)[p].includedBy = rs[p].includedBy
                /\ WithCollisions(rs)[p].collision => Present(rs[p])
                /\ WithCollisions(rs)[p].readOnly = projectReadOnly(WithCollisions(rs)[p])
<1> DEFINE cs == WithCollisions(rs)
<1>1. ASSUME NEW p \in Projects, rs[p] # NoRow
      PROVE  /\ cs[p] \in Row /\ Kept(cs[p], rs[p]) /\ cs[p].includedBy = rs[p].includedBy
             /\ cs[p].collision => Present(rs[p])
             /\ cs[p].readOnly = projectReadOnly(cs[p])
  <2>1. rs[p] \in Row
    BY <1>1 DEF Table
  <2>2. Collides(rs, p) \in BOOLEAN /\ (Collides(rs, p) => Present(rs[p]))
    BY DEF Collides
  <2>3. cs[p] = Locks(rs[p], Collides(rs, p))
    BY <1>1 DEF WithCollisions
  <2> DEFINE c == Collides(rs, p)
             x == Locks(rs[p], c)
  <2> HIDE DEF c
  <2>4. x \in Row /\ Kept(x, rs[p]) /\ x.collision = c /\ x.includedBy = rs[p].includedBy /\ x.readOnly = projectReadOnly(x)
    <3>1. c \in BOOLEAN
      BY <2>2 DEF c
    <3> QED
      BY <2>1, <3>1, LocksRow
  <2>5. cs[p] = x
    BY <2>3 DEF c
  <2> HIDE DEF x, cs
  <2> QED
    BY <2>2, <2>4, <2>5 DEF c
<1>2. \A p \in Projects : rs[p] = NoRow => cs[p] = NoRow
  BY DEF WithCollisions
<1>3. SameRows(cs, rs)
  BY <1>1, <1>2 DEF SameRows
<1>4. cs \in Table
  <2>1. \A p \in Projects : cs[p] \in Row \cup {NoRow}
    BY <1>1, <1>2
  <2> QED
    BY <2>1 DEF WithCollisions, Table
<1> QED
  BY <1>1, <1>3, <1>4

(* What both merges make of an item (mergeProjectSnapshotWithDockerObserved, *)
(* mergeTargetedProjectSnapshotObserved).                                   *)
LEMMA MergedRow ==
    ASSUME NEW r \in Row \cup {NoRow}, NEW i \in Item, NEW at \in Nat, NEW applied \in FactsOrNone,
           Runs(i), r # NoRow => Sound(r), (i.stale /\ r # NoRow) => applied = r.applied
    PROVE  LET m == Merged(r, i, at, applied)
           IN  /\ m \in Row /\ Sound(m) /\ ~m.missing /\ m.observed = at /\ m.applied = applied
               /\ m.managed = i.managed /\ m.executable = i.executable /\ m.recovery = i.recovery
               /\ ~i.stale => m.current = i.current
               /\ i.name # NoName => m.name = i.name
<1> DEFINE m == Merged(r, i, at, applied)
           kept == i.stale /\ r # NoRow
           n == IF r # NoRow /\ i.name = NoName THEN r.name ELSE i.name
           c == IF kept THEN r.current ELSE i.current
           d == IF kept THEN r.drift ELSE DriftStatus(applied, i.current)
<1>1. n \in Names /\ c \in FactsOrNone
  BY DEF Row, Item
<1>2. DriftStatus(applied, i.current) \in {"no-baseline", "in-sync", "changed"}
  BY DEF DriftStatus
<1>3. d \in {"no-baseline", "in-sync", "changed"}
  BY <1>2 DEF Row
<1>4. m = [name |-> n, managed |-> i.managed, stale |-> i.stale, executable |-> i.executable,
           writable |-> i.writable, recovery |-> i.recovery, missing |-> FALSE, collision |-> FALSE,
           current |-> c, applied |-> applied, drift |-> d,
           observed |-> at, includes |-> i.includes, includedBy |-> {}, readOnly |-> FALSE]
  BY DEF Merged
<1>5. d = DriftStatus(applied, c)
  <2>1. CASE kept
    BY <2>1 DEF Sound
  <2>2. CASE ~kept
    BY <2>2
  <2> QED
    BY <2>1, <2>2
<1>6. i.name # NoName => n = i.name
  OBVIOUS
<1>7. i.executable => (n # NoName /\ ~i.stale /\ c # NoFacts)
  BY DEF Runs
<1>8. ~i.stale => c = i.current
  OBVIOUS
<1> HIDE DEF n, c, d, m
<1>9. m \in Row
  BY <1>1, <1>3, <1>4 DEF Row, Item
<1>10. /\ m.name = n /\ m.managed = i.managed /\ m.stale = i.stale /\ m.executable = i.executable
       /\ m.recovery = i.recovery /\ m.missing = FALSE /\ m.current = c /\ m.applied = applied
       /\ m.drift = d /\ m.observed = at
  BY <1>4
<1>11. Sound(m)
  BY <1>5, <1>7, <1>10 DEF Sound, Runs
<1> QED
  BY <1>6, <1>8, <1>9, <1>10, <1>11 DEF m

(* What a row says of itself, locks included. *)
RowOK(r) ==
    /\ Sound(r)
    /\ r.readOnly = projectReadOnly(r)
    /\ r.missing => ~r.collision

(* The baseline a list leaves. *)
Baseline(r) == IF r = NoRow THEN NoFacts ELSE r.applied

(* A project of a list (mergeProjectSnapshotWithDockerObserved). *)
LEMMA ListRowOK ==
    ASSUME NEW p \in Projects, NEW items \in [Projects -> Item \cup {NoItem}], NEW at \in Nat,
           rows \in Table, rows[p] # NoRow => Sound(rows[p]), items[p] # NoItem, Runs(items[p])
    PROVE  LET x == ListRow(p, items, at)
           IN  /\ x \in Row /\ RowOK(x) /\ ~x.missing /\ x.observed = at
               /\ x.applied = Baseline(rows[p])
               /\ x.managed = items[p].managed /\ x.executable = items[p].executable
               /\ x.recovery = items[p].recovery
               /\ ~items[p].stale => x.current = items[p].current
               /\ (items[p].name # NoName /\ ~items[p].stale) => x.name = items[p].name
               /\ x.collision = NameCollision(items, p)
<1> DEFINE r == rows[p]
           i == items[p]
           a == IF r = NoRow THEN NoFacts ELSE r.applied
           m == Merged(r, i, at, a)
           k == r # NoRow /\ i.stale /\ r.name # NoName
           y == IF k THEN [m EXCEPT !.name = r.name] ELSE m
           c == NameCollision(items, p)
           x == Locks(y, c)
<1>1. r \in Row \cup {NoRow} /\ i \in Item /\ (r # NoRow => Sound(r)) /\ Runs(i)
  BY DEF Table
<1>2. a \in FactsOrNone /\ ((i.stale /\ r # NoRow) => a = r.applied)
  BY <1>1 DEF Row, FactsOrNone
<1>3. c \in BOOLEAN
  BY SMT DEF NameCollision
<1>4. x = ListRow(p, items, at)
  BY DEF ListRow
<1> HIDE DEF r, i, a
<1>5. /\ m \in Row /\ Sound(m) /\ ~m.missing /\ m.observed = at /\ m.applied = a
      /\ m.managed = i.managed /\ m.executable = i.executable /\ m.recovery = i.recovery
      /\ ~i.stale => m.current = i.current
      /\ i.name # NoName => m.name = i.name
  BY <1>1, <1>2, MergedRow, SMT
<1> HIDE DEF m, c
<1>6. /\ y \in Row /\ Sound(y) /\ ~y.missing /\ y.observed = at /\ y.applied = a
      /\ y.managed = i.managed /\ y.executable = i.executable /\ y.recovery = i.recovery
      /\ ~i.stale => y.current = i.current
      /\ (i.name # NoName /\ ~i.stale) => y.name = i.name
  <2>1. CASE k
    <3> DEFINE z == [m EXCEPT !.name = r.name]
    <3>1. r.name \in Names /\ i.stale
      BY <2>1, <1>1 DEF Row
    <3>2. z \in Row
      BY <3>1, <1>5 DEF Row
    <3>3. /\ z.managed = m.managed /\ z.stale = m.stale /\ z.executable = m.executable
          /\ z.recovery = m.recovery /\ z.missing = m.missing /\ z.current = m.current
          /\ z.applied = m.applied /\ z.drift = m.drift /\ z.observed = m.observed
      BY <1>5 DEF Row
    <3>4. y = z
      BY <2>1
    <3>5. ~m.executable
      BY <1>1, <1>5, <3>1 DEF Runs
    <3> HIDE DEF y, z
    <3> QED
      BY <1>5, <3>1, <3>2, <3>3, <3>4, <3>5 DEF Sound, Runs
  <2>2. CASE ~k
    <3>1. y = m
      BY <2>2
    <3> QED
      BY <3>1, <1>5
  <2> QED
    BY <2>1, <2>2
<1> HIDE DEF y
<1>7. x \in Row /\ Kept(x, y) /\ x.collision = c /\ x.readOnly = projectReadOnly(x)
  BY <1>3, <1>6, LocksRow
<1> HIDE DEF x
<1>8. Sound(x)
  BY <1>6, <1>7, KeptIsSound
<1>9. RowOK(x) /\ ~x.missing
  BY <1>6, <1>7, <1>8 DEF RowOK, Kept
<1> QED
  BY <1>4, <1>6, <1>7, <1>9 DEF Kept, Baseline, a, r, i, c

(* A project that is not in a complete list. *)
LEMMA MissingRowOK ==
    ASSUME NEW r \in Row, Sound(r)
    PROVE  LET x == MissingRow(r)
           IN  x \in Row /\ RowOK(x) /\ x.missing /\ x.applied = r.applied /\ x.observed = r.observed
<1> DEFINE x == MissingRow(r)
<1>1. x \in Row
  BY DEF Row, MissingRow
<1>2. /\ x.missing = TRUE /\ x.stale = TRUE /\ x.executable = FALSE /\ x.collision = FALSE /\ x.readOnly = TRUE
      /\ x.applied = r.applied /\ x.observed = r.observed /\ x.drift = r.drift /\ x.current = r.current
  BY DEF Row, MissingRow
<1> HIDE DEF x
<1>3. projectReadOnly(x) = TRUE
  BY <1>2 DEF projectReadOnly
<1>4. RowOK(x)
  BY <1>2, <1>3 DEF RowOK, Sound, Runs
<1> QED
  BY <1>1, <1>2, <1>4 DEF x

(* Rows that are right and whose include lines are reconciled agree.        *)
LEMMA ConsistentTable ==
    ASSUME rows' \in Table,
           \A p \in Projects : rows'[p] # NoRow =>
               /\ RowOK(rows'[p]) /\ rows'[p].includedBy = Parents(rows', p)
               /\ rows'[p].applied # NoFacts => "up" \in done'[p]
    PROVE  (\A p \in Projects : rows[p] # NoRow => RowIsConsistent(p))' /\ RowInv'
<1>1. RowInv'
  BY DEF RowInv, RowOK, Sound
<1>2. ASSUME NEW p \in Projects, rows'[p] # NoRow
      PROVE  RowIsConsistent(p)'
  <2>1. rows'[p].missing => rows'[p].readOnly
    BY <1>2 DEF RowOK, Sound, projectReadOnly
  <2>2. MayChange(rows'[p]) => (Present(rows'[p]) /\ rows'[p].managed /\ rows'[p].executable
                                 /\ rows'[p].name # NoName /\ rows'[p].current # NoFacts)
    BY <1>2 DEF MayChange, Present, RowOK, Sound, Runs, projectReadOnly
  <2> QED
    BY <1>2, <2>1, <2>2 DEF RowIsConsistent, RowOK, Sound
<1> QED
  BY <1>1, <1>2

(* And the other way round. *)
LEMMA RowsAreOK ==
    ASSUME ServerInv
    PROVE  /\ rows \in Table
           /\ \A p \in Projects : rows[p] # NoRow =>
                /\ rows[p] \in Row /\ RowOK(rows[p]) /\ Sound(rows[p])
                /\ rows[p].includedBy = Parents(rows, p)
                /\ rows[p].applied # NoFacts => "up" \in done[p]
  BY DEF ServerInv, MirrorIsConsistent, MirrorTypeOK, Table, RowIsConsistent, RowInv, RowOK, Sound

(* The rows a list leaves (mergeProjectSnapshotWithDockerObserved): those of *)
(* later requests stay, those it shows are as it shows them, and the others  *)
(* are missing if it is complete.                                           *)
LEMMA AfterListRows ==
    ASSUME ServerInv, NEW l \in lists, l.answer # NoAnswer,
           NEW items, items = l.answer.items, NEW ws, ws = AfterList(l)
    PROVE  /\ ws \in Table
           /\ \A p \in Projects : ws[p] # NoRow =>
                /\ RowOK(ws[p]) /\ ws[p].includedBy = Parents(ws, p)
                /\ ws[p].applied # NoFacts => (rows[p] # NoRow /\ ws[p].applied = rows[p].applied)
           /\ \A p \in Projects : (items[p] # NoItem /\ Newer(p, l.at)) =>
                /\ ws[p] # NoRow /\ ~ws[p].missing /\ ws[p].observed = l.at
                /\ rows[p] # NoRow => ws[p].applied = rows[p].applied
                /\ ws[p].managed = items[p].managed /\ ws[p].executable = items[p].executable
                /\ ws[p].recovery = items[p].recovery
                /\ ~items[p].stale => ws[p].current = items[p].current
                /\ (items[p].name # NoName /\ ~items[p].stale) => ws[p].name = items[p].name
                /\ ws[p].collision = NameCollision(items, p)
           /\ \A p \in Projects : (items[p] = NoItem /\ ~l.answer.cut /\ rows[p] # NoRow) =>
                /\ ws[p] # NoRow /\ ws[p].missing
                /\ ws[p].applied = rows[p].applied /\ ws[p].observed = rows[p].observed
           /\ \A p \in Projects : (~(items[p] # NoItem /\ Newer(p, l.at)) /\ ~(items[p] = NoItem /\ ~l.answer.cut)
                                     /\ rows[p] # NoRow) =>
                ws[p] # NoRow /\ ws[p] = [rows[p] EXCEPT !.includedBy = ws[p].includedBy]
           /\ \A p \in Projects : (items[p] = NoItem /\ rows[p] = NoRow) => ws[p] = NoRow
<1> DEFINE cut == l.answer.cut
           seen(p) == items[p] # NoItem
           ms == [p \in Projects |-> CASE seen(p) /\ Newer(p, l.at) -> ListRow(p, items, l.at)
                                       [] ~seen(p) /\ ~cut /\ rows[p] # NoRow -> MissingRow(rows[p])
                                       [] OTHER -> rows[p]]
<1>1. rows \in Table /\ \A p \in Projects : rows[p] # NoRow =>
                          /\ rows[p] \in Row /\ RowOK(rows[p]) /\ Sound(rows[p])
  BY RowsAreOK
<1>2. /\ items \in [Projects -> Item \cup {NoItem}] /\ l.at \in Nat
      /\ \A p \in Projects : seen(p) => Runs(items[p])
  <2>1. l \in [at : Nat, answer : ListAnswer \cup {NoAnswer}]
    BY DEF ServerInv, MirrorIsConsistent, MirrorTypeOK
  <2>2. l.answer \in ListAnswer /\ l.at \in Nat
    BY <2>1
  <2>3. items \in [Projects -> Item \cup {NoItem}]
    BY <2>2 DEF ListAnswer
  <2> QED
    BY <2>2, <2>3 DEF ServerInv, AnswerInv
<1>3. ws = WithIncludes(ms)
  BY DEF AfterList
<1> HIDE DEF cut
<1>4. ASSUME NEW p \in Projects, seen(p), Newer(p, l.at)
      PROVE  /\ ms[p] # NoRow /\ ms[p] \in Row /\ RowOK(ms[p]) /\ ~ms[p].missing /\ ms[p].observed = l.at
             /\ ms[p].applied = Baseline(rows[p])
             /\ ms[p].managed = items[p].managed /\ ms[p].executable = items[p].executable
             /\ ms[p].recovery = items[p].recovery
             /\ ~items[p].stale => ms[p].current = items[p].current
             /\ (items[p].name # NoName /\ ~items[p].stale) => ms[p].name = items[p].name
             /\ ms[p].collision = NameCollision(items, p)
  <2> DEFINE x == ListRow(p, items, l.at)
  <2>1. ms[p] = x
    BY <1>4, SMT
  <2>2. /\ x \in Row /\ RowOK(x) /\ ~x.missing /\ x.observed = l.at
        /\ x.applied = Baseline(rows[p])
        /\ x.managed = items[p].managed /\ x.executable = items[p].executable
        /\ x.recovery = items[p].recovery
        /\ ~items[p].stale => x.current = items[p].current
        /\ (items[p].name # NoName /\ ~items[p].stale) => x.name = items[p].name
        /\ x.collision = NameCollision(items, p)
    <3>1. /\ items \in [Projects -> Item \cup {NoItem}] /\ l.at \in Nat /\ rows \in Table
          /\ rows[p] # NoRow => Sound(rows[p])
          /\ items[p] # NoItem /\ Runs(items[p])
      BY <1>1, <1>2, <1>4
    <3> QED
      BY <3>1, ListRowOK, SMT
  <2> HIDE DEF x, ms
  <2> QED
    BY <2>1, <2>2, RowAssumption
<1>5. ASSUME NEW p \in Projects, ~seen(p), ~cut, rows[p] # NoRow
      PROVE  /\ ms[p] # NoRow /\ ms[p] \in Row /\ RowOK(ms[p]) /\ ms[p].missing
             /\ ms[p].applied = rows[p].applied /\ ms[p].observed = rows[p].observed
  <2> DEFINE x == MissingRow(rows[p])
  <2>1. ms[p] = x
    BY <1>5, SMT
  <2>2. x \in Row /\ RowOK(x) /\ x.missing /\ x.applied = rows[p].applied /\ x.observed = rows[p].observed
    BY <1>1, <1>5, MissingRowOK
  <2> HIDE DEF x, ms
  <2> QED
    BY <2>1, <2>2, RowAssumption
<1>6. ASSUME NEW p \in Projects, ~(seen(p) /\ Newer(p, l.at)), ~(~seen(p) /\ ~cut /\ rows[p] # NoRow)
      PROVE  ms[p] = rows[p]
  BY <1>6, SMT
<1>7. ms \in Table
  <2>1. \A p \in Projects : ms[p] \in Row \cup {NoRow}
    <3> HIDE DEF ms, seen
    <3> QED
      BY <1>1, <1>4, <1>5, <1>6 DEF Table
  <2> QED
    BY <2>1 DEF Table
<1> HIDE DEF ms
<1>8. /\ ws \in Table /\ SameRows(ws, ms)
      /\ \A p \in Projects : ms[p] # NoRow =>
           /\ ws[p] = [ms[p] EXCEPT !.includedBy = Parents(ms, p)]
           /\ ws[p].includedBy = Parents(ws, p)
           /\ ws[p].collision = ms[p].collision /\ ws[p].readOnly = ms[p].readOnly
  BY <1>3, <1>7, WithIncludesRows, SMT
<1>9. \A p \in Projects : ms[p] # NoRow =>
           /\ ws[p] # NoRow /\ ws[p] \in Row /\ Kept(ws[p], ms[p])
           /\ ws[p] = [ms[p] EXCEPT !.includedBy = ws[p].includedBy]
  <2> SUFFICES ASSUME NEW p \in Projects, ms[p] # NoRow
               PROVE  /\ ws[p] # NoRow /\ ws[p] \in Row /\ Kept(ws[p], ms[p])
                      /\ ws[p] = [ms[p] EXCEPT !.includedBy = ws[p].includedBy]
    OBVIOUS
  <2>1. ms[p] \in Row /\ ws[p] \in Row /\ Kept(ws[p], ms[p]) /\ ws[p] = [ms[p] EXCEPT !.includedBy = Parents(ms, p)]
    BY <1>7, <1>8 DEF Table, SameRows
  <2>2. ws[p].includedBy = Parents(ms, p)
    <3>1. SameRows(ws, ms) /\ ms \in Table
      BY <1>7, <1>8
    <3>2. Parents(ws, p) = Parents(ms, p)
      BY <3>1, ParentsStay
    <3> QED
      BY <3>2, <1>8
  <2>3. \A S : S = Parents(ms, p) => ws[p] = [ms[p] EXCEPT !.includedBy = S]
    BY <2>1
  <2>4. ws[p] = [ms[p] EXCEPT !.includedBy = ws[p].includedBy]
    BY <2>2, <2>3
  <2> QED
    BY <2>1, <2>4, RowAssumption
<1>10. \A p \in Projects : ms[p] = NoRow => ws[p] = NoRow
  BY <1>8 DEF SameRows
<1>11. ASSUME NEW p \in Projects, ms[p] # NoRow
       PROVE  RowOK(ms[p]) => RowOK(ws[p])
  <2>1. Kept(ws[p], ms[p]) /\ ws[p].collision = ms[p].collision /\ ws[p].readOnly = ms[p].readOnly
    BY <1>8, <1>9, <1>11
  <2>2. projectReadOnly(ws[p]) = projectReadOnly(ms[p])
    BY <2>1 DEF projectReadOnly, Kept
  <2>3. Sound(ms[p]) => Sound(ws[p])
    BY <2>1, KeptIsSound
  <2> QED
    BY <2>1, <2>2, <2>3 DEF RowOK, Kept
<1>12. \A p \in Projects : ms[p] # NoRow =>
         /\ RowOK(ms[p])
         /\ ms[p].applied # NoFacts => (rows[p] # NoRow /\ ms[p].applied = rows[p].applied)
  <2> HIDE DEF seen
  <2> QED
    BY <1>1, <1>4, <1>5, <1>6 DEF Baseline
<1>13. ASSUME NEW p \in Projects, ws[p] # NoRow
       PROVE  /\ RowOK(ws[p]) /\ ws[p].includedBy = Parents(ws, p)
              /\ ws[p].applied # NoFacts => (rows[p] # NoRow /\ ws[p].applied = rows[p].applied)
  <2>1. ms[p] # NoRow
    BY <1>10, <1>13
  <2>2. RowOK(ws[p]) /\ ws[p].includedBy = Parents(ws, p) /\ ws[p].applied = ms[p].applied
    BY <2>1, <1>8, <1>9, <1>11, <1>12 DEF Kept
  <2> QED
    BY <2>1, <2>2, <1>12
<1>14. ASSUME NEW p \in Projects, seen(p), Newer(p, l.at)
       PROVE  /\ ws[p] # NoRow /\ ~ws[p].missing /\ ws[p].observed = l.at
              /\ rows[p] # NoRow => ws[p].applied = rows[p].applied
              /\ ws[p].managed = items[p].managed /\ ws[p].executable = items[p].executable
              /\ ws[p].recovery = items[p].recovery
              /\ ~items[p].stale => ws[p].current = items[p].current
              /\ (items[p].name # NoName /\ ~items[p].stale) => ws[p].name = items[p].name
              /\ ws[p].collision = NameCollision(items, p)
  <2>1. ms[p] # NoRow
    BY <1>4, <1>14
  <2>2. ws[p] # NoRow /\ Kept(ws[p], ms[p]) /\ ws[p].collision = ms[p].collision
    BY <2>1, <1>8, <1>9
  <2> QED
    BY <1>4, <1>14, <2>2 DEF Kept, Baseline
<1>15. ASSUME NEW p \in Projects, ~seen(p), ~cut, rows[p] # NoRow
       PROVE  /\ ws[p] # NoRow /\ ws[p].missing
              /\ ws[p].applied = rows[p].applied /\ ws[p].observed = rows[p].observed
  <2>1. ms[p] # NoRow
    BY <1>5, <1>15
  <2>2. ws[p] # NoRow /\ Kept(ws[p], ms[p])
    BY <2>1, <1>9
  <2> QED
    BY <1>5, <1>15, <2>2 DEF Kept
<1>16. \A p \in Projects : (~(seen(p) /\ Newer(p, l.at)) /\ ~(~seen(p) /\ ~cut) /\ rows[p] # NoRow) =>
         ws[p] # NoRow /\ ws[p] = [rows[p] EXCEPT !.includedBy = ws[p].includedBy]
  BY <1>6, <1>9
<1>17. \A p \in Projects : (~seen(p) /\ rows[p] = NoRow) => ws[p] = NoRow
  BY <1>6, <1>10
<1> QED
  BY <1>8, <1>13, <1>14, <1>15, <1>16, <1>17 DEF cut

(* The rows an answer about one project leaves                              *)
(* (mergeTargetedProjectSnapshotObserved).                                  *)
LEMMA AfterOneRows ==
    ASSUME ServerInv, NEW o \in ones, o.answer # NoAnswer, rows[o.project] # NoRow,
           o.baseline => (~o.answer.stale /\ o.answer.executable), NEW cs, cs = AfterOne(o)
    PROVE  /\ cs \in Table
           /\ \A p \in Projects : cs[p] # NoRow =>
                /\ RowOK(cs[p]) /\ cs[p].includedBy = Parents(cs, p)
                /\ cs[p].applied # NoFacts => "up" \in done[p]
           /\ \A p \in Projects : rows[p] # NoRow =>
                /\ cs[p] # NoRow
                /\ cs[p].applied # rows[p].applied => (cs[p].applied = cs[p].current /\ cs[p].executable)
<1> DEFINE t == o.project
           r == rows[t]
           i == [o.answer EXCEPT !.managed = r.managed, !.recovery = FALSE]
           a == IF o.baseline THEN i.current ELSE r.applied
           at == o.at
           m == Merged(r, i, at, a)
           ms == [rows EXCEPT ![t] = m]
           ws == WithIncludes(ms)
<1>1. rows \in Table /\ \A p \in Projects : rows[p] # NoRow =>
                          /\ rows[p] \in Row /\ Sound(rows[p])
                          /\ rows[p].applied # NoFacts => "up" \in done[p]
  BY RowsAreOK
<1>2. /\ t \in Projects /\ o.at \in Nat /\ o.answer \in Item /\ Runs(o.answer)
      /\ o.baseline => "up" \in done[t]
  <2>1. o \in [project : Projects, at : Nat, baseline : BOOLEAN, answer : Item \cup {NoAnswer}]
    BY DEF ServerInv, MirrorIsConsistent, MirrorTypeOK
  <2> QED
    BY <2>1 DEF ServerInv, AnswerInv
<1>3. r \in Row /\ Sound(r) /\ r.managed \in BOOLEAN /\ r # NoRow
  BY <1>1, <1>2 DEF Row
<1>4. cs = WithCollisions(ws)
  BY DEF AfterOne
<1> HIDE DEF r
<1>5. /\ i \in Item /\ i.name = o.answer.name /\ i.stale = o.answer.stale
      /\ i.executable = o.answer.executable /\ i.current = o.answer.current
  BY <1>2, <1>3 DEF Item
<1> HIDE DEF i
<1>6. Runs(i) /\ (o.baseline => (~i.stale /\ i.executable))
  BY <1>2, <1>5 DEF Runs
<1>7. a \in FactsOrNone /\ ((i.stale /\ r # NoRow) => a = r.applied)
  BY <1>3, <1>5, <1>6 DEF Item, Row
<1> HIDE DEF a
<1>8. /\ m \in Row /\ Sound(m) /\ m.applied = a /\ m.executable = i.executable
      /\ ~i.stale => m.current = i.current
  <2>1. /\ r \in Row \cup {NoRow} /\ i \in Item /\ at \in Nat /\ a \in FactsOrNone /\ Runs(i)
        /\ r # NoRow => Sound(r)
        /\ (i.stale /\ r # NoRow) => a = r.applied
    BY <1>2, <1>3, <1>5, <1>6, <1>7
  <2> HIDE DEF at
  <2>2. /\ m \in Row /\ Sound(m) /\ ~m.missing /\ m.observed = at /\ m.applied = a
        /\ m.managed = i.managed /\ m.executable = i.executable /\ m.recovery = i.recovery
        /\ ~i.stale => m.current = i.current
        /\ i.name # NoName => m.name = i.name
    BY <2>1, MergedRow, SMT
  <2> QED
    BY <2>2
<1> HIDE DEF m
<1>9. \A p \in Projects : ms[p] = IF p = t THEN m ELSE rows[p]
  BY <1>1 DEF Table
<1>10. ms \in Table
  BY <1>1, <1>8 DEF Table
<1> HIDE DEF ms, t
<1>11. \A p \in Projects : /\ rows[p] # NoRow => ms[p] # NoRow
                           /\ ms[p] # NoRow => Sound(ms[p])
  BY <1>1, <1>8, <1>9, RowAssumption
<1>12. /\ m.applied # NoFacts => "up" \in done[t]
       /\ m.applied # r.applied => (m.applied = m.current /\ m.executable)
  <2>1. CASE o.baseline
    BY <2>1, <1>2, <1>6, <1>8 DEF a
  <2>2. CASE ~o.baseline
    BY <2>2, <1>1, <1>2, <1>3, <1>8 DEF a, r
  <2> QED
    BY <2>1, <2>2
<1>13. ASSUME NEW p \in Projects, ms[p] # NoRow
       PROVE  /\ ms[p].applied # NoFacts => "up" \in done[p]
              /\ ms[p].applied # rows[p].applied => (ms[p].applied = ms[p].current /\ ms[p].executable)
  BY <1>1, <1>9, <1>12, <1>13 DEF r
<1>14. /\ ws \in Table /\ SameRows(ws, ms)
       /\ \A p \in Projects : ms[p] # NoRow => ws[p].includedBy = Parents(ws, p)
  BY <1>10, WithIncludesRows
<1> HIDE DEF ws
<1>15. /\ cs \in Table /\ SameRows(cs, ws)
       /\ \A p \in Projects : ws[p] # NoRow =>
            /\ cs[p].includedBy = ws[p].includedBy
            /\ cs[p].collision => Present(ws[p])
            /\ cs[p].readOnly = projectReadOnly(cs[p])
  <2> DEFINE x == WithCollisions(ws)
  <2>1. ws \in Table
    BY <1>14
  <2>2. /\ x \in Table /\ SameRows(x, ws)
        /\ \A p \in Projects : ws[p] # NoRow =>
             /\ x[p].includedBy = ws[p].includedBy
             /\ x[p].collision => Present(ws[p])
             /\ x[p].readOnly = projectReadOnly(x[p])
    BY <2>1, WithCollisionsRows
  <2> HIDE DEF x
  <2>3. cs = x
    BY <1>4 DEF x
  <2> QED
    BY <2>2, <2>3
<1>16. \A p \in Projects : /\ ms[p] = NoRow => cs[p] = NoRow
                           /\ ms[p] # NoRow => (ws[p] # NoRow /\ cs[p] # NoRow)
  BY <1>14, <1>15, RowAssumption DEF SameRows
<1>17. \A p \in Projects : ms[p] # NoRow => (Kept(ws[p], ms[p]) /\ Kept(cs[p], ws[p]))
  BY <1>14, <1>15, <1>16 DEF SameRows
<1>18. ASSUME NEW p \in Projects, ms[p] # NoRow
       PROVE  /\ RowOK(cs[p]) /\ cs[p].includedBy = Parents(cs, p)
              /\ cs[p].applied = ms[p].applied /\ cs[p].current = ms[p].current
              /\ cs[p].executable = ms[p].executable
  <2>1. ws[p] # NoRow /\ Kept(ws[p], ms[p]) /\ Kept(cs[p], ws[p]) /\ Sound(ms[p])
    BY <1>11, <1>16, <1>17, <1>18
  <2>2. Sound(ws[p])
    BY <2>1, KeptIsSound
  <2>3. Sound(cs[p])
    BY <2>1, <2>2, KeptIsSound
  <2>4. cs[p].missing => ~cs[p].collision
    BY <2>1, <1>15 DEF Present, Kept
  <2>5. Parents(cs, p) = Parents(ws, p)
    <3>1. SameRows(cs, ws) /\ ws \in Table
      BY <1>14, <1>15
    <3> QED
      BY <3>1, ParentsStay
  <2>6. cs[p].includedBy = Parents(cs, p)
    BY <2>1, <2>5, <1>14, <1>15, <1>18
  <2>7. RowOK(cs[p])
    BY <2>1, <2>3, <2>4, <1>15 DEF RowOK
  <2> QED
    BY <2>1, <2>6, <2>7 DEF Kept
<1>19. ASSUME NEW p \in Projects, cs[p] # NoRow
       PROVE  /\ RowOK(cs[p]) /\ cs[p].includedBy = Parents(cs, p)
              /\ cs[p].applied # NoFacts => "up" \in done[p]
  <2>1. ms[p] # NoRow
    BY <1>16, <1>19
  <2> QED
    BY <2>1, <1>13, <1>18
<1>20. ASSUME NEW p \in Projects, rows[p] # NoRow
       PROVE  /\ cs[p] # NoRow
              /\ cs[p].applied # rows[p].applied => (cs[p].applied = cs[p].current /\ cs[p].executable)
  <2>1. ms[p] # NoRow /\ cs[p] # NoRow
    BY <1>11, <1>16, <1>20
  <2> QED
    BY <2>1, <1>13, <1>18
<1> QED
  BY <1>15, <1>19, <1>20

(***************************************************************************)
(* The mirror: one lemma per action                                        *)
(***************************************************************************)

AgentVars == <<files, catalog, scanned, walk, ops, done, containers, blocked, owed, origin, policy>>

(* The Agent does nothing. *)
LEMMA AgentStands ==
    ASSUME AgentInv, UNCHANGED AgentVars
    PROVE  AgentInv' /\ DoneGrows
<1>1. CatalogTypeOK'
  BY DEF AgentInv, CatalogTypeOK, AgentVars
<1>2. ChangesStayVisible' /\ CatalogInv' /\ DoneGrows
  BY CatalogStands DEF AgentVars
<1>3. OpsInv'
  BY DEF AgentInv, OpsInv, AgentVars
<1>4. WalkInv'
  BY DEF AgentInv, WalkInv, AgentVars, Honest, ValidEntry
<1> QED
  BY <1>1, <1>2, <1>3, <1>4 DEF AgentInv

(* The rows stay: they are as right as they were, for a baseline's          *)
(* operation stays done.                                                    *)
LEMMA RowsStand ==
    ASSUME ServerInv, DoneGrows, rows' = rows
    PROVE  (\A p \in Projects : rows[p] # NoRow => RowIsConsistent(p))' /\ RowInv'
<1>1. rows' \in Table
  BY RowsAreOK
<1>2. \A p \in Projects : rows'[p] # NoRow =>
        /\ RowOK(rows'[p]) /\ rows'[p].includedBy = Parents(rows', p)
        /\ rows'[p].applied # NoFacts => "up" \in done'[p]
  BY RowsAreOK DEF DoneGrows
<1> QED
  BY <1>1, <1>2, ConsistentTable

(* The Agent acts on its own, or an operation is sent to it. *)
LEMMA MirrorStands ==
    ASSUME ServerInv, DoneGrows, UNCHANGED mirrorVars
    PROVE  ServerInv'
<1> USE DEF mirrorVars
<1>1. MirrorTypeOK'
  BY DEF ServerInv, MirrorIsConsistent, MirrorTypeOK
<1>2. AnswerInv'
  <2>1. \A o \in ones : o.project \in Projects
    BY DEF ServerInv, MirrorIsConsistent, MirrorTypeOK
  <2> QED
    BY <2>1 DEF ServerInv, AnswerInv, DoneGrows, Runs
<1> QED
  BY <1>1, <1>2, RowsStand DEF ServerInv, MirrorIsConsistent

(* syncAgentProjects asks. *)
LEMMA AskListKeeps ==
    ASSUME ProjectInv, AskList
    PROVE  ProjectInv'
<1> DEFINE n == [at |-> clock', answer |-> NoAnswer]
<1>1. AgentInv' /\ DoneGrows /\ ServerInv
  BY AgentStands DEF ProjectInv, AskList, AgentVars
<1>2. clock \in Nat /\ clock' = clock + 1 /\ lists' = lists \cup {n}
  BY DEF ProjectInv, ServerInv, MirrorIsConsistent, MirrorTypeOK, AskList
<1>3. clock' \in Nat
  BY <1>2, SMT
<1>4. n \in [at : Nat, answer : ListAnswer \cup {NoAnswer}] /\ n.answer = NoAnswer
  BY <1>3
<1> HIDE DEF n
<1>5. MirrorTypeOK'
  BY <1>1, <1>2, <1>3, <1>4 DEF ServerInv, MirrorIsConsistent, MirrorTypeOK, AskList
<1>6. AnswerInv'
  BY <1>1, <1>2, <1>4 DEF ServerInv, AnswerInv, AskList, Runs
<1>7. rows' = rows
  BY DEF AskList
<1> QED
  BY <1>1, <1>5, <1>6, <1>7, RowsStand DEF ProjectInv, ServerInv, MirrorIsConsistent

(* projectListResponse *)
LEMMA AnswerListKeeps ==
    ASSUME ProjectInv, NEW l \in lists, AnswerList(l)
    PROVE  ProjectInv'
<1> DEFINE a == [items |-> Items, at |-> scanned.at, cut |-> scanned.cut]
           n == [l EXCEPT !.answer = a]
<1>1. AgentInv' /\ DoneGrows /\ ServerInv /\ AgentInv
  BY AgentStands DEF ProjectInv, AnswerList, AgentVars, catalogVars
<1>2. /\ Items \in [Projects -> Item \cup {NoItem}]
      /\ \A p \in Projects : Items[p] # NoItem => Runs(Items[p])
  BY <1>1, ItemsRun
<1>3. scanned.at \in Nat /\ scanned.cut \in BOOLEAN
  BY <1>1 DEF AgentInv, CatalogTypeOK
<1>4. a \in ListAnswer /\ a.items = Items
  BY <1>2, <1>3 DEF ListAnswer
<1>5. l \in [at : Nat, answer : ListAnswer \cup {NoAnswer}]
  BY <1>1 DEF ServerInv, MirrorIsConsistent, MirrorTypeOK
<1>6. lists' = (lists \ {l}) \cup {n}
  BY DEF AnswerList
<1> HIDE DEF a
<1>7. n \in [at : Nat, answer : ListAnswer \cup {NoAnswer}] /\ n.answer = a
  BY <1>4, <1>5
<1> HIDE DEF n
<1>8. MirrorTypeOK'
  BY <1>1, <1>6, <1>7 DEF ServerInv, MirrorIsConsistent, MirrorTypeOK, AnswerList, catalogVars
<1>9. AnswerInv'
  <2>1. \A k \in lists' : k.answer # NoAnswer =>
           \A p \in Projects : k.answer.items[p] # NoItem => Runs(k.answer.items[p])
    BY <1>1, <1>2, <1>4, <1>6, <1>7 DEF ServerInv, AnswerInv
  <2>2. ones' = ones /\ done' = done
    BY DEF AnswerList, catalogVars
  <2> QED
    BY <2>1, <2>2, <1>1 DEF ServerInv, AnswerInv, Runs
<1>10. rows' = rows
  BY DEF AnswerList
<1> QED
  BY <1>1, <1>8, <1>9, <1>10, RowsStand DEF ProjectInv, ServerInv, MirrorIsConsistent

(* mergeProjectSnapshotWithDockerObserved *)
LEMMA MergeListKeeps ==
    ASSUME ProjectInv, NEW l \in lists, MergeList(l)
    PROVE  ProjectInv'
<1>1. AgentInv' /\ DoneGrows /\ ServerInv
  BY AgentStands DEF ProjectInv, MergeList, AgentVars, catalogVars
<1>2. lists' \in SUBSET lists /\ ones' = ones /\ done' = done /\ clock' = clock
  BY DEF MergeList, catalogVars
<1>3. AnswerInv'
  BY <1>1, <1>2 DEF ServerInv, AnswerInv, Runs
<1>4. CASE rows' = rows /\ watermark' = watermark
  <2>1. MirrorTypeOK'
    BY <1>1, <1>2, <1>4 DEF ServerInv, MirrorIsConsistent, MirrorTypeOK
  <2> QED
    BY <1>1, <1>3, <1>4, <2>1, RowsStand DEF ProjectInv, ServerInv, MirrorIsConsistent
<1>5. CASE watermark' = l.answer.at /\ rows' = AfterList(l)
  <2>1. l.answer # NoAnswer
    BY DEF MergeList
  <2>2. /\ rows' \in Table
        /\ \A p \in Projects : rows'[p] # NoRow =>
             /\ RowOK(rows'[p]) /\ rows'[p].includedBy = Parents(rows', p)
             /\ rows'[p].applied # NoFacts => (rows[p] # NoRow /\ rows'[p].applied = rows[p].applied)
    <3> DEFINE ws == AfterList(l)
               items == l.answer.items
    <3>1. ws = AfterList(l) /\ items = l.answer.items
      OBVIOUS
    <3> HIDE DEF ws, items
    <3>2. /\ ws \in Table
          /\ \A p \in Projects : ws[p] # NoRow =>
               /\ RowOK(ws[p]) /\ ws[p].includedBy = Parents(ws, p)
               /\ ws[p].applied # NoFacts => (rows[p] # NoRow /\ ws[p].applied = rows[p].applied)
      BY <1>1, <2>1, <3>1, AfterListRows, SMT
    <3> QED
      BY <3>1, <3>2, <1>5
  <2>3. \A p \in Projects : rows'[p] # NoRow => (rows'[p].applied # NoFacts => "up" \in done'[p])
    BY <2>2, <1>1, <1>2, RowsAreOK
  <2>4. (\A p \in Projects : rows[p] # NoRow => RowIsConsistent(p))' /\ RowInv'
    BY <2>2, <2>3, ConsistentTable
  <2>5. l.answer.at \in Nat
    <3>1. l \in [at : Nat, answer : ListAnswer \cup {NoAnswer}]
      BY <1>1 DEF ServerInv, MirrorIsConsistent, MirrorTypeOK
    <3>2. l.answer \in ListAnswer
      BY <2>1, <3>1
    <3> QED
      BY <3>2 DEF ListAnswer
  <2>6. MirrorTypeOK'
    BY <1>1, <1>2, <1>5, <2>2, <2>5 DEF ServerInv, MirrorIsConsistent, MirrorTypeOK, Table
  <2> QED
    BY <1>1, <1>3, <2>4, <2>6 DEF ProjectInv, ServerInv, MirrorIsConsistent
<1> QED
  BY <1>4, <1>5 DEF MergeList

(* mergeAndSyncOperation asks: a baseline is asked for once a compose.up    *)
(* succeeded.                                                               *)
LEMMA AskOneKeeps ==
    ASSUME ProjectInv, NEW p \in Projects, AskOne(p)
    PROVE  ProjectInv'
<1>1. AgentInv' /\ DoneGrows /\ ServerInv
  BY AgentStands DEF ProjectInv, AskOne, AgentVars
<1>2. PICK kind \in done[p] :
        ones' = ones \cup {[project |-> p, at |-> clock', baseline |-> (kind = "up"), answer |-> NoAnswer]}
  BY DEF AskOne
<1> DEFINE n == [project |-> p, at |-> clock', baseline |-> (kind = "up"), answer |-> NoAnswer]
<1>3. clock' \in Nat
  <2>1. clock \in Nat /\ clock' = clock + 1
    BY <1>1 DEF ServerInv, MirrorIsConsistent, MirrorTypeOK, AskOne
  <2> QED
    BY <2>1, SMT
<1>4. (kind = "up") \in BOOLEAN
  BY SMT
<1>5. /\ n \in [project : Projects, at : Nat, baseline : BOOLEAN, answer : Item \cup {NoAnswer}]
      /\ n.project = p /\ n.answer = NoAnswer /\ n.baseline = (kind = "up")
  BY <1>3, <1>4
<1>6. ones' = ones \cup {n}
  BY <1>2
<1> HIDE DEF n
<1>7. n.baseline => "up" \in done[n.project]
  BY <1>2, <1>5
<1>8. MirrorTypeOK'
  BY <1>1, <1>3, <1>5, <1>6 DEF ServerInv, MirrorIsConsistent, MirrorTypeOK, AskOne
<1>9. lists' = lists /\ done' = done /\ rows' = rows
  BY DEF AskOne
<1>10. AnswerInv'
  BY <1>1, <1>5, <1>6, <1>7, <1>9 DEF ServerInv, AnswerInv, Runs
<1> QED
  BY <1>1, <1>8, <1>9, <1>10, RowsStand DEF ProjectInv, ServerInv, MirrorIsConsistent

(* projectResponse *)
LEMMA AnswerOneKeeps ==
    ASSUME ProjectInv, NEW o \in ones, AnswerOne(o)
    PROVE  ProjectInv'
<1> DEFINE a == ProjectItem(o.project)
           n == [o EXCEPT !.answer = a]
<1>1. AgentInv' /\ DoneGrows /\ ServerInv /\ AgentInv
  BY AgentStands DEF ProjectInv, AnswerOne, AgentVars, catalogVars
<1>2. o \in [project : Projects, at : Nat, baseline : BOOLEAN, answer : Item \cup {NoAnswer}]
  BY <1>1 DEF ServerInv, MirrorIsConsistent, MirrorTypeOK
<1>3. o.project \in Projects /\ catalog[o.project] # NoEntry
  BY <1>2 DEF AnswerOne
<1>4. a \in Item /\ Runs(a)
  BY <1>1, <1>3, ProjectItemRuns
<1>5. ones' = (ones \ {o}) \cup {n}
  BY DEF AnswerOne
<1> HIDE DEF a
<1>6. /\ n \in [project : Projects, at : Nat, baseline : BOOLEAN, answer : Item \cup {NoAnswer}]
      /\ n.answer = a /\ n.project = o.project /\ n.baseline = o.baseline
  BY <1>2, <1>4
<1> HIDE DEF n
<1>7. MirrorTypeOK'
  BY <1>1, <1>5, <1>6 DEF ServerInv, MirrorIsConsistent, MirrorTypeOK, AnswerOne
<1>8. lists' = lists /\ done' = done /\ rows' = rows
  BY DEF AnswerOne, catalogVars
<1>9. AnswerInv'
  BY <1>1, <1>4, <1>5, <1>6, <1>8 DEF ServerInv, AnswerInv, Runs
<1> QED
  BY <1>1, <1>7, <1>8, <1>9, RowsStand DEF ProjectInv, ServerInv, MirrorIsConsistent

(* mergeTargetedProjectSnapshotObserved *)
LEMMA MergeOneKeeps ==
    ASSUME ProjectInv, NEW o \in ones, MergeOne(o)
    PROVE  ProjectInv'
<1>1. AgentInv' /\ DoneGrows /\ ServerInv
  BY AgentStands DEF ProjectInv, MergeOne, AgentVars, catalogVars
<1>2. ones' \in SUBSET ones /\ lists' = lists /\ done' = done /\ clock' = clock /\ watermark' = watermark
  BY DEF MergeOne, catalogVars
<1>3. AnswerInv'
  BY <1>1, <1>2 DEF ServerInv, AnswerInv, Runs
<1>4. CASE rows' = rows
  <2>1. MirrorTypeOK'
    BY <1>1, <1>2, <1>4 DEF ServerInv, MirrorIsConsistent, MirrorTypeOK
  <2> QED
    BY <1>1, <1>3, <1>4, <2>1, RowsStand DEF ProjectInv, ServerInv, MirrorIsConsistent
<1>5. CASE rows' = AfterOne(o) /\ rows[o.project] # NoRow /\ (o.baseline => (~o.answer.stale /\ o.answer.executable))
  <2>1. /\ rows' \in Table
        /\ \A p \in Projects : rows'[p] # NoRow =>
             /\ RowOK(rows'[p]) /\ rows'[p].includedBy = Parents(rows', p)
             /\ rows'[p].applied # NoFacts => "up" \in done'[p]
    <3> DEFINE cs == AfterOne(o)
    <3>1. o.answer # NoAnswer /\ cs = AfterOne(o)
      BY DEF MergeOne
    <3> HIDE DEF cs
    <3>2. /\ cs \in Table
          /\ \A p \in Projects : cs[p] # NoRow =>
               /\ RowOK(cs[p]) /\ cs[p].includedBy = Parents(cs, p)
               /\ cs[p].applied # NoFacts => "up" \in done[p]
      BY <1>1, <1>5, <3>1, AfterOneRows, SMT
    <3> QED
      BY <3>1, <3>2, <1>2, <1>5
  <2>2. (\A p \in Projects : rows[p] # NoRow => RowIsConsistent(p))' /\ RowInv'
    BY <2>1, ConsistentTable
  <2>3. MirrorTypeOK'
    BY <1>1, <1>2, <2>1 DEF ServerInv, MirrorIsConsistent, MirrorTypeOK, Table
  <2> QED
    BY <1>1, <1>3, <2>2, <2>3 DEF ProjectInv, ServerInv, MirrorIsConsistent
<1> QED
  BY <1>4, <1>5 DEF MergeOne

(* authorizeOperationTarget lets an operation through. *)
LEMMA SubmitKeeps ==
    ASSUME ProjectInv, NEW p \in Projects, Submit(p)
    PROVE  ProjectInv'
<1>1. PICK kind \in {"up", "write"} : ops' = [ops EXCEPT ![p] = [kind |-> kind, phase |-> "sent", name |-> NoName]]
  BY DEF Submit
<1> DEFINE o == [kind |-> kind, phase |-> "sent", name |-> NoName]
<1>2. o \in Operation /\ o.phase = "sent" /\ o.kind = kind
  BY SMT DEF Operation, Names
<1>3. ops' = [ops EXCEPT ![p] = o]
  BY <1>1
<1> HIDE DEF o
<1>4. ops[p].phase # "ran" /\ (o.phase # "none" => o.kind # "none")
  BY <1>2, NoOpIsOne DEF Submit
<1>5. ops' \in [Projects -> Operation] /\ OpsInv' /\ WalkInv'
  BY <1>2, <1>3, <1>4, OpsMove DEF ProjectInv, Submit
<1>6. ChangesStayVisible' /\ CatalogInv' /\ DoneGrows
  BY CatalogStands DEF ProjectInv, Submit
<1>7. CatalogTypeOK'
  BY <1>5 DEF ProjectInv, AgentInv, CatalogTypeOK, Submit
<1>8. ServerInv'
  BY <1>6, MirrorStands DEF ProjectInv, Submit
<1> QED
  BY <1>5, <1>6, <1>7, <1>8 DEF ProjectInv, AgentInv

(***************************************************************************)
(* The theorems                                                            *)
(***************************************************************************)

(* Nothing is known yet. *)
LEMMA ProjectInvInit == MirrorInit(CatalogScenes) => ProjectInv
<1> SUFFICES ASSUME MirrorInit(CatalogScenes)
             PROVE  ProjectInv
  OBVIOUS
<1>1. AgentInv
  BY AgentInit DEF MirrorInit
<1>2. \A p \in Projects : rows[p] = NoRow
  BY DEF MirrorInit
<1>3. MirrorTypeOK
  <2>1. rows \in [Projects -> Row \cup {NoRow}] /\ lists = {} /\ ones = {}
    BY DEF MirrorInit
  <2>2. watermark \in Nat /\ clock \in Nat
    BY SMT DEF MirrorInit
  <2> QED
    BY <2>1, <2>2 DEF MirrorTypeOK
<1>4. AnswerInv
  BY DEF MirrorInit, AnswerInv
<1> QED
  BY <1>1, <1>2, <1>3, <1>4 DEF ProjectInv, ServerInv, MirrorIsConsistent, RowInv

(* Every step of the Agent and of the Server keeps the invariant. *)
LEMMA ProjectInvStep ==
    ASSUME ProjectInv, [MirrorNext]_projectVars
    PROVE  ProjectInv'
<1>1. CASE CatalogNext /\ UNCHANGED mirrorVars
  <2>1. AgentInv' /\ DoneGrows
    BY <1>1, CatalogKeeps DEF ProjectInv
  <2> QED
    BY <1>1, <2>1, MirrorStands DEF ProjectInv
<1>2. CASE AskList
  BY <1>2, AskListKeeps
<1>3. CASE \E l \in lists : AnswerList(l) \/ MergeList(l)
  BY <1>3, AnswerListKeeps, MergeListKeeps
<1>4. CASE \E p \in Projects : AskOne(p) \/ Submit(p)
  BY <1>4, AskOneKeeps, SubmitKeeps
<1>5. CASE \E o \in ones : AnswerOne(o) \/ MergeOne(o)
  BY <1>5, AnswerOneKeeps, MergeOneKeeps
<1>6. CASE UNCHANGED projectVars
  <2>1. AgentInv' /\ DoneGrows
    BY <1>6, AgentStands DEF ProjectInv, projectVars, catalogVars, AgentVars
  <2> QED
    BY <1>6, <2>1, MirrorStands DEF ProjectInv, projectVars
<1> QED
  BY <1>1, <1>2, <1>3, <1>4, <1>5, <1>6 DEF MirrorNext

(* The invariant holds whatever the interleaving of scans, operations,      *)
(* edits, crashes, requests and late answers.                               *)
LEMMA ProjectInvariant == MirrorSpec => []ProjectInv
<1>1. ProjectInv /\ [MirrorNext]_projectVars => ProjectInv'
  BY ProjectInvStep
<1> QED
  BY ProjectInvInit, <1>1, PTL DEF MirrorSpec

(* For any projects, contents and policy: a change people made is either    *)
(* recorded or still to be seen, what the catalog answers is valid, and     *)
(* unless the files moved under an evaluation the name of a project is that *)
(* of the files hashed (rescan, RescanForExternalChanges).                  *)
THEOREM CatalogHonest == MirrorSpec => []CatalogIsHonest
<1>1. ProjectInv => CatalogIsHonest
  <2> SUFFICES ASSUME ProjectInv
               PROVE  CatalogIsHonest
    OBVIOUS
  <2>1. AgentInv
    BY DEF ProjectInv
  <2>2. NamesAreRight
    <3> SUFFICES ASSUME NEW p \in Projects, Managed(catalog[p]), ~origin[p].torn
                 PROVE  origin[p].of # Absent /\ catalog[p].name = NameOf[origin[p].of]
      BY DEF NamesAreRight
    <3>1. Honest(catalog[p], origin[p].of, origin[p].torn) /\ catalog[p].executable
      BY <2>1 DEF AgentInv, CatalogInv, Managed
    <3>2. Absent \notin Contents
      BY ContentAssumption
    <3> QED
      BY <3>1, <3>2 DEF Honest
  <2> QED
    BY <2>1, <2>2 DEF AgentInv, CatalogInv, CatalogIsHonest, Honest
<1> QED
  BY <1>1, ProjectInvariant, PTL

(* For any projects and any number of requests, answered and merged in any  *)
(* order: no row of the mirror contradicts itself or the other rows         *)
(* (mergeProjectSnapshotWithDockerObserved,                                 *)
(* mergeTargetedProjectSnapshotObserved).                                   *)
THEOREM MirrorConsistent == MirrorSpec => []MirrorIsConsistent
<1>1. ProjectInv => MirrorIsConsistent
  BY DEF ProjectInv, ServerInv
<1> QED
  BY <1>1, ProjectInvariant, PTL

(* What a step does to the rows: nothing, or what the merge of a list of a  *)
(* later scan does, or what the merge of an answer about one project does.  *)
LEMMA StepsOfRows ==
    ASSUME ServerInv, [MirrorNext]_projectVars
    PROVE  \/ rows' = rows /\ watermark' = watermark
           \/ \E l \in lists : /\ l.answer # NoAnswer /\ lists' = lists \ {l}
                               /\ l.answer.at > watermark /\ watermark' = l.answer.at /\ rows' = AfterList(l)
           \/ \E o \in ones : /\ o.answer # NoAnswer /\ watermark' = watermark /\ rows' = AfterOne(o)
                              /\ rows[o.project] # NoRow
                              /\ o.baseline => (~o.answer.stale /\ o.answer.executable)
<1>1. CASE CatalogNext /\ UNCHANGED mirrorVars
  BY <1>1 DEF mirrorVars
<1>2. CASE AskList
  BY <1>2 DEF AskList
<1>3. CASE \E l \in lists : AnswerList(l) \/ MergeList(l)
  BY <1>3 DEF AnswerList, MergeList
<1>4. CASE \E p \in Projects : AskOne(p) \/ Submit(p)
  BY <1>4 DEF AskOne, Submit, mirrorVars
<1>5. CASE \E o \in ones : AnswerOne(o) \/ MergeOne(o)
  BY <1>5 DEF AnswerOne, MergeOne
<1>6. CASE UNCHANGED projectVars
  BY <1>6 DEF projectVars, mirrorVars
<1> QED
  BY <1>1, <1>2, <1>3, <1>4, <1>5, <1>6 DEF MirrorNext

(* For any projects and requests: scans are taken up in order, rows never   *)
(* vanish, a late list undoes nothing a later request showed, and only a    *)
(* compose.up's answer moves a baseline, to the fingerprint it shows        *)
(* (isNewerProjectObservation, projects_scanned_at).                        *)
THEOREM MirrorForward == MirrorSpec => MirrorMovesForward
<1> DEFINE A == /\ watermark' >= watermark
                /\ \A p \in Projects : rows[p] # NoRow =>
                     /\ rows'[p] # NoRow
                     /\ rows'[p].applied # rows[p].applied =>
                          (rows'[p].applied = rows'[p].current /\ rows'[p].executable)
                /\ watermark' # watermark => ListsRespectOrder
<1>1. ASSUME ProjectInv, [MirrorNext]_projectVars
      PROVE  A
  <2>1. ServerInv /\ watermark \in Nat
    BY <1>1 DEF ProjectInv, ServerInv, MirrorIsConsistent, MirrorTypeOK
  <2>2. CASE rows' = rows /\ watermark' = watermark
    <3>1. watermark' >= watermark
      BY <2>1, <2>2, SMT
    <3> QED
      BY <2>2, <3>1
  <2>3. CASE \E l \in lists : /\ l.answer # NoAnswer /\ l.answer.at > watermark
                              /\ watermark' = l.answer.at /\ rows' = AfterList(l)
    <3>1. PICK l \in lists : /\ l.answer # NoAnswer /\ l.answer.at > watermark
                             /\ watermark' = l.answer.at /\ rows' = AfterList(l)
      BY <2>3
    <3> DEFINE items == l.answer.items
               ws == rows'
               seen(p) == items[p] # NoItem /\ Newer(p, l.at)
               gone(p) == items[p] = NoItem /\ ~l.answer.cut
    <3>2. ws = AfterList(l) /\ items = l.answer.items
      BY <3>1
    <3> HIDE DEF ws, items
    <3>3. /\ \A p \in Projects : (seen(p) /\ rows[p] # NoRow) =>
               ws[p] # NoRow /\ ws[p].observed = l.at /\ ws[p].applied = rows[p].applied
          /\ \A p \in Projects : (gone(p) /\ rows[p] # NoRow) =>
               /\ ws[p] # NoRow /\ ws[p].missing
               /\ ws[p].applied = rows[p].applied /\ ws[p].observed = rows[p].observed
          /\ \A p \in Projects : (~seen(p) /\ ~gone(p) /\ rows[p] # NoRow) =>
               ws[p] # NoRow /\ ws[p] = [rows[p] EXCEPT !.includedBy = ws[p].includedBy]
      BY <2>1, <3>1, <3>2, AfterListRows, SMT
    <3>4. l.answer.at \in Nat /\ l.at \in Nat
      <4>1. l \in [at : Nat, answer : ListAnswer \cup {NoAnswer}]
        BY <2>1 DEF ServerInv, MirrorIsConsistent, MirrorTypeOK
      <4>2. l.answer \in ListAnswer /\ l.at \in Nat
        BY <3>1, <4>1
      <4> QED
        BY <4>2 DEF ListAnswer
    <3>5. watermark' >= watermark
      BY <2>1, <3>1, <3>4, SMT
    <3>6. ASSUME NEW p \in Projects, rows[p] # NoRow
          PROVE  /\ ws[p] # NoRow /\ ws[p].applied = rows[p].applied
                 /\ ws[p].observed >= rows[p].observed
                 /\ (ws[p].observed = rows[p].observed /\ ~ws[p].missing) =>
                       ws[p] = [rows[p] EXCEPT !.includedBy = ws[p].includedBy]
      <4>1. rows[p] \in Row /\ rows[p].observed \in Nat
        BY <2>1, <3>6 DEF ServerInv, MirrorIsConsistent, MirrorTypeOK, Row
      <4>2. CASE seen(p)
        <5>1. ws[p] # NoRow /\ ws[p].observed = l.at /\ ws[p].applied = rows[p].applied
          BY <3>3, <3>6, <4>2
        <5>2. l.at > rows[p].observed
          BY <3>6, <4>2 DEF Newer
        <5>3. ws[p].observed >= rows[p].observed /\ ws[p].observed # rows[p].observed
          BY <3>4, <4>1, <5>1, <5>2, SMT
        <5> QED
          BY <5>1, <5>3
      <4>3. CASE gone(p)
        <5>1. /\ ws[p] # NoRow /\ ws[p].missing
              /\ ws[p].applied = rows[p].applied /\ ws[p].observed = rows[p].observed
          BY <3>3, <3>6, <4>3
        <5>2. ws[p].observed >= rows[p].observed
          BY <4>1, <5>1, SMT
        <5> QED
          BY <5>1, <5>2
      <4>4. CASE ~seen(p) /\ ~gone(p)
        <5>1. ws[p] # NoRow /\ ws[p] = [rows[p] EXCEPT !.includedBy = ws[p].includedBy]
          BY <3>3, <3>6, <4>4
        <5>2. ws[p].applied = rows[p].applied /\ ws[p].observed = rows[p].observed
          <6> DEFINE S == ws[p].includedBy
          <6> HIDE DEF S
          <6>1. ws[p] = [rows[p] EXCEPT !.includedBy = S]
            BY <5>1 DEF S
          <6> QED
            BY <4>1, <6>1 DEF Row
        <5>3. ws[p].observed >= rows[p].observed
          BY <4>1, <5>2, SMT
        <5> QED
          BY <5>1, <5>2, <5>3
      <4> QED
        BY <4>2, <4>3, <4>4
    <3>7. ListsRespectOrder
      BY <3>6 DEF ListsRespectOrder, ws
    <3> QED
      BY <3>5, <3>6, <3>7 DEF ws
  <2>4. CASE \E o \in ones : /\ o.answer # NoAnswer /\ watermark' = watermark /\ rows' = AfterOne(o)
                             /\ rows[o.project] # NoRow
                             /\ o.baseline => (~o.answer.stale /\ o.answer.executable)
    <3>1. PICK o \in ones : /\ o.answer # NoAnswer /\ watermark' = watermark /\ rows' = AfterOne(o)
                            /\ rows[o.project] # NoRow
                            /\ o.baseline => (~o.answer.stale /\ o.answer.executable)
      BY <2>4
    <3> DEFINE cs == rows'
    <3>2. cs = AfterOne(o)
      BY <3>1
    <3> HIDE DEF cs
    <3>3. \A p \in Projects : rows[p] # NoRow =>
             /\ cs[p] # NoRow
             /\ cs[p].applied # rows[p].applied => (cs[p].applied = cs[p].current /\ cs[p].executable)
      BY <2>1, <3>1, <3>2, AfterOneRows, SMT
    <3>4. watermark' >= watermark
      BY <2>1, <3>1, SMT
    <3> QED
      BY <3>1, <3>3, <3>4 DEF cs
  <2> QED
    BY <2>1, <2>2, <2>3, <2>4, <1>1, StepsOfRows
<1>2. ProjectInv /\ [MirrorNext]_projectVars => [A]_projectVars
  BY <1>1
<1> QED
  BY <1>2, ProjectInvariant, PTL DEF MirrorSpec, MirrorMovesForward

(* For any projects, and whatever late answers were merged before: once a   *)
(* complete list that was asked for last is merged, the mirror shows every  *)
(* project as it is, shows the others as missing, and locks both of two     *)
(* projects of one name (markNameCollisions).                               *)
THEOREM FreshListIsRight == MirrorSpec => FreshListHeals
<1> DEFINE A == (watermark' # watermark /\ \E l \in lists \ lists' :
                    /\ l.answer = [items |-> Items, at |-> scanned.at, cut |-> FALSE]
                    /\ \A p \in Projects : Newer(p, l.at))
                => /\ \A p \in Projects : Shows(rows'[p], p)
                   /\ \A p, q \in Projects : (Same(p, q) /\ Items[p].name # NoName) => ~MayChange(rows'[p])
<1>1. ASSUME ProjectInv, [MirrorNext]_projectVars
      PROVE  A
  <2> SUFFICES ASSUME watermark' # watermark, NEW l \in lists \ lists',
                      l.answer = [items |-> Items, at |-> scanned.at, cut |-> FALSE],
                      \A p \in Projects : Newer(p, l.at)
               PROVE  /\ \A p \in Projects : Shows(rows'[p], p)
                      /\ \A p, q \in Projects : (Same(p, q) /\ Items[p].name # NoName) => ~MayChange(rows'[p])
    OBVIOUS
  <2>1. ServerInv
    BY <1>1 DEF ProjectInv
  <2>2. l.answer # NoAnswer /\ rows' = AfterList(l)
    BY <2>1, <1>1, StepsOfRows
  <2>3. l.answer.items = Items /\ ~l.answer.cut
    BY SMT
  <2> DEFINE items == Items
             ws == rows'
  <2>4. ws = AfterList(l) /\ items = l.answer.items
    BY <2>2, <2>3
  <2> HIDE DEF items, ws
  <2>5. \A p \in Projects : items[p] # NoItem =>
          /\ ws[p] # NoRow /\ ~ws[p].missing
          /\ ws[p].managed = items[p].managed /\ ws[p].executable = items[p].executable
          /\ ws[p].recovery = items[p].recovery
          /\ ~items[p].stale => ws[p].current = items[p].current
          /\ (items[p].name # NoName /\ ~items[p].stale) => ws[p].name = items[p].name
          /\ ws[p].collision = NameCollision(items, p)
    BY <2>1, <2>2, <2>4, AfterListRows, SMT
  <2>6. \A p \in Projects : items[p] = NoItem => (ws[p] # NoRow => ws[p].missing)
    BY <2>1, <2>2, <2>3, <2>4, AfterListRows, SMT
  <2>7. \A p \in Projects : Shows(ws[p], p)
    BY <2>5, <2>6 DEF Shows, Present, items
  <2>8. ASSUME NEW p \in Projects, NEW q \in Projects, Same(p, q), items[p].name # NoName
        PROVE  ~MayChange(ws[p])
    <3>1. items[p] # NoItem /\ NameCollision(items, p)
      BY <2>8 DEF Same, NameCollision, items
    <3> QED
      BY <2>5, <3>1 DEF MayChange
  <2> QED
    BY <2>7, <2>8 DEF items, ws
<1>2. ProjectInv /\ [MirrorNext]_projectVars => [A]_projectVars
  BY <1>1
<1> QED
  BY <1>2, ProjectInvariant, PTL DEF MirrorSpec, FreshListHeals
=============================================================================
