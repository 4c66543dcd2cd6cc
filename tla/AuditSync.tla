----------------------------- MODULE AuditSync -----------------------------
(***************************************************************************)
(* The audit trail between one Agent and the Server: the WAL as its reader *)
(* sees it, the synchronisation session of internal/auditsync, and the     *)
(* canonical archive with its Coverage Ledger in internal/auditstore.      *)
(*                                                                         *)
(* A session is a pair of FIFO streams that may break at any moment, which *)
(* also stands for a crash of the Server: every database transaction is a  *)
(* step of its own.  A coverage interval is modelled by the set of cursors *)
(* it covers.  How the WAL survives crashes is the subject of AuditWAL;    *)
(* here a power loss takes any part of the unsynced tail.                  *)
(***************************************************************************)
EXTENDS Naturals, Sequences, FiniteSets, SequencesExt, FiniteSetsExt

CONSTANTS MaxInc, MaxSeq, \* bounds: Agent starts, records of one incarnation
          ReadLimit,      \* AgentConfig.ReadLimit
          Budgets         \* what may happen, records of
                          \*   inc, seq : at most MaxInc and MaxSeq
                          \*   drops : segments the Agent drops unacknowledged
                          \*   breaks : broken sessions and Server crashes
                          \*   restores, reinits : of the Server database
                          \*   prunes : retention passes of the Server

VARIABLES
    ag,      \* Agent: the WAL and the bound archive generation
    ap,      \* Agent side of the session
    db,      \* Server database: canonical records, ledger and cursors
    sp,      \* Server side of the session
    up, dn,  \* messages to the Server and to the Agent
    saved,   \* a backup of the Server database
    rt,      \* the retention worker's tier
    left,    \* what is left to happen
    restored,\* history: the database was put back to a backup
    issued,  \* history: every cursor given to a record
    vanished \* history: records a power loss took before they were synced

vars == <<ag, ap, db, sp, up, dn, saved, rt, left, restored, issued, vanished>>

NoCursor == <<0, 0>>
Before(a, b) == a[1] < b[1] \/ (a[1] = b[1] /\ a[2] < b[2])
AtMost(a, b) == a = b \/ Before(a, b)
Succ(c) == <<c[1], c[2] + 1>>
Least(S) == CHOOSE c \in S : \A d \in S : AtMost(c, d)
Cells(inc, from, until) == {<<inc, q>> : q \in from .. (until - 1)}

-----------------------------------------------------------------------------
(* The Agent's WAL, as its reader sees it *)

SegCells(g) == Cells(g.inc, g.first, g.last + 1)
Held(a) == UNION {SegCells(a.segs[i]) : i \in DOMAIN a.segs}
WALFloor(a) == IF a.segs = <<>> THEN NoCursor ELSE <<a.segs[1].inc, a.segs[1].first>>
NextCursor(a) == <<a.inc, a.next>>
LastAssigned(a) == IF Held(a) = {} THEN a.ack ELSE Last(SetToSortSeq(Held(a), Before))

Coverage(a) == [rev |-> a.rev, gaps |-> DOMAIN a.lost]

Appended(a) ==
    LET n == Len(a.segs)
        fresh == [inc |-> a.inc, first |-> a.next, last |-> a.next]
    IN  [a EXCEPT !.next = @ + 1, !.act = TRUE,
                  !.segs = IF a.act THEN [@ EXCEPT ![n].last = a.next] ELSE Append(@, fresh)]

RECURSIVE DeleteACKed(_)
DeleteACKed(a) ==
    IF Len(a.segs) > (IF a.act THEN 1 ELSE 0) /\ AtMost(<<a.segs[1].inc, a.segs[1].last>>, a.ack)
    THEN DeleteACKed([a EXCEPT !.segs = Tail(@)]) ELSE a

(* The gap of segment g joins the gaps it touches, all at the new revision. *)
WithGap(a, g) ==
    LET cells == DOMAIN a.lost \cup SegCells(g)
        touched == {c \in cells : /\ c[1] = g.inc
                                  /\ \A q \in (Min({c[2], g.first}) .. Max({c[2], g.first})) : <<c[1], q>> \in cells}
    IN  [c \in cells |-> IF c \in touched THEN a.rev + 1 ELSE a.lost[c]]

(* Mutant of Dropped: the deletion leaves no gap.                          *)
DroppedSilently(a) == [DeleteACKed(a) EXCEPT !.segs = Tail(@)]

Dropped(a) ==
    LET b == DeleteACKed(a)
        g == Head(b.segs)
    IN  [b EXCEPT !.lost = WithGap(b, g), !.rev = @ + 1, !.segs = Tail(@)]

(* ReadAuditFrom: up to ReadLimit records from start on, in cursor order. *)
ReadAuditFrom(a, start) ==
    LET all == SetToSortSeq({c \in Held(a) : AtMost(start, c)}, Before)
    IN  SubSeq(all, 1, Min({Len(all), ReadLimit}))

(* Gaps in (server ACK, proposed] that the presented revision lacks. *)
StaleFor(a, c, seen) ==
    \E d \in DOMAIN a.lost : a.lost[d] > seen /\ Before(a.ack, d) /\ AtMost(d, c)

RebindArchive(a, gen) ==
    IF a.arch = gen THEN a ELSE [a EXCEPT !.arch = gen, !.ack = NoCursor]

-----------------------------------------------------------------------------
(* The Server database *)

NoDB(gen) == [gen |-> gen, start |-> NoCursor, next |-> NoCursor, ack |-> NoCursor, rev |-> 0,
              claims |-> <<>>, events |-> {}, gap |-> {}, kept |-> {}, regress |-> {}]

(* What the ledger's effective entries cover: AGENT_GAP, SERVER_RETENTION  *)
(* and SERVER_CURSOR_REGRESSION.                                           *)
Ledger(d) == d.gap \cup d.kept \cup d.regress
Explained(d) == d.events \cup Ledger(d)

(* The claim rows of one revision, a set of gaps for each time it was      *)
(* applied; the rows belong to the Agent, not to an archive.               *)
ClaimsAt(d, rev) == SelectSeq(d.claims, LAMBDA m : m.rev = rev /\ m.gaps # {})
LatestClaims(d) == UNION {m.gaps : m \in ToSet(ClaimsAt(d, d.rev))}

RecomputeEffective(d) == [d EXCEPT !.gap = LatestClaims(d) \ d.events]

(* The end of an incarnation's range: the proposed cursor, or the last     *)
(* cursor known of an incarnation the delivery has left behind.            *)
AckRangeEnd(d, inc, proposed) ==
    LET known == {c[2] : c \in {x \in Explained(d) : x[1] = inc}}
    IN  IF inc = proposed[1] THEN proposed[2] + 1
        ELSE IF inc >= d.next[1] \/ known = {} THEN 0 ELSE Max(known) + 1

(* The cursors between the watermark and the proposed one that neither a   *)
(* record nor the ledger explains.                                         *)
UnexplainedACKRanges(d, proposed) ==
    LET start == IF d.ack # NoCursor /\ AtMost(d.start, d.ack) THEN Succ(d.ack) ELSE d.start
        from(inc) == IF inc = start[1] THEN start[2] ELSE 1
    IN  IF Before(proposed, start) THEN {proposed}
        ELSE UNION {Cells(inc, from(inc), AckRangeEnd(d, inc, proposed)) : inc \in start[1] .. proposed[1]}
             \ Explained(d)

ACKIneligible(d, proposed) ==
    /\ d.ack = NoCursor \/ Before(d.ack, proposed)
    /\ \/ ~Before(proposed, d.next)
       \/ UnexplainedACKRanges(d, proposed) # {}

(* Mutant of Recordable: nothing is recovered.                             *)
RecordableNone(d, proposed, resumed) == {}

(* RecordCursorRegression: unexplained ranges wholly below the cursor the  *)
(* Agent resumed from.                                                     *)
Recordable(d, proposed, resumed) ==
    LET blocked == UnexplainedACKRanges(d, proposed)
        whole(c) == \A q \in c[2] .. left.seq :
                       (Cells(c[1], c[2], q + 1) \subseteq blocked) => AtMost(<<c[1], q + 1>>, resumed)
    IN  IF Before(proposed, d.next) THEN {c \in blocked : whole(c)} ELSE {}

Ingest(d, c) == RecomputeEffective([d EXCEPT !.events = @ \cup {c}, !.next = Succ(c)])

(* ApplyCoverageSnapshot: an older snapshot is an error, and so is the     *)
(* current revision with other rows than the stored ones.                  *)
CoverageRejected(d, m) ==
    \/ m.rev < d.rev
    \/ m.rev = d.rev /\ ClaimsAt(d, d.rev) # SelectSeq(<<m>>, LAMBDA x : x.gaps # {})
ApplyCoverage(d, m) ==
    IF m.rev = d.rev THEN d
    ELSE RecomputeEffective([d EXCEPT !.claims = Append(@, m), !.rev = m.rev])

-----------------------------------------------------------------------------
(* The session *)

NoSnap == [rev |-> 0, gaps |-> {NoCursor}]
ApOff == [pc |-> "off", start |-> NoCursor, batch |-> <<>>, sent |-> 0]
SpOff == [pc |-> "off", est |-> FALSE, pending |-> NoSnap, at |-> NoCursor,
          rev |-> 0, resumed |-> NoCursor, rec |-> NoCursor]

Closed == ap' = ApOff /\ sp' = SpOff /\ up' = <<>> /\ dn' = <<>>
AgentOnly == UNCHANGED <<db, sp, saved, rt, left, restored, vanished>>
ServerOnly == UNCHANGED <<ag, ap, saved, rt, left, restored, issued, vanished>>

ToServer(m) == up' = Append(up, m)
CovMsg(a) == [t |-> "cov", rev |-> a.rev, gaps |-> DOMAIN a.lost]
StaleMsg(a) == [t |-> "stale", rev |-> a.rev, gaps |-> DOMAIN a.lost]
BehindMsg(a, req) == [t |-> "behind", req |-> req, floor |-> WALFloor(a), rev |-> a.rev, gaps |-> DOMAIN a.lost]

(* The Agent has dialled and the Server opens the stream: Run reads        *)
(* whether coverage is established and announces its archive.              *)
Open ==
    /\ ag.up /\ ap.pc = "off" /\ sp.pc = "off"
    /\ ap' = [ApOff EXCEPT !.pc = "bind"]
    /\ sp' = [SpOff EXCEPT !.pc = "recv", !.est = (db.start # NoCursor)]
    /\ dn' = <<[t |-> "ann", gen |-> db.gen]>>
    /\ UNCHANGED <<ag, db, up, saved, rt, left, restored, issued, vanished>>

SessionFails == Closed /\ UNCHANGED <<ag, db, saved, rt, left, restored, issued, vanished>>

-----------------------------------------------------------------------------
(* Agent.SyncAudit *)

(* BindArchive of the announced archive: the same generation goes on, a    *)
(* lower one is refused, a higher one is bound before the WAL follows.     *)
AgentBind ==
    /\ ap.pc = "bind" /\ dn # <<>>
    /\ LET gen == Head(dn).gen IN
       IF gen < ag.bound THEN SessionFails
       ELSE /\ ag' = [ag EXCEPT !.bound = gen]
            /\ ap' = [ap EXCEPT !.pc = IF gen = ag.bound THEN "cover" ELSE "rebind"]
            /\ dn' = Tail(dn)
            /\ UNCHANGED <<up, issued>> /\ AgentOnly

(* The WAL retires the acknowledgement of the old archive, and the rebind  *)
(* is recorded in the trail itself.                                        *)
AgentRebind ==
    /\ ap.pc = "rebind"
    /\ LET a == RebindArchive(ag, ag.bound) IN
       IF ag.next <= left.seq
       THEN ag' = Appended(a) /\ issued' = issued \cup {NextCursor(ag)}
       ELSE ag' = a /\ UNCHANGED issued
    /\ ap' = [ap EXCEPT !.pc = "cover"]
    /\ UNCHANGED <<up, dn>> /\ AgentOnly

AgentCover ==
    /\ ap.pc = "cover"
    /\ ToServer(CovMsg(ag))
    /\ ap' = [ap EXCEPT !.pc = "start", !.sent = ag.rev]
    /\ UNCHANGED <<ag, dn, issued>> /\ AgentOnly

StartCursor(a) ==
    IF a.ack # NoCursor THEN Succ(a.ack)
    ELSE IF a.segs # <<>> THEN WALFloor(a) ELSE NextCursor(a)

AgentStart ==
    /\ ap.pc = "start"
    /\ ap' = [ap EXCEPT !.pc = "loop", !.start = StartCursor(ag)]
    /\ UNCHANGED <<ag, up, dn, issued>> /\ AgentOnly

AgentLoop ==
    /\ ap.pc = "loop"
    /\ ap' = [ap EXCEPT !.pc = "read", !.sent = ag.rev]
    /\ IF ag.rev = ap.sent THEN UNCHANGED up ELSE ToServer(CovMsg(ag))
    /\ UNCHANGED <<ag, dn, issued>> /\ AgentOnly

AgentRead ==
    /\ ap.pc = "read"
    /\ LET behind == ag.segs # <<>> /\ Before(ap.start, WALFloor(ag))
           batch == ReadAuditFrom(ag, ap.start)
       IN  \/ /\ behind
              /\ ToServer(BehindMsg(ag, ap.start))
              /\ ap' = [ap EXCEPT !.pc = "loop", !.sent = ag.rev, !.start = WALFloor(ag)]
           \/ /\ ~behind /\ batch = <<>>
              /\ ap' = [ap EXCEPT !.pc = "loop"]
              /\ UNCHANGED up
           \/ /\ ~behind /\ batch # <<>>
              /\ ap' = [ap EXCEPT !.pc = "send", !.batch = batch]
              /\ UNCHANGED up
    /\ UNCHANGED <<ag, dn, issued>> /\ AgentOnly

AgentSend ==
    /\ ap.pc = "send"
    /\ ToServer([t |-> "rec", c |-> Head(ap.batch)])
    /\ ap' = [ap EXCEPT !.pc = "ack"]
    /\ UNCHANGED <<ag, dn, issued>> /\ AgentOnly

(* AckAudit syncs, records the ACK durably and deletes what it covers. *)
Accept(a, c) == DeleteACKed([a EXCEPT !.act = FALSE, !.ack = c])

(* finishACK: the ACK is durable at the Agent before its acceptance is     *)
(* sent; a stale coverage revision is answered with the whole coverage.    *)
AgentAck ==
    /\ ap.pc = "ack" /\ dn # <<>>
    /\ LET c == Head(dn).c
           seen == Head(dn).rev
           synced == [ag EXCEPT !.act = FALSE]
       IN  IF seen > ag.rev \/ Before(c, ag.ack) \/ Before(LastAssigned(ag), c) THEN SessionFails
           ELSE /\ IF c # ag.ack /\ StaleFor(ag, c, seen)
                   THEN /\ ag' = synced
                        /\ ToServer(StaleMsg(ag))
                        /\ ap' = [ap EXCEPT !.sent = ag.rev]
                   ELSE /\ ag' = Accept(ag, c)
                        /\ ToServer([t |-> "ok"])
                        /\ ap' = [ap EXCEPT !.start = Succ(c), !.batch = Tail(@),
                                            !.pc = IF Len(ap.batch) = 1 THEN "loop" ELSE "send"]
                /\ dn' = Tail(dn)
                /\ UNCHANGED issued /\ AgentOnly

-----------------------------------------------------------------------------
(* Server.Run *)

Earliest(c, S) == Least({c} \cup S)

(* What follows the coverage part of a message. *)
NextPc(s) == IF s.pending # NoSnap THEN "apply" ELSE IF s.rec # NoCursor THEN "ingest" ELSE "recv"
Steered(s) == [s EXCEPT !.pc = IF ~s.est /\ s.at # NoCursor THEN "establish"
                               ELSE IF ~s.est THEN "recv" ELSE NextPc(s)]

ServerRecv ==
    /\ sp.pc = "recv" /\ up # <<>>
    /\ LET m == Head(up)
           snap == [rev |-> m.rev, gaps |-> m.gaps]
       IN  sp' = CASE m.t = "cov" ->
                        Steered([sp EXCEPT !.pending = snap,
                                           !.at = IF m.gaps = {} THEN NoCursor ELSE Least(m.gaps)])
                   [] m.t = "behind" ->
                        Steered([sp EXCEPT !.pending = snap, !.at = Earliest(m.req, {m.floor} \cup m.gaps)])
                   [] m.t = "rec" ->
                        Steered([sp EXCEPT !.rec = m.c,
                                           !.resumed = IF @ = NoCursor THEN m.c ELSE @,
                                           !.at = Earliest(m.c, sp.pending.gaps \ {NoCursor})])
    /\ up' = Tail(up)
    /\ UNCHANGED <<db, dn>> /\ ServerOnly

(* EstablishCoverageStart: the lower bound is written once. *)
ServerEstablish ==
    /\ sp.pc = "establish"
    /\ IF db.start \notin {NoCursor, sp.at} THEN SessionFails
       ELSE
          /\ db' = [db EXCEPT !.start = sp.at, !.next = IF @ = NoCursor THEN sp.at ELSE @]
          /\ sp' = [sp EXCEPT !.est = TRUE, !.pc = NextPc(sp)]
          /\ UNCHANGED <<up, dn>> /\ ServerOnly

ServerApply ==
    /\ sp.pc \in {"apply", "reapply"}
    /\ IF CoverageRejected(db, sp.pending) THEN SessionFails
       ELSE
          /\ db' = ApplyCoverage(db, sp.pending)
          /\ sp' = [sp EXCEPT !.pending = NoSnap, !.rev = db'.rev,
                              !.pc = IF @ = "reapply" THEN "offer"
                                     ELSE IF sp.rec # NoCursor THEN "ingest" ELSE "recv"]
          /\ UNCHANGED <<up, dn>> /\ ServerOnly

ServerIngest ==
    /\ sp.pc = "ingest"
    /\ IF Before(Succ(sp.rec), db.next) THEN SessionFails
       ELSE
          /\ db' = Ingest(db, sp.rec)
          /\ sp' = [sp EXCEPT !.pc = "settle"]
          /\ UNCHANGED <<up, dn>> /\ ServerOnly

(* settleACKEligibility, before the acknowledgement is offered. *)
ServerSettle ==
    /\ sp.pc \in {"settle", "again"}
    /\ IF sp.rev # db.rev \/ (ACKIneligible(db, sp.rec) /\ sp.pc = "again") THEN SessionFails
       ELSE
          /\ sp' = [sp EXCEPT !.pc = IF ACKIneligible(db, sp.rec) THEN "regress" ELSE "offer"]
          /\ UNCHANGED <<db, up, dn>> /\ ServerOnly

ServerRegress ==
    /\ sp.pc = "regress"
    /\ LET found == Recordable(db, sp.rec, sp.resumed) IN
       IF found = {} THEN SessionFails
       ELSE
          /\ db' = [db EXCEPT !.regress = @ \cup found]
          /\ sp' = [sp EXCEPT !.pc = "again"]
          /\ UNCHANGED <<up, dn>> /\ ServerOnly

ServerOffer ==
    /\ sp.pc = "offer"
    /\ dn' = Append(dn, [t |-> "ack", c |-> sp.rec, rev |-> sp.rev])
    /\ sp' = [sp EXCEPT !.pc = "wait"]
    /\ UNCHANGED <<db, up>> /\ ServerOnly

(* The Agent's answer: an acceptance, or the coverage it found stale. *)
ServerResult ==
    /\ sp.pc = "wait" /\ up # <<>>
    /\ LET m == Head(up) IN
       sp' = IF m.t = "ok" THEN [sp EXCEPT !.pc = "advance"]
             ELSE [sp EXCEPT !.pc = "reapply", !.pending = [rev |-> m.rev, gaps |-> m.gaps]]
    /\ up' = Tail(up)
    /\ UNCHANGED <<db, dn>> /\ ServerOnly

(* CheckAndAdvanceACK decides again, inside the transaction that advances. *)
ServerAdvance ==
    /\ sp.pc = "advance"
    /\ LET refused == sp.rev # db.rev \/ Before(sp.rec, db.ack) \/ ACKIneligible(db, sp.rec) IN
       IF refused THEN SessionFails
       ELSE
          /\ db' = [db EXCEPT !.ack = sp.rec]
          /\ sp' = [sp EXCEPT !.pc = "recv", !.rec = NoCursor]
          /\ UNCHANGED <<up, dn>> /\ ServerOnly

-----------------------------------------------------------------------------
(* Retention of the Server archive: one pass, tier after tier *)

Tier(d) ==
    CASE rt = "acked"   -> {c \in d.events : d.ack # NoCursor /\ AtMost(c, d.ack)} \ d.kept
      [] rt = "covered" -> d.events \cap d.kept
      [] rt = "unacked" -> {c \in d.events : d.ack = NoCursor \/ Before(d.ack, c)} \ d.kept

(* One batch: the interval and the deletion share a transaction. *)
Pruned(d, S) ==
    [d EXCEPT !.events = @ \ S, !.kept = IF rt = "covered" THEN @ ELSE @ \cup S]

EnforceRetention ==
    /\ rt = "idle" /\ left.prunes > 0
    /\ rt' = "acked"
    /\ left' = [left EXCEPT !.prunes = @ - 1]
    /\ UNCHANGED <<ag, ap, db, sp, up, dn, saved, restored, issued, vanished>>

DeleteEventTier ==
    /\ rt # "idle"
    /\ \/ \E c \in Tier(db) : db' = Pruned(db, {e \in Tier(db) : AtMost(e, c)}) /\ UNCHANGED rt
       \/ /\ rt' = CASE rt = "acked" -> "covered" [] rt = "covered" -> "unacked" [] rt = "unacked" -> "idle"
          /\ UNCHANGED db
    /\ UNCHANGED <<ag, ap, sp, up, dn, saved, left, restored, issued, vanished>>

-----------------------------------------------------------------------------
(* The Agent's other work *)

AgentAppend ==
    /\ ag.up /\ ag.next <= left.seq
    /\ ag' = Appended(ag)
    /\ issued' = issued \cup {NextCursor(ag)}
    /\ UNCHANGED <<ap, up, dn>> /\ AgentOnly

AgentSync ==
    /\ ag.up /\ ag.act
    /\ ag' = [ag EXCEPT !.act = FALSE]
    /\ UNCHANGED <<ap, up, dn, issued>> /\ AgentOnly

(* Retention or disk pressure takes the oldest closed segment. *)
AgentDrop ==
    /\ ag.up /\ left.drops > 0
    /\ Len(DeleteACKed(ag).segs) > (IF ag.act THEN 1 ELSE 0)
    /\ ag' = Dropped(ag)
    /\ left' = [left EXCEPT !.drops = @ - 1]
    /\ UNCHANGED <<ap, db, sp, up, dn, saved, rt, restored, issued, vanished>>

(* The Agent stops.  A power loss keeps any prefix of the active segment. *)
AgentCrash ==
    /\ ag.up /\ ag.inc < left.inc
    /\ LET n == Len(ag.segs)
           cut(k) == IF k < ag.segs[n].first THEN Front(ag.segs) ELSE [ag.segs EXCEPT ![n].last = k]
           kept == IF ag.act THEN {cut(k) : k \in (ag.segs[n].first - 1) .. ag.segs[n].last} ELSE {ag.segs}
       IN  \E s \in kept :
              /\ ag' = [ag EXCEPT !.up = FALSE, !.segs = s, !.act = FALSE]
              /\ vanished' = vanished \cup (Held(ag) \ Held([ag EXCEPT !.segs = s]))
    /\ Closed
    /\ UNCHANGED <<db, saved, rt, left, restored, issued>>

(* Boot: a new incarnation, the WAL follows the bound archive, and the     *)
(* unclean stop is recorded in the trail.                                  *)
AgentBoot ==
    /\ ~ag.up
    /\ LET a == RebindArchive([ag EXCEPT !.up = TRUE, !.inc = @ + 1, !.next = 1], ag.bound)
       IN  ag' = Appended(a) /\ issued' = issued \cup {NextCursor(a)}
    /\ UNCHANGED <<ap, up, dn>> /\ AgentOnly

-----------------------------------------------------------------------------
(* What happens to the session and to the database *)

Break ==
    /\ ap.pc # "off" /\ left.breaks > 0
    /\ left' = [left EXCEPT !.breaks = @ - 1]
    /\ Closed
    /\ UNCHANGED <<ag, db, saved, rt, restored, issued, vanished>>

Backup ==
    /\ left.restores > 0 /\ saved # db
    /\ saved' = db
    /\ UNCHANGED <<ag, ap, db, sp, up, dn, rt, left, restored, issued, vanished>>

(* reconcileArchive: a database of the identity state's generation keeps   *)
(* it; a missing one, or one of an earlier generation, becomes an archive  *)
(* of the next generation: records and claims stay with the Agent, cursors *)
(* and ledger are of the archive that is gone.                             *)
ReconcileArchive(d) ==
    IF d.gen = db.gen THEN d
    ELSE [NoDB(db.gen + 1) EXCEPT !.events = d.events, !.claims = d.claims]

(* An operator stops the Server and restores a backup of the database. *)
Restore ==
    /\ left.restores > 0
    /\ db' = ReconcileArchive(saved) /\ rt' = "idle"
    /\ left' = [left EXCEPT !.restores = @ - 1] /\ restored' = TRUE
    /\ Closed
    /\ UNCHANGED <<ag, saved, issued, vanished>>

(* The database is lost and the Server starts without it. *)
Reinitialise ==
    /\ left.reinits > 0
    /\ db' = ReconcileArchive(NoDB(0)) /\ rt' = "idle"
    /\ left' = [left EXCEPT !.reinits = @ - 1]
    /\ Closed
    /\ UNCHANGED <<ag, saved, restored, issued, vanished>>

Init ==
    /\ ag = [up |-> TRUE, inc |-> 1, next |-> 1, segs |-> <<>>, act |-> FALSE, lost |-> [c \in {} |-> 0],
             rev |-> 0, ack |-> NoCursor, arch |-> 1, bound |-> 1]
    /\ ap = ApOff /\ sp = SpOff /\ up = <<>> /\ dn = <<>>
    /\ db = NoDB(1) /\ saved = NoDB(1) /\ rt = "idle"
    /\ left \in Budgets /\ restored = FALSE
    /\ issued = {} /\ vanished = {}

AgentSession == AgentBind \/ AgentRebind \/ AgentCover \/ AgentStart \/ AgentLoop \/ AgentRead \/ AgentSend \/ AgentAck
ServerSession ==
    \/ ServerRecv \/ ServerEstablish \/ ServerApply \/ ServerIngest \/ ServerSettle
    \/ ServerRegress \/ ServerOffer \/ ServerResult \/ ServerAdvance
Environment ==
    \/ AgentAppend \/ AgentSync \/ AgentDrop \/ AgentCrash
    \/ Break \/ Backup \/ Restore \/ Reinitialise \/ EnforceRetention

Next == Open \/ AgentSession \/ ServerSession \/ AgentBoot \/ DeleteEventTier \/ Environment

Spec == Init /\ [][Next]_vars

(* The Agent reconnects until it has a session, both sides keep running,   *)
(* and a stopped Agent is started again.                                   *)
FairSpec ==
    /\ Spec /\ WF_vars(Open) /\ WF_vars(AgentSession) /\ WF_vars(ServerSession)
    /\ WF_vars(AgentBoot)

-----------------------------------------------------------------------------
(* Properties *)

Cursors == (1 .. MaxInc) \X (1 .. MaxSeq)
Bound == ag.arch = db.gen

TypeOK ==
    /\ issued \subseteq Cursors /\ Held(ag) \subseteq issued /\ DOMAIN ag.lost \subseteq issued
    /\ db.events \cup Ledger(db) \subseteq Cursors
    /\ ag.act => ag.segs # <<>>
    /\ Len(dn) <= 1 /\ Len(up) <= 6

(* ACK means accounted for: every record up to the ACK the Agent has made  *)
(* durable, and which lets it delete them, is a record of the Server or is *)
(* in its ledger, from the start of the archive's coverage on.  The Agent  *)
(* persists its ACK before the Server advances its own, so the Server must *)
(* have settled everything before it offers.                               *)
AckMeansAccounted ==
    Bound /\ ~restored => \A c \in issued \ vanished :
        (AtMost(c, ag.ack) /\ AtMost(db.start, c)) => c \in Explained(db)

(* CheckAndAdvanceACK advances the Server watermark only when every cursor *)
(* through it is represented by a canonical event or an effective ledger   *)
(* entry; retention, restores and restarts keep it so.                     *)
WatermarkIsExplained ==
    \A c \in issued \ vanished :
        (AtMost(c, db.ack) /\ AtMost(db.start, c)) => c \in Explained(db)

(* The Server's watermark never passes the one the Agent made durable.     *)
ServerAckFollowsAgent == Bound => AtMost(db.ack, ag.ack)

(* Nothing disappears between the two: a record the Agent neither holds    *)
(* nor reports as a gap is in the Server's archive or ledger, or precedes  *)
(* the coverage of an archive that replaced a lost one, or was             *)
(* acknowledged before the database was restored.                          *)
NothingDisappears ==
    \A c \in issued \ vanished :
        \/ c \in Held(ag) \cup DOMAIN ag.lost \cup Explained(db)
        \/ db.gen > 1
        \/ restored /\ AtMost(c, ag.ack)

(* A regression is recorded only for what the Agent will not send again:   *)
(* it no longer has the record, or has the acknowledgement of this archive *)
(* for it and resumes above it.                                            *)
RegressionIsUnobtainable ==
    Bound => \A c \in db.regress : c \in Held(ag) => AtMost(c, ag.ack)

(* Both watermarks mean what they say: what the Agent may delete is          *)
(* accounted for at the Server (AckMeansAccounted), and the Server's own    *)
(* watermark passes nothing unexplained (WatermarkIsExplained) and never    *)
(* the Agent's (ServerAckFollowsAgent).                                     *)
AcksAreTrue == TypeOK /\ AckMeansAccounted /\ WatermarkIsExplained /\ ServerAckFollowsAgent

(* No record is lost between the two without being named: nothing           *)
(* disappears, and the ledger names as regressed only what the Agent will   *)
(* not send again.                                                          *)
LossIsNamed == NothingDisappears /\ RegressionIsUnobtainable

(* The exchange of Audit between the two tells the truth: about what is     *)
(* acknowledged, and about what is lost.                                    *)
SyncIsHonest == AcksAreTrue /\ LossIsNamed

(* The Agent's backlog is always caught up again: whatever broke, was      *)
(* restored or reinitialised before, there is a later moment at which all  *)
(* that its log holds is acknowledged by the Server.                       *)
EventuallyAcked ==
    []<>(Held(ag) # {} => Bound /\ \A c \in Held(ag) : AtMost(c, db.ack))

=============================================================================
