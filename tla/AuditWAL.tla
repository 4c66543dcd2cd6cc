------------------------------ MODULE AuditWAL ------------------------------
(***************************************************************************)
(* The Agent's audit write-ahead log (internal/auditwal): segment files,   *)
(* the coverage metadata file, the receipts of AppendOnce, the Server ACK, *)
(* retention, and recovery after a process crash or a power loss.          *)
(*                                                                         *)
(* Every operation of the WAL holds one mutex, so it is one step for other *)
(* callers; but it makes several durable writes, each of which can fail or *)
(* be the last one before a crash.  An operation is therefore an operator  *)
(* from a state to the set of its outcomes [s, r], r being "ok", "fault"   *)
(* (an I/O error), "refuse" (a check of the code failed) or "crash", and   *)
(* Then sequences them the way the code's early returns do.                *)
(*                                                                         *)
(* A frame has size 1; payloads are keys (AppendOnce) or Plain.  The age   *)
(* of a segment is an input: the number of oldest segments that are over   *)
(* age.  CoverageUnknownIncarnations is never written by the program and   *)
(* is left out, as are directory and file permissions.                     *)
(***************************************************************************)
EXTENDS Integers, Sequences, SequencesExt, FiniteSetsExt

CONSTANTS
    Keys,        \* idempotency keys of the outbox; one payload each
    Archives,    \* audit archive identifiers the Server may announce
    MaxInc,      \* bound: incarnations
    MaxSeq,      \* bound: records per incarnation
    Settings     \* the options and faults an Agent may live with, records of
                 \*   bytes, sync : Options.MaxBytes and SyncBytes, in frames
                 \*   once : BOOLEAN, the outbox appends keyed records
                 \*   faults : bound, I/O errors
                 \*   aged : bound, segments found over age by one retention pass
                 \*   crashes : a subset of {"process", "power"}
                 \*   pressure : BOOLEAN, un-ACKed segments are reclaimed
                 \*   torn : BOOLEAN, a failed write may leave part of a frame

VARIABLES
    w,        \* the process: memory of the WAL, and the files
    given,    \* history: <<cursor, payload>> in the order of the appends
    durable,  \* history: cursors whose frames were fsynced
    acked,    \* history: cursors at or below a persisted ACK
    known,    \* history: <<r, c>>: c was in a gap when r was the revision
    lastAck   \* history: the last ACK that passed the checks, [cur, rev, archive]

vars == <<w, given, durable, acked, known, lastAck>>

(* Options, and the bounds of the environment: fixed for the Agent's life. *)
MaxBytes == w.opt.bytes
SyncBytes == w.opt.sync
MaxAged == w.opt.aged
Crashes == w.opt.crashes
Pressure == w.opt.pressure
TornWrites == w.opt.torn

Plain == "plain"
Absent == <<>>         \* no receipt file
Forgotten == <<-1>>    \* the receipt was removed after delivery
NoCursor == <<0, 0>>
Cursors == (1 .. MaxInc) \X (1 .. MaxSeq)
NoArchive == "none"
NoAck == [cur |-> NoCursor, rev |-> 0, archive |-> NoArchive]
Whole == -1            \* a file with no torn frame in it

(* compareCursor: incarnation first, then sequence. *)
Before(a, b) == a[1] < b[1] \/ (a[1] = b[1] /\ a[2] < b[2])
AtMost(a, b) == a = b \/ Before(a, b)

-----------------------------------------------------------------------------
(* Outcomes *)

Ok(s)      == {[s |-> s, r |-> "ok"]}
Refuse(s)  == {[s |-> s, r |-> "refuse"]}
Crash(s)   == IF Crashes = {} THEN {} ELSE {[s |-> s, r |-> "crash"]}
Fault(s)   == IF s.faults = 0 THEN {}
              ELSE {[s |-> [s EXCEPT !.faults = @ - 1], r |-> "fault"]}

(* Continue with F where R succeeded; every other outcome is returned. *)
Then(R, F(_)) ==
    {o \in R : o.r # "ok"} \cup UNION {F(o.s) : o \in {p \in R : p.r = "ok"}}

-----------------------------------------------------------------------------
(* The metadata file *)

EmptyMeta(inc) ==
    [inc |-> inc, next |-> 1, last |-> NoCursor, durable |-> NoCursor,
     ack |-> NoCursor, archive |-> NoArchive, rev |-> 0, gaps |-> <<>>]

NoMeta == EmptyMeta(0)  \* no metadata file

Cell(g) == {<<g.inc, q>> : q \in g.from .. (g.until - 1)}
Lost(m) == UNION {Cell(m.gaps[i]) : i \in DOMAIN m.gaps}

validCursors(m) ==
    /\ \A c \in {m.last, m.durable, m.ack} : c[1] <= m.inc
    /\ IF m.last = NoCursor
       THEN m.durable = NoCursor /\ m.ack = NoCursor /\ m.next = 1
       ELSE /\ m.next = IF m.last[1] = m.inc THEN m.last[2] + 1 ELSE 1
            /\ AtMost(m.durable, m.last)
            /\ AtMost(m.ack, m.last)
    /\ m.ack = NoCursor \/ m.archive # NoArchive

validGaps(m) ==
    /\ m.rev = 0 => m.gaps = <<>>
    /\ \A i \in DOMAIN m.gaps :
          LET g == m.gaps[i] IN
          /\ g.inc <= m.inc /\ g.from < g.until
          /\ g.rev > 0 /\ g.rev <= m.rev
          /\ i > 1 => LET p == m.gaps[i - 1] IN
                      /\ p.inc < g.inc \/ (p.inc = g.inc /\ p.until <= g.from)
                      /\ ~(/\ p.inc = g.inc /\ p.until = g.from
                           /\ p.reason = g.reason)

validateMetadata(m) == validCursors(m) /\ validGaps(m)

(* Temporary file, fsync, rename, directory fsync: an error may leave the  *)
(* old or the new file in place.                                           *)
saveMetadata(s, m) ==
    LET t == [s EXCEPT !.d = m]
    IN  IF ~validateMetadata(m) THEN Refuse(s)
        ELSE Ok(t) \cup Crash(t) \cup Fault(s) \cup Fault(t)

(* Keep next_seq and last_assigned of an unsynced batch out of the file. *)
saveMetadataDurableLocked(s, m) ==
    LET n == Len(s.segs)
        prev == IF n > 1 THEN <<s.segs[n - 1].inc, s.segs[n - 1].last>> ELSE NoCursor
        hidden == [m EXCEPT !.next = s.segs[n].first,
                            !.last = IF Before(m.durable, prev) THEN prev ELSE m.durable]
    IN  saveMetadata(s, IF s.act /\ s.pend > 0 THEN hidden ELSE m)

-----------------------------------------------------------------------------
(* Segments and files *)

SameFile(x, g) == x.inc = g.inc /\ x.first = g.first
FileOf(s, g)  == CHOOSE x \in s.f : SameFile(x, g)
WithFile(s, g, x) == [s EXCEPT !.f = {y \in @ : ~SameFile(y, g)} \cup {x}]
Frames(x) == {<<x.inc, q>> : q \in x.first .. (x.first + x.n - 1)}
OnDisk(s) == UNION {Frames(x) : x \in s.f}
LastCur(g) == <<g.inc, g.last>>
Bytes(s) == FoldSeq(LAMBDA g, b : g.n + b, 0, s.segs)
Active(s) == s.segs[Len(s.segs)]

(* fsync, publish DurableThrough, and close: a sync ends its segment. *)
syncLocked(s) ==
    LET x == FileOf(s, Active(s))
        t == WithFile([s EXCEPT !.dur = @ \cup Frames(x)], x, [x EXCEPT !.synced = x.n])
        m == [s.m EXCEPT !.durable = LastCur(Active(s))]
        closed(u) == [u EXCEPT !.m = m, !.act = FALSE, !.pend = 0]
    IN  IF ~s.act THEN Ok(s)
        ELSE Fault(s) \cup Then(saveMetadata(t, m), LAMBDA u : Ok(closed(u)) \cup Fault(closed(u)))

createActiveLocked(s, c) ==
    LET g == [inc |-> c[1], first |-> c[2], last |-> c[2], n |-> 0]
        x == [inc |-> c[1], first |-> c[2], n |-> 0, synced |-> 0, torn |-> Whole]
    IN  Fault(s) \cup Ok([s EXCEPT !.segs = Append(@, g), !.act = TRUE, !.pend = 0,
                                   !.f = @ \cup {x}])

segmentACKed(g, ack) == ack # NoCursor /\ AtMost(LastCur(g), ack)

(* unlink, drop from the index, directory fsync; when the last one fails a *)
(* power loss may bring the file back.                                     *)
deleteSegmentLocked(s) ==
    LET kept == [s EXCEPT !.segs = Tail(@)]
        gone == [kept EXCEPT !.f = {x \in @ : ~SameFile(x, Head(s.segs))}]
    IN  Ok(gone) \cup Crash(gone) \cup Fault(s) \cup Fault(gone)
            \cup (IF "power" \in Crashes THEN Fault(kept) ELSE {})

(* The oldest segment is closed and may be deleted. *)
Deletable(s) == Len(s.segs) > IF s.act THEN 1 ELSE 0

RECURSIVE deleteACKedLocked(_)
deleteACKedLocked(s) ==
    IF Deletable(s) /\ segmentACKed(Head(s.segs), s.m.ack)
    THEN Then(deleteSegmentLocked(s), deleteACKedLocked)
    ELSE Ok(s)

GapBefore(a, b) == a.inc < b.inc \/ (a.inc = b.inc /\ a.from < b.from)

(* Mutant of Extend: the joined gap keeps the older loss revision.         *)
ExtendOldRevision(acc, g) ==
    LET p == Last(acc)
        joined == [p EXCEPT !.until = IF g.until > @ THEN g.until ELSE @]
    IN  IF acc # <<>> /\ p.inc = g.inc /\ p.reason = g.reason /\ g.from <= p.until
        THEN Front(acc) \o <<joined>> ELSE Append(acc, g)

(* Append in order, extending the last gap when incarnation and reason     *)
(* agree and the two touch.                                                *)
Extend(acc, g) ==
    LET p == Last(acc)
        joined == [p EXCEPT !.until = IF g.until > @ THEN g.until ELSE @,
                            !.rev = IF g.rev > @ THEN g.rev ELSE @]
    IN  IF acc # <<>> /\ p.inc = g.inc /\ p.reason = g.reason /\ g.from <= p.until
        THEN Front(acc) \o <<joined>> ELSE Append(acc, g)

mergeGap(gaps, g) ==
    FoldLeft(Extend, <<>>, SortSeq(Append(gaps, g), GapBefore))

(* Mutant of deleteWithGapLocked: the file is unlinked before its gap is   *)
(* persisted.                                                              *)
unlinkBeforeGap(s, reason) ==
    LET g == Head(s.segs)
        gap == [inc |-> g.inc, from |-> g.first, until |-> g.last + 1,
                reason |-> reason, rev |-> s.m.rev + 1]
        m == [s.m EXCEPT !.rev = @ + 1, !.gaps = mergeGap(@, gap)]
    IN  Then(deleteSegmentLocked(s),
             LAMBDA u : Then(saveMetadataDurableLocked(u, m), LAMBDA v : Ok([v EXCEPT !.m = m])))

(* The gap is durable before the file is unlinked. *)
deleteWithGapLocked(s, reason) ==
    LET g == Head(s.segs)
        gap == [inc |-> g.inc, from |-> g.first, until |-> g.last + 1,
                reason |-> reason, rev |-> s.m.rev + 1]
        m == [s.m EXCEPT !.rev = @ + 1, !.gaps = mergeGap(@, gap)]
    IN  Then(saveMetadataDurableLocked(s, m),
             LAMBDA u : deleteSegmentLocked([u EXCEPT !.m = m]))

RECURSIVE Retain(_, _, _)
Retain(s, incoming, aged) ==
    IF Deletable(s) /\ (aged > 0 \/ Bytes(s) + incoming > MaxBytes)
    THEN Then(deleteWithGapLocked(s, "RETENTION"), LAMBDA u : Retain(u, incoming, aged - 1))
    ELSE Ok(s)

enforceRetentionLocked(s, incoming, aged) ==
    Then(deleteACKedLocked(s), LAMBDA u : Retain(u, incoming, aged))

-----------------------------------------------------------------------------
(* Append, AppendOnce and ForgetOnce *)

(* The frame is in the file; the caller sees the record even if the sync   *)
(* that follows fails.                                                     *)
Written(s, c, p) ==
    LET g == [Active(s) EXCEPT !.last = c[2], !.n = @ + 1]
        x == FileOf(s, g)
    IN  WithFile([s EXCEPT !.segs[Len(s.segs)] = g, !.pend = @ + 1,
                           !.m.next = @ + 1, !.m.last = c,
                           !.new = Append(@, <<c, p>>)],
                 x, [x EXCEPT !.n = @ + 1])

(* writeFull: nothing or, on a full device, part of the frame is written. *)
writeFull(s, c, p) ==
    LET x == FileOf(s, Active(s))
        torn == WithFile(s, x, [x EXCEPT !.torn = IF @ = Whole THEN x.n ELSE @])
    IN  Ok(Written(s, c, p)) \cup Fault(s) \cup (IF TornWrites THEN Fault(torn) ELSE {})

appendLocked(s, p, aged) ==
    LET c == <<s.m.inc, s.m.next>>
        room(u) == IF u.act /\ Bytes(u) + 1 > MaxBytes THEN syncLocked(u) ELSE Ok(u)
        fresh(u) == IF u.act THEN Ok(u) ELSE createActiveLocked(u, c)
        flush(u) == IF u.pend >= SyncBytes THEN syncLocked(u) ELSE Ok(u)
    IN  IF s.bg THEN Refuse(s)
        ELSE Then(Then(Then(Then(room(s), LAMBDA u : enforceRetentionLocked(u, 1, aged)),
                            fresh),
                       LAMBDA u : writeFull(u, c, p)),
                  flush)

saveOnceReceiptLocked(s, k, v) ==
    LET t == [s EXCEPT !.rc[k] = v] IN Ok(t) \cup Crash(t) \cup Fault(s) \cup Fault(t)

(* Where reading the files from the oldest on meets a torn frame. *)
Torn(s) == {<<x.inc, x.first + x.torn>> : x \in {y \in s.f : y.torn # Whole}}

(* findPayloadLocked: the cursors whose payload is p in the indexed files, *)
(* as far as they can be read.                                             *)
findPayloadLocked(s, p) ==
    {c \in UNION {Frames(FileOf(s, s.segs[i])) : i \in DOMAIN s.segs} :
        /\ \E i \in DOMAIN s.all : s.all[i] = <<c, p>>
        /\ \A t \in Torn(s) : Before(c, t)}

appendOnceLocked(s, k, aged) ==
    LET found == findPayloadLocked(s, k)
        append(u) == Then(Then(appendLocked(u, k, aged), syncLocked),
                          LAMBDA v : saveOnceReceiptLocked(v, k, v.m.last))
    IN  IF s.bg THEN Refuse(s)
        ELSE CASE s.rc[k] = Absent -> Then(saveOnceReceiptLocked(s, k, NoCursor), append)
               [] s.rc[k] # Absent /\ s.rc[k] # NoCursor -> Ok(s)
               [] s.rc[k] = NoCursor /\ found # {} ->
                    saveOnceReceiptLocked(s, k, CHOOSE c \in found : \A b \in found : AtMost(c, b))
               [] OTHER -> IF Torn(s) = {} THEN append(s) ELSE Refuse(s)

-----------------------------------------------------------------------------
(* ACK, rebind, limits and disk pressure *)

gapIntersectsACK(g, current, proposed) ==
    /\ AtMost(<<g.inc, g.from>>, proposed)
    /\ current = NoCursor \/ Before(current, <<g.inc, g.until - 1>>)

ackLocked(s, c, revSeen) ==
    LET stale == \E i \in DOMAIN s.m.gaps :
                    s.m.gaps[i].rev > revSeen /\ gapIntersectsACK(s.m.gaps[i], s.m.ack, c)
        m == [s.m EXCEPT !.ack = c]
        checked == [s EXCEPT !.acc = [cur |-> c, rev |-> revSeen, archive |-> m.archive]]
    IN  CASE s.m.ack # NoCursor /\ Before(c, s.m.ack) -> Refuse(s)
          [] c = s.m.ack -> deleteACKedLocked(s)
          [] OTHER -> IF revSeen > s.m.rev \/ Before(s.m.last, c) \/ stale THEN Refuse(s)
                      ELSE Then(saveMetadata(checked, m), LAMBDA u : deleteACKedLocked([u EXCEPT !.m = m]))

ackAudit(s, c, revSeen) == Then(syncLocked(s), LAMBDA u : ackLocked(u, c, revSeen))

rebindArchive(s, a) ==
    LET bind(u) == LET m == [u.m EXCEPT !.archive = a, !.ack = NoCursor]
                   IN  Then(saveMetadata(u, m), LAMBDA v : Ok([v EXCEPT !.m = m]))
    IN  IF s.m.archive = a THEN Ok(s) ELSE Then(syncLocked(s), bind)

enforceLimits(s, aged) == Then(syncLocked(s), LAMBDA u : enforceRetentionLocked(u, 0, aged))

RECURSIVE reclaimACKed(_, _)
reclaimACKed(s, need) ==
    IF need > 0 /\ Deletable(s) /\ segmentACKed(Head(s.segs), s.m.ack)
    THEN Then(deleteSegmentLocked(s), LAMBDA u : reclaimACKed(u, need - Head(s.segs).n))
    ELSE Ok(s)

(* Stops at an ACKed segment: the ACKed tier has to run first. *)
RECURSIVE reclaimUnacked(_, _)
reclaimUnacked(s, need) ==
    IF need > 0 /\ Deletable(s) /\ ~segmentACKed(Head(s.segs), s.m.ack)
    THEN Then(deleteWithGapLocked(s, "DISK_PRESSURE"),
              LAMBDA u : reclaimUnacked(u, need - Head(s.segs).n))
    ELSE Ok(s)

(* One tick of syncLoop: an error is remembered until Sync succeeds. *)
tickLocked(s, aged) ==
    LET synced == IF s.act /\ s.pend > 0 THEN syncLocked(s) ELSE Ok(s)
        bg(R) == {IF o.r \in {"fault", "refuse"} THEN [o EXCEPT !.s.bg = TRUE, !.r = "ok"] ELSE o : o \in R}
    IN  Then(bg(synced), LAMBDA u : IF u.bg THEN Ok(u) ELSE bg(enforceRetentionLocked(u, 0, aged)))

-----------------------------------------------------------------------------
(* Recovery *)

(* Mutant of rangeExplained: only gaps explain a missing range.            *)
rangeExplainedByGaps(m, inc, from, until) ==
    LET step(q, g) == IF g.inc = inc /\ g.until > q /\ g.from <= q THEN g.until ELSE q
    IN  from >= until \/ FoldLeft(step, from, m.gaps) >= until

(* rangeExplained: the ACK first, then the gaps in order. *)
rangeExplained(m, inc, from, until) ==
    LET start == IF m.ack[1] = inc /\ m.ack[2] >= from THEN m.ack[2] + 1 ELSE from
        step(q, g) == IF g.inc = inc /\ g.until > q /\ g.from <= q THEN g.until ELSE q
    IN  \/ from >= until
        \/ m.ack[1] > inc
        \/ FoldLeft(step, start, m.gaps) >= until

validateSegmentContinuity(segs, m) ==
    \A i \in DOMAIN segs :
        LET g == segs[i] IN
        IF i = 1 \/ segs[i - 1].inc # g.inc
        THEN rangeExplained(m, g.inc, 1, g.first)
        ELSE LET p == segs[i - 1] IN
             p.last < g.first /\ rangeExplained(m, g.inc, p.last + 1, g.first)

(* scanSegment of the last file: the surviving frame counts, -1 to refuse. *)
(* Torn bytes with frames behind them either look like a frame that runs   *)
(* past the end of the file, and are cut with all that follows, or fail    *)
(* their checksum in the middle of the file.                               *)
ScanTail(x) ==
    CASE x.torn = Whole -> {x.n}
      [] x.torn = x.n   -> {x.n}
      [] OTHER          -> {x.torn, -1}

NewestFile(s) == CHOOSE x \in s.f : \A y \in s.f : AtMost(<<y.inc, y.first>>, <<x.inc, x.first>>)

SegmentOf(x) == [inc |-> x.inc, first |-> x.first, last |-> x.first + x.n - 1, n |-> x.n]

Indexed(s) ==
    [s EXCEPT !.segs = SetToSortSeq({SegmentOf(x) : x \in s.f},
                                    LAMBDA a, b : Before(<<a.inc, a.first>>, <<b.inc, b.first>>))]

(* Only the last segment is repaired; every other one must be whole. *)
recoverSegments(s, m) ==
    LET tail == NewestFile(s)
        repaired(n) ==
            IF n = 0 THEN [s EXCEPT !.f = @ \ {tail}]
            ELSE IF tail.torn = Whole THEN s
            ELSE WithFile(s, tail, [tail EXCEPT !.n = n, !.synced = n, !.torn = Whole])
        checked(t) == IF validateSegmentContinuity(Indexed(t).segs, m) THEN Ok(Indexed(t)) ELSE Refuse(s)
    IN  IF s.f = {} THEN Ok(Indexed(s))
        ELSE IF \E x \in s.f \ {tail} : x.torn # Whole \/ x.n = 0 THEN Refuse(s)
        ELSE UNION {IF n = -1 THEN Refuse(s) ELSE checked(repaired(n)) : n \in ScanTail(tail)}

(* Recover, before the incarnation is incremented. *)
recover(s) ==
    IF s.d = NoMeta THEN IF s.f = {} THEN Ok(s) ELSE Refuse(s)
    ELSE IF ~validateMetadata(s.d) THEN Refuse(s) ELSE recoverSegments(s, s.d)

(* Mutant of loadMetadata: a restart continues the old incarnation.        *)
loadMetadataSameInc(s, inc) == IF s.d = NoMeta THEN EmptyMeta(inc) ELSE s.d

loadMetadata(s, inc) ==
    IF s.d = NoMeta THEN EmptyMeta(inc)
    ELSE IF s.d.inc < inc THEN [s.d EXCEPT !.inc = inc, !.next = 1] ELSE s.d

reconcileRecoveredState(s) ==
    LET tail == IF s.segs = <<>> THEN NoCursor ELSE LastCur(Last(s.segs))
        last == IF Before(s.m.last, tail) THEN tail ELSE s.m.last
        current == Max({0} \cup {s.segs[i].last : i \in {j \in DOMAIN s.segs : s.segs[j].inc = s.m.inc}})
    IN  [s EXCEPT !.m.last = last, !.m.next = IF current >= @ THEN current + 1 ELSE @]

open(s, aged) ==
    LET m == loadMetadata(s, s.inc)
    IN  IF ~validateMetadata(m) THEN Refuse(s)
        ELSE Then(Then(Then(recoverSegments([s EXCEPT !.m = m], m),
                            LAMBDA u : Ok(reconcileRecoveredState(u))),
                       LAMBDA u : enforceRetentionLocked(u, 0, aged)),
                  LAMBDA u : Then(saveMetadata(u, u.m), LAMBDA v : Ok([v EXCEPT !.up = TRUE])))

(* Boot: Recover, then the state file increments the incarnation, then Open. *)
boot(s, aged) ==
    Then(recover(s),
         LAMBDA u : open([u EXCEPT !.inc = @ + 1, !.segs = <<>>], aged))

-----------------------------------------------------------------------------
(* What a crash leaves *)

Down(s) ==
    [s EXCEPT !.up = FALSE, !.bg = FALSE, !.m = EmptyMeta(1), !.segs = <<>>, !.act = FALSE, !.pend = 0]

(* After a power loss a file keeps what was synced and any part of the     *)
(* rest, possibly with a torn frame behind it; a file that was never       *)
(* synced may be gone.                                                     *)
Survivors(x) ==
    LET cut(k) == IF x.torn # Whole /\ x.torn <= k THEN {x.torn}
                  ELSE IF k < x.n THEN {Whole, k} ELSE {Whole}
    IN  {{}} \cup {{[x EXCEPT !.n = k, !.synced = k, !.torn = t]} :
                     <<k, t>> \in UNION {{k} \X cut(k) : k \in x.synced .. x.n}}

RECURSIVE PowerLoss(_)
PowerLoss(files) ==
    IF files = {} THEN {{}}
    ELSE LET x == CHOOSE y \in files : TRUE
             kept == IF x.synced > 0 THEN Survivors(x) \ {{}} ELSE Survivors(x)
         IN  {a \cup b : a \in kept, b \in PowerLoss(files \ {x})}

Crashed(s) ==
    (IF "process" \in Crashes THEN {Down(s)} ELSE {}) \cup
    (IF "power" \in Crashes THEN {[Down(s) EXCEPT !.f = g] : g \in PowerLoss(s.f)} ELSE {})

-----------------------------------------------------------------------------
Ghost(s) == [s EXCEPT !.new = <<>>, !.acc = NoAck, !.dur = {}, !.all = <<>>]

(* Publish an outcome: the state, and what the histories learn from it. *)
Publish(o, s) ==
    /\ w' = Ghost(s)
    /\ given' = given \o o.s.new
    /\ durable' = durable \cup o.s.dur
    /\ lastAck' = o.s.acc
    /\ acked' = acked \cup {c \in Cursors : AtMost(c, o.s.d.ack)}
    /\ known' = known \cup (IF s.up THEN {<<s.m.rev, c>> : c \in Lost(s.m)} ELSE {})

Do(R) ==
    \E o \in R :
        IF o.r = "crash" THEN \E s \in Crashed(o.s) : Publish(o, s) ELSE Publish(o, o.s)

View(s) == [s EXCEPT !.all = given, !.acc = lastAck]

AppendPlain ==
    /\ w.up /\ w.m.next <= MaxSeq
    /\ \E aged \in 0 .. MaxAged : Do(appendLocked(View(w), Plain, aged))

AppendOnce ==
    /\ w.up /\ w.m.next <= MaxSeq /\ w.opt.once
    /\ \E k \in Keys, aged \in 0 .. MaxAged : w.rc[k] # Forgotten /\ Do(appendOnceLocked(View(w), k, aged))

(* Called once the outbox has recorded the delivery; the key is not used   *)
(* again.                                                                  *)
ForgetOnce ==
    /\ w.up
    /\ \E k \in Keys : /\ w.rc[k] \notin {Absent, Forgotten, NoCursor}
                       /\ LET t == [View(w) EXCEPT !.rc[k] = Forgotten]
                          IN  Do(Ok(t) \cup Crash(t) \cup Fault(View(w)) \cup Fault(t))

Sync ==
    /\ w.up
    /\ Do({IF o.r = "ok" THEN [o EXCEPT !.s.bg = FALSE] ELSE o : o \in syncLocked(View(w))})

Tick == w.up /\ \E aged \in 0 .. MaxAged : Do(tickLocked(View(w), aged))

(* The Server proposes a cursor it has read, with a revision it was sent. *)
AckAudit ==
    /\ w.up
    /\ \E i \in DOMAIN given, rev \in {0} \cup {x[1] : x \in known} :
          w.m.archive # NoArchive /\ Do(ackAudit(View(w), given[i][1], rev))

RebindArchive ==
    /\ w.up
    /\ \E a \in Archives \ w.used :
          Do(rebindArchive([View(w) EXCEPT !.used = @ \cup {a}], a))

EnforceLimits == w.up /\ \E aged \in 0 .. MaxAged : Do(enforceLimits(View(w), aged))

ReclaimACKed == w.up /\ \E need \in 1 .. MaxBytes : Do(reclaimACKed(View(w), need))

ReclaimUnacked ==
    Pressure /\ w.up /\ \E need \in 1 .. MaxBytes : Do(reclaimUnacked(View(w), need))

(* The Agent stops: a last sync, and the file is closed whatever it said. *)
Close ==
    /\ w.up
    /\ Do({IF o.r = "crash" THEN o ELSE [o EXCEPT !.s = Down(o.s)] : o \in syncLocked(View(w))})

Die == w.up /\ Crashes # {} /\ Do(Crash(View(w)))

Boot ==
    /\ ~w.up /\ w.inc < MaxInc
    /\ \E aged \in 0 .. MaxAged :
          Do({CASE o.r = "ok" -> o
                [] o.r = "crash" -> o
                [] o.r = "fault" -> [o EXCEPT !.s = Down(o.s)]
                [] o.r = "refuse" -> [o EXCEPT !.s = [Down(o.s) EXCEPT !.refused = TRUE]] :
              o \in boot(View(w), aged)})

Init ==
    /\ w \in {[opt |-> opt, up |-> FALSE, bg |-> FALSE, m |-> EmptyMeta(1), segs |-> <<>>, act |-> FALSE, pend |-> 0,
            d |-> NoMeta, f |-> {}, rc |-> [k \in Keys |-> Absent], inc |-> 0,
            faults |-> opt.faults, used |-> {}, refused |-> FALSE,
            new |-> <<>>, acc |-> NoAck,
            dur |-> {}, all |-> <<>>] : opt \in Settings}
    /\ given = <<>>
    /\ durable = {}
    /\ acked = {}
    /\ known = {}
    /\ lastAck = NoAck

Next ==
    \/ AppendPlain \/ AppendOnce \/ ForgetOnce \/ Sync \/ Tick
    \/ AckAudit \/ RebindArchive \/ EnforceLimits \/ ReclaimACKed \/ ReclaimUnacked
    \/ Close \/ Die \/ Boot

Spec == Init /\ [][Next]_vars

-----------------------------------------------------------------------------
(* Properties *)

TypeOK ==
    /\ w.up \in BOOLEAN /\ w.bg \in BOOLEAN /\ w.act \in BOOLEAN
    /\ w.inc \in 0 .. MaxInc /\ w.faults \in 0 .. w.opt.faults
    /\ w.up => validCursors([w.m EXCEPT !.durable = NoCursor]) /\ validGaps(w.m)
    /\ w.act => w.segs # <<>>
    /\ \A x \in w.f : x.synced <= x.n /\ x.torn <= x.n
    /\ w.up => \A i \in DOMAIN w.segs : \E x \in w.f : SameFile(x, w.segs[i])

(* A record that was fsynced is, at every later moment and whatever fails  *)
(* or crashes in between, in a segment file, or was acknowledged by the    *)
(* Server, or lies in a gap of the metadata file: retention and disk       *)
(* pressure persist the gap before they unlink (deleteWithGapLocked).      *)
NoSilentLoss ==
    durable \subseteq OnDisk(w) \cup acked \cup Lost(w.d)

(* Recover and Open accept every state the WAL itself can leave behind:    *)
(* the continuity, metadata and segment checks refuse only damage done by  *)
(* others.                                                                 *)
BootsFromOwnState == ~w.refused

(* While a receipt is kept, the log never holds two frames of one key: a   *)
(* retry after a failed sync or receipt write, or after a restart, finds   *)
(* the frame that is already there.                                        *)
OnceInLog ==
    \A k \in Keys : Cardinality({c \in OnDisk(w) : \E i \in DOMAIN given : given[i] = <<c, k>>}) <= 1

(* An accepted ACK covers no loss the Server was not told about: every     *)
(* record between the old and the new watermark that is in a gap was in a  *)
(* gap of the coverage revision the Server presented.                      *)
AckSeesLosses ==
    [][lastAck' # lastAck =>
         \A c \in Lost(w'.m) :
            (/\ w'.up /\ AtMost(c, lastAck'.cur)
             /\ lastAck'.archive # lastAck.archive \/ Before(lastAck.cur, c))
            => <<lastAck'.rev, c>> \in known]_vars

(* The receipt of a key never names a cursor whose frame is only in the    *)
(* page cache: AppendOnce syncs before it completes the receipt.  (Once an *)
(* fsync has failed this is lost: a retry finds the frame in the page      *)
(* cache and completes the receipt.)                                       *)
ReceiptIsDurable ==
    w.faults = w.opt.faults =>
        \A k \in Keys, x \in w.f :
            w.rc[k] \in Frames(x) => w.rc[k][2] < x.first + x.synced

(* The log as AuditLog sees it. *)
Log == INSTANCE AuditLog WITH
    Cursor <- Cursors,
    issued <- [i \in DOMAIN given |-> given[i][1]],
    held <- OnDisk(w),
    safe <- durable,
    released <- acked \cup Lost(w.d)

(* The detailed log implements the abstract one: every operation, failed   *)
(* or cut short by a crash, and every recovery, is a step AuditLog allows. *)
(* In particular no cursor is given to two records, restarts and lost      *)
(* tails included, which lets the Server key its archive by the cursor.    *)
ImplementsAuditLog == Log!Spec

(* The log restarts from whatever it left behind (BootsFromOwnState), its   *)
(* segments, gaps and cursors in order at every moment before.              *)
Recoverable == TypeOK /\ BootsFromOwnState

(* AppendOnce keeps its word across retries, failed syncs and restarts: the *)
(* record is in the log once, and durable before the receipt names it.      *)
KeyedOnce == OnceInLog /\ ReceiptIsDurable
(* The log survives its own crashes (Recoverable) and its callers' retries  *)
(* (KeyedOnce).                                                             *)
LogIsSound == Recoverable /\ KeyedOnce
=============================================================================
