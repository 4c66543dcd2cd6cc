--------------------------- MODULE ObservedAudit ---------------------------
(***************************************************************************)
(* The Agent's observed Audit: Docker events are read from a subscription  *)
(* (auditevents/runner.go), coalesced and rate limited                     *)
(* (auditgen/generator.go), appended to the Audit WAL, and only then passed *)
(* over by the durable watermark last_docker_event_at of the Agent state   *)
(* (agentstate/state.go), from which the next subscription resumes.        *)
(* agentruntime/runtime.go boots and closes the process around it: a boot  *)
(* takes a new incarnation, judges how the previous one ended, and leaves  *)
(* AUDIT_CONTINUITY_UNCERTAIN when it did not end cleanly.                 *)
(*                                                                         *)
(* The WAL is abstract here (module AuditWAL has its segments): a sequence *)
(* of records, each of which is safe once fsynced.  Resources, actions and *)
(* attributes are one key per coalescing key; NotWatched stands for every  *)
(* event off the whitelist.  Time counts instants, PerSecond to a second.  *)
(***************************************************************************)
EXTENDS Integers, FiniteSets, FiniteSetsExt, Sequences, SequencesExt

CONSTANTS
    NKeys,        \* coalescing keys on the whitelist, in sort order
    MaxPerSecond, \* Config.MaxEventsPerSecond
    Settings      \* the scenarios: instants in a second (perSecond), the
                  \* configured window and pending limit, keys the daemon's
                  \* events use, watermark the first boot finds (since),
                  \* instant of the last event (lastEmit) and at which the
                  \* clock stops (horizon); and budgets of events, boots,
                  \* kills, power losses, stream breaks, graceful stops, WAL
                  \* appends and Agent state saves that fail

ASSUME Bounds ==
    /\ {NKeys, MaxPerSecond} \subseteq Nat \ {0}
    /\ \A s \in Settings : {s.perSecond, s.window, s.pending} \subseteq Nat \ {0}

VARIABLES
    now,   \* the wall clock
    log,   \* the Docker daemon's events, in order
    pos,   \* the next event of log that the subscription delivers
    gen,   \* the Generator of the running process
    run,   \* the Runner of the running process
    wal,   \* the records of the Audit WAL
    file,  \* the Agent state file: seen by a read, and what a power loss may leave
    proc,  \* the process: phase, incarnation, verdict on the previous one
    limits \* the scenario, with the budgets that remain

observedVars == <<now, log, pos, gen, run, wal, file, proc, limits>>

NotWatched == 0
Keys == 1 .. NKeys
Second(t) == t \div limits.perSecond
InOrder(S, n) == SelectSeq([i \in 1 .. n |-> i], LAMBDA i : i \in S)
SumOf(S, f(_)) == FoldSet(LAMBDA x, n : n + f(x), 0, S)
Larger(a, b) == IF a > b THEN a ELSE b

-----------------------------------------------------------------------------
(* auditgen: the Generator                                                 *)

(* An Event: the log entries it stands for, its count, FirstAt and LastAt. *)
NoEvent == [ids |-> {}, n |-> 0, first |-> 0, last |-> 0]
One(id, at) == [ids |-> {id}, n |-> 1, first |-> at, last |-> at]
Again(e, id, at) == [e EXCEPT !.ids = @ \cup {id}, !.n = @ + 1, !.last = at]

NewGenerator == [pending |-> [k \in Keys |-> NoEvent], bucket |-> 0, emitted |-> 0, storm |-> NoEvent,
                 taken |-> 0]  \* history: signals accepted, without those of appends that failed
Held(g) == {k \in Keys : g.pending[k].n > 0}

(* Mutant of addStorm: a suppressed event counts once however often it came. *)
addStormOnce(s, e) ==
    [ids |-> s.ids \cup e.ids, n |-> s.n + 1,
     first |-> IF s.n = 0 THEN e.last ELSE s.first, last |-> e.last]

addStorm(s, e) ==
    [ids |-> s.ids \cup e.ids, n |-> s.n + e.n,
     first |-> IF s.n = 0 THEN e.last ELSE s.first, last |-> e.last]

(* The second being counted only moves forward. *)
rotateBucket(g, t) ==
    IF Second(t) > g.bucket
    THEN [g EXCEPT !.bucket = Second(t), !.emitted = 0]
    ELSE g

(* Emit the events of keys in sort order while the second has room; the    *)
(* others are added to the storm.                                          *)
Emit(g, keys) ==
    LET order == InOrder(keys, NKeys)
        cut == Min({Len(order), Larger(MaxPerSecond - g.emitted, 0)})
        events(s) == [i \in DOMAIN s |-> g.pending[s[i]]]
    IN  [g |-> [g EXCEPT !.pending = [k \in Keys |-> IF k \in keys THEN NoEvent ELSE @[k]],
                         !.emitted = @ + cut,
                         !.storm = FoldLeft(addStorm, @, events(SubSeq(order, cut + 1, Len(order))))],
         out |-> [i \in 1 .. cut |-> [kind |-> "observed", e |-> g.pending[order[i]]]]]

TakeStorm(r) ==
    IF r.g.storm.n = 0 THEN r
    ELSE [g |-> [r.g EXCEPT !.storm = NoEvent], out |-> Append(r.out, [kind |-> "storm", e |-> r.g.storm])]

(* Flush: what the window has closed, and a storm of an earlier second. *)
Flush(g, t) ==
    LET r == rotateBucket(g, t)
        s == Emit(r, {k \in Held(r) : t >= r.pending[k].first + limits.window})
    IN  IF Second(t) > Second(s.g.storm.last) THEN TakeStorm(s) ELSE s

(* Mutant of Drain: the summary of a storm waits for its second to end. *)
DrainKeepsStorm(g, t) == LET r == rotateBucket(g, t) IN Emit(r, Held(r))

(* Drain: everything pending, and the storm. *)
Drain(g, t) == LET r == rotateBucket(g, t) IN TakeStorm(Emit(r, Held(r)))

(* Observe: an unwatched event only flushes, at the wall clock; a watched  *)
(* one flushes at its own time and joins its key, or the storm when the    *)
(* table is full.                                                          *)
ObserveEvent(g, id, t) ==
    LET k == log[id].key
        at == log[id].at
        r == Flush(g, IF k = NotWatched THEN t ELSE at)
        hold == [r EXCEPT !.g.taken = @ + 1, !.g.pending[k] = IF @.n > 0 THEN Again(@, id, at) ELSE One(id, at)]
    IN  IF k = NotWatched THEN r
        ELSE IF r.g.pending[k].n > 0 \/ Cardinality(Held(r.g)) < limits.pending THEN hold
        ELSE [r EXCEPT !.g.taken = @ + 1, !.g.storm = addStorm(@, One(id, at))]

-----------------------------------------------------------------------------
(* The WAL and the Agent state, as this chain uses them                    *)

Write(outs, inc, sec) ==
    [i \in DOMAIN outs |->
        [kind |-> outs[i].kind, inc |-> inc, e |-> outs[i].e, sec |-> sec, prev |-> 0, safe |-> FALSE]]

Boundary(inc, prev) ==
    [kind |-> "uncertain", inc |-> inc, e |-> NoEvent, sec |-> 0, prev |-> prev, safe |-> FALSE]

Of(w, inc) == SelectSeq(w, LAMBDA r : r.inc = inc)
Synced(w, inc) == [i \in DOMAIN w |-> [w[i] EXCEPT !.safe = @ \/ w[i].inc = inc]]

NotClosed == -1

(* writeStateAtomic: a failure leaves the old file, or the new one renamed *)
(* but not synced.                                                         *)
Saved(v) == [seen |-> v, may |-> {v}]
Unsaved(f, v) == {f, [seen |-> v, may |-> f.may \cup {v}]}

Never == -2
NewRunner == [last |-> 0, cand |-> 0, done |-> 0, called |-> Never]
Down(p) == [p EXCEPT !.phase = "down", !.cancelled = FALSE, !.ready = FALSE, !.unclean = FALSE]

(* The watermark that appendAll returns: the largest LastAt it wrote. *)
Watermark(outs) == Max({0} \cup {outs[i].e.last : i \in DOMAIN outs})

(* AdvanceLastDockerEventAt: nothing to do, saved, or failed.  A failed    *)
(* save, a cancelled context included, leaves the store not ready.         *)
AdvanceLastDockerEventAt(at, cancelled) ==
    LET v == [file.seen EXCEPT !.since = at]
    IN  IF ~proc.ready THEN {[ok |-> FALSE, ready |-> FALSE, file |-> file, cost |-> 0]}
        ELSE IF at <= file.seen.since THEN {[ok |-> TRUE, ready |-> TRUE, file |-> file, cost |-> 0]}
        ELSE IF cancelled THEN {[ok |-> FALSE, ready |-> FALSE, file |-> file, cost |-> 0]}
        ELSE {[ok |-> TRUE, ready |-> TRUE, file |-> Saved(v), cost |-> 0]}
             \cup {[ok |-> FALSE, ready |-> FALSE, file |-> f, cost |-> 1] : f \in Unsaved(file, v)}

(* checkpoint: at most one save a second, unless forced. *)
checkpoint(r, mark, force, cancelled) ==
    LET cand == Larger(r.cand, mark)
        kept == [r EXCEPT !.cand = cand]
    IN  IF cand <= r.done \/ (~force /\ now - r.called < limits.perSecond)
        THEN {[run |-> kept, ok |-> TRUE, ready |-> proc.ready, file |-> file, cost |-> 0]}
        ELSE {[run |-> [kept EXCEPT !.called = now, !.done = IF a.ok THEN cand ELSE @],
               ok |-> a.ok, ready |-> a.ready, file |-> a.file, cost |-> a.cost] :
              a \in AdvanceLastDockerEventAt(cand, cancelled)}

(* One turn of Run's loop: append what the generator gave, then move the   *)
(* watermark.  An append may fail, and a cancelled context makes any write *)
(* fail; either way Run returns and what was not appended is gone from the *)
(* generator.  A turn that succeeds leaves the process in onOk; one that   *)
(* fails leaves it waiting to subscribe again, or closing.                 *)
Turn(r, last, final, cancelled, onOk, budget) ==
    LET onError == IF proc.cancelled THEN "closing" ELSE "waiting"
        read == [run EXCEPT !.last = last]
        end(phase, ready) ==
            proc' = [proc EXCEPT !.phase = phase, !.ready = ready,
                                 !.top = IF wal' = wal THEN @ ELSE proc.inc]
    IN  \E n \in 0 .. Len(r.out) :
            /\ gen' = [r.g EXCEPT !.taken = @ - SumOf(n + 1 .. Len(r.out), LAMBDA i : r.out[i].e.n)]
            /\ wal' = wal \o Write(SubSeq(r.out, 1, n), proc.inc, r.g.bucket)
            /\ IF n < Len(r.out)
               THEN /\ cancelled \/ limits.appends > 0
                    /\ limits' = [budget EXCEPT !.appends = IF cancelled THEN @ ELSE @ - 1]
                    /\ run' = read
                    /\ end(onError, proc.ready)
                    /\ UNCHANGED file
               ELSE \E c \in checkpoint(read, Larger(Watermark(r.out), IF final THEN last ELSE 0), final, cancelled) :
                    /\ limits.saves >= c.cost
                    /\ limits' = [budget EXCEPT !.saves = @ - c.cost]
                    /\ run' = c.run
                    /\ file' = c.file
                    /\ end(IF c.ok THEN onOk ELSE onError, c.ready)

-----------------------------------------------------------------------------
(* The environment                                                         *)

Tick ==
    /\ now < limits.horizon
    /\ now' = now + 1
    /\ UNCHANGED <<log, pos, gen, run, wal, file, proc, limits>>

(* The daemon emits an event. *)
DockerEvent(k) ==
    /\ Len(log) < limits.events /\ now <= limits.lastEmit /\ k <= limits.keys
    /\ log' = Append(log, [key |-> k, at |-> now, by |-> 0])
    /\ UNCHANGED <<now, pos, gen, run, wal, file, proc, limits>>

(* The process dies; what it wrote stays in the page cache. *)
Kill ==
    /\ proc.phase # "down" /\ limits.kills > 0
    /\ proc' = Down(proc)
    /\ pos' = 0 /\ gen' = NewGenerator /\ run' = NewRunner
    /\ limits' = [limits EXCEPT !.kills = @ - 1]
    /\ UNCHANGED <<now, log, wal, file>>

(* The host loses power: of each incarnation's records the fsynced ones    *)
(* stay, and any prefix of the others.                                     *)
PowerLoss ==
    /\ limits.power > 0
    /\ \E kept \in SUBSET (DOMAIN wal) :
        /\ \A i \in DOMAIN wal : wal[i].safe => i \in kept
        /\ \A i, j \in DOMAIN wal : i < j /\ wal[i].inc = wal[j].inc /\ j \in kept => i \in kept
        /\ wal' = LET order == InOrder(kept, Len(wal)) IN [i \in DOMAIN order |-> [wal[order[i]] EXCEPT !.safe = TRUE]]
    /\ \E v \in file.may : file' = Saved(v)
    /\ proc' = Down(proc)
    /\ pos' = 0 /\ gen' = NewGenerator /\ run' = NewRunner
    /\ limits' = [limits EXCEPT !.power = @ - 1]
    /\ UNCHANGED <<now, log>>

-----------------------------------------------------------------------------
(* Boot                                                                    *)

(* Recover and Open: compare clean_close with the WAL tail, and take the   *)
(* next incarnation.                                                       *)
Open ==
    LET v == file.seen
        next == [v EXCEPT !.inc = @ + 1, !.clean = NotClosed]
    IN  /\ proc.phase = "down" /\ v.inc < limits.boots
        /\ \/ /\ file' = Saved(next)
              /\ proc' = [proc EXCEPT !.phase = "booting", !.inc = next.inc, !.ready = TRUE,
                                      !.unclean = v.inc > 0 /\ v.clean # Len(Of(wal, v.inc))]
              /\ UNCHANGED limits
           \/ /\ limits.saves > 0
              /\ limits' = [limits EXCEPT !.saves = @ - 1]
              /\ file' \in Unsaved(file, next)
              /\ UNCHANGED proc
        /\ UNCHANGED <<now, log, pos, gen, run, wal>>

(* appendContinuityBoundary; when it fails the boot fails. *)
appendContinuityBoundary ==
    /\ proc.phase = "booting"
    /\ \/ /\ wal' = IF proc.unclean THEN Append(wal, Boundary(proc.inc, proc.inc - 1)) ELSE wal
          /\ proc' = [proc EXCEPT !.phase = "waiting", !.top = IF proc.unclean THEN proc.inc ELSE @]
          /\ UNCHANGED limits
       \/ /\ proc.unclean /\ limits.appends > 0
          /\ limits' = [limits EXCEPT !.appends = @ - 1]
          /\ proc' = Down(proc)
          /\ UNCHANGED wal
    /\ UNCHANGED <<now, log, pos, gen, run, file>>

-----------------------------------------------------------------------------
(* The Runner                                                              *)

(* maintainObservedAudit reads the watermark and Run subscribes: from the  *)
(* watermark, inclusive, or from now when there is none.                   *)
Subscribe ==
    /\ proc.phase = "waiting" /\ ~proc.cancelled
    /\ LET since == file.seen.since
           from == {i \in DOMAIN log : log[i].at >= since}
       IN  pos' = IF since = 0 \/ from = {} THEN Len(log) + 1 ELSE Min(from)
    /\ proc' = [proc EXCEPT !.phase = "running"]
    /\ UNCHANGED <<now, log, gen, run, wal, file, limits>>

(* An event arrives. *)
observe ==
    /\ proc.phase = "running" /\ pos \in DOMAIN log
    /\ \E r \in {ObserveEvent(gen, pos, now)} :
        Turn(r, Larger(run.last, log[pos].at), FALSE, proc.cancelled, "running", limits)
    /\ log' = [log EXCEPT ![pos].by = proc.inc]
    /\ pos' = IF proc'.phase = "running" THEN pos + 1 ELSE 0
    /\ UNCHANGED now

(* The flush ticker fires. *)
FlushTick ==
    /\ proc.phase = "running"
    /\ \E r \in {Flush(gen, now)} : Turn(r, run.last, FALSE, proc.cancelled, "running", limits)
    /\ pos' = IF proc'.phase = "running" THEN pos ELSE 0
    /\ UNCHANGED <<now, log>>

(* The stream ends or fails: drain, then subscribe again after a second. *)
StreamEnds ==
    /\ proc.phase = "running" /\ limits.breaks > 0
    /\ \E r \in {Drain(gen, now)} :
        Turn(r, run.last, TRUE, proc.cancelled, IF proc.cancelled THEN "closing" ELSE "waiting",
             [limits EXCEPT !.breaks = @ - 1])
    /\ pos' = 0
    /\ UNCHANGED <<now, log>>

(* WAL syncLoop, and the sync of a full batch; it only matters while the   *)
(* power can still be lost.                                                *)
Sync ==
    /\ proc.phase # "down" /\ limits.power > 0
    /\ wal' = Synced(wal, proc.inc)
    /\ UNCHANGED <<now, log, pos, gen, run, file, proc, limits>>

-----------------------------------------------------------------------------
(* Close                                                                   *)

(* stopObservedAudit cancels the context; the loop notices at its select,  *)
(* which may serve an event or a tick first.                               *)
Cancel ==
    /\ proc.phase \in {"waiting", "running"} /\ ~proc.cancelled /\ limits.stops > 0
    /\ proc' = [proc EXCEPT !.cancelled = TRUE]
    /\ limits' = [limits EXCEPT !.stops = @ - 1]
    /\ UNCHANGED <<now, log, pos, gen, run, wal, file>>

(* Run sees the cancelled context and drains under one of its own. *)
DrainOnCancel ==
    /\ proc.phase = "running" /\ proc.cancelled
    /\ \E r \in {Drain(gen, now)} : Turn(r, run.last, TRUE, FALSE, "closing", limits)
    /\ pos' = 0
    /\ UNCHANGED <<now, log>>

(* Between two subscriptions there is nothing to drain with. *)
StopWaiting ==
    /\ proc.phase = "waiting" /\ proc.cancelled
    /\ proc' = [proc EXCEPT !.phase = "closing"]
    /\ UNCHANGED <<now, log, pos, gen, run, wal, file, limits>>

(* The rest of Runtime.Close: sync and close the WAL, then GracefulClose;  *)
(* how the observer ended does not matter to it.                           *)
CloseRuntime ==
    LET v == [file.seen EXCEPT !.clean = Len(Of(wal, proc.inc))]
    IN  /\ proc.phase = "closing"
        /\ wal' = Synced(wal, proc.inc)
        /\ \/ /\ file' = IF proc.ready THEN Saved(v) ELSE file
              /\ UNCHANGED limits
           \/ /\ proc.ready /\ limits.saves > 0
              /\ file' \in Unsaved(file, v)
              /\ limits' = [limits EXCEPT !.saves = @ - 1]
        /\ proc' = Down(proc)
        /\ pos' = 0 /\ gen' = NewGenerator /\ run' = NewRunner
        /\ UNCHANGED <<now, log>>

-----------------------------------------------------------------------------
ObservedInit(settings) ==
    /\ now = 1
    /\ log = <<>> /\ pos = 0
    /\ gen = NewGenerator /\ run = NewRunner
    /\ wal = <<>>
    /\ limits \in settings
    /\ file = Saved([inc |-> Min({limits.since, 1}), clean |-> IF limits.since = 0 THEN NotClosed ELSE 0,
                     since |-> limits.since])
    /\ proc = [phase |-> "down", inc |-> 0, unclean |-> FALSE, ready |-> FALSE, cancelled |-> FALSE,
               top |-> 0]     \* history: the largest incarnation that ever appended

ObservedNext ==
    \/ Tick
    \/ \E k \in Keys \cup {NotWatched} : DockerEvent(k)
    \/ Kill \/ PowerLoss
    \/ Open \/ appendContinuityBoundary
    \/ Subscribe \/ observe \/ FlushTick \/ StreamEnds \/ Sync
    \/ Cancel \/ DrainOnCancel \/ StopWaiting \/ CloseRuntime

ObservedSpec == ObservedInit(Settings) /\ [][ObservedNext]_observedVars

-----------------------------------------------------------------------------
Events == [ids : SUBSET DOMAIN log, n : Nat, first : Nat, last : Nat]
States == [inc : Nat, clean : Nat \cup {NotClosed}, since : Nat]

(* Every variable holds a value of its type. *)
ObservedTypeOK ==
    /\ now \in 1 .. limits.horizon
    /\ log \in Seq([key : Keys \cup {NotWatched}, at : Nat, by : Nat])
    /\ pos \in 0 .. Len(log) + 1
    /\ gen \in [pending : [Keys -> Events], bucket : Nat, emitted : 0 .. MaxPerSecond, storm : Events, taken : Nat]
    /\ run \in [last : Nat, cand : Nat, done : Nat, called : Nat \cup {Never}]
    /\ wal \in Seq([kind : {"observed", "storm", "uncertain"}, inc : Nat, e : Events, sec : Nat, prev : Nat,
                    safe : BOOLEAN])
    /\ file.seen \in States /\ file.may \in SUBSET States
    /\ proc \in [phase : {"down", "booting", "waiting", "running", "closing"}, inc : Nat, unclean : BOOLEAN,
                 ready : BOOLEAN, cancelled : BOOLEAN, top : Nat]
    /\ \A b \in {"kills", "power", "breaks", "stops", "appends", "saves"} : limits[b] \in Nat

Recorded == UNION {wal[i].e.ids : i \in DOMAIN wal}
InMemory == gen.storm.ids \cup UNION {gen.pending[k].ids : k \in Keys}
Read == {id \in DOMAIN log : log[id].by > 0 /\ log[id].key # NotWatched}

(* Events this chain has read, would not be given by a new subscription,   *)
(* and does not hold.                                                      *)
Lost == {id \in Read : file.seen.since = 0 \/ log[id].at < file.seen.since} \ (Recorded \cup InMemory)

(* An event that the Agent read and lost, because its watermark passed it  *)
(* while it was only in memory or in records not yet fsynced, belongs to an *)
(* incarnation after which the WAL says AUDIT_CONTINUITY_UNCERTAIN         *)
(* (runtime.go appendContinuityBoundary, state.go assessStartup): a clean  *)
(* close loses nothing.                                                    *)
LossIsMarked ==
    proc.phase \in {"waiting", "running"} =>
        \A id \in Lost : \E i \in DOMAIN wal : wal[i].kind = "uncertain" /\ wal[i].prev >= log[id].by

(* A boot takes an incarnation under which no record was ever appended,    *)
(* whatever a failed save and a power loss limits of the state file          *)
(* (state.go openWithHooks): no (incarnation, seq) names two records.      *)
FreshIncarnation == proc.phase = "booting" => proc.inc > proc.top

(* Coalescing, rate limiting and storms never miscount: the counts of this *)
(* incarnation's records and of what the generator holds add up to the     *)
(* signals it accepted, those of a failed append excepted (generator.go    *)
(* Observe, Flush, Drain, addStorm).                                       *)
CountsAddUp ==
    proc.phase \in {"waiting", "running"} =>
        gen.taken = SumOf({i \in DOMAIN wal : wal[i].inc = proc.inc}, LAMBDA i : wal[i].e.n)
                    + gen.storm.n + SumOf(Keys, LAMBDA k : gen.pending[k].n)

(* No incarnation writes more than MaxEventsPerSecond observed records for *)
(* one second, whatever mix of events, ticks and drains flushed them       *)
(* (generator.go rotateBucket and the emitted counter).                    *)
RateLimited ==
    \A i \in DOMAIN wal :
        Cardinality({j \in DOMAIN wal : wal[j].kind = "observed" /\ wal[j].inc = wal[i].inc
                                        /\ wal[j].sec = wal[i].sec}) <= MaxPerSecond

(* Nothing that was read is lost silently (LossIsMarked), and no cursor is   *)
(* given out twice (FreshIncarnation).                                       *)
NothingLostSilently == ObservedTypeOK /\ LossIsMarked /\ FreshIncarnation

(* The generator neither miscounts nor exceeds its rate (CountsAddUp,        *)
(* RateLimited).                                                             *)
GeneratorExact == CountsAddUp /\ RateLimited
=============================================================================
