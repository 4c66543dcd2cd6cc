----------------------------- MODULE LiveMatrix -----------------------------
(***************************************************************************)
(* The Agent's live metrics.  livestats/stats.go shares one Docker stats   *)
(* stream per container between its viewers and keeps the newest sample;   *)
(* its viewers are StreamStats RPCs and the members of the matrix.         *)
(* livematrix/matrix.go follows the set of running containers with Docker  *)
(* events and a periodic listing, holds a subscription of livestats for    *)
(* each, and hands whole frames to the viewers of the host.  One relay     *)
(* serves all of them from the first to the last; a relay that has lost    *)
(* its viewers unwinds while the next one may already run.                 *)
(*                                                                         *)
(* Relays, subscriptions and viewers are numbered as they are made; 0 is   *)
(* none.  A sample is its number among the samples of its container.  The  *)
(* newest sample or frame waits until its reader takes it, and nobody      *)
(* waits for the reader, so reading and the count of frames missed are     *)
(* left out (see ServerMatrix for the same count), and so are the numbers  *)
(* in samples and capacities.                                              *)
(***************************************************************************)
EXTENDS Naturals, Sequences, FiniteSets

CONSTANTS
    Containers,
    MatrixScenes        \* the containers running at first, whether Docker
                        \* events are watched, frames between two full
                        \* listings (reconcileEvery), and budgets: viewers
                        \* of the matrix, StreamStats RPCs (direct), samples,
                        \* containers started or stopped (moves), stats
                        \* streams that fail (breaks), calls of the Engine
                        \* that fail (fails), closings of the handler (ends)

VARIABLES
    running,        \* the containers the Engine runs
    emitted,        \* emitted[c]: samples of c so far
    statRelays,     \* livestats: the relays ever made, one stream each
    watched,        \* livestats Hub.containers
    subs,           \* livestats: the subscriptions ever made
    statsClosed, matrixClosed,
    hosts,          \* livematrix: the host relays ever made
    current,        \* livematrix Hub.relay
    viewers,        \* livematrix: the subscriptions ever made
    spare           \* what remains of the budgets

statsVars == <<emitted, statRelays, watched, subs, statsClosed>>
hubVars == <<matrixClosed, hosts, current, viewers>>
matrixVars == <<running, statsVars, hubVars, spare>>

Spend(b) == spare[b] > 0 /\ spare' = [spare EXCEPT ![b] = @ - 1]

(***************************************************************************)
(* livestats                                                               *)
(***************************************************************************)

(* Hub.Subscribe, for the host relay `by` or (0) a StreamStats RPC: the     *)
(* first viewer of a container starts its stream, a later one is given the  *)
(* newest sample if one has been published.                                 *)
StatsSubscribe(c, by) ==
    LET first == watched[c] = 0
        r == IF first THEN Len(statRelays) + 1 ELSE watched[c]
        s == Len(subs) + 1
        known == ~first /\ statRelays[r].published
    IN  /\ watched' = [watched EXCEPT ![c] = r]
        /\ statRelays' = IF first
               THEN Append(statRelays, [id |-> c, canceled |-> FALSE, viewers |-> {s}, latest |-> 0,
                                        fresh |-> FALSE, published |-> FALSE, over |-> FALSE])
               ELSE [statRelays EXCEPT ![r].viewers = @ \cup {s}]
        /\ subs' = Append(subs, [relay |-> r, by |-> by, latest |-> IF known THEN statRelays[r].latest ELSE 0,
                                 done |-> FALSE, gone |-> FALSE])
        /\ UNCHANGED <<emitted, statsClosed>>

(* Hub.unsubscribe: the last viewer ends the stream. *)
StatsUnsubscribe(s) ==
    LET r == subs[s].relay
        rest == statRelays[r].viewers \ {s}
        last == rest = {} /\ watched[statRelays[r].id] = r
    IN  IF s \notin statRelays[r].viewers THEN UNCHANGED statsVars
        ELSE /\ subs' = [subs EXCEPT ![s].done = TRUE]
             /\ statRelays' = [statRelays EXCEPT ![r].viewers = rest, ![r].canceled = @ \/ last]
             /\ watched' = IF last THEN [watched EXCEPT ![statRelays[r].id] = 0] ELSE watched
             /\ UNCHANGED <<emitted, statsClosed>>

(* The relays rs end: their streams are cancelled, their viewers finished. *)
EndRelays(rs) ==
    /\ watched' = [c \in Containers |-> IF watched[c] \in rs THEN 0 ELSE watched[c]]
    /\ statRelays' = [r \in DOMAIN statRelays |->
                        [statRelays[r] EXCEPT !.canceled = @ \/ r \in rs, !.over = @ \/ r \in rs]]
    /\ subs' = [s \in DOMAIN subs |-> [subs[s] EXCEPT !.done = @ \/ \E r \in rs : s \in statRelays[r].viewers]]

(* The Engine sends a sample; collect keeps it as the newest. *)
Collect(r) ==
    LET c == statRelays[r].id IN
    /\ ~statRelays[r].canceled /\ c \in running
    /\ Spend("samples")
    /\ emitted' = [emitted EXCEPT ![c] = @ + 1]
    /\ statRelays' = [statRelays EXCEPT ![r].latest = emitted'[c], ![r].fresh = TRUE]
    /\ UNCHANGED <<running, watched, subs, statsClosed, hubVars>>

(* The stream of a container that has stopped ends, another one may fail:   *)
(* endRelay finishes the viewers.                                           *)
CollectEnds(r) ==
    /\ watched[statRelays[r].id] = r
    /\ statRelays[r].id \notin running
    /\ EndRelays({r})
    /\ UNCHANGED <<running, emitted, statsClosed, hubVars, spare>>

CollectFails(r) ==
    /\ watched[statRelays[r].id] = r
    /\ statRelays[r].id \in running /\ Spend("breaks")
    /\ EndRelays({r})
    /\ UNCHANGED <<running, emitted, statsClosed, hubVars>>

(* The stream of a cancelled relay returns; nothing is left to end. *)
CollectStops(r) ==
    /\ statRelays[r].canceled /\ ~statRelays[r].over
    /\ statRelays' = [statRelays EXCEPT ![r].over = TRUE]
    /\ UNCHANGED <<running, emitted, watched, subs, statsClosed, hubVars, spare>>

(* The sampling tick: a sample not yet published goes to every viewer. *)
PublishSample(r) ==
    /\ watched[statRelays[r].id] = r /\ statRelays[r].fresh
    /\ statRelays' = [statRelays EXCEPT ![r].published = TRUE, ![r].fresh = FALSE]
    /\ subs' = [s \in DOMAIN subs |->
                  IF s \in statRelays[r].viewers
                  THEN [subs[s] EXCEPT !.latest = statRelays[r].latest] ELSE subs[s]]
    /\ UNCHANGED <<running, emitted, watched, statsClosed, hubVars, spare>>

(* LiveStatsHandler.StreamStats: it subscribes, reads, and closes its        *)
(* subscription when the viewer has gone or the stream has ended.            *)
StatsOpens(c) ==
    /\ ~statsClosed /\ Spend("direct")
    /\ StatsSubscribe(c, 0)
    /\ UNCHANGED <<running, hubVars>>

StatsLeaves(s) ==
    /\ subs[s].by = 0 /\ ~subs[s].gone
    /\ subs' = [subs EXCEPT ![s].gone = TRUE]
    /\ UNCHANGED <<running, emitted, statRelays, watched, statsClosed, hubVars, spare>>

StatsReturns(s) ==
    /\ subs[s].by = 0 /\ subs[s].gone
    /\ s \in statRelays[subs[s].relay].viewers
    /\ StatsUnsubscribe(s)
    /\ UNCHANGED <<running, hubVars, spare>>

(* The goroutine that waits for the end of the subscriber's context. *)
ContextEnds(s) ==
    /\ subs[s].by # 0 /\ hosts[subs[s].by].canceled /\ ~subs[s].done
    /\ StatsUnsubscribe(s)
    /\ UNCHANGED <<running, hubVars, spare>>

(***************************************************************************)
(* livematrix: the loop of a host relay                                    *)
(***************************************************************************)

NoMembers == [c \in Containers |-> 0]

NewHost(v) ==
    [at |-> "list", canceled |-> FALSE, viewers |-> {v}, members |-> NoMembers, stale |-> FALSE,
     capacity |-> FALSE, workStale |-> FALSE, full |-> TRUE, next |-> "loop", since |-> 0,
     listed |-> {}, closing |-> {}, missing |-> {}, held |-> 0,
     watch |-> "off", changed |-> FALSE, to |-> {}, shot |-> NoMembers]

(* What is left of a relay that has returned. *)
Over == [NewHost(0) EXCEPT !.at = "over", !.canceled = TRUE, !.viewers = {}]

NewViewer(h) == [relay |-> h, at |-> "on", frame |-> NoMembers, done |-> FALSE]

(* After the membership comes the workload, if it was asked for. *)
Reconciled(x) == [x EXCEPT !.at = IF x.full THEN "capacity" ELSE x.next, !.missing = {}, !.held = 0]

Staged(x) ==
    IF x.closing # {} THEN [x EXCEPT !.at = "close"]
    ELSE IF x.missing # {} THEN [x EXCEPT !.at = "join"]
    ELSE Reconciled(x)

Becomes(h, x) == hosts' = [hosts EXCEPT ![h] = x]

HostSame == UNCHANGED <<running, statsVars, matrixClosed, current, viewers>>

(* Membership.Running: a failed listing keeps the members and says so. *)
ListRunning(h) ==
    LET x == hosts[h] IN
    /\ x.at = "list"
    /\ \/ ~x.canceled /\ Becomes(h, [x EXCEPT !.at = "apply", !.listed = running]) /\ UNCHANGED spare
       \/ /\ IF x.canceled THEN UNCHANGED spare ELSE Spend("fails")
          /\ Becomes(h, Reconciled([x EXCEPT !.stale = @ \/ current = h]))
    /\ HostSame

(* Mutant of Dropped: a member whose stream has ended is kept. *)
DroppedGone(x) == {c \in Containers : x.members[c] # 0 /\ c \notin x.listed}

(* The members that have left, and those whose stream has ended. *)
Dropped(x) == {c \in Containers : x.members[c] # 0 /\ (c \notin x.listed \/ subs[x.members[c]].done)}

(* reconcileMembership, under the lock. *)
ApplyMembership(h) ==
    LET x == hosts[h]
        kept == [c \in Containers |-> IF c \in Dropped(x) THEN 0 ELSE x.members[c]]
    IN  /\ x.at = "apply"
        /\ Becomes(h, IF current # h THEN Reconciled(x)
                      ELSE Staged([x EXCEPT !.stale = FALSE, !.members = kept,
                                            !.closing = {x.members[c] : c \in Dropped(x)},
                                            !.missing = {c \in x.listed : kept[c] = 0}]))
        /\ HostSame /\ UNCHANGED spare

CloseMember(h) ==
    /\ hosts[h].at = "close"
    /\ \E s \in hosts[h].closing :
        /\ StatsUnsubscribe(s)
        /\ Becomes(h, Staged([hosts[h] EXCEPT !.closing = @ \ {s}]))
    /\ UNCHANGED <<running, matrixClosed, current, viewers, spare>>

JoinMember(h) ==
    /\ hosts[h].at = "join"
    /\ \E c \in hosts[h].missing :
        LET x == [hosts[h] EXCEPT !.missing = @ \ {c}] IN
        IF x.canceled \/ statsClosed
        THEN Becomes(h, Staged(x)) /\ UNCHANGED statsVars
        ELSE StatsSubscribe(c, h) /\ Becomes(h, [x EXCEPT !.at = "adopt", !.held = Len(subs) + 1])
    /\ UNCHANGED <<running, matrixClosed, current, viewers, spare>>

(* The subscription becomes a member, unless the relay was replaced.  (That *)
(* another path has added the container cannot be: only run adds members.)  *)
AdoptMember(h) ==
    LET x == hosts[h] IN
    /\ x.at = "adopt"
    /\ IF current # h
       THEN StatsUnsubscribe(x.held) /\ Becomes(h, Reconciled(x))
       ELSE /\ Becomes(h, Staged([x EXCEPT !.members[statRelays[subs[x.held].relay].id] = x.held, !.held = 0]))
            /\ UNCHANGED statsVars
    /\ UNCHANGED <<running, matrixClosed, current, viewers, spare>>

(* refreshWorkload; the first one is followed by the watch for events. *)
RefreshWorkload(h) ==
    LET x == [hosts[h] EXCEPT !.at = hosts[h].next, !.watch = IF @ = "off" /\ spare.events THEN "down" ELSE @] IN
    /\ hosts[h].at = "capacity"
    /\ \/ /\ ~x.canceled /\ UNCHANGED spare
          /\ Becomes(h, IF current = h THEN [x EXCEPT !.capacity = TRUE, !.workStale = FALSE] ELSE x)
       \/ /\ IF x.canceled THEN UNCHANGED spare ELSE Spend("fails")
          /\ Becomes(h, IF current = h THEN [x EXCEPT !.workStale = TRUE] ELSE x)
    /\ HostSame

(* run's select: the end of the relay (LoopStops), a change, or the tick of *)
(* a frame.                                                                 *)
LoopChanged(h) ==
    /\ hosts[h].at = "loop" /\ hosts[h].changed
    /\ Becomes(h, [hosts[h] EXCEPT !.changed = FALSE, !.full = FALSE, !.next = "loop", !.at = "list"])
    /\ HostSame /\ UNCHANGED spare

LoopTicks(h) ==
    LET x == hosts[h] IN
    /\ x.at = "loop"
    /\ Becomes(h, IF x.since + 1 >= spare.reconcileEvery
                  THEN [x EXCEPT !.since = 0, !.full = TRUE, !.next = "publish", !.at = "list"]
                  ELSE [x EXCEPT !.since = @ + 1, !.at = "publish"])
    /\ HostSame /\ UNCHANGED spare

(* publish reads the members and the viewers once, under the lock; ... *)
PublishFrame(h) ==
    LET x == hosts[h] IN
    /\ x.at = "publish"
    /\ Becomes(h, IF current # h THEN [x EXCEPT !.at = "loop"]
                  ELSE [x EXCEPT !.at = "put", !.shot = x.members, !.to = x.viewers])
    /\ HostSame /\ UNCHANGED spare

(* ... the rows are the newest samples of those members, pending (0) where  *)
(* none has arrived; a viewer's next frame replaces the one it has not read. *)
PutFrame(h) ==
    LET x == hosts[h]
        row(c) == IF x.shot[c] = 0 THEN 0 ELSE subs[x.shot[c]].latest
    IN  /\ x.at = "put"
        /\ viewers' = [v \in DOMAIN viewers |->
                         IF v \in x.to THEN [viewers[v] EXCEPT !.frame = [c \in Containers |-> row(c)]]
                         ELSE viewers[v]]
        /\ Becomes(h, [x EXCEPT !.at = "loop", !.to = {}, !.shot = NoMembers])
        /\ UNCHANGED <<running, statsVars, matrixClosed, current, spare>>

(* Mutant of LoopStops: the viewers are left to their contexts. *)
StopKeepsViewers(h) ==
    LET x == hosts[h] IN
    /\ x.at = "loop" /\ x.canceled
    /\ current' = IF current = h THEN 0 ELSE current
    /\ Becomes(h, [x EXCEPT !.at = "unwind", !.members = NoMembers,
                            !.closing = {x.members[c] : c \in Containers} \ {0}, !.to = {}, !.viewers = {}])
    /\ UNCHANGED <<running, statsVars, matrixClosed, viewers, spare>>

(* The relay is cancelled: stopRelay takes what it holds, under the lock, *)
(* and lets it go.                                                        *)
LoopStops(h) ==
    LET x == hosts[h] IN
    /\ x.at = "loop" /\ x.canceled
    /\ current' = IF current = h THEN 0 ELSE current
    /\ Becomes(h, [x EXCEPT !.at = "unwind", !.members = NoMembers,
                            !.closing = {x.members[c] : c \in Containers} \ {0}, !.to = x.viewers, !.viewers = {}])
    /\ UNCHANGED <<running, statsVars, matrixClosed, viewers, spare>>

Unwind(h) ==
    LET x == hosts[h] IN
    /\ x.at = "unwind"
    /\ IF x.closing # {}
       THEN /\ \E s \in x.closing : StatsUnsubscribe(s) /\ Becomes(h, [x EXCEPT !.closing = @ \ {s}])
            /\ UNCHANGED viewers
       ELSE /\ viewers' = [v \in DOMAIN viewers |-> [viewers[v] EXCEPT !.done = @ \/ v \in x.to]]
            /\ Becomes(h, Over)
            /\ UNCHANGED statsVars
    /\ UNCHANGED <<running, matrixClosed, current, spare>>

(* MembershipEvents.Watch: every time it begins to watch it asks for a      *)
(* listing, before the subscription; a watch that is lost begins again.     *)
WatchAsks(h) ==
    /\ hosts[h].watch = "down" /\ ~hosts[h].canceled
    /\ Becomes(h, [hosts[h] EXCEPT !.watch = "joining", !.changed = TRUE])
    /\ HostSame /\ UNCHANGED spare

WatchJoins(h) ==
    /\ hosts[h].watch = "joining" /\ ~hosts[h].canceled
    /\ Becomes(h, [hosts[h] EXCEPT !.watch = "up"])
    /\ HostSame /\ UNCHANGED spare

WatchBreaks(h) ==
    /\ hosts[h].watch \in {"joining", "up"} /\ ~hosts[h].canceled
    /\ Spend("fails")
    /\ Becomes(h, [hosts[h] EXCEPT !.watch = "down"])
    /\ HostSame

(***************************************************************************)
(* Viewers, the Engine, and the end of the handler                         *)
(***************************************************************************)

(* Hub.Subscribe of the matrix: the first viewer starts the relay. *)
ViewerOpens ==
    LET v == Len(viewers) + 1
        h == IF current = 0 THEN Len(hosts) + 1 ELSE current
    IN  /\ ~matrixClosed /\ Spend("viewers")
        /\ current' = h
        /\ hosts' = IF current = 0 THEN Append(hosts, NewHost(v)) ELSE [hosts EXCEPT ![h].viewers = @ \cup {v}]
        /\ viewers' = Append(viewers, NewViewer(h))
        /\ UNCHANGED <<running, statsVars, matrixClosed>>

(* Subscription.Close: the last viewer takes the relay out of the hub, ... *)
ViewerCloses(v) ==
    LET h == viewers[v].relay
        rest == hosts[h].viewers \ {v}
    IN  /\ viewers[v].at = "on"
        /\ viewers' = [viewers EXCEPT ![v].done = TRUE, ![v].frame = NoMembers,
                                      ![v].at = IF current = h /\ rest = {} THEN "last" ELSE "closed"]
        /\ IF current # h THEN UNCHANGED <<hosts, current>>
           ELSE /\ hosts' = [hosts EXCEPT ![h].viewers = rest]
                /\ current' = IF rest = {} THEN 0 ELSE current
        /\ UNCHANGED <<running, statsVars, matrixClosed, spare>>

(* ... and then cancels it. *)
LastViewerCancels(v) ==
    /\ viewers[v].at = "last"
    /\ viewers' = [viewers EXCEPT ![v].at = "closed"]
    /\ hosts' = [hosts EXCEPT ![viewers[v].relay].canceled = TRUE]
    /\ UNCHANGED <<running, statsVars, matrixClosed, current, spare>>

(* A container starts or stops; a watch that is up hears of it. *)
ContainerMoves(c) ==
    /\ Spend("moves")
    /\ running' = IF c \in running THEN running \ {c} ELSE running \cup {c}
    /\ hosts' = [h \in DOMAIN hosts |-> [hosts[h] EXCEPT !.changed = @ \/ (hosts[h].watch = "up" /\ ~hosts[h].canceled)]]
    /\ UNCHANGED <<statsVars, matrixClosed, current, viewers>>

(* Handler.Close: the hub of the matrix first, then the hub of the stats. *)
CloseMatrix ==
    /\ ~matrixClosed /\ Spend("ends")
    /\ matrixClosed' = TRUE
    /\ current' = 0
    /\ hosts' = [h \in DOMAIN hosts |-> [hosts[h] EXCEPT !.canceled = @ \/ h = current]]
    /\ UNCHANGED <<running, statsVars, viewers>>

CloseStats ==
    /\ matrixClosed /\ ~statsClosed
    /\ statsClosed' = TRUE
    /\ EndRelays({watched[c] : c \in Containers} \ {0})
    /\ UNCHANGED <<running, emitted, hubVars, spare>>

(***************************************************************************)
(* The specification                                                       *)
(***************************************************************************)

MatrixInit(scenes) ==
    /\ \E k \in scenes : running = k.running /\ spare = k
    /\ emitted = NoMembers /\ watched = NoMembers
    /\ statRelays = <<>> /\ subs = <<>> /\ hosts = <<>> /\ viewers = <<>>
    /\ current = 0
    /\ matrixClosed = FALSE /\ statsClosed = FALSE

HostSteps(h) ==
    \/ ListRunning(h) \/ ApplyMembership(h) \/ CloseMember(h) \/ JoinMember(h) \/ AdoptMember(h)
    \/ RefreshWorkload(h) \/ LoopStops(h) \/ LoopChanged(h) \/ LoopTicks(h)
    \/ PublishFrame(h) \/ PutFrame(h) \/ Unwind(h)

(* Steps of goroutines that have work to do, other than the host relays'. *)
StreamSteps ==
    \/ \E r \in DOMAIN statRelays : CollectEnds(r) \/ CollectStops(r) \/ PublishSample(r)
    \/ \E s \in DOMAIN subs : StatsReturns(s) \/ ContextEnds(s)
    \/ \E v \in DOMAIN viewers : LastViewerCancels(v) \/ (viewers[v].done /\ ViewerCloses(v))
    \/ \E h \in DOMAIN hosts : WatchAsks(h) \/ WatchJoins(h)
    \/ CloseStats

MatrixNext ==
    \/ StreamSteps
    \/ \E h \in DOMAIN hosts : HostSteps(h) \/ WatchBreaks(h)
    \/ \E r \in DOMAIN statRelays : Collect(r) \/ CollectFails(r)
    \/ \E s \in DOMAIN subs : StatsLeaves(s)
    \/ \E c \in Containers : StatsOpens(c) \/ ContainerMoves(c)
    \/ \E v \in DOMAIN viewers : ViewerCloses(v)
    \/ ViewerOpens \/ CloseMatrix

Hosts == 1 .. 2     \* bound: host relays, the largest budget of viewers

(* Goroutines that can run do run; a select that finds the relay cancelled   *)
(* again and again takes that branch, for Go picks among the ready ones.     *)
MatrixFair ==
    /\ WF_matrixVars(StreamSteps)
    /\ \A h \in Hosts :
        /\ WF_matrixVars(h \in DOMAIN hosts /\ HostSteps(h))
        /\ SF_matrixVars(h \in DOMAIN hosts /\ LoopStops(h))

MatrixSpec == MatrixInit(MatrixScenes) /\ [][MatrixNext]_matrixVars /\ MatrixFair

(***************************************************************************)
(* Properties                                                              *)
(***************************************************************************)

Held(x) == ({x.members[c] : c \in Containers} \cup x.closing \cup {x.held}) \ {0}

(* The hub of the stats holds exactly the streams that are alive, one per    *)
(* container, each for the sake of a viewer, and an unfinished subscription  *)
(* is a viewer of one of them.                                               *)
StreamsAreShared ==
    /\ \A r \in DOMAIN statRelays :
        /\ ~statRelays[r].canceled <=> watched[statRelays[r].id] = r
        /\ ~statRelays[r].canceled => statRelays[r].viewers # {}
    /\ \A s \in DOMAIN subs :
        subs[s].done <=> statRelays[subs[s].relay].canceled \/ s \notin statRelays[subs[s].relay].viewers

(* No subscription is forgotten: one that is not finished is a member of its *)
(* host relay or in that goroutine's hands, or ends with the relay's         *)
(* context; one that belongs to a StreamStats RPC is the RPC's to close.     *)
NoStreamForgotten ==
    \A s \in DOMAIN subs :
        ~subs[s].done /\ subs[s].by # 0 =>
            hosts[subs[s].by].canceled \/ s \in Held(hosts[subs[s].by])

(* A relay that is not the hub's is about to be cancelled or is, and a       *)
(* viewer that has not been told the end is one of a relay that still runs.  *)
ViewersAreServed ==
    /\ \A h \in DOMAIN hosts :
        h # current => \/ hosts[h].canceled
                       \/ \E v \in DOMAIN viewers : viewers[v].relay = h /\ viewers[v].at = "last"
    /\ \A v \in DOMAIN viewers :
        ~viewers[v].done => v \in hosts[viewers[v].relay].viewers \cup hosts[viewers[v].relay].to

(* A row of a frame is pending or a sample that the Engine has sent. *)
FramesAreTrue ==
    \A v \in DOMAIN viewers : \A c \in Containers : viewers[v].frame[c] <= emitted[c]

(* The Agent's metrics are shared and tidied up: one stream per container    *)
(* for as long as it has a viewer (StreamsAreShared), no subscription that   *)
(* nobody will close (NoStreamForgotten), no viewer whom nobody will tell    *)
(* the end (ViewersAreServed), and frames of samples the Engine has sent.    *)
MatrixIsTidy == StreamsAreShared /\ NoStreamForgotten /\ ViewersAreServed /\ FramesAreTrue

(* When nobody watches any more, every stream of the Engine is ended. *)
StreamsEnd ==
    []<>(\/ \E v \in DOMAIN viewers : viewers[v].at = "on"
         \/ \E s \in DOMAIN subs : subs[s].by = 0 /\ ~subs[s].gone /\ ~subs[s].done
         \/ \A r \in DOMAIN statRelays : statRelays[r].over)

(* The members of a matrix that is watched become the running containers,    *)
(* each with a stream that is alive, whatever was missed, failed or broke.   *)
MatrixFollows ==
    []<>(current # 0 => \A c \in Containers :
            LET s == hosts[current].members[c] IN IF c \in running THEN s # 0 /\ ~subs[s].done ELSE s = 0)
=============================================================================
