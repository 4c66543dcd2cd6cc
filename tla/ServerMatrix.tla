---------------------------- MODULE ServerMatrix ----------------------------
(***************************************************************************)
(* The Server's side of the live metrics (servermatrix, serverapi/matrix): *)
(* one stream of frames per host, opened by the first viewer and closed    *)
(* when the last has left, a view per frame for every viewer, and the      *)
(* names of projects and services, asked of discovery off the frame path.  *)
(*                                                                         *)
(* One host is modelled.  Relays and viewers are numbered as they are      *)
(* made; 0 is none.  A frame is a function from its containers to their    *)
(* samples; the time since discovery was last asked is new (below the      *)
(* retry interval), due (at it) or old (at the refresh interval).  Of a    *)
(* sample the memory, its limit and the health are kept; the other sums    *)
(* are made in the same way, and the order of rows is left out.            *)
(***************************************************************************)
EXTENDS Naturals, Sequences, FiniteSetsExt

CONSTANTS
    Frames,             \* the frames the Agent may send
    Facts,              \* Facts[c]: what discovery says of c once it knows it
    MemoryCapacity,     \* of the host, as the Engine reports it
    ViewScenes          \* what discovery knows at first, and budgets: viewers,
                        \* frames, failed calls (fails), containers discovery
                        \* learns of (learns), closings of the hub (ends)

VARIABLES
    known,          \* the containers discovery knows
    relays,         \* the relays ever made
    relay,          \* Hub.relays[agent]
    hubClosed,
    watchers,       \* the subscriptions ever made
    allowed         \* what remains of the budgets

viewVars == <<known, relays, relay, hubClosed, watchers, allowed>>

Uses(b) == allowed[b] > 0 /\ allowed' = [allowed EXCEPT ![b] = @ - 1]

(***************************************************************************)
(* A frame becomes a view: aggregate.go                                    *)
(***************************************************************************)

NoFact == [uid |-> "", name |-> "", service |-> ""]

(* markMemoryLimit: a limit that the host has anyway bounds nothing. *)
Unbounded(x) == ~x.pending /\ (x.limit = 0 \/ (MemoryCapacity > 0 /\ x.limit >= MemoryCapacity))

(* assemble's rows: what is running is the frame's to say, what it belongs  *)
(* to is discovery's, and a row without a project is still a row.           *)
Rows(frame, mapping) ==
    {[id |-> c, sample |-> frame[c], of |-> IF c \in mapping THEN Facts[c] ELSE NoFact] : c \in DOMAIN frame}

healthRank(health) ==
    CASE health = "unhealthy" -> 3 [] health = "starting" -> 2 [] health = "healthy" -> 1 [] OTHER -> 0

(* aggregate: pending rows are counted and add nothing; the limit is a       *)
(* number only when every member has one; the health is the worst reported. *)
aggregate(rows) ==
    LET sampled == {x \in rows : ~x.sample.pending}
        open == \E x \in sampled : Unbounded(x.sample)
        limit == IF open THEN 0 ELSE MapThenSumSet(LAMBDA x : x.sample.limit, sampled)
        silent == {x \in sampled : healthRank(x.sample.health) = 0}
        worst == Max({healthRank(x.sample.health) : x \in sampled} \cup {0})
    IN  [containers |-> Cardinality(rows), pending |-> Cardinality(rows \ sampled),
         memory |-> MapThenSumSet(LAMBDA x : x.sample.memory, sampled),
         limit |-> limit, unbounded |-> open, percentKnown |-> ~open /\ limit > 0,
         health |-> IF sampled = {} THEN "" ELSE <<"none", "healthy", "starting", "unhealthy">>[worst + 1],
         unreported |-> Cardinality(silent)]

(* projectKey: by UID, else by name, else the rows that have no project. *)
projectKey(x) == IF x.of.uid # "" THEN <<"uid", x.of.uid>>
                 ELSE IF x.of.name # "" THEN <<"name", x.of.name>> ELSE <<"", "">>

(* groupProjects: project, then service, then container. *)
groupProjects(rows) ==
    LET inProject(k) == {x \in rows : projectKey(x) = k}
        services(k) == {[service |-> s, containers |-> {x \in inProject(k) : x.of.service = s},
                         totals |-> aggregate({x \in inProject(k) : x.of.service = s})]
                        : s \in {x.of.service : x \in inProject(k)}}
    IN  {[key |-> k, services |-> services(k), totals |-> aggregate(inProject(k))] : k \in {projectKey(x) : x \in rows}}

(***************************************************************************)
(* Hub: opening a host                                                     *)
(***************************************************************************)

NewRelay(v) ==
    [at |-> "dial", canceled |-> FALSE, stream |-> "none", ready |-> FALSE, failed |-> FALSE,
     viewers |-> {v}, to |-> {}, frame |-> <<>>, mapping |-> {}, have |-> FALSE, reason |-> FALSE,
     tried |-> "never", asks |-> "no", answer |-> {}, last |-> {}, unmatched |-> {}, unknown |-> FALSE, shown |-> {}]

NewWatcher(r, first) ==
    [relay |-> r, first |-> first, at |-> "waits", has |-> FALSE, done |-> FALSE, dropped |-> 0,
     view |-> [frame |-> <<>>, mapping |-> {}, stale |-> TRUE, dropped |-> 0], puts |-> 0, reads |-> 0]

Turns(r, x) == relays' = [relays EXCEPT ![r] = x]

(* Subscribe up to the wait: a viewer joins the relay of the host or makes it. *)
WatcherOpens ==
    LET v == Len(watchers) + 1
        r == IF relay = 0 THEN Len(relays) + 1 ELSE relay
    IN  /\ ~hubClosed /\ Uses("viewers")
        /\ relay' = r
        /\ relays' = IF relay = 0 THEN Append(relays, NewRelay(v)) ELSE [relays EXCEPT ![r].viewers = @ \cup {v}]
        /\ watchers' = Append(watchers, NewWatcher(r, relay = 0))
        /\ UNCHANGED <<known, hubClosed>>

(* Sessions.Open: no session, no heartbeat, no capability or no stream, or   *)
(* the stream.  An open that fails stops the relay.                          *)
OpenReturns(r) ==
    LET x == relays[r] IN
    /\ x.at = "dial"
    /\ \/ Turns(r, [x EXCEPT !.at = "begin", !.stream = "open", !.ready = TRUE]) /\ UNCHANGED allowed
       \/ /\ IF x.canceled THEN UNCHANGED allowed ELSE Uses("fails")
          /\ Turns(r, [x EXCEPT !.at = "stop", !.failed = TRUE, !.ready = TRUE])
    /\ UNCHANGED <<known, relay, hubClosed, watchers>>

(* beginRefresh: one read of the names before the first frame. *)
BeginRefresh(r) ==
    /\ relays[r].at = "begin"
    /\ Turns(r, IF relay = r /\ relays[r].asks = "no"
                THEN [relays[r] EXCEPT !.at = "names", !.asks = "asking"]
                ELSE [relays[r] EXCEPT !.at = "recv"])
    /\ UNCHANGED <<known, relay, hubClosed, watchers, allowed>>

(* refreshContext asks discovery, ... *)
DiscoveryAnswers(r) ==
    LET x == relays[r] IN
    /\ x.asks = "asking"
    /\ \/ ~x.canceled /\ Turns(r, [x EXCEPT !.asks = "answered", !.answer = known]) /\ UNCHANGED allowed
       \/ /\ IF x.canceled THEN UNCHANGED allowed ELSE Uses("fails")
          /\ Turns(r, [x EXCEPT !.asks = "failed"])
    /\ UNCHANGED <<known, relay, hubClosed, watchers>>

(* ... and keeps the answer, or the reason there is none, under the lock.   *)
(* The containers of the last frame that it does not name are not asked     *)
(* about early again.                                                       *)
RefreshContext(r) ==
    LET x == [relays[r] EXCEPT !.asks = "no", !.answer = {}, !.at = IF @ = "names" THEN "recv" ELSE @]
        answer == relays[r].answer
    IN  /\ relays[r].asks \in {"answered", "failed"}
        /\ Turns(r, IF relay # r THEN x
                    ELSE IF relays[r].asks = "failed" THEN [x EXCEPT !.tried = "new", !.reason = TRUE]
                    ELSE [x EXCEPT !.tried = "new", !.reason = FALSE, !.have = TRUE, !.mapping = answer,
                                   !.unmatched = x.last \ answer])
        /\ UNCHANGED <<known, relay, hubClosed, watchers, allowed>>

(***************************************************************************)
(* Hub: frames                                                             *)
(***************************************************************************)

(* run's loop: a frame, or the end of the stream. *)
Recv(r) ==
    /\ relays[r].at = "recv" /\ ~relays[r].canceled
    /\ Uses("frames")
    /\ \E f \in Frames : Turns(r, [relays[r] EXCEPT !.at = "publish", !.frame = f])
    /\ UNCHANGED <<known, relay, hubClosed, watchers>>

RecvFails(r) ==
    /\ relays[r].at = "recv"
    /\ IF relays[r].canceled THEN UNCHANGED allowed ELSE Uses("fails")
    /\ Turns(r, [relays[r] EXCEPT !.at = "stop"])
    /\ UNCHANGED <<known, relay, hubClosed, watchers>>

(* publish under the lock, with noteFrameMembership; ... *)
Publish(r) ==
    LET x == relays[r]
        ids == DOMAIN x.frame
    IN  /\ x.at = "publish"
        /\ Turns(r, IF relay # r THEN [x EXCEPT !.at = "recv", !.frame = <<>>]
                    ELSE [x EXCEPT !.at = "put", !.to = x.viewers, !.last = ids, !.shown = x.mapping,
                                   !.unknown = ids \ (x.mapping \cup x.unmatched) # {}])
        /\ UNCHANGED <<known, relay, hubClosed, watchers, allowed>>

(* Mutant of Put: a view that was not read is replaced without a count. *)
PutSilently(w, view) ==
    [w EXCEPT !.has = TRUE, !.view = [view EXCEPT !.dropped = w.dropped], !.puts = @ + 1]

(* Subscription.put: the view replaces one that was not read, which is      *)
(* counted, and carries the count.                                          *)
Put(w, view) ==
    LET lost == w.dropped + (IF w.has THEN 1 ELSE 0) IN
    [w EXCEPT !.has = TRUE, !.dropped = lost, !.view = [view EXCEPT !.dropped = lost], !.puts = @ + 1]

(* ... then every viewer is given the view, and maybeRefreshContext asks     *)
(* discovery again if it is time and nobody is asking.                       *)
PublishView(r) ==
    LET x == relays[r]
        view == [frame |-> x.frame, mapping |-> x.shown, stale |-> ~x.have \/ x.reason, dropped |-> 0]
        due == /\ relay = r /\ x.asks = "no"
               /\ x.tried \in {"never", "old"} \cup (IF x.unknown THEN {"due"} ELSE {})
    IN  /\ x.at = "put"
        /\ watchers' = [v \in DOMAIN watchers |-> IF v \in x.to THEN Put(watchers[v], view) ELSE watchers[v]]
        /\ Turns(r, [x EXCEPT !.at = "recv", !.to = {}, !.frame = <<>>, !.shown = {}, !.unknown = FALSE,
                              !.asks = IF due THEN "asking" ELSE @])
        /\ UNCHANGED <<known, relay, hubClosed, allowed>>

(***************************************************************************)
(* Hub: the end of a relay                                                 *)
(***************************************************************************)

(* stopRelay takes the relay out of the hub and closes its stream; ... *)
StopRelay(r) ==
    LET x == relays[r] IN
    /\ x.at = "stop"
    /\ relay' = IF relay = r THEN 0 ELSE relay
    /\ Turns(r, [x EXCEPT !.at = "finish", !.canceled = TRUE, !.to = x.viewers, !.viewers = {},
                          !.stream = IF @ = "open" THEN "closed" ELSE @])
    /\ UNCHANGED <<known, hubClosed, watchers, allowed>>

(* ... then it tells the viewers it took. *)
FinishViewers(r) ==
    /\ relays[r].at = "finish"
    /\ watchers' = [v \in DOMAIN watchers |-> [watchers[v] EXCEPT !.done = @ \/ v \in relays[r].to]]
    /\ Turns(r, [relays[r] EXCEPT !.at = "over", !.to = {}])
    /\ UNCHANGED <<known, relay, hubClosed, allowed>>

(* Hub.unsubscribe: the last viewer takes the relay out of the hub, ... *)
Unsubscribe(v) ==
    LET r == watchers[v].relay
        rest == relays[r].viewers \ {v}
    IN  /\ watchers' = [watchers EXCEPT ![v].done = TRUE, ![v].at = IF relay = r /\ rest = {} THEN "last" ELSE "closed"]
        /\ relays' = IF relay = r THEN [relays EXCEPT ![r].viewers = rest] ELSE relays
        /\ relay' = IF relay = r /\ rest = {} THEN 0 ELSE relay

(* ... and then cancels it. *)
LastCancels(v) ==
    /\ watchers[v].at = "last"
    /\ watchers' = [watchers EXCEPT ![v].at = "closed"]
    /\ relays' = [relays EXCEPT ![watchers[v].relay].canceled = TRUE]
    /\ UNCHANGED <<known, relay, hubClosed, allowed>>

(* Hub.Close. *)
HubCloses ==
    /\ ~hubClosed /\ Uses("ends")
    /\ hubClosed' = TRUE
    /\ relays' = [r \in DOMAIN relays |-> [relays[r] EXCEPT !.canceled = @ \/ r = relay]]
    /\ relay' = 0
    /\ UNCHANGED <<known, watchers>>

(***************************************************************************)
(* Viewers                                                                 *)
(***************************************************************************)

(* The first viewer performs the open itself, up to the start of run or to  *)
(* the end of the relay; the others wait for it.                            *)
OpenSettled(v) ==
    LET x == relays[watchers[v].relay] IN
    /\ watchers[v].at = "waits" /\ x.ready
    /\ watchers[v].first => (IF x.failed THEN x.at = "over" ELSE x.at \notin {"dial", "begin", "names"})

(* Subscribe returns the subscription, or the error of the open. *)
SubscribeReturns(v) ==
    /\ OpenSettled(v)
    /\ IF relays[watchers[v].relay].failed THEN Unsubscribe(v)
       ELSE watchers' = [watchers EXCEPT ![v].at = "on"] /\ UNCHANGED <<relays, relay>>
    /\ UNCHANGED <<known, hubClosed, allowed>>

(* The context of a viewer that waits for another one's open ends. *)
WaitEnds(v) ==
    /\ watchers[v].at = "waits" /\ (~watchers[v].first \/ OpenSettled(v))
    /\ Unsubscribe(v)
    /\ UNCHANGED <<known, hubClosed, allowed>>

WatcherReads(v) ==
    /\ watchers[v].at = "on" /\ watchers[v].has
    /\ watchers' = [watchers EXCEPT ![v].has = FALSE, ![v].reads = @ + 1]
    /\ UNCHANGED <<known, relays, relay, hubClosed, allowed>>

(* liveMatrixStream.Close, by the browser's end or after an error. *)
WatcherCloses(v) ==
    /\ watchers[v].at = "on"
    /\ Unsubscribe(v)
    /\ UNCHANGED <<known, hubClosed, allowed>>

(* Time passes, discovery learns of a container. *)
ContextAges(r) ==
    /\ relay = r /\ relays[r].tried \in {"new", "due"}
    /\ Turns(r, [relays[r] EXCEPT !.tried = IF @ = "new" THEN "due" ELSE "old"])
    /\ UNCHANGED <<known, relay, hubClosed, watchers, allowed>>

DiscoveryLearns(c) ==
    /\ c \notin known /\ Uses("learns")
    /\ known' = known \cup {c}
    /\ UNCHANGED <<relays, relay, hubClosed, watchers>>

(***************************************************************************)
(* The specification                                                       *)
(***************************************************************************)

ViewInit(scenes) ==
    /\ \E k \in scenes : known = k.known /\ allowed = k
    /\ relays = <<>> /\ watchers = <<>>
    /\ relay = 0 /\ hubClosed = FALSE

ViewWorks ==
    \/ \E r \in DOMAIN relays :
        \/ OpenReturns(r) \/ BeginRefresh(r) \/ DiscoveryAnswers(r) \/ RefreshContext(r)
        \/ Publish(r) \/ PublishView(r) \/ StopRelay(r) \/ FinishViewers(r)
        \/ relays[r].canceled /\ RecvFails(r)
    \/ \E v \in DOMAIN watchers :
        \/ SubscribeReturns(v) \/ LastCancels(v)
        \/ watchers[v].done /\ WatcherCloses(v)

ViewNext ==
    \/ ViewWorks
    \/ WatcherOpens \/ HubCloses
    \/ \E r \in DOMAIN relays : Recv(r) \/ RecvFails(r) \/ ContextAges(r)
    \/ \E v \in DOMAIN watchers : WaitEnds(v) \/ WatcherReads(v) \/ WatcherCloses(v)
    \/ \E c \in DOMAIN Facts : DiscoveryLearns(c)

(* Goroutines that can run do run, and calls of the transport return. *)
ViewSpec == ViewInit(ViewScenes) /\ [][ViewNext]_viewVars /\ WF_viewVars(ViewWorks)

(***************************************************************************)
(* Properties                                                              *)
(***************************************************************************)

(* A stream that is open belongs to the host's relay, or to one that is      *)
(* cancelled, about to be, or stopping by itself: no viewer leaves a stream  *)
(* of the Agent running behind them.                                         *)
StreamsAreOwned ==
    \A r \in DOMAIN relays :
        relays[r].stream = "open" /\ r # relay =>
            \/ relays[r].canceled
            \/ \E v \in DOMAIN watchers : watchers[v].relay = r /\ watchers[v].at = "last"

(* The relay of the host has a viewer, and a viewer that has not been told  *)
(* the end is held by a relay that has still to tell it.                    *)
WatchersAreServed ==
    /\ relay # 0 => relays[relay].viewers # {}
    /\ \A v \in DOMAIN watchers :
        ~watchers[v].done => \E r \in {watchers[v].relay} :
                                v \in relays[r].viewers \cup relays[r].to /\ relays[r].at # "over"

(* Every view a viewer was given is read, counted as dropped or still there, *)
(* and the newest view carries the count.                                    *)
DropsAreCounted ==
    \A v \in DOMAIN watchers :
        LET w == watchers[v] IN
        /\ w.puts = w.reads + w.view.dropped + (IF w.has THEN 1 ELSE 0)

(* The tree of a view holds every container of the frame once, and the      *)
(* projects and their services add up to the host: counts and memory, the   *)
(* limit unless one is unbounded, the worst health.                          *)
TreeAddsUp(view) ==
    LET rows == Rows(view.frame, view.mapping)
        host == aggregate(rows)
        projects == groupProjects(rows)
        adds(total, parts, f(_)) == f(total) = MapThenSumSet(LAMBDA p : f(p.totals), parts)
        whole(total, parts) ==
            /\ adds(total, parts, LAMBDA t : t.containers)
            /\ adds(total, parts, LAMBDA t : t.pending)
            /\ adds(total, parts, LAMBDA t : t.memory)
            /\ adds(total, parts, LAMBDA t : t.unreported)
            /\ total.unbounded <=> \E p \in parts : p.totals.unbounded
            /\ ~total.unbounded => adds(total, parts, LAMBDA t : t.limit)
            /\ total.unbounded => total.limit = 0 /\ ~total.percentKnown
            /\ healthRank(total.health) = Max({healthRank(p.totals.health) : p \in parts} \cup {0})
    IN  /\ whole(host, projects)
        /\ \A p \in projects : whole(p.totals, p.services)
        /\ \A x \in rows : Cardinality({p \in projects : \E s \in p.services : x \in s.containers}) = 1

ViewsAreWhole == \A v \in DOMAIN watchers : TreeAddsUp(watchers[v].view)

(* A view that is not marked stale shows names of an answer of discovery,   *)
(* and no view shows a name discovery never gave.                           *)
NamesAreKnown == \A v \in DOMAIN watchers : watchers[v].view.mapping \subseteq known

(* Every viewer of a host is served by one stream and told the truth: no    *)
(* stream outlives its viewers (StreamsAreOwned), nobody is forgotten       *)
(* (WatchersAreServed), what is skipped is counted (DropsAreCounted), the   *)
(* tree adds up (ViewsAreWhole) and names are discovery's (NamesAreKnown).  *)
ViewsAreHonest ==
    StreamsAreOwned /\ WatchersAreServed /\ DropsAreCounted /\ ViewsAreWhole /\ NamesAreKnown

(* When nobody watches any more every relay is over and its stream closed,  *)
(* and the viewers of a hub that was closed are told.                       *)
ViewsEnd ==
    /\ []<>(\/ \E v \in DOMAIN watchers : watchers[v].at # "closed"
            \/ \A r \in DOMAIN relays : relays[r].at = "over")
    /\ hubClosed ~> \A v \in DOMAIN watchers : watchers[v].done
=============================================================================
