------------------------------- MODULE MCLive -------------------------------
(***************************************************************************)
(* An instance for TLC of the live streams, which have no state in common: *)
(* the logs an Agent relays, the metrics it collects, and the views of     *)
(* them that the Server hands out.  A behaviour is one of one component,   *)
(* the one `on` names; the others stay as they were at the start.          *)
(***************************************************************************)
EXTENDS LogRelay, LiveMatrix, ServerMatrix, TLC

CONSTANTS c1, c2

VARIABLE on

MCChunks == {[bytes |-> 1, lines |-> 1], [bytes |-> 2, lines |-> 0]}

LogsOf(t, w, l) == [target |-> t, writes |-> w, leaves |-> l]
MCLogScenes == {LogsOf(t, 3, 0) : t \in {"container", "project"}} \cup {LogsOf(t, 2, 1) : t \in {"container", "project"}}

\* Containers that come and go, with and without a watch for events; an
\* Engine that fails; samples and streams that break; a StreamStats RPC beside
\* the matrix; a viewer who comes as another leaves; the end of the handler.
Quiet == [running |-> {c1}, events |-> FALSE, reconcileEvery |-> 2, samples |-> 0, viewers |-> 1, direct |-> 0, moves |-> 0,
          breaks |-> 0, fails |-> 0, ends |-> 0]
Steady == [Quiet EXCEPT !.reconcileEvery = 1]
MCMatrixScenes ==
    {[Quiet EXCEPT !.moves = 2],
     [Quiet EXCEPT !.events = TRUE, !.moves = 1],
     [Quiet EXCEPT !.events = TRUE, !.fails = 1],
     [Quiet EXCEPT !.samples = 2, !.breaks = 1],
     [Steady EXCEPT !.direct = 1, !.samples = 1],
     [Steady EXCEPT !.viewers = 2],
     [Steady EXCEPT !.direct = 1, !.ends = 1]}

Pending == [pending |-> TRUE, memory |-> 0, limit |-> 0, health |-> ""]
Sample(m, l, h) == [pending |-> FALSE, memory |-> m, limit |-> l, health |-> h]
MCFacts == (c1 :> [uid |-> "u", name |-> "p", service |-> "web"]) @@ (c2 :> [uid |-> "u", name |-> "p", service |-> "db"])
MCFrames ==
    {(c1 :> Sample(1, 2, "healthy")) @@ (c2 :> Sample(2, 3, "unhealthy")),
     (c1 :> Sample(1, 4, "")) @@ (c2 :> Pending)}

\* A view that follows what discovery learns; viewers who come and go while
\* the host is opened, and one after another; calls that fail; the hub closed.
Calm == [known |-> {c1}, viewers |-> 2, frames |-> 1, fails |-> 0, learns |-> 0, ends |-> 0]
MCViewScenes ==
    {[Calm EXCEPT !.viewers = 1, !.frames = 2, !.learns = 1],
     [Calm EXCEPT !.viewers = 1, !.frames = 2, !.fails = 1],
     [Calm EXCEPT !.viewers = 3, !.frames = 0],
     [Calm EXCEPT !.frames = 0, !.fails = 1],
     [Calm EXCEPT !.frames = 0, !.ends = 1],
     [Calm EXCEPT !.viewers = 1, !.ends = 1],
     Calm}

LogRests == LogInit({LogsOf("container", 0, 0)})
MatrixRests == MatrixInit({Quiet})
ViewRests == ViewInit({Calm})

liveVars == <<on, logVars, matrixVars, viewVars>>

Init ==
    \/ on = "logs" /\ LogInit(LogScenes) /\ MatrixRests /\ ViewRests
    \/ on = "matrix" /\ MatrixInit(MatrixScenes) /\ LogRests /\ ViewRests
    \/ on = "views" /\ ViewInit(ViewScenes) /\ LogRests /\ MatrixRests

Next ==
    \/ on = "logs" /\ LogNext /\ UNCHANGED <<on, matrixVars, viewVars>>
    \/ on = "matrix" /\ MatrixNext /\ UNCHANGED <<on, logVars, viewVars>>
    \/ on = "views" /\ ViewNext /\ UNCHANGED <<on, logVars, matrixVars>>

(* The fairness of the component that is on; nothing of the others runs. *)
Spec ==
    /\ Init /\ [][Next]_liveVars
    /\ WF_logVars(on = "logs" /\ LogWorks)
    /\ MatrixFair
    /\ WF_viewVars(ViewWorks)

(* Live streams end with those who watch them: a log stream and its child    *)
(* process (LogStreamEnds), the Engine's stats streams (StreamsEnd), the     *)
(* Agent's stream of frames (ViewsEnd); and a matrix that is watched catches *)
(* up with the containers that run (MatrixFollows).                          *)
LiveStreamsEnd == (on = "logs" => LogStreamEnds) /\ StreamsEnd /\ MatrixFollows /\ ViewsEnd
=============================================================================
