------------------------------ MODULE LogRelay ------------------------------
(***************************************************************************)
(* One live log stream, from what writes the logs to the viewer's RPC.     *)
(* A container's logs are read from the Docker Engine (dockeradapter/      *)
(* streams.go).  A project's logs are the output of a `docker compose      *)
(* logs` child process (composeexec/runner.go), which must never block:    *)
(* what its bounded channel cannot take is dropped and counted, and        *)
(* agentproduct/compose_logs.go relays data and counts.  Both are put into *)
(* the bounded queue of logrelay/logrelay.go, which drops the oldest data, *)
(* and are taken from it by the handler of the RPC (live_bridge.go).       *)
(*                                                                         *)
(* A chunk is its numbers of bytes and of lines.  The clock of the rate    *)
(* limiter is not modelled: any number of tokens may have come since it    *)
(* was last asked.                                                         *)
(***************************************************************************)
EXTENDS Naturals, Sequences, SequencesExt

CONSTANTS
    LogChunks,          \* what may be written at once: [bytes, lines]
    MaxBufferedBytes, MaxBufferedChunks, BytesPerSecond,
    ComposeLogRelayChunks, \* room in the channel of the child's output
    TailBytes,          \* capacity of the tail of the child's output
    LogScenes           \* target ("container" or "project"), and budgets:
                        \* chunks written (writes), viewers that leave (leaves)

VARIABLES
    logs,       \* what the scenario still allows
    child,      \* composeexec.Run: where it is, its result, its drop counts
    output,     \* the channel of the child's output
    source,     \* the Source's goroutine (Stream.run)
    stream,     \* logrelay.Stream
    wake,       \* the stream's wake channel, of capacity one, is full
    reader,     \* LogRelayHandler.StreamLogs and the event it is sending
    viewerGone, \* the context of the RPC is done
    count       \* history: bytes and lines written, delivered and told lost

logVars == <<logs, child, output, source, stream, wake, reader, viewerGone, count>>

NoEvent == [bytes |-> 0, lines |-> 0, lostBytes |-> 0, lostLines |-> 0, terminal |-> FALSE]

Data(c) == [bytes |-> c.bytes, lines |-> c.lines, lostBytes |-> 0]
Marker(n) == [bytes |-> 0, lines |-> 0, lostBytes |-> n]

(* The stream's context: a child of the RPC's, cancelled by Close. *)
Canceled == viewerGone \/ reader.at = "closed"

QueuedBytes(q) == FoldLeft(LAMBDA n, c : n + c.bytes, 0, q)
QueuedLines(q) == FoldLeft(LAMBDA n, c : n + c.lines, 0, q)
MarkedBytes(q) == FoldLeft(LAMBDA n, c : n + c.lostBytes, 0, q)

(***************************************************************************)
(* composeexec: the child process and its output                           *)
(***************************************************************************)

(* TailWriter.Write: a ring of the newest bytes, which are numbered as they *)
(* are written.                                                             *)
TailWrite(t, n) ==
    LET over == IF t.size + n > TailBytes THEN t.size + n - TailBytes ELSE 0
        start == (t.start + over) % TailBytes
        end == (start + t.size - over) % TailBytes
        new(i) == {k \in 1 .. n : (end + k - 1) % TailBytes = i}
    IN  IF n >= TailBytes
        THEN [buffer |-> [i \in 0 .. TailBytes - 1 |-> t.total + n - TailBytes + i + 1], start |-> 0,
              size |-> TailBytes, total |-> t.total + n, truncated |-> t.total + n > TailBytes]
        ELSE [buffer |-> [i \in 0 .. TailBytes - 1 |-> IF new(i) = {} THEN t.buffer[i] ELSE t.total + CHOOSE k \in new(i) : TRUE],
              start |-> start, size |-> t.size - over + n, total |-> t.total + n, truncated |-> t.truncated \/ over > 0]

(* TailWriter.Bytes. *)
TailOf(t) == [k \in 1 .. t.size |-> t.buffer[(t.start + k - 1) % TailBytes]]

Full == Len(output) >= ComposeLogRelayChunks

(* The output goes to the tail and to nonBlockingRelay.send: a count of      *)
(* what was dropped goes before the data, and what finds no room is counted. *)
Send(c) ==
    LET marked == IF child.pending > 0 /\ ~Full THEN Append(output, Marker(child.pending)) ELSE output
        room == Len(marked) < ComposeLogRelayChunks
        pending == IF marked = output THEN child.pending ELSE 0
    IN  /\ output' = IF room THEN Append(marked, Data(c)) ELSE marked
        /\ child' = [child EXCEPT !.pending = pending + IF room THEN 0 ELSE c.bytes,
                                  !.total = @ + IF room THEN 0 ELSE c.bytes,
                                  !.tail = TailWrite(@, c.bytes)]

Written(c) == [count EXCEPT !.written = @ + c.bytes, !.writtenLines = @ + c.lines]

ChildWrites ==
    /\ child.at \in {"run", "grace", "killed"}
    /\ logs.writes > 0
    /\ logs' = [logs EXCEPT !.writes = @ - 1]
    /\ \E c \in LogChunks : Send(c) /\ count' = Written(c)
    /\ UNCHANGED <<source, stream, wake, reader, viewerGone>>

ChildSame == UNCHANGED <<logs, source, stream, wake, reader, viewerGone, count>>

(* The process ends and its output is read to the end. *)
ChildExits ==
    /\ child.at \in {"run", "grace", "killed"}
    /\ \E code \in {"ok", "error"} : child' = [child EXCEPT !.at = "exited", !.code = code]
    /\ UNCHANGED output
    /\ ChildSame

(* The context is done and the process has not ended by itself: SIGTERM.   *)
TerminateChild ==
    /\ child.at = "run" /\ Canceled
    /\ child' = [child EXCEPT !.at = "grace", !.canceled = TRUE]
    /\ UNCHANGED output
    /\ ChildSame

(* The grace period is over: SIGKILL. *)
KillChild ==
    /\ child.at = "grace"
    /\ child' = [child EXCEPT !.at = "killed"]
    /\ UNCHANGED output
    /\ ChildSame

(* finalizeResult, and the channel is closed. *)
FinishRun ==
    /\ child.at = "exited"
    /\ IF child.pending > 0 /\ ~Full
       THEN output' = Append(output, Marker(child.pending)) /\ child' = [child EXCEPT !.at = "closed", !.pending = 0]
       ELSE UNCHANGED output /\ child' = [child EXCEPT !.at = "closed"]
    /\ ChildSame

(***************************************************************************)
(* logrelay: what the source emits is queued                               *)
(***************************************************************************)

(* The context has not ended, and any number of tokens may have come. *)
Tokens == stream.tokens .. BytesPerSecond

Lost(s, b, l) == [s EXCEPT !.lostBytes = @ + b, !.lostLines = @ + l]

(* The chunks that remain in the queue when the oldest make room for c. *)
Remaining(q, c) ==
    LET fits(k) == LET r == SubSeq(q, k + 1, Len(q)) IN
                   r = <<>> \/ (QueuedBytes(r) + c.bytes <= MaxBufferedBytes /\ Len(r) < MaxBufferedChunks)
        k == CHOOSE n \in 0 .. Len(q) : fits(n) /\ \A m \in 0 .. n - 1 : ~fits(m)
    IN  SubSeq(q, k + 1, Len(q))

(* Mutant of Queued: the dropped chunks are not counted. *)
QueuedSilently(s, c) == [s EXCEPT !.queue = Append(Remaining(s.queue, c), c)]

Queued(s, c) ==
    LET r == Remaining(s.queue, c) IN
    [Lost(s, QueuedBytes(s.queue) - QueuedBytes(r), QueuedLines(s.queue) - QueuedLines(r))
        EXCEPT !.queue = Append(r, c)]

(* Stream.enqueue: reported losses are added; data that the limiter or the *)
(* buffer can never take is lost, other data is queued.                    *)
Enqueue(c) ==
    /\ wake' = TRUE
    /\ \E t \in Tokens :
        LET s == [Lost(stream, c.lostBytes, 0) EXCEPT !.tokens = t] IN
        stream' = IF c.bytes = 0 THEN Lost(stream, c.lostBytes, 0)
                  ELSE IF c.bytes > t THEN Lost(s, c.bytes, c.lines)
                  ELSE LET p == [s EXCEPT !.tokens = t - c.bytes] IN
                       IF c.bytes > MaxBufferedBytes THEN Lost(p, c.bytes, c.lines)
                       ELSE Queued(p, [bytes |-> c.bytes, lines |-> c.lines])

(* The source returns: with the error of an emit that finds the context    *)
(* done, the result is cut short.                                          *)
Return(err, cut) ==
    /\ source' = [source EXCEPT !.at = "ended", !.err = err, !.cut = cut]
    /\ UNCHANGED <<stream, wake>>

Emit(c, next) ==
    IF Canceled THEN Return("canceled", TRUE)
    ELSE Enqueue(c) /\ source' = next

(* The request names no container or project that can be read, or the      *)
(* child cannot be started; otherwise reading begins.                      *)
StartSource ==
    /\ source.at = "start"
    /\ \/ Return("error", FALSE) /\ UNCHANGED child
       \/ /\ source' = [source EXCEPT !.at = "reading"]
          /\ child' = IF logs.target = "project" THEN [child EXCEPT !.at = "run"] ELSE child
          /\ UNCHANGED <<stream, wake>>
    /\ UNCHANGED <<logs, output, reader, viewerGone, count>>

(* A container's log is read and emitted. *)
ContainerWrites ==
    /\ source.at = "reading" /\ logs.target = "container"
    /\ logs.writes > 0
    /\ logs' = [logs EXCEPT !.writes = @ - 1]
    /\ \E c \in LogChunks : Emit(Data(c), source) /\ count' = Written(c)
    /\ UNCHANGED <<child, output, reader, viewerGone>>

(* The Engine ends a container's log, or fails; a done context ends it. *)
ContainerEnds ==
    /\ source.at = "reading" /\ logs.target = "container"
    /\ \E err \in IF Canceled THEN {"canceled"} ELSE {"none", "error"} : Return(err, FALSE)
    /\ UNCHANGED <<logs, child, output, reader, viewerGone, count>>

(* composeLogSource.Stream takes a chunk from the channel and emits it. *)
RelayOutput ==
    /\ source.at = "reading" /\ output # <<>>
    /\ output' = Tail(output)
    /\ Emit(Head(output), [source EXCEPT !.relayed = @ + Head(output).lostBytes])
    /\ UNCHANGED <<logs, child, reader, viewerGone, count>>

RunResult ==
    IF child.canceled THEN "canceled" ELSE IF child.code = "ok" THEN "none" ELSE "error"

(* The channel is closed: the drops no marker has told are emitted, and    *)
(* the result of the run is returned.                                      *)
RelayRest ==
    /\ source.at = "reading" /\ child.at = "closed" /\ output = <<>>
    /\ LET rest == child.total - source.relayed IN
       IF rest > 0
       THEN Emit(Marker(rest), [source EXCEPT !.at = "ended", !.err = RunResult, !.relayed = child.total])
       ELSE Return(RunResult, FALSE)
    /\ UNCHANGED <<logs, child, output, reader, viewerGone, count>>

(* Stream.run: the end of the source is recorded under the lock ... *)
SourceDone ==
    /\ source.at = "ended"
    /\ stream' = [stream EXCEPT !.done = TRUE,
                                !.err = IF source.err = "error" THEN "error"
                                        ELSE IF Canceled THEN "canceled" ELSE "none"]
    /\ source' = [source EXCEPT !.at = "signal"]
    /\ UNCHANGED <<logs, child, output, wake, reader, viewerGone, count>>

(* ... and the reader is woken. *)
SourceSignals ==
    /\ source.at = "signal"
    /\ source' = [source EXCEPT !.at = "over"]
    /\ wake' = TRUE
    /\ UNCHANGED <<logs, child, output, stream, reader, viewerGone, count>>

(***************************************************************************)
(* The handler of the RPC                                                  *)
(***************************************************************************)

ReaderSame == UNCHANGED <<logs, child, output, source, viewerGone>>

Holding(e) ==
    /\ reader' = [at |-> "send", event |-> [e EXCEPT !.lostBytes = stream.lostBytes, !.lostLines = stream.lostLines]]
    /\ UNCHANGED wake

(* Stream.Next: the oldest chunk with the losses so far, then the terminal *)
(* event, then the end; otherwise it waits.                                *)
NextEvent ==
    /\ reader.at = "next"
    /\ IF stream.queue # <<>>
       THEN LET c == Head(stream.queue) IN
            /\ Holding([NoEvent EXCEPT !.bytes = c.bytes, !.lines = c.lines])
            /\ stream' = [stream EXCEPT !.queue = Tail(@), !.lostBytes = 0, !.lostLines = 0]
       ELSE IF stream.done /\ ~stream.told
       THEN /\ Holding([NoEvent EXCEPT !.terminal = TRUE])
            /\ stream' = [stream EXCEPT !.told = TRUE, !.lostBytes = 0, !.lostLines = 0]
       ELSE /\ reader' = [reader EXCEPT !.at = IF stream.done THEN "closed" ELSE "wait"]
            /\ UNCHANGED <<stream, wake>>
    /\ ReaderSame /\ UNCHANGED count

Woken ==
    /\ reader.at = "wait" /\ wake
    /\ wake' = FALSE
    /\ reader' = [reader EXCEPT !.at = "next"]
    /\ ReaderSame /\ UNCHANGED <<stream, count>>

(* The event is sent. *)
SendEvent ==
    /\ reader.at = "send"
    /\ LET e == reader.event IN
       count' = [count EXCEPT !.delivered = @ + e.bytes, !.deliveredLines = @ + e.lines,
                              !.told = @ + e.lostBytes, !.toldLines = @ + e.lostLines]
    /\ reader' = [at |-> "next", event |-> NoEvent]
    /\ ReaderSame /\ UNCHANGED <<stream, wake>>

(* Waiting or sending fails once the viewer has gone: the stream is closed.*)
ReaderFails ==
    /\ reader.at \in {"wait", "send"} /\ viewerGone
    /\ reader' = [reader EXCEPT !.at = "closed"]
    /\ ReaderSame /\ UNCHANGED <<stream, wake, count>>

ViewerLeaves ==
    /\ ~viewerGone /\ logs.leaves > 0
    /\ viewerGone' = TRUE
    /\ UNCHANGED <<logs, child, output, source, stream, wake, reader, count>>

-----------------------------------------------------------------------------

LogInit(scenes) ==
    /\ logs \in scenes
    /\ child = [at |-> "off", code |-> "ok", canceled |-> FALSE, pending |-> 0, total |-> 0,
                tail |-> [buffer |-> [i \in 0 .. TailBytes - 1 |-> 0], start |-> 0, size |-> 0, total |-> 0, truncated |-> FALSE]]
    /\ output = <<>>
    /\ source = [at |-> "start", err |-> "none", cut |-> FALSE, relayed |-> 0]
    /\ stream = [queue |-> <<>>, lostBytes |-> 0, lostLines |-> 0, done |-> FALSE, err |-> "none",
                 told |-> FALSE, tokens |-> BytesPerSecond]
    /\ wake = FALSE
    /\ reader = [at |-> "next", event |-> NoEvent]
    /\ viewerGone = FALSE
    /\ count = [written |-> 0, writtenLines |-> 0, delivered |-> 0, deliveredLines |-> 0, told |-> 0, toldLines |-> 0]

(* What the goroutines, and a process that was killed, do by themselves. *)
LogWorks ==
    \/ TerminateChild \/ KillChild \/ FinishRun
    \/ child.at = "killed" /\ ChildExits
    \/ Canceled /\ ContainerEnds
    \/ StartSource \/ RelayOutput \/ RelayRest \/ SourceDone \/ SourceSignals
    \/ NextEvent \/ Woken \/ SendEvent \/ ReaderFails

LogNext == LogWorks \/ ChildWrites \/ ChildExits \/ ContainerWrites \/ ContainerEnds \/ ViewerLeaves

LogSpec == LogInit(LogScenes) /\ [][LogNext]_logVars

-----------------------------------------------------------------------------
Hand == reader.event

(* Every byte that was read is delivered, reported lost, or still on its    *)
(* way (the markers of composeexec and the losses of the relay add up), a  *)
(* container's lines too, unless the source was cut off by the viewer.     *)
LossesAddUp ==
    LET behind == count.delivered + count.told + Hand.bytes + Hand.lostBytes
                    + QueuedBytes(stream.queue) + stream.lostBytes
        behindLines == count.deliveredLines + count.toldLines + Hand.lines + Hand.lostLines
                    + QueuedLines(stream.queue) + stream.lostLines
        ahead == IF source.at \in {"start", "reading"} THEN QueuedBytes(output) + MarkedBytes(output) + child.pending ELSE 0
    IN  /\ behind <= count.written /\ behindLines <= count.writtenLines
        /\ ~source.cut /\ reader.at # "closed" => behind + ahead = count.written
        /\ ~source.cut /\ reader.at # "closed" /\ logs.target = "container" => behindLines = count.writtenLines

(* A viewer who has had the terminal event knows of every byte.             *)
TerminalTellsAll ==
    stream.told /\ Hand = NoEvent /\ ~source.cut => count.delivered + count.told = count.written

(* A reader that waits has nothing to read, or is about to be woken: the   *)
(* wake channel is filled after every change it waits for (signal).        *)
WokenForEverything ==
    reader.at = "wait" /\ ~wake => stream.queue = <<>> /\ (stream.done => source.at = "signal")

(* The buffers keep their limits. *)
LogBuffersBounded ==
    /\ QueuedBytes(stream.queue) <= MaxBufferedBytes /\ Len(stream.queue) <= MaxBufferedChunks
    /\ Len(output) <= ComposeLogRelayChunks

(* The tail of the child's output is its newest bytes in order, and says    *)
(* whether there were more.                                                 *)
TailIsNewest ==
    LET t == child.tail
        n == IF t.total > TailBytes THEN TailBytes ELSE t.total
    IN  TailOf(t) = [k \in 1 .. n |-> t.total - n + k] /\ (t.truncated <=> t.total > TailBytes)

(* Live logs are bounded and honest: what a viewer is not shown it is told *)
(* of (LossesAddUp, TerminalTellsAll), nothing it could be shown waits     *)
(* unnoticed (WokenForEverything), and the buffers keep their limits.      *)
LogsAreHonest == LossesAddUp /\ TerminalTellsAll /\ WokenForEverything /\ LogBuffersBounded /\ TailIsNewest

(* A viewer who leaves ends the stream, its source and the child process;  *)
(* and a source that ends is followed by the end of the stream.            *)
LogStreamEnds ==
    (viewerGone \/ source.at = "over") ~> (source.at = "over" /\ reader.at = "closed" /\ child.at \in {"off", "closed"})
=============================================================================
