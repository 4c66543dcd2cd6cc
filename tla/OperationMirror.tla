-------------------------- MODULE OperationMirror --------------------------
(***************************************************************************)
(* The Server's mirror of the Agents' operations: the operations table and *)
(* the handlers that fill it (dispatchOperation, GetOperation,             *)
(* CancelOperation, and the dashboard's recovery of active operations),    *)
(* against the Agents' own operation records.                              *)
(*                                                                         *)
(* A handler reads the table, calls the Agent, and merges the answer under *)
(* the merge gate: three steps, between which other handlers, the Agent's  *)
(* runner and restarts of either side take theirs.  A browser that goes    *)
(* away does not stop the merge (WithoutCancel).                           *)
(*                                                                         *)
(* A record is abstracted to its revision, its status, whether             *)
(* cancellation was requested, and how much output it has produced.  Every *)
(* operation is a container operation (request "loose", no project) or an  *)
(* operation on the Agent's one managed project (request "managed").       *)
(***************************************************************************)
EXTENDS Integers, FiniteSetsExt

CONSTANTS
    Agents, Ops, Handlers,
    Requests,       \* what operations are requested on: "loose", "managed"
    Budgets         \* the bounds of each scenario: the specs and the handlers
                    \* requests may use, the revisions (rev) and pieces of
                    \* output (out) of one operation, the Agent restarts, the
                    \* Server restarts (resets), the evictions

VARIABLES
    ag,             \* ag[a][o]: the Agent's record of the operation
    past,           \* past[o]: every state of the operation there ever was
    row,            \* row[o]: the Server's row
    owned,          \* the Agents whose managed project the Server knows
    hs,             \* the Server's handlers
    left,           \* the bounds, and what remains of them
    seen            \* which of "restart", "reset", "evict", "recover" there has been

vars == <<ag, past, row, owned, hs, left, seen>>

Final == {"success", "failed", "canceled", "interrupted"}
Status == {"running"} \cup Final

NoRec == [rev |-> 0]
NoRow == [rev |-> 0]

Specs == [agent : Agents, req : Requests]
Kinds == {"dispatch", "get", "cancel", "recover"}

Bounds == [specs : SUBSET Specs, kinds : SUBSET Kinds, rev : Nat \ {0, 1}, out : Nat,
           restarts : Nat, resets : Nat, evictions : Nat]

ASSUME MirrorAssumption ==
    /\ Agents # {} /\ Ops # {} /\ Requests # {}
    /\ Budgets \subseteq Bounds

(***************************************************************************)
(* The Agents                                                              *)
(***************************************************************************)

Has(a, o) == ag[a][o] # NoRec
Active(a, o) == Has(a, o) /\ ag[a][o].st \notin Final

(* The Agent's key for the project an operation locks: a container outside   *)
(* every managed project gets a pseudo key of its own.                       *)
ProjectKey(req) == IF req = "loose" THEN "container" ELSE req

(* What the Agent reports of a record. *)
Response(a, o) ==
    [req |-> ag[a][o].req, rev |-> ag[a][o].rev, st |-> ag[a][o].st,
     canc |-> ag[a][o].canc, out |-> ag[a][o].out]

StateOf(a, r) == [bind |-> [agent |-> a, req |-> r.req], rev |-> r.rev, st |-> r.st]

Put(a, o, r) ==
    /\ ag' = [ag EXCEPT ![a][o] = r]
    /\ past' = [past EXCEPT ![o] = @ \cup {StateOf(a, r)}]

(* Mutant of Advance: a phase is entered after the operation has ended. *)
AdvanceEnded(a, o) ==
    /\ Has(a, o)
    /\ ag[a][o].rev < left.rev - 1
    /\ Put(a, o, [ag[a][o] EXCEPT !.rev = @ + 1, !.st = "running"])
    /\ UNCHANGED <<row, owned, hs, left, seen>>

(* A phase is entered, the project lock is taken, progress is recorded. *)
Advance(a, o) ==
    /\ Active(a, o)
    /\ ag[a][o].rev < left.rev - 1
    /\ Put(a, o, [ag[a][o] EXCEPT !.rev = @ + 1])
    /\ UNCHANGED <<row, owned, hs, left, seen>>

(* Output grows without a new revision. *)
WriteOutput(a, o) ==
    /\ Active(a, o)
    /\ ag[a][o].out < left.out
    /\ Put(a, o, [ag[a][o] EXCEPT !.out = @ + 1])
    /\ UNCHANGED <<row, owned, hs, left, seen>>

(* The runner ends.  Only a success flushes the output tail, and the disk    *)
(* budget may refuse that write.                                             *)
Finish(a, o) ==
    /\ Active(a, o)
    /\ \/ \E d \in {ag[a][o].disk, ag[a][o].out} :
            Put(a, o, [ag[a][o] EXCEPT !.rev = @ + 1, !.st = "success", !.disk = d])
       \/ Put(a, o, [ag[a][o] EXCEPT !.rev = @ + 1,
                                     !.st = IF ag[a][o].canc THEN "canceled" ELSE "failed"])
    /\ UNCHANGED <<row, owned, hs, left, seen>>

(* The Agent process restarts: what was active is interrupted, and of the    *)
(* output only what was flushed is left.                                     *)
Reloaded(r) ==
    IF r = NoRec THEN r
    ELSE IF r.st \in Final THEN [r EXCEPT !.out = r.disk]
    ELSE [r EXCEPT !.rev = @ + 1, !.st = "interrupted", !.out = r.disk]

AgentRestart(a) ==
    /\ left.restarts > 0
    /\ left' = [left EXCEPT !.restarts = @ - 1]
    /\ seen' = seen \cup {"restart"}
    /\ ag' = [ag EXCEPT ![a] = [o \in Ops |-> Reloaded(ag[a][o])]]
    /\ past' = [o \in Ops |-> IF Has(a, o) THEN past[o] \cup {StateOf(a, Reloaded(ag[a][o]))}
                                           ELSE past[o]]
    /\ UNCHANGED <<row, owned, hs>>

(* Retention removes a finished record from the result ring. *)
Evict(a, o) ==
    /\ left.evictions > 0
    /\ Has(a, o) /\ ag[a][o].st \in Final
    /\ left' = [left EXCEPT !.evictions = @ - 1]
    /\ seen' = seen \cup {"evict"}
    /\ ag' = [ag EXCEPT ![a][o] = NoRec]
    /\ UNCHANGED <<past, row, owned, hs>>

(***************************************************************************)
(* The Server's handlers                                                   *)
(***************************************************************************)

(* got: the answer, a function from the operations in it to their records;   *)
(* floor: the newest state of the operation the answer may not go behind;    *)
(* behind: it did.                                                           *)
AnOp == CHOOSE o \in Ops : TRUE
AnySpec == CHOOSE s \in Specs : TRUE
NoAnswer == [o \in {} |-> NoRec]
Idle == [pc |-> "idle", kind |-> "none", o |-> AnOp, spec |-> AnySpec, known |-> FALSE,
         got |-> NoAnswer, floor |-> 0, behind |-> FALSE, reply |-> "none"]

Set(h, s) == hs' = [hs EXCEPT ![h] = s]
Answer(h, s, reply) ==
    Set(h, [Idle EXCEPT !.pc = "done", !.kind = s.kind, !.reply = reply, !.behind = s.behind])

AnyRequest == CHOOSE q \in Requests : TRUE
RowSpec(o) == [agent |-> row[o].agent, req |-> row[o].req]

(* dispatchOperation up to the call: the target is authorised against the    *)
(* Server's projects, the id against the row it may already have.            *)
BeginDispatch(h, o, s) ==
    /\ "dispatch" \in left.kinds /\ s \in left.specs
    /\ hs[h].pc = "idle"
    /\ LET n == [Idle EXCEPT !.kind = "dispatch", !.o = o, !.spec = s, !.pc = "call",
                             !.floor = row[o].rev]
       IN  IF s.req = "managed" /\ s.agent \notin owned
           THEN Answer(h, n, "notFound")
           ELSE IF row[o] # NoRow /\ RowSpec(o) # s
           THEN Answer(h, n, "specConflict")
           ELSE Set(h, n)
    /\ UNCHANGED <<ag, past, row, owned, left, seen>>

(* GetOperation and CancelOperation up to the call: findOperationSpec takes  *)
(* the request from the row, or finds no row.                                *)
BeginControl(h, kind, o, a) ==
    /\ kind \in left.kinds
    /\ hs[h].pc = "idle"
    /\ LET n == [Idle EXCEPT !.kind = kind, !.o = o, !.pc = "call",
                             !.known = row[o] # NoRow, !.floor = row[o].rev,
                             !.spec = IF row[o] # NoRow THEN RowSpec(o)
                                      ELSE [agent |-> a, req |-> AnyRequest]]
       IN  IF row[o] # NoRow /\ row[o].agent # a
           THEN Answer(h, n, "specConflict")
           ELSE Set(h, n)
    /\ UNCHANGED <<ag, past, row, owned, left, seen>>

(* reconcileDashboardAgents for one Agent: its projects first; only then its *)
(* active operations.                                                        *)
BeginRecover(h, a) ==
    /\ "recover" \in left.kinds
    /\ hs[h].pc = "idle"
    /\ Set(h, [Idle EXCEPT !.kind = "recover", !.pc = "call",
                           !.spec = [agent |-> a, req |-> AnyRequest]])
    /\ owned' = owned \cup {a}
    /\ seen' = seen \cup {"recover"}
    /\ UNCHANGED <<ag, past, row, left>>

(* The Agent has no live session, or the answer does not arrive. *)
Unreached(h) ==
    /\ hs[h].pc \in {"call", "fetch"}
    /\ Answer(h, hs[h], "unavailable")
    /\ UNCHANGED <<ag, past, row, owned, left, seen>>

(* Engine.StartOperation: a new record, the existing one when the request is *)
(* the same, a refusal when the id was used for another.  The answer may be  *)
(* lost after the Agent accepted.                                            *)
CallDispatch(h) ==
    LET s == hs[h].spec
        a == s.agent
        o == hs[h].o
        new == [req |-> s.req, rev |-> 1, st |-> "running", canc |-> FALSE,
                out |-> 0, disk |-> 0]
    IN  /\ hs[h].pc = "call" /\ hs[h].kind = "dispatch"
        /\ IF Has(a, o) /\ ag[a][o].req # s.req
           THEN UNCHANGED <<ag, past>> /\ Answer(h, hs[h], "unavailable")
           ELSE LET r == IF Has(a, o) THEN ag[a][o] ELSE new
                IN  /\ Put(a, o, r)
                    /\ \/ Answer(h, hs[h], "unavailable")
                       \/ Set(h, [hs[h] EXCEPT !.pc = "merge", !.floor = Max({@, r.rev}),
                               !.got = [p \in {o} |-> [req |-> r.req, rev |-> r.rev, st |-> r.st,
                                                       canc |-> r.canc, out |-> r.out]]])
        /\ UNCHANGED <<row, owned, left, seen>>

(* Handler.GetOperation, and the second half of Handler.CancelOperation. *)
CallFetch(h) ==
    LET a == hs[h].spec.agent
        o == hs[h].o
    IN  /\ hs[h].pc = IF hs[h].kind = "cancel" THEN "fetch" ELSE "call"
        /\ hs[h].kind \in {"get", "cancel"}
        /\ IF ~Has(a, o)
           THEN Answer(h, hs[h], IF hs[h].kind = "get" THEN "notFound" ELSE "unavailable")
           ELSE IF ~hs[h].known
           THEN Answer(h, hs[h], "noRequest")
           ELSE Set(h, [hs[h] EXCEPT !.pc = "merge", !.got = [p \in {o} |-> Response(a, o)],
                                     !.floor = Max({@, ag[a][o].rev})])
        /\ UNCHANGED <<ag, past, row, owned, left, seen>>

(* Engine.CancelWithError: a first cancellation of an active operation is a  *)
(* new revision.                                                             *)
CallCancel(h) ==
    LET a == hs[h].spec.agent
        o == hs[h].o
    IN  /\ hs[h].pc = "call" /\ hs[h].kind = "cancel"
        /\ IF ~Has(a, o)
           THEN UNCHANGED <<ag, past>> /\ Answer(h, hs[h], "notFound")
           ELSE /\ IF Active(a, o) /\ ~ag[a][o].canc
                   THEN ag[a][o].rev < left.rev - 1 /\ Put(a, o, [ag[a][o] EXCEPT !.canc = TRUE, !.rev = @ + 1])
                   ELSE UNCHANGED <<ag, past>>
                /\ Set(h, [hs[h] EXCEPT !.pc = "fetch"])
        /\ UNCHANGED <<row, owned, left, seen>>

(* Handler.ListActiveOperations: one snapshot of every active record. *)
CallRecover(h) ==
    LET a == hs[h].spec.agent
    IN  /\ hs[h].pc = "call" /\ hs[h].kind = "recover"
        /\ Set(h, [hs[h] EXCEPT !.pc = "merge",
                       !.got = [o \in {p \in Ops : Active(a, p)} |-> Response(a, o)]])
        /\ UNCHANGED <<ag, past, row, owned, left, seen>>

(***************************************************************************)
(* The merges, each under the merge gate                                   *)
(***************************************************************************)

(* The row mergeOperation writes: cancel fields and times are stored, but    *)
(* the time of the request only when the row is first inserted.              *)
Merged(o, s, r) ==
    [agent |-> s.agent, req |-> s.req, rev |-> r.rev, st |-> r.st, canc |-> r.canc,
     out |-> r.out, mode |-> TRUE, requested |-> row[o] = NoRow \/ row[o].requested]

(* The row recovery writes: no cancel fields, and no time of the request     *)
(* when it inserts the row.                                                  *)
RecoveredRow(o, s, r) ==
    [agent |-> s.agent, req |-> s.req, rev |-> r.rev, st |-> r.st, canc |-> r.canc,
     out |-> r.out, mode |-> FALSE, requested |-> row[o] # NoRow /\ row[o].requested]

(* sameAgentOperationState: the Agent reports its cancel mode and the time   *)
(* of the request with every record.                                         *)
SameState(c, r) ==
    /\ c.st = r.st /\ c.rev = r.rev
    /\ c.mode /\ c.canc = r.canc
    /\ c.requested

(* Mutant of Upserted: the next revision is not taken for a newer one. *)
UpsertedLate(o, s, r) ==
    IF row[o] = NoRow \/ (RowSpec(o) = s /\ row[o].rev + 1 < r.rev)
    THEN Merged(o, s, r) ELSE row[o]

(* Mutant of Upserted: a newer record of another request replaces the row. *)
UpsertedAnyRequest(o, s, r) ==
    IF row[o] = NoRow \/ row[o].rev < r.rev THEN Merged(o, s, r) ELSE row[o]

(* Insert, or update the row of the same request at an older revision. *)
Upserted(o, s, r) ==
    IF row[o] = NoRow \/ (RowSpec(o) = s /\ row[o].rev < r.rev)
    THEN Merged(o, s, r) ELSE row[o]

(* What mergeOperation answers once the row c is stored. *)
Verdict(c, s, r) ==
    IF c.agent # s.agent \/ c.req # s.req THEN "specConflict"
    ELSE IF c.rev = r.rev
            /\ (~SameState(c, r) \/ (c.st \in Final /\ c.out # r.out))
         THEN "stateConflict"
         ELSE "ok"

(* mergeAndSyncOperation: a success on the managed project is followed by a  *)
(* refresh of the project, which may fail after the row is stored.           *)
MergeOne(h) ==
    LET o == hs[h].o
        s == hs[h].spec
        r == hs[h].got[o]
        c == Upserted(o, s, r)
        v == Verdict(c, s, r)
    IN  /\ hs[h].pc = "merge" /\ hs[h].kind # "recover"
        /\ row' = [row EXCEPT ![o] = c]
        /\ \/ Answer(h, [hs[h] EXCEPT !.behind = c.rev < hs[h].floor], v)
           \/ /\ v = "ok" /\ c.st = "success" /\ s.req = "managed"
              /\ Answer(h, hs[h], "syncFailed")
        /\ UNCHANGED <<ag, past, owned, left, seen>>

(* The reasons for which one recovered record refuses the whole recovery: a  *)
(* project the Server does not know, another request's row, or the same      *)
(* revision in a record that is not equal field by field to what             *)
(* loadStoredOperationTx reads back, which never has times or cancel fields. *)
Refusal(o, a, r) ==
    IF ~(ProjectKey(r.req) = "managed" /\ a \in owned) THEN "projectConflict"
    ELSE IF row[o] = NoRow \/ (row[o].rev # r.rev /\ RowSpec(o) = [agent |-> a, req |-> r.req])
    THEN "none"
    ELSE IF RowSpec(o) # [agent |-> a, req |-> r.req] THEN "specConflict"
    ELSE LET stored == [st |-> row[o].st, out |-> row[o].out, times |-> FALSE, mode |-> FALSE]
             sent == [st |-> r.st, out |-> r.out, times |-> TRUE, mode |-> TRUE]
         IN  IF stored = sent THEN "none" ELSE "stateConflict"

(* mergeRecoveredOperations: one transaction over every record. *)
MergeRecovered(h) ==
    LET a == hs[h].spec.agent
        got == hs[h].got
        bad == {o \in DOMAIN got : Refusal(o, a, got[o]) # "none"}
    IN  /\ hs[h].pc = "merge" /\ hs[h].kind = "recover"
        /\ IF bad # {}
           THEN /\ \E o \in bad : Answer(h, hs[h], Refusal(o, a, got[o]))
                /\ UNCHANGED row
           ELSE /\ row' = [o \in Ops |->
                             IF o \in DOMAIN got /\ row[o].rev < got[o].rev
                             THEN RecoveredRow(o, [agent |-> a, req |-> got[o].req], got[o])
                             ELSE row[o]]
                /\ Answer(h, hs[h], "ok")
        /\ UNCHANGED <<ag, past, owned, left, seen>>

(* The browser takes the answer. *)
Take(h) ==
    /\ hs[h].pc = "done"
    /\ Set(h, Idle)
    /\ UNCHANGED <<ag, past, row, owned, left, seen>>

(* The Server restarts, on its database or on an empty one. *)
ServerRestart(empty) ==
    /\ left.resets > 0
    /\ left' = [left EXCEPT !.resets = @ - 1]
    /\ seen' = seen \cup {"reset"}
    /\ hs' = [h \in Handlers |-> Idle]
    /\ row' = IF empty THEN [o \in Ops |-> NoRow] ELSE row
    /\ owned' = IF empty THEN {} ELSE owned
    /\ UNCHANGED <<ag, past>>

-----------------------------------------------------------------------------

Init ==
    /\ ag = [a \in Agents |-> [o \in Ops |-> NoRec]]
    /\ past = [o \in Ops |-> {}]
    /\ row = [o \in Ops |-> NoRow]
    /\ owned = Agents
    /\ hs = [h \in Handlers |-> Idle]
    /\ left \in Budgets
    /\ seen = {}

Involved == {s.agent : s \in left.specs}

Begin(h) ==
    \/ \E o \in Ops, s \in Specs : BeginDispatch(h, o, s)
    \/ \E o \in Ops, a \in Involved, kind \in {"get", "cancel"} : BeginControl(h, kind, o, a)
    \/ \E a \in Involved : BeginRecover(h, a)

Continue(h) ==
    CallDispatch(h) \/ CallFetch(h) \/ CallCancel(h) \/ CallRecover(h)
        \/ MergeOne(h) \/ MergeRecovered(h) \/ Take(h)

AgentStep(a) ==
    \/ \E o \in Ops : Advance(a, o) \/ WriteOutput(a, o) \/ Finish(a, o) \/ Evict(a, o)
    \/ AgentRestart(a)

Next ==
    \/ \E h \in Handlers : Begin(h) \/ Continue(h) \/ Unreached(h)
    \/ \E a \in Involved : AgentStep(a)
    \/ \E empty \in BOOLEAN : ServerRestart(empty)

Spec == Init /\ [][Next]_vars

-----------------------------------------------------------------------------

(* Every variable has its type. *)
Records == [req : Requests, rev : 1 .. left.rev, st : Status, canc : BOOLEAN,
            out : 0 .. left.out, disk : 0 .. left.out]
Answers == [req : Requests, rev : 1 .. left.rev, st : Status, canc : BOOLEAN, out : 0 .. left.out]
Rows == [agent : Agents, req : Requests, rev : 1 .. left.rev, st : Status, canc : BOOLEAN,
         out : 0 .. left.out, mode : BOOLEAN, requested : BOOLEAN]
Replies == {"none", "ok", "notFound", "unavailable", "noRequest", "specConflict", "stateConflict",
            "projectConflict", "syncFailed"}
Calls == [pc : {"idle", "call", "fetch", "merge", "done"}, kind : Kinds \cup {"none"}, o : Ops, spec : Specs,
          known : BOOLEAN, got : UNION {[D -> Answers] : D \in SUBSET Ops}, floor : 0 .. left.rev,
          behind : BOOLEAN, reply : Replies]
TypeOK ==
    /\ ag \in [Agents -> [Ops -> Records \cup {NoRec}]]
    /\ past \in [Ops -> SUBSET [bind : Specs, rev : 1 .. left.rev, st : Status]]
    /\ row \in [Ops -> Rows \cup {NoRow}]
    /\ owned \subseteq Agents
    /\ hs \in [Handlers -> Calls]
    /\ left \in Bounds
    /\ seen \subseteq {"restart", "reset", "evict", "recover"}

(* An answer given to a browser is never behind what the Server had stored   *)
(* when the request arrived, nor behind the state the Agent was in when it   *)
(* was asked, however the answers of concurrent handlers are merged          *)
(* (mergeOperation answers with the row it reads back under the gate).       *)
AnswerIsFresh ==
    \A h \in Handlers : hs[h].reply = "ok" => ~hs[h].behind

(* The Server's row of an operation that has ended is never changed again:   *)
(* the mirror is kept from "allowing terminal records to change in place"    *)
(* (mergeOperation).  Only setting the Server up on an empty database        *)
(* removes it, and only an id dispatched again after the Agent evicted its   *)
(* result may reopen it.                                                     *)
TerminalStays ==
    [][\A o \in Ops : row[o] # NoRow /\ row[o].st \in Final /\ "evict" \notin seen
            => row'[o] \in {row[o], NoRow}]_vars

(* The register that the mirror of an operation implements (the operations   *)
(* are interchangeable).                                                     *)
Mirror == INSTANCE MirrorRegister WITH
    States <- Status, NoCopy <- NoRow,
    past <- past[AnOp],
    copy <- IF row[AnOp] = NoRow THEN NoRow
            ELSE [bind |-> RowSpec(AnOp), rev |-> row[AnOp].rev, st |-> row[AnOp].st]

(* The mirror of an operation is the register of MirrorRegister: bound to    *)
(* one Agent and request, in a state that Agent had the id in, replaced only *)
(* by newer ones (mergeOperation, mergeRecoveredOperations).                 *)
MirrorsAgent == Mirror!RegSpec

(* A lookup or a cancellation is not refused as of an operation its Agent    *)
(* changed without a new revision, as long as neither side restarted, no     *)
(* result was evicted and no row was recovered from the Agent's list: the    *)
(* Agent never does that, however its output grows and however concurrent    *)
(* answers are merged (GetOperation, CancelOperation and mergeOperation).    *)
LookupAccepted ==
    seen = {} => \A h \in Handlers : hs[h].kind # "recover" => hs[h].reply # "stateConflict"

(* What a browser is told is never old and never wrongly refused            *)
(* (AnswerIsFresh, LookupAccepted).                                          *)
AnswersHold == TypeOK /\ AnswerIsFresh /\ LookupAccepted
=============================================================================
