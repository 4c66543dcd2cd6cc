----------------------- MODULE OperationMirrorProofs -----------------------
(***************************************************************************)
(* Proofs about the Server's mirror of the Agents' operations: what a      *)
(* browser is told (AnswersHold), that a finished row stays                *)
(* (TerminalStays), and that the mirror implements MirrorRegister.         *)
(***************************************************************************)
EXTENDS OperationMirror, TLAPS

(* Most leaves are first-order; the ones that need arithmetic or updates    *)
(* of functions and records cite SMT.                                       *)
USE Zenon

(* A record is a state there has been, with room for the revision that ends *)
(* it.                                                                      *)
RecordSound(a, o) ==
    Has(a, o) => /\ StateOf(a, ag[a][o]) \in past[o]
                 /\ ag[a][o].st \notin Final => ag[a][o].rev < left.rev

(* A handler at work has answered nothing; what it may not go behind is in  *)
(* the row or in its answer; its answer is a state there has been; and the  *)
(* row a lookup found is still there.                                       *)
HandlerSound(h) ==
    /\ hs[h].pc \in {"call", "fetch", "merge"} => hs[h].reply = "none" /\ ~hs[h].behind /\ hs[h].kind # "none"
    /\ hs[h].pc \in {"call", "fetch"} => hs[h].floor <= row[hs[h].o].rev
    /\ hs[h].known => row[hs[h].o] # NoRow /\ RowSpec(hs[h].o) = hs[h].spec
    /\ hs[h].pc = "merge" =>
          /\ \A p \in DOMAIN hs[h].got : StateOf(hs[h].spec.agent, hs[h].got[p]) \in past[p]
          /\ hs[h].kind # "recover" =>
                /\ DOMAIN hs[h].got = {hs[h].o}
                /\ hs[h].floor <= row[hs[h].o].rev \/ hs[h].floor <= hs[h].got[hs[h].o].rev
                /\ hs[h].known \/ hs[h].got[hs[h].o].req = hs[h].spec.req
    /\ hs[h].reply = "ok" => ~hs[h].behind

(* What the Server knows of an Agent's operation: its row, and the answers  *)
(* being merged.                                                            *)
View(x) == [rev |-> x.rev, st |-> x.st, canc |-> x.canc, out |-> x.out]
Holders(a, o) == {h \in Handlers : hs[h].pc = "merge" /\ hs[h].spec.agent = a /\ o \in DOMAIN hs[h].got}
Snaps(a, o) == {View(hs[h].got[o]) : h \in Holders(a, o)}
                  \cup {View(row[p]) : p \in {q \in {o} : row[q] # NoRow /\ row[q].agent = a}}

Behind(a, o, x) ==
    /\ Has(a, o) /\ x.rev <= ag[a][o].rev
    /\ x.st \in Final => ag[a][o].rev = x.rev /\ ag[a][o].st \in Final
Same(x, y) ==
    x.rev = y.rev => x.st = y.st /\ x.canc = y.canc /\ (x.st \in Final => x.out = y.out)

(* Until a result is evicted the Server knows nothing the Agent has not; as *)
(* long as nothing out of the ordinary happens, all that is known of a      *)
(* revision agrees.                                                         *)
NotAhead == "evict" \notin seen => \A a \in Agents, o \in Ops : \A x \in Snaps(a, o) : Behind(a, o, x)
Agreed == seen = {} => \A a \in Agents, o \in Ops : \A x \in Snaps(a, o) :
                          Same(x, ag[a][o]) /\ \A y \in Snaps(a, o) : Same(x, y)
RowsComplete == seen = {} => \A o \in Ops : row[o] # NoRow => row[o].mode /\ row[o].requested

(* Only a recovery recovers.                                                *)
RecoverySeen == \A h \in Handlers : hs[h].kind = "recover" => "recover" \in seen

MirrorInv ==
    /\ TypeOK
    /\ \A a \in Agents, o \in Ops : RecordSound(a, o)
    /\ \A h \in Handlers : HandlerSound(h)
    /\ NotAhead /\ Agreed /\ RowsComplete /\ RecoverySeen /\ LookupAccepted

-----------------------------------------------------------------------------
(* What a step does, part by part.                                          *)

BoundsKept == left' \in Bounds /\ left'.rev = left.rev /\ left'.out = left.out

(* The Agents' records move forward, and what is recorded of them grows.    *)
PastGrows == \A o \in Ops : past[o] \subseteq past'[o]
RecordMove(a, o) ==
    "evict" \notin seen' /\ Has(a, o) =>
        /\ Has(a, o)'
        /\ ag[a][o].rev <= ag'[a][o].rev
        /\ ag[a][o].st \in Final => ag'[a][o].rev = ag[a][o].rev
        /\ ag[a][o].rev = ag'[a][o].rev => ag'[a][o].st = ag[a][o].st /\ ag'[a][o].canc = ag[a][o].canc
        /\ seen' = {} /\ ag[a][o].st \in Final => ag'[a][o].out = ag[a][o].out
AgentPart ==
    /\ ag' \in [Agents -> [Ops -> Records' \cup {NoRec}]]
    /\ past' \in [Ops -> SUBSET [bind : Specs, rev : 1 .. left'.rev, st : Status]]
    /\ PastGrows
    /\ \A a \in Agents, o \in Ops : RecordSound(a, o)' /\ RecordMove(a, o)

(* A row comes from an answer being merged: the first one, or a newer one   *)
(* of its Agent.                                                            *)
LearnsFrom(o, h) ==
    /\ hs[h].pc = "merge" /\ o \in DOMAIN hs[h].got
    /\ row'[o] # NoRow /\ row'[o].agent = hs[h].spec.agent /\ View(row'[o]) = View(hs[h].got[o])
    /\ row[o] = NoRow => row'[o].req = hs[h].got[o].req
    /\ row[o] # NoRow => row'[o].agent = row[o].agent /\ row'[o].req = row[o].req /\ row[o].rev < hs[h].got[o].rev
RowFrom(o) == row'[o] = row[o] \/ row'[o] = NoRow \/ \E h \in Handlers : LearnsFrom(o, h)
RowForward ==
    \A o \in Ops : /\ row[o].rev <= row'[o].rev
                   /\ row[o] # NoRow => row'[o] # NoRow /\ RowSpec(o)' = RowSpec(o)
RowPart ==
    /\ row' \in [Ops -> Rows' \cup {NoRow}]
    /\ owned' \subseteq Agents
    /\ \A o \in Ops : RowFrom(o)
    /\ RowsComplete'

(* An answer is what the Agent has when it answers.                         *)
AnswerIsCurrent(h) ==
    hs[h].pc = "merge" => \A o \in DOMAIN hs[h].got :
        Has(hs[h].spec.agent, o) /\ View(hs[h].got[o]) = View(ag[hs[h].spec.agent][o])
NotRefused(h) ==
    /\ seen' = {} /\ hs'[h].kind # "recover" => hs'[h].reply # "stateConflict"
    /\ hs'[h].kind = "recover" => "recover" \in seen'
HandlerPart ==
    /\ hs' \in [Handlers -> Calls']
    /\ \A h \in Handlers : HandlerSound(h)' /\ (hs'[h] = hs[h] \/ AnswerIsCurrent(h)') /\ NotRefused(h)

SeenPart == seen \subseteq seen' /\ seen' \subseteq {"restart", "reset", "evict", "recover"}

-----------------------------------------------------------------------------

(* The bounds fix the sets of records, answers, rows and calls.             *)
LEMMA SameTypes ==
    ASSUME BoundsKept
    PROVE  Records' = Records /\ Answers' = Answers /\ Rows' = Rows /\ Calls' = Calls
<1>1. Records' = Records /\ Answers' = Answers /\ Rows' = Rows
    BY DEF BoundsKept, Records, Answers, Rows
<1> QED
    BY <1>1 DEF BoundsKept, Calls

(* The bounds are numbers.                                                  *)
LEMMA BoundFacts ==
    ASSUME TypeOK
    PROVE  left.rev \in Nat /\ left.rev \in Nat \ {0, 1} /\ left.out \in Nat
BY DEF TypeOK, Bounds

(* A row is either missing, at revision 0, or a row of a positive revision. *)
LEMMA RowFacts ==
    ASSUME TypeOK, NEW o \in Ops
    PROVE  /\ row[o].rev \in Nat
           /\ row[o] = NoRow => row[o].rev = 0
           /\ row[o] # NoRow => row[o] \in Rows /\ row[o].rev \in 1 .. left.rev
<1>1. row[o] \in Rows \cup {NoRow} /\ left.rev \in Nat
    BY BoundFacts DEF TypeOK
<1>2. CASE row[o] = NoRow
    BY <1>2, SMT DEF NoRow
<1>3. CASE row[o] # NoRow
  <2>1. row[o] \in Rows /\ row[o].rev \in 1 .. left.rev
    BY <1>1, <1>3 DEF Rows
  <2> QED
    BY <2>1, <1>1, <1>3, SMT
<1> QED
    BY <1>2, <1>3

(* The same of an Agent's record.                                           *)
LEMMA RecordFacts ==
    ASSUME TypeOK, NEW a \in Agents, NEW o \in Ops
    PROVE  /\ ag[a][o].rev \in Nat
           /\ ~Has(a, o) => ag[a][o] = NoRec
           /\ Has(a, o) => ag[a][o] \in Records /\ ag[a][o].rev \in 1 .. left.rev
<1>1. ag[a][o] \in Records \cup {NoRec} /\ left.rev \in Nat
    BY BoundFacts, ZenonT(40) DEF TypeOK
<1>2. CASE ag[a][o] = NoRec
    BY <1>2, SMT DEF NoRec, Has
<1>3. CASE ag[a][o] # NoRec
  <2>1. ag[a][o] \in Records /\ ag[a][o].rev \in 1 .. left.rev
    BY <1>1, <1>3 DEF Records
  <2> QED
    BY <2>1, <1>1, <1>3, SMT DEF Has
<1> QED
    BY <1>2, <1>3

(* And of the record after a step.                                          *)
LEMMA NextRecordFacts ==
    ASSUME TypeOK', NEW a \in Agents, NEW o \in Ops
    PROVE  ag'[a][o].rev \in Nat
<1>1. left' \in Bounds /\ ag'[a][o] \in Records' \cup {NoRec}
    BY DEF TypeOK
<1>2. left'.rev \in Nat
    BY <1>1 DEF Bounds
<1> QED
    BY <1>1, <1>2, SMT DEF Records, NoRec

(* What a handler in its place has.                                         *)
LEMMA CallFacts ==
    ASSUME TypeOK, NEW h \in Handlers
    PROVE  /\ hs[h] \in Calls /\ hs[h].o \in Ops /\ hs[h].spec \in Specs /\ hs[h].spec.agent \in Agents
           /\ hs[h].spec.req \in Requests /\ hs[h].kind \in Kinds \cup {"none"} /\ hs[h].behind \in BOOLEAN
           /\ hs[h].floor \in Nat /\ hs[h].known \in BOOLEAN
           /\ DOMAIN hs[h].got \subseteq Ops
           /\ \A p \in DOMAIN hs[h].got : hs[h].got[p] \in Answers /\ hs[h].got[p].rev \in Nat
<1>1. hs[h] \in Calls /\ left.rev \in Nat
    BY BoundFacts DEF TypeOK
<1>2. hs[h].o \in Ops /\ hs[h].spec \in Specs /\ hs[h].kind \in Kinds \cup {"none"} /\ hs[h].behind \in BOOLEAN
      /\ hs[h].floor \in 0 .. left.rev /\ hs[h].known \in BOOLEAN
      /\ hs[h].got \in UNION {[D -> Answers] : D \in SUBSET Ops}
    BY <1>1 DEF Calls
<1>3. hs[h].floor \in Nat
    BY <1>1, <1>2, SMT
<1>4. hs[h].spec.agent \in Agents /\ hs[h].spec.req \in Requests
    BY <1>2 DEF Specs
<1>5. PICK D \in SUBSET Ops : hs[h].got \in [D -> Answers]
    BY <1>2
<1>6. \A x \in Answers : x.rev \in Nat
    BY <1>1, SMT DEF Answers
<1> QED
    BY <1>1, <1>2, <1>3, <1>4, <1>5, <1>6

(* An idle handler is a handler.                                            *)
LEMMA IdleInCalls ==
    ASSUME left.rev \in Nat
    PROVE  Idle \in Calls
<1>1. AnOp \in Ops
    BY MirrorAssumption DEF AnOp
<1>2. PICK a \in Agents, q \in Requests : TRUE
    BY MirrorAssumption
<1>3. [agent |-> a, req |-> q] \in Specs
    BY DEF Specs
<1>4. AnySpec \in Specs
    BY <1>3 DEF AnySpec
<1>5. NoAnswer \in UNION {[D -> Answers] : D \in SUBSET Ops}
  <2>1. NoAnswer \in [{} -> Answers]
    BY DEF NoAnswer
  <2>2. {} \in SUBSET Ops
    OBVIOUS
  <2> QED
    BY <2>1, <2>2
<1>6. 0 \in 0 .. left.rev
    BY SMT
<1> QED
    BY <1>1, <1>4, <1>5, <1>6 DEF Idle, Calls, Replies

(* In every typed state.                                                    *)
LEMMA IdleTyped ==
    ASSUME TypeOK
    PROVE  Idle \in Calls
BY BoundFacts, IdleInCalls

-----------------------------------------------------------------------------
(* What the Server knows                                                    *)

(* Agreement on a revision is symmetric.                                    *)
LEMMA SameSymmetric ==
    ASSUME NEW x, NEW y, Same(x, y)
    PROVE  Same(y, x)
BY DEF Same

(* What is known of an operation is the row or an answer, at a revision.    *)
LEMMA SnapFacts ==
    ASSUME TypeOK, NEW a \in Agents, NEW o \in Ops, NEW x \in Snaps(a, o)
    PROVE  /\ x.rev \in Nat
           /\ \/ \E h \in Handlers : hs[h].pc = "merge" /\ hs[h].spec.agent = a /\ o \in DOMAIN hs[h].got
                                     /\ x = View(hs[h].got[o])
              \/ row[o] # NoRow /\ row[o].agent = a /\ x = View(row[o])
<1>1. \/ \E h \in Holders(a, o) : x = View(hs[h].got[o])
      \/ \E p \in {q \in {o} : row[q] # NoRow /\ row[q].agent = a} : x = View(row[p])
    BY DEF Snaps
<1>2. CASE \E h \in Holders(a, o) : x = View(hs[h].got[o])
  <2>1. PICK h \in Handlers : hs[h].pc = "merge" /\ hs[h].spec.agent = a /\ o \in DOMAIN hs[h].got
                              /\ x = View(hs[h].got[o])
    BY <1>2 DEF Holders
  <2>2. hs[h].got[o].rev \in Nat
    BY <2>1, CallFacts
  <2> QED
    BY <2>1, <2>2 DEF View
<1>3. CASE \E p \in {q \in {o} : row[q] # NoRow /\ row[q].agent = a} : x = View(row[p])
  <2>1. row[o] # NoRow /\ row[o].agent = a /\ x = View(row[o])
    BY <1>3
  <2>2. row[o].rev \in Nat
    BY RowFacts
  <2> QED
    BY <2>1, <2>2 DEF View
<1> QED
    BY <1>1, <1>2, <1>3

(* An answer being merged, and a row, are known.                            *)
LEMMA SnapIntro ==
    /\ \A a \in Agents, o \in Ops, h \in Handlers :
          hs[h].pc = "merge" /\ hs[h].spec.agent = a /\ o \in DOMAIN hs[h].got => View(hs[h].got[o]) \in Snaps(a, o)
    /\ \A a \in Agents, o \in Ops : row[o] # NoRow /\ row[o].agent = a => View(row[o]) \in Snaps(a, o)
BY DEF Snaps, Holders

(* A step adds nothing to what the Server knows but what the Agent has.     *)
LEMMA SnapsFrom ==
    ASSUME TypeOK', RowPart, HandlerPart, NEW a \in Agents, NEW o \in Ops, NEW x \in Snaps(a, o)'
    PROVE  x \in Snaps(a, o) \/ (Has(a, o)' /\ x = View(ag'[a][o]))
<1>1. \/ \E h \in Handlers : hs'[h].pc = "merge" /\ hs'[h].spec.agent = a /\ o \in DOMAIN hs'[h].got
                             /\ x = View(hs'[h].got[o])
      \/ row'[o] # NoRow /\ row'[o].agent = a /\ x = View(row'[o])
  <2>1. \/ \E h \in Holders(a, o)' : x = View(hs'[h].got[o])
        \/ \E p \in {q \in {o} : row'[q] # NoRow /\ row'[q].agent = a} : x = View(row'[p])
    BY SMT DEF Snaps, View
  <2> QED
    BY <2>1 DEF Holders
<1>2. CASE \E h \in Handlers : hs'[h].pc = "merge" /\ hs'[h].spec.agent = a /\ o \in DOMAIN hs'[h].got
                               /\ x = View(hs'[h].got[o])
  <2>1. PICK h \in Handlers : hs'[h].pc = "merge" /\ hs'[h].spec.agent = a /\ o \in DOMAIN hs'[h].got
                              /\ x = View(hs'[h].got[o])
    BY <1>2
  <2>2. hs'[h] = hs[h] \/ AnswerIsCurrent(h)'
    BY DEF HandlerPart
  <2>3. CASE hs'[h] = hs[h]
    BY <2>1, <2>3, SnapIntro
  <2>4. CASE AnswerIsCurrent(h)'
    BY <2>1, <2>4 DEF AnswerIsCurrent, View
  <2> QED
    BY <2>2, <2>3, <2>4
<1>3. CASE row'[o] # NoRow /\ row'[o].agent = a /\ x = View(row'[o])
  <2>1. RowFrom(o)
    BY DEF RowPart
  <2>2. CASE row'[o] = row[o]
    BY <1>3, <2>2, SnapIntro
  <2>3. CASE \E h \in Handlers : LearnsFrom(o, h)
    BY <1>3, <2>3, SnapIntro DEF LearnsFrom
  <2> QED
    BY <1>3, <2>1, <2>2, <2>3 DEF RowFrom
<1> QED
    BY <1>1, <1>2, <1>3

(* So a step keeps the Server from knowing more than the Agent.             *)
LEMMA NotAheadKept ==
    ASSUME TypeOK, TypeOK', NotAhead, AgentPart, RowPart, HandlerPart, SeenPart
    PROVE  NotAhead'
<1> SUFFICES ASSUME "evict" \notin seen', NEW a \in Agents, NEW o \in Ops, NEW x \in Snaps(a, o)'
             PROVE  Behind(a, o, x)'
    BY DEF NotAhead
<1>1. RecordMove(a, o)
    BY DEF AgentPart
<1>2. CASE x \in Snaps(a, o)
  <2>1. Behind(a, o, x)
    BY <1>2 DEF NotAhead, SeenPart
  <2>2. x.rev \in Nat /\ ag[a][o].rev \in Nat /\ ag'[a][o].rev \in Nat
    BY <1>2, SnapFacts, RecordFacts, NextRecordFacts
  <2>3. Has(a, o)' /\ ag[a][o].rev <= ag'[a][o].rev
    BY <1>1, <2>1 DEF RecordMove, Behind
  <2>4. x.rev <= ag'[a][o].rev
    BY <2>1, <2>2, <2>3, SMT DEF Behind
  <2>5. x.st \in Final => ag'[a][o].rev = x.rev /\ ag'[a][o].st \in Final
    BY <1>1, <2>1 DEF RecordMove, Behind
  <2> QED
    BY <2>3, <2>4, <2>5 DEF Behind
<1>3. CASE Has(a, o)' /\ x = View(ag'[a][o])
  <2>1. x.rev <= ag'[a][o].rev
    <3>1. ag'[a][o].rev \in Nat
      BY NextRecordFacts
    <3> QED
      BY <1>3, <3>1, SMT DEF View
  <2> QED
    BY <1>3, <2>1 DEF Behind, View
<1> QED
    BY <1>2, <1>3, SnapsFrom

(* And keeps all that is known of a revision in agreement.                  *)
LEMMA AgreedKept ==
    ASSUME TypeOK, TypeOK', NotAhead, Agreed, AgentPart, RowPart, HandlerPart, SeenPart
    PROVE  Agreed'
<1> SUFFICES ASSUME seen' = {}, NEW a \in Agents, NEW o \in Ops
             PROVE  \A x \in Snaps(a, o)' : Same(x, ag'[a][o]) /\ \A y \in Snaps(a, o)' : Same(x, y)
    BY DEF Agreed, Same
<1>0. seen = {} /\ "evict" \notin seen /\ "evict" \notin seen'
    BY DEF SeenPart
<1>1. RecordMove(a, o)
    BY DEF AgentPart
<1>2. \A x \in Snaps(a, o) : Same(x, ag'[a][o])
  <2> TAKE x \in Snaps(a, o)
  <2>1. Behind(a, o, x) /\ Same(x, ag[a][o])
    BY <1>0 DEF NotAhead, Agreed
  <2>2. x.rev \in Nat /\ ag[a][o].rev \in Nat /\ ag'[a][o].rev \in Nat
    BY SnapFacts, RecordFacts, NextRecordFacts
  <2>3. SUFFICES ASSUME x.rev = ag'[a][o].rev
                 PROVE  x.st = ag'[a][o].st /\ x.canc = ag'[a][o].canc /\ (x.st \in Final => x.out = ag'[a][o].out)
    BY DEF Same
  <2>4. x.rev <= ag[a][o].rev /\ ag[a][o].rev <= ag'[a][o].rev
    BY <1>0, <1>1, <2>1 DEF RecordMove, Behind
  <2>5. x.rev = ag[a][o].rev /\ ag[a][o].rev = ag'[a][o].rev
    BY <2>2, <2>3, <2>4, SMT
  <2> QED
    BY <1>0, <1>1, <2>1, <2>5 DEF RecordMove, Behind, Same
<1>3. Same(View(ag'[a][o]), ag'[a][o]) /\ Same(View(ag'[a][o]), View(ag'[a][o]))
    BY DEF Same, View
<1>4. \A x \in Snaps(a, o) : Same(x, View(ag'[a][o])) /\ Same(View(ag'[a][o]), x)
  <2>1. \A x \in Snaps(a, o) : Same(x, View(ag'[a][o]))
    BY <1>2 DEF Same, View
  <2> QED
    BY <2>1, SameSymmetric
<1>5. \A x, y \in Snaps(a, o) : Same(x, y)
    BY <1>0 DEF Agreed
<1>6. \A x \in Snaps(a, o)' : x \in Snaps(a, o) \/ x = View(ag'[a][o])
    BY SnapsFrom
<1> QED
    BY <1>2, <1>3, <1>4, <1>5, <1>6

(* The parts of a step together keep the invariant.                         *)
LEMMA PartsTogether ==
    ASSUME MirrorInv, BoundsKept, AgentPart, RowPart, HandlerPart, SeenPart
    PROVE  MirrorInv'
<1>1. TypeOK'
    BY DEF TypeOK, AgentPart, RowPart, HandlerPart, SeenPart, BoundsKept
<1>2. NotAhead' /\ Agreed'
    BY <1>1, NotAheadKept, AgreedKept DEF MirrorInv
<1>3. (\A a \in Agents, o \in Ops : RecordSound(a, o)') /\ (\A h \in Handlers : HandlerSound(h)')
    BY DEF AgentPart, HandlerPart
<1>4. RowsComplete' /\ RecoverySeen' /\ LookupAccepted'
    BY DEF RowPart, HandlerPart, NotRefused, LookupAccepted, RecoverySeen
<1> QED
    BY <1>1, <1>2, <1>3, <1>4 DEF MirrorInv

-----------------------------------------------------------------------------
(* The parts of a step                                                      *)

(* A step that leaves the Agents alone.                                     *)
LEMMA AgentIdle ==
    ASSUME MirrorInv, BoundsKept, UNCHANGED <<ag, past>>
    PROVE  AgentPart
<1>1. Records' = Records
    BY SameTypes
<1>2. \A a \in Agents, o \in Ops : ag[a][o].rev <= ag[a][o].rev
    BY RecordFacts, SMT DEF MirrorInv
<1>3. \A a \in Agents, o \in Ops : RecordSound(a, o)' /\ RecordMove(a, o)
    BY <1>2 DEF MirrorInv, RecordSound, RecordMove, Has, BoundsKept, StateOf
<1> QED
    BY <1>1, <1>3 DEF AgentPart, PastGrows, MirrorInv, TypeOK, BoundsKept

(* A step that leaves the rows alone.                                       *)
LEMMA RowsIdle ==
    ASSUME MirrorInv, BoundsKept, SeenPart, row' = row, owned' \subseteq Agents
    PROVE  RowPart /\ RowForward
<1>1. Rows' = Rows
    BY SameTypes
<1>2. \A o \in Ops : row[o].rev <= row[o].rev
    BY RowFacts, SMT DEF MirrorInv
<1>3. RowForward
    BY <1>2 DEF RowForward, RowSpec
<1>4. RowsComplete'
    BY DEF MirrorInv, RowsComplete, SeenPart
<1> QED
    BY <1>1, <1>3, <1>4 DEF RowPart, RowFrom, MirrorInv, TypeOK

(* A handler that takes no step stays sound while records are added and rows *)
(* move forward.                                                            *)
LEMMA HandlerKept ==
    ASSUME MirrorInv, PastGrows, RowForward, row' \in [Ops -> Rows' \cup {NoRow}], BoundsKept,
           NEW h \in Handlers, hs'[h] = hs[h]
    PROVE  HandlerSound(h)'
<1>1. HandlerSound(h) /\ TypeOK
    BY DEF MirrorInv
<1>2. hs[h].o \in Ops /\ hs[h].floor \in Nat /\ DOMAIN hs[h].got \subseteq Ops
    BY <1>1, CallFacts
<1>3. row[hs[h].o].rev \in Nat /\ row[hs[h].o].rev <= row'[hs[h].o].rev
    BY <1>1, <1>2, RowFacts DEF RowForward
<1>4. row'[hs[h].o].rev \in Nat
  <2>1. row'[hs[h].o] \in Rows \cup {NoRow} /\ left.rev \in Nat
    BY <1>1, <1>2, SameTypes, BoundFacts
  <2> QED
    BY <2>1, SMT DEF Rows, NoRow
<1>5. hs[h].floor <= row[hs[h].o].rev => hs[h].floor <= row'[hs[h].o].rev
    BY <1>2, <1>3, <1>4, SMT
<1>6. hs[h].known => row'[hs[h].o] # NoRow /\ [agent |-> row'[hs[h].o].agent, req |-> row'[hs[h].o].req] = hs[h].spec
  <2>1. ASSUME hs[h].known
        PROVE  row[hs[h].o] # NoRow /\ RowSpec(hs[h].o) = hs[h].spec
    BY <1>1, <2>1 DEF HandlerSound
  <2>2. row[hs[h].o] # NoRow => row'[hs[h].o] # NoRow
                                /\ [agent |-> row'[hs[h].o].agent, req |-> row'[hs[h].o].req] = RowSpec(hs[h].o)
    BY <1>2 DEF RowForward, RowSpec
  <2> QED
    BY <2>1, <2>2 DEF RowSpec
<1>7. \A p \in DOMAIN hs[h].got : past[p] \subseteq past'[p]
    BY <1>2 DEF PastGrows
<1>8. hs[h].pc = "merge" => \A p \in DOMAIN hs[h].got : StateOf(hs[h].spec.agent, hs[h].got[p]) \in past'[p]
    BY <1>1, <1>7 DEF HandlerSound
<1> QED
    BY <1>1, <1>5, <1>6, <1>8 DEF HandlerSound, StateOf, RowSpec

Frame == BoundsKept /\ SeenPart /\ PastGrows /\ RowForward /\ row' \in [Ops -> Rows' \cup {NoRow}]

(* Nothing a handler was not refused for is held against it later.          *)
LEMMA RefusedOnce ==
    ASSUME MirrorInv, SeenPart, NEW h \in Handlers, hs'[h] = hs[h]
    PROVE  NotRefused(h)
BY DEF MirrorInv, SeenPart, NotRefused, LookupAccepted, RecoverySeen

(* A step that leaves the handlers alone.                                   *)
LEMMA HandlersIdle ==
    ASSUME MirrorInv, Frame, hs' = hs
    PROVE  HandlerPart
<1>1. hs' \in [Handlers -> Calls']
    BY SameTypes DEF Frame, MirrorInv, TypeOK
<1>2. \A h \in Handlers : HandlerSound(h)' /\ NotRefused(h)
    BY HandlerKept, RefusedOnce DEF Frame
<1> QED
    BY <1>1, <1>2 DEF HandlerPart

(* A step of one handler.                                                   *)
LEMMA OneHandler ==
    ASSUME MirrorInv, Frame, NEW h \in Handlers, NEW n \in Calls, Set(h, n),
           HandlerSound(h)', AnswerIsCurrent(h)', NotRefused(h)
    PROVE  HandlerPart
<1>1. hs \in [Handlers -> Calls] /\ Calls' = Calls
    BY SameTypes DEF Frame, MirrorInv, TypeOK
<1>2. hs' \in [Handlers -> Calls'] /\ \A g \in Handlers : g # h => hs'[g] = hs[g]
    BY <1>1, SMT DEF Set
<1>3. \A g \in Handlers : g # h => HandlerSound(g)' /\ NotRefused(g)
    BY <1>2, HandlerKept, RefusedOnce DEF Frame
<1> QED
    BY <1>2, <1>3 DEF HandlerPart

(* A handler that answers: it is not behind when it answers "ok".           *)
LEMMA Answered ==
    ASSUME MirrorInv, Frame, NEW h \in Handlers, NEW s, NEW reply \in Replies, Answer(h, s, reply),
           s.kind \in Kinds \cup {"none"}, s.behind \in BOOLEAN,
           s.kind = "recover" => "recover" \in seen',
           reply = "ok" => ~s.behind,
           reply = "stateConflict" => s.kind = "recover" \/ seen' # {}
    PROVE  HandlerPart
<1> DEFINE n == [Idle EXCEPT !.pc = "done", !.kind = s.kind, !.reply = reply, !.behind = s.behind]
<1>1. Idle \in Calls
    BY IdleTyped DEF MirrorInv
<1>2. n \in Calls
    BY <1>1 DEF Calls
<1>3. n.pc = "done" /\ n.kind = s.kind /\ n.reply = reply /\ n.behind = s.behind /\ ~n.known
    BY SMT DEF Idle
<1>4. Set(h, n)
    BY DEF Answer
<1> HIDE DEF n
<1>5. hs'[h] = n
    BY <1>4, SMT DEF Set, MirrorInv, TypeOK
<1>6. HandlerSound(h)' /\ AnswerIsCurrent(h)' /\ NotRefused(h)
    BY <1>3, <1>5 DEF HandlerSound, AnswerIsCurrent, NotRefused
<1> QED
    BY <1>2, <1>4, <1>6, OneHandler

Forward(x, r) ==
    /\ x.rev <= r.rev
    /\ x.st \in Final => r = x
    /\ x.rev = r.rev => r.st = x.st /\ r.canc = x.canc

(* A step that writes one record.                                           *)
LEMMA OneRecord ==
    ASSUME MirrorInv, BoundsKept, NEW a \in Agents, NEW o \in Ops, NEW r \in Records, Put(a, o, r),
           Has(a, o) => Forward(ag[a][o], r),
           r.st \notin Final => r.rev < left.rev
    PROVE  AgentPart /\ ag'[a][o] = r /\ Has(a, o)' /\ StateOf(a, r) \in past'[o]
<1>1. /\ ag \in [Agents -> [Ops -> Records \cup {NoRec}]]
      /\ past \in [Ops -> SUBSET [bind : Specs, rev : 1 .. left.rev, st : Status]]
      /\ Records' = Records /\ left.rev \in Nat
    BY SameTypes, BoundFacts DEF MirrorInv, TypeOK
<1>2. r.req \in Requests /\ r.rev \in 1 .. left.rev /\ r.st \in Status
    BY DEF Records
<1>3. r # NoRec
    BY <1>1, <1>2, SMT DEF NoRec
<1>4. StateOf(a, r) \in [bind : Specs, rev : 1 .. left.rev, st : Status]
    BY <1>2 DEF StateOf, Specs
<1>5. /\ ag' \in [Agents -> [Ops -> Records' \cup {NoRec}]] /\ ag'[a][o] = r
      /\ \A b \in Agents, p \in Ops : <<b, p>> # <<a, o>> => ag'[b][p] = ag[b][p]
    BY <1>1, SMT DEF Put
<1> DEFINE f == StateOf(a, r)
<1>6. past' = [past EXCEPT ![o] = @ \cup {f}]
    BY DEF Put
<1> HIDE DEF f
<1>7. /\ past' \in [Ops -> SUBSET [bind : Specs, rev : 1 .. left.rev, st : Status]]
      /\ PastGrows /\ f \in past'[o]
    BY <1>1, <1>4, <1>6, SMT DEF PastGrows, f
<1>8. \A b \in Agents, p \in Ops : RecordSound(b, p)' /\ RecordMove(b, p)
  <2> TAKE b \in Agents, p \in Ops
  <2>1. CASE <<b, p>> = <<a, o>>
    <3>1. b = a /\ p = o
      BY <2>1
    <3>2. RecordSound(a, o)'
      BY <1>5, <1>7 DEF RecordSound, f, StateOf, BoundsKept
    <3>3. RecordMove(a, o)
      BY <1>3, <1>5 DEF RecordMove, Forward, Has
    <3> QED
      BY <3>1, <3>2, <3>3
  <2>2. CASE <<b, p>> # <<a, o>>
    <3>1. ag'[b][p] = ag[b][p] /\ past[p] \subseteq past'[p]
      BY <1>5, <1>7, <2>2 DEF PastGrows
    <3>2. ag[b][p].rev <= ag[b][p].rev
      BY RecordFacts, SMT DEF MirrorInv
    <3>3. RecordSound(b, p)
      BY DEF MirrorInv
    <3> QED
      BY <3>1, <3>2, <3>3 DEF RecordSound, RecordMove, Has, StateOf, BoundsKept
  <2> QED
    BY <2>1, <2>2
<1> QED
    BY <1>3, <1>5, <1>7, <1>8 DEF AgentPart, BoundsKept, Has, f

-----------------------------------------------------------------------------
(* The Agents' steps                                                        *)

(* A step of an Agent that writes one record and nothing else.              *)
LEMMA RecordStep ==
    ASSUME MirrorInv, NEW a \in Agents, NEW o \in Ops, NEW r \in Records, Put(a, o, r),
           Has(a, o) => Forward(ag[a][o], r), r.st \notin Final => r.rev < left.rev,
           UNCHANGED <<row, owned, hs, left, seen>>
    PROVE  MirrorInv'
<1>1. BoundsKept /\ SeenPart /\ owned' \subseteq Agents
    BY DEF BoundsKept, SeenPart, MirrorInv, TypeOK
<1>2. AgentPart
    BY <1>1, OneRecord
<1>3. RowPart /\ RowForward
    BY <1>1, RowsIdle
<1>4. Frame
    BY <1>1, <1>2, <1>3 DEF Frame, AgentPart, RowPart
<1>5. HandlerPart
    BY <1>4, HandlersIdle
<1> QED
    BY <1>1, <1>2, <1>3, <1>5, PartsTogether

(* An active record has room for another revision.                          *)
LEMMA ActiveFacts ==
    ASSUME MirrorInv, NEW a \in Agents, NEW o \in Ops, Active(a, o)
    PROVE  /\ Has(a, o) /\ ag[a][o] \in Records /\ ag[a][o].st \notin Final
           /\ ag[a][o].rev \in Nat /\ ag[a][o].rev + 1 \in 1 .. left.rev
           /\ ag[a][o].rev < left.rev - 1 => ag[a][o].rev + 1 < left.rev
           /\ ag[a][o].out \in 0 .. left.out /\ left.out \in Nat /\ left.rev \in Nat
<1>1. Has(a, o) /\ ag[a][o].st \notin Final /\ TypeOK /\ RecordSound(a, o)
    BY DEF Active, MirrorInv
<1>2. ag[a][o] \in Records /\ ag[a][o].rev \in Nat /\ ag[a][o].rev < left.rev
    BY <1>1, RecordFacts DEF RecordSound
<1>3. ag[a][o].out \in 0 .. left.out
    BY <1>2 DEF Records
<1>4. left.rev \in Nat /\ left.out \in Nat
    BY <1>1, BoundFacts
<1>5. ag[a][o].rev + 1 \in 1 .. left.rev /\ (ag[a][o].rev < left.rev - 1 => ag[a][o].rev + 1 < left.rev)
    BY <1>2, <1>4, SMT
<1> QED
    BY <1>1, <1>2, <1>3, <1>4, <1>5

(* A new revision of an active record.                                      *)
LEMMA AdvanceKeeps ==
    ASSUME MirrorInv, NEW a \in Agents, NEW o \in Ops, Advance(a, o)
    PROVE  MirrorInv'
<1> DEFINE x == ag[a][o]
           r == [x EXCEPT !.rev = @ + 1]
<1>1. Active(a, o) /\ x.rev < left.rev - 1 /\ Put(a, o, r) /\ UNCHANGED <<row, owned, hs, left, seen>>
    BY DEF Advance
<1>2. x \in Records /\ x.st \notin Final /\ x.rev \in Nat /\ x.rev + 1 \in 1 .. left.rev /\ x.rev + 1 < left.rev
    BY <1>1, ActiveFacts
<1>3. x.rev <= x.rev + 1 /\ x.rev # x.rev + 1
    BY <1>2, SMT
<1>4. r \in Records /\ r.rev = x.rev + 1 /\ r.st = x.st /\ r.canc = x.canc
    BY <1>2 DEF Records
<1> HIDE DEF r, x
<1>5. Forward(x, r)
    BY <1>2, <1>3, <1>4 DEF Forward
<1> QED
    BY <1>1, <1>2, <1>4, <1>5, RecordStep DEF x

(* More output of an active record, which is no new revision.               *)
LEMMA WriteOutputKeeps ==
    ASSUME MirrorInv, NEW a \in Agents, NEW o \in Ops, WriteOutput(a, o)
    PROVE  MirrorInv'
<1> DEFINE x == ag[a][o]
           r == [x EXCEPT !.out = @ + 1]
<1>1. Active(a, o) /\ x.out < left.out /\ Put(a, o, r) /\ UNCHANGED <<row, owned, hs, left, seen>>
    BY DEF WriteOutput
<1>2. x \in Records /\ x.st \notin Final /\ x.rev \in Nat /\ x.rev + 1 \in 1 .. left.rev
      /\ x.out \in 0 .. left.out /\ left.out \in Nat /\ left.rev \in Nat
    BY <1>1, ActiveFacts
<1>3. x.rev <= x.rev /\ x.rev < left.rev /\ x.out + 1 \in 0 .. left.out
    BY <1>1, <1>2, SMT
<1>4. r \in Records /\ r.rev = x.rev /\ r.st = x.st /\ r.canc = x.canc
    BY <1>2, <1>3 DEF Records
<1> HIDE DEF r, x
<1>5. Forward(x, r)
    BY <1>2, <1>3, <1>4 DEF Forward
<1> QED
    BY <1>1, <1>2, <1>3, <1>4, <1>5, RecordStep DEF x

(* The revision in which an operation ends.                                 *)
LEMMA FinishKeeps ==
    ASSUME MirrorInv, NEW a \in Agents, NEW o \in Ops, Finish(a, o)
    PROVE  MirrorInv'
<1> DEFINE x == ag[a][o]
           ended(st, d) == [x EXCEPT !.rev = @ + 1, !.st = st, !.disk = d]
           failed(st) == [x EXCEPT !.rev = @ + 1, !.st = st]
<1>1. Active(a, o) /\ UNCHANGED <<row, owned, hs, left, seen>>
    BY DEF Finish
<1>2. x \in Records /\ x.st \notin Final /\ x.rev \in Nat /\ x.rev + 1 \in 1 .. left.rev
      /\ x.out \in 0 .. left.out
    BY <1>1, ActiveFacts
<1>3. x.rev <= x.rev + 1 /\ x.rev # x.rev + 1
    BY <1>2, SMT
<1>4. \E st \in Final, d \in {x.disk, x.out} : Put(a, o, ended(st, d)) \/ Put(a, o, failed(st))
    BY DEF Finish, Final
<1>5. PICK st \in Final, d \in {x.disk, x.out} : Put(a, o, ended(st, d)) \/ Put(a, o, failed(st))
    BY <1>4
<1>6. ended(st, d) \in Records /\ ended(st, d).rev = x.rev + 1 /\ ended(st, d).st = st
    BY <1>2 DEF Records, Status
<1>7. failed(st) \in Records /\ failed(st).rev = x.rev + 1 /\ failed(st).st = st
    BY <1>2 DEF Records, Status
<1> HIDE DEF ended, failed, x
<1>8. Forward(x, ended(st, d)) /\ Forward(x, failed(st))
    BY <1>2, <1>3, <1>6, <1>7 DEF Forward
<1> QED
    BY <1>1, <1>5, <1>6, <1>7, <1>8, RecordStep DEF x

(* A finished record leaves the result ring.                                *)
LEMMA EvictKeeps ==
    ASSUME MirrorInv, NEW a \in Agents, NEW o \in Ops, Evict(a, o)
    PROVE  MirrorInv'
<1>1. BoundsKept
  <2>1. left.evictions - 1 \in Nat
    BY SMT DEF Evict, MirrorInv, TypeOK, Bounds
  <2> QED
    BY <2>1 DEF Evict, BoundsKept, MirrorInv, TypeOK, Bounds
<1>2. SeenPart /\ owned' \subseteq Agents /\ row' = row /\ hs' = hs /\ past' = past /\ "evict" \in seen'
    BY DEF Evict, SeenPart, MirrorInv, TypeOK
<1>3. /\ ag' \in [Agents -> [Ops -> Records' \cup {NoRec}]]
      /\ \A b \in Agents, p \in Ops : ag'[b][p] \in {ag[b][p], NoRec}
  <2>1. ag \in [Agents -> [Ops -> Records \cup {NoRec}]] /\ Records' = Records
    BY <1>1, SameTypes DEF MirrorInv, TypeOK
  <2> QED
    BY <2>1, SMT DEF Evict
<1>4. \A b \in Agents, p \in Ops : RecordSound(b, p)' /\ RecordMove(b, p)
    BY <1>1, <1>2, <1>3, ZenonT(40) DEF MirrorInv, RecordSound, RecordMove, Has, StateOf, BoundsKept
<1>5. AgentPart
    BY <1>1, <1>2, <1>3, <1>4 DEF AgentPart, PastGrows, MirrorInv, TypeOK, BoundsKept
<1>6. RowPart /\ RowForward
    BY <1>1, <1>2, RowsIdle
<1>7. HandlerPart
    BY <1>1, <1>2, <1>5, <1>6, HandlersIdle DEF Frame, AgentPart, RowPart
<1> QED
    BY <1>1, <1>2, <1>5, <1>6, <1>7, PartsTogether

(* What is left of a record when the Agent's process comes back.            *)
LEMMA ReloadedFacts ==
    ASSUME MirrorInv, NEW a \in Agents, NEW o \in Ops, Has(a, o)
    PROVE  /\ Reloaded(ag[a][o]) \in Records /\ Reloaded(ag[a][o]).st \in Final
           /\ Reloaded(ag[a][o]).req = ag[a][o].req
           /\ ag[a][o].rev <= Reloaded(ag[a][o]).rev
           /\ ag[a][o].st \in Final => Reloaded(ag[a][o]).rev = ag[a][o].rev
           /\ ag[a][o].rev = Reloaded(ag[a][o]).rev =>
                 Reloaded(ag[a][o]).st = ag[a][o].st /\ Reloaded(ag[a][o]).canc = ag[a][o].canc
<1> DEFINE x == ag[a][o]
           kept == [x EXCEPT !.out = x.disk]
           cut == [x EXCEPT !.rev = @ + 1, !.st = "interrupted", !.out = x.disk]
<1>1. x \in Records /\ x # NoRec /\ x.rev \in Nat /\ x.disk \in 0 .. left.out
  <2>1. x \in Records /\ x # NoRec /\ x.rev \in Nat
    BY RecordFacts DEF MirrorInv, Has
  <2> QED
    BY <2>1 DEF Records
<1>2. x.rev <= x.rev
    BY <1>1, SMT
<1>3. CASE x.st \in Final
  <2>1. Reloaded(x) = kept
    BY <1>1, <1>3 DEF Reloaded
  <2>2. kept \in Records /\ kept.st = x.st /\ kept.req = x.req /\ kept.rev = x.rev /\ kept.canc = x.canc
    BY <1>1 DEF Records
  <2> HIDE DEF x, kept
  <2> QED
    BY <1>2, <1>3, <2>1, <2>2 DEF x
<1>4. CASE x.st \notin Final
  <2>1. Reloaded(x) = cut
    BY <1>1, <1>4 DEF Reloaded
  <2>2. x.rev + 1 \in 1 .. left.rev
    BY <1>4, ActiveFacts DEF Active
  <2>3. x.rev <= x.rev + 1 /\ x.rev # x.rev + 1
    BY <1>1, SMT
  <2>4. cut \in Records /\ cut.st = "interrupted" /\ cut.req = x.req /\ cut.rev = x.rev + 1
    BY <1>1, <2>2 DEF Records, Status, Final
  <2> HIDE DEF x, cut
  <2> QED
    BY <1>4, <2>1, <2>3, <2>4 DEF x, Final
<1> QED
    BY <1>3, <1>4

(* The Agent's process restarts.                                            *)
LEMMA AgentRestartKeeps ==
    ASSUME MirrorInv, NEW a \in Agents, AgentRestart(a)
    PROVE  MirrorInv'
<1>1. BoundsKept
  <2>1. left.restarts - 1 \in Nat
    BY SMT DEF AgentRestart, MirrorInv, TypeOK, Bounds
  <2> QED
    BY <2>1 DEF AgentRestart, BoundsKept, MirrorInv, TypeOK, Bounds
<1>2. SeenPart /\ owned' \subseteq Agents /\ row' = row /\ hs' = hs /\ "restart" \in seen'
    BY DEF AgentRestart, SeenPart, MirrorInv, TypeOK
<1>3. ag \in [Agents -> [Ops -> Records \cup {NoRec}]] /\ Records' = Records
      /\ past \in [Ops -> SUBSET [bind : Specs, rev : 1 .. left.rev, st : Status]]
    BY <1>1, SameTypes DEF MirrorInv, TypeOK
<1>4. \A o \in Ops : IF Has(a, o) THEN Reloaded(ag[a][o]) \in Records ELSE Reloaded(ag[a][o]) = NoRec
    BY ReloadedFacts DEF Reloaded, Has
<1> DEFINE n == [o \in Ops |-> Reloaded(ag[a][o])]
<1>5. n \in [Ops -> Records \cup {NoRec}]
    BY <1>4
<1>6. ag' = [ag EXCEPT ![a] = n]
    BY DEF AgentRestart
<1>7. \A o \in Ops : n[o] = Reloaded(ag[a][o])
    OBVIOUS
<1> HIDE DEF n
<1>8. /\ ag' \in [Agents -> [Ops -> Records' \cup {NoRec}]]
      /\ ag'[a] = n
      /\ \A b \in Agents : b # a => ag'[b] = ag[b]
    BY <1>3, <1>5, <1>6
<1>9. /\ past' \in [Ops -> SUBSET [bind : Specs, rev : 1 .. left.rev, st : Status]]
      /\ PastGrows
      /\ \A o \in Ops : Has(a, o) => StateOf(a, Reloaded(ag[a][o])) \in past'[o]
  <2>1. \A o \in Ops : Has(a, o) => StateOf(a, Reloaded(ag[a][o])) \in [bind : Specs, rev : 1 .. left.rev, st : Status]
    <3> SUFFICES ASSUME NEW o \in Ops, Has(a, o)
                 PROVE  StateOf(a, Reloaded(ag[a][o])) \in [bind : Specs, rev : 1 .. left.rev, st : Status]
        OBVIOUS
    <3>1. Reloaded(ag[a][o]) \in Records
      BY ReloadedFacts
    <3> QED
      BY <3>1 DEF StateOf, Specs, Records
  <2>2. \A o \in Ops : past'[o] = IF Has(a, o) THEN past[o] \cup {StateOf(a, Reloaded(ag[a][o]))} ELSE past[o]
    BY DEF AgentRestart
  <2>3. past' = [o \in Ops |-> past'[o]]
    BY DEF AgentRestart
  <2>4. \A o \in Ops : past'[o] \in SUBSET [bind : Specs, rev : 1 .. left.rev, st : Status]
    BY <1>3, <2>1, <2>2
  <2> QED
    BY <2>2, <2>3, <2>4 DEF PastGrows
<1>10. \A b \in Agents, o \in Ops : RecordSound(b, o)' /\ RecordMove(b, o)
  <2> TAKE b \in Agents, o \in Ops
  <2>0. past[o] \subseteq past'[o] /\ RecordSound(b, o)
    BY <1>9 DEF PastGrows, MirrorInv
  <2>1. CASE b # a \/ ~Has(a, o)
    <3>1. ag'[b][o] = ag[b][o]
      BY <1>4, <1>7, <1>8, <2>1 DEF Has
    <3>2. ag[b][o].rev <= ag[b][o].rev
      BY RecordFacts, SMT DEF MirrorInv
    <3> QED
      BY <1>1, <1>2, <2>0, <3>1, <3>2 DEF RecordSound, RecordMove, Has, StateOf, BoundsKept
  <2>2. CASE b = a /\ Has(a, o)
    <3>1. ag'[b][o] = Reloaded(ag[a][o]) /\ ag'[b][o] \in Records
      BY <1>4, <1>7, <1>8, <2>2
    <3>2. ag'[b][o] # NoRec
      BY <3>1, BoundFacts, SMT DEF Records, NoRec, MirrorInv
    <3>3. ag'[b][o].st \in Final
      BY <3>1, <2>2, ReloadedFacts
    <3>4. RecordSound(b, o)'
      BY <1>9, <2>2, <3>1, <3>3 DEF RecordSound, StateOf
    <3>5. RecordMove(b, o)
      BY <1>2, <2>2, <3>1, <3>2, ReloadedFacts, ZenonT(40) DEF RecordMove, Has
    <3> QED
      BY <3>4, <3>5
  <2> QED
    BY <2>1, <2>2
<1>11. AgentPart
    BY <1>1, <1>8, <1>9, <1>10 DEF AgentPart, BoundsKept
<1>12. RowPart /\ RowForward
    BY <1>1, <1>2, RowsIdle
<1>13. HandlerPart
    BY <1>1, <1>2, <1>11, <1>12, HandlersIdle DEF Frame, AgentPart, RowPart
<1> QED
    BY <1>1, <1>2, <1>11, <1>12, <1>13, PartsTogether

-----------------------------------------------------------------------------
(* The handlers' steps                                                      *)

(* A step that leaves the records and the rows alone.                       *)
LEMMA Quiet ==
    ASSUME MirrorInv, UNCHANGED <<ag, past, row, left>>, SeenPart, owned' \subseteq Agents
    PROVE  BoundsKept /\ AgentPart /\ RowPart /\ Frame
<1>1. BoundsKept
    BY DEF BoundsKept, MirrorInv, TypeOK
<1>2. AgentPart
    BY <1>1, AgentIdle
<1>3. RowPart /\ RowForward
    BY <1>1, RowsIdle
<1> QED
    BY <1>1, <1>2, <1>3 DEF Frame, AgentPart, RowPart

(* A handler that is about to call the Agent.                               *)
LEMMA Called ==
    ASSUME MirrorInv, Frame, row' = row, NEW h \in Handlers, NEW n \in Calls, Set(h, n),
           n.pc \in {"call", "fetch"}, n.reply = "none", ~n.behind, n.kind # "none",
           n.kind = "recover" => "recover" \in seen',
           n.floor <= row[n.o].rev,
           n.known => row[n.o] # NoRow /\ RowSpec(n.o) = n.spec
    PROVE  HandlerPart
<1>1. hs'[h] = n
    BY SMT DEF Set, MirrorInv, TypeOK
<1>2. HandlerSound(h)' /\ AnswerIsCurrent(h)' /\ NotRefused(h)
    BY <1>1 DEF HandlerSound, AnswerIsCurrent, NotRefused, RowSpec
<1> QED
    BY <1>2, OneHandler

(* A dispatch is taken up.                                                  *)
LEMMA BeginDispatchKeeps ==
    ASSUME MirrorInv, NEW h \in Handlers, NEW o \in Ops, NEW s \in Specs, BeginDispatch(h, o, s)
    PROVE  MirrorInv'
<1> DEFINE n == [Idle EXCEPT !.kind = "dispatch", !.o = o, !.spec = s, !.pc = "call", !.floor = row[o].rev]
<1>1. Answer(h, n, "notFound") \/ Answer(h, n, "specConflict") \/ Set(h, n)
    BY DEF BeginDispatch
<1>2. SeenPart /\ owned' \subseteq Agents
    BY DEF BeginDispatch, SeenPart, MirrorInv, TypeOK
<1>3. BoundsKept /\ AgentPart /\ RowPart /\ Frame
    BY <1>2, Quiet DEF BeginDispatch
<1>4. Idle \in Calls /\ row[o].rev \in 0 .. left.rev /\ row[o].rev <= row[o].rev
  <2>1. row[o].rev \in 0 .. left.rev /\ row[o].rev <= row[o].rev
    BY RowFacts, BoundFacts, SMT DEF MirrorInv
  <2> QED
    BY <2>1, IdleTyped DEF MirrorInv
<1>5. n \in Calls
    BY <1>4 DEF Calls, Kinds
<1>6. /\ n.kind = "dispatch" /\ n.o = o /\ n.pc = "call" /\ n.floor = row[o].rev
      /\ n.known = FALSE /\ n.reply = "none" /\ n.behind = FALSE
    BY DEF Idle
<1> HIDE DEF n
<1>7. HandlerPart
  <2>1. CASE Set(h, n)
    BY <1>3, <1>4, <1>5, <1>6, <2>1, Called DEF BeginDispatch
  <2>2. CASE Answer(h, n, "notFound") \/ Answer(h, n, "specConflict")
    BY <1>3, <1>6, <2>2, Answered DEF Replies, Kinds
  <2> QED
    BY <1>1, <2>1, <2>2
<1> QED
    BY <1>2, <1>3, <1>7, PartsTogether

(* A lookup or a cancellation is taken up.                                  *)
LEMMA BeginControlKeeps ==
    ASSUME MirrorInv, NEW h \in Handlers, NEW o \in Ops, NEW a \in Agents, NEW kind \in {"get", "cancel"},
           BeginControl(h, kind, o, a)
    PROVE  MirrorInv'
<1> DEFINE sp == IF row[o] # NoRow THEN RowSpec(o) ELSE [agent |-> a, req |-> AnyRequest]
           kn == row[o] # NoRow
           n == [Idle EXCEPT !.kind = kind, !.o = o, !.pc = "call", !.known = kn, !.floor = row[o].rev, !.spec = sp]
<1>1. Answer(h, n, "specConflict") \/ Set(h, n)
    BY DEF BeginControl
<1>2. SeenPart /\ owned' \subseteq Agents
    BY DEF BeginControl, SeenPart, MirrorInv, TypeOK
<1>3. BoundsKept /\ AgentPart /\ RowPart /\ Frame
    BY <1>2, Quiet DEF BeginControl
<1>4. Idle \in Calls /\ row[o].rev \in 0 .. left.rev /\ row[o].rev <= row[o].rev
  <2>1. row[o].rev \in 0 .. left.rev /\ row[o].rev <= row[o].rev
    BY RowFacts, BoundFacts, SMT DEF MirrorInv
  <2> QED
    BY <2>1, IdleTyped DEF MirrorInv
<1>5. sp \in Specs
  <2>1. AnyRequest \in Requests
    BY MirrorAssumption DEF AnyRequest
  <2>2. CASE row[o] # NoRow
    <3>1. row[o] \in Rows
      BY <2>2, RowFacts DEF MirrorInv
    <3> QED
      BY <2>2, <3>1 DEF RowSpec, Rows, Specs
  <2>3. CASE row[o] = NoRow
    BY <2>1, <2>3 DEF Specs
  <2> QED
    BY <2>2, <2>3
<1>6. kn \in BOOLEAN /\ (kn => row[o] # NoRow /\ RowSpec(o) = sp)
    OBVIOUS
<1> HIDE DEF sp, kn
<1>7. n \in Calls
    BY <1>4, <1>5, <1>6 DEF Calls, Kinds
<1>8. /\ n.kind = kind /\ n.o = o /\ n.pc = "call" /\ n.floor = row[o].rev
      /\ n.known = kn /\ n.reply = "none" /\ n.behind = FALSE /\ n.spec = sp
    BY DEF Idle
<1> HIDE DEF n
<1>9. HandlerPart
  <2>1. CASE Set(h, n)
    BY <1>3, <1>4, <1>6, <1>7, <1>8, <2>1, Called DEF BeginControl
  <2>2. CASE Answer(h, n, "specConflict")
    BY <1>3, <1>8, <2>2, Answered DEF Replies, Kinds
  <2> QED
    BY <1>1, <2>1, <2>2
<1> QED
    BY <1>2, <1>3, <1>9, PartsTogether

(* A recovery of an Agent's active operations begins.                       *)
LEMMA BeginRecoverKeeps ==
    ASSUME MirrorInv, NEW h \in Handlers, NEW a \in Agents, BeginRecover(h, a)
    PROVE  MirrorInv'
<1> DEFINE sp == [agent |-> a, req |-> AnyRequest]
           n == [Idle EXCEPT !.kind = "recover", !.pc = "call", !.spec = sp]
<1>1. Set(h, n)
    BY DEF BeginRecover
<1>2. SeenPart /\ owned' \subseteq Agents
    BY DEF BeginRecover, SeenPart, MirrorInv, TypeOK
<1>3. BoundsKept /\ AgentPart /\ RowPart /\ Frame
    BY <1>2, Quiet DEF BeginRecover
<1>4. sp \in Specs
    BY MirrorAssumption DEF AnyRequest, Specs
<1>5. Idle \in Calls
    BY IdleTyped DEF MirrorInv
<1> HIDE DEF sp
<1>6. n \in Calls
    BY <1>4, <1>5 DEF Calls, Kinds
<1>7. /\ n.kind = "recover" /\ n.pc = "call" /\ n.o = Idle.o /\ n.floor = 0 /\ n.known = FALSE
      /\ n.reply = "none" /\ n.behind = FALSE
    BY DEF Idle
<1> HIDE DEF n
<1>8. Idle.o \in Ops
    BY <1>5 DEF Calls
<1>9. 0 <= row[Idle.o].rev
    BY <1>8, RowFacts, SMT DEF MirrorInv
<1>10. HandlerPart
    BY <1>1, <1>3, <1>6, <1>7, <1>9, Called DEF BeginRecover
<1> QED
    BY <1>2, <1>3, <1>10, PartsTogether

(* The newer of two revisions is one of them.                               *)
LEMMA MaxOfTwo ==
    ASSUME NEW x \in Nat, NEW y \in Nat
    PROVE  Max({x, y}) \in {x, y}
<1>1. \E m \in {x, y} : \A z \in {x, y} : m >= z
  <2>1. x >= y \/ y >= x
    BY SMT
  <2>2. x >= x /\ y >= y
    BY SMT
  <2> QED
    BY <2>1, <2>2
<1> QED
    BY <1>1 DEF Max

(* A handler that holds an answer of the Agent.                             *)
LEMMA Fetched ==
    ASSUME MirrorInv, Frame, row' = row, NEW h \in Handlers, NEW n \in Calls, Set(h, n),
           n.pc = "merge", n.reply = "none", ~n.behind, n.kind # "none",
           n.kind = "recover" => "recover" \in seen',
           n.known => row[n.o] # NoRow /\ RowSpec(n.o) = n.spec,
           \A p \in DOMAIN n.got : /\ Has(n.spec.agent, p)' /\ View(n.got[p]) = View(ag'[n.spec.agent][p])
                                   /\ StateOf(n.spec.agent, n.got[p]) \in past'[p],
           n.kind # "recover" => /\ DOMAIN n.got = {n.o}
                                 /\ n.floor <= row[n.o].rev \/ n.floor <= n.got[n.o].rev
                                 /\ n.known \/ n.got[n.o].req = n.spec.req
    PROVE  HandlerPart
<1>1. hs'[h] = n
    BY SMT DEF Set, MirrorInv, TypeOK
<1>2. HandlerSound(h)'
    BY <1>1 DEF HandlerSound, RowSpec, StateOf
<1>3. AnswerIsCurrent(h)' /\ NotRefused(h)
    BY <1>1 DEF AnswerIsCurrent, NotRefused, View, Has
<1> QED
    BY <1>2, <1>3, OneHandler

(* One answer about one operation.                                          *)
LEMMA OneAnswer ==
    ASSUME TypeOK, NEW o \in Ops, NEW r \in Answers
    PROVE  [p \in {o} |-> r] \in UNION {[D -> Answers] : D \in SUBSET Ops}
<1>1. [p \in {o} |-> r] \in [{o} -> Answers] /\ {o} \in SUBSET Ops
    OBVIOUS
<1> QED
    BY <1>1

(* A call that does not reach the Agent.                                    *)
LEMMA UnreachedKeeps ==
    ASSUME MirrorInv, NEW h \in Handlers, Unreached(h)
    PROVE  MirrorInv'
<1>1. SeenPart /\ owned' \subseteq Agents
    BY DEF Unreached, SeenPart, MirrorInv, TypeOK
<1>2. BoundsKept /\ AgentPart /\ RowPart /\ Frame
    BY <1>1, Quiet DEF Unreached
<1>3. HandlerPart
    BY <1>2, CallFacts, Answered DEF Unreached, Replies, MirrorInv, RecoverySeen
<1> QED
    BY <1>1, <1>2, <1>3, PartsTogether

(* An idle handler owes nothing.                                            *)
LEMMA IdleIsSound ==
    ASSUME NEW h \in Handlers, hs'[h] = Idle
    PROVE  HandlerSound(h)' /\ AnswerIsCurrent(h)' /\ NotRefused(h)
<1>1. Idle.pc = "idle" /\ Idle.kind = "none" /\ Idle.known = FALSE /\ Idle.reply = "none"
    BY DEF Idle
<1> QED
    BY <1>1 DEF HandlerSound, AnswerIsCurrent, NotRefused

(* The browser takes an answer.                                             *)
LEMMA TakeKeeps ==
    ASSUME MirrorInv, NEW h \in Handlers, Take(h)
    PROVE  MirrorInv'
<1>1. SeenPart /\ owned' \subseteq Agents
    BY DEF Take, SeenPart, MirrorInv, TypeOK
<1>2. BoundsKept /\ AgentPart /\ RowPart /\ Frame
    BY <1>1, Quiet DEF Take
<1>3. Idle \in Calls /\ Set(h, Idle)
    BY IdleTyped DEF Take, MirrorInv
<1>4. hs'[h] = Idle
    BY <1>3, SMT DEF Set, MirrorInv, TypeOK
<1>5. HandlerSound(h)' /\ AnswerIsCurrent(h)' /\ NotRefused(h)
    BY <1>4, IdleIsSound
<1>6. HandlerPart
    BY <1>2, <1>3, <1>5, OneHandler
<1> QED
    BY <1>1, <1>2, <1>6, PartsTogether

(* A handler in the middle of a call.                                       *)
LEMMA AtCall ==
    ASSUME MirrorInv, NEW h \in Handlers, hs[h].pc \in {"call", "fetch"}
    PROVE  /\ hs[h].reply = "none" /\ ~hs[h].behind /\ hs[h].floor <= row[hs[h].o].rev
           /\ hs[h].known => row[hs[h].o] # NoRow /\ RowSpec(hs[h].o) = hs[h].spec
BY DEF MirrorInv, HandlerSound

(* A record's revision is within the bounds.                                *)
LEMMA RevisionFacts ==
    ASSUME TypeOK, NEW x \in Records
    PROVE  x.rev \in 0 .. left.rev /\ x.rev <= x.rev /\ x.rev \in Nat
<1>1. x.rev \in 1 .. left.rev /\ left.rev \in Nat
    BY BoundFacts DEF Records
<1> QED
    BY <1>1, SMT

(* A handler that takes the record x for the Agent's answer.                *)
LEMMA AnswerTaken ==
    ASSUME MirrorInv, Frame, row' = row, NEW h \in Handlers, NEW s, s = hs[h],
           s.pc \in {"call", "fetch"}, s.kind \in {"dispatch", "get", "cancel"},
           NEW x \in Records, x = ag'[s.spec.agent][s.o], Has(s.spec.agent, s.o)',
           StateOf(s.spec.agent, x) \in past'[s.o], s.known \/ x.req = s.spec.req,
           Set(h, [s EXCEPT !.pc = "merge", !.floor = Max({@, x.rev}),
                            !.got = [p \in {s.o} |-> [req |-> x.req, rev |-> x.rev, st |-> x.st,
                                                      canc |-> x.canc, out |-> x.out]]])
    PROVE  HandlerPart
<1> DEFINE a == s.spec.agent
           o == s.o
           m == Max({s.floor, x.rev})
           ans == [req |-> x.req, rev |-> x.rev, st |-> x.st, canc |-> x.canc, out |-> x.out]
           g == [p \in {o} |-> ans]
           n == [s EXCEPT !.pc = "merge", !.floor = m, !.got = g]
<1>1. /\ s \in Calls /\ o \in Ops /\ s.floor \in Nat
      /\ s.reply = "none" /\ ~s.behind /\ s.floor <= row[o].rev
      /\ s.known => row[o] # NoRow /\ RowSpec(o) = s.spec
    BY AtCall, CallFacts DEF MirrorInv
<1>3. x.rev \in 0 .. left.rev /\ x.rev <= x.rev /\ x.rev \in Nat
    BY RevisionFacts DEF MirrorInv
<1>4. m \in 0 .. left.rev /\ (m <= row[o].rev \/ m <= x.rev)
  <2>1. m \in {s.floor, x.rev}
    BY <1>1, <1>3, MaxOfTwo
  <2>2. s.floor \in 0 .. left.rev
    BY <1>1 DEF Calls
  <2> QED
    BY <1>1, <1>3, <2>1, <2>2
<1>5. ans \in Answers
    BY DEF Records, Answers
<1>6. ans.rev = x.rev /\ ans.req = x.req /\ View(ans) = View(x) /\ StateOf(a, ans) = StateOf(a, x)
    BY DEF View, StateOf
<1>7. Set(h, n)
    OBVIOUS
<1> HIDE DEF ans, m
<1>8. g \in UNION {[D -> Answers] : D \in SUBSET Ops} /\ DOMAIN g = {o} /\ g[o] = ans
    BY <1>1, <1>5, OneAnswer DEF MirrorInv
<1> HIDE DEF g
<1>9. n \in Calls
    BY <1>1, <1>4, <1>8 DEF Calls
<1>10. /\ n.pc = "merge" /\ n.got = g /\ n.floor = m /\ n.kind = s.kind /\ n.o = o /\ n.spec = s.spec
       /\ n.known = s.known /\ n.reply = "none" /\ ~n.behind
    BY <1>1 DEF Calls
<1> HIDE DEF n
<1>11. Has(a, o)' /\ View(g[o]) = View(ag'[a][o]) /\ StateOf(a, g[o]) \in past'[o]
    BY <1>6, <1>8
<1>12. \A p \in DOMAIN n.got : /\ Has(n.spec.agent, p)' /\ View(n.got[p]) = View(ag'[n.spec.agent][p])
                               /\ StateOf(n.spec.agent, n.got[p]) \in past'[p]
    BY <1>8, <1>10, <1>11
<1>13. /\ DOMAIN n.got = {n.o}
       /\ n.floor <= row[n.o].rev \/ n.floor <= n.got[n.o].rev
       /\ n.known \/ n.got[n.o].req = n.spec.req
    BY <1>4, <1>6, <1>8, <1>10, ZenonT(40)
<1>14. n.kind # "none" /\ (n.known => row[n.o] # NoRow /\ RowSpec(n.o) = n.spec)
    BY <1>1, <1>10
<1> QED
    BY <1>7, <1>9, <1>10, <1>12, <1>13, <1>14, Fetched

(* The Agent answers a lookup.                                              *)
LEMMA CallFetchKeeps ==
    ASSUME MirrorInv, NEW h \in Handlers, CallFetch(h)
    PROVE  MirrorInv'
<1>s. PICK s : s = hs[h]
    OBVIOUS
<1> DEFINE a == s.spec.agent
           o == s.o
<1>x. PICK x : x = ag[a][o]
    OBVIOUS
<1>1. SeenPart /\ owned' \subseteq Agents
    BY DEF CallFetch, SeenPart, MirrorInv, TypeOK
<1>2. BoundsKept /\ AgentPart /\ RowPart /\ Frame
    BY <1>1, Quiet DEF CallFetch
<1>3. s.pc \in {"call", "fetch"} /\ s.kind \in {"get", "cancel"} /\ row' = row /\ ag' = ag /\ past' = past
    BY <1>s DEF CallFetch
<1>4. o \in Ops /\ a \in Agents /\ s.behind \in BOOLEAN
    BY <1>s, CallFacts DEF MirrorInv
<1>5. HandlerPart
  <2>1. CASE Answer(h, s, "notFound") \/ Answer(h, s, "unavailable") \/ Answer(h, s, "noRequest")
    BY <1>2, <1>3, <1>4, <2>1, Answered DEF Replies, Kinds
  <2>2. CASE /\ Has(a, o) /\ s.known
             /\ Set(h, [s EXCEPT !.pc = "merge", !.got = [p \in {o} |-> Response(a, o)],
                                 !.floor = Max({@, ag[a][o].rev})])
    <3>1. x \in Records /\ StateOf(a, x) \in past'[o] /\ Has(a, o)' /\ x = ag'[a][o]
      BY <1>x, <1>3, <1>4, <2>2, RecordFacts DEF MirrorInv, RecordSound, Has
    <3>2. Set(h, [s EXCEPT !.pc = "merge", !.floor = Max({@, x.rev}),
                           !.got = [p \in {o} |-> [req |-> x.req, rev |-> x.rev, st |-> x.st,
                                                   canc |-> x.canc, out |-> x.out]]])
      BY <1>x, <2>2 DEF Response
    <3> QED
      BY <1>s, <1>2, <1>3, <2>2, <3>1, <3>2, AnswerTaken, ZenonT(40)
  <2> QED
    BY <1>s, <2>1, <2>2 DEF CallFetch
<1> QED
    BY <1>1, <1>2, <1>5, PartsTogether

(* The Agent answers a dispatch: with a new record, with the one it has, or *)
(* not at all.                                                              *)
LEMMA CallDispatchKeeps ==
    ASSUME MirrorInv, NEW h \in Handlers, CallDispatch(h)
    PROVE  MirrorInv'
<1>s. PICK s : s = hs[h]
    OBVIOUS
<1> DEFINE a == s.spec.agent
           o == s.o
           new == [req |-> s.spec.req, rev |-> 1, st |-> "running", canc |-> FALSE, out |-> 0, disk |-> 0]
<1>1. /\ s.pc = "call" /\ s.kind = "dispatch" /\ row' = row /\ left' = left /\ SeenPart
      /\ owned' \subseteq Agents
    BY <1>s DEF CallDispatch, SeenPart, MirrorInv, TypeOK
<1>2. BoundsKept
    BY <1>1 DEF BoundsKept, MirrorInv, TypeOK
<1>3. RowPart /\ RowForward
    BY <1>1, <1>2, RowsIdle
<1>4. o \in Ops /\ a \in Agents /\ s.behind \in BOOLEAN /\ s.spec.req \in Requests
    BY <1>s, CallFacts DEF MirrorInv
<1>5. CASE UNCHANGED <<ag, past>> /\ Answer(h, s, "unavailable")
  <2>1. AgentPart
    BY <1>2, <1>5, AgentIdle
  <2>2. Frame
    BY <1>1, <1>2, <1>3, <2>1 DEF Frame, AgentPart, RowPart
  <2>3. HandlerPart
    BY <1>1, <1>4, <1>5, <2>2, Answered DEF Replies, Kinds
  <2> QED
    BY <1>1, <1>2, <1>3, <2>1, <2>3, PartsTogether
<1>6. CASE ~(Has(a, o) /\ ag[a][o].req # s.spec.req)
  <2>1. PICK x : x = IF Has(a, o) THEN ag[a][o] ELSE new
    OBVIOUS
  <2>2. x \in Records /\ x.req = s.spec.req /\ (x.st \notin Final => x.rev < left.rev)
        /\ (Has(a, o) => Forward(ag[a][o], x))
    <3>1. CASE Has(a, o)
      <4>1. x = ag[a][o] /\ x \in Records /\ x.rev \in Nat /\ RecordSound(a, o)
        BY <1>4, <2>1, <3>1, RecordFacts DEF MirrorInv
      <4>2. x.rev <= x.rev
        BY <4>1, SMT
      <4> QED
        BY <1>6, <3>1, <4>1, <4>2 DEF Forward, RecordSound
    <3>2. CASE ~Has(a, o)
      <4>1. 1 \in 1 .. left.rev /\ 0 \in 0 .. left.out /\ 1 < left.rev
        <5>1. left.rev \in Nat \ {0, 1} /\ left.out \in Nat
          BY BoundFacts DEF MirrorInv
        <5> QED
          BY <5>1, SMT
      <4>2. new \in Records
        BY <1>4, <4>1 DEF Records, Status
      <4> QED
        BY <2>1, <3>2, <4>1, <4>2
    <3> QED
      BY <3>1, <3>2
  <2>3. Put(a, o, x)
    BY <1>s, <1>6, <2>1 DEF CallDispatch
  <2>4. AgentPart /\ ag'[a][o] = x /\ Has(a, o)' /\ StateOf(a, x) \in past'[o]
    BY <1>2, <1>4, <2>2, <2>3, OneRecord, ZenonT(40)
  <2>5. Frame
    BY <1>1, <1>2, <1>3, <2>4 DEF Frame, AgentPart, RowPart
  <2>6. HandlerPart
    <3>1. CASE Answer(h, s, "unavailable")
      BY <1>1, <1>4, <2>5, <3>1, Answered DEF Replies, Kinds
    <3>2. CASE Set(h, [s EXCEPT !.pc = "merge", !.floor = Max({@, x.rev}),
                                !.got = [p \in {o} |-> [req |-> x.req, rev |-> x.rev, st |-> x.st,
                                                        canc |-> x.canc, out |-> x.out]]])
      BY <1>s, <1>1, <2>2, <2>4, <2>5, <3>2, AnswerTaken
    <3> QED
      BY <1>s, <1>6, <2>1, <3>1, <3>2 DEF CallDispatch
  <2> QED
    BY <1>1, <1>2, <1>3, <2>4, <2>6, PartsTogether
<1> QED
    BY <1>s, <1>5, <1>6 DEF CallDispatch

(* The Agent takes a cancellation.                                          *)
LEMMA CallCancelKeeps ==
    ASSUME MirrorInv, NEW h \in Handlers, CallCancel(h)
    PROVE  MirrorInv'
<1>s. PICK s : s = hs[h]
    OBVIOUS
<1> DEFINE a == s.spec.agent
           o == s.o
           n == [s EXCEPT !.pc = "fetch"]
<1>x. PICK x : x = ag[a][o]
    OBVIOUS
<1> DEFINE r == [x EXCEPT !.canc = TRUE, !.rev = @ + 1]
<1>1. /\ s.pc = "call" /\ s.kind = "cancel" /\ row' = row /\ left' = left /\ SeenPart
      /\ owned' \subseteq Agents
    BY <1>s DEF CallCancel, SeenPart, MirrorInv, TypeOK
<1>2. BoundsKept
    BY <1>1 DEF BoundsKept, MirrorInv, TypeOK
<1>3. RowPart /\ RowForward
    BY <1>1, <1>2, RowsIdle
<1>4. /\ s \in Calls /\ o \in Ops /\ a \in Agents /\ s.behind \in BOOLEAN
      /\ s.reply = "none" /\ ~s.behind /\ s.floor <= row[o].rev
      /\ s.known => row[o] # NoRow /\ RowSpec(o) = s.spec
    BY <1>s, <1>1, AtCall, CallFacts DEF MirrorInv
<1>5. AgentPart
  <2>1. CASE UNCHANGED <<ag, past>>
    BY <1>2, <2>1, AgentIdle
  <2>2. CASE Active(a, o) /\ x.rev < left.rev - 1 /\ Put(a, o, r)
    <3>1. x \in Records /\ x.st \notin Final /\ x.rev \in Nat /\ x.rev + 1 \in 1 .. left.rev /\ x.rev + 1 < left.rev
      BY <1>x, <1>4, <2>2, ActiveFacts
    <3>2. x.rev <= x.rev + 1 /\ x.rev # x.rev + 1
      BY <3>1, SMT
    <3>3. r \in Records /\ r.rev = x.rev + 1 /\ r.st = x.st
      BY <3>1 DEF Records
    <3> HIDE DEF r
    <3>4. Forward(x, r)
      BY <3>1, <3>2, <3>3 DEF Forward
    <3> QED
      BY <1>x, <1>2, <1>4, <2>2, <3>1, <3>3, <3>4, OneRecord
  <2>3. UNCHANGED <<ag, past>> \/ (Active(a, o) /\ x.rev < left.rev - 1 /\ Put(a, o, r))
    BY <1>s, <1>x DEF CallCancel
  <2> QED
    BY <2>1, <2>2, <2>3
<1>6. Frame
    BY <1>1, <1>2, <1>3, <1>5 DEF Frame, AgentPart, RowPart
<1>7. HandlerPart
  <2>1. CASE Answer(h, s, "notFound")
    BY <1>1, <1>4, <1>6, <2>1, Answered DEF Replies, Kinds
  <2>2. CASE Set(h, n)
    <3>1. n \in Calls
      BY <1>4 DEF Calls
    <3>2. /\ n.pc = "fetch" /\ n.kind = s.kind /\ n.o = o /\ n.spec = s.spec /\ n.known = s.known
          /\ n.reply = "none" /\ ~n.behind /\ n.floor = s.floor
      BY <1>4 DEF Calls
    <3> HIDE DEF n
    <3> QED
      BY <1>1, <1>4, <1>6, <2>2, <3>1, <3>2, Called
  <2> QED
    BY <1>s, <2>1, <2>2 DEF CallCancel
<1> QED
    BY <1>1, <1>2, <1>3, <1>5, <1>7, PartsTogether

(* The Agent lists its active operations.                                   *)
LEMMA CallRecoverKeeps ==
    ASSUME MirrorInv, NEW h \in Handlers, CallRecover(h)
    PROVE  MirrorInv'
<1>s. PICK s : s = hs[h]
    OBVIOUS
<1> DEFINE a == s.spec.agent
           n(g) == [s EXCEPT !.pc = "merge", !.got = g]
<1>g. PICK g : g = [o \in {p \in Ops : Active(a, p)} |-> Response(a, o)]
    OBVIOUS
<1>1. SeenPart /\ owned' \subseteq Agents
    BY DEF CallRecover, SeenPart, MirrorInv, TypeOK
<1>2. BoundsKept /\ AgentPart /\ RowPart /\ Frame
    BY <1>1, Quiet DEF CallRecover
<1>3. s.pc = "call" /\ s.kind = "recover" /\ row' = row /\ ag' = ag /\ past' = past /\ Set(h, n(g))
    BY <1>s, <1>g DEF CallRecover
<1>4. /\ s \in Calls /\ a \in Agents /\ s.reply = "none" /\ ~s.behind
      /\ s.known => row[s.o] # NoRow /\ RowSpec(s.o) = s.spec
    BY <1>s, <1>3, AtCall, CallFacts DEF MirrorInv
<1>5. \A p \in DOMAIN g : p \in Ops /\ Active(a, p) /\ g[p] = Response(a, p)
    BY <1>g
<1>6. \A p \in DOMAIN g : /\ p \in Ops /\ g[p] \in Answers /\ Has(a, p)
                          /\ View(g[p]) = View(ag[a][p]) /\ StateOf(a, g[p]) \in past[p]
  <2> SUFFICES ASSUME NEW p \in DOMAIN g
               PROVE  /\ p \in Ops /\ g[p] \in Answers /\ Has(a, p)
                      /\ View(g[p]) = View(ag[a][p]) /\ StateOf(a, g[p]) \in past[p]
      OBVIOUS
  <2>1. p \in Ops /\ Has(a, p) /\ g[p] = Response(a, p) /\ RecordSound(a, p)
    BY <1>4, <1>5 DEF Active, MirrorInv
  <2>2. ag[a][p] \in Records
    BY <1>4, <2>1, RecordFacts DEF MirrorInv
  <2>3. Response(a, p) \in Answers
    BY <2>2 DEF Records, Answers, Response
  <2>4. View(Response(a, p)) = View(ag[a][p]) /\ StateOf(a, Response(a, p)) = StateOf(a, ag[a][p])
    BY DEF View, StateOf, Response
  <2> QED
    BY <2>1, <2>3, <2>4 DEF RecordSound
<1>7. g \in UNION {[D -> Answers] : D \in SUBSET Ops}
  <2>1. g \in [DOMAIN g -> Answers]
    BY <1>g, <1>6
  <2>2. DOMAIN g \in SUBSET Ops
    BY <1>g
  <2> QED
    BY <2>1, <2>2
<1>8. n(g) \in Calls
    BY <1>4, <1>7 DEF Calls
<1>9. /\ n(g).pc = "merge" /\ n(g).got = g /\ n(g).kind = "recover" /\ n(g).o = s.o /\ n(g).spec = s.spec
      /\ n(g).known = s.known /\ n(g).reply = "none" /\ ~n(g).behind
    BY <1>3, <1>4 DEF Calls
<1> HIDE DEF n
<1>10. PICK m : m = n(g)
    OBVIOUS
<1>11. \A p \in DOMAIN m.got : /\ Has(m.spec.agent, p)' /\ View(m.got[p]) = View(ag'[m.spec.agent][p])
                               /\ StateOf(m.spec.agent, m.got[p]) \in past'[p]
    BY <1>3, <1>6, <1>9, <1>10 DEF Has
<1>12. "recover" \in seen'
    BY <1>s, <1>3 DEF CallRecover, MirrorInv, RecoverySeen
<1>13. HandlerPart
    BY <1>2, <1>3, <1>4, <1>8, <1>9, <1>10, <1>11, <1>12, Fetched
<1> QED
    BY <1>1, <1>2, <1>13, PartsTogether

-----------------------------------------------------------------------------
(* The merges                                                               *)

(* An answer being merged.                                                  *)
LEMMA AtMerge ==
    ASSUME MirrorInv, NEW h \in Handlers, NEW s, s = hs[h], s.pc = "merge", NEW o \in DOMAIN s.got
    PROVE  /\ o \in Ops /\ s.got[o] \in Answers /\ s.got[o].rev \in Nat /\ s.spec.agent \in Agents
           /\ s.spec.req \in Requests /\ s.got[o].req \in Requests
           /\ View(s.got[o]) \in Snaps(s.spec.agent, o)
<1>1. /\ o \in Ops /\ s.got[o] \in Answers /\ s.got[o].rev \in Nat /\ s.spec.agent \in Agents
      /\ s.spec.req \in Requests
    BY CallFacts DEF MirrorInv
<1>2. s.got[o].req \in Requests
    BY <1>1 DEF Answers
<1> QED
    BY <1>1, <1>2, SnapIntro

(* The row stored when an answer about the operation is merged.             *)
LEMMA UpsertedFacts ==
    ASSUME MirrorInv, NEW o \in Ops, NEW s \in Specs, NEW r \in Answers
    PROVE  /\ Upserted(o, s, r) \in Rows
           /\ row[o].rev <= Upserted(o, s, r).rev
           /\ Upserted(o, s, r) = row[o] /\ RowSpec(o) = s => r.rev <= row[o].rev
           /\ Upserted(o, s, r) # row[o] =>
                 /\ Upserted(o, s, r) = Merged(o, s, r)
                 /\ row[o] = NoRow \/ (RowSpec(o) = s /\ row[o].rev < r.rev)
<1> DEFINE c == Upserted(o, s, r)
           d == Merged(o, s, r)
<1>1. /\ row[o].rev \in Nat /\ (row[o] = NoRow => row[o].rev = 0)
      /\ (row[o] # NoRow => row[o] \in Rows)
    BY RowFacts DEF MirrorInv
<1>2. r.rev \in 1 .. left.rev /\ left.rev \in Nat
    BY BoundFacts DEF Answers, MirrorInv
<1>3. d \in Rows /\ d.rev = r.rev
  <2>1. s.agent \in Agents /\ s.req \in Requests
    BY DEF Specs
  <2>2. (row[o] = NoRow \/ row[o].requested) \in BOOLEAN
    BY <1>1 DEF Rows
  <2> QED
    BY <2>1, <2>2 DEF Merged, Rows, Answers
<1>4. CASE row[o] = NoRow \/ (RowSpec(o) = s /\ row[o].rev < r.rev)
  <2>1. c = d
    BY <1>4 DEF Upserted
  <2> HIDE DEF c, d
  <2>2. row[o].rev < r.rev
    BY <1>1, <1>2, <1>4, SMT
  <2>3. row[o].rev <= d.rev /\ row[o].rev # d.rev
    BY <1>1, <1>2, <1>3, <2>2, SMT
  <2> QED
    BY <1>3, <1>4, <2>1, <2>3 DEF c, d
<1>5. CASE ~(row[o] = NoRow \/ (RowSpec(o) = s /\ row[o].rev < r.rev))
  <2>1. c = row[o] /\ row[o] \in Rows
    BY <1>1, <1>5 DEF Upserted
  <2>2. row[o].rev <= row[o].rev /\ (RowSpec(o) = s => r.rev <= row[o].rev)
    <3>1. row[o].rev <= row[o].rev
      BY <1>1, SMT
    <3>2. ~(row[o].rev < r.rev) => r.rev <= row[o].rev
      BY <1>1, <1>2, SMT
    <3> QED
      BY <1>5, <3>1, <3>2
  <2> QED
    BY <2>1, <2>2
<1> QED
    BY <1>4, <1>5

(* An answer of an Agent, merged.                                           *)
LEMMA MergeOneKeeps ==
    ASSUME MirrorInv, NEW h \in Handlers, MergeOne(h)
    PROVE  MirrorInv' /\ \A p \in Ops : RowFrom(p)
<1>s. PICK s : s = hs[h]
    OBVIOUS
<1> DEFINE o == s.o
           r == s.got[o]
<1>c. PICK c : c = Upserted(o, s.spec, r)
    OBVIOUS
<1>d. PICK d : d = Merged(o, s.spec, r)
    OBVIOUS
<1> DEFINE v == Verdict(c, s.spec, r)
<1>1. /\ s.pc = "merge" /\ s.kind # "recover" /\ left' = left /\ seen' = seen /\ SeenPart
      /\ owned' \subseteq Agents /\ UNCHANGED <<ag, past>>
    BY <1>s DEF MergeOne, SeenPart, MirrorInv, TypeOK
<1>2. BoundsKept
    BY <1>1 DEF BoundsKept, MirrorInv, TypeOK
<1>3. AgentPart
    BY <1>1, <1>2, AgentIdle
<1>4. /\ s \in Calls /\ s.spec \in Specs /\ s.kind \in Kinds \cup {"none"} /\ s.floor \in Nat /\ s.o \in Ops
      /\ ~s.behind /\ DOMAIN s.got = {o} /\ (s.floor <= row[o].rev \/ s.floor <= r.rev)
      /\ (s.known \/ r.req = s.spec.req) /\ (s.known => row[o] # NoRow)
    BY <1>s, <1>1, CallFacts DEF MirrorInv, HandlerSound
<1>5. o \in Ops /\ r \in Answers /\ r.rev \in Nat /\ View(r) \in Snaps(s.spec.agent, o)
    BY <1>s, <1>1, <1>4, AtMerge
<1>6. /\ c \in Rows /\ row[o].rev <= c.rev /\ (c = row[o] /\ RowSpec(o) = s.spec => r.rev <= row[o].rev)
      /\ c # row[o] => c = d /\ (row[o] = NoRow \/ (RowSpec(o) = s.spec /\ row[o].rev < r.rev))
    BY <1>c, <1>d, <1>4, <1>5, UpsertedFacts
<1>7. /\ d.agent = s.spec.agent /\ d.req = s.spec.req /\ d.mode /\ (row[o] = NoRow \/ row[o].requested => d.requested)
      /\ View(d) = View(r) /\ d.rev = r.rev
    BY <1>d DEF Merged, View
<1>8. c # NoRow
    BY <1>6, BoundFacts, SMT DEF Rows, NoRow, MirrorInv
<1>9. /\ row' \in [Ops -> Rows \cup {NoRow}] /\ row'[o] = c
      /\ \A p \in Ops : p # o => row'[p] = row[p]
  <2>1. row \in [Ops -> Rows \cup {NoRow}] /\ row' = [row EXCEPT ![o] = c]
    BY <1>s, <1>c DEF MergeOne, MirrorInv, TypeOK
  <2> QED
    BY <1>4, <1>6, <2>1
<1>10. RowSpec(o) = s.spec => row[o].agent = s.spec.agent /\ row[o].req = s.spec.req
  <2>1. RowSpec(o).agent = row[o].agent /\ RowSpec(o).req = row[o].req
    BY DEF RowSpec
  <2> QED
    BY <2>1
<1>11. \A p \in Ops : RowFrom(p)
  <2>1. CASE c = row[o]
    BY <1>9, <2>1 DEF RowFrom
  <2>2. CASE c # row[o]
    <3>1. c = d /\ (row[o] = NoRow => ~s.known)
      BY <1>4, <1>6, <2>2
    <3>2. LearnsFrom(o, h)
      BY <1>s, <1>1, <1>4, <1>6, <1>7, <1>8, <1>9, <1>10, <2>2, <3>1, ZenonT(40) DEF LearnsFrom
    <3> QED
      BY <1>9, <3>2 DEF RowFrom
  <2> QED
    BY <2>1, <2>2
<1>12. RowForward
  <2>1. \A p \in Ops : row[p].rev <= row[p].rev
    BY RowFacts, SMT DEF MirrorInv
  <2>2. row[o] # NoRow => c.agent = row[o].agent /\ c.req = row[o].req
    BY <1>6, <1>7, <1>10
  <2> QED
    BY <1>6, <1>8, <1>9, <2>1, <2>2 DEF RowForward, RowSpec
<1>13. RowsComplete'
  <2>1. ASSUME seen = {}
        PROVE  c.mode /\ c.requested
    <3>1. row[o] # NoRow => row[o].mode /\ row[o].requested
      BY <1>4, <2>1 DEF MirrorInv, RowsComplete
    <3>2. CASE c = row[o]
      BY <1>8, <3>1, <3>2
    <3>3. CASE c # row[o]
      BY <1>6, <1>7, <3>1, <3>3
    <3> QED
      BY <3>2, <3>3
  <2> QED
    BY <1>1, <1>9, <2>1 DEF MirrorInv, RowsComplete
<1>14. RowPart /\ Frame
    BY <1>1, <1>2, <1>3, <1>9, <1>11, <1>12, <1>13, SameTypes DEF RowPart, Frame, AgentPart
<1>15. v = "ok" => ~(c.rev < s.floor)
  <2> SUFFICES ASSUME c.agent = s.spec.agent, c.req = s.spec.req
               PROVE  ~(c.rev < s.floor)
      BY DEF Verdict
  <2>1. r.rev <= c.rev
    <3>1. CASE c = row[o]
      <4>1. s.spec = [agent |-> s.spec.agent, req |-> s.spec.req]
        BY <1>4 DEF Specs
      <4> QED
        BY <1>6, <3>1, <4>1 DEF RowSpec
    <3>2. CASE c # row[o]
      <4>1. c.rev = r.rev
        BY <1>6, <1>7, <3>2
      <4> QED
        BY <1>5, <4>1, SMT
    <3> QED
      BY <3>1, <3>2
  <2>2. c.rev \in Nat
    BY <1>6, BoundFacts, SMT DEF Rows, MirrorInv
  <2>3. row[o].rev \in Nat
    BY <1>4, RowFacts DEF MirrorInv
  <2> QED
    BY <1>4, <1>5, <1>6, <2>1, <2>2, <2>3, SMT
<1>16. v = "stateConflict" => seen # {}
  <2> SUFFICES ASSUME seen = {}, c.agent = s.spec.agent, c.rev = r.rev,
                      ~SameState(c, r) \/ (c.st \in Final /\ c.out # r.out)
               PROVE  FALSE
      BY DEF Verdict
  <2>1. View(c) = View(r) \/ View(c) \in Snaps(s.spec.agent, o)
    <3>1. CASE c = row[o]
      BY <1>4, <1>8, <3>1, SnapIntro DEF Specs
    <3>2. CASE c # row[o]
      BY <1>6, <1>7, <3>2
    <3> QED
      BY <3>1, <3>2
  <2>2. Same(View(c), View(r))
    <3>1. CASE View(c) = View(r)
      BY <3>1 DEF Same
    <3>2. CASE View(c) \in Snaps(s.spec.agent, o)
      BY <1>4, <1>5, <3>2 DEF MirrorInv, Agreed, Specs
    <3> QED
      BY <2>1, <3>1, <3>2
  <2>3. c.st = r.st /\ c.canc = r.canc /\ (c.st \in Final => c.out = r.out)
    BY <2>2 DEF Same, View
  <2>4. c.mode /\ c.requested
    BY <1>1, <1>8, <1>9, <1>13, <1>4 DEF RowsComplete
  <2> QED
    BY <2>3, <2>4 DEF SameState
<1>17. v \in Replies
    BY DEF Verdict, Replies
<1>18. HandlerPart
  <2> DEFINE late == c.rev < s.floor
             n == [s EXCEPT !.behind = late]
  <2>0. late \in BOOLEAN /\ (v = "ok" => ~late)
    <3>1. late \in BOOLEAN
      BY SMT
    <3> QED
      BY <1>15, <3>1
  <2> HIDE DEF late
  <2>1. n.kind = s.kind /\ n.behind = late
    BY <1>4 DEF Calls
  <2> HIDE DEF n
  <2>2. CASE Answer(h, n, v)
    <3> HIDE DEF v
    <3> QED
      BY <1>1, <1>4, <1>14, <1>16, <1>17, <2>0, <2>1, <2>2, Answered
  <2>3. CASE Answer(h, s, "syncFailed")
    <3>1. s.behind \in BOOLEAN
      BY <1>4 DEF Calls
    <3> QED
      BY <1>1, <1>4, <1>14, <2>3, <3>1, Answered DEF Replies
  <2>4. Answer(h, n, v) \/ Answer(h, s, "syncFailed")
    BY <1>s, <1>c DEF MergeOne, n, late
  <2> QED
    BY <2>2, <2>3, <2>4
<1> QED
    BY <1>1, <1>2, <1>3, <1>11, <1>14, <1>18, PartsTogether

(* What a recovery that is not refused finds: no row, or one of the same    *)
(* Agent and request.                                                       *)
LEMMA NotRefusedFacts ==
    ASSUME NEW o \in Ops, NEW a \in Agents, NEW r, Refusal(o, a, r) = "none", row[o] # NoRow
    PROVE  row[o].agent = a /\ row[o].req = r.req
<1>1. RowSpec(o) = [agent |-> a, req |-> r.req]
    BY DEF Refusal
<1>2. RowSpec(o).agent = row[o].agent /\ RowSpec(o).req = row[o].req
    BY DEF RowSpec
<1>3. RowSpec(o).agent = a /\ RowSpec(o).req = r.req
    BY <1>1, SMT
<1> QED
    BY <1>2, <1>3

(* Every reason to refuse is an answer.                                     *)
LEMMA RefusalIsReply ==
    ASSUME NEW o, NEW a, NEW r, Refusal(o, a, r) # "none"
    PROVE  Refusal(o, a, r) \in Replies /\ Refusal(o, a, r) # "ok"
BY DEF Refusal, Replies

(* An Agent's list of active operations, merged.                            *)
LEMMA MergeRecoveredKeeps ==
    ASSUME MirrorInv, NEW h \in Handlers, MergeRecovered(h)
    PROVE  MirrorInv' /\ \A p \in Ops : RowFrom(p)
<1>s. PICK s : s = hs[h]
    OBVIOUS
<1> DEFINE a == s.spec.agent
           got == s.got
           bad == {o \in DOMAIN got : Refusal(o, a, got[o]) # "none"}
           c(o) == RecoveredRow(o, [agent |-> a, req |-> got[o].req], got[o])
<1>1. /\ s.pc = "merge" /\ s.kind = "recover" /\ left' = left /\ seen' = seen /\ SeenPart
      /\ owned' \subseteq Agents /\ UNCHANGED <<ag, past>>
    BY <1>s DEF MergeRecovered, SeenPart, MirrorInv, TypeOK
<1>2. BoundsKept
    BY <1>1 DEF BoundsKept, MirrorInv, TypeOK
<1>3. AgentPart
    BY <1>1, <1>2, AgentIdle
<1>4. s.behind \in BOOLEAN /\ ~s.behind /\ a \in Agents /\ "recover" \in seen
    BY <1>s, <1>1, CallFacts DEF MirrorInv, HandlerSound, RecoverySeen
<1>5. CASE bad # {}
  <2>1. row' = row /\ \E o \in bad : Answer(h, s, Refusal(o, a, got[o]))
    BY <1>s, <1>5 DEF MergeRecovered
  <2>2. RowPart /\ RowForward
    BY <1>1, <1>2, <2>1, RowsIdle
  <2>3. Frame
    BY <1>1, <1>2, <1>3, <2>2 DEF Frame, AgentPart, RowPart
  <2>4. PICK o \in bad : Answer(h, s, Refusal(o, a, got[o]))
    BY <2>1
  <2>5. Refusal(o, a, got[o]) \in Replies /\ Refusal(o, a, got[o]) # "ok"
    BY RefusalIsReply
  <2>6. HandlerPart
    BY <1>1, <1>4, <2>3, <2>4, <2>5, Answered DEF Kinds
  <2> QED
    BY <1>1, <1>2, <1>3, <2>2, <2>6, PartsTogether DEF RowPart
<1>6. CASE bad = {}
  <2>1. /\ row' = [o \in Ops |-> IF o \in DOMAIN got /\ row[o].rev < got[o].rev THEN c(o) ELSE row[o]]
        /\ Answer(h, s, "ok")
    BY <1>s, <1>6 DEF MergeRecovered
  <2>2. row \in [Ops -> Rows \cup {NoRow}]
    BY DEF MirrorInv, TypeOK
  <2>3. \A o \in Ops : row'[o] = IF o \in DOMAIN got /\ row[o].rev < got[o].rev THEN c(o) ELSE row[o]
    BY <2>1
  <2>4. \A o \in DOMAIN got :
           /\ o \in Ops /\ c(o) \in Rows /\ c(o).rev = got[o].rev /\ c(o) # NoRow
           /\ c(o).agent = a /\ c(o).req = got[o].req /\ View(c(o)) = View(got[o])
    <3> TAKE o \in DOMAIN got
    <3>1. o \in Ops /\ got[o] \in Answers
      BY <1>s, <1>1, AtMerge
    <3>2. row[o] # NoRow => row[o] \in Rows
      BY <3>1, RowFacts DEF MirrorInv
    <3>3. (row[o] # NoRow /\ row[o].requested) \in BOOLEAN
      BY <3>2 DEF Rows
    <3>4. c(o) \in Rows
      BY <1>4, <3>1, <3>3 DEF RecoveredRow, Rows, Answers
    <3>5. c(o).rev = got[o].rev /\ c(o).agent = a /\ c(o).req = got[o].req /\ View(c(o)) = View(got[o])
      BY DEF RecoveredRow, View
    <3> HIDE DEF c
    <3>6. c(o) # NoRow
      <4>1. c(o).rev \in 1 .. left.rev
        BY <3>4 DEF Rows
      <4>2. left.rev \in Nat
        BY BoundFacts DEF MirrorInv
      <4> QED
        BY <4>1, <4>2, SMT DEF NoRow
    <3> QED
      BY <3>1, <3>4, <3>5, <3>6
  <2> HIDE DEF c
  <2>5. row' \in [Ops -> Rows \cup {NoRow}]
    <3>1. \A o \in Ops : row'[o] \in Rows \cup {NoRow}
      BY <2>2, <2>3, <2>4
    <3> QED
      BY <2>1, <3>1
  <2>6. \A o \in DOMAIN got : row[o] # NoRow => row[o].agent = a /\ row[o].req = got[o].req
    <3>1. \A o \in DOMAIN got : o \in Ops /\ Refusal(o, a, got[o]) = "none"
      BY <1>6, <2>4
    <3> SUFFICES ASSUME NEW o \in DOMAIN got, row[o] # NoRow
                 PROVE  row[o].agent = a /\ row[o].req = got[o].req
        OBVIOUS
    <3>2. o \in Ops /\ Refusal(o, a, got[o]) = "none" /\ a \in Agents
      BY <1>4, <3>1
    <3> HIDE DEF a, got
    <3> QED
      BY <3>2, NotRefusedFacts, ZenonT(40)
  <2>7. \A o \in Ops : RowFrom(o)
    <3> TAKE o \in Ops
    <3>1. CASE o \in DOMAIN got /\ row[o].rev < got[o].rev
      <4>1. row'[o] = c(o)
        BY <2>3, <3>1
      <4>2. LearnsFrom(o, h)
        BY <1>s, <1>1, <2>4, <2>6, <3>1, <4>1, ZenonT(40) DEF LearnsFrom
      <4> QED
        BY <4>2 DEF RowFrom
    <3>2. CASE ~(o \in DOMAIN got /\ row[o].rev < got[o].rev)
      BY <2>3, <3>2 DEF RowFrom
    <3> QED
      BY <3>1, <3>2
  <2>8. RowForward
    <3> SUFFICES ASSUME NEW o \in Ops
                 PROVE  /\ row[o].rev <= row'[o].rev
                        /\ row[o] # NoRow => row'[o] # NoRow /\ row'[o].agent = row[o].agent /\ row'[o].req = row[o].req
        BY DEF RowForward, RowSpec
    <3>1. row[o].rev \in Nat
      BY RowFacts DEF MirrorInv
    <3>2. CASE o \in DOMAIN got /\ row[o].rev < got[o].rev
      <4>1. row'[o] = c(o) /\ got[o].rev \in Nat
        BY <1>s, <1>1, <2>3, <3>2, AtMerge
      <4>2. row[o].rev <= got[o].rev
        BY <3>1, <3>2, <4>1, SMT
      <4> QED
        BY <2>4, <2>6, <3>2, <4>1, <4>2
    <3>3. CASE ~(o \in DOMAIN got /\ row[o].rev < got[o].rev)
      <4>1. row'[o] = row[o]
        BY <2>3, <3>3
      <4>2. row[o].rev <= row[o].rev
        BY <3>1, SMT
      <4> QED
        BY <4>1, <4>2
    <3> QED
      BY <3>2, <3>3
  <2>9. RowPart /\ Frame
    BY <1>1, <1>2, <1>3, <1>4, <2>5, <2>7, <2>8, SameTypes DEF RowPart, Frame, AgentPart, RowsComplete
  <2>10. HandlerPart
    BY <1>1, <1>4, <2>1, <2>9, Answered DEF Kinds, Replies
  <2> QED
    BY <1>1, <1>2, <1>3, <2>7, <2>9, <2>10, PartsTogether
<1> QED
    BY <1>5, <1>6

(* The Server restarts, on its database or on an empty one.                 *)
LEMMA ServerRestartKeeps ==
    ASSUME MirrorInv, NEW empty \in BOOLEAN, ServerRestart(empty)
    PROVE  MirrorInv'
<1>1. BoundsKept
  <2>1. left.resets - 1 \in Nat
    BY SMT DEF ServerRestart, MirrorInv, TypeOK, Bounds
  <2> QED
    BY <2>1 DEF ServerRestart, BoundsKept, MirrorInv, TypeOK, Bounds
<1>2. /\ SeenPart /\ owned' \subseteq Agents /\ UNCHANGED <<ag, past>> /\ "reset" \in seen'
      /\ row' \in {row, [o \in Ops |-> NoRow]} /\ hs' = [h \in Handlers |-> Idle]
    BY DEF ServerRestart, SeenPart, MirrorInv, TypeOK
<1>3. AgentPart
    BY <1>1, <1>2, AgentIdle
<1>4. RowPart
  <2>1. row' \in [Ops -> Rows' \cup {NoRow}]
    BY <1>1, <1>2, SameTypes DEF MirrorInv, TypeOK
  <2>2. \A o \in Ops : RowFrom(o)
    BY <1>2 DEF RowFrom
  <2> QED
    BY <1>2, <2>1, <2>2 DEF RowPart, RowsComplete
<1>5. HandlerPart
  <2>1. hs' \in [Handlers -> Calls']
    BY <1>1, <1>2, IdleTyped, SameTypes DEF MirrorInv
  <2>2. \A h \in Handlers : hs'[h] = Idle
    BY <1>2
  <2> QED
    BY <2>1, <2>2, IdleIsSound DEF HandlerPart
<1> QED
    BY <1>1, <1>2, <1>3, <1>4, <1>5, PartsTogether

-----------------------------------------------------------------------------
(* The invariant                                                            *)

(* The Agents a budget involves are Agents.                                 *)
LEMMA InvolvedAgents ==
    ASSUME TypeOK
    PROVE  Involved \subseteq Agents
<1>1. left.specs \subseteq Specs
    BY DEF TypeOK, Bounds
<1>2. \A s \in Specs : s.agent \in Agents
    BY DEF Specs
<1> QED
    BY <1>1, <1>2 DEF Involved

(* The system starts with empty tables and idle handlers.                   *)
LEMMA MirrorInit ==
    Init => MirrorInv
<1> SUFFICES ASSUME Init
             PROVE  MirrorInv
    OBVIOUS
<1>1. /\ \A a \in Agents, o \in Ops : ag[a][o] = NoRec
      /\ \A o \in Ops : row[o] = NoRow
      /\ \A h \in Handlers : hs[h] = Idle
    BY DEF Init
<1>2. TypeOK
  <2>1. left \in Bounds
    BY MirrorAssumption DEF Init
  <2>2. left.rev \in Nat
    BY <2>1 DEF Bounds
  <2>3. Idle \in Calls
    BY <2>2, IdleInCalls
  <2> QED
    BY <2>1, <2>3 DEF Init, TypeOK
<1>3. \A a \in Agents, o \in Ops : RecordSound(a, o)
    BY <1>1 DEF RecordSound, Has
<1>4. Idle.pc = "idle" /\ Idle.kind = "none" /\ Idle.known = FALSE /\ Idle.reply = "none"
    BY DEF Idle
<1>5. \A h \in Handlers : HandlerSound(h)
    BY <1>1, <1>4 DEF HandlerSound
<1>6. \A a \in Agents, o \in Ops : Snaps(a, o) = {}
    BY <1>1, <1>4 DEF Snaps, Holders
<1>7. NotAhead /\ Agreed
    BY <1>6 DEF NotAhead, Agreed
<1>8. RowsComplete /\ RecoverySeen /\ LookupAccepted
    BY <1>1, <1>4 DEF RowsComplete, RecoverySeen, LookupAccepted
<1> QED
    BY <1>2, <1>3, <1>5, <1>7, <1>8 DEF MirrorInv

(* Every step keeps the invariant.                                          *)
LEMMA MirrorStep ==
    MirrorInv /\ [Next]_vars => MirrorInv'
<1> SUFFICES ASSUME MirrorInv, [Next]_vars
             PROVE  MirrorInv'
    OBVIOUS
<1>0. Involved \subseteq Agents
    BY InvolvedAgents DEF MirrorInv
<1>1. ASSUME NEW h \in Handlers, Begin(h)
      PROVE  MirrorInv'
    BY <1>0, <1>1, BeginDispatchKeeps, BeginControlKeeps, BeginRecoverKeeps DEF Begin
<1>2. ASSUME NEW h \in Handlers, Continue(h)
      PROVE  MirrorInv'
    BY <1>2, CallDispatchKeeps, CallFetchKeeps, CallCancelKeeps, CallRecoverKeeps, MergeOneKeeps,
       MergeRecoveredKeeps, TakeKeeps DEF Continue
<1>3. ASSUME NEW h \in Handlers, Unreached(h)
      PROVE  MirrorInv'
    BY <1>3, UnreachedKeeps
<1>4. ASSUME NEW a \in Involved, AgentStep(a)
      PROVE  MirrorInv'
    BY <1>0, <1>4, AdvanceKeeps, WriteOutputKeeps, FinishKeeps, EvictKeeps, AgentRestartKeeps DEF AgentStep
<1>5. ASSUME NEW empty \in BOOLEAN, ServerRestart(empty)
      PROVE  MirrorInv'
    BY <1>5, ServerRestartKeeps
<1>6. CASE UNCHANGED vars
  <2>1. SeenPart /\ owned' \subseteq Agents /\ UNCHANGED <<ag, past, row, left>> /\ hs' = hs
    BY <1>6 DEF vars, SeenPart, MirrorInv, TypeOK
  <2>2. BoundsKept /\ AgentPart /\ RowPart /\ Frame
    BY <2>1, Quiet
  <2>3. HandlerPart
    BY <2>1, <2>2, HandlersIdle
  <2> QED
    BY <2>1, <2>2, <2>3, PartsTogether
<1> QED
    BY <1>1, <1>2, <1>3, <1>4, <1>5, <1>6 DEF Next

(* Whatever the Agents, operations, handlers and bounds, the invariant      *)
(* holds in every state.                                                    *)
LEMMA MirrorAlways ==
    Spec => []MirrorInv
BY MirrorInit, MirrorStep, PTL DEF Spec

(* What a browser is told is never behind the row there was when it asked   *)
(* nor behind what the Agent answered, and a lookup is never refused for a  *)
(* change the Agent did not make (GetOperation, CancelOperation,            *)
(* mergeOperation).                                                         *)
THEOREM BrowsersAreToldTheTruth ==
    Spec => []AnswersHold
<1>1. MirrorInv => AnswersHold
  <2>1. MirrorInv => AnswerIsFresh
    BY DEF MirrorInv, HandlerSound, AnswerIsFresh
  <2> QED
    BY <2>1 DEF MirrorInv, AnswersHold
<1> QED
    BY <1>1, MirrorAlways, PTL

-----------------------------------------------------------------------------
(* What a step may do                                                       *)

(* An Agent's step adds states and leaves the rows; every other step leaves *)
(* the states, and takes rows from the answers being merged.                *)
OwnOrLearn ==
    \/ row' = row /\ PastGrows
    \/ past' = past /\ \A o \in Ops : RowFrom(o)

(* Writing a record adds its state.                                         *)
LEMMA PutAdds ==
    ASSUME TypeOK, NEW a \in Agents, NEW o \in Ops, NEW r, Put(a, o, r)
    PROVE  PastGrows
<1> DEFINE f == StateOf(a, r)
<1>1. past' = [past EXCEPT ![o] = @ \cup {f}] /\ past \in [Ops -> SUBSET [bind : Specs, rev : 1 .. left.rev, st : Status]]
    BY DEF Put, TypeOK
<1> HIDE DEF f
<1>2. \A p \in Ops : past'[p] = IF p = o THEN past[p] \cup {f} ELSE past[p]
    BY <1>1
<1> QED
    BY <1>2 DEF PastGrows

(* Every step is one of the two.                                            *)
LEMMA StepKinds ==
    ASSUME MirrorInv, [Next]_vars
    PROVE  OwnOrLearn
<1>0. Involved \subseteq Agents /\ TypeOK
    BY InvolvedAgents DEF MirrorInv
<1>1. past' = past => PastGrows
    BY DEF PastGrows
<1>2. ASSUME NEW h \in Handlers, Begin(h) \/ Unreached(h) \/ Take(h) \/ CallFetch(h) \/ CallRecover(h)
      PROVE  OwnOrLearn
  <2>1. row' = row /\ past' = past
    BY <1>2 DEF Begin, BeginDispatch, BeginControl, BeginRecover, Unreached, Take, CallFetch, CallRecover
  <2> QED
    BY <1>1, <2>1 DEF OwnOrLearn
<1>3. ASSUME NEW h \in Handlers, CallDispatch(h)
      PROVE  OwnOrLearn
  <2>1. row' = row /\ (past' = past \/ \E r : Put(hs[h].spec.agent, hs[h].o, r))
    BY <1>3 DEF CallDispatch
  <2>2. hs[h].spec.agent \in Agents /\ hs[h].o \in Ops
    BY <1>0, CallFacts
  <2> QED
    BY <1>0, <1>1, <2>1, <2>2, PutAdds DEF OwnOrLearn
<1>4. ASSUME NEW h \in Handlers, CallCancel(h)
      PROVE  OwnOrLearn
  <2>1. row' = row /\ (past' = past \/ \E r : Put(hs[h].spec.agent, hs[h].o, r))
    BY <1>4 DEF CallCancel
  <2>2. hs[h].spec.agent \in Agents /\ hs[h].o \in Ops
    BY <1>0, CallFacts
  <2> QED
    BY <1>0, <1>1, <2>1, <2>2, PutAdds DEF OwnOrLearn
<1>5. ASSUME NEW h \in Handlers, MergeOne(h)
      PROVE  OwnOrLearn
    BY <1>5, MergeOneKeeps DEF OwnOrLearn, MergeOne
<1>6. ASSUME NEW h \in Handlers, MergeRecovered(h)
      PROVE  OwnOrLearn
    BY <1>6, MergeRecoveredKeeps DEF OwnOrLearn, MergeRecovered
<1>7. ASSUME NEW a \in Agents, NEW o \in Ops, Advance(a, o) \/ WriteOutput(a, o) \/ Finish(a, o) \/ Evict(a, o)
      PROVE  OwnOrLearn
  <2>1. row' = row /\ (past' = past \/ \E r : Put(a, o, r))
    BY <1>7 DEF Advance, WriteOutput, Finish, Evict
  <2> QED
    BY <1>0, <1>1, <2>1, PutAdds DEF OwnOrLearn
<1>8. ASSUME NEW a \in Agents, AgentRestart(a)
      PROVE  OwnOrLearn
  <2>1. row' = row
    BY <1>8 DEF AgentRestart
  <2>2. \A o \in Ops : past'[o] = IF Has(a, o) THEN past[o] \cup {StateOf(a, Reloaded(ag[a][o]))} ELSE past[o]
    BY <1>8 DEF AgentRestart
  <2> QED
    BY <2>1, <2>2 DEF OwnOrLearn, PastGrows
<1>9. ASSUME NEW empty \in BOOLEAN, ServerRestart(empty)
      PROVE  OwnOrLearn
    BY <1>9 DEF ServerRestart, OwnOrLearn, RowFrom
<1>10. CASE UNCHANGED vars
    BY <1>1, <1>10 DEF vars, OwnOrLearn
<1>11. ASSUME NEW h \in Handlers, Continue(h)
       PROVE  OwnOrLearn
    BY <1>2, <1>3, <1>4, <1>5, <1>6, <1>11 DEF Continue
<1>12. ASSUME NEW a \in Involved, AgentStep(a)
       PROVE  OwnOrLearn
    BY <1>0, <1>7, <1>8, <1>12 DEF AgentStep
<1> QED
    BY <1>2, <1>9, <1>10, <1>11, <1>12 DEF Next

(* Until a result is evicted, a row of a finished operation is as new as    *)
(* anything its Agent can answer, so no merge replaces it.                  *)
LEMMA FinishedStays ==
    ASSUME MirrorInv, NEW o \in Ops, RowFrom(o), row[o] # NoRow, row[o].st \in Final, "evict" \notin seen
    PROVE  row'[o] \in {row[o], NoRow}
<1> SUFFICES ASSUME NEW h \in Handlers, LearnsFrom(o, h)
             PROVE  FALSE
    BY DEF RowFrom
<1> DEFINE a == hs[h].spec.agent
           x == hs[h].got[o]
<1>1. /\ hs[h].pc = "merge" /\ o \in DOMAIN hs[h].got /\ a \in Agents /\ x.rev \in Nat
      /\ row[o].agent = a /\ row[o].rev < x.rev
    BY CallFacts DEF LearnsFrom, MirrorInv
<1>2. Behind(a, o, View(x)) /\ Behind(a, o, View(row[o]))
    BY <1>1, SnapIntro DEF MirrorInv, NotAhead
<1>3. x.rev <= ag[a][o].rev /\ ag[a][o].rev = row[o].rev
    BY <1>2 DEF Behind, View
<1>4. row[o].rev \in Nat /\ ag[a][o].rev \in Nat
    BY <1>1, RowFacts, RecordFacts DEF MirrorInv
<1> HIDE DEF a, x
<1> QED
    BY <1>1, <1>3, <1>4, SMT

(* The Server's row of a finished operation is never changed again, except  *)
(* by setting the Server up anew or once the Agent has evicted a result     *)
(* (mergeOperation, mergeRecoveredOperations).                              *)
THEOREM FinishedRowsStay ==
    Spec => TerminalStays
<1>1. ASSUME MirrorInv, [Next]_vars
      PROVE  \A o \in Ops : row[o] # NoRow /\ row[o].st \in Final /\ "evict" \notin seen
                               => row'[o] \in {row[o], NoRow}
    BY <1>1, StepKinds, FinishedStays DEF OwnOrLearn
<1> QED
    BY <1>1, MirrorAlways, PTL DEF Spec, TerminalStays

-----------------------------------------------------------------------------
(* The mirror implements the register                                       *)

CopyOf(o) == IF row[o] = NoRow THEN NoRow
             ELSE [bind |-> RowSpec(o), rev |-> row[o].rev, st |-> row[o].st]

(* A row taken from an answer is a state its Agent had the operation in, or *)
(* the row moved forward to such a state.                                   *)
LEMMA RowLearns ==
    ASSUME MirrorInv, NEW o \in Ops, NEW h \in Handlers, LearnsFrom(o, h)
    PROVE  \E f \in past[o] :
              \/ CopyOf(o) = NoRow /\ CopyOf(o)' = f
              \/ /\ CopyOf(o) # NoRow
                 /\ f.bind.agent = CopyOf(o).bind.agent /\ f.rev > CopyOf(o).rev
                 /\ CopyOf(o)' = [bind |-> CopyOf(o).bind, rev |-> f.rev, st |-> f.st]
<1>x. PICK x : x = hs[h].got[o]
    OBVIOUS
<1>a. PICK a : a = hs[h].spec.agent
    OBVIOUS
<1> DEFINE f == StateOf(a, x)
<1>1. /\ f \in past[o] /\ row'[o] # NoRow /\ row'[o].agent = a /\ View(row'[o]) = View(x)
      /\ row[o] = NoRow => row'[o].req = x.req
      /\ row[o] # NoRow => row'[o].agent = row[o].agent /\ row'[o].req = row[o].req /\ row[o].rev < x.rev
    BY <1>x, <1>a DEF LearnsFrom, MirrorInv, HandlerSound
<1>2. row'[o].rev = x.rev /\ row'[o].st = x.st
  <2>1. View(row'[o]).rev = View(x).rev /\ View(row'[o]).st = View(x).st
    BY <1>1
  <2> QED
    BY <2>1 DEF View
<1>3. f.bind = [agent |-> a, req |-> x.req] /\ f.bind.agent = a /\ f.rev = x.rev /\ f.st = x.st
    BY DEF StateOf
<1>4. CopyOf(o)' = [bind |-> [agent |-> a, req |-> row'[o].req], rev |-> x.rev, st |-> x.st]
    BY <1>1, <1>2 DEF CopyOf, RowSpec
<1>5. CASE row[o] = NoRow
  <2>1. CopyOf(o)' = f /\ CopyOf(o) = NoRow
    BY <1>1, <1>4, <1>5 DEF CopyOf, StateOf
  <2> QED
    BY <1>1, <2>1
<1>6. CASE row[o] # NoRow
  <2>1. PICK c : c = [bind |-> [agent |-> a, req |-> row[o].req], rev |-> row[o].rev, st |-> row[o].st]
    OBVIOUS
  <2>2. CopyOf(o) = c
    BY <1>1, <1>6, <2>1 DEF CopyOf, RowSpec
  <2>3. c.bind.agent = a /\ c.rev = row[o].rev
    BY <2>1
  <2>4. c # NoRow
    <3>1. row[o].rev \in 1 .. left.rev /\ left.rev \in Nat
      BY <1>6, RowFacts, BoundFacts DEF MirrorInv
    <3>2. row[o].rev # 0
      BY <3>1, SMT
    <3>3. NoRow.rev = 0
      BY DEF NoRow
    <3> QED
      BY <2>3, <3>2, <3>3
  <2>5. x.rev > row[o].rev
    <3>1. x.rev \in Nat /\ row[o].rev \in Nat
      BY <1>x, CallFacts, RowFacts DEF MirrorInv, LearnsFrom
    <3> QED
      BY <1>1, <1>6, <3>1, SMT
  <2>6. CopyOf(o)' = [bind |-> c.bind, rev |-> x.rev, st |-> x.st]
    BY <1>1, <1>4, <1>6, <2>1
  <2> QED
    BY <1>1, <1>3, <2>2, <2>3, <2>4, <2>5, <2>6
<1> QED
    BY <1>5, <1>6

(* A copy changes only with its row.                                        *)
LEMMA CopySame ==
    ASSUME NEW o \in Ops, row'[o] = row[o]
    PROVE  CopyOf(o)' = CopyOf(o)
BY DEF CopyOf, RowSpec

(* What is new is a state of the operation.                                 *)
LEMMA PastIsFacts ==
    ASSUME TypeOK', NEW o \in Ops, NEW f \in past'[o]
    PROVE  f \in [bind : [agent : Agents, req : Requests], rev : Nat, st : Status]
<1>1. f \in [bind : Specs, rev : 1 .. left'.rev, st : Status] /\ left' \in Bounds
    BY DEF TypeOK
<1>2. left'.rev \in Nat
    BY <1>1 DEF Bounds
<1>3. 1 .. left'.rev \subseteq Nat
    BY <1>2, SMT
<1> QED
    BY <1>1, <1>3 DEF Specs

(* Every step of the mirror is a step of the register, or leaves it.        *)
LEMMA MirrorImplements ==
    ASSUME MirrorInv, MirrorInv', [Next]_vars
    PROVE  [Mirror!RegNext]_(Mirror!regVars)
<1>0. AnOp \in Ops
    BY MirrorAssumption DEF AnOp
<1>1. CASE row' = row /\ PastGrows
  <2>1. CopyOf(AnOp)' = CopyOf(AnOp)
    BY <1>0, <1>1, CopySame
  <2>2. past[AnOp] \subseteq past'[AnOp]
    BY <1>0, <1>1 DEF PastGrows
  <2>3. \A f \in past'[AnOp] : f \in [bind : [agent : Agents, req : Requests], rev : Nat, st : Status]
    BY <1>0, PastIsFacts DEF MirrorInv
  <2>4. Mirror!Own
    BY <2>1, <2>2, <2>3 DEF Mirror!Own, Mirror!Fact, CopyOf
  <2> QED
    BY <2>4 DEF Mirror!RegNext
<1>2. CASE past' = past /\ row'[AnOp] = row[AnOp]
  <2>1. CopyOf(AnOp)' = CopyOf(AnOp)
    BY <1>0, <1>2, CopySame
  <2> QED
    BY <1>2, <2>1 DEF Mirror!regVars, CopyOf
<1>3. CASE past' = past /\ row'[AnOp] = NoRow
  <2>1. Mirror!Lose
    BY <1>3 DEF Mirror!Lose
  <2> QED
    BY <2>1 DEF Mirror!RegNext
<1>4. CASE past' = past /\ \E h \in Handlers : LearnsFrom(AnOp, h)
  <2>1. Mirror!Learn
    BY <1>0, <1>4, RowLearns DEF Mirror!Learn, CopyOf
  <2> QED
    BY <2>1 DEF Mirror!RegNext
<1> QED
    BY <1>0, <1>1, <1>2, <1>3, <1>4, StepKinds DEF OwnOrLearn, RowFrom

(* The Server's row of an operation implements the register of              *)
(* MirrorRegister: bound to one Agent and request, in a state that Agent    *)
(* had the id in, replaced only by newer ones, whatever is lost, repeated   *)
(* or merged out of order (mergeOperation, mergeRecoveredOperations).       *)
THEOREM MirrorIsARegister ==
    Spec => MirrorsAgent
<1>1. Init => Mirror!RegInit
  <2>1. AnOp \in Ops
    BY MirrorAssumption DEF AnOp
  <2> QED
    BY <2>1 DEF Init, Mirror!RegInit
<1>2. MirrorInv /\ MirrorInv' /\ [Next]_vars => [Mirror!RegNext]_(Mirror!regVars)
    BY MirrorImplements
<1> QED
    BY <1>1, <1>2, MirrorAlways, PTL DEF Spec, MirrorsAgent, Mirror!RegSpec

=============================================================================
