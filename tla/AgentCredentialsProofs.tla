----------------------- MODULE AgentCredentialsProofs -----------------------
(***************************************************************************)
(* Proofs about credentials and archives: that no generation names two     *)
(* archives (OneArchivePerGeneration), that the Agent never depends on a   *)
(* credential that is revoked or may be forgotten (KeepsCredential,        *)
(* UsesDurable), and that a revocation the Server reported stays, as long  *)
(* as no fsync of the identity directory fails (RevokedStays).             *)
(***************************************************************************)
EXTENDS AgentCredentials, FiniteSetTheorems, TLAPS

(* Most leaves are first-order; the ones that need arithmetic or updates    *)
(* of functions and records cite SMT.                                       *)
USE Zenon

(***************************************************************************)
(* The invariants                                                          *)
(***************************************************************************)

Limits ==
    [time : Nat, creds : Nat, tokens : 0..MaxTokens, kinds : SUBSET {"join", "rejoin"},
     afaults : SUBSET {"unwritten", "unsynced"}, sfaults : SUBSET {"unwritten", "unsynced"},
     faults : Nat, lost : Nat, stops : Nat, drops : Nat, restores : Nat, volumes : Nat]

Identity == [gen : Nat, rev : SUBSET Nat]
ServerProc == [pc : {"down", "commit", "up"}, gen : Nat, arch : Nat, rev : SUBSET Nat]
TokenRow == [kind : {"none", "join", "rejoin"}, agent : Nat, at : Nat, used : BOOLEAN]
Database == [gen : Nat, arch : Nat, rows : SUBSET Nat, tokens : [1..MaxTokens -> TokenRow]]
Mem == [id : Nat, cred : Nat, prev : Nat, act : Nat, gen : Nat, arch : Nat]
Requests == [op : {"register"}, tok : Nat, id : Nat, cur : Nat]
              \cup [op : {"renew"}, cur : Nat] \cup [op : {"activate"}, prev : Nat, cur : Nat]
Answers == [done : {TRUE}, ok : BOOLEAN, cred : Nat, gen : Nat, arch : Nat]
CallPcs == {"enrol", "resuming", "renewing", "activating"}
AgentPcs == {"down", "load", "resume", "check", "dial", "online"} \cup CallPcs
AgentProc == [pc : AgentPcs, booting : BOOLEAN, ready : BOOLEAN, cred : Nat, mem : Mem,
              call : Requests \cup {NoCall}, ans : Answers \cup {NoAns}]

Types ==
    /\ now \in Nat /\ minted \in Seq([agent : Nat, at : Nat])
    /\ srv \in ServerProc
    /\ ident \in [seen : Identity, may : SUBSET Identity] /\ ident.seen \in ident.may
    /\ db \in Database /\ bak \in Database
    /\ ag \in AgentProc
    /\ disk \in [seen : Mem, may : SUBSET Mem] /\ disk.seen \in disk.may
    /\ token \in Nat /\ late \in SUBSET Requests
    /\ told \in SUBSET Nat
    /\ left \in Limits

(* Archives: a generation is in the identity file before an archive of it   *)
(* is named, whatever that file is after a power failure; the Server that   *)
(* is up has the newest archive, one that is about to name an archive has   *)
(* a generation of its own; the database and the Agent know archives that   *)
(* were named.                                                              *)
Known(x) == x.gen > 0 => <<x.gen, x.arch>> \in named

NamedOnce ==
    /\ named \in SUBSET (Nat \X Nat) /\ IsFiniteSet(named)
    /\ \A p, q \in named : p[1] = q[1] \/ p[2] = q[2] => p = q
    /\ \A p \in named : p[2] <= Cardinality(named)

ServerArchives ==
    /\ \A p \in named : \A v \in ident.may : p[1] <= v.gen
    /\ Known(db) /\ Known(bak)
    /\ srv.pc = "up" => <<srv.gen, srv.arch>> \in named /\ \A p \in named : p[1] <= srv.gen
    /\ srv.pc = "commit" => (\A p \in named : p[1] < srv.gen) /\ (\A v \in ident.may : srv.gen <= v.gen)

AgentArchives ==
    /\ Known(ag.mem) /\ \A v \in disk.may : Known(v)
    /\ ag.ans.done => <<ag.ans.gen, ag.ans.arch>> \in named

ArchInv == NamedOnce /\ ServerArchives /\ AgentArchives

(* The Agent's process a and its file d: the credential in use is the one   *)
(* in memory, the memory is what is on the disk as long as every save has   *)
(* succeeded, no value that may be on the disk is behind it, a call is out  *)
(* exactly where the process waits for its answer, and a session is with a  *)
(* Server that is up.                                                       *)
StagedRight(v) == IF v.prev = 0 THEN v.act = 0 ELSE v.act = v.cred /\ v.prev < v.cred

Ahead(v, m) == v.id = m.id /\ m.cred <= v.cred /\ m.gen <= v.gen /\ StagedRight(v)

Controlled(a) ==
    /\ a.pc \in {"down", "load", "enrol", "resume", "resuming"} => a.booting
    /\ a.booting => a.ready
    /\ IF a.pc \in {"down", "load", "enrol"} THEN a.cred = 0 ELSE a.cred = a.mem.cred /\ a.cred # 0
    /\ StagedRight(a.mem)
    /\ a.pc \notin CallPcs => a.call = NoCall /\ a.ans = NoAns
    /\ a.pc = "enrol" => a.call.op = "register"
    /\ a.pc = "renewing" => a.call.op = "renew"
    /\ a.pc \in {"resuming", "activating"} => a.call.op = "activate"

AgentRight(a, d) ==
    /\ Controlled(a)
    /\ a.ready /\ a.pc # "down" => d = File(a.mem)
    /\ \A v \in d.may : Ahead(v, a.mem)

OnlineUp(a) == a.pc = "online" => srv.pc = "up"

AgentInv == AgentRight(ag, disk) /\ OnlineUp(ag)

(* A credential that is revoked, or that a request on its way asks to       *)
(* revoke, is older than every credential that may be on the Agent's disk   *)
(* and than the one an answer brings.                                       *)
Pending == late \cup ({ag.call} \ {NoCall})
Spent ==
    srv.rev \cup (UNION {s.rev : s \in ident.may}) \cup {r.prev : r \in {x \in Pending : x.op = "activate"}}
Older(c, v) == v.cred = 0 \/ c < v.cred
Brings == ag.ans.done /\ ag.ans.ok /\ ag.pc \in {"enrol", "renewing"}

SpentInv ==
    /\ \A c \in Spent : c \in 1..Len(minted) /\ \A v \in disk.may : Older(c, v)
    /\ \A v \in disk.may : v.cred <= Len(minted)
    /\ \A r \in Pending : r.cur <= Len(minted) /\ (r.op = "renew" => r.cur # 0)
    /\ Brings => /\ ag.ans.cred \in 1..Len(minted)
                 /\ \A c \in Spent : c < ag.ans.cred
                 /\ \A v \in disk.may : v.cred < ag.ans.cred
    /\ Len(minted) <= left.creds /\ now <= left.time

(* What the Server reported revoked has expired or is in its ledger, which  *)
(* is the one it has in memory and the only one it may find again.          *)
RevokedInv ==
    /\ "unsynced" \notin left.sfaults
    /\ ident.may = {ident.seen}
    /\ srv.pc # "down" => srv.rev = ident.seen.rev
    /\ \A c \in told : c \in 1..Len(minted) /\ (Expired(c) \/ c \in ident.seen.rev)

Inv == Types /\ ArchInv /\ AgentInv /\ SpentInv

(***************************************************************************)
(* Lemmas about the operators                                              *)
(***************************************************************************)

(* The bounds l are those of now, with what was used up. *)
Kept(l) == l \in Limits /\ l.creds = left.creds /\ l.time = left.time /\ l.sfaults = left.sfaults

FileOf(S) == [seen : S, may : SUBSET S]

(* A save has three outcomes. *)
LEMMA SavesCases ==
    ASSUME NEW f, NEW v, NEW faults, NEW w \in Saves(f, v, faults)
    PROVE  \/ w.res = "ok" /\ w.file = File(v)
           \/ w.res = "unwritten" /\ w.file = f /\ "unwritten" \in faults /\ left.faults > 0
           \/ w.res = "unsynced" /\ w.file = [seen |-> v, may |-> f.may \cup {v}]
                 /\ "unsynced" \in faults /\ left.faults > 0
  BY SMT DEF Saves

(* A save leaves a file of the same type; what may be on the disk was there *)
(* or is the new value.                                                     *)
LEMMA SavedFile ==
    ASSUME NEW S, NEW f \in FileOf(S), f.seen \in f.may, NEW v \in S, NEW faults,
           NEW w \in Saves(f, v, faults)
    PROVE  w.file \in FileOf(S) /\ w.file.seen \in w.file.may /\ w.file.may \subseteq f.may \cup {v}
  <1>1. CASE w.file = File(v)
    BY <1>1, SMT DEF File, FileOf
  <1>2. CASE w.file = f
    BY <1>2
  <1>3. CASE w.file = [seen |-> v, may |-> f.may \cup {v}]
    BY <1>3, SMT DEF FileOf
  <1>4. QED
    <2>1. w.file = File(v) \/ w.file = f \/ w.file = [seen |-> v, may |-> f.may \cup {v}]
      BY SavesCases, SMT
    <2>2. QED
      BY <1>1, <1>2, <1>3, <2>1

(* A restart leaves the file or one of the values that may be on the disk. *)
LEMMA RereadFile ==
    ASSUME NEW S, NEW f \in FileOf(S), f.seen \in f.may, NEW g \in Reread(f)
    PROVE  g \in FileOf(S) /\ g.seen \in g.may /\ g.may \subseteq f.may
  <1>1. CASE g = f
    BY <1>1
  <1>2. CASE \E v \in f.may : g = File(v)
    BY <1>2, SMT DEF File, FileOf
  <1>3. QED
    BY <1>1, <1>2, SMT DEF Reread

(* A failed save is paid for. *)
LEMMA PaidKept ==
    ASSUME left \in Limits, NEW f, NEW v, NEW faults, NEW w \in Saves(f, v, faults)
    PROVE  Kept(Paid(w))
  <1>1. w.res = "ok" \/ left.faults > 0
    BY SavesCases
  <1>2. QED
    BY <1>1, SMT DEF Paid, Kept, Limits

(* The process that exits. *)
LEMMA DownIs ==
    ASSUME NEW a \in AgentProc
    PROVE  /\ Down(a) \in AgentProc
           /\ Down(a).pc = "down" /\ Down(a).booting = TRUE /\ Down(a).ready = TRUE /\ Down(a).cred = 0
           /\ Down(a).mem = a.mem /\ Down(a).call = NoCall /\ Down(a).ans = NoAns
  BY DEF Down, AgentProc, AgentPcs

(* The process that goes on at pc without a call. *)
LEMMA GoesIs ==
    ASSUME NEW a \in AgentProc, NEW pc \in AgentPcs
    PROVE  /\ Goes(a, pc) \in AgentProc
           /\ Goes(a, pc).pc = pc /\ Goes(a, pc).booting = a.booting /\ Goes(a, pc).ready = a.ready
           /\ Goes(a, pc).cred = a.cred
           /\ Goes(a, pc).mem = a.mem /\ Goes(a, pc).call = NoCall /\ Goes(a, pc).ans = NoAns
  BY DEF Goes, AgentProc

(* The process that calls the Server. *)
LEMMA CallsIs ==
    ASSUME NEW a \in AgentProc, NEW pc \in AgentPcs, NEW r \in Requests
    PROVE  /\ Calls(a, pc, r) \in AgentProc
           /\ Calls(a, pc, r).pc = pc /\ Calls(a, pc, r).booting = a.booting /\ Calls(a, pc, r).ready = a.ready
           /\ Calls(a, pc, r).cred = a.cred
           /\ Calls(a, pc, r).mem = a.mem /\ Calls(a, pc, r).call = r /\ Calls(a, pc, r).ans = NoAns
  BY DEF Calls, AgentProc

(* The process that meets an error. *)
LEMMA FailIs ==
    ASSUME NEW a \in AgentProc
    PROVE  /\ OnlineUp(Fail(a))
           /\ Fail(a) \in AgentProc /\ Fail(a).mem = a.mem /\ Fail(a).call = NoCall /\ Fail(a).ans = NoAns
           /\ a.booting => Fail(a).pc = "down" /\ Fail(a).booting = TRUE /\ Fail(a).ready = TRUE /\ Fail(a).cred = 0
           /\ ~a.booting => Fail(a).pc = "check" /\ Fail(a).booting = FALSE /\ Fail(a).ready = a.ready
                             /\ Fail(a).cred = a.cred
  <1>1. CASE a.booting
    BY <1>1, DownIs DEF Fail, OnlineUp
  <1>2. CASE ~a.booting
    <2>1. a.booting = FALSE
      BY <1>2 DEF AgentProc
    <2>2. Fail(a) = Goes(a, "check")
      BY <1>2 DEF Fail, Goes
    <2>3. "check" \in AgentPcs
      BY DEF AgentPcs
    <2>4. QED
      BY <1>2, <2>1, <2>2, <2>3, GoesIs, SMT DEF OnlineUp
  <1>3. QED
    BY <1>1, <1>2

(* The Agent's file: saved or not. *)
LEMMA CommitCases ==
    ASSUME Types, NEW v \in Mem, NEW ok, Commit(v, ok)
    PROVE  /\ Kept(left')
           /\ \/ ag.ready /\ disk' = File(v) /\ ag' = [ok EXCEPT !.mem = v]
              \/ /\ ag.ready /\ disk' \in {disk, [seen |-> v, may |-> disk.may \cup {v}]}
                 /\ ag' = Fail([ag EXCEPT !.ready = FALSE])
              \/ ~ag.ready /\ disk' = disk /\ ag' = Fail(ag)
  <1>1. left \in Limits
    BY DEF Types
  <1>2. CASE ~ag.ready
    BY <1>1, <1>2 DEF Commit, Kept
  <1>3. CASE ag.ready
    <2>1. PICK w \in Saves(disk, v, left.afaults) :
            /\ disk' = w.file /\ left' = Paid(w)
            /\ ag' = IF w.res = "ok" THEN [ok EXCEPT !.mem = v] ELSE Fail([ag EXCEPT !.ready = FALSE])
      BY <1>3 DEF Commit
    <2>2. Kept(left')
      BY <1>1, <2>1, PaidKept
    <2>0. \/ w.res = "ok" /\ w.file = File(v)
          \/ w.res = "unwritten" /\ w.file = disk
          \/ w.res = "unsynced" /\ w.file = [seen |-> v, may |-> disk.may \cup {v}]
      BY SMT DEF Saves
    <2>3. CASE w.res = "ok"
      <3>1. w.file = File(v)
        BY <2>0, <2>3
      <3>2. QED
        BY <1>3, <2>1, <2>2, <2>3, <3>1
    <2>4. CASE w.res # "ok"
      <3>1. w.file \in {disk, [seen |-> v, may |-> disk.may \cup {v}]}
        BY <2>0, <2>4
      <3>2. QED
        BY <1>3, <2>1, <2>2, <2>4, <3>1
    <2>5. QED
      BY <2>3, <2>4
  <1>4. QED
    BY <1>2, <1>3

(* A process in error is still a right one, with the file it has. *)
LEMMA FailRight ==
    ASSUME NEW a \in AgentProc, NEW d, StagedRight(a.mem), ~a.booting => Controlled(a),
           \A v \in d.may : Ahead(v, a.mem), a.booting \/ ~a.ready \/ d = File(a.mem), a.pc \notin {"down", "load", "enrol"} \/ a.booting
    PROVE  AgentRight(Fail(a), d)
  <1>1. CASE a.booting
    BY <1>1, FailIs DEF Controlled, AgentRight, StagedRight, CallPcs
  <1>2. CASE ~a.booting
    BY <1>2, FailIs DEF Controlled, AgentRight, StagedRight, CallPcs
  <1>3. QED
    BY <1>1, <1>2

(***************************************************************************)
(* Steps of the Agent                                                      *)
(***************************************************************************)

(* A value the Agent may write, and a request it may make, with the file d. *)
Fits(v) == v \in Mem /\ Known(v) /\ v.cred <= Len(minted) /\ \A c \in Spent : Older(c, v)

CallFits(r, d) ==
    r # NoCall => /\ r.cur <= Len(minted) /\ (r.op = "renew" => r.cur # 0)
                  /\ r.op = "activate" => r.prev \in 1..Len(minted) /\ \A v \in d.may : Older(r.prev, v)

(* What is spent, as a formula. *)
IsSpent(c) ==
    \/ c \in srv.rev \/ \E s \in ident.may : c \in s.rev
    \/ \E r \in Pending : r.op = "activate" /\ c = r.prev

(* Spent holds what IsSpent describes, in this state and the next. *)
LEMMA SpentIs == \A c : (c \in Spent <=> IsSpent(c)) /\ (c \in Spent' <=> IsSpent(c)')
  <1>1. \A c : c \in Spent <=> IsSpent(c)
    BY DEF Spent, IsSpent
  <1>2. \A c : c \in Spent' <=> IsSpent(c)'
    BY DEF Spent, IsSpent
  <1>3. QED
    BY <1>1, <1>2

(* Enough for a step of the Agent to keep the invariant: process and file   *)
(* agree, what is new on the disk and the request that is made fit.         *)
LEMMA AgentMoves ==
    ASSUME Inv,
           UNCHANGED <<now, minted, srv, ident, bak, token, told, named>>,
           db' \in Database, db'.gen = db.gen, db'.arch = db.arch,
           late' \in SUBSET Pending,
           Kept(left'), ag' \in AgentProc, disk' \in FileOf(Mem), disk'.seen \in disk'.may,
           AgentRight(ag', disk'), OnlineUp(ag'), ag'.ans = NoAns, Known(ag'.mem),
           CallFits(ag'.call, disk'),
           \A v \in disk'.may : v \in disk.may \/ Fits(v)
    PROVE  Inv'
  <1>1. Types'
    <2>1. late' \in SUBSET Requests
      <3>1. Pending \subseteq Requests
        BY DEF Inv, Types, Pending, AgentProc
      <3>2. QED
        BY <3>1
    <2>2. QED
      BY <2>1 DEF Inv, Types, FileOf, Kept
  <1>2. ArchInv'
    <2>1. NamedOnce' /\ ServerArchives'
      BY DEF Inv, ArchInv, NamedOnce, ServerArchives, Known
    <2>2. Known(ag.mem)' /\ \A v \in disk'.may : Known(v)'
      BY DEF Inv, ArchInv, AgentArchives, Known, Fits
    <2>3. ~ag'.ans.done
      BY SMT DEF NoAns
    <2>4. QED
      BY <2>1, <2>2, <2>3 DEF ArchInv, AgentArchives
  <1>3. AgentInv'
    BY DEF AgentInv, OnlineUp
  <1>4. SpentInv'
    <2>1. Pending' \subseteq Pending \cup ({ag'.call} \ {NoCall})
      BY DEF Pending
    <2>2. \A c \in Spent' : c \in Spent \/ (ag'.call # NoCall /\ ag'.call.op = "activate" /\ c = ag'.call.prev)
      BY <2>1, SpentIs DEF IsSpent
    <2>3. ASSUME NEW c \in Spent' PROVE c \in 1..Len(minted) /\ \A v \in disk'.may : Older(c, v)
      BY <2>2 DEF Inv, SpentInv, Fits, CallFits
    <2>4. \A v \in disk'.may : v.cred <= Len(minted)
      BY DEF Inv, SpentInv, Fits
    <2>5. \A r \in Pending' : r.cur <= Len(minted) /\ (r.op = "renew" => r.cur # 0)
      BY <2>1 DEF Inv, SpentInv, CallFits
    <2>6. ~Brings'
      BY SMT DEF Brings, NoAns
    <2>7. Len(minted) <= left'.creds /\ now <= left'.time
      BY DEF Inv, SpentInv, Kept
    <2>8. minted' = minted /\ now' = now
      OBVIOUS
    <2>9. QED
      BY <2>3, <2>4, <2>5, <2>6, <2>7, <2>8 DEF SpentInv, Older
  <1>5. QED
    BY <1>1, <1>2, <1>3, <1>4 DEF Inv


(* What every step of the Agent may use. *)
LEMMA AgentTypes ==
    ASSUME Inv
    PROVE  /\ ag \in AgentProc /\ disk \in FileOf(Mem) /\ disk.seen \in disk.may /\ db \in Database
           /\ ag.mem \in Mem /\ ag.cred \in Nat /\ ag.booting \in BOOLEAN /\ ag.ready \in BOOLEAN
           /\ ag.call \in Requests \cup {NoCall} /\ Kept(left) /\ late \in SUBSET Pending
           /\ Known(ag.mem) /\ Controlled(ag) /\ OnlineUp(ag) /\ \A v \in disk.may : Ahead(v, ag.mem)
  BY DEF Inv, Types, AgentProc, FileOf, Kept, Pending, ArchInv, AgentArchives, AgentInv, AgentRight

(* An error in the process keeps the invariant. *)
LEMMA FailKeeps ==
    ASSUME Inv, UNCHANGED <<now, minted, srv, ident, db, bak, token, told, named>>,
           ag.pc \notin {"down", "load"}, late' \in SUBSET Pending, Kept(left'), disk' = disk, ag' = Fail(ag)
    PROVE  Inv'
  <1>0. ag \in AgentProc /\ Controlled(ag) /\ AgentRight(ag, disk)
    BY AgentTypes DEF Inv, AgentInv
  <1>1. AgentRight(Fail(ag), disk)
    BY <1>0, FailRight DEF Controlled, AgentRight
  <1>2. OnlineUp(Fail(ag)) /\ Fail(ag) \in AgentProc /\ Fail(ag).mem = ag.mem /\ Fail(ag).call = NoCall /\ Fail(ag).ans = NoAns
    BY <1>0, FailIs
  <1>3. QED
    BY <1>1, <1>2, AgentTypes, AgentMoves DEF CallFits

(* A transition of the durable state keeps the invariant, saved or not. *)
LEMMA CommitKeeps ==
    ASSUME Inv, AgentSame, ag.pc \notin {"down", "load"},
           NEW v \in Mem, ag.ready => Fits(v) /\ Ahead(v, ag.mem), NEW ok, Commit(v, ok),
           NEW up, up = [ok EXCEPT !.mem = v], up \in AgentProc, up.mem = v, up.ans = NoAns,
           AgentRight(up, File(v)), OnlineUp(up), CallFits(up.call, File(v))
    PROVE  Inv'
  <1>0. ag \in AgentProc /\ Controlled(ag) /\ AgentRight(ag, disk) /\ Types /\ v \in Mem
    BY AgentTypes DEF Inv, AgentInv
  <1>1. CASE ag.ready /\ disk' = File(v) /\ ag' = up
    <2>1. disk' \in FileOf(Mem) /\ disk'.seen \in disk'.may /\ disk'.may = {v}
      BY <1>0, <1>1, SMT DEF File, FileOf
    <2>2. Kept(left')
      BY <1>0, CommitCases
    <2>3. QED
      BY <1>1, <2>1, <2>2, AgentTypes, AgentMoves DEF AgentSame, Fits
  <1>2. CASE ~ag.ready /\ disk' = disk /\ ag' = Fail(ag)
    <2>1. Kept(left')
      BY <1>0, CommitCases
    <2>2. QED
      BY <1>2, <2>1, FailKeeps, AgentTypes DEF AgentSame
  <1>3. CASE /\ ag.ready /\ disk' \in {disk, [seen |-> v, may |-> disk.may \cup {v}]}
             /\ ag' = Fail([ag EXCEPT !.ready = FALSE])
    <2> DEFINE a == [ag EXCEPT !.ready = FALSE]
    <2>1. /\ a \in AgentProc /\ a.mem = ag.mem /\ a.booting = ag.booting /\ a.ready = FALSE
          /\ a.pc = ag.pc /\ a.cred = ag.cred /\ a.call = ag.call /\ a.ans = ag.ans
      BY <1>0 DEF AgentProc
    <2>2. /\ disk' \in FileOf(Mem) /\ disk'.seen \in disk'.may /\ disk'.may \subseteq disk.may \cup {v}
      BY <1>0, <1>3, AgentTypes, SMT DEF FileOf
    <2> HIDE DEF a
    <2>3. AgentRight(Fail(a), disk')
      <3>1. ~a.booting => Controlled(a)
        BY <1>0, <2>1 DEF Controlled
      <3>2. StagedRight(a.mem) /\ (a.pc \notin {"down", "load", "enrol"} \/ a.booting)
        BY <1>0, <2>1 DEF Controlled
      <3>3. \A u \in disk'.may : Ahead(u, a.mem)
        BY <1>0, <1>3, <2>1, <2>2 DEF AgentRight
      <3>4. QED
        BY <2>1, <3>1, <3>2, <3>3, FailRight
    <2>4. OnlineUp(Fail(a)) /\ Fail(a) \in AgentProc /\ Fail(a).mem = ag.mem /\ Fail(a).call = NoCall /\ Fail(a).ans = NoAns
      BY <2>1, FailIs
    <2>5. ag' = Fail(a)
      BY <1>3 DEF a
    <2>6. Kept(left')
      BY <1>0, CommitCases
    <2>7. QED
      BY <1>3, <2>2, <2>3, <2>4, <2>5, <2>6, AgentTypes, AgentMoves DEF AgentSame, CallFits
  <1>4. QED
    BY <1>0, <1>1, <1>2, <1>3, CommitCases


(* The Agent process starts and opens its state file.                       *)
LEMMA OpenKeeps == Inv /\ Open => Inv'
  <1> SUFFICES ASSUME Inv, Open PROVE Inv'
    OBVIOUS
  <1>1. PICK w \in Saves(disk, disk.seen, left.afaults) :
            /\ disk' = w.file /\ left' = Paid(w)
            /\ ag' = IF w.res = "ok" THEN [ag EXCEPT !.pc = "load", !.mem = disk.seen] ELSE ag
    BY DEF Open
  <1>2. /\ ag \in AgentProc /\ Controlled(ag) /\ ag.pc = "down" /\ left \in Limits /\ disk.seen \in Mem
        /\ ag.call = NoCall /\ ag.ans = NoAns /\ ag.booting /\ ag.ready = TRUE /\ ag.cred = 0
    BY AgentTypes DEF Open, Kept, FileOf, Controlled, CallPcs, AgentProc
  <1>3. disk' \in FileOf(Mem) /\ disk'.seen \in disk'.may /\ disk'.may \subseteq disk.may
    <2>1. /\ w.file \in FileOf(Mem) /\ w.file.seen \in w.file.may
          /\ w.file.may \subseteq disk.may \cup {disk.seen}
      <3>1. disk \in FileOf(Mem) /\ disk.seen \in disk.may /\ disk.seen \in Mem
        BY <1>2, AgentTypes
      <3>2. QED
        BY <3>1, SavedFile
    <2>2. QED
      BY <1>1, <2>1, AgentTypes
  <1>4. Kept(left')
    BY <1>1, <1>2, PaidKept
  <1>5. CASE w.res = "ok"
    <2>1. disk' = File(disk.seen)
      BY <1>1, <1>5, SMT DEF Saves
    <2>2. /\ ag' \in AgentProc /\ ag'.pc = "load" /\ ag'.mem = disk.seen /\ ag'.booting /\ ag'.ready = TRUE
          /\ ag'.cred = 0 /\ ag'.call = NoCall /\ ag'.ans = NoAns
      BY <1>1, <1>2, <1>5 DEF AgentProc, AgentPcs
    <2>3. \A v \in disk'.may : v = disk.seen
      BY <2>1, SMT DEF File
    <2>4. Ahead(disk.seen, disk.seen) /\ StagedRight(disk.seen)
      BY <1>2, AgentTypes, SMT DEF Ahead, Mem
    <2>5. AgentRight(ag', disk')
      BY <2>1, <2>2, <2>3, <2>4 DEF AgentRight, Controlled, CallPcs
    <2>6. Known(disk.seen)
      BY AgentTypes DEF Inv, ArchInv, AgentArchives
    <2>7. QED
      BY <1>3, <1>4, <2>2, <2>5, <2>6, AgentTypes, AgentMoves DEF Open, AgentSame, CallFits, OnlineUp
  <1>6. CASE w.res # "ok"
    <2>1. AgentRight(ag, disk')
      BY <1>2, <1>3, AgentTypes DEF AgentRight
    <2>2. QED
      BY <1>1, <1>2, <1>3, <1>4, <1>6, <2>1, AgentTypes, AgentMoves DEF Open, AgentSame, CallFits, OnlineUp
  <1>7. QED
    BY <1>5, <1>6

(* A step in which only the process moves on. *)
LEMMA ProcessMoves ==
    ASSUME Inv, AgentSame, UNCHANGED <<disk, left>>,
           ag' \in AgentProc, ag'.mem = ag.mem, ag'.ans = NoAns,
           Controlled(ag'), OnlineUp(ag'), ag'.ready = ag.ready \/ ag'.pc = "down", ag.pc # "down", CallFits(ag'.call, disk)
    PROVE  Inv'
  <1>1. AgentRight(ag', disk)
    BY DEF Inv, AgentInv, AgentRight
  <1>2. QED
    BY <1>1, AgentTypes, AgentMoves DEF AgentSame

(* The Agent loads its credentials, or enrols when it has none.             *)
LEMMA LoadOrRegisterKeeps == Inv /\ LoadOrRegister => Inv'
  <1> SUFFICES ASSUME Inv, LoadOrRegister PROVE Inv'
    OBVIOUS
  <1> DEFINE c == ag.mem.cred
             r == RegisterCall(token, ag.mem.id, c)
  <1>0. /\ ag \in AgentProc /\ Controlled(ag) /\ ag.pc = "load" /\ ag.call = NoCall /\ ag.ans = NoAns
        /\ ag.booting = TRUE /\ ag.ready = TRUE /\ ag.mem \in Mem /\ c \in Nat /\ AgentRight(ag, disk)
    BY AgentTypes DEF LoadOrRegister, Controlled, CallPcs, AgentProc, Mem, Inv, AgentInv
  <1>1. CASE ag' = [ag EXCEPT !.pc = "resume", !.cred = c] /\ c # 0
    <2>1. /\ ag' \in AgentProc /\ ag'.pc = "resume" /\ ag'.cred = c /\ ag'.mem = ag.mem /\ ag'.booting
          /\ ag'.ready = TRUE /\ ag'.call = NoCall /\ ag'.ans = NoAns
      BY <1>0, <1>1 DEF AgentProc, AgentPcs
    <2>2. Controlled(ag')
      BY <1>0, <1>1, <2>1 DEF Controlled, CallPcs
    <2>3. QED
      BY <1>0, <2>1, <2>2, ProcessMoves DEF LoadOrRegister, CallFits, OnlineUp
  <1>2. CASE ag' = Down(ag)
    <2>1. Controlled(ag')
      BY <1>0, <1>2, DownIs DEF Controlled, CallPcs
    <2>2. QED
      BY <1>0, <1>2, <2>1, DownIs, ProcessMoves DEF LoadOrRegister, CallFits, OnlineUp
  <1>3. CASE ag' = Calls(ag, "enrol", r)
    <2>1. r \in Requests /\ r.op = "register" /\ r.cur = c /\ "enrol" \in AgentPcs
      BY <1>0, SMT DEF RegisterCall, Requests, Inv, Types, Mem, AgentPcs, CallPcs
    <2>2. c <= Len(minted)
      <3>1. disk = File(ag.mem)
        BY <1>0 DEF AgentRight
      <3>2. ag.mem \in disk.may
        BY <3>1, SMT DEF File
      <3>3. QED
        BY <3>2 DEF Inv, SpentInv
    <2> HIDE DEF r, c
    <2>3. /\ ag' \in AgentProc /\ ag'.pc = "enrol" /\ ag'.booting /\ ag'.ready = TRUE /\ ag'.cred = ag.cred
          /\ ag'.mem = ag.mem /\ ag'.call = r /\ ag'.ans = NoAns
      BY <1>0, <1>3, <2>1, CallsIs, SMT
    <2>4. Controlled(ag')
      BY <1>0, <2>1, <2>3 DEF Controlled, CallPcs
    <2>5. CallFits(r, disk)
      BY <2>1, <2>2 DEF CallFits
    <2>6. QED
      BY <1>0, <2>3, <2>4, <2>5, ProcessMoves DEF LoadOrRegister, OnlineUp
  <1>4. QED
    BY <1>1, <1>2, <1>3 DEF LoadOrRegister


(* As long as every save has succeeded the memory is on the disk. *)
LEMMA MemOnDisk ==
    ASSUME Inv
    PROVE  /\ ag.mem \in Mem /\ ag.mem.cred \in Nat /\ ag.mem.gen \in Nat
           /\ ag.mem.cred <= Len(minted) /\ Len(minted) \in Nat
           /\ ag.ready /\ ag.pc # "down" => ag.mem \in disk.may /\ Fits(ag.mem)
  <1>1. ag.mem \in Mem /\ ag.mem.cred \in Nat /\ ag.mem.gen \in Nat /\ Known(ag.mem)
    BY AgentTypes DEF Mem
  <1>2. Len(minted) \in Nat
    BY SMT DEF Inv, Types
  <1>3. ag.mem.cred <= Len(minted)
    <2>1. disk.seen.cred <= Len(minted) /\ ag.mem.cred <= disk.seen.cred /\ disk.seen.cred \in Nat
      BY AgentTypes DEF Inv, SpentInv, Ahead, FileOf, Mem
    <2>2. QED
      BY <1>1, <1>2, <2>1, SMT
  <1>4. ASSUME ag.ready, ag.pc # "down" PROVE ag.mem \in disk.may /\ Fits(ag.mem)
    <2>1. disk = File(ag.mem)
      BY <1>4 DEF Inv, AgentInv, AgentRight
    <2>2. ag.mem \in disk.may
      BY <2>1, SMT DEF File
    <2>3. QED
      BY <1>1, <1>3, <2>2 DEF Fits, Inv, SpentInv
  <1>5. QED
    BY <1>1, <1>2, <1>3, <1>4

(* A process that goes on without a call. *)
LEMMA GoesKeeps ==
    ASSUME Inv, UNCHANGED <<now, minted, srv, ident, bak, token, late, told, named, disk>>,
           db' \in Database, db'.gen = db.gen, db'.arch = db.arch, Kept(left'),
           ag.pc \notin {"down", "load", "enrol"}, NEW pc \in {"check", "dial", "online"}, ag' = Goes(ag, pc),
           pc = "online" => srv.pc = "up"
    PROVE  Inv'
  <1>0. ag \in AgentProc /\ Controlled(ag) /\ AgentRight(ag, disk) /\ pc \in AgentPcs
    BY AgentTypes DEF Inv, AgentInv, AgentPcs
  <1>1. /\ ag' \in AgentProc /\ ag'.pc = pc /\ ag'.mem = ag.mem /\ ag'.call = NoCall /\ ag'.ans = NoAns
        /\ ag'.cred = ag.cred /\ ag'.booting = ag.booting /\ ag'.ready = ag.ready
    BY <1>0, GoesIs
  <1>2. AgentRight(ag', disk)
    BY <1>0, <1>1 DEF AgentRight, Controlled, CallPcs
  <1>3. QED
    BY <1>1, <1>2, AgentTypes, AgentMoves DEF CallFits, OnlineUp

(* A process that calls the Server, with a request that fits. *)
LEMMA CallsKeeps ==
    ASSUME Inv, AgentSame, UNCHANGED <<disk, left>>, ag.pc \in {"resume", "check"},
           NEW pc \in {"resuming", "renewing"}, NEW r \in Requests, CallFits(r, disk),
           pc = "resuming" => ag.pc = "resume" /\ r.op = "activate", pc = "renewing" => r.op = "renew",
           ag' = Calls(ag, pc, r)
    PROVE  Inv'
  <1>0. ag \in AgentProc /\ Controlled(ag) /\ AgentRight(ag, disk) /\ pc \in AgentPcs
    BY AgentTypes DEF Inv, AgentInv, AgentPcs, CallPcs
  <1>1. /\ ag' \in AgentProc /\ ag'.pc = pc /\ ag'.mem = ag.mem /\ ag'.call = r /\ ag'.ans = NoAns
        /\ ag'.cred = ag.cred /\ ag'.booting = ag.booting /\ ag'.ready = ag.ready
    BY <1>0, CallsIs, SMT
  <1>2. AgentRight(ag', disk)
    BY <1>0, <1>1 DEF AgentRight, Controlled, CallPcs
  <1>3. QED
    BY <1>1, <1>2, AgentTypes, AgentMoves DEF CallFits, AgentSame, OnlineUp


(* At boot the Agent finishes a renewal it had not activated.               *)
LEMMA ResumeActivationKeeps == Inv /\ ResumeActivation => Inv'
  <1> SUFFICES ASSUME Inv, ResumeActivation PROVE Inv'
    OBVIOUS
  <1> DEFINE r == ActivateCall(ag.mem.prev, ag.cred)
  <1>0. /\ Controlled(ag) /\ ag.pc = "resume" /\ db \in Database /\ Kept(left) /\ late \in SUBSET Pending
        /\ AgentSame /\ UNCHANGED <<disk, left>>
    BY AgentTypes DEF ResumeActivation
  <1>1. CASE ag' = Goes(ag, "check")
    BY <1>0, <1>1, GoesKeeps DEF AgentSame
  <1>2. CASE ag' = Fail(ag)
    BY <1>0, <1>2, FailKeeps DEF AgentSame
  <1>3. CASE ag' = Calls(ag, "resuming", r) /\ ag.mem.prev # 0
    <2>0. ag.booting /\ ag.ready /\ ag.cred = ag.mem.cred /\ StagedRight(ag.mem)
      BY <1>0 DEF Controlled
    <2>1. ag.mem.prev \in Nat /\ ag.cred \in Nat /\ ag.mem.prev < ag.cred
      BY <1>3, <2>0, AgentTypes DEF Mem, StagedRight
    <2>2. r \in Requests /\ r.op = "activate" /\ r.cur = ag.cred /\ r.prev = ag.mem.prev
      BY <2>1, SMT DEF ActivateCall, Requests
    <2>3. ag.cred <= Len(minted) /\ Len(minted) \in Nat
      BY <1>0, <2>0, MemOnDisk
    <2>4. r.prev \in 1..Len(minted)
      BY <1>3, <2>1, <2>2, <2>3, SMT
    <2>5. ASSUME NEW v \in disk.may PROVE Older(r.prev, v)
      <3>1. ag.cred <= v.cred /\ v.cred \in Nat
        BY <2>0, AgentTypes DEF Ahead, FileOf, Mem
      <3>2. QED
        BY <2>1, <2>2, <3>1, SMT DEF Older
    <2> HIDE DEF r
    <2>6. CallFits(r, disk)
      BY <2>2, <2>3, <2>4, <2>5 DEF CallFits
    <2>7. QED
      BY <1>0, <1>3, <2>2, <2>6, CallsKeeps
  <1>4. QED
    BY <1>1, <1>2, <1>3 DEF ResumeActivation

(* The Agent asks for a new credential when half of its life is over.       *)
LEMMA RenewIfDueKeeps == Inv /\ RenewIfDue => Inv'
  <1> SUFFICES ASSUME Inv, RenewIfDue PROVE Inv'
    OBVIOUS
  <1> DEFINE r == RenewCall(ag.cred)
  <1>0. /\ ag \in AgentProc /\ Controlled(ag) /\ ag.pc = "check" /\ AgentSame /\ UNCHANGED <<disk, left>>
        /\ ag.cred = ag.mem.cred /\ ag.cred \in Nat /\ ag.cred # 0
    BY AgentTypes DEF RenewIfDue, Controlled
  <1>1. CASE ag' = Calls(ag, "renewing", r)
    <2>1. r \in Requests /\ r.op = "renew" /\ r.cur = ag.cred
      BY <1>0, SMT DEF RenewCall, Requests
    <2>2. ag.cred <= Len(minted)
      BY <1>0, MemOnDisk
    <2> HIDE DEF r
    <2>3. CallFits(r, disk)
      BY <1>0, <2>1, <2>2, SMT DEF CallFits
    <2>4. QED
      BY <1>0, <1>1, <2>1, <2>3, CallsKeeps
  <1>2. CASE ag' = Ready(ag)
    <2>1. /\ ag' \in AgentProc /\ ag'.pc = "dial" /\ ag'.mem = ag.mem /\ ag'.call = NoCall /\ ag'.ans = NoAns
          /\ ag'.cred = ag.cred /\ ag'.booting = FALSE /\ ag'.ready = ag.ready
      BY <1>0, <1>2 DEF Ready, Goes, AgentProc, AgentPcs
    <2>2. Controlled(ag')
      BY <1>0, <2>1 DEF Controlled, CallPcs
    <2>3. QED
      BY <1>0, <2>1, <2>2, ProcessMoves DEF CallFits, OnlineUp
  <1>3. QED
    BY <1>1, <1>2 DEF RenewIfDue

(* The Agent connects with the credential it holds.                         *)
LEMMA DialKeeps == Inv /\ Dial => Inv'
  <1> SUFFICES ASSUME Inv, Dial PROVE Inv'
    OBVIOUS
  <1>0. ag.pc = "dial" /\ Kept(left) /\ db \in Database /\ ag.mem.id \in Nat
    BY AgentTypes DEF Dial, Mem
  <1>1. /\ UNCHANGED <<now, minted, srv, ident, bak, token, late, told, named, disk, left>>
        /\ (ag' = Goes(ag, "online") /\ srv.pc = "up") \/ ag' = Goes(ag, "check")
    BY DEF Dial
  <1>2. db' = db \/ db' = [db EXCEPT !.rows = @ \cup {ag.mem.id}]
    BY DEF Dial
  <1>3. db' \in Database /\ db'.gen = db.gen /\ db'.arch = db.arch
    <2>1. db.rows \cup {ag.mem.id} \in SUBSET Nat
      BY <1>0 DEF Database
    <2>2. QED
      BY <1>0, <1>2, <2>1 DEF Database
  <1>4. QED
    BY <1>0, <1>1, <1>3, GoesKeeps

(* A connection is lost and the Agent goes back to dialing.                 *)
LEMMA DropKeeps == Inv /\ Drop => Inv'
  <1> SUFFICES ASSUME Inv, Drop PROVE Inv'
    OBVIOUS
  <1>1. left \in Limits /\ db \in Database
    BY AgentTypes DEF Kept
  <1>2. Kept(left')
    BY <1>1, SMT DEF Drop, Kept, Limits
  <1>3. QED
    BY <1>1, <1>2, GoesKeeps DEF Drop, AgentSame


(* An answer that brings a credential, to a process whose binding agrees:   *)
(* the new state v fits and is ahead of the old one.                        *)
LEMMA BringsFits ==
    ASSUME Inv, Brings, ag.ans.done, Bindable(ag.mem, ag.ans.gen, ag.ans.arch),
           NEW v \in Mem, v.id = ag.mem.id, v.cred = ag.ans.cred, v.gen = ag.ans.gen, v.arch = ag.ans.arch,
           (v.prev = 0 /\ v.act = 0) \/ (v.act = v.cred /\ v.prev = ag.mem.cred /\ v.prev # 0)
    PROVE  Fits(v) /\ Ahead(v, ag.mem) /\ ag.mem.cred < v.cred
  <1>0. /\ ag.mem \in Mem /\ disk.seen \in disk.may /\ disk.seen \in Mem /\ Len(minted) \in Nat
        /\ ag.mem.cred \in Nat /\ disk.seen.cred \in Nat /\ ag.mem.gen \in Nat /\ v.cred \in Nat /\ v.gen \in Nat
    BY AgentTypes, MemOnDisk DEF FileOf, Mem, Brings
  <1>1. v.cred \in 1..Len(minted) /\ disk.seen.cred < v.cred /\ \A c \in Spent : c < v.cred
    BY <1>0 DEF Inv, SpentInv
  <1>2. ag.mem.cred <= disk.seen.cred
    BY <1>0, AgentTypes DEF Ahead
  <1>3. ag.mem.cred < v.cred /\ v.cred <= Len(minted)
    BY <1>0, <1>1, <1>2, SMT
  <1>4. Known(v)
    BY DEF Known, Inv, ArchInv, AgentArchives
  <1>5. ag.mem.gen <= v.gen
    BY <1>0, SMT DEF Bindable
  <1>6. Fits(v)
    BY <1>1, <1>3, <1>4 DEF Fits, Older
  <1>7. Ahead(v, ag.mem)
    BY <1>0, <1>3, <1>5, SMT DEF Ahead, StagedRight
  <1>8. QED
    BY <1>3, <1>6, <1>7

(* The answer to a call that is over. *)
LEMMA AnsweredTypes ==
    ASSUME Inv, ag.ans.done, ag.pc \in CallPcs
    PROVE  ag.ans \in Answers /\ ag.ans.cred \in Nat /\ ag.ans.gen \in Nat /\ ag.ans.arch \in Nat
  <1>1. ag.ans # NoAns
    BY SMT DEF NoAns
  <1>2. ag.ans \in Answers
    BY <1>1 DEF Inv, Types, AgentProc
  <1>3. QED
    BY <1>2 DEF Answers

(* The answer to the enrolment is stored, or refused.                       *)
LEMMA FinishEnrolKeeps == Inv /\ FinishEnrol => Inv'
  <1> SUFFICES ASSUME Inv, FinishEnrol PROVE Inv'
    OBVIOUS
  <1> DEFINE a == ag.ans
             v == Installed(ag.mem, a.cred, a.gen, a.arch)
             ok == [Goes(ag, "resume") EXCEPT !.cred = a.cred]
             up == [ok EXCEPT !.mem = v]
  <1>0. /\ ag \in AgentProc /\ Controlled(ag) /\ ag.pc = "enrol" /\ AgentSame /\ a.done /\ late \in SUBSET Pending
        /\ ag.booting = TRUE /\ ag.ready = TRUE /\ ag.mem \in Mem /\ Kept(left)
    BY AgentTypes DEF FinishEnrol, Controlled
  <1>1. a \in Answers /\ a.cred \in Nat /\ a.gen \in Nat /\ a.arch \in Nat
    BY <1>0, AnsweredTypes DEF CallPcs
  <1>2. CASE a.ok /\ Bindable(ag.mem, a.gen, a.arch)
    <2>1. Commit(v, ok)
      BY <1>2 DEF FinishEnrol
    <2>2. /\ v \in Mem /\ v.id = ag.mem.id /\ v.cred = a.cred /\ v.prev = 0 /\ v.act = 0
          /\ v.gen = a.gen /\ v.arch = a.arch
      BY <1>0, <1>1 DEF Installed, Mem
    <2>3. Brings
      BY <1>0, <1>2 DEF Brings
    <2> HIDE DEF v
    <2>4. Fits(v) /\ Ahead(v, ag.mem) /\ ag.mem.cred < v.cred
      BY <1>0, <1>2, <2>2, <2>3, BringsFits
    <2>5. /\ up \in AgentProc /\ up.pc = "resume" /\ up.cred = v.cred /\ up.mem = v /\ up.call = NoCall
          /\ up.ans = NoAns /\ up.booting = TRUE /\ up.ready = TRUE
      BY <1>0, <1>1, <2>2 DEF Goes, AgentProc, AgentPcs
    <2> HIDE DEF up
    <2>6. v.cred # 0 /\ StagedRight(v) /\ Ahead(v, v)
      <3>1. v.cred \in Nat /\ v.gen \in Nat /\ ag.mem.cred \in Nat
        BY <1>0, <2>2 DEF Mem
      <3>2. QED
        BY <2>2, <2>4, <3>1, SMT DEF StagedRight, Ahead
    <2>7. AgentRight(up, File(v))
      <3>1. \A u \in File(v).may : u = v
        BY SMT DEF File
      <3>2. QED
        BY <2>5, <2>6, <3>1 DEF AgentRight, Controlled, CallPcs
    <2>8. CallFits(up.call, File(v))
      BY <2>5 DEF CallFits
    <2>9. up = [ok EXCEPT !.mem = v]
      BY DEF up
    <2>10. QED
      BY <1>0, <2>1, <2>2, <2>4, <2>5, <2>7, <2>8, <2>9, CommitKeeps DEF OnlineUp
  <1>3. CASE ag' = Fail(ag) /\ UNCHANGED <<disk, left>>
    BY <1>0, <1>3, FailKeeps DEF AgentSame
  <1>4. QED
    BY <1>2, <1>3 DEF FinishEnrol

(* The staged credential of a renewal is stored before it is used.          *)
LEMMA FinishRenewKeeps == Inv /\ FinishRenew => Inv'
  <1> SUFFICES ASSUME Inv, FinishRenew PROVE Inv'
    OBVIOUS
  <1> DEFINE a == ag.ans
             v == Staged(ag.mem, ag.cred, a.cred, a.gen, a.arch)
             r == ActivateCall(ag.cred, a.cred)
             ok == [Calls(ag, "activating", r) EXCEPT !.cred = a.cred]
             up == [ok EXCEPT !.mem = v]
  <1>0. /\ ag \in AgentProc /\ Controlled(ag) /\ ag.pc = "renewing" /\ AgentSame /\ a.done
        /\ ag.mem \in Mem /\ Kept(left) /\ late \in SUBSET Pending
        /\ ag.cred = ag.mem.cred /\ ag.cred \in Nat /\ ag.cred # 0
    BY AgentTypes DEF FinishRenew, Controlled
  <1>1. a \in Answers /\ a.cred \in Nat /\ a.gen \in Nat /\ a.arch \in Nat
    BY <1>0, AnsweredTypes DEF CallPcs
  <1>2. CASE a.ok /\ Bindable(ag.mem, a.gen, a.arch)
    <2>1. Commit(v, ok)
      BY <1>2 DEF FinishRenew
    <2>2. /\ v \in Mem /\ v.id = ag.mem.id /\ v.cred = a.cred /\ v.prev = ag.cred /\ v.act = v.cred
          /\ v.gen = a.gen /\ v.arch = a.arch
      BY <1>0, <1>1 DEF Staged, Mem
    <2>3. Brings
      BY <1>0, <1>2 DEF Brings
    <2>4. r \in Requests /\ r.op = "activate" /\ r.cur = a.cred /\ r.prev = ag.cred
      BY <1>0, <1>1, SMT DEF ActivateCall, Requests
    <2> HIDE DEF v, r
    <2>5. Fits(v) /\ Ahead(v, ag.mem) /\ ag.mem.cred < v.cred
      BY <1>0, <1>2, <2>2, <2>3, BringsFits
    <2>6. /\ up \in AgentProc /\ up.pc = "activating" /\ up.cred = v.cred /\ up.mem = v /\ up.call = r
          /\ up.ans = NoAns /\ up.booting = ag.booting /\ up.ready = ag.ready
      BY <1>0, <1>1, <2>2, <2>4 DEF Calls, AgentProc, AgentPcs, CallPcs
    <2> HIDE DEF up
    <2>7. v.cred # 0 /\ StagedRight(v) /\ Ahead(v, v)
      <3>1. v.cred \in Nat /\ v.gen \in Nat /\ ag.mem.cred \in Nat
        BY <1>0, <2>2 DEF Mem
      <3>2. QED
        BY <1>0, <2>2, <2>5, <3>1, SMT DEF StagedRight, Ahead
    <2>8. AgentRight(up, File(v)) /\ \A u \in File(v).may : u = v
      <3>1. \A u \in File(v).may : u = v
        BY SMT DEF File
      <3>2. QED
        BY <1>0, <2>4, <2>6, <2>7, <3>1 DEF AgentRight, Controlled, CallPcs
    <2>9. CallFits(r, File(v))
      <3>1. v.cred <= Len(minted) /\ Len(minted) \in Nat
        BY <1>0, <2>5, MemOnDisk DEF Fits
      <3>2. r.prev \in 1..Len(minted) /\ r.cur <= Len(minted) /\ Older(r.prev, v)
        BY <1>0, <2>2, <2>4, <2>5, <3>1, SMT DEF Older, Mem
      <3>3. QED
        BY <2>4, <2>8, <3>2 DEF CallFits
    <2>10. up = [ok EXCEPT !.mem = v]
      BY DEF up
    <2>11. QED
      BY <1>0, <2>1, <2>2, <2>5, <2>6, <2>8, <2>9, <2>10, CommitKeeps DEF OnlineUp
  <1>3. CASE ag' = Fail(ag) /\ UNCHANGED <<disk, left>>
    BY <1>0, <1>3, FailKeeps DEF AgentSame
  <1>4. QED
    BY <1>2, <1>3 DEF FinishRenew


(* A staged renewal that was reported is completed: the process goes on as  *)
(* ok.                                                                      *)
LEMMA CompletedKeeps ==
    ASSUME Inv, AgentSame, ag.pc \in {"resuming", "activating"}, NEW ok \in AgentProc,
           ok.pc \in {"check", "dial"}, ok.pc = "check" => ok.booting = ag.booting,
           ok.pc = "dial" => ok.booting = FALSE, ok.cred = ag.cred, ok.mem = ag.mem,
           ok.ready = ag.ready, ok.call = NoCall, ok.ans = NoAns, Commit(Completed(ag.mem), ok)
    PROVE  Inv'
  <1> DEFINE v == Completed(ag.mem)
             up == [ok EXCEPT !.mem = v]
  <1>0. Controlled(ag) /\ ag.mem \in Mem /\ ag.cred = ag.mem.cred /\ ag.cred # 0 /\ ag.booting \in BOOLEAN
    BY AgentTypes DEF Controlled
  <1>1. /\ v \in Mem /\ v.id = ag.mem.id /\ v.cred = ag.mem.cred /\ v.prev = 0 /\ v.act = 0
        /\ v.gen = ag.mem.gen /\ v.arch = ag.mem.arch
    BY <1>0 DEF Completed, Mem
  <1> HIDE DEF v
  <1>2. /\ up \in AgentProc /\ up.pc = ok.pc /\ up.cred = v.cred /\ up.mem = v /\ up.call = NoCall
        /\ up.ans = NoAns /\ up.booting = ok.booting /\ up.ready = ok.ready
    BY <1>0, <1>1 DEF AgentProc
  <1> HIDE DEF up
  <1>3. ag.ready => Fits(v)
    BY <1>1, MemOnDisk DEF Fits, Known, Older
  <1>4. Ahead(v, ag.mem) /\ Ahead(v, v) /\ StagedRight(v)
    BY <1>0, <1>1, SMT DEF Ahead, StagedRight, Mem
  <1>5. AgentRight(up, File(v))
    <2>1. \A u \in File(v).may : u = v
      BY SMT DEF File
    <2>2. QED
      BY <1>0, <1>1, <1>2, <1>4, <2>1 DEF AgentRight, Controlled, CallPcs
  <1>6. CallFits(up.call, File(v))
    BY <1>2 DEF CallFits
  <1>7. up = [ok EXCEPT !.mem = v] /\ Commit(v, ok)
    BY DEF up, v
  <1>8. QED
    BY <1>1, <1>2, <1>3, <1>4, <1>5, <1>6, <1>7, CommitKeeps DEF OnlineUp

(* The answer to an activation resumed at boot is stored.                   *)
LEMMA FinishResumeKeeps == Inv /\ FinishResume => Inv'
  <1> SUFFICES ASSUME Inv, FinishResume PROVE Inv'
    OBVIOUS
  <1> DEFINE ok == Goes(ag, "check")
  <1>0. ag \in AgentProc /\ ag.pc = "resuming" /\ AgentSame /\ Kept(left) /\ late \in SUBSET Pending
    BY AgentTypes DEF FinishResume
  <1>1. CASE Commit(Completed(ag.mem), ok)
    <2>1. /\ ok \in AgentProc /\ ok.pc = "check" /\ ok.booting = ag.booting /\ ok.cred = ag.cred
          /\ ok.mem = ag.mem /\ ok.ready = ag.ready /\ ok.call = NoCall /\ ok.ans = NoAns
      BY <1>0 DEF Goes, AgentProc, AgentPcs
    <2> HIDE DEF ok
    <2>2. ok.pc # "dial"
      BY <2>1, SMT
    <2>3. QED
      BY <1>0, <1>1, <2>1, <2>2, CompletedKeeps
  <1>2. CASE ag' = Fail(ag) /\ UNCHANGED <<disk, left>>
    BY <1>0, <1>2, FailKeeps DEF AgentSame
  <1>3. QED
    BY <1>1, <1>2 DEF FinishResume

(* The answer to the activation of a renewal is stored.                     *)
LEMMA FinishActivateKeeps == Inv /\ FinishActivate => Inv'
  <1> SUFFICES ASSUME Inv, FinishActivate PROVE Inv'
    OBVIOUS
  <1> DEFINE ok == Ready(ag)
  <1>0. ag \in AgentProc /\ ag.pc = "activating" /\ AgentSame /\ Kept(left) /\ late \in SUBSET Pending
    BY AgentTypes DEF FinishActivate
  <1>1. CASE Commit(Completed(ag.mem), ok)
    <2>1. /\ ok \in AgentProc /\ ok.pc = "dial" /\ ok.booting = FALSE /\ ok.cred = ag.cred
          /\ ok.mem = ag.mem /\ ok.ready = ag.ready /\ ok.call = NoCall /\ ok.ans = NoAns
      BY <1>0 DEF Ready, Goes, AgentProc, AgentPcs
    <2> HIDE DEF ok
    <2>2. ok.pc # "check"
      BY <2>1, SMT
    <2>3. QED
      BY <1>0, <1>1, <2>1, <2>2, CompletedKeeps
  <1>2. CASE ag' = Fail(ag) /\ UNCHANGED <<disk, left>>
    BY <1>0, <1>2, FailKeeps DEF AgentSame
  <1>3. QED
    BY <1>1, <1>2 DEF FinishActivate

(* The Agent binds itself to the archive the Server announced.              *)
LEMMA BindAnnouncedKeeps == Inv /\ BindAnnounced => Inv'
  <1> SUFFICES ASSUME Inv, BindAnnounced PROVE Inv'
    OBVIOUS
  <1> DEFINE v == [ag.mem EXCEPT !.gen = srv.gen, !.arch = srv.arch]
             up == [ag EXCEPT !.mem = v]
  <1>0. /\ ag \in AgentProc /\ Controlled(ag) /\ ag.pc = "online" /\ ag.ready = TRUE /\ AgentSame
        /\ ag.mem \in Mem /\ srv.gen \in Nat /\ srv.arch \in Nat /\ Commit(v, ag)
        /\ Bindable(ag.mem, srv.gen, srv.arch) /\ ag.cred = ag.mem.cred /\ ag.call = NoCall /\ ag.ans = NoAns
        /\ srv.pc = "up"
    BY AgentTypes DEF BindAnnounced, Inv, Types, ServerProc, Controlled, CallPcs, OnlineUp
  <1>1. /\ v \in Mem /\ v.id = ag.mem.id /\ v.cred = ag.mem.cred /\ v.prev = ag.mem.prev
        /\ v.act = ag.mem.act /\ v.gen = srv.gen /\ v.arch = srv.arch
    BY <1>0 DEF Mem
  <1> HIDE DEF v
  <1>2. /\ up \in AgentProc /\ up.pc = "online" /\ up.cred = v.cred /\ up.mem = v /\ up.call = NoCall
        /\ up.ans = NoAns /\ up.booting = ag.booting /\ up.ready = ag.ready
    BY <1>0, <1>1 DEF AgentProc
  <1> HIDE DEF up
  <1>3. Known(v)
    BY <1>0, <1>1 DEF Known, Inv, ArchInv, ServerArchives
  <1>4. Fits(v)
    BY <1>0, <1>1, <1>3, MemOnDisk DEF Fits, Older
  <1>5. Ahead(v, ag.mem) /\ Ahead(v, v) /\ StagedRight(v)
    <2>1. StagedRight(ag.mem)
      BY <1>0 DEF Controlled
    <2>2. QED
      BY <1>0, <1>1, <2>1, SMT DEF Ahead, StagedRight, Mem, Bindable
  <1>6. AgentRight(up, File(v))
    <2>1. \A u \in File(v).may : u = v
      BY SMT DEF File
    <2>2. QED
      BY <1>0, <1>1, <1>2, <1>5, <2>1 DEF AgentRight, Controlled, CallPcs
  <1>7. CallFits(up.call, File(v)) /\ up = [ag EXCEPT !.mem = v]
    BY <1>2 DEF CallFits, up
  <1>8. QED
    BY <1>0, <1>1, <1>2, <1>4, <1>5, <1>6, <1>7, CommitKeeps DEF OnlineUp


(* A call times out; its request may still be handled later.                *)
LEMMA GiveUpKeeps == Inv /\ GiveUp => Inv'
  <1> SUFFICES ASSUME Inv, GiveUp PROVE Inv'
    OBVIOUS
  <1>0. left \in Limits /\ Controlled(ag) /\ late \in SUBSET Pending /\ Kept(left)
    BY AgentTypes DEF Kept
  <1>1. ag.pc \notin {"down", "load"}
    BY <1>0 DEF GiveUp, Controlled, CallPcs
  <1>2. Kept(left') /\ late' \in SUBSET Pending
    <2>1. CASE UNCHANGED <<late, left>>
      BY <1>0, <2>1
    <2>2. CASE /\ left.lost > 0 /\ left' = [left EXCEPT !.lost = @ - 1]
               /\ late' = IF ag.ans.done THEN late ELSE late \cup {ag.call}
      <3>1. Kept(left')
        BY <1>0, <2>2, SMT DEF Kept, Limits
      <3>2. QED
        BY <2>2, <3>1 DEF Pending, GiveUp
    <2>3. QED
      BY <2>1, <2>2 DEF GiveUp
  <1>3. QED
    BY <1>1, <1>2, FailKeeps DEF GiveUp, serverVars

(* The Agent process dies between any two of its steps.                     *)
LEMMA AgentStopKeeps == Inv /\ AgentStop => Inv'
  <1> SUFFICES ASSUME Inv, AgentStop PROVE Inv'
    OBVIOUS
  <1>0. ag \in AgentProc /\ left \in Limits /\ Controlled(ag) /\ disk \in FileOf(Mem) /\ disk.seen \in disk.may
    BY AgentTypes DEF Kept
  <1>1. Kept(left')
    BY <1>0, SMT DEF AgentStop, Kept, Limits
  <1>2. disk' \in FileOf(Mem) /\ disk'.seen \in disk'.may /\ disk'.may \subseteq disk.may
    BY <1>0, RereadFile DEF AgentStop
  <1>3. /\ ag' \in AgentProc /\ ag'.pc = "down" /\ ag'.booting = TRUE /\ ag'.ready = TRUE /\ ag'.cred = 0
        /\ ag'.mem = ag.mem /\ ag'.call = NoCall /\ ag'.ans = NoAns
    BY <1>0, DownIs DEF AgentStop
  <1>4. AgentRight(ag', disk')
    BY <1>0, <1>2, <1>3, AgentTypes DEF AgentRight, Controlled, CallPcs
  <1>5. QED
    BY <1>1, <1>2, <1>3, <1>4, AgentTypes, AgentMoves DEF AgentStop, AgentSame, CallFits, OnlineUp

(* The Agent's volume is lost and it starts as a new Agent.                 *)
LEMMA LoseVolumeKeeps == Inv /\ LoseVolume => Inv'
  <1> SUFFICES ASSUME Inv, LoseVolume PROVE Inv'
    OBVIOUS
  <1> DEFINE v == Blank(disk.seen.id + 1)
  <1>0. /\ ag \in AgentProc /\ left \in Limits /\ Controlled(ag) /\ disk.seen.id \in Nat /\ ag.pc = "down"
        /\ ag.booting /\ ag.ready = TRUE /\ ag.cred = 0 /\ ag.call = NoCall /\ ag.ans = NoAns
    BY AgentTypes DEF Kept, LoseVolume, FileOf, Mem, Controlled, CallPcs, AgentProc
  <1>1. Kept(left')
    BY <1>0, SMT DEF LoseVolume, Kept, Limits
  <1>2. v \in Mem /\ v.cred = 0 /\ v.prev = 0 /\ v.act = 0 /\ v.gen = 0
    BY <1>0, SMT DEF Blank, Mem
  <1> HIDE DEF v
  <1>3. disk' \in FileOf(Mem) /\ disk'.seen = v /\ disk'.may = {v}
    BY <1>2, SMT DEF LoseVolume, File, FileOf, v
  <1>4. /\ ag' \in AgentProc /\ ag'.pc = "down" /\ ag'.mem = v /\ ag'.booting /\ ag'.ready = TRUE /\ ag'.cred = 0
        /\ ag'.call = NoCall /\ ag'.ans = NoAns
    BY <1>0, <1>2, <1>3 DEF LoseVolume, AgentProc
  <1>5. Ahead(v, v) /\ StagedRight(v) /\ Known(v)
    BY <1>2, SMT DEF Ahead, StagedRight, Known, Mem
  <1>6. Fits(v)
    <2>1. 0 <= Len(minted)
      BY SMT DEF Inv, Types
    <2>2. QED
      BY <1>2, <1>5, <2>1 DEF Fits, Older
  <1>7. AgentRight(ag', disk')
    BY <1>3, <1>4, <1>5 DEF AgentRight, Controlled, CallPcs
  <1>8. QED
    BY <1>1, <1>3, <1>4, <1>5, <1>6, <1>7, AgentTypes, AgentMoves DEF LoseVolume, AgentSame, CallFits, OnlineUp


(***************************************************************************)
(* Steps of the Server, the operator and the clock                         *)
(***************************************************************************)

(* Enough for a step that leaves the Agent's file alone to keep what is     *)
(* said of spent credentials: the ledgers hold nothing new, and an answer   *)
(* brings the credential that was just issued.                              *)
LEMMA SpentKeeps ==
    ASSUME Inv, disk' = disk, Len(minted) <= Len(minted'), Len(minted') \in Nat,
           Len(minted') <= left'.creds, now' <= left'.time,
           Pending' \subseteq Pending, srv'.rev \subseteq Spent, \A s \in ident'.may : s.rev \subseteq Spent,
           Brings' => (Brings /\ ag'.ans = ag.ans)
                        \/ (ag'.ans.cred = Len(minted) + 1 /\ Len(minted) + 1 <= Len(minted'))
    PROVE  SpentInv'
  <1>0. Len(minted) \in Nat /\ \A v \in disk.may : v.cred \in Nat
    BY AgentTypes, MemOnDisk DEF FileOf, Mem
  <1>1. Spent' \subseteq Spent
    BY SpentIs DEF IsSpent
  <1>2. \A c \in Spent : c \in 1..Len(minted) /\ \A v \in disk.may : Older(c, v)
    BY DEF Inv, SpentInv
  <1>3. \A c \in Spent' : c \in 1..Len(minted') /\ \A v \in disk'.may : Older(c, v)
    <2>1. \A c \in 1..Len(minted) : c \in 1..Len(minted')
      BY <1>0, SMT
    <2>2. QED
      BY <1>1, <1>2, <2>1
  <1>4. ASSUME NEW v \in disk'.may PROVE v.cred <= Len(minted')
    <2>1. v.cred <= Len(minted) /\ v.cred \in Nat
      BY <1>0, <1>4 DEF Inv, SpentInv
    <2>2. QED
      BY <1>0, <2>1, SMT
  <1>5. ASSUME NEW r \in Pending' PROVE r.cur <= Len(minted') /\ (r.op = "renew" => r.cur # 0)
    <2>1. r.cur <= Len(minted) /\ r.cur \in Nat /\ (r.op = "renew" => r.cur # 0)
      <3>1. r \in Requests
        BY DEF Inv, Types, Pending, AgentProc
      <3>2. r.cur \in Nat
        BY <3>1 DEF Requests
      <3>3. QED
        BY <3>2 DEF Inv, SpentInv
    <2>2. QED
      BY <1>0, <2>1, SMT
  <1>6. ASSUME Brings'
        PROVE  /\ ag'.ans.cred \in 1..Len(minted')
               /\ \A c \in Spent' : c < ag'.ans.cred
               /\ \A v \in disk'.may : v.cred < ag'.ans.cred
    <2>1. CASE Brings /\ ag'.ans = ag.ans
      <3>1. /\ ag.ans.cred \in 1..Len(minted) /\ (\A c \in Spent : c < ag.ans.cred)
            /\ \A v \in disk.may : v.cred < ag.ans.cred
        BY <2>1 DEF Inv, SpentInv
      <3>2. ag.ans.cred \in 1..Len(minted')
        BY <1>0, <3>1, SMT
      <3>3. QED
        BY <1>1, <2>1, <3>1, <3>2
    <2>2. CASE ag'.ans.cred = Len(minted) + 1 /\ Len(minted) + 1 <= Len(minted')
      <3>1. Len(minted) + 1 \in 1..Len(minted')
        BY <1>0, <2>2, SMT
      <3>2. ASSUME NEW c \in Spent' PROVE c < Len(minted) + 1
        <4>1. c \in 1..Len(minted)
          BY <1>1, <1>2
        <4>2. QED
          BY <1>0, <4>1, SMT
      <3>3. ASSUME NEW v \in disk'.may PROVE v.cred < Len(minted) + 1
        <4>1. v.cred <= Len(minted) /\ v.cred \in Nat
          BY <1>0, <3>3 DEF Inv, SpentInv
        <4>2. QED
          BY <1>0, <4>1, SMT
      <3>4. QED
        BY <2>2, <3>1, <3>2, <3>3
    <2>3. QED
      BY <1>6, <2>1, <2>2
  <1>7. QED
    BY <1>3, <1>4, <1>5, <1>6 DEF SpentInv, Older

(* A step that changes neither the ledgers nor the requests. *)
LEMMA NothingSpent ==
    ASSUME Inv, UNCHANGED <<disk, minted, late>>, now' <= left'.time, left'.creds = left.creds,
           ag'.call \in {ag.call, NoCall}, Brings' => Brings /\ ag'.ans = ag.ans,
           srv'.rev \subseteq Spent, \A s \in ident'.may : s.rev \subseteq Spent
    PROVE  SpentInv'
  <1>1. Len(minted) \in Nat /\ Len(minted) <= Len(minted) /\ Len(minted) <= left'.creds
    <2>1. Len(minted) \in Nat /\ Len(minted) <= left'.creds
      BY MemOnDisk DEF Inv, SpentInv
    <2>2. QED
      BY <2>1, SMT
  <1>2. Pending' \subseteq Pending
    BY DEF Pending
  <1>3. QED
    BY <1>1, <1>2, SpentKeeps

(* The ledgers hold spent credentials only. *)
LEMMA LedgersSpent == srv.rev \subseteq Spent /\ \A s \in ident.may : s.rev \subseteq Spent
  BY SpentIs DEF IsSpent


(* What a handler may do with a request r: answer only, issue a credential, *)
(* or enter one into the ledger.                                            *)
Parts(e, m, s, i, d, t, l, a) ==
    /\ e.minted = m /\ e.srv = s /\ e.ident = i /\ e.db = d
    /\ e.told = t /\ e.left = l /\ e.ans = a

Answering(e, r) ==
    \/ Parts(e, minted, srv, ident, db, told, left, Refused)
    \/ r.op = "activate" /\ Parts(e, minted, srv, ident, db, told, left, Answer(TRUE, 0))
    \/ r.op = "activate" /\ r.prev \in srv.rev
         /\ Parts(e, minted, srv, ident, db, told \cup {r.prev}, left, Answer(TRUE, 0))

Issuing(e, r) ==
    /\ r.op # "activate" /\ Len(minted) < left.creds
    /\ \/ r.op = "register"
            /\ Parts(e, Issued(r.id), srv, ident,
                     [db EXCEPT !.rows = @ \cup {r.id}, !.tokens = [@ EXCEPT ![r.tok].used = TRUE]],
                     told, left, Answer(TRUE, Len(minted) + 1))
       \/ r.op = "renew"
            /\ Parts(e, Issued(minted[r.cur].agent), srv, ident, db, told, left, Answer(TRUE, Len(minted) + 1))

Revoking(e, r) ==
    /\ r.op = "activate" /\ r.prev \notin srv.rev
    /\ \E w \in Saves(ident, [gen |-> srv.gen, rev |-> srv.rev \cup {r.prev}], left.sfaults) :
         Parts(e, minted,
               [srv EXCEPT !.rev = IF w.res = "unwritten" THEN @ ELSE @ \cup {r.prev}],
               w.file, db, IF w.res = "ok" THEN told \cup {r.prev} ELSE told, Paid(w),
               Answer(w.res = "ok", 0))

(* What the Server's handlers of enrolment, renewal and activation can      *)
(* do: answer, issue a credential, or revoke one.                           *)
LEMMA HandlerCases ==
    ASSUME NEW r \in Requests, NEW e \in Handled(r)
    PROVE  Answering(e, r) \/ Issuing(e, r) \/ Revoking(e, r)
  <1>1. CASE e = Effect
    BY <1>1 DEF Effect, Answering, Parts
  <1>2. CASE r.op = "register"
    <2>1. e \in HandleRegister(r)
      BY <1>2, SMT DEF Handled
    <2>2. CASE e # Effect
      BY <1>2, <2>1, <2>2 DEF HandleRegister, Effect, Issuing, Parts
    <2>3. QED
      BY <1>1, <2>2
  <1>3. CASE r.op = "renew"
    <2>1. e \in HandleRenew(r)
      BY <1>3, SMT DEF Handled
    <2>2. CASE e # Effect
      BY <1>3, <2>1, <2>2 DEF HandleRenew, Effect, Issuing, Parts
    <2>3. QED
      BY <1>1, <2>2
  <1>4. CASE r.op = "activate"
    <2>1. e \in HandleActivate(r)
      BY <1>4, SMT DEF Handled
    <2>2. CASE e = [Effect EXCEPT !.ans = Answer(TRUE, 0)]
      BY <1>4, <2>2 DEF Effect, Answering, Parts
    <2>3. CASE r.prev \in srv.rev /\ e = [Effect EXCEPT !.told = @ \cup {r.prev}, !.ans = Answer(TRUE, 0)]
      BY <1>4, <2>3 DEF Effect, Answering, Parts
    <2>4. CASE r.prev \notin srv.rev /\ e \in Revoke(r.prev)
      BY <1>4, <2>4 DEF Revoke, Effect, Revoking, Parts
    <2>5. QED
      BY <1>1, <2>1, <2>2, <2>3, <2>4 DEF HandleActivate, Revoke
  <1>5. QED
    BY <1>2, <1>3, <1>4 DEF Requests


(* What a handler leaves behind. *)
Ledgered(f) ==
    /\ f \in FileOf(Identity) /\ f.seen \in f.may
    /\ \A v \in f.may : v \in ident.may \/ (v.gen = srv.gen /\ v.rev \subseteq Spent)

Effective(e, r) ==
    /\ e.minted \in Seq([agent : Nat, at : Nat]) /\ Len(e.minted) \in Nat
    /\ Len(minted) <= Len(e.minted) /\ Len(e.minted) <= left.creds
    /\ e.srv \in ServerProc /\ e.srv.pc = srv.pc /\ e.srv.gen = srv.gen /\ e.srv.arch = srv.arch
    /\ e.srv.rev \subseteq Spent
    /\ Ledgered(e.ident)
    /\ e.db \in Database /\ e.db.gen = db.gen /\ e.db.arch = db.arch
    /\ e.told \in SUBSET Nat /\ Kept(e.left)
    /\ e.ans \in Answers /\ e.ans.done /\ e.ans.gen = srv.gen /\ e.ans.arch = srv.arch
    /\ e.ans.ok /\ r.op # "activate" =>
            e.ans.cred = Len(minted) + 1 /\ Len(minted) + 1 <= Len(e.minted)

(* The answers without a credential. *)
LEMMA PlainAnswers ==
    ASSUME srv \in ServerProc
    PROVE  \A ok \in BOOLEAN : /\ Answer(ok, 0) \in Answers /\ Answer(ok, 0).done /\ Answer(ok, 0).ok = ok
                              /\ Answer(ok, 0).gen = srv.gen /\ Answer(ok, 0).arch = srv.arch
  <1>1. 0 \in Nat
    BY SMT
  <1>2. QED
    BY <1>1 DEF Answer, Answers, ServerProc

(* Whatever a handler does to the Server's files and database fits the      *)
(* invariant.                                                               *)
LEMMA HandlerEffects ==
    ASSUME Inv, NEW r \in Pending, NEW e \in Handled(r)
    PROVE  Effective(e, r)
  <1>0. /\ r \in Requests /\ srv \in ServerProc /\ db \in Database /\ told \in SUBSET Nat /\ Kept(left)
        /\ minted \in Seq([agent : Nat, at : Nat]) /\ ident \in FileOf(Identity) /\ ident.seen \in ident.may
        /\ now \in Nat /\ left \in Limits /\ left.creds \in Nat
    <2>1. r \in Requests
      BY DEF Inv, Types, Pending, AgentProc
    <2>2. QED
      BY <2>1, AgentTypes DEF Inv, Types, FileOf, Limits
  <1>1. Len(minted) \in Nat /\ Len(minted) <= Len(minted) /\ Len(minted) <= left.creds
    <2>1. Len(minted) \in Nat /\ Len(minted) <= left.creds
      BY MemOnDisk DEF Inv, SpentInv
    <2>2. QED
      BY <2>1, SMT
  <1>2. Ledgered(ident)
    BY <1>0 DEF Ledgered
  <1>3. ASSUME r.op = "activate" PROVE r.prev \in Spent /\ r.prev \in Nat
    <2>1. r.prev \in Spent
      BY <1>3, SpentIs DEF IsSpent
    <2>2. r.prev \in Nat
      BY <1>0, <1>3 DEF Requests
    <2>3. QED
      BY <2>1, <2>2
  <1>4. CASE Answering(e, r)
    <2>1. /\ e.minted = minted /\ e.srv = srv /\ e.ident = ident /\ e.db = db /\ e.left = left
          /\ e.told = told \/ (r.op = "activate" /\ e.told = told \cup {r.prev})
      BY <1>4 DEF Answering, Parts
    <2>2. e.ans = Answer(FALSE, 0) \/ (r.op = "activate" /\ e.ans = Answer(TRUE, 0))
      BY <1>4 DEF Answering, Parts, Refused
    <2>3. /\ e.ans \in Answers /\ e.ans.done /\ e.ans.gen = srv.gen /\ e.ans.arch = srv.arch
          /\ e.ans.ok => r.op = "activate"
      <3>1. CASE e.ans = Answer(FALSE, 0)
        <4>1. FALSE \in BOOLEAN /\ ~Answer(FALSE, 0).ok
          BY DEF Answer
        <4>2. QED
          BY <1>0, <3>1, <4>1, PlainAnswers
      <3>2. CASE r.op = "activate" /\ e.ans = Answer(TRUE, 0)
        <4>1. TRUE \in BOOLEAN
          OBVIOUS
        <4>2. QED
          BY <1>0, <3>2, <4>1, PlainAnswers
      <3>3. QED
        BY <2>2, <3>1, <3>2
    <2>4. e.told \in SUBSET Nat
      BY <1>0, <1>3, <2>1
    <2>5. QED
      BY <1>0, <1>1, <1>2, <2>1, <2>3, <2>4, LedgersSpent DEF Effective
  <1>5. CASE Issuing(e, r)
    <2>0. Len(minted) + 1 \in Nat
      BY <1>1, SMT
    <2>1. /\ e.srv = srv /\ e.ident = ident /\ e.left = left /\ e.told = told
          /\ e.ans = Answer(TRUE, Len(minted) + 1)
      BY <1>5 DEF Issuing, Parts
    <2>2. /\ e.ans \in Answers /\ e.ans.done /\ e.ans.gen = srv.gen /\ e.ans.arch = srv.arch
          /\ e.ans.cred = Len(minted) + 1
      <3>1. ASSUME NEW c \in Nat
            PROVE  /\ Answer(TRUE, c) \in Answers /\ Answer(TRUE, c).done /\ Answer(TRUE, c).cred = c
                   /\ Answer(TRUE, c).gen = srv.gen /\ Answer(TRUE, c).arch = srv.arch
        BY <1>0 DEF Answer, Answers, ServerProc
      <3>2. QED
        BY <2>0, <2>1, <3>1
    <2>3. PICK x \in Nat : e.minted = Issued(x)
      <3>1. CASE r.op = "register"
        <4>1. r.id \in Nat
          BY <1>0, <3>1, SMT DEF Requests
        <4>2. QED
          BY <1>5, <3>1, <4>1 DEF Issuing, Parts
      <3>2. CASE r.op = "renew"
        <4>1. r.cur \in Nat /\ r.cur <= Len(minted) /\ r.cur # 0
          <5>1. r.cur \in Nat
            BY <1>0 DEF Requests
          <5>2. QED
            BY <3>2, <5>1 DEF Inv, SpentInv
        <4>2. minted[r.cur].agent \in Nat
          <5>1. minted[r.cur] \in [agent : Nat, at : Nat]
            <6>1. ASSUME NEW S, minted \in Seq(S) PROVE minted[r.cur] \in S
              BY <1>1, <4>1, <6>1, SMT
            <6>2. QED
              BY <1>0, <6>1
          <5>2. QED
            BY <5>1
        <4>3. QED
          BY <1>5, <3>2, <4>2 DEF Issuing, Parts
      <3>3. QED
        BY <1>5, <3>1, <3>2 DEF Issuing
    <2>4. /\ e.minted \in Seq([agent : Nat, at : Nat]) /\ Len(e.minted) = Len(minted) + 1
      BY <1>0, <2>3, SMT DEF Issued
    <2>5. /\ Len(e.minted) \in Nat /\ Len(minted) <= Len(e.minted) /\ Len(e.minted) <= left.creds
          /\ Len(minted) + 1 <= Len(e.minted)
      <3>1. Len(minted) < left.creds
        BY <1>5 DEF Issuing
      <3>2. QED
        BY <1>0, <1>1, <2>4, <3>1, SMT
    <2>6. e.db \in Database /\ e.db.gen = db.gen /\ e.db.arch = db.arch
      <3>1. CASE r.op = "register" /\ e.db = [db EXCEPT !.rows = @ \cup {r.id}, !.tokens = [@ EXCEPT ![r.tok].used = TRUE]]
        <4>1. r.id \in Nat
          BY <1>0, <3>1, SMT DEF Requests
        <4>2. [db.tokens EXCEPT ![r.tok].used = TRUE] \in [1..MaxTokens -> TokenRow]
          BY <1>0 DEF Database, TokenRow
        <4>3. db.rows \cup {r.id} \in SUBSET Nat
          BY <1>0, <4>1 DEF Database
        <4>4. QED
          BY <1>0, <3>1, <4>2, <4>3 DEF Database
      <3>2. CASE e.db = db
        BY <1>0, <3>2
      <3>3. QED
        BY <1>5, <3>1, <3>2 DEF Issuing, Parts
    <2>7. QED
      BY <1>0, <1>2, <2>1, <2>2, <2>4, <2>5, <2>6, LedgersSpent DEF Effective
  <1>6. CASE Revoking(e, r)
    <2> DEFINE v == [gen |-> srv.gen, rev |-> srv.rev \cup {r.prev}]
    <2>1. PICK w \in Saves(ident, v, left.sfaults) :
            Parts(e, minted,
                  [srv EXCEPT !.rev = IF w.res = "unwritten" THEN @ ELSE @ \cup {r.prev}],
                  w.file, db, IF w.res = "ok" THEN told \cup {r.prev} ELSE told, Paid(w),
                  Answer(w.res = "ok", 0))
      BY <1>6 DEF Revoking
    <2>2. r.op = "activate" /\ r.prev \in Spent /\ r.prev \in Nat
      BY <1>3, <1>6 DEF Revoking
    <2>3. /\ e.srv \in ServerProc /\ e.srv.pc = srv.pc /\ e.srv.gen = srv.gen /\ e.srv.arch = srv.arch
          /\ e.srv.rev \subseteq srv.rev \cup {r.prev}
      <3>1. e.srv = srv \/ e.srv = [srv EXCEPT !.rev = @ \cup {r.prev}]
        <4>1. CASE w.res = "unwritten"
          BY <1>0, <2>1, <4>1, SMT DEF Parts, ServerProc
        <4>2. CASE w.res # "unwritten"
          BY <2>1, <4>2 DEF Parts
        <4>3. QED
          BY <4>1, <4>2
      <3>2. srv.rev \cup {r.prev} \in SUBSET Nat
        BY <1>0, <2>2 DEF ServerProc
      <3>3. QED
        BY <1>0, <3>1, <3>2 DEF ServerProc
    <2>4. v \in Identity /\ v.gen = srv.gen /\ v.rev = srv.rev \cup {r.prev}
      BY <1>0, <2>2 DEF Identity, ServerProc
    <2> HIDE DEF v
    <2>5. Ledgered(e.ident)
      <3>1. /\ w.file \in FileOf(Identity) /\ w.file.seen \in w.file.may
            /\ w.file.may \subseteq ident.may \cup {v}
        BY <1>0, <2>4, SavedFile
      <3>2. v.rev \subseteq Spent
        BY <2>2, <2>4, LedgersSpent
      <3>3. QED
        BY <2>1, <2>4, <3>1, <3>2 DEF Ledgered, Parts
    <2>6. /\ e.ans \in Answers /\ e.ans.done /\ e.ans.gen = srv.gen /\ e.ans.arch = srv.arch
      <3>1. e.ans = Answer(w.res = "ok", 0) /\ (w.res = "ok") \in BOOLEAN
        BY <2>1 DEF Parts
      <3>2. QED
        BY <1>0, <3>1, PlainAnswers
    <2>7. Kept(e.left)
      <3>1. e.left = Paid(w)
        BY <2>1 DEF Parts
      <3>2. QED
        BY <1>0, <3>1, PaidKept
    <2>8. /\ e.minted = minted /\ e.db = db /\ e.told \in SUBSET Nat
      <3>1. e.minted = minted /\ e.db = db /\ e.told \in {told, told \cup {r.prev}}
        BY <2>1 DEF Parts
      <3>2. QED
        BY <1>0, <2>2, <3>1
    <2>9. QED
      BY <1>0, <1>1, <2>2, <2>3, <2>5, <2>6, <2>7, <2>8, LedgersSpent DEF Effective
  <1>7. QED
    BY <1>0, <1>4, <1>5, <1>6, HandlerCases


(* A handled request keeps the invariant, whether its caller still waits    *)
(* for the answer or not.                                                   *)
LEMMA LeavesKeeps ==
    ASSUME Inv, srv.pc = "up", NEW r \in Pending, NEW e \in Handled(r), Leaves(e),
           UNCHANGED <<now, bak, disk, token, named>>, late' \in SUBSET late,
           ag' = ag \/ (r = ag.call /\ ag.call # NoCall /\ ag' = [ag EXCEPT !.ans = e.ans])
    PROVE  Inv'
  <1>0. Effective(e, r) /\ ag \in AgentProc /\ Controlled(ag) /\ AgentRight(ag, disk)
    BY HandlerEffects, AgentTypes DEF Inv, AgentInv
  <1>1. /\ minted' = e.minted /\ srv' = e.srv /\ ident' = e.ident /\ db' = e.db /\ told' = e.told /\ left' = e.left
    BY DEF Leaves
  <1>2. /\ ag' \in AgentProc /\ ag'.pc = ag.pc /\ ag'.booting = ag.booting /\ ag'.ready = ag.ready
        /\ ag'.cred = ag.cred /\ ag'.mem = ag.mem /\ ag'.call = ag.call
        /\ ag'.ans = ag.ans \/ (r = ag.call /\ ag.call # NoCall /\ ag'.ans = e.ans)
    <2>1. e.ans \in Answers \cup {NoAns}
      BY <1>0 DEF Effective
    <2>2. QED
      BY <1>0, <2>1 DEF AgentProc
  <1>3. Types'
    <2>1. minted' \in Seq([agent : Nat, at : Nat]) /\ srv' \in ServerProc /\ db' \in Database /\ told' \in SUBSET Nat
      BY <1>0, <1>1 DEF Effective
    <2>2. ident' \in [seen : Identity, may : SUBSET Identity] /\ ident'.seen \in ident'.may /\ left' \in Limits
      BY <1>0, <1>1 DEF Effective, Ledgered, FileOf, Kept
    <2>3. QED
      BY <1>2, <2>1, <2>2 DEF Inv, Types
  <1>4. ArchInv'
    <2>1. /\ srv'.pc = "up" /\ srv'.gen = srv.gen /\ srv'.arch = srv.arch
          /\ db'.gen = db.gen /\ db'.arch = db.arch
      BY <1>0, <1>1 DEF Effective
    <2>2. <<srv.gen, srv.arch>> \in named /\ \A p \in named : p[1] <= srv.gen
      BY DEF Inv, ArchInv, ServerArchives
    <2>3. ASSUME NEW p \in named, NEW v \in ident'.may PROVE p[1] <= v.gen
      BY <1>0, <1>1, <2>2 DEF Effective, Ledgered, Inv, ArchInv, ServerArchives
    <2>4. ServerArchives'
      BY <2>1, <2>2, <2>3 DEF Inv, ArchInv, ServerArchives, Known
    <2>5. AgentArchives'
      <3>1. ag'.ans.done => <<ag'.ans.gen, ag'.ans.arch>> \in named
        BY <1>0, <1>2, <2>2 DEF Effective, Inv, ArchInv, AgentArchives
      <3>2. QED
        BY <1>2, <3>1 DEF Inv, ArchInv, AgentArchives, Known
    <2>6. QED
      BY <2>4, <2>5 DEF Inv, ArchInv, NamedOnce
  <1>5. AgentInv'
    <2>1. AgentRight(ag', disk)
      BY <1>0, <1>2 DEF AgentRight, Controlled
    <2>2. srv'.pc = "up"
      BY <1>0, <1>1 DEF Effective
    <2>3. QED
      BY <2>1, <2>2 DEF AgentInv, OnlineUp
  <1>6. SpentInv'
    <2>1. /\ Len(minted) <= Len(minted') /\ Len(minted') \in Nat /\ Len(minted') <= left'.creds /\ now' <= left'.time
      BY <1>0, <1>1 DEF Effective, Kept, Inv, SpentInv
    <2>2. Pending' \subseteq Pending
      BY <1>2 DEF Pending
    <2>3. srv'.rev \subseteq Spent /\ \A s \in ident'.may : s.rev \subseteq Spent
      BY <1>0, <1>1, LedgersSpent DEF Effective, Ledgered
    <2>4. ASSUME Brings'
          PROVE  (Brings /\ ag'.ans = ag.ans)
                    \/ (ag'.ans.cred = Len(minted) + 1 /\ Len(minted) + 1 <= Len(minted'))
      <3>1. CASE ag'.ans = ag.ans
        BY <1>2, <2>4, <3>1 DEF Brings
      <3>2. CASE r = ag.call /\ ag'.ans = e.ans
        <4>1. ag.pc \in {"enrol", "renewing"} /\ e.ans.ok
          BY <1>2, <2>4, <3>2 DEF Brings
        <4>2. r.op # "activate"
          BY <1>0, <3>2, <4>1 DEF Controlled
        <4>3. QED
          BY <1>0, <1>1, <3>2, <4>1, <4>2 DEF Effective
      <3>3. QED
        BY <1>2, <3>1, <3>2
    <2>5. QED
      BY <2>1, <2>2, <2>3, <2>4, SpentKeeps
  <1>7. QED
    BY <1>3, <1>4, <1>5, <1>6 DEF Inv

(* The Server handles the call the Agent is waiting for.                    *)
LEMMA HandleKeeps == Inv /\ Handle => Inv'
  <1> SUFFICES ASSUME Inv, Handle PROVE Inv'
    OBVIOUS
  <1>1. PICK e \in Handled(ag.call) : Leaves(e) /\ ag' = [ag EXCEPT !.ans = e.ans]
    BY DEF Handle
  <1>2. ag.call \in Pending /\ ag.call # NoCall
    BY DEF Handle, Pending
  <1>3. QED
    BY <1>1, <1>2, LeavesKeeps DEF Handle

(* The Server handles a request whose caller has given up.                  *)
LEMMA HandleLateKeeps == Inv /\ HandleLate => Inv'
  <1> SUFFICES ASSUME Inv, HandleLate PROVE Inv'
    OBVIOUS
  <1>1. PICK r \in late : \E e \in Handled(r) : Leaves(e) /\ late' = late \ {r}
    BY DEF HandleLate
  <1>2. r \in Pending /\ late' \in SUBSET late
    BY <1>1 DEF Pending
  <1>3. QED
    BY <1>1, <1>2, LeavesKeeps DEF HandleLate

(* Enough for a step that leaves the Agent alone, and the names of the      *)
(* archives.                                                                *)
LEMMA ServerMoves ==
    ASSUME Inv, UNCHANGED <<minted, ag, disk, late, told, named>>,
           now' \in Nat, now' <= left'.time, Kept(left'), srv' \in ServerProc,
           ident' \in FileOf(Identity), ident'.seen \in ident'.may, db' \in Database, bak' \in Database,
           token' \in Nat, ServerArchives', ag.pc = "online" => srv'.pc = "up",
           srv'.rev \subseteq Spent, \A s \in ident'.may : s.rev \subseteq Spent
    PROVE  Inv'
  <1>1. Types'
    BY DEF Inv, Types, Kept, FileOf
  <1>2. ArchInv'
    BY DEF Inv, ArchInv, NamedOnce, AgentArchives, Known
  <1>3. AgentInv'
    BY DEF Inv, AgentInv, OnlineUp
  <1>4. SpentInv'
    BY NothingSpent DEF Kept, Brings
  <1>5. QED
    BY <1>1, <1>2, <1>3, <1>4 DEF Inv


(* What every step of the Server may use. *)
LEMMA ServerTypes ==
    ASSUME Inv
    PROVE  /\ srv \in ServerProc /\ ident \in FileOf(Identity) /\ ident.seen \in ident.may /\ ident.seen \in Identity
           /\ db \in Database /\ bak \in Database /\ token \in Nat /\ now \in Nat /\ left \in Limits /\ Kept(left)
           /\ now <= left.time /\ ServerArchives /\ OnlineUp(ag)
  BY DEF Inv, Types, FileOf, Kept, SpentInv, ArchInv, AgentInv

(* The Server boots from its identity file and its database.                *)
LEMMA BootstrapKeeps == Inv /\ Bootstrap => Inv'
  <1> SUFFICES ASSUME Inv, Bootstrap PROVE Inv'
    OBVIOUS
  <1> DEFINE s == ident.seen
             v == [s EXCEPT !.gen = @ + 1]
  <1>0. /\ srv.pc = "down" /\ UNCHANGED <<now, minted, db, bak, ag, disk, token, late, told, named>>
        /\ s \in Identity /\ s.gen \in Nat /\ s.rev \in SUBSET Nat /\ s \in ident.may /\ ag.pc # "online"
    BY ServerTypes DEF Bootstrap, agentVars, Identity, OnlineUp
  <1>1. s.rev \subseteq Spent /\ \A p \in named : p[1] <= s.gen
    BY <1>0, LedgersSpent, ServerTypes DEF ServerArchives
  <1>2. CASE UNCHANGED <<srv, ident, left>>
    <2>1. ServerArchives'
      BY <1>0, <1>2, ServerTypes DEF ServerArchives, Known
    <2>2. QED
      BY <1>0, <1>2, <2>1, ServerTypes, LedgersSpent, ServerMoves
  <1>3. CASE /\ db.gen = s.gen /\ s.gen > 0 /\ UNCHANGED <<ident, left>>
             /\ srv' = [pc |-> "up", gen |-> s.gen, arch |-> db.arch, rev |-> s.rev]
    <2>1. srv' \in ServerProc /\ srv'.pc = "up" /\ srv'.gen = s.gen /\ srv'.arch = db.arch /\ srv'.rev = s.rev
      BY <1>0, <1>3, ServerTypes DEF ServerProc, Database
    <2>2. <<s.gen, db.arch>> \in named
      BY <1>3, ServerTypes DEF ServerArchives, Known
    <2>3. ServerArchives'
      BY <1>0, <1>1, <1>3, <2>1, <2>2, ServerTypes DEF ServerArchives, Known
    <2>4. QED
      BY <1>0, <1>1, <1>3, <2>1, <2>3, ServerTypes, LedgersSpent, ServerMoves
  <1>4. ASSUME NEW w \in Saves(ident, v, left.sfaults), ident' = w.file, left' = Paid(w),
               srv' = IF w.res = "ok" THEN [pc |-> "commit", gen |-> s.gen + 1, arch |-> 0, rev |-> s.rev] ELSE srv
        PROVE  Inv'
    <2>1. v \in Identity /\ v.gen = s.gen + 1 /\ v.rev = s.rev
      BY <1>0, SMT DEF Identity
    <2> HIDE DEF v
    <2>2. ident' \in FileOf(Identity) /\ ident'.seen \in ident'.may /\ ident'.may \subseteq ident.may \cup {v}
      BY <1>4, <2>1, SavedFile, ServerTypes
    <2>3. Kept(left')
      BY <1>4, PaidKept, ServerTypes
    <2>4. \A u \in ident'.may : u.rev \subseteq Spent
      BY <1>1, <2>1, <2>2, LedgersSpent
    <2>5. ASSUME NEW p \in named PROVE p[1] < s.gen + 1 /\ p[1] <= s.gen + 1
      <3>1. p[1] \in Nat
        BY DEF Inv, ArchInv, NamedOnce
      <3>2. QED
        BY <1>0, <1>1, <3>1, SMT
    <2>6. \A p \in named : \A u \in ident'.may : p[1] <= u.gen
      BY <2>1, <2>2, <2>5, ServerTypes DEF ServerArchives
    <2>7. CASE w.res = "ok"
      <3>0. 0 \in Nat /\ s.gen + 1 \in Nat /\ s.gen + 1 <= s.gen + 1
        BY <1>0, SMT
      <3>1. srv' \in ServerProc /\ srv'.pc = "commit" /\ srv'.gen = s.gen + 1 /\ srv'.rev = s.rev
        BY <1>0, <1>4, <2>7, <3>0 DEF ServerProc
      <3>2. \A u \in ident'.may : u = v
        <4>1. ident' = File(v)
          BY <1>4, <2>7, SMT DEF Saves
        <4>2. QED
          BY <4>1, SMT DEF File
      <3>3. ServerArchives'
        BY <1>0, <2>1, <2>5, <2>6, <3>0, <3>1, <3>2, ServerTypes DEF ServerArchives, Known
      <3>4. now' <= left'.time
        BY <1>0, <2>3, ServerTypes DEF Kept
      <3>5. QED
        BY <1>0, <1>1, <2>2, <2>3, <2>4, <3>1, <3>3, <3>4, ServerTypes, ServerMoves
    <2>8. CASE w.res # "ok"
      <3>1. srv' = srv
        BY <1>4, <2>8
      <3>2. ServerArchives'
        BY <1>0, <2>6, <3>1, ServerTypes DEF ServerArchives, Known
      <3>3. now' <= left'.time
        BY <1>0, <2>3, ServerTypes DEF Kept
      <3>4. QED
        BY <1>0, <2>2, <2>3, <2>4, <3>1, <3>2, <3>3, ServerTypes, LedgersSpent, ServerMoves
    <2>9. QED
      BY <2>7, <2>8
  <1>5. QED
    BY <1>2, <1>3, <1>4 DEF Bootstrap

(* Expired revocations are dropped from the ledger.                         *)
LEMMA CompactRevocationsKeeps == Inv /\ CompactRevocations => Inv'
  <1> SUFFICES ASSUME Inv, CompactRevocations PROVE Inv'
    OBVIOUS
  <1> DEFINE kept == {c \in srv.rev : ~Expired(c)}
             v == [gen |-> srv.gen, rev |-> kept]
  <1>0. /\ srv.pc = "up" /\ UNCHANGED <<now, minted, db, bak, ag, disk, token, late, told, named>>
        /\ srv.gen \in Nat /\ srv.rev \in SUBSET Nat
    BY ServerTypes DEF CompactRevocations, agentVars, ServerProc
  <1>1. PICK w \in Saves(ident, v, left.sfaults) :
            /\ ident' = w.file /\ left' = Paid(w)
            /\ srv' = [srv EXCEPT !.rev = IF w.res = "unwritten" THEN @ ELSE kept]
    BY DEF CompactRevocations
  <1>2. kept \in SUBSET Nat /\ kept \subseteq srv.rev
    BY <1>0
  <1> HIDE DEF kept
  <1>3. v \in Identity /\ v.gen = srv.gen /\ v.rev = kept
    BY <1>0, <1>2 DEF Identity
  <1> HIDE DEF v
  <1>4. ident' \in FileOf(Identity) /\ ident'.seen \in ident'.may /\ ident'.may \subseteq ident.may \cup {v}
    BY <1>1, <1>3, SavedFile, ServerTypes
  <1>5. Kept(left')
    BY <1>1, PaidKept, ServerTypes
  <1>6. /\ srv' \in ServerProc /\ srv'.pc = "up" /\ srv'.gen = srv.gen /\ srv'.arch = srv.arch
        /\ srv'.rev \subseteq srv.rev
    BY <1>0, <1>1, <1>2, ServerTypes DEF ServerProc
  <1>7. srv'.rev \subseteq Spent /\ \A u \in ident'.may : u.rev \subseteq Spent
    BY <1>2, <1>3, <1>4, <1>6, LedgersSpent
  <1>8. ServerArchives'
    BY <1>0, <1>3, <1>4, <1>6, ServerTypes DEF ServerArchives, Known
  <1>9. now' <= left'.time
    BY <1>0, <1>5, ServerTypes DEF Kept
  <1>10. QED
    BY <1>0, <1>4, <1>5, <1>6, <1>7, <1>8, <1>9, ServerTypes, ServerMoves


(* The archive that is named has a generation and a number of its own. *)
LEMMA NamedKeeps == Inv /\ CommitArchive => NamedOnce' /\ \A p \in named' : p[1] <= srv.gen
  <1> SUFFICES ASSUME Inv, CommitArchive PROVE NamedOnce' /\ \A p \in named' : p[1] <= srv.gen
    OBVIOUS
  <1> DEFINE n == Cardinality(named)
  <1>0. /\ NamedOnce /\ srv.gen \in Nat /\ \A p \in named : p[1] < srv.gen
    BY ServerTypes DEF Inv, ArchInv, CommitArchive, ServerArchives, ServerProc
  <1>1. named' = named \cup {<<srv.gen, n + 1>>}
    BY DEF CommitArchive
  <1>2. n \in Nat
    BY <1>0, FS_CardinalityType DEF NamedOnce
  <1>3. \A p \in named : p[1] \in Nat /\ p[2] \in Nat /\ p[2] <= n
    BY <1>0 DEF NamedOnce
  <1>4. <<srv.gen, n + 1>> \notin named
    BY <1>0, <1>2, <1>3, SMT
  <1>5. IsFiniteSet(named') /\ Cardinality(named') = n + 1
    BY <1>0, <1>1, <1>4, FS_AddElement DEF NamedOnce
  <1> HIDE DEF n
  <1>6. named' \in SUBSET (Nat \X Nat)
    BY <1>0, <1>1, <1>2, SMT DEF NamedOnce
  <1>7. ASSUME NEW p \in named', NEW q \in named', p[1] = q[1] \/ p[2] = q[2] PROVE p = q
    <2>1. CASE p \in named /\ q \in named
      BY <1>0, <1>7, <2>1 DEF NamedOnce
    <2>2. CASE p = <<srv.gen, n + 1>> /\ q \in named
      BY <1>0, <1>2, <1>3, <1>7, <2>2, SMT
    <2>3. CASE p \in named /\ q = <<srv.gen, n + 1>>
      BY <1>0, <1>2, <1>3, <1>7, <2>3, SMT
    <2>4. CASE p = <<srv.gen, n + 1>> /\ q = <<srv.gen, n + 1>>
      BY <2>4
    <2>5. QED
      BY <1>1, <2>1, <2>2, <2>3, <2>4
  <1>8. \A p \in named' : p[2] <= Cardinality(named') /\ p[1] <= srv.gen
    BY <1>0, <1>1, <1>2, <1>3, <1>5, SMT
  <1>9. QED
    BY <1>5, <1>6, <1>7, <1>8 DEF NamedOnce

(* The Server commits the archive of its new generation.                    *)
LEMMA CommitArchiveKeeps == Inv /\ CommitArchive => Inv'
  <1> SUFFICES ASSUME Inv, CommitArchive PROVE Inv'
    OBVIOUS
  <1> DEFINE x == Cardinality(named) + 1
  <1>0. /\ srv.pc = "commit" /\ UNCHANGED <<now, minted, ident, bak, ag, disk, token, late, told, left>>
        /\ named' = named \cup {<<srv.gen, x>>}
        /\ db' = [db EXCEPT !.gen = srv.gen, !.arch = x] /\ srv' = [srv EXCEPT !.pc = "up", !.arch = x]
        /\ srv.gen \in Nat
    BY ServerTypes DEF CommitArchive, agentVars, ServerProc
  <1>1. x \in Nat
    <2>1. Cardinality(named) \in Nat
      BY FS_CardinalityType DEF Inv, ArchInv, NamedOnce
    <2>2. QED
      BY <2>1, SMT
  <1> HIDE DEF x
  <1>2. /\ srv' \in ServerProc /\ srv'.pc = "up" /\ srv'.gen = srv.gen /\ srv'.arch = x /\ srv'.rev = srv.rev
        /\ db' \in Database /\ db'.gen = srv.gen /\ db'.arch = x
    BY <1>0, <1>1, ServerTypes DEF ServerProc, Database
  <1>3. NamedOnce' /\ \A p \in named' : p[1] <= srv.gen
    BY NamedKeeps
  <1>4. Types'
    BY <1>0, <1>2 DEF Inv, Types
  <1>5. ArchInv'
    <2>1. \A y : Known(y) => (y.gen > 0 => <<y.gen, y.arch>> \in named')
      BY <1>0 DEF Known
    <2>2. \A p \in named' : \A v \in ident'.may : p[1] <= v.gen
      <3>1. \A v \in ident.may : srv.gen <= v.gen
        BY <1>0, ServerTypes DEF ServerArchives
      <3>2. \A p \in named : \A v \in ident.may : p[1] <= v.gen
        BY ServerTypes DEF ServerArchives
      <3>3. <<srv.gen, x>>[1] = srv.gen
        OBVIOUS
      <3>4. QED
        BY <1>0, <3>1, <3>2, <3>3
    <2>3. ServerArchives'
      <3>1. Known(bak)'
        BY <1>0, <2>1, ServerTypes DEF ServerArchives, Known
      <3>2. Known(db)' /\ <<srv'.gen, srv'.arch>> \in named'
        <4>1. <<srv.gen, x>> \in named'
          BY <1>0
        <4>2. srv'.gen = srv.gen /\ srv'.arch = x /\ db'.gen = srv.gen /\ db'.arch = x
          BY <1>2
        <4>3. QED
          BY <4>1, <4>2, SMT DEF Known
      <3>3. \A p \in named' : p[1] <= srv'.gen
        BY <1>2, <1>3
      <3>4. srv'.pc # "commit"
        BY <1>2
      <3>5. QED
        BY <2>2, <3>1, <3>2, <3>3, <3>4 DEF ServerArchives
    <2>4. AgentArchives'
      BY <1>0, <2>1 DEF Inv, ArchInv, AgentArchives, Known
    <2>5. QED
      BY <1>3, <2>3, <2>4 DEF ArchInv
  <1>6. AgentInv'
    BY <1>0, <1>2 DEF Inv, AgentInv, OnlineUp
  <1>7. SpentInv'
    BY <1>0, <1>2, LedgersSpent, ServerTypes, NothingSpent DEF Brings
  <1>8. QED
    BY <1>4, <1>5, <1>6, <1>7 DEF Inv

(* The Server process dies between any two of its steps.                    *)
LEMMA ServerStopKeeps == Inv /\ ServerStop => Inv'
  <1> SUFFICES ASSUME Inv, ServerStop PROVE Inv'
    OBVIOUS
  <1>0. /\ UNCHANGED <<now, minted, db, bak, disk, token, late, told, named>>
        /\ srv' = [pc |-> "down", gen |-> 0, arch |-> 0, rev |-> {}]
        /\ left' = [left EXCEPT !.stops = @ - 1] /\ left.stops > 0 /\ ident' \in Reread(ident)
    BY DEF ServerStop
  <1>1. Kept(left')
    BY <1>0, ServerTypes, SMT DEF Kept, Limits
  <1>2. ident' \in FileOf(Identity) /\ ident'.seen \in ident'.may /\ ident'.may \subseteq ident.may
    BY <1>0, RereadFile, ServerTypes
  <1>3. srv' \in ServerProc /\ srv'.pc = "down" /\ srv'.rev = {}
    BY <1>0, SMT DEF ServerProc
  <1>4. /\ ag' \in AgentProc /\ ag'.mem = ag.mem /\ ag'.call = ag.call /\ ag'.ans = ag.ans /\ ag'.pc # "online"
        /\ ag'.pc = ag.pc \/ (ag.pc = "online" /\ ag'.pc = "check")
        /\ ag'.booting = ag.booting /\ ag'.ready = ag.ready /\ ag'.cred = ag.cred
    <2>1. CASE ag.pc = "online"
      <3>1. ag' = Goes(ag, "check") /\ "check" \in AgentPcs /\ ag.call = NoCall /\ ag.ans = NoAns
        BY <2>1, AgentTypes DEF ServerStop, AgentPcs, Controlled, CallPcs
      <3>2. QED
        BY <2>1, <3>1, GoesIs, AgentTypes
    <2>2. CASE ag.pc # "online"
      BY <2>2, AgentTypes DEF ServerStop
    <2>3. QED
      BY <2>1, <2>2
  <1>5. Types'
    BY <1>0, <1>1, <1>2, <1>3, <1>4 DEF Inv, Types, Kept, FileOf
  <1>6. ArchInv'
    <2>1. ServerArchives'
      BY <1>0, <1>2, <1>3, ServerTypes DEF ServerArchives, Known
    <2>2. QED
      BY <1>0, <1>4, <2>1 DEF Inv, ArchInv, NamedOnce, AgentArchives, Known
  <1>7. AgentInv'
    <2>1. AgentRight(ag, disk)
      BY DEF Inv, AgentInv
    <2>2. AgentRight(ag', disk)
      BY <1>4, <2>1 DEF AgentRight, Controlled, CallPcs
    <2>3. QED
      BY <1>0, <1>4, <2>2 DEF AgentInv, OnlineUp
  <1>8. SpentInv'
    <2>1. Brings' => Brings /\ ag'.ans = ag.ans
      BY <1>4 DEF Brings
    <2>2. srv'.rev \subseteq Spent /\ \A s \in ident'.may : s.rev \subseteq Spent
      BY <1>2, <1>3, LedgersSpent
    <2>3. now' <= left'.time /\ left'.creds = left.creds
      BY <1>0, <1>1, ServerTypes DEF Kept
    <2>4. QED
      BY <1>0, <1>4, <2>1, <2>2, <2>3, NothingSpent
  <1>9. QED
    BY <1>5, <1>6, <1>7, <1>8 DEF Inv


(* An operator issues an enrolment token.                                   *)
LEMMA IssueTokenKeeps == \A k \in TokenKinds : Inv /\ IssueToken(k) => Inv'
  <1> SUFFICES ASSUME NEW k \in TokenKinds, Inv, IssueToken(k) PROVE Inv'
    OBVIOUS
  <1>0. UNCHANGED <<now, minted, srv, ident, bak, ag, disk, late, told, named, left>> /\ token' = token + 1
    BY DEF IssueToken, agentVars
  <1>1. PICK a \in Nat :
            db' = [db EXCEPT !.tokens =
                    [@ EXCEPT ![token'] = [kind |-> k, agent |-> a, at |-> now, used |-> FALSE]]]
    <2>1. db.rows \in SUBSET Nat /\ 0 \in Nat
      BY ServerTypes, SMT DEF Database
    <2>2. QED
      BY <2>1 DEF IssueToken
  <1>2. token' \in Nat
    BY <1>0, ServerTypes, SMT
  <1>3. db' \in Database /\ db'.gen = db.gen /\ db'.arch = db.arch
    <2>1. [kind |-> k, agent |-> a, at |-> now, used |-> FALSE] \in TokenRow
      BY <1>1, ServerTypes, SMT DEF TokenRow, TokenKinds
    <2>2. db \in Database /\ db.tokens \in [1..MaxTokens -> TokenRow]
      BY ServerTypes DEF Database
    <2>3. [db.tokens EXCEPT ![token'] = [kind |-> k, agent |-> a, at |-> now, used |-> FALSE]]
            \in [1..MaxTokens -> TokenRow]
      BY <2>1, <2>2
    <2>4. QED
      BY <1>1, <2>2, <2>3 DEF Database
  <1>4. ServerArchives'
    BY <1>0, <1>3, ServerTypes DEF ServerArchives, Known
  <1>5. QED
    BY <1>0, <1>2, <1>3, <1>4, ServerTypes, LedgersSpent, ServerMoves DEF OnlineUp

(* An operator copies the database.                                         *)
LEMMA BackupKeeps == Inv /\ Backup => Inv'
  <1> SUFFICES ASSUME Inv, Backup PROVE Inv'
    OBVIOUS
  <1>0. UNCHANGED <<now, minted, srv, ident, db, ag, disk, token, late, told, named, left>> /\ bak' = db
    BY DEF Backup, agentVars
  <1>1. ServerArchives'
    BY <1>0, ServerTypes DEF ServerArchives, Known
  <1>2. QED
    BY <1>0, <1>1, ServerTypes, LedgersSpent, ServerMoves DEF OnlineUp

(* An operator brings an old copy of the database back.                     *)
LEMMA RestoreDatabaseKeeps == Inv /\ RestoreDatabase => Inv'
  <1> SUFFICES ASSUME Inv, RestoreDatabase PROVE Inv'
    OBVIOUS
  <1>0. /\ UNCHANGED <<now, minted, srv, ident, bak, ag, disk, token, late, told, named>> /\ db' = bak
        /\ left' = [left EXCEPT !.restores = @ - 1] /\ left.restores > 0
    BY DEF RestoreDatabase, agentVars
  <1>1. ServerArchives'
    BY <1>0, ServerTypes DEF ServerArchives, Known
  <1>2. Kept(left')
    BY <1>0, ServerTypes, SMT DEF Kept, Limits
  <1>3. now' <= left'.time
    BY <1>0, <1>2, ServerTypes DEF Kept
  <1>4. QED
    BY <1>0, <1>1, <1>2, <1>3, ServerTypes, LedgersSpent, ServerMoves DEF OnlineUp

(* Time passes.                                                             *)
LEMMA TickKeeps == Inv /\ Tick => Inv'
  <1> SUFFICES ASSUME Inv, Tick PROVE Inv'
    OBVIOUS
  <1>0. UNCHANGED <<minted, srv, ident, db, bak, ag, disk, token, late, told, named, left>>
    BY DEF Tick, agentVars, serverVars
  <1>1. ServerArchives'
    BY <1>0, ServerTypes DEF ServerArchives, Known
  <1>2. now' \in Nat /\ now' <= left'.time
    BY <1>0, ServerTypes, SMT DEF Tick, Limits
  <1>3. QED
    BY <1>0, <1>1, <1>2, ServerTypes, LedgersSpent, ServerMoves DEF OnlineUp

(***************************************************************************)
(* The invariant                                                           *)
(***************************************************************************)

(* The invariant holds before either side has started.                      *)
LEMMA InvInit == Init => Inv
  <1> SUFFICES ASSUME Init PROVE Inv
    OBVIOUS
  <1>1. EmptyDB \in Database /\ EmptyDB.gen = 0
    <2>1. NoToken \in TokenRow
      BY SMT DEF NoToken, TokenRow
    <2>2. QED
      BY <2>1, SMT DEF EmptyDB, Database
  <1>2. Blank(1) \in Mem /\ Blank(1).cred = 0 /\ Blank(1).prev = 0 /\ Blank(1).act = 0 /\ Blank(1).gen = 0
    BY SMT DEF Blank, Mem
  <1>3. /\ ag \in AgentProc /\ ag.pc = "down" /\ ag.booting /\ ag.ready /\ ag.cred = 0 /\ ag.mem = Blank(1)
        /\ ag.call = NoCall /\ ag.ans = NoAns
    <2>1. 0 \in Nat
      BY SMT
    <2>2. QED
      BY <1>2, <2>1 DEF Init, AgentProc, AgentPcs
  <1>4. disk.seen = Blank(1) /\ disk.may = {Blank(1)} /\ disk \in FileOf(Mem)
    BY <1>2, SMT DEF Init, File, FileOf
  <1>5. /\ srv \in ServerProc /\ srv.pc = "down" /\ srv.rev = {}
        /\ ident \in FileOf(Identity) /\ ident.seen \in ident.may /\ \A s \in ident.may : s.rev = {}
    BY SMT DEF Init, ServerProc, File, FileOf, Identity
  <1>6. left \in Limits /\ left.creds \in Nat /\ left.time \in Nat
    BY CredentialsAssumption DEF Init, Limits
  <1>7. /\ now = 0 /\ now \in Nat /\ minted = <<>> /\ minted \in Seq([agent : Nat, at : Nat]) /\ Len(minted) = 0
        /\ token \in Nat /\ late = {} /\ told = {} /\ named = {} /\ db = EmptyDB /\ bak = EmptyDB
    BY SMT DEF Init
  <1>8. Types
    BY <1>1, <1>3, <1>4, <1>5, <1>6, <1>7 DEF Types, FileOf
  <1>9. ArchInv
    <2>1. NamedOnce
      BY <1>7, FS_EmptySet DEF NamedOnce
    <2>2. ~(0 > 0)
      BY SMT
    <2>3. ServerArchives
      BY <1>1, <1>5, <1>7, <2>2 DEF ServerArchives, Known
    <2>4. AgentArchives
      <3>1. ~ag.ans.done
        BY <1>3, SMT DEF NoAns
      <3>2. QED
        BY <1>2, <1>3, <1>4, <2>2, <3>1 DEF AgentArchives, Known
    <2>5. QED
      BY <2>1, <2>3, <2>4 DEF ArchInv
  <1>10. AgentInv
    <2>1. Ahead(Blank(1), Blank(1)) /\ StagedRight(Blank(1))
      BY <1>2, SMT DEF Ahead, StagedRight
    <2>2. QED
      BY <1>3, <1>4, <2>1 DEF AgentInv, AgentRight, OnlineUp, Controlled, CallPcs
  <1>11. SpentInv
    <2>1. Pending = {}
      BY <1>3, <1>7 DEF Pending
    <2>2. \A c : c \notin Spent
      BY <1>5, <2>1, SpentIs DEF IsSpent
    <2>3. ~Brings
      BY <1>3, SMT DEF Brings, NoAns
    <2>4. 0 <= Len(minted) /\ Len(minted) <= left.creds /\ now <= left.time
      BY <1>6, <1>7, SMT
    <2>5. QED
      BY <1>2, <1>4, <2>1, <2>2, <2>3, <2>4 DEF SpentInv
  <1>12. QED
    BY <1>8, <1>9, <1>10, <1>11 DEF Inv

(* A step that changes nothing keeps the invariant.                         *)
LEMMA InvStutters == Inv /\ UNCHANGED vars => Inv'
  <1> SUFFICES ASSUME Inv, UNCHANGED vars PROVE Inv'
    OBVIOUS
  <1>0. UNCHANGED <<now, minted, srv, ident, db, bak, ag, disk, token, late, told, named, left>>
    BY DEF vars
  <1>1. ServerArchives'
    BY <1>0, ServerTypes DEF ServerArchives, Known
  <1>2. QED
    BY <1>0, <1>1, ServerTypes, LedgersSpent, ServerMoves DEF OnlineUp

(* Every step keeps the invariant. *)
LEMMA InvStep == Inv /\ [Next]_vars => Inv'
  <1> SUFFICES ASSUME Inv, [Next]_vars PROVE Inv'
    OBVIOUS
  <1>1. CASE AgentStep
    BY <1>1, OpenKeeps, LoadOrRegisterKeeps, FinishEnrolKeeps, ResumeActivationKeeps, FinishResumeKeeps,
       RenewIfDueKeeps, FinishRenewKeeps, FinishActivateKeeps, DialKeeps, BindAnnouncedKeeps DEF AgentStep
  <1>2. CASE Drop \/ GiveUp \/ AgentStop \/ LoseVolume
    BY <1>2, DropKeeps, GiveUpKeeps, AgentStopKeeps, LoseVolumeKeeps
  <1>3. CASE ServerStep
    BY <1>3, BootstrapKeeps, CommitArchiveKeeps, HandleKeeps DEF ServerStep
  <1>4. CASE HandleLate \/ CompactRevocations \/ ServerStop
    BY <1>4, HandleLateKeeps, CompactRevocationsKeeps, ServerStopKeeps
  <1>5. CASE \E k \in TokenKinds : IssueToken(k)
    BY <1>5, IssueTokenKeeps
  <1>6. CASE Backup \/ RestoreDatabase \/ Tick
    BY <1>6, BackupKeeps, RestoreDatabaseKeeps, TickKeeps
  <1>7. CASE UNCHANGED vars
    BY <1>7, InvStutters
  <1>8. QED
    BY <1>1, <1>2, <1>3, <1>4, <1>5, <1>6, <1>7 DEF Next


(***************************************************************************)
(* Revocations                                                             *)
(***************************************************************************)

(* The ledger in memory is the only one on the disk. *)
LedgerOne(f, s) == f.may = {f.seen} /\ (s.pc # "down" => s.rev = f.seen.rev)

(* Time and new credentials do not make a credential valid again. *)
LEMMA ExpiredStays ==
    ASSUME Types, NEW c \in 1..Len(minted), now' \in Nat, now <= now',
           minted' = minted \/ \E x : minted' = Append(minted, x)
    PROVE  c \in 1..Len(minted') /\ (Expired(c) => Expired(c)')
  <1>1. minted \in Seq([agent : Nat, at : Nat]) /\ now \in Nat /\ Lifetime \in Nat /\ Len(minted) \in Nat
    BY CredentialsAssumption, SMT DEF Types
  <1>2. c \in 1..Len(minted') /\ minted'[c] = minted[c]
    BY <1>1, SMT
  <1>3. minted[c].at \in Nat
    <2>1. minted[c] \in [agent : Nat, at : Nat]
      <3>1. ASSUME NEW S, minted \in Seq(S) PROVE minted[c] \in S
        BY <1>1, <3>1, SMT
      <3>2. QED
        BY <1>1, <3>1
    <2>2. QED
      BY <2>1
  <1>4. QED
    BY <1>1, <1>2, <1>3, SMT DEF Expired

(* Enough for a step to keep RevokedInv: the ledger loses expired entries   *)
(* only, and what is reported is in it.                                     *)
LEMMA RevokedMoves ==
    ASSUME Inv, RevokedInv, Kept(left'), now' \in Nat, now <= now',
           minted' = minted \/ \E x : minted' = Append(minted, x),
           LedgerOne(ident', srv'),
           \A c \in told' : c \in told \/ (c \in 1..Len(minted) /\ c \in ident'.seen.rev),
           \A c \in ident.seen.rev : c \in ident'.seen.rev \/ Expired(c)
    PROVE  RevokedInv'
  <1>1. \A c \in told' : c \in 1..Len(minted) /\ (Expired(c) \/ c \in ident'.seen.rev)
    BY DEF RevokedInv
  <1>2. \A c \in told' : c \in 1..Len(minted') /\ (Expired(c)' \/ c \in ident'.seen.rev)
    BY <1>1, ExpiredStays DEF Inv
  <1>3. QED
    BY <1>2 DEF RevokedInv, LedgerOne, Kept

(* A handled request keeps RevokedInv. *)
LEMMA LeavesRevoked ==
    ASSUME Inv, RevokedInv, srv.pc = "up", NEW r \in Pending, NEW e \in Handled(r), Leaves(e), now' = now
    PROVE  RevokedInv'
  <1>0. /\ minted' = e.minted /\ srv' = e.srv /\ ident' = e.ident /\ told' = e.told /\ left' = e.left
        /\ Kept(left') /\ r \in Requests /\ now' \in Nat /\ now <= now' /\ srv.rev = ident.seen.rev
        /\ srv \in ServerProc /\ "unsynced" \notin left.sfaults /\ ident.may = {ident.seen}
    <2>1. now \in Nat /\ now <= now
      BY ServerTypes, SMT
    <2>2. r \in Requests
      BY DEF Inv, Types, Pending, AgentProc
    <2>3. QED
      BY <2>1, <2>2, HandlerEffects, ServerTypes DEF Leaves, Effective, RevokedInv
  <1>1. ASSUME r.op = "activate" PROVE r.prev \in 1..Len(minted)
    BY <1>1, SpentIs DEF IsSpent, Inv, SpentInv
  <1>2. CASE Answering(e, r)
    <2>1. /\ minted' = minted /\ srv' = srv /\ ident' = ident
          /\ told' = told \/ (r.op = "activate" /\ r.prev \in srv.rev /\ told' = told \cup {r.prev})
      BY <1>0, <1>2 DEF Answering, Parts
    <2>2. QED
      BY <1>0, <1>1, <2>1, RevokedMoves DEF RevokedInv, LedgerOne
  <1>3. CASE Issuing(e, r)
    <2>1. /\ srv' = srv /\ ident' = ident /\ told' = told /\ \E x : minted' = Append(minted, x)
      BY <1>0, <1>3 DEF Issuing, Parts, Issued
    <2>2. QED
      BY <1>0, <2>1, RevokedMoves DEF RevokedInv, LedgerOne
  <1>4. CASE Revoking(e, r)
    <2> DEFINE v == [gen |-> srv.gen, rev |-> srv.rev \cup {r.prev}]
    <2>1. PICK w \in Saves(ident, v, left.sfaults) :
            Parts(e, minted,
                  [srv EXCEPT !.rev = IF w.res = "unwritten" THEN @ ELSE @ \cup {r.prev}],
                  w.file, db, IF w.res = "ok" THEN told \cup {r.prev} ELSE told, Paid(w),
                  Answer(w.res = "ok", 0))
      BY <1>4 DEF Revoking
    <2>2. r.op = "activate" /\ r.prev \in 1..Len(minted)
      BY <1>1, <1>4 DEF Revoking
    <2>3. v.rev = srv.rev \cup {r.prev}
      OBVIOUS
    <2> HIDE DEF v
    <2>4. CASE w.res = "ok" /\ w.file.seen = v /\ w.file.may = {v}
      <3>1. /\ minted' = minted /\ ident' = w.file /\ told' = told \cup {r.prev}
            /\ srv'.rev = srv.rev \cup {r.prev}
        BY <1>0, <2>1, <2>4 DEF Parts, ServerProc
      <3>2. LedgerOne(ident', srv')
        BY <2>3, <2>4, <3>1 DEF LedgerOne
      <3>3. QED
        BY <1>0, <2>2, <2>3, <2>4, <3>1, <3>2, RevokedMoves
    <2>5. CASE w.res = "unwritten" /\ w.file = ident
      <3>1. minted' = minted /\ ident' = ident /\ told' = told
        BY <1>0, <2>1, <2>5 DEF Parts
      <3>2. srv'.rev = srv.rev
        BY <1>0, <2>1, <2>5 DEF Parts, ServerProc
      <3>3. QED
        BY <1>0, <3>1, <3>2, RevokedMoves DEF LedgerOne
    <2>6. QED
      <3>1. (w.res = "ok" /\ w.file.seen = v /\ w.file.may = {v}) \/ (w.res = "unwritten" /\ w.file = ident)
        BY <1>0, SMT DEF Saves, File
      <3>2. QED
        BY <2>4, <2>5, <3>1
  <1>5. QED
    BY <1>0, <1>2, <1>3, <1>4, HandlerCases


(* A step that changes neither the ledger nor what was reported. *)
LEMMA RevokedSame ==
    ASSUME Inv, RevokedInv, UNCHANGED <<minted, srv, ident, told>>, Kept(left'), now' \in Nat, now <= now'
    PROVE  RevokedInv'
  BY RevokedMoves DEF RevokedInv, LedgerOne

(* A boot, and the generation it writes, forgets no revocation.             *)
LEMMA BootstrapRevoked == Inv /\ RevokedInv /\ Bootstrap /\ Kept(left') => RevokedInv'
  <1> SUFFICES ASSUME Inv, RevokedInv, Bootstrap, Kept(left') PROVE RevokedInv'
    OBVIOUS
  <1> DEFINE s == ident.seen
             v == [s EXCEPT !.gen = @ + 1]
  <1>0. /\ UNCHANGED <<now, minted, told>> /\ "unsynced" \notin left.sfaults /\ ident.may = {s} /\ srv.pc = "down"
        /\ s \in Identity /\ now' \in Nat /\ now <= now'
    <2>1. now \in Nat /\ now <= now
      BY ServerTypes, SMT
    <2>2. QED
      BY <2>1, ServerTypes DEF Bootstrap, RevokedInv
  <1>1. CASE UNCHANGED <<srv, ident, left>>
    BY <1>0, <1>1, RevokedSame
  <1>2. CASE /\ UNCHANGED <<ident, left>>
             /\ srv' = [pc |-> "up", gen |-> s.gen, arch |-> db.arch, rev |-> s.rev]
    <2>1. srv'.rev = s.rev
      BY <1>2
    <2>2. QED
      BY <1>0, <1>2, <2>1, RevokedMoves DEF LedgerOne
  <1>3. ASSUME NEW w \in Saves(ident, v, left.sfaults), ident' = w.file,
               srv' = IF w.res = "ok" THEN [pc |-> "commit", gen |-> s.gen + 1, arch |-> 0, rev |-> s.rev] ELSE srv
        PROVE  RevokedInv'
    <2>1. v.rev = s.rev
      BY <1>0 DEF Identity
    <2> HIDE DEF v
    <2>2. CASE w.res = "ok" /\ w.file.seen = v /\ w.file.may = {v}
      <3>1. srv'.rev = s.rev
        BY <1>3, <2>2
      <3>2. QED
        BY <1>0, <1>3, <2>1, <2>2, <3>1, RevokedMoves DEF LedgerOne
    <2>3. CASE w.res = "unwritten" /\ w.file = ident
      <3>1. srv' = srv /\ ident' = ident
        BY <1>3, <2>3
      <3>2. QED
        BY <1>0, <3>1, RevokedSame
    <2>4. QED
      <3>1. (w.res = "ok" /\ w.file.seen = v /\ w.file.may = {v}) \/ (w.res = "unwritten" /\ w.file = ident)
        BY <1>0, SMT DEF Saves, File
      <3>2. QED
        BY <2>2, <2>3, <3>1
  <1>4. QED
    BY <1>1, <1>2, <1>3 DEF Bootstrap

(* Dropping what has expired forgets no revocation that still matters.      *)
LEMMA CompactRevoked == Inv /\ RevokedInv /\ CompactRevocations /\ Kept(left') => RevokedInv'
  <1> SUFFICES ASSUME Inv, RevokedInv, CompactRevocations, Kept(left') PROVE RevokedInv'
    OBVIOUS
  <1> DEFINE kept == {c \in srv.rev : ~Expired(c)}
             v == [gen |-> srv.gen, rev |-> kept]
  <1>0. /\ UNCHANGED <<now, minted, told>> /\ "unsynced" \notin left.sfaults /\ srv.rev = ident.seen.rev
        /\ srv \in ServerProc /\ now' \in Nat /\ now <= now' /\ ident.may = {ident.seen}
    <2>1. now \in Nat /\ now <= now
      BY ServerTypes, SMT
    <2>2. QED
      BY <2>1, ServerTypes DEF CompactRevocations, RevokedInv
  <1>1. PICK w \in Saves(ident, v, left.sfaults) :
            /\ ident' = w.file
            /\ srv' = [srv EXCEPT !.rev = IF w.res = "unwritten" THEN @ ELSE kept]
    BY DEF CompactRevocations
  <1>2. v.rev = kept
    OBVIOUS
  <1>3. \A c \in ident.seen.rev : c \in kept \/ Expired(c)
    BY <1>0
  <1> HIDE DEF kept, v
  <1>4. CASE w.res = "ok" /\ w.file.seen = v /\ w.file.may = {v}
    <2>1. srv'.rev = kept
      BY <1>0, <1>1, <1>4 DEF ServerProc
    <2>2. QED
      BY <1>0, <1>1, <1>2, <1>3, <1>4, <2>1, RevokedMoves DEF LedgerOne
  <1>5. CASE w.res = "unwritten" /\ w.file = ident
    <2>1. srv'.rev = srv.rev
      BY <1>0, <1>1, <1>5 DEF ServerProc
    <2>2. QED
      BY <1>0, <1>1, <1>5, <2>1, RevokedMoves DEF LedgerOne
  <1>6. QED
    <2>1. (w.res = "ok" /\ w.file.seen = v /\ w.file.may = {v}) \/ (w.res = "unwritten" /\ w.file = ident)
      BY <1>0, SMT DEF Saves, File
    <2>2. QED
      BY <1>4, <1>5, <2>1

(* A crash leaves the ledger that was written last, when every write is     *)
(* synced.                                                                  *)
LEMMA ServerStopRevoked == Inv /\ RevokedInv /\ ServerStop /\ Kept(left') => RevokedInv'
  <1> SUFFICES ASSUME Inv, RevokedInv, ServerStop, Kept(left') PROVE RevokedInv'
    OBVIOUS
  <1>1. now' = now /\ now \in Nat /\ now <= now
    BY ServerTypes, SMT DEF ServerStop
  <1>2. srv'.pc = "down" /\ UNCHANGED <<minted, told>>
    BY DEF ServerStop
  <1>3. ident'.may = {ident'.seen} /\ ident'.seen = ident.seen
    BY SMT DEF ServerStop, RevokedInv, Reread, File
  <1>4. QED
    BY <1>1, <1>2, <1>3, RevokedMoves DEF LedgerOne

(* The bounds that do not run out stay, and time only passes. *)
LEMMA BoundsStay == Inv /\ [Next]_vars => Kept(left') /\ now' \in Nat /\ now <= now'
  <1> SUFFICES ASSUME Inv, [Next]_vars PROVE Kept(left') /\ now' \in Nat /\ now <= now'
    OBVIOUS
  <1>1. left' \in Limits /\ now' \in Nat /\ now \in Nat /\ left \in Limits /\ Kept(left)
    BY InvStep, ServerTypes DEF Inv, Types
  <1>2. now' = now \/ now' = now + 1
    BY DEF Next, AgentStep, ServerStep, AgentSame, vars, Open, LoadOrRegister, FinishEnrol, ResumeActivation,
       FinishResume, RenewIfDue, FinishRenew, FinishActivate, Dial, BindAnnounced, Drop, GiveUp, AgentStop,
       LoseVolume, Bootstrap, CommitArchive, Handle, HandleLate, CompactRevocations, ServerStop, IssueToken,
       Backup, RestoreDatabase, Tick
  <1>3. now <= now'
    BY <1>1, <1>2, SMT
  <1>4. Kept(left')
    <2> DEFINE Same(l) == l.creds = left.creds /\ l.time = left.time /\ l.sfaults = left.sfaults
    <2>1. \A w : Same(Paid(w))
      BY <1>1 DEF Paid, Limits
    <2>2. \A n : /\ Same([left EXCEPT !.lost = n]) /\ Same([left EXCEPT !.stops = n])
                 /\ Same([left EXCEPT !.drops = n]) /\ Same([left EXCEPT !.restores = n])
                 /\ Same([left EXCEPT !.volumes = n])
      BY <1>1 DEF Limits
    <2>3. Same(left)
      OBVIOUS
    <2> HIDE DEF Same
    <2>4. CASE Handle \/ HandleLate
      <3>1. PICK r \in Pending : \E e \in Handled(r) : left' = e.left
        BY <2>4 DEF Handle, HandleLate, Leaves, Pending
      <3>2. QED
        BY <3>1, HandlerEffects DEF Effective
    <2>5. CASE Open \/ Bootstrap \/ CompactRevocations
      <3>1. left' = left \/ \E w : left' = Paid(w)
        BY <2>5 DEF Open, Bootstrap, CompactRevocations
      <3>2. QED
        BY <1>1, <2>1, <2>3, <3>1 DEF Kept, Same
    <2>6. CASE FinishEnrol \/ FinishResume \/ FinishRenew \/ FinishActivate \/ BindAnnounced
      <3>1. left' = left \/ \E w : left' = Paid(w)
        BY <2>6 DEF FinishEnrol, FinishResume, FinishRenew, FinishActivate, BindAnnounced, Commit
      <3>2. QED
        BY <1>1, <2>1, <2>3, <3>1 DEF Kept, Same
    <2>7. CASE Drop \/ GiveUp \/ AgentStop \/ LoseVolume \/ ServerStop \/ RestoreDatabase
      <3>1. Same(left')
        BY <2>2, <2>3, <2>7 DEF Drop, GiveUp, AgentStop, LoseVolume, ServerStop, RestoreDatabase
      <3>2. QED
        BY <1>1, <3>1 DEF Kept, Same
    <2>8. CASE \/ LoadOrRegister \/ ResumeActivation \/ RenewIfDue \/ Dial \/ CommitArchive \/ Backup \/ Tick
               \/ (\E k \in TokenKinds : IssueToken(k)) \/ UNCHANGED vars
      BY <1>1, <2>8 DEF LoadOrRegister, ResumeActivation, RenewIfDue, Dial, CommitArchive, Backup, Tick,
         IssueToken, vars
    <2>9. QED
      BY <2>4, <2>5, <2>6, <2>7, <2>8 DEF Next, AgentStep, ServerStep
  <1>5. QED
    BY <1>1, <1>3, <1>4

(* Every step keeps RevokedInv. *)
LEMMA RevokedStep == Inv /\ RevokedInv /\ [Next]_vars => RevokedInv'
  <1> SUFFICES ASSUME Inv, RevokedInv, [Next]_vars PROVE RevokedInv'
    OBVIOUS
  <1>1. Kept(left') /\ now' \in Nat /\ now <= now'
    BY BoundsStay
  <1>2. CASE Handle
    <2>1. PICK e \in Handled(ag.call) : Leaves(e)
      BY <1>2 DEF Handle
    <2>2. ag.call \in Pending /\ srv.pc = "up" /\ now' = now
      BY <1>2 DEF Handle, Pending
    <2>3. QED
      BY <2>1, <2>2, LeavesRevoked
  <1>3. CASE HandleLate
    <2>1. PICK r \in late : \E e \in Handled(r) : Leaves(e)
      BY <1>3 DEF HandleLate
    <2>2. r \in Pending /\ srv.pc = "up" /\ now' = now
      BY <1>3 DEF HandleLate, Pending
    <2>3. QED
      BY <2>1, <2>2, LeavesRevoked
  <1>4. CASE Bootstrap \/ CompactRevocations \/ ServerStop
    BY <1>1, <1>4, BootstrapRevoked, CompactRevoked, ServerStopRevoked
  <1>5. CASE CommitArchive
    <2>1. srv'.rev = srv.rev /\ UNCHANGED <<minted, ident, told>> /\ srv.pc # "down"
      BY <1>5, ServerTypes DEF CommitArchive, ServerProc
    <2>2. LedgerOne(ident', srv')
      BY <2>1 DEF LedgerOne, RevokedInv
    <2>3. QED
      BY <1>1, <2>1, <2>2, RevokedMoves
  <1>6. CASE \/ AgentStep \/ Drop \/ GiveUp \/ AgentStop \/ LoseVolume
             \/ (\E k \in TokenKinds : IssueToken(k)) \/ Backup \/ RestoreDatabase \/ Tick \/ UNCHANGED vars
    <2>1. UNCHANGED <<minted, srv, ident, told>>
      BY <1>6 DEF AgentStep, AgentSame, vars, serverVars, Open, LoadOrRegister, FinishEnrol, ResumeActivation,
         FinishResume, RenewIfDue, FinishRenew, FinishActivate, Dial, BindAnnounced, Drop, GiveUp, AgentStop,
         LoseVolume, IssueToken, Backup, RestoreDatabase, Tick
    <2>2. QED
      BY <1>1, <2>1, RevokedSame
  <1>7. QED
    BY <1>2, <1>3, <1>4, <1>5, <1>6 DEF Next, ServerStep


(***************************************************************************)
(* Theorems                                                                *)
(***************************************************************************)

(* What the invariant says of archives. *)
LEMMA InvArchives == Inv => OneArchivePerGeneration
  <1> SUFFICES ASSUME Inv PROVE OneArchivePerGeneration
    OBVIOUS
  <1>1. \A p, q \in named : p[1] = q[1] \/ p[2] = q[2] => p = q
    BY DEF Inv, ArchInv, NamedOnce
  <1>2. ASSUME srv.pc = "up", ag.mem.gen > 0 PROVE Bindable(ag.mem, srv.gen, srv.arch)
    <2> DEFINE p == <<ag.mem.gen, ag.mem.arch>>
               q == <<srv.gen, srv.arch>>
    <2>1. p \in named /\ q \in named /\ \A x \in named : x[1] <= srv.gen
      BY <1>2, AgentTypes DEF Known, Inv, ArchInv, ServerArchives
    <2>2. p[1] = ag.mem.gen /\ p[2] = ag.mem.arch /\ q[1] = srv.gen /\ q[2] = srv.arch
      OBVIOUS
    <2>3. ag.mem.gen <= srv.gen /\ ag.mem.gen \in Nat /\ srv.gen \in Nat
      BY <2>1, <2>2, MemOnDisk, ServerTypes DEF ServerProc
    <2> HIDE DEF p, q
    <2>4. (ag.mem.gen = srv.gen \/ ag.mem.arch = srv.arch) => ag.mem.gen = srv.gen /\ ag.mem.arch = srv.arch
      BY <1>1, <2>1, <2>2
    <2>5. QED
      BY <2>3, <2>4, SMT DEF Bindable
  <1>3. QED
    BY <1>1, <1>2 DEF OneArchivePerGeneration

(* What the invariant says of the Agent's credential. *)
LEMMA InvKeeps == Inv => KeepsCredential /\ UsesDurable
  <1> SUFFICES ASSUME Inv PROVE KeepsCredential /\ UsesDurable
    OBVIOUS
  <1>1. ASSUME NEW v \in disk.may, v.cred \in Spent PROVE FALSE
    <2>1. v.cred \in 1..Len(minted) /\ Older(v.cred, v)
      BY <1>1 DEF Inv, SpentInv
    <2>2. QED
      BY <2>1, MemOnDisk, SMT DEF Older
  <1>2. KeepsCredential
    BY <1>1, LedgersSpent DEF KeepsCredential
  <1>3. ASSUME NEW v \in disk.may PROVE v.cred >= ag.cred /\ v.gen >= ag.mem.gen
    <2>1. /\ ag.mem.cred <= v.cred /\ ag.mem.gen <= v.gen /\ (ag.cred = 0 \/ ag.cred = ag.mem.cred)
      BY AgentTypes DEF Ahead, Controlled
    <2>2. v.cred \in Nat /\ v.gen \in Nat /\ ag.mem.gen \in Nat /\ ag.mem.cred \in Nat
      BY AgentTypes DEF FileOf, Mem
    <2>3. QED
      BY <2>1, <2>2, SMT
  <1>4. QED
    BY <1>2, <1>3 DEF UsesDurable

(* The invariant contains the type invariant the runs check.                *)
LEMMA InvTypeOK == Inv => TypeOK
  <1> SUFFICES ASSUME Inv PROVE TypeOK
    OBVIOUS
  <1>1. now \in 0..left.time /\ Len(minted) <= left.creds /\ Len(minted) \in Nat /\ left.creds \in Nat
    BY ServerTypes, MemOnDisk, SMT DEF Inv, SpentInv, Limits
  <1>2. \A c \in Spent : c \in 1..Len(minted)
    BY DEF Inv, SpentInv
  <1>3. srv.pc \in {"down", "commit", "up"} /\ srv.gen \in Nat /\ srv.rev \subseteq 1..Len(minted)
    BY <1>2, ServerTypes, LedgersSpent DEF ServerProc
  <1>4. ident.may \subseteq [gen : Nat, rev : SUBSET (1..Len(minted))] /\ ident.seen \in ident.may
    <2>1. ASSUME NEW s \in ident.may PROVE s \in [gen : Nat, rev : SUBSET (1..Len(minted))]
      <3>1. s \in [gen : Nat, rev : SUBSET Nat] /\ s.rev \subseteq 1..Len(minted)
        BY <1>2, ServerTypes, LedgersSpent DEF FileOf, Identity
      <3>2. QED
        BY <3>1
    <2>2. QED
      BY <2>1, ServerTypes
  <1>5. ASSUME NEW v \in disk.may \cup {ag.mem}
        PROVE  v \in AgentState /\ (v.prev # 0 => v.act = v.cred /\ v.prev < v.cred)
    <2>1. v \in Mem /\ v.cred <= Len(minted) /\ StagedRight(v)
      BY AgentTypes, MemOnDisk DEF FileOf, Ahead, Inv, SpentInv, Controlled
    <2>2. v.cred \in Creds /\ v.prev \in Creds /\ v.act \in Creds
      BY <1>1, <2>1, SMT DEF Mem, Creds, StagedRight
    <2>3. QED
      BY <2>1, <2>2 DEF Mem, AgentState, StagedRight
  <1>6. ag.cred \in 0..Len(minted)
    <2>1. ag.cred \in Nat /\ (ag.cred = 0 \/ ag.cred = ag.mem.cred) /\ ag.mem.cred <= Len(minted)
      BY AgentTypes, MemOnDisk DEF Controlled
    <2>2. QED
      BY <1>1, <2>1, SMT
  <1>7. ASSUME NEW r \in late \cup ({ag.call} \ {NoCall}) PROVE r.cur \in 0..Len(minted)
    <2>1. r \in Pending /\ r \in Requests
      BY AgentTypes DEF Pending, Inv, Types
    <2>2. r.cur \in Nat /\ r.cur <= Len(minted)
      BY <2>1 DEF Requests, Inv, SpentInv
    <2>3. QED
      BY <1>1, <2>2, SMT
  <1>8. \A b \in {"faults", "lost", "stops", "drops", "restores", "volumes"} : left[b] >= 0
    BY ServerTypes, SMT DEF Limits
  <1>9. QED
    BY <1>1, <1>3, <1>4, <1>5, <1>6, <1>7, <1>8, AgentTypes DEF TypeOK

(* serverbootstrap saves a generation before it names an archive of it: for *)
(* all bounds, no generation names two archives, and the Agent never        *)
(* refuses the archive of its own Server.                                   *)
THEOREM ArchivesNamedOnce == Spec => []OneArchivePerGeneration
  BY InvInit, InvStep, InvArchives, PTL DEF Spec

(* Renewal and activation: whatever save fails and whichever process or     *)
(* host stops, no ledger the Server may find holds a credential that may be *)
(* on the Agent's disk, and no failure takes the Agent back behind the      *)
(* credential it uses and the archive it is bound to.                       *)
THEOREM CredentialsKept == Spec => [](TypeOK /\ KeepsCredential /\ UsesDurable)
  BY InvInit, InvStep, InvTypeOK, InvKeeps, PTL DEF Spec

(* RevokeCredential: as long as no fsync of the identity directory fails, a *)
(* credential the Server reported revoked is never accepted again, and the  *)
(* two files agree in every other way.                                      *)
THEOREM RevocationsStay == Spec /\ "unsynced" \notin left.sfaults => []CredentialsAgree
  <1>1. Init /\ "unsynced" \notin left.sfaults => RevokedInv
    <2> SUFFICES ASSUME Init, "unsynced" \notin left.sfaults PROVE RevokedInv
      OBVIOUS
    <2>1. ident.may = {ident.seen} /\ srv.pc = "down" /\ told = {}
      BY SMT DEF Init, File
    <2>2. QED
      BY <2>1 DEF RevokedInv
  <1>2. Inv /\ RevokedInv => CredentialsAgree
    BY InvTypeOK, InvKeeps DEF RevokedInv, CredentialsAgree, RevokedStays, Verified
  <1>3. QED
    BY <1>1, <1>2, InvInit, InvStep, RevokedStep, PTL DEF Spec
=============================================================================
