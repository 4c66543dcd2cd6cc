-------------------------- MODULE AgentCredentials --------------------------
(***************************************************************************)
(* How an Agent gets, renews and loses its credential: the Agent's durable *)
(* state and boot sequence (agentstate, agentruntime), the registration    *)
(* endpoints (registrationhttp, registration), the Server's identity state *)
(* with its revocation ledger and archive generation (identity,            *)
(* serverbootstrap), and the operator who issues tokens, loses databases   *)
(* and restores them.                                                      *)
(*                                                                         *)
(* Both durable files are replaced by write, fsync, rename, fsync of the   *)
(* directory.  When the last fsync fails the new file is visible but a     *)
(* power failure may bring the old one back, so a file is the value seen   *)
(* now and the set of values a power failure may leave.                    *)
(*                                                                         *)
(* Credentials are numbered in the order of issue; 0 is no credential.     *)
(* Time passes in ticks; a credential lives for Lifetime of them.          *)
(* Signatures, names and token secrets are not modelled.                   *)
(***************************************************************************)
EXTENDS Integers, Sequences, FiniteSets

CONSTANTS
    Lifetime,       \* ticks a credential is valid; renewal is due at half
    MaxTokens,      \* bound: tokens
    Budgets         \* the bounds of each scenario: ticks (time), credentials
                    \* issued before the Server refuses (creds), tokens and
                    \* their kinds, how saving the Agent state (afaults) and
                    \* the identity state (sfaults) may fail, failed saves
                    \* (faults), calls that time out or whose answer is lost
                    \* (lost), stops of either process, sessions that end by
                    \* themselves (drops), databases lost or restored
                    \* (restores), Agent state volumes lost (volumes)

ASSUME CredentialsAssumption ==
    /\ Lifetime \in Nat /\ MaxTokens \in Nat
    /\ Budgets \subseteq
        [time : Nat, creds : Nat, tokens : 0..MaxTokens, kinds : SUBSET {"join", "rejoin"},
         afaults : SUBSET {"unwritten", "unsynced"}, sfaults : SUBSET {"unwritten", "unsynced"},
         faults : Nat, lost : Nat, stops : Nat, drops : Nat, restores : Nat, volumes : Nat]

VARIABLES
    now,            \* the clock
    minted,         \* minted[c]: the Agent and the issue time of credential c
    srv,            \* the Server process
    ident,          \* the file of the Server identity state
    db,             \* the Server database
    bak,            \* the database backup, empty until one is taken
    ag,             \* the Agent process
    disk,           \* the file of the Agent state
    token,          \* the token in the Agent's Join Token file, 0 for none
    late,           \* requests whose caller has given up
    told,           \* history: credentials the Server said it revoked
    named,          \* history: the archives the Server came up with
    left            \* what remains of the bounds

vars == <<now, minted, srv, ident, db, bak, ag, disk, token, late, told, named, left>>

serverVars == <<srv, ident, db, bak, named>>
agentVars == <<ag, disk>>

TokenKinds == {"join", "rejoin"}

Half == Lifetime \div 2

(***************************************************************************)
(* Files replaced atomically                                               *)
(***************************************************************************)

File(v) == [seen |-> v, may |-> {v}]

(* Saving v: it works; it fails before the rename; or it fails after it.     *)
Saves(f, v, faults) ==
    {[res |-> "ok", file |-> File(v)]} \cup
    {w \in {[res |-> "unwritten", file |-> f],
            [res |-> "unsynced", file |-> [seen |-> v, may |-> f.may \cup {v}]]} :
        left.faults > 0 /\ w.res \in faults}

Paid(w) == [left EXCEPT !.faults = @ - IF w.res = "ok" THEN 0 ELSE 1]

(* What a restart finds: the file as it was seen, or, after a power failure, *)
(* any value that may be on the disk.                                        *)
Reread(f) == {f} \cup {File(v) : v \in f.may}

(***************************************************************************)
(* Credentials                                                             *)
(***************************************************************************)

Expired(c) == now >= minted[c].at + Lifetime
RenewalDue(c) == now >= minted[c].at + Half

(* The Server's verification: expiry before revocation. *)
Verified(c) == ~Expired(c) /\ c \notin srv.rev

Issued(a) == Append(minted, [agent |-> a, at |-> now])

(***************************************************************************)
(* The Agent's durable state                                               *)
(***************************************************************************)

Blank(a) == [id |-> a, cred |-> 0, prev |-> 0, act |-> 0, gen |-> 0, arch |-> 0]

(* Whether the archive presented is the bound one or a forward rebind. *)
Bindable(st, g, x) ==
    \/ st.gen = 0
    \/ g = st.gen /\ x = st.arch
    \/ g > st.gen /\ x # st.arch

Installed(st, c, g, x) == [st EXCEPT !.cred = c, !.prev = 0, !.act = 0, !.gen = g, !.arch = x]

Staged(st, p, c, g, x) == [st EXCEPT !.cred = c, !.prev = p, !.act = c, !.gen = g, !.arch = x]

Completed(st) == [st EXCEPT !.prev = 0, !.act = 0]

NoCall == [op |-> "none"]
NoAns == [done |-> FALSE]

RegisterCall(t, a, c) == [op |-> "register", tok |-> t, id |-> a, cur |-> c]
RenewCall(c) == [op |-> "renew", cur |-> c]
ActivateCall(p, c) == [op |-> "activate", prev |-> p, cur |-> c]

(* The process exits and releases the lock on its state. *)
Down(a) == [a EXCEPT !.pc = "down", !.booting = TRUE, !.ready = TRUE, !.cred = 0,
                     !.call = NoCall, !.ans = NoAns]

(* An error: while booting the process exits, later Maintain backs off and   *)
(* tries again.                                                              *)
Fail(a) ==
    IF a.booting THEN Down(a)
    ELSE [a EXCEPT !.pc = "check", !.call = NoCall, !.ans = NoAns]

Calls(a, pc, call) == [a EXCEPT !.pc = pc, !.call = call, !.ans = NoAns]

Goes(a, pc) == [a EXCEPT !.pc = pc, !.call = NoCall, !.ans = NoAns]

(* The next state v is committed: on success a process continues as ok, on   *)
(* an error the store takes no more transitions.                             *)
Commit(v, ok) ==
    IF ~ag.ready
    THEN /\ ag' = Fail(ag)
         /\ UNCHANGED <<disk, left>>
    ELSE \E w \in Saves(disk, v, left.afaults) :
            /\ disk' = w.file
            /\ left' = Paid(w)
            /\ ag' = IF w.res = "ok" THEN [ok EXCEPT !.mem = v]
                     ELSE Fail([ag EXCEPT !.ready = FALSE])

(***************************************************************************)
(* The Agent's boot and its reconnect loop                                 *)
(***************************************************************************)

AgentSame == UNCHANGED <<now, minted, srv, ident, db, bak, token, late, told, named>>

(* Boot: the state is read and, with a new incarnation, written back. *)
Open ==
    /\ ag.pc = "down"
    /\ \E w \in Saves(disk, disk.seen, left.afaults) :
        /\ disk' = w.file
        /\ left' = Paid(w)
        /\ ag' = IF w.res = "ok" THEN [ag EXCEPT !.pc = "load", !.mem = disk.seen] ELSE ag
    /\ AgentSame

(* A usable credential is taken from the state.  Without one, or with an     *)
(* expired one, the bootstrap token is read and the Agent registers.         *)
LoadOrRegister ==
    /\ ag.pc = "load"
    /\ ag' = LET c == ag.mem.cred IN
             IF c # 0 /\ ~Expired(c) THEN [ag EXCEPT !.pc = "resume", !.cred = c]
             ELSE IF token = 0 THEN Down(ag)
             ELSE Calls(ag, "enrol", RegisterCall(token, ag.mem.id, c))
    /\ UNCHANGED <<disk, left>>
    /\ AgentSame

FinishEnrol ==
    /\ ag.pc = "enrol" /\ ag.ans.done
    /\ LET a == ag.ans IN
       IF a.ok /\ Bindable(ag.mem, a.gen, a.arch)
       THEN Commit(Installed(ag.mem, a.cred, a.gen, a.arch),
                   [Goes(ag, "resume") EXCEPT !.cred = a.cred])
       ELSE ag' = Fail(ag) /\ UNCHANGED <<disk, left>>
    /\ AgentSame

(* A renewal staged by an earlier run is reported again before anything else.*)
ResumeActivation ==
    /\ ag.pc = "resume"
    /\ ag' = IF ag.mem.prev = 0 THEN Goes(ag, "check")
             ELSE IF ag.mem.act # ag.cred THEN Fail(ag)
             ELSE Calls(ag, "resuming", ActivateCall(ag.mem.prev, ag.cred))
    /\ UNCHANGED <<disk, left>>
    /\ AgentSame

FinishResume ==
    /\ ag.pc = "resuming" /\ ag.ans.done
    /\ IF ag.ans.ok THEN Commit(Completed(ag.mem), Goes(ag, "check"))
       ELSE ag' = Fail(ag) /\ UNCHANGED <<disk, left>>
    /\ AgentSame

Ready(a) == [Goes(a, "dial") EXCEPT !.booting = FALSE]

(* renewIfDue, at the end of the boot and before every connection. *)
RenewIfDue ==
    /\ ag.pc = "check"
    /\ ag' = IF RenewalDue(ag.cred) THEN Calls(ag, "renewing", RenewCall(ag.cred))
             ELSE Ready(ag)
    /\ UNCHANGED <<disk, left>>
    /\ AgentSame

(* The replacement is made durable together with the credential it replaces, *)
(* and only then used and reported.                                          *)
FinishRenew ==
    /\ ag.pc = "renewing" /\ ag.ans.done
    /\ LET a == ag.ans IN
       IF a.ok /\ Bindable(ag.mem, a.gen, a.arch)
       THEN Commit(Staged(ag.mem, ag.cred, a.cred, a.gen, a.arch),
                   [Calls(ag, "activating", ActivateCall(ag.cred, a.cred)) EXCEPT !.cred = a.cred])
       ELSE ag' = Fail(ag) /\ UNCHANGED <<disk, left>>
    /\ AgentSame

FinishActivate ==
    /\ ag.pc = "activating" /\ ag.ans.done
    /\ IF ag.ans.ok THEN Commit(Completed(ag.mem), Ready(ag))
       ELSE ag' = Fail(ag) /\ UNCHANGED <<disk, left>>
    /\ AgentSame

(* The handshake: the Server verifies the credential, and restores the row   *)
(* of an Agent its database does not know.                                   *)
Dial ==
    /\ ag.pc = "dial"
    /\ IF srv.pc = "up" /\ Verified(ag.cred)
       THEN ag' = Goes(ag, "online") /\ db' = [db EXCEPT !.rows = @ \cup {ag.mem.id}]
       ELSE ag' = Goes(ag, "check") /\ UNCHANGED db
    /\ UNCHANGED <<now, minted, srv, ident, bak, disk, token, late, told, named, left>>

(* The audit stream announces the Server's archive: a new generation is      *)
(* bound durably, anything else is refused.                                  *)
BindAnnounced ==
    /\ ag.pc = "online"
    /\ srv.gen # ag.mem.gen
    /\ Bindable(ag.mem, srv.gen, srv.arch)
    /\ ag.ready
    /\ Commit([ag.mem EXCEPT !.gen = srv.gen, !.arch = srv.arch], ag)
    /\ AgentSame

(* The session ends and Maintain begins again. *)
Drop ==
    /\ ag.pc = "online"
    /\ left.drops > 0
    /\ left' = [left EXCEPT !.drops = @ - 1]
    /\ ag' = Goes(ag, "check")
    /\ UNCHANGED disk
    /\ AgentSame

(* The call fails: the Server is not there, the call times out while the     *)
(* Server has yet to handle it, or the answer is lost.                       *)
GiveUp ==
    /\ ag.call # NoCall
    /\ \/ srv.pc # "up" /\ UNCHANGED <<late, left>>
       \/ /\ left.lost > 0
          /\ left' = [left EXCEPT !.lost = @ - 1]
          /\ late' = IF ag.ans.done THEN late ELSE late \cup {ag.call}
    /\ ag' = Fail(ag)
    /\ UNCHANGED <<now, minted, serverVars, disk, token, told>>

(* The Agent or its host stops. *)
AgentStop ==
    /\ ag.pc # "down" /\ left.stops > 0
    /\ left' = [left EXCEPT !.stops = @ - 1]
    /\ ag' = Down(ag)
    /\ disk' \in Reread(disk)
    /\ AgentSame

(* The state volume is lost: the next boot makes a new identity. *)
LoseVolume ==
    /\ ag.pc = "down" /\ left.volumes > 0
    /\ left' = [left EXCEPT !.volumes = @ - 1]
    /\ disk' = File(Blank(disk.seen.id + 1))
    /\ ag' = [ag EXCEPT !.mem = disk'.seen]
    /\ AgentSame

(***************************************************************************)
(* The Server                                                              *)
(***************************************************************************)

NoToken == [kind |-> "none", agent |-> 0, at |-> 0, used |-> FALSE]

EmptyDB == [gen |-> 0, arch |-> 0, rows |-> {}, tokens |-> [t \in 1..MaxTokens |-> NoToken]]

(* A token is there, not consumed, and (its life is much shorter than a      *)
(* tick) of the current tick.                                                *)
Fresh(t) ==
    /\ db.tokens[t].kind # "none"
    /\ ~db.tokens[t].used
    /\ now <= db.tokens[t].at

(* The proof of an identity that is used again: an expired credential of the *)
(* Agent that was not revoked.                                               *)
Reuse(a, c) == minted[c].agent = a /\ Expired(c) /\ c \notin srv.rev

(* Mutant of Registrable: a rejoin token cannot select a row that exists. *)
RegistrableNew(r) ==
    /\ Fresh(r.tok)
    /\ r.id \notin db.rows
    /\ IF r.cur = 0 THEN db.tokens[r.tok].kind = "join"
       ELSE /\ db.tokens[r.tok].kind = "rejoin" /\ db.tokens[r.tok].agent = r.id
            /\ Reuse(r.id, r.cur)

(* Register: one transaction consumes the token and makes or restores the    *)
(* Agent's row; a Join Token cannot select a row that exists.                *)
Registrable(r) ==
    /\ Fresh(r.tok)
    /\ IF r.cur = 0
       THEN db.tokens[r.tok].kind = "join" /\ r.id \notin db.rows
       ELSE /\ db.tokens[r.tok].kind = "rejoin" /\ db.tokens[r.tok].agent = r.id
            /\ Reuse(r.id, r.cur)

Answer(ok, c) == [done |-> TRUE, ok |-> ok, cred |-> c, gen |-> srv.gen, arch |-> srv.arch]

Refused == Answer(FALSE, 0)

(* The handlers return what they leave behind and what they answer. *)
Effect == [minted |-> minted, srv |-> srv, ident |-> ident, db |-> db, told |-> told,
           left |-> left, ans |-> Refused]

HandleRegister(r) ==
    IF Registrable(r) /\ Len(minted) < left.creds
    THEN {[Effect EXCEPT !.minted = Issued(r.id),
                         !.db = [db EXCEPT !.rows = @ \cup {r.id}, !.tokens = [@ EXCEPT ![r.tok].used = TRUE]],
                         !.ans = Answer(TRUE, Len(minted) + 1)]}
    ELSE {Effect}

(* Mutant of HandleRenew: the old credential is revoked by its renewal. *)
HandleRenewReplaces(r) ==
    IF RenewalDue(r.cur) /\ Verified(r.cur) /\ Len(minted) < left.creds
    THEN {[Effect EXCEPT !.minted = Issued(minted[r.cur].agent),
                         !.srv = [srv EXCEPT !.rev = @ \cup {r.cur}],
                         !.ident = File([gen |-> srv.gen, rev |-> srv.rev \cup {r.cur}]),
                         !.ans = Answer(TRUE, Len(minted) + 1)]}
    ELSE {Effect}

(* Renewal leaves the old credential valid. *)
HandleRenew(r) ==
    IF RenewalDue(r.cur) /\ Verified(r.cur) /\ Len(minted) < left.creds
    THEN {[Effect EXCEPT !.minted = Issued(minted[r.cur].agent),
                         !.ans = Answer(TRUE, Len(minted) + 1)]}
    ELSE {Effect}

(* RevokeCredential: what is in the ledger in memory is a success without    *)
(* another save; after the rename the memory has the entry, even when the    *)
(* save failed.                                                              *)
Revoke(c) ==
    IF c \in srv.rev
    THEN {[Effect EXCEPT !.told = @ \cup {c}, !.ans = Answer(TRUE, 0)]}
    ELSE {[Effect EXCEPT !.srv = [srv EXCEPT !.rev = IF w.res = "unwritten" THEN @ ELSE @ \cup {c}],
                         !.ident = w.file,
                         !.left = Paid(w),
                         !.told = IF w.res = "ok" THEN @ \cup {c} ELSE @,
                         !.ans = Answer(w.res = "ok", 0)] :
            w \in Saves(ident, [gen |-> srv.gen, rev |-> srv.rev \cup {c}], left.sfaults)}

(* Activate: the replacement is verified, then the previous credential is    *)
(* revoked; one that has expired needs no entry.                             *)
HandleActivate(r) ==
    IF ~Verified(r.cur) THEN {Effect}
    ELSE IF Expired(r.prev) THEN {[Effect EXCEPT !.ans = Answer(TRUE, 0)]}
    ELSE Revoke(r.prev)

Handled(r) ==
    CASE r.op = "register" -> HandleRegister(r)
      [] r.op = "renew" -> HandleRenew(r)
      [] r.op = "activate" -> HandleActivate(r)

Leaves(e) ==
    /\ minted' = e.minted /\ srv' = e.srv /\ ident' = e.ident
    /\ db' = e.db /\ told' = e.told /\ left' = e.left

Handle ==
    /\ srv.pc = "up"
    /\ ag.call # NoCall /\ ~ag.ans.done
    /\ \E e \in Handled(ag.call) :
        /\ Leaves(e)
        /\ ag' = [ag EXCEPT !.ans = e.ans]
    /\ UNCHANGED <<now, bak, disk, token, late, named>>

(* A request its caller gave up on is handled; nobody reads the answer. *)
HandleLate ==
    /\ srv.pc = "up"
    /\ \E r \in late : \E e \in Handled(r) :
        /\ Leaves(e)
        /\ late' = late \ {r}
    /\ UNCHANGED <<now, bak, ag, disk, token, named>>

(* Entries of expired credentials are removed from the ledger. *)
CompactRevocations ==
    /\ srv.pc = "up"
    /\ \E c \in srv.rev : Expired(c)
    /\ LET kept == {c \in srv.rev : ~Expired(c)} IN
       \E w \in Saves(ident, [gen |-> srv.gen, rev |-> kept], left.sfaults) :
            /\ ident' = w.file
            /\ left' = Paid(w)
            /\ srv' = [srv EXCEPT !.rev = IF w.res = "unwritten" THEN @ ELSE kept]
    /\ UNCHANGED <<now, minted, db, bak, agentVars, token, late, told, named>>

(* Mutant of Bootstrap: a database without an archive takes the current      *)
(* generation.                                                               *)
BootstrapSame ==
    /\ srv.pc = "down"
    /\ LET s == ident.seen
           on(pc, g, x) == [pc |-> pc, gen |-> g, arch |-> x, rev |-> s.rev]
       IN
       IF db.gen = s.gen /\ s.gen > 0
       THEN srv' = on("up", s.gen, db.arch) /\ UNCHANGED <<ident, left>>
       ELSE /\ srv' = on("commit", IF s.gen = 0 THEN 1 ELSE s.gen, 0)
            /\ ident' = File([s EXCEPT !.gen = IF @ = 0 THEN 1 ELSE @])
            /\ UNCHANGED left
    /\ UNCHANGED <<now, minted, db, bak, agentVars, token, late, told, named>>

(* serverbootstrap: a database of the current generation is taken as it is.  *)
(* A database ahead of the identity state is refused; one behind it, or a    *)
(* new one, becomes a new archive, whose generation is saved first.          *)
Bootstrap ==
    /\ srv.pc = "down"
    /\ LET s == ident.seen
           on(pc, g, x) == [pc |-> pc, gen |-> g, arch |-> x, rev |-> s.rev]
       IN
       IF db.gen > s.gen THEN UNCHANGED <<srv, ident, left>>
       ELSE IF db.gen = s.gen /\ s.gen > 0
       THEN srv' = on("up", s.gen, db.arch) /\ UNCHANGED <<ident, left>>
       ELSE \E w \in Saves(ident, [s EXCEPT !.gen = @ + 1], left.sfaults) :
                /\ ident' = w.file
                /\ left' = Paid(w)
                /\ srv' = IF w.res = "ok" THEN on("commit", s.gen + 1, 0) ELSE srv
    /\ UNCHANGED <<now, minted, db, bak, agentVars, token, late, told, named>>

(* The transaction that names the new archive is committed. *)
CommitArchive ==
    /\ srv.pc = "commit"
    /\ LET x == Cardinality(named) + 1 IN
        /\ db' = [db EXCEPT !.gen = srv.gen, !.arch = x]
        /\ srv' = [srv EXCEPT !.pc = "up", !.arch = x]
        /\ named' = named \cup {<<srv.gen, x>>}
    /\ UNCHANGED <<now, minted, ident, bak, agentVars, token, late, told, left>>

(* The Server or its host stops; sessions end and calls fail. *)
ServerStop ==
    /\ srv.pc # "down" /\ left.stops > 0
    /\ left' = [left EXCEPT !.stops = @ - 1]
    /\ srv' = [pc |-> "down", gen |-> 0, arch |-> 0, rev |-> {}]
    /\ ident' \in Reread(ident)
    /\ ag' = IF ag.pc = "online" THEN Goes(ag, "check") ELSE ag
    /\ UNCHANGED <<now, minted, db, bak, disk, token, late, told, named>>

(***************************************************************************)
(* The operator and the clock                                              *)
(***************************************************************************)

(* A token is issued into the database and put into the Agent's file.  A     *)
(* rejoin token is bound to an Agent the operator sees registered.           *)
IssueToken(kind) ==
    /\ srv.pc = "up"
    /\ kind \in left.kinds
    /\ token < left.tokens
    /\ token' = token + 1
    /\ \E a \in IF kind = "join" THEN {0} ELSE db.rows :
        db' = [db EXCEPT !.tokens =
                [@ EXCEPT ![token'] = [kind |-> kind, agent |-> a, at |-> now, used |-> FALSE]]]
    /\ UNCHANGED <<now, minted, srv, ident, bak, agentVars, late, told, named, left>>

Backup ==
    /\ left.restores > 0 /\ bak = EmptyDB
    /\ srv.pc = "up"
    /\ bak' = db
    /\ UNCHANGED <<now, minted, srv, ident, db, agentVars, token, late, told, named, left>>

(* The database is replaced by the backup, or lost when there is none. *)
RestoreDatabase ==
    /\ srv.pc = "down" /\ left.restores > 0
    /\ left' = [left EXCEPT !.restores = @ - 1]
    /\ db' = bak
    /\ UNCHANGED <<now, minted, srv, ident, bak, agentVars, token, late, told, named>>

Tick ==
    /\ now < left.time
    /\ now' = now + 1
    /\ UNCHANGED <<minted, serverVars, agentVars, token, late, told, left>>

-----------------------------------------------------------------------------

Init ==
    /\ now = 0 /\ minted = <<>>
    /\ srv = [pc |-> "down", gen |-> 0, arch |-> 0, rev |-> {}]
    /\ ident = File([gen |-> 0, rev |-> {}])
    /\ db = EmptyDB /\ bak = EmptyDB
    /\ ag = [pc |-> "down", booting |-> TRUE, ready |-> TRUE, cred |-> 0, mem |-> Blank(1),
             call |-> NoCall, ans |-> NoAns]
    /\ disk = File(Blank(1))
    /\ token = 0 /\ late = {} /\ told = {} /\ named = {}
    /\ left \in Budgets

AgentStep ==
    \/ Open \/ LoadOrRegister \/ FinishEnrol
    \/ ResumeActivation \/ FinishResume
    \/ RenewIfDue \/ FinishRenew \/ FinishActivate
    \/ Dial \/ BindAnnounced

ServerStep == Bootstrap \/ CommitArchive \/ Handle

Next ==
    \/ AgentStep \/ Drop \/ GiveUp \/ AgentStop \/ LoseVolume
    \/ ServerStep \/ HandleLate \/ CompactRevocations \/ ServerStop
    \/ \E k \in TokenKinds : IssueToken(k)
    \/ Backup \/ RestoreDatabase \/ Tick

Spec == Init /\ [][Next]_vars

(* Both processes run, a supervisor restarts them, a call is handled or      *)
(* fails, and the operator issues tokens.  Sessions need not end, and time   *)
(* need not pass.                                                            *)
FairSpec ==
    /\ Spec
    /\ WF_vars(AgentStep)
    /\ WF_vars(ServerStep)
    /\ WF_vars(GiveUp)
    /\ \A k \in TokenKinds : WF_vars(IssueToken(k))

-----------------------------------------------------------------------------

Creds == 0..left.creds
AgentState == [id : Nat, cred : Creds, prev : Creds, act : Creds, gen : Nat, arch : Nat]

(* The pieces of state have their types; a staged activation names the       *)
(* current credential, and the requests in flight name issued credentials.   *)
TypeOK ==
    /\ now \in 0..left.time
    /\ Len(minted) <= left.creds
    /\ srv.pc \in {"down", "commit", "up"} /\ srv.gen \in Nat /\ srv.rev \subseteq 1..Len(minted)
    /\ ident.may \subseteq [gen : Nat, rev : SUBSET (1..Len(minted))] /\ ident.seen \in ident.may
    /\ disk.may \subseteq AgentState /\ disk.seen \in disk.may
    /\ ag.mem \in AgentState /\ ag.cred \in 0..Len(minted)
    /\ \A v \in disk.may \cup {ag.mem} : v.prev # 0 => v.act = v.cred /\ v.prev < v.cred
    /\ \A r \in late \cup ({ag.call} \ {NoCall}) : r.cur \in 0..Len(minted)
    /\ \A b \in {"faults", "lost", "stops", "drops", "restores", "volumes"} : left[b] >= 0

(* StageCredentialRenewalAndBind before Activate: whatever value the Agent   *)
(* may find on its disk after a failure, its credential has not been revoked *)
(* by the Server, in memory or in any ledger it may find.                    *)
KeepsCredential ==
    \A v \in disk.may : \A l \in {srv.rev} \cup {s.rev : s \in ident.may} : v.cred \notin l

(* The Agent must not use a credential or an archive binding until the       *)
(* transition is durable: no failure brings back a state older than the      *)
(* credential in use and the binding in memory.                              *)
UsesDurable ==
    \A v \in disk.may : v.id = ag.mem.id => v.cred >= ag.cred /\ v.gen >= ag.mem.gen

(* RevokeCredential durably records revocation before returning success: a   *)
(* credential the Server reported revoked is not accepted again, after any   *)
(* restart, database loss or compaction.                                     *)
RevokedStays ==
    srv.pc = "up" => \A c \in told : ~Verified(c)

(* The generation is saved before the archive of that generation is named:   *)
(* no generation ever names two archives, whatever is lost or restored, so   *)
(* the Agent's comparison of the two never refuses its own Server.           *)
OneArchivePerGeneration ==
    /\ \A p, q \in named : p[1] = q[1] => p = q
    /\ srv.pc = "up" /\ ag.mem.gen > 0 => Bindable(ag.mem, srv.gen, srv.arch)

Usable(c) == c # 0 /\ ~Expired(c)

(* With a usable credential on its disk the Agent comes online, whichever    *)
(* step of a renewal, of a revocation or of the archive change was cut off   *)
(* before, unless a save of its own state failed: the store then refuses     *)
(* every transition until the process is started again (Maintain).  A Server *)
(* that has used up the bound on credentials is excepted.                    *)
Reconnects ==
    []<>(\/ ag.pc = "online"
         \/ ~Usable(disk.seen.cred)
         \/ ~ag.ready
         \/ Len(minted) = left.creds)

(* An Agent that boots with an expired credential and a fresh token bound to *)
(* it enrols again, whatever answer or database was lost before: the expired *)
(* credential stays on its disk, and unrevoked, until the new one is there   *)
(* (the bound on credentials excepted).                                      *)
RejoinEnrols ==
    LET given ==
            /\ token # 0 /\ Fresh(token)
            /\ db.tokens[token].kind = "rejoin" /\ db.tokens[token].agent = disk.seen.id
    IN  (ag.pc = "down" /\ disk.seen.cred # 0 /\ Expired(disk.seen.cred) /\ given)
            ~> (Usable(disk.seen.cred) \/ ~given \/ Len(minted) = left.creds)

(* The two durable files agree on credentials: the Agent depends on none     *)
(* that is revoked or may be forgotten (KeepsCredential, UsesDurable), and   *)
(* the Server accepts none that it reported revoked (RevokedStays).          *)
CredentialsAgree == TypeOK /\ KeepsCredential /\ UsesDurable /\ RevokedStays

(* An Agent that can come back does: online with a usable credential, and    *)
(* enrolled again with an expired one and a fresh token.                     *)
ComesBack == Reconnects /\ RejoinEnrols
=============================================================================
