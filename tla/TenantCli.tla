----------------------------- MODULE TenantCli ------------------------------
(***************************************************************************)
(* `celctl tenant` on a tenant store kept in a file (celcli tenant_cli.rs, *)
(* celtenancy store.rs FileTenantStore, exec.rs, audit.rs).  A command is  *)
(* a process: it opens the store, which reads the whole file, and makes    *)
(* one or two store calls.  A call changes the process's copy and then     *)
(* persists it: it creates <path>.tmp, a name that all processes share,    *)
(* writes, syncs and renames it over the file.  `exec` also appends what   *)
(* it did to an audit log, which all processes may share.                  *)
(*                                                                         *)
(* What the calls do to tenants, users and sessions is TenantStore's       *)
(* subject; here it is cut down to one tenant, its users with passwords,   *)
(* its live tokens and one usage counter.                                  *)
(*                                                                         *)
(* A process holds the tmp file open by what it is now called: the rename  *)
(* makes it the store's file, and the store's old file nameless.           *)
(***************************************************************************)
EXTENDS Integers, Sequences, FiniteSets

CONSTANTS
  Clerk,       \* the terminals that run celctl
  User,        \* user names
  Quota,       \* the tenant's ceiling
  TenantPlans, \* where a behaviour may start: see TInit
  Missing, Empty, Torn   \* a file that is not there, of length 0, of no valid JSON

\* StoreState.  pw is the user's password, 0 if none is set; `sess` the live
\* sessions, a token with its user, "nobody" once the tenant was deleted.
StoreState == [live : BOOLEAN, users : SUBSET User, pw : [User -> Nat],
               sess : SUBSET (Int \X (User \cup {"nobody"})), used : Nat]

ASSUME TenantCliAssumption ==
  /\ Quota \in Nat
  /\ {Missing, Empty, Torn} \cap StoreState = {}
  /\ Missing # Empty /\ Missing # Torn /\ Empty # Torn

Default == [live |-> FALSE, users |-> {}, pw |-> [u \in User |-> 0], sess |-> {}, used |-> 0]

Whole(f) == f \notin {Missing, Empty, Torn}
Tokens(f) == IF Whole(f) THEN {s[1] : s \in f.sess} ELSE {}

VARIABLES
  store,     \* the contents of the store's file
  tmp,       \* the contents of <path>.tmp
  session,   \* the session file: Missing, Empty or a token
  clerk,     \* the processes
  minted,    \* the number of tokens made; they are random and never repeat
  writes,    \* how often the store's file was replaced or written to
  revoked,   \* tokens that a call which answered Ok has removed
  revived,   \* tokens written back by a process that had opened the store earlier
  tangled,   \* two processes were between create and rename at the same time
  audit,     \* the lines of the audit log, each what was written to it; the last is open
  kept,      \* the number of records whose line and newline were written
  cuts,      \* the number of records that were cut short
  crossed    \* a line was written while another process's lacked its newline

ghosts == <<writes, revoked, revived, tangled>>
logvars == <<audit, kept, cuts, crossed>>
tvars == <<store, tmp, session, clerk, minted, ghosts, logvars>>

Rest(script) ==
  [script |-> script, pc |-> "idle", cmd |-> "none", calls |-> <<>>, mem |-> Default,
   base |-> 0, fd |-> "none", token |-> 0, drops |-> {}, notes |-> <<>>]

TInit ==
  \E plan \in TenantPlans :
    /\ store = plan.store
    /\ tmp = Missing /\ session = Missing
    /\ clerk = [p \in Clerk |-> Rest(plan.scripts[p])]
    /\ minted = 0 /\ writes = 0
    /\ revoked = {} /\ revived = {} /\ tangled = FALSE
    /\ audit = <<<<>>>> /\ kept = 0 /\ cuts = 0 /\ crossed = FALSE

---------------------------------------------------------------------------
(* The store calls (StoreState): the outcome on a copy m. *)

Yes(m) == [ok |-> TRUE, mem |-> m]
No(m) == [ok |-> FALSE, mem |-> m]
If(cond, m, n) == IF cond THEN Yes(n) ELSE No(m)

SessionsOf(m, users) == {s \in m.sess : s[2] \in users}

\* add_user, remove_user, set_password, authenticate, create_session, ...
StoreCall(m, call, c, token) ==
  LET u == c.user IN
  IF call = "create" THEN If(~m.live, m, [m EXCEPT !.live = TRUE])
  ELSE IF ~m.live THEN No(m) ELSE
  CASE call = "add"      -> If(u \notin m.users, m, [m EXCEPT !.users = @ \cup {u}, !.pw[u] = 0])
    [] call = "remove"   -> If(u \in m.users, m,
                               [m EXCEPT !.users = @ \ {u}, !.sess = @ \ SessionsOf(m, {u})])
    [] call = "password" -> If(u \in m.users, m,
                               [m EXCEPT !.pw[u] = c.pw, !.sess = @ \ SessionsOf(m, {u})])
    [] call = "authenticate" -> If(u \in m.users /\ m.pw[u] = c.pw /\ c.pw # 0, m, m)
    [] call = "mint"     -> If(u \in m.users, m, [m EXCEPT !.sess = @ \cup {<<token, u>>}])
    [] call = "validate" -> If(token \in Tokens(m), m, m)
    [] call = "unmint"   -> Yes([m EXCEPT !.sess = {s \in @ : s[1] # token}])
    [] call = "revoke"   -> If(u \in m.users, m, [m EXCEPT !.sess = @ \ SessionsOf(m, {u})])
    [] call = "rotate"   -> Yes([m EXCEPT !.sess = @ \ SessionsOf(m, User)])
    [] call = "delete"   -> If(m.used = 0, m,
                               [Default EXCEPT !.sess = {<<s[1], "nobody">> : s \in m.sess}])
    [] call = "purge"    -> If(m.used = 0, m, [Default EXCEPT !.sess = SessionsOf(m, {"nobody"})])
    [] call = "charge"   -> If(m.used < Quota, m, [m EXCEPT !.used = @ + 1])
    [] call = "release"  -> Yes([m EXCEPT !.used = IF @ = 0 THEN 0 ELSE @ - 1])

\* The subcommands, by the calls they make after open.
TenantOps == {"create"}                      \* tenant create, subtenant create
UserOps == {"add", "remove", "password"}     \* tenant user
QuotaOps == {"charge", "release"}            \* tenant quota
DeleteOps == {"delete", "purge"}             \* tenant delete, with --recursive --yes
AuthorityOps == {"rotate", "revoke"}         \* tenant rotate-caps, revoke-sessions
SessionOps == {"logout", "whoami"}           \* these begin with the session file
\* What the celtenancy binary does to the same file.
BinaryOps == TenantOps \cup QuotaOps \cup {"add", "remove", "delete"}

Calls(op) ==
  CASE op \in BinaryOps \cup UserOps \cup DeleteOps \cup AuthorityOps -> <<op>>
    [] op = "login"  -> <<"authenticate", "mint">>
    [] op = "logout" -> <<"unmint">>
    [] op = "whoami" -> <<"validate">>
    [] op = "exec"   -> <<"charge">>
    [] op = "show"   -> <<>>

\* A command line; `after` is whether exec is a dry run, `audit` whether it has a log.
CmdOps == BinaryOps \cup UserOps \cup DeleteOps \cup AuthorityOps \cup SessionOps
          \cup {"login", "exec", "show"}
Command == [op : CmdOps, user : User, pw : Nat, after : BOOLEAN, audit : BOOLEAN]

\* The store's file is missing or whole at first; the tokens of earlier sessions are
\* numbered from 0 down, those of the behaviour from 1 up.
ASSUME TenantPlanAssumption ==
  /\ TenantPlans \subseteq [store : {Missing} \cup StoreState, scripts : [Clerk -> Seq(Command)]]
  /\ \A plan \in TenantPlans : \A k \in Tokens(plan.store) : k <= 0

---------------------------------------------------------------------------
(* One command. *)

In(p, pc) == clerk[p].pc = pc
Go(p, pc) == [clerk EXCEPT ![p].pc = pc]
Leave(p) == [clerk EXCEPT ![p] = Rest(clerk[p].script)]

\* FileTenantStore::open: an empty file is an empty store.
Opened == IF store \in {Missing, Empty} THEN Default ELSE store

\* logout and whoami read the session file before they open the store.
Start(p) ==
  LET c == Head(clerk[p].script)
      needs == c.op \in SessionOps
  IN /\ In(p, "idle") /\ clerk[p].script # <<>>
     /\ clerk' = [clerk EXCEPT ![p] =
          IF needs /\ session \in {Missing, Empty}
            THEN Rest(Tail(@.script))
            ELSE [Rest(Tail(@.script)) EXCEPT !.pc = "open", !.cmd = c, !.calls = Calls(c.op),
                    !.token = IF needs THEN session ELSE 0]]
     /\ UNCHANGED <<store, tmp, session, minted, ghosts, logvars>>

OpenStore(p) ==
  /\ In(p, "open")
  /\ clerk' = IF store = Torn THEN Leave(p)
              ELSE [Go(p, "call") EXCEPT ![p].mem = Opened, ![p].base = writes]
  /\ UNCHANGED <<store, tmp, session, minted, ghosts, logvars>>

\* What a command does next: the audit records it writes, then the calls it makes.
Step(op, notes, calls) == [op |-> op, notes |-> notes, calls |-> calls]
Ended(op) == Step(op, <<>>, <<>>)

\* exec and TenantVmHost::handle: look the tenant up, charge, forward to the inner host, which accepts or
\* refuses, and give the charge back if it refused or if this is a dry run.
ExecSteps(c, live, ok) ==
  CASE c.op = "exec" /\ ok    -> {Step("refund", <<"charge">>, <<"release">>),
                                 IF c.after THEN Step("dryrun", <<"charge">>, <<"release">>)
                                            ELSE Step("done", <<"charge", "exec">>, <<>>)}
    [] c.op = "exec" /\ ~live /\ ~ok -> {Ended("done")}
    [] c.op = "exec" /\ live /\ ~ok -> {Step("done", <<"deny", "exec">>, <<>>)}
    [] c.op = "refund"        -> {Step("done", <<"deny", "exec">>, <<>>)}
    [] c.op = "dryrun" /\ ok  -> {Step("done", <<"release", "exec">>, <<>>)}
    [] c.op = "dryrun" /\ ~ok -> {Step("done", <<"exec">>, <<>>)}

\* Where a command goes after a call.  A refused one ends it, but for exec, and for
\* logout, which removes the session file whatever revoke_token answers.
Steps(p, ok) ==
  LET c == clerk[p].cmd IN
  CASE c.op \in {"exec", "refund", "dryrun"} ->
         {IF c.audit THEN to ELSE [to EXCEPT !.notes = <<>>] : to \in ExecSteps(c, clerk[p].mem.live, ok)}
    [] c.op = "logout" -> {Step("forget", <<>>, <<>>)}
    [] c.op = "login" /\ ok /\ clerk[p].calls = <<>> -> {Step("session", <<>>, <<>>)}
    [] OTHER -> {IF ok THEN Step(c.op, <<>>, clerk[p].calls) ELSE Ended(c.op)}

Pc(to) ==
  IF to.notes # <<>> THEN "line" ELSE IF to.calls # <<>> THEN "call"
  ELSE IF to.op \in {"forget", "session"} THEN to.op ELSE "idle"

\* The process after that; base is the number of writes its copy knows of.
Proceed(proc, to, base) ==
  IF Pc(to) = "idle" THEN Rest(proc.script)
  ELSE [proc EXCEPT !.pc = Pc(to), !.cmd.op = to.op, !.notes = to.notes, !.calls = to.calls,
                    !.base = base, !.fd = "none", !.drops = {}]

\* with_state: the copy is changed first.
Call(p) ==
  LET c == clerk[p].cmd
      call == Head(clerk[p].calls)
      token == IF call = "mint" THEN minted + 1 ELSE clerk[p].token
      r == StoreCall(clerk[p].mem, call, c, token)
  IN /\ In(p, "call") /\ clerk[p].calls # <<>>
     /\ IF r.ok
          THEN clerk' = [Go(p, "create") EXCEPT
                           ![p].calls = Tail(@), ![p].mem = r.mem, ![p].token = token,
                           ![p].drops = Tokens(clerk[p].mem) \ Tokens(r.mem)]
          ELSE \E to \in Steps(p, FALSE) : clerk' = [clerk EXCEPT ![p] = Proceed(@, to, @.base)]
     /\ minted' = IF call = "mint" /\ r.ok THEN minted + 1 ELSE minted
     /\ UNCHANGED <<store, tmp, session, ghosts, logvars>>

\* persist: File::create makes or empties the tmp file.
CreateTmp(p) ==
  /\ In(p, "create")
  /\ tmp' = Empty
  /\ clerk' = [Go(p, "write") EXCEPT ![p].fd = "tmp"]
  /\ tangled' = (tangled \/ \E q \in Clerk \ {p} : clerk[q].pc \in {"write", "rename"})
  /\ UNCHANGED <<store, session, minted, writes, revoked, revived, logvars>>

\* What is in a file of contents f after m was written to its beginning.
Overwrite(f, m) == IF f \in {Empty, m} THEN {m} ELSE {m, Torn}

\* write_all and sync_all, to the file that was created, under any name.
WriteTmp(p) ==
  /\ In(p, "write")
  /\ \/ clerk[p].fd = "tmp" /\ tmp' \in Overwrite(tmp, clerk[p].mem) /\ UNCHANGED <<store, writes>>
     \/ clerk[p].fd = "store" /\ store' \in Overwrite(store, clerk[p].mem)
        /\ writes' = writes + 1 /\ UNCHANGED tmp
     \/ clerk[p].fd = "gone" /\ UNCHANGED <<store, tmp, writes>>
  /\ clerk' = Go(p, "rename")
  /\ UNCHANGED <<session, minted, revoked, revived, tangled, logvars>>

\* What another process's handle is called after p's rename.
Renamed(fd) == CASE fd = "tmp" -> "store" [] fd = "store" -> "gone" [] OTHER -> fd

\* Fault: the tmp file is renamed before it is written.
RenamesFirst(p) == In(p, "write") \/ In(p, "rename")

MayRename(p) == In(p, "rename")

\* rename; it fails if another process has taken the tmp file away.
Rename(p) ==
  /\ MayRename(p)
  /\ IF tmp = Missing
       THEN /\ \E to \in Steps(p, FALSE) : clerk' = [clerk EXCEPT ![p] = Proceed(@, to, @.base)]
            /\ UNCHANGED <<store, tmp, writes, revoked, revived>>
       ELSE /\ store' = tmp /\ tmp' = Missing
            /\ writes' = writes + 1
            /\ revoked' = revoked \cup clerk[p].drops
            /\ revived' = IF clerk[p].base = writes THEN revived ELSE revived \cup Tokens(tmp)
            /\ \E to \in Steps(p, TRUE) :
                 LET others == [q \in Clerk |-> [clerk[q] EXCEPT !.fd = Renamed(@)]]
                 IN clerk' = [others EXCEPT ![p] = Proceed(@, to, writes + 1)]
  /\ UNCHANGED <<session, minted, tangled, logvars>>

\* A command with no call left: list, show, tree, user list, quota show.
Answer(p) ==
  /\ In(p, "call") /\ clerk[p].calls = <<>>
  /\ clerk' = Leave(p)
  /\ UNCHANGED <<store, tmp, session, minted, ghosts, logvars>>

\* write_session_file empties the file, then writes it.
TruncateSession(p) ==
  /\ In(p, "session")
  /\ session' = Empty
  /\ clerk' = Go(p, "session2")
  /\ UNCHANGED <<store, tmp, minted, ghosts, logvars>>

WriteSession(p) ==
  /\ In(p, "session2")
  /\ session' = clerk[p].token
  /\ clerk' = Leave(p)
  /\ UNCHANGED <<store, tmp, minted, ghosts, logvars>>

\* The end of run_logout.
RemoveSession(p) ==
  /\ In(p, "forget")
  /\ session' = Missing
  /\ clerk' = Leave(p)
  /\ UNCHANGED <<store, tmp, minted, ghosts, logvars>>

---------------------------------------------------------------------------
(* The audit log (FileAuditSink). *)

OnLastLine(log, piece) == [log EXCEPT ![Len(log)] = Append(@, piece)]

\* The record is done with; so is the command after its last one.
NextNote(p) ==
  LET to == Step(clerk[p].cmd.op, Tail(clerk[p].notes), clerk[p].calls)
  IN [clerk EXCEPT ![p] = Proceed(@, to, @.base)]

\* record: writeln! appends the line and then the newline, in two writes.
WriteLine(p) ==
  /\ In(p, "line")
  /\ audit' = OnLastLine(audit, Head(clerk[p].notes))
  /\ crossed' = (crossed \/ \E q \in Clerk \ {p} : In(q, "newline"))
  /\ clerk' = Go(p, "newline")
  /\ UNCHANGED <<store, tmp, session, minted, ghosts, kept, cuts>>

WriteNewline(p) ==
  /\ In(p, "newline")
  /\ audit' = Append(audit, <<>>)
  /\ kept' = kept + 1
  /\ clerk' = NextNote(p)
  /\ UNCHANGED <<store, tmp, session, minted, ghosts, cuts, crossed>>

\* A record that stops: before it has written anything, within its line, before its newline.
Recording(p) == clerk[p].pc \in {"line", "newline"}
CutShort(p) ==
  \/ In(p, "line") /\ UNCHANGED logvars
  \/ /\ Recording(p)
     /\ audit' = IF In(p, "line") THEN OnLastLine(audit, "cut") ELSE audit
     /\ cuts' = cuts + 1
     /\ UNCHANGED <<kept, crossed>>

\* A write fails, on a full disk say: record logs a warning and the command goes on.
RecordFails(p) ==
  /\ CutShort(p)
  /\ clerk' = NextNote(p)
  /\ UNCHANGED <<store, tmp, session, minted, ghosts>>

Readable(line) == Len(line) = 1 /\ line # <<"cut">>

\* Fault: reading ends at the first line that does not parse.
ReadToDamage(log) == {i \in 1..Len(log) : \A j \in 1..i : Readable(log[j])}

\* read_all: the lines that hold one whole event, by their numbers.
ReadAll(log) == {i \in 1..Len(log) : Readable(log[i])}

---------------------------------------------------------------------------

\* The process dies.
Die(p) ==
  /\ ~In(p, "idle")
  /\ IF Recording(p) THEN CutShort(p) ELSE UNCHANGED logvars
  /\ clerk' = Leave(p)
  /\ UNCHANGED <<store, tmp, session, minted, ghosts>>

TNext ==
  \E p \in Clerk :
    \/ Start(p) \/ OpenStore(p) \/ Call(p) \/ CreateTmp(p) \/ WriteTmp(p) \/ Rename(p)
    \/ Answer(p) \/ TruncateSession(p) \/ WriteSession(p) \/ RemoveSession(p)
    \/ WriteLine(p) \/ WriteNewline(p) \/ RecordFails(p) \/ Die(p)

TSpec == TInit /\ [][TNext]_tvars

---------------------------------------------------------------------------
(* Properties. *)

\* "every mutation serialises the whole state, writes it to <path>.tmp and renames over
\* <path>" (store.rs:1096): a process that dies anywhere leaves a whole store behind, and
\* a token that logout, a password change, a removal or a rotation has revoked does not
\* come back into the file.  Two exceptions, both of processes that run at the same time:
\* one that opened the store before the revocation writes its copy back, and two that are
\* between create and rename share one tmp file.
RevocationHolds ==
  ~tangled => /\ store \notin {Empty, Torn}
              /\ revoked \cap Tokens(store) \subseteq revived

\* "a process killed mid-write does not poison the history" (audit.rs:193): as long as no
\* two processes write at the same time, a record that is cut short, by a kill or by a
\* full disk, costs at most one other event, the next one, whose line it spoils.  Every
\* other event that was recorded is there for tail, count and stats.
HistoryNotPoisoned == ~crossed => Cardinality(ReadAll(audit)) >= kept - cuts

=============================================================================
