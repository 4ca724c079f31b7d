------------------------- MODULE SessionOwnership -------------------------
(***************************************************************************)
(* Who may write one clustered session (backend/cluster_router.go,         *)
(* cluster/redis.go, session/postgres_repository.go, backend/session.go).  *)
(*                                                                         *)
(* Redis holds the owner key of the session and its fence counter: Acquire *)
(* takes a free key and increments the counter, so a lease is identified   *)
(* by its fence token.  PostgreSQL holds the session row with the fence    *)
(* token bound last and the journal; every write compares the token of its *)
(* handle with the row's.  Each instance keeps the lease it installed      *)
(* (router.leases), the goroutines that wait for a lease to be lost, and   *)
(* the session's controller (SessionManager.sessions).                     *)
(*                                                                         *)
(* A request enters at its gateway, runs ensureOwner, and is served there  *)
(* or forwarded to the owner; at most one controller is opened by each     *)
(* request and at most one run is started by it, so requests also name     *)
(* controllers and runs.                                                   *)
(***************************************************************************)
EXTENDS Integers, Sequences, FiniteSets

CONSTANTS
    Instances,  \* the backend processes of the cluster
    Requests,   \* the RPCs about the session
    Homes,      \* the choices of the gateway each request enters at
    CreateSets, \* the sets of requests that may be session.create
    MayDrain,   \* instances that may be drained
    MayCrash,   \* instances whose process may crash
    None

ASSUME OwnershipAssumption ==
    /\ Homes \subseteq [Requests -> Instances]
    /\ CreateSets \subseteq SUBSET Requests
    /\ MayDrain \subseteq Instances /\ MayCrash \subseteq Instances
    /\ None \notin Instances \cup Requests \cup [inst : Instances, tok : Nat]

VARIABLES
    key,      \* Redis: the owner key, None or [inst, tok]
    counter,  \* Redis: the fence counter of the session
    row,      \* PostgreSQL: the session row exists
    fence,    \* PostgreSQL: lumina_sessions.fence_token
    log,      \* PostgreSQL: the journal, events [kind, run, tok, by]
    up,       \* the process of the instance runs
    drain,    \* progress of Drain: "no", "marked", "copied", "released", "done"
    drained,  \* the lease token Drain copied (0: none)
    leases,   \* router.leases: the token of the installed lease (0: none)
    watch,    \* tokens whose installLease goroutine still waits
    closing,  \* tokens whose goroutine has released the controller, not yet the entry
    lost,     \* tokens whose Lost channel is closed (or whose process died)
    ctl,      \* SessionManager.sessions: the controller in the map
    creates,  \* the requests that are session.create (the others: session.submit)
    pc,       \* where the handling of the request is
    at,       \* the instance that handles the request
    tok,      \* the token the request acts under (0: none yet)
    path,     \* how ensureOwner reached the owner: decides what a failure undoes
    pend,     \* open runs its recovery still has to close
    busy,     \* the controller opened by the request runs a submit
    srv,      \* the controller that accepted the request's submit
    run       \* the run of the request: "none", "accepted", "started", "over"

redisVars == <<key, counter>>
pgVars == <<row, fence, log>>
procVars == <<up, drain, drained>>
leaseVars == <<leases, watch, closing, lost>>
reqVars == <<creates, pc, at, tok, path, pend>>
runVars == <<busy, srv, run>>
vars == <<key, counter, row, fence, log, up, drain, drained, leases, watch, closing, lost,
          ctl, creates, pc, at, tok, path, pend, busy, srv, run>>

Tokens == Nat
Event == [kind : {"created", "start", "end", "interrupt"}, run : Requests \cup {None},
          tok : Tokens, by : Instances]
Steps == {"idle", "local", "acquire", "relookup", "install", "resume", "insert", "bind",
          "stream", "load", "recover", "meta", "register", "serve", "forward", "drop",
          "release", "over"}

\* Type invariant.
TypeOK ==
    /\ key \in [inst : Instances, tok : Tokens] \cup {None}
    /\ counter \in Tokens
    /\ row \in BOOLEAN
    /\ fence \in Tokens
    /\ log \in Seq(Event)
    /\ up \in [Instances -> BOOLEAN]
    /\ drain \in [Instances -> {"no", "marked", "copied", "released", "done"}]
    /\ drained \in [Instances -> Tokens]
    /\ leases \in [Instances -> Tokens]
    /\ watch \in [Instances -> SUBSET Tokens]
    /\ closing \in [Instances -> SUBSET Tokens]
    /\ lost \subseteq Tokens
    /\ ctl \in [Instances -> Requests \cup {None}]
    /\ creates \in CreateSets
    /\ pc \in [Requests -> Steps]
    /\ at \in [Requests -> Instances]
    /\ tok \in [Requests -> Tokens]
    /\ path \in [Requests -> {"none", "acquired", "local", "command", "create", "opened"}]
    /\ pend \in [Requests -> SUBSET Requests]
    /\ busy \in [Requests -> BOOLEAN]
    /\ srv \in [Requests -> Requests \cup {None}]
    /\ run \in [Requests -> {"none", "accepted", "started", "over"}]

\* A session no request creates was created under token 1, by an owner long gone.
FirstFence == IF creates = {} THEN 1 ELSE 0

Init ==
    /\ creates \in CreateSets
    /\ key = None /\ log = <<>>
    /\ row = (creates = {})
    /\ counter = FirstFence /\ fence = FirstFence
    /\ up = [i \in Instances |-> TRUE]
    /\ drain = [i \in Instances |-> "no"]
    /\ drained = [i \in Instances |-> 0]
    /\ leases = [i \in Instances |-> 0]
    /\ watch = [i \in Instances |-> {}]
    /\ closing = [i \in Instances |-> {}]
    /\ lost = {}
    /\ ctl = [i \in Instances |-> None]
    /\ pc = [r \in Requests |-> "idle"]
    /\ at \in Homes
    /\ tok = [r \in Requests |-> 0]
    /\ path = [r \in Requests |-> "none"]
    /\ pend = [r \in Requests |-> {}]
    /\ busy = [r \in Requests |-> FALSE]
    /\ srv = [r \in Requests |-> None]
    /\ run = [r \in Requests |-> "none"]

\* The owner key is the one of lease t.
KeyIs(t) == key # None /\ key.tok = t

Goto(r, step) == pc' = [pc EXCEPT ![r] = step]
At(r, step) == pc[r] = step /\ up[at[r]]

\* A request handled at instance i failed: what the caller of the failing call
\* undoes.  ensureOwner releases the lease it acquired, Dispatch the lease of a
\* failed create; every other failure is only an error response.
Failed(r) == Goto(r, IF path[r] \in {"acquired", "create"} THEN "drop" ELSE "over")

\* The checks of a write by a handle with token t: the row's token must be equal.
FenceOK(t) == t > 0 /\ fence = t

-----------------------------------------------------------------------------
\* ensureOwner

\* The first Lookup of ensureOwner, and the draining check it guards.
Lookup(r) ==
    /\ At(r, "idle")
    /\ \/ /\ key = None
          /\ Goto(r, IF drain[at[r]] = "no" THEN "acquire" ELSE "over")
          /\ UNCHANGED tok
       \/ /\ key # None
          /\ tok' = [tok EXCEPT ![r] = key.tok]
          /\ Goto(r, IF key.inst = at[r] THEN "local" ELSE "forward")
    /\ UNCHANGED <<redisVars, pgVars, procVars, leaseVars, ctl, creates, at, path, pend, runVars>>

\* The owner is this instance: the lease must still be attached; a session whose
\* controller is gone is resumed under the owner's token.
LocalOwner(r) ==
    /\ At(r, "local")
    /\ \/ /\ leases[at[r]] # tok[r]
          /\ Goto(r, "over")
          /\ UNCHANGED path
       \/ /\ leases[at[r]] = tok[r]
          /\ path' = [path EXCEPT ![r] = "local"]
          /\ Goto(r, IF ctl[at[r]] = None THEN "resume" ELSE "serve")
    /\ UNCHANGED <<redisVars, pgVars, procVars, leaseVars, ctl, creates, at, tok, pend, runVars>>

\* Acquire runs the script: a taken key is ErrSessionOwned; a free one is set with
\* the incremented counter.  When the reply is lost the key is set and the caller
\* gets an error and no lease object.
Acquire(r) ==
    /\ At(r, "acquire")
    /\ \/ /\ key # None
          /\ Goto(r, "relookup")
          /\ UNCHANGED <<redisVars, tok>>
       \/ /\ key = None
          /\ counter' = counter + 1
          /\ key' = [inst |-> at[r], tok |-> counter + 1]
          /\ \/ /\ tok' = [tok EXCEPT ![r] = counter + 1]
                /\ Goto(r, "install")
             \/ /\ Goto(r, "over")
                /\ UNCHANGED tok
    /\ UNCHANGED <<pgVars, procVars, leaseVars, ctl, creates, at, path, pend, runVars>>

\* The second Lookup, after ErrSessionOwned.  The owner found is used as it is: the
\* lease is not checked and no controller is resumed.  An expired key leaves the
\* empty owner, which Forward refuses.
Relookup(r) ==
    /\ At(r, "relookup")
    /\ \/ /\ key = None
          /\ Goto(r, "over")
          /\ UNCHANGED <<tok, path>>
       \/ /\ key # None
          /\ tok' = [tok EXCEPT ![r] = key.tok]
          /\ path' = [path EXCEPT ![r] = "local"]
          /\ Goto(r, IF key.inst = at[r] THEN "serve" ELSE "forward")
    /\ UNCHANGED <<redisVars, pgVars, procVars, leaseVars, ctl, creates, at, pend, runVars>>

\* installLease: the lease replaces whatever entry the map has, and a goroutine
\* starts to wait for its loss.  A create leaves the opening to its handler.
InstallLease(r) ==
    /\ At(r, "install")
    /\ leases' = [leases EXCEPT ![at[r]] = tok[r]]
    /\ watch' = [watch EXCEPT ![at[r]] = @ \cup {tok[r]}]
    /\ path' = [path EXCEPT ![r] = IF r \in creates THEN "local" ELSE "acquired"]
    /\ Goto(r, IF r \in creates THEN "serve" ELSE "resume")
    /\ UNCHANGED <<redisVars, pgVars, procVars, closing, lost, ctl, creates, at, tok, pend, runVars>>

\* The owner's commandLoop takes a forwarded request: the key must still name this
\* instance with the token the gateway saw.
HandleCommand(r) ==
    /\ pc[r] = "forward"
    /\ \/ Goto(r, "over") /\ UNCHANGED <<at, path>>
       \/ /\ KeyIs(tok[r]) /\ up[key.inst]
          /\ at' = [at EXCEPT ![r] = key.inst]
          /\ path' = [path EXCEPT ![r] = "command"]
          /\ Goto(r, IF ctl[key.inst] = None THEN "resume" ELSE "serve")
    /\ UNCHANGED <<redisVars, pgVars, procVars, leaseVars, ctl, creates, tok, pend, runVars>>

-----------------------------------------------------------------------------
\* SessionManager and PostgresRepository.OpenRuntime

\* ResumeFor: a controller in the map is returned whatever its token is; otherwise
\* the session must exist.
ResumeFor(r) ==
    /\ At(r, "resume")
    /\ \/ ctl[at[r]] # None /\ Goto(r, "serve")
       \/ ctl[at[r]] = None /\ row /\ Goto(r, "bind")
       \/ ctl[at[r]] = None /\ ~row /\ Failed(r)
    /\ UNCHANGED <<redisVars, pgVars, procVars, leaseVars, ctl, creates, at, tok, path, pend, runVars>>

\* The INSERT of a create: a row that exists keeps its token.
InsertRow(r) ==
    /\ At(r, "insert")
    /\ row' = TRUE
    /\ fence' = IF row THEN fence ELSE tok[r]
    /\ pend' = [pend EXCEPT ![r] = IF row THEN {} ELSE {r}]
    /\ Goto(r, "bind")
    /\ UNCHANGED <<redisVars, log, procVars, leaseVars, ctl, creates, at, tok, path, runVars>>

\* Faulty variant: the row takes the token of the last opener, lower or not.
BindAnyFence(r) ==
    /\ At(r, "bind")
    /\ fence' = tok[r]
    /\ Goto(r, "stream")
    /\ UNCHANGED <<redisVars, row, log, procVars, leaseVars, ctl, creates, at, tok, path, pend, runVars>>

\* bindFence: the row's token only rises; a lower one is refused.
BindFence(r) ==
    /\ At(r, "bind")
    /\ \/ fence > tok[r] /\ Failed(r) /\ UNCHANGED fence
       \/ fence <= tok[r] /\ fence' = tok[r] /\ Goto(r, "stream")
    /\ UNCHANGED <<redisVars, row, log, procVars, leaseVars, ctl, creates, at, tok, path, pend, runVars>>

Ev(kind, q, t, i) == [kind |-> kind, run |-> q, tok |-> t, by |-> i]

\* The fenced cwd UPDATE, CreateStream and, for a row just inserted, the
\* session.created event (pend marks the insertion until here).
CreateStream(r) ==
    /\ At(r, "stream")
    /\ \/ ~FenceOK(tok[r]) /\ Failed(r) /\ UNCHANGED log
       \/ /\ FenceOK(tok[r])
          /\ log' = IF pend[r] = {} THEN log ELSE Append(log, Ev("created", None, tok[r], at[r]))
          /\ Goto(r, "load")
    /\ pend' = [pend EXCEPT ![r] = {}]
    /\ UNCHANGED <<redisVars, row, fence, procVars, leaseVars, ctl, creates, at, tok, path, runVars>>

Terminal(e) == e.kind \in {"end", "interrupt"}

\* Faulty variant: a terminal event does not take its run off the scan.
StartedRuns ==
    {q \in Requests : \E n \in DOMAIN log : log[n].kind = "start" /\ log[n].run = q}

\* The runs a scan of the journal finds started and not closed.
OpenRuns ==
    {q \in Requests : \E n \in DOMAIN log :
        /\ log[n].kind = "start" /\ log[n].run = q
        /\ \A m \in DOMAIN log : m > n => ~(Terminal(log[m]) /\ log[m].run = q)}

\* RecoverInterruptedRuntime scans the journal ...
RecoverLoad(r) ==
    /\ At(r, "load")
    /\ pend' = [pend EXCEPT ![r] = OpenRuns]
    /\ Goto(r, "recover")
    /\ UNCHANGED <<redisVars, pgVars, procVars, leaseVars, ctl, creates, at, tok, path, runVars>>

\* ... and then closes each open run with an append of its own.
RecoverAppend(r) ==
    /\ At(r, "recover")
    /\ \/ pend[r] = {} /\ Goto(r, "meta") /\ UNCHANGED <<log, pend>>
       \/ pend[r] # {} /\ ~FenceOK(tok[r]) /\ Failed(r) /\ UNCHANGED <<log, pend>>
       \/ /\ FenceOK(tok[r])
          /\ \E q \in pend[r] : /\ log' = Append(log, Ev("interrupt", q, tok[r], at[r]))
                                /\ pend' = [pend EXCEPT ![r] = @ \ {q}]
          /\ UNCHANGED pc
    /\ UNCHANGED <<redisVars, row, fence, procVars, leaseVars, ctl, creates, at, tok, path, runVars>>

\* UpdateMetaProjection, the last fenced write of the factory.
UpdateMeta(r) ==
    /\ At(r, "meta")
    /\ IF FenceOK(tok[r]) THEN Goto(r, "register") ELSE Failed(r)
    /\ UNCHANGED <<redisVars, pgVars, procVars, leaseVars, ctl, creates, at, tok, path, pend, runVars>>

\* createWithState stores the controller in the map, over any other.  restoreTeams
\* only reads the journal.
Register(r) ==
    /\ At(r, "register")
    /\ ctl' = [ctl EXCEPT ![at[r]] = r]
    /\ path' = [path EXCEPT ![r] = "opened"]
    /\ Goto(r, IF path[r] = "create" THEN "over" ELSE "serve")
    /\ UNCHANGED <<redisVars, pgVars, procVars, leaseVars, creates, at, tok, pend, runVars>>

-----------------------------------------------------------------------------
\* The handler, and the run it starts

\* The controller exists, is not busy, and may save the command result.
Accepts(c) == c # None /\ ~busy[c] /\ FenceOK(tok[c])

\* session.create opens the session unless the map has it (bound: a request opens at
\* most one controller); session.submit takes the
\* controller of the map, its busy flag, and records the command under its token.
Serve(r) ==
    /\ At(r, "serve")
    /\ LET c == ctl[at[r]] IN
       \/ /\ r \in creates
          /\ c # None \/ path[r] = "opened"
          /\ Goto(r, "over")
          /\ UNCHANGED <<path, runVars>>
       \/ /\ r \in creates /\ c = None /\ path[r] # "opened"
          /\ path' = [path EXCEPT ![r] = IF @ = "command" THEN @ ELSE "create"]
          /\ Goto(r, "insert")
          /\ UNCHANGED runVars
       \/ /\ r \notin creates
          /\ ~Accepts(c)
          /\ Goto(r, "over")
          /\ UNCHANGED <<path, runVars>>
       \/ /\ r \notin creates /\ Accepts(c)
          /\ busy' = [busy EXCEPT ![c] = TRUE]
          /\ srv' = [srv EXCEPT ![r] = c]
          /\ run' = [run EXCEPT ![r] = "accepted"]
          /\ Goto(r, "over")
          /\ UNCHANGED path
    /\ UNCHANGED <<redisVars, pgVars, procVars, leaseVars, ctl, creates, at, tok, pend>>

\* The run goroutine appends run.started; a refused or failed append (the token is
\* lost, the run was aborted) ends the run without an event.
RunStart(q) ==
    /\ run[q] = "accepted"
    /\ LET c == srv[q] IN
       \/ /\ FenceOK(tok[c])
          /\ log' = Append(log, Ev("start", q, tok[c], at[c]))
          /\ run' = [run EXCEPT ![q] = "started"]
          /\ UNCHANGED busy
       \/ /\ run' = [run EXCEPT ![q] = "over"]
          /\ busy' = [busy EXCEPT ![c] = FALSE]
          /\ UNCHANGED log
    /\ UNCHANGED <<redisVars, row, fence, procVars, leaseVars, ctl, reqVars, srv>>

\* The run ends, completed or aborted, with its terminal event if the append is
\* accepted, and frees its controller.
RunEnd(q) ==
    /\ run[q] = "started"
    /\ LET c == srv[q] IN
       /\ \/ FenceOK(tok[c]) /\ log' = Append(log, Ev("end", q, tok[c], at[c]))
          \/ UNCHANGED log
       /\ run' = [run EXCEPT ![q] = "over"]
       /\ busy' = [busy EXCEPT ![c] = FALSE]
    /\ UNCHANGED <<redisVars, row, fence, procVars, leaseVars, ctl, reqVars, srv>>

-----------------------------------------------------------------------------
\* Giving a lease up

\* releaseLease, first half: the entry leaves router.leases and the controller the
\* map (ReleaseFor aborts its run, which may still write); without an entry
\* nothing happens.
DropLease(r) ==
    /\ At(r, "drop")
    /\ leases' = [leases EXCEPT ![at[r]] = 0]
    /\ \/ leases[at[r]] = 0 /\ Goto(r, "over") /\ UNCHANGED <<ctl, tok>>
       \/ /\ leases[at[r]] # 0
          /\ ctl' = [ctl EXCEPT ![at[r]] = None]
          /\ tok' = [tok EXCEPT ![r] = leases[at[r]]]
          /\ Goto(r, "release")
    /\ UNCHANGED <<redisVars, pgVars, procVars, watch, closing, lost, creates, at, path, pend, runVars>>

\* The release script deletes the key of this lease only.
ReleaseKey(t) == key' = IF KeyIs(t) THEN None ELSE key

\* releaseLease, second half: lease.Release.
ReleaseLease(r) ==
    /\ At(r, "release")
    /\ ReleaseKey(tok[r])
    /\ lost' = lost \cup {tok[r]}
    /\ Goto(r, "over")
    /\ UNCHANGED <<counter, pgVars, procVars, leases, watch, closing, ctl, creates, at, tok, path,
                   pend, runVars>>

\* The lease objects of instance i that still renew.
Renewing(i) == watch[i] \ lost

\* A renewal the script refuses: the key is not this lease's any more.
RenewRefused(i, t) ==
    /\ up[i] /\ t \in Renewing(i)
    /\ ~KeyIs(t)
    /\ lost' = lost \cup {t}
    /\ UNCHANGED <<redisVars, pgVars, procVars, leases, watch, closing, ctl, reqVars, runVars>>

\* Renewals failed with errors until the time to live was nearly over: the lease is
\* given up although its key may still stand.
RenewFailed(i, t) ==
    /\ up[i] /\ t \in Renewing(i)
    /\ KeyIs(t)
    /\ lost' = lost \cup {t}
    /\ UNCHANGED <<redisVars, pgVars, procVars, leases, watch, closing, ctl, reqVars, runVars>>

\* The time to live of the key runs out: its holder crashed, is paused, or cannot
\* reach Redis.
KeyExpires ==
    /\ key # None
    /\ key' = None
    /\ UNCHANGED <<counter, pgVars, procVars, leaseVars, ctl, reqVars, runVars>>

\* The goroutine of installLease sees its lease lost and releases the controller in
\* the map, whichever lease that controller was opened under.
WatcherReleases(i, t) ==
    /\ up[i] /\ t \in watch[i] \cap lost
    /\ ctl' = [ctl EXCEPT ![i] = None]
    /\ watch' = [watch EXCEPT ![i] = @ \ {t}]
    /\ closing' = [closing EXCEPT ![i] = @ \cup {t}]
    /\ UNCHANGED <<redisVars, pgVars, procVars, leases, lost, reqVars, runVars>>

\* ... and then deletes the entry if it is still this lease's.
WatcherDetaches(i, t) ==
    /\ up[i] /\ t \in closing[i]
    /\ closing' = [closing EXCEPT ![i] = @ \ {t}]
    /\ leases' = [leases EXCEPT ![i] = IF @ = t THEN 0 ELSE @]
    /\ UNCHANGED <<redisVars, pgVars, procVars, watch, lost, ctl, reqVars, runVars>>

\* Drain: mark, copy the leases, release the controller and the lease, delete the
\* entry whatever it holds by then.
DrainMark(i) ==
    /\ i \in MayDrain /\ up[i] /\ drain[i] = "no"
    /\ drain' = [drain EXCEPT ![i] = "marked"]
    /\ UNCHANGED <<redisVars, pgVars, up, drained, leaseVars, ctl, reqVars, runVars>>

DrainCopy(i) ==
    /\ up[i] /\ drain[i] = "marked"
    /\ drained' = [drained EXCEPT ![i] = leases[i]]
    /\ drain' = [drain EXCEPT ![i] = IF leases[i] = 0 THEN "done" ELSE "copied"]
    /\ UNCHANGED <<redisVars, pgVars, up, leaseVars, ctl, reqVars, runVars>>

DrainRelease(i) ==
    /\ up[i] /\ drain[i] = "copied"
    /\ ctl' = [ctl EXCEPT ![i] = None]
    /\ ReleaseKey(drained[i])
    /\ lost' = lost \cup {drained[i]}
    /\ drain' = [drain EXCEPT ![i] = "released"]
    /\ UNCHANGED <<counter, pgVars, up, drained, leases, watch, closing, reqVars, runVars>>

DrainDelete(i) ==
    /\ up[i] /\ drain[i] = "released"
    /\ leases' = [leases EXCEPT ![i] = 0]
    /\ drain' = [drain EXCEPT ![i] = "done"]
    /\ UNCHANGED <<redisVars, pgVars, up, drained, watch, closing, lost, ctl, reqVars, runVars>>

-----------------------------------------------------------------------------
\* A process dies with everything it holds in memory; Redis and PostgreSQL stay.
Crash(i) ==
    /\ i \in MayCrash /\ up[i]
    /\ up' = [up EXCEPT ![i] = FALSE]
    /\ drain' = [drain EXCEPT ![i] = "no"]
    /\ drained' = [drained EXCEPT ![i] = 0]
    /\ leases' = [leases EXCEPT ![i] = 0]
    /\ watch' = [watch EXCEPT ![i] = {}]
    /\ closing' = [closing EXCEPT ![i] = {}]
    /\ lost' = lost \cup watch[i] \cup closing[i]
    /\ ctl' = [ctl EXCEPT ![i] = None]
    /\ pc' = [r \in Requests |-> IF at[r] = i /\ pc[r] \notin {"idle", "forward"}
                                 THEN "over" ELSE pc[r]]
    /\ run' = [q \in Requests |-> IF srv[q] # None /\ at[srv[q]] = i THEN "over" ELSE run[q]]
    /\ UNCHANGED <<redisVars, pgVars, creates, at, tok, path, pend, busy, srv>>

Restart(i) ==
    /\ ~up[i]
    /\ up' = [up EXCEPT ![i] = TRUE]
    /\ UNCHANGED <<redisVars, pgVars, drain, drained, leaseVars, ctl, reqVars, runVars>>

RequestStep(r) ==
    \/ Lookup(r) \/ LocalOwner(r) \/ Acquire(r) \/ Relookup(r) \/ InstallLease(r)
    \/ HandleCommand(r) \/ ResumeFor(r) \/ InsertRow(r) \/ BindFence(r) \/ CreateStream(r)
    \/ RecoverLoad(r) \/ RecoverAppend(r) \/ UpdateMeta(r) \/ Register(r) \/ Serve(r)
    \/ RunStart(r) \/ RunEnd(r) \/ DropLease(r) \/ ReleaseLease(r)

LeaseStep(i, t) ==
    RenewRefused(i, t) \/ RenewFailed(i, t) \/ WatcherReleases(i, t) \/ WatcherDetaches(i, t)

InstanceStep(i) ==
    \/ DrainMark(i) \/ DrainCopy(i) \/ DrainRelease(i) \/ DrainDelete(i)
    \/ Crash(i) \/ Restart(i)

Next ==
    \/ \E r \in Requests : RequestStep(r)
    \/ \E i \in Instances : InstanceStep(i)
    \/ \E i \in Instances : \E t \in watch[i] \cup closing[i] : LeaseStep(i, t)
    \/ KeyExpires

Spec == Init /\ [][Next]_vars

-----------------------------------------------------------------------------
\* The journal is ordered by fence token: once a write of a later lease is in, no
\* write of an earlier lease follows (checkFenceTx and Append against the row that
\* bindFence raises).
LogByFence ==
    \A n, m \in DOMAIN log : n < m => log[n].tok <= log[m].tok

\* Two instances never write under one token, although the check is only an
\* equality of tokens (the INCR of the acquire script, never reset).
OneWriterPerToken ==
    \A n, m \in DOMAIN log : log[n].tok = log[m].tok => log[n].by = log[m].by

\* A run is closed under one token: when recovery of a later owner interrupts a run,
\* neither its own process nor another owner's recovery also closes it (bindFence
\* before the scan of RecoverInterruptedRuntime).
OneOwnerClosesRun ==
    \A n, m \in DOMAIN log :
        Terminal(log[n]) /\ Terminal(log[m]) /\ log[n].run = log[m].run
            => log[n].tok = log[m].tok

\* An entry of router.leases has the goroutine that will detach it when its lease is
\* lost: it cannot stay to answer ensureOwner for a session owned elsewhere,
\* whatever requests, drains and crashes do to the map in between.
LeaseWatched ==
    \A i \in Instances : leases[i] # 0 => leases[i] \in watch[i] \cup closing[i]
=============================================================================
