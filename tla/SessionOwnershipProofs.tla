---------------------- MODULE SessionOwnershipProofs ----------------------
(* Fencing, for any instances, requests, gateways, drains and crashes.     *)
EXTENDS SessionOwnership, TLAPS

(* The steps of OpenRuntime at which the row is there, and those at which  *)
(* the request has bound its token.                                        *)
RowSteps == {"bind", "stream", "load", "recover", "meta", "register"}
BoundSteps == {"stream", "load", "recover", "meta", "register"}

(* A controller in the map, or one that accepted a submit, was opened by a *)
(* request that does not move any more; nothing is written before the row. *)
Opened ==
    /\ \A r \in Requests : pc[r] \in RowSteps => row
    /\ \A r \in Requests : path[r] = "opened" => pc[r] \in {"serve", "over"} /\ row
    /\ \A i \in Instances : ctl[i] # None => path[ctl[i]] = "opened"
    /\ \A q \in Requests : srv[q] # None => path[srv[q]] = "opened"
    /\ row \/ log = <<>>

(* The request acts on the token it carries as an owner of the session.    *)
Acting(r) ==
    \/ pc[r] \in RowSteps \cup {"local", "install", "resume", "insert", "serve"}
    \/ path[r] = "opened"

(* A token belongs to one instance: the counter bounds every token, and    *)
(* the key, the acting requests and the journal agree on who holds one.    *)
OneHolder ==
    /\ fence <= counter
    /\ key # None => key.tok <= counter
    /\ \A r \in Requests : Acting(r) => tok[r] <= counter
    /\ \A n \in DOMAIN log : log[n].tok <= counter
    /\ \A r \in Requests : Acting(r) /\ KeyIs(tok[r]) => key.inst = at[r]
    /\ \A r, s \in Requests : Acting(r) /\ Acting(s) /\ tok[r] = tok[s] => at[r] = at[s]
    /\ \A n \in DOMAIN log : KeyIs(log[n].tok) => key.inst = log[n].by
    /\ \A r \in Requests : \A n \in DOMAIN log :
            Acting(r) /\ log[n].tok = tok[r] => log[n].by = at[r]

(* The row's token bounds what was written and what was bound.             *)
FenceBounds ==
    /\ \A n \in DOMAIN log : log[n].tok <= fence
    /\ \A r \in Requests : pc[r] \in BoundSteps \/ path[r] = "opened" => tok[r] <= fence

(* The events of a run come from its controller, or from a recovery that   *)
(* scanned the journal after its start; a start precedes every terminal.   *)
RunEvents ==
    /\ \A n \in DOMAIN log : log[n].kind # "created" =>
            /\ log[n].run \in Requests
            /\ srv[log[n].run] # None
            /\ tok[srv[log[n].run]] <= log[n].tok
            /\ run[log[n].run] \in {"started", "over"}
    /\ \A n, m \in DOMAIN log :
            Terminal(log[n]) /\ log[m].kind = "start" /\ log[n].run = log[m].run => m < n

(* Until a later token is bound, a run that a recovery is about to close   *)
(* has been closed, if at all, under the token of that recovery.           *)
Recovering ==
    \A r \in Requests : pc[r] = "recover" => \A q \in pend[r] :
        /\ srv[q] # None
        /\ run[q] \in {"started", "over"}
        /\ fence = tok[r] => \A n \in DOMAIN log :
                Terminal(log[n]) /\ log[n].run = q => log[n].tok = tok[r]

(* A run belongs to a request that was accepted and has ended.             *)
SubmitAccepted ==
    \A q \in Requests : /\ run[q] = "none" <=> srv[q] = None
                        /\ srv[q] # None => pc[q] = "over"

IInv ==
    /\ TypeOK /\ Opened /\ OneHolder /\ FenceBounds /\ RunEvents /\ Recovering
    /\ SubmitAccepted /\ LogByFence /\ OneWriterPerToken /\ OneOwnerClosesRun

(* The type invariant by groups of variables.                              *)
RedisType == key \in [inst : Instances, tok : Nat] \cup {None} /\ counter \in Nat
PgType == row \in BOOLEAN /\ fence \in Nat /\ log \in Seq(Event)
ProcType ==
    /\ up \in [Instances -> BOOLEAN]
    /\ drain \in [Instances -> {"no", "marked", "copied", "released", "done"}]
    /\ drained \in [Instances -> Nat]
LeaseType ==
    /\ leases \in [Instances -> Nat]
    /\ watch \in [Instances -> SUBSET Nat]
    /\ closing \in [Instances -> SUBSET Nat]
    /\ lost \subseteq Nat
CtlType == ctl \in [Instances -> Requests \cup {None}]
ReqType ==
    /\ creates \in CreateSets
    /\ pc \in [Requests -> Steps]
    /\ at \in [Requests -> Instances]
    /\ tok \in [Requests -> Nat]
    /\ path \in [Requests -> {"none", "acquired", "local", "command", "create", "opened"}]
    /\ pend \in [Requests -> SUBSET Requests]
RunType ==
    /\ busy \in [Requests -> BOOLEAN]
    /\ srv \in [Requests -> Requests \cup {None}]
    /\ run \in [Requests -> {"none", "accepted", "started", "over"}]

USE OwnershipAssumption DEF Tokens

LEMMA TypeGroups ==
    /\ TypeOK <=> /\ RedisType /\ PgType /\ ProcType /\ LeaseType
                  /\ CtlType /\ ReqType /\ RunType
    /\ TypeOK' <=> /\ RedisType' /\ PgType' /\ ProcType' /\ LeaseType'
                   /\ CtlType' /\ ReqType' /\ RunType'
BY DEF TypeOK, RedisType, PgType, ProcType, LeaseType, CtlType, ReqType, RunType

LEMMA Frame ==
    /\ RedisType /\ UNCHANGED redisVars => RedisType'
    /\ PgType /\ UNCHANGED pgVars => PgType'
    /\ ProcType /\ UNCHANGED procVars => ProcType'
    /\ LeaseType /\ UNCHANGED leaseVars => LeaseType'
    /\ CtlType /\ UNCHANGED ctl => CtlType'
    /\ ReqType /\ UNCHANGED reqVars => ReqType'
    /\ RunType /\ UNCHANGED runVars => RunType'
BY DEF RedisType, PgType, ProcType, LeaseType, CtlType, ReqType, RunType,
       redisVars, pgVars, procVars, leaseVars, reqVars, runVars

LEMMA AppendType ==
    ASSUME PgType, NEW kind \in {"created", "start", "end", "interrupt"},
           NEW q \in Requests \cup {None}, NEW t \in Nat, NEW i \in Instances
    PROVE  Append(log, Ev(kind, q, t, i)) \in Seq(Event)
BY DEF PgType, Ev, Event

LEMMA TypeStep ==
    ASSUME TypeOK, SubmitAccepted, [Next]_vars
    PROVE  TypeOK'
<1> USE TypeGroups
<1>1. ASSUME NEW r \in Requests, Lookup(r) PROVE TypeOK'
  <2>1. ReqType'
    BY <1>1 DEF Lookup, reqVars, ReqType, RedisType, Goto, At, Steps
  <2> QED
    BY <1>1, <2>1, Frame DEF Lookup
<1>2. ASSUME NEW r \in Requests, LocalOwner(r) PROVE TypeOK'
  <2>1. ReqType'
    BY <1>2 DEF LocalOwner, reqVars, ReqType, Goto, At, Steps
  <2> QED
    BY <1>2, <2>1, Frame DEF LocalOwner
<1>3. ASSUME NEW r \in Requests, Acquire(r) PROVE TypeOK'
  <2>1. RedisType'
    BY <1>3 DEF Acquire, redisVars, RedisType, ReqType
  <2>2. ReqType'
    BY <1>3 DEF Acquire, reqVars, ReqType, RedisType, Goto, At, Steps
  <2> QED
    BY <1>3, <2>1, <2>2, Frame DEF Acquire
<1>4. ASSUME NEW r \in Requests, Relookup(r) PROVE TypeOK'
  <2>1. ReqType'
    BY <1>4 DEF Relookup, reqVars, ReqType, RedisType, Goto, At, Steps
  <2> QED
    BY <1>4, <2>1, Frame DEF Relookup
<1>5. ASSUME NEW r \in Requests, InstallLease(r) PROVE TypeOK'
  <2>1. LeaseType'
    BY <1>5 DEF InstallLease, leaseVars, LeaseType, ReqType
  <2>2. ReqType'
    BY <1>5 DEF InstallLease, reqVars, ReqType, Goto, At, Steps
  <2> QED
    BY <1>5, <2>1, <2>2, Frame DEF InstallLease
<1>6. ASSUME NEW r \in Requests, HandleCommand(r) PROVE TypeOK'
  <2>1. ReqType'
    BY <1>6 DEF HandleCommand, reqVars, ReqType, RedisType, KeyIs, Goto, At, Steps
  <2> QED
    BY <1>6, <2>1, Frame DEF HandleCommand
<1>7. ASSUME NEW r \in Requests, ResumeFor(r) PROVE TypeOK'
  <2>1. ReqType'
    BY <1>7 DEF ResumeFor, reqVars, ReqType, Failed, Goto, At, Steps
  <2> QED
    BY <1>7, <2>1, Frame DEF ResumeFor
<1>8. ASSUME NEW r \in Requests, InsertRow(r) PROVE TypeOK'
  <2>1. PgType'
    BY <1>8 DEF InsertRow, pgVars, PgType, ReqType
  <2>2. ReqType'
    BY <1>8 DEF InsertRow, reqVars, ReqType, Goto, At, Steps
  <2> QED
    BY <1>8, <2>1, <2>2, Frame DEF InsertRow
<1>9. ASSUME NEW r \in Requests, BindFence(r) PROVE TypeOK'
  <2>1. PgType'
    BY <1>9 DEF BindFence, pgVars, PgType, ReqType
  <2>2. ReqType'
    BY <1>9 DEF BindFence, reqVars, ReqType, Failed, Goto, At, Steps
  <2> QED
    BY <1>9, <2>1, <2>2, Frame DEF BindFence
<1>10. ASSUME NEW r \in Requests, CreateStream(r) PROVE TypeOK'
  <2>1. PgType'
    <3>1. Append(log, Ev("created", None, tok[r], at[r])) \in Seq(Event)
      BY AppendType DEF ReqType
    <3> QED
      BY <1>10, <3>1 DEF CreateStream, PgType
  <2>2. ReqType'
    BY <1>10 DEF CreateStream, reqVars, ReqType, Failed, Goto, At, Steps
  <2> QED
    BY <1>10, <2>1, <2>2, Frame DEF CreateStream
<1>11. ASSUME NEW r \in Requests, RecoverLoad(r) PROVE TypeOK'
  <2>1. ReqType'
    BY <1>11 DEF RecoverLoad, reqVars, ReqType, OpenRuns, Goto, At, Steps
  <2> QED
    BY <1>11, <2>1, Frame DEF RecoverLoad
<1>12. ASSUME NEW r \in Requests, RecoverAppend(r) PROVE TypeOK'
  <2>1. PgType'
    <3>1. \A q \in pend[r] : Append(log, Ev("interrupt", q, tok[r], at[r])) \in Seq(Event)
      BY AppendType DEF ReqType
    <3> QED
      BY <1>12, <3>1 DEF RecoverAppend, PgType
  <2>2. ReqType'
    <3>1. pend' \in [Requests -> SUBSET Requests]
      BY <1>12 DEF RecoverAppend, ReqType
    <3>2. pc' \in [Requests -> Steps]
      BY <1>12 DEF RecoverAppend, ReqType, Failed, Goto, Steps
    <3> QED
      BY <1>12, <3>1, <3>2 DEF RecoverAppend, ReqType
  <2> QED
    BY <1>12, <2>1, <2>2, Frame DEF RecoverAppend
<1>13. ASSUME NEW r \in Requests, UpdateMeta(r) PROVE TypeOK'
  <2>1. ReqType'
    BY <1>13 DEF UpdateMeta, reqVars, ReqType, Failed, Goto, At, Steps
  <2> QED
    BY <1>13, <2>1, Frame DEF UpdateMeta
<1>14. ASSUME NEW r \in Requests, Register(r) PROVE TypeOK'
  <2>1. CtlType'
    BY <1>14 DEF Register, CtlType, ReqType
  <2>2. ReqType'
    BY <1>14 DEF Register, reqVars, ReqType, Goto, At, Steps
  <2> QED
    BY <1>14, <2>1, <2>2, Frame DEF Register
<1>15. ASSUME NEW r \in Requests, Serve(r) PROVE TypeOK'
  <2>1. ReqType'
    BY <1>15 DEF Serve, reqVars, ReqType, Goto, At, Steps
  <2>2. RunType'
    <3>1. CASE UNCHANGED runVars
      BY <3>1, Frame
    <3>2. CASE ~ UNCHANGED runVars
      <4> DEFINE c == ctl[at[r]]
      <4>1. /\ Accepts(c)
            /\ busy' = [busy EXCEPT ![c] = TRUE]
            /\ srv' = [srv EXCEPT ![r] = c]
            /\ run' = [run EXCEPT ![r] = "accepted"]
        BY <1>15, <3>2 DEF Serve
      <4>2. c \in Requests
        BY <4>1 DEF Accepts, CtlType, ReqType
      <4> QED
        BY <4>1, <4>2 DEF RunType
    <3> QED
      BY <3>1, <3>2
  <2> QED
    BY <1>15, <2>1, <2>2, Frame DEF Serve
<1>16. ASSUME NEW r \in Requests, RunStart(r) PROVE TypeOK'
  <2>1. PgType'
    <3>1. srv[r] \in Requests
      BY <1>16 DEF RunStart, SubmitAccepted, RunType
    <3>2. Append(log, Ev("start", r, tok[srv[r]], at[srv[r]])) \in Seq(Event)
      BY <3>1, AppendType DEF ReqType
    <3> QED
      BY <1>16, <3>2 DEF RunStart, PgType
  <2>2. RunType'
    BY <1>16 DEF RunStart, runVars, RunType
  <2> QED
    BY <1>16, <2>1, <2>2, Frame DEF RunStart
<1>17. ASSUME NEW r \in Requests, RunEnd(r) PROVE TypeOK'
  <2>1. PgType'
    <3>1. srv[r] \in Requests
      BY <1>17 DEF RunEnd, SubmitAccepted, RunType
    <3>2. Append(log, Ev("end", r, tok[srv[r]], at[srv[r]])) \in Seq(Event)
      BY <3>1, AppendType DEF ReqType
    <3> QED
      BY <1>17, <3>2 DEF RunEnd, PgType
  <2>2. RunType'
    BY <1>17 DEF RunEnd, runVars, RunType
  <2> QED
    BY <1>17, <2>1, <2>2, Frame DEF RunEnd
<1>18. ASSUME NEW r \in Requests, DropLease(r) PROVE TypeOK'
  <2>1. LeaseType'
    BY <1>18 DEF DropLease, leaseVars, LeaseType, ReqType
  <2>2. CtlType'
    BY <1>18 DEF DropLease, CtlType, ReqType
  <2>3. ReqType'
    BY <1>18 DEF DropLease, reqVars, ReqType, LeaseType, Goto, At, Steps
  <2> QED
    BY <1>18, <2>1, <2>2, <2>3, Frame DEF DropLease
<1>19. ASSUME NEW r \in Requests, ReleaseLease(r) PROVE TypeOK'
  <2>1. RedisType'
    BY <1>19 DEF ReleaseLease, redisVars, RedisType, ReleaseKey
  <2>2. LeaseType'
    BY <1>19 DEF ReleaseLease, leaseVars, LeaseType, ReqType
  <2>3. ReqType'
    BY <1>19 DEF ReleaseLease, reqVars, ReqType, Goto, At, Steps
  <2> QED
    BY <1>19, <2>1, <2>2, <2>3, Frame DEF ReleaseLease
<1>20. ASSUME NEW i \in Instances, DrainMark(i) PROVE TypeOK'
  <2>1. ProcType'
    BY <1>20 DEF DrainMark, procVars, ProcType
  <2> QED
    BY <1>20, <2>1, Frame DEF DrainMark
<1>21. ASSUME NEW i \in Instances, DrainCopy(i) PROVE TypeOK'
  <2>1. ProcType'
    BY <1>21 DEF DrainCopy, procVars, ProcType, LeaseType
  <2> QED
    BY <1>21, <2>1, Frame DEF DrainCopy
<1>22. ASSUME NEW i \in Instances, DrainRelease(i) PROVE TypeOK'
  <2>1. RedisType'
    BY <1>22 DEF DrainRelease, redisVars, RedisType, ReleaseKey
  <2>2. ProcType'
    BY <1>22 DEF DrainRelease, procVars, ProcType
  <2>3. LeaseType'
    BY <1>22 DEF DrainRelease, leaseVars, LeaseType, ProcType
  <2>4. CtlType'
    BY <1>22 DEF DrainRelease, CtlType
  <2> QED
    BY <1>22, <2>1, <2>2, <2>3, <2>4, Frame DEF DrainRelease
<1>23. ASSUME NEW i \in Instances, DrainDelete(i) PROVE TypeOK'
  <2>1. ProcType'
    BY <1>23 DEF DrainDelete, procVars, ProcType
  <2>2. LeaseType'
    BY <1>23 DEF DrainDelete, leaseVars, LeaseType
  <2> QED
    BY <1>23, <2>1, <2>2, Frame DEF DrainDelete
<1>24. ASSUME NEW i \in Instances, Crash(i) PROVE TypeOK'
  <2>1. ProcType'
    BY <1>24 DEF Crash, procVars, ProcType
  <2>2. LeaseType'
    BY <1>24 DEF Crash, leaseVars, LeaseType
  <2>3. CtlType'
    BY <1>24 DEF Crash, CtlType
  <2>4. ReqType'
    BY <1>24 DEF Crash, reqVars, ReqType, Goto, At, Steps
  <2>5. RunType'
    BY <1>24 DEF Crash, runVars, RunType
  <2> QED
    BY <1>24, <2>1, <2>2, <2>3, <2>4, <2>5, Frame DEF Crash
<1>25. ASSUME NEW i \in Instances, Restart(i) PROVE TypeOK'
  <2>1. ProcType'
    BY <1>25 DEF Restart, procVars, ProcType
  <2> QED
    BY <1>25, <2>1, Frame DEF Restart
<1>26. ASSUME NEW i \in Instances, NEW t \in watch[i] \cup closing[i], RenewRefused(i, t)
      PROVE  TypeOK'
  <2>1. LeaseType'
    BY <1>26 DEF RenewRefused, leaseVars, LeaseType, Renewing
  <2> QED
    BY <1>26, <2>1, Frame DEF RenewRefused
<1>27. ASSUME NEW i \in Instances, NEW t \in watch[i] \cup closing[i], RenewFailed(i, t)
      PROVE  TypeOK'
  <2>1. LeaseType'
    BY <1>27 DEF RenewFailed, leaseVars, LeaseType, Renewing
  <2> QED
    BY <1>27, <2>1, Frame DEF RenewFailed
<1>28. ASSUME NEW i \in Instances, NEW t \in watch[i] \cup closing[i], WatcherReleases(i, t)
      PROVE  TypeOK'
  <2>1. LeaseType'
    BY <1>28 DEF WatcherReleases, leaseVars, LeaseType
  <2>2. CtlType'
    BY <1>28 DEF WatcherReleases, CtlType
  <2> QED
    BY <1>28, <2>1, <2>2, Frame DEF WatcherReleases
<1>29. ASSUME NEW i \in Instances, NEW t \in watch[i] \cup closing[i], WatcherDetaches(i, t)
      PROVE  TypeOK'
  <2>1. LeaseType'
    BY <1>29 DEF WatcherDetaches, leaseVars, LeaseType
  <2> QED
    BY <1>29, <2>1, Frame DEF WatcherDetaches
<1>30. CASE KeyExpires
  <2>1. RedisType'
    BY <1>30 DEF KeyExpires, RedisType
  <2> QED
    BY <1>30, <2>1, Frame DEF KeyExpires
<1>31. CASE UNCHANGED vars
    BY <1>31, Frame DEF vars, redisVars, pgVars, procVars, leaseVars, reqVars, runVars
<1> QED
    BY <1>1, <1>2, <1>3, <1>4, <1>5, <1>6, <1>7, <1>8, <1>9, <1>10, <1>11, <1>12, <1>13, <1>14, <1>15, <1>16, <1>17, <1>18, <1>19, <1>20, <1>21, <1>22, <1>23, <1>24, <1>25, <1>26, <1>27, <1>28, <1>29, <1>30, <1>31
    DEF Next, RequestStep, InstanceStep, LeaseStep

(* What the invariants see of a step that no request takes: nothing but a  *)
(* key that goes, or a controller that leaves the map.                     *)
Quiet ==
    /\ UNCHANGED <<counter, pgVars, reqVars, srv, run>>
    /\ key' = key \/ key' = None
    /\ \A i \in Instances : ctl'[i] = ctl[i] \/ ctl'[i] = None

LEMMA NextSteps ==
    ASSUME TypeOK, [Next]_vars
    PROVE  \/ \E r \in Requests : RequestStep(r)
           \/ \E i \in Instances : Crash(i)
           \/ Quiet
<1> USE TypeGroups DEF Quiet, redisVars, leaseVars, reqVars, runVars, pgVars
<1>1. ASSUME NEW i \in Instances, DrainMark(i) \/ DrainCopy(i) \/ DrainDelete(i) \/ Restart(i)
      PROVE  Quiet
    BY <1>1 DEF DrainMark, DrainCopy, DrainDelete, Restart
<1>2. ASSUME NEW i \in Instances, DrainRelease(i) PROVE Quiet
    BY <1>2 DEF DrainRelease, ReleaseKey, CtlType
<1>3. ASSUME NEW i \in Instances, NEW t, LeaseStep(i, t) PROVE Quiet
  <2>1. CASE WatcherReleases(i, t)
    BY <2>1 DEF WatcherReleases, CtlType
  <2> QED
    BY <1>3, <2>1 DEF LeaseStep, RenewRefused, RenewFailed, WatcherDetaches
<1>4. CASE KeyExpires
    BY <1>4 DEF KeyExpires
<1>5. CASE UNCHANGED vars
    BY <1>5 DEF vars
<1> QED
    BY <1>1, <1>2, <1>3, <1>4, <1>5 DEF Next, InstanceStep

(* A step of request r leaves the other requests where they are.           *)
Others(r) ==
    \A s \in Requests \ {r} :
        pc'[s] = pc[s] /\ path'[s] = path[s] /\ tok'[s] = tok[s]
        /\ at'[s] = at[s] /\ pend'[s] = pend[s]

(* Steps of a request that write nothing: it takes a token only from the   *)
(* key, and reaches a bound step only from a bound step.                   *)
Route(r) ==
    /\ UNCHANGED <<counter, row, fence, log, srv, run>>
    /\ key' = key \/ key' = None
    /\ \A i \in Instances : ctl'[i] = ctl[i] \/ ctl'[i] = None
    /\ Others(r)
    /\ pc'[r] \in RowSteps => row
    /\ pc[r] # "over" /\ pc'[r] # "recover"
    /\ pc'[r] \in BoundSteps => pc[r] \in BoundSteps /\ tok'[r] = tok[r]
    /\ path'[r] = "opened" <=> path[r] = "opened"
    /\ path[r] = "opened" => pc'[r] \in {"serve", "over"} /\ tok'[r] = tok[r] /\ at'[r] = at[r]
    /\ Acting(r)' => \/ Acting(r) /\ tok'[r] = tok[r] /\ at'[r] = at[r]
                     \/ key # None /\ key' = key /\ tok'[r] = key.tok /\ at'[r] = key.inst

LEMMA MoveLocal ==
    ASSUME TypeOK, NEW r \in Requests, NEW step \in Steps, Goto(r, step)
    PROVE  pc'[r] = step /\ \A s \in Requests \ {r} : pc'[s] = pc[s]
BY DEF TypeOK, Goto

LEMMA FailedLocal ==
    ASSUME TypeOK, NEW r \in Requests, Failed(r)
    PROVE  pc'[r] \in {"drop", "over"} /\ \A s \in Requests \ {r} : pc'[s] = pc[s]
BY DEF TypeOK, Failed, Goto

LEMMA RouteSteps ==
    ASSUME TypeOK, Opened, NEW r \in Requests,
           \/ Lookup(r) \/ LocalOwner(r) \/ (Acquire(r) /\ key # None) \/ Relookup(r)
           \/ InstallLease(r) \/ HandleCommand(r) \/ ResumeFor(r) \/ UpdateMeta(r)
           \/ DropLease(r) \/ ReleaseLease(r)
    PROVE  Route(r)
<1> USE TypeGroups DEF redisVars, pgVars, procVars, leaseVars, reqVars, runVars
<1>0. path[r] = "opened" => pc[r] \in {"serve", "over"} /\ row
    BY DEF Opened
<1>1. CASE Lookup(r)
  <2>1. /\ pc[r] = "idle" /\ at' = at /\ path' = path /\ pend' = pend
        /\ Others(r)
        /\ \/ pc'[r] \in {"acquire", "over", "forward"}
           \/ pc'[r] = "local" /\ key # None /\ key.inst = at[r] /\ tok'[r] = key.tok
    <3>1. pc[r] = "idle" /\ at' = at /\ path' = path /\ pend' = pend
      BY <1>1 DEF Lookup, At
    <3>2. \A s \in Requests \ {r} : pc'[s] = pc[s] /\ tok'[s] = tok[s]
      BY <1>1 DEF Lookup, Goto, ReqType
    <3>3. \/ pc'[r] \in {"acquire", "over", "forward"}
          \/ pc'[r] = "local" /\ key # None /\ key.inst = at[r] /\ tok'[r] = key.tok
      BY <1>1 DEF Lookup, Goto, ReqType
    <3> QED
      BY <3>1, <3>2, <3>3 DEF Others
  <2>2. UNCHANGED <<key, counter, row, fence, log, srv, run, ctl>>
    BY <1>1 DEF Lookup
  <2> QED
    BY <1>0, <2>1, <2>2 DEF Route, Acting, RowSteps, BoundSteps
<1>2. CASE LocalOwner(r)
  <2>1. UNCHANGED <<key, counter, row, fence, log, srv, run, ctl, at, tok, pend>> /\ pc[r] = "local"
    BY <1>2 DEF LocalOwner, At
  <2>2. pc'[r] \in {"over", "resume", "serve"} /\ \A s \in Requests \ {r} : pc'[s] = pc[s]
    BY <1>2 DEF LocalOwner, Goto, ReqType
  <2>3. path'[r] \in {path[r], "local"} /\ \A s \in Requests \ {r} : path'[s] = path[s]
    BY <1>2 DEF LocalOwner, ReqType
  <2> QED
    BY <1>0, <2>1, <2>2, <2>3 DEF Route, Others, Acting, RowSteps, BoundSteps
<1>3. CASE Acquire(r) /\ key # None
  <2>1. UNCHANGED <<key, counter, row, fence, log, srv, run, ctl, at, tok, path, pend>> /\ pc[r] = "acquire"
    BY <1>3 DEF Acquire, At
  <2>2. pc'[r] = "relookup" /\ \A s \in Requests \ {r} : pc'[s] = pc[s]
    BY <1>3, MoveLocal DEF Acquire, Steps
  <2> QED
    BY <1>0, <2>1, <2>2 DEF Route, Others, Acting, RowSteps, BoundSteps
<1>4. CASE Relookup(r)
  <2>1. UNCHANGED <<key, counter, row, fence, log, srv, run, ctl, at, pend>> /\ pc[r] = "relookup"
    BY <1>4 DEF Relookup, At
  <2>2. \A s \in Requests \ {r} : pc'[s] = pc[s] /\ path'[s] = path[s] /\ tok'[s] = tok[s]
    BY <1>4 DEF Relookup, Goto, ReqType
  <2>3. \/ pc'[r] \in {"over", "forward"}
        \/ pc'[r] = "serve" /\ key # None /\ key.inst = at[r] /\ tok'[r] = key.tok
    BY <1>4 DEF Relookup, Goto, ReqType
  <2>4. path'[r] \in {path[r], "local"}
    BY <1>4 DEF Relookup, ReqType
  <2> QED
    BY <1>0, <2>1, <2>2, <2>3, <2>4 DEF Route, Others, Acting, RowSteps, BoundSteps
<1>5. CASE InstallLease(r)
  <2>1. UNCHANGED <<key, counter, row, fence, log, srv, run, ctl, at, tok, pend>> /\ pc[r] = "install"
    BY <1>5 DEF InstallLease, At
  <2>2. \A s \in Requests \ {r} : pc'[s] = pc[s] /\ path'[s] = path[s]
    BY <1>5 DEF InstallLease, Goto, ReqType
  <2>3. pc'[r] \in {"resume", "serve"} /\ path'[r] \in {"local", "acquired"}
    BY <1>5 DEF InstallLease, Goto, ReqType
  <2> QED
    BY <1>0, <2>1, <2>2, <2>3 DEF Route, Others, Acting, RowSteps, BoundSteps
<1>6. CASE HandleCommand(r)
  <2>1. UNCHANGED <<key, counter, row, fence, log, srv, run, ctl, tok, pend>> /\ pc[r] = "forward"
    BY <1>6 DEF HandleCommand
  <2>2. \A s \in Requests \ {r} : pc'[s] = pc[s] /\ path'[s] = path[s] /\ at'[s] = at[s]
    BY <1>6 DEF HandleCommand, Goto, ReqType
  <2>3. \/ pc'[r] = "over" /\ path'[r] = path[r]
        \/ /\ pc'[r] \in {"resume", "serve"} /\ path'[r] = "command"
           /\ key # None /\ at'[r] = key.inst /\ tok[r] = key.tok
    BY <1>6 DEF HandleCommand, Goto, ReqType, KeyIs
  <2> QED
    BY <1>0, <2>1, <2>2, <2>3 DEF Route, Others, Acting, RowSteps, BoundSteps
<1>7. CASE ResumeFor(r)
  <2>1. UNCHANGED <<key, counter, row, fence, log, srv, run, ctl, at, tok, path, pend>> /\ pc[r] = "resume"
    BY <1>7 DEF ResumeFor, At
  <2>2. /\ pc'[r] \in {"serve", "drop", "over"} \/ (pc'[r] = "bind" /\ row)
        /\ \A s \in Requests \ {r} : pc'[s] = pc[s]
    BY <1>7, MoveLocal, FailedLocal DEF ResumeFor, Steps
  <2> QED
    BY <1>0, <2>1, <2>2 DEF Route, Others, Acting, RowSteps, BoundSteps
<1>8. CASE UpdateMeta(r)
  <2>1. UNCHANGED <<key, counter, row, fence, log, srv, run, ctl, at, tok, path, pend>> /\ pc[r] = "meta"
    BY <1>8 DEF UpdateMeta, At
  <2>2. pc'[r] \in {"register", "drop", "over"} /\ \A s \in Requests \ {r} : pc'[s] = pc[s]
    BY <1>8, MoveLocal, FailedLocal DEF UpdateMeta, Steps
  <2>3. row
    BY <2>1 DEF Opened, RowSteps
  <2> QED
    BY <1>0, <2>1, <2>2, <2>3 DEF Route, Others, Acting, RowSteps, BoundSteps
<1>9. CASE DropLease(r)
  <2>1. UNCHANGED <<key, counter, row, fence, log, srv, run, at, path, pend>> /\ pc[r] = "drop"
    BY <1>9 DEF DropLease, At
  <2>2. pc'[r] \in {"over", "release"}
    BY <1>9, MoveLocal DEF DropLease, Steps
  <2>3. \A s \in Requests \ {r} : pc'[s] = pc[s] /\ tok'[s] = tok[s]
    BY <1>9 DEF DropLease, Goto, ReqType
  <2>4. \A i \in Instances : ctl'[i] = ctl[i] \/ ctl'[i] = None
    BY <1>9 DEF DropLease, CtlType, ReqType
  <2> QED
    BY <1>0, <2>1, <2>2, <2>3, <2>4 DEF Route, Others, Acting, RowSteps, BoundSteps
<1>10. CASE ReleaseLease(r)
  <2>1. UNCHANGED <<counter, row, fence, log, srv, run, ctl, at, tok, path, pend>> /\ pc[r] = "release"
    BY <1>10 DEF ReleaseLease, At
  <2>2. pc'[r] = "over" /\ (\A s \in Requests \ {r} : pc'[s] = pc[s]) /\ (key' = key \/ key' = None)
    BY <1>10, MoveLocal DEF ReleaseLease, ReleaseKey, Steps
  <2> QED
    BY <1>0, <2>1, <2>2 DEF Route, Others, Acting, RowSteps, BoundSteps
<1> QED
    BY <1>1, <1>2, <1>3, <1>4, <1>5, <1>6, <1>7, <1>8, <1>9, <1>10

(* The remaining steps of a request, by what the invariants see of them.   *)
Take(r) ==
    /\ pc[r] = "acquire" /\ key = None
    /\ counter' = counter + 1 /\ key' = [inst |-> at[r], tok |-> counter + 1]
    /\ pc'[r] = "over" \/ (pc'[r] = "install" /\ tok'[r] = counter + 1)
    /\ Others(r) /\ UNCHANGED <<row, fence, log, ctl, srv, run, at, path, pend>>

Insert(r) ==
    /\ pc[r] = "insert" /\ pc'[r] = "bind"
    /\ row' = TRUE /\ fence' = IF row THEN fence ELSE tok[r]
    /\ Others(r) /\ UNCHANGED <<key, counter, log, ctl, srv, run, at, tok, path>>

Bind(r) ==
    /\ pc[r] = "bind" /\ pc'[r] = "stream"
    /\ fence <= tok[r] /\ fence' = tok[r]
    /\ Others(r) /\ UNCHANGED <<key, counter, row, log, ctl, srv, run, at, tok, path>>

Scan(r) ==
    /\ pc[r] = "load" /\ pc'[r] = "recover" /\ pend'[r] = OpenRuns
    /\ Others(r) /\ UNCHANGED <<key, counter, row, fence, log, ctl, srv, run, at, tok, path>>

Reg(r) ==
    /\ pc[r] = "register" /\ pc'[r] \in {"serve", "over"} /\ path'[r] = "opened"
    /\ \A i \in Instances : ctl'[i] = ctl[i] \/ ctl'[i] = r
    /\ Others(r) /\ UNCHANGED <<key, counter, row, fence, log, srv, run, at, tok>>

Accept(r) ==
    /\ pc[r] = "serve" /\ pc'[r] = "over"
    /\ srv'[r] \in Requests /\ path[srv'[r]] = "opened"
    /\ run'[r] = "accepted"
    /\ \A q \in Requests \ {r} : srv'[q] = srv[q] /\ run'[q] = run[q]
    /\ Others(r) /\ UNCHANGED <<key, counter, row, fence, log, ctl, at, tok, path>>

(* An event written by w under its token.                                  *)
Write(w, kind, q) ==
    /\ FenceOK(tok[w]) /\ log' = Append(log, Ev(kind, q, tok[w], at[w]))
    /\ UNCHANGED <<key, counter, row, fence, ctl, srv, at, tok, path>>

WriteCreated(r) ==
    /\ pc[r] = "stream" /\ pc'[r] = "load"
    /\ Write(r, "created", None) /\ Others(r) /\ UNCHANGED run

WriteInterrupt(r) ==
    /\ pc[r] = "recover" /\ UNCHANGED pc
    /\ \E q \in pend[r] : Write(r, "interrupt", q) /\ pend'[r] = pend[r] \ {q}
    /\ Others(r) /\ UNCHANGED run

WriteRun(q) ==
    /\ srv[q] \in Requests
    /\ \/ run[q] = "accepted" /\ run'[q] = "started" /\ Write(srv[q], "start", q)
       \/ run[q] = "started" /\ run'[q] = "over" /\ Write(srv[q], "end", q)
    /\ \A p \in Requests \ {q} : run'[p] = run[p]
    /\ UNCHANGED <<pc, pend>>

RunOver(q) ==
    /\ run[q] # "none" /\ run'[q] = "over" /\ \A p \in Requests \ {q} : run'[p] = run[p]
    /\ UNCHANGED <<key, counter, row, fence, log, ctl, pc, at, tok, path, pend, srv>>

Stops ==
    /\ \A r \in Requests : pc'[r] = pc[r] \/ pc'[r] = "over"
    /\ \A i \in Instances : ctl'[i] = ctl[i] \/ ctl'[i] = None
    /\ \A q \in Requests : run'[q] = run[q] \/ (run'[q] = "over" /\ srv[q] # None)
    /\ UNCHANGED <<key, counter, row, fence, log, at, tok, path, pend, srv>>

Effect(r) ==
    \/ Route(r) \/ Take(r) \/ Insert(r) \/ Bind(r) \/ Scan(r) \/ Reg(r) \/ Accept(r)
    \/ WriteCreated(r) \/ WriteInterrupt(r) \/ WriteRun(r) \/ RunOver(r)

LEMMA OpeningEffects ==
    ASSUME TypeOK, Opened, NEW r \in Requests,
           \/ (Acquire(r) /\ key = None) \/ InsertRow(r) \/ BindFence(r) \/ CreateStream(r)
           \/ RecoverLoad(r) \/ RecoverAppend(r) \/ Register(r)
    PROVE  Effect(r)
<1> USE TypeGroups DEF redisVars, pgVars, procVars, leaseVars, reqVars, runVars
<1>0. path[r] = "opened" => pc[r] \in {"serve", "over"} /\ row
    BY DEF Opened
<1>1. CASE Acquire(r) /\ key = None
  <2>1. /\ UNCHANGED <<row, fence, log, ctl, srv, run, at, path, pend>> /\ pc[r] = "acquire"
        /\ counter' = counter + 1 /\ key' = [inst |-> at[r], tok |-> counter + 1]
    BY <1>1 DEF Acquire, At
  <2>2. pc'[r] = "over" \/ (pc'[r] = "install" /\ tok'[r] = counter + 1)
    BY <1>1 DEF Acquire, Goto, ReqType
  <2>3. \A s \in Requests \ {r} : pc'[s] = pc[s] /\ tok'[s] = tok[s]
    BY <1>1 DEF Acquire, Goto, ReqType
  <2> QED
    BY <1>1, <2>1, <2>2, <2>3 DEF Effect, Take, Others
<1>2. CASE InsertRow(r)
  <2>1. UNCHANGED <<key, counter, log, ctl, srv, run, at, tok, path>> /\ pc[r] = "insert"
    BY <1>2 DEF InsertRow, At
  <2>2. /\ row' = TRUE /\ fence' = (IF row THEN fence ELSE tok[r]) /\ pc'[r] = "bind"
        /\ \A s \in Requests \ {r} : pc'[s] = pc[s] /\ pend'[s] = pend[s]
    BY <1>2, MoveLocal DEF InsertRow, Steps, ReqType
  <2> QED
    BY <2>1, <2>2 DEF Effect, Insert, Others
<1>3. CASE BindFence(r)
  <2>1. UNCHANGED <<key, counter, row, log, ctl, srv, run, at, tok, path, pend>> /\ pc[r] = "bind"
    BY <1>3 DEF BindFence, At
  <2>2. CASE fence > tok[r] /\ Failed(r) /\ UNCHANGED fence
    <3>1. pc'[r] \in {"drop", "over"} /\ \A s \in Requests \ {r} : pc'[s] = pc[s]
      BY <2>2, FailedLocal
    <3> QED
      BY <1>0, <2>1, <2>2, <3>1 DEF Effect, Route, Others, Acting, RowSteps, BoundSteps
  <2>3. CASE fence <= tok[r] /\ fence' = tok[r] /\ Goto(r, "stream")
    BY <2>1, <2>3, MoveLocal DEF Effect, Bind, Others, Steps
  <2> QED
    BY <1>3, <2>2, <2>3 DEF BindFence
<1>4. CASE CreateStream(r)
  <2>1. UNCHANGED <<key, counter, row, fence, ctl, srv, run, at, tok, path>> /\ pc[r] = "stream" /\ row
    BY <1>4 DEF CreateStream, At, Opened, RowSteps
  <2>2. \A s \in Requests \ {r} : pend'[s] = pend[s]
    BY <1>4 DEF CreateStream, ReqType
  <2>3. CASE Failed(r) /\ UNCHANGED log
    <3>1. pc'[r] \in {"drop", "over"} /\ \A s \in Requests \ {r} : pc'[s] = pc[s]
      BY <2>3, FailedLocal
    <3> QED
      BY <1>0, <2>1, <2>2, <2>3, <3>1 DEF Effect, Route, Others, Acting, RowSteps, BoundSteps
  <2>4. CASE Goto(r, "load") /\ log' = log
    <3>1. pc'[r] = "load" /\ \A s \in Requests \ {r} : pc'[s] = pc[s]
      BY <2>4, MoveLocal DEF Steps
    <3> QED
      BY <1>0, <2>1, <2>2, <2>4, <3>1 DEF Effect, Route, Others, Acting, RowSteps, BoundSteps
  <2>5. CASE FenceOK(tok[r]) /\ Goto(r, "load") /\ log' = Append(log, Ev("created", None, tok[r], at[r]))
    <3>1. pc'[r] = "load" /\ \A s \in Requests \ {r} : pc'[s] = pc[s]
      BY <2>5, MoveLocal DEF Steps
    <3> QED
      BY <2>1, <2>2, <2>5, <3>1 DEF Effect, WriteCreated, Write, Others
  <2> QED
    BY <1>4, <2>3, <2>4, <2>5 DEF CreateStream
<1>5. CASE RecoverLoad(r)
  <2>1. UNCHANGED <<key, counter, row, fence, log, ctl, srv, run, at, tok, path>> /\ pc[r] = "load"
    BY <1>5 DEF RecoverLoad, At
  <2>2. /\ pc'[r] = "recover" /\ pend'[r] = OpenRuns
        /\ \A s \in Requests \ {r} : pc'[s] = pc[s] /\ pend'[s] = pend[s]
    BY <1>5, MoveLocal DEF RecoverLoad, Steps, ReqType
  <2> QED
    BY <2>1, <2>2 DEF Effect, Scan, Others
<1>6. CASE RecoverAppend(r)
  <2>1. UNCHANGED <<key, counter, row, fence, ctl, srv, run, at, tok, path>> /\ pc[r] = "recover" /\ row
    BY <1>6 DEF RecoverAppend, At, Opened, RowSteps
  <2>2. CASE (Goto(r, "meta") \/ Failed(r)) /\ UNCHANGED <<log, pend>>
    <3>1. pc'[r] \in {"meta", "drop", "over"} /\ \A s \in Requests \ {r} : pc'[s] = pc[s]
      BY <2>2, MoveLocal, FailedLocal DEF Steps
    <3> QED
      BY <1>0, <2>1, <2>2, <3>1 DEF Effect, Route, Others, Acting, RowSteps, BoundSteps
  <2>3. ASSUME FenceOK(tok[r]), UNCHANGED pc, NEW q \in pend[r],
               log' = Append(log, Ev("interrupt", q, tok[r], at[r])),
               pend' = [pend EXCEPT ![r] = @ \ {q}]
        PROVE  Effect(r)
    <3>1. pend'[r] = pend[r] \ {q} /\ \A s \in Requests \ {r} : pend'[s] = pend[s]
      BY <2>3 DEF ReqType
    <3> QED
      BY <2>1, <2>3, <3>1 DEF Effect, WriteInterrupt, Write, Others
  <2> QED
    BY <1>6, <2>2, <2>3 DEF RecoverAppend
<1>7. CASE Register(r)
  <2>1. UNCHANGED <<key, counter, row, fence, log, srv, run, at, tok, pend>> /\ pc[r] = "register"
    BY <1>7 DEF Register, At
  <2>2. /\ pc'[r] \in {"serve", "over"} /\ path'[r] = "opened"
        /\ \A s \in Requests \ {r} : pc'[s] = pc[s] /\ path'[s] = path[s]
        /\ \A i \in Instances : ctl'[i] = ctl[i] \/ ctl'[i] = r
    BY <1>7 DEF Register, Goto, ReqType, CtlType
  <2> QED
    BY <2>1, <2>2 DEF Effect, Reg, Others
<1> QED
    BY <1>1, <1>2, <1>3, <1>4, <1>5, <1>6, <1>7

LEMMA HandlerEffects ==
    ASSUME TypeOK, Opened, SubmitAccepted, NEW r \in Requests,
           Serve(r) \/ RunStart(r) \/ RunEnd(r)
    PROVE  Effect(r)
<1> USE TypeGroups DEF redisVars, pgVars, procVars, leaseVars, reqVars, runVars
<1>0. path[r] = "opened" => pc[r] \in {"serve", "over"} /\ row
    BY DEF Opened
<1>1. CASE Serve(r)
  <2> DEFINE c == ctl[at[r]]
  <2>1. UNCHANGED <<key, counter, row, fence, log, ctl, at, tok, pend>> /\ pc[r] = "serve"
    BY <1>1 DEF Serve, At
  <2>2. CASE Goto(r, "over") /\ UNCHANGED <<path, runVars>>
    <3>1. pc'[r] = "over" /\ \A s \in Requests \ {r} : pc'[s] = pc[s]
      BY <2>2, MoveLocal DEF Steps
    <3> QED
      BY <1>0, <2>1, <2>2, <3>1 DEF Effect, Route, Others, Acting, RowSteps, BoundSteps
  <2>3. CASE /\ path[r] # "opened" /\ Goto(r, "insert") /\ UNCHANGED runVars
             /\ path' = [path EXCEPT ![r] = IF @ = "command" THEN @ ELSE "create"]
    <3>1. pc'[r] = "insert" /\ \A s \in Requests \ {r} : pc'[s] = pc[s]
      BY <2>3, MoveLocal DEF Steps
    <3>2. path'[r] # "opened" /\ \A s \in Requests \ {r} : path'[s] = path[s]
      BY <2>3 DEF ReqType
    <3> QED
      BY <2>1, <2>3, <3>1, <3>2 DEF Effect, Route, Others, Acting, RowSteps, BoundSteps
  <2>4. CASE /\ Accepts(c) /\ Goto(r, "over") /\ UNCHANGED path
             /\ srv' = [srv EXCEPT ![r] = c] /\ run' = [run EXCEPT ![r] = "accepted"]
    <3>1. pc'[r] = "over" /\ \A s \in Requests \ {r} : pc'[s] = pc[s]
      BY <2>4, MoveLocal DEF Steps
    <3>2. c \in Requests /\ path[c] = "opened"
      BY <2>4 DEF Accepts, Opened, CtlType, ReqType
    <3>3. /\ srv'[r] = c /\ run'[r] = "accepted"
          /\ \A q \in Requests \ {r} : srv'[q] = srv[q] /\ run'[q] = run[q]
      BY <2>4 DEF RunType
    <3> QED
      BY <2>1, <2>4, <3>1, <3>2, <3>3 DEF Effect, Accept, Others
  <2> QED
    BY <1>1, <2>2, <2>3, <2>4 DEF Serve
<1>2. CASE RunStart(r) \/ RunEnd(r)
  <2>1. /\ UNCHANGED <<key, counter, row, fence, ctl, pc, at, tok, path, pend, srv>>
        /\ run[r] \in {"accepted", "started"}
    BY <1>2 DEF RunStart, RunEnd
  <2>2. srv[r] \in Requests
    BY <2>1 DEF SubmitAccepted, RunType
  <2>3. \A p \in Requests \ {r} : run'[p] = run[p]
    BY <1>2 DEF RunStart, RunEnd, RunType
  <2>4. \/ run'[r] = "over" /\ UNCHANGED log
        \/ /\ run[r] = "accepted" /\ run'[r] = "started" /\ FenceOK(tok[srv[r]])
           /\ log' = Append(log, Ev("start", r, tok[srv[r]], at[srv[r]]))
        \/ /\ run[r] = "started" /\ run'[r] = "over" /\ FenceOK(tok[srv[r]])
           /\ log' = Append(log, Ev("end", r, tok[srv[r]], at[srv[r]]))
    BY <1>2 DEF RunStart, RunEnd, RunType
  <2> QED
    BY <2>1, <2>2, <2>3, <2>4 DEF Effect, WriteRun, Write, RunOver
<1> QED
    BY <1>1, <1>2

(* Every step of the specification has one of the effects.                 *)
LEMMA Effects ==
    ASSUME TypeOK, Opened, SubmitAccepted, [Next]_vars
    PROVE  (\E r \in Requests : Effect(r)) \/ Stops \/ Quiet
<1>1. ASSUME NEW r \in Requests, RequestStep(r) PROVE Effect(r)
  <2>1. Route(r) => Effect(r)
    BY DEF Effect
  <2> QED
    BY <1>1, <2>1, RouteSteps, OpeningEffects, HandlerEffects DEF RequestStep
<1>2. ASSUME NEW i \in Instances, Crash(i) PROVE Stops
    BY <1>2, TypeGroups
    DEF Crash, Stops, redisVars, pgVars, CtlType, ReqType, RunType
<1> QED
    BY <1>1, <1>2, NextSteps

LEMMA OpenedStep ==
    ASSUME TypeOK, Opened, SubmitAccepted, [Next]_vars
    PROVE  Opened'
<1> USE TypeGroups DEF Opened
<1>1. ASSUME NEW r \in Requests, Effect(r) PROVE Opened'
  <2> USE DEF RowSteps
  <2>1. CASE Route(r)
    BY <2>1 DEF Route, Others, CtlType, RunType
  <2>2. CASE Take(r)
    BY <2>2 DEF Take, Others, CtlType, RunType
  <2>3. CASE Insert(r)
    BY <2>3 DEF Insert, Others, CtlType, RunType
  <2>4. CASE Bind(r) \/ Scan(r)
    BY <2>4 DEF Bind, Scan, Others, CtlType, RunType
  <2>5. CASE Reg(r)
    BY <2>5 DEF Reg, Others, CtlType, RunType
  <2>6. CASE Accept(r)
    BY <2>6 DEF Accept, Others, CtlType, RunType
  <2>7. CASE WriteCreated(r) \/ WriteInterrupt(r)
    BY <2>7 DEF WriteCreated, WriteInterrupt, Write, Others, CtlType, RunType
  <2>8. CASE WriteRun(r) \/ RunOver(r)
    BY <2>8 DEF WriteRun, Write, RunOver, CtlType, RunType
  <2> HIDE DEF Opened
  <2> QED
    BY <1>1, <2>1, <2>2, <2>3, <2>4, <2>5, <2>6, <2>7, <2>8 DEF Effect
<1>2. CASE Stops
    BY <1>2 DEF Stops, RowSteps, CtlType, RunType
<1>3. CASE Quiet
    BY <1>3 DEF Quiet, pgVars, reqVars, CtlType, RunType
<1> HIDE DEF Opened
<1> QED
    BY <1>1, <1>2, <1>3, Effects DEF Opened

LEMMA SubmitAcceptedStep ==
    ASSUME TypeOK, Opened, SubmitAccepted, [Next]_vars
    PROVE  SubmitAccepted'
<1> USE TypeGroups DEF SubmitAccepted
<1>1. ASSUME NEW r \in Requests, Effect(r) PROVE SubmitAccepted'
  <2>1. CASE Route(r)
    BY <2>1 DEF Route, Others
  <2>2. CASE Take(r) \/ Insert(r) \/ Bind(r) \/ Scan(r) \/ Reg(r)
    BY <2>2 DEF Take, Insert, Bind, Scan, Reg, Others
  <2>3. CASE Accept(r)
    BY <2>3 DEF Accept, Others
  <2>4. CASE WriteCreated(r) \/ WriteInterrupt(r)
    BY <2>4 DEF WriteCreated, WriteInterrupt, Write, Others
  <2>5. CASE WriteRun(r) \/ RunOver(r)
    BY <2>5 DEF WriteRun, Write, RunOver
  <2> QED
    BY <1>1, <2>1, <2>2, <2>3, <2>4, <2>5 DEF Effect
<1>2. CASE Stops
    BY <1>2 DEF Stops
<1>3. CASE Quiet
    BY <1>3 DEF Quiet, pgVars, reqVars
<1> QED
    BY <1>1, <1>2, <1>3, Effects

(* What an append does to the journal, position by position.               *)
LEMMA LogAppend ==
    ASSUME TypeOK, NEW e, log' = Append(log, e)
    PROVE  /\ DOMAIN log' = DOMAIN log \cup {Len(log) + 1}
           /\ log'[Len(log) + 1] = e
           /\ \A n \in DOMAIN log : log'[n] = log[n] /\ n < Len(log) + 1 /\ n \in Nat
           /\ Len(log) \in Nat
           /\ \A n \in DOMAIN log : log[n] \in Event
BY DEF TypeOK

(* A writer acts under the token of the row.                               *)
LEMMA WriterActs ==
    ASSUME TypeOK, Opened, NEW r \in Requests,
           WriteCreated(r) \/ WriteInterrupt(r) \/ WriteRun(r)
    PROVE  \E w \in Requests : \E kind \in {"created", "start", "end", "interrupt"} :
             \E q \in Requests \cup {None} :
               /\ Acting(w) /\ Write(w, kind, q)
               /\ \A s \in Requests : Acting(s)' <=> Acting(s)
<1> USE TypeGroups
<1>1. CASE WriteCreated(r)
  <2>1. Acting(r) /\ \A s \in Requests : Acting(s)' <=> Acting(s)
    BY <1>1 DEF WriteCreated, Write, Others, Acting, RowSteps
  <2> QED
    BY <1>1, <2>1 DEF WriteCreated
<1>2. CASE WriteInterrupt(r)
  <2>1. Acting(r) /\ \A s \in Requests : Acting(s)' <=> Acting(s)
    BY <1>2 DEF WriteInterrupt, Write, Acting, RowSteps
  <2>2. pend[r] \subseteq Requests
    BY DEF ReqType
  <2> QED
    BY <1>2, <2>1, <2>2 DEF WriteInterrupt
<1>3. CASE WriteRun(r)
  <2>1. Acting(srv[r]) /\ \A s \in Requests : Acting(s)' <=> Acting(s)
    BY <1>3 DEF WriteRun, Write, Acting, Opened
  <2> QED
    BY <1>3, <2>1 DEF WriteRun
<1> QED
    BY <1>1, <1>2, <1>3

LEMMA OneHolderStep ==
    ASSUME TypeOK, Opened, SubmitAccepted, OneHolder, [Next]_vars
    PROVE  OneHolder'
<1> USE TypeGroups
<1>0. /\ counter \in Nat /\ fence \in Nat /\ (key # None => key.tok \in Nat)
      /\ \A r \in Requests : tok[r] \in Nat
      /\ \A n \in DOMAIN log : log[n].tok \in Nat
  <2>1. \A n \in DOMAIN log : log[n] \in Event
    BY DEF PgType
  <2> QED
    BY <2>1 DEF RedisType, PgType, ReqType, Event
<1>1. ASSUME NEW r \in Requests, Effect(r) PROVE OneHolder'
  <2>1. CASE Route(r)
    <3>1. \A s \in Requests \ {r} : Acting(s)' <=> Acting(s)
      BY <2>1 DEF Route, Others, Acting
    <3>2. /\ UNCHANGED <<counter, fence, log>> /\ (key' = key \/ key' = None)
          /\ \A s \in Requests \ {r} : tok'[s] = tok[s] /\ at'[s] = at[s]
      BY <2>1 DEF Route, Others
    <3>3. CASE Acting(r)' => Acting(r) /\ tok'[r] = tok[r] /\ at'[r] = at[r]
      <4>1. \A s \in Requests : Acting(s)' => Acting(s) /\ tok'[s] = tok[s] /\ at'[s] = at[s]
        BY <3>1, <3>2, <3>3
      <4> QED
        BY <3>2, <4>1 DEF OneHolder, KeyIs
    <3>4. CASE key # None /\ key' = key /\ tok'[r] = key.tok /\ at'[r] = key.inst
      <4>1. \A s \in Requests : Acting(s)' =>
              \/ Acting(s) /\ tok'[s] = tok[s] /\ at'[s] = at[s]
              \/ tok'[s] = key.tok /\ at'[s] = key.inst
        BY <3>1, <3>2, <3>4
      <4> QED
        BY <3>2, <3>4, <4>1 DEF OneHolder, KeyIs
    <3> QED
      BY <2>1, <3>3, <3>4 DEF Route
  <2>2. CASE Take(r)
    <3>1. \A s \in Requests \ {r} : Acting(s)' <=> Acting(s)
      BY <2>2 DEF Take, Others, Acting
    <3>2. Acting(r)' => tok'[r] = counter + 1
      BY <2>2 DEF Take, Acting, RowSteps, Opened
    <3>3. key' # None /\ key'.tok = counter + 1 /\ key'.inst = at[r]
      <4>1. key' \in [inst : Instances, tok : Nat]
        BY <1>0, <2>2 DEF Take, ReqType
      <4>2. key' # None
        BY <4>1, <2>2, <1>0 DEF Take
      <4> QED
        BY <2>2, <4>2 DEF Take
    <3> QED
      BY <1>0, <2>2, <3>1, <3>2, <3>3 DEF Take, Others, OneHolder, KeyIs
  <2>3. CASE Insert(r) \/ Bind(r) \/ Scan(r) \/ Reg(r)
    <3>1. /\ \A s \in Requests : Acting(s)' => Acting(s)
          /\ UNCHANGED <<key, counter, log, at, tok>>
      BY <2>3 DEF Insert, Bind, Scan, Reg, Others, Acting, RowSteps
    <3>2. fence' = fence \/ (fence' = tok[r] /\ Acting(r))
      BY <2>3 DEF Insert, Bind, Scan, Reg, Acting, RowSteps
    <3> QED
      BY <1>0, <3>1, <3>2 DEF OneHolder, KeyIs
  <2>4. CASE Accept(r) \/ RunOver(r)
    <3>1. /\ \A s \in Requests : Acting(s)' => Acting(s)
          /\ UNCHANGED <<key, counter, fence, log, at, tok>>
      BY <2>4 DEF Accept, RunOver, Others, Acting, RowSteps
    <3> QED
      BY <3>1 DEF OneHolder, KeyIs
  <2>5. CASE WriteCreated(r) \/ WriteInterrupt(r) \/ WriteRun(r)
    <3>1. PICK w \in Requests, kind \in {"created", "start", "end", "interrupt"},
               q \in Requests \cup {None} :
            /\ Acting(w) /\ Write(w, kind, q)
            /\ \A s \in Requests : Acting(s)' <=> Acting(s)
      BY <2>5, WriterActs
    <3> DEFINE e == Ev(kind, q, tok[w], at[w])
    <3>2. /\ DOMAIN log' = DOMAIN log \cup {Len(log) + 1}
          /\ log'[Len(log) + 1] = e
          /\ \A n \in DOMAIN log : log'[n] = log[n]
      BY <3>1, LogAppend DEF Write
    <3>3. e.tok = tok[w] /\ e.by = at[w]
      BY DEF Ev
    <3>4. UNCHANGED <<key, counter, fence, at, tok>>
      BY <3>1 DEF Write
    <3> HIDE DEF e
    <3>5. \A n \in DOMAIN log' : log'[n].tok <= counter'
      BY <3>1, <3>2, <3>3, <3>4 DEF OneHolder
    <3>6. \A n \in DOMAIN log' : key' # None /\ key'.tok = log'[n].tok => key'.inst = log'[n].by
      BY <3>1, <3>2, <3>3, <3>4 DEF OneHolder, KeyIs
    <3>7. \A s \in Requests : \A n \in DOMAIN log' :
            Acting(s)' /\ log'[n].tok = tok'[s] => log'[n].by = at'[s]
      BY <3>1, <3>2, <3>3, <3>4 DEF OneHolder
    <3> QED
      BY <3>1, <3>4, <3>5, <3>6, <3>7 DEF OneHolder, KeyIs
  <2> QED
    BY <1>1, <2>1, <2>2, <2>3, <2>4, <2>5 DEF Effect
<1>2. CASE Stops
  <2>1. \A s \in Requests : Acting(s)' => Acting(s)
    BY <1>2 DEF Stops, Acting, RowSteps
  <2> QED
    BY <1>2, <2>1 DEF Stops, OneHolder, KeyIs
<1>3. CASE Quiet
  <2>1. \A s \in Requests : Acting(s)' <=> Acting(s)
    BY <1>3 DEF Quiet, reqVars, Acting
  <2> QED
    BY <1>3, <2>1 DEF Quiet, pgVars, reqVars, OneHolder, KeyIs
<1> QED
    BY <1>1, <1>2, <1>3, Effects

(* What a write other than session.created is about.                       *)
Cause(w, kind, q) ==
    /\ kind = "interrupt" => pc[w] = "recover" /\ q \in pend[w]
    /\ kind = "start" => q \in Requests /\ srv[q] = w /\ run[q] = "accepted" /\ run'[q] = "started"
    /\ kind = "end" => q \in Requests /\ srv[q] = w /\ run[q] = "started" /\ run'[q] = "over"

(* A step that does not rescan: recoveries only shrink, bound steps are    *)
(* reached from bound steps, controllers and runs do not go back.          *)
Onward ==
    /\ \A s \in Requests :
        /\ pc'[s] = "recover" => pc[s] = "recover" /\ pend'[s] \subseteq pend[s]
        /\ pc'[s] \in BoundSteps => pc[s] \in BoundSteps /\ tok'[s] = tok[s]

Keeps ==
    /\ \A s \in Requests : path[s] = "opened" => path'[s] = "opened" /\ tok'[s] = tok[s]
    /\ \A q \in Requests :
        /\ srv[q] # None => srv'[q] = srv[q]
        /\ run[q] \in {"started", "over"} => run'[q] \in {"started", "over"}

LEMMA WriteCause ==
    ASSUME TypeOK, Opened, NEW r \in Requests,
           WriteCreated(r) \/ WriteInterrupt(r) \/ WriteRun(r)
    PROVE  /\ Onward /\ Keeps
           /\ \E w \in Requests : \E kind \in {"created", "start", "end", "interrupt"} :
                \E q \in Requests \cup {None} :
                  Acting(w) /\ Write(w, kind, q) /\ Cause(w, kind, q)
<1> USE TypeGroups
<1>1. CASE WriteCreated(r)
  <2>1. Acting(r) /\ Onward /\ Keeps
    BY <1>1 DEF WriteCreated, Write, Others, Acting, RowSteps, BoundSteps, Onward, Keeps
  <2> QED
    BY <1>1, <2>1 DEF WriteCreated, Cause
<1>2. CASE WriteInterrupt(r)
  <2>1. Acting(r) /\ Onward /\ Keeps
    BY <1>2 DEF WriteInterrupt, Write, Others, Acting, RowSteps, BoundSteps, Onward, Keeps
  <2>2. pend[r] \subseteq Requests
    BY DEF ReqType
  <2> QED
    BY <1>2, <2>1, <2>2 DEF WriteInterrupt, Cause
<1>3. CASE WriteRun(r)
  <2>1. Acting(srv[r]) /\ Onward /\ Keeps
    BY <1>3 DEF WriteRun, Write, Acting, Opened, BoundSteps, Onward, Keeps
  <2> QED
    BY <1>3, <2>1 DEF WriteRun, Cause
<1> QED
    BY <1>1, <1>2, <1>3

(* Every other step leaves the journal.  The row's token rises, or there   *)
(* was no row and the journal is empty.                                    *)
LEMMA SilentSteps ==
    ASSUME TypeOK, Opened, SubmitAccepted, [Next]_vars
    PROVE  \/ \E r \in Requests : WriteCreated(r) \/ WriteInterrupt(r) \/ WriteRun(r)
           \/ UNCHANGED log /\ Keeps
<1> USE TypeGroups
<1>1. ASSUME NEW r \in Requests, Effect(r), ~(WriteCreated(r) \/ WriteInterrupt(r) \/ WriteRun(r))
      PROVE  UNCHANGED log /\ Keeps
  <2>1. CASE Route(r)
    BY <2>1 DEF Route, Others, Keeps
  <2>2. CASE Take(r)
    BY <2>2 DEF Take, Others, Keeps, Opened
  <2>3. CASE Insert(r) \/ Bind(r) \/ Scan(r)
    BY <2>3 DEF Insert, Bind, Scan, Keeps
  <2>4. CASE Reg(r)
    BY <2>4 DEF Reg, Others, Keeps
  <2>5. CASE Accept(r)
    BY <2>5 DEF Accept, Keeps, SubmitAccepted
  <2>6. CASE RunOver(r)
    BY <2>6 DEF RunOver, Keeps
  <2> QED
    BY <1>1, <2>1, <2>2, <2>3, <2>4, <2>5, <2>6 DEF Effect
<1>2. CASE Stops
    BY <1>2 DEF Stops, Keeps
<1>3. CASE Quiet
    BY <1>3 DEF Quiet, pgVars, reqVars, Keeps
<1> QED
    BY <1>1, <1>2, <1>3, Effects

LEMMA FenceBoundsStep ==
    ASSUME TypeOK, Opened, SubmitAccepted, FenceBounds, [Next]_vars
    PROVE  FenceBounds'
<1> USE TypeGroups
<1>0. /\ fence \in Nat /\ \A r \in Requests : tok[r] \in Nat
      /\ \A n \in DOMAIN log : log[n].tok \in Nat
  <2>1. \A n \in DOMAIN log : log[n] \in Event
    BY DEF PgType
  <2> QED
    BY <2>1 DEF PgType, ReqType, Event
<1>1. ASSUME NEW r \in Requests, Effect(r) PROVE FenceBounds'
  <2>1. CASE Route(r)
    BY <2>1 DEF Route, Others, FenceBounds
  <2>2. CASE Take(r)
    BY <2>2 DEF Take, Others, FenceBounds, BoundSteps, Opened
  <2>3. CASE Insert(r)
    <3>1. CASE row
      BY <2>3, <3>1 DEF Insert, Others, FenceBounds, BoundSteps
    <3>2. CASE ~row
      <4>1. log' = <<>>
        BY <2>3, <3>2 DEF Insert, Opened
      <4>2. \A s \in Requests : ~(pc'[s] \in BoundSteps) /\ ~(path'[s] = "opened")
        BY <2>3, <3>2 DEF Insert, Others, Opened, RowSteps, BoundSteps
      <4> QED
        BY <4>1, <4>2 DEF FenceBounds
    <3> QED
      BY <3>1, <3>2
  <2>4. CASE Bind(r)
    BY <1>0, <2>4 DEF Bind, Others, FenceBounds, BoundSteps
  <2>5. CASE Scan(r) \/ Reg(r) \/ Accept(r)
    BY <2>5 DEF Scan, Reg, Accept, Others, FenceBounds, BoundSteps
  <2>6. CASE RunOver(r)
    BY <2>6 DEF RunOver, FenceBounds
  <2>7. CASE WriteCreated(r) \/ WriteInterrupt(r) \/ WriteRun(r)
    <3>1. PICK w \in Requests, kind \in {"created", "start", "end", "interrupt"},
               q \in Requests \cup {None} : Write(w, kind, q)
      BY <2>7, WriteCause
    <3> DEFINE e == Ev(kind, q, tok[w], at[w])
    <3>2. /\ DOMAIN log' = DOMAIN log \cup {Len(log) + 1}
          /\ log'[Len(log) + 1] = e
          /\ \A n \in DOMAIN log : log'[n] = log[n]
      BY <3>1, LogAppend DEF Write
    <3>3. e.tok = fence /\ UNCHANGED <<fence, tok, path>>
      BY <3>1 DEF Ev, Write, FenceOK
    <3> HIDE DEF e
    <3>4. \A n \in DOMAIN log' : log'[n].tok <= fence'
      BY <1>0, <3>2, <3>3 DEF FenceBounds
    <3>5. \A s \in Requests : pc'[s] \in BoundSteps => pc[s] \in BoundSteps
      BY <2>7, WriteCause DEF Onward
    <3> QED
      BY <3>3, <3>4, <3>5 DEF FenceBounds
  <2> QED
    BY <1>1, <2>1, <2>2, <2>3, <2>4, <2>5, <2>6, <2>7 DEF Effect
<1>2. CASE Stops
    BY <1>2 DEF Stops, FenceBounds, BoundSteps
<1>3. CASE Quiet
    BY <1>3 DEF Quiet, pgVars, reqVars, FenceBounds
<1> QED
    BY <1>1, <1>2, <1>3, Effects

(* The facts about an append that the journal invariants use.              *)
Appended(l, w, kind, q) ==
    /\ DOMAIN log' = DOMAIN log \cup {l} /\ l \in Nat
    /\ \A n \in DOMAIN log : log'[n] = log[n] /\ n < l /\ n \in Nat
    /\ log'[l].tok = fence /\ tok[w] = fence /\ fence' = fence
    /\ log'[l].by = at[w] /\ log'[l].kind = kind /\ log'[l].run = q
    /\ UNCHANGED <<tok, srv, path>>
    /\ \A n \in DOMAIN log : log[n].tok \in Nat
    /\ fence \in Nat /\ \A s \in Requests : tok[s] \in Nat

LEMMA AppendFacts ==
    ASSUME TypeOK, NEW w \in Requests, NEW kind \in {"created", "start", "end", "interrupt"},
           NEW q \in Requests \cup {None}, Write(w, kind, q)
    PROVE  \E l : Appended(l, w, kind, q)
<1>1. log' = Append(log, Ev(kind, q, tok[w], at[w])) /\ tok[w] = fence
      /\ UNCHANGED <<fence, tok, srv, path>>
    BY DEF Write, FenceOK
<1>2. /\ DOMAIN log' = DOMAIN log \cup {Len(log) + 1}
      /\ log'[Len(log) + 1] = Ev(kind, q, tok[w], at[w])
      /\ \A n \in DOMAIN log : log'[n] = log[n] /\ n < Len(log) + 1 /\ n \in Nat
      /\ Len(log) \in Nat
      /\ \A n \in DOMAIN log : log[n] \in Event
    BY <1>1, LogAppend
<1>3. fence \in Nat /\ \A s \in Requests : tok[s] \in Nat
    BY DEF TypeOK
<1>4. /\ log'[Len(log) + 1].tok = tok[w] /\ log'[Len(log) + 1].by = at[w]
      /\ log'[Len(log) + 1].kind = kind /\ log'[Len(log) + 1].run = q
    BY <1>2 DEF Ev
<1>5. \A n \in DOMAIN log : log[n].tok \in Nat
    BY <1>2 DEF Event
<1>6. Len(log) + 1 \in Nat
    BY <1>2
<1> QED
    BY <1>1, <1>2, <1>3, <1>4, <1>5, <1>6 DEF Appended

LEMMA RunEventsStep ==
    ASSUME TypeOK, Opened, SubmitAccepted, FenceBounds, RunEvents, Recovering, [Next]_vars
    PROVE  RunEvents'
<1> USE TypeGroups
<1>0. \A p \in Requests : srv[p] # None => srv[p] \in Requests /\ path[srv[p]] = "opened"
    BY DEF Opened, RunType
<1>1. CASE UNCHANGED log /\ Keeps
    BY <1>0, <1>1 DEF Keeps, RunEvents, Terminal
<1>2. ASSUME NEW r \in Requests, WriteCreated(r) \/ WriteInterrupt(r) \/ WriteRun(r)
      PROVE  RunEvents'
  <2>1. PICK w \in Requests, kind \in {"created", "start", "end", "interrupt"},
             q \in Requests \cup {None} : Acting(w) /\ Write(w, kind, q) /\ Cause(w, kind, q)
    BY <1>2, WriteCause
  <2>2. Keeps
    BY <1>2, WriteCause
  <2>3. PICK l : Appended(l, w, kind, q)
    BY <2>1, AppendFacts
  <2>4. kind # "created" => /\ q \in Requests /\ srv[q] # None
                            /\ run'[q] \in {"started", "over"}
    <3>1. CASE kind = "interrupt"
      <4>1. pc[w] = "recover" /\ q \in pend[w]
        BY <2>1, <3>1 DEF Cause
      <4>2. pend[w] \subseteq Requests
        BY DEF ReqType
      <4> QED
        BY <4>1, <4>2, <2>2 DEF Recovering, Keeps
    <3>2. CASE kind \in {"start", "end"}
      BY <2>1, <3>2 DEF Cause
    <3> QED
      BY <3>1, <3>2
  <2>5. kind # "created" => tok[srv[q]] <= fence
    BY <1>0, <2>4 DEF FenceBounds
  <2>6. kind = "start" => \A n \in DOMAIN log : ~(Terminal(log[n]) /\ log[n].run = q)
    BY <2>1 DEF Cause, RunEvents, Terminal
  <2>7. \A n \in DOMAIN log' : log'[n].kind # "created" =>
            /\ log'[n].run \in Requests
            /\ srv'[log'[n].run] # None
            /\ tok'[srv'[log'[n].run]] <= log'[n].tok
            /\ run'[log'[n].run] \in {"started", "over"}
    <3>1. ASSUME NEW n \in DOMAIN log, log[n].kind # "created"
          PROVE  /\ log'[n].run \in Requests
                 /\ srv'[log'[n].run] # None
                 /\ tok'[srv'[log'[n].run]] <= log'[n].tok
                 /\ run'[log'[n].run] \in {"started", "over"}
      BY <2>2, <2>3, <3>1 DEF RunEvents, Keeps, Appended
    <3> QED
      BY <2>3, <2>4, <2>5, <3>1 DEF Appended
  <2>8. \A n, m \in DOMAIN log' :
            Terminal(log'[n]) /\ log'[m].kind = "start" /\ log'[n].run = log'[m].run => m < n
    BY <2>3, <2>6 DEF RunEvents, Terminal, Appended
  <2> QED
    BY <2>7, <2>8 DEF RunEvents, Terminal
<1> QED
    BY <1>1, <1>2, SilentSteps

LEMMA RecoveringStep ==
    ASSUME TypeOK, Opened, SubmitAccepted, FenceBounds, RunEvents, Recovering, [Next]_vars
    PROVE  Recovering'
<1> USE TypeGroups
<1>0. /\ fence \in Nat /\ \A s \in Requests : tok[s] \in Nat
      /\ \A s \in Requests : pend[s] \subseteq Requests
    BY DEF PgType, ReqType
<1>1. ASSUME UNCHANGED log, Keeps, Onward,
             \A s \in Requests : pc[s] = "recover" /\ fence' = tok[s] => fence = tok[s]
      PROVE  Recovering'
  <2>1. ASSUME NEW s \in Requests, pc'[s] = "recover", NEW q \in pend'[s]
        PROVE  /\ pc[s] = "recover" /\ q \in pend[s] /\ q \in Requests /\ tok'[s] = tok[s]
               /\ fence' = tok[s] => fence = tok[s]
    BY <1>0, <1>1, <2>1 DEF Onward, BoundSteps
  <2>2. ASSUME NEW s \in Requests, pc'[s] = "recover", NEW q \in pend'[s]
        PROVE  /\ srv'[q] # None /\ run'[q] \in {"started", "over"}
               /\ fence' = tok'[s] => \A n \in DOMAIN log' :
                    Terminal(log'[n]) /\ log'[n].run = q => log'[n].tok = tok'[s]
    BY <1>1, <2>1, <2>2 DEF Recovering, Keeps, Terminal
  <2> QED
    BY <2>2 DEF Recovering, Terminal
<1>2. ASSUME NEW r \in Requests, Effect(r) PROVE Recovering'
  <2>1. CASE Route(r)
    <3>1. UNCHANGED log /\ UNCHANGED fence /\ Keeps /\ Onward
      BY <2>1 DEF Route, Others, Keeps, Onward
    <3> QED
      BY <1>1, <3>1
  <2>2. CASE Take(r)
    <3>1. UNCHANGED log /\ UNCHANGED fence /\ Keeps /\ Onward
      BY <2>2 DEF Take, Others, Keeps, Onward, BoundSteps, Opened
    <3> QED
      BY <1>1, <3>1
  <2>3. CASE Insert(r)
    <3>1. UNCHANGED log /\ Keeps /\ Onward
      BY <2>3 DEF Insert, Others, Keeps, Onward, BoundSteps
    <3>2. \A s \in Requests : pc[s] = "recover" => row
      BY DEF Opened, RowSteps
    <3> QED
      BY <1>1, <2>3, <3>1, <3>2 DEF Insert
  <2>4. CASE Bind(r)
    <3>1. \A s \in Requests : pc'[s] = "recover" => pc[s] = "recover" /\ pend'[s] = pend[s]
      BY <2>4 DEF Bind, Others
    <3>2. \A s \in Requests : pc[s] = "recover" => tok[s] <= fence
      BY DEF FenceBounds, BoundSteps
    <3>3. \A s \in Requests : pc[s] = "recover" /\ fence' = tok[s] => fence = tok[s]
      BY <1>0, <2>4, <3>2 DEF Bind
    <3> QED
      BY <2>4, <3>1, <3>3 DEF Bind, Recovering, Terminal
  <2>5. CASE Scan(r)
    <3>1. \A q \in OpenRuns : /\ q \in Requests /\ srv[q] # None /\ run[q] \in {"started", "over"}
                              /\ \A n \in DOMAIN log : ~(Terminal(log[n]) /\ log[n].run = q)
      <4>1. SUFFICES ASSUME NEW q \in OpenRuns
                     PROVE  /\ q \in Requests /\ srv[q] # None /\ run[q] \in {"started", "over"}
                            /\ \A n \in DOMAIN log : ~(Terminal(log[n]) /\ log[n].run = q)
        OBVIOUS
      <4>2. PICK n \in DOMAIN log :
              /\ q \in Requests /\ log[n].kind = "start" /\ log[n].run = q
              /\ \A m \in DOMAIN log : m > n => ~(Terminal(log[m]) /\ log[m].run = q)
        BY DEF OpenRuns
      <4>3. \A m \in DOMAIN log : Terminal(log[m]) /\ log[m].run = q => n < m
        BY <4>2 DEF RunEvents
      <4> QED
        BY <4>2, <4>3 DEF RunEvents
    <3>2. \A s \in Requests : pc'[s] = "recover" =>
            pend'[s] = OpenRuns \/ (pc[s] = "recover" /\ pend'[s] = pend[s])
      BY <2>5 DEF Scan, Others
    <3> HIDE DEF OpenRuns
    <3> QED
      BY <2>5, <3>1, <3>2 DEF Scan, Recovering, Terminal
  <2>6. CASE Reg(r)
    <3>1. UNCHANGED log /\ UNCHANGED fence /\ Keeps /\ Onward
      BY <2>6 DEF Reg, Others, Keeps, Onward, BoundSteps
    <3> QED
      BY <1>1, <3>1
  <2>7. CASE Accept(r)
    <3>1. UNCHANGED log /\ UNCHANGED fence /\ Keeps /\ Onward
      BY <2>7 DEF Accept, Others, Keeps, Onward, BoundSteps, SubmitAccepted
    <3> QED
      BY <1>1, <3>1
  <2>8. CASE RunOver(r)
    <3>1. UNCHANGED log /\ UNCHANGED fence /\ Keeps /\ Onward
      BY <2>8 DEF RunOver, Keeps, Onward
    <3> QED
      BY <1>1, <3>1
  <2>9. CASE WriteCreated(r) \/ WriteInterrupt(r) \/ WriteRun(r)
    <3>1. PICK w \in Requests, kind \in {"created", "start", "end", "interrupt"},
               p \in Requests \cup {None} : Write(w, kind, p)
      BY <2>9, WriteCause
    <3>2. Keeps /\ Onward
      BY <2>9, WriteCause
    <3>3. PICK l : Appended(l, w, kind, p)
      BY <3>1, AppendFacts
    <3>4. ASSUME NEW s \in Requests, pc'[s] = "recover", NEW q \in pend'[s]
          PROVE  pc[s] = "recover" /\ q \in pend[s] /\ q \in Requests
      BY <1>0, <3>2, <3>4 DEF Onward
    <3>5. ASSUME NEW s \in Requests, pc'[s] = "recover", NEW q \in pend'[s]
          PROVE  /\ srv'[q] # None /\ run'[q] \in {"started", "over"}
                 /\ fence' = tok'[s] => \A n \in DOMAIN log' :
                      Terminal(log'[n]) /\ log'[n].run = q => log'[n].tok = tok'[s]
      BY <3>2, <3>3, <3>4, <3>5 DEF Recovering, Keeps, Terminal, Appended
    <3> QED
      BY <3>5 DEF Recovering, Terminal
  <2> QED
    BY <1>2, <2>1, <2>2, <2>3, <2>4, <2>5, <2>6, <2>7, <2>8, <2>9 DEF Effect
<1>3. CASE Stops
  <2>1. UNCHANGED log /\ UNCHANGED fence /\ Keeps /\ Onward
    BY <1>3 DEF Stops, Keeps, Onward, BoundSteps
  <2> QED
    BY <1>1, <2>1
<1>4. CASE Quiet
    BY <1>4 DEF Quiet, pgVars, reqVars, Recovering, Terminal
<1> QED
    BY <1>2, <1>3, <1>4, Effects

LEMMA JournalStep ==
    ASSUME TypeOK, Opened, SubmitAccepted, OneHolder, FenceBounds, RunEvents, Recovering,
           LogByFence, OneWriterPerToken, OneOwnerClosesRun, [Next]_vars
    PROVE  LogByFence' /\ OneWriterPerToken' /\ OneOwnerClosesRun'
<1> USE TypeGroups
<1>1. CASE UNCHANGED log
    BY <1>1 DEF LogByFence, OneWriterPerToken, OneOwnerClosesRun, Terminal
<1>2. ASSUME NEW r \in Requests, WriteCreated(r) \/ WriteInterrupt(r) \/ WriteRun(r)
      PROVE  LogByFence' /\ OneWriterPerToken' /\ OneOwnerClosesRun'
  <2>1. PICK w \in Requests, kind \in {"created", "start", "end", "interrupt"},
             q \in Requests \cup {None} : Acting(w) /\ Write(w, kind, q) /\ Cause(w, kind, q)
    BY <1>2, WriteCause
  <2>2. PICK l : Appended(l, w, kind, q)
    BY <2>1, AppendFacts
  <2>4. LogByFence'
    BY <2>2 DEF LogByFence, FenceBounds, Appended
  <2>5. OneWriterPerToken'
    BY <2>1, <2>2 DEF OneWriterPerToken, OneHolder, Appended
  <2>6. kind \in {"end", "interrupt"} => \A n \in DOMAIN log :
            Terminal(log[n]) /\ log[n].run = q => log[n].tok = fence
    <3>1. CASE kind = "interrupt"
      BY <2>1, <2>2, <3>1 DEF Cause, Recovering, Appended
    <3>2. CASE kind = "end"
      <4>1. q \in Requests /\ srv[q] = w
        BY <2>1, <3>2 DEF Cause
      <4>2. \A n \in DOMAIN log : Terminal(log[n]) /\ log[n].run = q =>
                tok[w] <= log[n].tok /\ log[n].tok <= fence
        BY <4>1 DEF RunEvents, FenceBounds, Terminal
      <4> QED
        BY <2>2, <4>2 DEF Appended
    <3> QED
      BY <3>1, <3>2
  <2>7. OneOwnerClosesRun'
    <3>1. Terminal(log'[l]) <=> kind \in {"end", "interrupt"}
      BY <2>2 DEF Terminal, Appended
    <3>2. \A n \in DOMAIN log : Terminal(log'[n]) <=> Terminal(log[n])
      BY <2>2 DEF Terminal, Appended
    <3>3. \A n, m \in DOMAIN log' :
            Terminal(log'[n]) /\ Terminal(log'[m]) /\ log'[n].run = log'[m].run
                => log'[n].tok = log'[m].tok
      BY <2>2, <2>6, <3>1, <3>2 DEF OneOwnerClosesRun, Appended
    <3> QED
      BY <3>3 DEF OneOwnerClosesRun, Terminal
  <2> QED
    BY <2>4, <2>5, <2>7
<1> QED
    BY <1>1, <1>2, SilentSteps

LEMMA InitIInv == Init => IInv
<1> SUFFICES ASSUME Init PROVE IInv
    OBVIOUS
<1>0. FirstFence \in Nat
    BY DEF FirstFence
<1>1. TypeOK
  <2>1. RedisType /\ PgType
    BY <1>0 DEF Init, RedisType, PgType
  <2>2. ProcType /\ LeaseType /\ CtlType /\ RunType
    BY DEF Init, ProcType, LeaseType, CtlType, RunType
  <2>3. ReqType
    BY DEF Init, ReqType, Steps
  <2> QED
    BY <2>1, <2>2, <2>3, TypeGroups
<1>2. Opened /\ SubmitAccepted
    BY DEF Init, Opened, RowSteps, SubmitAccepted
<1>3. OneHolder
    BY <1>0 DEF Init, OneHolder, Acting, RowSteps, KeyIs
<1>4. FenceBounds /\ RunEvents /\ Recovering
    BY DEF Init, FenceBounds, BoundSteps, RunEvents, Recovering
<1>5. LogByFence /\ OneWriterPerToken /\ OneOwnerClosesRun
    BY DEF Init, LogByFence, OneWriterPerToken, OneOwnerClosesRun
<1> QED
    BY <1>1, <1>2, <1>3, <1>4, <1>5 DEF IInv

LEMMA NextIInv == IInv /\ [Next]_vars => IInv'
BY TypeStep, OpenedStep, SubmitAcceptedStep, OneHolderStep, FenceBoundsStep, RunEventsStep,
   RecoveringStep, JournalStep
DEF IInv

(* The inductive invariant: every token has one holder, the row's token    *)
(* bounds every write and every bound handle, and a recovery that still    *)
(* may write is the only one that has closed the runs it scanned.          *)
THEOREM FencingInvariant == Spec => []IInv
BY InitIInv, NextIInv, PTL DEF Spec

(* Type correctness of the ownership protocol (every variable of the       *)
(* router, the session manager, Redis and PostgreSQL).                     *)
THEOREM TypeCorrect == Spec => []TypeOK
<1>1. IInv => TypeOK
    BY DEF IInv
<1> QED
    BY <1>1, FencingInvariant, PTL

(* Fencing (bindFence, checkFenceTx, Append): with any instances, requests,*)
(* crashes and drains, the journal is ordered by fence token.              *)
THEOREM FencedJournal == Spec => []LogByFence
<1>1. IInv => LogByFence
    BY DEF IInv
<1> QED
    BY <1>1, FencingInvariant, PTL

(* A fence token identifies one instance in the journal (the INCR of the   *)
(* acquire script), so the equality checkFenceTx makes is enough.          *)
THEOREM OneWriter == Spec => []OneWriterPerToken
<1>1. IInv => OneWriterPerToken
    BY DEF IInv
<1> QED
    BY <1>1, FencingInvariant, PTL

(* A run is closed under one token (RecoverInterruptedRuntime scans after  *)
(* bindFence, the former owner's own terminal event is refused).           *)
THEOREM OneClosing == Spec => []OneOwnerClosesRun
<1>1. IInv => OneOwnerClosesRun
    BY DEF IInv
<1> QED
    BY <1>1, FencingInvariant, PTL

LEMMA WatchStep == ASSUME TypeOK, LeaseWatched, [Next]_vars PROVE LeaseWatched'
<1> USE TypeGroups DEF LeaseWatched, LeaseType
<1>1. ASSUME NEW r \in Requests, InstallLease(r) PROVE LeaseWatched'
    BY <1>1 DEF InstallLease, ReqType
<1>2. ASSUME NEW r \in Requests, DropLease(r) PROVE LeaseWatched'
    BY <1>2 DEF DropLease, ReqType
<1>3. ASSUME NEW i \in Instances, NEW t \in watch[i] \cup closing[i], LeaseStep(i, t)
      PROVE  LeaseWatched'
    BY <1>3 DEF LeaseStep, RenewRefused, RenewFailed, WatcherReleases, WatcherDetaches
<1>4. ASSUME NEW i \in Instances, InstanceStep(i) PROVE LeaseWatched'
    BY <1>4 DEF InstanceStep, DrainMark, DrainCopy, DrainRelease, DrainDelete, Crash, Restart,
       leaseVars
<1>5. ASSUME UNCHANGED <<leases, watch, closing>> PROVE LeaseWatched'
    BY <1>5
<1>6. ASSUME NEW r \in Requests, RequestStep(r), ~InstallLease(r), ~DropLease(r)
      PROVE  UNCHANGED <<leases, watch, closing>>
    BY <1>6 DEF RequestStep, leaseVars, Lookup, LocalOwner, Acquire, Relookup, HandleCommand,
       ResumeFor, InsertRow, BindFence, CreateStream, RecoverLoad, RecoverAppend, UpdateMeta,
       Register, Serve, RunStart, RunEnd, ReleaseLease
<1>7. ASSUME KeyExpires \/ UNCHANGED vars PROVE UNCHANGED <<leases, watch, closing>>
    BY <1>7 DEF KeyExpires, leaseVars, vars
<1> HIDE DEF LeaseWatched, LeaseType
<1> QED
    BY <1>1, <1>2, <1>3, <1>4, <1>5, <1>6, <1>7 DEF Next

(* Every entry of router.leases has a goroutine that detaches it once its  *)
(* lease is lost (installLease, releaseLease, Drain).                      *)
THEOREM EntriesWatched == Spec => []LeaseWatched
<1>1. Init => LeaseWatched
    BY DEF Init, LeaseWatched
<1> QED
    BY <1>1, WatchStep, TypeCorrect, PTL DEF Spec
=============================================================================
