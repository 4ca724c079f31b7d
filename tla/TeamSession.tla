---------------------------- MODULE TeamSession ----------------------------
(***************************************************************************)
(* One Agent Team session (team/session.go): submits and the Team Loop,    *)
(* the engine runs of its agents, A2A tasks with their two goroutines, the *)
(* audit of workspace writes, contract, gate verdicts and completion,      *)
(* permission requests, Abort, release and restart.  What an agent decides *)
(* to do is external.  Dialogue, timeline and activity rows are display.   *)
(***************************************************************************)
EXTENDS Naturals, FiniteSets

CONSTANTS Loops,     \* submits of a behaviour, each with its Team Loop
          Jobs,      \* A2A tasks of a behaviour
          Leader,    \* the entry agent
          Members,   \* the other agents
          Gate,      \* the member that is the agent of the one gate check
          Files,     \* workspace files, artifacts among them
          Checks,    \* commands and smokes a contract may name
          GateNamed, \* those named after a configured gate or its agent
          Items,     \* evidence a verdict may carry, by name, command and directory
          Covers,    \* the checks each item covers, by name, command or wording
          Scenes,    \* team configurations, one per behaviour
          None

Agents == {Leader} \cup Members
Policies == [targets : SUBSET Agents, beforeContract : BOOLEAN, requiresContract : BOOLEAN,
             exclusive : BOOLEAN, audit : BOOLEAN, denied : SUBSET Files, allowed : SUBSET Files]
Contracts == [artifacts : SUBSET Files, checks : SUBSET Checks, required : SUBSET Checks]
Verdicts == [status : {"pass", "waived", "fail"}, evidence : [Items -> {"none", "pass", "fail"}],
             blocking : BOOLEAN]

ASSUME TeamAssumption ==
    /\ Gate \in Members /\ Leader \notin Members /\ Loops \cap Jobs = {}
    /\ None \notin Loops \cup Jobs
    /\ GateNamed \subseteq Checks /\ Covers \in [Items -> SUBSET Checks]
    /\ Scenes \subseteq [loops : SUBSET Loops, jobs : SUBSET Jobs, policies : SUBSET Policies,
                         expects : SUBSET SUBSET Files,         \* expected_artifacts of a message
                         routes : SUBSET (Agents \X Agents),   \* communicates_with, as used
                         present : SUBSET Files,                \* files there from before
                         writers : SUBSET Agents,               \* agents that write files
                         asks : SUBSET Agents,                  \* agents that need a permission
                         contracts : SUBSET Contracts,          \* contracts a leader records
                         verdicts : SUBSET Verdicts,            \* verdicts the gate submits
                         awaits : SUBSET BOOLEAN,               \* await_response of a message
                         texts : SUBSET BOOLEAN,                \* may an agent end without output
                         parallel : Nat \ {0},                  \* max_parallel_agents
                         waits : BOOLEAN,      \* wait_for_pending_a2a_before_next_iteration
                         panics : BOOLEAN, aborts : BOOLEAN, releases : BOOLEAN, restarts : BOOLEAN]

VARIABLES busy, cur, canceller, cancelled,   \* Session.busy, runCtx, cancel; contexts that are done
          loop,                               \* where each Team Loop is
          completed, contract, verdict,       \* Session.completed, contract, gateVerdicts
          files, yolo,
          engine, workspace,                  \* AgentRuntime.busy with its holder, workspaceMu
          pc, ctx, pol, changed, call, result,  \* runAgentTask of each loop and job
          status, active,                     \* a2aTasks, agentActiveA2A
          to, caller, awaits, expected, outer,  \* the dispatching goroutine of each job
          gone, scene,
          record, vouched, overtaken, abandoned  \* history, for the properties only

runVars == <<busy, cur, canceller, cancelled, loop>>
gateVars == <<completed, contract, verdict, record, vouched, overtaken>>
agentVars == <<engine, workspace, pc, ctx, pol, changed, call, result, files>>
taskVars == <<status, active, to, caller, awaits, expected, outer, abandoned>>
restVars == <<yolo, gone, scene>>
vars == <<busy, cur, canceller, cancelled, loop, completed, contract, verdict, files, yolo, engine,
          workspace, pc, ctx, pol, changed, call, result, status, active, to, caller, awaits,
          expected, outer, gone, scene, record, vouched, overtaken, abandoned>>

Work == Loops \cup Jobs
AgentOf(e) == IF e \in Loops THEN Leader ELSE to[e]
Open(d) == status[d] \in {"running", "pending"}
Done(e) == ctx[e] \in cancelled
InEngine == {"engine", "ask"}

(* activeA2ATask: the open task agentActiveA2A names for agent a.          *)
ActiveTask(a) == IF active[a] # None /\ Open(active[a]) THEN active[a] ELSE None

(* activeA2ATasks.                                                         *)
ActiveTasks == {a \in Agents : ActiveTask(a) # None}

(* matchTaskPolicies for a task of agent a, task types being fixed.        *)
MatchTaskPolicies(a) ==
    {p \in scene.policies : a \in p.targets /\ (p.beforeContract => contract = None)}

(* taskWriteViolations and taskWriteAttemptViolations: a changed file that *)
(* is denied, or neither expected nor on an allow list that exists.        *)
WriteViolations(e, written) ==
    LET allow == UNION {p.allowed : p \in pol[e]}
    IN  {f \in written : \/ \E p \in pol[e] : f \in p.denied
                         \/ allow # {} /\ f \notin allow \cup expected[e]}

(* shouldAuditTaskWrites.                                                  *)
Audited(e) == \E p \in pol[e] : p.audit \/ p.denied \cup p.allowed # {}

(* History: completions on the way whose grounds have just changed.        *)
Overtake == overtaken' = {e \in Work : call[e] = "complete"}
NoRecord == [passing |-> FALSE, needs |-> FALSE, proven |-> {}]
-----------------------------------------------------------------------------
(* NewSessionWithIdentity, after Manager.StartWithRuntimeIdentity.         *)
Init ==
    /\ scene \in Scenes
    /\ busy = FALSE /\ cur = None /\ canceller = None /\ cancelled = {}
    /\ loop = [r \in Loops |-> "none"]
    /\ completed = FALSE /\ contract = None /\ verdict = None
    /\ files = scene.present /\ yolo = FALSE /\ gone = FALSE
    /\ engine = [a \in Agents |-> None] /\ workspace = None
    /\ pc = [e \in Work |-> "none"] /\ ctx = [e \in Work |-> None]
    /\ pol = [e \in Work |-> {}] /\ changed = [e \in Work |-> {}]
    /\ call = [e \in Work |-> "none"] /\ result = [e \in Work |-> "none"]
    /\ status = [d \in Jobs |-> "none"] /\ active = [a \in Agents |-> None]
    /\ to = [d \in Jobs |-> Leader] /\ caller = [d \in Jobs |-> None]
    /\ awaits = [d \in Jobs |-> FALSE] /\ expected = [e \in Work |-> {}]
    /\ outer = [d \in Jobs |-> "none"]
    /\ record = NoRecord
    /\ vouched = {} /\ overtaken = {} /\ abandoned = {}

(* The submits to come are alike.                                          *)
NextSubmit == CHOOSE r \in scene.loops : loop[r] = "none"

(* Submit: the busy flag is taken and the last run's gates are cleared ... *)
SubmitAdmit(r) ==
    /\ r \in scene.loops /\ ~gone /\ ~busy /\ loop[r] = "none" /\ r = NextSubmit
    /\ busy' = TRUE /\ loop' = [loop EXCEPT ![r] = "admitted"]
    /\ completed' = FALSE /\ contract' = None /\ verdict' = None
    /\ record' = NoRecord /\ Overtake
    /\ UNCHANGED <<cur, canceller, cancelled, vouched, agentVars, taskVars, restVars>>

(* ... then the run context and its cancel function are published.         *)
SubmitStart(r) ==
    /\ loop[r] = "admitted"
    /\ cur' = r /\ canceller' = r /\ loop' = [loop EXCEPT ![r] = "check"]
    /\ UNCHANGED <<busy, cancelled, gateVars, agentVars, taskVars, restVars>>

(* runLoop: the next iteration waits for open A2A tasks if the team says so. *)
LoopStops(r) ==
    /\ loop[r] = "check" /\ (r \in cancelled \/ completed)
    /\ loop' = [loop EXCEPT ![r] = "leaving"]
    /\ UNCHANGED <<busy, cur, canceller, cancelled, gateVars, agentVars, taskVars, restVars>>

LoopGoesOn(r) == loop[r] = "check" /\ r \notin cancelled /\ ~completed

(* waitForPendingA2ABeforeNextIteration: is there something to wait for?   *)
MustWait == scene.waits /\ ActiveTasks # {}

LoopWaits(r) ==
    /\ LoopGoesOn(r) /\ MustWait
    /\ loop' = [loop EXCEPT ![r] = "waiting"]
    /\ UNCHANGED <<busy, cur, canceller, cancelled, gateVars, agentVars, taskVars, restVars>>

(* Faulty variant: the wait does not look at the run's context.            *)
LoopWaitEndsDeaf(r) ==
    /\ loop[r] = "waiting" /\ ActiveTasks = {}
    /\ loop' = [loop EXCEPT ![r] = "check"]
    /\ UNCHANGED <<busy, cur, canceller, cancelled, gateVars, agentVars, taskVars, restVars>>

LoopWaitEnds(r) ==
    /\ loop[r] = "waiting" /\ (r \in cancelled \/ ActiveTasks = {})
    /\ loop' = [loop EXCEPT ![r] = "check"]
    /\ UNCHANGED <<busy, cur, canceller, cancelled, gateVars, agentVars, taskVars, restVars>>

LoopIterates(r) ==
    /\ LoopGoesOn(r) /\ ~MustWait
    /\ loop' = [loop EXCEPT ![r] = "turn"]
    /\ pc' = [pc EXCEPT ![r] = "queue"] /\ ctx' = [ctx EXCEPT ![r] = r]
    /\ UNCHANGED <<busy, cur, canceller, cancelled, gateVars, engine, workspace, pol, changed, call,
                   result, files, taskVars, restVars>>

(* An error of the leader's run is a recovery note; the loop goes round.   *)
LoopTurnEnds(r) ==
    /\ loop[r] = "turn" /\ pc[r] \in {"returned", "panicked"}
    /\ loop' = [loop EXCEPT ![r] = IF pc[r] = "panicked" THEN "leaving" ELSE "check"]
    /\ pc' = [pc EXCEPT ![r] = "none"]
    /\ UNCHANGED <<busy, cur, canceller, cancelled, gateVars, engine, workspace, ctx, pol, changed,
                   call, result, files, taskVars, restVars>>

(* The deferred function of Submit; the event it emits reads completed.    *)
LoopLeaves(r) ==
    /\ loop[r] = "leaving"
    /\ busy' = FALSE /\ cancelled' = cancelled \cup {r}
    /\ cur' = IF cur = r THEN None ELSE cur
    /\ loop' = [loop EXCEPT ![r] = "over"]
    /\ UNCHANGED <<canceller, gateVars, agentVars, taskVars, restVars>>
-----------------------------------------------------------------------------
(* runAgentTask of e: the agent's runtime is taken, policies are matched.  *)
TakeAgent(e) ==
    /\ pc[e] = "queue" /\ engine[AgentOf(e)] = None
    /\ engine' = [engine EXCEPT ![AgentOf(e)] = e]
    /\ pol' = [pol EXCEPT ![e] = MatchTaskPolicies(AgentOf(e))]
    /\ pc' = [pc EXCEPT ![e] = IF \E p \in pol'[e] : p.exclusive THEN "workspace" ELSE "engine"]
    /\ UNCHANGED <<runVars, gateVars, workspace, ctx, changed, call, result, files,
                   taskVars, restVars>>

(* Its wait for a busy runtime ends with the run's context.                *)
QueueCancelled(e) ==
    /\ pc[e] = "queue" /\ engine[AgentOf(e)] # None /\ Done(e)
    /\ pc' = [pc EXCEPT ![e] = "returned"] /\ result' = [result EXCEPT ![e] = "error"]
    /\ UNCHANGED <<runVars, gateVars, engine, workspace, ctx, pol, changed, call, files,
                   taskVars, restVars>>

(* workspaceMu, which no context ends; the audit's listing comes after it. *)
TakeWorkspace(e) ==
    /\ pc[e] = "workspace" /\ workspace = None
    /\ workspace' = e /\ pc' = [pc EXCEPT ![e] = "engine"]
    /\ changed' = [changed EXCEPT ![e] = {}]
    /\ UNCHANGED <<runVars, gateVars, engine, ctx, pol, call, result, files,
                   taskVars, restVars>>

(* A tool of the agent writes f: every audit in progress will see it.      *)
Write(e, f) ==
    /\ pc[e] = "engine" /\ call[e] = "none" /\ AgentOf(e) \in scene.writers
    /\ files' = files \cup {f}
    /\ changed' = [x \in Work |-> IF Audited(x) /\ pc[x] \in InEngine \cup {"workspace"}
                                  THEN changed[x] \cup {f} ELSE changed[x]]
    /\ UNCHANGED <<runVars, gateVars, engine, workspace, pc, ctx, pol, call, result, taskVars,
                   restVars>>

(* requestPermission blocks the agent's event loop; only the answer or the *)
(* timer of 24 hours ends it, and an answer for a missing sandbox may turn *)
(* yolo on for the whole team (ApplyRuntimeConfig).                        *)
RequestPermission(e) ==
    /\ pc[e] = "engine" /\ call[e] = "none" /\ AgentOf(e) \in scene.asks /\ ~yolo
    /\ pc' = [pc EXCEPT ![e] = "ask"]
    /\ UNCHANGED <<runVars, gateVars, engine, workspace, ctx, pol, changed, call, result,
                   files, taskVars, restVars>>

Answered(e) ==
    /\ pc[e] = "ask" /\ pc' = [pc EXCEPT ![e] = "engine"]
    /\ UNCHANGED <<runVars, gateVars, engine, workspace, ctx, pol, changed, call, result,
                   files, taskVars, gone, scene>>

ResolvePermission(e) == ~gone /\ Answered(e) /\ yolo' \in BOOLEAN
PermissionExpires(e) == Answered(e) /\ UNCHANGED yolo

(* What the deferred calls of runAgentTask give back.                      *)
Release(e) ==
    /\ engine' = [engine EXCEPT ![AgentOf(e)] = None]
    /\ workspace' = IF workspace = e THEN None ELSE workspace

(* invalidateGateVerdictsForAgent.                                         *)
Invalidate(e) ==
    /\ verdict' = IF AgentOf(e) = Gate THEN None ELSE verdict
    /\ record' = IF AgentOf(e) = Gate THEN NoRecord ELSE record
    /\ IF AgentOf(e) = Gate THEN Overtake ELSE UNCHANGED overtaken

(* The event stream ends: interrupted, a stage violation, no visible       *)
(* output, or a result.  A cancelled stream ends in the middle of a tool    *)
(* call, whose goroutine goes on.                                          *)
AgentEnds(e, text) ==
    /\ pc[e] = "engine" /\ (call[e] = "none" \/ Done(e))
    /\ LET bad == WriteViolations(e, changed[e])
           violation == ~Done(e) /\ Audited(e) /\ bad # {}
       IN  /\ result' = [result EXCEPT ![e] = IF Done(e) \/ violation \/ ~text THEN "error" ELSE "ok"]
           /\ IF violation THEN Invalidate(e) ELSE UNCHANGED <<verdict, record, overtaken>>
    /\ Release(e) /\ pc' = [pc EXCEPT ![e] = "returned"]
    /\ pol' = [pol EXCEPT ![e] = {}] /\ changed' = [changed EXCEPT ![e] = {}]
    /\ UNCHANGED <<runVars, completed, contract, vouched, ctx, call, files, taskVars, restVars>>

(* A panic under runAgentTask: recovered in Submit's goroutine or in the   *)
(* inner goroutine of a job.                                               *)
AgentPanics(e) ==
    /\ scene.panics /\ pc[e] = "engine" /\ call[e] = "none"
    /\ Release(e) /\ pc' = [pc EXCEPT ![e] = "panicked"]
    /\ abandoned' = IF e \in Jobs /\ Open(e) THEN abandoned \cup {e} ELSE abandoned
    /\ UNCHANGED <<runVars, gateVars, ctx, pol, changed, call, result, files, status,
                   active, to, caller, awaits, expected, outer, restVars>>
-----------------------------------------------------------------------------
(* finishA2ATask(d, st): the first terminal status stays.                  *)
Finish(d, st) ==
    IF Open(d)
    THEN /\ status' = [status EXCEPT ![d] = st]
         /\ active' = [active EXCEPT ![to[d]] = IF @ = d THEN None ELSE @]
    ELSE UNCHANGED <<status, active>>

(* ensureContractBeforeDispatch.                                           *)
MayDispatch(a, targets) ==
    a = Leader => ~\E t \in targets : \E p \in MatchTaskPolicies(t) : p.requiresContract /\ contract = None

(* The targets SendA2AMessage begins a task for: the leader only gets a    *)
(* note from others, a target with an open task is answered task_pending.  *)
BeginTargets(a, targets) == {t \in targets : (t # Leader \/ a = Leader) /\ ActiveTask(t) = None}

(* SendA2AMessage of agent run e, beginA2ATask for each target included.   *)
SendA2AMessage(e, targets, wait, expect) ==
    /\ pc[e] = "engine" /\ call[e] = "none"
    /\ \A t \in targets : <<AgentOf(e), t>> \in scene.routes
    /\ MayDispatch(AgentOf(e), targets)
    /\ LET begun == BeginTargets(AgentOf(e), targets)
       IN  /\ begun # {}
           /\ \E job \in [begun -> {d \in scene.jobs : status[d] = "none"}] :
                /\ \A s, t \in begun : s # t => job[s] # job[t]
                /\ LET new == {job[t] : t \in begun}
                       Target(d) == CHOOSE t \in begun : job[t] = d
                   IN  /\ status' = [d \in Jobs |-> IF d \in new THEN "running" ELSE status[d]]
                       /\ to' = [d \in Jobs |-> IF d \in new THEN Target(d) ELSE to[d]]
                       /\ caller' = [d \in Jobs |-> IF d \in new THEN e ELSE caller[d]]
                       /\ awaits' = [d \in Jobs |-> IF d \in new THEN wait ELSE awaits[d]]
                       /\ expected' = [x \in Work |-> IF x \in new THEN expect ELSE expected[x]]
                       /\ outer' = [d \in Jobs |-> IF d \in new THEN "sem" ELSE outer[d]]
                       /\ active' = [a \in Agents |-> IF a \in begun THEN job[a] ELSE active[a]]
    /\ call' = [call EXCEPT ![e] = "send"]
    /\ UNCHANGED <<runVars, gateVars, engine, workspace, pc, ctx, pol, changed, result,
                   files, abandoned, restVars>>

(* The outer goroutine of a job takes a slot of its call and starts the    *)
(* inner one; a call that does not await returns at once.                  *)
TakeSlot(d) ==
    /\ outer[d] = "sem"
    /\ Cardinality({x \in Jobs : caller[x] = caller[d] /\ outer[x] = "await"}) < scene.parallel
    /\ outer' = [outer EXCEPT ![d] = IF awaits[d] THEN "await" ELSE "back"]
    /\ pc' = [pc EXCEPT ![d] = "start"]
    /\ UNCHANGED <<runVars, gateVars, engine, workspace, ctx, pol, changed, call, result,
                   files, status, active, to, caller, awaits, expected, abandoned, restVars>>

(* The inner goroutine: activeRunContext, then runAgentTask.               *)
StartJob(d) ==
    /\ d \in Jobs /\ pc[d] = "start"
    /\ ctx' = [ctx EXCEPT ![d] = cur] /\ pc' = [pc EXCEPT ![d] = "queue"]
    /\ UNCHANGED <<runVars, gateVars, engine, workspace, pol, changed, call, result, files,
                   taskVars, restVars>>

(* Faulty variant: a run that ended with an error leaves its task open.    *)
JobReturnsOnlyOk(d) ==
    /\ d \in Jobs /\ pc[d] = "returned"
    /\ IF result[d] = "ok" THEN Finish(d, "completed") ELSE UNCHANGED <<status, active>>
    /\ pc' = [pc EXCEPT ![d] = "finished"]
    /\ UNCHANGED <<runVars, gateVars, engine, workspace, ctx, pol, changed, call, result,
                   files, to, caller, awaits, expected, outer, abandoned, restVars>>

JobReturns(d) ==
    /\ d \in Jobs /\ pc[d] = "returned"
    /\ Finish(d, IF result[d] = "ok" THEN "completed" ELSE "error")
    /\ pc' = [pc EXCEPT ![d] = "finished"]
    /\ UNCHANGED <<runVars, gateVars, engine, workspace, ctx, pol, changed, call, result,
                   files, to, caller, awaits, expected, outer, abandoned, restVars>>

(* The select of the outer goroutine: a result, the task's own notice,     *)
(* the wait window, or the context of the calling agent.                   *)
WaitGetsResult(d) ==
    /\ outer[d] = "await" /\ (pc[d] \in {"finished", "panicked"} \/ ~Open(d))
    /\ outer' = [outer EXCEPT ![d] = "back"]
    /\ UNCHANGED <<runVars, gateVars, agentVars, status, active, to, caller, awaits, expected, abandoned,
                   restVars>>

(* Faulty variant: the wait window only closes on a task that is done.     *)
WaitTimesOutWhenDone(d) ==
    /\ outer[d] = "await" /\ ~Open(d)
    /\ outer' = [outer EXCEPT ![d] = "back"]
    /\ UNCHANGED <<runVars, gateVars, agentVars, status, active, to, caller, awaits, expected, abandoned,
                   restVars>>

WaitTimesOut(d) ==
    /\ outer[d] = "await"
    /\ outer' = [outer EXCEPT ![d] = "back"]
    /\ status' = [status EXCEPT ![d] = IF Open(d) THEN "pending" ELSE @]
    /\ UNCHANGED <<runVars, gateVars, agentVars, active, to, caller, awaits, expected, abandoned, restVars>>

WaitInterrupted(d) ==
    /\ outer[d] = "await" /\ Done(caller[d])
    /\ Finish(d, "interrupted")
    /\ outer' = [outer EXCEPT ![d] = "back"]
    /\ UNCHANGED <<runVars, gateVars, agentVars, to, caller, awaits, expected, abandoned, restVars>>

SendReturns(e) ==
    /\ call[e] = "send" /\ \A d \in Jobs : caller[d] = e => outer[d] \in {"none", "back"}
    /\ call' = [call EXCEPT ![e] = "none"]
    /\ UNCHANGED <<runVars, gateVars, engine, workspace, pc, ctx, pol, changed, result, files,
                   taskVars, restVars>>
-----------------------------------------------------------------------------
(* mergeAcceptanceContract: requirements accumulate, and a check that was  *)
(* required once stays so.                                                 *)
MergeContract(old, new) ==
    IF old = None THEN new
    ELSE [artifacts |-> old.artifacts \cup new.artifacts, checks |-> old.checks \cup new.checks,
          required |-> old.required \cup new.required]

(* RecordContract, after the tool's ValidateInput, for which a check that  *)
(* is named counts, required or not.                                       *)
RecordContract(e, c) ==
    /\ pc[e] = "engine" /\ call[e] = "none" /\ AgentOf(e) = Leader
    /\ c.artifacts # {} /\ c.checks # {}
    /\ contract' = MergeContract(contract, c) /\ Overtake
    /\ UNCHANGED <<runVars, completed, verdict, record, vouched, agentVars, taskVars, restVars>>

(* validateGateVerdictInput: a pass needs some evidence.                   *)
ValidVerdict(v) == v.status = "pass" => \E i \in Items : v.evidence[i] # "none"

(* Faulty variant: evidence is kept when the status changes.               *)
MergeVerdictAlways(old, new) ==
    IF old = None THEN new
    ELSE [new EXCEPT !.evidence = [i \in Items |-> IF new.evidence[i] = "none" THEN old.evidence[i]
                                                   ELSE new.evidence[i]]]

(* mergeGateVerdict: evidence accumulates under one status, findings are   *)
(* those of the last submission.                                           *)
MergeVerdict(old, new) ==
    IF old = None THEN new
    ELSE IF old.status # new.status THEN new
    ELSE [new EXCEPT !.evidence = [i \in Items |-> IF new.evidence[i] = "none" THEN old.evidence[i]
                                                   ELSE new.evidence[i]]]

(* missingActiveA2AExpectedArtifacts is empty.                             *)
ExpectedPresent(a) == IF ActiveTask(a) = None THEN TRUE ELSE expected[active[a]] \subseteq files

(* SubmitGateVerdict, which also finishes the task that is active then.    *)
SubmitGateVerdict(e, v) ==
    /\ pc[e] = "engine" /\ call[e] = "none" /\ AgentOf(e) = Gate
    /\ ValidVerdict(v) /\ ExpectedPresent(Gate)
    /\ verdict' = MergeVerdict(verdict, v)
    /\ record' = [passing |-> v.status # "fail" /\ ~v.blocking,
                  needs |-> v.status = "pass",
                  proven |-> {i \in Items : v.evidence[i] = "pass"} \cup
                             (IF verdict # None /\ verdict.status = v.status
                              THEN {i \in record.proven : v.evidence[i] = "none"} ELSE {})]
    /\ Overtake
    /\ IF ActiveTask(Gate) # None THEN Finish(active[Gate], "completed") ELSE UNCHANGED <<status, active>>
    /\ UNCHANGED <<runVars, completed, contract, vouched, agentVars, to, caller, awaits, expected, outer,
                   abandoned, restVars>>

(* requiredEvidenceCovered, or an equal name or command: some item that    *)
(* passed covers the check.  Which wordings cover which is Covers.         *)
Proves(v, k) == \E i \in Items : v.evidence[i] = "pass" /\ k \in Covers[i]

(* missingRequiredEvidence: optional checks need none, nor does a check    *)
(* named after a gate, whose verdict is asked for anyway                   *)
(* (contractCheckCoveredByGate).                                           *)
MissingEvidence(c, v) == {k \in c.required \ GateNamed : ~Proves(v, k)}

(* validateGateFindings refuses: a finding that blocks, or one that is     *)
(* neither resolved nor deferred with a reason.                            *)
FindingsBlock(v) == v.blocking

(* missingRequiredArtifactsLocked.                                         *)
MissingArtifacts(names) == names \ files

(* validateCompletion with require_contract; the statuses the leader gives *)
(* must be the recorded ones.                                              *)
ValidateCompletion ==
    /\ contract # None /\ verdict # None /\ verdict.status \in {"pass", "waived"}
    /\ ~FindingsBlock(verdict)
    /\ verdict.status = "pass" => MissingEvidence(contract, verdict) = {}
    /\ MissingArtifacts(contract.artifacts) = {}

(* By the gate's own record, the contract is met: its last verdict passes, *)
(* and every required check is covered by an item whose last report, since *)
(* the gate changed its status, was a pass.                                *)
Backed ==
    /\ contract # None /\ record.passing
    /\ record.needs => \A k \in contract.required \ GateNamed :
                          \E i \in record.proven : k \in Covers[i]

(* CompleteTask validates under one hold of the lock ...                   *)
CompleteValidated(e) ==
    /\ pc[e] = "engine" /\ call[e] = "none" /\ AgentOf(e) = Leader
    /\ ValidateCompletion
    /\ call' = [call EXCEPT ![e] = "complete"]
    /\ vouched' = IF Backed THEN vouched \cup {e} ELSE vouched
    /\ UNCHANGED <<runVars, completed, contract, verdict, record, overtaken, engine, workspace, pc, ctx,
                   pol, changed, result, files, taskVars, restVars>>

(* The call is over, its history with it.                                  *)
Forget(e) ==
    /\ call' = [call EXCEPT ![e] = "none"]
    /\ vouched' = vouched \ {e} /\ overtaken' = overtaken \ {e}

(* ... exports the artifacts and marks the session complete under another, *)
(* whichever run is the session's by then and whatever its gates say.      *)
CompleteTask(e) ==
    /\ call[e] = "complete"
    /\ completed' = TRUE /\ Forget(e)
    /\ UNCHANGED <<runVars, contract, verdict, record, engine, workspace, pc, ctx, pol, changed, result,
                   files, taskVars, restVars>>

(* exportCompletionArtifacts fails: the leader is told, nothing is marked. *)
ExportFails(e) ==
    /\ call[e] = "complete" /\ Forget(e)
    /\ UNCHANGED <<runVars, completed, contract, verdict, record, engine, workspace, pc, ctx, pol, changed,
                   result, files, taskVars, restVars>>

(* Abort frees the session at once; loops and agents end on their own.     *)
AbortEffect ==
    /\ cancelled' = cancelled \cup ({canceller} \ {None})
    /\ busy' = FALSE
    /\ UNCHANGED <<cur, canceller, loop, gateVars, agentVars, taskVars, yolo, scene>>

Abort == scene.aborts /\ ~gone /\ canceller # None /\ AbortEffect /\ UNCHANGED gone

(* ReleaseParentFor: out of the manager's map, then Abort and Shutdown.    *)
ReleaseParent == scene.releases /\ ~gone /\ AbortEffect /\ gone' = TRUE

(* The process stops; RestoreRuntimeCheckpointsWithIdentity rebuilds the   *)
(* aggregate from the checkpoint every team event leaves in the journal:   *)
(* gates and contract come back, tasks, runs and the completion do not.    *)
Restart ==
    /\ scene.restarts /\ ~gone /\ \E r \in Loops : loop[r] \notin {"none", "over"}
    /\ busy' = FALSE /\ cur' = None /\ canceller' = None /\ cancelled' = {}
    /\ loop' = [r \in Loops |-> IF loop[r] = "none" THEN "none" ELSE "over"]
    /\ completed' = FALSE /\ yolo' = FALSE
    /\ engine' = [a \in Agents |-> None] /\ workspace' = None
    /\ pc' = [e \in Work |-> "none"] /\ call' = [e \in Work |-> "none"]
    /\ status' = [d \in Jobs |-> IF status[d] = "none" THEN "none" ELSE "forgotten"]
    /\ active' = [a \in Agents |-> None] /\ outer' = [d \in Jobs |-> "none"]
    /\ vouched' = {} /\ overtaken' = {}
    /\ UNCHANGED <<contract, verdict, record, ctx, pol, changed, result, files, to,
                   caller, awaits, expected, abandoned, gone, scene>>
-----------------------------------------------------------------------------
LoopStep(r) == \/ SubmitStart(r) \/ LoopStops(r) \/ LoopWaits(r) \/ LoopWaitEnds(r) \/ LoopIterates(r)
               \/ LoopTurnEnds(r) \/ LoopLeaves(r)
AgentStep(e) == TakeAgent(e) \/ QueueCancelled(e) \/ TakeWorkspace(e)
CallStep(d) == \/ TakeSlot(d) \/ StartJob(d) \/ JobReturns(d) \/ WaitGetsResult(d)
               \/ WaitTimesOut(d) \/ WaitInterrupted(d)
Decides(e) ==
    \/ \E f \in Files : Write(e, f)
    \/ RequestPermission(e) \/ ResolvePermission(e) \/ PermissionExpires(e)
    \/ \E text \in scene.texts : AgentEnds(e, text)
    \/ AgentPanics(e)
    \/ \E targets \in SUBSET Agents \ {{}}, wait \in scene.awaits, expect \in scene.expects :
         /\ pc[e] = "engine" /\ SendA2AMessage(e, targets, wait, expect)
    \/ \E c \in scene.contracts : RecordContract(e, c)
    \/ \E v \in scene.verdicts : SubmitGateVerdict(e, v)
    \/ CompleteValidated(e) \/ CompleteTask(e) \/ ExportFails(e)

Next ==
    \/ \E r \in Loops : SubmitAdmit(r) \/ LoopStep(r)
    \/ \E e \in Work : AgentStep(e) \/ SendReturns(e) \/ Decides(e)
    \/ \E d \in Jobs : CallStep(d)
    \/ Abort \/ ReleaseParent \/ Restart

(* What goes on by itself in an agent run: waits for locks, calls that are *)
(* over, the timer of a permission request ...                             *)
Proceeds(e) == AgentStep(e) \/ SendReturns(e) \/ CompleteTask(e) \/ ExportFails(e) \/ PermissionExpires(e)

(* ... and the end of a stream whose context is done, whatever tool it is  *)
(* calling.                                                                *)
Interrupted(e) == Done(e) /\ \E text \in scene.texts : AgentEnds(e, text)

(* Goroutines run and timers fire; no decision of an agent is assumed.     *)
Fairness ==
    /\ \A r \in Loops : WF_vars(LoopStep(r))
    /\ \A e \in Work : WF_vars(Proceeds(e)) /\ WF_vars(Interrupted(e))
    /\ \A d \in Jobs : WF_vars(CallStep(d))

Spec == Init /\ [][Next]_vars /\ Fairness
-----------------------------------------------------------------------------
TypeOK ==
    /\ scene \in Scenes
    /\ busy \in BOOLEAN /\ cur \in Loops \cup {None} /\ canceller \in Loops \cup {None}
    /\ cancelled \subseteq Loops
    /\ loop \in [Loops -> {"none", "admitted", "check", "waiting", "turn", "leaving", "over"}]
    /\ completed \in BOOLEAN /\ contract \in Contracts \cup {None} /\ verdict \in Verdicts \cup {None}
    /\ files \subseteq Files /\ yolo \in BOOLEAN /\ gone \in BOOLEAN
    /\ engine \in [Agents -> Work \cup {None}] /\ workspace \in Work \cup {None}
    /\ pc \in [Work -> {"none", "start", "queue", "workspace", "engine", "ask", "returned", "panicked",
                        "finished"}]
    /\ ctx \in [Work -> Loops \cup {None}] /\ pol \in [Work -> SUBSET Policies]
    /\ changed \in [Work -> SUBSET Files] /\ call \in [Work -> {"none", "send", "complete"}]
    /\ result \in [Work -> {"none", "ok", "error"}]
    /\ status \in [Jobs -> {"none", "running", "pending", "completed", "error", "interrupted", "forgotten"}]
    /\ active \in [Agents -> Jobs \cup {None}] /\ outer \in [Jobs -> {"none", "sem", "await", "back"}]
    /\ to \in [Jobs -> Agents] /\ caller \in [Jobs -> Work \cup {None}]
    /\ awaits \in [Jobs -> BOOLEAN] /\ expected \in [Work -> SUBSET Files]
    /\ record \in [passing : BOOLEAN, needs : BOOLEAN, proven : SUBSET Items]
    /\ vouched \subseteq Work /\ overtaken \subseteq Work /\ abandoned \subseteq Jobs

(* Every open A2A task has a goroutine that will finish it, unless that    *)
(* goroutine panicked: otherwise the loop waits for it for ever.           *)
Attended(d) == outer[d] = "sem" \/ pc[d] \in {"start", "queue", "workspace", "engine", "ask", "returned"}
TasksAttended == \A d \in Jobs : Open(d) => Attended(d) \/ d \in abandoned

(* A session is marked complete by a CompleteTask call that was validated  *)
(* when the gate's own record met the contract, whatever verdicts were     *)
(* merged, superseded or invalidated before (validateCompletion,           *)
(* mergeGateVerdict); and at the marking, under the second hold of the     *)
(* lock, the record still meets it, unless a verdict, an invalidation, a   *)
(* contract or, after an Abort, the next Submit came between the two.      *)
CompletionJustified ==
    [][\A e \in Work : CompleteTask(e) => e \in vouched /\ (Backed \/ e \in overtaken)]_vars

(* A SendA2AMessage call always returns, its timeout being a wait window.  *)
(* A behaviour has finitely many calls: in the end none is in flight.      *)
SendsReturn == <>[](\A e \in Work : call[e] # "send")

(* The Team Loop of a cancelled run ends, whatever its agents wait for.    *)
CancelledLoopsEnd == <>[](\A r \in cancelled : loop[r] \in {"none", "over"})
=============================================================================
