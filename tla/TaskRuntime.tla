---------------------------- MODULE TaskRuntime ----------------------------
(***************************************************************************)
(* AgentTaskRuntime (agent/task_runtime.go) with its callers: Agent tool   *)
(* calls that run concurrently (agent/agent_tool.go), worker goroutines,   *)
(* timers, one foreground sub-agent and the cleanup of its scope, one      *)
(* TaskWait of the main agent, and the engine's Reset.  Every action is    *)
(* one critical section of rt.mu.  What a worker computes is external.     *)
(***************************************************************************)
EXTENDS Integers, Sequences, FiniteSets

CONSTANTS Tasks,        \* ids of background workers
          Limit,        \* MaxBackgroundWorkersPerScope
          Uses          \* the ways a session uses the runtime, one per behaviour

Scopes == {"main", "fg"} \cup Tasks

ASSUME TaskRuntimeAssumption ==
    /\ {"main", "fg"} \cap Tasks = {} /\ IsFiniteSet(Tasks)
    /\ Limit \in Nat \ {0}
    /\ Uses \subseteq [imported : SUBSET Tasks,      \* restored by ImportSnapshot, once live
                      callers : SUBSET Scopes,      \* scopes whose agent calls Agent
                      waits : SUBSET SUBSET Tasks,  \* the lists of ids TaskWait is called with
                      sends : Nat,                  \* bound on SendMessage
                      resets : Nat]                 \* bound on Reset

VARIABLES status,     \* of each record; "unused", "calling" and "gone" are no record
          parent,     \* ParentScopeID
          reusable,   \* records with Reusable
          lease,      \* the session epoch a worker was admitted under
          specs,      \* keys of workerSpecs
          workers,    \* keys of workers, the cancel functions
          go,         \* where runWorker of each task is
          ctxDone,    \* workers whose context is cancelled
          detached,   \* workers whose context is not the session's
          count,      \* childCounts
          pend,       \* notifications of each task waiting in its parent's scope
          told,       \* tasks whose last outcome its parent has been shown
          idleTimer,  \* idle TTL goroutines that are still asleep
          idleFired,  \* those past their select
          cleanup,    \* recordCleanupCancels: no entry, armed, or spent
          wpc, wset, wreg, token, late, wpending,  \* TaskWait of the main agent
          dropped,    \* outcomes a cancelled TaskWait has consumed
          fgpc, frames,  \* the foreground sub-agent, and CleanupScope's stack
          epoch, rpc, refs,  \* the session epoch, and Reset
          sends,
          use         \* the way this session uses the runtime

recordVars == <<status, parent, reusable, lease>>
workerVars == <<specs, workers, go, ctxDone, detached>>
noticeVars == <<pend, told>>
timerVars == <<idleTimer, idleFired, cleanup>>
waitVars == <<wpc, wset, wreg, token, late, wpending, dropped>>
fgVars == <<fgpc, frames>>
resetVars == <<epoch, rpc, refs>>
boundVars == <<sends, use>>
vars == <<status, parent, reusable, lease, specs, workers, go, ctxDone, detached, count, pend, told,
          idleTimer, idleFired, cleanup, wpc, wset, wreg, token, late, wpending, dropped, fgpc,
          frames, epoch, rpc, refs, sends, use>>

Terminal == {"completed", "failed", "killed", "interrupted"}
Live == {"queued", "running", "idle"}
Outcomes == Terminal \cup {"idle"}
Present == {t \in Tasks : status[t] \in Live \cup Terminal}
Children(s) == {t \in Present : parent[t] = s}

(* isStableTask: what TaskWait waits for.                                  *)
Stable(t) == status[t] \in (IF t \in reusable THEN (Outcomes \ {"completed"}) ELSE Terminal)

(* enqueueLocked of a record whose status becomes st: the notification,    *)
(* and the wakeup of whoever waits for the task.                           *)
Enqueue(t, st) ==
    /\ status' = [status EXCEPT ![t] = st]
    /\ pend' = [pend EXCEPT ![t] = @ + 1]
    /\ told' = told \ {t}
    /\ token' = (token \/ t \in wreg)
    /\ wreg' = wreg \ {t}
    /\ dropped' = dropped \ {t}
    /\ UNCHANGED <<wpc, wset, late, wpending>>

(* scheduleTerminalRecordCleanupLocked.                                    *)
ScheduleCleanup(t) == cleanup' = [cleanup EXCEPT ![t] = IF @ = "none" THEN "armed" ELSE @]

(* unregisterRecordLocked and forgetTaskIdentityLocked.                    *)
Unregister(t) ==
    /\ status' = [status EXCEPT ![t] = "gone"]
    /\ cleanup' = [cleanup EXCEPT ![t] = "none"]
    /\ idleTimer' = idleTimer \ {t}
    /\ count' = [count EXCEPT ![parent[t]] = IF @ > 0 THEN @ - 1 ELSE 0]
-----------------------------------------------------------------------------
(* NewAgentTaskRuntime, then ImportSnapshot of what was live.              *)
Init ==
    /\ use \in Uses
    /\ status = [t \in Tasks |-> IF t \in use.imported THEN "interrupted" ELSE "unused"]
    /\ parent = [t \in Tasks |-> "main"] /\ reusable = {} /\ lease = [t \in Tasks |-> 0]
    /\ specs = {} /\ workers = {} /\ go = [t \in Tasks |-> "none"]
    /\ ctxDone = {} /\ detached = {}
    /\ count = [s \in Scopes |-> IF s = "main" THEN Cardinality(use.imported) ELSE 0]
    /\ pend = [t \in Tasks |-> IF t \in use.imported THEN 1 ELSE 0] /\ told = {}
    /\ idleTimer = {} /\ idleFired = {} /\ cleanup = [t \in Tasks |-> "none"]
    /\ wpc = "none" /\ wset = {} /\ wreg = {} /\ token = FALSE /\ late = FALSE
    /\ wpending = {} /\ dropped = {}
    /\ fgpc = "running" /\ frames = <<>>
    /\ epoch = 0 /\ rpc = "none" /\ refs = {} /\ sends = 0

(* The agent of scope s runs and its context is not done.                  *)
Alive(s) ==
    CASE s = "main" -> TRUE
      [] s = "fg" -> fgpc = "running"
      [] OTHER -> go[s] = "run" /\ s \notin ctxDone

(* AgentTool.Execute: the lease is the caller's, the limit is checked ...  *)
CallAgent(t, s, r) ==
    /\ status[t] = "unused" /\ s \in use.callers /\ s # t /\ Alive(s)
    /\ Cardinality({u \in Children(s) : status[u] \in Live}) < Limit
    /\ status' = [status EXCEPT ![t] = "calling"]
    /\ parent' = [parent EXCEPT ![t] = s]
    /\ reusable' = IF r THEN reusable \cup {t} ELSE reusable
    /\ \E e \in 0..epoch : /\ s \in Tasks => e = lease[s]
                           /\ lease' = [lease EXCEPT ![t] = e]
    /\ UNCHANGED <<workerVars, count, noticeVars, timerVars, waitVars, fgVars, resetVars, boundVars>>

(* Faulty variant: the caller's context and run are not looked at again.   *)
AdmittedLate(t) == lease[t] = epoch

(* Faulty variant: the session epoch is not compared.                      *)
AdmittedStale(t) == Alive(parent[t])

(* childAdmission.with and the check of ctx under rt.mu.                   *)
Admitted(t) == lease[t] = epoch /\ Alive(parent[t])

(* ... and admitRecord decides, after the session was locked.              *)
SpawnWorker(t) ==
    /\ status[t] = "calling" /\ Admitted(t)
    /\ status' = [status EXCEPT ![t] = "queued"]
    /\ count' = [count EXCEPT ![parent[t]] = @ + 1]
    /\ specs' = specs \cup {t} /\ workers' = workers \cup {t}
    /\ go' = [go EXCEPT ![t] = "start"]
    /\ UNCHANGED <<parent, reusable, lease, ctxDone, detached, noticeVars, timerVars, waitVars,
                   fgVars, resetVars, boundVars>>

SpawnRefused(t) ==
    /\ status[t] = "calling" /\ ~Admitted(t)
    /\ status' = [status EXCEPT ![t] = "unused"]
    /\ reusable' = reusable \ {t}
    /\ UNCHANGED <<parent, lease, workerVars, count, noticeVars, timerVars, waitVars, fgVars,
                   resetVars, boundVars>>

(* SendMessage by the agent of the parent scope; the new context is not    *)
(* derived from the session's.                                             *)
SendMessage(t) ==
    /\ sends < use.sends /\ Alive(parent[t])
    /\ t \in specs \cap reusable /\ status[t] = "idle"
    /\ sends' = sends + 1
    /\ status' = [status EXCEPT ![t] = "queued"]
    /\ idleTimer' = idleTimer \ {t}
    /\ workers' = workers \cup {t}
    /\ ctxDone' = ctxDone \ {t} /\ detached' = detached \cup {t}
    /\ go' = [go EXCEPT ![t] = "start"]
    /\ UNCHANGED <<parent, reusable, lease, specs, count, noticeVars, idleFired, cleanup, waitVars,
                   fgVars, resetVars, use>>

(* The part of StopTask that follows its early return.                     *)
Stop(t) ==
    /\ Enqueue(t, "killed")
    /\ idleTimer' = idleTimer \ {t}
    /\ ctxDone' = IF t \in workers THEN ctxDone \cup {t} ELSE ctxDone
    /\ specs' = specs \ {t}
    /\ ScheduleCleanup(t)
    /\ UNCHANGED <<parent, reusable, lease, workers, go, detached, count, idleFired>>

StopTask(t) ==
    /\ status[t] \in Live /\ Alive(parent[t])
    /\ Stop(t)
    /\ UNCHANGED <<fgVars, resetVars, boundVars>>
-----------------------------------------------------------------------------
(* runWorker.                                                              *)

Begin(t) ==
    /\ go[t] = "start"
    /\ IF t \in specs /\ status[t] = "queued"
       THEN /\ status' = [status EXCEPT ![t] = "running"]
            /\ go' = [go EXCEPT ![t] = "run"]
            /\ UNCHANGED workers
       ELSE /\ workers' = workers \ {t}
            /\ go' = [go EXCEPT ![t] = "none"]
            /\ UNCHANGED status
    /\ UNCHANGED <<parent, reusable, lease, specs, ctxDone, detached, count, noticeVars, timerVars,
                   waitVars, fgVars, resetVars, boundVars>>

(* ExecuteOneRequest has returned r; the first critical section after it.  *)
Settle(t, r) ==
    /\ go[t] = "run"
    /\ r = "interrupted" => t \in ctxDone
    /\ IF status[t] \notin {"killed", "gone"}
       THEN /\ go' = [go EXCEPT ![t] = IF r = "completed" /\ t \in reusable THEN "idle" ELSE r]
            /\ workers' = workers \ {t}
            /\ specs' = IF t \in reusable /\ r = "completed" THEN specs \cup {t} ELSE specs \ {t}
       ELSE /\ go' = [go EXCEPT ![t] = "none"]
            /\ workers' = IF status[t] = "gone" THEN workers ELSE workers \ {t}
            /\ specs' = IF status[t] = "gone" THEN specs ELSE specs \ {t}
    /\ UNCHANGED <<recordVars, ctxDone, detached, count, noticeVars, timerVars, waitVars, fgVars,
                   resetVars, boundVars>>

(* finish: the second critical section.                                    *)
Finish(t) ==
    /\ go[t] \in Terminal /\ go' = [go EXCEPT ![t] = "none"]
    /\ IF status[t] \in {"killed", "interrupted", "gone"}
       THEN UNCHANGED <<status, noticeVars, waitVars, cleanup>>
       ELSE Enqueue(t, go[t]) /\ ScheduleCleanup(t)
    /\ UNCHANGED <<parent, reusable, lease, specs, workers, ctxDone, detached, count, idleTimer,
                   idleFired, fgVars, resetVars, boundVars>>

(* finishReusableIdle.                                                     *)
FinishReusableIdle(t) ==
    /\ go[t] = "idle" /\ go' = [go EXCEPT ![t] = "none"]
    /\ IF status[t] \in {"killed", "interrupted", "gone"}
       THEN UNCHANGED <<status, noticeVars, waitVars, idleTimer>>
       ELSE Enqueue(t, "idle") /\ idleTimer' = idleTimer \cup {t}
    /\ UNCHANGED <<parent, reusable, lease, specs, workers, ctxDone, detached, count, idleFired,
                   cleanup, fgVars, resetVars, boundVars>>

(* scheduleIdleTTLLocked: the timer fires, and later its goroutine gets    *)
(* the lock; in between the worker may have been used again.               *)
IdleTimerFires(t) ==
    /\ t \in idleTimer
    /\ idleTimer' = idleTimer \ {t} /\ idleFired' = idleFired \cup {t}
    /\ UNCHANGED <<recordVars, workerVars, count, noticeVars, cleanup, waitVars, fgVars, resetVars,
                   boundVars>>

ExpireIdle(t) ==
    /\ t \in idleFired /\ idleFired' = idleFired \ {t}
    /\ IF status[t] = "idle"
       THEN /\ Enqueue(t, "completed") /\ ScheduleCleanup(t)
            /\ workers' = workers \ {t} /\ specs' = specs \ {t}
       ELSE UNCHANGED <<status, noticeVars, waitVars, cleanup, workers, specs>>
    /\ UNCHANGED <<parent, reusable, lease, go, ctxDone, detached, count, idleTimer, fgVars,
                   resetVars, boundVars>>

(* discardTerminalRecordLocked, run by the cleanup timer: a record with    *)
(* children stays, and nothing arms the timer again.                       *)
DiscardTerminalRecord(t) ==
    /\ cleanup[t] = "armed"
    /\ IF status[t] \in Terminal /\ count[t] > 0
       THEN /\ cleanup' = [cleanup EXCEPT ![t] = "spent"]
            /\ UNCHANGED <<status, idleTimer, count, workers, specs>>
       ELSE /\ Unregister(t)
            /\ workers' = workers \ {t} /\ specs' = specs \ {t}
    /\ UNCHANGED <<parent, reusable, lease, go, ctxDone, detached, noticeVars, idleFired, waitVars,
                   fgVars, resetVars, boundVars>>

(* DrainPendingNotifications(s), at the start of a turn of its agent.      *)
DrainPendingNotifications(s) ==
    /\ Alive(s) /\ \E t \in Tasks : parent[t] = s /\ pend[t] > 0
    /\ told' = told \cup {t \in Tasks : parent[t] = s /\ pend[t] > 0}
    /\ pend' = [t \in Tasks |-> IF parent[t] = s THEN 0 ELSE pend[t]]
    /\ UNCHANGED <<recordVars, workerVars, count, timerVars, waitVars, fgVars, resetVars, boundVars>>
-----------------------------------------------------------------------------
(* WaitForTasks, called by the main agent with the ids W.                  *)
WaitForTasks(W) ==
    /\ wpc = "none" /\ W # {}
    /\ wpc' = "consume" /\ wset' = W /\ late' = FALSE
    /\ UNCHANGED <<recordVars, workerVars, count, noticeVars, timerVars, wreg, token, wpending,
                   dropped, fgVars, resetVars, boundVars>>

(* consumeMatchingNotificationsLocked(main, wset).                         *)
Consumed == [t \in Tasks |-> IF t \in wset /\ parent[t] = "main" THEN 0 ELSE pend[t]]

ConsumeMatchingNotifications ==
    /\ wpc = "consume" /\ wpc' = "snapshot" /\ pend' = Consumed
    /\ UNCHANGED <<recordVars, workerVars, count, told, timerVars, wset, wreg, token, late,
                   wpending, dropped, fgVars, resetVars, boundVars>>

(* Faulty variant: the notifications are consumed after the snapshot.      *)
SnapshotThenConsume ==
    LET found == wset \cap Children("main")
        pending == {t \in found : ~Stable(t)}
    IN /\ wpc \in {"consume", "snapshot"}
       /\ wpending' = pending
       /\ IF wpc = "consume"
          THEN /\ wpc' = "snapshot" /\ UNCHANGED <<wreg, token, pend>>
               /\ told' = IF found # wset \/ pending = {} \/ late
                          THEN told \cup {t \in found : status[t] \in Outcomes} ELSE told
          ELSE /\ wpc' = (IF found # wset \/ pending = {} \/ late THEN "none" ELSE "register")
               /\ pend' = Consumed /\ UNCHANGED <<wreg, token, told>>
       /\ UNCHANGED <<recordVars, workerVars, count, timerVars, wset, late, dropped, fgVars,
                      resetVars, boundVars>>

(* The snapshot, and the decision to return it: something is missing,      *)
(* everything is stable, or the deadline has passed.                       *)
Snapshot ==
    LET found == wset \cap Children("main")
        pending == {t \in found : ~Stable(t)}
    IN /\ wpc = "snapshot"
       /\ wpending' = pending
       /\ IF found # wset \/ pending = {} \/ late
          THEN /\ wpc' = "none" /\ wreg' = {} /\ token' = FALSE
               /\ told' = told \cup {t \in found : status[t] \in Outcomes}
          ELSE wpc' = "register" /\ UNCHANGED <<wreg, token, told>>
       /\ UNCHANGED <<recordVars, workerVars, count, pend, timerVars, wset, late, dropped, fgVars,
                      resetVars, boundVars>>

RegisterWaiter ==
    /\ wpc = "register" /\ wpc' = "select" /\ wreg' = wset /\ token' = FALSE
    /\ UNCHANGED <<recordVars, workerVars, count, noticeVars, timerVars, wset, late, wpending,
                   dropped, fgVars, resetVars, boundVars>>

DeadlinePasses ==
    /\ wpc # "none" /\ ~late /\ late' = TRUE
    /\ UNCHANGED <<recordVars, workerVars, count, noticeVars, timerVars, wpc, wset, wreg, token,
                   wpending, dropped, fgVars, resetVars, boundVars>>

Woken ==
    /\ wpc = "select" /\ (token \/ late)
    /\ wpc' = "consume" /\ token' = FALSE
    /\ UNCHANGED <<recordVars, workerVars, count, noticeVars, timerVars, wset, wreg, late, wpending,
                   dropped, fgVars, resetVars, boundVars>>

(* The caller's context is done: the notifications are consumed and the    *)
(* old snapshot is returned.                                               *)
WaitCancelled ==
    /\ wpc = "select" /\ wpc' = "none"
    /\ pend' = Consumed
    /\ dropped' = dropped \cup {t \in wset : status[t] \in Outcomes /\ t \notin told}
    /\ wreg' = {} /\ token' = FALSE
    /\ UNCHANGED <<recordVars, workerVars, count, told, timerVars, wset, late, wpending, fgVars,
                   resetVars, boundVars>>
-----------------------------------------------------------------------------
(* The foreground sub-agent returns: Complete- or FailForegroundTask, then *)
(* CleanupScope of its scope, a stack of scopes with the children listed   *)
(* and not yet handled.                                                    *)
ForegroundReturns ==
    /\ fgpc = "running" /\ "fg" \in use.callers
    /\ fgpc' = "cleanup" /\ frames' = <<[scope |-> "fg", todo |-> {}, cur |-> {}]>>
    /\ UNCHANGED <<recordVars, workerVars, count, noticeVars, timerVars, waitVars, resetVars, boundVars>>

CleanupList ==
    /\ frames # <<>> /\ Head(frames).todo = {} /\ Head(frames).cur = {}
    /\ LET s == Head(frames).scope
       IN IF Children(s) # {}
          THEN frames' = <<[scope |-> s, todo |-> Children(s), cur |-> {}]>> \o Tail(frames)
               /\ UNCHANGED <<fgpc, pend>>
          ELSE /\ frames' = Tail(frames)
               /\ pend' = [t \in Tasks |-> IF parent[t] = s THEN 0 ELSE pend[t]]
               /\ fgpc' = IF Tail(frames) = <<>> THEN "done" ELSE fgpc
    /\ UNCHANGED <<recordVars, workerVars, count, told, timerVars, waitVars, resetVars, boundVars>>

(* A listed child is stopped, then its own scope is cleaned up ...         *)
CleanupChild(t) ==
    /\ frames # <<>> /\ t \in Head(frames).todo /\ Head(frames).cur = {}
    /\ frames' = <<[scope |-> t, todo |-> {}, cur |-> {}]>>
                 \o <<[Head(frames) EXCEPT !.todo = @ \ {t}, !.cur = {t}]>> \o Tail(frames)
    /\ IF status[t] \in Live THEN Stop(t)
       ELSE UNCHANGED <<recordVars, workerVars, count, noticeVars, timerVars, waitVars>>
    /\ UNCHANGED <<fgpc, resetVars, boundVars>>

(* ... and then it is removed.                                             *)
CleanupRemove(t) ==
    /\ frames # <<>> /\ t \in Head(frames).cur
    /\ frames' = <<[Head(frames) EXCEPT !.cur = {}]>> \o Tail(frames)
    /\ ctxDone' = IF t \in workers THEN ctxDone \cup {t} ELSE ctxDone
    /\ workers' = workers \ {t} /\ specs' = specs \ {t}
    /\ IF t \in Present THEN Unregister(t) ELSE UNCHANGED <<status, cleanup, idleTimer, count>>
    /\ UNCHANGED <<parent, reusable, lease, go, detached, noticeVars, idleFired, waitVars, fgpc,
                   resetVars, boundVars>>
-----------------------------------------------------------------------------
(* CoreExecutionEngine.Reset: SessionRuntime.Reset ends the old lifetime,  *)
(* then Shutdown lists the live records and stops them one by one.         *)
ResetSession ==
    /\ rpc = "none" /\ epoch < use.resets
    /\ epoch' = epoch + 1 /\ rpc' = "list"
    /\ ctxDone' = ctxDone \cup {t \in Tasks : go[t] # "none" /\ t \notin detached}
    /\ UNCHANGED <<recordVars, specs, workers, go, detached, count, noticeVars, timerVars, waitVars,
                   fgVars, refs, boundVars>>

ShutdownList ==
    /\ rpc = "list" /\ rpc' = "stop"
    /\ refs' = {t \in Tasks : status[t] \in Live}
    /\ UNCHANGED <<recordVars, workerVars, count, noticeVars, timerVars, waitVars, fgVars, epoch,
                   boundVars>>

ShutdownStop(t) ==
    /\ rpc = "stop" /\ t \in refs /\ refs' = refs \ {t}
    /\ IF status[t] \in Live THEN Stop(t)
       ELSE UNCHANGED <<recordVars, workerVars, count, noticeVars, timerVars, waitVars>>
    /\ UNCHANGED <<fgVars, epoch, rpc, boundVars>>

ShutdownTimers ==
    /\ rpc = "stop" /\ refs = {} /\ rpc' = "none"
    /\ cleanup' = [t \in Tasks |-> "none"] /\ idleTimer' = {}
    /\ UNCHANGED <<recordVars, workerVars, count, noticeVars, idleFired, waitVars, fgVars, epoch,
                   refs, boundVars>>
-----------------------------------------------------------------------------
Worker(t) ==
    \/ Begin(t) \/ Finish(t) \/ FinishReusableIdle(t)
    \/ \E r \in {"completed", "failed", "interrupted"} : Settle(t, r)

Timers(t) == IdleTimerFires(t) \/ ExpireIdle(t) \/ DiscardTerminalRecord(t)

Wait == ConsumeMatchingNotifications \/ Snapshot \/ RegisterWaiter \/ DeadlinePasses \/ Woken

Next ==
    \/ \E t \in Tasks : \E s \in Scopes, r \in BOOLEAN : CallAgent(t, s, r)
    \/ \E t \in Tasks : \/ SpawnWorker(t) \/ SpawnRefused(t) \/ SendMessage(t) \/ StopTask(t)
                        \/ Worker(t) \/ Timers(t)
                        \/ CleanupChild(t) \/ CleanupRemove(t) \/ ShutdownStop(t)
    \/ \E s \in Scopes : DrainPendingNotifications(s)
    \/ \E W \in use.waits : WaitForTasks(W)
    \/ Wait \/ WaitCancelled
    \/ ForegroundReturns \/ CleanupList
    \/ ResetSession \/ ShutdownList \/ ShutdownTimers

Spec == Init /\ [][Next]_vars
-----------------------------------------------------------------------------
Statuses == {"unused", "calling", "gone"} \cup Live \cup Terminal

TypeOK ==
    /\ status \in [Tasks -> Statuses] /\ parent \in [Tasks -> Scopes]
    /\ reusable \subseteq Tasks /\ lease \in [Tasks -> 0..use.resets]
    /\ specs \subseteq Present /\ workers \subseteq Tasks
    /\ go \in [Tasks -> {"none", "start", "run", "idle"} \cup Terminal]
    /\ ctxDone \subseteq Tasks /\ detached \subseteq Tasks
    /\ count \in [Scopes -> Nat] /\ pend \in [Tasks -> Nat] /\ told \subseteq Tasks
    /\ idleTimer \subseteq Tasks /\ idleFired \subseteq Tasks
    /\ cleanup \in [Tasks -> {"none", "armed", "spent"}]
    /\ wpc \in {"none", "consume", "snapshot", "register", "select"}
    /\ wset \subseteq Tasks /\ wreg \subseteq Tasks /\ wpending \subseteq Tasks
    /\ token \in BOOLEAN /\ late \in BOOLEAN /\ dropped \subseteq Tasks
    /\ fgpc \in {"running", "cleanup", "done"}
    /\ epoch \in 0..use.resets /\ rpc \in {"none", "list", "stop"} /\ refs \subseteq Tasks
    /\ sends \in 0..use.sends /\ use \in Uses

(* No record outlives its parent: what CleanupScope and the cleanup timers *)
(* remove has no descendants, whatever its workers were about to spawn.    *)
NoOrphans ==
    \A t \in Present : /\ parent[t] \in Tasks => parent[t] \in Present
                       /\ parent[t] = "fg" => fgpc # "done"

(* agent/loop.go:342, "Retire child publishers before writing the reset    *)
(* event": once Reset has shut the tasks down, no worker of an earlier     *)
(* session epoch is live, nor can one be spawned or reused.                *)
ResetRetiresTasks ==
    rpc = "none" => \A t \in Present : lease[t] < epoch => status[t] \in Terminal

(* A worker's outcome is shown to the main agent, is still queued for it,  *)
(* or is about to be returned by its TaskWait.  (A TaskWait whose context  *)
(* is done drops what it consumed.)                                        *)
OutcomeReachesParent ==
    \A t \in Children("main") :
        status[t] \in Outcomes /\ t \notin told \cup dropped
            => pend[t] > 0 \/ (wpc # "none" /\ t \in wset)

=============================================================================
