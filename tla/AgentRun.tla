------------------------------ MODULE AgentRun ------------------------------
(***************************************************************************)
(* The live run of one agent: agent/run_state.go and the run-owning half   *)
(* of agent/runtime_state.go.  AgentRuntime.mu makes every method one      *)
(* step; what happens outside the mutex (cancelling a context, the         *)
(* context.AfterFunc callback, a goroutine blocked in AwaitPermission) is  *)
(* a step of its own.  The modelled runtime is the session's main agent,   *)
(* whose sessionContext is nil.                                            *)
(***************************************************************************)
EXTENDS Naturals, FiniteSets

CONSTANTS Runs,      \* run identifiers (uuid.NewString never repeats one)
          Tickets,   \* permission request identifiers, fresh likewise
          NoRun,     \* the empty run identifier of idleRun
          MaxGen,    \* bound on the generations Reset and Restore create
          MaxWork    \* bound on the runs begun and requests made, together

ASSUME AgentRunAssumption == NoRun \notin Runs /\ MaxGen \in Nat /\ MaxWork \in Nat

VARIABLES gen,          \* snapshot.Generation
          runId,        \* run.ID
          runGen,       \* run.Generation
          phase,        \* run.Phase
          activity,     \* run.Activity
          error,        \* run.Error: "none" when empty, else "error"
          reason,       \* run.CancelReason
          pending,      \* keys of run.Pending
          events,       \* tickets with an entry in run.PermissionEvents
          tokGen,       \* generation of the token handed to each run
          ctx,          \* the context of each run
          hook,         \* its context.AfterFunc registration
          cancelCalls,  \* runs whose CancelFunc is about to be called
          resetting,    \* a Reset is between its Abort and its Lock
          answer,       \* the one-slot answer channel of each ticket
          wait,         \* where AwaitPermission of each ticket is
          ticketRun,    \* the run a ticket was issued to
          aborted,      \* history: runs that were current during an Abort
          slipped       \* history: runs begun between a Reset's Abort and its Lock,
                        \* unless that Reset failed and left them alone

runVars == <<runId, runGen, phase, activity, error, reason>>
ticketVars == <<pending, events, answer, wait, ticketRun>>
ctxVars == <<tokGen, ctx, hook, cancelCalls>>
vars == <<gen, runId, runGen, phase, activity, error, reason, pending, events, answer, wait,
          ticketRun, tokGen, ctx, hook, cancelCalls, resetting, aborted, slipped>>

ActivityPhases == {"preparing", "calling_model", "executing_tools", "recovering"}
ActivePhases == ActivityPhases \cup {"waiting_permission", "cancelling"}
TerminalPhases == {"completed", "failed", "cancelled"}
Phases == ActivePhases \cup TerminalPhases \cup {"idle"}

CanTransitionAgentPhase(from, to) ==
    \/ from = to /\ from \in ActivePhases
    \/ from \in TerminalPhases \cup {"idle"} /\ to = "preparing"
    \/ from = "cancelling" /\ to = "cancelled"
    \/ /\ from \in ActivePhases \ {"cancelling"}
       /\ to \in {"cancelling", "failed", "completed"}
       /\ ~(from = "waiting_permission" /\ to = "completed")
    \/ from = "waiting_permission" /\ to \in ActivityPhases
    \/ from \in ActivityPhases /\ to \in ActivityPhases \cup {"waiting_permission"}

RunMatches(r) == r # NoRun /\ r = runId /\ tokGen[r] = runGen /\ tokGen[r] = gen
RunActive(r) == RunMatches(r) /\ phase \in ActivePhases
(* Where the code asks for the context as well (withRun, AwaitPermission,  *)
(* BeginPermission) the action does.                                       *)
RunLive(r) == RunActive(r) /\ phase # "cancelling"

(* refreshRunPhaseLocked, given the activity and the waits after the step. *)
RefreshPhase(act, waits) ==
    IF phase = "cancelling" \/ phase \in TerminalPhases THEN phase
    ELSE IF waits = {} THEN act ELSE "waiting_permission"

(* A done context starts the registered AfterFunc callback.                *)
Done(r) ==
    /\ ctx' = [ctx EXCEPT ![r] = "done"]
    /\ hook' = [hook EXCEPT ![r] = IF @ = "armed" THEN "started" ELSE @]

(* Faulty variant: the waiters are forgotten without an answer.            *)
CancelWaitersSilent ==
    /\ pending' = {}
    /\ events' = {}
    /\ UNCHANGED answer

(* cancelWaitersLocked: every pending request is denied and forgotten.     *)
CancelWaiters ==
    /\ answer' = [t \in Tickets |->
                    IF t \in pending /\ answer[t] = "empty" THEN "deny" ELSE answer[t]]
    /\ pending' = {}
    /\ events' = {}

(* Faulty variant: the token is not compared with the current run.         *)
CancelRunUnchecked(r, why) ==
    /\ phase' = "cancelling"
    /\ reason' = why
    /\ cancelCalls' = cancelCalls \cup {r}
    /\ CancelWaiters

(* Faulty variant: an abort of a run already cancelled leaves no trace.    *)
CancelRunForgets(r, why) ==
    IF RunLive(r)
    THEN CancelRunUnchecked(r, why)
    ELSE UNCHANGED <<phase, reason, cancelCalls, answer, pending, events>>

(* cancelRunLocked: the first request to stop wins; a user abort of a run  *)
(* already cancelled is still recorded as its reason.                      *)
CancelRunLocked(r, why) ==
    IF RunLive(r)
    THEN /\ phase' = "cancelling"
         /\ reason' = why
         /\ cancelCalls' = cancelCalls \cup {r}
         /\ CancelWaiters
    ELSE /\ reason' = IF RunMatches(r) /\ phase \in {"cancelled", "cancelling"} /\ why = "user"
                      THEN why ELSE reason
         /\ UNCHANGED <<phase, cancelCalls, answer, pending, events>>
-----------------------------------------------------------------------------
Init ==
    /\ gen = 0 /\ runId = NoRun /\ runGen = 0
    /\ phase = "idle" /\ activity = "idle" /\ error = "none" /\ reason = "none"
    /\ pending = {} /\ events = {}
    /\ tokGen = [r \in Runs |-> 0]
    /\ ctx = [r \in Runs |-> "unborn"]
    /\ hook = [r \in Runs |-> "none"]
    /\ cancelCalls = {} /\ resetting = "no" /\ aborted = {} /\ slipped = {}
    /\ answer = [t \in Tickets |-> "empty"]
    /\ wait = [t \in Tickets |-> "none"]
    /\ ticketRun = [t \in Tickets |-> NoRun]

Work == Cardinality({r \in Runs : ctx[r] # "unborn"})
        + Cardinality({t \in Tickets : wait[t] # "none"})

(* beginRunLocked: refused while a run is active.                          *)
BeginRunLocked(r) ==
    /\ ctx[r] = "unborn" /\ Work < MaxWork
    /\ phase \notin ActivePhases
    /\ runId' = r /\ runGen' = gen
    /\ phase' = "preparing" /\ activity' = "preparing"
    /\ error' = "none" /\ reason' = "none"
    /\ pending' = {} /\ events' = {}
    /\ tokGen' = [tokGen EXCEPT ![r] = gen]
    /\ ctx' = [ctx EXCEPT ![r] = "live"]
    /\ hook' = [hook EXCEPT ![r] = "armed"]
    /\ slipped' = IF resetting = "aborted" THEN slipped \cup {r} ELSE slipped
    /\ UNCHANGED <<gen, cancelCalls, resetting, answer, wait, ticketRun, aborted>>

Begin(r) == BeginRunLocked(r)

(* The timeout finalizer of a sub-agent, called only for a result with     *)
(* TimedOut, that is after a run whose context had expired when it ended.  *)
BeginRecoveryRun(previous, r) ==
    /\ phase = "cancelled"
    /\ RunMatches(previous)
    /\ reason # "user"
    /\ BeginRunLocked(r)

(* The caller's context ends: deadline, disconnect, submit cancelled.      *)
ParentCancel(r) ==
    /\ ctx[r] = "live"
    /\ Done(r)
    /\ UNCHANGED <<gen, runVars, ticketVars, tokGen, cancelCalls, resetting, aborted, slipped>>

(* The AfterFunc callback: cancelRun(token, ctx.Err()).                    *)
CancellationHook(r) ==
    /\ hook[r] = "started"
    /\ hook' = [hook EXCEPT ![r] = "ran"]
    /\ CancelRunLocked(r, "ctx")
    /\ UNCHANGED <<gen, runId, runGen, activity, error, wait, ticketRun, tokGen, ctx,
                   resetting, aborted, slipped>>

(* The CancelFunc returned by cancelRunLocked or taken by EndRun, called   *)
(* after the mutex is released; EndRun stops the callback first.           *)
CallCancel(r) ==
    /\ r \in cancelCalls
    /\ cancelCalls' = cancelCalls \ {r}
    /\ Done(r)
    /\ UNCHANGED <<gen, runVars, ticketVars, tokGen, resetting, aborted, slipped>>

Abort ==
    /\ runId # NoRun
    /\ CancelRunLocked(runId, "user")
    /\ aborted' = aborted \cup {runId}
    /\ UNCHANGED <<gen, runId, runGen, activity, error, wait, ticketRun, tokGen, ctx, hook,
                   resetting, slipped>>

Transition(r, to) ==
    /\ RunLive(r)
    /\ to \in ActivityPhases /\ CanTransitionAgentPhase(activity, to)
    /\ activity' = to
    /\ phase' = RefreshPhase(to, pending)
    /\ UNCHANGED <<gen, runId, runGen, error, reason, ticketVars, ctxVars, resetting,
                   aborted, slipped>>

(* StartRecovery, and the accepted cases of TryRecovery and                *)
(* HandleOutputTruncation: all move the activity to recovering.            *)
StartRecovery(r) ==
    /\ RunLive(r)
    /\ activity' = "recovering"
    /\ phase' = RefreshPhase("recovering", pending)
    /\ UNCHANGED <<gen, runId, runGen, error, reason, ticketVars, ctxVars, resetting,
                   aborted, slipped>>

FailRun(r) ==
    /\ RunLive(r)
    /\ error' = "error"
    /\ UNCHANGED <<gen, runId, runGen, phase, activity, reason, ticketVars, ctxVars, resetting,
                   aborted, slipped>>

(* EndRun: one outcome per run.  stopCancellation, which the code calls    *)
(* after Unlock, is part of this step: a callback it is too late to stop   *)
(* is already started and no longer matches.  Cancel is a later step.      *)
EndRun(r) ==
    /\ RunActive(r)
    /\ LET over == phase = "cancelling" \/ ctx[r] = "done"
       IN /\ phase' = IF over THEN "cancelled"
                      ELSE IF error # "none" \/ pending # {} THEN "failed" ELSE "completed"
          /\ reason' = IF over /\ reason = "none" THEN "ctx" ELSE reason
          /\ error' = IF ~over /\ pending # {} THEN "error" ELSE error
    /\ CancelWaiters
    /\ hook' = [hook EXCEPT ![r] = IF @ = "armed" THEN "stopped" ELSE @]
    /\ cancelCalls' = cancelCalls \cup {r}
    /\ UNCHANGED <<gen, runId, runGen, activity, wait, ticketRun, tokGen, ctx, resetting,
                   aborted, slipped>>

BeginPermission(r, t, queued) ==
    /\ wait[t] = "none" /\ Work < MaxWork
    /\ RunLive(r) /\ ctx[r] = "live"
    /\ pending' = pending \cup {t}
    /\ phase' = RefreshPhase(activity, pending')
    /\ events' = IF queued THEN events \cup {t} ELSE events
    /\ wait' = [wait EXCEPT ![t] = "waiting"]
    /\ ticketRun' = [ticketRun EXCEPT ![t] = r]
    /\ UNCHANGED <<gen, runId, runGen, activity, error, reason, ctxVars, resetting, answer,
                   aborted, slipped>>

(* AwaitPermission, first select case: the answer is taken from the        *)
(* channel, then checked against the run under the read lock.              *)
AwaitAnswer(t) ==
    /\ wait[t] = "waiting" /\ answer[t] # "empty"
    /\ wait' = [wait EXCEPT ![t] = "checking"]
    /\ UNCHANGED <<gen, runVars, pending, events, answer, ticketRun, ctxVars, resetting,
                   aborted, slipped>>

AwaitCheck(t) ==
    /\ wait[t] = "checking"
    /\ LET r == ticketRun[t]
           valid == RunLive(r) /\ ctx[r] # "done"
       IN wait' = [wait EXCEPT ![t] = IF valid /\ answer[t] = "grant"
                                      THEN "granting" ELSE "denying"]
    /\ UNCHANGED <<gen, runVars, pending, events, answer, ticketRun, ctxVars, resetting,
                   aborted, slipped>>

(* Second select case: the context of the wait is done.                    *)
AwaitCancelled(t) ==
    /\ wait[t] = "waiting" /\ ctx[ticketRun[t]] = "done"
    /\ wait' = [wait EXCEPT ![t] = "denying"]
    /\ UNCHANGED <<gen, runVars, pending, events, answer, ticketRun, ctxVars, resetting,
                   aborted, slipped>>

(* The deferred cancelPermission, after which AwaitPermission returns.     *)
CancelPermission(t) ==
    /\ wait[t] \in {"granting", "denying"}
    /\ wait' = [wait EXCEPT ![t] = IF @ = "granting" THEN "granted" ELSE "denied"]
    /\ IF RunMatches(ticketRun[t])
       THEN /\ pending' = pending \ {t}
            /\ events' = events \ {t}
            /\ phase' = RefreshPhase(activity, pending')
       ELSE UNCHANGED <<pending, events, phase>>
    /\ UNCHANGED <<gen, runId, runGen, activity, error, reason, answer, ticketRun, ctxVars,
                   resetting, aborted, slipped>>

(* selected.answer <- answer is a send on a one-slot channel with the      *)
(* mutex held: it goes through only when the slot is free.                 *)
ResolveRunPermission(t, decision) ==
    /\ phase \in ActivePhases \ {"cancelling"}
    /\ ctx[runId] # "done"
    /\ t \in pending
    /\ answer[t] = "empty"
    /\ answer' = [answer EXCEPT ![t] = decision]
    /\ pending' = pending \ {t}
    /\ phase' = RefreshPhase(activity, pending')
    /\ UNCHANGED <<gen, runId, runGen, activity, error, reason, events, wait, ticketRun, ctxVars,
                   resetting, aborted, slipped>>

DrainPermissionEvents(r) ==
    /\ RunActive(r) /\ events # {}
    /\ events' = {}
    /\ UNCHANGED <<gen, runVars, pending, answer, wait, ticketRun, ctxVars, resetting,
                   aborted, slipped>>

(* Reset: r.Abort(), then a second critical section.                       *)
ResetAbort ==
    /\ resetting = "no" /\ gen < MaxGen
    /\ resetting' = "aborted"
    /\ CancelRunLocked(runId, "user")
    /\ aborted' = aborted \cup ({runId} \ {NoRun})
    /\ UNCHANGED <<gen, runId, runGen, activity, error, wait, ticketRun, tokGen, ctx,
                   hook, slipped>>

IdleRun(g) ==
    /\ gen' = g /\ runGen' = g /\ runId' = NoRun
    /\ phase' = "idle" /\ activity' = "idle" /\ error' = "none" /\ reason' = "none"
    /\ pending' = {} /\ events' = {}

ResetPublish ==
    /\ resetting = "aborted"
    /\ resetting' = "no"
    /\ IdleRun(gen + 1)
    /\ hook' = [r \in Runs |-> IF r = runId /\ hook[r] = "armed" THEN "stopped" ELSE hook[r]]
    /\ UNCHANGED <<answer, wait, ticketRun, tokGen, ctx, cancelCalls, aborted, slipped>>

(* persistLocked failed: Reset returns the error, the aborted run stays.   *)
ResetFails ==
    /\ resetting = "aborted"
    /\ resetting' = "no"
    /\ slipped' = slipped \ {runId}
    /\ UNCHANGED <<gen, runVars, ticketVars, ctxVars, aborted>>

(* Restore with a checkpoint of generation g, at least one step ahead.     *)
Restore ==
    /\ phase \notin ActivePhases /\ gen < MaxGen
    /\ IdleRun(gen + 1)
    /\ UNCHANGED <<answer, wait, ticketRun, ctxVars, resetting, aborted, slipped>>
-----------------------------------------------------------------------------
RunStep(r) ==
    \/ Begin(r) \/ ParentCancel(r) \/ CancellationHook(r) \/ CallCancel(r)
    \/ StartRecovery(r) \/ FailRun(r) \/ EndRun(r) \/ DrainPermissionEvents(r)
    \/ \E previous \in Runs : BeginRecoveryRun(previous, r)
    \/ \E to \in ActivityPhases : Transition(r, to)

TicketStep(t) ==
    \/ AwaitAnswer(t) \/ AwaitCheck(t) \/ AwaitCancelled(t) \/ CancelPermission(t)
    \/ \E decision \in {"grant", "deny"} : ResolveRunPermission(t, decision)
    \/ \E r \in Runs, queued \in BOOLEAN : BeginPermission(r, t, queued)

Next ==
    \/ \E r \in Runs : RunStep(r)
    \/ \E t \in Tickets : TicketStep(t)
    \/ Abort \/ ResetAbort \/ ResetPublish \/ ResetFails \/ Restore

Spec == Init /\ [][Next]_vars

-----------------------------------------------------------------------------
TypeOK ==
    /\ gen \in Nat /\ runGen \in Nat /\ tokGen \in [Runs -> Nat]
    /\ runId \in Runs \cup {NoRun}
    /\ phase \in Phases /\ activity \in ActivityPhases \cup {"idle"}
    /\ error \in {"none", "error"} /\ resetting \in {"no", "aborted"}
    /\ reason \in {"none", "user", "ctx"}
    /\ pending \subseteq Tickets /\ events \subseteq Tickets
    /\ ctx \in [Runs -> {"unborn", "live", "done"}]
    /\ hook \in [Runs -> {"none", "armed", "started", "ran", "stopped"}]
    /\ cancelCalls \subseteq Runs /\ aborted \subseteq Runs /\ slipped \subseteq Runs
    /\ answer \in [Tickets -> {"empty", "grant", "deny"}]
    /\ wait \in [Tickets -> {"none", "waiting", "checking", "granting", "denying",
                             "granted", "denied"}]
    /\ ticketRun \in [Tickets -> Runs \cup {NoRun}]

(* The published phase is waiting_permission exactly while a request is    *)
(* unresolved, and a cancelled, ended or discarded run has no request left *)
(* that an answer could still reach (refreshRunPhaseLocked and             *)
(* cancelWaitersLocked are called at every change of Pending).             *)
PhaseReflectsWaits ==
    /\ phase \in ActivePhases \ {"cancelling"} =>
         phase = IF pending = {} THEN activity ELSE "waiting_permission"
    /\ phase \notin ActivePhases \ {"cancelling"} => pending = {}

(* The send in ResolveRunPermission happens with AgentRuntime.mu held; it  *)
(* never blocks, because a request that is still pending has an empty      *)
(* answer slot whatever Abort, EndRun, Reset and late waiters did.         *)
AnswerSlotFree == \A t \in pending : answer[t] = "empty"

(* run_state.go: "Cancellation dominates all activities and waits;         *)
(* cancelling can finish only as cancelled" (or be discarded by a Reset).  *)
CancellingEndsCancelled ==
    [][phase = "cancelling" => phase' \in {"cancelling", "cancelled"} \/ gen' # gen]_vars

(* run_state.go: "End publishes exactly one terminal": no late callback,   *)
(* abort or permission cleanup changes the outcome of an ended run.        *)
OneTerminalPerRun ==
    [][(phase \in TerminalPhases /\ runId' = runId) => (phase' = phase)]_vars

(* A run is cancelled only by its own context or by an Abort made while it *)
(* was the current run: the AfterFunc callback of an earlier run, which    *)
(* may fire late, cannot cancel the next one.                              *)
OnlyOwnCancellation ==
    [][phase # "cancelling" /\ phase' = "cancelling" =>
         runId \in aborted' \/ ctx[runId] = "done"]_vars

(* runtime_state.go: "An Abort in the gap after its timed-out run ended    *)
(* must still prevent that request from starting again".                   *)
AbortFencesRecovery ==
    [][\A previous, r \in Runs : BeginRecoveryRun(previous, r) => previous \notin aborted]_vars

(* A goroutine blocked in AwaitPermission, of the current run or of any    *)
(* earlier one, can be woken: its request is still pending, or its answer  *)
(* is in the channel (every removal from Pending sends first:              *)
(* ResolveRunPermission and cancelWaitersLocked; the waiter itself removes *)
(* only what it has left).  Reset forgets Pending without an answer after  *)
(* its Abort has denied everything; the one kind of waiter it can strand   *)
(* is that of a run which began between the two, in the gap of Reset.  Its *)
(* context is all that can end such a wait.                                *)
WaitersReachable ==
    \A t \in Tickets :
        wait[t] = "waiting" =>
            t \in pending \/ answer[t] # "empty" \/ ticketRun[t] \in slipped

(* A run that has been cancelled, ended or discarded is never live again,  *)
(* and AwaitPermission then returns no grant, even one that was already in *)
(* the channel.                                                            *)
NoGrantAfterCancel ==
    [][\A t \in Tickets :
        wait[t] \in {"waiting", "checking"} /\ ~RunLive(ticketRun[t])
            => ~RunLive(ticketRun[t])' /\ wait'[t] # "granting"]_vars
=============================================================================
