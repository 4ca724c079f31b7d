--------------------------- MODULE AgentRunProofs ---------------------------
(* The safety properties of AgentRun, for any runs, tickets and bounds.    *)
EXTENDS AgentRun, TLAPS

(* A request nobody waits for yet has had no answer and is not pending.    *)
FreshTickets == \A t \in Tickets : wait[t] = "none" => answer[t] = "empty" /\ t \notin pending

(* There is a run exactly when the phase is not idle; it was started, and  *)
(* its token, the run record and the snapshot agree on the generation.     *)
RunRecord ==
    /\ phase = "idle" <=> runId = NoRun
    /\ phase \in ActivePhases => activity \in ActivityPhases
    /\ runId # NoRun => /\ ctx[runId] # "unborn"
                        /\ tokGen[runId] = runGen /\ runGen = gen

(* A cancellation callback runs only once its context is done.             *)
HookAfterDone == \A r \in Runs : hook[r] = "started" => ctx[r] = "done"

(* An Abort leaves its mark on the run it found: that run is not live, and *)
(* if it is cancelled the reason says so.                                  *)
AbortMark ==
    /\ \A r \in aborted : ctx[r] # "unborn"
    /\ runId \in aborted =>
         \/ phase \in {"cancelling", "cancelled"} /\ reason = "user"
         \/ phase \in {"completed", "failed"}

(* A request was made by a run that had begun.                             *)
TicketsBorn == \A t \in Tickets : ticketRun[t] # NoRun => ctx[ticketRun[t]] # "unborn"

(* No waiter of the current run is without a way to wake up.               *)
CurrentReachable ==
    \A t \in Tickets :
        wait[t] = "waiting" /\ RunMatches(ticketRun[t]) => t \in pending \/ answer[t] # "empty"

(* What is pending was asked by the current run; after its Abort, a Reset  *)
(* finds a live run only if that run began in the gap before its Lock.     *)
GapRuns ==
    /\ \A t \in pending : ticketRun[t] = runId
    /\ resetting = "aborted" /\ phase \in ActivePhases \ {"cancelling"} => runId \in slipped

IInv ==
    /\ TypeOK /\ PhaseReflectsWaits /\ AnswerSlotFree
    /\ FreshTickets /\ RunRecord /\ HookAfterDone /\ AbortMark
    /\ TicketsBorn /\ CurrentReachable /\ GapRuns /\ WaitersReachable

USE AgentRunAssumption

LEMMA InitIInv == Init => IInv
<1> SUFFICES ASSUME Init PROVE IInv
    OBVIOUS
<1>1. TypeOK
    BY DEF Init, TypeOK, Phases
<1>2. PhaseReflectsWaits /\ AnswerSlotFree /\ FreshTickets
    BY DEF Init, PhaseReflectsWaits, AnswerSlotFree, FreshTickets, ActivePhases, ActivityPhases
<1>3. RunRecord /\ HookAfterDone /\ AbortMark
    BY DEF Init, RunRecord, HookAfterDone, AbortMark, ActivePhases, ActivityPhases
<1>4. TicketsBorn /\ CurrentReachable /\ GapRuns /\ WaitersReachable
    BY DEF Init, TicketsBorn, CurrentReachable, GapRuns, WaitersReachable
<1> QED
    BY <1>1, <1>2, <1>3, <1>4 DEF IInv

(* What stopping the run does to the types, for its three callers.         *)
LEMMA CancelTypes ==
    ASSUME TypeOK, NEW r, NEW why \in {"user", "ctx"}, CancelRunLocked(r, why)
    PROVE  /\ phase' \in Phases /\ reason' \in {"none", "user", "ctx"}
           /\ pending' \subseteq Tickets /\ events' \subseteq Tickets
           /\ cancelCalls' \subseteq Runs
           /\ answer' \in [Tickets -> {"empty", "grant", "deny"}]
<1>1. RunLive(r) => r \in Runs
    BY DEF TypeOK, RunLive, RunActive, RunMatches
<1>2. phase' \in Phases /\ reason' \in {"none", "user", "ctx"}
    BY DEF TypeOK, CancelRunLocked, Phases, ActivePhases
<1>3. answer' \in [Tickets -> {"empty", "grant", "deny"}]
    BY DEF TypeOK, CancelRunLocked, CancelWaiters
<1>4. pending' \subseteq Tickets /\ events' \subseteq Tickets /\ cancelCalls' \subseteq Runs
    BY <1>1 DEF TypeOK, CancelRunLocked, CancelWaiters
<1> QED
    BY <1>2, <1>3, <1>4

LEMMA RefreshType ==
    ASSUME TypeOK, NEW act \in ActivityPhases \cup {"idle"}, NEW waits
    PROVE  RefreshPhase(act, waits) \in Phases
BY DEF TypeOK, RefreshPhase, Phases, ActivePhases

LEMMA IdleType ==
    ASSUME TypeOK, IdleRun(gen + 1)
    PROVE  /\ gen' \in Nat /\ runGen' \in Nat /\ runId' \in Runs \cup {NoRun}
           /\ phase' \in Phases /\ activity' \in ActivityPhases \cup {"idle"}
           /\ error' \in {"none", "error"} /\ reason' \in {"none", "user", "ctx"}
           /\ pending' \subseteq Tickets /\ events' \subseteq Tickets
<1>1. gen \in Nat
    BY DEF TypeOK
<1>2. gen' \in Nat /\ runGen' \in Nat
    BY <1>1 DEF IdleRun
<1> QED
    BY <1>2 DEF IdleRun, Phases

LEMMA TypeStep == TypeOK /\ [Next]_vars => TypeOK'
<1> SUFFICES ASSUME TypeOK, [Next]_vars PROVE TypeOK'
    OBVIOUS
<1>1. ASSUME NEW r \in Runs, BeginRunLocked(r) PROVE TypeOK'
  <2>1. tokGen' \in [Runs -> Nat] /\ runGen' \in Nat
    BY <1>1 DEF TypeOK, BeginRunLocked
  <2>2. phase' \in Phases /\ activity' \in ActivityPhases
    BY <1>1 DEF BeginRunLocked, Phases, ActivePhases, ActivityPhases
  <2>3. /\ ctx' \in [Runs -> {"unborn", "live", "done"}]
        /\ hook' \in [Runs -> {"none", "armed", "started", "ran", "stopped"}]
    BY <1>1 DEF TypeOK, BeginRunLocked
  <2> QED
    BY <1>1, <2>1, <2>2, <2>3 DEF TypeOK, BeginRunLocked
<1>2. ASSUME NEW r \in Runs, ParentCancel(r) \/ CallCancel(r) PROVE TypeOK'
    BY <1>2 DEF TypeOK, ParentCancel, CallCancel, Done, runVars, ticketVars
<1>3. ASSUME NEW r \in Runs, CancellationHook(r) PROVE TypeOK'
    BY <1>3, CancelTypes DEF TypeOK, CancellationHook
<1>4. ASSUME NEW r \in Runs, StartRecovery(r) PROVE TypeOK'
  <2>1. phase' \in Phases /\ activity' \in ActivityPhases
    BY <1>4, RefreshType DEF StartRecovery, ActivityPhases
  <2> QED
    BY <1>4, <2>1 DEF TypeOK, StartRecovery, ticketVars, ctxVars
<1>5. ASSUME NEW r \in Runs, NEW to \in ActivityPhases, Transition(r, to) PROVE TypeOK'
  <2>1. phase' \in Phases /\ activity' \in ActivityPhases
    BY <1>5, RefreshType DEF Transition
  <2> QED
    BY <1>5, <2>1 DEF TypeOK, Transition, ticketVars, ctxVars
<1>6. ASSUME NEW r \in Runs, FailRun(r) \/ DrainPermissionEvents(r) PROVE TypeOK'
    BY <1>6 DEF TypeOK, FailRun, DrainPermissionEvents, runVars, ticketVars, ctxVars
<1>7. ASSUME NEW r \in Runs, EndRun(r) PROVE TypeOK'
  <2>1. phase' \in Phases
    BY <1>7 DEF EndRun, Phases, TerminalPhases
  <2>2. reason' \in {"none", "user", "ctx"} /\ error' \in {"none", "error"}
    BY <1>7 DEF TypeOK, EndRun
  <2>3. answer' \in [Tickets -> {"empty", "grant", "deny"}]
    BY <1>7 DEF TypeOK, EndRun, CancelWaiters
  <2>4. pending' \subseteq Tickets /\ events' \subseteq Tickets /\ cancelCalls' \subseteq Runs
    BY <1>7 DEF TypeOK, EndRun, CancelWaiters
  <2>5. hook' \in [Runs -> {"none", "armed", "started", "ran", "stopped"}]
    BY <1>7 DEF TypeOK, EndRun
  <2> QED
    BY <1>7, <2>1, <2>2, <2>3, <2>4, <2>5 DEF TypeOK, EndRun
<1>8. ASSUME NEW t \in Tickets, AwaitAnswer(t) \/ AwaitCheck(t) \/ AwaitCancelled(t)
      PROVE  TypeOK'
    BY <1>8 DEF TypeOK, AwaitAnswer, AwaitCheck, AwaitCancelled, runVars, ctxVars
<1>9. ASSUME NEW t \in Tickets, CancelPermission(t) PROVE TypeOK'
  <2>1. phase' \in Phases
    BY <1>9, RefreshType DEF TypeOK, CancelPermission
  <2>2. pending' \subseteq Tickets /\ events' \subseteq Tickets
    BY <1>9 DEF TypeOK, CancelPermission
  <2> QED
    BY <1>9, <2>1, <2>2 DEF TypeOK, CancelPermission, ctxVars
<1>10. ASSUME NEW t \in Tickets, NEW decision \in {"grant", "deny"},
             ResolveRunPermission(t, decision)
       PROVE TypeOK'
  <2>1. phase' \in Phases
    BY <1>10, RefreshType DEF TypeOK, ResolveRunPermission
  <2> QED
    BY <1>10, <2>1 DEF TypeOK, ResolveRunPermission, ctxVars
<1>11. ASSUME NEW t \in Tickets, NEW r \in Runs, NEW queued \in BOOLEAN,
             BeginPermission(r, t, queued)
       PROVE TypeOK'
  <2>1. phase' \in Phases
    BY <1>11, RefreshType DEF TypeOK, BeginPermission
  <2>2. pending' \subseteq Tickets /\ events' \subseteq Tickets
    BY <1>11 DEF TypeOK, BeginPermission
  <2> QED
    BY <1>11, <2>1, <2>2 DEF TypeOK, BeginPermission, ctxVars
<1>12. CASE Abort
    BY <1>12, CancelTypes DEF TypeOK, Abort
<1>13. CASE ResetAbort
    BY <1>13, CancelTypes DEF TypeOK, ResetAbort
<1>14. CASE ResetPublish
  <2>1. hook' \in [Runs -> {"none", "armed", "started", "ran", "stopped"}]
    BY <1>14 DEF TypeOK, ResetPublish
  <2> QED
    BY <1>14, <2>1, IdleType DEF TypeOK, ResetPublish
<1>15. CASE ResetFails
    BY <1>15 DEF TypeOK, ResetFails, runVars, ticketVars, ctxVars
<1>16. CASE Restore
    BY <1>16, IdleType DEF TypeOK, Restore, ctxVars
<1>17. CASE UNCHANGED vars
    BY <1>17 DEF TypeOK, vars
<1> QED
    BY <1>1, <1>2, <1>3, <1>4, <1>5, <1>6, <1>7, <1>8, <1>9, <1>10, <1>11, <1>12, <1>13,
       <1>14, <1>15, <1>16, <1>17 DEF Next, RunStep, TicketStep, Begin, BeginRecoveryRun

(* Every action keeps the permission waits and the published phase in      *)
(* agreement; only the run record and the types are needed besides.        *)
LEMMA WaitStep == IInv /\ [Next]_vars => (PhaseReflectsWaits /\ AnswerSlotFree /\ FreshTickets)'
<1> SUFFICES ASSUME IInv, [Next]_vars PROVE (PhaseReflectsWaits /\ AnswerSlotFree /\ FreshTickets)'
    OBVIOUS
<1> USE DEF IInv, TypeOK, PhaseReflectsWaits, AnswerSlotFree, FreshTickets, RunRecord,
            ActivityPhases, ActivePhases, TerminalPhases, Phases, RunMatches, RunActive, RunLive,
            vars, runVars, ticketVars, ctxVars
<1>1. ASSUME NEW r \in Runs, Begin(r) \/ (\E previous \in Runs : BeginRecoveryRun(previous, r))
      PROVE  (PhaseReflectsWaits /\ AnswerSlotFree /\ FreshTickets)'
    BY <1>1 DEF Begin, BeginRecoveryRun, BeginRunLocked
<1>2. ASSUME NEW r \in Runs, ParentCancel(r) \/ CallCancel(r) \/ FailRun(r) \/ DrainPermissionEvents(r)
      PROVE  (PhaseReflectsWaits /\ AnswerSlotFree /\ FreshTickets)'
    BY <1>2 DEF ParentCancel, CallCancel, Done, FailRun, DrainPermissionEvents
<1>3. ASSUME NEW r \in Runs, CancellationHook(r)
      PROVE  (PhaseReflectsWaits /\ AnswerSlotFree /\ FreshTickets)'
    BY <1>3 DEF CancellationHook, CancelRunLocked, CancelWaiters
<1>4. ASSUME NEW r \in Runs, StartRecovery(r) \/ (\E to \in ActivityPhases : Transition(r, to))
      PROVE  (PhaseReflectsWaits /\ AnswerSlotFree /\ FreshTickets)'
    BY <1>4 DEF StartRecovery, Transition, RefreshPhase
<1>5. ASSUME NEW r \in Runs, EndRun(r)
      PROVE  (PhaseReflectsWaits /\ AnswerSlotFree /\ FreshTickets)'
    BY <1>5 DEF EndRun, CancelWaiters
<1>6. ASSUME NEW t \in Tickets, AwaitAnswer(t) \/ AwaitCheck(t) \/ AwaitCancelled(t)
      PROVE  (PhaseReflectsWaits /\ AnswerSlotFree /\ FreshTickets)'
    BY <1>6 DEF AwaitAnswer, AwaitCheck, AwaitCancelled
<1>7. ASSUME NEW t \in Tickets, CancelPermission(t)
      PROVE  (PhaseReflectsWaits /\ AnswerSlotFree /\ FreshTickets)'
    BY <1>7 DEF CancelPermission, RefreshPhase
<1>8. ASSUME NEW t \in Tickets, NEW decision \in {"grant", "deny"},
             ResolveRunPermission(t, decision)
      PROVE  (PhaseReflectsWaits /\ AnswerSlotFree /\ FreshTickets)'
    BY <1>8 DEF ResolveRunPermission, RefreshPhase
<1>9. ASSUME NEW t \in Tickets, NEW r \in Runs, NEW queued \in BOOLEAN,
             BeginPermission(r, t, queued)
      PROVE  (PhaseReflectsWaits /\ AnswerSlotFree /\ FreshTickets)'
    BY <1>9 DEF BeginPermission, RefreshPhase
<1>10. CASE Abort \/ ResetAbort
    BY <1>10 DEF Abort, ResetAbort, CancelRunLocked, CancelWaiters
<1>11. CASE ResetPublish \/ Restore
    BY <1>11 DEF ResetPublish, Restore, IdleRun
<1>12. CASE ResetFails \/ UNCHANGED vars
    BY <1>12 DEF ResetFails
<1> HIDE DEF IInv, TypeOK, PhaseReflectsWaits, AnswerSlotFree, FreshTickets, RunRecord
<1> QED
    BY <1>1, <1>2, <1>3, <1>4, <1>5, <1>6, <1>7, <1>8, <1>9, <1>10, <1>11,
       <1>12
       DEF Next, RunStep, TicketStep

(* Every action keeps the run record, the callbacks and the abort mark.    *)
LEMMA RecordStep == IInv /\ [Next]_vars => (RunRecord /\ HookAfterDone /\ AbortMark)'
<1> SUFFICES ASSUME IInv, [Next]_vars PROVE (RunRecord /\ HookAfterDone /\ AbortMark)'
    OBVIOUS
<1> USE DEF IInv, TypeOK, RunRecord, HookAfterDone, AbortMark,
            ActivityPhases, ActivePhases, TerminalPhases, Phases, RunMatches, RunActive, RunLive,
            vars, runVars, ticketVars, ctxVars
<1>1. ASSUME NEW r \in Runs, Begin(r) \/ (\E previous \in Runs : BeginRecoveryRun(previous, r))
      PROVE  (RunRecord /\ HookAfterDone /\ AbortMark)'
    BY <1>1 DEF Begin, BeginRecoveryRun, BeginRunLocked
<1>2. ASSUME NEW r \in Runs, ParentCancel(r) \/ CallCancel(r) \/ FailRun(r) \/ DrainPermissionEvents(r)
      PROVE  (RunRecord /\ HookAfterDone /\ AbortMark)'
    BY <1>2 DEF ParentCancel, CallCancel, Done, FailRun, DrainPermissionEvents
<1>3. ASSUME NEW r \in Runs, CancellationHook(r)
      PROVE  (RunRecord /\ HookAfterDone /\ AbortMark)'
    BY <1>3 DEF CancellationHook, CancelRunLocked, CancelWaiters
<1>4. ASSUME NEW r \in Runs, StartRecovery(r) \/ (\E to \in ActivityPhases : Transition(r, to))
      PROVE  (RunRecord /\ HookAfterDone /\ AbortMark)'
    BY <1>4 DEF StartRecovery, Transition, RefreshPhase
<1>5. ASSUME NEW r \in Runs, EndRun(r)
      PROVE  (RunRecord /\ HookAfterDone /\ AbortMark)'
    BY <1>5 DEF EndRun, CancelWaiters
<1>6. ASSUME NEW t \in Tickets, AwaitAnswer(t) \/ AwaitCheck(t) \/ AwaitCancelled(t)
      PROVE  (RunRecord /\ HookAfterDone /\ AbortMark)'
    BY <1>6 DEF AwaitAnswer, AwaitCheck, AwaitCancelled
<1>7. ASSUME NEW t \in Tickets, CancelPermission(t)
      PROVE  (RunRecord /\ HookAfterDone /\ AbortMark)'
    BY <1>7 DEF CancelPermission, RefreshPhase
<1>8. ASSUME NEW t \in Tickets, NEW decision \in {"grant", "deny"},
             ResolveRunPermission(t, decision)
      PROVE  (RunRecord /\ HookAfterDone /\ AbortMark)'
    BY <1>8 DEF ResolveRunPermission, RefreshPhase
<1>9. ASSUME NEW t \in Tickets, NEW r \in Runs, NEW queued \in BOOLEAN,
             BeginPermission(r, t, queued)
      PROVE  (RunRecord /\ HookAfterDone /\ AbortMark)'
    BY <1>9 DEF BeginPermission, RefreshPhase
<1>10. CASE Abort \/ ResetAbort
    BY <1>10 DEF Abort, ResetAbort, CancelRunLocked, CancelWaiters
<1>11. CASE ResetPublish \/ Restore
    BY <1>11 DEF ResetPublish, Restore, IdleRun
<1>12. CASE ResetFails \/ UNCHANGED vars
    BY <1>12 DEF ResetFails
<1> HIDE DEF IInv, TypeOK, RunRecord, HookAfterDone, AbortMark
<1> QED
    BY <1>1, <1>2, <1>3, <1>4, <1>5, <1>6, <1>7, <1>8, <1>9, <1>10, <1>11,
       <1>12
       DEF Next, RunStep, TicketStep

(* No action leaves a waiter of the current run without a way to wake up.  *)
LEMMA WaiterStep == IInv /\ [Next]_vars => (TicketsBorn /\ CurrentReachable)'
<1> SUFFICES ASSUME IInv, [Next]_vars PROVE (TicketsBorn /\ CurrentReachable)'
    OBVIOUS
<1> USE DEF IInv, TypeOK, RunRecord, FreshTickets, TicketsBorn, CurrentReachable,
            ActivityPhases, ActivePhases, TerminalPhases, Phases, RunMatches, RunActive, RunLive,
            vars, runVars, ticketVars, ctxVars
<1>1. ASSUME NEW r \in Runs, Begin(r) \/ (\E previous \in Runs : BeginRecoveryRun(previous, r))
      PROVE  (TicketsBorn /\ CurrentReachable)'
    BY <1>1 DEF Begin, BeginRecoveryRun, BeginRunLocked
<1>2. ASSUME NEW r \in Runs, ParentCancel(r) \/ CallCancel(r) \/ FailRun(r) \/ DrainPermissionEvents(r)
      PROVE  (TicketsBorn /\ CurrentReachable)'
    BY <1>2 DEF ParentCancel, CallCancel, Done, FailRun, DrainPermissionEvents
<1>3. ASSUME NEW r \in Runs, CancellationHook(r)
      PROVE  (TicketsBorn /\ CurrentReachable)'
    BY <1>3 DEF CancellationHook, CancelRunLocked, CancelWaiters
<1>4. ASSUME NEW r \in Runs, StartRecovery(r) \/ (\E to \in ActivityPhases : Transition(r, to))
      PROVE  (TicketsBorn /\ CurrentReachable)'
    BY <1>4 DEF StartRecovery, Transition, RefreshPhase
<1>5. ASSUME NEW r \in Runs, EndRun(r)
      PROVE  (TicketsBorn /\ CurrentReachable)'
    BY <1>5 DEF EndRun, CancelWaiters
<1>6. ASSUME NEW t \in Tickets, AwaitAnswer(t) \/ AwaitCheck(t) \/ AwaitCancelled(t)
      PROVE  (TicketsBorn /\ CurrentReachable)'
    BY <1>6 DEF AwaitAnswer, AwaitCheck, AwaitCancelled
<1>7. ASSUME NEW t \in Tickets, CancelPermission(t)
      PROVE  (TicketsBorn /\ CurrentReachable)'
    BY <1>7 DEF CancelPermission, RefreshPhase
<1>8. ASSUME NEW t \in Tickets, NEW decision \in {"grant", "deny"},
             ResolveRunPermission(t, decision)
      PROVE  (TicketsBorn /\ CurrentReachable)'
    BY <1>8 DEF ResolveRunPermission, RefreshPhase
<1>9. ASSUME NEW t \in Tickets, NEW r \in Runs, NEW queued \in BOOLEAN,
             BeginPermission(r, t, queued)
      PROVE  (TicketsBorn /\ CurrentReachable)'
    BY <1>9 DEF BeginPermission, RefreshPhase
<1>10. CASE Abort \/ ResetAbort
    BY <1>10 DEF Abort, ResetAbort, CancelRunLocked, CancelWaiters
<1>11. CASE ResetPublish \/ Restore
    BY <1>11 DEF ResetPublish, Restore, IdleRun
<1>12. CASE ResetFails \/ UNCHANGED vars
    BY <1>12 DEF ResetFails
<1> HIDE DEF IInv, TypeOK, RunRecord, FreshTickets, TicketsBorn, CurrentReachable
<1> QED
    BY <1>1, <1>2, <1>3, <1>4, <1>5, <1>6, <1>7, <1>8, <1>9, <1>10, <1>11,
       <1>12
       DEF Next, RunStep, TicketStep

(* Nor any other waiter, but those of the gap: what Reset and Begin forget *)
(* without an answer is empty, or was asked by a run begun in the gap.     *)
LEMMA GapStep == IInv /\ [Next]_vars => (GapRuns /\ WaitersReachable)'
<1> SUFFICES ASSUME IInv, [Next]_vars PROVE (GapRuns /\ WaitersReachable)'
    OBVIOUS
<1> USE DEF IInv, TypeOK, PhaseReflectsWaits, RunRecord, FreshTickets,
            CurrentReachable, GapRuns, WaitersReachable,
            ActivityPhases, ActivePhases, TerminalPhases, Phases, RunMatches, RunActive, RunLive,
            vars, runVars, ticketVars, ctxVars
<1>1. ASSUME NEW r \in Runs, Begin(r) \/ (\E previous \in Runs : BeginRecoveryRun(previous, r))
      PROVE  (GapRuns /\ WaitersReachable)'
    BY <1>1 DEF Begin, BeginRecoveryRun, BeginRunLocked
<1>2. ASSUME NEW r \in Runs, ParentCancel(r) \/ CallCancel(r) \/ FailRun(r) \/ DrainPermissionEvents(r)
      PROVE  (GapRuns /\ WaitersReachable)'
    BY <1>2 DEF ParentCancel, CallCancel, Done, FailRun, DrainPermissionEvents
<1>3. ASSUME NEW r \in Runs, CancellationHook(r)
      PROVE  (GapRuns /\ WaitersReachable)'
    BY <1>3 DEF CancellationHook, CancelRunLocked, CancelWaiters
<1>4. ASSUME NEW r \in Runs, StartRecovery(r) \/ (\E to \in ActivityPhases : Transition(r, to))
      PROVE  (GapRuns /\ WaitersReachable)'
    BY <1>4 DEF StartRecovery, Transition, RefreshPhase
<1>5. ASSUME NEW r \in Runs, EndRun(r)
      PROVE  (GapRuns /\ WaitersReachable)'
    BY <1>5 DEF EndRun, CancelWaiters
<1>6. ASSUME NEW t \in Tickets, AwaitAnswer(t) \/ AwaitCheck(t) \/ AwaitCancelled(t)
      PROVE  (GapRuns /\ WaitersReachable)'
    BY <1>6 DEF AwaitAnswer, AwaitCheck, AwaitCancelled
<1>7. ASSUME NEW t \in Tickets, CancelPermission(t)
      PROVE  (GapRuns /\ WaitersReachable)'
    BY <1>7 DEF CancelPermission, RefreshPhase
<1>8. ASSUME NEW t \in Tickets, NEW decision \in {"grant", "deny"},
             ResolveRunPermission(t, decision)
      PROVE  (GapRuns /\ WaitersReachable)'
    BY <1>8 DEF ResolveRunPermission, RefreshPhase
<1>9. ASSUME NEW t \in Tickets, NEW r \in Runs, NEW queued \in BOOLEAN,
             BeginPermission(r, t, queued)
      PROVE  (GapRuns /\ WaitersReachable)'
    BY <1>9 DEF BeginPermission, RefreshPhase
<1>10. CASE Abort \/ ResetAbort
    BY <1>10 DEF Abort, ResetAbort, CancelRunLocked, CancelWaiters
<1>11. CASE ResetPublish \/ Restore
    BY <1>11 DEF ResetPublish, Restore, IdleRun
<1>12. CASE ResetFails \/ UNCHANGED vars
    BY <1>12 DEF ResetFails
<1> HIDE DEF IInv, TypeOK, PhaseReflectsWaits, RunRecord, FreshTickets,
            CurrentReachable, GapRuns, WaitersReachable
<1> QED
    BY <1>1, <1>2, <1>3, <1>4, <1>5, <1>6, <1>7, <1>8, <1>9, <1>10, <1>11,
       <1>12
       DEF Next, RunStep, TicketStep

LEMMA NextIInv == IInv /\ [Next]_vars => IInv'
BY TypeStep, WaitStep, RecordStep, WaiterStep, GapStep DEF IInv

LEMMA SpecIInv == Spec => []IInv
<1>1. Init => IInv
    BY InitIInv
<1>2. IInv /\ [Next]_vars => IInv'
    BY NextIInv
<1> QED
    BY <1>1, <1>2, PTL DEF Spec

(* Type correctness of the run record.                                     *)
THEOREM TypeCorrect == Spec => []TypeOK
BY SpecIInv, PTL DEF IInv

(* The phase refreshRunPhaseLocked publishes always says whether a         *)
(* permission request is unresolved, for any number of runs and requests.  *)
THEOREM WaitsPublished == Spec => []PhaseReflectsWaits
BY SpecIInv, PTL DEF IInv

(* The channel send that ResolveRunPermission performs with the mutex held *)
(* never blocks.                                                           *)
THEOREM SendNeverBlocks == Spec => []AnswerSlotFree
BY SpecIInv, PTL DEF IInv

(* What a step may do to the phase, from which the action properties       *)
(* follow.                                                                 *)
PhaseStep ==
    /\ phase = "cancelling" => phase' \in {"cancelling", "cancelled"} \/ gen' # gen
    /\ (phase \in TerminalPhases /\ runId' = runId) => (phase' = phase)
    /\ (phase # "cancelling" /\ phase' = "cancelling") => runId \in aborted' \/ ctx[runId] = "done"

LEMMA PhaseSteps == IInv /\ [Next]_vars => PhaseStep
<1> SUFFICES ASSUME IInv, [Next]_vars PROVE PhaseStep
    OBVIOUS
<1> USE DEF PhaseStep, IInv, TypeOK, PhaseReflectsWaits, FreshTickets, RunRecord, HookAfterDone, AbortMark,
            ActivityPhases, ActivePhases, TerminalPhases, Phases, RunMatches, RunActive, RunLive,
            vars, runVars, ticketVars, ctxVars
<1>1. ASSUME NEW r \in Runs, Begin(r) \/ (\E previous \in Runs : BeginRecoveryRun(previous, r))
      PROVE  PhaseStep
    BY <1>1 DEF Begin, BeginRecoveryRun, BeginRunLocked
<1>2. ASSUME NEW r \in Runs, ParentCancel(r) \/ CallCancel(r) \/ FailRun(r) \/ DrainPermissionEvents(r)
      PROVE  PhaseStep
    BY <1>2 DEF ParentCancel, CallCancel, Done, FailRun, DrainPermissionEvents
<1>3. ASSUME NEW r \in Runs, CancellationHook(r)
      PROVE  PhaseStep
    BY <1>3 DEF CancellationHook, CancelRunLocked, CancelWaiters
<1>4. ASSUME NEW r \in Runs, StartRecovery(r) \/ (\E to \in ActivityPhases : Transition(r, to))
      PROVE  PhaseStep
    BY <1>4 DEF StartRecovery, Transition, RefreshPhase
<1>5. ASSUME NEW r \in Runs, EndRun(r)
      PROVE  PhaseStep
    BY <1>5 DEF EndRun, CancelWaiters
<1>6. ASSUME NEW t \in Tickets, AwaitAnswer(t) \/ AwaitCheck(t) \/ AwaitCancelled(t)
      PROVE  PhaseStep
    BY <1>6 DEF AwaitAnswer, AwaitCheck, AwaitCancelled
<1>7. ASSUME NEW t \in Tickets, CancelPermission(t)
      PROVE  PhaseStep
    BY <1>7 DEF CancelPermission, RefreshPhase
<1>8. ASSUME NEW t \in Tickets, NEW decision \in {"grant", "deny"},
             ResolveRunPermission(t, decision)
      PROVE  PhaseStep
    BY <1>8 DEF ResolveRunPermission, RefreshPhase
<1>9. ASSUME NEW t \in Tickets, NEW r \in Runs, NEW queued \in BOOLEAN,
             BeginPermission(r, t, queued)
      PROVE  PhaseStep
    BY <1>9 DEF BeginPermission, RefreshPhase
<1>10. CASE Abort \/ ResetAbort
    BY <1>10 DEF Abort, ResetAbort, CancelRunLocked, CancelWaiters
<1>11. CASE ResetPublish \/ Restore
    BY <1>11 DEF ResetPublish, Restore, IdleRun
<1>12. CASE ResetFails \/ UNCHANGED vars
    BY <1>12 DEF ResetFails
<1> HIDE DEF PhaseStep, IInv, TypeOK, PhaseReflectsWaits, FreshTickets, RunRecord, HookAfterDone, AbortMark, vars
<1> QED
    BY <1>1, <1>2, <1>3, <1>4, <1>5, <1>6, <1>7, <1>8, <1>9, <1>10, <1>11, <1>12
       DEF Next, RunStep, TicketStep

(* Once a run is cancelling it can only become cancelled, or be discarded  *)
(* together with its generation.                                           *)
THEOREM CancellationDominates == Spec => CancellingEndsCancelled
<1>1. IInv /\ [Next]_vars => [phase = "cancelling" => phase' \in {"cancelling", "cancelled"} \/ gen' # gen]_vars
    BY PhaseSteps DEF PhaseStep
<1> QED
    BY <1>1, SpecIInv, PTL DEF Spec, CancellingEndsCancelled

(* EndRun publishes one outcome and nothing changes it afterwards.         *)
THEOREM OneTerminal == Spec => OneTerminalPerRun
<1>1. IInv /\ [Next]_vars => [(phase \in TerminalPhases /\ runId' = runId) => (phase' = phase)]_vars
    BY PhaseSteps DEF PhaseStep
<1> QED
    BY <1>1, SpecIInv, PTL DEF Spec, OneTerminalPerRun

(* A late callback of an earlier run cancels nothing.                      *)
THEOREM OwnCancellation == Spec => OnlyOwnCancellation
<1>1. IInv /\ [Next]_vars => [phase # "cancelling" /\ phase' = "cancelling" =>
         runId \in aborted' \/ ctx[runId] = "done"]_vars
    BY PhaseSteps DEF PhaseStep
<1> QED
    BY <1>1, SpecIInv, PTL DEF Spec, OnlyOwnCancellation

(* After an Abort that found the run current, beginRecoveryRun never       *)
(* starts that request again, wherever in the run's end the Abort fell.    *)
THEOREM NoRecoveryAfterAbort == Spec => AbortFencesRecovery
<1>1. IInv => \A previous, r \in Runs :
                 BeginRecoveryRun(previous, r) => previous \notin aborted
    BY DEF IInv, AbortMark, BeginRecoveryRun, RunMatches
<1> QED
    BY <1>1, SpecIInv, PTL DEF AbortFencesRecovery

(* Every goroutine waiting for a permission, of the current run or of an   *)
(* earlier one, has its request pending or its answer in the channel, or   *)
(* its run began in the gap between a Reset's Abort and its Lock.          *)
THEOREM NoLostWakeup == Spec => []WaitersReachable
BY SpecIInv, PTL DEF IInv

(* What a step may do to the request of a run that is not live.            *)
GrantStep ==
    \A t \in Tickets :
        wait[t] \in {"waiting", "checking"} /\ ~RunLive(ticketRun[t])
            => ~RunLive(ticketRun[t])' /\ wait'[t] # "granting"

LEMMA GrantSteps == IInv /\ [Next]_vars => GrantStep
<1> SUFFICES ASSUME IInv, [Next]_vars PROVE GrantStep
    OBVIOUS
<1> USE DEF GrantStep, IInv, TypeOK, FreshTickets, RunRecord, TicketsBorn,
            ActivityPhases, ActivePhases, TerminalPhases, Phases, RunMatches, RunActive, RunLive,
            vars, runVars, ticketVars, ctxVars
<1>1. ASSUME NEW r \in Runs, Begin(r) \/ (\E previous \in Runs : BeginRecoveryRun(previous, r))
      PROVE  GrantStep
    BY <1>1 DEF Begin, BeginRecoveryRun, BeginRunLocked
<1>2. ASSUME NEW r \in Runs, ParentCancel(r) \/ CallCancel(r) \/ FailRun(r) \/ DrainPermissionEvents(r)
      PROVE  GrantStep
    BY <1>2 DEF ParentCancel, CallCancel, Done, FailRun, DrainPermissionEvents
<1>3. ASSUME NEW r \in Runs, CancellationHook(r)
      PROVE  GrantStep
    BY <1>3 DEF CancellationHook, CancelRunLocked, CancelWaiters
<1>4. ASSUME NEW r \in Runs, StartRecovery(r) \/ (\E to \in ActivityPhases : Transition(r, to))
      PROVE  GrantStep
    BY <1>4 DEF StartRecovery, Transition, RefreshPhase
<1>5. ASSUME NEW r \in Runs, EndRun(r)
      PROVE  GrantStep
    BY <1>5 DEF EndRun, CancelWaiters
<1>6. ASSUME NEW t \in Tickets, AwaitAnswer(t) \/ AwaitCheck(t) \/ AwaitCancelled(t)
      PROVE  GrantStep
    BY <1>6 DEF AwaitAnswer, AwaitCheck, AwaitCancelled
<1>7. ASSUME NEW t \in Tickets, CancelPermission(t)
      PROVE  GrantStep
    BY <1>7 DEF CancelPermission, RefreshPhase
<1>8. ASSUME NEW t \in Tickets, NEW decision \in {"grant", "deny"},
             ResolveRunPermission(t, decision)
      PROVE  GrantStep
    BY <1>8 DEF ResolveRunPermission, RefreshPhase
<1>9. ASSUME NEW t \in Tickets, NEW r \in Runs, NEW queued \in BOOLEAN,
             BeginPermission(r, t, queued)
      PROVE  GrantStep
    BY <1>9 DEF BeginPermission, RefreshPhase
<1>10. CASE Abort \/ ResetAbort
    BY <1>10 DEF Abort, ResetAbort, CancelRunLocked, CancelWaiters
<1>11. CASE ResetPublish \/ Restore
    BY <1>11 DEF ResetPublish, Restore, IdleRun
<1>12. CASE ResetFails \/ UNCHANGED vars
    BY <1>12 DEF ResetFails
<1> HIDE DEF GrantStep, IInv, TypeOK, FreshTickets, RunRecord, TicketsBorn, vars
<1> QED
    BY <1>1, <1>2, <1>3, <1>4, <1>5, <1>6, <1>7, <1>8, <1>9, <1>10, <1>11, <1>12
       DEF Next, RunStep, TicketStep

(* AwaitPermission returns no grant once its run was cancelled, ended or   *)
(* discarded, and such a run is never live again.                          *)
THEOREM NoLateGrant == Spec => NoGrantAfterCancel
<1>1. IInv /\ [Next]_vars => [\A t \in Tickets :
        wait[t] \in {"waiting", "checking"} /\ ~RunLive(ticketRun[t])
            => ~RunLive(ticketRun[t])' /\ wait'[t] # "granting"]_vars
    BY GrantSteps DEF GrantStep
<1> QED
    BY <1>1, SpecIInv, PTL DEF Spec, NoGrantAfterCancel

=============================================================================
