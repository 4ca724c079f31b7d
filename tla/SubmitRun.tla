------------------------------ MODULE SubmitRun ------------------------------
(***************************************************************************)
(* One session from session.submit to the journal: SubmitCommand and the   *)
(* goroutine of SessionController.submit (backend/session.go), the reader  *)
(* RunSubmitMessage (ui/runtime.go), the goroutine of SubmitMessage        *)
(* (agent/query_engine.go), queryLoop (agent/loop.go), the recorder        *)
(* (agent/runtime_events.go), Abort and Clear, a crash of the process and  *)
(* RecoverInterruptedRuntime (session/runtime_recovery.go).                *)
(*                                                                         *)
(* Every call has three goroutines: ui reads the events, msg owns the run, *)
(* loop talks to the model.  Only recovery, BeginRun, BeginStep, EndRun    *)
(* and Reset write events this module distinguishes.  An Append fails when *)
(* its context is done and, within MaxTrouble, for a storage error.       *)
(***************************************************************************)
EXTENDS Naturals, Sequences, FiniteSets

CONSTANTS
    Calls,           \* session.submit requests, a retry being one of its own
    Commands,        \* command ids
    CommandMaps,     \* the choices of the command of each call
    Forwarded,       \* calls that reach the owner over the command stream
    Disconnects,     \* calls whose WebSocket may close before their run ends
    None,
    MaxTurns,        \* iterations of queryLoop in one run
    ContextRetries,  \* prompt-too-long recoveries in one run (3 in the code)
    MaxTrouble       \* storage errors, Abort and Clear requests and crashes

ASSUME SubmitRunAssumption ==
    /\ None \notin Calls \cup (Calls \X {"submit", "runtime", "recorder"})
    /\ CommandMaps \subseteq [Calls -> Commands]
    /\ Forwarded \subseteq Calls /\ Disconnects \subseteq Calls
    /\ MaxTurns \in Nat /\ ContextRetries \in Nat
    /\ MaxTrouble \in Nat

VARIABLES
    log,         \* run.*, step.* and session.reset events, in journal order
    results,     \* the command_results table: command -> the call that ran it
    rid,         \* recorder: runID, None when empty
    terminal,    \* recorder: terminal
    stepNo,      \* recorder: stepNo, 0 while stepID is empty
    pendingRun,  \* recorder: pendingRunID
    recBy,       \* history: the call whose BeginRun set rid
    live,        \* AgentRuntime: the call that began run, None for idleRun
    phase,       \* AgentRuntime: run.Phase
    gen,         \* AgentRuntime: snapshot.Generation
    busy,        \* controller: busy
    canceller,   \* controller: the call whose cancel is submitCancel
    commandMu,   \* controller: the holder of commandMu
    sctx,        \* calls whose runCtx of submit is done
    rctx,        \* calls whose run context of AgentRuntime is done
    rpc, ui, msg, loop,  \* where the request and the goroutines of a call are
    runOf,       \* the run id of the token handed to a call
    tokGen,      \* the generation of that token
    turns,       \* iterations of queryLoop
    op,          \* what the running Abort or Clear does next
    slipped,     \* history: calls that began between the two halves of a Reset
    mode,        \* the process: "up", "down" or "recover"
    scan,        \* what RecoverInterruptedRuntime has yet to close
    faults, ops, crashes,
    command      \* the command of each call: a retry has that of its first call

journalVars == <<log, results>>
recVars == <<rid, terminal, stepNo, pendingRun, recBy>>
runVars == <<live, phase, gen>>
ctlVars == <<busy, canceller, commandMu>>
ctxVars == <<sctx, rctx>>
callVars == <<rpc, ui, msg, loop, runOf, tokGen, turns>>
procVars == <<mode, scan, crashes>>
opVars == <<op, ops, slipped>>
vars == <<log, results, rid, terminal, stepNo, pendingRun, recBy, live, phase, gen, busy,
          canceller, commandMu, sctx, rctx, rpc, ui, msg, loop, runOf, tokGen, turns, op,
          slipped, mode, scan, faults, ops, crashes, command>>

(* Run ids: minted by SubmitCommand, by AgentRuntime and by the recorder.  *)
RunIds == Calls \X {"submit", "runtime", "recorder"}

Ev(t, r, c, n) == [type |-> t, run |-> r, call |-> c, step |-> n,
                   gen |-> IF c = None THEN gen ELSE tokGen[c]]

RunDone(c) == c \in sctx \cup rctx
RunMatches(c) == live # None /\ runOf[c] = runOf[live] /\ tokGen[c] = gen
RunActive(c) == RunMatches(c) /\ phase \in {"active", "cancelling"}
RunLive(c) == RunActive(c) /\ phase = "active"

Trouble == faults + ops + crashes < MaxTrouble
Fault == Trouble /\ faults' = faults + 1
NoFault == UNCHANGED faults
-----------------------------------------------------------------------------
Init ==
    /\ command \in CommandMaps
    /\ log = <<>> /\ results = [k \in Commands |-> None]
    /\ rid = None /\ terminal = FALSE /\ stepNo = 0 /\ pendingRun = None /\ recBy = None
    /\ live = None /\ phase = "idle" /\ gen = 0
    /\ busy = FALSE /\ canceller = None /\ commandMu = None
    /\ sctx = {} /\ rctx = {}
    /\ rpc = [c \in Calls |-> "new"]
    /\ ui = [c \in Calls |-> "none"]
    /\ msg = [c \in Calls |-> "none"]
    /\ loop = [c \in Calls |-> "none"]
    /\ runOf = [c \in Calls |-> None]
    /\ tokGen = [c \in Calls |-> 0]
    /\ turns = [c \in Calls |-> 0]
    /\ op = "none" /\ slipped = {} /\ mode = "up" /\ scan = [steps |-> {}, runs |-> {}]
    /\ faults = 0 /\ ops = 0 /\ crashes = 0

(* SubmitCommand takes commandMu, answers a command it has a result of and *)
(* otherwise mints a run id and reserves it.                               *)
SubmitCommand(c) ==
    /\ mode = "up" /\ rpc[c] = "new" /\ commandMu = None
    /\ IF results[command[c]] # None
       THEN /\ rpc' = [rpc EXCEPT ![c] = "duplicate"]
            /\ UNCHANGED <<pendingRun, commandMu>>
       ELSE /\ rpc' = [rpc EXCEPT ![c] = "reserved"]
            /\ pendingRun' = <<c, "submit">>
            /\ commandMu' = c
    /\ UNCHANGED <<journalVars, rid, terminal, stepNo, recBy, runVars, busy, canceller, ctxVars,
                   ui, msg, loop, runOf, tokGen, turns, procVars, opVars, faults>>

(* submit: busy.CompareAndSwap.                                            *)
ClaimBusy(c) ==
    /\ rpc[c] = "reserved"
    /\ IF busy
       THEN /\ rpc' = [rpc EXCEPT ![c] = "refused"]
            /\ commandMu' = None
            /\ UNCHANGED busy
       ELSE /\ rpc' = [rpc EXCEPT ![c] = "claimed"]
            /\ busy' = TRUE
            /\ UNCHANGED commandMu
    /\ UNCHANGED <<journalVars, recVars, runVars, canceller, ctxVars, ui, msg, loop, runOf,
                   tokGen, turns, procVars, opVars, faults>>

(* Faulty variant: the command runs without its result being stored.       *)
SaveNothing(c) ==
    /\ rpc[c] = "claimed" /\ c \notin sctx
    /\ rpc' = [rpc EXCEPT ![c] = "saved"]
    /\ UNCHANGED <<journalVars, recVars, runVars, ctlVars, ctxVars, ui, msg, loop, runOf, tokGen,
                   turns, procVars, opVars, faults>>

(* beforeStart: the result is stored, or an error is returned and the      *)
(* session is free again; a storage error may come after the commit.       *)
SaveResult(c) ==
    /\ rpc[c] = "claimed" /\ c \notin sctx
    /\ results' = [results EXCEPT ![command[c]] = c]
    /\ rpc' = [rpc EXCEPT ![c] = "saved"]
    /\ UNCHANGED <<log, recVars, runVars, ctlVars, ctxVars, ui, msg, loop, runOf, tokGen, turns,
                   procVars, opVars, faults>>

SaveFails(c) ==
    /\ rpc[c] = "claimed"
    /\ \/ c \in sctx /\ NoFault /\ UNCHANGED results
       \/ Fault /\ results' \in {results, [results EXCEPT ![command[c]] = c]}
    /\ rpc' = [rpc EXCEPT ![c] = "failed"]
    /\ busy' = FALSE /\ commandMu' = None
    /\ UNCHANGED <<log, recVars, runVars, canceller, ctxVars, ui, msg, loop, runOf, tokGen,
                   turns, procVars, opVars>>

(* submit stores its cancel function and starts the goroutine.             *)
StartSubmit(c) ==
    /\ rpc[c] = "saved"
    /\ canceller' = c /\ commandMu' = None
    /\ rpc' = [rpc EXCEPT ![c] = "accepted"]
    /\ ui' = [ui EXCEPT ![c] = "start"]
    /\ UNCHANGED <<journalVars, recVars, runVars, busy, ctxVars, msg, loop, runOf, tokGen, turns,
                   procVars, opVars, faults>>

(* The request context ends: handleCommand returns after a forwarded call, *)
(* or the handler of the caller's WebSocket returns.                       *)
RequestContextEnds(c) ==
    /\ mode = "up" /\ c \notin sctx
    /\ \/ c \in Forwarded /\ rpc[c] = "accepted"
       \/ c \in Disconnects /\ rpc[c] \in {"claimed", "saved", "accepted"}
    /\ sctx' = sctx \cup {c}
    /\ UNCHANGED <<journalVars, recVars, runVars, ctlVars, rctx, callVars, procVars, opVars, faults>>
-----------------------------------------------------------------------------
(* RunSubmitMessage calls SubmitMessage, whose beginExecution is refused   *)
(* while a run is active or when the context is done; the run id is the    *)
(* one reserved last.                                                      *)
BeginExecution(c) ==
    /\ ui[c] = "start"
    /\ ui' = [ui EXCEPT ![c] = "reading"]
    /\ IF phase \in {"active", "cancelling"} \/ c \in sctx
       THEN /\ msg' = [msg EXCEPT ![c] = "closed"]
            /\ UNCHANGED <<live, phase, runOf, tokGen, slipped>>
       ELSE /\ msg' = [msg EXCEPT ![c] = "begun"]
            /\ live' = c /\ phase' = "active"
            /\ runOf' = [runOf EXCEPT ![c] = IF pendingRun # None THEN pendingRun
                                             ELSE <<c, "runtime">>]
            /\ tokGen' = [tokGen EXCEPT ![c] = gen]
            /\ slipped' = IF op = "resetting" THEN slipped \cup {c} ELSE slipped
    /\ UNCHANGED <<journalVars, recVars, gen, ctlVars, ctxVars, rpc, loop, turns, procVars, op,
                   ops, faults>>

(* RunSubmitMessage returns when the channel is closed or its context is   *)
(* done; the goroutine of submit then saves and frees the session.         *)
SubmitReturns(c) ==
    /\ ui[c] = "reading"
    /\ msg[c] = "closed" \/ c \in sctx
    /\ ui' = [ui EXCEPT ![c] = "ended"]
    /\ sctx' = sctx \cup {c}
    /\ canceller' = None /\ busy' = FALSE
    /\ UNCHANGED <<journalVars, recVars, runVars, commandMu, rctx, rpc, msg, loop, runOf, tokGen,
                   turns, procVars, opVars, faults>>

(* A slash command, an unknown skill or a failing RunStarting hook ends    *)
(* the call before BeginRun.                                               *)
EndsWithoutRun(c) ==
    /\ msg[c] = "begun"
    /\ msg' = [msg EXCEPT ![c] = "finish"]
    /\ UNCHANGED <<journalVars, recVars, runVars, ctlVars, ctxVars, rpc, ui, loop, runOf, tokGen,
                   turns, procVars, opVars, faults>>

Recording == rid # None /\ ~terminal

(* BeginRun: refused while the recorder has an unfinished run.             *)
BeginRefused(c) ==
    /\ msg[c] = "begun" /\ Recording
    /\ msg' = [msg EXCEPT ![c] = "finish"]
    /\ UNCHANGED <<journalVars, recVars, runVars, ctlVars, ctxVars, rpc, ui, loop, runOf, tokGen,
                   turns, procVars, opVars, faults>>

(* The id BeginRun records: of the live run, else the reserved one.        *)
BeginRunID(c) ==
    IF live # None /\ phase \in {"active", "cancelling"} THEN runOf[live]
    ELSE IF pendingRun # None THEN pendingRun ELSE <<c, "recorder">>

SetRecorder(c) ==
    /\ rid' = BeginRunID(c) /\ recBy' = c
    /\ terminal' = FALSE /\ stepNo' = 0 /\ pendingRun' = None

(* What BeginRun does once its Append has succeeded.                       *)
RunBegun(c) ==
    /\ SetRecorder(c)
    /\ log' = Append(log, Ev("run.started", BeginRunID(c), c, 0))
    /\ \/ /\ msg' = [msg EXCEPT ![c] = "looping"]
          /\ loop' = [loop EXCEPT ![c] = "enter"]
          /\ NoFault
       \/ msg' = [msg EXCEPT ![c] = "forked"] /\ NoFault /\ UNCHANGED loop
       \/ msg' = [msg EXCEPT ![c] = "finish"] /\ Fault /\ UNCHANGED loop
    /\ UNCHANGED <<results, runVars, ctlVars, ctxVars, rpc, ui, runOf, tokGen, turns, procVars,
                   opVars>>

(* BeginRun appends the user message and run.started; a slash skill in     *)
(* fork mode then ends its run at once, any other prompt enters queryLoop, *)
(* and a failing append of the hook's events ends the call.                *)
BeginRun(c) == msg[c] = "begun" /\ ~Recording /\ ~RunDone(c) /\ RunBegun(c)

(* BeginRun changes the recorder before its Append, which fails.           *)
BeginRunFails(c) ==
    /\ msg[c] = "begun" /\ ~Recording
    /\ (RunDone(c) /\ NoFault) \/ Fault
    /\ SetRecorder(c)
    /\ msg' = [msg EXCEPT ![c] = "finish"]
    /\ UNCHANGED <<journalVars, runVars, ctlVars, ctxVars, rpc, ui, loop, runOf, tokGen, turns,
                   procVars, opVars>>
-----------------------------------------------------------------------------
GoTo(c, to) ==
    /\ loop' = [loop EXCEPT ![c] = to]
    /\ UNCHANGED <<journalVars, recVars, runVars, ctlVars, ctxVars, rpc, ui, msg, runOf, tokGen,
                   procVars, opVars>>

(* MCP and memory are prepared; a failing hook returns without a done      *)
(* event.                                                                  *)
EnterLoop(c) ==
    /\ loop[c] = "enter" /\ UNCHANGED turns
    /\ \/ GoTo(c, "top") /\ NoFault
       \/ RunDone(c) /\ GoTo(c, "ended") /\ NoFault
       \/ Fault /\ GoTo(c, "ended")

(* The top of queryLoop: stop if cancelled, return if the run was retired, *)
(* stop at the turn limit.                                                 *)
LoopTop(c) ==
    /\ loop[c] = "top" /\ NoFault /\ UNCHANGED turns
    /\ \/ (RunDone(c) \/ phase = "cancelling") /\ GoTo(c, "sending")
       \/ ~RunDone(c) /\ phase # "cancelling" /\ ~RunLive(c) /\ GoTo(c, "ended")
       \/ ~RunDone(c) /\ RunLive(c) /\ GoTo(c, IF turns[c] = MaxTurns THEN "sending" ELSE "step")

(* The journal once the recorder has closed its open step.                 *)
StepClosed(c) == IF stepNo = 0 THEN log ELSE Append(log, Ev("step.ended", rid, c, stepNo))

(* BeginStep closes the open step and starts the next, in one Append.      *)
BeginStep(c) ==
    /\ loop[c] = "step" /\ Recording /\ ~RunDone(c)
    /\ log' = Append(StepClosed(c), Ev("step.started", rid, c, stepNo + 1))
    /\ stepNo' = stepNo + 1
    /\ loop' = [loop EXCEPT ![c] = "prepare"]
    /\ UNCHANGED <<results, rid, terminal, pendingRun, recBy, runVars, ctlVars, ctxVars, rpc, ui,
                   msg, runOf, tokGen, turns, procVars, opVars, faults>>

BeginStepFails(c) ==
    /\ loop[c] = "step"
    /\ ((~Recording \/ RunDone(c)) /\ NoFault) \/ Fault
    /\ GoTo(c, "sending") /\ UNCHANGED turns

(* Hooks, tools, client and compiled context of the turn; a failing        *)
(* publishDraft or Transition returns without a done event.                *)
PrepareTurn(c) ==
    /\ loop[c] = "prepare" /\ UNCHANGED turns
    /\ \/ RunLive(c) /\ GoTo(c, "model") /\ NoFault
       \/ GoTo(c, "sending") /\ NoFault
       \/ (~RunLive(c) \/ RunDone(c)) /\ GoTo(c, "ended") /\ NoFault
       \/ Fault /\ GoTo(c, "ended")

(* StreamChat: an answer without tools, an abort or a fatal error ends the *)
(* loop; a retried error starts another turn.                              *)
ModelEnds(c) ==
    /\ loop[c] = "model" /\ NoFault /\ UNCHANGED turns
    /\ GoTo(c, "sending")

ModelRetries(c) ==
    /\ loop[c] = "model" /\ NoFault
    /\ turns' = [turns EXCEPT ![c] = @ + 1]
    /\ GoTo(c, "top")

(* The prompt is too long after the last recovery: return, no done event.  *)
ContextRecoveryLimit(c) ==
    /\ loop[c] = "model" /\ NoFault /\ UNCHANGED turns
    /\ turns[c] >= ContextRetries
    /\ GoTo(c, "ended")

ToolTurn(c) ==
    /\ loop[c] = "model" /\ NoFault /\ UNCHANGED turns
    /\ GoTo(c, IF RunLive(c) THEN "tools" ELSE "ended")

(* Permissions are resolved, the draft is published, the tools run.        *)
ToolsRun(c) ==
    /\ loop[c] = "tools"
    /\ \/ /\ RunActive(c) /\ ~RunDone(c) /\ NoFault
          /\ turns' = [turns EXCEPT ![c] = @ + 1]
          /\ GoTo(c, "top")
       \/ (~RunActive(c) \/ RunDone(c)) /\ NoFault /\ UNCHANGED turns /\ GoTo(c, "ended")
       \/ Fault /\ UNCHANGED turns /\ GoTo(c, "ended")

(* The done event passes two channels; each drops it once the context is   *)
(* done (sendStream).                                                      *)
DeliverDone(c) ==
    /\ loop[c] = "sending"
    /\ loop' = [loop EXCEPT ![c] = "ended"]
    /\ msg' = [msg EXCEPT ![c] = "ending"]
    /\ UNCHANGED <<journalVars, recVars, runVars, ctlVars, ctxVars, rpc, ui, runOf, tokGen, turns,
                   procVars, opVars, faults>>

DropDone(c) ==
    /\ loop[c] = "sending" /\ RunDone(c) /\ NoFault /\ UNCHANGED turns
    /\ GoTo(c, "ended")

(* SubmitMessage leaves its range loop without having seen a done event.   *)
LoopCloses(c) ==
    /\ msg[c] = "looping" /\ loop[c] = "ended"
    /\ msg' = [msg EXCEPT ![c] = "finish"]
    /\ UNCHANGED <<journalVars, recVars, runVars, ctlVars, ctxVars, rpc, ui, loop, runOf, tokGen,
                   turns, procVars, opVars, faults>>
-----------------------------------------------------------------------------
(* run.interrupted, or "run.closed" for run.completed and run.failed.      *)
EndType(c) == IF msg[c] = "ending" /\ RunDone(c) THEN "run.interrupted" ELSE "run.closed"

(* EndRun of the recorder, with a context that cannot be cancelled: closes *)
(* the open step and the run in one Append.                                *)
EndRun(c) ==
    /\ msg[c] \in {"ending", "forked"}
    /\ msg' = [msg EXCEPT ![c] = "finish"]
    /\ \/ /\ Recording
          /\ log' = Append(StepClosed(c), Ev(EndType(c), rid, c, 0))
          /\ terminal' = TRUE /\ NoFault
       \/ ~Recording /\ NoFault /\ UNCHANGED <<log, terminal>>
       \/ Fault /\ UNCHANGED <<log, terminal>>
    /\ UNCHANGED <<results, rid, stepNo, pendingRun, recBy, runVars, ctlVars, ctxVars, rpc, ui,
                   loop, runOf, tokGen, turns, procVars, opVars>>

(* finishExecution: AgentRuntime.EndRun, then the channel is closed.       *)
FinishExecution(c) ==
    /\ msg[c] = "finish"
    /\ msg' = [msg EXCEPT ![c] = "closed"]
    /\ IF RunActive(c)
       THEN phase' = "ended" /\ rctx' = rctx \cup {live}
       ELSE UNCHANGED <<phase, rctx>>
    /\ UNCHANGED <<journalVars, recVars, live, gen, ctlVars, sctx, rpc, ui, loop, runOf, tokGen,
                   turns, procVars, opVars, faults>>

(* The AfterFunc of beginRunLocked: a done context cancels the run.        *)
ContextHook(c) ==
    /\ c \in sctx /\ msg[c] # "none" /\ RunLive(c)
    /\ phase' = "cancelling" /\ rctx' = rctx \cup {live}
    /\ UNCHANGED <<journalVars, recVars, live, gen, ctlVars, sctx, callVars, procVars, opVars,
                   faults>>
-----------------------------------------------------------------------------
(* AgentRuntime.Abort.                                                     *)
AbortRun ==
    IF phase = "active"
    THEN phase' = "cancelling" /\ rctx' = rctx \cup {live}
    ELSE UNCHANGED <<phase, rctx>>

(* Abort (and Clear, which starts with it): first the engine ...           *)
AbortEngine(kind) ==
    /\ mode = "up" /\ op = "none" /\ Trouble
    /\ AbortRun
    /\ op' = kind /\ ops' = ops + 1
    /\ UNCHANGED <<journalVars, recVars, live, gen, ctlVars, sctx, callVars, procVars, slipped,
                   faults>>

(* ... then submitCancel, as it is by then.                                *)
AbortSubmit ==
    /\ op \in {"abort", "clear"}
    /\ sctx' = IF canceller = None THEN sctx ELSE sctx \cup {canceller}
    /\ op' = IF op = "clear" THEN "reset" ELSE "none"
    /\ UNCHANGED <<journalVars, recVars, runVars, ctlVars, rctx, callVars, procVars, ops, slipped,
                   faults>>

(* Clear goes on with engine.Reset: AgentRuntime.Reset aborts under one    *)
(* hold of its mutex and, under the next one, journals session.reset and   *)
(* retires the run.  A run that began in between is dropped, its context   *)
(* left alone.  What Clear does afterwards (wait, Save) leaves this state. *)
ResetAborts ==
    /\ op = "reset" /\ op' = "resetting"
    /\ AbortRun
    /\ UNCHANGED <<journalVars, recVars, live, gen, ctlVars, sctx, callVars, procVars, ops, slipped,
                   faults>>

ResetPublishes ==
    /\ op = "resetting" /\ op' = "none"
    /\ \/ /\ log' = Append(log, Ev("session.reset", None, None, 0))
          /\ gen' = gen + 1 /\ live' = None /\ phase' = "idle"
          /\ NoFault
       \/ Fault /\ UNCHANGED <<log, runVars>>
    /\ UNCHANGED <<results, recVars, ctlVars, ctxVars, callVars, procVars, ops, slipped>>

Reset == ResetAborts \/ ResetPublishes
-----------------------------------------------------------------------------
EndTypes == {"run.closed", "run.interrupted"}

(* Faulty variant: the scan does not remove the runs that ended.           *)
StartedRuns == {log[i].run : i \in {j \in DOMAIN log : log[j].type = "run.started"}}

(* What a scan of the journal finds open: session.reset empties the maps,  *)
(* an end removes its entry.                                               *)
OpenRuns ==
    {log[i].run : i \in {j \in DOMAIN log :
        /\ log[j].type = "run.started"
        /\ ~\E k \in (j + 1)..Len(log) :
              log[k].type = "session.reset" \/ (log[k].type \in EndTypes /\ log[k].run = log[j].run)}}
OpenSteps ==
    {<<log[i].run, log[i].step>> : i \in {j \in DOMAIN log :
        /\ log[j].type = "step.started"
        /\ ~\E k \in (j + 1)..Len(log) :
              \/ log[k].type = "session.reset"
              \/ /\ log[k].type = "step.ended"
                 /\ log[k].run = log[j].run /\ log[k].step = log[j].step}}

(* The process dies: everything but the database is lost.                  *)
Crash ==
    /\ mode # "down" /\ Trouble
    /\ mode' = "down" /\ crashes' = crashes + 1
    /\ scan' = [steps |-> {}, runs |-> {}]
    /\ rid' = None /\ terminal' = FALSE /\ stepNo' = 0 /\ pendingRun' = None /\ recBy' = None
    /\ live' = None /\ phase' = "idle"
    /\ busy' = FALSE /\ canceller' = None /\ commandMu' = None /\ op' = "none"
    /\ rpc' = [c \in Calls |-> IF rpc[c] \in {"reserved", "claimed", "saved"} THEN "lost" ELSE rpc[c]]
    /\ ui' = [c \in Calls |-> "none"]
    /\ msg' = [c \in Calls |-> "none"]
    /\ loop' = [c \in Calls |-> "none"]
    /\ UNCHANGED <<journalVars, gen, ctxVars, runOf, tokGen, turns, ops, slipped, faults>>

(* The session is opened again: RecoverInterruptedRuntime scans the        *)
(* journal, then closes steps and runs with one Append each; an error      *)
(* fails the open, and the next one scans again.                           *)
RecoverScan ==
    /\ mode = "down" /\ mode' = "recover"
    /\ scan' = [steps |-> OpenSteps, runs |-> OpenRuns]
    /\ UNCHANGED <<journalVars, recVars, runVars, ctlVars, ctxVars, callVars, opVars, faults, crashes>>

RecoverStep ==
    /\ mode = "recover"
    /\ \E s \in scan.steps :
          /\ log' = Append(log, Ev("step.ended", s[1], None, s[2]))
          /\ scan' = [scan EXCEPT !.steps = @ \ {s}]
    /\ UNCHANGED <<results, recVars, runVars, ctlVars, ctxVars, callVars, mode, crashes, opVars, faults>>

RecoverRun ==
    /\ mode = "recover" /\ scan.steps = {}
    /\ \E r \in scan.runs :
          /\ log' = Append(log, Ev("run.interrupted", r, None, 0))
          /\ scan' = [scan EXCEPT !.runs = @ \ {r}]
    /\ UNCHANGED <<results, recVars, runVars, ctlVars, ctxVars, callVars, mode, crashes, opVars, faults>>

(* Faulty variant: the session is opened although an Append failed.        *)
RecoverIgnoresError ==
    /\ mode = "recover" /\ scan.steps \cup scan.runs # {}
    /\ Fault
    /\ mode' = "up" /\ scan' = [steps |-> {}, runs |-> {}]
    /\ UNCHANGED <<journalVars, recVars, runVars, ctlVars, ctxVars, callVars, opVars, crashes>>

RecoverFails ==
    /\ mode = "recover" /\ scan.steps \cup scan.runs # {}
    /\ Fault
    /\ mode' = "down" /\ scan' = [steps |-> {}, runs |-> {}]
    /\ UNCHANGED <<journalVars, recVars, runVars, ctlVars, ctxVars, callVars, opVars, crashes>>

Recovered ==
    /\ mode = "recover" /\ scan.steps \cup scan.runs = {}
    /\ mode' = "up"
    /\ UNCHANGED <<journalVars, recVars, runVars, ctlVars, ctxVars, callVars, scan, crashes, opVars, faults>>
-----------------------------------------------------------------------------
RequestStep(c) ==
    \/ SubmitCommand(c) \/ ClaimBusy(c) \/ SaveResult(c) \/ SaveFails(c) \/ StartSubmit(c)
    \/ RequestContextEnds(c)
RunStep(c) ==
    \/ BeginExecution(c) \/ SubmitReturns(c) \/ EndsWithoutRun(c)
    \/ BeginRefused(c) \/ BeginRun(c) \/ BeginRunFails(c)
    \/ LoopCloses(c) \/ EndRun(c) \/ FinishExecution(c) \/ ContextHook(c)
LoopStep(c) ==
    \/ EnterLoop(c) \/ LoopTop(c) \/ BeginStep(c) \/ BeginStepFails(c) \/ PrepareTurn(c)
    \/ ModelEnds(c) \/ ModelRetries(c) \/ ContextRecoveryLimit(c) \/ ToolTurn(c) \/ ToolsRun(c)
    \/ DeliverDone(c) \/ DropDone(c)
OpStep == (\E kind \in {"abort", "clear"} : AbortEngine(kind)) \/ AbortSubmit \/ Reset
ProcessStep == Crash \/ RecoverScan \/ RecoverStep \/ RecoverRun \/ RecoverFails \/ Recovered

Next ==
    /\ \/ \E c \in Calls : RequestStep(c) \/ RunStep(c) \/ LoopStep(c)
       \/ OpStep \/ ProcessStep
    /\ UNCHANGED command

Spec == Init /\ [][Next]_vars
-----------------------------------------------------------------------------
Events == [type : EndTypes \cup {"run.started", "step.started", "step.ended", "session.reset"},
           run : RunIds \cup {None}, call : Calls \cup {None}, step : Nat, gen : Nat]

CallType ==
    /\ rpc \in [Calls -> {"new", "duplicate", "reserved", "refused", "claimed", "saved", "failed",
                          "accepted", "lost"}]
    /\ ui \in [Calls -> {"none", "start", "reading", "ended"}]
    /\ msg \in [Calls -> {"none", "begun", "looping", "forked", "ending", "finish", "closed"}]
    /\ loop \in [Calls -> {"none", "enter", "top", "step", "prepare", "model", "tools", "sending",
                           "ended"}]

RunType ==
    /\ rid \in RunIds \cup {None} /\ terminal \in BOOLEAN /\ stepNo \in Nat
    /\ pendingRun \in RunIds \cup {None} /\ recBy \in Calls \cup {None}
    /\ live \in Calls \cup {None} /\ gen \in Nat
    /\ phase \in {"idle", "active", "cancelling", "ended"}
    /\ runOf \in [Calls -> RunIds \cup {None}] /\ tokGen \in [Calls -> Nat]

StateType ==
    /\ command \in [Calls -> Commands]
    /\ results \in [Commands -> Calls \cup {None}]
    /\ busy \in BOOLEAN /\ canceller \in Calls \cup {None} /\ commandMu \in Calls \cup {None}
    /\ sctx \subseteq Calls /\ rctx \subseteq Calls
    /\ op \in {"none", "abort", "clear", "reset", "resetting"} /\ slipped \subseteq Calls
    /\ mode \in {"up", "down", "recover"}
    /\ scan \in [steps : SUBSET (RunIds \X Nat), runs : SUBSET RunIds]

TroubleType ==
    /\ faults \in Nat /\ ops \in Nat /\ crashes \in Nat
    /\ faults + ops + crashes <= MaxTrouble

(* Types of the state.                                                     *)
TypeOK ==
    /\ log \in Seq(Events) /\ turns \in [Calls -> 0..MaxTurns]
    /\ CallType /\ RunType /\ StateType /\ TroubleType

(* The call whose message goroutine is between BeginRun and EndRun.        *)
Alive(c) == msg[c] \in {"looping", "forked", "ending"}

Starts(r) == {i \in DOMAIN log : log[i].type = "run.started" /\ log[i].run = r}
Ends(r) == {i \in DOMAIN log : log[i].type \in EndTypes /\ log[i].run = r}

(* harness.ValidateInvariants finds no duplicate_run_start and no          *)
(* orphan_run_terminal: a run starts once, and ends once, after its start. *)
ValidRuns ==
    \A r \in RunIds :
        /\ \A i, j \in Starts(r) : i = j
        /\ \A i, j \in Ends(r) : i = j
        /\ \A j \in Ends(r) : \E i \in Starts(r) : i < j

(* When a run starts, every earlier run of the same conversation is        *)
(* closed, also across crashes: the recorder refuses a second run and      *)
(* recovery comes before the first.                                        *)
RunsDontOverlap ==
    \A i, j \in DOMAIN log :
        (/\ i < j /\ log[i].type = "run.started" /\ log[j].type = "run.started"
         /\ \A k \in i..j : log[k].type # "session.reset")
        => \E k \in i..j : log[k].type \in EndTypes /\ log[k].run = log[i].run

(* Between its BeginRun and its EndRun the recorder records the run of     *)
(* this call: no late goroutine of another call closes it or adds steps.   *)
LoopOwnsRecorder == \A c \in Calls : Alive(c) => Recording /\ recBy = c

(* A command starts one run at most, whatever the retries and crashes.     *)
OneRunPerCommand ==
    \A i, j \in DOMAIN log :
        (log[i].type = "run.started" /\ log[j].type = "run.started"
            /\ command[log[i].call] = command[log[j].call]) => i = j

(* After session.reset a call that began before the Reset aborted the      *)
(* runtime starts no run and no step any more; it only closes what it had  *)
(* open.  Only a call that began between that abort and the session.reset  *)
(* still does.                                                             *)
ResetFences ==
    \A i, j \in DOMAIN log :
        (i < j /\ log[i].type = "session.reset" /\ log[j].type \in {"run.started", "step.started"})
        => log[j].gen > log[i].gen \/ log[j].call \in slipped

=============================================================================
