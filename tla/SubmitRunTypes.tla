--------------------------- MODULE SubmitRunTypes ---------------------------
(***************************************************************************)
(* SubmitRun keeps its types, for any calls, commands and bounds, and the  *)
(* goroutines of a call their order; the recorder has one owner.           *)
(***************************************************************************)
EXTENDS SubmitRun, TLAPS

(* A step of queryLoop that moves the loop and writes nothing.             *)
LoopStates == {"none", "enter", "top", "step", "prepare", "model", "tools", "sending", "ended"}
LoopMove(c) ==
    /\ loop[c] \notin {"none", "ended"}
    /\ \E to \in LoopStates : loop' = [loop EXCEPT ![c] = to]
    /\ UNCHANGED <<log, results, rid, terminal, stepNo, pendingRun, recBy, live, phase, gen, busy,
                   canceller, commandMu, sctx, rctx, rpc, ui, msg, runOf, tokGen, op, slipped, mode,
                   scan, ops, crashes, command>>
    /\ UNCHANGED faults \/ Fault

(* Ten of the actions of queryLoop are such moves.                         *)
LEMMA LoopMoves ==
    ASSUME NEW c \in Calls, UNCHANGED command,
           \/ EnterLoop(c) \/ LoopTop(c) \/ BeginStepFails(c) \/ PrepareTurn(c) \/ ModelEnds(c)
           \/ ModelRetries(c) \/ ContextRecoveryLimit(c) \/ ToolTurn(c) \/ ToolsRun(c) \/ DropDone(c)
    PROVE  LoopMove(c)
<1> USE DEF LoopMove, LoopStates, GoTo, NoFault, journalVars, recVars, runVars, ctlVars, ctxVars,
   callVars, procVars, opVars
<1>1. CASE EnterLoop(c)
    BY <1>1, Zenon DEF EnterLoop
<1>2. CASE LoopTop(c)
    BY <1>2, Zenon DEF LoopTop
<1>3. CASE BeginStepFails(c)
    BY <1>3, Zenon DEF BeginStepFails
<1>4. CASE PrepareTurn(c)
    BY <1>4, Zenon DEF PrepareTurn
<1>5. CASE ModelEnds(c)
    BY <1>5, Zenon DEF ModelEnds
<1>6. CASE ModelRetries(c)
    BY <1>6, Zenon DEF ModelRetries
<1>7. CASE ContextRecoveryLimit(c)
    BY <1>7, Zenon DEF ContextRecoveryLimit
<1>8. CASE ToolTurn(c)
    BY <1>8, Zenon DEF ToolTurn
<1>9. CASE ToolsRun(c)
    BY <1>9, Zenon DEF ToolsRun
<1>10. CASE DropDone(c)
    BY <1>10, Zenon DEF DropDone
<1> QED
    BY <1>1, <1>2, <1>3, <1>4, <1>5, <1>6, <1>7, <1>8, <1>9, <1>10, Zenon

(* Where the goroutines of a call can be together, and that the live run   *)
(* of AgentRuntime has an id.                                              *)
Progress ==
    /\ \A c \in Calls :
          /\ ui[c] = "start" => msg[c] = "none"
          /\ ui[c] # "none" \/ msg[c] # "none" => rpc[c] = "accepted"
          /\ rpc[c] \in {"reserved", "claimed", "saved"} => commandMu = c
          /\ loop[c] \notin {"none", "ended"} => msg[c] = "looping"
          /\ mode # "up" => /\ ui[c] = "none" /\ msg[c] = "none"
                           /\ rpc[c] \notin {"reserved", "claimed", "saved"}
    /\ mode # "up" => op = "none"
    /\ phase \in {"active", "cancelling"} => live \in Calls /\ runOf[live] # None

(* No goroutine leaves the place Progress gives it.                        *)
LEMMA ProgressStep ==
    ASSUME TypeOK, Progress, [Next]_vars
    PROVE  Progress'
<1> USE DEF Progress, TypeOK, CallType, journalVars, recVars, runVars, ctlVars, ctxVars, callVars,
   procVars, opVars
<1>1. ASSUME NEW c \in Calls, SubmitCommand(c) PROVE Progress'
    BY <1>1, SubmitRunAssumption DEF SubmitCommand
<1>2. ASSUME NEW c \in Calls, ClaimBusy(c) PROVE Progress'
    BY <1>2 DEF ClaimBusy
<1>3. ASSUME NEW c \in Calls, SaveResult(c) PROVE Progress'
    BY <1>3 DEF SaveResult
<1>4. ASSUME NEW c \in Calls, SaveFails(c) PROVE Progress'
    BY <1>4 DEF SaveFails, NoFault, Fault, Trouble
<1>5. ASSUME NEW c \in Calls, StartSubmit(c) PROVE Progress'
    BY <1>5 DEF StartSubmit
<1>6. ASSUME NEW c \in Calls, RequestContextEnds(c) PROVE Progress'
    BY <1>6, Zenon DEF RequestContextEnds
<1>7. ASSUME NEW c \in Calls, BeginExecution(c) PROVE Progress'
<2>1. <<c, "runtime">> # None
    BY SubmitRunAssumption
<2>2. phase' \in {"active", "cancelling"} => live' \in Calls /\ runOf'[live'] # None
    BY <1>7, <2>1 DEF BeginExecution, RunType
<2>3. QED
    BY <1>7, <2>2 DEF BeginExecution
<1>8. ASSUME NEW c \in Calls, SubmitReturns(c) PROVE Progress'
    BY <1>8 DEF SubmitReturns
<1>9. ASSUME NEW c \in Calls, EndsWithoutRun(c) PROVE Progress'
    BY <1>9 DEF EndsWithoutRun
<1>10. ASSUME NEW c \in Calls, BeginRefused(c) PROVE Progress'
    BY <1>10 DEF BeginRefused, Recording
<1>11. ASSUME NEW c \in Calls, BeginRun(c) PROVE Progress'
    BY <1>11 DEF BeginRun, RunBegun, SetRecorder, BeginRunID, Recording, NoFault, Fault, Trouble,
       RunDone, Ev
<1>12. ASSUME NEW c \in Calls, BeginRunFails(c) PROVE Progress'
    BY <1>12 DEF BeginRunFails, SetRecorder, BeginRunID, Recording, NoFault, Fault, Trouble, RunDone
<1>13. ASSUME NEW c \in Calls, LoopCloses(c) PROVE Progress'
    BY <1>13 DEF LoopCloses
<1>14. ASSUME NEW c \in Calls, EndRun(c) PROVE Progress'
    BY <1>14 DEF EndRun, Recording, NoFault, Fault, Trouble, EndType, RunDone, Ev
<1>15. ASSUME NEW c \in Calls, FinishExecution(c) PROVE Progress'
    BY <1>15 DEF FinishExecution, RunActive, RunMatches
<1>16. ASSUME NEW c \in Calls, ContextHook(c) PROVE Progress'
    BY <1>16, Zenon DEF ContextHook, RunLive, RunActive, RunMatches
<1>17. ASSUME NEW c \in Calls, BeginStep(c) PROVE Progress'
    BY <1>17 DEF BeginStep, Recording, RunDone, Ev
<1>18. ASSUME NEW c \in Calls, DeliverDone(c) PROVE Progress'
    BY <1>18 DEF DeliverDone
<1>19. ASSUME NEW c \in Calls, LoopMove(c) PROVE Progress'
    BY <1>19 DEF LoopMove
<1>20. ASSUME NEW kind \in {"abort", "clear"}, AbortEngine(kind) PROVE Progress'
    BY <1>20, Zenon DEF AbortEngine, AbortRun, Trouble
<1>21. CASE AbortSubmit
    BY <1>21, Zenon DEF AbortSubmit
<1>22. CASE Reset
    BY <1>22, Zenon DEF Reset, ResetAborts, ResetPublishes, AbortRun, NoFault, Fault, Trouble, Ev
<1>23. CASE Crash
    BY <1>23, Zenon DEF Crash, Trouble
<1>24. CASE RecoverScan
    BY <1>24, Zenon DEF RecoverScan, OpenRuns, OpenSteps
<1>25. CASE RecoverStep
    BY <1>25, Zenon DEF RecoverStep, Ev
<1>26. CASE RecoverRun
    BY <1>26, Zenon DEF RecoverRun, Ev
<1>27. CASE RecoverFails
    BY <1>27, Zenon DEF RecoverFails, Fault, Trouble
<1>28. CASE Recovered
    BY <1>28, Zenon DEF Recovered
<1>29. CASE UNCHANGED vars
    BY <1>29, Zenon DEF vars
<1> QED
    BY LoopMoves, <1>1, <1>2, <1>3, <1>4, <1>5, <1>6, <1>7, <1>8, <1>9, <1>10, <1>11, <1>12,
       <1>13, <1>14, <1>15, <1>16, <1>17, <1>18, <1>19, <1>20, <1>21, <1>22, <1>23, <1>24, <1>25,
       <1>26, <1>27, <1>28, <1>29, ZenonT(30)
    DEF Next, RequestStep, RunStep, LoopStep, OpStep, ProcessStep

(* No action takes the recorder from the call that owns it.                *)
LEMMA OwnedStep ==
    ASSUME TypeOK, Progress, LoopOwnsRecorder, [Next]_vars
    PROVE  LoopOwnsRecorder'
<1> USE DEF LoopOwnsRecorder, Alive, Recording, Progress, TypeOK, CallType, journalVars, recVars,
   runVars, ctlVars, ctxVars, callVars, procVars, opVars
<1>1. ASSUME NEW c \in Calls, SubmitCommand(c) PROVE LoopOwnsRecorder'
    BY <1>1, Zenon DEF SubmitCommand
<1>2. ASSUME NEW c \in Calls, ClaimBusy(c) PROVE LoopOwnsRecorder'
    BY <1>2, Zenon DEF ClaimBusy
<1>3. ASSUME NEW c \in Calls, SaveResult(c) PROVE LoopOwnsRecorder'
    BY <1>3, Zenon DEF SaveResult
<1>4. ASSUME NEW c \in Calls, SaveFails(c) PROVE LoopOwnsRecorder'
    BY <1>4, Zenon DEF SaveFails, NoFault, Fault, Trouble
<1>5. ASSUME NEW c \in Calls, StartSubmit(c) PROVE LoopOwnsRecorder'
    BY <1>5, Zenon DEF StartSubmit
<1>6. ASSUME NEW c \in Calls, RequestContextEnds(c) PROVE LoopOwnsRecorder'
    BY <1>6, Zenon DEF RequestContextEnds
<1>7. ASSUME NEW c \in Calls, BeginExecution(c) PROVE LoopOwnsRecorder'
    BY <1>7 DEF BeginExecution
<1>8. ASSUME NEW c \in Calls, SubmitReturns(c) PROVE LoopOwnsRecorder'
    BY <1>8, Zenon DEF SubmitReturns
<1>9. ASSUME NEW c \in Calls, EndsWithoutRun(c) PROVE LoopOwnsRecorder'
    BY <1>9 DEF EndsWithoutRun
<1>10. ASSUME NEW c \in Calls, BeginRefused(c) PROVE LoopOwnsRecorder'
    BY <1>10 DEF BeginRefused, Recording
<1>11. ASSUME NEW c \in Calls, BeginRun(c) PROVE LoopOwnsRecorder'
    BY <1>11, SubmitRunAssumption DEF BeginRun, RunBegun, SetRecorder, BeginRunID, Recording,
       NoFault, Fault, Trouble, RunDone, Ev
<1>12. ASSUME NEW c \in Calls, BeginRunFails(c) PROVE LoopOwnsRecorder'
    BY <1>12, SubmitRunAssumption DEF BeginRunFails, SetRecorder, BeginRunID, Recording, NoFault,
       Fault, Trouble, RunDone
<1>13. ASSUME NEW c \in Calls, LoopCloses(c) PROVE LoopOwnsRecorder'
    BY <1>13 DEF LoopCloses
<1>14. ASSUME NEW c \in Calls, EndRun(c) PROVE LoopOwnsRecorder'
    BY <1>14 DEF EndRun, Recording, NoFault, Fault, Trouble, EndType, RunDone, Ev
<1>15. ASSUME NEW c \in Calls, FinishExecution(c) PROVE LoopOwnsRecorder'
    BY <1>15 DEF FinishExecution, RunActive, RunMatches
<1>16. ASSUME NEW c \in Calls, ContextHook(c) PROVE LoopOwnsRecorder'
    BY <1>16, Zenon DEF ContextHook, RunLive, RunActive, RunMatches
<1>17. ASSUME NEW c \in Calls, BeginStep(c) PROVE LoopOwnsRecorder'
    BY <1>17, Zenon DEF BeginStep, Recording, RunDone, Ev
<1>18. ASSUME NEW c \in Calls, DeliverDone(c) PROVE LoopOwnsRecorder'
    BY <1>18, ZenonT(30) DEF DeliverDone
<1>19. ASSUME NEW c \in Calls, LoopMove(c) PROVE LoopOwnsRecorder'
    BY <1>19, Zenon DEF LoopMove
<1>20. ASSUME NEW kind \in {"abort", "clear"}, AbortEngine(kind) PROVE LoopOwnsRecorder'
    BY <1>20, Zenon DEF AbortEngine, AbortRun, Trouble
<1>21. CASE AbortSubmit
    BY <1>21, Zenon DEF AbortSubmit
<1>22. CASE Reset
    BY <1>22, Zenon DEF Reset, ResetAborts, ResetPublishes, AbortRun, NoFault, Fault, Trouble, Ev
<1>23. CASE Crash
    BY <1>23, Zenon DEF Crash, Trouble
<1>24. CASE RecoverScan
    BY <1>24, Zenon DEF RecoverScan, OpenRuns, OpenSteps
<1>25. CASE RecoverStep
    BY <1>25, Zenon DEF RecoverStep, Ev
<1>26. CASE RecoverRun
    BY <1>26, Zenon DEF RecoverRun, Ev
<1>27. CASE RecoverFails
    BY <1>27, Zenon DEF RecoverFails, Fault, Trouble
<1>28. CASE Recovered
    BY <1>28, Zenon DEF Recovered
<1>29. CASE UNCHANGED vars
    BY <1>29, Zenon DEF vars
<1> QED
    BY LoopMoves, <1>1, <1>2, <1>3, <1>4, <1>5, <1>6, <1>7, <1>8, <1>9, <1>10, <1>11, <1>12,
       <1>13, <1>14, <1>15, <1>16, <1>17, <1>18, <1>19, <1>20, <1>21, <1>22, <1>23, <1>24, <1>25,
       <1>26, <1>27, <1>28, <1>29, ZenonT(30)
    DEF Next, RequestStep, RunStep, LoopStep, OpStep, ProcessStep

(* The loop counts its turns up to the limit only.                         *)
TurnsBounded == \A c \in Calls : loop[c] \in {"step", "prepare", "model", "tools"} => turns[c] < MaxTurns

(* queryLoop looks at its limit before every turn.                         *)
LEMMA TurnsStep ==
    ASSUME TypeOK, TurnsBounded, [Next]_vars
    PROVE  TurnsBounded' /\ turns' \in [Calls -> 0..MaxTurns]
<1> USE SubmitRunAssumption DEF TurnsBounded, TypeOK, CallType
<1>1. ASSUME NEW c \in Calls, EnterLoop(c) PROVE TurnsBounded' /\ turns' \in [Calls -> 0..MaxTurns]
    BY <1>1 DEF EnterLoop, GoTo
<1>2. ASSUME NEW c \in Calls, LoopTop(c) PROVE TurnsBounded' /\ turns' \in [Calls -> 0..MaxTurns]
    BY <1>2 DEF LoopTop, GoTo
<1>3. ASSUME NEW c \in Calls, BeginStepFails(c) PROVE TurnsBounded' /\ turns' \in [Calls -> 0..MaxTurns]
    BY <1>3, Zenon DEF BeginStepFails, GoTo
<1>4. ASSUME NEW c \in Calls, PrepareTurn(c) PROVE TurnsBounded' /\ turns' \in [Calls -> 0..MaxTurns]
    BY <1>4 DEF PrepareTurn, GoTo
<1>5. ASSUME NEW c \in Calls, ModelEnds(c) PROVE TurnsBounded' /\ turns' \in [Calls -> 0..MaxTurns]
    BY <1>5, Zenon DEF ModelEnds, GoTo
<1>6. ASSUME NEW c \in Calls, ModelRetries(c) PROVE TurnsBounded' /\ turns' \in [Calls -> 0..MaxTurns]
    BY <1>6 DEF ModelRetries, GoTo
<1>7. ASSUME NEW c \in Calls, ContextRecoveryLimit(c) PROVE TurnsBounded' /\ turns' \in [Calls -> 0..MaxTurns]
    BY <1>7, Zenon DEF ContextRecoveryLimit, GoTo
<1>8. ASSUME NEW c \in Calls, ToolTurn(c) PROVE TurnsBounded' /\ turns' \in [Calls -> 0..MaxTurns]
    BY <1>8, Zenon DEF ToolTurn, GoTo
<1>9. ASSUME NEW c \in Calls, ToolsRun(c) PROVE TurnsBounded' /\ turns' \in [Calls -> 0..MaxTurns]
<2>1. CASE UNCHANGED turns
    BY <1>9, <2>1, Zenon DEF ToolsRun, GoTo
<2>2. CASE turns' = [turns EXCEPT ![c] = @ + 1] /\ GoTo(c, "top")
  <3>1. turns[c] \in Nat /\ turns[c] < MaxTurns
      BY <1>9 DEF ToolsRun
  <3>2. turns' \in [Calls -> 0..MaxTurns]
      BY <2>2, <3>1
  <3>3. TurnsBounded'
      BY <2>2, Zenon DEF GoTo
  <3>4. QED
      BY <3>2, <3>3, Zenon
<2>3. QED
    BY <1>9, <2>1, <2>2, Zenon DEF ToolsRun
<1>10. ASSUME NEW c \in Calls, DropDone(c) PROVE TurnsBounded' /\ turns' \in [Calls -> 0..MaxTurns]
    BY <1>10, Zenon DEF DropDone, GoTo
<1>11. ASSUME NEW c \in Calls, SubmitCommand(c) PROVE TurnsBounded' /\ turns' \in [Calls -> 0..MaxTurns]
    BY <1>11, Zenon DEF SubmitCommand, callVars
<1>12. ASSUME NEW c \in Calls, ClaimBusy(c) PROVE TurnsBounded' /\ turns' \in [Calls -> 0..MaxTurns]
    BY <1>12, Zenon DEF ClaimBusy, callVars
<1>13. ASSUME NEW c \in Calls, SaveResult(c) PROVE TurnsBounded' /\ turns' \in [Calls -> 0..MaxTurns]
    BY <1>13, Zenon DEF SaveResult, callVars
<1>14. ASSUME NEW c \in Calls, SaveFails(c) PROVE TurnsBounded' /\ turns' \in [Calls -> 0..MaxTurns]
    BY <1>14, Zenon DEF SaveFails, callVars
<1>15. ASSUME NEW c \in Calls, StartSubmit(c) PROVE TurnsBounded' /\ turns' \in [Calls -> 0..MaxTurns]
    BY <1>15, Zenon DEF StartSubmit, callVars
<1>16. ASSUME NEW c \in Calls, RequestContextEnds(c) PROVE TurnsBounded' /\ turns' \in [Calls -> 0..MaxTurns]
    BY <1>16, Zenon DEF RequestContextEnds, callVars
<1>17. ASSUME NEW c \in Calls, BeginExecution(c) PROVE TurnsBounded' /\ turns' \in [Calls -> 0..MaxTurns]
    BY <1>17, Zenon DEF BeginExecution, callVars
<1>18. ASSUME NEW c \in Calls, SubmitReturns(c) PROVE TurnsBounded' /\ turns' \in [Calls -> 0..MaxTurns]
    BY <1>18, Zenon DEF SubmitReturns, callVars
<1>19. ASSUME NEW c \in Calls, EndsWithoutRun(c) PROVE TurnsBounded' /\ turns' \in [Calls -> 0..MaxTurns]
    BY <1>19, Zenon DEF EndsWithoutRun, callVars
<1>20. ASSUME NEW c \in Calls, BeginRefused(c) PROVE TurnsBounded' /\ turns' \in [Calls -> 0..MaxTurns]
    BY <1>20, Zenon DEF BeginRefused, callVars
<1>21. ASSUME NEW c \in Calls, BeginRun(c) PROVE TurnsBounded' /\ turns' \in [Calls -> 0..MaxTurns]
    BY <1>21 DEF BeginRun, RunBegun, callVars
<1>22. ASSUME NEW c \in Calls, BeginRunFails(c) PROVE TurnsBounded' /\ turns' \in [Calls -> 0..MaxTurns]
    BY <1>22, Zenon DEF BeginRunFails, callVars
<1>23. ASSUME NEW c \in Calls, LoopCloses(c) PROVE TurnsBounded' /\ turns' \in [Calls -> 0..MaxTurns]
    BY <1>23, Zenon DEF LoopCloses, callVars
<1>24. ASSUME NEW c \in Calls, EndRun(c) PROVE TurnsBounded' /\ turns' \in [Calls -> 0..MaxTurns]
    BY <1>24, Zenon DEF EndRun, callVars
<1>25. ASSUME NEW c \in Calls, FinishExecution(c) PROVE TurnsBounded' /\ turns' \in [Calls -> 0..MaxTurns]
    BY <1>25, Zenon DEF FinishExecution, callVars
<1>26. ASSUME NEW c \in Calls, ContextHook(c) PROVE TurnsBounded' /\ turns' \in [Calls -> 0..MaxTurns]
    BY <1>26, Zenon DEF ContextHook, callVars
<1>27. ASSUME NEW c \in Calls, BeginStep(c) PROVE TurnsBounded' /\ turns' \in [Calls -> 0..MaxTurns]
    BY <1>27, Zenon DEF BeginStep, callVars
<1>28. ASSUME NEW c \in Calls, DeliverDone(c) PROVE TurnsBounded' /\ turns' \in [Calls -> 0..MaxTurns]
    BY <1>28, Zenon DEF DeliverDone, callVars
<1>29. ASSUME NEW kind \in {"abort", "clear"}, AbortEngine(kind) PROVE TurnsBounded' /\ turns' \in [Calls -> 0..MaxTurns]
    BY <1>29, Zenon DEF AbortEngine, callVars
<1>30. CASE AbortSubmit
    BY <1>30, Zenon DEF AbortSubmit, callVars
<1>31. CASE Reset
    BY <1>31, Zenon DEF Reset, ResetAborts, ResetPublishes, AbortRun, callVars
<1>32. CASE Crash
    BY <1>32, Zenon DEF Crash, callVars
<1>33. CASE RecoverScan
    BY <1>33, Zenon DEF RecoverScan, callVars
<1>34. CASE RecoverStep
    BY <1>34, Zenon DEF RecoverStep, callVars
<1>35. CASE RecoverRun
    BY <1>35, Zenon DEF RecoverRun, callVars
<1>36. CASE RecoverFails
    BY <1>36, Zenon DEF RecoverFails, callVars
<1>37. CASE Recovered
    BY <1>37, Zenon DEF Recovered, callVars
<1>38. CASE UNCHANGED vars
    BY <1>38, Zenon DEF vars
<1> QED
    BY <1>1, <1>2, <1>3, <1>4, <1>5, <1>6, <1>7, <1>8, <1>9, <1>10, <1>11, <1>12, <1>13, <1>14,
       <1>15, <1>16, <1>17, <1>18, <1>19, <1>20, <1>21, <1>22, <1>23, <1>24, <1>25, <1>26, <1>27,
       <1>28, <1>29, <1>30, <1>31, <1>32, <1>33, <1>34, <1>35, <1>36, <1>37, <1>38, Zenon
    DEF Next, RequestStep, RunStep, LoopStep, OpStep, ProcessStep

(* The types of the requests and goroutines are kept.                      *)
LEMMA CallTypeStep ==
    ASSUME CallType, [Next]_vars
    PROVE  CallType'
<1> USE DEF CallType, LoopStates, journalVars, recVars, runVars, ctlVars, ctxVars, callVars,
   procVars, opVars
<1>1. ASSUME NEW c \in Calls, SubmitCommand(c) PROVE CallType'
    BY <1>1, Zenon DEF SubmitCommand
<1>2. ASSUME NEW c \in Calls, ClaimBusy(c) PROVE CallType'
    BY <1>2, Zenon DEF ClaimBusy
<1>3. ASSUME NEW c \in Calls, SaveResult(c) PROVE CallType'
    BY <1>3, Zenon DEF SaveResult
<1>4. ASSUME NEW c \in Calls, SaveFails(c) PROVE CallType'
    BY <1>4, Zenon DEF SaveFails, NoFault, Fault, Trouble
<1>5. ASSUME NEW c \in Calls, StartSubmit(c) PROVE CallType'
    BY <1>5, Zenon DEF StartSubmit
<1>6. ASSUME NEW c \in Calls, RequestContextEnds(c) PROVE CallType'
    BY <1>6, Zenon DEF RequestContextEnds
<1>7. ASSUME NEW c \in Calls, BeginExecution(c) PROVE CallType'
    BY <1>7, Zenon DEF BeginExecution
<1>8. ASSUME NEW c \in Calls, SubmitReturns(c) PROVE CallType'
    BY <1>8, Zenon DEF SubmitReturns
<1>9. ASSUME NEW c \in Calls, EndsWithoutRun(c) PROVE CallType'
    BY <1>9, Zenon DEF EndsWithoutRun
<1>10. ASSUME NEW c \in Calls, BeginRefused(c) PROVE CallType'
    BY <1>10, Zenon DEF BeginRefused, Recording
<1>11. ASSUME NEW c \in Calls, BeginRun(c) PROVE CallType'
    BY <1>11, ZenonT(30) DEF BeginRun, RunBegun, SetRecorder, BeginRunID, Recording, NoFault, Fault, Trouble,
       RunDone, Ev
<1>12. ASSUME NEW c \in Calls, BeginRunFails(c) PROVE CallType'
    BY <1>12, Zenon DEF BeginRunFails, SetRecorder, BeginRunID, Recording, NoFault, Fault, Trouble, RunDone
<1>13. ASSUME NEW c \in Calls, LoopCloses(c) PROVE CallType'
    BY <1>13, Zenon DEF LoopCloses
<1>14. ASSUME NEW c \in Calls, EndRun(c) PROVE CallType'
    BY <1>14, Zenon DEF EndRun, Recording, NoFault, Fault, Trouble, EndType, RunDone, Ev
<1>15. ASSUME NEW c \in Calls, FinishExecution(c) PROVE CallType'
    BY <1>15, Zenon DEF FinishExecution, RunActive, RunMatches
<1>16. ASSUME NEW c \in Calls, ContextHook(c) PROVE CallType'
    BY <1>16, Zenon DEF ContextHook, RunLive, RunActive, RunMatches
<1>17. ASSUME NEW c \in Calls, BeginStep(c) PROVE CallType'
    BY <1>17, Zenon DEF BeginStep, Recording, RunDone, Ev
<1>18. ASSUME NEW c \in Calls, DeliverDone(c) PROVE CallType'
    BY <1>18, Zenon DEF DeliverDone
<1>19. ASSUME NEW c \in Calls, LoopMove(c) PROVE CallType'
    BY <1>19, Zenon DEF LoopMove
<1>20. ASSUME NEW kind \in {"abort", "clear"}, AbortEngine(kind) PROVE CallType'
    BY <1>20, Zenon DEF AbortEngine, AbortRun, Trouble
<1>21. CASE AbortSubmit
    BY <1>21, Zenon DEF AbortSubmit
<1>22. CASE Reset
    BY <1>22, Zenon DEF Reset, ResetAborts, ResetPublishes, AbortRun, NoFault, Fault, Trouble, Ev
<1>23. CASE Crash
    BY <1>23, Zenon DEF Crash, Trouble
<1>24. CASE RecoverScan
    BY <1>24, Zenon DEF RecoverScan, OpenRuns, OpenSteps
<1>25. CASE RecoverStep
    BY <1>25, Zenon DEF RecoverStep, Ev
<1>26. CASE RecoverRun
    BY <1>26, Zenon DEF RecoverRun, Ev
<1>27. CASE RecoverFails
    BY <1>27, Zenon DEF RecoverFails, Fault, Trouble
<1>28. CASE Recovered
    BY <1>28, Zenon DEF Recovered
<1>29. CASE UNCHANGED vars
    BY <1>29, Zenon DEF vars
<1> QED
    BY LoopMoves, <1>1, <1>2, <1>3, <1>4, <1>5, <1>6, <1>7, <1>8, <1>9, <1>10, <1>11, <1>12,
       <1>13, <1>14, <1>15, <1>16, <1>17, <1>18, <1>19, <1>20, <1>21, <1>22, <1>23, <1>24, <1>25,
       <1>26, <1>27, <1>28, <1>29, Zenon
    DEF Next, RequestStep, RunStep, LoopStep, OpStep, ProcessStep

(* The types of the recorder and of AgentRuntime are kept.                 *)
LEMMA RunTypeStep ==
    ASSUME CallType, RunType, [Next]_vars
    PROVE  RunType'
<1> USE DEF RunType, RunIds, journalVars, recVars, runVars, ctlVars, ctxVars, callVars, procVars,
   opVars
<1>1. ASSUME NEW c \in Calls, SubmitCommand(c) PROVE RunType'
    BY <1>1 DEF SubmitCommand
<1>2. ASSUME NEW c \in Calls, ClaimBusy(c) PROVE RunType'
    BY <1>2, Zenon DEF ClaimBusy
<1>3. ASSUME NEW c \in Calls, SaveResult(c) PROVE RunType'
    BY <1>3, Zenon DEF SaveResult
<1>4. ASSUME NEW c \in Calls, SaveFails(c) PROVE RunType'
    BY <1>4, Zenon DEF SaveFails, NoFault, Fault, Trouble
<1>5. ASSUME NEW c \in Calls, StartSubmit(c) PROVE RunType'
    BY <1>5, Zenon DEF StartSubmit
<1>6. ASSUME NEW c \in Calls, RequestContextEnds(c) PROVE RunType'
    BY <1>6, Zenon DEF RequestContextEnds
<1>7. ASSUME NEW c \in Calls, BeginExecution(c) PROVE RunType'
    BY <1>7 DEF BeginExecution
<1>8. ASSUME NEW c \in Calls, SubmitReturns(c) PROVE RunType'
    BY <1>8, Zenon DEF SubmitReturns
<1>9. ASSUME NEW c \in Calls, EndsWithoutRun(c) PROVE RunType'
    BY <1>9, Zenon DEF EndsWithoutRun
<1>10. ASSUME NEW c \in Calls, BeginRefused(c) PROVE RunType'
    BY <1>10, Zenon DEF BeginRefused, Recording
<1>11. ASSUME NEW c \in Calls, BeginRun(c) PROVE RunType'
    BY <1>11, Zenon DEF BeginRun, RunBegun, SetRecorder, BeginRunID, Recording, NoFault, Fault, Trouble,
       RunDone, Ev
<1>12. ASSUME NEW c \in Calls, BeginRunFails(c) PROVE RunType'
    BY <1>12, Zenon DEF BeginRunFails, SetRecorder, BeginRunID, Recording, NoFault, Fault, Trouble, RunDone
<1>13. ASSUME NEW c \in Calls, LoopCloses(c) PROVE RunType'
    BY <1>13, Zenon DEF LoopCloses
<1>14. ASSUME NEW c \in Calls, EndRun(c) PROVE RunType'
    BY <1>14, Zenon DEF EndRun, Recording, NoFault, Fault, Trouble, EndType, RunDone, Ev
<1>15. ASSUME NEW c \in Calls, FinishExecution(c) PROVE RunType'
    BY <1>15, Zenon DEF FinishExecution, RunActive, RunMatches
<1>16. ASSUME NEW c \in Calls, ContextHook(c) PROVE RunType'
    BY <1>16, Zenon DEF ContextHook, RunLive, RunActive, RunMatches
<1>17. ASSUME NEW c \in Calls, BeginStep(c) PROVE RunType'
    BY <1>17 DEF BeginStep, Recording, RunDone, Ev
<1>18. ASSUME NEW c \in Calls, DeliverDone(c) PROVE RunType'
    BY <1>18, Zenon DEF DeliverDone
<1>19. ASSUME NEW c \in Calls, LoopMove(c) PROVE RunType'
    BY <1>19, Zenon DEF LoopMove
<1>20. ASSUME NEW kind \in {"abort", "clear"}, AbortEngine(kind) PROVE RunType'
    BY <1>20, Zenon DEF AbortEngine, AbortRun, Trouble
<1>21. CASE AbortSubmit
    BY <1>21, Zenon DEF AbortSubmit
<1>22. CASE Reset
    BY <1>22 DEF Reset, ResetAborts, ResetPublishes, AbortRun, NoFault, Fault, Trouble, Ev
<1>23. CASE Crash
    BY <1>23, Zenon DEF Crash, Trouble
<1>24. CASE RecoverScan
    BY <1>24, Zenon DEF RecoverScan, OpenRuns, OpenSteps
<1>25. CASE RecoverStep
    BY <1>25, Zenon DEF RecoverStep, Ev
<1>26. CASE RecoverRun
    BY <1>26, Zenon DEF RecoverRun, Ev
<1>27. CASE RecoverFails
    BY <1>27, Zenon DEF RecoverFails, Fault, Trouble
<1>28. CASE Recovered
    BY <1>28, Zenon DEF Recovered
<1>29. CASE UNCHANGED vars
    BY <1>29, Zenon DEF vars
<1> QED
    BY LoopMoves, <1>1, <1>2, <1>3, <1>4, <1>5, <1>6, <1>7, <1>8, <1>9, <1>10, <1>11, <1>12,
       <1>13, <1>14, <1>15, <1>16, <1>17, <1>18, <1>19, <1>20, <1>21, <1>22, <1>23, <1>24, <1>25,
       <1>26, <1>27, <1>28, <1>29, ZenonT(30)
    DEF Next, RequestStep, RunStep, LoopStep, OpStep, ProcessStep

(* Every event but session.reset names a run.                              *)
Named(s) == \A i \in DOMAIN s : s[i].type # "session.reset" => s[i].run \in RunIds
RunsNamed == Named(log)

(* A scan of the journal finds runs and steps.                             *)
LEMMA OpenTypes ==
    ASSUME log \in Seq(Events), RunsNamed
    PROVE  OpenRuns \in SUBSET RunIds /\ OpenSteps \in SUBSET (RunIds \X Nat)
<1>1. \A i \in DOMAIN log : log[i].type = "run.started" => log[i].run \in RunIds
    BY Zenon DEF RunsNamed, Named
<1>2. \A i \in DOMAIN log :
         log[i].type = "step.started" => log[i].run \in RunIds /\ log[i].step \in Nat
  <2>1. \A i \in DOMAIN log : log[i] \in Events
      OBVIOUS
  <2>2. QED
      BY <2>1, Zenon DEF Events, RunsNamed, Named
<1>3. OpenRuns \in SUBSET RunIds
    BY <1>1, Zenon DEF OpenRuns
<1>4. OpenSteps \in SUBSET (RunIds \X Nat)
    BY <1>2 DEF OpenSteps
<1>5. QED
    BY <1>3, <1>4, Zenon

(* The types of the controller, contexts and scan are kept.                *)
LEMMA StateTypeStep ==
    ASSUME CallType, RunType, StateType, log \in Seq(Events), RunsNamed, Progress, [Next]_vars
    PROVE  StateType'
<1> USE DEF StateType, Progress, journalVars, recVars, runVars, ctlVars, ctxVars, callVars,
   procVars, opVars
<1>c. command' = command
    BY Zenon DEF Next, vars
<1>1. ASSUME NEW c \in Calls, SubmitCommand(c) PROVE StateType'
    BY <1>1, <1>c, Zenon DEF SubmitCommand
<1>2. ASSUME NEW c \in Calls, ClaimBusy(c) PROVE StateType'
    BY <1>2, <1>c, Zenon DEF ClaimBusy
<1>3. ASSUME NEW c \in Calls, SaveResult(c) PROVE StateType'
    BY <1>3, <1>c, Zenon DEF SaveResult
<1>4. ASSUME NEW c \in Calls, SaveFails(c) PROVE StateType'
<2>1. results' \in [Commands -> Calls \cup {None}]
    BY <1>4, <1>c, Zenon DEF SaveFails
<2>2. QED
    BY <1>4, <1>c, <2>1, Zenon DEF SaveFails
<1>5. ASSUME NEW c \in Calls, StartSubmit(c) PROVE StateType'
    BY <1>5, <1>c, Zenon DEF StartSubmit
<1>6. ASSUME NEW c \in Calls, RequestContextEnds(c) PROVE StateType'
    BY <1>6, <1>c, Zenon DEF RequestContextEnds
<1>7. ASSUME NEW c \in Calls, BeginExecution(c) PROVE StateType'
    BY <1>7, <1>c, Zenon DEF BeginExecution
<1>8. ASSUME NEW c \in Calls, SubmitReturns(c) PROVE StateType'
    BY <1>8, <1>c, Zenon DEF SubmitReturns
<1>9. ASSUME NEW c \in Calls, EndsWithoutRun(c) PROVE StateType'
    BY <1>9, <1>c, Zenon DEF EndsWithoutRun
<1>10. ASSUME NEW c \in Calls, BeginRefused(c) PROVE StateType'
    BY <1>10, <1>c, Zenon DEF BeginRefused, Recording
<1>11. ASSUME NEW c \in Calls, BeginRun(c) PROVE StateType'
    BY <1>11, <1>c, Zenon DEF BeginRun, RunBegun, SetRecorder, BeginRunID, Recording, NoFault, Fault,
       Trouble, RunDone, Ev
<1>12. ASSUME NEW c \in Calls, BeginRunFails(c) PROVE StateType'
    BY <1>12, <1>c, Zenon DEF BeginRunFails, SetRecorder, BeginRunID, Recording, NoFault, Fault, Trouble,
       RunDone
<1>13. ASSUME NEW c \in Calls, LoopCloses(c) PROVE StateType'
    BY <1>13, <1>c, Zenon DEF LoopCloses
<1>14. ASSUME NEW c \in Calls, EndRun(c) PROVE StateType'
    BY <1>14, <1>c, Zenon DEF EndRun, Recording, NoFault, Fault, Trouble, EndType, RunDone, Ev
<1>15. ASSUME NEW c \in Calls, FinishExecution(c) PROVE StateType'
    BY <1>15, <1>c DEF FinishExecution, RunActive, RunMatches
<1>16. ASSUME NEW c \in Calls, ContextHook(c) PROVE StateType'
    BY <1>16, <1>c, Zenon DEF ContextHook, RunLive, RunActive, RunMatches
<1>17. ASSUME NEW c \in Calls, BeginStep(c) PROVE StateType'
    BY <1>17, <1>c, Zenon DEF BeginStep, Recording, RunDone, Ev
<1>18. ASSUME NEW c \in Calls, DeliverDone(c) PROVE StateType'
    BY <1>18, <1>c, Zenon DEF DeliverDone
<1>19. ASSUME NEW c \in Calls, LoopMove(c) PROVE StateType'
    BY <1>19, <1>c, Zenon DEF LoopMove
<1>20. ASSUME NEW kind \in {"abort", "clear"}, AbortEngine(kind) PROVE StateType'
    BY <1>20, <1>c, Zenon DEF AbortEngine, AbortRun, Trouble
<1>21. CASE AbortSubmit
    BY <1>21, <1>c, Zenon DEF AbortSubmit
<1>22. CASE Reset
    BY <1>22, <1>c, Zenon DEF Reset, ResetAborts, ResetPublishes, AbortRun, NoFault, Fault, Trouble, Ev
<1>23. CASE Crash
    BY <1>23, <1>c, Zenon DEF Crash, Trouble
<1>24. CASE RecoverScan
<2>1. OpenRuns \in SUBSET RunIds
    BY OpenTypes, Zenon
<2>2. OpenSteps \in SUBSET (RunIds \X Nat)
    BY OpenTypes, Zenon
<2>3. QED
    BY <1>24, <1>c, <2>1, <2>2, Zenon DEF RecoverScan
<1>25. CASE RecoverStep
    BY <1>25, <1>c, SMTT(30) DEF RecoverStep, Ev
<1>26. CASE RecoverRun
    BY <1>26, <1>c, SMTT(30) DEF RecoverRun, Ev
<1>27. CASE RecoverFails
    BY <1>27, <1>c, Zenon DEF RecoverFails, Fault, Trouble
<1>28. CASE Recovered
    BY <1>28, <1>c, Zenon DEF Recovered
<1>29. CASE UNCHANGED vars
    BY <1>29, <1>c, Zenon DEF vars
<1> QED
    BY LoopMoves, <1>1, <1>2, <1>3, <1>4, <1>5, <1>6, <1>7, <1>8, <1>9, <1>10, <1>11, <1>12,
       <1>13, <1>14, <1>15, <1>16, <1>17, <1>18, <1>19, <1>20, <1>21, <1>22, <1>23, <1>24, <1>25,
       <1>26, <1>27, <1>28, <1>29, Zenon
    DEF Next, RequestStep, RunStep, LoopStep, OpStep, ProcessStep

(* What the program appends is an event.                                   *)
LEMMA EvType ==
    ASSUME RunType,
           NEW t \in EndTypes \cup {"run.started", "step.started", "step.ended", "session.reset"},
           NEW r \in RunIds \cup {None}, NEW c \in Calls \cup {None}, NEW n \in Nat
    PROVE  Ev(t, r, c, n) \in Events
BY Zenon DEF Ev, Events, RunType

(* What Append does to a sequence.                                         *)
LEMMA AppendFacts ==
    ASSUME NEW S, NEW s \in Seq(S), NEW e \in S
    PROVE  /\ Append(s, e) \in Seq(S)
           /\ Len(s) \in Nat /\ DOMAIN s = 1..Len(s)
           /\ Len(Append(s, e)) = Len(s) + 1
           /\ DOMAIN Append(s, e) = 1..(Len(s) + 1)
           /\ \A i \in 1..Len(s) : Append(s, e)[i] = s[i]
           /\ Append(s, e)[Len(s) + 1] = e
OBVIOUS

(* The bounds on faults, requests and crashes are kept.                    *)
LEMMA TroubleStep ==
    ASSUME TroubleType, [Next]_vars
    PROVE  TroubleType'
<1> USE DEF TroubleType, Trouble, Fault, NoFault, journalVars, recVars, runVars, ctlVars, ctxVars,
   callVars, procVars, opVars
<1>1. ASSUME NEW c \in Calls, SubmitCommand(c) PROVE TroubleType'
    BY <1>1, Zenon DEF SubmitCommand
<1>2. ASSUME NEW c \in Calls, ClaimBusy(c) PROVE TroubleType'
    BY <1>2, Zenon DEF ClaimBusy
<1>3. ASSUME NEW c \in Calls, SaveResult(c) PROVE TroubleType'
    BY <1>3, Zenon DEF SaveResult
<1>4. ASSUME NEW c \in Calls, SaveFails(c) PROVE TroubleType'
    BY <1>4, SubmitRunAssumption DEF SaveFails
<1>5. ASSUME NEW c \in Calls, StartSubmit(c) PROVE TroubleType'
    BY <1>5, Zenon DEF StartSubmit
<1>6. ASSUME NEW c \in Calls, RequestContextEnds(c) PROVE TroubleType'
    BY <1>6, Zenon DEF RequestContextEnds
<1>7. ASSUME NEW c \in Calls, BeginExecution(c) PROVE TroubleType'
    BY <1>7, Zenon DEF BeginExecution
<1>8. ASSUME NEW c \in Calls, SubmitReturns(c) PROVE TroubleType'
    BY <1>8, Zenon DEF SubmitReturns
<1>9. ASSUME NEW c \in Calls, EndsWithoutRun(c) PROVE TroubleType'
    BY <1>9, Zenon DEF EndsWithoutRun
<1>10. ASSUME NEW c \in Calls, BeginRefused(c) PROVE TroubleType'
    BY <1>10, Zenon DEF BeginRefused, Recording
<1>11. ASSUME NEW c \in Calls, BeginRun(c) PROVE TroubleType'
    BY <1>11, SubmitRunAssumption DEF BeginRun, RunBegun
<1>12. ASSUME NEW c \in Calls, BeginRunFails(c) PROVE TroubleType'
    BY <1>12, SubmitRunAssumption DEF BeginRunFails
<1>13. ASSUME NEW c \in Calls, LoopCloses(c) PROVE TroubleType'
    BY <1>13, Zenon DEF LoopCloses
<1>14. ASSUME NEW c \in Calls, EndRun(c) PROVE TroubleType'
    BY <1>14, SubmitRunAssumption DEF EndRun
<1>15. ASSUME NEW c \in Calls, FinishExecution(c) PROVE TroubleType'
    BY <1>15, Zenon DEF FinishExecution, RunActive, RunMatches
<1>16. ASSUME NEW c \in Calls, ContextHook(c) PROVE TroubleType'
    BY <1>16, Zenon DEF ContextHook, RunLive, RunActive, RunMatches
<1>17. ASSUME NEW c \in Calls, BeginStep(c) PROVE TroubleType'
    BY <1>17, Zenon DEF BeginStep, Recording, RunDone, Ev
<1>18. ASSUME NEW c \in Calls, DeliverDone(c) PROVE TroubleType'
    BY <1>18, Zenon DEF DeliverDone
<1>19. ASSUME NEW c \in Calls, LoopMove(c) PROVE TroubleType'
    BY <1>19, SubmitRunAssumption DEF LoopMove
<1>20. ASSUME NEW kind \in {"abort", "clear"}, AbortEngine(kind) PROVE TroubleType'
    BY <1>20, SubmitRunAssumption DEF AbortEngine, AbortRun, Trouble
<1>21. CASE AbortSubmit
    BY <1>21, Zenon DEF AbortSubmit
<1>22. CASE Reset
    BY <1>22, SubmitRunAssumption, SMTT(30) DEF Reset, ResetAborts, ResetPublishes, AbortRun
<1>23. CASE Crash
    BY <1>23, SubmitRunAssumption DEF Crash
<1>24. CASE RecoverScan
    BY <1>24, Zenon DEF RecoverScan, OpenRuns, OpenSteps
<1>25. CASE RecoverStep
    BY <1>25, Zenon DEF RecoverStep, Ev
<1>26. CASE RecoverRun
    BY <1>26, Zenon DEF RecoverRun, Ev
<1>27. CASE RecoverFails
    BY <1>27, SubmitRunAssumption DEF RecoverFails
<1>28. CASE Recovered
    BY <1>28, Zenon DEF Recovered
<1>29. CASE UNCHANGED vars
    BY <1>29, Zenon DEF vars
<1> QED
    BY LoopMoves, <1>1, <1>2, <1>3, <1>4, <1>5, <1>6, <1>7, <1>8, <1>9, <1>10, <1>11, <1>12,
       <1>13, <1>14, <1>15, <1>16, <1>17, <1>18, <1>19, <1>20, <1>21, <1>22, <1>23, <1>24, <1>25,
       <1>26, <1>27, <1>28, <1>29, SMTT(30)
    DEF Next, RequestStep, RunStep, LoopStep, OpStep, ProcessStep

(* An event that names its run keeps the journal named.                    *)
LEMMA NamedAppend ==
    ASSUME NEW s \in Seq(Events), Named(s), NEW e \in Events,
           e.type # "session.reset" => e.run \in RunIds
    PROVE  Append(s, e) \in Seq(Events) /\ Named(Append(s, e))
<1>1. \A i \in 1..(Len(s) + 1) : i \in 1..Len(s) \/ i = Len(s) + 1
    BY AppendFacts
<1>2. QED
    BY <1>1, AppendFacts DEF Named

(* What closing the open step does to the journal.                         *)
LEMMA ClosedFacts ==
    ASSUME NEW c \in Calls, RunType, log \in Seq(Events), Named(log), rid \in RunIds
    PROVE  /\ StepClosed(c) \in Seq(Events) /\ Named(StepClosed(c))
           /\ Len(log) \in Nat /\ Len(StepClosed(c)) \in Nat /\ Len(log) <= Len(StepClosed(c))
           /\ \A i \in 1..Len(log) : StepClosed(c)[i] = log[i]
           /\ \A i \in 1..Len(StepClosed(c)) :
                 i \in 1..Len(log) \/ StepClosed(c)[i].type = "step.ended"
<1> DEFINE e == Ev("step.ended", rid, c, stepNo)
<1>1. e \in Events
    BY EvType, Zenon DEF RunType
<1>2. e.type = "step.ended" /\ e.run = rid
    BY Zenon DEF Ev
<1> HIDE DEF e
<1>3. Append(log, e) \in Seq(Events) /\ Named(Append(log, e))
    BY <1>1, <1>2, NamedAppend, Zenon
<1>4. CASE stepNo = 0
    BY <1>4 DEF StepClosed
<1>5. CASE stepNo # 0
  <2>1. StepClosed(c) = Append(log, e)
      BY <1>5, Zenon DEF StepClosed, e
  <2>2. \A i \in 1..(Len(log) + 1) : i \in 1..Len(log) \/ i = Len(log) + 1
      BY AppendFacts
  <2>3. QED
      BY <2>1, <2>2, <1>1, <1>2, <1>3, AppendFacts
<1>6. QED
    BY <1>4, <1>5, Zenon

(* BeginRun always finds or mints a run id.                                *)
LEMMA BeginIDType ==
    ASSUME NEW c \in Calls, RunType, Progress
    PROVE  BeginRunID(c) \in RunIds
BY Zenon DEF BeginRunID, RunType, Progress, RunIds

(* The journal holds events, and they name their runs.                     *)
LEMMA LogTypeStep ==
    ASSUME CallType, RunType, StateType, log \in Seq(Events), Named(log), Progress, [Next]_vars
    PROVE  log' \in Seq(Events) /\ Named(log')
<1> USE DEF journalVars, recVars, runVars, ctlVars, ctxVars, callVars, procVars, opVars
<1>1. ASSUME NEW c \in Calls, SubmitCommand(c) PROVE log' \in Seq(Events) /\ Named(log')
    BY <1>1, Zenon DEF SubmitCommand
<1>2. ASSUME NEW c \in Calls, ClaimBusy(c) PROVE log' \in Seq(Events) /\ Named(log')
    BY <1>2, Zenon DEF ClaimBusy
<1>3. ASSUME NEW c \in Calls, SaveResult(c) PROVE log' \in Seq(Events) /\ Named(log')
    BY <1>3, Zenon DEF SaveResult
<1>4. ASSUME NEW c \in Calls, SaveFails(c) PROVE log' \in Seq(Events) /\ Named(log')
    BY <1>4, Zenon DEF SaveFails
<1>5. ASSUME NEW c \in Calls, StartSubmit(c) PROVE log' \in Seq(Events) /\ Named(log')
    BY <1>5, Zenon DEF StartSubmit
<1>6. ASSUME NEW c \in Calls, RequestContextEnds(c) PROVE log' \in Seq(Events) /\ Named(log')
    BY <1>6, Zenon DEF RequestContextEnds
<1>7. ASSUME NEW c \in Calls, BeginExecution(c) PROVE log' \in Seq(Events) /\ Named(log')
    BY <1>7, Zenon DEF BeginExecution
<1>8. ASSUME NEW c \in Calls, SubmitReturns(c) PROVE log' \in Seq(Events) /\ Named(log')
    BY <1>8, Zenon DEF SubmitReturns
<1>9. ASSUME NEW c \in Calls, EndsWithoutRun(c) PROVE log' \in Seq(Events) /\ Named(log')
    BY <1>9, Zenon DEF EndsWithoutRun
<1>10. ASSUME NEW c \in Calls, BeginRefused(c) PROVE log' \in Seq(Events) /\ Named(log')
    BY <1>10, Zenon DEF BeginRefused
<1>11. ASSUME NEW c \in Calls, BeginRun(c) PROVE log' \in Seq(Events) /\ Named(log')
<2> DEFINE e == Ev("run.started", BeginRunID(c), c, 0)
<2>1. e \in Events /\ e.run \in RunIds
    BY BeginIDType, EvType, Zenon DEF Ev
<2>2. log' = Append(log, e)
    BY <1>11, Zenon DEF BeginRun, RunBegun
<2> HIDE DEF e
<2>3. QED
    BY <2>1, <2>2, NamedAppend, Zenon
<1>12. ASSUME NEW c \in Calls, BeginRunFails(c) PROVE log' \in Seq(Events) /\ Named(log')
    BY <1>12, Zenon DEF BeginRunFails
<1>13. ASSUME NEW c \in Calls, LoopCloses(c) PROVE log' \in Seq(Events) /\ Named(log')
    BY <1>13, Zenon DEF LoopCloses
<1>14. ASSUME NEW c \in Calls, EndRun(c) PROVE log' \in Seq(Events) /\ Named(log')
<2>1. CASE UNCHANGED log
    BY <2>1, Zenon
<2>2. CASE Recording /\ log' = Append(StepClosed(c), Ev(EndType(c), rid, c, 0))
  <3> DEFINE e == Ev(EndType(c), rid, c, 0)
  <3>1. rid \in RunIds
      BY <2>2, Zenon DEF Recording, RunType
  <3>2. e \in Events /\ e.run \in RunIds
      BY <3>1, EvType, Zenon DEF Ev, EndType, EndTypes
  <3> HIDE DEF e
  <3>3. log' = Append(StepClosed(c), e)
      BY <2>2, Zenon DEF e
  <3>4. QED
      BY <3>1, <3>2, <3>3, ClosedFacts, NamedAppend, Zenon
<2>3. QED
    BY <1>14, <2>1, <2>2, Zenon DEF EndRun
<1>15. ASSUME NEW c \in Calls, FinishExecution(c) PROVE log' \in Seq(Events) /\ Named(log')
    BY <1>15, Zenon DEF FinishExecution
<1>16. ASSUME NEW c \in Calls, ContextHook(c) PROVE log' \in Seq(Events) /\ Named(log')
    BY <1>16, Zenon DEF ContextHook
<1>17. ASSUME NEW c \in Calls, BeginStep(c) PROVE log' \in Seq(Events) /\ Named(log')
<2> DEFINE e == Ev("step.started", rid, c, stepNo + 1)
<2>1. rid \in RunIds
    BY <1>17, Zenon DEF BeginStep, Recording, RunType
<2>2. e \in Events /\ e.run \in RunIds
    BY <2>1, EvType, SMTT(30) DEF Ev, RunType
<2>3. log' = Append(StepClosed(c), e)
    BY <1>17, Zenon DEF BeginStep
<2> HIDE DEF e
<2>4. QED
    BY <2>1, <2>2, <2>3, ClosedFacts, NamedAppend, Zenon
<1>18. ASSUME NEW c \in Calls, DeliverDone(c) PROVE log' \in Seq(Events) /\ Named(log')
    BY <1>18, Zenon DEF DeliverDone
<1>19. ASSUME NEW c \in Calls, LoopMove(c) PROVE log' \in Seq(Events) /\ Named(log')
    BY <1>19, Zenon DEF LoopMove
<1>20. ASSUME NEW kind \in {"abort", "clear"}, AbortEngine(kind) PROVE log' \in Seq(Events) /\ Named(log')
    BY <1>20, Zenon DEF AbortEngine, AbortRun, Trouble
<1>21. CASE AbortSubmit
    BY <1>21, Zenon DEF AbortSubmit
<1>22. CASE Reset
<2> DEFINE e == Ev("session.reset", None, None, 0)
<2>1. e \in Events /\ e.type = "session.reset"
    BY EvType, Zenon DEF Ev
<2> HIDE DEF e
<2>2. log' \in {log, Append(log, e)}
    BY <1>22, Zenon DEF Reset, ResetAborts, ResetPublishes, AbortRun, e
<2>3. QED
    BY <2>1, <2>2, NamedAppend, Zenon
<1>23. CASE Crash
    BY <1>23, Zenon DEF Crash
<1>24. CASE RecoverScan
    BY <1>24, Zenon DEF RecoverScan
<1>25. CASE RecoverStep
<2>1. PICK s \in scan.steps : log' = Append(log, Ev("step.ended", s[1], None, s[2]))
    BY <1>25, Zenon DEF RecoverStep
<2> DEFINE e == Ev("step.ended", s[1], None, s[2])
<2>2. s[1] \in RunIds /\ s[2] \in Nat
    BY Zenon DEF StateType
<2>3. e \in Events /\ e.run \in RunIds
    BY <2>2, EvType, Zenon DEF Ev
<2> HIDE DEF e
<2>4. QED
    BY <2>1, <2>3, NamedAppend, Zenon DEF e
<1>26. CASE RecoverRun
<2>1. PICK r \in scan.runs : log' = Append(log, Ev("run.interrupted", r, None, 0))
    BY <1>26, Zenon DEF RecoverRun
<2> DEFINE e == Ev("run.interrupted", r, None, 0)
<2>2. r \in RunIds
    BY Zenon DEF StateType
<2>3. e \in Events /\ e.run \in RunIds
    BY <2>2, EvType, Zenon DEF Ev, EndTypes
<2> HIDE DEF e
<2>4. QED
    BY <2>1, <2>3, NamedAppend, Zenon DEF e
<1>27. CASE RecoverFails
    BY <1>27, Zenon DEF RecoverFails
<1>28. CASE Recovered
    BY <1>28, Zenon DEF Recovered
<1>29. CASE UNCHANGED vars
    BY <1>29, Zenon DEF vars
<1> QED
    BY LoopMoves, <1>1, <1>2, <1>3, <1>4, <1>5, <1>6, <1>7, <1>8, <1>9, <1>10, <1>11, <1>12,
       <1>13, <1>14, <1>15, <1>16, <1>17, <1>18, <1>19, <1>20, <1>21, <1>22, <1>23, <1>24, <1>25,
       <1>26, <1>27, <1>28, <1>29, Zenon
    DEF Next, RequestStep, RunStep, LoopStep, OpStep, ProcessStep
=============================================================================
