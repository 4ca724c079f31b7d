--------------------------- MODULE SubmitRunProofs --------------------------
(***************************************************************************)
(* Theorems about SubmitRun, for any calls, commands and bounds.  The      *)
(* inductive invariant has five parts: the types, who holds the session    *)
(* and the recorder, what the stored results say about the runs started,   *)
(* which calls may still write after a Reset, and where the open runs of   *)
(* the journal are.                                                        *)
(***************************************************************************)
EXTENDS SubmitRunTypes

(* Results are stored before their run starts and never replaced.         *)
Stored ==
    \A c \in Calls :
        /\ rpc[c] \in {"reserved", "claimed"} => results[command[c]] = None
        /\ rpc[c] \in {"saved", "accepted"} => results[command[c]] = c

(* The call between its claim of the busy session and the return of       *)
(* RunSubmitMessage; there is one at most.                                 *)
Holds(c) == rpc[c] \in {"claimed", "saved"} \/ ui[c] \in {"start", "reading"}
OneHolder ==
    /\ \A c \in Calls : Holds(c) => busy
    /\ \A c, d \in Calls : Holds(c) /\ Holds(d) => c = d

(* A call that runs and is not cancelled holds the session and has the     *)
(* live, active run of the current generation, unless it slipped through a *)
(* Reset: then no run is active.                                           *)
Running(c) == msg[c] \in {"begun", "looping", "forked", "ending", "finish"} /\ ~RunDone(c)
Fenced ==
    /\ \A c \in Calls : Running(c) =>
          /\ ui[c] = "reading"
          /\ \/ live = c /\ phase = "active" /\ tokGen[c] = gen
             \/ c \in slipped /\ phase \in {"idle", "ended"}
    /\ op = "resetting" /\ phase = "active" => live \in slipped

(* No action replaces a stored result or starts without one.               *)
LEMMA StoredStep ==
    ASSUME CallType, StateType, Progress, Stored, [Next]_vars
    PROVE  Stored'
<1> USE DEF Stored, Progress, CallType, StateType, journalVars, recVars, runVars, ctlVars,
   ctxVars, callVars, procVars, opVars
<1>c. command' = command
    BY Zenon DEF Next, vars
<1>1. ASSUME NEW c \in Calls, SubmitCommand(c) PROVE Stored'
    BY <1>1, <1>c, SubmitRunAssumption DEF SubmitCommand
<1>2. ASSUME NEW c \in Calls, ClaimBusy(c) PROVE Stored'
    BY <1>2, <1>c DEF ClaimBusy
<1>3. ASSUME NEW c \in Calls, SaveResult(c) PROVE Stored'
    BY <1>3, <1>c, SubmitRunAssumption DEF SaveResult
<1>4. ASSUME NEW c \in Calls, SaveFails(c) PROVE Stored'
    BY <1>4, <1>c, SubmitRunAssumption DEF SaveFails, NoFault, Fault, Trouble
<1>5. ASSUME NEW c \in Calls, StartSubmit(c) PROVE Stored'
    BY <1>5, <1>c DEF StartSubmit
<1>6. ASSUME NEW c \in Calls, RequestContextEnds(c) PROVE Stored'
    BY <1>6, <1>c, Zenon DEF RequestContextEnds
<1>7. ASSUME NEW c \in Calls, BeginExecution(c) PROVE Stored'
    BY <1>7, <1>c, Zenon DEF BeginExecution
<1>8. ASSUME NEW c \in Calls, SubmitReturns(c) PROVE Stored'
    BY <1>8, <1>c, Zenon DEF SubmitReturns
<1>9. ASSUME NEW c \in Calls, EndsWithoutRun(c) PROVE Stored'
    BY <1>9, <1>c, Zenon DEF EndsWithoutRun
<1>10. ASSUME NEW c \in Calls, BeginRefused(c) PROVE Stored'
    BY <1>10, <1>c, Zenon DEF BeginRefused, Recording
<1>11. ASSUME NEW c \in Calls, BeginRun(c) PROVE Stored'
    BY <1>11, <1>c, Zenon DEF BeginRun, RunBegun, SetRecorder, BeginRunID, Recording, NoFault, Fault,
       Trouble, RunDone, Ev
<1>12. ASSUME NEW c \in Calls, BeginRunFails(c) PROVE Stored'
    BY <1>12, <1>c, Zenon DEF BeginRunFails, SetRecorder, BeginRunID, Recording, NoFault, Fault, Trouble,
       RunDone
<1>13. ASSUME NEW c \in Calls, LoopCloses(c) PROVE Stored'
    BY <1>13, <1>c, Zenon DEF LoopCloses
<1>14. ASSUME NEW c \in Calls, EndRun(c) PROVE Stored'
    BY <1>14, <1>c, Zenon DEF EndRun, Recording, NoFault, Fault, Trouble, EndType, RunDone, Ev
<1>15. ASSUME NEW c \in Calls, FinishExecution(c) PROVE Stored'
    BY <1>15, <1>c, Zenon DEF FinishExecution, RunActive, RunMatches
<1>16. ASSUME NEW c \in Calls, ContextHook(c) PROVE Stored'
    BY <1>16, <1>c, Zenon DEF ContextHook, RunLive, RunActive, RunMatches
<1>17. ASSUME NEW c \in Calls, BeginStep(c) PROVE Stored'
    BY <1>17, <1>c, Zenon DEF BeginStep, Recording, RunDone, Ev
<1>18. ASSUME NEW c \in Calls, DeliverDone(c) PROVE Stored'
    BY <1>18, <1>c, Zenon DEF DeliverDone
<1>19. ASSUME NEW c \in Calls, LoopMove(c) PROVE Stored'
    BY <1>19, <1>c DEF LoopMove
<1>20. ASSUME NEW kind \in {"abort", "clear"}, AbortEngine(kind) PROVE Stored'
    BY <1>20, <1>c, Zenon DEF AbortEngine, AbortRun, Trouble
<1>21. CASE AbortSubmit
    BY <1>21, <1>c, Zenon DEF AbortSubmit
<1>22. CASE Reset
  <2>1. UNCHANGED <<rpc, results>>
      BY <1>22, Zenon DEF Reset, ResetAborts, ResetPublishes
  <2>2. QED
      BY <1>c, <2>1, Zenon
<1>23. CASE Crash
    BY <1>23, <1>c, Zenon DEF Crash, Trouble
<1>24. CASE RecoverScan
    BY <1>24, <1>c, Zenon DEF RecoverScan, OpenRuns, OpenSteps
<1>25. CASE RecoverStep
    BY <1>25, <1>c, Zenon DEF RecoverStep, Ev
<1>26. CASE RecoverRun
    BY <1>26, <1>c, Zenon DEF RecoverRun, Ev
<1>27. CASE RecoverFails
    BY <1>27, <1>c, Zenon DEF RecoverFails, Fault, Trouble
<1>28. CASE Recovered
    BY <1>28, <1>c, Zenon DEF Recovered
<1>29. CASE UNCHANGED vars
    BY <1>29, <1>c, SMTT(30) DEF vars
<1> HIDE DEF Stored, Progress, CallType, StateType, journalVars, recVars, runVars, ctlVars,
   ctxVars, callVars, procVars, opVars
<1> QED
    BY LoopMoves, <1>1, <1>2, <1>3, <1>4, <1>5, <1>6, <1>7, <1>8, <1>9, <1>10, <1>11, <1>12,
       <1>13, <1>14, <1>15, <1>16, <1>17, <1>18, <1>19, <1>20, <1>21, <1>22, <1>23, <1>24, <1>25,
       <1>26, <1>27, <1>28, <1>29, SMTT(30)
    DEF Next, RequestStep, RunStep, LoopStep, OpStep, ProcessStep

(* busy is claimed when no call holds the session.                         *)
LEMMA HolderStep ==
    ASSUME CallType, Progress, OneHolder, [Next]_vars
    PROVE  OneHolder'
<1> USE DEF OneHolder, Holds, CallType, journalVars, recVars, runVars, ctlVars,
   ctxVars, callVars, procVars, opVars
<1>1. ASSUME NEW c \in Calls, SubmitCommand(c) PROVE OneHolder'
    BY <1>1, SubmitRunAssumption DEF SubmitCommand
<1>2. ASSUME NEW c \in Calls, ClaimBusy(c) PROVE OneHolder'
    BY <1>2 DEF ClaimBusy
<1>3. ASSUME NEW c \in Calls, SaveResult(c) PROVE OneHolder'
    BY <1>3, SubmitRunAssumption DEF SaveResult
<1>4. ASSUME NEW c \in Calls, SaveFails(c) PROVE OneHolder'
  <2>1. ui[c] = "none" /\ Holds(c)
      BY <1>4, SubmitRunAssumption, Zenon DEF SaveFails, Progress
  <2>2. \A d \in Calls : Holds(d)' => d # c /\ Holds(d)
      BY <1>4, <2>1 DEF SaveFails
  <2>3. QED
      BY <2>1, <2>2, Zenon
<1>5. ASSUME NEW c \in Calls, StartSubmit(c) PROVE OneHolder'
    BY <1>5 DEF StartSubmit
<1>6. ASSUME NEW c \in Calls, RequestContextEnds(c) PROVE OneHolder'
    BY <1>6, Zenon DEF RequestContextEnds
<1>7. ASSUME NEW c \in Calls, BeginExecution(c) PROVE OneHolder'
    BY <1>7, Zenon DEF BeginExecution
<1>8. ASSUME NEW c \in Calls, SubmitReturns(c) PROVE OneHolder'
  <2>1. rpc[c] = "accepted" /\ Holds(c)
      BY <1>8, SubmitRunAssumption, Zenon DEF SubmitReturns, Progress
  <2>2. \A d \in Calls : Holds(d)' => d # c /\ Holds(d)
      BY <1>8, <2>1 DEF SubmitReturns
  <2>3. QED
      BY <2>1, <2>2, Zenon
<1>9. ASSUME NEW c \in Calls, EndsWithoutRun(c) PROVE OneHolder'
    BY <1>9, Zenon DEF EndsWithoutRun
<1>10. ASSUME NEW c \in Calls, BeginRefused(c) PROVE OneHolder'
    BY <1>10, Zenon DEF BeginRefused, Recording
<1>11. ASSUME NEW c \in Calls, BeginRun(c) PROVE OneHolder'
    BY <1>11, Zenon DEF BeginRun, RunBegun, SetRecorder, BeginRunID, Recording, NoFault, Fault,
       Trouble, RunDone, Ev
<1>12. ASSUME NEW c \in Calls, BeginRunFails(c) PROVE OneHolder'
    BY <1>12, Zenon DEF BeginRunFails, SetRecorder, BeginRunID, Recording, NoFault, Fault, Trouble,
       RunDone
<1>13. ASSUME NEW c \in Calls, LoopCloses(c) PROVE OneHolder'
    BY <1>13, Zenon DEF LoopCloses
<1>14. ASSUME NEW c \in Calls, EndRun(c) PROVE OneHolder'
    BY <1>14, Zenon DEF EndRun, Recording, NoFault, Fault, Trouble, EndType, RunDone, Ev
<1>15. ASSUME NEW c \in Calls, FinishExecution(c) PROVE OneHolder'
    BY <1>15, Zenon DEF FinishExecution, RunActive, RunMatches
<1>16. ASSUME NEW c \in Calls, ContextHook(c) PROVE OneHolder'
    BY <1>16, Zenon DEF ContextHook, RunLive, RunActive, RunMatches
<1>17. ASSUME NEW c \in Calls, BeginStep(c) PROVE OneHolder'
    BY <1>17, Zenon DEF BeginStep, Recording, RunDone, Ev
<1>18. ASSUME NEW c \in Calls, DeliverDone(c) PROVE OneHolder'
    BY <1>18, Zenon DEF DeliverDone
<1>19. ASSUME NEW c \in Calls, LoopMove(c) PROVE OneHolder'
    BY <1>19 DEF LoopMove
<1>20. ASSUME NEW kind \in {"abort", "clear"}, AbortEngine(kind) PROVE OneHolder'
    BY <1>20, Zenon DEF AbortEngine, AbortRun, Trouble
<1>21. CASE AbortSubmit
    BY <1>21, Zenon DEF AbortSubmit
<1>22. CASE Reset
  <2>1. UNCHANGED <<rpc, ui, busy>>
      BY <1>22, Zenon DEF Reset, ResetAborts, ResetPublishes
  <2>2. QED
      BY <2>1, Zenon
<1>23. CASE Crash
    BY <1>23, Zenon DEF Crash, Trouble
<1>24. CASE RecoverScan
    BY <1>24, Zenon DEF RecoverScan, OpenRuns, OpenSteps
<1>25. CASE RecoverStep
    BY <1>25, Zenon DEF RecoverStep, Ev
<1>26. CASE RecoverRun
    BY <1>26, Zenon DEF RecoverRun, Ev
<1>27. CASE RecoverFails
    BY <1>27, Zenon DEF RecoverFails, Fault, Trouble
<1>28. CASE Recovered
    BY <1>28, Zenon DEF Recovered
<1>29. CASE UNCHANGED vars
    BY <1>29 DEF vars
<1> HIDE DEF OneHolder, Holds, CallType, journalVars, recVars, runVars, ctlVars,
   ctxVars, callVars, procVars, opVars
<1> QED
    BY LoopMoves, <1>1, <1>2, <1>3, <1>4, <1>5, <1>6, <1>7, <1>8, <1>9, <1>10, <1>11, <1>12,
       <1>13, <1>14, <1>15, <1>16, <1>17, <1>18, <1>19, <1>20, <1>21, <1>22, <1>23, <1>24, <1>25,
       <1>26, <1>27, <1>28, <1>29, SMTT(30)
    DEF Next, RequestStep, RunStep, LoopStep, OpStep, ProcessStep

(* Retiring or replacing the live run cancels its call.                    *)
LEMMA FencedStep ==
    ASSUME CallType, RunType, StateType, Progress, OneHolder, Fenced, [Next]_vars
    PROVE  Fenced'
<1> USE DEF Fenced, Running, RunDone, CallType, RunType, journalVars, recVars, runVars, ctlVars, ctxVars,
   callVars, procVars, opVars
<1>1. ASSUME NEW c \in Calls, SubmitCommand(c) PROVE Fenced'
    BY <1>1, Zenon DEF SubmitCommand
<1>2. ASSUME NEW c \in Calls, ClaimBusy(c) PROVE Fenced'
    BY <1>2, Zenon DEF ClaimBusy
<1>3. ASSUME NEW c \in Calls, SaveResult(c) PROVE Fenced'
    BY <1>3, Zenon DEF SaveResult
<1>4. ASSUME NEW c \in Calls, SaveFails(c) PROVE Fenced'
    BY <1>4, Zenon DEF SaveFails, NoFault, Fault, Trouble
<1>5. ASSUME NEW c \in Calls, StartSubmit(c) PROVE Fenced'
    BY <1>5, Zenon DEF StartSubmit, Progress
<1>6. ASSUME NEW c \in Calls, RequestContextEnds(c) PROVE Fenced'
    BY <1>6, Zenon DEF RequestContextEnds
<1>7. ASSUME NEW c \in Calls, BeginExecution(c) PROVE Fenced'
  <2>1. \A d \in Calls : ~Running(d)
    <3>1. ASSUME NEW d \in Calls, Running(d) PROVE FALSE
      <4>1. ui[c] = "start" /\ msg[c] = "none" /\ ui[d] = "reading"
          BY <1>7, <3>1, Zenon DEF BeginExecution, Progress
      <4>2. c = d
          BY <4>1, Zenon DEF OneHolder, Holds
      <4>3. QED
          BY <4>1, <4>2
    <3>2. QED
        BY <3>1, Zenon
  <2>2. \A d \in Calls : Running(d)' => d = c
      BY <1>7, <2>1 DEF BeginExecution
  <2>3. QED
      BY <1>7, <2>2, SubmitRunAssumption DEF BeginExecution
<1>8. ASSUME NEW c \in Calls, SubmitReturns(c) PROVE Fenced'
    BY <1>8, Zenon DEF SubmitReturns
<1>9. ASSUME NEW c \in Calls, EndsWithoutRun(c) PROVE Fenced'
    BY <1>9, Zenon DEF EndsWithoutRun
<1>10. ASSUME NEW c \in Calls, BeginRefused(c) PROVE Fenced'
    BY <1>10, Zenon DEF BeginRefused, Recording
<1>11. ASSUME NEW c \in Calls, BeginRun(c) PROVE Fenced'
    BY <1>11 DEF BeginRun, RunBegun, SetRecorder, BeginRunID, Recording, NoFault, Fault, Trouble,
       RunDone, Ev
<1>12. ASSUME NEW c \in Calls, BeginRunFails(c) PROVE Fenced'
    BY <1>12, Zenon DEF BeginRunFails, SetRecorder, BeginRunID, Recording, NoFault, Fault, Trouble, RunDone
<1>13. ASSUME NEW c \in Calls, LoopCloses(c) PROVE Fenced'
    BY <1>13, Zenon DEF LoopCloses
<1>14. ASSUME NEW c \in Calls, EndRun(c) PROVE Fenced'
    BY <1>14, Zenon DEF EndRun, Recording, NoFault, Fault, Trouble, EndType, RunDone, Ev
<1>15. ASSUME NEW c \in Calls, FinishExecution(c) PROVE Fenced'
    BY <1>15, SubmitRunAssumption, Zenon DEF FinishExecution, RunActive, RunMatches
<1>16. ASSUME NEW c \in Calls, ContextHook(c) PROVE Fenced'
    BY <1>16, Zenon DEF ContextHook, RunLive, RunActive, RunMatches
<1>17. ASSUME NEW c \in Calls, BeginStep(c) PROVE Fenced'
    BY <1>17, Zenon DEF BeginStep, Recording, RunDone, Ev
<1>18. ASSUME NEW c \in Calls, DeliverDone(c) PROVE Fenced'
    BY <1>18 DEF DeliverDone, Progress
<1>19. ASSUME NEW c \in Calls, LoopMove(c) PROVE Fenced'
    BY <1>19, Zenon DEF LoopMove
<1>20. ASSUME NEW kind \in {"abort", "clear"}, AbortEngine(kind) PROVE Fenced'
    BY <1>20, Zenon DEF AbortEngine, AbortRun, Trouble
<1>21. CASE AbortSubmit
    BY <1>21, Zenon DEF AbortSubmit
<1>22. CASE Reset
    BY <1>22, Zenon DEF Reset, ResetAborts, ResetPublishes, AbortRun, NoFault, Fault, Trouble, Ev
<1>23. CASE Crash
    BY <1>23, Zenon DEF Crash, Trouble
<1>24. CASE RecoverScan
    BY <1>24, Zenon DEF RecoverScan, OpenRuns, OpenSteps
<1>25. CASE RecoverStep
    BY <1>25, Zenon DEF RecoverStep, Ev
<1>26. CASE RecoverRun
    BY <1>26, Zenon DEF RecoverRun, Ev
<1>27. CASE RecoverFails
    BY <1>27, Zenon DEF RecoverFails, Fault, Trouble
<1>28. CASE Recovered
    BY <1>28, Zenon DEF Recovered
<1>29. CASE UNCHANGED vars
    BY <1>29, Zenon DEF vars
<1> HIDE DEF Fenced, Running, RunDone, CallType, RunType, journalVars, recVars, runVars, ctlVars, ctxVars,
   callVars, procVars, opVars
<1> QED
    BY LoopMoves, <1>1, <1>2, <1>3, <1>4, <1>5, <1>6, <1>7, <1>8, <1>9, <1>10, <1>11, <1>12,
       <1>13, <1>14, <1>15, <1>16, <1>17, <1>18, <1>19, <1>20, <1>21, <1>22, <1>23, <1>24, <1>25,
       <1>26, <1>27, <1>28, <1>29, Zenon
    DEF Next, RequestStep, RunStep, LoopStep, OpStep, ProcessStep

(* The calls that started a run, and the resets, seen from the state.      *)
StartedCalls ==
    \A i \in DOMAIN log : log[i].type = "run.started" =>
        /\ log[i].call \in Calls /\ rpc[log[i].call] = "accepted"
        /\ ui[log[i].call] # "start" /\ msg[log[i].call] # "begun"
OneStart ==
    \A i, j \in DOMAIN log :
        (log[i].type = "run.started" /\ log[j].type = "run.started" /\ log[i].call = log[j].call)
        => i = j
ResetGens == \A i \in DOMAIN log : log[i].type = "session.reset" => log[i].gen < gen

(* The journal grows by e, the open step perhaps being closed before it.   *)
GrowsBy(e) ==
    /\ Len(log) \in Nat /\ Len(log') \in Nat /\ Len(log) < Len(log')
    /\ DOMAIN log = 1..Len(log) /\ DOMAIN log' = 1..Len(log')
    /\ \A i \in 1..Len(log) : log'[i] = log[i]
    /\ \A i \in 1..Len(log') : \/ i \in 1..Len(log) /\ log'[i] = log[i]
                               \/ i = Len(log') /\ log'[i] = e
                               \/ i # Len(log') /\ log'[i].type = "step.ended"

(* One Append of one event.                                                *)
LEMMA GrowAppend ==
    ASSUME log \in Seq(Events), NEW e \in Events, log' = Append(log, e)
    PROVE  GrowsBy(e)
<1>1. \A i \in 1..(Len(log) + 1) : i \in 1..Len(log) \/ i = Len(log) + 1
    BY AppendFacts
<1>2. QED
    BY <1>1, AppendFacts DEF GrowsBy

(* One Append that first closes the open step.                             *)
LEMMA GrowClosed ==
    ASSUME NEW c \in Calls, RunType, log \in Seq(Events), Named(log), rid \in RunIds,
           NEW e \in Events, log' = Append(StepClosed(c), e)
    PROVE  GrowsBy(e)
<1> DEFINE s == StepClosed(c)
<1>1. /\ s \in Seq(Events) /\ Len(log) \in Nat /\ Len(s) \in Nat /\ Len(log) <= Len(s)
      /\ \A i \in 1..Len(log) : s[i] = log[i]
      /\ \A i \in 1..Len(s) : i \in 1..Len(log) \/ s[i].type = "step.ended"
    BY ClosedFacts, Zenon
<1>2. log' = Append(s, e)
    BY Zenon
<1> HIDE DEF s
<1>3. /\ Len(log') = Len(s) + 1 /\ DOMAIN log' = 1..(Len(s) + 1)
      /\ \A i \in 1..Len(s) : log'[i] = s[i]
      /\ log'[Len(s) + 1] = e
    BY <1>1, <1>2, AppendFacts
<1>4. \A i \in 1..Len(log) : i \in 1..Len(s)
    BY <1>1
<1>5. \A i \in 1..(Len(s) + 1) : i \in 1..Len(s) \/ i = Len(s) + 1
    BY <1>1
<1>6. DOMAIN log = 1..Len(log)
    OBVIOUS
<1>7. QED
    BY <1>1, <1>3, <1>4, <1>5, <1>6 DEF GrowsBy

(* An event of the grown journal is old, e or a step.ended.                *)
LEMMA GrowCases ==
    ASSUME NEW e, GrowsBy(e)
    PROVE  \A i \in DOMAIN log' :
              \/ i \in DOMAIN log /\ log'[i] = log[i]
              \/ i = Len(log') /\ log'[i] = e
              \/ log'[i].type = "step.ended"
BY Zenon DEF GrowsBy

LogOK == log \in Seq(Events) /\ Named(log)

(* What BeginRun writes.                                                   *)
LEMMA BeginRunGrows ==
    ASSUME RunType, LogOK, Progress, NEW c \in Calls, BeginRun(c)
    PROVE  GrowsBy(Ev("run.started", BeginRunID(c), c, 0))
<1>1. Ev("run.started", BeginRunID(c), c, 0) \in Events
    BY BeginIDType, EvType, Zenon
<1>2. QED
    BY <1>1, GrowAppend, Zenon DEF BeginRun, RunBegun, LogOK

(* What BeginStep writes.                                                  *)
LEMMA BeginStepGrows ==
    ASSUME RunType, LogOK, NEW c \in Calls, BeginStep(c)
    PROVE  GrowsBy(Ev("step.started", rid, c, stepNo + 1))
<1>1. rid \in RunIds
    BY Zenon DEF BeginStep, Recording, RunType
<1>2. Ev("step.started", rid, c, stepNo + 1) \in Events
  <2>1. stepNo + 1 \in Nat
      BY DEF RunType
  <2>2. QED
      BY <1>1, <2>1, EvType, Zenon
<1>3. QED
    BY <1>1, <1>2, GrowClosed, Zenon DEF BeginStep, LogOK

(* What EndRun writes, if it does.                                         *)
LEMMA EndRunGrows ==
    ASSUME RunType, LogOK, NEW c \in Calls, EndRun(c)
    PROVE  \/ UNCHANGED <<log, terminal>>
           \/ Recording /\ terminal' = TRUE /\ GrowsBy(Ev(EndType(c), rid, c, 0))
<1>1. CASE Recording /\ terminal' = TRUE /\ log' = Append(StepClosed(c), Ev(EndType(c), rid, c, 0))
  <2>1. rid \in RunIds
      BY <1>1, Zenon DEF Recording, RunType
  <2>2. Ev(EndType(c), rid, c, 0) \in Events
      BY <2>1, EvType, Zenon DEF EndType, EndTypes
  <2>3. QED
      BY <1>1, <2>1, <2>2, GrowClosed, Zenon DEF LogOK
<1>2. QED
    BY <1>1, Zenon DEF EndRun

(* What Reset writes, if it does.                                          *)
LEMMA ResetGrows ==
    ASSUME RunType, LogOK, Reset
    PROVE  \/ UNCHANGED <<log, gen>>
           \/ gen' = gen + 1 /\ GrowsBy(Ev("session.reset", None, None, 0))
<1>1. Ev("session.reset", None, None, 0) \in Events
    BY EvType, Zenon
<1>2. QED
    BY <1>1, GrowAppend, Zenon DEF Reset, ResetAborts, ResetPublishes, LogOK, journalVars, runVars

(* What closing a step in recovery writes.                                 *)
LEMMA RecoverStepGrows ==
    ASSUME RunType, StateType, LogOK, RecoverStep
    PROVE  \E s \in scan.steps : GrowsBy(Ev("step.ended", s[1], None, s[2]))
<1>1. PICK s \in scan.steps : log' = Append(log, Ev("step.ended", s[1], None, s[2]))
    BY Zenon DEF RecoverStep
<1>2. s[1] \in RunIds /\ s[2] \in Nat
    BY Zenon DEF StateType
<1>3. Ev("step.ended", s[1], None, s[2]) \in Events
    BY <1>2, EvType, Zenon
<1>4. QED
    BY <1>1, <1>3, GrowAppend, Zenon DEF LogOK

(* What closing a run in recovery writes.                                  *)
LEMMA RecoverRunGrows ==
    ASSUME RunType, StateType, LogOK, RecoverRun
    PROVE  \E r \in scan.runs : /\ GrowsBy(Ev("run.interrupted", r, None, 0))
                                /\ scan' = [scan EXCEPT !.runs = scan.runs \ {r}]
<1>1. PICK r \in scan.runs : /\ log' = Append(log, Ev("run.interrupted", r, None, 0))
                             /\ scan' = [scan EXCEPT !.runs = scan.runs \ {r}]
    BY Zenon DEF RecoverRun
<1>2. r \in RunIds
    BY Zenon DEF StateType
<1>3. Ev("run.interrupted", r, None, 0) \in Events
    BY <1>2, EvType, Zenon DEF EndTypes
<1>4. QED
    BY <1>1, <1>3, GrowAppend, Zenon DEF LogOK

(* The actions that write to the journal or change the generation.         *)
LEMMA Writers ==
    ASSUME [Next]_vars
    PROVE  \/ UNCHANGED <<log, gen>> /\ slipped \subseteq slipped'
           \/ \E c \in Calls : BeginRun(c) \/ BeginStep(c) \/ EndRun(c)
           \/ Reset \/ RecoverStep \/ RecoverRun
<1> USE DEF journalVars, recVars, runVars, ctlVars, ctxVars, callVars, procVars, opVars
<1> DEFINE Silent == UNCHANGED <<log, gen>> /\ slipped \subseteq slipped'
<1>1. ASSUME NEW c \in Calls, SubmitCommand(c) PROVE Silent
    BY <1>1, Zenon DEF SubmitCommand
<1>2. ASSUME NEW c \in Calls, ClaimBusy(c) PROVE Silent
    BY <1>2, Zenon DEF ClaimBusy
<1>3. ASSUME NEW c \in Calls, SaveResult(c) PROVE Silent
    BY <1>3, Zenon DEF SaveResult
<1>4. ASSUME NEW c \in Calls, SaveFails(c) PROVE Silent
    BY <1>4, Zenon DEF SaveFails
<1>5. ASSUME NEW c \in Calls, StartSubmit(c) PROVE Silent
    BY <1>5, Zenon DEF StartSubmit
<1>6. ASSUME NEW c \in Calls, RequestContextEnds(c) PROVE Silent
    BY <1>6, Zenon DEF RequestContextEnds
<1>7. ASSUME NEW c \in Calls, BeginExecution(c) PROVE Silent
    BY <1>7, Zenon DEF BeginExecution
<1>8. ASSUME NEW c \in Calls, SubmitReturns(c) PROVE Silent
    BY <1>8, Zenon DEF SubmitReturns
<1>9. ASSUME NEW c \in Calls, EndsWithoutRun(c) PROVE Silent
    BY <1>9, Zenon DEF EndsWithoutRun
<1>10. ASSUME NEW c \in Calls, BeginRefused(c) PROVE Silent
    BY <1>10, Zenon DEF BeginRefused
<1>11. ASSUME NEW c \in Calls, BeginRunFails(c) PROVE Silent
    BY <1>11, Zenon DEF BeginRunFails
<1>12. ASSUME NEW c \in Calls, LoopCloses(c) PROVE Silent
    BY <1>12, Zenon DEF LoopCloses
<1>13. ASSUME NEW c \in Calls, FinishExecution(c) PROVE Silent
    BY <1>13, Zenon DEF FinishExecution
<1>14. ASSUME NEW c \in Calls, ContextHook(c) PROVE Silent
    BY <1>14, Zenon DEF ContextHook
<1>15. ASSUME NEW c \in Calls, DeliverDone(c) PROVE Silent
    BY <1>15, Zenon DEF DeliverDone
<1>16. ASSUME NEW c \in Calls, LoopMove(c) PROVE Silent
    BY <1>16, Zenon DEF LoopMove
<1>17. ASSUME NEW kind \in {"abort", "clear"}, AbortEngine(kind) PROVE Silent
    BY <1>17, Zenon DEF AbortEngine
<1>18. ASSUME AbortSubmit PROVE Silent
    BY <1>18, Zenon DEF AbortSubmit
<1>19. ASSUME Crash PROVE Silent
    BY <1>19, Zenon DEF Crash
<1>20. ASSUME RecoverScan PROVE Silent
    BY <1>20, Zenon DEF RecoverScan
<1>21. ASSUME RecoverFails PROVE Silent
    BY <1>21, Zenon DEF RecoverFails
<1>22. ASSUME Recovered PROVE Silent
    BY <1>22, Zenon DEF Recovered
<1> HIDE DEF journalVars, recVars, runVars, ctlVars, ctxVars, callVars, procVars, opVars
<1> QED
    BY LoopMoves, <1>1, <1>2, <1>3, <1>4, <1>5, <1>6, <1>7, <1>8, <1>9, <1>10, <1>11, <1>12,
       <1>13, <1>14, <1>15, <1>16, <1>17, <1>18, <1>19, <1>20, <1>21, <1>22, Zenon
    DEF Next, vars, RequestStep, RunStep, LoopStep, OpStep, ProcessStep

(* A call with a run is past the point where it starts one.                *)
LEMMA StartedStep ==
    ASSUME CallType, RunType, StateType, LogOK, Progress, StartedCalls, [Next]_vars
    PROVE  StartedCalls'
<1> USE DEF journalVars, recVars, runVars, ctlVars, ctxVars, callVars, procVars, opVars
<1>1. ASSUME NEW c \in Calls, SubmitCommand(c) PROVE StartedCalls'
    BY <1>1 DEF SubmitCommand, StartedCalls, CallType
<1>2. ASSUME NEW c \in Calls, ClaimBusy(c) PROVE StartedCalls'
    BY <1>2 DEF ClaimBusy, StartedCalls, CallType
<1>3. ASSUME NEW c \in Calls, SaveResult(c) PROVE StartedCalls'
    BY <1>3, Zenon DEF SaveResult, StartedCalls, CallType
<1>4. ASSUME NEW c \in Calls, SaveFails(c) PROVE StartedCalls'
    BY <1>4, Zenon DEF SaveFails, StartedCalls, CallType
<1>5. ASSUME NEW c \in Calls, StartSubmit(c) PROVE StartedCalls'
    BY <1>5, Zenon DEF StartSubmit, StartedCalls, CallType
<1>6. ASSUME NEW c \in Calls, RequestContextEnds(c) PROVE StartedCalls'
    BY <1>6, Zenon DEF RequestContextEnds, StartedCalls, CallType
<1>7. ASSUME NEW c \in Calls, BeginExecution(c) PROVE StartedCalls'
    BY <1>7 DEF BeginExecution, StartedCalls, CallType
<1>8. ASSUME NEW c \in Calls, SubmitReturns(c) PROVE StartedCalls'
    BY <1>8, Zenon DEF SubmitReturns, StartedCalls, CallType
<1>9. ASSUME NEW c \in Calls, EndsWithoutRun(c) PROVE StartedCalls'
    BY <1>9, Zenon DEF EndsWithoutRun, StartedCalls, CallType
<1>10. ASSUME NEW c \in Calls, BeginRefused(c) PROVE StartedCalls'
    BY <1>10, Zenon DEF BeginRefused, StartedCalls, CallType
<1>11. ASSUME NEW c \in Calls, BeginRun(c) PROVE StartedCalls'
<2> DEFINE e == Ev("run.started", BeginRunID(c), c, 0)
<2>1. GrowsBy(e)
    BY <1>11, BeginRunGrows, Zenon
<2>e. e.type = "run.started" /\ e.run = BeginRunID(c) /\ e.call = c /\ e.gen = tokGen[c]
    BY SubmitRunAssumption, Zenon DEF Ev
<2> HIDE DEF e
<2>2. msg[c] = "begun" /\ UNCHANGED <<rpc, ui, gen, mode, scan>>
    BY <1>11, Zenon DEF BeginRun, RunBegun
<2>3. rpc[c] = "accepted" /\ ui[c] # "start"
    BY <2>2, Zenon DEF Progress
<2>4. \A d \in Calls : msg'[d] = msg[d] \/ msg'[d] # "begun"
    BY <1>11, Zenon DEF BeginRun, RunBegun, CallType
<2>5. msg'[c] # "begun"
    BY <1>11, Zenon DEF BeginRun, RunBegun, CallType
<2>6. \A i \in DOMAIN log' : log'[i].type = "run.started" =>
         \/ log'[i].call = c
         \/ i \in DOMAIN log /\ log'[i] = log[i]
    BY <2>1, <2>e, GrowCases, Zenon
<2> QED
    BY <2>2, <2>3, <2>4, <2>5, <2>6, Zenon DEF StartedCalls
<1>12. ASSUME NEW c \in Calls, BeginRunFails(c) PROVE StartedCalls'
    BY <1>12, Zenon DEF BeginRunFails, StartedCalls, CallType
<1>13. ASSUME NEW c \in Calls, LoopCloses(c) PROVE StartedCalls'
    BY <1>13, Zenon DEF LoopCloses, StartedCalls, CallType
<1>14. ASSUME NEW c \in Calls, EndRun(c) PROVE StartedCalls'
<2> DEFINE e == Ev(EndType(c), rid, c, 0)
<2>e. e.type \in EndTypes /\ e.type \notin {"run.started", "step.started", "session.reset"} /\ e.run = rid
    BY Zenon DEF Ev, EndType, EndTypes
<2>g. \/ UNCHANGED <<log, terminal>>
      \/ Recording /\ terminal' = TRUE /\ GrowsBy(e)
    BY <1>14, EndRunGrows, Zenon
<2> HIDE DEF e
<2>1. msg' = [msg EXCEPT ![c] = "finish"] /\ UNCHANGED <<rid, rpc, ui, gen, mode, scan>>
    BY <1>14, Zenon DEF EndRun
<2>2. CASE UNCHANGED <<log, terminal>>
    BY <2>1, <2>2, Zenon DEF StartedCalls, CallType
<2>3. CASE Recording /\ terminal' = TRUE /\ GrowsBy(e)
    BY <2>1, <2>3, <2>e, GrowCases DEF StartedCalls, CallType
<2>4. QED
    BY <2>2, <2>3, <2>g, Zenon
<1>15. ASSUME NEW c \in Calls, FinishExecution(c) PROVE StartedCalls'
    BY <1>15, Zenon DEF FinishExecution, StartedCalls, CallType
<1>16. ASSUME NEW c \in Calls, ContextHook(c) PROVE StartedCalls'
    BY <1>16, Zenon DEF ContextHook, StartedCalls, CallType
<1>17. ASSUME NEW c \in Calls, BeginStep(c) PROVE StartedCalls'
<2> DEFINE e == Ev("step.started", rid, c, stepNo + 1)
<2>1. GrowsBy(e)
    BY <1>17, BeginStepGrows, Zenon
<2>e. e.type = "step.started" /\ e.gen = tokGen[c]
    BY SubmitRunAssumption, Zenon DEF Ev
<2> HIDE DEF e
<2>2. UNCHANGED <<rid, terminal, rpc, ui, msg, gen, mode, scan>>
    BY <1>17, Zenon DEF BeginStep
<2>3. \A i \in DOMAIN log' : log'[i].type = "run.started" => i \in DOMAIN log /\ log'[i] = log[i]
    BY <2>1, <2>e, GrowCases, Zenon
<2> QED
    BY <2>2, <2>3 DEF StartedCalls
<1>18. ASSUME NEW c \in Calls, DeliverDone(c) PROVE StartedCalls'
    BY <1>18, Zenon DEF DeliverDone, StartedCalls, CallType
<1>19. ASSUME NEW c \in Calls, LoopMove(c) PROVE StartedCalls'
    BY <1>19, Zenon DEF LoopMove, StartedCalls, CallType
<1>20. ASSUME NEW kind \in {"abort", "clear"}, AbortEngine(kind) PROVE StartedCalls'
    BY <1>20, Zenon DEF AbortEngine, AbortRun, Trouble, StartedCalls, CallType
<1>21. CASE AbortSubmit
    BY <1>21, Zenon DEF AbortSubmit, StartedCalls, CallType
<1>22. CASE Reset
<2> DEFINE e == Ev("session.reset", None, None, 0)
<2>e. e.type = "session.reset" /\ e.gen = gen
    BY Zenon DEF Ev
<2>g. \/ UNCHANGED <<log, gen>>
      \/ gen' = gen + 1 /\ GrowsBy(e)
    BY <1>22, ResetGrows, Zenon
<2> HIDE DEF e
<2>1. UNCHANGED <<rid, terminal, rpc, ui, msg, mode, scan>>
    BY <1>22, Zenon DEF Reset, ResetAborts, ResetPublishes, AbortRun
<2>2. CASE UNCHANGED <<log, gen>>
    BY <2>1, <2>2, Zenon DEF StartedCalls, CallType
<2>3. CASE gen' = gen + 1 /\ GrowsBy(e)
    BY <2>1, <2>3, <2>e, GrowCases DEF StartedCalls, CallType
<2>4. QED
    BY <2>2, <2>3, <2>g, Zenon
<1>23. CASE Crash
    BY <1>23, Zenon DEF Crash, StartedCalls, CallType
<1>24. CASE RecoverScan
    BY <1>24, Zenon DEF RecoverScan, StartedCalls, CallType
<1>25. CASE RecoverStep
<2>1. PICK s \in scan.steps : GrowsBy(Ev("step.ended", s[1], None, s[2]))
    BY <1>25, RecoverStepGrows, Zenon
<2>2. UNCHANGED <<rid, terminal, rpc, ui, msg, gen, mode>> /\ scan' = [scan EXCEPT !.steps = scan'.steps]
    BY <1>25, Zenon DEF RecoverStep, StateType
<2> DEFINE e == Ev("step.ended", s[1], None, s[2])
<2>e. GrowsBy(e) /\ e.type = "step.ended"
    BY <2>1, Zenon DEF Ev
<2> HIDE DEF e
<2> QED
    BY <2>2, <2>e, GrowCases DEF StartedCalls, CallType
<1>26. CASE RecoverRun
<2>1. PICK r \in scan.runs : /\ GrowsBy(Ev("run.interrupted", r, None, 0))
                            /\ scan' = [scan EXCEPT !.runs = scan.runs \ {r}]
    BY <1>26, RecoverRunGrows, Zenon
<2>2. mode = "recover" /\ UNCHANGED <<rid, terminal, rpc, ui, msg, gen, mode>>
    BY <1>26, Zenon DEF RecoverRun
<2> DEFINE e == Ev("run.interrupted", r, None, 0)
<2>e. GrowsBy(e) /\ e.type = "run.interrupted" /\ e.run = r
    BY <2>1, Zenon DEF Ev
<2> HIDE DEF e
<2> QED
    BY <2>1, <2>2, <2>e, GrowCases DEF StartedCalls, CallType
<1>27. CASE RecoverFails
    BY <1>27, Zenon DEF RecoverFails, StartedCalls, CallType
<1>28. CASE Recovered
    BY <1>28, Zenon DEF Recovered, StartedCalls, CallType
<1>29. CASE UNCHANGED vars
    BY <1>29, Zenon DEF vars, StartedCalls, CallType
<1> HIDE DEF journalVars, recVars, runVars, ctlVars, ctxVars, callVars, procVars, opVars
<1> QED
    BY LoopMoves, <1>1, <1>2, <1>3, <1>4, <1>5, <1>6, <1>7, <1>8, <1>9, <1>10, <1>11, <1>12,
       <1>13, <1>14, <1>15, <1>16, <1>17, <1>18, <1>19, <1>20, <1>21, <1>22, <1>23, <1>24, <1>25,
       <1>26, <1>27, <1>28, <1>29, SMTT(30)
    DEF Next, RequestStep, RunStep, LoopStep, OpStep, ProcessStep


(* No call starts two runs.                                                *)
LEMMA OneStartStep ==
    ASSUME CallType, RunType, StateType, LogOK, Progress, StartedCalls, OneStart, [Next]_vars
    PROVE  OneStart'
<1> USE DEF journalVars, recVars, runVars, ctlVars, ctxVars, callVars, procVars, opVars
<1>1. ASSUME NEW c \in Calls, BeginRun(c) PROVE OneStart'
<2> DEFINE e == Ev("run.started", BeginRunID(c), c, 0)
<2>1. GrowsBy(e)
    BY <1>1, BeginRunGrows, Zenon
<2>e. e.type = "run.started" /\ e.run = BeginRunID(c) /\ e.call = c /\ e.gen = tokGen[c]
    BY SubmitRunAssumption, Zenon DEF Ev
<2> HIDE DEF e
<2>2. msg[c] = "begun" /\ UNCHANGED <<rpc, ui, gen, mode, scan>>
    BY <1>1, Zenon DEF BeginRun, RunBegun
<2>3. \A i \in DOMAIN log : log[i].type = "run.started" => log[i].call # c
    BY <2>2, Zenon DEF StartedCalls
<2>4. \A i \in DOMAIN log' : log'[i].type = "run.started" =>
         \/ i = Len(log') /\ log'[i].call = c
         \/ i \in DOMAIN log /\ log'[i] = log[i]
    BY <2>1, <2>e, GrowCases, Zenon
<2> QED
    BY <2>3, <2>4, Zenon DEF OneStart
<1>2. ASSUME NEW c \in Calls, BeginStep(c) PROVE OneStart'
<2> DEFINE e == Ev("step.started", rid, c, stepNo + 1)
<2>1. GrowsBy(e)
    BY <1>2, BeginStepGrows, Zenon
<2>e. e.type = "step.started" /\ e.gen = tokGen[c]
    BY SubmitRunAssumption, Zenon DEF Ev
<2> HIDE DEF e
<2>2. UNCHANGED <<rid, terminal, rpc, ui, msg, gen, mode, scan>>
    BY <1>2, Zenon DEF BeginStep
<2> QED
    BY <2>1, <2>2, <2>e, GrowCases, Zenon DEF OneStart
<1>3. ASSUME NEW c \in Calls, EndRun(c) PROVE OneStart'
<2> DEFINE e == Ev(EndType(c), rid, c, 0)
<2>e. e.type \in EndTypes /\ e.type \notin {"run.started", "step.started", "session.reset"} /\ e.run = rid
    BY Zenon DEF Ev, EndType, EndTypes
<2>g. \/ UNCHANGED <<log, terminal>>
      \/ Recording /\ terminal' = TRUE /\ GrowsBy(e)
    BY <1>3, EndRunGrows, Zenon
<2> HIDE DEF e
<2>1. msg' = [msg EXCEPT ![c] = "finish"] /\ UNCHANGED <<rid, rpc, ui, gen, mode, scan>>
    BY <1>3, Zenon DEF EndRun
<2>2. CASE UNCHANGED <<log, terminal>>
    BY <2>1, <2>2, Zenon DEF OneStart
<2>3. CASE Recording /\ terminal' = TRUE /\ GrowsBy(e)
    BY <2>1, <2>3, <2>e, GrowCases, Zenon DEF OneStart
<2>4. QED
    BY <2>2, <2>3, <2>g, Zenon
<1>4. CASE Reset
<2> DEFINE e == Ev("session.reset", None, None, 0)
<2>e. e.type = "session.reset" /\ e.gen = gen
    BY Zenon DEF Ev
<2>g. \/ UNCHANGED <<log, gen>>
      \/ gen' = gen + 1 /\ GrowsBy(e)
    BY <1>4, ResetGrows, Zenon
<2> HIDE DEF e
<2>1. UNCHANGED <<rid, terminal, rpc, ui, msg, mode, scan>>
    BY <1>4, Zenon DEF Reset, ResetAborts, ResetPublishes, AbortRun
<2>2. CASE UNCHANGED <<log, gen>>
    BY <2>1, <2>2, Zenon DEF OneStart
<2>3. CASE gen' = gen + 1 /\ GrowsBy(e)
    BY <2>1, <2>3, <2>e, GrowCases, Zenon DEF OneStart
<2>4. QED
    BY <2>2, <2>3, <2>g, Zenon
<1>5. CASE RecoverStep
<2>1. PICK s \in scan.steps : GrowsBy(Ev("step.ended", s[1], None, s[2]))
    BY <1>5, RecoverStepGrows, Zenon
<2>2. UNCHANGED <<rid, terminal, rpc, ui, msg, gen, mode>> /\ scan' = [scan EXCEPT !.steps = scan'.steps]
    BY <1>5, Zenon DEF RecoverStep, StateType
<2> DEFINE e == Ev("step.ended", s[1], None, s[2])
<2>e. GrowsBy(e) /\ e.type = "step.ended"
    BY <2>1, Zenon DEF Ev
<2> HIDE DEF e
<2> QED
    BY <2>2, <2>e, GrowCases, Zenon DEF OneStart
<1>6. CASE RecoverRun
<2>1. PICK r \in scan.runs : /\ GrowsBy(Ev("run.interrupted", r, None, 0))
                            /\ scan' = [scan EXCEPT !.runs = scan.runs \ {r}]
    BY <1>6, RecoverRunGrows, Zenon
<2>2. mode = "recover" /\ UNCHANGED <<rid, terminal, rpc, ui, msg, gen, mode>>
    BY <1>6, Zenon DEF RecoverRun
<2> DEFINE e == Ev("run.interrupted", r, None, 0)
<2>e. GrowsBy(e) /\ e.type = "run.interrupted" /\ e.run = r
    BY <2>1, Zenon DEF Ev
<2> HIDE DEF e
<2> QED
    BY <2>1, <2>2, <2>e, GrowCases, Zenon DEF OneStart
<1>7. CASE UNCHANGED <<log, gen>>
    BY <1>7, Zenon DEF OneStart
<1> HIDE DEF journalVars, recVars, runVars, ctlVars, ctxVars, callVars, procVars, opVars
<1>8. QED
    BY <1>1, <1>2, <1>3, <1>4, <1>5, <1>6, <1>7, Writers, Zenon

(* Every reset in the journal is of an earlier generation.                 *)
LEMMA ResetGensStep ==
    ASSUME CallType, RunType, StateType, LogOK, Progress, ResetGens, [Next]_vars
    PROVE  ResetGens'
<1> USE DEF journalVars, recVars, runVars, ctlVars, ctxVars, callVars, procVars, opVars
<1>1. ASSUME NEW c \in Calls, BeginRun(c) PROVE ResetGens'
<2> DEFINE e == Ev("run.started", BeginRunID(c), c, 0)
<2>1. GrowsBy(e)
    BY <1>1, BeginRunGrows, Zenon
<2>e. e.type = "run.started" /\ e.run = BeginRunID(c) /\ e.call = c /\ e.gen = tokGen[c]
    BY SubmitRunAssumption, Zenon DEF Ev
<2> HIDE DEF e
<2>2. msg[c] = "begun" /\ UNCHANGED <<rpc, ui, gen, mode, scan>>
    BY <1>1, Zenon DEF BeginRun, RunBegun
<2> QED
    BY <2>1, <2>2, <2>e, GrowCases, Zenon DEF ResetGens
<1>2. ASSUME NEW c \in Calls, BeginStep(c) PROVE ResetGens'
<2> DEFINE e == Ev("step.started", rid, c, stepNo + 1)
<2>1. GrowsBy(e)
    BY <1>2, BeginStepGrows, Zenon
<2>e. e.type = "step.started" /\ e.gen = tokGen[c]
    BY SubmitRunAssumption, Zenon DEF Ev
<2> HIDE DEF e
<2>2. UNCHANGED <<rid, terminal, rpc, ui, msg, gen, mode, scan>>
    BY <1>2, Zenon DEF BeginStep
<2> QED
    BY <2>1, <2>2, <2>e, GrowCases, SMTT(30) DEF ResetGens
<1>3. ASSUME NEW c \in Calls, EndRun(c) PROVE ResetGens'
<2> DEFINE e == Ev(EndType(c), rid, c, 0)
<2>e. e.type \in EndTypes /\ e.type \notin {"run.started", "step.started", "session.reset"} /\ e.run = rid
    BY Zenon DEF Ev, EndType, EndTypes
<2>g. \/ UNCHANGED <<log, terminal>>
      \/ Recording /\ terminal' = TRUE /\ GrowsBy(e)
    BY <1>3, EndRunGrows, Zenon
<2> HIDE DEF e
<2>1. msg' = [msg EXCEPT ![c] = "finish"] /\ UNCHANGED <<rid, rpc, ui, gen, mode, scan>>
    BY <1>3, Zenon DEF EndRun
<2>2. CASE UNCHANGED <<log, terminal>>
    BY <2>1, <2>2, Zenon DEF ResetGens
<2>3. CASE Recording /\ terminal' = TRUE /\ GrowsBy(e)
    BY <2>1, <2>3, <2>e, GrowCases, Zenon DEF ResetGens
<2>4. QED
    BY <2>2, <2>3, <2>g, Zenon
<1>4. CASE Reset
<2> DEFINE e == Ev("session.reset", None, None, 0)
<2>e. e.type = "session.reset" /\ e.gen = gen
    BY Zenon DEF Ev
<2>g. \/ UNCHANGED <<log, gen>>
      \/ gen' = gen + 1 /\ GrowsBy(e)
    BY <1>4, ResetGrows, Zenon
<2> HIDE DEF e
<2>1. UNCHANGED <<rid, terminal, rpc, ui, msg, mode, scan>>
    BY <1>4, Zenon DEF Reset, ResetAborts, ResetPublishes, AbortRun
<2>2. CASE UNCHANGED <<log, gen>>
    BY <2>1, <2>2, Zenon DEF ResetGens
<2>3. CASE gen' = gen + 1 /\ GrowsBy(e)
  <3>1. \A i \in DOMAIN log : log[i].gen \in Nat
    <4>1. \A i \in DOMAIN log : log[i] \in Events
        BY DEF LogOK
    <4>2. QED
        BY <4>1, Zenon DEF Events
  <3>2. gen \in Nat
      BY Zenon DEF RunType
  <3>3. \A i \in DOMAIN log' : log'[i].type = "session.reset" =>
           \/ i \in DOMAIN log /\ log'[i] = log[i]
           \/ log'[i].gen = gen
      BY <2>3, <2>e, GrowCases, Zenon
  <3>4. QED
      BY <2>3, <3>1, <3>2, <3>3 DEF ResetGens
<2>4. QED
    BY <2>2, <2>3, <2>g, Zenon
<1>5. CASE RecoverStep
<2>1. PICK s \in scan.steps : GrowsBy(Ev("step.ended", s[1], None, s[2]))
    BY <1>5, RecoverStepGrows, Zenon
<2>2. UNCHANGED <<rid, terminal, rpc, ui, msg, gen, mode>> /\ scan' = [scan EXCEPT !.steps = scan'.steps]
    BY <1>5, Zenon DEF RecoverStep, StateType
<2> DEFINE e == Ev("step.ended", s[1], None, s[2])
<2>e. GrowsBy(e) /\ e.type = "step.ended"
    BY <2>1, Zenon DEF Ev
<2> HIDE DEF e
<2> QED
    BY <2>2, <2>e, GrowCases, Zenon DEF ResetGens
<1>6. CASE RecoverRun
<2>1. PICK r \in scan.runs : /\ GrowsBy(Ev("run.interrupted", r, None, 0))
                            /\ scan' = [scan EXCEPT !.runs = scan.runs \ {r}]
    BY <1>6, RecoverRunGrows, Zenon
<2>2. mode = "recover" /\ UNCHANGED <<rid, terminal, rpc, ui, msg, gen, mode>>
    BY <1>6, Zenon DEF RecoverRun
<2> DEFINE e == Ev("run.interrupted", r, None, 0)
<2>e. GrowsBy(e) /\ e.type = "run.interrupted" /\ e.run = r
    BY <2>1, Zenon DEF Ev
<2> HIDE DEF e
<2> QED
    BY <2>1, <2>2, <2>e, GrowCases, Zenon DEF ResetGens
<1>7. CASE UNCHANGED <<log, gen>>
    BY <1>7, Zenon DEF ResetGens
<1> HIDE DEF journalVars, recVars, runVars, ctlVars, ctxVars, callVars, procVars, opVars
<1>8. QED
    BY <1>1, <1>2, <1>3, <1>4, <1>5, <1>6, <1>7, Writers, Zenon

(* What is started after a reset is of a later generation.                 *)
LEMMA FencesStep ==
    ASSUME CallType, RunType, StateType, LogOK, Progress, Fenced, ResetGens, ResetFences, [Next]_vars
    PROVE  ResetFences'
<1> USE DEF journalVars, recVars, runVars, ctlVars, ctxVars, callVars, procVars, opVars
<1>1. ASSUME NEW c \in Calls, BeginRun(c) PROVE ResetFences'
<2> DEFINE e == Ev("run.started", BeginRunID(c), c, 0)
<2>1. GrowsBy(e)
    BY <1>1, BeginRunGrows, Zenon
<2>e. e.type = "run.started" /\ e.run = BeginRunID(c) /\ e.call = c /\ e.gen = tokGen[c]
    BY SubmitRunAssumption, Zenon DEF Ev
<2> HIDE DEF e
<2>2. msg[c] = "begun" /\ UNCHANGED <<rpc, ui, gen, mode, scan>>
    BY <1>1, Zenon DEF BeginRun, RunBegun
<2>3. (tokGen[c] = gen \/ c \in slipped) /\ UNCHANGED slipped
    BY <1>1, Zenon DEF BeginRun, RunBegun, Fenced, Running
<2> QED
    BY <2>1, <2>2, <2>e, <2>3, Zenon DEF GrowsBy, ResetFences, ResetGens
<1>2. ASSUME NEW c \in Calls, BeginStep(c) PROVE ResetFences'
<2> DEFINE e == Ev("step.started", rid, c, stepNo + 1)
<2>1. GrowsBy(e)
    BY <1>2, BeginStepGrows, Zenon
<2>e. e.type = "step.started" /\ e.call = c /\ e.gen = tokGen[c]
    BY SubmitRunAssumption, Zenon DEF Ev
<2> HIDE DEF e
<2>2. UNCHANGED <<rid, terminal, rpc, ui, msg, gen, mode, scan>>
    BY <1>2, Zenon DEF BeginStep
<2>3. (tokGen[c] = gen \/ c \in slipped) /\ UNCHANGED slipped
    BY <1>2, Zenon DEF BeginStep, Fenced, Running, Progress
<2> QED
    BY <2>1, <2>2, <2>e, <2>3, Zenon DEF GrowsBy, ResetFences, ResetGens
<1>3. ASSUME NEW c \in Calls, EndRun(c) PROVE ResetFences'
<2> DEFINE e == Ev(EndType(c), rid, c, 0)
<2>e. e.type \in EndTypes /\ e.type \notin {"run.started", "step.started", "session.reset"} /\ e.run = rid
    BY Zenon DEF Ev, EndType, EndTypes
<2>g. \/ UNCHANGED <<log, terminal>>
      \/ Recording /\ terminal' = TRUE /\ GrowsBy(e)
    BY <1>3, EndRunGrows, Zenon
<2> HIDE DEF e
<2>1. msg' = [msg EXCEPT ![c] = "finish"] /\ UNCHANGED <<rid, rpc, ui, gen, mode, scan, slipped>>
    BY <1>3, Zenon DEF EndRun
<2>2. CASE UNCHANGED <<log, terminal>>
    BY <2>1, <2>2, Zenon DEF ResetFences
<2>3. CASE Recording /\ terminal' = TRUE /\ GrowsBy(e)
    BY <2>1, <2>3, <2>e, Zenon DEF GrowsBy, ResetFences
<2>4. QED
    BY <2>2, <2>3, <2>g, Zenon
<1>4. CASE Reset
<2> DEFINE e == Ev("session.reset", None, None, 0)
<2>e. e.type = "session.reset" /\ e.gen = gen
    BY Zenon DEF Ev
<2>g. \/ UNCHANGED <<log, gen>>
      \/ gen' = gen + 1 /\ GrowsBy(e)
    BY <1>4, ResetGrows, Zenon
<2> HIDE DEF e
<2>1. UNCHANGED <<rid, terminal, rpc, ui, msg, mode, scan, slipped>>
    BY <1>4, Zenon DEF Reset, ResetAborts, ResetPublishes, AbortRun
<2>2. CASE UNCHANGED <<log, gen>>
    BY <2>1, <2>2, Zenon DEF ResetFences
<2>3. CASE gen' = gen + 1 /\ GrowsBy(e)
  <3>1. \A i, j \in DOMAIN log' :
           (i < j /\ log'[j].type \in {"run.started", "step.started"})
           => i \in DOMAIN log /\ j \in DOMAIN log
    <4>1. \A j \in DOMAIN log' : log'[j].type \in {"run.started", "step.started"} => j \in DOMAIN log
        BY <2>3, <2>e, Zenon DEF GrowsBy
    <4>2. \A i \in DOMAIN log', j \in DOMAIN log : i < j => i \in DOMAIN log
      <5> DEFINE m == Len(log)
                 n == Len(log')
      <5>1. m \in Nat /\ n \in Nat /\ DOMAIN log = 1..m /\ DOMAIN log' = 1..n
          BY <2>3, Zenon DEF GrowsBy
      <5> HIDE DEF m, n
      <5>2. QED
          BY <5>1
    <4>3. QED
        BY <4>1, <4>2, Zenon
  <3>2. \A i \in DOMAIN log : log'[i] = log[i]
      BY <2>3, Zenon DEF GrowsBy
  <3>3. QED
      BY <2>1, <3>1, <3>2, Zenon DEF ResetFences
<2>4. QED
    BY <2>2, <2>3, <2>g, Zenon
<1>5. CASE RecoverStep
<2>1. PICK s \in scan.steps : GrowsBy(Ev("step.ended", s[1], None, s[2]))
    BY <1>5, RecoverStepGrows, Zenon
<2>2. UNCHANGED <<rid, terminal, rpc, ui, msg, gen, mode, slipped>> /\ scan' = [scan EXCEPT !.steps = scan'.steps]
    BY <1>5, Zenon DEF RecoverStep, StateType
<2> DEFINE e == Ev("step.ended", s[1], None, s[2])
<2>e. GrowsBy(e) /\ e.type = "step.ended"
    BY <2>1, Zenon DEF Ev
<2> HIDE DEF e
<2> QED
    BY <2>2, <2>e, Zenon DEF GrowsBy, ResetFences
<1>6. CASE RecoverRun
<2>1. PICK r \in scan.runs : /\ GrowsBy(Ev("run.interrupted", r, None, 0))
                            /\ scan' = [scan EXCEPT !.runs = scan.runs \ {r}]
    BY <1>6, RecoverRunGrows, Zenon
<2>2. mode = "recover" /\ UNCHANGED <<rid, terminal, rpc, ui, msg, gen, mode, slipped>>
    BY <1>6, Zenon DEF RecoverRun
<2> DEFINE e == Ev("run.interrupted", r, None, 0)
<2>e. GrowsBy(e) /\ e.type = "run.interrupted" /\ e.run = r
    BY <2>1, Zenon DEF Ev
<2> HIDE DEF e
<2> QED
    BY <2>1, <2>2, <2>e, Zenon DEF GrowsBy, ResetFences
<1>7. CASE UNCHANGED <<log, gen>> /\ slipped \subseteq slipped'
    BY <1>7, Zenon DEF ResetFences
<1> HIDE DEF journalVars, recVars, runVars, ctlVars, ctxVars, callVars, procVars, opVars
<1>8. QED
    BY <1>1, <1>2, <1>3, <1>4, <1>5, <1>6, <1>7, Writers, Zenon

(* Run i of the journal s is open.                                         *)
OpenIn(s, i) ==
    /\ s[i].type = "run.started"
    /\ ~\E k \in (i + 1)..Len(s) :
          s[k].type = "session.reset" \/ (s[k].type \in EndTypes /\ s[k].run = s[i].run)

(* An open run is the recorder's, or one recovery has yet to close.        *)
OpenKnown ==
    \A i \in DOMAIN log : OpenIn(log, i) =>
        /\ mode = "up" => Recording /\ rid = log[i].run
        /\ mode = "recover" => log[i].run \in scan.runs

(* A run open in the grown journal is the new one or was open.             *)
LEMMA OpenGrows ==
    ASSUME NEW e, GrowsBy(e), NEW i \in DOMAIN log', OpenIn(log', i)
    PROVE  \/ e.type = "run.started" /\ i = Len(log') /\ log'[i] = e
           \/ /\ i \in DOMAIN log /\ log'[i] = log[i] /\ OpenIn(log, i)
              /\ e.type # "session.reset" /\ ~(e.type \in EndTypes /\ e.run = log[i].run)
<1> DEFINE m == Len(log)
           n == Len(log')
<1>1. /\ m \in Nat /\ n \in Nat /\ m < n
      /\ DOMAIN log = 1..m /\ DOMAIN log' = 1..n
    BY Zenon DEF GrowsBy
<1>e. log'[n] = e
  <2>1. n \in 1..n /\ n \notin 1..m
      BY <1>1
  <2>2. QED
      BY <2>1, Zenon DEF GrowsBy
<1>2. \A k \in 1..m : log'[k] = log[k]
    BY Zenon DEF GrowsBy
<1>3. \/ i \in 1..m /\ log'[i] = log[i]
      \/ i = n /\ log'[i] = e
      \/ log'[i].type = "step.ended"
    BY Zenon DEF GrowsBy
<1>4. /\ log'[i].type = "run.started"
      /\ \A k \in (i + 1)..n : /\ log'[k].type # "session.reset"
                               /\ ~(log'[k].type \in EndTypes /\ log'[k].run = log'[i].run)
    BY Zenon DEF OpenIn
<1>5. ASSUME i \in 1..m PROVE OpenIn(log, i)
  <2>1. \A k \in (i + 1)..m : k \in 1..m /\ k \in (i + 1)..n
      BY <1>1, <1>5
  <2>2. \A k \in (i + 1)..m : /\ log[k].type # "session.reset"
                              /\ ~(log[k].type \in EndTypes /\ log[k].run = log[i].run)
      BY <1>2, <1>4, <1>5, <2>1, Zenon
  <2>3. QED
      BY <1>2, <1>4, <1>5, <2>2, Zenon DEF OpenIn
<1>6. ASSUME i \in 1..m
      PROVE  e.type # "session.reset" /\ ~(e.type \in EndTypes /\ e.run = log[i].run)
  <2>1. n \in (i + 1)..n
      BY <1>1, <1>6, SMTT(30)
  <2>2. QED
      BY <1>e, <1>2, <1>4, <1>6, <2>1, Zenon
<1>7. QED
    BY <1>1, <1>3, <1>4, <1>5, <1>6, Zenon

(* Every open run stays known to the recorder or to recovery.              *)
LEMMA OpenStep ==
    ASSUME CallType, RunType, StateType, LogOK, Progress, OpenKnown, [Next]_vars
    PROVE  OpenKnown'
<1> USE DEF journalVars, recVars, runVars, ctlVars, ctxVars, callVars, procVars, opVars
<1>1. ASSUME NEW c \in Calls, SubmitCommand(c) PROVE OpenKnown'
    BY <1>1, Zenon DEF SubmitCommand, OpenKnown, Recording
<1>2. ASSUME NEW c \in Calls, ClaimBusy(c) PROVE OpenKnown'
    BY <1>2, Zenon DEF ClaimBusy, OpenKnown, Recording
<1>3. ASSUME NEW c \in Calls, SaveResult(c) PROVE OpenKnown'
    BY <1>3, Zenon DEF SaveResult, OpenKnown, Recording
<1>4. ASSUME NEW c \in Calls, SaveFails(c) PROVE OpenKnown'
    BY <1>4, Zenon DEF SaveFails, OpenKnown, Recording
<1>5. ASSUME NEW c \in Calls, StartSubmit(c) PROVE OpenKnown'
    BY <1>5, Zenon DEF StartSubmit, OpenKnown, Recording
<1>6. ASSUME NEW c \in Calls, RequestContextEnds(c) PROVE OpenKnown'
    BY <1>6, Zenon DEF RequestContextEnds, OpenKnown, Recording
<1>7. ASSUME NEW c \in Calls, BeginExecution(c) PROVE OpenKnown'
    BY <1>7, Zenon DEF BeginExecution, OpenKnown, Recording
<1>8. ASSUME NEW c \in Calls, SubmitReturns(c) PROVE OpenKnown'
    BY <1>8, Zenon DEF SubmitReturns, OpenKnown, Recording
<1>9. ASSUME NEW c \in Calls, EndsWithoutRun(c) PROVE OpenKnown'
    BY <1>9, Zenon DEF EndsWithoutRun, OpenKnown, Recording
<1>10. ASSUME NEW c \in Calls, BeginRefused(c) PROVE OpenKnown'
    BY <1>10, Zenon DEF BeginRefused, OpenKnown, Recording
<1>11. ASSUME NEW c \in Calls, BeginRun(c) PROVE OpenKnown'
<2> DEFINE e == Ev("run.started", BeginRunID(c), c, 0)
<2>1. GrowsBy(e)
    BY <1>11, BeginRunGrows, Zenon
<2>e. e.type = "run.started" /\ e.run = BeginRunID(c) /\ e.call = c /\ e.gen = tokGen[c]
    BY SubmitRunAssumption, Zenon DEF Ev
<2> HIDE DEF e
<2>2. msg[c] = "begun" /\ UNCHANGED <<rpc, ui, gen, mode, scan>>
    BY <1>11, Zenon DEF BeginRun, RunBegun
<2>3. mode = "up" /\ ~Recording /\ terminal' = FALSE /\ rid' = BeginRunID(c)
    BY <1>11, Zenon DEF BeginRun, RunBegun, SetRecorder, Progress
<2>4. BeginRunID(c) # None
    BY BeginIDType, SubmitRunAssumption, Zenon DEF RunIds
<2>o. \A i \in DOMAIN log' : OpenIn(log', i) =>
         \/ e.type = "run.started" /\ i = Len(log') /\ log'[i] = e
         \/ /\ i \in DOMAIN log /\ log'[i] = log[i] /\ OpenIn(log, i)
            /\ e.type # "session.reset" /\ ~(e.type \in EndTypes /\ e.run = log[i].run)
    BY <2>1, OpenGrows, Zenon
<2> QED
    BY <2>2, <2>3, <2>4, <2>e, <2>o, Zenon DEF OpenKnown, Recording
<1>12. ASSUME NEW c \in Calls, BeginRunFails(c) PROVE OpenKnown'
    BY <1>12, Zenon DEF BeginRunFails, OpenKnown, Recording, Progress
<1>13. ASSUME NEW c \in Calls, LoopCloses(c) PROVE OpenKnown'
    BY <1>13, Zenon DEF LoopCloses, OpenKnown, Recording
<1>14. ASSUME NEW c \in Calls, EndRun(c) PROVE OpenKnown'
<2> DEFINE e == Ev(EndType(c), rid, c, 0)
<2>e. e.type \in EndTypes /\ e.type \notin {"run.started", "step.started", "session.reset"} /\ e.run = rid
    BY Zenon DEF Ev, EndType, EndTypes
<2>g. \/ UNCHANGED <<log, terminal>>
      \/ Recording /\ terminal' = TRUE /\ GrowsBy(e)
    BY <1>14, EndRunGrows, Zenon
<2> HIDE DEF e
<2>1. msg' = [msg EXCEPT ![c] = "finish"] /\ UNCHANGED <<rid, rpc, ui, gen, mode, scan>>
    BY <1>14, Zenon DEF EndRun
<2>2. CASE UNCHANGED <<log, terminal>>
    BY <2>1, <2>2, Zenon DEF OpenKnown, Recording
<2>3. CASE Recording /\ terminal' = TRUE /\ GrowsBy(e)
  <3>o. \A i \in DOMAIN log' : OpenIn(log', i) =>
           \/ e.type = "run.started" /\ i = Len(log') /\ log'[i] = e
           \/ /\ i \in DOMAIN log /\ log'[i] = log[i] /\ OpenIn(log, i)
              /\ e.type # "session.reset" /\ ~(e.type \in EndTypes /\ e.run = log[i].run)
      BY <2>3, OpenGrows, Zenon
  <3>1. mode = "up"
      BY <1>14, Zenon DEF EndRun, Progress
  <3>2. QED
      BY <2>1, <2>3, <2>e, <3>o, <3>1, Zenon DEF OpenKnown, Recording
<2>4. QED
    BY <2>2, <2>3, <2>g, Zenon
<1>15. ASSUME NEW c \in Calls, FinishExecution(c) PROVE OpenKnown'
    BY <1>15, Zenon DEF FinishExecution, OpenKnown, Recording
<1>16. ASSUME NEW c \in Calls, ContextHook(c) PROVE OpenKnown'
    BY <1>16, Zenon DEF ContextHook, OpenKnown, Recording
<1>17. ASSUME NEW c \in Calls, BeginStep(c) PROVE OpenKnown'
<2> DEFINE e == Ev("step.started", rid, c, stepNo + 1)
<2>1. GrowsBy(e)
    BY <1>17, BeginStepGrows, Zenon
<2>e. e.type = "step.started" /\ e.gen = tokGen[c]
    BY SubmitRunAssumption, Zenon DEF Ev
<2> HIDE DEF e
<2>2. UNCHANGED <<rid, terminal, rpc, ui, msg, gen, mode, scan>>
    BY <1>17, Zenon DEF BeginStep
<2>o. \A i \in DOMAIN log' : OpenIn(log', i) =>
         \/ e.type = "run.started" /\ i = Len(log') /\ log'[i] = e
         \/ /\ i \in DOMAIN log /\ log'[i] = log[i] /\ OpenIn(log, i)
            /\ e.type # "session.reset" /\ ~(e.type \in EndTypes /\ e.run = log[i].run)
    BY <2>1, OpenGrows, Zenon
<2> QED
    BY <2>2, <2>e, <2>o, Zenon DEF OpenKnown, Recording
<1>18. ASSUME NEW c \in Calls, DeliverDone(c) PROVE OpenKnown'
    BY <1>18, Zenon DEF DeliverDone, OpenKnown, Recording
<1>19. ASSUME NEW c \in Calls, LoopMove(c) PROVE OpenKnown'
    BY <1>19, Zenon DEF LoopMove, OpenKnown, Recording
<1>20. ASSUME NEW kind \in {"abort", "clear"}, AbortEngine(kind) PROVE OpenKnown'
    BY <1>20, Zenon DEF AbortEngine, AbortRun, Trouble, OpenKnown, Recording
<1>21. CASE AbortSubmit
    BY <1>21, Zenon DEF AbortSubmit, OpenKnown, Recording
<1>22. CASE Reset
<2> DEFINE e == Ev("session.reset", None, None, 0)
<2>e. e.type = "session.reset" /\ e.gen = gen
    BY Zenon DEF Ev
<2>g. \/ UNCHANGED <<log, gen>>
      \/ gen' = gen + 1 /\ GrowsBy(e)
    BY <1>22, ResetGrows, Zenon
<2> HIDE DEF e
<2>1. UNCHANGED <<rid, terminal, rpc, ui, msg, mode, scan>>
    BY <1>22, Zenon DEF Reset, ResetAborts, ResetPublishes, AbortRun
<2>2. CASE UNCHANGED <<log, gen>>
    BY <2>1, <2>2, Zenon DEF OpenKnown, Recording
<2>3. CASE gen' = gen + 1 /\ GrowsBy(e)
  <3>o. \A i \in DOMAIN log' : OpenIn(log', i) =>
           \/ e.type = "run.started" /\ i = Len(log') /\ log'[i] = e
           \/ /\ i \in DOMAIN log /\ log'[i] = log[i] /\ OpenIn(log, i)
              /\ e.type # "session.reset" /\ ~(e.type \in EndTypes /\ e.run = log[i].run)
      BY <2>3, OpenGrows, Zenon
  <3>1. QED
      BY <2>1, <2>3, <2>e, <3>o, Zenon DEF OpenKnown, Recording
<2>4. QED
    BY <2>2, <2>3, <2>g, Zenon
<1>23. CASE Crash
    BY <1>23, Zenon DEF Crash, OpenKnown, Recording
<1>24. CASE RecoverScan
<2>1. mode' = "recover" /\ log' = log /\ scan'.runs = OpenRuns
    BY <1>24, Zenon DEF RecoverScan
<2>2. \A i \in DOMAIN log : OpenIn(log, i) => log[i].run \in OpenRuns
    BY Zenon DEF OpenIn, OpenRuns
<2>3. QED
    BY <2>1, <2>2, Zenon DEF OpenKnown
<1>25. CASE RecoverStep
<2>1. PICK s \in scan.steps : GrowsBy(Ev("step.ended", s[1], None, s[2]))
    BY <1>25, RecoverStepGrows, Zenon
<2>2. UNCHANGED <<rid, terminal, rpc, ui, msg, gen, mode>> /\ scan' = [scan EXCEPT !.steps = scan'.steps]
    BY <1>25, Zenon DEF RecoverStep, StateType
<2> DEFINE e == Ev("step.ended", s[1], None, s[2])
<2>e. GrowsBy(e) /\ e.type = "step.ended"
    BY <2>1, Zenon DEF Ev
<2> HIDE DEF e
<2>o. \A i \in DOMAIN log' : OpenIn(log', i) =>
         \/ e.type = "run.started" /\ i = Len(log') /\ log'[i] = e
         \/ /\ i \in DOMAIN log /\ log'[i] = log[i] /\ OpenIn(log, i)
            /\ e.type # "session.reset" /\ ~(e.type \in EndTypes /\ e.run = log[i].run)
    BY <2>e, OpenGrows, Zenon
<2>3. scan'.runs = scan.runs
    BY <2>2, Zenon DEF StateType
<2> QED
    BY <2>2, <2>3, <2>e, <2>o, Zenon DEF OpenKnown, Recording
<1>26. CASE RecoverRun
<2>1. PICK r \in scan.runs : /\ GrowsBy(Ev("run.interrupted", r, None, 0))
                            /\ scan' = [scan EXCEPT !.runs = scan.runs \ {r}]
    BY <1>26, RecoverRunGrows, Zenon
<2>2. mode = "recover" /\ UNCHANGED <<rid, terminal, rpc, ui, msg, gen, mode>>
    BY <1>26, Zenon DEF RecoverRun
<2> DEFINE e == Ev("run.interrupted", r, None, 0)
<2>e. GrowsBy(e) /\ e.type = "run.interrupted" /\ e.run = r
    BY <2>1, Zenon DEF Ev
<2> HIDE DEF e
<2>o. \A i \in DOMAIN log' : OpenIn(log', i) =>
         \/ e.type = "run.started" /\ i = Len(log') /\ log'[i] = e
         \/ /\ i \in DOMAIN log /\ log'[i] = log[i] /\ OpenIn(log, i)
            /\ e.type # "session.reset" /\ ~(e.type \in EndTypes /\ e.run = log[i].run)
    BY <2>e, OpenGrows, Zenon
<2>3. scan'.runs = scan.runs \ {r}
    BY <2>1, Zenon DEF StateType
<2> QED
    BY <2>2, <2>3, <2>e, <2>o, Zenon DEF OpenKnown, EndTypes
<1>27. CASE RecoverFails
    BY <1>27, Zenon DEF RecoverFails, OpenKnown, Recording
<1>28. CASE Recovered
    BY <1>28, Zenon DEF Recovered, OpenKnown, Recording
<1>29. CASE UNCHANGED vars
    BY <1>29, Zenon DEF vars, OpenKnown, Recording
<1> HIDE DEF journalVars, recVars, runVars, ctlVars, ctxVars, callVars, procVars, opVars
<1> QED
    BY LoopMoves, <1>1, <1>2, <1>3, <1>4, <1>5, <1>6, <1>7, <1>8, <1>9, <1>10, <1>11, <1>12,
       <1>13, <1>14, <1>15, <1>16, <1>17, <1>18, <1>19, <1>20, <1>21, <1>22, <1>23, <1>24, <1>25,
       <1>26, <1>27, <1>28, <1>29, SMTT(30)
    DEF Next, RequestStep, RunStep, LoopStep, OpStep, ProcessStep

(* A run started when none is open overlaps none.                          *)
LEMMA OverlapGrows ==
    ASSUME RunsDontOverlap, NEW e, GrowsBy(e),
           e.type = "run.started" => \A i \in DOMAIN log : ~OpenIn(log, i)
    PROVE  RunsDontOverlap'
<1> DEFINE m == Len(log)
           n == Len(log')
<1>1. /\ m \in Nat /\ n \in Nat /\ m < n
      /\ DOMAIN log = 1..m /\ DOMAIN log' = 1..n
    BY Zenon DEF GrowsBy
<1>2. \A k \in 1..m : log'[k] = log[k]
    BY Zenon DEF GrowsBy
<1>3. \A i \in 1..n : log'[i].type = "run.started" =>
         \/ i \in 1..m
         \/ i = n /\ e.type = "run.started"
    BY Zenon DEF GrowsBy
<1>4. SUFFICES ASSUME NEW i \in 1..n, NEW j \in 1..n, i < j,
                      log'[i].type = "run.started", log'[j].type = "run.started",
                      \A k \in i..j : log'[k].type # "session.reset"
               PROVE  \E k \in i..j : log'[k].type \in EndTypes /\ log'[k].run = log'[i].run
    BY <1>1, Zenon DEF RunsDontOverlap, EndTypes
<1> HIDE DEF m, n
<1>5. i \in 1..m
    BY <1>1, <1>3, <1>4
<1>6. CASE j \in 1..m
  <2>1. \A k \in i..j : k \in 1..m
      BY <1>1, <1>5, <1>6
  <2>2. \E k \in i..j : log[k].type \in EndTypes /\ log[k].run = log[i].run
      BY <1>1, <1>2, <1>4, <1>5, <1>6, <2>1, SMTT(30) DEF RunsDontOverlap
  <2>3. QED
      BY <1>2, <1>5, <2>1, <2>2, Zenon
<1>7. CASE j = n /\ e.type = "run.started"
  <2>1. ~OpenIn(log, i)
      BY <1>1, <1>5, <1>7, Zenon
  <2>2. PICK k \in (i + 1)..m : \/ log[k].type = "session.reset"
                                \/ log[k].type \in EndTypes /\ log[k].run = log[i].run
      BY <1>2, <1>4, <1>5, <2>1, Zenon DEF OpenIn, m
  <2>3. k \in 1..m /\ k \in i..j
      BY <1>1, <1>5, <1>7
  <2>4. QED
      BY <1>2, <1>4, <1>5, <2>2, <2>3, Zenon
<1>8. QED
    BY <1>3, <1>4, <1>6, <1>7, Zenon

(* BeginRun starts a run only when none is open.                           *)
LEMMA OverlapStep ==
    ASSUME CallType, RunType, StateType, LogOK, Progress, OpenKnown, RunsDontOverlap, [Next]_vars
    PROVE  RunsDontOverlap'
<1> USE DEF journalVars, recVars, runVars, ctlVars, ctxVars, callVars, procVars, opVars
<1>1. ASSUME NEW c \in Calls, BeginRun(c) PROVE RunsDontOverlap'
<2> DEFINE e == Ev("run.started", BeginRunID(c), c, 0)
<2>1. GrowsBy(e)
    BY <1>1, BeginRunGrows, Zenon
<2>e. e.type = "run.started" /\ e.run = BeginRunID(c) /\ e.call = c /\ e.gen = tokGen[c]
    BY SubmitRunAssumption, Zenon DEF Ev
<2> HIDE DEF e
<2>2. msg[c] = "begun" /\ UNCHANGED <<rpc, ui, gen, mode, scan>>
    BY <1>1, Zenon DEF BeginRun, RunBegun
<2>3. \A i \in DOMAIN log : ~OpenIn(log, i)
    BY <1>1, Zenon DEF BeginRun, OpenKnown, Progress
<2> QED
    BY <2>1, <2>3, OverlapGrows, Zenon
<1>2. ASSUME NEW c \in Calls, BeginStep(c) PROVE RunsDontOverlap'
<2> DEFINE e == Ev("step.started", rid, c, stepNo + 1)
<2>1. GrowsBy(e)
    BY <1>2, BeginStepGrows, Zenon
<2>e. e.type = "step.started" /\ e.gen = tokGen[c]
    BY SubmitRunAssumption, Zenon DEF Ev
<2> HIDE DEF e
<2>2. UNCHANGED <<rid, terminal, rpc, ui, msg, gen, mode, scan>>
    BY <1>2, Zenon DEF BeginStep
<2> QED
    BY <2>1, <2>e, OverlapGrows, Zenon
<1>3. ASSUME NEW c \in Calls, EndRun(c) PROVE RunsDontOverlap'
<2> DEFINE e == Ev(EndType(c), rid, c, 0)
<2>e. e.type \in EndTypes /\ e.type \notin {"run.started", "step.started", "session.reset"} /\ e.run = rid
    BY Zenon DEF Ev, EndType, EndTypes
<2>g. \/ UNCHANGED <<log, terminal>>
      \/ Recording /\ terminal' = TRUE /\ GrowsBy(e)
    BY <1>3, EndRunGrows, Zenon
<2> HIDE DEF e
<2>1. msg' = [msg EXCEPT ![c] = "finish"] /\ UNCHANGED <<rid, rpc, ui, gen, mode, scan>>
    BY <1>3, Zenon DEF EndRun
<2>2. CASE UNCHANGED <<log, terminal>>
    BY <2>1, <2>2 DEF RunsDontOverlap
<2>3. CASE Recording /\ terminal' = TRUE /\ GrowsBy(e)
    BY <2>3, <2>e, OverlapGrows, Zenon
<2>4. QED
    BY <2>2, <2>3, <2>g, Zenon
<1>4. CASE Reset
<2> DEFINE e == Ev("session.reset", None, None, 0)
<2>e. e.type = "session.reset" /\ e.gen = gen
    BY Zenon DEF Ev
<2>g. \/ UNCHANGED <<log, gen>>
      \/ gen' = gen + 1 /\ GrowsBy(e)
    BY <1>4, ResetGrows, Zenon
<2> HIDE DEF e
<2>1. UNCHANGED <<rid, terminal, rpc, ui, msg, mode, scan>>
    BY <1>4, Zenon DEF Reset, ResetAborts, ResetPublishes, AbortRun
<2>2. CASE UNCHANGED <<log, gen>>
    BY <2>1, <2>2 DEF RunsDontOverlap
<2>3. CASE gen' = gen + 1 /\ GrowsBy(e)
    BY <2>3, <2>e, OverlapGrows, Zenon
<2>4. QED
    BY <2>2, <2>3, <2>g, Zenon
<1>5. CASE RecoverStep
<2>1. PICK s \in scan.steps : GrowsBy(Ev("step.ended", s[1], None, s[2]))
    BY <1>5, RecoverStepGrows, Zenon
<2>2. UNCHANGED <<rid, terminal, rpc, ui, msg, gen, mode>> /\ scan' = [scan EXCEPT !.steps = scan'.steps]
    BY <1>5, Zenon DEF RecoverStep, StateType
<2> DEFINE e == Ev("step.ended", s[1], None, s[2])
<2>e. GrowsBy(e) /\ e.type = "step.ended"
    BY <2>1, Zenon DEF Ev
<2> HIDE DEF e
<2> QED
    BY <2>e, OverlapGrows, Zenon
<1>6. CASE RecoverRun
<2>1. PICK r \in scan.runs : /\ GrowsBy(Ev("run.interrupted", r, None, 0))
                            /\ scan' = [scan EXCEPT !.runs = scan.runs \ {r}]
    BY <1>6, RecoverRunGrows, Zenon
<2>2. mode = "recover" /\ UNCHANGED <<rid, terminal, rpc, ui, msg, gen, mode>>
    BY <1>6, Zenon DEF RecoverRun
<2> DEFINE e == Ev("run.interrupted", r, None, 0)
<2>e. GrowsBy(e) /\ e.type = "run.interrupted" /\ e.run = r
    BY <2>1, Zenon DEF Ev
<2> HIDE DEF e
<2> QED
    BY <2>1, <2>e, OverlapGrows, Zenon
<1>7. CASE UNCHANGED <<log, gen>>
    BY <1>7 DEF RunsDontOverlap
<1> HIDE DEF journalVars, recVars, runVars, ctlVars, ctxVars, callVars, procVars, opVars
<1>8. QED
    BY <1>1, <1>2, <1>3, <1>4, <1>5, <1>6, <1>7, Writers, Zenon

-----------------------------------------------------------------------------
(* A run of the journal starts once and ends once, after its start.        *)
HasStart(r) == \E i \in DOMAIN log : log[i].type = "run.started" /\ log[i].run = r
HasEnd(r) == \E i \in DOMAIN log : log[i].type \in EndTypes /\ log[i].run = r

(* Run ids come from the reservation of a call that was submitted, or are  *)
(* minted for the call that uses them, by AgentRuntime or the recorder.    *)
ReservedBy(r, q) == \E d \in Calls : r = <<d, "submit">> /\ q[d] # "new"
Reserved(r) == ReservedBy(r, rpc)
MintedFor(r, c) == r \in {<<c, "runtime">>, <<c, "recorder">>}
Minted ==
    /\ pendingRun = None \/ Reserved(pendingRun)
    /\ \A c \in Calls : runOf[c] = None \/ runOf[c] = <<c, "runtime">> \/ Reserved(runOf[c])
    /\ \A i \in DOMAIN log : log[i].type = "run.started" =>
          MintedFor(log[i].run, log[i].call) \/ Reserved(log[i].run)

(* The reserved id, and the id of a call about to begin, are not used yet. *)
Unused ==
    /\ pendingRun # None => ~HasStart(pendingRun)
    /\ \A c \in Calls : (msg[c] = "begun" /\ ~RunDone(c)) => ~HasStart(runOf[c])

(* What the recorder or recovery is to end was started and not ended.      *)
Unended ==
    /\ \A c \in Calls : Alive(c) => HasStart(rid) /\ ~HasEnd(rid)
    /\ \A r \in scan.runs : HasStart(r) /\ ~HasEnd(r)
    /\ mode # "recover" => scan.runs = {}

(* What an action does to the run ids that are handed out.                 *)
IdMoves ==
    /\ \A d \in Calls : rpc[d] # "new" => rpc'[d] # "new"
    /\ \/ pendingRun' = pendingRun
       \/ pendingRun' = None
       \/ \E c \in Calls : rpc[c] = "new" /\ rpc'[c] # "new" /\ pendingRun' = <<c, "submit">>
    /\ \A c \in Calls :
         \/ /\ runOf'[c] = runOf[c]
            /\ (msg'[c] = "begun" /\ ~RunDone(c)') => (msg[c] = "begun" /\ ~RunDone(c))
         \/ /\ ui[c] = "start"
            /\ runOf'[c] = <<c, "runtime">> \/ (pendingRun # None /\ runOf'[c] = pendingRun)

LEMMA IdStep ==
    ASSUME CallType, RunType, [Next]_vars
    PROVE  IdMoves
<1> USE DEF IdMoves, RunDone, CallType, RunType, journalVars, recVars, runVars, ctlVars, ctxVars, callVars,
   procVars, opVars
<1>1. ASSUME NEW c \in Calls, SubmitCommand(c) PROVE IdMoves
    BY <1>1, Zenon DEF SubmitCommand
<1>2. ASSUME NEW c \in Calls, ClaimBusy(c) PROVE IdMoves
    BY <1>2, Zenon DEF ClaimBusy
<1>3. ASSUME NEW c \in Calls, SaveResult(c) PROVE IdMoves
    BY <1>3, Zenon DEF SaveResult
<1>4. ASSUME NEW c \in Calls, SaveFails(c) PROVE IdMoves
    BY <1>4, Zenon DEF SaveFails
<1>5. ASSUME NEW c \in Calls, StartSubmit(c) PROVE IdMoves
    BY <1>5, Zenon DEF StartSubmit
<1>6. ASSUME NEW c \in Calls, RequestContextEnds(c) PROVE IdMoves
    BY <1>6, Zenon DEF RequestContextEnds
<1>7. ASSUME NEW c \in Calls, BeginExecution(c) PROVE IdMoves
    BY <1>7, SMTT(30) DEF BeginExecution
<1>8. ASSUME NEW c \in Calls, SubmitReturns(c) PROVE IdMoves
    BY <1>8, Zenon DEF SubmitReturns
<1>9. ASSUME NEW c \in Calls, EndsWithoutRun(c) PROVE IdMoves
    BY <1>9, Zenon DEF EndsWithoutRun
<1>10. ASSUME NEW c \in Calls, BeginRefused(c) PROVE IdMoves
    BY <1>10, Zenon DEF BeginRefused
<1>11. ASSUME NEW c \in Calls, BeginRun(c) PROVE IdMoves
    BY <1>11, Zenon DEF BeginRun, RunBegun, SetRecorder, Recording
<1>12. ASSUME NEW c \in Calls, BeginRunFails(c) PROVE IdMoves
    BY <1>12, Zenon DEF BeginRunFails, SetRecorder, Recording
<1>13. ASSUME NEW c \in Calls, LoopCloses(c) PROVE IdMoves
    BY <1>13, Zenon DEF LoopCloses
<1>14. ASSUME NEW c \in Calls, EndRun(c) PROVE IdMoves
    BY <1>14, Zenon DEF EndRun
<1>15. ASSUME NEW c \in Calls, FinishExecution(c) PROVE IdMoves
    BY <1>15, Zenon DEF FinishExecution
<1>16. ASSUME NEW c \in Calls, ContextHook(c) PROVE IdMoves
    BY <1>16, Zenon DEF ContextHook
<1>17. ASSUME NEW c \in Calls, BeginStep(c) PROVE IdMoves
    BY <1>17, Zenon DEF BeginStep
<1>18. ASSUME NEW c \in Calls, DeliverDone(c) PROVE IdMoves
    BY <1>18, Zenon DEF DeliverDone
<1>19. ASSUME NEW c \in Calls, LoopMove(c) PROVE IdMoves
    BY <1>19, Zenon DEF LoopMove
<1>20. ASSUME NEW kind \in {"abort", "clear"}, AbortEngine(kind) PROVE IdMoves
    BY <1>20, Zenon DEF AbortEngine, AbortRun
<1>21. CASE AbortSubmit
    BY <1>21, Zenon DEF AbortSubmit
<1>22. CASE Reset
    BY <1>22, Zenon DEF Reset, ResetAborts, ResetPublishes, AbortRun
<1>23. CASE Crash
    BY <1>23, Zenon DEF Crash
<1>24. CASE RecoverScan
    BY <1>24, Zenon DEF RecoverScan
<1>25. CASE RecoverStep
    BY <1>25, Zenon DEF RecoverStep
<1>26. CASE RecoverRun
    BY <1>26, Zenon DEF RecoverRun
<1>27. CASE RecoverFails
    BY <1>27, Zenon DEF RecoverFails
<1>28. CASE Recovered
    BY <1>28, Zenon DEF Recovered
<1>29. CASE UNCHANGED vars
    BY <1>29, Zenon DEF vars
<1> QED
    BY LoopMoves, <1>1, <1>2, <1>3, <1>4, <1>5, <1>6, <1>7, <1>8, <1>9, <1>10, <1>11, <1>12,
       <1>13, <1>14, <1>15, <1>16, <1>17, <1>18, <1>19, <1>20, <1>21, <1>22, <1>23, <1>24, <1>25,
       <1>26, <1>27, <1>28, <1>29, ZenonT(30)
    DEF Next, RequestStep, RunStep, LoopStep, OpStep, ProcessStep

(* What an action does to the runs that are to be ended.                   *)
OpenMoves ==
    /\ \A c \in Calls : Alive(c)' => (Alive(c) /\ rid' = rid) \/ BeginRun(c)
    /\ scan'.runs \subseteq scan.runs \/ RecoverScan
    /\ mode' # "recover" => scan'.runs = {} \/ (mode # "recover" /\ scan'.runs = scan.runs)

LEMMA OpenMovesStep ==
    ASSUME CallType, RunType, StateType, Progress, LoopOwnsRecorder, [Next]_vars
    PROVE  OpenMoves
<1> USE DEF OpenMoves, Alive, LoopOwnsRecorder, CallType, RunType, StateType, Progress, journalVars, recVars, runVars, ctlVars, ctxVars, callVars,
   procVars, opVars
<1>1. ASSUME NEW c \in Calls, SubmitCommand(c) PROVE OpenMoves
    BY <1>1, Zenon DEF SubmitCommand
<1>2. ASSUME NEW c \in Calls, ClaimBusy(c) PROVE OpenMoves
    BY <1>2, Zenon DEF ClaimBusy
<1>3. ASSUME NEW c \in Calls, SaveResult(c) PROVE OpenMoves
    BY <1>3, Zenon DEF SaveResult
<1>4. ASSUME NEW c \in Calls, SaveFails(c) PROVE OpenMoves
    BY <1>4, Zenon DEF SaveFails
<1>5. ASSUME NEW c \in Calls, StartSubmit(c) PROVE OpenMoves
    BY <1>5, Zenon DEF StartSubmit
<1>6. ASSUME NEW c \in Calls, RequestContextEnds(c) PROVE OpenMoves
    BY <1>6, Zenon DEF RequestContextEnds
<1>7. ASSUME NEW c \in Calls, BeginExecution(c) PROVE OpenMoves
    BY <1>7, SMTT(30) DEF BeginExecution
<1>8. ASSUME NEW c \in Calls, SubmitReturns(c) PROVE OpenMoves
    BY <1>8, Zenon DEF SubmitReturns
<1>9. ASSUME NEW c \in Calls, EndsWithoutRun(c) PROVE OpenMoves
    BY <1>9, SMTT(30) DEF EndsWithoutRun
<1>10. ASSUME NEW c \in Calls, BeginRefused(c) PROVE OpenMoves
    BY <1>10, SMTT(30) DEF BeginRefused
<1>11. ASSUME NEW c \in Calls, BeginRun(c) PROVE OpenMoves
    BY <1>11, SMTT(30) DEF BeginRun, RunBegun, SetRecorder, Recording
<1>12. ASSUME NEW c \in Calls, BeginRunFails(c) PROVE OpenMoves
    BY <1>12, SMTT(30) DEF BeginRunFails, SetRecorder, Recording
<1>13. ASSUME NEW c \in Calls, LoopCloses(c) PROVE OpenMoves
    BY <1>13, SMTT(30) DEF LoopCloses
<1>14. ASSUME NEW c \in Calls, EndRun(c) PROVE OpenMoves
    BY <1>14, SMTT(30) DEF EndRun
<1>15. ASSUME NEW c \in Calls, FinishExecution(c) PROVE OpenMoves
    BY <1>15, SMTT(30) DEF FinishExecution
<1>16. ASSUME NEW c \in Calls, ContextHook(c) PROVE OpenMoves
    BY <1>16, Zenon DEF ContextHook
<1>17. ASSUME NEW c \in Calls, BeginStep(c) PROVE OpenMoves
    BY <1>17, Zenon DEF BeginStep
<1>18. ASSUME NEW c \in Calls, DeliverDone(c) PROVE OpenMoves
    BY <1>18, SMTT(30) DEF DeliverDone
<1>19. ASSUME NEW c \in Calls, LoopMove(c) PROVE OpenMoves
    BY <1>19, Zenon DEF LoopMove
<1>20. ASSUME NEW kind \in {"abort", "clear"}, AbortEngine(kind) PROVE OpenMoves
    BY <1>20, Zenon DEF AbortEngine, AbortRun
<1>21. CASE AbortSubmit
    BY <1>21, Zenon DEF AbortSubmit
<1>22. CASE Reset
    BY <1>22, Zenon DEF Reset, ResetAborts, ResetPublishes, AbortRun
<1>23. CASE Crash
    BY <1>23, Zenon DEF Crash
<1>24. CASE RecoverScan
    BY <1>24, Zenon DEF RecoverScan
<1>25. CASE RecoverStep
    BY <1>25, Zenon DEF RecoverStep
<1>26. CASE RecoverRun
    BY <1>26, SMTT(30) DEF RecoverRun
<1>27. CASE RecoverFails
    BY <1>27, Zenon DEF RecoverFails
<1>28. CASE Recovered
    BY <1>28, Zenon DEF Recovered
<1>29. CASE UNCHANGED vars
    BY <1>29, Zenon DEF vars
<1> QED
    BY LoopMoves, <1>1, <1>2, <1>3, <1>4, <1>5, <1>6, <1>7, <1>8, <1>9, <1>10, <1>11, <1>12,
       <1>13, <1>14, <1>15, <1>16, <1>17, <1>18, <1>19, <1>20, <1>21, <1>22, <1>23, <1>24, <1>25,
       <1>26, <1>27, <1>28, <1>29, ZenonT(30)
    DEF Next, RequestStep, RunStep, LoopStep, OpStep, ProcessStep

(* BeginRun records the id its call was given; a call that slipped through *)
(* a Reset gets the reserved one, or a new one.                            *)
LEMMA BeginsID ==
    ASSUME Fenced, RunType, NEW c \in Calls, BeginRun(c)
    PROVE  /\ Running(c) /\ msg[c] = "begun" /\ pendingRun' = None
           /\ \/ BeginRunID(c) = runOf[c] /\ live = c /\ phase = "active"
              \/ BeginRunID(c) = pendingRun /\ pendingRun # None
              \/ BeginRunID(c) = <<c, "recorder">>
<1>1. Running(c) /\ msg[c] = "begun" /\ pendingRun' = None
    BY Zenon DEF BeginRun, RunBegun, SetRecorder, Running
<1>2. CASE live = c /\ phase = "active"
  <2>1. live # None
      BY <1>2, SubmitRunAssumption
  <2>2. QED
      BY <1>1, <1>2, <2>1, Zenon DEF BeginRunID
<1>3. CASE phase \in {"idle", "ended"}
    BY <1>1, <1>3, Zenon DEF BeginRunID
<1> QED
    BY <1>1, <1>2, <1>3, Zenon DEF Fenced

(* Every start in the grown journal is old, unless BeginRun wrote it.      *)
LEMMA NewStarts ==
    ASSUME CallType, RunType, StateType, LogOK, Progress, Fenced, [Next]_vars
    PROVE  \/ \A i \in DOMAIN log' : log'[i].type = "run.started" => i \in DOMAIN log /\ log'[i] = log[i]
           \/ \E c \in Calls :
                /\ BeginRun(c)
                /\ \A i \in DOMAIN log' : log'[i].type = "run.started" =>
                     \/ i \in DOMAIN log /\ log'[i] = log[i]
                     \/ i = Len(log') /\ log'[i].run = BeginRunID(c) /\ log'[i].call = c
<1>1. ASSUME NEW c \in Calls, BeginRun(c)
      PROVE  \A i \in DOMAIN log' : log'[i].type = "run.started" =>
                     \/ i \in DOMAIN log /\ log'[i] = log[i]
                     \/ i = Len(log') /\ log'[i].run = BeginRunID(c) /\ log'[i].call = c
    <2> DEFINE e == Ev("run.started", BeginRunID(c), c, 0)
    <2>1. GrowsBy(e)
        BY <1>1, BeginRunGrows, Zenon
    <2>2. e.run = BeginRunID(c) /\ e.call = c
        BY Zenon DEF Ev
    <2> HIDE DEF e
    <2> QED
        BY <2>1, <2>2, GrowCases, Zenon
<1>2. ASSUME NEW c \in Calls, BeginStep(c)
      PROVE  \A i \in DOMAIN log' : log'[i].type = "run.started" => i \in DOMAIN log /\ log'[i] = log[i]
    <2> DEFINE e == Ev("step.started", rid, c, stepNo + 1)
    <2>1. GrowsBy(e) /\ e.type = "step.started"
        BY <1>2, BeginStepGrows, Zenon DEF Ev
    <2> HIDE DEF e
    <2> QED
        BY <2>1, GrowCases, Zenon
<1>3. ASSUME NEW c \in Calls, EndRun(c)
      PROVE  \A i \in DOMAIN log' : log'[i].type = "run.started" => i \in DOMAIN log /\ log'[i] = log[i]
    <2> DEFINE e == Ev(EndType(c), rid, c, 0)
    <2>1. e.type # "run.started"
        BY Zenon DEF Ev, EndType
    <2>2. UNCHANGED log \/ GrowsBy(e)
        BY <1>3, EndRunGrows, Zenon
    <2> HIDE DEF e
    <2> QED
        BY <2>1, <2>2, GrowCases, Zenon
<1>4. ASSUME Reset
      PROVE  \A i \in DOMAIN log' : log'[i].type = "run.started" => i \in DOMAIN log /\ log'[i] = log[i]
    <2> DEFINE e == Ev("session.reset", None, None, 0)
    <2>1. (UNCHANGED log \/ GrowsBy(e)) /\ e.type = "session.reset"
        BY <1>4, ResetGrows, Zenon DEF Ev
    <2> HIDE DEF e
    <2> QED
        BY <2>1, GrowCases, Zenon
<1>5. ASSUME RecoverStep
      PROVE  \A i \in DOMAIN log' : log'[i].type = "run.started" => i \in DOMAIN log /\ log'[i] = log[i]
    <2>1. PICK s \in scan.steps : GrowsBy(Ev("step.ended", s[1], None, s[2]))
        BY <1>5, RecoverStepGrows, Zenon
    <2> DEFINE e == Ev("step.ended", s[1], None, s[2])
    <2>2. GrowsBy(e) /\ e.type = "step.ended"
        BY <2>1, Zenon DEF Ev
    <2> HIDE DEF e
    <2> QED
        BY <2>2, GrowCases, Zenon
<1>6. ASSUME RecoverRun
      PROVE  \A i \in DOMAIN log' : log'[i].type = "run.started" => i \in DOMAIN log /\ log'[i] = log[i]
    <2>1. PICK r \in scan.runs : GrowsBy(Ev("run.interrupted", r, None, 0))
        BY <1>6, RecoverRunGrows, Zenon
    <2> DEFINE e == Ev("run.interrupted", r, None, 0)
    <2>2. GrowsBy(e) /\ e.type = "run.interrupted"
        BY <2>1, Zenon DEF Ev
    <2> HIDE DEF e
    <2> QED
        BY <2>2, GrowCases, Zenon
<1> QED
    BY <1>1, <1>2, <1>3, <1>4, <1>5, <1>6, Writers, Zenon

(* Ids stay minted.                                                        *)
LEMMA MintedStep ==
    ASSUME CallType, RunType, StateType, LogOK, Progress, Fenced, Minted, [Next]_vars
    PROVE  Minted'
<1>1. IdMoves
    BY IdStep, Zenon
<1>2. \A r : ReservedBy(r, rpc) => ReservedBy(r, rpc')
    BY <1>1, Zenon DEF ReservedBy, IdMoves
<1>3. (pendingRun = None \/ Reserved(pendingRun))'
    <2>1. CASE pendingRun' = pendingRun \/ pendingRun' = None
        BY <1>2, <2>1, Zenon DEF Minted, Reserved
    <2>2. ASSUME NEW c \in Calls, rpc'[c] # "new", pendingRun' = <<c, "submit">> PROVE Reserved(pendingRun)'
        BY <2>2, Zenon DEF Reserved, ReservedBy
    <2> QED
        BY <1>1, <2>1, <2>2, Zenon DEF IdMoves
<1>4. ASSUME NEW c \in Calls
      PROVE  (runOf[c] = None \/ runOf[c] = <<c, "runtime">> \/ Reserved(runOf[c]))'
    <2>1. \/ runOf'[c] = runOf[c] \/ runOf'[c] = <<c, "runtime">>
          \/ pendingRun # None /\ runOf'[c] = pendingRun
        BY <1>1, Zenon DEF IdMoves
    <2> QED
        BY <1>2, <2>1, Zenon DEF Minted, Reserved
<1>5. ASSUME NEW i \in DOMAIN log', log'[i].type = "run.started"
      PROVE  (MintedFor(log[i].run, log[i].call) \/ Reserved(log[i].run))'
    <2>1. CASE i \in DOMAIN log /\ log'[i] = log[i]
        BY <1>2, <1>5, <2>1, Zenon DEF Minted, MintedFor, Reserved
    <2>2. ASSUME NEW c \in Calls, BeginRun(c), log'[i].run = BeginRunID(c), log'[i].call = c
          PROVE  (MintedFor(log[i].run, log[i].call) \/ Reserved(log[i].run))'
        <3>1. MintedFor(BeginRunID(c), c) \/ Reserved(BeginRunID(c))
            BY <2>2, BeginsID, Zenon DEF Progress, Minted, MintedFor
        <3> QED
            BY <1>2, <2>2, <3>1, Zenon DEF Reserved, MintedFor
    <2> QED
        BY <1>5, <2>1, <2>2, NewStarts, Zenon
<1> QED
    BY <1>3, <1>4, <1>5, Zenon DEF Minted

(* An id that is handed out has not been used.                             *)
LEMMA UnusedStep ==
    ASSUME CallType, RunType, StateType, LogOK, Progress, OneHolder, Fenced, StartedCalls, Minted, Unused,
           [Next]_vars
    PROVE  Unused'
<1>0. IdMoves
    BY IdStep, Zenon
<1>1. ASSUME NEW c \in Calls, BeginRun(c) PROVE Unused'
    <2>1. pendingRun' = None /\ ui[c] = "reading"
        BY <1>1, BeginsID, Zenon DEF Fenced
    <2>2. ASSUME NEW d \in Calls, msg'[d] = "begun", ~RunDone(d)' PROVE FALSE
        <3>1. UNCHANGED <<ui, sctx, rctx>> /\ msg'[c] # "begun" /\ (d # c => msg'[d] = msg[d])
            BY <1>1, Zenon DEF BeginRun, RunBegun, CallType, ctxVars
        <3>2. d # c /\ msg[d] = "begun" /\ ~RunDone(d)
            BY <2>2, <3>1, Zenon DEF RunDone
        <3> QED
            BY <2>1, <3>2, Zenon DEF Fenced, Running, OneHolder, Holds
    <2> QED
        BY <2>1, <2>2, Zenon DEF Unused
<1>2. ASSUME \A i \in DOMAIN log' : log'[i].type = "run.started" => i \in DOMAIN log /\ log'[i] = log[i]
      PROVE  Unused'
    <2>1. ASSUME NEW r, ~HasStart(r) PROVE ~HasStart(r)'
        BY <1>2, <2>1, Zenon DEF HasStart
    <2>2. ASSUME pendingRun' # None PROVE ~HasStart(pendingRun)'
        <3>1. CASE pendingRun' = pendingRun
            BY <2>1, <2>2, <3>1, Zenon DEF Unused, HasStart
        <3>2. ASSUME NEW c \in Calls, rpc[c] = "new", pendingRun' = <<c, "submit">> PROVE ~HasStart(pendingRun)'
            <4>1. ASSUME NEW i \in DOMAIN log, log[i].type = "run.started", log[i].run = <<c, "submit">> PROVE FALSE
                <5>1. MintedFor(log[i].run, log[i].call) \/ Reserved(log[i].run)
                    BY <4>1, Zenon DEF Minted
                <5>2. ~MintedFor(log[i].run, log[i].call)
                    BY <4>1 DEF MintedFor
                <5>3. ~Reserved(log[i].run)
                    BY <3>2, <4>1 DEF Reserved, ReservedBy
                <5> QED
                    BY <5>1, <5>2, <5>3, Zenon
            <4>2. ~HasStart(<<c, "submit">>)
                BY <4>1, Zenon DEF HasStart
            <4> QED
                BY <2>1, <3>2, <4>2, Zenon DEF HasStart
        <3> QED
            BY <1>0, <2>2, <3>1, <3>2, Zenon DEF IdMoves
    <2>3. ASSUME NEW c \in Calls, msg'[c] = "begun", ~RunDone(c)' PROVE ~HasStart(runOf[c])'
        <3>1. CASE runOf'[c] = runOf[c] /\ msg[c] = "begun" /\ ~RunDone(c)
            BY <2>1, <3>1, Zenon DEF Unused, HasStart
        <3>2. CASE pendingRun # None /\ runOf'[c] = pendingRun
            BY <2>1, <3>2, Zenon DEF Unused, HasStart
        <3>3. CASE ui[c] = "start" /\ runOf'[c] = <<c, "runtime">>
            <4>1. ASSUME NEW i \in DOMAIN log, log[i].type = "run.started", log[i].run = <<c, "runtime">> PROVE FALSE
                <5>1. log[i].call # c
                    BY <3>3, <4>1, Zenon DEF StartedCalls
                <5>2. ~MintedFor(log[i].run, log[i].call)
                    BY <4>1, <5>1 DEF MintedFor
                <5>3. ~Reserved(log[i].run)
                    BY <4>1 DEF Reserved, ReservedBy
                <5> QED
                    BY <4>1, <5>2, <5>3, Zenon DEF Minted
            <4>2. ~HasStart(<<c, "runtime">>)
                BY <4>1, Zenon DEF HasStart
            <4> QED
                BY <2>1, <3>3, <4>2, Zenon DEF HasStart
        <3> QED
            BY <1>0, <2>3, <3>1, <3>2, <3>3, Zenon DEF IdMoves
    <2> QED
        BY <2>2, <2>3, Zenon DEF Unused
<1> QED
    BY <1>1, <1>2, NewStarts, Zenon

(* The journal only grows.                                                 *)
Kept == \A i \in DOMAIN log : i \in DOMAIN log' /\ log'[i] = log[i]

(* An end is old, or ends a run that was open and that neither the         *)
(* recorder nor recovery is to end again.                                  *)
OldEnd(i) == i \in DOMAIN log /\ log'[i] = log[i]
EndsRun(r) ==
    /\ r \in RunIds /\ HasStart(r) /\ ~HasEnd(r)
    /\ r \notin scan'.runs /\ \A d \in Calls : ~Alive(d)'
    /\ \A i \in DOMAIN log : i < Len(log')
    /\ \A i \in DOMAIN log' : log'[i].type \in EndTypes => OldEnd(i) \/ (i = Len(log') /\ log'[i].run = r)

(* A grown journal keeps its entries, the new one comes last.              *)
LEMMA GrowKeeps ==
    ASSUME NEW e, GrowsBy(e)
    PROVE  Kept /\ Len(log') \in DOMAIN log' /\ log'[Len(log')] = e /\ \A i \in DOMAIN log : i < Len(log')
<1>a. Len(log) \in Nat /\ Len(log') \in Nat /\ Len(log) < Len(log')
    BY Zenon DEF GrowsBy
<1>1. Len(log') \in 1..Len(log') /\ Len(log') \notin 1..Len(log) /\ \A i \in 1..Len(log) : i < Len(log')
    BY <1>a
<1>2. \A i \in 1..Len(log) : i \in 1..Len(log')
    BY <1>a
<1> QED
    BY <1>1, <1>2, Zenon DEF GrowsBy, Kept

(* EndRun ends the run the recorder holds.                                 *)
LEMMA EndRunEnds ==
    ASSUME CallType, RunType, StateType, LogOK, Progress, LoopOwnsRecorder, Unended,
           NEW c \in Calls, EndRun(c)
    PROVE  UNCHANGED log \/ EndsRun(rid)
<1>1. Alive(c) /\ Recording /\ recBy = c
    BY Zenon DEF EndRun, Alive, LoopOwnsRecorder
<1>2. HasStart(rid) /\ ~HasEnd(rid) /\ rid \in RunIds
    BY <1>1, Zenon DEF Unended, Recording, RunType
<1>3. mode = "up" /\ scan' = scan
    BY Zenon DEF EndRun, Progress, procVars
<1>4. rid \notin scan'.runs
    BY <1>3, Zenon DEF Unended
<1>5. ASSUME NEW d \in Calls PROVE ~Alive(d)'
    <2>1. CASE d = c
        BY <2>1 DEF EndRun, Alive, CallType
    <2>2. CASE d # c
        <3>1. ~Alive(d)
            BY <1>1, <2>2, Zenon DEF LoopOwnsRecorder
        <3>2. msg'[d] = msg[d]
            BY <2>2, Zenon DEF EndRun, CallType
        <3> QED
            BY <3>1, <3>2, Zenon DEF Alive
    <2> QED
        BY <2>1, <2>2, Zenon
<1>6. CASE UNCHANGED log
    BY <1>6, Zenon
<1>7. CASE GrowsBy(Ev(EndType(c), rid, c, 0))
    <2> DEFINE e == Ev(EndType(c), rid, c, 0)
    <2>1. GrowsBy(e) /\ e.run = rid
        BY <1>7, Zenon DEF Ev
    <2> HIDE DEF e
    <2>2. \A i \in DOMAIN log : i < Len(log')
        BY <2>1, GrowKeeps, Zenon
    <2>3. \A i \in DOMAIN log' : log'[i].type \in EndTypes => OldEnd(i) \/ (i = Len(log') /\ log'[i].run = rid)
        BY <2>1, GrowCases, Zenon DEF OldEnd, EndTypes
    <2> QED
        BY <1>2, <1>4, <1>5, <2>2, <2>3, Zenon DEF EndsRun
<1> QED
    BY <1>6, <1>7, EndRunGrows, Zenon

(* Recovery ends a run it found open.                                      *)
LEMMA RecoverRunEnds ==
    ASSUME CallType, RunType, StateType, LogOK, Progress, Unended, RecoverRun
    PROVE  \E r \in RunIds : EndsRun(r)
<1>1. PICK r \in scan.runs : /\ GrowsBy(Ev("run.interrupted", r, None, 0))
                             /\ scan' = [scan EXCEPT !.runs = scan.runs \ {r}]
    BY RecoverRunGrows, Zenon
<1> DEFINE e == Ev("run.interrupted", r, None, 0)
<1>2. GrowsBy(e) /\ e.run = r
    BY <1>1, Zenon DEF Ev
<1>3. r \in RunIds /\ HasStart(r) /\ ~HasEnd(r)
    BY Zenon DEF StateType, Unended
<1>4. r \notin scan'.runs
    BY <1>1 DEF StateType
<1> HIDE DEF e
<1>5. \A d \in Calls : ~Alive(d)'
    BY Zenon DEF RecoverRun, Progress, Alive, callVars
<1>6. \A i \in DOMAIN log : i < Len(log')
    BY <1>2, GrowKeeps, Zenon
<1>7. \A i \in DOMAIN log' : log'[i].type \in EndTypes => OldEnd(i) \/ (i = Len(log') /\ log'[i].run = r)
    BY <1>2, GrowCases, Zenon DEF OldEnd, EndTypes
<1> QED
    BY <1>3, <1>4, <1>5, <1>6, <1>7, Zenon DEF EndsRun

(* Every step keeps the journal; one that ends a run ends an open one.     *)
LEMMA NewEnds ==
    ASSUME CallType, RunType, StateType, LogOK, Progress, LoopOwnsRecorder, Unended, [Next]_vars
    PROVE  /\ Kept
           /\ \/ \A i \in DOMAIN log' : log'[i].type \in EndTypes => OldEnd(i)
              \/ \E r \in RunIds : EndsRun(r)
<1> DEFINE Old == \A i \in DOMAIN log' : log'[i].type \in EndTypes => OldEnd(i)
<1>0. ASSUME UNCHANGED log PROVE Kept /\ Old
    BY <1>0, Zenon DEF Kept, OldEnd
<1>e. ASSUME NEW e, GrowsBy(e), e.type \notin EndTypes PROVE Kept /\ Old
    BY <1>e, GrowKeeps, GrowCases, Zenon DEF OldEnd, EndTypes
<1>1. ASSUME NEW c \in Calls, BeginRun(c) PROVE Kept /\ Old
    <2> DEFINE e == Ev("run.started", BeginRunID(c), c, 0)
    <2>1. GrowsBy(e) /\ e.type \notin EndTypes
        BY <1>1, BeginRunGrows, Zenon DEF Ev, EndTypes
    <2> HIDE DEF e, Old
    <2> QED
        BY <2>1, <1>e, Zenon
<1>2. ASSUME NEW c \in Calls, BeginStep(c) PROVE Kept /\ Old
    <2> DEFINE e == Ev("step.started", rid, c, stepNo + 1)
    <2>1. GrowsBy(e) /\ e.type \notin EndTypes
        BY <1>2, BeginStepGrows, Zenon DEF Ev, EndTypes
    <2> HIDE DEF e, Old
    <2> QED
        BY <2>1, <1>e, Zenon
<1>3. ASSUME NEW c \in Calls, EndRun(c) PROVE Kept /\ (Old \/ \E r \in RunIds : EndsRun(r))
    <2>1. UNCHANGED log \/ EndsRun(rid)
        BY <1>3, EndRunEnds, Zenon
    <2>2. Kept
        BY <1>0, <1>3, EndRunGrows, GrowKeeps, Zenon
    <2>3. EndsRun(rid) => \E r \in RunIds : EndsRun(r)
        BY Zenon DEF EndsRun
    <2> QED
        BY <1>0, <2>1, <2>2, <2>3, Zenon
<1>4. ASSUME Reset PROVE Kept /\ Old
    <2> DEFINE e == Ev("session.reset", None, None, 0)
    <2>1. (UNCHANGED log \/ GrowsBy(e)) /\ e.type \notin EndTypes
        BY <1>4, ResetGrows, Zenon DEF Ev, EndTypes
    <2> HIDE DEF e, Old
    <2> QED
        BY <2>1, <1>0, <1>e, Zenon
<1>5. ASSUME RecoverStep PROVE Kept /\ Old
    <2>1. PICK s \in scan.steps : GrowsBy(Ev("step.ended", s[1], None, s[2]))
        BY <1>5, RecoverStepGrows, Zenon
    <2> DEFINE e == Ev("step.ended", s[1], None, s[2])
    <2>2. GrowsBy(e) /\ e.type \notin EndTypes
        BY <2>1, Zenon DEF Ev, EndTypes
    <2> HIDE DEF e, Old
    <2> QED
        BY <2>2, <1>e, Zenon
<1>6. ASSUME RecoverRun PROVE Kept /\ \E r \in RunIds : EndsRun(r)
    BY <1>6, RecoverRunEnds, RecoverRunGrows, GrowKeeps, Zenon
<1> HIDE DEF Old
<1>7. Kept /\ (Old \/ \E r \in RunIds : EndsRun(r))
    BY <1>0, <1>1, <1>2, <1>3, <1>4, <1>5, <1>6, Writers, Zenon
<1> QED
    BY <1>7, Zenon DEF Old

(* ValidRuns, entry by entry.                                              *)
StartAt(i, r) == i \in DOMAIN log /\ log[i].type = "run.started" /\ log[i].run = r
EndAt(i, r) == i \in DOMAIN log /\ log[i].type \in EndTypes /\ log[i].run = r
ValidRun(r) ==
    /\ \A i, j \in DOMAIN log : StartAt(i, r) /\ StartAt(j, r) => i = j
    /\ \A i, j \in DOMAIN log : EndAt(i, r) /\ EndAt(j, r) => i = j
    /\ \A j \in DOMAIN log : EndAt(j, r) => \E i \in DOMAIN log : StartAt(i, r) /\ i < j
Valid == \A r \in RunIds : ValidRun(r)

(* The two forms say the same.                                             *)
LEMMA ValidMeans == ValidRuns <=> Valid
<1>1. \A r \in RunIds : \A i \in DOMAIN log : i \in Starts(r) <=> StartAt(i, r)
    BY Zenon DEF Starts, StartAt
<1>2. \A r \in RunIds : \A i \in DOMAIN log : i \in Ends(r) <=> EndAt(i, r)
    BY Zenon DEF Ends, EndAt
<1>3. \A r \in RunIds : Starts(r) \subseteq DOMAIN log /\ Ends(r) \subseteq DOMAIN log
    BY Zenon DEF Starts, Ends
<1>4. ASSUME ValidRuns, NEW r \in RunIds PROVE ValidRun(r)
    BY <1>1, <1>2, <1>3, <1>4, Zenon DEF ValidRuns, ValidRun
<1>5. ASSUME Valid PROVE ValidRuns
    BY <1>1, <1>2, <1>3, <1>5, Zenon DEF ValidRuns, Valid, ValidRun
<1> QED
    BY <1>4, <1>5, Zenon DEF Valid

(* A run that has an end has a start.                                      *)
LEMMA EndedStarted ==
    ASSUME Valid, NEW r \in RunIds, HasEnd(r)
    PROVE  HasStart(r)
BY Zenon DEF Valid, ValidRun, StartAt, EndAt, HasEnd, HasStart

(* The id BeginRun records is new to the journal.                          *)
LEMMA BeginsUnused ==
    ASSUME RunType, LogOK, Progress, Fenced, StartedCalls, Minted, Unused, NEW c \in Calls, BeginRun(c)
    PROVE  BeginRunID(c) \in RunIds /\ ~HasStart(BeginRunID(c))
<1>1. msg[c] = "begun" /\ ~RunDone(c)
    BY Zenon DEF BeginRun
<1>2. BeginRunID(c) \in RunIds
    BY BeginIDType, Zenon
<1>3. ~HasStart(<<c, "recorder">>)
  <2>1. ASSUME NEW i \in DOMAIN log, log[i].type = "run.started", log[i].run = <<c, "recorder">> PROVE FALSE
    <3>1. log[i].call # c
        BY <1>1, <2>1, Zenon DEF StartedCalls
    <3>2. ~MintedFor(log[i].run, log[i].call)
        BY <2>1, <3>1 DEF MintedFor
    <3>3. ~Reserved(log[i].run)
        BY <2>1 DEF Reserved, ReservedBy
    <3>4. QED
        BY <2>1, <3>2, <3>3, Zenon DEF Minted
  <2>2. QED
      BY <2>1, Zenon DEF HasStart
<1> QED
    BY <1>1, <1>2, <1>3, BeginsID, Zenon DEF Unused

(* A step leaves every run with one start and one end after it.            *)
LEMMA ValidStep ==
    ASSUME CallType, RunType, StateType, LogOK, Progress, LoopOwnsRecorder, Fenced, StartedCalls, Minted,
           Unused, Unended, Valid, [Next]_vars
    PROVE  Valid'
<1>0. Kept
    BY NewEnds, Zenon
<1>1. ASSUME NEW r \in RunIds, NEW i \in DOMAIN log', NEW j \in DOMAIN log',
             log'[i].type = "run.started", log'[i].run = r, log'[j].type = "run.started", log'[j].run = r
      PROVE  i = j
    <2>1. CASE OldEnd(i) /\ OldEnd(j)
        BY <1>1, <2>1, Zenon DEF OldEnd, Valid, ValidRun, StartAt, EndAt
    <2>2. ASSUME NEW c \in Calls, BeginRun(c), r = BeginRunID(c)
          PROVE  ~OldEnd(i) /\ ~OldEnd(j)
        BY <1>1, <2>2, BeginsUnused, Zenon DEF OldEnd, HasStart
    <2> QED
        BY <1>1, <2>1, <2>2, NewStarts, Zenon DEF OldEnd
<1>2. ASSUME NEW r \in RunIds, NEW i \in DOMAIN log', NEW j \in DOMAIN log',
             log'[i].type \in EndTypes, log'[i].run = r, log'[j].type \in EndTypes, log'[j].run = r
      PROVE  i = j
    <2>1. CASE OldEnd(i) /\ OldEnd(j)
        BY <1>2, <2>1, Zenon DEF OldEnd, Valid, ValidRun, StartAt, EndAt
    <2>2. CASE EndsRun(r)
        BY <1>2, <2>2, Zenon DEF OldEnd, EndsRun, HasEnd
    <2>3. ASSUME NEW q \in RunIds, EndsRun(q), q # r PROVE OldEnd(i) /\ OldEnd(j)
        BY <1>2, <2>3, Zenon DEF EndsRun
    <2> QED
        BY <1>2, <2>1, <2>2, <2>3, NewEnds, Zenon
<1>3. ASSUME NEW r \in RunIds, NEW j \in DOMAIN log', log'[j].type \in EndTypes, log'[j].run = r
      PROVE  \E i \in DOMAIN log' : log'[i].type = "run.started" /\ log'[i].run = r /\ i < j
    <2>1. CASE OldEnd(j)
        <3>1. PICK i \in DOMAIN log : log[i].type = "run.started" /\ log[i].run = r /\ i < j
            BY <1>3, <2>1, Zenon DEF OldEnd, Valid, ValidRun, StartAt, EndAt
        <3> QED
            BY <1>0, <3>1, Zenon DEF Kept
    <2>2. ASSUME NEW q \in RunIds, EndsRun(q), ~OldEnd(j)
          PROVE  \E i \in DOMAIN log' : log'[i].type = "run.started" /\ log'[i].run = r /\ i < j
        <3>1. q = r /\ j = Len(log')
            BY <1>3, <2>2, Zenon DEF EndsRun
        <3>2. PICK i \in DOMAIN log : log[i].type = "run.started" /\ log[i].run = r /\ i < Len(log')
            BY <2>2, <3>1, Zenon DEF EndsRun, HasStart
        <3> QED
            BY <1>0, <3>1, <3>2, Zenon DEF Kept
    <2> QED
        BY <1>3, <2>1, <2>2, NewEnds, Zenon
<1> QED
    BY <1>1, <1>2, <1>3, Zenon DEF Valid, ValidRun, StartAt, EndAt

(* What is to be ended stays started and not ended.                        *)
LEMMA UnendedStep ==
    ASSUME CallType, RunType, StateType, LogOK, Progress, LoopOwnsRecorder, Fenced, StartedCalls, Minted,
           Unused, Unended, Valid, [Next]_vars
    PROVE  Unended'
<1>0. Kept /\ OpenMoves
    BY NewEnds, OpenMovesStep, Zenon
<1>1. ASSUME NEW r \in RunIds, HasStart(r) PROVE HasStart(r)'
    BY <1>0, <1>1, Zenon DEF Kept, HasStart
<1>2. ASSUME NEW r \in RunIds, ~HasEnd(r), r \in scan'.runs \/ \E d \in Calls : Alive(d)' PROVE ~HasEnd(r)'
    <2>1. CASE \A i \in DOMAIN log' : log'[i].type \in EndTypes => OldEnd(i)
        BY <1>2, <2>1, Zenon DEF HasEnd, OldEnd
    <2>2. ASSUME NEW q \in RunIds, EndsRun(q) PROVE ~HasEnd(r)'
        <3>1. q # r /\ r \in scan'.runs
            BY <1>2, <2>2, Zenon DEF EndsRun
        <3> QED
            BY <1>2, <2>2, <3>1, Zenon DEF EndsRun, HasEnd, OldEnd
    <2> QED
        BY <2>1, <2>2, NewEnds, Zenon
<1>3. ASSUME NEW c \in Calls, Alive(c)' PROVE (HasStart(rid) /\ ~HasEnd(rid))'
    <2>1. CASE Alive(c) /\ rid' = rid
        <3>1. rid \in RunIds /\ HasStart(rid) /\ ~HasEnd(rid)
            BY <2>1, Zenon DEF Unended, LoopOwnsRecorder, Recording, RunType
        <3>2. \A r \in RunIds : r = rid => HasStart(r)' /\ ~HasEnd(r)'
            BY <1>1, <1>2, <1>3, <3>1, Zenon
        <3> QED
            BY <2>1, <3>1, <3>2, Zenon DEF HasStart, HasEnd
    <2>2. CASE BeginRun(c)
        <3> DEFINE e == Ev("run.started", BeginRunID(c), c, 0)
        <3>1. BeginRunID(c) \in RunIds /\ ~HasEnd(BeginRunID(c))
            BY <2>2, BeginsUnused, EndedStarted, Zenon
        <3>2. rid' = BeginRunID(c)
            BY <2>2, Zenon DEF BeginRun, RunBegun, SetRecorder
        <3>3. GrowsBy(e) /\ e.type = "run.started" /\ e.run = BeginRunID(c)
            BY <2>2, BeginRunGrows, Zenon DEF Ev
        <3> HIDE DEF e
        <3>4. HasStart(rid)'
            BY <3>2, <3>3, GrowKeeps, Zenon DEF HasStart
        <3>5. \A r \in RunIds : r = BeginRunID(c) => ~HasEnd(r)'
            BY <1>2, <1>3, <3>1, Zenon
        <3> QED
            BY <3>1, <3>2, <3>4, <3>5, Zenon DEF HasEnd
    <2> QED
        BY <1>0, <1>3, <2>1, <2>2, Zenon DEF OpenMoves
<1>4. ASSUME NEW r \in scan'.runs PROVE (HasStart(r) /\ ~HasEnd(r))'
    <2>1. CASE r \in scan.runs
        <3>1. r \in RunIds /\ HasStart(r) /\ ~HasEnd(r)
            BY <2>1, Zenon DEF StateType, Unended
        <3> QED
            BY <1>1, <1>2, <3>1, Zenon
    <2>2. CASE RecoverScan
        <3>1. scan'.runs = OpenRuns /\ log' = log
            BY <2>2, Zenon DEF RecoverScan, journalVars
        <3>2. PICK j \in DOMAIN log : /\ log[j].type = "run.started" /\ log[j].run = r
                                     /\ ~\E k \in (j + 1)..Len(log) : log[k].type \in EndTypes /\ log[k].run = r
            BY <3>1, Zenon DEF OpenRuns
        <3>3. r \in RunIds
            BY <3>2, Zenon DEF LogOK, Named
        <3>4. ASSUME NEW k \in DOMAIN log, log[k].type \in EndTypes, log[k].run = r PROVE FALSE
            <4>a. EndAt(k, r) /\ StartAt(j, r) /\ ValidRun(r)
                BY <3>2, <3>3, <3>4, Zenon DEF Valid, StartAt, EndAt
            <4>b. PICK i \in DOMAIN log : StartAt(i, r) /\ i < k
                BY <4>a, Zenon DEF ValidRun
            <4>1. j < k
                BY <4>a, <4>b, Zenon DEF ValidRun
            <4>2. k \in (j + 1)..Len(log)
                BY <4>1 DEF LogOK
            <4> QED
                BY <3>2, <3>4, <4>2, Zenon
        <3> QED
            BY <3>1, <3>2, <3>4, Zenon DEF HasStart, HasEnd
    <2> QED
        BY <1>0, <2>1, <2>2, Zenon DEF OpenMoves
<1>5. mode' # "recover" => scan'.runs = {}
    BY <1>0, Zenon DEF OpenMoves, Unended
<1> QED
    BY <1>3, <1>4, <1>5, Zenon DEF Unended

(* Every step keeps the types.                                             *)
LEMMA TypeStep ==
    ASSUME TypeOK, RunsNamed, Progress, TurnsBounded, [Next]_vars
    PROVE  TypeOK' /\ RunsNamed' /\ TurnsBounded'
<1>1. CallType' /\ RunType' /\ TroubleType'
    BY CallTypeStep, RunTypeStep, TroubleStep, Zenon DEF TypeOK
<1>2. StateType'
    BY StateTypeStep, Zenon DEF TypeOK
<1>3. log' \in Seq(Events) /\ Named(log')
    BY LogTypeStep, Zenon DEF TypeOK, RunsNamed
<1>4. TurnsBounded' /\ turns' \in [Calls -> 0..MaxTurns]
    BY TurnsStep, Zenon
<1>5. QED
    BY <1>1, <1>2, <1>3, <1>4, Zenon DEF TypeOK, RunsNamed, Events

(* The inductive invariant: the types, where the goroutines are, who holds *)
(* the session and the recorder, what the stored results and the fences    *)
(* say, and where the open runs of the journal are; which run ids are      *)
(* handed out and unused, and which runs are still to be ended.            *)
IInv ==
    /\ TypeOK /\ RunsNamed /\ Progress /\ TurnsBounded /\ LoopOwnsRecorder
    /\ Stored /\ StartedCalls /\ OneStart
    /\ OneHolder /\ Fenced /\ ResetGens /\ ResetFences
    /\ OpenKnown /\ RunsDontOverlap
    /\ Minted /\ Unused /\ Unended /\ Valid

(* The invariant holds initially.                                          *)
LEMMA InitInv == Init => IInv
<1> SUFFICES ASSUME Init PROVE IInv
    BY Zenon
<1>1. DOMAIN log = {} /\ log \in Seq(Events)
    BY DEF Init
<1>2. CallType /\ TroubleType
    BY SubmitRunAssumption DEF Init, CallType, TroubleType
<1>3. RunType
    BY Zenon DEF Init, RunType
<1>4. StateType
    BY SubmitRunAssumption, Zenon DEF Init, StateType
<1>5. turns \in [Calls -> 0..MaxTurns] /\ TurnsBounded
    BY SubmitRunAssumption DEF Init, TurnsBounded
<1>6. Progress /\ LoopOwnsRecorder /\ Stored /\ OneHolder /\ Fenced
    BY Zenon DEF Init, Progress, LoopOwnsRecorder, Alive, Stored, OneHolder, Holds, Fenced, Running
<1>7. RunsNamed /\ StartedCalls /\ OneStart /\ ResetGens /\ ResetFences /\ OpenKnown /\ RunsDontOverlap
    BY <1>1, Zenon DEF RunsNamed, Named, StartedCalls, OneStart, ResetGens, ResetFences, OpenKnown,
                RunsDontOverlap
<1>8. Minted /\ Unused /\ Unended /\ Valid
  <2>1. \A r : ~HasStart(r)
      BY <1>1, Zenon DEF HasStart
  <2>2. pendingRun = None /\ (\A c \in Calls : runOf[c] = None /\ msg[c] = "none") /\ scan.runs = {}
      BY Zenon DEF Init
  <2>3. Minted
      BY <1>1, <2>2, Zenon DEF Minted
  <2>4. Unused
      BY <2>1, <2>2, Zenon DEF Unused
  <2>5. Unended
      BY <2>2, Zenon DEF Unended, Alive
  <2>6. Valid
      BY <1>1, Zenon DEF Valid, ValidRun, StartAt, EndAt
  <2>7. QED
      BY <2>3, <2>4, <2>5, <2>6, Zenon
<1>9. QED
    BY <1>1, <1>2, <1>3, <1>4, <1>5, <1>6, <1>7, <1>8, Zenon DEF IInv, TypeOK

(* Every step keeps the invariant.                                         *)
LEMMA StepInv == IInv /\ [Next]_vars => IInv'
<1> SUFFICES ASSUME IInv, [Next]_vars PROVE IInv'
    BY Zenon
<1>1. TypeOK' /\ RunsNamed' /\ TurnsBounded'
    BY TypeStep, Zenon DEF IInv
<1>2. Progress'
    BY ProgressStep, Zenon DEF IInv
<1>3. LoopOwnsRecorder'
    BY OwnedStep, Zenon DEF IInv
<1>4. CallType /\ RunType /\ StateType /\ LogOK
    BY Zenon DEF IInv, TypeOK, LogOK, RunsNamed
<1>5. Stored' /\ OneHolder' /\ Fenced'
    BY <1>4, StoredStep, HolderStep, FencedStep, Zenon DEF IInv
<1>6. StartedCalls' /\ OneStart'
    BY <1>4, StartedStep, OneStartStep, Zenon DEF IInv
<1>7. ResetGens' /\ ResetFences'
    BY <1>4, ResetGensStep, FencesStep, Zenon DEF IInv
<1>8. OpenKnown' /\ RunsDontOverlap'
    BY <1>4, OpenStep, OverlapStep, Zenon DEF IInv
<1>9. Minted' /\ Unused'
    BY <1>4, MintedStep, UnusedStep, Zenon DEF IInv
<1>10. Unended' /\ Valid'
    BY <1>4, UnendedStep, ValidStep, Zenon DEF IInv
<1>11. QED
    BY <1>1, <1>2, <1>3, <1>5, <1>6, <1>7, <1>8, <1>9, <1>10, Zenon DEF IInv

(* The invariant always holds.                                             *)
LEMMA Invariant == Spec => []IInv
<1>1. QED
    BY InitInv, StepInv, PTL DEF Spec

(* Whatever the calls, retries, faults and crashes, the state of the       *)
(* session and its journal stays well typed and queryLoop within its turns.*)
THEOREM TypeCorrect == Spec => []TypeOK
<1>1. IInv => TypeOK
    BY Zenon DEF IInv
<1>2. QED
    BY <1>1, Invariant, PTL

(* Between its BeginRun and its EndRun a call has the recorder to itself.  *)
THEOREM RecorderOwned == Spec => []LoopOwnsRecorder
<1>1. IInv => LoopOwnsRecorder
    BY Zenon DEF IInv
<1>2. QED
    BY <1>1, Invariant, PTL

(* A command starts one run at most: its result is stored before the run   *)
(* starts, and no other call of the command gets past the stored result.   *)
THEOREM CommandRunsOnce == Spec => []OneRunPerCommand
<1>1. IInv => OneRunPerCommand
  <2> SUFFICES ASSUME IInv, NEW i \in DOMAIN log, NEW j \in DOMAIN log,
                      log[i].type = "run.started", log[j].type = "run.started",
                      command[log[i].call] = command[log[j].call]
               PROVE  i = j
      BY Zenon DEF OneRunPerCommand
  <2>1. /\ log[i].call \in Calls /\ rpc[log[i].call] = "accepted"
        /\ log[j].call \in Calls /\ rpc[log[j].call] = "accepted"
      BY Zenon DEF IInv, StartedCalls
  <2>2. log[i].call = log[j].call
      BY <2>1, Zenon DEF IInv, Stored
  <2>3. QED
      BY <2>2, Zenon DEF IInv, OneStart
<1>2. QED
    BY <1>1, Invariant, PTL

(* Clear fences every call that began before AgentRuntime.Reset aborted:   *)
(* after the session.reset it starts no run and no step any more, whatever *)
(* its goroutines still do.  A call that begins between that abort and the *)
(* session.reset is not fenced, and ResetFences says so.                   *)
THEOREM ResetIsFence == Spec => []ResetFences
<1>1. IInv => ResetFences
    BY Zenon DEF IInv
<1>2. QED
    BY <1>1, Invariant, PTL

(* The runs of a conversation never overlap in the journal, also across    *)
(* crashes and failed recoveries.                                          *)
THEOREM RunsInTurn == Spec => []RunsDontOverlap
<1>1. IInv => RunsDontOverlap
    BY Zenon DEF IInv
<1>2. QED
    BY <1>1, Invariant, PTL

(* A run of the journal starts once and ends once, after its start: what   *)
(* harness.ValidateInvariants asks of a journal holds whatever BeginRun,   *)
(* EndRun, aborts, crashes and recovery do, because a reserved id is used  *)
(* once and only an open run is ever ended.                                *)
THEOREM RunsValid == Spec => []ValidRuns
<1>1. IInv => ValidRuns
    BY ValidMeans, Zenon DEF IInv
<1>2. QED
    BY <1>1, Invariant, PTL

=============================================================================
