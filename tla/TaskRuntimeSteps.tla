-------------------------- MODULE TaskRuntimeSteps ---------------------------
(***************************************************************************)
(* The inductive invariant of TaskRuntime and the lemmas that its steps    *)
(* keep it, for any finite set of workers.                                 *)
(***************************************************************************)
EXTENDS TaskRuntime, TLAPS

Frames == [scope : Scopes, todo : SUBSET Tasks, cur : SUBSET Tasks]

(* The types of the variables.                                             *)
GoStates == {"none", "start", "run", "idle"} \cup Terminal

Types ==
    /\ status \in [Tasks -> Statuses] /\ parent \in [Tasks -> Scopes]
    /\ reusable \in SUBSET Tasks /\ lease \in [Tasks -> Nat]
    /\ specs \in SUBSET Tasks /\ workers \in SUBSET Tasks
    /\ go \in [Tasks -> GoStates]
    /\ ctxDone \in SUBSET Tasks /\ detached \in SUBSET Tasks
    /\ count \in [Scopes -> Nat] /\ pend \in [Tasks -> Nat] /\ told \in SUBSET Tasks
    /\ idleTimer \in SUBSET Tasks /\ idleFired \in SUBSET Tasks
    /\ cleanup \in [Tasks -> {"none", "armed", "spent"}]
    /\ wpc \in {"none", "consume", "snapshot", "register", "select"}
    /\ wset \in SUBSET Tasks /\ wreg \in SUBSET Tasks /\ wpending \in SUBSET Tasks
    /\ token \in BOOLEAN /\ late \in BOOLEAN /\ dropped \in SUBSET Tasks
    /\ fgpc \in {"running", "cleanup", "done"} /\ frames \in Seq(Frames)
    /\ epoch \in 0..use.resets /\ rpc \in {"none", "list", "stop"} /\ refs \in SUBSET Tasks
    /\ sends \in 0..use.sends /\ use \in Uses

(* A worker that is over, for good.                                        *)
Dead(t) == status[t] \in Terminal \cup {"gone"}

(* Where the goroutine of a worker may be, by the status of its record; a  *)
(* worker that was stopped has its context cancelled for as long as it     *)
(* runs.                                                                   *)
Matched(t) ==
    /\ go[t] = "start" => status[t] \in {"queued", "killed", "gone"}
    /\ go[t] \notin {"none", "start"} => status[t] \in {"running", "killed", "gone"}
    /\ go[t] \in {"start", "run"} => t \in workers \cup ctxDone
    /\ go[t] \in {"start", "run"} /\ Dead(t) => t \in ctxDone
    /\ cleanup[t] = "armed" => status[t] \in Terminal
    /\ t \in specs => t \in Present

GoroutinesMatch == \A t \in Tasks : Matched(t)

(* childCounts is exact.                                                   *)
CountsExact == \A s \in Scopes : count[s] = Cardinality(Children(s))

(* What the cleanup timer takes a count of 0 for.                          *)
ZeroIsChildless == \A s \in Scopes : count[s] = 0 => Children(s) = {}

(* A task that was admitted.                                               *)
Listed(t) == status[t] \notin {"unused", "calling"}

(* The stack of CleanupScope: the scope of the sub-agent at the bottom, and*)
(* above it, each for the child its caller is at, those of dead workers.   *)
CleanupInv ==
    /\ fgpc = "running" => frames = <<>>
    /\ \A i \in DOMAIN frames :
        /\ frames[i].scope = "fg" <=> i = Len(frames)
        /\ i # Len(frames) => frames[i].scope \in Tasks /\ Dead(frames[i].scope)
        /\ i # 1 => frames[i].cur = {frames[i - 1].scope}
        /\ \A t \in frames[i].todo : Listed(t)
    /\ frames # <<>> => /\ fgpc = "cleanup"
                        /\ \A t \in frames[1].cur : Dead(t) /\ Children(t) = {}

(* What Shutdown has still to stop.                                        *)
ResetInv ==
    /\ \A t \in Tasks : lease[t] <= epoch
    /\ rpc # "list" => \A t \in Tasks : status[t] \in Live /\ lease[t] < epoch => rpc = "stop" /\ t \in refs

RuntimeInv ==
    /\ Types /\ GoroutinesMatch /\ CountsExact /\ CleanupInv /\ NoOrphans /\ ResetInv
    /\ OutcomeReachesParent
-----------------------------------------------------------------------------
LEMMA UseFacts ==
    ASSUME NEW u \in Uses
    PROVE  /\ u.resets \in Nat /\ u.sends \in Nat /\ u.waits \in SUBSET SUBSET Tasks
           /\ u.imported \in SUBSET Tasks
    BY TaskRuntimeAssumption, Zenon

LEMMA ScopeFacts ==
    /\ Tasks \subseteq Scopes /\ "main" \in Scopes /\ "fg" \in Scopes
    /\ "main" \notin Tasks /\ "fg" \notin Tasks /\ IsFiniteSet(Tasks)
    BY TaskRuntimeAssumption, Zenon DEF Scopes

(* What the operations on records do, slot by slot.                        *)
LEMMA EnqueueEffect ==
    ASSUME Types, NEW t \in Tasks, NEW st \in Outcomes \cup {"killed"}, Enqueue(t, st)
    PROVE  /\ status' \in [Tasks -> Statuses] /\ pend' \in [Tasks -> Nat]
           /\ told' \in SUBSET Tasks /\ token' \in BOOLEAN /\ wreg' \in SUBSET Tasks
           /\ dropped' \in SUBSET Tasks /\ UNCHANGED <<wpc, wset, late, wpending>>
           /\ \A u \in Tasks : status'[u] = IF u = t THEN st ELSE status[u]
           /\ \A u \in Tasks : pend'[u] = IF u = t THEN pend[u] + 1 ELSE pend[u]
           /\ told' = told \ {t} /\ dropped' = dropped \ {t}
    BY DEF Enqueue, Types, Statuses, Outcomes, Terminal, Live

LEMMA ScheduleCleanupEffect ==
    ASSUME Types, NEW t \in Tasks, ScheduleCleanup(t)
    PROVE  /\ cleanup' \in [Tasks -> {"none", "armed", "spent"}]
           /\ \A u \in Tasks : u # t => cleanup'[u] = cleanup[u]
    BY Zenon DEF ScheduleCleanup, Types

LEMMA StopEffect ==
    ASSUME Types, NEW t \in Tasks, Stop(t)
    PROVE  /\ status' \in [Tasks -> Statuses] /\ pend' \in [Tasks -> Nat]
           /\ told' \in SUBSET Tasks /\ token' \in BOOLEAN /\ wreg' \in SUBSET Tasks
           /\ dropped' \in SUBSET Tasks /\ cleanup' \in [Tasks -> {"none", "armed", "spent"}]
           /\ UNCHANGED <<parent, reusable, lease, workers, go, detached, count, idleFired, wpc, wset,
                          late, wpending>>
           /\ idleTimer' = idleTimer \ {t} /\ specs' = specs \ {t}
           /\ ctxDone' = IF t \in workers THEN ctxDone \cup {t} ELSE ctxDone
           /\ \A u \in Tasks : u # t => cleanup'[u] = cleanup[u]
           /\ \A u \in Tasks : status'[u] = IF u = t THEN "killed" ELSE status[u]
           /\ \A u \in Tasks : pend'[u] = IF u = t THEN pend[u] + 1 ELSE pend[u]
           /\ told' = told \ {t} /\ dropped' = dropped \ {t}
    BY EnqueueEffect, ScheduleCleanupEffect, Zenon DEF Stop

StoppedTypes(t) ==
    /\ status' \in [Tasks -> Statuses] /\ pend' \in [Tasks -> Nat] /\ told' \in SUBSET Tasks
    /\ token' \in BOOLEAN /\ wreg' \in SUBSET Tasks /\ dropped' \in SUBSET Tasks
    /\ cleanup' \in [Tasks -> {"none", "armed", "spent"}]
    /\ idleTimer' \in SUBSET Tasks /\ specs' \in SUBSET Tasks /\ ctxDone' \in SUBSET Tasks
    /\ parent' \in [Tasks -> Scopes] /\ reusable' \in SUBSET Tasks /\ lease' \in [Tasks -> Nat]
    /\ workers' \in SUBSET Tasks /\ go' \in [Tasks -> GoStates] /\ detached' \in SUBSET Tasks
    /\ count' \in [Scopes -> Nat] /\ idleFired' \in SUBSET Tasks
    /\ UNCHANGED <<wpc, wset, late, wpending>>

LEMMA StoppedTyped ==
    ASSUME Types, NEW t \in Tasks, Stop(t)
    PROVE  StoppedTypes(t)
<1>1. /\ idleTimer' = idleTimer \ {t} /\ specs' = specs \ {t}
      /\ ctxDone' = IF t \in workers THEN ctxDone \cup {t} ELSE ctxDone
      /\ UNCHANGED <<parent, reusable, lease, workers, go, detached, count, idleFired>>
    BY Zenon DEF Stop
<1>2. /\ idleTimer' \in SUBSET Tasks /\ specs' \in SUBSET Tasks /\ ctxDone' \in SUBSET Tasks
      /\ parent' \in [Tasks -> Scopes] /\ reusable' \in SUBSET Tasks /\ lease' \in [Tasks -> Nat]
      /\ workers' \in SUBSET Tasks /\ go' \in [Tasks -> GoStates] /\ detached' \in SUBSET Tasks
      /\ count' \in [Scopes -> Nat] /\ idleFired' \in SUBSET Tasks
    BY <1>1, Zenon DEF Types
<1> QED
    BY <1>2, StopEffect, Zenon DEF StoppedTypes

LEMMA UnregisterEffect ==
    ASSUME Types, NEW t \in Tasks, Unregister(t)
    PROVE  /\ status' \in [Tasks -> Statuses] /\ cleanup' \in [Tasks -> {"none", "armed", "spent"}]
           /\ idleTimer' \in SUBSET Tasks /\ count' \in [Scopes -> Nat]
           /\ \A u \in Tasks : status'[u] = IF u = t THEN "gone" ELSE status[u]
           /\ \A u \in Tasks : cleanup'[u] = IF u = t THEN "none" ELSE cleanup[u]
           /\ \A s \in Scopes : count'[s] = IF s = parent[t] /\ count[s] > 0 THEN count[s] - 1 ELSE count[s]
<1>1. status' \in [Tasks -> Statuses] /\ \A u \in Tasks : status'[u] = IF u = t THEN "gone" ELSE status[u]
    BY Zenon DEF Unregister, Types, Statuses
<1>2. /\ cleanup' \in [Tasks -> {"none", "armed", "spent"}]
      /\ \A u \in Tasks : cleanup'[u] = IF u = t THEN "none" ELSE cleanup[u]
    BY Zenon DEF Unregister, Types
<1>3. /\ count' \in [Scopes -> Nat]
      /\ \A s \in Scopes : count'[s] = IF s = parent[t] /\ count[s] > 0 THEN count[s] - 1 ELSE count[s]
    BY DEF Unregister, Types
<1> QED
    BY <1>1, <1>2, <1>3, Zenon DEF Unregister, Types

(* The stack, index by index.                                              *)
LEMMA FramesStep ==
    ASSUME Types
    PROVE  /\ \A t \in Tasks : CleanupChild(t) =>
                /\ frames' \in Seq(Frames) /\ Len(frames') = Len(frames) + 1 /\ Len(frames) > 0
                /\ frames'[1] = [scope |-> t, todo |-> {}, cur |-> {}]
                /\ frames'[2] = [frames[1] EXCEPT !.todo = @ \ {t}, !.cur = {t}]
                /\ \A i \in 3..Len(frames') : frames'[i] = frames[i - 1]
           /\ \A t \in Tasks : CleanupRemove(t) =>
                /\ frames' \in Seq(Frames) /\ Len(frames') = Len(frames) /\ Len(frames) > 0
                /\ frames'[1] = [frames[1] EXCEPT !.cur = {}]
                /\ \A i \in 2..Len(frames') : frames'[i] = frames[i]
           /\ CleanupList /\ Children(Head(frames).scope) # {} =>
                /\ frames' \in Seq(Frames) /\ Len(frames') = Len(frames) /\ Len(frames) > 0
                /\ frames'[1] = [scope |-> frames[1].scope, todo |-> Children(Head(frames).scope), cur |-> {}]
                /\ \A i \in 2..Len(frames') : frames'[i] = frames[i]
           /\ CleanupList /\ Children(Head(frames).scope) = {} =>
                /\ frames' \in Seq(Frames) /\ Len(frames') = Len(frames) - 1 /\ Len(frames) > 0
                /\ \A i \in 1..Len(frames') : frames'[i] = frames[i + 1]
<1>0. frames \in Seq(Frames)
    BY Zenon DEF Types
<1>a. ASSUME frames # <<>>
      PROVE  /\ Len(frames) > 0 /\ Len(frames) \in Nat /\ Head(frames) = frames[1] /\ Head(frames) \in Frames
             /\ Tail(frames) \in Seq(Frames) /\ Len(Tail(frames)) = Len(frames) - 1
             /\ \A i \in 1..(Len(frames) - 1) : Tail(frames)[i] = frames[i + 1]
    BY <1>0, <1>a
<1>1. ASSUME NEW t \in Tasks, CleanupChild(t)
      PROVE  /\ frames' \in Seq(Frames) /\ Len(frames') = Len(frames) + 1 /\ Len(frames) > 0
             /\ frames'[1] = [scope |-> t, todo |-> {}, cur |-> {}]
             /\ frames'[2] = [frames[1] EXCEPT !.todo = @ \ {t}, !.cur = {t}]
             /\ \A i \in 3..Len(frames') : frames'[i] = frames[i - 1]
    <2> DEFINE f == [scope |-> t, todo |-> {}, cur |-> {}]
               h == [Head(frames) EXCEPT !.todo = @ \ {t}, !.cur = {t}]
    <2>1. frames # <<>> /\ frames' = <<f>> \o <<h>> \o Tail(frames)
        BY <1>1, Zenon DEF CleanupChild
    <2>2. f \in Frames /\ h \in Frames /\ h = [frames[1] EXCEPT !.todo = @ \ {t}, !.cur = {t}]
        BY <1>a, <2>1, ScopeFacts, Zenon DEF Frames
    <2> HIDE DEF f, h
    <2> QED
        BY <1>a, <2>1, <2>2 DEF f
<1>2. ASSUME NEW t \in Tasks, CleanupRemove(t)
      PROVE  /\ frames' \in Seq(Frames) /\ Len(frames') = Len(frames) /\ Len(frames) > 0
             /\ frames'[1] = [frames[1] EXCEPT !.cur = {}]
             /\ \A i \in 2..Len(frames') : frames'[i] = frames[i]
    <2> DEFINE h == [Head(frames) EXCEPT !.cur = {}]
    <2>1. frames # <<>> /\ frames' = <<h>> \o Tail(frames)
        BY <1>2, Zenon DEF CleanupRemove
    <2>2. h \in Frames /\ h = [frames[1] EXCEPT !.cur = {}]
        BY <1>a, <2>1, Zenon DEF Frames
    <2> HIDE DEF h
    <2> QED
        BY <1>a, <2>1, <2>2
<1>3. ASSUME CleanupList, Children(Head(frames).scope) # {}
      PROVE  /\ frames' \in Seq(Frames) /\ Len(frames') = Len(frames) /\ Len(frames) > 0
             /\ frames'[1] = [scope |-> frames[1].scope, todo |-> Children(Head(frames).scope), cur |-> {}]
             /\ \A i \in 2..Len(frames') : frames'[i] = frames[i]
    <2> DEFINE h == [scope |-> Head(frames).scope, todo |-> Children(Head(frames).scope), cur |-> {}]
    <2>1. frames # <<>> /\ frames' = <<h>> \o Tail(frames)
        BY <1>3, Zenon DEF CleanupList
    <2>2. h \in Frames /\ h = [scope |-> frames[1].scope, todo |-> Children(Head(frames).scope), cur |-> {}]
        BY <1>a, <2>1, Zenon DEF Frames, Children, Present
    <2> HIDE DEF h
    <2> QED
        BY <1>a, <2>1, <2>2
<1>4. ASSUME CleanupList, Children(Head(frames).scope) = {}
      PROVE  /\ frames' \in Seq(Frames) /\ Len(frames') = Len(frames) - 1 /\ Len(frames) > 0
             /\ \A i \in 1..Len(frames') : frames'[i] = frames[i + 1]
    <2>1. frames # <<>> /\ frames' = Tail(frames)
        BY <1>4, Zenon DEF CleanupList
    <2> QED
        BY <1>a, <2>1, Zenon
<1> QED
    BY <1>1, <1>2, <1>3, <1>4, Zenon

(* Each step keeps the types.                                              *)
LEMMA TypesStep ==
    ASSUME Types, Next
    PROVE  Types'
<1>0. /\ use.resets \in Nat /\ use.sends \in Nat /\ use.waits \in SUBSET SUBSET Tasks
      /\ Tasks \subseteq Scopes
    BY UseFacts, ScopeFacts, Zenon DEF Types
<1>1. ASSUME NEW t \in Tasks, NEW s \in Scopes, NEW r \in BOOLEAN, CallAgent(t, s, r) PROVE Types'
    <2>1. PICK e \in 0..epoch : lease' = [lease EXCEPT ![t] = e]
        BY <1>1, Zenon DEF CallAgent
    <2>2. lease' \in [Tasks -> Nat]
        BY <1>0, <2>1 DEF Types
    <2> QED
        BY <1>0, <1>1, <2>2, Zenon DEF CallAgent, Statuses, Types, recordVars, workerVars, noticeVars,
           timerVars,
            waitVars, fgVars, resetVars, boundVars
<1>2. ASSUME NEW t \in Tasks, SpawnWorker(t) PROVE Types'
    <2>1. status' \in [Tasks -> Statuses] /\ go' \in [Tasks -> GoStates] /\ count' \in [Scopes -> Nat]
        BY <1>2 DEF SpawnWorker, Types, Statuses, Live, GoStates
    <2> QED
        BY <1>2, <2>1, Zenon DEF SpawnWorker, Types, noticeVars, timerVars, waitVars, fgVars, resetVars,
            boundVars
<1>3. ASSUME NEW t \in Tasks, SpawnRefused(t) PROVE Types'
    BY <1>0, <1>3 DEF SpawnRefused, Statuses, Types, recordVars, workerVars, noticeVars, timerVars,
            waitVars, fgVars, resetVars, boundVars
<1>4. ASSUME NEW t \in Tasks, SendMessage(t) PROVE Types'
    <2>1. status' \in [Tasks -> Statuses] /\ go' \in [Tasks -> GoStates] /\ sends' \in 0..use.sends
        BY <1>0, <1>4 DEF SendMessage, Types, Statuses, Live, GoStates
    <2> QED
        BY <1>0, <1>4, <2>1, Zenon DEF SendMessage, Types, recordVars, workerVars, noticeVars,
           timerVars,
            waitVars, fgVars, resetVars, boundVars
<1>5. ASSUME NEW t \in Tasks, StopTask(t) PROVE Types'
    <2>1. Stop(t) => StoppedTypes(t)
        BY StoppedTyped, Zenon
    <2>2. ~Stop(t) => UNCHANGED <<recordVars, workerVars, count, noticeVars, timerVars, waitVars>>
        BY <1>5, Zenon DEF StopTask
    <2>3. CASE Stop(t)
        <3>1. /\ fgpc' = fgpc /\ UNCHANGED boundVars /\ epoch' = epoch /\ rpc' = rpc
              /\ refs' \in SUBSET Tasks /\ frames' \in Seq(Frames)
            BY <1>5, <2>3, Zenon DEF StopTask, Types, fgVars, resetVars
        <3> QED
            BY <2>1, <2>3, <3>1, Zenon DEF StoppedTypes, Types, boundVars
    <2>4. CASE ~Stop(t)
        BY <1>0, <1>5, <2>2, <2>4, Zenon DEF StopTask, Types, recordVars, workerVars, noticeVars,
           timerVars,
            waitVars, fgVars, resetVars, boundVars
    <2> QED
        BY <2>3, <2>4, Zenon
<1>6. ASSUME NEW t \in Tasks, Begin(t) PROVE Types'
    BY <1>0, <1>6, Zenon DEF Begin, Statuses, Live, GoStates, Types, recordVars, workerVars,
       noticeVars, timerVars,
            waitVars, fgVars, resetVars, boundVars
<1>7. ASSUME NEW t \in Tasks, NEW r \in {"completed", "failed", "interrupted"}, Settle(t, r) PROVE Types'
    <2>1. go' \in [Tasks -> GoStates]
        <3>1. PICK g \in {"idle", "none", r} : go' = [go EXCEPT ![t] = g]
            BY <1>7, Zenon DEF Settle
        <3> QED
            BY <3>1, Zenon DEF Types, GoStates, Terminal
    <2>2. workers' \in SUBSET Tasks /\ specs' \in SUBSET Tasks
        BY <1>7 DEF Settle, Types
    <2> QED
        BY <1>0, <1>7, <2>1, <2>2, Zenon DEF Settle, Types, recordVars, workerVars, noticeVars,
           timerVars,
            waitVars, fgVars, resetVars, boundVars
<1>8. ASSUME NEW t \in Tasks, Finish(t) PROVE Types'
    <2>1. CASE status[t] \in {"killed", "interrupted", "gone"}
        BY <1>0, <1>8, <2>1, Zenon DEF Finish, GoStates, Types, recordVars, workerVars, noticeVars,
           timerVars,
            waitVars, fgVars, resetVars, boundVars
    <2>2. CASE ~(status[t] \in {"killed", "interrupted", "gone"})
        <3>1. Enqueue(t, go[t]) /\ ScheduleCleanup(t)
            BY <1>8, <2>2, Zenon DEF Finish
        <3>0. go[t] \in Outcomes \cup {"killed"}
            BY <1>8, Zenon DEF Finish, Outcomes, Terminal
        <3>2. /\ status' \in [Tasks -> Statuses] /\ pend' \in [Tasks -> Nat] /\ told' \in SUBSET Tasks
          /\ token' \in BOOLEAN /\ wreg' \in SUBSET Tasks /\ dropped' \in SUBSET Tasks
              /\ UNCHANGED <<wpc, wset, late, wpending>>
            BY <3>0, <3>1, EnqueueEffect, Zenon
        <3>3. ScheduleCleanup(t) => cleanup' \in [Tasks -> {"none", "armed", "spent"}]
            BY ScheduleCleanupEffect, Zenon
        <3>4. /\ go' \in [Tasks -> GoStates] /\ cleanup' \in [Tasks -> {"none", "armed", "spent"}]
              /\ workers' \in SUBSET Tasks /\ specs' \in SUBSET Tasks
              /\ idleTimer' \in SUBSET Tasks /\ idleFired' \in SUBSET Tasks
            BY <1>8, <2>2, <3>1, <3>3, Zenon DEF Finish, GoStates, Types
        <3>5. UNCHANGED <<parent, reusable, lease, ctxDone, detached, count, fgVars, resetVars,
                        boundVars>>
            BY <1>8, Zenon DEF Finish
        <3> QED
            BY <3>2, <3>4, <3>5, Zenon DEF Types, fgVars, resetVars, boundVars
    <2> QED
        BY <2>1, <2>2, Zenon
<1>9. ASSUME NEW t \in Tasks, FinishReusableIdle(t) PROVE Types'
    <2>1. CASE status[t] \in {"killed", "interrupted", "gone"}
        BY <1>0, <1>9, <2>1 DEF FinishReusableIdle, GoStates, Types, recordVars, workerVars,
           noticeVars, timerVars,
            waitVars, fgVars, resetVars, boundVars
    <2>2. CASE ~(status[t] \in {"killed", "interrupted", "gone"})
        <3>1. Enqueue(t, "idle") 
            BY <1>9, <2>2, Zenon DEF FinishReusableIdle
        <3>0. "idle" \in Outcomes \cup {"killed"}
            BY <1>9, Zenon DEF FinishReusableIdle, Outcomes, Terminal
        <3>2. /\ status' \in [Tasks -> Statuses] /\ pend' \in [Tasks -> Nat] /\ told' \in SUBSET Tasks
          /\ token' \in BOOLEAN /\ wreg' \in SUBSET Tasks /\ dropped' \in SUBSET Tasks
              /\ UNCHANGED <<wpc, wset, late, wpending>>
            BY <3>0, <3>1, EnqueueEffect, Zenon
        <3>3. ScheduleCleanup(t) => cleanup' \in [Tasks -> {"none", "armed", "spent"}]
            BY ScheduleCleanupEffect, Zenon
        <3>4. /\ go' \in [Tasks -> GoStates] /\ cleanup' \in [Tasks -> {"none", "armed", "spent"}]
              /\ workers' \in SUBSET Tasks /\ specs' \in SUBSET Tasks
              /\ idleTimer' \in SUBSET Tasks /\ idleFired' \in SUBSET Tasks
            BY <1>9, <2>2, <3>1, <3>3, Zenon DEF FinishReusableIdle, GoStates, Types
        <3>5. UNCHANGED <<parent, reusable, lease, ctxDone, detached, count, fgVars, resetVars,
                        boundVars>>
            BY <1>9, Zenon DEF FinishReusableIdle
        <3> QED
            BY <3>2, <3>4, <3>5, Zenon DEF Types, fgVars, resetVars, boundVars
    <2> QED
        BY <2>1, <2>2, Zenon
<1>10. ASSUME NEW t \in Tasks, IdleTimerFires(t) PROVE Types'
    BY <1>0, <1>10 DEF IdleTimerFires, Types, recordVars, workerVars, noticeVars, timerVars,
            waitVars, fgVars, resetVars, boundVars
<1>11. ASSUME NEW t \in Tasks, ExpireIdle(t) PROVE Types'
    <2>1. CASE status[t] # "idle"
        BY <1>0, <1>11, <2>1 DEF ExpireIdle, Types, recordVars, workerVars, noticeVars, timerVars,
            waitVars, fgVars, resetVars, boundVars
    <2>2. CASE ~(status[t] # "idle")
        <3>1. Enqueue(t, "completed") /\ ScheduleCleanup(t)
            BY <1>11, <2>2, Zenon DEF ExpireIdle
        <3>0. "completed" \in Outcomes \cup {"killed"}
            BY <1>11, Zenon DEF ExpireIdle, Outcomes, Terminal
        <3>2. /\ status' \in [Tasks -> Statuses] /\ pend' \in [Tasks -> Nat] /\ told' \in SUBSET Tasks
          /\ token' \in BOOLEAN /\ wreg' \in SUBSET Tasks /\ dropped' \in SUBSET Tasks
              /\ UNCHANGED <<wpc, wset, late, wpending>>
            BY <3>0, <3>1, EnqueueEffect, Zenon
        <3>3. ScheduleCleanup(t) => cleanup' \in [Tasks -> {"none", "armed", "spent"}]
            BY ScheduleCleanupEffect, Zenon
        <3>4. /\ go' \in [Tasks -> GoStates] /\ cleanup' \in [Tasks -> {"none", "armed", "spent"}]
              /\ workers' \in SUBSET Tasks /\ specs' \in SUBSET Tasks
              /\ idleTimer' \in SUBSET Tasks /\ idleFired' \in SUBSET Tasks
            BY <1>11, <2>2, <3>1, <3>3, Zenon DEF ExpireIdle, Types
        <3>5. UNCHANGED <<parent, reusable, lease, ctxDone, detached, count, fgVars, resetVars,
                        boundVars>>
            BY <1>11, Zenon DEF ExpireIdle
        <3> QED
            BY <3>2, <3>4, <3>5, Zenon DEF Types, fgVars, resetVars, boundVars
    <2> QED
        BY <2>1, <2>2, Zenon
<1>12. ASSUME NEW t \in Tasks, DiscardTerminalRecord(t) PROVE Types'
    <2>1. Unregister(t) => /\ status' \in [Tasks -> Statuses] /\ cleanup' \in [Tasks -> {"none", "armed", "spent"}]
                           /\ idleTimer' \in SUBSET Tasks /\ count' \in [Scopes -> Nat]
        BY UnregisterEffect, Zenon
    <2>2. CASE Unregister(t)
        BY <1>0, <1>12, <2>1, <2>2 DEF DiscardTerminalRecord, Types, recordVars, workerVars,
           noticeVars, timerVars,
            waitVars, fgVars, resetVars, boundVars
    <2>3. CASE ~Unregister(t)
        BY <1>0, <1>12, <2>3, Zenon DEF DiscardTerminalRecord, Types, recordVars, workerVars,
           noticeVars, timerVars,
            waitVars, fgVars, resetVars, boundVars
    <2> QED
        BY <2>2, <2>3, Zenon
<1>13. ASSUME NEW t \in Tasks, CleanupChild(t) PROVE Types'
    <2>0. frames' \in Seq(Frames)
        BY <1>13, FramesStep, Zenon
    <2>1. Stop(t) => StoppedTypes(t)
        BY StoppedTyped, Zenon
    <2>2. ~Stop(t) => UNCHANGED <<recordVars, workerVars, count, noticeVars, timerVars, waitVars>>
        BY <1>13, Zenon DEF CleanupChild
    <2>3. CASE Stop(t)
        <3>1. /\ fgpc' = fgpc /\ UNCHANGED boundVars /\ epoch' = epoch /\ rpc' = rpc
              /\ refs' \in SUBSET Tasks /\ frames' \in Seq(Frames)
            BY <2>0, <1>13, <2>3, Zenon DEF CleanupChild, Types, fgVars, resetVars
        <3> QED
            BY <2>1, <2>3, <3>1, Zenon DEF StoppedTypes, Types, boundVars
    <2>4. CASE ~Stop(t)
        BY <1>0, <2>0, <1>13, <2>2, <2>4, Zenon DEF CleanupChild, Types, recordVars, workerVars,
           noticeVars, timerVars,
            waitVars, fgVars, resetVars, boundVars
    <2> QED
        BY <2>3, <2>4, Zenon
<1>14. ASSUME NEW t \in Tasks, CleanupRemove(t) PROVE Types'
    <2>0. frames' \in Seq(Frames)
        BY <1>14, FramesStep, Zenon
    <2>1. Unregister(t) => /\ status' \in [Tasks -> Statuses] /\ cleanup' \in [Tasks -> {"none", "armed", "spent"}]
                           /\ idleTimer' \in SUBSET Tasks /\ count' \in [Scopes -> Nat]
        BY UnregisterEffect, Zenon
    <2>2. CASE Unregister(t)
        BY <1>0, <2>0, <1>14, <2>1, <2>2, Zenon DEF CleanupRemove, Types, recordVars, workerVars,
           noticeVars, timerVars,
            waitVars, fgVars, resetVars, boundVars
    <2>3. CASE ~Unregister(t)
        BY <1>0, <2>0, <1>14, <2>3 DEF CleanupRemove, Types, recordVars, workerVars, noticeVars,
           timerVars,
            waitVars, fgVars, resetVars, boundVars
    <2> QED
        BY <2>2, <2>3, Zenon
<1>15. ASSUME NEW t \in Tasks, ShutdownStop(t) PROVE Types'
    <2>1. Stop(t) => StoppedTypes(t)
        BY StoppedTyped, Zenon
    <2>2. ~Stop(t) => UNCHANGED <<recordVars, workerVars, count, noticeVars, timerVars, waitVars>>
        BY <1>15, Zenon DEF ShutdownStop
    <2>3. CASE Stop(t)
        <3>1. /\ fgpc' = fgpc /\ UNCHANGED boundVars /\ epoch' = epoch /\ rpc' = rpc
              /\ refs' \in SUBSET Tasks /\ frames' \in Seq(Frames)
            BY <1>15, <2>3, Zenon DEF ShutdownStop, Types, fgVars, resetVars
        <3> QED
            BY <2>1, <2>3, <3>1, Zenon DEF StoppedTypes, Types, boundVars
    <2>4. CASE ~Stop(t)
        BY <1>0, <1>15, <2>2, <2>4, Zenon DEF ShutdownStop, Types, recordVars, workerVars, noticeVars,
           timerVars,
            waitVars, fgVars, resetVars, boundVars
    <2> QED
        BY <2>3, <2>4, Zenon
<1>16. ASSUME NEW s \in Scopes, DrainPendingNotifications(s) PROVE Types'
    BY <1>0, <1>16, Zenon DEF DrainPendingNotifications, Types, recordVars, workerVars, noticeVars,
       timerVars,
            waitVars, fgVars, resetVars, boundVars
<1>17. ASSUME NEW W \in use.waits, WaitForTasks(W) PROVE Types'
    BY <1>0, <1>17, Zenon DEF WaitForTasks, Types, recordVars, workerVars, noticeVars, timerVars,
            waitVars, fgVars, resetVars, boundVars
<1>18. CASE ConsumeMatchingNotifications
    BY <1>0, <1>18, Zenon DEF ConsumeMatchingNotifications, Consumed, Types, recordVars, workerVars,
       noticeVars, timerVars,
            waitVars, fgVars, resetVars, boundVars
<1>19. CASE Snapshot
    BY <1>0, <1>19, Zenon DEF Snapshot, Children, Present, Types, recordVars, workerVars, noticeVars,
       timerVars,
            waitVars, fgVars, resetVars, boundVars
<1>20. CASE RegisterWaiter
    BY <1>0, <1>20, Zenon DEF RegisterWaiter, Types, recordVars, workerVars, noticeVars, timerVars,
            waitVars, fgVars, resetVars, boundVars
<1>21. CASE DeadlinePasses
    BY <1>0, <1>21, Zenon DEF DeadlinePasses, Types, recordVars, workerVars, noticeVars, timerVars,
            waitVars, fgVars, resetVars, boundVars
<1>22. CASE Woken
    BY <1>0, <1>22, Zenon DEF Woken, Types, recordVars, workerVars, noticeVars, timerVars,
            waitVars, fgVars, resetVars, boundVars
<1>23. CASE WaitCancelled
    BY <1>0, <1>23, Zenon DEF WaitCancelled, Consumed, Types, recordVars, workerVars, noticeVars,
       timerVars,
            waitVars, fgVars, resetVars, boundVars
<1>24. CASE ForegroundReturns
    BY <1>0, <1>24 DEF ForegroundReturns, Frames, Scopes, Types, recordVars, workerVars, noticeVars,
       timerVars,
            waitVars, fgVars, resetVars, boundVars
<1>25. CASE CleanupList
    <2>0. frames' \in Seq(Frames)
        BY <1>25, FramesStep, Zenon
    <2> QED
        BY <1>0, <1>25, <2>0 DEF CleanupList, Types, recordVars, workerVars, noticeVars, timerVars,
            waitVars, fgVars, resetVars, boundVars
<1>26. CASE ResetSession
    BY <1>0, <1>26 DEF ResetSession, Types, recordVars, workerVars, noticeVars, timerVars,
            waitVars, fgVars, resetVars, boundVars
<1>27. CASE ShutdownList
    BY <1>0, <1>27, Zenon DEF ShutdownList, Types, recordVars, workerVars, noticeVars, timerVars,
            waitVars, fgVars, resetVars, boundVars
<1>28. CASE ShutdownTimers
    BY <1>0, <1>28, Zenon DEF ShutdownTimers, Types, recordVars, workerVars, noticeVars, timerVars,
            waitVars, fgVars, resetVars, boundVars
<1> QED
    BY <1>1, <1>2, <1>3, <1>4, <1>5, <1>6, <1>7, <1>8, <1>9, <1>10, <1>11, <1>12, <1>13, <1>14, <1>15,
       <1>16, <1>17, <1>18, <1>19, <1>20, <1>21, <1>22, <1>23, <1>24, <1>25, <1>26, <1>27, <1>28,
       Zenon DEF Next, Worker, Timers, Wait
-----------------------------------------------------------------------------
(* What a step does to the records: statuses move among those of a record  *)
(* or among those before one; or a worker is registered; or a record       *)
(* without children is forgotten.                                          *)
Move(u) ==
    \/ status'[u] = status[u]
    \/ status[u] \in {"unused", "calling"} /\ status'[u] \in {"unused", "calling"}
    \/ status[u] \in Live /\ status'[u] \in Live \cup Terminal

Registers(t) ==
    /\ status[t] = "calling" /\ Admitted(t) /\ UNCHANGED <<parent, lease, fgpc>>
    /\ \A u \in Tasks : status'[u] = IF u = t THEN "queued" ELSE status[u]
    /\ \A s \in Scopes : count'[s] = IF s = parent[t] THEN count[s] + 1 ELSE count[s]

Forgets(t) ==
    /\ t \in Present /\ Children(t) = {} /\ UNCHANGED <<parent, lease, fgpc>>
    /\ \A u \in Tasks : status'[u] = IF u = t THEN "gone" ELSE status[u]
    /\ \A s \in Scopes : count'[s] = IF s = parent[t] /\ count[s] > 0 THEN count[s] - 1 ELSE count[s]

Kept(u) == status[u] # "unused" => parent'[u] = parent[u] /\ lease'[u] = lease[u]

RecordsAdvance ==
    /\ \A u \in Tasks : Kept(u)
    /\ \/ (\A u \in Tasks : Move(u)) /\ count' = count
       \/ \E t \in Tasks : Registers(t)
       \/ \E t \in Tasks : Forgets(t)

(* The foreground scope is done only when it has no children.              *)
ScopeAdvance == fgpc' = "done" /\ fgpc # "done" => Children("fg") = {} /\ UNCHANGED <<status, parent>>
-----------------------------------------------------------------------------
(* A live caller has a record.                                             *)
LEMMA AliveRunning ==
    ASSUME Types, GoroutinesMatch, NEW t \in Tasks, Alive(t)
    PROVE  status[t] = "running"
<1>1. t # "main" /\ t # "fg"
    BY ScopeFacts, Zenon
<1>2. go[t] = "run" /\ t \notin ctxDone
    BY <1>1, Zenon DEF Alive
<1> QED
    BY <1>2, Zenon DEF GoroutinesMatch, Matched, Dead, Terminal

LEMMA DeadStays ==
    ASSUME Types, RecordsAdvance, NEW t \in Tasks
    PROVE  (Dead(t) => Dead(t)') /\ (Listed(t) => Listed(t)')
<1>1. ASSUME NEW u \in Tasks, Registers(u) PROVE (Dead(t) => Dead(t)') /\ (Listed(t) => Listed(t)')
    BY <1>1, Zenon DEF Registers, Dead, Listed, Terminal
<1>2. ASSUME NEW u \in Tasks, Forgets(u) PROVE (Dead(t) => Dead(t)') /\ (Listed(t) => Listed(t)')
    BY <1>2, Zenon DEF Forgets, Dead, Listed, Terminal
<1>3. ASSUME Move(t) PROVE (Dead(t) => Dead(t)') /\ (Listed(t) => Listed(t)')
    BY <1>3, Zenon DEF Move, Dead, Listed, Terminal, Live
<1> QED
    BY <1>1, <1>2, <1>3, Zenon DEF RecordsAdvance

(* A dead worker gets no new children.                                     *)
LEMMA DeadChildless ==
    ASSUME Types, GoroutinesMatch, RecordsAdvance, NEW t \in Tasks, Dead(t)
    PROVE  Children(t)' \subseteq Children(t)
<1> SUFFICES ASSUME NEW c \in Tasks, c \in Present', parent'[c] = t
             PROVE  c \in Present /\ parent[c] = t
    BY Zenon DEF Children, Present
<1>0. Kept(c)
    BY Zenon DEF RecordsAdvance
<1>1. ASSUME NEW u \in Tasks, Registers(u) PROVE c \in Present /\ parent[c] = t
    <2>1. u # c
        <3>1. SUFFICES ASSUME u = c PROVE FALSE
            BY Zenon
        <3>2. Alive(t)
            BY <1>1, <3>1, Zenon DEF Registers, Admitted
        <3> QED
            BY <3>2, AliveRunning, Zenon DEF Dead, Terminal
    <2> QED
        BY <1>1, <2>1, Zenon DEF Registers, Present
<1>2. ASSUME NEW u \in Tasks, Forgets(u) PROVE c \in Present /\ parent[c] = t
    BY <1>2, Zenon DEF Forgets, Present, Live, Terminal
<1>3. ASSUME Move(c) PROVE c \in Present /\ parent[c] = t
    BY <1>0, <1>3, Zenon DEF Move, Kept, Present, Live, Terminal
<1> QED
    BY <1>1, <1>2, <1>3, Zenon DEF RecordsAdvance

(* The children of a scope, after each kind of step.                       *)
LEMMA ChildrenMove ==
    ASSUME Types, RecordsAdvance, \A u \in Tasks : Move(u), NEW s
    PROVE  Children(s)' = Children(s)
<1>1. \A u \in Tasks : u \in Present' <=> u \in Present
    BY Zenon DEF Move, Present, Live, Terminal
<1>2. \A u \in Present : parent'[u] = parent[u]
    BY Zenon DEF RecordsAdvance, Kept, Present, Live, Terminal
<1> QED
    BY <1>1, <1>2, Zenon DEF Children, Present

LEMMA ChildrenRegister ==
    ASSUME Types, NEW t \in Tasks, Registers(t), NEW s
    PROVE  /\ t \notin Children(s)
           /\ Children(s)' = IF s = parent[t] THEN Children(s) \cup {t} ELSE Children(s)
    BY DEF Registers, Children, Present, Live, Terminal

LEMMA ChildrenForget ==
    ASSUME Types, NEW t \in Tasks, Forgets(t), NEW s
    PROVE  /\ s = parent[t] => t \in Children(s)
           /\ Children(s)' = IF s = parent[t] THEN Children(s) \ {t} ELSE Children(s)
    BY Zenon DEF Forgets, Children, Present, Live, Terminal

LEMMA NoOrphansKept ==
    ASSUME Types, GoroutinesMatch, NoOrphans, RecordsAdvance, ScopeAdvance
    PROVE  NoOrphans'
<1> SUFFICES ASSUME NEW c \in Tasks, c \in Present'
             PROVE  /\ parent'[c] \in Tasks => parent'[c] \in Present'
                    /\ parent'[c] = "fg" => fgpc' # "done"
    BY Zenon DEF NoOrphans, Present
<1>0. Kept(c)
    BY Zenon DEF RecordsAdvance
<1>1. ASSUME NEW u \in Tasks, Registers(u)
      PROVE  /\ parent'[c] \in Tasks => parent'[c] \in Present'
             /\ parent'[c] = "fg" => fgpc' # "done"
    <2>0. /\ parent' = parent /\ fgpc' = fgpc /\ Alive(parent[u])
          /\ \A v \in Tasks : v \in Present => v \in Present'
          /\ c # u => c \in Present
        BY <1>1, Zenon DEF Registers, Admitted, Present, Live
    <2>1. CASE c = u
        <3>1. parent[c] \in Tasks => parent[c] \in Present
            BY <2>0, <2>1, AliveRunning, Zenon DEF Present, Live
        <3>2. parent[c] = "fg" => fgpc = "running"
            BY <2>0, <2>1, Zenon DEF Alive
        <3> QED
            BY <2>0, <3>1, <3>2, Zenon
    <2>2. CASE c # u
        BY <2>0, <2>2, Zenon DEF NoOrphans
    <2> QED
        BY <2>1, <2>2, Zenon
<1>2. ASSUME NEW u \in Tasks, Forgets(u)
      PROVE  /\ parent'[c] \in Tasks => parent'[c] \in Present'
             /\ parent'[c] = "fg" => fgpc' # "done"
    <2>1. /\ parent' = parent /\ fgpc' = fgpc /\ c \in Present /\ parent[c] # u
          /\ \A v \in Tasks : v \in Present /\ v # u => v \in Present'
        BY <1>2, Zenon DEF Forgets, Present, Children, Live, Terminal
    <2> QED
        BY <2>1, Zenon DEF NoOrphans
<1>3. ASSUME \A u \in Tasks : Move(u)
      PROVE  /\ parent'[c] \in Tasks => parent'[c] \in Present'
             /\ parent'[c] = "fg" => fgpc' # "done"
    <2>1. \A u \in Tasks : u \in Present' <=> u \in Present
        BY <1>3, Zenon DEF Move, Present, Live, Terminal
    <2>2. parent'[c] = parent[c]
        BY <1>0, <2>1, Zenon DEF Kept, Present, Live, Terminal
    <2>3. parent[c] = "fg" => Children("fg") # {} /\ fgpc # "done"
        BY <2>1, Zenon DEF NoOrphans, Children
    <2> QED
        BY <2>1, <2>2, <2>3, Zenon DEF NoOrphans, ScopeAdvance
<1> QED
    BY <1>1, <1>2, <1>3, Zenon DEF RecordsAdvance
-----------------------------------------------------------------------------
(* Each step is one of those.                                              *)
LEMMA RecordsStep ==
    ASSUME Types, GoroutinesMatch, ZeroIsChildless, CleanupInv, Next
    PROVE  RecordsAdvance /\ ScopeAdvance
<1> USE DEF recordVars, workerVars, noticeVars, timerVars, waitVars, fgVars, resetVars, boundVars
<1>a. ASSUME UNCHANGED <<parent, lease, count>>, \A u \in Tasks : Move(u) PROVE RecordsAdvance
    BY <1>a, Zenon DEF RecordsAdvance, Kept
<1>b. ASSUME NEW t \in Tasks, NEW st \in Statuses, UNCHANGED <<parent, lease, count>>,
             \A u \in Tasks : status'[u] = IF u = t THEN st ELSE status[u],
             \/ status[t] \in {"unused", "calling"} /\ st \in {"unused", "calling"}
             \/ status[t] \in Live /\ st \in Live \cup Terminal
      PROVE  RecordsAdvance
    BY <1>a, <1>b, Zenon DEF Move
<1>c. ASSUME UNCHANGED <<status, parent, lease, count>> PROVE RecordsAdvance
    BY <1>a, <1>c, Zenon DEF Move
<1>d. ASSUME NEW t \in Tasks, Stop(t), status[t] \in Live PROVE RecordsAdvance
    <2>1. UNCHANGED <<parent, lease, count>> /\ \A u \in Tasks : status'[u] = IF u = t THEN "killed" ELSE status[u]
        BY <1>d, StopEffect, Zenon
    <2> QED
        BY <1>b, <1>d, <2>1, Zenon DEF Statuses, Terminal
<1>e. ASSUME fgpc' = fgpc PROVE ScopeAdvance
    BY <1>e, Zenon DEF ScopeAdvance
<1>f. ASSUME NEW t \in Tasks, Unregister(t), t \in Present, Children(t) = {}, UNCHANGED <<parent, lease, fgpc>>
      PROVE  RecordsAdvance
    <2>1. Forgets(t)
        BY <1>f, UnregisterEffect, Zenon DEF Forgets
    <2> QED
        BY <1>f, <2>1, Zenon DEF RecordsAdvance, Kept
<1>1. ASSUME NEW t \in Tasks, NEW s \in Scopes, NEW r \in BOOLEAN, CallAgent(t, s, r) PROVE RecordsAdvance
    <2>1. PICK e \in 0..epoch : lease' = [lease EXCEPT ![t] = e]
        BY <1>1, Zenon DEF CallAgent
    <2>2. /\ status[t] = "unused" /\ count' = count
          /\ \A u \in Tasks : status'[u] = IF u = t THEN "calling" ELSE status[u]
          /\ \A u \in Tasks : u # t => parent'[u] = parent[u] /\ lease'[u] = lease[u]
        BY <1>1, <2>1, Zenon DEF CallAgent, Types
    <2> QED
        BY <2>2, Zenon DEF RecordsAdvance, Kept, Move
<1>2. ASSUME NEW t \in Tasks, SpawnWorker(t) PROVE RecordsAdvance
    <2>1. Registers(t)
        BY <1>2, Zenon DEF SpawnWorker, Registers, Types
    <2> QED
        BY <1>2, <2>1, Zenon DEF SpawnWorker, RecordsAdvance, Kept
<1>3. ASSUME NEW t \in Tasks, SpawnRefused(t) PROVE RecordsAdvance
    BY <1>3, <1>b, Zenon DEF SpawnRefused, Types, Statuses
<1>4. ASSUME NEW t \in Tasks, SendMessage(t) PROVE RecordsAdvance
    BY <1>4, <1>b, Zenon DEF SendMessage, Types, Statuses, Live
<1>5. ASSUME NEW t \in Tasks, StopTask(t) PROVE RecordsAdvance
    BY <1>5, <1>d, Zenon DEF StopTask
<1>6. ASSUME NEW t \in Tasks, Begin(t) PROVE RecordsAdvance
    <2>1. CASE t \in specs /\ status[t] = "queued"
        <3>1. /\ UNCHANGED <<parent, lease, count>>
              /\ "running" \in Statuses /\ "running" \in Live /\ status[t] \in Live
              /\ \A u \in Tasks : status'[u] = IF u = t THEN "running" ELSE status[u]
            BY <1>6, <2>1, Zenon DEF Begin, Types, Statuses, Live
        <3> QED
            BY <3>1, <1>b, Zenon
    <2>2. CASE ~(t \in specs /\ status[t] = "queued")
        BY <1>6, <2>2, <1>c, Zenon DEF Begin
    <2> QED
        BY <2>1, <2>2, Zenon
<1>7. ASSUME NEW t \in Tasks, Finish(t) PROVE RecordsAdvance
    <2>1. CASE status[t] \in {"killed", "interrupted", "gone"}
        BY <1>7, <2>1, <1>c, Zenon DEF Finish
    <2>2. CASE status[t] \notin {"killed", "interrupted", "gone"}
        <3>1. go[t] \in Terminal /\ Enqueue(t, go[t]) /\ UNCHANGED <<parent, lease, count>>
            BY <1>7, <2>2, Zenon DEF Finish
        <3>2. status[t] \in Live /\ go[t] \in Statuses
            BY <2>2, <3>1, Zenon DEF GoroutinesMatch, Matched, Live, Terminal, Statuses
        <3>3. \A u \in Tasks : status'[u] = IF u = t THEN go[t] ELSE status[u]
            BY <3>1, EnqueueEffect, Zenon DEF Outcomes
        <3> QED
            BY <1>b, <3>1, <3>2, <3>3, Zenon
    <2> QED
        BY <2>1, <2>2, Zenon
<1>8. ASSUME NEW t \in Tasks, FinishReusableIdle(t) PROVE RecordsAdvance
    <2>1. CASE status[t] \in {"killed", "interrupted", "gone"}
        BY <1>8, <2>1, <1>c, Zenon DEF FinishReusableIdle
    <2>2. CASE status[t] \notin {"killed", "interrupted", "gone"}
        <3>1. go[t] = "idle" /\ Enqueue(t, "idle") /\ UNCHANGED <<parent, lease, count>>
            BY <1>8, <2>2, Zenon DEF FinishReusableIdle
        <3>2. status[t] \in Live /\ "idle" \in Statuses /\ "idle" \in Live
            BY <2>2, <3>1, Zenon DEF GoroutinesMatch, Matched, Live, Statuses
        <3>3. \A u \in Tasks : status'[u] = IF u = t THEN "idle" ELSE status[u]
            BY <3>1, EnqueueEffect, Zenon DEF Outcomes
        <3> QED
            BY <1>b, <3>1, <3>2, <3>3, Zenon
    <2> QED
        BY <2>1, <2>2, Zenon
<1>9. ASSUME NEW t \in Tasks, ExpireIdle(t) PROVE RecordsAdvance
    <2>1. CASE status[t] # "idle"
        BY <1>9, <2>1, <1>c, Zenon DEF ExpireIdle
    <2>2. CASE status[t] = "idle"
        <3>1. Enqueue(t, "completed") /\ UNCHANGED <<parent, lease, count>>
            BY <1>9, <2>2, Zenon DEF ExpireIdle
        <3>2. status[t] \in Live /\ "completed" \in Statuses /\ "completed" \in Terminal
            BY <2>2, Zenon DEF Live, Terminal, Statuses
        <3>3. \A u \in Tasks : status'[u] = IF u = t THEN "completed" ELSE status[u]
            BY <3>1, EnqueueEffect, Zenon DEF Outcomes, Terminal
        <3> QED
            BY <1>b, <3>1, <3>2, <3>3, Zenon
    <2> QED
        BY <2>1, <2>2, Zenon
<1>10. ASSUME NEW t \in Tasks, DiscardTerminalRecord(t) PROVE RecordsAdvance
    <2>0. status[t] \in Terminal /\ t \in Present
        BY <1>10, Zenon DEF DiscardTerminalRecord, GoroutinesMatch, Matched, Present
    <2>1. CASE count[t] > 0
        BY <1>10, <2>0, <2>1, <1>c, Zenon DEF DiscardTerminalRecord
    <2>2. CASE ~(count[t] > 0)
        <3>1. count[t] = 0
            BY <2>2, ScopeFacts DEF Types
        <3>2. Children(t) = {}
            BY <3>1, ScopeFacts DEF ZeroIsChildless
        <3> QED
            BY <1>10, <2>0, <2>2, <3>2, <1>f, Zenon DEF DiscardTerminalRecord
    <2> QED
        BY <2>1, <2>2, Zenon
<1>11. ASSUME NEW t \in Tasks, CleanupChild(t) PROVE RecordsAdvance
    BY <1>11, <1>c, <1>d, Zenon DEF CleanupChild
<1>12. ASSUME NEW t \in Tasks, CleanupRemove(t) PROVE RecordsAdvance
    <2>1. CASE t \notin Present
        BY <1>12, <2>1, <1>c, Zenon DEF CleanupRemove
    <2>2. CASE t \in Present
        <3>1. frames # <<>> /\ t \in frames[1].cur
            BY <1>12 DEF CleanupRemove, Types
        <3>2. Children(t) = {}
            BY <3>1, Zenon DEF CleanupInv
        <3> QED
            BY <1>12, <2>2, <3>2, <1>f, Zenon DEF CleanupRemove
    <2> QED
        BY <2>1, <2>2, Zenon
<1>13. ASSUME NEW t \in Tasks, ShutdownStop(t) PROVE RecordsAdvance
    BY <1>13, <1>c, <1>d, Zenon DEF ShutdownStop
<1>14. CASE CleanupList
    <2>1. UNCHANGED <<status, parent, lease, count>>
        BY <1>14, Zenon DEF CleanupList
    <2>2. fgpc' = fgpc \/ (Tail(frames) = <<>> /\ Children(Head(frames).scope) = {})
        BY <1>14, Zenon DEF CleanupList
    <2>3. ASSUME Tail(frames) = <<>> PROVE Head(frames).scope = "fg"
        <3>1. frames \in Seq(Frames) /\ frames # <<>>
            BY <1>14, Zenon DEF CleanupList, Types
        <3>2. Len(frames) = 1 /\ 1 \in DOMAIN frames /\ Head(frames) = frames[1]
            <4>1. Len(Tail(frames)) = Len(frames) - 1 /\ Len(frames) \in Nat /\ Head(frames) = frames[1]
                BY <3>1
            <4>2. Len(<<>>) = 0 /\ DOMAIN frames = 1..Len(frames)
                BY <3>1
            <4>3. Len(frames) = 1
                BY <2>3, <4>1, <4>2
            <4> QED
                BY <4>1, <4>2, <4>3
        <3> QED
            BY <3>2 DEF CleanupInv
    <2>4. ScopeAdvance
        BY <2>1, <2>2, <2>3, Zenon DEF ScopeAdvance
    <2> QED
        BY <1>c, <2>1, <2>4, Zenon
<1>15. ASSUME NEW t \in Tasks, IdleTimerFires(t) \/ \E r \in {"completed", "failed", "interrupted"} : Settle(t, r)
       PROVE  RecordsAdvance /\ ScopeAdvance
    BY <1>15, <1>c, <1>e, Zenon DEF IdleTimerFires, Settle
<1>16. ASSUME \/ \E s \in Scopes : DrainPendingNotifications(s)
              \/ \E W \in use.waits : WaitForTasks(W)
              \/ Wait \/ WaitCancelled \/ ResetSession \/ ShutdownList \/ ShutdownTimers
       PROVE  RecordsAdvance /\ ScopeAdvance
    <2>1. UNCHANGED <<status, parent, lease, count, fgpc>>
        BY <1>16, Zenon DEF DrainPendingNotifications, WaitForTasks, Wait,
           ConsumeMatchingNotifications, Snapshot,
            RegisterWaiter, DeadlinePasses, Woken, WaitCancelled, ResetSession, ShutdownList,
            ShutdownTimers
    <2> QED
        BY <1>c, <1>e, <2>1, Zenon
<1>17. ASSUME ForegroundReturns PROVE RecordsAdvance /\ ScopeAdvance
    BY <1>17, <1>c, Zenon DEF ForegroundReturns, ScopeAdvance
<1>18. ASSUME NEW t \in Tasks,
              \/ \E s \in Scopes, r \in BOOLEAN : CallAgent(t, s, r)
              \/ SpawnWorker(t) \/ SpawnRefused(t) \/ SendMessage(t) \/ StopTask(t) \/ Begin(t)
              \/ Finish(t) \/ FinishReusableIdle(t) \/ ExpireIdle(t) \/ DiscardTerminalRecord(t)
              \/ CleanupChild(t) \/ CleanupRemove(t) \/ ShutdownStop(t)
       PROVE  ScopeAdvance
    <2>1. fgpc' = fgpc
        BY <1>18, Zenon DEF CallAgent, SpawnWorker, SpawnRefused, SendMessage, StopTask, Begin, Finish,
            FinishReusableIdle, ExpireIdle, DiscardTerminalRecord, CleanupChild, CleanupRemove,
            ShutdownStop
    <2> QED
        BY <1>e, <2>1, Zenon
<1> QED
    BY <1>1, <1>2, <1>3, <1>4, <1>5, <1>6, <1>7, <1>8, <1>9, <1>10, <1>11, <1>12, <1>13, <1>14, <1>15,
       <1>16, <1>17, <1>18 DEF Next, Worker, Timers
-----------------------------------------------------------------------------
(* A step that leaves a worker alone, but may cancel it, keeps it matched. *)
LEMMA MatchedElse ==
    ASSUME NEW u \in Tasks, Matched(u), status'[u] = status[u], go'[u] = go[u],
           u \in workers \cup ctxDone => u \in workers' \cup ctxDone', u \in ctxDone => u \in ctxDone',
           cleanup'[u] = "armed" => cleanup[u] = "armed" \/ status[u] \in Terminal,
           u \in specs' => u \in specs
    PROVE  Matched(u)'
    BY Zenon DEF Matched, Dead, Present

LEMMA MatchedStop ==
    ASSUME Types, GoroutinesMatch, NEW t \in Tasks, Stop(t)
    PROVE  GoroutinesMatch'
<1> SUFFICES ASSUME NEW u \in Tasks PROVE Matched(u)'
    BY Zenon DEF GoroutinesMatch
<1>0. /\ workers' = workers /\ go' = go /\ specs' = specs \ {t}
      /\ ctxDone' = IF t \in workers THEN ctxDone \cup {t} ELSE ctxDone
      /\ u # t => cleanup'[u] = cleanup[u] /\ status'[u] = status[u]
      /\ u = t => status'[u] = "killed"
    BY StopEffect
<1>1. CASE u = t
    BY <1>0, <1>1, Zenon DEF GoroutinesMatch, Matched, Dead, Present, Terminal
<1>2. CASE u # t
    BY <1>0, <1>2, MatchedElse, Zenon DEF GoroutinesMatch
<1> QED
    BY <1>1, <1>2, Zenon

LEMMA MatchedUnregister ==
    ASSUME Types, GoroutinesMatch, NEW t \in Tasks, Unregister(t), go' = go, Dead(t), workers' = workers \ {t},
           ctxDone \subseteq ctxDone', specs' = specs \ {t}
    PROVE  GoroutinesMatch'
<1> SUFFICES ASSUME NEW u \in Tasks PROVE Matched(u)'
    BY Zenon DEF GoroutinesMatch
<1>0. /\ status'[u] = IF u = t THEN "gone" ELSE status[u]
      /\ cleanup'[u] = IF u = t THEN "none" ELSE cleanup[u]
    BY UnregisterEffect, Zenon
<1>1. CASE u = t
    BY <1>0, <1>1, Zenon DEF GoroutinesMatch, Matched, Dead, Present, Terminal
<1>2. CASE u # t
    BY <1>0, <1>2, MatchedElse, Zenon DEF GoroutinesMatch
<1> QED
    BY <1>1, <1>2, Zenon

(* A worker's own steps.                                                   *)
LEMMA MatchedWorker ==
    ASSUME Types, GoroutinesMatch, NEW t \in Tasks, Worker(t)
    PROVE  GoroutinesMatch'
<1> USE DEF recordVars, workerVars, noticeVars, timerVars, waitVars, fgVars, resetVars, boundVars
<1> SUFFICES ASSUME NEW u \in Tasks PROVE Matched(u)'
    BY Zenon DEF GoroutinesMatch
<1>0. Matched(u)
    BY Zenon DEF GoroutinesMatch
<1>1. ASSUME Begin(t) PROVE Matched(u)'
    <2>1. CASE u = t
        <3>0. UNCHANGED <<specs, ctxDone, cleanup>> /\ go[t] = "start"
            BY <1>1, Zenon DEF Begin
        <3>1. CASE t \in specs /\ status[t] = "queued"
            <4>1. status'[t] = "running" /\ go'[t] = "run" /\ workers' = workers
                BY <1>1, <3>1 DEF Begin, Types
            <4> QED
                BY <1>0, <2>1, <3>0, <3>1, <4>1, Zenon DEF Matched, Dead, Present, Live, Terminal
        <3>2. CASE ~(t \in specs /\ status[t] = "queued")
            <4>1. status'[t] = status[t] /\ go'[t] = "none"
                BY <1>1, <3>2, Zenon DEF Begin, Types
            <4> QED
                BY <1>0, <2>1, <3>0, <4>1, Zenon DEF Matched, Dead, Present
        <3> QED
            BY <3>1, <3>2, Zenon
    <2>2. CASE u # t
        <3>1. /\ UNCHANGED <<specs, ctxDone, cleanup>> /\ status'[u] = status[u] /\ go'[u] = go[u]
              /\ u \in workers => u \in workers'
            BY <1>1, <2>2 DEF Begin, Types
        <3> QED
            BY <1>0, <3>1, MatchedElse, Zenon
    <2> QED
        BY <2>1, <2>2, Zenon
<1>2. ASSUME NEW r \in {"completed", "failed", "interrupted"}, Settle(t, r) PROVE Matched(u)'
    <2>0. /\ UNCHANGED <<status, ctxDone, cleanup>> /\ go[t] = "run"
        BY <1>2, Zenon DEF Settle
    <2>1. CASE u = t
        <3>1. status[t] \in {"running", "killed", "gone"}
            BY <1>0, <2>0, <2>1, Zenon DEF Matched
        <3>2. go'[t] \notin {"start", "run"}
            BY <1>2, Zenon DEF Settle, Types
        <3>3. t \in specs' => status[t] # "gone" \/ t \in specs
            BY <1>2, Zenon DEF Settle
        <3> QED
            BY <1>0, <2>0, <2>1, <3>1, <3>2, <3>3 DEF Matched, Dead, Present, Live, Terminal
    <2>2. CASE u # t
        <3>1. /\ go'[u] = go[u]
              /\ u \in workers => u \in workers'
            BY <1>2, <2>2, Zenon DEF Settle, Types
        <3>2. u \in specs' => u \in specs
            BY <1>2, <2>2, Zenon DEF Settle
        <3> QED
            BY <1>0, <2>0, <3>1, <3>2, MatchedElse, Zenon
    <2> QED
        BY <2>1, <2>2, Zenon
<1>3. ASSUME Finish(t) PROVE Matched(u)'
    <2>0. /\ UNCHANGED <<ctxDone, specs, workers>> /\ go[t] \in Terminal
          /\ go'[u] = IF u = t THEN "none" ELSE go[u]
        BY <1>3, Zenon DEF Finish, Types
    <2>1. CASE status[t] \in {"killed", "interrupted", "gone"}
        <3>1. UNCHANGED <<status, cleanup>>
            BY <1>3, <2>1, Zenon DEF Finish
        <3> QED
            BY <1>0, <2>0, <3>1, Zenon DEF Matched, Dead, Present
    <2>2. CASE status[t] \notin {"killed", "interrupted", "gone"}
        <3>1. Enqueue(t, go[t]) /\ ScheduleCleanup(t)
            BY <1>3, <2>2, Zenon DEF Finish
        <3>2. status'[u] = IF u = t THEN go[t] ELSE status[u]
            BY <2>0, <3>1, EnqueueEffect, Zenon DEF Outcomes
        <3>3. u # t => cleanup'[u] = cleanup[u]
            BY <3>1, ScheduleCleanupEffect, Zenon
        <3> QED
            BY <1>0, <2>0, <3>2, <3>3, Zenon DEF Matched, Dead, Present
    <2> QED
        BY <2>1, <2>2, Zenon
<1>4. ASSUME FinishReusableIdle(t) PROVE Matched(u)'
    <2>0. /\ UNCHANGED <<ctxDone, specs, workers, cleanup>> /\ go[t] = "idle"
          /\ go'[u] = IF u = t THEN "none" ELSE go[u]
        BY <1>4, Zenon DEF FinishReusableIdle, Types
    <2>1. CASE status[t] \in {"killed", "interrupted", "gone"}
        <3>1. UNCHANGED status
            BY <1>4, <2>1, Zenon DEF FinishReusableIdle
        <3> QED
            BY <1>0, <2>0, <3>1, Zenon DEF Matched, Dead, Present
    <2>2. CASE status[t] \notin {"killed", "interrupted", "gone"}
        <3>1. Enqueue(t, "idle")
            BY <1>4, <2>2, Zenon DEF FinishReusableIdle
        <3>2. status'[u] = IF u = t THEN "idle" ELSE status[u]
            BY <3>1, EnqueueEffect, Zenon DEF Outcomes
        <3>3. status[t] = "running"
            BY <2>0, <2>2, Zenon DEF GoroutinesMatch, Matched
        <3> QED
            BY <1>0, <2>0, <3>2, <3>3, Zenon DEF Matched, Dead, Present, Live, Terminal
    <2> QED
        BY <2>1, <2>2, Zenon
<1> QED
    BY <1>1, <1>2, <1>3, <1>4, Zenon DEF Worker

LEMMA MatchedStep ==
    ASSUME Types, GoroutinesMatch, CleanupInv, Next
    PROVE  GoroutinesMatch'
<1> USE DEF recordVars, workerVars, noticeVars, timerVars, waitVars, fgVars, resetVars, boundVars
<1>a. ASSUME UNCHANGED <<status, go, workers, specs>>, ctxDone \subseteq ctxDone',
             \A u \in Tasks : cleanup'[u] \in {cleanup[u], "none", "spent"}
      PROVE  GoroutinesMatch'
    BY <1>a, MatchedElse, Zenon DEF GoroutinesMatch
<1>b. ASSUME UNCHANGED <<status, workerVars, cleanup>> PROVE GoroutinesMatch'
    BY <1>b, <1>a, Zenon
<1>1. ASSUME NEW t \in Tasks, NEW s \in Scopes, NEW r \in BOOLEAN, CallAgent(t, s, r) PROVE GoroutinesMatch'
    <2> SUFFICES ASSUME NEW u \in Tasks PROVE Matched(u)'
        BY Zenon DEF GoroutinesMatch
    <2>1. /\ UNCHANGED <<go, workers, specs, ctxDone, cleanup>> /\ status[t] = "unused"
          /\ status'[u] = IF u = t THEN "calling" ELSE status[u]
        BY <1>1, Zenon DEF CallAgent, Types
    <2> QED
        BY <2>1, Zenon DEF GoroutinesMatch, Matched, Dead, Present, Live, Terminal
<1>2. ASSUME NEW t \in Tasks, SpawnWorker(t) PROVE GoroutinesMatch'
    <2> SUFFICES ASSUME NEW u \in Tasks PROVE Matched(u)'
        BY Zenon DEF GoroutinesMatch
    <2>1. /\ UNCHANGED <<ctxDone, cleanup>> /\ workers' = workers \cup {t} /\ specs' = specs \cup {t}
          /\ status[t] = "calling"
          /\ status'[u] = IF u = t THEN "queued" ELSE status[u]
          /\ go'[u] = IF u = t THEN "start" ELSE go[u]
        BY <1>2, Zenon DEF SpawnWorker, Types
    <2> QED
        BY <2>1, Zenon DEF GoroutinesMatch, Matched, Dead, Present, Live, Terminal
<1>3. ASSUME NEW t \in Tasks, SpawnRefused(t) PROVE GoroutinesMatch'
    <2> SUFFICES ASSUME NEW u \in Tasks PROVE Matched(u)'
        BY Zenon DEF GoroutinesMatch
    <2>1. /\ UNCHANGED <<go, workers, specs, ctxDone, cleanup>> /\ status[t] = "calling"
          /\ status'[u] = IF u = t THEN "unused" ELSE status[u]
        BY <1>3, Zenon DEF SpawnRefused, Types
    <2> QED
        BY <2>1, Zenon DEF GoroutinesMatch, Matched, Dead, Present, Live, Terminal
<1>4. ASSUME NEW t \in Tasks, SendMessage(t) PROVE GoroutinesMatch'
    <2> SUFFICES ASSUME NEW u \in Tasks PROVE Matched(u)'
        BY Zenon DEF GoroutinesMatch
    <2>1. /\ UNCHANGED <<specs, cleanup>> /\ workers' = workers \cup {t} /\ ctxDone' = ctxDone \ {t}
          /\ status[t] = "idle"
          /\ status'[u] = IF u = t THEN "queued" ELSE status[u]
          /\ go'[u] = IF u = t THEN "start" ELSE go[u]
        BY <1>4, Zenon DEF SendMessage, Types
    <2> QED
        BY <2>1, Zenon DEF GoroutinesMatch, Matched, Dead, Present, Live, Terminal
<1>5. ASSUME NEW t \in Tasks, StopTask(t) \/ ShutdownStop(t) \/ CleanupChild(t) PROVE GoroutinesMatch'
    BY <1>5, <1>b, MatchedStop, Zenon DEF StopTask, ShutdownStop, CleanupChild
<1>6. ASSUME NEW t \in Tasks, ExpireIdle(t) PROVE GoroutinesMatch'
    <2>1. CASE status[t] # "idle"
        BY <1>6, <2>1, <1>b, Zenon DEF ExpireIdle
    <2>2. CASE status[t] = "idle"
        <3> SUFFICES ASSUME NEW u \in Tasks PROVE Matched(u)'
            BY Zenon DEF GoroutinesMatch
        <3>1. /\ Enqueue(t, "completed")
              /\ ScheduleCleanup(t)
              /\ workers' = workers \ {t}
              /\ specs' = specs \ {t}
              /\ UNCHANGED <<go, ctxDone>>
            BY <1>6, <2>2, Zenon DEF ExpireIdle
        <3>2. status'[u] = IF u = t THEN "completed" ELSE status[u]
            BY <3>1, EnqueueEffect, Zenon DEF Outcomes, Terminal
        <3>3. u # t => cleanup'[u] = cleanup[u]
            BY <3>1, ScheduleCleanupEffect, Zenon
        <3> QED
            BY <2>2, <3>1, <3>2, <3>3 DEF GoroutinesMatch, Matched, Dead, Present, Live, Terminal
    <2> QED
        BY <2>1, <2>2, Zenon
<1>7. ASSUME NEW t \in Tasks, DiscardTerminalRecord(t) PROVE GoroutinesMatch'
    <2>0. status[t] \in Terminal
        BY <1>7, Zenon DEF DiscardTerminalRecord, GoroutinesMatch, Matched
    <2>1. CASE count[t] > 0
        <3>1. /\ UNCHANGED <<status, go, workers, specs, ctxDone>>
              /\ \A u \in Tasks : cleanup'[u] \in {cleanup[u], "none", "spent"}
            BY <1>7, <2>0, <2>1, Zenon DEF DiscardTerminalRecord, Types
        <3> QED
            BY <1>a, <3>1, Zenon
    <2>2. CASE ~(count[t] > 0)
        BY <1>7, <2>0, <2>2, MatchedUnregister, Zenon DEF DiscardTerminalRecord, Dead
    <2> QED
        BY <2>1, <2>2, Zenon
<1>8. ASSUME NEW t \in Tasks, CleanupRemove(t) PROVE GoroutinesMatch'
    <2>0. frames # <<>> /\ t \in frames[1].cur
        BY <1>8 DEF CleanupRemove, Types
    <2>1. Dead(t)
        BY <2>0, Zenon DEF CleanupInv
    <2>2. /\ go' = go /\ workers' = workers \ {t} /\ specs' = specs \ {t}
          /\ ctxDone' = IF t \in workers THEN ctxDone \cup {t} ELSE ctxDone
        BY <1>8, Zenon DEF CleanupRemove
    <2>3. CASE t \in Present
        BY <1>8, <2>1, <2>2, <2>3, MatchedUnregister, Zenon DEF CleanupRemove
    <2>4. CASE t \notin Present
        <3>1. UNCHANGED <<status, cleanup>>
            BY <1>8, <2>4, Zenon DEF CleanupRemove
        <3> QED
            BY <2>2, <3>1, MatchedElse, Zenon DEF GoroutinesMatch
    <2> QED
        BY <2>3, <2>4, Zenon
<1>9. ASSUME \/ \E t \in Tasks : IdleTimerFires(t)
             \/ \E s \in Scopes : DrainPendingNotifications(s)
             \/ \E W \in use.waits : WaitForTasks(W)
             \/ Wait \/ WaitCancelled \/ ForegroundReturns \/ CleanupList \/ ShutdownList
      PROVE  GoroutinesMatch'
    <2>1. UNCHANGED <<status, workerVars, cleanup>>
        BY <1>9, Zenon DEF IdleTimerFires, DrainPendingNotifications, WaitForTasks, Wait,
           ConsumeMatchingNotifications,
            Snapshot, RegisterWaiter, DeadlinePasses, Woken, WaitCancelled, ForegroundReturns,
            CleanupList,
            ShutdownList
    <2> QED
        BY <1>b, <2>1, Zenon
<1>10. ASSUME ResetSession \/ ShutdownTimers PROVE GoroutinesMatch'
    BY <1>10, <1>a, Zenon DEF ResetSession, ShutdownTimers
<1> QED
    BY <1>1, <1>2, <1>3, <1>4, <1>5, <1>6, <1>7, <1>8, <1>9, <1>10, MatchedWorker DEF Next, Timers
-----------------------------------------------------------------------------
(* The stack of CleanupScope.                                              *)
FrameInv(i) ==
    /\ frames[i].scope = "fg" <=> i = Len(frames)
    /\ i # Len(frames) => frames[i].scope \in Tasks /\ Dead(frames[i].scope)
    /\ i # 1 => frames[i].cur = {frames[i - 1].scope}
    /\ \A t \in frames[i].todo : Listed(t)

LEMMA CleanupKept ==
    ASSUME Types, GoroutinesMatch, CleanupInv, RecordsAdvance, UNCHANGED <<frames, fgpc>>
    PROVE  CleanupInv'
<1>1. ASSUME NEW i \in DOMAIN frames PROVE FrameInv(i)'
    <2>1. frames[i] \in Frames
        BY DEF Types
    <2>2. \A t \in Tasks : (Dead(t) => Dead(t)') /\ (Listed(t) => Listed(t)')
        BY DeadStays, Zenon
    <2> QED
        BY <2>1, <2>2, Zenon DEF CleanupInv, FrameInv, Frames
<1>2. ASSUME frames # <<>>, NEW t \in frames[1].cur PROVE Dead(t)' /\ Children(t)' = {}
    <2>1. 1 \in DOMAIN frames /\ frames[1] \in Frames
        BY <1>2 DEF Types
    <2>2. t \in Tasks /\ Dead(t) /\ Children(t) = {}
        BY <1>2, <2>1, Zenon DEF CleanupInv, Frames
    <2> QED
        BY <2>2, DeadStays, DeadChildless, Zenon
<1> QED
    BY <1>1, <1>2, Zenon DEF CleanupInv, FrameInv

LEMMA CleanupStep ==
    ASSUME Types, GoroutinesMatch, CleanupInv, RecordsAdvance, Next
    PROVE  CleanupInv'
<1> USE DEF recordVars, workerVars, noticeVars, timerVars, waitVars, fgVars, resetVars, boundVars
<1>a. \A t \in Tasks : (Dead(t) => Dead(t)') /\ (Listed(t) => Listed(t)')
    BY DeadStays, Zenon
<1>b. /\ frames \in Seq(Frames) /\ Len(frames) \in Nat /\ DOMAIN frames = 1..Len(frames)
      /\ \A i \in 1..Len(frames) : frames[i] \in Frames
    BY DEF Types
<1>c. \A i \in 1..Len(frames) : FrameInv(i)
    BY <1>b, Zenon DEF CleanupInv, FrameInv
<1>1. ASSUME NEW t \in Tasks, CleanupChild(t) PROVE CleanupInv'
    <2>1. /\ frames' \in Seq(Frames) /\ Len(frames') = Len(frames) + 1 /\ Len(frames) > 0
          /\ frames'[1] = [scope |-> t, todo |-> {}, cur |-> {}]
          /\ frames'[2] = [frames[1] EXCEPT !.todo = @ \ {t}, !.cur = {t}]
          /\ \A i \in 3..Len(frames') : frames'[i] = frames[i - 1]
        BY <1>1, FramesStep, Zenon
    <2>2. frames[1] \in Frames /\ FrameInv(1) /\ frames # <<>> /\ fgpc' = fgpc /\ t \in frames[1].todo
        BY <1>1, <1>b, <1>c, <2>1 DEF CleanupChild
    <2>3. Dead(t)'
        <3>1. Listed(t)
            BY <2>2, Zenon DEF FrameInv
        <3>2. CASE status[t] \in Live
            <4>1. status'[t] = "killed"
                BY <1>1, <3>2, StopEffect, Zenon DEF CleanupChild
            <4> QED
                BY <4>1, Zenon DEF Dead, Terminal
        <3>3. CASE status[t] \notin Live
            <4>1. Dead(t)
                BY <3>1, <3>3, Zenon DEF Dead, Listed, Types, Statuses
            <4> QED
                BY <1>a, <4>1, Zenon
        <3> QED
            BY <3>2, <3>3, Zenon
    <2>4. FrameInv(1)'
        BY <2>1, <2>3, ScopeFacts DEF FrameInv
    <2>5. FrameInv(2)'
        <3>1. /\ frames'[2].scope = frames[1].scope /\ frames'[2].cur = {t} /\ frames'[1].scope = t
              /\ frames'[2].todo \subseteq frames[1].todo
            BY <2>1, <2>2 DEF Frames
        <3>2. frames[1].todo \subseteq Tasks
            BY <2>2, Zenon DEF Frames
        <3> QED
            BY <1>a, <1>b, <2>1, <2>2, <3>1, <3>2 DEF FrameInv
    <2>6. ASSUME NEW i \in 3..Len(frames') PROVE FrameInv(i)'
        <3>1. frames'[i] = frames[i - 1] /\ i - 1 \in 1..Len(frames) /\ i - 1 # 1 /\ frames[i - 1] \in Frames
            BY <1>b, <2>1
        <3>2. frames'[i - 1].scope = frames[i - 2].scope
            <4>1. CASE i = 3
                <5>1. frames'[2].scope = frames[1].scope
                    BY <2>1, <2>2, Zenon DEF Frames
                <5>2. i - 1 = 2 /\ i - 2 = 1
                    BY <4>1
                <5> QED
                    BY <5>1, <5>2, Zenon
            <4>2. CASE i # 3
                <5>1. i - 1 \in 3..Len(frames') /\ (i - 1) - 1 = i - 2
                    BY <1>b, <2>1, <4>2
                <5> QED
                    BY <2>1, <5>1, Zenon
            <4> QED
                BY <4>1, <4>2, Zenon
        <3>3. FrameInv(i - 1) /\ (i - 1) - 1 = i - 2
            BY <1>c, <3>1
        <3>4. frames'[i].cur = {frames'[i - 1].scope}
            BY <3>1, <3>2, <3>3, Zenon DEF FrameInv
        <3>5. i - 1 = Len(frames) <=> i = Len(frames')
            BY <1>b, <2>1, <3>1
        <3>6. frames[i - 1].todo \subseteq Tasks
            BY <3>1, Zenon DEF Frames
        <3> QED
            BY <1>a, <3>1, <3>3, <3>4, <3>5, <3>6, Zenon DEF FrameInv
    <2>7. \A i \in DOMAIN frames' : FrameInv(i)'
        <3>1. DOMAIN frames' = 1..Len(frames')
            BY <2>1
        <3>2. \A i \in 1..Len(frames') : i = 1 \/ i = 2 \/ i \in 3..Len(frames')
            BY <1>b, <2>1
        <3> QED
            BY <2>4, <2>5, <2>6, <3>1, <3>2, Zenon
    <2> QED
        BY <2>1, <2>2, <2>7 DEF CleanupInv, FrameInv
<1>2. ASSUME NEW t \in Tasks, CleanupRemove(t) PROVE CleanupInv'
    <2>1. /\ frames' \in Seq(Frames) /\ Len(frames') = Len(frames) /\ Len(frames) > 0
          /\ frames'[1] = [frames[1] EXCEPT !.cur = {}]
          /\ \A i \in 2..Len(frames') : frames'[i] = frames[i]
        BY <1>2, FramesStep, Zenon
    <2>2. /\ frames[1] \in Frames /\ frames # <<>> /\ fgpc' = fgpc
          /\ frames'[1].cur = {} /\ frames'[1].scope = frames[1].scope /\ frames'[1].todo = frames[1].todo
        BY <1>2, <1>b, <2>1 DEF CleanupRemove, Frames
    <2>3. ASSUME NEW i \in 1..Len(frames) PROVE FrameInv(i)'
        <3>1. FrameInv(i) /\ frames[i].todo \subseteq Tasks
            BY <1>b, <1>c, Zenon DEF Frames
        <3>a. /\ i # 1 => i \in 2..Len(frames')
              /\ i # 1 => i - 1 = 1 \/ i - 1 \in 2..Len(frames')
            BY <1>b, <2>1
        <3>2. frames'[i].scope = frames[i].scope /\ frames'[i].todo = frames[i].todo
            BY <2>1, <2>2, <3>a, Zenon
        <3>3. i # 1 => frames'[i].cur = frames[i].cur /\ frames'[i - 1].scope = frames[i - 1].scope
            BY <2>1, <2>2, <3>a, Zenon
        <3> QED
            BY <1>a, <2>1, <3>1, <3>2, <3>3, Zenon DEF FrameInv
    <2>4. DOMAIN frames' = 1..Len(frames)
        BY <2>1
    <2> QED
        BY <2>1, <2>2, <2>3, <2>4, Zenon DEF CleanupInv, FrameInv
<1>3. ASSUME CleanupList, Children(Head(frames).scope) # {} PROVE CleanupInv'
    <2>1. /\ frames' \in Seq(Frames) /\ Len(frames') = Len(frames) /\ Len(frames) > 0
          /\ frames'[1] = [scope |-> frames[1].scope, todo |-> Children(Head(frames).scope), cur |-> {}]
          /\ \A i \in 2..Len(frames') : frames'[i] = frames[i]
        BY <1>3, FramesStep, Zenon
    <2>2. fgpc' = fgpc /\ frames # <<>>
        BY <1>3, Zenon DEF CleanupList
    <2>3. \A t \in Children(Head(frames).scope) : t \in Tasks /\ Listed(t)
        BY Zenon DEF Children, Present, Listed, Live, Terminal
    <2>4. ASSUME NEW i \in 1..Len(frames) PROVE FrameInv(i)'
        <3>1. FrameInv(i) /\ frames[i].todo \subseteq Tasks
            BY <1>b, <1>c, Zenon DEF Frames
        <3>a. i # 1 => i \in 2..Len(frames') /\ (i - 1 = 1 \/ i - 1 \in 2..Len(frames'))
            BY <1>b, <2>1
        <3>b. frames'[1].scope = frames[1].scope /\ frames'[1].todo = Children(Head(frames).scope)
            BY <2>1
        <3>2. frames'[i].scope = frames[i].scope /\ \A t \in frames'[i].todo : t \in Tasks /\ Listed(t)
            BY <2>1, <2>3, <3>1, <3>a, <3>b, Zenon DEF FrameInv
        <3>3. i # 1 => frames'[i].cur = frames[i].cur /\ frames'[i - 1].scope = frames[i - 1].scope
            BY <2>1, <3>a, <3>b, Zenon
        <3> QED
            BY <1>a, <2>1, <3>1, <3>2, <3>3, Zenon DEF FrameInv
    <2>5. DOMAIN frames' = 1..Len(frames)
        BY <2>1
    <2>6. frames'[1].cur = {}
        BY <2>1
    <2> QED
        BY <2>2, <2>4, <2>5, <2>6, Zenon DEF CleanupInv, FrameInv
<1>4. ASSUME CleanupList, Children(Head(frames).scope) = {} PROVE CleanupInv'
    <2>1. /\ frames' \in Seq(Frames) /\ Len(frames') = Len(frames) - 1 /\ Len(frames) > 0
          /\ \A i \in 1..Len(frames') : frames'[i] = frames[i + 1]
        BY <1>4, FramesStep, Zenon
    <2>2. /\ frames # <<>> /\ frames' = Tail(frames)
          /\ fgpc' = IF Tail(frames) = <<>> THEN "done" ELSE fgpc
          /\ UNCHANGED <<status, parent>>
        BY <1>4, Zenon DEF CleanupList
    <2>3. ASSUME NEW i \in 1..Len(frames') PROVE FrameInv(i)'
        <3>1. /\ frames'[i] = frames[i + 1] /\ i + 1 \in 1..Len(frames) /\ i + 1 # 1 /\ frames[i + 1] \in Frames
              /\ (i + 1) - 1 = i
            BY <1>b, <2>1
        <3>2. FrameInv(i + 1) /\ frames[i + 1].todo \subseteq Tasks
            BY <1>c, <3>1, Zenon DEF Frames
        <3>3. i # 1 => frames'[i - 1] = frames[i]
            <4>1. i # 1 => i - 1 \in 1..Len(frames') /\ (i - 1) + 1 = i
                BY <1>b, <2>1
            <4> QED
                BY <2>1, <4>1, Zenon
        <3>4. i + 1 = Len(frames) <=> i = Len(frames')
            BY <1>b, <2>1
        <3>5. frames'[i].scope = "fg" <=> i = Len(frames')
            BY <3>1, <3>2, <3>4, Zenon DEF FrameInv
        <3>6. i # Len(frames') => frames'[i].scope \in Tasks /\ Dead(frames'[i].scope)
            BY <3>1, <3>2, <3>4, Zenon DEF FrameInv
        <3>7. i # 1 => frames'[i].cur = {frames'[i - 1].scope}
            BY <3>1, <3>2, <3>3, Zenon DEF FrameInv
        <3>8. \A t \in frames'[i].todo : Listed(t)
            BY <3>1, <3>2, Zenon DEF FrameInv
        <3> QED
            BY <2>2, <3>5, <3>6, <3>7, <3>8 DEF FrameInv, Dead, Listed
    <2>4. DOMAIN frames' = 1..Len(frames')
        BY <2>1
    <2>5. ASSUME frames' # <<>>
          PROVE  fgpc' = "cleanup" /\ \A t \in frames'[1].cur : Dead(t)' /\ Children(t)' = {}
        <3>1. Len(frames') > 0 /\ 1 \in 1..Len(frames') /\ 2 \in 1..Len(frames) /\ Len(frames) # 1
            BY <1>b, <2>1, <2>5
        <3>2. frames'[1] = frames[2] /\ FrameInv(2) /\ FrameInv(1)
            BY <1>b, <1>c, <2>1, <3>1
        <3>3. frames[2].cur = {frames[1].scope} /\ frames[1].scope \in Tasks /\ Dead(frames[1].scope)
            BY <1>b, <3>1, <3>2 DEF FrameInv
        <3>4. Head(frames) = frames[1]
            BY <1>b
        <3>5. \A t \in Tasks : Children(t)' = Children(t)
            BY <2>2, Zenon DEF Children, Present
        <3>6. fgpc' = "cleanup"
            BY <2>2, <2>5, Zenon DEF CleanupInv
        <3> QED
            BY <1>4, <1>a, <3>2, <3>3, <3>4, <3>5, <3>6
    <2>6. fgpc' = "running" => frames' = <<>>
        BY <2>2, Zenon DEF CleanupInv
    <2> QED
        BY <2>3, <2>4, <2>5, <2>6, Zenon DEF CleanupInv, FrameInv
<1>5. ASSUME ForegroundReturns PROVE CleanupInv'
    <2>1. /\ frames' = <<[scope |-> "fg", todo |-> {}, cur |-> {}]>> /\ fgpc' = "cleanup"
        BY <1>5, Zenon DEF ForegroundReturns
    <2>2. DOMAIN frames' = {1} /\ Len(frames') = 1 /\ frames'[1] = [scope |-> "fg", todo |-> {}, cur |-> {}]
        BY <2>1
    <2> QED
        BY <2>1, <2>2 DEF CleanupInv
<1>6. ASSUME NEW t \in Tasks,
             \/ \E s \in Scopes, r \in BOOLEAN : CallAgent(t, s, r)
             \/ SpawnWorker(t) \/ SpawnRefused(t) \/ SendMessage(t) \/ StopTask(t) \/ Worker(t) \/ Timers(t)
             \/ ShutdownStop(t)
      PROVE  CleanupInv'
    <2>1. UNCHANGED <<frames, fgpc>>
        BY <1>6, Zenon DEF CallAgent, SpawnWorker, SpawnRefused, SendMessage, StopTask, Worker, Begin,
           Finish,
            FinishReusableIdle, Settle, Timers, IdleTimerFires, ExpireIdle, DiscardTerminalRecord,
            ShutdownStop
    <2> QED
        BY <2>1, CleanupKept, Zenon
<1>7. ASSUME \/ \E s \in Scopes : DrainPendingNotifications(s)
             \/ \E W \in use.waits : WaitForTasks(W)
             \/ Wait \/ WaitCancelled \/ ResetSession \/ ShutdownList \/ ShutdownTimers
      PROVE  CleanupInv'
    <2>1. UNCHANGED <<frames, fgpc>>
        BY <1>7, Zenon DEF DrainPendingNotifications, WaitForTasks, Wait, ConsumeMatchingNotifications,
           Snapshot,
            RegisterWaiter, DeadlinePasses, Woken, WaitCancelled, ResetSession, ShutdownList,
            ShutdownTimers
    <2> QED
        BY <2>1, CleanupKept, Zenon
<1> QED
    BY <1>1, <1>2, <1>3, <1>4, <1>5, <1>6, <1>7, Zenon DEF Next
-----------------------------------------------------------------------------
(* Shutdown leaves no live worker of an earlier epoch behind.              *)
LEMMA ResetStep ==
    ASSUME Types, GoroutinesMatch, ResetInv, RecordsAdvance, Next
    PROVE  ResetInv'
<1> USE DEF recordVars, workerVars, noticeVars, timerVars, waitVars, fgVars, resetVars, boundVars
<1>0. use.resets \in Nat /\ epoch \in Nat /\ \A t \in Tasks : lease[t] \in Nat /\ lease[t] <= epoch
    BY UseFacts DEF Types, ResetInv
<1>a. ASSUME NEW t \in Tasks, status'[t] \in Live
      PROVE  (status[t] \in Live \/ (status[t] = "calling" /\ lease[t] = epoch)) /\ lease'[t] = lease[t]
    <2>1. ASSUME NEW u \in Tasks, Registers(u)
          PROVE  status[t] \in Live \/ (status[t] = "calling" /\ lease[t] = epoch)
        BY <1>a, <2>1, Zenon DEF Registers, Admitted
    <2>2. ASSUME NEW u \in Tasks, Forgets(u) PROVE status[t] \in Live
        BY <1>a, <2>2, Zenon DEF Forgets, Live
    <2>3. ASSUME Move(t) PROVE status[t] \in Live
        BY <1>a, <2>3, Zenon DEF Move, Live
    <2>4. status[t] \in Live \/ (status[t] = "calling" /\ lease[t] = epoch)
        BY <2>1, <2>2, <2>3, Zenon DEF RecordsAdvance
    <2> QED
        BY <2>4, Zenon DEF RecordsAdvance, Kept, Live
<1>b. ASSUME UNCHANGED <<epoch, rpc, refs>>, \A t \in Tasks : lease'[t] <= epoch PROVE ResetInv'
    <2>1. ASSUME rpc' # "list", NEW t \in Tasks, status'[t] \in Live, lease'[t] < epoch'
          PROVE  rpc' = "stop" /\ t \in refs'
        BY <1>0, <1>a, <1>b, <2>1 DEF ResetInv
    <2> QED
        BY <1>b, <2>1, Zenon DEF ResetInv
<1>c. ASSUME UNCHANGED <<epoch, rpc, refs, lease>> PROVE ResetInv'
    BY <1>0, <1>b, <1>c, Zenon
<1>1. ASSUME NEW t \in Tasks, NEW s \in Scopes, NEW r \in BOOLEAN, CallAgent(t, s, r) PROVE ResetInv'
    <2>1. PICK e \in 0..epoch : lease' = [lease EXCEPT ![t] = e]
        BY <1>1, Zenon DEF CallAgent
    <2>2. \A u \in Tasks : lease'[u] <= epoch
        BY <1>0, <2>1 DEF Types
    <2> QED
        BY <1>1, <1>b, <2>2, Zenon DEF CallAgent
<1>2. CASE ResetSession
    BY <1>0, <1>2 DEF ResetSession, ResetInv
<1>3. CASE ShutdownList
    BY <1>0, <1>3, Zenon DEF ShutdownList, ResetInv
<1>4. CASE ShutdownTimers
    BY <1>0, <1>4, Zenon DEF ShutdownTimers, ResetInv
<1>5. ASSUME NEW t \in Tasks, ShutdownStop(t) PROVE ResetInv'
    <2>1. /\ rpc = "stop" /\ rpc' = rpc /\ epoch' = epoch /\ refs' = refs \ {t}
        BY <1>5, Zenon DEF ShutdownStop
    <2>2. lease' = lease /\ status'[t] \notin Live
        BY <1>5, StopEffect, Zenon DEF ShutdownStop, Live
    <2>3. ASSUME NEW u \in Tasks, status'[u] \in Live, lease'[u] < epoch' PROVE u \in refs'
        BY <1>0, <1>a, <2>1, <2>2, <2>3 DEF ResetInv
    <2> QED
        BY <1>0, <2>1, <2>2, <2>3, Zenon DEF ResetInv
<1>6. ASSUME NEW t \in Tasks,
             \/ SpawnWorker(t) \/ SpawnRefused(t) \/ SendMessage(t) \/ StopTask(t) \/ Worker(t) \/ Timers(t)
             \/ CleanupChild(t) \/ CleanupRemove(t)
      PROVE  ResetInv'
    <2>1. UNCHANGED <<epoch, rpc, refs>>
        BY <1>6, Zenon DEF SpawnWorker, SpawnRefused, SendMessage, StopTask, Worker, Begin, Finish,
           FinishReusableIdle,
            Settle, Timers, IdleTimerFires, ExpireIdle, DiscardTerminalRecord, CleanupChild,
            CleanupRemove
    <2>2. lease' = lease
        BY <1>6, StopEffect, Zenon DEF SpawnWorker, SpawnRefused, SendMessage, StopTask, Worker, Begin,
           Finish,
            FinishReusableIdle, Settle, Timers, IdleTimerFires, ExpireIdle, DiscardTerminalRecord,
            CleanupChild, CleanupRemove
    <2> QED
        BY <1>c, <2>1, <2>2, Zenon
<1>7. ASSUME \/ \E s \in Scopes : DrainPendingNotifications(s)
             \/ \E W \in use.waits : WaitForTasks(W)
             \/ Wait \/ WaitCancelled \/ ForegroundReturns \/ CleanupList
      PROVE  ResetInv'
    <2>1. UNCHANGED <<epoch, rpc, refs, lease>>
        BY <1>7, Zenon DEF DrainPendingNotifications, WaitForTasks, Wait, ConsumeMatchingNotifications,
           Snapshot,
            RegisterWaiter, DeadlinePasses, Woken, WaitCancelled, ForegroundReturns, CleanupList
    <2> QED
        BY <1>c, <2>1, Zenon
<1> QED
    BY <1>1, <1>2, <1>3, <1>4, <1>5, <1>6, <1>7 DEF Next
-----------------------------------------------------------------------------
(* The outcome of a worker of the main agent.                              *)
Owed(t) ==
    parent[t] = "main" /\ status[t] \in Outcomes /\ t \notin told \cup dropped
        => pend[t] > 0 \/ (wpc # "none" /\ t \in wset)

LEMMA OwedAll == OutcomeReachesParent <=> \A t \in Tasks : Owed(t)
    BY Zenon DEF OutcomeReachesParent, Owed, Children, Present, Outcomes, Live

LEMMA OwedEnqueue ==
    ASSUME Types, OutcomeReachesParent, parent' = parent,
           NEW t \in Tasks, NEW st \in Outcomes \cup {"killed"}, Enqueue(t, st)
    PROVE  OutcomeReachesParent'
<1>1. ASSUME NEW u \in Tasks PROVE Owed(u)'
    <2>1. /\ UNCHANGED <<wpc, wset>>
          /\ status'[u] = IF u = t THEN st ELSE status[u]
          /\ pend'[u] = IF u = t THEN pend[u] + 1 ELSE pend[u]
          /\ told' = told \ {t} /\ dropped' = dropped \ {t}
        BY EnqueueEffect, Zenon
    <2>2. Owed(u) /\ pend[u] \in Nat
        BY OwedAll, Zenon DEF Types
    <2> QED
        BY <2>1, <2>2 DEF Owed
<1>2. (\A u \in Tasks : Owed(u)') => OutcomeReachesParent'
    BY Zenon DEF OutcomeReachesParent, Owed, Children, Present
<1> QED
    BY <1>1, <1>2, Zenon

LEMMA OutcomeStep ==
    ASSUME Types, GoroutinesMatch, CleanupInv, OutcomeReachesParent, Next
    PROVE  OutcomeReachesParent'
<1> USE DEF recordVars, workerVars, noticeVars, timerVars, waitVars, fgVars, resetVars, boundVars
<1>0. (\A u \in Tasks : Owed(u)') => OutcomeReachesParent'
    BY Zenon DEF OutcomeReachesParent, Owed, Children, Present
<1>p. \A u \in Tasks : Owed(u) /\ pend[u] \in Nat
    BY OwedAll, Zenon DEF Types
<1>a. ASSUME UNCHANGED <<pend, told, dropped, wpc, wset>>,
             \A u \in Tasks : status'[u] \notin Outcomes \/ (status'[u] = status[u] /\ parent'[u] = parent[u])
      PROVE  OutcomeReachesParent'
    BY <1>0, <1>p, <1>a, Zenon DEF Owed
<1>b. ASSUME UNCHANGED <<status, parent, pend, told, dropped, wpc, wset>> PROVE OutcomeReachesParent'
    BY <1>a, <1>b, Zenon
<1>c. ASSUME NEW t \in Tasks, Unregister(t), UNCHANGED <<parent, pend, told, dropped, wpc, wset>>
      PROVE  OutcomeReachesParent'
    <2>1. \A u \in Tasks : status'[u] = IF u = t THEN "gone" ELSE status[u]
        BY <1>c, UnregisterEffect, Zenon
    <2>2. \A u \in Tasks : status'[u] \notin Outcomes \/ (status'[u] = status[u] /\ parent'[u] = parent[u])
        BY <1>c, <2>1, Zenon DEF Outcomes, Terminal
    <2> QED
        BY <1>a, <1>c, <2>2, Zenon
<1>d. ASSUME NEW t \in Tasks, Stop(t) PROVE OutcomeReachesParent'
    BY <1>d, OwedEnqueue, Zenon DEF Stop, Outcomes
<1>1. ASSUME NEW t \in Tasks, NEW s \in Scopes, NEW r \in BOOLEAN, CallAgent(t, s, r) PROVE OutcomeReachesParent'
    <2>1. \A u \in Tasks : status'[u] \notin Outcomes \/ (status'[u] = status[u] /\ parent'[u] = parent[u])
        BY <1>1, Zenon DEF CallAgent, Types, Outcomes, Terminal
    <2> QED
        BY <1>1, <1>a, <2>1, Zenon DEF CallAgent
<1>2. ASSUME NEW t \in Tasks, SpawnWorker(t) \/ SpawnRefused(t) \/ SendMessage(t) \/ Begin(t)
      PROVE  OutcomeReachesParent'
    <2>1. \A u \in Tasks : status'[u] \notin Outcomes \/ (status'[u] = status[u] /\ parent'[u] = parent[u])
        BY <1>2 DEF SpawnWorker, SpawnRefused, SendMessage, Begin, Types, Outcomes, Terminal
    <2>2. UNCHANGED <<pend, told, dropped, wpc, wset>>
        BY <1>2, Zenon DEF SpawnWorker, SpawnRefused, SendMessage, Begin
    <2> QED
        BY <1>a, <2>1, <2>2, Zenon
<1>3. ASSUME NEW t \in Tasks, StopTask(t) \/ CleanupChild(t) \/ ShutdownStop(t) PROVE OutcomeReachesParent'
    BY <1>3, <1>b, <1>d, Zenon DEF StopTask, CleanupChild, ShutdownStop
<1>4. ASSUME NEW t \in Tasks, Finish(t) PROVE OutcomeReachesParent'
    <2>1. go[t] \in Outcomes \cup {"killed"} /\ parent' = parent
        BY <1>4, Zenon DEF Finish, Outcomes
    <2>2. Enqueue(t, go[t]) \/ UNCHANGED <<status, noticeVars, waitVars>>
        BY <1>4, Zenon DEF Finish
    <2> QED
        BY <1>b, <2>1, <2>2, OwedEnqueue, Zenon
<1>5. ASSUME NEW t \in Tasks, FinishReusableIdle(t) PROVE OutcomeReachesParent'
    <2>1. "idle" \in Outcomes \cup {"killed"} /\ parent' = parent
        BY <1>5, Zenon DEF FinishReusableIdle, Outcomes
    <2>2. Enqueue(t, "idle") \/ UNCHANGED <<status, noticeVars, waitVars>>
        BY <1>5, Zenon DEF FinishReusableIdle
    <2> QED
        BY <1>b, <2>1, <2>2, OwedEnqueue, Zenon
<1>6. ASSUME NEW t \in Tasks, ExpireIdle(t) PROVE OutcomeReachesParent'
    <2>1. "completed" \in Outcomes \cup {"killed"} /\ parent' = parent
        BY <1>6, Zenon DEF ExpireIdle, Outcomes, Terminal
    <2>2. Enqueue(t, "completed") \/ UNCHANGED <<status, noticeVars, waitVars>>
        BY <1>6, Zenon DEF ExpireIdle
    <2> QED
        BY <1>b, <2>1, <2>2, OwedEnqueue
<1>7. ASSUME NEW t \in Tasks, DiscardTerminalRecord(t) \/ CleanupRemove(t) PROVE OutcomeReachesParent'
    <2>1. UNCHANGED <<parent, pend, told, dropped, wpc, wset>>
        BY <1>7, Zenon DEF DiscardTerminalRecord, CleanupRemove
    <2>2. Unregister(t) \/ status' = status
        BY <1>7, Zenon DEF DiscardTerminalRecord, CleanupRemove
    <2> QED
        BY <1>b, <1>c, <2>1, <2>2, Zenon
<1>8. ASSUME NEW s \in Scopes, DrainPendingNotifications(s) PROVE OutcomeReachesParent'
    <2>1. /\ UNCHANGED <<status, parent, dropped, wpc, wset>>
          /\ told' = told \cup {t \in Tasks : parent[t] = s /\ pend[t] > 0}
          /\ \A u \in Tasks : pend'[u] = IF parent[u] = s THEN 0 ELSE pend[u]
        BY <1>8, Zenon DEF DrainPendingNotifications
    <2> QED
        BY <1>0, <1>p, <2>1, Zenon DEF Owed
<1>9. ASSUME NEW W \in use.waits, WaitForTasks(W) PROVE OutcomeReachesParent'
    <2>1. UNCHANGED <<status, parent, pend, told, dropped>> /\ wpc = "none"
        BY <1>9, Zenon DEF WaitForTasks
    <2> QED
        BY <1>0, <1>p, <2>1, Zenon DEF Owed
<1>10. CASE ConsumeMatchingNotifications
    <2>1. /\ UNCHANGED <<status, parent, told, dropped, wset>> /\ wpc' = "snapshot" /\ wpc = "consume"
          /\ \A u \in Tasks : u \notin wset => pend'[u] = pend[u]
        BY <1>10, Zenon DEF ConsumeMatchingNotifications, Consumed
    <2> QED
        BY <1>0, <1>p, <2>1, Zenon DEF Owed
<1>11. CASE Snapshot
    <2>1. /\ UNCHANGED <<status, parent, pend, dropped, wset>> /\ wpc = "snapshot"
          /\ \/ wpc' = "register" /\ told' = told
             \/ told' = told \cup {t \in wset \cap Children("main") : status[t] \in Outcomes}
        BY <1>11, Zenon DEF Snapshot
    <2>2. \A u \in Tasks : parent[u] = "main" /\ status[u] \in Outcomes => u \in Children("main")
        BY Zenon DEF Children, Present, Outcomes, Live
    <2> QED
        BY <1>0, <1>p, <2>1, <2>2, Zenon DEF Owed
<1>12. CASE RegisterWaiter \/ DeadlinePasses \/ Woken
    <2>1. UNCHANGED <<status, parent, pend, told, dropped, wset>> /\ (wpc' = wpc \/ wpc' # "none")
        BY <1>12, Zenon DEF RegisterWaiter, DeadlinePasses, Woken
    <2> QED
        BY <1>0, <1>p, <2>1, Zenon DEF Owed
<1>13. CASE WaitCancelled
    <2>1. /\ UNCHANGED <<status, parent, told, wset>> /\ wpc' = "none"
          /\ \A u \in Tasks : u \notin wset => pend'[u] = pend[u]
          /\ dropped' = dropped \cup {t \in wset : status[t] \in Outcomes /\ t \notin told}
        BY <1>13, Zenon DEF WaitCancelled, Consumed
    <2> QED
        BY <1>0, <1>p, <2>1, Zenon DEF Owed
<1>14. CASE CleanupList
    <2>1. frames # <<>> /\ UNCHANGED <<status, parent, told, dropped, wpc, wset>>
        BY <1>14, Zenon DEF CleanupList
    <2>2. pend' = pend \/ pend' = [t \in Tasks |-> IF parent[t] = Head(frames).scope THEN 0 ELSE pend[t]]
        BY <1>14, Zenon DEF CleanupList
    <2>3. Head(frames).scope # "main"
        <3>1. frames \in Seq(Frames) /\ Head(frames) = frames[1] /\ 1 \in DOMAIN frames
            BY <2>1 DEF Types
        <3> QED
            BY <3>1, ScopeFacts, Zenon DEF CleanupInv
    <2>4. \A u \in Tasks : parent[u] = "main" => pend'[u] = pend[u]
        BY <2>2, <2>3, Zenon
    <2> QED
        BY <1>0, <1>p, <2>1, <2>4, Zenon DEF Owed
<1>15. ASSUME \/ ForegroundReturns \/ ResetSession \/ ShutdownList \/ ShutdownTimers
              \/ \E t \in Tasks : IdleTimerFires(t)
              \/ \E t \in Tasks : \E r \in {"completed", "failed", "interrupted"} : Settle(t, r)
       PROVE  OutcomeReachesParent'
    <2>1. UNCHANGED <<status, parent, pend, told, dropped, wpc, wset>>
        BY <1>15, Zenon DEF ForegroundReturns, ResetSession, ShutdownList, ShutdownTimers,
           IdleTimerFires, Settle
    <2> QED
        BY <1>b, <2>1, Zenon
<1> QED
    BY <1>1, <1>2, <1>3, <1>4, <1>5, <1>6, <1>7, <1>8, <1>9, <1>10, <1>11, <1>12, <1>13, <1>14, <1>15
       DEF Next, Worker, Timers, Wait
=============================================================================
