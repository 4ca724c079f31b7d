-------------------------- MODULE TaskRuntimeProofs --------------------------
(***************************************************************************)
(* The theorems about TaskRuntime, for any finite set of workers: the      *)
(* lemmas of TaskRuntimeSteps, and what they leave to the library of       *)
(* finite sets.                                                            *)
(***************************************************************************)
EXTENDS TaskRuntimeSteps, FiniteSetTheorems

LEMMA TypesInit == Init => Types
<1> SUFFICES ASSUME Init PROVE Types
    BY Zenon
<1>1. Cardinality(use.imported) \in Nat
    BY UseFacts, ScopeFacts, FS_Subset, FS_CardinalityType, Zenon DEF Init
<1>2. count \in [Scopes -> Nat]
    BY <1>1, Zenon DEF Init
<1>3. status \in [Tasks -> Statuses] /\ parent \in [Tasks -> Scopes] /\ pend \in [Tasks -> Nat]
    BY ScopeFacts, Zenon DEF Init, Statuses, Terminal
<1>4. frames \in Seq(Frames)
    BY DEF Init
<1>5. lease \in [Tasks -> Nat] /\ go \in [Tasks -> GoStates] /\ cleanup \in [Tasks -> {"none", "armed", "spent"}]
    BY Zenon DEF Init, GoStates
<1>6. use \in Uses /\ use.resets \in Nat /\ use.sends \in Nat
    BY UseFacts, Zenon DEF Init
<1>7. /\ reusable \in SUBSET Tasks /\ specs \in SUBSET Tasks /\ workers \in SUBSET Tasks
      /\ ctxDone \in SUBSET Tasks /\ detached \in SUBSET Tasks /\ told \in SUBSET Tasks
      /\ idleTimer \in SUBSET Tasks /\ idleFired \in SUBSET Tasks /\ refs \in SUBSET Tasks
      /\ wset \in SUBSET Tasks /\ wreg \in SUBSET Tasks /\ wpending \in SUBSET Tasks
      /\ dropped \in SUBSET Tasks /\ token \in BOOLEAN /\ late \in BOOLEAN
    BY Zenon DEF Init
<1>8. /\ wpc \in {"none", "consume", "snapshot", "register", "select"} /\ rpc \in {"none", "list", "stop"}
      /\ fgpc \in {"running", "cleanup", "done"} /\ epoch \in 0..use.resets /\ sends \in 0..use.sends
    BY <1>6 DEF Init
<1> QED
    BY <1>2, <1>3, <1>4, <1>5, <1>6, <1>7, <1>8, Zenon DEF Types

LEMMA ChildrenFinite ==
    ASSUME NEW s
    PROVE  IsFiniteSet(Children(s)) /\ Cardinality(Children(s)) \in Nat
<1>1. Children(s) \subseteq Tasks
    BY Zenon DEF Children, Present
<1> QED
    BY <1>1, ScopeFacts, FS_Subset, FS_CardinalityType, Zenon

LEMMA ZeroChildren ==
    ASSUME Types, CountsExact
    PROVE  ZeroIsChildless
<1> SUFFICES ASSUME NEW s \in Scopes, count[s] = 0 PROVE Children(s) = {}
    BY DEF ZeroIsChildless
<1> QED
    BY ChildrenFinite, FS_EmptySet DEF CountsExact

LEMMA CountsKept ==
    ASSUME Types, CountsExact, RecordsAdvance
    PROVE  CountsExact'
<1> SUFFICES ASSUME NEW s \in Scopes PROVE count'[s] = Cardinality(Children(s)')
    BY Zenon DEF CountsExact
<1>0. count[s] = Cardinality(Children(s)) /\ IsFiniteSet(Children(s)) /\ count[s] \in Nat
    BY ChildrenFinite, Zenon DEF CountsExact, Types
<1>1. ASSUME NEW t \in Tasks, Registers(t) PROVE count'[s] = Cardinality(Children(s)')
    <2>1. CASE s = parent[t]
        <3>1. Cardinality(Children(s) \cup {t}) = Cardinality(Children(s)) + 1
            BY <1>0, <1>1, ChildrenRegister, FS_AddElement, Zenon
        <3> QED
            BY <1>0, <1>1, <2>1, <3>1, ChildrenRegister, Zenon DEF Registers
    <2>2. CASE s # parent[t]
        BY <1>0, <1>1, <2>2, ChildrenRegister, Zenon DEF Registers
    <2> QED
        BY <2>1, <2>2, Zenon
<1>2. ASSUME NEW t \in Tasks, Forgets(t) PROVE count'[s] = Cardinality(Children(s)')
    <2>1. CASE s = parent[t]
        <3>1. t \in Children(s) /\ Cardinality(Children(s) \ {t}) = Cardinality(Children(s)) - 1
            BY <1>0, <1>2, <2>1, ChildrenForget, FS_RemoveElement, Zenon
        <3>2. Cardinality(Children(s)) # 0
            BY <1>0, <3>1, FS_EmptySet, Zenon
        <3>3. Children(s)' = Children(s) \ {t}
            BY <1>2, <2>1, ChildrenForget, Zenon
        <3>4. count'[s] = count[s] - 1
            BY <1>0, <1>2, <2>1, <3>2 DEF Forgets
        <3> QED
            BY <1>0, <3>1, <3>3, <3>4, Zenon
    <2>2. CASE s # parent[t]
        BY <1>0, <1>2, <2>2, ChildrenForget, Zenon DEF Forgets
    <2> QED
        BY <2>1, <2>2, Zenon
<1>3. ASSUME \A u \in Tasks : Move(u), count' = count PROVE count'[s] = Cardinality(Children(s)')
    BY <1>0, <1>3, ChildrenMove, Zenon
<1> QED
    BY <1>1, <1>2, <1>3, Zenon DEF RecordsAdvance

LEMMA RuntimeInit == Init => RuntimeInv
<1> SUFFICES ASSUME Init PROVE RuntimeInv
    BY Zenon
<1>1. Types
    BY TypesInit, Zenon
<1>2. \A t \in Tasks : /\ status[t] = IF t \in use.imported THEN "interrupted" ELSE "unused"
                       /\ parent[t] = "main" /\ lease[t] = 0 /\ go[t] = "none" /\ cleanup[t] = "none"
                       /\ pend[t] = IF t \in use.imported THEN 1 ELSE 0
    BY Zenon DEF Init
<1>3. use.imported \in SUBSET Tasks
    BY UseFacts, Zenon DEF Init
<1>4. Present = use.imported
    BY <1>2, <1>3, Zenon DEF Present, Live, Terminal
<1>5. GoroutinesMatch
    BY <1>2, Zenon DEF GoroutinesMatch, Matched, Init
<1>6. CountsExact
    <2>1. Children("main") = use.imported /\ \A s \in Scopes : s # "main" => Children(s) = {}
        BY <1>2, <1>3, <1>4, Zenon DEF Children
    <2>2. \A s \in Scopes : count[s] = IF s = "main" THEN Cardinality(use.imported) ELSE 0
        BY Zenon DEF Init
    <2> QED
        BY <2>1, <2>2, FS_EmptySet, Zenon DEF CountsExact
<1>7. CleanupInv
    BY DEF Init, CleanupInv
<1>8. NoOrphans
    BY <1>2, <1>3, <1>4, ScopeFacts, Zenon DEF NoOrphans
<1>9. ResetInv
    BY <1>2 DEF ResetInv, Init, Live
<1>10. OutcomeReachesParent
    BY <1>2, <1>3, <1>4 DEF OutcomeReachesParent, Children
<1> QED
    BY <1>1, <1>5, <1>6, <1>7, <1>8, <1>9, <1>10 DEF RuntimeInv

LEMMA RuntimeStutters ==
    ASSUME RuntimeInv, UNCHANGED vars
    PROVE  RuntimeInv'
<1>1. Types'
    BY DEF RuntimeInv, Types, vars
<1>2. GoroutinesMatch'
    BY Zenon DEF RuntimeInv, GoroutinesMatch, Matched, Dead, Present, vars
<1>3. CountsExact' /\ NoOrphans'
    BY Zenon DEF RuntimeInv, CountsExact, NoOrphans, Children, Present, vars
<1>4. CleanupInv'
    BY Zenon DEF RuntimeInv, CleanupInv, Dead, Listed, Children, Present, vars
<1>5. ResetInv' /\ OutcomeReachesParent'
    BY Zenon DEF RuntimeInv, ResetInv, OutcomeReachesParent, Children, Present, vars
<1> QED
    BY <1>1, <1>2, <1>3, <1>4, <1>5 DEF RuntimeInv

(* The inductive invariant of the task runtime: the goroutine of each      *)
(* worker is where its record says (runWorker, finish), childCounts is     *)
(* exact, CleanupScope's stack is sound, and Shutdown has listed every     *)
(* live worker of an earlier epoch.                                        *)
THEOREM RuntimeInvariant == Spec => []RuntimeInv
<1>1. RuntimeInv /\ Next => RuntimeInv'
    BY TypesStep, ZeroChildren, RecordsStep, MatchedStep, CountsKept, NoOrphansKept, CleanupStep,
       ResetStep, OutcomeStep
       DEF RuntimeInv
<1>2. RuntimeInv /\ [Next]_vars => RuntimeInv'
    BY <1>1, RuntimeStutters, Zenon
<1> QED
    BY RuntimeInit, <1>2, PTL DEF Spec

(* The types of TaskRuntime's variables hold in every state, for any number *)
(* of workers and any parent limit.                                        *)
THEOREM TypeCorrect == Spec => []TypeOK
<1>1. RuntimeInv => TypeOK
    <2> SUFFICES ASSUME RuntimeInv PROVE TypeOK
        BY Zenon
    <2>1. lease \in [Tasks -> 0..use.resets]
        BY UseFacts DEF RuntimeInv, Types, ResetInv
    <2>2. specs \subseteq Present
        BY Zenon DEF RuntimeInv, GoroutinesMatch, Matched, Types
    <2> QED
        BY <2>1, <2>2, Zenon DEF RuntimeInv, Types, TypeOK, GoStates
<1> QED
    BY RuntimeInvariant, <1>1, PTL

(* childCounts, which admitRecord checks against the limit and the cleanup *)
(* timer reads before it discards a record, is the number of children.     *)
THEOREM ChildCountsExact == Spec => []CountsExact
<1>1. RuntimeInv => CountsExact
    BY Zenon DEF RuntimeInv
<1> QED
    BY RuntimeInvariant, <1>1, PTL

(* CleanupScope and the cleanup timers leave no orphan, for any tree of    *)
(* workers.                                                                *)
THEOREM NoOrphanTasks == Spec => []NoOrphans
<1>1. RuntimeInv => NoOrphans
    BY Zenon DEF RuntimeInv
<1> QED
    BY RuntimeInvariant, <1>1, PTL

(* Once Reset has returned, every worker admitted before it is over.       *)
THEOREM ResetRetires == Spec => []ResetRetiresTasks
<1>1. RuntimeInv => ResetRetiresTasks
    BY Zenon DEF RuntimeInv, ResetInv, ResetRetiresTasks, Present
<1> QED
    BY RuntimeInvariant, <1>1, PTL

(* No outcome of a worker of the main agent is lost between the queue of   *)
(* notifications, TaskWait and the turns.                                  *)
THEOREM OutcomesReachParent == Spec => []OutcomeReachesParent
<1>1. RuntimeInv => OutcomeReachesParent
    BY Zenon DEF RuntimeInv
<1> QED
    BY RuntimeInvariant, <1>1, PTL
=============================================================================
