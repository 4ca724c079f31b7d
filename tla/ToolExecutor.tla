---------------------------- MODULE ToolExecutor ----------------------------
(***************************************************************************)
(* StreamingToolExecutor (agent/tools_executor.go) and the goroutine that  *)
(* drives it through one model turn: the stream that adds the calls,       *)
(* PermissionResolver.Resolve, and executeAndCommitTools in agent/loop.go. *)
(* Thread 0 is that goroutine; thread c is executeOne of call c.  Any      *)
(* thread may launch calls.  The journal's answer to an append is external.*)
(***************************************************************************)
EXTENDS Integers, Sequences, FiniteSets

CONSTANTS MaxLoad,    \* bound on the calls of the turn and the appends that fail, together
          Turns,      \* the turns considered: the tool kinds of the calls, in model order
          SafeLimit   \* capacity of safeSemaphore

ASSUME ToolExecutorAssumption ==
    /\ MaxLoad \in Nat /\ SafeLimit \in Nat \ {0}
    /\ Turns \subseteq UNION {[1..n -> {"safe", "excl", "bash", "fail", "block"}] : n \in 1..MaxLoad}

VARIABLES kind,       \* what Registry says of the tool of each call
          state,      \* slot.State
          result,     \* slot.Result
          granted,    \* slots with PermissionGranted
          abort,      \* slots whose abort channel is closed
          cancelled,  \* cancelCtx is done
          stopped,    \* the context of the turn is done
          nonSafe,    \* nonSafeRunning
          activity,   \* the activity channel holds a token
          todo,       \* toLaunch of each thread, launched in call order
          at,         \* how far the launch of the first of them is
          go,         \* where executeOne of each call is
          log,        \* durable events of each call
          pc, next,   \* where thread 0 is, and at which call
          rest,       \* thread 0 is in GetRemainingResults
          results,    \* toolResults
          faults

slotVars == <<state, result, granted, abort>>
mainVars == <<pc, next, rest, results>>
vars == <<kind, state, result, granted, abort, cancelled, stopped, nonSafe, activity, todo, at,
          go, log, pc, next, rest, results, faults>>

Calls == DOMAIN kind
Threads == {0} \cup Calls

(* "fail" and "block" are a parallel group whose tools support sibling     *)
(* abort: one that fails, and one that runs until it is aborted.           *)
Safe(c) == kind[c] \in {"safe", "fail", "block"}
SupportsSiblingAbort(c) == kind[c] \in {"bash", "fail", "block"}

TerminalStates == {"completed", "aborted", "yielded"}
TerminalEvents == {"completed", "failed", "cancelled", "denied"}
ErrorResults == {"error", "cancelled", "aborted", "journal"}
Pending == \E c \in Calls : state[c] \in {"queued", "executing"}
Running == \E c \in Calls : state[c] = "executing"

(* Faulty variant: an exclusive call does not wait for earlier calls.      *)
CanStartEager(c, allowNonSafe, slots) ==
    /\ ~cancelled /\ slots[c] = "queued" /\ (Safe(c) \/ allowNonSafe)
    /\ \A p \in 1..(c - 1) : ~Safe(p) => slots[p] \in TerminalStates
    /\ nonSafe = 0

(* canStartImmediatelyLocked: an exclusive call waits for every earlier    *)
(* call, a safe one for every earlier exclusive call.                      *)
CanStartImmediately(c, allowNonSafe, slots) ==
    /\ ~cancelled /\ slots[c] = "queued" /\ (Safe(c) \/ allowNonSafe)
    /\ \A p \in 1..(c - 1) : slots[p] \in TerminalStates \/ (Safe(c) /\ Safe(p))
    /\ nonSafe = 0

(* maybeDrain: all startable safe calls, and the first granted exclusive   *)
(* call that can start.                                                    *)
DrainList ==
    LET safe == {c \in Calls : Safe(c) /\ CanStartImmediately(c, FALSE, state)}
        excl == {c \in granted : ~Safe(c) /\ CanStartImmediately(c, TRUE, state)}
    IN safe \cup {c \in excl : \A d \in excl : c <= d}

(* GetCompletedResults: results leave in call order, up to the first call  *)
(* that is not finished.                                                   *)
GetCompletedResults ==
    LET out == {c \in Calls : /\ state[c] \in {"completed", "aborted"}
                              /\ \A p \in 1..c : state[p] \in TerminalStates}
    IN /\ state' = [c \in Calls |-> IF c \in out THEN "yielded" ELSE state[c]]
       /\ results' = results \o SelectSeq([c \in Calls |-> c],
                                          LAMBDA c : c \in out /\ result[c] # "none")

(* AbortSiblings(failed).                                                  *)
AbortSiblings(failed) ==
    LET out == {c \in Calls \ failed : /\ state[c] \in {"queued", "executing"}
                                       /\ SupportsSiblingAbort(c)}
    IN /\ abort' = abort \cup out
       /\ state' = [c \in Calls |-> IF c \in out THEN "aborted" ELSE state[c]]
       /\ result' = [c \in Calls |-> IF c \in out THEN "aborted" ELSE result[c]]
       /\ cancelled' = (cancelled \/ out # {})
       /\ activity' = (activity \/ out # {})

(* An append to the journal may fail; one made with a cancelled context    *)
(* may fail for that reason.                                               *)
AppendFails(underCancel) ==
    \/ underCancel /\ cancelled /\ UNCHANGED faults
    \/ Len(kind) + faults < MaxLoad /\ faults' = faults + 1
-----------------------------------------------------------------------------
Init ==
    /\ kind \in Turns
    /\ state = [c \in Calls |-> "absent"] /\ result = [c \in Calls |-> "none"]
    /\ granted = {} /\ abort = {} /\ cancelled = FALSE /\ stopped = FALSE
    /\ nonSafe = 0 /\ activity = FALSE
    /\ todo = [p \in Threads |-> {}] /\ at = [p \in Threads |-> "reserve"]
    /\ go = [c \in Calls |-> "none"] /\ log = [c \in Calls |-> <<>>]
    /\ pc = "add" /\ next = 1 /\ rest = FALSE /\ results = <<>> /\ faults = 0

(* The context of the run is cancelled; cancelCtx is derived from it.      *)
Stop ==
    /\ ~stopped /\ pc # "done"
    /\ stopped' = TRUE /\ cancelled' = TRUE
    /\ UNCHANGED <<kind, slotVars, nonSafe, activity, todo, at, go, log, mainVars, faults>>

-----------------------------------------------------------------------------
(* launch, called by thread p for the first call of its list.              *)

First(p) == CHOOSE c \in todo[p] : \A d \in todo[p] : c <= d

(* Faulty variant: a call another thread has reserved is launched again.   *)
ReserveAgain(p) ==
    /\ todo[p] # {} /\ at[p] = "reserve"
    /\ IF state[First(p)] \in {"queued", "executing"}
       THEN /\ state' = [state EXCEPT ![First(p)] = "executing"]
            /\ at' = [at EXCEPT ![p] = "journal"]
            /\ UNCHANGED todo
       ELSE /\ todo' = [todo EXCEPT ![p] = @ \ {First(p)}]
            /\ UNCHANGED <<state, at>>
    /\ UNCHANGED <<kind, result, granted, abort, cancelled, stopped, nonSafe, activity, go, log,
                   mainVars, faults>>

Reserve(p) ==
    /\ todo[p] # {} /\ at[p] = "reserve"
    /\ IF state[First(p)] = "queued"
       THEN /\ state' = [state EXCEPT ![First(p)] = "executing"]
            /\ at' = [at EXCEPT ![p] = "journal"]
            /\ UNCHANGED todo
       ELSE /\ todo' = [todo EXCEPT ![p] = @ \ {First(p)}]
            /\ UNCHANGED <<state, at>>
    /\ UNCHANGED <<kind, result, granted, abort, cancelled, stopped, nonSafe, activity, go, log,
                   mainVars, faults>>

BeforeToolStart(p) ==
    /\ todo[p] # {} /\ at[p] = "journal"
    /\ log' = [log EXCEPT ![First(p)] = Append(@, "started")]
    /\ at' = [at EXCEPT ![p] = "start"]
    /\ UNCHANGED <<kind, slotVars, cancelled, stopped, nonSafe, activity, todo, go, mainVars, faults>>

BeforeToolStartFails(p) ==
    /\ todo[p] # {} /\ at[p] = "journal"
    /\ AppendFails(TRUE)
    /\ LET c == First(p)
       IN IF state[c] = "executing"
          THEN /\ state' = [state EXCEPT ![c] = "completed"]
               /\ result' = [result EXCEPT ![c] = "journal"]
          ELSE UNCHANGED <<state, result>>
    /\ cancelled' = TRUE /\ activity' = TRUE
    /\ todo' = [todo EXCEPT ![p] = @ \ {First(p)}]
    /\ at' = [at EXCEPT ![p] = "reserve"]
    /\ UNCHANGED <<kind, granted, abort, stopped, nonSafe, go, log, mainVars>>

Start(p) ==
    /\ todo[p] # {} /\ at[p] = "start"
    /\ LET c == First(p)
       IN IF state[c] = "executing"
          THEN /\ nonSafe' = IF Safe(c) THEN nonSafe ELSE nonSafe + 1
               /\ go' = [go EXCEPT ![c] = "entry"]
          ELSE UNCHANGED <<nonSafe, go>>
    /\ todo' = [todo EXCEPT ![p] = @ \ {First(p)}]
    /\ at' = [at EXCEPT ![p] = "reserve"]
    /\ UNCHANGED <<kind, slotVars, cancelled, stopped, activity, log, mainVars, faults>>
-----------------------------------------------------------------------------
(* executeOne of call c.                                                   *)

(* The slot's context is done.                                             *)
CtxDone(c) == cancelled \/ c \in abort

(* Safe calls that hold a unit of the semaphore.                           *)
Holding == {c \in Calls : Safe(c) /\ go[c] \in {"running", "ok", "error", "siblings", "others"}}

Enter(c) ==
    /\ go[c] = "entry"
    /\ IF CtxDone(c)
       THEN /\ result' = [result EXCEPT ![c] = "cancelled"]
            /\ go' = [go EXCEPT ![c] = "deferred"]
       ELSE /\ go' = [go EXCEPT ![c] = IF Safe(c) THEN "acquire" ELSE "running"]
            /\ UNCHANGED result
    /\ UNCHANGED <<kind, state, granted, abort, cancelled, stopped, nonSafe, activity, todo, at,
                   log, mainVars, faults>>

Acquire(c) ==
    /\ go[c] = "acquire"
    /\ \/ /\ Cardinality(Holding) < SafeLimit
          /\ go' = [go EXCEPT ![c] = "running"]
          /\ UNCHANGED result
       \/ /\ CtxDone(c)
          /\ result' = [result EXCEPT ![c] = "cancelled"]
          /\ go' = [go EXCEPT ![c] = "deferred"]
    /\ UNCHANGED <<kind, state, granted, abort, cancelled, stopped, nonSafe, activity, todo, at,
                   log, mainVars, faults>>

(* Registry.Execute returns, or panics; a closed abort channel overrides   *)
(* what it returned, unless AbortSiblings has already set a result.        *)
Return(c, r) ==
    /\ go[c] = "running"
    /\ kind[c] = "fail" => r = "error"
    /\ kind[c] = "block" => r = "error" /\ CtxDone(c)
    /\ go' = [go EXCEPT ![c] = IF c \in abort \/ r = "panic" THEN "deferred" ELSE r]
    /\ result' = [result EXCEPT ![c] =
                     IF r = "panic" THEN "error"
                     ELSE IF c \in abort /\ @ = "none" THEN "cancelled" ELSE @]
    /\ UNCHANGED <<kind, state, granted, abort, cancelled, stopped, nonSafe, activity, todo, at,
                   log, mainVars, faults>>

(* Faulty variant: siblings are aborted only when the result is delivered. *)
FinishResultQuietly(c) ==
    /\ go[c] \in {"ok", "error"}
    /\ result' = [result EXCEPT ![c] = go[c]]
    /\ go' = [go EXCEPT ![c] = IF @ = "error" /\ ~Safe(c) THEN "others" ELSE "deferred"]
    /\ UNCHANGED <<kind, state, granted, abort, cancelled, stopped, nonSafe, activity, todo, at,
                   log, mainVars, faults>>

FinishResult(c) ==
    /\ go[c] \in {"ok", "error"}
    /\ result' = [result EXCEPT ![c] = go[c]]
    /\ go' = [go EXCEPT ![c] = CASE @ = "error" /\ SupportsSiblingAbort(c) -> "siblings"
                                 [] @ = "error" /\ kind[c] = "excl" -> "others"
                                 [] OTHER -> "deferred"]
    /\ UNCHANGED <<kind, state, granted, abort, cancelled, stopped, nonSafe, activity, todo, at,
                   log, mainVars, faults>>

Siblings(c) ==
    /\ go[c] = "siblings"
    /\ AbortSiblings({c})
    /\ go' = [go EXCEPT ![c] = IF Safe(c) THEN "deferred" ELSE "others"]
    /\ UNCHANGED <<kind, granted, stopped, nonSafe, todo, at, log, mainVars, faults>>

(* A failed exclusive call stops everything else.                          *)
Others(c) ==
    /\ go[c] = "others"
    /\ abort' = abort \cup {t \in Calls \ {c} : state[t] = "executing"}
    /\ cancelled' = TRUE
    /\ go' = [go EXCEPT ![c] = "deferred"]
    /\ UNCHANGED <<kind, state, result, granted, stopped, nonSafe, activity, todo, at, log,
                   mainVars, faults>>

(* The deferred function's critical section; go then names the event that  *)
(* ToolFinished is going to append.                                        *)
Deferred(c) ==
    /\ go[c] = "deferred"
    /\ state' = [state EXCEPT ![c] = IF @ = "aborted" THEN @ ELSE "completed"]
    /\ nonSafe' = IF Safe(c) THEN nonSafe ELSE nonSafe - 1
    /\ go' = [go EXCEPT ![c] = IF state[c] = "aborted" THEN "cancelled"
                               ELSE IF result[c] \in ErrorResults THEN "failed" ELSE "completed"]
    /\ UNCHANGED <<kind, result, granted, abort, cancelled, stopped, activity, todo, at, log,
                   mainVars, faults>>

ToolFinished(c) ==
    /\ go[c] \in TerminalEvents
    /\ go' = [go EXCEPT ![c] = "drain"]
    /\ \/ log' = [log EXCEPT ![c] = Append(@, go[c])] /\ UNCHANGED <<cancelled, faults>>
       \/ AppendFails(FALSE) /\ cancelled' = TRUE /\ UNCHANGED log
    /\ UNCHANGED <<kind, slotVars, stopped, nonSafe, activity, todo, at, mainVars>>

MaybeDrain(c) ==
    /\ go[c] = "drain"
    /\ todo' = [todo EXCEPT ![c] = DrainList]
    /\ go' = [go EXCEPT ![c] = "launching"]
    /\ UNCHANGED <<kind, slotVars, cancelled, stopped, nonSafe, activity, at, log, mainVars, faults>>

SignalActivity(c) ==
    /\ go[c] = "launching" /\ todo[c] = {}
    /\ activity' = TRUE
    /\ go' = [go EXCEPT ![c] = "done"]
    /\ UNCHANGED <<kind, slotVars, cancelled, stopped, nonSafe, todo, at, log, mainVars, faults>>
-----------------------------------------------------------------------------
(* Thread 0; it takes a step of its own only when it is not in launch.     *)
MainAt(where) == pc = where /\ todo[0] = {}

(* The tool_use case of the stream handler: RecordToolPlanned, AddTool.    *)
AddTool ==
    /\ MainAt("add") /\ next \in Calls
    /\ log' = [log EXCEPT ![next] = <<"planned">>]
    /\ state' = [state EXCEPT ![next] = "queued"]
    /\ todo' = [todo EXCEPT ![0] = IF CanStartImmediately(next, FALSE, state') THEN {next}
                                   ELSE {}]
    /\ next' = next + 1
    /\ UNCHANGED <<kind, result, granted, abort, cancelled, stopped, nonSafe, activity, at, go, pc,
                   rest, results, faults>>

(* The append of the plan fails: the loop returns and abandons the turn.   *)
PlanFails ==
    /\ MainAt("add") /\ next \in Calls
    /\ AppendFails(FALSE)
    /\ pc' = "abandoned"
    /\ UNCHANGED <<kind, slotVars, cancelled, stopped, nonSafe, activity, todo, at, go, log, next,
                   rest, results>>

StreamEnds ==
    /\ MainAt("add") /\ next \notin Calls
    /\ pc' = "resolve" /\ next' = 1
    /\ UNCHANGED <<kind, slotVars, cancelled, stopped, nonSafe, activity, todo, at, go, log, rest,
                   results, faults>>

(* Resolve looks at the next call: calls that are no longer queued are     *)
(* skipped, the others wait for a decision (denied at once when aborted).  *)
Resolve ==
    /\ MainAt("resolve")
    /\ IF next \notin Calls THEN pc' = "top" /\ UNCHANGED next
       ELSE IF state[next] # "queued" THEN next' = next + 1 /\ UNCHANGED pc
       ELSE pc' = (IF stopped THEN "deny" ELSE "deciding") /\ UNCHANGED next
    /\ UNCHANGED <<kind, slotVars, cancelled, stopped, nonSafe, activity, todo, at, go, log, rest,
                   results, faults>>

(* No permission is needed, or it is granted: TryStartQueued.              *)
TryStartQueued ==
    /\ MainAt("deciding")
    /\ IF state[next] = "queued"
       THEN /\ granted' = granted \cup {next}
            /\ todo' = [todo EXCEPT ![0] = IF CanStartImmediately(next, TRUE, state) THEN {next}
                                           ELSE {}]
       ELSE UNCHANGED <<granted, todo>>
    /\ pc' = "resolve" /\ next' = next + 1
    /\ UNCHANGED <<kind, state, result, abort, cancelled, stopped, nonSafe, activity, at, go, log,
                   rest, results, faults>>

(* The user denies the call, or the wait for the answer is cancelled.      *)
Deny ==
    /\ MainAt("deciding")
    /\ pc' = "deny"
    /\ UNCHANGED <<kind, slotVars, cancelled, stopped, nonSafe, activity, todo, at, go, log, next,
                   rest, results, faults>>

(* DenyTool: the journal append ...                                        *)
ToolDenied ==
    /\ MainAt("deny")
    /\ pc' = "denying"
    /\ \/ log' = [log EXCEPT ![next] = Append(@, "denied")] /\ UNCHANGED <<cancelled, faults>>
       \/ AppendFails(TRUE) /\ cancelled' = TRUE /\ UNCHANGED log
    /\ UNCHANGED <<kind, slotVars, stopped, nonSafe, activity, todo, at, go, next, rest, results>>

(* ... and the second critical section, which does not look at the state.  *)
DenyTool ==
    /\ MainAt("denying")
    /\ state' = [state EXCEPT ![next] = "completed"]
    /\ result' = [result EXCEPT ![next] = "denied"]
    /\ activity' = TRUE
    /\ pc' = "resolve" /\ next' = next + 1
    /\ UNCHANGED <<kind, granted, abort, cancelled, stopped, nonSafe, todo, at, go, log, rest,
                   results, faults>>

(* Head of the loop of executeAndCommitTools.                              *)
LoopTop ==
    /\ MainAt("top") /\ ~rest
    /\ IF Pending THEN GetCompletedResults /\ pc' = "wait"
                  ELSE pc' = "collect" /\ UNCHANGED <<state, results>>
    /\ UNCHANGED <<kind, result, granted, abort, cancelled, stopped, nonSafe, activity, todo, at,
                   go, log, next, rest, faults>>

(* Head of the loop of GetRemainingResults.                                *)
RemainingTop ==
    /\ MainAt("top") /\ rest
    /\ pc' = IF ~Pending \/ stopped \/ (cancelled /\ ~Running) THEN "gather" ELSE "wait"
    /\ UNCHANGED <<kind, slotVars, cancelled, stopped, nonSafe, activity, todo, at, go, log, next,
                   rest, results, faults>>

(* WaitForActivity: drain when nothing runs, else block.                   *)
WaitForActivity ==
    /\ MainAt("wait")
    /\ IF ~Pending THEN pc' = "woken" /\ UNCHANGED todo
       ELSE IF Running THEN pc' = "select" /\ UNCHANGED todo
       ELSE pc' = "drained" /\ todo' = [todo EXCEPT ![0] = DrainList]
    /\ UNCHANGED <<kind, slotVars, cancelled, stopped, nonSafe, activity, at, go, log, next, rest,
                   results, faults>>

AfterDrain ==
    /\ MainAt("drained")
    /\ pc' = IF Running THEN "select" ELSE "woken"
    /\ UNCHANGED <<kind, slotVars, cancelled, stopped, nonSafe, activity, todo, at, go, log, next,
                   rest, results, faults>>

Wake ==
    /\ MainAt("select")
    /\ \/ activity /\ activity' = FALSE
       \/ cancelled /\ UNCHANGED activity
    /\ pc' = "woken"
    /\ UNCHANGED <<kind, slotVars, cancelled, stopped, nonSafe, todo, at, go, log, next, rest,
                   results, faults>>

(* After WaitForActivity: the first loop re-reads the slots, the second    *)
(* drains and re-reads.                                                    *)
Woken ==
    /\ MainAt("woken")
    /\ IF rest THEN pc' = "check" /\ todo' = [todo EXCEPT ![0] = DrainList]
       ELSE pc' = (IF Pending /\ ~Running THEN "collect" ELSE "top") /\ UNCHANGED todo
    /\ UNCHANGED <<kind, slotVars, cancelled, stopped, nonSafe, activity, at, go, log, next, rest,
                   results, faults>>

Check ==
    /\ MainAt("check")
    /\ pc' = IF Running THEN "top" ELSE "gather"
    /\ UNCHANGED <<kind, slotVars, cancelled, stopped, nonSafe, activity, todo, at, go, log, next,
                   rest, results, faults>>

Collect ==
    /\ MainAt("collect")
    /\ GetCompletedResults
    /\ pc' = "top" /\ rest' = TRUE
    /\ UNCHANGED <<kind, result, granted, abort, cancelled, stopped, nonSafe, activity, todo, at,
                   go, log, next, faults>>

(* The end of GetRemainingResults: whatever has a result and was not       *)
(* delivered.                                                              *)
Gather ==
    /\ MainAt("gather")
    /\ results' = results \o SelectSeq([c \in Calls |-> c],
                                       LAMBDA c : state[c] # "yielded" /\ result[c] # "none")
    /\ pc' = "deliver"
    /\ UNCHANGED <<kind, slotVars, cancelled, stopped, nonSafe, activity, todo, at, go, log, next,
                   rest, faults>>

(* The results are delivered; a failed abort-capable call aborts siblings. *)
(* AppendToolResultsMessage keeps the first result of each call.           *)
Deliver ==
    /\ MainAt("deliver")
    /\ LET bad == {c \in Calls : /\ \E i \in DOMAIN results : results[i] = c
                                  /\ result[c] \in ErrorResults /\ SupportsSiblingAbort(c)}
       IN IF bad = {} THEN UNCHANGED <<state, result, abort, cancelled, activity>>
          ELSE AbortSiblings(IF Cardinality(bad) = 1 THEN bad ELSE {})
    /\ pc' = "done"
    /\ UNCHANGED <<kind, granted, stopped, nonSafe, todo, at, go, log, next, rest, results, faults>>
-----------------------------------------------------------------------------
Launch(p) == Reserve(p) \/ BeforeToolStart(p) \/ BeforeToolStartFails(p) \/ Start(p)

ExecuteOne(c) ==
    \/ Enter(c) \/ Acquire(c) \/ FinishResult(c) \/ Siblings(c) \/ Others(c) \/ Deferred(c)
    \/ ToolFinished(c) \/ MaybeDrain(c) \/ SignalActivity(c)

Main ==
    \/ AddTool \/ StreamEnds \/ Resolve \/ TryStartQueued \/ Deny \/ ToolDenied \/ DenyTool
    \/ LoopTop \/ RemainingTop \/ WaitForActivity \/ AfterDrain \/ Wake \/ Woken \/ Check
    \/ Collect \/ Gather \/ Deliver

Next ==
    \/ Stop \/ PlanFails \/ Main
    \/ \E p \in Threads : Launch(p)
    \/ \E c \in Calls : ExecuteOne(c) \/ \E r \in {"ok", "error", "panic"} : Return(c, r)

Spec == Init /\ [][Next]_vars

(* Goroutines that are not blocked go on, permission requests are          *)
(* answered, and tools return (a blocking one once its context is done).   *)
FairSpec ==
    /\ Spec /\ WF_vars(Main)
    /\ \A p \in 0..MaxLoad : WF_vars(p \in Threads /\ Launch(p))
    /\ \A c \in 1..MaxLoad :
        /\ WF_vars(c \in Calls /\ ExecuteOne(c))
        /\ WF_vars(c \in Calls /\ \E r \in {"ok", "error", "panic"} : Return(c, r))
-----------------------------------------------------------------------------
GoStates == {"none", "entry", "acquire", "running", "ok", "error", "siblings", "others",
             "deferred", "completed", "failed", "cancelled", "drain", "launching", "done"}

TypeOK ==
    /\ kind \in Turns
    /\ state \in [Calls -> {"absent", "queued", "executing"} \cup TerminalStates]
    /\ result \in [Calls -> {"none", "ok", "denied"} \cup ErrorResults]
    /\ granted \subseteq Calls /\ abort \subseteq Calls
    /\ cancelled \in BOOLEAN /\ stopped \in BOOLEAN /\ activity \in BOOLEAN /\ rest \in BOOLEAN
    /\ nonSafe \in 0..Len(kind) /\ next \in 1..(Len(kind) + 1) /\ faults \in Nat
    /\ todo \in [Threads -> SUBSET Calls]
    /\ at \in [Threads -> {"reserve", "journal", "start"}]
    /\ go \in [Calls -> GoStates]
    /\ \A i \in DOMAIN results : results[i] \in Calls

DeniedEvent(c) == \E i \in DOMAIN log[c] : log[c][i] = "denied"

(* While an exclusive call runs its tool, no other call runs one, even     *)
(* though the decision to launch and the launch are separate critical      *)
(* sections and any thread may launch.  The one exception is a safe call   *)
(* that was denied after maybeDrain had launched it.                       *)
ExclusiveAlone ==
    \A c, d \in Calls :
        c # d /\ ~Safe(c) /\ go[c] = "running" /\ go[d] = "running" => Safe(d) /\ DeniedEvent(d)

Terminals(c) == {i \in DOMAIN log[c] : log[c][i] \in TerminalEvents}

AtMostOne(S) == \A i, j \in S : i = j

(* A call is started once, whichever goroutines decide to launch it; an    *)
(* exclusive one ends once in the journal and never starts after a denial. *)
OneExecution ==
    \A c \in Calls :
        /\ AtMostOne({i \in DOMAIN log[c] : log[c][i] = "started"})
        /\ ~Safe(c) => /\ AtMostOne(Terminals(c))
                       /\ DeniedEvent(c) => \A i \in DOMAIN log[c] : log[c][i] # "started"

(* The turn ends: the driving goroutine neither sleeps forever nor waits   *)
(* for an earlier sibling that runs until the failure of a later one       *)
(* aborts it (tools_executor.go:582).                                      *)
TurnEnds ==
    <>[](pc \in {"done", "abandoned"}
         \/ \E c \in Calls : kind[c] = "block" /\ \A d \in Calls : d > c => kind[d] # "fail")
=============================================================================
