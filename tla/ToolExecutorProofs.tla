------------------------- MODULE ToolExecutorProofs -------------------------
(***************************************************************************)
(* Proofs about ToolExecutor, for turns of any number of calls.            *)
(***************************************************************************)
EXTENDS ToolExecutor, TLAPS, WellFoundedInduction

States == {"absent", "queued", "executing"} \cup TerminalStates
Results == {"none", "ok", "denied"} \cup ErrorResults
Events == {"planned", "started"} \cup TerminalEvents

(* Where thread 0 resolves permissions, and where it has picked a call.    *)
Resolving == {"resolve", "deciding", "deny", "denying"}
Picked == {"deciding", "deny", "denying"}

Types ==
    /\ kind \in Turns
    /\ state \in [Calls -> States]
    /\ result \in [Calls -> Results]
    /\ granted \in SUBSET Calls /\ abort \in SUBSET Calls
    /\ cancelled \in BOOLEAN
    /\ todo \in [Threads -> SUBSET Calls]
    /\ at \in [Threads -> {"reserve", "journal", "start"}]
    /\ go \in [Calls -> GoStates]
    /\ log \in [Calls -> Seq(Events)]
    /\ next \in Nat \ {0}
    /\ pc \in Picked => next \in Calls

Active == {"entry", "acquire", "running", "ok", "error", "siblings", "others", "deferred"}
Launched(c) == go[c] # "none" \/ \E p \in Threads : c \in todo[p]
Started(c) == \E i \in DOMAIN log[c] : log[c][i] = "started"
Launching(p) == at[p] # "reserve"

(* The calls of the stream that are still to come.                         *)
ToCome ==
    /\ \A c \in Calls : state[c] = "absent" => ~Launched(c)
    /\ pc = "add" => /\ \A c \in Calls : c >= next => state[c] = "absent"
                     /\ granted = {}
                     /\ \A c \in Calls : ~DeniedEvent(c)

(* Who is in the middle of launch.                                         *)
Launches ==
    /\ \A c \in Calls : todo[c] # {} => go[c] = "launching"
    /\ \A p \in Threads : Launching(p) =>
        /\ todo[p] # {}
        /\ state[First(p)] \notin {"absent", "queued"}
        /\ go[First(p)] = "none"
        /\ at[p] = "journal" => ~Started(First(p))
        /\ \A q \in Threads : Launching(q) /\ First(q) = First(p) => q = p
    /\ \A c \in Calls : state[c] \in {"absent", "queued"} => ~Started(c) /\ go[c] = "none"

(* What has been launched was allowed to start.                            *)
Ordered ==
    \A c \in Calls : Launched(c) =>
        /\ Safe(c) \/ c \in granted
        /\ \A p \in 1..(c - 1) : state[p] \in TerminalStates \/ (Safe(c) /\ Safe(p))

(* What permission resolution has decided.                                 *)
Decided ==
    /\ pc \in Resolving => \A c \in granted : c < next
    /\ \A c \in Calls : DeniedEvent(c) =>
        /\ c \notin granted
        /\ pc \in {"resolve", "deciding", "deny"} => c < next
        /\ pc = "denying" => c <= next
    /\ pc = "denying" => cancelled \/ DeniedEvent(next)

(* A call that is finished for the others and still runs is one that was   *)
(* aborted, with everything else, or denied.                               *)
Overtaken ==
    \A c \in Calls : state[c] \in TerminalStates /\ go[c] \in Active => cancelled \/ DeniedEvent(c)

(* ExclusiveAlone, for calls that are about to run as well.                *)
Alone ==
    /\ \A c \in Calls : go[c] = "acquire" => Safe(c)
    /\ \A c, d \in Calls :
        c # d /\ ~Safe(c) /\ go[c] = "running" /\ go[d] \in {"acquire", "running"}
            => Safe(d) /\ DeniedEvent(d)

ExclusionInv == Types /\ ToCome /\ Launches /\ Ordered /\ Decided /\ Overtaken /\ Alone

(* The terminal events of a call.                                          *)
Journaled ==
    \A c \in Calls :
        /\ go[c] \notin {"drain", "launching", "done"}
              => \A i \in DOMAIN log[c] : log[c][i] \in TerminalEvents => log[c][i] = "denied"
        /\ \A i, j \in DOMAIN log[c] : log[c][i] = "started" /\ log[c][j] = "started" => i = j
        /\ ~Safe(c) => /\ \A i, j \in Terminals(c) : i = j
                       /\ Started(c) => c \in granted
-----------------------------------------------------------------------------
(* Every nonempty set of naturals has a least element, hence First names   *)
(* a call of the list.                                                     *)
LEMMA LeastElement ==
    ASSUME NEW T \in SUBSET Nat, T # {}
    PROVE  \E x \in T : \A y \in T : x <= y
<1>1. PICK x \in T : \A y \in T : ~ (<<y, x>> \in OpToRel(<, Nat))
    BY NatLessThanWellFounded, WFMin, Zenon
<1>2. \A y \in T : ~ (y < x)
    BY <1>1, Zenon DEF OpToRel
<1> QED
    BY <1>2

(* The calls of a turn are numbered from 1.                                *)
LEMMA CallsShape ==
    ASSUME kind \in Turns
    PROVE  /\ Calls \in SUBSET (Nat \ {0}) /\ 0 \notin Calls
           /\ \A c \in Calls : 1..(c - 1) \subseteq Calls
           /\ Calls \subseteq Threads /\ 0 \in Threads
<1>1. PICK n \in 1..MaxLoad : kind \in [1..n -> {"safe", "excl", "bash", "fail", "block"}]
    BY ToolExecutorAssumption, Zenon
<1>2. Calls = 1..n
    BY <1>1, Zenon DEF Calls
<1> QED
    BY <1>2, ToolExecutorAssumption DEF Threads

LEMMA FirstIn ==
    ASSUME Types, NEW p \in Threads, todo[p] # {}
    PROVE  First(p) \in todo[p] /\ First(p) \in Calls
<1>1. todo[p] \in SUBSET Calls /\ todo[p] \in SUBSET Nat
    BY CallsShape, Zenon DEF Types
<1>2. \E x \in todo[p] : \A y \in todo[p] : x <= y
    BY <1>1, LeastElement, Zenon
<1> QED
    BY <1>1, <1>2, Zenon DEF First

(* What maybeDrain launches can start.                                     *)
LEMMA DrainListCanStart ==
    ASSUME Types
    PROVE  /\ DrainList \in SUBSET Calls
           /\ \A c \in DrainList :
                /\ state[c] = "queued" /\ (Safe(c) \/ c \in granted)
                /\ \A p \in 1..(c - 1) : state[p] \in TerminalStates \/ (Safe(c) /\ Safe(p))
    BY Zenon DEF DrainList, CanStartImmediately, Types

(* What AbortSiblings does to the slots.                                   *)
LEMMA AbortSiblingsEffect ==
    ASSUME Types, NEW failed, AbortSiblings(failed)
    PROVE  /\ state' \in [Calls -> States] /\ result' \in [Calls -> Results]
           /\ abort' \in SUBSET Calls /\ cancelled' \in BOOLEAN
           /\ cancelled => cancelled'
           /\ \A c \in Calls :
                state'[c] # state[c] => /\ state[c] \in {"queued", "executing"}
                                        /\ state'[c] = "aborted" /\ cancelled'
<1> DEFINE out == {c \in Calls \ failed : /\ state[c] \in {"queued", "executing"}
                                          /\ SupportsSiblingAbort(c)}
<1>1. /\ abort' = abort \cup out
      /\ state' = [c \in Calls |-> IF c \in out THEN "aborted" ELSE state[c]]
      /\ result' = [c \in Calls |-> IF c \in out THEN "aborted" ELSE result[c]]
      /\ cancelled' = (cancelled \/ out # {})
    BY Zenon DEF AbortSiblings
<1>2. cancelled' \in BOOLEAN /\ (cancelled => cancelled') /\ (out # {} => cancelled')
    BY <1>1, Zenon
<1> HIDE DEF out
<1>3. out \in SUBSET Calls /\ \A c \in out : state[c] \in {"queued", "executing"}
    BY Zenon DEF out
<1> QED
    BY <1>1, <1>2, <1>3, Zenon DEF Types, States, Results, TerminalStates, ErrorResults

(* GetCompletedResults only hands out results of finished calls.           *)
LEMMA GetCompletedResultsEffect ==
    ASSUME Types, GetCompletedResults
    PROVE  /\ state' \in [Calls -> States]
           /\ \A c \in Calls : state'[c] # state[c] => /\ state[c] \in TerminalStates
                                                       /\ state'[c] = "yielded"
    BY Zenon DEF GetCompletedResults, Types, States, TerminalStates

(* The calls of the turn, and what their tools are, never change.          *)
LEMMA KindKept ==
    ASSUME Next
    PROVE  /\ kind' = kind /\ Calls' = Calls /\ Threads' = Threads
           /\ \A c : Safe(c)' = Safe(c)
<1>1. kind' = kind
    BY Zenon DEF Next, Main, Launch, ExecuteOne, Stop, PlanFails, AddTool, StreamEnds, Resolve,
           TryStartQueued, Deny, ToolDenied, DenyTool, LoopTop, RemainingTop, WaitForActivity,
           AfterDrain, Wake, Woken, Check, Collect, Gather, Deliver, Reserve, BeforeToolStart,
           BeforeToolStartFails, Start, Enter, Acquire, Return, FinishResult, Siblings, Others,
           Deferred, ToolFinished, MaybeDrain, SignalActivity
<1> QED
    BY <1>1, Zenon DEF Calls, Threads, Safe

LEMMA TypesInit == Init => Types
    BY CallsShape DEF Init, Types, States, Results, Events, Picked, GoStates, Calls, Threads

(* Each step keeps the types.                                              *)
LEMMA TypesStep ==
    ASSUME Types, Next
    PROVE  Types'
<1>0. kind' = kind /\ Calls' = Calls /\ Threads' = Threads /\ 0 \in Threads /\ Calls \subseteq Threads
    BY KindKept, CallsShape, Zenon DEF Types
<1>a. DrainList \in SUBSET Calls
    BY DrainListCanStart, Zenon
<1> USE <1>0 DEF Types, slotVars, mainVars, Picked
<1>1. CASE Stop
    BY <1>1, Zenon DEF Stop
<1>2. CASE PlanFails
    BY <1>2, Zenon DEF PlanFails, MainAt
<1>3. CASE AddTool
    <2>1. log' \in [Calls -> Seq(Events)] /\ state' \in [Calls -> States]
        BY <1>3 DEF AddTool, States, Events
    <2>2. todo' \in [Threads -> SUBSET Calls]
        BY <1>3, Zenon DEF AddTool
    <2> QED
        <3>1. next' = next + 1 /\ pc' = "add"
            BY <1>3, Zenon DEF AddTool, MainAt
        <3>2. UNCHANGED <<result, granted, abort, cancelled, at, go>>
            BY <1>3, Zenon DEF AddTool
        <3> QED
            BY <2>1, <2>2, <3>1, <3>2
<1>4. CASE StreamEnds
    BY <1>4, CallsShape DEF StreamEnds, MainAt
<1>5. CASE Resolve
    BY <1>5, CallsShape DEF Resolve, MainAt
<1>6. CASE TryStartQueued
    <2>1. todo' \in [Threads -> SUBSET Calls] /\ granted' \in SUBSET Calls
        <3>1. CASE state[next] = "queued"
            <4>1. todo' = [todo EXCEPT ![0] = {next}] \/ todo' = [todo EXCEPT ![0] = {}]
                BY <1>6, <3>1, Zenon DEF TryStartQueued
            <4>2. next \in Calls
                BY <1>6, Zenon DEF TryStartQueued, MainAt
            <4> QED
                BY <1>6, <3>1, <4>1, <4>2 DEF TryStartQueued
        <3> QED
            BY <1>6, <3>1, Zenon DEF TryStartQueued
    <2> QED
        BY <1>6, <2>1 DEF TryStartQueued, MainAt
<1>7. CASE Deny
    BY <1>7, Zenon DEF Deny, MainAt
<1>8. CASE ToolDenied
    <2>1. log' \in [Calls -> Seq(Events)] /\ cancelled' \in BOOLEAN
        <3>1. "denied" \in Events
            BY Zenon DEF Events, TerminalEvents
        <3>2. CASE log' = [log EXCEPT ![next] = Append(@, "denied")] /\ UNCHANGED cancelled
            <4>1. \A c \in Calls : Append(log[c], "denied") \in Seq(Events)
                BY <3>1
            <4> QED
                BY <3>2, <4>1, Zenon
        <3> QED
            BY <1>8, <3>2, Zenon DEF ToolDenied
    <2> QED
        BY <1>8, <2>1, Zenon DEF ToolDenied, MainAt
<1>9. CASE DenyTool
    BY <1>9 DEF DenyTool, MainAt, States, TerminalStates, Results
<1>10. CASE LoopTop
    BY <1>10, GetCompletedResultsEffect, Zenon DEF LoopTop, MainAt
<1>11. CASE RemainingTop
    BY <1>11, Zenon DEF RemainingTop, MainAt
<1>12. CASE WaitForActivity
    <2>1. todo' = todo \/ todo' = [todo EXCEPT ![0] = DrainList]
        BY <1>12, Zenon DEF WaitForActivity
    <2>2. todo' \in [Threads -> SUBSET Calls]
        BY <1>a, <2>1, Zenon
    <2>3. pc' \in {"woken", "select", "drained"}
        BY <1>12, Zenon DEF WaitForActivity
    <2> QED
        BY <1>12, <2>2, <2>3, Zenon DEF WaitForActivity
<1>13. CASE AfterDrain
    BY <1>13, Zenon DEF AfterDrain, MainAt
<1>14. CASE Wake
    BY <1>14, Zenon DEF Wake, MainAt
<1>15. CASE Woken
    BY <1>15, <1>a DEF Woken, MainAt
<1>16. CASE Check
    BY <1>16, Zenon DEF Check, MainAt
<1>17. CASE Collect
    BY <1>17, GetCompletedResultsEffect, Zenon DEF Collect, MainAt
<1>18. CASE Gather
    BY <1>18, Zenon DEF Gather, MainAt
<1>19. CASE Deliver
    BY <1>19, AbortSiblingsEffect, Zenon DEF Deliver, MainAt
<1>20. ASSUME NEW p \in Threads, Launch(p) PROVE Types'
    <2> USE FirstIn
    <2>1. CASE Reserve(p)
        <3>1. First(p) \in Calls
            BY <2>1, Zenon DEF Reserve
        <3>2. state' \in [Calls -> States] /\ todo' \in [Threads -> SUBSET Calls]
            <4>1. CASE state[First(p)] = "queued"
                BY <2>1, <3>1, <4>1, Zenon DEF Reserve, States
            <4>2. CASE state[First(p)] # "queued"
                <5>1. state' = state /\ todo' = [todo EXCEPT ![p] = @ \ {First(p)}]
                    BY <2>1, <4>2, Zenon DEF Reserve
                <5> QED
                    BY <5>1, Zenon
            <4> QED
                BY <4>1, <4>2, Zenon
        <3>3. at' \in [Threads -> {"reserve", "journal", "start"}]
            BY <2>1, Zenon DEF Reserve
        <3> QED
            BY <2>1, <3>2, <3>3, Zenon DEF Reserve
    <2>2. CASE BeforeToolStart(p)
        BY <2>2 DEF BeforeToolStart, Events
    <2>3. CASE BeforeToolStartFails(p)
        <3>1. state' \in [Calls -> States] /\ result' \in [Calls -> Results]
            BY <2>3, Zenon DEF BeforeToolStartFails, States, TerminalStates, Results, ErrorResults
        <3>2. /\ todo' \in [Threads -> SUBSET Calls]
              /\ at' \in [Threads -> {"reserve", "journal", "start"}]
            BY <2>3, Zenon DEF BeforeToolStartFails
        <3> QED
            BY <2>3, <3>1, <3>2, Zenon DEF BeforeToolStartFails
    <2>4. CASE Start(p)
        BY <2>4, Zenon DEF Start, GoStates
    <2> QED
        BY <1>20, <2>1, <2>2, <2>3, <2>4, Zenon DEF Launch
<1>21. ASSUME NEW c \in Calls, ExecuteOne(c) PROVE Types'
    <2>1. CASE Enter(c)
        <3>1. go' \in [Calls -> GoStates] /\ result' \in [Calls -> Results]
            BY <2>1, Zenon DEF Enter, GoStates, Results, ErrorResults
        <3> QED
            BY <2>1, <3>1, Zenon DEF Enter
    <2>2. CASE Acquire(c)
        <3>1. go' \in [Calls -> GoStates] /\ result' \in [Calls -> Results]
            <4>1. CASE go' = [go EXCEPT ![c] = "running"] /\ UNCHANGED result
                BY <4>1, Zenon DEF GoStates
            <4>2. CASE /\ result' = [result EXCEPT ![c] = "cancelled"]
                       /\ go' = [go EXCEPT ![c] = "deferred"]
                BY <4>2, Zenon DEF GoStates, Results, ErrorResults
            <4> QED
                BY <2>2, <4>1, <4>2, Zenon DEF Acquire
        <3> QED
            BY <2>2, <3>1, Zenon DEF Acquire
    <2>3. CASE FinishResult(c)
        BY <2>3, Zenon DEF FinishResult, GoStates, Results, ErrorResults
    <2>4. CASE Siblings(c)
        BY <2>4, AbortSiblingsEffect, Zenon DEF Siblings, GoStates
    <2>5. CASE Others(c)
        BY <2>5, Zenon DEF Others, GoStates
    <2>6. CASE Deferred(c)
        BY <2>6, Zenon DEF Deferred, GoStates, States, TerminalStates
    <2>7. CASE ToolFinished(c)
        <3>1. log' \in [Calls -> Seq(Events)] /\ cancelled' \in BOOLEAN
            <4>1. CASE log' = [log EXCEPT ![c] = Append(@, go[c])] /\ UNCHANGED cancelled
                BY <2>7, <4>1 DEF ToolFinished, Events
            <4> QED
                BY <2>7, <4>1, Zenon DEF ToolFinished
        <3>2. go' \in [Calls -> GoStates]
            BY <2>7, Zenon DEF ToolFinished, GoStates
        <3> QED
            BY <2>7, <3>1, <3>2, Zenon DEF ToolFinished
    <2>8. CASE MaybeDrain(c)
        BY <2>8, <1>a, Zenon DEF MaybeDrain, GoStates
    <2>9. CASE SignalActivity(c)
        BY <2>9, Zenon DEF SignalActivity, GoStates
    <2> QED
        BY <1>21, <2>1, <2>2, <2>3, <2>4, <2>5, <2>6, <2>7, <2>8, <2>9, Zenon DEF ExecuteOne
<1>22. ASSUME NEW c \in Calls, NEW r \in {"ok", "error", "panic"}, Return(c, r) PROVE Types'
    BY <1>22, Zenon DEF Return, GoStates, Results, ErrorResults
<1> QED
    BY <1>1, <1>2, <1>3, <1>4, <1>5, <1>6, <1>7, <1>8, <1>9, <1>10, <1>11, <1>12, <1>13, <1>14, <1>15,
       <1>16, <1>17, <1>18, <1>19, <1>20, <1>21, <1>22, Zenon DEF Next, Main
-----------------------------------------------------------------------------
(* What every step does to the slots, the goroutines and the journal: the  *)
(* invariant needs no more than this.                                      *)
CanRun(c) ==
    /\ Safe(c) \/ c \in granted
    /\ \A p \in 1..(c - 1) : state[p] \in TerminalStates \/ (Safe(c) /\ Safe(p))

SlotsAdvance ==
    \A c \in Calls :
        /\ state[c] \in TerminalStates => state'[c] \in TerminalStates
        /\ state'[c] = "absent" => state[c] = "absent"
        /\ pc' = "add" /\ c >= next' /\ state[c] = "absent" => state'[c] = "absent"
        /\ state[c] \notin TerminalStates /\ state'[c] \in TerminalStates
              => cancelled' \/ go'[c] \notin Active \/ (pc = "denying" /\ c = next)

ThreadsAdvance ==
    \A c \in Calls :
        /\ Launched(c)' => Launched(c) \/ (state'[c] = "queued" /\ CanRun(c)')
        /\ go'[c] \in Active => go[c] \in Active \/ state'[c] = "executing"
        /\ go'[c] \in {"acquire", "running"} =>
              \/ go[c] = go'[c]
              \/ go[c] = "acquire"
              \/ /\ go[c] = "entry" /\ ~cancelled /\ (go'[c] = "acquire" => Safe(c))
                 /\ \A d \in Calls : d # c => go'[d] = go[d]

LaunchesAdvance ==
    /\ \A c \in Calls : todo'[c] # {} => go'[c] = "launching"
    /\ \A p \in Threads : Launching(p)' =>
        /\ todo'[p] = todo[p]
        /\ \/ Launching(p) /\ (at'[p] = "journal" => at[p] = "journal")
           \/ /\ todo[p] # {} /\ state[First(p)] = "queued" /\ state'[First(p)] = "executing"
              /\ UNCHANGED <<go, log>> /\ \A q \in Threads : q # p => at'[q] = at[q]
    /\ \A c \in Calls :
        /\ state'[c] \in {"absent", "queued"} => state[c] \in {"absent", "queued"}
        /\ go'[c] # "none" => \/ go[c] # "none"
                              \/ /\ state[c] = "executing"
                                 /\ \E p \in Threads : Launching(p) /\ First(p) = c /\ ~Launching(p)'
        /\ go[c] \in {"drain", "launching", "done"} => go'[c] \in {"drain", "launching", "done"}

(* The event that a step appends to the journal of a call.                 *)
Appends(c, e) ==
    /\ log' = [log EXCEPT ![c] = Append(@, e)]
    /\ \/ /\ e = "started" /\ UNCHANGED <<state, go>>
          /\ \E p \in Threads : at[p] = "journal" /\ First(p) = c /\ at'[p] = "start"
       \/ e = "denied" /\ pc = "deny" /\ pc' = "denying" /\ c = next /\ next' = next /\ UNCHANGED go
       \/ e # "denied" /\ e \in TerminalEvents /\ go[c] = e /\ go'[c] = "drain"

JournalAdvances ==
    \/ UNCHANGED log
    \/ \E c \in Calls : \E e \in Events : Appends(c, e)
    \/ /\ pc = "add" /\ next \in Calls /\ log' = [log EXCEPT ![next] = <<"planned">>]
       /\ UNCHANGED go

DecisionsAdvance ==
    /\ granted \subseteq granted' /\ (cancelled => cancelled')
    /\ \A c \in granted' : c \in granted \/ (pc = "deciding" /\ c = next /\ pc' = "resolve" /\ next' = next + 1)
    /\ pc' = "add" => pc = "add" /\ next' \in {next, next + 1}
    /\ pc' \in Resolving =>
          \/ pc = "add" /\ pc' = "resolve"
          \/ pc \in Resolving /\ next' = next /\ (pc' = "denying" => pc \in {"deny", "denying"}) /\ (pc = "denying" => pc' = "denying")
          \/ pc \in Resolving /\ next' = next + 1 /\ pc' = "resolve"
    /\ pc' = "denying" => pc = "denying" \/ cancelled' \/ DeniedEvent(next)'

(* The entries of a journal to which one event is appended.                *)
LEMMA AppendEntries ==
    ASSUME NEW s \in Seq(Events), NEW e
    PROVE  /\ DOMAIN Append(s, e) = DOMAIN s \cup {Len(s) + 1}
           /\ Len(s) + 1 \notin DOMAIN s
           /\ \A i \in DOMAIN s : Append(s, e)[i] = s[i]
           /\ Append(s, e)[Len(s) + 1] = e
    OBVIOUS

(* Which calls have a denial, or a start, in the journal after a step.     *)
LEMMA JournalStep ==
    ASSUME Types, Types', Next, ToCome, Launches, JournalAdvances
    PROVE  \A c \in Calls :
             /\ DeniedEvent(c) => DeniedEvent(c)'
             /\ DeniedEvent(c)' => \/ DeniedEvent(c)
                                   \/ pc = "deny" /\ pc' = "denying" /\ c = next /\ next' = next
             /\ Started(c)' => \/ Started(c)
                               \/ \E p \in Threads : /\ at[p] = "journal" /\ First(p) = c
                                                     /\ at'[p] = "start"
<1>1. CASE UNCHANGED log
    BY <1>1, Zenon DEF DeniedEvent, Started
<1>2. ASSUME NEW d \in Calls, NEW e \in Events, Appends(d, e), NEW c \in Calls
      PROVE  /\ DeniedEvent(c) => DeniedEvent(c)'
             /\ DeniedEvent(c)' => \/ DeniedEvent(c)
                                   \/ pc = "deny" /\ pc' = "denying" /\ c = next /\ next' = next
             /\ Started(c)' => \/ Started(c)
                               \/ \E p \in Threads : /\ at[p] = "journal" /\ First(p) = c
                                                     /\ at'[p] = "start"
    <2>1. log[c] \in Seq(Events) /\ log'[c] = IF c = d THEN Append(log[c], e) ELSE log[c]
        BY <1>2, Zenon DEF Appends, Types
    <2>2. CASE c # d
        BY <2>1, <2>2, Zenon DEF DeniedEvent, Started
    <2>3. CASE c = d
        <3>1. log'[c] = Append(log[c], e)
            BY <2>1, <2>3, Zenon
        <3>2. DeniedEvent(c) => DeniedEvent(c)'
            BY <2>1, <3>1, AppendEntries DEF DeniedEvent
        <3>3. DeniedEvent(c)' => DeniedEvent(c) \/ e = "denied"
            BY <2>1, <3>1, AppendEntries DEF DeniedEvent
        <3>4. Started(c)' => Started(c) \/ e = "started"
            BY <2>1, <3>1, AppendEntries DEF Started
        <3> QED
            BY <1>2, <2>3, <3>2, <3>3, <3>4, Zenon DEF Appends, TerminalEvents
    <2> QED
        BY <2>2, <2>3, Zenon
<1>3. CASE pc = "add" /\ next \in Calls /\ log' = [log EXCEPT ![next] = <<"planned">>]
    <2>1. \A c \in Calls : log'[c] = IF c = next THEN <<"planned">> ELSE log[c]
        BY <1>3, Zenon DEF Types
    <2>2. \A c \in Calls : ~DeniedEvent(c)
        BY <1>3, Zenon DEF ToCome
    <2> QED
        BY <2>1, <2>2 DEF DeniedEvent, Started
<1> QED
    BY <1>1, <1>2, <1>3, Zenon DEF JournalAdvances

LEMMA LaunchesStep ==
    ASSUME Types, Types', Next, ToCome, Launches, LaunchesAdvance, JournalAdvances
    PROVE  Launches'
<1>1. Calls' = Calls /\ Threads' = Threads
    BY KindKept, Zenon
<1>2. \A p \in Threads : Launching(p)' => First(p)' = First(p)
    BY Zenon DEF LaunchesAdvance, First
<1>3. \A c \in Calls : state'[c] \in {"absent", "queued"} => ~Started(c)' /\ go'[c] = "none"
    <2>1. SUFFICES ASSUME NEW c \in Calls, state'[c] \in {"absent", "queued"}
                   PROVE  ~Started(c)' /\ go'[c] = "none"
        BY Zenon
    <2>2. state[c] \in {"absent", "queued"} /\ ~Started(c) /\ go[c] = "none"
        BY <2>1, Zenon DEF LaunchesAdvance, Launches
    <2>3. go'[c] = "none"
        BY <2>2, Zenon DEF LaunchesAdvance
    <2>4. ~Started(c)'
        <3>1. ASSUME NEW p \in Threads, at[p] = "journal", First(p) = c PROVE FALSE
            BY <2>2, <3>1, Zenon DEF Launches, Launching
        <3> QED
            BY <2>2, <3>1, JournalStep, Zenon
    <2> QED
        BY <2>3, <2>4, Zenon
<1>4. ASSUME NEW p \in Threads, Launching(p)'
      PROVE  /\ todo'[p] # {}
             /\ state'[First(p)] \notin {"absent", "queued"}
             /\ go'[First(p)] = "none"
             /\ at'[p] = "journal" => ~Started(First(p))'
             /\ \A q \in Threads : Launching(q)' /\ First(q) = First(p) => q = p
    <2>1. todo'[p] = todo[p]
        BY <1>4, Zenon DEF LaunchesAdvance
    <2>2. CASE Launching(p) /\ (at'[p] = "journal" => at[p] = "journal")
        <3>1. /\ todo[p] # {} /\ First(p) \in Calls
              /\ state[First(p)] \notin {"absent", "queued"}
              /\ go[First(p)] = "none"
              /\ at[p] = "journal" => ~Started(First(p))
              /\ \A q \in Threads : Launching(q) /\ First(q) = First(p) => q = p
            BY <2>2, FirstIn, Zenon DEF Launches
        <3>2. state'[First(p)] \notin {"absent", "queued"}
            BY <3>1, Zenon DEF LaunchesAdvance
        <3>3. go'[First(p)] = "none"
            BY <3>1, <1>4, Zenon DEF LaunchesAdvance
        <3>4. at'[p] = "journal" => ~Started(First(p))'
            <4>1. SUFFICES ASSUME at'[p] = "journal", Started(First(p))' PROVE FALSE
                BY Zenon
            <4>2. First(p)' = First(p)
                BY <1>2, <1>4, Zenon
            <4>3. PICK q \in Threads : at[q] = "journal" /\ First(q) = First(p) /\ at'[q] = "start"
                BY <2>2, <3>1, <4>1, <4>2, JournalStep, Zenon DEF Started
            <4> QED
                BY <3>1, <4>1, <4>3, Zenon DEF Launching
        <3>5. ASSUME NEW q \in Threads, Launching(q)', First(q) = First(p) PROVE q = p
            <4>1. CASE Launching(q)
                BY <3>1, <3>5, <4>1, Zenon
            <4>2. CASE state[First(q)] = "queued"
                BY <3>1, <3>5, <4>2, Zenon
            <4> QED
                BY <3>5, <4>1, <4>2, Zenon DEF LaunchesAdvance
        <3> QED
            BY <2>1, <3>1, <3>2, <3>3, <3>4, <3>5, Zenon
    <2>3. CASE /\ todo[p] # {} /\ state[First(p)] = "queued" /\ state'[First(p)] = "executing"
               /\ UNCHANGED <<go, log>> /\ \A q \in Threads : q # p => at'[q] = at[q]
        <3>1. First(p) \in Calls /\ go[First(p)] = "none" /\ ~Started(First(p))
            BY <2>3, FirstIn, Zenon DEF Launches
        <3>2. \A q \in Threads : Launching(q)' /\ First(q) = First(p) => q = p
            BY <2>3, Zenon DEF Launching, Launches
        <3>3. ~Started(First(p))'
            BY <1>2, <1>4, <2>3, <3>1, Zenon DEF Started
        <3> QED
            BY <2>1, <2>3, <3>1, <3>2, <3>3, Zenon
    <2> QED
        BY <1>4, <2>2, <2>3, Zenon DEF LaunchesAdvance
<1>5. \A c \in Calls : todo'[c] # {} => go'[c] = "launching"
    BY Zenon DEF LaunchesAdvance
<1>6. ASSUME NEW p \in Threads, Launching(p)'
      PROVE  /\ todo'[p] # {}
             /\ state'[First(p)'] \notin {"absent", "queued"}
             /\ go'[First(p)'] = "none"
             /\ at'[p] = "journal" => ~Started(First(p))'
             /\ \A q \in Threads : Launching(q)' /\ First(q)' = First(p)' => q = p
    BY <1>2, <1>4, <1>6, Zenon
<1> QED
    BY <1>1, <1>3, <1>5, <1>6, Zenon DEF Launches

LEMMA JournaledStep ==
    ASSUME Types, Types', Next, ToCome, Launches, Ordered, Decided, Journaled,
           DecisionsAdvance, LaunchesAdvance, JournalAdvances
    PROVE  Journaled'
<1>1. Calls' = Calls /\ \A c : Safe(c)' = Safe(c)
    BY KindKept, Zenon
<1>2. SUFFICES ASSUME NEW c \in Calls
      PROVE  /\ go'[c] \notin {"drain", "launching", "done"}
                  => \A i \in DOMAIN log'[c] : log'[c][i] \in TerminalEvents => log'[c][i] = "denied"
             /\ \A i, j \in DOMAIN log'[c] : log'[c][i] = "started" /\ log'[c][j] = "started" => i = j
             /\ ~Safe(c) => /\ \A i, j \in Terminals(c)' : i = j
                            /\ Started(c)' => c \in granted'
    BY <1>1, Zenon DEF Journaled
<1>3. granted \subseteq granted' /\ log[c] \in Seq(Events)
    BY Zenon DEF DecisionsAdvance, Types
<1>4. go'[c] \notin {"drain", "launching", "done"} => go[c] \notin {"drain", "launching", "done"}
    BY Zenon DEF LaunchesAdvance
<1>5. CASE log'[c] = log[c]
    BY <1>3, <1>4, <1>5 DEF Journaled, Terminals, Started
<1>6. ASSUME NEW e \in Events, Appends(c, e), log'[c] = Append(log[c], e)
      PROVE  /\ go'[c] \notin {"drain", "launching", "done"}
                  => \A i \in DOMAIN log'[c] : log'[c][i] \in TerminalEvents => log'[c][i] = "denied"
             /\ \A i, j \in DOMAIN log'[c] : log'[c][i] = "started" /\ log'[c][j] = "started" => i = j
             /\ ~Safe(c) => /\ \A i, j \in Terminals(c)' : i = j
                            /\ Started(c)' => c \in granted'
    <2>1. /\ DOMAIN log'[c] = DOMAIN log[c] \cup {Len(log[c]) + 1}
          /\ Len(log[c]) + 1 \notin DOMAIN log[c]
          /\ \A i \in DOMAIN log[c] : log'[c][i] = log[c][i]
          /\ log'[c][Len(log[c]) + 1] = e
        BY <1>3, <1>6, AppendEntries
    <2> DEFINE n == Len(log[c]) + 1
    <2> HIDE DEF n
    <2>a. /\ DOMAIN log'[c] = DOMAIN log[c] \cup {n}
          /\ \A i \in DOMAIN log[c] : log'[c][i] = log[c][i]
          /\ log'[c][n] = e
        BY <2>1, Zenon DEF n
    <2>2. CASE e = "started"
        <3>1. PICK p \in Threads : at[p] = "journal" /\ First(p) = c
            BY <1>6, <2>2, Zenon DEF Appends, TerminalEvents
        <3>2. ~Started(c) /\ c \in todo[p]
            BY <3>1, FirstIn, Zenon DEF Launches, Launching
        <3>3. ~Safe(c) => c \in granted
            BY <3>2, Zenon DEF Ordered, Launched
        <3>4. \A i, j \in DOMAIN log'[c] : log'[c][i] = "started" /\ log'[c][j] = "started" => i = j
            BY <2>a, <3>2, Zenon DEF Started
        <3>5. Terminals(c)' = Terminals(c)
            BY <2>a, <2>2, Zenon DEF Terminals, TerminalEvents
        <3>6. go'[c] \notin {"drain", "launching", "done"}
                  => \A i \in DOMAIN log'[c] : log'[c][i] \in TerminalEvents => log'[c][i] = "denied"
            BY <1>4, <2>a, <2>2, Zenon DEF Journaled, TerminalEvents
        <3> QED
            BY <1>3, <3>3, <3>4, <3>5, <3>6, Zenon DEF Journaled
    <2>3. CASE e # "started"
        <3>1. Started(c)' => Started(c)
            BY <2>a, <2>3, Zenon DEF Started
        <3>2. \A i, j \in DOMAIN log'[c] : log'[c][i] = "started" /\ log'[c][j] = "started" => i = j
            BY <2>a, <2>3 DEF Journaled
        <3>3. e = "denied" \/ go'[c] = "drain"
            BY <1>6, <2>3, Zenon DEF Appends
        <3>4. go'[c] \notin {"drain", "launching", "done"}
                  => \A i \in DOMAIN log'[c] : log'[c][i] \in TerminalEvents => log'[c][i] = "denied"
            BY <1>4, <2>a, <3>3, Zenon DEF Journaled
        <3>5. ASSUME ~Safe(c) PROVE Terminals(c) = {}
            <4>1. CASE e = "denied" /\ pc = "deny" /\ c = next
                <5>1. c \notin granted /\ ~DeniedEvent(c)
                    BY <4>1 DEF Decided, Resolving, Types
                <5>2. go[c] = "none"
                    BY <3>5, <5>1, Zenon DEF Ordered, Launched
                <5> QED
                    BY <5>1, <5>2, Zenon DEF Journaled, DeniedEvent, Terminals
            <4>2. CASE e # "denied" /\ e \in TerminalEvents /\ go[c] = e
                <5>1. c \in granted /\ go[c] \notin {"drain", "launching", "done"}
                    BY <3>5, <4>2, Zenon DEF Ordered, Launched, TerminalEvents
                <5>2. ~DeniedEvent(c)
                    BY <5>1, Zenon DEF Decided
                <5> QED
                    BY <5>1, <5>2, Zenon DEF Journaled, DeniedEvent, Terminals
            <4> QED
                BY <1>6, <2>3, <4>1, <4>2, Zenon DEF Appends
        <3>6. ASSUME ~Safe(c) PROVE \A i, j \in Terminals(c)' : i = j
            BY <2>a, <3>5, <3>6, Zenon DEF Terminals
        <3> QED
            BY <1>3, <3>1, <3>2, <3>4, <3>6, Zenon DEF Journaled
    <2> QED
        BY <2>2, <2>3, Zenon
<1>7. CASE log'[c] = <<"planned">>
    <2>1. DOMAIN log'[c] = {1} /\ log'[c][1] = "planned"
        BY <1>7
    <2> QED
        BY <2>1, Zenon DEF Terminals, TerminalEvents, Started
<1>8. ASSUME NEW d \in Calls, NEW e \in Events, Appends(d, e)
      PROVE  (c = d /\ log'[c] = Append(log[c], e)) \/ log'[c] = log[c]
    BY <1>8, Zenon DEF Appends, Types
<1>9. log' = [log EXCEPT ![next] = <<"planned">>] => log'[c] \in {<<"planned">>, log[c]}
    BY Zenon DEF Types
<1> QED
    BY <1>5, <1>6, <1>7, <1>8, <1>9, Zenon DEF JournalAdvances

LEMMA AdvanceKeeps ==
    ASSUME Types, Types', Next, SlotsAdvance, ThreadsAdvance, DecisionsAdvance, JournalAdvances,
           ToCome, Launches, Ordered, Decided, Overtaken, Alone
    PROVE  ToCome' /\ Ordered' /\ Decided' /\ Overtaken' /\ Alone'
<1>1. Calls' = Calls /\ Threads' = Threads /\ \A c : Safe(c)' = Safe(c)
    BY KindKept, Zenon
<1>2. /\ Calls \in SUBSET (Nat \ {0}) /\ next \in Nat /\ next' \in Nat
      /\ \A c \in Calls : 1..(c - 1) \subseteq Calls
    BY CallsShape, Zenon DEF Types
<1>3. \A c \in Calls : state[c] \in States /\ state'[c] \in States
    BY <1>1, Zenon DEF Types
<1>a. \A c \in Calls :
        /\ DeniedEvent(c) => DeniedEvent(c)'
        /\ DeniedEvent(c)' => \/ DeniedEvent(c)
                              \/ pc = "deny" /\ pc' = "denying" /\ c = next /\ next' = next
    BY JournalStep, Zenon
<1>4. ToCome'
    <2>1. ASSUME NEW c \in Calls, state'[c] = "absent" PROVE ~Launched(c)'
        BY <2>1, Zenon DEF SlotsAdvance, ThreadsAdvance, ToCome
    <2>2. ASSUME pc' = "add"
          PROVE  /\ \A c \in Calls : c >= next' => state'[c] = "absent"
                 /\ granted' = {}
                 /\ \A c \in Calls : ~DeniedEvent(c)'
        <3>1. pc = "add" /\ next' \in {next, next + 1}
            BY <2>2, Zenon DEF DecisionsAdvance
        <3>2. \A c \in Calls : c >= next' => state[c] = "absent"
            BY <3>1, <1>2 DEF ToCome
        <3>3. \A c \in Calls : c >= next' => state'[c] = "absent"
            BY <3>2, <2>2, Zenon DEF SlotsAdvance
        <3>4. granted' = {} /\ \A c \in Calls : ~DeniedEvent(c)'
            BY <1>a, <3>1, Zenon DEF DecisionsAdvance, ToCome
        <3> QED
            BY <3>3, <3>4, Zenon
    <2> QED
        BY <1>1, <2>1, <2>2, Zenon DEF ToCome
<1>5. Ordered'
    <2>1. ASSUME NEW c \in Calls, Launched(c)' PROVE CanRun(c)'
        <3>1. CASE Launched(c)
            <4>1. CanRun(c)
                BY <3>1, Zenon DEF Ordered, CanRun
            <4> QED
                BY <4>1, <1>1, <1>2, Zenon DEF CanRun, SlotsAdvance, DecisionsAdvance
        <3> QED
            BY <2>1, <3>1, Zenon DEF ThreadsAdvance
    <2> QED
        BY <1>1, <2>1, Zenon DEF Ordered, CanRun
<1>6. Decided'
    <2>1. pc' \in Resolving => \A c \in granted' : c < next'
        BY <1>2 DEF Decided, DecisionsAdvance, ToCome, Types, Resolving
    <2>2. ASSUME NEW c \in Calls, DeniedEvent(c)'
          PROVE  /\ c \notin granted'
                 /\ pc' \in {"resolve", "deciding", "deny"} => c < next'
                 /\ pc' = "denying" => c <= next'
        <3>1. CASE DeniedEvent(c)
            <4>1. c \notin granted /\ pc # "add"
                BY <3>1, Zenon DEF Decided, ToCome
            <4>2. c \notin granted'
                BY <1>2, <3>1, <4>1 DEF DecisionsAdvance, Decided
            <4> QED
                BY <1>2, <3>1, <4>1, <4>2 DEF DecisionsAdvance, Decided, Resolving
        <3>2. CASE pc = "deny" /\ pc' = "denying" /\ c = next /\ next' = next
            BY <1>2, <3>2 DEF DecisionsAdvance, Decided, Resolving
        <3> QED
            BY <1>a, <2>2, <3>1, <3>2, Zenon
    <2>3. ASSUME pc' = "denying" PROVE cancelled' \/ DeniedEvent(next)'
        <3>1. CASE pc = "denying"
            <4>1. next' = next /\ next \in Calls
                BY <1>2, <2>3, <3>1, Zenon DEF DecisionsAdvance, Resolving, Types, Picked
            <4> QED
                BY <1>a, <3>1, <4>1, Zenon DEF Decided, DecisionsAdvance
        <3> QED
            BY <2>3, <3>1, Zenon DEF DecisionsAdvance
    <2> QED
        BY <1>1, <2>1, <2>2, <2>3, Zenon DEF Decided
<1>7. Overtaken'
    <2>1. ASSUME NEW c \in Calls, state'[c] \in TerminalStates, go'[c] \in Active
          PROVE  cancelled' \/ DeniedEvent(c)'
        <3>1. go[c] \in Active
            BY <2>1, Zenon DEF ThreadsAdvance, TerminalStates
        <3>2. CASE state[c] \in TerminalStates
            BY <1>a, <3>1, <3>2, Zenon DEF Overtaken, DecisionsAdvance
        <3>3. CASE pc = "denying" /\ c = next
            BY <1>a, <3>3, Zenon DEF Decided, DecisionsAdvance
        <3> QED
            BY <2>1, <3>2, <3>3, Zenon DEF SlotsAdvance
    <2> QED
        BY <1>1, <2>1, Zenon DEF Overtaken
<1>8. Alone'
    <2>1. ASSUME NEW c \in Calls, go'[c] = "acquire" PROVE Safe(c)
        BY <2>1, Zenon DEF ThreadsAdvance, Alone
    <2>2. ASSUME NEW c \in Calls, NEW d \in Calls, c # d, ~Safe(c), ~cancelled,
                 go[c] \in Active, go[d] \in Active
          PROVE  Safe(d) /\ DeniedEvent(d)
        <3>1. c \in granted /\ Launched(c) /\ Launched(d)
            BY <2>2, Zenon DEF Ordered, Launched, Active
        <3>2. ~DeniedEvent(c)
            BY <3>1, Zenon DEF Decided
        <3>3. CASE c < d
            <4>1. c \in 1..(d - 1)
                BY <1>2, <3>3
            <4>2. state[c] \in TerminalStates
                BY <2>2, <3>1, <4>1, Zenon DEF Ordered
            <4> QED
                BY <2>2, <3>2, <4>2, Zenon DEF Overtaken
        <3>4. CASE d < c
            <4>1. d \in 1..(c - 1)
                BY <1>2, <3>4
            <4>2. state[d] \in TerminalStates
                BY <2>2, <3>1, <4>1, Zenon DEF Ordered
            <4>3. DeniedEvent(d)
                BY <2>2, <4>2, Zenon DEF Overtaken
            <4> QED
                BY <3>1, <4>3, Zenon DEF Decided, Ordered
        <3> QED
            BY <1>2, <2>2, <3>3, <3>4
    <2>3. ASSUME NEW c \in Calls, NEW d \in Calls, c # d, ~Safe(c), go'[c] = "running",
                 go'[d] \in {"acquire", "running"}
          PROVE  Safe(d) /\ DeniedEvent(d)
        <3>1. go[c] # "acquire"
            BY <2>3, Zenon DEF Alone
        <3>2. CASE go[c] = "running" /\ go[d] \in {"acquire", "running"}
            BY <2>3, <3>2, Zenon DEF Alone
        <3>3. CASE go[c] = "entry" /\ ~cancelled /\ go[d] = go'[d]
            BY <2>2, <2>3, <3>3, Zenon DEF Active
        <3>4. CASE go[d] = "entry" /\ ~cancelled /\ go[c] = go'[c]
            BY <2>2, <2>3, <3>4, Zenon DEF Active
        <3> QED
            BY <2>3, <3>1, <3>2, <3>3, <3>4, Zenon DEF ThreadsAdvance
    <2> QED
        BY <1>1, <1>a, <2>1, <2>3, Zenon DEF Alone
<1> QED
    BY <1>4, <1>5, <1>6, <1>7, <1>8, Zenon

-----------------------------------------------------------------------------
(* Each step advances in this way.                                         *)
Advance == SlotsAdvance /\ ThreadsAdvance /\ LaunchesAdvance /\ JournalAdvances /\ DecisionsAdvance

(* Steps of a goroutine that is not thread 0 decide nothing.               *)
LEMMA NoDecision ==
    ASSUME Types, UNCHANGED <<granted, pc, next>>, cancelled => cancelled'
    PROVE  DecisionsAdvance
    BY Zenon DEF DecisionsAdvance, Resolving

(* Steps that leave slots, lists, goroutines and journal alone.            *)
LEMMA StillSteps ==
    ASSUME Types, Next, Launches, UNCHANGED <<state, todo, at, go, log>>, granted \subseteq granted'
    PROVE  SlotsAdvance /\ ThreadsAdvance /\ LaunchesAdvance /\ JournalAdvances
<1>1. Calls' = Calls /\ Threads' = Threads
    BY KindKept, Zenon
<1>2. SlotsAdvance
    BY Zenon DEF SlotsAdvance
<1>3. ThreadsAdvance
    BY <1>1, Zenon DEF ThreadsAdvance, Launched
<1>4. LaunchesAdvance
    BY <1>1, Zenon DEF LaunchesAdvance, Launches, Launching
<1> QED
    BY <1>2, <1>3, <1>4, Zenon DEF JournalAdvances

LEMMA StillMainSteps ==
    ASSUME Types, Next, Launches,
           Stop \/ PlanFails \/ StreamEnds \/ Resolve \/ Deny \/ RemainingTop \/ AfterDrain
             \/ Wake \/ Check \/ Gather
    PROVE  Advance
<1>1. /\ UNCHANGED <<state, todo, at, go, log, granted>> /\ (cancelled => cancelled')
      /\ DecisionsAdvance
    <2> USE DEF DecisionsAdvance, Resolving, Types, slotVars, mainVars
    <2>1. CASE Stop
        BY <2>1, Zenon DEF Stop
    <2>2. CASE PlanFails
        BY <2>2, Zenon DEF PlanFails
    <2>3. CASE StreamEnds
        BY <2>3, Zenon DEF StreamEnds, MainAt
    <2>4. CASE Resolve
        BY <2>4, Zenon DEF Resolve, MainAt
    <2>5. CASE Deny
        BY <2>5, Zenon DEF Deny, MainAt
    <2>6. CASE RemainingTop
        BY <2>6, Zenon DEF RemainingTop
    <2>7. CASE AfterDrain
        BY <2>7, Zenon DEF AfterDrain
    <2>8. CASE Wake
        BY <2>8, Zenon DEF Wake
    <2>9. CASE Check
        BY <2>9, Zenon DEF Check
    <2>10. CASE Gather
        BY <2>10, Zenon DEF Gather
    <2> QED
        BY <2>1, <2>2, <2>3, <2>4, <2>5, <2>6, <2>7, <2>8, <2>9, <2>10, Zenon
<1> QED
    BY <1>1, StillSteps, Zenon DEF Advance

(* Steps of executeOne up to its deferred function.                        *)
LEMMA GoSteps ==
    ASSUME Types, Next, Launches, NEW c \in Calls, NEW v \in Active, go[c] \in Active,
           go' = [go EXCEPT ![c] = v],
           v \in {"acquire", "running"} =>
               \/ go[c] = "acquire"
               \/ go[c] = "entry" /\ ~cancelled /\ (v = "acquire" => Safe(c)),
           UNCHANGED <<state, granted, todo, at, log, pc, next>>, cancelled => cancelled'
    PROVE  Advance
<1>1. Calls' = Calls /\ Threads' = Threads
    BY KindKept, Zenon
<1>2. \A d \in Calls : go'[d] = IF d = c THEN v ELSE go[d]
    BY Zenon DEF Types
<1>3. SlotsAdvance
    BY Zenon DEF SlotsAdvance
<1>4. ThreadsAdvance
    <2>1. \A d \in Calls : Launched(d)' => Launched(d)
        BY <1>1, <1>2, Zenon DEF Launched, Active
    <2> QED
        BY <1>2, <2>1, Zenon DEF ThreadsAdvance
<1>5. LaunchesAdvance
    <2>1. \A d \in Calls : todo'[d] # {} => go'[d] = "launching"
        BY <1>2, Zenon DEF Launches, Active
    <2> QED
        BY <1>1, <1>2, <2>1 DEF LaunchesAdvance, Launches, Launching, Active
<1>6. DecisionsAdvance
    BY NoDecision, Zenon
<1> QED
    BY <1>3, <1>4, <1>5, <1>6, Zenon DEF Advance, JournalAdvances

LEMMA ToolSteps ==
    ASSUME Types, Next, Launches, NEW c \in Calls,
           Enter(c) \/ Acquire(c) \/ FinishResult(c) \/ Others(c)
             \/ \E r \in {"ok", "error", "panic"} : Return(c, r)
    PROVE  Advance
<1> USE DEF Types, mainVars
<1>1. CASE Enter(c)
    <2> DEFINE v == go'[c]
    <2>1. go' = [go EXCEPT ![c] = v] /\ v \in {"deferred", "acquire", "running"}
        BY <1>1, Zenon DEF Enter
    <2>2. v \in {"acquire", "running"} => ~cancelled /\ (v = "acquire" => Safe(c))
        BY <1>1, Zenon DEF Enter, CtxDone
    <2>3. UNCHANGED <<state, granted, todo, at, log, pc, next>> /\ go[c] = "entry" /\ (cancelled => cancelled')
        BY <1>1, Zenon DEF Enter
    <2> HIDE DEF v
    <2> QED
        BY <2>1, <2>2, <2>3, GoSteps, Zenon DEF Active
<1>2. CASE Acquire(c)
    <2> DEFINE v == go'[c]
    <2>1. go' = [go EXCEPT ![c] = v] /\ v \in {"deferred", "running"}
        BY <1>2, Zenon DEF Acquire
    <2>2. UNCHANGED <<state, granted, todo, at, log, pc, next>> /\ go[c] = "acquire" /\ (cancelled => cancelled')
        BY <1>2, Zenon DEF Acquire
    <2> HIDE DEF v
    <2> QED
        BY <2>1, <2>2, GoSteps, Zenon DEF Active
<1>3. CASE FinishResult(c)
    <2> DEFINE v == go'[c]
    <2>1. go' = [go EXCEPT ![c] = v] /\ v \in {"siblings", "others", "deferred"}
        BY <1>3 DEF FinishResult
    <2>2. UNCHANGED <<state, granted, todo, at, log, pc, next>> /\ go[c] \in {"ok", "error"} /\ (cancelled => cancelled')
        BY <1>3, Zenon DEF FinishResult
    <2> HIDE DEF v
    <2> QED
        BY <2>1, <2>2, GoSteps, Zenon DEF Active
<1>4. CASE Others(c)
    <2>1. /\ UNCHANGED <<state, granted, todo, at, log, pc, next>> /\ go[c] = "others"
          /\ (cancelled => cancelled') /\ go' = [go EXCEPT ![c] = "deferred"]
        BY <1>4, Zenon DEF Others
    <2> QED
        BY <2>1, GoSteps, Zenon DEF Active
<1>5. ASSUME NEW r \in {"ok", "error", "panic"}, Return(c, r) PROVE Advance
    <2> DEFINE v == go'[c]
    <2>1. go' = [go EXCEPT ![c] = v] /\ v \in {"deferred", "ok", "error"}
        BY <1>5 DEF Return
    <2>2. UNCHANGED <<state, granted, todo, at, log, pc, next>> /\ go[c] = "running" /\ (cancelled => cancelled')
        BY <1>5, Zenon DEF Return
    <2> HIDE DEF v
    <2> QED
        BY <2>1, <2>2, GoSteps, Zenon DEF Active
<1> QED
    BY <1>1, <1>2, <1>3, <1>4, <1>5, Zenon

(* Steps that only change slots: what is finished stays so, what was never *)
(* added stays so, and only an abort or a denial finishes a call that runs.*)
LEMMA SlotSteps ==
    ASSUME Types, Types', Next, Launches, UNCHANGED <<granted, todo, at, go, log>>,
           \A c \in Calls : state'[c] # state[c] =>
               \/ state[c] \in TerminalStates /\ state'[c] \in TerminalStates
               \/ state'[c] = "aborted" /\ cancelled' /\ state[c] # "absent"
               \/ state'[c] = "completed" /\ pc = "denying" /\ c = next /\ pc' # "add"
    PROVE  SlotsAdvance /\ ThreadsAdvance /\ LaunchesAdvance /\ JournalAdvances
<1>1. Calls' = Calls /\ Threads' = Threads
    BY KindKept, Zenon
<1>2. SlotsAdvance
    BY Zenon DEF SlotsAdvance, TerminalStates
<1>3. ThreadsAdvance
    BY <1>1, Zenon DEF ThreadsAdvance, Launched
<1>4. LaunchesAdvance
    <2>1. \A c \in Calls : state'[c] \in {"absent", "queued"} => state[c] \in {"absent", "queued"}
        BY Zenon DEF TerminalStates
    <2> QED
        BY <1>1, <2>1, Zenon DEF LaunchesAdvance, Launches, Launching
<1> QED
    BY <1>2, <1>3, <1>4, Zenon DEF JournalAdvances

LEMMA SlotMainSteps ==
    ASSUME Types, Types', Next, Launches, LoopTop \/ Collect \/ Deliver \/ DenyTool
    PROVE  Advance
<1> USE DEF slotVars, mainVars
<1>1. CASE LoopTop
    <2>1. UNCHANGED <<granted, todo, at, go, log>> /\ DecisionsAdvance
        BY <1>1, Zenon DEF LoopTop, DecisionsAdvance, Resolving
    <2>2. \A c \in Calls : state'[c] # state[c] => state[c] \in TerminalStates /\ state'[c] \in TerminalStates
        <3>1. CASE GetCompletedResults
            BY <3>1, GetCompletedResultsEffect, Zenon DEF TerminalStates
        <3> QED
            BY <1>1, <3>1, Zenon DEF LoopTop
    <2> QED
        BY <2>1, <2>2, SlotSteps, Zenon DEF Advance
<1>2. CASE Collect
    <2>1. UNCHANGED <<granted, todo, at, go, log>> /\ DecisionsAdvance
        BY <1>2, Zenon DEF Collect, DecisionsAdvance, Resolving
    <2>2. \A c \in Calls : state'[c] # state[c] => state[c] \in TerminalStates /\ state'[c] \in TerminalStates
        BY <1>2, GetCompletedResultsEffect, Zenon DEF TerminalStates, Collect
    <2> QED
        BY <2>1, <2>2, SlotSteps, Zenon DEF Advance
<1>3. CASE Deliver
    <2>1. \A c \in Calls : state'[c] # state[c] => state'[c] = "aborted" /\ cancelled' /\ state[c] # "absent"
        <3>1. ASSUME NEW f, AbortSiblings(f)
              PROVE  \A c \in Calls : state'[c] # state[c] => state'[c] = "aborted" /\ cancelled' /\ state[c] # "absent"
            BY <3>1, AbortSiblingsEffect, Zenon
        <3> QED
            BY <1>3, <3>1, Zenon DEF Deliver
    <2>2. cancelled => cancelled'
        BY <1>3, AbortSiblingsEffect, Zenon DEF Deliver
    <2>3. UNCHANGED <<granted, todo, at, go, log>> /\ DecisionsAdvance
        BY <1>3, <2>2, Zenon DEF Deliver, DecisionsAdvance, Resolving
    <2> QED
        BY <2>1, <2>3, SlotSteps, Zenon DEF Advance
<1>4. CASE DenyTool
    <2>1. UNCHANGED <<granted, todo, at, go, log>> /\ DecisionsAdvance
        BY <1>4, Zenon DEF DenyTool, MainAt, DecisionsAdvance, Resolving
    <2>2. \A c \in Calls : state'[c] # state[c] => state'[c] = "completed" /\ pc = "denying" /\ c = next /\ pc' # "add"
        BY <1>4 DEF DenyTool, MainAt, Types
    <2> QED
        BY <2>1, <2>2, SlotSteps, Zenon DEF Advance
<1> QED
    BY <1>1, <1>2, <1>3, <1>4, Zenon

(* Steps with which a thread that launches nothing fills its list.         *)
LEMMA ListSteps ==
    ASSUME Types, Types', Next, Launches, NEW p \in Threads, NEW L \in SUBSET Calls,
           todo' = [todo EXCEPT ![p] = L], todo[p] = {},
           \A c \in L : state'[c] = "queued" /\ CanRun(c)',
           UNCHANGED <<state, at, log>>, granted \subseteq granted',
           \A c \in Calls : go'[c] = IF c = p THEN "launching" ELSE go[c],
           p \in Calls => go[p] = "drain"
    PROVE  SlotsAdvance /\ ThreadsAdvance /\ LaunchesAdvance /\ JournalAdvances
<1>1. Calls' = Calls /\ Threads' = Threads
    BY KindKept, Zenon
<1>2. \A q \in Threads : todo'[q] = IF q = p THEN L ELSE todo[q]
    BY Zenon DEF Types
<1>3. SlotsAdvance
    BY Zenon DEF SlotsAdvance
<1>4. ThreadsAdvance
    <2>1. \A c \in Calls : Launched(c)' => Launched(c) \/ c \in L
        BY <1>1, <1>2, Zenon DEF Launched
    <2> QED
        BY <2>1, Zenon DEF ThreadsAdvance, Active
<1>5. LaunchesAdvance
    <2>1. at[p] = "reserve"
        BY Zenon DEF Launches, Launching
    <2>2. \A q \in Threads : Launching(q)' => todo'[q] = todo[q] /\ Launching(q) /\ at'[q] = at[q]
        BY <1>2, <2>1, Zenon DEF Launching
    <2>3. \A c \in Calls : todo'[c] # {} => go'[c] = "launching"
        BY <1>2, CallsShape DEF Launches, Types
    <2> QED
        BY <1>1, <2>2, <2>3, Zenon DEF LaunchesAdvance
<1> QED
    BY <1>3, <1>4, <1>5, Zenon DEF JournalAdvances

LEMMA DrainSteps ==
    ASSUME Types, Types', Next, Launches, WaitForActivity \/ Woken \/ \E c \in Calls : MaybeDrain(c)
    PROVE  Advance
<1> USE DEF slotVars, mainVars
<1>1. /\ Calls' = Calls /\ 0 \notin Calls /\ 0 \in Threads /\ Calls \subseteq Threads
      /\ \A c : Safe(c)' = Safe(c)
    BY KindKept, CallsShape, Zenon DEF Types
<1>2. ASSUME UNCHANGED <<state, granted>>
      PROVE  \A c \in DrainList : state'[c] = "queued" /\ CanRun(c)'
    BY <1>1, <1>2, DrainListCanStart, Zenon DEF CanRun
<1>3. DrainList \in SUBSET Calls
    BY DrainListCanStart, Zenon
<1>4. CASE WaitForActivity
    <2>1. UNCHANGED <<state, granted, at, log, go, cancelled>> /\ DecisionsAdvance /\ todo[0] = {}
        BY <1>4, Zenon DEF WaitForActivity, MainAt, DecisionsAdvance, Resolving
    <2>2. CASE todo' = todo
        BY <2>1, <2>2, StillSteps, Zenon DEF Advance
    <2>3. CASE todo' = [todo EXCEPT ![0] = DrainList]
        BY <1>1, <1>2, <1>3, <2>1, <2>3, ListSteps, Zenon DEF Advance
    <2> QED
        BY <1>4, <2>2, <2>3, Zenon DEF WaitForActivity
<1>5. CASE Woken
    <2>1. UNCHANGED <<state, granted, at, log, go, cancelled>> /\ DecisionsAdvance /\ todo[0] = {}
        BY <1>5 DEF Woken, MainAt, DecisionsAdvance, Resolving
    <2>2. CASE todo' = todo
        BY <2>1, <2>2, StillSteps, Zenon DEF Advance
    <2>3. CASE todo' = [todo EXCEPT ![0] = DrainList]
        BY <1>1, <1>2, <1>3, <2>1, <2>3, ListSteps, Zenon DEF Advance
    <2> QED
        BY <1>5, <2>2, <2>3, Zenon DEF Woken
<1>6. ASSUME NEW c \in Calls, MaybeDrain(c) PROVE Advance
    <2>1. UNCHANGED <<state, granted, at, log, cancelled>> /\ DecisionsAdvance
        BY <1>6, NoDecision, Zenon DEF MaybeDrain
    <2>2. /\ go[c] = "drain" /\ todo' = [todo EXCEPT ![c] = DrainList]
          /\ \A d \in Calls : go'[d] = IF d = c THEN "launching" ELSE go[d]
        BY <1>6 DEF MaybeDrain, Types
    <2>3. todo[c] = {}
        BY <2>2, Zenon DEF Launches
    <2> QED
        BY <1>1, <1>2, <1>3, <2>1, <2>2, <2>3, ListSteps, Zenon DEF Advance
<1> QED
    BY <1>4, <1>5, <1>6, Zenon

LEMMA AddToolAdvances ==
    ASSUME Types, Types', Next, Launches, ToCome, AddTool
    PROVE  Advance
<1> USE DEF slotVars, mainVars
<1>1. /\ Calls' = Calls /\ Threads' = Threads /\ 0 \notin Calls /\ 0 \in Threads
      /\ Calls \subseteq Threads /\ \A c : Safe(c)' = Safe(c)
    BY KindKept, CallsShape, Zenon DEF Types
<1>2. /\ pc = "add" /\ pc' = "add" /\ next \in Calls /\ next' = next + 1 /\ todo[0] = {}
      /\ log' = [log EXCEPT ![next] = <<"planned">>]
      /\ UNCHANGED <<granted, cancelled, at, go>>
    BY Zenon DEF AddTool, MainAt
<1>3. state[next] = "absent" /\ ~Launched(next)
    BY <1>2 DEF ToCome, Types
<1>4. \A c \in Calls : state'[c] = IF c = next THEN "queued" ELSE state[c]
    BY <1>2, Zenon DEF AddTool, Types
<1>5. /\ \A p \in Threads : p # 0 => todo'[p] = todo[p]
      /\ todo'[0] \subseteq {next} /\ (todo'[0] # {} => CanStartImmediately(next, FALSE, state'))
    BY <1>1, Zenon DEF AddTool, Types
<1>6. SlotsAdvance
    BY <1>2, <1>3, <1>4, CallsShape DEF SlotsAdvance, TerminalStates, Types
<1>7. ThreadsAdvance
    <2>1. \A c \in Calls : Launched(c)' => Launched(c) \/ (c = next /\ todo'[0] # {})
        BY <1>1, <1>2, <1>5, Zenon DEF Launched
    <2>2. todo'[0] # {} => \A c \in Calls : c = next => CanRun(c)'
        BY <1>1, <1>5, Zenon DEF CanStartImmediately, CanRun
    <2> QED
        BY <1>2, <1>4, <2>1, <2>2, Zenon DEF ThreadsAdvance
<1>8. LaunchesAdvance
    <2>1. at[0] = "reserve"
        BY <1>1, <1>2, Zenon DEF Launches, Launching
    <2>2. \A q \in Threads : Launching(q)' => todo'[q] = todo[q] /\ Launching(q) /\ at'[q] = at[q]
        BY <1>2, <1>5, <2>1, Zenon DEF Launching
    <2>3. \A c \in Calls : todo'[c] # {} => go'[c] = "launching"
        BY <1>1, <1>2, <1>5, Zenon DEF Launches
    <2> QED
        BY <1>1, <1>2, <1>3, <1>4, <2>2, <2>3 DEF LaunchesAdvance
<1>9. DecisionsAdvance
    BY <1>2, Zenon DEF DecisionsAdvance, Resolving
<1> QED
    BY <1>2, <1>6, <1>7, <1>8, <1>9, Zenon DEF Advance, JournalAdvances

LEMMA TryStartQueuedAdvances ==
    ASSUME Types, Types', Next, Launches, TryStartQueued
    PROVE  Advance
<1> USE DEF slotVars, mainVars
<1>1. /\ Calls' = Calls /\ 0 \notin Calls /\ 0 \in Threads
      /\ Calls \subseteq Threads /\ \A c : Safe(c)' = Safe(c)
    BY KindKept, CallsShape, Zenon DEF Types
<1>2. /\ pc = "deciding" /\ pc' = "resolve" /\ next \in Calls /\ next' = next + 1 /\ todo[0] = {}
      /\ UNCHANGED <<state, cancelled, at, go, log>>
    BY Zenon DEF TryStartQueued, MainAt, Types, Picked
<1>3. granted \subseteq granted' /\ granted' \subseteq granted \cup {next}
    BY Zenon DEF TryStartQueued
<1>4. DecisionsAdvance
    BY <1>2, <1>3, Zenon DEF DecisionsAdvance, Resolving
<1>5. CASE todo' = todo
    BY <1>2, <1>3, <1>4, <1>5, StillSteps, Zenon DEF Advance
<1>6. CASE state[next] = "queued" /\ CanStartImmediately(next, TRUE, state)
    <2>1. todo' = [todo EXCEPT ![0] = {next}] /\ next \in granted'
        BY <1>6, Zenon DEF TryStartQueued
    <2>2. \A c \in {next} : state'[c] = "queued" /\ CanRun(c)'
        BY <1>1, <1>2, <1>6, <2>1, Zenon DEF CanStartImmediately, CanRun
    <2>3. {next} \in SUBSET Calls /\ \A c \in Calls : go'[c] = IF c = 0 THEN "launching" ELSE go[c]
        BY <1>1, <1>2, Zenon
    <2>4. SlotsAdvance /\ ThreadsAdvance /\ LaunchesAdvance /\ JournalAdvances
        BY <1>1, <1>2, <1>3, <2>1, <2>2, <2>3, ListSteps, Zenon
    <2> QED
        BY <1>4, <2>4, Zenon DEF Advance
<1>7. CASE state[next] = "queued" /\ ~CanStartImmediately(next, TRUE, state)
    <2>1. todo' = [todo EXCEPT ![0] = {}]
        BY <1>7, Zenon DEF TryStartQueued
    <2>2. todo' = todo
        BY <1>1, <1>2, <2>1, Zenon DEF Types
    <2> QED
        BY <1>5, <2>2, Zenon
<1> QED
    BY <1>5, <1>6, <1>7, Zenon DEF TryStartQueued

LEMMA ToolDeniedAdvances ==
    ASSUME Types, Types', Next, Launches, ToolDenied
    PROVE  Advance
<1> USE DEF slotVars, mainVars
<1>1. Calls' = Calls /\ Threads' = Threads
    BY KindKept, Zenon
<1>2. /\ pc = "deny" /\ pc' = "denying" /\ next \in Calls /\ next' = next
      /\ UNCHANGED <<state, granted, todo, at, go>>
    BY Zenon DEF ToolDenied, MainAt, Types, Picked
<1>3. SlotsAdvance
    BY <1>2, Zenon DEF SlotsAdvance
<1>4. ThreadsAdvance
    BY <1>1, <1>2, Zenon DEF ThreadsAdvance, Launched
<1>5. LaunchesAdvance
    BY <1>1, <1>2, Zenon DEF LaunchesAdvance, Launches, Launching
<1>6. CASE log' = [log EXCEPT ![next] = Append(@, "denied")] /\ UNCHANGED cancelled
    <2>1. JournalAdvances
        BY <1>2, <1>6, Zenon DEF JournalAdvances, Appends, Events, TerminalEvents
    <2>2. log'[next] = Append(log[next], "denied") /\ log[next] \in Seq(Events)
        BY <1>2, <1>6, Zenon DEF Types
    <2>3. \A c \in Calls : c = next => DeniedEvent(c)'
        BY <2>2, AppendEntries DEF DeniedEvent
    <2>4. DeniedEvent(next)'
        BY <1>2, <2>3, Zenon
    <2>5. DecisionsAdvance
        BY <1>2, <1>6, <2>4, Zenon DEF DecisionsAdvance, Resolving
    <2> QED
        BY <1>3, <1>4, <1>5, <2>1, <2>5, Zenon DEF Advance
<1>7. CASE cancelled' = TRUE /\ UNCHANGED log
    BY <1>2, <1>3, <1>4, <1>5, <1>7, Zenon DEF Advance, JournalAdvances, DecisionsAdvance, Resolving
<1> QED
    BY <1>6, <1>7, Zenon DEF ToolDenied

(* launch.                                                                 *)
LEMMA LaunchAdvances ==
    ASSUME Types, Types', Next, Launches, ToCome, NEW p \in Threads, Launch(p)
    PROVE  Advance
<1> USE DEF slotVars, mainVars
<1>1. Calls' = Calls /\ Threads' = Threads
    BY KindKept, Zenon
<1>2. todo[p] # {} /\ First(p) \in Calls /\ First(p) \in todo[p]
    BY FirstIn, Zenon DEF Launch, Reserve, BeforeToolStart, BeforeToolStartFails, Start
<1>3. \A q \in Threads : q # p => todo'[q] = todo[q] /\ at'[q] = at[q]
    BY Zenon DEF Launch, Reserve, BeforeToolStart, BeforeToolStartFails, Start, Types
<1>4. todo'[p] = todo[p] \/ todo'[p] = todo[p] \ {First(p)}
    BY Zenon DEF Launch, Reserve, BeforeToolStart, BeforeToolStartFails, Start, Types
<1>5. UNCHANGED <<granted, pc, next>> /\ (cancelled => cancelled')
    <2>1. CASE Reserve(p) \/ BeforeToolStart(p)
        BY <2>1 DEF Reserve, BeforeToolStart
    <2>2. CASE BeforeToolStartFails(p)
        BY <2>2, Zenon DEF BeforeToolStartFails
    <2>3. CASE Start(p)
        BY <2>3, Zenon DEF Start
    <2> QED
        BY <2>1, <2>2, <2>3, Zenon DEF Launch
<1>6. DecisionsAdvance
    BY <1>5, NoDecision, Zenon
<1>7. \A c \in Calls : (\E q \in Threads : c \in todo'[q]) => \E q \in Threads : c \in todo[q]
    BY <1>3, <1>4, Zenon
<1>8. CASE Reserve(p)
    <2>1. at[p] = "reserve" /\ UNCHANGED <<go, log, cancelled>>
        BY <1>8, Zenon DEF Reserve
    <2>2. CASE state[First(p)] = "queued"
        <3>1. /\ \A c \in Calls : state'[c] = IF c = First(p) THEN "executing" ELSE state[c]
              /\ todo' = todo /\ at'[p] = "journal"
            BY <1>2, <1>8, <2>2, Zenon DEF Reserve, Types
        <3>2. SlotsAdvance
            BY <2>2, <3>1, Zenon DEF SlotsAdvance, TerminalStates
        <3>3. ThreadsAdvance
            BY <1>1, <2>1, <3>1, Zenon DEF ThreadsAdvance, Launched
        <3>4. LaunchesAdvance
            <4>1. \A q \in Threads : Launching(q)' => q = p \/ (Launching(q) /\ at'[q] = at[q])
                BY <1>3, Zenon DEF Launching
            <4>2. \A c \in Calls : todo'[c] # {} => go'[c] = "launching"
                BY <2>1, <3>1 DEF Launches
            <4> QED
                BY <1>1, <1>2, <1>3, <2>1, <2>2, <3>1, <4>1, <4>2 DEF LaunchesAdvance
        <3> QED
            BY <1>6, <2>1, <3>2, <3>3, <3>4, Zenon DEF Advance, JournalAdvances
    <2>3. CASE state[First(p)] # "queued"
        <3>1. UNCHANGED <<state, at>>
            BY <1>8, <2>3, Zenon DEF Reserve
        <3>2. SlotsAdvance
            BY <2>1, <3>1, Zenon DEF SlotsAdvance
        <3>3. ThreadsAdvance
            BY <1>1, <1>7, <2>1, <3>1, Zenon DEF ThreadsAdvance, Launched
        <3>4. LaunchesAdvance
            BY <1>1, <1>2, <1>3, <1>4, <2>1, <3>1, CallsShape, Zenon DEF LaunchesAdvance, Launches,
               Launching, Types
        <3> QED
            BY <1>6, <2>1, <3>2, <3>3, <3>4, Zenon DEF Advance, JournalAdvances
    <2> QED
        BY <2>2, <2>3, Zenon
<1>9. CASE BeforeToolStart(p)
    <2>1. /\ at[p] = "journal" /\ at'[p] = "start" /\ UNCHANGED <<state, todo, go>>
          /\ log' = [log EXCEPT ![First(p)] = Append(@, "started")]
        BY <1>9, Zenon DEF BeforeToolStart, Types
    <2>2. SlotsAdvance
        BY <2>1, Zenon DEF SlotsAdvance
    <2>3. ThreadsAdvance
        BY <1>1, <2>1, Zenon DEF ThreadsAdvance, Launched
    <2>4. LaunchesAdvance
        BY <1>1, <1>3, <2>1, Zenon DEF LaunchesAdvance, Launches, Launching
    <2>5. JournalAdvances
        BY <1>2, <2>1, Zenon DEF JournalAdvances, Appends, Events
    <2> QED
        BY <1>6, <2>2, <2>3, <2>4, <2>5, Zenon DEF Advance
<1>10. CASE BeforeToolStartFails(p)
    <2>1. at'[p] = "reserve" /\ cancelled' /\ UNCHANGED <<go, log>> /\ todo'[p] = todo[p] \ {First(p)}
        BY <1>10, Zenon DEF BeforeToolStartFails, Types
    <2>2. \A c \in Calls : state'[c] # state[c] => state[c] = "executing" /\ state'[c] = "completed"
        BY <1>2, <1>10 DEF BeforeToolStartFails, Types
    <2>3. SlotsAdvance
        BY <2>1, <2>2, Zenon DEF SlotsAdvance, TerminalStates
    <2>4. ThreadsAdvance
        BY <1>1, <1>7, <2>1, Zenon DEF ThreadsAdvance, Launched
    <2>5. LaunchesAdvance
        <3>1. \A q \in Threads : Launching(q)' => q # p
            BY <2>1, Zenon DEF Launching
        <3>2. \A c \in Calls : todo'[c] # {} => go'[c] = "launching"
            BY <1>3, <1>4, <2>1, CallsShape, Zenon DEF Launches, Types
        <3> QED
            BY <1>1, <1>3, <2>1, <2>2, <3>1, <3>2, Zenon DEF LaunchesAdvance, Launching
    <2> QED
        BY <1>6, <2>1, <2>3, <2>4, <2>5, Zenon DEF Advance, JournalAdvances
<1>11. CASE Start(p)
    <2>1. /\ at[p] = "start" /\ at'[p] = "reserve" /\ UNCHANGED <<state, log>>
          /\ todo'[p] = todo[p] \ {First(p)}
        BY <1>11, Zenon DEF Start, Types
    <2>2. /\ \A c \in Calls : c # First(p) => go'[c] = go[c]
          /\ go'[First(p)] = go[First(p)] \/ (go'[First(p)] = "entry" /\ state[First(p)] = "executing")
        BY <1>2, <1>11 DEF Start, Types
    <2>3. go[First(p)] = "none" /\ Launching(p) /\ ~Launching(p)'
        BY <2>1, Zenon DEF Launches, Launching
    <2>4. SlotsAdvance
        BY <2>1, Zenon DEF SlotsAdvance
    <2>5. ThreadsAdvance
        <3>1. \A c \in Calls : Launched(c)' => Launched(c)
            BY <1>1, <1>2, <1>7, <2>2, Zenon DEF Launched
        <3> QED
            BY <2>1, <2>2, <3>1, Zenon DEF ThreadsAdvance
    <2>6. LaunchesAdvance
        <3>1. \A q \in Threads : Launching(q)' => q # p
            BY <2>3, Zenon
        <3>2. \A c \in Calls : todo'[c] # {} => go'[c] = "launching"
            <4>1. \A c \in Calls : todo'[c] # {} => go[c] = "launching"
                BY <1>3, <1>4, CallsShape, Zenon DEF Launches, Types
            <4> QED
                BY <2>2, <2>3, <4>1, Zenon
        <3>3. \A c \in Calls : go[c] \in {"drain", "launching", "done"} => go'[c] \in {"drain",
        "launching", "done"}
            BY <2>2, <2>3, Zenon
        <3> QED
            BY <1>1, <1>3, <2>1, <2>2, <2>3, <3>1, <3>2, <3>3 DEF LaunchesAdvance, Launching
    <2> QED
        BY <1>6, <2>1, <2>4, <2>5, <2>6, Zenon DEF Advance, JournalAdvances
<1> QED
    BY <1>8, <1>9, <1>10, <1>11, Zenon DEF Launch

(* The end of executeOne.                                                  *)
LEMMA FinishAdvances ==
    ASSUME Types, Types', Next, Launches, ToCome, NEW c \in Calls,
           Siblings(c) \/ Deferred(c) \/ ToolFinished(c) \/ SignalActivity(c)
    PROVE  Advance
<1> USE DEF slotVars, mainVars
<1>1. Calls' = Calls /\ Threads' = Threads
    BY KindKept, Zenon
<1>2. go[c] # "none" /\ Launched(c) /\ state[c] # "absent"
    BY Zenon DEF Siblings, Deferred, ToolFinished, SignalActivity, TerminalEvents, ToCome, Launched
<1>3. UNCHANGED <<granted, pc, next, todo, at>>
    BY Zenon DEF Siblings, Deferred, ToolFinished, SignalActivity
<1>4. \A d \in Calls : d # c => go'[d] = go[d]
    BY Zenon DEF Siblings, Deferred, ToolFinished, SignalActivity, Types
<1>5. \A d \in Calls : Launched(d)' => Launched(d)
    BY <1>1, <1>2, <1>3, <1>4, Zenon DEF Launched
<1>6. ASSUME \A d \in Calls : state'[d] \in {"absent", "queued"} => state[d] \in {"absent", "queued"},
             go[c] \in {"drain", "launching", "done"} => go'[c] \in {"drain", "launching", "done"},
             todo[c] = {}
      PROVE  LaunchesAdvance
    <2>1. \A d \in Calls : todo'[d] # {} => go'[d] = "launching"
        BY <1>3, <1>4, <1>6, Zenon DEF Launches
    <2> QED
        BY <1>1, <1>2, <1>3, <1>4, <1>6, <2>1 DEF LaunchesAdvance, Launching
<1>7. CASE Siblings(c)
    <2>1. /\ \A d \in Calls : state'[d] # state[d] => /\ state[d] \in {"queued", "executing"}
                                                      /\ state'[d] = "aborted" /\ cancelled'
          /\ cancelled => cancelled'
        BY <1>7, AbortSiblingsEffect, Zenon DEF Siblings
    <2>2. go[c] = "siblings" /\ go'[c] \in {"deferred", "others"} /\ UNCHANGED log
        BY <1>7, Zenon DEF Siblings, Types
    <2>3. SlotsAdvance
        BY <2>1, Zenon DEF SlotsAdvance, TerminalStates
    <2>4. ThreadsAdvance
        BY <1>4, <1>5, <2>2, Zenon DEF ThreadsAdvance, Active
    <2>5. LaunchesAdvance
        BY <1>6, <2>1, <2>2, Zenon DEF Launches
    <2> QED
        BY <1>3, <2>1, <2>2, <2>3, <2>4, <2>5, NoDecision DEF Advance, JournalAdvances
<1>8. CASE Deferred(c)
    <2>1. /\ \A d \in Calls : state'[d] = IF d # c THEN state[d]
                                          ELSE IF state[c] = "aborted" THEN "aborted" ELSE "completed"
          /\ UNCHANGED <<log, cancelled>>
          /\ go[c] = "deferred" /\ go'[c] \in {"cancelled", "failed", "completed"}
        BY <1>8 DEF Deferred, Types
    <2>2. SlotsAdvance
        BY <1>2, <2>1, Zenon DEF SlotsAdvance, TerminalStates, Active
    <2>3. ThreadsAdvance
        BY <1>4, <1>5, <2>1, Zenon DEF ThreadsAdvance, Active
    <2>4. LaunchesAdvance
        BY <1>6, <2>1, Zenon DEF Launches
    <2> QED
        BY <1>3, <2>1, <2>2, <2>3, <2>4, NoDecision DEF Advance, JournalAdvances
<1>9. CASE ToolFinished(c)
    <2>1. /\ UNCHANGED state /\ (cancelled => cancelled')
          /\ go[c] \in TerminalEvents /\ go[c] # "denied" /\ go'[c] = "drain"
          /\ UNCHANGED log \/ log' = [log EXCEPT ![c] = Append(@, go[c])]
        <3>1. UNCHANGED log \/ log' = [log EXCEPT ![c] = Append(@, go[c])]
            BY <1>9, Zenon DEF ToolFinished
        <3>2. cancelled => cancelled'
            BY <1>9, Zenon DEF ToolFinished
        <3>3. /\ UNCHANGED state /\ go[c] \in TerminalEvents /\ go[c] # "denied"
              /\ go' = [go EXCEPT ![c] = "drain"]
            BY <1>9, Zenon DEF ToolFinished, Types, GoStates
        <3> QED
            BY <3>1, <3>2, <3>3, Zenon DEF Types
    <2>2. SlotsAdvance
        BY <2>1, Zenon DEF SlotsAdvance
    <2>3. ThreadsAdvance
        BY <1>4, <1>5, <2>1, Zenon DEF ThreadsAdvance, Active
    <2>4. LaunchesAdvance
        BY <1>6, <2>1, Zenon DEF Launches, TerminalEvents
    <2>5. JournalAdvances
        BY <2>1, Zenon DEF JournalAdvances, Appends, Events
    <2> QED
        BY <1>3, <2>1, <2>2, <2>3, <2>4, <2>5, NoDecision DEF Advance
<1>10. CASE SignalActivity(c)
    <2>1. /\ UNCHANGED <<state, log, cancelled>> /\ todo[c] = {}
          /\ go[c] = "launching" /\ go'[c] = "done"
        BY <1>10, Zenon DEF SignalActivity, Types
    <2>2. SlotsAdvance
        BY <2>1, Zenon DEF SlotsAdvance
    <2>3. ThreadsAdvance
        BY <1>4, <1>5, <2>1, Zenon DEF ThreadsAdvance, Active
    <2>4. LaunchesAdvance
        BY <1>6, <2>1, Zenon
    <2> QED
        BY <1>3, <2>1, <2>2, <2>3, <2>4, NoDecision, Zenon DEF Advance, JournalAdvances
<1> QED
    BY <1>7, <1>8, <1>9, <1>10, Zenon

LEMMA NextAdvances ==
    ASSUME Types, Types', Next, Launches, ToCome
    PROVE  Advance
    BY StillMainSteps, ToolSteps, SlotMainSteps, DrainSteps, AddToolAdvances, TryStartQueuedAdvances,
       ToolDeniedAdvances, LaunchAdvances, FinishAdvances, Zenon DEF Next, Main, ExecuteOne
-----------------------------------------------------------------------------
ExecutorInv == ExclusionInv /\ Journaled

LEMMA ExecutorInit == Init => ExecutorInv
<1> SUFFICES ASSUME Init PROVE ExecutorInv
    BY Zenon
<1>1. Types
    BY TypesInit, Zenon
<1>2. /\ \A c \in Calls : state[c] = "absent" /\ go[c] = "none" /\ log[c] = <<>> /\ DOMAIN log[c] = {}
      /\ \A p \in Threads : todo[p] = {} /\ at[p] = "reserve"
      /\ granted = {} /\ pc = "add" /\ Calls \subseteq Threads
    BY <1>1, CallsShape DEF Init, Types
<1>3. ToCome /\ Launches /\ Ordered /\ Decided /\ Overtaken /\ Alone
    BY <1>2, Zenon DEF ToCome, Launches, Ordered, Decided, Overtaken, Alone, Launched, DeniedEvent,
       Launching,
                Started, Resolving, Active
<1>4. Journaled
    BY <1>2, Zenon DEF Journaled, Terminals, Started
<1> QED
    BY <1>1, <1>3, <1>4, Zenon DEF ExecutorInv, ExclusionInv

(* The invariant the other theorems follow from: whatever goroutines       *)
(* launch, run, fail, are denied or cancelled, only calls that were allowed*)
(* to start have been launched, each by one thread, and an exclusive one   *)
(* only after a decision that was never a denial.                          *)
THEOREM ExecutorInvariant == Spec => []ExecutorInv
<1>1. ExecutorInv /\ [Next]_vars => ExecutorInv'
    <2>1. ASSUME ExecutorInv, Next PROVE ExecutorInv'
        <3>1. Types /\ Types' /\ Launches /\ ToCome
            BY <2>1, TypesStep, Zenon DEF ExecutorInv, ExclusionInv
        <3>2. SlotsAdvance /\ ThreadsAdvance /\ LaunchesAdvance /\ JournalAdvances /\ DecisionsAdvance
            BY <2>1, <3>1, NextAdvances, Zenon DEF Advance
        <3> QED
            BY <2>1, <3>1, <3>2, AdvanceKeeps, LaunchesStep, JournaledStep, Zenon DEF ExecutorInv,
               ExclusionInv
    <2>2. ASSUME ExecutorInv, UNCHANGED vars PROVE ExecutorInv'
        <3> USE <2>2 DEF ExecutorInv, ExclusionInv, vars, Calls, Threads
        <3>1. Types'
            BY Zenon DEF Types
        <3>2. ToCome' /\ Ordered'
            BY Zenon DEF ToCome, Ordered, Launched, DeniedEvent, Safe
        <3>3. Launches'
            <4>1. /\ \A p : First(p)' = First(p) /\ Launching(p)' = Launching(p)
                  /\ \A c : Started(c)' = Started(c)
                BY Zenon DEF First, Launching, Started
            <4> QED
                BY <4>1, Zenon DEF Launches
        <3>4. Decided' /\ Overtaken' /\ Alone'
            BY DEF Decided, Overtaken, Alone, DeniedEvent, Safe
        <3>5. Journaled'
            BY DEF Journaled, Terminals, Started, Safe
        <3> QED
            BY <3>1, <3>2, <3>3, <3>4, <3>5
    <2> QED
        BY <2>1, <2>2, Zenon
<1> QED
    BY <1>1, ExecutorInit, PTL DEF Spec

(* While an exclusive call runs its tool no other call runs one, for turns *)
(* of any length and any capacity of safeSemaphore: the checks of          *)
(* canStartImmediatelyLocked are enough although launch takes the slot in  *)
(* a critical section of its own.                                          *)
THEOREM ExclusiveCallsRunAlone == Spec => []ExclusiveAlone
<1>1. ExecutorInv => ExclusiveAlone
    BY Zenon DEF ExecutorInv, ExclusionInv, Alone, ExclusiveAlone
<1> QED
    BY <1>1, ExecutorInvariant, PTL

(* A call is started at most once in the journal; an exclusive one has one *)
(* terminal event there and is never started after a denial, for turns of  *)
(* any length (launch, DenyTool, the deferred function of executeOne).     *)
THEOREM CallsExecuteOnce == Spec => []OneExecution
<1>1. ASSUME ExecutorInv, NEW c \in Calls
      PROVE  /\ AtMostOne({i \in DOMAIN log[c] : log[c][i] = "started"})
             /\ ~Safe(c) => /\ AtMostOne(Terminals(c))
                            /\ DeniedEvent(c) => \A i \in DOMAIN log[c] : log[c][i] # "started"
    <2>1. \A i, j \in {k \in DOMAIN log[c] : log[c][k] = "started"} : i = j
        BY <1>1, Zenon DEF ExecutorInv, Journaled
    <2>2. ~Safe(c) => \A i, j \in Terminals(c) : i = j
        BY <1>1, Zenon DEF ExecutorInv, Journaled
    <2>3. ~Safe(c) /\ DeniedEvent(c) => ~Started(c)
        BY <1>1, Zenon DEF ExecutorInv, ExclusionInv, Journaled, Decided
    <2> QED
        BY <2>1, <2>2, <2>3, Zenon DEF Started, AtMostOne
<1>2. ExecutorInv => OneExecution
    BY <1>1, Zenon DEF OneExecution
<1> QED
    BY <1>2, ExecutorInvariant, PTL
=============================================================================
