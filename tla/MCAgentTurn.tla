----------------------------- MODULE MCAgentTurn -----------------------------
(***************************************************************************)
(* Turns of an agent on small instances.  Each scene is a configuration of *)
(* the loop with what its environment may do; the scene "history" is the   *)
(* worker that summarises the session, the scene "evidence" the goroutines *)
(* that hand the conversation to the Memory Fabric.                        *)
(***************************************************************************)
EXTENDS AgentTurn, SessionHistory, MemoryExtraction

Things == {"submit", "skill", "compact", "refuse", "reject", "break", "truncate", "abort",
           "reset", "restart"}
Up(f) == [t \in Things |-> IF t \in DOMAIN f THEN f[t] ELSE 0]
(* Every fifth call is of a tool whose results stay. *)
MCCompressible == {n \in 1..99 : n % 5 # 0}
Scene(name, env0, does, rejects, calls) ==
    [name |-> name, env |-> Up(env0), does |-> does, rejects |-> rejects,
     calls |-> calls, prompts |-> {1}, seed |-> 0]

(* A conversation that begins with n finished turns of one call each.      *)
Seeded(n) ==
    FlattenSeq([k \in 1..n |->
        << Message(100 + 4 * k, "user", "prompt", {}, {}, {10 + k}),
           Message(101 + 4 * k, "assistant", "answer", {k + 50}, {}, {}),
           Message(102 + 4 * k, "user", "results", {}, {Result(k + 50, "long")}, {}),
           Message(103 + 4 * k, "assistant", "answer", {}, {}, {}) >>])

Scenes == {
    [Scene("compaction", [submit |-> 2, compact |-> 1],
           {"notes", "files", "summary_fails"}, {}, 2) EXCEPT !.seed = 2],
    [Scene("overlong", [submit |-> 1, reject |-> Always, abort |-> 1], {"notes"}, {"long"}, 2)
        EXCEPT !.seed = 1],
    Scene("provider", [submit |-> 2, refuse |-> 2, reject |-> 1, break |-> 1],
          {}, {"server", "fatal", "quota"}, 1),
    Scene("failing", [submit |-> 1, refuse |-> Always, break |-> Always, abort |-> 1],
          {}, {}, 1),
    Scene("output", [submit |-> 1, truncate |-> Always, break |-> 1, abort |-> 1], {}, {}, 1),
    Scene("sessions", [submit |-> 2, reset |-> 1, restart |-> 1, reject |-> 1], {}, {"long"}, 1),
    Scene("skills", [submit |-> 2, skill |-> 1, reset |-> 1, reject |-> 1], {}, {"long"}, 1),
    Scene("history", [submit |-> 0], {}, {}, 0),
    Scene("evidence", [submit |-> 0], {}, {}, 0) }

Start(S) ==
    /\ opt \in S
    /\ gen = 0 /\ rev = 0 /\ active = NoRun
    /\ ctx = [Empty EXCEPT !.msgs = Seeded(opt.seed)]
    /\ run = [r \in Runs |-> Unborn]
    /\ env = opt.env
    /\ StreamInit
    /\ HistoryInit(IF opt.name = "history" THEN 2 ELSE 0)
    /\ EvidenceInit
TurnInit == Start(Scenes)

LoopStep(r) ==
    \/ BeginStep(r) \/ SendRequest(r) \/ Attempt(r) \/ Opened(r) \/ TextDelta(r)
    \/ (\E limited \in BOOLEAN : Refused(r, limited))
    \/ (\E e \in Errors : Rejected(r, e) \/ Broken(r, e))
    \/ ToolUse(r) \/ (\E truncated \in BOOLEAN : Stopped(r, truncated))
    \/ StreamCancelled(r) \/ StreamOver(r) \/ RecoverContext(r) \/ RetryCompacted(r)
    \/ HandleOutputTruncation(r) \/ CommitAssistantTurn(r) \/ executeAndCommitTools(r)

TurnStep ==
    \/ \E r \in Runs :
         \/ \E p \in opt.prompts : SubmitMessage(r, p)
         \/ SubmitSkill(r) \/ (\E failed \in BOOLEAN : FinishSkill(r, failed))
         \/ CompactManual(r) \/ LoopStep(r) \/ Abort(r)
    \/ Reset \/ Restart \/ CooldownEnds

(* The scenes of the workers have no turns.                                *)
Next ==
    \/ opt.calls > 0 /\ TurnStep /\ UNCHANGED <<historyVars, evidenceVars>>
    \/ opt.name = "history" /\ HistoryNext /\ UNCHANGED <<vars, evidenceVars>>
    \/ opt.name = "evidence" /\ EvidenceNext /\ UNCHANGED <<vars, historyVars>>

(* Weak fairness of each loop, with what enables it written out: a loop    *)
(* that is alive can take a step, unless it waits for a cooldown to end.   *)
(* The code's loops are goroutines, whose requests are bounded by timers.  *)
Waits(r) == run[r].pc = "calling" /\ call[r].at = "waiting" /\ call[r].client \in cooling
LoopFair(r) ==
    \/ []<>(~Alive(r) \/ Waits(r))
    \/ []<><<run'[r] # run[r] \/ call'[r] # call[r]>>_<<run, call>>
Fairness ==
    /\ \A r \in Runs : LoopFair(r)
    /\ WF_cooling(CooldownEnds /\ UNCHANGED <<historyVars, evidenceVars>>)
TurnSpec == TurnInit /\ [][Next]_<<vars, historyVars, evidenceVars>> /\ Fairness

Asking == {r \in Runs : run[r].pc = "calling"}
Follows(h, i) == i < Len(h) /\ ResultCalls(h[i + 1]) = h[i].uses

(* Whatever compaction, notes, crashes and lost results did to the         *)
(* conversation, the request that reaches a provider has the results of    *)
(* each call directly after it, and no result without its call.  It also   *)
(* has the results that the model has not seen yet, with the last of them  *)
(* still readable (prepare, SafeTailStart, EnforceImmediateToolResults).   *)
ToolResultsReachModel ==
    \A r \in Asking :
        LET h == run[r].req
            c == run[r].draft.msgs
            from == LastIndex(c, LAMBDA m : m.role = "assistant")
            news == UNION {{x \in c[i].results : x.shape # "lost"} : i \in from + 1..Len(c)}
            sent == UNION {h[i].results : i \in DOMAIN h}
        IN  /\ \A i \in DOMAIN h : h[i].uses # {} => Follows(h, i)
            /\ \A i \in DOMAIN h : h[i].results # {} => i > 1 /\ h[i - 1].uses = ResultCalls(h[i])
            /\ \A x \in news : \E y \in sent : y.call = x.call /\ y.shape # "lost"
            /\ news # {} => \E y \in sent : /\ y.call = Max({x.call : x \in news})
                                            /\ y.shape \in {"long", "short"}

(* The model always sees, in the user's own words, the request that it is  *)
(* working on, however often the conversation was folded or summarised     *)
(* meanwhile (prepare).  For an answer that was cut off at the output      *)
(* limit this is the prompt that asks to continue.                         *)
CurrentRequestKept ==
    \A r \in Asking : \E i \in DOMAIN run[r].req : run[r].req[i].id = run[r].asked

(* Retries and the fallback model never mix: what the user sees of one     *)
(* response comes from one attempt of one client (RetryWithBackoff,        *)
(* FallbackLLMClient.StreamChat).                                          *)
OutputFromOneAttempt ==
    \A r \in Runs : Cardinality(call[r].from) <= 1

(* Every run comes to an end: retries, recoveries, compactions and turns   *)
(* are bounded together, whatever the provider answers.                    *)
RunsEnd ==
    <>[](\A r \in Runs : ~Alive(r))

(* No cursor passes what was not stored.  A message of the session's       *)
(* history is deleted, or lies before the mark of the last commit, only    *)
(* when a commit has summarised it or when it came late, after its turn    *)
(* was read for a commit: later in the same turn, or in a turn that Clear  *)
(* numbered again.  The messages up to the cursor of the Memory Fabric are *)
(* its events.  Both hold when commits and appends fail, the queue is full,*)
(* goroutines are cancelled or outlive a Reset, or the process restarts    *)
(* (worker.run, enqueue, CommitRange, evictMessages; Schedule,             *)
(* runExtraction, AdvanceMemory).                                          *)
HistoryHasNoGap ==
    /\ \A m \in observed : m.turn <= lastCommitted \/ m \notin stored => m \in covered \cup late
    /\ EvidenceKept
=============================================================================
