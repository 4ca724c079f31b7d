------------------------------ MODULE AgentTurn ------------------------------
(***************************************************************************)
(* The loop of a run of an agent (agent/loop.go queryLoop and its callers  *)
(* in query_engine.go and context_runtime.go): a prompt is committed, and  *)
(* then each turn prepares the context, compacting it where it has grown   *)
(* too large, streams a response from the model, recovers from what may go *)
(* wrong with it, and runs the tools it asks for.                          *)
(*                                                                         *)
(* The session holds the committed snapshot (ctx); a run works on a draft  *)
(* that it publishes.  A run that has been reset away keeps going until it *)
(* meets the session again, so several loops may be alive at once.  Tool   *)
(* execution itself is module ToolExecutor, the phases and waits of a run  *)
(* are module AgentRun.                                                    *)
(***************************************************************************)
EXTENDS ContextWindow, ModelStream

CONSTANTS
    RevCycle,           \* revisions are counted modulo this
    MaxTurns,           \* config.MaxTurns
    MaxAPIErrorRetries, \* consecutive failed requests a run survives
    MaxContextRetries,  \* TryRecovery(RecoveryContext, 3)
    MaxOutputRetries    \* MaxOutputTokensRecoveryLimit

VARIABLES
    opt,        \* the configuration: what the environment does in this behaviour
    gen,        \* generation of the session; Reset raises it
    rev,        \* revision of the committed context
    ctx,        \* the committed snapshot [msgs, regions, failures, attached, turns]
    active,     \* the run whose token the session accepts, or NoRun
    run,        \* the loop of each run; asked is the message it is to answer
    env         \* how often the environment may still do each thing; Always: at will

vars == <<opt, gen, rev, ctx, active, run, env, call, cooling, level, quota>>
session == <<gen, rev, ctx, active>>

NoRun == 0
Empty == [msgs |-> <<>>, regions |-> {}, failures |-> 0, attached |-> {}, turns |-> 0]
NoTurn == [text |-> FALSE, uses |-> {}, truncated |-> FALSE, error |-> FALSE, long |-> FALSE]
Unborn == [pc |-> "none", gen |-> 0, draft |-> Empty, prep |-> <<>>, req |-> <<>>,
           turn |-> NoTurn, errors |-> 0, context |-> 0, retries |-> 0,
           escalated |-> FALSE, cancel |-> FALSE, asked |-> 0, end |-> "none"]

Always == -1
May(what) == env[what] # 0
Spend(what) == env' = [env EXCEPT ![what] = IF @ = Always THEN @ ELSE @ - 1]
Revised == (rev + 1) % RevCycle
(* Messages and calls are numbered in the order of the conversation.       *)
Fresh(h, uses) ==
    1 + Max({0} \cup uses \cup UNION {h[i].uses \cup {h[i].id} : i \in DOMAIN h})
FreshOf(r) == Fresh(run[r].draft.msgs, run[r].turn.uses)
Current(r) == active = r /\ run[r].gen = gen
Alive(r) == run[r].pc \notin {"none", "ended"}

(* publishDraft: the session takes the draft, unless the run is no longer  *)
(* the session's.                                                          *)
Publish(r, d) ==
    IF Current(r) THEN ctx' = d /\ rev' = Revised ELSE UNCHANGED <<ctx, rev>>

(* finishExecution: the loop is over; what it published stays.             *)
End(r, d, how) ==
    /\ Publish(r, d)
    /\ active' = IF active = r THEN NoRun ELSE active
    /\ run' = [run EXCEPT ![r] = [Unborn EXCEPT !.pc = "ended", !.end = how, !.gen = run[r].gen]]
    /\ cancelCall(r)
    /\ UNCHANGED <<opt, gen, env, cooling, level, quota>>

(* commitUserTurn: what was attached goes, and the prompt comes last, once *)
(* even when the user repeats it.                                          *)
commitUserTurn(d, p) ==
    LET h == d.msgs
        repeated == h # <<>> /\ h[Len(h)].src = "prompt" /\ h[Len(h)].about = {p}
    IN  [d EXCEPT !.attached = {}, !.msgs = IF repeated THEN h
             ELSE Append(h, Message(Fresh(h, {}), "user", "prompt", {}, {}, {p}))]

SubmitMessage(r, p) ==
    /\ active = NoRun /\ run[r].pc = "none" /\ \A q \in Runs : q < r => run[q].pc # "none"
    /\ p \in opt.prompts /\ May("submit") /\ Spend("submit")
    /\ LET d == commitUserTurn(ctx, p) IN
       /\ ctx' = d /\ rev' = Revised
       /\ run' = [run EXCEPT ![r] = [Unborn EXCEPT !.pc = "step", !.gen = gen, !.draft = d,
                                                   !.asked = d.msgs[Len(d.msgs)].id]]
    /\ active' = r
    /\ UNCHANGED <<opt, gen, streamVars>>

(* A skill that forks runs in an agent of its own; its result is committed *)
(* as the answer to the prompt.                                            *)
SubmitSkill(r) ==
    /\ active = NoRun /\ run[r].pc = "none" /\ \A q \in Runs : q < r => run[q].pc # "none"
    /\ May("skill") /\ Spend("skill")
    /\ run' = [run EXCEPT ![r] = [Unborn EXCEPT !.pc = "skill", !.gen = gen,
                                                !.draft = [ctx EXCEPT !.attached = {}]]]
    /\ active' = r
    /\ UNCHANGED <<opt, gen, rev, ctx, streamVars>>

FinishSkill(r, failed) ==
    /\ run[r].pc = "skill"
    /\ LET d == commitUserTurn(run[r].draft, 9)
           a == Message(Fresh(d.msgs, {}), "assistant", "answer", {}, {}, {})
       IN  End(r, IF failed THEN run[r].draft
                  ELSE [d EXCEPT !.msgs = Append(@, a), !.turns = @ + 1],
               IF failed THEN "error" ELSE "done")

Summaries == IF "summary_fails" \in opt.does THEN {"text", "fail"} ELSE {"text"}
Compactions(d, mode) ==
    {[base |-> rev, mode |-> mode, res |-> res] :
        res \in prepare(d, mode, Summaries, "files" \in opt.does, Fresh(d.msgs, {}))}

(* The head of the loop: the run may have been cancelled or replaced, or   *)
(* have had all its turns; else notes about background tasks are put in,   *)
(* the draft is published, and the context is prepared, which may take a   *)
(* call of the summarising model.                                          *)
BeginStep(r) ==
    /\ run[r].pc = "step"
    /\ IF run[r].cancel THEN End(r, run[r].draft, "aborted")
       ELSE IF ~Current(r) THEN End(r, run[r].draft, "stale")
       ELSE IF run[r].draft.turns >= MaxTurns THEN End(r, run[r].draft, "error")
       ELSE
         /\ \E notes \in IF "notes" \in opt.does THEN BOOLEAN ELSE {FALSE} :
            LET told == [run[r].draft EXCEPT !.attached =
                            IF notes THEN @ \cup {"task"} ELSE @]
            IN  \E d \in {told} : \E p \in Compactions(d, "auto") :
                  /\ ctx' = d /\ rev' = Revised
                  /\ run' = [run EXCEPT ![r] = [@ EXCEPT !.pc = "prepared", !.draft = d,
                                                !.prep = [p EXCEPT !.base = Revised]]]
         /\ UNCHANGED <<opt, gen, active, env, streamVars>>

(* RuntimeState.CommitContext: only the active run of the same generation, *)
(* on the revision that it prepared, replaces the context.                 *)
CommitContext(r) ==
    Current(r) /\ run[r].prep.base = rev

Adopt(r) ==
    LET d == [run[r].prep.res.next EXCEPT !.turns = run[r].draft.turns] IN
    /\ ctx' = d /\ rev' = Revised

(* The prepared context is committed and the request is sent; a context    *)
(* that still does not fit, or whose summary failed, ends the run.  A      *)
(* cancellation is noticed, unless it comes just after the loop looked.    *)
SendRequest(r) ==
    /\ run[r].pc = "prepared"
    /\ LET p == run[r].prep
           d == [p.res.next EXCEPT !.turns = run[r].draft.turns] IN
       \/ /\ run[r].cancel \/ ~CommitContext(r)
          /\ End(r, run[r].draft, "stale")
       \/ /\ CommitContext(r) /\ (p.res.err \/ p.mode = "manual")
          /\ End(r, d, IF p.res.err THEN "error" ELSE "done")
       \/ /\ CommitContext(r) /\ ~p.res.err /\ p.mode = "auto"
          /\ Adopt(r)
          /\ run' = [run EXCEPT ![r] = [@ EXCEPT !.pc = "calling", !.draft = d,
                        !.req = p.res.request, !.prep = <<>>, !.turn = NoTurn]]
          /\ call' = [call EXCEPT ![r] = StartCall]
          /\ UNCHANGED <<opt, gen, active, env, cooling, level, quota>>

(* Compact, asked for by the user between runs.                            *)
CompactManual(r) ==
    /\ active = NoRun /\ run[r].pc = "none" /\ \A q \in Runs : q < r => run[q].pc # "none"
    /\ May("compact") /\ Spend("compact")
    /\ \E p \in Compactions(ctx, "manual") :
         run' = [run EXCEPT ![r] = [Unborn EXCEPT !.pc = "prepared", !.gen = gen,
                                                  !.draft = ctx, !.prep = p]]
    /\ active' = r
    /\ UNCHANGED <<opt, gen, rev, ctx, streamVars>>

(***************************************************************************)
(* HandleStreamEvent: what the stream brings is kept in the turn.          *)
(***************************************************************************)
Streams(r) == run[r].pc = "calling" /\ ~run[r].cancel
Quiet == UNCHANGED <<opt, session, env>>

Attempt(r)      == Streams(r) /\ sendAttempt(r) /\ UNCHANGED run /\ Quiet
Refused(r, ltd) == /\ Streams(r) /\ refuseAttempt(r, ltd) /\ UNCHANGED run
                   /\ May("refuse") /\ Spend("refuse")
                   /\ UNCHANGED <<opt, session>>
Rejected(r, e)  == /\ Streams(r) /\ rejectAttempt(r, e) /\ UNCHANGED run
                   /\ e \in opt.rejects /\ May("reject") /\ Spend("reject")
                   /\ UNCHANGED <<opt, session>>
Opened(r)       == Streams(r) /\ openStream(r) /\ UNCHANGED run /\ Quiet
Broken(r, e)    == /\ Streams(r) /\ breakStream(r, e) /\ UNCHANGED run
                   /\ May("break") /\ Spend("break")
                   /\ UNCHANGED <<opt, session>>

TextDelta(r) ==
    /\ Streams(r) /\ ~run[r].turn.text /\ run[r].turn.uses = {}
    /\ produceOutput(r)
    /\ run' = [run EXCEPT ![r].turn.text = TRUE]
    /\ Quiet

ToolUse(r) ==
    /\ Streams(r) /\ Cardinality(run[r].turn.uses) < opt.calls
    /\ produceOutput(r)
    /\ run' = [run EXCEPT ![r].turn.uses = @ \cup {FreshOf(r)}]
    /\ UNCHANGED <<opt, session, env>>

(* The response ends, complete or at the limit of the output.              *)
Stopped(r, truncated) ==
    /\ Streams(r) /\ finishStream(r)
    /\ run[r].turn.text \/ run[r].turn.uses # {}
    /\ IF truncated THEN May("truncate") /\ Spend("truncate") ELSE UNCHANGED env
    /\ run' = [run EXCEPT ![r].turn.truncated = truncated]
    /\ UNCHANGED <<opt, session>>

(* The loop sees that the run was cancelled while it streamed.             *)
StreamCancelled(r) ==
    /\ run[r].pc = "calling" /\ run[r].cancel
    /\ End(r, run[r].draft, "aborted")

Failed(t) == t.error /\ ~(t.text /\ t.uses = {})

(* The stream is over: an error is counted, and a fatal one or one too     *)
(* many ends the run; text that stands alone is kept in spite of an error. *)
StreamOver(r) ==
    /\ Streams(r) /\ call[r].at = "done"
    /\ LET e == call[r].error
           t == [run[r].turn EXCEPT !.error = e \notin {"none", "long"}, !.long = e = "long"]
           n == run[r].errors + 1
           alone == t.text /\ t.uses = {}
       IN IF e = "fatal" THEN End(r, run[r].draft, "error")
          ELSE IF t.error /\ ~alone /\ n >= MaxAPIErrorRetries
            THEN End(r, run[r].draft, "error")
          ELSE /\ run' = [run EXCEPT ![r] = [@ EXCEPT !.turn = t, !.req = <<>>,
                    !.pc  = IF Failed(t) /\ t.uses = {} THEN "step" ELSE "settle",
                    !.errors = IF Failed(t) THEN n ELSE 0]]
               /\ cancelCall(r)
               /\ UNCHANGED <<opt, session, env, cooling, level, quota>>

(***************************************************************************)
(* After the stream: an overlong prompt is compacted and sent again, a     *)
(* truncated text is asked for again or continued, and a whole turn is     *)
(* committed.                                                              *)
(***************************************************************************)
RecoverContext(r) ==
    /\ run[r].pc = "settle" /\ run[r].turn.long
    /\ IF run[r].cancel \/ ~Current(r) \/ run[r].context >= MaxContextRetries
         THEN End(r, run[r].draft, "error")
         ELSE /\ \E p \in Compactions(run[r].draft, "reactive") :
                   run' = [run EXCEPT ![r] = [@ EXCEPT !.pc = "recovering",
                              !.context = @ + 1, !.prep = p]]
              /\ UNCHANGED <<opt, session, env, streamVars>>

(* Only a compaction that made the request smaller is worth another try.   *)
RetryCompacted(r) ==
    /\ run[r].pc = "recovering"
    /\ LET p == run[r].prep
           d == [p.res.next EXCEPT !.turns = run[r].draft.turns] IN
       IF p.res.err \/ ~p.res.succeeded \/ ~CommitContext(r)
         THEN End(r, run[r].draft, "error")
         ELSE /\ Adopt(r)
              /\ run' = [run EXCEPT ![r] = [@ EXCEPT !.pc = "step", !.draft = d,
                            !.prep = <<>>, !.turn = NoTurn, !.retries = 0,
                            !.escalated = FALSE]]
              /\ UNCHANGED <<opt, gen, active, env, streamVars>>

Answer(r) == Message(FreshOf(r), "assistant", "answer", run[r].turn.uses, {}, {})

(* Faulty variant: nobody remembers that the limit was raised already.     *)
TruncationForgotten(r) ==
    /\ run[r].pc = "settle" /\ run[r].turn.truncated /\ run[r].turn.uses = {}
    /\ IF run[r].cancel \/ ~Current(r) THEN End(r, run[r].draft, "error")
       ELSE /\ run' = [run EXCEPT ![r].pc = "step"]
            /\ UNCHANGED <<opt, session, env, streamVars>>

(* HandleOutputTruncation: the first time the request is repeated with a   *)
(* larger limit, then the text is kept and a continuation is asked for.    *)
HandleOutputTruncation(r) ==
    /\ run[r].pc = "settle" /\ run[r].turn.truncated /\ run[r].turn.uses = {}
    /\ LET ask == Message(FreshOf(r) + 1, "user", "continuation", {}, {}, {})
           d   == [run[r].draft EXCEPT !.msgs = @ \o <<Answer(r), ask>>]
       IN IF run[r].cancel \/ ~Current(r) THEN End(r, run[r].draft, "error")
          ELSE IF ~run[r].escalated
            THEN /\ run' = [run EXCEPT ![r] = [@ EXCEPT !.pc = "step", !.escalated = TRUE]]
                 /\ UNCHANGED <<opt, session, env, streamVars>>
          ELSE IF run[r].retries < MaxOutputRetries
            THEN /\ run' = [run EXCEPT ![r] = [@ EXCEPT !.pc = "step", !.draft = d,
                              !.retries = @ + 1, !.asked = FreshOf(r) + 1]]
                 /\ UNCHANGED <<opt, session, env, streamVars>>
          ELSE End(r, run[r].draft, "error")

CommitAssistantTurn(r) ==
    /\ run[r].pc = "settle" /\ ~run[r].turn.long
    /\ ~(run[r].turn.truncated /\ run[r].turn.uses = {})
    /\ LET d == [run[r].draft EXCEPT !.msgs = Append(@, Answer(r))] IN
       IF run[r].turn.uses = {} THEN End(r, d, "done")
       ELSE IF ~Current(r) THEN End(r, d, "stale")
       ELSE /\ Publish(r, d)
            /\ run' = [run EXCEPT ![r] = [@ EXCEPT !.pc = "tools", !.draft = d, !.retries = 0]]
            /\ UNCHANGED <<opt, gen, active, env, streamVars>>

(* executeAndCommitTools: the results come in one message, whatever became *)
(* of the tools, and memories recalled for them are put in.                *)
executeAndCommitTools(r) ==
    /\ run[r].pc = "tools"
    /\ \E recalled \in IF "notes" \in opt.does THEN BOOLEAN ELSE {FALSE} :
         LET results == {Result(c, "long") : c \in run[r].turn.uses}
             got  == Append(run[r].draft.msgs,
                            Message(FreshOf(r), "user", "results", {}, results, {}))
             d == [run[r].draft EXCEPT !.turns = @ + 1, !.msgs = got,
                      !.attached = IF recalled THEN @ \cup {"recall"} ELSE @]
         IN  run' = [run EXCEPT ![r] = [@ EXCEPT !.pc = "step", !.draft = d, !.turn = NoTurn]]
    /\ UNCHANGED <<opt, session, env, streamVars>>

(***************************************************************************)
(* What happens to the session from outside.                               *)
(***************************************************************************)
Abort(r) ==
    /\ active = r /\ ~run[r].cancel /\ May("abort") /\ Spend("abort")
    /\ run' = [run EXCEPT ![r].cancel = TRUE]
    /\ UNCHANGED <<opt, session, streamVars>>

(* /clear: the conversation starts anew; the old loop is told to stop and  *)
(* finds out in its own time.                                              *)
Reset ==
    /\ May("reset") /\ Spend("reset")
    /\ gen' = gen + 1 /\ rev' = 0 /\ ctx' = Empty /\ active' = NoRun
    /\ run' = IF active = NoRun THEN run ELSE [run EXCEPT ![active].cancel = TRUE]
    /\ UNCHANGED <<opt, streamVars>>

(* The process stops and starts again: what was published is still there.  *)
Restart ==
    /\ May("restart") /\ Spend("restart")
    /\ active' = NoRun
    /\ run' = [r \in Runs |-> IF Alive(r)
                  THEN [Unborn EXCEPT !.pc = "ended", !.end = "killed"] ELSE run[r]]
    /\ call' = [r \in Runs |-> Idle]
    /\ cooling' = {} /\ level' = [c \in Clients |-> 0] /\ quota' = {}
    /\ UNCHANGED <<opt, gen, rev, ctx>>

CooldownEnds == \E c \in Clients : cooldownEnds(c) /\ UNCHANGED run /\ Quiet
=============================================================================
