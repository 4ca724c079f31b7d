--------------------------- MODULE MemoryPostgres ---------------------------
(***************************************************************************)
(* The PostgreSQL engine of the Memory Fabric.  Claims, evidence and their *)
(* documents commit in one transaction, so there is no projection to owe;  *)
(* what is derived from them (spans of encoded events, embeddings,         *)
(* compilations, adjudications) goes through leased jobs that the workers  *)
(* of every node of the cluster share.                                     *)
(*                                                                         *)
(* vec[e] of an event stands for its spans, vec[n] of a node for the       *)
(* embedding in its document.                                              *)
(***************************************************************************)
EXTENDS MemoryStore

PgAt(p, f) == opt.engine = "postgres" /\ TopIs(p, f)
PgCaller(p, c) ==
    up /\ opt.engine = "postgres" /\ c \in opt.calls /\ p \notin Workers /\ Idle(p)
PgUses(part) == part \in opt.parts

(* One job for the whole context, whatever waits in it.                    *)
ContextJob == [k |-> "compile", of |-> {}, mode |-> "normal"]

---------------------------------------------------------------------------
(* Evidence.                                                               *)

(* Events, their documents and their indexing jobs in one transaction, then*)
(* the spans at once.  The document of a forgotten event comes back.       *)
PgAppendEvents(p, ids, policy) ==
    /\ PgCaller(p, "append") /\ ids # {}
    /\ ev' = [e \in Events |->
            IF e \in ids /\ ev[e] = "none" THEN "event_durable" ELSE ev[e]]
    /\ doc' = [d \in Docs |-> IF d \in ids THEN "event" ELSE doc[d]]
    /\ job' = IF PgUses("encoder") THEN EnqueueJobs(job, {IndexJob(e) : e \in ids}) ELSE job
    /\ proc' = [proc EXCEPT ![p] =
            (IF PgUses("encoder") THEN <<[f |-> "encode", ids |-> ids],
                                         [f |-> "finish_index", ids |-> ids]>> ELSE <<>>)
            \o <<[f |-> policy, ids |-> ids]>>]
    /\ UNCHANGED <<dead, nd, conf, res, outbox, vec, sidecar, process, faults>>

(* The spans of the events are replaced in one transaction.                *)
PgIndexEvents(p) ==
    /\ PgAt(p, "encode")
    /\ vec' = [d \in Docs |-> IF d \in Top(p).ids THEN model ELSE vec[d]]
    /\ Pop(p)
    /\ UNCHANGED <<rows, work, doc, sidecar, process, faults>>

PgEncoderFails(p) ==
    /\ PgAt(p, "encode") /\ Fault /\ Fail(p)
    /\ UNCHANGED <<rows, work, index, sidecar, process>>

(* The append settles every indexing job of its events.                    *)
PgFinishJobsByResource(p) ==
    LET mine == {k \in DOMAIN job : k.k = "index_event" /\ k.of \in Top(p).ids} IN
    /\ PgAt(p, "finish_index")
    /\ job' = [k \in DOMAIN job |->
            IF k \in mine THEN [job[k] EXCEPT !.st = "complete", !.lapsed = FALSE] ELSE job[k]]
    /\ Pop(p)
    /\ UNCHANGED <<rows, outbox, index, sidecar, process, faults>>

(* What the policy asks for: drafts without a compiler, the context's job, *)
(* or nothing.                                                             *)
PgSemanticPolicy(p) ==
    /\ \/ /\ PgAt(p, "deterministic")
          /\ \E ns \in SUBSET {n \in Nodes : Claim[n].src \in Top(p).ids} :
                Replace(p, <<[f |-> "load", drafts |-> ns, req |-> FALSE, of |-> {}]>>)
          /\ UNCHANGED job
       \/ /\ PgAt(p, "deferred") /\ Pop(p)
          /\ job' = EnqueueJobs(job, {ContextJob})
       \/ PgAt(p, "durable_only") /\ Pop(p) /\ UNCHANGED job
    /\ UNCHANGED <<rows, outbox, index, sidecar, process, faults>>

(* What is to be forgotten is read first ...                               *)
PgForgetTargets(p, es) ==
    /\ PgCaller(p, "forget") /\ \E e \in es : ev[e] # "none"
    /\ proc' = [proc EXCEPT ![p] = <<[f |-> "forget", es |-> es,
            ns |-> {n \in Nodes : nd[n] # "none" /\ Claim[n].src \in es}]>>]
    /\ UNCHANGED <<rows, work, index, sidecar, process, faults>>

(* ... and forgotten in a transaction of its own.                          *)
PgForget(p) ==
    LET x == Top(p) IN
    /\ PgAt(p, "forget")
    /\ dead' = dead \cup {e \in x.es : ev[e] # "none"}
    /\ nd' = [n \in Nodes |-> IF n \in x.ns THEN "tombstoned" ELSE nd[n]]
    /\ doc' = [d \in Docs |-> IF d \in x.es \cup x.ns THEN "absent" ELSE doc[d]]
    /\ vec' = [d \in Docs |-> IF d \in x.ns THEN "none" ELSE vec[d]]
    /\ Pop(p)
    /\ UNCHANGED <<ev, conf, res, work, sidecar, process, faults>>

---------------------------------------------------------------------------
(* Claims.                                                                 *)

PgRemember(p, ns) ==
    /\ PgCaller(p, "remember") /\ ns # {}
    /\ proc' = [proc EXCEPT ![p] = <<[f |-> "load", drafts |-> ns, req |-> FALSE, of |-> {}]>>]
    /\ UNCHANGED <<rows, work, index, sidecar, process, faults>>

(* The source events are read once for all drafts of a commit.             *)
PgLoadSources(p) ==
    LET x == Top(p) IN
    /\ PgAt(p, "load")
    /\ Replace(p, <<[f |-> "commit", drafts |-> x.drafts, req |-> x.req, of |-> x.of,
                     seen |-> LiveEvents]>>)
    /\ UNCHANGED <<rows, work, index, sidecar, process, faults>>

(* One transaction per draft, under the slot's lock.  The row of a claim   *)
(* that is there stays, but its document and the other claims follow the   *)
(* new decision.                                                           *)
PgCommitDraft(p, n) ==
    LET x == Top(p)
        existing == {m \in Nodes \ {n} : nd[m] \in Contending}
        decision == localSlotDecision(n, existing)
        c == Overlapping(n, existing) \cup {n}
        st(m) == IF m = n THEN StatusFor(decision) ELSE "superseded"
        changed == IF decision = "supersedes" THEN c ELSE {n}
        adjudicate == decision = "uncertain" /\ PgUses("adjudicator")
    IN  /\ PgAt(p, "commit") /\ n \in x.drafts /\ Claim[n].src \in x.seen
        /\ nd' = [m \in Nodes |->
                IF m \notin changed \/ (m = n /\ nd[n] # "none") THEN nd[m] ELSE st(m)]
        /\ doc' = [d \in Docs |-> IF d \in changed /\ (d = n \/ doc[d] # "absent")
                                  THEN st(d) ELSE doc[d]]
        /\ conf' = [d \in Conflicts |->
                IF d # c \/ decision \notin {"supersedes", "uncertain"} THEN conf[d]
                ELSE IF decision = "supersedes" THEN "active"
                ELSE IF conf[d] = "none" THEN "pending_resolution" ELSE conf[d]]
        /\ res' = [d \in Conflicts |->
                IF d = c /\ decision = "supersedes" THEN decision ELSE res[d]]
        /\ job' = EnqueueJobs(job,
                (IF PgUses("vectorizer") THEN {EmbedJob(n, "commit")} ELSE {})
                \cup (IF adjudicate THEN {AdjudicateJob(c)} ELSE {}))
        /\ Replace(p, <<[x EXCEPT !.drafts = @ \ {n}]>>)
        /\ UNCHANGED <<ev, dead, outbox, vec, sidecar, process, faults>>

(* An ungrounded draft is quarantined, or fails a required write.          *)
PgQuarantine(p, n) ==
    LET x == Top(p) IN
    /\ PgAt(p, "commit") /\ n \in x.drafts /\ Claim[n].src \notin x.seen
    /\ IF x.req THEN Fail(p) ELSE Replace(p, <<[x EXCEPT !.drafts = @ \ {n}]>>)
    /\ UNCHANGED <<rows, work, index, sidecar, process, faults>>

PgCommitted(p) ==
    LET x == Top(p) IN
    /\ PgAt(p, "commit") /\ x.drafts = {}
    /\ ev' = [e \in Events |-> IF e \in x.of /\ ev[e] # "none" THEN "settled" ELSE ev[e]]
    /\ Pop(p)
    /\ UNCHANGED <<dead, nd, conf, res, work, index, sidecar, process, faults>>

---------------------------------------------------------------------------
(* Adjudication, under the conflict's advisory lock.                       *)

PgResolveConflict(p) ==
    LET x == Top(p) IN
    /\ PgAt(p, "adjudicate") /\ ConflictFree(p, x.c)
    /\ IF res[x.c] # "none" THEN Pop(p) ELSE Replace(p, <<[x EXCEPT !.f = "reply"]>>)
    /\ UNCHANGED <<rows, work, index, sidecar, process, faults>>

(* Winners, and all members that coexist, become active; every other member*)
(* is superseded, whatever the decision was.                               *)
PgPersistAdjudication(c, v) ==
    LET st(n) == IF n \in v.winners \/ v.decision = "coexists" THEN "active"
                 ELSE "superseded"
    IN  /\ nd' = [n \in Nodes |-> IF n \in c THEN st(n) ELSE nd[n]]
        /\ doc' = [d \in Docs |-> IF d \in c /\ doc[d] # "absent" THEN st(d) ELSE doc[d]]
        /\ conf' = [conf EXCEPT ![c] = "active"]
        /\ res' = [res EXCEPT ![c] = v.decision]

PgAdjudicatorReplies(p) ==
    /\ PgAt(p, "reply")
    /\ \E v \in validateAdjudication(Top(p).c) : PgPersistAdjudication(Top(p).c, v)
    /\ Pop(p)
    /\ UNCHANGED <<ev, dead, work, vec, sidecar, process, faults>>

PgAdjudicatorFails(p) ==
    /\ PgAt(p, "reply") /\ Fault /\ Fail(p)
    /\ UNCHANGED <<rows, work, index, sidecar, process>>

(* Pending conflicts are resolved one after the other by the caller.       *)
PgResolvePendingConflicts(p) ==
    LET open == {c \in Conflicts : conf[c] = "pending_resolution"} IN
    /\ PgCaller(p, "resolve") /\ open # {}
    /\ \E c \in open :
        proc' = [proc EXCEPT ![p] = <<[f |-> "adjudicate", c |-> c, soft |-> FALSE]>>]
    /\ UNCHANGED <<rows, work, index, sidecar, process, faults>>

PgPrioritizeConflicts(p) ==
    LET open == {c \in Conflicts : conf[c] = "pending_resolution"} IN
    /\ PgCaller(p, "prioritize") /\ open # {}
    /\ job' = EnqueueJobs(job, {AdjudicateJob(c) : c \in open})
    /\ UNCHANGED <<rows, outbox, index, sidecar, process, proc, faults>>

---------------------------------------------------------------------------
(* Compilation.                                                            *)

PgSealContext(p) ==
    /\ PgCaller(p, "seal")
    /\ job' = EnqueueJobs(job, {ContextJob})
    /\ UNCHANGED <<rows, outbox, index, sidecar, process, proc, faults>>

(* What waits in the context is read, planned and sent to the compiler.    *)
PgCompileContext(p) ==
    LET waiting == {e \in LiveEvents : ev[e] \in {"event_durable", "proposed"}} IN
    /\ PgAt(p, "compile")
    /\ \E low \in SUBSET waiting :
        /\ ev' = [e \in Events |-> IF e \in low THEN "skipped" ELSE ev[e]]
        /\ IF waiting = low THEN Pop(p)
           ELSE Replace(p, <<[f |-> "compiled", ids |-> waiting \ low]>>)
    /\ UNCHANGED <<dead, nd, conf, res, work, index, sidecar, process, faults>>

PgCompilerReplies(p) ==
    LET ids == Top(p).ids IN
    /\ PgAt(p, "compiled")
    /\ \E ns \in SUBSET {n \in Nodes : Claim[n].src \in ids} :
        Replace(p, <<[f |-> "load", drafts |-> ns, req |-> FALSE, of |-> ids]>>)
    /\ UNCHANGED <<rows, work, index, sidecar, process, faults>>

PgCompilerFails(p) ==
    /\ PgAt(p, "compiled") /\ Fault /\ Fail(p)
    /\ UNCHANGED <<rows, work, index, sidecar, process>>

---------------------------------------------------------------------------
(* Jobs.  A lease that lapsed is claimed again while its first owner may   *)
(* still be at work.                                                       *)

PgClaimJob(p) ==
    /\ up /\ opt.engine = "postgres" /\ p \in Workers /\ Idle(p)
    /\ \E k \in {k \in DOMAIN job : job[k].st = "pending"
                    \/ (job[k].st = "running" /\ job[k].lapsed)} :
        /\ job' = [job EXCEPT ![k].st = "running", ![k].lapsed = FALSE]
        /\ proc' = [proc EXCEPT ![p] =
            (CASE k.k = "index_event" ->
                    IF Live(k.of) THEN <<[f |-> "encode", ids |-> {k.of}]>> ELSE <<>>
               [] k.k = "embed" ->
                    IF nd[k.of] # "none" THEN <<[f |-> "embed", n |-> k.of]>> ELSE <<>>
               [] k.k = "adjudicate" ->
                    <<[f |-> "adjudicate", c |-> k.of, soft |-> FALSE]>>
               [] OTHER -> IF PgUses("compiler") THEN <<[f |-> "compile"]>> ELSE <<>>)
            \o <<[f |-> "done", k |-> k, ok |-> TRUE]>>]
    /\ UNCHANGED <<rows, outbox, index, sidecar, process, faults>>

LeaseLapses(k) ==
    /\ opt.engine = "postgres" /\ job[k].st = "running" /\ ~job[k].lapsed /\ Fault
    /\ job' = [job EXCEPT ![k].lapsed = TRUE]
    /\ UNCHANGED <<rows, outbox, index, sidecar, process, proc>>

PgEmbedNode(p) ==
    /\ PgAt(p, "embed")
    /\ vec' = [d \in Docs |-> IF d = Top(p).n /\ doc[d] # "absent" THEN model ELSE vec[d]]
    /\ Pop(p)
    /\ UNCHANGED <<rows, work, doc, sidecar, process, faults>>

PgVectorizerFails(p) ==
    /\ PgAt(p, "embed") /\ Fault /\ Fail(p)
    /\ UNCHANGED <<rows, work, index, sidecar, process>>

(* Faulty variant: a failed job is done too.                               *)
PgFinishAlways(p) ==
    /\ PgAt(p, "done")
    /\ job' = [job EXCEPT ![Top(p).k].st = "complete", ![Top(p).k].lapsed = FALSE]
    /\ Pop(p)
    /\ UNCHANGED <<rows, outbox, index, sidecar, process, faults>>

(* The owner of the lease is not asked for; a failure is tried again.      *)
PgFinishJob(p) ==
    LET x == Top(p) IN
    /\ PgAt(p, "done")
    /\ job' = [job EXCEPT ![x.k].st = IF x.ok THEN "complete" ELSE "pending",
                          ![x.k].lapsed = FALSE]
    /\ Pop(p)
    /\ UNCHANGED <<rows, outbox, index, sidecar, process, faults>>

(* One node of the cluster crashes: its calls are lost, their leases stay. *)
PgCrash(p) ==
    /\ opt.engine = "postgres" /\ "crash" \in opt.calls /\ ~Idle(p) /\ Fault
    /\ proc' = [proc EXCEPT ![p] = <<>>]
    /\ UNCHANGED <<rows, work, index, sidecar, process>>

(* A node opens: lapsed jobs are given back, and events without spans and  *)
(* nodes without an embedding of this model get a job.                     *)
PgOpen ==
    /\ up /\ opt.engine = "postgres" /\ "crash" \in opt.calls
    /\ LET back == [k \in DOMAIN job |->
                IF job[k].st = "running" /\ job[k].lapsed
                THEN [job[k] EXCEPT !.st = "pending", !.lapsed = FALSE] ELSE job[k]]
           bare == {e \in LiveEvents : vec[e] = "none"}
           unembedded == {n \in Nodes : doc[n] # "absent" /\ vec[n] # model}
       IN  job' = EnqueueJobs(back,
                (IF PgUses("encoder")
                 THEN {[k |-> "index_event", of |-> e, mode |-> "reopen"] : e \in bare} ELSE {})
                \cup (IF PgUses("vectorizer")
                      THEN {EmbedJob(n, model) : n \in unembedded} ELSE {}))
    /\ job' # job
    /\ UNCHANGED <<rows, outbox, index, sidecar, process, proc, faults>>
============================================================================
