---------------------------- MODULE MemoryFabric ----------------------------
(***************************************************************************)
(* The SQLite engine of the Memory Fabric: a ledger database that holds the*)
(* evidence, the claims and the work that is owed, and an index database   *)
(* that only projections write.  The two commit separately, so everything  *)
(* between them goes through the outbox and the durable jobs.              *)
(***************************************************************************)
EXTENDS MemoryStore

LOCAL Ext == INSTANCE SequencesExt

Uses(part) == part \in opt.parts
Calls(c) == up /\ opt.engine = "sqlite" /\ c \in opt.calls

(* A goroutine starts a call only when it has none in flight.              *)
Caller(p, c) == Calls(c) /\ p \notin Workers /\ Idle(p)
At(p, f) == opt.engine = "sqlite" /\ TopIs(p, f)
Worker(p) == up /\ opt.engine = "sqlite" /\ p \in Workers /\ Idle(p)

(* writeMu is held by AppendEvents and Forget until they return, outboxMu  *)
(* while rows are projected, sidecarSyncMu while the sidecar is brought up *)
(* to date.                                                                *)
WriteMuFree == InFlight("unlock") = {}
OutboxMuFree(p) ==
    \A q \in Procs \ {p} : \A x \in FramesOf(q) :
        x.f \notin {"apply", "finish"} /\ (x.f = "project" => ~x.on)
SidecarMuFree == InFlight("build") \cup InFlight("check") \cup InFlight("publish") = {}

---------------------------------------------------------------------------
(* Outbox rows are unique by resource and operation.                       *)

(* Rows that are there are pending again, unless they may stay done; the   *)
(* others are added.                                                       *)
Upsert(ob, k, ids, op, keepDone) ==
    LET held == {i \in ids : \E r \in 1 .. Len(ob) :
                    ob[r].kind = k /\ ob[r].id = i /\ ob[r].op = op}
        added == Ext!SetToSeq(ids \ held)
    IN  [r \in 1 .. Len(ob) |->
            IF ob[r].kind = k /\ ob[r].id \in ids /\ ob[r].op = op
               /\ ~(keepDone /\ ob[r].st = "done")
            THEN [ob[r] EXCEPT !.st = "pending"] ELSE ob[r]]
        \o [j \in 1 .. Len(added) |->
            [kind |-> k, id |-> added[j], op |-> op, st |-> "pending"]]

(* Forgetting retires a resource's upsert and asks for its removal.        *)
enqueueForgetOutboxTx(ob, k, ids) ==
    Upsert([r \in 1 .. Len(ob) |->
             IF ob[r].kind = k /\ ob[r].id \in ids /\ ob[r].op = "upsert"
             THEN [ob[r] EXCEPT !.st = "done"] ELSE ob[r]],
           k, ids, "delete", FALSE)

(* A step that projects the rows of these resources.  An error of a soft   *)
(* step is the caller's to ignore.                                         *)
Project(k, ids, soft) ==
    [f |-> "project", kind |-> k, ids |-> ids, on |-> FALSE, soft |-> soft]

---------------------------------------------------------------------------
(* Evidence.                                                               *)

(* Events, and the rows that owe their projection, in one transaction; then*)
(* the projection, the sidecar, and what the write policy asks for.  An    *)
(* event that is there already, or was forgotten, stays as it is.          *)
AppendEvents(p, ids, policy) ==
    /\ Caller(p, "append") /\ WriteMuFree /\ ids # {}
    /\ ev' = [e \in Events |->
            IF e \in ids /\ ev[e] = "none" THEN "event_durable" ELSE ev[e]]
    /\ outbox' = Upsert(outbox, "event", ids, "upsert", TRUE)
    /\ proc' = [proc EXCEPT ![p] =
            <<Project("event", ids, FALSE), [f |-> "sync", ids |-> ids],
              [f |-> policy, ids |-> ids], [f |-> "unlock"]>>]
    /\ UNCHANGED <<dead, nd, conf, res, job, index, sidecar, process, faults>>

(* SemanticDurableOnly asks for nothing more.                              *)
DurableOnly(p) ==
    /\ At(p, "durable_only") /\ Pop(p)
    /\ UNCHANGED <<rows, work, index, sidecar, process, faults>>

(* SemanticDeterministic commits the drafts that need no compiler.         *)
DeterministicDrafts(p) ==
    /\ At(p, "deterministic")
    /\ \E ns \in SUBSET {n \in Nodes : Claim[n].src \in Top(p).ids} :
        Replace(p, <<[f |-> "commit", drafts |-> ns, mode |-> "critical_result",
                      req |-> FALSE, good |-> FALSE, of |-> {}]>>)
    /\ UNCHANGED <<rows, work, index, sidecar, process, faults>>

(* SemanticRequired compiles before it returns.                            *)
RequiredCompile(p) ==
    /\ At(p, "required")
    /\ Replace(p, <<[f |-> "compile", ids |-> Top(p).ids, mode |-> "explicit",
                     req |-> TRUE, planned |-> FALSE]>>)
    /\ UNCHANGED <<rows, work, index, sidecar, process, faults>>

(* Events of the context that wait for a compiler.                         *)
contextEventIDs == {e \in LiveEvents : ev[e] \in {"event_durable", "proposed"}}

(* SemanticDeferred compiles once the batch is large enough.               *)
enqueueCompileIfReady(p) ==
    /\ At(p, "deferred")
    /\ \/ Pop(p)
       \/ Replace(p, <<[f |-> "plan", ids |-> contextEventIDs, mode |-> "normal"]>>)
    /\ UNCHANGED <<rows, work, index, sidecar, process, faults>>

(* The call returns; its lock is released.                                 *)
Return(p) ==
    /\ At(p, "unlock") /\ Pop(p)
    /\ UNCHANGED <<rows, work, index, sidecar, process, faults>>

(* The nodes that cite forgotten events go with them.                      *)
resolveForgetTargetsTx(es, ns) ==
    [e |-> {e \in es : ev[e] # "none"},
     n |-> {n \in Nodes : nd[n] # "none" /\ (n \in ns \/ Claim[n].src \in es)}]

(* Tombstones keep the rows; a purge deletes them, their jobs, and the     *)
(* conflicts that keep fewer than two members.                             *)
Forget(p, es, ns, purge) ==
    LET t == resolveForgetTargetsTx(es, ns)
        gone == t.e \cup t.n
    IN  /\ Caller(p, IF purge THEN "purge" ELSE "forget") /\ WriteMuFree
        /\ gone # {}
        /\ ev' = [e \in Events |->
                IF e \notin t.e THEN ev[e] ELSE IF purge THEN "none" ELSE "tombstoned"]
        /\ dead' = IF purge THEN dead \ t.e ELSE dead \cup t.e
        /\ nd' = [n \in Nodes |->
                IF n \notin t.n THEN nd[n] ELSE IF purge THEN "none" ELSE "tombstoned"]
        /\ conf' = [c \in Conflicts |->
                IF purge /\ Cardinality(c \ t.n) < 2 THEN "none" ELSE conf[c]]
        /\ res' = [c \in Conflicts |-> IF conf'[c] = "none" THEN "none" ELSE res[c]]
        /\ job' = IF purge THEN [k \in {k \in DOMAIN job : k.of \notin gone} |-> job[k]]
                  ELSE job
        /\ outbox' = enqueueForgetOutboxTx(
                        enqueueForgetOutboxTx(outbox, "node", t.n), "event", t.e)
        /\ proc' = [proc EXCEPT ![p] = <<Project("node", t.n, FALSE),
                Project("event", t.e, FALSE), [f |-> "unlock"]>>]
        /\ UNCHANGED <<index, sidecar, process, faults>>

---------------------------------------------------------------------------
(* Projection of outbox rows into the index, under outboxMu: the row's     *)
(* resource is read, the index transaction commits, the row is settled.    *)

(* What the ledger says about a row's resource when it is read.            *)
Reads(row) ==
    IF row.op = "delete" THEN "absent"
    ELSE IF row.kind = "event" THEN IF Live(row.id) THEN "event" ELSE "absent"
    ELSE IF nd[row.id] = "none" THEN "absent" ELSE nd[row.id]
Apply(rs, claimed, soft) ==
    [f |-> "apply", rs |-> rs, saw |-> [r \in rs |-> Reads(outbox[r])],
     claimed |-> claimed, soft |-> soft]

(* A worker claims the oldest pending row.                                 *)
processOutboxOnce(p) ==
    LET ready == {r \in 1 .. Len(outbox) : outbox[r].st = "pending"}
    IN  /\ Worker(p) /\ OutboxMuFree(p) /\ ready # {}
        /\ LET r == CHOOSE x \in ready : \A y \in ready : x <= y
           IN  /\ outbox' = [outbox EXCEPT ![r].st = "running"]
               /\ proc' = [proc EXCEPT ![p] = <<Apply({r}, TRUE, FALSE)>>]
        /\ UNCHANGED <<rows, job, index, sidecar, process, faults>>

(* A caller projects its own resources, each by its oldest row that is not *)
(* done; several events that are all to be inserted go in one transaction. *)
projectResources(p) ==
    LET x == Top(p)
        owed(i) == {r \in 1 .. Len(outbox) :
            outbox[r].kind = x.kind /\ outbox[r].id = i /\ outbox[r].st # "done"}
        first(i) == CHOOSE r \in owed(i) : \A y \in owed(i) : r <= y
        todo == {i \in x.ids : owed(i) # {}}
        rs == {first(i) : i \in todo}
        batch == x.kind = "event" /\ Cardinality(x.ids) > 1
                 /\ \A r \in rs : Reads(outbox[r]) # "absent"
    IN  /\ At(p, "project") /\ OutboxMuFree(p)
        /\ \/ todo = {} /\ Pop(p)
           \/ /\ todo # {} /\ batch
              /\ Replace(p, <<Apply(rs, FALSE, x.soft)>>)
           \/ /\ todo # {} /\ ~batch
              /\ \E i \in todo : Replace(p, <<Apply({first(i)}, FALSE, x.soft),
                    [x EXCEPT !.ids = @ \ {i}, !.on = TRUE]>>)
        /\ UNCHANGED <<rows, work, index, sidecar, process, faults>>

(* Documents that deserve a vector: nodes and chunks, unless retired.      *)
Indexable(d, st) ==
    d \notin Events /\ st \notin {"absent", "tombstoned", "rejected", "quarantined"}

(* One index transaction.  A vector is deleted with its document, or when  *)
(* the document no longer deserves one; new embeddings become jobs.        *)
WriteIndex(puts) ==
    LET ds == DOMAIN puts
        keeps(d) == d \notin ds \/ Indexable(d, puts[d])
                    \/ (puts[d] = "absent" /\ doc[d] = "absent")
    IN  /\ doc' = [d \in Docs |-> IF d \in ds THEN puts[d] ELSE doc[d]]
        /\ vec' = [d \in Docs |-> IF keeps(d) THEN vec[d] ELSE "none"]
        /\ job' = IF ~Uses("vectorizer") THEN job
                  ELSE EnqueueJobs(job, {EmbedJob(d, model) : d \in
                            {d \in ds : Indexable(d, puts[d])}})

(* The rows' resources are indexed as they were read.                      *)
projectOutboxRecord(p) ==
    LET x == Top(p) IN
    /\ At(p, "apply")
    /\ WriteIndex([i \in {outbox[r].id : r \in x.rs} |->
            x.saw[CHOOSE r \in x.rs : outbox[r].id = i]])
    /\ Replace(p, <<[x EXCEPT !.f = "finish"]>>)
    /\ UNCHANGED <<rows, outbox, sidecar, process, faults>>

(* Faulty variant: every row of the resources is settled, also one that    *)
(* came while they were projected.                                         *)
finishResources(p) ==
    /\ At(p, "finish")
    /\ LET ids == {outbox[r].id : r \in Top(p).rs} IN
       outbox' = [r \in 1 .. Len(outbox) |->
            IF outbox[r].id \in ids THEN [outbox[r] EXCEPT !.st = "done"] ELSE outbox[r]]
    /\ Pop(p)
    /\ UNCHANGED <<rows, job, index, sidecar, process, faults>>

(* The rows that were projected, by number, are done.                      *)
finishOutboxRecords(p) ==
    /\ At(p, "finish")
    /\ outbox' = [r \in 1 .. Len(outbox) |->
            IF r \in Top(p).rs THEN [outbox[r] EXCEPT !.st = "done"] ELSE outbox[r]]
    /\ Pop(p)
    /\ UNCHANGED <<rows, job, index, sidecar, process, faults>>

(* An ignored error ends the projection of the other resources too.        *)
Pass(p) ==
    proc' = [proc EXCEPT ![p] =
        IF Len(@) > 1 /\ @[2].f = "project" /\ @[2].on THEN Tail(Tail(@)) ELSE Tail(@)]

(* The index refuses: a worker gives its row back, a caller leaves it.     *)
ProjectionFails(p) ==
    LET x == Top(p) IN
    /\ At(p, "apply") /\ Fault
    /\ outbox' = [r \in 1 .. Len(outbox) |->
            IF r \in x.rs /\ x.claimed THEN [outbox[r] EXCEPT !.st = "pending"]
            ELSE outbox[r]]
    /\ IF x.soft THEN Pass(p) ELSE Fail(p)
    /\ UNCHANGED <<rows, job, index, sidecar, process>>

---------------------------------------------------------------------------
(* Claims.                                                                 *)

Commit(ns, mode, req, of) ==
    [f |-> "commit", drafts |-> ns, mode |-> mode, req |-> req, good |-> FALSE,
     of |-> of]

(* A caller brings its own drafts for events that are durable.             *)
Remember(p, ns, mode) ==
    /\ Caller(p, "remember") /\ ns # {}
    /\ proc' = [proc EXCEPT ![p] = <<Commit(ns, mode, FALSE, {})>>]
    /\ UNCHANGED <<rows, work, index, sidecar, process, faults>>

(* A draft that cites no live event is quarantined; one that does goes on  *)
(* with the events that were read.                                         *)
validateDraft(p) ==
    LET x == Top(p) IN
    /\ At(p, "commit")
    /\ \E n \in x.drafts :
        LET rest == [x EXCEPT !.drafts = @ \ {n}] IN
        IF Live(Claim[n].src)
        THEN Replace(p, <<[f |-> "persist", n |-> n, mode |-> x.mode, req |-> x.req],
                          [rest EXCEPT !.good = TRUE]>>)
        ELSE Replace(p, <<rest>>)
    /\ UNCHANGED <<rows, work, index, sidecar, process, faults>>

(* All drafts are done.  Where nothing was grounded a required write fails;*)
(* otherwise the events that they came from are settled, forgotten or not. *)
commitDrafts(p) ==
    LET x == Top(p) IN
    /\ At(p, "commit") /\ x.drafts = {}
    /\ IF x.req /\ ~x.good THEN Fail(p) /\ UNCHANGED ev
       ELSE /\ Pop(p)
            /\ ev' = [e \in Events |->
                    IF e \in x.of /\ ev[e] # "none" THEN "settled" ELSE ev[e]]
    /\ UNCHANGED <<dead, nd, conf, res, work, index, sidecar, process, faults>>

(* Modes whose conflicts are critical whatever the claim is about, and the *)
(* modes whose writes must end in a claim.                                 *)
Weighty == {"correction", "preference", "constraint", "critical_result"}
isSynchronousWriteMode(mode) == mode \in Weighty \cup {"explicit"}

(* Where an outcome leaves a conflict: critical ones are adjudicated now,  *)
(* imports wait for a batch, the others become a job.                      *)
AfterConflict(x, critical, c) ==
    IF x.mode = "import" \/ ~Uses("adjudicator") THEN <<>>
    ELSE IF critical THEN <<[f |-> "adjudicate", c |-> c, soft |-> ~x.req]>>
    ELSE <<[f |-> "enqueue", c |-> c]>>

(* One transaction: a claim that is there already stays as it is; another  *)
(* is decided against the claims that hold the slot at this moment.        *)
persistGroundedDraft(p) ==
    LET x == Top(p)
        n == x.n
        existing == {m \in Nodes \ {n} : nd[m] \in Contending}
        decision == localSlotDecision(n, existing)
        c == Overlapping(n, existing) \cup {n}
        changed == IF decision = "supersedes" THEN c ELSE {n}
        critical == decision = "uncertain" /\ (Claim[n].critical \/ x.mode \in Weighty)
    IN  /\ At(p, "persist")
        /\ IF nd[n] # "none"
           THEN Pop(p) /\ UNCHANGED <<nd, conf, res, outbox>>
           ELSE /\ nd' = [m \in Nodes |->
                        IF m = n THEN StatusFor(decision)
                        ELSE IF m \in changed THEN "superseded" ELSE nd[m]]
                /\ conf' = [d \in Conflicts |->
                        IF d # c \/ decision \notin {"supersedes", "uncertain"} THEN conf[d]
                        ELSE IF decision = "supersedes" THEN "active"
                        ELSE IF conf[d] = "none" THEN "pending_resolution" ELSE conf[d]]
                /\ res' = [d \in Conflicts |->
                        IF d = c /\ decision = "supersedes" THEN decision ELSE res[d]]
                /\ outbox' = Upsert(outbox, "node", changed, "upsert", FALSE)
                /\ Replace(p, <<Project("node", changed, FALSE)>> \o
                        IF decision \in {"supersedes", "uncertain"}
                        THEN AfterConflict(x, critical, c) ELSE <<>>)
        /\ UNCHANGED <<ev, dead, job, index, sidecar, process, faults>>

enqueueAdjudication(p) ==
    /\ At(p, "enqueue")
    /\ job' = EnqueueJobs(job, {AdjudicateJob(Top(p).c)})
    /\ Pop(p)
    /\ UNCHANGED <<rows, outbox, index, sidecar, process, faults>>

---------------------------------------------------------------------------
(* Adjudication.                                                           *)

(* Under the conflict's lock: a resolution that is there is the answer;    *)
(* otherwise the adjudicator is called with the members as they are.       *)
resolveConflict(p) ==
    LET x == Top(p) IN
    /\ At(p, "adjudicate") /\ ConflictFree(p, x.c)
    /\ IF conf[x.c] = "none" THEN IF x.soft THEN Pass(p) ELSE Fail(p)
       ELSE IF res[x.c] # "none" THEN Pop(p)
       ELSE Replace(p, <<[x EXCEPT !.f = "reply"]>>)
    /\ UNCHANGED <<rows, work, index, sidecar, process, faults>>

(* What each decision makes of a member.                                   *)
Verdict(v, n) ==
    IF v.decision = "scoped" THEN "scoped"
    ELSE IF n \in v.winners THEN "active"
    ELSE IF v.decision = "duplicate" THEN "rejected" ELSE "superseded"

(* Faulty variant: every answer is applied to the claims.                  *)
DecidesAlways(v) == v.decision # "none"
Decides(v) == v.decision \notin {"uncertain", "needs_compile"}

(* One transaction records the verdict.  A verdict that decides nothing    *)
(* leaves the claims as they are; a forgotten claim is never changed.      *)
persistAdjudication(c, v) ==
    /\ nd' = [n \in Nodes |->
            IF n \in c /\ Decides(v) /\ nd[n] \notin {"none", "tombstoned"}
            THEN Verdict(v, n) ELSE nd[n]]
    /\ conf' = [conf EXCEPT ![c] = IF Decides(v) THEN "active" ELSE "unresolved"]
    /\ res' = [res EXCEPT ![c] = IF @ = "none" THEN v.decision ELSE @]
    /\ outbox' = Upsert(outbox, "node", IF Decides(v) THEN c ELSE {}, "upsert", FALSE)

(* A job whose verdict needs more evidence asks for a compilation of what  *)
(* the members cite.  The conflict may have been purged under the call.    *)
AdjudicatorReplies(p) ==
    LET x == Top(p)
        again == Len(proc[p]) > 1 /\ proc[p][2].f = "done" /\ Uses("compiler")
    IN  /\ At(p, "reply")
        /\ IF conf[x.c] = "none"
           THEN /\ IF x.soft THEN Pop(p) ELSE Fail(p)
                /\ UNCHANGED <<nd, conf, res, outbox>>
           ELSE \E v \in validateAdjudication(x.c) :
                /\ persistAdjudication(x.c, v)
                /\ Replace(p, <<Project("node", IF Decides(v) THEN x.c ELSE {}, x.soft)>> \o
                        IF v.decision = "needs_compile" /\ again
                        THEN <<[f |-> "plan", ids |-> {Claim[n].src : n \in x.c},
                                mode |-> "correction"]>>
                        ELSE <<>>)
        /\ UNCHANGED <<ev, dead, job, index, sidecar, process, faults>>

(* The call fails, or its answer does not validate.                        *)
AdjudicatorFails(p) ==
    /\ At(p, "reply") /\ Fault
    /\ IF Top(p).soft THEN Pop(p) ELSE Fail(p)
    /\ UNCHANGED <<rows, work, index, sidecar, process>>

(* A batch of open conflicts is read, and sent, under no lock.             *)
ResolvePendingConflicts(p) ==
    LET open == {c \in Conflicts :
                    conf[c] \in {"pending_resolution", "unresolved"} /\ res[c] = "none"}
    IN  /\ Caller(p, "resolve") /\ open # {}
        /\ proc' = [proc EXCEPT ![p] = <<[f |-> "batch", cs |-> open]>>]
        /\ UNCHANGED <<rows, work, index, sidecar, process, faults>>

(* The batch answers about its conflicts one by one, or about some only.   *)
BatchReplies(p) ==
    LET x == Top(p) IN
    /\ At(p, "batch")
    /\ \/ Pop(p) /\ UNCHANGED <<nd, conf, res, outbox>>
       \/ \E c \in {c \in x.cs : conf[c] # "none"} : \E v \in validateAdjudication(c) :
            /\ persistAdjudication(c, v)
            /\ Replace(p, <<Project("node", IF Decides(v) THEN c ELSE {}, FALSE),
                            [x EXCEPT !.cs = @ \ {c}]>>)
    /\ UNCHANGED <<ev, dead, job, index, sidecar, process, faults>>

(* Open conflicts are sent to the adjudicator ahead of their time.         *)
PrioritizeConflicts(p) ==
    LET open == {c \in Conflicts : conf[c] \in {"pending_resolution", "unresolved"}} IN
    /\ Caller(p, "prioritize") /\ open # {}
    /\ job' = EnqueueJobs(job, {AdjudicateJob(c) : c \in open})
    /\ UNCHANGED <<rows, outbox, index, sidecar, process, proc, faults>>

---------------------------------------------------------------------------
(* Compilation.                                                            *)

(* A context is closed: chunks of its text are indexed, and what waits for *)
(* a compiler becomes a job.                                               *)
SealContext(p, mode) ==
    /\ Caller(p, "seal") /\ contextEventIDs # {}
    /\ proc' = [proc EXCEPT ![p] =
            <<[f |-> "chunks", ids |-> contextEventIDs],
              [f |-> "plan", ids |-> contextEventIDs, mode |-> mode]>>]
    /\ UNCHANGED <<rows, work, index, sidecar, process, faults>>

(* The chunk of the live events replaces the context's other chunks.       *)
projectSessionChunks(p) ==
    LET live == Top(p).ids \cap LiveEvents
        stale == {d \in Chunks : doc[d] # "absent"} \ {Chunk(live)}
    IN  /\ At(p, "chunks")
        /\ IF ~Uses("vectorizer") \/ live = {} THEN UNCHANGED <<doc, vec, job>>
           ELSE WriteIndex([d \in stale \cup {Chunk(live)} |->
                                IF d = Chunk(live) THEN "event" ELSE "absent"])
        /\ Pop(p)
        /\ UNCHANGED <<rows, outbox, sidecar, process, faults>>

(* Events still waiting that the compiler will not see.                    *)
Skip(es) ==
    [e \in Events |-> IF e \in es /\ ev[e] \in {"event_durable", "proposed"}
                      THEN "skipped" ELSE ev[e]]

(* The planner skips some events; the rest becomes one compile job.        *)
planAndEnqueueCompile(p) ==
    LET x == Top(p)
        live == x.ids \cap LiveEvents
    IN  /\ At(p, "plan")
        /\ IF ~Uses("compiler") \/ live = {}
           THEN ev' = Skip(x.ids) /\ UNCHANGED job
           ELSE \E low \in SUBSET live :
                LET batch == live \ low IN
                /\ ev' = [e \in Events |->
                        IF e \in batch /\ ev[e] = "event_durable" THEN "proposed"
                        ELSE Skip(low)[e]]
                /\ job' = EnqueueJobs(job,
                        IF batch = {} THEN {} ELSE {CompileJob(batch, x.mode)})
        /\ Pop(p)
        /\ UNCHANGED <<dead, nd, conf, res, outbox, index, sidecar, process, faults>>

(* The events are read, planned if the job has no sources yet, and sent.   *)
compileDurableEvents(p) ==
    LET x == Top(p)
        live == x.ids \cap LiveEvents
    IN  /\ At(p, "compile")
        /\ IF live = {} THEN Fail(p) /\ UNCHANGED ev
           ELSE \E low \in IF x.planned THEN {{}} ELSE SUBSET live :
                /\ ev' = Skip(low)
                /\ IF live = low THEN Pop(p)
                   ELSE Replace(p, <<[x EXCEPT !.f = "compiled", !.ids = live \ low]>>)
        /\ UNCHANGED <<dead, nd, conf, res, work, index, sidecar, process, faults>>

(* Drafts come back.  Sources that no draft cites are skipped.             *)
CompilerReplies(p) ==
    LET x == Top(p) IN
    /\ At(p, "compiled")
    /\ \E ns \in SUBSET {n \in Nodes : Claim[n].src \in x.ids} :
        LET used == {Claim[n].src : n \in ns} IN
        /\ ev' = Skip(x.ids \ used)
        /\ Replace(p, IF ns = {} THEN <<>> ELSE <<Commit(ns, x.mode, x.req, used)>>)
    /\ UNCHANGED <<dead, nd, conf, res, work, index, sidecar, process, faults>>

CompilerFails(p) ==
    /\ At(p, "compiled") /\ Fault /\ Fail(p)
    /\ UNCHANGED <<rows, work, index, sidecar, process>>

---------------------------------------------------------------------------
(* Durable jobs.                                                           *)

(* Compilations first, and only so many at a time.                         *)
processJobOnce(p) ==
    LET ready(kind) == {k \in JobsIn("pending") : k.k = kind}
        busy == Cardinality({k \in JobsIn("running") : k.k = "compile"})
        compiles == IF busy < CompileConcurrency THEN ready("compile") ELSE {}
        next == IF compiles # {} THEN compiles ELSE ready("adjudicate")
    IN  /\ Worker(p) /\ JobsIn("pending") # {}
        /\ {r \in 1 .. Len(outbox) : outbox[r].st = "pending"} = {}
        /\ \E k \in next :
            /\ job' = [job EXCEPT ![k].st = "running", ![k].n = @ + 1]
            /\ proc' = [proc EXCEPT ![p] =
                <<IF k.k = "adjudicate" THEN [f |-> "adjudicate", c |-> k.of, soft |-> FALSE]
                  ELSE [f |-> "compile", ids |-> k.of, mode |-> k.mode,
                        req |-> isSynchronousWriteMode(k.mode), planned |-> TRUE],
                  [f |-> "done", ks |-> {k}, ok |-> TRUE]>>]
        /\ UNCHANGED <<rows, outbox, index, sidecar, process, faults>>

(* Embeddings are claimed together when there is nothing else to do.       *)
processEmbeddingBatchOnce(p) ==
    LET ks == {k \in JobsIn("pending") : k.k = "embed"} IN
    /\ Worker(p) /\ ks # {} /\ {k \in JobsIn("pending") : k.k # "embed"} = {}
    /\ {r \in 1 .. Len(outbox) : outbox[r].st = "pending"} = {}
    /\ job' = [k \in DOMAIN job |->
            IF k \in ks THEN [job[k] EXCEPT !.st = "running", !.n = @ + 1] ELSE job[k]]
    /\ proc' = [proc EXCEPT ![p] =
            <<[f |-> "embed", ks |-> ks], [f |-> "done", ks |-> ks, ok |-> TRUE]>>]
    /\ UNCHANGED <<rows, outbox, index, sidecar, process, faults>>

(* Vectors are stored under whatever model the process runs, whether or    *)
(* not their documents still exist.                                        *)
embedDocumentJobs(p) ==
    /\ At(p, "embed")
    /\ vec' = [d \in Docs |-> IF \E k \in Top(p).ks : k.of = d THEN model ELSE vec[d]]
    /\ Pop(p)
    /\ UNCHANGED <<rows, work, doc, sidecar, process, faults>>

VectorizerFails(p) ==
    /\ At(p, "embed") /\ Fault /\ Fail(p)
    /\ UNCHANGED <<rows, work, index, sidecar, process>>

(* A job fails for good after its second attempt.                          *)
finishJobs(p) ==
    LET x == Top(p) IN
    /\ At(p, "done")
    /\ job' = [k \in DOMAIN job |->
            IF k \notin x.ks THEN job[k]
            ELSE [job[k] EXCEPT !.st = IF x.ok THEN "complete"
                                       ELSE IF job[k].n >= 2 THEN "failed" ELSE "pending"]]
    /\ Pop(p)
    /\ UNCHANGED <<rows, outbox, index, sidecar, process, faults>>

(* Flush, once there is no work left, drops vectors without a document.    *)
pruneOrphanVectors(p) ==
    /\ Caller(p, "flush")
    /\ JobsIn("pending") = {} /\ {r \in 1 .. Len(outbox) : outbox[r].st = "pending"} = {}
    /\ vec' = [d \in Docs |-> IF Indexable(d, doc[d]) THEN vec[d] ELSE "none"]
    /\ vec' # vec
    /\ UNCHANGED <<rows, work, doc, sidecar, process, proc, faults>>

---------------------------------------------------------------------------
(* The retrieval sidecar, a third database of encoded events.  Its meta    *)
(* rows say which ledger it was last known to equal.                       *)

(* What makes it eligible for Search.                                      *)
retrievalSidecarReady == side.built /\ side.sum = LiveEvents

(* A Search begins.  What was live and what was forgotten then stays with  *)
(* the call, as history that no step reads.                                *)
Search(p) ==
    /\ Caller(p, "search") /\ Uses("encoder")
    /\ proc' = [proc EXCEPT ![p] =
            <<[f |-> "align"], [f |-> "recall", live |-> LiveEvents, gone |-> dead]>>]
    /\ UNCHANGED <<rows, work, index, sidecar, process, faults>>

(* It brings the sidecar up to date: unless the published one is current, a*)
(* replacement is built aside ...                                          *)
SyncRetrievalSidecar(p) ==
    /\ At(p, "align") /\ SidecarMuFree
    /\ Replace(p, IF retrievalSidecarReady THEN <<>> ELSE <<[f |-> "build", snap |-> LiveEvents]>>)
    /\ UNCHANGED <<rows, work, index, sidecar, process, faults>>

(* ... starting from what an earlier attempt left ...                      *)
indexSidecarEvents(p) ==
    /\ At(p, "build")
    /\ stage' = Top(p).snap
    /\ Replace(p, <<[f |-> "check", snap |-> Top(p).snap]>>)
    /\ UNCHANGED <<rows, work, index, side, process, faults>>

EncoderFails(p) ==
    /\ At(p, "build") /\ Fault
    /\ \E part \in SUBSET Top(p).snap : stage' = stage \cup part
    /\ Fail(p)
    /\ UNCHANGED <<rows, work, index, side, process>>

(* ... is given up when the ledger changed under it ...                    *)
VerifyStaging(p) ==
    /\ At(p, "check")
    /\ IF LiveEvents # Top(p).snap THEN Fail(p)
       ELSE Replace(p, <<[f |-> "publish", snap |-> Top(p).snap]>>)
    /\ UNCHANGED <<rows, work, index, sidecar, process, faults>>

(* ... and takes the place of the published one once nobody reads it.      *)
publishRetrievalSidecar(p) ==
    /\ At(p, "publish") /\ InFlight("expand") = {}
    /\ side' = [has |-> stage, sum |-> Top(p).snap, built |-> TRUE]
    /\ stage' = {}
    /\ Pop(p)
    /\ UNCHANGED <<rows, work, index, process, faults>>

(* The lexical and sparse channels find the events that match the query,   *)
(* the dense one ranks all of them.  Bound: fewer events than it returns.  *)
Channels == side.has

(* The graph and the contexts add events that are related to candidates.   *)
Related(pool) == SUBSET (side.has \ pool)

(* The channels read the sidecar, which appends may extend meanwhile ...   *)
searchBGERetrieval(p) ==
    /\ At(p, "recall")
    /\ Replace(p, <<[f |-> "expand", live |-> Top(p).live, gone |-> Top(p).gone, pool |-> Channels]>>)
    /\ UNCHANGED <<rows, work, index, sidecar, process, faults>>

(* ... then the graph and the contexts of the candidates are read.         *)
loadSidecarContextEvents(p) ==
    LET x == Top(p) IN
    /\ At(p, "expand")
    /\ \E related \in Related(x.pool) :
        Replace(p, <<[f |-> "answer", live |-> x.live, gone |-> x.gone, pool |-> x.pool \cup related]>>)
    /\ UNCHANGED <<rows, work, index, sidecar, process, faults>>

(* Encoding the query, reading or reranking fails: so does the Search.     *)
RetrievalFails(p) ==
    /\ At(p, "recall") \/ At(p, "expand")
    /\ Fault /\ Fail(p)
    /\ UNCHANGED <<rows, work, index, sidecar, process>>

(* The evidence is a choice among the candidates.                          *)
selectSubmodularEvidence(p) ==
    /\ At(p, "answer")
    /\ Pop(p)
    /\ UNCHANGED <<rows, work, index, sidecar, process, faults>>

(* Faulty variant: the numbers of events are not compared.                 *)
syncUncounted(p) ==
    LET live == Top(p).ids \cap LiveEvents IN
    /\ At(p, "sync") /\ SidecarMuFree
    /\ side' = IF ~Uses("encoder") \/ ~side.built \/ live \subseteq side.has THEN side
               ELSE [side EXCEPT !.has = @ \cup live, !.sum = LiveEvents]
    /\ Pop(p)
    /\ UNCHANGED <<rows, work, index, stage, process, faults>>

(* An append adds its own events to a sidecar that was built, and takes the*)
(* whole for current when the numbers of events agree.                     *)
syncRetrievalSidecarEvents(p) ==
    LET live == Top(p).ids \cap LiveEvents
        has == side.has \cup live
    IN  /\ At(p, "sync") /\ SidecarMuFree
        /\ side' = IF ~Uses("encoder") \/ ~side.built \/ live \subseteq side.has THEN side
                   ELSE IF Cardinality(has) # Cardinality(LiveEvents)
                   THEN [side EXCEPT !.has = has]
                   ELSE [side EXCEPT !.has = has, !.sum = LiveEvents]
        /\ Pop(p)
        /\ UNCHANGED <<rows, work, index, stage, process, faults>>

SidecarSyncFails(p) ==
    /\ At(p, "sync") /\ SidecarMuFree /\ Uses("encoder") /\ Fault
    /\ Pop(p)
    /\ UNCHANGED <<rows, work, index, sidecar, process>>

---------------------------------------------------------------------------
(* The process stops, by Close or by a crash: what was in flight is lost.  *)
Crash ==
    /\ Calls("crash") /\ Fault /\ up' = FALSE
    /\ proc' = [p \in Procs |-> <<>>]
    /\ side' \in {side} \cup IF InFlight("publish") = {} THEN {}
                             ELSE {[side EXCEPT !.built = FALSE, !.has = {}]}
    /\ UNCHANGED <<rows, work, index, stage, opt, model>>

(* It opens again, perhaps with another model: claimed rows are given back,*)
(* jobs once their lease lapsed, and vectors of another model are dropped. *)
OpenFabric(m) ==
    /\ ~up /\ opt.engine = "sqlite" /\ up' = TRUE /\ model' = m
    /\ outbox' = [r \in 1 .. Len(outbox) |->
            [outbox[r] EXCEPT !.st = IF @ = "running" THEN "pending" ELSE @]]
    /\ \E lapsed \in SUBSET JobsIn("running") :
        job' = [k \in DOMAIN job |->
            IF k \in lapsed THEN [job[k] EXCEPT !.st = "pending"] ELSE job[k]]
    /\ vec' = [d \in Docs |-> IF m = model THEN vec[d] ELSE "none"]
    /\ UNCHANGED <<rows, doc, sidecar, opt, proc, faults>>
============================================================================
