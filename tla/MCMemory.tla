------------------------------ MODULE MCMemory ------------------------------
(***************************************************************************)
(* The Memory Fabric on small instances.  Each options record of Scenes is *)
(* one configuration of one engine, with the calls that its two callers    *)
(* make and the worker that serves them.                                   *)
(***************************************************************************)
EXTENDS MemoryFabric, MemoryPostgres

CONSTANTS e1, e2, e3, n1, n2, n3, c1, c2, w1, w2, m1, m2

(* Three claims about one slot, all different; n3 is the latest, and n2    *)
(* ends before it begins.  Only n2 and n3 are of a facet that local policy *)
(* may decide, and both are critical.                                      *)
MCClaim == (n1 :> [src |-> e1, value |-> 1, from |-> 1, until |-> 0, authority |-> 1,
                   local |-> FALSE, critical |-> FALSE])
        @@ (n2 :> [src |-> e2, value |-> 2, from |-> 1, until |-> 1, authority |-> 1,
                   local |-> TRUE, critical |-> TRUE])
        @@ (n3 :> [src |-> e2, value |-> 3, from |-> 2, until |-> 0, authority |-> 1,
                   local |-> TRUE, critical |-> TRUE])

Scene(name, engine, parts, calls, policies) ==
    [name |-> name, engine |-> engine, parts |-> parts, calls |-> calls,
     policies |-> policies, events |-> {e1, e2}, nodes |-> {}, seeded |-> {},
     batch |-> 1, procs |-> {c1, w1}, faults |-> 1, modes |-> {"normal"}]

Scenes == {
    [Scene("index", "sqlite", {}, {"append", "forget", "crash"}, {"durable_only"})
        EXCEPT !.batch = 2, !.procs = {c1, c2, w1}, !.faults = 2],
    [Scene("claims", "sqlite", {"adjudicator"}, {"remember"}, {})
        EXCEPT !.nodes = Nodes, !.seeded = {e1, e2}, !.faults = 0],
    [Scene("verdicts", "sqlite", {"adjudicator"}, {"remember", "resolve", "prioritize"}, {})
        EXCEPT !.nodes = {n1, n3}, !.seeded = {e1, e2}],
    [Scene("evidence", "sqlite", {"adjudicator", "compiler"}, {"remember"}, {})
        EXCEPT !.nodes = {n1, n3}, !.seeded = {e1, e2}, !.faults = 0],
    [Scene("write", "sqlite", {"adjudicator", "compiler"}, {"append", "purge"},
           {"required", "deterministic"}) EXCEPT !.nodes = {n1}, !.events = {e1}],
    [Scene("compile", "sqlite", {"vectorizer", "compiler"},
           {"append", "seal", "crash"}, {"deferred"})
        EXCEPT !.nodes = {n1}, !.events = {e1}],
    [Scene("import", "sqlite", {"vectorizer", "compiler"}, {"append", "seal"}, {"deferred"})
        EXCEPT !.nodes = {n1}, !.events = {e1}, !.faults = 0, !.modes = {"import"}],
    [Scene("embed", "sqlite", {"vectorizer"}, {"remember", "forget", "flush"}, {})
        EXCEPT !.nodes = {n1}, !.events = {e1}, !.seeded = {e1}, !.modes = {"normal", "import"}],
    [Scene("sidecar", "sqlite", {"encoder"}, {"append", "forget", "search"},
           {"durable_only"}) EXCEPT !.procs = {c1, c2}, !.faults = 0],
    [Scene("sidecar_fails", "sqlite", {"encoder"}, {"append", "search"},
           {"durable_only"}) EXCEPT !.procs = {c1, c2}],
    [Scene("pg_index", "postgres", {"encoder"}, {"append", "forget", "crash"},
           {"durable_only"}) EXCEPT !.procs = {c1, w1, w2}, !.events = {e1}, !.faults = 2],
    [Scene("pg_events", "postgres", {"encoder"}, {"append", "crash"},
           {"durable_only"}) EXCEPT !.procs = {c1, w1, w2}],
    [Scene("pg_append", "postgres", {"vectorizer", "compiler"}, {"append", "seal", "crash"},
           {"deferred", "deterministic"}) EXCEPT !.nodes = {n1}, !.events = {e1}],
    [Scene("pg_claims", "postgres", {"adjudicator"},
           {"remember", "forget", "resolve", "prioritize"}, {})
        EXCEPT !.nodes = {n1, n3}, !.seeded = {e1, e2}] }

UpTo(k, S) == {T \in SUBSET S : Cardinality(T) <= k}

(* A behaviour of a scene starts from a ledger that has its seeded events, *)
(* all of them indexed.                                                    *)
Start(S) ==
    /\ opt \in S
    /\ ev = [e \in Events |-> IF e \in opt.seeded THEN "event_durable" ELSE "none"]
    /\ dead = {} /\ nd = [n \in Nodes |-> "none"]
    /\ conf = [c \in Conflicts |-> "none"] /\ res = [c \in Conflicts |-> "none"]
    /\ outbox = <<>> /\ job = <<>>
    /\ doc = [d \in Docs |-> IF d \in opt.seeded THEN "event" ELSE "absent"]
    /\ vec = [d \in Docs |-> "none"]
    /\ side = [has |-> {}, sum |-> {}, built |-> FALSE] /\ stage = {}
    /\ up = TRUE /\ model = m1
    /\ proc = [p \in Procs |-> <<>>] /\ faults = 0
MemoryInit == Start(Scenes)

(* What a goroutine of the SQLite engine that is in no call may begin ...  *)
FabricCall(p) ==
    \/ \E ids \in UpTo(opt.batch, opt.events), policy \in opt.policies : AppendEvents(p, ids, policy)
    \/ \E es \in UpTo(opt.batch, opt.events), purge \in BOOLEAN : Forget(p, es, {}, purge)
    \/ \E ns \in UpTo(opt.batch, opt.nodes), mode \in opt.modes : Remember(p, ns, mode)
    \/ \E mode \in opt.modes : SealContext(p, mode)
    \/ ResolvePendingConflicts(p) \/ PrioritizeConflicts(p) \/ pruneOrphanVectors(p) \/ Search(p)
    \/ processOutboxOnce(p) \/ processJobOnce(p) \/ processEmbeddingBatchOnce(p)

(* ... and how a call goes on.                                             *)
FabricStep(p) ==
    \/ DurableOnly(p) \/ DeterministicDrafts(p) \/ RequiredCompile(p)
    \/ enqueueCompileIfReady(p) \/ Return(p)
    \/ projectResources(p) \/ projectOutboxRecord(p) \/ finishOutboxRecords(p) \/ ProjectionFails(p)
    \/ validateDraft(p) \/ commitDrafts(p) \/ persistGroundedDraft(p)
    \/ enqueueAdjudication(p) \/ resolveConflict(p) \/ AdjudicatorReplies(p)
    \/ AdjudicatorFails(p) \/ BatchReplies(p)
    \/ projectSessionChunks(p) \/ planAndEnqueueCompile(p) \/ compileDurableEvents(p)
    \/ CompilerReplies(p) \/ CompilerFails(p)
    \/ embedDocumentJobs(p) \/ VectorizerFails(p) \/ finishJobs(p)
    \/ SyncRetrievalSidecar(p) \/ indexSidecarEvents(p) \/ EncoderFails(p)
    \/ VerifyStaging(p) \/ searchBGERetrieval(p) \/ loadSidecarContextEvents(p)
    \/ RetrievalFails(p) \/ selectSubmodularEvidence(p)
    \/ publishRetrievalSidecar(p) \/ syncRetrievalSidecarEvents(p) \/ SidecarSyncFails(p)

PostgresCall(p) ==
    \/ \E ids \in UpTo(opt.batch, opt.events), policy \in opt.policies : PgAppendEvents(p, ids, policy)
    \/ \E es \in UpTo(opt.batch, opt.events) : PgForgetTargets(p, es)
    \/ \E ns \in UpTo(opt.batch, opt.nodes) : PgRemember(p, ns)
    \/ PgResolvePendingConflicts(p) \/ PgPrioritizeConflicts(p) \/ PgSealContext(p) \/ PgClaimJob(p)

PostgresStep(p) ==
    \/ PgIndexEvents(p) \/ PgEncoderFails(p) \/ PgFinishJobsByResource(p)
    \/ PgSemanticPolicy(p) \/ PgForget(p) \/ PgLoadSources(p) \/ PgCommitted(p)
    \/ \E n \in Nodes : PgCommitDraft(p, n) \/ PgQuarantine(p, n)
    \/ PgResolveConflict(p) \/ PgAdjudicatorReplies(p) \/ PgAdjudicatorFails(p)
    \/ PgCompileContext(p) \/ PgCompilerReplies(p) \/ PgCompilerFails(p)
    \/ PgEmbedNode(p) \/ PgVectorizerFails(p) \/ PgFinishJob(p) \/ PgCrash(p)

MemoryNext ==
    \/ \E p \in opt.procs :
        \/ opt.engine = "sqlite" /\ Idle(p) /\ FabricCall(p)
        \/ opt.engine = "sqlite" /\ ~Idle(p) /\ FabricStep(p)
        \/ opt.engine = "postgres" /\ Idle(p) /\ PostgresCall(p)
        \/ opt.engine = "postgres" /\ ~Idle(p) /\ PostgresStep(p)
    \/ \E k \in DOMAIN job : LeaseLapses(k)
    \/ PgOpen
    \/ Crash
    \/ \E m \in Models : OpenFabric(m)

MemorySpec == MemoryInit /\ [][MemoryNext]_vars

(* Two claims that only an adjudicator can tell apart, in PostgreSQL.      *)
UncertainScene == [Scene("uncertain", "postgres", {"adjudicator"}, {"remember", "resolve"}, {})
        EXCEPT !.nodes = {n1, n3}, !.seeded = {e1, e2}, !.faults = 0]
UncertainSpec == Start({UncertainScene}) /\ [][MemoryNext]_vars

---------------------------------------------------------------------------
(* The SQLite engine seen as the contract of MemoryIndex, where a scene    *)
(* starts from an empty ledger and purges nothing: an event is marked while*)
(* an outbox row for it is not done.                                       *)
Watched == opt.engine = "sqlite" /\ opt.seeded = {} /\ "purge" \notin opt.calls
Ledger ==
    [e \in Events |-> IF ~Watched \/ ev[e] = "none" THEN "none"
                      ELSE IF e \in dead THEN "forgotten" ELSE "live"]
Indexed == {e \in Events : Watched /\ doc[e] # "absent"}
Marked == {e \in Events : Watched /\ \E r \in 1 .. Len(outbox) :
            outbox[r].kind = "event" /\ outbox[r].id = e /\ outbox[r].st # "done"}
Promise == INSTANCE MemoryIndex WITH ledger <- Ledger, indexed <- Indexed, marked <- Marked

(* Whatever callers, workers, failed projections and restarts interleave,  *)
(* the documents of raw events differ from the ledger only while the       *)
(* outbox still owes their projection, and a forgotten event stays so: the *)
(* SQLite engine implements the contract of MemoryIndex (AppendEvents,     *)
(* Forget, projectResources, processOutboxOnce, recoverInterruptedWork).   *)
IndexContract == Promise!Contract

(* Some claim about the slot is active, scoped or still being decided.     *)
SlotKept == (\E n \in Nodes : nd[n] # "none") => \E n \in Nodes : nd[n] \in Contending

(* Claims that compete for a slot never cancel each other out: as long as  *)
(* nothing was forgotten, a slot that has claims has one that is active,   *)
(* scoped or still being decided, whatever local decisions, adjudications, *)
(* batches and projections interleave (persistGroundedDraft,               *)
(* persistAdjudication).                                                   *)
SlotKeepsClaim == opt.engine = "sqlite" /\ dead = {} => SlotKept

(* Ambiguous cases remain pending: also in PostgreSQL claims that no       *)
(* adjudication decided between do not cancel each other out               *)
(* (PostgresFabric.resolveConflict).                                       *)
AmbiguousKept == SlotKept

(* What a Search answers from is exact: among its candidates is no event   *)
(* that was forgotten before the Search began, and every event that was    *)
(* live from its beginning to its end, whatever appends, forgettings and   *)
(* other Searches did to the shared sidecar meanwhile.  This holds as long *)
(* as not both an event was forgotten and a synchronisation failed, when an*)
(* append may take a stale sidecar for current by its number of events     *)
(* (SyncRetrievalSidecar, publishRetrievalSidecar,                         *)
(* syncRetrievalSidecarEvents, searchBGERetrieval).                        *)
RecallExact ==
    dead = {} \/ faults = 0 =>
        \A p \in Procs : At(p, "answer") =>
            /\ Top(p).pool \cap Top(p).gone = {}
            /\ Top(p).live \cap LiveEvents \subseteq Top(p).pool

(* An indexing job of the cluster is done only once its event has spans,   *)
(* or was forgotten, also when a lapsed lease lets two workers run it      *)
(* (PostgresFabric.indexEvents, finishJob, finishJobsByResource).          *)
DoneMeansIndexed ==
    \A k \in DOMAIN job :
        k.k = "index_event" /\ job[k].st = "complete" => k.of \in dead \/ vec[k.of] # "none"
============================================================================
