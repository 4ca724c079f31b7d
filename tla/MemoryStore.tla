---------------------------- MODULE MemoryStore ----------------------------
(***************************************************************************)
(* What the two Memory Fabric engines (SQLite in MemoryFabric, PostgreSQL  *)
(* in MemoryPostgres) share: the durable tables, the derived index, the    *)
(* durable jobs, the calls in flight, and the local decisions about claims *)
(* that compete for one slot.                                              *)
(*                                                                         *)
(* An options record names the engine, the optional parts that are         *)
(* configured (vectorizer, encoder, compiler, adjudicator) and the calls   *)
(* that a behaviour makes.                                                 *)
(*                                                                         *)
(* A call in flight is a stack of frames: the steps that it still has to   *)
(* take, the next one first.  What a frame has read stays in the frame, so *)
(* it may be stale when the step uses it.                                  *)
(***************************************************************************)
EXTENDS Integers, Sequences, FiniteSets, TLC

CONSTANTS
    Events,      \* identifiers of raw events
    Nodes,       \* identifiers of memory nodes: claims about one slot
    Claim,       \* [Nodes -> what a compiler draft says: see ClaimType]
    Procs,       \* goroutines: callers of the API and background workers
    Workers,     \* those of Procs that run workerLoop
    Models,      \* revisions of the embedding model
    CompileConcurrency

(* A claim cites one event, has a value and a time of validity, comes from *)
(* a source of some authority, may be of a facet that allows a local       *)
(* decision, and may be critical.                                          *)
ClaimType == [src : Events, value : Nat, from : Nat, until : Nat, authority : Nat,
              local : BOOLEAN, critical : BOOLEAN]

ASSUME StoreAssumption ==
    /\ Claim \in [Nodes -> ClaimType]
    /\ Workers \subseteq Procs
    /\ CompileConcurrency \in Nat

VARIABLES
    opt,     \* FabricOptions, and the calls that are made in this behaviour
    ev,      \* events.semantic_status, "none" where there is no row
    dead,    \* events with tombstoned = 1
    nd,      \* memory_nodes.status, "none" where there is no row
    conf,    \* conflict_sets.status, by the set of members
    res,     \* the decision of the resolution of each conflict, or "none"
    outbox,  \* the outbox: a sequence of rows
    job,     \* the jobs: a function from keys to [st, n, lapsed]
    doc,     \* indexed documents and the status they carry
    vec,     \* the model that each stored vector was made with
    side,    \* the published retrieval sidecar
    stage,   \* the sidecar under construction
    up,      \* the process has the fabric open
    model,   \* the embedding model that it is configured with
    proc,    \* the stack of frames of each goroutine
    faults   \* failures and crashes so far

rows == <<ev, dead, nd, conf, res>>
work == <<outbox, job>>
index == <<doc, vec>>
sidecar == <<side, stage>>
process == <<opt, up, model>>
vars == <<rows, work, index, sidecar, process, proc, faults>>

---------------------------------------------------------------------------
(* Documents are events, nodes and session chunks; a chunk is named by the *)
(* events whose text it holds.                                             *)

Chunk(es) == [text |-> es]
Chunks == {Chunk(es) : es \in SUBSET Events \ {{}}}
Docs == Events \cup Nodes \cup Chunks
Live(e) == ev[e] # "none" /\ e \notin dead
LiveEvents == {e \in Events : Live(e)}

(* Statuses with which a claim still competes for its slot.                *)
Contending == {"active", "scoped", "pending_resolution"}

(* Conflicts are keyed by their members.                                   *)
Conflicts == {c \in SUBSET Nodes : Cardinality(c) >= 2}

---------------------------------------------------------------------------
(* Frames.                                                                 *)

Idle(p) == proc[p] = <<>>
Top(p) == Head(proc[p])
TopIs(p, f) == ~Idle(p) /\ Top(p).f = f
(* The next step is done; these steps come in its place.                   *)
Replace(p, frames) == proc' = [proc EXCEPT ![p] = frames \o Tail(@)]
Pop(p) == Replace(p, <<>>)
FramesOf(p) == {proc[p][i] : i \in 1 .. Len(proc[p])}
InFlight(f) == {p \in Procs : \E x \in FramesOf(p) : x.f = f}

(* An error leaves the call at the nearest frame that collects it: a job   *)
(* is finished as failed, a lock is released; AppendEvents only skips the  *)
(* sidecar when its projection failed.                                     *)
Unwound(s) ==
    LET stops == {i \in 1 .. Len(s) : s[i].f \in {"sync", "done", "unlock"}}
    IN  IF stops = {} THEN <<>>
        ELSE LET i == CHOOSE j \in stops : \A k \in stops : j <= k
                 rest == SubSeq(s, i + 1, Len(s))
             IN  CASE s[i].f = "sync" -> rest
                   [] s[i].f = "done" -> <<[s[i] EXCEPT !.ok = FALSE]>> \o rest
                   [] OTHER -> <<s[i]>> \o rest
Fail(p) == proc' = [proc EXCEPT ![p] = Unwound(Tail(@))]

(* Bound: a behaviour has so many failures, lapsed leases and crashes.     *)
Fault == faults < opt.faults /\ faults' = faults + 1

(* A conflict is adjudicated under a lock of its own.                      *)
ConflictFree(p, c) ==
    \A q \in Procs \ {p} : \A x \in FramesOf(q) : x.f = "reply" => x.c # c

---------------------------------------------------------------------------
(* Jobs are keyed by what they are for, so that work asked for twice is    *)
(* one job.  A running or complete job stays as it is.                     *)

NewJob == [st |-> "pending", n |-> 0, lapsed |-> FALSE]
EnqueueJobs(jobs, keys) ==
    [k \in DOMAIN jobs \cup keys |->
        IF k \notin DOMAIN jobs THEN NewJob
        ELSE IF k \notin keys \/ jobs[k].st \in {"complete", "running"} THEN jobs[k]
        ELSE [jobs[k] EXCEPT !.st = "pending"]]

CompileJob(ids, mode) == [k |-> "compile", of |-> ids, mode |-> mode]
EmbedJob(d, m) == [k |-> "embed", of |-> d, mode |-> m]
AdjudicateJob(c) == [k |-> "adjudicate", of |-> c, mode |-> "normal"]
IndexJob(e) == [k |-> "index_event", of |-> e, mode |-> "normal"]

JobsIn(st) == {k \in DOMAIN job : job[k].st = st}

---------------------------------------------------------------------------
(* The local decision about a candidate and the claims that hold its slot. *)

(* Valid at a common time; an "until" of 0 is open.                        *)
intervalsOverlap(n, m) ==
    /\ Claim[n].until = 0 \/ Claim[n].until >= Claim[m].from
    /\ Claim[m].until = 0 \/ Claim[m].until >= Claim[n].from
Overlapping(n, existing) == {m \in existing : intervalsOverlap(n, m)}

canLocallySupersede(n, existing) ==
    /\ Claim[n].local
    /\ \A m \in existing : /\ Claim[n].authority >= Claim[m].authority
                           /\ Claim[n].from > Claim[m].from

localSlotDecision(n, existing) ==
    IF existing = {} THEN "coexists"
    ELSE IF \E m \in existing : Claim[m].value = Claim[n].value THEN "duplicate"
    ELSE IF Overlapping(n, existing) = {} THEN "scoped"
    ELSE IF canLocallySupersede(n, Overlapping(n, existing)) THEN "supersedes"
    ELSE "uncertain"

(* What the candidate's row says after each decision.                      *)
StatusFor(decision) ==
    CASE decision = "duplicate" -> "rejected"
      [] decision = "uncertain" -> "pending_resolution"
      [] OTHER -> "active"

(* An adjudicator's verdict about the conflict c that passes validation:   *)
(* "supersedes" and "duplicate" split the members into winners and losers, *)
(* "coexists" and "scoped" keep all of them, and the others decide nothing.*)
validateAdjudication(c) ==
    {[decision |-> d, winners |-> w] :
        d \in {"supersedes", "duplicate"}, w \in SUBSET c \ {{}, c}}
    \cup {[decision |-> d, winners |-> c] : d \in {"coexists", "scoped"}}
    \cup {[decision |-> d, winners |-> {}] : d \in {"uncertain", "needs_compile"}}
============================================================================
