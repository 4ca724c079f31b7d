---------------------------- MODULE ContextWindow ----------------------------
(***************************************************************************)
(* The model's context window: how a conversation is repaired, compacted   *)
(* and laid out for a request (agentContext/manager.go and the levels it   *)
(* uses, agent/messages.go, agent/normalize.go).                           *)
(*                                                                         *)
(* A message keeps what compaction tells apart: who wrote it, the tool     *)
(* calls it makes, the results it carries with the shape their text is in, *)
(* and the prompts whose words it contains.  Tokens are counted in the     *)
(* weights of Weight.                                                      *)
(***************************************************************************)
EXTENDS Integers, FiniteSets, Sequences, SequencesExt, FiniteSetsExt

CONSTANTS
    CollapseTail,       \* messages that folding leaves alone (10)
    SummaryTail,        \* messages that a summary leaves alone (4)
    MinRegion,          \* shortest stretch worth folding (3)
    MaxFailures,        \* MaxConsecutiveFailure
    Soft, Limit,        \* the compaction threshold and the window itself
    Compressible        \* calls of the tools whose results may be cleared

Message(id, role, src, uses, results, about) ==
    [id |-> id, role |-> role, src |-> src, uses |-> uses, results |-> results,
     about |-> about]
Result(c, shape) == [call |-> c, shape |-> shape]

ResultCalls(m) == {r.call : r \in m.results}
MapSeq(h, F(_)) == FlattenSeq([i \in DOMAIN h |-> <<F(h[i])>>])
Indices(h, P(_)) == {i \in DOMAIN h : P(h[i])}
LastIndex(h, P(_)) == Max(Indices(h, P) \cup {0})

(* What the user wrote, a continuation prompt and a handoff included.      *)
RealUser(m) == m.role = "user" /\ m.results = {}

Weight(m) ==
    IF m.results = {} THEN 1
    ELSE FoldSet(LAMBDA r, w : w + (CASE r.shape = "long"  -> 3
                                      [] r.shape = "short" -> 2
                                      [] OTHER             -> 1), 0, m.results)
RequestBudget(h) == FoldLeft(LAMBDA w, m : w + Weight(m), 0, h)

(***************************************************************************)
(* The levels of compaction.                                               *)
(***************************************************************************)
SnipMessages(h) ==
    MapSeq(h, LAMBDA m : [m EXCEPT !.results =
        {IF r.shape = "long" THEN [r EXCEPT !.shape = "short"] ELSE r : r \in @}])

(* Every result of a compressible tool is cleared, but the last one.       *)
MicroCompactMessages(h) ==
    LET named == UNION {h[i].uses : i \in DOMAIN h} \cap Compressible
        at    == {i \in DOMAIN h : ResultCalls(h[i]) \cap named # {}}
        last  == IF at = {} THEN 0 ELSE Max(ResultCalls(h[Max(at)]) \cap named)
    IN  MapSeq(h, LAMBDA m : [m EXCEPT !.results =
            {IF r.call \in named \ {last} /\ r.shape # "lost"
               THEN [r EXCEPT !.shape = "cleared"] ELSE r : r \in @}])

(* Faulty variant: the tail may begin between a call and its result.       *)
TailOfLength(h, keep) == Max({0, Len(h) - keep})

(* How many messages precede a tail of at least keep messages that holds   *)
(* the call of every result in it.                                         *)
SafeTailStart(h, keep) ==
    Max({s \in 0..Max({0, Len(h) - keep}) :
            \A i \in 1..s, j \in s + 1..Len(h) : h[i].uses \cap ResultCalls(h[j]) = {}})

(* The stretches, none of them shorter than MinRegion, that folding adds   *)
(* to the regions: everything before the safe tail, save the messages that *)
(* a region has already and the last request of the user.                  *)
FoldRegions(h, regions) ==
    LET end  == SafeTailStart(h, CollapseTail)
        cur  == LastIndex(h, RealUser)
        free == {i \in 1..end : /\ i # cur
                                /\ \A r \in regions : h[i].id \notin Range(r)}
    IN  {[k \in 1..(b - a + 1) |-> h[a + k - 1].id] :
            <<a, b>> \in {p \in free \X free :
                            /\ p[2] - p[1] + 1 >= MinRegion
                            /\ p[1]..p[2] \subseteq free
                            /\ p[1] - 1 \notin free /\ p[2] + 1 \notin free}}

Folded == Message(0, "user", "folded", {}, {}, {})

(* A region's text stands where its first message stood.                   *)
projectRegions(h, regions) ==
    FlattenSeq([i \in DOMAIN h |->
        LET mine == {r \in regions : h[i].id \in Range(r)} IN
        IF mine = {} THEN <<h[i]>>
        ELSE IF \E r \in mine : Head(r) = h[i].id
          THEN <<Folded>>
          ELSE <<>>])

(* What is attached (notifications of background tasks, recalled memories, *)
(* restored files) is shown before the last message of the user.           *)
materialize(s, h) ==
    LET v   == projectRegions(h, s.regions)
        at  == LastIndex(v, RealUser)
        cut == IF at = 0 THEN Len(v) ELSE at - 1
        notes == [k \in 1..Cardinality(s.attached) |->
                    Message(0, "user", "note", {}, {}, {})]
    IN  SubSeq(v, 1, cut) \o notes \o SubSeq(v, cut + 1, Len(v))

(***************************************************************************)
(* What a provider accepts: every call directly followed by its results,   *)
(* and no other results.                                                   *)
(***************************************************************************)
RepairOrphanTools(h) ==
    LET calls   == UNION {h[i].uses : i \in DOMAIN h}
        results == UNION {ResultCalls(h[i]) : i \in DOMAIN h}
        kept(m) == [m EXCEPT !.results = {r \in @ : r.call \in calls}]
        lost(m) == {Result(c, "lost") : c \in m.uses \ results}
    IN  FlattenSeq([i \in DOMAIN h |->
            (IF h[i].results # {} /\ kept(h[i]).results = {} THEN <<>> ELSE <<kept(h[i])>>)
            \o (IF lost(h[i]) = {} THEN <<>>
                ELSE <<Message(0, "user", "results", {}, lost(h[i]), {})>>)])

EnforceImmediateToolResults(h) ==
    LET found(i) == UNION {{r \in h[j].results : r.call \in h[i].uses} : j \in i + 1..Len(h)}
        all(i)   == found(i) \cup {Result(c, "lost") :
                        c \in h[i].uses \ {r.call : r \in found(i)}}
        taken(j) == {r \in h[j].results : \E i \in 1..j - 1 : r.call \in h[i].uses}
        rest(j)  == [h[j] EXCEPT !.results = @ \ taken(j)]
    IN  FlattenSeq([i \in DOMAIN h |->
            (IF taken(i) # {} /\ rest(i).results = {} THEN <<>> ELSE <<rest(i)>>)
            \o (IF h[i].uses = {} THEN <<>>
                ELSE <<Message(0, "user", "results", {}, all(i), {})>>)])

NormalizeMessages(h) == EnforceImmediateToolResults(RepairOrphanTools(h))

(***************************************************************************)
(* One compaction of a snapshot [msgs, regions, failures, attached], mode  *)
(* "auto", "reactive" (a provider refused the length) or "manual".         *)
(* summary is what the summarising model answers, should it be asked: text *)
(* or a failure; files says whether there are recent files to restore.     *)
(***************************************************************************)
handoffOf(h, id) ==
    LET asked == {i \in DOMAIN h : i <= Len(h) - SummaryTail /\ RealUser(h[i])}
    IN  Message(id, "user", "handoff", {}, {}, UNION {h[i].about : i \in asked})

(* Faulty variant: the summary stands for everything before the tail.      *)
replacementWithoutUser(h, id, tail) ==
    <<handoffOf(h, id)>> \o SubSeq(h, tail + 1, Len(h))

(* The handoff, the last request before the tail, and the tail.            *)
replacementHistory(h, id, tail) ==
    LET cur == LastIndex(SubSeq(h, 1, tail), RealUser)
    IN  <<handoffOf(h, id)>>
            \o (IF cur = 0 THEN <<>> ELSE <<h[cur]>>)
            \o SubSeq(h, tail + 1, Len(h))

Size(s) == RequestBudget(materialize(s, s.msgs))

(* Levels 2 and 3 are applied while the request is over its target, and    *)
(* always when the compaction was asked for.                               *)
MicroLevel(s, target, asked) ==
    IF asked \/ Size(s) > target THEN [s EXCEPT !.msgs = MicroCompactMessages(@)] ELSE s
FoldLevel(s, target, asked) ==
    IF asked \/ Size(s) > target
      THEN [s EXCEPT !.regions = @ \cup FoldRegions(s.msgs, @)] ELSE s

(* Level 4 takes the summary when it makes the request smaller.            *)
SummaryLevel(s, mode, target, failures, summary, id) ==
    LET tail == SafeTailStart(s.msgs, SummaryTail)
        asks == tail > 0 /\ failures < MaxFailures /\ (mode = "manual" \/ Size(s) > target)
        short == [s EXCEPT !.msgs = replacementHistory(s.msgs, id, tail),
                           !.regions = {}, !.failures = 0]
    IN  IF ~asks THEN [next |-> s, replaced |-> FALSE, failed |-> FALSE]
        ELSE IF summary = "fail"
          THEN [next |-> [s EXCEPT !.failures = @ + 1], replaced |-> FALSE, failed |-> TRUE]
        ELSE IF Size(short) < Size(s)
          THEN [next |-> short, replaced |-> TRUE, failed |-> FALSE]
        ELSE [next |-> s, replaced |-> FALSE, failed |-> FALSE]

(* The files read last are restored after a replacement, where there is    *)
(* room for them.                                                          *)
RestoreFiles(res, files, before) ==
    IF res.replaced /\ files /\ Size(res.next) + 1 <= Min({Soft, before - 1})
      THEN [res EXCEPT !.next.attached = @ \cup {"files"}] ELSE res

Compiled(res, before) ==
    LET shown == NormalizeMessages(materialize(res.next, res.next.msgs))
    IN  [next |-> [res.next EXCEPT !.attached = @ \ {"task"}], request |-> shown,
         err |-> res.failed \/ RequestBudget(shown) > Limit,
         succeeded |-> res.replaced \/ RequestBudget(shown) < before]

(* What a compaction may come to, one result for each answer in summaries. *)
prepare(s, mode, summaries, files, id) ==
    LET before == Size(s)
        target == IF mode = "reactive" THEN Min({Soft, before - 1}) ELSE Soft
        asked  == mode # "auto"
        level1 == [s EXCEPT !.msgs = SnipMessages(@), !.attached = @ \ {"files"}]
    IN  IF s.msgs = <<>> \/ (before <= Soft /\ ~asked)
          THEN {Compiled([next |-> s, replaced |-> FALSE, failed |-> FALSE], before)}
          ELSE {Compiled(res, before) : res \in
                {RestoreFiles(res, files, before) : res \in
                 UNION {{SummaryLevel(level3, mode, target, s.failures, answer, id) :
                            answer \in summaries} : level3 \in
                  {FoldLevel(level2, target, asked) : level2 \in
                   {MicroLevel(level, target, asked) : level \in {level1}}}}}}
=============================================================================
