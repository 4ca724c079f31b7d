--------------------------- MODULE MemoryExtraction ---------------------------
(***************************************************************************)
(* How a conversation becomes evidence of the Memory Fabric                *)
(* (agent/memory_extraction.go, with the cursor that AgentRuntime keeps).  *)
(* At the end of a run the messages behind the cursor are handed to a      *)
(* goroutine, which appends them to the memory engine and then advances    *)
(* the cursor; Reset, Shutdown and a changed configuration cancel it, and  *)
(* the first two flush what is left.                                       *)
(*                                                                         *)
(* The cursor is a sequence number of the journal.  A message that is not  *)
(* in the journal yet has a provisional number, one more than the last     *)
(* (captureTranscript), and gets its real one when the draft is published. *)
(* A cancelled context only makes an append fail, as it may at any time.   *)
(***************************************************************************)
EXTENDS Integers, FiniteSets, Sequences, SequencesExt, FiniteSetsExt

CONSTANTS
    BatchLimit,     \* messages of one batch (32)
    MaxTexts,       \* bound on the messages of a behaviour
    MaxBatches,     \* bound on the goroutines of a behaviour
    MaxUpsets,      \* bound on resets, shutdowns, new configurations, crashes
    MaxTroubles     \* bound on calls of the journal, the engine and the run that fail

VARIABLES
    head,       \* the last sequence number of the journal
    durable,    \* durableMessages: [ids -> sequence number, or 0]
    snapshot,   \* AgentRuntime.snapshot: [gen, cursor, msgs]
    loop,       \* the run: where it is, and its draft [at, gen, cursor, msgs]
    texts,      \* messages written so far
    extraction, \* ExtractionController: [running, runID, pending]
    engine,     \* the controller has a memory engine
    batches,    \* the goroutines: [id -> [at, load]]
    kept,       \* messages that are events of the memory engine
    upset,      \* Reset, Shutdown or RefreshRuntimeConfig under way [why, at, load]
    upsets,     \* how many there were
    troubles    \* calls that failed so far

evidenceVars == <<head, durable, snapshot, loop, texts, extraction, engine, batches, kept, upset,
                  upsets, troubles>>

Texts == 1..MaxTexts
NoLoad == [gen |-> 0, ids |-> {}, end |-> 0]
NoBatch == [at |-> "none", load |-> NoLoad]
NoLoop == [at |-> "none", gen |-> 0, cursor |-> 0, msgs |-> <<>>]
Calm == [why |-> "none", at |-> "none", load |-> NoLoad]
Controller == [running |-> FALSE, runID |-> 0, pending |-> NoLoad]

EvidenceInit ==
    /\ head = 0 /\ durable = [t \in Texts |-> 0] /\ texts = 0 /\ kept = {}
    /\ snapshot = [gen |-> 1, cursor |-> 0, msgs |-> <<>>]
    /\ loop = NoLoop /\ extraction = Controller /\ engine = TRUE
    /\ batches = [k \in 1..MaxBatches |-> NoBatch]
    /\ upset = Calm /\ upsets = 0 /\ troubles = 0

(* A call that fails, within the bound.                                    *)
Trouble == troubles < MaxTroubles /\ troubles' = troubles + 1
Fine == UNCHANGED troubles
Running == upset.at # "down"
conversation == <<head, durable, snapshot>>
controls == <<extraction, engine, batches>>

(* captureTranscript: a message that is not numbered gets the next number. *)
captureTranscript(msgs, t, says) ==
    Append(msgs, [id |-> t, says |-> says,
                  seq |-> 1 + Max({0} \cup {msgs[i].seq : i \in DOMAIN msgs})])

(* persistSnapshotLocked: new messages are journaled in order, and then    *)
(* the checkpoint; the messages stay journaled when the latter fails.      *)
Journaled(msgs) ==
    LET new == SelectSeq(msgs, LAMBDA m : durable[m.id] = 0)
    IN  [t \in Texts |-> IF \E i \in DOMAIN new : new[i].id = t
                         THEN head + (CHOOSE i \in DOMAIN new : new[i].id = t) ELSE durable[t]]
Unjournaled(msgs) == Cardinality({i \in DOMAIN msgs : durable[msgs[i].id] = 0})
Numbered(msgs, numbers) == [i \in DOMAIN msgs |-> [msgs[i] EXCEPT !.seq = numbers[msgs[i].id]]]

-----------------------------------------------------------------------------
(* The run: a prompt, answers with tool calls, the last answer.            *)
BeginRun ==
    /\ Running /\ loop.at = "none" /\ texts < MaxTexts
    /\ texts' = texts + 1 /\ head' = head + 1
    /\ loop' = [at |-> "publish", gen |-> snapshot.gen, cursor |-> snapshot.cursor,
                msgs |-> captureTranscript(snapshot.msgs, texts + 1, TRUE)]
    /\ UNCHANGED <<durable, snapshot, controls, kept, upset, upsets, troubles>>

(* publishDraft: Commit refuses the draft of a run that is no longer the   *)
(* active one, and an append may fail; either ends the run.  The cursor    *)
(* that the snapshot has meanwhile reached is kept.                        *)
PublishDraft ==
    /\ Running /\ loop.at \in {"publish", "last"}
    /\ \/ /\ loop.gen = snapshot.gen
          /\ LET numbers == Journaled(loop.msgs)
                 msgs == Numbered(loop.msgs, numbers)
                 cursor == Max({loop.cursor, snapshot.cursor})
             IN  \/ /\ durable' = numbers /\ head' = head + Unjournaled(loop.msgs) + 1
                    /\ snapshot' = [snapshot EXCEPT !.cursor = cursor, !.msgs = msgs]
                    /\ loop' = IF loop.at = "last" THEN NoLoop
                               ELSE [loop EXCEPT !.at = "model", !.cursor = cursor, !.msgs = msgs]
                    /\ Fine
                 \/ /\ durable' = numbers /\ head' = head + Unjournaled(loop.msgs)
                    /\ loop' = NoLoop /\ UNCHANGED snapshot /\ Trouble
       \/ /\ loop' = NoLoop /\ UNCHANGED conversation
          /\ IF loop.gen = snapshot.gen THEN Trouble ELSE Fine
    /\ UNCHANGED <<texts, controls, kept, upset, upsets>>

(* CommitAssistantTurn; an answer with tool calls is followed by the       *)
(* carrier of their results, which has no text of its own.                 *)
CommitAnswer(says) ==
    /\ Running /\ loop.at = "model" /\ texts + 1 < MaxTexts
    /\ texts' = texts + 2 /\ head' = head + 1
    /\ loop' = [loop EXCEPT !.at = "publish",
                   !.msgs = captureTranscript(captureTranscript(@, texts + 1, says), texts + 2, FALSE)]
    /\ UNCHANGED <<durable, snapshot, controls, kept, upset, upsets, troubles>>

CommitLastAnswer ==
    /\ Running /\ loop.at = "model" /\ texts < MaxTexts
    /\ texts' = texts + 1 /\ head' = head + 1
    /\ loop' = [loop EXCEPT !.at = "schedule", !.msgs = captureTranscript(@, texts + 1, TRUE)]
    /\ UNCHANGED <<durable, snapshot, controls, kept, upset, upsets, troubles>>

RunFails ==
    /\ Running /\ loop.at = "model" /\ loop' = NoLoop /\ Trouble
    /\ UNCHANGED <<conversation, texts, controls, kept, upset, upsets>>

-----------------------------------------------------------------------------
(* The next batch: after the first message behind the cursor, the messages *)
(* that say something, as many as fit.                                     *)
incrementalFabricMessages(s) ==
    LET behind == {i \in DOMAIN s.msgs : s.msgs[i].seq > s.cursor}
        rest == IF behind = {} THEN <<>> ELSE SubSeq(s.msgs, Min(behind), Len(s.msgs))
        said == SelectSeq(rest, LAMBDA m : m.says)
        batch == SubSeq(said, 1, Min({BatchLimit, Len(said)}))
    IN  [gen |-> s.gen, ids |-> {batch[i].id : i \in DOMAIN batch},
         end |-> IF batch = <<>> THEN 0 ELSE Last(batch).seq]

ShouldExtract(s) == engine /\ s.msgs # <<>> /\ Last(s.msgs).seq > s.cursor

Spawn(load) ==
    /\ extraction.runID < MaxBatches
    /\ batches' = [batches EXCEPT ![extraction.runID + 1] = [at |-> "store", load |-> load]]
    /\ extraction' = [extraction EXCEPT !.running = TRUE, !.runID = @ + 1, !.pending = NoLoad]

(* Schedule: one goroutine at a time; a batch that comes while one runs    *)
(* waits in the place of an earlier one.                                   *)
Schedule ==
    /\ Running /\ loop.at = "schedule" /\ loop' = [loop EXCEPT !.at = "last"]
    /\ LET load == incrementalFabricMessages(loop) IN
       IF ~ShouldExtract(loop) \/ load.ids = {} THEN UNCHANGED <<extraction, batches>>
       ELSE IF extraction.running
       THEN extraction' = [extraction EXCEPT !.pending = load] /\ UNCHANGED batches
       ELSE Spawn(load)
    /\ UNCHANGED <<conversation, texts, engine, kept, upset, upsets, troubles>>

Step(k, at) == batches' = [batches EXCEPT ![k].at = at]

(* runFabricExtraction up to the confirmation of the engine.               *)
AppendEvents(k) ==
    /\ Running /\ batches[k].at = "store"
    /\ \/ engine /\ kept' = kept \cup batches[k].load.ids /\ Step(k, "advance") /\ Fine
       \/ Step(k, "finish") /\ UNCHANGED kept /\ (IF engine THEN Trouble ELSE Fine)
    /\ UNCHANGED <<conversation, loop, texts, extraction, engine, upset, upsets>>

Advances(load) == load.gen = snapshot.gen /\ load.end > snapshot.cursor

(* AdvanceMemory: of the same conversation only, forward only, and only    *)
(* when the checkpoint is written.                                         *)
AdvanceMemory(load) ==
    \/ /\ Advances(load)
       /\ head' = head + 1 /\ snapshot' = [snapshot EXCEPT !.cursor = load.end]
       /\ UNCHANGED durable /\ Fine
    \/ UNCHANGED conversation /\ IF Advances(load) THEN Trouble ELSE Fine

(* What then comes of Remember, when the user asked for it, is a note in   *)
(* the next prompt.                                                        *)
AdvanceCursor(k) ==
    /\ Running /\ batches[k].at = "advance" /\ AdvanceMemory(batches[k].load)
    /\ Step(k, "finish")
    /\ UNCHANGED <<loop, texts, extraction, engine, kept, upset, upsets>>

(* The deferred end of runExtraction: a waiting batch starts the next      *)
(* goroutine, else the controller is idle unless it was cancelled since.   *)
runExtraction(k) ==
    /\ Running /\ batches[k].at = "finish"
    /\ IF extraction.pending # NoLoad
       THEN /\ extraction.runID < MaxBatches
            /\ batches' = [batches EXCEPT ![k] = NoBatch,
                              ![extraction.runID + 1] = [at |-> "store", load |-> extraction.pending]]
            /\ extraction' = [extraction EXCEPT !.running = TRUE, !.runID = @ + 1, !.pending = NoLoad]
       ELSE /\ batches' = [batches EXCEPT ![k] = NoBatch]
            /\ extraction' = [extraction EXCEPT !.running = @ /\ extraction.runID # k]
    /\ UNCHANGED <<conversation, loop, texts, engine, kept, upset, upsets, troubles>>

-----------------------------------------------------------------------------
(* Reset, Shutdown and RefreshRuntimeConfig.                               *)
Upset(why) ==
    /\ upset = Calm /\ upsets < MaxUpsets /\ upsets' = upsets + 1
    /\ upset' = [why |-> why, at |-> "cancel", load |-> NoLoad]
    /\ IF why = "reset"
       THEN /\ snapshot' = [gen |-> snapshot.gen + 1, cursor |-> 0, msgs |-> <<>>]
            /\ head' = head + 2 /\ durable' = [t \in Texts |-> 0]
       ELSE UNCHANGED conversation
    /\ UNCHANGED <<loop, texts, controls, kept, troubles>>

(* ExtractionController.Cancel.                                            *)
Cancel ==
    /\ upset.at = "cancel" /\ extraction.runID < MaxBatches
    /\ extraction' = [Controller EXCEPT !.runID = extraction.runID + 1]
    /\ upset' = [upset EXCEPT !.at = IF upset.why = "refresh" THEN "open" ELSE "flush"]
    /\ UNCHANGED <<conversation, loop, texts, engine, batches, kept, upsets, troubles>>

(* configureMemoryEngine: opening the new engine may fail.                 *)
configureMemoryEngine ==
    /\ upset.at = "open" /\ upset' = Calm /\ engine' \in BOOLEAN
    /\ UNCHANGED <<conversation, loop, texts, extraction, batches, kept, upsets, troubles>>

(* The process ends, and with it its goroutines.                           *)
Ends ==
    /\ upset' = [Calm EXCEPT !.at = "down"] /\ loop' = NoLoop /\ extraction' = Controller
    /\ engine' = TRUE /\ batches' = [k \in 1..MaxBatches |-> NoBatch]

FlushOver ==
    IF upset.why = "shutdown" THEN Ends ELSE upset' = Calm /\ UNCHANGED <<loop, controls>>

(* flushAndSealMemory: IngestMessages of the snapshot, batch by batch,     *)
(* until one is empty or fails; Shutdown then closes the engine.           *)
flushAndSealMemory ==
    /\ upset.at = "flush"
    /\ LET load == incrementalFabricMessages(snapshot) IN
       \/ /\ engine /\ load.ids # {} /\ kept' = kept \cup load.ids
          /\ upset' = [upset EXCEPT !.at = "flushed", !.load = load]
          /\ UNCHANGED <<loop, controls>>
       \/ FlushOver /\ UNCHANGED kept
    /\ UNCHANGED <<conversation, texts, upsets, troubles>>

FlushAdvances ==
    /\ upset.at = "flushed" /\ AdvanceMemory(upset.load)
    /\ upset' = [upset EXCEPT !.at = "flush", !.load = NoLoad]
    /\ UNCHANGED <<loop, texts, controls, kept, upsets>>

ProcessDies ==
    /\ Running /\ upsets < MaxUpsets /\ upsets' = upsets + 1
    /\ Ends /\ UNCHANGED <<conversation, texts, kept, troubles>>

(* The session is opened again, from its journal.                          *)
SessionResumes ==
    /\ upset.at = "down" /\ upset' = Calm
    /\ UNCHANGED <<conversation, loop, texts, controls, kept, upsets, troubles>>

EvidenceNext ==
    \/ BeginRun \/ PublishDraft \/ (\E says \in BOOLEAN : CommitAnswer(says))
    \/ CommitLastAnswer \/ RunFails \/ Schedule
    \/ \E k \in 1..MaxBatches :
         AppendEvents(k) \/ AdvanceCursor(k) \/ runExtraction(k)
    \/ \E why \in {"reset", "shutdown", "refresh"} : Upset(why)
    \/ Cancel \/ configureMemoryEngine \/ flushAndSealMemory \/ FlushAdvances
    \/ ProcessDies \/ SessionResumes

(* What the cursor has passed was stored: every message of the             *)
(* conversation that says something and is not behind the cursor is an     *)
(* event of the memory engine.                                             *)
EvidenceKept ==
    \A i \in DOMAIN snapshot.msgs :
        LET m == snapshot.msgs[i] IN m.says /\ m.seq <= snapshot.cursor => m.id \in kept
=============================================================================
