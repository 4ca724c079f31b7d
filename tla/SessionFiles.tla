---------------------------- MODULE SessionFiles ----------------------------
(***************************************************************************)
(* A session of the file format, its conversion into a journal, and the    *)
(* compatibility writer that still saves through the file store            *)
(* (session/store.go, session/runtime_migration.go).                       *)
(*                                                                         *)
(* A save writes several files one after the other, each of them           *)
(* atomically, all with the save's generation; a crash may fall between    *)
(* any two.  A file is modelled by the generation it holds, 0 when it is   *)
(* absent; the state of generation g has g messages.  Journal events are   *)
(* records; a checkpoint carries the generation and the revision of the    *)
(* runtime state it holds.                                                 *)
(***************************************************************************)
EXTENDS Integers, Sequences, SequencesExt

CONSTANTS
    MaxGen,         \* bound on the saves in the file format
    MaxRev,         \* bound on the revisions of the runtime state
    MaxSaves,       \* bound on the saves of detached states
    MaxCrashes      \* bound on the crashes

VARIABLES
    old,            \* [Files -> generation] in the flat directory of earlier versions
    file,           \* [Files -> generation] in the session's own directory
    temp,           \* runtime.sqlite.migrating: a sequence of events, or Absent
    journal,        \* runtime.sqlite: a sequence of events, or Absent
    saver,          \* a process that saves in the file format
    opener,         \* a process in Store.OpenRuntime
    owner,          \* the runtime that owns the opened journal
    writer,         \* a process that saves a detached state through the store
    crashes

fileVars == <<old, file, temp, journal, saver, opener, owner, writer, crashes>>

\* In the order in which a snapshot is saved: Save writes the transcript,
\* SaveStateWithRecovery the others.  The transcript is transcript.jsonl or, in a
\* session that has none, the messages of session.sqlite, which Load falls back to.
FileOrder == <<"transcript", "state", "recovery", "tasks", "commit">>
Files == {"transcript", "state", "recovery", "tasks", "commit"}

Event(type, n, gen, rev) == [type |-> type, n |-> n, gen |-> gen, rev |-> rev]

\* There is no such database.
Absent == <<Event("absent", 0, 0, 0)>>

\* firstExistingPath: the session's directory, else the flat one.
ReadPath(f) == IF file[f] # 0 THEN file[f] ELSE old[f]

\* migrateLegacySession, one file.
MovedFile(f) ==
    /\ file' = [file EXCEPT ![f] = IF @ # 0 THEN @ ELSE old[f]]
    /\ old' = [old EXCEPT ![f] = 0]

FlatFiles == {i \in 1..5 : old[FileOrder[i]] # 0}

FirstFlat == FileOrder[CHOOSE i \in FlatFiles : \A j \in FlatFiles : i <= j]

-----------------------------------------------------------------------------
(***************************************************************************)
(* Saving in the file format.                                              *)
(***************************************************************************)

\* SaveSnapshotWithRecovery without a journal.
SaveBegins ==
    /\ saver.pc = "idle" /\ saver.gen < MaxGen /\ journal = Absent /\ opener.pc = "idle"
    /\ saver' = [pc |-> "saving", gen |-> saver.gen + 1, next |-> 1]
    /\ UNCHANGED <<old, file, temp, journal, opener, owner, writer, crashes>>

SaveMovesFlat ==
    /\ saver.pc = "saving" /\ FlatFiles # {}
    /\ MovedFile(FirstFlat)
    /\ UNCHANGED <<temp, journal, saver, opener, owner, writer, crashes>>

\* atomicWriteJSONL and atomicWriteJSON, one file at a time.
SaveWrites ==
    /\ saver.pc = "saving" /\ FlatFiles = {}
    /\ file' = [file EXCEPT ![FileOrder[saver.next]] = saver.gen]
    /\ saver' = IF saver.next = 5 THEN [saver EXCEPT !.pc = "idle"] ELSE [saver EXCEPT !.next = @ + 1]
    /\ UNCHANGED <<old, temp, journal, opener, owner, writer, crashes>>

SaverCrashes ==
    /\ saver.pc = "saving" /\ crashes < MaxCrashes
    /\ saver' = [saver EXCEPT !.pc = "idle"] /\ crashes' = crashes + 1
    /\ UNCHANGED <<old, file, temp, journal, opener, owner, writer>>

\* loadGenerationTriplet: the payload counts only when the state, the payload and the
\* commit file carry one generation.
loadGenerationTriplet(f) ==
    IF ReadPath("state") # 0 /\ ReadPath("state") = ReadPath(f) /\ ReadPath("state") = ReadPath("commit")
    THEN ReadPath(f) ELSE 0

-----------------------------------------------------------------------------
(***************************************************************************)
(* Store.OpenRuntime and migrateRuntime.                                   *)
(***************************************************************************)

Messages(g) == [i \in 1..g |-> Event("message", i, 0, 0)]

\* What migrateRuntime appends, in order.
Imported(g, recovery, tasks) ==
    <<Event("created", 0, 0, 0)>> \o Messages(g)
    \o <<[Event("import", g, 0, 0) EXCEPT !.gen = recovery, !.rev = tasks]>>
    \o (IF tasks # 0 THEN <<Event("task", tasks, 0, 0)>> ELSE <<>>)

\* NewStore, then the first look at the session.
OpenBegins ==
    /\ opener.pc = "idle" /\ saver.pc = "idle" /\ ~owner.on
    /\ opener' = [pc |-> "look", todo |-> <<>>]
    /\ UNCHANGED <<old, file, temp, journal, saver, owner, writer, crashes>>

OpenMovesFlat ==
    /\ opener.pc = "look" /\ FlatFiles # {}
    /\ MovedFile(FirstFlat)
    /\ UNCHANGED <<temp, journal, saver, opener, owner, writer, crashes>>

\* The journal is there: it is opened and loaded.
OpenExisting ==
    /\ opener.pc = "look" /\ FlatFiles = {} /\ journal # Absent
    /\ opener' = [opener EXCEPT !.pc = "load"]
    /\ UNCHANGED <<old, file, temp, journal, saver, owner, writer, crashes>>

\* Nothing is there: an empty journal is created under its final name.
OpenFresh ==
    /\ opener.pc = "look" /\ FlatFiles = {} /\ journal = Absent
    /\ ReadPath("state") = 0 /\ ReadPath("transcript") = 0
    /\ journal' = <<>>
    /\ opener' = [opener EXCEPT !.pc = "created"]
    /\ UNCHANGED <<old, file, temp, saver, owner, writer, crashes>>

OpenFreshCreated ==
    /\ opener.pc = "created"
    /\ journal' = Append(journal, Event("created", 0, 0, 0))
    /\ owner' = [on |-> TRUE, gen |-> 0, rev |-> 0, pending |-> FALSE]
    /\ opener' = [pc |-> "idle", todo |-> <<>>]
    /\ UNCHANGED <<old, file, temp, saver, writer, crashes>>

\* A session in files: its state (or, without one, its transcript) is read, with the
\* recovery data and the tasks of the same save; the leftover of an earlier attempt
\* is removed and a new temporary journal is opened.
MigrateBegins ==
    /\ opener.pc = "look" /\ FlatFiles = {} /\ journal = Absent
    /\ ReadPath("state") # 0 \/ ReadPath("transcript") # 0
    /\ LET g == IF ReadPath("state") # 0 THEN ReadPath("state") ELSE ReadPath("transcript")
       IN opener' = [pc |-> "append", todo |-> Imported(g, loadGenerationTriplet("recovery"),
                                                           loadGenerationTriplet("tasks"))]
    /\ temp' = <<>>
    /\ UNCHANGED <<old, file, journal, saver, owner, writer, crashes>>

\* One journal.Append of migrateRuntime.
MigrateAppends ==
    /\ opener.pc = "append" /\ opener.todo # <<>>
    /\ temp' = Append(temp, Head(opener.todo))
    /\ opener' = [opener EXCEPT !.todo = Tail(@)]
    /\ UNCHANGED <<old, file, journal, saver, owner, writer, crashes>>

\* Faulty variant: the journal is renamed when the messages are in it, and the rest
\* is appended later.
MigrateCommitsEarly ==
    /\ opener.pc = "append" /\ \A i \in DOMAIN opener.todo : opener.todo[i].type # "message"
    /\ journal' = temp /\ temp' = Absent
    /\ opener' = [opener EXCEPT !.pc = "load"]
    /\ UNCHANGED <<old, file, saver, owner, writer, crashes>>

\* The integrity check, Close and os.Rename.
MigrateCommits ==
    /\ opener.pc = "append" /\ opener.todo = <<>>
    /\ journal' = temp /\ temp' = Absent
    /\ opener' = [opener EXCEPT !.pc = "load"]
    /\ UNCHANGED <<old, file, saver, owner, writer, crashes>>

\* A step fails: the temporary journal is removed (writeMigrationFailure).
MigrateFails ==
    /\ opener.pc = "append" /\ crashes < MaxCrashes
    /\ temp' = Absent /\ crashes' = crashes + 1
    /\ opener' = [pc |-> "idle", todo |-> <<>>]
    /\ UNCHANGED <<old, file, journal, saver, owner, writer>>

OpenerCrashes ==
    /\ opener.pc # "idle" /\ crashes < MaxCrashes
    /\ crashes' = crashes + 1
    /\ opener' = [pc |-> "idle", todo |-> <<>>]
    /\ UNCHANGED <<old, file, temp, journal, saver, owner, writer>>

Snapshots(j) == {i \in DOMAIN j : j[i].type \in {"import", "checkpoint"}}

Latest(j) == CHOOSE i \in Snapshots(j) : \A k \in Snapshots(j) : k <= i

Resets(j) == {i \in DOMAIN j : j[i].type = "reset"}

\* The version of a state, its generation and revision, starts at zero when the state
\* is imported from files.
Version(e) == IF e.type = "checkpoint" THEN <<e.gen, e.rev>> ELSE <<0, 0>>

\* LoadRuntimeState and ReplayAgentState: the state of the latest snapshot, or a fresh
\* one of the next generation when a reset comes after it.
LoadRuntimeState(j) ==
    LET base == IF Snapshots(j) = {} THEN <<0, 0>> ELSE Version(j[Latest(j)])
    IN IF \E i \in Resets(j) : \A k \in Snapshots(j) : k < i THEN <<base[1] + 1, 0>> ELSE base

\* A journal without a snapshot, of a process that crashed before its first one, gets
\* the fresh state as one.
OpenLoads ==
    /\ opener.pc = "load"
    /\ LET v == LoadRuntimeState(journal)
       IN owner' = [on |-> TRUE, gen |-> v[1], rev |-> v[2], pending |-> FALSE]
    /\ journal' = IF Snapshots(journal) = {} THEN Append(journal, Event("import", 0, 0, 0)) ELSE journal
    /\ opener' = [pc |-> "idle", todo |-> <<>>]
    /\ UNCHANGED <<old, file, temp, saver, writer, crashes>>

-----------------------------------------------------------------------------
(***************************************************************************)
(* The owner of the journal, and the compatibility writer.                 *)
(***************************************************************************)

\* persistSnapshotLocked: the new messages, then the snapshot, in two appends.
OwnerAppendsMessages ==
    /\ owner.on /\ ~owner.pending /\ owner.rev < MaxRev
    /\ journal' = Append(journal, Event("message", 0, 0, 0))
    /\ owner' = [owner EXCEPT !.pending = TRUE]
    /\ UNCHANGED <<old, file, temp, saver, opener, writer, crashes>>

OwnerCheckpoints ==
    /\ owner.on /\ owner.pending
    /\ journal' = Append(journal, Event("checkpoint", 0, owner.gen, owner.rev + 1))
    /\ owner' = [owner EXCEPT !.pending = FALSE, !.rev = @ + 1]
    /\ UNCHANGED <<old, file, temp, saver, opener, writer, crashes>>

\* AgentRuntime.Reset: the next generation, its reset event and its first snapshot
\* in one append.
OwnerResets ==
    /\ owner.on /\ ~owner.pending /\ owner.gen < 1
    /\ journal' = journal \o <<Event("reset", 0, owner.gen + 1, 0), Event("checkpoint", 0, owner.gen + 1, 0)>>
    /\ owner' = [owner EXCEPT !.gen = @ + 1, !.rev = 0]
    /\ UNCHANGED <<old, file, temp, saver, opener, writer, crashes>>

OwnerCrashes ==
    /\ owner.on /\ crashes < MaxCrashes
    /\ crashes' = crashes + 1
    /\ owner' = [owner EXCEPT !.on = FALSE, !.pending = FALSE]
    /\ UNCHANGED <<old, file, temp, journal, saver, opener, writer>>

\* Some process takes a copy of the state, to be saved through the store later.
WriterTakes ==
    /\ writer.pc = "idle" /\ owner.on /\ writer.saves < MaxSaves
    /\ writer' = [pc |-> "took", gen |-> owner.gen, rev |-> owner.rev, head |-> 0, saves |-> writer.saves + 1]
    /\ UNCHANGED <<old, file, temp, journal, saver, opener, owner, crashes>>

\* saveRuntimeSnapshot, AppendRuntimeState: the head is read first ...
WriterReadsHead ==
    /\ writer.pc = "took"
    /\ writer' = [writer EXCEPT !.pc = "head", !.head = Len(journal)]
    /\ UNCHANGED <<old, file, temp, journal, saver, opener, owner, crashes>>

Older(g1, r1, g2, r2) == g1 < g2 \/ (g1 = g2 /\ r1 < r2)

\* ... then validateSnapshotFreshness looks back from the head as it is now, to the
\* latest snapshot and to the resets after it ...
WriterValidates ==
    /\ writer.pc = "head"
    /\ LET later == {i \in Resets(journal) : \A k \in Snapshots(journal) : k < i}
           stale == \/ \E i \in later : writer.gen < journal[i].gen
                    \/ /\ Snapshots(journal) # {}
                       /\ LET e == journal[Latest(journal)]
                          IN e.type = "checkpoint" /\ Older(writer.gen, writer.rev, e.gen, e.rev)
       IN writer' = [writer EXCEPT !.pc = IF stale THEN "idle" ELSE "valid"]
    /\ UNCHANGED <<old, file, temp, journal, saver, opener, owner, crashes>>

\* ... and the append succeeds only at the head that was read.
WriterAppends ==
    /\ writer.pc = "valid"
    /\ journal' = IF writer.head = Len(journal)
                  THEN Append(journal, Event("checkpoint", 0, writer.gen, writer.rev)) ELSE journal
    /\ writer' = [writer EXCEPT !.pc = "idle"]
    /\ UNCHANGED <<old, file, temp, saver, opener, owner, crashes>>

-----------------------------------------------------------------------------

\* A session of an earlier version: saved whole, saved without a state, or absent.
FilesInit(kind) ==
    /\ old = [f \in Files |-> IF kind = "whole" \/ (kind = "messages" /\ f = "transcript") THEN 1 ELSE 0]
    /\ file = [f \in Files |-> 0]
    /\ temp = Absent /\ journal = Absent
    /\ saver = [pc |-> "idle", gen |-> 1, next |-> 1]
    /\ opener = [pc |-> "idle", todo |-> <<>>]
    /\ owner = [on |-> FALSE, gen |-> 0, rev |-> 0, pending |-> FALSE]
    /\ writer = [pc |-> "idle", gen |-> 0, rev |-> 0, head |-> 0, saves |-> 0]
    /\ crashes = 0

FilesNext ==
    \/ SaveBegins \/ SaveMovesFlat \/ SaveWrites \/ SaverCrashes
    \/ OpenBegins \/ OpenMovesFlat \/ OpenExisting \/ OpenFresh \/ OpenFreshCreated
    \/ MigrateBegins \/ MigrateAppends \/ MigrateCommits \/ MigrateFails \/ OpenerCrashes \/ OpenLoads
    \/ OwnerAppendsMessages \/ OwnerCheckpoints \/ OwnerResets \/ OwnerCrashes
    \/ WriterTakes \/ WriterReadsHead \/ WriterValidates \/ WriterAppends
=============================================================================
