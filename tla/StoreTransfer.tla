---------------------------- MODULE StoreTransfer ---------------------------
(***************************************************************************)
(* Moving durable facts from a local store to the cluster: one session's   *)
(* journal (session/cluster_migration.go, runClusterSessionMigration) or   *)
(* one project's Memory Fabric (memory/migration.go,                       *)
(* runMemoryStoreMigration), beside writers of either side; and the        *)
(* exports back into a new local directory.                                *)
(*                                                                         *)
(* A store is the sequence of the facts written to it; a fact is named by  *)
(* the side that wrote it and a number.  The two kinds of migration differ *)
(* in what is checked when, which the actions spell out.                   *)
(***************************************************************************)
EXTENDS Integers, Sequences, SequencesExt, FiniteSets

CONSTANTS
    MaxFacts,       \* bound on the facts each side writes
    MaxAttempts,    \* bound on the migration commands
    MaxFailures     \* bound on the crashes

VARIABLES
    transfer,       \* the kind of migration, and whether local writers stay quiet
    src,            \* facts in the local store
    dst,            \* facts in the cluster's store; <<>> when it has none
    imported,       \* the import row: the facts of the completed import, or <<"none">>
    marker,         \* the local read-only marker
    holder,         \* who holds the Redis lease: "none", "migration" or "cluster"
    mig,            \* the migration command
    local,          \* a local writer: "closed", or "open" past its check of the marker
    remote,         \* a cluster writer: "idle", or "passed" its check
    export,         \* an export of the session
    written,        \* [{"s", "d"} -> facts written so far]
    attempts,
    failures

transferVars == <<transfer, src, dst, imported, marker, holder, mig, local, remote, export, written, attempts, failures>>

Sessions == transfer.kind = "session"

Fact(side, i) == [side |-> side, i |-> i]

NoImport == <<Fact("none", 0)>>

NoMig == [pc |-> "idle", sum |-> <<>>]

NoExport == [pc |-> "idle", head |-> 0, facts |-> <<>>]

\* The command is not between its first look at the local store and its last step.
MigIdle == mig.pc = "idle"

MigGoto(pc) == mig' = [mig EXCEPT !.pc = pc]

-----------------------------------------------------------------------------
(***************************************************************************)
(* Writers.                                                                *)
(***************************************************************************)

(* Faulty variant: the marker is not consulted. *)
LocalOpensMigrated ==
    /\ local = "closed" /\ (transfer.quiet => MigIdle)
    /\ local' = "open"
    /\ UNCHANGED <<transfer, src, dst, imported, marker, holder, mig, remote, export, written, attempts, failures>>

\* Store.OpenRuntime, or the Fabric's WriteGuard: refused once the marker is there.
LocalOpens ==
    /\ local = "closed" /\ (transfer.quiet => MigIdle)
    /\ ~marker
    /\ local' = "open"
    /\ UNCHANGED <<transfer, src, dst, imported, marker, holder, mig, remote, export, written, attempts, failures>>

\* The writer appends.  A session's journal stays open for more; a Fabric operation
\* is over and the next one checks again.
LocalAppends ==
    /\ local = "open" /\ written["s"] < MaxFacts
    /\ src' = Append(src, Fact("s", written["s"] + 1))
    /\ written' = [written EXCEPT !["s"] = @ + 1]
    /\ local' = IF Sessions THEN "open" ELSE "closed"
    /\ UNCHANGED <<transfer, dst, imported, marker, holder, mig, remote, export, attempts, failures>>

LocalCloses ==
    /\ local = "open" /\ local' = "closed"
    /\ UNCHANGED <<transfer, src, dst, imported, marker, holder, mig, remote, export, written, attempts, failures>>

\* An instance acquires the session's lease, or a PostgreSQL Fabric passes its guard,
\* which asks only whether a migration holds the project's lease.
RemotePasses ==
    /\ remote = "idle"
    /\ IF Sessions THEN imported # NoImport /\ holder = "none" /\ holder' = "cluster"
                   ELSE holder # "migration" /\ UNCHANGED holder
    /\ remote' = "passed"
    /\ UNCHANGED <<transfer, src, dst, imported, marker, mig, local, export, written, attempts, failures>>

RemoteAppends ==
    /\ remote = "passed" /\ written["d"] < MaxFacts
    /\ dst' = Append(dst, Fact("d", written["d"] + 1))
    /\ written' = [written EXCEPT !["d"] = @ + 1]
    /\ remote' = IF Sessions THEN "passed" ELSE "idle"
    /\ UNCHANGED <<transfer, src, imported, marker, holder, mig, local, export, attempts, failures>>

RemoteLeaves ==
    /\ remote = "passed" /\ remote' = "idle"
    /\ holder' = IF Sessions THEN "none" ELSE holder
    /\ UNCHANGED <<transfer, src, dst, imported, marker, mig, local, export, written, attempts, failures>>

-----------------------------------------------------------------------------
(***************************************************************************)
(* The migration command.                                                  *)
(***************************************************************************)

\* The lease is acquired.  A migrated Fabric cannot be opened again.
MigrationAcquires ==
    /\ MigIdle /\ attempts < MaxAttempts /\ holder = "none"
    /\ Sessions \/ ~marker
    /\ transfer.quiet => local = "closed"
    /\ holder' = "migration" /\ attempts' = attempts + 1
    /\ MigGoto("snapshot")
    /\ UNCHANGED <<transfer, src, dst, imported, marker, local, remote, export, written, failures>>

\* sqliteRuntimeChecksum and the counts, read before the transaction.  A checksum is
\* modelled by what it is taken of.
SessionChecksum ==
    /\ Sessions /\ mig.pc = "snapshot"
    /\ mig' = [pc |-> "import", sum |-> src]
    /\ UNCHANGED <<transfer, src, dst, imported, marker, holder, local, remote, export, written, attempts, failures>>

\* Flush and the SQLite Fabric's ExportDurableSnapshot.
MemorySnapshot ==
    /\ ~Sessions /\ mig.pc = "snapshot"
    /\ mig' = [pc |-> "import", sum |-> src]
    /\ UNCHANGED <<transfer, src, dst, imported, marker, holder, local, remote, export, written, attempts, failures>>

MigrationEnds == mig' = NoMig /\ holder' = "none"

\* copySQLiteEventsToPostgres and its companions read the rows as they are now.
CopiedRows == src

\* ImportLocalRuntime's transaction: an import row with the same checksum is taken as
\* done, another one or an existing session is an error; the rows that were copied
\* must match the checksum.
ImportLocalRuntime ==
    /\ Sessions /\ mig.pc = "import"
    /\ IF imported = mig.sum
       THEN MigGoto("verify") /\ UNCHANGED <<dst, imported, holder>>
       ELSE IF imported # NoImport \/ dst # <<>> \/ CopiedRows # mig.sum
       THEN MigrationEnds /\ UNCHANGED <<dst, imported>>
       ELSE dst' = CopiedRows /\ imported' = mig.sum /\ MigGoto("verify") /\ UNCHANGED holder
    /\ UNCHANGED <<transfer, src, marker, local, remote, export, written, attempts, failures>>

\* The PostgreSQL Fabric's ImportDurableSnapshot: the import row is named after the
\* checksum; inserting a fact that is there already is an error.
ImportDurableSnapshot ==
    /\ ~Sessions /\ mig.pc = "import"
    /\ IF imported = mig.sum
       THEN MigGoto("verify") /\ UNCHANGED <<dst, imported, holder>>
       ELSE IF ToSet(mig.sum) \cap ToSet(dst) # {}
       THEN MigrationEnds /\ UNCHANGED <<dst, imported>>
       ELSE dst' = dst \o mig.sum /\ imported' = mig.sum /\ MigGoto("verify") /\ UNCHANGED holder
    /\ UNCHANGED <<transfer, src, marker, local, remote, export, written, attempts, failures>>

\* A session was verified inside the transaction: the lease is released.
SessionVerified ==
    /\ Sessions /\ mig.pc = "verify"
    /\ MigGoto("mark") /\ holder' = "none"
    /\ UNCHANGED <<transfer, src, dst, imported, marker, local, remote, export, written, attempts, failures>>

\* The Fabric's target is exported again and compared with the snapshot.
MemoryVerifies ==
    /\ ~Sessions /\ mig.pc = "verify"
    /\ IF ToSet(dst) = ToSet(mig.sum) THEN MigGoto("mark") /\ UNCHANGED holder ELSE MigrationEnds
    /\ UNCHANGED <<transfer, src, dst, imported, marker, local, remote, export, written, attempts, failures>>

\* MarkLocalRuntimeMigrated, MarkSQLiteFabricMigrated.
MigrationMarks ==
    /\ mig.pc = "mark"
    /\ marker' = TRUE /\ mig' = NoMig
    /\ holder' = IF Sessions THEN holder ELSE "none"
    /\ UNCHANGED <<transfer, src, dst, imported, local, remote, export, written, attempts, failures>>

\* The command dies; its lease runs out.
MigrationCrashes ==
    /\ ~MigIdle /\ failures < MaxFailures
    /\ mig' = NoMig /\ failures' = failures + 1
    /\ holder' = IF holder = "migration" THEN "none" ELSE holder
    /\ UNCHANGED <<transfer, src, dst, imported, marker, local, remote, export, written, attempts>>

-----------------------------------------------------------------------------
(***************************************************************************)
(* Exports into a new local directory.                                     *)
(***************************************************************************)

\* runClusterSessionExport: the session must have no owner, now.
ExportBegins ==
    /\ Sessions /\ export.pc = "idle" /\ imported # NoImport
    /\ holder = "none"
    /\ export' = [export EXCEPT !.pc = "streams"]
    /\ UNCHANGED <<transfer, src, dst, imported, marker, holder, mig, local, remote, written, attempts, failures>>

\* ExportRuntimeToLocal: the streams with their heads are read by one query ...
ExportReadsStreams ==
    /\ export.pc = "streams"
    /\ export' = [export EXCEPT !.pc = "events", !.head = Len(dst)]
    /\ UNCHANGED <<transfer, src, dst, imported, marker, holder, mig, local, remote, written, attempts, failures>>

\* ... the events and the rest by later ones, and the copy is committed.
ExportReadsEvents ==
    /\ export.pc = "events"
    /\ export' = [export EXCEPT !.pc = "done", !.facts = dst]
    /\ UNCHANGED <<transfer, src, dst, imported, marker, holder, mig, local, remote, written, attempts, failures>>

\* memory export: under the project's migration lease the PostgreSQL Fabric is
\* flushed and its snapshot taken ...
MemoryExportBegins ==
    /\ ~Sessions /\ export.pc = "idle" /\ dst # <<>> /\ holder = "none"
    /\ holder' = "migration"
    /\ export' = [pc |-> "append", head |-> Len(dst), facts |-> <<>>]
    /\ UNCHANGED <<transfer, src, dst, imported, marker, mig, local, remote, written, attempts, failures>>

\* ... and imported into the new SQLite Fabric: its events first, the rest after them.
MemoryExportAppends ==
    /\ export.pc = "append"
    /\ export' = [export EXCEPT !.pc = "rest", !.facts = SubSeq(dst, 1, export.head)]
    /\ UNCHANGED <<transfer, src, dst, imported, marker, holder, mig, local, remote, written, attempts, failures>>

MemoryExportEnds ==
    /\ export.pc = "rest"
    /\ export' = [export EXCEPT !.pc = "done"] /\ holder' = "none"
    /\ UNCHANGED <<transfer, src, dst, imported, marker, mig, local, remote, written, attempts, failures>>

-----------------------------------------------------------------------------

TransferInit(t) ==
    /\ transfer = t
    /\ src = <<Fact("s", 1)>> /\ dst = <<>>
    /\ imported = NoImport /\ marker = FALSE /\ holder = "none"
    /\ mig = NoMig /\ local = "closed" /\ remote = "idle" /\ export = NoExport
    /\ written = [s |-> 1, d |-> 0] /\ attempts = 0 /\ failures = 0

TransferNext ==
    \/ LocalOpens \/ LocalAppends \/ LocalCloses
    \/ RemotePasses \/ RemoteAppends \/ RemoteLeaves
    \/ MigrationAcquires \/ SessionChecksum \/ MemorySnapshot
    \/ ImportLocalRuntime \/ ImportDurableSnapshot
    \/ SessionVerified \/ MemoryVerifies \/ MigrationMarks \/ MigrationCrashes
    \/ ExportBegins \/ ExportReadsStreams \/ ExportReadsEvents
    \/ MemoryExportBegins \/ MemoryExportAppends \/ MemoryExportEnds
=============================================================================
