--------------------------- MODULE AppRootLayout ---------------------------
(***************************************************************************)
(* The one-time conversion of a legacy LuminaCode directory into the       *)
(* layered AppRoot (apppaths/migrate.go, apppaths/layout.go,               *)
(* layout_cli.go), with everything that may stop it half way: a failing    *)
(* copy, rename or removal, a crash between two of its steps, and a second *)
(* process that tries the same.                                            *)
(*                                                                         *)
(* A directory is the set of the things stored in it; a thing is a name,   *)
(* standing for a file or a tree with its content.  disk maps each place   *)
(* to its set.  Configuration files are also rewritten where they lie;     *)
(* form says which version of the file a place holds.                      *)
(***************************************************************************)
EXTENDS Integers, Sequences, FiniteSets, SequencesExt

CONSTANTS
    Movers,         \* processes that run "lumina layout migrate --apply" or "bind-project"
    MaxTries,       \* bound on the commands that are started
    MaxTrouble      \* bound on failing file operations and crashes

VARIABLES
    setup,          \* what lies where at the start, and how the command is used
    disk,           \* [Places -> SUBSET Things]
    form,           \* [Rewritten -> {"none", "old", "new"}]
    made,           \* places that exist as empty directories
    layout,         \* layout.json is there
    lock,           \* .layout-migration.lock is there
    root,           \* the legacy root's name: "source", or "backup" once renamed
    job,            \* what each mover is doing
    tries,          \* commands started
    trouble         \* faults so far

layoutVars == <<setup, disk, form, made, layout, lock, root, job, tries, trouble>>

\* What a legacy directory may hold: a bundled and a user-added skill, the settings,
\* the MCP configuration and its ownership ledger, an unclassified configuration
\* file, sessions, a project's team data and its other files, retired memory, and
\* something somebody else put at a destination.
Things == {"skill", "mine", "settings", "mcp", "owned", "odd", "sessions", "teams", "rest", "memory", "other"}

LegacyPlaces == {"SKILLS", "CONFIG", "sessions", "project", "memory"}

Places == LegacyPlaces \cup {"legacy/resources", "config/skills", "app/resources", "data/sessions",
    "config/settings", "config/mcp", "config/managed", "data/project", "legacy/project",
    "legacy/residual", "legacy/config", "legacy/config-residual"}

Rewritten == {"config/settings", "config/mcp", "config/managed", "manifest"}

Op(kind, from, what, to) == [kind |-> kind, from |-> from, what |-> what, to |-> to]

\* planUserResourceImports: what the user added to the bundled resources.
planUserResourceImports == Op("copy", "SKILLS", {"mine"}, "config/skills")

\* buildMigrationOperations, in its order.  The residual operations take whatever
\* the operations before them left in the directory.
buildMigrationOperations ==
    << Op("copy", "SKILLS", Things, "legacy/resources"),
       planUserResourceImports,
       Op("move", "SKILLS", Things, "app/resources"),
       Op("move", "sessions", Things, "data/sessions"),
       Op("move", "CONFIG", {"settings"}, "config/settings"),
       Op("move", "CONFIG", {"mcp"}, "config/mcp"),
       Op("move", "CONFIG", {"owned"}, "config/managed") >>
    \o (IF setup.bound
        THEN << Op("move", "project", {"teams"}, "data/project"),
                Op("move", "project", Things, "legacy/residual") >>
        ELSE << Op("move", "project", Things, "legacy/project") >>)
    \o << Op("move", "CONFIG", {"odd"}, "legacy/config"),
          Op("move", "CONFIG", Things, "legacy/config-residual") >>

Taken(op) == disk[op.from] \cap op.what

\* pathsIdentical: the destination holds the same things, and no file of it has been
\* rewritten since it was copied.
pathsIdentical(op) ==
    /\ disk[op.to] = Taken(op)
    /\ op.to \in Rewritten => form[op.to] = "old"

\* validateMigrationOperations: an absent or an empty destination is free.
Conflicting(op) ==
    /\ Taken(op) # {}
    /\ disk[op.to] # {}
    /\ ~pathsIdentical(op)

Pending(op) == Taken(op) # {} /\ disk[op.to] = {}

Idle == [pc |-> "idle", kind |-> "migrate", ops |-> <<>>, stage |-> {}, falls |-> FALSE,
         completed |-> <<>>, snaps |-> <<>>, renamed |-> FALSE]

At(p, pc) == job[p].pc = pc

Set(p, r) == job' = [job EXCEPT ![p] = r]

Goto(p, pc) == Set(p, [job[p] EXCEPT !.pc = pc])

\* validateMigrationRoot: the legacy root is inspected before the lock is taken.
validateMigrationRoot == root = "source"

\* EnsureProjectManifest writes the project's manifest and makes its directories.
EnsureProjectManifest ==
    /\ form' = [form EXCEPT !["manifest"] = "new"]
    /\ made' = IF disk["data/project"] = {} THEN made \cup {"data/project"} ELSE made

\* One more file operation that fails.
Trouble == trouble < MaxTrouble /\ trouble' = trouble + 1

\* An error return: a migration first restores the files it rewrote, a binding first
\* puts back what it moved.
Fails(p) == Goto(p, IF job[p].kind = "bind" THEN "rollback" ELSE "restore")

-----------------------------------------------------------------------------

\* The command starts: the legacy root must exist (validateMigrationRoot) and the
\* lock file must not (acquireMigrationLock).  A refused command changes nothing.
acquireMigrationLock(p, kind) ==
    /\ At(p, "idle") /\ tries < MaxTries /\ (kind = "migrate" => validateMigrationRoot)
    /\ ~lock /\ lock' = TRUE /\ tries' = tries + 1
    /\ Set(p, [Idle EXCEPT !.pc = "plan", !.kind = kind])
    /\ UNCHANGED <<setup, disk, form, made, layout, root, trouble>>

\* Migrate up to its first change: with layout.json present it only rewrites that
\* file; a destination with other content refuses the whole migration.
PlanMigration(p) ==
    /\ At(p, "plan") /\ job[p].kind = "migrate"
    /\ LET ops == buildMigrationOperations
       IN IF layout \/ \E i \in DOMAIN ops : Conflicting(ops[i])
          THEN Goto(p, "release")
          ELSE Set(p, [job[p] EXCEPT !.pc = "apply", !.ops = SelectSeq(ops, Pending)])
    /\ UNCHANGED <<setup, disk, form, made, layout, lock, root, tries, trouble>>

\* Too little room on the disk for the copies.
NoSpace(p) ==
    /\ At(p, "plan") /\ job[p].kind = "migrate" /\ ~layout /\ Trouble
    /\ Goto(p, "release")
    /\ UNCHANGED <<setup, disk, form, made, layout, lock, root, tries>>

\* BindLegacyProject up to its first move: the quarantined project must be there and
\* no destination may exist, not even empty; then the project's manifest is written,
\* and its directories are made.
PlanBinding(p) ==
    /\ At(p, "plan") /\ job[p].kind = "bind"
    /\ LET op == Op("move", "legacy/project", {"teams"}, "data/project")
           refused == disk["legacy/project"] = {}
                      \/ (Taken(op) # {} /\ (disk[op.to] # {} \/ op.to \in made))
       IN IF refused
          THEN /\ Goto(p, "release")
               /\ UNCHANGED <<form, made>>
          ELSE /\ Set(p, [job[p] EXCEPT !.pc = "apply",
                                        !.snaps = << <<"manifest", form["manifest"]>> >>,
                                        !.ops = IF Taken(op) # {} THEN <<op>> ELSE <<>>])
               /\ EnsureProjectManifest
    /\ UNCHANGED <<setup, disk, layout, lock, root, tries, trouble>>

-----------------------------------------------------------------------------

Current(p) == Head(job[p].ops)

Copies(op) == op.kind = "copy" \/ setup.elsewhere

Applied(p, op, copied) ==
    [job[p] EXCEPT !.pc = "apply", !.ops = Tail(@), !.stage = {}, !.falls = FALSE,
                   !.completed = Append(@, [op |-> op, copied |-> copied])]

\* applyMigrationOperation by os.Rename.
ApplyByRename(p) ==
    /\ At(p, "apply") /\ job[p].ops # <<>> /\ ~Copies(Current(p))
    /\ LET op == Current(p)
       IN /\ disk' = [disk EXCEPT ![op.to] = Taken(op), ![op.from] = @ \ op.what]
          /\ form' = IF op.to \in Rewritten THEN [form EXCEPT ![op.to] = "old"] ELSE form
          /\ made' = made \ {op.to}
          /\ Set(p, Applied(p, op, FALSE))
    /\ UNCHANGED <<setup, layout, lock, root, tries, trouble>>

\* copyPath into the staging name beside the destination: for a copy, or for a move
\* whose rename failed.  A copy may come out short.
CopyToStaging(p) ==
    /\ At(p, "apply") /\ job[p].ops # <<>>
    /\ LET op == Current(p)
           falls == ~Copies(op)
       IN /\ falls => setup.renamesFail
          /\ \/ /\ Set(p, [job[p] EXCEPT !.pc = "staged", !.stage = Taken(op), !.falls = falls])
                /\ trouble' = trouble
             \/ /\ Trouble
                /\ \E s \in SUBSET Taken(op) :
                      s # Taken(op) /\ Set(p, [job[p] EXCEPT !.pc = "staged", !.stage = s, !.falls = falls])
    /\ UNCHANGED <<setup, disk, form, made, layout, lock, root, tries>>

(* Faulty variant: the copy is not compared with its source. *)
CommitUnverified(p) ==
    /\ At(p, "staged")
    /\ LET op == Current(p)
       IN /\ disk' = [disk EXCEPT ![op.to] = job[p].stage]
          /\ form' = IF op.to \in Rewritten THEN [form EXCEPT ![op.to] = "old"] ELSE form
          /\ made' = made \ {op.to}
          /\ IF job[p].falls THEN Goto(p, "remove") ELSE Set(p, Applied(p, op, TRUE))
    /\ UNCHANGED <<setup, layout, lock, root, tries, trouble>>

\* copyPathVerified: the staged copy takes the destination's name only when it is
\* identical to its source.
CopyVerified(p) ==
    /\ At(p, "staged")
    /\ LET op == Current(p)
       IN IF job[p].stage = Taken(op)
          THEN /\ disk' = [disk EXCEPT ![op.to] = job[p].stage]
               /\ form' = IF op.to \in Rewritten THEN [form EXCEPT ![op.to] = "old"] ELSE form
               /\ made' = made \ {op.to}
               /\ IF job[p].falls THEN Goto(p, "remove") ELSE Set(p, Applied(p, op, TRUE))
          ELSE Fails(p) /\ UNCHANGED <<disk, form, made>>
    /\ UNCHANGED <<setup, layout, lock, root, tries, trouble>>

\* os.RemoveAll of the source of a move that had to copy.  When it fails, some of
\* the source is gone and the operation is not among the completed ones.
RemoveSource(p) ==
    /\ At(p, "remove")
    /\ LET op == Current(p)
       IN \/ /\ disk' = [disk EXCEPT ![op.from] = @ \ op.what]
             /\ Set(p, Applied(p, op, FALSE))
             /\ trouble' = trouble
          \/ /\ Trouble
             /\ \E gone \in SUBSET Taken(op) : disk' = [disk EXCEPT ![op.from] = @ \ gone]
             /\ Fails(p)
    /\ UNCHANGED <<setup, form, made, layout, lock, root, tries>>

\* An operation fails before it changes anything.
ApplyFails(p) ==
    /\ At(p, "apply") /\ job[p].ops # <<>> /\ Trouble
    /\ Fails(p)
    /\ UNCHANGED <<setup, disk, form, made, layout, lock, root, tries>>

\* Every operation is applied.  A binding is complete; a migration goes on.
AllApplied(p) ==
    /\ At(p, "apply") /\ job[p].ops = <<>>
    /\ Goto(p, IF job[p].kind = "bind" THEN "release" ELSE "manifest")
    /\ UNCHANGED <<setup, disk, form, made, layout, lock, root, tries, trouble>>

-----------------------------------------------------------------------------
(***************************************************************************)
(* The files that are rewritten before layout.json is committed.           *)
(***************************************************************************)

Snapshot(p, names) == job[p].snaps \o [i \in 1..Len(names) |-> <<names[i], form[names[i]]>>]

\* boundMigrationProjects: the project whose data was moved to its new directory, or
\* was skipped because it is there already.
boundMigrationProjects(p) ==
    /\ setup.bound
    /\ \/ "teams" \in disk["project"]
       \/ \E i \in DOMAIN job[p].completed : job[p].completed[i].op.to = "data/project"

\* The manifest of a project that was bound.
WriteManifest(p) ==
    /\ At(p, "manifest")
    /\ IF boundMigrationProjects(p)
       THEN /\ EnsureProjectManifest
            /\ Set(p, [job[p] EXCEPT !.pc = "settings", !.snaps = Snapshot(p, <<"manifest">>)])
       ELSE Goto(p, "settings") /\ UNCHANGED <<form, made>>
    /\ UNCHANGED <<setup, disk, layout, lock, root, tries, trouble>>

\* rewriteMigratedSettings, after the three configuration files are remembered.
RewriteSettings(p) ==
    /\ At(p, "settings")
    /\ Set(p, [job[p] EXCEPT !.pc = "managed",
                             !.snaps = Snapshot(p, <<"config/settings", "config/managed", "config/mcp">>)])
    /\ form' = IF disk["config/settings"] # {} THEN [form EXCEPT !["config/settings"] = "new"] ELSE form
    /\ UNCHANGED <<setup, disk, made, layout, lock, root, tries, trouble>>

\* rewriteManagedMCP, first file: only entries equal in both files are rewritten.
RewriteManaged(p) ==
    /\ At(p, "managed")
    /\ IF disk["config/managed"] # {} /\ disk["config/mcp"] # {} /\ form["config/managed"] = form["config/mcp"]
       THEN form' = [form EXCEPT !["config/managed"] = "new"] /\ Goto(p, "mcp")
       ELSE Goto(p, "inspect") /\ UNCHANGED form
    /\ UNCHANGED <<setup, disk, made, layout, lock, root, tries, trouble>>

\* rewriteManagedMCP, second file.
RewriteMCP(p) ==
    /\ At(p, "mcp") /\ form' = [form EXCEPT !["config/mcp"] = "new"] /\ Goto(p, "inspect")
    /\ UNCHANGED <<setup, disk, made, layout, lock, root, tries, trouble>>

\* inspectProjectManifests; then a separate legacy root gets its backup name.
PreserveSource(p) ==
    /\ At(p, "inspect")
    /\ root' = IF setup.elsewhere THEN "backup" ELSE root
    /\ Set(p, [job[p] EXCEPT !.pc = "commit", !.renamed = setup.elsewhere])
    /\ UNCHANGED <<setup, disk, form, made, layout, lock, tries, trouble>>

(* Faulty variant: layout.json is committed as soon as the files are in place. *)
CommitEarly(p) ==
    /\ job[p].pc \in {"manifest", "commit"}
    /\ layout' = TRUE
    /\ Goto(p, IF At(p, "manifest") THEN "settings" ELSE "retire")
    /\ UNCHANGED <<setup, disk, form, made, lock, root, tries, trouble>>

\* The report and WriteLayout: from here on the migration has taken place.
WriteLayout(p) ==
    /\ At(p, "commit")
    /\ layout' = TRUE
    /\ Goto(p, "retire")
    /\ UNCHANGED <<setup, disk, form, made, lock, root, tries, trouble>>

\* The retired memory data goes last; a failure to remove it is a warning.
RetireMemory(p) ==
    /\ At(p, "retire") /\ Goto(p, "release")
    /\ \/ disk' = [disk EXCEPT !["memory"] = {}] /\ trouble' = trouble
       \/ Trouble /\ UNCHANGED disk
    /\ UNCHANGED <<setup, form, made, layout, lock, root, tries>>

\* One of these steps fails.
CommitFails(p) ==
    /\ job[p].pc \in {"manifest", "settings", "managed", "mcp", "inspect", "commit"} /\ Trouble
    /\ Fails(p)
    /\ UNCHANGED <<setup, disk, form, made, layout, lock, root, tries>>

-----------------------------------------------------------------------------
(***************************************************************************)
(* The error returns, the end of the command, and crashes.                 *)
(***************************************************************************)

\* restoreMigrationSource and restoreMigrationFiles.
RestoreFiles(p) ==
    /\ At(p, "restore")
    /\ root' = IF job[p].renamed THEN "source" ELSE root
    /\ form' = [f \in Rewritten |->
                  IF \E i \in DOMAIN job[p].snaps : job[p].snaps[i][1] = f
                  THEN job[p].snaps[CHOOSE i \in DOMAIN job[p].snaps : job[p].snaps[i][1] = f][2]
                  ELSE form[f]]
    /\ Goto(p, IF job[p].kind = "bind" THEN "release" ELSE "rollback")
    /\ UNCHANGED <<setup, disk, made, layout, lock, tries, trouble>>

\* rollbackMigration, one completed operation at a time, the last one first: a copy
\* is removed, a move is renamed back (and stays where it is when that fails).
rollbackMigration(p) ==
    /\ At(p, "rollback") /\ job[p].completed # <<>>
    /\ LET last == Last(job[p].completed)
           op == last.op
           rest == [job[p] EXCEPT !.completed = Front(@)]
       IN \/ /\ last.copied
             /\ disk' = [disk EXCEPT ![op.to] = {}]
             /\ form' = IF op.to \in Rewritten THEN [form EXCEPT ![op.to] = "none"] ELSE form
             /\ Set(p, rest) /\ trouble' = trouble
          \/ /\ ~last.copied
             /\ disk' = [disk EXCEPT ![op.to] = {}, ![op.from] = @ \cup disk[op.to]]
             /\ form' = IF op.to \in Rewritten THEN [form EXCEPT ![op.to] = "none"] ELSE form
             /\ Set(p, rest) /\ trouble' = trouble
          \/ /\ ~last.copied /\ Trouble
             /\ Set(p, rest)
             /\ UNCHANGED <<disk, form>>
    /\ UNCHANGED <<setup, made, layout, lock, root, tries>>

RolledBack(p) ==
    /\ At(p, "rollback") /\ job[p].completed = <<>>
    /\ Goto(p, IF job[p].kind = "bind" THEN "restore" ELSE "release")
    /\ UNCHANGED <<setup, disk, form, made, layout, lock, root, tries, trouble>>

\* The deferred removal of the lock file.
release(p) ==
    /\ At(p, "release") /\ lock' = FALSE /\ Set(p, Idle)
    /\ UNCHANGED <<setup, disk, form, made, layout, root, tries, trouble>>

\* The process dies; its lock file stays.
Crash(p) ==
    /\ ~At(p, "idle") /\ Trouble /\ Set(p, Idle)
    /\ UNCHANGED <<setup, disk, form, made, layout, lock, root, tries>>

\* Somebody removes the lock of a process that died.
LockRemoved ==
    /\ lock /\ \A p \in Movers : At(p, "idle")
    /\ lock' = FALSE
    /\ UNCHANGED <<setup, disk, form, made, layout, root, job, tries, trouble>>

\* A session is started for the project: CheckLayout requires layout.json.  The
\* command stops a running daemon first (stopLayoutBackend).
PrepareRuntime ==
    /\ layout /\ ~lock
    /\ EnsureProjectManifest
    /\ UNCHANGED <<setup, disk, layout, lock, root, job, tries, trouble>>

-----------------------------------------------------------------------------

LayoutInit(s) ==
    /\ setup = s
    /\ disk = [q \in Places |-> s.holds[q]]
    /\ form = [f \in Rewritten |-> IF f = "manifest" \/ s.holds[f] = {} THEN "none" ELSE "old"]
    /\ made = {} /\ layout = FALSE /\ lock = FALSE /\ root = "source"
    /\ job = [p \in Movers |-> Idle]
    /\ tries = 0 /\ trouble = 0

LayoutStep(p) ==
    \/ acquireMigrationLock(p, "migrate")
    \/ (layout /\ ~setup.bound /\ acquireMigrationLock(p, "bind"))
    \/ PlanMigration(p) \/ NoSpace(p) \/ PlanBinding(p)
    \/ ApplyByRename(p) \/ CopyToStaging(p) \/ CopyVerified(p) \/ RemoveSource(p)
    \/ ApplyFails(p) \/ AllApplied(p)
    \/ WriteManifest(p) \/ RewriteSettings(p) \/ RewriteManaged(p) \/ RewriteMCP(p)
    \/ PreserveSource(p) \/ WriteLayout(p) \/ RetireMemory(p) \/ CommitFails(p)
    \/ RestoreFiles(p) \/ rollbackMigration(p) \/ RolledBack(p) \/ release(p) \/ Crash(p)

LayoutNext == (\E p \in Movers : LayoutStep(p)) \/ LockRemoved \/ PrepareRuntime
=============================================================================
