---------------------------- MODULE MCRelocation ----------------------------
(***************************************************************************)
(* Model checking the moves of durable data: a legacy directory into the   *)
(* layered AppRoot, a session's files into its journal, and local stores   *)
(* into the cluster.  A scene runs one of the three; the variables of the  *)
(* others keep the value of an untouched system.                           *)
(***************************************************************************)
EXTENDS AppRootLayout, SessionFiles, StoreTransfer

VARIABLE opt        \* the scene

-----------------------------------------------------------------------------
(***************************************************************************)
(* Scenes of the AppRoot.                                                  *)
(***************************************************************************)

Held(skills, config, project, placed) ==
    [q \in Places |->
        CASE q = "SKILLS" -> skills
          [] q = "CONFIG" -> config
          [] q = "project" -> project
          [] q = "sessions" -> {"sessions"}
          [] q = "memory" -> {"memory"}
          [] OTHER -> IF q = placed THEN {"other"} ELSE {}]

Layout(name, bound, elsewhere, renamesFail, holds) ==
    [name |-> name, bound |-> bound, elsewhere |-> elsewhere, renamesFail |-> renamesFail, holds |-> holds]

EmptyLayout == Layout("none", FALSE, FALSE, FALSE, [q \in Places |-> {}])

LayoutScenes ==
    { Layout("inPlace", TRUE, FALSE, FALSE,
             Held({"skill", "mine"}, {"settings", "mcp", "owned", "odd"}, {"teams", "rest"}, "none")),
      Layout("elsewhere", TRUE, TRUE, FALSE, Held({"skill", "mine"}, {"settings"}, {"teams"}, "none")),
      Layout("mounted", FALSE, FALSE, TRUE, Held({"skill", "mine"}, {"settings"}, {"teams"}, "none")),
      Layout("occupied", FALSE, FALSE, FALSE, Held({"skill"}, {"settings"}, {"teams"}, "data/sessions")) }

-----------------------------------------------------------------------------

\* Nothing a user had is ever lost: at every moment of a migration or a binding,
\* whatever fails or crashes, each thing of the legacy directory is whole in some
\* place.  Only the retired memory goes, and only once layout.json is written.
NothingLost ==
    \A q \in Places : \A t \in setup.holds[q] :
        (\E r \in Places : t \in disk[r]) \/ (t = "memory" /\ layout)

\* Where a thing of the legacy directory belongs.
Home(t) ==
    CASE t \in {"skill", "mine"} -> {"app/resources"}
      [] t = "settings" -> {"config/settings"}
      [] t = "mcp" -> {"config/mcp"}
      [] t = "owned" -> {"config/managed"}
      [] t = "odd" -> {"legacy/config", "legacy/config-residual"}
      [] t = "sessions" -> {"data/sessions"}
      [] t = "teams" -> IF setup.bound THEN {"data/project"} ELSE {"data/project", "legacy/project"}
      [] t = "rest" -> {"legacy/residual", "legacy/project"}
      [] OTHER -> Places

\* layout.json, which lets the daemon start, is there only when the move is complete:
\* everything is at its destination, and the settings name the new paths.
LayoutCommitsWhole ==
    layout =>
        /\ \A q \in LegacyPlaces \ {"memory"} : \A t \in setup.holds[q] : \E h \in Home(t) : t \in disk[h]
        /\ disk["config/settings"] # {} => form["config/settings"] = "new"

\* A journal takes the place of a session's files only as the whole session: from the
\* first moment it is there it begins with every message of the last state that was
\* saved, that state, and its recovery data and tasks, which belong to the same save
\* or, when that save was cut short, are both left out (migrateRuntime).
ImportIsWhole ==
    journal # Absent /\ (\E f \in {"state", "transcript"} : ReadPath(f) # 0) =>
        LET g == IF ReadPath("state") # 0 THEN ReadPath("state") ELSE ReadPath("transcript")
            r == IF \A f \in Files \ {"transcript"} : ReadPath(f) = g THEN g ELSE 0
        IN  IsPrefix(Imported(g, r, r), journal)

\* The local store is marked read-only only when everything in it is in the cluster:
\* the import was verified against it, and no local writer that respects the marker
\* adds to it afterwards.  Local writers are taken to be stopped while the command
\* runs; the command may crash at any step and be run again.
MarkerMeansCopied == marker /\ transfer.quiet => ToSet(src) \subseteq ToSet(dst)

-----------------------------------------------------------------------------

Transfer(kind, quiet) == [kind |-> kind, quiet |-> quiet]

Scenes ==
    { [name |-> s.name, part |-> "layout", layout |-> s, files |-> "none", transfer |-> Transfer("session", TRUE)] :
        s \in LayoutScenes }
    \cup { [name |-> "files", part |-> "files", layout |-> EmptyLayout, files |-> k, transfer |-> Transfer("session", TRUE)] :
        k \in {"whole", "messages", "none"} }
    \cup { [name |-> "transfer", part |-> "transfer", layout |-> EmptyLayout, files |-> "none", transfer |-> Transfer(k, q)] :
        k \in {"session", "memory"}, q \in BOOLEAN }

Begin(scenes) ==
    \E s \in scenes :
        /\ opt = s.part
        /\ LayoutInit(s.layout) /\ FilesInit(s.files) /\ TransferInit(s.transfer)

Next ==
    \/ opt = "layout" /\ LayoutNext /\ UNCHANGED <<opt, fileVars, transferVars>>
    \/ opt = "files" /\ FilesNext /\ UNCHANGED <<opt, layoutVars, transferVars>>
    \/ opt = "transfer" /\ TransferNext /\ UNCHANGED <<opt, layoutVars, fileVars>>

vars == <<opt, layoutVars, fileVars, transferVars>>

RelocationSpec == Begin(Scenes) /\ [][Next]_vars
=============================================================================
