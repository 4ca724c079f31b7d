----------------------------- MODULE McpTrust -----------------------------
(***************************************************************************)
(* Which MCP servers of a project a session starts.  Each execution engine *)
(* loads the project's .mcp.json and its trust record, starts the servers  *)
(* whose fingerprint is on record, asks the user about the others while a  *)
(* run waits, and registers again after a grant.  The files are shared by  *)
(* all sessions of the project and may be edited at any moment.            *)
(*                                                                         *)
(* A version number is a server's configuration and its fingerprint; 0 is  *)
(* a server that is not configured, or no fingerprint.                     *)
(***************************************************************************)
EXTENDS Naturals, FiniteSets

CONSTANTS Engines,      \* execution engines (sessions) on one project
          ProjServers,  \* names in the project's configuration
          MaxConfig     \* bound: versions of a server's configuration

VARIABLES conf,      \* the project's configuration file
          trustFile, \* the project's trust record
          engine,    \* the engines and their query loops
          procs,     \* server processes ever started, with their version
          approved   \* what was on record at first, shown and granted since

trustVars == <<conf, trustFile, engine, procs, approved>>

Nothing == [s \in ProjServers |-> 0]

(* context: mcpContext is not nil; clients: its mcp_clients.               *)
NewEngine == [context |-> FALSE, ready |-> FALSE, clients |-> {}, approvals |-> Nothing,
              pending |-> Nothing, pc |-> "idle", ret |-> "idle", aborted |-> FALSE,
              conf |-> Nothing, trust |-> Nothing]

TrustInit ==
    /\ conf \in [ProjServers -> 0..1]
    /\ \E known \in SUBSET ProjServers :
         trustFile = [s \in ProjServers |-> IF s \in known THEN 1 ELSE 0]
    /\ engine = [e \in Engines |-> NewEngine]
    /\ procs = {}
    /\ approved = {<<s, trustFile[s]>> : s \in {x \in ProjServers : trustFile[x] # 0}}

Locked(e) == engine[e].pc = "loading"

(* Someone edits the project's configuration.                              *)
EditConfig(s) ==
    /\ conf[s] < MaxConfig
    /\ conf' = [conf EXCEPT ![s] = @ + 1]
    /\ UNCHANGED <<trustFile, engine, procs, approved>>

(* queryLoop prepares MCP before its first turn, when it is not yet.       *)
BeginQuery(e) ==
    /\ engine[e].pc = "idle"
    /\ engine' = [engine EXCEPT ![e].pc = IF engine[e].ready THEN "turn" ELSE "prepare",
                                ![e].aborted = FALSE]
    /\ UNCHANGED <<conf, trustFile, procs, approved>>

(* The files as they are read.                                             *)
LoadProjectMCPConfig == conf
LoadTrustedMCP == trustFile

(* ensureMCPTools takes mcpMu: ready means nothing to do; otherwise        *)
(* trustedMCPConfigs reads both files.                                     *)
Ensure(e, from, to) ==
    /\ engine[e].pc = from
    /\ engine' = [engine EXCEPT ![e] =
         IF engine[e].ready THEN [@ EXCEPT !.pc = to]
         ELSE [@ EXCEPT !.pc = "loading", !.ret = to, !.conf = LoadProjectMCPConfig,
                        !.trust = LoadTrustedMCP]]
    /\ UNCHANGED <<conf, trustFile, procs, approved>>

(* The servers on record as they are configured now, and those the         *)
(* approvals of the last prompt cover.                                     *)
OnRecord(g) == {s \in ProjServers : g.conf[s] # 0 /\ g.trust[s] = g.conf[s]}

(* Faulty variant: an approval goes by the server's name.                  *)
NewlyApprovedByName(g) == {s \in ProjServers : g.conf[s] # 0 /\ g.approvals[s] # 0}

NewlyApproved(g) == {s \in ProjServers : g.conf[s] # 0 /\ g.approvals[s] = g.conf[s]}

(* SaveTrustedMCP writes the record as it was read, with the new entries.  *)
SavedTrust(g, fresh) == [s \in ProjServers |-> IF s \in fresh THEN g.conf[s] ELSE g.trust[s]]

(* RegisterMCPTools: save the record if an approval was used, connect to   *)
(* each trusted server and register their tools as deferred ones.  The     *)
(* clients of an earlier registration are replaced, not disconnected.      *)
Register(e) ==
    /\ engine[e].pc = "loading"
    /\ LET g == engine[e]
           fresh == NewlyApproved(g)
           started == OnRecord(g) \cup fresh
       IN /\ trustFile' = IF fresh = {} THEN trustFile ELSE SavedTrust(g, fresh)
          /\ procs' = procs \cup {<<s, g.conf[s]>> : s \in started}
          /\ engine' = [engine EXCEPT ![e] =
               [@ EXCEPT !.context = TRUE, !.ready = TRUE, !.pc = g.ret, !.ret = "idle",
                         !.conf = Nothing, !.trust = Nothing, !.clients = started,
                         !.pending = [s \in ProjServers |->
                                        IF s \in OnRecord(g) THEN 0 ELSE g.conf[s]]]]
    /\ UNCHANGED <<conf, approved>>

(* applyMCPTrustDecision: a grant covers the fingerprints that were shown, *)
(* and has the tools registered again.                                     *)
Grant(g) == IF ~g.context THEN g
            ELSE [g EXCEPT !.approvals = g.pending, !.pending = Nothing, !.ready = FALSE]
Deny(g) == IF ~g.context THEN g ELSE [g EXCEPT !.pending = Nothing]

Shown(g) == {<<s, g.pending[s]>> : s \in {x \in ProjServers : g.pending[x] # 0}}

(* maybePromptMCPTrust: nothing pending, YOLO mode grants, or the user is  *)
(* asked.                                                                  *)
Prompt(e, yolo) ==
    /\ engine[e].pc = "prompt"
    /\ IF Shown(engine[e]) = {} \/ engine[e].aborted
       THEN engine' = [engine EXCEPT ![e].pc = "again"] /\ UNCHANGED approved
       ELSE IF yolo
       THEN /\ engine' = [engine EXCEPT ![e] = [Grant(@) EXCEPT !.pc = "again"]]
            /\ approved' = approved \cup Shown(engine[e])
       ELSE engine' = [engine EXCEPT ![e].pc = "asking"] /\ UNCHANGED approved
    /\ UNCHANGED <<conf, trustFile, procs>>

Answer(e, granted) ==
    /\ engine[e].pc = "asking" /\ ~engine[e].aborted
    /\ engine' = [engine EXCEPT ![e] =
                    [(IF granted THEN Grant(@) ELSE Deny(@)) EXCEPT !.pc = "again"]]
    /\ approved' = IF granted THEN approved \cup Shown(engine[e]) ELSE approved
    /\ UNCHANGED <<conf, trustFile, procs>>

(* A turn uses the clients it got, and the loop goes on or ends.           *)
EndTurn(e, more) ==
    /\ engine[e].pc = "calls"
    /\ engine' = [engine EXCEPT ![e].pc = IF more /\ ~engine[e].aborted THEN "turn" ELSE "idle"]
    /\ UNCHANGED <<conf, trustFile, procs, approved>>

(* A run that is cut short leaves the query loop wherever it looks.        *)
Unwind(e) ==
    /\ engine[e].aborted /\ engine[e].pc \notin {"idle", "loading"}
    /\ engine' = [engine EXCEPT ![e].pc = "idle"]
    /\ UNCHANGED <<conf, trustFile, procs, approved>>

(* Abort ends the run; Reset also disconnects and forgets the context,     *)
(* approvals and all, once mcpMu is free.                                  *)
AbortQuery(e) ==
    /\ engine[e].pc # "idle" /\ ~engine[e].aborted
    /\ engine' = [engine EXCEPT ![e].aborted = TRUE]
    /\ UNCHANGED <<conf, trustFile, procs, approved>>

DisconnectMCP(e) ==
    /\ engine[e].context /\ ~Locked(e)
    /\ engine[e].pc = "idle" \/ engine[e].aborted
    /\ engine' = [engine EXCEPT ![e] = [@ EXCEPT !.context = FALSE, !.ready = FALSE, !.clients = {},
                                                 !.approvals = Nothing, !.pending = Nothing]]
    /\ UNCHANGED <<conf, trustFile, procs, approved>>

TrustNext ==
    \/ \E s \in ProjServers : EditConfig(s)
    \/ \E e \in Engines :
         \/ BeginQuery(e) \/ Register(e) \/ Unwind(e) \/ AbortQuery(e) \/ DisconnectMCP(e)
         \/ Ensure(e, "prepare", "prompt") \/ Ensure(e, "again", "turn") \/ Ensure(e, "turn", "calls")
         \/ \E b \in BOOLEAN : Prompt(e, b) \/ Answer(e, b) \/ EndTurn(e, b)

(***************************************************************************)
(* A project's server is started only with a configuration whose           *)
(* fingerprint was on record at the beginning or was shown to the user (or *)
(* to YOLO mode) and granted, although the configuration may be edited     *)
(* while the question is open and other sessions rewrite the record; and   *)
(* the record never holds any other fingerprint.                           *)
(***************************************************************************)
ApprovedAsShown ==
    /\ procs \subseteq approved
    /\ \A s \in ProjServers : trustFile[s] # 0 => <<s, trustFile[s]>> \in approved
=============================================================================
