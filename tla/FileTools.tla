----------------------------- MODULE FileTools -----------------------------
(***************************************************************************)
(* read_file, write_file, edit_file and notebook_edit on one file that     *)
(* several agents and other programs share.  An agent's runtime remembers  *)
(* what its tools last read (AgentServices.SetReadFileState): the file's    *)
(* modification time and whether the view was partial.  edit_file refuses  *)
(* a file it has no full view of, or one modified since.                   *)
(*                                                                         *)
(* A version number stands for the content and for the modification time.  *)
(* Every access to the disk is a step, so that other writers come between  *)
(* a tool's read, its write and the Stat that stamps the view.             *)
(***************************************************************************)
EXTENDS Naturals, FiniteSets

CONSTANTS Agents,      \* agent runtimes with a view of their own
          MaxCalls,    \* bound: tool calls
          MaxWrites,   \* bound: versions of the file
          MaxFileRuns  \* bound: runs of each agent

VARIABLES version,  \* the file on disk: its content and modification time
          view,     \* run.Files: what each runtime remembers of the file
          frun,     \* the run of each runtime that is active
          fcall,    \* the tool calls
          unseen,   \* a write by someone else outside the agent's own calls
          misedit   \* an edit went ahead on a file with an unseen write

FileCalls == 1..MaxCalls

fileVars == <<version, view, frun, fcall, unseen, misedit>>

NoView == [known |-> FALSE, stamp |-> 0, partial |-> FALSE]
NoCall == [pc |-> "none", kind |-> "none", agent |-> "none", run |-> 0,
           partial |-> FALSE, awaited |-> FALSE]

FileInit ==
    /\ version = 0
    /\ view = [a \in Agents |-> NoView]
    /\ frun = [a \in Agents |-> 1]
    /\ fcall = [c \in FileCalls |-> NoCall]
    /\ unseen = [a \in Agents |-> FALSE]
    /\ misedit = FALSE

(* A call between its look at the file and the Stat that stamps the view.  *)
InWindow(a) ==
    \E c \in FileCalls : fcall[c].agent = a /\ fcall[c].pc \in {"checked", "held", "stamp"}

(* A write reaches the disk: the other agents have not seen it.            *)
Land(writer) ==
    /\ version' = version + 1
    /\ unseen' = [a \in Agents |->
                    unseen[a] \/ (a # writer /\ ~InWindow(a))]

(* ToolExecutor starts an exclusive tool alone and parallel tools together;*)
(* a call the registry gave up on no longer holds others back.             *)
MayStart(c, a, kind) ==
    /\ fcall[c].pc = "none" /\ (c > 1 => fcall[c - 1].pc # "none")
    /\ \A d \in FileCalls :
         (fcall[d].agent = a /\ fcall[d].awaited)
            => (kind = "read" /\ fcall[d].kind = "read")

StartCall(c, a, kind, partial, pc) ==
    fcall' = [fcall EXCEPT ![c] = [pc |-> pc, kind |-> kind, agent |-> a, run |-> frun[a],
                                   partial |-> partial, awaited |-> TRUE]]

Finish(c) == fcall' = [fcall EXCEPT ![c] = [NoCall EXCEPT !.pc = "done"]]

(* ReadFileTool: the whole file, or an offset/limit window of it.          *)
StartRead(c, a, partial) ==
    /\ MayStart(c, a, "read")
    /\ StartCall(c, a, "read", partial, "begun")
    /\ UNCHANGED <<version, view, frun, unseen, misedit>>

ReadContent(c) ==
    /\ fcall[c].pc = "begun" /\ fcall[c].kind = "read"
    /\ \/ /\ fcall' = [fcall EXCEPT ![c].pc = "stamp"]
          /\ unseen' = [unseen EXCEPT ![fcall[c].agent] = @ /\ fcall[c].partial]
       \/ Finish(c) /\ UNCHANGED unseen                 \* the file cannot be read
    /\ UNCHANGED <<version, view, frun, misedit>>

(* SetReadFileState and GetReadFileState serve only the run that is still  *)
(* the active one.                                                         *)
Serves(c) == frun[fcall[c].agent] = fcall[c].run

(* updateReadState stats the file after the read, or after the edit wrote. *)
UpdateReadState(c) ==
    /\ fcall[c].pc = "stamp"
    /\ view' = IF Serves(c)
               THEN [view EXCEPT ![fcall[c].agent] =
                       [known |-> TRUE, stamp |-> version, partial |-> fcall[c].partial]]
               ELSE view
    /\ Finish(c)
    /\ UNCHANGED <<version, frun, unseen, misedit>>

(* WriteFileTool replaces the content and leaves the remembered view alone.*)
WriteFile(c, a) ==
    /\ MayStart(c, a, "write") /\ version < MaxWrites
    /\ StartCall(c, a, "write", FALSE, "begun")
    /\ UNCHANGED <<version, view, frun, unseen, misedit>>

WriteContent(c) ==
    /\ fcall[c].pc = "begun" /\ fcall[c].kind = "write" /\ version < MaxWrites
    /\ \/ Land(fcall[c].agent)
       \/ UNCHANGED <<version, unseen>>                  \* the write fails
    /\ Finish(c)
    /\ UNCHANGED <<view, frun, misedit>>

(* Faulty variant: a view of a few lines is enough to edit.                *)
FreshAnyView(a) == view[a].known /\ version <= view[a].stamp

(* EditFileTool.ValidateInput: the file was read, in full, and its         *)
(* modification time is not past the stamp.                                *)
FreshView(a) ==
    /\ view[a].known
    /\ ~view[a].partial
    /\ version <= view[a].stamp

(* Only an edit that names text to replace ("edit") needs a fresh view; one*)
(* with an empty old_string ("fill") goes ahead.                           *)
StartEdit(c, a, kind) ==
    /\ MayStart(c, a, kind)
    /\ IF kind = "edit" => FreshView(a)
       THEN /\ StartCall(c, a, kind, FALSE, "checked")
            /\ misedit' = (misedit \/ (kind = "edit" /\ unseen[a]))
       ELSE Finish(c) /\ UNCHANGED misedit
    /\ UNCHANGED <<version, view, frun, unseen>>

(* Execute reads the file again; a fill works on the whole of it.          *)
EditRead(c) ==
    /\ fcall[c].pc = "checked" /\ fcall[c].kind \in {"edit", "fill"}
    /\ fcall' = [fcall EXCEPT ![c].pc = "held"]
    /\ unseen' = [unseen EXCEPT ![fcall[c].agent] = @ /\ fcall[c].kind = "edit"]
    /\ UNCHANGED <<version, view, frun, misedit>>

(* The file cannot be read or written; the text to replace is absent,      *)
(* found more than once, or part of what an earlier edit put in.           *)
EditRefused(c) ==
    /\ fcall[c].pc \in {"checked", "held"} /\ fcall[c].kind \in {"edit", "fill"}
    /\ Finish(c)
    /\ UNCHANGED <<version, view, frun, unseen, misedit>>

(* The replaced content goes back, and the view is to be stamped anew.     *)
EditWrite(c) ==
    /\ fcall[c].pc = "held" /\ fcall[c].kind \in {"edit", "fill"} /\ version < MaxWrites
    /\ Land(fcall[c].agent)
    /\ fcall' = [fcall EXCEPT ![c].pc = "stamp"]
    /\ UNCHANGED <<view, frun, misedit>>

(* NotebookEditTool works on what it reads itself, whatever was seen.      *)
StartNotebookEdit(c, a) ==
    /\ MayStart(c, a, "edit")
    /\ StartCall(c, a, "notebook", FALSE, "checked")
    /\ UNCHANGED <<version, view, frun, unseen, misedit>>

(* It parses the notebook (which may fail), changes the cell, writes back. *)
NotebookParse(c) ==
    /\ fcall[c].pc = "checked" /\ fcall[c].kind = "notebook"
    /\ \/ fcall' = [fcall EXCEPT ![c].pc = "held"]
       \/ Finish(c)
    /\ UNCHANGED <<version, view, frun, unseen, misedit>>

NotebookWrite(c) ==
    /\ fcall[c].pc = "held" /\ fcall[c].kind = "notebook" /\ version < MaxWrites
    /\ Land(fcall[c].agent)
    /\ Finish(c)
    /\ UNCHANGED <<view, frun, misedit>>

(* ToolRegistry.Execute reports a timeout; the goroutine goes on.          *)
AbandonCall(c) ==
    /\ fcall[c].awaited
    /\ fcall' = [fcall EXCEPT ![c].awaited = FALSE]
    /\ UNCHANGED <<version, view, frun, unseen, misedit>>

(* A shell command, an editor or another process writes the file.          *)
OtherWrite ==
    /\ version < MaxWrites
    /\ Land("other")
    /\ UNCHANGED <<view, frun, fcall, misedit>>

(* A run ends, with no call awaited, and the next begins: it takes over    *)
(* run.Files, which a Reset in between has emptied.                        *)
NextFileRun(a, reset) ==
    /\ frun[a] < MaxFileRuns
    /\ \A c \in FileCalls : fcall[c].agent = a => ~fcall[c].awaited
    /\ frun' = [frun EXCEPT ![a] = @ + 1]
    /\ view' = IF reset THEN [view EXCEPT ![a] = NoView] ELSE view
    /\ UNCHANGED <<version, fcall, unseen, misedit>>

FileNext ==
    \/ \E c \in FileCalls :
         \/ ReadContent(c) \/ UpdateReadState(c) \/ WriteContent(c)
         \/ EditRead(c) \/ EditRefused(c) \/ EditWrite(c) \/ AbandonCall(c)
         \/ NotebookParse(c) \/ NotebookWrite(c)
         \/ \E a \in Agents : WriteFile(c, a) \/ StartNotebookEdit(c, a)
         \/ \E a \in Agents, k \in {"edit", "fill"} : StartEdit(c, a, k)
         \/ \E a \in Agents, p \in BOOLEAN : StartRead(c, a, p)
    \/ OtherWrite
    \/ \E a \in Agents, reset \in BOOLEAN : NextFileRun(a, reset)

(***************************************************************************)
(* edit_file replaces named text only if every write of someone else, up   *)
(* to the moment the edit was accepted, was taken in whole by the agent's  *)
(* tools after it landed (a full read_file, or an edit with no old_string, *)
(* which rewrites all it reads), or landed while a tool call of the agent  *)
(* was between reading the file and stamping the view.                     *)
(***************************************************************************)
StaleEditRefused == ~misedit
=============================================================================
