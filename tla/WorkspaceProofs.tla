-------------------------- MODULE WorkspaceProofs ---------------------------
(***************************************************************************)
(* Theorems about what an agent's tools share: the file tools' views       *)
(* (FileTools), shell commands (ShellTasks) and the trust in a project's   *)
(* MCP servers (McpTrust), for any agents, calls, commands and engines.    *)
(***************************************************************************)
EXTENDS FileTools, ShellTasks, McpTrust, TLAPS

(***************************************************************************)
(* FileTools                                                               *)
(***************************************************************************)
FileSpec == FileInit /\ [][FileNext]_fileVars

Views == [known : BOOLEAN, stamp : Nat, partial : BOOLEAN]

Calls == [pc : {"none", "begun", "checked", "held", "stamp", "done"},
          kind : {"none", "read", "write", "edit", "fill", "notebook"},
          agent : Agents \cup {"none"}, run : Nat, partial : BOOLEAN, awaited : BOOLEAN]

FileTypes ==
    /\ version \in Nat
    /\ view \in [Agents -> Views]
    /\ frun \in [Agents -> Nat]
    /\ fcall \in [FileCalls -> Calls]
    /\ unseen \in [Agents -> BOOLEAN]
    /\ misedit \in BOOLEAN

(* The view a call is about to stamp, or has been judged by, is of all     *)
(* that others wrote.                                                      *)
Settling(c) ==
    \/ fcall[c].pc = "checked" /\ fcall[c].kind = "edit"
    \/ fcall[c].pc = "held" /\ fcall[c].kind \in {"edit", "fill"}
    \/ fcall[c].pc = "stamp" /\ ~fcall[c].partial

(* A call that is under way belongs to an agent, and only a read stamps a  *)
(* partial view.                                                           *)
Underway(c) ==
    fcall[c].pc \in {"begun", "checked", "held", "stamp"} => fcall[c].agent \in Agents

FileInv ==
    /\ FileTypes
    /\ \A a \in Agents : view[a].stamp <= version
    /\ \A a \in Agents : (view[a].known /\ ~view[a].partial /\ unseen[a]) => view[a].stamp < version
    /\ \A c \in FileCalls : Underway(c) /\ (Settling(c) => ~unseen[fcall[c].agent])
    /\ ~misedit

(* Before the first call no view is remembered.                            *)
LEMMA FileStart == FileInit => FileInv
<1> SUFFICES ASSUME FileInit PROVE FileInv
    BY Zenon
<1>1. NoView \in Views /\ NoCall \in Calls
    BY Zenon DEF NoView, Views, NoCall, Calls
<1>2. FileTypes
    BY <1>1, Zenon DEF FileInit, FileTypes
<1> QED
    BY <1>2 DEF FileInit, FileInv, NoView, NoCall, Underway, Settling

(* A call that ends is under way no more, and settles no view.             *)
LEMMA FinishKeeps ==
    ASSUME FileTypes, NEW c \in FileCalls, Finish(c)
    PROVE  /\ fcall' \in [FileCalls -> Calls]
           /\ \A d \in FileCalls : d # c => fcall'[d] = fcall[d]
           /\ fcall'[c].pc = "done"
<1>1. [NoCall EXCEPT !.pc = "done"] \in Calls /\ [NoCall EXCEPT !.pc = "done"].pc = "done"
    BY Zenon DEF NoCall, Calls
<1> QED
    BY <1>1, Zenon DEF FileTypes, Finish

(* A call that begins settles no view, unless it is an edit of named text. *)
LEMMA StartStep ==
    ASSUME FileInv, NEW c \in FileCalls, NEW a \in Agents,
           NEW kind \in {"read", "write", "edit", "fill", "notebook"}, NEW partial \in BOOLEAN,
           NEW pc \in {"begun", "checked"}, StartCall(c, a, kind, partial, pc),
           UNCHANGED <<version, view, frun, unseen>>, misedit' \in BOOLEAN, ~misedit',
           kind = "edit" => ~unseen[a]
    PROVE  FileInv'
<1>1. /\ fcall' \in [FileCalls -> Calls]
      /\ \A d \in FileCalls : d # c => fcall'[d] = fcall[d]
      /\ fcall'[c].pc = pc /\ fcall'[c].kind = kind /\ fcall'[c].agent = a
    BY Zenon DEF FileInv, FileTypes, StartCall, Calls
<1>2. Underway(c)' /\ (Settling(c)' => ~unseen'[fcall'[c].agent])
    BY <1>1, Zenon DEF Underway, Settling
<1>3. ASSUME NEW d \in FileCalls, d # c PROVE Underway(d)' /\ (Settling(d)' => ~unseen'[fcall'[d].agent])
    BY <1>1, <1>3, Zenon DEF FileInv, Underway, Settling
<1>4. FileTypes'
    BY <1>1, Zenon DEF FileInv, FileTypes
<1> QED
    BY <1>2, <1>3, <1>4, Zenon DEF FileInv

(* A write of someone else outside an agent's windows is one it has not    *)
(* seen, and it makes every remembered view old.                           *)
LEMMA LandKeeps ==
    ASSUME FileInv, NEW w, Land(w)
    PROVE  /\ version' \in Nat /\ unseen' \in [Agents -> BOOLEAN]
           /\ \A a \in Agents : view[a].stamp < version'
           /\ \A c \in FileCalls : Settling(c) => ~unseen'[fcall[c].agent]
<1>1. version' = version + 1 /\ version \in Nat /\ \A a \in Agents : view[a].stamp \in Nat
    BY Zenon DEF FileInv, FileTypes, Views, Land
<1>2. unseen' \in [Agents -> BOOLEAN]
    BY Zenon DEF Land
<1>3. \A a \in Agents : view[a].stamp < version'
    BY <1>1 DEF FileInv
<1>4. ASSUME NEW c \in FileCalls, Settling(c) PROVE ~unseen'[fcall[c].agent]
    <2>1. fcall[c].agent \in Agents /\ ~unseen[fcall[c].agent] /\ InWindow(fcall[c].agent)
        BY <1>4, Zenon DEF FileInv, Underway, Settling, InWindow
    <2> QED
        BY <2>1, Zenon DEF Land
<1> QED
    BY <1>1, <1>2, <1>3, <1>4

(* After a write has landed, only what the calls hold remains to be shown. *)
LEMMA LandStep ==
    ASSUME FileInv, NEW w, Land(w), UNCHANGED <<view, frun, misedit>>,
           fcall' \in [FileCalls -> Calls],
           \A d \in FileCalls : Underway(d)' /\ (Settling(d)' => Settling(d) /\ fcall'[d].agent = fcall[d].agent)
    PROVE  FileInv'
<1>1. FileTypes'
    BY LandKeeps, Zenon DEF FileInv, FileTypes
<1>2. \A a \in Agents : view'[a].stamp < version' /\ view'[a].stamp <= version'
    <2>1. \A a \in Agents : view[a].stamp \in Nat
        BY Zenon DEF FileInv, FileTypes, Views
    <2> QED
        BY <2>1, LandKeeps
<1>3. \A d \in FileCalls : Settling(d)' => ~unseen'[fcall'[d].agent]
    BY LandKeeps, Zenon
<1> QED
    BY <1>1, <1>2, <1>3, Zenon DEF FileInv

(* Every action of the file tools keeps the invariant.                     *)
LEMMA FileStep == FileInv /\ [FileNext]_fileVars => FileInv'
<1> SUFFICES ASSUME FileInv, [FileNext]_fileVars PROVE FileInv'
    BY Zenon
<1>t. FileTypes
    BY Zenon DEF FileInv
<1>1. ASSUME NEW c \in FileCalls, NEW a \in Agents, NEW p \in BOOLEAN, StartRead(c, a, p) PROVE FileInv'
    <2>1. StartCall(c, a, "read", p, "begun") /\ UNCHANGED <<version, view, frun, unseen, misedit>>
        BY <1>1, Zenon DEF StartRead
    <2> QED
        BY <2>1, StartStep DEF FileInv, FileTypes
<1>2. ASSUME NEW c \in FileCalls, ReadContent(c) PROVE FileInv'
    <2>0. fcall[c].pc = "begun" /\ UNCHANGED <<version, view, frun, misedit>> /\ fcall[c].agent \in Agents
        BY <1>2, Zenon DEF ReadContent, FileInv, Underway
    <2>1. CASE Finish(c) /\ UNCHANGED unseen
        BY <1>t, <2>0, <2>1, FinishKeeps DEF FileInv, FileTypes, Underway, Settling
    <2>2. CASE /\ fcall' = [fcall EXCEPT ![c].pc = "stamp"]
               /\ unseen' = [unseen EXCEPT ![fcall[c].agent] = @ /\ fcall[c].partial]
        <3>1. /\ fcall' \in [FileCalls -> Calls] /\ \A d \in FileCalls : d # c => fcall'[d] = fcall[d]
              /\ fcall'[c].pc = "stamp" /\ fcall'[c].agent = fcall[c].agent /\ fcall'[c].partial = fcall[c].partial
            BY <1>t, <2>2 DEF FileTypes, Calls
        <3>2. /\ unseen' \in [Agents -> BOOLEAN] /\ \A a \in Agents : unseen'[a] => unseen[a]
              /\ ~fcall[c].partial => ~unseen'[fcall[c].agent]
            BY <1>t, <2>0, <2>2, Zenon DEF FileTypes, Calls
        <3> QED
            BY <2>0, <3>1, <3>2 DEF FileInv, FileTypes, Underway, Settling
    <2> QED
        BY <1>2, <2>1, <2>2, Zenon DEF ReadContent
<1>3. ASSUME NEW c \in FileCalls, UpdateReadState(c) PROVE FileInv'
    <2>1. /\ fcall[c].pc = "stamp" /\ fcall[c].agent \in Agents /\ fcall[c].partial \in BOOLEAN
          /\ Finish(c) /\ UNCHANGED <<version, frun, unseen, misedit>>
        BY <1>3, Zenon DEF UpdateReadState, FileInv, Underway, FileTypes, Calls
    <2>2. ~fcall[c].partial => ~unseen[fcall[c].agent]
        BY <2>1, Zenon DEF FileInv, Settling
    <2> DEFINE v == [known |-> TRUE, stamp |-> version, partial |-> fcall[c].partial]
    <2>3. v \in Views /\ v.stamp = version /\ v.partial = fcall[c].partial
        BY <1>t, <2>1, Zenon DEF Views, FileTypes
    <2>4. view' = view \/ view' = [view EXCEPT ![fcall[c].agent] = v]
        BY <1>3, Zenon DEF UpdateReadState
    <2> HIDE DEF v
    <2>5. /\ view' \in [Agents -> Views]
          /\ \A a \in Agents : view'[a] = view[a] \/ (a = fcall[c].agent /\ view'[a] = v)
        BY <1>t, <2>1, <2>3, <2>4, Zenon DEF FileTypes
    <2>6. /\ \A a \in Agents : view'[a].stamp <= version
          /\ \A a \in Agents : (view'[a].known /\ ~view'[a].partial /\ unseen[a]) => view'[a].stamp < version
        BY <1>t, <2>2, <2>3, <2>5 DEF FileInv, FileTypes
    <2> QED
        BY <1>t, <2>1, <2>5, <2>6, FinishKeeps DEF FileInv, FileTypes, Underway, Settling
<1>4. ASSUME NEW c \in FileCalls, NEW a \in Agents, WriteFile(c, a) PROVE FileInv'
    <2>1. StartCall(c, a, "write", FALSE, "begun") /\ UNCHANGED <<version, view, frun, unseen, misedit>>
        BY <1>4, Zenon DEF WriteFile
    <2> QED
        BY <2>1, StartStep, Zenon DEF FileInv, FileTypes
<1>5. ASSUME NEW c \in FileCalls, WriteContent(c) \/ NotebookWrite(c) PROVE FileInv'
    <2>1. /\ Land(fcall[c].agent) \/ UNCHANGED <<version, unseen>>
          /\ Finish(c) /\ UNCHANGED <<view, frun, misedit>>
        BY <1>5, Zenon DEF WriteContent, NotebookWrite
    <2>2. CASE Land(fcall[c].agent)
        BY <1>t, <2>1, <2>2, LandStep, FinishKeeps, Zenon DEF FileInv, Underway, Settling
    <2>3. CASE UNCHANGED <<version, unseen>>
        BY <1>t, <2>1, <2>3, FinishKeeps DEF FileInv, FileTypes, Underway, Settling
    <2> QED
        BY <2>1, <2>2, <2>3, Zenon
<1>6. ASSUME NEW c \in FileCalls, NEW a \in Agents, NEW k \in {"edit", "fill"}, StartEdit(c, a, k) PROVE FileInv'
    <2>1. UNCHANGED <<version, view, frun, unseen>>
        BY <1>6, Zenon DEF StartEdit
    <2>2. CASE k = "edit" => FreshView(a)
        <3>1. StartCall(c, a, k, FALSE, "checked") /\ misedit' = (misedit \/ (k = "edit" /\ unseen[a]))
            BY <1>6, <2>2, Zenon DEF StartEdit
        <3>2. k = "edit" => ~unseen[a]
            BY <1>t, <2>2 DEF FreshView, FileInv, FileTypes, Views
        <3>3. misedit' \in BOOLEAN /\ ~misedit'
            BY <3>1, <3>2, Zenon DEF FileInv
        <3> QED
            BY <2>1, <3>1, <3>2, <3>3, StartStep, Zenon
    <2>3. CASE ~(k = "edit" => FreshView(a))
        <3>1. Finish(c) /\ UNCHANGED misedit
            BY <1>6, <2>3, Zenon DEF StartEdit
        <3> QED
            BY <1>t, <2>1, <3>1, FinishKeeps DEF FileInv, FileTypes, Underway, Settling
    <2> QED
        BY <2>2, <2>3, Zenon
<1>7. ASSUME NEW c \in FileCalls, EditRead(c) PROVE FileInv'
    <2>1. /\ fcall[c].pc = "checked" /\ fcall[c].kind \in {"edit", "fill"} /\ fcall[c].agent \in Agents
          /\ UNCHANGED <<version, view, frun, misedit>>
          /\ fcall[c].kind = "edit" => ~unseen[fcall[c].agent]
        BY <1>7, Zenon DEF EditRead, FileInv, Underway, Settling
    <2>2. /\ fcall' \in [FileCalls -> Calls] /\ \A d \in FileCalls : d # c => fcall'[d] = fcall[d]
          /\ fcall'[c].pc = "held" /\ fcall'[c].agent = fcall[c].agent /\ fcall'[c].kind = fcall[c].kind
        BY <1>t, <1>7 DEF EditRead, FileTypes, Calls
    <2>3. /\ unseen' \in [Agents -> BOOLEAN] /\ \A a \in Agents : unseen'[a] => unseen[a]
          /\ fcall[c].kind # "edit" => ~unseen'[fcall[c].agent]
        BY <1>t, <1>7, <2>1, Zenon DEF EditRead, FileTypes
    <2> QED
        BY <2>1, <2>2, <2>3 DEF FileInv, FileTypes, Underway, Settling
<1>8. ASSUME NEW c \in FileCalls, EditRefused(c) PROVE FileInv'
    <2>1. Finish(c) /\ UNCHANGED <<version, view, frun, unseen, misedit>>
        BY <1>8, Zenon DEF EditRefused
    <2> QED
        BY <1>t, <2>1, FinishKeeps DEF FileInv, FileTypes, Underway, Settling
<1>9. ASSUME NEW c \in FileCalls, EditWrite(c) PROVE FileInv'
    <2>1. /\ fcall[c].pc = "held" /\ fcall[c].kind \in {"edit", "fill"} /\ fcall[c].agent \in Agents
          /\ Land(fcall[c].agent) /\ UNCHANGED <<view, frun, misedit>> /\ Settling(c)
        BY <1>9, Zenon DEF EditWrite, FileInv, Underway, Settling
    <2>2. /\ fcall' \in [FileCalls -> Calls] /\ \A d \in FileCalls : d # c => fcall'[d] = fcall[d]
          /\ fcall'[c].agent = fcall[c].agent
        BY <1>t, <1>9 DEF EditWrite, FileTypes, Calls
    <2> QED
        BY <2>1, <2>2, LandStep, Zenon DEF FileInv, Underway, Settling
<1>10. ASSUME NEW c \in FileCalls, NEW a \in Agents, StartNotebookEdit(c, a) PROVE FileInv'
    <2>1. StartCall(c, a, "notebook", FALSE, "checked") /\ UNCHANGED <<version, view, frun, unseen, misedit>>
        BY <1>10, Zenon DEF StartNotebookEdit
    <2> QED
        BY <2>1, StartStep, Zenon DEF FileInv, FileTypes
<1>11. ASSUME NEW c \in FileCalls, NotebookParse(c) PROVE FileInv'
    <2>1. fcall[c].kind = "notebook" /\ fcall[c].pc = "checked" /\ UNCHANGED <<version, view, frun, unseen, misedit>>
        BY <1>11, Zenon DEF NotebookParse
    <2>2. CASE Finish(c)
        BY <1>t, <2>1, <2>2, FinishKeeps DEF FileInv, FileTypes, Underway, Settling
    <2>3. CASE fcall' = [fcall EXCEPT ![c].pc = "held"]
        <3>1. /\ fcall' \in [FileCalls -> Calls] /\ \A d \in FileCalls : d # c => fcall'[d] = fcall[d]
              /\ fcall'[c].agent = fcall[c].agent /\ fcall'[c].kind = "notebook" /\ fcall'[c].pc = "held"
            BY <1>t, <2>1, <2>3 DEF FileTypes, Calls
        <3> QED
            BY <2>1, <3>1, Zenon DEF FileInv, FileTypes, Underway, Settling
    <2> QED
        BY <1>11, <2>2, <2>3, Zenon DEF NotebookParse
<1>12. ASSUME NEW c \in FileCalls, AbandonCall(c) PROVE FileInv'
    <2>1. /\ fcall' \in [FileCalls -> Calls]
          /\ \A d \in FileCalls : /\ fcall'[d].agent = fcall[d].agent /\ fcall'[d].kind = fcall[d].kind
                                  /\ fcall'[d].pc = fcall[d].pc /\ fcall'[d].partial = fcall[d].partial
        BY <1>t, <1>12, ZenonT(30) DEF AbandonCall, FileTypes, Calls
    <2>2. UNCHANGED <<version, view, frun, unseen, misedit>>
        BY <1>12, Zenon DEF AbandonCall
    <2> QED
        BY <2>1, <2>2 DEF FileInv, FileTypes, Underway, Settling
<1>13. CASE OtherWrite
    <2>1. Land("other") /\ UNCHANGED <<view, frun, fcall, misedit>>
        BY <1>13, Zenon DEF OtherWrite
    <2> QED
        BY <1>t, <2>1, LandStep, Zenon DEF FileInv, FileTypes, Underway, Settling
<1>14. ASSUME NEW a \in Agents, NEW reset \in BOOLEAN, NextFileRun(a, reset) PROVE FileInv'
    <2>1. UNCHANGED <<version, fcall, unseen, misedit>> /\ frun' \in [Agents -> Nat]
        BY <1>t, <1>14 DEF NextFileRun, FileTypes
    <2>2. NoView \in Views /\ ~NoView.known /\ NoView.stamp = 0
        BY Zenon DEF NoView, Views
    <2>3. /\ view' \in [Agents -> Views]
          /\ \A b \in Agents : view'[b] = view[b] \/ view'[b] = NoView
        BY <1>t, <1>14, <2>2, Zenon DEF NextFileRun, FileTypes
    <2> QED
        BY <1>t, <2>1, <2>2, <2>3 DEF FileInv, FileTypes, Underway, Settling
<1>15. CASE UNCHANGED fileVars
    BY <1>15, Zenon DEF fileVars, FileInv, FileTypes, Underway, Settling
<1> QED
    BY <1>1, <1>2, <1>3, <1>4, <1>5, <1>6, <1>7, <1>8, <1>9, <1>10, <1>11, <1>12, <1>13, <1>14, <1>15,
       Zenon DEF FileNext

(* edit_file never goes ahead on a file with a write the agent's tools     *)
(* have not taken in, for any number of agents, calls, writes and runs.    *)
THEOREM StaleEditsRefused == FileSpec => []StaleEditRefused
<1>1. FileInv => StaleEditRefused
    BY Zenon DEF FileInv, StaleEditRefused
<1> QED
    BY FileStart, FileStep, <1>1, PTL DEF FileSpec

(***************************************************************************)
(* ShellTasks                                                              *)
(***************************************************************************)
ShellSpec == ShellInit /\ [][ShellNext]_shellVars

Tasks == [status : {"none", "refused", "running", "cancelled", "failed", "completed"},
          mode : {"none", "foreground", "background"}, entry : BOOLEAN,
          deadline : {"none", "later", "past"}, ctx : {"live", "expired", "cancelled"},
          file : {"none", "timeout", "crash", "output"}, done : BOOLEAN]

Processes == [shell : {"none", "alive", "exited"}, rest : BOOLEAN, end : {"none", "own", "signal"}]

ShellTypes ==
    /\ task \in [ShellCmds -> Tasks]
    /\ process \in [ShellCmds -> Processes]
    /\ runner \in [ShellCmds -> {"none", "registering", "starting", "waiting", "done"}]
    /\ cancel \in [ShellCmds -> {"none", "marked", "signalled", "joining", "returned"}]
    /\ waiter \in [ShellCmds -> {"none", "waiting", "returned", "joined"}]
    /\ settled \in [ShellCmds -> {"none", "cancelled", "failed", "completed"}]

(* A runner at work has a task that is running or was cancelled; a status  *)
(* is final exactly when it is settled; Cancel leaves a cancelled task;    *)
(* and a shell that was killed had its context ended or its task cancelled.*)
Sound(k, p, r, x, w, s) ==
    /\ k.status \in {"none", "refused"} => k.mode = "none"
    /\ r \in {"registering", "starting", "waiting"} => k.status \in {"running", "cancelled"}
    /\ (k.status = "none" \/ r \in {"registering", "starting"}) => p.shell = "none"
    /\ IF s = "none" THEN k.status \in {"none", "refused", "running"} ELSE k.status = s
    /\ x # "none" => k.status = "cancelled"
    /\ p.shell = "exited" <=> p.end # "none"
    /\ p.end = "signal" => k.ctx # "live" \/ k.status = "cancelled"
    /\ k.done => s # "none"
    /\ w = "joined" => s # "none"
    /\ (k.mode = "background" /\ k.status = "completed") => p.end = "own" /\ k.file \in {"output", "none"}
    /\ k.status = "failed" => k.file # "output"

SoundCmd(c) == Sound(task[c], process[c], runner[c], cancel[c], waiter[c], settled[c])

ShellInv == ShellTypes /\ \A c \in ShellCmds : SoundCmd(c)

(* Before the first command there is neither a task nor a process.         *)
LEMMA ShellStart == ShellInit => ShellInv
<1> SUFFICES ASSUME ShellInit PROVE ShellInv
    BY Zenon
<1>1. NoTask \in Tasks /\ NoProcess \in Processes
    BY Zenon DEF NoTask, Tasks, NoProcess, Processes
<1>2. ShellTypes
    BY <1>1, Zenon DEF ShellInit, ShellTypes
<1> QED
    BY <1>2, Zenon DEF ShellInit, ShellInv, SoundCmd, Sound, NoTask, NoProcess

(* An action is about one command.                                         *)
Same(d) ==
    /\ task'[d] = task[d] /\ process'[d] = process[d] /\ runner'[d] = runner[d]
    /\ cancel'[d] = cancel[d] /\ waiter'[d] = waiter[d] /\ settled'[d] = settled[d]

(* A step that touches one command keeps what holds of the others.         *)
LEMMA OneCommand ==
    ASSUME ShellInv, NEW c \in ShellCmds, ShellTypes', SoundCmd(c)',
           \A d \in ShellCmds \ {c} : Same(d)
    PROVE  ShellInv'
<1>1. ASSUME NEW d \in ShellCmds, d # c PROVE SoundCmd(d)'
    BY <1>1, Zenon DEF ShellInv, SoundCmd, Same
<1> QED
    BY <1>1, Zenon DEF ShellInv

(* The changes of a task and of a process keep their types.                *)
LEMMA TaskChanges ==
    ASSUME NEW k \in Tasks
    PROVE  /\ [k EXCEPT !.status = "refused"] \in Tasks
           /\ [k EXCEPT !.status = "cancelled"] \in Tasks
           /\ [k EXCEPT !.entry = TRUE] \in Tasks
           /\ [k EXCEPT !.entry = FALSE] \in Tasks
           /\ [k EXCEPT !.ctx = IF @ = "live" THEN "cancelled" ELSE @] \in Tasks
BY ZenonT(30) DEF Tasks

(* A process that ends keeps its type.                                     *)
LEMMA ProcessEnds ==
    ASSUME NEW p \in Processes
    PROVE  /\ [p EXCEPT !.shell = "exited", !.end = "own"] \in Processes
           /\ [p EXCEPT !.shell = "exited", !.end = "signal"] \in Processes
           /\ [p EXCEPT !.rest = FALSE] \in Processes
BY Zenon DEF Processes

(* Finishing a task leaves a sound command sound, once and for all.        *)
LEMMA FinishTaskKeeps ==
    ASSUME ShellInv, NEW c \in ShellCmds, NEW status \in {"failed", "completed", "cancelled"},
           NEW file \in {"none", "timeout", "crash", "output"},
           runner[c] \in {"starting", "waiting"}, FinishTask(c, status, file),
           UNCHANGED <<process, cancel, waiter>>,
           status = "failed" => file # "output",
           status = "completed" => /\ file \in {"output", "none"} /\ process[c].end # "none"
                                   /\ task[c].mode = "background" => task[c].ctx = "live"
    PROVE  ShellInv'
<1> DEFINE final == IF task[c].status = "cancelled" THEN "cancelled" ELSE status
<1>0. ShellTypes /\ SoundCmd(c)
    BY Zenon DEF ShellInv
<1>1. /\ task' = [task EXCEPT ![c] = [@ EXCEPT !.status = final, !.file = file, !.entry = FALSE, !.done = TRUE]]
      /\ settled' = [settled EXCEPT ![c] = IF @ = "none" THEN final ELSE @]
      /\ runner' = [runner EXCEPT ![c] = "done"]
    BY Zenon DEF FinishTask, Settle
<1>2. final \in {"failed", "completed", "cancelled"}
    BY Zenon
<1>3. /\ task[c].status = "cancelled" => final = "cancelled"
      /\ final = "completed" => status = "completed"
      /\ final = "failed" => status = "failed"
    BY Zenon
<1> HIDE DEF final
<1>4. ShellTypes'
    <2>0. task[c] \in Tasks
        BY <1>0, Zenon DEF ShellTypes
    <2>1. [task[c] EXCEPT !.status = final, !.file = file, !.entry = FALSE, !.done = TRUE] \in Tasks
        BY <1>2, <2>0, ZenonT(30) DEF Tasks
    <2>2. task' \in [ShellCmds -> Tasks]
        BY <1>0, <1>1, <2>1, Zenon DEF ShellTypes
    <2> QED
        BY <1>0, <1>1, <1>2, <2>2, Zenon DEF ShellTypes
<1>5. /\ task'[c].status = final /\ task'[c].mode = task[c].mode /\ task'[c].ctx = task[c].ctx
      /\ task'[c].file = file
      /\ settled'[c] = IF settled[c] = "none" THEN final ELSE settled[c]
      /\ runner'[c] = "done"
    BY <1>0, <1>1 DEF ShellTypes, Tasks
<1>6. SoundCmd(c)'
    BY <1>0, <1>2, <1>3, <1>5 DEF SoundCmd, Sound, ShellTypes, Processes
<1>7. \A d \in ShellCmds \ {c} : Same(d)
    BY <1>0, <1>1, Zenon DEF ShellTypes, Same
<1> QED
    BY <1>4, <1>6, <1>7, OneCommand, Zenon

(* Every action of the shell tools keeps the invariant.                    *)
LEMMA ShellStep == ShellInv /\ [ShellNext]_shellVars => ShellInv'
<1> SUFFICES ASSUME ShellInv, [ShellNext]_shellVars PROVE ShellInv'
    BY Zenon
<1>t. ShellTypes /\ \A c \in ShellCmds : SoundCmd(c)
    BY Zenon DEF ShellInv
<1>1. ASSUME NEW c \in ShellCmds, NEW mode \in {"foreground", "background"}, NEW r \in BOOLEAN,
             NEW d \in Deadlines(mode), RunShell(c, mode, d, r)
      PROVE  ShellInv'
    <2>0. d \in {"none", "later", "past"} /\ UNCHANGED <<process, cancel, waiter, settled>> /\ task[c].status = "none"
        BY <1>1, Zenon DEF Deadlines, RunShell
    <2>1. CASE task' = [task EXCEPT ![c].status = "refused"] /\ UNCHANGED runner
        <3>1. [task[c] EXCEPT !.status = "refused"] \in Tasks
            BY <1>t, TaskChanges, Zenon DEF ShellTypes
        <3>2. task' = [task EXCEPT ![c] = [task[c] EXCEPT !.status = "refused"]]
            BY <2>1, Zenon
        <3>3. task' \in [ShellCmds -> Tasks] /\ \A e \in ShellCmds \ {c} : Same(e)
            BY <1>t, <2>0, <2>1, <3>1, <3>2 DEF ShellTypes, Same
        <3>4. SoundCmd(c)'
            BY <1>t, <2>0, <2>1 DEF ShellTypes, Tasks, SoundCmd, Sound
        <3> QED
            BY <1>t, <2>0, <2>1, <3>3, <3>4, OneCommand, Zenon DEF ShellTypes
    <2>2. CASE /\ task' = [task EXCEPT ![c] = [NoTask EXCEPT !.status = "running", !.mode = mode, !.deadline = d]]
               /\ runner' = [runner EXCEPT ![c] = IF mode = "background" THEN "registering" ELSE "starting"]
        <3>1. task' \in [ShellCmds -> Tasks] /\ task'[c].status = "running" /\ task'[c].ctx = "live" /\ ~task'[c].done
            BY <1>t, <2>0, <2>2, ZenonT(30) DEF ShellTypes, Tasks, NoTask
        <3>2. /\ runner' \in [ShellCmds -> {"none", "registering", "starting", "waiting", "done"}]
              /\ \A e \in ShellCmds \ {c} : task'[e] = task[e] /\ runner'[e] = runner[e]
            BY <1>t, <2>2, Zenon DEF ShellTypes
        <3>3. SoundCmd(c)'
            BY <1>t, <2>0, <3>1, Zenon DEF SoundCmd, Sound, ShellTypes, Processes
        <3> QED
            BY <1>t, <2>0, <3>1, <3>2, <3>3, OneCommand, Zenon DEF ShellTypes, Same
    <2> QED
        BY <1>1, <2>1, <2>2, Zenon DEF RunShell
<1>2. ASSUME NEW c \in ShellCmds, RegisterRunning(c) PROVE ShellInv'
    <2>1. ShellTypes'
        <3>1. [task[c] EXCEPT !.entry = TRUE] \in Tasks
            BY <1>t, TaskChanges, Zenon DEF ShellTypes
        <3>2. task' \in [ShellCmds -> Tasks]
            BY <1>t, <1>2, <3>1, Zenon DEF RegisterRunning, ShellTypes
        <3> QED
            BY <1>t, <1>2, <3>2, Zenon DEF RegisterRunning, ShellTypes
    <2>2. SoundCmd(c)'
        BY <1>t, <1>2 DEF RegisterRunning, ShellTypes, Tasks, SoundCmd, Sound
    <2>3. \A d \in ShellCmds \ {c} : Same(d)
        BY <1>t, <1>2, Zenon DEF RegisterRunning, ShellTypes, Same
    <2> QED
        BY <2>1, <2>2, <2>3, OneCommand, Zenon
<1>3. ASSUME NEW c \in ShellCmds, StartProcess(c) PROVE ShellInv'
    <2>0. runner[c] = "starting" /\ UNCHANGED <<cancel, waiter>>
        BY <1>3, Zenon DEF StartProcess
    <2>1. ASSUME NEW file \in Written(c, "timeout") \cup Written(c, "crash"), FinishTask(c, "failed", file),
                 UNCHANGED process
          PROVE  ShellInv'
        BY <2>0, <2>1, FinishTaskKeeps, Zenon DEF Written
    <2>2. ASSUME NEW rest \in BOOLEAN, UNCHANGED <<task, settled>>,
                 process' = [process EXCEPT ![c] = [shell |-> "alive", rest |-> rest, end |-> "none"]],
                 runner' = [runner EXCEPT ![c] = "waiting"]
          PROVE  ShellInv'
        BY <1>t, <2>0, <2>2, OneCommand DEF ShellTypes, Processes, SoundCmd, Sound, Same
    <2> QED
        BY <1>3, <2>1, <2>2, Zenon DEF StartProcess
<1>4. ASSUME NEW c \in ShellCmds, ProcessExits(c) PROVE ShellInv'
    <2>1. ShellTypes'
        <3>1. [process[c] EXCEPT !.shell = "exited", !.end = "own"] \in Processes
            BY <1>t, ProcessEnds, Zenon DEF ShellTypes
        <3>2. process' \in [ShellCmds -> Processes]
            BY <1>t, <1>4, <3>1, Zenon DEF ProcessExits, ShellTypes
        <3> QED
            BY <1>t, <1>4, <3>2, Zenon DEF ProcessExits, ShellTypes
    <2>2. SoundCmd(c)'
        BY <1>t, <1>4 DEF ProcessExits, ShellTypes, Processes, SoundCmd, Sound
    <2>3. \A d \in ShellCmds \ {c} : Same(d)
        BY <1>t, <1>4 DEF ProcessExits, ShellTypes, Same
    <2> QED
        BY <2>1, <2>2, <2>3, OneCommand, Zenon
<1>5. ASSUME NEW c \in ShellCmds, RestExits(c) PROVE ShellInv'
    <2>1. ShellTypes'
        <3>1. [process[c] EXCEPT !.rest = FALSE] \in Processes
            BY <1>t, ProcessEnds, Zenon DEF ShellTypes
        <3>2. process' \in [ShellCmds -> Processes]
            BY <1>t, <1>5, <3>1, Zenon DEF RestExits, ShellTypes
        <3> QED
            BY <1>t, <1>5, <3>2, Zenon DEF RestExits, ShellTypes
    <2>2. SoundCmd(c)'
        BY <1>t, <1>5 DEF RestExits, ShellTypes, Processes, SoundCmd, Sound
    <2>3. \A d \in ShellCmds \ {c} : Same(d)
        BY <1>t, <1>5, Zenon DEF RestExits, ShellTypes, Same
    <2> QED
        BY <2>1, <2>2, <2>3, OneCommand, Zenon
<1>6. ASSUME NEW c \in ShellCmds, NEW how \in {"expired", "cancelled"}, EndContext(c, how) PROVE ShellInv'
    <2>1. ShellTypes'
        BY <1>t, <1>6 DEF EndContext, ShellTypes, Tasks
    <2>2. SoundCmd(c)'
        BY <1>t, <1>6 DEF EndContext, ShellTypes, Tasks, SoundCmd, Sound
    <2>3. \A d \in ShellCmds \ {c} : Same(d)
        BY <1>t, <1>6, Zenon DEF EndContext, ShellTypes, Same
    <2> QED
        BY <2>1, <2>2, <2>3, OneCommand, Zenon
<1>7. ASSUME NEW c \in ShellCmds, KillShell(c) PROVE ShellInv'
    <2>1. ShellTypes'
        <3>1. [process[c] EXCEPT !.shell = "exited", !.end = "signal"] \in Processes
            BY <1>t, ProcessEnds, Zenon DEF ShellTypes
        <3>2. process' \in [ShellCmds -> Processes]
            BY <1>t, <1>7, <3>1, Zenon DEF KillShell, ShellTypes
        <3> QED
            BY <1>t, <1>7, <3>2, Zenon DEF KillShell, ShellTypes
    <2>2. SoundCmd(c)'
        BY <1>t, <1>7 DEF KillShell, ShellTypes, Processes, SoundCmd, Sound
    <2>3. \A d \in ShellCmds \ {c} : Same(d)
        BY <1>t, <1>7, Zenon DEF KillShell, ShellTypes, Same
    <2> QED
        BY <2>1, <2>2, <2>3, OneCommand, Zenon
<1>8. ASSUME NEW c \in ShellCmds, WaitReturns(c) PROVE ShellInv'
    <2>0. /\ runner[c] = "waiting" /\ UNCHANGED <<process, cancel, waiter>> /\ process[c].shell = "exited"
          /\ task[c].ctx \in {"live", "expired", "cancelled"} /\ process[c].end # "none"
        BY <1>t, <1>8 DEF WaitReturns, ShellTypes, Tasks, SoundCmd, Sound
    <2>1. CASE task[c].ctx = "expired"
        <3>1. PICK file \in Written(c, "timeout") : FinishTask(c, "failed", file)
            BY <1>8, <2>1, Zenon DEF WaitReturns
        <3> QED
            BY <2>0, <3>1, FinishTaskKeeps, Zenon DEF Written
    <2>2. CASE task[c].ctx = "cancelled" /\ task[c].mode = "background"
        <3>1. FinishTask(c, "cancelled", "none")
            BY <1>8, <2>2, Zenon DEF WaitReturns
        <3> QED
            BY <2>0, <3>1, FinishTaskKeeps, Zenon
    <2>3. CASE task[c].ctx # "expired" /\ ~(task[c].ctx = "cancelled" /\ task[c].mode = "background")
        <3>1. PICK file \in Written(c, "output") : FinishTask(c, "completed", file)
            BY <1>8, <2>3, Zenon DEF WaitReturns
        <3>2. file \in {"output", "none"}
            BY Zenon DEF Written
        <3> QED
            BY <2>0, <2>3, <3>1, <3>2, FinishTaskKeeps, Zenon
    <2> QED
        BY <2>1, <2>2, <2>3, Zenon
<1>9. ASSUME NEW c \in ShellCmds, CancelTask(c) PROVE ShellInv'
    <2>1. ShellTypes'
        <3>1. [task[c] EXCEPT !.status = "cancelled"] \in Tasks
            BY <1>t, TaskChanges, Zenon DEF ShellTypes
        <3>2. task' \in [ShellCmds -> Tasks]
            BY <1>t, <1>9, <3>1, Zenon DEF CancelTask, ShellTypes
        <3> QED
            BY <1>t, <1>9, <3>2, Zenon DEF CancelTask, Settle, ShellTypes
    <2>2. SoundCmd(c)'
        BY <1>t, <1>9 DEF CancelTask, Settle, ShellTypes, Tasks, SoundCmd, Sound
    <2>3. \A d \in ShellCmds \ {c} : Same(d)
        BY <1>t, <1>9 DEF CancelTask, Settle, ShellTypes, Same
    <2> QED
        BY <2>1, <2>2, <2>3, OneCommand, Zenon
<1>10. ASSUME NEW c \in ShellCmds, SignalGroup(c) PROVE ShellInv'
    <2>1. ShellTypes'
        BY <1>t, <1>10, Zenon DEF SignalGroup, ShellTypes, Processes
    <2>2. SoundCmd(c)'
        BY <1>t, <1>10 DEF SignalGroup, ShellTypes, Processes, SoundCmd, Sound
    <2>3. \A d \in ShellCmds \ {c} : Same(d)
        BY <1>t, <1>10, Zenon DEF SignalGroup, ShellTypes, Same
    <2> QED
        BY <2>1, <2>2, <2>3, OneCommand, Zenon
<1>11. ASSUME NEW c \in ShellCmds, SignalMissed(c) PROVE ShellInv'
    <2>1. ShellTypes'
        BY <1>t, <1>11, Zenon DEF SignalMissed, ShellTypes
    <2>2. SoundCmd(c)'
        BY <1>t, <1>11, Zenon DEF SignalMissed, ShellTypes, SoundCmd, Sound
    <2>3. \A d \in ShellCmds \ {c} : Same(d)
        BY <1>t, <1>11, Zenon DEF SignalMissed, ShellTypes, Same
    <2> QED
        BY <2>1, <2>2, <2>3, OneCommand, Zenon
<1>12. ASSUME NEW c \in ShellCmds, CancelContext(c) PROVE ShellInv'
    <2>1. ShellTypes'
        <3>1. [task[c] EXCEPT !.ctx = IF @ = "live" THEN "cancelled" ELSE @] \in Tasks
            BY <1>t, TaskChanges, Zenon DEF ShellTypes
        <3>2. task' \in [ShellCmds -> Tasks]
            BY <1>t, <1>12, <3>1, Zenon DEF CancelContext, ShellTypes
        <3> QED
            BY <1>t, <1>12, <3>2, Zenon DEF CancelContext, ShellTypes
    <2>2. SoundCmd(c)'
        BY <1>t, <1>12 DEF CancelContext, ShellTypes, Tasks, SoundCmd, Sound
    <2>3. \A d \in ShellCmds \ {c} : Same(d)
        BY <1>t, <1>12, Zenon DEF CancelContext, ShellTypes, Same
    <2> QED
        BY <2>1, <2>2, <2>3, OneCommand, Zenon
<1>13. ASSUME NEW c \in ShellCmds, CancelReturns(c) PROVE ShellInv'
    <2>1. ShellTypes'
        <3>1. [task[c] EXCEPT !.entry = FALSE] \in Tasks
            BY <1>t, TaskChanges, Zenon DEF ShellTypes
        <3>2. task' \in [ShellCmds -> Tasks]
            BY <1>t, <1>13, <3>1, Zenon DEF CancelReturns, ShellTypes
        <3>3. [process[c] EXCEPT !.shell = "exited", !.end = "signal"] \in Processes
            BY <1>t, ProcessEnds, Zenon DEF ShellTypes
        <3>4. process' \in [ShellCmds -> Processes]
            BY <1>t, <1>13, <3>3, ZenonT(30) DEF CancelReturns, ShellTypes
        <3> QED
            BY <1>t, <1>13, <3>2, <3>4, Zenon DEF CancelReturns, ShellTypes
    <2>2. SoundCmd(c)'
        BY <1>t, <1>13 DEF CancelReturns, ShellTypes, Tasks, Processes, SoundCmd, Sound
    <2>3. \A d \in ShellCmds \ {c} : Same(d)
        BY <1>t, <1>13 DEF CancelReturns, ShellTypes, Same
    <2> QED
        BY <2>1, <2>2, <2>3, OneCommand, Zenon
<1>14. ASSUME NEW c \in ShellCmds, WaitFor(c) \/ WaitForReturns(c) PROVE ShellInv'
    <2>1. ShellTypes'
        BY <1>t, <1>14 DEF WaitFor, WaitForReturns, ShellTypes
    <2>2. SoundCmd(c)'
        BY <1>t, <1>14 DEF WaitFor, WaitForReturns, ShellTypes, SoundCmd, Sound
    <2>3. \A d \in ShellCmds \ {c} : Same(d)
        BY <1>t, <1>14 DEF WaitFor, WaitForReturns, ShellTypes, Same
    <2> QED
        BY <2>1, <2>2, <2>3, OneCommand, Zenon
<1>15. CASE UNCHANGED shellVars
    BY <1>t, <1>15, Zenon DEF shellVars, ShellInv, ShellTypes, SoundCmd
<1> QED
    BY <1>1, <1>2, <1>3, <1>4, <1>5, <1>6, <1>7, <1>8, <1>9, <1>10, <1>11, <1>12, <1>13, <1>14, <1>15,
       Zenon DEF ShellNext

(* A background command's outcome is what happened to its process and it   *)
(* stands, for any number of commands: also when runTask, Cancel and the   *)
(* deadline meet in any order, and when an output file cannot be written.  *)
THEOREM ShellOutcomesStand == ShellSpec => []ShellOutcomeStands
<1>1. ShellInv => ShellOutcomeStands
    BY Zenon DEF ShellInv, SoundCmd, Sound, ShellOutcomeStands
<1> QED
    BY ShellStart, ShellStep, <1>1, PTL DEF ShellSpec

(***************************************************************************)
(* McpTrust                                                                *)
(***************************************************************************)
TrustSpec == TrustInit /\ [][TrustNext]_trustVars

Prints == [ProjServers -> Nat]

EngineStates ==
    [context : BOOLEAN, ready : BOOLEAN, clients : SUBSET ProjServers, approvals : Prints, pending : Prints,
     pc : {"idle", "prepare", "prompt", "asking", "again", "turn", "calls", "loading"},
     ret : {"idle", "prompt", "turn", "calls"}, aborted : BOOLEAN, conf : Prints, trust : Prints]

TrustTypes ==
    /\ conf \in Prints /\ trustFile \in Prints
    /\ engine \in [Engines -> EngineStates]

(* Every fingerprint in f was on record at first, or was granted.          *)
Covered(f) == \A s \in ProjServers : f[s] # 0 => <<s, f[s]>> \in approved

(* So were those an engine's grant covers, and those of the record it read.*)
TrustInv ==
    /\ TrustTypes
    /\ procs \subseteq approved
    /\ Covered(trustFile)
    /\ \A e \in Engines : Covered(engine[e].approvals) /\ Covered(engine[e].trust)

(* An empty trust record approves nothing.                                 *)
LEMMA NothingCovered == Nothing \in Prints /\ Covered(Nothing) /\ \A s \in ProjServers : Nothing[s] = 0
BY Zenon DEF Nothing, Prints, Covered

(* What the trust record holds at the start is taken to be granted.        *)
LEMMA TrustStart == TrustInit => TrustInv
<1> SUFFICES ASSUME TrustInit PROVE TrustInv
    BY Zenon
<1>1. NewEngine \in EngineStates /\ NewEngine.approvals = Nothing /\ NewEngine.trust = Nothing
    BY NothingCovered, Zenon DEF NewEngine, EngineStates
<1>2. conf \in Prints /\ trustFile \in Prints
    <2>1. PICK known \in SUBSET ProjServers : trustFile = [s \in ProjServers |-> IF s \in known THEN 1 ELSE 0]
        BY Zenon DEF TrustInit
    <2>2. conf \in [ProjServers -> 0..1]
        BY Zenon DEF TrustInit
    <2> QED
        BY <2>1, <2>2 DEF Prints
<1>3. Covered(trustFile)
    BY Zenon DEF TrustInit, Covered
<1>4. engine \in [Engines -> EngineStates] /\ \A e \in Engines : engine[e] = NewEngine
    BY <1>1, Zenon DEF TrustInit
<1> QED
    BY <1>1, <1>2, <1>3, <1>4, NothingCovered, Zenon DEF TrustInit, TrustInv, TrustTypes

(* An action changes one engine, and what is approved only grows.          *)
LEMMA OneEngine ==
    ASSUME TrustInv, NEW e \in Engines, NEW g \in EngineStates, engine' = [engine EXCEPT ![e] = g],
           approved \subseteq approved', conf' \in Prints, trustFile' \in Prints,
           procs' \subseteq approved', Covered(trustFile)',
           \A s \in ProjServers : g.approvals[s] # 0 => <<s, g.approvals[s]>> \in approved',
           \A s \in ProjServers : g.trust[s] # 0 => <<s, g.trust[s]>> \in approved'
    PROVE  TrustInv'
<1>1. engine' \in [Engines -> EngineStates] /\ engine'[e] = g /\ \A d \in Engines : d # e => engine'[d] = engine[d]
    BY Zenon DEF TrustInv, TrustTypes
<1>2. ASSUME NEW d \in Engines PROVE (Covered(engine[d].approvals) /\ Covered(engine[d].trust))'
    <2>1. CASE d = e
        BY <1>1, <2>1, Zenon DEF Covered
    <2>2. CASE d # e
        BY <1>1, <2>2, Zenon DEF TrustInv, Covered
    <2> QED
        BY <2>1, <2>2, Zenon
<1> QED
    BY <1>1, <1>2, Zenon DEF TrustInv, TrustTypes

(* The changes of an engine keep its type; most leave its approvals and    *)
(* the record it read alone.                                               *)
LEMMA EngineMoves ==
    ASSUME NEW g \in EngineStates,
           NEW pc \in {"idle", "prepare", "prompt", "asking", "again", "turn", "calls", "loading"}
    PROVE  /\ [g EXCEPT !.pc = pc] \in EngineStates
           /\ [g EXCEPT !.pc = pc].approvals = g.approvals /\ [g EXCEPT !.pc = pc].trust = g.trust
           /\ [g EXCEPT !.pc = pc].pending = g.pending
BY Zenon DEF EngineStates

(* A grant approves what the prompt showed.                                *)
LEMMA EngineGrants ==
    ASSUME NEW g \in EngineStates
    PROVE  /\ Grant(g) \in EngineStates /\ Deny(g) \in EngineStates
           /\ Grant(g).approvals \in {g.approvals, g.pending} /\ Grant(g).trust = g.trust
           /\ Deny(g).approvals = g.approvals /\ Deny(g).trust = g.trust
<1>1. [g EXCEPT !.approvals = g.pending, !.pending = Nothing, !.ready = FALSE] \in EngineStates
    BY NothingCovered, Zenon DEF EngineStates
<1>2. [g EXCEPT !.pending = Nothing] \in EngineStates
    BY NothingCovered, Zenon DEF EngineStates
<1>3. /\ [g EXCEPT !.approvals = g.pending, !.pending = Nothing, !.ready = FALSE].approvals = g.pending
      /\ [g EXCEPT !.approvals = g.pending, !.pending = Nothing, !.ready = FALSE].trust = g.trust
      /\ [g EXCEPT !.pending = Nothing].approvals = g.approvals
      /\ [g EXCEPT !.pending = Nothing].trust = g.trust
    BY Zenon DEF EngineStates
<1> QED
    BY <1>1, <1>2, <1>3, Zenon DEF Grant, Deny

(* Every action of the trust gate keeps the invariant.                     *)
LEMMA TrustStep == TrustInv /\ [TrustNext]_trustVars => TrustInv'
<1> SUFFICES ASSUME TrustInv, [TrustNext]_trustVars PROVE TrustInv'
    BY Zenon
<1>t. /\ conf \in Prints /\ trustFile \in Prints /\ engine \in [Engines -> EngineStates]
      /\ procs \subseteq approved /\ Covered(trustFile)
      /\ \A e \in Engines : /\ engine[e] \in EngineStates
                            /\ \A s \in ProjServers :
                                 /\ engine[e].approvals[s] # 0 => <<s, engine[e].approvals[s]>> \in approved
                                 /\ engine[e].trust[s] # 0 => <<s, engine[e].trust[s]>> \in approved
    BY Zenon DEF TrustInv, TrustTypes, Covered
<1> DEFINE Calm == UNCHANGED <<conf, trustFile, procs, approved>>
<1>k. ASSUME NEW e \in Engines, NEW g \in EngineStates, engine' = [engine EXCEPT ![e] = g], Calm,
             \A s \in ProjServers : g.approvals[s] # 0 => <<s, g.approvals[s]>> \in approved,
             \A s \in ProjServers : g.trust[s] # 0 => <<s, g.trust[s]>> \in approved
      PROVE  TrustInv'
    <2>1. Covered(trustFile)'
        BY <1>t, <1>k, Zenon DEF Covered
    <2> QED
        BY <1>t, <1>k, <2>1, OneEngine, Zenon
<1>m. ASSUME NEW e \in Engines, Calm,
             NEW pc \in {"idle", "prepare", "prompt", "asking", "again", "turn", "calls", "loading"},
             engine' = [engine EXCEPT ![e] = [engine[e] EXCEPT !.pc = pc]]
      PROVE  TrustInv'
    <2> DEFINE g == [engine[e] EXCEPT !.pc = pc]
    <2>1. g \in EngineStates /\ g.approvals = engine[e].approvals /\ g.trust = engine[e].trust
        BY <1>t, EngineMoves, Zenon
    <2> HIDE DEF g
    <2>2. engine' = [engine EXCEPT ![e] = g]
        BY <1>m, Zenon DEF g
    <2> QED
        BY <1>k, <1>m, <1>t, <2>1, <2>2, ZenonT(30)
<1>1. ASSUME NEW s \in ProjServers, EditConfig(s) PROVE TrustInv'
    <2>1. conf' \in Prints /\ UNCHANGED <<trustFile, engine, procs, approved>>
        BY <1>t, <1>1 DEF EditConfig, Prints
    <2> QED
        BY <2>1, Zenon DEF TrustInv, TrustTypes, Covered
<1>2. ASSUME NEW e \in Engines, BeginQuery(e) PROVE TrustInv'
    <2> DEFINE pc == IF engine[e].ready THEN "turn" ELSE "prepare"
               g == [engine[e] EXCEPT !.pc = pc, !.aborted = FALSE]
    <2>0. pc \in {"turn", "prepare"}
        BY Zenon
    <2> HIDE DEF pc
    <2>1. g \in EngineStates /\ g.approvals = engine[e].approvals /\ g.trust = engine[e].trust
        BY <1>t, <2>0, ZenonT(30) DEF EngineStates
    <2> HIDE DEF g
    <2>2. engine' = [engine EXCEPT ![e] = g] /\ Calm
        BY <1>2, Zenon DEF g, pc, BeginQuery
    <2> QED
        BY <1>k, <1>t, <2>1, <2>2, Zenon
<1>3. ASSUME NEW e \in Engines, NEW from, NEW to \in {"prompt", "turn", "calls"}, Ensure(e, from, to) PROVE TrustInv'
    <2>1. CASE engine[e].ready
        <3>1. engine' = [engine EXCEPT ![e] = [engine[e] EXCEPT !.pc = to]] /\ Calm
            BY <1>3, <2>1, Zenon DEF Ensure
        <3> QED
            BY <1>m, <3>1, Zenon
    <2>2. CASE ~engine[e].ready
        <3> DEFINE g == [engine[e] EXCEPT !.pc = "loading", !.ret = to, !.conf = conf, !.trust = trustFile]
        <3>1. g \in EngineStates /\ g.approvals = engine[e].approvals /\ g.trust = trustFile
            BY <1>t, ZenonT(30) DEF EngineStates
        <3> HIDE DEF g
        <3>2. engine' = [engine EXCEPT ![e] = g] /\ Calm
            BY <1>3, <2>2, Zenon DEF g, Ensure, LoadProjectMCPConfig, LoadTrustedMCP
        <3> QED
            BY <1>k, <1>t, <3>1, <3>2, Zenon DEF Covered
    <2> QED
        BY <2>1, <2>2, Zenon
<1>4. ASSUME NEW e \in Engines, Register(e) PROVE TrustInv'
    <2> DEFINE h == engine[e]
               fresh == NewlyApproved(h)
               started == OnRecord(h) \cup fresh
               pending == [s \in ProjServers |-> IF s \in OnRecord(h) THEN 0 ELSE h.conf[s]]
               g == [h EXCEPT !.context = TRUE, !.ready = TRUE, !.pc = h.ret, !.ret = "idle",
                              !.conf = Nothing, !.trust = Nothing, !.clients = started, !.pending = pending]
    <2>1. h \in EngineStates /\ h.conf \in Prints /\ h.trust \in Prints
        BY <1>t, Zenon DEF EngineStates
    <2>2. /\ trustFile' = IF fresh = {} THEN trustFile ELSE SavedTrust(h, fresh)
          /\ procs' = procs \cup {<<s, h.conf[s]>> : s \in started}
          /\ engine' = [engine EXCEPT ![e] = g]
          /\ UNCHANGED <<conf, approved>>
        BY <1>4, Zenon DEF Register
    <2>3. started \subseteq ProjServers /\ fresh \subseteq ProjServers
        BY Zenon DEF NewlyApproved, OnRecord
    <2>4. \A s \in started : <<s, h.conf[s]>> \in approved
        BY <1>t, Zenon DEF NewlyApproved, OnRecord
    <2>5. pending \in Prints
        BY <2>1, Zenon DEF Prints
    <2>6. SavedTrust(h, fresh) \in Prints
        BY <2>1, Zenon DEF Prints, SavedTrust
    <2>7. \A s \in ProjServers : SavedTrust(h, fresh)[s] # 0 => <<s, SavedTrust(h, fresh)[s]>> \in approved
        BY <1>t, <2>4, Zenon DEF SavedTrust
    <2> HIDE DEF pending, started, fresh, h
    <2>8. g \in EngineStates /\ g.approvals = h.approvals /\ g.trust = Nothing
        BY <2>1, <2>3, <2>5, NothingCovered, Zenon DEF EngineStates
    <2> HIDE DEF g
    <2>9. trustFile' \in Prints /\ Covered(trustFile)' /\ procs' \subseteq approved'
        BY <1>t, <2>2, <2>4, <2>6, <2>7, Zenon DEF Covered
    <2>10. /\ \A s \in ProjServers : g.approvals[s] # 0 => <<s, g.approvals[s]>> \in approved'
           /\ \A s \in ProjServers : g.trust[s] # 0 => <<s, g.trust[s]>> \in approved'
        BY <1>t, <2>2, <2>8, NothingCovered, Zenon DEF h
    <2> QED
        BY <1>t, <2>2, <2>8, <2>9, <2>10, OneEngine, Zenon
<1>g. ASSUME NEW e \in Engines, UNCHANGED <<conf, trustFile, procs>>, approved' = approved \cup Shown(engine[e]),
             engine' = [engine EXCEPT ![e] = [Grant(engine[e]) EXCEPT !.pc = "again"]]
      PROVE  TrustInv'
    <2> DEFINE g == [Grant(engine[e]) EXCEPT !.pc = "again"]
    <2>1. g \in EngineStates /\ g.approvals = Grant(engine[e]).approvals /\ g.trust = Grant(engine[e]).trust
        BY <1>t, EngineGrants, EngineMoves, Zenon
    <2> HIDE DEF g
    <2>2. g.approvals \in {engine[e].approvals, engine[e].pending} /\ g.trust = engine[e].trust
        BY <1>t, <2>1, EngineGrants, Zenon
    <2>3. \A s \in ProjServers : engine[e].pending[s] # 0 => <<s, engine[e].pending[s]>> \in approved'
        BY <1>g, Zenon DEF Shown
    <2>4. engine' = [engine EXCEPT ![e] = g]
        BY <1>g, Zenon DEF g
    <2>5. /\ \A s \in ProjServers : g.approvals[s] # 0 => <<s, g.approvals[s]>> \in approved'
          /\ \A s \in ProjServers : g.trust[s] # 0 => <<s, g.trust[s]>> \in approved'
        BY <1>t, <1>g, <2>2, <2>3, Zenon
    <2>6. Covered(trustFile)' /\ procs' \subseteq approved'
        BY <1>t, <1>g, Zenon DEF Covered
    <2> QED
        BY <1>t, <1>g, <2>1, <2>4, <2>5, <2>6, OneEngine, Zenon
<1>5. ASSUME NEW e \in Engines, NEW b \in BOOLEAN, Prompt(e, b) PROVE TrustInv'
    <2>1. CASE Shown(engine[e]) = {} \/ engine[e].aborted
        <3>1. engine' = [engine EXCEPT ![e] = [engine[e] EXCEPT !.pc = "again"]] /\ Calm
            BY <1>5, <2>1, Zenon DEF Prompt
        <3> QED
            BY <1>m, <3>1, Zenon
    <2>2. CASE ~(Shown(engine[e]) = {} \/ engine[e].aborted) /\ b
        <3>1. /\ engine' = [engine EXCEPT ![e] = [Grant(engine[e]) EXCEPT !.pc = "again"]]
              /\ approved' = approved \cup Shown(engine[e]) /\ UNCHANGED <<conf, trustFile, procs>>
            BY <1>5, <2>2, Zenon DEF Prompt
        <3> QED
            BY <1>g, <3>1, Zenon
    <2>3. CASE ~(Shown(engine[e]) = {} \/ engine[e].aborted) /\ ~b
        <3>1. engine' = [engine EXCEPT ![e] = [engine[e] EXCEPT !.pc = "asking"]] /\ Calm
            BY <1>5, <2>3, Zenon DEF Prompt
        <3> QED
            BY <1>m, <3>1, Zenon
    <2> QED
        BY <2>1, <2>2, <2>3, Zenon
<1>6. ASSUME NEW e \in Engines, NEW b \in BOOLEAN, Answer(e, b) PROVE TrustInv'
    <2>1. CASE b
        <3>1. /\ engine' = [engine EXCEPT ![e] = [Grant(engine[e]) EXCEPT !.pc = "again"]]
              /\ approved' = approved \cup Shown(engine[e]) /\ UNCHANGED <<conf, trustFile, procs>>
            BY <1>6, <2>1, Zenon DEF Answer
        <3> QED
            BY <1>g, <3>1, Zenon
    <2>2. CASE ~b
        <3> DEFINE g == [Deny(engine[e]) EXCEPT !.pc = "again"]
        <3>0. /\ Deny(engine[e]) \in EngineStates
              /\ Deny(engine[e]).approvals = engine[e].approvals /\ Deny(engine[e]).trust = engine[e].trust
            BY <1>t, EngineGrants, Zenon
        <3>1. g \in EngineStates /\ g.approvals = engine[e].approvals /\ g.trust = engine[e].trust
            BY <3>0, EngineMoves, Zenon
        <3> HIDE DEF g
        <3>2. engine' = [engine EXCEPT ![e] = g] /\ Calm
            BY <1>6, <2>2, Zenon DEF Answer, g
        <3> QED
            BY <1>k, <1>t, <3>1, <3>2, Zenon
    <2> QED
        BY <2>1, <2>2, Zenon
<1>7. ASSUME NEW e \in Engines, NEW b \in BOOLEAN, EndTurn(e, b) PROVE TrustInv'
    <2> DEFINE pc == IF b /\ ~engine[e].aborted THEN "turn" ELSE "idle"
    <2>1. pc \in {"idle", "prepare", "prompt", "asking", "again", "turn", "calls", "loading"}
        BY Zenon
    <2>2. engine' = [engine EXCEPT ![e] = [engine[e] EXCEPT !.pc = pc]] /\ Calm
        BY <1>7, Zenon DEF EndTurn
    <2> HIDE DEF pc
    <2> QED
        BY <1>m, <2>1, <2>2, Zenon
<1>8. ASSUME NEW e \in Engines, Unwind(e) PROVE TrustInv'
    <2>1. engine' = [engine EXCEPT ![e] = [engine[e] EXCEPT !.pc = "idle"]] /\ Calm
        BY <1>8, Zenon DEF Unwind
    <2> QED
        BY <1>m, <2>1, Zenon
<1>9. ASSUME NEW e \in Engines, AbortQuery(e) PROVE TrustInv'
    <2> DEFINE g == [engine[e] EXCEPT !.aborted = TRUE]
    <2>1. g \in EngineStates /\ g.approvals = engine[e].approvals /\ g.trust = engine[e].trust
        BY <1>t, ZenonT(30) DEF EngineStates
    <2> HIDE DEF g
    <2>2. engine' = [engine EXCEPT ![e] = g] /\ Calm
        BY <1>9, Zenon DEF g, AbortQuery
    <2> QED
        BY <1>k, <1>t, <2>1, <2>2, Zenon
<1>10. ASSUME NEW e \in Engines, DisconnectMCP(e) PROVE TrustInv'
    <2> DEFINE g == [engine[e] EXCEPT !.context = FALSE, !.ready = FALSE, !.clients = {},
                                      !.approvals = Nothing, !.pending = Nothing]
    <2>1. g \in EngineStates /\ g.approvals = Nothing /\ g.trust = engine[e].trust
        BY <1>t, NothingCovered, ZenonT(30) DEF EngineStates
    <2> HIDE DEF g
    <2>2. engine' = [engine EXCEPT ![e] = g] /\ Calm
        BY <1>10, Zenon DEF g, DisconnectMCP
    <2> QED
        BY <1>k, <1>t, <2>1, <2>2, NothingCovered, ZenonT(30)
<1>11. CASE UNCHANGED trustVars
    BY <1>11, Zenon DEF trustVars, TrustInv, TrustTypes, Covered
<1> QED
    BY <1>1, <1>2, <1>3, <1>4, <1>5, <1>6, <1>7, <1>8, <1>9, <1>10, <1>11, Zenon DEF TrustNext

(* A project's server is started, and kept on record, only as it was shown *)
(* and granted, for any engines, servers and edits of the configuration.   *)
THEOREM ServersApprovedAsShown == TrustSpec => []ApprovedAsShown
<1>1. TrustInv => ApprovedAsShown
    BY Zenon DEF TrustInv, Covered, ApprovedAsShown
<1> QED
    BY TrustStart, TrustStep, <1>1, PTL DEF TrustSpec
=============================================================================
