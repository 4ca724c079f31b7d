---------------------------- MODULE ShellTasks ----------------------------
(***************************************************************************)
(* run_shell: commands in the foreground (runArgvCommand) and in the       *)
(* background (BackgroundManager), the processes they start, deadlines,    *)
(* Cancel and WaitFor.  A command is its process group: the shell, and     *)
(* perhaps descendants that keep the output pipe open after it is gone,    *)
(* which is what cmd.Wait waits for.                                       *)
(***************************************************************************)
EXTENDS Naturals, FiniteSets

CONSTANTS MaxCmds,            \* bound: commands that are run
          MaxBackgroundTasks  \* maxBackgroundTasks

VARIABLES task,     \* what the manager, or the call, knows of each command
          process,  \* the operating system's side of each command
          runner,   \* runTask, or runArgvCommand, of each command
          cancel,   \* Cancel of each command
          waiter,   \* WaitFor on each command
          settled   \* the first status other than running

ShellCmds == 1..MaxCmds

shellVars == <<task, process, runner, cancel, waiter, settled>>

(* deadline: none, later, or already past when the command starts.         *)
NoTask == [status |-> "none", mode |-> "none", entry |-> FALSE, deadline |-> "none",
           ctx |-> "live", file |-> "none", done |-> FALSE]
NoProcess == [shell |-> "none", rest |-> FALSE, end |-> "none"]

ShellInit ==
    /\ task = [c \in ShellCmds |-> NoTask]
    /\ process = [c \in ShellCmds |-> NoProcess]
    /\ runner = [c \in ShellCmds |-> "none"]
    /\ cancel = [c \in ShellCmds |-> "none"]
    /\ waiter = [c \in ShellCmds |-> "none"]
    /\ settled = [c \in ShellCmds |-> "none"]

ActiveCount == Cardinality({c \in ShellCmds : task[c].mode = "background"
                                              /\ task[c].status = "running"})

(* The timeout in the input, or the configured one: a foreground command   *)
(* has a deadline; a background one has none when two minutes are asked.   *)
Deadlines(mode) == {"later", "past"} \cup (IF mode = "background" THEN {"none"} ELSE {})

(* BashTool.Execute refuses a command (its timeout, the security, sed and  *)
(* path checks, the sandbox), or hands it to one of the two runners.       *)
RunShell(c, mode, deadline, refused) ==
    /\ task[c].status = "none" /\ (c > 1 => task[c - 1].status # "none")
    /\ IF refused \/ (mode = "background" /\ ActiveCount >= MaxBackgroundTasks)
       THEN /\ task' = [task EXCEPT ![c].status = "refused"]
            /\ UNCHANGED runner
       ELSE /\ task' = [task EXCEPT ![c] = [NoTask EXCEPT !.status = "running", !.mode = mode,
                                                          !.deadline = deadline]]
            /\ runner' = [runner EXCEPT ![c] = IF mode = "background" THEN "registering" ELSE "starting"]
    /\ UNCHANGED <<process, cancel, waiter, settled>>

(* The running entry is stored under a second lock, after the first was    *)
(* given back; then runTask begins.                                        *)
RegisterRunning(c) ==
    /\ runner[c] = "registering"
    /\ task' = [task EXCEPT ![c].entry = TRUE]
    /\ runner' = [runner EXCEPT ![c] = "starting"]
    /\ UNCHANGED <<process, cancel, waiter, settled>>

(* The status becomes final: what it says is what it will go on saying.    *)
Settle(c, status) == settled' = [settled EXCEPT ![c] = IF @ = "none" THEN status ELSE @]

(* Faulty variant: the outcome of the process overwrites a cancellation.   *)
FinishTaskAlways(c, status, file) ==
    /\ task' = [task EXCEPT ![c] = [@ EXCEPT !.status = status, !.file = file,
                                             !.entry = FALSE, !.done = TRUE]]
    /\ Settle(c, status)
    /\ runner' = [runner EXCEPT ![c] = "done"]

(* finishTask after the output file is written, and the deferred close of  *)
(* done: a task that was cancelled stays cancelled.                        *)
FinishTask(c, status, file) ==
    /\ LET final == IF task[c].status = "cancelled" THEN "cancelled" ELSE status
       IN /\ task' = [task EXCEPT ![c] = [@ EXCEPT !.status = final, !.file = file,
                                                   !.entry = FALSE, !.done = TRUE]]
          /\ Settle(c, final)
    /\ runner' = [runner EXCEPT ![c] = "done"]

(* What a background command leaves on disk: the error of os.WriteFile is  *)
(* ignored.  A foreground command hands the same to its caller.            *)
Written(c, file) == IF task[c].mode = "background" THEN {file, "none"} ELSE {file}

(* cmd.Start: refused under a context that is already done, or failing.    *)
StartProcess(c) ==
    /\ runner[c] = "starting"
    /\ \/ /\ task[c].deadline = "past" \/ task[c].ctx = "expired"
          /\ \E file \in Written(c, "timeout") : FinishTask(c, "failed", file)
          /\ UNCHANGED process
       \/ /\ task[c].deadline # "past" /\ task[c].ctx # "expired"
          /\ \E file \in Written(c, "crash") : FinishTask(c, "failed", file)
          /\ UNCHANGED process
       \/ /\ task[c].deadline # "past" /\ task[c].ctx = "live"
          /\ \E rest \in BOOLEAN :
               process' = [process EXCEPT ![c] = [shell |-> "alive", rest |-> rest, end |-> "none"]]
          /\ runner' = [runner EXCEPT ![c] = "waiting"]
          /\ UNCHANGED <<task, settled>>
    /\ UNCHANGED <<cancel, waiter>>

(* The shell ends by itself; so do the descendants that hold the pipe.     *)
ProcessExits(c) ==
    /\ process[c].shell = "alive"
    /\ process' = [process EXCEPT ![c].shell = "exited", ![c].end = "own"]
    /\ UNCHANGED <<task, runner, cancel, waiter, settled>>

RestExits(c) ==
    /\ process[c].rest
    /\ process' = [process EXCEPT ![c].rest = FALSE]
    /\ UNCHANGED <<task, runner, cancel, waiter, settled>>

(* The context ends at its deadline, or with the foreground call's own.    *)
(* exec.CommandContext then kills the shell, and the shell only.           *)
EndContext(c, how) ==
    /\ task[c].ctx = "live" /\ runner[c] \in {"starting", "waiting"}
    /\ \/ how = "expired" /\ task[c].deadline = "later"
       \/ how = "cancelled" /\ task[c].mode = "foreground"
    /\ task' = [task EXCEPT ![c].ctx = how]
    /\ UNCHANGED <<process, runner, cancel, waiter, settled>>

KillShell(c) ==
    /\ task[c].ctx # "live" /\ process[c].shell = "alive"
    /\ process' = [process EXCEPT ![c].shell = "exited", ![c].end = "signal"]
    /\ UNCHANGED <<task, runner, cancel, waiter, settled>>

(* cmd.Wait returns when the shell is gone and its output pipe is closed.  *)
(* What is reported depends on the context at that moment.                 *)
WaitReturns(c) ==
    /\ runner[c] = "waiting"
    /\ process[c].shell = "exited" /\ ~process[c].rest
    /\ CASE task[c].ctx = "expired" ->
              \E file \in Written(c, "timeout") : FinishTask(c, "failed", file)
         [] task[c].ctx = "cancelled" /\ task[c].mode = "background" ->
              FinishTask(c, "cancelled", "none")
         [] OTHER -> \E file \in Written(c, "output") : FinishTask(c, "completed", file)
    /\ UNCHANGED <<process, cancel, waiter>>

(* Cancel marks the task under the lock, then signals the process group    *)
(* and waits before it cancels the context.                                *)
CancelTask(c) ==
    /\ task[c].status = "running" /\ task[c].entry
    /\ task' = [task EXCEPT ![c].status = "cancelled"]
    /\ Settle(c, "cancelled")
    /\ cancel' = [cancel EXCEPT ![c] = "marked"]
    /\ UNCHANGED <<process, runner, waiter>>

(* terminateProcessTree reaches the whole group while the shell is there.  *)
(* Its read of cmd.Process races cmd.Start and may still find nothing.     *)
SignalGroup(c) ==
    /\ cancel[c] = "marked"
    /\ process' = IF process[c].shell = "alive"
                  THEN [process EXCEPT ![c] = [shell |-> "exited", rest |-> FALSE, end |-> "signal"]]
                  ELSE process
    /\ cancel' = [cancel EXCEPT ![c] = "signalled"]
    /\ UNCHANGED <<task, runner, waiter, settled>>

SignalMissed(c) ==
    /\ cancel[c] = "marked" /\ runner[c] \in {"starting", "waiting"}
    /\ cancel' = [cancel EXCEPT ![c] = "signalled"]
    /\ UNCHANGED <<task, process, runner, waiter, settled>>

CancelContext(c) ==
    /\ cancel[c] = "signalled"
    /\ task' = [task EXCEPT ![c].ctx = IF @ = "live" THEN "cancelled" ELSE @]
    /\ cancel' = [cancel EXCEPT ![c] = "joining"]
    /\ UNCHANGED <<process, runner, waiter, settled>>

(* Done within five seconds, or the shell is killed; the entry goes.       *)
CancelReturns(c) ==
    /\ cancel[c] = "joining"
    /\ \/ task[c].done /\ UNCHANGED process
       \/ /\ ~task[c].done
          /\ process' = IF process[c].shell = "alive"
                        THEN [process EXCEPT ![c].shell = "exited", ![c].end = "signal"]
                        ELSE process
    /\ task' = [task EXCEPT ![c].entry = FALSE]
    /\ cancel' = [cancel EXCEPT ![c] = "returned"]
    /\ UNCHANGED <<runner, waiter, settled>>

(* WaitFor returns a settled task at once, waits on the entry's done, and  *)
(* returns at once when there is no entry (yet, or any more).              *)
WaitFor(c) ==
    /\ waiter[c] = "none" /\ task[c].mode = "background"
    /\ waiter' = [waiter EXCEPT ![c] = IF task[c].status = "running" /\ task[c].entry
                                       THEN "waiting" ELSE "returned"]
    /\ UNCHANGED <<task, process, runner, cancel, settled>>

WaitForReturns(c) ==
    /\ waiter[c] = "waiting" /\ task[c].done
    /\ waiter' = [waiter EXCEPT ![c] = "joined"]
    /\ UNCHANGED <<task, process, runner, cancel, settled>>

ShellNext ==
    \E c \in ShellCmds :
      \/ \E mode \in {"foreground", "background"}, r \in BOOLEAN :
           \E d \in Deadlines(mode) : RunShell(c, mode, d, r)
      \/ RegisterRunning(c) \/ StartProcess(c) \/ ProcessExits(c) \/ RestExits(c)
      \/ \E how \in {"expired", "cancelled"} : EndContext(c, how)
      \/ KillShell(c) \/ WaitReturns(c)
      \/ CancelTask(c) \/ SignalGroup(c) \/ SignalMissed(c) \/ CancelContext(c) \/ CancelReturns(c)
      \/ WaitFor(c) \/ WaitForReturns(c)

(***************************************************************************)
(* A background task's outcome is what happened to its process, and it     *)
(* stands.  "completed" means the command ended by itself, and no report   *)
(* of a timeout or a crash is on disk; a command that failed has left no   *)
(* output for a complete one (runTask ignores the errors of os.WriteFile,  *)
(* so either file may be missing).  A status other than "running" never    *)
(* changes, whatever Cancel, the deadline and the exit of the process do   *)
(* to each other, and a WaitFor that waited finds a settled task.          *)
(***************************************************************************)
ShellOutcomeStands ==
    \A c \in ShellCmds :
      /\ (task[c].mode = "background" /\ task[c].status = "completed")
            => process[c].end = "own" /\ task[c].file \in {"output", "none"}
      /\ task[c].status = "failed" => task[c].file # "output"
      /\ settled[c] # "none" => task[c].status = settled[c]
      /\ waiter[c] = "joined" => settled[c] # "none"
=============================================================================
