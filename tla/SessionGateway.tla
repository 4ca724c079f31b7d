--------------------------- MODULE SessionGateway ---------------------------
(***************************************************************************)
(* The daemon as its connections see it: WebSocket connections, the RPC    *)
(* requests of one session, the goroutine that runs a submitted message    *)
(* and pushes frames, statuses and durable events, permission prompts, and *)
(* the ways in which the daemon decides to stop (backend/daemon.go,        *)
(* session.go, bridge.go, event_hub.go, daemon_app.go, ui/runtime.go).     *)
(*                                                                         *)
(* A connection is served by one goroutine that reads a request, executes  *)
(* it and writes the response.  Sockets are numbered in the order in which *)
(* the terminal client opens them; Others are connections of other         *)
(* clients, which ask for nothing and only watch.                          *)
(***************************************************************************)
EXTENDS Integers, Sequences, FiniteSets, SequencesExt

CONSTANTS
    MaxSocks,    \* sockets the terminal client may open one after the other
    Others,      \* connections of other terminals
    Agents,      \* A2A connections: counted as active, not subscribed to events
    PageSize,    \* limit of session.events
    IdleLimit    \* IdleEmptyChecks

Sockets == 1..MaxSocks
Conns == Sockets \cup Others
None == [k |-> "none"]
NoRun == [phase |-> "none", by |-> 0, live |-> FALSE, asks |-> 0]

VARIABLES
    opt,       \* the scene: what clients and the environment do
    cut,       \* connections whose transport is broken or closed
    active,    \* connections that handleWS or handleA2AWS serves (activeConnections)
    clients,   \* the hub's subscribers
    up, down,  \* requests on the way to the daemon, messages on the way back
    serving,   \* what the goroutine of a connection is busy with
    leaving,   \* connections that asked for session.exit
    created,   \* the session exists
    journal,   \* the types of its durable events, in order
    saved,     \* commands with a saved response
    yolo,      \* the session's mode
    frame,     \* InputEnabled of the session's frame as last published
    run,       \* the submit goroutine [phase, by, live, asks]
    engine,    \* "none", "open": a run is in the journal, "left": nobody shows it any more
    prompt,    \* the pending permission: its number, or 0
    answer,    \* a decision that the waiting run has not read yet
    idle,      \* [checks, count]: the idle heartbeat between its two reads
    daemon     \* "up", "asked" (to stop), "closing", "down"

wires == <<cut, active, clients>>
sessionVars == <<created, journal, saved, yolo>>
runVars == <<frame, run, engine, prompt, answer>>
gatewayVars == <<cut, active, clients, up, down, serving, leaving, created, journal, saved,
                 yolo, frame, run, engine, prompt, answer, idle, daemon>>

Request(n, m, internal, arg) == [k |-> "ask", n |-> n, m |-> m, internal |-> internal, arg |-> arg]
Message(k, m, n, ok, seq, more, input) ==
    [k |-> k, m |-> m, n |-> n, ok |-> ok, seq |-> seq, more |-> more, input |-> input]

(* Snapshot: what a client gets to see of the session as a whole.          *)
Snapshot(k, m, n) == Message(k, m, n, TRUE, Len(journal), FALSE, frame)
Push(m) == Message("event", m, 0, TRUE, 0, FALSE, FALSE)
Frame(input) == Message("event", "frame", 0, TRUE, 0, FALSE, input)
(* emitRuntimeEvents: durable events carry their sequence number.          *)
Durable(types) ==
    [i \in 1..Len(types) |-> Message("event", types[i], 0, TRUE, Len(journal) + i, FALSE, FALSE)]

(* EventHub.Publish: everything is written to every subscriber, in order.  *)
Publish(pushes) ==
    down' = [g \in Conns |-> IF g \in clients \ cut THEN down[g] \o pushes ELSE down[g]]
Record(types) == journal' = journal \o types

-----------------------------------------------------------------------------
(* Connections.                                                            *)
(* Faulty variant: a new connection leaves the count of empty checks. *)
RegisterUncounted(g) ==
    /\ active' = active \cup {g}
    /\ UNCHANGED idle
registerConnection(g) ==
    /\ active' = active \cup {g}
    /\ idle' = [idle EXCEPT !.checks = 0]
Reachable == daemon \in {"up", "asked"}

OtherConnects(g) ==
    /\ "others" \in opt.does /\ Reachable
    /\ g \in Others \ active /\ g \in cut
    /\ registerConnection(g)
    /\ clients' = clients \cup {g} /\ cut' = cut \ {g}
    /\ down' = [down EXCEPT ![g] = <<>>]
    /\ UNCHANGED <<opt, up, serving, leaving, sessionVars, runVars, daemon>>
A2AConnects(g) ==
    /\ "others" \in opt.does /\ Reachable
    /\ g \in Agents \ active
    /\ registerConnection(g)
    /\ UNCHANGED <<opt, cut, clients, up, down, serving, leaving, sessionVars, runVars, daemon>>
A2ACloses(g) ==
    /\ g \in Agents \cap active
    /\ active' = active \ {g}
    /\ UNCHANGED <<opt, cut, clients, up, down, serving, leaving, sessionVars, runVars, idle, daemon>>
OtherCloses(g) ==
    /\ g \in (Others \cap active) \ cut
    /\ cut' = cut \cup {g}
    /\ UNCHANGED <<opt, active, clients, up, down, serving, leaving, sessionVars, runVars, idle, daemon>>
(* The network breaks a connection; neither side has noticed yet.          *)
Lose(g) ==
    /\ "lose" \in opt.does
    /\ g \in (active \cap 1..(opt.socks - 1)) \ cut
    /\ cut' = cut \cup {g}
    /\ UNCHANGED <<opt, active, clients, up, down, serving, leaving, sessionVars, runVars, idle, daemon>>

(* The goroutine reads an error: it unsubscribes and returns, which cancels *)
(* the context of the requests that came over the connection; a client     *)
(* that wanted to exit and was the last one starts the check of the exit.  *)
ReadFails(g) ==
    /\ g \in Sockets \cap active \cap cut /\ serving[g] = None
    /\ active' = active \ {g} /\ clients' = clients \ {g}
    /\ up' = [up EXCEPT ![g] = <<>>]
    /\ run' = IF run.by = g THEN [run EXCEPT !.live = FALSE] ELSE run
    /\ leaving' = IF clients' = {} THEN leaving ELSE leaving \ {g}
    /\ UNCHANGED <<opt, cut, down, serving, sessionVars, frame, engine, prompt, answer, idle, daemon>>
OtherReadFails(g) ==
    /\ g \in Others \cap active \cap cut
    /\ active' = active \ {g} /\ clients' = clients \ {g}
    /\ UNCHANGED <<opt, cut, up, down, serving, leaving, sessionVars, runVars, idle, daemon>>

-----------------------------------------------------------------------------
(* Requests.  Each takes the next request of a connection and leaves its   *)
(* response to be written (Respond).                                       *)
Takes(g, m) ==
    /\ g \in active \cap clients /\ serving[g] = None /\ up[g] # <<>>
    /\ Head(up[g]).m = m
    /\ up' = [up EXCEPT ![g] = Tail(@)]
Reply(g, msg) == serving' = [serving EXCEPT ![g] = msg]
Ok(q) == Message("reply", q.m, q.n, TRUE, 0, FALSE, FALSE)
Refuse(q) == Message("reply", q.m, q.n, FALSE, 0, FALSE, FALSE)
Respond(g) ==
    /\ serving[g] # None /\ serving[g].k = "reply"
    /\ down' = IF g \in cut THEN down ELSE [down EXCEPT ![g] = Append(@, serving[g])]
    /\ serving' = [serving EXCEPT ![g] = None]
    /\ UNCHANGED <<opt, wires, up, leaving, sessionVars, runVars, idle, daemon>>

ServeStatus(g) ==
    /\ Takes(g, "status") /\ Reply(g, Ok(Head(up[g])))
    /\ UNCHANGED <<opt, wires, down, leaving, sessionVars, runVars, idle, daemon>>
(* CreateWithIDFor: the id is the client's, so a repeated request finds    *)
(* the session that the first one made.                                    *)
ServeCreate(g) ==
    /\ Takes(g, "create") /\ created' = TRUE
    /\ Publish(IF created THEN <<>> ELSE <<Frame(TRUE)>>)
    /\ Reply(g, Snapshot("reply", "create", Head(up[g]).n))
    /\ UNCHANGED <<opt, wires, leaving, journal, saved, yolo, runVars, idle, daemon>>
ServeResume(g) ==
    /\ Takes(g, "resume")
    /\ Reply(g, IF created THEN Snapshot("reply", "resume", Head(up[g]).n) ELSE Refuse(Head(up[g])))
    /\ UNCHANGED <<opt, wires, down, leaving, sessionVars, runVars, idle, daemon>>
(* Events: a page of the journal, and whether there is more.               *)
ServeEvents(g) ==
    /\ Takes(g, "events")
    /\ LET q == Head(up[g])
           last == IF q.arg + PageSize < Len(journal) THEN q.arg + PageSize ELSE Len(journal)
       IN  Reply(g, Message("reply", "events", q.n, TRUE, last, last < Len(journal), FALSE))
    /\ UNCHANGED <<opt, wires, down, leaving, sessionVars, runVars, idle, daemon>>
(* SubmitCommand: a command that was answered before is answered again; a  *)
(* new one starts a run unless the session is busy.                        *)
ServeSubmit(g) ==
    /\ Takes(g, "submit")
    /\ LET q == Head(up[g])
           starts == created /\ q.n \notin saved /\ run.phase = "none"
       IN  /\ Reply(g, IF starts \/ q.n \in saved THEN Ok(q) ELSE Refuse(q))
           /\ saved' = IF starts THEN saved \cup {q.n} ELSE saved
           /\ run' = IF starts THEN [phase |-> "accepted", by |-> g, live |-> TRUE, asks |-> 0]
                     ELSE run
    /\ UNCHANGED <<opt, wires, down, leaving, created, journal, yolo, frame, engine, prompt, answer,
                   idle, daemon>>
Aborted == [run EXCEPT !.live = FALSE]
ServeAbort(g) ==
    /\ Takes(g, "abort") /\ Reply(g, Ok(Head(up[g])))
    /\ run' = Aborted /\ Publish(<<Push("aborted")>>)
    /\ UNCHANGED <<opt, wires, leaving, sessionVars, frame, engine, prompt, answer, idle, daemon>>
(* Clear aborts the run, waits for its goroutine and mounts an empty       *)
(* frame.                                                                  *)
ServeClear(g) ==
    /\ Takes(g, "clear")
    /\ serving' = [serving EXCEPT ![g] = [Head(up[g]) EXCEPT !.k = "clearing"]]
    /\ run' = Aborted /\ Publish(<<Push("aborted")>>)
    /\ UNCHANGED <<opt, wires, leaving, sessionVars, frame, engine, prompt, answer, idle, daemon>>
ClearEnds(g) ==
    /\ serving[g].k = "clearing" /\ run.phase = "none"
    /\ frame' = TRUE /\ Publish(<<Frame(TRUE)>>)
    /\ Reply(g, [Snapshot("reply", "clear", serving[g].n) EXCEPT !.input = TRUE])
    /\ UNCHANGED <<opt, wires, up, leaving, sessionVars, run, engine, prompt, answer, idle, daemon>>
ServeYolo(g) ==
    /\ Takes(g, "yolo") /\ Reply(g, Ok(Head(up[g])))
    /\ yolo' = ~yolo
    /\ UNCHANGED <<opt, wires, down, leaving, created, journal, saved, runVars, idle, daemon>>
ServeExit(g) ==
    /\ Takes(g, "exit") /\ Reply(g, Ok(Head(up[g])))
    /\ leaving' = leaving \cup {g}
    /\ UNCHANGED <<opt, wires, down, sessionVars, runVars, idle, daemon>>
(* ResolvePermission: the first answer to a pending request counts.        *)
ServePermission(g) ==
    /\ Takes(g, "permit")
    /\ LET q == Head(up[g])
           hit == prompt # 0 /\ q.arg = prompt /\ ~answer
       IN  /\ Reply(g, Ok(q))
           /\ answer' = (answer \/ hit)
    /\ UNCHANGED <<opt, wires, down, leaving, sessionVars, frame, run, engine, prompt, idle, daemon>>

Serve(g) ==
    \/ ServeStatus(g) \/ ServeCreate(g) \/ ServeResume(g) \/ ServeEvents(g) \/ ServeSubmit(g)
    \/ ServeAbort(g) \/ ServeClear(g) \/ ClearEnds(g) \/ ServeYolo(g) \/ ServeExit(g)
    \/ ServePermission(g) \/ Respond(g)

-----------------------------------------------------------------------------
(* The submit goroutine and the run it shows.                              *)
Untouched == <<opt, wires, up, serving, leaving, created, saved, yolo, idle, daemon>>
At(phase) == run.phase = phase
Go(phase) == run' = [run EXCEPT !.phase = phase]

(* The status "running", then the frame that takes the input away.         *)
RunShows ==
    /\ At("accepted") /\ Go("shown") /\ frame' = FALSE
    /\ Publish(<<Push("running"), Frame(FALSE)>>)
    /\ UNCHANGED <<Untouched, journal, engine, prompt, answer>>
(* SubmitMessage: the engine opens the run in the journal, or refuses it   *)
(* while it still ends a cancelled one.                                    *)
RunBegins ==
    /\ At("shown") /\ engine = "none" /\ Go("begun") /\ engine' = "open"
    /\ Record(<<"user", "started">>) /\ Publish(Durable(<<"user", "started">>))
    /\ UNCHANGED <<Untouched, frame, prompt, answer>>
RunRefused ==
    /\ At("shown") /\ (engine # "none" \/ ~run.live)
    /\ Go("ended") /\ frame' = TRUE /\ Publish(<<Frame(TRUE)>>)
    /\ UNCHANGED <<Untouched, journal, engine, prompt, answer>>
(* HandlePermissionEventContext, AskPermissionContext.                     *)
RunAsks ==
    /\ At("begun") /\ run.live /\ run.asks < opt.asks
    /\ run' = [run EXCEPT !.phase = "asking", !.asks = @ + 1]
    /\ prompt' = Len(journal) + run.asks /\ answer' = FALSE
    /\ Publish(<<[Push("permission") EXCEPT !.seq = Len(journal) + run.asks]>>)
    /\ UNCHANGED <<Untouched, journal, frame, engine>>
(* The decision, the end of the run's context or the timer of 24 hours.    *)
Resumed(pushes) ==
    /\ Go("begun") /\ prompt' = 0 /\ answer' = FALSE /\ frame' = FALSE
    /\ Publish(Append(pushes, Frame(FALSE)))
    /\ UNCHANGED <<Untouched, journal, engine>>
PermissionDecided == At("asking") /\ answer /\ Resumed(<<>>)
PermissionCancelled == At("asking") /\ Resumed(<<Push("cancelled")>>)

(* The engine's stream closes: the run has its end in the journal.         *)
EngineEnds ==
    /\ engine = "open" /\ At("begun")
    /\ engine' = "none" /\ Go("ended") /\ frame' = TRUE
    /\ Record(<<"ended">>) /\ Publish(Append(Durable(<<"ended">>), Frame(TRUE)))
    /\ UNCHANGED <<Untouched, prompt, answer>>
(* The context is done first: the frame is finished without the engine,    *)
(* which closes the run in its own time.                                   *)
RunCancelled ==
    /\ At("begun") /\ ~run.live
    /\ Go("ended") /\ engine' = "left" /\ frame' = TRUE /\ Publish(<<Frame(TRUE)>>)
    /\ UNCHANGED <<Untouched, journal, prompt, answer>>
EngineEndsLate ==
    /\ engine = "left" /\ engine' = "none"
    /\ Record(<<"ended">>) /\ Publish(Durable(<<"ended">>))
    /\ UNCHANGED <<Untouched, run, frame, prompt, answer>>

(* Faulty variant: a session that cannot be saved is reported to nobody. *)
SaveFailsSilently(fails) ==
    /\ At("ended") /\ Go("saved") /\ (fails => "fail" \in opt.does)
    /\ IF fails THEN UNCHANGED down
       ELSE Publish(<<Push("idle"), Snapshot("event", "done", 0)>>)
    /\ UNCHANGED <<Untouched, journal, frame, engine, prompt, answer>>
RunSaves(fails) ==
    /\ At("ended") /\ Go("saved") /\ (fails => "fail" \in opt.does)
    /\ IF fails THEN Publish(<<Push("error")>>)
       ELSE Publish(<<Push("idle"), Snapshot("event", "done", 0)>>)
    /\ UNCHANGED <<Untouched, journal, frame, engine, prompt, answer>>
RunPanics ==
    /\ "fail" \in opt.does /\ run.phase \in {"shown", "begun"}
    /\ Go("saved") /\ Publish(<<Push("error")>>)
    /\ engine' = IF engine = "open" THEN "left" ELSE engine
    /\ UNCHANGED <<Untouched, journal, frame, prompt, answer>>
(* The deferred clean-up: only now is the session free for the next run.   *)
RunOver ==
    /\ At("saved") /\ run' = NoRun
    /\ UNCHANGED <<Untouched, down, journal, frame, engine, prompt, answer>>

RunStep ==
    \/ RunShows \/ RunBegins \/ RunRefused \/ RunAsks \/ PermissionDecided \/ PermissionCancelled
    \/ EngineEnds \/ EngineEndsLate \/ RunCancelled \/ (\E fails \in BOOLEAN : RunSaves(fails)) \/ RunPanics \/ RunOver

-----------------------------------------------------------------------------
(* Stopping.  The heartbeat counts the connections, and only then, in      *)
(* another critical section, the empty checks.                             *)
Stays == <<opt, wires, up, down, serving, leaving, sessionVars, runVars>>
IdleTick ==
    /\ "idle" \in opt.does /\ daemon = "up" /\ idle.count = -1
    /\ idle' = IF active = {} THEN [idle EXCEPT !.count = 0] ELSE [idle EXCEPT !.checks = 0]
    /\ UNCHANGED <<Stays, daemon>>
IdleDecides ==
    /\ daemon = "up" /\ idle.count = 0
    /\ idle' = [checks |-> idle.checks + 1, count |-> -1]
    /\ daemon' = IF idle.checks + 1 >= IdleLimit THEN "asked" ELSE daemon
    /\ UNCHANGED Stays
(* 50 ms after the last client left it is checked that nobody came.        *)
ExitCheck(g) ==
    /\ g \in leaving \ active
    /\ leaving' = leaving \ {g}
    /\ daemon' = IF clients = {} /\ daemon = "up" THEN "asked" ELSE daemon
    /\ UNCHANGED <<opt, wires, up, down, serving, sessionVars, runVars, idle>>
(* DaemonApp.Run: the hub closes every subscriber, and then the process    *)
(* ends with its sessions shut down.                                       *)
HubCloses ==
    /\ daemon = "asked" /\ daemon' = "closing"
    /\ cut' = cut \cup clients /\ clients' = {}
    /\ UNCHANGED <<opt, active, up, down, serving, leaving, sessionVars, runVars, idle>>
ProcessEnds ==
    /\ daemon = "closing" /\ daemon' = "down"
    /\ cut' = Conns /\ active' = {} /\ run' = NoRun /\ engine' = "none"
    /\ serving' = [g \in Conns |-> None] /\ prompt' = 0 /\ answer' = FALSE
    /\ idle' = [checks |-> 0, count |-> -1] /\ leaving' = {}
    /\ UNCHANGED <<opt, clients, up, down, sessionVars, frame>>

Stop == IdleTick \/ IdleDecides \/ (\E g \in Sockets : ExitCheck(g)) \/ HubCloses \/ ProcessEnds

GatewayInit ==
    /\ cut = Others /\ active = {1} /\ clients = {1}
    /\ up = [g \in Conns |-> <<>>] /\ down = [g \in Conns |-> <<>>]
    /\ serving = [g \in Conns |-> None] /\ leaving = {}
    /\ created = FALSE /\ journal = <<>> /\ saved = {} /\ yolo = FALSE
    /\ frame = TRUE /\ run = NoRun /\ engine = "none" /\ prompt = 0 /\ answer = FALSE
    /\ idle = [checks |-> 0, count |-> -1] /\ daemon = "up"
=============================================================================
