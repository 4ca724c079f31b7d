----------------------------- MODULE MCDelivery -----------------------------
(***************************************************************************)
(* The terminal client and the daemon on small instances.  Each scene says *)
(* which calls the user makes and what the environment does; the scene     *)
(* "outbox" is the delivery of events in a cluster.                        *)
(***************************************************************************)
EXTENDS TerminalClient, EventOutbox

Scene(name, users, does, socks, max, asks) ==
    [name |-> name, calls |-> users, does |-> does, socks |-> socks, max |-> max, asks |-> asks]
Scenes == {
    Scene("reconnecting", {"yolo"}, {"lose", "refuse"}, 3, 3, 0),
    Scene("submitting", {"submit"}, {"lose"}, 2, 3, 0),
    Scene("commands", {"clear", "yolo", "exit"}, {"lose"}, 2, 4, 0),
    Scene("stable", {"submit", "abort", "clear"}, {"fail"}, 1, 4, 1),
    Scene("leaving", {"exit"}, {"others", "idle", "lose"}, 2, 3, 0),
    Scene("outbox", {}, {}, 1, 0, 0) }

ClientInit ==
    /\ gen = 1 /\ phase = "up" /\ tries = 0 /\ known = FALSE /\ lastSeq = 0 /\ after = 0
    /\ snap = None /\ calls = <<>>
    /\ tui = [running |-> FALSE, pending |-> FALSE, input |-> TRUE, modal |-> 0, durable |-> 0]
Begin(S) ==
    /\ opt \in S /\ GatewayInit /\ ClientInit
    /\ OutboxInit /\ at = "a" /\ (opt.name # "outbox" => owner = "a" /\ seenLimit = 1)

UserStep ==
    \/ Submit \/ Escape \/ Decide \/ \E m \in {"clear", "yolo", "exit"} : Command(m)
ClientStep ==
    \/ Start \/ ReceivePush \/ ReceiveReply \/ ReceiveUnmatched \/ handleSocketLoss
    \/ ReconnectSucceeds \/ ReconnectFails \/ GiveUp \/ RecoverStatus \/ RecoverResume \/ RecoverEvents
ServerStep ==
    \/ \E g \in Sockets : Serve(g) \/ ReadFails(g)
    \/ RunStep \/ Stop
Environment ==
    \/ \E g \in Sockets : Lose(g)
    \/ \E g \in Others : OtherConnects(g) \/ OtherCloses(g) \/ OtherReadFails(g)
    \/ \E g \in Agents : A2AConnects(g) \/ A2ACloses(g)
dvars == <<opt, gatewayVars, clientVars>>
DeliveryNext ==
    \/ /\ opt.name # "outbox" /\ UNCHANGED outboxVars
       /\ \/ UserStep \/ ClientStep
          \/ (ServerStep \/ Environment) /\ UNCHANGED clientVars
    \/ opt.name = "outbox" /\ OutboxNext /\ UNCHANGED dvars

(* Every step of the client and of the daemon that is ready is taken in    *)
(* the end: event loops, goroutines, timers and detected losses.           *)
Running == opt.name # "outbox" /\ UNCHANGED outboxVars
Publishing == opt.name = "outbox" /\ UNCHANGED <<dvars, seenLimit>>
DeliverySpec ==
    /\ Begin(Scenes) /\ [][DeliveryNext]_<<dvars, outboxVars>>
    /\ WF_dvars(Running /\ ClientStep)
    /\ WF_dvars(Running /\ (\E g \in Sockets : Serve(g) \/ ReadFails(g)) /\ UNCHANGED clientVars)
    /\ WF_dvars(Running /\ RunStep /\ UNCHANGED clientVars)
    /\ WF_outboxVars(Publishing /\ \E i \in Instances : OutboxStep(i))
    /\ WF_outboxVars(Publishing /\ \E e \in Events : ClaimExpires(e))

(* Every call of the user gets its answer or its error, so that in the end *)
(* none is left that waits (a user makes finitely many), although the      *)
(* connection may be lost with the request or the response on the way,     *)
(* again while the client recovers, or for good (RpcClient.reconnectLoop,  *)
(* recoverSession, failPermanently).                                       *)
RequestsSettle == <>[](Waiting = {} \/ phase = "quit")

(* While the connection holds, an input that was taken away is given back, *)
(* whether the run completes, asks for a permission, is aborted or         *)
(* cleared, panics or cannot be saved (SessionController.submit,           *)
(* LuminaTui.handlePush).                                                  *)
InputReturns == [](phase = "up") => []<>tui.input

(* The daemon decides to stop, for want of connections or after the last   *)
(* client left, only when no terminal is connected; the heartbeat, which   *)
(* counts all connections, only when there is none at all                  *)
(* (startIdleHeartbeat, registerConnection, handleWS).                     *)
ShutdownJustified ==
    [][daemon = "up" /\ daemon' = "asked" =>
          /\ clients = {}
          /\ idle' # idle => active = {}]_dvars

=============================================================================
