--------------------------- MODULE TerminalClient ---------------------------
(***************************************************************************)
(* The terminal client (frontend/src): RpcClient, which keeps requests     *)
(* pending over lost connections, reconnects, recovers the session and     *)
(* sends them again, and LuminaTui, which takes the input away while the   *)
(* agent works and gives it back.                                          *)
(***************************************************************************)
EXTENDS SessionGateway

CONSTANT
    MaxTries     \* connection attempts that fit into the 30 seconds

VARIABLES
    gen,      \* the current socket
    phase,    \* "up"; "wait", "status", "resume", "events": reconnecting;
              \* "dead": disconnected for good; "quit": the process is over
    tries,    \* attempts since the connection was lost
    known,    \* the client has the session's id
    lastSeq,  \* RpcClient.lastSeq
    after,    \* recoverSession: where the next page begins
    snap,     \* recoverSession: the snapshot it applies at the end
    calls,    \* the calls of the user so far [m, arg, st]
    tui       \* [running, pending, input, modal, durable]

clientVars == <<gen, phase, tries, known, lastSeq, after, snap, calls, tui>>
rpcVars == <<phase, tries, known, lastSeq, after, snap>>

Max2(a, b) == IF a > b THEN a ELSE b
Waiting == {n \in DOMAIN calls : calls[n].st = "pending"}
Ask(n) == Request(n, calls[n].m, FALSE, calls[n].arg)
(* send: nothing is written to a socket that is not open.                  *)
Send(reqs) == up' = IF gen \in cut THEN up ELSE [up EXCEPT ![gen] = @ \o reqs]

-----------------------------------------------------------------------------
(* LuminaTui: how pushes and results change what the user may do.          *)
applyLocalSubmitLock(t) == IF t.pending THEN [t EXCEPT !.running = TRUE, !.input = FALSE] ELSE t
applyFrame(t, input) == applyLocalSubmitLock([t EXCEPT !.input = input])
applySnapshot(t, s) == applyFrame([t EXCEPT !.durable = Max2(@, s.seq)], s.input)
Unlock(t) == [t EXCEPT !.pending = FALSE, !.running = FALSE, !.input = TRUE]
applyRuntimeEvent(t, p) ==
    LET u == CASE p.m = "started" -> [t EXCEPT !.running = TRUE, !.input = FALSE]
               [] p.m = "ended" -> Unlock(t)
               [] OTHER -> t
    IN  [u EXCEPT !.durable = p.seq]
(* consumeRuntimePush, when no event before this one is missing.           *)
consumeRuntimePush(t, p) == IF p.seq <= t.durable THEN t ELSE applyRuntimeEvent(t, p)
(* The version of the protocol whose durable pushes the TUI takes, and the *)
(* one in which the daemon and RpcClient write them.                       *)
HandledVersion == 2
PushVersion == 3
IsDurable(p) == p.m \in {"user", "started", "ended"}
HandlePush(t, p) ==
    IF IsDurable(p) THEN (IF PushVersion = HandledVersion THEN consumeRuntimePush(t, p) ELSE t)
    ELSE CASE p.m = "frame" -> applyFrame(t, p.input)
           [] p.m = "running" -> [t EXCEPT !.running = TRUE]
           [] p.m \in {"idle", "error", "aborted"} -> Unlock(t)
           [] p.m = "done" -> applySnapshot([t EXCEPT !.pending = FALSE, !.running = FALSE], p)
           [] p.m = "permission" -> [t EXCEPT !.modal = p.seq]
           [] p.m = "cancelled" -> [t EXCEPT !.modal = 0]
           [] OTHER -> t

(* What the code that awaited a call does with its result.                 *)
Resolved(t, m, r) ==
    CASE m \in {"create", "clear"} /\ r.ok -> applySnapshot(t, r)
      [] m = "abort" /\ r.ok -> Unlock(t)
      [] m = "submit" /\ ~r.ok -> Unlock(t)
      [] OTHER -> t

-----------------------------------------------------------------------------
(* Calls.  The program begins with backend.status and session.create.      *)
call(m, arg) ==
    /\ Len(calls) < opt.max
    /\ calls' = Append(calls, [m |-> m, arg |-> arg,
                               st |-> IF phase = "dead" THEN "rejected" ELSE "pending"])
    /\ IF phase = "up" THEN Send(<<Request(Len(calls) + 1, m, FALSE, arg)>>) ELSE UNCHANGED up
    /\ UNCHANGED <<opt, wires, down, serving, leaving, sessionVars, runVars, idle, daemon, gen,
                   rpcVars>>
Ready == Len(calls) >= 2 /\ calls[2].st = "resolved" /\ phase # "quit"
Start ==
    /\ phase # "quit"
    /\ \/ calls = <<>> /\ call("status", 0)
       \/ Len(calls) = 1 /\ calls[1].st = "resolved" /\ call("create", 0)
    /\ UNCHANGED tui
Submit ==
    /\ Ready /\ "submit" \in opt.calls /\ tui.input /\ ~tui.running /\ tui.modal = 0
    /\ call("submit", 0)
    /\ tui' = IF phase = "dead" THEN tui
              ELSE [tui EXCEPT !.running = TRUE, !.pending = TRUE, !.input = FALSE]
Command(m) ==
    /\ Ready /\ m \in opt.calls \cap {"clear", "yolo", "exit"} /\ tui.input /\ ~tui.running /\ tui.modal = 0
    /\ call(m, 0) /\ UNCHANGED tui
(* handleEscape: pressed twice while the agent works.                      *)
Escape ==
    /\ Ready /\ "abort" \in opt.calls /\ tui.running /\ tui.modal = 0
    /\ call("abort", 0) /\ UNCHANGED tui
(* showPermission: the modal closes and the decision is sent.              *)
Decide ==
    /\ Ready /\ tui.modal # 0
    /\ call("permit", tui.modal)
    /\ tui' = [tui EXCEPT !.modal = 0]

-----------------------------------------------------------------------------
(* Messages of the current socket.                                         *)
Pop == down' = [down EXCEPT ![gen] = Tail(@)]
Attached == phase \in {"up", "status", "resume", "events"}
Incoming(k) == Attached /\ down[gen] # <<>> /\ Head(down[gen]).k = k
Gateway == <<opt, wires, serving, leaving, sessionVars, runVars, idle, daemon>>

(* trackEvent, then the handlers.                                          *)
ReceivePush ==
    /\ Incoming("event") /\ Pop
    /\ LET p == Head(down[gen]) IN
       /\ lastSeq' = IF IsDurable(p) THEN Max2(lastSeq, p.seq) ELSE lastSeq
       /\ tui' = HandlePush(tui, p)
    /\ known' = TRUE
    /\ UNCHANGED <<Gateway, up, gen, phase, tries, after, snap, calls>>
(* A response is matched with its request; session.exit ends the process,  *)
(* and so does a failure before the first screen.                          *)
ReceiveReply ==
    /\ Incoming("reply") /\ Head(down[gen]).n # 0
    /\ LET r == Head(down[gen]) IN
       /\ r.n \in Waiting
       /\ Pop
       /\ calls' = [calls EXCEPT ![r.n].st = IF r.ok THEN "resolved" ELSE "rejected"]
       /\ tui' = Resolved(tui, r.m, r)
       /\ known' = (known \/ (r.m = "create" /\ r.ok))
       /\ lastSeq' = IF r.m = "create" THEN Max2(lastSeq, r.seq) ELSE lastSeq
       /\ phase' = IF r.m = "exit" \/ (r.m = "create" /\ ~r.ok) THEN "quit" ELSE phase
       /\ cut' = IF phase' = "quit" THEN cut \cup {gen} ELSE cut
    /\ UNCHANGED <<opt, active, clients, up, serving, leaving, sessionVars, runVars, idle, daemon,
                   gen, tries, after, snap>>
(* A second response to a request that was sent on two sockets in turn.    *)
ReceiveUnmatched ==
    /\ Incoming("reply") /\ Head(down[gen]).n # 0 /\ Head(down[gen]).n \notin Waiting
    /\ Pop
    /\ UNCHANGED <<Gateway, up, clientVars>>

-----------------------------------------------------------------------------
(* Loss and recovery.                                                      *)
Dead(st) == [n \in DOMAIN calls |-> IF calls[n].st = "pending" THEN [calls[n] EXCEPT !.st = st]
                                    ELSE calls[n]]
(* failPermanently: every waiter is rejected, and the TUI is told.  A      *)
(* failure of the first calls ends the program.                            *)
failPermanently ==
    /\ phase' = IF Len(calls) < 2 \/ calls[2].st # "resolved" THEN "quit" ELSE "dead"
    /\ calls' = Dead("rejected")
    /\ tui' = Unlock(tui)
    /\ UNCHANGED <<Gateway, up, down, gen, tries, known, lastSeq, after, snap>>

(* handleSocketLoss.  While the client recovers, the internal request in   *)
(* flight is rejected and the loop tries again.                            *)
(* Faulty variant: a loss while reconnecting is left to the loop alone, with
   the internal request still pending. *)
LossIgnoredWhileReconnecting ==
    /\ phase = "up" /\ gen \in cut
    /\ phase' = "wait" /\ tries' = 0
    /\ UNCHANGED <<Gateway, up, down, gen, known, lastSeq, after, snap, calls, tui>>
handleSocketLoss ==
    /\ Attached /\ gen \in cut
    /\ phase' = "wait"
    /\ tries' = IF phase = "up" THEN 0 ELSE tries
    /\ UNCHANGED <<Gateway, up, down, gen, known, lastSeq, after, snap, calls, tui>>

(* One turn of reconnectLoop: it connects and asks for the status.         *)
ReconnectSucceeds ==
    /\ phase = "wait" /\ tries < MaxTries /\ Reachable /\ gen < opt.socks
    /\ gen' = gen + 1 /\ phase' = "status" /\ tries' = tries + 1
    /\ registerConnection(gen')
    /\ clients' = clients \cup {gen'}
    /\ up' = [up EXCEPT ![gen'] = <<Request(0, "status", TRUE, 0)>>]
    /\ down' = [down EXCEPT ![gen] = <<>>]
    /\ UNCHANGED <<opt, cut, serving, leaving, sessionVars, runVars, daemon, known, lastSeq,
                   after, snap, calls, tui>>
ReconnectFails ==
    /\ phase = "wait" /\ tries < MaxTries
    /\ ~Reachable \/ "refuse" \in opt.does \/ gen = opt.socks
    /\ tries' = tries + 1
    /\ UNCHANGED <<Gateway, up, down, gen, phase, known, lastSeq, after, snap, calls, tui>>
GiveUp == phase = "wait" /\ tries = MaxTries /\ failPermanently

Internal(m) == Incoming("reply") /\ Head(down[gen]).n = 0 /\ phase = m
(* The end of recoverSession and of the loop: what is pending is sent      *)
(* again, in the order of the calls.                                       *)
FinishRecovery(t) ==
    /\ phase' = "up" /\ tui' = t
    /\ Send(LET order == SetToSortSeq(Waiting, LAMBDA a, b : a < b)
            IN  [i \in DOMAIN order |-> Ask(order[i])])

RecoverStatus ==
    /\ Internal("status") /\ Pop
    /\ IF known THEN phase' = "resume" /\ Send(<<Request(0, "resume", TRUE, 0)>>) /\ UNCHANGED tui
       ELSE FinishRecovery(tui)
    /\ after' = lastSeq
    /\ UNCHANGED <<Gateway, gen, tries, known, lastSeq, snap, calls>>
RecoverResume ==
    /\ Internal("resume") /\ Pop
    /\ LET r == Head(down[gen]) IN
       /\ snap' = r
       /\ IF r.ok THEN phase' = "events" /\ Send(<<Request(0, "events", TRUE, after)>>) /\ UNCHANGED cut
          ELSE phase' = "wait" /\ cut' = cut \cup {gen} /\ UNCHANGED up
    /\ UNCHANGED <<opt, active, clients, serving, leaving, sessionVars, runVars, idle, daemon, gen,
                   tries, known, lastSeq, after, calls, tui>>
(* A page of events is handed on as if it had been pushed.                 *)
RecoverEvents ==
    /\ Internal("events") /\ Pop
    /\ LET r == Head(down[gen])
           page == [i \in 1..(r.seq - after) |->
                      Message("event", journal[after + i], 0, TRUE, after + i, FALSE, FALSE)]
           shown == FoldLeft(HandlePush, tui, page)
       IN  /\ after' = r.seq
           /\ IF r.more
              THEN /\ phase' = "events" /\ tui' = shown /\ lastSeq' = Max2(lastSeq, r.seq)
                   /\ Send(<<Request(0, "events", TRUE, r.seq)>>)
              ELSE /\ lastSeq' = Max2(r.seq, snap.seq)
                   /\ FinishRecovery(applySnapshot(shown, snap))
    /\ UNCHANGED <<Gateway, gen, tries, known, snap, calls>>
=============================================================================
