----------------------------- MODULE McpClient -----------------------------
(***************************************************************************)
(* One MCP client: Connect with its initialize handshake, Request (held    *)
(* to one exchange at a time by requestMu), the ping loop, time limits,    *)
(* cancelled callers and Disconnect, over the stdio and the HTTP transport,*)
(* against a server that may stay silent, answer late or twice, send       *)
(* notifications or unreadable lines, or go away.                          *)
(***************************************************************************)
EXTENDS Naturals, Sequences, FiniteSets

CONSTANTS McpCalls,   \* CallTool and ReadResource calls of the agents
          MaxPings,   \* bound: pings sent
          MaxNoise    \* bound: messages the server sends unasked

VARIABLES wire,     \* "stdio" or "http"
          client,   \* state, transport reference, ping loop, last request id
          req,      \* the callers of Request
          turnOf,   \* requestMu: its holder, then those waiting in order
          inbox,    \* messages on their way to the client
          server,   \* the server: up, requests it has, noise it made
          reg       \* RegisterMCPTools for this server

mcpVars == <<wire, client, req, turnOf, inbox, server, reg>>

Callers == McpCalls \cup {"reg", "ping"}
Idle == [pc |-> "none", id |-> 0, cancelled |-> FALSE, got |-> 0]

Msg(kind, id) == [kind |-> kind, id |-> id]

McpInit(wires) ==
    /\ wire \in wires
    /\ client = [state |-> "disconnected", transport |-> FALSE, ping |-> "off",
                 stopped |-> FALSE, pings |-> 0, ids |-> 0]
    /\ req = [r \in Callers |-> Idle]
    /\ turnOf = <<>>
    /\ inbox = <<>>
    /\ server = [up |-> FALSE, asked |-> {}, noise |-> 0]
    /\ reg = "new"

(* Disconnect stops the ping loop, drops the transport and closes it: the  *)
(* process is terminated, the pending HTTP response forgotten.             *)
Disconnected == [client EXCEPT !.state = "disconnected", !.transport = FALSE, !.stopped = TRUE]
Closed == /\ server' = [server EXCEPT !.up = wire = "http", !.asked = {}]
          /\ inbox' = <<>>

Disconnect ==
    /\ client' = Disconnected
    /\ Closed

(* setError leaves the transport where it is.                              *)
SetError == client' = [client EXCEPT !.state = "error"]

(* Connect creates the transport and starts the process, or probes the     *)
(* URL, and sends initialize.                                              *)
Connect ==
    /\ reg = "new"
    /\ client' = [client EXCEPT !.state = "connecting", !.transport = TRUE, !.ids = 1]
    /\ server' = [server EXCEPT !.up = TRUE, !.asked = {1}]
    /\ reg' = "initialize"
    /\ UNCHANGED <<wire, req, turnOf, inbox>>

(* The process does not start.                                             *)
ConnectFails ==
    /\ reg = "new" /\ wire = "stdio"
    /\ client' = [client EXCEPT !.state = "error", !.transport = TRUE]
    /\ reg' = "failed"
    /\ UNCHANGED <<wire, req, turnOf, inbox, server>>

(* initialize takes the first message for the answer, whatever its id.     *)
Initialize ==
    /\ reg = "initialize" /\ inbox # <<>>
    /\ inbox' = Tail(inbox)
    /\ IF Head(inbox).kind = "response"
       THEN /\ client' = [client EXCEPT !.state = "connected", !.ping = "ticking"]
            /\ req' = [req EXCEPT !["reg"].pc = "queued"]
            /\ turnOf' = Append(turnOf, "reg")
            /\ reg' = "discover"
       ELSE /\ SetError
            /\ reg' = "failed"
            /\ UNCHANGED <<req, turnOf>>
    /\ UNCHANGED <<wire, server>>

(* No answer in time disconnects; a server that is gone only is an error.  *)
InitializeFails ==
    /\ reg = "initialize"
    /\ \/ Disconnect
       \/ inbox = <<>> /\ (~server.up \/ wire = "http") /\ SetError /\ UNCHANGED <<inbox, server>>
    /\ reg' = "failed"
    /\ UNCHANGED <<wire, req, turnOf>>

(* RegisterMCPTools: tools/list answered, or Disconnect and no client.     *)
Discover ==
    /\ reg = "discover" /\ req["reg"].pc = "returned"
    /\ IF req["reg"].got # 0
       THEN reg' = "ready" /\ UNCHANGED <<client, inbox, server>>
       ELSE reg' = "failed" /\ Disconnect
    /\ UNCHANGED <<wire, req, turnOf>>

(* A caller queues for requestMu.                                          *)
Enqueue(c) ==
    /\ reg = "ready" /\ req[c].pc = "none"
    /\ req' = [req EXCEPT ![c].pc = "queued"]
    /\ turnOf' = Append(turnOf, c)
    /\ UNCHANGED <<wire, client, inbox, server, reg>>

(* A dynamic MCP tool, or mcp_read_resource, asks whatever the state;      *)
(* mcp_list_resources leaves a client alone that is not connected.         *)
CallTool(c) == Enqueue(c)

ReadResource(c) == Enqueue(c)

ListResources(c) == client.state = "connected" /\ Enqueue(c)

(* The caller's run is aborted, or its registry time limit passes: Request *)
(* notices only where it looks at its context.                             *)
CancelCall(c) ==
    /\ req[c].pc \in {"queued", "wait", "posting"} /\ ~req[c].cancelled
    /\ req' = [req EXCEPT ![c].cancelled = TRUE]
    /\ UNCHANGED <<wire, client, turnOf, inbox, server, reg>>

(* Request returns to r and gives requestMu to the next.                   *)
Return(r, got) ==
    /\ req' = [req EXCEPT ![r].pc = "returned", ![r].got = got, ![r].cancelled = FALSE]
    /\ turnOf' = Tail(turnOf)

HasTurn(r) == turnOf # <<>> /\ Head(turnOf) = r

(* Request with requestMu: not connected is an error; Send to a server     *)
(* that is gone fails; otherwise the request is out.  The stdio Send does  *)
(* not look at the context.                                                *)
Send(r) ==
    /\ HasTurn(r) /\ req[r].pc = "queued"
    /\ IF client.state # "connected"
       THEN Return(r, 0) /\ UNCHANGED <<client, server>>
       ELSE IF wire = "stdio" /\ ~server.up
            THEN Return(r, 0) /\ SetError /\ UNCHANGED server
            ELSE /\ client' = [client EXCEPT !.ids = @ + 1]
                 /\ server' = [server EXCEPT !.asked = @ \cup {client.ids + 1}]
                 /\ req' = [req EXCEPT ![r].pc = IF wire = "stdio" THEN "wait" ELSE "posting",
                                       ![r].id = client.ids + 1]
                 /\ UNCHANGED turnOf
    /\ UNCHANGED <<wire, inbox, reg>>

(* The HTTP exchange: the response of this POST becomes the pending one,   *)
(* an empty or unreadable body leaves none, a failure or a cancelled       *)
(* context is an error.                                                    *)
Post(r) ==
    /\ HasTurn(r) /\ req[r].pc = "posting"
    /\ \/ Return(r, 0) /\ SetError /\ UNCHANGED inbox
       \/ /\ ~req[r].cancelled
          /\ \E m \in {<<>>} \cup {<<Msg(k, req[r].id)>> : k \in {"response", "error"}} : inbox' = m
          /\ req' = [req EXCEPT ![r].pc = "wait"]
          /\ UNCHANGED <<client, turnOf>>
    /\ server' = [server EXCEPT !.asked = @ \ {req[r].id}]
    /\ UNCHANGED <<wire, reg>>

(* The response, or the error, that carries the id of the request.         *)
Answers(m, r) == m.kind \in {"response", "error"} /\ m.id = req[r].id

(* The Receive loop: an unreadable line counts as a closed connection,     *)
(* notifications and answers to other requests are skipped.                *)
Receive(r) ==
    /\ HasTurn(r) /\ req[r].pc = "wait" /\ inbox # <<>>
    /\ inbox' = Tail(inbox)
    /\ CASE Head(inbox).kind = "junk" -> Return(r, 0) /\ SetError
         [] Answers(Head(inbox), r) ->
              /\ Return(r, IF Head(inbox).kind = "response" THEN Head(inbox).id ELSE 0)
              /\ UNCHANGED client
         [] OTHER -> UNCHANGED <<req, turnOf, client>>
    /\ UNCHANGED <<wire, server, reg>>

(* End of file, a transport closed under the caller, or no HTTP body.      *)
ReceiveNothing(r) ==
    /\ HasTurn(r) /\ req[r].pc = "wait" /\ inbox = <<>>
    /\ wire = "http" \/ ~server.up
    /\ Return(r, 0) /\ SetError
    /\ UNCHANGED <<wire, inbox, server, reg>>

(* Faulty variant: only the caller's own context ends the wait.            *)
ExpireUnlimited(r) ==
    /\ HasTurn(r) /\ req[r].pc = "wait" /\ wire = "stdio" /\ req[r].cancelled
    /\ Return(r, 0) /\ Disconnect
    /\ UNCHANGED <<wire, reg>>

(* The request's time limit, or the end of the caller's context: the       *)
(* transport is closed, since an answer may still come.                    *)
Expire(r) ==
    /\ HasTurn(r) /\ req[r].pc = "wait" /\ wire = "stdio"
    /\ Return(r, 0) /\ Disconnect
    /\ UNCHANGED <<wire, reg>>

(* pingLoop: a tick asks; the loop ends with its context, when the client  *)
(* is not connected, and on a ping that fails.                             *)
PingTick ==
    /\ client.ping = "ticking" /\ client.pings < MaxPings
    /\ IF client.state # "connected"
       THEN client' = [client EXCEPT !.ping = "ended"] /\ UNCHANGED <<req, turnOf>>
       ELSE /\ client' = [client EXCEPT !.ping = "asking", !.pings = @ + 1]
            /\ req' = [req EXCEPT !["ping"] = [Idle EXCEPT !.pc = "queued"]]
            /\ turnOf' = Append(turnOf, "ping")
    /\ UNCHANGED <<wire, inbox, server, reg>>

PingStops ==
    /\ client.ping = "ticking" /\ client.stopped
    /\ client' = [client EXCEPT !.ping = "ended"]
    /\ UNCHANGED <<wire, req, turnOf, inbox, server, reg>>

PingReturns ==
    /\ client.ping = "asking" /\ req["ping"].pc = "returned"
    /\ client' = IF req["ping"].got # 0 THEN [client EXCEPT !.ping = "ticking"]
                 ELSE [client EXCEPT !.ping = "ended", !.state = "error"]
    /\ req' = [req EXCEPT !["ping"] = Idle]
    /\ UNCHANGED <<wire, turnOf, inbox, server, reg>>

(* disconnectMCP, on Reset and Shutdown.                                   *)
DropClient ==
    /\ reg = "ready" /\ client.transport
    /\ Disconnect
    /\ UNCHANGED <<wire, req, turnOf, reg>>

(* The server answers a request it has, once or again later; the process   *)
(* also writes what nobody asked for, and may end.                         *)
ServerAnswers ==
    /\ server.up /\ wire = "stdio"
    /\ \E i \in server.asked, k \in {"response", "error"}, again \in BOOLEAN :
         /\ again => server.noise < MaxNoise
         /\ inbox' = Append(inbox, Msg(k, i))
         /\ server' = [server EXCEPT !.asked = IF again THEN @ ELSE @ \ {i},
                                     !.noise = IF again THEN @ + 1 ELSE @]
    /\ UNCHANGED <<wire, client, req, turnOf, reg>>

HttpInitialized ==
    /\ wire = "http" /\ reg = "initialize" /\ inbox = <<>> /\ 1 \in server.asked
    /\ \E k \in {"response", "error"} : inbox' = <<Msg(k, 1)>>
    /\ server' = [server EXCEPT !.asked = @ \ {1}]
    /\ UNCHANGED <<wire, client, req, turnOf, reg>>

ServerNoise ==
    /\ server.up /\ wire = "stdio" /\ server.noise < MaxNoise
    /\ \E k \in {"note", "junk"} : inbox' = Append(inbox, Msg(k, 0))
    /\ server' = [server EXCEPT !.noise = @ + 1]
    /\ UNCHANGED <<wire, client, req, turnOf, reg>>

ServerEnds ==
    /\ server.up /\ wire = "stdio"
    /\ server' = [server EXCEPT !.up = FALSE, !.asked = {}]
    /\ UNCHANGED <<wire, client, req, turnOf, inbox, reg>>

CallerStep(r) == Send(r) \/ Post(r) \/ Receive(r) \/ ReceiveNothing(r)

McpNext ==
    \/ Connect \/ ConnectFails \/ Initialize \/ InitializeFails \/ Discover \/ DropClient
    \/ \E c \in McpCalls : CallTool(c) \/ ReadResource(c) \/ ListResources(c) \/ CancelCall(c)
    \/ \E r \in Callers : CallerStep(r) \/ Expire(r)
    \/ PingTick \/ PingStops \/ PingReturns
    \/ ServerAnswers \/ HttpInitialized \/ ServerNoise \/ ServerEnds

(***************************************************************************)
(* Every MCP call returns, whatever the server answers: none waits forever *)
(* for an answer, or behind another call or a ping that does.  A behaviour *)
(* has finitely many calls: in the end none is under way.  Writing the     *)
(* request is taken to return: StdioTransport.Send has no deadline, and a  *)
(* server that stops reading a full pipe can hold it.                      *)
(***************************************************************************)
McpCallsReturn == <>[](\A c \in McpCalls : req[c].pc \in {"none", "returned"})
=============================================================================
