----------------------------- MODULE ModelStream -----------------------------
(***************************************************************************)
(* One streamed request to a model (api/retry.go, api/fallback.go and the  *)
(* clients of api/client.go): the attempts of a client with their backoff, *)
(* the provider's cooldown and exhausted quota, which all requests of the  *)
(* process share, and the switch from the primary to the fallback client.  *)
(*                                                                         *)
(* call[r] is the request that run r has in flight: the client it is at,   *)
(* the attempt, whether that attempt waits, is sent or is streaming,       *)
(* whether the primary has produced output, the attempts whose output the  *)
(* caller has, and the error the caller is given.                          *)
(***************************************************************************)
EXTENDS Integers, FiniteSets, Sequences

CONSTANTS
    Runs,
    MaxRetries,         \* RetryConfig.MaxRetries
    MaxLevel            \* the longest cooldown step (3)

VARIABLES
    call,
    cooling,            \* providers in their cooldown after a 429
    level,              \* how far the cooldown of each has been raised
    quota               \* providers whose quota is exhausted

streamVars == <<call, cooling, level, quota>>

Clients == {"primary", "fallback"}
Idle == [client |-> "none", attempt |-> 0, at |-> "idle", produced |-> FALSE,
         from |-> {}, error |-> "none"]
StartCall == [Idle EXCEPT !.client = "primary", !.at = "waiting"]

StreamInit ==
    /\ call = [r \in Runs |-> Idle]
    /\ cooling = {} /\ level = [c \in Clients |-> 0] /\ quota = {}

(* The errors a stream ends with.  "exhausted": the attempts were refused  *)
(* with 429, 503, 529 or failed in transport; "server": another status of  *)
(* 500 and above; "stream": the provider sent an error event; "cut": the   *)
(* stream broke off or stayed idle after the response had begun; "fatal":  *)
(* a wrong key or model; "long": the prompt is too long.                   *)
Errors == {"exhausted", "server", "stream", "cut", "fatal", "long", "quota"}

(* A broken or idle stream becomes an event that has only a message, which *)
(* fallbackEligibleEvent does not recognise.                               *)
fallbackEligibleEvent(e) == e \in {"exhausted", "server", "stream"}

(* An error reaches the client with fallback.                              *)
Fail(r, e) ==
    IF call[r].client = "primary" /\ ~call[r].produced /\ fallbackEligibleEvent(e)
      THEN call' = [call EXCEPT ![r] = [@ EXCEPT !.client = "fallback",
                                                 !.attempt = 0, !.at = "waiting"]]
      ELSE call' = [call EXCEPT ![r] = [@ EXCEPT !.at = "done", !.error = e]]

(* An attempt begins, unless the provider is known to be exhausted, and    *)
(* after its cooldown.                                                     *)
sendAttempt(r) ==
    /\ call[r].at = "waiting"
    /\ IF call[r].client \in quota
         THEN Fail(r, "quota")
         ELSE /\ call[r].client \notin cooling
              /\ call' = [call EXCEPT ![r].at = "sent"]
    /\ UNCHANGED <<cooling, level, quota>>

(* The attempt is refused before any output: 429, 503, 529 or a transport  *)
(* failure.                                                                *)
refuseAttempt(r, limited) ==
    /\ call[r].at = "sent"
    /\ LET c == call[r].client IN
       /\ IF limited
            THEN /\ cooling' = cooling \cup {c}
                 /\ level' = [level EXCEPT ![c] = IF @ < MaxLevel THEN @ + 1 ELSE @]
            ELSE UNCHANGED <<cooling, level>>
       /\ IF call[r].attempt < MaxRetries
            THEN call' = [call EXCEPT ![r] = [@ EXCEPT !.attempt = @ + 1, !.at = "waiting"]]
            ELSE Fail(r, "exhausted")
    /\ UNCHANGED quota

(* A status that no retry can mend.                                        *)
rejectAttempt(r, e) ==
    /\ call[r].at = "sent" /\ e \in {"server", "fatal", "long", "quota"}
    /\ quota' = IF e = "quota" THEN quota \cup {call[r].client} ELSE quota
    /\ Fail(r, e)
    /\ UNCHANGED <<cooling, level>>

openStream(r) ==
    /\ call[r].at = "sent"
    /\ call' = [call EXCEPT ![r].at = "streaming"]
    /\ UNCHANGED <<cooling, level, quota>>

(* Text, thinking or a tool call reaches the caller.                       *)
produceOutput(r) ==
    /\ call[r].at = "streaming"
    /\ call' = [call EXCEPT ![r] =
                  [@ EXCEPT !.produced = @ \/ call[r].client = "primary",
                            !.from = @ \cup {<<call[r].client, call[r].attempt>>}]]
    /\ UNCHANGED <<cooling, level, quota>>

(* Faulty variant: a stream that breaks off is retried like a refusal.     *)
retryBrokenStream(r, e) ==
    /\ call[r].at = "streaming" /\ e \in {"cut", "stream"}
    /\ IF call[r].attempt < MaxRetries
         THEN call' = [call EXCEPT ![r] = [@ EXCEPT !.attempt = @ + 1, !.at = "waiting"]]
         ELSE Fail(r, e)
    /\ UNCHANGED <<cooling, level, quota>>

(* The stream breaks off, is idle too long, or carries an error event.     *)
breakStream(r, e) ==
    /\ call[r].at = "streaming" /\ e \in {"cut", "stream"}
    /\ Fail(r, e)
    /\ UNCHANGED <<cooling, level, quota>>

finishStream(r) ==
    /\ call[r].at = "streaming"
    /\ LET c == call[r].client IN
       /\ level' = [level EXCEPT ![c] = IF @ > 0 THEN @ - 1 ELSE 0]
       /\ cooling' = cooling \ {c}
    /\ call' = [call EXCEPT ![r].at = "done"]
    /\ UNCHANGED quota

cooldownEnds(c) ==
    /\ c \in cooling
    /\ cooling' = cooling \ {c}
    /\ UNCHANGED <<call, level, quota>>

(* The caller has cancelled: nothing more of the stream reaches anybody.   *)
cancelCall(r) == call' = [call EXCEPT ![r] = Idle]
=============================================================================
