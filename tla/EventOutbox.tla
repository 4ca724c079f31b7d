----------------------------- MODULE EventOutbox -----------------------------
(***************************************************************************)
(* How the durable events of a session reach the connections of a cluster. *)
(* An append writes an outbox row in the transaction of the event.  The    *)
(* owner pushes the event to its own subscribers and relays it to the      *)
(* other instances; every instance also claims rows, publishes them and    *)
(* marks them (session/postgres_repository.go, backend/event_relay.go,     *)
(* event_hub.go, cluster_router.go, cluster/redis.go).  The same event     *)
(* therefore arrives at a hub on up to three ways, and the hub remembers   *)
(* which ones it has pushed.                                               *)
(***************************************************************************)
EXTENDS Integers, Sequences, FiniteSets, SequencesExt

CONSTANTS
    Instances,
    MaxEvents,     \* events of the session
    QueueMax,      \* the relay's queue of live events (1024)
    ClaimLimit,    \* rows of one claim (100)
    SeenLimits,    \* how many events a hub may remember (4096)
    MaxFaults      \* crashes, failed publications and claims that run out too early

VARIABLES
    owner,    \* the instance that runs the session
    row,      \* outbox row of each event: "none", "pending", "published"
    claim,    \* [by, live]: who claimed the row, and whether the claim still holds
    batch,    \* rows an instance has claimed and not yet handled
    sent,     \* the row an instance has published and not yet marked, or 0
    queue,    \* the relay's queue of an instance
    bus,      \* notifications on their way to an instance
    seen,     \* what the hub of an instance remembers, oldest first
    at,       \* the instance the client is connected to
    log,      \* what its present connection has received
    faults,   \* faults so far
    seenLimit \* how many events the hubs remember

outboxVars == <<owner, row, claim, batch, sent, queue, bus, seen, at, log, faults, seenLimit>>
Events == 1..MaxEvents
Unclaimed == [by |-> "nobody", live |-> FALSE]

OutboxInit ==
    /\ owner \in Instances
    /\ row = [e \in Events |-> "none"] /\ claim = [e \in Events |-> Unclaimed]
    /\ batch = [i \in Instances |-> <<>>] /\ sent = [i \in Instances |-> 0]
    /\ queue = [i \in Instances |-> <<>>] /\ bus = [i \in Instances |-> <<>>]
    /\ seen = [i \in Instances |-> <<>>]
    /\ at \in Instances /\ log = <<>> /\ faults = 0 /\ seenLimit \in SeenLimits

(* EventHub.Publish: an event the hub remembers goes nowhere.              *)
(* Faulty variant: the hub does not remember what it pushes. *)
ForgetfulPublish(i, e) ==
    /\ UNCHANGED seen
    /\ log' = IF at = i THEN Append(log, e) ELSE log
HubPublish(i, e) ==
    IF e \in ToSet(seen[i]) THEN UNCHANGED <<seen, log>>
    ELSE /\ seen' = [seen EXCEPT ![i] = IF Len(@) >= seenLimit THEN Append(Tail(@), e)
                                        ELSE Append(@, e)]
         /\ log' = IF at = i THEN Append(log, e) ELSE log
(* Redis Pub/Sub: the subscribers of the moment, in order.  An instance    *)
(* skips its own notifications.                                            *)
Notify(i, e) == bus' = [j \in Instances |-> IF j = i THEN bus[j] ELSE Append(bus[j], e)]

(* PostgresRuntimeStore.Append, then EventRelay.Publish: a full queue      *)
(* drops the live copy.                                                    *)
AppendEvent ==
    /\ \E e \in Events :
         /\ row[e] = "none" /\ \A f \in Events : f < e => row[f] # "none"
         /\ row' = [row EXCEPT ![e] = "pending"]
         /\ HubPublish(owner, e)
         /\ queue' = IF Len(queue[owner]) < QueueMax THEN [queue EXCEPT ![owner] = Append(@, e)]
                     ELSE queue
    /\ UNCHANGED <<owner, claim, batch, sent, bus, at, faults>>
(* EventRelay.run: a publication that fails is given up.                   *)
RelayRun(i, fails) ==
    /\ queue[i] # <<>>
    /\ queue' = [queue EXCEPT ![i] = Tail(@)]
    /\ fails => faults < MaxFaults
    /\ faults' = IF fails THEN faults + 1 ELSE faults
    /\ IF fails THEN UNCHANGED bus ELSE Notify(i, Head(queue[i]))
    /\ UNCHANGED <<owner, row, claim, batch, sent, seen, at, log>>
(* watchSession: what others published.                                    *)
Watch(i) ==
    /\ bus[i] # <<>>
    /\ bus' = [bus EXCEPT ![i] = Tail(@)]
    /\ HubPublish(i, Head(bus[i]))
    /\ UNCHANGED <<owner, row, claim, batch, sent, queue, at, faults>>

(* Faulty variant: a claim that was made once is never made again. *)
ClaimableOnce == {e \in Events : row[e] = "pending" /\ claim[e].by = "nobody"}
Claimable == {e \in Events : row[e] = "pending" /\ ~claim[e].live}
(* ClaimOutbox: the oldest rows that nobody holds.                         *)
ClaimOutbox(i) ==
    /\ batch[i] = <<>> /\ sent[i] = 0 /\ Claimable # {}
    /\ LET oldest == SetToSortSeq(Claimable, LAMBDA a, b : a < b)
           taken == SubSeq(oldest, 1, IF Len(oldest) < ClaimLimit THEN Len(oldest) ELSE ClaimLimit)
       IN  /\ batch' = [batch EXCEPT ![i] = taken]
           /\ claim' = [e \in Events |-> IF e \in ToSet(taken) THEN [by |-> i, live |-> TRUE]
                                         ELSE claim[e]]
    /\ UNCHANGED <<owner, row, sent, queue, bus, seen, at, log, faults>>
(* outboxLoop: a row is pushed here and to the others; where Redis fails   *)
(* the row keeps its claim until that runs out.                            *)
OutboxPublish(i, fails) ==
    /\ batch[i] # <<>> /\ sent[i] = 0
    /\ batch' = [batch EXCEPT ![i] = Tail(@)]
    /\ HubPublish(i, Head(batch[i]))
    /\ fails => faults < MaxFaults
    /\ faults' = IF fails THEN faults + 1 ELSE faults
    /\ IF fails THEN UNCHANGED <<bus, sent>>
       ELSE Notify(i, Head(batch[i])) /\ sent' = [sent EXCEPT ![i] = Head(batch[i])]
    /\ UNCHANGED <<owner, row, claim, queue, at>>
(* MarkOutboxPublished: only for rows that are still this instance's.      *)
MarkOutboxPublished(i) ==
    /\ sent[i] # 0 /\ sent' = [sent EXCEPT ![i] = 0]
    /\ IF claim[sent[i]].by = i
       THEN row' = [row EXCEPT ![sent[i]] = "published"] /\ claim' = [claim EXCEPT ![sent[i]] = Unclaimed]
       ELSE UNCHANGED <<row, claim>>
    /\ UNCHANGED <<owner, batch, queue, bus, seen, at, log, faults>>
(* The lease of 30 seconds runs out, seldom on an instance that is at work *)
(* on the row.                                                             *)
ClaimExpires(e) ==
    /\ claim[e].live /\ claim' = [claim EXCEPT ![e].live = FALSE]
    /\ LET i == claim[e].by
           early == e \in ToSet(batch[i]) \/ sent[i] = e
       IN  /\ early => faults < MaxFaults
           /\ faults' = IF early THEN faults + 1 ELSE faults
    /\ UNCHANGED <<owner, row, batch, sent, queue, bus, seen, at, log>>

(* An instance dies and starts again: its memory is gone, and the client   *)
(* has to connect anew.                                                    *)
Crash(i) ==
    /\ faults < MaxFaults /\ faults' = faults + 1
    /\ batch' = [batch EXCEPT ![i] = <<>>] /\ sent' = [sent EXCEPT ![i] = 0]
    /\ queue' = [queue EXCEPT ![i] = <<>>] /\ bus' = [bus EXCEPT ![i] = <<>>]
    /\ seen' = [seen EXCEPT ![i] = <<>>]
    /\ owner' \in (IF owner = i THEN Instances ELSE {owner})
    /\ IF at = i THEN at' \in Instances /\ log' = <<>> ELSE UNCHANGED <<at, log>>
    /\ UNCHANGED <<row, claim>>

OutboxStep(i) ==
    \/ ClaimOutbox(i) \/ (\E fails \in BOOLEAN : OutboxPublish(i, fails)) \/ MarkOutboxPublished(i)
OutboxNext ==
    /\ UNCHANGED seenLimit
    /\ \/ AppendEvent
       \/ \E i \in Instances :
            \/ (\E fails \in BOOLEAN : RelayRun(i, fails)) \/ Watch(i) \/ OutboxStep(i) \/ Crash(i)
       \/ \E e \in Events : ClaimExpires(e)

(* However often an event is relayed, claimed again after a crash or       *)
(* notified by another instance, a connection receives it once; it could   *)
(* come again only when the hub has pushed more events since than it       *)
(* remembers (EventHub.Publish).                                           *)
OncePerConnection ==
    \A j \in DOMAIN log : \A k \in 1..(j - 1) :
        log[k] = log[j] => Cardinality({log[m] : m \in (k + 1)..(j - 1)}) >= seenLimit

(* Every event that is in the journal is published to the cluster in the   *)
(* end: whichever instance crashes between claiming, publishing and        *)
(* marking its row, the outbox empties (ClaimOutbox, outboxLoop).  A       *)
(* behaviour has finitely many events: in the end none is pending.         *)
OutboxDrains == <>[](\A e \in Events : row[e] # "pending")
=============================================================================
