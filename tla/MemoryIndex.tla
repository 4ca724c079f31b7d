---------------------------- MODULE MemoryIndex ----------------------------
(***************************************************************************)
(* What the fabric promises about raw evidence and the documents derived   *)
(* from it, whatever goroutines, failures and restarts lie between them:   *)
(* the ledger is the only truth, the index differs from it only for events *)
(* that are still marked for projection, and such a mark is removed only   *)
(* when the index agrees with the ledger about its event.                  *)
(***************************************************************************)
CONSTANT Events

VARIABLES
    ledger,   \* "none", "live" or "forgotten", by event
    indexed,  \* the events that have a document
    marked    \* the events whose projection is owed

contract == <<ledger, indexed, marked>>

Agrees(e) == (e \in indexed) <=> (ledger[e] = "live")

Init ==
    /\ ledger = [e \in Events |-> "none"]
    /\ indexed = {} /\ marked = {}

(* New evidence, or none new, is recorded and marked in one transaction.   *)
Record(S) ==
    /\ ledger' = [e \in Events |->
            IF e \in S /\ ledger[e] = "none" THEN "live" ELSE ledger[e]]
    /\ marked' \subseteq marked \cup S
    /\ \A e \in (marked \cup S) \ marked' : Agrees(e)'
    /\ UNCHANGED indexed

(* Evidence is forgotten, for good.                                        *)
Forget(S) ==
    /\ \A e \in S : ledger[e] # "none"
    /\ ledger' = [e \in Events |-> IF e \in S THEN "forgotten" ELSE ledger[e]]
    /\ marked' = marked \cup S
    /\ UNCHANGED indexed

(* The documents of marked events are rewritten.                           *)
Project ==
    /\ \A e \in Events : (e \in indexed) # (e \in indexed') => e \in marked
    /\ UNCHANGED <<ledger, marked>>

(* Marks go once the index agrees.                                         *)
Settle ==
    /\ marked' \subseteq marked
    /\ \A e \in marked \ marked' : Agrees(e)
    /\ UNCHANGED <<ledger, indexed>>

Next ==
    \/ \E S \in SUBSET Events : Record(S) \/ Forget(S)
    \/ Project
    \/ Settle

Contract == Init /\ [][Next]_contract
============================================================================
