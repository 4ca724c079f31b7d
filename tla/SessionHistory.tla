---------------------------- MODULE SessionHistory ----------------------------
(***************************************************************************)
(* The history of a session (sessionmemory/store.go): messages are stored  *)
(* as they are observed, and a worker turns every Interval user turns into *)
(* one commit, a summary of them that later requests may look up.  Old     *)
(* commits and messages are evicted.                                       *)
(*                                                                         *)
(* A message stands for what one observation adds to a turn: a turn is     *)
(* observed after each round of its tools and at its end.  Clear numbers   *)
(* the turns from 1 again, over the same rows.  The queue of jobs and the  *)
(* mark up to which they were queued are lost with the process; the rows   *)
(* are not.                                                                *)
(***************************************************************************)
EXTENDS Integers, FiniteSets, Sequences, SequencesExt, FiniteSetsExt

CONSTANTS
    Interval,           \* CommitInterval (5)
    QueueSize,          \* capacity of the job channel (256)
    MaxMessages,        \* bound on the messages of a behaviour
    MaxRows             \* commits that Evict keeps

VARIABLES
    observed,           \* every message [no, turn] that was stored
    stored,             \* those that are stored still
    late,               \* those of a turn that was read for its commit before
    turnNow,            \* UserTurnCount of the conversation
    lastCommitted,      \* meta row: last_committed_user_turn
    commits,            \* the commits: the messages of each
    covered,            \* messages that some commit has summarised
    seen,               \* what the observer read before it queues: [turn, last]
    jobs,               \* the worker's channel of [from, to]
    queuedEnd,          \* the worker's mark, or -1 when there is no worker
    working,            \* the job in hand [at, job, read]
    mishaps             \* failures, restarts and clears left

historyVars == <<observed, stored, late, turnNow, lastCommitted, commits, covered, seen, jobs,
                 queuedEnd, working, mishaps>>
rows == <<observed, stored, late, lastCommitted, commits, covered>>

NoJob == [at |-> "idle", job |-> [from |-> 0, to |-> 0], read |-> {}]
Unseen == [turn |-> 0, last |-> 0]
HistoryInit(m) ==
    /\ observed = {} /\ stored = {} /\ late = {} /\ turnNow = 0 /\ lastCommitted = 0
    /\ commits = {} /\ covered = {}
    /\ seen = Unseen /\ jobs = <<>> /\ queuedEnd = -1 /\ working = NoJob /\ mishaps = m

Turns(msgs) == {m.turn : m \in msgs}

(* What the journal has gained is stored: the first messages of a new turn *)
(* or more of the present one.  The last turn stored and the last one      *)
(* committed are read, with which the queue is extended; an observation    *)
(* that fails before it queues is followed by the next one.                *)
ObserveEvents ==
    /\ Cardinality(observed) < MaxMessages
    /\ \E t \in {turnNow, turnNow + 1} \ {0} :
         LET m == [no |-> Cardinality(observed) + 1, turn |-> t]
         IN  /\ turnNow' = t
             /\ observed' = observed \cup {m} /\ stored' = stored \cup {m}
             /\ late' = IF t <= Max({lastCommitted, working.job.to})
                          THEN late \cup {m} ELSE late
             /\ seen' = [turn |-> Max(Turns(stored')), last |-> lastCommitted]
    /\ UNCHANGED <<lastCommitted, commits, covered, jobs, queuedEnd, working, mishaps>>

(* The whole intervals after the mark, as far as the channel has room      *)
(* (every caller has force = false).  A worker that is not there starts    *)
(* from the mark that was read.                                            *)
enqueue ==
    /\ seen # Unseen
    /\ LET mark == Max({queuedEnd, seen.last})
           full == Max({0, (seen.turn - mark) \div Interval})
           all  == [k \in 1..full |-> [from |-> mark + (k - 1) * Interval + 1,
                                       to   |-> mark + k * Interval]]
           new  == SubSeq(all, 1, Min({Len(all), QueueSize - Len(jobs)}))
       IN /\ jobs' = jobs \o new
          /\ queuedEnd' = IF new = <<>> THEN mark ELSE new[Len(new)].to
    /\ seen' = Unseen
    /\ UNCHANGED <<rows, turnNow, working, mishaps>>

(* The worker takes a job and reads the messages of its range, which are   *)
(* then summarised.                                                        *)
takeJob ==
    /\ jobs # <<>> /\ working.at = "idle"
    /\ LET j == Head(jobs)
       IN  working' = [at |-> "commit", job |-> j, read |-> {m \in stored : m.turn \in j.from..j.to}]
    /\ jobs' = Tail(jobs)
    /\ UNCHANGED <<rows, turnNow, seen, queuedEnd, mishaps>>

(* The summary is committed in one transaction; a range with nothing       *)
(* stored leaves everything as it is.                                      *)
CommitRange ==
    /\ working.at = "commit"
    /\ working' = [working EXCEPT !.at = "evict"]
    /\ IF working.read = {}
         THEN UNCHANGED <<lastCommitted, commits, covered>>
         ELSE /\ commits' = commits \cup {working.read}
              /\ covered' = covered \cup working.read
              /\ lastCommitted' = working.job.to
    /\ UNCHANGED <<observed, stored, late, turnNow, seen, jobs, queuedEnd, mishaps>>

(* The commits that were not looked up for the longest time go, and so may *)
(* messages of committed turns that no commit refers to.                   *)
Evict ==
    /\ working.at = "evict"
    /\ working' = NoJob
    /\ \E gone \in kSubset(Max({0, Cardinality(commits) - MaxRows}), commits) :
         /\ commits' = commits \ gone
         /\ \E old \in SUBSET {m \in stored \ UNION commits' : m.turn <= lastCommitted} :
              stored' = stored \ old
    /\ UNCHANGED <<observed, late, turnNow, lastCommitted, covered, seen, jobs, queuedEnd, mishaps>>

(* Faulty variant: after a failure the worker goes on with the next job.   *)
commitFailsAndGoesOn ==
    /\ working.at # "idle" /\ mishaps > 0
    /\ mishaps' = mishaps - 1 /\ working' = NoJob
    /\ UNCHANGED <<rows, turnNow, seen, jobs, queuedEnd>>

(* Committing or evicting fails: the worker is gone with the jobs it still *)
(* had, and the next turn observed starts another.                         *)
commitFails ==
    /\ working.at # "idle" /\ mishaps > 0
    /\ mishaps' = mishaps - 1 /\ working' = NoJob
    /\ jobs' = <<>> /\ queuedEnd' = -1
    /\ UNCHANGED <<rows, turnNow, seen>>

ProcessRestarts ==
    /\ mishaps > 0
    /\ mishaps' = mishaps - 1 /\ working' = NoJob /\ seen' = Unseen
    /\ jobs' = <<>> /\ queuedEnd' = -1
    /\ UNCHANGED <<rows, turnNow>>

(* Clear: AgentRuntime.Reset begins a conversation with no turns, and the  *)
(* rows, the worker and its mark stay.                                     *)
ClearTurns ==
    /\ mishaps > 0 /\ turnNow > 0
    /\ mishaps' = mishaps - 1 /\ turnNow' = 0
    /\ UNCHANGED <<rows, seen, jobs, queuedEnd, working>>

HistoryNext ==
    \/ ObserveEvents \/ enqueue \/ takeJob \/ CommitRange \/ Evict
    \/ commitFails \/ ProcessRestarts \/ ClearTurns
=============================================================================
