--------------------------- MODULE MCTaskRuntime ---------------------------
(* TaskRuntime with two workers.                                           *)
EXTENDS TaskRuntime

CONSTANTS t1, t2

(* A sub-agent and its workers spawn workers while its scope is cleaned up. *)
Scoped == [imported |-> {}, callers |-> {"fg", t1, t2}, waits |-> {}, sends |-> 0, resets |-> 0]

(* Workers of the main agent, reused and nested, across a Reset.           *)
Resets == [imported |-> {}, callers |-> {"main", t1}, waits |-> {}, sends |-> 1, resets |-> 1]

(* The main agent waits for a new and a restored worker.                   *)
Waits == [imported |-> {t2}, callers |-> {"main"}, waits |-> {{t1}, {t1, t2}},
          sends |-> 1, resets |-> 0]

AllUses == {Scoped, Resets, Waits}
=============================================================================
