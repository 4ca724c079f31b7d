--------------------------- MODULE MCTeamSession ---------------------------
(* TeamSession with a leader, a gate agent and a specialist.               *)
EXTENDS TeamSession

CONSTANTS r1, r2, d1, d2, lead, qa, dev

Policy(targets, denied, exclusive) ==
    [targets |-> targets, beforeContract |-> FALSE, requiresContract |-> FALSE, exclusive |-> exclusive,
     audit |-> denied # {}, denied |-> denied, allowed |-> {}]
ContractFirst == [Policy({qa}, {"code"}, FALSE) EXCEPT !.requiresContract = TRUE]
PlanFirst == [Policy({dev}, {}, FALSE) EXCEPT !.beforeContract = TRUE, !.allowed = {"plan"}]

Quiet == [loops |-> {r1}, jobs |-> {d1, d2}, policies |-> {}, expects |-> {{}}, routes |-> {}, writers |-> {},
          present |-> {}, asks |-> {},
          contracts |-> {}, verdicts |-> {}, awaits |-> {TRUE}, texts |-> {TRUE}, parallel |-> 1,
          waits |-> TRUE, panics |-> FALSE, aborts |-> FALSE, releases |-> FALSE, restarts |-> FALSE]

(* One item proves the first test, another says that all tests pass.       *)
TestCovers == [i \in Items |-> IF i = "one" THEN {"t1"} ELSE {"t1", "t2"}]

Verdict(s, one, all, blocks) ==
    [status |-> s, evidence |-> [i \in Items |-> IF i = "one" THEN one ELSE all], blocking |-> blocks]

(* A contract that asks for a test and for the gate itself; the other test *)
(* may be optional.                                                        *)
Contract(required) ==
    [artifacts |-> {"code"}, checks |-> {"t1", "t2", "qa"}, required |-> required \cup {"qa"}]

(* A contract, a specialist that writes, a gate that judges, a completion. *)
Gated == [Quiet EXCEPT !.policies = {ContractFirst, PlanFirst}, !.routes = {<<lead, qa>>, <<lead, dev>>},
                       !.writers = {dev}, !.expects = {{"plan"}}, !.restarts = TRUE,
                       !.contracts = {Contract({"t1"}), Contract({"t2"})},
                       !.verdicts = {Verdict("pass", "pass", "none", FALSE),
                                     Verdict("pass", "none", "pass", FALSE),
                                     Verdict("pass", "pass", "pass", TRUE),
                                     Verdict("waived", "none", "none", FALSE),
                                     Verdict("fail", "pass", "none", FALSE)}]

(* Members with exclusive workspace, each forbidden a file.                *)
Exclusive == [Quiet EXCEPT !.policies = {Policy({qa}, {"code"}, TRUE), Policy({dev}, {"plan"}, TRUE)},
                           !.routes = {<<lead, qa>>, <<lead, dev>>}, !.writers = {qa, dev},
                           !.parallel = 2, !.texts = BOOLEAN, !.panics = TRUE]

(* Aborts and resubmits while a member waits for a permission.             *)
Aborted == [Quiet EXCEPT !.loops = {r1, r2}, !.jobs = {d1}, !.routes = {<<lead, dev>>}, !.asks = {dev},
                         !.aborts = TRUE]

(* A run is aborted while its completion is on the way, and another one    *)
(* begins.                                                                 *)
Resubmitted == [Quiet EXCEPT !.loops = {r1, r2}, !.jobs = {d1}, !.routes = {<<lead, qa>>}, !.aborts = TRUE,
                             !.present = {"code"}, !.contracts = {Contract({"t1"})},
                             !.verdicts = {Verdict("pass", "pass", "none", FALSE)}]

(* Members that send messages themselves, to the leader too.               *)
Nested == [Quiet EXCEPT !.routes = {<<lead, dev>>, <<dev, qa>>, <<dev, lead>>, <<lead, lead>>},
                        !.awaits = BOOLEAN, !.waits = FALSE, !.releases = TRUE]

AllScenes == {Gated, Exclusive, Aborted, Resubmitted, Nested}
=============================================================================
