-------------------------- MODULE MCRuleExecution --------------------------
(***************************************************************************)
(* Values for RuleExecution: two configured queries and one that templates  *)
(* mention but the configuration lacks; a rule that updates the alert and    *)
(* describes an annotation from both queries, a rule that only updates the   *)
(* alert, one that mentions the missing query, and one that needs no query.  *)
(* Begin chooses which of them match.                                       *)
(***************************************************************************)
EXTENDS RuleExecutionProofs

CONSTANTS q1, q2, q3, both, alertOnly, dangling, plain, svc

MCQueries == {q1, q2, q3}
MCConfigured == {q1, q2}
MCRules == {both, alertOnly, dangling, plain}
MCUpdatesAlert == {both, alertOnly, plain}
MCAnnotates == {both, dangling, plain}
MCDescribes == {both, dangling}
MCMemoDeps == [r \in MCRules |->
                 IF r = both THEN {q1, q2} ELSE IF r = alertOnly THEN {q2} ELSE {}]
MCDescDeps == [r \in MCRules |->
                 IF r = both THEN {q1} ELSE IF r = dangling THEN {q3} ELSE {}]
MCServices == {svc}
MCServiceOf == [r \in MCAnnotates |-> svc]
MCMayFail == {both, plain}
=============================================================================
