------------------------------- MODULE Report -------------------------------
(***************************************************************************)
(* What one execution of the rules promises to whoever reads the alert     *)
(* memo.  A fact is a pair of a rule and something its memo section must    *)
(* tell: that the section is there at all, or the result of one query.     *)
(* Facts may appear in any number of publications and in any order, but a   *)
(* published fact is never taken back, and the execution may call itself a  *)
(* success only when every fact it owed has been published.                 *)
(***************************************************************************)
CONSTANT Facts

VARIABLES needed, shown, outcome

vars == <<needed, shown, outcome>>

Init ==
  /\ needed = {}
  /\ shown = {}
  /\ outcome = "none"

\* The webhook is matched against the rules: what will be owed is fixed once.
Start ==
  /\ outcome = "none"
  /\ needed = {}
  /\ shown = {}
  /\ needed' \in SUBSET Facts
  /\ UNCHANGED <<shown, outcome>>

Publish ==
  /\ outcome = "none"
  /\ shown' \in SUBSET needed
  /\ shown \subseteq shown'
  /\ UNCHANGED <<needed, outcome>>

Succeed ==
  /\ outcome = "none"
  /\ shown = needed
  /\ outcome' = "ok"
  /\ UNCHANGED <<needed, shown>>

\* The last publication may get through and still be reported as a failure.
Fail ==
  /\ outcome = "none"
  /\ outcome' = "error"
  /\ shown' \in SUBSET needed
  /\ shown \subseteq shown'
  /\ UNCHANGED needed

Next == Start \/ Publish \/ Succeed \/ Fail

Spec == Init /\ [][Next]_vars
=============================================================================
