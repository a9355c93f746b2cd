--------------------------- MODULE MCAlertUpdate ---------------------------
(***************************************************************************)
(* Values for AlertUpdate: the handlers report for distinct rules.          *)
(***************************************************************************)
EXTENDS AlertUpdate, TLC

MCRules == Handlers
MCRuleOf == [h \in Handlers |-> h]

\* Handlers and the rules they stand for are alike, and so are processes.
Alike == Permutations(Handlers) \cup Permutations(Processes) \cup Permutations(Notes)
=============================================================================
