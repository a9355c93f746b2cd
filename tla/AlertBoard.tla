----------------------------- MODULE AlertBoard -----------------------------
(***************************************************************************)
(* What the memo of an alert is to those who read and write it: something     *)
(* that people wrote above, what the rules reported, and something that       *)
(* people wrote below.  An execution reports for its rules, and takes nothing *)
(* from the others or from the people; unless the board is full: then what is *)
(* furthest below goes first.                                               *)
(***************************************************************************)
EXTENDS Naturals, SequencesExt

CONSTANTS Names, Limit

Nothing == <<>>

VARIABLES
  above, below,  \* what people wrote
  shown,         \* what each rule reported last
  due,           \* what an execution is to report, and of which rules
  used           \* how much of the board is taken

vars == <<above, below, shown, due, used>>

Init ==
  /\ above = <<>>
  /\ shown = [r \in Names |-> Nothing]
  /\ below = <<>>
  /\ DOMAIN due = {}
  /\ used = 0

\* An execution makes up its mind what it has to report, or gives up.
Resolve == UNCHANGED <<above, shown, below, used>>

Reported == [r \in Names |-> IF r \in DOMAIN due THEN due[r] ELSE shown[r]]

Report ==
  /\ shown' = Reported
  /\ UNCHANGED <<above, below, due>>

\* A text of which only the beginning, or nothing, was left.
Shortens(new, old) ==
  new = old \/ new = Nothing \/ IsPrefix(Front(new), old)

\* The board is too small: what is below goes first, then sections go, the last
\* one maybe in part.  Of what is above goes nothing that fits.
ReportCut ==
  /\ used' = Limit
  /\ \A i \in DOMAIN above : i < Limit => i \in DOMAIN above' /\ above'[i] = above[i]
  /\ \A r \in Names : Shortens(shown'[r], Reported[r])
  /\ \A r, q \in Names :
       r # q /\ shown'[r] \notin {Nothing, Reported[r]} => shown'[q] \in {Nothing, Reported[q]}
  /\ below' # Nothing => shown' = Reported
  /\ Shortens(below', below)
  /\ UNCHANGED due

\* People write on the board, too.
Write ==
  /\ IsSuffix(above, above')
  /\ IsPrefix(below, below')
  /\ UNCHANGED <<shown, due>>

Next == Resolve \/ Report \/ ReportCut \/ Write

Spec == Init /\ [][Next]_vars
=============================================================================
