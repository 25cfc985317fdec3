----------------------------- MODULE SourceFreeze -----------------------------
(* What the review and freeze of one capture run promise (INV-03, INV-04,   *)
(* INV-08 of the F001 specification): members decide, the last decision      *)
(* counts, and it is published at most once, while it is valid, with         *)
(* authority, and never after the run ended otherwise.                       *)
EXTENDS Naturals

CONSTANTS MaxDecision   \* bound: decisions of one run

VARIABLES
  decisions,   \* how many decisions members took
  valid,       \* the last decision may be published now
  published,   \* the decision that was published, 0 if none
  over         \* the run ended without a publication

vars == <<decisions, valid, published, over>>

Init == decisions = 0 /\ valid \in BOOLEAN /\ published = 0 /\ over = FALSE

Undecided == published = 0 /\ ~over

\* Grants, expiry and the barrier change what may be published.
Change == valid' \in BOOLEAN /\ UNCHANGED <<decisions, published, over>>

Decide ==
  /\ Undecided
  /\ decisions < MaxDecision
  /\ decisions' = decisions + 1
  /\ valid' \in BOOLEAN
  /\ UNCHANGED <<published, over>>

Publish ==
  /\ Undecided
  /\ decisions > 0 /\ valid
  /\ published' = decisions
  /\ UNCHANGED <<decisions, valid, over>>

End ==
  /\ Undecided
  /\ over' = TRUE
  /\ UNCHANGED <<decisions, valid, published>>

Next == Change \/ Decide \/ Publish \/ End

Spec == Init /\ [][Next]_vars
=============================================================================
