------------------------------- MODULE CallOnce -------------------------------
(* What F003 promises about the model calls of an investigation: a task is   *)
(* sent to a model once for each basis it is worked on; it is sent again     *)
(* only after it is known that it failed, and a member asked again.  A call  *)
(* whose end nobody knows, and one that succeeded, is never repeated.        *)

CONSTANTS Piece   \* a task on one basis

VARIABLES phase   \* phase[k]: how far the piece got

Init == phase = [k \in Piece |-> "idle"]

Send(k) ==
  /\ phase[k] \in {"idle", "asked"}
  /\ phase' = [phase EXCEPT ![k] = "sent"]

Settle(k) ==
  /\ phase[k] = "sent"
  /\ \E end \in {"settled", "failed"} : phase' = [phase EXCEPT ![k] = end]

\* A member resumes the investigation: all that failed may be tried again.
AskAgain ==
  phase' = [k \in Piece |-> IF phase[k] = "failed" THEN "asked" ELSE phase[k]]

Next == (\E k \in Piece : Send(k) \/ Settle(k)) \/ AskAgain

Spec == Init /\ [][Next]_phase
=============================================================================
