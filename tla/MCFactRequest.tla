---------------------------- MODULE MCFactRequest ----------------------------
(* Instances of FactRequest for TLC. *)
EXTENDS FactRequest, TLC

CONSTANTS p1, p2, s1, r1, r2, b1, b2

Interchangeable == Permutations(Process) \cup Permutations(Request) \cup Permutations(Batch)

Untouched(S) == \A s \in S : scope[s].status = "NONE"

\* Three slices of one instance instead of their product: ordinary scopes
\* alone, one request alone, or all requests in one process and one generation.
Slice ==
  \/ \A r \in Request : row[r].state = "NONE"
  \/ /\ Untouched(Ordinary)
     /\ Cardinality({r \in Request : row[r].state # "NONE"}) <= 1
  \/ /\ Untouched(Ordinary)
     /\ Cardinality({p \in Process : \E r \in Request : exec[p][r].pc # "idle"}) <= 1
     /\ \A r \in Request : row[r].generation <= 1

\* The scopes and requests of S are alive; the others were cancelled while they
\* waited.
Alive(S) ==
  /\ scope = [x \in Scope |-> IF x \in Ordinary \ S THEN [NoScope EXCEPT !.status = "CANCELLED"]
                              ELSE NoScope]
  /\ work = [p \in Process |-> [x \in Scope |-> NoWork]]
  /\ row = [r \in Request |-> IF r \in S THEN NoRequest ELSE [NoRequest EXCEPT !.state = "CANCELLED"]]
  /\ account = [reserved |-> 0, settled |-> 0]
  /\ consumer = TRUE
  /\ late = FALSE
  /\ exec = [p \in Process |-> [r \in Request |-> NoExecution]]
=============================================================================
