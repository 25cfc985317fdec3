---------------------------- MODULE MCSourceRun ----------------------------
(* Instances of SourceRun for TLC. *)
EXTENDS SourceRun, TLC

CONSTANTS a1, a2, w1, w2, r1, r2

OneActor == {a1}
TwoActors == {a1, a2}
TwoWorkers == {w1, w2}
OneRun == {r1}
TwoRuns == {r1, r2}

Interchangeable ==
  Permutations(Actor) \cup Permutations(Worker) \cup Permutations(Run)

Born == {r \in Run : run[r].status # "UNBORN"}

\* Two slices of one instance instead of their product: one run that members and
\* processes contend for (the third generation among the jobs of its own member
\* only), or two runs and two drafts in the hands of one member
\* and one process.
Contended ==
  /\ Cardinality(Born) <= 1 /\ draftRevision <= 1
  /\ \A r \in Born :
       /\ run[r].directory
       /\ \/ run[r].generation <= 2
          \/ asked = [w \in Worker |-> {}] /\ maintainers = {run[r].actorId}
Retried ==
  /\ Cardinality(maintainers \cup {run[r].actorId : r \in Born}) <= 1
  /\ Cardinality(running \cup spent) <= 1
  /\ \A r \in Born : run[r].generation <= 1 /\ ~run[r].directory

Slice == Contended \/ Retried
=============================================================================
