------------------------- MODULE MCSourcePublication -------------------------
(* Instances of SourcePublication for TLC. *)
EXTENDS SourcePublication, FiniteSets, TLC

CONSTANTS a1, a2, w1, w2, k1, k2, t1, t2, x1, x2

OneActor == {a1}
TwoActors == {a1, a2}
OneWorker == {w1}
TwoWorkers == {w1, w2}
OneRequest == {k1}
TwoRequests == {k1, k2}
OneToken == {t1}
TwoTokens == {t1, t2}
OneAcceptance == {x1}
TwoAcceptances == {x1, x2}

Interchangeable ==
  Permutations(Actor \ {Starter}) \cup Permutations(Worker) \cup Permutations(Request)
    \cup Permutations(Token) \cup Permutations(Acceptance)

\* Two slices of one instance instead of their product: the processes and one
\* request of the member who started the run, over two acceptances and two
\* generations (an expiry or a second confirmation in the second); or two
\* requests of two members in one process, which has no job.
Alone ==
  /\ \/ run.generation <= 1
     \/ expired = {}
     \/ Latest <= 1
  /\ maintainers \subseteq {Starter}
  /\ \A c \in 1..Latest : confirmations[c].actor = Starter
  /\ \A k \in Call : calls[k].actor = Starter
  /\ Cardinality({k \in Request : calls[k] # Free}) <= 1
Together ==
  /\ expired = {} /\ run.generation <= 1
  /\ \A c \in 1..Latest : confirmations[c].acceptance = confirmations[1].acceptance
  /\ \A w \in Worker : calls[w] = Free
  /\ Cardinality(gone \cup ({calls[k].worker : k \in Request} \ {NoWorker})) <= 1

SlicedSpec == Init /\ [][Next /\ (Alone \/ Together)']_vars
=============================================================================
