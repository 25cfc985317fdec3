-------------------------- MODULE SourceStagingProofs --------------------------
(***************************************************************************)
(* Proofs about SourceStaging, for any number of runs, release requests    *)
(* and backup attempts, and files of any length.                           *)
(***************************************************************************)
EXTENDS SourceStaging, SequenceTheorems, WellFoundedInduction, TLAPS

-----------------------------------------------------------------------------
(* Types *)

RunStatus == {"NONE", "ACTIVE", "SUCCEEDED", "BLOCKED", "FAILED_RETRYABLE", "CANCELLED"}
RunRow == [status : RunStatus, retryOf : Run \cup {NoRun}]
AnyChunk == Run \X (Nat \ {0})
CallRow == [pc : {"idle", "list", "plan", "delete"}, run : Run \cup {NoRun}, todo : SUBSET AnyChunk]
AttemptRow ==
  [pc : {"none", "begun", "raised", "copying", "copied", "sealing", "sealed", "indexing", "indexed", "gone"},
   status : {"NONE", "RUNNING", "COMPLETED", "FAILED"}, sealing : BOOLEAN, sealed : BOOLEAN,
   objects : SUBSET AnyChunk, indexed : SUBSET AnyChunk, complete : BOOLEAN]

RunsTyped ==
  /\ run \in [Run -> RunRow]
  /\ row \in [Run -> Seq(Run)]
  /\ copy \in [Run -> Seq(Run)]

ReleaseTyped ==
  /\ abandoned \subseteq Run
  /\ result \in [Run -> SUBSET AnyChunk]
  /\ call \in [Member -> CallRow]

Typed == RunsTyped /\ ReleaseTyped /\ attempt \in [Backup -> AttemptRow]

\* The checkpoints of a run are numbered by their place.
LEMMA ChunksAre ==
  ASSUME RunsTyped, NEW r \in Run
  PROVE  /\ \A c : c \in ChunksOf(r) <=> \E i \in 1..Len(row[r]) : c = <<row[r][i], i>>
         /\ \A i \in 1..Len(row[r]) : row[r][i] \in Run /\ i \in Nat \ {0}
         /\ ChunksOf(r) \subseteq AnyChunk
<1>1. row[r] \in Seq(Run)
  BY DEF RunsTyped
<1>2. DOMAIN row[r] = 1..Len(row[r]) /\ Len(row[r]) \in Nat /\ \A i \in 1..Len(row[r]) : row[r][i] \in Run
  BY <1>1
<1>3. \A c : c \in ChunksOf(r) <=> \E i \in 1..Len(row[r]) : c = <<row[r][i], i>>
  BY <1>2 DEF ChunksOf
<1>4. \A i \in 1..Len(row[r]) : row[r][i] \in Run /\ i \in Nat \ {0}
  BY <1>2
<1> QED BY <1>3, <1>4 DEF AnyChunk

\* A set of numbers that is not empty has a least one.
LEMMA LeastNumber ==
  ASSUME NEW T, T \subseteq Nat, T # {}
  PROVE  \E n \in T : \A m \in T : n <= m
<1> DEFINE R == OpToRel(<, Nat)
<1>1. IsWellFoundedOn(R, Nat)
  BY NatLessThanWellFounded
<1>2. \A m, n \in Nat : m < n => <<m, n>> \in R
  BY DEF OpToRel
<1> HIDE DEF R
<1>3. PICK n \in T : \A m \in T : ~(<<m, n>> \in R)
  BY <1>1, WFMin, Zenon
<1>4. ASSUME NEW m \in T PROVE n <= m
  <2>1. m \in Nat /\ n \in Nat
    OBVIOUS
  <2>2. ~(m < n)
    BY <1>2, <1>3, <2>1
  <2> QED BY <2>1, <2>2
<1> QED BY <1>4

\* A call goes through its chunks in the order of their places.
LEMMA NextIsToDo ==
  ASSUME NEW m \in Member, call[m].todo \subseteq AnyChunk, call[m].todo # {}
  PROVE  Next1(m) \in call[m].todo
<1> DEFINE T == {c[2] : c \in call[m].todo}
<1>1. T \subseteq Nat /\ T # {}
  BY DEF AnyChunk
<1>2. PICK n \in T : \A k \in T : n <= k
  BY <1>1, LeastNumber
<1>3. PICK c \in call[m].todo : c[2] = n
  BY <1>2
<1>4. \A d \in call[m].todo : c[2] <= d[2]
  BY <1>2, <1>3
<1> QED BY <1>4 DEF Next1

-----------------------------------------------------------------------------
(* Runs, their parents and their prefixes *)

Ended(r) == run[r].status \in {"SUCCEEDED", "BLOCKED", "FAILED_RETRYABLE", "CANCELLED"}

\* A run that is tried again failed; while a retry of it is not abandoned, it is
\* not either.
Parents ==
  \A r \in Run : run[r].retryOf # NoRun =>
    /\ run[r].retryOf \in Run
    /\ run[run[r].retryOf].status = "FAILED_RETRYABLE"
    /\ run[r].retryOf \in abandoned => r \in abandoned

AbandonedEnded == \A r \in abandoned : Ended(r)

\* What a retry has read of the prior run is still there: that run moves no more.
Copies ==
  \A r \in Run : copy[r] # <<>> =>
    /\ run[r].status # "NONE" /\ run[r].retryOf # NoRun
    /\ copy[r] = row[run[r].retryOf]

\* The chunks of a run are its own, or came from runs that ended.
Owners == \A r \in Run, i \in Nat : i \in 1..Len(row[r]) => row[r][i] = r \/ Ended(row[r][i])

RunsInv == Parents /\ AbandonedEnded /\ Copies /\ Owners

\* How a run of the workspace may be changed: its status moves on.
RunMoved(r) ==
  /\ run' \in [Run -> RunRow]
  /\ \A q \in Run : q # r => run'[q] = run[q]
  /\ ~Ended(r) /\ run'[r].status # "NONE"

LEMMA StartMoves ==
  ASSUME RunsTyped, NEW r \in Run, NEW p \in Run \cup {NoRun}, StartRun(r, p)
  PROVE  RunMoved(r) /\ run'[r] = [status |-> "ACTIVE", retryOf |-> p]
<1>1. [status |-> "ACTIVE", retryOf |-> p] \in RunRow
  BY DEF RunRow, RunStatus
<1>2. run' = [run EXCEPT ![r] = [status |-> "ACTIVE", retryOf |-> p]] /\ run[r].status = "NONE"
  BY DEF StartRun
<1> QED BY <1>1, <1>2 DEF RunMoved, RunsTyped, Ended

LEMMA EndMoves ==
  ASSUME RunsTyped, NEW r \in Run, NEW status \in {"SUCCEEDED", "BLOCKED", "FAILED_RETRYABLE", "CANCELLED"},
         EndRun(r, status)
  PROVE  RunMoved(r) /\ run'[r].status = status /\ run'[r].retryOf = run[r].retryOf
<1> DEFINE x == [run[r] EXCEPT !.status = status]
<1>1. x \in RunRow /\ x.status = status /\ x.retryOf = run[r].retryOf
  BY DEF RunsTyped, RunRow, RunStatus
<1>2. run' = [run EXCEPT ![r] = x] /\ run[r].status = "ACTIVE"
  BY DEF EndRun
<1> HIDE DEF x
<1> QED BY <1>1, <1>2 DEF RunMoved, RunsTyped, Ended

\* A status that ended stays, whatever run moves.
LEMMA EndedStays ==
  ASSUME NEW r \in Run, RunMoved(r), NEW q \in Run, Ended(q)
  PROVE  run'[q] = run[q] /\ Ended(q)' /\ q # r
BY DEF RunMoved, Ended

LEMMA MovedRuns ==
  ASSUME Typed, RunsInv, NEW r \in Run, RunMoved(r), UNCHANGED <<row, copy, abandoned>>,
         \/ /\ run[r].status = "NONE"
            /\ run'[r].retryOf # NoRun => /\ run'[r].retryOf \in Run \ abandoned
                                          /\ run[run'[r].retryOf].status = "FAILED_RETRYABLE"
         \/ run'[r].retryOf = run[r].retryOf
  PROVE  RunsTyped' /\ RunsInv'
<1>1. RunsTyped'
  BY DEF Typed, RunsTyped, RunMoved
<1>2. ASSUME NEW q \in Run, run[q].status = "FAILED_RETRYABLE" PROVE run'[q].status = "FAILED_RETRYABLE"
  BY <1>2, EndedStays DEF Ended
<1>3. Parents'
  <2> SUFFICES ASSUME NEW q \in Run, run'[q].retryOf # NoRun
               PROVE  /\ run'[q].retryOf \in Run
                      /\ run'[run'[q].retryOf].status = "FAILED_RETRYABLE"
                      /\ run'[q].retryOf \in abandoned => q \in abandoned
    BY DEF Parents
  <2>1. CASE run'[q].retryOf = run[q].retryOf
    BY <1>2, <2>1 DEF RunsInv, Parents
  <2>2. CASE run'[q].retryOf # run[q].retryOf
    <3>1. q = r
      BY <2>2 DEF RunMoved
    <3> QED BY <1>2, <2>2, <3>1
  <2> QED BY <2>1, <2>2
<1>4. AbandonedEnded'
  BY EndedStays DEF RunsInv, AbandonedEnded, Typed, ReleaseTyped
<1>5. Copies'
  <2> SUFFICES ASSUME NEW q \in Run, copy[q] # <<>>
               PROVE  /\ run'[q].status # "NONE" /\ run'[q].retryOf # NoRun
                      /\ copy[q] = row[run'[q].retryOf]
    BY DEF Copies
  <2>1. run[q].status # "NONE" /\ run[q].retryOf # NoRun /\ copy[q] = row[run[q].retryOf]
    BY DEF RunsInv, Copies
  <2>2. run'[q].retryOf = run[q].retryOf /\ run'[q].status # "NONE"
    BY <2>1 DEF RunMoved
  <2> QED BY <2>1, <2>2
<1>6. Owners'
  <2> SUFFICES ASSUME NEW q \in Run, NEW i \in Nat, i \in 1..Len(row[q])
               PROVE  row[q][i] = q \/ Ended(row[q][i])'
    BY DEF Owners
  <2>1. row[q][i] \in Run
    BY ChunksAre DEF Typed
  <2>2. row[q][i] = q \/ Ended(row[q][i])
    BY DEF RunsInv, Owners
  <2> QED BY <2>1, <2>2, EndedStays
<1> QED BY <1>1, <1>3, <1>4, <1>5, <1>6 DEF RunsInv

\* An active run is nobody's parent: what is written to it disturbs no retry.
LEMMA WrittenRuns ==
  ASSUME Typed, RunsInv, NEW r \in Run, UNCHANGED <<run, abandoned>>,
         row' \in [Run -> Seq(Run)], copy' \in [Run -> Seq(Run)],
         Active(r) \/ UNCHANGED row,
         \A q \in Run : q # r => row'[q] = row[q] /\ copy'[q] = copy[q],
         copy'[r] # <<>> => /\ run[r].status # "NONE" /\ run[r].retryOf # NoRun
                            /\ copy'[r] = row[run[r].retryOf],
         \A i \in 1..Len(row'[r]) : row'[r][i] = r \/ Ended(row'[r][i])
  PROVE  RunsTyped' /\ RunsInv'
<1>1. RunsTyped'
  BY DEF Typed, RunsTyped
<1>2. Parents' /\ AbandonedEnded'
  BY DEF RunsInv, Parents, AbandonedEnded, Ended
<1>3. \A q \in Run : run[q].retryOf # NoRun => row'[run[q].retryOf] = row[run[q].retryOf]
  BY DEF RunsInv, Parents, Active
<1>4. Copies'
  BY <1>3 DEF RunsInv, Copies
<1>5. Owners'
  <2> SUFFICES ASSUME NEW q \in Run, NEW i \in Nat, i \in 1..Len(row'[q])
               PROVE  row'[q][i] = q \/ Ended(row'[q][i])
    BY DEF Owners, Ended
  <2>1. CASE q = r
    BY <2>1
  <2>2. CASE q # r
    BY <2>2 DEF RunsInv, Owners
  <2> QED BY <2>1, <2>2
<1> QED BY <1>1, <1>2, <1>4, <1>5 DEF RunsInv

\* A chunk is published behind the others, or the row is as it was.
LEMMA PublishMoves ==
  ASSUME RunsTyped, NEW r \in Run, Publish(r)
  PROVE  /\ row' \in [Run -> Seq(Run)]
         /\ \A q \in Run : q # r => row'[q] = row[q]
         /\ \/ row'[r] = row[r]
            \/ /\ Len(row'[r]) = Len(row[r]) + 1
               /\ \A i \in 1..Len(row[r]) : row'[r][i] = row[r][i]
               /\ row'[r][Len(row[r]) + 1] = r
               /\ upload[r] = Len(row[r]) + 1
<1>1. row \in [Run -> Seq(Run)] /\ row[r] \in Seq(Run)
  BY DEF RunsTyped
<1>2. CASE upload[r] = Len(row[r]) + 1
  <2> DEFINE s == Append(row[r], r)
  <2>1. /\ s \in Seq(Run) /\ Len(s) = Len(row[r]) + 1
        /\ \A i \in 1..Len(row[r]) : s[i] = row[r][i]
        /\ s[Len(row[r]) + 1] = r
    BY <1>1, AppendProperties
  <2>2. row' = [row EXCEPT ![r] = s]
    BY <1>2 DEF Publish
  <2> HIDE DEF s
  <2> QED BY <1>1, <1>2, <2>1, <2>2
<1>3. CASE upload[r] # Len(row[r]) + 1
  BY <1>1, <1>3 DEF Publish
<1> QED BY <1>2, <1>3

\* A longer sequence that continues another one gives what is missing.
LEMMA Continued ==
  ASSUME NEW S, NEW s \in Seq(S), NEW c \in Seq(S), Len(s) < Len(c)
  PROVE  /\ s \o SubSeq(c, Len(s) + 1, Len(c)) \in Seq(S)
         /\ Len(s \o SubSeq(c, Len(s) + 1, Len(c))) = Len(c)
         /\ \A i \in 1..Len(c) :
              (s \o SubSeq(c, Len(s) + 1, Len(c)))[i] = IF i <= Len(s) THEN s[i] ELSE c[i]
<1> DEFINE m == Len(s) + 1
           n == Len(c)
           t == SubSeq(c, m, n)
           u == s \o t
<1>1. /\ Len(s) \in Nat /\ m \in Int /\ n \in Int /\ m <= n
      /\ \A i \in m..n : c[i] \in S
  OBVIOUS
<1>2. t \in Seq(S) /\ Len(t) = n - m + 1
  <2> HIDE DEF m, n
  <2> QED BY <1>1, SubSeqProperties
<1>3. ASSUME NEW i \in 1..n - m + 1 PROVE t[i] = c[m + i - 1]
  <2> HIDE DEF m, n
  <2> QED BY <1>1, <1>3, SubSeqProperties
<1> HIDE DEF t
<1>4. u \in Seq(S) /\ Len(u) = Len(s) + Len(t)
      /\ \A i \in 1..Len(s) + Len(t) : u[i] = IF i <= Len(s) THEN s[i] ELSE t[i - Len(s)]
  BY <1>2, ConcatProperties
<1> HIDE DEF u
<1>5. Len(u) = Len(c)
  BY <1>1, <1>2, <1>4
<1>6. ASSUME NEW i \in 1..Len(c) PROVE u[i] = IF i <= Len(s) THEN s[i] ELSE c[i]
  <2>1. CASE i <= Len(s)
    BY <1>1, <1>2, <1>4, <2>1
  <2>2. CASE ~(i <= Len(s))
    <3>1. i - Len(s) \in 1..n - m + 1 /\ m + (i - Len(s)) - 1 = i
      BY <1>1, <2>2
    <3>2. t[i - Len(s)] = c[i]
      BY <1>3, <3>1
    <3>3. u[i] = t[i - Len(s)]
      BY <1>1, <1>2, <1>4, <2>2
    <3> QED BY <2>2, <3>2, <3>3
  <2> QED BY <2>1, <2>2
<1> QED BY <1>4, <1>5, <1>6 DEF u, t

\* The prefix a retry has read continues its row.
LEMMA InsertMoves ==
  ASSUME RunsTyped, NEW r \in Run, InsertPrefix(r)
  PROVE  /\ row' \in [Run -> Seq(Run)]
         /\ \A q \in Run : q # r => row'[q] = row[q]
         /\ UNCHANGED row \/ Active(r)
         /\ \A i \in 1..Len(row'[r]) :
              \/ i \in 1..Len(row[r]) /\ row'[r][i] = row[r][i]
              \/ Active(r) /\ i \in 1..Len(copy[r]) /\ row'[r][i] = copy[r][i]
<1>1. row \in [Run -> Seq(Run)] /\ row[r] \in Seq(Run) /\ copy[r] \in Seq(Run)
  BY DEF RunsTyped
<1>2. CASE Active(r) /\ Len(row[r]) < Len(copy[r])
  <2> DEFINE s == row[r] \o SubSeq(copy[r], Len(row[r]) + 1, Len(copy[r]))
  <2>1. Len(row[r]) \in Nat /\ Len(copy[r]) \in Nat
    BY <1>1
  <2>3. /\ s \in Seq(Run) /\ Len(s) = Len(copy[r])
        /\ \A i \in 1..Len(copy[r]) : s[i] = IF i <= Len(row[r]) THEN row[r][i] ELSE copy[r][i]
    BY <1>1, <1>2, Continued
  <2>4. row' = [row EXCEPT ![r] = s]
    BY <1>2 DEF InsertPrefix
  <2> HIDE DEF s
  <2>5. row'[r] = s /\ row' \in [Run -> Seq(Run)] /\ \A q \in Run : q # r => row'[q] = row[q]
    BY <1>1, <2>3, <2>4
  <2>6. ASSUME NEW i \in 1..Len(s)
        PROVE  \/ i \in 1..Len(row[r]) /\ s[i] = row[r][i]
               \/ i \in 1..Len(copy[r]) /\ s[i] = copy[r][i]
    <3>1. CASE i <= Len(row[r])
      BY <2>1, <2>3, <3>1
    <3>2. CASE ~(i <= Len(row[r]))
      BY <2>1, <2>3, <3>2
    <3> QED BY <3>1, <3>2
  <2> QED BY <1>2, <2>5, <2>6
<1>3. CASE ~(Active(r) /\ Len(row[r]) < Len(copy[r]))
  BY <1>1, <1>3 DEF InsertPrefix
<1> QED BY <1>2, <1>3

\* Of the steps of runs and releases, those that move a run or its rows.
LEMMA RunsNext ==
  ASSUME Typed, RunsInv, NEW r \in Run, RunStep(r)
  PROVE  RunsTyped' /\ RunsInv'
<1>1. /\ run \in [Run -> RunRow] /\ row \in [Run -> Seq(Run)] /\ copy \in [Run -> Seq(Run)]
      /\ UNCHANGED <<abandoned, result, call, attempt>>
  BY DEF Typed, RunsTyped, RunStep, StartRun, EndRun, BeginUpload, Publish, PublishFails, UploadEnds, ReadPrefix,
         InsertPrefix, Release, Backups
<1>2. ASSUME NEW p \in Run \cup {NoRun}, StartRun(r, p)
      PROVE  RunsTyped' /\ RunsInv'
  <2>1. RunMoved(r) /\ run'[r] = [status |-> "ACTIVE", retryOf |-> p]
    BY <1>2, StartMoves DEF Typed
  <2>2. /\ UNCHANGED <<row, copy>> /\ run[r].status = "NONE"
        /\ p # NoRun => p \in Run \ abandoned /\ run[p].status = "FAILED_RETRYABLE"
    BY <1>2 DEF StartRun, Retryable
  <2> QED BY <1>1, <2>1, <2>2, MovedRuns
<1>3. ASSUME NEW status \in {"SUCCEEDED", "BLOCKED", "FAILED_RETRYABLE", "CANCELLED"}, EndRun(r, status)
      PROVE  RunsTyped' /\ RunsInv'
  <2>1. RunMoved(r) /\ run'[r].retryOf = run[r].retryOf /\ UNCHANGED <<row, copy>>
    BY <1>3, EndMoves DEF Typed, EndRun
  <2> QED BY <1>1, <2>1, MovedRuns
<1>4. \A i \in 1..Len(row[r]) : row[r][i] = r \/ Ended(row[r][i])
  <2>1. Len(row[r]) \in Nat
    BY <1>1
  <2> QED BY <2>1 DEF RunsInv, Owners
<1>5. copy[r] # <<>> => run[r].status # "NONE" /\ run[r].retryOf # NoRun /\ copy[r] = row[run[r].retryOf]
  BY DEF RunsInv, Copies
<1>6. ASSUME UNCHANGED <<run, row, copy>>
      PROVE  RunsTyped' /\ RunsInv'
  BY <1>1, <1>4, <1>5, <1>6, WrittenRuns
<1>7. CASE Publish(r)
  <2>1. /\ row' \in [Run -> Seq(Run)]
        /\ \A q \in Run : q # r => row'[q] = row[q]
        /\ \/ row'[r] = row[r]
           \/ /\ Len(row'[r]) = Len(row[r]) + 1
              /\ \A i \in 1..Len(row[r]) : row'[r][i] = row[r][i]
              /\ row'[r][Len(row[r]) + 1] = r
    BY <1>7, PublishMoves DEF Typed
  <2>2. ASSUME NEW i \in 1..Len(row'[r]) PROVE row'[r][i] = r \/ Ended(row'[r][i])
    <3>1. Len(row[r]) \in Nat
      BY <1>1
    <3>2. i \in 1..Len(row[r]) \/ i = Len(row[r]) + 1
      BY <2>1, <3>1
    <3> QED BY <1>4, <2>1, <3>1, <3>2
  <2>3. Active(r) /\ UNCHANGED <<run, copy>>
    BY <1>7 DEF Publish
  <2> QED BY <1>1, <1>5, <2>1, <2>2, <2>3, WrittenRuns
<1>8. CASE ReadPrefix(r)
  <2>1. /\ UNCHANGED <<run, row>> /\ run[r].status = "ACTIVE" /\ run[r].retryOf # NoRun
        /\ copy' = [copy EXCEPT ![r] = row[run[r].retryOf]]
    BY <1>8 DEF ReadPrefix
  <2>2. run[r].retryOf \in Run
    BY <2>1 DEF RunsInv, Parents
  <2>3. copy' \in [Run -> Seq(Run)] /\ copy'[r] = row[run[r].retryOf] /\ \A q \in Run : q # r => copy'[q] = copy[q]
    BY <1>1, <2>1, <2>2
  <2> QED BY <1>1, <1>4, <2>1, <2>3, WrittenRuns
<1>9. CASE InsertPrefix(r)
  <2>1. /\ row' \in [Run -> Seq(Run)]
        /\ \A q \in Run : q # r => row'[q] = row[q]
        /\ UNCHANGED row \/ Active(r)
        /\ \A i \in 1..Len(row'[r]) :
             \/ i \in 1..Len(row[r]) /\ row'[r][i] = row[r][i]
             \/ Active(r) /\ i \in 1..Len(copy[r]) /\ row'[r][i] = copy[r][i]
    BY <1>9, InsertMoves DEF Typed
  <2>2. copy' = [copy EXCEPT ![r] = <<>>] /\ UNCHANGED run
    BY <1>9 DEF InsertPrefix
  <2>3. copy' \in [Run -> Seq(Run)] /\ copy'[r] = <<>> /\ \A q \in Run : q # r => copy'[q] = copy[q]
    <3>1. <<>> \in Seq(Run)
      OBVIOUS
    <3> QED BY <1>1, <2>2, <3>1
  <2>4. ASSUME NEW i \in 1..Len(row'[r]) PROVE row'[r][i] = r \/ Ended(row'[r][i])
    <3>1. CASE i \in 1..Len(row[r]) /\ row'[r][i] = row[r][i]
      BY <1>4, <3>1
    <3>2. CASE i \in 1..Len(copy[r]) /\ row'[r][i] = copy[r][i]
      <4> DEFINE p == run[r].retryOf
      <4>1. Len(copy[r]) \in Nat
        BY <1>1
      <4>2. copy[r] # <<>>
        BY <3>2
      <4>3. p \in Run /\ copy[r] = row[p] /\ Ended(p)
        BY <1>5, <4>2 DEF RunsInv, Parents, Ended
      <4>4. row[p][i] = p \/ Ended(row[p][i])
        BY <3>2, <4>1, <4>3 DEF RunsInv, Owners
      <4> QED BY <3>2, <4>3, <4>4
    <3> QED BY <2>1, <3>1, <3>2
  <2> QED BY <1>1, <2>1, <2>2, <2>3, <2>4, WrittenRuns
<1>10. CASE (\E i \in 1..Chunks : BeginUpload(r, i)) \/ PublishFails(r) \/ UploadEnds(r)
  BY <1>6, <1>10 DEF BeginUpload, PublishFails, UploadEnds
<1> QED BY <1>2, <1>3, <1>7, <1>8, <1>9, <1>10 DEF RunStep

\* A run is abandoned when it ended and so are its retries.
LEMMA AskedRuns ==
  ASSUME Typed, RunsInv, NEW r \in Run, NEW m \in Member, AskRelease(m, r)
  PROVE  RunsInv'
<1>1. /\ UNCHANGED <<run, row, copy>> /\ abandoned' = abandoned \cup {r}
      /\ run[r].status \in {"CANCELLED", "BLOCKED", "FAILED_RETRYABLE"} /\ ChildrenAbandoned(r)
  BY DEF AskRelease, Runs
<1>2. Parents'
  BY <1>1 DEF RunsInv, Parents, ChildrenAbandoned
<1>3. AbandonedEnded' /\ Copies' /\ Owners'
  BY <1>1 DEF RunsInv, AbandonedEnded, Copies, Owners, Ended
<1> QED BY <1>2, <1>3 DEF RunsInv

-----------------------------------------------------------------------------
(* Backups                                                                   *)

\* What the columns of an attempt say of each other at each place.
AttemptSound(x) ==
  /\ x.pc \in {"begun", "raised", "copying", "copied", "sealing", "sealed"} => x.status = "RUNNING" /\ ~x.complete
  /\ x.pc \in {"begun", "raised", "copying", "copied", "sealing"} => ~x.sealed
  /\ x.pc \in {"sealing", "sealed", "indexing"} => x.sealing
  /\ x.pc = "indexing" => ~x.complete
  /\ x.sealed => x.sealing
  /\ x.complete => x.indexed = x.objects

\* The objects of a target that is sealed, or will be, are still on disk.
Holding(x) == x.sealed \/ x.pc \in {"copied", "sealing"}

AttemptsInv ==
  \A b \in Backup : AttemptSound(attempt[b]) /\ (Holding(attempt[b]) => attempt[b].objects \subseteq bytes)

LEMMA ReferencedTyped ==
  ASSUME RunsTyped
  PROVE  Referenced \subseteq AnyChunk
BY ChunksAre DEF Referenced

\* One attempt is written by the process that works at it.
LEMMA AttemptWritten ==
  ASSUME attempt \in [Backup -> AttemptRow], AttemptsInv, NEW b \in Backup, NEW x \in AttemptRow,
         attempt' = [attempt EXCEPT ![b] = x], UNCHANGED bytes,
         AttemptSound(x), Holding(x) => x.objects \subseteq bytes
  PROVE  attempt' \in [Backup -> AttemptRow] /\ AttemptsInv'
<1>1. attempt' \in [Backup -> AttemptRow] /\ attempt'[b] = x /\ \A c \in Backup : c # b => attempt'[c] = attempt[c]
  OBVIOUS
<1>2. ASSUME NEW c \in Backup
      PROVE  AttemptSound(attempt'[c]) /\ (Holding(attempt'[c]) => attempt'[c].objects \subseteq bytes)
  <2>1. CASE c = b
    BY <1>1, <2>1
  <2>2. CASE c # b
    BY <1>1, <2>2 DEF AttemptsInv
  <2> QED BY <2>1, <2>2
<1>3. AttemptsInv' <=> \A c \in Backup :
        AttemptSound(attempt'[c]) /\ (Holding(attempt'[c]) => attempt'[c].objects \subseteq bytes')
  BY DEF AttemptsInv, AttemptSound, Holding
<1> QED BY <1>1, <1>2, <1>3

\* Nobody works: attempts that were running are set to FAILED.
LEMMA FailedStays ==
  ASSUME NEW x \in AttemptRow, AttemptSound(x), x.pc \in {"none", "gone"}
  PROVE  /\ [x EXCEPT !.status = "FAILED"] \in AttemptRow
         /\ AttemptSound([x EXCEPT !.status = "FAILED"])
         /\ Holding([x EXCEPT !.status = "FAILED"]) => Holding(x)
         /\ [x EXCEPT !.status = "FAILED"].objects = x.objects
BY DEF AttemptRow, AttemptSound, Holding

LEMMA BackupsNext ==
  ASSUME Typed, AttemptsInv, NEW b \in Backup, BackupStep(b)
  PROVE  attempt' \in [Backup -> AttemptRow] /\ AttemptsInv' /\ UNCHANGED bytes
         /\ UNCHANGED <<run, row, copy, abandoned, result, call, upload>>
<1>1. /\ attempt \in [Backup -> AttemptRow] /\ attempt[b] \in AttemptRow /\ AttemptSound(attempt[b])
      /\ Holding(attempt[b]) => attempt[b].objects \subseteq bytes
  BY DEF Typed, AttemptsInv
<1>2. UNCHANGED <<bytes, run, row, copy, abandoned, result, call, upload>>
  BY Zenon DEF BackupStep, BackupStarts, RaiseBarrier, Snapshot, CopyObjects, MarkSealing, Seal, Mirror, IndexObject,
               IndexComplete, BackupEnds, BackupFails, BackupCrashes, Step, Runs, Release
<1>3. CASE BackupStarts(b)
  <2> DEFINE fresh == [NoAttempt EXCEPT !.pc = "begun", !.status = "RUNNING"]
  <2>1. fresh \in AttemptRow /\ AttemptSound(fresh) /\ ~Holding(fresh)
    BY DEF NoAttempt, AttemptRow, AttemptSound, Holding
  <2> HIDE DEF fresh
  <2>2. /\ Unlocked
        /\ attempt' = [c \in Backup |-> IF c = b THEN fresh
                         ELSE IF Unfinished(c) THEN [attempt[c] EXCEPT !.status = "FAILED"] ELSE attempt[c]]
    BY <1>3 DEF BackupStarts, fresh
  <2>3. ASSUME NEW c \in Backup
        PROVE  /\ attempt'[c] \in AttemptRow /\ AttemptSound(attempt'[c])
               /\ Holding(attempt'[c]) => attempt'[c].objects \subseteq bytes
    <3>1. /\ attempt[c] \in AttemptRow /\ AttemptSound(attempt[c]) /\ attempt[c].pc \in {"none", "gone"}
          /\ Holding(attempt[c]) => attempt[c].objects \subseteq bytes
      BY <1>1, <2>2 DEF AttemptsInv, Unlocked, Working
    <3>2. CASE c = b
      BY <2>1, <2>2, <3>2
    <3>3. CASE c # b /\ Unfinished(c)
      <4>1. attempt'[c] = [attempt[c] EXCEPT !.status = "FAILED"]
        BY <2>2, <3>3
      <4> QED BY <3>1, <4>1, FailedStays
    <3>4. CASE c # b /\ ~Unfinished(c)
      <4>1. attempt'[c] = attempt[c]
        BY <2>2, <3>4
      <4> QED BY <3>1, <4>1
    <3> QED BY <3>2, <3>3, <3>4
  <2>4. AttemptsInv' <=> \A c \in Backup :
          AttemptSound(attempt'[c]) /\ (Holding(attempt'[c]) => attempt'[c].objects \subseteq bytes')
    BY DEF AttemptsInv, AttemptSound, Holding
  <2>5. attempt' \in [Backup -> AttemptRow]
    BY <2>2, <2>3
  <2> QED BY <1>2, <2>3, <2>4, <2>5
<1>4. CASE RaiseBarrier(b)
  <2> DEFINE x == [attempt[b] EXCEPT !.pc = "raised"]
  <2>1. attempt' = [attempt EXCEPT ![b] = x] /\ attempt[b].pc = "begun"
    BY <1>4 DEF RaiseBarrier, Step
  <2>2. x \in AttemptRow /\ AttemptSound(x) /\ ~Holding(x)
    BY <1>1, <2>1 DEF AttemptRow, AttemptSound, Holding
  <2> HIDE DEF x
  <2> QED BY <1>1, <1>2, <2>1, <2>2, AttemptWritten
<1>5. CASE Snapshot(b)
  <2> DEFINE x == [attempt[b] EXCEPT !.pc = "copying", !.objects = Referenced]
  <2>1. attempt' = [attempt EXCEPT ![b] = x] /\ attempt[b].pc = "raised"
    BY <1>5 DEF Snapshot, Step
  <2>2. x \in AttemptRow /\ AttemptSound(x) /\ ~Holding(x)
    BY <1>1, <2>1, ReferencedTyped DEF Typed, AttemptRow, AttemptSound, Holding
  <2> HIDE DEF x
  <2> QED BY <1>1, <1>2, <2>1, <2>2, AttemptWritten
<1>6. CASE CopyObjects(b)
  <2> DEFINE x == [attempt[b] EXCEPT !.pc = "copied"]
  <2>1. attempt' = [attempt EXCEPT ![b] = x] /\ attempt[b].pc = "copying" /\ attempt[b].objects \subseteq bytes
    BY <1>6 DEF CopyObjects, Step
  <2>2. x \in AttemptRow /\ AttemptSound(x) /\ x.objects = attempt[b].objects
    BY <1>1, <2>1 DEF AttemptRow, AttemptSound
  <2> HIDE DEF x
  <2> QED BY <1>1, <1>2, <2>1, <2>2, AttemptWritten
<1>7. CASE MarkSealing(b)
  <2> DEFINE x == [attempt[b] EXCEPT !.pc = "sealing", !.sealing = TRUE]
  <2>1. attempt' = [attempt EXCEPT ![b] = x] /\ attempt[b].pc = "copied"
    BY <1>7 DEF MarkSealing, Step
  <2>2. x \in AttemptRow /\ AttemptSound(x) /\ x.objects = attempt[b].objects /\ Holding(attempt[b])
    BY <1>1, <2>1 DEF AttemptRow, AttemptSound, Holding
  <2> HIDE DEF x
  <2> QED BY <1>1, <1>2, <2>1, <2>2, AttemptWritten
<1>8. CASE Seal(b)
  <2> DEFINE x == [attempt[b] EXCEPT !.pc = "sealed", !.sealed = TRUE]
  <2>1. attempt' = [attempt EXCEPT ![b] = x] /\ attempt[b].pc = "sealing"
    BY <1>8 DEF Seal, Step
  <2>2. x \in AttemptRow /\ AttemptSound(x) /\ x.objects = attempt[b].objects /\ Holding(attempt[b])
    BY <1>1, <2>1 DEF AttemptRow, AttemptSound, Holding
  <2> HIDE DEF x
  <2> QED BY <1>1, <1>2, <2>1, <2>2, AttemptWritten
<1>9. CASE Mirror(b)
  <2> DEFINE x == [attempt[b] EXCEPT !.pc = "indexing", !.status = "COMPLETED"]
  <2>1. attempt' = [attempt EXCEPT ![b] = x] /\ attempt[b].pc = "sealed"
    BY <1>9 DEF Mirror, Step
  <2>2. x \in AttemptRow /\ AttemptSound(x) /\ x.objects = attempt[b].objects /\ (Holding(x) => Holding(attempt[b]))
    BY <1>1, <2>1 DEF AttemptRow, AttemptSound, Holding
  <2> HIDE DEF x
  <2> QED BY <1>1, <1>2, <2>1, <2>2, AttemptWritten
<1>10. CASE IndexObject(b)
  <2>1. PICK c \in attempt[b].objects :
          Step(b, "indexing", [attempt[b] EXCEPT !.indexed = attempt[b].indexed \cup {c}])
    BY <1>10 DEF IndexObject
  <2> DEFINE x == [attempt[b] EXCEPT !.indexed = attempt[b].indexed \cup {c}]
  <2>2. attempt' = [attempt EXCEPT ![b] = x] /\ attempt[b].pc = "indexing"
    BY <2>1 DEF Step
  <2>3. x \in AttemptRow /\ AttemptSound(x) /\ x.objects = attempt[b].objects /\ (Holding(x) => Holding(attempt[b]))
    BY <1>1, <2>2 DEF AttemptRow, AttemptSound, Holding
  <2> HIDE DEF x
  <2> QED BY <1>1, <1>2, <2>2, <2>3, AttemptWritten
<1>11. CASE IndexComplete(b)
  <2> DEFINE x == [attempt[b] EXCEPT !.pc = "indexed", !.complete = TRUE]
  <2>1. attempt' = [attempt EXCEPT ![b] = x] /\ attempt[b].pc = "indexing" /\ attempt[b].indexed = attempt[b].objects
    BY <1>11 DEF IndexComplete, Step
  <2>2. x \in AttemptRow /\ AttemptSound(x) /\ x.objects = attempt[b].objects /\ (Holding(x) => Holding(attempt[b]))
    BY <1>1, <2>1 DEF AttemptRow, AttemptSound, Holding
  <2> HIDE DEF x
  <2> QED BY <1>1, <1>2, <2>1, <2>2, AttemptWritten
<1>12. ASSUME NEW status \in {"NONE", "RUNNING", "COMPLETED", "FAILED"},
              attempt' = [attempt EXCEPT ![b] = [attempt[b] EXCEPT !.pc = "gone", !.status = status]]
       PROVE  attempt' \in [Backup -> AttemptRow] /\ AttemptsInv'
  <2> DEFINE x == [attempt[b] EXCEPT !.pc = "gone", !.status = status]
  <2>1. x \in AttemptRow /\ AttemptSound(x) /\ x.objects = attempt[b].objects /\ (Holding(x) => Holding(attempt[b]))
    BY <1>1 DEF AttemptRow, AttemptSound, Holding
  <2>2. attempt' = [attempt EXCEPT ![b] = x]
    BY <1>12
  <2> HIDE DEF x
  <2> QED BY <1>1, <1>2, <2>1, <2>2, AttemptWritten
<1>13. attempt[b].status \in {"NONE", "RUNNING", "COMPLETED", "FAILED"}
       /\ [attempt[b] EXCEPT !.pc = "gone"] = [attempt[b] EXCEPT !.pc = "gone", !.status = attempt[b].status]
  BY <1>1 DEF AttemptRow
<1>14. CASE BackupEnds(b)
  <2>1. attempt' = [attempt EXCEPT ![b] = [attempt[b] EXCEPT !.pc = "gone"]]
    BY <1>14 DEF BackupEnds, Step
  <2> QED BY <1>2, <1>12, <1>13, <2>1
<1>15. CASE BackupFails(b)
  <2> DEFINE status == IF attempt[b].status = "RUNNING" THEN "FAILED" ELSE attempt[b].status
  <2>1. attempt' = [attempt EXCEPT ![b] = [attempt[b] EXCEPT !.pc = "gone", !.status = status]]
    BY <1>1, <1>15 DEF BackupFails, Step, AttemptRow
  <2>2. status \in {"NONE", "RUNNING", "COMPLETED", "FAILED"}
    BY <1>13
  <2> HIDE DEF status
  <2> QED BY <1>2, <1>12, <2>1, <2>2
<1>16. CASE BackupCrashes(b)
  <2>1. attempt' = [attempt EXCEPT ![b] = [attempt[b] EXCEPT !.pc = "gone"]]
    BY <1>16 DEF BackupCrashes, Step
  <2> QED BY <1>2, <1>12, <1>13, <2>1
<1> QED BY <1>3, <1>4, <1>5, <1>6, <1>7, <1>8, <1>9, <1>10, <1>11, <1>14, <1>15, <1>16 DEF BackupStep

\* The server that starts fails what nobody works at any more.
LEMMA RecoverNext ==
  ASSUME Typed, AttemptsInv, RecoverAbandoned
  PROVE  attempt' \in [Backup -> AttemptRow] /\ AttemptsInv' /\ UNCHANGED bytes
         /\ UNCHANGED <<run, row, copy, abandoned, result, call, upload>>
<1>1. /\ Unlocked /\ UNCHANGED <<bytes, run, row, copy, abandoned, result, call, upload>>
      /\ attempt' = [b \in Backup |-> IF Unfinished(b) THEN [attempt[b] EXCEPT !.status = "FAILED"] ELSE attempt[b]]
  BY DEF RecoverAbandoned, Runs, Release
<1>2. ASSUME NEW b \in Backup
      PROVE  /\ attempt'[b] \in AttemptRow /\ AttemptSound(attempt'[b])
             /\ Holding(attempt'[b]) => attempt'[b].objects \subseteq bytes
  <2>1. /\ attempt[b] \in AttemptRow /\ AttemptSound(attempt[b]) /\ attempt[b].pc \in {"none", "gone"}
        /\ Holding(attempt[b]) => attempt[b].objects \subseteq bytes
    BY <1>1 DEF Typed, AttemptsInv, Unlocked, Working
  <2>2. CASE Unfinished(b)
    <3>1. attempt'[b] = [attempt[b] EXCEPT !.status = "FAILED"]
      BY <1>1, <2>2
    <3> QED BY <2>1, <3>1, FailedStays
  <2>3. CASE ~Unfinished(b)
    <3>1. attempt'[b] = attempt[b]
      BY <1>1, <2>3
    <3> QED BY <2>1, <3>1
  <2> QED BY <2>2, <2>3
<1>3. AttemptsInv' <=> \A b \in Backup :
        AttemptSound(attempt'[b]) /\ (Holding(attempt'[b]) => attempt'[b].objects \subseteq bytes')
  BY DEF AttemptsInv, AttemptSound, Holding
<1>4. attempt' \in [Backup -> AttemptRow]
  BY <1>1, <1>2
<1> QED BY <1>1, <1>2, <1>3, <1>4

-----------------------------------------------------------------------------
(* Bytes                                                                     *)

\* A removal on record is of a chunk whose sender ended: it cannot come again.
ResultsEnded == \A r \in Run : \A c \in result[r] : Ended(c[1])

BytesInv == ReferencedIsThere /\ ReleasedStaysGone /\ ResultsEnded

\* A release goes through chunks of a run that is abandoned.
Calls ==
  \A m \in Member : call[m].pc # "idle" =>
    /\ call[m].run \in abandoned
    /\ call[m].todo \subseteq ChunksOf(call[m].run)
    /\ call[m].pc = "delete" => call[m].todo # {}

LEMMA ReferencedAre ==
  /\ RunsTyped => (ReferencedIsThere <=>
       \A r \in Run \ abandoned : \A i \in 1..Len(row[r]) : <<row[r][i], i>> \in bytes)
  /\ RunsTyped' => (ReferencedIsThere' <=>
       \A r \in Run \ abandoned' : \A i \in 1..Len(row'[r]) : <<row'[r][i], i>> \in bytes')
<1>1. ASSUME RunsTyped
      PROVE  ReferencedIsThere <=> \A r \in Run \ abandoned : \A i \in 1..Len(row[r]) : <<row[r][i], i>> \in bytes
  <2>1. ReferencedIsThere <=> \A r \in Run \ abandoned : ChunksOf(r) \subseteq bytes
    BY DEF ReferencedIsThere, Referenced
  <2>2. ASSUME NEW r \in Run
        PROVE  ChunksOf(r) \subseteq bytes <=> \A i \in 1..Len(row[r]) : <<row[r][i], i>> \in bytes
    BY <1>1, ChunksAre
  <2> QED BY <2>1, <2>2
<1>2. ASSUME RunsTyped'
      PROVE  ReferencedIsThere' <=>
               \A r \in Run \ abandoned' : \A i \in 1..Len(row'[r]) : <<row'[r][i], i>> \in bytes'
  <2>1. ReferencedIsThere' <=> \A r \in Run \ abandoned' : {<<row'[r][i], i>> : i \in DOMAIN row'[r]} \subseteq bytes'
    BY DEF ReferencedIsThere, Referenced, ChunksOf
  <2>2. ASSUME NEW r \in Run PROVE DOMAIN row'[r] = 1..Len(row'[r])
    <3>1. row'[r] \in Seq(Run)
      BY <1>2 DEF RunsTyped
    <3> QED BY <3>1
  <2> QED BY <2>1, <2>2
<1> QED BY <1>1, <1>2

\* Only rows of an active run are written.
LEMMA RowsRest ==
  ASSUME Typed, RunsInv, NEW r \in Run, RunStep(r)
  PROVE  /\ UNCHANGED <<abandoned, result, call, attempt>>
         /\ \A q \in Run : row'[q] = row[q] \/ (q = r /\ Active(r))
         /\ \A q \in Run : Ended(q) => Ended(q)' /\ row'[q] = row[q]
<1>1. UNCHANGED <<abandoned, result, call, attempt>>
  BY DEF RunStep, StartRun, EndRun, BeginUpload, Publish, PublishFails, UploadEnds, ReadPrefix, InsertPrefix,
         Release, Backups
<1>2. \A q \in Run : row'[q] = row[q] \/ (q = r /\ Active(r))
  <2>1. CASE Publish(r)
    BY <2>1, PublishMoves DEF Typed, Publish
  <2>2. CASE InsertPrefix(r)
    BY <2>2, InsertMoves DEF Typed
  <2>3. CASE ~(Publish(r) \/ InsertPrefix(r))
    BY <2>3, Zenon DEF RunStep, StartRun, EndRun, BeginUpload, PublishFails, UploadEnds, ReadPrefix
  <2> QED BY <2>1, <2>2, <2>3
<1>3. ASSUME NEW q \in Run, Ended(q) PROVE Ended(q)'
  <2>1. CASE \E p \in Run \cup {NoRun} : StartRun(r, p)
    BY <1>3, <2>1, StartMoves, EndedStays DEF Typed
  <2>2. CASE \E status \in {"SUCCEEDED", "BLOCKED", "FAILED_RETRYABLE", "CANCELLED"} : EndRun(r, status)
    BY <1>3, <2>2, EndMoves, EndedStays DEF Typed
  <2>3. CASE UNCHANGED run
    BY <1>3, <2>3 DEF Ended
  <2> QED BY <2>1, <2>2, <2>3, Zenon
          DEF RunStep, BeginUpload, Publish, PublishFails, UploadEnds, ReadPrefix, InsertPrefix
<1>4. \A q \in Run : Ended(q) => ~Active(q)
  BY DEF Ended, Active
<1> QED BY <1>1, <1>2, <1>3, <1>4

\* What a run step may add to the disk.
LEMMA BytesGrow ==
  ASSUME NEW r \in Run, RunStep(r)
  PROVE  bytes' = bytes \/ (Active(r) /\ bytes' = bytes \cup {<<r, upload[r]>>})
BY DEF RunStep, StartRun, EndRun, BeginUpload, Publish, PublishFails, UploadEnds, ReadPrefix, InsertPrefix

LEMMA RunBytes ==
  ASSUME Typed, RunsInv, BytesInv, NEW r \in Run, RunStep(r)
  PROVE  BytesInv'
<1>1. RunsTyped /\ RunsTyped' /\ result \in [Run -> SUBSET AnyChunk]
  BY RunsNext DEF Typed, ReleaseTyped
<1>2. /\ UNCHANGED <<abandoned, result>>
      /\ \A q \in Run : row'[q] = row[q] \/ (q = r /\ Active(r))
      /\ \A q \in Run : Ended(q) => Ended(q)'
  BY RowsRest
<1>3. bytes' = bytes \/ (Active(r) /\ bytes' = bytes \cup {<<r, upload[r]>>})
  BY BytesGrow
<1>4. \A q \in Run \ abandoned : \A i \in 1..Len(row[q]) : <<row[q][i], i>> \in bytes
  BY <1>1, ReferencedAre DEF BytesInv
<1>5. ASSUME NEW q \in Run \ abandoned, NEW i \in 1..Len(row'[q])
      PROVE  <<row'[q][i], i>> \in bytes'
  <2>1. CASE row'[q] = row[q]
    BY <1>3, <1>4, <2>1
  <2>2. CASE row'[q] # row[q] /\ Publish(r)
    <3>1. q = r /\ row[r] \in Seq(Run)
      BY <1>1, <1>2, <2>2 DEF RunsTyped
    <3>2. /\ Len(row'[r]) = Len(row[r]) + 1
          /\ \A j \in 1..Len(row[r]) : row'[r][j] = row[r][j]
          /\ row'[r][Len(row[r]) + 1] = r
          /\ upload[r] = Len(row[r]) + 1
      BY <1>1, <2>2, <3>1, PublishMoves
    <3>3. bytes' = bytes \cup {<<r, upload[r]>>}
      BY <2>2 DEF Publish
    <3>4. i \in 1..Len(row[r]) \/ i = Len(row[r]) + 1
      BY <3>1, <3>2
    <3> QED BY <1>4, <3>1, <3>2, <3>3, <3>4
  <2>3. CASE row'[q] # row[q] /\ InsertPrefix(r)
    <3> DEFINE p == run[r].retryOf
    <3>1. q = r /\ row[r] \in Seq(Run) /\ copy[r] \in Seq(Run)
      BY <1>1, <1>2, <2>3 DEF RunsTyped
    <3>2. \/ i \in 1..Len(row[r]) /\ row'[r][i] = row[r][i]
          \/ i \in 1..Len(copy[r]) /\ row'[r][i] = copy[r][i]
      BY <1>1, <2>3, <3>1, InsertMoves
    <3>3. CASE i \in 1..Len(row[r]) /\ row'[r][i] = row[r][i]
      BY <1>3, <1>4, <3>1, <3>3
    <3>4. CASE i \in 1..Len(copy[r]) /\ row'[r][i] = copy[r][i]
      <4>1. copy[r] # <<>>
        BY <3>1, <3>4
      <4>2. p \in Run /\ copy[r] = row[p] /\ p \notin abandoned
        BY <3>1, <4>1 DEF RunsInv, Copies, Parents
      <4> HIDE DEF p
      <4>3. <<row[p][i], i>> \in bytes
        BY <1>4, <3>4, <4>2
      <4> QED BY <1>3, <3>1, <3>4, <4>2, <4>3
    <3> QED BY <3>2, <3>3, <3>4
  <2>4. Publish(r) \/ InsertPrefix(r) \/ UNCHANGED row
    BY Zenon DEF RunStep, StartRun, EndRun, BeginUpload, PublishFails, UploadEnds, ReadPrefix
  <2> QED BY <2>1, <2>2, <2>3, <2>4
<1>6. ReferencedIsThere'
  BY <1>1, <1>2, <1>5, ReferencedAre
<1>7. \A q \in Run : \A c \in result[q] : c[1] \in Run /\ Ended(c[1])
  BY <1>1 DEF BytesInv, ResultsEnded, AnyChunk
<1>8. ResultsEnded'
  BY <1>2, <1>7 DEF ResultsEnded
<1>9. ReleasedStaysGone'
  <2>1. ASSUME NEW q \in Run, NEW c \in result[q] PROVE c \notin bytes'
    <3>1. c \notin bytes
      BY <2>1 DEF BytesInv, ReleasedStaysGone
    <3>2. Active(r) => c # <<r, upload[r]>>
      BY <1>7, <2>1 DEF Active, Ended
    <3> QED BY <1>3, <3>1, <3>2
  <2> QED BY <1>2, <2>1 DEF ReleasedStaysGone
<1> QED BY <1>6, <1>8, <1>9 DEF BytesInv

\* What a release removes, nobody refers to and no backup holds.
LEMMA FreeIsNotHeld ==
  ASSUME AttemptsInv, NEW c, Free(c), NEW b \in Backup, Holding(attempt[b])
  PROVE  attempt[b].objects \subseteq bytes \ {c}
<1>1. AttemptSound(attempt[b]) /\ attempt[b].objects \subseteq bytes
  BY DEF AttemptsInv
<1>2. c \notin attempt[b].indexed /\ ~Unverified(b)
  BY DEF Free
<1>3. attempt[b].complete
  BY <1>1, <1>2 DEF AttemptSound, Holding, Unverified
<1> QED BY <1>1, <1>2, <1>3 DEF AttemptSound

\* How the calls of release() leave the disk and the record.
LEMMA ReleaseBytes ==
  ASSUME Typed, RunsInv, Calls, BytesInv, AttemptsInv, UNCHANGED <<run, row, abandoned, attempt>>,
         NEW r \in abandoned, NEW c \in ChunksOf(r),
         \/ result' = result
         \/ result' = [result EXCEPT ![r] = result[r] \cup {c}] /\ (c \in result[r] \/ bytes' = bytes \ {c}),
         bytes' = bytes \/ (bytes' = bytes \ {c} /\ Free(c))
  PROVE  BytesInv' /\ AttemptsInv' /\ result' \in [Run -> SUBSET AnyChunk]
<1>1. r \in Run /\ RunsTyped /\ result \in [Run -> SUBSET AnyChunk]
  BY DEF Typed, ReleaseTyped
<1>2. PICK i \in 1..Len(row[r]) : c = <<row[r][i], i>>
  BY <1>1, ChunksAre
<1>3. Ended(row[r][i]) /\ c \in AnyChunk
  <2>1. i \in Nat /\ row[r][i] \in Run /\ c \in AnyChunk
    BY <1>1, <1>2, ChunksAre
  <2> QED BY <1>1, <2>1 DEF RunsInv, Owners, AbandonedEnded
<1>4. result' \in [Run -> SUBSET AnyChunk]
  BY <1>1, <1>3
<1>5. ReferencedIsThere'
  BY DEF BytesInv, ReferencedIsThere, Referenced, ChunksOf, Free
<1>6. ASSUME NEW q \in Run, NEW d \in result'[q]
      PROVE  Ended(d[1]) /\ d \notin bytes'
  <2>1. CASE d \in result[q]
    BY <2>1 DEF BytesInv, ResultsEnded, ReleasedStaysGone
  <2>2. CASE d \notin result[q]
    <3>1. d = c /\ q = r /\ bytes' = bytes \ {c}
      BY <1>1, <1>6, <2>2
    <3> QED BY <1>2, <1>3, <3>1
  <2> QED BY <2>1, <2>2
<1>7. ResultsEnded' /\ ReleasedStaysGone'
  BY <1>6 DEF ResultsEnded, ReleasedStaysGone, Ended
<1>8. AttemptsInv'
  <2>1. ASSUME NEW b \in Backup, Holding(attempt[b]) PROVE attempt[b].objects \subseteq bytes'
    BY <2>1, FreeIsNotHeld DEF AttemptsInv
  <2> QED BY <2>1 DEF AttemptsInv, Holding, AttemptSound
<1> QED BY <1>4, <1>5, <1>7, <1>8 DEF BytesInv

-----------------------------------------------------------------------------
(* Releases                                                                  *)

LEMMA CallWritten ==
  ASSUME call \in [Member -> CallRow], Calls, NEW m \in Member, NEW x \in CallRow,
         call' = [call EXCEPT ![m] = x], UNCHANGED row, abandoned \subseteq abandoned',
         x.pc # "idle" => /\ x.run \in abandoned'
                          /\ x.todo \subseteq ChunksOf(x.run)
                          /\ x.pc = "delete" => x.todo # {}
  PROVE  call' \in [Member -> CallRow] /\ Calls'
<1>1. call' \in [Member -> CallRow] /\ call'[m] = x /\ \A n \in Member : n # m => call'[n] = call[n]
  OBVIOUS
<1>2. \A r : ChunksOf(r)' = ChunksOf(r)
  BY DEF ChunksOf
<1>3. ASSUME NEW n \in Member, call'[n].pc # "idle"
      PROVE  /\ call'[n].run \in abandoned'
             /\ call'[n].todo \subseteq ChunksOf(call'[n].run)
             /\ call'[n].pc = "delete" => call'[n].todo # {}
  <2>1. CASE n = m
    BY <1>1, <1>3, <2>1
  <2>2. CASE n # m
    BY <1>1, <1>3, <2>2 DEF Calls
  <2> QED BY <2>1, <2>2
<1> QED BY <1>1, <1>3 DEF Calls, ChunksOf

LEMMA ReleaseNext ==
  ASSUME Typed, RunsInv, Calls, BytesInv, AttemptsInv, NEW m \in Member, ReleaseStep(m)
  PROVE  Typed' /\ RunsInv' /\ Calls' /\ BytesInv' /\ AttemptsInv'
<1>1. UNCHANGED <<run, row, copy, attempt>>
  BY DEF ReleaseStep, AskRelease, ListChunks, PlanChunk, DeleteChunk, DeleteUnrecorded, CallEnds, Runs, Backups
<1>2. /\ RunsTyped' /\ attempt' \in [Backup -> AttemptRow]
      /\ call \in [Member -> CallRow] /\ call[m] \in CallRow /\ abandoned \subseteq Run
      /\ result \in [Run -> SUBSET AnyChunk]
  BY <1>1 DEF Typed, RunsTyped, ReleaseTyped
<1>3. call[m].pc # "idle" => /\ call[m].run \in abandoned
                             /\ call[m].todo \subseteq ChunksOf(call[m].run)
                             /\ call[m].pc = "delete" => call[m].todo # {}
  BY DEF Calls
<1>4. call[m].todo # {} => Next1(m) \in call[m].todo
  BY <1>2, NextIsToDo DEF CallRow
<1>5. Idle \in CallRow
  BY DEF Idle, CallRow
\* Nothing but the call and the disk moves.
<1>6. ASSUME UNCHANGED abandoned
      PROVE  RunsInv'
  BY <1>1, <1>6 DEF RunsInv, Parents, AbandonedEnded, Copies, Owners, Ended
<1>7. ASSUME UNCHANGED bytes
      PROVE  AttemptsInv'
  BY <1>1, <1>7 DEF AttemptsInv, AttemptSound, Holding
<1>8. ASSUME UNCHANGED <<bytes, result>>, abandoned \subseteq abandoned'
      PROVE  BytesInv'
  <2>1. ReferencedIsThere'
    BY <1>1, <1>8 DEF BytesInv, ReferencedIsThere, Referenced, ChunksOf
  <2> QED BY <1>1, <1>8, <2>1 DEF BytesInv, ReleasedStaysGone, ResultsEnded, Ended
<1>9. CASE \E r \in Run : AskRelease(m, r)
  <2>1. PICK r \in Run : AskRelease(m, r)
    BY <1>9
  <2> DEFINE x == [Idle EXCEPT !.pc = "list", !.run = r]
  <2>2. x \in CallRow /\ x.pc = "list" /\ x.run = r /\ x.todo = {}
    BY DEF Idle, CallRow
  <2>3. /\ call' = [call EXCEPT ![m] = x] /\ abandoned' = abandoned \cup {r}
        /\ UNCHANGED <<result, bytes>>
    BY <2>1 DEF AskRelease
  <2> HIDE DEF x
  <2>4. call' \in [Member -> CallRow] /\ Calls'
    BY <1>1, <1>2, <2>2, <2>3, CallWritten
  <2>5. RunsInv'
    BY <2>1, AskedRuns
  <2> QED BY <1>2, <1>7, <1>8, <2>3, <2>4, <2>5 DEF Typed, ReleaseTyped
<1>10. CASE ListChunks(m)
  <2> DEFINE x == [call[m] EXCEPT !.pc = "plan", !.todo = Undecided(call[m].run)]
  <2>1. call' = [call EXCEPT ![m] = x] /\ UNCHANGED <<abandoned, result, bytes>> /\ call[m].pc = "list"
    BY <1>2, <1>10 DEF ListChunks, CallRow
  <2>2. Undecided(call[m].run) \subseteq ChunksOf(call[m].run) /\ ChunksOf(call[m].run) \subseteq AnyChunk
    BY <1>2, <1>3, <2>1, ChunksAre DEF Undecided, Typed
  <2>3. x \in CallRow /\ x.pc = "plan" /\ x.run = call[m].run /\ x.todo = Undecided(call[m].run)
    BY <1>2, <2>2 DEF CallRow
  <2> HIDE DEF x
  <2>4. call' \in [Member -> CallRow] /\ Calls'
    BY <1>1, <1>2, <1>3, <2>1, <2>2, <2>3, CallWritten
  <2> QED BY <1>2, <1>6, <1>7, <1>8, <2>1, <2>4 DEF Typed, ReleaseTyped
\* A chunk is done with.
<1>11. ASSUME call' = Done(m), UNCHANGED abandoned, call[m].pc # "idle"
       PROVE  call' \in [Member -> CallRow] /\ Calls'
  <2> DEFINE x == [call[m] EXCEPT !.pc = "plan", !.todo = call[m].todo \ {Next1(m)}]
  <2>1. call' = [call EXCEPT ![m] = x]
    BY <1>2, <1>11 DEF Done, CallRow
  <2>2. x \in CallRow /\ x.pc = "plan" /\ x.run = call[m].run /\ x.todo \subseteq call[m].todo
    BY <1>2 DEF CallRow
  <2> HIDE DEF x
  <2> QED BY <1>1, <1>2, <1>3, <1>11, <2>1, <2>2, CallWritten
\* A call is over.
<1>12. ASSUME call' = [call EXCEPT ![m] = Idle], UNCHANGED abandoned
       PROVE  call' \in [Member -> CallRow] /\ Calls'
  BY <1>1, <1>2, <1>5, <1>12, CallWritten DEF Idle
<1>13. CASE PlanChunk(m)
  <2>1. /\ UNCHANGED <<abandoned, result, bytes>> /\ call[m].pc = "plan" /\ call[m].todo # {}
        /\ call' = [call EXCEPT ![m].pc = "delete"] \/ call' = Done(m)
    BY <1>13 DEF PlanChunk
  <2>2. call' \in [Member -> CallRow] /\ Calls'
    <3>1. CASE call' = Done(m)
      BY <1>11, <2>1, <3>1
    <3>2. CASE call' = [call EXCEPT ![m].pc = "delete"]
      <4> DEFINE x == [call[m] EXCEPT !.pc = "delete"]
      <4>1. call' = [call EXCEPT ![m] = x]
        BY <1>2, <3>2
      <4>2. x \in CallRow /\ x.run = call[m].run /\ x.todo = call[m].todo
        BY <1>2 DEF CallRow
      <4> HIDE DEF x
      <4> QED BY <1>1, <1>2, <1>3, <2>1, <4>1, <4>2, CallWritten
    <3> QED BY <2>1, <3>1, <3>2
  <2> QED BY <1>2, <1>6, <1>7, <1>8, <2>1, <2>2 DEF Typed, ReleaseTyped
<1>14. CASE DeleteChunk(m)
  <2> DEFINE c == Next1(m)
             r == call[m].run
  <2>1. /\ call[m].pc = "delete" /\ call' = Done(m) /\ UNCHANGED abandoned
        /\ c \in result[r] \/ Free(c)
        /\ bytes' = IF c \in result[r] THEN bytes ELSE bytes \ {c}
        /\ result' = [result EXCEPT ![r] = result[r] \cup {c}]
    BY <1>14 DEF DeleteChunk
  <2>2. r \in abandoned /\ c \in ChunksOf(r)
    BY <1>3, <1>4, <2>1
  <2> HIDE DEF c, r
  <2>3. BytesInv' /\ AttemptsInv' /\ result' \in [Run -> SUBSET AnyChunk]
    BY <1>1, <2>1, <2>2, ReleaseBytes
  <2>4. call' \in [Member -> CallRow] /\ Calls'
    BY <1>11, <2>1
  <2> QED BY <1>2, <1>6, <2>1, <2>3, <2>4 DEF Typed, ReleaseTyped
<1>15. CASE DeleteUnrecorded(m)
  <2> DEFINE c == Next1(m)
             r == call[m].run
  <2>1. /\ call[m].pc = "delete" /\ call' = [call EXCEPT ![m] = Idle] /\ UNCHANGED <<abandoned, result>>
        /\ Free(c) /\ bytes' = bytes \ {c}
    BY <1>15 DEF DeleteUnrecorded
  <2>2. r \in abandoned /\ c \in ChunksOf(r)
    BY <1>3, <1>4, <2>1
  <2> HIDE DEF c, r
  <2>3. BytesInv' /\ AttemptsInv' /\ result' \in [Run -> SUBSET AnyChunk]
    BY <1>1, <2>1, <2>2, ReleaseBytes
  <2>4. call' \in [Member -> CallRow] /\ Calls'
    BY <1>12, <2>1
  <2> QED BY <1>2, <1>6, <2>1, <2>3, <2>4 DEF Typed, ReleaseTyped
<1>16. CASE CallEnds(m)
  <2>1. call' = [call EXCEPT ![m] = Idle] /\ UNCHANGED <<abandoned, result, bytes>>
    BY <1>16 DEF CallEnds
  <2>2. call' \in [Member -> CallRow] /\ Calls'
    BY <1>12, <2>1
  <2> QED BY <1>2, <1>6, <1>7, <1>8, <2>1, <2>2 DEF Typed, ReleaseTyped
<1> QED BY <1>9, <1>10, <1>13, <1>14, <1>15, <1>16 DEF ReleaseStep

-----------------------------------------------------------------------------
(* The invariant and the theorems                                            *)

StagingInv ==
  /\ Typed
  /\ RunsInv
  /\ Calls
  /\ BytesInv
  /\ AttemptsInv

LEMMA StagingInit == Init => StagingInv
<1> SUFFICES ASSUME Init PROVE StagingInv
  OBVIOUS
<1>1. /\ run = [r \in Run |-> [status |-> "NONE", retryOf |-> NoRun]]
      /\ row = [r \in Run |-> <<>>] /\ copy = [r \in Run |-> <<>>] /\ abandoned = {}
      /\ result = [r \in Run |-> {}] /\ call = [m \in Member |-> Idle]
      /\ attempt = [b \in Backup |-> NoAttempt]
  BY DEF Init
<1>2. /\ [status |-> "NONE", retryOf |-> NoRun] \in RunRow /\ Idle \in CallRow /\ NoAttempt \in AttemptRow
      /\ <<>> \in Seq(Run)
  BY DEF RunRow, RunStatus, Idle, CallRow, NoAttempt, AttemptRow
<1>3. Typed
  BY <1>1, <1>2 DEF Typed, RunsTyped, ReleaseTyped
<1>4. RunsInv
  <2>1. Parents /\ AbandonedEnded /\ Copies
    BY <1>1 DEF Parents, AbandonedEnded, Copies
  <2>2. Owners
    BY <1>1 DEF Owners
  <2> QED BY <2>1, <2>2 DEF RunsInv
<1>5. Calls
  BY <1>1 DEF Calls, Idle
<1>6. BytesInv
  <2>1. \A r \in Run : ChunksOf(r) = {}
    BY <1>1 DEF ChunksOf
  <2> QED BY <1>1, <2>1 DEF BytesInv, ReferencedIsThere, Referenced, ReleasedStaysGone, ResultsEnded
<1>7. AttemptsInv
  BY <1>1 DEF AttemptsInv, AttemptSound, Holding, NoAttempt
<1> QED BY <1>3, <1>4, <1>5, <1>6, <1>7 DEF StagingInv

LEMMA StagingNext == StagingInv /\ [Next]_vars => StagingInv'
<1> SUFFICES ASSUME StagingInv, [Next]_vars PROVE StagingInv'
  OBVIOUS
<1>1. Typed /\ RunsInv /\ Calls /\ BytesInv /\ AttemptsInv
  BY DEF StagingInv
<1>2. ASSUME NEW r \in Run, RunStep(r) PROVE StagingInv'
  <2>1. RunsTyped' /\ RunsInv'
    BY <1>1, <1>2, RunsNext
  <2>2. /\ UNCHANGED <<abandoned, result, call, attempt>>
        /\ \A q \in Run : Ended(q) => Ended(q)' /\ row'[q] = row[q]
    BY <1>1, <1>2, RowsRest
  <2>3. Typed'
    BY <1>1, <2>1, <2>2 DEF Typed, ReleaseTyped
  <2>4. Calls'
    <3>1. \A q \in abandoned : ChunksOf(q)' = ChunksOf(q)
      BY <1>1, <2>2 DEF RunsInv, AbandonedEnded, Typed, ReleaseTyped, ChunksOf
    <3> QED BY <1>1, <2>2, <3>1 DEF Calls
  <2>5. BytesInv'
    BY <1>1, <1>2, RunBytes
  <2>6. AttemptsInv'
    <3>1. bytes \subseteq bytes'
      BY <1>2, BytesGrow
    <3> QED BY <1>1, <2>2, <3>1 DEF AttemptsInv, AttemptSound, Holding
  <2> QED BY <2>1, <2>3, <2>4, <2>5, <2>6 DEF StagingInv
<1>3. ASSUME NEW m \in Member, ReleaseStep(m) PROVE StagingInv'
  BY <1>1, <1>3, ReleaseNext DEF StagingInv
<1>4. ASSUME (\E b \in Backup : BackupStep(b)) \/ RecoverAbandoned PROVE StagingInv'
  <2>1. /\ attempt' \in [Backup -> AttemptRow] /\ AttemptsInv'
        /\ UNCHANGED <<bytes, run, row, copy, abandoned, result, call>>
    BY <1>1, <1>4, BackupsNext, RecoverNext
  <2>2. Typed'
    BY <1>1, <2>1 DEF Typed, RunsTyped, ReleaseTyped
  <2>3. RunsInv'
    BY <1>1, <2>1 DEF RunsInv, Parents, AbandonedEnded, Copies, Owners, Ended
  <2>4. Calls'
    BY <1>1, <2>1 DEF Calls, ChunksOf
  <2>5. BytesInv'
    BY <1>1, <2>1
       DEF BytesInv, ReferencedIsThere, Referenced, ChunksOf, ReleasedStaysGone, ResultsEnded, Ended
  <2> QED BY <2>1, <2>2, <2>3, <2>4, <2>5 DEF StagingInv
<1>5. CASE UNCHANGED vars
  <2>1. Typed' /\ Calls' /\ AttemptsInv'
    BY <1>1, <1>5
       DEF vars, Typed, RunsTyped, ReleaseTyped, Calls, ChunksOf, AttemptsInv, AttemptSound, Holding
  <2>2. RunsInv'
    BY <1>1, <1>5 DEF vars, RunsInv, Parents, AbandonedEnded, Copies, Owners, Ended
  <2>3. BytesInv'
    BY <1>1, <1>5
       DEF vars, BytesInv, ReferencedIsThere, Referenced, ChunksOf, ReleasedStaysGone, ResultsEnded, Ended
  <2> QED BY <2>1, <2>2, <2>3 DEF StagingInv
<1> QED BY <1>2, <1>3, <1>4, <1>5 DEF Next

LEMMA StagingCorrect == Spec => []StagingInv
BY StagingInit, StagingNext, PTL DEF Spec

(* The bytes behind the checkpoints of every run that nobody abandoned are   *)
(* on disk, although a retry reads the prefix it takes over outside its      *)
(* lease: a run is abandoned only after its retries, and those only when     *)
(* they ended (upload-service.js, reuseRetryPrefix; staging-service.js).     *)
THEOREM ReferencedIsThereCorrect == Spec => []ReferencedIsThere
<1>1. StagingInv => ReferencedIsThere
  BY DEF StagingInv, BytesInv
<1> QED BY <1>1, StagingCorrect, PTL

(* A chunk whose removal is on record does not come back: whoever sent it    *)
(* ended, and publishes inside its lease only (blob-store.js, put).          *)
THEOREM ReleasedStaysGoneCorrect == Spec => []ReleasedStaysGone
<1>1. StagingInv => ReleasedStaysGone
  BY DEF StagingInv, BytesInv
<1> QED BY <1>1, StagingCorrect, PTL

(* The chunks a sealed backup target lists are on disk, wherever its attempt *)
(* failed or died: until its index is complete nothing at all is released    *)
(* (staging-service.js, protection).                                         *)
THEOREM BackupsKeptCorrect == Spec => []BackupsKept
<1>1. StagingInv => BackupsKept
  BY DEF StagingInv, AttemptsInv, Holding, BackupsKept
<1> QED BY <1>1, StagingCorrect, PTL
=============================================================================
