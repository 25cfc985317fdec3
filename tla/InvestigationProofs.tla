------------------------ MODULE InvestigationProofs ------------------------
(* Proofs about Investigation for any number of processes, tasks, adoptions,  *)
(* generations and any budget.                                                *)
EXTENDS Investigation, FiniteSetTheorems, WellFoundedInduction, TLAPS

-----------------------------------------------------------------------------
(* Type correctness *)

LEMMA BasicTypes ==
  /\ 0 \in Basis /\ 0 \in Nat /\ 1 \in Task
  /\ NoCall \in CallRecord
  /\ Idle \in JobRecord
<1>1. 0 \in Basis /\ 1 \in Task
  BY InvestigationAssumption DEF Basis, Task
<1>2. NoCall \in CallRecord
  BY <1>1 DEF NoCall, CallOf, CallRecord, Outcome, Known
<1>3. 0 \in 0..MaxGeneration
  BY InvestigationAssumption
<1>4. Idle \in JobRecord
  BY <1>1, <1>3 DEF Idle, JobOf, JobRecord, Code
<1> QED BY <1>1, <1>2, <1>4

LEMMA TypeInit == Init => TypeOK
<1> SUFFICES ASSUME Init PROVE TypeOK
  OBVIOUS
<1>1. row \in Row
  BY BasicTypes DEF Init, Row, State, Code
<1>2. calls \in [Call -> CallRecord]
  BY BasicTypes DEF Init
<1>3. jobs \in [Process -> JobRecord]
  BY BasicTypes DEF Init
<1> QED BY <1>1, <1>2, <1>3 DEF Init, TypeOK

\* The row after any move of its state.
LEMMA RowMoves ==
  ASSUME row \in Row, NEW s \in State, NEW g \in Nat, NEW f \in Code, MovesTo(s, g, f)
  PROVE  row' \in Row
BY DEF MovesTo, Row

LEMMA RowFields ==
  ASSUME row \in Row
  PROVE  /\ row.generation \in Nat /\ row.generation + 1 \in Nat
         /\ row.adopted \in Basis /\ row.failure \in Code
BY DEF Row

\* The fields of a job.
LEMMA JobFields ==
  ASSUME TypeOK, NEW p \in Process
  PROVE  /\ jobs[p] \in JobRecord
         /\ jobs[p].generation \in 0..MaxGeneration /\ jobs[p].basis \in Basis
         /\ jobs[p].task \in Task
BY DEF TypeOK, JobRecord

LEMMA TypeExpires ==
  ASSUME TypeOK, ExpireIfDue
  PROVE  row' \in Row
<1>1. "FAILED" \in State /\ "F003_DEADLINE_EXCEEDED" \in Code
  BY DEF State, Code
<1> QED BY <1>1, RowMoves, RowFields DEF ExpireIfDue, TypeOK

LEMMA TypeMembers ==
  ASSUME TypeOK, Members
  PROVE  TypeOK'
<1> USE DEF surroundings
<1>0. row \in Row /\ {"QUEUED", "PAUSED", "CANCELLED"} \subseteq State
  BY DEF TypeOK, State
<1>1. CASE Start
  BY <1>0, <1>1 DEF Start, TypeOK, Row
<1>2. CASE ControlResume
  <2>1. row' \in Row
    BY <1>0, <1>2, RowMoves, RowFields DEF ControlResume
  <2>2. resumes' \in SUBSET Nat
    BY <1>0, <1>2, RowFields DEF ControlResume, TypeOK
  <2> QED BY <1>2, <2>1, <2>2 DEF ControlResume, TypeOK
<1>3. ASSUME NEW p \in Process, ControlPause(p)
      PROVE  TypeOK'
  <2>1. row' \in Row
    BY <1>0, <1>3, RowMoves, RowFields DEF ControlPause
  <2> QED BY <1>3, <2>1 DEF ControlPause, WillStop, TypeOK
<1>4. ASSUME NEW p \in Process, ControlCancel(p)
      PROVE  TypeOK'
  <2>1. row' \in Row
    BY <1>0, <1>4, RowMoves, RowFields DEF ControlCancel
  <2> QED BY <1>4, <2>1 DEF ControlCancel, WillStop, TypeOK
<1>5. ASSUME NEW p \in Process, AdoptTechnicalVersion(p)
      PROVE  TypeOK'
  <2>1. row.adopted + 1 \in Basis
    BY <1>0, <1>5, RowFields, InvestigationAssumption DEF AdoptTechnicalVersion, Basis
  <2>2. row' = [state |-> "QUEUED", generation |-> row.generation + 1, adopted |-> row.adopted + 1,
                worker |-> NoProcess, lease |-> FALSE, failure |-> row.failure]
    BY <1>0, <1>5 DEF AdoptTechnicalVersion, Row
  <2>3. row' \in Row
    BY <1>0, <2>1, <2>2, RowFields DEF Row
  <2> QED BY <1>5, <2>3 DEF AdoptTechnicalVersion, WillStop, TypeOK
<1> QED BY <1>1, <1>2, <1>3, <1>4, <1>5 DEF Members

\* Every way a job moves keeps its record well formed.
LEMMA TypeJobMoves ==
  ASSUME TypeOK, NEW p \in Process
  PROVE  /\ \A pc \in {"idle", "opening", "claiming", "stage", "call", "save", "completing", "catching", "ending"} :
              JobGoes(p, pc) => jobs' \in [Process -> JobRecord]
         /\ \A code \in Code \cup {"SHUTDOWN"} : JobCatches(p, code) => jobs' \in [Process -> JobRecord]
         /\ JobEnds(p) => jobs' \in [Process -> JobRecord]
         /\ NextTask(p) => jobs' \in [Process -> JobRecord]
<1>0. jobs \in [Process -> JobRecord] /\ jobs[p] \in JobRecord
  BY DEF TypeOK
<1>1. ASSUME NEW pc \in {"idle", "opening", "claiming", "stage", "call", "save", "completing", "catching", "ending"},
             JobGoes(p, pc)
      PROVE  jobs' \in [Process -> JobRecord]
  BY <1>0, <1>1 DEF JobGoes, JobRecord
<1>2. ASSUME NEW code \in Code \cup {"SHUTDOWN"}, JobCatches(p, code)
      PROVE  jobs' \in [Process -> JobRecord]
  BY <1>0, <1>2 DEF JobCatches, JobRecord
<1>3. ASSUME JobEnds(p)
      PROVE  jobs' \in [Process -> JobRecord]
  BY <1>0, <1>3, BasicTypes DEF JobEnds
<1>4. ASSUME NextTask(p)
      PROVE  jobs' \in [Process -> JobRecord]
  <2>1. CASE jobs[p].task = Tasks
    BY <1>1, <1>4, <2>1 DEF NextTask
  <2>2. CASE jobs[p].task # Tasks
    <3>1. jobs[p].task + 1 \in Task
      BY <2>2, JobFields, InvestigationAssumption DEF Task
    <3>2. JobOf("stage", jobs[p].generation, jobs[p].basis, jobs[p].task + 1, jobs[p].stop, jobs[p].code) \in JobRecord
      BY <1>0, <3>1 DEF JobOf, JobRecord
    <3> QED BY <1>0, <1>4, <2>2, <3>2 DEF NextTask, JobAsks
  <2> QED BY <2>1, <2>2
<1> QED BY <1>1, <1>2, <1>3, <1>4

\* Rewriting one call.
LEMMA TypeCallWrites ==
  ASSUME TypeOK, NEW c \in Call, NEW new \in CallRecord, calls' = [calls EXCEPT ![c] = new]
  PROVE  calls' \in [Call -> CallRecord]
BY DEF TypeOK

\* The call a job with a task works at.
LEMMA JobCall ==
  ASSUME TypeOK, NEW p \in Process, jobs[p].generation # 0
  PROVE  jobs[p].generation \in Generation /\ CallOfJob(p) \in Call
BY JobFields, InvestigationAssumption DEF Call, CallOfJob, Generation

\* A write to one call of any generation and task.
LEMMA TypeCallFields ==
  ASSUME TypeOK, NEW c
  PROVE  /\ \A new \in CallRecord : calls' = [calls EXCEPT ![c] = new] => calls' \in [Call -> CallRecord]
         /\ \A client \in {"reserved", "sent", "answered", "erred", "done"} :
              CallGoes(c, client) => calls' \in [Call -> CallRecord]
         /\ calls' = [calls EXCEPT ![c].saved = TRUE] => calls' \in [Call -> CallRecord]
<1>0. calls \in [Call -> CallRecord]
  BY DEF TypeOK
<1>1. CASE c \in Call
  <2>0. calls[c] \in CallRecord
    BY <1>0, <1>1
  <2>1. \A new \in CallRecord : [calls EXCEPT ![c] = new] \in [Call -> CallRecord]
    BY <1>0
  <2>2. ASSUME NEW client \in {"reserved", "sent", "answered", "erred", "done"}
        PROVE  [calls[c] EXCEPT !.client = client] \in CallRecord
    BY <2>0 DEF CallRecord
  <2>3. [calls[c] EXCEPT !.saved = TRUE] \in CallRecord
    BY <2>0 DEF CallRecord
  <2> QED BY <2>1, <2>2, <2>3 DEF CallGoes
<1>2. CASE c \notin Call
  BY <1>0, <1>2 DEF CallGoes
<1> QED BY <1>1, <1>2

LEMMA TypeJobStep ==
  ASSUME TypeOK, NEW p \in Process, JobStep(p)
  PROVE  TypeOK'
<1> USE DEF surroundings, investigation
<1>0. row \in Row /\ jobs \in [Process -> JobRecord]
  BY DEF TypeOK
<1>1. CASE OpenJob(p)
  <2>1. row' \in Row
    BY <1>0, <1>1, TypeExpires DEF OpenJob
  <2>2. jobs' \in [Process -> JobRecord]
    BY <1>1, TypeJobMoves DEF OpenJob
  <2> QED BY <1>1, <2>1, <2>2 DEF OpenJob, TypeOK
<1>2. CASE Claim(p)
  <2>1. row.generation + 1 \in 0..MaxGeneration
    BY <1>0, <1>2, RowFields, InvestigationAssumption DEF Claim, Room
  <2>2. JobOf("stage", row.generation + 1, row.adopted, 1, "no", "NONE") \in JobRecord
    BY <1>0, <2>1, RowFields, BasicTypes DEF JobOf, JobRecord, Code
  <2>3. row' = [state |-> "RUNNING", generation |-> row.generation + 1, adopted |-> row.adopted,
                worker |-> p, lease |-> TRUE, failure |-> row.failure]
    BY <1>0, <1>2 DEF Claim, Row
  <2>4. row' \in Row
    BY <1>0, <2>3, RowFields DEF Row, State
  <2> QED BY <1>0, <1>2, <2>2, <2>4 DEF Claim, TypeOK
<1>3. CASE ClaimRefused(p)
  BY <1>3, TypeJobMoves DEF ClaimRefused, TypeOK
<1>4. CASE Aborts(p)
  <2>1. jobs' \in [Process -> JobRecord]
    BY <1>4, TypeJobMoves DEF Aborts, Code
  <2> QED BY <1>4, <2>1 DEF Aborts, TypeOK
<1>5. CASE Reuse(p)
  <2>1. jobs' \in [Process -> JobRecord]
    BY <1>5, TypeJobMoves DEF Reuse, Code
  <2> QED BY <1>5, <2>1 DEF Reuse, TypeOK
<1>6. CASE ReserveModelCall(p)
  <2>1. CallOf(TRUE, FALSE, "OPEN", 0, row.adopted, FALSE, "reserved", p) \in CallRecord
    BY <1>0, RowFields DEF CallOf, CallRecord, Outcome, Known
  <2>2. calls' \in [Call -> CallRecord]
    BY <1>6, <2>1, TypeCallFields DEF ReserveModelCall
  <2>3. jobs' \in [Process -> JobRecord]
    BY <1>6, TypeJobMoves DEF ReserveModelCall
  <2>4. modelCalls' \in Nat
    BY <1>6 DEF ReserveModelCall, Charge, TypeOK
  <2> QED BY <1>6, <2>2, <2>3, <2>4 DEF ReserveModelCall, TypeOK
<1>7. CASE ReserveRefused(p)
  <2>1. \A t, g : Refusal(t, g) \in Code
    BY DEF Refusal, Code
  <2>2. jobs' \in [Process -> JobRecord]
    BY <1>7, <2>1, TypeJobMoves DEF ReserveRefused, Code
  <2> QED BY <1>7, <2>2 DEF ReserveRefused, TypeOK
<1>8. CASE Checkpoint(p)
  <2>1. calls' \in [Call -> CallRecord]
    BY <1>8, TypeCallFields DEF Checkpoint, TypeOK
  <2>2. jobs' \in [Process -> JobRecord]
    BY <1>8, TypeJobMoves DEF Checkpoint, Code
  <2> QED BY <1>8, <2>1, <2>2 DEF Checkpoint, TypeOK
<1>9. CASE Complete(p)
  <2>1. row' \in Row
    BY <1>0, <1>9, RowMoves, RowFields DEF Complete, State
  <2>2. jobs' \in [Process -> JobRecord]
    BY <1>9, TypeJobMoves DEF Complete, Code
  <2> QED BY <1>9, <2>1, <2>2 DEF Complete, TypeOK
<1>10. CASE CatchExpires(p)
  <2>1. row' \in Row
    BY <1>10, TypeExpires DEF CatchExpires
  <2>2. jobs' \in [Process -> JobRecord]
    BY <1>10, TypeJobMoves DEF CatchExpires
  <2> QED BY <1>10, <2>1, <2>2 DEF CatchExpires, TypeOK
<1>11. CASE CatchSettles(p)
  <2>1. jobs[p].code # "SHUTDOWN" => jobs[p].code \in Code
    BY JobFields DEF JobRecord
  <2>2. row' \in Row
    <3>1. {"QUEUED", "FAILED"} \subseteq State
      BY DEF State
    <3> QED BY <1>0, <1>11, <2>1, <3>1, RowMoves, RowFields DEF CatchSettles
  <2>3. jobs' \in [Process -> JobRecord]
    BY <1>11, TypeJobMoves DEF CatchSettles
  <2> QED BY <1>11, <2>2, <2>3 DEF CatchSettles, TypeOK
<1> QED BY <1>1, <1>2, <1>3, <1>4, <1>5, <1>6, <1>7, <1>8, <1>9, <1>10, <1>11 DEF JobStep

LEMMA TypeFinished ==
  ASSUME TypeOK, NEW c \in Call, NEW outcome \in Outcome, NEW client \in {"done", "erred"},
         Finished(c, outcome, client)
  PROVE  calls' \in [Call -> CallRecord]
<1>1. CASE calls[c].outcome = "OPEN"
  <2>1. calls[c] \in CallRecord /\ row.generation \in Nat
    BY RowFields DEF TypeOK
  <2>2. CallOf(calls[c].reserved, calls[c].started, outcome, row.generation, calls[c].basis,
               calls[c].saved, client, calls[c].by) \in CallRecord
    BY <2>1 DEF CallOf, CallRecord
  <2> QED BY <1>1, <2>2, TypeCallFields DEF Finished
<1>2. CASE calls[c].outcome # "OPEN"
  BY <1>2, TypeCallFields DEF Finished
<1> QED BY <1>1, <1>2

LEMMA TypeReturns ==
  ASSUME TypeOK, NEW c \in Call, NEW pc \in {"save", "catching"}, NEW code \in Code, JobReturns(c, pc, code)
  PROVE  jobs' \in [Process -> JobRecord]
<1>0. jobs \in [Process -> JobRecord] /\ calls[c].by \in Process \cup {NoProcess}
  BY DEF TypeOK, CallRecord
<1>1. CASE Awaited(c)
  <2>1. calls[c].by \in Process
    BY <1>0, <1>1 DEF Awaited
  <2> DEFINE q == calls[c].by
             job == [jobs[q] EXCEPT !.pc = pc, !.code = code]
  <2>2. jobs[q] \in JobRecord
    BY <1>0, <2>1
  <2>3. job \in JobRecord
    <3> HIDE DEF q
    <3> QED BY <2>2 DEF JobRecord
  <2>4. jobs' = [jobs EXCEPT ![q] = job]
    BY <1>1 DEF JobReturns
  <2> HIDE DEF q, job
  <2> QED BY <1>0, <2>3, <2>4
<1>2. CASE ~Awaited(c)
  BY <1>0, <1>2 DEF JobReturns
<1> QED BY <1>1, <1>2

LEMMA TypeCallStep ==
  ASSUME TypeOK, NEW c \in Call, CallStep(c)
  PROVE  TypeOK'
<1> USE DEF surroundings
<1>0. calls \in [Call -> CallRecord] /\ {"SUCCEEDED", "DISCARDED", "FAILED", "ABORTED"} \subseteq Outcome
      /\ {"NONE", "OTHER"} \subseteq Code
  BY DEF TypeOK, Outcome, Known, Code
<1>1. CASE Begin(c)
  <2>1. calls' \in [Call -> CallRecord]
    BY <1>0, <1>1, TypeCallFields DEF Begin, CallRecord
  <2> QED BY <1>1, <2>1 DEF Begin, TypeOK
<1>2. CASE Answer(c)
  <2>1. calls' \in [Call -> CallRecord]
    BY <1>2, TypeCallFields DEF Answer
  <2> QED BY <1>2, <2>1 DEF Answer, TypeOK
<1>3. CASE FinishSucceeded(c)
  <2>1. calls' \in [Call -> CallRecord]
    BY <1>0, <1>3, TypeCallFields, TypeFinished DEF FinishSucceeded
  <2>2. jobs' \in [Process -> JobRecord]
    BY <1>0, <1>3, TypeReturns DEF FinishSucceeded, TypeOK
  <2> QED BY <1>3, <2>1, <2>2 DEF FinishSucceeded, TypeOK
<1>4. CASE FinishFailed(c)
  <2>1. calls' \in [Call -> CallRecord]
    BY <1>0, <1>4, TypeCallFields, TypeFinished DEF FinishFailed
  <2>2. jobs' \in [Process -> JobRecord]
    BY <1>0, <1>4, TypeReturns DEF FinishFailed
  <2> QED BY <1>4, <2>1, <2>2 DEF FinishFailed, TypeOK
<1> QED BY <1>1, <1>2, <1>3, <1>4 DEF CallStep

LEMMA TypeEnds ==
  ASSUME TypeOK, NEW p \in Process, Ends(p)
  PROVE  TypeOK'
<1>1. calls' \in [Call -> CallRecord]
  BY DEF Ends, TypeOK, CallRecord
<1>2. jobs' \in [Process -> JobRecord]
  BY TypeJobMoves DEF Ends
<1> QED BY <1>1, <1>2 DEF Ends, TypeOK

\* What happens around the investigation.
Around ==
  \/ \E p \in Process : Dispatch(p) \/ HeartbeatFails(p) \/ WorkerStop(p)
                        \/ Crash(p) \/ Close(p) \/ Exit(p) \/ Open(p)
  \/ LeaseExpires \/ DeadlinePasses \/ RaiseBarrier \/ LowerBarrier

LEMMA TypeAround ==
  ASSUME TypeOK, Around
  PROVE  TypeOK'
<1> USE DEF surroundings, investigation
<1>0. jobs \in [Process -> JobRecord]
  BY DEF TypeOK
<1>1. ASSUME NEW p \in Process, Dispatch(p)
      PROVE  TypeOK'
  BY <1>1, TypeJobMoves DEF Dispatch, TypeOK
<1>2. ASSUME NEW p \in Process, HeartbeatFails(p) \/ WorkerStop(p)
      PROVE  TypeOK'
  <2>1. jobs' \in [Process -> JobRecord]
    BY <1>0, <1>2 DEF HeartbeatFails, WorkerStop, JobRecord
  <2> QED BY <1>2, <2>1 DEF HeartbeatFails, WorkerStop, TypeOK
<1>3. ASSUME NEW p \in Process, Crash(p) \/ Exit(p)
      PROVE  TypeOK'
  BY <1>3, TypeEnds DEF Crash, Exit
<1>4. ASSUME NEW p \in Process, Close(p)
      PROVE  TypeOK'
  <2>1. jobs' \in [Process -> JobRecord]
    BY <1>0, <1>4 DEF Close, JobRecord
  <2> QED BY <1>4, <2>1 DEF Close, TypeOK
<1>5. ASSUME NEW p \in Process, Open(p)
      PROVE  TypeOK'
  BY <1>5 DEF Open, TypeOK
<1>6. CASE LeaseExpires
  BY <1>6 DEF LeaseExpires, TypeOK, Row
<1>7. CASE DeadlinePasses
  BY <1>7 DEF DeadlinePasses, TypeOK
<1>8. CASE RaiseBarrier \/ LowerBarrier
  BY <1>8 DEF RaiseBarrier, LowerBarrier, TypeOK
<1> QED BY <1>1, <1>2, <1>3, <1>4, <1>5, <1>6, <1>7, <1>8 DEF Around

LEMMA NextCases ==
  ASSUME [Next]_vars
  PROVE  \/ Members \/ Around
         \/ \E p \in Process : JobStep(p)
         \/ \E c \in Call : CallStep(c)
         \/ UNCHANGED vars
BY DEF Next, Around

LEMMA TypeNext ==
  ASSUME TypeOK, [Next]_vars
  PROVE  TypeOK'
<1>1. CASE UNCHANGED vars
  BY <1>1 DEF vars, investigation, surroundings, TypeOK
<1> QED BY <1>1, NextCases, TypeMembers, TypeAround, TypeJobStep, TypeCallStep

\* The row of the investigation, its reservations and the jobs of all
\* processes keep their types (the columns of f003_investigation and its events).
THEOREM TypeCorrect == Spec => []TypeOK
BY TypeInit, TypeNext, PTL DEF Spec

-----------------------------------------------------------------------------
(* What a step does to the events of the calls *)

\* What the events say of a call stays.
SameEvent(c) ==
  /\ calls'[c].reserved = calls[c].reserved /\ calls'[c].started = calls[c].started
  /\ calls'[c].outcome = calls[c].outcome /\ calls'[c].at = calls[c].at
  /\ calls'[c].basis = calls[c].basis
SameEvents == \A c \in Call : SameEvent(c)

\* The call c is sent.
Sends(c) ==
  /\ calls[c].client = "reserved" /\ row.generation = c[1]
  /\ calls' = [calls EXCEPT ![c] = [@ EXCEPT !.started = TRUE, !.client = "sent"]]
  /\ UNCHANGED <<row, resumes, jobs>>

\* The end of the call c is recorded.
Settles(c, outcome) ==
  /\ calls[c].client \in {"answered", "erred"} /\ calls[c].outcome = "OPEN"
  /\ Finished(c, outcome, "done")
  /\ UNCHANGED <<row, resumes>>

\* The row never goes back to an earlier generation.
LEMMA Forward ==
  ASSUME TypeOK, [Next]_vars
  PROVE  row.generation \in Nat /\ row'.generation \in Nat /\ row.generation <= row'.generation
<1>0. row \in Row /\ row.generation \in Nat
  BY RowFields DEF TypeOK
<1>1. CASE row' = row
  BY <1>0, <1>1
<1>2. ASSUME NEW s, NEW f, NEW g \in {row.generation, row.generation + 1}, MovesTo(s, g, f)
      PROVE  row'.generation \in Nat /\ row.generation <= row'.generation
  BY <1>0, <1>2 DEF MovesTo, Row
<1>3. CASE Members
  <2>1. ASSUME NEW p \in Process, AdoptTechnicalVersion(p)
        PROVE  row'.generation \in Nat /\ row.generation <= row'.generation
    BY <1>0, <2>1 DEF AdoptTechnicalVersion, Row
  <2>2. CASE Start
    BY <1>0, <2>2 DEF Start, Row
  <2> QED BY <1>0, <1>2, <1>3, <2>1, <2>2 DEF Members, ControlResume, ControlPause, ControlCancel
<1>4. CASE Around
  <2>1. CASE LeaseExpires
    BY <1>0, <2>1 DEF LeaseExpires, Row
  <2>2. CASE ~LeaseExpires
    BY <1>0, <1>1, <1>4, <2>2
    DEF Around, Dispatch, HeartbeatFails, WorkerStop, Crash, Close, Exit, Open, Ends, DeadlinePasses,
        RaiseBarrier, LowerBarrier, investigation
  <2> QED BY <2>1, <2>2
<1>5. ASSUME NEW p \in Process, JobStep(p)
      PROVE  row'.generation \in Nat /\ row.generation <= row'.generation
  <2>1. CASE Claim(p)
    BY <1>0, <2>1 DEF Claim, Row
  <2>2. ASSUME ExpireIfDue
        PROVE  row'.generation \in Nat /\ row.generation <= row'.generation
    BY <1>0, <1>1, <1>2, <2>2 DEF ExpireIfDue
  <2>3. CASE ClaimRefused(p) \/ Aborts(p) \/ Reuse(p) \/ ReserveModelCall(p) \/ ReserveRefused(p) \/ Checkpoint(p)
    BY <1>0, <1>1, <2>3 DEF ClaimRefused, Aborts, Reuse, ReserveModelCall, ReserveRefused, Checkpoint, investigation
  <2>4. CASE OpenJob(p) \/ CatchExpires(p)
    BY <1>0, <1>1, <2>2, <2>4 DEF OpenJob, CatchExpires
  <2>5. CASE Complete(p) \/ CatchSettles(p)
    BY <1>0, <1>1, <1>2, <2>5 DEF Complete, CatchSettles
  <2> QED BY <1>5, <2>1, <2>3, <2>4, <2>5 DEF JobStep
<1>6. ASSUME NEW c \in Call, CallStep(c)
      PROVE  row' = row
  BY <1>6 DEF CallStep, Begin, Answer, FinishSucceeded, FinishFailed
<1>7. CASE UNCHANGED vars
  BY <1>0, <1>7 DEF vars, investigation
<1> QED BY <1>0, <1>1, <1>3, <1>4, <1>5, <1>6, <1>7, NextCases

LEMMA SameWhenEqual ==
  ASSUME calls' = calls
  PROVE  SameEvents
BY DEF SameEvents, SameEvent

LEMMA SameWhenGoes ==
  ASSUME TypeOK, NEW c, NEW client, CallGoes(c, client)
  PROVE  SameEvents
BY DEF SameEvents, SameEvent, CallGoes, TypeOK, CallRecord

\* A step of the call itself.
LEMMA CallEffects ==
  ASSUME TypeOK, NEW c \in Call, CallStep(c)
  PROVE  /\ UNCHANGED <<row, resumes>>
         /\ \/ SameEvents
            \/ Sends(c)
            \/ \E outcome \in Outcome \ {"OPEN"} : Settles(c, outcome)
<1>0. {"SUCCEEDED", "DISCARDED", "FAILED", "ABORTED"} \subseteq Outcome \ {"OPEN"}
  BY DEF Outcome, Known
<1>1. CASE Begin(c)
  BY <1>1, SameWhenGoes DEF Begin, Sends, Running
<1>2. CASE Answer(c)
  BY <1>2, SameWhenGoes DEF Answer
<1>3. ASSUME NEW outcome \in Outcome \ {"OPEN"}, Finished(c, outcome, "done"),
             calls[c].client \in {"answered", "erred"}, UNCHANGED <<row, resumes>>
      PROVE  SameEvents \/ Settles(c, outcome)
  BY <1>3, SameWhenGoes DEF Finished, Settles
<1>4. CASE FinishSucceeded(c)
  BY <1>0, <1>3, <1>4, SameWhenGoes DEF FinishSucceeded
<1>5. CASE FinishFailed(c)
  BY <1>0, <1>3, <1>5, SameWhenGoes DEF FinishFailed
<1>6. UNCHANGED <<row, resumes>>
  BY DEF CallStep, Begin, Answer, FinishSucceeded, FinishFailed
<1> QED BY <1>1, <1>2, <1>4, <1>5, <1>6 DEF CallStep

\* Every step: a member's resume, a reservation, a call sent, a call ended, or
\* nothing that the events show.
LEMMA Effects ==
  ASSUME TypeOK, [Next]_vars
  PROVE  \/ SameEvents /\ resumes' = resumes
         \/ ControlResume /\ calls' = calls
         \/ \E p \in Process : ReserveModelCall(p)
         \/ \E c \in Call : Sends(c)
         \/ \E c \in Call : \E outcome \in Outcome \ {"OPEN"} : Settles(c, outcome)
<1>1. CASE Members
  BY <1>1, SameWhenEqual DEF Members, Start, ControlResume, ControlPause, ControlCancel, AdoptTechnicalVersion
<1>2. ASSUME NEW p \in Process, Ends(p)
      PROVE  SameEvents
  BY <1>2 DEF Ends, SameEvents, SameEvent, TypeOK, CallRecord
<1>3. CASE Around
  <2>1. CASE \E p \in Process : Crash(p) \/ Exit(p)
    BY <1>2, <2>1 DEF Crash, Exit, Ends
  <2>2. CASE ~\E p \in Process : Crash(p) \/ Exit(p)
    BY <1>3, <2>2, SameWhenEqual
    DEF Around, Dispatch, HeartbeatFails, WorkerStop, Close, Open, LeaseExpires, DeadlinePasses,
        RaiseBarrier, LowerBarrier, investigation
  <2> QED BY <2>1, <2>2
<1>4. ASSUME NEW p \in Process, JobStep(p)
      PROVE  (SameEvents /\ resumes' = resumes) \/ ReserveModelCall(p)
  <2>1. CASE Checkpoint(p)
    BY <2>1, SameWhenEqual DEF Checkpoint, SameEvents, SameEvent, TypeOK, CallRecord
  <2>2. CASE ~Checkpoint(p)
    BY <1>4, <2>2, SameWhenEqual
    DEF JobStep, OpenJob, Claim, ClaimRefused, Aborts, Reuse, ReserveRefused, Complete, CatchExpires,
        CatchSettles, investigation
  <2> QED BY <2>1, <2>2
<1>5. CASE \E c \in Call : CallStep(c)
  BY <1>5, CallEffects
<1>6. CASE UNCHANGED vars
  BY <1>6, SameWhenEqual DEF vars, investigation
<1> QED BY <1>1, <1>3, <1>4, <1>5, <1>6, NextCases

-----------------------------------------------------------------------------
(* The strengthening *)

\* A call that was not reserved carries nothing; no call is of a generation to
\* come; its end is recorded once, when the code that executes it is done.
CallFact(c) ==
  LET call == calls[c] IN
  /\ call.reserved => c[1] <= row.generation
  /\ ~call.reserved => ~call.started /\ call.outcome = "OPEN" /\ call.client = "none"
  /\ call.client = "reserved" => ~call.started
  /\ call.client \in {"sent", "answered"} => call.started
  /\ call.client \in {"reserved", "sent", "answered", "erred"} => call.outcome = "OPEN"
  /\ call.outcome # "OPEN" => call.at <= row.generation
CallFacts == \A c \in Call : CallFact(c)

\* A resume gave the row the generation it is known by.
ResumeFacts == \A r \in resumes : r <= row.generation

\* A job works for a generation of its own that the row reached, and reserved
\* nothing beyond the task it is at.
JobFact(p) ==
  Working(p) =>
    /\ 1 <= jobs[p].generation /\ jobs[p].generation <= row.generation
    /\ \A q \in Process : Working(q) /\ q # p => jobs[q].generation # jobs[p].generation
    /\ \A t \in Task : t > jobs[p].task \/ (t = jobs[p].task /\ jobs[p].pc = "stage") =>
         ~calls[<<jobs[p].generation, t>>].reserved
JobFacts == \A p \in Process : JobFact(p)

\* A task is reserved again on the same basis only after a call that was sent
\* is known to have failed and a member resumed the work.
Ordered ==
  \A t \in Task : \A g, h \in Generation :
    LET first == calls[<<g, t>>]  second == calls[<<h, t>>] IN
    g < h /\ first.started /\ second.reserved /\ first.basis = second.basis =>
      /\ ~Question
      /\ first.outcome \in Known
      /\ \E r \in resumes : first.at < r /\ r < h

CallsInv == TypeOK /\ CallFacts /\ ResumeFacts /\ JobFacts /\ Ordered

LEMMA CallTyped ==
  ASSUME TypeOK, NEW c \in Call
  PROVE  /\ calls[c] \in CallRecord /\ calls[c].at \in Nat
         /\ c[1] \in Nat /\ c = <<c[1], c[2]>> /\ c[1] \in Generation /\ c[2] \in Task
BY DEF TypeOK, CallRecord, Call, Generation

\* A call a step leaves alone keeps its facts.
LEMMA CallFactKept ==
  ASSUME TypeOK, [Next]_vars, NEW c \in Call, CallFact(c), calls'[c] = calls[c]
  PROVE  CallFact(c)'
BY CallTyped, Forward DEF CallFact

\* What a job reserves is the current generation's.
LEMMA Reserves ==
  ASSUME TypeOK, JobFacts, NEW p \in Process, ReserveModelCall(p)
  PROVE  /\ CallOfJob(p) \in Call /\ CallOfJob(p)[1] = row.generation
         /\ CallOfJob(p)[2] = jobs[p].task /\ jobs[p].task \in Task /\ row.generation \in Generation
         /\ calls'[CallOfJob(p)] = CallOf(TRUE, FALSE, "OPEN", 0, row.adopted, FALSE, "reserved", p)
         /\ \A d \in Call : d # CallOfJob(p) => calls'[d] = calls[d]
         /\ ~calls[CallOfJob(p)].reserved
         /\ UNCHANGED <<row, resumes>>
<1>1. Working(p) /\ jobs[p].pc = "stage"
  BY DEF ReserveModelCall, Working
<1>2. JobFact(p) /\ jobs[p].task \in Task
  BY JobFields DEF JobFacts
<1>3. CallOfJob(p) \in Call /\ jobs[p].generation \in Generation
  BY <1>1, <1>2, JobCall, JobFields DEF JobFact
<1>4. ~calls[CallOfJob(p)].reserved
  BY <1>1, <1>2 DEF JobFact, CallOfJob
<1>5. jobs[p].generation = row.generation
  BY DEF ReserveModelCall, Running
<1>6. calls' = [calls EXCEPT ![CallOfJob(p)] = CallOf(TRUE, FALSE, "OPEN", 0, row.adopted, FALSE, "reserved", p)]
  BY DEF ReserveModelCall, CallOfJob
<1>7. CallOfJob(p)[1] = jobs[p].generation /\ CallOfJob(p)[2] = jobs[p].task
  BY DEF CallOfJob
<1>8. UNCHANGED <<row, resumes>>
  BY DEF ReserveModelCall
<1> QED BY <1>2, <1>3, <1>4, <1>5, <1>6, <1>7, <1>8 DEF TypeOK

LEMMA CallFactsNext ==
  ASSUME CallsInv, [Next]_vars
  PROVE  CallFacts'
<1> SUFFICES ASSUME NEW c \in Call PROVE CallFact(c)'
  BY DEF CallFacts
<1> USE DEF CallsInv
<1>0. CallFact(c) /\ calls[c] \in CallRecord /\ c[1] \in Nat /\ calls[c].at \in Nat
  BY CallTyped DEF CallFacts
<1>1. CASE calls'[c] = calls[c]
  BY <1>0, <1>1, CallFactKept
<1>2. ASSUME NEW p \in Process, ReserveModelCall(p), calls'[c] # calls[c]
      PROVE  CallFact(c)'
  <2>1. c = CallOfJob(p)
    BY <1>2, Reserves
  <2>2. calls'[c] = CallOf(TRUE, FALSE, "OPEN", 0, row.adopted, FALSE, "reserved", p)
        /\ c[1] = row.generation /\ row' = row
    BY <1>2, <2>1, Reserves
  <2>3. row.generation \in Nat
    BY Forward
  <2> QED BY <2>2, <2>3 DEF CallFact, CallOf
<1>3. ASSUME NEW p \in Process, Checkpoint(p), calls'[c] # calls[c]
      PROVE  CallFact(c)'
  <2>1. calls'[c] = [calls[c] EXCEPT !.saved = TRUE] /\ row' = row
    BY <1>3 DEF Checkpoint, TypeOK
  <2> QED BY <1>0, <2>1 DEF CallFact, CallRecord
<1>4. ASSUME NEW d \in Call, CallStep(d), calls'[c] # calls[c]
      PROVE  CallFact(c)'
  <2>1. c = d
    BY <1>4 DEF CallStep, Begin, Answer, FinishSucceeded, FinishFailed, Finished, CallGoes, TypeOK
  <2>2. row' = row /\ calls[c].client \in {"reserved", "sent", "answered", "erred"}
    BY <1>4, <2>1 DEF CallStep, Begin, Answer, FinishSucceeded, FinishFailed
  <2>3. CASE Sends(c)
    <3>1. calls'[c] = [calls[c] EXCEPT !.started = TRUE, !.client = "sent"]
      BY <2>3 DEF Sends, TypeOK
    <3> QED BY <1>0, <2>2, <2>3, <3>1 DEF CallFact, Sends, CallRecord
  <2>4. ASSUME NEW outcome \in Outcome \ {"OPEN"}, Finished(c, outcome, "done"), calls[c].outcome = "OPEN"
        PROVE  CallFact(c)'
    <3>1. calls'[c] = CallOf(calls[c].reserved, calls[c].started, outcome, row.generation, calls[c].basis,
                             calls[c].saved, "done", calls[c].by)
      BY <2>4 DEF Finished, TypeOK
    <3>2. row.generation \in Nat /\ calls[c].reserved
      BY <1>0, <2>2, Forward DEF CallFact
    <3> QED BY <1>0, <2>2, <3>1, <3>2 DEF CallFact, CallOf
  <2>5. ASSUME NEW client \in {"answered", "erred", "done"}, CallGoes(c, client),
               client = "answered" => calls[c].client = "sent"
        PROVE  CallFact(c)'
    <3>1. calls'[c] = [calls[c] EXCEPT !.client = client]
      BY <2>5 DEF CallGoes, TypeOK
    <3> QED BY <1>0, <2>2, <2>5, <3>1 DEF CallFact, CallRecord
  <2>6. calls[c].outcome = "OPEN"
    BY <1>0, <2>2 DEF CallFact
  <2>7. {"SUCCEEDED", "DISCARDED", "FAILED", "ABORTED"} \subseteq Outcome \ {"OPEN"}
    BY DEF Outcome, Known
  <2>8. CASE Begin(c)
    BY <2>3, <2>5, <2>8 DEF Begin, Sends, Running
  <2>9. CASE Answer(c)
    BY <2>5, <2>9 DEF Answer
  <2>10. CASE FinishSucceeded(c)
    BY <2>4, <2>5, <2>6, <2>7, <2>10 DEF FinishSucceeded
  <2>11. CASE FinishFailed(c)
    BY <2>4, <2>5, <2>6, <2>7, <2>11 DEF FinishFailed
  <2> QED BY <1>4, <2>1, <2>8, <2>9, <2>10, <2>11 DEF CallStep
<1>5. ASSUME NEW p \in Process, Ends(p), calls'[c] # calls[c]
      PROVE  CallFact(c)'
  <2>1. calls'[c] = [calls[c] EXCEPT !.client = "done"] /\ calls[c].client # "none" /\ row' = row
    BY <1>5 DEF Ends
  <2> QED BY <1>0, <2>1 DEF CallFact, CallRecord
<1>6. CASE Members
  BY <1>1, <1>6 DEF Members, Start, ControlResume, ControlPause, ControlCancel, AdoptTechnicalVersion
<1>7. CASE Around
  <2>1. CASE \E p \in Process : Crash(p) \/ Exit(p)
    BY <1>1, <1>5, <2>1 DEF Crash, Exit
  <2>2. CASE ~\E p \in Process : Crash(p) \/ Exit(p)
    BY <1>1, <1>7, <2>2
    DEF Around, Dispatch, HeartbeatFails, WorkerStop, Close, Open, LeaseExpires, DeadlinePasses,
        RaiseBarrier, LowerBarrier, investigation
  <2> QED BY <2>1, <2>2
<1>8. ASSUME NEW p \in Process, JobStep(p)
      PROVE  CallFact(c)'
  BY <1>1, <1>2, <1>3, <1>8
  DEF JobStep, OpenJob, Claim, ClaimRefused, Aborts, Reuse, ReserveRefused, Complete, CatchExpires,
      CatchSettles, investigation
<1>9. CASE UNCHANGED vars
  BY <1>1, <1>9 DEF vars, investigation
<1> QED BY <1>1, <1>4, <1>6, <1>7, <1>8, <1>9, NextCases

LEMMA ResumeFactsNext ==
  ASSUME CallsInv, [Next]_vars
  PROVE  ResumeFacts'
<1>0. \A r \in resumes : r \in Nat /\ r <= row.generation
  BY DEF CallsInv, TypeOK, ResumeFacts
<1>1. CASE resumes' = resumes
  BY <1>0, <1>1, Forward DEF CallsInv, ResumeFacts
<1>2. CASE ControlResume
  <2>1. row'.generation = row.generation + 1
    BY <1>2 DEF ControlResume, MovesTo, CallsInv, TypeOK, Row
  <2> QED BY <1>0, <1>2, <2>1, Forward DEF ControlResume, ResumeFacts, CallsInv
<1>3. CASE ~ControlResume
  <2>1. resumes' = resumes
    BY <1>3, Effects, Reserves DEF CallsInv, Sends, Settles
  <2> QED BY <1>1, <2>1
<1> QED BY <1>2, <1>3

\* How a step moves the job of one process.
JobKept(p) ==
  /\ Working(p) /\ jobs'[p].generation = jobs[p].generation
  /\ \/ jobs'[p].task = jobs[p].task /\ (jobs'[p].pc = "stage" => jobs[p].pc = "stage")
     \/ jobs'[p].task = jobs[p].task + 1

LEMMA JobEffects ==
  ASSUME TypeOK, [Next]_vars, NEW p \in Process, Working(p)'
  PROVE  Claim(p) \/ JobKept(p)
<1>0. jobs \in [Process -> JobRecord] /\ jobs[p] \in JobRecord
  BY DEF TypeOK
<1>1. ASSUME jobs'[p] = jobs[p]
      PROVE  JobKept(p)
  BY <1>1 DEF JobKept, Working
<1>2. ASSUME NEW stop \in {"stopped", "shutdown"}, jobs'[p] = [jobs[p] EXCEPT !.stop = stop]
      PROVE  JobKept(p)
  BY <1>0, <1>2 DEF JobKept, Working, JobRecord
<1>3. ASSUME NEW pc \in {"save", "catching"}, NEW code \in Code \cup {"SHUTDOWN"}, Working(p),
             jobs'[p] = [jobs[p] EXCEPT !.pc = pc, !.code = code]
      PROVE  JobKept(p)
  BY <1>0, <1>3 DEF JobKept, Working, JobRecord
<1>4. ASSUME NEW pc, Working(p), pc # "stage", jobs'[p] = [jobs[p] EXCEPT !.pc = pc]
      PROVE  JobKept(p)
  BY <1>0, <1>4 DEF JobKept, Working, JobRecord
<1>5. ASSUME NextTask(p), Working(p)
      PROVE  JobKept(p)
  <2>1. CASE jobs[p].task = Tasks
    BY <1>0, <1>4, <1>5, <2>1 DEF NextTask, JobGoes
  <2>2. CASE jobs[p].task # Tasks
    BY <1>0, <1>5, <2>2 DEF NextTask, JobAsks, JobOf, JobKept
  <2> QED BY <2>1, <2>2
<1>6. ASSUME JobEnds(p)
      PROVE  FALSE
  BY <1>0, <1>6 DEF JobEnds, Working, Idle, JobOf
<1>7. CASE Members
  BY <1>1, <1>7 DEF Members, Start, ControlResume, ControlPause, ControlCancel, AdoptTechnicalVersion
<1>8. ASSUME NEW q \in Process, JobStep(q)
      PROVE  Claim(p) \/ JobKept(p)
  <2>1. CASE q # p
    BY <1>0, <1>1, <1>8, <2>1
    DEF JobStep, OpenJob, Claim, ClaimRefused, Aborts, Reuse, ReserveModelCall, ReserveRefused, Checkpoint,
        Complete, CatchExpires, CatchSettles, JobGoes, JobCatches, JobEnds, NextTask, JobAsks
  <2>2. CASE q = p
    <3>1. ASSUME NEW code \in Code \cup {"SHUTDOWN"}, JobCatches(p, code), Working(p)
          PROVE  JobKept(p)
      BY <1>0, <1>3, <3>1 DEF JobCatches
    <3>2. ASSUME NEW pc \in {"call", "ending"}, JobGoes(p, pc), Working(p)
          PROVE  JobKept(p)
      BY <1>0, <1>4, <3>2 DEF JobGoes
    <3>3. CASE OpenJob(p)
      BY <1>0, <1>6, <3>3 DEF OpenJob, JobGoes, Working, JobRecord
    <3>4. CASE Claim(p)
      BY <3>4
    <3>5. CASE ClaimRefused(p)
      BY <1>6, <3>5 DEF ClaimRefused
    <3>6. CASE Aborts(p)
      BY <3>1, <3>6 DEF Aborts, Working, Code
    <3>7. CASE Reuse(p)
      BY <1>5, <3>1, <3>7 DEF Reuse, Working, Code
    <3>8. CASE ReserveModelCall(p)
      BY <3>2, <3>8 DEF ReserveModelCall, Working
    <3>9. CASE ReserveRefused(p)
      BY <3>1, <3>9 DEF ReserveRefused, Working, Refusal, Code
    <3>10. CASE Checkpoint(p)
      BY <1>5, <3>1, <3>10 DEF Checkpoint, Working, Code
    <3>11. CASE Complete(p)
      BY <1>6, <3>1, <3>11 DEF Complete, Working, Code
    <3>12. CASE CatchExpires(p)
      BY <3>2, <3>12 DEF CatchExpires, Working
    <3>13. CASE CatchSettles(p)
      BY <1>6, <3>13 DEF CatchSettles
    <3> QED BY <1>8, <2>2, <3>3, <3>4, <3>5, <3>6, <3>7, <3>8, <3>9, <3>10, <3>11, <3>12, <3>13 DEF JobStep
  <2> QED BY <2>1, <2>2
<1>9. ASSUME NEW c \in Call, CallStep(c), jobs'[p] # jobs[p]
      PROVE  JobKept(p)
  <2>1. PICK pc \in {"save", "catching"}, code \in {"NONE", "OTHER"} : JobReturns(c, pc, code)
    BY <1>9 DEF CallStep, Begin, Answer, FinishSucceeded, FinishFailed
  <2>2. Awaited(c) /\ calls[c].by = p
    BY <1>0, <1>9, <2>1 DEF JobReturns
  <2>3. jobs'[p] = [jobs[p] EXCEPT !.pc = pc, !.code = code] /\ Working(p)
    BY <1>0, <2>1, <2>2 DEF JobReturns, Awaited, Working
  <2> QED BY <1>3, <2>3 DEF Code
<1>10. CASE Around
  <2>1. ASSUME NEW q \in Process, Dispatch(q)
        PROVE  JobKept(p)
    <3>1. jobs' = [jobs EXCEPT ![q].pc = "opening"]
      BY <2>1 DEF Dispatch, JobGoes
    <3>2. q # p
      BY <1>0, <3>1 DEF Working, JobRecord
    <3>3. jobs'[p] = jobs[p]
      BY <1>0, <3>1, <3>2
    <3> QED BY <1>1, <3>3
  <2>2. ASSUME NEW q \in Process, HeartbeatFails(q) \/ WorkerStop(q) \/ Close(q)
        PROVE  JobKept(p)
    <3>1. CASE jobs'[p] # jobs[p]
      <4>1. q = p
        BY <1>0, <2>2, <3>1 DEF HeartbeatFails, WorkerStop, Close
      <4>2. PICK stop \in {"stopped", "shutdown"} : jobs'[p] = [jobs[p] EXCEPT !.stop = stop]
        BY <1>0, <2>2, <3>1, <4>1 DEF HeartbeatFails, WorkerStop, Close
      <4> QED BY <1>2, <4>2
    <3> QED BY <1>1, <3>1
  <2>3. ASSUME NEW q \in Process, Crash(q) \/ Exit(q)
        PROVE  JobKept(p)
    <3>1. JobEnds(q)
      <4>1. CASE Crash(q)
        BY <4>1 DEF Crash, Ends
      <4>2. CASE Exit(q)
        BY <4>2 DEF Exit, Ends
      <4> QED BY <2>3, <4>1, <4>2
    <3>2. CASE q = p
      BY <1>6, <3>1, <3>2
    <3>3. CASE q # p
      <4>1. jobs'[p] = jobs[p]
        BY <1>0, <3>1, <3>3 DEF JobEnds
      <4> QED BY <1>1, <4>1
    <3> QED BY <3>2, <3>3
  <2>4. CASE LeaseExpires \/ DeadlinePasses \/ RaiseBarrier \/ LowerBarrier \/ \E q \in Process : Open(q)
    BY <1>1, <2>4 DEF LeaseExpires, DeadlinePasses, RaiseBarrier, LowerBarrier, Open
  <2> QED BY <1>10, <2>1, <2>2, <2>3, <2>4 DEF Around
<1>11. CASE UNCHANGED vars
  BY <1>1, <1>11 DEF vars
<1> QED BY <1>1, <1>7, <1>8, <1>9, <1>10, <1>11, NextCases

\* A call is reserved once, by its job.
LEMMA ReservedGrows ==
  ASSUME TypeOK, JobFacts, [Next]_vars, NEW c \in Call
  PROVE  calls'[c].reserved =>
           calls[c].reserved \/ \E p \in Process : ReserveModelCall(p) /\ c = CallOfJob(p)
<1>0. calls \in [Call -> CallRecord]
  BY DEF TypeOK
<1>1. ASSUME NEW p \in Process, ReserveModelCall(p), c # CallOfJob(p)
      PROVE  calls'[c] = calls[c]
  BY <1>1, Reserves
<1>2. ASSUME NEW d \in Call, Sends(d)
      PROVE  calls'[c].reserved = calls[c].reserved
  BY <1>0, <1>2 DEF Sends, CallRecord
<1>3. ASSUME NEW d \in Call, NEW outcome \in Outcome \ {"OPEN"}, Settles(d, outcome)
      PROVE  calls'[c].reserved = calls[c].reserved
  <2>1. calls' = [calls EXCEPT ![d] = CallOf(calls[d].reserved, calls[d].started, outcome, row.generation,
                                             calls[d].basis, calls[d].saved, "done", calls[d].by)]
    BY <1>3 DEF Settles, Finished
  <2>2. CASE c = d
    <3>1. calls'[c] = CallOf(calls[c].reserved, calls[c].started, outcome, row.generation,
                             calls[c].basis, calls[c].saved, "done", calls[c].by)
      BY <1>0, <2>1, <2>2
    <3> QED BY <3>1 DEF CallOf
  <2>3. CASE c # d
    BY <1>0, <2>1, <2>3
  <2> QED BY <2>2, <2>3
<1>4. SameEvents => calls'[c].reserved = calls[c].reserved
  BY DEF SameEvents, SameEvent
<1> QED BY <1>1, <1>2, <1>3, <1>4, Effects

LEMMA JobFactsNext ==
  ASSUME CallsInv, [Next]_vars
  PROVE  JobFacts'
<1> SUFFICES ASSUME NEW p \in Process, Working(p)' PROVE JobFact(p)'
  BY DEF JobFacts, JobFact
<1> USE DEF CallsInv
<1>0. /\ jobs \in [Process -> JobRecord] /\ jobs[p] \in JobRecord
      /\ row.generation \in Nat /\ row'.generation \in Nat /\ row.generation <= row'.generation
  BY Forward DEF TypeOK
<1>1. ASSUME NEW q \in Process, Claim(q)
      PROVE  /\ jobs'[q] = JobOf("stage", row.generation + 1, row.adopted, 1, "no", "NONE")
             /\ row'.generation = row.generation + 1 /\ row.generation + 1 \in Generation
             /\ calls' = calls
  BY <1>0, <1>1 DEF Claim, Room, Generation, TypeOK, Row
<1>2. ASSUME NEW q \in Process, Working(q)
      PROVE  /\ 1 <= jobs[q].generation /\ jobs[q].generation <= row.generation
             /\ jobs[q].generation \in Nat /\ jobs[q].task \in Nat
             /\ \A s \in Process : Working(s) /\ s # q => jobs[s].generation # jobs[q].generation
  BY <1>0, <1>2, JobFields DEF JobFacts, JobFact, Task
<1>3. CASE Claim(p)
  <2>1. jobs'[p].generation = row.generation + 1 /\ jobs'[p].task = 1
    BY <1>1, <1>3 DEF JobOf
  <2>2. ASSUME NEW q \in Process, Working(q)', q # p
        PROVE  jobs'[q].generation # jobs'[p].generation
    <3>1. jobs'[q] = jobs[q]
      BY <1>0, <1>3, <2>2 DEF Claim
    <3>2. Working(q)
      BY <2>2, <3>1 DEF Working
    <3> QED BY <1>0, <1>2, <2>1, <3>1, <3>2
  <2>3. ASSUME NEW t \in Task
        PROVE  ~calls'[<<jobs'[p].generation, t>>].reserved
    <3>1. <<row.generation + 1, t>> \in Call
      BY <1>1, <1>3 DEF Call
    <3>2. calls[<<row.generation + 1, t>>].reserved => row.generation + 1 <= row.generation
      BY <3>1 DEF CallFacts, CallFact
    <3> QED BY <1>0, <1>1, <1>3, <2>1, <3>2
  <2> QED BY <1>0, <1>1, <1>3, <2>1, <2>2, <2>3 DEF JobFact
<1>4. CASE JobKept(p)
  <2>1. /\ Working(p) /\ jobs'[p].generation = jobs[p].generation
    BY <1>4 DEF JobKept
  <2>2. ASSUME NEW q \in Process, Working(q)', q # p
        PROVE  jobs'[q].generation # jobs'[p].generation
    <3>1. CASE Claim(q)
      BY <1>0, <1>1, <1>2, <2>1, <3>1 DEF JobOf
    <3>2. CASE JobKept(q)
      BY <1>2, <2>1, <2>2, <3>2 DEF JobKept
    <3> QED BY <2>2, <3>1, <3>2, JobEffects
  <2>3. ASSUME NEW t \in Task, t > jobs'[p].task \/ (t = jobs'[p].task /\ jobs'[p].pc = "stage")
        PROVE  ~calls'[<<jobs'[p].generation, t>>].reserved
    <3> DEFINE c == <<jobs[p].generation, t>>
    <3>1. t > jobs[p].task \/ (t = jobs[p].task /\ jobs[p].pc = "stage")
      BY <1>2, <1>4, <2>3 DEF JobKept, Task
    <3>2. ~calls[c].reserved
      BY <2>1, <3>1 DEF JobFacts, JobFact
    <3>3. c \in Call
      BY <1>2, <2>1, <1>0, JobFields DEF Call, Generation
    <3>4. ASSUME NEW q \in Process, ReserveModelCall(q), c = CallOfJob(q)
          PROVE  FALSE
      <4>1. q = p
        BY <1>2, <2>1, <3>4 DEF CallOfJob, ReserveModelCall, Working
      <4>2. t = jobs[p].task
        BY <3>4, <4>1 DEF CallOfJob
      <4>3. jobs' = [jobs EXCEPT ![p].pc = "call"]
        BY <3>4, <4>1 DEF ReserveModelCall, JobGoes
      <4>4. jobs'[p].pc = "call" /\ jobs'[p].task = jobs[p].task
        BY <1>0, <4>3 DEF JobRecord
      <4> QED BY <1>2, <2>1, <2>3, <4>2, <4>4
    <3>5. ~calls'[c].reserved
      BY <3>2, <3>3, <3>4, ReservedGrows
    <3> QED BY <2>1, <3>5
  <2> QED BY <1>0, <1>2, <2>1, <2>2, <2>3 DEF JobFact
<1> QED BY <1>3, <1>4, JobEffects

\* A set of numbers that is bounded and not empty has a greatest element.
LEMMA Greatest ==
  ASSUME NEW n \in Nat, NEW S \in SUBSET (1..n), S # {}
  PROVE  \E m \in S : \A k \in S : k <= m
<1> DEFINE T == {n - k : k \in S}
<1>1. T \subseteq Nat /\ T # {}
  <2>1. \A k \in S : n - k \in Nat
    OBVIOUS
  <2> QED BY <2>1
<1>2. \E x \in T : \A y \in T : ~ (<<y, x>> \in OpToRel(<, Nat))
  <2> HIDE DEF T
  <2> QED BY <1>1, WFMin, NatLessThanWellFounded
<1>3. PICK x \in T : \A y \in T : ~ (<<y, x>> \in OpToRel(<, Nat))
  BY <1>2
<1>4. \A y \in T : ~ (y < x)
  BY <1>1, <1>3 DEF OpToRel
<1>5. PICK m \in S : x = n - m
  BY <1>3
<1>6. ASSUME NEW k \in S
      PROVE  k <= m
  <2>1. ~ (n - k < n - m)
    BY <1>4, <1>5
  <2>2. k \in Nat /\ m \in Nat
    OBVIOUS
  <2> QED BY <2>1, <2>2
<1> QED BY <1>6

\* What the reservation of an analysis follows: the last one before it.
LEMMA RetryAfterFailure ==
  ASSUME CallsInv, NEW p \in Process, ReserveModelCall(p), NEW g \in Generation, g < row.generation,
         calls[<<g, jobs[p].task>>].started, calls[<<g, jobs[p].task>>].basis = row.adopted
  PROVE  /\ ~Question
         /\ calls[<<g, jobs[p].task>>].outcome \in Known
         /\ \E r \in resumes : calls[<<g, jobs[p].task>>].at < r /\ r < row.generation
<1> USE DEF CallsInv
<1> DEFINE t == jobs[p].task
           h == row.generation
           first == calls[<<g, t>>]
           before == Relevant(t) \ {h}
<1>a. t \in Task /\ h \in Generation
  BY Reserves
<1>b. <<g, t>> \in Call /\ h \in Nat /\ g \in Nat
  BY <1>a DEF Call, Generation
<1>c. first \in CallRecord /\ first.at \in Nat
  BY <1>b, CallTyped
<1>0. /\ t \in Task /\ h \in Generation /\ <<g, t>> \in Call /\ first \in CallRecord
      /\ \A r \in resumes : r \in Nat
      /\ h \in Nat /\ g \in Nat /\ first.at \in Nat
  BY <1>a, <1>b, <1>c DEF TypeOK
<1>1. first.reserved
  BY <1>0 DEF CallFacts, CallFact
<1>2. Refusal(t, h) = "NONE"
  BY DEF ReserveModelCall, Running
<1>3. g \in Relevant(t) /\ g \in Reservations(t) /\ g \in before
  BY <1>0, <1>1 DEF Relevant, Reservations
<1>4. ~Question
  BY <1>2, <1>3 DEF Refusal, EverStarted
<1>5. ~Unknown(t) /\ Retryable(t, h)
  BY <1>2, <1>4 DEF Refusal
<1>6. first.outcome # "OPEN"
  BY <1>3, <1>5 DEF Unknown
<1>7. PICK last \in before : \A k \in before : k <= last
  <2>1. before \in SUBSET (1..MaxGeneration) /\ before # {}
    BY <1>3 DEF Relevant, Generation
  <2> HIDE DEF before
  <2> QED BY <2>1, Greatest, InvestigationAssumption
<1>8. /\ last \in Generation /\ last \in Nat /\ g <= last /\ <<last, t>> \in Call
      /\ calls[<<last, t>>] \in CallRecord /\ calls[<<last, t>>].at \in Nat
      /\ calls[<<last, t>>].reserved /\ calls[<<last, t>>].basis = row.adopted
  BY <1>0, <1>3, <1>7, CallTyped DEF Relevant, Generation, Call, TypeOK
<1>9. last < h
  <2>1. calls[<<last, t>>].reserved => last <= row.generation
    BY <1>8 DEF CallFacts, CallFact
  <2> QED BY <1>0, <1>7, <1>8, <2>1
<1>10. \/ calls[<<last, t>>].outcome = "OPEN"
       \/ /\ calls[<<last, t>>].outcome \in Known
          /\ \E r \in resumes : calls[<<last, t>>].at < r /\ last < r /\ r < h
  BY <1>5, <1>7 DEF Retryable
<1>11. CASE last = g
  BY <1>4, <1>6, <1>10, <1>11
<1>12. CASE last # g
  <2>1. g < last
    BY <1>0, <1>8, <1>12
  <2>2. first.outcome \in Known /\ \E r \in resumes : first.at < r /\ r < last
    BY <1>0, <1>8, <2>1 DEF Ordered
  <2> QED BY <1>0, <1>4, <1>8, <1>9, <2>2
<1> QED BY <1>11, <1>12

LEMMA OrderedNext ==
  ASSUME CallsInv, [Next]_vars
  PROVE  Ordered'
<1> USE DEF CallsInv
<1> SUFFICES ASSUME NEW t \in Task, NEW g \in Generation, NEW h \in Generation, g < h,
                    calls'[<<g, t>>].started, calls'[<<h, t>>].reserved,
                    calls'[<<g, t>>].basis = calls'[<<h, t>>].basis
             PROVE  /\ ~Question
                    /\ calls'[<<g, t>>].outcome \in Known
                    /\ \E r \in resumes' : calls'[<<g, t>>].at < r /\ r < h
  BY DEF Ordered
<1> DEFINE c == <<g, t>>
           d == <<h, t>>
<1>0. /\ c \in Call /\ d \in Call /\ c # d /\ g \in Nat /\ h \in Nat
      /\ calls[c] \in CallRecord /\ calls[d] \in CallRecord /\ row.generation \in Nat
      /\ calls \in [Call -> CallRecord]
  BY Forward DEF Call, TypeOK, Generation
<1>1. calls[d].reserved => h <= row.generation
  BY <1>0 DEF CallFacts, CallFact
<1>2. calls[c].started /\ calls[d].reserved /\ calls[c].basis = calls[d].basis =>
        /\ ~Question
        /\ calls[c].outcome \in Known
        /\ \E r \in resumes : calls[c].at < r /\ r < h
  BY DEF Ordered
<1>3. CASE SameEvents /\ resumes' = resumes
  BY <1>0, <1>2, <1>3 DEF SameEvents, SameEvent
<1>4. CASE ControlResume /\ calls' = calls
  BY <1>2, <1>4 DEF ControlResume
<1>5. ASSUME NEW p \in Process, ReserveModelCall(p)
      PROVE  /\ ~Question
             /\ calls'[c].outcome \in Known
             /\ \E r \in resumes' : calls'[c].at < r /\ r < h
  <2>0. /\ calls'[CallOfJob(p)] = CallOf(TRUE, FALSE, "OPEN", 0, row.adopted, FALSE, "reserved", p)
        /\ CallOfJob(p)[1] = row.generation /\ CallOfJob(p)[2] = jobs[p].task
    BY <1>5, Reserves
  <2>1. c # CallOfJob(p)
    BY <2>0 DEF CallOf
  <2>2. calls'[c] = calls[c] /\ resumes' = resumes
    BY <1>0, <1>5, <2>1, Reserves
  <2>3. CASE d # CallOfJob(p)
    <3>1. calls'[d] = calls[d]
      BY <1>0, <1>5, <2>3, Reserves
    <3> QED BY <1>2, <2>2, <3>1
  <2>4. CASE d = CallOfJob(p)
    <3>1. h = row.generation /\ t = jobs[p].task /\ calls'[d].basis = row.adopted
      BY <2>0, <2>4 DEF CallOf
    <3> QED BY <1>5, <2>2, <3>1, RetryAfterFailure
  <2> QED BY <2>3, <2>4
<1>6. ASSUME NEW e \in Call, Sends(e)
      PROVE  /\ ~Question
             /\ calls'[c].outcome \in Known
             /\ \E r \in resumes' : calls'[c].at < r /\ r < h
  <2>1. calls'[d].reserved = calls[d].reserved /\ calls'[d].basis = calls[d].basis
    BY <1>0, <1>6 DEF Sends, CallRecord
  <2>2. CASE e = c
    BY <1>0, <1>1, <1>6, <2>1, <2>2 DEF Sends
  <2>3. CASE e # c
    <3>1. calls'[c] = calls[c] /\ resumes' = resumes
      BY <1>0, <1>6, <2>3 DEF Sends
    <3> QED BY <1>2, <2>1, <3>1
  <2> QED BY <2>2, <2>3
<1>7. ASSUME NEW e \in Call, NEW outcome \in Outcome \ {"OPEN"}, Settles(e, outcome)
      PROVE  /\ ~Question
             /\ calls'[c].outcome \in Known
             /\ \E r \in resumes' : calls'[c].at < r /\ r < h
  <2>1. /\ \A k \in Call : k # e => calls'[k] = calls[k]
        /\ calls'[e] = CallOf(calls[e].reserved, calls[e].started, outcome, row.generation, calls[e].basis,
                              calls[e].saved, "done", calls[e].by)
        /\ calls[e].outcome = "OPEN" /\ resumes' = resumes
    BY <1>0, <1>7 DEF Settles, Finished
  <2>2. calls'[d].reserved = calls[d].reserved /\ calls'[d].basis = calls[d].basis
        /\ calls'[c].started = calls[c].started /\ calls'[c].basis = calls[c].basis
    <3>1. \A k \in {c, d} : calls'[k].reserved = calls[k].reserved /\ calls'[k].basis = calls[k].basis
                            /\ calls'[k].started = calls[k].started
      <4> SUFFICES ASSUME NEW k \in {c, d}
                   PROVE  calls'[k].reserved = calls[k].reserved /\ calls'[k].basis = calls[k].basis
                          /\ calls'[k].started = calls[k].started
        OBVIOUS
      <4>1. CASE k = e
        BY <2>1, <4>1 DEF CallOf
      <4>2. CASE k # e
        BY <1>0, <2>1, <4>2
      <4> QED BY <4>1, <4>2
    <3> QED BY <3>1
  <2>3. e # c
    BY <1>2, <2>1, <2>2 DEF Known
  <2> QED BY <1>0, <1>2, <2>1, <2>2, <2>3
<1> QED BY <1>3, <1>4, <1>5, <1>6, <1>7, Effects

LEMMA CallsInvInit ==
  ASSUME Init
  PROVE  CallsInv
<1>1. TypeOK
  BY TypeInit
<1>2. CallFacts /\ Ordered
  BY DEF Init, CallFacts, CallFact, Ordered, NoCall, CallOf, Call
<1>3. ResumeFacts
  BY DEF Init, ResumeFacts
<1>4. JobFacts
  BY DEF Init, JobFacts, JobFact, Working, Idle, JobOf
<1> QED BY <1>1, <1>2, <1>3, <1>4 DEF CallsInv

LEMMA CallsInvCorrect == Spec => []CallsInv
<1>1. CallsInv /\ [Next]_vars => CallsInv'
  BY TypeNext, CallFactsNext, ResumeFactsNext, JobFactsNext, OrderedNext DEF CallsInv
<1> QED BY <1>1, CallsInvInit, PTL DEF Spec

\* A task a worker sent to a model is sent again on the same basis only when the
\* earlier call is known to have failed and a member resumed the work in
\* between; a question's task is sent once: over any number of takeovers of the
\* lease, restarts, adoptions and resumes (reserveModelCall).
THEOREM NoReplayCorrect == Spec => []NoReplay
<1>1. CallsInv => NoReplay
  <2> SUFFICES ASSUME CallsInv, NEW t \in Task, NEW g \in Generation, NEW h \in Generation, g < h,
                      calls[<<g, t>>].started, calls[<<h, t>>].started,
                      calls[<<g, t>>].basis = calls[<<h, t>>].basis
               PROVE  /\ ~Question
                      /\ calls[<<g, t>>].outcome \in Known
                      /\ \E r \in resumes : calls[<<g, t>>].at < r /\ r < h
    BY DEF NoReplay
  <2>1. <<h, t>> \in Call
    BY DEF Call
  <2>2. calls[<<h, t>>].reserved
    BY <2>1 DEF CallsInv, CallFacts, CallFact
  <2> QED BY <2>2 DEF CallsInv, Ordered
<1> QED BY <1>1, CallsInvCorrect, PTL

-----------------------------------------------------------------------------
(* The decisions of members *)

Stands ==
  /\ row.state \in {"CANCELLED", "COMPLETED"} => row' = row
  /\ row.state = "PAUSED" /\ row' # row =>
       \/ row'.state = "FAILED" /\ expired
       \/ row'.state = "CANCELLED"
       \/ row'.state = "QUEUED" /\ (row'.adopted # row.adopted \/ resumes' # resumes)

\* A step that moves the row from a state it may leave.
LEMMA StandsWhenMoved ==
  ASSUME row.state \notin {"CANCELLED", "COMPLETED", "PAUSED"}
  PROVE  Stands
BY DEF Stands

LEMMA StandsWhenSame ==
  ASSUME row' = row
  PROVE  Stands
BY DEF Stands

LEMMA StandsNext ==
  ASSUME TypeOK, ResumeFacts, [Next]_vars
  PROVE  Stands
<1>0. row \in Row /\ row.generation \in Nat /\ row.adopted \in Nat /\ \A r \in resumes : r <= row.generation
  BY RowFields DEF TypeOK, ResumeFacts, Row, Basis
<1>1. CASE ControlResume
  <2>1. row'.state = "QUEUED" /\ row.state \in {"PAUSED", "FAILED"}
    BY <1>0, <1>1 DEF ControlResume, MovesTo, Row
  <2>2. row.generation + 1 \notin resumes /\ row.generation + 1 \in resumes'
    BY <1>0, <1>1 DEF ControlResume
  <2> QED BY <2>1, <2>2 DEF Stands
<1>2. ASSUME NEW p \in Process, ControlCancel(p)
      PROVE  Stands
  BY <1>0, <1>2 DEF ControlCancel, MovesTo, Row, Stands
<1>3. ASSUME NEW p \in Process, AdoptTechnicalVersion(p)
      PROVE  Stands
  BY <1>0, <1>3 DEF AdoptTechnicalVersion, Row, Stands
<1>4. ASSUME ExpireIfDue
      PROVE  Stands
  BY <1>0, <1>4 DEF ExpireIfDue, MovesTo, Row, Stands
<1>5. CASE Members
  BY <1>1, <1>2, <1>3, <1>5, StandsWhenMoved DEF Members, Start, ControlPause
<1>6. CASE Around
  <2>1. CASE LeaseExpires
    BY <2>1, StandsWhenMoved DEF LeaseExpires
  <2>2. CASE ~LeaseExpires
    BY <1>6, <2>2, StandsWhenSame
    DEF Around, Dispatch, HeartbeatFails, WorkerStop, Crash, Close, Exit, Open, Ends, DeadlinePasses,
        RaiseBarrier, LowerBarrier, investigation
  <2> QED BY <2>1, <2>2
<1>7. ASSUME NEW p \in Process, JobStep(p)
      PROVE  Stands
  <2>1. CASE OpenJob(p) \/ CatchExpires(p)
    BY <1>4, <2>1, StandsWhenSame DEF OpenJob, CatchExpires
  <2>2. CASE Claim(p) \/ Complete(p) \/ CatchSettles(p)
    BY <2>2, StandsWhenSame, StandsWhenMoved DEF Claim, Claimable, Complete, CatchSettles, Running
  <2>3. CASE ClaimRefused(p) \/ Aborts(p) \/ Reuse(p) \/ ReserveModelCall(p) \/ ReserveRefused(p) \/ Checkpoint(p)
    BY <2>3, StandsWhenSame DEF ClaimRefused, Aborts, Reuse, ReserveModelCall, ReserveRefused, Checkpoint, investigation
  <2> QED BY <1>7, <2>1, <2>2, <2>3 DEF JobStep
<1>8. ASSUME NEW c \in Call, CallStep(c)
      PROVE  Stands
  BY <1>8, CallEffects, StandsWhenSame
<1>9. CASE UNCHANGED vars
  BY <1>9, StandsWhenSame DEF vars, investigation
<1> QED BY <1>5, <1>6, <1>7, <1>8, <1>9, NextCases

\* A cancellation and a result are final, and a pause ends by a member or by the
\* deadline: no late job of any process settles the row (control(), fail(),
\* complete(), releaseForShutdown()).
THEOREM DecisionsStandCorrect == Spec => DecisionsStand
<1>1. CallsInv /\ [Next]_vars => Stands
  BY StandsNext DEF CallsInv
<1>2. CallsInv /\ [Next]_vars => [Stands]_vars
  BY <1>1
<1> QED BY <1>2, CallsInvCorrect, PTL DEF Spec, DecisionsStand, Stands

-----------------------------------------------------------------------------
(* The budget *)

\* What the budget of model calls counts (reserveModelCall).
Charged ==
  IF Question THEN {t \in Task : \E g \in Generation : calls[<<g, t>>].reserved}
  ELSE {c \in Call : calls[c].reserved}

\* Only a reservation changes what is reserved.
LEMMA ReservedSame ==
  ASSUME CallsInv, [Next]_vars, ~\E p \in Process : ReserveModelCall(p)
  PROVE  \A c \in Call : calls'[c].reserved = calls[c].reserved
<1> SUFFICES ASSUME NEW c \in Call
             PROVE  calls'[c].reserved = calls[c].reserved
  OBVIOUS
<1>0. calls \in [Call -> CallRecord]
  BY DEF CallsInv, TypeOK
<1>1. ASSUME NEW d \in Call, Sends(d)
      PROVE  calls'[c].reserved = calls[c].reserved
  BY <1>0, <1>1 DEF Sends, CallRecord
<1>2. ASSUME NEW d \in Call, NEW outcome \in Outcome \ {"OPEN"}, Settles(d, outcome)
      PROVE  calls'[c].reserved = calls[c].reserved
  <2>1. calls' = [calls EXCEPT ![d] = CallOf(calls[d].reserved, calls[d].started, outcome, row.generation,
                                             calls[d].basis, calls[d].saved, "done", calls[d].by)]
    BY <1>2 DEF Settles, Finished
  <2>2. CASE c = d
    <3>1. calls'[c] = CallOf(calls[c].reserved, calls[c].started, outcome, row.generation,
                             calls[c].basis, calls[c].saved, "done", calls[c].by)
      BY <1>0, <2>1, <2>2
    <3> QED BY <3>1 DEF CallOf
  <2>3. CASE c # d
    BY <1>0, <2>1, <2>3
  <2> QED BY <2>2, <2>3
<1>3. SameEvents => calls'[c].reserved = calls[c].reserved
  BY DEF SameEvents, SameEvent
<1>4. calls' = calls => calls'[c].reserved = calls[c].reserved
  OBVIOUS
<1> QED BY <1>1, <1>2, <1>3, <1>4, Effects DEF CallsInv

\* Nothing else is charged.
LEMMA PaidSame ==
  ASSUME [Next]_vars, ~\E p \in Process : ReserveModelCall(p)
  PROVE  modelCalls' = modelCalls
<1>1. CASE Members
  BY <1>1 DEF Members, Start, ControlResume, ControlPause, ControlCancel, AdoptTechnicalVersion
<1>2. CASE Around
  BY <1>2 DEF Around, Dispatch, HeartbeatFails, WorkerStop, Crash, Close, Exit, Open, Ends, LeaseExpires,
              DeadlinePasses, RaiseBarrier, LowerBarrier, investigation
<1>3. ASSUME NEW p \in Process, JobStep(p)
      PROVE  modelCalls' = modelCalls
  BY <1>3 DEF JobStep, OpenJob, Claim, ClaimRefused, Aborts, Reuse, ReserveRefused, Checkpoint, Complete,
              CatchExpires, CatchSettles, investigation
<1>4. ASSUME NEW c \in Call, CallStep(c)
      PROVE  modelCalls' = modelCalls
  BY <1>4 DEF CallStep, Begin, Answer, FinishSucceeded, FinishFailed
<1>5. CASE UNCHANGED vars
  BY <1>5 DEF vars, investigation
<1> QED BY <1>1, <1>2, <1>3, <1>4, <1>5, NextCases

\* A reservation adds what it is charged for.
LEMMA ChargedGrows ==
  ASSUME CallsInv, NEW p \in Process, ReserveModelCall(p)
  PROVE  \/ Charge(jobs[p].task) = 0 /\ Charged' = Charged
         \/ /\ Charge(jobs[p].task) = 1 /\ modelCalls < MaxModelCalls
            /\ \E x : x \notin Charged /\ Charged' = Charged \cup {x}
<1> USE DEF CallsInv
<1> DEFINE c == CallOfJob(p)
           t == jobs[p].task
<1>0. /\ c \in Call /\ c = <<row.generation, t>> /\ t \in Task /\ row.generation \in Generation
      /\ ~calls[c].reserved
      /\ \A d \in Call : d # c => calls'[d] = calls[d]
  BY Reserves DEF CallOfJob
<1>1. calls'[c].reserved = TRUE
  <2>1. calls'[c] = CallOf(TRUE, FALSE, "OPEN", 0, row.adopted, FALSE, "reserved", p)
    BY Reserves DEF CallOfJob
  <2> QED BY <2>1 DEF CallOf
<1>2. Refusal(t, row.generation) = "NONE"
  BY DEF ReserveModelCall, Running
<1>3. Charge(t) = 1 => modelCalls < MaxModelCalls
  BY <1>2, InvestigationAssumption DEF Refusal, TypeOK
<1>4. CASE ~Question
  <2>1. Charge(t) = 1
    BY <1>4 DEF Charge
  <2>2. c \notin Charged /\ Charged' = Charged \cup {c}
    BY <1>0, <1>1, <1>4 DEF Charged
  <2> QED BY <1>3, <2>1, <2>2
<1>5. CASE Question
  <2>1. Charged' = Charged \cup {t}
    <3>1. \A s \in Task, g \in Generation : <<g, s>> \in Call
      BY DEF Call
    <3>2. \A s \in Task : s # t =>
            \A g \in Generation : calls'[<<g, s>>] = calls[<<g, s>>]
      BY <1>0, <3>1
    <3>3. t \in Charged'
      BY <1>0, <1>1, <1>5 DEF Charged
    <3>4. \A s \in Task : s # t => (s \in Charged' <=> s \in Charged)
      BY <1>5, <3>2 DEF Charged
    <3>5. Charged' \subseteq Task /\ Charged \subseteq Task
      BY <1>5 DEF Charged
    <3> HIDE DEF t
    <3> QED BY <3>3, <3>4, <3>5
  <2>2. Reservations(t) # {} <=> t \in Charged
    BY <1>0, <1>5 DEF Reservations, Charged
  <2>3. CASE t \in Charged
    BY <1>5, <2>1, <2>2, <2>3 DEF Charge
  <2>4. CASE t \notin Charged
    BY <1>3, <1>5, <2>1, <2>2, <2>4 DEF Charge
  <2> QED BY <2>3, <2>4
<1> QED BY <1>4, <1>5

\* There are finitely many tasks and generations.
LEMMA ChargedFinite == IsFiniteSet(Charged)
<1>1. IsFiniteSet(Task) /\ IsFiniteSet(Generation)
  BY FS_Interval, InvestigationAssumption DEF Task, Generation
<1>2. IsFiniteSet(Call)
  BY <1>1, FS_Product DEF Call
<1>3. Charged \in SUBSET (IF Question THEN Task ELSE Call)
  BY DEF Charged
<1> QED BY <1>1, <1>2, <1>3, FS_Subset

\* The count follows what is charged, within the limit.
LEMMA BudgetNext ==
  ASSUME CallsInv, [Next]_vars, modelCalls = Cardinality(Charged), modelCalls <= MaxModelCalls
  PROVE  modelCalls' = Cardinality(Charged') /\ modelCalls' <= MaxModelCalls
<1>0. modelCalls \in Nat /\ MaxModelCalls \in Nat
  BY InvestigationAssumption DEF CallsInv, TypeOK
<1>1. ASSUME NEW p \in Process, ReserveModelCall(p)
      PROVE  modelCalls' = Cardinality(Charged') /\ modelCalls' <= MaxModelCalls
  <2>1. modelCalls' = modelCalls + Charge(jobs[p].task)
    BY <1>1 DEF ReserveModelCall
  <2>2. CASE Charge(jobs[p].task) = 0 /\ Charged' = Charged
    BY <1>0, <2>1, <2>2
  <2>3. CASE /\ Charge(jobs[p].task) = 1 /\ modelCalls < MaxModelCalls
             /\ \E x : x \notin Charged /\ Charged' = Charged \cup {x}
    <3>1. PICK x : x \notin Charged /\ Charged' = Charged \cup {x}
      BY <2>3
    <3>2. Cardinality(Charged \cup {x}) = Cardinality(Charged) + 1
      BY <3>1, ChargedFinite, FS_AddElement
    <3>3. Cardinality(Charged') = modelCalls + 1
      BY <3>1, <3>2
    <3>4. modelCalls' = modelCalls + 1 /\ modelCalls < MaxModelCalls
      BY <2>1, <2>3
    <3> QED BY <1>0, <3>3, <3>4
  <2> QED BY <1>1, <2>2, <2>3, ChargedGrows
<1>2. CASE ~\E p \in Process : ReserveModelCall(p)
  <2>1. \A t \in Task, g \in Generation : <<g, t>> \in Call
    BY DEF Call
  <2>2. Charged' = Charged
    BY <1>2, <2>1, ReservedSame DEF Charged
  <2> QED BY <1>2, <2>2, PaidSame
<1> QED BY <1>1, <1>2

\* Every reservation of an analysis and every task of a question is charged to
\* the budget of model calls once, and the budget holds, over any number of
\* takeovers, crashes and resumes (reserveModelCall).
THEOREM BudgetKeptCorrect == Spec => []BudgetKept
<1> DEFINE Kept == modelCalls = Cardinality(Charged) /\ modelCalls <= MaxModelCalls
<1>1. Init => Kept
  <2> SUFFICES ASSUME Init PROVE Kept
    OBVIOUS
  <2>1. Charged = {}
    BY DEF Init, Charged, NoCall, CallOf, Call
  <2> QED BY <2>1, FS_EmptySet, InvestigationAssumption DEF Init
<1>2. Kept /\ CallsInv /\ [Next]_vars => Kept'
  BY BudgetNext
<1>3. Kept <=> BudgetKept
  BY DEF BudgetKept, Charged
<1> HIDE DEF Kept
<1>4. Spec => []Kept
  BY <1>1, <1>2, CallsInvCorrect, PTL DEF Spec
<1> QED BY <1>3, <1>4, PTL

-----------------------------------------------------------------------------
(* The result                                                                *)

\* Only a call that succeeded in time is checkpointed.
SavedFacts == \A c \in Call : calls[c].saved => calls[c].started /\ calls[c].outcome = "SUCCEEDED"

\* A job works on the versions adopted when it was claimed, which are those of
\* the row as long as the row is at its generation. It has a checkpoint for
\* every task it passed, and the call it waits for is its own, on its basis.
WorkFact(p) ==
  Working(p) =>
    /\ row.generation = jobs[p].generation => row.adopted = jobs[p].basis
    /\ jobs[p].pc \in {"stage", "call", "save", "completing"} =>
         \A t \in Task : t < jobs[p].task \/ jobs[p].pc = "completing" => Cached(t, jobs[p].basis)
    /\ jobs[p].pc \in {"call", "save"} =>
         calls[CallOfJob(p)].reserved /\ calls[CallOfJob(p)].basis = jobs[p].basis
    /\ jobs[p].pc = "save" => calls[CallOfJob(p)].started /\ calls[CallOfJob(p)].outcome = "SUCCEEDED"
WorkFacts == \A p \in Process : WorkFact(p)

\* A completed investigation has a checkpoint of every task on its versions.
ResultFact == row.state = "COMPLETED" => \A t \in Task : Cached(t, row.adopted)

ResultInv == CallsInv /\ SavedFacts /\ WorkFacts /\ ResultFact

\* What a step does to one call.
Reserved(c) == \E p \in Process : ReserveModelCall(p) /\ c = CallOfJob(p)
Saved(c) ==
  \E p \in Process : /\ jobs[p].pc = "save" /\ c = CallOfJob(p)
                     /\ calls'[c] = [calls[c] EXCEPT !.saved = TRUE]
Keeps(c) ==
  /\ calls'[c].reserved = calls[c].reserved /\ calls'[c].basis = calls[c].basis
  /\ calls'[c].saved = calls[c].saved
  /\ calls[c].started => calls'[c].started
  /\ calls[c].outcome # "OPEN" => calls'[c].outcome = calls[c].outcome

LEMMA CallKept ==
  ASSUME CallsInv, [Next]_vars, NEW c \in Call
  PROVE  Keeps(c) \/ Reserved(c) \/ Saved(c)
<1>0. calls \in [Call -> CallRecord] /\ calls[c] \in CallRecord
  BY DEF CallsInv, TypeOK
<1>1. ASSUME calls'[c] = calls[c] PROVE Keeps(c)
  BY <1>1 DEF Keeps
<1>2. ASSUME NEW p \in Process, ReserveModelCall(p)
      PROVE  Keeps(c) \/ Reserved(c)
  <2>1. CASE c = CallOfJob(p)
    BY <1>2, <2>1 DEF Reserved
  <2>2. CASE c # CallOfJob(p)
    BY <1>1, <1>2, <2>2, Reserves DEF CallsInv
  <2> QED BY <2>1, <2>2
<1>3. ASSUME NEW p \in Process, Checkpoint(p)
      PROVE  Keeps(c) \/ Saved(c)
  <2>1. jobs[p].pc = "save"
    BY <1>3 DEF Checkpoint
  <2>2. calls' = calls \/ calls' = [calls EXCEPT ![CallOfJob(p)] = [calls[CallOfJob(p)] EXCEPT !.saved = TRUE]]
    BY <1>0, <1>3 DEF Checkpoint
  <2>3. CASE c = CallOfJob(p)
    BY <1>0, <1>1, <2>1, <2>2, <2>3 DEF Saved
  <2>4. CASE c # CallOfJob(p)
    BY <1>0, <1>1, <2>2, <2>4
  <2> QED BY <2>3, <2>4
<1>4. ASSUME NEW client, calls'[c] = [calls[c] EXCEPT !.client = client] PROVE Keeps(c)
  BY <1>0, <1>4 DEF Keeps, CallRecord
<1>5. ASSUME NEW d \in Call, CallStep(d)
      PROVE  Keeps(c)
  <2>1. ASSUME NEW client, CallGoes(d, client) PROVE Keeps(c)
    <3>1. calls'[c] = calls[c] \/ calls'[c] = [calls[c] EXCEPT !.client = client]
      BY <1>0, <2>1 DEF CallGoes
    <3> QED BY <1>1, <1>4, <3>1
  <2>2. ASSUME NEW outcome, NEW client, Finished(d, outcome, client) PROVE Keeps(c)
    <3>1. CASE calls[d].outcome # "OPEN"
      BY <2>1, <2>2, <3>1 DEF Finished
    <3>2. CASE calls[d].outcome = "OPEN" /\ c = d
      <4>1. calls'[c] = CallOf(calls[c].reserved, calls[c].started, outcome, row.generation, calls[c].basis,
                               calls[c].saved, client, calls[c].by)
        BY <1>0, <2>2, <3>2 DEF Finished
      <4> QED BY <3>2, <4>1 DEF CallOf, Keeps
    <3>3. CASE calls[d].outcome = "OPEN" /\ c # d
      BY <1>0, <1>1, <2>2, <3>3 DEF Finished
    <3> QED BY <3>1, <3>2, <3>3
  <2>3. CASE Begin(d)
    <3>1. CASE calls' = [calls EXCEPT ![d] = [@ EXCEPT !.started = TRUE, !.client = "sent"]]
      <4>1. CASE c = d
        BY <1>0, <3>1, <4>1 DEF Keeps, CallRecord
      <4>2. CASE c # d
        BY <1>0, <1>1, <3>1, <4>2
      <4> QED BY <4>1, <4>2
    <3> QED BY <2>1, <2>3, <3>1 DEF Begin
  <2>4. CASE Answer(d)
    BY <2>1, <2>4 DEF Answer
  <2>5. CASE FinishSucceeded(d)
    BY <2>1, <2>2, <2>5 DEF FinishSucceeded
  <2>6. CASE FinishFailed(d)
    BY <2>1, <2>2, <2>6 DEF FinishFailed
  <2> QED BY <1>5, <2>3, <2>4, <2>5, <2>6 DEF CallStep
<1>6. ASSUME NEW p \in Process, Ends(p) PROVE Keeps(c)
  BY <1>0, <1>1, <1>4, <1>6 DEF Ends
<1>7. CASE Members
  BY <1>1, <1>7 DEF Members, Start, ControlResume, ControlPause, ControlCancel, AdoptTechnicalVersion
<1>8. CASE Around
  <2>1. CASE \E p \in Process : Crash(p) \/ Exit(p)
    BY <1>6, <2>1 DEF Crash, Exit
  <2>2. CASE ~\E p \in Process : Crash(p) \/ Exit(p)
    BY <1>1, <1>8, <2>2
    DEF Around, Dispatch, HeartbeatFails, WorkerStop, Close, Open, LeaseExpires, DeadlinePasses,
        RaiseBarrier, LowerBarrier, investigation
  <2> QED BY <2>1, <2>2
<1>9. ASSUME NEW p \in Process, JobStep(p)
      PROVE  Keeps(c) \/ Reserved(c) \/ Saved(c)
  BY <1>1, <1>2, <1>3, <1>9
  DEF JobStep, OpenJob, Claim, ClaimRefused, Aborts, Reuse, ReserveRefused, Complete, CatchExpires,
      CatchSettles, investigation
<1>10. CASE UNCHANGED vars
  BY <1>1, <1>10 DEF vars, investigation
<1> QED BY <1>5, <1>7, <1>8, <1>9, <1>10, NextCases

\* A reserved call stays reserved, on its basis, with its checkpoint.
LEMMA ReservedStays ==
  ASSUME CallsInv, [Next]_vars, NEW c \in Call, calls[c].reserved
  PROVE  /\ calls'[c].reserved /\ calls'[c].basis = calls[c].basis
         /\ calls[c].saved => calls'[c].saved
         /\ calls[c].started => calls'[c].started
         /\ calls[c].outcome # "OPEN" => calls'[c].outcome = calls[c].outcome
<1>0. calls[c] \in CallRecord
  BY DEF CallsInv, TypeOK
<1>1. CASE Reserved(c)
  BY <1>1, Reserves DEF Reserved, CallsInv
<1>2. CASE Saved(c)
  <2>1. calls'[c] = [calls[c] EXCEPT !.saved = TRUE]
    BY <1>2 DEF Saved
  <2> QED BY <1>0, <2>1 DEF CallRecord
<1>3. CASE Keeps(c)
  BY <1>3 DEF Keeps
<1> QED BY <1>1, <1>2, <1>3, CallKept

\* Checkpoints stay, and a new one is of a call that succeeded.
LEMMA SavedFactsNext ==
  ASSUME ResultInv, [Next]_vars
  PROVE  /\ SavedFacts'
         /\ \A t \in Task, b \in Basis : Cached(t, b) => Cached(t, b)'
<1> USE DEF ResultInv
<1>1. ASSUME NEW c \in Call, calls'[c].saved
      PROVE  calls'[c].started /\ calls'[c].outcome = "SUCCEEDED"
  <2>0. calls[c] \in CallRecord
    BY DEF CallsInv, TypeOK
  <2>1. CASE Keeps(c)
    BY <1>1, <2>1 DEF SavedFacts, Keeps
  <2>2. CASE Reserved(c)
    <3>1. PICK p \in Process : ReserveModelCall(p) /\ c = CallOfJob(p)
      BY <2>2 DEF Reserved
    <3>2. calls'[c] = CallOf(TRUE, FALSE, "OPEN", 0, row.adopted, FALSE, "reserved", p)
      BY <3>1, Reserves DEF CallsInv
    <3> QED BY <1>1, <3>2 DEF CallOf
  <2>3. CASE Saved(c)
    <3>1. PICK p \in Process : /\ jobs[p].pc = "save" /\ c = CallOfJob(p)
                               /\ calls'[c] = [calls[c] EXCEPT !.saved = TRUE]
      BY <2>3 DEF Saved
    <3>2. calls[c].started /\ calls[c].outcome = "SUCCEEDED"
      BY <3>1 DEF WorkFacts, WorkFact, Working
    <3> QED BY <2>0, <3>1, <3>2 DEF CallRecord
  <2> QED BY <2>1, <2>2, <2>3, CallKept
<1>2. ASSUME NEW t \in Task, NEW b \in Basis, Cached(t, b) PROVE Cached(t, b)'
  <2>1. PICK g \in Generation : calls[<<g, t>>].saved /\ calls[<<g, t>>].basis = b
    BY <1>2 DEF Cached
  <2>2. <<g, t>> \in Call
    BY DEF Call
  <2>3. calls[<<g, t>>].reserved
    BY <2>1, <2>2 DEF SavedFacts, CallsInv, CallFacts, CallFact
  <2>4. calls'[<<g, t>>].saved /\ calls'[<<g, t>>].basis = b
    BY <2>1, <2>2, <2>3, ReservedStays
  <2> QED BY <2>4 DEF Cached
<1> QED BY <1>1, <1>2 DEF SavedFacts

\* Versions are adopted with a new generation.
LEMMA AdoptedKept ==
  ASSUME CallsInv, [Next]_vars
  PROVE  row'.adopted = row.adopted \/ row'.generation = row.generation + 1
<1>0. row \in Row
  BY DEF CallsInv, TypeOK
<1>1. CASE row' = row
  BY <1>1
<1>2. ASSUME NEW s, NEW g, NEW f, MovesTo(s, g, f) PROVE row'.adopted = row.adopted
  BY <1>0, <1>2 DEF MovesTo, Row
<1>3. ASSUME ExpireIfDue PROVE row'.adopted = row.adopted
  BY <1>1, <1>2, <1>3 DEF ExpireIfDue
<1>4. CASE Members
  <2>1. ASSUME NEW p \in Process, AdoptTechnicalVersion(p) PROVE row'.generation = row.generation + 1
    BY <1>0, <2>1 DEF AdoptTechnicalVersion, Row
  <2>2. CASE Start
    BY <1>0, <2>2 DEF Start, Row
  <2> QED BY <1>2, <1>4, <2>1, <2>2 DEF Members, ControlResume, ControlPause, ControlCancel
<1>5. CASE Around
  <2>1. CASE LeaseExpires
    BY <1>0, <2>1 DEF LeaseExpires, Row
  <2>2. CASE ~LeaseExpires
    BY <1>1, <1>5, <2>2
    DEF Around, Dispatch, HeartbeatFails, WorkerStop, Crash, Close, Exit, Open, Ends, DeadlinePasses,
        RaiseBarrier, LowerBarrier, investigation
  <2> QED BY <2>1, <2>2
<1>6. ASSUME NEW p \in Process, JobStep(p) PROVE row'.adopted = row.adopted
  <2>1. CASE Claim(p)
    BY <1>0, <2>1 DEF Claim, Row
  <2>2. CASE OpenJob(p) \/ CatchExpires(p)
    BY <1>1, <1>3, <2>2 DEF OpenJob, CatchExpires
  <2>3. CASE Complete(p) \/ CatchSettles(p)
    BY <1>1, <1>2, <2>3 DEF Complete, CatchSettles
  <2>4. CASE ClaimRefused(p) \/ Aborts(p) \/ Reuse(p) \/ ReserveModelCall(p) \/ ReserveRefused(p) \/ Checkpoint(p)
    BY <1>1, <2>4 DEF ClaimRefused, Aborts, Reuse, ReserveModelCall, ReserveRefused, Checkpoint, investigation
  <2> QED BY <1>6, <2>1, <2>2, <2>3, <2>4 DEF JobStep
<1>7. ASSUME NEW c \in Call, CallStep(c) PROVE row' = row
  BY <1>7 DEF CallStep, Begin, Answer, FinishSucceeded, FinishFailed
<1>8. CASE UNCHANGED vars
  BY <1>1, <1>8 DEF vars, investigation
<1> QED BY <1>1, <1>4, <1>5, <1>6, <1>7, <1>8, NextCases

\* How a step leaves a job that works on: at its place, or giving up.
Stays(p) ==
  /\ jobs'[p].pc = jobs[p].pc \/ jobs'[p].pc \in {"catching", "ending"}
  /\ jobs'[p].task = jobs[p].task

\* It passed a task it has a checkpoint for, now or from the step.
Passes(p) ==
  /\ \/ jobs[p].pc = "stage" /\ Cached(jobs[p].task, jobs[p].basis)
     \/ jobs[p].pc = "save" /\ calls'[CallOfJob(p)] = [calls[CallOfJob(p)] EXCEPT !.saved = TRUE]
  /\ \/ jobs[p].task = Tasks /\ jobs'[p].pc = "completing" /\ jobs'[p].task = jobs[p].task
     \/ jobs[p].task # Tasks /\ jobs'[p].pc = "stage" /\ jobs'[p].task = jobs[p].task + 1

\* The call it waited for succeeded while it held the row.
Receives(p) ==
  /\ jobs[p].pc = "call" /\ jobs'[p].pc = "save" /\ jobs'[p].task = jobs[p].task
  /\ CallOfJob(p) \in Call
  /\ calls[CallOfJob(p)].client = "answered"
  /\ Finished(CallOfJob(p), "SUCCEEDED", "done")

Moves(p) ==
  /\ Working(p) /\ jobs'[p].generation = jobs[p].generation /\ jobs'[p].basis = jobs[p].basis
  /\ \/ Stays(p) \/ Passes(p) \/ Receives(p)
     \/ ReserveModelCall(p) /\ jobs'[p].pc = "call" /\ jobs'[p].task = jobs[p].task

LEMMA JobMoves ==
  ASSUME CallsInv, [Next]_vars, NEW p \in Process, Working(p)'
  PROVE  Claim(p) \/ Moves(p)
<1>0. jobs \in [Process -> JobRecord] /\ jobs[p] \in JobRecord /\ calls \in [Call -> CallRecord] /\ TypeOK
  BY DEF CallsInv, TypeOK
<1>1. ASSUME jobs'[p] = jobs[p] PROVE Moves(p)
  BY <1>1 DEF Moves, Stays, Working
<1>2. ASSUME NEW stop, jobs'[p] = [jobs[p] EXCEPT !.stop = stop] PROVE Moves(p)
  BY <1>0, <1>2 DEF Moves, Stays, Working, JobRecord
<1>3. ASSUME NEW code, Working(p), jobs'[p] = [jobs[p] EXCEPT !.pc = "catching", !.code = code] PROVE Moves(p)
  BY <1>0, <1>3 DEF Moves, Stays, JobRecord
<1>4. ASSUME NextTask(p), jobs[p].pc \in {"stage", "save"}
      PROVE  /\ jobs'[p].generation = jobs[p].generation /\ jobs'[p].basis = jobs[p].basis
             /\ \/ jobs[p].task = Tasks /\ jobs'[p].pc = "completing" /\ jobs'[p].task = jobs[p].task
                \/ jobs[p].task # Tasks /\ jobs'[p].pc = "stage" /\ jobs'[p].task = jobs[p].task + 1
  <2>1. CASE jobs[p].task = Tasks
    <3>1. jobs'[p] = [jobs[p] EXCEPT !.pc = "completing"]
      BY <1>0, <1>4, <2>1 DEF NextTask, JobGoes
    <3> QED BY <1>0, <2>1, <3>1 DEF JobRecord
  <2>2. CASE jobs[p].task # Tasks
    <3>1. jobs'[p] = JobOf("stage", jobs[p].generation, jobs[p].basis, jobs[p].task + 1, jobs[p].stop, jobs[p].code)
      BY <1>0, <1>4, <2>2 DEF NextTask, JobAsks
    <3> QED BY <2>2, <3>1 DEF JobOf
  <2> QED BY <2>1, <2>2
<1>5. ASSUME JobEnds(p) PROVE FALSE
  BY <1>0, <1>5 DEF JobEnds, Working, Idle, JobOf
<1>6. ASSUME NEW code, JobCatches(p, code), Working(p) PROVE Moves(p)
  BY <1>0, <1>3, <1>6 DEF JobCatches
<1>7. CASE Members
  BY <1>1, <1>7 DEF Members, Start, ControlResume, ControlPause, ControlCancel, AdoptTechnicalVersion
<1>8. ASSUME NEW q \in Process, JobStep(q)
      PROVE  Claim(p) \/ Moves(p)
  <2>1. CASE q # p
    BY <1>0, <1>1, <1>8, <2>1
    DEF JobStep, OpenJob, Claim, ClaimRefused, Aborts, Reuse, ReserveModelCall, ReserveRefused, Checkpoint,
        Complete, CatchExpires, CatchSettles, JobGoes, JobCatches, JobEnds, NextTask, JobAsks
  <2>2. CASE q = p
    <3>1. CASE OpenJob(p)
      BY <1>0, <1>5, <3>1 DEF OpenJob, JobGoes, Working, JobRecord
    <3>2. CASE ClaimRefused(p)
      BY <1>5, <3>2 DEF ClaimRefused
    <3>3. CASE Aborts(p)
      BY <1>6, <3>3 DEF Aborts, Working
    <3>4. CASE Reuse(p)
      <4>1. CASE NextTask(p)
        <5>1. jobs[p].pc = "stage" /\ Cached(jobs[p].task, jobs[p].basis)
          BY <3>4 DEF Reuse
        <5> QED BY <1>4, <4>1, <5>1 DEF Moves, Passes, Working
      <4>2. CASE JobCatches(p, "OTHER")
        BY <1>6, <3>4, <4>2 DEF Reuse, Working
      <4> QED BY <3>4, <4>1, <4>2 DEF Reuse
    <3>5. CASE ReserveModelCall(p)
      <4>1. jobs'[p] = [jobs[p] EXCEPT !.pc = "call"] /\ Working(p)
        BY <1>0, <3>5 DEF ReserveModelCall, JobGoes, Working
      <4> QED BY <1>0, <3>5, <4>1 DEF Moves, JobRecord
    <3>6. CASE ReserveRefused(p)
      BY <1>6, <3>6 DEF ReserveRefused, Working
    <3>7. CASE Checkpoint(p)
      <4>1. Working(p) /\ jobs[p].pc = "save"
        BY <3>7 DEF Checkpoint, Working
      <4>2. CASE NextTask(p) /\ calls' = [calls EXCEPT ![CallOfJob(p)].saved = TRUE]
        <5>1. CallOfJob(p) \in Call => Passes(p)
          BY <1>0, <1>4, <4>1, <4>2 DEF Passes
        <5>2. CallOfJob(p) \in Call
          <6>1. jobs[p].generation # 0
            BY <4>1 DEF CallsInv, JobFacts, JobFact
          <6> QED BY <1>0, <6>1, JobCall
        <5> QED BY <1>4, <4>1, <4>2, <5>1, <5>2 DEF Moves
      <4>3. CASE JobCatches(p, "OTHER")
        BY <1>6, <4>1, <4>3
      <4> QED BY <3>7, <4>2, <4>3 DEF Checkpoint
    <3>8. CASE Complete(p)
      BY <1>5, <1>6, <3>8 DEF Complete, Working
    <3>9. CASE CatchExpires(p)
      <4>1. jobs'[p] = [jobs[p] EXCEPT !.pc = "ending"] /\ Working(p)
        BY <1>0, <3>9 DEF CatchExpires, JobGoes, Working
      <4> QED BY <1>0, <4>1 DEF Moves, Stays, JobRecord
    <3>10. CASE CatchSettles(p)
      BY <1>5, <3>10 DEF CatchSettles
    <3> QED BY <1>8, <2>2, <3>1, <3>2, <3>3, <3>4, <3>5, <3>6, <3>7, <3>8, <3>9, <3>10 DEF JobStep
  <2> QED BY <2>1, <2>2
<1>9. ASSUME NEW c \in Call, CallStep(c), jobs'[p] # jobs[p]
      PROVE  Moves(p)
  <2>1. PICK pc \in {"save", "catching"}, code \in {"NONE", "OTHER"} :
          /\ JobReturns(c, pc, code)
          /\ pc = "save" => calls[c].client = "answered" /\ Finished(c, "SUCCEEDED", "done")
    <3>1. FinishSucceeded(c) \/ FinishFailed(c)
      BY <1>9 DEF CallStep, Begin, Answer
    <3>2. CASE FinishFailed(c)
      BY <3>2 DEF FinishFailed
    <3>3. CASE FinishSucceeded(c)
      <4>1. /\ calls[c].client = "answered"
            /\ \/ Finished(c, "SUCCEEDED", "done") /\ JobReturns(c, "save", "NONE")
               \/ JobReturns(c, "catching", "OTHER")
               \/ UNCHANGED jobs
        BY <3>3, Zenon DEF FinishSucceeded
      <4>2. jobs' # jobs
        BY <1>9
      <4> QED BY <4>1, <4>2
    <3> QED BY <3>1, <3>2, <3>3
  <2>2. Awaited(c) /\ calls[c].by = p
    BY <1>0, <1>9, <2>1 DEF JobReturns
  <2>3. jobs'[p] = [jobs[p] EXCEPT !.pc = pc, !.code = code] /\ jobs[p].pc = "call" /\ CallOfJob(p) = c
    BY <1>0, <2>1, <2>2 DEF JobReturns, Awaited
  <2>4. CASE pc = "catching"
    <3>1. jobs'[p] = [jobs[p] EXCEPT !.pc = "catching", !.code = code] /\ Working(p)
      BY <2>3, <2>4 DEF Working
    <3> QED BY <1>3, <3>1
  <2>5. CASE pc = "save"
    <3>1. /\ jobs'[p].pc = "save" /\ jobs'[p].task = jobs[p].task
          /\ jobs'[p].generation = jobs[p].generation /\ jobs'[p].basis = jobs[p].basis
      BY <1>0, <2>3, <2>5 DEF JobRecord
    <3>2. Receives(p)
      BY <2>1, <2>3, <2>5, <3>1 DEF Receives
    <3> QED BY <2>3, <3>1, <3>2 DEF Moves, Working
  <2> QED BY <2>4, <2>5
<1>10. CASE Around
  <2>1. ASSUME NEW q \in Process, Dispatch(q) PROVE Moves(p)
    <3>1. jobs' = [jobs EXCEPT ![q].pc = "opening"]
      BY <2>1 DEF Dispatch, JobGoes
    <3>2. q # p
      BY <1>0, <3>1 DEF Working, JobRecord
    <3> QED BY <1>0, <1>1, <3>1, <3>2
  <2>2. ASSUME NEW q \in Process, HeartbeatFails(q) \/ WorkerStop(q) \/ Close(q) PROVE Moves(p)
    <3>1. jobs'[p] = jobs[p] \/ \E stop \in {"stopped", "shutdown"} : jobs'[p] = [jobs[p] EXCEPT !.stop = stop]
      BY <1>0, <2>2 DEF HeartbeatFails, WorkerStop, Close
    <3> QED BY <1>1, <1>2, <3>1
  <2>3. ASSUME NEW q \in Process, Crash(q) \/ Exit(q) PROVE Moves(p)
    <3>1. JobEnds(q)
      BY <2>3 DEF Crash, Exit, Ends
    <3>2. q # p
      BY <1>5, <3>1
    <3> QED BY <1>0, <1>1, <3>1, <3>2 DEF JobEnds
  <2>4. CASE LeaseExpires \/ DeadlinePasses \/ RaiseBarrier \/ LowerBarrier \/ \E q \in Process : Open(q)
    BY <1>1, <2>4 DEF LeaseExpires, DeadlinePasses, RaiseBarrier, LowerBarrier, Open
  <2> QED BY <1>10, <2>1, <2>2, <2>3, <2>4 DEF Around
<1>11. CASE UNCHANGED vars
  BY <1>1, <1>11 DEF vars
<1> QED BY <1>1, <1>7, <1>8, <1>9, <1>10, <1>11, NextCases

\* A job that works reserved the call it is at, in its own generation.
LEMMA OwnCall ==
  ASSUME CallsInv, NEW p \in Process, Working(p)
  PROVE  /\ CallOfJob(p) \in Call /\ CallOfJob(p) = <<jobs[p].generation, jobs[p].task>>
         /\ jobs[p].generation \in Generation /\ jobs[p].generation \in Nat /\ jobs[p].task \in Task
         /\ jobs[p].basis \in Basis /\ jobs[p].generation <= row.generation /\ row.generation \in Nat
<1>1. jobs[p].generation # 0 /\ jobs[p].generation <= row.generation
  BY DEF CallsInv, JobFacts, JobFact
<1>2. row.generation \in Nat
  BY RowFields DEF CallsInv, TypeOK
<1> QED BY <1>1, <1>2, JobCall, JobFields DEF CallsInv, CallOfJob, Generation

LEMMA WorkFactsNext ==
  ASSUME ResultInv, [Next]_vars
  PROVE  WorkFacts'
<1> SUFFICES ASSUME NEW p \in Process, Working(p)' PROVE WorkFact(p)'
  BY DEF WorkFacts, WorkFact
<1> USE DEF ResultInv
<1>0. /\ row.generation \in Nat /\ row'.generation \in Nat /\ row.generation <= row'.generation
      /\ row.adopted \in Basis /\ jobs \in [Process -> JobRecord]
  BY Forward, RowFields DEF CallsInv, TypeOK
<1>1. ASSUME NEW t \in Task, NEW b \in Basis, Cached(t, b) PROVE Cached(t, b)'
  BY <1>1, SavedFactsNext
<1>2. CASE Claim(p)
  <2>1. /\ jobs'[p] = JobOf("stage", row.generation + 1, row.adopted, 1, "no", "NONE")
        /\ row' = [row EXCEPT !.state = "RUNNING", !.generation = @ + 1, !.worker = p, !.lease = TRUE]
    BY <1>0, <1>2 DEF Claim
  <2>2. jobs'[p].pc = "stage" /\ jobs'[p].basis = row.adopted /\ jobs'[p].task = 1
    BY <2>1 DEF JobOf
  <2>3. row'.adopted = row.adopted
    BY <2>1 DEF CallsInv, TypeOK, Row
  <2>4. \A t \in Task : ~(t < 1)
    BY DEF Task
  <2> QED BY <2>2, <2>3, <2>4 DEF WorkFact
<1>3. CASE Moves(p)
  <2>a. PICK g \in Generation, b \in Basis, k \in Task, c \in Call :
          g = jobs[p].generation /\ b = jobs[p].basis /\ k = jobs[p].task /\ c = CallOfJob(p)
    BY <1>3, OwnCall DEF Moves
  <2>0. /\ Working(p) /\ jobs'[p].generation = g /\ jobs'[p].basis = b
        /\ WorkFact(p) /\ c = <<g, k>> /\ g \in Nat /\ g <= row.generation
        /\ g = jobs[p].generation /\ b = jobs[p].basis /\ k = jobs[p].task /\ c = CallOfJob(p)
    BY <1>3, <2>a, OwnCall DEF Moves, WorkFacts
  <2>1. row'.generation = g => row'.adopted = b
    BY <1>0, <2>0, AdoptedKept DEF WorkFact
  <2>2. CASE Stays(p)
    <3>1. jobs'[p].task = k /\ CallOfJob(p)' = c
      BY <2>0, <2>2 DEF Stays, CallOfJob
    <3>2. CASE jobs'[p].pc \in {"catching", "ending"}
      BY <2>0, <2>1, <3>2 DEF WorkFact
    <3>3. CASE jobs'[p].pc = jobs[p].pc
      <4>1. jobs[p].pc \in {"stage", "call", "save", "completing"} =>
              \A t \in Task : t < k \/ jobs[p].pc = "completing" => Cached(t, b)'
        BY <1>1, <2>0 DEF WorkFact
      <4>2. jobs[p].pc \in {"call", "save"} => calls'[c].reserved /\ calls'[c].basis = b
        BY <2>0, ReservedStays DEF WorkFact
      <4>3. jobs[p].pc = "save" => calls'[c].started /\ calls'[c].outcome = "SUCCEEDED"
        BY <2>0, ReservedStays DEF WorkFact
      <4> QED BY <2>0, <2>1, <3>1, <3>3, <4>1, <4>2, <4>3 DEF WorkFact, Cached
    <3> QED BY <2>2, <3>2, <3>3 DEF Stays
  <2>3. CASE Passes(p)
    <3>1. \A t \in Task : t < k => Cached(t, b)'
      BY <1>1, <2>0, <2>3 DEF Passes, WorkFact
    <3>2. Cached(k, b)'
      <4>1. CASE jobs[p].pc = "stage" /\ Cached(k, b)
        BY <1>1, <2>0, <4>1
      <4>2. CASE jobs[p].pc = "save" /\ calls'[c] = [calls[c] EXCEPT !.saved = TRUE]
        <5>1. calls[c] \in CallRecord /\ calls[c].basis = b
          BY <2>0, <4>2 DEF WorkFact, CallsInv, TypeOK
        <5>2. calls'[c].saved /\ calls'[c].basis = b
          BY <4>2, <5>1 DEF CallRecord
        <5> QED BY <2>0, <5>2 DEF Cached
      <4> QED BY <2>0, <2>3, <4>1, <4>2 DEF Passes
    <3>3. CASE k = Tasks /\ jobs'[p].pc = "completing" /\ jobs'[p].task = k
      <4>1. \A t \in Task : Cached(t, b)'
        BY <3>1, <3>2, <3>3, InvestigationAssumption DEF Task
      <4> QED BY <2>0, <2>1, <3>3, <4>1 DEF WorkFact, Cached
    <3>4. CASE jobs'[p].pc = "stage" /\ jobs'[p].task = k + 1
      <4>1. \A t \in Task : t < k + 1 => Cached(t, b)'
        BY <2>0, <3>1, <3>2 DEF Task
      <4> QED BY <2>0, <2>1, <3>4, <4>1 DEF WorkFact, Cached
    <3> QED BY <2>0, <2>3, <3>3, <3>4 DEF Passes
  <2>4. CASE Receives(p)
    <3>1. \A t \in Task : t < k => Cached(t, b)'
      BY <1>1, <2>0, <2>4 DEF Receives, WorkFact
    <3>2. calls[c].reserved /\ calls[c].basis = b
      BY <2>0, <2>4 DEF Receives, WorkFact
    <3>3. calls[c].started /\ calls[c].outcome = "OPEN"
      BY <2>0, <2>4 DEF Receives, CallsInv, CallFacts, CallFact
    <3>4. calls'[c] = CallOf(calls[c].reserved, calls[c].started, "SUCCEEDED", row.generation, calls[c].basis,
                             calls[c].saved, "done", calls[c].by)
      BY <2>0, <2>4, <3>3 DEF Receives, Finished, CallsInv, TypeOK
    <3>5. calls'[c].reserved /\ calls'[c].basis = b /\ calls'[c].started /\ calls'[c].outcome = "SUCCEEDED"
      BY <3>2, <3>3, <3>4 DEF CallOf
    <3>6. jobs'[p].pc = "save" /\ jobs'[p].task = k /\ CallOfJob(p)' = c
      BY <2>0, <2>4 DEF Receives, CallOfJob
    <3> QED BY <2>0, <2>1, <3>1, <3>5, <3>6 DEF WorkFact, Cached
  <2>5. CASE ReserveModelCall(p) /\ jobs'[p].pc = "call" /\ jobs'[p].task = k
    <3>1. jobs[p].pc = "stage" /\ row.generation = g
      BY <2>0, <2>5 DEF ReserveModelCall, Running
    <3>2. \A t \in Task : t < k => Cached(t, b)'
      BY <1>1, <2>0, <3>1 DEF WorkFact
    <3>3. row.adopted = b
      BY <2>0, <3>1 DEF WorkFact
    <3>4. calls'[c] = CallOf(TRUE, FALSE, "OPEN", 0, row.adopted, FALSE, "reserved", p)
      BY <2>0, <2>5, Reserves DEF CallsInv
    <3>5. calls'[c].reserved /\ calls'[c].basis = b
      BY <3>3, <3>4 DEF CallOf
    <3>6. CallOfJob(p)' = c
      BY <2>0, <2>5 DEF CallOfJob
    <3> QED BY <2>0, <2>1, <2>5, <3>2, <3>5, <3>6 DEF WorkFact, Cached
  <2> QED BY <1>3, <2>0, <2>2, <2>3, <2>4, <2>5 DEF Moves
<1> QED BY <1>2, <1>3, JobMoves

\* What a completion finds: its own generation, and a checkpoint of every task.
LEMMA ResultFactNext ==
  ASSUME ResultInv, [Next]_vars
  PROVE  ResultFact'
<1> USE DEF ResultInv
<1>0. row \in Row /\ row.adopted \in Basis
  BY RowFields DEF CallsInv, TypeOK
<1>1. CASE row.state = "COMPLETED"
  <2>1. row' = row
    BY <1>1, StandsNext DEF CallsInv, Stands
  <2> QED BY <1>0, <1>1, <2>1, SavedFactsNext DEF ResultFact
<1>2. ASSUME NEW p \in Process, Complete(p), row' # row
      PROVE  ResultFact'
  <2>1. /\ jobs[p].pc = "completing" /\ Running(jobs[p].generation)
        /\ MovesTo("COMPLETED", row.generation, row.failure)
    BY <1>2 DEF Complete
  <2>2. row'.adopted = row.adopted
    BY <1>0, <2>1 DEF MovesTo, Row
  <2>3. WorkFact(p) /\ Working(p)
    BY <2>1 DEF WorkFacts, Working
  <2>4. \A t \in Task : Cached(t, row.adopted)
    BY <2>1, <2>3 DEF WorkFact, Running
  <2> QED BY <1>0, <2>2, <2>4, SavedFactsNext DEF ResultFact
<1>3. CASE row.state # "COMPLETED" /\ ~\E p \in Process : Complete(p) /\ row' # row
  <2>1. row'.state # "COMPLETED"
    <3>1. CASE row' = row
      BY <1>3, <3>1
    <3>2. ASSUME NEW s, NEW g, NEW f, MovesTo(s, g, f), s # "COMPLETED" PROVE row'.state # "COMPLETED"
      BY <1>0, <3>2 DEF MovesTo, Row
    <3>3. ASSUME ExpireIfDue PROVE row'.state # "COMPLETED"
      BY <3>1, <3>2, <3>3 DEF ExpireIfDue
    <3>4. CASE Members
      <4>1. ASSUME NEW p \in Process, AdoptTechnicalVersion(p) PROVE row'.state # "COMPLETED"
        BY <1>0, <4>1 DEF AdoptTechnicalVersion, Row
      <4>2. CASE Start
        BY <1>0, <4>2 DEF Start, Row
      <4> QED BY <3>2, <3>4, <4>1, <4>2 DEF Members, ControlResume, ControlPause, ControlCancel
    <3>5. CASE Around
      <4>1. CASE LeaseExpires
        BY <1>0, <1>3, <4>1 DEF LeaseExpires, Row
      <4>2. CASE ~LeaseExpires
        BY <3>1, <3>5, <4>2
        DEF Around, Dispatch, HeartbeatFails, WorkerStop, Crash, Close, Exit, Open, Ends, DeadlinePasses,
            RaiseBarrier, LowerBarrier, investigation
      <4> QED BY <4>1, <4>2
    <3>6. ASSUME NEW p \in Process, JobStep(p) PROVE row'.state # "COMPLETED"
      <4>1. CASE Claim(p)
        BY <1>0, <4>1 DEF Claim, Row
      <4>2. CASE OpenJob(p) \/ CatchExpires(p)
        BY <3>1, <3>3, <4>2 DEF OpenJob, CatchExpires
      <4>3. CASE Complete(p)
        BY <1>3, <3>1, <4>3
      <4>4. CASE CatchSettles(p)
        BY <3>1, <3>2, <4>4 DEF CatchSettles
      <4>5. CASE ClaimRefused(p) \/ Aborts(p) \/ Reuse(p) \/ ReserveModelCall(p) \/ ReserveRefused(p) \/ Checkpoint(p)
        BY <3>1, <4>5
        DEF ClaimRefused, Aborts, Reuse, ReserveModelCall, ReserveRefused, Checkpoint, investigation
      <4> QED BY <3>6, <4>1, <4>2, <4>3, <4>4, <4>5 DEF JobStep
    <3>7. ASSUME NEW c \in Call, CallStep(c) PROVE row' = row
      BY <3>7 DEF CallStep, Begin, Answer, FinishSucceeded, FinishFailed
    <3>8. CASE UNCHANGED vars
      BY <3>1, <3>8 DEF vars, investigation
    <3> QED BY <3>1, <3>4, <3>5, <3>6, <3>7, <3>8, NextCases
  <2> QED BY <2>1 DEF ResultFact
<1> QED BY <1>1, <1>2, <1>3

LEMMA ResultInvCorrect == Spec => []ResultInv
<1>1. Init => SavedFacts /\ WorkFacts /\ ResultFact
  BY DEF Init, SavedFacts, WorkFacts, WorkFact, ResultFact, Working, Idle, JobOf, NoCall, CallOf
<1>2. ResultInv /\ CallsInv' /\ [Next]_vars => ResultInv'
  BY SavedFactsNext, WorkFactsNext, ResultFactNext DEF ResultInv
<1>3. CallsInv /\ SavedFacts /\ WorkFacts /\ ResultFact <=> ResultInv
  BY DEF ResultInv
<1> QED BY <1>1, <1>2, <1>3, CallsInvCorrect, PTL DEF Spec

\* The result of a completed investigation rests, task by task, on a call that
\* succeeded while its generation was current and on the versions adopted by
\* then: over any number of takeovers, adoptions and late answers
\* (finishModelCall, checkpoint, complete; the binding of run()).
THEOREM ResultIsCurrentCorrect == Spec => []ResultIsCurrent
<1>1. ResultInv => ResultIsCurrent
  <2> SUFFICES ASSUME ResultInv, row.state = "COMPLETED", NEW t \in Task
               PROVE  \E g \in Generation :
                        LET call == calls[<<g, t>>] IN
                        call.saved /\ call.basis = row.adopted /\ call.started /\ call.outcome = "SUCCEEDED"
    BY DEF ResultIsCurrent
  <2>1. PICK g \in Generation : calls[<<g, t>>].saved /\ calls[<<g, t>>].basis = row.adopted
    BY DEF ResultInv, ResultFact, Cached
  <2>2. <<g, t>> \in Call
    BY DEF Call
  <2> QED BY <2>1, <2>2 DEF ResultInv, SavedFacts
<1> QED BY <1>1, ResultInvCorrect, PTL

-----------------------------------------------------------------------------
(* Refinement: the events of all generations implement CallOnce              *)

\* The phase a call brings its task to.
PhaseOf(call) ==
  IF call.outcome = "OPEN" THEN "sent"
  ELSE IF call.outcome \notin Known THEN "settled"
  ELSE IF Asked(call) THEN "asked" ELSE "failed"

\* The phase of a task on a basis is that of the last call sent for it.
LEMMA PhaseIs ==
  \A t \in Task, b \in Basis :
    /\ Sent(t, b) = {} => Phase(t, b) = "idle"
    /\ \A g \in Sent(t, b) : (\A h \in Sent(t, b) : h <= g) => Phase(t, b) = PhaseOf(calls[<<g, t>>])
<1> SUFFICES ASSUME NEW t \in Task, NEW b \in Basis
             PROVE  /\ Sent(t, b) = {} => Phase(t, b) = "idle"
                    /\ \A g \in Sent(t, b) : (\A h \in Sent(t, b) : h <= g) => Phase(t, b) = PhaseOf(calls[<<g, t>>])
  OBVIOUS
<1>1. Sent(t, b) = {} => Phase(t, b) = "idle"
  BY DEF Phase
<1>2. ASSUME NEW g \in Sent(t, b), \A h \in Sent(t, b) : h <= g
      PROVE  Phase(t, b) = PhaseOf(calls[<<g, t>>])
  <2> DEFINE last == CHOOSE m \in Sent(t, b) : \A h \in Sent(t, b) : h <= m
  <2>1. last \in Sent(t, b) /\ \A h \in Sent(t, b) : h <= last
    BY <1>2
  <2>2. last = LastSent(t, b)
    BY DEF LastSent
  <2> HIDE DEF last
  <2>3. \A h \in Sent(t, b) : h \in Nat
    BY DEF Sent, Generation
  <2>4. last = g
    BY <1>2, <2>1, <2>3
  <2>5. Sent(t, b) # {}
    BY <1>2
  <2> QED BY <2>2, <2>4, <2>5 DEF Phase, PhaseOf
<1> QED BY <1>1, <1>2

\* The same after a step.
LEMMA PhaseIsNext ==
  \A t \in Task, b \in Basis :
    /\ Sent(t, b)' = {} => Phase(t, b)' = "idle"
    /\ \A g \in Sent(t, b)' : (\A h \in Sent(t, b)' : h <= g) => Phase(t, b)' = PhaseOf(calls[<<g, t>>])'
<1>1. (\A t \in Task, b \in Basis :
        /\ Sent(t, b) = {} => Phase(t, b) = "idle"
        /\ \A g \in Sent(t, b) : (\A h \in Sent(t, b) : h <= g) => Phase(t, b) = PhaseOf(calls[<<g, t>>]))'
  BY PhaseIs, PTL
<1> QED BY <1>1

\* Some call is the last.
LEMMA LastExists ==
  ASSUME NEW t \in Task, NEW b \in Basis, Sent(t, b) # {}
  PROVE  \E g \in Sent(t, b) : \A h \in Sent(t, b) : h <= g
<1>1. Sent(t, b) \in SUBSET (1..MaxGeneration)
  BY DEF Sent, Generation
<1> QED BY <1>1, Greatest, InvestigationAssumption

\* A phase nothing of which moves.
LEMMA PhaseSame ==
  ASSUME NEW t \in Task, NEW b \in Basis, Sent(t, b)' = Sent(t, b),
         \A g \in Sent(t, b) : PhaseOf(calls[<<g, t>>])' = PhaseOf(calls[<<g, t>>])
  PROVE  Phase(t, b)' = Phase(t, b)
<1>1. CASE Sent(t, b) = {}
  BY <1>1, PhaseIs, PhaseIsNext
<1>2. CASE Sent(t, b) # {}
  <2>1. PICK g \in Sent(t, b) : \A h \in Sent(t, b) : h <= g
    BY <1>2, LastExists
  <2> QED BY <2>1, PhaseIs, PhaseIsNext
<1> QED BY <1>1, <1>2

\* A sent call was reserved, by a generation the row has reached.
LEMMA SentCalls ==
  ASSUME CallsInv, NEW t \in Task, NEW b \in Basis, NEW g \in Sent(t, b)
  PROVE  /\ <<g, t>> \in Call /\ g \in Generation /\ g \in Nat /\ row.generation \in Nat /\ g <= row.generation
         /\ calls[<<g, t>>].reserved /\ calls[<<g, t>>].started /\ calls[<<g, t>>].basis = b
         /\ calls[<<g, t>>].at \in Nat
         /\ calls[<<g, t>>].outcome # "OPEN" => calls[<<g, t>>].at <= row.generation
<1>1. <<g, t>> \in Call /\ g \in Generation /\ g \in Nat /\ calls[<<g, t>>].started /\ calls[<<g, t>>].basis = b
  BY DEF Sent, Call, Generation
<1>2. CallFact(<<g, t>>) /\ calls[<<g, t>>].at \in Nat
  BY <1>1, CallTyped DEF CallsInv, CallFacts
<1>3. row.generation \in Nat
  BY RowFields DEF CallsInv, TypeOK
<1> QED BY <1>1, <1>2, <1>3 DEF CallFact

Pieces == Task \X Basis
Phases == [k \in Pieces |-> Phase(k[1], k[2])]

LEMMA PhasesAre ==
  /\ \A t \in Task, b \in Basis : Phases[<<t, b>>] = Phase(t, b) /\ Phases'[<<t, b>>] = Phase(t, b)'
  /\ Phases = [k \in Pieces |-> Phases[k]] /\ Phases' = [k \in Pieces |-> Phases'[k]]
  /\ \A k \in Pieces : k[1] \in Task /\ k[2] \in Basis /\ k = <<k[1], k[2]>>
BY DEF Phases, Pieces

\* A member's resume lets every failed task be tried again.
LEMMA ResumeImplements ==
  ASSUME CallsInv, ControlResume
  PROVE  Phases' = [k \in Pieces |-> IF Phases[k] = "failed" THEN "asked" ELSE Phases[k]]
<1>1. calls' = calls /\ resumes' = resumes \cup {row.generation + 1}
  BY DEF ControlResume
<1>2. ASSUME NEW t \in Task, NEW b \in Basis
      PROVE  Phase(t, b)' = IF Phase(t, b) = "failed" THEN "asked" ELSE Phase(t, b)
  <2>1. Sent(t, b)' = Sent(t, b)
    BY <1>1 DEF Sent
  <2>2. CASE Sent(t, b) = {}
    BY <2>1, <2>2, PhaseIs, PhaseIsNext
  <2>3. CASE Sent(t, b) # {}
    <3>1. PICK g \in Sent(t, b) : \A h \in Sent(t, b) : h <= g
      BY <2>3, LastExists
    <3> DEFINE call == calls[<<g, t>>]
    <3>2. Phase(t, b) = PhaseOf(call) /\ Phase(t, b)' = PhaseOf(calls[<<g, t>>])'
      BY <2>1, <3>1, PhaseIs, PhaseIsNext
    <3>3. call.outcome # "OPEN" => call.at < row.generation + 1
      BY SentCalls
    <3>4. call.outcome # "OPEN" => Asked(calls[<<g, t>>])'
      BY <1>1, <3>3 DEF Asked
    <3> QED BY <1>1, <3>2, <3>4 DEF PhaseOf
  <2> QED BY <2>2, <2>3
<1> QED BY <1>2, PhasesAre

\* A task is sent first, or after a member asked for it once more.
LEMMA SendImplements ==
  ASSUME CallsInv, NEW c \in Call, Sends(c)
  PROVE  \E k \in Pieces : Phases[k] \in {"idle", "asked"} /\ Phases' = [Phases EXCEPT ![k] = "sent"]
<1>a. PICK g \in Generation, t \in Task : c = <<g, t>>
  BY DEF Call
<1>b. PICK b \in Basis : calls[c].basis = b
  BY DEF CallsInv, TypeOK, CallRecord
<1>0. /\ calls \in [Call -> CallRecord] /\ calls[c] \in CallRecord /\ c[1] = g
      /\ g \in Nat /\ row.generation = g /\ resumes' = resumes
      /\ calls' = [calls EXCEPT ![c] = [calls[c] EXCEPT !.started = TRUE, !.client = "sent"]]
  BY <1>a DEF CallsInv, TypeOK, Sends, Generation
<1>1. ~calls[c].started /\ calls[c].reserved /\ calls[c].outcome = "OPEN"
  BY DEF CallsInv, CallFacts, CallFact, Sends
<1>2. /\ calls'[c].started /\ calls'[c].basis = b /\ calls'[c].outcome = "OPEN"
      /\ \A d \in Call : d # c => calls'[d] = calls[d]
  BY <1>0, <1>1, <1>b DEF CallRecord
<1>3. ASSUME NEW s \in Task, NEW e \in Basis, s # t \/ e # b PROVE Phase(s, e)' = Phase(s, e)
  <2>1. \A h \in Generation : <<h, s>> \in Call
    BY DEF Call
  <2>2. Sent(s, e)' = Sent(s, e)
    BY <1>a, <1>b, <1>1, <1>2, <1>3, <2>1 DEF Sent
  <2>3. \A h \in Sent(s, e) : calls'[<<h, s>>] = calls[<<h, s>>]
    BY <1>a, <1>b, <1>1, <1>2, <1>3, <2>1 DEF Sent
  <2> QED BY <1>0, <2>2, <2>3, PhaseSame DEF PhaseOf, Asked
<1>4. Phase(t, b)' = "sent"
  <2>1. \A h \in Generation : <<h, t>> \in Call /\ (h # g => calls'[<<h, t>>] = calls[<<h, t>>])
    BY <1>a, <1>2 DEF Call
  <2>2. g \in Sent(t, b)'
    BY <1>a, <1>2 DEF Sent
  <2>3. ASSUME NEW h \in Sent(t, b)' PROVE h <= g
    <3>1. CASE h = g
      BY <1>0, <3>1
    <3>2. CASE h # g
      <4>1. h \in Sent(t, b)
        BY <2>1, <2>3, <3>2 DEF Sent
      <4> QED BY <1>0, <4>1, SentCalls
    <3> QED BY <3>1, <3>2
  <2>4. Phase(t, b)' = PhaseOf(calls[<<g, t>>])'
    BY <2>2, <2>3, PhaseIsNext
  <2> QED BY <1>a, <1>2, <2>4 DEF PhaseOf
<1>5. Phase(t, b) \in {"idle", "asked"}
  <2>1. CASE Sent(t, b) = {}
    BY <2>1, PhaseIs
  <2>2. CASE Sent(t, b) # {}
    <3>1. PICK h \in Sent(t, b) : \A m \in Sent(t, b) : m <= h
      BY <2>2, LastExists
    <3>2. h \in Generation /\ h \in Nat /\ h <= g /\ calls[<<h, t>>].started /\ calls[<<h, t>>].basis = b
      BY <1>0, SentCalls
    <3>3. h < g
      BY <1>0, <1>1, <1>a, <3>2
    <3>4. calls[<<h, t>>].outcome \in Known /\ Asked(calls[<<h, t>>])
      BY <1>1, <1>a, <1>b, <3>2, <3>3 DEF CallsInv, Ordered, Asked
    <3>5. Phase(t, b) = PhaseOf(calls[<<h, t>>])
      BY <3>1, PhaseIs
    <3> QED BY <3>4, <3>5 DEF PhaseOf, Known
  <2> QED BY <2>1, <2>2
<1>6. <<t, b>> \in Pieces /\ Phases[<<t, b>>] \in {"idle", "asked"}
  BY <1>5, PhasesAre DEF Pieces
<1>7. Phases' = [Phases EXCEPT ![<<t, b>>] = "sent"]
  <2>1. \A k \in Pieces : Phases'[k] = IF k = <<t, b>> THEN "sent" ELSE Phases[k]
    BY <1>3, <1>4, PhasesAre
  <2> QED BY <2>1, PhasesAre
<1> QED BY <1>6, <1>7

\* The end of a call is that of its task, or of a call that was not sent.
LEMMA SettleImplements ==
  ASSUME CallsInv, NEW c \in Call, NEW outcome \in Outcome \ {"OPEN"}, Settles(c, outcome)
  PROVE  \/ Phases' = Phases
         \/ \E k \in Pieces : /\ Phases[k] = "sent"
                              /\ \E end \in {"settled", "failed"} : Phases' = [Phases EXCEPT ![k] = end]
<1>a. PICK g \in Generation, t \in Task : c = <<g, t>>
  BY DEF Call
<1>b. PICK b \in Basis : calls[c].basis = b
  BY DEF CallsInv, TypeOK, CallRecord
<1>0. /\ calls \in [Call -> CallRecord] /\ calls[c].outcome = "OPEN" /\ resumes' = resumes
      /\ calls' = [calls EXCEPT ![c] = CallOf(calls[c].reserved, calls[c].started, outcome, row.generation,
                                              calls[c].basis, calls[c].saved, "done", calls[c].by)]
      /\ row.generation \in Nat /\ g \in Nat
  BY RowFields DEF CallsInv, TypeOK, Settles, Finished, Generation
<1>1. /\ calls'[c].started = calls[c].started /\ calls'[c].basis = b /\ calls'[c].outcome = outcome
      /\ calls'[c].at = row.generation
      /\ \A d \in Call : d # c => calls'[d] = calls[d]
  <2>1. calls'[c] = CallOf(calls[c].reserved, calls[c].started, outcome, row.generation,
                           calls[c].basis, calls[c].saved, "done", calls[c].by)
    BY <1>0
  <2> QED BY <1>0, <1>b, <2>1 DEF CallOf
<1>2. ASSUME NEW s \in Task, NEW e \in Basis PROVE Sent(s, e)' = Sent(s, e)
  <2>1. \A h \in Generation : <<h, s>> \in Call
    BY DEF Call
  <2>2. \A h \in Generation : calls'[<<h, s>>].started = calls[<<h, s>>].started
                              /\ calls'[<<h, s>>].basis = calls[<<h, s>>].basis
    BY <1>1, <1>b, <2>1
  <2> QED BY <2>2 DEF Sent
<1>3. ASSUME NEW s \in Task, NEW e \in Basis, c \notin {<<h, s>> : h \in Sent(s, e)}
      PROVE  Phase(s, e)' = Phase(s, e)
  <2>1. \A h \in Sent(s, e) : <<h, s>> \in Call /\ <<h, s>> # c
    BY <1>3 DEF Sent, Call
  <2>2. \A h \in Sent(s, e) : PhaseOf(calls[<<h, s>>])' = PhaseOf(calls[<<h, s>>])
    BY <1>0, <1>1, <2>1 DEF PhaseOf, Asked
  <2> QED BY <1>2, <2>2, PhaseSame
<1>4. CASE g \notin Sent(t, b)
  <2>1. ASSUME NEW s \in Task, NEW e \in Basis PROVE Phase(s, e)' = Phase(s, e)
    <3>1. c \notin {<<h, s>> : h \in Sent(s, e)}
      BY <1>4, <1>a, <1>b DEF Sent
    <3> QED BY <1>3, <3>1
  <2> QED BY <2>1, PhasesAre
<1>5. CASE g \in Sent(t, b)
  <2>1. ASSUME NEW h \in Sent(t, b) PROVE h <= g
    <3>1. h \in Generation /\ h \in Nat /\ calls[<<h, t>>].reserved /\ calls[<<h, t>>].basis = b
      BY SentCalls
    <3>2. ~(g < h)
      <4>1. calls[<<g, t>>].started /\ calls[<<g, t>>].basis = b /\ calls[<<g, t>>].outcome = "OPEN"
        BY <1>0, <1>5, <1>a DEF Sent
      <4> QED BY <3>1, <4>1 DEF CallsInv, Ordered, Known
    <3> QED BY <1>0, <3>1, <3>2
  <2>2. Phase(t, b) = PhaseOf(calls[<<g, t>>]) /\ Phase(t, b)' = PhaseOf(calls[<<g, t>>])'
    BY <1>2, <1>5, <2>1, PhaseIs, PhaseIsNext
  <2>3. Phase(t, b) = "sent"
    BY <1>0, <1>a, <2>2 DEF PhaseOf
  <2>4. ~Asked(calls[<<g, t>>])'
    <3>1. \A r \in resumes : r \in Nat /\ r <= row.generation
      BY DEF CallsInv, TypeOK, ResumeFacts
    <3> QED BY <1>0, <1>1, <1>a, <3>1 DEF Asked
  <2>5. Phase(t, b)' \in {"settled", "failed"}
    BY <1>1, <1>a, <2>2, <2>4 DEF PhaseOf
  <2>6. ASSUME NEW s \in Task, NEW e \in Basis, s # t \/ e # b PROVE Phase(s, e)' = Phase(s, e)
    <3>1. c \notin {<<h, s>> : h \in Sent(s, e)}
      BY <1>a, <1>b, <2>6 DEF Sent
    <3> QED BY <1>3, <3>1
  <2>7. <<t, b>> \in Pieces /\ Phases[<<t, b>>] = "sent"
    BY <2>3, PhasesAre DEF Pieces
  <2>8. PICK end \in {"settled", "failed"} : Phase(t, b)' = end
    BY <2>5
  <2>9. Phases' = [Phases EXCEPT ![<<t, b>>] = end]
    <3>1. ASSUME NEW k \in Pieces PROVE Phases'[k] = IF k = <<t, b>> THEN end ELSE Phases[k]
      <4>1. k[1] \in Task /\ k[2] \in Basis /\ k = <<k[1], k[2]>>
        BY PhasesAre
      <4>2. Phases[k] = Phase(k[1], k[2]) /\ Phases'[k] = Phase(k[1], k[2])'
        BY <4>1, PhasesAre
      <4>3. CASE k[1] = t /\ k[2] = b
        <5>1. k = <<t, b>> /\ Phases'[<<t, b>>] = end
          BY <2>8, <4>1, <4>3, PhasesAre
        <5> QED BY <5>1
      <4>4. CASE k[1] # t \/ k[2] # b
        BY <2>6, <4>1, <4>2, <4>4
      <4> QED BY <4>3, <4>4
    <3> QED BY <3>1, PhasesAre
  <2> QED BY <2>7, <2>9
<1> QED BY <1>4, <1>5

\* Every step is one of CallOnce, or none.
LEMMA StepImplements ==
  ASSUME CallsInv, [Next]_vars
  PROVE  Once!Next \/ Phases' = Phases
<1>1. CASE SameEvents /\ resumes' = resumes
  <2>1. ASSUME NEW t \in Task, NEW b \in Basis PROVE Phase(t, b)' = Phase(t, b)
    <3>1. \A g \in Generation : <<g, t>> \in Call
      BY DEF Call
    <3>2. Sent(t, b)' = Sent(t, b)
      BY <1>1, <3>1 DEF Sent, SameEvents, SameEvent
    <3>3. \A g \in Sent(t, b) : PhaseOf(calls[<<g, t>>])' = PhaseOf(calls[<<g, t>>])
      BY <1>1, <3>1 DEF Sent, SameEvents, SameEvent, PhaseOf, Asked
    <3> QED BY <3>2, <3>3, PhaseSame
  <2> QED BY <2>1, PhasesAre
<1>2. CASE ControlResume
  BY <1>2, ResumeImplements DEF Once!Next, Once!AskAgain, Phases, Pieces
<1>3. ASSUME NEW p \in Process, ReserveModelCall(p) PROVE Phases' = Phases
  <2>1. ASSUME NEW t \in Task, NEW b \in Basis PROVE Phase(t, b)' = Phase(t, b)
    <3>0. /\ CallOfJob(p) \in Call
          /\ calls'[CallOfJob(p)] = CallOf(TRUE, FALSE, "OPEN", 0, row.adopted, FALSE, "reserved", p)
          /\ \A d \in Call : d # CallOfJob(p) => calls'[d] = calls[d]
          /\ ~calls[CallOfJob(p)].reserved /\ resumes' = resumes
      BY <1>3, Reserves DEF CallsInv
    <3>1. ~calls'[CallOfJob(p)].started /\ ~calls[CallOfJob(p)].started
      BY <3>0 DEF CallOf, CallsInv, CallFacts, CallFact
    <3>2. \A g \in Generation : <<g, t>> \in Call
      BY DEF Call
    <3>3. Sent(t, b)' = Sent(t, b) /\ \A g \in Sent(t, b) : calls'[<<g, t>>] = calls[<<g, t>>]
      BY <3>0, <3>1, <3>2 DEF Sent
    <3> QED BY <3>0, <3>3, PhaseSame DEF PhaseOf, Asked
  <2> QED BY <2>1, PhasesAre
<1>4. ASSUME NEW c \in Call, Sends(c) PROVE Once!Next
  BY <1>4, SendImplements, Zenon DEF Once!Next, Once!Send, Phases, Pieces
<1>5. ASSUME NEW c \in Call, NEW outcome \in Outcome \ {"OPEN"}, Settles(c, outcome)
      PROVE  Once!Next \/ Phases' = Phases
  BY <1>5, SettleImplements, Zenon DEF Once!Next, Once!Settle, Phases, Pieces
<1> QED BY <1>1, <1>2, <1>3, <1>4, <1>5, Effects DEF CallsInv

\* The reservations, the events and the retries of all generations implement
\* CallOnce: a call a worker sends is the first for its task and basis, or one a
\* member asked for after a recorded failure, over any number of generations,
\* processes and adoptions (reserveModelCall, finishModelCall).
THEOREM KeepsCallOnceCorrect == Spec => KeepsCallOnce
<1>1. Init => Once!Init
  <2> SUFFICES ASSUME Init PROVE Once!Init
    OBVIOUS
  <2>1. ASSUME NEW t \in Task, NEW b \in Basis PROVE Phase(t, b) = "idle"
    <3>1. Sent(t, b) = {}
      BY DEF Init, Sent, NoCall, CallOf, Call
    <3> QED BY <3>1, PhaseIs
  <2>2. Phases = [k \in Pieces |-> "idle"]
    BY <2>1, PhasesAre
  <2> QED BY <2>2, Zenon DEF Once!Init, Phases, Pieces
<1>2. CallsInv /\ [Next]_vars => [Once!Next]_Phases
  BY StepImplements
<1>3. CallsInv /\ [Next]_vars => [Once!Next]_([k \in Task \X Basis |-> Phase(k[1], k[2])])
  BY <1>2 DEF Phases, Pieces
<1> QED BY <1>1, <1>3, CallsInvCorrect, PTL DEF Spec, KeepsCallOnce, Once!Spec
=============================================================================
