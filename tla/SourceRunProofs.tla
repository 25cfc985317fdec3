-------------------------- MODULE SourceRunProofs --------------------------
(* Proofs about SourceRun for any number of members, processes and runs. *)
EXTENDS SourceRun, TLAPS

-----------------------------------------------------------------------------
(* Rows *)

\* A row whose status some run has is a full record.
LEMMA RowRecord ==
  ASSUME TypeOK, NEW r \in Run, run[r].status \in Status
  PROVE  run[r] \in RunRecord
<1>1. run[r] \in RunRecord \cup {Unborn}
  BY DEF TypeOK
<1>2. run[r] # Unborn
  BY DEF Unborn, Status, Terminal
<1> QED BY <1>1, <1>2

\* The fields of any row.
LEMMA RowFields ==
  ASSUME TypeOK, NEW r \in Run
  PROVE  /\ run[r].generation \in 0..MaxGeneration
         /\ run[r].workerId \in Worker \cup {NoWorker}
         /\ run[r].lease \in BOOLEAN
         /\ run[r].publisherId \in Actor \cup {NoActor}
         /\ run[r].status = "UNBORN" => run[r] = Unborn
<1>1. CASE run[r] \in RunRecord
  BY <1>1 DEF RunRecord, Status, Terminal
<1>2. CASE run[r] = Unborn
  BY <1>2, BoundsAssumption DEF Unborn
<1> QED BY <1>1, <1>2 DEF TypeOK

\* Writing one full row keeps the table well formed.
LEMMA WriteRow ==
  ASSUME TypeOK, NEW r \in Run, NEW row \in RunRecord, run' = [run EXCEPT ![r] = row]
  PROVE  run' \in [Run -> RunRecord \cup {Unborn}]
BY DEF TypeOK

\* Writing one job.
LEMMA WriteJob ==
  ASSUME TypeOK, NEW w \in Worker, NEW r \in Run, NEW j \in JobRecord,
         job' = [job EXCEPT ![w][r] = j]
  PROVE  job' \in [Worker -> [Run -> JobRecord]]
<1>1. job \in [Worker -> [Run -> JobRecord]]
  BY DEF TypeOK
<1> QED BY <1>1

LEMMA IdleJob == Idle \in JobRecord
BY BoundsAssumption DEF Idle, JobRecord

\* The generation after a claim or a fence.
LEMMA NextGeneration ==
  ASSUME TypeOK, NEW r \in Run, run[r].generation < MaxGeneration
  PROVE  /\ run[r].generation \in Nat
         /\ run[r].generation + 1 \in 1..MaxGeneration
BY RowFields, BoundsAssumption

-----------------------------------------------------------------------------
(* Type correctness *)

LEMMA TypeInit == Init => TypeOK
<1> SUFFICES ASSUME Init PROVE TypeOK
  OBVIOUS
<1>1. run \in [Run -> RunRecord \cup {Unborn}]
  BY DEF Init
<1>2. Idle \in JobRecord
  BY BoundsAssumption DEF Idle, JobRecord
<1>3. job \in [Worker -> [Run -> JobRecord]]
  BY <1>2 DEF Init
<1>4. context \in [Worker -> [Run -> 0..MaxGeneration]]
  BY BoundsAssumption DEF Init
<1>5. asked \in [Worker -> SUBSET Run]
  BY DEF Init
<1>6. draftRevision \in 0..MaxRevision
  BY BoundsAssumption DEF Init
<1> QED BY <1>1, <1>3, <1>4, <1>5, <1>6 DEF Init, TypeOK

\* The row a start inserts is a full one.
LEMMA NewRunRecord ==
  ASSUME NEW a \in Actor, NEW revision \in 1..MaxRevision, NEW prior \in Run \cup {NoRun},
         NEW directory \in BOOLEAN
  PROVE  NewRun(a, revision, prior, directory) \in RunRecord
<1> USE BoundsAssumption DEF NewRun, RunRecord, Status, Terminal, Wait
<1>1. CASE directory = TRUE
  BY <1>1
<1>2. CASE directory = FALSE
  BY <1>2
<1> QED BY <1>1, <1>2

LEMMA TypeMember ==
  ASSUME TypeOK, NEW a \in Actor, Member(a)
  PROVE  TypeOK'
<1> USE DEF workspaceVars, processVars
<1>1. CASE SetMaintainer(a)
  BY <1>1 DEF SetMaintainer, TypeOK
<1>2. CASE SaveDraft(a)
  BY <1>2, BoundsAssumption DEF SaveDraft, TypeOK
<1>3. ASSUME NEW r \in Run, NEW directory \in Directory, StartRun(a, r, directory)
      PROVE  TypeOK'
  <2>1. NewRun(a, draftRevision, NoRun, directory) \in RunRecord
    <3>1. draftRevision \in 1..MaxRevision
      BY <1>3, BoundsAssumption DEF StartRun, DraftSaved, TypeOK
    <3>2. directory \in BOOLEAN
      BY BoundsAssumption
    <3> QED BY <3>1, <3>2, NewRunRecord
  <2>2. run' \in [Run -> RunRecord \cup {Unborn}]
    BY <1>3, <2>1, WriteRow DEF StartRun
  <2> QED BY <1>3, <2>2 DEF StartRun, TypeOK
<1>4. ASSUME NEW r \in Run, NEW prior \in Run, RetryRun(a, r, prior)
      PROVE  TypeOK'
  <2>1. run[prior] \in RunRecord
    BY <1>4, RowRecord DEF RetryRun, Status, Terminal
  <2>2. NewRun(a, run[prior].draftRevision, prior, run[prior].directory) \in RunRecord
    BY <2>1, NewRunRecord DEF RunRecord
  <2>3. run' \in [Run -> RunRecord \cup {Unborn}]
    BY <1>4, <2>2, WriteRow DEF RetryRun
  <2> QED BY <1>4, <2>3 DEF RetryRun, TypeOK
<1>5. ASSUME NEW r \in Run, Cancel(a, r)
      PROVE  TypeOK'
  <2>1. run[r] \in RunRecord
    BY <1>5, RowRecord DEF Cancel, Active
  <2>2. run' \in [Run -> RunRecord \cup {Unborn}]
    BY <1>5, <2>1, BoundsAssumption DEF Cancel, TypeOK, RunRecord, Status, Terminal
  <2> QED BY <1>5, <2>2 DEF Cancel, TypeOK
<1>6. ASSUME NEW r \in Run, Confirm(a, r)
      PROVE  TypeOK'
  <2>1. run[r] \in RunRecord
    BY <1>6, RowRecord DEF Confirm, Status
  <2>2. run' \in [Run -> RunRecord \cup {Unborn}]
    BY <1>6, <2>1 DEF Confirm, Move, TypeOK, RunRecord, Status, Terminal
  <2> QED BY <1>6, <2>2 DEF Confirm, TypeOK
<1> QED BY <1>1, <1>2, <1>3, <1>4, <1>5, <1>6, BoundsAssumption DEF Member

\* Any step of context().
ContextStep(w, r, caller) ==
  \/ ContextHeartbeat(w, r, caller) \/ ClaimRun(w, r, caller) \/ ContextBusy(w, r, caller)

LEMMA TypeContext ==
  ASSUME TypeOK, NEW w \in Worker, NEW r \in Run, NEW caller \in Caller, ContextStep(w, r, caller)
  PROVE  TypeOK'
<1> USE DEF workspaceVars, processVars
<1>h. ASSUME NEW g \in 0..MaxGeneration, Handed(w, r, caller, g)
      PROVE  /\ asked' \in [Worker -> SUBSET Run]
             /\ context' \in [Worker -> [Run -> 0..MaxGeneration]]
             /\ job' \in [Worker -> [Run -> JobRecord]]
  <2>1. job[w][r] \in JobRecord /\ job[w] \in [Run -> JobRecord]
    BY DEF TypeOK
  <2>2. [job[w][r] EXCEPT !.phase = "held", !.generation = g] \in JobRecord
    BY <2>1 DEF JobRecord
  <2>3. CASE caller = "job"
    <3>1. job' = [job EXCEPT ![w] = [job[w] EXCEPT ![r] =
                    [job[w][r] EXCEPT !.phase = "held", !.generation = g]]]
      BY <1>h, <2>1, <2>3 DEF Handed, TypeOK, JobRecord
    <3> QED BY <1>h, <2>1, <2>2, <2>3, <3>1 DEF Handed, TypeOK
  <2>4. CASE caller # "job"
    <3>1. /\ asked' = [asked EXCEPT ![w] = @ \ {r}] /\ job' = job
          /\ context' = [context EXCEPT ![w][r] = g]
      BY <1>h, <2>4 DEF Handed
    <3>2. asked \in [Worker -> SUBSET Run] /\ context \in [Worker -> [Run -> 0..MaxGeneration]]
      BY DEF TypeOK
    <3>3. asked' \in [Worker -> SUBSET Run]
      BY <3>1, <3>2
    <3>4. context' \in [Worker -> [Run -> 0..MaxGeneration]]
      BY <3>1, <3>2
    <3> QED BY <3>1, <3>3, <3>4 DEF TypeOK
  <2> QED BY <2>3, <2>4
<1>1. CASE ContextHeartbeat(w, r, caller)
  <2>1. Handed(w, r, caller, run[r].generation)
    BY <1>1 DEF ContextHeartbeat
  <2>2. run[r].generation \in 0..MaxGeneration
    BY RowFields
  <2> QED BY <1>1, <1>h, <2>1, <2>2 DEF ContextHeartbeat, TypeOK
<1>2. CASE ClaimRun(w, r, caller)
  <2>1. run[r] \in RunRecord
    BY <1>2, RowRecord DEF ClaimRun, Active
  <2>a. Claimed(r, w) \in RunRecord
    <3>1. run[r].generation + 1 \in 0..MaxGeneration
      BY <1>2, NextGeneration, BoundsAssumption DEF ClaimRun
    <3> QED BY <2>1, <3>1 DEF Claimed, RunRecord
  <2>2. /\ run' \in [Run -> RunRecord \cup {Unborn}]
        /\ run'[r].generation \in 0..MaxGeneration
    <3>1. run'[r] = Claimed(r, w)
      BY <1>2 DEF ClaimRun, TypeOK
    <3> QED BY <1>2, <2>a, <3>1 DEF ClaimRun, TypeOK, RunRecord
  <2>3. Handed(w, r, caller, run'[r].generation)
    BY <1>2 DEF ClaimRun
  <2> QED BY <1>2, <1>h, <2>2, <2>3 DEF ClaimRun, TypeOK
<1>3. CASE ContextBusy(w, r, caller)
  <2>1. CASE caller = "job"
    <3>1. job' \in [Worker -> [Run -> JobRecord]]
      BY <1>3, <2>1, IdleJob, WriteJob DEF ContextBusy
    <3> QED BY <1>3, <2>1, <3>1 DEF ContextBusy, TypeOK
  <2>2. CASE caller # "job"
    BY <1>3, <2>2 DEF ContextBusy, TypeOK
  <2> QED BY <2>1, <2>2
<1> QED BY <1>1, <1>2, <1>3 DEF ContextStep

LEMMA TypeAdvance ==
  ASSUME TypeOK, NEW w \in Worker, NEW r \in Run, Advance(w, r)
  PROVE  TypeOK'
<1> USE DEF workspaceVars, processVars
<1>1. run[r] \in RunRecord
  BY RowRecord DEF Advance, LeaseHeld, Active
<1>2. NextStatus(r) \in Status
  BY <1>1 DEF NextStatus, RunRecord, Status, Terminal
<1>3. NextWait(r) \in Wait
  BY <1>1 DEF NextWait, RunRecord, Wait
<1>4. run' \in [Run -> RunRecord \cup {Unborn}]
  BY <1>1, <1>2, <1>3 DEF Advance, TypeOK, RunRecord
<1> QED BY <1>4 DEF Advance, TypeOK

LEMMA TypeCommitSeal ==
  ASSUME TypeOK, NEW w \in Worker, NEW r \in Run, NEW a, CommitSeal(w, a, r)
  PROVE  TypeOK'
<1> USE DEF workspaceVars, processVars
<1>1. run[r] \in RunRecord
  BY RowRecord DEF CommitSeal, Status
<1>2. run' \in [Run -> RunRecord \cup {Unborn}]
  BY <1>1 DEF CommitSeal, TypeOK, RunRecord, Status, Terminal
<1> QED BY <1>2 DEF CommitSeal, TypeOK

LEMMA BegunRecord ==
  ASSUME NEW row \in RunRecord, NEW a \in Actor, NEW begun \in Begun(row, a)
  PROVE  begun \in RunRecord
<1>1. CASE begun = [row EXCEPT !.status = "PREPARING_SEAL"]
  BY <1>1 DEF RunRecord, Status, Terminal
<1>2. CASE /\ row.operation # MaxOperation
           /\ begun = [row EXCEPT !.status = "PREPARING_SEAL", !.operation = @ + 1, !.publisherId = a]
  <2>1. row.operation + 1 \in 0..MaxOperation
    BY <1>2, BoundsAssumption DEF RunRecord
  <2> QED BY <1>2, <2>1 DEF RunRecord, Status, Terminal
<1> QED BY <1>1, <1>2 DEF Begun

LEMMA BeginRow ==
  ASSUME NEW w, NEW a, NEW r \in Run, BeginSeal(w, a, r)
  PROVE  \E row \in Begun(run[r], a) : run' = [run EXCEPT ![r] = row]
BY DEF BeginSeal

LEMMA TypeRequest ==
  ASSUME TypeOK, NEW w \in Worker, NEW r \in Run, Request(w, r)
  PROVE  TypeOK'
<1> USE DEF workspaceVars, processVars
<1>1. ASSUME NEW a \in Actor, RequestContext(w, a, r) PROVE TypeOK'
  BY <1>1 DEF RequestContext, TypeOK
<1>2. ASSUME NEW a \in Actor, ReconcileRestore(w, a, r) PROVE TypeOK'
  <2>1. run[r] \in RunRecord
    BY <1>2, RowRecord DEF ReconcileRestore, LeaseHeld, Active
  <2>2. run' \in [Run -> RunRecord \cup {Unborn}]
    BY <1>2, <2>1 DEF ReconcileRestore, TypeOK, RunRecord, Status, Terminal, Wait
  <2> QED BY <1>2, <2>2 DEF ReconcileRestore, TypeOK
<1>3. ASSUME NEW a \in Actor, BeginSeal(w, a, r) PROVE TypeOK'
  <2>1. run[r] \in RunRecord
    BY <1>3, RowRecord DEF BeginSeal, Status
  <2>2. PICK row \in Begun(run[r], a) : run' = [run EXCEPT ![r] = row]
    BY <1>3, BeginRow
  <2>3. row \in RunRecord
    BY <2>1, BegunRecord
  <2> QED BY <1>3, <2>2, <2>3, WriteRow DEF BeginSeal, TypeOK
<1>4. ASSUME NEW a, CommitSeal(w, a, r) PROVE TypeOK'
  BY <1>4, TypeCommitSeal
<1>5. ASSUME ContextStep(w, r, "request") PROVE TypeOK'
  BY <1>5, TypeContext DEF Caller
<1>6. CASE RequestRefused(w, r)
  BY <1>6 DEF RequestRefused, TypeOK
<1>7. CASE Advance(w, r)
  BY <1>7, TypeAdvance
<1>8. ASSUME NEW status \in {"FAILED_RETRYABLE", "BLOCKED"}, AdvanceFails(w, r, status) PROVE TypeOK'
  <2>1. run[r] \in RunRecord
    BY <1>8, RowRecord DEF AdvanceFails, LeaseHeld, Active
  <2>2. run' \in [Run -> RunRecord \cup {Unborn}]
    BY <1>8, <2>1 DEF AdvanceFails, Move, TypeOK, RunRecord, Status, Terminal
  <2> QED BY <1>8, <2>2 DEF AdvanceFails, TypeOK
<1>9. CASE CloseDirectory(w, r)
  <2>1. run[r] \in RunRecord
    BY <1>9, RowRecord DEF CloseDirectory, LeaseHeld, Active
  <2>2. run' \in [Run -> RunRecord \cup {Unborn}]
    BY <1>9, <2>1 DEF CloseDirectory, TypeOK, RunRecord
  <2> QED BY <1>9, <2>2 DEF CloseDirectory, TypeOK
<1>10. CASE ReceiveBytes(w, r)
  <2>1. run[r] \in RunRecord
    BY <1>10, RowRecord DEF ReceiveBytes, LeaseHeld, Active
  <2>2. run' \in [Run -> RunRecord \cup {Unborn}]
    BY <1>10, <2>1 DEF ReceiveBytes, TypeOK, RunRecord
  <2> QED BY <1>10, <2>2 DEF ReceiveBytes, TypeOK
<1> QED BY <1>1, <1>2, <1>3, <1>4, <1>5, <1>6, <1>7, <1>8, <1>9, <1>10 DEF Request, ContextStep

LEMMA TypeRecordFailure ==
  ASSUME TypeOK, NEW w \in Worker, NEW r \in Run, NEW status, RecordFailure(w, r, status)
  PROVE  TypeOK'
<1> USE DEF workspaceVars, processVars
<1>1. run[r] \in RunRecord /\ status \in Status
  BY RowRecord DEF RecordFailure, FailureAccepted, Active, Status, Terminal
<1>2. run[r].generation + 1 \in 0..MaxGeneration
  BY NextGeneration, BoundsAssumption DEF RecordFailure
<1>3. run' \in [Run -> RunRecord \cup {Unborn}]
  BY <1>1, <1>2 DEF RecordFailure, TypeOK, RunRecord
<1>4. job' \in [Worker -> [Run -> JobRecord]]
  BY IdleJob, WriteJob DEF RecordFailure
<1> QED BY <1>3, <1>4 DEF RecordFailure, TypeOK

LEMMA TypeJob ==
  ASSUME TypeOK, NEW w \in Worker, NEW r \in Run, Pick(w, r) \/ JobNext(w, r)
  PROVE  TypeOK'
<1> USE DEF workspaceVars, processVars
<1>1. CASE Pick(w, r)
  <2>1. run[r].generation \in 0..MaxGeneration
    BY RowFields
  <2>a. run[r].operation \in 0..MaxOperation
    BY BoundsAssumption DEF TypeOK, RunRecord, Unborn
  <2>2. [phase |-> "picked", generation |-> run[r].generation,
         sealing |-> run[r].status = "PREPARING_SEAL", operation |-> run[r].operation] \in JobRecord
    <3>1. CASE run[r].status = "PREPARING_SEAL"
      BY <2>1, <2>a, <3>1 DEF JobRecord
    <3>2. CASE run[r].status # "PREPARING_SEAL"
      BY <2>1, <2>a, <3>2 DEF JobRecord
    <3> QED BY <3>1, <3>2
  <2>3. job' \in [Worker -> [Run -> JobRecord]]
    BY <1>1, <2>2, WriteJob DEF Pick
  <2> QED BY <1>1, <2>3 DEF Pick, TypeOK
<1>2. CASE JobContext(w, r)
  <2>1. job[w][r] \in JobRecord /\ job[w] \in [Run -> JobRecord]
    BY DEF TypeOK
  <2>2. [job[w][r] EXCEPT !.phase = "asking"] \in JobRecord
    BY <2>1 DEF JobRecord
  <2>3. job' \in [Worker -> [Run -> JobRecord]]
    BY <1>2, <2>1, <2>2 DEF JobContext, TypeOK
  <2> QED BY <1>2, <2>3 DEF JobContext, TypeOK
<1>3. CASE ContextStep(w, r, "job")
  BY <1>3, TypeContext DEF Caller
<1>4. CASE Advance(w, r)
  BY <1>4, TypeAdvance
<1>5. CASE CommitSeal(w, run[r].publisherId, r)
  BY <1>5, TypeCommitSeal
<1>6. CASE RecordFailure(w, r, "BLOCKED")
  BY <1>6, TypeRecordFailure
<1>7. CASE JobEnds(w, r)
  <2>1. job' \in [Worker -> [Run -> JobRecord]]
    BY <1>7, IdleJob, WriteJob DEF JobEnds
  <2> QED BY <1>7, <2>1 DEF JobEnds, TypeOK
<1> QED BY <1>1, <1>2, <1>3, <1>4, <1>5, <1>6, <1>7 DEF JobNext, ContextStep

LEMMA TypeGone ==
  ASSUME TypeOK, NEW ended \in SUBSET Worker, Gone(ended)
  PROVE  /\ running' \subseteq Worker /\ spent' \subseteq Worker
         /\ asked' \in [Worker -> SUBSET Run]
         /\ context' \in [Worker -> [Run -> 0..MaxGeneration]]
         /\ job' \in [Worker -> [Run -> JobRecord]]
<1>1. [r \in Run |-> 0] \in [Run -> 0..MaxGeneration]
  BY BoundsAssumption
<1>2. [r \in Run |-> Idle] \in [Run -> JobRecord]
  BY IdleJob
<1> QED BY <1>1, <1>2 DEF Gone, TypeOK

LEMMA TypeProcess ==
  ASSUME TypeOK, NEW w \in Worker, Process(w)
  PROVE  TypeOK'
<1> USE DEF workspaceVars, processVars
<1>1. CASE StartProcess(w)
  BY <1>1 DEF StartProcess, TypeOK
<1>2. CASE Crash(w)
  BY <1>2, TypeGone DEF Crash, TypeOK
<1>3. CASE Stop(w)
  <2>1. run' \in [Run -> RunRecord \cup {Unborn}]
    <3>1. ASSUME NEW r \in Run, Active(r)
          PROVE  [run[r] EXCEPT !.lease = FALSE] \in RunRecord
      <4>1. run[r] \in RunRecord
        BY <3>1, RowRecord DEF Active
      <4> QED BY <4>1 DEF RunRecord
    <3> QED BY <1>3, <3>1 DEF Stop, TypeOK
  <2> QED BY <1>3, <2>1, TypeGone DEF Stop, TypeOK
<1>4. ASSUME NEW r \in Run, Pick(w, r) \/ JobNext(w, r) PROVE TypeOK'
  BY <1>4, TypeJob
<1>5. ASSUME NEW r \in Run, Request(w, r) PROVE TypeOK'
  BY <1>5, TypeRequest
<1>6. ASSUME NEW r \in Run, NEW status, RecordFailure(w, r, status) PROVE TypeOK'
  BY <1>6, TypeRecordFailure
<1> QED BY <1>1, <1>2, <1>3, <1>4, <1>5, <1>6 DEF Process

LEMMA FencedRecord ==
  ASSUME NEW row \in RunRecord, row.generation + 1 \in 0..MaxGeneration
  PROVE  Fenced(row) \in RunRecord
<1> DEFINE review == row.status \in {"REVIEW_REQUIRED", "PREPARING_SEAL"}
<1>1. review = TRUE \/ review = FALSE
  OBVIOUS
<1>2. ASSUME NEW b \in BOOLEAN
      PROVE  [row EXCEPT !.generation = @ + 1, !.lease = FALSE, !.workerId = NoWorker,
                !.review = b, !.status = "WAITING_FOR_CLIENT",
                !.waitingFor = "RESTORE_RECONCILIATION"] \in RunRecord
  BY DEF RunRecord, Status, Terminal, Wait
<1>3. Fenced(row) = [row EXCEPT !.generation = @ + 1, !.lease = FALSE, !.workerId = NoWorker,
                !.review = review, !.status = "WAITING_FOR_CLIENT",
                !.waitingFor = "RESTORE_RECONCILIATION"]
  BY DEF Fenced
<1> HIDE DEF review
<1> QED BY <1>1, <1>2, <1>3

LEMMA TypeMaintenance ==
  ASSUME TypeOK, Maintenance
  PROVE  TypeOK'
<1> USE DEF workspaceVars, processVars
<1>1. CASE SetBarrier
  BY <1>1 DEF SetBarrier, TypeOK
<1>2. CASE RestoreFence
  <2>1. running \subseteq Worker
    BY DEF TypeOK
  <2>2. run' \in [Run -> RunRecord \cup {Unborn}]
    <3>1. ASSUME NEW r \in Run, Active(r) PROVE run'[r] \in RunRecord
      <4>1. run[r] \in RunRecord
        BY <3>1, RowRecord DEF Active
      <4>2. run[r].generation < MaxGeneration
        BY <1>2, <3>1 DEF RestoreFence
      <4>3. run[r].generation + 1 \in 0..MaxGeneration
        BY <4>2, NextGeneration, BoundsAssumption
      <4>4. run'[r] = Fenced(run[r])
        BY <1>2, <3>1 DEF RestoreFence
      <4> QED BY <4>1, <4>3, <4>4, FencedRecord
    <3>2. ASSUME NEW r \in Run, ~Active(r) PROVE run'[r] = run[r]
      BY <1>2, <3>2 DEF RestoreFence
    <3>3. run' = [r \in Run |-> run'[r]]
      BY <1>2 DEF RestoreFence
    <3> QED BY <3>1, <3>2, <3>3 DEF TypeOK
  <2> QED BY <1>2, <2>1, <2>2, TypeGone DEF RestoreFence, TypeOK
<1>3. CASE RestoreOpen
  BY <1>3 DEF RestoreOpen, TypeOK
<1> QED BY <1>1, <1>2, <1>3 DEF Maintenance

LEMMA TypeLeaseExpires ==
  ASSUME TypeOK, NEW r \in Run, LeaseExpires(r)
  PROVE  TypeOK'
<1> USE DEF workspaceVars, processVars
<1>1. run[r] \in RunRecord
  BY DEF LeaseExpires, TypeOK, Unborn
<1>2. run' \in [Run -> RunRecord \cup {Unborn}]
  BY <1>1 DEF LeaseExpires, TypeOK, RunRecord
<1> QED BY <1>2 DEF LeaseExpires, TypeOK

LEMMA TypeNext == TypeOK /\ [Next]_vars => TypeOK'
<1> SUFFICES ASSUME TypeOK, [Next]_vars PROVE TypeOK'
  OBVIOUS
<1>1. CASE UNCHANGED vars
  BY <1>1 DEF vars, workspaceVars, processVars, TypeOK
<1>2. CASE Next
  BY <1>2, TypeMember, TypeProcess, TypeLeaseExpires, TypeMaintenance DEF Next
<1> QED BY <1>1, <1>2

\* The columns keep their types whatever members, processes, expiry and
\* maintenance do, for any number of them (schema CHECKs of migration 0028).
THEOREM TypeCorrect == Spec => []TypeOK
BY TypeInit, TypeNext, PTL DEF Spec

-----------------------------------------------------------------------------
(* What a step does to the rows.  A start inserts one row while no run is    *)
(* active; every other step keeps what ended, what was not born, and what    *)
(* startRun() recorded.                                                      *)

Starts ==
  \E r \in Run, a \in Actor, prior \in Run \cup {NoRun}, revision \in 1..MaxRevision, d \in BOOLEAN :
    /\ NoActiveRun
    /\ run[r].status = "UNBORN"
    /\ \/ prior = NoRun /\ revision = draftRevision
       \/ prior \in Run /\ run[prior].status = "FAILED_RETRYABLE" /\ revision = run[prior].draftRevision
    /\ run' = [run EXCEPT ![r] = NewRun(a, revision, prior, d)]
    /\ draftRevision' = draftRevision /\ context' = context

\* The row of r, a run that may have moved.
Kept(r) ==
  /\ ~Active(r) => run'[r].status = run[r].status /\ run'[r].generation = run[r].generation
  /\ Active(r) => run'[r].status \in Status
  /\ run'[r].generation >= run[r].generation
  /\ run'[r].draftRevision = run[r].draftRevision
  /\ run'[r].retryOf = run[r].retryOf

\* No lease is handed out.
LeaseKept(r) ==
  run'[r].lease => /\ run[r].lease
                   /\ run'[r].workerId = run[r].workerId
                   /\ run'[r].generation = run[r].generation

Quiet == \A r \in Run : Kept(r) /\ LeaseKept(r)

ContextsKept == \A w \in Worker, r \in Run : context'[w][r] \in {0, context[w][r]}

LEMMA KeptSame ==
  ASSUME TypeOK, NEW r \in Run, run'[r] = run[r]
  PROVE  Kept(r) /\ LeaseKept(r)
BY RowFields DEF Kept, LeaseKept, Active

\* A write to one active row that gives no lease away.
LEMMA QuietWrite ==
  ASSUME TypeOK, NEW r \in Run, \A s \in Run : s # r => run'[s] = run[s], Kept(r), LeaseKept(r)
  PROVE  Quiet
BY KeptSame DEF Quiet

LEMMA QuietSame ==
  ASSUME TypeOK, UNCHANGED run
  PROVE  Quiet
BY KeptSame DEF Quiet

LEMMA GoneContexts ==
  ASSUME TypeOK, NEW ended, Gone(ended)
  PROVE  ContextsKept
BY DEF Gone, ContextsKept, TypeOK

LEMMA SameContexts ==
  ASSUME UNCHANGED context
  PROVE  ContextsKept
BY DEF ContextsKept

Calm ==
  /\ Quiet
  /\ ContextsKept
  /\ draftRevision' = draftRevision \/ NoActiveRun

Hands ==
  \E w \in Worker, r \in Run, caller \in Caller :
    ContextHeartbeat(w, r, caller) \/ ClaimRun(w, r, caller)

LEMMA MemberStep ==
  ASSUME TypeOK, NEW a \in Actor, Member(a)
  PROVE  Starts \/ Calm
<1> USE DEF workspaceVars, processVars
<1>1. CASE SetMaintainer(a)
  BY <1>1, QuietSame, SameContexts DEF SetMaintainer, Calm
<1>2. CASE SaveDraft(a)
  BY <1>2, QuietSame, SameContexts DEF SaveDraft, Calm
<1>3. ASSUME NEW r \in Run, NEW d \in Directory, StartRun(a, r, d) PROVE Starts
  <2>1. draftRevision \in 1..MaxRevision
    BY <1>3, BoundsAssumption DEF StartRun, DraftSaved, TypeOK
  <2>2. d \in BOOLEAN
    BY BoundsAssumption
  <2> QED BY <1>3, <2>1, <2>2 DEF StartRun, Starts
<1>4. ASSUME NEW r \in Run, NEW prior \in Run, RetryRun(a, r, prior) PROVE Starts
  <2>1. run[prior] \in RunRecord
    BY <1>4, RowRecord DEF RetryRun, Status, Terminal
  <2>2. run[prior].draftRevision \in 1..MaxRevision /\ run[prior].directory \in BOOLEAN
    BY <2>1 DEF RunRecord
  <2> QED BY <1>4, <2>2 DEF RetryRun, Starts
<1>5. ASSUME NEW r \in Run, Cancel(a, r) PROVE Calm
  <2>1. run[r] \in RunRecord /\ Active(r)
    BY <1>5, RowRecord DEF Cancel, Active
  <2>2. run[r].generation \in Nat
    BY RowFields
  <2>3. /\ run'[r].status = "CANCELLED" /\ run'[r].generation = run[r].generation + 1
        /\ run'[r].lease = FALSE
        /\ run'[r].draftRevision = run[r].draftRevision /\ run'[r].retryOf = run[r].retryOf
        /\ \A s \in Run : s # r => run'[s] = run[s]
    BY <1>5, <2>1 DEF Cancel, TypeOK, RunRecord
  <2>4. Kept(r) /\ LeaseKept(r)
    BY <2>1, <2>2, <2>3 DEF Kept, LeaseKept, Status, Terminal
  <2> QED BY <1>5, <2>3, <2>4, QuietWrite, SameContexts DEF Cancel, Calm
<1>6. ASSUME NEW r \in Run, Confirm(a, r) PROVE Calm
  <2>1. run[r] \in RunRecord /\ Active(r) /\ run[r].generation \in Nat
    BY <1>6, RowRecord, RowFields DEF Confirm, Active, Status, Terminal
  <2>2. /\ run'[r] = [run[r] EXCEPT !.status = "REVIEW_REQUIRED"]
        /\ \A s \in Run : s # r => run'[s] = run[s]
    BY <1>6, <2>1 DEF Confirm, Move, TypeOK
  <2>3. Kept(r) /\ LeaseKept(r)
    BY <2>1, <2>2 DEF Kept, LeaseKept, RunRecord, Status, Terminal
  <2> QED BY <1>6, <2>2, <2>3, QuietWrite, SameContexts DEF Confirm, Calm
<1> QED BY <1>1, <1>2, <1>3, <1>4, <1>5, <1>6 DEF Member

LEMMA CommitStep ==
  ASSUME TypeOK, NEW w \in Worker, NEW r \in Run, NEW a, CommitSeal(w, a, r)
  PROVE  Calm
<1> USE DEF workspaceVars, processVars
<1>1. run[r] \in RunRecord /\ Active(r) /\ run[r].generation \in Nat
  BY RowRecord, RowFields DEF CommitSeal, Active, Status, Terminal
<1>2. /\ run'[r] = [run[r] EXCEPT !.status = "SUCCEEDED", !.lease = FALSE]
      /\ \A s \in Run : s # r => run'[s] = run[s]
  BY <1>1 DEF CommitSeal, TypeOK
<1>3. Kept(r) /\ LeaseKept(r)
  BY <1>1, <1>2 DEF Kept, LeaseKept, RunRecord, Status, Terminal
<1> QED BY <1>2, <1>3, QuietWrite, SameContexts DEF CommitSeal, Calm

LEMMA AdvanceStep ==
  ASSUME TypeOK, NEW w \in Worker, NEW r \in Run, Advance(w, r)
  PROVE  Calm
<1> USE DEF workspaceVars, processVars
<1>1. run[r] \in RunRecord /\ Active(r) /\ run[r].generation \in Nat
  BY RowRecord, RowFields DEF Advance, LeaseHeld, Active
<1>2. /\ run'[r] = [run[r] EXCEPT !.status = NextStatus(r), !.waitingFor = NextWait(r)]
      /\ \A s \in Run : s # r => run'[s] = run[s]
  BY <1>1 DEF Advance, TypeOK
<1>3. NextStatus(r) \in Status
  BY <1>1 DEF NextStatus, RunRecord, Status, Terminal
<1>4. Kept(r) /\ LeaseKept(r)
  BY <1>1, <1>2, <1>3 DEF Kept, LeaseKept, RunRecord
<1> QED BY <1>2, <1>4, QuietWrite, SameContexts DEF Advance, Calm

LEMMA FailureStep ==
  ASSUME TypeOK, NEW w \in Worker, NEW r \in Run, NEW status, RecordFailure(w, r, status)
  PROVE  Calm
<1> USE DEF workspaceVars, processVars
<1>1. run[r] \in RunRecord /\ Active(r) /\ run[r].generation \in Nat /\ status \in Status
  BY RowRecord, RowFields DEF RecordFailure, FailureAccepted, Active, Status, Terminal
<1>2. /\ run'[r].status = status /\ run'[r].generation = run[r].generation + 1
      /\ run'[r].lease = FALSE
      /\ run'[r].draftRevision = run[r].draftRevision /\ run'[r].retryOf = run[r].retryOf
      /\ \A s \in Run : s # r => run'[s] = run[s]
  BY <1>1 DEF RecordFailure, TypeOK, RunRecord
<1>3. Kept(r) /\ LeaseKept(r)
  BY <1>1, <1>2 DEF Kept, LeaseKept
<1> QED BY <1>2, <1>3, QuietWrite, SameContexts DEF RecordFailure, Calm

LEMMA RequestStep ==
  ASSUME TypeOK, NEW w \in Worker, NEW r \in Run, Request(w, r)
  PROVE  Calm \/ Hands
<1> USE DEF workspaceVars, processVars
<1>1. ASSUME NEW a \in Actor, RequestContext(w, a, r) PROVE Calm
  BY <1>1, QuietSame, SameContexts DEF RequestContext, Calm
<1>2. ASSUME NEW a \in Actor, ReconcileRestore(w, a, r) PROVE Calm
  <2>1. run[r] \in RunRecord /\ Active(r) /\ run[r].generation \in Nat
    BY <1>2, RowRecord, RowFields DEF ReconcileRestore, LeaseHeld, Active
  <2>2. /\ run'[r] = [run[r] EXCEPT !.status = IF run[r].review THEN "REVIEW_REQUIRED" ELSE "PREFLIGHTING",
                                     !.waitingFor = "NOTHING"]
        /\ \A s \in Run : s # r => run'[s] = run[s]
    BY <1>2, <2>1 DEF ReconcileRestore, TypeOK
  <2>3. Kept(r) /\ LeaseKept(r)
    BY <1>2, <2>1, <2>2 DEF Kept, LeaseKept, RunRecord, Status, Terminal
  <2> QED BY <1>2, <2>2, <2>3, QuietWrite, SameContexts DEF ReconcileRestore, Calm
<1>3. ASSUME NEW a \in Actor, BeginSeal(w, a, r) PROVE Calm
  <2>1. run[r] \in RunRecord /\ Active(r) /\ run[r].generation \in Nat
    BY <1>3, RowRecord, RowFields DEF BeginSeal, Active, Status, Terminal
  <2>2. PICK row \in Begun(run[r], a) : run' = [run EXCEPT ![r] = row]
    BY <1>3, BeginRow
  <2>3. run'[r] = row /\ \A s \in Run : s # r => run'[s] = run[s]
    BY <2>2 DEF TypeOK
  <2>4. /\ row.status = "PREPARING_SEAL" /\ row.generation = run[r].generation
        /\ row.lease = run[r].lease /\ row.workerId = run[r].workerId
        /\ row.draftRevision = run[r].draftRevision /\ row.retryOf = run[r].retryOf
    BY <2>1, <2>2 DEF Begun, RunRecord
  <2>5. Kept(r) /\ LeaseKept(r)
    BY <2>1, <2>3, <2>4 DEF Kept, LeaseKept, Status
  <2> QED BY <1>3, <2>3, <2>5, QuietWrite, SameContexts DEF BeginSeal, Calm
<1>4. ASSUME NEW a, CommitSeal(w, a, r) PROVE Calm
  BY <1>4, CommitStep
<1>5. ASSUME ContextHeartbeat(w, r, "request") \/ ClaimRun(w, r, "request") PROVE Hands
  BY <1>5 DEF Hands, Caller
<1>6. CASE ContextBusy(w, r, "request") \/ RequestRefused(w, r)
  BY <1>6, QuietSame, SameContexts DEF ContextBusy, RequestRefused, Calm
<1>7. CASE Advance(w, r)
  BY <1>7, AdvanceStep
<1>8. ASSUME NEW status \in {"FAILED_RETRYABLE", "BLOCKED"}, AdvanceFails(w, r, status) PROVE Calm
  <2>1. run[r] \in RunRecord /\ Active(r) /\ run[r].generation \in Nat
    BY <1>8, RowRecord, RowFields DEF AdvanceFails, LeaseHeld, Active
  <2>2. /\ run'[r] = [run[r] EXCEPT !.status = status]
        /\ \A s \in Run : s # r => run'[s] = run[s]
    BY <1>8, <2>1 DEF AdvanceFails, Move, TypeOK
  <2>3. Kept(r) /\ LeaseKept(r)
    BY <1>8, <2>1, <2>2 DEF Kept, LeaseKept, RunRecord, Status, Terminal
  <2> QED BY <1>8, <2>2, <2>3, QuietWrite, SameContexts DEF AdvanceFails, Move, Calm
<1>9. ASSUME CloseDirectory(w, r) PROVE Calm
  <2>1. run[r] \in RunRecord /\ Active(r) /\ run[r].generation \in Nat
    BY <1>9, RowRecord, RowFields DEF CloseDirectory, LeaseHeld, Active
  <2>2. /\ run'[r] = [run[r] EXCEPT !.enumerated = TRUE]
        /\ \A s \in Run : s # r => run'[s] = run[s]
    BY <1>9, <2>1 DEF CloseDirectory, TypeOK
  <2>3. Kept(r) /\ LeaseKept(r)
    BY <1>9, <2>1, <2>2 DEF Kept, LeaseKept, RunRecord, Status, Terminal
  <2> QED BY <1>9, <2>2, <2>3, QuietWrite, SameContexts DEF CloseDirectory, Calm
<1>10. ASSUME ReceiveBytes(w, r) PROVE Calm
  <2>1. run[r] \in RunRecord /\ Active(r) /\ run[r].generation \in Nat
    BY <1>10, RowRecord, RowFields DEF ReceiveBytes, LeaseHeld, Active
  <2>2. /\ run'[r] = [run[r] EXCEPT !.received = TRUE]
        /\ \A s \in Run : s # r => run'[s] = run[s]
    BY <1>10, <2>1 DEF ReceiveBytes, TypeOK
  <2>3. Kept(r) /\ LeaseKept(r)
    BY <1>10, <2>1, <2>2 DEF Kept, LeaseKept, RunRecord, Status, Terminal
  <2> QED BY <1>10, <2>2, <2>3, QuietWrite, SameContexts DEF ReceiveBytes, Calm
<1> QED BY <1>1, <1>2, <1>3, <1>4, <1>5, <1>6, <1>7, <1>8, <1>9, <1>10 DEF Request

LEMMA ProcessStep ==
  ASSUME TypeOK, NEW w \in Worker, Process(w)
  PROVE  Calm \/ Hands
<1> USE DEF workspaceVars, processVars
<1>1. CASE StartProcess(w)
  BY <1>1, QuietSame, SameContexts DEF StartProcess, Calm
<1>2. CASE Crash(w)
  BY <1>2, QuietSame, GoneContexts DEF Crash, Calm
<1>3. CASE Stop(w)
  <2>1. ASSUME NEW r \in Run PROVE Kept(r) /\ LeaseKept(r)
    <3>1. CASE run[r].workerId = w /\ Active(r)
      <4>1. run[r] \in RunRecord /\ run[r].generation \in Nat
        BY <3>1, RowRecord, RowFields DEF Active
      <4>2. run'[r] = [run[r] EXCEPT !.lease = FALSE]
        BY <1>3, <3>1 DEF Stop
      <4> QED BY <3>1, <4>1, <4>2 DEF Kept, LeaseKept, RunRecord, Active
    <3>2. CASE ~(run[r].workerId = w /\ Active(r))
      <4>1. run'[r] = run[r]
        BY <1>3, <3>2 DEF Stop
      <4> QED BY <4>1, KeptSame
    <3> QED BY <3>1, <3>2
  <2> QED BY <1>3, <2>1, GoneContexts DEF Stop, Calm, Quiet
<1>4. ASSUME NEW r \in Run, Pick(w, r) \/ JobNext(w, r) PROVE Calm \/ Hands
  <2>1. CASE Pick(w, r) \/ JobContext(w, r) \/ ContextBusy(w, r, "job") \/ JobEnds(w, r)
    BY <2>1, QuietSame, SameContexts DEF Pick, JobContext, ContextBusy, JobEnds, Calm
  <2>2. CASE ContextHeartbeat(w, r, "job") \/ ClaimRun(w, r, "job")
    BY <2>2 DEF Hands, Caller
  <2>3. CASE Advance(w, r) \/ CommitSeal(w, run[r].publisherId, r) \/ RecordFailure(w, r, "BLOCKED")
    BY <2>3, AdvanceStep, CommitStep, FailureStep
  <2> QED BY <1>4, <2>1, <2>2, <2>3 DEF JobNext
<1>5. ASSUME NEW r \in Run, Request(w, r) PROVE Calm \/ Hands
  BY <1>5, RequestStep
<1>6. ASSUME NEW r \in Run, NEW status, RecordFailure(w, r, status) PROVE Calm
  BY <1>6, FailureStep
<1> QED BY <1>1, <1>2, <1>3, <1>4, <1>5, <1>6 DEF Process

LEMMA MaintenanceStep ==
  ASSUME TypeOK, Maintenance
  PROVE  Calm
<1> USE DEF workspaceVars, processVars
<1>1. CASE SetBarrier \/ RestoreOpen
  BY <1>1, QuietSame, SameContexts DEF SetBarrier, RestoreOpen, Calm
<1>2. CASE RestoreFence
  <2>1. ASSUME NEW r \in Run PROVE Kept(r) /\ LeaseKept(r)
    <3>1. CASE Active(r)
      <4>1. run[r] \in RunRecord /\ run[r].generation \in Nat
        BY <3>1, RowRecord, RowFields DEF Active
      <4>2. run'[r] = Fenced(run[r])
        BY <1>2, <3>1 DEF RestoreFence
      <4>3. /\ run'[r].status = "WAITING_FOR_CLIENT" /\ run'[r].lease = FALSE
            /\ run'[r].generation = run[r].generation + 1
            /\ run'[r].draftRevision = run[r].draftRevision /\ run'[r].retryOf = run[r].retryOf
        BY <4>1, <4>2 DEF Fenced, RunRecord
      <4> QED BY <3>1, <4>1, <4>3 DEF Kept, LeaseKept, Status
    <3>2. CASE ~Active(r)
      <4>1. run'[r] = run[r]
        BY <1>2, <3>2 DEF RestoreFence
      <4> QED BY <4>1, KeptSame
    <3> QED BY <3>1, <3>2
  <2> QED BY <1>2, <2>1, GoneContexts DEF RestoreFence, Calm, Quiet
<1> QED BY <1>1, <1>2 DEF Maintenance

LEMMA ExpiryStep ==
  ASSUME TypeOK, NEW r \in Run, LeaseExpires(r)
  PROVE  Calm
<1> USE DEF workspaceVars, processVars
<1>1. run[r] \in RunRecord /\ run[r].generation \in Nat
  BY RowFields DEF LeaseExpires, TypeOK, Unborn
<1>2. /\ run'[r] = [run[r] EXCEPT !.lease = FALSE]
      /\ \A s \in Run : s # r => run'[s] = run[s]
  BY <1>1 DEF LeaseExpires, TypeOK
<1>3. Kept(r) /\ LeaseKept(r)
  BY <1>1, <1>2 DEF Kept, LeaseKept, RunRecord, Active
<1> QED BY <1>2, <1>3, QuietWrite, SameContexts DEF LeaseExpires, Calm

\* Every step starts a run, moves runs without handing out a lease, or hands one out.
LEMMA NextStep ==
  ASSUME TypeOK, [Next]_vars
  PROVE  Starts \/ Calm \/ Hands
<1>1. CASE UNCHANGED vars
  BY <1>1, QuietSame, SameContexts DEF vars, workspaceVars, processVars, Calm
<1>2. CASE Next
  BY <1>2, MemberStep, ProcessStep, MaintenanceStep, ExpiryStep DEF Next
<1> QED BY <1>1, <1>2

\* A claim or a heartbeat keeps the rows too.
LEMMA HandsStep ==
  ASSUME TypeOK, Hands
  PROVE  (\A r \in Run : Kept(r)) /\ draftRevision' = draftRevision
<1> USE DEF workspaceVars
<1>1. PICK w \in Worker, r \in Run, caller \in Caller :
        ContextHeartbeat(w, r, caller) \/ ClaimRun(w, r, caller)
  BY DEF Hands
<1>2. CASE ContextHeartbeat(w, r, caller)
  BY <1>2, KeptSame DEF ContextHeartbeat
<1>3. CASE ClaimRun(w, r, caller)
  <2>1. run[r] \in RunRecord /\ Active(r) /\ run[r].generation \in Nat
    BY <1>3, RowRecord, RowFields DEF ClaimRun, Active
  <2>2. run'[r] = Claimed(r, w) /\ \A s \in Run : s # r => run'[s] = run[s]
    BY <1>3 DEF ClaimRun, TypeOK
  <2>3. /\ run'[r].status = run[r].status /\ run'[r].generation = run[r].generation + 1
        /\ run'[r].draftRevision = run[r].draftRevision /\ run'[r].retryOf = run[r].retryOf
    BY <2>1, <2>2 DEF Claimed, RunRecord
  <2>4. Kept(r)
    BY <2>1, <2>3 DEF Kept, Active
  <2> QED BY <1>3, <2>2, <2>4, KeptSame DEF ClaimRun
<1> QED BY <1>1, <1>2, <1>3

\* The row a start inserts, and the others.
LEMMA StartsRow ==
  ASSUME TypeOK, Starts
  PROVE  \E r \in Run :
           /\ NoActiveRun /\ run[r].status = "UNBORN"
           /\ \A s \in Run : s # r => run'[s] = run[s]
           /\ run'[r].generation = 0 /\ run'[r].lease = FALSE
           /\ \/ run'[r].retryOf = NoRun /\ run'[r].draftRevision = draftRevision
              \/ /\ run'[r].retryOf \in Run
                 /\ run[run'[r].retryOf].status = "FAILED_RETRYABLE"
                 /\ run'[r].draftRevision = run[run'[r].retryOf].draftRevision
           /\ draftRevision' = draftRevision /\ context' = context
<1>1. PICK r \in Run, a \in Actor, prior \in Run \cup {NoRun}, revision \in 1..MaxRevision, d \in BOOLEAN :
    /\ NoActiveRun
    /\ run[r].status = "UNBORN"
    /\ \/ prior = NoRun /\ revision = draftRevision
       \/ prior \in Run /\ run[prior].status = "FAILED_RETRYABLE" /\ revision = run[prior].draftRevision
    /\ run' = [run EXCEPT ![r] = NewRun(a, revision, prior, d)]
    /\ draftRevision' = draftRevision /\ context' = context
  BY DEF Starts
<1>2. run'[r] = NewRun(a, revision, prior, d) /\ \A s \in Run : s # r => run'[s] = run[s]
  BY <1>1 DEF TypeOK
<1>3. /\ run'[r].generation = 0 /\ run'[r].lease = FALSE
      /\ run'[r].retryOf = prior /\ run'[r].draftRevision = revision
  BY <1>2 DEF NewRun
<1> QED BY <1>1, <1>2, <1>3

-----------------------------------------------------------------------------
(* Runs that ended, and the one that is active *)

LEMMA ActiveKept ==
  ASSUME NEW r \in Run, Kept(r), run'[r].status \in Status \ Terminal
  PROVE  Active(r)
BY DEF Kept, Active

LEMMA OneActiveRunInit == Init => OneActiveRun
BY DEF Init, OneActiveRun, Active, Unborn, Status, Terminal

LEMMA OneActiveRunNext ==
  ASSUME TypeOK, OneActiveRun, [Next]_vars
  PROVE  OneActiveRun'
<1>1. CASE \A r \in Run : Kept(r)
  <2>1. \A r \in Run : Active(r)' => Active(r)
    BY <1>1, ActiveKept DEF Active
  <2> QED BY <2>1 DEF OneActiveRun
<1>2. CASE Starts
  <2>1. PICK r \in Run : NoActiveRun /\ \A s \in Run : s # r => run'[s] = run[s]
    BY <1>2, StartsRow
  <2>2. \A s \in Run : Active(s)' => s = r
    BY <2>1 DEF NoActiveRun, Active
  <2> QED BY <2>2 DEF OneActiveRun
<1> QED BY <1>1, <1>2, NextStep, HandsStep DEF Calm, Quiet

\* startRun(), retries, failures and restores leave at most one active run in
\* the workspace, for any number of runs (index source_truth_active_run).
THEOREM OneActiveRunCorrect == Spec => []OneActiveRun
<1>1. TypeOK /\ OneActiveRun /\ [Next]_vars => OneActiveRun'
  BY OneActiveRunNext
<1> QED BY <1>1, TypeCorrect, OneActiveRunInit, PTL DEF Spec

LEMMA EndedRunsStayNext ==
  ASSUME TypeOK, [Next]_vars, NEW r \in Run, run[r].status \in Terminal
  PROVE  run'[r].status = run[r].status /\ run'[r].generation = run[r].generation
<1>1. ~Active(r) /\ run[r].status # "UNBORN"
  BY DEF Active, Terminal
<1>2. CASE \A s \in Run : Kept(s)
  BY <1>1, <1>2 DEF Kept
<1>3. CASE Starts
  BY <1>1, <1>3, StartsRow
<1> QED BY <1>2, <1>3, NextStep, HandsStep DEF Calm, Quiet

\* No step of a member, a request, a worker of any generation or a restore
\* moves a run that ended (the guards on terminalRunStates).
THEOREM EndedRunsStayCorrect == Spec => EndedRunsStay
<1>1. TypeOK /\ [Next]_vars =>
        [\A r \in Run : run[r].status \in Terminal =>
           run'[r].status = run[r].status /\ run'[r].generation = run[r].generation]_vars
  BY EndedRunsStayNext
<1> QED BY <1>1, TypeCorrect, PTL DEF Spec, EndedRunsStay

-----------------------------------------------------------------------------
(* One executor.  OneExecutor alone is not inductive: a claim must hand out  *)
(* a generation no process holds yet, which needs that no context is ahead   *)
(* of its run's row.                                                         *)

ContextsBehind == \A w \in Worker, r \in Run : context[w][r] <= run[r].generation

ExecutorInv == TypeOK /\ ContextsBehind /\ OneExecutor

LEMMA ExecutorInit == Init => ContextsBehind /\ OneExecutor
BY DEF Init, ContextsBehind, OneExecutor, Unborn

\* What TypeOK says of contexts and generations.
LEMMA Numbers ==
  ASSUME TypeOK, NEW w \in Worker, NEW r \in Run
  PROVE  context[w][r] \in Nat /\ run[r].generation \in Nat
<1>1. context[w][r] \in 0..MaxGeneration
  BY DEF TypeOK
<1> QED BY <1>1, RowFields, BoundsAssumption

LEMMA ExecutorCalm ==
  ASSUME ExecutorInv, TypeOK', Quiet, ContextsKept
  PROVE  (ContextsBehind /\ OneExecutor)'
<1>0. TypeOK
  BY DEF ExecutorInv
<1>1. ASSUME NEW w \in Worker, NEW r \in Run
      PROVE  context'[w][r] <= run'[r].generation
  <2>1. /\ context[w][r] \in Nat /\ run[r].generation \in Nat /\ run'[r].generation \in Nat
    <3>1. run'[r] \in RunRecord \cup {Unborn}
      BY DEF TypeOK
    <3>2. run'[r].generation \in Nat
      BY <3>1, BoundsAssumption DEF RunRecord, Unborn
    <3> QED BY <1>0, <3>2, Numbers
  <2>2. context[w][r] <= run[r].generation /\ run'[r].generation >= run[r].generation
    BY DEF ExecutorInv, ContextsBehind, Quiet, Kept
  <2>3. context'[w][r] \in {0, context[w][r]}
    BY DEF ContextsKept
  <2> QED BY <2>1, <2>2, <2>3
<1>2. ASSUME NEW w \in Worker, NEW r \in Run, context'[w][r] # 0
      PROVE  /\ \A v \in Worker : context'[v][r] = context'[w][r] => v = w
             /\ context'[w][r] = run'[r].generation /\ run'[r].lease => run'[r].workerId = w
  <2>1. \A v \in Worker : context'[v][r] \in {0, context[v][r]}
    BY DEF ContextsKept
  <2>2. context'[w][r] = context[w][r] /\ context[w][r] # 0
    BY <1>2, <2>1
  <2>3. \A v \in Worker : context[v][r] = context[w][r] => v = w
    BY <2>2 DEF ExecutorInv, OneExecutor
  <2>4. context[w][r] = run[r].generation /\ run[r].lease => run[r].workerId = w
    BY <2>2 DEF ExecutorInv, OneExecutor
  <2>5. run'[r].lease => /\ run[r].lease /\ run'[r].workerId = run[r].workerId
                         /\ run'[r].generation = run[r].generation
    BY DEF Quiet, LeaseKept
  <2>6. \A v \in Worker : context'[v][r] = context'[w][r] => v = w
    BY <2>1, <2>2, <2>3
  <2> QED BY <2>2, <2>4, <2>5, <2>6
<1> QED BY <1>1, <1>2 DEF ContextsBehind, OneExecutor

\* Handing a generation to a process.
LEMMA HandedContexts ==
  ASSUME TypeOK, NEW w \in Worker, NEW r \in Run, NEW caller, NEW g, Handed(w, r, caller, g)
  PROVE  /\ context'[w][r] = g
         /\ \A v \in Worker, s \in Run : v # w \/ s # r => context'[v][s] = context[v][s]
BY DEF Handed, TypeOK

LEMMA ExecutorHands ==
  ASSUME ExecutorInv, Hands
  PROVE  (ContextsBehind /\ OneExecutor)'
<1>0. TypeOK /\ ContextsBehind /\ OneExecutor
  BY DEF ExecutorInv
<1>1. PICK w \in Worker, r \in Run, caller \in Caller :
        ContextHeartbeat(w, r, caller) \/ ClaimRun(w, r, caller)
  BY DEF Hands
<1>2. CASE ContextHeartbeat(w, r, caller)
  <2>1. /\ run' = run /\ run[r].workerId = w /\ run[r].lease
        /\ Handed(w, r, caller, run[r].generation)
    BY <1>2 DEF ContextHeartbeat
  <2>2. /\ context'[w][r] = run[r].generation
        /\ \A v \in Worker, s \in Run : v # w \/ s # r => context'[v][s] = context[v][s]
    BY <1>0, <2>1, HandedContexts
  <2>3. ContextsBehind'
    BY <1>0, <2>1, <2>2, Numbers DEF ContextsBehind
  <2>4. OneExecutor'
    BY <1>0, <2>1, <2>2 DEF OneExecutor
  <2> QED BY <2>3, <2>4
<1>3. CASE ClaimRun(w, r, caller)
  <2>1. /\ run' = [run EXCEPT ![r] = Claimed(r, w)] /\ Active(r)
        /\ Handed(w, r, caller, run'[r].generation)
    BY <1>3 DEF ClaimRun
  <2>2. run[r] \in RunRecord /\ run[r].generation \in Nat
    BY <1>0, <2>1, RowRecord, RowFields DEF Active
  <2>3. /\ run'[r].generation = run[r].generation + 1 /\ run'[r].workerId = w
        /\ \A s \in Run : s # r => run'[s] = run[s]
    BY <1>0, <2>1, <2>2 DEF Claimed, RunRecord, TypeOK
  <2>4. /\ context'[w][r] = run[r].generation + 1
        /\ \A v \in Worker, s \in Run : v # w \/ s # r => context'[v][s] = context[v][s]
    BY <1>0, <2>1, <2>3, HandedContexts
  <2>5. ContextsBehind'
    <3>1. ASSUME NEW v \in Worker, NEW s \in Run PROVE context'[v][s] <= run'[s].generation
      <4>1. context[v][s] \in Nat /\ run[s].generation \in Nat /\ context[v][s] <= run[s].generation
        BY <1>0, Numbers DEF ContextsBehind
      <4>2. CASE s = r /\ v = w
        BY <2>2, <2>3, <2>4, <4>2
      <4>3. CASE s = r /\ v # w
        BY <2>2, <2>3, <2>4, <4>1, <4>3
      <4>4. CASE s # r
        BY <2>3, <2>4, <4>1, <4>4
      <4> QED BY <4>2, <4>3, <4>4
    <3> QED BY <3>1 DEF ContextsBehind
  <2>6. ASSUME NEW u \in Worker, NEW s \in Run, context'[u][s] # 0
        PROVE  /\ \A v \in Worker : context'[v][s] = context'[u][s] => v = u
               /\ context'[u][s] = run'[s].generation /\ run'[s].lease => run'[s].workerId = u
    <3>1. CASE s # r
      BY <1>0, <2>3, <2>4, <2>6, <3>1 DEF OneExecutor
    <3>2. CASE s = r
      <4>1. \A v \in Worker : context[v][r] \in Nat /\ context[v][r] <= run[r].generation
        BY <1>0, Numbers DEF ContextsBehind
      <4>2. \A v \in Worker : v # w => context'[v][r] # run[r].generation + 1
        BY <2>2, <2>4, <4>1
      <4>3. CASE u = w
        BY <2>3, <2>4, <3>2, <4>2, <4>3
      <4>4. CASE u # w
        <5>1. context'[u][r] = context[u][r] /\ context[u][r] # 0
          BY <2>4, <2>6, <3>2, <4>4
        <5>2. \A v \in Worker : context[v][r] = context[u][r] => v = u
          BY <1>0, <5>1 DEF OneExecutor
        <5>3. \A v \in Worker : context'[v][r] = context'[u][r] => v = u
          BY <2>4, <4>2, <4>4, <5>1, <5>2
        <5>4. context'[u][r] # run'[r].generation
          BY <2>3, <4>2, <4>4
        <5> QED BY <3>2, <5>3, <5>4
      <4> QED BY <4>3, <4>4
    <3> QED BY <3>1, <3>2
  <2> QED BY <2>5, <2>6 DEF OneExecutor
<1> QED BY <1>1, <1>2, <1>3

LEMMA ExecutorStarts ==
  ASSUME ExecutorInv, Starts
  PROVE  (ContextsBehind /\ OneExecutor)'
<1>0. TypeOK /\ ContextsBehind /\ OneExecutor
  BY DEF ExecutorInv
<1>1. PICK r \in Run :
        /\ run[r].status = "UNBORN" /\ run'[r].generation = 0 /\ run'[r].lease = FALSE
        /\ \A s \in Run : s # r => run'[s] = run[s]
        /\ context' = context
  BY <1>0, StartsRow
<1>2. run[r].generation = 0
  BY <1>0, <1>1, RowFields DEF Unborn
<1>3. ContextsBehind'
  BY <1>0, <1>1, <1>2 DEF ContextsBehind
<1>4. OneExecutor'
  BY <1>0, <1>1 DEF OneExecutor
<1> QED BY <1>3, <1>4

LEMMA ExecutorNext == ExecutorInv /\ [Next]_vars => ExecutorInv'
<1> SUFFICES ASSUME ExecutorInv, [Next]_vars PROVE ExecutorInv'
  OBVIOUS
<1>1. TypeOK /\ TypeOK'
  BY TypeNext DEF ExecutorInv
<1>2. (ContextsBehind /\ OneExecutor)'
  BY <1>1, NextStep, ExecutorStarts, ExecutorCalm, ExecutorHands DEF Calm
<1> QED BY <1>1, <1>2 DEF ExecutorInv

\* A generation is handed to one process only, and with a valid lease the current
\* one belongs to the process the row names (claimRun(), withLease()).
THEOREM OneExecutorCorrect == Spec => []OneExecutor
<1>1. Init => ExecutorInv
  BY TypeInit, ExecutorInit DEF ExecutorInv
<1>2. ExecutorInv => OneExecutor
  BY DEF ExecutorInv
<1> QED BY <1>1, <1>2, ExecutorNext, PTL DEF Spec

-----------------------------------------------------------------------------
(* The draft a run works on *)

\* A retried run names a run that failed retryably, hence no active one.
LEMMA DraftNext ==
  ASSUME TypeOK, RunFollowsDraft, [Next]_vars
  PROVE  RunFollowsDraft'
<1>1. CASE /\ \A r \in Run : Kept(r)
           /\ draftRevision' = draftRevision \/ NoActiveRun
  <2>1. ASSUME NEW r \in Run, Active(r)'
        PROVE  IF run'[r].retryOf = NoRun THEN run'[r].draftRevision = draftRevision'
               ELSE /\ run'[run'[r].retryOf].status = "FAILED_RETRYABLE"
                    /\ run'[r].draftRevision = run'[run'[r].retryOf].draftRevision
    <3>1. Active(r) /\ draftRevision' = draftRevision
      BY <1>1, <2>1, ActiveKept DEF Active, NoActiveRun
    <3>2. run'[r].retryOf = run[r].retryOf /\ run'[r].draftRevision = run[r].draftRevision
      BY <1>1 DEF Kept
    <3>3. run[r].retryOf \in Run \cup {NoRun}
      BY <3>1, RowRecord DEF Active, RunRecord
    <3>4. CASE run[r].retryOf = NoRun
      BY <3>1, <3>2, <3>4 DEF RunFollowsDraft
    <3>5. CASE run[r].retryOf # NoRun
      <4>1. /\ run[run[r].retryOf].status = "FAILED_RETRYABLE"
            /\ run[r].draftRevision = run[run[r].retryOf].draftRevision
        BY <3>1, <3>5 DEF RunFollowsDraft
      <4>2. Kept(run[r].retryOf) /\ ~Active(run[r].retryOf)
        BY <1>1, <3>3, <3>5, <4>1 DEF Active, Terminal
      <4>3. /\ run'[run[r].retryOf].status = run[run[r].retryOf].status
            /\ run'[run[r].retryOf].draftRevision = run[run[r].retryOf].draftRevision
        BY <4>2 DEF Kept
      <4> QED BY <3>2, <3>5, <4>1, <4>3
    <3> QED BY <3>4, <3>5
  <2> QED BY <2>1 DEF RunFollowsDraft, Active
<1>2. CASE Starts
  <2>1. PICK r \in Run :
           /\ NoActiveRun /\ run[r].status = "UNBORN"
           /\ \A s \in Run : s # r => run'[s] = run[s]
           /\ \/ run'[r].retryOf = NoRun /\ run'[r].draftRevision = draftRevision
              \/ /\ run'[r].retryOf \in Run
                 /\ run[run'[r].retryOf].status = "FAILED_RETRYABLE"
                 /\ run'[r].draftRevision = run[run'[r].retryOf].draftRevision
           /\ draftRevision' = draftRevision
    BY <1>2, StartsRow
  <2>2. ASSUME NEW s \in Run, Active(s)' PROVE s = r
    BY <2>1, <2>2 DEF NoActiveRun, Active
  <2>3. CASE run'[r].retryOf = NoRun
    BY <2>1, <2>2, <2>3, NamesAssumption DEF RunFollowsDraft
  <2>4. CASE run'[r].retryOf # NoRun
    <3>1. run'[run'[r].retryOf] = run[run'[r].retryOf]
      BY <2>1, <2>4, NamesAssumption
    <3> QED BY <2>1, <2>2, <2>4, <3>1, NamesAssumption DEF RunFollowsDraft
  <2> QED BY <2>3, <2>4
<1> QED BY <1>1, <1>2, NextStep, HandsStep DEF Calm, Quiet

\* No draft is saved under a run, and a retry works on the draft of the failure
\* it replaces, which stays one (saveDraft(), startRun()).
THEOREM RunFollowsDraftCorrect == Spec => []RunFollowsDraft
<1>1. Init => RunFollowsDraft
  BY DEF Init, RunFollowsDraft, Active, Unborn, Status, Terminal
<1>2. TypeOK /\ RunFollowsDraft /\ [Next]_vars => RunFollowsDraft'
  BY DraftNext
<1> QED BY <1>1, <1>2, TypeCorrect, PTL DEF Spec

-----------------------------------------------------------------------------
(* A restored run.  That no failure of a worker moves it needs that no job is *)
(* under way for it: the fence leaves none, and no cycle selects the run.     *)

JobsRest ==
  \A w \in Worker, r \in Run :
    (w \notin running \/ AwaitsReconciliation(r)) => job[w][r].phase = "idle"

\* The row of r, if it waits for its reconciliation, stays, ends or goes on;
\* and it does not begin to wait.
Waits(r) ==
  /\ AwaitsReconciliation(r)' => AwaitsReconciliation(r)
  /\ AwaitsReconciliation(r) =>
       \/ run'[r].status \in {run[r].status, "CANCELLED"}
       \/ run'[r].status = IF run[r].review THEN "REVIEW_REQUIRED" ELSE "PREFLIGHTING"

\* A job under way was under way, or a cycle selected its run.
JobRests(w, r) ==
  job'[w][r].phase # "idle" =>
    w \in running' /\ (job[w][r].phase # "idle" \/ ~AwaitsReconciliation(r))

Rests == \A r \in Run : Waits(r) /\ \A w \in Worker : JobRests(w, r)

LEMMA WaitsSame ==
  ASSUME NEW r \in Run, run'[r].status = run[r].status, run'[r].waitingFor = run[r].waitingFor
  PROVE  Waits(r)
BY DEF Waits, AwaitsReconciliation

\* A row that does not wait, before and after.
LEMMA WaitsElsewhere ==
  ASSUME NEW r \in Run, ~AwaitsReconciliation(r),
         run'[r].status # "WAITING_FOR_CLIENT" \/ run'[r].waitingFor # "RESTORE_RECONCILIATION"
  PROVE  Waits(r)
BY DEF Waits, AwaitsReconciliation

\* The jobs of processes that are left alone.
LEMMA JobsSame ==
  ASSUME JobsRest, NEW w \in Worker, NEW r \in Run, running \subseteq running', job'[w][r] = job[w][r]
  PROVE  JobRests(w, r)
BY DEF JobsRest, JobRests

\* A write to one row and to no job.
LEMMA RowRests ==
  ASSUME TypeOK, JobsRest, NEW r \in Run, \A s \in Run : s # r => run'[s] = run[s],
         Waits(r), running' = running, job' = job
  PROVE  Rests
BY WaitsSame, JobsSame DEF Rests

\* A write to one job under way, of a live process.
LEMMA JobRest ==
  ASSUME TypeOK, JobsRest, NEW w \in running, NEW r \in Run, NEW j,
         job' = [job EXCEPT ![w][r] = j], running' = running,
         job[w][r].phase # "idle" \/ ~AwaitsReconciliation(r)
  PROVE  \A v \in Worker, s \in Run : JobRests(v, s)
<1> SUFFICES ASSUME NEW v \in Worker, NEW s \in Run PROVE JobRests(v, s)
  OBVIOUS
<1>1. w \in Worker /\ job \in [Worker -> [Run -> JobRecord]]
  BY DEF TypeOK
<1>2. CASE v = w /\ s = r
  BY <1>2 DEF JobRests
<1>3. CASE ~(v = w /\ s = r)
  <2>1. job'[v][s] = job[v][s]
    BY <1>1, <1>3
  <2> QED BY <2>1, JobsSame
<1> QED BY <1>2, <1>3

\* Members.
LEMMA MemberRests ==
  ASSUME TypeOK, JobsRest, NEW a \in Actor, Member(a)
  PROVE  Rests
<1> USE DEF processVars
<1>1. CASE SetMaintainer(a) \/ SaveDraft(a)
  BY <1>1, WaitsSame, JobsSame DEF SetMaintainer, SaveDraft, Rests
<1>2. ASSUME NEW r \in Run, NEW revision, NEW prior, NEW d, run[r].status = "UNBORN",
             run' = [run EXCEPT ![r] = NewRun(a, revision, prior, d)], UNCHANGED processVars
      PROVE  Rests
  <2>1. run'[r] = NewRun(a, revision, prior, d) /\ \A s \in Run : s # r => run'[s] = run[s]
    BY <1>2 DEF TypeOK
  <2>2. Waits(r)
    BY <1>2, <2>1, WaitsElsewhere DEF NewRun, AwaitsReconciliation
  <2> QED BY <1>2, <2>1, <2>2, RowRests
<1>3. ASSUME NEW r \in Run, Cancel(a, r) PROVE Rests
  <2>1. run[r] \in RunRecord
    BY <1>3, RowRecord DEF Cancel, Active
  <2>2. run'[r].status = "CANCELLED" /\ \A s \in Run : s # r => run'[s] = run[s]
    BY <1>3, <2>1 DEF Cancel, TypeOK, RunRecord
  <2>3. Waits(r)
    BY <2>2 DEF Waits, AwaitsReconciliation
  <2> QED BY <1>3, <2>2, <2>3, RowRests DEF Cancel
<1>4. ASSUME NEW r \in Run, Confirm(a, r) PROVE Rests
  <2>1. run[r] \in RunRecord /\ ~AwaitsReconciliation(r)
    BY <1>4, RowRecord DEF Confirm, Status, Terminal, AwaitsReconciliation
  <2>2. run'[r].status = "REVIEW_REQUIRED" /\ \A s \in Run : s # r => run'[s] = run[s]
    BY <1>4, <2>1 DEF Confirm, Move, TypeOK, RunRecord
  <2>3. Waits(r)
    BY <2>1, <2>2, WaitsElsewhere
  <2> QED BY <1>4, <2>2, <2>3, RowRests DEF Confirm
<1>5. ASSUME NEW r \in Run, NEW d \in Directory, StartRun(a, r, d) PROVE Rests
  BY <1>2, <1>5 DEF StartRun
<1>6. ASSUME NEW r \in Run, NEW prior \in Run, RetryRun(a, r, prior) PROVE Rests
  BY <1>2, <1>6 DEF RetryRun
<1> QED BY <1>1, <1>3, <1>4, <1>5, <1>6 DEF Member

\* A context is asked for and handed out, to a job under way or to a request.
LEMMA HandedRests ==
  ASSUME TypeOK, JobsRest, NEW w \in Worker, NEW r \in Run, NEW caller \in Caller, NEW g,
         Asking(w, r, caller), Handed(w, r, caller, g), running' = running
  PROVE  \A v \in Worker, s \in Run : JobRests(v, s)
<1>1. CASE caller = "job"
  <2>1. w \in running /\ job[w][r].phase = "asking"
    BY <1>1 DEF Asking
  <2>2. job' = [job EXCEPT ![w][r].phase = "held", ![w][r].generation = g]
    BY <1>1 DEF Handed
  <2>3. job' = [job EXCEPT ![w][r] = [job[w][r] EXCEPT !.phase = "held", !.generation = g]]
    BY <2>2 DEF TypeOK, JobRecord
  <2> QED BY <2>1, <2>3, JobRest
<1>2. CASE caller # "job"
  BY <1>2, JobsSame DEF Handed
<1> QED BY <1>1, <1>2

LEMMA ContextRests ==
  ASSUME TypeOK, JobsRest, NEW w \in Worker, NEW r \in Run, NEW caller \in Caller,
         ContextHeartbeat(w, r, caller) \/ ClaimRun(w, r, caller) \/ ContextBusy(w, r, caller)
  PROVE  Rests
<1>1. CASE ContextHeartbeat(w, r, caller)
  <2>1. \A v \in Worker, s \in Run : JobRests(v, s)
    BY <1>1, HandedRests DEF ContextHeartbeat
  <2> QED BY <1>1, <2>1, WaitsSame DEF ContextHeartbeat, Rests
<1>2. CASE ClaimRun(w, r, caller)
  <2>1. \A v \in Worker, s \in Run : JobRests(v, s)
    BY <1>2, HandedRests DEF ClaimRun
  <2>2. run[r] \in RunRecord
    BY <1>2, RowRecord DEF ClaimRun, Active
  <2>3. run'[r].status = run[r].status /\ run'[r].waitingFor = run[r].waitingFor
    BY <1>2, <2>2 DEF ClaimRun, Claimed, TypeOK, RunRecord
  <2>4. \A s \in Run : s # r => run'[s] = run[s]
    BY <1>2 DEF ClaimRun, TypeOK
  <2> QED BY <2>1, <2>3, <2>4, WaitsSame DEF Rests
<1>3. CASE ContextBusy(w, r, caller)
  <2>1. CASE caller = "job"
    <3>1. w \in running /\ job[w][r].phase = "asking" /\ job' = [job EXCEPT ![w][r] = Idle]
          /\ running' = running /\ run' = run
      BY <1>3, <2>1 DEF ContextBusy, Asking
    <3>2. \A v \in Worker, s \in Run : JobRests(v, s)
      BY <3>1, JobRest
    <3> QED BY <3>1, <3>2, WaitsSame DEF Rests
  <2>2. CASE caller # "job"
    BY <1>3, <2>2, WaitsSame, JobsSame DEF ContextBusy, Rests
  <2> QED BY <2>1, <2>2
<1> QED BY <1>1, <1>2, <1>3

\* advance() leaves a restored run alone; what it makes wait, waits for the client.
LEMMA AdvanceRests ==
  ASSUME TypeOK, JobsRest, NEW w \in Worker, NEW r \in Run, Advance(w, r)
  PROVE  Rests
<1>1. run[r] \in RunRecord /\ ~AwaitsReconciliation(r)
  BY RowRecord DEF Advance, LeaseHeld, Active, Advanceable, Driven, AwaitsReconciliation
<1>2. /\ run'[r].status = NextStatus(r) /\ run'[r].waitingFor = NextWait(r)
      /\ \A s \in Run : s # r => run'[s] = run[s]
      /\ running' = running /\ job' = job
  BY <1>1 DEF Advance, TypeOK, RunRecord, processVars
<1>3. NextStatus(r) = "WAITING_FOR_CLIENT" => NextWait(r) # "RESTORE_RECONCILIATION"
  BY <1>1 DEF Advance, Advanceable, Driven, NextStatus, NextWait
<1>4. Waits(r)
  BY <1>1, <1>2, <1>3, WaitsElsewhere
<1> QED BY <1>2, <1>4, RowRests

LEMMA CommitRests ==
  ASSUME TypeOK, JobsRest, NEW w \in Worker, NEW r \in Run, NEW a, CommitSeal(w, a, r)
  PROVE  Rests
<1>1. run[r] \in RunRecord /\ ~AwaitsReconciliation(r)
  BY RowRecord DEF CommitSeal, Status, Terminal, AwaitsReconciliation
<1>2. /\ run'[r].status = "SUCCEEDED" /\ \A s \in Run : s # r => run'[s] = run[s]
      /\ running' = running /\ job' = job
  BY <1>1 DEF CommitSeal, TypeOK, RunRecord, processVars
<1>3. Waits(r)
  BY <1>1, <1>2, WaitsElsewhere
<1> QED BY <1>2, <1>3, RowRests

\* A failure is recorded for a job under way, so not on a restored run.
LEMMA FailureRests ==
  ASSUME TypeOK, JobsRest, NEW w \in Worker, NEW r \in Run, NEW status, RecordFailure(w, r, status)
  PROVE  Rests
<1>1. w \in running /\ job[w][r].phase # "idle" /\ ~AwaitsReconciliation(r)
  BY DEF RecordFailure, JobsRest
<1>2. run[r] \in RunRecord
  BY RowRecord DEF RecordFailure, FailureAccepted, Active
<1>3. /\ run'[r].status = status /\ status # "WAITING_FOR_CLIENT"
      /\ \A s \in Run : s # r => run'[s] = run[s]
      /\ running' = running /\ job' = [job EXCEPT ![w][r] = Idle]
  BY <1>2 DEF RecordFailure, TypeOK, RunRecord
<1>4. \A v \in Worker, s \in Run : JobRests(v, s)
  BY <1>1, <1>3, JobRest
<1>5. Waits(r)
  BY <1>1, <1>3, WaitsElsewhere
<1> QED BY <1>3, <1>4, <1>5, WaitsSame DEF Rests

LEMMA RequestRests ==
  ASSUME TypeOK, JobsRest, NEW w \in Worker, NEW r \in Run, Request(w, r)
  PROVE  Rests
<1> USE DEF processVars
<1>1. ASSUME RequestRefused(w, r) \/ \E a \in Actor : RequestContext(w, a, r) PROVE Rests
  BY <1>1, WaitsSame, JobsSame DEF RequestRefused, RequestContext, Rests
<1>2. ASSUME NEW a \in Actor, ReconcileRestore(w, a, r) PROVE Rests
  <2>1. run[r] \in RunRecord
    BY <1>2, RowRecord DEF ReconcileRestore, LeaseHeld, Active
  <2>2. /\ run'[r].status = IF run[r].review THEN "REVIEW_REQUIRED" ELSE "PREFLIGHTING"
        /\ \A s \in Run : s # r => run'[s] = run[s]
    BY <1>2, <2>1 DEF ReconcileRestore, TypeOK, RunRecord
  <2>3. Waits(r)
    BY <2>2 DEF Waits, AwaitsReconciliation
  <2> QED BY <1>2, <2>2, <2>3, RowRests DEF ReconcileRestore
<1>3. ASSUME NEW a \in Actor, BeginSeal(w, a, r) PROVE Rests
  <2>1. run[r] \in RunRecord /\ ~AwaitsReconciliation(r)
    BY <1>3, RowRecord DEF BeginSeal, Status, Terminal, AwaitsReconciliation
  <2>2. PICK row \in Begun(run[r], a) : run' = [run EXCEPT ![r] = row]
    BY <1>3, BeginRow
  <2>3. row.status = "PREPARING_SEAL"
    BY <2>1, <2>2 DEF Begun, RunRecord
  <2>4. run'[r].status = "PREPARING_SEAL" /\ \A s \in Run : s # r => run'[s] = run[s]
    BY <2>2, <2>3 DEF TypeOK
  <2>5. Waits(r)
    BY <2>1, <2>4, WaitsElsewhere
  <2> QED BY <1>3, <2>4, <2>5, RowRests DEF BeginSeal
<1>4. ASSUME NEW status \in {"FAILED_RETRYABLE", "BLOCKED"}, AdvanceFails(w, r, status) PROVE Rests
  <2>1. run[r] \in RunRecord /\ ~AwaitsReconciliation(r)
    BY <1>4, RowRecord DEF AdvanceFails, LeaseHeld, Active, Advanceable, Driven, AwaitsReconciliation
  <2>2. run'[r].status = status /\ \A s \in Run : s # r => run'[s] = run[s]
    BY <1>4, <2>1 DEF AdvanceFails, Move, TypeOK, RunRecord
  <2>3. Waits(r)
    BY <2>1, <2>2, WaitsElsewhere
  <2> QED BY <1>4, <2>2, <2>3, RowRests DEF AdvanceFails
<1>5. ASSUME CloseDirectory(w, r) \/ ReceiveBytes(w, r) PROVE Rests
  <2>1. run[r] \in RunRecord
    BY <1>5, RowRecord DEF CloseDirectory, ReceiveBytes, LeaseHeld, Active
  <2>2. /\ run'[r].status = run[r].status /\ run'[r].waitingFor = run[r].waitingFor
        /\ \A s \in Run : s # r => run'[s] = run[s]
    BY <1>5, <2>1 DEF CloseDirectory, ReceiveBytes, TypeOK, RunRecord
  <2> QED BY <1>5, <2>2, WaitsSame, RowRests DEF CloseDirectory, ReceiveBytes
<1>6. ASSUME ContextHeartbeat(w, r, "request") \/ ClaimRun(w, r, "request") \/ ContextBusy(w, r, "request")
      PROVE  Rests
  BY <1>6, ContextRests DEF Caller
<1> QED BY <1>1, <1>2, <1>3, <1>4, <1>5, <1>6, AdvanceRests, CommitRests DEF Request

\* Processes that go leave no job behind.
LEMMA GoneRests ==
  ASSUME JobsRest, NEW ended, Gone(ended)
  PROVE  \A w \in Worker, r \in Run : JobRests(w, r)
BY DEF Gone, JobsRest, JobRests, Idle

LEMMA ProcessRests ==
  ASSUME TypeOK, JobsRest, NEW w \in Worker, Process(w)
  PROVE  Rests
<1>1. CASE StartProcess(w)
  BY <1>1, WaitsSame, JobsSame DEF StartProcess, Rests
<1>2. CASE Crash(w)
  BY <1>2, WaitsSame, GoneRests DEF Crash, Rests
<1>3. CASE Stop(w)
  <2>1. ASSUME NEW r \in Run PROVE Waits(r)
    <3>1. CASE run[r].workerId = w /\ Active(r)
      <4>1. run[r] \in RunRecord
        BY <3>1, RowRecord DEF Active
      <4>2. run'[r] = [run[r] EXCEPT !.lease = FALSE]
        BY <1>3, <3>1 DEF Stop
      <4> QED BY <4>1, <4>2, WaitsSame DEF RunRecord
    <3>2. CASE ~(run[r].workerId = w /\ Active(r))
      BY <1>3, <3>2, WaitsSame DEF Stop
    <3> QED BY <3>1, <3>2
  <2> QED BY <1>3, <2>1, GoneRests DEF Stop, Rests
<1>4. ASSUME NEW r \in Run, Pick(w, r) \/ JobContext(w, r) \/ JobEnds(w, r) PROVE Rests
  <2>1. PICK j : job' = [job EXCEPT ![w][r] = j]
    <3>1. CASE Pick(w, r)
      BY <3>1 DEF Pick
    <3>2. CASE JobContext(w, r)
      <4>1. job' = [job EXCEPT ![w][r] = [job[w][r] EXCEPT !.phase = "asking"]]
        BY <3>2 DEF JobContext, TypeOK, JobRecord
      <4> QED BY <4>1
    <3>3. CASE JobEnds(w, r)
      BY <3>3 DEF JobEnds
    <3> QED BY <1>4, <3>1, <3>2, <3>3
  <2>2. w \in running /\ running' = running /\ run' = run
    BY <1>4 DEF Pick, JobContext, JobEnds
  <2>3. job[w][r].phase # "idle" \/ ~AwaitsReconciliation(r)
    BY <1>4 DEF Pick, WorkerDriven, Driven, Answered, AwaitsReconciliation, JobContext, JobEnds
  <2>4. \A v \in Worker, s \in Run : JobRests(v, s)
    BY <2>1, <2>2, <2>3, JobRest
  <2> QED BY <2>2, <2>4, WaitsSame DEF Rests
<1>5. ASSUME NEW r \in Run, NEW status, RecordFailure(w, r, status) PROVE Rests
  BY <1>5, FailureRests
<1>6. ASSUME NEW r \in Run, JobNext(w, r) PROVE Rests
  <2>1. CASE ContextHeartbeat(w, r, "job") \/ ClaimRun(w, r, "job") \/ ContextBusy(w, r, "job")
    BY <2>1, ContextRests DEF Caller
  <2>2. CASE Advance(w, r) \/ CommitSeal(w, run[r].publisherId, r)
    BY <2>2, AdvanceRests, CommitRests
  <2> QED BY <1>4, <1>5, <1>6, <2>1, <2>2 DEF JobNext
<1>7. ASSUME NEW r \in Run, Request(w, r) PROVE Rests
  BY <1>7, RequestRests
<1> QED BY <1>1, <1>2, <1>3, <1>4, <1>5, <1>6, <1>7 DEF Process

\* Every step but the fence of a restore.
LEMMA NextRests ==
  ASSUME TypeOK, JobsRest, [Next]_vars, ~RestoreFence
  PROVE  Rests
<1>1. CASE UNCHANGED vars
  BY <1>1, WaitsSame, JobsSame DEF vars, processVars, Rests
<1>2. ASSUME NEW r \in Run, LeaseExpires(r) PROVE Rests
  <2>1. run[r] \in RunRecord
    BY <1>2 DEF LeaseExpires, TypeOK, Unborn
  <2>2. /\ run'[r].status = run[r].status /\ run'[r].waitingFor = run[r].waitingFor
        /\ \A s \in Run : s # r => run'[s] = run[s]
    BY <1>2, <2>1 DEF LeaseExpires, TypeOK, RunRecord
  <2> QED BY <1>2, <2>2, WaitsSame, RowRests DEF LeaseExpires, processVars
<1>3. CASE SetBarrier \/ RestoreOpen
  BY <1>3, WaitsSame, JobsSame DEF SetBarrier, RestoreOpen, processVars, Rests
<1> QED BY <1>1, <1>2, <1>3, MemberRests, ProcessRests DEF Next, Maintenance

\* The fence makes every active run wait, and ends every process.
LEMMA FenceRests ==
  ASSUME TypeOK, JobsRest, RestoreFence
  PROVE  /\ \A w \in Worker, r \in Run : job'[w][r].phase = "idle"
         /\ \A r \in Run : AwaitsReconciliation(r) => run'[r].status = run[r].status
<1>1. \A w \in Worker, r \in Run : job'[w][r].phase = "idle"
  BY DEF RestoreFence, Gone, JobsRest, Idle
<1>2. ASSUME NEW r \in Run, AwaitsReconciliation(r) PROVE run'[r].status = run[r].status
  <2>1. Active(r)
    BY <1>2 DEF AwaitsReconciliation, Active, Status, Terminal
  <2>2. run[r] \in RunRecord
    BY <2>1, RowRecord DEF Active
  <2>3. run'[r] = Fenced(run[r])
    BY <2>1 DEF RestoreFence
  <2> QED BY <1>2, <2>2, <2>3 DEF Fenced, RunRecord, AwaitsReconciliation
<1> QED BY <1>1, <1>2

LEMMA JobsRestNext ==
  ASSUME TypeOK, JobsRest, [Next]_vars
  PROVE  JobsRest'
<1>1. CASE RestoreFence
  BY <1>1, FenceRests DEF JobsRest
<1>2. CASE Rests
  BY <1>2 DEF Rests, Waits, JobRests, JobsRest
<1> QED BY <1>1, <1>2, NextRests

\* No worker, whatever it still remembers, and no failure moves a restored run:
\* only its reconciliation by a member or its cancellation (advance(), cycle(),
\* reconcileRestore(), recordFailure()).
THEOREM RestoredRunWaitsCorrect == Spec => RestoredRunWaits
<1>1. Init => JobsRest
  BY DEF Init, JobsRest, Idle
<1>2. TypeOK /\ JobsRest /\ [Next]_vars => JobsRest'
  BY JobsRestNext
<1>3. TypeOK /\ JobsRest /\ [Next]_vars =>
        [\A r \in Run : AwaitsReconciliation(r) /\ run'[r].status # run[r].status =>
           \/ run'[r].status = "CANCELLED"
           \/ run'[r].status = IF run[r].review THEN "REVIEW_REQUIRED" ELSE "PREFLIGHTING"]_vars
  BY NextRests, FenceRests DEF Rests, Waits
<1> QED BY <1>1, <1>2, <1>3, TypeCorrect, PTL DEF Spec, RestoredRunWaits
=============================================================================
