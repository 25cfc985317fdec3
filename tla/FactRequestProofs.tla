-------------------------- MODULE FactRequestProofs --------------------------
(***************************************************************************)
(* Proofs about FactRequest, and the scopes of FactScope it drives, for    *)
(* any number of processes, scopes, requests, work items and generations.  *)
(***************************************************************************)
EXTENDS FactRequest, FiniteSetTheorems, TLAPS

-----------------------------------------------------------------------------
(* Rows, jobs and executions *)

\* TypeOK without the account, whose type follows from the ledger.
Typed ==
  /\ scope \in [Scope -> ScopeRow]
  /\ work \in [Process -> [Scope -> WorkRecord]]
  /\ row \in [Request -> RequestRow]
  /\ consumer \in BOOLEAN
  /\ late \in BOOLEAN
  /\ exec \in [Process -> [Request -> Execution]]

\* A request owns the scope of its name.
LEMMA OwnScope == Request \subseteq Scope /\ \A r \in Request : r \notin Ordinary
BY RequestAssumption

\* The columns of a row keep their types while a job or a member writes one.
LEMMA ScopeFields ==
  ASSUME NEW x \in ScopeRow, NEW status \in Status, NEW live \in BOOLEAN,
         NEW generation \in 0..MaxGeneration,
         NEW prepared \in {"none", "sound", "unsound"},
         NEW sealer \in {"none", "member", "auto", "request"}
  PROVE  /\ [x EXCEPT !.status = status, !.live = live] \in ScopeRow
         /\ [x EXCEPT !.status = status, !.live = live, !.generation = generation] \in ScopeRow
         /\ [x EXCEPT !.status = status, !.sealer = sealer] \in ScopeRow
         /\ [x EXCEPT !.prepared = prepared] \in ScopeRow
         /\ [x EXCEPT !.live = live] \in ScopeRow
BY DEF ScopeRow

\* One row is written.
Writes(s, x) ==
  /\ scope' \in [Scope -> ScopeRow]
  /\ scope'[s] = x
  /\ \A t \in Scope : t # s => scope'[t] = scope[t]

LEMMA WriteScope ==
  ASSUME Typed, NEW s \in Scope, NEW x \in ScopeRow, scope' = [scope EXCEPT ![s] = x]
  PROVE  Writes(s, x)
BY DEF Typed, Writes

LEMMA StatusWritten ==
  ASSUME Typed, NEW s \in Scope, NEW status \in Status, SetStatus(s, status)
  PROVE  Writes(s, [scope[s] EXCEPT !.status = status, !.live = FALSE])
<1>1. scope[s] \in ScopeRow
  BY DEF Typed
<1>2. [scope[s] EXCEPT !.status = status, !.live = FALSE] \in ScopeRow
  BY <1>1 DEF ScopeRow
<1>3. scope' = [scope EXCEPT ![s] = [scope[s] EXCEPT !.status = status, !.live = FALSE]]
  BY DEF SetStatus, Typed
<1> QED BY <1>2, <1>3, WriteScope

LEMMA SealWritten ==
  ASSUME Typed, NEW s \in Scope, NEW sealer \in {"member", "auto", "request"}, Seal(s, sealer)
  PROVE  Writes(s, [scope[s] EXCEPT !.status = "SEALED", !.sealer = sealer])
<1>1. scope[s] \in ScopeRow
  BY DEF Typed
<1>2. [scope[s] EXCEPT !.status = "SEALED", !.sealer = sealer] \in ScopeRow
  BY <1>1 DEF ScopeRow, Status
<1>3. scope' = [scope EXCEPT ![s] = [scope[s] EXCEPT !.status = "SEALED", !.sealer = sealer]]
  BY DEF Seal, Typed
<1> QED BY <1>2, <1>3, WriteScope

\* One job is written.
Works(p, s, j) ==
  /\ work' \in [Process -> [Scope -> WorkRecord]]
  /\ work'[p][s] = j
  /\ \A q \in Process, t \in Scope : q # p \/ t # s => work'[q][t] = work[q][t]

LEMMA WriteJob ==
  ASSUME Typed, NEW p \in Process, NEW s \in Scope, NEW j \in WorkRecord,
         work' = [work EXCEPT ![p][s] = j]
  PROVE  Works(p, s, j)
<1>1. work \in [Process -> [Scope -> WorkRecord]]
  BY DEF Typed
<1> QED BY <1>1 DEF Works

LEMMA GotoWritten ==
  ASSUME Typed, NEW p \in Process, NEW s \in Scope, NEW pc \in Stage, Goto(p, s, pc)
  PROVE  Works(p, s, [work[p][s] EXCEPT !.pc = pc])
<1>1. work \in [Process -> [Scope -> WorkRecord]] /\ work[p][s] \in WorkRecord
  BY DEF Typed
<1>2. [work[p][s] EXCEPT !.pc = pc] \in WorkRecord
  BY <1>1 DEF WorkRecord
<1>3. work' = [work EXCEPT ![p][s] = [work[p][s] EXCEPT !.pc = pc]]
  BY <1>1 DEF Goto
<1> QED BY <1>2, <1>3, WriteJob

LEMMA EndsWritten ==
  ASSUME Typed, NEW p \in Process, NEW s \in Scope, NEW pc \in Stage, Ends(p, s, pc)
  PROVE  Works(p, s, [NoWork EXCEPT !.pc = pc])
<1>1. [NoWork EXCEPT !.pc = pc] \in WorkRecord
  BY ScopeAssumption DEF NoWork, WorkRecord
<1> QED BY <1>1, WriteJob DEF Ends

\* One execution is written.
Executes(p, r, e) ==
  /\ exec' \in [Process -> [Request -> Execution]]
  /\ exec'[p][r] = e
  /\ \A q \in Process, t \in Request : q # p \/ t # r => exec'[q][t] = exec[q][t]

LEMMA WriteExecution ==
  ASSUME Typed, NEW p \in Process, NEW r \in Request, NEW e \in Execution,
         exec' = [exec EXCEPT ![p][r] = e]
  PROVE  Executes(p, r, e)
<1>1. exec \in [Process -> [Request -> Execution]]
  BY DEF Typed
<1> QED BY <1>1 DEF Executes

\* The places an execution steps to, and those it may ask for first.
Places == {"idle", "claim", "plan", "reserve", "create", "run", "await",
           "nochange", "publish", "complete", "catch"}
Nexts == {"create", "run", "nochange", "complete"}

LEMMA StepWritten ==
  ASSUME Typed, NEW p \in Process, NEW r \in Request, NEW pc \in Places, Step(p, r, pc)
  PROVE  Executes(p, r, [exec[p][r] EXCEPT !.pc = pc])
<1>1. exec \in [Process -> [Request -> Execution]] /\ exec[p][r] \in Execution
  BY DEF Typed
<1>2. [exec[p][r] EXCEPT !.pc = pc] \in Execution
  BY <1>1 DEF Execution, Places
<1>3. exec' = [exec EXCEPT ![p][r] = [exec[p][r] EXCEPT !.pc = pc]]
  BY <1>1 DEF Step
<1> QED BY <1>2, <1>3, WriteExecution

LEMMA AskFirstWritten ==
  ASSUME Typed, NEW p \in Process, NEW r \in Request, NEW next \in Nexts, AskFirst(p, r, next)
  PROVE  Executes(p, r, [exec[p][r] EXCEPT !.pc = "assert", !.next = next])
<1>1. exec \in [Process -> [Request -> Execution]] /\ exec[p][r] \in Execution
  BY DEF Typed
<1>2. [exec[p][r] EXCEPT !.pc = "assert", !.next = next] \in Execution
  BY <1>1 DEF Execution, Nexts
<1>3. exec' = [exec EXCEPT ![p][r] = [exec[p][r] EXCEPT !.pc = "assert", !.next = next]]
  BY <1>1 DEF AskFirst
<1> QED BY <1>2, <1>3, WriteExecution

LEMMA CatchWritten ==
  ASSUME Typed, NEW p \in Process, NEW r \in Request, NEW code \in Code, Catch(p, r, code)
  PROVE  Executes(p, r, [exec[p][r] EXCEPT !.pc = "catch", !.code = code])
<1>1. exec \in [Process -> [Request -> Execution]] /\ exec[p][r] \in Execution
  BY DEF Typed
<1>2. [exec[p][r] EXCEPT !.pc = "catch", !.code = code] \in Execution
  BY <1>1 DEF Execution
<1>3. exec' = [exec EXCEPT ![p][r] = [exec[p][r] EXCEPT !.pc = "catch", !.code = code]]
  BY <1>1 DEF Catch
<1> QED BY <1>2, <1>3, WriteExecution

LEMMA AnswerWritten ==
  ASSUME Typed, NEW p \in Process, NEW r \in Request, NEW outcome \in Outcome, Answer(p, r, outcome)
  PROVE  Executes(p, r, [exec[p][r] EXCEPT !.pc = "assert", !.next = "complete", !.outcome = outcome])
<1>1. exec \in [Process -> [Request -> Execution]] /\ exec[p][r] \in Execution
  BY DEF Typed
<1>2. [exec[p][r] EXCEPT !.pc = "assert", !.next = "complete", !.outcome = outcome] \in Execution
  BY <1>1 DEF Execution
<1>3. exec' = [exec EXCEPT ![p][r] =
                [exec[p][r] EXCEPT !.pc = "assert", !.next = "complete", !.outcome = outcome]]
  BY <1>1 DEF Answer
<1> QED BY <1>2, <1>3, WriteExecution

LEMMA RestWritten ==
  ASSUME Typed, NEW p \in Process, NEW r \in Request, Rest(p, r)
  PROVE  Executes(p, r, NoExecution)
<1>1. NoExecution \in Execution
  BY ScopeAssumption DEF NoExecution, Execution, Outcome, Code
<1> QED BY <1>1, WriteExecution DEF Rest

-----------------------------------------------------------------------------
(* What every step leaves of a scope and of the jobs                         *)

\* Every item is finished and the records are prepared.
Offered(x) == x.prepared # "none" /\ \A b \in Batch : x.items[b] = "DONE"

\* Decisions stand, finished items and prepared records stay; a scope is
\* offered when it is complete, and sealed when it was offered and verified.
Kept(s) ==
  /\ scope[s].status # "NONE" => scope'[s].status # "NONE"
  /\ scope'[s].generation >= scope[s].generation
  /\ scope[s].prepared # "none" => scope'[s].prepared = scope[s].prepared
  /\ \A b \in Batch : scope[s].items[b] = "DONE" => scope'[s].items[b] = "DONE"
  /\ scope[s].status = "SEALED" => scope'[s].status = "SEALED" /\ scope'[s].sealer = scope[s].sealer
  /\ scope[s].status = "CANCELLED" => scope'[s].status = "CANCELLED"
  /\ scope[s].status = "BLOCKED" => scope'[s].status \in {"BLOCKED", "CANCELLED"}
  /\ scope'[s].status = "READY_TO_SEAL" => scope[s].status = "READY_TO_SEAL" \/ Offered(scope'[s])
  /\ scope'[s].status = "SEALED" =>
       \/ scope[s].status = "SEALED"
       \/ scope[s].status = "READY_TO_SEAL" /\ scope[s].prepared = "sound"
  /\ scope'[s].sealer # scope[s].sealer => scope'[s].status = "SEALED"

\* The scope of a request is created, opened and sealed by its request only.
OwnKept(s) ==
  s \notin Ordinary =>
    /\ scope[s].status = "NONE" => scope'[s].status = "NONE"
    /\ scope'[s].status = "SEALED" => scope[s].status = "SEALED"

\* A working job goes on under its generation or has just claimed a new one.
JobMoves(p, s) ==
  /\ work'[p][s].pc \in Working =>
       \/ work[p][s].pc \in Working /\ work'[p][s].generation = work[p][s].generation
       \/ /\ work'[p][s].generation = scope[s].generation + 1
          /\ scope'[s].generation = scope[s].generation + 1
          /\ \A q \in Process : q # p => work'[q][s] = work[q][s]
  /\ work'[p][s].pc \in {"finish", "ready"} => scope'[s].prepared # "none"
  /\ s \notin Ordinary => work'[p][s].pc \notin {"claim", "check", "publish", "block"}

\* No job is ahead of its scope.
JobsBehind ==
  \A p \in Process, s \in Scope :
    work[p][s].pc \in Working => work[p][s].generation <= scope[s].generation

\* A job that finishes items follows a preparation, its own or an earlier one.
JobsPrepared ==
  \A p \in Process, s \in Scope :
    work[p][s].pc \in {"finish", "ready"} => scope[s].prepared # "none"

\* The scope of a request is neither polled nor published by the scheduler.
OwnJobs ==
  \A p \in Process, s \in Scope :
    s \notin Ordinary => work[p][s].pc \notin {"claim", "check", "publish", "block"}

\* Only a sealed scope has a sealer, which for a request's scope is the request.
Sealers ==
  /\ \A s \in Scope : scope[s].sealer # "none" => scope[s].status = "SEALED"
  /\ \A r \in Request : scope[r].status = "SEALED" => scope[r].sealer = "request"

JobInv ==
  /\ Typed
  /\ JobsBehind
  /\ OneScopeExecutor
  /\ JobsPrepared
  /\ OwnJobs

ScopeInv ==
  /\ JobInv
  /\ ReadyIsComplete
  /\ Sealers

LEMMA SameScope ==
  ASSUME Typed, NEW s \in Scope, scope'[s] = scope[s]
  PROVE  Kept(s) /\ OwnKept(s)
BY DEF Typed, ScopeRow, Kept, OwnKept

LEMMA SameJob ==
  ASSUME JobInv, NEW p \in Process, NEW s \in Scope, work'[p][s] = work[p][s], Kept(s)
  PROVE  JobMoves(p, s)
<1>1. work[p][s].pc \in {"finish", "ready"} => scope'[s].prepared # "none"
  BY DEF JobInv, JobsPrepared, Kept
<1> QED BY <1>1 DEF JobMoves, JobInv, OwnJobs

\* What a step of a job, a member, the clock or a request does to the scopes
\* and their jobs.
ScopeEffect ==
  /\ scope' \in [Scope -> ScopeRow]
  /\ work' \in [Process -> [Scope -> WorkRecord]]
  /\ \A s \in Scope : Kept(s)
  /\ \A p \in Process, s \in Scope : JobMoves(p, s)

\* A job takes a step without claiming; its scope may be written with it.
LEMMA JobGoesOn ==
  ASSUME JobInv, NEW p \in Process, NEW s \in Scope, NEW j, Works(p, s, j), NEW x, Writes(s, x), Kept(s),
         j.pc \in Working => work[p][s].pc \in Working /\ j.generation = work[p][s].generation,
         j.pc \in {"finish", "ready"} => x.prepared # "none",
         s \notin Ordinary => j.pc \notin {"claim", "check", "publish", "block"}
  PROVE  ScopeEffect
<1>1. ASSUME NEW t \in Scope PROVE Kept(t)
  BY SameScope DEF JobInv, Writes
<1>2. JobMoves(p, s)
  BY DEF JobMoves, Works, Writes
<1>3. ASSUME NEW q \in Process, NEW t \in Scope PROVE JobMoves(q, t)
  <2>1. CASE q = p /\ t = s
    BY <1>2, <2>1
  <2>2. CASE ~(q = p /\ t = s)
    <3>1. work'[q][t] = work[q][t]
      BY <2>2 DEF Works
    <3> QED BY <1>1, <3>1, SameJob
  <2> QED BY <2>1, <2>2
<1> QED BY <1>1, <1>3 DEF ScopeEffect, Writes, Works

\* A scope is written and no job moves.
LEMMA JobsStand ==
  ASSUME JobInv, NEW s \in Scope, NEW x, Writes(s, x), Kept(s), UNCHANGED work
  PROVE  ScopeEffect
<1>1. ASSUME NEW t \in Scope PROVE Kept(t)
  BY SameScope DEF JobInv, Writes
<1>2. ASSUME NEW q \in Process, NEW t \in Scope PROVE JobMoves(q, t)
  BY <1>1, SameJob
<1> QED BY <1>1, <1>2 DEF ScopeEffect, Writes, JobInv, Typed

\* Nothing of a scope is written.
LEMMA ScopeStands ==
  ASSUME Typed, NEW s \in Scope, UNCHANGED scope
  PROVE  Writes(s, scope[s]) /\ Kept(s) /\ OwnKept(s)
BY SameScope DEF Typed, Writes

LEMMA NothingMoves ==
  ASSUME JobInv, UNCHANGED <<scope, work>>
  PROVE  ScopeEffect
<1>1. \A t \in Scope : Kept(t)
  BY SameScope DEF JobInv
<1>2. \A q \in Process, t \in Scope : JobMoves(q, t)
  BY <1>1, SameJob
<1> QED BY <1>1, <1>2 DEF ScopeEffect, JobInv, Typed

-----------------------------------------------------------------------------
(* The steps of members, jobs and the clock                                  *)

\* claimScope(): the next generation, whoever claims.
LEMMA TakeEffect ==
  ASSUME JobInv, NEW p \in Process, NEW s \in Scope, TakeScope(p, s)
  PROVE  ScopeEffect
<1> DEFINE n == scope[s].generation + 1
           x == [scope[s] EXCEPT !.status = "RUNNING", !.live = TRUE, !.generation = n]
           j == [pc |-> "declare", generation |-> n, left |-> Batch]
<1>1. scope[s] \in ScopeRow /\ n \in 0..MaxGeneration
  BY ScopeAssumption DEF TakeScope, JobInv, Typed, ScopeRow
<1>2. x \in ScopeRow
  BY <1>1 DEF ScopeRow, Status
<1>3. scope' = [scope EXCEPT ![s] = x]
  BY DEF TakeScope, JobInv, Typed
<1>4. Writes(s, x)
  BY <1>2, <1>3, WriteScope DEF JobInv
<1>5. Works(p, s, j)
  BY <1>1, WriteJob DEF TakeScope, JobInv, WorkRecord, Stage
<1>6. Kept(s)
  BY <1>1, <1>4 DEF Writes, Kept, ScopeRow, TakeScope, Claimable
<1>7. JobMoves(p, s)
  BY <1>1, <1>4, <1>5 DEF JobMoves, Works, Writes, ScopeRow
<1>8. ASSUME NEW t \in Scope PROVE Kept(t)
  BY <1>4, <1>6, SameScope DEF JobInv, Writes
<1>9. ASSUME NEW q \in Process, NEW t \in Scope PROVE JobMoves(q, t)
  <2>1. CASE q = p /\ t = s
    BY <1>7, <2>1
  <2>2. CASE ~(q = p /\ t = s)
    <3>1. work'[q][t] = work[q][t]
      BY <1>5, <2>2 DEF Works
    <3> QED BY <1>8, <3>1, SameJob
  <2> QED BY <2>1, <2>2
<1> QED BY <1>4, <1>5, <1>8, <1>9 DEF ScopeEffect, Writes, Works

\* recordScopeItems(): one batch of items, and the job goes on.
LEMMA RecordEffect ==
  ASSUME ScopeInv, NEW p \in Process, NEW s \in Scope,
         NEW stage \in Working, NEW next \in Working, NEW status \in {"PENDING", "DONE"},
         RecordBatch(p, s, stage, status, next),
         next \in {"finish", "ready"} \/ stage \in {"finish", "ready"} => scope[s].prepared # "none"
  PROVE  ScopeEffect /\ OwnKept(s)
<1>1. PICK b \in work[p][s].left :
        /\ scope' = [scope EXCEPT ![s].items[b] = Recorded(scope[s].items[b], status)]
        /\ work' = [work EXCEPT ![p][s] =
             IF work[p][s].left = {b} THEN [work[p][s] EXCEPT !.pc = next, !.left = Batch]
                                      ELSE [work[p][s] EXCEPT !.left = work[p][s].left \ {b}]]
  BY DEF RecordBatch
<1>2. scope[s] \in ScopeRow /\ work[p][s] \in WorkRecord /\ work[p][s].pc = stage
      /\ scope[s].status = "RUNNING"
  BY DEF ScopeInv, JobInv, Typed, RecordBatch, Holds
<1> DEFINE item == Recorded(scope[s].items[b], status)
           x == [scope[s] EXCEPT !.items[b] = item]
           j == IF work[p][s].left = {b} THEN [work[p][s] EXCEPT !.pc = next, !.left = Batch]
                ELSE [work[p][s] EXCEPT !.left = work[p][s].left \ {b}]
<1>3. b \in Batch /\ item \in ItemStatus
  BY <1>2 DEF WorkRecord, Recorded, ItemStatus
<1>4. x \in ScopeRow
  BY <1>2, <1>3 DEF ScopeRow
<1>5. scope' = [scope EXCEPT ![s] = x]
  BY <1>1 DEF ScopeInv, JobInv, Typed
<1>6. Writes(s, x)
  BY <1>4, <1>5, WriteScope DEF ScopeInv, JobInv
<1>7. j \in WorkRecord /\ j.pc \in {stage, next} /\ j.generation = work[p][s].generation
  BY <1>2 DEF WorkRecord, Working, Stage
<1>8. Works(p, s, j)
  BY <1>1, <1>7, WriteJob DEF ScopeInv, JobInv
<1>9. /\ x.status = "RUNNING" /\ x.generation = scope[s].generation
      /\ x.prepared = scope[s].prepared /\ x.sealer = scope[s].sealer
      /\ \A c \in Batch : x.items[c] = IF c = b THEN item ELSE scope[s].items[c]
  BY <1>2, <1>3 DEF ScopeRow
<1>10. Kept(s) /\ OwnKept(s)
  BY <1>2, <1>6, <1>9 DEF Kept, OwnKept, Writes, Recorded, ScopeRow
<1>11. /\ j.pc \in Working => work[p][s].pc \in Working /\ j.generation = work[p][s].generation
       /\ j.pc \in {"finish", "ready"} => x.prepared # "none"
       /\ j.pc \notin {"claim", "check", "publish", "block"}
  BY <1>2, <1>7, <1>9 DEF Working
<1>12. ScopeEffect
  <2> HIDE DEF x, j
  <2> QED BY <1>6, <1>8, <1>10, <1>11, JobGoesOn DEF ScopeInv
<1> QED BY <1>10, <1>12

\* A member's step writes the status of an ordinary scope.
LEMMA MemberEffect ==
  ASSUME ScopeInv, NEW s \in Scope, MemberStep(s)
  PROVE  ScopeEffect /\ OwnKept(s)
<1>1. JobInv /\ Typed /\ scope[s] \in ScopeRow
  BY DEF ScopeInv, JobInv, Typed
<1>2. CASE CreateRun(s)
  <2> DEFINE x == [scope[s] EXCEPT !.status = "QUEUED", !.live = FALSE]
  <2>1. Writes(s, x)
    BY <1>1, <1>2, StatusWritten, Zenon DEF CreateRun, Status
  <2>2. Kept(s) /\ OwnKept(s)
    BY <1>1, <1>2, <2>1 DEF CreateRun, Writes, Kept, OwnKept, ScopeRow
  <2>3. UNCHANGED work
    BY <1>2, Zenon DEF CreateRun
  <2> HIDE DEF x
  <2> QED BY <1>1, <2>1, <2>2, <2>3, JobsStand, Zenon
<1>3. CASE CancelScope(s)
  <2> DEFINE x == [scope[s] EXCEPT !.status = "CANCELLED", !.live = FALSE]
  <2>1. Writes(s, x)
    BY <1>1, <1>3, StatusWritten, Zenon DEF CancelScope, Status
  <2>2. Kept(s) /\ OwnKept(s)
    BY <1>1, <1>3, <2>1 DEF CancelScope, Writes, Kept, OwnKept, ScopeRow
  <2>3. UNCHANGED work
    BY <1>3, Zenon DEF CancelScope
  <2> HIDE DEF x
  <2> QED BY <1>1, <2>1, <2>2, <2>3, JobsStand
<1>4. CASE RetryScope(s)
  <2> DEFINE x == [scope[s] EXCEPT !.status = "QUEUED", !.live = FALSE]
  <2>1. Writes(s, x)
    BY <1>1, <1>4, StatusWritten, Zenon DEF RetryScope, Status
  <2>2. Kept(s) /\ OwnKept(s)
    BY <1>1, <1>4, <2>1 DEF RetryScope, Writes, Kept, OwnKept, ScopeRow
  <2>3. UNCHANGED work
    BY <1>4, Zenon DEF RetryScope
  <2> HIDE DEF x
  <2> QED BY <1>1, <2>1, <2>2, <2>3, JobsStand
<1>5. CASE MemberSeals(s)
  <2> DEFINE x == [scope[s] EXCEPT !.status = "SEALED", !.sealer = "member"]
  <2>1. Writes(s, x)
    BY <1>1, <1>5, SealWritten, Zenon DEF MemberSeals
  <2>2. Kept(s) /\ OwnKept(s)
    BY <1>1, <1>5, <2>1 DEF MemberSeals, Publishable, Writes, Kept, OwnKept, ScopeRow
  <2>3. UNCHANGED work
    BY <1>5 DEF MemberSeals
  <2> HIDE DEF x
  <2> QED BY <1>1, <2>1, <2>2, <2>3, JobsStand
<1> QED BY <1>2, <1>3, <1>4, <1>5 DEF MemberStep

LEMMA ScopeLeaseEffect ==
  ASSUME ScopeInv, NEW s \in Scope, ScopeLeaseExpires(s)
  PROVE  ScopeEffect /\ OwnKept(s)
<1>1. JobInv /\ Typed /\ scope[s] \in ScopeRow
  BY DEF ScopeInv, JobInv, Typed
<1> DEFINE x == [scope[s] EXCEPT !.live = FALSE]
<1>2. x \in ScopeRow
  BY <1>1 DEF ScopeRow
<1>3. scope' = [scope EXCEPT ![s] = x]
  BY <1>1 DEF ScopeLeaseExpires, Typed
<1>4. Writes(s, x)
  BY <1>1, <1>2, <1>3, WriteScope
<1>5. Kept(s) /\ OwnKept(s)
  BY <1>1, <1>4 DEF ScopeLeaseExpires, Writes, Kept, OwnKept, ScopeRow
<1> QED BY <1>1, <1>4, <1>5, JobsStand DEF ScopeLeaseExpires

\* A job that leaves its scope alone and goes to another place.
LEMMA GotoEffect ==
  ASSUME ScopeInv, NEW p \in Process, NEW s \in Scope, NEW pc \in Stage, Goto(p, s, pc), UNCHANGED scope,
         pc \in Working => work[p][s].pc \in Working,
         pc \in {"finish", "ready"} => scope[s].prepared # "none",
         s \notin Ordinary => pc \notin {"claim", "check", "publish", "block"}
  PROVE  ScopeEffect /\ OwnKept(s)
<1> DEFINE j == [work[p][s] EXCEPT !.pc = pc]
<1>1. Writes(s, scope[s]) /\ Kept(s) /\ OwnKept(s)
  BY ScopeStands DEF ScopeInv, JobInv
<1>2. Works(p, s, j)
  BY GotoWritten DEF ScopeInv, JobInv
<1>3. j.pc = pc /\ j.generation = work[p][s].generation
  BY DEF ScopeInv, JobInv, Typed, WorkRecord
<1>4. ScopeEffect
  <2> HIDE DEF j
  <2> QED BY <1>1, <1>2, <1>3, JobGoesOn DEF ScopeInv
<1> QED BY <1>1, <1>4

\* A job that is over, whatever it wrote last.
LEMMA EndsEffect ==
  ASSUME ScopeInv, NEW p \in Process, NEW s \in Scope, NEW x, Writes(s, x), Kept(s),
         NEW pc \in {"idle", "check", "returned", "thrown"}, Ends(p, s, pc),
         s \notin Ordinary => pc # "check"
  PROVE  ScopeEffect
<1> DEFINE j == [NoWork EXCEPT !.pc = pc]
<1>1. Works(p, s, j)
  BY EndsWritten DEF ScopeInv, JobInv, Stage
<1>2. j.pc = pc /\ j.pc \notin Working /\ j.pc \notin {"finish", "ready", "claim", "publish", "block"}
  BY DEF NoWork, Working
<1> HIDE DEF j
<1> QED BY <1>1, <1>2, JobGoesOn DEF ScopeInv

\* Where a job ends belongs to the kind of its scope.
LEMMA WhereJobsEnd ==
  ASSUME NEW s \in Scope
  PROVE  /\ Succeeds(s) \in {"idle", "check", "returned", "thrown"}
         /\ GivesUp(s) \in {"idle", "check", "returned", "thrown"}
         /\ s \notin Ordinary => Succeeds(s) # "check"
         /\ GivesUp(s) # "check"
BY DEF Succeeds, GivesUp

\* A step of a job.
LEMMA JobEffect ==
  ASSUME ScopeInv, NEW p \in Process, NEW s \in Scope, JobStep(p, s)
  PROVE  ScopeEffect /\ OwnKept(s)
<1>1. JobInv /\ Typed /\ scope[s] \in ScopeRow /\ work[p][s] \in WorkRecord
  BY DEF ScopeInv, JobInv, Typed
<1>2. UNCHANGED scope => Writes(s, scope[s]) /\ Kept(s) /\ OwnKept(s)
  BY <1>1, ScopeStands
<1>3. CASE Poll(p, s)
  BY <1>3, GotoEffect DEF Poll, Stage, Working
<1>4. CASE Claim(p, s)
  <2>1. ScopeEffect
    BY <1>1, <1>4, TakeEffect DEF Claim
  <2> QED BY <1>4, <2>1 DEF Claim, OwnKept
<1>5. CASE ClaimBusy(p, s)
  BY <1>2, <1>5, EndsEffect DEF ClaimBusy
<1>6. CASE Declare(p, s)
  BY <1>6, RecordEffect DEF Declare, Working
<1>7. CASE Parse(p, s)
  BY <1>7, GotoEffect DEF Parse, At, Stage, Working
<1>8. CASE ParseFails(p, s)
  BY <1>8, GotoEffect DEF ParseFails, At, Stage, Working
<1>9. CASE Prepare(p, s)
  <2>1. PICK quality \in {"sound", "unsound"} :
          /\ scope' = [scope EXCEPT ![s].prepared = quality]
          /\ scope[s].prepared # "none" => quality = scope[s].prepared
    BY <1>1, <1>9 DEF Prepare, ScopeRow
  <2> DEFINE x == [scope[s] EXCEPT !.prepared = quality]
             j == [work[p][s] EXCEPT !.pc = "finish"]
  <2>2. x \in ScopeRow /\ x.prepared = quality
    BY <1>1 DEF ScopeRow
  <2>3. scope' = [scope EXCEPT ![s] = x]
    BY <1>1, <2>1 DEF Typed
  <2>4. Writes(s, x)
    BY <1>1, <2>2, <2>3, WriteScope
  <2>5. Kept(s) /\ OwnKept(s)
    BY <1>1, <1>9, <2>1, <2>4 DEF Prepare, Holds, Writes, Kept, OwnKept, ScopeRow
  <2>6. Works(p, s, j)
    BY <1>1, <1>9, GotoWritten DEF Prepare, Stage
  <2>7. j.pc = "finish" /\ j.generation = work[p][s].generation /\ work[p][s].pc = "prepare"
    BY <1>1, <1>9 DEF Prepare, At, WorkRecord
  <2>8. ScopeEffect
    <3> HIDE DEF x, j
    <3> QED BY <1>1, <2>2, <2>4, <2>5, <2>6, <2>7, JobGoesOn DEF Working
  <2> QED BY <2>5, <2>8
<1>10. CASE Finish(p, s)
  <2>1. scope[s].prepared # "none"
    BY <1>10 DEF Finish, RecordBatch, ScopeInv, JobInv, JobsPrepared
  <2> QED BY <1>10, <2>1, RecordEffect DEF Finish, Working
<1>11. CASE Ready(p, s)
  <2> DEFINE x == [scope[s] EXCEPT !.status = "READY_TO_SEAL", !.live = FALSE]
  <2>1. Writes(s, x)
    BY <1>1, <1>11, StatusWritten, Zenon DEF Ready, Status
  <2>2. scope[s].prepared # "none"
    BY <1>11 DEF Ready, At, ScopeInv, JobInv, JobsPrepared
  <2>3. Kept(s) /\ OwnKept(s)
    BY <1>1, <1>11, <2>1, <2>2 DEF Ready, Holds, Complete, Offered, Writes, Kept, OwnKept, ScopeRow
  <2> HIDE DEF x
  <2> QED BY <1>11, <2>1, <2>3, WhereJobsEnd, EndsEffect, Zenon DEF Ready
<1>12. CASE Stale(p, s)
  BY <1>2, <1>12, WhereJobsEnd, EndsEffect DEF Stale
<1>13. CASE Fail(p, s)
  <2> DEFINE x == [scope[s] EXCEPT !.status = "FAILED_RETRYABLE", !.live = FALSE]
  <2>1. Writes(s, x)
    BY <1>1, <1>13, StatusWritten, Zenon DEF Fail, Status
  <2>2. Kept(s) /\ OwnKept(s)
    BY <1>1, <1>13, <2>1 DEF Fail, Holds, Writes, Kept, OwnKept, ScopeRow
  <2> HIDE DEF x
  <2> QED BY <1>13, <2>1, <2>2, WhereJobsEnd, EndsEffect, Zenon DEF Fail
<1>14. CASE TransactionFails(p, s)
  <2>1. CASE work[p][s].pc \in {"declare", "parse", "prepare", "finish", "ready"} /\ Goto(p, s, "failing")
    BY <1>14, <2>1, GotoEffect DEF TransactionFails, Stage, Working
  <2>2. CASE Ends(p, s, GivesUp(s))
    BY <1>2, <1>14, <2>2, WhereJobsEnd, EndsEffect DEF TransactionFails
  <2> QED BY <1>14, <2>1, <2>2 DEF TransactionFails
<1>15. CASE Check(p, s)
  <2>1. s \in Ordinary
    BY <1>15 DEF Check, At, ScopeInv, JobInv, OwnJobs
  <2>2. CASE scope[s].status # "READY_TO_SEAL"
    BY <1>2, <1>15, <2>2, EndsEffect DEF Check
  <2>3. CASE scope[s].status = "READY_TO_SEAL"
    BY <1>15, <2>1, <2>3, GotoEffect DEF Check, Stage, Working
  <2> QED BY <2>2, <2>3
<1>16. CASE AutoPublish(p, s)
  <2>1. s \in Ordinary
    BY <1>16 DEF AutoPublish, At, ScopeInv, JobInv, OwnJobs
  <2>2. CASE scope[s].status = "READY_TO_SEAL" /\ Publishable(s)
    <3> DEFINE x == [scope[s] EXCEPT !.status = "SEALED", !.sealer = "auto"]
    <3>1. Writes(s, x)
      BY <1>1, <1>16, <2>2, SealWritten, Zenon DEF AutoPublish
    <3>2. Kept(s) /\ OwnKept(s)
      BY <1>1, <2>1, <2>2, <3>1 DEF Publishable, Writes, Kept, OwnKept, ScopeRow
    <3> HIDE DEF x
    <3> QED BY <1>16, <3>1, <3>2, EndsEffect, Zenon DEF AutoPublish
  <2>3. CASE ~(scope[s].status = "READY_TO_SEAL" /\ Publishable(s))
    BY <1>2, <1>16, <2>3, EndsEffect DEF AutoPublish
  <2> QED BY <2>2, <2>3
<1>17. CASE Block(p, s)
  <2>1. CASE scope[s].status = "READY_TO_SEAL"
    <3> DEFINE x == [scope[s] EXCEPT !.status = "BLOCKED", !.live = FALSE]
    <3>1. Writes(s, x)
      BY <1>1, <1>17, <2>1, StatusWritten, Zenon DEF Block, Status
    <3>2. Kept(s) /\ OwnKept(s)
      BY <1>1, <2>1, <3>1 DEF Writes, Kept, OwnKept, ScopeRow
    <3> HIDE DEF x
    <3> QED BY <1>17, <3>1, <3>2, EndsEffect, Zenon DEF Block
  <2>2. CASE scope[s].status # "READY_TO_SEAL"
    BY <1>2, <1>17, <2>2, EndsEffect DEF Block
  <2> QED BY <2>1, <2>2
<1> QED BY <1>3, <1>4, <1>5, <1>6, <1>7, <1>8, <1>9, <1>10, <1>11, <1>12, <1>13, <1>14, <1>15, <1>16, <1>17
        DEF JobStep


\* A step of one scope leaves the others.
LEMMA OthersStand ==
  ASSUME Typed, NEW s \in Scope, NEW t \in Scope, t # s,
         \/ MemberStep(s) \/ ScopeLeaseExpires(s)
         \/ \E p \in Process : JobStep(p, s)
  PROVE  scope'[t] = scope[t]
<1>1. CASE MemberStep(s)
  BY <1>1 DEF Typed, MemberStep, CreateRun, CancelScope, RetryScope, MemberSeals, SetStatus, Seal
<1>2. CASE ScopeLeaseExpires(s)
  BY <1>2 DEF Typed, ScopeLeaseExpires
<1>3. ASSUME NEW p \in Process, JobStep(p, s) PROVE scope'[t] = scope[t]
  <2>1. CASE Claim(p, s)
    BY <2>1 DEF Typed, Claim, TakeScope
  <2>2. CASE Declare(p, s) \/ Finish(p, s)
    BY <2>2 DEF Typed, Declare, Finish, RecordBatch
  <2>3. CASE Prepare(p, s)
    BY <2>3 DEF Typed, Prepare
  <2>4. CASE Ready(p, s) \/ Fail(p, s) \/ AutoPublish(p, s) \/ Block(p, s)
    BY <2>4 DEF Typed, Ready, Fail, AutoPublish, Block, SetStatus, Seal
  <2>5. CASE \/ Poll(p, s) \/ ClaimBusy(p, s) \/ Parse(p, s) \/ ParseFails(p, s) \/ Stale(p, s)
             \/ TransactionFails(p, s) \/ Check(p, s)
    BY <2>5 DEF Poll, ClaimBusy, Parse, ParseFails, Stale, TransactionFails, Check
  <2> QED BY <1>3, <2>1, <2>2, <2>3, <2>4, <2>5 DEF JobStep
<1> QED BY <1>1, <1>2, <1>3

\* A step of the scopes on their own opens and seals no scope of a request.
LEMMA ScopeStepEffect ==
  ASSUME ScopeInv, ScopeStep
  PROVE  ScopeEffect /\ \A s \in Scope : OwnKept(s)
<1>1. PICK s \in Scope :
        \/ MemberStep(s) \/ ScopeLeaseExpires(s)
        \/ \E p \in Process : JobStep(p, s)
  BY DEF ScopeStep
<1>2. ScopeEffect /\ OwnKept(s)
  BY <1>1, MemberEffect, ScopeLeaseEffect, JobEffect
<1>3. ASSUME NEW t \in Scope PROVE OwnKept(t)
  BY <1>1, <1>2, OthersStand, SameScope DEF ScopeInv, JobInv
<1> QED BY <1>2, <1>3

-----------------------------------------------------------------------------
(* The steps of requests                                                     *)

\* #cancelDerivedScope(): the scope of a request that ends is cancelled.
LEMMA CancelDerivedEffect ==
  ASSUME ScopeInv, NEW r \in Request, CancelDerived(r), UNCHANGED work
  PROVE  ScopeEffect
<1>1. JobInv /\ Typed /\ r \in Scope /\ scope[r] \in ScopeRow
  BY OwnScope DEF ScopeInv, JobInv, Typed
<1>2. CASE UNCHANGED scope
  BY <1>1, <1>2, NothingMoves
<1>3. CASE SetStatus(r, "CANCELLED") /\ scope[r].status \notin {"SEALED", "CANCELLED"}
  <2> DEFINE x == [scope[r] EXCEPT !.status = "CANCELLED", !.live = FALSE]
  <2>1. Writes(r, x)
    BY <1>1, <1>3, StatusWritten, Zenon DEF Status
  <2>2. Kept(r)
    BY <1>1, <1>3, <2>1 DEF Writes, Kept, ScopeRow
  <2> HIDE DEF x
  <2> QED BY <1>1, <2>1, <2>2, JobsStand, Zenon
<1> QED BY <1>2, <1>3 DEF CancelDerived

\* derive(): the scope of a request is created.
LEMMA CreateEffect ==
  ASSUME ScopeInv, NEW p \in Process, NEW r \in Request, Create(p, r)
  PROVE  ScopeEffect
<1>1. JobInv /\ Typed /\ r \in Scope /\ scope[r] \in ScopeRow
  BY OwnScope DEF ScopeInv, JobInv, Typed
<1>2. CASE scope[r].status # "NONE"
  BY <1>1, <1>2, NothingMoves DEF Create
<1>3. CASE scope[r].status = "NONE"
  <2> DEFINE x == [scope[r] EXCEPT !.status = "QUEUED", !.live = FALSE]
  <2>1. Writes(r, x)
    BY <1>1, <1>3, StatusWritten, Zenon DEF Status, Create
  <2>2. Kept(r)
    BY <1>1, <1>3, <2>1 DEF Writes, Kept, ScopeRow
  <2>3. UNCHANGED work
    BY Zenon DEF Create
  <2> HIDE DEF x
  <2> QED BY <1>1, <2>1, <2>2, <2>3, JobsStand, Zenon
<1> QED BY <1>2, <1>3

\* cancelRequestScope(): a scope that adds nothing is cancelled.
LEMMA NoChangeEffect ==
  ASSUME ScopeInv, NEW p \in Process, NEW r \in Request, NoChange(p, r)
  PROVE  ScopeEffect
<1>1. JobInv /\ Typed /\ r \in Scope /\ scope[r] \in ScopeRow
  BY OwnScope DEF ScopeInv, JobInv, Typed
<1> DEFINE x == [scope[r] EXCEPT !.status = "CANCELLED", !.live = FALSE]
<1>2. Writes(r, x)
  BY <1>1, StatusWritten, Zenon DEF NoChange, Status
<1>3. Kept(r)
  BY <1>1, <1>2 DEF NoChange, Writes, Kept, ScopeRow
<1>4. UNCHANGED work
  BY DEF NoChange
<1> HIDE DEF x
<1> QED BY <1>1, <1>2, <1>3, <1>4, JobsStand

\* publish() under a request: only it seals its scope, once.
LEMMA PublishEffect ==
  ASSUME ScopeInv, NEW p \in Process, NEW r \in Request, Publish(p, r)
  PROVE  ScopeEffect
<1>1. JobInv /\ Typed /\ r \in Scope /\ scope[r] \in ScopeRow /\ UNCHANGED work
  BY OwnScope DEF ScopeInv, JobInv, Typed, Publish
<1>2. CASE UNCHANGED scope
  BY <1>1, <1>2, NothingMoves
<1>3. CASE Publishable(r) /\ Sealable(r) /\ Seal(r, "request")
  <2> DEFINE x == [scope[r] EXCEPT !.status = "SEALED", !.sealer = "request"]
  <2>1. Writes(r, x)
    BY <1>1, <1>3, SealWritten, Zenon
  <2>2. scope[r].status = "SEALED" \/ scope[r].status = "READY_TO_SEAL"
    BY <1>1, <1>3 DEF Sealable, ScopeInv, Sealers
  <2>3. scope[r].status = "SEALED" => scope[r].sealer = "request"
    BY DEF ScopeInv, Sealers
  <2>4. Kept(r)
    BY <1>1, <1>3, <2>1, <2>2, <2>3 DEF Publishable, Writes, Kept, ScopeRow
  <2> HIDE DEF x
  <2> QED BY <1>1, <2>1, <2>4, JobsStand, Zenon
<1> QED BY <1>2, <1>3 DEF Publish

\* The worker's run of a request's scope has come to its end.
LEMMA AwaitEffect ==
  ASSUME ScopeInv, NEW p \in Process, NEW r \in Request, Await(p, r)
  PROVE  ScopeEffect
<1>1. Writes(r, scope[r]) /\ Kept(r) /\ r \in Scope
  BY OwnScope, ScopeStands DEF Await, ScopeInv, JobInv
<1> QED BY <1>1, EndsEffect DEF Await

LEMMA CrashEffect ==
  ASSUME ScopeInv, NEW p \in Process, Crash(p)
  PROVE  ScopeEffect
<1>1. \A t \in Scope : Kept(t)
  BY SameScope DEF ScopeInv, JobInv, Crash
<1>2. NoWork \in WorkRecord /\ NoWork.pc = "idle"
  BY ScopeAssumption DEF NoWork, WorkRecord, Stage
<1>3. work' \in [Process -> [Scope -> WorkRecord]]
  BY <1>2 DEF Crash, ScopeInv, JobInv, Typed
<1>4. ASSUME NEW q \in Process, NEW t \in Scope PROVE JobMoves(q, t)
  <2>1. CASE q = p
    BY <1>2, <2>1 DEF Crash, ScopeInv, JobInv, Typed, JobMoves, Working
  <2>2. CASE q # p
    <3>1. work'[q][t] = work[q][t]
      BY <2>2 DEF Crash, ScopeInv, JobInv, Typed
    <3> QED BY <1>1, <3>1, SameJob DEF ScopeInv
  <2> QED BY <2>1, <2>2
<1> QED BY <1>1, <1>3, <1>4 DEF ScopeEffect, Crash, ScopeInv, JobInv, Typed

\* Every step keeps to it.
LEMMA NextScopeEffect ==
  ASSUME ScopeInv, Next
  PROVE  ScopeEffect
<1>1. CASE ScopeStep
  BY <1>1, ScopeStepEffect
<1>2. ASSUME NEW r \in Request, Submit(r) \/ CancelRequest(r) \/ RequestLeaseExpires(r)
      PROVE  ScopeEffect
  BY <1>2, NothingMoves, CancelDerivedEffect, Zenon
     DEF Submit, CancelRequest, RequestLeaseExpires, ScopeInv
<1>3. ASSUME NEW p \in Process, NEW r \in Request, ExecutionStep(p, r)
      PROVE  ScopeEffect
  <2>1. CASE Create(p, r)
    BY <2>1, CreateEffect
  <2>2. CASE RunScope(p, r)
    BY <2>2, OwnScope, TakeEffect DEF RunScope, ScopeInv
  <2>3. CASE Await(p, r)
    BY <2>3, AwaitEffect
  <2>4. CASE NoChange(p, r)
    BY <2>4, NoChangeEffect
  <2>5. CASE Publish(p, r)
    BY <2>5, PublishEffect
  <2>6. CASE CatchError(p, r)
    BY <2>6, NothingMoves, CancelDerivedEffect DEF CatchError, ScopeInv
  <2>7. CASE \/ Dispatch(p, r) \/ ClaimRequest(p, r) \/ ClaimRequestBusy(p, r) \/ MakePlan(p, r)
             \/ AssertActive(p, r) \/ Reserve(p, r) \/ RunScopeBusy(p, r) \/ Outdated(p, r)
             \/ CompleteRequest(p, r) \/ RequestTransactionFails(p, r)
    <3>1. UNCHANGED <<scope, work>>
      BY <2>7 DEF Dispatch, ClaimRequest, ClaimRequestBusy, MakePlan, AssertActive, Reserve, RunScopeBusy,
                  Outdated, CompleteRequest, RequestTransactionFails
    <3> QED BY <3>1, NothingMoves DEF ScopeInv
  <2> QED BY <1>3, <2>1, <2>2, <2>3, <2>4, <2>5, <2>6, <2>7 DEF ExecutionStep
<1>4. ASSUME NEW p \in Process, ProcessCrashes(p) PROVE ScopeEffect
  BY <1>4, CrashEffect DEF ProcessCrashes
<1>5. CASE ConsumerChanges \/ DeadlinePasses
  BY <1>5, NothingMoves DEF ConsumerChanges, DeadlinePasses, ScopeInv
<1> QED BY <1>1, <1>2, <1>3, <1>4, <1>5 DEF Next

-----------------------------------------------------------------------------
(* What every step leaves of an execution                                    *)

\* One execution moves; a new version is answered once the scope is sealed.
Executed(p, r) ==
  /\ exec' \in [Process -> [Request -> Execution]]
  /\ \A q \in Process, t \in Request : q # p \/ t # r => exec'[q][t] = exec[q][t]
  /\ exec'[p][r].pc = "assert" => exec'[p][r].next \in Nexts
  /\ exec'[p][r].outcome = "NEW_VERSION" =>
       exec[p][r].outcome = "NEW_VERSION" \/ scope'[r].status = "SEALED"

LEMMA ExecutionMoves ==
  ASSUME Typed, NEW p \in Process, NEW r \in Request
  PROVE  /\ \A pc \in Places : Step(p, r, pc) => Executed(p, r)
         /\ \A next \in Nexts : AskFirst(p, r, next) => Executed(p, r)
         /\ \A code \in Code : Catch(p, r, code) => Executed(p, r)
         /\ \A outcome \in Outcome :
              Answer(p, r, outcome) /\ (outcome = "NEW_VERSION" => scope'[r].status = "SEALED")
                => Executed(p, r)
         /\ Rest(p, r) => Executed(p, r)
<1>1. exec[p][r] \in Execution
  BY DEF Typed
<1>2. ASSUME NEW pc \in Places, Step(p, r, pc) PROVE Executed(p, r)
  <2> DEFINE e == [exec[p][r] EXCEPT !.pc = pc]
  <2>1. Executes(p, r, e)
    BY <1>2, StepWritten
  <2>2. e.pc # "assert" /\ e.outcome = exec[p][r].outcome
    BY <1>1 DEF Execution, Places
  <2> HIDE DEF e
  <2> QED BY <1>2, <2>1, <2>2 DEF Executed, Executes
<1>3. ASSUME NEW next \in Nexts, AskFirst(p, r, next) PROVE Executed(p, r)
  <2> DEFINE e == [exec[p][r] EXCEPT !.pc = "assert", !.next = next]
  <2>1. Executes(p, r, e)
    BY <1>3, AskFirstWritten, Zenon
  <2>2. e.next \in Nexts /\ e.outcome = exec[p][r].outcome
    BY <1>1 DEF Execution
  <2> HIDE DEF e
  <2> QED BY <1>3, <2>1, <2>2 DEF Executed, Executes
<1>4. ASSUME NEW code \in Code, Catch(p, r, code) PROVE Executed(p, r)
  <2> DEFINE e == [exec[p][r] EXCEPT !.pc = "catch", !.code = code]
  <2>1. Executes(p, r, e)
    BY <1>4, CatchWritten, Zenon
  <2>2. e.pc = "catch" /\ e.outcome = exec[p][r].outcome
    BY <1>1 DEF Execution
  <2> HIDE DEF e
  <2> QED BY <1>4, <2>1, <2>2 DEF Executed, Executes
<1>5. ASSUME NEW outcome \in Outcome, Answer(p, r, outcome),
             outcome = "NEW_VERSION" => scope'[r].status = "SEALED"
      PROVE  Executed(p, r)
  <2> DEFINE e == [exec[p][r] EXCEPT !.pc = "assert", !.next = "complete", !.outcome = outcome]
  <2>1. Executes(p, r, e)
    BY <1>5, AnswerWritten, Zenon
  <2>2. e.next = "complete" /\ e.outcome = outcome
    BY <1>1 DEF Execution
  <2> HIDE DEF e
  <2> QED BY <1>5, <2>1, <2>2 DEF Executed, Executes, Nexts
<1>6. CASE Rest(p, r)
  BY <1>6, RestWritten DEF Executed, Executes, NoExecution
<1> QED BY <1>2, <1>3, <1>4, <1>5, <1>6

\* An answer in hand that names a new version.
Answers ==
  \A p \in Process, r \in Request :
    exec[p][r].outcome = "NEW_VERSION" => scope[r].status = "SEALED"

\* An execution that asks whether it may go on knows where to.
Asked ==
  \A p \in Process, r \in Request : exec[p][r].pc = "assert" => exec[p][r].next \in Nexts

\* A step of an execution.
LEMMA ExecutionEffect ==
  ASSUME ScopeInv, Asked, NEW p \in Process, NEW r \in Request, ExecutionStep(p, r)
  PROVE  Executed(p, r)
<1>1. Typed /\ exec[p][r] \in Execution /\ row[r] \in RequestRow /\ r \in Scope
  BY OwnScope DEF ScopeInv, JobInv, Typed
<1>2. Refusal \in Code
  BY DEF Refusal, Code
<1>3. CASE Dispatch(p, r)
  BY <1>1, <1>3, ExecutionMoves DEF Dispatch, Places
<1>4. CASE ClaimRequest(p, r)
  <2> DEFINE n == row[r].generation + 1
             e == [NoExecution EXCEPT !.pc = "plan", !.generation = n]
  <2>1. n \in 0..MaxGeneration
    BY <1>1, <1>4, ScopeAssumption DEF ClaimRequest, RequestRow
  <2>2. e \in Execution /\ e.outcome = "NONE" /\ e.pc = "plan"
    BY <2>1 DEF NoExecution, Execution, Outcome, Code
  <2>3. exec' = [exec EXCEPT ![p][r] = e]
    BY <1>4 DEF ClaimRequest
  <2> HIDE DEF e
  <2>4. Executes(p, r, e)
    BY <1>1, <2>2, <2>3, WriteExecution
  <2> QED BY <2>2, <2>4 DEF Executed, Executes
<1>5. CASE ClaimRequestBusy(p, r)
  BY <1>1, <1>5, ExecutionMoves DEF ClaimRequestBusy
<1>6. CASE MakePlan(p, r)
  BY <1>1, <1>2, <1>6, ExecutionMoves DEF MakePlan, Places
<1>7. CASE AssertActive(p, r)
  <2>1. exec[p][r].next \in Places
    BY <1>7 DEF AssertActive, Asked, Nexts, Places
  <2> QED BY <1>1, <1>2, <1>7, <2>1, ExecutionMoves DEF AssertActive
<1>8. CASE Reserve(p, r)
  <2>1. CASE Rest(p, r)
    BY <1>1, <2>1, ExecutionMoves
  <2>2. CASE Planned(p, r)
    BY <1>1, <2>2, ExecutionMoves DEF Planned, Outcome, Nexts
  <2> QED BY <1>8, <2>1, <2>2 DEF Reserve
<1>9. CASE Create(p, r)
  <2>1. CASE scope[r].status = "NONE"
    BY <1>1, <1>9, <2>1, ExecutionMoves DEF Create, Nexts
  <2>2. CASE scope[r].status # "NONE"
    BY <1>1, <1>9, <2>2, ExecutionMoves DEF Create, Derived, Outcome, Nexts, Places
  <2> QED BY <2>1, <2>2
<1>10. CASE RunScope(p, r)
  BY <1>1, <1>10, ExecutionMoves DEF RunScope, Places
<1>11. CASE RunScopeBusy(p, r)
  BY <1>1, <1>11, ExecutionMoves DEF RunScopeBusy, Code
<1>12. CASE Await(p, r)
  BY <1>1, <1>12, ExecutionMoves DEF Await, Nexts, Places, Code
<1>13. CASE NoChange(p, r)
  BY <1>1, <1>13, ExecutionMoves DEF NoChange, Outcome
<1>14. CASE Publish(p, r)
  <2>1. Seal(r, "request") => scope'[r].status = "SEALED"
    BY <1>1 DEF Seal, Typed, ScopeRow
  <2> QED BY <1>1, <1>14, <2>1, ExecutionMoves DEF Publish, Outcome, Code
<1>15. CASE Outdated(p, r)
  BY <1>1, <1>15, ExecutionMoves DEF Outdated, Code
<1>16. CASE CompleteRequest(p, r)
  BY <1>1, <1>16, ExecutionMoves DEF CompleteRequest
<1>17. CASE CatchError(p, r)
  BY <1>1, <1>17, ExecutionMoves DEF CatchError
<1>18. CASE RequestTransactionFails(p, r)
  BY <1>1, <1>18, ExecutionMoves DEF RequestTransactionFails, Code
<1> QED BY <1>3, <1>4, <1>5, <1>6, <1>7, <1>8, <1>9, <1>10, <1>11, <1>12, <1>13, <1>14, <1>15, <1>16,
           <1>17, <1>18
        DEF ExecutionStep

\* Every step keeps the executions typed, asks for what it knows, and answers
\* with a new version only once the scope is sealed.
LEMMA NextExecutions ==
  ASSUME ScopeInv, Asked, Answers, ScopeEffect, Next
  PROVE  /\ exec' \in [Process -> [Request -> Execution]]
         /\ Asked'
         /\ Answers'
<1>1. exec \in [Process -> [Request -> Execution]]
  BY DEF ScopeInv, JobInv, Typed
<1>2. \A t \in Request : scope[t].status = "SEALED" => scope'[t].status = "SEALED"
  BY OwnScope DEF ScopeEffect, Kept
<1>3. CASE UNCHANGED exec
  BY <1>1, <1>2, <1>3 DEF Asked, Answers
<1>4. ASSUME NEW p \in Process, NEW r \in Request, ExecutionStep(p, r)
      PROVE  /\ exec' \in [Process -> [Request -> Execution]] /\ Asked' /\ Answers'
  <2>1. Executed(p, r)
    BY <1>4, ExecutionEffect
  <2>2. ASSUME NEW q \in Process, NEW t \in Request
        PROVE  /\ exec'[q][t].pc = "assert" => exec'[q][t].next \in Nexts
               /\ exec'[q][t].outcome = "NEW_VERSION" => scope'[t].status = "SEALED"
    <3>1. CASE q = p /\ t = r
      BY <1>2, <2>1, <3>1 DEF Executed, Answers
    <3>2. CASE ~(q = p /\ t = r)
      <4>1. exec'[q][t] = exec[q][t]
        BY <2>1, <3>2 DEF Executed
      <4> QED BY <1>2, <4>1 DEF Asked, Answers
    <3> QED BY <3>1, <3>2
  <2> QED BY <2>1, <2>2 DEF Asked, Answers, Executed
<1>5. ASSUME NEW p \in Process, ProcessCrashes(p)
      PROVE  /\ exec' \in [Process -> [Request -> Execution]] /\ Asked' /\ Answers'
  <2>1. NoExecution \in Execution /\ NoExecution.pc = "idle" /\ NoExecution.outcome = "NONE"
    BY ScopeAssumption DEF NoExecution, Execution, Outcome, Code
  <2>2. exec' \in [Process -> [Request -> Execution]]
    BY <1>1, <1>5, <2>1 DEF ProcessCrashes
  <2>3. ASSUME NEW q \in Process, NEW t \in Request
        PROVE  exec'[q][t] = exec[q][t] \/ exec'[q][t] = NoExecution
    BY <1>1, <1>5 DEF ProcessCrashes
  <2> QED BY <1>2, <2>1, <2>2, <2>3 DEF Asked, Answers
<1>6. CASE \/ ScopeStep /\ UNCHANGED requestVars
           \/ \E r \in Request : Submit(r) \/ CancelRequest(r) \/ RequestLeaseExpires(r)
           \/ ConsumerChanges \/ DeadlinePasses
  BY <1>3, <1>6, Zenon DEF requestVars, Submit, CancelRequest, RequestLeaseExpires, ConsumerChanges, DeadlinePasses
<1> QED BY <1>4, <1>5, <1>6 DEF Next

-----------------------------------------------------------------------------
(* What every step leaves of a request                                       *)

\* One row is written.
RowWrites(r, x) ==
  /\ row' \in [Request -> RequestRow]
  /\ row'[r] = x
  /\ \A t \in Request : t # r => row'[t] = row[t]

LEMMA WriteRow ==
  ASSUME Typed, NEW r \in Request, NEW x \in RequestRow, row' = [row EXCEPT ![r] = x]
  PROVE  RowWrites(r, x)
BY DEF Typed, RowWrites

\* An attempt is reserved, used up or given back, or the account is spared.
Reserves(r) ==
  /\ row[r].reservation = "NONE" /\ row'[r].reservation = "RESERVED"
  /\ ~Exhausted
  /\ account' = [account EXCEPT !.reserved = account.reserved + 1]
UsesUp(r) ==
  /\ row[r].reservation = "RESERVED" /\ row'[r].reservation = "SETTLED"
  /\ account' = [reserved |-> account.reserved - 1, settled |-> account.settled + 1]
GivesBack(r) ==
  /\ row[r].reservation = "RESERVED" /\ row'[r].reservation = "RELEASED"
  /\ account' = [account EXCEPT !.reserved = account.reserved - 1]
Spares(r) == row'[r].reservation = row[r].reservation /\ account' = account

\* How one request moves.  It ends cancelled with its scope closed, and with a
\* new version when its scope is sealed; its scope is opened while it runs, and
\* linked from then on.
RowMoves(r) ==
  /\ Reserves(r) \/ UsesUp(r) \/ GivesBack(r) \/ Spares(r)
  /\ row[r].state # "NONE" => row'[r].state # "NONE"
  /\ row'[r].state = "NONE" => row'[r].reservation = "NONE"
  /\ row[r].linked /\ row[r].state # "NONE" => row'[r].linked
  /\ row'[r].linked => row[r].linked \/ scope'[r].status # "NONE"
  /\ row'[r].outcome = "NEW_VERSION" => row[r].outcome = "NEW_VERSION" \/ scope[r].status = "SEALED"
  /\ row'[r].state = "CANCELLED" =>
       row[r].state = "CANCELLED" \/ scope'[r].status \in {"NONE", "SEALED", "CANCELLED"}

\* A scope is opened and sealed by its own running request.
ScopeMoves(r) ==
  /\ scope'[r].status # "NONE" =>
       \/ scope[r].status # "NONE"
       \/ row[r].state = "RUNNING" /\ row'[r].state # "NONE" /\ row'[r].linked
  /\ scope'[r].status = "SEALED" =>
       \/ scope[r].status = "SEALED"
       \/ row[r].state = "RUNNING" /\ scope'[r].sealer = "request"

\* A request is linked to its scope when the scope is created, for good.
Linked ==
  \A r \in Request :
    /\ row[r].linked <=> scope[r].status # "NONE"
    /\ row[r].linked => row[r].state # "NONE"

\* A request that was not submitted has reserved nothing.
Unborn == \A r \in Request : row[r].state = "NONE" => row[r].reservation = "NONE"

RequestInv ==
  /\ ScopeInv
  /\ Asked
  /\ Answers
  /\ Linked
  /\ Unborn
  /\ OutcomeIsTrue
  /\ account \in [reserved: Int, settled: Int]

\* One request moves, the others stand.
RequestMoves(r) ==
  /\ row' \in [Request -> RequestRow]
  /\ RowMoves(r)
  /\ \A t \in Request : t # r => row'[t] = row[t]

LEMMA RowStands ==
  ASSUME RequestInv, NEW r \in Request, UNCHANGED <<row, account>>
  PROVE  RequestMoves(r)
BY DEF RequestInv, ScopeInv, JobInv, Typed, RequestMoves, RowMoves, Spares, Unborn

\* Every way a request ends, with what becomes of its reservation.
LEMMA EndMoves ==
  ASSUME RequestInv, NEW r \in Request, NEW state \in {"COMPLETED", "FAILED", "CANCELLED"},
         NEW outcome \in Outcome, NEW code \in Code,
         NEW reservation, EndRow(r, state, outcome, code, reservation),
         \/ reservation = row[r].reservation /\ UNCHANGED account
         \/ reservation = Settled(r) /\ SettleAccount(r)
         \/ reservation = Released(r) /\ ReleaseAccount(r),
         outcome = "NEW_VERSION" => scope[r].status = "SEALED",
         state = "CANCELLED" => scope'[r].status \in {"NONE", "SEALED", "CANCELLED"}
  PROVE  RequestMoves(r)
<1>x. PICK x : x = [row[r] EXCEPT !.state = state, !.outcome = outcome, !.code = code,
                                  !.live = FALSE, !.reservation = reservation]
  OBVIOUS
<1>1. Typed /\ row[r] \in RequestRow
  BY DEF RequestInv, ScopeInv, JobInv, Typed
<1>2. reservation \in {"NONE", "RESERVED", "SETTLED", "RELEASED"}
  BY <1>1 DEF Settled, Released, RequestRow
<1>3. RowWrites(r, x)
  <2>1. x \in RequestRow
    BY <1>x, <1>1, <1>2 DEF RequestRow
  <2>2. row' = [row EXCEPT ![r] = x]
    BY <1>x DEF EndRow
  <2> QED BY <1>1, <2>1, <2>2, WriteRow
<1>4. /\ x.state = state /\ x.outcome = outcome
      /\ x.reservation = reservation /\ x.linked = row[r].linked
  BY <1>x, <1>1 DEF RequestRow
<1>5. row'[r] = x
  BY <1>3 DEF RowWrites
<1>6. UsesUp(r) \/ GivesBack(r) \/ Spares(r)
  BY <1>4, <1>5 DEF UsesUp, GivesBack, Spares, Settled, Released, SettleAccount, ReleaseAccount
<1>7. RowMoves(r)
  BY <1>4, <1>5, <1>6 DEF RowMoves
<1> QED BY <1>3, <1>7 DEF RequestMoves, RowWrites

\* cancelScope() of a request's scope leaves nothing open.
LEMMA CancelDerivedMoves ==
  ASSUME RequestInv, NEW r \in Request, CancelDerived(r)
  PROVE  scope'[r].status \in {"NONE", "SEALED", "CANCELLED"} /\ ScopeMoves(r)
<1>1. Typed /\ r \in Scope /\ scope[r] \in ScopeRow
  BY OwnScope DEF RequestInv, ScopeInv, JobInv, Typed
<1>2. CASE row[r].linked /\ scope[r].status \notin {"SEALED", "CANCELLED"}
  <2>1. scope'[r].status = "CANCELLED"
    BY <1>1, <1>2 DEF CancelDerived, SetStatus, Typed, ScopeRow
  <2>2. scope[r].status # "NONE"
    BY <1>2 DEF RequestInv, Linked
  <2> QED BY <2>1, <2>2 DEF ScopeMoves
<1>3. CASE ~(row[r].linked /\ scope[r].status \notin {"SEALED", "CANCELLED"})
  <2>1. UNCHANGED scope
    BY <1>3 DEF CancelDerived
  <2>2. ScopeMoves(r)
    BY <2>1 DEF ScopeMoves
  <2>3. scope[r].status \in {"NONE", "SEALED", "CANCELLED"}
    BY <1>3 DEF RequestInv, Linked
  <2> QED BY <2>1, <2>2, <2>3
<1> QED BY <1>2, <1>3

\* A member's step, or time's, on one request.
LEMMA RequestEffect ==
  ASSUME RequestInv, NEW r \in Request, Submit(r) \/ CancelRequest(r) \/ RequestLeaseExpires(r)
  PROVE  RequestMoves(r) /\ ScopeMoves(r)
<1>1. Typed /\ row[r] \in RequestRow
  BY DEF RequestInv, ScopeInv, JobInv, Typed
<1>2. CASE Submit(r)
  <2>1. PICK plan \in Plan : row' = [row EXCEPT ![r] = [NoRequest EXCEPT !.state = "QUEUED", !.plan = plan]]
    BY <1>2, Zenon DEF Submit
  <2> DEFINE x == [NoRequest EXCEPT !.state = "QUEUED", !.plan = plan]
  <2>2. /\ x \in RequestRow
        /\ x.state = "QUEUED" /\ x.outcome = "NONE" /\ x.reservation = "NONE" /\ x.linked = FALSE
    <3>1. NoRequest \in RequestRow
      BY ScopeAssumption DEF NoRequest, RequestRow, Outcome, Code, Plan
    <3>2. NoRequest.outcome = "NONE" /\ NoRequest.reservation = "NONE" /\ NoRequest.linked = FALSE
      BY DEF NoRequest
    <3> QED BY <3>1, <3>2 DEF RequestRow
  <2>3. RowWrites(r, x)
    BY <1>1, <2>1, <2>2, WriteRow
  <2>4. row[r].state = "NONE" /\ row[r].reservation = "NONE" /\ UNCHANGED <<scope, account>>
    BY <1>2, Zenon DEF Submit, RequestInv, Unborn
  <2> HIDE DEF x
  <2>5. RowMoves(r)
    BY <2>2, <2>3, <2>4 DEF RowMoves, RowWrites, Spares
  <2>6. ScopeMoves(r)
    BY <2>4 DEF ScopeMoves
  <2> QED BY <2>3, <2>5, <2>6 DEF RequestMoves, RowWrites
<1>3. CASE CancelRequest(r)
  BY <1>3, CancelDerivedMoves, EndMoves DEF CancelRequest, Outcome, Code
<1>4. CASE RequestLeaseExpires(r)
  <2> DEFINE x == [row[r] EXCEPT !.live = FALSE]
  <2>1. /\ x \in RequestRow
        /\ x.state = row[r].state /\ x.outcome = row[r].outcome
        /\ x.reservation = row[r].reservation /\ x.linked = row[r].linked
    BY <1>1 DEF RequestRow
  <2>2. row' = [row EXCEPT ![r] = x]
    BY <1>4 DEF RequestLeaseExpires
  <2>3. RowWrites(r, x)
    BY <1>1, <2>1, <2>2, WriteRow
  <2>4. UNCHANGED <<scope, account>>
    BY <1>4 DEF RequestLeaseExpires
  <2> HIDE DEF x
  <2>5. RowMoves(r)
    BY <2>1, <2>3, <2>4 DEF RowMoves, RowWrites, Spares, RequestInv, Unborn
  <2>6. ScopeMoves(r)
    BY <2>4 DEF ScopeMoves
  <2> QED BY <2>3, <2>5, <2>6 DEF RequestMoves, RowWrites
<1> QED BY <1>2, <1>3, <1>4

LEMMA SameScopeMoves ==
  ASSUME NEW r \in Request, scope'[r] = scope[r]
  PROVE  ScopeMoves(r)
BY DEF ScopeMoves

\* A step of an execution, on its request and its scope.
LEMMA ExecutionRequest ==
  ASSUME RequestInv, NEW p \in Process, NEW r \in Request, ExecutionStep(p, r)
  PROVE  RequestMoves(r) /\ ScopeMoves(r)
<1>1. Typed /\ row[r] \in RequestRow /\ exec[p][r] \in Execution /\ r \in Scope /\ scope[r] \in ScopeRow
  BY OwnScope DEF RequestInv, ScopeInv, JobInv, Typed
<1>2. CASE UNCHANGED <<scope, row, account>>
  BY <1>2, RowStands, SameScopeMoves
<1>3. CASE \/ Dispatch(p, r) \/ ClaimRequestBusy(p, r) \/ MakePlan(p, r) \/ AssertActive(p, r)
           \/ RunScopeBusy(p, r) \/ Await(p, r) \/ Outdated(p, r) \/ RequestTransactionFails(p, r)
  BY <1>2, <1>3 DEF Dispatch, ClaimRequestBusy, MakePlan, AssertActive, RunScopeBusy, Await, Outdated,
                    RequestTransactionFails
<1>4. CASE ClaimRequest(p, r)
  <2>1. PICK x : x = [row[r] EXCEPT !.state = "RUNNING", !.live = TRUE, !.generation = row[r].generation + 1]
    OBVIOUS
  <2>2. row[r].generation + 1 \in 0..MaxGeneration
    BY <1>1, <1>4, ScopeAssumption DEF ClaimRequest, RequestRow
  <2>3. /\ x \in RequestRow
        /\ x.state = "RUNNING" /\ x.outcome = row[r].outcome
        /\ x.reservation = row[r].reservation /\ x.linked = row[r].linked
    BY <1>1, <2>1, <2>2 DEF RequestRow
  <2>4. row' = [row EXCEPT ![r] = x]
    BY <1>4, <2>1 DEF ClaimRequest
  <2>5. RowWrites(r, x)
    BY <1>1, <2>3, <2>4, WriteRow
  <2>6. UNCHANGED <<scope, account>>
    BY <1>4 DEF ClaimRequest
  <2>7. RowMoves(r)
    BY <2>3, <2>5, <2>6 DEF RowMoves, RowWrites, Spares
  <2> QED BY <2>5, <2>6, <2>7, SameScopeMoves DEF RequestMoves, RowWrites
<1>5. CASE Reserve(p, r)
  <2>1. UNCHANGED scope /\ row[r].state = "RUNNING"
    BY <1>5 DEF Reserve, HoldsRequest
  <2>2. CASE /\ EndRow(r, "COMPLETED", "LIMITATION", IF late THEN "deadline" ELSE "none", row[r].reservation)
             /\ UNCHANGED account
    BY <2>1, <2>2, EndMoves, SameScopeMoves DEF Outcome, Code
  <2>3. CASE UNCHANGED <<row, account>>
    BY <1>2, <2>1, <2>3
  <2>4. CASE /\ row[r].reservation = "NONE" /\ ~Exhausted
             /\ row' = [row EXCEPT ![r].reservation = "RESERVED"]
             /\ account' = [account EXCEPT !.reserved = account.reserved + 1]
    <3>1. PICK x : x = [row[r] EXCEPT !.reservation = "RESERVED"]
      OBVIOUS
    <3>2. /\ x \in RequestRow
          /\ x.state = "RUNNING" /\ x.outcome = row[r].outcome
          /\ x.reservation = "RESERVED" /\ x.linked = row[r].linked
      BY <1>1, <2>1, <3>1 DEF RequestRow
    <3>3. row' = [row EXCEPT ![r] = x]
      BY <1>1, <2>4, <3>1 DEF Typed
    <3>4. RowWrites(r, x)
      BY <1>1, <3>2, <3>3, WriteRow
    <3>5. RowMoves(r)
      BY <2>1, <2>4, <3>2, <3>4 DEF RowMoves, RowWrites, Reserves
    <3> QED BY <2>1, <3>4, <3>5, SameScopeMoves DEF RequestMoves, RowWrites
  <2> QED BY <1>5, <2>2, <2>3, <2>4 DEF Reserve
<1>6. CASE Create(p, r)
  <2>1. CASE scope[r].status # "NONE"
    BY <1>2, <1>6, <2>1 DEF Create
  <2>2. CASE scope[r].status = "NONE"
    <3>1. /\ row[r].state = "RUNNING" /\ UNCHANGED account
          /\ row' = [row EXCEPT ![r].linked = TRUE]
          /\ scope'[r].status = "QUEUED"
      BY <1>1, <1>6, <2>2 DEF Create, HoldsRequest, SetStatus, Typed, ScopeRow
    <3>2. PICK x : x = [row[r] EXCEPT !.linked = TRUE]
      OBVIOUS
    <3>3. /\ x \in RequestRow
          /\ x.state = "RUNNING" /\ x.outcome = row[r].outcome
          /\ x.reservation = row[r].reservation /\ x.linked = TRUE
      BY <1>1, <3>1, <3>2 DEF RequestRow
    <3>4. row' = [row EXCEPT ![r] = x]
      BY <1>1, <3>1, <3>2 DEF Typed
    <3>5. RowWrites(r, x)
      BY <1>1, <3>3, <3>4, WriteRow
    <3>6. RowMoves(r)
      BY <3>1, <3>3, <3>5 DEF RowMoves, RowWrites, Spares
    <3>7. ScopeMoves(r)
      BY <3>1, <3>3, <3>5 DEF ScopeMoves, RowWrites
    <3> QED BY <3>5, <3>6, <3>7 DEF RequestMoves, RowWrites
  <2> QED BY <2>1, <2>2
<1>7. CASE RunScope(p, r)
  <2>1. scope[r].status # "NONE" /\ scope'[r].status = "RUNNING"
    BY <1>1, <1>7 DEF RunScope, TakeScope, Claimable, Typed, ScopeRow
  <2>2. ScopeMoves(r)
    BY <2>1 DEF ScopeMoves
  <2> QED BY <1>7, <2>2, RowStands DEF RunScope
<1>8. CASE NoChange(p, r)
  <2>1. scope[r].status # "NONE" /\ scope'[r].status = "CANCELLED"
    BY <1>1, <1>8 DEF NoChange, SetStatus, Typed, ScopeRow
  <2>2. ScopeMoves(r)
    BY <2>1 DEF ScopeMoves
  <2> QED BY <1>8, <2>2, RowStands DEF NoChange
<1>9. CASE Publish(p, r)
  <2>1. UNCHANGED <<row, account>> /\ row[r].state = "RUNNING"
    BY <1>9 DEF Publish, HoldsRequest
  <2>2. CASE UNCHANGED scope
    BY <1>2, <2>1, <2>2
  <2>3. CASE Sealable(r) /\ Seal(r, "request")
    <3>1. scope'[r].status = "SEALED" /\ scope'[r].sealer = "request"
      BY <1>1, <2>3 DEF Seal, Typed, ScopeRow
    <3>2. scope[r].status # "NONE"
      BY <1>1, <2>3 DEF Sealable, RequestInv, ScopeInv, Sealers
    <3>3. ScopeMoves(r)
      BY <2>1, <3>1, <3>2 DEF ScopeMoves
    <3> QED BY <2>1, <3>3, RowStands
  <2> QED BY <1>9, <2>2, <2>3 DEF Publish
<1>10. CASE CompleteRequest(p, r)
  <2>1. exec[p][r].outcome \in Outcome
    BY <1>1 DEF Execution
  <2>2. exec[p][r].outcome = "NEW_VERSION" => scope[r].status = "SEALED"
    BY DEF RequestInv, Answers
  <2>3. UNCHANGED scope
    BY <1>10 DEF CompleteRequest
  <2>4. CASE HoldsRequest(p, r)
    <3>1. EndRow(r, "COMPLETED", exec[p][r].outcome, "none", Settled(r)) /\ SettleAccount(r)
      BY <1>10, <2>4 DEF CompleteRequest
    <3> QED BY <2>1, <2>2, <2>3, <3>1, EndMoves, SameScopeMoves DEF Code
  <2>5. CASE ~HoldsRequest(p, r)
    BY <1>2, <1>10, <2>3, <2>5 DEF CompleteRequest
  <2> QED BY <2>4, <2>5
<1>11. CASE CatchError(p, r)
  <2>1. exec[p][r].code \in Code
    BY <1>1 DEF Execution
  <2>2. CASE /\ EndRow(r, "COMPLETED", "LIMITATION", exec[p][r].code, Settled(r))
             /\ SettleAccount(r) /\ CancelDerived(r)
    BY <2>1, <2>2, EndMoves, CancelDerivedMoves DEF Outcome
  <2>3. CASE /\ EndRow(r, "FAILED", "NONE", exec[p][r].code, Settled(r))
             /\ SettleAccount(r) /\ UNCHANGED scope
    BY <2>1, <2>3, EndMoves, SameScopeMoves DEF Outcome
  <2>4. CASE ~CatchMatches(p, r)
    <3>1. UNCHANGED <<scope, row, account>>
      BY <1>11, <2>4 DEF CatchError
    <3> QED BY <1>2, <3>1
  <2> QED BY <1>11, <2>2, <2>3, <2>4 DEF CatchError
<1> QED BY <1>3, <1>4, <1>5, <1>6, <1>7, <1>8, <1>9, <1>10, <1>11 DEF ExecutionStep

\* A step of one request leaves the scopes of the others.
LEMMA OtherScopesStand ==
  ASSUME Typed, NEW r \in Request, NEW t \in Request, t # r,
         \/ Submit(r) \/ CancelRequest(r) \/ RequestLeaseExpires(r)
         \/ \E p \in Process : ExecutionStep(p, r)
  PROVE  scope'[t] = scope[t]
<1>1. CASE Submit(r) \/ CancelRequest(r) \/ RequestLeaseExpires(r)
  BY <1>1, OwnScope DEF Typed, Submit, CancelRequest, RequestLeaseExpires, CancelDerived, SetStatus
<1>2. ASSUME NEW p \in Process, ExecutionStep(p, r) PROVE scope'[t] = scope[t]
  <2>1. CASE \/ Create(p, r) \/ NoChange(p, r) \/ Publish(p, r) \/ CatchError(p, r)
    BY <2>1, OwnScope DEF Typed, Create, NoChange, Publish, CatchError, CancelDerived, SetStatus, Seal
  <2>2. CASE RunScope(p, r)
    BY <2>2, OwnScope DEF Typed, RunScope, TakeScope
  <2>3. CASE \/ Dispatch(p, r) \/ ClaimRequest(p, r) \/ ClaimRequestBusy(p, r) \/ MakePlan(p, r)
             \/ AssertActive(p, r) \/ Reserve(p, r) \/ RunScopeBusy(p, r) \/ Await(p, r)
             \/ Outdated(p, r) \/ CompleteRequest(p, r) \/ RequestTransactionFails(p, r)
    BY <2>3 DEF Dispatch, ClaimRequest, ClaimRequestBusy, MakePlan, AssertActive, Reserve, RunScopeBusy,
                Await, Outdated, CompleteRequest, RequestTransactionFails
  <2> QED BY <1>2, <2>1, <2>2, <2>3 DEF ExecutionStep
<1> QED BY <1>1, <1>2

\* Every step moves at most one request, and no scope of a request but as it may.
LEMMA NextRequests ==
  ASSUME RequestInv, Next
  PROVE  /\ UNCHANGED <<row, account>> \/ \E r \in Request : RequestMoves(r)
         /\ \A r \in Request : ScopeMoves(r)
<1>1. CASE UNCHANGED <<scope, row, account>>
  BY <1>1, SameScopeMoves
<1>2. CASE ScopeStep /\ UNCHANGED requestVars
  <2>1. \A s \in Scope : OwnKept(s)
    BY <1>2, ScopeStepEffect DEF RequestInv
  <2> QED BY <1>2, <2>1, OwnScope DEF OwnKept, ScopeMoves, requestVars
<1>3. ASSUME NEW r \in Request,
             \/ Submit(r) \/ CancelRequest(r) \/ RequestLeaseExpires(r)
             \/ \E p \in Process : ExecutionStep(p, r)
      PROVE  RequestMoves(r) /\ \A t \in Request : ScopeMoves(t)
  <2>1. RequestMoves(r) /\ ScopeMoves(r)
    BY <1>3, RequestEffect, ExecutionRequest
  <2>2. ASSUME NEW t \in Request PROVE ScopeMoves(t)
    BY <1>3, <2>1, OtherScopesStand, SameScopeMoves DEF RequestInv, ScopeInv, JobInv
  <2> QED BY <2>1, <2>2
<1>4. CASE (\E p \in Process : ProcessCrashes(p)) \/ ConsumerChanges \/ DeadlinePasses
  BY <1>1, <1>4 DEF ProcessCrashes, Crash, ConsumerChanges, DeadlinePasses
<1> QED BY <1>2, <1>3, <1>4 DEF Next

LEMMA NextSwitches ==
  ASSUME Typed, Next
  PROVE  consumer' \in BOOLEAN /\ late' \in BOOLEAN
<1>1. CASE UNCHANGED <<consumer, late>> \/ ConsumerChanges \/ DeadlinePasses
  BY <1>1 DEF Typed, ConsumerChanges, DeadlinePasses
<1>2. ASSUME NEW p \in Process, NEW r \in Request, ExecutionStep(p, r)
      PROVE  UNCHANGED <<consumer, late>>
  BY <1>2 DEF ExecutionStep, Dispatch, ClaimRequest, ClaimRequestBusy, MakePlan, AssertActive, Reserve,
              Create, RunScope, RunScopeBusy, Await, NoChange, Publish, Outdated, CompleteRequest,
              CatchError, RequestTransactionFails
<1>3. ASSUME NEW r \in Request, Submit(r) \/ CancelRequest(r) \/ RequestLeaseExpires(r)
      PROVE  UNCHANGED <<consumer, late>>
  BY <1>3, Zenon DEF Submit, CancelRequest, RequestLeaseExpires
<1> QED BY <1>1, <1>2, <1>3 DEF Next, requestVars, ProcessCrashes

-----------------------------------------------------------------------------
(* The invariants of the jobs and the requests                               *)

\* A claimed generation is new, and older jobs keep theirs.
LEMMA JobInvKept ==
  ASSUME JobInv, ScopeEffect
  PROVE  JobsBehind' /\ OneScopeExecutor' /\ JobsPrepared' /\ OwnJobs'
<1>1. ASSUME NEW s \in Scope
      PROVE  /\ scope[s].generation \in Int /\ scope'[s].generation \in Int
             /\ scope'[s].generation >= scope[s].generation
             /\ \A p \in Process : work[p][s].generation \in Int /\ work'[p][s].generation \in Int
  BY ScopeAssumption DEF JobInv, Typed, ScopeEffect, Kept, ScopeRow, WorkRecord
<1>2. ASSUME NEW p \in Process, NEW s \in Scope
      PROVE  /\ work'[p][s].pc \in Working => work'[p][s].generation <= scope'[s].generation
             /\ work'[p][s].pc \in {"finish", "ready"} => scope'[s].prepared # "none"
             /\ s \notin Ordinary => work'[p][s].pc \notin {"claim", "check", "publish", "block"}
  <2>1. JobMoves(p, s)
    BY DEF ScopeEffect
  <2>2. work[p][s].pc \in Working => work[p][s].generation <= scope[s].generation
    BY DEF JobInv, JobsBehind
  <2> HIDE DEF Working
  <2>3. work'[p][s].pc \in Working => work'[p][s].generation <= scope'[s].generation
    BY <1>1, <2>1, <2>2 DEF JobMoves
  <2> QED BY <2>1, <2>3 DEF JobMoves
<1>3. ASSUME NEW s \in Scope, NEW p \in Process, NEW q \in Process,
             work'[p][s].pc \in Working, work'[q][s].pc \in Working,
             work'[p][s].generation = work'[q][s].generation,
             p # q
      PROVE  FALSE
  <2>1. JobMoves(p, s) /\ JobMoves(q, s)
    BY DEF ScopeEffect
  <2>2. /\ work[p][s].pc \in Working => work[p][s].generation <= scope[s].generation
        /\ work[q][s].pc \in Working => work[q][s].generation <= scope[s].generation
    BY DEF JobInv, JobsBehind
  <2>3. CASE /\ work[p][s].pc \in Working /\ work'[p][s].generation = work[p][s].generation
             /\ work[q][s].pc \in Working /\ work'[q][s].generation = work[q][s].generation
    BY <1>3, <2>3 DEF JobInv, OneScopeExecutor
  <2>4. CASE /\ work'[p][s].generation = scope[s].generation + 1
             /\ work'[q][s] = work[q][s]
    <3>1. work[q][s].pc \in Working /\ work[q][s].generation = scope[s].generation + 1
      BY <1>3, <2>4
    <3> QED BY <1>1, <2>2, <3>1
  <2>5. CASE /\ work'[q][s].generation = scope[s].generation + 1
             /\ work'[p][s] = work[p][s]
    BY <1>1, <1>3, <2>2, <2>5
  <2> QED BY <1>3, <2>1, <2>3, <2>4, <2>5 DEF JobMoves
<1> QED BY <1>2, <1>3 DEF JobsBehind, OneScopeExecutor, JobsPrepared, OwnJobs

\* What is offered and sealed stays complete, and is sealed by its request.
LEMMA ScopeInvKept ==
  ASSUME ScopeInv, ScopeEffect, \A r \in Request : ScopeMoves(r)
  PROVE  ReadyIsComplete' /\ Sealers'
<1>1. ASSUME NEW s \in Scope
      PROVE  /\ scope'[s].status \in {"READY_TO_SEAL", "SEALED"}
                  => scope'[s].prepared # "none" /\ \A b \in Batch : scope'[s].items[b] = "DONE"
             /\ scope'[s].status = "SEALED" => scope'[s].prepared = "sound"
             /\ scope'[s].sealer # "none" => scope'[s].status = "SEALED"
  <2>1. Kept(s)
    BY DEF ScopeEffect
  <2>2. /\ scope[s].status \in {"READY_TO_SEAL", "SEALED"}
             => scope[s].prepared # "none" /\ \A b \in Batch : scope[s].items[b] = "DONE"
        /\ scope[s].status = "SEALED" => scope[s].prepared = "sound"
        /\ scope[s].sealer # "none" => scope[s].status = "SEALED"
    BY DEF ScopeInv, ReadyIsComplete, Sealers
  <2> QED BY <2>1, <2>2 DEF Kept, Offered
<1>2. ASSUME NEW r \in Request, scope'[r].status = "SEALED" PROVE scope'[r].sealer = "request"
  <2>1. Kept(r) /\ ScopeMoves(r)
    BY OwnScope DEF ScopeEffect
  <2> QED BY <1>2, <2>1 DEF Kept, ScopeMoves, ScopeInv, Sealers
<1> QED BY <1>1, <1>2 DEF ReadyIsComplete, Sealers

\* Requests keep their links and their word.
LEMMA RequestInvKept ==
  ASSUME RequestInv, ScopeEffect, \A r \in Request : ScopeMoves(r),
         UNCHANGED <<row, account>> \/ \E r \in Request : RequestMoves(r)
  PROVE  /\ row' \in [Request -> RequestRow]
         /\ Linked' /\ Unborn' /\ OutcomeIsTrue'
         /\ account' \in [reserved: Int, settled: Int]
<1>1. row \in [Request -> RequestRow] /\ account \in [reserved: Int, settled: Int]
  BY DEF RequestInv, ScopeInv, JobInv, Typed
<1>2. row' \in [Request -> RequestRow]
  BY <1>1 DEF RequestMoves
<1>3. account' \in [reserved: Int, settled: Int]
  BY <1>1 DEF RequestMoves, RowMoves, Reserves, UsesUp, GivesBack, Spares
<1>4. ASSUME NEW r \in Request
      PROVE  /\ row'[r].linked <=> scope'[r].status # "NONE"
             /\ row'[r].linked => row'[r].state # "NONE"
             /\ row'[r].state = "NONE" => row'[r].reservation = "NONE"
             /\ row'[r].outcome = "NEW_VERSION" => scope'[r].status = "SEALED" /\ scope'[r].sealer = "request"
             /\ row'[r].state = "CANCELLED" => scope'[r].status \in {"NONE", "SEALED", "CANCELLED"}
  <2>1. Kept(r) /\ ScopeMoves(r)
    BY OwnScope DEF ScopeEffect
  <2>2. row'[r] = row[r] \/ RowMoves(r)
    BY DEF RequestMoves
  <2>3. /\ row[r].linked <=> scope[r].status # "NONE"
        /\ row[r].linked => row[r].state # "NONE"
    BY DEF RequestInv, Linked
  <2>4. row'[r].linked <=> scope'[r].status # "NONE"
    <3>1. CASE row'[r] = row[r]
      BY <2>1, <2>3, <3>1 DEF Kept, ScopeMoves
    <3>2. CASE RowMoves(r)
      <4>1. CASE row[r].linked
        BY <2>1, <2>3, <3>2, <4>1 DEF Kept, RowMoves
      <4>2. CASE ~row[r].linked
        BY <2>1, <2>3, <3>2, <4>2 DEF ScopeMoves, RowMoves
      <4> QED BY <4>1, <4>2
    <3> QED BY <2>2, <3>1, <3>2
  <2>5. row'[r].linked => row'[r].state # "NONE"
    BY <2>1, <2>2, <2>3, <2>4 DEF ScopeMoves, RowMoves
  <2>6. row'[r].state = "NONE" => row'[r].reservation = "NONE"
    BY <2>2 DEF RowMoves, RequestInv, Unborn
  <2>7. row'[r].outcome = "NEW_VERSION" => scope'[r].status = "SEALED" /\ scope'[r].sealer = "request"
    <3>1. row'[r].outcome = "NEW_VERSION" => row[r].outcome = "NEW_VERSION" \/ scope[r].status = "SEALED"
      BY <2>2 DEF RowMoves
    <3>2. row'[r].outcome = "NEW_VERSION" => scope[r].status = "SEALED" /\ scope[r].sealer = "request"
      BY <3>1 DEF RequestInv, ScopeInv, Sealers, OutcomeIsTrue
    <3> QED BY <2>1, <3>2 DEF Kept
  <2>8. row'[r].state = "CANCELLED" => scope'[r].status \in {"NONE", "SEALED", "CANCELLED"}
    <3>1. CASE row[r].state = "CANCELLED"
      <4>1. scope[r].status \in {"NONE", "SEALED", "CANCELLED"}
        BY <3>1 DEF RequestInv, OutcomeIsTrue
      <4> QED BY <2>1, <3>1, <4>1 DEF Kept, ScopeMoves
    <3>2. CASE row[r].state # "CANCELLED"
      BY <2>2, <3>2 DEF RowMoves
    <3> QED BY <3>1, <3>2
  <2> QED BY <2>4, <2>5, <2>6, <2>7, <2>8
<1> QED BY <1>2, <1>3, <1>4 DEF Linked, Unborn, OutcomeIsTrue

-----------------------------------------------------------------------------
(* The ledger                                                                *)

\* Only finitely many requests ever hold attempts, and the account counts them.
LedgerInv ==
  /\ IsFiniteSet(With("RESERVED"))
  /\ IsFiniteSet(With("SETTLED"))
  /\ LedgerKept

\* An attempt moves between the sets of requests as it moves in the account.
LEMMA LedgerInvKept ==
  ASSUME RequestInv, LedgerInv,
         UNCHANGED <<row, account>> \/ \E r \in Request : RequestMoves(r)
  PROVE  LedgerInv'
<1> DEFINE R == With("RESERVED")
           S == With("SETTLED")
<1>1. /\ IsFiniteSet(R) /\ Cardinality(R) \in Nat /\ account.reserved = Cardinality(R)
      /\ IsFiniteSet(S) /\ Cardinality(S) \in Nat /\ account.settled = Cardinality(S)
      /\ account.reserved + account.settled <= Budget
      /\ Budget \in Nat
  BY FS_CardinalityType, RequestAssumption DEF LedgerInv, LedgerKept
<1>2. row \in [Request -> RequestRow] /\ account \in [reserved: Int, settled: Int]
  BY DEF RequestInv, ScopeInv, JobInv, Typed
<1> DEFINE Good == /\ IsFiniteSet(R') /\ account'.reserved = Cardinality(R')
                   /\ IsFiniteSet(S') /\ account'.settled = Cardinality(S')
                   /\ account'.reserved + account'.settled <= Budget
<1>3. ASSUME NEW r \in Request, RequestMoves(r) PROVE Good
  <2>1. \A t \in Request : t # r => row'[t] = row[t]
    BY <1>3 DEF RequestMoves
  <2>2. CASE Reserves(r)
    <3>1. R' = R \cup {r} /\ S' = S /\ r \notin R
      BY <2>1, <2>2 DEF With, Reserves
    <3>2. IsFiniteSet(R') /\ Cardinality(R') = Cardinality(R) + 1
      BY <1>1, <3>1, FS_AddElement
    <3>3. account'.reserved = account.reserved + 1 /\ account'.settled = account.settled
      BY <1>2, <2>2 DEF Reserves
    <3>4. account.reserved + account.settled + 1 <= Budget
      BY <1>1, <1>2, <2>2 DEF Reserves, Exhausted
    <3> HIDE DEF R, S
    <3> QED BY <1>1, <3>1, <3>2, <3>3, <3>4
  <2>3. CASE UsesUp(r)
    <3>1. R' = R \ {r} /\ S' = S \cup {r} /\ r \in R /\ r \notin S
      BY <2>1, <2>3 DEF With, UsesUp
    <3>2. IsFiniteSet(R') /\ Cardinality(R') = Cardinality(R) - 1
      BY <1>1, <3>1, FS_RemoveElement
    <3>3. IsFiniteSet(S') /\ Cardinality(S') = Cardinality(S) + 1
      BY <1>1, <3>1, FS_AddElement
    <3>4. account'.reserved = account.reserved - 1 /\ account'.settled = account.settled + 1
      BY <2>3 DEF UsesUp
    <3> HIDE DEF R, S
    <3> QED BY <1>1, <3>2, <3>3, <3>4
  <2>4. CASE GivesBack(r)
    <3>1. R' = R \ {r} /\ S' = S /\ r \in R
      BY <2>1, <2>4 DEF With, GivesBack
    <3>2. IsFiniteSet(R') /\ Cardinality(R') = Cardinality(R) - 1
      BY <1>1, <3>1, FS_RemoveElement
    <3>3. account'.reserved = account.reserved - 1 /\ account'.settled = account.settled
      BY <1>2, <2>4 DEF GivesBack
    <3> HIDE DEF R, S
    <3> QED BY <1>1, <3>1, <3>2, <3>3
  <2>5. CASE Spares(r)
    <3>1. R' = R /\ S' = S
      BY <2>1, <2>5 DEF With, Spares
    <3> HIDE DEF R, S
    <3> QED BY <1>1, <2>5, <3>1 DEF Spares
  <2> QED BY <1>3, <2>2, <2>3, <2>4, <2>5 DEF RequestMoves, RowMoves
<1>4. ASSUME UNCHANGED <<row, account>> PROVE Good
  <2>1. R' = R /\ S' = S
    BY <1>4 DEF With
  <2>2. account' = account
    BY <1>4
  <2> HIDE DEF R, S
  <2> QED BY <1>1, <2>1, <2>2
<1> QED BY <1>3, <1>4 DEF LedgerInv, LedgerKept

-----------------------------------------------------------------------------
(* The theorems                                                              *)

Inv == RequestInv /\ LedgerInv

LEMMA InvInit == Init => Inv
<1> SUFFICES ASSUME Init PROVE Inv
  OBVIOUS
<1>1. NoScope \in ScopeRow /\ NoWork \in WorkRecord
  BY ScopeAssumption DEF NoScope, ScopeRow, Status, ItemStatus, NoWork, WorkRecord, Stage
<1>2. NoRequest \in RequestRow /\ NoExecution \in Execution
  BY ScopeAssumption DEF NoRequest, RequestRow, Outcome, Code, Plan, NoExecution, Execution
<1>3. Typed
  BY <1>1, <1>2 DEF Init, ScopeInit, Typed
<1>4. \A s \in Scope : scope[s].status = "NONE" /\ scope[s].sealer = "none"
  BY DEF Init, ScopeInit, NoScope
<1>5. \A p \in Process, s \in Scope : work[p][s].pc = "idle"
  BY DEF Init, ScopeInit, NoWork
<1>6. ScopeInv
  BY <1>3, <1>4, <1>5, OwnScope
     DEF ScopeInv, JobInv, JobsBehind, OneScopeExecutor, JobsPrepared, OwnJobs, ReadyIsComplete, Sealers, Working
<1>7. \A p \in Process, r \in Request : exec[p][r].pc = "idle" /\ exec[p][r].outcome = "NONE"
  BY DEF Init, NoExecution
<1>8. \A r \in Request : /\ row[r].state = "NONE" /\ row[r].outcome = "NONE"
                         /\ row[r].reservation = "NONE" /\ row[r].linked = FALSE
  BY DEF Init, NoRequest
<1>9. RequestInv
  BY <1>4, <1>6, <1>7, <1>8, OwnScope DEF RequestInv, Asked, Answers, Linked, Unborn, OutcomeIsTrue, Init
<1>10. With("RESERVED") = {} /\ With("SETTLED") = {}
  BY <1>8 DEF With
<1>11. LedgerInv
  BY <1>10, FS_EmptySet, RequestAssumption DEF LedgerInv, LedgerKept, Init
<1> QED BY <1>9, <1>11 DEF Inv

LEMMA InvNext == Inv /\ [Next]_vars => Inv'
<1> SUFFICES ASSUME Inv, [Next]_vars PROVE Inv'
  OBVIOUS
<1>1. CASE Next
  <2>1. ScopeEffect
    BY <1>1, NextScopeEffect DEF Inv, RequestInv
  <2>2. /\ UNCHANGED <<row, account>> \/ \E r \in Request : RequestMoves(r)
        /\ \A r \in Request : ScopeMoves(r)
    BY <1>1, NextRequests DEF Inv
  <2>3. exec' \in [Process -> [Request -> Execution]] /\ Asked' /\ Answers'
    BY <1>1, <2>1, NextExecutions DEF Inv, RequestInv
  <2>4. /\ row' \in [Request -> RequestRow]
        /\ Linked' /\ Unborn' /\ OutcomeIsTrue'
        /\ account' \in [reserved: Int, settled: Int]
    BY <2>1, <2>2, RequestInvKept DEF Inv
  <2>5. JobsBehind' /\ OneScopeExecutor' /\ JobsPrepared' /\ OwnJobs'
    BY <2>1, JobInvKept DEF Inv, RequestInv, ScopeInv
  <2>6. ReadyIsComplete' /\ Sealers'
    BY <2>1, <2>2, ScopeInvKept DEF Inv, RequestInv
  <2>7. consumer' \in BOOLEAN /\ late' \in BOOLEAN
    BY <1>1, NextSwitches DEF Inv, RequestInv, ScopeInv, JobInv
  <2>8. Typed'
    BY <2>1, <2>3, <2>4, <2>7 DEF Typed, ScopeEffect
  <2>9. LedgerInv'
    BY <2>2, LedgerInvKept DEF Inv
  <2>10. ScopeInv'
    BY <2>5, <2>6, <2>8 DEF ScopeInv, JobInv
  <2>11. RequestInv'
    BY <2>3, <2>4, <2>10 DEF RequestInv
  <2> QED BY <2>9, <2>11 DEF Inv
<1>2. CASE UNCHANGED vars
  BY <1>2 DEF vars, requestVars, Inv, RequestInv, ScopeInv, JobInv, Typed, JobsBehind, OneScopeExecutor,
              JobsPrepared, OwnJobs, ReadyIsComplete, Sealers, Asked, Answers, Linked, Unborn, OutcomeIsTrue,
              LedgerInv, LedgerKept, With
<1> QED BY <1>1, <1>2

LEMMA InvCorrect == Spec => []Inv
BY InvInit, InvNext, PTL DEF Spec

\* Rows, jobs, executions and the account keep their types: no generation goes
\* beyond its bound and the account never goes below nothing (#settle, #release).
THEOREM TypeCorrect == Spec => []TypeOK
<1>1. Inv => TypeOK
  <2> SUFFICES ASSUME Inv PROVE TypeOK
    OBVIOUS
  <2>1. Typed /\ account \in [reserved: Int, settled: Int]
    BY DEF Inv, RequestInv, ScopeInv, JobInv
  <2>2. /\ account.reserved = Cardinality(With("RESERVED")) /\ account.settled = Cardinality(With("SETTLED"))
        /\ account.reserved + account.settled <= Budget
    BY DEF Inv, LedgerInv, LedgerKept
  <2>3. Cardinality(With("RESERVED")) \in Nat /\ Cardinality(With("SETTLED")) \in Nat
    BY FS_CardinalityType DEF Inv, LedgerInv
  <2>4. account.reserved \in 0..Budget /\ account.settled \in 0..Budget
    BY <2>2, <2>3, RequestAssumption
  <2>5. account \in [reserved: 0..Budget, settled: 0..Budget]
    BY <2>1, <2>4
  <2> QED BY <2>1, <2>5 DEF TypeOK, Typed
<1> QED BY <1>1, InvCorrect, PTL

\* The account is the sum of the reservations and within the budget, whatever
\* is taken over, cancelled or caught (#reserve, #settle, #release).
THEOREM LedgerKeptCorrect == Spec => []LedgerKept
<1>1. Inv => LedgerKept
  BY DEF Inv, LedgerInv
<1> QED BY <1>1, InvCorrect, PTL

\* claimScope(): no two processes work on a scope under one generation.
THEOREM OneScopeExecutorCorrect == Spec => []OneScopeExecutor
<1>1. Inv => OneScopeExecutor
  BY DEF Inv, RequestInv, ScopeInv, JobInv
<1> QED BY <1>1, InvCorrect, PTL

\* readyToSeal(), publish(): what is offered is complete, what is sealed was
\* verified, by whichever generations.
THEOREM ReadyIsCompleteCorrect == Spec => []ReadyIsComplete
<1>1. Inv => ReadyIsComplete
  BY DEF Inv, RequestInv, ScopeInv
<1> QED BY <1>1, InvCorrect, PTL

\* What a request says of its scope is so (derive, publish, cancel).
THEOREM OutcomeIsTrueCorrect == Spec => []OutcomeIsTrue
<1>1. Inv => OutcomeIsTrue
  BY DEF Inv, RequestInv
<1> QED BY <1>1, InvCorrect, PTL

\* Sealed, cancelled and blocked scopes stay so, and finished items finished,
\* however late a job writes (recordScopeItems, blockAutomaticPublication).
THEOREM ScopeDecisionsStandCorrect == Spec => ScopeDecisionsStand
<1>1. Inv /\ [Next]_vars =>
        [\A s \in Scope :
           /\ scope[s].status = "SEALED" => scope'[s].status = "SEALED" /\ scope'[s].sealer = scope[s].sealer
           /\ scope[s].status = "CANCELLED" => scope'[s].status = "CANCELLED"
           /\ scope[s].status = "BLOCKED" => scope'[s].status \in {"BLOCKED", "CANCELLED"}
           /\ \A b \in Batch : scope[s].items[b] = "DONE" => scope'[s].items[b] = "DONE"]_vars
  BY NextScopeEffect DEF Inv, RequestInv, ScopeEffect, Kept
<1> QED BY <1>1, InvCorrect, PTL DEF Spec, ScopeDecisionsStand

\* A request that ended has its scope sealed by nobody (publish,
\* assertRequestOwnerActive).
THEOREM EndedPublishesNothingCorrect == Spec => EndedPublishesNothing
<1>1. Inv /\ [Next]_vars =>
        [\A r \in Request : Ended(r) /\ scope[r].status # "SEALED" => scope'[r].status # "SEALED"]_vars
  BY NextRequests DEF Inv, ScopeMoves, Ended
<1> QED BY <1>1, InvCorrect, PTL DEF Spec, EndedPublishesNothing
=============================================================================
