---------------------------- MODULE Investigation ----------------------------
(***************************************************************************)
(* One investigation of F003: its row, the model calls it pays for, the    *)
(* processes that execute it (src/business-knowledge/runtime.js, worker.js,*)
(* question-worker.js, investigation-service.js, and the model executor of *)
(* src/application/traceability-application.js).                           *)
(*                                                                         *)
(* A process runs one job of the investigation at a time; the job asks the *)
(* models for its tasks one after the other and commits a checkpoint for   *)
(* each.  A model call is a piece of code of its own: a job that is        *)
(* aborted ends at once, the call it waited for goes on in the background  *)
(* and records its outcome later.  Members pause, resume, cancel and adopt *)
(* a newer technical version at any time; processes die or shut down;      *)
(* leases and the deadline pass; a backup refuses every write.             *)
(*                                                                         *)
(* The events of the investigation are kept as what they say of each       *)
(* reservation, plus the generations of its RESUME events.  An event of    *)
(* generation r follows one recorded when the row was at generation g      *)
(* exactly when r > g.                                                     *)
(***************************************************************************)
EXTENDS Integers, FiniteSets

CONSTANTS
  Process, NoProcess,  \* server processes; no process
  Tasks,               \* number of model tasks of the work, in their order
  Question,            \* TRUE: a question about a graph, FALSE: an analysis
  MaxModelCalls,       \* budget.maxModelCalls
  MaxGeneration,       \* bound: generations a worker may claim
  MaxAdoption,         \* bound: technical versions adopted after the start
  Event                \* what may happen in this instance beside the work itself

Happening == {"crash", "close", "lapse", "deadline", "backup", "model", "admission",
              "PAUSE", "RESUME", "CANCEL", "ADOPT"}

ASSUME InvestigationAssumption ==
  /\ NoProcess \notin Process
  /\ Tasks \in Nat \ {0}
  /\ Question \in BOOLEAN
  /\ MaxModelCalls \in Nat \ {0}
  /\ MaxGeneration \in Nat \ {0}
  /\ MaxAdoption \in Nat
  /\ Event \subseteq Happening

VARIABLES
  row,         \* the row of f003_investigation
  modelCalls,  \* row.usage.modelCalls
  resumes,     \* generations of the INVESTIGATION_RESUME events
  calls,       \* calls[<<g, t>>]: the reservation of task t by generation g
  expired,     \* budget.deadline has passed
  barrier,     \* source_truth_workspace.backup_barrier: to come, up, over
  process,     \* the life of each server process
  jobs,        \* jobs[p]: InvestigationWorker.run of process p
  handlers     \* processes whose HTTP handler is about to call worker.stop

investigation == <<row, modelCalls, resumes, calls>>
surroundings == <<expired, barrier, process>>
vars == <<investigation, surroundings, jobs, handlers>>

-----------------------------------------------------------------------------
(* Vocabulary *)

Task == 1..Tasks
Generation == 1..MaxGeneration
Basis == 0..MaxAdoption   \* the adopted versions, by how many were adopted
Call == Generation \X Task

State == {"ABSENT", "QUEUED", "RUNNING", "PAUSED", "COMPLETED", "FAILED", "CANCELLED"}

\* lastFailure.code, as far as anything depends on it.
Code == {"NONE", "F003_DEADLINE_EXCEEDED", "F003_CALL_OUTCOME_UNKNOWN", "F003_QA_CALL_OUTCOME_UNKNOWN",
         "F003_CALL_RETRY_REQUIRES_RESUME", "F003_BUDGET_EXCEEDED", "OTHER"}

Row == [state: State, generation: Nat, adopted: Basis, worker: Process \cup {NoProcess},
        lease: BOOLEAN, failure: Code]

Known == {"FAILED", "ABORTED"}
Outcome == Known \cup {"OPEN", "SUCCEEDED", "DISCARDED"}

\* A reservation with the events about it, whether its checkpoint is committed,
\* and where the code that executes it is.
CallOf(reserved, started, outcome, at, basis, saved, client, by) ==
  [reserved |-> reserved, started |-> started, outcome |-> outcome, at |-> at,
   basis |-> basis, saved |-> saved, client |-> client, by |-> by]
CallRecord ==
  [reserved: BOOLEAN, started: BOOLEAN,
   outcome: Outcome, at: Nat,       \* of MODEL_CALL_FINISHED, and the row's generation then
   basis: Basis, saved: BOOLEAN,
   client: {"none", "reserved", "sent", "answered", "erred", "done"},
   by: Process \cup {NoProcess}]
NoCall == CallOf(FALSE, FALSE, "OPEN", 0, 0, FALSE, "none", NoProcess)

JobOf(pc, generation, basis, task, stop, code) ==
  [pc |-> pc, generation |-> generation, basis |-> basis, task |-> task, stop |-> stop, code |-> code]
JobRecord ==
  [pc: {"idle", "opening", "claiming", "stage", "call", "save", "completing", "catching", "ending"},
   generation: 0..MaxGeneration, basis: Basis, task: Task,
   stop: {"no", "stopped", "shutdown"},  \* why its signal is aborted
   code: Code \cup {"SHUTDOWN"}]         \* of the error run() caught
Idle == JobOf("idle", 0, 0, 1, "no", "NONE")

\* The controller of the job is registered, its heartbeat timer runs.
Working(p) == jobs[p].pc \in {"stage", "call", "save", "completing", "catching", "ending"}

\* #with(maintain) refuses during a backup.
Writable == barrier # "up"

\* #running(row, generation)
Running(g) == row.state = "RUNNING" /\ row.generation = g /\ row.lease /\ ~expired

\* Variant: the poll looks for queued work only.
ClaimableQueued == row.state = "QUEUED"

\* findRunnable() and the guard of claim()
Claimable == row.state = "QUEUED" \/ (row.state = "RUNNING" /\ ~row.lease)

MovesTo(state, generation, failure) ==
  row' = [row EXCEPT !.state = state, !.generation = generation, !.worker = NoProcess,
                     !.lease = FALSE, !.failure = failure]

\* expire() as part of a job; refused during a backup.
ExpireIfDue ==
  IF Writable /\ expired /\ row.state \in {"QUEUED", "RUNNING", "PAUSED"}
  THEN MovesTo("FAILED", row.generation + 1, "F003_DEADLINE_EXCEEDED")
  ELSE UNCHANGED row

\* Claims of later generations stay within the bound.
Room(n) == row.generation + n <= MaxGeneration

JobGoes(p, pc) == jobs' = [jobs EXCEPT ![p].pc = pc]
JobCatches(p, code) == jobs' = [jobs EXCEPT ![p] = [@ EXCEPT !.pc = "catching", !.code = code]]
JobEnds(p) == jobs' = [jobs EXCEPT ![p] = Idle]

CallOfJob(p) == <<jobs[p].generation, jobs[p].task>>

JobAsks(p, task) ==
  jobs' = [jobs EXCEPT ![p] = JobOf("stage", jobs[p].generation, jobs[p].basis, task, jobs[p].stop, jobs[p].code)]

\* Variant: the last task is missed by one.
NextTaskOffByOne(p) ==
  IF jobs[p].task > Tasks THEN JobGoes(p, "completing") ELSE JobAsks(p, jobs[p].task + 1)

\* The job goes on to its next task.
NextTask(p) ==
  IF jobs[p].task = Tasks THEN JobGoes(p, "completing") ELSE JobAsks(p, jobs[p].task + 1)

-----------------------------------------------------------------------------
Init ==
  /\ row = [state |-> "ABSENT", generation |-> 0, adopted |-> 0, worker |-> NoProcess,
            lease |-> FALSE, failure |-> "NONE"]
  /\ modelCalls = 0 /\ resumes = {}
  /\ calls = [c \in Call |-> NoCall]
  /\ expired = FALSE /\ barrier = "ahead"
  /\ process = [p \in Process |-> "up"]
  /\ jobs = [p \in Process |-> Idle]
  /\ handlers = {}

-----------------------------------------------------------------------------
(* Members *)

\* start(): a repeated request finds the row by its operation and returns it.
Start ==
  /\ row.state = "ABSENT" /\ Writable /\ ~expired
  /\ row' = [row EXCEPT !.state = "QUEUED"]
  /\ UNCHANGED <<modelCalls, resumes, calls, surroundings, jobs, handlers>>

\* The handlers of pause, cancel and adopt call worker.stop once the
\* transaction is over.
WillStop(p) == handlers' = handlers \cup {p}

ControlPause(p) ==
  /\ "PAUSE" \in Event /\ process[p] = "up" /\ Writable
  /\ row.state = "RUNNING"
  /\ MovesTo("PAUSED", row.generation + 1, row.failure)
  /\ WillStop(p)
  /\ UNCHANGED <<modelCalls, resumes, calls, surroundings, jobs>>

ControlCancel(p) ==
  /\ "CANCEL" \in Event /\ process[p] = "up" /\ Writable
  /\ row.state \in {"QUEUED", "RUNNING", "PAUSED", "FAILED"}
  /\ MovesTo("CANCELLED", row.generation + 1, row.failure)
  /\ WillStop(p)
  /\ UNCHANGED <<modelCalls, resumes, calls, surroundings, jobs>>

ControlResume ==
  /\ "RESUME" \in Event /\ Room(2) /\ Writable
  /\ row.state \in {"PAUSED", "FAILED"}
  /\ ~expired
  /\ MovesTo("QUEUED", row.generation + 1, row.failure)
  /\ resumes' = resumes \cup {row.generation + 1}
  /\ UNCHANGED <<modelCalls, calls, surroundings, jobs, handlers>>

AdoptTechnicalVersion(p) ==
  /\ "ADOPT" \in Event /\ Room(2) /\ process[p] = "up" /\ Writable
  /\ ~Question
  /\ row.state \in {"RUNNING", "PAUSED", "QUEUED"}
  /\ row.adopted < MaxAdoption
  /\ row' = [row EXCEPT !.state = "QUEUED", !.generation = @ + 1, !.worker = NoProcess,
                        !.lease = FALSE, !.adopted = @ + 1]
  /\ WillStop(p)
  /\ UNCHANGED <<modelCalls, resumes, calls, surroundings, jobs>>

\* worker.stop aborts the job the process has by now, whichever that is.
WorkerStop(p) ==
  /\ p \in handlers
  /\ handlers' = handlers \ {p}
  /\ jobs' = IF Working(p) /\ jobs[p].stop = "no" THEN [jobs EXCEPT ![p].stop = "stopped"] ELSE jobs
  /\ UNCHANGED <<investigation, surroundings>>

-----------------------------------------------------------------------------
(* The job of a process *)

\* The poll, or enqueue() of a handler: runs nothing while the process has a job.
Dispatch(p) ==
  /\ process[p] = "up" /\ jobs[p].pc = "idle"
  /\ Claimable
  /\ JobGoes(p, "opening")
  /\ UNCHANGED <<investigation, surroundings, handlers>>

\* run() before its try: an error here only ends the job.
OpenJob(p) ==
  /\ jobs[p].pc = "opening"
  /\ \/ /\ jobs[p].stop = "no" /\ Writable
        /\ ExpireIfDue
        /\ JobGoes(p, "claiming")
     \/ /\ jobs[p].stop # "no" \/ ~Writable
        /\ JobEnds(p)
        /\ UNCHANGED row
  /\ UNCHANGED <<modelCalls, resumes, calls, surroundings, handlers>>

Claim(p) ==
  /\ jobs[p].pc = "claiming" /\ jobs[p].stop = "no" /\ Writable
  /\ Claimable /\ ~expired /\ Room(1)
  /\ row' = [row EXCEPT !.state = "RUNNING", !.generation = @ + 1, !.worker = p, !.lease = TRUE]
  /\ jobs' = [jobs EXCEPT ![p] = JobOf("stage", row.generation + 1, row.adopted, 1, "no", "NONE")]
  /\ UNCHANGED <<modelCalls, resumes, calls, surroundings, handlers>>

ClaimRefused(p) ==
  /\ jobs[p].pc = "claiming"
  /\ \/ jobs[p].stop # "no" \/ ~Writable \/ ~Claimable \/ expired \/ ~Room(1)
     \/ "admission" \in Event
  /\ JobEnds(p)
  /\ UNCHANGED <<investigation, surroundings, handlers>>

\* The timer's heartbeat aborts the job when it is refused; else the lease,
\* which must be valid, stays so.
HeartbeatFails(p) ==
  /\ Working(p) /\ jobs[p].stop = "no"
  /\ ~(Writable /\ Running(jobs[p].generation))
  /\ jobs' = [jobs EXCEPT ![p].stop = "stopped"]
  /\ UNCHANGED <<investigation, surroundings, handlers>>

\* throwIfAborted(): at the start of a stage, when its work is done, and while
\* it waits for a model.
Aborts(p) ==
  /\ jobs[p].pc \in {"stage", "call", "save"} /\ jobs[p].stop # "no"
  /\ JobCatches(p, IF jobs[p].stop = "shutdown" THEN "SHUTDOWN" ELSE "OTHER")
  /\ UNCHANGED <<investigation, surroundings, handlers>>

\* Variant: the binding of a checkpoint leaves out the adopted versions.
CachedAnyBasis(t, basis) == \E g \in Generation : calls[<<g, t>>].saved

\* A checkpoint with the binding of this job, of any generation.
Cached(t, basis) == \E g \in Generation : calls[<<g, t>>].saved /\ calls[<<g, t>>].basis = basis

Reuse(p) ==
  /\ jobs[p].pc = "stage" /\ jobs[p].stop = "no"
  /\ Cached(jobs[p].task, jobs[p].basis)
  /\ \/ Writable /\ Running(jobs[p].generation) /\ NextTask(p)
     \/ ~(Writable /\ Running(jobs[p].generation)) /\ JobCatches(p, "OTHER")
  /\ UNCHANGED <<investigation, surroundings, handlers>>

\* The reservations of a task on the basis the row has now.
Relevant(t) == {g \in Generation : calls[<<g, t>>].reserved /\ calls[<<g, t>>].basis = row.adopted}

\* Variant: only the calls of the current generation count.
UnknownNow(t) == \E g \in Relevant(t) : g = row.generation /\ calls[<<g, t>>].started /\ calls[<<g, t>>].outcome = "OPEN"

\* STARTED, and nobody recorded how it ended.
Unknown(t) == \E g \in Relevant(t) : calls[<<g, t>>].started /\ calls[<<g, t>>].outcome = "OPEN"

\* Variant: a member's resume repeats whatever ended.
RetryableResumed(t, g) ==
  LET before == Relevant(t) \ {g} IN
    \A last \in before :
      (\A h \in before : h <= last) =>
        LET call == calls[<<last, t>>] IN
          call.outcome = "OPEN" \/ \E r \in resumes : call.at < r /\ last < r /\ r < g

\* Nothing happened since the last reservation that forbids another: it never
\* ended, or it failed and a member resumed the work afterwards.
Retryable(t, g) ==
  LET before == Relevant(t) \ {g} IN
    \A last \in before :
      (\A h \in before : h <= last) =>
        LET call == calls[<<last, t>>] IN
          \/ call.outcome = "OPEN"
          \/ call.outcome \in Known /\ \E r \in resumes : call.at < r /\ last < r /\ r < g

\* A question keeps one reservation per task, and sends it once.
Reservations(t) == {g \in Generation : calls[<<g, t>>].reserved}
\* Variant: a call whose failure was recorded may be sent again.
EverStartedOpen(t) == \E g \in Reservations(t) : calls[<<g, t>>].started /\ calls[<<g, t>>].outcome = "OPEN"
EverStarted(t) == \E g \in Reservations(t) : calls[<<g, t>>].started
\* Variant: every reservation of a question is charged.
ChargeAlways(t) == 1
Charge(t) == IF Question /\ Reservations(t) # {} THEN 0 ELSE 1

Refusal(t, g) ==
  IF Question /\ EverStarted(t) THEN "F003_QA_CALL_OUTCOME_UNKNOWN"
  ELSE IF ~Question /\ Unknown(t) THEN "F003_CALL_OUTCOME_UNKNOWN"
  ELSE IF ~Question /\ ~Retryable(t, g) THEN "F003_CALL_RETRY_REQUIRES_RESUME"
  ELSE IF Charge(t) = 1 /\ modelCalls >= MaxModelCalls THEN "F003_BUDGET_EXCEEDED"
  ELSE "NONE"

\* The stage asks its model: the call starts with its reservation.
ReserveModelCall(p) ==
  LET t == jobs[p].task  g == jobs[p].generation IN
  /\ jobs[p].pc = "stage" /\ jobs[p].stop = "no"
  /\ ~Cached(t, jobs[p].basis)
  /\ Writable /\ Running(g)
  /\ Refusal(t, g) = "NONE"
  /\ calls' = [calls EXCEPT ![<<g, t>>] = CallOf(TRUE, FALSE, "OPEN", 0, row.adopted, FALSE, "reserved", p)]
  /\ modelCalls' = modelCalls + Charge(t)
  /\ JobGoes(p, "call")
  /\ UNCHANGED <<row, resumes, surroundings, handlers>>

ReserveRefused(p) ==
  LET t == jobs[p].task  g == jobs[p].generation IN
  /\ jobs[p].pc = "stage" /\ jobs[p].stop = "no"
  /\ ~Cached(t, jobs[p].basis)
  /\ \/ ~(Writable /\ Running(g)) /\ JobCatches(p, "OTHER")
     \/ Writable /\ Running(g) /\ Refusal(t, g) # "NONE" /\ JobCatches(p, Refusal(t, g))
     \/ "admission" \in Event /\ JobCatches(p, "OTHER")
  /\ UNCHANGED <<investigation, surroundings, handlers>>

\* The result is there: checkpoint().
Checkpoint(p) ==
  LET c == CallOfJob(p) IN
  /\ jobs[p].pc = "save" /\ jobs[p].stop = "no"
  /\ \/ /\ Writable /\ Running(jobs[p].generation)
        /\ calls' = [calls EXCEPT ![c].saved = TRUE]
        /\ NextTask(p)
     \/ /\ ~(Writable /\ Running(jobs[p].generation))
        /\ JobCatches(p, "OTHER")
        /\ UNCHANGED calls
  /\ UNCHANGED <<row, modelCalls, resumes, surroundings, handlers>>

\* complete(), completeQuestion(): no abort is looked for on the way.
Complete(p) ==
  /\ jobs[p].pc = "completing"
  /\ \/ /\ Writable /\ Running(jobs[p].generation)
        /\ MovesTo("COMPLETED", row.generation, row.failure)
        /\ JobEnds(p)
     \/ /\ ~(Writable /\ Running(jobs[p].generation)) \/ "admission" \in Event
        /\ JobCatches(p, "OTHER")
        /\ UNCHANGED row
  /\ UNCHANGED <<modelCalls, resumes, calls, surroundings, handlers>>

CatchExpires(p) ==
  /\ jobs[p].pc = "catching"
  /\ ExpireIfDue
  /\ JobGoes(p, "ending")
  /\ UNCHANGED <<modelCalls, resumes, calls, surroundings, handlers>>

\* Variant: a late job settles the row it finds.
CatchSettlesLate(p) ==
  /\ jobs[p].pc = "ending"
  /\ IF Writable THEN MovesTo("FAILED", row.generation, jobs[p].code) ELSE UNCHANGED row
  /\ JobEnds(p)
  /\ UNCHANGED <<modelCalls, resumes, calls, surroundings, handlers>>

\* releaseForShutdown() or fail(): an error of theirs is swallowed.
CatchSettles(p) ==
  /\ jobs[p].pc = "ending"
  /\ LET held == Writable /\ Running(jobs[p].generation)
         released == held /\ jobs[p].code = "SHUTDOWN" /\ row.worker = p
         failed == held /\ jobs[p].code # "SHUTDOWN" IN
     \/ released /\ MovesTo("QUEUED", row.generation + 1, row.failure)
     \/ failed /\ MovesTo("FAILED", row.generation, jobs[p].code)
     \/ ~released /\ ~failed /\ UNCHANGED row
  /\ JobEnds(p)
  /\ UNCHANGED <<modelCalls, resumes, calls, surroundings, handlers>>

-----------------------------------------------------------------------------
(* A model call *)

\* The signal of a call is that of the job that waits for it.
Awaited(c) ==
  LET p == calls[c].by IN
  p # NoProcess /\ jobs[p].pc = "call" /\ CallOfJob(p) = c /\ jobs[p].stop = "no"

CallGoes(c, client) == calls' = [calls EXCEPT ![c].client = client]

Begin(c) ==
  /\ calls[c].client = "reserved"
  /\ \/ /\ Writable /\ Running(c[1])
        /\ calls' = [calls EXCEPT ![c] = [@ EXCEPT !.started = TRUE, !.client = "sent"]]
     \/ /\ ~(Writable /\ Running(c[1])) \/ Event \cap {"model", "admission"} # {}
        /\ CallGoes(c, "erred")
  /\ UNCHANGED <<row, modelCalls, resumes, surroundings, jobs, handlers>>

\* An aborted call ends with an error, whatever the model said.
Answer(c) ==
  /\ calls[c].client = "sent"
  /\ \/ Awaited(c) /\ CallGoes(c, "answered")
     \/ (~Awaited(c) \/ "model" \in Event) /\ CallGoes(c, "erred")
  /\ UNCHANGED <<row, modelCalls, resumes, surroundings, jobs, handlers>>

\* finishModelCall(): the outcome is the first one recorded.
Finished(c, outcome, client) ==
  LET call == calls[c] IN
  IF call.outcome = "OPEN"
  THEN calls' = [calls EXCEPT ![c] =
         CallOf(call.reserved, call.started, outcome, row.generation, call.basis, call.saved, client, call.by)]
  ELSE CallGoes(c, client)

\* The job goes on only if it still waits: its promise may be abandoned.
JobReturns(c, pc, code) ==
  jobs' = IF Awaited(c)
          THEN [jobs EXCEPT ![calls[c].by] = [@ EXCEPT !.pc = pc, !.code = code]]
          ELSE jobs

FinishSucceeded(c) ==
  /\ calls[c].client = "answered"
  /\ \/ /\ Writable /\ Awaited(c)
        /\ IF Running(c[1])
           THEN Finished(c, "SUCCEEDED", "done") /\ JobReturns(c, "save", "NONE")
           ELSE Finished(c, "DISCARDED", "done") /\ JobReturns(c, "catching", "OTHER")
     \/ /\ Writable /\ ~Awaited(c)   \* the abort came while the result was recorded
        /\ Finished(c, IF Running(c[1]) THEN "SUCCEEDED" ELSE "DISCARDED", "done")
        /\ UNCHANGED jobs
     \/ /\ ~Writable \/ ~Awaited(c)  \* refused, or thrown before the transaction
        /\ CallGoes(c, "erred")
        /\ UNCHANGED jobs
  /\ UNCHANGED <<row, modelCalls, resumes, surroundings, handlers>>

FinishFailed(c) ==
  /\ calls[c].client = "erred"
  /\ IF Writable THEN Finished(c, IF Awaited(c) THEN "FAILED" ELSE "ABORTED", "done")
     ELSE CallGoes(c, "done")
  /\ JobReturns(c, "catching", "OTHER")
  /\ UNCHANGED <<row, modelCalls, resumes, surroundings, handlers>>

-----------------------------------------------------------------------------
(* Time, backups, processes *)

\* A lease is renewed while its job lives, unless the process stalls.
LeaseExpires ==
  /\ row.state = "RUNNING" /\ row.lease
  /\ \/ "lapse" \in Event /\ Room(1)
     \/ ~\E p \in Process : Working(p) /\ jobs[p].generation = row.generation
  /\ row' = [row EXCEPT !.lease = FALSE]
  /\ UNCHANGED <<modelCalls, resumes, calls, surroundings, jobs, handlers>>

DeadlinePasses ==
  /\ "deadline" \in Event /\ ~expired
  /\ expired' = TRUE
  /\ UNCHANGED <<investigation, barrier, process, jobs, handlers>>

\* Bound: one backup.
RaiseBarrier ==
  /\ "backup" \in Event /\ barrier = "ahead"
  /\ barrier' = "up"
  /\ UNCHANGED <<investigation, expired, process, jobs, handlers>>

LowerBarrier ==
  /\ barrier = "up"
  /\ barrier' = "over"
  /\ UNCHANGED <<investigation, expired, process, jobs, handlers>>

\* The calls of a process that ends are executed no further.
Ends(p) ==
  /\ process' = [process EXCEPT ![p] = "down"]
  /\ calls' = [c \in Call |-> IF calls[c].by = p /\ calls[c].client # "none"
                              THEN [calls[c] EXCEPT !.client = "done"] ELSE calls[c]]
  /\ JobEnds(p)
  /\ handlers' = handlers \ {p}
  /\ UNCHANGED <<row, modelCalls, resumes, expired, barrier>>

Crash(p) ==
  /\ "crash" \in Event /\ process[p] # "down" /\ Room(1)
  /\ Ends(p)

\* close(): aborts the job for a shutdown and waits for it, not for the calls
\* it abandoned.
Close(p) ==
  /\ "close" \in Event /\ process[p] = "up" /\ Room(2)
  /\ process' = [process EXCEPT ![p] = "closing"]
  /\ jobs' = IF jobs[p].pc # "idle" /\ jobs[p].stop = "no"
             THEN [jobs EXCEPT ![p].stop = "shutdown"] ELSE jobs
  /\ UNCHANGED <<investigation, expired, barrier, handlers>>

Exit(p) ==
  /\ process[p] = "closing" /\ jobs[p].pc = "idle"
  /\ Ends(p)

Open(p) ==
  /\ process[p] = "down"
  /\ process' = [process EXCEPT ![p] = "up"]
  /\ UNCHANGED <<investigation, expired, barrier, jobs, handlers>>

-----------------------------------------------------------------------------
Members == \/ Start \/ ControlResume
           \/ \E p \in Process : ControlPause(p) \/ ControlCancel(p) \/ AdoptTechnicalVersion(p)

JobStep(p) == OpenJob(p) \/ Claim(p) \/ ClaimRefused(p) \/ Aborts(p) \/ Reuse(p)
              \/ ReserveModelCall(p) \/ ReserveRefused(p) \/ Checkpoint(p) \/ Complete(p)
              \/ CatchExpires(p) \/ CatchSettles(p)

CallStep(c) == Begin(c) \/ Answer(c) \/ FinishSucceeded(c) \/ FinishFailed(c)

Next ==
  \/ Members
  \/ \E p \in Process : Dispatch(p) \/ JobStep(p) \/ HeartbeatFails(p) \/ WorkerStop(p)
                        \/ Crash(p) \/ Close(p) \/ Exit(p) \/ Open(p)
  \/ \E c \in Call : CallStep(c)
  \/ LeaseExpires \/ DeadlinePasses \/ RaiseBarrier \/ LowerBarrier

Spec == Init /\ [][Next]_vars

-----------------------------------------------------------------------------
(* Properties *)

\* The row, the calls and the jobs keep the types of their columns and fields.
TypeOK ==
  /\ row \in Row
  /\ modelCalls \in Nat
  /\ resumes \in SUBSET Nat
  /\ calls \in [Call -> CallRecord]
  /\ expired \in BOOLEAN
  /\ barrier \in {"ahead", "up", "over"}
  /\ process \in [Process -> {"up", "closing", "down"}]
  /\ jobs \in [Process -> JobRecord]
  /\ handlers \in SUBSET Process

\* A task that was sent to a model is not sent again on the same basis unless
\* the earlier call is known to have failed and a member resumed the work in
\* between; a question's task is sent once (reserveModelCall: a takeover of the
\* lease, a restart or a resume "cannot silently resend").
NoReplay ==
  \A t \in Task : \A g, h \in Generation :
    LET first == calls[<<g, t>>]  second == calls[<<h, t>>] IN
    g < h /\ first.started /\ second.started /\ first.basis = second.basis =>
      /\ ~Question
      /\ first.outcome \in Known
      /\ \E r \in resumes : first.at < r /\ r < h

\* Every reservation of an analysis, every task of a question is charged to the
\* budget once, and the budget holds across generations, crashes and resumes.
BudgetKept ==
  LET charged == IF Question THEN {t \in Task : \E g \in Generation : calls[<<g, t>>].reserved}
                 ELSE {c \in Call : calls[c].reserved} IN
  modelCalls = Cardinality(charged) /\ modelCalls <= MaxModelCalls

\* The result of a completed investigation rests, task by task, on a call that
\* succeeded while its generation was current and on the versions adopted by
\* now: neither a late success nor a checkpoint of an earlier basis is used
\* (finishModelCall, the binding of run()).
ResultIsCurrent ==
  row.state = "COMPLETED" =>
    \A t \in Task : \E g \in Generation :
      LET call == calls[<<g, t>>] IN
      call.saved /\ call.basis = row.adopted /\ call.started /\ call.outcome = "SUCCEEDED"

\* The phase of task t on basis b, from the last call that was sent for it.
Sent(t, b) == {g \in Generation : calls[<<g, t>>].started /\ calls[<<g, t>>].basis = b}
LastSent(t, b) == CHOOSE g \in Sent(t, b) : \A h \in Sent(t, b) : h <= g
Asked(call) == \E r \in resumes : call.at < r
Phase(t, b) ==
  IF Sent(t, b) = {} THEN "idle"
  ELSE LET call == calls[<<LastSent(t, b), t>>] IN
       IF call.outcome = "OPEN" THEN "sent"
       ELSE IF call.outcome \notin Known THEN "settled"
       ELSE IF Asked(call) THEN "asked" ELSE "failed"

\* The reservations, the events and the retries of all generations implement
\* CallOnce: every call a worker sends is the first for its task and basis, or
\* one a member asked for after a failure.
Once == INSTANCE CallOnce WITH
  Piece <- Task \X Basis, phase <- [k \in Task \X Basis |-> Phase(k[1], k[2])]
KeepsCallOnce == Once!Spec

\* What a member decided stands against the worker that was running: a pause
\* ends by a member or by the deadline, a cancellation and a result are final
\* (control(), and fail(), complete(), releaseForShutdown() of a late job).
DecisionsStand ==
  [][/\ row.state \in {"CANCELLED", "COMPLETED"} => row' = row
     /\ row.state = "PAUSED" /\ row' # row =>
          \/ row'.state = "FAILED" /\ expired
          \/ row'.state = "CANCELLED"
          \/ row'.state = "QUEUED" /\ (row'.adopted # row.adopted \/ resumes' # resumes)]_vars

\* A host that shuts down is no failure of the work: with nothing else wrong,
\* the investigation it interrupted goes on when the host is back
\* (test/f003-shutdown.test.js:35, 78-98).
ShutdownIsNoFailure == row.state # "FAILED"

-----------------------------------------------------------------------------
(* Fairness: the poll of a live executor runs every few seconds, a process    *)
(* runs the code it started, is restarted when it ended, backups end, a       *)
(* lease nobody renews and the deadline pass with the clock.                  *)
Fairness ==
  /\ \A p \in Process : WF_vars(Dispatch(p)) /\ WF_vars(JobStep(p)) /\ WF_vars(Exit(p)) /\ WF_vars(Open(p))
  /\ \A c \in Call : WF_vars(CallStep(c))
  /\ WF_vars(LeaseExpires) /\ WF_vars(DeadlinePasses) /\ WF_vars(LowerBarrier)

FairSpec == Spec /\ Fairness

\* Once the processes stop dying, an investigation that waits for or has a worker
\* does not stay so for ever, whatever happened to it before: it completes,
\* fails, is paused or cancelled (findRunnable, expire, the leases).
NoInvestigationHangs ==
  <>[](\A p \in Process : process[p] = "up") =>
  (row.state \in {"QUEUED", "RUNNING"} ~> row.state \in {"COMPLETED", "FAILED", "PAUSED", "CANCELLED"})
=============================================================================
