------------------------------ MODULE SourceRun ------------------------------
(***************************************************************************)
(* The life of the source capture runs of one workspace: drafts, starts    *)
(* and retries, leases and generations, the worker processes that advance  *)
(* a run, cancellation, failure, revocation of members and restoration     *)
(* from a backup (src/source-truth/repository.js, capture-service.js,      *)
(* capture-runner.js, worker.js).                                          *)
(*                                                                         *)
(* Every database transaction of the code first locks the workspace row    *)
(* (withWorkspace, withLease, recordFailure) or is a single UPDATE of one  *)
(* run row (claimRun), so each is one action.  What happens between two    *)
(* transactions of a call is an interleaving of those actions.  One        *)
(* workspace is modelled: no statement reads two.                          *)
(***************************************************************************)
EXTENDS Integers, FiniteSets

CONSTANTS
  Actor,          \* the members of the workspace's tenant
  Worker,         \* identities of worker processes; a restarted one is new
  Run,            \* identities of runs, each inserted at most once
  NoWorker, NoActor, NoRun,
  Directory,      \* may an input have a directory, whose list and bytes the client owes?
  MaxGeneration,  \* bound: claims and fences of one run
  MaxRevision,    \* bound: saved drafts
  MaxOperation    \* bound: publication operations of one run

ASSUME BoundsAssumption ==
  /\ MaxGeneration \in Nat \ {0}
  /\ MaxRevision \in Nat \ {0}
  /\ MaxOperation \in Nat
  /\ Directory \subseteq BOOLEAN

ASSUME NamesAssumption ==
  /\ NoWorker \notin Worker
  /\ NoActor \notin Actor
  /\ NoRun \notin Run

VARIABLES
  run,            \* rows of source_truth_run
  draftRevision,  \* source_truth_workspace.draft_revision
  maintainers,    \* the members authorize(..., maintain = true) lets through
  backupBarrier, restoreReady,   \* source_truth_workspace, same names
  running,        \* worker processes alive
  spent,          \* worker processes that ended; their identity never returns
  asked,          \* asked[w]: runs with a context() call of a request of w past authorize()
  context,        \* context[w][r]: generation of the newest context w holds, 0 if none
  job             \* job[w][r]: execute() of r in the cycle of w

workspaceVars == <<draftRevision, maintainers, backupBarrier, restoreReady>>
processVars == <<running, spent, asked, context, job>>
vars == <<run, workspaceVars, processVars>>

-----------------------------------------------------------------------------
(* Vocabulary *)

Terminal == {"CANCELLED", "BLOCKED", "FAILED_RETRYABLE", "SUCCEEDED"}

\* The statuses a committed transaction leaves.  FINALIZING lives only inside
\* the commit transaction of seal(), and nothing in the code sets CANCELLING.
Status == Terminal \cup
  {"PREFLIGHTING", "ENUMERATING", "MANIFEST_FROZEN", "CAPTURING", "RECONCILING",
   "WAITING_FOR_CLIENT", "REVIEW_REQUIRED", "PREPARING_SEAL"}

\* What progress.waitingFor says of a run in WAITING_FOR_CLIENT.
Wait == {"NOTHING", "DIRECTORY_ENUMERATION", "DIRECTORY_BYTES", "RESTORE_RECONCILIATION"}

RunRecord ==
  [status: Status, generation: 0..MaxGeneration, workerId: Worker \cup {NoWorker},
   lease: BOOLEAN,              \* lease_until > clock_timestamp()
   actorId: Actor,
   operation: 0..MaxOperation,         \* its publication_operation_id, 0 if none
   publisherId: Actor \cup {NoActor},  \* actor_id of that operation
   draftRevision: 1..MaxRevision, retryOf: Run \cup {NoRun},
   waitingFor: Wait,
   directory: BOOLEAN,          \* the input has a directory the client must list and send
   review: BOOLEAN,             \* restoredPriorStatus is one of the review statuses
   enumerated: BOOLEAN,         \* every source has enumeration_closed
   received: BOOLEAN]           \* no entry without a disposition is left to the client

\* A run identity no row has yet.
Unborn == [status |-> "UNBORN", generation |-> 0, workerId |-> NoWorker, lease |-> FALSE,
           actorId |-> NoActor, operation |-> 0, publisherId |-> NoActor,
           draftRevision |-> 0, retryOf |-> NoRun, waitingFor |-> "NOTHING",
           directory |-> FALSE, review |-> FALSE, enumerated |-> FALSE, received |-> FALSE]

Idle == [phase |-> "idle", generation |-> 0, sealing |-> FALSE, operation |-> 0]
JobRecord ==
  [phase: {"idle", "picked", "asking", "held"},
   generation: 0..MaxGeneration,   \* the generation recordFailure() will be fenced by
   sealing: BOOLEAN,               \* the selected row was in PREPARING_SEAL
   operation: 0..MaxOperation]     \* with this publication operation

Active(r) == run[r].status \in Status \ Terminal

\* What SourceCaptureRunner.advance moves forward without a member.
Driven == {"PREFLIGHTING", "ENUMERATING", "MANIFEST_FROZEN", "CAPTURING", "RECONCILING"}

\* The client's part of a waiting run is done (the EXISTS clauses of cycle()).
Answered(r) ==
  \/ run[r].waitingFor = "DIRECTORY_ENUMERATION" /\ run[r].enumerated
  \/ run[r].waitingFor = "DIRECTORY_BYTES" /\ run[r].received

\* The statuses cycle() selects.
WorkerDriven(r) ==
  \/ run[r].status \in Driven \cup {"PREPARING_SEAL"}
  \/ run[r].status = "WAITING_FOR_CLIENT" /\ Answered(r)

\* The precondition of every write made under a context: withLease().
LeaseHeld(w, r) ==
  /\ w \in running
  /\ context[w][r] # 0
  /\ Active(r)
  /\ run[r].generation = context[w][r]
  /\ run[r].lease
  /\ run[r].actorId \in maintainers
  /\ restoreReady

Move(r, status) == run' = [run EXCEPT ![r].status = status]

-----------------------------------------------------------------------------
Init ==
  /\ run = [r \in Run |-> Unborn]
  /\ draftRevision = 0
  /\ maintainers \in SUBSET Actor
  /\ backupBarrier = FALSE
  /\ restoreReady = TRUE
  /\ running = {}
  /\ spent = {}
  /\ asked = [w \in Worker |-> {}]
  /\ context = [w \in Worker |-> [r \in Run |-> 0]]
  /\ job = [w \in Worker |-> [r \in Run |-> Idle]]

-----------------------------------------------------------------------------
(* Members *)

\* A grant is given or revoked; a project whose deletion is requested
\* authorizes nobody, which is the same change for every member.
SetMaintainer(a) ==
  /\ maintainers' = IF a \in maintainers THEN maintainers \ {a} ELSE maintainers \cup {a}
  /\ UNCHANGED <<run, draftRevision, backupBarrier, restoreReady, processVars>>

\* Mutant: only the runs the workers drive count as active.
NoDrivenRun == \A r \in Run : run[r].status \notin Driven

\* activeRun() finds nothing.
NoActiveRun == \A r \in Run : ~Active(r)

\* Mutant: a run may start on the draft nobody saved.
AnyDraft == TRUE

DraftSaved == draftRevision > 0

\* Mutant: a draft saved while a run is active.
SaveDraftUnderRun(a) ==
  /\ a \in maintainers
  /\ draftRevision < MaxRevision
  /\ draftRevision' = draftRevision + 1
  /\ UNCHANGED <<run, maintainers, backupBarrier, restoreReady, processVars>>

SaveDraft(a) ==
  /\ a \in maintainers
  /\ NoActiveRun
  /\ draftRevision < MaxRevision
  /\ draftRevision' = draftRevision + 1
  /\ UNCHANGED <<run, maintainers, backupBarrier, restoreReady, processVars>>

\* The row startRun() inserts: without lease or executor, generation 0.
NewRun(a, revision, prior, directory) ==
  [status |-> "PREFLIGHTING", generation |-> 0, workerId |-> NoWorker, lease |-> FALSE,
   actorId |-> a, operation |-> 0, publisherId |-> NoActor,
   draftRevision |-> revision, retryOf |-> prior,
   waitingFor |-> "NOTHING", directory |-> directory,
   review |-> FALSE, enumerated |-> ~directory, received |-> ~directory]

\* startRun() without retryOf.  With an active run it returns that run.
StartRun(a, r, directory) ==
  /\ a \in maintainers
  /\ NoActiveRun
  /\ run[r].status = "UNBORN"
  /\ DraftSaved
  /\ run' = [run EXCEPT ![r] = NewRun(a, draftRevision, NoRun, directory)]
  /\ UNCHANGED <<workspaceVars, processVars>>

\* startRun() with retryOf: the input and the draft revision of the prior run,
\* whatever draft is current.  The new run enumerates again.
RetryRun(a, r, prior) ==
  /\ a \in maintainers
  /\ NoActiveRun
  /\ run[r].status = "UNBORN"
  /\ run[prior].status = "FAILED_RETRYABLE"
  /\ run' = [run EXCEPT ![r] =
       NewRun(a, run[prior].draftRevision, prior, run[prior].directory)]
  /\ UNCHANGED <<workspaceVars, processVars>>

\* Any maintaining member cancels; a terminal run is returned as it is.
Cancel(a, r) ==
  /\ a \in maintainers
  /\ Active(r)
  /\ run[r].generation < MaxGeneration
  /\ run' = [run EXCEPT ![r].status = "CANCELLED", ![r].generation = @ + 1, ![r].lease = FALSE]
  /\ UNCHANGED <<workspaceVars, processVars>>

-----------------------------------------------------------------------------
(* Leases: SourceCaptureService.context() is three transactions.  Its caller *)
(* is the job that executes the run in the worker's cycle, or an HTTP        *)
(* request of a member handled by the same process.                          *)

Caller == {"job", "request"}

Asking(w, r, caller) ==
  /\ w \in running
  /\ IF caller = "job" THEN job[w][r].phase = "asking" ELSE r \in asked[w]

\* authorize() and getRun(): a maintaining member asks for a run not over.
RequestContext(w, a, r) ==
  /\ w \in running
  /\ a \in maintainers
  /\ Active(r)
  /\ asked' = [asked EXCEPT ![w] = @ \cup {r}]
  /\ UNCHANGED <<run, workspaceVars, running, spent, context, job>>

\* The member a job acts for: the publisher recorded in the operation when it
\* seals, else the run's starter.
Principal(w, r) == IF job[w][r].sealing THEN run[r].publisherId ELSE run[r].actorId

JobContext(w, r) ==
  /\ w \in running
  /\ job[w][r].phase = "picked"
  /\ Principal(w, r) \in maintainers
  /\ Active(r)
  /\ job' = [job EXCEPT ![w][r].phase = "asking"]
  /\ UNCHANGED <<run, workspaceVars, running, spent, asked, context>>

Handed(w, r, caller, generation) ==
  /\ context' = [context EXCEPT ![w][r] = generation]
  /\ IF caller = "job"
       THEN /\ job' = [job EXCEPT ![w][r].phase = "held", ![w][r].generation = generation]
            /\ UNCHANGED asked
       ELSE /\ asked' = [asked EXCEPT ![w] = @ \ {r}]
            /\ UNCHANGED job

\* heartbeat() of a lease this process already holds.
ContextHeartbeat(w, r, caller) ==
  /\ Asking(w, r, caller)
  /\ Active(r)
  /\ run[r].workerId = w
  /\ run[r].lease
  /\ run[r].actorId \in maintainers
  /\ restoreReady
  /\ Handed(w, r, caller, run[r].generation)
  /\ UNCHANGED <<run, workspaceVars, running, spent>>

\* Mutant: the lease changes hands within a generation.
ClaimedAgain(r, w) == [run[r] EXCEPT !.workerId = w, !.lease = TRUE]

Claimed(r, w) == [run[r] EXCEPT !.generation = @ + 1, !.workerId = w, !.lease = TRUE]

\* claimRun(): it authorizes nobody; the lease must be free.
ClaimRun(w, r, caller) ==
  /\ Asking(w, r, caller)
  /\ Active(r)
  /\ ~run[r].lease
  /\ run[r].generation < MaxGeneration
  /\ run' = [run EXCEPT ![r] = Claimed(r, w)]
  /\ Handed(w, r, caller, run'[r].generation)
  /\ UNCHANGED <<workspaceVars, running, spent>>

\* SOURCE_LEASE_BUSY: the lease is another's or the run is over.  A job ends
\* silently, a request fails.
ContextBusy(w, r, caller) ==
  /\ Asking(w, r, caller)
  /\ ~Active(r) \/ (run[r].lease /\ run[r].workerId # w)
  /\ IF caller = "job"
       THEN job' = [job EXCEPT ![w][r] = Idle] /\ UNCHANGED asked
       ELSE asked' = [asked EXCEPT ![w] = @ \ {r}] /\ UNCHANGED job
  /\ UNCHANGED <<run, workspaceVars, running, spent, context>>

\* The heartbeat is refused (SOURCE_FORBIDDEN for the starter, or the restored
\* database is not verified yet) and the request fails.
RequestRefused(w, r) ==
  /\ Asking(w, r, "request")
  /\ Active(r)
  /\ run[r].workerId = w
  /\ run[r].lease
  /\ run[r].actorId \notin maintainers \/ ~restoreReady
  /\ asked' = [asked EXCEPT ![w] = @ \ {r}]
  /\ UNCHANGED <<run, workspaceVars, running, spent, context, job>>

\* Time passes without a heartbeat.
LeaseExpires(r) ==
  /\ run[r].lease
  /\ run' = [run EXCEPT ![r].lease = FALSE]
  /\ UNCHANGED <<workspaceVars, processVars>>

-----------------------------------------------------------------------------
(* Capture: SourceCaptureRunner.advance() under a context *)

\* transition() of the runner; enumerate() and capture() stop at the client
\* when it still owes a list of entries or bytes.
NextStatus(r) ==
  CASE run[r].status = "PREFLIGHTING" -> "ENUMERATING"
    [] run[r].status = "ENUMERATING" -> IF run[r].enumerated THEN "MANIFEST_FROZEN" ELSE "WAITING_FOR_CLIENT"
    [] run[r].status = "MANIFEST_FROZEN" -> "CAPTURING"
    [] run[r].status = "CAPTURING" -> IF run[r].received THEN "RECONCILING" ELSE "WAITING_FOR_CLIENT"
    [] run[r].status = "RECONCILING" -> "REVIEW_REQUIRED"
    [] run[r].status = "WAITING_FOR_CLIENT" ->
         IF run[r].waitingFor = "DIRECTORY_ENUMERATION" THEN "ENUMERATING" ELSE "CAPTURING"
    [] OTHER -> run[r].status

NextWait(r) ==
  CASE run[r].status = "ENUMERATING" /\ ~run[r].enumerated -> "DIRECTORY_ENUMERATION"
    [] run[r].status = "CAPTURING" /\ ~run[r].received -> "DIRECTORY_BYTES"
    [] run[r].status \in {"PREFLIGHTING", "ENUMERATING"} -> "NOTHING"
    [] OTHER -> run[r].waitingFor   \* the progress record is carried over

\* Mutant: a restored run is advanced like any other.
AdvanceableAny(r) == run[r].status \in Driven \cup {"WAITING_FOR_CLIENT"}

\* advance() leaves a run alone that waits for an explicit reconciliation.
Advanceable(r) ==
  \/ run[r].status \in Driven
  \/ run[r].status = "WAITING_FOR_CLIENT" /\ run[r].waitingFor # "RESTORE_RECONCILIATION"

Advance(w, r) ==
  /\ LeaseHeld(w, r)
  /\ Advanceable(r)
  /\ run' = [run EXCEPT ![r].status = NextStatus(r), ![r].waitingFor = NextWait(r)]
  /\ UNCHANGED <<workspaceVars, processVars>>

\* The catch of advance(): the latest status becomes FAILED_RETRYABLE or
\* BLOCKED through transition(); the lease and the generation stay.
AdvanceFails(w, r, status) ==
  /\ status \in {"FAILED_RETRYABLE", "BLOCKED"}
  /\ LeaseHeld(w, r)
  /\ Advanceable(r)
  /\ Move(r, status)
  /\ UNCHANGED <<workspaceVars, processVars>>

\* closeDirectory(): the browser's list is complete.
CloseDirectory(w, r) ==
  /\ LeaseHeld(w, r)
  /\ \/ run[r].status = "ENUMERATING"
     \/ run[r].status = "WAITING_FOR_CLIENT" /\ run[r].waitingFor = "DIRECTORY_ENUMERATION"
  /\ run' = [run EXCEPT ![r].enumerated = TRUE]
  /\ UNCHANGED <<workspaceVars, processVars>>

\* uploadFile(), finishFile(): the last entry of the client is disposed.
ReceiveBytes(w, r) ==
  /\ LeaseHeld(w, r)
  /\ \/ run[r].status = "CAPTURING"
     \/ run[r].status = "WAITING_FOR_CLIENT" /\ run[r].waitingFor = "DIRECTORY_BYTES"
  /\ run' = [run EXCEPT ![r].received = TRUE]
  /\ UNCHANGED <<workspaceVars, processVars>>

\* reconcileRestore(): a member asks a restored run to go on.
ReconcileRestore(w, a, r) ==
  /\ a \in maintainers
  /\ LeaseHeld(w, r)
  /\ run[r].status = "WAITING_FOR_CLIENT"
  /\ run[r].waitingFor = "RESTORE_RECONCILIATION"
  /\ run' = [run EXCEPT ![r].status = IF run[r].review THEN "REVIEW_REQUIRED" ELSE "PREFLIGHTING",
                        ![r].waitingFor = "NOTHING"]
  /\ UNCHANGED <<workspaceVars, processVars>>

-----------------------------------------------------------------------------
(* Review and freeze, as far as the run's row sees them; the confirmations, *)
(* operations and receipts behind them are module SourcePublication         *)

\* confirmCandidate(): needs no lease, only the workspace lock.
Confirm(a, r) ==
  /\ a \in maintainers
  /\ run[r].status \in {"REVIEW_REQUIRED", "PREPARING_SEAL"}
  /\ Move(r, "REVIEW_REQUIRED")
  /\ UNCHANGED <<workspaceVars, processVars>>

\* The latest confirmation has the run's operation, of whoever asked first, or
\* gets a new one.
Begun(row, a) ==
  (IF row.operation = 0 THEN {} ELSE {[row EXCEPT !.status = "PREPARING_SEAL"]})
    \cup (IF row.operation = MaxOperation THEN {} ELSE
      {[row EXCEPT !.status = "PREPARING_SEAL", !.operation = @ + 1, !.publisherId = a]})

\* begin(): a member asks to freeze what was confirmed.
BeginSeal(w, a, r) ==
  /\ w \in running
  /\ a \in maintainers
  /\ run[r].status \in {"REVIEW_REQUIRED", "PREPARING_SEAL"}
  /\ context[w][r] # 0 /\ run[r].generation = context[w][r]
  /\ run[r].lease
  /\ \E row \in Begun(run[r], a) : run' = [run EXCEPT ![r] = row]
  /\ UNCHANGED <<workspaceVars, processVars>>

\* The commit transaction of seal(): FINALIZING, the records, SUCCEEDED.
CommitSeal(w, a, r) ==
  /\ w \in running
  /\ a \in maintainers
  /\ ~backupBarrier /\ restoreReady
  /\ run[r].status = "PREPARING_SEAL"
  /\ context[w][r] # 0 /\ run[r].generation = context[w][r]
  /\ run[r].lease
  /\ run[r].actorId \in maintainers
  /\ run' = [run EXCEPT ![r].status = "SUCCEEDED", ![r].lease = FALSE]
  /\ UNCHANGED <<workspaceVars, processVars>>

-----------------------------------------------------------------------------
(* The worker's cycle: SourceTruthWorker.cycle() and execute() *)

\* cycle() selects a row it may execute: its own, or one with a free lease.
Pick(w, r) ==
  /\ w \in running
  /\ job[w][r].phase = "idle"
  /\ ~backupBarrier /\ restoreReady
  /\ Active(r)
  /\ run[r].workerId = w \/ ~run[r].lease
  /\ WorkerDriven(r)
  /\ job' = [job EXCEPT ![w][r] =
       [phase |-> "picked", generation |-> run[r].generation,
        sealing |-> run[r].status = "PREPARING_SEAL", operation |-> run[r].operation]]
  /\ UNCHANGED <<run, workspaceVars, running, spent, asked, context>>

\* Mutant: a late failure is recorded on a run that ended.
FailureAcceptedLate(w, r) ==
  /\ run[r].generation = job[w][r].generation
  /\ job[w][r].sealing => run[r].operation = job[w][r].operation
  /\ run[r].workerId = w \/ ~run[r].lease

\* Mutant: a failure is recorded like any transition, for an authorized starter.
FailureAcceptedForMember(w, r) ==
  /\ Active(r)
  /\ run[r].actorId \in maintainers
  /\ run[r].generation = job[w][r].generation
  /\ job[w][r].sealing => run[r].operation = job[w][r].operation
  /\ run[r].workerId = w \/ ~run[r].lease

\* The conditions under which recordFailure() of a job may write.  It
\* authorizes nobody: a revoked starter must not leave the run hanging.
FailureAccepted(w, r) ==
  /\ Active(r)
  /\ run[r].generation = job[w][r].generation
  /\ job[w][r].sealing => run[r].operation = job[w][r].operation
  /\ run[r].workerId = w \/ ~run[r].lease

\* recordFailure(): unknown and transient errors, definite errors, and, for
\* a seal, an expired acceptance, which sends the run back to the review.
RecordFailure(w, r, status) ==
  /\ job[w][r].phase # "idle"
  /\ FailureAccepted(w, r)
  /\ run[r].generation < MaxGeneration
  /\ \/ status \in {"FAILED_RETRYABLE", "BLOCKED"}
     \/ status = "REVIEW_REQUIRED" /\ job[w][r].sealing
  /\ run' = [run EXCEPT ![r].status = status, ![r].generation = @ + 1, ![r].lease = FALSE]
  /\ job' = [job EXCEPT ![w][r] = Idle]
  /\ UNCHANGED <<workspaceVars, running, spent, asked, context>>

\* The error of a job whose member may no longer maintain the workspace is a
\* definite one (SOURCE_FORBIDDEN): before a context, of its principal; in a
\* heartbeat or any write under the context, of the run's starter.
Refused(w, r) ==
  \/ job[w][r].phase = "picked" /\ Principal(w, r) \notin maintainers
  \/ job[w][r].phase = "asking" /\ run[r].workerId = w /\ run[r].lease
       /\ run[r].actorId \notin maintainers
  \/ job[w][r].phase = "held" /\ run[r].generation = context[w][r] /\ run[r].lease
       /\ (run[r].actorId \notin maintainers \/ Principal(w, r) \notin maintainers)

\* A job that ends and writes nothing: advance() came to rest; the lease was
\* lost (SOURCE_STALE_WORKER) or a publication pause met; or it failed and
\* recordFailure() found the run fenced.  (A job whose client answers as it
\* comes to rest goes on here; the code ends it and selects the run again.)
JobEnds(w, r) ==
  /\ w \in running
  /\ job[w][r].phase # "idle"
  /\ \/ ~FailureAccepted(w, r)
     \/ /\ job[w][r].phase = "held"
        /\ \/ ~run[r].lease
           \/ ~job[w][r].sealing /\ (~WorkerDriven(r) \/ run[r].status = "PREPARING_SEAL")
           \/ job[w][r].sealing /\ (run[r].status # "PREPARING_SEAL" \/ backupBarrier \/ ~restoreReady)
  /\ job' = [job EXCEPT ![w][r] = Idle]
  /\ UNCHANGED <<run, workspaceVars, running, spent, asked, context>>

-----------------------------------------------------------------------------
(* Processes *)

StartProcess(w) ==
  /\ w \notin running \cup spent
  /\ running' = running \cup {w}
  /\ UNCHANGED <<run, workspaceVars, spent, asked, context, job>>

Gone(ended) ==
  /\ running' = running \ ended
  /\ spent' = spent \cup ended
  /\ asked' = [w \in Worker |-> IF w \in ended THEN {} ELSE asked[w]]
  /\ context' = [w \in Worker |-> IF w \in ended THEN [r \in Run |-> 0] ELSE context[w]]
  /\ job' = [w \in Worker |-> IF w \in ended THEN [r \in Run |-> Idle] ELSE job[w]]

\* The process dies; its leases stay until they expire.  A process that takes
\* over is left (the set Worker bounds the number of processes ever started).
Crash(w) ==
  /\ w \in running
  /\ Worker \ (spent \cup {w}) # {}
  /\ Gone({w})
  /\ UNCHANGED <<run, workspaceVars>>

\* stop(): the jobs are aborted, then the leases of live runs are given up,
\* without a new generation.
Stop(w) ==
  /\ w \in running
  /\ Worker \ (spent \cup {w}) # {}
  /\ run' = [r \in Run |-> IF run[r].workerId = w /\ Active(r)
                             THEN [run[r] EXCEPT !.lease = FALSE] ELSE run[r]]
  /\ Gone({w})
  /\ UNCHANGED workspaceVars

-----------------------------------------------------------------------------
(* Maintenance *)

\* setBarrier() around a backup, or recoverAbandoned() after one that died.
SetBarrier ==
  /\ restoreReady
  /\ backupBarrier' = ~backupBarrier
  /\ UNCHANGED <<run, draftRevision, maintainers, restoreReady, processVars>>

\* What the fence makes of a live run's row.
Fenced(row) ==
  [row EXCEPT !.generation = @ + 1, !.lease = FALSE, !.workerId = NoWorker,
              !.review = row.status \in {"REVIEW_REQUIRED", "PREPARING_SEAL"},
              !.status = "WAITING_FOR_CLIENT", !.waitingFor = "RESTORE_RECONCILIATION"]

\* The fence restore() appends to the imported dump: every live run loses its
\* executor and waits for a member.  The database is a new one, so no process
\* of the old one reaches it.
RestoreFence ==
  /\ restoreReady
  /\ \A r \in Run : Active(r) => run[r].generation < MaxGeneration
  /\ Worker \ (spent \cup running) # {}
  /\ run' = [r \in Run |-> IF Active(r) THEN Fenced(run[r]) ELSE run[r]]
  /\ restoreReady' = FALSE
  /\ backupBarrier' = TRUE
  /\ Gone(running)
  /\ UNCHANGED <<draftRevision, maintainers>>

\* The end of restore(): the restored evidence is verified.
RestoreOpen ==
  /\ ~restoreReady
  /\ restoreReady' = TRUE
  /\ backupBarrier' = FALSE
  /\ UNCHANGED <<run, draftRevision, maintainers, processVars>>

-----------------------------------------------------------------------------
\* What a process does next for its job on r.
JobNext(w, r) ==
  \/ JobContext(w, r)
  \/ ContextHeartbeat(w, r, "job") \/ ClaimRun(w, r, "job") \/ ContextBusy(w, r, "job")
  \/ job[w][r].phase = "held" /\ ~job[w][r].sealing /\ Advance(w, r)
  \/ /\ job[w][r].phase = "held" /\ job[w][r].sealing
     /\ job[w][r].operation = run[r].operation
     /\ CommitSeal(w, run[r].publisherId, r)
  \/ Refused(w, r) /\ RecordFailure(w, r, "BLOCKED")
  \/ JobEnds(w, r)

Member(a) ==
  \/ SetMaintainer(a)
  \/ SaveDraft(a)
  \/ \E r \in Run :
       \/ \E directory \in Directory : StartRun(a, r, directory)
       \/ \E prior \in Run : RetryRun(a, r, prior)
       \/ Cancel(a, r)
       \/ Confirm(a, r)

Request(w, r) ==
  \/ \E a \in Actor :
       \/ RequestContext(w, a, r)
       \/ ReconcileRestore(w, a, r)
       \/ BeginSeal(w, a, r)
       \/ CommitSeal(w, a, r)
  \/ ContextHeartbeat(w, r, "request") \/ ClaimRun(w, r, "request")
  \/ ContextBusy(w, r, "request") \/ RequestRefused(w, r)
  \/ Advance(w, r)
  \/ \E status \in {"FAILED_RETRYABLE", "BLOCKED"} : AdvanceFails(w, r, status)
  \/ CloseDirectory(w, r) \/ ReceiveBytes(w, r)

Process(w) ==
  \/ StartProcess(w) \/ Crash(w) \/ Stop(w)
  \/ \E r \in Run :
       \/ Pick(w, r) \/ JobNext(w, r) \/ Request(w, r)
       \/ \E status \in {"FAILED_RETRYABLE", "BLOCKED", "REVIEW_REQUIRED"} : RecordFailure(w, r, status)

Maintenance == SetBarrier \/ RestoreFence \/ RestoreOpen

Next ==
  \/ \E a \in Actor : Member(a)
  \/ \E w \in Worker : Process(w)
  \/ \E r \in Run : LeaseExpires(r)
  \/ Maintenance

Spec == Init /\ [][Next]_vars

(* Fairness.  dispatch() runs every pollMs and a cycle awaits every job it   *)
(* started, so a process goes on with its jobs; a process that ended is      *)
(* started again; a lease nobody can renew runs out; a backup or a restore   *)
(* ends.  Nothing is assumed of members, of requests, or of a live process   *)
(* keeping its lease.                                                        *)
Fairness ==
  /\ \A w \in Worker :
       /\ WF_vars(StartProcess(w))
       /\ \A r \in Run : WF_vars(Pick(w, r)) /\ WF_vars(JobNext(w, r))
  /\ \A r \in Run : WF_vars(run[r].workerId \notin running /\ LeaseExpires(r))
  /\ WF_vars(RestoreOpen)

FairSpec == Spec /\ Fairness

-----------------------------------------------------------------------------
(* Properties *)

\* Every variable has its type: the columns the schema's CHECKs admit, of a
\* row that startRun() inserted with a saved draft.
TypeOK ==
  /\ run \in [Run -> RunRecord \cup {Unborn}]
  /\ draftRevision \in 0..MaxRevision
  /\ maintainers \subseteq Actor
  /\ backupBarrier \in BOOLEAN /\ restoreReady \in BOOLEAN
  /\ running \subseteq Worker /\ spent \subseteq Worker
  /\ asked \in [Worker -> SUBSET Run]
  /\ context \in [Worker -> [Run -> 0..MaxGeneration]]
  /\ job \in [Worker -> [Run -> JobRecord]]

\* startRun(): one active run per workspace, whatever starts, retries,
\* failures and restores came before (INV "single active run").
OneActiveRun == \A r, s \in Run : Active(r) /\ Active(s) => r = s

\* claimRun() and withLease(): a generation is handed to one process only, and
\* while the lease is valid the current one belongs to the process the row
\* names; so of two processes at most one can write (INV-05, INV-10 fencing).
OneExecutor ==
  \A w \in Worker, r \in Run : context[w][r] # 0 =>
    /\ \A v \in Worker : context[v][r] = context[w][r] => v = w
    /\ context[w][r] = run[r].generation /\ run[r].lease => run[r].workerId = w

\* saveDraft() and startRun(): a run works on the draft the workspace shows,
\* or, retried, on the draft of the retryable failure it replaces.
RunFollowsDraft ==
  \A r \in Run : Active(r) =>
    IF run[r].retryOf = NoRun THEN run[r].draftRevision = draftRevision
    ELSE /\ run[run[r].retryOf].status = "FAILED_RETRYABLE"
         /\ run[r].draftRevision = run[run[r].retryOf].draftRevision

\* cancel(), recordFailure(), transition(): no step of any executor, fresh or
\* stale, moves a run that ended (a GET or a late worker never revives it).
EndedRunsStay ==
  [][\A r \in Run : run[r].status \in Terminal =>
       run'[r].status = run[r].status /\ run'[r].generation = run[r].generation]_vars

AwaitsReconciliation(r) ==
  run[r].status = "WAITING_FOR_CLIENT" /\ run[r].waitingFor = "RESTORE_RECONCILIATION"

\* advance(), cycle(), reconcileRestore(): a restored run stays where it is until a
\* member reconciles it, back to where its work was, or cancels it (test B-08).
RestoredRunWaits ==
  [][\A r \in Run : AwaitsReconciliation(r) /\ run'[r].status # run[r].status =>
       \/ run'[r].status = "CANCELLED"
       \/ run'[r].status = IF run[r].review THEN "REVIEW_REQUIRED" ELSE "PREFLIGHTING"]_vars

\* recordFailure(): a run in the workers' hands leaves them, even when its
\* starter lost the right to maintain ("A revoked initiating member must not
\* leave an apparently running task forever", worker.js:80), unless backups
\* or restores go on for ever or the run used up its generations.
NoRunHangs ==
  <>[](~backupBarrier /\ restoreReady) =>
    \A r \in Run : WorkerDriven(r) ~> ~WorkerDriven(r) \/ run[r].generation = MaxGeneration
=============================================================================
