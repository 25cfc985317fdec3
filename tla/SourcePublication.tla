-------------------------- MODULE SourcePublication --------------------------
(***************************************************************************)
(* Confirmation and freeze of one capture run whose candidate is prepared  *)
(* (src/source-truth/confirmation-service.js, publication-service.js, the  *)
(* seal route of http-handler.js and the recovery of worker.js).           *)
(*                                                                         *)
(* A seal is a call of several transactions: the lease of its context,     *)
(* begin(), the verification of the evidence, the commit.  Calls of        *)
(* members and of the workers' cycle interleave with confirmations,        *)
(* cancellation, revocation, expiry of acceptances and of leases, the      *)
(* backup barrier, and the death of processes.  The candidate itself does  *)
(* not change (source_truth_prepared_bundle is inserted once per run), and *)
(* neither does the policy revision.                                       *)
(***************************************************************************)
EXTENDS Integers, Sequences

CONSTANTS
  Actor, Starter,    \* the members; the one who started the run
  Worker, NoWorker,  \* server processes
  Request,           \* slots for the seal requests of members in progress
  Token, NoToken,    \* clientToken of members' requests; a recovery has its own
  Acceptance,        \* reasons and deadlines to accept the gaps with; {} without gaps
  MaxConfirmation,   \* bound: confirmations of the run
  MaxGeneration      \* bound: generations of the run

\* A seal in progress: a request, or the job of a process, named by the process
\* because a cycle executes a run once.
Call == Request \cup Worker

ASSUME PublicationAssumption ==
  /\ Starter \in Actor
  /\ NoWorker \notin Worker
  /\ Request \cap Worker = {}
  /\ NoToken \notin Token
  /\ MaxConfirmation \in Nat \ {0}
  /\ MaxGeneration \in Nat \ {0}

VARIABLES
  maintainers,    \* the members authorize(..., maintain = true) lets through
  paused,         \* source_truth_workspace.backup_barrier
  gone,           \* processes that ended; a restarted one has a new identity
  run,            \* the row of source_truth_run
  confirmations,  \* rows of source_truth_confirmation of the run, by revision
  expired,        \* acceptances whose expires_at has passed
  operations,     \* operations[c]: the publication operation of confirmation c
  tokens,         \* source_truth_publication_token: the confirmation of the binding
  receipts,       \* rows of source_truth_receipt, in the order issued
  calls,          \* the seal calls in progress
  answers         \* results returned: the confirmation asked for, the one of the receipt

tables == <<confirmations, operations, tokens, receipts>>
surroundings == <<maintainers, paused, gone, expired>>
vars == <<surroundings, run, tables, calls, answers>>

-----------------------------------------------------------------------------
(* Vocabulary *)

Terminal == {"CANCELLED", "BLOCKED", "FAILED_RETRYABLE", "SUCCEEDED"}
Status == Terminal \cup {"REVIEW_REQUIRED", "PREPARING_SEAL"}

\* The error codes the calls below end with.
Code == {"SOURCE_STALE_WORKER", "SOURCE_PUBLICATION_PAUSED", "SOURCE_LEASE_BUSY", "SOURCE_FORBIDDEN",
         "SOURCE_CONFIRMATION_STALE", "SOURCE_ACCEPTANCE_EXPIRED", "SOURCE_MANIFEST_CORRUPT",
         "SOURCE_IDEMPOTENCY_CONFLICT", "SOURCE_INVALID_TRANSITION", "SOURCE_WORKER_RETRY_REQUIRED"}

\* Those of a job that another executor, or a later cycle, will settle.
Ignored == {"SOURCE_LEASE_BUSY", "SOURCE_STALE_WORKER", "SOURCE_PUBLICATION_PAUSED"}

Revision == 0..MaxConfirmation   \* 0: none

RunRecord ==
  [status: Status, generation: 0..MaxGeneration, workerId: Worker \cup {NoWorker},
   lease: BOOLEAN,
   operation: Revision,              \* publication_operation_id, by its confirmation
   diagnostic: Code \cup {"NONE"}]   \* diagnostic.code

\* A confirmation of a candidate without gaps accepts nothing and never expires.
NoGaps == "no gaps"
Offer == IF Acceptance = {} THEN {NoGaps} ELSE Acceptance
Confirmation == [actor: Actor, acceptance: Offer]

NoOperation == [status |-> "NONE", actor |-> Starter, receipt |-> 0]
Operation == [status: {"NONE", "PREPARING", "COMMITTED"}, actor: Actor, receipt: 0..MaxConfirmation]

CallOf(phase, worker, actor, confirmation, token, seen, generation) ==
  [phase |-> phase, worker |-> worker, actor |-> actor, confirmation |-> confirmation,
   token |-> token, seen |-> seen, generation |-> generation, code |-> "NONE"]
Free == CallOf("free", NoWorker, Starter, 0, NoToken, 0, 0)
CallRecord ==
  [phase: {"free", "picked", "asking", "leased", "begun", "recovering", "verified", "failed"},
   worker: Worker \cup {NoWorker},
   actor: Actor, confirmation: Revision, token: Token \cup {NoToken},
   seen: 0..MaxGeneration,         \* generation getRun() read
   generation: 0..MaxGeneration,   \* of its context; of a job's row before
   code: Code \cup {"NONE"}]       \* the error of a failed job

Latest == Len(confirmations)
Active == run.status \notin Terminal

\* assertAcceptance()
Valid(c) == confirmations[c].acceptance \notin expired

\* Every write under a context needs it to be current.
Current(k) == run.generation = calls[k].generation /\ run.lease

Authorized(k) == calls[k].actor \in maintainers

Goes(k, phase) == calls' = [calls EXCEPT ![k].phase = phase]

\* A call that ends with an error.  A member's request reports it, or after
\* SOURCE_STALE_WORKER seals again with the same context.  A job leaves some
\* to others, else it goes on to recordFailure().
Fails(k, code) ==
  /\ \/ /\ k \in Request
        /\ \/ calls' = [calls EXCEPT ![k] = Free]
           \/ code = "SOURCE_STALE_WORKER" /\ calls[k].phase # "leased" /\ Goes(k, "leased")
     \/ /\ k \in Worker
        /\ calls' = [calls EXCEPT ![k] =
             IF code \in Ignored THEN Free ELSE [@ EXCEPT !.phase = "failed", !.code = code]]
  /\ UNCHANGED <<surroundings, run, tables, answers>>

\* A call that returns the committed result of operation c.  (A heartbeat that
\* fails meanwhile loses the answer; the request made again finds it.)
Returns(k, c) ==
  /\ calls' = [calls EXCEPT ![k] = Free]
  /\ answers' = answers \cup
       {[asked |-> calls[k].confirmation, given |-> receipts'[operations'[c].receipt].confirmation]}

-----------------------------------------------------------------------------
Init ==
  /\ maintainers \in {m \in SUBSET Actor : Starter \in m}
  /\ paused = FALSE
  /\ gone = {}
  /\ run = [status |-> "REVIEW_REQUIRED", generation |-> 0, workerId |-> NoWorker,
            lease |-> FALSE, operation |-> 0, diagnostic |-> "NONE"]
  /\ confirmations = <<>>
  /\ expired = {}
  /\ operations = [c \in 1..MaxConfirmation |-> NoOperation]
  /\ tokens = [t \in Token |-> 0]
  /\ receipts = <<>>
  /\ calls = [k \in Call |-> Free]
  /\ answers = {}

-----------------------------------------------------------------------------
(* Members and time *)

SetMaintainer(a) ==
  /\ maintainers' = IF a \in maintainers THEN maintainers \ {a} ELSE maintainers \cup {a}
  /\ UNCHANGED <<paused, gone, expired, run, tables, calls, answers>>

SetBarrier ==
  /\ paused' = ~paused
  /\ UNCHANGED <<maintainers, gone, expired, run, tables, calls, answers>>

AcceptanceExpires(x) ==
  /\ x \notin expired
  /\ expired' = expired \cup {x}
  /\ UNCHANGED <<maintainers, paused, gone, run, tables, calls, answers>>

LeaseExpires ==
  /\ run.lease
  /\ run' = [run EXCEPT !.lease = FALSE]
  /\ UNCHANGED <<surroundings, tables, calls, answers>>

Crash(w) ==
  /\ w \notin gone
  /\ Worker \ (gone \cup {w}) # {}
  /\ gone' = gone \cup {w}
  /\ calls' = [k \in Call |-> IF calls[k].worker = w THEN Free ELSE calls[k]]
  /\ UNCHANGED <<maintainers, paused, expired, run, tables, answers>>

\* confirmCandidate(): the same decision of the same member as the latest one
\* is answered with it and changes nothing.
Confirm(a, x) ==
  /\ a \in maintainers
  /\ run.status \in {"REVIEW_REQUIRED", "PREPARING_SEAL"}
  /\ x \notin expired
  /\ Latest < MaxConfirmation
  /\ Latest > 0 => confirmations[Latest] # [actor |-> a, acceptance |-> x]
  /\ confirmations' = Append(confirmations, [actor |-> a, acceptance |-> x])
  /\ run' = [run EXCEPT !.status = "REVIEW_REQUIRED"]
  /\ UNCHANGED <<surroundings, operations, tokens, receipts, calls, answers>>

Cancel(a) ==
  /\ a \in maintainers
  /\ Active
  /\ run.generation < MaxGeneration
  /\ run' = [run EXCEPT !.status = "CANCELLED", !.generation = @ + 1, !.lease = FALSE]
  /\ UNCHANGED <<surroundings, tables, calls, answers>>

-----------------------------------------------------------------------------
(* The beginning of a call: context() *)

\* The seal route.  Of a run that succeeded it takes no lease.
RequestSeal(k, w, a, c, t) ==
  /\ k \in Request /\ calls[k].phase = "free"
  /\ w \notin gone
  /\ c \in 1..Latest
  /\ \/ /\ run.status = "SUCCEEDED"
        /\ calls' = [calls EXCEPT ![k] = CallOf("leased", w, a, c, t, 0, run.generation)]
     \/ /\ Active /\ a \in maintainers
        /\ calls' = [calls EXCEPT ![k] = CallOf("asking", w, a, c, t, run.generation, 0)]
  /\ UNCHANGED <<surroundings, run, tables, answers>>

\* cycle() selects a run it may execute, and execute() reads its operation.
PickSeal(w) ==
  /\ w \notin gone
  /\ calls[w].phase = "free"
  /\ ~paused
  /\ run.status = "PREPARING_SEAL"
  /\ run.workerId = w \/ ~run.lease
  /\ calls' = [calls EXCEPT ![w] =
       CallOf("picked", w, operations[run.operation].actor, run.operation, NoToken, 0, run.generation)]
  /\ UNCHANGED <<surroundings, run, tables, answers>>

\* authorize() and getRun() of a job's context().
Ask(w) ==
  /\ calls[w].phase = "picked"
  /\ \/ ~Authorized(w) /\ Fails(w, "SOURCE_FORBIDDEN")
     \/ Authorized(w) /\ ~Active /\ Fails(w, "SOURCE_INVALID_TRANSITION")
     \/ /\ Authorized(w) /\ Active
        /\ calls' = [calls EXCEPT ![w] = [@ EXCEPT !.phase = "asking", !.seen = run.generation]]
        /\ UNCHANGED <<surroundings, run, tables, answers>>

Leased(k, generation) ==
  calls' = [calls EXCEPT ![k] = [@ EXCEPT !.phase = "leased", !.seen = 0, !.generation = generation]]

Holds(k) == Active /\ run.workerId = calls[k].worker /\ run.lease /\ run.generation = calls[k].seen

\* heartbeat() of the lease the process holds, else claimRun().
TakeLease(k) ==
  /\ calls[k].phase = "asking"
  /\ \/ /\ Holds(k) /\ Starter \in maintainers
        /\ Leased(k, run.generation)
        /\ UNCHANGED <<surroundings, run, tables, answers>>
     \/ Holds(k) /\ Starter \notin maintainers /\ Fails(k, "SOURCE_FORBIDDEN")
     \/ /\ Active /\ ~run.lease /\ run.generation < MaxGeneration
        /\ run' = [run EXCEPT !.generation = @ + 1, !.workerId = calls[k].worker, !.lease = TRUE]
        /\ Leased(k, run.generation + 1)
        /\ UNCHANGED <<surroundings, tables, answers>>
     \/ (~Active \/ (run.lease /\ ~Holds(k))) /\ Fails(k, "SOURCE_LEASE_BUSY")

-----------------------------------------------------------------------------
(* seal() *)

\* Mutant: a token is not compared with its binding.
BeginObjectionAnyToken(k) ==
  LET c == calls[k].confirmation IN
  IF ~Authorized(k) THEN "SOURCE_FORBIDDEN"
  ELSE IF operations[c].status = "COMMITTED" THEN "NONE"
  ELSE IF ~Active \/ ~Current(k) THEN "SOURCE_STALE_WORKER"
  ELSE IF Latest # c THEN "SOURCE_CONFIRMATION_STALE"
  ELSE IF ~Valid(c) THEN "SOURCE_ACCEPTANCE_EXPIRED"
  ELSE "NONE"

\* Mutant: any confirmation may be frozen, not only the latest.
BeginObjectionOld(k) ==
  LET c == calls[k].confirmation IN
  IF ~Authorized(k) THEN "SOURCE_FORBIDDEN"
  ELSE IF calls[k].token # NoToken /\ tokens[calls[k].token] \notin {0, c} THEN "SOURCE_IDEMPOTENCY_CONFLICT"
  ELSE IF operations[c].status = "COMMITTED" THEN "NONE"
  ELSE IF ~Active \/ ~Current(k) THEN "SOURCE_STALE_WORKER"
  ELSE IF ~Valid(c) THEN "SOURCE_ACCEPTANCE_EXPIRED"
  ELSE "NONE"

\* What begin() objects to, in the order it looks.
BeginObjection(k) ==
  LET c == calls[k].confirmation IN
  IF ~Authorized(k) THEN "SOURCE_FORBIDDEN"
  ELSE IF calls[k].token # NoToken /\ tokens[calls[k].token] \notin {0, c} THEN "SOURCE_IDEMPOTENCY_CONFLICT"
  ELSE IF operations[c].status = "COMMITTED" THEN "NONE"
  ELSE IF ~Active \/ ~Current(k) THEN "SOURCE_STALE_WORKER"
  ELSE IF Latest # c THEN "SOURCE_CONFIRMATION_STALE"
  ELSE IF ~Valid(c) THEN "SOURCE_ACCEPTANCE_EXPIRED"
  ELSE "NONE"

\* ON CONFLICT DO NOTHING: a binding is never changed.
BindToken(k) ==
  tokens' = [t \in Token |-> IF t = calls[k].token /\ tokens[t] = 0
                               THEN calls[k].confirmation ELSE tokens[t]]

Begin(k) ==
  LET c == calls[k].confirmation IN
  /\ calls[k].phase = "leased"
  /\ \/ BeginObjection(k) # "NONE" /\ Fails(k, BeginObjection(k))
     \/ /\ BeginObjection(k) = "NONE"
        /\ BindToken(k)
        /\ IF operations[c].status = "COMMITTED"
             THEN UNCHANGED <<run, operations, receipts>> /\ Returns(k, c)
             ELSE /\ operations' = IF operations[c].status = "NONE"
                       THEN [operations EXCEPT ![c] = [@ EXCEPT !.status = "PREPARING", !.actor = calls[k].actor]]
                       ELSE operations
                  /\ run' = [run EXCEPT !.status = "PREPARING_SEAL", !.operation = c]
                  /\ Goes(k, "begun")
                  /\ UNCHANGED <<receipts, answers>>
        /\ UNCHANGED <<surroundings, confirmations>>

\* verifyPrepared(): the lease, the starter's authority, then the evidence,
\* which may turn out corrupt or unreadable.
Verify(k) ==
  /\ calls[k].phase = "begun"
  /\ IF ~Active \/ ~Current(k)
       THEN Goes(k, "recovering") /\ UNCHANGED <<surroundings, run, tables, answers>>
       ELSE IF Starter \notin maintainers THEN Fails(k, "SOURCE_FORBIDDEN")
       ELSE \/ Goes(k, "verified") /\ UNCHANGED <<surroundings, run, tables, answers>>
            \/ \E code \in {"SOURCE_MANIFEST_CORRUPT", "SOURCE_WORKER_RETRY_REQUIRED"} : Fails(k, code)

\* Mutant: whatever the run published is returned.
RecoverAny(k) ==
  LET c == run.operation IN
  /\ calls[k].phase = "recovering"
  /\ \/ ~Authorized(k) /\ Fails(k, "SOURCE_FORBIDDEN")
     \/ Authorized(k) /\ operations[c].status # "COMMITTED" /\ Fails(k, "SOURCE_STALE_WORKER")
     \/ /\ Authorized(k) /\ operations[c].status = "COMMITTED"
        /\ UNCHANGED <<surroundings, run, tables>>
        /\ Returns(k, c)

\* The catch of verifyPrepared(): the same operation may have been committed
\* by a concurrent call.
Recover(k) ==
  LET c == calls[k].confirmation IN
  /\ calls[k].phase = "recovering"
  /\ \/ ~Authorized(k) /\ Fails(k, "SOURCE_FORBIDDEN")
     \/ Authorized(k) /\ operations[c].status # "COMMITTED" /\ Fails(k, "SOURCE_STALE_WORKER")
     \/ /\ Authorized(k) /\ operations[c].status = "COMMITTED"
        /\ UNCHANGED <<surroundings, run, tables>>
        /\ Returns(k, c)

\* Mutant: an acceptance that begin() found valid is not looked at again.
CommitObjectionOnce(k) ==
  LET c == calls[k].confirmation IN
  IF ~Authorized(k) THEN "SOURCE_FORBIDDEN"
  ELSE IF operations[c].status = "COMMITTED" THEN "NONE"
  ELSE IF paused THEN "SOURCE_PUBLICATION_PAUSED"
  ELSE IF ~Current(k) \/ run.status # "PREPARING_SEAL" THEN "SOURCE_STALE_WORKER"
  ELSE IF Starter \notin maintainers THEN "SOURCE_FORBIDDEN"
  ELSE IF run.operation # c \/ Latest # c THEN "SOURCE_CONFIRMATION_STALE"
  ELSE "NONE"

\* What the commit transaction objects to, in the order it looks.
CommitObjection(k) ==
  LET c == calls[k].confirmation IN
  IF ~Authorized(k) THEN "SOURCE_FORBIDDEN"
  ELSE IF operations[c].status = "COMMITTED" THEN "NONE"
  ELSE IF paused THEN "SOURCE_PUBLICATION_PAUSED"
  ELSE IF ~Current(k) \/ run.status # "PREPARING_SEAL" THEN "SOURCE_STALE_WORKER"
  ELSE IF Starter \notin maintainers THEN "SOURCE_FORBIDDEN"
  ELSE IF run.operation # c \/ Latest # c THEN "SOURCE_CONFIRMATION_STALE"
  ELSE IF ~Valid(c) THEN "SOURCE_ACCEPTANCE_EXPIRED"
  ELSE "NONE"

\* The commit transaction: receipt, result of the operation, end of the run.
Commit(k) ==
  LET c == calls[k].confirmation IN
  /\ calls[k].phase = "verified"
  /\ \/ CommitObjection(k) # "NONE" /\ Fails(k, CommitObjection(k))
     \/ /\ CommitObjection(k) = "NONE"
        /\ IF operations[c].status = "COMMITTED"
             THEN UNCHANGED <<run, operations, receipts>>
             ELSE /\ receipts' = Append(receipts, [confirmation |-> c])
                  /\ operations' = [operations EXCEPT ![c] = [@ EXCEPT !.status = "COMMITTED", !.receipt = Len(receipts) + 1]]
                  /\ run' = [run EXCEPT !.status = "SUCCEEDED", !.lease = FALSE]
        /\ Returns(k, c)
        /\ UNCHANGED <<surroundings, confirmations, tokens>>

-----------------------------------------------------------------------------
(* recordFailure() of a job *)

\* Mutant: a late failure is recorded on a run that ended.
FailureAcceptedLate(w) ==
  /\ run.generation = calls[w].generation
  /\ run.operation = calls[w].confirmation
  /\ run.workerId = w \/ ~run.lease

\* Mutant: a failure is recorded like any write, for an authorized starter.
FailureAcceptedForMember(w) ==
  /\ Active
  /\ Starter \in maintainers
  /\ run.generation = calls[w].generation
  /\ run.operation = calls[w].confirmation
  /\ run.workerId = w \/ ~run.lease

FailureAccepted(w) ==
  /\ Active
  /\ run.generation = calls[w].generation
  /\ run.operation = calls[w].confirmation
  /\ run.workerId = w \/ ~run.lease

\* Mutant: the code is stored as the status.
VerdictCode(code) == code

Verdict(code) ==
  CASE code = "SOURCE_ACCEPTANCE_EXPIRED" -> "REVIEW_REQUIRED"
    [] code = "SOURCE_WORKER_RETRY_REQUIRED" -> "FAILED_RETRYABLE"
    [] OTHER -> "BLOCKED"

RecordFailure(w) ==
  /\ calls[w].phase = "failed"
  /\ \/ /\ FailureAccepted(w)
        /\ run.generation < MaxGeneration
        /\ run' = [run EXCEPT !.status = Verdict(calls[w].code), !.generation = @ + 1, !.lease = FALSE,
                              !.diagnostic = calls[w].code]
     \/ ~FailureAccepted(w) /\ UNCHANGED run
  /\ calls' = [calls EXCEPT ![w] = Free]
  /\ UNCHANGED <<surroundings, tables, answers>>

-----------------------------------------------------------------------------
Seal(k) == TakeLease(k) \/ Begin(k) \/ Verify(k) \/ Recover(k) \/ Commit(k)

\* What a process does next for its job.
JobNext(w) == PickSeal(w) \/ Ask(w) \/ Seal(w) \/ RecordFailure(w)

Member(a) ==
  \/ SetMaintainer(a)
  \/ \E x \in Offer : Confirm(a, x)
  \/ Cancel(a)
  \/ \E k \in Request, w \in Worker, c \in 1..MaxConfirmation, t \in Token : RequestSeal(k, w, a, c, t)

Next ==
  \/ \E a \in Actor : Member(a)
  \/ \E k \in Request : Seal(k)
  \/ \E w \in Worker : JobNext(w) \/ Crash(w)
  \/ \E x \in Acceptance : AcceptanceExpires(x)
  \/ LeaseExpires \/ SetBarrier

Spec == Init /\ [][Next]_vars

(* Fairness: the cycle of a live process goes on with its job, and the lease *)
(* of a process that ended runs out.  Members and backups owe nothing.       *)
Fairness ==
  /\ \A w \in Worker : WF_vars(JobNext(w))
  /\ WF_vars(run.workerId \in gone /\ LeaseExpires)

FairSpec == Spec /\ Fairness

-----------------------------------------------------------------------------
(* Properties *)

\* Every column and every call has its type.
TypeOK ==
  /\ maintainers \subseteq Actor /\ paused \in BOOLEAN /\ gone \subseteq Worker
  /\ run \in RunRecord
  /\ confirmations \in Seq(Confirmation) /\ Latest <= MaxConfirmation
  /\ expired \subseteq Acceptance
  /\ operations \in [1..MaxConfirmation -> Operation]
  /\ tokens \in [Token -> 0..MaxConfirmation]
  /\ receipts \in Seq([confirmation: 1..MaxConfirmation]) /\ Len(receipts) <= MaxConfirmation
  /\ calls \in [Call -> CallRecord]
  /\ answers \subseteq [asked: 1..MaxConfirmation, given: 1..MaxConfirmation]

\* seal(): however many calls commit, the run has at most one receipt, of the
\* operation it names; and it has succeeded exactly when it has one (INV-03,
\* INV-04 of the F001 specification).
OneReceipt ==
  /\ Len(receipts) = (IF run.status = "SUCCEEDED" THEN 1 ELSE 0)
  /\ \A c \in 1..MaxConfirmation :
       operations[c].status = "COMMITTED" <=> run.status = "SUCCEEDED" /\ c = run.operation
  /\ run.status = "SUCCEEDED" => receipts[operations[run.operation].receipt].confirmation = run.operation

\* begin(), Recover, Commit: whoever repeats a request, with whatever token and
\* after whatever loss, gets the result of the confirmation it named (INV-04).
AnswersAgree == \A answer \in answers : answer.given = answer.asked

\* execute(): a recovery resumes the freeze a member asked for; a run under
\* review starts to freeze only when a member's request says so (INV-10).
NoAutoSign ==
  [][run.status = "REVIEW_REQUIRED" /\ run'.status = "PREPARING_SEAL"
       => \E k \in Request : Begin(k)]_vars

\* begin(): a request goes beyond it only with the confirmation its token was
\* bound to first, and that one has an operation to resume (INV-04: same key,
\* other parameters: refused).
TokensBind ==
  /\ \A t \in Token : tokens[t] # 0 => operations[tokens[t]].status # "NONE"
  /\ \A k \in Request : calls[k].phase \in {"begun", "recovering", "verified"}
       => tokens[calls[k].token] = calls[k].confirmation

\* The review and freeze keep what SourceFreeze promises.
Freeze == INSTANCE SourceFreeze WITH
  MaxDecision <- MaxConfirmation,
  decisions <- Latest,
  valid <- Latest > 0 /\ Valid(Latest) /\ Starter \in maintainers /\ ~paused,
  published <- IF receipts = <<>> THEN 0 ELSE receipts[1].confirmation,
  over <- run.status \in Terminal \ {"SUCCEEDED"}

KeepsFreeze == Freeze!Spec

\* cycle(): unless backups keep the barrier busy for ever, a freeze that was
\* asked for ends: published, back in review, or ended with a diagnostic,
\* whoever was revoked and whatever process died.
SealSettles ==
  <>[]~paused =>
    (run.status = "PREPARING_SEAL" ~> run.status # "PREPARING_SEAL" \/ run.generation = MaxGeneration)
=============================================================================
