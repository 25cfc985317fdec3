----------------------------- MODULE FactRequest -----------------------------
(***************************************************************************)
(* Evidence requests: a running investigation asks F002 for facts it       *)
(* lacks, a server process executes the request under a lease, reserves    *)
(* budget, derives a scope of its own and publishes it, and the budget is  *)
(* settled or released when the request ends                               *)
(* (src/deterministic-facts/request-service.js, with cancelRequestScope()  *)
(* of repository.js and publish() of publication-service.js).              *)
(*                                                                         *)
(* One investigation with one budget account is modelled.  Its consumer    *)
(* contract (resolve() of src/business-knowledge/investigation-service.js) *)
(* answers while the investigation is RUNNING under a live lease and       *)
(* throws otherwise.  Every request here uses one attempt, the dimension   *)
(* of the budget that each kind of request has.                            *)
(***************************************************************************)
EXTENDS FactScope

CONSTANTS
  Request,  \* requests; each owns the scope of its name once it is linked
  Budget    \* maximumAttempts of the investigation's supplement budget

ASSUME RequestAssumption ==
  /\ Request = Scope \ Ordinary
  /\ Budget \in Nat

VARIABLES
  row,       \* rows of f002_request with their reservation
  account,   \* f002_request_budget_account: attempts reserved and settled
  consumer,  \* resolve() of the investigation answers
  late,      \* the deadline of the supplement budget has passed
  exec       \* exec[p][r]: the execution of r in process p

requestVars == <<row, account, consumer, late, exec>>
vars == <<scope, work, requestVars>>

\* What the frozen base version makes of a request: the facts are there, they
\* cannot be derived, deriving adds nothing, deriving adds facts.
Plan == {"existing", "limitation", "unchanged", "changed"}

Outcome == {"NONE", "EXISTING_EVIDENCE", "NEW_VERSION", "LIMITATION"}

\* Why an execution is caught: the investigation stopped, the deadline, the rest.
Code == {"none", "consumer", "deadline", "other"}

RequestRow ==
  [state: {"NONE", "QUEUED", "RUNNING", "COMPLETED", "FAILED", "CANCELLED"},
   outcome: Outcome, code: Code, generation: 0..MaxGeneration,
   live: BOOLEAN,    \* lease_until > clock_timestamp(); nothing renews it
   linked: BOOLEAN,  \* derived_run_id and derived_scope_id are set
   plan: Plan,
   reservation: {"NONE", "RESERVED", "SETTLED", "RELEASED"}]

Execution ==
  [pc: {"idle", "claim", "plan", "reserve", "assert", "create", "run", "await",
        "nochange", "publish", "complete", "catch"},
   next: {"none", "create", "run", "nochange", "complete"},  \* after assertRequestActive()
   generation: 0..MaxGeneration, outcome: Outcome, code: Code]

NoRequest == [state |-> "NONE", outcome |-> "NONE", code |-> "none", generation |-> 0,
              live |-> FALSE, linked |-> FALSE, plan |-> "existing", reservation |-> "NONE"]
NoExecution == [pc |-> "idle", next |-> "none", generation |-> 0, outcome |-> "NONE", code |-> "none"]

Init ==
  /\ ScopeInit
  /\ row = [r \in Request |-> NoRequest]
  /\ account = [reserved |-> 0, settled |-> 0]
  /\ consumer = TRUE
  /\ late = FALSE
  /\ exec = [p \in Process |-> [r \in Request |-> NoExecution]]

Ended(r) == row[r].state \in {"COMPLETED", "FAILED", "CANCELLED"}

\* Mutant: the generation alone, not the state and the lease.
HoldsRequestGeneration(p, r) == row[r].generation = exec[p][r].generation

\* The condition of a request's own transactions.
HoldsRequest(p, r) ==
  /\ row[r].state = "RUNNING"
  /\ row[r].generation = exec[p][r].generation
  /\ row[r].live

-----------------------------------------------------------------------------
(* The row, its budget and its scope *)

EndRow(r, state, outcome, code, reservation) ==
  row' = [row EXCEPT ![r] = [@ EXCEPT !.state = state, !.outcome = outcome, !.code = code,
                                      !.live = FALSE, !.reservation = reservation]]

\* #settle() and #release(): what was reserved is used up, or given back.
Settled(r) == IF row[r].reservation = "RESERVED" THEN "SETTLED" ELSE row[r].reservation
Released(r) == IF row[r].reservation = "RESERVED" THEN "RELEASED" ELSE row[r].reservation

SettleAccount(r) ==
  account' = IF row[r].reservation # "RESERVED" THEN account
             ELSE [reserved |-> account.reserved - 1, settled |-> account.settled + 1]
\* Mutant: every cancelled request gives an attempt back, reserved or not.
ReleaseAccountAlways(r) == account' = [account EXCEPT !.reserved = account.reserved - 1]

ReleaseAccount(r) ==
  account' = IF row[r].reservation # "RESERVED" THEN account
             ELSE [account EXCEPT !.reserved = account.reserved - 1]

\* #cancelDerivedScope() and the end of cancel().
CancelDerived(r) ==
  IF row[r].linked /\ scope[r].status \notin {"SEALED", "CANCELLED"}
  THEN SetStatus(r, "CANCELLED") ELSE UNCHANGED scope

-----------------------------------------------------------------------------
(* Members and the investigation *)

Submit(r) ==
  /\ row[r].state = "NONE"
  /\ consumer
  /\ \E plan \in Plan : row' = [row EXCEPT ![r] = [NoRequest EXCEPT !.state = "QUEUED", !.plan = plan]]
  /\ UNCHANGED <<scope, work, account, consumer, late, exec>>

\* The consumer is asked in a transaction before; the member's revision must
\* still be the row's, so nothing that matters happens in between.
CancelRequest(r) ==
  /\ consumer
  /\ row[r].state \in {"QUEUED", "RUNNING"}
  /\ EndRow(r, "CANCELLED", "NONE", "none", Released(r))
  /\ ReleaseAccount(r)
  /\ CancelDerived(r)
  /\ UNCHANGED <<work, consumer, late, exec>>

ConsumerChanges == consumer' = ~consumer /\ UNCHANGED <<scope, work, row, account, late, exec>>
DeadlinePasses == ~late /\ late' = TRUE /\ UNCHANGED <<scope, work, row, account, consumer, exec>>

-----------------------------------------------------------------------------
(* An execution *)

Step(p, r, pc) == exec' = [exec EXCEPT ![p][r].pc = pc]
AskFirst(p, r, next) == exec' = [exec EXCEPT ![p][r].pc = "assert", ![p][r].next = next]
Catch(p, r, code) == exec' = [exec EXCEPT ![p][r].pc = "catch", ![p][r].code = code]
Rest(p, r) == exec' = [exec EXCEPT ![p][r] = NoExecution]
Answer(p, r, outcome) ==
  exec' = [exec EXCEPT ![p][r].pc = "assert", ![p][r].next = "complete", ![p][r].outcome = outcome]

\* Mutant: a running request whose lease ran out is never taken over.
DueQueued(r) == row[r].state = "QUEUED"

Due(r) ==
  \/ row[r].state = "QUEUED"
  \/ row[r].state = "RUNNING" /\ ~row[r].live

\* findRunnableRequests(), #schedule() and assertConsumerAvailable().
Dispatch(p, r) ==
  /\ exec[p][r].pc = "idle"
  /\ Due(r)
  /\ consumer
  /\ Step(p, r, "claim")
  /\ UNCHANGED <<scope, work, row, account, consumer, late>>

ClaimRequest(p, r) ==
  /\ exec[p][r].pc = "claim"
  /\ Due(r)
  /\ row[r].generation < MaxGeneration
  /\ row' = [row EXCEPT ![r] = [@ EXCEPT !.state = "RUNNING", !.live = TRUE,
                                         !.generation = row[r].generation + 1]]
  /\ exec' = [exec EXCEPT ![p][r] = [NoExecution EXCEPT !.pc = "plan",
                                                        !.generation = row[r].generation + 1]]
  /\ UNCHANGED <<scope, work, account, consumer, late>>

ClaimRequestBusy(p, r) ==
  /\ exec[p][r].pc = "claim"
  /\ ~Due(r)
  /\ Rest(p, r)
  /\ UNCHANGED <<scope, work, row, account, consumer, late>>

\* assertRequestActive(): the investigation first, then the deadline.
Active == consumer /\ ~late
Refusal == IF ~consumer THEN "consumer" ELSE "deadline"

\* The binding is resolved, the plan is read from the base version, the
\* binding is resolved again.
MakePlan(p, r) ==
  /\ exec[p][r].pc = "plan"
  /\ IF Active THEN Step(p, r, "reserve") ELSE Catch(p, r, Refusal)
  /\ UNCHANGED <<scope, work, row, account, consumer, late>>

AssertActive(p, r) ==
  /\ exec[p][r].pc = "assert"
  /\ IF Active THEN Step(p, r, exec[p][r].next) ELSE Catch(p, r, Refusal)
  /\ UNCHANGED <<scope, work, row, account, consumer, late>>

Planned(p, r) ==
  CASE row[r].plan = "existing" -> Answer(p, r, "EXISTING_EVIDENCE")
    [] row[r].plan = "limitation" -> Answer(p, r, "LIMITATION")
    [] OTHER -> AskFirst(p, r, "create")

\* Mutant: what is settled does not count against the budget.
ExhaustedReserved == account.reserved + 1 > Budget

Exhausted == account.reserved + account.settled + 1 > Budget

\* #reserve(): a reservation of an earlier generation is used again; a passed
\* deadline or an exhausted budget completes the request at once.
Reserve(p, r) ==
  /\ exec[p][r].pc = "reserve"
  /\ HoldsRequest(p, r)
  /\ \/ /\ late \/ (row[r].reservation = "NONE" /\ Exhausted)
        /\ EndRow(r, "COMPLETED", "LIMITATION", IF late THEN "deadline" ELSE "none", row[r].reservation)
        /\ Rest(p, r)
        /\ UNCHANGED account
     \/ /\ ~late
        /\ row[r].reservation # "NONE"
        /\ Planned(p, r)
        /\ UNCHANGED <<row, account>>
     \/ /\ ~late
        /\ row[r].reservation = "NONE"
        /\ ~Exhausted
        /\ row' = [row EXCEPT ![r].reservation = "RESERVED"]
        /\ account' = [account EXCEPT !.reserved = account.reserved + 1]
        /\ Planned(p, r)
  /\ UNCHANGED <<scope, work, consumer, late>>

\* derive(): the run is created and linked in one transaction, or it is the
\* run of an earlier generation, which is returned as it stands.
Derived(p, r) ==
  CASE scope[r].status = "SEALED" -> Answer(p, r, "NEW_VERSION")
    [] scope[r].status = "CANCELLED" -> Answer(p, r, "LIMITATION")
    [] scope[r].status = "READY_TO_SEAL" ->
         IF row[r].plan = "unchanged" THEN AskFirst(p, r, "nochange") ELSE Step(p, r, "publish")
    [] OTHER -> AskFirst(p, r, "run")

Create(p, r) ==
  /\ exec[p][r].pc = "create"
  /\ \/ /\ scope[r].status = "NONE"
        /\ HoldsRequest(p, r)
        /\ SetStatus(r, "QUEUED")
        /\ row' = [row EXCEPT ![r].linked = TRUE]
        /\ AskFirst(p, r, "run")
     \/ /\ scope[r].status # "NONE"
        /\ Derived(p, r)
        /\ UNCHANGED <<scope, row>>
  /\ UNCHANGED <<work, account, consumer, late>>

\* F002Worker.run() with the request's credentials: claimScope() first.
RunScope(p, r) ==
  /\ exec[p][r].pc = "run"
  /\ HoldsRequest(p, r)
  /\ TakeScope(p, r)
  /\ Step(p, r, "await")
  /\ UNCHANGED <<row, account, consumer, late>>

\* The scope's lease is still live, or it ended: F002_SCOPE_LEASE_BUSY.
RunScopeBusy(p, r) ==
  /\ exec[p][r].pc = "run"
  /\ HoldsRequest(p, r)
  /\ ~Claimable(r)
  /\ Catch(p, r, "other")
  /\ UNCHANGED <<scope, work, row, account, consumer, late>>

Await(p, r) ==
  /\ exec[p][r].pc = "await"
  /\ \/ /\ At(p, r, "returned")
        /\ IF row[r].plan = "unchanged" THEN AskFirst(p, r, "nochange") ELSE Step(p, r, "publish")
     \/ At(p, r, "thrown") /\ Catch(p, r, "other")
  /\ Ends(p, r, "idle")
  /\ UNCHANGED <<scope, row, account, consumer, late>>

\* cancelRequestScope(): the derived records are those of the base version.
NoChange(p, r) ==
  /\ exec[p][r].pc = "nochange"
  /\ HoldsRequest(p, r)
  /\ scope[r].status = "READY_TO_SEAL"
  /\ SetStatus(r, "CANCELLED")
  /\ Answer(p, r, "LIMITATION")
  /\ UNCHANGED <<work, row, account, consumer, late>>

Sealable(r) == scope[r].status = "READY_TO_SEAL" \/ scope[r].sealer = "request"

\* publish() with the request's guard, which asks the investigation again.
Publish(p, r) ==
  /\ exec[p][r].pc = "publish"
  /\ HoldsRequest(p, r)
  /\ \/ /\ ~Active
        /\ Catch(p, r, IF late THEN "deadline" ELSE "consumer")
        /\ UNCHANGED scope
     \/ /\ Active
        /\ ~Publishable(r) \/ ~Sealable(r)
        /\ Catch(p, r, "other")
        /\ UNCHANGED scope
     \/ /\ Active
        /\ Publishable(r)
        /\ Sealable(r)
        /\ Seal(r, "request")
        /\ Answer(p, r, "NEW_VERSION")
  /\ UNCHANGED <<work, row, account, consumer, late>>

\* A transaction that finds the request elsewhere: F002_STALE_REQUEST_WORKER.
Outdated(p, r) ==
  /\ ~HoldsRequest(p, r)
  /\ \/ exec[p][r].pc \in {"reserve", "run", "nochange", "publish"}
     \/ exec[p][r].pc = "create" /\ scope[r].status = "NONE"
  /\ Catch(p, r, "other")
  /\ UNCHANGED <<scope, work, row, account, consumer, late>>

\* The last transaction is returned, not awaited, so its failure is not caught.
CompleteRequest(p, r) ==
  /\ exec[p][r].pc = "complete"
  /\ IF HoldsRequest(p, r)
     THEN EndRow(r, "COMPLETED", exec[p][r].outcome, "none", Settled(r)) /\ SettleAccount(r)
     ELSE UNCHANGED <<row, account>>
  /\ Rest(p, r)
  /\ UNCHANGED <<scope, work, consumer, late>>

\* The catch of execute() asks for the generation, not for the lease.
CatchMatches(p, r) ==
  /\ row[r].state = "RUNNING"
  /\ row[r].generation = exec[p][r].generation

CatchError(p, r) ==
  LET code == exec[p][r].code IN
  /\ exec[p][r].pc = "catch"
  /\ IF CatchMatches(p, r)
     THEN /\ IF code = "deadline"
             THEN EndRow(r, "COMPLETED", "LIMITATION", code, Settled(r)) /\ CancelDerived(r)
             ELSE EndRow(r, "FAILED", "NONE", code, Settled(r)) /\ UNCHANGED scope
          /\ SettleAccount(r)
     ELSE UNCHANGED <<scope, row, account>>
  /\ Rest(p, r)
  /\ UNCHANGED <<work, consumer, late>>

\* The database, a backup barrier or the member's access fails a transaction:
\* it is caught, or before the claim and at the very end left to a takeover.
RequestTransactionFails(p, r) ==
  /\ \/ /\ exec[p][r].pc \in {"plan", "reserve", "assert", "create", "run", "nochange", "publish"}
        /\ Catch(p, r, "other")
     \/ exec[p][r].pc \in {"claim", "complete", "catch"} /\ Rest(p, r)
  /\ UNCHANGED <<scope, work, row, account, consumer, late>>

RequestLeaseExpires(r) ==
  /\ row[r].state = "RUNNING" /\ row[r].live
  /\ row' = [row EXCEPT ![r].live = FALSE]
  /\ UNCHANGED <<scope, work, account, consumer, late, exec>>

ProcessCrashes(p) ==
  /\ Crash(p)
  /\ exec' = [exec EXCEPT ![p] = [r \in Request |-> NoExecution]]
  /\ UNCHANGED <<row, account, consumer, late>>

ExecutionStep(p, r) ==
  \/ Dispatch(p, r) \/ ClaimRequest(p, r) \/ ClaimRequestBusy(p, r) \/ MakePlan(p, r)
  \/ AssertActive(p, r) \/ Reserve(p, r) \/ Create(p, r) \/ RunScope(p, r) \/ RunScopeBusy(p, r)
  \/ Await(p, r) \/ NoChange(p, r) \/ Publish(p, r) \/ Outdated(p, r) \/ CompleteRequest(p, r)
  \/ CatchError(p, r) \/ RequestTransactionFails(p, r)

Next ==
  \/ ScopeStep /\ UNCHANGED requestVars
  \/ \E r \in Request : Submit(r) \/ CancelRequest(r) \/ RequestLeaseExpires(r)
  \/ \E p \in Process, r \in Request : ExecutionStep(p, r)
  \/ \E p \in Process : ProcessCrashes(p)
  \/ ConsumerChanges \/ DeadlinePasses

Spec == Init /\ [][Next]_vars

\* Schedulers poll for ever, jobs take their steps, and time passes: a request's
\* lease is never renewed, and the lease of a scope nobody works on runs out.
\* Strong fairness where a step may fail and be taken again later: the
\* database and the process do not fail every time.
Orphaned(s) == \A p \in Process : work[p][s].generation # scope[s].generation

JobFairness(p, s) ==
  /\ WF_vars(/\ \/ Poll(p, s) \/ ClaimBusy(p, s) \/ Declare(p, s) \/ Parse(p, s) \/ Prepare(p, s)
                \/ Finish(p, s) \/ Ready(p, s) \/ Stale(p, s) \/ Fail(p, s)
             /\ UNCHANGED requestVars)
  /\ SF_vars((Claim(p, s) \/ Check(p, s)) /\ UNCHANGED requestVars)
  /\ SF_vars((AutoPublish(p, s) \/ Block(p, s)) /\ UNCHANGED requestVars)

ExecutionFairness(p, r) ==
  /\ WF_vars(\/ ClaimRequestBusy(p, r) \/ MakePlan(p, r) \/ AssertActive(p, r) \/ Reserve(p, r)
             \/ Create(p, r) \/ RunScope(p, r) \/ RunScopeBusy(p, r) \/ Await(p, r)
             \/ NoChange(p, r) \/ Publish(p, r) \/ Outdated(p, r) \/ CompleteRequest(p, r)
             \/ CatchError(p, r))
  /\ SF_vars(Dispatch(p, r))
  /\ SF_vars(ClaimRequest(p, r))

Fairness ==
  /\ \A p \in Process, s \in Scope : JobFairness(p, s)
  /\ \A s \in Scope : WF_vars(Orphaned(s) /\ ScopeLeaseExpires(s) /\ UNCHANGED requestVars)
  /\ \A p \in Process, r \in Request : ExecutionFairness(p, r)
  /\ \A r \in Request : WF_vars(RequestLeaseExpires(r))

FairSpec == Spec /\ Fairness

-----------------------------------------------------------------------------
(* What must hold *)

\* The rows and the executions keep their types.
TypeOK ==
  /\ scope \in [Scope -> ScopeRow]
  /\ work \in [Process -> [Scope -> WorkRecord]]
  /\ row \in [Request -> RequestRow]
  /\ account \in [reserved: 0..Budget, settled: 0..Budget]
  /\ consumer \in BOOLEAN
  /\ late \in BOOLEAN
  /\ exec \in [Process -> [Request -> Execution]]

With(reservation) == {r \in Request : row[r].reservation = reservation}

\* The account is the sum of the reservations, and within the budget, through
\* takeovers, cancels and failures (#reserve, #settle, #release).
LedgerKept ==
  /\ account.reserved = Cardinality(With("RESERVED"))
  /\ account.settled = Cardinality(With("SETTLED"))
  /\ account.reserved + account.settled <= Budget

\* Jobs that write under a lease.
Working == {"declare", "parse", "prepare", "finish", "ready", "failing"}

\* However jobs are taken over, restarted or run late, no two processes work on
\* one scope under the same generation (claimScope), so of two jobs of a scope
\* only one can still write.
OneScopeExecutor ==
  \A s \in Scope, p, q \in Process :
    /\ work[p][s].pc \in Working
    /\ work[q][s].pc \in Working
    /\ work[p][s].generation = work[q][s].generation
    => p = q

\* A scope offered for publication has every work item finished and its
\* records prepared, by whichever generations, and what is sealed was verified
\* (readyToSeal, publish).
ReadyIsComplete ==
  \A s \in Scope :
    /\ scope[s].status \in {"READY_TO_SEAL", "SEALED"}
         => scope[s].prepared # "none" /\ \A b \in Batch : scope[s].items[b] = "DONE"
    /\ scope[s].status = "SEALED" => scope[s].prepared = "sound"

\* No job, however late, moves a sealed, cancelled or blocked scope, whoever
\* sealed it, or reopens a finished work item when it declares the items again
\* (recordScopeItems, blockAutomaticPublication).
ScopeDecisionsStand ==
  [][\A s \in Scope :
       /\ scope[s].status = "SEALED" => scope'[s].status = "SEALED" /\ scope'[s].sealer = scope[s].sealer
       /\ scope[s].status = "CANCELLED" => scope'[s].status = "CANCELLED"
       /\ scope[s].status = "BLOCKED" => scope'[s].status \in {"BLOCKED", "CANCELLED"}
       /\ \A b \in Batch : scope[s].items[b] = "DONE" => scope'[s].items[b] = "DONE"]_vars

\* What a request says is so: a new version is one it sealed itself, and a
\* cancelled request leaves no open scope behind, nor does an execution under
\* way open one later (derive with afterCreate, cancel).
OutcomeIsTrue ==
  \A r \in Request :
    /\ row[r].outcome = "NEW_VERSION" => scope[r].status = "SEALED" /\ scope[r].sealer = "request"
    /\ row[r].state = "CANCELLED" => scope[r].status \in {"NONE", "SEALED", "CANCELLED"}

\* Once a request ended, nothing of it is published any more, by it or by
\* anybody (publish, assertRequestOwnerActive).
EndedPublishesNothing ==
  [][\A r \in Request : Ended(r) /\ scope[r].status # "SEALED" => scope'[r].status # "SEALED"]_vars

\* A queued or running scope comes to a decision, whatever dies on the way,
\* as long as it may be claimed again; with automatic publication to its end.
Settles(s) ==
  \/ scope[s].status \in {"SEALED", "FAILED_RETRYABLE", "BLOCKED", "CANCELLED"}
  \/ scope[s].status = "READY_TO_SEAL" /\ s \notin Automatic
  \/ Claimable(s) /\ scope[s].generation = MaxGeneration
ScopesSettle == \A s \in Ordinary : scope[s].status # "NONE" ~> Settles(s)

\* An accepted request ends while its investigation answers (assertConsumerAvailable
\* leaves the request of one that does not to a later poll).
RequestsEnd ==
  \A r \in Request :
    row[r].state \in {"QUEUED", "RUNNING"}
      ~> \/ Ended(r) \/ ~consumer
         \/ Due(r) /\ row[r].generation = MaxGeneration
=============================================================================
