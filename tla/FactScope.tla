------------------------------ MODULE FactScope ------------------------------
(***************************************************************************)
(* The scopes of F002: a run's scope is claimed under a lease, its work    *)
(* items are declared, its materials parsed, the records prepared, the     *)
(* items finished and the scope handed over for publication              *)
(* (src/deterministic-facts/repository.js, worker.js, lease.js,            *)
(* publication-service.js, runtime.js).                                    *)
(*                                                                         *)
(* Every transaction locks the workspace row (#withWorkspace), so each is  *)
(* one action; a job is a chain of them, and members, other processes and  *)
(* the clock act in between.  A transaction may fail (the database, a      *)
(* backup barrier, a revoked member): see TransactionFails.  A scope that  *)
(* belongs to an evidence request is claimed and published by the request  *)
(* (FactRequest); its job in between is the one modelled here.             *)
(***************************************************************************)
EXTENDS Integers, FiniteSets

CONSTANTS
  Process,       \* server processes; each has one scheduler
  Scope,         \* scopes, each created at most once
  Ordinary,      \* the scopes of runs that members started
  Automatic,     \* those whose profile has automaticPublication
  Batch,         \* the work items of a scope, in batches of at most 500
  MaxGeneration  \* bound: claims of one scope

ASSUME ScopeAssumption ==
  /\ Automatic \subseteq Ordinary
  /\ Ordinary \subseteq Scope
  /\ IsFiniteSet(Batch) /\ Batch # {}
  /\ MaxGeneration \in Nat \ {0}

VARIABLES
  scope,  \* rows of f002_scope with their items and prepared records
  work    \* work[p][s]: the job of s in process p

Status == {"NONE", "QUEUED", "RUNNING", "READY_TO_SEAL", "SEALED",
           "FAILED_RETRYABLE", "BLOCKED", "CANCELLED"}

\* DONE stands for the terminal item states.
ItemStatus == {"NONE", "PENDING", "DONE"}

ScopeRow ==
  [status: Status, generation: 0..MaxGeneration,
   live: BOOLEAN,                                 \* lease_until > clock_timestamp()
   items: [Batch -> ItemStatus],
   prepared: {"none", "sound", "unsound"},        \* prepared records; unsound ones fail verifyPublication
   sealer: {"none", "member", "auto", "request"}] \* who seal_operation_id belongs to

Stage == {"idle", "claim", "declare", "parse", "prepare", "finish", "ready", "failing",
          "check", "publish", "block", "returned", "thrown"}

WorkRecord == [pc: Stage, generation: 0..MaxGeneration, left: SUBSET Batch]

NoScope == [status |-> "NONE", generation |-> 0, live |-> FALSE, items |-> [b \in Batch |-> "NONE"],
            prepared |-> "none", sealer |-> "none"]
NoWork == [pc |-> "idle", generation |-> 0, left |-> {}]

\* What every write of a job requires: status, generation and a live lease.
Holds(s, generation) ==
  /\ scope[s].status = "RUNNING"
  /\ scope[s].generation = generation
  /\ scope[s].live

Complete(s) == \A b \in Batch : scope[s].items[b] = "DONE"

\* Where a job stands after the worker returned READY_TO_SEAL, or nothing.
Succeeds(s) == IF s \notin Ordinary THEN "returned" ELSE IF s \in Automatic THEN "check" ELSE "idle"
GivesUp(s) == IF s \in Ordinary THEN "idle" ELSE "thrown"

ScopeInit ==
  /\ scope = [s \in Scope |-> NoScope]
  /\ work = [p \in Process |-> [s \in Scope |-> NoWork]]

-----------------------------------------------------------------------------
(* Members *)

SetStatus(s, status) == scope' = [scope EXCEPT ![s].status = status, ![s].live = FALSE]

\* createAdmittedRun() for a member's run.
CreateRun(s) ==
  /\ s \in Ordinary
  /\ scope[s].status = "NONE"
  /\ SetStatus(s, "QUEUED")
  /\ UNCHANGED work

\* cancelScope(): everything but a sealed scope, whoever works on it.
CancelScope(s) ==
  /\ s \in Ordinary
  /\ scope[s].status \notin {"NONE", "SEALED"}
  /\ SetStatus(s, "CANCELLED")
  /\ UNCHANGED work

RetryScope(s) ==
  /\ s \in Ordinary
  /\ scope[s].status = "FAILED_RETRYABLE"
  /\ SetStatus(s, "QUEUED")
  /\ UNCHANGED work

\* Mutant: the records are published without verifyPublication.
PublishableUnverified(s) == Complete(s)

\* What publish() checks of the items and the prepared records.
Publishable(s) == Complete(s) /\ scope[s].prepared = "sound"

Seal(s, sealer) == scope' = [scope EXCEPT ![s].status = "SEALED", ![s].sealer = sealer]

\* Mutant: publish() without the question for the scope's owning request.
MemberSealsAny(s) ==
  /\ scope[s].status = "READY_TO_SEAL"
  /\ Publishable(s)
  /\ Seal(s, "member")
  /\ UNCHANGED work

MemberSeals(s) ==
  /\ s \in Ordinary
  /\ scope[s].status = "READY_TO_SEAL"
  /\ Publishable(s)
  /\ Seal(s, "member")
  /\ UNCHANGED work

-----------------------------------------------------------------------------
(* The job *)

At(p, s, pc) == work[p][s].pc = pc
Goto(p, s, pc) == work' = [work EXCEPT ![p][s].pc = pc]
Ends(p, s, pc) == work' = [work EXCEPT ![p][s] = [NoWork EXCEPT !.pc = pc]]

\* findRunnableScopes(), and #schedule(): one job of a scope per process.
Runnable(s) ==
  \/ scope[s].status = "QUEUED"
  \/ scope[s].status = "RUNNING" /\ ~scope[s].live
  \/ scope[s].status = "READY_TO_SEAL" /\ s \in Automatic

Poll(p, s) ==
  /\ s \in Ordinary
  /\ At(p, s, "idle")
  /\ Runnable(s)
  /\ Goto(p, s, IF scope[s].status = "READY_TO_SEAL" THEN "check" ELSE "claim")
  /\ UNCHANGED scope

\* Mutant: only queued scopes are claimed, a lapsed lease is never taken over.
ClaimableQueued(s) == scope[s].status = "QUEUED"

Claimable(s) ==
  \/ scope[s].status = "QUEUED"
  \/ scope[s].status = "RUNNING" /\ ~scope[s].live

\* Mutant: a takeover keeps the generation.
TakeScopeSameGeneration(p, s) ==
  /\ Claimable(s)
  /\ scope' = [scope EXCEPT ![s].status = "RUNNING", ![s].live = TRUE]
  /\ work' = [work EXCEPT ![p][s] = [pc |-> "declare", generation |-> scope[s].generation, left |-> Batch]]

\* claimScope(), once the owner of the scope has been checked.
TakeScope(p, s) ==
  /\ Claimable(s)
  /\ scope[s].generation < MaxGeneration
  /\ scope' = [scope EXCEPT ![s].status = "RUNNING", ![s].live = TRUE,
                            ![s].generation = scope[s].generation + 1]
  /\ work' = [work EXCEPT ![p][s] = [pc |-> "declare", generation |-> scope[s].generation + 1,
                                     left |-> Batch]]

Claim(p, s) == At(p, s, "claim") /\ s \in Ordinary /\ TakeScope(p, s)

ClaimBusy(p, s) ==
  /\ At(p, s, "claim") /\ s \in Ordinary
  /\ ~Claimable(s)
  /\ Ends(p, s, "idle")
  /\ UNCHANGED scope

\* Mutant: a declaration sets finished items back to PENDING.
RecordedAgain(old, status) == status

\* recordScopeItems() keeps a terminal item when the denominator is declared again.
Recorded(old, status) == IF old = "DONE" THEN "DONE" ELSE status

RecordBatch(p, s, stage, status, next) ==
  LET job == work[p][s] IN
  /\ job.pc = stage
  /\ Holds(s, job.generation)
  /\ \E b \in job.left :
       /\ scope' = [scope EXCEPT ![s].items[b] = Recorded(scope[s].items[b], status)]
       /\ work' = [work EXCEPT ![p][s] =
            IF job.left = {b} THEN [job EXCEPT !.pc = next, !.left = Batch]
                              ELSE [job EXCEPT !.left = job.left \ {b}]]

Declare(p, s) == RecordBatch(p, s, "declare", "PENDING", "parse")
Finish(p, s) == RecordBatch(p, s, "finish", "DONE", "ready")

Parse(p, s) == At(p, s, "parse") /\ Goto(p, s, "prepare") /\ UNCHANGED scope

\* The parser, the source or a deadline fails, or the heartbeat is refused for
\* any reason but a lost lease.
ParseFails(p, s) == At(p, s, "parse") /\ Goto(p, s, "failing") /\ UNCHANGED scope

\* prepare(): a second preparation finds the same records or is refused.
Prepare(p, s) ==
  /\ At(p, s, "prepare")
  /\ Holds(s, work[p][s].generation)
  /\ \E quality \in IF scope[s].prepared = "none" THEN {"sound", "unsound"} ELSE {scope[s].prepared} :
       scope' = [scope EXCEPT ![s].prepared = quality]
  /\ Goto(p, s, "finish")

\* readyToSeal() asks of the items before it asks for the lease.
Ready(p, s) ==
  /\ At(p, s, "ready")
  /\ Complete(s)
  /\ Holds(s, work[p][s].generation)
  /\ SetStatus(s, "READY_TO_SEAL")
  /\ Ends(p, s, Succeeds(s))

\* Any write of a job that no longer holds its scope: F002_STALE_SCOPE_WORKER is rethrown.
Stale(p, s) ==
  /\ work[p][s].pc \in {"declare", "parse", "prepare", "finish", "ready", "failing"}
  /\ ~Holds(s, work[p][s].generation)
  /\ Ends(p, s, GivesUp(s))
  /\ UNCHANGED scope

Fail(p, s) ==
  /\ At(p, s, "failing")
  /\ Holds(s, work[p][s].generation)
  /\ SetStatus(s, "FAILED_RETRYABLE")
  /\ Ends(p, s, GivesUp(s))

\* A transaction of the job fails: inside the try it leads to failScope(), and
\* that one, the claim and the publication leave everything to a later poll.
TransactionFails(p, s) ==
  /\ \/ work[p][s].pc \in {"declare", "parse", "prepare", "finish", "ready"} /\ Goto(p, s, "failing")
     \/ work[p][s].pc \in {"failing", "check", "publish", "block"} /\ Ends(p, s, GivesUp(s))
     \/ At(p, s, "claim") /\ Ends(p, s, GivesUp(s))
  /\ UNCHANGED scope

-----------------------------------------------------------------------------
(* Automatic publication *)

Check(p, s) ==
  /\ At(p, s, "check")
  /\ IF scope[s].status # "READY_TO_SEAL" THEN Ends(p, s, "idle")
     ELSE Goto(p, s, IF Publishable(s) THEN "publish" ELSE "block")
  /\ UNCHANGED scope

\* publish() with the stable operation auto-<run>-<scope>.
AutoPublish(p, s) ==
  /\ At(p, s, "publish")
  /\ IF scope[s].status = "READY_TO_SEAL" /\ Publishable(s) THEN Seal(s, "auto")
     ELSE UNCHANGED scope
  /\ Ends(p, s, "idle")

Block(p, s) ==
  /\ At(p, s, "block")
  /\ IF scope[s].status = "READY_TO_SEAL" THEN SetStatus(s, "BLOCKED") ELSE UNCHANGED scope
  /\ Ends(p, s, "idle")

-----------------------------------------------------------------------------
(* Time and crashes *)

\* The database's clock passes lease_until: the holder died, hung, or could
\* not reach the database in time.
ScopeLeaseExpires(s) ==
  /\ scope[s].status = "RUNNING" /\ scope[s].live
  /\ scope' = [scope EXCEPT ![s].live = FALSE]
  /\ UNCHANGED work

Crash(p) ==
  /\ work' = [work EXCEPT ![p] = [s \in Scope |-> NoWork]]
  /\ UNCHANGED scope

JobStep(p, s) ==
  \/ Poll(p, s) \/ Claim(p, s) \/ ClaimBusy(p, s) \/ Declare(p, s) \/ Parse(p, s)
  \/ ParseFails(p, s) \/ Prepare(p, s) \/ Finish(p, s) \/ Ready(p, s) \/ Stale(p, s)
  \/ Fail(p, s) \/ TransactionFails(p, s) \/ Check(p, s) \/ AutoPublish(p, s) \/ Block(p, s)

MemberStep(s) == CreateRun(s) \/ CancelScope(s) \/ RetryScope(s) \/ MemberSeals(s)

ScopeStep ==
  \/ \E s \in Scope : MemberStep(s) \/ ScopeLeaseExpires(s)
  \/ \E p \in Process, s \in Scope : JobStep(p, s)
=============================================================================
