# Traqen in TLA+

A verification project for Traqen (the sources under `src/`): TLA+ models of its stateful
components, TLC configurations that check them on small instances, and theorems with proofs checked
by TLAPS. Paths below are relative to the repository; `src/src` is its code.

Traqen captures the source material of a workspace (F001), extracts deterministic facts from it
(F002), lets models investigate it and answer questions (F003), and guards the workspaces with
accounts and grants (F008). Everything durable is a row of PostgreSQL. Server processes poll it for
work, take leases, and lose them. Nearly everything hard about the code is of one kind: a
transaction that was right when its inputs were read commits after somebody else moved the row.

## 1. Inventory

Components whose state is modelled are marked with their modules. `PROJECT.json` lists all of them
with their files and, under `hazards`, what is hard to test in each.

| component | state | operations | interacts with | hard | correct when |
|---|---|---|---|---|---|
| F001 capture runs and workers (**SourceRun**) | run rows: status, generation, lease, worker, operation, wait; drafts; backup barrier, restore flag | save draft, start, retry, cancel, claim, heartbeat, advance, fail, reconcile; cycle and stop of a process | members' requests and worker cycles share `context()`; the freeze uses its lease; backup and restore set its flags | lease takeovers, late failures, revoked starters, restores under live runs | one active run, one executor per generation, ended runs stay, restored runs wait, no run hangs |
| F001 confirmation and freeze (**SourcePublication**, **SourceFreeze**) | confirmations, publication operations, tokens, receipts | confirm, seal (request or recovery), record failure | lease of the run; evidence verification; grants | the decision, the token, the lease and the acceptance are each read before and after a long verification | one receipt, of the last valid decision; retries get the same answer; nobody signs for a member |
| F001 renewal (**SourceRenewal**) | renewal confirmations, their operations with an execution of their own, receipts | confirm, issue, heartbeat, record a failure, recover | the workers' cycle resumes it; the freeze; the backup barrier | a member's request against the cycle, refusals before a claim, dead processes | a renewal is issued or blocked with a diagnosis |
| F001 admission | none; it reads receipts | qualify a receipt, read a file | F002 and F003 read bundles through it | receipts that expire while read | readers see one receipt |
| F001 uploads and staging (**SourceStaging**) | checkpoints and chunks of runs, decisions and results of a release | upload a chunk, reuse the prefix of a failed run, abandon, plan, delete | run lease; file system; backups protect what they list | a file linked before its row commits; release against reuse and against a backup of unknown membership | no checkpoint without its chunk, what was released stays away, what a backup lists stays |
| F001 material, blobs, git | entries and dispositions, encrypted files, in-flight reservations, a cache | enumerate, freeze a manifest, put, read | run lease; file system; git | quotas given back on every path | counters return to zero |
| F001 backup and restore (flags in **SourceRun**, attempts in **SourceStaging**) | barrier, exclusive lock, attempts, archives | create, recover abandoned, restore | every write looks at the barrier | crash with the barrier up, two restores in a row | nothing written during a backup; restored work waits for a member |
| F002 scopes and facts (**FactScope**) | scopes with leases, work items, prepared records | create, claim, declare, prepare, finish, ready, fail, publish, block, cancel, retry | evidence requests own scopes | late jobs of an earlier lease, items recorded by several generations, publication against cancellation | one executor per generation, sealed only when complete and verified, decisions stand |
| F002 evidence requests (**FactRequest**) | requests, derived scopes, a budget account and reservations | submit, execute, cancel, reserve, settle, release | F003 through a binding; scopes | takeover after reserve or derive; an investigation that stops; the deadline | account = sum of its reservations; what a request says is so; nothing published after its end |
| F003 investigations (**Investigation**, **CallOnce**) | the row, checkpoints, model-call events, usage; jobs, timers and promises of each process | start, pause, resume, cancel, adopt; dispatch, claim, reserve, begin, finish, checkpoint, complete, fail, release | model adapters; F002 requests for adopted versions; backup barrier | calls that outlive their job; a result that comes after a pause, an adoption or a takeover; shutdown | no call is repeated unasked, budget kept, results rest on current calls, members' decisions stand, nothing hangs |
| F003 work sessions (**WorkSession**) | versions of sessions with their binding, questions, continuations | ask, continue, feedback, adopt a graph | start investigations, take their published results | prepare in one transaction, read in another, admit in a third; repeated requests | admitted only on the version that was prepared |
| F003 publication, authority, graphs | published graphs, authority records | publish, decide | investigations, sessions | mostly documents and their digests | |
| F008 access (**SpaceAccess**) | accounts, grants by key, applications, owners, recovery mode | apply, decide, grant, transfer, designate, suspend, migrate, recover | every request authorizes by it | hidden grants, pending transfers, last administrator, recovery | incompatible roles never active together; one owner; an administrator remains |
| workspace analysis jobs (**WorkspaceAnalysisJob**) | a log of checkpoints per job; runners and their controllers | run, pause, resume, cancel, fail, recover | the store's append under an advisory lock | read, then append: a dropped checkpoint; two runners | an end absorbs, a cancellation ends, a pause holds |
| domain, scanner, skills, analysis, runner, stores, servers, web | none of their own, or caches | pure functions, I/O | | | functional correctness |

How they interact. A run (SourceRun) ends in a prepared candidate; members confirm it and ask to freeze
it (SourcePublication), which publishes a bundle with a receipt. F002 admits the bundle, extracts
scopes, publishes a graph version. F003 starts an investigation on that version, from a work session;
its job asks models, commits a checkpoint per task, and completes with a graph. While it works it can ask
F002 for more evidence (FactRequest), whose new version a member adopts into the running investigation. A backup
raises a barrier that refuses all those writes; a restore makes the live work wait, and closes the instance until an
administrator is trusted at the terminal.

## 2. Modules

| module | models | form |
|---|---|---|
| `SourceRun` | `source-truth/repository.js`, `capture-service.js`, `capture-runner.js`, `worker.js` and the flags of `backup-service.js` | one action per transaction |
| `SourcePublication` | `confirmation-service.js`, `publication-service.js`, the seal route of `http-handler.js`, the recovery of `worker.js` | a seal call is a sequence of transactions |
| `SourceFreeze` | what confirmation and freeze promise, in four actions | abstract |
| `SourceRenewal` | `renewal-service.js`, called by requests and by the cycle of `worker.js` | claim, verify and publish are steps of a call |
| `SourceStaging` | `upload-service.js`, `staging-service.js`, the attempts of `backup-service.js` and `backup-catalogue.js` | transactions, reads outside them, the disk |
| `FactScope` | `deterministic-facts/repository.js`, `worker.js`, `lease.js`, `publication-service.js`, `runtime.js` | a job is a chain of transactions |
| `FactRequest` | `deterministic-facts/request-service.js`, composed with `FactScope` (EXTENDS) | one scope per request, driven by it |
| `Investigation` | `business-knowledge/investigation-service.js`, `worker.js`, `question-worker.js`, `runtime.js`, the model executor of `application/traceability-application.js` | job, calls and members are separate actors |
| `CallOnce` | what an investigation promises about its model calls | abstract |
| `WorkSession` | `business-knowledge/work-session-service.js`, `work-records.js` | a request is prepared, read, admitted |
| `WorkspaceAnalysisJob` | `application/workspace-analysis-job-runner.js`, the job controls of `legacy-understanding-runtime.js`, the append of the stores | read, decide, read, append |
| `SpaceAccess` | `auth/spaces.js`, `accounts.js`, `operations.js`, `core.js`, `recovery-fence.js`, events of `authorized-store.js` | one action per change |
| `SourceRunProofs`, `SourcePublicationProofs`, `SourceRenewalProofs`, `SourceStagingProofs`, `InvestigationProofs`, `FactRequestProofs`, `SpaceAccessProofs` | theorems about the module of that name | EXTENDS it |
| `ServicesProofs` | theorems about `WorkSession` and `WorkspaceAnalysisJob`, and those of `SourceStagingProofs`, under the names `MCServices` gives them | EXTENDS `MCServices` |
| `MCSourceRun`, `MCSourcePublication`, `MCInvestigation`, `MCFactRequest`, `MCRecovery`, `MCServices` | instances, slices and symmetry for TLC | |

Definitions whose comment begins with *Mutant* or *Variant* are not part of the models: each is a
plausible bug in the definition it stands next to, and `PROJECT.json` names the property that notices it.

### SourceRun

`run[r]` is the row of `source_truth_run`; `context[w][r]` is the newest generation a process holds a
context for; `job[w][r]` is `execute()` of that run in the process's cycle; `asked[w]` are requests of
members between `authorize()` and the lease. Every transaction of the code locks the workspace row, or
is one UPDATE, so each is one action: `context()` is three (`RequestContext`/`JobContext`, then
`ContextHeartbeat`, `ClaimRun` or `ContextBusy`), the cycle is `Pick`, then `JobNext` until `JobEnds` or
`RecordFailure`. `lease` is `lease_until > now`: it may lapse at any moment (`LeaseExpires`). `Crash`
and `Stop` end a process; identities of these processes are never reused (a UUID each). `RestoreFence`
is the SQL a restore appends; `RestoreOpen` ends it. Source bytes are reduced to two facts: the directory was listed, the
bytes arrived. `Begun` chooses the existing operation or a new one, which SourcePublication decides.

Left out: policy revisions, progress counters, audit rows, list queries; the refusal of a retry whose
staging was released (SourceStaging has it); that a request of the same process may also find the lease busy.

### SourcePublication

The state is the run's row, confirmations in order, one operation per confirmation, tokens with their
binding, receipts, and the calls in progress. A call of a member (`Request`) or of a process's job (`Worker`)
goes `asking → leased → begun → verified → free`, with the `recovering` branch of `seal()`'s catch. The
objections are in the code's order (`BeginObjection`, `CommitObjection`), because which error a job ends
with decides what `recordFailure()` writes (`Verdict`). Acceptances of gaps expire, members are revoked, the barrier
moves, leases lapse and processes die between any two transactions.

The model shows one consequence a reader may not expect. When the worker resumes a freeze and a member confirms
anew meanwhile, `begin()` or the commit objects with `SOURCE_CONFIRMATION_STALE`; `execute()` (`worker.js:70`) counts that
neither as ignored nor as transient, so `recordFailure()` puts the run, now in review with the new confirmation, into BLOCKED, and the
member has to start another.

Left out: single-gap acceptance (`acceptCandidateGap`), which adds rows that a later confirmation reads, and a
change of the deployment's policy revision, which refuses a commit with an error of its own.

### SourceRenewal

`renewal[c]` is a renewal confirmation with its operation: who issued it, the execution generation, and the three facts `recover()` asks of it (`live`, `deferred`,
`blocked`). `call[k][c]` is `issue()` of it by a request or by a cycle: `Issue` (or `Pick` outside a transaction, then `RecoveryClaims`), `Verify` for the
heartbeats around the verification of evidence, `Commit`, and `RecordFailure` for the catch. `Refused` is what the catch of `recover()` has to tell apart: an error before the
claim is recorded at the generation that was read, one that says another execution is under way is not.

Left out: client tokens, a changed policy revision, later confirmations of the same bundle, the acceptance of single gaps.

### SourceStaging

`row[r]` are the upload checkpoints of run `r` by place, each naming the run whose chunk it is; `bytes` is the
disk; `decision` and `result` are the two tables of a release. `Publish` is the lease's transaction with the link and the
row, `PublishFails` the one that fails after the link. A retry reads the prior run's checkpoints outside the lease
(`ReadPrefix`) and inserts them inside (`InsertPrefix`). A release abandons (`AskRelease`), lists outside a transaction, then
decides and deletes chunk by chunk, each under the workspace row; `DeleteUnrecorded` is the crash between the unlink and the commit. A
backup is its phases, because protection depends on how far it came: a target that may be sealed and whose members are not
all indexed protects every chunk (`Unverified`).

What the properties do *not* say, because the code does not: bytes that were linked by a transaction that failed, and bytes of a
chunk sent again whose row came from the prior run, have no checkpoint and are never released; a decision to RETAIN stands for
that run although what protected the chunk goes away, but the last abandoned run that refers to it may still release it.

Left out: restores and restored chunks, more than one upload to a run at a time, whole files (`finishFile`), paging of a
release of more than 100 chunks.

### FactScope and FactRequest

`scope[s]` is the row of `f002_scope` with its items and prepared records; `work[p][s]` is the job of a scope in a process, from
`Poll` over `declare, parse, prepare, finish, ready` to `check, publish` or `block` for automatic publication. Every write asks for
status, generation and a live lease (`Holds`); `Stale` is the write of a job that lost them. Items are batches, so that two
generations may each have recorded a part. `prepared` is sound or not: what `verifyPublication` tells apart.

A request's execution (`exec[p][r]`) is `execute()`: plan, reserve, assert, create, run, await, nochange or publish, complete, and
its catch; the scope it derives is the scope of its name, and the job of that scope is FactScope's. The investigation is
`consumer` (it answers while RUNNING under a lease) and `late` (its deadline); `plan` is what the base version makes of the
request.

Consequences of the code that the model keeps: a reservation stays RESERVED when a takeover meets the passed deadline in `Reserve`,
with the derived scope left open; a takeover that finds the lease of its derived scope live ends in `F002_SCOPE_LEASE_BUSY` and FAILED; the lease of a request is never
renewed, so a derivation of more than 60 seconds cannot end in a version; requests of an investigation that stopped can neither be executed nor
cancelled, and stay at the head of the poll; the cancellation of a request whose scope was sealed gives its budget back; the last
transaction of `execute()` is returned, not awaited, so its failure goes to no catch. `execute()` treats `F002_CONSUMER_REJECTED` apart, but the
resolver of the product throws its own errors, so the derived scope of a stopped investigation stays open.

Left out: the admission of a bundle, profiles, progress rows, the limit on concurrent jobs, the page of the poll, the readers, the budget's dimensions other than attempts.

### Investigation

`row` is `f003_investigation`, without its JSON. `calls[<<g, t>>]` is the reservation of task `t` by generation
`g` with what the events say of it: started, outcome, the row's generation when it was recorded, the
adopted basis, whether the checkpoint is committed, and where the code that executes the call is
(`client`). `jobs[p]` is `InvestigationWorker.run` of a process with its place, its generation, its basis, and
why its signal is aborted. The important separation is between job and call: `abortable` lets a job
end while the promise of its call goes on, so `Begin`, `Answer`, `FinishSucceeded`, `FinishFailed` are steps
of their own that may come after the job ended, after a takeover, or after a pause. `handlers` are HTTP handlers between
the transaction of a control and their `worker.stop`. Comparisons of event times in the code
are comparisons with the generation of the row, because each control, claim and release raises it.

Left out: `expectedRevision` (a refused control is a stutter), the read-byte budget, the material, input and
technical-evidence stages (no call of a model), competition of several investigations for the poll, revocation
of the actor, analysis-contract versions, and the reuse of a reservation within one generation, which the
sequential stages never ask for.

### WorkSession

`log[s]` holds the binding of a session (its graph) after each of its versions, so the version is its length. A question or a
continuation is prepared in one transaction (`Prepare`), a continuation reads the changes since its graph (`Preview`), `start()` looks
for a prior investigation and qualifies the source (`Start`), and the investigation, the record and the session's event are admitted in
another transaction (`Admit`), where `onAdmit` looks at the version again. A request stands for its operation key and digest: several
`Call`s may carry the same one. `PublishGraph` is an event, F003's publication.

Left out: contents, budgets, readiness of a graph, authority.

### WorkspaceAnalysisJob

`log` is the job's `WORKSPACE_ANALYSIS_JOB` records in the order of their sequence. A runner and a command of a member go through the same
three steps: decide on what they read, read again for the next sequence (`ReadLog`, `Read`), append (`WriteLog`, `Write`). The append is `Accepts`: not behind
an end, and only with the next sequence, except a cancellation. `controller` is the one `AbortController` the runtime keeps for a job.

Consequences the model keeps: the `finally` of `#runAuthorized` forgets whichever controller is kept, so a runner that leaves may take the
controller of a newer one; a job resumed before its aborted runner stopped can be paused again by that runner; a dropped checkpoint loses the record of a completed phase, so a COMPLETED job
may lack phases in `done`; a pause that loses the race is finding 2.

Left out: what a phase produces, the worker process behind a handler, two server processes at once.

### SpaceAccess

`grants[a][k]` are the roles of an account under each `grantKey` of one space; `RolesIn` is what is in force: nothing for an account that is not
active, no `ADMIN` grant for one that is no administrator. `repository.js` runs every change in one transaction under the row of `auth_control`, so
each operation is one action, with its refusals as guards. Recovery is `EnterRecovery` (also the fence of a restored archive), `RestoreOldArchive`,
`TrustRecoveryAdmin`, `FinishRecovery`.

Left out: programs and their members, visibility and settings, sessions and their ends (whoever may log in may hold one), notices, the audit, the
repetition of an answered request. Its `TypeOK` is in no run (`TypeCorrect` proves it).

## 3. What the runs check

Deadlock is checked in the runs of SourceRun, SourcePublication, the facts and the recovery, where something can always happen; the runs of
Investigation and the services turn it off, because an investigation that ended without processes to restart, or a service whose bounds
are used up, has nothing left to do.

| run | instance | properties | what it shows |
|---|---|---|---|
| `run_safety` | 2 runs, 2 drafts, 2 members, 2 processes, 3 generations, in the slices `Contended` and `Retried` | TypeOK, OneExecutor, OneActiveRun, RunFollowsDraft, EndedRunsStay, RestoredRunWaits | claims, heartbeats, takeovers, retries, cancels, late failures, crashes, stops and a restore interleave |
| `run_liveness` | 1 run, 2 processes, 2 generations, 2 operations | NoRunHangs | a run in the workers' hands leaves them, also with its starter revoked |
| `freeze_race` | 2 members, 2 requests, 2 processes, 2 tokens, 2 confirmations, 2 acceptances, 2 generations, in the slices `Alone` and `Together` | TypeOK, OneReceipt, TokensBind, AnswersAgree, NoAutoSign, KeepsFreeze | a request races the recoveries of two processes, or another member's; the freeze implements `SourceFreeze` |
| `freeze_liveness` | 2 processes, 1 request, 3 generations | SealSettles | a freeze that was asked for ends |
| `investigation_steering` | 1 process, 2 tasks, 2 model calls, 3 generations, 1 adoption; crash, close, deadline, backup, model errors, all controls; fair | TypeOK, ResultIsCurrent, KeepsCallOnce, DecisionsStand, NoInvestigationHangs | a member acts between any two steps; implements `CallOnce`; everything settles |
| `investigation_question` | 2 processes, 2 tasks, 2 model calls, 3 generations; crash, lapse, model errors, backup, resume | NoReplay, BudgetKept | a question's task is sent once, its unsent reservation reused free of charge |
| `investigation_shutdown` (violation) | 1 process, 2 tasks; only `close` | ShutdownIsNoFailure | finding 3 |
| `facts` | 1 ordinary scope, 2 requests with their scopes, 2 processes, 2 batches, 2 generations, budget 1, in slices | TypeOK, LedgerKept, OneScopeExecutor, ReadyIsComplete, OutcomeIsTrue, ScopeDecisionsStand, EndedPublishesNothing | late jobs and takeovers of scopes and requests, cancellations, a stopping investigation, a deadline, a shared budget |
| `recovery_liveness` | 1 scope or 1 request alive (1 process, 1 batch, 2 generations), or 1 renewal (1 member, 1 process, 1 request, 2 executions) | ScopesSettle, RequestsEnd, RenewalsSettle | scopes reach a decision, requests end, renewals are issued or blocked |
| `services` | four parts, see below | OneOwner, AdminRemains, ConflictsOnlyReturn, ManagersAppointed; EndHolds; ReferencedIsThere, ReleasedStaysGone, BackupsKept; AdmittedAsSeen | access, analysis jobs, staging, work sessions |
| `access_conflict` (violation) | as `services` | NoConflict | finding 1 |
| `job_pause` (violation) | as `services` | PausedWaits | finding 2 |

**Sums of slices.** Where the product of all that may happen is too large, a run explores the union of slices of one instance: a step is taken
if its next state lies in a slice. `run_safety` and `facts` say so by a state constraint, the others in their specification. A slice holds still what its question
does not need. `run_safety`: one run contended for by everybody (the third generation only among the jobs of its own member), or
two runs and two drafts in one member's hands. `freeze_race`: the processes and one request of the starter, or two requests of two members in one
process. `facts`: the ordinary scope alone, one request alone with two processes, or two requests in one process and one generation, for the shared budget. `services` is a sum of four modules
that share nothing: one moves and the others rest, so their states add up; the identities of accounts, runs and requests are the same three
model values, which lets TLC use one symmetry. Its parts are again sliced (`AccessSlice`, `JobSlice`, `StagingSlice`, with the reasons beside them). `recovery_liveness` is the same kind of sum, of `FactRequest` and `SourceRenewal`.

**Bounds and why they are enough.** Two processes are what a takeover needs; a third would only repeat the
second, since a fence compares with the row, not with other processes. Generations bound claims, fences and
controls: two give a lease that is lost with a stale writer, three one that is lost twice, or a control, its answer and a claim. Two confirmations are what staleness needs,
two tokens what a conflict needs. Two tasks tell a reused checkpoint from a repeated call. Two batches let two generations
record a part each; a budget of one with two requests is the budget at its limit. Access has three accounts, the two that act on each other and
the one that is left, and one role of each excluding group beside the manager's, since the code compares with these groups only. Three runs are a run, its
retry and the retry of that, two chunks a prefix that is shorter than the file; two runners are a runner that was aborted and the one that took its
place; three versions of a session the one that was seen, the one another member made, and the next. In the models the bounds stand in
guards (`Room`, `generation < MaxGeneration`) and are never an invariant; each is a CONSTANT the theorems quantify over.
Symmetry is used in runs without liveness, over identities no definition orders.

**Fairness.** *SourceRun, SourcePublication*: a live process goes on with its cycle and its job (`dispatch()` runs on a timer and a
cycle awaits its jobs), an ended process is started again, the lease of an ended process lapses, a restore ends. Nothing is assumed of
members, requests, or a live process keeping its lease. *Investigation*: the poll runs (a timer, and errors of a poll are swallowed),
a job and a call go on, a process that ended is restarted, the lease that nobody renews and the deadline pass, a backup ends. *FactRequest*: the pollers run (timers
of `runtime.js`), jobs and executions take their steps, the lease of a request passes because nothing renews it, that of a scope nobody works on too; where a transaction may fail and be
tried again by a later poll (claims, automatic publication) fairness is strong: the database does not fail every time. *SourceRenewal*: the cycle recovers, a call goes on or dies, a failure is recorded unless the process died, an execution nobody heartbeats lapses, a retry falls due; requests need never come. `NoRunHangs` and
`SealSettles` except a run that used up the model's generations and assume that backups come to an end;
`ScopesSettle` and `RequestsEnd` except a scope or request that may be claimed again and has used up its generations; `RenewalsSettle` a renewal that did, and assumes that backups come to an end; `RequestsEnd` also one whose investigation does not answer, which the code leaves
to a later poll. `NoInvestigationHangs` assumes that processes stop dying at some time, as any system of retries must.

**Mutants.** Every property of every passing run is violated by at least one mutant of a modelled definition: a dropped
guard, a fence that is not compared, a check made once instead of twice.

## 4. What is proved

For all values of the constants, under the named assumptions of the modules (names are distinct, bounds are
numbers), with the SMT, Zenon and PTL backends:

| module | theorem | statement |
|---|---|---|
| SourceRunProofs | TypeCorrect, OneActiveRunCorrect, EndedRunsStayCorrect, OneExecutorCorrect, RunFollowsDraftCorrect, RestoredRunWaitsCorrect | `Spec => []TypeOK`, … |
| SourcePublicationProofs | TypeCorrect, OneReceiptCorrect, AnswersAgreeCorrect, TokensBindCorrect, NoAutoSignCorrect, KeepsFreezeCorrect | the last is the refinement `Spec => Freeze!Spec` |
| SourceRenewalProofs | CurrentExecutionCorrect, RenewalStandsCorrect | `Spec => []CurrentExecution`, `Spec => RenewalStands` |
| SourceStagingProofs | ReferencedIsThereCorrect, ReleasedStaysGoneCorrect, BackupsKeptCorrect | `Spec => []ReferencedIsThere`, … |
| InvestigationProofs | TypeCorrect, NoReplayCorrect, DecisionsStandCorrect, BudgetKeptCorrect, ResultIsCurrentCorrect, KeepsCallOnceCorrect | the last is the refinement `Spec => Once!Spec` |
| FactRequestProofs | TypeCorrect, LedgerKeptCorrect, OneScopeExecutorCorrect, ReadyIsCompleteCorrect, OutcomeIsTrueCorrect, ScopeDecisionsStandCorrect, EndedPublishesNothingCorrect | `Spec => []LedgerKept`, … |
| SpaceAccessProofs | TypeCorrect, OneOwnerCorrect, AdminRemainsCorrect, ConflictsOnlyReturnCorrect, ManagersAppointedCorrect | `Spec => []OneOwner`, … |
| ServicesProofs | AdmittedAsSeenCorrect, EndHoldsCorrect, and the three of staging | `Work!Spec => []AdmittedAsSeen`, `Job!Spec => EndHolds`, … |

*SourceRun.* `OneExecutor` alone is not inductive: a process could hold a context of a generation
that is still to come, and another claim it. `ExecutorInv` adds `ContextsBehind` (no context is ahead of its row). Only `ClaimRun` raises a
generation for a process, and hands it to that one. `RestoredRunWaits` needs `JobsRest`: no job is under way for a restored run, since the fence ends every process with
its jobs and no cycle selects the run; without it a late `RecordFailure` could move the run.

*SourcePublication.* `FreezeInv` is `TypeOK`, `Pointer` (the run names the latest confirmation while it freezes, and only that one is committed), `Bindings` (tokens lead to
operations), `AnswersAgree`, and `Relies(k)` for every call: what a call in each phase may still rely on although others moved since. `Relies` is needed because a
call takes its confirmation and token in one transaction and uses them in later ones: its token is still its own at the commit
(`TokensBind`, `AnswersAgree`), and a job whose freeze a member or an expiry took back to the review can no longer begin it,
because its confirmation is not the latest or not valid (`NoAutoSign`). `Pointer` carries `OneReceipt`. `KeepsFreeze` then maps `Confirm` to `Decide`, `Commit` to `Publish`, cancel and failure to
`End`, everything that moves grants, expiry and the barrier to `Change`, the rest to a stutter.

*Investigation.* `NoReplay` compares two calls that were sent; it is not inductive, because the decision to repeat is made when a call is *reserved*,
two transactions before it is sent. `CallsInv` therefore states it of reservations (`Ordered`), and adds `CallFacts` (no reservation of a generation to come; an outcome is recorded once,
by code that then is done), `ResumeFacts` (a resume is not ahead of the row) and `JobFacts` (each job works for a generation of its own, and has reserved nothing beyond
its task). The step that matters is `RetryAfterFailure`: `reserveModelCall` looks only at the *last* reservation of the task, and the lemma shows, by the greatest element and
the induction hypothesis, that this covers all earlier ones. `DecisionsStand` needs only the types and `ResumeFacts`. `BudgetKept` is
inductive over `CallsInv`: `ReserveModelCall` is the only step that changes what is reserved or charged, and it either adds one charged element or reuses an unsent reservation of a question.

`ResultIsCurrent` compares a result with what its job has in hand, which is older than the row. `ResultInv` adds to `CallsInv` that a saved checkpoint is that of a sent call that succeeded
(`SavedFacts`), that a job's place stands for the tasks it has behind it, each cached for the job's basis, and that a job of the row's generation has the row's basis (`WorkFacts`). A checkpoint once
cached for a basis stays so (`CallKept`), so what the job found in earlier transactions still holds when it completes; an adoption raises the generation, and the completion of an older one is refused.
`KeepsCallOnce` maps the state to a phase for each task and basis, that of the *last* call sent for it. The lemmas `PhaseIs` and `LastExists` take the CHOOSE apart; then a send, which by
`CallsInv` only happens with no other sent call, or after a failure with a later resume, is `Send`; the end of a sent call, which `Ordered` shows to be the last one, is `Settle`; a member's resume is `AskAgain`; reservations are no
steps of `CallOnce`.

*FactRequest.* One invariant carries all seven theorems, because types alone are not inductive here: a generation stays in its bounds only as no job is ahead of its row. For scopes: `JobsBehind`, `OneScopeExecutor`, `JobsPrepared` (a job past
its preparation finds the records prepared, although a takeover may have declared the items again), `OwnJobs` (the job of a derived scope runs inside the execution that drives it), `Sealers`. For requests: `Asked` and `Answers` (an execution knows where it goes on, and a version in its hand is sealed), `Linked` (a request is linked to
its scope exactly from the scope's creation), `Unborn` and `OutcomeIsTrue`. `LedgerInv` adds that the account is the number of requests that hold a reservation or used it up. Each step is classified by what it does to one scope (`ScopeEffect`, `JobMoves`) and to one
request (`RowMoves`, `Reserves`, `UsesUp`, `GivesBack`, `Spares`); the invariants are proved from these classes, not from the 40 actions.

*SpaceAccess.* `AccessInv` is `TypeOK`, `AdminRemains`, `OneOwner` and `Unowned` (a space that does not exist has no owner). Each step is a step of the accounts, of an application, of the row of the space, of a manager's grants, of the
ownership or the restore of an old archive, and only the last two move OWNER. `ConflictsOnlyReturn` and `ManagersAppointed` follow from what each class writes: the guards look at the roles in force after the write, so hidden roles are outside them (finding 1).

*SourceRenewal.* `CurrentExecution` says that while an execution is live no other call is at its generation, neither one that executes, nor a cycle that read the operation, nor a failure still to be recorded, and that no earlier diagnosis or delay stands.
It needs `CallsBehind`: a claim hands out a generation beyond all of them, and a cycle reads only what nobody executes. `RenewalStands` (one member, one receipt) needs that an operation names its member from its creation. Both are stated in the
module and proved; no run lists them.

*SourceStaging.* `ReferencedIsThere` needs the chain of retries: a run that is tried again failed, and is abandoned only with its retries (`Parents`); a checkpoint names the run itself or one that ended (`Owners`); what a retry has read outside its lease is still what the prior run has
(`Copies`). So when a release finds a chunk free, nobody can take it over any more. `ReleasedStaysGone` needs `ResultsEnded` (a result is of a run that ended, and only a live run publishes), `BackupsKept` an invariant of each attempt
(`AttemptsInv`): from the end of its copy on, what it lists is on disk, because as long as it may have sealed and its index is not complete nothing is free.

*WorkSession and WorkspaceAnalysisJob.* `WorkInv`: versions a member saw are versions the session has had since (logs grow), a call carries the binding of the version it was asked on, and an admission keeps both. `JobInv`: the command `cancel` writes CANCELLED and nothing else; that a log has
a *first* end is by the least-number argument below.

Induction over numbers is used in one form: a non-empty set of numbers has a least element (`LeastNumber`, `Greatest`), from `WFMin` and `NatLessThanWellFounded` of the library.

Only model-checked: `NoRunHangs`, `SealSettles`, `NoInvestigationHangs`, `ScopesSettle`, `RequestsEnd` and `RenewalsSettle`, which are liveness under fairness (the provers have no rule for ENABLED and the fairness of it). So every
invariant and every action property of a passing run is also a theorem. The theorems about the services are about each of their specifications; that `MCServices` lets them move in turn adds nothing, for they share no variable.

## 5. Findings

1. **Hidden roles come back beside incompatible ones.** `decide()` (and `migrate()`) compares the roles it grants with `rolesIn()`, which hides a derived grant while its account is no
   administrator, and every grant while it is disabled. When the account is made administrator or enabled again, nothing checks them, and one account holds a business and a
   compliance role of one space, which the design of F008 excludes. What the code does keep is `ConflictsOnlyReturn`: no grant makes such a conflict among roles in force. Run `access_conflict`.
2. **A paused job can go on by itself.** `#persist` reads the log and appends afterwards; a runner whose phase ended before it saw a pause appends its RUNNING or COMPLETED checkpoint
   behind the PAUSED one. The documents say that only the user's resume goes on. Run `job_pause`.
3. **A shutdown can fail the investigation it interrupts.** With the product's model executor a call in progress is STARTED when the host closes; after the restart the task
   is refused (outcome unknown, or a retry that needs a resume) and the job fails. `test/f003-shutdown.test.js` expects it to complete,
   with an executor that never begins its calls. Run `investigation_shutdown`.

## 6. Not modelled

- *Pure functions*: `src/src/domain`, the extraction of facts and its rules, graphs and contexts of F003, digests, validation, the scanner. They are most of the code's
  lines and keep no state; their correctness is that of functions over documents, which unit tests reach and TLC would only restate.
- *Compositions over a store* (`application/traceability-application.js`, `legacy-understanding-runtime.js` beyond the analysis jobs, `storage/*`): calls of domain functions between a read and a write of one
  record. What concurrent use asks of the stores is modelled where it is used (the append of an analysis job).
- *I/O*: git capture, the controlled runner, model adapters, HTTP routing, cookies and password hashing, start-up, the web interface, scripts. An external model is a call that answers or errs.
- *Left for later*: the admission of a bundle by its receipt, the quota and volume checks of the blob store, restores of restores. The hazards without a property in `PROJECT.json` name them.

## 7. Plan

A module is written to be proved about as well as checked (constants with assumptions, no recursive operators). Done: `SourceRun`, `SourcePublication` with `SourceFreeze`, `Investigation` with `CallOnce`,
`FactScope` and `FactRequest`, `SpaceAccess`, `WorkspaceAnalysisJob`, `SourceStaging`, `WorkSession`, `SourceRenewal`.

Next proofs: an abstract specification of a leased row (one holder per generation, a stale holder writes nothing) that `SourceRun` and `FactScope` both implement; the types of `WorkSession` and `WorkspaceAnalysisJob` as theorems of
their own.

Next modules: the admission of a bundle by a receipt, `BlobStore` (reservations of a quota), nested restores, and pure functions of `domain` against
reference definitions.
