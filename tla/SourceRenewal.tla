---------------------------- MODULE SourceRenewal ----------------------------
(* The renewal of accepted gaps of a frozen bundle: confirm(), issue() and   *)
(* recover() of src/source-truth/renewal-service.js, which the cycle of      *)
(* src/source-truth/worker.js calls.                                         *)
(*                                                                           *)
(* Every transaction holds the rows of the project and the workspace, so     *)
(* each is one action. issue() claims an operation, verifies the evidence    *)
(* outside any transaction and publishes the receipt; recover() reads the    *)
(* operations nobody executes and issues each in its member's name. Tokens,  *)
(* a changed policy revision and single-gap acceptance are left out.         *)
EXTENDS Naturals

CONSTANTS
  Member,         \* members of the workspace
  Worker,         \* server processes
  Asker,          \* HTTP requests in progress, none of them a Worker
  Renewal,        \* renewal confirmations; each has at most one operation
  MaxExecution    \* bound: execution generations of an operation

VARIABLES
  maintainers,    \* members who may maintain the sources
  paused,         \* backup_barrier, or a restore is not verified
  expired,        \* confirmations whose acceptance ran out
  renewal,        \* the confirmation, its operation and its receipt
  call            \* issue() of a confirmation by a request or a cycle

vars == <<maintainers, paused, expired, renewal, call>>

Caller == Worker \cup Asker

NotConfirmed == [status |-> "NONE", actor |-> {}, generation |-> 0,
                 live |-> FALSE,         \* execution_until > clock_timestamp()
                 deferred |-> FALSE,     \* retry_after > clock_timestamp()
                 blocked |-> FALSE]      \* recovery_blocked
NoCall == [pc |-> "idle", generation |-> 0, error |-> "none"]

Init ==
  /\ maintainers = Member
  /\ paused = FALSE
  /\ expired = {}
  /\ renewal = [c \in Renewal |-> NotConfirmed]
  /\ call = [k \in Caller |-> [c \in Renewal |-> NoCall]]

Goes(k, c, pc) == call' = [call EXCEPT ![k][c].pc = pc]
Ends(k, c) == call' = [call EXCEPT ![k][c] = NoCall]
Errs(k, c, error) == call' = [call EXCEPT ![k][c] = [@ EXCEPT !.pc = "failing", !.error = error]]

Outside == <<maintainers, paused, expired>>

---------------------------------------------------------------------------
Confirm(c) ==
  /\ maintainers # {}
  /\ renewal[c].status = "NONE"
  /\ renewal' = [renewal EXCEPT ![c].status = "CONFIRMED"]
  /\ UNCHANGED <<Outside, call>>

\* The first transaction of issue() passes: the operation is created, or it is
\* one that nobody executes now, of the same member.
MayIssue(a, c) ==
  /\ a \in maintainers
  /\ ~paused
  /\ \/ renewal[c].status = "CONFIRMED" /\ c \notin expired
     \/ renewal[c].status = "PREPARING" /\ ~renewal[c].live /\ renewal[c].actor = {a}

Claim(k, a, c) ==
  /\ MayIssue(a, c)
  /\ renewal[c].generation < MaxExecution
  /\ LET generation == renewal[c].generation + 1 IN
     /\ renewal' = [renewal EXCEPT ![c] = [@ EXCEPT !.status = "PREPARING", !.actor = {a},
                      !.generation = generation, !.live = TRUE, !.deferred = FALSE, !.blocked = FALSE]]
     /\ call' = [call EXCEPT ![k][c] = [NoCall EXCEPT !.pc = "verify", !.generation = generation]]

\* A request that is refused has changed nothing.
Issue(k, a, c) ==
  /\ call[k][c].pc = "idle"
  /\ Claim(k, a, c)
  /\ UNCHANGED Outside

Recoverable(c) ==
  /\ renewal[c].status = "PREPARING"
  /\ ~paused
  /\ ~renewal[c].blocked /\ ~renewal[c].deferred /\ ~renewal[c].live

\* recover() reads the operations outside a transaction.
Pick(w, c) ==
  /\ call[w][c].pc = "idle"
  /\ Recoverable(c)
  /\ call' = [call EXCEPT ![w][c] = [NoCall EXCEPT !.pc = "picked", !.generation = renewal[c].generation]]
  /\ UNCHANGED <<Outside, renewal>>

RecoveryClaims(w, c) ==
  /\ call[w][c].pc = "picked"
  /\ \E a \in renewal[c].actor : Claim(w, a, c)
  /\ UNCHANGED Outside

\* The member of the operation.
MayMaintain(c) == renewal[c].actor \subseteq maintainers

\* Mutant: a failure before the claim is nobody's.
RefusedUnrecorded(w, c) == Ends(w, c)

\* recover() records a refusal at the generation it read; an operation that is
\* committed or executed by now is none.
Refused(w, c) ==
  IF ~MayMaintain(c) THEN Errs(w, c, "final")
  ELSE IF renewal[c].status = "COMMITTED" \/ renewal[c].live THEN Ends(w, c)
  ELSE Errs(w, c, "retry")

RecoveryRefused(w, c) ==
  /\ call[w][c].pc = "picked"
  /\ ~\E a \in renewal[c].actor : MayIssue(a, c)
  /\ Refused(w, c)
  /\ UNCHANGED <<Outside, renewal>>

---------------------------------------------------------------------------
(* The execution *)

Holds(k, c) == renewal[c].live /\ renewal[c].generation = call[k][c].generation

\* Heartbeats before and during the verification; the error of a lost
\* execution is not recorded.
Verify(k, c) ==
  /\ call[k][c].pc = "verify"
  /\ IF ~MayMaintain(c) THEN Errs(k, c, "final")
     ELSE IF ~(Holds(k, c) /\ renewal[c].status = "PREPARING") THEN Ends(k, c)
     ELSE Goes(k, c, "commit")
  /\ UNCHANGED <<Outside, renewal>>

\* The evidence is damaged or cannot be read, the process stops, a
\* transaction fails.
Fails(k, c, error) ==
  /\ call[k][c].pc \in {"verify", "commit"}
  /\ Errs(k, c, error)
  /\ UNCHANGED <<Outside, renewal>>

Commit(k, c) ==
  /\ call[k][c].pc = "commit"
  /\ \/ ~MayMaintain(c) /\ Errs(k, c, "final") /\ UNCHANGED renewal
     \/ /\ MayMaintain(c)
        /\ renewal[c].status = "COMMITTED" \/ ~Holds(k, c)
        /\ Ends(k, c) /\ UNCHANGED renewal
     \/ /\ MayMaintain(c) /\ renewal[c].status = "PREPARING" /\ Holds(k, c)
        /\ IF paused THEN Errs(k, c, "retry") /\ UNCHANGED renewal
           ELSE IF c \in expired THEN Errs(k, c, "final") /\ UNCHANGED renewal
           ELSE Ends(k, c) /\ renewal' = [renewal EXCEPT ![c].status = "COMMITTED"]
  /\ UNCHANGED Outside

\* recordFailure() asks for the generation, not for the execution's lease.
RecordFailure(k, c) ==
  /\ call[k][c].pc = "failing"
  /\ renewal' =
       IF renewal[c].status = "PREPARING" /\ renewal[c].generation = call[k][c].generation
       THEN [renewal EXCEPT ![c] = [@ EXCEPT !.live = FALSE,
               !.deferred = call[k][c].error = "retry", !.blocked = call[k][c].error = "final"]]
       ELSE renewal
  /\ Ends(k, c)
  /\ UNCHANGED Outside

\* The process dies, or the transaction of recordFailure() fails.
Dies(k, c) ==
  /\ call[k][c].pc # "idle"
  /\ Ends(k, c)
  /\ UNCHANGED <<Outside, renewal>>

---------------------------------------------------------------------------
(* Members, backups and the clock *)

SetMaintainer(a) ==
  /\ maintainers' = IF a \in maintainers THEN maintainers \ {a} ELSE maintainers \cup {a}
  /\ UNCHANGED <<paused, expired, renewal, call>>

Pause == ~paused /\ paused' = TRUE /\ UNCHANGED <<maintainers, expired, renewal, call>>
Unpause == paused /\ paused' = FALSE /\ UNCHANGED <<maintainers, expired, renewal, call>>

AcceptanceExpires(c) ==
  /\ renewal[c].status # "NONE" /\ c \notin expired
  /\ expired' = expired \cup {c}
  /\ UNCHANGED <<maintainers, paused, renewal, call>>

ExecutionLapses(c) ==
  /\ renewal[c].live
  /\ renewal' = [renewal EXCEPT ![c].live = FALSE]
  /\ UNCHANGED <<Outside, call>>

RetryIsDue(c) ==
  /\ renewal[c].deferred
  /\ renewal' = [renewal EXCEPT ![c].deferred = FALSE]
  /\ UNCHANGED <<Outside, call>>

CallStep(k, c) ==
  \/ Verify(k, c) \/ Commit(k, c) \/ RecordFailure(k, c) \/ Dies(k, c)
  \/ \E error \in {"retry", "final"} : Fails(k, c, error)

Next ==
  \/ \E c \in Renewal :
       \/ Confirm(c) \/ AcceptanceExpires(c) \/ ExecutionLapses(c) \/ RetryIsDue(c)
       \/ \E k \in Asker, a \in Member : Issue(k, a, c)
       \/ \E w \in Worker : Pick(w, c) \/ RecoveryClaims(w, c) \/ RecoveryRefused(w, c)
       \/ \E k \in Caller : CallStep(k, c)
  \/ \E a \in Member : SetMaintainer(a)
  \/ Pause \/ Unpause

Spec == Init /\ [][Next]_vars

\* The cycle recovers again and again, calls take their steps, the clock runs.
\* Strong fairness where a barrier or a death comes in between.
Unattended(c) == \A k \in Caller : call[k][c].generation # renewal[c].generation

Fairness ==
  /\ \A c \in Renewal :
       /\ WF_vars(Unattended(c) /\ ExecutionLapses(c))
       /\ WF_vars(RetryIsDue(c))
       /\ \A w \in Worker :
            SF_vars(Pick(w, c)) /\ SF_vars(RecoveryClaims(w, c) \/ RecoveryRefused(w, c))
       /\ \A k \in Caller :
            /\ WF_vars(Verify(k, c) \/ Commit(k, c))
            /\ SF_vars(RecordFailure(k, c))

FairSpec == Spec /\ Fairness

---------------------------------------------------------------------------
(* Properties *)

\* A call that may still publish or stop the execution of the operation.
Concerned(k, c) == call[k][c].pc # "idle" /\ call[k][c].generation = renewal[c].generation

(* While an execution is live, the call that began it is the only one of its *)
(* generation: no cycle that read the operation before, and no failure that  *)
(* is still to be recorded, can publish, stop or block it; and what earlier  *)
(* executions left behind holds it up no more (issue, recover,               *)
(* recordFailure).                                                           *)
CurrentExecution ==
  \A c \in Renewal : renewal[c].live =>
    /\ ~renewal[c].blocked /\ ~renewal[c].deferred
    /\ \A k \in Caller : Concerned(k, c) =>
         /\ call[k][c].pc # "picked"
         /\ \A l \in Caller : Concerned(l, c) => l = k

(* A renewal is executed in the name of the member who asked first, whoever  *)
(* recovers it, and is issued once (issue).                                  *)
RenewalStands ==
  [][\A c \in Renewal :
       /\ renewal[c].actor # {} => renewal'[c].actor = renewal[c].actor
       /\ renewal[c].status = "COMMITTED" =>
            renewal'[c].status = "COMMITTED" /\ renewal'[c].generation = renewal[c].generation]_vars

(* A renewal that was asked for is issued, or waits for its member with a    *)
(* diagnosis, whatever process died with it and whoever lost the right to    *)
(* maintain (recover and recordFailure: "Before claim (e.g. revoked member), *)
(* persist a fenced diagnosis too", renewal-service.js:171), unless backups  *)
(* go on for ever or it used up the executions of the model.                 *)
Settled(c) ==
  \/ renewal[c].status = "COMMITTED"
  \/ renewal[c].blocked
  \/ renewal[c].generation = MaxExecution /\ ~renewal[c].live
RenewalsSettle ==
  <>[]~paused => \A c \in Renewal : renewal[c].status = "PREPARING" ~> Settled(c)
=============================================================================
