------------------------- MODULE SourceRenewalProofs -------------------------
(* Proofs about SourceRenewal, for any number of members, server processes,   *)
(* requests, renewals and executions.                                         *)
EXTENDS SourceRenewal, TLAPS

-----------------------------------------------------------------------------
(* Types *)

RenewalRow == [status : {"NONE", "CONFIRMED", "PREPARING", "COMMITTED"}, actor : SUBSET Member, generation : Nat,
               live : BOOLEAN, deferred : BOOLEAN, blocked : BOOLEAN]
CallRow == [pc : {"idle", "picked", "verify", "commit", "failing"}, generation : Nat,
            error : {"none", "retry", "final"}]

Typed == renewal \in [Renewal -> RenewalRow] /\ call \in [Caller -> [Renewal -> CallRow]]

\* No call is ahead of its operation.
CallsBehind == \A k \in Caller, c \in Renewal : call[k][c].generation <= renewal[c].generation

\* An operation has its member from its creation.
Named == \A c \in Renewal : renewal[c].status \in {"NONE", "CONFIRMED"} => renewal[c].actor = {}

RenewalInv == Typed /\ CallsBehind /\ Named /\ CurrentExecution

-----------------------------------------------------------------------------
(* What a step does to one confirmation and its calls *)

\* The rows of other confirmations stay, and so do their calls.
RowsElsewhere(c) == \A d \in Renewal : d # c => renewal'[d] = renewal[d]
CallsElsewhere(k, c) ==
  \A l \in Caller, d \in Renewal : ~(l = k /\ d = c) => call'[l][d] = call[l][d]

\* A row goes on without a new execution.
RowGoesOn(c) ==
  /\ renewal'[c].generation = renewal[c].generation /\ renewal'[c].actor = renewal[c].actor
  /\ renewal[c].status = "COMMITTED" => renewal'[c].status = "COMMITTED"
  /\ renewal'[c].status \in {"NONE", "CONFIRMED"} => renewal[c].status \in {"NONE", "CONFIRMED"}
  /\ renewal'[c].live => /\ renewal[c].live
                         /\ renewal'[c].blocked => renewal[c].blocked
                         /\ renewal'[c].deferred => renewal[c].deferred

\* A call goes on at its generation, or ends.
CallGoesOn(k, c) ==
  \/ call'[k][c].pc = "idle" /\ call'[k][c].generation = 0
  \/ /\ call[k][c].pc # "idle"
     /\ call'[k][c].generation = call[k][c].generation
     /\ call'[k][c].pc = "picked" => call[k][c].pc = "picked"

\* A cycle reads an operation that nobody executes.
Reads(k, c) == ~renewal[c].live /\ call'[k][c].generation = renewal[c].generation

\* An execution begins.
Begins(k, c) ==
  /\ renewal[c].status \in {"CONFIRMED", "PREPARING"} /\ renewal'[c].status = "PREPARING"
  /\ renewal[c].status = "PREPARING" => renewal'[c].actor = renewal[c].actor
  /\ renewal'[c].generation = renewal[c].generation + 1
  /\ ~renewal'[c].blocked /\ ~renewal'[c].deferred
  /\ call'[k][c].pc = "verify" /\ call'[k][c].generation = renewal'[c].generation

RowStep(c) == call' = call /\ RowsElsewhere(c) /\ RowGoesOn(c)

CallStepOf(k, c) ==
  /\ RowsElsewhere(c) /\ CallsElsewhere(k, c)
  /\ \/ RowGoesOn(c) /\ CallGoesOn(k, c)
     \/ renewal' = renewal /\ Reads(k, c)
     \/ Begins(k, c)

\* A step concerns one confirmation and at most one call of it, or none.
Kinds ==
  \/ renewal' = renewal /\ call' = call
  \/ \E c \in Renewal : RowStep(c) \/ \E k \in Caller : CallStepOf(k, c)

LEMMA RowWritten ==
  ASSUME Typed, NEW c \in Renewal, NEW x \in RenewalRow, renewal' = [renewal EXCEPT ![c] = x]
  PROVE  renewal' \in [Renewal -> RenewalRow] /\ renewal'[c] = x /\ RowsElsewhere(c)
BY DEF Typed, RowsElsewhere

LEMMA CallWritten ==
  ASSUME Typed, NEW k \in Caller, NEW c \in Renewal, NEW x \in CallRow, call' = [call EXCEPT ![k][c] = x]
  PROVE  call' \in [Caller -> [Renewal -> CallRow]] /\ call'[k][c] = x /\ CallsElsewhere(k, c)
<1>1. call \in [Caller -> [Renewal -> CallRow]]
  BY DEF Typed
<1> QED BY <1>1 DEF CallsElsewhere

LEMMA RowFields ==
  ASSUME Typed, NEW c \in Renewal
  PROVE  /\ renewal[c] \in RenewalRow /\ renewal[c].generation \in Nat /\ renewal[c].actor \subseteq Member
         /\ renewal[c].live \in BOOLEAN /\ renewal[c].deferred \in BOOLEAN /\ renewal[c].blocked \in BOOLEAN
BY DEF Typed, RenewalRow

LEMMA CallFields ==
  ASSUME Typed, NEW k \in Caller, NEW c \in Renewal
  PROVE  call[k][c] \in CallRow /\ call[k][c].generation \in Nat
<1>1. call \in [Caller -> [Renewal -> CallRow]]
  BY DEF Typed
<1>2. call[k][c] \in CallRow
  BY <1>1
<1> QED BY <1>2 DEF CallRow

\* A confirmation that is left alone.
LEMMA RowSame ==
  ASSUME NEW c \in Renewal, renewal' = renewal
  PROVE  RowsElsewhere(c) /\ RowGoesOn(c)
BY DEF RowsElsewhere, RowGoesOn

LEMMA RowWrites ==
  ASSUME Typed, NEW c \in Renewal, NEW x \in RenewalRow, renewal' = [renewal EXCEPT ![c] = x], call' = call,
         x.generation = renewal[c].generation, x.actor = renewal[c].actor,
         renewal[c].status = "COMMITTED" => x.status = "COMMITTED",
         x.status \in {"NONE", "CONFIRMED"} => renewal[c].status \in {"NONE", "CONFIRMED"},
         x.live => /\ renewal[c].live
                   /\ x.blocked => renewal[c].blocked
                   /\ x.deferred => renewal[c].deferred
  PROVE  Typed' /\ Kinds
<1>1. renewal' \in [Renewal -> RenewalRow] /\ renewal'[c] = x /\ RowsElsewhere(c)
  BY RowWritten
<1>2. RowGoesOn(c)
  BY <1>1 DEF RowGoesOn
<1> QED BY <1>1, <1>2 DEF Kinds, RowStep, Typed

\* A call that goes on, fails or ends.
LEMMA CallMoves ==
  ASSUME Typed, NEW k \in Caller, NEW c \in Renewal, call[k][c].pc # "idle",
         \/ Ends(k, c)
         \/ Goes(k, c, "commit")
         \/ Errs(k, c, "retry") \/ Errs(k, c, "final")
  PROVE  call' \in [Caller -> [Renewal -> CallRow]] /\ CallsElsewhere(k, c) /\ CallGoesOn(k, c)
<1>0. call[k][c] \in CallRow
  BY CallFields
<1>1. CASE Ends(k, c)
  <2>1. NoCall \in CallRow /\ NoCall.pc = "idle" /\ NoCall.generation = 0
    BY DEF NoCall, CallRow
  <2> QED BY <1>1, <2>1, CallWritten DEF Ends, CallGoesOn
<1>2. CASE Goes(k, c, "commit")
  <2> DEFINE x == [call[k][c] EXCEPT !.pc = "commit"]
  <2>1. call' = [call EXCEPT ![k][c] = x]
    BY <1>2 DEF Goes, Typed
  <2>2. x \in CallRow /\ x.pc = "commit" /\ x.generation = call[k][c].generation
    BY <1>0 DEF CallRow
  <2> HIDE DEF x
  <2> QED BY <2>1, <2>2, CallWritten DEF CallGoesOn
<1>3. ASSUME NEW error \in {"retry", "final"}, Errs(k, c, error)
      PROVE  call' \in [Caller -> [Renewal -> CallRow]] /\ CallsElsewhere(k, c) /\ CallGoesOn(k, c)
  <2> DEFINE x == [call[k][c] EXCEPT !.pc = "failing", !.error = error]
  <2>1. call' = [call EXCEPT ![k][c] = x]
    BY <1>3 DEF Errs, Typed
  <2>2. x \in CallRow /\ x.pc = "failing" /\ x.generation = call[k][c].generation
    BY <1>0 DEF CallRow
  <2> HIDE DEF x
  <2> QED BY <2>1, <2>2, CallWritten DEF CallGoesOn
<1> QED BY <1>1, <1>2, <1>3

\* The same while the row rests.
LEMMA CallRests ==
  ASSUME Typed, NEW k \in Caller, NEW c \in Renewal, call[k][c].pc # "idle", renewal' = renewal,
         \/ Ends(k, c)
         \/ Goes(k, c, "commit")
         \/ Errs(k, c, "retry") \/ Errs(k, c, "final")
  PROVE  Typed' /\ Kinds
<1>1. call' \in [Caller -> [Renewal -> CallRow]] /\ CallsElsewhere(k, c) /\ CallGoesOn(k, c)
  BY CallMoves
<1> QED BY <1>1, RowSame DEF Kinds, CallStepOf, Typed

\* A request or a cycle begins an execution.
LEMMA ClaimKind ==
  ASSUME Typed, NEW k \in Caller, NEW a \in Member, NEW c \in Renewal, Claim(k, a, c)
  PROVE  Typed' /\ Kinds
<1> DEFINE g == renewal[c].generation + 1
           x == [renewal[c] EXCEPT !.status = "PREPARING", !.actor = {a}, !.generation = g,
                                   !.live = TRUE, !.deferred = FALSE, !.blocked = FALSE]
           y == [NoCall EXCEPT !.pc = "verify", !.generation = g]
<1>1. renewal' = [renewal EXCEPT ![c] = x] /\ call' = [call EXCEPT ![k][c] = y]
  BY DEF Claim, Typed
<1>2. g \in Nat /\ g = renewal[c].generation + 1
  BY RowFields
<1>3. /\ x \in RenewalRow /\ x.status = "PREPARING" /\ x.actor = {a} /\ x.generation = g
      /\ ~x.blocked /\ ~x.deferred
  BY <1>2, RowFields DEF RenewalRow
<1>4. y \in CallRow /\ y.pc = "verify" /\ y.generation = g
  BY <1>2 DEF CallRow, NoCall
<1>5. /\ renewal[c].status \in {"CONFIRMED", "PREPARING"}
      /\ renewal[c].status = "PREPARING" => renewal[c].actor = {a}
  BY DEF Claim, MayIssue
<1> HIDE DEF g, x, y
<1>6. renewal' \in [Renewal -> RenewalRow] /\ renewal'[c] = x /\ RowsElsewhere(c)
  BY <1>1, <1>3, RowWritten
<1>7. call' \in [Caller -> [Renewal -> CallRow]] /\ call'[k][c] = y /\ CallsElsewhere(k, c)
  BY <1>1, <1>4, CallWritten
<1>8. Begins(k, c)
  BY <1>2, <1>3, <1>4, <1>5, <1>6, <1>7 DEF Begins
<1> QED BY <1>6, <1>7, <1>8 DEF Kinds, CallStepOf, Typed

LEMMA PickKind ==
  ASSUME Typed, NEW w \in Worker, NEW c \in Renewal, Pick(w, c)
  PROVE  Typed' /\ Kinds
<1> DEFINE y == [NoCall EXCEPT !.pc = "picked", !.generation = renewal[c].generation]
<1>1. w \in Caller /\ call' = [call EXCEPT ![w][c] = y] /\ renewal' = renewal /\ ~renewal[c].live
  BY DEF Pick, Caller, Recoverable
<1>2. y \in CallRow /\ y.generation = renewal[c].generation
  BY RowFields DEF CallRow, NoCall
<1> HIDE DEF y
<1>3. call' \in [Caller -> [Renewal -> CallRow]] /\ call'[w][c] = y /\ CallsElsewhere(w, c)
  BY <1>1, <1>2, CallWritten
<1>4. Reads(w, c)
  BY <1>1, <1>2, <1>3 DEF Reads
<1> QED BY <1>1, <1>3, <1>4, RowSame DEF Kinds, CallStepOf, Typed

\* The receipt is published, or the call ends or fails.
LEMMA CommitKind ==
  ASSUME Typed, NEW k \in Caller, NEW c \in Renewal, Commit(k, c)
  PROVE  Typed' /\ Kinds
<1>1. call[k][c].pc # "idle"
  BY DEF Commit
<1>2. CASE renewal' = renewal
  BY <1>1, <1>2, CallRests DEF Commit
<1>3. CASE /\ renewal[c].status = "PREPARING" /\ Ends(k, c)
           /\ renewal' = [renewal EXCEPT ![c].status = "COMMITTED"]
  <2> DEFINE x == [renewal[c] EXCEPT !.status = "COMMITTED"]
  <2>1. renewal' = [renewal EXCEPT ![c] = x]
    BY <1>3 DEF Typed
  <2>2. /\ x \in RenewalRow /\ x.status = "COMMITTED"
        /\ x.generation = renewal[c].generation /\ x.actor = renewal[c].actor
        /\ x.live = renewal[c].live /\ x.blocked = renewal[c].blocked /\ x.deferred = renewal[c].deferred
    BY RowFields DEF RenewalRow
  <2> HIDE DEF x
  <2>3. renewal' \in [Renewal -> RenewalRow] /\ renewal'[c] = x /\ RowsElsewhere(c)
    BY <2>1, <2>2, RowWritten
  <2>4. RowGoesOn(c)
    BY <2>2, <2>3 DEF RowGoesOn
  <2>5. call' \in [Caller -> [Renewal -> CallRow]] /\ CallsElsewhere(k, c) /\ CallGoesOn(k, c)
    BY <1>1, <1>3, CallMoves
  <2> QED BY <2>3, <2>4, <2>5 DEF Kinds, CallStepOf, Typed
<1> QED BY <1>2, <1>3 DEF Commit

\* A failure stops the execution of its generation, or nothing.
LEMMA FailureKind ==
  ASSUME Typed, NEW k \in Caller, NEW c \in Renewal, RecordFailure(k, c)
  PROVE  Typed' /\ Kinds
<1>1. call[k][c].pc # "idle" /\ Ends(k, c)
  BY DEF RecordFailure
<1>2. CASE renewal' = renewal
  BY <1>1, <1>2, CallRests
<1>3. CASE renewal[c].status = "PREPARING" /\ renewal' # renewal
  <2> DEFINE x == [renewal[c] EXCEPT !.live = FALSE, !.deferred = (call[k][c].error = "retry"),
                                     !.blocked = (call[k][c].error = "final")]
  <2>1. renewal' = [renewal EXCEPT ![c] = x]
    BY <1>3 DEF RecordFailure, Typed
  <2>2. /\ x \in RenewalRow /\ x.status = "PREPARING" /\ ~x.live
        /\ x.generation = renewal[c].generation /\ x.actor = renewal[c].actor
    BY <1>3, RowFields DEF RenewalRow
  <2> HIDE DEF x
  <2>3. renewal' \in [Renewal -> RenewalRow] /\ renewal'[c] = x /\ RowsElsewhere(c)
    BY <2>1, <2>2, RowWritten
  <2>4. RowGoesOn(c)
    BY <1>3, <2>2, <2>3 DEF RowGoesOn
  <2>5. call' \in [Caller -> [Renewal -> CallRow]] /\ CallsElsewhere(k, c) /\ CallGoesOn(k, c)
    BY <1>1, CallMoves
  <2> QED BY <2>3, <2>4, <2>5 DEF Kinds, CallStepOf, Typed
<1> QED BY <1>2, <1>3 DEF RecordFailure

\* Members and the clock write rows only.
LEMMA ClockKind ==
  ASSUME Typed, NEW c \in Renewal, Confirm(c) \/ AcceptanceExpires(c) \/ ExecutionLapses(c) \/ RetryIsDue(c)
  PROVE  Typed' /\ Kinds
<1>0. renewal[c] \in RenewalRow
  BY RowFields
<1>1. CASE Confirm(c)
  <2>1. renewal' = [renewal EXCEPT ![c] = [renewal[c] EXCEPT !.status = "CONFIRMED"]]
    BY <1>1 DEF Confirm, Typed
  <2>2. call' = call /\ renewal[c].status = "NONE"
    BY <1>1 DEF Confirm
  <2> DEFINE x == [renewal[c] EXCEPT !.status = "CONFIRMED"]
  <2>3. /\ x \in RenewalRow /\ x.status = "CONFIRMED"
        /\ x.generation = renewal[c].generation /\ x.actor = renewal[c].actor
        /\ x.live = renewal[c].live /\ x.blocked = renewal[c].blocked /\ x.deferred = renewal[c].deferred
    BY <1>0 DEF RenewalRow
  <2> HIDE DEF x
  <2> QED BY <2>1, <2>2, <2>3, RowWrites DEF x
<1>2. CASE AcceptanceExpires(c)
  BY <1>2 DEF AcceptanceExpires, Kinds, Typed
<1>3. CASE ExecutionLapses(c)
  <2>1. renewal' = [renewal EXCEPT ![c] = [renewal[c] EXCEPT !.live = FALSE]]
    BY <1>3 DEF ExecutionLapses, Typed
  <2>2. call' = call
    BY <1>3 DEF ExecutionLapses
  <2> DEFINE x == [renewal[c] EXCEPT !.live = FALSE]
  <2>3. /\ x \in RenewalRow /\ x.status = renewal[c].status /\ ~x.live
        /\ x.generation = renewal[c].generation /\ x.actor = renewal[c].actor
        /\ x.blocked = renewal[c].blocked /\ x.deferred = renewal[c].deferred
    BY <1>0 DEF RenewalRow
  <2> HIDE DEF x
  <2> QED BY <2>1, <2>2, <2>3, RowWrites DEF x
<1>4. CASE RetryIsDue(c)
  <2>1. renewal' = [renewal EXCEPT ![c] = [renewal[c] EXCEPT !.deferred = FALSE]]
    BY <1>4 DEF RetryIsDue, Typed
  <2>2. call' = call
    BY <1>4 DEF RetryIsDue
  <2> DEFINE x == [renewal[c] EXCEPT !.deferred = FALSE]
  <2>3. /\ x \in RenewalRow /\ x.status = renewal[c].status /\ ~x.deferred
        /\ x.generation = renewal[c].generation /\ x.actor = renewal[c].actor
        /\ x.live = renewal[c].live /\ x.blocked = renewal[c].blocked
    BY <1>0 DEF RenewalRow
  <2> HIDE DEF x
  <2> QED BY <2>1, <2>2, <2>3, RowWrites DEF x
<1> QED BY <1>1, <1>2, <1>3, <1>4

LEMMA NextKind ==
  ASSUME Typed, [Next]_vars
  PROVE  Typed' /\ Kinds
<1>1. ASSUME NEW k \in Asker, NEW a \in Member, NEW c \in Renewal, Issue(k, a, c) PROVE Typed' /\ Kinds
  BY <1>1, ClaimKind DEF Issue, Caller
<1>2. ASSUME NEW w \in Worker, NEW c \in Renewal, RecoveryClaims(w, c) PROVE Typed' /\ Kinds
  <2>1. PICK a \in renewal[c].actor : Claim(w, a, c)
    BY <1>2 DEF RecoveryClaims
  <2>2. a \in Member
    BY RowFields
  <2> QED BY <2>1, <2>2, ClaimKind DEF Caller
<1>3. ASSUME NEW w \in Worker, NEW c \in Renewal, RecoveryRefused(w, c) PROVE Typed' /\ Kinds
  BY <1>3, CallRests DEF RecoveryRefused, Refused, Caller
<1>4. ASSUME NEW k \in Caller, NEW c \in Renewal, CallStep(k, c) PROVE Typed' /\ Kinds
  <2>1. CASE Verify(k, c)
    BY <2>1, CallRests DEF Verify
  <2>2. CASE Dies(k, c)
    BY <2>2, CallRests DEF Dies
  <2>3. ASSUME NEW error \in {"retry", "final"}, Fails(k, c, error) PROVE Typed' /\ Kinds
    BY <2>3, CallRests DEF Fails
  <2> QED BY <1>4, <2>1, <2>2, <2>3, CommitKind, FailureKind DEF CallStep
<1>5. ASSUME NEW a \in Member, SetMaintainer(a) PROVE Typed' /\ Kinds
  BY <1>5 DEF SetMaintainer, Typed, Kinds
<1>6. CASE Pause \/ Unpause
  BY <1>6 DEF Pause, Unpause, Typed, Kinds
<1>7. CASE UNCHANGED vars
  BY <1>7 DEF vars, Typed, Kinds
<1> QED BY <1>1, <1>2, <1>3, <1>4, <1>5, <1>6, <1>7, PickKind, ClockKind DEF Next

-----------------------------------------------------------------------------
(* One execution at a time *)

LEMMA RenewalInit == Init => RenewalInv
BY DEF Init, RenewalInv, Typed, RenewalRow, CallRow, NotConfirmed, NoCall, CallsBehind, Named, CurrentExecution

\* What the invariant says of one confirmation.
OneOf(c) ==
  /\ \A k \in Caller : call[k][c].generation <= renewal[c].generation
  /\ renewal[c].status \in {"NONE", "CONFIRMED"} => renewal[c].actor = {}
  /\ renewal[c].live =>
       /\ ~renewal[c].blocked /\ ~renewal[c].deferred
       /\ \A k \in Caller : Concerned(k, c) =>
            /\ call[k][c].pc # "picked"
            /\ \A l \in Caller : Concerned(l, c) => l = k

LEMMA Pointwise == CallsBehind /\ Named /\ CurrentExecution <=> \A c \in Renewal : OneOf(c)
BY DEF CallsBehind, Named, CurrentExecution, OneOf

LEMMA OneStays ==
  ASSUME NEW c \in Renewal, OneOf(c), renewal'[c] = renewal[c], \A k \in Caller : call'[k][c] = call[k][c]
  PROVE  OneOf(c)'
BY DEF OneOf, Concerned

\* The row goes on, and a call with it: none enters the generation.
LEMMA OneGoesOn ==
  ASSUME Typed, NEW c \in Renewal, OneOf(c), RowGoesOn(c),
         \A k \in Caller : call'[k][c] = call[k][c] \/ CallGoesOn(k, c)
  PROVE  OneOf(c)'
<1>1. ASSUME NEW k \in Caller
      PROVE  /\ call'[k][c].generation <= renewal'[c].generation
             /\ Concerned(k, c)' => /\ Concerned(k, c)
                                    /\ call'[k][c].pc = "picked" => call[k][c].pc = "picked"
  <2>1. call[k][c].generation <= renewal[c].generation /\ renewal'[c].generation = renewal[c].generation
    BY DEF OneOf, RowGoesOn
  <2>2. renewal[c].generation \in Nat
    BY RowFields
  <2>3. CASE call'[k][c] = call[k][c]
    BY <2>1, <2>3 DEF Concerned
  <2>4. CASE call'[k][c].pc = "idle" /\ call'[k][c].generation = 0
    BY <2>1, <2>2, <2>4 DEF Concerned
  <2>5. CASE /\ call[k][c].pc # "idle" /\ call'[k][c].generation = call[k][c].generation
             /\ call'[k][c].pc = "picked" => call[k][c].pc = "picked"
    BY <2>1, <2>5 DEF Concerned
  <2> QED BY <2>3, <2>4, <2>5 DEF CallGoesOn
<1> QED BY <1>1 DEF OneOf, RowGoesOn

\* A cycle reads: nobody executes.
LEMMA OneReads ==
  ASSUME Typed, NEW k \in Caller, NEW c \in Renewal, OneOf(c), renewal' = renewal, Reads(k, c), CallsElsewhere(k, c)
  PROVE  OneOf(c)'
<1>1. \A l \in Caller : l # k => call'[l][c] = call[l][c]
  BY DEF CallsElsewhere
<1>2. call'[k][c].generation <= renewal'[c].generation
  BY RowFields DEF Reads
<1> QED BY <1>1, <1>2 DEF OneOf, Reads

\* An execution begins: every other call is of an earlier generation.
LEMMA OneBegins ==
  ASSUME Typed, NEW k \in Caller, NEW c \in Renewal, OneOf(c), Begins(k, c), CallsElsewhere(k, c)
  PROVE  OneOf(c)'
<1>1. ASSUME NEW l \in Caller, l # k
      PROVE  call'[l][c].generation < renewal'[c].generation /\ ~Concerned(l, c)'
  <2>1. call'[l][c] = call[l][c]
    BY <1>1 DEF CallsElsewhere
  <2>2. call[l][c].generation <= renewal[c].generation /\ renewal'[c].generation = renewal[c].generation + 1
    BY DEF OneOf, Begins
  <2>3. renewal[c].generation \in Nat /\ call[l][c].generation \in Nat
    BY RowFields, CallFields
  <2>4. call'[l][c].generation < renewal'[c].generation
    BY <2>1, <2>2, <2>3
  <2> QED BY <2>1, <2>2, <2>3, <2>4 DEF Concerned
<1>2. renewal'[c].generation \in Nat
  BY RowFields DEF Begins
<1>3. \A l \in Caller : call'[l][c].generation <= renewal'[c].generation
  <2>1. ASSUME NEW l \in Caller, l # k PROVE call'[l][c].generation \in Nat
    BY <2>1, CallFields DEF CallsElsewhere
  <2>2. call'[k][c].generation = renewal'[c].generation
    BY DEF Begins
  <2> QED BY <1>1, <1>2, <2>1, <2>2
<1> QED BY <1>1, <1>3 DEF OneOf, Begins

LEMMA RenewalNext ==
  ASSUME RenewalInv, [Next]_vars
  PROVE  RenewalInv'
<1>1. Typed /\ Typed' /\ Kinds /\ \A c \in Renewal : OneOf(c)
  BY NextKind, Pointwise DEF RenewalInv
<1>2. ASSUME NEW c \in Renewal PROVE OneOf(c)'
  <2>1. CASE renewal' = renewal /\ call' = call
    BY <1>1, <2>1, OneStays
  <2>2. ASSUME NEW d \in Renewal, RowStep(d) PROVE OneOf(c)'
    <3>1. CASE c = d
      BY <1>1, <2>2, <3>1, OneGoesOn DEF RowStep
    <3>2. CASE c # d
      BY <1>1, <2>2, <3>2, OneStays DEF RowStep, RowsElsewhere
    <3> QED BY <3>1, <3>2
  <2>3. ASSUME NEW d \in Renewal, NEW k \in Caller, CallStepOf(k, d) PROVE OneOf(c)'
    <3>1. CASE c # d
      BY <1>1, <2>3, <3>1, OneStays DEF CallStepOf, RowsElsewhere, CallsElsewhere
    <3>2. CASE c = d /\ RowGoesOn(d) /\ CallGoesOn(k, d)
      BY <1>1, <2>3, <3>2, OneGoesOn DEF CallStepOf, CallsElsewhere
    <3>3. CASE c = d /\ renewal' = renewal /\ Reads(k, d)
      BY <1>1, <2>3, <3>3, OneReads DEF CallStepOf
    <3>4. CASE c = d /\ Begins(k, d)
      BY <1>1, <2>3, <3>4, OneBegins DEF CallStepOf
    <3> QED BY <2>3, <3>1, <3>2, <3>3, <3>4 DEF CallStepOf
  <2> QED BY <1>1, <2>1, <2>2, <2>3 DEF Kinds
<1>3. (CallsBehind /\ Named /\ CurrentExecution)'
  <2>1. (CallsBehind /\ Named /\ CurrentExecution <=> \A c \in Renewal : OneOf(c))'
    BY Pointwise, PTL
  <2> QED BY <1>2, <2>1
<1> QED BY <1>1, <1>3 DEF RenewalInv

LEMMA RenewalInvCorrect == Spec => []RenewalInv
BY RenewalInit, RenewalNext, PTL DEF Spec

\* While an execution of a renewal is live, neither another execution, nor a
\* cycle that read the operation before, nor a failure recorded late can publish,
\* stop or block it (issue, recover, recordFailure).
THEOREM CurrentExecutionCorrect == Spec => []CurrentExecution
<1>1. RenewalInv => CurrentExecution
  BY DEF RenewalInv
<1> QED BY <1>1, RenewalInvCorrect, PTL

\* A renewal keeps the member who asked first, whoever recovers it, and is
\* issued once (issue, SOURCE_FORBIDDEN for another member).
THEOREM RenewalStandsCorrect == Spec => RenewalStands
<1>1. ASSUME RenewalInv, [Next]_vars, NEW c \in Renewal
      PROVE  /\ renewal[c].actor # {} => renewal'[c].actor = renewal[c].actor
             /\ renewal[c].status = "COMMITTED" =>
                  renewal'[c].status = "COMMITTED" /\ renewal'[c].generation = renewal[c].generation
  <2>1. Kinds /\ (renewal[c].status \in {"NONE", "CONFIRMED"} => renewal[c].actor = {})
    BY <1>1, NextKind DEF RenewalInv, Named
  <2>2. renewal'[c] = renewal[c] \/ RowGoesOn(c) \/ \E k \in Caller : Begins(k, c)
    BY <2>1 DEF Kinds, RowStep, CallStepOf, RowsElsewhere
  <2> QED BY <2>1, <2>2 DEF RowGoesOn, Begins
<1>2. RenewalInv /\ [Next]_vars =>
        [\A c \in Renewal :
           /\ renewal[c].actor # {} => renewal'[c].actor = renewal[c].actor
           /\ renewal[c].status = "COMMITTED" =>
                renewal'[c].status = "COMMITTED" /\ renewal'[c].generation = renewal[c].generation]_vars
  BY <1>1
<1> QED BY <1>2, RenewalInvCorrect, PTL DEF Spec, RenewalStands
=============================================================================
