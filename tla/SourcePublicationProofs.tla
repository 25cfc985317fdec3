----------------------- MODULE SourcePublicationProofs -----------------------
(* Proofs about SourcePublication for any number of members, processes,     *)
(* requests, tokens and acceptances.                                        *)
EXTENDS SourcePublication, TLAPS

-----------------------------------------------------------------------------
(* The inductive invariant *)

\* The run points at the latest confirmation while it freezes and after; only
\* that one is ever committed, by the one receipt.
Pointer ==
  /\ run.status \in {"PREPARING_SEAL", "SUCCEEDED"} => Latest > 0 /\ run.operation = Latest
  /\ \A c \in 1..MaxConfirmation :
       operations[c].status = "COMMITTED" <=> run.status = "SUCCEEDED" /\ c = run.operation
  /\ Len(receipts) = (IF run.status = "SUCCEEDED" THEN 1 ELSE 0)
  /\ run.status = "SUCCEEDED" =>
       operations[run.operation].receipt = 1 /\ receipts[1].confirmation = run.operation

\* A binding leads to an operation.
Bindings == \A t \in Token : tokens[t] # 0 => operations[tokens[t]].status # "NONE"

\* What a call in progress may rely on: its confirmation exists, the token of a
\* request stays its own, and a process that works for a freeze that was taken
\* back can no longer begin it.
Relies(k) ==
  calls[k].phase # "free" =>
    /\ calls[k].confirmation \in 1..Latest
    /\ k \in Request => calls[k].token \in Token
    /\ k \in Request /\ calls[k].phase \in {"begun", "recovering", "verified"}
         => tokens[calls[k].token] = calls[k].confirmation
    /\ k \in Worker /\ run.status = "REVIEW_REQUIRED" /\ calls[k].phase \in {"picked", "asking", "leased"}
         => calls[k].confirmation # Latest \/ ~Valid(calls[k].confirmation)
    /\ calls[k].phase = "failed" /\ calls[k].code = "SOURCE_ACCEPTANCE_EXPIRED"
         => ~Valid(calls[k].confirmation)

FreezeInv ==
  /\ TypeOK
  /\ Pointer
  /\ Bindings
  /\ \A k \in Call : Relies(k)
  /\ AnswersAgree

-----------------------------------------------------------------------------
(* Values *)

LEMMA FreeIsCall == Free \in CallRecord
BY PublicationAssumption DEF Free, CallOf, CallRecord, Revision, Code

\* The fields of a call.
LEMMA CallFields ==
  ASSUME TypeOK, NEW k \in Call
  PROVE  /\ calls[k] \in CallRecord
         /\ calls[k].worker \in Worker \cup {NoWorker}
         /\ calls[k].actor \in Actor
         /\ calls[k].confirmation \in 0..MaxConfirmation
         /\ calls[k].token \in Token \cup {NoToken}
         /\ calls[k].seen \in 0..MaxGeneration
         /\ calls[k].generation \in 0..MaxGeneration
BY DEF TypeOK, CallRecord, Revision

\* The fields of the run.
LEMMA RunFields ==
  ASSUME TypeOK
  PROVE  /\ run.generation \in 0..MaxGeneration
         /\ run.operation \in 0..MaxConfirmation
         /\ run.lease \in BOOLEAN
         /\ run.status \in Status
BY DEF TypeOK, RunRecord, Revision

LEMMA BeginCodes ==
  ASSUME NEW k \in Call PROVE BeginObjection(k) \in Code \cup {"NONE"}
BY DEF BeginObjection, Code

LEMMA CommitCodes ==
  ASSUME NEW k \in Call PROVE CommitObjection(k) \in Code \cup {"NONE"}
BY DEF CommitObjection, Code

\* The two calls of a process and of a request are different.
LEMMA Callers ==
  ASSUME NEW k \in Call
  PROVE  /\ k \in Request <=> k \notin Worker
         /\ k \in Request \/ k \in Worker
BY PublicationAssumption DEF Call

-----------------------------------------------------------------------------
(* Steps of a call that only fail or move on *)

\* A call that moves to a phase, or fails, stays a call.
LEMMA TypeGoes ==
  ASSUME TypeOK, NEW k \in Call, NEW phase \in {"leased", "begun", "recovering", "verified"}, Goes(k, phase)
  PROVE  calls' \in [Call -> CallRecord]
<1>1. [calls[k] EXCEPT !.phase = phase] \in CallRecord
  BY CallFields DEF CallRecord
<1> QED BY <1>1 DEF Goes, TypeOK

\* What a failure leaves of a call: nothing, the same call at its lease again,
\* or a failed job.
LEMMA FailsCalls ==
  ASSUME TypeOK, NEW k \in Call, NEW code \in Code, Fails(k, code)
  PROVE  /\ calls' \in [Call -> CallRecord]
         /\ \A j \in Call : j # k => calls'[j] = calls[j]
         /\ \/ calls'[k] = Free
            \/ k \in Request /\ calls'[k] = [calls[k] EXCEPT !.phase = "leased"]
            \/ k \in Worker /\ calls'[k] = [calls[k] EXCEPT !.phase = "failed", !.code = code]
         /\ UNCHANGED <<surroundings, run, tables, answers>>
<1>1. /\ [calls[k] EXCEPT !.phase = "leased"] \in CallRecord
      /\ [calls[k] EXCEPT !.phase = "failed", !.code = code] \in CallRecord
  BY CallFields DEF CallRecord
<1>2. CASE calls' = [calls EXCEPT ![k] = Free]
  BY <1>2, FreeIsCall DEF Fails, TypeOK
<1>3. CASE k \in Request /\ Goes(k, "leased")
  BY <1>1, <1>3 DEF Fails, Goes, TypeOK
<1>4. CASE k \in Worker /\ calls' = [calls EXCEPT ![k] = [calls[k] EXCEPT !.phase = "failed", !.code = code]]
  BY <1>1, <1>4 DEF Fails, TypeOK
<1> QED BY <1>2, <1>3, <1>4 DEF Fails

\* A failure preserves the invariant; one for an expired acceptance must know it.
LEMMA FailsKeeps ==
  ASSUME FreezeInv, NEW k \in Call, NEW code \in Code, Fails(k, code), calls[k].phase # "free",
         code = "SOURCE_ACCEPTANCE_EXPIRED" => ~Valid(calls[k].confirmation)
  PROVE  FreezeInv'
<1> USE DEF FreezeInv
<1>1. UNCHANGED <<maintainers, paused, gone, expired, run, confirmations, operations, tokens, receipts, answers>>
  BY FailsCalls DEF surroundings, tables
<1>2. TypeOK'
  BY <1>1, FailsCalls DEF TypeOK, Latest
<1>3. Pointer' /\ Bindings' /\ AnswersAgree'
  BY <1>1 DEF Pointer, Bindings, AnswersAgree, Latest
<1>4. ASSUME NEW j \in Call PROVE Relies(j)'
  <2>1. CASE j # k
    BY <1>1, <2>1, FailsCalls DEF Relies, Latest, Valid
  <2>2. CASE calls'[k] = Free /\ j = k
    BY <2>2 DEF Relies, Free, CallOf
  <2>3. CASE k \in Request /\ calls'[k] = [calls[k] EXCEPT !.phase = "leased"] /\ j = k
    BY <1>1, <2>3, Callers, CallFields DEF Relies, Latest, CallRecord
  <2>4. CASE k \in Worker /\ calls'[k] = [calls[k] EXCEPT !.phase = "failed", !.code = code] /\ j = k
    BY <1>1, <2>4, Callers, CallFields DEF Relies, Latest, Valid, CallRecord
  <2> QED BY <2>1, <2>2, <2>3, <2>4, FailsCalls
<1> QED BY <1>2, <1>3, <1>4

-----------------------------------------------------------------------------
(* Members and time *)

LEMMA FreezeInit == Init => FreezeInv
<1> SUFFICES ASSUME Init PROVE FreezeInv
  OBVIOUS
<1> USE PublicationAssumption DEF Init
<1>1. TypeOK
  <2>1. run \in RunRecord
    BY DEF RunRecord, Status, Revision
  <2>2. operations \in [1..MaxConfirmation -> Operation]
    BY DEF NoOperation, Operation
  <2>3. calls \in [Call -> CallRecord]
    BY FreeIsCall
  <2>4. confirmations \in Seq(Confirmation) /\ Len(confirmations) = 0
    OBVIOUS
  <2>5. receipts \in Seq([confirmation: 1..MaxConfirmation]) /\ Len(receipts) = 0
    OBVIOUS
  <2>6. tokens \in [Token -> 0..MaxConfirmation]
    OBVIOUS
  <2>7. maintainers \subseteq Actor /\ paused \in BOOLEAN /\ gone \subseteq Worker
    OBVIOUS
  <2>8. expired \subseteq Acceptance /\ answers \subseteq [asked: 1..MaxConfirmation, given: 1..MaxConfirmation]
    OBVIOUS
  <2>9. 0 <= MaxConfirmation
    OBVIOUS
  <2> HIDE DEF Init
  <2> QED BY <2>1, <2>2, <2>3, <2>4, <2>5, <2>6, <2>7, <2>8, <2>9 DEF TypeOK, Latest
<1>2. Pointer
  BY DEF Pointer, NoOperation
<1>3. Bindings /\ AnswersAgree /\ \A k \in Call : Relies(k)
  BY DEF Bindings, AnswersAgree, Relies, Free, CallOf
<1> QED BY <1>1, <1>2, <1>3 DEF FreezeInv

\* Steps that leave the run, the tables and the calls alone.
LEMMA AroundKeeps ==
  ASSUME FreezeInv, UNCHANGED <<run, tables, calls, answers, gone>>, expired \subseteq expired',
         expired' \subseteq Acceptance, maintainers' \subseteq Actor, paused' \in BOOLEAN
  PROVE  FreezeInv'
<1> USE DEF FreezeInv, tables
<1>1. TypeOK'
  BY DEF TypeOK, Latest
<1>2. Pointer' /\ Bindings' /\ AnswersAgree'
  BY DEF Pointer, Bindings, AnswersAgree, Latest
<1>3. \A k \in Call : Relies(k)'
  BY DEF Relies, Latest, Valid
<1> QED BY <1>1, <1>2, <1>3

LEMMA SurroundingsKeep ==
  ASSUME FreezeInv,
         \/ \E a \in Actor : SetMaintainer(a)
         \/ \E x \in Acceptance : AcceptanceExpires(x)
         \/ SetBarrier
  PROVE  FreezeInv'
<1> USE DEF FreezeInv, TypeOK
<1>1. ASSUME NEW a \in Actor, SetMaintainer(a) PROVE FreezeInv'
  BY <1>1, AroundKeeps DEF SetMaintainer
<1>2. ASSUME NEW x \in Acceptance, AcceptanceExpires(x) PROVE FreezeInv'
  BY <1>2, AroundKeeps DEF AcceptanceExpires
<1>3. CASE SetBarrier
  BY <1>3, AroundKeeps DEF SetBarrier
<1> QED BY <1>1, <1>2, <1>3

LEMMA LeaseExpiresKeeps ==
  ASSUME FreezeInv, LeaseExpires
  PROVE  FreezeInv'
<1> USE DEF FreezeInv, tables, surroundings
<1>1. /\ run' = [run EXCEPT !.lease = FALSE]
      /\ UNCHANGED <<maintainers, paused, gone, expired, confirmations, operations, tokens, receipts, calls, answers>>
  BY DEF LeaseExpires
<1>2. run'.status = run.status /\ run'.operation = run.operation
  BY <1>1 DEF TypeOK, RunRecord
<1>3. TypeOK'
  BY <1>1 DEF TypeOK, RunRecord, Latest
<1>4. Pointer' /\ Bindings' /\ AnswersAgree'
  BY <1>1, <1>2 DEF Pointer, Bindings, AnswersAgree, Latest
<1>5. \A k \in Call : Relies(k)'
  BY <1>1, <1>2 DEF Relies, Latest, Valid
<1> QED BY <1>3, <1>4, <1>5

LEMMA CrashKeeps ==
  ASSUME FreezeInv, NEW w \in Worker, Crash(w)
  PROVE  FreezeInv'
<1> USE DEF FreezeInv, tables
<1>1. /\ UNCHANGED <<maintainers, paused, expired, run, confirmations, operations, tokens, receipts, answers>>
      /\ gone' \subseteq Worker
      /\ calls' = [k \in Call |-> IF calls[k].worker = w THEN Free ELSE calls[k]]
  BY DEF Crash, TypeOK
<1>2. calls' \in [Call -> CallRecord]
  BY <1>1, FreeIsCall DEF TypeOK
<1>3. TypeOK'
  BY <1>1, <1>2 DEF TypeOK, Latest
<1>4. Pointer' /\ Bindings' /\ AnswersAgree'
  BY <1>1 DEF Pointer, Bindings, AnswersAgree, Latest
<1>5. ASSUME NEW k \in Call PROVE Relies(k)'
  <2>1. calls'[k] = Free \/ calls'[k] = calls[k]
    BY <1>1
  <2>2. CASE calls'[k] = Free
    BY <2>2 DEF Relies, Free, CallOf
  <2>3. CASE calls'[k] = calls[k]
    BY <1>1, <2>3 DEF Relies, Latest, Valid
  <2> QED BY <2>1, <2>2, <2>3
<1> QED BY <1>3, <1>4, <1>5

\* A new confirmation takes a freeze back: whoever works for the earlier one
\* now works for one that is not the latest.
LEMMA ConfirmKeeps ==
  ASSUME FreezeInv, NEW a \in Actor, NEW x \in Offer, Confirm(a, x)
  PROVE  FreezeInv'
<1> USE DEF FreezeInv, tables, surroundings
<1> DEFINE decision == [actor |-> a, acceptance |-> x]
<1>1. /\ run' = [run EXCEPT !.status = "REVIEW_REQUIRED"]
      /\ confirmations' = Append(confirmations, decision)
      /\ UNCHANGED <<maintainers, paused, gone, expired, operations, tokens, receipts, calls, answers>>
      /\ run.status \in {"REVIEW_REQUIRED", "PREPARING_SEAL"}
      /\ Latest < MaxConfirmation
  BY DEF Confirm
<1>2. run'.status = "REVIEW_REQUIRED" /\ run'.operation = run.operation /\ run' \in RunRecord
  BY <1>1 DEF TypeOK, RunRecord, Status
<1>3. /\ confirmations' \in Seq(Confirmation) /\ Latest' = Latest + 1 /\ Latest \in Nat
      /\ \A c \in 1..Latest : confirmations'[c] = confirmations[c]
  <2>1. decision \in Confirmation
    BY DEF Confirmation
  <2> QED BY <1>1, <2>1 DEF TypeOK, Latest
<1>4. TypeOK'
  BY <1>1, <1>2, <1>3, PublicationAssumption DEF TypeOK
<1>5. Pointer'
  BY <1>1, <1>2 DEF Pointer
<1>6. Bindings' /\ AnswersAgree'
  BY <1>1 DEF Bindings, AnswersAgree
<1>7. ASSUME NEW k \in Call PROVE Relies(k)'
  <2>1. CASE calls[k].phase = "free"
    BY <1>1, <2>1 DEF Relies
  <2>2. CASE calls[k].phase # "free"
    <3>1. calls[k].confirmation \in 1..Latest /\ calls[k].confirmation \in 1..Latest'
      BY <1>3, <2>2 DEF Relies
    <3>2. calls[k].confirmation # Latest'
      BY <1>3, <3>1
    <3>3. Valid(calls[k].confirmation)' = Valid(calls[k].confirmation)
      BY <1>1, <1>3, <3>1 DEF Valid
    <3> QED BY <1>1, <3>1, <3>2, <3>3 DEF Relies
  <2> QED BY <2>1, <2>2
<1> QED BY <1>4, <1>5, <1>6, <1>7

LEMMA CancelKeeps ==
  ASSUME FreezeInv, NEW a \in Actor, Cancel(a)
  PROVE  FreezeInv'
<1> USE DEF FreezeInv, tables, surroundings
<1>1. /\ run' = [run EXCEPT !.status = "CANCELLED", !.generation = run.generation + 1, !.lease = FALSE]
      /\ UNCHANGED <<maintainers, paused, gone, expired, confirmations, operations, tokens, receipts, calls, answers>>
      /\ run.status # "SUCCEEDED"
      /\ run.generation < MaxGeneration
  BY DEF Cancel, Active, Terminal
<1>2. run.generation + 1 \in 0..MaxGeneration
  BY <1>1, RunFields, PublicationAssumption
<1>3. run'.status = "CANCELLED" /\ run'.operation = run.operation /\ run' \in RunRecord
  BY <1>1, <1>2 DEF TypeOK, RunRecord, Status, Terminal
<1>4. TypeOK'
  BY <1>1, <1>3 DEF TypeOK, Latest
<1>5. Pointer' /\ Bindings' /\ AnswersAgree'
  BY <1>1, <1>3 DEF Pointer, Bindings, AnswersAgree, Latest
<1>6. \A k \in Call : Relies(k)'
  BY <1>1, <1>3 DEF Relies, Latest, Valid
<1> QED BY <1>4, <1>5, <1>6

-----------------------------------------------------------------------------
(* The beginning of a call *)

\* A call that is put in a slot and leaves everything else alone.
LEMMA SlotKeeps ==
  ASSUME FreezeInv, NEW k \in Call, NEW new \in CallRecord, calls' = [calls EXCEPT ![k] = new],
         UNCHANGED <<surroundings, run, tables, answers>>, Relies(k)'
  PROVE  FreezeInv'
<1> USE DEF FreezeInv, tables, surroundings
<1>1. TypeOK'
  BY DEF TypeOK, Latest
<1>2. Pointer' /\ Bindings' /\ AnswersAgree'
  BY DEF Pointer, Bindings, AnswersAgree, Latest
<1>3. ASSUME NEW j \in Call, j # k PROVE Relies(j)'
  <2>1. calls'[j] = calls[j]
    BY <1>3 DEF TypeOK
  <2> QED BY <2>1 DEF Relies, Latest, Valid
<1> QED BY <1>1, <1>2, <1>3

LEMMA RequestSealKeeps ==
  ASSUME FreezeInv, NEW k \in Request, NEW w \in Worker, NEW a \in Actor, NEW c \in 1..MaxConfirmation,
         NEW t \in Token, RequestSeal(k, w, a, c, t)
  PROVE  FreezeInv'
<1>1. k \in Call /\ k \notin Worker
  BY PublicationAssumption DEF Call
<1>2. c \in 1..Latest'
  BY DEF RequestSeal, tables, Latest
<1>3. ASSUME NEW phase \in {"asking", "leased"}, NEW seen \in 0..MaxGeneration, NEW generation \in 0..MaxGeneration,
             calls' = [calls EXCEPT ![k] = CallOf(phase, w, a, c, t, seen, generation)]
      PROVE  FreezeInv'
  <2> DEFINE new == CallOf(phase, w, a, c, t, seen, generation)
  <2>1. new \in CallRecord
    BY DEF CallOf, CallRecord, Revision
  <2>2. calls'[k] = new
    BY <1>1, <1>3 DEF FreezeInv, TypeOK
  <2>3. Relies(k)'
    BY <1>1, <1>2, <2>2 DEF Relies, CallOf
  <2>4. calls' = [calls EXCEPT ![k] = new]
    BY <1>3
  <2>5. UNCHANGED <<surroundings, run, tables, answers>>
    BY DEF RequestSeal
  <2> HIDE DEF new
  <2> QED BY <1>1, <2>1, <2>3, <2>4, <2>5, SlotKeeps
<1>4. run.generation \in 0..MaxGeneration /\ 0 \in 0..MaxGeneration
  BY RunFields, PublicationAssumption DEF FreezeInv
<1> QED BY <1>3, <1>4 DEF RequestSeal

\* A job of a freeze takes the confirmation the run points at.
LEMMA PickSealKeeps ==
  ASSUME FreezeInv, NEW w \in Worker, PickSeal(w)
  PROVE  FreezeInv'
<1> DEFINE new == CallOf("picked", w, operations[run.operation].actor, run.operation, NoToken, 0, run.generation)
<1>1. calls' = [calls EXCEPT ![w] = new] /\ run.status = "PREPARING_SEAL"
  BY DEF PickSeal
<1>2. Latest > 0 /\ run.operation = Latest
  BY <1>1 DEF FreezeInv, Pointer
<1>3. run.operation \in 1..MaxConfirmation
  BY <1>2, RunFields, PublicationAssumption DEF FreezeInv
<1>4. operations[run.operation].actor \in Actor
  BY <1>3 DEF FreezeInv, TypeOK, Operation
<1>5. new \in CallRecord
  BY <1>3, <1>4, RunFields, PublicationAssumption DEF FreezeInv, CallOf, CallRecord, Revision
<1>6. w \in Call /\ w \notin Request
  BY PublicationAssumption DEF Call
<1>7. calls'[w] = new
  BY <1>1, <1>6 DEF FreezeInv, TypeOK
<1>8. run'.status = "PREPARING_SEAL" /\ run.operation \in 1..Latest'
  BY <1>1, <1>2, <1>3 DEF PickSeal, tables, Latest
<1>9. Relies(w)'
  BY <1>6, <1>7, <1>8 DEF Relies, CallOf
<1> HIDE DEF new
<1> QED BY <1>1, <1>5, <1>6, <1>9, SlotKeeps DEF PickSeal

\* A call that goes on and changes only where it stands.
LEMMA StepsKeeps ==
  ASSUME FreezeInv, NEW k \in Call, calls[k].phase # "free",
         NEW phase \in {"asking", "leased", "recovering", "verified"},
         NEW seen \in 0..MaxGeneration, NEW generation \in 0..MaxGeneration,
         calls' = [calls EXCEPT ![k] = [calls[k] EXCEPT !.phase = phase, !.seen = seen, !.generation = generation]],
         UNCHANGED <<surroundings, run, tables, answers>>,
         phase \in {"recovering", "verified"} => calls[k].phase \in {"begun", "recovering", "verified"},
         phase \in {"asking", "leased"} => calls[k].phase \in {"picked", "asking", "leased"}
  PROVE  FreezeInv'
<1> DEFINE new == [calls[k] EXCEPT !.phase = phase, !.seen = seen, !.generation = generation]
<1>1. calls' = [calls EXCEPT ![k] = new]
  OBVIOUS
<1>2. new \in CallRecord
  BY CallFields DEF FreezeInv, CallRecord
<1>3. calls'[k] = new
  BY <1>1 DEF FreezeInv, TypeOK
<1>4. /\ new.phase = phase /\ new.confirmation = calls[k].confirmation /\ new.token = calls[k].token
      /\ new.code = calls[k].code
  BY CallFields DEF FreezeInv, CallRecord
<1> HIDE DEF new
<1>5. Relies(k)
  BY DEF FreezeInv
<1>6. Relies(k)'
  BY <1>3, <1>4, <1>5 DEF Relies, Latest, Valid, tables, surroundings
<1> QED BY <1>1, <1>2, <1>6, SlotKeeps

\* A record written with the value it has.
LEMMA SameField ==
  ASSUME TypeOK, NEW k \in Call, NEW phase, NEW seen
  PROVE  /\ [calls[k] EXCEPT !.phase = phase, !.seen = seen]
              = [calls[k] EXCEPT !.phase = phase, !.seen = seen, !.generation = calls[k].generation]
         /\ [calls[k] EXCEPT !.phase = phase]
              = [calls[k] EXCEPT !.phase = phase, !.seen = calls[k].seen, !.generation = calls[k].generation]
BY CallFields DEF CallRecord

\* So does one that only changes its phase.
LEMMA GoesKeeps ==
  ASSUME FreezeInv, NEW k \in Call, NEW phase \in {"recovering", "verified"}, Goes(k, phase),
         calls[k].phase = "begun", UNCHANGED <<surroundings, run, tables, answers>>
  PROVE  FreezeInv'
<1>1. calls' = [calls EXCEPT ![k] = [calls[k] EXCEPT !.phase = phase]]
  BY DEF Goes, FreezeInv, TypeOK
<1>2. calls' = [calls EXCEPT ![k] = [calls[k] EXCEPT !.phase = phase, !.seen = calls[k].seen,
                                                     !.generation = calls[k].generation]]
  BY <1>1, SameField DEF FreezeInv
<1>3. calls[k].seen \in 0..MaxGeneration /\ calls[k].generation \in 0..MaxGeneration
  BY CallFields DEF FreezeInv
<1> QED BY <1>2, <1>3, StepsKeeps

LEMMA AskKeeps ==
  ASSUME FreezeInv, NEW w \in Worker, Ask(w)
  PROVE  FreezeInv'
<1>1. w \in Call /\ calls[w].phase = "picked"
  BY DEF Ask, Call
<1>2. ASSUME NEW code \in {"SOURCE_FORBIDDEN", "SOURCE_INVALID_TRANSITION"}, Fails(w, code)
      PROVE  FreezeInv'
  BY <1>1, <1>2, FailsKeeps DEF Code
<1>3. CASE /\ calls' = [calls EXCEPT ![w] = [calls[w] EXCEPT !.phase = "asking", !.seen = run.generation]]
           /\ UNCHANGED <<surroundings, run, tables, answers>>
  <2>1. calls' = [calls EXCEPT ![w] = [calls[w] EXCEPT !.phase = "asking", !.seen = run.generation,
                                                      !.generation = calls[w].generation]]
    BY <1>1, <1>3, SameField DEF FreezeInv
  <2>2. run.generation \in 0..MaxGeneration /\ calls[w].generation \in 0..MaxGeneration
    BY <1>1, RunFields, CallFields DEF FreezeInv
  <2> QED BY <1>1, <1>3, <2>1, <2>2, StepsKeeps
<1> QED BY <1>2, <1>3 DEF Ask

\* A claim changes the generation, the process and the lease of the row only.
LEMMA TakeLeaseKeeps ==
  ASSUME FreezeInv, NEW k \in Call, TakeLease(k)
  PROVE  FreezeInv'
<1>1. calls[k].phase = "asking"
  BY DEF TakeLease
<1>2. ASSUME NEW code \in {"SOURCE_FORBIDDEN", "SOURCE_LEASE_BUSY"}, Fails(k, code)
      PROVE  FreezeInv'
  BY <1>1, <1>2, FailsKeeps DEF Code
<1>3. CASE Leased(k, run.generation) /\ UNCHANGED <<surroundings, run, tables, answers>>
  <2>1. run.generation \in 0..MaxGeneration /\ 0 \in 0..MaxGeneration
    BY RunFields, PublicationAssumption DEF FreezeInv
  <2> QED BY <1>1, <1>3, <2>1, StepsKeeps DEF Leased
<1>4. CASE /\ Active /\ run.generation < MaxGeneration
           /\ run' = [run EXCEPT !.generation = @ + 1, !.workerId = calls[k].worker, !.lease = TRUE]
           /\ Leased(k, run.generation + 1)
           /\ UNCHANGED <<surroundings, tables, answers>>
  <2> USE DEF FreezeInv, tables, surroundings
  <2>1. run.generation + 1 \in 0..MaxGeneration /\ 0 \in 0..MaxGeneration
    BY <1>4, RunFields, PublicationAssumption
  <2>2. run' \in RunRecord /\ run'.status = run.status /\ run'.operation = run.operation
    BY <1>4, <2>1, CallFields DEF TypeOK, RunRecord
  <2> DEFINE new == [calls[k] EXCEPT !.phase = "leased", !.seen = 0, !.generation = run.generation + 1]
  <2>3. new \in CallRecord
    BY <2>1, CallFields DEF CallRecord
  <2>4. calls' = [calls EXCEPT ![k] = new]
    BY <1>4 DEF Leased
  <2>5. /\ new.phase = "leased" /\ new.confirmation = calls[k].confirmation /\ new.token = calls[k].token
        /\ new.code = calls[k].code
    BY CallFields DEF CallRecord
  <2> HIDE DEF new
  <2>6. calls' \in [Call -> CallRecord] /\ calls'[k] = new /\ \A j \in Call : j # k => calls'[j] = calls[j]
    BY <2>3, <2>4 DEF TypeOK
  <2>7. TypeOK'
    BY <1>4, <2>2, <2>6 DEF TypeOK, Latest
  <2>8. Pointer' /\ Bindings' /\ AnswersAgree'
    BY <1>4, <2>2 DEF Pointer, Bindings, AnswersAgree, Latest
  <2>9. ASSUME NEW j \in Call PROVE Relies(j)'
    <3>1. CASE j # k
      BY <1>4, <2>2, <2>6, <3>1 DEF Relies, Latest, Valid
    <3>2. CASE j = k
      BY <1>1, <1>4, <2>2, <2>5, <2>6, <3>2 DEF Relies, Latest, Valid
    <3> QED BY <3>1, <3>2
  <2> QED BY <2>7, <2>8, <2>9
<1> QED BY <1>2, <1>3, <1>4 DEF TakeLease

-----------------------------------------------------------------------------
(* seal() *)

\* A step that returns the committed result of confirmation c to a call.
LEMMA ReturnsKeeps ==
  ASSUME FreezeInv, NEW k \in Call, calls[k].phase # "free", Returns(k, calls[k].confirmation),
         operations[calls[k].confirmation].status = "COMMITTED",
         UNCHANGED <<surroundings, run, confirmations, operations, receipts>>,
         tokens' \in [Token -> 0..MaxConfirmation],
         \A t \in Token : tokens'[t] = tokens[t] \/ (tokens[t] = 0 /\ tokens'[t] = calls[k].confirmation)
  PROVE  FreezeInv'
<1> USE DEF FreezeInv, surroundings
<1> DEFINE c == calls[k].confirmation
<1>1. c \in 1..Latest /\ c \in 1..MaxConfirmation
  BY PublicationAssumption DEF Relies, TypeOK, Latest
<1>2. run.status = "SUCCEEDED" /\ c = run.operation
  BY <1>1 DEF Pointer
<1>3. receipts'[operations'[c].receipt].confirmation = c
  BY <1>2 DEF Pointer
<1>4. calls' = [calls EXCEPT ![k] = Free] /\ answers' = answers \cup {[asked |-> c, given |-> c]}
  BY <1>3 DEF Returns
<1>5. calls' \in [Call -> CallRecord] /\ calls'[k] = Free /\ \A j \in Call : j # k => calls'[j] = calls[j]
  BY <1>4, FreeIsCall DEF TypeOK
<1>6. answers' \subseteq [asked: 1..MaxConfirmation, given: 1..MaxConfirmation]
  BY <1>1, <1>4 DEF TypeOK
<1>7. TypeOK'
  BY <1>5, <1>6 DEF TypeOK, Latest
<1>8. Pointer' /\ AnswersAgree'
  BY <1>4 DEF Pointer, AnswersAgree, Latest
<1>9. Bindings'
  BY DEF Bindings
<1>10. ASSUME NEW j \in Call PROVE Relies(j)'
  <2>1. CASE j = k
    BY <1>5, <2>1 DEF Relies, Free, CallOf
  <2>2. CASE j # k
    <3>1. calls'[j] = calls[j] /\ Relies(j)
      BY <1>5, <2>2
    <3>2. calls[j].token \in Token /\ tokens[calls[j].token] # 0 => tokens'[calls[j].token] = tokens[calls[j].token]
      OBVIOUS
    <3> QED BY <3>1, <3>2 DEF Relies, Latest, Valid
  <2> QED BY <2>1, <2>2
<1> QED BY <1>7, <1>8, <1>9, <1>10

\* What begin() and the commit found out when they do not object.
LEMMA BeginPasses ==
  ASSUME NEW k \in Call, BeginObjection(k) = "NONE"
  PROVE  /\ Authorized(k)
         /\ calls[k].token # NoToken => tokens[calls[k].token] \in {0, calls[k].confirmation}
         /\ operations[calls[k].confirmation].status # "COMMITTED" =>
              /\ Active /\ Current(k) /\ Latest = calls[k].confirmation /\ Valid(calls[k].confirmation)
BY DEF BeginObjection

LEMMA CommitPasses ==
  ASSUME NEW k \in Call, CommitObjection(k) = "NONE"
  PROVE  operations[calls[k].confirmation].status # "COMMITTED" =>
           /\ ~paused /\ Current(k) /\ run.status = "PREPARING_SEAL" /\ Starter \in maintainers
           /\ run.operation = calls[k].confirmation /\ Latest = calls[k].confirmation
           /\ Valid(calls[k].confirmation)
BY DEF CommitObjection

\* An expired acceptance is what they say it is.
LEMMA ExpiredObjection ==
  ASSUME NEW k \in Call,
         BeginObjection(k) = "SOURCE_ACCEPTANCE_EXPIRED" \/ CommitObjection(k) = "SOURCE_ACCEPTANCE_EXPIRED"
  PROVE  ~Valid(calls[k].confirmation)
BY DEF BeginObjection, CommitObjection

LEMMA BindTokenType ==
  ASSUME FreezeInv, NEW k \in Call, calls[k].phase # "free", BindToken(k)
  PROVE  /\ tokens' \in [Token -> 0..MaxConfirmation]
         /\ \A t \in Token : tokens'[t] = tokens[t] \/ (tokens[t] = 0 /\ tokens'[t] = calls[k].confirmation)
         /\ calls[k].token \in Token /\ tokens[calls[k].token] = 0 => tokens'[calls[k].token] = calls[k].confirmation
<1>1. calls[k].confirmation \in 0..MaxConfirmation /\ tokens \in [Token -> 0..MaxConfirmation]
  BY CallFields DEF FreezeInv, TypeOK
<1> QED BY <1>1 DEF BindToken

\* begin() of a confirmation not yet committed: the run points at it.
LEMMA BegunKeeps ==
  ASSUME FreezeInv, NEW k \in Call, calls[k].phase = "leased", BeginObjection(k) = "NONE", BindToken(k),
         operations[calls[k].confirmation].status # "COMMITTED",
         operations' = IF operations[calls[k].confirmation].status = "NONE"
           THEN [operations EXCEPT ![calls[k].confirmation] = [@ EXCEPT !.status = "PREPARING", !.actor = calls[k].actor]]
           ELSE operations,
         run' = [run EXCEPT !.status = "PREPARING_SEAL", !.operation = calls[k].confirmation],
         Goes(k, "begun"),
         UNCHANGED <<surroundings, confirmations, receipts, answers>>
  PROVE  FreezeInv'
<1> USE DEF FreezeInv, surroundings
<1> DEFINE c == calls[k].confirmation
<1>1. c \in 1..Latest /\ c \in 1..MaxConfirmation
  BY PublicationAssumption DEF Relies, TypeOK, Latest
<1>2. /\ Active /\ Latest = c /\ Valid(c)
      /\ calls[k].token # NoToken => tokens[calls[k].token] \in {0, c}
  BY BeginPasses
<1>3. run.status # "SUCCEEDED"
  BY <1>2 DEF Active, Terminal
<1>4. run' \in RunRecord /\ run'.status = "PREPARING_SEAL" /\ run'.operation = c
  <2>1. c \in Revision /\ "PREPARING_SEAL" \in Status
    BY <1>1 DEF Revision, Status
  <2> HIDE DEF c
  <2>2. run' = [run EXCEPT !.status = "PREPARING_SEAL", !.operation = c]
    BY DEF c
  <2> QED BY <2>1, <2>2 DEF TypeOK, RunRecord
<1>5. /\ operations' \in [1..MaxConfirmation -> Operation]
      /\ operations'[c].status = "PREPARING"
      /\ \A d \in 1..MaxConfirmation : d # c => operations'[d] = operations[d]
  <2>1. operations[c] \in Operation /\ calls[k].actor \in Actor
    BY <1>1, CallFields DEF TypeOK
  <2>2. CASE operations[c].status = "NONE"
    <3> DEFINE new == [operations[c] EXCEPT !.status = "PREPARING", !.actor = calls[k].actor]
    <3>1. new \in Operation /\ new.status = "PREPARING"
      BY <2>1 DEF Operation
    <3>2. operations' = [operations EXCEPT ![c] = new]
      BY <2>2
    <3> HIDE DEF new
    <3> QED BY <1>1, <3>1, <3>2 DEF TypeOK
  <2>3. CASE operations[c].status = "PREPARING"
    BY <2>3 DEF TypeOK
  <2> QED BY <2>1, <2>2, <2>3 DEF Operation
<1>6. /\ tokens' \in [Token -> 0..MaxConfirmation]
      /\ \A t \in Token : tokens'[t] = tokens[t] \/ (tokens[t] = 0 /\ tokens'[t] = c)
      /\ calls[k].token \in Token /\ tokens[calls[k].token] = 0 => tokens'[calls[k].token] = c
  BY BindTokenType
<1>7. /\ calls' \in [Call -> CallRecord] /\ calls'[k] = [calls[k] EXCEPT !.phase = "begun"]
      /\ \A j \in Call : j # k => calls'[j] = calls[j]
  BY TypeGoes DEF Goes, TypeOK
<1>8. TypeOK'
  BY <1>4, <1>5, <1>6, <1>7 DEF TypeOK, Latest
<1>9. Pointer'
  <2>1. Latest' = Latest /\ Latest > 0
    BY <1>1 DEF Latest, TypeOK
  <2>2. \A d \in 1..MaxConfirmation : operations'[d].status # "COMMITTED"
    BY <1>3, <1>5 DEF Pointer
  <2> QED BY <1>2, <1>3, <1>4, <2>1, <2>2 DEF Pointer
<1>10. Bindings'
  BY <1>1, <1>5, <1>6 DEF Bindings, TypeOK
<1>11. AnswersAgree'
  BY DEF AnswersAgree
<1>12. ASSUME NEW j \in Call PROVE Relies(j)'
  <2>1. CASE j # k
    <3>1. calls'[j] = calls[j] /\ Relies(j)
      BY <1>7, <2>1
    <3>2. calls[j].token \in Token /\ tokens[calls[j].token] # 0 => tokens'[calls[j].token] = tokens[calls[j].token]
      BY <1>6
    <3> QED BY <1>4, <3>1, <3>2 DEF Relies, Latest, Valid
  <2>2. CASE j = k
    <3>1. /\ calls'[k].phase = "begun" /\ calls'[k].confirmation = c /\ calls'[k].token = calls[k].token
      BY <1>7, CallFields DEF CallRecord
    <3>2. k \in Request => calls[k].token \in Token /\ calls[k].token # NoToken
      BY PublicationAssumption DEF Relies
    <3>3. k \in Request => tokens'[calls[k].token] = c
      BY <1>2, <1>6, <3>2
    <3>4. c \in 1..Latest'
      BY <1>1 DEF Latest
    <3> QED BY <2>2, <3>1, <3>2, <3>3, <3>4, <1>4 DEF Relies
  <2> QED BY <2>1, <2>2
<1> QED BY <1>8, <1>9, <1>10, <1>11, <1>12

LEMMA BeginKeeps ==
  ASSUME FreezeInv, NEW k \in Call, Begin(k)
  PROVE  FreezeInv'
<1> DEFINE c == calls[k].confirmation
<1>1. calls[k].phase = "leased"
  BY DEF Begin
<1>2. CASE BeginObjection(k) # "NONE" /\ Fails(k, BeginObjection(k))
  BY <1>1, <1>2, FailsKeeps, BeginCodes, ExpiredObjection
<1>3. CASE BeginObjection(k) = "NONE" /\ operations[c].status = "COMMITTED"
  <2>1. /\ BindToken(k) /\ UNCHANGED <<run, operations, receipts>> /\ Returns(k, c)
        /\ UNCHANGED <<surroundings, confirmations>>
    BY <1>3 DEF Begin
  <2>2. /\ tokens' \in [Token -> 0..MaxConfirmation]
        /\ \A t \in Token : tokens'[t] = tokens[t] \/ (tokens[t] = 0 /\ tokens'[t] = calls[k].confirmation)
    BY <1>1, <2>1, BindTokenType
  <2> QED BY <1>1, <1>3, <2>1, <2>2, ReturnsKeeps
<1>4. CASE BeginObjection(k) = "NONE" /\ operations[c].status # "COMMITTED"
  <2>1. /\ BindToken(k)
        /\ operations' = IF operations[calls[k].confirmation].status = "NONE"
             THEN [operations EXCEPT ![calls[k].confirmation] = [@ EXCEPT !.status = "PREPARING", !.actor = calls[k].actor]]
             ELSE operations
        /\ run' = [run EXCEPT !.status = "PREPARING_SEAL", !.operation = calls[k].confirmation]
        /\ Goes(k, "begun")
        /\ UNCHANGED <<surroundings, confirmations, receipts, answers>>
    BY <1>4 DEF Begin
  <2> QED BY <1>1, <1>4, <2>1, BegunKeeps
<1> QED BY <1>2, <1>3, <1>4 DEF Begin

LEMMA VerifyKeeps ==
  ASSUME FreezeInv, NEW k \in Call, Verify(k)
  PROVE  FreezeInv'
<1>1. calls[k].phase = "begun"
  BY DEF Verify
<1>2. ASSUME NEW phase \in {"recovering", "verified"}, Goes(k, phase), UNCHANGED <<surroundings, run, tables, answers>>
      PROVE  FreezeInv'
  BY <1>1, <1>2, GoesKeeps
<1>3. ASSUME NEW code \in {"SOURCE_FORBIDDEN", "SOURCE_MANIFEST_CORRUPT", "SOURCE_WORKER_RETRY_REQUIRED"},
             Fails(k, code)
      PROVE  FreezeInv'
  BY <1>1, <1>3, FailsKeeps DEF Code
<1> QED BY <1>2, <1>3 DEF Verify

LEMMA RecoverKeeps ==
  ASSUME FreezeInv, NEW k \in Call, Recover(k)
  PROVE  FreezeInv'
<1>1. calls[k].phase = "recovering"
  BY DEF Recover
<1>2. ASSUME NEW code \in {"SOURCE_FORBIDDEN", "SOURCE_STALE_WORKER"}, Fails(k, code)
      PROVE  FreezeInv'
  BY <1>1, <1>2, FailsKeeps DEF Code
<1>3. CASE /\ operations[calls[k].confirmation].status = "COMMITTED"
           /\ UNCHANGED <<surroundings, run, tables>>
           /\ Returns(k, calls[k].confirmation)
  <2>1. UNCHANGED <<confirmations, operations, receipts>> /\ tokens' = tokens /\ tokens \in [Token -> 0..MaxConfirmation]
    BY <1>3 DEF tables, FreezeInv, TypeOK
  <2> QED BY <1>1, <1>3, <2>1, ReturnsKeeps
<1> QED BY <1>2, <1>3 DEF Recover

\* The commit writes the only receipt, of the confirmation the run points at.
LEMMA CommitsKeeps ==
  ASSUME FreezeInv, NEW k \in Call, calls[k].phase = "verified", CommitObjection(k) = "NONE",
         operations[calls[k].confirmation].status # "COMMITTED",
         receipts' = Append(receipts, [confirmation |-> calls[k].confirmation]),
         operations' = [operations EXCEPT ![calls[k].confirmation] =
                          [@ EXCEPT !.status = "COMMITTED", !.receipt = Len(receipts) + 1]],
         run' = [run EXCEPT !.status = "SUCCEEDED", !.lease = FALSE],
         Returns(k, calls[k].confirmation),
         UNCHANGED <<surroundings, confirmations, tokens>>
  PROVE  FreezeInv'
<1> USE DEF FreezeInv, surroundings
<1> DEFINE c == calls[k].confirmation
<1>1. c \in 1..Latest /\ c \in 1..MaxConfirmation
  BY PublicationAssumption DEF Relies, TypeOK, Latest
<1>2. run.status = "PREPARING_SEAL" /\ run.operation = c /\ Latest = c
  BY CommitPasses
<1>3. Len(receipts) = 0
  BY <1>2 DEF Pointer
<1>4. /\ receipts' \in Seq([confirmation: 1..MaxConfirmation]) /\ Len(receipts') = 1
      /\ receipts'[1].confirmation = c
  <2>1. [confirmation |-> c] \in [confirmation: 1..MaxConfirmation]
    BY <1>1
  <2> QED BY <1>3, <2>1 DEF TypeOK
<1>5. run' \in RunRecord /\ run'.status = "SUCCEEDED" /\ run'.operation = c
  BY <1>2 DEF TypeOK, RunRecord, Status, Terminal
<1>6. /\ operations' \in [1..MaxConfirmation -> Operation]
      /\ operations'[c].status = "COMMITTED" /\ operations'[c].receipt = 1
      /\ \A d \in 1..MaxConfirmation : d # c => operations'[d] = operations[d]
  <2> DEFINE new == [operations[c] EXCEPT !.status = "COMMITTED", !.receipt = 1]
  <2>1. Len(receipts) + 1 = 1
    BY <1>3
  <2>2. operations' = [operations EXCEPT ![c] = new]
    BY <2>1
  <2>3. operations[c] \in Operation /\ 1 \in 0..MaxConfirmation
    BY <1>1, PublicationAssumption DEF TypeOK
  <2>4. new \in Operation /\ new.status = "COMMITTED" /\ new.receipt = 1
    BY <2>3 DEF Operation
  <2> HIDE DEF new
  <2> QED BY <1>1, <2>2, <2>4 DEF TypeOK
<1>7. receipts'[operations'[c].receipt].confirmation = c
  BY <1>4, <1>6
<1>8. calls' = [calls EXCEPT ![k] = Free] /\ answers' = answers \cup {[asked |-> c, given |-> c]}
  BY <1>7 DEF Returns
<1>9. calls' \in [Call -> CallRecord] /\ calls'[k] = Free /\ \A j \in Call : j # k => calls'[j] = calls[j]
  BY <1>8, FreeIsCall DEF TypeOK
<1>10. answers' \subseteq [asked: 1..MaxConfirmation, given: 1..MaxConfirmation]
  BY <1>1, <1>8 DEF TypeOK
<1>11. TypeOK'
  BY <1>4, <1>5, <1>6, <1>9, <1>10, PublicationAssumption DEF TypeOK, Latest
<1>12. Pointer'
  <2>1. Latest' = Latest
    BY DEF Latest
  <2>2. \A d \in 1..MaxConfirmation : d # c => operations[d].status # "COMMITTED"
    BY <1>2 DEF Pointer
  <2> QED BY <1>1, <1>2, <1>4, <1>5, <1>6, <2>1, <2>2 DEF Pointer
<1>13. Bindings'
  BY <1>6 DEF Bindings, TypeOK
<1>14. AnswersAgree'
  BY <1>8 DEF AnswersAgree
<1>15. ASSUME NEW j \in Call PROVE Relies(j)'
  <2>1. CASE j = k
    BY <1>9, <2>1 DEF Relies, Free, CallOf
  <2>2. CASE j # k
    BY <1>5, <1>9, <2>2 DEF Relies, Latest, Valid
  <2> QED BY <2>1, <2>2
<1> QED BY <1>11, <1>12, <1>13, <1>14, <1>15

LEMMA CommitKeeps ==
  ASSUME FreezeInv, NEW k \in Call, Commit(k)
  PROVE  FreezeInv'
<1> DEFINE c == calls[k].confirmation
<1>1. calls[k].phase = "verified"
  BY DEF Commit
<1>2. CASE CommitObjection(k) # "NONE" /\ Fails(k, CommitObjection(k))
  BY <1>1, <1>2, FailsKeeps, CommitCodes, ExpiredObjection
<1>3. CASE CommitObjection(k) = "NONE" /\ operations[c].status = "COMMITTED"
  <2>1. /\ UNCHANGED <<run, operations, receipts>> /\ Returns(k, c)
        /\ UNCHANGED <<surroundings, confirmations, tokens>>
        /\ tokens \in [Token -> 0..MaxConfirmation]
    BY <1>3 DEF Commit, FreezeInv, TypeOK
  <2> QED BY <1>1, <1>3, <2>1, ReturnsKeeps
<1>4. CASE CommitObjection(k) = "NONE" /\ operations[c].status # "COMMITTED"
  <2>1. /\ receipts' = Append(receipts, [confirmation |-> calls[k].confirmation])
        /\ operations' = [operations EXCEPT ![calls[k].confirmation] =
                            [@ EXCEPT !.status = "COMMITTED", !.receipt = Len(receipts) + 1]]
        /\ run' = [run EXCEPT !.status = "SUCCEEDED", !.lease = FALSE]
        /\ Returns(k, calls[k].confirmation)
        /\ UNCHANGED <<surroundings, confirmations, tokens>>
    BY <1>4 DEF Commit
  <2> QED BY <1>1, <1>4, <2>1, CommitsKeeps
<1> QED BY <1>2, <1>3, <1>4 DEF Commit

\* A recorded failure takes a freeze back to review only for an acceptance that
\* expired, and then the confirmation of every other job expired with it.
LEMMA RecordFailureKeeps ==
  ASSUME FreezeInv, NEW w \in Worker, RecordFailure(w)
  PROVE  FreezeInv'
<1> USE DEF FreezeInv, surroundings, tables
<1>1. /\ w \in Call /\ calls[w].phase = "failed" /\ calls' = [calls EXCEPT ![w] = Free]
      /\ UNCHANGED <<maintainers, paused, gone, expired, confirmations, operations, tokens, receipts, answers>>
  BY DEF RecordFailure, Call
<1>2. calls' \in [Call -> CallRecord] /\ calls'[w] = Free /\ \A j \in Call : j # w => calls'[j] = calls[j]
  BY <1>1, FreeIsCall DEF TypeOK
<1>3. ASSUME run' \in RunRecord, run'.operation = run.operation,
             \/ run'.status = run.status
             \/ /\ run.status # "SUCCEEDED" /\ run'.status \in {"BLOCKED", "FAILED_RETRYABLE", "REVIEW_REQUIRED"}
                /\ run'.status = "REVIEW_REQUIRED" /\ run.status = "PREPARING_SEAL" => ~Valid(Latest)
                /\ run.status \in {"REVIEW_REQUIRED", "PREPARING_SEAL"} \/ run'.status # "REVIEW_REQUIRED"
      PROVE  FreezeInv'
  <2>1. TypeOK'
    BY <1>1, <1>2, <1>3 DEF TypeOK, Latest
  <2>2. Pointer' /\ Bindings' /\ AnswersAgree'
    BY <1>1, <1>3 DEF Pointer, Bindings, AnswersAgree, Latest
  <2>3. ASSUME NEW j \in Call PROVE Relies(j)'
    <3>1. CASE j = w
      BY <1>2, <3>1 DEF Relies, Free, CallOf
    <3>2. CASE j # w
      <4>1. calls'[j] = calls[j] /\ Relies(j)
        BY <1>2, <3>2
      <4>2. Latest' = Latest /\ (Valid(calls[j].confirmation)' <=> Valid(calls[j].confirmation))
        BY <1>1, <4>1 DEF Latest, Valid
      <4> QED BY <1>1, <1>3, <4>1, <4>2 DEF Relies
    <3> QED BY <3>1, <3>2
  <2> QED BY <2>1, <2>2, <2>3
<1>4. CASE ~FailureAccepted(w) /\ UNCHANGED run
  BY <1>3, <1>4 DEF TypeOK
<1>5. CASE /\ FailureAccepted(w) /\ run.generation < MaxGeneration
           /\ run' = [run EXCEPT !.status = Verdict(calls[w].code), !.generation = @ + 1, !.lease = FALSE,
                                 !.diagnostic = calls[w].code]
  <2>1. run.generation + 1 \in 0..MaxGeneration
    BY <1>5, RunFields, PublicationAssumption
  <2>2. /\ Verdict(calls[w].code) \in {"BLOCKED", "FAILED_RETRYABLE", "REVIEW_REQUIRED"}
        /\ Verdict(calls[w].code) = "REVIEW_REQUIRED" <=> calls[w].code = "SOURCE_ACCEPTANCE_EXPIRED"
    BY DEF Verdict
  <2>3. calls[w].code \in Code \cup {"NONE"}
    BY <1>1, CallFields DEF CallRecord
  <2>4. /\ run' \in RunRecord /\ run'.operation = run.operation /\ run'.status = Verdict(calls[w].code)
    BY <1>5, <2>1, <2>2, <2>3 DEF TypeOK, RunRecord, Status, Terminal
  <2>5. run.status \in {"REVIEW_REQUIRED", "PREPARING_SEAL"} /\ run.operation = calls[w].confirmation
    BY <1>5 DEF FailureAccepted, Active, Terminal, TypeOK, RunRecord, Status
  <2>6. run.status = "PREPARING_SEAL" /\ run'.status = "REVIEW_REQUIRED" => ~Valid(Latest)
    BY <1>1, <2>2, <2>4, <2>5 DEF Relies, Pointer
  <2> QED BY <1>3, <2>2, <2>4, <2>5, <2>6
<1> QED BY <1>4, <1>5 DEF RecordFailure

-----------------------------------------------------------------------------
(* Every step *)

LEMMA SealKeeps ==
  ASSUME FreezeInv, NEW k \in Call, Seal(k)
  PROVE  FreezeInv'
BY TakeLeaseKeeps, BeginKeeps, VerifyKeeps, RecoverKeeps, CommitKeeps DEF Seal

LEMMA FreezeStep == FreezeInv /\ [Next]_vars => FreezeInv'
<1> SUFFICES ASSUME FreezeInv, [Next]_vars PROVE FreezeInv'
  OBVIOUS
<1>1. ASSUME NEW a \in Actor, Member(a) PROVE FreezeInv'
  <2>1. CASE SetMaintainer(a)
    BY <2>1, SurroundingsKeep
  <2>2. ASSUME NEW x \in Offer, Confirm(a, x) PROVE FreezeInv'
    BY <2>2, ConfirmKeeps
  <2>3. CASE Cancel(a)
    BY <2>3, CancelKeeps
  <2>4. ASSUME NEW k \in Request, NEW w \in Worker, NEW c \in 1..MaxConfirmation, NEW t \in Token,
               RequestSeal(k, w, a, c, t)
        PROVE  FreezeInv'
    BY <2>4, RequestSealKeeps
  <2> QED BY <1>1, <2>1, <2>2, <2>3, <2>4 DEF Member
<1>2. ASSUME NEW k \in Request, Seal(k) PROVE FreezeInv'
  BY <1>2, SealKeeps DEF Call
<1>3. ASSUME NEW w \in Worker, JobNext(w) PROVE FreezeInv'
  BY <1>3, PickSealKeeps, AskKeeps, SealKeeps, RecordFailureKeeps DEF JobNext, Call
<1>4. ASSUME NEW w \in Worker, Crash(w) PROVE FreezeInv'
  BY <1>4, CrashKeeps
<1>5. ASSUME NEW x \in Acceptance, AcceptanceExpires(x) PROVE FreezeInv'
  BY <1>5, SurroundingsKeep
<1>6. CASE LeaseExpires
  BY <1>6, LeaseExpiresKeeps
<1>7. CASE SetBarrier
  BY <1>7, SurroundingsKeep
<1>8. CASE UNCHANGED vars
  BY <1>8, AroundKeeps DEF vars, surroundings, FreezeInv, TypeOK
<1> QED BY <1>1, <1>2, <1>3, <1>4, <1>5, <1>6, <1>7, <1>8 DEF Next

LEMMA FreezeInvCorrect == Spec => []FreezeInv
<1> QED BY FreezeInit, FreezeStep, PTL DEF Spec

-----------------------------------------------------------------------------
(* The theorems *)

\* Every column and every call has its type.
THEOREM TypeCorrect == Spec => []TypeOK
<1>1. FreezeInv => TypeOK
  BY DEF FreezeInv
<1> QED BY <1>1, FreezeInvCorrect, PTL

\* However many members, requests and processes freeze a run, it gets at most
\* one receipt, of the operation it names, exactly when it succeeds.
THEOREM OneReceiptCorrect == Spec => []OneReceipt
<1>1. FreezeInv => OneReceipt
  <2> SUFFICES ASSUME FreezeInv PROVE OneReceipt
    OBVIOUS
  <2>1. run.status = "SUCCEEDED" => receipts[operations[run.operation].receipt].confirmation = run.operation
    BY DEF FreezeInv, Pointer
  <2> QED BY <2>1 DEF FreezeInv, Pointer, OneReceipt
<1> QED BY <1>1, FreezeInvCorrect, PTL

\* Whoever asks, again or after another, is answered with the result of the
\* confirmation asked for.
THEOREM AnswersAgreeCorrect == Spec => []AnswersAgree
<1>1. FreezeInv => AnswersAgree
  BY DEF FreezeInv
<1> QED BY <1>1, FreezeInvCorrect, PTL

\* A token leads to one confirmation, for whichever request carries it.
THEOREM TokensBindCorrect == Spec => []TokensBind
<1>1. FreezeInv => TokensBind
  <2> SUFFICES ASSUME FreezeInv PROVE TokensBind
    OBVIOUS
  <2>1. \A k \in Request : k \in Call
    BY DEF Call
  <2> QED BY <2>1 DEF FreezeInv, Bindings, Relies, TokensBind
<1> QED BY <1>1, FreezeInvCorrect, PTL

\* Only a member's request turns a review into a freeze: a process that still
\* works for a freeze that was taken back finds its confirmation superseded or
\* expired.
THEOREM NoAutoSignCorrect == Spec => NoAutoSign
<1>1. ASSUME FreezeInv, [Next]_vars
      PROVE  run.status = "REVIEW_REQUIRED" /\ run'.status = "PREPARING_SEAL" => \E k \in Request : Begin(k)
  <2> SUFFICES ASSUME run.status = "REVIEW_REQUIRED", run'.status = "PREPARING_SEAL"
               PROVE  \E k \in Request : Begin(k)
    OBVIOUS
  <2>1. run \in RunRecord
    BY <1>1 DEF FreezeInv, TypeOK
  <2>2. run' # run
    OBVIOUS
  <2>3. ASSUME NEW a \in Actor, Member(a) PROVE FALSE
    BY <2>1, <2>2, <2>3 DEF Member, SetMaintainer, Confirm, Cancel, RequestSeal, RunRecord
  <2>4. ASSUME NEW k \in Call, NEW code, Fails(k, code) PROVE FALSE
    BY <2>2, <2>4 DEF Fails
  <2>5. ASSUME NEW k \in Call, TakeLease(k) PROVE FALSE
    BY <2>1, <2>2, <2>4, <2>5 DEF TakeLease, RunRecord
  <2>6. ASSUME NEW k \in Call, Verify(k) \/ Recover(k) PROVE FALSE
    BY <2>2, <2>4, <2>6 DEF Verify, Recover
  <2>7. ASSUME NEW k \in Call, Commit(k) PROVE FALSE
    BY <2>1, <2>2, <2>4, <2>7 DEF Commit, RunRecord
  <2>8. ASSUME NEW w \in Worker, Begin(w) PROVE FALSE
    <3>1. w \in Call
      BY DEF Call
    <3>2. CASE BeginObjection(w) # "NONE"
      BY <2>4, <2>8, <3>1, <3>2 DEF Begin
    <3>3. CASE BeginObjection(w) = "NONE" /\ operations[calls[w].confirmation].status # "COMMITTED"
      <4>1. Latest = calls[w].confirmation /\ Valid(calls[w].confirmation)
        BY <3>1, <3>3, BeginPasses
      <4>2. Relies(w) /\ calls[w].phase = "leased"
        BY <1>1, <2>8, <3>1 DEF FreezeInv, Begin
      <4> QED BY <4>1, <4>2 DEF Relies
    <3>4. CASE BeginObjection(w) = "NONE" /\ operations[calls[w].confirmation].status = "COMMITTED"
      BY <2>2, <2>8, <3>4 DEF Begin
    <3> QED BY <3>2, <3>3, <3>4
  <2>9. ASSUME NEW w \in Worker, PickSeal(w) \/ Ask(w) PROVE FALSE
    BY <2>2, <2>4, <2>9 DEF PickSeal, Ask, Call
  <2>10. ASSUME NEW w \in Worker, RecordFailure(w) PROVE FALSE
    <3>1. run'.status = Verdict(calls[w].code)
      BY <2>1, <2>2, <2>10 DEF RecordFailure, RunRecord
    <3> QED BY <3>1 DEF Verdict
  <2>11. ASSUME NEW w \in Worker, Crash(w) PROVE FALSE
    BY <2>2, <2>11 DEF Crash
  <2>12. ASSUME (\E x \in Acceptance : AcceptanceExpires(x)) \/ LeaseExpires \/ SetBarrier PROVE FALSE
    BY <2>1, <2>2, <2>12 DEF AcceptanceExpires, LeaseExpires, SetBarrier, RunRecord
  <2>13. ASSUME NEW k \in Call, Seal(k) PROVE k \in Request /\ Begin(k)
    BY <2>5, <2>6, <2>7, <2>8, <2>13 DEF Seal, Call
  <2>14. CASE Next
    BY <2>3, <2>9, <2>10, <2>11, <2>12, <2>13, <2>14, Callers DEF Next, JobNext, Call
  <2>15. CASE UNCHANGED vars
    BY <2>2, <2>15 DEF vars
  <2> QED BY <1>1, <2>14, <2>15
<1> QED BY <1>1, FreezeInvCorrect, PTL DEF Spec, NoAutoSign

-----------------------------------------------------------------------------
(* The review and freeze implement SourceFreeze *)

\* What the refinement mapping makes of a state.
Publishable == Latest > 0 /\ Valid(Latest) /\ Starter \in maintainers /\ ~paused
Published == IF receipts = <<>> THEN 0 ELSE receipts[1].confirmation
Over == run.status \in Terminal \ {"SUCCEEDED"}

LEMMA NoReceipt ==
  ASSUME FreezeInv
  PROVE  /\ run.status # "SUCCEEDED" => receipts = <<>>
         /\ receipts = <<>> => Published = 0
         /\ Len(receipts) = 1 => Published = receipts[1].confirmation
<1>1. receipts \in Seq([confirmation: 1..MaxConfirmation])
  BY DEF FreezeInv, TypeOK
<1>2. receipts = <<>> <=> Len(receipts) = 0
  BY <1>1
<1> QED BY <1>2 DEF FreezeInv, Pointer, Published

LEMMA FreezeInitImplements ==
  ASSUME Init PROVE Freeze!Init
<1>1. Latest = 0
  BY DEF Init, Latest
<1>2. Published = 0
  BY DEF Init, Published
<1>3. Over = FALSE
  BY DEF Init, Over, Terminal
<1>4. Publishable \in BOOLEAN
  BY DEF Publishable
<1> QED BY <1>1, <1>2, <1>3, <1>4 DEF Freeze!Init, Publishable, Published, Over

\* Steps that leave the decisions, the receipts and the end alone.
LEMMA ChangeImplements ==
  ASSUME UNCHANGED <<confirmations, receipts>>, Over' = Over
  PROVE  Freeze!Change
<1>1. Latest' = Latest /\ Published' = Published
  BY DEF Latest, Published
<1>2. Publishable' \in BOOLEAN
  BY DEF Publishable
<1> QED BY <1>1, <1>2 DEF Freeze!Change, Publishable, Published, Over

LEMMA UndecidedHere ==
  ASSUME FreezeInv, Active PROVE Freeze!Undecided
<1>1. run.status # "SUCCEEDED" /\ Over = FALSE
  BY DEF Active, Over, Terminal
<1>2. Published = 0
  BY <1>1, NoReceipt
<1> QED BY <1>1, <1>2 DEF Freeze!Undecided, Published, Over

\* Steps that end a run without a receipt.
LEMMA EndImplements ==
  ASSUME FreezeInv, Active, run'.status \in Terminal \ {"SUCCEEDED"},
         UNCHANGED <<surroundings, confirmations, receipts>>
  PROVE  Freeze!End
<1>1. Over' = TRUE
  BY DEF Over
<1>2. Latest' = Latest /\ Published' = Published /\ (Publishable' <=> Publishable)
  BY DEF Latest, Published, Publishable, Valid, surroundings
<1> QED BY <1>1, <1>2, UndecidedHere DEF Freeze!End, Publishable, Published, Over

LEMMA ConfirmImplements ==
  ASSUME FreezeInv, NEW a \in Actor, NEW x \in Offer, Confirm(a, x)
  PROVE  Freeze!Decide
<1>1. Active /\ Latest < MaxConfirmation
  BY DEF Confirm, Active, Terminal
<1>2. Latest' = Latest + 1
  <2>1. confirmations \in Seq(Confirmation) /\ [actor |-> a, acceptance |-> x] \in Confirmation
    BY DEF FreezeInv, TypeOK, Confirmation
  <2> QED BY <2>1 DEF Confirm, Latest
<1>3. run'.status = "REVIEW_REQUIRED"
  BY DEF Confirm, FreezeInv, TypeOK, RunRecord
<1>4. Over = FALSE /\ Over' = FALSE
  BY <1>1, <1>3 DEF Over, Active, Terminal
<1>5. Published' = Published /\ Publishable' \in BOOLEAN
  BY DEF Confirm, Published, Publishable
<1> QED BY <1>1, <1>2, <1>4, <1>5, UndecidedHere DEF Freeze!Decide, Publishable, Published, Over

LEMMA CommitsImplements ==
  ASSUME FreezeInv, NEW k \in Call, CommitObjection(k) = "NONE",
         operations[calls[k].confirmation].status # "COMMITTED",
         calls[k].phase = "verified",
         receipts' = Append(receipts, [confirmation |-> calls[k].confirmation]),
         run' = [run EXCEPT !.status = "SUCCEEDED", !.lease = FALSE],
         UNCHANGED <<surroundings, confirmations>>
  PROVE  Freeze!Publish
<1>1. /\ ~paused /\ run.status = "PREPARING_SEAL" /\ Starter \in maintainers
      /\ Latest = calls[k].confirmation /\ Valid(Latest)
  BY CommitPasses
<1>2. Latest > 0
  BY <1>1 DEF FreezeInv, Pointer
<1>3. Publishable = TRUE /\ Publishable' = TRUE
  BY <1>1, <1>2 DEF Publishable, Valid, Latest, surroundings
<1>4. Active
  BY <1>1 DEF Active, Terminal
<1>5. receipts = <<>>
  BY <1>1, NoReceipt
<1>6. receipts' = <<[confirmation |-> Latest]>>
  BY <1>1, <1>5
<1>7. receipts' # <<>> /\ receipts'[1].confirmation = Latest
  BY <1>6
<1>8. Published' = Latest
  BY <1>7 DEF Published
<1>9. run'.status = "SUCCEEDED"
  BY DEF FreezeInv, TypeOK, RunRecord
<1>10. Over = FALSE /\ Over' = FALSE
  BY <1>1, <1>9 DEF Over, Terminal
<1>11. Latest' = Latest
  BY DEF Latest
<1> QED BY <1>2, <1>3, <1>4, <1>8, <1>10, <1>11, UndecidedHere DEF Freeze!Publish, Publishable, Published, Over

LEMMA RunStays ==
  ASSUME UNCHANGED <<run, tables>> PROVE Freeze!Change
BY ChangeImplements DEF tables, Over

LEMMA SealImplements ==
  ASSUME FreezeInv, NEW k \in Call, Seal(k)
  PROVE  Freeze!Next
<1> DEFINE c == calls[k].confirmation
<1>1. run \in RunRecord
  BY DEF FreezeInv, TypeOK
<1>2. ASSUME NEW code, Fails(k, code) PROVE Freeze!Change
  BY <1>2, RunStays DEF Fails
<1>3. CASE TakeLease(k)
  <2>1. UNCHANGED <<confirmations, receipts>> /\ run'.status = run.status
    BY <1>1, <1>3 DEF TakeLease, Fails, tables, RunRecord
  <2> QED BY <2>1, ChangeImplements DEF Over, Freeze!Next
<1>4. CASE Begin(k)
  <2>1. CASE BeginObjection(k) # "NONE"
    BY <1>2, <1>4, <2>1 DEF Begin, Freeze!Next
  <2>2. CASE BeginObjection(k) = "NONE"
    <3>1. UNCHANGED <<confirmations, receipts>>
      BY <1>4, <2>2 DEF Begin
    <3>2. Over' = Over
      <4>1. CASE operations[c].status = "COMMITTED"
        BY <1>4, <2>2, <4>1 DEF Begin, Over
      <4>2. CASE operations[c].status # "COMMITTED"
        <5>1. run'.status = "PREPARING_SEAL" /\ Active
          BY <1>1, <1>4, <2>2, <4>2, BeginPasses DEF Begin, RunRecord
        <5> QED BY <5>1 DEF Over, Active, Terminal
      <4> QED BY <4>1, <4>2
    <3> QED BY <3>1, <3>2, ChangeImplements DEF Freeze!Next
  <2> QED BY <2>1, <2>2
<1>5. CASE Verify(k) \/ Recover(k)
  <2>1. UNCHANGED <<run, tables>>
    BY <1>5 DEF Verify, Recover, Fails
  <2> QED BY <2>1, RunStays DEF Freeze!Next
<1>6. CASE Commit(k)
  <2>1. CASE CommitObjection(k) # "NONE"
    BY <1>2, <1>6, <2>1 DEF Commit, Freeze!Next
  <2>2. CASE CommitObjection(k) = "NONE" /\ operations[c].status = "COMMITTED"
    BY <1>6, <2>2, ChangeImplements DEF Commit, Over, Freeze!Next
  <2>3. CASE CommitObjection(k) = "NONE" /\ operations[c].status # "COMMITTED"
    BY <1>6, <2>3, CommitsImplements DEF Commit, Freeze!Next
  <2> QED BY <2>1, <2>2, <2>3
<1> QED BY <1>3, <1>4, <1>5, <1>6 DEF Seal

LEMMA RecordFailureImplements ==
  ASSUME FreezeInv, NEW w \in Worker, RecordFailure(w)
  PROVE  Freeze!Next
<1>1. UNCHANGED <<surroundings, confirmations, receipts>>
  BY DEF RecordFailure, tables
<1>2. CASE UNCHANGED run
  BY <1>1, <1>2, ChangeImplements DEF Over, Freeze!Next
<1>3. CASE FailureAccepted(w) /\ run'.status = Verdict(calls[w].code)
  <2>1. Active
    BY <1>3 DEF FailureAccepted
  <2>2. CASE Verdict(calls[w].code) = "REVIEW_REQUIRED"
    BY <1>1, <1>3, <2>1, <2>2, ChangeImplements DEF Over, Active, Terminal, Freeze!Next
  <2>3. CASE Verdict(calls[w].code) \in {"BLOCKED", "FAILED_RETRYABLE"}
    BY <1>1, <1>3, <2>1, <2>3, EndImplements DEF Terminal, Freeze!Next
  <2> QED BY <2>2, <2>3 DEF Verdict
<1> QED BY <1>2, <1>3 DEF RecordFailure, FreezeInv, TypeOK, RunRecord

LEMMA CancelImplements ==
  ASSUME FreezeInv, NEW a \in Actor, Cancel(a)
  PROVE  Freeze!Next
<1>1. run'.status = "CANCELLED"
  BY DEF Cancel, FreezeInv, TypeOK, RunRecord
<1>2. Active /\ UNCHANGED <<surroundings, confirmations, receipts>>
  BY DEF Cancel, tables
<1> QED BY <1>1, <1>2, EndImplements DEF Terminal, Freeze!Next

LEMMA FreezeStepImplements ==
  ASSUME FreezeInv, [Next]_vars
  PROVE  [Freeze!Next]_Freeze!vars
<1>1. ASSUME NEW a \in Actor, Member(a) PROVE Freeze!Next
  <2>1. CASE SetMaintainer(a)
    BY <2>1, RunStays DEF SetMaintainer, Freeze!Next
  <2>2. ASSUME NEW x \in Offer, Confirm(a, x) PROVE Freeze!Next
    BY <2>2, ConfirmImplements DEF Freeze!Next
  <2>3. CASE Cancel(a)
    BY <2>3, CancelImplements
  <2>4. ASSUME NEW k \in Request, NEW w \in Worker, NEW c \in 1..MaxConfirmation, NEW t \in Token,
               RequestSeal(k, w, a, c, t)
        PROVE  Freeze!Next
    BY <2>4, RunStays DEF RequestSeal, Freeze!Next
  <2> QED BY <1>1, <2>1, <2>2, <2>3, <2>4 DEF Member
<1>2. ASSUME NEW k \in Request, Seal(k) PROVE Freeze!Next
  BY <1>2, SealImplements DEF Call
<1>3. ASSUME NEW w \in Worker, JobNext(w) PROVE Freeze!Next
  <2>1. CASE PickSeal(w) \/ Ask(w)
    BY <2>1, RunStays DEF PickSeal, Ask, Fails, Freeze!Next
  <2>2. CASE Seal(w)
    BY <2>2, SealImplements DEF Call
  <2>3. CASE RecordFailure(w)
    BY <2>3, RecordFailureImplements
  <2> QED BY <1>3, <2>1, <2>2, <2>3 DEF JobNext
<1>4. ASSUME NEW w \in Worker, Crash(w) PROVE Freeze!Next
  BY <1>4, RunStays DEF Crash, Freeze!Next
<1>5. CASE (\E x \in Acceptance : AcceptanceExpires(x)) \/ SetBarrier
  BY <1>5, RunStays DEF AcceptanceExpires, SetBarrier, Freeze!Next
<1>6. CASE LeaseExpires
  <2>1. run'.status = run.status /\ UNCHANGED <<confirmations, receipts>>
    BY <1>6 DEF LeaseExpires, FreezeInv, TypeOK, RunRecord, tables
  <2> QED BY <2>1, ChangeImplements DEF Over, Freeze!Next
<1>7. CASE UNCHANGED vars
  BY <1>7, RunStays DEF vars, Freeze!Next
<1> QED BY <1>1, <1>2, <1>3, <1>4, <1>5, <1>6, <1>7 DEF Next

\* The transactions of members' requests and of the worker, however they
\* interleave, publish the last decision, once, while it is valid.
THEOREM KeepsFreezeCorrect == Spec => KeepsFreeze
<1>1. Init => Freeze!Init
  BY FreezeInitImplements
<1>2. FreezeInv /\ [Next]_vars => [Freeze!Next]_Freeze!vars
  BY FreezeStepImplements
<1> QED BY <1>1, <1>2, FreezeInvCorrect, PTL DEF Spec, KeepsFreeze, Freeze!Spec

=============================================================================
