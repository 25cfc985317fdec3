---------------------------- MODULE ServicesProofs ----------------------------
(***************************************************************************)
(* Proofs about the services that MCServices runs side by side: work       *)
(* sessions, analysis jobs and staging. Each theorem is about the          *)
(* specification of one service, not about the slices MCServices checks.   *)
(***************************************************************************)
EXTENDS MCServices, SequenceTheorems, TLAPS

StagingProofs == INSTANCE SourceStagingProofs

-----------------------------------------------------------------------------
(* Work sessions                                                             *)

Revision == Graph \cup {First, NoGraph}
WantedRow == [kind : {"none", "ask", "continue"}, session : Work!Session, version : Nat, graph : Revision]
AdmittedRow == [graph : Revision, at : Nat]
AskingRow == [pc : {"idle", "preview", "start", "admit"}, request : Request \cup {Nobody}, graph : Revision]

WorkTyped ==
  /\ log \in [Work!Session -> Seq(Revision)]
  /\ wanted \in [Request -> WantedRow]
  /\ admitted \in [Request -> AdmittedRow]
  /\ asking \in [Call -> AskingRow]

\* The session a continuation creates begins with its admission.
SessionsBegin == \A r \in Request : Work!IsAdmitted(r) \/ log[r] = <<>>

\* What a member saw is a version the session has had since.
SeenVersions ==
  \A r \in Request :
    /\ wanted[r].kind # "none" => wanted[r].version \in 1..Len(log[wanted[r].session])
    /\ Work!IsAdmitted(r) => wanted[r].kind # "none"

\* A call carries the binding of the version the member saw.
AskedOnSeen ==
  \A c \in Call : asking[c].pc # "idle" =>
    /\ asking[c].request \in Request
    /\ wanted[asking[c].request].kind # "none"
    /\ asking[c].graph = log[wanted[asking[c].request].session][wanted[asking[c].request].version]

\* The event of an admission stays where it is.
AdmissionStands ==
  \A r \in Request : Work!IsAdmitted(r) =>
    /\ admitted[r].at \in 1..Len(log[wanted[r].session])
    /\ admitted[r].at = wanted[r].version + 1
    /\ admitted[r].graph = log[wanted[r].session][admitted[r].at]

WorkInv == WorkTyped /\ SessionsBegin /\ SeenVersions /\ AskedOnSeen /\ AdmissionStands

\* Every log is continued, none is written over.
LogsGrow ==
  \A s \in Work!Session :
    /\ Len(log[s]) <= Len(log'[s])
    /\ \A i \in 1..Len(log[s]) : log'[s][i] = log[s][i]

\* What refers to versions of the past goes on to hold of them.
LEMMA PastStands ==
  ASSUME WorkInv, LogsGrow, log' \in [Work!Session -> Seq(Revision)]
  PROVE  /\ \A r \in Request : wanted[r].kind # "none" =>
              /\ wanted[r].version \in 1..Len(log'[wanted[r].session])
              /\ log'[wanted[r].session][wanted[r].version] = log[wanted[r].session][wanted[r].version]
         /\ \A r \in Request : Work!IsAdmitted(r) =>
              /\ admitted[r].at \in 1..Len(log'[wanted[r].session])
              /\ log'[wanted[r].session][admitted[r].at] = log[wanted[r].session][admitted[r].at]
<1>1. ASSUME NEW s \in Work!Session, NEW i \in 1..Len(log[s])
      PROVE  i \in 1..Len(log'[s]) /\ log'[s][i] = log[s][i]
  <2>1. Len(log[s]) \in Nat /\ Len(log'[s]) \in Nat
    BY DEF WorkInv, WorkTyped
  <2> QED BY <1>1, <2>1 DEF LogsGrow
<1>2. \A r \in Request : wanted[r].session \in Work!Session
  BY DEF WorkInv, WorkTyped, WantedRow
<1> QED BY <1>1, <1>2 DEF WorkInv, SeenVersions, AdmissionStands

\* The values of the records, in one place for the proofs.
WorkValues ==
  /\ Work!NotAsked \in WantedRow
  /\ Work!NotAdmitted \in AdmittedRow
  /\ Work!Idle \in AskingRow /\ Work!Idle.pc = "idle"

\* A new session has one binding.
LEMMA OneBinding == <<First>> \in Seq(Revision) /\ <<NoGraph>> \in Seq(Revision)
<1>1. First \in Revision /\ NoGraph \in Revision
  BY DEF Revision
<1>2. \A x \in Revision : <<x>> \in Seq(Revision)
  OBVIOUS
<1> QED BY <1>1, <1>2

\* Nobody has asked, and only the member's own session exists.
LEMMA WorkStarts == Work!Init => WorkInv /\ WorkValues
<1> SUFFICES ASSUME Work!Init PROVE WorkInv /\ WorkValues
  OBVIOUS
<1>1. WorkValues
  BY DEF WorkValues, Work!NotAsked, Work!NotAdmitted, Work!Idle, WantedRow, AdmittedRow, AskingRow, Revision,
         Work!Session
<1>2. /\ wanted \in [Request -> WantedRow] /\ admitted \in [Request -> AdmittedRow]
      /\ asking \in [Call -> AskingRow]
  BY <1>1 DEF WorkValues, Work!Init
<1>3. log \in [Work!Session -> Seq(Revision)]
  <2>1. <<First>> \in Seq(Revision) /\ <<>> \in Seq(Revision)
    BY OneBinding
  <2> QED BY <2>1 DEF Work!Init
<1>4. \A r \in Request : wanted[r] = Work!NotAsked /\ admitted[r] = Work!NotAdmitted
  BY DEF Work!Init
<1>5. \A c \in Call : asking[c].pc = "idle"
  BY DEF Work!Init, Work!Idle
<1>6. SessionsBegin
  BY OriginIsCreated DEF SessionsBegin, Work!Init, Work!Session
<1>7. SeenVersions /\ AdmissionStands
  BY <1>4 DEF SeenVersions, AdmissionStands, Work!IsAdmitted, Work!NotAsked
<1>8. AskedOnSeen
  BY <1>5 DEF AskedOnSeen
<1> QED BY <1>1, <1>2, <1>3, <1>6, <1>7, <1>8 DEF WorkInv, WorkTyped

\* A step of a call that leaves what is on record.
LEMMA CallMoves ==
  ASSUME WorkInv, UNCHANGED <<log, wanted, admitted>>, NEW c \in Call, NEW a \in AskingRow,
         asking' = [asking EXCEPT ![c] = a],
         a.pc # "idle" => /\ a.request \in Request
                          /\ wanted[a.request].kind # "none"
                          /\ a.graph = log[wanted[a.request].session][wanted[a.request].version]
  PROVE  WorkInv'
<1>1. asking' \in [Call -> AskingRow] /\ \A d \in Call : asking'[d] = IF d = c THEN a ELSE asking[d]
  BY DEF WorkInv, WorkTyped
<1>2. WorkTyped'
  BY <1>1 DEF WorkInv, WorkTyped
<1>3. AskedOnSeen'
  BY <1>1 DEF WorkInv, AskedOnSeen
<1>4. SessionsBegin' /\ SeenVersions' /\ AdmissionStands'
  BY DEF WorkInv, SessionsBegin, SeenVersions, AdmissionStands, Work!IsAdmitted
<1> QED BY <1>2, <1>3, <1>4 DEF WorkInv

\* Feedback and an adoption put one more binding behind a log.
LEMMA LogMoves ==
  ASSUME WorkInv, UNCHANGED <<wanted, admitted, asking>>, NEW s \in Work!Session, log[s] # <<>>,
         NEW g \in Revision, log' = [log EXCEPT ![s] = Append(@, g)]
  PROVE  WorkInv'
<1>1. log \in [Work!Session -> Seq(Revision)] /\ log[s] \in Seq(Revision)
  BY DEF WorkInv, WorkTyped
<1>2. \A q \in Work!Session : log'[q] = IF q = s THEN Append(log[s], g) ELSE log[q]
  BY <1>1
<1>3. log' \in [Work!Session -> Seq(Revision)]
  BY <1>1, AppendProperties
<1>4. LogsGrow
  <2>1. /\ Len(Append(log[s], g)) = Len(log[s]) + 1
        /\ \A i \in 1..Len(log[s]) : Append(log[s], g)[i] = log[s][i]
    BY <1>1, AppendProperties
  <2>2. \A q \in Work!Session : Len(log[q]) \in Nat
    BY <1>1
  <2> QED BY <1>2, <2>1, <2>2 DEF LogsGrow
<1>5. /\ \A r \in Request : wanted[r].kind # "none" =>
           /\ wanted[r].version \in 1..Len(log'[wanted[r].session])
           /\ log'[wanted[r].session][wanted[r].version] = log[wanted[r].session][wanted[r].version]
      /\ \A r \in Request : Work!IsAdmitted(r) =>
           /\ admitted[r].at \in 1..Len(log'[wanted[r].session])
           /\ log'[wanted[r].session][admitted[r].at] = log[wanted[r].session][admitted[r].at]
  BY <1>3, <1>4, PastStands
<1>6. WorkTyped'
  BY <1>3 DEF WorkInv, WorkTyped
<1>7. SessionsBegin'
  BY <1>2 DEF WorkInv, SessionsBegin, Work!IsAdmitted, Work!Session
<1>8. SeenVersions' /\ AskedOnSeen' /\ AdmissionStands'
  BY <1>5 DEF WorkInv, SeenVersions, AskedOnSeen, AdmissionStands, Work!IsAdmitted
<1> QED BY <1>6, <1>7, <1>8 DEF WorkInv

\* A member sees a version that exists.
LEMMA SubmitMoves ==
  ASSUME WorkInv, NEW r \in Request, NEW kind \in {"ask", "continue"}, NEW s \in Work!Session,
         NEW v \in 1..MaxVersion, Work!Submit(r, kind, s, v)
  PROVE  WorkInv'
<1> DEFINE w == [kind |-> kind, session |-> s, version |-> v, graph |-> log[s][v]]
<1>1. /\ log \in [Work!Session -> Seq(Revision)] /\ wanted \in [Request -> WantedRow]
      /\ wanted[r].kind = "none" /\ v \in 1..Len(log[s])
      /\ wanted' = [wanted EXCEPT ![r] = w] /\ UNCHANGED <<log, admitted, asking>>
  BY DEF WorkInv, WorkTyped, Work!Submit, Work!Version
<1>2. w \in WantedRow
  BY <1>1, ElementOfSeq DEF WantedRow
<1>3. /\ wanted' \in [Request -> WantedRow]
      /\ \A q \in Request : wanted'[q] = IF q = r THEN w ELSE wanted[q]
  BY <1>1, <1>2
<1>4. w.kind # "none" /\ w.session = s /\ w.version = v
  OBVIOUS
<1> HIDE DEF w
<1>5. ~Work!IsAdmitted(r)
  BY <1>1 DEF WorkInv, SeenVersions
<1>6. \A c \in Call : asking[c].pc # "idle" => asking[c].request \in Request /\ asking[c].request # r
  BY <1>1 DEF WorkInv, AskedOnSeen
<1>7. WorkTyped' /\ SessionsBegin'
  BY <1>1, <1>3 DEF WorkInv, WorkTyped, SessionsBegin, Work!IsAdmitted
<1>8. SeenVersions' /\ AdmissionStands'
  BY <1>1, <1>3, <1>4, <1>5 DEF WorkInv, SeenVersions, AdmissionStands, Work!IsAdmitted
<1>9. AskedOnSeen'
  <2>1. \A c \in Call : asking[c].pc # "idle" =>
          asking[c].request \in Request /\ wanted'[asking[c].request] = wanted[asking[c].request]
    BY <1>3, <1>6
  <2>2. ASSUME NEW c \in Call, asking[c].pc # "idle"
        PROVE  LET q == asking[c].request
               IN q \in Request /\ wanted[q].kind # "none" /\ asking[c].graph = log[wanted[q].session][wanted[q].version]
    <3>1. AskedOnSeen
      BY DEF WorkInv
    <3> QED BY <2>2, <3>1 DEF AskedOnSeen
  <2> QED BY <1>1, <2>1, <2>2 DEF AskedOnSeen
<1> QED BY <1>7, <1>8, <1>9 DEF WorkInv

\* An admission finds the version the member saw, and writes behind it.
LEMMA AdmitMoves ==
  ASSUME WorkInv, WorkValues, NEW c \in Call, Work!Admit(c)
  PROVE  WorkInv'
<1> DEFINE r == asking[c].request
           s == wanted[r].session
           a == [graph |-> asking[c].graph, at |-> Len(log[s]) + 1]
<1>1. /\ log \in [Work!Session -> Seq(Revision)] /\ wanted \in [Request -> WantedRow]
      /\ admitted \in [Request -> AdmittedRow] /\ asking \in [Call -> AskingRow]
      /\ Work!Idle \in AskingRow /\ Work!Idle.pc = "idle"
  BY Zenon DEF WorkInv, WorkTyped, WorkValues
<1>2. /\ asking[c].pc = "admit" /\ asking' = [asking EXCEPT ![c] = Work!Idle] /\ UNCHANGED wanted
      /\ \/ UNCHANGED <<log, admitted>>
         \/ /\ ~Work!IsAdmitted(r) /\ Len(log[s]) = wanted[r].version
            /\ admitted' = [admitted EXCEPT ![r] = a]
            /\ log' = [q \in Work!Session |->
                 CASE q = s -> Append(log[s], log[s][Len(log[s])])
                   [] q = r /\ wanted[r].kind = "continue" -> <<NoGraph>>
                   [] OTHER -> log[q]]
  BY DEF Work!Admit, Work!Ends, Work!Asked, Work!Unmoved, Work!Version, Work!Binding
<1>3. CASE UNCHANGED <<log, admitted>>
  BY <1>1, <1>2, <1>3, CallMoves
<1>4. ASSUME ~Work!IsAdmitted(r), Len(log[s]) = wanted[r].version,
             admitted' = [admitted EXCEPT ![r] = a],
             log' = [q \in Work!Session |->
               CASE q = s -> Append(log[s], log[s][Len(log[s])])
                 [] q = r /\ wanted[r].kind = "continue" -> <<NoGraph>>
                 [] OTHER -> log[q]]
      PROVE  WorkInv'
  <2> DEFINE longer == Append(log[s], log[s][Len(log[s])])
  <2>1. /\ r \in Request /\ s \in Work!Session /\ wanted[r].kind # "none"
        /\ asking[c].graph = log[s][Len(log[s])] /\ Len(log[s]) \in 1..Len(log[s])
    <3>1. r \in Request /\ wanted[r].kind # "none" /\ asking[c].graph = log[s][wanted[r].version]
      BY <1>2, Zenon DEF WorkInv, AskedOnSeen
    <3> HIDE DEF r
    <3>2. s \in Work!Session /\ wanted[r].version \in 1..Len(log[s])
      BY <1>1, <3>1 DEF WorkInv, SeenVersions, WantedRow
    <3> QED BY <1>4, <3>1, <3>2
  <2>2. /\ a \in AdmittedRow /\ a.at = Len(log[s]) + 1 /\ a.graph = asking[c].graph
    <3> HIDE DEF s
    <3> QED BY <1>1, <2>1 DEF AdmittedRow, AskingRow
  <2> HIDE DEF a, r
  <2>3. log[s] # <<>> /\ log[r] = <<>> /\ s # r /\ r \in Work!Session
    <3> HIDE DEF s
    <3>1. log[r] = <<>>
      BY <1>4, <2>1 DEF WorkInv, SessionsBegin
    <3>2. log[s] # <<>>
      BY <2>1, EmptySeq
    <3> QED BY <2>1, <3>1, <3>2 DEF Work!Session
  <2> HIDE DEF s
  <2>4. /\ longer \in Seq(Revision) /\ Len(longer) = Len(log[s]) + 1
        /\ \A i \in 1..Len(log[s]) : longer[i] = log[s][i]
        /\ longer[Len(log[s]) + 1] = asking[c].graph
    <3>1. log[s] \in Seq(Revision) /\ log[s][Len(log[s])] \in Revision
      BY <1>1, <2>1, ElementOfSeq
    <3> QED BY <2>1, <3>1, AppendProperties
  <2> HIDE DEF longer
  <2>5. log' = [q \in Work!Session |->
          CASE q = s -> longer [] q = r /\ wanted[r].kind = "continue" -> <<NoGraph>> [] OTHER -> log[q]]
    BY <1>4 DEF longer
  <2>6. /\ log'[s] = longer /\ log'[r] \in {log[r], <<NoGraph>>}
        /\ \A q \in Work!Session \ {r, s} : log'[q] = log[q]
    BY <2>1, <2>3, <2>5
  <2>7. log' \in [Work!Session -> Seq(Revision)]
    <3>1. <<NoGraph>> \in Seq(Revision) /\ log[r] \in Seq(Revision)
      BY <1>1, <2>3, OneBinding
    <3>2. \A q \in Work!Session : log'[q] \in Seq(Revision)
      BY <1>1, <2>4, <2>6, <3>1
    <3>3. log' = [q \in Work!Session |-> log'[q]]
      BY <2>5
    <3> QED BY <3>2, <3>3
  <2>8. LogsGrow
    <3>1. /\ \A q \in Work!Session : Len(log[q]) \in Nat
          /\ Len(log[r]) = 0 /\ Len(log'[r]) \in Nat
      BY <1>1, <2>3, <2>7
    <3>2. ASSUME NEW q \in Work!Session
          PROVE  Len(log[q]) <= Len(log'[q]) /\ \A i \in 1..Len(log[q]) : log'[q][i] = log[q][i]
      <4>1. CASE q = s
        BY <2>4, <2>6, <3>1, <4>1
      <4>2. CASE q = r
        BY <3>1, <4>2
      <4>3. CASE q \notin {r, s}
        BY <2>6, <3>1, <4>3
      <4> QED BY <4>1, <4>2, <4>3
    <3> QED BY <3>2 DEF LogsGrow
  <2>9. /\ \A q \in Request : wanted[q].kind # "none" =>
             /\ wanted[q].version \in 1..Len(log'[wanted[q].session])
             /\ log'[wanted[q].session][wanted[q].version] = log[wanted[q].session][wanted[q].version]
        /\ \A q \in Request : Work!IsAdmitted(q) =>
             /\ admitted[q].at \in 1..Len(log'[wanted[q].session])
             /\ log'[wanted[q].session][admitted[q].at] = log[wanted[q].session][admitted[q].at]
    BY <2>7, <2>8, PastStands
  <2>10. /\ admitted' \in [Request -> AdmittedRow]
         /\ \A q \in Request : admitted'[q] = IF q = r THEN a ELSE admitted[q]
    BY <1>1, <1>4, <2>2
  <2>11. /\ asking' \in [Call -> AskingRow]
         /\ \A d \in Call : asking'[d] = IF d = c THEN Work!Idle ELSE asking[d]
    BY <1>1, <1>2
  <2>12. WorkTyped'
    BY <1>1, <1>2, <2>7, <2>10, <2>11 DEF WorkTyped
  <2>13. SessionsBegin'
    <3>1. \A q \in Request : admitted[q] # Work!NotAdmitted \/ log[q] = <<>>
      BY DEF WorkInv, SessionsBegin, Work!IsAdmitted
    <3>2. a # Work!NotAdmitted
      BY <2>1, <2>2 DEF Work!NotAdmitted
    <3>3. \A q \in Request : q \notin {r, s} => log'[q] = log[q]
      BY <2>6 DEF Work!Session
    <3> QED BY <2>3, <2>10, <3>1, <3>2, <3>3 DEF SessionsBegin, Work!IsAdmitted
  <2>14. SeenVersions'
    BY <1>2, <2>1, <2>9, <2>10 DEF WorkInv, SeenVersions, Work!IsAdmitted
  <2>15. AskedOnSeen'
    BY <1>1, <1>2, <2>9, <2>11 DEF WorkInv, AskedOnSeen
  <2>16. AdmissionStands'
    <3>1. a.at \in 1..Len(log'[s]) /\ a.at = wanted[r].version + 1 /\ a.graph = log'[s][a.at]
      BY <1>4, <2>1, <2>2, <2>4, <2>6
    <3>2. ASSUME NEW q \in Request, admitted'[q] # Work!NotAdmitted
          PROVE  /\ admitted'[q].at \in 1..Len(log'[wanted[q].session])
                 /\ admitted'[q].at = wanted[q].version + 1
                 /\ admitted'[q].graph = log'[wanted[q].session][admitted'[q].at]
      <4>1. CASE q = r
        BY <2>10, <3>1, <4>1 DEF s
      <4>2. CASE q # r
        BY <2>9, <2>10, <3>2, <4>2, Zenon DEF WorkInv, AdmissionStands, Work!IsAdmitted
      <4> QED BY <4>1, <4>2
    <3> QED BY <1>2, <3>2 DEF AdmissionStands, Work!IsAdmitted
  <2> QED BY <2>12, <2>13, <2>14, <2>15, <2>16 DEF WorkInv
<1> QED BY <1>2, <1>3, <1>4, Zenon

\* The other steps of a call.
LEMMA CallStepMoves ==
  ASSUME WorkInv, WorkValues, NEW c \in Call, Work!CallStep(c)
  PROVE  WorkInv'
<1>1. /\ log \in [Work!Session -> Seq(Revision)] /\ wanted \in [Request -> WantedRow]
      /\ asking \in [Call -> AskingRow] /\ asking[c] \in AskingRow
      /\ Work!Idle \in AskingRow /\ Work!Idle.pc = "idle"
  BY DEF WorkInv, WorkTyped, WorkValues, Work!Idle
<1>2. ASSUME NEW r \in Request, Work!Prepare(c, r) PROVE WorkInv'
  <2> DEFINE s == wanted[r].session
             a == [pc |-> IF wanted[r].kind = "continue" THEN "preview" ELSE "start",
                   request |-> r, graph |-> log[s][Len(log[s])]]
  <2>1. /\ wanted[r].kind # "none" /\ Len(log[s]) = wanted[r].version
        /\ asking' = [asking EXCEPT ![c] = a] /\ UNCHANGED <<log, wanted, admitted>>
    BY <1>2 DEF Work!Prepare, Work!Version, Work!Binding
  <2>2. s \in Work!Session /\ Len(log[s]) \in 1..Len(log[s])
    BY <1>1, <2>1 DEF WorkInv, SeenVersions, WantedRow
  <2>3. a \in AskingRow
    BY <1>1, <2>2, ElementOfSeq DEF AskingRow
  <2>4. a.request = r /\ a.graph = log[s][wanted[r].version]
    BY <2>1
  <2> HIDE DEF a
  <2> QED BY <2>1, <2>3, <2>4, CallMoves
<1>3. ASSUME asking[c].pc # "idle", Work!Ends(c), UNCHANGED <<log, wanted, admitted>> PROVE WorkInv'
  BY <1>1, <1>3, CallMoves DEF Work!Ends
<1>4. ASSUME asking[c].pc # "idle", NEW pc \in {"start", "admit"}, Work!Goes(c, pc), UNCHANGED <<log, wanted, admitted>>
      PROVE  WorkInv'
  <2> DEFINE a == [asking[c] EXCEPT !.pc = pc]
  <2>1. a \in AskingRow /\ a.request = asking[c].request /\ a.graph = asking[c].graph
    BY <1>1 DEF AskingRow
  <2>2. asking' = [asking EXCEPT ![c] = a]
    BY <1>4 DEF Work!Goes
  <2>3. /\ a.request \in Request /\ wanted[a.request].kind # "none"
        /\ a.graph = log[wanted[a.request].session][wanted[a.request].version]
    BY <1>4, <2>1 DEF WorkInv, AskedOnSeen
  <2> HIDE DEF a
  <2> QED BY <1>4, <2>1, <2>2, <2>3, CallMoves
<1>5. CASE Work!Preview(c)
  BY <1>3, <1>4, <1>5 DEF Work!Preview
<1>6. CASE Work!Start(c)
  BY <1>3, <1>4, <1>6 DEF Work!Start
<1>7. CASE Work!Admit(c)
  BY <1>7, AdmitMoves
<1>8. CASE Work!CallFails(c)
  BY <1>3, <1>8 DEF Work!CallFails
<1> QED BY <1>2, <1>5, <1>6, <1>7, <1>8 DEF Work!CallStep

\* Publication is what an adoption takes its revision from.
LEMMA OtherStepsMove ==
  ASSUME WorkInv, NEW s \in Work!Session, Work!SessionStep(s)
  PROVE  WorkInv'
<1>1. log \in [Work!Session -> Seq(Revision)]
  BY DEF WorkInv, WorkTyped
<1>2. CASE Work!Feedback(s)
  <2>1. log[s][Len(log[s])] \in Revision
    BY <1>1, <1>2, ElementOfSeq, EmptySeq DEF Work!Feedback, Work!Exists
  <2> QED BY <1>2, <2>1, LogMoves DEF Work!Feedback, Work!Exists, Work!Binding
<1>3. ASSUME NEW g \in Graph, Work!AdoptGraph(s, g) PROVE WorkInv'
  <2>1. g \in Revision
    BY DEF Revision
  <2> QED BY <1>3, <2>1, LogMoves DEF Work!AdoptGraph, Work!Exists
<1> QED BY <1>2, <1>3 DEF Work!SessionStep

\* Every step keeps what the admissions rest on.
LEMMA WorkKept == WorkInv /\ WorkValues /\ [Work!Next]_(Work!vars) => WorkInv' /\ WorkValues'
<1> SUFFICES ASSUME WorkInv, WorkValues, [Work!Next]_(Work!vars) PROVE WorkInv'
  BY DEF WorkValues, Work!NotAsked, Work!NotAdmitted, Work!Idle, WantedRow, AdmittedRow, AskingRow, Revision,
         Work!Session
<1>1. ASSUME UNCHANGED <<log, wanted, admitted, asking>> PROVE WorkInv'
  BY <1>1 DEF WorkInv, WorkTyped, SessionsBegin, SeenVersions, AskedOnSeen, AdmissionStands, Work!IsAdmitted
<1>2. CASE UNCHANGED Work!vars
  BY <1>1, <1>2 DEF Work!vars
<1>3. ASSUME NEW c \in Call, Work!CallStep(c) PROVE WorkInv'
  BY <1>3, CallStepMoves
<1>4. ASSUME NEW r \in Request, Work!MemberStep(r) PROVE WorkInv'
  BY <1>1, <1>4, SubmitMoves DEF Work!MemberStep, Work!PublishGraph
<1>5. ASSUME NEW s \in Work!Session, Work!SessionStep(s) PROVE WorkInv'
  BY <1>5, OtherStepsMove
<1> QED BY <1>2, <1>3, <1>4, <1>5 DEF Work!Next

(* A question or a continuation is admitted on the binding its member saw,   *)
(* and its event follows that version, whatever other members adopted, asked *)
(* or repeated between its two transactions (work-session-service.js,        *)
(* onAdmit of ask and continue).                                             *)
THEOREM AdmittedAsSeenCorrect == Work!Spec => []AdmittedAsSeen
<1>1. WorkInv => AdmittedAsSeen
  BY DEF WorkInv, AdmissionStands, AdmittedAsSeen, Work!AdmittedAsSeen
<1> QED BY <1>1, WorkStarts, WorkKept, PTL DEF Work!Spec

-----------------------------------------------------------------------------
(* Analysis jobs                                                             *)

JobState == [status : {"RUNNING", "PAUSED", "CANCELLED", "FAILED", "COMPLETED"},
             desired : {"RUNNING", "PAUSED", "CANCELLED"}, version : Nat, done : SUBSET Nat]
CommandRow == [pc : {"idle", "read", "append"}, state : JobState, sequence : Nat]
RunnerRow == [pc : {"unborn", "before", "handler", "after", "fail", "read", "append", "over", "gone"},
              state : JobState, sequence : Nat, phase : Nat, aborted : BOOLEAN, after : {"end", "next"}]

JobTyped ==
  /\ jobLog \in Seq(JobState) /\ jobLog # <<>>
  /\ runner \in [Runner -> RunnerRow]
  /\ command \in [Job!Command -> CommandRow]

\* A cancellation under way writes nothing else.
CancelsOnly == command["cancel"].pc # "idle" => command["cancel"].state.status = "CANCELLED"

JobInv == JobTyped /\ CancelsOnly

JobStates == Job!Started \in JobState /\ Job!NoWrite \in CommandRow /\ Job!Unborn \in RunnerRow

LEMMA JobStatesTyped == JobStates
BY DEF JobStates, Job!Started, Job!NoWrite, Job!Unborn, JobState, CommandRow, RunnerRow

\* The state of a job is one of its records, the end of it when there is one.
LEMMA LatestIsRecord ==
  jobLog \in Seq(JobState) /\ jobLog # <<>> =>
    /\ Job!Latest \in JobState
    /\ Job!Ended <=> \E i \in 1..Len(jobLog) : jobLog[i].status \in Job!Terminal
<1> SUFFICES ASSUME jobLog \in Seq(JobState), jobLog # <<>>
             PROVE  /\ Job!Latest \in JobState
                    /\ Job!Ended <=> \E i \in 1..Len(jobLog) : jobLog[i].status \in Job!Terminal
  OBVIOUS
<1> DEFINE ends == {i \in DOMAIN jobLog : jobLog[i].status \in Job!Terminal}
           first == CHOOSE i \in ends : \A j \in ends : i <= j
<1>1. Len(jobLog) \in 1..Len(jobLog) /\ DOMAIN jobLog = 1..Len(jobLog)
  BY EmptySeq, LenProperties
<1>2. Job!Latest = IF ends = {} THEN jobLog[Len(jobLog)] ELSE jobLog[first]
  BY DEF Job!Latest
<1>3. ends # {} => first \in ends
  <2>1. ends \subseteq Nat
    BY <1>1
  <2>2. ends # {} => \E i \in ends : \A j \in ends : i <= j
    <3> HIDE DEF ends
    <3> QED BY <2>1, StagingProofs!LeastNumber
  <2> HIDE DEF ends
  <2> QED BY <2>2
<1>4. Job!Latest \in JobState
  <2> HIDE DEF first
  <2> QED BY <1>1, <1>2, <1>3, ElementOfSeq
<1>5. Job!Ended <=> ends # {}
  <2> HIDE DEF first
  <2> QED BY <1>1, <1>2, <1>3 DEF Job!Ended
<1> QED BY <1>1, <1>4, <1>5

\* The same of the log a step leaves.
LEMMA LatestIsRecordNext ==
  (jobLog \in Seq(JobState) /\ jobLog # <<>>)' =>
    (Job!Ended <=> \E i \in 1..Len(jobLog) : jobLog[i].status \in Job!Terminal)'
<1>1. (jobLog \in Seq(JobState) /\ jobLog # <<>> =>
        (Job!Ended <=> \E i \in 1..Len(jobLog) : jobLog[i].status \in Job!Terminal))
  BY LatestIsRecord
<1>2. (jobLog \in Seq(JobState) /\ jobLog # <<>> =>
        (Job!Ended <=> \E i \in 1..Len(jobLog) : jobLog[i].status \in Job!Terminal))'
  BY <1>1, PTL
<1> QED BY <1>2

\* A moved state is one.
LEMMA MovedTyped ==
  ASSUME NEW st \in JobState, NEW status \in {"RUNNING", "PAUSED", "CANCELLED", "FAILED", "COMPLETED"},
         NEW desired \in {"RUNNING", "PAUSED", "CANCELLED"}
  PROVE  Job!Moved(st, status, desired) \in JobState /\ Job!Moved(st, status, desired).status = status
<1> DEFINE version == st.version + 1
<1>1. version \in Nat
  BY DEF JobState
<1>2. Job!Moved(st, status, desired) = [st EXCEPT !.status = status, !.desired = desired, !.version = version]
  BY DEF Job!Moved
<1> HIDE DEF version
<1> QED BY <1>1, <1>2 DEF JobState

\* An append leaves a log that begins as it did.
LEMMA LogTyped ==
  ASSUME JobTyped, NEW x \in JobState, jobLog' \in {jobLog, Append(jobLog, x)}
  PROVE  jobLog' \in Seq(JobState) /\ jobLog' # <<>>
<1>1. Append(jobLog, x) \in Seq(JobState) /\ Append(jobLog, x) # <<>>
  BY AppendProperties DEF JobTyped
<1> QED BY <1>1 DEF JobTyped

\* A step of one runner, which may write to the log.
LEMMA RunnerMoves ==
  ASSUME JobInv, UNCHANGED command, NEW r \in Runner, NEW x \in RunnerRow, runner' = [runner EXCEPT ![r] = x],
         jobLog' \in Seq(JobState) /\ jobLog' # <<>>
  PROVE  JobInv'
<1>1. runner' \in [Runner -> RunnerRow]
  BY DEF JobInv, JobTyped
<1> QED BY <1>1 DEF JobInv, JobTyped, CancelsOnly

\* What a runner does keeps its state one of a job.
LEMMA RunnerStepTyped ==
  ASSUME JobInv, NEW r \in Runner, Job!RunnerStep(r)
  PROVE  JobInv'
<1>1. /\ runner[r] \in RunnerRow /\ runner[r].state \in JobState /\ Job!Latest \in JobState
      /\ jobLog \in Seq(JobState) /\ jobLog # <<>> /\ Job!Unborn \in RunnerRow
  BY LatestIsRecord, JobStatesTyped DEF JobInv, JobTyped, JobStates, RunnerRow
<1>2. Job!Seen(r) \in JobState
  BY <1>1 DEF Job!Seen
<1>3. ASSUME NEW st \in JobState, NEW k \in {"end", "next"}, Job!Persist(r, st, k)
      PROVE  \E x \in RunnerRow : runner' = [runner EXCEPT ![r] = x]
  <2>1. [runner[r] EXCEPT !.pc = "read", !.state = st, !.after = k] \in RunnerRow
    BY <1>1 DEF RunnerRow
  <2> QED BY <1>3, <2>1 DEF Job!Persist, Job!Update
<1>4. ASSUME Job!Finish(r) PROVE \E x \in RunnerRow : runner' = [runner EXCEPT ![r] = x]
  <2>1. [runner[r] EXCEPT !.pc = "over"] \in RunnerRow
    BY <1>1 DEF RunnerRow
  <2> QED BY <1>4, <2>1 DEF Job!Finish, Job!Update
<1>5. ASSUME NEW x \in RunnerRow, Job!Update(r, x) PROVE \E y \in RunnerRow : runner' = [runner EXCEPT ![r] = y]
  BY <1>5 DEF Job!Update
<1>6. ASSUME \E x \in RunnerRow : runner' = [runner EXCEPT ![r] = x], UNCHANGED command,
             jobLog' \in Seq(JobState) /\ jobLog' # <<>>
      PROVE  JobInv'
  BY <1>6, RunnerMoves
<1>7. \A st \in JobState : \A s \in {"PAUSED", "FAILED"} :
        Job!Moved(st, s, "PAUSED") \in JobState /\ Job!Moved(st, s, st.desired) \in JobState
  BY MovedTyped DEF JobState
<1>8. CASE Job!BeforePhase(r)
  <2> DEFINE st == Job!Seen(r)
             row1 == [runner[r] EXCEPT !.phase = runner[r].phase + 1, !.state = st]
             row2 == [runner[r] EXCEPT !.pc = "handler", !.state = st]
  <2>1. row1 \in RunnerRow /\ row2 \in RunnerRow
    <3> HIDE DEF st
    <3>1. st \in JobState
      BY <1>2 DEF st
    <3>2. runner[r].phase + 1 \in Nat
      BY <1>1 DEF RunnerRow
    <3> QED BY <1>1, <3>1, <3>2 DEF RunnerRow
  <2>2. \/ Job!Finish(r) \/ Job!Update(r, row1)
        \/ Job!Persist(r, Job!Moved(st, "PAUSED", "PAUSED"), "end") \/ Job!Update(r, row2)
    BY <1>8, Zenon DEF Job!BeforePhase
  <2>3. Job!Moved(st, "PAUSED", "PAUSED") \in JobState
    BY <1>2, <1>7
  <2> HIDE DEF row1, row2
  <2>4. \E x \in RunnerRow : runner' = [runner EXCEPT ![r] = x]
    BY <1>3, <1>4, <1>5, <2>1, <2>2, <2>3
  <2> QED BY <1>1, <1>6, <1>8, <2>4 DEF Job!BeforePhase
<1>9. CASE Job!HandlerEnds(r) \/ Job!HandlerFails(r)
  <2>1. [runner[r] EXCEPT !.pc = "after"] \in RunnerRow /\ [runner[r] EXCEPT !.pc = "fail"] \in RunnerRow
    BY <1>1 DEF RunnerRow
  <2> QED BY <1>1, <1>5, <1>6, <1>9, <2>1 DEF Job!HandlerEnds, Job!HandlerFails
<1>10. CASE Job!AfterPhase(r)
  <2> DEFINE st == [Job!Seen(r) EXCEPT !.done = @ \cup {runner[r].phase}, !.version = @ + 1]
  <2>1. st \in JobState
    <3> DEFINE seen == Job!Seen(r)
               done == seen.done \cup {runner[r].phase}
    <3>1. seen \in JobState /\ runner[r].phase \in Nat
      BY <1>1, <1>2 DEF RunnerRow
    <3>2. st = [seen EXCEPT !.done = done, !.version = seen.version + 1]
      OBVIOUS
    <3> HIDE DEF seen, st
    <3>3. seen.version + 1 \in Nat /\ done \in SUBSET Nat
      BY <3>1 DEF JobState
    <3> HIDE DEF done
    <3> QED BY <3>1, <3>2, <3>3 DEF JobState
  <2>2. Job!Finish(r) \/ Job!Persist(r, Job!Moved(Job!Latest, "PAUSED", "PAUSED"), "end") \/ Job!Persist(r, st, "next")
    BY <1>10, Zenon DEF Job!AfterPhase
  <2>3. Job!Moved(Job!Latest, "PAUSED", "PAUSED") \in JobState
    BY <1>1, <1>7
  <2> HIDE DEF st
  <2>4. \E x \in RunnerRow : runner' = [runner EXCEPT ![r] = x]
    BY <1>3, <1>4, <2>1, <2>2, <2>3
  <2> QED BY <1>1, <1>6, <1>10, <2>4 DEF Job!AfterPhase
<1>11. CASE Job!Complete(r)
  <2>1. Job!Finish(r) \/ Job!Persist(r, Job!Moved(runner[r].state, "COMPLETED", runner[r].state.desired), "end")
    BY <1>11, Zenon DEF Job!Complete
  <2>2. Job!Moved(runner[r].state, "COMPLETED", runner[r].state.desired) \in JobState
    <3>1. runner[r].state.desired \in {"RUNNING", "PAUSED", "CANCELLED"}
      BY <1>1 DEF JobState
    <3> QED BY <1>1, <3>1, MovedTyped
  <2>3. \E x \in RunnerRow : runner' = [runner EXCEPT ![r] = x]
    BY <1>3, <1>4, <2>1, <2>2
  <2> QED BY <1>1, <1>6, <1>11, <2>3 DEF Job!Complete
<1>12. CASE Job!Fail(r)
  <2>1. Job!Finish(r) \/ Job!Persist(r, Job!Moved(Job!Latest, "FAILED", Job!Latest.desired), "end")
    BY <1>12, Zenon DEF Job!Fail
  <2>2. Job!Moved(Job!Latest, "FAILED", Job!Latest.desired) \in JobState
    BY <1>1, <1>7
  <2>3. \E x \in RunnerRow : runner' = [runner EXCEPT ![r] = x]
    BY <1>3, <1>4, <2>1, <2>2
  <2> QED BY <1>1, <1>6, <1>12, <2>3 DEF Job!Fail
<1>13. CASE Job!ReadLog(r)
  <2>1. [runner[r] EXCEPT !.pc = "append", !.sequence = Len(jobLog) + 1] \in RunnerRow
    <3>1. Len(jobLog) + 1 \in Nat
      BY <1>1, LenProperties
    <3> QED BY <1>1, <3>1 DEF RunnerRow
  <2>2. \E x \in RunnerRow : runner' = [runner EXCEPT ![r] = x]
    BY <1>4, <1>5, <1>13, <2>1 DEF Job!ReadLog
  <2> QED BY <1>1, <1>6, <1>13, <2>2 DEF Job!ReadLog
<1>14. CASE Job!WriteLog(r)
  <2> DEFINE st == Job!Answer(runner[r])
             next == [runner[r] EXCEPT !.pc = "before", !.state = st, !.phase = runner[r].phase + 1]
  <2>1. st \in JobState
    BY <1>1 DEF Job!Answer
  <2>2. next \in RunnerRow
    <3> HIDE DEF st
    <3>1. runner[r].phase + 1 \in Nat
      BY <1>1 DEF RunnerRow
    <3> QED BY <1>1, <2>1, <3>1 DEF RunnerRow
  <2>3. Job!Finish(r) \/ Job!Update(r, next)
    BY <1>14, Zenon DEF Job!WriteLog
  <2> HIDE DEF next
  <2>4. \E x \in RunnerRow : runner' = [runner EXCEPT ![r] = x]
    BY <1>4, <1>5, <2>2, <2>3
  <2>5. jobLog' \in {jobLog, Append(jobLog, runner[r].state)} /\ UNCHANGED command
    BY <1>14 DEF Job!WriteLog, Job!Appended
  <2>6. jobLog' \in Seq(JobState) /\ jobLog' # <<>>
    BY <1>1, <2>5, LogTyped DEF JobInv
  <2> QED BY <1>6, <2>4, <2>5, <2>6
<1>15. CASE Job!Leave(r)
  <2>1. [Job!Unborn EXCEPT !.pc = "gone"] \in RunnerRow
    BY <1>1 DEF RunnerRow
  <2> QED BY <1>1, <1>5, <1>6, <1>15, <2>1 DEF Job!Leave
<1> QED BY <1>8, <1>9, <1>10, <1>11, <1>12, <1>13, <1>14, <1>15 DEF Job!RunnerStep

\* Aborting a controller leaves the runners what they are.
LEMMA AbortTyped ==
  ASSUME JobTyped, Job!Abort
  PROVE  runner' \in [Runner -> RunnerRow]
<1>1. ASSUME NEW r \in Runner PROVE [runner[r] EXCEPT !.aborted = TRUE] \in RunnerRow
  BY DEF JobTyped, RunnerRow
<1> QED BY <1>1 DEF JobTyped, Job!Abort

\* A new runner begins with a state of the job.
LEMMA LaunchTyped ==
  ASSUME JobTyped, NEW r \in Runner, NEW st \in JobState, Job!Launch(r, st)
  PROVE  runner' \in [Runner -> RunnerRow]
<1> DEFINE x == [runner[r] EXCEPT !.pc = IF st.status = "PAUSED" THEN "over" ELSE "before",
                                  !.state = st, !.phase = 1]
<1>1. x \in RunnerRow
  BY DEF JobTyped, RunnerRow
<1>2. runner' = [runner EXCEPT ![r] = x]
  BY DEF Job!Launch
<1> HIDE DEF x
<1> QED BY <1>1, <1>2 DEF JobTyped

\* A command that is cancelled writes a cancellation.
LEMMA CommandMoves ==
  ASSUME JobInv, NEW c \in Job!Command, NEW x \in CommandRow, command' = [command EXCEPT ![c] = x],
         c = "cancel" => x.pc = "idle" \/ x.state.status = "CANCELLED",
         runner' \in [Runner -> RunnerRow], jobLog' \in Seq(JobState) /\ jobLog' # <<>>
  PROVE  JobInv'
<1>1. /\ command' \in [Job!Command -> CommandRow]
      /\ \A d \in Job!Command : command'[d] = IF d = c THEN x ELSE command[d]
  BY DEF JobInv, JobTyped
<1>2. "cancel" \in Job!Command
  BY DEF Job!Command
<1> QED BY <1>1, <1>2 DEF JobInv, JobTyped, CancelsOnly

\* What a member commands keeps the job's states, and a cancellation one.
LEMMA CommandStepTyped ==
  ASSUME JobInv, NEW c \in Job!Command, Job!CommandStep(c)
  PROVE  JobInv'
<1>1. /\ command[c] \in CommandRow /\ command[c].state \in JobState /\ Job!Latest \in JobState
      /\ jobLog \in Seq(JobState) /\ jobLog # <<>> /\ Job!NoWrite \in CommandRow /\ Job!NoWrite.pc = "idle"
      /\ runner \in [Runner -> RunnerRow] /\ JobTyped
  BY LatestIsRecord, JobStatesTyped DEF JobInv, JobTyped, JobStates, CommandRow, Job!NoWrite
<1>2. c = "cancel" => command[c].pc = "idle" \/ command[c].state.status = "CANCELLED"
  BY DEF JobInv, CancelsOnly
<1>3. CASE Job!Ask(c)
  <2> DEFINE w == Job!Wanted(c)
             x == [Job!NoWrite EXCEPT !.pc = "read", !.state = w]
  <2>1. w \in JobState /\ (c = "cancel" => w.status = "CANCELLED")
    <3>1. c \in {"pause", "resume", "cancel"}
      BY DEF Job!Command
    <3> QED BY <1>1, <3>1, MovedTyped DEF Job!Wanted
  <2>2. x \in CommandRow /\ x.state = w
    <3> HIDE DEF w
    <3> QED BY <1>1, <2>1 DEF CommandRow
  <2>3. command' = [command EXCEPT ![c] = x] /\ UNCHANGED jobLog
    BY <1>3 DEF Job!Ask
  <2>4. runner' \in [Runner -> RunnerRow]
    BY <1>1, <1>3, AbortTyped DEF Job!Ask
  <2> HIDE DEF x, w
  <2> QED BY <1>1, <2>1, <2>2, <2>3, <2>4, CommandMoves
<1>4. CASE Job!AskInVain(c)
  <2>1. runner' \in [Runner -> RunnerRow] /\ UNCHANGED <<jobLog, command>>
    BY <1>1, <1>4, AbortTyped DEF Job!AskInVain
  <2> QED BY <2>1 DEF JobInv, JobTyped, CancelsOnly
<1>5. CASE Job!Read(c)
  <2> DEFINE x == [command[c] EXCEPT !.pc = "append", !.sequence = Len(jobLog) + 1]
  <2>1. x \in CommandRow /\ x.state = command[c].state
    <3>1. Len(jobLog) + 1 \in Nat
      BY <1>1, LenProperties
    <3> QED BY <1>1, <3>1 DEF CommandRow
  <2>2. /\ UNCHANGED <<jobLog, runner>> /\ command[c].pc = "read"
        /\ command' = [command EXCEPT ![c] = Job!NoWrite] \/ command' = [command EXCEPT ![c] = x]
    <3>1. [command EXCEPT ![c].pc = "append", ![c].sequence = Len(jobLog) + 1] = [command EXCEPT ![c] = x]
      BY DEF JobInv, JobTyped
    <3> QED BY <1>5, <3>1, Zenon DEF Job!Read
  <2> HIDE DEF x
  <2>3. CASE command' = [command EXCEPT ![c] = Job!NoWrite]
    BY <1>1, <2>2, <2>3, CommandMoves
  <2>4. CASE command' = [command EXCEPT ![c] = x]
    BY <1>1, <1>2, <2>1, <2>2, <2>4, CommandMoves
  <2> QED BY <2>2, <2>3, <2>4
<1>6. CASE Job!Write(c)
  <2>1. /\ jobLog' \in {jobLog, Append(jobLog, command[c].state)}
        /\ command' = [command EXCEPT ![c] = Job!NoWrite]
    BY <1>6 DEF Job!Write, Job!Appended
  <2>2. jobLog' \in Seq(JobState) /\ jobLog' # <<>>
    BY <1>1, <2>1, LogTyped
  <2>3. Job!Answer(command[c]) \in JobState
    BY <1>1 DEF Job!Answer
  <2>4. runner' \in [Runner -> RunnerRow]
    BY <1>1, <1>6, <2>3, LaunchTyped DEF Job!Write
  <2> QED BY <1>1, <2>1, <2>2, <2>4, CommandMoves
<1> QED BY <1>3, <1>4, <1>5, <1>6 DEF Job!CommandStep

\* The log of a job holds states of it, and a cancellation stays one.
LEMMA JobKept == JobInv /\ [Job!Next]_(Job!vars) => JobInv'
<1> SUFFICES ASSUME JobInv, [Job!Next]_(Job!vars) PROVE JobInv'
  OBVIOUS
<1>1. CASE UNCHANGED Job!vars
  BY <1>1 DEF JobInv, JobTyped, CancelsOnly, Job!vars
<1>2. ASSUME NEW r \in Runner, Job!RunnerStep(r) PROVE JobInv'
  BY <1>2, RunnerStepTyped
<1>3. ASSUME NEW r \in Runner, Job!Recover(r) PROVE JobInv'
  <2>1. jobLog[Len(jobLog)] \in JobState /\ JobTyped
    BY ElementOfSeq, EmptySeq DEF JobInv, JobTyped
  <2>2. runner' \in [Runner -> RunnerRow] /\ UNCHANGED <<jobLog, command>>
    BY <1>3, <2>1, LaunchTyped DEF Job!Recover
  <2> QED BY <2>2 DEF JobInv, JobTyped, CancelsOnly
<1>4. ASSUME NEW c \in Job!Command, Job!CommandStep(c) PROVE JobInv'
  BY <1>4, CommandStepTyped
<1>5. CASE Job!Crash
  <2>1. Job!Unborn \in RunnerRow /\ [Job!Unborn EXCEPT !.pc = "gone"] \in RunnerRow /\ Job!NoWrite \in CommandRow
    BY JobStatesTyped DEF JobStates, RunnerRow
  <2>2. /\ runner' \in [Runner -> RunnerRow] /\ command' \in [Job!Command -> CommandRow] /\ UNCHANGED jobLog
        /\ command'["cancel"] = Job!NoWrite
    BY <1>5, <2>1 DEF Job!Crash, Job!Command
  <2>3. Job!NoWrite.pc = "idle"
    BY DEF Job!NoWrite
  <2> QED BY <2>2, <2>3 DEF JobInv, JobTyped, CancelsOnly
<1> QED BY <1>1, <1>2, <1>3, <1>4, <1>5 DEF Job!Next

\* The log is written to by an append that is accepted, or not at all.
LEMMA JobAppends ==
  ASSUME [Job!Next]_(Job!vars), Job!Ended
  PROVE  jobLog' = jobLog
<1>1. ASSUME NEW r \in Runner, Job!RunnerStep(r) PROVE jobLog' = jobLog
  BY <1>1, Zenon
     DEF Job!RunnerStep, Job!BeforePhase, Job!HandlerEnds, Job!HandlerFails, Job!AfterPhase, Job!Complete, Job!Fail,
         Job!ReadLog, Job!WriteLog, Job!Leave, Job!Appended, Job!Accepts
<1>2. ASSUME NEW r \in Runner, Job!Recover(r) PROVE jobLog' = jobLog
  BY <1>2 DEF Job!Recover
<1>3. ASSUME NEW c \in Job!Command, Job!CommandStep(c) PROVE jobLog' = jobLog
  BY <1>3, Zenon DEF Job!CommandStep, Job!Ask, Job!AskInVain, Job!Read, Job!Write, Job!Appended, Job!Accepts
<1> QED BY <1>1, <1>2, <1>3 DEF Job!Next, Job!vars, Job!Crash

\* A cancellation that is answered has ended the job.
LEMMA CancelEnds ==
  ASSUME JobInv, JobInv', Job!Write("cancel")
  PROVE  Job!Ended'
<1>1. jobLog \in Seq(JobState) /\ command["cancel"].state.status = "CANCELLED" /\ command["cancel"].state \in JobState
  BY DEF JobInv, JobTyped, CancelsOnly, CommandRow, Job!Command, Job!Write
<1>2. Job!Ended <=> \E i \in 1..Len(jobLog) : jobLog[i].status \in Job!Terminal
  BY LatestIsRecord DEF JobInv, JobTyped
<1>3. Job!Ended' <=> \E i \in 1..Len(jobLog') : jobLog'[i].status \in Job!Terminal
  BY LatestIsRecordNext DEF JobInv, JobTyped, Job!Terminal
<1>4. CASE Job!Ended
  <2>1. jobLog' = jobLog
    BY <1>4 DEF Job!Write, Job!Appended, Job!Accepts
  <2> QED BY <1>2, <1>3, <1>4, <2>1
<1>5. CASE ~Job!Ended
  <2>1. jobLog' = Append(jobLog, command["cancel"].state)
    BY <1>1, <1>5 DEF Job!Write, Job!Appended, Job!Accepts
  <2>2. Len(jobLog') \in 1..Len(jobLog') /\ jobLog'[Len(jobLog')] = command["cancel"].state
    BY <1>1, <2>1, AppendProperties, LenProperties
  <2> QED BY <1>1, <1>3, <2>2 DEF Job!Terminal
<1> QED BY <1>4, <1>5

(* Nothing is written behind the end of a job, whatever runners and commands *)
(* write late, and a cancellation that is answered has ended it although its *)
(* sequence was taken (workspace-analysis-job-runner.js, #persist; the       *)
(* stores' appendWorkspaceAnalysisJobCheckpoint).                            *)
THEOREM EndHoldsCorrect == Job!Spec => EndHolds
<1>1. Job!Init => JobInv
  <2> SUFFICES ASSUME Job!Init PROVE JobInv
    OBVIOUS
  <2>1. jobLog \in Seq(JobState) /\ jobLog # <<>>
    <3>1. \A x \in JobState : <<x>> \in Seq(JobState) /\ <<x>> # <<>>
      OBVIOUS
    <3> QED BY <3>1, JobStatesTyped DEF Job!Init, JobStates
  <2>2. runner \in [Runner -> RunnerRow] /\ command \in [Job!Command -> CommandRow] /\ command["cancel"] = Job!NoWrite
    BY JobStatesTyped DEF Job!Init, JobStates, Job!Command
  <2>3. Job!NoWrite.pc = "idle"
    BY DEF Job!NoWrite
  <2> QED BY <2>1, <2>2, <2>3 DEF JobInv, JobTyped, CancelsOnly
<1>2. JobInv /\ JobInv' /\ [Job!Next]_(Job!vars) =>
        (Job!Ended => jobLog' = jobLog) /\ (Job!Write("cancel") => Job!Ended')
  BY JobAppends, CancelEnds
<1>3. JobInv /\ JobInv' /\ [Job!Next]_(Job!vars) =>
        [(Job!Ended => jobLog' = jobLog) /\ (Job!Write("cancel") => Job!Ended')]_(Job!vars)
  BY <1>2
<1>4. Job!Spec => Job!EndHolds
  BY <1>1, <1>3, JobKept, PTL DEF Job!Spec, Job!EndHolds
<1> QED BY <1>4 DEF EndHolds

-----------------------------------------------------------------------------
(* Staging: the same specification under two names                           *)

LEMMA SameStaging == StagingProofs!Spec <=> Staging!Spec
<1>1. StagingProofs!Init <=> Staging!Init
  BY Zenon
     DEF StagingProofs!Init, Staging!Init, StagingProofs!Chunk, Staging!Chunk, StagingProofs!Idle, Staging!Idle,
         StagingProofs!NoAttempt, Staging!NoAttempt
<1>2. ASSUME NEW r \in Run
      PROVE  StagingProofs!RunStep(r) <=> Staging!RunStep(r)
  BY Zenon
     DEF StagingProofs!RunStep, Staging!RunStep, StagingProofs!StartRun, Staging!StartRun, StagingProofs!Retryable,
         Staging!Retryable, StagingProofs!EndRun, Staging!EndRun, StagingProofs!BeginUpload, Staging!BeginUpload,
         StagingProofs!Publish, Staging!Publish, StagingProofs!PublishFails, Staging!PublishFails,
         StagingProofs!UploadEnds, Staging!UploadEnds, StagingProofs!ReadPrefix, Staging!ReadPrefix,
         StagingProofs!InsertPrefix, Staging!InsertPrefix, StagingProofs!Active, Staging!Active, StagingProofs!ChunksOf,
         Staging!ChunksOf, StagingProofs!Release, Staging!Release, StagingProofs!Backups, Staging!Backups
<1>3. ASSUME NEW m \in Member
      PROVE  StagingProofs!ReleaseStep(m) <=> Staging!ReleaseStep(m)
  BY Zenon
     DEF StagingProofs!ReleaseStep, Staging!ReleaseStep, StagingProofs!AskRelease, Staging!AskRelease,
         StagingProofs!ChildrenAbandoned, Staging!ChildrenAbandoned, StagingProofs!ListChunks, Staging!ListChunks,
         StagingProofs!Undecided, Staging!Undecided, StagingProofs!PlanChunk, Staging!PlanChunk,
         StagingProofs!DeleteChunk, Staging!DeleteChunk, StagingProofs!DeleteUnrecorded, Staging!DeleteUnrecorded,
         StagingProofs!CallEnds, Staging!CallEnds, StagingProofs!Next1, Staging!Next1, StagingProofs!Done, Staging!Done,
         StagingProofs!Free, Staging!Free, StagingProofs!Referenced, Staging!Referenced, StagingProofs!Unverified,
         Staging!Unverified, StagingProofs!ChunksOf, Staging!ChunksOf, StagingProofs!Idle, Staging!Idle,
         StagingProofs!Runs, Staging!Runs, StagingProofs!Backups, Staging!Backups
<1>4. ASSUME NEW b \in Backup
      PROVE  StagingProofs!BackupStep(b) <=> Staging!BackupStep(b)
  BY Zenon
     DEF StagingProofs!BackupStep, Staging!BackupStep, StagingProofs!BackupStarts, Staging!BackupStarts,
         StagingProofs!RaiseBarrier, Staging!RaiseBarrier, StagingProofs!Snapshot, Staging!Snapshot,
         StagingProofs!CopyObjects, Staging!CopyObjects, StagingProofs!MarkSealing, Staging!MarkSealing,
         StagingProofs!Seal, Staging!Seal, StagingProofs!Mirror, Staging!Mirror, StagingProofs!IndexObject,
         Staging!IndexObject, StagingProofs!IndexComplete, Staging!IndexComplete, StagingProofs!BackupEnds,
         Staging!BackupEnds, StagingProofs!BackupFails, Staging!BackupFails, StagingProofs!BackupCrashes,
         Staging!BackupCrashes, StagingProofs!Step, Staging!Step, StagingProofs!Working, Staging!Working,
         StagingProofs!Unlocked, Staging!Unlocked, StagingProofs!Unfinished, Staging!Unfinished,
         StagingProofs!NoAttempt, Staging!NoAttempt, StagingProofs!Referenced, Staging!Referenced,
         StagingProofs!ChunksOf, Staging!ChunksOf, StagingProofs!Runs, Staging!Runs, StagingProofs!Release,
         Staging!Release
<1>5. StagingProofs!RecoverAbandoned <=> Staging!RecoverAbandoned
  BY Zenon
     DEF StagingProofs!RecoverAbandoned, Staging!RecoverAbandoned, StagingProofs!Unlocked, Staging!Unlocked,
         StagingProofs!Working, Staging!Working, StagingProofs!Unfinished, Staging!Unfinished, StagingProofs!Runs,
         Staging!Runs, StagingProofs!Release, Staging!Release
<1>6. StagingProofs!Next <=> Staging!Next
  BY <1>2, <1>3, <1>4, <1>5, Zenon DEF StagingProofs!Next, Staging!Next
<1>7. [StagingProofs!Next]_(StagingProofs!vars) <=> [Staging!Next]_(Staging!vars)
  BY <1>6, Zenon DEF StagingProofs!vars, Staging!vars
<1> QED BY <1>1, <1>7, PTL DEF StagingProofs!Spec, Staging!Spec

(* A checkpoint of a run that nobody abandoned has its bytes, whichever run  *)
(* sent them and however a retry, a release and a crash interleave           *)
(* (upload-service.js, reuseRetryPrefix; staging-service.js, release).       *)
THEOREM ReferencedIsThereCorrect == Staging!Spec => []ReferencedIsThere
<1>1. StagingProofs!ReferencedIsThere <=> ReferencedIsThere
  BY DEF StagingProofs!ReferencedIsThere, ReferencedIsThere, Staging!ReferencedIsThere, StagingProofs!Referenced,
         Staging!Referenced, StagingProofs!ChunksOf, Staging!ChunksOf
<1> QED BY <1>1, SameStaging, StagingProofs!ReferencedIsThereCorrect, PTL

(* No late publication brings back a chunk whose removal is on record        *)
(* (blob-store.js, put; staging-service.js, the result of a release).        *)
THEOREM ReleasedStaysGoneCorrect == Staging!Spec => []ReleasedStaysGone
<1>1. StagingProofs!ReleasedStaysGone <=> ReleasedStaysGone
  BY DEF StagingProofs!ReleasedStaysGone, ReleasedStaysGone, Staging!ReleasedStaysGone
<1> QED BY <1>1, SameStaging, StagingProofs!ReleasedStaysGoneCorrect, PTL

(* A release spares what a sealed backup target lists, although its attempt  *)
(* failed, or its process died, before the index was complete                *)
(* (staging-service.js, protection).                                         *)
THEOREM BackupsKeptCorrect == Staging!Spec => []BackupsKept
<1>1. StagingProofs!BackupsKept <=> BackupsKept
  BY DEF StagingProofs!BackupsKept, BackupsKept, Staging!BackupsKept
<1> QED BY <1>1, SameStaging, StagingProofs!BackupsKeptCorrect, PTL
=============================================================================
