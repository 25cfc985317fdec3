----------------------------- MODULE WorkSession -----------------------------
(* The work sessions of a workspace (src/business-knowledge/                 *)
(* work-session-service.js, work-records.js) and the part of                 *)
(* investigation-service.js that admits what they start.                     *)
(*                                                                           *)
(* A question and a continuation are prepared in one transaction, qualified  *)
(* outside any, and admitted in another; feedback and the adoption of a      *)
(* graph are one transaction each. A request stands for one operation key    *)
(* with its digest, and for the investigation and the session it creates.    *)
(* Contents, budgets, the readiness of a graph and the life of an            *)
(* investigation (module Investigation) are left out.                        *)
EXTENDS Naturals, Sequences

CONSTANTS
  Request,
  Origin,        \* the session a member created, and its investigation
  Call,          \* HTTP requests in progress: the same request may be repeated
  Graph,         \* published revisions
  First,         \* the revision of Origin
  NoGraph,
  Nobody,
  MaxVersion     \* bound: versions of a session

VARIABLES
  log,           \* the binding of each session after each of its versions
  publishedBy,   \* the investigation a revision is the result of
  wanted,        \* what a request asks for
  admitted,      \* KNOWLEDGE_QUESTION or WORK_SESSION of a request, and its event
  call

vars == <<log, publishedBy, wanted, admitted, call>>

Session == Request \cup {Origin}
NotAsked == [kind |-> "none", session |-> Origin, version |-> 0, graph |-> NoGraph]
NotAdmitted == [graph |-> NoGraph, at |-> 0]
Idle == [pc |-> "idle", request |-> Nobody, graph |-> NoGraph]

Init ==
  /\ log = [s \in Session |-> IF s = Origin THEN <<First>> ELSE <<>>]
  /\ publishedBy = [g \in Graph |-> IF g = First THEN Origin ELSE Nobody]
  /\ wanted = [r \in Request |-> NotAsked]
  /\ admitted = [r \in Request |-> NotAdmitted]
  /\ call = [c \in Call |-> Idle]

---------------------------------------------------------------------------
Version(s) == Len(log[s])
Binding(s) == log[s][Len(log[s])]
Exists(s) == log[s] # <<>>
IsAdmitted(r) == admitted[r] # NotAdmitted

\* What the member saw when the request was made.
Submit(r, kind, s, v) ==
  /\ wanted[r].kind = "none"
  /\ v \in 1..Version(s)
  /\ wanted' = [wanted EXCEPT ![r] = [kind |-> kind, session |-> s, version |-> v, graph |-> log[s][v]]]
  /\ UNCHANGED <<log, publishedBy, admitted, call>>

Asked(c) == wanted[call[c].request]
Ends(c) == call' = [call EXCEPT ![c] = Idle]
Goes(c, pc) == call' = [call EXCEPT ![c].pc = pc]

\* Mutant: the version is looked at when the question is prepared only.
UnmovedBefore(r) == Exists(wanted[r].session)

\* The session is at the version the member saw.
Unmoved(r) == Version(wanted[r].session) = wanted[r].version

\* An admitted request is answered with what it created; so is a repetition.
Prepare(c, r) ==
  /\ call[c].pc = "idle"
  /\ wanted[r].kind # "none" /\ ~IsAdmitted(r)
  /\ Version(wanted[r].session) = wanted[r].version
  /\ Binding(wanted[r].session) # NoGraph
  /\ call' = [call EXCEPT ![c] =
       [pc |-> IF wanted[r].kind = "continue" THEN "preview" ELSE "start",
        request |-> r, graph |-> Binding(wanted[r].session)]]
  /\ UNCHANGED <<log, publishedBy, wanted, admitted>>

\* continuationPreview reads the session anew, and the changes since its graph.
Preview(c) ==
  /\ call[c].pc = "preview"
  /\ IF Binding(Asked(c).session) = Asked(c).graph THEN Goes(c, "start") ELSE Ends(c)
  /\ UNCHANGED <<log, publishedBy, wanted, admitted>>

\* start(): a prior investigation is the answer; else the source is qualified.
Start(c) ==
  /\ call[c].pc = "start"
  /\ IF IsAdmitted(call[c].request) THEN Ends(c) ELSE Goes(c, "admit")
  /\ UNCHANGED <<log, publishedBy, wanted, admitted>>

\* The investigation, the record and the session's event in one transaction.
Admit(c) ==
  /\ call[c].pc = "admit"
  /\ LET r == call[c].request
         s == Asked(c).session
     IN IF IsAdmitted(r) \/ ~Unmoved(r)
        THEN UNCHANGED <<log, admitted>>
        ELSE /\ Version(s) < MaxVersion
             /\ admitted' = [admitted EXCEPT ![r] = [graph |-> call[c].graph, at |-> Version(s) + 1]]
             /\ log' = [q \in Session |->
                  CASE q = s -> Append(log[s], Binding(s))
                    [] q = r /\ Asked(c).kind = "continue" -> <<NoGraph>>
                    [] OTHER -> log[q]]
  /\ Ends(c)
  /\ UNCHANGED <<publishedBy, wanted>>

\* A crash, a refusal of the source or the profile, a client that leaves.
CallFails(c) ==
  /\ call[c].pc # "idle"
  /\ Ends(c)
  /\ UNCHANGED <<log, publishedBy, wanted, admitted>>

Feedback(s) ==
  /\ Exists(s) /\ Binding(s) # NoGraph
  /\ Version(s) < MaxVersion
  /\ log' = [log EXCEPT ![s] = Append(@, Binding(s))]
  /\ UNCHANGED <<publishedBy, wanted, admitted, call>>

\* Only the session of a continuation, and only a result of its investigation.
AdoptGraph(s, g) ==
  /\ Exists(s) /\ s # Origin
  /\ publishedBy[g] = s
  /\ Version(s) < MaxVersion
  /\ log' = [log EXCEPT ![s] = Append(@, g)]
  /\ UNCHANGED <<publishedBy, wanted, admitted, call>>

\* F003's publication of a completed investigation.
PublishGraph(g, r) ==
  /\ publishedBy[g] = Nobody
  /\ IsAdmitted(r) /\ wanted[r].kind = "continue"
  /\ publishedBy' = [publishedBy EXCEPT ![g] = r]
  /\ UNCHANGED <<log, wanted, admitted, call>>

---------------------------------------------------------------------------
CallStep(c) ==
  \/ \E r \in Request : Prepare(c, r)
  \/ Preview(c) \/ Start(c) \/ Admit(c) \/ CallFails(c)

MemberStep(r) ==
  \/ \E kind \in {"ask", "continue"}, s \in Session, v \in 1..MaxVersion : Submit(r, kind, s, v)
  \/ \E g \in Graph : PublishGraph(g, r)

SessionStep(s) == Feedback(s) \/ \E g \in Graph : AdoptGraph(s, g)

Next ==
  \/ \E c \in Call : CallStep(c)
  \/ \E r \in Request : MemberStep(r)
  \/ \E s \in Session : SessionStep(s)

Spec == Init /\ [][Next]_vars

---------------------------------------------------------------------------
(* What a question or a continuation was prepared on is what its session is  *)
(* bound to when it is admitted, and its event follows the version the       *)
(* member saw, whatever other members adopted, asked or repeated between the *)
(* two transactions (work-session-service.js, onAdmit of ask and continue).  *)
AdmittedAsSeen ==
  \A r \in Request : IsAdmitted(r) =>
    /\ admitted[r].at = wanted[r].version + 1
    /\ admitted[r].graph = log[wanted[r].session][admitted[r].at]
=============================================================================
