------------------------ MODULE WorkspaceAnalysisJob ------------------------
(* One analysis job of a workspace: the runner of src/application/           *)
(* workspace-analysis-job-runner.js, the runtime that starts, pauses,        *)
(* resumes, cancels and recovers it (legacy-understanding-runtime.js) and    *)
(* the log of checkpoints both write (appendWorkspaceAnalysisJobCheckpoint   *)
(* of the stores).                                                           *)
(*                                                                           *)
(* The log is the only durable state. A runner and a member's command read   *)
(* it, build the next state, read it again for the sequence to ask for, and  *)
(* append: each of the three is a step, for others write in between. What a  *)
(* phase produces is only that it was completed.                             *)
EXTENDS Naturals, Sequences, FiniteSets

CONSTANTS
  Runner,        \* identities of run(): one per start, resume or recovery
  NoRunner,
  Phases,        \* number of phases before COMPLETED
  MaxLog         \* bound: checkpoints in the log

Command == {"pause", "resume", "cancel"}

VARIABLES
  log,           \* states of the WORKSPACE_ANALYSIS_JOB records, by checkpointSequence
  controller,    \* the runner whose AbortController the runtime keeps for the job
  runner,        \* the runners of the job
  command        \* the member's commands in progress, one of a kind at a time

vars == <<log, controller, runner, command>>

Terminal == {"CANCELLED", "FAILED", "COMPLETED"}

Started == [status |-> "RUNNING", desired |-> "RUNNING", version |-> 1, done |-> {}]

NoWrite == [pc |-> "idle", state |-> Started, sequence |-> 0]
Unborn == [pc |-> "unborn", state |-> Started, sequence |-> 0,
           phase |-> 0, aborted |-> FALSE, after |-> "end"]

Init ==
  /\ log = <<Started>>                     \* start() persisted the job
  /\ controller = NoRunner
  /\ runner = [r \in Runner |-> Unborn]
  /\ command = [c \in Command |-> NoWrite]

---------------------------------------------------------------------------
(* The log *)

\* get(): the first terminal record, else the newest.
Latest ==
  LET ends == {i \in DOMAIN log : log[i].status \in Terminal}
  IN IF ends = {} THEN log[Len(log)] ELSE log[CHOOSE i \in ends : \A j \in ends : i <= j]

Ended == Latest.status \in Terminal

\* Mutant: a cancellation keeps to the sequence it read, as others do.
AcceptsInOrder(write) == ~Ended /\ write.sequence = Len(log) + 1

\* A checkpoint whose sequence is taken is not written; a cancellation always is.
Accepts(write) ==
  /\ ~Ended
  /\ write.sequence = Len(log) + 1 \/ write.state.status = "CANCELLED"

\* The state the append answers with: the one written, or the latest.
Answer(write) == IF Accepts(write) THEN write.state ELSE Latest

Appended(write) == log' = IF Accepts(write) THEN Append(log, write.state) ELSE log

Moved(state, status, desired) ==
  [state EXCEPT !.status = status, !.desired = desired, !.version = @ + 1]

---------------------------------------------------------------------------
(* Commands of members *)

\* Pausing and cancelling abort the controller that is kept, whoever's it is.
Abort ==
  runner' = [r \in Runner |-> IF r = controller THEN [runner[r] EXCEPT !.aborted = TRUE]
                              ELSE runner[r]]

Wanted(c) ==
  CASE c = "pause" -> Moved(Latest, "PAUSED", "PAUSED")
    [] c = "resume" -> Moved(Latest, "RUNNING", "RUNNING")
    [] c = "cancel" -> Moved(Latest, "CANCELLED", "CANCELLED")

Possible(c) ==
  CASE c = "pause" -> Latest.status = "RUNNING"
    [] c = "resume" -> Latest.status = "PAUSED"
    [] c = "cancel" -> ~Ended

Ask(c) ==
  /\ command[c].pc = "idle"
  /\ Possible(c)
  /\ command' = [command EXCEPT ![c] = [NoWrite EXCEPT !.pc = "read", !.state = Wanted(c)]]
  /\ IF c = "resume" THEN UNCHANGED runner ELSE Abort
  /\ UNCHANGED <<log, controller>>

\* A pause or a cancellation that finds nothing to do has aborted all the same.
AskInVain(c) ==
  /\ c # "resume" /\ command[c].pc = "idle"
  /\ ~Possible(c)
  /\ Abort
  /\ UNCHANGED <<log, controller, command>>

Read(c) ==
  /\ command[c].pc = "read"
  /\ command' = IF Ended THEN [command EXCEPT ![c] = NoWrite]
                ELSE [command EXCEPT ![c].pc = "append", ![c].sequence = Len(log) + 1]
  /\ UNCHANGED <<log, controller, runner>>

\* #run: the new runner's controller takes the place of an older one's.
Launch(r, state) ==
  /\ runner[r].pc = "unborn"
  /\ controller' = r
  /\ runner' = [runner EXCEPT ![r] =
       [@ EXCEPT !.pc = IF state.status = "PAUSED" THEN "over" ELSE "before",
                 !.state = state, !.phase = 1]]

\* resume() runs the state it was answered with, whatever the log took.
Write(c) ==
  /\ command[c].pc = "append"
  /\ Appended(command[c])
  /\ command' = [command EXCEPT ![c] = NoWrite]
  /\ IF c = "resume" THEN \E r \in Runner : Launch(r, Answer(command[c]))
     ELSE UNCHANGED <<controller, runner>>

---------------------------------------------------------------------------
(* A runner *)

Newer(r) == Latest.version > runner[r].state.version

\* What the runner takes for the job: its own state, or a newer one it reads.
Seen(r) == IF Newer(r) THEN Latest ELSE runner[r].state

Update(r, changes) == runner' = [runner EXCEPT ![r] = changes]

Persist(r, state, after) ==
  Update(r, [runner[r] EXCEPT !.pc = "read", !.state = state, !.after = after])

Finish(r) == Update(r, [runner[r] EXCEPT !.pc = "over"])

BeforePhase(r) ==
  /\ runner[r].pc = "before" /\ runner[r].phase <= Phases
  /\ LET state == Seen(r) IN
     IF state.status \in Terminal THEN Finish(r)
     ELSE IF runner[r].phase \in state.done
     THEN Update(r, [runner[r] EXCEPT !.phase = @ + 1, !.state = state])
     ELSE IF runner[r].aborted \/ state.desired = "PAUSED"
     THEN Persist(r, Moved(state, "PAUSED", "PAUSED"), "end")
     ELSE Update(r, [runner[r] EXCEPT !.pc = "handler", !.state = state])
  /\ UNCHANGED <<log, controller, command>>

\* A handler reads what the phases before it produced.
HandlerEnds(r) ==
  /\ runner[r].pc = "handler"
  /\ 1..(runner[r].phase - 1) \subseteq runner[r].state.done
  /\ Update(r, [runner[r] EXCEPT !.pc = "after"])
  /\ UNCHANGED <<log, controller, command>>

\* An error of the handler, of its inputs, or of the member's authority.
HandlerFails(r) ==
  /\ runner[r].pc = "handler"
  /\ Update(r, [runner[r] EXCEPT !.pc = "fail"])
  /\ UNCHANGED <<log, controller, command>>

\* A decision made while the handler worked, if it has a newer version.
Heeds(r) == Newer(r) /\ (Latest.status \in {"CANCELLED", "FAILED"} \/ Latest.desired = "PAUSED")

AfterPhase(r) ==
  /\ runner[r].pc = "after"
  /\ IF Heeds(r)
     THEN IF Latest.status \in {"CANCELLED", "FAILED"} THEN Finish(r)
          ELSE Persist(r, Moved(Latest, "PAUSED", "PAUSED"), "end")
     ELSE LET state == Seen(r) IN
          Persist(r, [state EXCEPT !.done = @ \cup {runner[r].phase}, !.version = @ + 1], "next")
  /\ UNCHANGED <<log, controller, command>>

Complete(r) ==
  /\ runner[r].pc = "before" /\ runner[r].phase > Phases
  /\ IF Newer(r) /\ Latest.status \in {"CANCELLED", "FAILED"} THEN Finish(r)
     ELSE Persist(r, Moved(runner[r].state, "COMPLETED", runner[r].state.desired), "end")
  /\ UNCHANGED <<log, controller, command>>

\* fail(): a cancelled or completed job stays so.
Fail(r) ==
  /\ runner[r].pc = "fail"
  /\ IF Latest.status \in {"CANCELLED", "COMPLETED"} THEN Finish(r)
     ELSE Persist(r, Moved(Latest, "FAILED", Latest.desired), "end")
  /\ UNCHANGED <<log, controller, command>>

\* #persist returns the end it finds, and every caller returns with it.
ReadLog(r) ==
  /\ runner[r].pc = "read"
  /\ IF Ended THEN Finish(r)
     ELSE Update(r, [runner[r] EXCEPT !.pc = "append", !.sequence = Len(log) + 1])
  /\ UNCHANGED <<log, controller, command>>

WriteLog(r) ==
  /\ runner[r].pc = "append"
  /\ Appended(runner[r])
  /\ LET state == Answer(runner[r]) IN
     IF runner[r].after = "end" \/ state.status \in Terminal THEN Finish(r)
     ELSE Update(r, [runner[r] EXCEPT !.pc = "before", !.state = state, !.phase = @ + 1])
  /\ UNCHANGED <<controller, command>>

\* The finally of #runAuthorized forgets the controller, even a newer runner's.
Leave(r) ==
  /\ runner[r].pc = "over"
  /\ controller' = NoRunner
  /\ Update(r, [Unborn EXCEPT !.pc = "gone"])
  /\ UNCHANGED <<log, command>>

\* The microtask after start(), and recover() when the server starts.
Recover(r) ==
  /\ controller = NoRunner
  /\ log[Len(log)].status = "RUNNING" /\ log[Len(log)].desired = "RUNNING"
  /\ \A q \in Runner : runner[q].pc \in {"unborn", "gone"}
  /\ Launch(r, log[Len(log)])
  /\ UNCHANGED <<log, command>>

Crash ==
  /\ \E r \in Runner : runner[r].pc \notin {"unborn", "gone"}
  /\ controller' = NoRunner
  /\ runner' = [r \in Runner |-> IF runner[r].pc = "unborn" THEN Unborn ELSE [Unborn EXCEPT !.pc = "gone"]]
  /\ command' = [c \in Command |-> NoWrite]
  /\ UNCHANGED log

RunnerStep(r) ==
  \/ BeforePhase(r) \/ HandlerEnds(r) \/ HandlerFails(r) \/ AfterPhase(r)
  \/ Complete(r) \/ Fail(r) \/ ReadLog(r) \/ WriteLog(r) \/ Leave(r)

CommandStep(c) == Ask(c) \/ AskInVain(c) \/ Read(c) \/ Write(c)

Next ==
  \/ \E r \in Runner : RunnerStep(r) \/ Recover(r)
  \/ \E c \in Command : CommandStep(c)
  \/ Crash

Spec == Init /\ [][Next]_vars

---------------------------------------------------------------------------
(* Whatever commands and runners write late, nothing is written behind a     *)
(* cancelled, failed or completed job (the store's own check under its lock, *)
(* which #persist's read cannot replace), and a cancellation that is         *)
(* answered has ended the job, although a runner or another command took the *)
(* sequence it asked for (the store appends it under the next sequence).     *)
EndHolds == [][ (Ended => log' = log) /\ (Write("cancel") => Ended') ]_vars

(* What the design says of a pause: only a member's resume goes on. A job    *)
(* may be cancelled, or fail, while it is paused.                            *)
PausedWaits ==
  [][ /\ log' # log
      /\ log[Len(log)].status = "PAUSED"
      /\ log'[Len(log')].status \in {"RUNNING", "COMPLETED"}
      => Write("resume") ]_vars
=============================================================================
