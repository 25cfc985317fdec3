----------------------------- MODULE MCServices -----------------------------
(* Four services that share nothing here but the run of TLC: access to       *)
(* spaces, analysis jobs, staging of uploads, work sessions. One of them     *)
(* moves in a behaviour and the others rest, so the states add up.           *)
EXTENDS SpaceAccess, Sequences, TLC

CONSTANTS
  Runner, NoRunner, Phases, MaxLog,
  Run, NoRun, Member, Backup, Chunks,
  Request, Origin, Call, Graph, First, NoGraph, Nobody, MaxVersion

\* A session a member created is none a continuation creates.
ASSUME OriginIsCreated == Origin \notin Request

VARIABLES
  jobLog, controller, runner, command,
  run, row, abandoned, decision, result, bytes, upload, copy, call, barrier, attempt,
  log, publishedBy, wanted, admitted, asking

Job == INSTANCE WorkspaceAnalysisJob WITH log <- jobLog
Staging == INSTANCE SourceStaging
Work == INSTANCE WorkSession WITH call <- asking

Interchangeable == Permutations(Account)

---------------------------------------------------------------------------
(* Slices: what the interleaving of interest does not need is held still.    *)

\* Access: one grant of any roles and an application between two accounts, two
\* grants without one, or two permission administrators among three accounts.
Given == {g \in Account \X Key : grants[g[1]][g[2]] \ {"OWNER"} # {}}
Asking == {a \in Account : pending[a].join # {}}
Known == {a \in Account : account[a].status # "NONE"}
NoLinks == \A a \in Account :
  account[a].status # "PENDING" /\ ~account[a].credential /\ ~pending[a].create
OnlyManagers ==
  \A a \in Account, k \in Key : grants[a][k] \subseteq {"PERMISSION_ADMIN", "OWNER"}
AccessSlice ==
  \/ space.status = "NONE"
  \/ Given = {} /\ Asking = {} /\ NoLinks
  \/ /\ ~control.recovery /\ NoLinks
     /\ space.status = "ACTIVE" /\ space.successor = NoAccount
     /\ Cardinality(Asking) + Cardinality(Given) <= 2
     /\ \/ Cardinality(Known) <= 2
        \/ Asking = {} /\ OnlyManagers

\* Jobs: two runners, a runner and a command, or two commands at a time.
JobSlice ==
  /\ Len(jobLog) <= MaxLog
  /\ Cardinality({c \in Job!Command : command[c].pc # "idle"})
     + Cardinality({r \in Runner : runner[r].pc \notin {"unborn", "gone"}}) <= 2

\* Staging: two runs of two chunks, or three runs, or two runs and a backup.
Used == {r \in Run : run[r].status # "NONE"}
Sent == {r \in Run : upload[r] # 0}
NoBackup == \A b \in Backup : attempt[b].pc = "none"
OneChunk == \A c \in bytes : c[2] = 1
StagingSlice ==
  \/ NoBackup /\ Cardinality(Used) <= 2 /\ (OneChunk \/ Cardinality(Sent) <= 1)
  \/ NoBackup /\ OneChunk /\ Sent = {}
  \/ Cardinality(Used) <= 2 /\ OneChunk /\ Sent = {} /\ \A r \in Run : copy[r] = <<>>

---------------------------------------------------------------------------
jobVars == <<jobLog, controller, runner, command>>
stagingVars == <<run, row, abandoned, decision, result, bytes, upload, copy, call, barrier, attempt>>
workVars == <<log, publishedBy, wanted, admitted, asking>>
allVars == <<vars, jobVars, stagingVars, workVars>>

AccessRests == Init /\ UNCHANGED vars
JobRests == Job!Init /\ UNCHANGED jobVars
StagingRests == Staging!Init /\ UNCHANGED stagingVars
WorkRests == Work!Init /\ UNCHANGED workVars

ServicesInit == Init /\ Job!Init /\ Staging!Init /\ Work!Init

ServicesNext ==
  \/ JobRests /\ StagingRests /\ WorkRests /\ Next /\ AccessSlice'
  \/ AccessRests /\ StagingRests /\ WorkRests /\ Job!Next /\ JobSlice'
  \/ AccessRests /\ JobRests /\ WorkRests /\ Staging!Next /\ StagingSlice'
  \/ AccessRests /\ JobRests /\ StagingRests /\ Work!Next

Services == ServicesInit /\ [][ServicesNext]_allVars

---------------------------------------------------------------------------
(* The properties of the services that are no more than instances; each is   *)
(* stated where its module states it.                                        *)

(* Nothing is written behind the end of a job, and a cancellation ends it    *)
(* (the runner's writes and the store's append).                             *)
EndHolds == Job!EndHolds

(* Checkpoints of runs nobody abandoned have their bytes (release against    *)
(* reuse of a prefix).                                                       *)
ReferencedIsThere == Staging!ReferencedIsThere

(* A chunk recorded as removed does not come back (late publications).       *)
ReleasedStaysGone == Staging!ReleasedStaysGone

(* What a sealed backup lists is not released (failed and dead attempts).    *)
BackupsKept == Staging!BackupsKept

(* Questions and continuations are admitted on the version of the session    *)
(* the member saw (onAdmit).                                                 *)
AdmittedAsSeen == Work!AdmittedAsSeen

(* Only a member's resume goes on with a paused job.                         *)
PausedWaits == Job!PausedWaits
=============================================================================
