---------------------------- MODULE SourceStaging ----------------------------
(* The private upload chunks of the runs of one workspace: how a directory   *)
(* upload and a retry write checkpoints (upload-service.js, repository.js    *)
(* startRun), how a member abandons them (staging-service.js) and how a      *)
(* backup takes them (backup-service.js, backup-catalogue.js).               *)
(*                                                                           *)
(* Every transaction that takes the row of the workspace is one step; reads  *)
(* outside it, the bytes on disk and the process of a backup are steps of    *)
(* their own. A run uploads one file; a chunk is known by the run that sent  *)
(* it and its place in the file. Restores, leases and the statuses of an     *)
(* active run are left out: a worker whose lease is lost can write nothing.  *)
EXTENDS Naturals, Sequences, FiniteSets

CONSTANTS
  Run, NoRun,
  Member,        \* release requests in progress at a time
  Backup,        \* attempts
  Chunks         \* chunks of the file

VARIABLES
  run,           \* source_truth_run: status and retry_of
  row,           \* source_truth_upload_checkpoint: by offset, whose chunk it is
  abandoned,     \* runs in source_truth_staging_release
  decision,      \* source_truth_chunk_release of each run
  result,        \* source_truth_chunk_release_result of each run
  bytes,         \* chunks on disk
  upload,        \* the chunk a client is sending to a run, 0 for none
  copy,          \* the checkpoints of the prior run a retry has read
  call,          \* calls of release()
  barrier,       \* backup_barrier of the workspace
  attempt        \* source_truth_backup_attempt, its target and its index

vars == <<run, row, abandoned, decision, result, bytes, upload, copy, call, barrier, attempt>>

Chunk == Run \X (1..Chunks)

Idle == [pc |-> "idle", run |-> NoRun, todo |-> {}]
NoAttempt == [pc |-> "none", status |-> "NONE", sealing |-> FALSE, sealed |-> FALSE,
              objects |-> {}, indexed |-> {}, complete |-> FALSE]

Init ==
  /\ run = [r \in Run |-> [status |-> "NONE", retryOf |-> NoRun]]
  /\ row = [r \in Run |-> <<>>]
  /\ abandoned = {}
  /\ decision = [r \in Run |-> [c \in Chunk |-> "NONE"]]
  /\ result = [r \in Run |-> {}]
  /\ bytes = {}
  /\ upload = [r \in Run |-> 0]
  /\ copy = [r \in Run |-> <<>>]
  /\ call = [m \in Member |-> Idle]
  /\ barrier = FALSE
  /\ attempt = [b \in Backup |-> NoAttempt]

Runs == <<run, row, upload, copy>>
Release == <<abandoned, decision, result, call>>
Backups == <<barrier, attempt>>

\* The chunks the checkpoints of a run refer to.
ChunksOf(r) == {<<row[r][i], i>> : i \in DOMAIN row[r]}
Referenced == UNION {ChunksOf(r) : r \in Run \ abandoned}

---------------------------------------------------------------------------
(* Runs and their uploads *)

\* Mutant: the lease is looked at before the bytes are sent and not after.
ActiveOrEnded(r) == run[r].status # "NONE"

\* withLease: the run is not terminal.
Active(r) == run[r].status = "ACTIVE"

\* Mutant: an abandoned run may be tried again.
RetryableOnce(p) == run[p].status = "FAILED_RETRYABLE"

Retryable(p) == run[p].status = "FAILED_RETRYABLE" /\ p \notin abandoned

StartRun(r, p) ==
  /\ \A q \in Run : run[q].status # "ACTIVE"
  /\ run[r].status = "NONE"
  /\ p # NoRun => Retryable(p)
  /\ run' = [run EXCEPT ![r] = [status |-> "ACTIVE", retryOf |-> p]]
  /\ UNCHANGED <<row, upload, copy, bytes>> /\ UNCHANGED Release /\ UNCHANGED Backups

EndRun(r, status) ==
  /\ run[r].status = "ACTIVE"
  /\ run' = [run EXCEPT ![r].status = status]
  /\ UNCHANGED <<row, upload, copy, bytes>> /\ UNCHANGED Release /\ UNCHANGED Backups

\* A chunk sent again is compared with its checkpoint; another continues the prefix.
BeginUpload(r, i) ==
  /\ run[r].status = "ACTIVE"
  /\ i <= Len(row[r]) + 1
  /\ upload[r] = 0
  /\ upload' = [upload EXCEPT ![r] = i]
  /\ UNCHANGED <<run, row, copy, bytes>> /\ UNCHANGED Release /\ UNCHANGED Backups

\* The bytes are linked, then the checkpoint inserted, in one transaction. The
\* checkpoint of a chunk that came from the prior run stays.
Publish(r) ==
  /\ upload[r] # 0
  /\ Active(r)
  /\ bytes' = bytes \cup {<<r, upload[r]>>}
  /\ row' = IF upload[r] = Len(row[r]) + 1 THEN [row EXCEPT ![r] = Append(@, r)] ELSE row
  /\ upload' = [upload EXCEPT ![r] = 0]
  /\ UNCHANGED <<run, copy>> /\ UNCHANGED Release /\ UNCHANGED Backups

\* The transaction fails after the link.
PublishFails(r) ==
  /\ upload[r] # 0
  /\ Active(r)
  /\ bytes' = bytes \cup {<<r, upload[r]>>}
  /\ upload' = [upload EXCEPT ![r] = 0]
  /\ UNCHANGED <<run, row, copy>> /\ UNCHANGED Release /\ UNCHANGED Backups

\* Also a client that leaves, and a refused publication.
UploadEnds(r) ==
  /\ upload[r] # 0
  /\ upload' = [upload EXCEPT ![r] = 0]
  /\ UNCHANGED <<run, row, copy, bytes>> /\ UNCHANGED Release /\ UNCHANGED Backups

\* reuseRetryPrefix: the prior run's checkpoints are read, and their bytes
\* verified, outside the lease.
ReadPrefix(r) ==
  /\ run[r].status = "ACTIVE" /\ run[r].retryOf # NoRun
  /\ copy[r] = <<>>
  /\ run[run[r].retryOf].status = "FAILED_RETRYABLE"
  /\ row[run[r].retryOf] # <<>>
  /\ ChunksOf(run[r].retryOf) \subseteq bytes
  /\ copy' = [copy EXCEPT ![r] = row[run[r].retryOf]]
  /\ UNCHANGED <<run, row, upload, bytes>> /\ UNCHANGED Release /\ UNCHANGED Backups

\* Each checkpoint that continues the prefix is taken over.
InsertPrefix(r) ==
  /\ copy[r] # <<>>
  /\ row' = IF Active(r) /\ Len(row[r]) < Len(copy[r])
            THEN [row EXCEPT ![r] = @ \o SubSeq(copy[r], Len(@) + 1, Len(copy[r]))]
            ELSE row
  /\ copy' = [copy EXCEPT ![r] = <<>>]
  /\ UNCHANGED <<run, upload, bytes>> /\ UNCHANGED Release /\ UNCHANGED Backups

---------------------------------------------------------------------------
(* Release *)

\* A backup that may have a sealed target whose membership is not all known.
Unverified(b) ==
  (attempt[b].status = "RUNNING" \/ attempt[b].sealing) /\ ~attempt[b].complete

\* Mutant: a failed attempt has left nothing behind.
FreeOfRunning(c) ==
  /\ c \notin Referenced
  /\ \A b \in Backup : c \notin attempt[b].indexed /\ attempt[b].status # "RUNNING"

\* protection() answers RELEASE.
Free(c) ==
  /\ c \notin Referenced
  /\ \A b \in Backup : c \notin attempt[b].indexed /\ ~Unverified(b)

\* Mutant: a retry that copied nothing yet does not count.
NoChildReferences(r) == \A q \in Run : run[q].retryOf = r => ChunksOf(q) = {} \/ q \in abandoned

\* Every run that retries this one is abandoned.
ChildrenAbandoned(r) == \A q \in Run : run[q].retryOf = r => q \in abandoned

AskRelease(m, r) ==
  /\ call[m].pc = "idle"
  /\ ~barrier
  /\ run[r].status \in {"CANCELLED", "BLOCKED", "FAILED_RETRYABLE"}
  /\ ChildrenAbandoned(r)
  /\ abandoned' = abandoned \cup {r}
  /\ call' = [call EXCEPT ![m] = [Idle EXCEPT !.pc = "list", !.run = r]]
  /\ UNCHANGED <<decision, result, bytes>> /\ UNCHANGED Runs /\ UNCHANGED Backups

Undecided(r) ==
  {c \in ChunksOf(r) : decision[r][c] = "NONE" \/ (decision[r][c] = "RELEASE" /\ c \notin result[r])}

\* Read outside a transaction.
ListChunks(m) ==
  /\ call[m].pc = "list"
  /\ call' = [call EXCEPT ![m].pc = "plan", ![m].todo = Undecided(call[m].run)]
  /\ UNCHANGED <<abandoned, decision, result, bytes>> /\ UNCHANGED Runs /\ UNCHANGED Backups

Next1(m) == CHOOSE c \in call[m].todo : \A d \in call[m].todo : c[2] <= d[2]
Done(m) == [call EXCEPT ![m].pc = "plan", ![m].todo = @ \ {Next1(m)}]

\* The decision is kept before anything is deleted; the first one stands.
PlanChunk(m) ==
  /\ call[m].pc = "plan" /\ call[m].todo # {}
  /\ ~barrier
  /\ LET c == Next1(m)
         r == call[m].run
         decided == IF decision[r][c] # "NONE" THEN decision[r][c]
                    ELSE IF Free(c) THEN "RELEASE" ELSE "RETAIN"
     IN /\ decision' = [decision EXCEPT ![r][c] = decided]
        /\ call' = IF decided = "RELEASE" THEN [call EXCEPT ![m].pc = "delete"] ELSE Done(m)
  /\ UNCHANGED <<abandoned, result, bytes>> /\ UNCHANGED Runs /\ UNCHANGED Backups

\* Protection is asked again, under the same lock as the deletion.
DeleteChunk(m) ==
  /\ call[m].pc = "delete"
  /\ ~barrier
  /\ LET c == Next1(m)
         r == call[m].run
     IN /\ c \in result[r] \/ Free(c)
        /\ bytes' = IF c \in result[r] THEN bytes ELSE bytes \ {c}
        /\ result' = [result EXCEPT ![r] = @ \cup {c}]
  /\ call' = Done(m)
  /\ UNCHANGED <<abandoned, decision>> /\ UNCHANGED Runs /\ UNCHANGED Backups

\* The process dies between the unlink and the commit.
DeleteUnrecorded(m) ==
  /\ call[m].pc = "delete"
  /\ ~barrier
  /\ Next1(m) \notin result[call[m].run] /\ Free(Next1(m))
  /\ bytes' = bytes \ {Next1(m)}
  /\ call' = [call EXCEPT ![m] = Idle]
  /\ UNCHANGED <<abandoned, decision, result>> /\ UNCHANGED Runs /\ UNCHANGED Backups

\* The end of the list, a barrier or a new reference met on the way, a crash.
CallEnds(m) ==
  /\ call[m].pc # "idle"
  /\ call' = [call EXCEPT ![m] = Idle]
  /\ UNCHANGED <<abandoned, decision, result, bytes>> /\ UNCHANGED Runs /\ UNCHANGED Backups

---------------------------------------------------------------------------
(* Backups: the advisory lock lets one process work at a time *)

Working(b) == attempt[b].pc \notin {"none", "gone"}
Unlocked == \A b \in Backup : ~Working(b)
Unfinished(b) == attempt[b].status = "RUNNING"

Step(b, from, changes) ==
  /\ attempt[b].pc = from
  /\ attempt' = [attempt EXCEPT ![b] = changes]
  /\ UNCHANGED bytes /\ UNCHANGED Runs /\ UNCHANGED Release

BackupStarts(b) ==
  /\ Unlocked
  /\ attempt[b].pc = "none"
  /\ attempt' = [c \in Backup |->
       IF c = b THEN [NoAttempt EXCEPT !.pc = "begun", !.status = "RUNNING"]
       ELSE IF Unfinished(c) THEN [attempt[c] EXCEPT !.status = "FAILED"] ELSE attempt[c]]
  /\ UNCHANGED <<bytes, barrier>> /\ UNCHANGED Runs /\ UNCHANGED Release

RaiseBarrier(b) == Step(b, "begun", [attempt[b] EXCEPT !.pc = "raised"]) /\ barrier' = TRUE

\* The exported snapshot: every chunk a run that is not abandoned refers to.
Snapshot(b) ==
  /\ Step(b, "raised", [attempt[b] EXCEPT !.pc = "copying", !.objects = Referenced])
  /\ UNCHANGED barrier

\* Each object is read in full; one that is missing fails the attempt.
CopyObjects(b) ==
  /\ attempt[b].objects \subseteq bytes
  /\ Step(b, "copying", [attempt[b] EXCEPT !.pc = "copied"])
  /\ UNCHANGED barrier

\* target_seal_attempted is committed before complete.json can exist.
MarkSealing(b) ==
  /\ Step(b, "copied", [attempt[b] EXCEPT !.pc = "sealing", !.sealing = TRUE])
  /\ UNCHANGED barrier

Seal(b) ==
  /\ Step(b, "sealing", [attempt[b] EXCEPT !.pc = "sealed", !.sealed = TRUE])
  /\ UNCHANGED barrier

\* mirror: the set is completed, its objects are indexed batch by batch.
Mirror(b) ==
  /\ Step(b, "sealed", [attempt[b] EXCEPT !.pc = "indexing", !.status = "COMPLETED"])
  /\ UNCHANGED barrier

IndexObject(b) ==
  /\ \E c \in attempt[b].objects \ attempt[b].indexed :
       Step(b, "indexing", [attempt[b] EXCEPT !.indexed = @ \cup {c}])
  /\ UNCHANGED barrier

IndexComplete(b) ==
  /\ attempt[b].indexed = attempt[b].objects
  /\ Step(b, "indexing", [attempt[b] EXCEPT !.pc = "indexed", !.complete = TRUE])
  /\ UNCHANGED barrier

BackupEnds(b) == Step(b, "indexed", [attempt[b] EXCEPT !.pc = "gone"]) /\ barrier' = FALSE

BackupFails(b) ==
  /\ Working(b)
  /\ Step(b, attempt[b].pc, [attempt[b] EXCEPT !.pc = "gone",
                               !.status = IF @ = "RUNNING" THEN "FAILED" ELSE @])
  /\ barrier' = FALSE

BackupCrashes(b) ==
  /\ Working(b)
  /\ Step(b, attempt[b].pc, [attempt[b] EXCEPT !.pc = "gone"])
  /\ UNCHANGED barrier

\* The server starts.
RecoverAbandoned ==
  /\ Unlocked
  /\ barrier \/ \E b \in Backup : Unfinished(b)
  /\ attempt' = [b \in Backup |->
       IF Unfinished(b) THEN [attempt[b] EXCEPT !.status = "FAILED"] ELSE attempt[b]]
  /\ barrier' = FALSE
  /\ UNCHANGED bytes /\ UNCHANGED Runs /\ UNCHANGED Release

---------------------------------------------------------------------------
RunStep(r) ==
  \/ \E p \in Run \cup {NoRun} : StartRun(r, p)
  \/ \E status \in {"SUCCEEDED", "BLOCKED", "FAILED_RETRYABLE", "CANCELLED"} : EndRun(r, status)
  \/ \E i \in 1..Chunks : BeginUpload(r, i)
  \/ Publish(r) \/ PublishFails(r) \/ UploadEnds(r)
  \/ ReadPrefix(r) \/ InsertPrefix(r)

ReleaseStep(m) ==
  \/ \E r \in Run : AskRelease(m, r)
  \/ ListChunks(m) \/ PlanChunk(m) \/ DeleteChunk(m) \/ DeleteUnrecorded(m) \/ CallEnds(m)

BackupStep(b) ==
  \/ BackupStarts(b) \/ RaiseBarrier(b) \/ Snapshot(b) \/ CopyObjects(b) \/ MarkSealing(b)
  \/ Seal(b) \/ Mirror(b) \/ IndexObject(b) \/ IndexComplete(b)
  \/ BackupEnds(b) \/ BackupFails(b) \/ BackupCrashes(b)

Next ==
  \/ \E r \in Run : RunStep(r)
  \/ \E m \in Member : ReleaseStep(m)
  \/ \E b \in Backup : BackupStep(b)
  \/ RecoverAbandoned

Spec == Init /\ [][Next]_vars

---------------------------------------------------------------------------
(* The bytes behind every checkpoint of a run that nobody abandoned are on   *)
(* disk, whichever run sent them, although a retry reads the checkpoints it  *)
(* takes over outside its lease (upload-service.js, reuseRetryPrefix;        *)
(* staging-service.js, release and protection).                              *)
ReferencedIsThere == Referenced \subseteq bytes

(* A chunk whose removal is on record stays off the disk: no upload that was *)
(* under way when its run ended brings it back (blob-store.js, put: the      *)
(* publication is inside the lease).                                         *)
ReleasedStaysGone == \A r \in Run : result[r] \cap bytes = {}

(* No chunk an authenticated backup target lists is released, even when the  *)
(* attempt failed, or its process died, before the index of its objects was  *)
(* complete (staging-service.js, protection).                                *)
BackupsKept == \A b \in Backup : attempt[b].sealed => attempt[b].objects \subseteq bytes
=============================================================================
