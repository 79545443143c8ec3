---------------------------- MODULE TraceDeletion ----------------------------
(***************************************************************************)
(* Deleting traces somebody has asked to be rid of.  A request leaves a    *)
(* row in pending_deletions for each trace and adds a job; the job takes   *)
(* whatever of the project is pending, and so does, where it is enabled, a *)
(* cleaner that runs periodically (under a lock that is never renewed and  *)
(* may lapse in a run, so that two may run at once; it is left out).       *)
(* Either deletes in Postgres and, at the same time, a media file no other *)
(* trace refers to, the references, and the data in ClickHouse; then it    *)
(* marks the rows.  Media of one content are one file, which traces share: *)
(* an upload looks for it, stores it if it is not there and refers to it.  *)
(* The model has one project and one content.                              *)
(* Definitions named Fault... are deliberate errors: no definition uses    *)
(* one, and each shows that a property would notice it.                    *)
(* src/packages/shared/src/server/traceDeletionProcessor.ts,               *)
(* src/worker/src/queues/traceDelete.ts, src/worker/src/features/          *)
(* batch-trace-deletion-cleaner/index.ts, src/worker/src/features/traces/, *)
(* src/packages/shared/src/server/media/mediaService.ts                    *)
(***************************************************************************)
EXTENDS Integers, FiniteSets, FiniteSetsExt

CONSTANTS
  Traces,              \* traces of a project
  Deleters,            \* processors of the queue and cleaners, of all workers
  BatchSize,           \* LANGFUSE_DELETE_BATCH_SIZE
  MaxAttempts,         \* attempts of a job
  CleanerEnabled,      \* LANGFUSE_BATCH_TRACE_DELETION_CLEANER_ENABLED, by default FALSE
  MaxDeletionRequests, \* requests (bounds the model)
  MaxIngests,          \* how often a trace is ingested again (bounds the model)
  MaxUploads,          \* uploads (bounds the model)
  MaxDeletionFaults    \* failures and deaths (bounds the model)

ASSUME DeletionAssumption ==
  /\ IsFiniteSet(Traces) /\ Traces # {}
  /\ {BatchSize, MaxAttempts} \subseteq Nat \ {0}
  /\ CleanerEnabled \in BOOLEAN
  /\ {MaxDeletionRequests, MaxIngests, MaxUploads, MaxDeletionFaults} \subseteq Nat

VARIABLES
  data,              \* of each trace: none, kept, or doomed: there when its deletion was asked for
  pending,           \* rows of each trace in pending_deletions with isDeleted false
  everDeleted,       \* traces that have a row with isDeleted true
  jobs,              \* jobs that wait
  requests,          \* requests so far
  deleter,           \* what each deleter is doing
  links,             \* traces that refer to the media (trace_media)
  mediaRow,          \* its row: none, new, or uploaded
  file,              \* whether the file is stored
  upload,            \* where each trace's upload is
  ingests,           \* how often a trace has been ingested again
  unlucky,           \* traces asked for between a deletion of data and its mark
  leftBehind,        \* traces whose job was not added, failed for good, or took a batch without them
  raced,             \* an upload came between the check for orphans and the end of a deletion,
                     \* or referred to the file for a trace that was being deleted
  outrun,            \* a reference that kept a file was removed before the deletion it stopped was over
  deletionFaults     \* faults so far

requestVars == <<pending, everDeleted, jobs, requests>>
mediaVars == <<links, mediaRow, file, upload, raced, outrun>>
deletionVars == <<data, requestVars, deleter, mediaVars, ingests, unlucky, leftBehind, deletionFaults>>

NoJobId == 0

Resting ==
  [kind |-> "none", job |-> [id |-> NoJobId, traces |-> {}, attempts |-> 0], ids |-> {}, step |-> "none",
   marks |-> FALSE, failed |-> FALSE, orphan |-> FALSE, beaten |-> FALSE, since |-> {}]

DeletionInit ==
  /\ data = [t \in Traces |-> "kept"]
  /\ pending = [t \in Traces |-> 0]
  /\ everDeleted = {}
  /\ jobs = {}
  /\ requests = 0
  /\ deleter = [d \in Deleters |-> Resting]
  /\ links \in SUBSET Traces
  /\ mediaRow = IF links = {} THEN "none" ELSE "uploaded"
  /\ file = (links # {})
  /\ upload = [t \in Traces |-> "none"]
  /\ ingests = 0
  /\ unlucky = {}
  /\ leftBehind = {}
  /\ raced = FALSE
  /\ outrun = FALSE
  /\ deletionFaults = 0

FaultOutstanding == {t \in Traces : pending[t] > 0} \ everDeleted

(* The traces of the rows that are not marked. *)
Outstanding == {t \in Traces : pending[t] > 0}

Occurs ==
  /\ deletionFaults < MaxDeletionFaults
  /\ deletionFaults' = deletionFaults + 1

Rest(d) == deleter' = [deleter EXCEPT ![d] = Resting]

Step(d, step) == deleter' = [deleter EXCEPT ![d].step = step]

LastAttempt(job) == job.attempts + 1 >= MaxAttempts

FaultJobsAfterFailure(job) == jobs

(* The job goes back to the queue unless it was its last attempt. *)
JobsAfterFailure(job) ==
  IF LastAttempt(job) THEN jobs ELSE jobs \cup {[job EXCEPT !.attempts = @ + 1]}

(* What a job leaves behind that fails for good; a later job takes it up.  *)
LeftByFailure(d) ==
  IF deleter[d].kind = "job" /\ LastAttempt(deleter[d].job)
  THEN deleter[d].ids \cup deleter[d].job.traces
  ELSE {}

(* Any deleter will do for what starts; the first at rest takes it. *)
Free(d) == d = CHOOSE e \in Deleters : deleter[e].kind = "none"

-----------------------------------------------------------------------------

Ingest(t) ==
  /\ data[t] = "none"
  /\ ingests < MaxIngests
  /\ data' = [data EXCEPT ![t] = "kept"]
  /\ ingests' = ingests + 1
  /\ UNCHANGED <<requestVars, deleter, mediaVars, unlucky, leftBehind, deletionFaults>>

(* traceDeletionProcessor: rows, which nothing keeps unique, and a job; the *)
(* job may fail to be added, and the rows remain.                           *)
RequestDeletion(ts) ==
  /\ requests < MaxDeletionRequests
  /\ requests' = requests + 1
  /\ pending' = [t \in Traces |-> IF t \in ts THEN pending[t] + 1 ELSE pending[t]]
  /\ data' = [t \in Traces |-> IF t \in ts /\ data[t] = "kept" THEN "doomed" ELSE data[t]]
  /\ \/ /\ jobs' = jobs \cup {[id |-> requests', traces |-> ts, attempts |-> 0]}
        /\ UNCHANGED <<leftBehind, deletionFaults>>
     \/ /\ Occurs
        /\ leftBehind' = leftBehind \cup ts
        /\ UNCHANGED jobs
  /\ deleter' = [d \in Deleters |-> IF deleter[d].step = "mark"
                                    THEN [deleter[d] EXCEPT !.since = @ \cup ts] ELSE deleter[d]]
  /\ UNCHANGED <<everDeleted, mediaVars, ingests, unlucky>>

(* The job's own traces, but those some row says are deleted, and whatever *)
(* else is pending; without any the job is done.                           *)
StartJob(d, job) ==
  LET all == Outstanding \cup (job.traces \ everDeleted)
  IN  /\ deleter[d].kind = "none" /\ Free(d)
      /\ jobs' = jobs \ {job}
      /\ IF all = {}
         THEN UNCHANGED <<deleter, leftBehind>>
         ELSE \E ids \in kSubset(Min({BatchSize, Cardinality(all)}), all) :
                /\ deleter' = [deleter EXCEPT ![d] =
                     [Resting EXCEPT !.kind = "job", !.job = job, !.ids = ids, !.step = "links",
                                     !.marks = Outstanding # {}]]
                /\ leftBehind' = (leftBehind \cup all) \ ids
      /\ UNCHANGED <<data, pending, everDeleted, requests, mediaVars, ingests, unlucky, deletionFaults>>

(* A batch of rows, which may be several of one trace; without rows the    *)
(* run is over.                                                            *)
StartCleaner(d) ==
  /\ CleanerEnabled
  /\ deleter[d].kind = "none" /\ Free(d)
  /\ \/ Outstanding = {} /\ UNCHANGED deleter
     \/ \E ids \in SUBSET Outstanding :
       /\ ids # {}
       /\ Cardinality(ids) <= BatchSize
       /\ ids = Outstanding \/ MapThenSumSet(LAMBDA t : pending[t], ids) >= BatchSize
       /\ deleter' = [deleter EXCEPT ![d] =
            [Resting EXCEPT !.kind = "cleaner", !.ids = ids, !.step = "links", !.marks = TRUE]]
  /\ UNCHANGED <<data, requestVars, mediaVars, ingests, unlucky, leftBehind, deletionFaults>>

(* deleteMediaItemsForTraces: references first. *)
FindLinks(d) ==
  /\ deleter[d].step = "links"
  /\ Step(d, IF links \cap deleter[d].ids = {} THEN "data" ELSE "orphans")
  /\ UNCHANGED <<data, requestVars, mediaVars, ingests, unlucky, leftBehind, deletionFaults>>

FaultIsOrphan(ids) == mediaRow # "none"

IsOrphan(ids) == mediaRow # "none" /\ links \subseteq ids

FaultStepAfter(step, orphan) ==
  CASE step = "orphans" -> "unlink"
    [] step = "unlink" /\ orphan -> "file"
    [] OTHER -> "data"

(* The references go after the file: a failure before leaves them to find  *)
(* the file by.                                                            *)
StepAfter(step, orphan) ==
  CASE step = "orphans" /\ orphan -> "file"
    [] step = "unlink" -> "data"
    [] OTHER -> "unlink"

CheckOrphans(d) ==
  /\ deleter[d].step = "orphans"
  /\ deleter' = [deleter EXCEPT ![d].step = StepAfter("orphans", IsOrphan(deleter[d].ids)),
                                ![d].orphan = IsOrphan(deleter[d].ids)]
  /\ raced' = (raced \/ (IsOrphan(deleter[d].ids) /\ \E t \in Traces : upload[t] \notin {"none", "ended"}))
  /\ UNCHANGED <<data, requestVars, links, mediaRow, file, upload, outrun, ingests, unlucky, leftBehind, deletionFaults>>

DeleteFile(d) ==
  /\ deleter[d].step = "file"
  /\ file' = FALSE
  /\ Step(d, StepAfter("file", TRUE))
  /\ UNCHANGED <<data, requestVars, links, mediaRow, upload, raced, outrun, ingests, unlucky, leftBehind, deletionFaults>>

(* One transaction; the row of a file that was deleted goes if nothing     *)
(* refers to it by now.                                                    *)
Unlink(d) ==
  LET left == links \ deleter[d].ids
      others == {e \in Deleters \ {d} : deleter[e].step = "unlink" /\ ~deleter[e].orphan}
  IN  /\ deleter[d].step = "unlink"
      /\ links' = left
      /\ mediaRow' = IF deleter[d].orphan /\ left = {} THEN "none" ELSE mediaRow
      /\ outrun' = (outrun \/ deleter[d].beaten)
      /\ deleter' = [e \in Deleters |->
           CASE e = d -> [deleter[e] EXCEPT !.step = StepAfter("unlink", deleter[e].orphan), !.orphan = FALSE, !.beaten = FALSE]
             [] e \in others -> [deleter[e] EXCEPT !.beaten = TRUE]
             [] OTHER -> deleter[e]]
      /\ UNCHANGED <<data, requestVars, file, upload, raced, ingests, unlucky, leftBehind, deletionFaults>>

(* deleteTraces and the rest of processClickhouseTraceDelete. *)
DeleteData(d) ==
  /\ deleter[d].step = "data"
  /\ data' = [t \in Traces |-> IF t \in deleter[d].ids THEN "none" ELSE data[t]]
  /\ IF deleter[d].kind = "stray" THEN Rest(d) ELSE Step(d, "mark")
  /\ UNCHANGED <<requestVars, mediaVars, ingests, unlucky, leftBehind, deletionFaults>>

FaultMarked(d) == Outstanding

Marked(d) == Outstanding \cap deleter[d].ids

(* All rows of these traces, those that were added meanwhile included. *)
Mark(d) ==
  LET marked == IF deleter[d].marks /\ ~deleter[d].failed THEN Marked(d) ELSE {}
  IN  /\ deleter[d].step = "mark"
      /\ pending' = [t \in Traces |-> IF t \in marked THEN 0 ELSE pending[t]]
      /\ everDeleted' = everDeleted \cup marked
      /\ unlucky' = unlucky \cup (marked \cap deleter[d].since)
      /\ Rest(d)
      /\ UNCHANGED <<data, jobs, requests, mediaVars, ingests, leftBehind, deletionFaults>>

-----------------------------------------------------------------------------

Working(d) == deleter[d].kind # "none" /\ deleter[d].step # "mark"

(* Promise.all: the job fails at once, and the other deletion goes on with *)
(* nobody waiting for it.  allSettled: the cleaner waits.                  *)
PostgresFails(d) ==
  /\ Working(d)
  /\ Occurs
  /\ \/ /\ deleter[d].kind = "job"
        /\ jobs' = JobsAfterFailure(deleter[d].job)
        /\ deleter' = [deleter EXCEPT ![d].kind = "stray", ![d].job = Resting.job]
     \/ /\ deleter[d].kind = "cleaner"
        /\ deleter' = [deleter EXCEPT ![d].failed = TRUE]
        /\ UNCHANGED jobs
  /\ leftBehind' = leftBehind \cup LeftByFailure(d)
  /\ UNCHANGED <<data, pending, everDeleted, requests, mediaVars, ingests, unlucky>>

(* A query, the deletion of the file or ClickHouse fails; or the mark.     *)
ClickhouseFails(d) ==
  /\ deleter[d].kind # "none"
  /\ Occurs
  /\ jobs' = IF deleter[d].kind = "job" THEN JobsAfterFailure(deleter[d].job) ELSE jobs
  /\ leftBehind' = leftBehind \cup LeftByFailure(d)
  /\ Rest(d)
  /\ UNCHANGED <<data, pending, everDeleted, requests, mediaVars, ingests, unlucky>>

(* The worker dies; the queue finds the job stalled and runs it again.     *)
DeleterDies(d) ==
  /\ deleter[d].kind # "none"
  /\ Occurs
  /\ jobs' = IF deleter[d].kind = "job" THEN jobs \cup {deleter[d].job} ELSE jobs
  /\ Rest(d)
  /\ UNCHANGED <<data, pending, everDeleted, requests, mediaVars, ingests, unlucky, leftBehind>>

-----------------------------------------------------------------------------

(* A deletion has found the file to be an orphan, or has died or failed    *)
(* when it had deleted the file and not yet its row.                       *)
Removing == (\E d \in Deleters : deleter[d].orphan) \/ (mediaRow = "uploaded" /\ ~file)

(* uploadMediaForTrace: what was uploaded before is only referred to. *)
Lookup(t) ==
  /\ upload[t] = "none" /\ t \notin links
  /\ data[t] = "kept"
  /\ Cardinality({u \in Traces : upload[u] # "none"}) < MaxUploads
  /\ upload' = [upload EXCEPT ![t] = IF mediaRow = "uploaded" THEN "linking" ELSE "sending"]
  /\ mediaRow' = IF mediaRow = "none" THEN "new" ELSE mediaRow
  /\ raced' = (raced \/ Removing)
  /\ UNCHANGED <<data, requestVars, deleter, links, file, outrun, ingests, unlucky, leftBehind, deletionFaults>>

Send(t) ==
  /\ upload[t] = "sending"
  /\ file' = TRUE
  /\ upload' = [upload EXCEPT ![t] = "confirming"]
  /\ UNCHANGED <<data, requestVars, deleter, links, mediaRow, raced, outrun, ingests, unlucky, leftBehind, deletionFaults>>

(* Without its row the upload ends with an error. *)
Confirm(t) ==
  /\ upload[t] = "confirming"
  /\ upload' = [upload EXCEPT ![t] = IF mediaRow = "none" THEN "ended" ELSE "linking"]
  /\ mediaRow' = IF mediaRow = "none" THEN "none" ELSE "uploaded"
  /\ UNCHANGED <<data, requestVars, deleter, links, file, raced, outrun, ingests, unlucky, leftBehind, deletionFaults>>

BeingDeleted(t) == pending[t] > 0 \/ \E d \in Deleters : t \in deleter[d].ids

(* No foreign key: the reference needs neither the row nor the file. *)
Link(t) ==
  /\ upload[t] = "linking"
  /\ links' = links \cup {t}
  /\ upload' = [upload EXCEPT ![t] = "ended"]
  /\ raced' = (raced \/ BeingDeleted(t))
  /\ UNCHANGED <<data, requestVars, deleter, mediaRow, file, outrun, ingests, unlucky, leftBehind, deletionFaults>>

UploadSteps(t) == Lookup(t) \/ Send(t) \/ Confirm(t) \/ Link(t)

CleanerSteps(d) ==
  StartCleaner(d) \/ FindLinks(d) \/ CheckOrphans(d) \/ DeleteFile(d) \/ Unlink(d) \/ DeleteData(d) \/ Mark(d)

DeletionNext ==
  \/ \E t \in Traces : Ingest(t) \/ UploadSteps(t)
  \/ \E ts \in SUBSET Traces \ {{}} : RequestDeletion(ts)
  \/ \E d \in Deleters :
       \/ \E job \in jobs : StartJob(d, job)
       \/ CleanerSteps(d)
       \/ PostgresFails(d) \/ ClickhouseFails(d) \/ DeleterDies(d)

DeletionSpec == DeletionInit /\ [][DeletionNext]_deletionVars

-----------------------------------------------------------------------------

DeletionTypeOK ==
  LET Job == [id : 0..MaxDeletionRequests, traces : SUBSET Traces, attempts : 0..(MaxAttempts - 1)]
  IN  /\ data \in [Traces -> {"none", "kept", "doomed"}]
      /\ pending \in [Traces -> 0..MaxDeletionRequests]
      /\ {everDeleted, links, unlucky, leftBehind} \subseteq SUBSET Traces
      /\ jobs \subseteq Job
      /\ deleter \in [Deleters ->
           [kind : {"none", "job", "cleaner", "stray"}, job : Job, ids : SUBSET Traces,
            step : {"none", "links", "orphans", "file", "unlink", "data", "mark"},
            marks : BOOLEAN, failed : BOOLEAN, orphan : BOOLEAN, beaten : BOOLEAN, since : SUBSET Traces]]
      /\ mediaRow \in {"none", "new", "uploaded"}
      /\ upload \in [Traces -> {"none", "sending", "confirming", "linking", "ended"}]
      /\ {file, raced, outrun} \subseteq BOOLEAN
      /\ requests \in 0..MaxDeletionRequests
      /\ ingests \in 0..MaxIngests
      /\ deletionFaults \in 0..MaxDeletionFaults

(* As long as data is there whose deletion was asked for, a row says so:   *)
(* jobs and cleaners that overlap, fail and leave a deletion behind never  *)
(* mark a trace nobody has deleted.  A request for a trace ingested again, *)
(* between a run's deletion and its mark, is lost; no other is.            *)
MarkedWasDeleted ==
  \A t \in Traces : data[t] = "doomed" /\ pending[t] = 0 => t \in unlucky

(* The file of a trace nobody wants deleted is there, and so is its row,   *)
(* whoever else's deletion shares it; unless its upload met a deletion.    *)
FilesKept ==
  \A t \in links : data[t] = "kept" /\ pending[t] = 0 => raced \/ (file /\ mediaRow = "uploaded")

(* No file is left that nothing refers to, wherever a deletion fails or    *)
(* dies; unless of two at a time each has seen the other's reference.      *)
NoOrphans ==
  /\ file
  /\ links = {}
  /\ \A t \in Traces : upload[t] \in {"none", "ended"}
  => raced \/ outrun

(* The periodic runs of the cleaner, where it is enabled. *)
CleanerRuns == WF_deletionVars(\E d \in Deleters : StartCleaner(d))

(* What was asked for is done in the end.  (There are finitely many        *)
(* requests.)  Each job that is not lost does it, in spite of others that  *)
(* fail, die or overlap with it; what lost jobs have left waits for the    *)
(* next one, for ever if none comes, unless the cleaner runs, which by     *)
(* default it does not.                                                    *)
RequestsDone ==
  /\ []<>(\A t \in Traces : pending[t] = 0 \/ t \in leftBehind)
  /\ CleanerRuns => []<>(\A t \in Traces : pending[t] = 0)
=============================================================================
