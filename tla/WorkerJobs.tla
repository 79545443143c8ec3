----------------------------- MODULE WorkerJobs -----------------------------
(***************************************************************************)
(* The jobs that every worker runs, side by side.  Each has tables and     *)
(* timers of its own; what two of them share is Redis, where the tasks     *)
(* that run under a lock have a key each.  A step is one of one job, so    *)
(* any number of jobs is under way at once, in one worker as well as in    *)
(* several; a worker's death is a death in each of its jobs, one after the *)
(* other.                                                                  *)
(* src/worker/src/app.ts                                                   *)
(***************************************************************************)
EXTENDS RetentionCleaner, TraceDeleteBatchAction, TraceDeletion, UsageMetering, PeriodicRunner,
        PromptCache

(* BATCH_DATA_RETENTION_CLEANER_LOCK_PREFIX begins none of the other keys. *)
ASSUME KeysAssumption == RetentionKey # RunnerKey

ownRetention == <<sweep, strayDelete, brokenOff, retentionFaults>>
ownBatch == <<batchAction, older, gonePages, job, overtaken, batchFaults>>
jobsVars == <<lock, ownRetention, ownBatch, deletionVars, meteringVars, runnerVars, promptVars>>

JobsInit ==
  RetentionInit /\ BatchInit /\ DeletionInit /\ MeteringInit /\ RunnerInit /\ PromptInit

RetentionAlone == UNCHANGED <<ownBatch, deletionVars, meteringVars, runnerVars, promptVars>>
BatchAlone == UNCHANGED <<ownRetention, deletionVars, meteringVars, runnerVars, promptVars>>
DeletionAlone == UNCHANGED <<lock, ownRetention, ownBatch, meteringVars, runnerVars, promptVars>>
MeteringAlone == UNCHANGED <<lock, ownRetention, ownBatch, deletionVars, runnerVars, promptVars>>
RunnerAlone == UNCHANGED <<lock, ownRetention, ownBatch, deletionVars, meteringVars, promptVars>>
PromptsAlone == UNCHANGED <<lock, ownRetention, ownBatch, deletionVars, meteringVars, runnerVars>>

JobsNext ==
  \/ RetentionAlone /\ RetentionNext
  \/ BatchAlone /\ BatchNext
  \/ DeletionAlone /\ DeletionNext
  \/ MeteringAlone /\ MeteringNext
  \/ RunnerAlone /\ RunnerNext
  \/ PromptsAlone /\ PromptNext

JobsSpec == JobsInit /\ [][JobsNext]_jobsVars

-----------------------------------------------------------------------------

TypeOK ==
  RetentionTypeOK /\ BatchTypeOK /\ DeletionTypeOK /\ MeteringTypeOK /\ RunnerTypeOK /\ PromptTypeOK
=============================================================================
