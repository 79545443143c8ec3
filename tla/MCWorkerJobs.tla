---------------------------- MODULE MCWorkerJobs ----------------------------
(***************************************************************************)
(* One run for the jobs of the workers: a behaviour is about one of them,  *)
(* and the others keep still, which they do not mind (WorkerJobsProofs).   *)
(***************************************************************************)
EXTENDS WorkerJobs

VARIABLE part        \* the one this behaviour is about

allVars == <<part, jobsVars>>

MCTTL == [k \in Keys |-> Max({DeleteTime, QueryTime}) + Buffer]

-----------------------------------------------------------------------------
(* Bounds: not everything in one behaviour.  With several requests there   *)
(* are no uploads, and either failures, for one trace, or a trace that     *)
(* comes back; with one request there is all of that, for one trace if it  *)
(* comes back; the second failure is one of jobs without media.  Two       *)
(* actions together are requested once each and meet one error, not death  *)
(* or the loss of the lock; two readers of prompts meet one change and no  *)
(* error.                                                                  *)

NoUploads == \A t \in Traces : upload'[t] = "none"

OneTrace ==
  \E t \in Traces : \A u \in Traces \ {t} : pending'[u] = 0 /\ u \notin everDeleted'

DeletionBound ==
  \/ ingests' = 0 /\ NoUploads /\ deletionFaults' = 0
  \/ deletionFaults' <= 1 /\ links = {} /\ NoUploads /\ OneTrace
  \/ deletionFaults' <= 1 /\ requests' <= 1 /\ (ingests' = 0 \/ OneTrace)
  \/ links = {} /\ NoUploads /\ ingests' = 0 /\ (requests' <= 1 \/ OneTrace)

BatchBound ==
  \/ batchFaults' <= 1 /\ \A a \in Actions : batchAction'[a].request <= 1
  \/ \E a \in Actions : batchAction'[a].request = 0

PromptBound ==
  \/ writes' <= 1 /\ promptFaults' = 0
  \/ writes' + promptFaults' <= 2 /\ \E r \in PromptReaders : reader'[r] = NoReader

-----------------------------------------------------------------------------

Only(name) == part = name /\ UNCHANGED part

Init ==
  /\ part \in {"retention", "batch", "deletion", "metering", "runner", "prompts"}
  /\ JobsInit
  /\ part # "deletion" => links = {}

Next ==
  \/ Only("retention") /\ RetentionAlone /\ RetentionNext
  \/ Only("batch") /\ BatchAlone /\ BatchNext /\ BatchBound
  \/ Only("deletion") /\ DeletionAlone /\ DeletionNext /\ DeletionBound
  \/ Only("metering") /\ MeteringAlone /\ MeteringNext
  \/ Only("runner") /\ RunnerAlone /\ RunnerNext
  \/ Only("prompts") /\ PromptsAlone /\ PromptNext /\ PromptBound

(* Time passes, a lock that is not renewed lapses, cleaners come along now *)
(* and then, and each worker goes on with what it has started.  As no step *)
(* changes part, the fairness of a disjunction is that of each disjunct.   *)
Fairness ==
  /\ WF_retentionVars(part = "retention" /\ Tick)
  /\ WF_batchVars(part = "batch" /\ LockLapses /\ batchFaults' = batchFaults)
  /\ WF_deletionVars(part = "deletion" /\ (\E d \in Deleters : \E j \in jobs : StartJob(d, j)) /\ DeletionBound)
  /\ WF_meteringVars(part = "metering" /\ HourPasses)
  /\ WF_meteringVars(part = "metering" /\ TwentyMinutesPass)
  /\ \A w \in Workers :
       /\ WF_retentionVars(part = "retention" /\ Begin(w))
       /\ WF_retentionVars(part = "retention" /\ RunSteps(w))
       /\ WF_batchVars(part = "batch" /\ JobSteps(w))
       /\ WF_meteringVars(part = "metering" /\ MetererSteps(w))
       /\ WF_deletionVars(part = "deletion" /\ deleter[w].kind # "none" /\ CleanerSteps(w) /\ DeletionBound)

Spec == Init /\ [][Next]_allVars /\ Fairness
=============================================================================
