------------------------- MODULE TraceDeletionProofs -------------------------
(***************************************************************************)
(* Whatever the traces, deleters, uploads, failures and deaths: no         *)
(* deletion that was asked for is marked as done without having been done, *)
(* a file is there for whom it should be, and not without.                 *)
(***************************************************************************)
EXTENDS TraceDeletion, TLAPS

(* Jobs and deleters, without the bounds of the model. *)
Job == [id : Nat, traces : SUBSET Traces, attempts : Nat]

Deleter ==
  [kind : {"none", "job", "cleaner", "stray"}, job : Job, ids : SUBSET Traces,
   step : {"none", "links", "orphans", "file", "unlink", "data", "mark"},
   marks : BOOLEAN, failed : BOOLEAN, orphan : BOOLEAN, beaten : BOOLEAN, since : SUBSET Traces]

(* What is stored about deletions. *)
DeletionTypes ==
  /\ data \in [Traces -> {"none", "kept", "doomed"}]
  /\ pending \in [Traces -> Nat]
  /\ jobs \subseteq Job
  /\ requests \in Nat
  /\ deleter \in [Deleters -> Deleter]

(* The inductive invariant: who is about to mark has deleted the data, but *)
(* for what was asked for since.                                           *)
DeletionInv ==
  /\ DeletionTypes
  /\ MarkedWasDeleted
  /\ \A d \in Deleters : deleter[d].step = "mark" =>
       \A t \in deleter[d].ids : data[t] = "doomed" => t \in deleter[d].since

-----------------------------------------------------------------------------

(* A slot without a deleter is well typed. *)
LEMMA RestingOK == Resting \in Deleter /\ Resting.step = "none"
  BY DEF Resting, Deleter, Job, NoJobId

(* Steps that delete and mark nothing. *)
LEMMA NothingMarked ==
  ASSUME DeletionInv, UNCHANGED <<data, pending, unlucky>>,
         jobs' \subseteq Job, requests' \in Nat,
         deleter' \in [Deleters -> Deleter],
         \A d \in Deleters : deleter'[d].step = "mark" =>
           /\ deleter[d].step = "mark"
           /\ deleter'[d].ids = deleter[d].ids /\ deleter'[d].since = deleter[d].since
  PROVE  DeletionInv'
<1>1. DeletionTypes' /\ MarkedWasDeleted'
  BY DEF DeletionInv, DeletionTypes, MarkedWasDeleted
<1>2. ASSUME NEW d \in Deleters, deleter'[d].step = "mark", NEW t \in deleter'[d].ids, data'[t] = "doomed"
      PROVE  t \in deleter'[d].since
  BY <1>2 DEF DeletionInv
<1> QED  BY <1>1, <1>2 DEF DeletionInv

(* One deleter becomes x, which is not about to mark. *)
LEMMA OneDeleterMoves ==
  ASSUME DeletionInv, UNCHANGED <<data, pending, unlucky>>,
         jobs' \subseteq Job, requests' \in Nat,
         NEW d \in Deleters, NEW x \in Deleter,
         deleter' = [deleter EXCEPT ![d] = x],
         x.step = "mark" => deleter[d].step = "mark" /\ x.ids = deleter[d].ids /\ x.since = deleter[d].since
  PROVE  DeletionInv'
<1>1. /\ deleter' \in [Deleters -> Deleter] /\ deleter'[d] = x
      /\ \A e \in Deleters : e # d => deleter'[e] = deleter[e]
  BY DEF DeletionInv, DeletionTypes
<1> QED  BY <1>1, NothingMarked

(* A job that comes back with one attempt less is a job. *)
LEMMA RetriedJobs ==
  ASSUME NEW job \in Job, jobs \subseteq Job
  PROVE  JobsAfterFailure(job) \subseteq Job
<1>1. [job EXCEPT !.attempts = @ + 1] \in Job
  BY DEF Job
<1> QED  BY <1>1 DEF JobsAfterFailure

(* Every action keeps the invariant. *)
LEMMA DeletionInvKept == DeletionInv /\ [DeletionNext]_deletionVars => DeletionInv'
<1> SUFFICES ASSUME DeletionInv, [DeletionNext]_deletionVars PROVE DeletionInv'
  OBVIOUS
<1>0. /\ DeletionTypes
      /\ \A d \in Deleters : deleter[d] \in Deleter /\ deleter[d].job \in Job
  BY DEF DeletionInv, DeletionTypes, Deleter
<1>1. ASSUME NEW t \in Traces, Ingest(t) PROVE DeletionInv'
  <2>1. data' = [data EXCEPT ![t] = "kept"] /\ UNCHANGED <<pending, jobs, requests, deleter, unlucky>>
    BY <1>1 DEF Ingest, requestVars
  <2>2. \A s \in Traces : data'[s] = "doomed" => data[s] = "doomed"
    BY <1>0, <2>1 DEF DeletionTypes
  <2>3. \A d \in Deleters : deleter[d].ids \subseteq Traces
    BY <1>0 DEF Deleter
  <2> QED  BY <1>0, <2>1, <2>2, <2>3 DEF DeletionInv, DeletionTypes, MarkedWasDeleted
<1>2. ASSUME NEW t \in Traces, UploadSteps(t) PROVE DeletionInv'
  <2>1. UNCHANGED <<data, pending, jobs, requests, deleter, unlucky>>
    BY <1>2 DEF UploadSteps, Lookup, Send, Confirm, Link, requestVars
  <2> QED  BY <1>0, <2>1, NothingMarked DEF DeletionTypes
<1>3. ASSUME NEW ts \in SUBSET Traces, RequestDeletion(ts) PROVE DeletionInv'
  <2>1. /\ requests' = requests + 1
        /\ pending' = [t \in Traces |-> IF t \in ts THEN pending[t] + 1 ELSE pending[t]]
        /\ data' = [t \in Traces |-> IF t \in ts /\ data[t] = "kept" THEN "doomed" ELSE data[t]]
        /\ unlucky' = unlucky
        /\ jobs' \subseteq jobs \cup {[id |-> requests', traces |-> ts, attempts |-> 0]}
    BY <1>3 DEF RequestDeletion
  <2>2. deleter' = [d \in Deleters |-> IF deleter[d].step = "mark"
                                       THEN [deleter[d] EXCEPT !.since = @ \cup ts] ELSE deleter[d]]
    BY <1>3 DEF RequestDeletion
  <2>3. ASSUME NEW d \in Deleters
        PROVE  /\ deleter'[d] \in Deleter
               /\ deleter'[d].step = deleter[d].step /\ deleter'[d].ids = deleter[d].ids
               /\ deleter[d].step = "mark" => deleter'[d].since = deleter[d].since \cup ts
    BY <1>0, <2>2 DEF Deleter
  <2>4. deleter' \in [Deleters -> Deleter]
    BY <2>2, <2>3
  <2>5. [id |-> requests', traces |-> ts, attempts |-> 0] \in Job /\ requests' \in Nat
    BY <1>0, <2>1 DEF DeletionTypes, Job
  <2>6. DeletionTypes'
    BY <1>0, <2>1, <2>4, <2>5 DEF DeletionTypes
  <2>7. MarkedWasDeleted'
    BY <1>0, <2>1 DEF DeletionInv, DeletionTypes, MarkedWasDeleted
  <2>8. ASSUME NEW d \in Deleters, deleter'[d].step = "mark", NEW t \in deleter'[d].ids, data'[t] = "doomed"
        PROVE  t \in deleter'[d].since
    <3>1. t \in Traces
      BY <2>3, <2>8 DEF Deleter
    <3>2. t \in ts \/ data[t] = "doomed"
      BY <2>1, <2>8, <3>1
    <3> QED  BY <2>3, <2>8, <3>2 DEF DeletionInv
  <2> QED  BY <2>6, <2>7, <2>8 DEF DeletionInv
<1>4. ASSUME NEW d \in Deleters, NEW job \in jobs, StartJob(d, job) PROVE DeletionInv'
  <2>1. /\ UNCHANGED <<data, pending, requests, unlucky>> /\ jobs' \subseteq jobs /\ job \in Job
        /\ requests' \in Nat /\ jobs' \subseteq Job
    BY <1>0, <1>4 DEF StartJob, DeletionTypes
  <2>2. CASE deleter' = deleter
    BY <1>0, <2>1, <2>2, NothingMarked DEF DeletionTypes
  <2>3. CASE deleter' # deleter
    <3>1. PICK ids \in SUBSET (Outstanding \cup (job.traces \ everDeleted)) :
            deleter' = [deleter EXCEPT ![d] =
              [Resting EXCEPT !.kind = "job", !.job = job, !.ids = ids, !.step = "links",
                              !.marks = Outstanding # {}]]
      BY <1>4, <2>3 DEF StartJob, kSubset
    <3> DEFINE x == [Resting EXCEPT !.kind = "job", !.job = job, !.ids = ids, !.step = "links",
                                    !.marks = Outstanding # {}]
    <3>2. ids \subseteq Traces
      BY <2>1 DEF Outstanding, Job
    <3>3. x \in Deleter /\ x.step = "links"
      BY <2>1, <3>2, RestingOK DEF Deleter
    <3> HIDE DEF x
    <3>4. deleter' = [deleter EXCEPT ![d] = x]
      BY <3>1 DEF x
    <3> QED  BY <2>1, <3>3, <3>4, OneDeleterMoves
  <2> QED  BY <2>2, <2>3
<1>5. ASSUME NEW d \in Deleters, CleanerSteps(d) PROVE DeletionInv'
  <2>0. jobs \subseteq Job /\ requests \in Nat /\ deleter[d] \in Deleter
    BY <1>0 DEF DeletionTypes
  <2>1. CASE StartCleaner(d)
    <3>1. UNCHANGED <<data, pending, jobs, requests, unlucky>>
      BY <2>1 DEF StartCleaner, requestVars
    <3>2. CASE deleter' = deleter
      BY <1>0, <3>1, <3>2, NothingMarked DEF DeletionTypes
    <3>3. CASE deleter' # deleter
      <4>1. PICK ids \in SUBSET Outstanding :
              deleter' = [deleter EXCEPT ![d] =
                [Resting EXCEPT !.kind = "cleaner", !.ids = ids, !.step = "links", !.marks = TRUE]]
        BY <2>1, <3>3 DEF StartCleaner
      <4> DEFINE x == [Resting EXCEPT !.kind = "cleaner", !.ids = ids, !.step = "links", !.marks = TRUE]
      <4>2. x \in Deleter /\ x.step = "links"
        BY RestingOK DEF Deleter, Outstanding
      <4> HIDE DEF x
      <4>3. deleter' = [deleter EXCEPT ![d] = x]
        BY <4>1 DEF x
      <4> QED  BY <2>0, <3>1, <4>2, <4>3, OneDeleterMoves
    <3> QED  BY <3>2, <3>3
  <2>2. CASE FindLinks(d) \/ DeleteFile(d)
    <3>1. PICK s \in {"data", "orphans", "unlink"} : Step(d, s)
      BY <2>2 DEF FindLinks, DeleteFile, StepAfter
    <3> DEFINE x == [deleter[d] EXCEPT !.step = s]
    <3>2. x \in Deleter /\ x.step = s
      BY <2>0 DEF Deleter
    <3>3. deleter' = [deleter EXCEPT ![d] = x]
      BY <1>0, <3>1 DEF Step, DeletionTypes
    <3>4. UNCHANGED <<data, pending, jobs, requests, unlucky>>
      BY <2>2 DEF FindLinks, DeleteFile, requestVars
    <3> HIDE DEF x
    <3> QED  BY <2>0, <3>2, <3>3, <3>4, OneDeleterMoves
  <2>3. CASE CheckOrphans(d)
    <3> DEFINE o == IsOrphan(deleter[d].ids)
               s == StepAfter("orphans", o)
               x == [deleter[d] EXCEPT !.step = s, !.orphan = o]
    <3>1. o \in BOOLEAN /\ s \in {"file", "unlink"}
      BY DEF IsOrphan, StepAfter
    <3>2. deleter' = [deleter EXCEPT ![d] = x] /\ UNCHANGED <<data, pending, jobs, requests, unlucky>>
      BY <1>0, <2>3 DEF CheckOrphans, requestVars, DeletionTypes
    <3> HIDE DEF o, s
    <3>3. x \in Deleter /\ x.step = s
      BY <2>0, <3>1 DEF Deleter
    <3> HIDE DEF x
    <3> QED  BY <2>0, <3>1, <3>2, <3>3, OneDeleterMoves
  <2>4. CASE Unlink(d)
    <3>1. UNCHANGED <<data, pending, jobs, requests, unlucky>>
      BY <2>4 DEF Unlink, requestVars
    <3> DEFINE x == [deleter[d] EXCEPT !.step = "data", !.orphan = FALSE, !.beaten = FALSE]
    <3>2. StepAfter("unlink", deleter[d].orphan) = "data"
      BY DEF StepAfter
    <3>3. /\ DOMAIN deleter' = Deleters /\ deleter'[d] = x
          /\ \A e \in Deleters : e # d => deleter'[e] \in {deleter[e], [deleter[e] EXCEPT !.beaten = TRUE]}
      BY <2>4, <3>2 DEF Unlink
    <3>4. deleter' = [e \in Deleters |-> deleter'[e]]
      BY <2>4 DEF Unlink
    <3>5. x \in Deleter /\ x.step = "data"
      BY <2>0 DEF Deleter
    <3> HIDE DEF x
    <3>6. ASSUME NEW e \in Deleters, e # d
          PROVE  /\ deleter'[e] \in Deleter /\ deleter'[e].step = deleter[e].step
                 /\ deleter'[e].ids = deleter[e].ids /\ deleter'[e].since = deleter[e].since
      <4> DEFINE y == [deleter[e] EXCEPT !.beaten = TRUE]
      <4>1. /\ deleter[e] \in Deleter /\ y \in Deleter /\ y.step = deleter[e].step
            /\ y.ids = deleter[e].ids /\ y.since = deleter[e].since
        BY <1>0 DEF Deleter
      <4>2. deleter'[e] = deleter[e] \/ deleter'[e] = y
        BY <3>3, <3>6
      <4> HIDE DEF y
      <4> QED  BY <4>1, <4>2
    <3>7. deleter' \in [Deleters -> Deleter]
      BY <3>3, <3>4, <3>5, <3>6
    <3> QED  BY <2>0, <3>1, <3>3, <3>5, <3>6, <3>7, NothingMarked
  <2>5. CASE DeleteData(d)
    <3>1. /\ data' = [t \in Traces |-> IF t \in deleter[d].ids THEN "none" ELSE data[t]]
          /\ UNCHANGED <<pending, jobs, requests, unlucky>>
      BY <2>5 DEF DeleteData, requestVars
    <3>2. PICK x \in {Resting, [deleter[d] EXCEPT !.step = "mark"]} : deleter' = [deleter EXCEPT ![d] = x]
      <4>1. CASE Rest(d)
        BY <4>1 DEF Rest
      <4>2. CASE Step(d, "mark")
        BY <1>0, <4>2 DEF Step, DeletionTypes
      <4> QED  BY <2>5, <4>1, <4>2 DEF DeleteData
    <3>3. x \in Deleter /\ (x.step = "mark" => x.ids = deleter[d].ids)
      BY <2>0, RestingOK DEF Deleter
    <3>4. /\ deleter' \in [Deleters -> Deleter] /\ deleter'[d] = x
          /\ \A e \in Deleters : e # d => deleter'[e] = deleter[e]
      BY <1>0, <3>2, <3>3 DEF DeletionTypes
    <3>5. data' \in [Traces -> {"none", "kept", "doomed"}]
      BY <1>0, <3>1 DEF DeletionTypes
    <3>6. \A t \in Traces : data'[t] = "doomed" => data[t] = "doomed" /\ t \notin deleter[d].ids
      BY <1>0, <3>1 DEF DeletionTypes
    <3>7. DeletionTypes' /\ MarkedWasDeleted'
      BY <1>0, <3>1, <3>4, <3>5, <3>6 DEF DeletionInv, DeletionTypes, MarkedWasDeleted
    <3>8. ASSUME NEW e \in Deleters, deleter'[e].step = "mark", NEW t \in deleter'[e].ids, data'[t] = "doomed"
          PROVE  t \in deleter'[e].since
      <4>1. t \in Traces
        BY <3>4, <3>8 DEF Deleter
      <4> QED  BY <3>3, <3>4, <3>6, <3>8, <4>1 DEF DeletionInv
    <3> QED  BY <3>7, <3>8 DEF DeletionInv
  <2>6. CASE Mark(d)
    <3> DEFINE marked == IF deleter[d].marks /\ ~deleter[d].failed THEN Marked(d) ELSE {}
    <3>1. /\ deleter[d].step = "mark"
          /\ pending' = [t \in Traces |-> IF t \in marked THEN 0 ELSE pending[t]]
          /\ unlucky' = unlucky \cup (marked \cap deleter[d].since)
          /\ deleter' = [deleter EXCEPT ![d] = Resting]
          /\ UNCHANGED <<data, jobs, requests>>
      BY <2>6 DEF Mark, Rest
    <3>2. marked \subseteq deleter[d].ids
      BY DEF Marked
    <3> HIDE DEF marked
    <3>3. /\ deleter' \in [Deleters -> Deleter] /\ deleter'[d] = Resting
          /\ \A e \in Deleters : e # d => deleter'[e] = deleter[e]
      BY <1>0, <3>1, RestingOK DEF DeletionTypes
    <3>4. DeletionTypes'
      BY <1>0, <3>1, <3>3 DEF DeletionTypes
    <3>5. ASSUME NEW t \in Traces, data'[t] = "doomed", pending'[t] = 0 PROVE t \in unlucky'
      <4>1. CASE t \in marked
        BY <3>1, <3>2, <3>5, <4>1 DEF DeletionInv
      <4>2. CASE t \notin marked
        BY <3>1, <3>5, <4>2 DEF DeletionInv, MarkedWasDeleted
      <4> QED  BY <4>1, <4>2
    <3>6. ASSUME NEW e \in Deleters, deleter'[e].step = "mark", NEW t \in deleter'[e].ids, data'[t] = "doomed"
          PROVE  t \in deleter'[e].since
      BY <3>1, <3>3, <3>6, RestingOK DEF DeletionInv
    <3> QED  BY <3>4, <3>5, <3>6 DEF DeletionInv, MarkedWasDeleted
  <2> QED  BY <1>5, <2>1, <2>2, <2>3, <2>4, <2>5, <2>6 DEF CleanerSteps
<1>6. ASSUME NEW d \in Deleters, PostgresFails(d) PROVE DeletionInv'
  <2> DEFINE x == [deleter[d] EXCEPT !.kind = "stray", !.job = Resting.job]
             y == [deleter[d] EXCEPT !.failed = TRUE]
  <2>1. UNCHANGED <<data, pending, requests, unlucky>> /\ requests' \in Nat
    BY <1>0, <1>6 DEF PostgresFails, DeletionTypes
  <2>2. deleter' = [deleter EXCEPT ![d] = x] \/ deleter' = [deleter EXCEPT ![d] = y]
    BY <1>0, <1>6 DEF PostgresFails, DeletionTypes
  <2>3. jobs' \subseteq Job
    BY <1>0, <1>6, RetriedJobs DEF PostgresFails, DeletionTypes
  <2>4. Resting.job \in Job
    BY RestingOK DEF Deleter
  <2>5. /\ x \in Deleter /\ x.step = deleter[d].step /\ x.ids = deleter[d].ids /\ x.since = deleter[d].since
        /\ y \in Deleter /\ y.step = deleter[d].step /\ y.ids = deleter[d].ids /\ y.since = deleter[d].since
    BY <1>0, <2>4 DEF Deleter
  <2> HIDE DEF x, y
  <2> QED  BY <2>1, <2>2, <2>3, <2>5, OneDeleterMoves
<1>7. ASSUME NEW d \in Deleters, ClickhouseFails(d) \/ DeleterDies(d) PROVE DeletionInv'
  <2>1. /\ UNCHANGED <<data, pending, requests, unlucky>> /\ requests' \in Nat
        /\ deleter' = [deleter EXCEPT ![d] = Resting]
    BY <1>0, <1>7 DEF ClickhouseFails, DeleterDies, Rest, DeletionTypes
  <2>2. jobs' \subseteq Job
    BY <1>0, <1>7, RetriedJobs DEF ClickhouseFails, DeleterDies, DeletionTypes
  <2> QED  BY <2>1, <2>2, RestingOK, OneDeleterMoves
<1>8. CASE UNCHANGED deletionVars
  BY <1>0, <1>8, NothingMarked DEF deletionVars, requestVars, DeletionTypes
<1> QED  BY <1>1, <1>2, <1>3, <1>4, <1>5, <1>6, <1>7, <1>8 DEF DeletionNext

(* It holds at first. *)
LEMMA DeletionInvHolds == DeletionInit => DeletionInv
  BY RestingOK DEF DeletionInit, DeletionInv, DeletionTypes, MarkedWasDeleted

(* src/worker/src/queues/traceDelete.ts and                                *)
(* src/worker/src/features/batch-trace-deletion-cleaner/index.ts: jobs and *)
(* cleaners take the same rows, fail with a deletion still running, and    *)
(* mark by trace id; a row is never marked for data that is left, unless   *)
(* it was asked for between the deletion and the mark.                     *)
THEOREM NothingMarkedUndeleted == DeletionSpec => []MarkedWasDeleted
<1>1. DeletionInv => MarkedWasDeleted
  BY DEF DeletionInv
<1> QED  BY <1>1, DeletionInvHolds, DeletionInvKept, PTL DEF DeletionSpec

-----------------------------------------------------------------------------
(* Files and references. *)

(* What is stored about the file. *)
MediaTypes ==
  /\ links \subseteq Traces
  /\ upload \in [Traces -> {"none", "sending", "confirming", "linking", "ended"}]
  /\ mediaRow \in {"none", "new", "uploaded"}
  /\ file \in BOOLEAN /\ raced \in BOOLEAN /\ outrun \in BOOLEAN

(* Nobody uploads. *)
Quiet == \A t \in Traces : upload[t] \in {"none", "ended"}

(* What a job may still delete is pending. *)
JobPending(job) == \A t \in job.traces \ everDeleted : pending[t] > 0

(* An upload finds the row, and the file it has sent. *)
UploadMedia(t) ==
  /\ upload[t] = "sending" => mediaRow # "none"
  /\ upload[t] = "confirming" => mediaRow # "none" /\ file
  /\ upload[t] = "linking" => mediaRow = "uploaded" /\ file

(* Who refers to the file, and is not to be deleted, finds it. *)
LinkMedia(t) == t \in links /\ pending[t] = 0 => file /\ mediaRow = "uploaded"

(* Who deletes has removed the references of its traces before it deletes  *)
(* their data, and those that are left are of traces which remain pending. *)
DeleterLinks(d) ==
  /\ deleter[d].step \in {"data", "mark"} => links \cap deleter[d].ids = {}
  /\ \A t \in links \cap deleter[d].ids : pending[t] > 0
  /\ JobPending(deleter[d].job)

(* Who removes the file has all that refer to it, and nobody uploads.  Who *)
(* does not has seen another reference, which is there until somebody else *)
(* removes it.                                                             *)
DeleterFile(d) ==
  LET ids == deleter[d].ids
      step == deleter[d].step
  IN  /\ step = "file" => deleter[d].orphan = TRUE
      /\ deleter[d].orphan = TRUE => links \subseteq ids /\ Quiet /\ step \in {"file", "unlink"}
      /\ deleter[d].orphan = TRUE /\ step = "unlink" => file = FALSE
      /\ step = "unlink" /\ deleter[d].orphan = FALSE /\ deleter[d].beaten = FALSE /\ file = TRUE /\ Quiet =>
           ~(links \subseteq ids)

(* All of it together. *)
MediaOK ==
  /\ \A job \in jobs : JobPending(job)
  /\ \A t \in Traces : UploadMedia(t) /\ LinkMedia(t)
  /\ \A d \in Deleters : DeleterLinks(d) /\ DeleterFile(d)
  /\ mediaRow = "none" => file = FALSE
  /\ file = TRUE /\ Quiet /\ links = {} => outrun = TRUE

(* The inductive invariant of the file. *)
MediaInv ==
  /\ MediaTypes
  /\ raced = FALSE => MediaOK

(* What a deleter may become, that is not of its own doing. *)
SameBut(d, beaten) ==
  /\ deleter'[d].step = deleter[d].step /\ deleter'[d].ids = deleter[d].ids
  /\ deleter'[d].job = deleter[d].job /\ deleter'[d].orphan = deleter[d].orphan
  /\ deleter'[d].beaten = beaten

(* A deleter at rest holds nothing. *)
LEMMA RestingMedia ==
  ASSUME NEW d \in Deleters, deleter'[d] = Resting
  PROVE  DeleterLinks(d)' /\ DeleterFile(d)'
<1>1. /\ Resting.step = "none" /\ Resting.ids = {} /\ Resting.orphan = FALSE
      /\ Resting.job.traces = {}
  BY DEF Resting
<1>2. JobPending(deleter[d].job)'
  BY <1>1 DEF JobPending
<1>3. DeleterLinks(d)'
  BY <1>1, <1>2 DEF DeleterLinks
<1>4. DeleterFile(d)'
  BY <1>1 DEF DeleterFile
<1> QED  BY <1>3, <1>4

(* Steps that leave references, file and uploads alone, and what is pending. *)
LEMMA MediaStays ==
  ASSUME MediaOK, UNCHANGED <<links, mediaRow, file, upload, outrun, pending, everDeleted>>,
         \A job \in jobs' : JobPending(job),
         \A e \in Deleters : deleter'[e] = deleter[e] \/ SameBut(e, deleter[e].beaten)
                               \/ (DeleterLinks(e)' /\ DeleterFile(e)')
  PROVE  MediaOK'
<1>1. Quiet' <=> Quiet
  BY DEF Quiet
<1>2. ASSUME NEW job \in jobs' PROVE JobPending(job)'
  BY DEF JobPending
<1>3. ASSUME NEW t \in Traces PROVE UploadMedia(t)' /\ LinkMedia(t)'
  BY DEF MediaOK, UploadMedia, LinkMedia
<1>4. ASSUME NEW e \in Deleters PROVE DeleterLinks(e)' /\ DeleterFile(e)'
  <2>1. CASE deleter'[e] = deleter[e] \/ SameBut(e, deleter[e].beaten)
    <3>1. SameBut(e, deleter[e].beaten)
      BY <2>1 DEF SameBut
    <3>2. JobPending(deleter[e].job)'
      BY <3>1 DEF MediaOK, DeleterLinks, JobPending, SameBut
    <3>3. DeleterLinks(e)'
      BY <3>1, <3>2 DEF MediaOK, DeleterLinks, SameBut
    <3>4. DeleterFile(e)'
      BY <1>1, <3>1 DEF MediaOK, DeleterFile, SameBut
    <3> QED  BY <3>3, <3>4
  <2> QED  BY <2>1
<1> QED  BY <1>1, <1>2, <1>3, <1>4 DEF MediaOK

(* A job that comes back has the same traces. *)
LEMMA JobsStayPending ==
  ASSUME MediaOK, NEW job \in Job, JobPending(job)
  PROVE  \A other \in JobsAfterFailure(job) : JobPending(other)
<1>1. [job EXCEPT !.attempts = @ + 1].traces = job.traces
  BY DEF Job
<1> QED  BY <1>1 DEF JobsAfterFailure, JobPending, MediaOK

(* Uploads; one that is under way rules out that anybody removes the file, *)
(* and one that ends refers to what it has found or sent.                  *)
LEMMA LookupKeeps ==
  ASSUME MediaTypes, MediaOK, NEW t \in Traces, Lookup(t), raced' = FALSE
  PROVE  MediaOK'
<1>1. /\ upload' = [upload EXCEPT ![t] = IF mediaRow = "uploaded" THEN "linking" ELSE "sending"]
      /\ mediaRow' = IF mediaRow = "none" THEN "new" ELSE mediaRow
      /\ UNCHANGED <<jobs, pending, everDeleted, deleter, links, file, outrun>>
  BY DEF Lookup, requestVars
<1>2. ~Removing
  <2>1. raced' = (raced \/ Removing)
    BY DEF Lookup
  <2> QED  BY <2>1, Zenon
<1>3. mediaRow = "uploaded" => file = TRUE
  BY <1>2 DEF Removing, MediaTypes
<1>4. ~Quiet'
  BY <1>1 DEF Quiet, MediaTypes
<1>5. ASSUME NEW u \in Traces PROVE UploadMedia(u)' /\ LinkMedia(u)'
  BY <1>1, <1>3 DEF MediaOK, MediaTypes, UploadMedia, LinkMedia
<1>6. ASSUME NEW d \in Deleters PROVE DeleterLinks(d)' /\ DeleterFile(d)'
  <2>1. ~(deleter[d].orphan = TRUE)
    BY <1>2 DEF Removing
  <2>2. DeleterLinks(d)'
    BY <1>1 DEF MediaOK, DeleterLinks, JobPending
  <2>3. DeleterFile(d)'
    BY <1>1, <1>4, <2>1 DEF MediaOK, DeleterFile
  <2> QED  BY <2>2, <2>3
<1>7. ASSUME NEW job \in jobs' PROVE JobPending(job)'
  BY <1>1 DEF MediaOK, JobPending
<1>8. mediaRow' # "none"
  BY <1>1
<1> QED  BY <1>4, <1>5, <1>6, <1>7, <1>8 DEF MediaOK

(* What is sent is there, and the row with it. *)
LEMMA SendKeeps ==
  ASSUME MediaTypes, MediaOK, NEW t \in Traces, Send(t) \/ Confirm(t)
  PROVE  MediaOK'
<1>1. /\ upload[t] \in {"sending", "confirming"} /\ mediaRow # "none"
      /\ upload' = [upload EXCEPT ![t] = IF upload[t] = "sending" THEN "confirming" ELSE "linking"]
      /\ file' = TRUE
      /\ mediaRow' = IF upload[t] = "sending" THEN mediaRow ELSE "uploaded"
      /\ UNCHANGED <<jobs, pending, everDeleted, deleter, links, outrun>>
  <2>1. UploadMedia(t)
    BY DEF MediaOK
  <2>2. CASE Send(t)
    BY <2>1, <2>2 DEF Send, UploadMedia, requestVars
  <2>3. CASE Confirm(t)
    <3>1. upload[t] = "confirming" /\ mediaRow # "none" /\ file = TRUE
      BY <2>1, <2>3 DEF Confirm, UploadMedia, MediaTypes
    <3> QED  BY <2>3, <3>1 DEF Confirm, requestVars
  <2> QED  BY <2>2, <2>3
<1>2. ~Quiet
  BY <1>1 DEF Quiet
<1>3. ~Quiet'
  BY <1>1 DEF Quiet, MediaTypes
<1>4. ASSUME NEW u \in Traces PROVE UploadMedia(u)' /\ LinkMedia(u)'
  BY <1>1 DEF MediaOK, MediaTypes, UploadMedia, LinkMedia
<1>5. ASSUME NEW d \in Deleters PROVE DeleterLinks(d)' /\ DeleterFile(d)'
  <2>1. ~(deleter[d].orphan = TRUE)
    BY <1>2 DEF MediaOK, DeleterFile
  <2>2. DeleterLinks(d)'
    BY <1>1 DEF MediaOK, DeleterLinks, JobPending
  <2>3. DeleterFile(d)'
    BY <1>1, <1>3, <2>1 DEF MediaOK, DeleterFile
  <2> QED  BY <2>2, <2>3
<1>6. ASSUME NEW job \in jobs' PROVE JobPending(job)'
  BY <1>1 DEF MediaOK, JobPending
<1>7. mediaRow' # "none"
  BY <1>1
<1> QED  BY <1>3, <1>4, <1>5, <1>6, <1>7 DEF MediaOK

(* A reference is made to a file that is there, for a trace nobody deletes. *)
LEMMA LinkKeeps ==
  ASSUME MediaTypes, MediaOK, NEW t \in Traces, Link(t), raced' = FALSE,
         pending \in [Traces -> Nat]
  PROVE  MediaOK'
<1>1. /\ upload[t] = "linking" /\ upload' = [upload EXCEPT ![t] = "ended"]
      /\ links' = links \cup {t}
      /\ UNCHANGED <<jobs, pending, everDeleted, deleter, mediaRow, file, outrun>>
  BY DEF Link, requestVars
<1>2. ~BeingDeleted(t)
  <2>1. raced' = (raced \/ BeingDeleted(t))
    BY DEF Link
  <2> QED  BY <2>1, Zenon
<1>3. \A d \in Deleters : t \notin deleter[d].ids
  BY <1>2 DEF BeingDeleted
<1>4. ~Quiet /\ mediaRow = "uploaded" /\ file = TRUE
  BY <1>1 DEF Quiet, MediaOK, UploadMedia, MediaTypes
<1>5. ASSUME NEW u \in Traces PROVE UploadMedia(u)' /\ LinkMedia(u)'
  BY <1>1, <1>4 DEF MediaOK, MediaTypes, UploadMedia, LinkMedia
<1>6. ASSUME NEW d \in Deleters PROVE DeleterLinks(d)' /\ DeleterFile(d)'
  <2>1. ~(deleter[d].orphan = TRUE)
    BY <1>4 DEF MediaOK, DeleterFile
  <2>2. DeleterLinks(d)'
    BY <1>1, <1>3 DEF MediaOK, DeleterLinks, JobPending
  <2>3. ~(links' \subseteq deleter[d].ids)
    BY <1>1, <1>3
  <2>4. DeleterFile(d)'
    BY <1>1, <2>1, <2>3 DEF MediaOK, DeleterFile
  <2> QED  BY <2>2, <2>4
<1>7. ASSUME NEW job \in jobs' PROVE JobPending(job)'
  BY <1>1 DEF MediaOK, JobPending
<1>8. mediaRow' # "none" /\ links' # {}
  BY <1>1, <1>4
<1> QED  BY <1>5, <1>6, <1>7, <1>8 DEF MediaOK

(* traceDeletionProcessor: what is asked for is pending. *)
LEMMA RequestKeeps ==
  ASSUME DeletionTypes, MediaOK, NEW ts \in SUBSET Traces, RequestDeletion(ts)
  PROVE  MediaOK'
<1>1. /\ pending' = [t \in Traces |-> IF t \in ts THEN pending[t] + 1 ELSE pending[t]]
      /\ jobs' \subseteq jobs \cup {[id |-> requests', traces |-> ts, attempts |-> 0]}
      /\ UNCHANGED <<everDeleted, links, mediaRow, file, upload, outrun>>
  BY DEF RequestDeletion, mediaVars
<1>2. \A t \in Traces : /\ pending[t] > 0 => pending'[t] > 0
                        /\ t \in ts => pending'[t] > 0
                        /\ pending'[t] = 0 => pending[t] = 0
  BY <1>1 DEF DeletionTypes
<1>3. ASSUME NEW d \in Deleters
      PROVE  /\ SameBut(d, deleter[d].beaten)
             /\ deleter[d].ids \subseteq Traces /\ deleter[d].job.traces \subseteq Traces
  <2>1. deleter'[d] = IF deleter[d].step = "mark" THEN [deleter[d] EXCEPT !.since = deleter[d].since \cup ts]
                      ELSE deleter[d]
    BY DEF RequestDeletion
  <2>2. deleter[d] \in Deleter
    BY DEF DeletionTypes
  <2> QED  BY <2>1, <2>2 DEF SameBut, Deleter, Job
<1>4. Quiet' <=> Quiet
  BY <1>1 DEF Quiet
<1>5. ASSUME NEW u \in Traces PROVE UploadMedia(u)' /\ LinkMedia(u)'
  BY <1>1, <1>2 DEF MediaOK, UploadMedia, LinkMedia
<1>6. ASSUME NEW d \in Deleters PROVE DeleterLinks(d)' /\ DeleterFile(d)'
  <2>1. JobPending(deleter[d].job)'
    BY <1>1, <1>2, <1>3 DEF MediaOK, DeleterLinks, JobPending, SameBut
  <2>2. DeleterLinks(d)'
    BY <1>1, <1>2, <1>3, <2>1 DEF MediaOK, DeleterLinks, SameBut
  <2>3. DeleterFile(d)'
    BY <1>1, <1>3, <1>4 DEF MediaOK, DeleterFile, SameBut
  <2> QED  BY <2>2, <2>3
<1>7. ASSUME NEW job \in jobs' PROVE JobPending(job)'
  <2>1. CASE job \in jobs
    <3>1. JobPending(job) /\ job.traces \subseteq Traces
      BY <2>1 DEF MediaOK, DeletionTypes, Job
    <3> QED  BY <1>1, <1>2, <3>1 DEF JobPending
  <2>2. CASE job.traces = ts
    BY <1>2, <2>2 DEF JobPending
  <2> QED  BY <1>1, <2>1, <2>2
<1> QED  BY <1>1, <1>4, <1>5, <1>6, <1>7 DEF MediaOK

(* What a deleter takes is pending. *)
LEMMA StartKeeps ==
  ASSUME DeletionTypes, MediaOK, NEW d \in Deleters,
         StartCleaner(d) \/ \E job \in jobs : StartJob(d, job)
  PROVE  MediaOK'
<1>1. UNCHANGED <<links, mediaRow, file, upload, outrun, pending, everDeleted>> /\ jobs' \subseteq jobs
  BY DEF StartCleaner, StartJob, mediaVars, requestVars
<1>2. \A job \in jobs' : JobPending(job)
  BY <1>1 DEF MediaOK
<1>3. CASE deleter' = deleter
  BY <1>1, <1>2, <1>3, MediaStays
<1>4. ASSUME NEW job \in Job, JobPending(job), NEW ids, \A t \in ids : pending[t] > 0,
             NEW kind, NEW marks,
             deleter' = [deleter EXCEPT ![d] =
               [Resting EXCEPT !.kind = kind, !.job = job, !.ids = ids, !.step = "links", !.marks = marks]]
      PROVE  MediaOK'
  <2> DEFINE x == [Resting EXCEPT !.kind = kind, !.job = job, !.ids = ids, !.step = "links", !.marks = marks]
  <2>1. x.job = job /\ x.ids = ids /\ x.step = "links" /\ x.orphan = FALSE
    BY DEF Resting
  <2>2. deleter' = [deleter EXCEPT ![d] = x]
    BY <1>4
  <2> HIDE DEF x
  <2>3. deleter'[d] = x /\ \A e \in Deleters : e # d => deleter'[e] = deleter[e]
    BY <2>2 DEF DeletionTypes
  <2>4. JobPending(deleter[d].job)'
    BY <1>1, <1>4, <2>1, <2>3 DEF JobPending
  <2>5. DeleterLinks(d)' /\ DeleterFile(d)'
    BY <1>1, <1>4, <2>1, <2>3, <2>4 DEF DeleterLinks, DeleterFile
  <2> QED  BY <1>1, <1>2, <2>3, <2>5, MediaStays
<1>5. CASE StartCleaner(d) /\ deleter' # deleter
  <2>1. PICK ids \in SUBSET Outstanding :
          deleter' = [deleter EXCEPT ![d] =
            [Resting EXCEPT !.kind = "cleaner", !.ids = ids, !.step = "links", !.marks = TRUE]]
    BY <1>5 DEF StartCleaner
  <2>2. Resting.job \in Job /\ JobPending(Resting.job)
    BY RestingOK DEF Deleter, Resting, JobPending
  <2>3. [Resting EXCEPT !.kind = "cleaner", !.ids = ids, !.step = "links", !.marks = TRUE] =
        [Resting EXCEPT !.kind = "cleaner", !.job = Resting.job, !.ids = ids, !.step = "links", !.marks = TRUE]
    BY DEF Resting
  <2>4. \A t \in ids : pending[t] > 0
    BY DEF Outstanding
  <2> QED  BY <1>4, <2>1, <2>2, <2>3, <2>4
<1>6. ASSUME NEW job \in jobs, StartJob(d, job), deleter' # deleter PROVE MediaOK'
  <2>1. PICK ids \in SUBSET (Outstanding \cup (job.traces \ everDeleted)) :
          deleter' = [deleter EXCEPT ![d] =
            [Resting EXCEPT !.kind = "job", !.job = job, !.ids = ids, !.step = "links",
                            !.marks = Outstanding # {}]]
    BY <1>6 DEF StartJob, kSubset
  <2>2. job \in Job /\ JobPending(job)
    BY DEF MediaOK, DeletionTypes
  <2>3. \A t \in ids : pending[t] > 0
    BY <2>2 DEF JobPending, Outstanding
  <2> QED  BY <1>4, <2>1, <2>2, <2>3
<1> QED  BY <1>3, <1>5, <1>6

(* One deleter takes its next step x, and nothing else happens. *)
LEMMA StepKeeps ==
  ASSUME DeletionTypes, MediaOK, NEW d \in Deleters, NEW x,
         UNCHANGED <<jobs, links, mediaRow, file, upload, outrun, pending, everDeleted>>,
         deleter' = [deleter EXCEPT ![d] = x],
         deleter'[d] = x => DeleterLinks(d)' /\ DeleterFile(d)'
  PROVE  MediaOK'
<1>1. deleter'[d] = x /\ \A e \in Deleters : e # d => deleter'[e] = deleter[e]
  BY DEF DeletionTypes
<1>2. \A job \in jobs' : JobPending(job)
  BY DEF MediaOK
<1> QED  BY <1>1, <1>2, MediaStays

(* A deletion without references has none to remove. *)
LEMMA FindLinksKeeps ==
  ASSUME DeletionTypes, MediaOK, NEW d \in Deleters, FindLinks(d)
  PROVE  MediaOK'
<1> DEFINE s == IF links \cap deleter[d].ids = {} THEN "data" ELSE "orphans"
           x == [deleter[d] EXCEPT !.step = s]
<1>1. UNCHANGED <<jobs, links, mediaRow, file, upload, outrun, pending, everDeleted>>
      /\ deleter' = [deleter EXCEPT ![d] = x] /\ deleter[d].step = "links"
  BY DEF FindLinks, Step, requestVars, mediaVars, DeletionTypes
<1>2. x.step = s /\ x.ids = deleter[d].ids /\ x.job = deleter[d].job /\ x.orphan = deleter[d].orphan
  BY DEF DeletionTypes, Deleter
<1>3. DeleterLinks(d) /\ DeleterFile(d) /\ s \in {"data", "orphans"}
      /\ (s = "data" => links \cap deleter[d].ids = {})
  BY DEF MediaOK
<1> HIDE DEF s, x
<1>4. ASSUME deleter'[d] = x PROVE DeleterLinks(d)' /\ DeleterFile(d)'
  <2>1. JobPending(deleter[d].job)'
    BY <1>1, <1>2, <1>3, <1>4 DEF DeleterLinks, JobPending
  <2>2. DeleterLinks(d)'
    BY <1>1, <1>2, <1>3, <1>4, <2>1 DEF DeleterLinks
  <2>3. DeleterFile(d)'
    BY <1>1, <1>2, <1>3, <1>4 DEF DeleterFile
  <2> QED  BY <2>2, <2>3
<1> QED  BY <1>1, <1>4, StepKeeps

(* The file goes only if all that refer to it are to be deleted; else      *)
(* another reference has been seen.                                        *)
LEMMA CheckOrphansKeeps ==
  ASSUME DeletionTypes, MediaTypes, MediaOK, NEW d \in Deleters, CheckOrphans(d), raced' = FALSE
  PROVE  MediaOK'
<1> DEFINE ids == deleter[d].ids
           o == IsOrphan(ids)
           s == StepAfter("orphans", o)
           x == [deleter[d] EXCEPT !.step = s, !.orphan = o]
<1>1. /\ UNCHANGED <<jobs, links, mediaRow, file, upload, outrun, pending, everDeleted>>
      /\ deleter' = [deleter EXCEPT ![d] = x] /\ deleter[d].step = "orphans"
  BY DEF CheckOrphans, requestVars, DeletionTypes
<1>2. /\ o \in BOOLEAN /\ s = IF o THEN "file" ELSE "unlink"
      /\ o => links \subseteq ids
      /\ ~o => ~(links \subseteq ids) \/ file = FALSE
  BY DEF IsOrphan, StepAfter, MediaOK
<1>3. o => Quiet
  <2>1. raced' = (raced \/ (o /\ \E t \in Traces : upload[t] \notin {"none", "ended"}))
    BY DEF CheckOrphans
  <2>2. o => ~\E t \in Traces : upload[t] \notin {"none", "ended"}
    BY <2>1, Zenon
  <2> QED  BY <2>2 DEF Quiet
<1>4. DeleterLinks(d) /\ Quiet' = Quiet
  BY <1>1 DEF MediaOK, Quiet
<1>5. x.step = s /\ x.ids = ids /\ x.job = deleter[d].job /\ x.orphan = o
  <2> HIDE DEF s, o
  <2> QED  BY DEF DeletionTypes, Deleter
<1> HIDE DEF s, o, x
<1>6. ASSUME deleter'[d] = x PROVE DeleterLinks(d)' /\ DeleterFile(d)'
  <2>1. JobPending(deleter[d].job)'
    BY <1>1, <1>4, <1>5, <1>6 DEF DeleterLinks, JobPending
  <2>2. DeleterLinks(d)'
    BY <1>1, <1>2, <1>4, <1>5, <1>6, <2>1 DEF DeleterLinks
  <2>3. DeleterFile(d)'
    BY <1>1, <1>2, <1>3, <1>4, <1>5, <1>6 DEF DeleterFile
  <2> QED  BY <2>2, <2>3
<1> QED  BY <1>1, <1>6, StepKeeps

(* The file goes: all that refer to it are pending. *)
LEMMA DeleteFileKeeps ==
  ASSUME DeletionTypes, MediaTypes, MediaOK, NEW d \in Deleters, DeleteFile(d)
  PROVE  MediaOK'
<1> DEFINE x == [deleter[d] EXCEPT !.step = "unlink"]
<1>1. /\ UNCHANGED <<jobs, links, mediaRow, upload, outrun, pending, everDeleted>> /\ file' = FALSE
      /\ deleter' = [deleter EXCEPT ![d] = x] /\ deleter[d].step = "file"
  BY DEF DeleteFile, Step, StepAfter, requestVars, DeletionTypes
<1>2. x.step = "unlink" /\ x.ids = deleter[d].ids /\ x.job = deleter[d].job /\ x.orphan = deleter[d].orphan
  BY DEF DeletionTypes, Deleter
<1> HIDE DEF x
<1>3. deleter'[d] = x /\ \A e \in Deleters : e # d => deleter'[e] = deleter[e]
  BY <1>1 DEF DeletionTypes
<1>4. /\ DeleterLinks(d) /\ deleter[d].orphan = TRUE /\ links \subseteq deleter[d].ids /\ Quiet
      /\ \A t \in links : pending[t] > 0
  BY <1>1 DEF MediaOK, DeleterLinks, DeleterFile
<1>5. Quiet'
  BY <1>1, <1>4 DEF Quiet
<1>6. ASSUME NEW u \in Traces PROVE UploadMedia(u)' /\ LinkMedia(u)'
  <2>1. upload'[u] \in {"none", "ended"}
    BY <1>5 DEF Quiet
  <2> QED  BY <1>1, <1>4, <2>1 DEF UploadMedia, LinkMedia
<1>7. ASSUME NEW e \in Deleters PROVE DeleterLinks(e)' /\ DeleterFile(e)'
  <2>1. DeleterLinks(e) /\ DeleterFile(e)
    BY DEF MediaOK
  <2>2. JobPending(deleter[e].job)'
    BY <1>1, <1>2, <1>3, <2>1 DEF DeleterLinks, JobPending
  <2>3. DeleterLinks(e)'
    BY <1>1, <1>2, <1>3, <2>1, <2>2 DEF DeleterLinks
  <2>4. CASE e = d
    BY <1>1, <1>2, <1>3, <1>4, <1>5, <2>3, <2>4 DEF DeleterFile
  <2>5. CASE e # d
    BY <1>1, <1>3, <1>5, <2>1, <2>3, <2>5 DEF DeleterFile
  <2> QED  BY <2>4, <2>5
<1>8. ASSUME NEW job \in jobs' PROVE JobPending(job)'
  BY <1>1 DEF MediaOK, JobPending
<1> QED  BY <1>1, <1>6, <1>7, <1>8 DEF MediaOK

(* The references go.  Whoever deletes without the file, and has not been  *)
(* beaten to it, leaves another reference, and whoever deletes the file    *)
(* leaves neither.                                                         *)
LEMMA UnlinkKeeps ==
  ASSUME DeletionTypes, MediaTypes, MediaOK, NEW d \in Deleters, Unlink(d)
  PROVE  MediaOK'
<1> DEFINE ids == deleter[d].ids
           x == [deleter[d] EXCEPT !.step = "data", !.orphan = FALSE, !.beaten = FALSE]
<1>1. /\ deleter[d].step = "unlink" /\ links' = links \ ids
      /\ mediaRow' = IF deleter[d].orphan /\ links \ ids = {} THEN "none" ELSE mediaRow
      /\ UNCHANGED <<jobs, file, upload, pending, everDeleted>>
  BY DEF Unlink, requestVars
<1>2. deleter'[d] = x
  <2>1. StepAfter("unlink", deleter[d].orphan) = "data"
    BY DEF StepAfter
  <2> QED  BY <2>1 DEF Unlink
<1>3. x.step = "data" /\ x.ids = ids /\ x.job = deleter[d].job /\ x.orphan = FALSE
  BY DEF DeletionTypes, Deleter
<1>4. ASSUME NEW e \in Deleters, e # d
      PROVE  \/ SameBut(e, deleter[e].beaten) /\ ~(deleter[e].step = "unlink" /\ ~deleter[e].orphan)
             \/ SameBut(e, TRUE)
  <2> DEFINE y == [deleter[e] EXCEPT !.beaten = TRUE]
             others == {f \in Deleters \ {d} : deleter[f].step = "unlink" /\ ~deleter[f].orphan}
  <2>1. deleter'[e] = IF e \in others THEN y ELSE deleter[e]
    BY <1>4 DEF Unlink
  <2>2. /\ y.step = deleter[e].step /\ y.ids = deleter[e].ids /\ y.job = deleter[e].job
        /\ y.orphan = deleter[e].orphan /\ y.beaten = TRUE
    BY DEF DeletionTypes, Deleter
  <2> HIDE DEF y
  <2> QED  BY <1>4, <2>1, <2>2 DEF SameBut
<1> HIDE DEF x
<1>5. /\ DeleterLinks(d) /\ DeleterFile(d) /\ deleter[d].orphan \in BOOLEAN /\ deleter[d].beaten \in BOOLEAN
  BY DEF MediaOK, DeletionTypes, Deleter
<1>6. /\ deleter[d].orphan = TRUE => links' = {} /\ file = FALSE /\ Quiet
      /\ deleter[d].orphan = FALSE => mediaRow' = mediaRow
  BY <1>1, <1>5 DEF DeleterFile
<1>7. Quiet' <=> Quiet
  BY <1>1 DEF Quiet
<1>8. outrun = TRUE \/ deleter[d].beaten = TRUE => outrun' = TRUE
  <2>1. outrun' = (outrun \/ deleter[d].beaten)
    BY DEF Unlink
  <2> QED  BY <2>1, Zenon
<1>9. ASSUME NEW u \in Traces PROVE UploadMedia(u)' /\ LinkMedia(u)'
  <2>1. UploadMedia(u) /\ LinkMedia(u)
    BY DEF MediaOK
  <2>2. CASE deleter[d].orphan = FALSE
    BY <1>1, <1>6, <2>1, <2>2 DEF UploadMedia, LinkMedia
  <2>3. CASE deleter[d].orphan = TRUE
    <3>1. upload'[u] \in {"none", "ended"} /\ links' = {}
      BY <1>6, <1>7, <2>3 DEF Quiet
    <3> QED  BY <3>1 DEF UploadMedia, LinkMedia
  <2> QED  BY <1>5, <2>2, <2>3
<1>10. ASSUME NEW e \in Deleters PROVE DeleterLinks(e)' /\ DeleterFile(e)'
  <2>1. CASE e = d
    <3>1. JobPending(deleter[d].job)'
      BY <1>1, <1>2, <1>3, <1>5 DEF DeleterLinks, JobPending
    <3>2. DeleterLinks(d)'
      BY <1>1, <1>2, <1>3, <1>5, <3>1 DEF DeleterLinks
    <3>3. DeleterFile(d)'
      BY <1>2, <1>3 DEF DeleterFile
    <3> QED  BY <2>1, <3>2, <3>3
  <2>2. CASE e # d
    <3>1. DeleterLinks(e) /\ DeleterFile(e) /\ deleter[e].orphan \in BOOLEAN
      BY DEF MediaOK, DeletionTypes, Deleter
    <3>2. PICK beaten \in {deleter[e].beaten, TRUE} :
            SameBut(e, beaten) /\ (beaten = TRUE \/ ~(deleter[e].step = "unlink" /\ ~deleter[e].orphan))
      BY <1>4, <2>2
    <3>3. JobPending(deleter[e].job)'
      BY <1>1, <3>1, <3>2 DEF DeleterLinks, JobPending, SameBut
    <3>4. DeleterLinks(e)'
      BY <1>1, <3>1, <3>2, <3>3 DEF DeleterLinks, SameBut
    <3>5. DeleterFile(e)'
      BY <1>1, <1>7, <3>1, <3>2 DEF DeleterFile, SameBut
    <3> QED  BY <3>4, <3>5
  <2> QED  BY <2>1, <2>2
<1>11. ASSUME NEW job \in jobs' PROVE JobPending(job)'
  BY <1>1 DEF MediaOK, JobPending
<1>12. mediaRow' = "none" => file' = FALSE
  BY <1>1, <1>5, <1>6 DEF MediaOK
<1>13. file' = TRUE /\ Quiet' /\ links' = {} => outrun' = TRUE
  BY <1>1, <1>5, <1>6, <1>7, <1>8 DEF DeleterFile
<1> QED  BY <1>9, <1>10, <1>11, <1>12, <1>13 DEF MediaOK

(* The data of traces without references. *)
LEMMA DeleteDataKeeps ==
  ASSUME DeletionTypes, MediaOK, NEW d \in Deleters, DeleteData(d)
  PROVE  MediaOK'
<1> DEFINE x == [deleter[d] EXCEPT !.step = "mark"]
<1>1. /\ UNCHANGED <<jobs, links, mediaRow, file, upload, outrun, pending, everDeleted>>
      /\ deleter[d].step = "data"
      /\ deleter' = [deleter EXCEPT ![d] = Resting] \/ deleter' = [deleter EXCEPT ![d] = x]
  BY DEF DeleteData, Rest, Step, requestVars, mediaVars, DeletionTypes
<1>2. x.step = "mark" /\ x.ids = deleter[d].ids /\ x.job = deleter[d].job /\ x.orphan = deleter[d].orphan
  BY DEF DeletionTypes, Deleter
<1>3. DeleterLinks(d) /\ DeleterFile(d)
  BY DEF MediaOK
<1> HIDE DEF x
<1>4. ASSUME deleter'[d] = x PROVE DeleterLinks(d)' /\ DeleterFile(d)'
  <2>1. JobPending(deleter[d].job)'
    BY <1>1, <1>2, <1>3, <1>4 DEF DeleterLinks, JobPending
  <2>2. DeleterLinks(d)'
    BY <1>1, <1>2, <1>3, <1>4, <2>1 DEF DeleterLinks
  <2>3. DeleterFile(d)'
    BY <1>1, <1>2, <1>3, <1>4 DEF DeleterFile
  <2> QED  BY <2>2, <2>3
<1> QED  BY <1>1, <1>4, RestingMedia, StepKeeps

(* What is marked has no references. *)
LEMMA MarkKeeps ==
  ASSUME DeletionTypes, MediaOK, NEW d \in Deleters, Mark(d)
  PROVE  MediaOK'
<1> DEFINE marked == IF deleter[d].marks /\ ~deleter[d].failed THEN Marked(d) ELSE {}
<1>1. /\ deleter[d].step = "mark"
      /\ pending' = [t \in Traces |-> IF t \in marked THEN 0 ELSE pending[t]]
      /\ everDeleted' = everDeleted \cup marked
      /\ deleter' = [deleter EXCEPT ![d] = Resting]
      /\ UNCHANGED <<jobs, links, mediaRow, file, upload, outrun>>
  BY DEF Mark, Rest, mediaVars
<1>2. marked \subseteq deleter[d].ids
  BY DEF Marked
<1> HIDE DEF marked
<1>3. links \cap marked = {}
  BY <1>1, <1>2 DEF MediaOK, DeleterLinks
<1>4. /\ deleter'[d] = Resting
      /\ \A e \in Deleters : /\ e # d => deleter'[e] = deleter[e]
                             /\ deleter[e].ids \subseteq Traces /\ deleter[e].job.traces \subseteq Traces
  BY <1>1 DEF DeletionTypes, Deleter, Job
<1>5. Quiet' <=> Quiet
  BY <1>1 DEF Quiet
<1>6. ASSUME NEW u \in Traces PROVE UploadMedia(u)' /\ LinkMedia(u)'
  BY <1>1, <1>3 DEF MediaOK, UploadMedia, LinkMedia
<1>7. ASSUME NEW job, job.traces \subseteq Traces, JobPending(job) PROVE JobPending(job)'
  BY <1>1, <1>7 DEF JobPending
<1>8. ASSUME NEW e \in Deleters, e # d PROVE DeleterLinks(e)' /\ DeleterFile(e)'
  <2>1. DeleterLinks(e) /\ DeleterFile(e) /\ deleter'[e] = deleter[e]
    BY <1>4, <1>8 DEF MediaOK
  <2>2. JobPending(deleter[e].job)'
    <3>1. \A t \in deleter[e].job.traces \ everDeleted' : pending'[t] > 0
      BY <1>1, <1>4, <2>1 DEF DeleterLinks, JobPending
    <3> QED  BY <2>1, <3>1 DEF JobPending
  <2>3. \A t \in links' \cap deleter'[e].ids : pending'[t] > 0
    BY <1>1, <1>3, <1>4, <2>1 DEF DeleterLinks
  <2>4. DeleterLinks(e)'
    BY <1>1, <2>1, <2>2, <2>3 DEF DeleterLinks
  <2>5. DeleterFile(e)'
    BY <1>1, <1>5, <2>1 DEF DeleterFile
  <2> QED  BY <2>4, <2>5
<1>9. ASSUME NEW job \in jobs' PROVE JobPending(job)'
  BY <1>1, <1>7 DEF MediaOK, DeletionTypes, Job
<1> QED  BY <1>1, <1>4, <1>5, <1>6, <1>8, <1>9, RestingMedia DEF MediaOK

(* Failures and deaths: the job comes back, or goes on without.            *)
LEMMA FailuresKeep ==
  ASSUME DeletionTypes, MediaOK, NEW d \in Deleters,
         PostgresFails(d) \/ ClickhouseFails(d) \/ DeleterDies(d)
  PROVE  MediaOK'
<1>1. UNCHANGED <<links, mediaRow, file, upload, outrun, pending, everDeleted>>
  BY DEF PostgresFails, ClickhouseFails, DeleterDies, mediaVars
<1>2. deleter[d] \in Deleter /\ deleter[d].job \in Job /\ JobPending(deleter[d].job)
      /\ DeleterLinks(d) /\ DeleterFile(d)
  BY DEF MediaOK, DeletionTypes, Deleter, DeleterLinks
<1>3. jobs' \subseteq jobs \cup JobsAfterFailure(deleter[d].job) \cup {deleter[d].job}
  BY DEF PostgresFails, ClickhouseFails, DeleterDies
<1>4. \A job \in jobs' : JobPending(job)
  BY <1>2, <1>3, JobsStayPending DEF MediaOK
<1> DEFINE x == [deleter[d] EXCEPT !.kind = "stray", !.job = Resting.job]
           y == [deleter[d] EXCEPT !.failed = TRUE]
<1>5. PICK z \in {x, y, Resting} : deleter' = [deleter EXCEPT ![d] = z]
  BY DEF PostgresFails, ClickhouseFails, DeleterDies, Rest, DeletionTypes
<1>6. /\ x.step = deleter[d].step /\ x.ids = deleter[d].ids /\ x.job = Resting.job
      /\ x.orphan = deleter[d].orphan /\ x.beaten = deleter[d].beaten
      /\ y.step = deleter[d].step /\ y.ids = deleter[d].ids /\ y.job = deleter[d].job
      /\ y.orphan = deleter[d].orphan /\ y.beaten = deleter[d].beaten
  BY <1>2 DEF Deleter
<1> HIDE DEF x, y
<1>7. deleter'[d] = z /\ \A e \in Deleters : e # d => deleter'[e] = deleter[e]
  BY <1>5 DEF DeletionTypes
<1>8. CASE z = x
  <2>1. JobPending(deleter[d].job)'
    BY <1>6, <1>7, <1>8 DEF Resting, JobPending
  <2>2. DeleterLinks(d)'
    BY <1>1, <1>2, <1>6, <1>7, <1>8, <2>1 DEF DeleterLinks
  <2>3. Quiet' <=> Quiet
    BY <1>1 DEF Quiet
  <2>4. DeleterFile(d)'
    BY <1>1, <1>2, <1>6, <1>7, <1>8, <2>3 DEF DeleterFile
  <2> QED  BY <1>1, <1>4, <1>7, <2>2, <2>4, MediaStays
<1>9. CASE z = y
  <2>1. SameBut(d, deleter[d].beaten)
    BY <1>6, <1>7, <1>9 DEF SameBut
  <2> QED  BY <1>1, <1>4, <1>7, <2>1, MediaStays
<1>10. CASE z = Resting
  BY <1>1, <1>4, <1>7, <1>10, RestingMedia, MediaStays
<1> QED  BY <1>5, <1>8, <1>9, <1>10

(* Steps keep the types. *)
LEMMA MediaTypesKept ==
  ASSUME MediaTypes, DeletionTypes, [DeletionNext]_deletionVars
  PROVE  MediaTypes'
<1> USE DEF MediaTypes
<1>1. CASE \E t \in Traces : UploadSteps(t)
  <2>1. PICK t \in Traces : Lookup(t) \/ Send(t) \/ Confirm(t) \/ Link(t)
    BY <1>1 DEF UploadSteps
  <2>2. raced' \in BOOLEAN
    BY <2>1, Zenon DEF Lookup, Send, Confirm, Link
  <2> QED  BY <2>1, <2>2 DEF Lookup, Send, Confirm, Link
<1>2. ASSUME NEW d \in Deleters, CheckOrphans(d) PROVE MediaTypes'
  <2>1. raced' \in BOOLEAN
    BY <1>2, Zenon DEF CheckOrphans
  <2> QED  BY <1>2, <2>1 DEF CheckOrphans
<1>3. ASSUME NEW d \in Deleters, Unlink(d) PROVE MediaTypes'
  <2>1. outrun' \in BOOLEAN
    BY <1>3, Zenon DEF Unlink
  <2> QED  BY <1>3, <2>1 DEF Unlink
<1>4. ASSUME NEW d \in Deleters, DeleteFile(d) PROVE MediaTypes'
  BY <1>4 DEF DeleteFile
<1>5. CASE UNCHANGED mediaVars
  BY <1>5 DEF mediaVars
<1>6. \/ \E t \in Traces : UploadSteps(t)
      \/ \E d \in Deleters : CheckOrphans(d) \/ Unlink(d) \/ DeleteFile(d)
      \/ UNCHANGED mediaVars
  BY DEF DeletionNext, deletionVars, CleanerSteps, Ingest, RequestDeletion, StartJob, StartCleaner, FindLinks,
         DeleteData, Mark, PostgresFails, ClickhouseFails, DeleterDies
<1> QED  BY <1>1, <1>2, <1>3, <1>4, <1>5, <1>6

(* Every action keeps the invariant. *)
LEMMA MediaInvKept ==
  DeletionInv /\ MediaInv /\ [DeletionNext]_deletionVars => MediaInv'
<1> SUFFICES ASSUME DeletionInv, MediaInv, [DeletionNext]_deletionVars PROVE MediaInv'
  OBVIOUS
<1>1. MediaTypes /\ DeletionTypes /\ MediaTypes'
  BY MediaTypesKept DEF MediaInv, DeletionInv
<1>2. ASSUME raced' = FALSE PROVE MediaOK'
  <2>1. raced = FALSE
    <3>1. raced' = raced \/ \E x : raced' = (raced \/ x)
      BY DEF DeletionNext, deletionVars, CleanerSteps, Ingest, RequestDeletion, StartJob, StartCleaner, FindLinks,
             DeleteData, Mark, PostgresFails, ClickhouseFails, DeleterDies, UploadSteps, Lookup, Send, Confirm, Link,
             CheckOrphans, DeleteFile, Unlink, mediaVars
    <3> QED  BY <1>1, <1>2, <3>1 DEF MediaTypes
  <2>2. MediaOK
    BY <2>1 DEF MediaInv
  <2>3. ASSUME NEW t \in Traces, Ingest(t) PROVE MediaOK'
    BY <2>2, <2>3, MediaStays DEF Ingest, requestVars, mediaVars, MediaOK
  <2>4. ASSUME NEW t \in Traces, UploadSteps(t) PROVE MediaOK'
    BY <1>1, <1>2, <2>2, <2>4, LookupKeeps, SendKeeps, LinkKeeps DEF UploadSteps, DeletionTypes
  <2>5. ASSUME NEW ts \in SUBSET Traces, RequestDeletion(ts) PROVE MediaOK'
    BY <1>1, <2>2, <2>5, RequestKeeps
  <2>6. ASSUME NEW d \in Deleters, StartCleaner(d) \/ \E job \in jobs : StartJob(d, job) PROVE MediaOK'
    BY <1>1, <2>2, <2>6, StartKeeps
  <2>7. ASSUME NEW d \in Deleters,
               FindLinks(d) \/ CheckOrphans(d) \/ DeleteFile(d) \/ Unlink(d) \/ DeleteData(d) \/ Mark(d)
        PROVE  MediaOK'
    BY <1>1, <1>2, <2>2, <2>7, FindLinksKeeps, CheckOrphansKeeps, DeleteFileKeeps, UnlinkKeeps, DeleteDataKeeps,
       MarkKeeps
  <2>8. ASSUME NEW d \in Deleters, PostgresFails(d) \/ ClickhouseFails(d) \/ DeleterDies(d) PROVE MediaOK'
    BY <1>1, <2>2, <2>8, FailuresKeep
  <2>9. CASE UNCHANGED deletionVars
    BY <2>2, <2>9, MediaStays DEF deletionVars, requestVars, mediaVars, MediaOK
  <2> QED  BY <2>3, <2>4, <2>5, <2>6, <2>7, <2>8, <2>9 DEF DeletionNext, CleanerSteps
<1> QED  BY <1>1, <1>2 DEF MediaInv

(* It holds at first. *)
LEMMA MediaInvHolds ==
  DeletionInit => MediaInv
<1> SUFFICES ASSUME DeletionInit PROVE MediaInv
  OBVIOUS
<1>1. file \in BOOLEAN /\ (links # {} => file = TRUE) /\ (links = {} => file = FALSE)
  <2>1. file = (links # {})
    BY DEF DeletionInit
  <2> QED  BY <2>1, Zenon
<1>2. MediaTypes
  BY <1>1 DEF DeletionInit, MediaTypes
<1>3. ASSUME NEW d \in Deleters PROVE DeleterLinks(d) /\ DeleterFile(d)
  <2>1. /\ deleter[d].step = "none" /\ deleter[d].ids = {} /\ deleter[d].orphan = FALSE
        /\ deleter[d].job.traces = {}
    BY DEF DeletionInit, Resting
  <2> QED  BY <2>1 DEF DeleterLinks, DeleterFile, JobPending
<1>4. ASSUME NEW t \in Traces PROVE UploadMedia(t) /\ LinkMedia(t)
  BY <1>1 DEF DeletionInit, UploadMedia, LinkMedia
<1>5. MediaOK
  BY <1>1, <1>3, <1>4 DEF DeletionInit, MediaOK
<1> QED  BY <1>2, <1>5 DEF MediaInv

(* Both invariants hold in every state. *)
LEMMA MediaInvAlways ==
  DeletionSpec => [](DeletionInv /\ MediaInv)
<1>1. DeletionInit => DeletionInv /\ MediaInv
  BY DeletionInvHolds, MediaInvHolds
<1>2. DeletionInv /\ MediaInv /\ [DeletionNext]_deletionVars => (DeletionInv /\ MediaInv)'
  BY DeletionInvKept, MediaInvKept
<1> QED  BY <1>1, <1>2, PTL DEF DeletionSpec

(* src/worker/src/features/traces/processClickhouseTraceDelete.ts and      *)
(* src/packages/shared/src/server/media/mediaService.ts: the file of a     *)
(* trace nobody wants deleted is there, whoever deletes another trace that *)
(* shares it, unless an upload met a deletion.                             *)
THEOREM SharedFilesAreKept == DeletionSpec => []FilesKept
<1>1. DeletionInv /\ MediaInv => FilesKept
  BY DEF MediaInv, MediaTypes, MediaOK, LinkMedia, FilesKept
<1> QED  BY <1>1, MediaInvAlways, PTL

(* ... and no file is left that nothing refers to, unless two deletions    *)
(* have each seen the other's reference.                                   *)
THEOREM NoFileIsOrphaned == DeletionSpec => []NoOrphans
<1>1. DeletionInv /\ MediaInv => NoOrphans
  BY DEF MediaInv, MediaTypes, MediaOK, Quiet, NoOrphans
<1> QED  BY <1>1, MediaInvAlways, PTL

-----------------------------------------------------------------------------

(* What the types say beyond the other invariants: no row and no job is of *)
(* a request that was not made, and no job has used up its attempts.       *)
JobWithin(job) == job.id <= requests /\ job.attempts < MaxAttempts

DeletionBounds ==
  /\ requests <= MaxDeletionRequests
  /\ \A t \in Traces : pending[t] <= requests
  /\ \A job \in jobs : JobWithin(job)
  /\ \A d \in Deleters : JobWithin(deleter[d].job)
  /\ everDeleted \subseteq Traces /\ unlucky \subseteq Traces
  /\ ingests \in 0..MaxIngests
  /\ deletionFaults \in 0..MaxDeletionFaults

(* What lost jobs leave behind are traces. *)
LeftAreTraces == leftBehind \subseteq Traces

(* That is all the types say. *)
LEMMA TypesOfDeletion == DeletionInv /\ MediaTypes /\ DeletionBounds /\ LeftAreTraces => DeletionTypeOK
<1> SUFFICES ASSUME DeletionInv, MediaTypes, DeletionBounds, LeftAreTraces PROVE DeletionTypeOK
  OBVIOUS
<1> DEFINE Jobs == [id : 0..MaxDeletionRequests, traces : SUBSET Traces, attempts : 0..(MaxAttempts - 1)]
           Slots == [kind : {"none", "job", "cleaner", "stray"}, job : Jobs, ids : SUBSET Traces,
                     step : {"none", "links", "orphans", "file", "unlink", "data", "mark"},
                     marks : BOOLEAN, failed : BOOLEAN, orphan : BOOLEAN, beaten : BOOLEAN,
                     since : SUBSET Traces]
<1>1. /\ DeletionTypes /\ MaxAttempts \in Nat \ {0} /\ MaxDeletionRequests \in Nat
      /\ requests \in Nat /\ requests <= MaxDeletionRequests
  BY DeletionAssumption DEF DeletionInv, DeletionBounds, DeletionTypes
<1>2. ASSUME NEW job \in Job, JobWithin(job) PROVE job \in Jobs
  <2>1. job.id \in 0..MaxDeletionRequests /\ job.attempts \in 0..(MaxAttempts - 1)
    BY <1>1, <1>2 DEF Job, JobWithin
  <2> QED  BY <2>1 DEF Job
<1>3. jobs \subseteq Jobs
  BY <1>1, <1>2 DEF DeletionBounds, DeletionTypes
<1>4. ASSUME NEW d \in Deleters PROVE deleter[d] \in Slots
  <2>1. deleter[d] \in Deleter /\ deleter[d].job \in Jobs
    BY <1>1, <1>2 DEF DeletionBounds, DeletionTypes, Deleter
  <2> HIDE DEF Jobs
  <2> QED  BY <2>1 DEF Deleter
<1>5. deleter \in [Deleters -> Slots]
  BY <1>1, <1>4 DEF DeletionTypes
<1>6. pending \in [Traces -> 0..MaxDeletionRequests]
  BY <1>1 DEF DeletionBounds, DeletionTypes
<1>7. {file, raced, outrun} \subseteq BOOLEAN
  BY Zenon DEF MediaTypes
<1>8. /\ data \in [Traces -> {"none", "kept", "doomed"}]
      /\ {everDeleted, links, unlucky, leftBehind} \subseteq SUBSET Traces
      /\ mediaRow \in {"none", "new", "uploaded"}
      /\ upload \in [Traces -> {"none", "sending", "confirming", "linking", "ended"}]
      /\ requests \in 0..MaxDeletionRequests
      /\ ingests \in 0..MaxIngests /\ deletionFaults \in 0..MaxDeletionFaults
  BY <1>1 DEF DeletionTypes, MediaTypes, DeletionBounds, LeftAreTraces
<1> QED  BY <1>3, <1>5, <1>6, <1>7, <1>8, Zenon DEF DeletionTypeOK

(* Without a request, rows are marked at most, and jobs move about.        *)
LEMMA BoundsStay ==
  ASSUME DeletionInv, DeletionBounds, requests' = requests,
         \A t \in Traces : pending'[t] \in {pending[t], 0},
         \A job \in jobs' : job \in jobs \/ JobWithin(job),
         \A d \in Deleters : deleter'[d].job = deleter[d].job \/ JobWithin(deleter'[d].job),
         everDeleted' \subseteq Traces, unlucky' \subseteq Traces,
         ingests' \in 0..MaxIngests, deletionFaults' \in 0..MaxDeletionFaults
  PROVE  DeletionBounds'
<1>1. requests \in Nat /\ \A job : JobWithin(job)' <=> JobWithin(job)
  BY DEF DeletionInv, DeletionTypes, JobWithin
<1>2. \A d \in Deleters : JobWithin(deleter[d].job)'
  BY DEF DeletionBounds, JobWithin
<1> QED  BY <1>1, <1>2 DEF DeletionBounds

(* Every action keeps the bounds. *)
LEMMA DeletionBoundsKept ==
  DeletionInv /\ DeletionBounds /\ [DeletionNext]_deletionVars => DeletionBounds'
<1> SUFFICES ASSUME DeletionInv, DeletionBounds, [DeletionNext]_deletionVars PROVE DeletionBounds'
  OBVIOUS
<1>0. /\ DeletionTypes /\ requests \in Nat /\ requests <= MaxDeletionRequests
      /\ {MaxDeletionRequests, MaxIngests, MaxDeletionFaults} \subseteq Nat
      /\ MaxAttempts \in Nat \ {0}
      /\ everDeleted \subseteq Traces /\ unlucky \subseteq Traces
      /\ ingests \in 0..MaxIngests /\ deletionFaults \in 0..MaxDeletionFaults
      /\ \A job \in jobs : JobWithin(job)
  BY DeletionAssumption DEF DeletionInv, DeletionBounds, DeletionTypes
<1>a. ASSUME NEW d \in Deleters
      PROVE  /\ deleter[d] \in Deleter /\ deleter[d].job \in Job /\ JobWithin(deleter[d].job)
             /\ JobWithin(Resting.job) /\ deleter[d].ids \subseteq Traces
  BY <1>0 DEF DeletionBounds, DeletionTypes, Deleter, JobWithin, Resting, NoJobId
<1>b. Occurs => deletionFaults' \in 0..MaxDeletionFaults
  BY <1>0 DEF Occurs
<1>c. ASSUME NEW d \in Deleters PROVE \A job \in JobsAfterFailure(deleter[d].job) : job \in jobs \/ JobWithin(job)
  <2> DEFINE retried == [deleter[d].job EXCEPT !.attempts = @ + 1]
  <2>1. ~LastAttempt(deleter[d].job) => JobWithin(retried)
    BY <1>0, <1>a DEF JobWithin, Job, LastAttempt
  <2> QED  BY <2>1 DEF JobsAfterFailure
<1>d. ASSUME NEW d \in Deleters, Rest(d) \/ \E step : Step(d, step)
      PROVE  \A e \in Deleters : deleter'[e].job = deleter[e].job \/ JobWithin(deleter'[e].job)
  <2>1. ASSUME NEW e \in Deleters
        PROVE  deleter'[e] = Resting \/ deleter'[e] = deleter[e] \/ deleter'[e].job = deleter[e].job
    BY <1>0, <1>a, <1>d DEF Rest, Step, DeletionTypes, Deleter
  <2> QED  BY <1>a, <2>1
<1>1. ASSUME NEW t \in Traces, Ingest(t) \/ UploadSteps(t) PROVE DeletionBounds'
  <2>1. UNCHANGED <<requestVars, deleter, unlucky, deletionFaults>>
    BY <1>1 DEF Ingest, UploadSteps, Lookup, Send, Confirm, Link
  <2>2. ingests' \in 0..MaxIngests
    BY <1>0, <1>1 DEF Ingest, UploadSteps, Lookup, Send, Confirm, Link
  <2> QED  BY <1>0, <2>1, <2>2, BoundsStay DEF requestVars
<1>2. ASSUME NEW ts \in SUBSET Traces, RequestDeletion(ts) PROVE DeletionBounds'
  <2>1. /\ requests' = requests + 1 /\ requests' <= MaxDeletionRequests
        /\ pending' = [t \in Traces |-> IF t \in ts THEN pending[t] + 1 ELSE pending[t]]
        /\ jobs' \subseteq jobs \cup {[id |-> requests', traces |-> ts, attempts |-> 0]}
        /\ UNCHANGED <<everDeleted, unlucky, ingests>>
    BY <1>0, <1>2 DEF RequestDeletion
  <2>2. deletionFaults' \in 0..MaxDeletionFaults
    BY <1>0, <1>2, <1>b DEF RequestDeletion
  <2>3. \A d \in Deleters : deleter'[d].job = deleter[d].job
    BY <1>a, <1>2 DEF RequestDeletion, Deleter
  <2>4. ASSUME NEW t \in Traces PROVE pending'[t] <= requests'
    BY <1>0, <2>1 DEF DeletionBounds, DeletionTypes
  <2>5. ASSUME NEW job \in jobs' PROVE JobWithin(job)'
    <3>1. CASE job \in jobs
      BY <1>0, <2>1, <3>1 DEF JobWithin, DeletionTypes, Job
    <3>2. CASE job = [id |-> requests', traces |-> ts, attempts |-> 0]
      BY <1>0, <2>1, <3>2 DEF JobWithin
    <3> QED  BY <2>1, <3>1, <3>2
  <2>6. ASSUME NEW d \in Deleters PROVE JobWithin(deleter[d].job)'
    BY <1>0, <1>a, <2>1, <2>3 DEF JobWithin, Job
  <2> QED  BY <1>0, <2>1, <2>2, <2>4, <2>5, <2>6 DEF DeletionBounds
<1>3. ASSUME NEW d \in Deleters, NEW job \in jobs, StartJob(d, job) PROVE DeletionBounds'
  <2>1. \/ deleter' = deleter
        \/ \E ids, marks : deleter' = [deleter EXCEPT ![d] =
             [Resting EXCEPT !.kind = "job", !.job = job, !.ids = ids, !.step = "links", !.marks = marks]]
    BY <1>3, Zenon DEF StartJob
  <2>2. \A e \in Deleters : deleter'[e].job = deleter[e].job \/ JobWithin(deleter'[e].job)
    BY <1>0, <2>1 DEF DeletionTypes, Resting
  <2>3. jobs' \subseteq jobs /\ UNCHANGED <<pending, everDeleted, requests, ingests, unlucky, deletionFaults>>
    BY <1>3 DEF StartJob
  <2> QED  BY <1>0, <2>2, <2>3, BoundsStay
<1>4. ASSUME NEW d \in Deleters, StartCleaner(d) PROVE DeletionBounds'
  <2>1. \/ deleter' = deleter
        \/ \E ids : deleter' = [deleter EXCEPT ![d] =
             [Resting EXCEPT !.kind = "cleaner", !.ids = ids, !.step = "links", !.marks = TRUE]]
    BY <1>4, Zenon DEF StartCleaner
  <2>2. \A e \in Deleters : deleter'[e].job = deleter[e].job \/ JobWithin(deleter'[e].job)
    BY <1>0, <1>a, <2>1 DEF DeletionTypes, Resting
  <2> QED  BY <1>0, <1>4, <2>2, BoundsStay DEF StartCleaner, requestVars
<1>5. ASSUME NEW d \in Deleters, FindLinks(d) \/ DeleteFile(d) \/ DeleteData(d) PROVE DeletionBounds'
  <2>1. UNCHANGED <<requestVars, ingests, unlucky, deletionFaults>> /\ (Rest(d) \/ \E step : Step(d, step))
    BY <1>5 DEF FindLinks, DeleteFile, DeleteData
  <2> QED  BY <1>0, <1>d, <2>1, BoundsStay DEF requestVars
<1>6. ASSUME NEW d \in Deleters, CheckOrphans(d) \/ Unlink(d) PROVE DeletionBounds'
  <2>1. \A e \in Deleters : deleter'[e].job = deleter[e].job
    <3>1. CASE CheckOrphans(d)
      BY <1>0, <1>a, <3>1 DEF CheckOrphans, DeletionTypes, Deleter
    <3>2. CASE Unlink(d)
      BY <1>0, <1>a, <3>2 DEF Unlink, DeletionTypes, Deleter
    <3> QED  BY <1>6, <3>1, <3>2
  <2>2. UNCHANGED <<requestVars, ingests, unlucky, deletionFaults>>
    BY <1>6 DEF CheckOrphans, Unlink
  <2> QED  BY <1>0, <2>1, <2>2, BoundsStay DEF requestVars
<1>7. ASSUME NEW d \in Deleters, Mark(d) PROVE DeletionBounds'
  <2>1. PICK marked \in SUBSET Traces :
          /\ pending' = [t \in Traces |-> IF t \in marked THEN 0 ELSE pending[t]]
          /\ everDeleted' = everDeleted \cup marked
          /\ unlucky' = unlucky \cup (marked \cap deleter[d].since)
    <3>1. Marked(d) \subseteq Traces
      BY <1>a DEF Marked, Outstanding
    <3> QED  BY <1>7, <3>1 DEF Mark
  <2>2. UNCHANGED <<jobs, requests, ingests, deletionFaults>> /\ Rest(d)
    BY <1>7 DEF Mark
  <2> QED  BY <1>0, <1>d, <2>1, <2>2, BoundsStay
<1>8. ASSUME NEW d \in Deleters, PostgresFails(d) PROVE DeletionBounds'
  <2>1. \A job \in jobs' : job \in jobs \/ JobWithin(job)
    BY <1>8, <1>c DEF PostgresFails
  <2>2. \A e \in Deleters : deleter'[e].job = deleter[e].job \/ JobWithin(deleter'[e].job)
    <3>1. CASE deleter' = [deleter EXCEPT ![d].kind = "stray", ![d].job = Resting.job]
      BY <1>0, <1>a, <3>1 DEF DeletionTypes, Deleter
    <3>2. CASE deleter' = [deleter EXCEPT ![d].failed = TRUE]
      BY <1>0, <1>a, <3>2 DEF DeletionTypes, Deleter
    <3> QED  BY <1>8, <3>1, <3>2 DEF PostgresFails
  <2> QED  BY <1>0, <1>8, <1>b, <2>1, <2>2, BoundsStay DEF PostgresFails
<1>9. ASSUME NEW d \in Deleters, ClickhouseFails(d) \/ DeleterDies(d) PROVE DeletionBounds'
  <2>1. \A job \in jobs' : job \in jobs \/ JobWithin(job)
    BY <1>9, <1>a, <1>c DEF ClickhouseFails, DeleterDies
  <2>2. /\ Rest(d) /\ Occurs
        /\ UNCHANGED <<pending, everDeleted, requests, ingests, unlucky>>
    BY <1>9 DEF ClickhouseFails, DeleterDies
  <2> QED  BY <1>0, <1>b, <1>d, <2>1, <2>2, BoundsStay
<1>10. CASE UNCHANGED deletionVars
  BY <1>0, <1>10, BoundsStay DEF deletionVars, requestVars
<1> QED
  BY <1>1, <1>2, <1>3, <1>4, <1>5, <1>6, <1>7, <1>8, <1>9, <1>10 DEF DeletionNext, CleanerSteps

(* They hold at first. *)
LEMMA DeletionBoundsHold == DeletionInit => DeletionBounds
<1> SUFFICES ASSUME DeletionInit PROVE DeletionBounds
  OBVIOUS
<1> QED
  BY DeletionAssumption DEF DeletionInit, DeletionBounds, JobWithin, Resting, NoJobId

(* Nothing but traces comes to them. *)
LEMMA TracesAreLeft == DeletionInv /\ LeftAreTraces /\ [DeletionNext]_deletionVars => LeftAreTraces'
<1> SUFFICES ASSUME DeletionInv, leftBehind \subseteq Traces, [DeletionNext]_deletionVars
             PROVE  leftBehind' \subseteq Traces
  BY DEF LeftAreTraces
<1>0. jobs \subseteq Job /\ deleter \in [Deleters -> Deleter]
  BY DEF DeletionInv, DeletionTypes
<1>1. ASSUME NEW ts \in SUBSET Traces, RequestDeletion(ts) PROVE leftBehind' \subseteq Traces
  BY <1>1 DEF RequestDeletion
<1>2. ASSUME NEW d \in Deleters, NEW job \in jobs, StartJob(d, job) PROVE leftBehind' \subseteq Traces
  <2>1. job.traces \subseteq Traces /\ Outstanding \subseteq Traces
    BY <1>0 DEF Job, Outstanding
  <2>2. leftBehind' = leftBehind \/ \E ids : leftBehind' = (leftBehind \cup (Outstanding \cup (job.traces \ everDeleted))) \ ids
    BY <1>2, Zenon DEF StartJob
  <2> QED  BY <2>1, <2>2
<1>3. ASSUME NEW d \in Deleters, PostgresFails(d) \/ ClickhouseFails(d) PROVE leftBehind' \subseteq Traces
  <2>1. LeftByFailure(d) \subseteq Traces
    BY <1>0 DEF LeftByFailure, Deleter, Job
  <2> QED  BY <1>3, <2>1 DEF PostgresFails, ClickhouseFails
<1>4. ASSUME NEW d \in Deleters, CleanerSteps(d) \/ DeleterDies(d) PROVE leftBehind' = leftBehind
  BY <1>4 DEF CleanerSteps, StartCleaner, FindLinks, CheckOrphans, DeleteFile, Unlink, DeleteData, Mark, DeleterDies
<1>5. ASSUME NEW t \in Traces, Ingest(t) \/ UploadSteps(t) PROVE leftBehind' = leftBehind
  BY <1>5 DEF Ingest, UploadSteps, Lookup, Send, Confirm, Link
<1> QED  BY <1>1, <1>2, <1>3, <1>4, <1>5 DEF DeletionNext, deletionVars

(* The deletion of traces has its types, whatever the traces and deleters: *)
(* no row and no job is of a request that was not made, and none is tried  *)
(* more often than it may.                                                 *)
THEOREM DeletionIsTyped == DeletionSpec => []DeletionTypeOK
<1>1. DeletionInv /\ MediaInv => MediaTypes
  BY DEF MediaInv
<1>2. DeletionInit => LeftAreTraces
  BY DEF DeletionInit, LeftAreTraces
<1> QED
  BY <1>1, <1>2, MediaInvAlways, DeletionBoundsHold, DeletionBoundsKept, TracesAreLeft, TypesOfDeletion, PTL
  DEF DeletionSpec
=============================================================================
