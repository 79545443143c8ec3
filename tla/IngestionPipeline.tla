------------------------- MODULE IngestionPipeline -------------------------
(***************************************************************************)
(* The way of an ingested event from the API to ClickHouse.                *)
(* processEventBatch uploads the events of a request to blob storage, one  *)
(* file for each entity they are about, and then adds one job for each     *)
(* file to the ingestion queue.  A worker's job lists all files of its     *)
(* entity, marks them as recently processed, merges them over the row      *)
(* ClickHouse has, and hands the new row to the ClickhouseWriter, which    *)
(* is here what AtLeastOnceBuffer promises.  Rows carry the time of their  *)
(* merge (event_ts), and ClickHouse shows the row with the latest.         *)
(* A step ends where the code awaits, so jobs interleave with each other   *)
(* and with requests.  Definitions named Fault... are deliberate errors:   *)
(* no definition uses one, and each shows that a property would notice it. *)
(* src/packages/shared/src/server/ingestion/processEventBatch.ts           *)
(* src/worker/src/queues/ingestionQueue.ts                                 *)
(* src/worker/src/services/IngestionService/index.ts                       *)
(***************************************************************************)
EXTENDS Naturals, FiniteSets

CONSTANTS
  Requests,      \* ingestion requests, each of which the client repeats until it succeeds
  Entities,      \* traces, observations, scores ...
  Count,         \* files are numbered in the order of the timestamps of their events
  RequestOf,     \* the request a file belongs to
  EntityOf,      \* the entity its events are about
  SkipList,      \* entities whose jobs carry skipS3List
  SeenCache,     \* LANGFUSE_ENABLE_REDIS_SEEN_EVENT_CACHE
  Slots,         \* jobs processed at a time
  Attempts,      \* attempts of a job (defaultJobOptions)
  MaxJobs,       \* jobs in the queues at a time (bounds the model)
  MaxRows,       \* rows handed to the writer (bounds the model)
  MaxFaults      \* errors and crashes (bounds the model)

Files == 1..Count
Jobs == 1..MaxJobs
Rows == 1..MaxRows

ASSUME PipelineAssumption ==
  /\ {Count, MaxJobs, MaxRows, MaxFaults} \subseteq Nat
  /\ {Slots, Attempts} \subseteq Nat \ {0}
  /\ RequestOf \in [Files -> Requests]
  /\ EntityOf \in [Files -> Entities]
  /\ SkipList \subseteq Entities
  /\ SeenCache \in BOOLEAN

VARIABLES
  request,       \* where the current call for a request is
  pending,       \* files whose upload or queue.add has not settled
  erred,         \* requests of which an upload was rejected (s3UploadErrored)
  stored,        \* blob storage: the files uploaded
  job,           \* Redis: the jobs of both ingestion queues
  seen,          \* Redis: recently-processed keys
  slow,          \* Redis: the S3 slowdown flag of the project
  row,           \* the rows handed to the writer, numbered by event_ts
  held, acked, dropped, fails,   \* the writer (AtLeastOnceBuffer)
  lost,          \* history: rows that were in the writer of a worker that died
  overlapped,    \* history: entities two jobs of which were between list and write
  hollow,        \* history: files an attempt marked as seen and then failed to write
  orphaned,      \* history: files whose row died with its worker, and that no job repeats
  faults         \* history: how many errors and crashes there were

requestVars == <<request, pending, erred, stored>>
writerVars == <<row, held, acked, dropped, fails, lost>>
historyVars == <<overlapped, hollow, orphaned>>
vars == <<requestVars, job, seen, slow, writerVars, historyVars, faults>>

Writer == INSTANCE AtLeastOnceBuffer WITH Records <- Rows, MaxAttempts <- 1

FilesOf(r) == {f \in Files : RequestOf[f] = r}

(* Of a row, `has` stands for what single events say, and `top` for what   *)
(* all of them say: there the event merged last decides.                   *)
Row == [has : SUBSET Files, top : 0..Count]

NoRow == [has |-> {}, top |-> 0]

NoJob == [pc |-> "none", file |-> 0, queue |-> "primary", attempt |-> 1, files |-> {},
          base |-> NoRow]

Fault ==
  /\ faults < MaxFaults
  /\ faults' = faults + 1

(***************************************************************************)
(* processEventBatch                                                       *)
(***************************************************************************)
(* A request, or its repetition after the last one failed. *)
Send(r) ==
  /\ request[r] \in {"ready", "failed"}
  /\ pending \cap FilesOf(r) = {}
  /\ request' = [request EXCEPT ![r] = "uploading"]
  /\ pending' = pending \cup FilesOf(r)
  /\ erred' = erred \ {r}
  /\ UNCHANGED <<stored, job, seen, slow, writerVars, historyVars, faults>>

UploadSucceeds(f) ==
  /\ request[RequestOf[f]] = "uploading"
  /\ f \in pending
  /\ stored' = stored \cup {f}
  /\ pending' = pending \ {f}
  /\ UNCHANGED <<request, erred, job, seen, slow, writerVars, historyVars, faults>>

(* A SlowDown error also sets the project's slowdown flag. *)
UploadFails(f) ==
  /\ request[RequestOf[f]] = "uploading"
  /\ f \in pending
  /\ Fault
  /\ erred' = erred \cup {RequestOf[f]}
  /\ pending' = pending \ {f}
  /\ slow' \in {slow, TRUE}
  /\ UNCHANGED <<request, stored, job, seen, writerVars, historyVars>>

FaultUploadErrored(r) == FALSE

UploadErrored(r) == r \in erred

(* Promise.allSettled has settled: give up, or start to add the jobs. *)
UploadsSettle(r) ==
  /\ request[r] = "uploading"
  /\ pending \cap FilesOf(r) = {}
  /\ IF UploadErrored(r)
     THEN request' = [request EXCEPT ![r] = "failed"] /\ UNCHANGED pending
     ELSE /\ request' = [request EXCEPT ![r] = "adding"]
          /\ pending' = pending \cup FilesOf(r)
  /\ UNCHANGED <<erred, stored, job, seen, slow, writerVars, historyVars, faults>>

Added(f) == [NoJob EXCEPT !.pc = "waiting", !.file = f]

(* queue.add; the last one to succeed answers the request. *)
AddSucceeds(f) ==
  LET r == RequestOf[f]
  IN  /\ request[r] # "uploading"
      /\ f \in pending
      /\ pending' = pending \ {f}
      /\ \E j \in Jobs :
           /\ job[j].pc = "none"
           /\ \A i \in Jobs : i < j => job[i].pc # "none"
           /\ job' = [job EXCEPT ![j] = Added(f)]
      /\ request' = IF request[r] = "adding" /\ pending' \cap FilesOf(r) = {}
                    THEN [request EXCEPT ![r] = "accepted"]
                    ELSE request
      /\ UNCHANGED <<erred, stored, seen, slow, writerVars, historyVars, faults>>

(* Promise.all rejects; what it has started goes on. *)
AddFails(f) ==
  /\ request[RequestOf[f]] # "uploading"
  /\ f \in pending
  /\ Fault
  /\ pending' = pending \ {f}
  /\ request' = [request EXCEPT ![RequestOf[f]] = "failed"]
  /\ UNCHANGED <<erred, stored, job, seen, slow, writerVars, historyVars>>

(***************************************************************************)
(* ingestionQueueProcessorBuilder                                          *)
(***************************************************************************)
RunningPcs == {"checked", "listed", "marked", "read", "written"}

FaultAnew(jb) == NoJob

(* A job that is handed out again starts anew. *)
Anew(jb) == [jb EXCEPT !.pc = "waiting", !.files = {}, !.base = NoRow]

Running == {j \in Jobs : job[j].pc \in RunningPcs}

EntityOfJob(j) == EntityOf[job[j].file]

Goto(j, place) == job' = [job EXCEPT ![j].pc = place]

(* A completed job is removed (removeOnComplete). *)
Done(j) == job' = [job EXCEPT ![j] = NoJob]

(* A worker takes a job and looks for its file among the recently          *)
(* processed ones.                                                         *)
Begin(j) ==
  /\ job[j].pc = "waiting"
  /\ Cardinality(Running) < Slots
  /\ IF SeenCache /\ job[j].file \in seen THEN Done(j) ELSE Goto(j, "checked")
  /\ UNCHANGED <<requestVars, seen, slow, writerVars, historyVars, faults>>

(* Only the processor of the primary queue redirects. *)
FaultRedirected(j) == slow

Redirected(j) == slow /\ job[j].queue = "primary"

(* secondaryQueue.add: another job with attempts of its own; this one ends. *)
Redirect(j) ==
  /\ job[j].pc = "checked"
  /\ Redirected(j)
  /\ job' = [job EXCEPT ![j].pc = "waiting", ![j].queue = "secondary", ![j].attempt = 1]
  /\ UNCHANGED <<requestVars, seen, slow, writerVars, historyVars, faults>>

FaultListing(j) == {job[j].file} \cap stored

Listing(j) ==
  IF EntityOfJob(j) \in SkipList
  THEN {job[j].file}
  ELSE {f \in stored : EntityOf[f] = EntityOfJob(j)}

(* Files are listed and downloaded; without any the job ends.  A direct    *)
(* download of a file that is not there throws.                            *)
List(j) ==
  /\ job[j].pc = "checked"
  /\ ~Redirected(j)
  /\ EntityOfJob(j) \in SkipList => job[j].file \in stored
  /\ IF Listing(j) = {}
     THEN Done(j)
     ELSE job' = [job EXCEPT ![j].pc = "listed", ![j].files = Listing(j)]
  /\ overlapped' =
       IF \E i \in Running \ {j} : /\ EntityOfJob(i) = EntityOfJob(j)
                                   /\ job[i].pc \in {"listed", "marked", "read"}
       THEN overlapped \cup {EntityOfJob(j)}
       ELSE overlapped
  /\ UNCHANGED <<requestVars, seen, slow, writerVars, hollow, orphaned, faults>>

(* The keys are set before the merge; an error of Redis is logged only. *)
MarkSeen(j) ==
  /\ job[j].pc = "listed"
  /\ Goto(j, "marked")
  /\ seen' = IF SeenCache THEN seen \cup job[j].files ELSE seen
  /\ UNCHANGED <<requestVars, slow, writerVars, historyVars, faults>>

MarkSeenFails(j) ==
  /\ job[j].pc = "listed"
  /\ SeenCache
  /\ Fault
  /\ Goto(j, "marked")
  /\ UNCHANGED <<requestVars, seen, slow, writerVars, historyVars>>

(* mergeAndWrite reads the row ClickHouse shows for the entity ... *)
Shown(e) ==
  LET rows == {n \in acked : EntityOf[row[n].top] = e}
  IN  {n \in rows : \A m \in rows : m <= n}

Visible(e) == IF Shown(e) = {} THEN NoRow ELSE row[CHOOSE n \in Shown(e) : TRUE]

ReadRow(j) ==
  /\ job[j].pc = "marked"
  /\ job' = [job EXCEPT ![j].pc = "read", ![j].base = Visible(EntityOfJob(j))]
  /\ UNCHANGED <<requestVars, seen, slow, writerVars, historyVars, faults>>

(* ... merges the events over it, in the order of their timestamps, and    *)
(* calls addToQueue.                                                       *)
Merged(base, files) ==
  [has |-> base.has \cup files, top |-> CHOOSE f \in files : \A g \in files : g <= f]

WriteRow(j) ==
  /\ job[j].pc = "read"
  /\ \E n \in Rows :
       /\ row[n] = NoRow
       /\ \A m \in Rows : m < n => row[m] # NoRow
       /\ row' = [row EXCEPT ![n] = Merged(job[j].base, job[j].files)]
       /\ Writer!Accept(n)
  /\ job' = [job EXCEPT ![j] = [@ EXCEPT !.pc = "written", !.files = {}, !.base = NoRow]]
  /\ UNCHANGED <<requestVars, seen, slow, lost, historyVars, faults>>

(* The session is upserted and the evaluations are notified. *)
Complete(j) ==
  /\ job[j].pc = "written"
  /\ Done(j)
  /\ UNCHANGED <<requestVars, seen, slow, writerVars, historyVars, faults>>

(* What a set of jobs that fails has marked as seen and not written. *)
Hollowed(js) ==
  IF SeenCache
  THEN UNION {job[j].files : j \in {i \in js : job[i].pc \in {"marked", "read"}}}
  ELSE {}

FaultExhausted(j) == job[j].attempt > Attempts

Exhausted(j) == job[j].attempt >= Attempts

Retried(jb) == [Anew(jb) EXCEPT !.attempt = @ + 1]

(* Anything the processor awaits throws: the job is retried until its      *)
(* attempts are used up, then kept as failed.  A SlowDown error sets the   *)
(* slowdown flag.                                                          *)
JobFails(j) ==
  /\ j \in Running
  /\ Fault
  /\ job' = [job EXCEPT ![j] =
                IF Exhausted(j)
                THEN [@ EXCEPT !.pc = "failed"]
                ELSE Retried(@)]
  /\ slow' \in {slow, TRUE}
  /\ hollow' = hollow \cup Hollowed({j})
  /\ UNCHANGED <<requestVars, seen, writerVars, overlapped, orphaned>>

(* What the writer holds and no job will write again: the job has ended    *)
(* when its row was buffered, or will be skipped as its file was seen.     *)
Orphans ==
  {f \in Files :
     /\ \E n \in held : f \in row[n].has
     /\ \/ f \in seen
        \/ f \notin pending /\ \A j \in Jobs : job[j].file = f => job[j].pc = "none"}

(* The worker process dies: BullMQ hands its jobs out again, and what its  *)
(* writer held is gone.                                                    *)
WorkerDies ==
  /\ Fault
  /\ job' = [j \in Jobs |-> IF j \in Running THEN Anew(job[j]) ELSE job[j]]
  /\ held' = {}
  /\ lost' = lost \cup held
  /\ hollow' = hollow \cup Hollowed(Running)
  /\ orphaned' = orphaned \cup Orphans
  /\ UNCHANGED <<requestVars, seen, slow, row, acked, dropped, fails, overlapped>>

(* Redis keys expire: five minutes after the merge, and some time after    *)
(* the last SlowDown.                                                      *)
SeenExpires(f) ==
  /\ f \in seen
  /\ Fault
  /\ seen' = seen \ {f}
  /\ UNCHANGED <<requestVars, job, slow, writerVars, historyVars>>

SlowExpires ==
  /\ slow
  /\ slow' = FALSE
  /\ UNCHANGED <<requestVars, job, seen, writerVars, historyVars, faults>>

(* The writer inserts rows into ClickHouse, or gives them up. *)
WriterInserts ==
  /\ \E batch \in SUBSET held : Writer!Acknowledge(batch)
  /\ UNCHANGED <<requestVars, job, seen, slow, row, lost, historyVars, faults>>

WriterFails ==
  /\ Fault
  /\ \E batch \in SUBSET held : Writer!FailFlush(batch)
  /\ UNCHANGED <<requestVars, job, seen, slow, row, lost, historyVars>>

Init ==
  /\ request = [r \in Requests |-> "ready"]
  /\ pending = {}
  /\ erred = {}
  /\ stored = {}
  /\ job = [j \in Jobs |-> NoJob]
  /\ row = [n \in Rows |-> NoRow]
  /\ seen = {}
  /\ slow = FALSE
  /\ Writer!Init
  /\ lost = {}
  /\ overlapped = {}
  /\ hollow = {}
  /\ orphaned = {}
  /\ faults = 0

Process(j) ==
  \/ Begin(j)
  \/ Redirect(j)
  \/ List(j)
  \/ MarkSeen(j)
  \/ ReadRow(j)
  \/ WriteRow(j)
  \/ Complete(j)

Next ==
  \/ \E r \in Requests : Send(r) \/ UploadsSettle(r)
  \/ \E f \in Files :
       \/ UploadSucceeds(f)
       \/ UploadFails(f)
       \/ AddSucceeds(f)
       \/ AddFails(f)
       \/ SeenExpires(f)
  \/ \E j \in Jobs : Process(j) \/ MarkSeenFails(j) \/ JobFails(j)
  \/ WorkerDies
  \/ SlowExpires
  \/ WriterInserts
  \/ WriterFails

Spec == Init /\ [][Next]_vars

-----------------------------------------------------------------------------

TypeOK ==
  /\ request \in [Requests -> {"ready", "uploading", "adding", "accepted", "failed"}]
  /\ pending \subseteq Files
  /\ erred \subseteq Requests
  /\ stored \subseteq Files
  /\ job \in [Jobs -> [pc : RunningPcs \cup {"none", "waiting", "failed"},
                       file : 0..Count, queue : {"primary", "secondary"},
                       attempt : 1..Attempts, files : SUBSET Files, base : Row]]
  /\ seen \subseteq Files
  /\ slow \in BOOLEAN
  /\ row \in [Rows -> Row]
  /\ UNION {held, acked, dropped, lost} \subseteq Rows
  /\ fails \in [Rows -> 0..1]
  /\ overlapped \subseteq Entities
  /\ hollow \cup orphaned \subseteq Files
  /\ faults \in 0..MaxFaults

Accepted == {f \in Files : request[RequestOf[f]] = "accepted"}

Handed == UNION {held, acked, dropped, lost}

(* A job that may still write the file or is kept as failed. *)
Answerable(f) ==
  \E j \in Jobs :
    \/ job[j].file = f /\ job[j].pc # "none"
    \/ j \in Running /\ f \in job[j].files

(* Its row is in the writer's buffer or in ClickHouse. *)
Written(f) == \E n \in held \cup acked : f \in row[n].has

(* The writer has given its row up after the last attempt, or has died     *)
(* with it.                                                                *)
GivenUp(f) == f \in orphaned \/ \E n \in dropped : f \in row[n].has

(* An event the API has answered with success is in the writer's buffer or *)
(* in ClickHouse, or a job answers for it, running, to be retried or kept  *)
(* as failed.  There are three ways to lose it, and each is recorded where *)
(* it happens: an attempt marked it as seen and failed to write it; the    *)
(* writer gave up its row; the worker died with the row in its buffer when *)
(* the job had ended or would be skipped.  Nothing else loses it: not      *)
(* retries of jobs and requests, redirection, partial uploads, nor a crash *)
(* while its job is there.                                                 *)
AcceptedIsAnsweredFor ==
  \A f \in Accepted : Answerable(f) \/ Written(f) \/ f \in hollow \/ GivenUp(f)

(* ingestionQueue.ts:84 says that a file is skipped if it was processed:   *)
(* so no accepted event is left without a row and without a job, but for   *)
(* what the writer gives up.                                               *)
SkippedWasProcessed == \A f \in Accepted : Answerable(f) \/ Written(f) \/ GivenUp(f)

Quiet == pending = {} /\ held = {} /\ \A j \in Jobs : job[j].pc = "none"

(* When all is done and the writer has given nothing up, ClickHouse shows  *)
(* for each entity a row that has every accepted event, with the values of *)
(* the latest, in whatever order requests, jobs, retries and inserts were  *)
(* carried out: provided no two jobs of the entity were between their      *)
(* listing and their write at once, and all files are listed.              *)
Converges ==
  Quiet /\ dropped = {} /\ lost = {} =>
    \A f \in Accepted \ hollow :
      LET e == EntityOf[f]
      IN  e \notin overlapped \cup SkipList => f \in Visible(e).has /\ f <= Visible(e).top

(* What ClickHouse shows of an entity never loses an event again, though   *)
(* inserts arrive out of order and merges do not see rows still buffered.  *)
NothingUnshown ==
  [][\A e \in Entities \ (overlapped \cup SkipList) :
       Visible(e).has \subseteq Visible(e).has']_vars

(* Every job comes to an end, redirected or not. *)
JobsEnd == \A j \in Jobs : job[j].pc = "waiting" ~> job[j].pc \in {"none", "failed"}
=============================================================================
