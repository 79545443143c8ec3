---------------------- MODULE IngestionPipelineProofs ----------------------
(***************************************************************************)
(* What the API's requests, the jobs of the ingestion queues and the rows  *)
(* handed to the writer keep true between them, for any number of each and *)
(* of the errors, crashes and expiries between their steps.                *)
(***************************************************************************)
EXTENDS IngestionPipeline, WellFoundedInduction, TLAPS

(* Between its listing and its write. *)
AtWork(j) == job[j].pc \in {"listed", "marked", "read"}

(* The uploaded files of an entity, and its rows, in the buffer or not. *)
OfEntity(e) == {f \in stored : EntityOf[f] = e}

RowsOf(e) == {n \in Handed : EntityOf[row[n].top] = e}

(* While a request uploads, what has settled without an error is stored;   *)
(* afterwards all of its files are, and it is answered when no job is      *)
(* outstanding.                                                            *)
UploadInv(f) ==
  LET at == request[RequestOf[f]]
  IN  /\ at = "uploading" /\ f \notin pending => f \in stored \/ RequestOf[f] \in erred
      /\ at # "uploading" /\ f \in pending => f \in stored
      /\ at = "accepted" => f \notin pending

UploadsInv == \A f \in Files : UploadInv(f)

(* A row whose insert has failed was given up: with one attempt            *)
(* (MaxAttempts <- 1) none is held after a failure.                        *)
WriterInv == \A n \in Rows : fails[n] # 0 => n \in dropped \ held

(* What a crash has orphaned was in a row that it took.                    *)
OrphansInv == lost = {} => orphaned = {}

(* The rows handed over are numbered without gaps, and each is made of     *)
(* uploaded files of one entity.                                           *)
RowInv(n) ==
  /\ n \in Handed <=> row[n] # NoRow
  /\ n \in Handed => row[n].top \in stored /\ row[n].has \subseteq OfEntity(EntityOf[row[n].top])
  /\ row[n] = NoRow => \A m \in Rows : n < m => row[m] = NoRow

RowsInv == \A n \in Rows : RowInv(n)

(* Its row is in the buffer or in ClickHouse, or the writer gave it up. *)
Accounted(f) == Written(f) \/ GivenUp(f)

(* A job's file is uploaded, and it is among the files the job has listed, *)
(* merged and written.                                                     *)
JobInv(j) ==
  /\ job[j].pc # "none" => job[j].file \in stored
  /\ AtWork(j) => job[j].file \in job[j].files /\ job[j].files \subseteq OfEntity(EntityOfJob(j))
  /\ job[j].pc = "read" => job[j].base.has \subseteq OfEntity(EntityOfJob(j))
  /\ job[j].pc = "written" => Accounted(job[j].file)

JobsInv == \A j \in Jobs : JobInv(j)

(* A file marked as recently processed is hollow, accounted for, or about  *)
(* to be written by a job that may have marked it.                         *)
Kept(f) ==
  \/ f \in hollow
  \/ Accounted(f)
  \/ SeenCache /\ \E j \in Jobs : job[j].pc \in {"marked", "read"} /\ f \in job[j].files

(* What is not kept has a job. *)
Answered(f) == Kept(f) \/ \E j \in Jobs : job[j].file = f /\ job[j].pc # "none"

(* A file is skipped because it was seen, and that it was seen answers for *)
(* it.                                                                     *)
AnswersInv ==
  /\ \A f \in seen : Kept(f)
  /\ \A f \in Files :
       request[RequestOf[f]] \in {"adding", "accepted"} /\ f \notin pending => Answered(f)

(* All jobs of the entity list its files, and no two were between that and *)
(* their writes.                                                           *)
Alone(e) == e \notin overlapped \cup SkipList

(* Then what a job has listed has every event of every row of the entity,  *)
(* inserted or not, so that each row has the events of those before it.    *)
AloneInv ==
  /\ \A i, j \in Jobs :
       AtWork(i) /\ AtWork(j) /\ EntityOfJob(i) = EntityOfJob(j) /\ Alone(EntityOfJob(i)) => i = j
  /\ \A j \in Jobs :
       AtWork(j) /\ Alone(EntityOfJob(j)) =>
         /\ \A n \in RowsOf(EntityOfJob(j)) : row[n].has \subseteq job[j].files
         /\ job[j].pc = "read" => job[j].base.has \subseteq job[j].files
  /\ \A n \in Handed : Alone(EntityOf[row[n].top]) =>
       /\ \A m \in RowsOf(EntityOf[row[n].top]) : m < n => row[m].has \subseteq row[n].has
       /\ \A f \in row[n].has : f <= row[n].top

(* The inductive invariant. *)
PipelineInv ==
  /\ TypeOK
  /\ UploadsInv
  /\ WriterInv
  /\ OrphansInv
  /\ RowsInv
  /\ JobsInv
  /\ AnswersInv
  /\ AloneInv

(* What the assumption on the constants gives. *)
LEMMA PipelineConstants ==
  /\ Count \in Nat /\ MaxFaults \in Nat /\ MaxRows \in Nat /\ MaxJobs \in Nat
  /\ Attempts \in Nat \ {0} /\ SeenCache \in BOOLEAN
  /\ \A f \in Files : RequestOf[f] \in Requests /\ EntityOf[f] \in Entities
  BY PipelineAssumption

(* The jobs of the type invariant. *)
JobType ==
  [pc : RunningPcs \cup {"none", "waiting", "failed"}, file : 0..Count,
   queue : {"primary", "secondary"}, attempt : 1..Attempts, files : SUBSET Files, base : Row]

(* A job that is added, and one that is handed out again, is a job. *)
LEMMA NewJobs ==
  /\ NoRow \in Row
  /\ NoJob \in JobType
  /\ \A f \in Files : Added(f) \in JobType
  /\ \A jb \in JobType : Anew(jb) \in JobType
<1>1. 1 \in 1..Attempts /\ 0 \in 0..Count
  BY PipelineConstants
<1>2. NoRow \in Row
  BY <1>1 DEF NoRow, Row
<1>3. NoJob \in JobType
  BY <1>1, <1>2 DEF NoJob, JobType
<1>4. \A f \in Files : Added(f) \in JobType
  <2> SUFFICES ASSUME NEW f \in Files PROVE Added(f) \in JobType
    OBVIOUS
  <2>1. f \in 0..Count
    BY PipelineConstants DEF Files
  <2> QED  BY <1>3, <2>1 DEF Added, JobType
<1>5. \A jb \in JobType : Anew(jb) \in JobType
  BY <1>2 DEF Anew, JobType
<1> QED  BY <1>2, <1>3, <1>4, <1>5

(* A nonempty set of the first N numbers has a greatest element. The proof *)
(* is that of a least difference to N, as the order of the natural numbers *)
(* is well-founded.                                                        *)
LEMMA GreatestExists ==
  ASSUME NEW N \in Nat, NEW S, S \subseteq 1..N, S # {}
  PROVE  \E m \in S : \A n \in S : n <= m
<1> DEFINE T == {N - n : n \in S}
          R == OpToRel(<, Nat)
<1>1. T \subseteq Nat /\ T # {}
  <2>1. \A n \in S : n \in Nat /\ n <= N
    OBVIOUS
  <2>2. \A n \in S : N - n \in Nat
    BY <2>1
  <2>3. PICK n \in S : TRUE
    OBVIOUS
  <2> QED  BY <2>2, <2>3
<1>2. PICK x \in T : \A y \in T : <<y, x>> \notin R
  <2> HIDE DEF T, R
  <2>1. IsWellFoundedOn(R, Nat)
    BY NatLessThanWellFounded DEF R
  <2> QED BY <1>1, <2>1, WFMin
<1>3. \A y \in T : ~(y < x)
  BY <1>1, <1>2 DEF OpToRel
<1>4. PICK m \in S : x = N - m
  OBVIOUS
<1>5. \A n \in S : ~(N - n < N - m)
  BY <1>3, <1>4
<1> QED  BY <1>5

(* What mergeAndWrite makes of a row and the files it has downloaded: the  *)
(* event that decides what all events say is the latest of the files.      *)
LEMMA MergedIs ==
  ASSUME NEW base \in Row, NEW files \in SUBSET Files, files # {}
  PROVE  /\ Merged(base, files) \in Row
         /\ Merged(base, files) # NoRow
         /\ Merged(base, files).has = base.has \cup files
         /\ Merged(base, files).top \in files
         /\ \A f \in files : f <= Merged(base, files).top
<1> DEFINE top == CHOOSE f \in files : \A g \in files : g <= f
<1>1. \E f \in files : \A g \in files : g <= f
  BY GreatestExists, PipelineConstants DEF Files
<1>2. top \in files /\ \A f \in files : f <= top
  BY <1>1
<1>3. Merged(base, files) = [has |-> base.has \cup files, top |-> top]
  BY DEF Merged
<1> HIDE DEF top
<1>4. top \in 0..Count /\ base.has \subseteq Files
  BY <1>2, PipelineConstants DEF Files, Row
<1>5. Merged(base, files).has = base.has \cup files /\ Merged(base, files).top = top
  BY <1>3
<1>6. Merged(base, files) \in Row
  BY <1>3, <1>4 DEF Row
<1>7. NoRow.has = {}
  BY DEF NoRow
<1> QED  BY <1>2, <1>5, <1>6, <1>7

(* Every step of a request, of a job, of the writer and of Redis keeps the *)
(* types.                                                                  *)
LEMMA TypesKept == TypeOK /\ WriterInv /\ JobsInv /\ [Next]_vars => TypeOK'
<1> SUFFICES ASSUME TypeOK, WriterInv, JobsInv, [Next]_vars PROVE TypeOK'
  OBVIOUS
<1> USE DEF TypeOK
<1>1. ASSUME NEW r \in Requests, Send(r) PROVE TypeOK'
  BY <1>1 DEF Send, FilesOf, writerVars, historyVars
<1>2. ASSUME NEW r \in Requests, UploadsSettle(r) PROVE TypeOK'
  BY <1>2 DEF UploadsSettle, FilesOf, writerVars, historyVars
<1>3. ASSUME NEW f \in Files, UploadSucceeds(f) PROVE TypeOK'
  BY <1>3 DEF UploadSucceeds, writerVars, historyVars
<1>4. ASSUME NEW f \in Files, UploadFails(f) PROVE TypeOK'
  <2>1. RequestOf[f] \in Requests /\ faults' \in 0..MaxFaults
    BY <1>4, PipelineConstants DEF UploadFails, Fault
  <2> QED  BY <1>4, <2>1 DEF UploadFails, writerVars, historyVars
<1>5. ASSUME NEW f \in Files, AddSucceeds(f) PROVE TypeOK'
  BY <1>5, NewJobs, PipelineConstants DEF AddSucceeds, JobType, writerVars, historyVars
<1>6. ASSUME NEW f \in Files, AddFails(f) PROVE TypeOK'
  BY <1>6, PipelineConstants DEF AddFails, Fault, writerVars, historyVars
<1>7. ASSUME NEW f \in Files, SeenExpires(f) PROVE TypeOK'
  BY <1>7, PipelineConstants DEF SeenExpires, Fault, requestVars, writerVars, historyVars
<1>8. ASSUME NEW j \in Jobs, Begin(j) PROVE TypeOK'
  BY <1>8, NewJobs DEF Begin, Done, Goto, JobType, RunningPcs, requestVars, writerVars, historyVars
<1>9. ASSUME NEW j \in Jobs, Redirect(j) PROVE TypeOK'
  <2>1. 1 \in 1..Attempts
    BY PipelineConstants
  <2> DEFINE jb == [job[j] EXCEPT !.pc = "waiting", !.queue = "secondary", !.attempt = 1]
  <2>2. jb \in JobType
    BY <2>1 DEF JobType
  <2>3. job' = [job EXCEPT ![j] = jb]
    BY <1>9 DEF Redirect
  <2> HIDE DEF jb
  <2>4. job' \in [Jobs -> JobType]
    BY <2>2, <2>3 DEF JobType
  <2> QED  BY <1>9, <2>4 DEF Redirect, JobType, requestVars, writerVars, historyVars
<1>10. ASSUME NEW j \in Jobs, List(j) PROVE TypeOK'
  <2>1. EntityOfJob(j) \in SkipList => EntityOfJob(j) \in Entities
    BY PipelineAssumption
  <2>2. job[j] \in JobType /\ Listing(j) \subseteq Files
    BY <1>10 DEF List, Listing, JobType
  <2>3. job' \in [Jobs -> JobType]
    <3>1. CASE Listing(j) = {}
      BY <1>10, <3>1, NewJobs DEF List, Done, JobType
    <3>2. CASE Listing(j) # {}
      <4> DEFINE jb == [job[j] EXCEPT !.pc = "listed", !.files = Listing(j)]
      <4>1. jb \in JobType
        BY <2>2 DEF JobType, RunningPcs
      <4>2. job' = [job EXCEPT ![j] = jb]
        BY <1>10, <3>2 DEF List
      <4> HIDE DEF jb
      <4> QED  BY <4>1, <4>2 DEF JobType
    <3> QED  BY <3>1, <3>2
  <2>4. overlapped' \subseteq Entities
    <3>1. EntityOfJob(j) \in Entities
      BY <1>10, PipelineConstants DEF List, JobsInv, JobInv, EntityOfJob
    <3> QED  BY <1>10, <3>1 DEF List
  <2> QED  BY <1>10, <2>3, <2>4 DEF List, JobType, requestVars, writerVars
<1>11. ASSUME NEW j \in Jobs, MarkSeen(j) PROVE TypeOK'
  BY <1>11 DEF MarkSeen, Goto, RunningPcs, requestVars, writerVars, historyVars
<1>12. ASSUME NEW j \in Jobs, MarkSeenFails(j) PROVE TypeOK'
  BY <1>12, PipelineConstants
  DEF MarkSeenFails, Fault, Goto, RunningPcs, requestVars, writerVars, historyVars
<1>13. ASSUME NEW j \in Jobs, ReadRow(j) PROVE TypeOK'
  <2>1. Visible(EntityOfJob(j)) \in Row
    BY NewJobs DEF Visible, Shown
  <2> DEFINE jb == [job[j] EXCEPT !.pc = "read", !.base = Visible(EntityOfJob(j))]
  <2>2. jb \in JobType
    BY <2>1 DEF JobType, RunningPcs
  <2>3. job' = [job EXCEPT ![j] = jb]
    BY <1>13 DEF ReadRow
  <2> HIDE DEF jb
  <2>4. job' \in [Jobs -> JobType]
    BY <2>2, <2>3 DEF JobType
  <2> QED  BY <1>13, <2>4 DEF ReadRow, JobType, requestVars, writerVars, historyVars
<1>14. ASSUME NEW j \in Jobs, WriteRow(j) PROVE TypeOK'
  <2>1. PICK n \in Rows : /\ row' = [row EXCEPT ![n] = Merged(job[j].base, job[j].files)]
                          /\ Writer!Accept(n)
    BY <1>14 DEF WriteRow
  <2>2. Merged(job[j].base, job[j].files) \in Row
    BY <1>14, MergedIs DEF WriteRow, JobsInv, JobInv, AtWork
  <2> DEFINE jb == [job[j] EXCEPT !.pc = "written", !.files = {}, !.base = NoRow]
  <2>3. jb \in JobType
    BY NewJobs DEF JobType, RunningPcs
  <2>4. job' = [job EXCEPT ![j] = jb]
    BY <1>14 DEF WriteRow
  <2> HIDE DEF jb
  <2>5. job' \in [Jobs -> JobType]
    BY <2>3, <2>4 DEF JobType
  <2> QED  BY <1>14, <2>1, <2>2, <2>5 DEF WriteRow, Writer!Accept, JobType, requestVars, historyVars
<1>15. ASSUME NEW j \in Jobs, Complete(j) PROVE TypeOK'
  BY <1>15, NewJobs DEF Complete, Done, JobType, requestVars, writerVars, historyVars
<1>16. ASSUME NEW j \in Jobs, JobFails(j) PROVE TypeOK'
  <2> DEFINE jb == IF Exhausted(j) THEN [job[j] EXCEPT !.pc = "failed"] ELSE Retried(job[j])
  <2>1. jb \in JobType
    <3>1. CASE Exhausted(j)
      BY <3>1 DEF JobType
    <3>2. CASE ~Exhausted(j)
      <4>1. Anew(job[j]) \in JobType
        BY NewJobs DEF JobType
      <4>2. Anew(job[j]).attempt = job[j].attempt /\ job[j].attempt + 1 \in 1..Attempts
        BY <3>2, PipelineConstants DEF Anew, Exhausted
      <4> QED  BY <3>2, <4>1, <4>2 DEF Retried, JobType
    <3> QED  BY <3>1, <3>2
  <2>2. job' = [job EXCEPT ![j] = jb]
    BY <1>16 DEF JobFails
  <2> HIDE DEF jb
  <2>3. job' \in [Jobs -> JobType] /\ faults' \in 0..MaxFaults
    BY <1>16, <2>1, <2>2, PipelineConstants DEF JobFails, Fault, JobType
  <2>4. hollow' \subseteq Files
    BY <1>16 DEF JobFails, Hollowed
  <2> QED  BY <1>16, <2>3, <2>4 DEF JobFails, JobType, requestVars, writerVars
<1>17. ASSUME WorkerDies PROVE TypeOK'
  <2>1. job' \in [Jobs -> JobType] /\ faults' \in 0..MaxFaults
    BY <1>17, NewJobs, PipelineConstants DEF WorkerDies, Fault, JobType
  <2>2. hollow' \subseteq Files
    <3>1. Hollowed(Running) \subseteq Files
      BY DEF Hollowed, Running
    <3> QED  BY <1>17, <3>1 DEF WorkerDies
  <2> QED  BY <1>17, <2>1, <2>2 DEF WorkerDies, Orphans, JobType, requestVars
<1>18. ASSUME SlowExpires PROVE TypeOK'
  BY <1>18 DEF SlowExpires, requestVars, writerVars, historyVars
<1>19. ASSUME WriterInserts PROVE TypeOK'
  BY <1>19 DEF WriterInserts, Writer!Acknowledge, requestVars, historyVars
<1>20. ASSUME WriterFails PROVE TypeOK'
  BY <1>20, PipelineConstants
  DEF WriterFails, Writer!FailFlush, Fault, WriterInv, requestVars, historyVars
<1>21. CASE UNCHANGED vars
  BY <1>21 DEF vars, requestVars, writerVars, historyVars
<1> QED  BY <1>1, <1>2, <1>3, <1>4, <1>5, <1>6, <1>7, <1>8, <1>9, <1>10, <1>11, <1>12, <1>13, <1>14,
    <1>15, <1>16, <1>17, <1>18, <1>19, <1>20, <1>21 DEF Next, Process

(* How a job can move. It is taken, redirected, retried, handed out again  *)
(* after a crash, or fails for good: then what it had marked as seen is    *)
(* hollow.                                                                 *)
Halts(j) ==
  /\ job[j].pc # "none"
  /\ job'[j].pc \in {"waiting", "checked", "failed"}
  /\ job'[j].file = job[j].file
  /\ SeenCache /\ job[j].pc \in {"marked", "read"} => job[j].files \subseteq hollow'

(* It ends: its file was seen, or is written. *)
Ends(j) ==
  /\ job'[j].pc = "none"
  /\ \/ SeenCache /\ job[j].pc = "waiting" /\ job[j].file \in seen
     \/ job[j].pc = "written"

(* It is added, for a file whose upload has succeeded. *)
Starts(j) ==
  \E f \in pending :
    /\ job[j].pc = "none" /\ request[RequestOf[f]] # "uploading"
    /\ job'[j].pc = "waiting" /\ job'[j].file = f

(* It lists the files of its entity; this is where an overlap shows. *)
Lists(j) ==
  /\ job[j].pc = "checked" /\ job'[j].pc = "listed"
  /\ job'[j].file = job[j].file /\ job'[j].files = Listing(j)
  /\ \A i \in Jobs \ {j} :
       /\ job'[i] = job[i]
       /\ AtWork(i) /\ EntityOfJob(i) = EntityOfJob(j) => EntityOfJob(j) \in overlapped'

(* It marks what it has listed as seen, or fails to. *)
Marks(j) ==
  /\ job[j].pc = "listed" /\ job'[j].pc = "marked"
  /\ job'[j].file = job[j].file /\ job'[j].files = job[j].files

(* It reads the row ClickHouse shows. *)
Reads(j) ==
  /\ job[j].pc = "marked" /\ job'[j].pc = "read"
  /\ job'[j].file = job[j].file /\ job'[j].files = job[j].files
  /\ job'[j].base = Visible(EntityOfJob(j))

(* It hands the next row to the writer. *)
Writes(j, n) ==
  /\ job[j].pc = "read" /\ job'[j].pc = "written"
  /\ job'[j].file = job[j].file
  /\ \A i \in Jobs \ {j} : job'[i] = job[i]
  /\ row[n] = NoRow /\ \A m \in Rows : m < n => row[m] # NoRow
  /\ row' = [row EXCEPT ![n] = Merged(job[j].base, job[j].files)]
  /\ Handed' = Handed \cup {n}
  /\ n \in held'

(* These are all. *)
JobMoves(j) ==
  \/ job'[j] = job[j]
  \/ Halts(j)
  \/ Ends(j)
  \/ Starts(j)
  \/ Lists(j)
  \/ Marks(j)
  \/ Reads(j)
  \/ \E n \in Rows : Writes(j, n)

(* A job finds its own file, which was uploaded before the job was added;  *)
(* and, unless it skips the listing, all files of its entity.              *)
LEMMA ListingHasFile ==
  ASSUME TypeOK, JobsInv, NEW j \in Jobs, job[j].pc # "none"
  PROVE  /\ job[j].file \in Listing(j)
         /\ Listing(j) \subseteq OfEntity(EntityOfJob(j))
         /\ EntityOfJob(j) \notin SkipList => Listing(j) = OfEntity(EntityOfJob(j))
  BY DEF Listing, JobsInv, JobInv, TypeOK, OfEntity, EntityOfJob

(* However many jobs a step touches, each moves in one of these ways. *)
LEMMA JobsMove ==
  ASSUME TypeOK, JobsInv, [Next]_vars, NEW i \in Jobs
  PROVE  JobMoves(i)
<1> USE DEF TypeOK
<1>1. ASSUME NEW f \in Files, AddSucceeds(f) PROVE JobMoves(i)
  <2>1. PICK j \in Jobs : job[j].pc = "none" /\ job' = [job EXCEPT ![j] = Added(f)]
    BY <1>1 DEF AddSucceeds
  <2>2. Added(f).pc = "waiting" /\ Added(f).file = f
    BY DEF Added, NoJob
  <2> QED  BY <1>1, <2>1, <2>2 DEF AddSucceeds, JobMoves, Starts
<1>2. ASSUME NEW j \in Jobs, Begin(j) PROVE JobMoves(i)
  BY <1>2 DEF Begin, Done, Goto, NoJob, JobMoves, Halts, Ends
<1>3. ASSUME NEW j \in Jobs, Redirect(j) PROVE JobMoves(i)
  BY <1>3 DEF Redirect, JobMoves, Halts
<1>4. ASSUME NEW j \in Jobs, List(j) PROVE JobMoves(i)
  <2>1. Listing(j) # {}
    BY <1>4, ListingHasFile DEF List
  <2>2. job' = [job EXCEPT ![j].pc = "listed", ![j].files = Listing(j)]
    BY <1>4, <2>1 DEF List
  <2>3. CASE i = j
    <3>1. job'[j].pc = "listed" /\ job'[j].file = job[j].file /\ job'[j].files = Listing(j)
      BY <2>2
    <3>2. \A k \in Jobs \ {j} : job'[k] = job[k]
      BY <2>2
    <3>3. \A k \in Jobs \ {j} :
            AtWork(k) /\ EntityOfJob(k) = EntityOfJob(j) => EntityOfJob(j) \in overlapped'
      BY <1>4 DEF List, AtWork, Running, RunningPcs
    <3> QED  BY <1>4, <2>3, <3>1, <3>2, <3>3 DEF JobMoves, Lists, List
  <2>4. CASE i # j
    BY <2>2, <2>4 DEF JobMoves
  <2> QED  BY <2>3, <2>4
<1>5. ASSUME NEW j \in Jobs, MarkSeen(j) \/ MarkSeenFails(j) PROVE JobMoves(i)
  BY <1>5 DEF MarkSeen, MarkSeenFails, Goto, JobMoves, Marks
<1>6. ASSUME NEW j \in Jobs, ReadRow(j) PROVE JobMoves(i)
  <2>1. job[j].pc = "marked"
    BY <1>6 DEF ReadRow
  <2> DEFINE base == Visible(EntityOfJob(j))
  <2>2. job' = [job EXCEPT ![j].pc = "read", ![j].base = base]
    BY <1>6 DEF ReadRow
  <2> HIDE DEF base
  <2>3. CASE i = j
    BY <2>1, <2>2, <2>3 DEF JobMoves, Reads, base
  <2>4. CASE i # j
    BY <2>2, <2>4 DEF JobMoves
  <2> QED  BY <2>3, <2>4
<1>7. ASSUME NEW j \in Jobs, WriteRow(j) PROVE JobMoves(i)
  <2>1. PICK n \in Rows :
          /\ row[n] = NoRow /\ \A m \in Rows : m < n => row[m] # NoRow
          /\ row' = [row EXCEPT ![n] = Merged(job[j].base, job[j].files)]
          /\ Writer!Accept(n)
    BY <1>7 DEF WriteRow
  <2>2. job' = [job EXCEPT ![j] = [@ EXCEPT !.pc = "written", !.files = {}, !.base = NoRow]]
    BY <1>7 DEF WriteRow
  <2>3. Handed' = Handed \cup {n} /\ n \in held'
    BY <1>7, <2>1 DEF WriteRow, Handed, Writer!Accept
  <2>4. CASE i = j
    <3>1. job'[j].pc = "written" /\ job'[j].file = job[j].file
      BY <2>2
    <3>2. \A k \in Jobs \ {j} : job'[k] = job[k]
      BY <2>2
    <3> QED  BY <1>7, <2>1, <2>3, <2>4, <3>1, <3>2 DEF WriteRow, JobMoves, Writes
  <2>5. CASE i # j
    BY <2>2, <2>5 DEF JobMoves
  <2> QED  BY <2>4, <2>5
<1>8. ASSUME NEW j \in Jobs, Complete(j) PROVE JobMoves(i)
  BY <1>8 DEF Complete, Done, NoJob, JobMoves, Ends
<1>9. ASSUME NEW j \in Jobs, JobFails(j) PROVE JobMoves(i)
  <2> DEFINE jb == IF Exhausted(j) THEN [job[j] EXCEPT !.pc = "failed"] ELSE Retried(job[j])
  <2>1. jb.pc \in {"waiting", "failed"} /\ jb.file = job[j].file
    BY DEF Retried, Anew
  <2>2. job' = [job EXCEPT ![j] = jb] /\ job[j].pc # "none"
    BY <1>9 DEF JobFails, Running, RunningPcs
  <2> HIDE DEF jb
  <2>3. SeenCache /\ job[j].pc \in {"marked", "read"} => job[j].files \subseteq hollow'
    BY <1>9 DEF JobFails, Hollowed
  <2> QED  BY <2>1, <2>2, <2>3 DEF JobMoves, Halts
<1>10. ASSUME WorkerDies PROVE JobMoves(i)
  <2>1. CASE i \in Running
    <3>1. job'[i] = Anew(job[i]) /\ job[i].pc # "none"
      BY <1>10, <2>1 DEF WorkerDies, Running, RunningPcs
    <3>2. job'[i].pc = "waiting" /\ job'[i].file = job[i].file
      BY <3>1 DEF Anew
    <3>3. SeenCache /\ job[i].pc \in {"marked", "read"} => job[i].files \subseteq hollow'
      BY <1>10, <2>1 DEF WorkerDies, Hollowed
    <3> QED  BY <3>1, <3>2, <3>3 DEF JobMoves, Halts
  <2>2. CASE i \notin Running
    BY <1>10, <2>2 DEF WorkerDies, JobMoves
  <2> QED  BY <2>1, <2>2
<1>11. ASSUME NEW r \in Requests, Send(r) \/ UploadsSettle(r) PROVE JobMoves(i)
  BY <1>11 DEF Send, UploadsSettle, JobMoves
<1>12. ASSUME NEW f \in Files, UploadSucceeds(f) \/ UploadFails(f) \/ AddFails(f) \/ SeenExpires(f)
       PROVE  JobMoves(i)
  BY <1>12 DEF UploadSucceeds, UploadFails, AddFails, SeenExpires, JobMoves
<1>13. ASSUME SlowExpires \/ WriterInserts \/ WriterFails PROVE JobMoves(i)
  BY <1>13 DEF SlowExpires, WriterInserts, WriterFails, JobMoves
<1>14. CASE UNCHANGED vars
  BY <1>14 DEF vars, JobMoves
<1> QED
  BY <1>1, <1>2, <1>3, <1>4, <1>5, <1>6, <1>7, <1>8, <1>9, <1>10, <1>11, <1>12, <1>13, <1>14
  DEF Next, Process

(* Rows are handed over by mergeAndWrite alone, each once, and the writer  *)
(* loses none from the account.                                            *)
LEMMA RowsMove ==
  ASSUME TypeOK, JobsInv, [Next]_vars
  PROVE  \/ row' = row /\ Handed' = Handed
         \/ \E j \in Jobs, n \in Rows : Writes(j, n)
<1> DEFINE Same == row' = row /\ Handed' = Handed
<1>1. ASSUME NEW j \in Jobs, WriteRow(j) PROVE \E n \in Rows : Writes(j, n)
  <2>1. JobMoves(j)
    BY JobsMove
  <2>2. job[j].pc = "read" /\ job'[j].pc = "written"
    BY <1>1 DEF WriteRow, TypeOK
  <2> QED  BY <2>1, <2>2 DEF JobMoves, Halts, Ends, Starts, Lists, Marks, Reads
<1>2. ASSUME NEW j \in Jobs,
             \/ Begin(j) \/ Redirect(j) \/ List(j) \/ MarkSeen(j) \/ MarkSeenFails(j)
             \/ ReadRow(j) \/ Complete(j) \/ JobFails(j)
      PROVE  Same
  BY <1>2 DEF Begin, Redirect, List, MarkSeen, MarkSeenFails, ReadRow, Complete, JobFails,
    writerVars, Handed
<1>3. ASSUME NEW f \in Files,
             \/ UploadSucceeds(f) \/ UploadFails(f) \/ AddSucceeds(f) \/ AddFails(f)
             \/ SeenExpires(f)
      PROVE  Same
  BY <1>3 DEF UploadSucceeds, UploadFails, AddSucceeds, AddFails, SeenExpires, writerVars, Handed
<1>4. ASSUME NEW r \in Requests, Send(r) \/ UploadsSettle(r) PROVE Same
  BY <1>4 DEF Send, UploadsSettle, writerVars, Handed
<1>5. ASSUME WorkerDies \/ SlowExpires PROVE Same
  BY <1>5 DEF WorkerDies, SlowExpires, writerVars, Handed
<1>6. ASSUME WriterInserts PROVE Same
  BY <1>6 DEF WriterInserts, Writer!Acknowledge, Handed
<1>7. ASSUME WriterFails PROVE Same
  BY <1>7 DEF WriterFails, Writer!FailFlush, Handed
<1>8. CASE UNCHANGED vars
  BY <1>8 DEF vars, writerVars, Handed
<1> QED  BY <1>1, <1>2, <1>3, <1>4, <1>5, <1>6, <1>7, <1>8 DEF Next, Process

(* Nothing is deleted from blob storage or ClickHouse; what the writer     *)
(* inserts are rows it was handed.                                         *)
LEMMA HistoryGrows ==
  ASSUME TypeOK, [Next]_vars
  PROVE  /\ stored \subseteq stored' /\ acked \subseteq acked' /\ acked' \subseteq Handed
         /\ hollow \subseteq hollow' /\ overlapped \subseteq overlapped'
<1> DEFINE Grow == /\ stored \subseteq stored' /\ acked \subseteq acked' /\ acked' \subseteq Handed
                   /\ hollow \subseteq hollow' /\ overlapped \subseteq overlapped'
<1> USE DEF Handed
<1>1. ASSUME NEW j \in Jobs,
             \/ Begin(j) \/ Redirect(j) \/ List(j) \/ MarkSeen(j) \/ MarkSeenFails(j)
             \/ ReadRow(j) \/ Complete(j) \/ JobFails(j)
      PROVE  Grow
  BY <1>1 DEF Begin, Redirect, List, MarkSeen, MarkSeenFails, ReadRow, Complete, JobFails,
    writerVars, requestVars, historyVars
<1>2. ASSUME NEW j \in Jobs, WriteRow(j) PROVE Grow
  BY <1>2 DEF WriteRow, Writer!Accept, requestVars, historyVars
<1>3. ASSUME NEW f \in Files,
             \/ UploadSucceeds(f) \/ UploadFails(f) \/ AddSucceeds(f) \/ AddFails(f)
             \/ SeenExpires(f)
      PROVE  Grow
  BY <1>3 DEF UploadSucceeds, UploadFails, AddSucceeds, AddFails, SeenExpires, writerVars,
    requestVars, historyVars
<1>4. ASSUME NEW r \in Requests, Send(r) \/ UploadsSettle(r) PROVE Grow
  BY <1>4 DEF Send, UploadsSettle, writerVars, historyVars
<1>5. ASSUME WorkerDies \/ SlowExpires PROVE Grow
  BY <1>5 DEF WorkerDies, SlowExpires, writerVars, requestVars, historyVars
<1>6. ASSUME WriterInserts PROVE Grow
  BY <1>6 DEF WriterInserts, Writer!Acknowledge, requestVars, historyVars
<1>7. ASSUME WriterFails PROVE Grow
  BY <1>7 DEF WriterFails, Writer!FailFlush, requestVars, historyVars
<1>8. CASE UNCHANGED vars
  BY <1>8 DEF vars, writerVars, requestVars, historyVars
<1> QED  BY <1>1, <1>2, <1>3, <1>4, <1>5, <1>6, <1>7, <1>8 DEF Next, Process

(* A file is marked as recently processed by a job that has it. *)
LEMMA SeenMoves ==
  ASSUME TypeOK, [Next]_vars, NEW f \in seen' \ seen
  PROVE  SeenCache /\ \E j \in Jobs : job[j].pc = "listed" /\ job'[j].pc = "marked"
                        /\ f \in job[j].files /\ job'[j].files = job[j].files
<1> DEFINE Marked == SeenCache /\ \E j \in Jobs : job[j].pc = "listed" /\ job'[j].pc = "marked"
                        /\ f \in job[j].files /\ job'[j].files = job[j].files
<1>1. ASSUME NEW j \in Jobs, MarkSeen(j) PROVE Marked
  BY <1>1 DEF MarkSeen, Goto, TypeOK
<1>2. ASSUME NEW j \in Jobs,
             \/ Begin(j) \/ Redirect(j) \/ List(j) \/ MarkSeenFails(j)
             \/ ReadRow(j) \/ WriteRow(j) \/ Complete(j) \/ JobFails(j)
      PROVE  Marked
  BY <1>2 DEF Begin, Redirect, List, MarkSeenFails, ReadRow, WriteRow, Complete, JobFails
<1>3. ASSUME NEW g \in Files,
             \/ UploadSucceeds(g) \/ UploadFails(g) \/ AddSucceeds(g) \/ AddFails(g)
             \/ SeenExpires(g)
      PROVE  Marked
  BY <1>3 DEF UploadSucceeds, UploadFails, AddSucceeds, AddFails, SeenExpires
<1>4. ASSUME NEW r \in Requests, Send(r) \/ UploadsSettle(r) PROVE Marked
  BY <1>4 DEF Send, UploadsSettle
<1>5. ASSUME WorkerDies \/ SlowExpires \/ WriterInserts \/ WriterFails PROVE Marked
  BY <1>5 DEF WorkerDies, SlowExpires, WriterInserts, WriterFails
<1>6. CASE UNCHANGED vars
  BY <1>6 DEF vars
<1> QED  BY <1>1, <1>2, <1>3, <1>4, <1>5, <1>6 DEF Next, Process

(* A file whose job has been added has been given that job. *)
LEMMA RequestsMove ==
  ASSUME TypeOK, [Next]_vars, NEW f \in Files,
         request'[RequestOf[f]] \in {"adding", "accepted"}, f \notin pending'
  PROVE  \/ request[RequestOf[f]] \in {"adding", "accepted"} /\ f \notin pending
         \/ \E j \in Jobs : job'[j].file = f /\ job'[j].pc = "waiting"
<1> DEFINE Answers == \/ request[RequestOf[f]] \in {"adding", "accepted"} /\ f \notin pending
                   \/ \E j \in Jobs : job'[j].file = f /\ job'[j].pc = "waiting"
<1> USE PipelineConstants DEF TypeOK
<1>1. ASSUME NEW r \in Requests, Send(r) \/ UploadsSettle(r) PROVE Answers
  BY <1>1 DEF Send, UploadsSettle, FilesOf
<1>2. ASSUME NEW g \in Files, UploadSucceeds(g) \/ UploadFails(g) \/ SeenExpires(g) PROVE Answers
  BY <1>2 DEF UploadSucceeds, UploadFails, SeenExpires, requestVars
<1>3. ASSUME NEW g \in Files, AddSucceeds(g) PROVE Answers
  <2>1. CASE g = f
    <3>1. PICK j \in Jobs : job' = [job EXCEPT ![j] = Added(f)]
      BY <1>3, <2>1 DEF AddSucceeds
    <3> QED  BY <3>1 DEF Added, NoJob
  <2>2. CASE g # f
    <3>1. f \notin pending /\ request[RequestOf[g]] # "uploading"
      BY <1>3, <2>2 DEF AddSucceeds
    <3>2. request[RequestOf[f]] \in {"adding", "accepted"}
      BY <1>3, <2>2 DEF AddSucceeds
    <3> QED  BY <3>1, <3>2
  <2> QED  BY <2>1, <2>2
<1>4. ASSUME NEW g \in Files, AddFails(g) PROVE Answers
  BY <1>4 DEF AddFails
<1>5. ASSUME NEW j \in Jobs,
             \/ Begin(j) \/ Redirect(j) \/ List(j) \/ MarkSeen(j) \/ MarkSeenFails(j)
             \/ ReadRow(j) \/ WriteRow(j) \/ Complete(j) \/ JobFails(j)
      PROVE  Answers
  BY <1>5 DEF Begin, Redirect, List, MarkSeen, MarkSeenFails, ReadRow, WriteRow, Complete,
    JobFails, requestVars
<1>6. ASSUME WorkerDies \/ SlowExpires \/ WriterInserts \/ WriterFails PROVE Answers
  BY <1>6 DEF WorkerDies, SlowExpires, WriterInserts, WriterFails, requestVars
<1>7. CASE UNCHANGED vars
  BY <1>7 DEF vars, requestVars
<1> QED  BY <1>1, <1>2, <1>3, <1>4, <1>5, <1>6, <1>7 DEF Next, Process

(* processEventBatch adds no job for a file that is not uploaded, and      *)
(* answers with success only when no queue.add is outstanding.             *)
LEMMA UploadsInvKept == TypeOK /\ UploadsInv /\ [Next]_vars => UploadsInv'
<1> SUFFICES ASSUME TypeOK, UploadsInv, [Next]_vars, NEW f \in Files
             PROVE  UploadInv(f)'
  BY DEF UploadsInv
<1> USE PipelineConstants DEF TypeOK, UploadsInv, UploadInv
<1>1. ASSUME NEW r \in Requests, Send(r) \/ UploadsSettle(r) PROVE UploadInv(f)'
  BY <1>1 DEF Send, UploadsSettle, UploadErrored, FilesOf
<1>2. ASSUME NEW g \in Files, UploadSucceeds(g) \/ UploadFails(g) \/ SeenExpires(g)
      PROVE  UploadInv(f)'
  BY <1>2 DEF UploadSucceeds, UploadFails, SeenExpires, requestVars
<1>3. ASSUME NEW g \in Files, AddSucceeds(g) PROVE UploadInv(f)'
  BY <1>3 DEF AddSucceeds, FilesOf
<1>4. ASSUME NEW g \in Files, AddFails(g) PROVE UploadInv(f)'
  BY <1>4 DEF AddFails
<1>5. ASSUME NEW j \in Jobs,
             \/ Begin(j) \/ Redirect(j) \/ List(j) \/ MarkSeen(j) \/ MarkSeenFails(j)
             \/ ReadRow(j) \/ WriteRow(j) \/ Complete(j) \/ JobFails(j)
      PROVE  UploadInv(f)'
  BY <1>5 DEF Begin, Redirect, List, MarkSeen, MarkSeenFails, ReadRow, WriteRow, Complete,
    JobFails, requestVars
<1>6. ASSUME WorkerDies \/ SlowExpires \/ WriterInserts \/ WriterFails PROVE UploadInv(f)'
  BY <1>6 DEF WorkerDies, SlowExpires, WriterInserts, WriterFails, requestVars
<1>7. CASE UNCHANGED vars
  BY <1>7 DEF vars, requestVars
<1> QED  BY <1>1, <1>2, <1>3, <1>4, <1>5, <1>6, <1>7 DEF Next, Process

(* The writer gives up a row once. *)
LEMMA WriterInvKept == TypeOK /\ WriterInv /\ [Next]_vars => WriterInv'
<1> SUFFICES ASSUME TypeOK, WriterInv, [Next]_vars, NEW n \in Rows, fails'[n] # 0
             PROVE  n \in dropped' \ held'
  BY DEF WriterInv
<1> USE DEF TypeOK, WriterInv
<1>1. ASSUME NEW j \in Jobs, WriteRow(j) PROVE n \in dropped' \ held'
  BY <1>1 DEF WriteRow, Writer!Accept
<1>2. ASSUME NEW j \in Jobs,
             \/ Begin(j) \/ Redirect(j) \/ List(j) \/ MarkSeen(j) \/ MarkSeenFails(j)
             \/ ReadRow(j) \/ Complete(j) \/ JobFails(j)
      PROVE  n \in dropped' \ held'
  BY <1>2 DEF Begin, Redirect, List, MarkSeen, MarkSeenFails, ReadRow, Complete, JobFails,
    writerVars
<1>3. ASSUME NEW f \in Files,
             \/ UploadSucceeds(f) \/ UploadFails(f) \/ AddSucceeds(f) \/ AddFails(f)
             \/ SeenExpires(f)
      PROVE  n \in dropped' \ held'
  BY <1>3 DEF UploadSucceeds, UploadFails, AddSucceeds, AddFails, SeenExpires, writerVars
<1>4. ASSUME NEW r \in Requests, Send(r) \/ UploadsSettle(r) PROVE n \in dropped' \ held'
  BY <1>4 DEF Send, UploadsSettle, writerVars
<1>5. ASSUME WorkerDies \/ SlowExpires PROVE n \in dropped' \ held'
  BY <1>5 DEF WorkerDies, SlowExpires, writerVars
<1>6. ASSUME WriterInserts PROVE n \in dropped' \ held'
  BY <1>6 DEF WriterInserts, Writer!Acknowledge
<1>7. ASSUME WriterFails PROVE n \in dropped' \ held'
  BY <1>7 DEF WriterFails, Writer!FailFlush
<1>8. CASE UNCHANGED vars
  BY <1>8 DEF vars, writerVars
<1> QED  BY <1>1, <1>2, <1>3, <1>4, <1>5, <1>6, <1>7, <1>8 DEF Next, Process

(* The row a job writes: under a number of its own, with the files of its  *)
(* entity.                                                                 *)
LEMMA NewRow ==
  ASSUME TypeOK, JobsInv, RowsInv, NEW j \in Jobs, NEW n \in Rows, Writes(j, n)
  PROVE  /\ n \notin Handed /\ n \in Handed'
         /\ row'[n] # NoRow
         /\ row'[n].has = job[j].base.has \cup job[j].files
         /\ row'[n].top \in job[j].files
         /\ \A f \in job[j].files : f <= row'[n].top
         /\ job[j].files \subseteq OfEntity(EntityOfJob(j))
         /\ EntityOf[row'[n].top] = EntityOfJob(j)
         /\ row'[n].has \subseteq OfEntity(EntityOfJob(j))
         /\ \A m \in Rows \ {n} : row'[m] = row[m] /\ (m \in Handed' <=> m \in Handed)
<1>1. job[j].base \in Row /\ job[j].files \in SUBSET Files /\ job[j].files # {}
  BY DEF TypeOK, JobsInv, JobInv, AtWork, Writes
<1>2. /\ job[j].files \subseteq OfEntity(EntityOfJob(j))
      /\ job[j].base.has \subseteq OfEntity(EntityOfJob(j))
  BY DEF JobsInv, JobInv, AtWork, Writes
<1>3. row' = [row EXCEPT ![n] = Merged(job[j].base, job[j].files)] /\ Handed' = Handed \cup {n}
  BY DEF Writes
<1>4. n \notin Handed
  BY DEF Writes, RowsInv, RowInv
<1>5. row'[n] = Merged(job[j].base, job[j].files) /\ \A m \in Rows \ {n} : row'[m] = row[m]
  BY <1>3 DEF TypeOK
<1> QED  BY <1>1, <1>2, <1>3, <1>4, <1>5, MergedIs DEF OfEntity

(* Short of a crash, a row in the buffer stays there until it is inserted  *)
(* or given up; what died with a worker is not forgotten.                  *)
LEMMA BufferKeeps ==
  ASSUME TypeOK, [Next]_vars
  PROVE  /\ orphaned \subseteq orphaned' /\ dropped \subseteq dropped'
         /\ ~WorkerDies => held \subseteq held' \cup acked' \cup dropped'
<1> DEFINE Keep == /\ orphaned \subseteq orphaned' /\ dropped \subseteq dropped'
                   /\ ~WorkerDies => held \subseteq held' \cup acked' \cup dropped'
<1>1. ASSUME NEW j \in Jobs,
             \/ Begin(j) \/ Redirect(j) \/ List(j) \/ MarkSeen(j) \/ MarkSeenFails(j)
             \/ ReadRow(j) \/ Complete(j) \/ JobFails(j)
      PROVE  Keep
  BY <1>1 DEF Begin, Redirect, List, MarkSeen, MarkSeenFails, ReadRow, Complete, JobFails,
    writerVars, historyVars
<1>2. ASSUME NEW j \in Jobs, WriteRow(j) PROVE Keep
  BY <1>2 DEF WriteRow, Writer!Accept, historyVars
<1>3. ASSUME NEW f \in Files,
             \/ UploadSucceeds(f) \/ UploadFails(f) \/ AddSucceeds(f) \/ AddFails(f)
             \/ SeenExpires(f)
      PROVE  Keep
  BY <1>3 DEF UploadSucceeds, UploadFails, AddSucceeds, AddFails, SeenExpires, writerVars,
    historyVars
<1>4. ASSUME NEW r \in Requests, Send(r) \/ UploadsSettle(r) PROVE Keep
  BY <1>4 DEF Send, UploadsSettle, writerVars, historyVars
<1>5. ASSUME SlowExpires PROVE Keep
  BY <1>5 DEF SlowExpires, writerVars, historyVars
<1>6. ASSUME WriterInserts PROVE Keep
  BY <1>6 DEF WriterInserts, Writer!Acknowledge, historyVars
<1>7. ASSUME WriterFails PROVE Keep
  BY <1>7 DEF WriterFails, Writer!FailFlush, historyVars
<1>8. ASSUME WorkerDies PROVE Keep
  BY <1>8 DEF WorkerDies
<1>9. CASE UNCHANGED vars
  BY <1>9 DEF vars, writerVars, historyVars
<1> QED  BY <1>1, <1>2, <1>3, <1>4, <1>5, <1>6, <1>7, <1>8, <1>9 DEF Next, Process

(* A crash orphans nothing unless it takes a row. *)
LEMMA OrphansInvKept == TypeOK /\ OrphansInv /\ [Next]_vars => OrphansInv'
<1> SUFFICES ASSUME TypeOK, OrphansInv, [Next]_vars PROVE OrphansInv'
  OBVIOUS
<1> USE DEF OrphansInv
<1>1. ASSUME WorkerDies PROVE OrphansInv'
  <2>1. held = {} => Orphans = {}
    BY DEF Orphans
  <2> QED  BY <1>1, <2>1 DEF WorkerDies
<1>2. ASSUME NEW j \in Jobs,
             \/ Begin(j) \/ Redirect(j) \/ List(j) \/ MarkSeen(j) \/ MarkSeenFails(j)
             \/ ReadRow(j) \/ WriteRow(j) \/ Complete(j) \/ JobFails(j)
      PROVE  OrphansInv'
  BY <1>2 DEF Begin, Redirect, List, MarkSeen, MarkSeenFails, ReadRow, WriteRow, Complete,
    JobFails, writerVars, historyVars
<1>3. ASSUME NEW f \in Files,
             \/ UploadSucceeds(f) \/ UploadFails(f) \/ AddSucceeds(f) \/ AddFails(f)
             \/ SeenExpires(f)
      PROVE  OrphansInv'
  BY <1>3 DEF UploadSucceeds, UploadFails, AddSucceeds, AddFails, SeenExpires, writerVars,
    historyVars
<1>4. ASSUME NEW q \in Requests, Send(q) \/ UploadsSettle(q) PROVE OrphansInv'
  BY <1>4 DEF Send, UploadsSettle, writerVars, historyVars
<1>5. ASSUME SlowExpires \/ WriterInserts \/ WriterFails PROVE OrphansInv'
  BY <1>5 DEF SlowExpires, WriterInserts, WriterFails, writerVars, historyVars
<1>6. CASE UNCHANGED vars
  BY <1>6 DEF vars, writerVars, historyVars
<1> QED  BY <1>1, <1>2, <1>3, <1>4, <1>5, <1>6 DEF Next, Process

(* Every row handed over stays as it is. *)
LEMMA RowsStay ==
  ASSUME TypeOK, JobsInv, RowsInv, [Next]_vars, NEW n \in Handed
  PROVE  row'[n] = row[n]
<1>1. n \in Rows
  BY DEF Handed, TypeOK
<1>2. ASSUME NEW j \in Jobs, NEW m \in Rows, Writes(j, m) PROVE row'[n] = row[n]
  <2>1. m \notin Handed
    BY <1>2 DEF Writes, RowsInv, RowInv
  <2> QED  BY <1>1, <1>2, <2>1, NewRow
<1> QED  BY <1>2, RowsMove

(* What the writer has given up stays so. *)
LEMMA GivenUpStays ==
  ASSUME TypeOK, JobsInv, RowsInv, [Next]_vars, NEW f, GivenUp(f)
  PROVE  GivenUp(f)'
<1>1. CASE f \in orphaned
  BY <1>1, BufferKeeps DEF GivenUp
<1>2. ASSUME NEW n \in dropped, f \in row[n].has PROVE GivenUp(f)'
  BY <1>2, BufferKeeps, RowsStay DEF Handed, GivenUp
<1> QED  BY <1>1, <1>2 DEF GivenUp

(* Short of a crash, what the writer was handed stays accounted for; a     *)
(* crash takes what it held.                                               *)
LEMMA AccountedStays ==
  ASSUME TypeOK, JobsInv, RowsInv, [Next]_vars, NEW f \in Files, Accounted(f),
         \/ ~WorkerDies
         \/ f \in seen
         \/ f \notin pending /\ \A j \in Jobs : job[j].file = f => job[j].pc = "none"
  PROVE  Accounted(f)'
<1>1. CASE GivenUp(f)
  BY <1>1, GivenUpStays DEF Accounted
<1>2. ASSUME NEW n \in acked, f \in row[n].has PROVE Accounted(f)'
  BY <1>2, HistoryGrows, RowsStay DEF Handed, Accounted, Written
<1>3. ASSUME NEW n \in held, f \in row[n].has PROVE Accounted(f)'
  <2>1. row'[n] = row[n]
    BY RowsStay DEF Handed
  <2>2. CASE ~WorkerDies
    <3>1. n \in held' \cup acked' \cup dropped'
      BY <2>2, BufferKeeps
    <3> QED  BY <1>3, <2>1, <3>1 DEF Accounted, Written, GivenUp
  <2>3. CASE WorkerDies
    <3>1. f \in Orphans
      BY <1>3, <2>3 DEF Orphans
    <3> QED  BY <2>3, <3>1 DEF WorkerDies, Accounted, GivenUp
  <2> QED  BY <2>2, <2>3
<1> QED  BY <1>1, <1>2, <1>3 DEF Accounted, Written

(* A crash hands out every job again that was running. *)
LEMMA CrashKeepsJobs ==
  ASSUME TypeOK, WorkerDies, NEW j \in Jobs, job[j].pc # "none"
  PROVE  job'[j].file = job[j].file /\ job'[j].pc \notin {"none", "written"}
  BY DEF WorkerDies, TypeOK, Running, RunningPcs, Anew

(* The uploaded files of an entity. *)
LEMMA OfEntityGrows ==
  ASSUME TypeOK, [Next]_vars, NEW e
  PROVE  OfEntity(e) \subseteq OfEntity(e)'
  BY HistoryGrows DEF OfEntity

(* The row ClickHouse shows is the latest inserted of the entity. *)
VisibleIsLatest(e) ==
  \/ Visible(e) = NoRow /\ \A n \in acked : EntityOf[row[n].top] # e
  \/ \E n \in acked : /\ EntityOf[row[n].top] = e
                      /\ Visible(e) = row[n]
                      /\ \A m \in acked : EntityOf[row[m].top] = e => m <= n

(* ClickHouse shows the latest of the rows inserted for an entity. *)
LEMMA VisibleIs == TypeOK => \A e : VisibleIsLatest(e)
<1> SUFFICES ASSUME TypeOK, NEW e PROVE VisibleIsLatest(e)
  OBVIOUS
<1> USE DEF VisibleIsLatest
<1> DEFINE rows == {n \in acked : EntityOf[row[n].top] = e}
<1>1. rows \subseteq 1..MaxRows /\ MaxRows \in Nat
  BY PipelineConstants DEF TypeOK, Rows
<1>2. CASE rows = {}
  <2>1. Shown(e) = {}
    BY <1>2 DEF Shown
  <2> QED  BY <1>2, <2>1 DEF Visible
<1>3. CASE rows # {}
  <2>1. \E n \in rows : \A m \in rows : m <= n
    <3> HIDE DEF rows
    <3> QED  BY <1>1, <1>3, GreatestExists
  <2>2. Shown(e) = {n \in rows : \A m \in rows : m <= n}
    BY DEF Shown
  <2>3. Shown(e) # {}
    BY <2>1, <2>2
  <2>4. PICK n \in Shown(e) : Visible(e) = row[n]
    BY <2>3 DEF Visible
  <2> QED  BY <2>2, <2>4
<1> QED  BY <1>2, <1>3

(* Rows are of one entity and are numbered without gaps. *)
LEMMA RowsInvKept == TypeOK /\ JobsInv /\ RowsInv /\ [Next]_vars => RowsInv'
<1> SUFFICES ASSUME TypeOK, JobsInv, RowsInv, [Next]_vars PROVE RowsInv'
  OBVIOUS
<1>1. CASE row' = row /\ Handed' = Handed
  BY <1>1, HistoryGrows DEF RowsInv, RowInv, OfEntity
<1>2. ASSUME NEW j \in Jobs, NEW k \in Rows, Writes(j, k) PROVE RowsInv'
  <2> SUFFICES ASSUME NEW n \in Rows PROVE RowInv(n)'
    BY DEF RowsInv
  <2>1. CASE n = k
    BY <1>2, <2>1, NewRow, HistoryGrows DEF OfEntity, RowInv
  <2>2. CASE n # k
    <3>1. row'[n] = row[n] /\ (n \in Handed' <=> n \in Handed)
      BY <1>2, <2>2, NewRow
    <3>2. ASSUME row[n] = NoRow, NEW m \in Rows, n < m PROVE row'[m] = NoRow
      <4>1. m # k
        BY <1>2, <3>2 DEF Writes
      <4> QED  BY <1>2, <3>2, <4>1, NewRow DEF RowsInv, RowInv
    <3> QED  BY <3>1, <3>2, HistoryGrows DEF RowsInv, RowInv, OfEntity
  <2> QED  BY <2>1, <2>2
<1> QED  BY <1>1, <1>2, RowsMove

(* The file of a job is uploaded and among those it has listed. *)
LEMMA JobsInvKept == TypeOK /\ UploadsInv /\ JobsInv /\ RowsInv /\ [Next]_vars => JobsInv'
<1> SUFFICES ASSUME TypeOK, UploadsInv, JobsInv, RowsInv, [Next]_vars, NEW j \in Jobs
             PROVE  JobInv(j)'
  BY DEF JobsInv
<1>1. /\ stored \subseteq stored'
      /\ \A e : OfEntity(e) \subseteq OfEntity(e)'
      /\ ~WorkerDies => \A f \in Files : Accounted(f) => Accounted(f)'
  BY HistoryGrows, OfEntityGrows, AccountedStays
<1>2. CASE job'[j] = job[j]
  <2>1. job[j].pc = "written" => Accounted(job[j].file)'
    <3> SUFFICES ASSUME job[j].pc = "written" PROVE Accounted(job[j].file)'
      OBVIOUS
    <3>1. ~WorkerDies
      BY <1>2, CrashKeepsJobs
    <3>2. job[j].file \in Files /\ Accounted(job[j].file)
      BY DEF JobsInv, JobInv, TypeOK
    <3> QED  BY <1>1, <1>2, <3>1, <3>2
  <2>2. /\ job'[j].pc # "none" => job'[j].file \in stored'
        /\ AtWork(j)' => /\ job'[j].file \in job'[j].files
                         /\ job'[j].files \subseteq OfEntity(EntityOfJob(j))'
        /\ job'[j].pc = "read" => job'[j].base.has \subseteq OfEntity(EntityOfJob(j))'
    BY <1>1, <1>2 DEF JobsInv, JobInv, AtWork, EntityOfJob, OfEntity
  <2>3. job'[j].pc = "written" => Accounted(job[j].file)'
    BY <1>2, <2>1
  <2> QED  BY <1>2, <2>2, <2>3 DEF JobInv, Accounted, Written, GivenUp
<1>3. CASE Halts(j)
  BY <1>1, <1>3 DEF Halts, JobsInv, JobInv, AtWork
<1>4. CASE Ends(j)
  BY <1>4 DEF Ends, AtWork, JobInv
<1>5. CASE Starts(j)
  BY <1>1, <1>5 DEF Starts, UploadsInv, UploadInv, AtWork, TypeOK, JobInv
<1>6. CASE Lists(j)
  <2>1. /\ job[j].file \in stored /\ job'[j].file = job[j].file
        /\ job'[j].pc = "listed" /\ job'[j].files = Listing(j)
        /\ job[j].file \in Listing(j) /\ Listing(j) \subseteq OfEntity(EntityOfJob(j))
    BY <1>6, ListingHasFile DEF Lists, JobsInv, JobInv
  <2> QED  BY <1>1, <2>1 DEF AtWork, EntityOfJob, OfEntity, JobInv
<1>7. CASE Marks(j)
  BY <1>1, <1>7 DEF Marks, JobsInv, JobInv, AtWork, EntityOfJob, OfEntity
<1>8. CASE Reads(j)
  <2>1. Visible(EntityOfJob(j)).has \subseteq OfEntity(EntityOfJob(j))
    BY VisibleIs DEF VisibleIsLatest, RowsInv, RowInv, TypeOK, Handed, NoRow, OfEntity
  <2> QED  BY <1>1, <1>8, <2>1 DEF Reads, JobsInv, JobInv, AtWork, EntityOfJob, OfEntity
<1>9. ASSUME NEW n \in Rows, Writes(j, n) PROVE JobInv(j)'
  <2>1. /\ job[j].pc = "read" /\ job[j].file \in job[j].files
        /\ job'[j].file = job[j].file
    BY <1>9 DEF Writes, JobsInv, JobInv, AtWork
  <2>3. job[j].file \in row'[n].has /\ n \in held'
    <3>1. row'[n].has = job[j].base.has \cup job[j].files
      BY <1>9, NewRow
    <3>2. n \in held'
      BY <1>9 DEF Writes
    <3> QED  BY <2>1, <3>1, <3>2
  <2>2. Accounted(job[j].file)'
    BY <2>1, <2>3 DEF Written, Accounted
  <2> QED  BY <1>1, <1>9, <2>2 DEF Writes, AtWork, JobsInv, JobInv
<1>10. JobMoves(j)
  BY JobsMove
<1> QED  BY <1>2, <1>3, <1>4, <1>5, <1>6, <1>7, <1>8, <1>9, <1>10 DEF JobMoves

(* A file that was marked as recently processed is answered for: by the    *)
(* job that marked it until this writes it, and as hollow if it fails      *)
(* before that.                                                            *)
LEMMA KeptStays ==
  ASSUME TypeOK, JobsInv, RowsInv, [Next]_vars, NEW f \in Files, Kept(f),
         \/ ~WorkerDies
         \/ f \in seen
         \/ f \notin pending /\ \A j \in Jobs : job[j].file = f => job[j].pc = "none"
  PROVE  Kept(f)'
<1>1. CASE f \in hollow
  BY <1>1, HistoryGrows DEF Kept
<1>2. CASE Accounted(f)
  BY <1>2, AccountedStays DEF Kept
<1>3. ASSUME SeenCache, NEW j \in Jobs, job[j].pc \in {"marked", "read"}, f \in job[j].files
      PROVE  Kept(f)'
  <2>1. CASE job'[j] = job[j] \/ Marks(j) \/ Reads(j)
    BY <1>3, <2>1 DEF Kept, Marks, Reads
  <2>2. CASE Halts(j)
    BY <1>3, <2>2 DEF Kept, Halts
  <2>3. CASE Ends(j) \/ Starts(j) \/ Lists(j)
    BY <1>3, <2>3 DEF Ends, Starts, Lists
  <2>4. ASSUME NEW n \in Rows, Writes(j, n) PROVE Kept(f)'
    <3>1. f \in row'[n].has
      BY <1>3, <2>4, NewRow
    <3>2. n \in held'
      BY <2>4 DEF Writes
    <3> QED  BY <3>1, <3>2 DEF Kept, Written, Accounted
  <2> QED  BY <2>1, <2>2, <2>3, <2>4, JobsMove DEF JobMoves
<1> QED  BY <1>1, <1>2, <1>3 DEF Kept

(* A job ends without a write only if its file was marked as recently      *)
(* processed.                                                              *)
LEMMA AnswersInvKept ==
  TypeOK /\ JobsInv /\ RowsInv /\ AnswersInv /\ [Next]_vars => AnswersInv'
<1> SUFFICES ASSUME TypeOK, JobsInv, RowsInv, AnswersInv, [Next]_vars PROVE AnswersInv'
  OBVIOUS
<1>1. ASSUME NEW f \in seen' PROVE Kept(f)'
  <2>1. CASE f \in seen
    BY <2>1, KeptStays DEF AnswersInv, TypeOK
  <2>2. CASE f \notin seen
    BY <2>2, SeenMoves DEF Kept
  <2> QED  BY <2>1, <2>2
<1>2. ASSUME NEW f \in Files, f \notin pending, Answered(f) PROVE Answered(f)'
  <2>1. CASE Kept(f) /\ (~WorkerDies \/ \A j \in Jobs : job[j].file = f => job[j].pc = "none")
    BY <1>2, <2>1, KeptStays DEF Answered
  <2>2. ASSUME NEW j \in Jobs, job[j].file = f, job[j].pc # "none" PROVE Answered(f)'
    <3>1. CASE job'[j].pc # "none" /\ job'[j].file = f
      BY <3>1 DEF Answered
    <3>2. CASE Ends(j)
      <4>1. Kept(f)
        BY <2>2, <3>2 DEF Ends, AnswersInv, JobsInv, JobInv, Kept
      <4>2. ~WorkerDies
        BY <2>2, <3>2, CrashKeepsJobs DEF Ends
      <4> QED  BY <4>1, <4>2, KeptStays DEF Answered
    <3> QED
      BY <2>2, <3>1, <3>2, JobsMove
      DEF JobMoves, Halts, Starts, Lists, Marks, Reads, Writes
  <2> QED  BY <1>2, <2>1, <2>2 DEF Answered, Kept
<1>3. ASSUME NEW f \in Files, request'[RequestOf[f]] \in {"adding", "accepted"}, f \notin pending'
      PROVE  Answered(f)'
  <2>1. CASE request[RequestOf[f]] \in {"adding", "accepted"} /\ f \notin pending
    BY <1>2, <2>1 DEF AnswersInv
  <2>2. ASSUME NEW j \in Jobs, job'[j].file = f, job'[j].pc = "waiting" PROVE Answered(f)'
    BY <2>2 DEF Answered
  <2> QED  BY <1>3, <2>1, <2>2, RequestsMove
<1> QED  BY <1>1, <1>3 DEF AnswersInv

(* A job between its listing and its write keeps its files. *)
LEMMA AtWorkMoves ==
  ASSUME TypeOK, JobsInv, [Next]_vars, NEW j \in Jobs, AtWork(j)'
  PROVE  \/ Lists(j)
         \/ /\ AtWork(j) /\ job'[j].file = job[j].file /\ job'[j].files = job[j].files
            /\ job'[j].pc = "read" =>
                 \/ job[j].pc = "read" /\ job'[j].base = job[j].base
                 \/ job'[j].base = Visible(EntityOfJob(j))
  BY JobsMove DEF JobMoves, AtWork, Halts, Ends, Starts, Marks, Reads, Writes

(* Two jobs of an entity between their listing and their write would have  *)
(* been recorded as overlapping.                                           *)
LEMMA AloneAtWork ==
  ASSUME TypeOK, JobsInv, AloneInv, [Next]_vars, NEW i \in Jobs, NEW j \in Jobs,
         AtWork(i)', AtWork(j)', EntityOfJob(i)' = EntityOfJob(j)', Alone(EntityOfJob(i))'
  PROVE  i = j
<1>1. EntityOfJob(i)' = EntityOfJob(i) /\ EntityOfJob(j)' = EntityOfJob(j)
  BY AtWorkMoves DEF Lists, EntityOfJob
<1>2. EntityOfJob(i) = EntityOfJob(j) /\ EntityOfJob(i) \notin overlapped'
  BY <1>1 DEF Alone
<1>3. Alone(EntityOfJob(i))
  BY <1>1, HistoryGrows DEF Alone
<1>4. CASE Lists(i)
  <2> SUFFICES ASSUME j # i PROVE FALSE
    OBVIOUS
  <2> QED  BY <1>2, <1>4 DEF Lists, AtWork
<1>5. CASE Lists(j)
  <2> SUFFICES ASSUME j # i PROVE FALSE
    OBVIOUS
  <2> QED  BY <1>2, <1>5 DEF Lists, AtWork
<1>6. CASE AtWork(i) /\ AtWork(j)
  BY <1>2, <1>3, <1>6 DEF AloneInv
<1> QED  BY <1>4, <1>5, <1>6, AtWorkMoves

(* A job that is alone has listed every event of every row of its entity:  *)
(* those of rows still in the writer's buffer too, which its merge does    *)
(* not see.                                                                *)
LEMMA FilesCoverRows ==
  ASSUME TypeOK, JobsInv, RowsInv, AloneInv, [Next]_vars, NEW j \in Jobs,
         AtWork(j)', Alone(EntityOfJob(j))'
  PROVE  /\ \A n \in RowsOf(EntityOfJob(j))' : row'[n].has \subseteq job'[j].files
         /\ job'[j].pc = "read" => job'[j].base.has \subseteq job'[j].files
<1> DEFINE e == EntityOfJob(j)
<1>1. EntityOfJob(j)' = e
  BY AtWorkMoves DEF Lists, EntityOfJob
<1>2. Alone(e) /\ e \notin SkipList
  BY <1>1, HistoryGrows DEF Alone
<1>3. Handed \subseteq Rows /\ acked \subseteq Handed /\ NoRow.has = {}
  BY DEF TypeOK, Handed, NoRow
<1>4. CASE Lists(j)
  <2>1. ~(\E k \in Jobs, n \in Rows : Writes(k, n))
    BY <1>4 DEF Lists, Writes
  <2>2. row' = row /\ Handed' = Handed
    BY <2>1, RowsMove
  <2>3. job'[j].files = OfEntity(e) /\ job'[j].pc = "listed"
    BY <1>2, <1>4, ListingHasFile DEF Lists
  <2>4. \A n \in Handed : EntityOf[row[n].top] = e => row[n].has \subseteq OfEntity(e)
    BY <1>3 DEF RowsInv, RowInv
  <2> QED  BY <1>1, <2>2, <2>3, <2>4 DEF RowsOf
<1>5. CASE AtWork(j) /\ ~Lists(j)
  <2>1. /\ job'[j].files = job[j].files
        /\ job'[j].pc = "read" =>
             (job[j].pc = "read" /\ job'[j].base = job[j].base) \/ job'[j].base = Visible(e)
    BY <1>5, AtWorkMoves
  <2>2. \A n \in Handed : EntityOf[row[n].top] = e => row[n].has \subseteq job[j].files
    BY <1>2, <1>5 DEF AloneInv, RowsOf
  <2>3. job'[j].pc = "read" => job'[j].base.has \subseteq job'[j].files
    <3>1. Visible(e).has \subseteq job[j].files
      BY <1>3, <2>2, VisibleIs DEF VisibleIsLatest
    <3> QED  BY <1>2, <1>5, <2>1, <3>1 DEF AloneInv
  <2>4. ASSUME NEW n \in Handed', EntityOf[row'[n].top] = e
        PROVE  row'[n].has \subseteq job'[j].files
    <3>1. CASE row' = row /\ Handed' = Handed
      BY <2>1, <2>2, <2>4, <3>1
    <3>2. ASSUME NEW k \in Jobs, NEW m \in Rows, Writes(k, m)
          PROVE  row'[n].has \subseteq job'[j].files
      <4>1. AtWork(k) /\ k # j
        BY <3>2 DEF Writes, AtWork
      <4>2. EntityOfJob(k) # e
        BY <1>2, <1>5, <4>1 DEF AloneInv
      <4>3. Handed' = Handed \cup {m} /\ EntityOf[row'[m].top] = EntityOfJob(k)
        BY <3>2, NewRow DEF Writes
      <4>4. n # m /\ n \in Rows
        BY <2>4, <4>2, <4>3, <1>3
      <4>5. row'[n] = row[n] /\ n \in Handed
        BY <3>2, <4>3, <4>4, NewRow
      <4> QED  BY <2>1, <2>2, <2>4, <4>5
    <3> QED  BY <3>1, <3>2, RowsMove
  <2> QED  BY <1>1, <2>3, <2>4 DEF RowsOf
<1> QED  BY <1>4, <1>5, AtWorkMoves

(* So of an entity whose jobs were alone every row has the events of all   *)
(* earlier ones, and the values of the latest event among them.            *)
LEMMA RowsCoverRows ==
  ASSUME TypeOK, JobsInv, RowsInv, AloneInv, [Next]_vars, NEW n \in Handed',
         Alone(EntityOf[row[n].top])'
  PROVE  /\ \A m \in Handed' :
              EntityOf[row'[m].top] = EntityOf[row'[n].top] /\ m < n =>
                row'[m].has \subseteq row'[n].has
         /\ \A f \in row'[n].has : f <= row'[n].top
<1> DEFINE e == EntityOf[row'[n].top]
<1>1. Alone(e)
  BY HistoryGrows DEF Alone
<1>2. Handed \subseteq Rows
  BY DEF TypeOK, Handed
<1>3. CASE row' = row /\ Handed' = Handed
  BY <1>1, <1>3 DEF AloneInv, RowsOf
<1>4. ASSUME NEW k \in Jobs, NEW p \in Rows, Writes(k, p)
      PROVE  /\ \A m \in Handed' :
                  EntityOf[row'[m].top] = e /\ m < n => row'[m].has \subseteq row'[n].has
             /\ \A f \in row'[n].has : f <= row'[n].top
  <2>1. /\ Handed' = Handed \cup {p}
        /\ \A m \in Handed : m # p /\ row'[m] = row[m] /\ row[m] # NoRow
    BY <1>2, <1>4, NewRow DEF Writes, RowsInv, RowInv
  <2>2. \A m \in Handed : m < p
    <3>1. \A m \in Rows : p < m => row[m] = NoRow
      BY <1>4 DEF Writes, RowsInv, RowInv
    <3> QED  BY <1>2, <2>1, <3>1 DEF Rows
  <2>3. CASE n = p
    <3>1. EntityOfJob(k) = e /\ AtWork(k) /\ job[k].pc = "read"
      <4>1. EntityOf[row'[p].top] = EntityOfJob(k)
        BY <1>4, NewRow
      <4>2. AtWork(k) /\ job[k].pc = "read"
        BY <1>4 DEF Writes, AtWork
      <4> QED  BY <2>3, <4>1, <4>2
    <3>2. /\ row'[n].has = job[k].files
          /\ \A m \in Handed : EntityOf[row[m].top] = e => row[m].has \subseteq job[k].files
      <4>1. row'[n].has = job[k].base.has \cup job[k].files
        BY <1>4, <2>3, NewRow
      <4>2. Alone(EntityOfJob(k))
        BY <1>1, <3>1
      <4> QED  BY <3>1, <4>1, <4>2 DEF AloneInv, RowsOf
    <3>3. \A f \in row'[n].has : f <= row'[n].top
      BY <1>4, <2>3, <3>2, NewRow
    <3> QED  BY <1>2, <2>1, <2>3, <3>2, <3>3 DEF Rows
  <2>4. CASE n # p
    <3>1. n \in Handed
      BY <1>2, <2>1, <2>4
    <3>2. row'[n] = row[n] /\ n < p
      BY <2>1, <2>2, <3>1
    <3>3. ~(p < n)
      <4>1. n \in Rows
        BY <1>2, <3>1
      <4>2. n \in Int /\ p \in Int
        BY <4>1, PipelineAssumption DEF Rows
      <4>3. n < p
        BY <3>2
      <4> HIDE DEF e
      <4> QED  BY <4>2, <4>3
    <3> QED  BY <1>1, <2>1, <3>1, <3>2, <3>3 DEF AloneInv, RowsOf
  <2> QED  BY <2>3, <2>4
<1> QED  BY <1>3, <1>4, RowsMove

(* Every step keeps the inductive invariant. *)
LEMMA PipelineInvKept == PipelineInv /\ [Next]_vars => PipelineInv'
<1> SUFFICES ASSUME PipelineInv, [Next]_vars PROVE PipelineInv'
  OBVIOUS
<1> USE DEF PipelineInv
<1>1. TypeOK' /\ UploadsInv' /\ WriterInv' /\ OrphansInv'
  BY TypesKept, UploadsInvKept, WriterInvKept, OrphansInvKept
<1>2. RowsInv' /\ JobsInv' /\ AnswersInv'
  BY RowsInvKept, JobsInvKept, AnswersInvKept
<1>3. AloneInv'
  BY AloneAtWork, FilesCoverRows, RowsCoverRows DEF AloneInv, RowsOf
<1> QED  BY <1>1, <1>2, <1>3

(* It holds before the first request. *)
LEMMA PipelineInvInit == Init => PipelineInv
<1> SUFFICES ASSUME Init PROVE PipelineInv
  OBVIOUS
<1>1. TypeOK
  <2>1. job \in [Jobs -> JobType] /\ row \in [Rows -> Row] /\ 0 \in 0..MaxFaults
    BY NewJobs, PipelineConstants DEF Init
  <2>2. fails \in [Rows -> 0..1] /\ UNION {held, acked, dropped, lost} \subseteq Rows
    BY DEF Init, Writer!Init
  <2> QED  BY <2>1, <2>2 DEF Init, TypeOK, JobType
<1>2. \A j \in Jobs : job[j].pc = "none"
  BY DEF Init, NoJob
<1>3. Handed = {}
  BY DEF Init, Writer!Init, Handed
<1>4. UploadsInv /\ WriterInv /\ OrphansInv /\ RowsInv
  BY <1>3, PipelineConstants DEF Init, Writer!Init, UploadsInv, UploadInv, WriterInv,
    OrphansInv, RowsInv, RowInv
<1>5. JobsInv /\ AnswersInv /\ AloneInv
  BY <1>2, <1>3, PipelineConstants DEF Init, JobsInv, JobInv, AnswersInv, AloneInv, AtWork
<1> QED  BY <1>1, <1>4, <1>5 DEF PipelineInv

(* It always holds. *)
LEMMA PipelineInvHolds == Spec => []PipelineInv
  BY PipelineInvInit, PipelineInvKept, PTL DEF Spec

(* Requests, jobs, rows and the writer keep their types. *)
THEOREM PipelineTyped == Spec => []TypeOK
<1>1. PipelineInv => TypeOK
  BY DEF PipelineInv
<1> QED  BY <1>1, PipelineInvHolds, PTL

(* An event that processEventBatch has answered with success is in the     *)
(* ClickhouseWriter's buffer or in ClickHouse, or a job in Redis answers   *)
(* for it, or it was lost in one of three recorded ways: marked as seen by *)
(* an attempt that failed before its write (ingestionQueue.ts), given up   *)
(* by the writer, or in the buffer of a worker that died when no job was   *)
(* left to write it again. For any number of requests, entities, files,    *)
(* jobs, attempts, errors and crashes.                                     *)
THEOREM AcceptedEventsAreAnsweredFor == Spec => []AcceptedIsAnsweredFor
<1>1. PipelineInv => AcceptedIsAnsweredFor
  <2> SUFFICES ASSUME PipelineInv, NEW f \in Accepted
               PROVE  Answerable(f) \/ Written(f) \/ f \in hollow \/ GivenUp(f)
    BY DEF AcceptedIsAnsweredFor
  <2>1. Answered(f)
    BY DEF PipelineInv, AnswersInv, UploadsInv, UploadInv, Accepted
  <2> QED  BY <2>1 DEF Answered, Kept, Accounted, Answerable, Running, RunningPcs
<1> QED  BY <1>1, PipelineInvHolds, PTL

(* When all is done and the writer has given nothing up, ClickHouse shows  *)
(* of every entity whose jobs did not overlap every accepted event that is *)
(* not hollow, with the values of the latest                               *)
(* (IngestionService.mergeAndWrite), in whatever order requests, jobs,     *)
(* retries and inserts were carried out.                                   *)
THEOREM ClickhouseConverges == Spec => []Converges
<1>1. PipelineInv => Converges
  <2> SUFFICES ASSUME PipelineInv, Quiet, dropped = {}, lost = {}, NEW f \in Accepted \ hollow,
                      EntityOf[f] \notin overlapped \cup SkipList
               PROVE  f \in Visible(EntityOf[f]).has /\ f <= Visible(EntityOf[f]).top
    BY DEF Converges
  <2> DEFINE e == EntityOf[f]
  <2>1. Answered(f)
    BY DEF PipelineInv, AnswersInv, UploadsInv, UploadInv, Accepted
  <2>2. PICK m \in Handed : f \in row[m].has
    <3>1. Accounted(f) /\ orphaned = {}
      BY <2>1 DEF Answered, Kept, Quiet, PipelineInv, OrphansInv
    <3> QED  BY <3>1 DEF Accounted, Written, GivenUp, Handed
  <2>3. Handed = acked /\ acked \subseteq Rows
    BY DEF Handed, Quiet, PipelineInv, TypeOK
  <2>4. EntityOf[row[m].top] = e
    BY <2>2, <2>3 DEF PipelineInv, RowsInv, RowInv, OfEntity
  <2>5. PICK n \in acked : /\ EntityOf[row[n].top] = e /\ Visible(e) = row[n]
                           /\ m <= n
    BY <2>2, <2>3, <2>4, VisibleIs DEF PipelineInv, VisibleIsLatest
  <2>6. row[m].has \subseteq row[n].has /\ \A g \in row[n].has : g <= row[n].top
    <3>1. m < n => row[m].has \subseteq row[n].has
      BY <2>2, <2>3, <2>4, <2>5 DEF PipelineInv, AloneInv, Alone, RowsOf
    <3>2. m < n \/ m = n
      BY <2>2, <2>3, <2>5 DEF Rows
    <3>3. \A g \in row[n].has : g <= row[n].top
      BY <2>3, <2>5 DEF PipelineInv, AloneInv, Alone
    <3> QED  BY <3>1, <3>2, <3>3
  <2> QED  BY <2>2, <2>5, <2>6
<1> QED  BY <1>1, PipelineInvHolds, PTL

(* The same after a step. *)
LEMMA VisibleIsNext == (TypeOK => \A e : VisibleIsLatest(e))'
  BY VisibleIs, PTL

(* What ClickHouse shows of such an entity never loses an event, whichever *)
(* rows the writer inserts first.                                          *)
THEOREM NothingIsUnshown == Spec => NothingUnshown
<1>1. ASSUME PipelineInv, PipelineInv', [Next]_vars,
             NEW e \in Entities \ (overlapped \cup SkipList)
      PROVE  Visible(e).has \subseteq Visible(e).has'
  <2>1. VisibleIsLatest(e)
    BY <1>1, VisibleIs DEF PipelineInv
  <2>2. VisibleIsLatest(e)'
    <3>1. TypeOK'
      BY <1>1 DEF PipelineInv
    <3> QED  BY <3>1, VisibleIsNext
  <2>3. acked \subseteq Handed /\ Handed \subseteq Rows /\ NoRow.has = {}
    BY <1>1 DEF PipelineInv, TypeOK, Handed, NoRow
  <2>4. /\ acked \subseteq acked' /\ acked' \subseteq Handed
        /\ \A n \in Handed : row'[n] = row[n]
    <3>1. acked \subseteq acked' /\ acked' \subseteq Handed
      BY <1>1, HistoryGrows DEF PipelineInv
    <3>2. \A n \in Handed : row'[n] = row[n]
      BY <1>1, <2>3, RowsMove, NewRow DEF PipelineInv
    <3> QED  BY <3>1, <3>2
  <2>5. CASE Visible(e) = NoRow
    BY <2>3, <2>5
  <2>6. ASSUME NEW n \in acked, EntityOf[row[n].top] = e, Visible(e) = row[n]
        PROVE  Visible(e).has \subseteq Visible(e).has'
    <3>1. PICK k \in acked' : /\ EntityOf[row'[k].top] = e
                              /\ Visible(e)' = row'[k]
                              /\ n <= k
      BY <2>2, <2>4, <2>6, <2>3 DEF VisibleIsLatest
    <3>2. k \in Handed /\ row'[k] = row[k] /\ (n < k \/ n = k)
      <4>1. n \in Rows /\ k \in Handed /\ k \in Rows
        BY <2>3, <2>4, <3>1
      <4> QED  BY <2>4, <3>1, <4>1 DEF Rows
    <3>3. n < k => row[n].has \subseteq row[k].has
      BY <1>1, <2>3, <2>6, <3>1, <3>2 DEF PipelineInv, AloneInv, Alone, RowsOf
    <3> QED  BY <2>6, <3>1, <3>2, <3>3
  <2> QED  BY <2>1, <2>5, <2>6 DEF VisibleIsLatest
<1>2. PipelineInv /\ PipelineInv' /\ [Next]_vars =>
        [\A e \in Entities \ (overlapped \cup SkipList) :
           Visible(e).has \subseteq Visible(e).has']_vars
  BY <1>1
<1> QED  BY <1>2, PipelineInvHolds, PTL DEF NothingUnshown, Spec
=============================================================================
