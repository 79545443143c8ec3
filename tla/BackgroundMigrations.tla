------------------------ MODULE BackgroundMigrations ------------------------
(***************************************************************************)
(* The background_migrations table and the worker processes that work      *)
(* through it: each runs BackgroundMigrationManager.run() once, when it    *)
(* starts, and close() when it is asked to terminate.  A migration is      *)
(* locked by a lease of 60 s that its worker's heartbeats renew; time is   *)
(* abstracted to the moments at which a lease lapses.  A step ends where   *)
(* the code awaits, so close() and the run loop of one process interleave  *)
(* as they do in its event loop.                                           *)
(* Definitions named Fault... are deliberate errors: no definition uses    *)
(* one, and each shows that a property would notice it.                    *)
(* src/worker/src/backgroundMigrations/backgroundMigrationManager.ts       *)
(***************************************************************************)
EXTENDS Naturals, FiniteSets

CONSTANTS
  Workers,       \* worker processes; a restarted one is another worker
  Count,         \* migrations are numbered in the order of their names
  Dormant,       \* migrations whose envGate is not "true"
  Batches,       \* batches of work in each migration
  Incidents,     \* the kinds of incident that may happen (below)
  MaxIncidents,  \* how many incidents there are at most (bounds the model)
  None           \* no worker, no migration

Migrations == 1..Count

(* Incidents: a worker is killed, stalls beyond its lease, or is asked to  *)
(* close; a statement on the table fails; a migration is invalid, its      *)
(* validate throws, or a batch of it throws; an administrator retries a    *)
(* migration that no worker works on, or one that is being worked on.      *)
Kinds == {"kill", "stall", "close", "db", "invalid", "validateThrows", "batchThrows",
          "retry", "retryBusy"}

ASSUME MigrationsAssumption ==
  /\ Count \in Nat
  /\ Dormant \subseteq Migrations
  /\ Batches \in Nat \ {0}
  /\ Incidents \subseteq Kinds
  /\ MaxIncidents \in Nat
  /\ None \notin Workers \cup Migrations

VARIABLES
  pc,            \* where the run loop of a worker is
  goOn,          \* its migrationToRun
  active,        \* its activeMigration, shared with close() and the heartbeat
  job,           \* its local `active`: the migration this iteration runs
  cursor,        \* the batch its migration instance is at
  aborted,       \* isAborted of the instance in activeMigration
  closing,       \* where its close() is
  closeOf,       \* the migration whose row close() unlocks
  finished,      \* rows: finishedAt is set
  failed,        \* rows: failedAt is set
  lease,         \* rows: lockedAt is null ("free"), recent ("live"), old ("lapsed")
  owner,         \* rows: workerId
  progress,      \* rows: state, the batch to resume from
  work,          \* history: batches done since the migration was last reset
  incidents      \* history: the incidents so far

workerVars == <<pc, goOn, active, job, cursor, aborted, closing, closeOf>>
rowVars == <<finished, failed, lease, owner, progress, work>>
vars == <<workerVars, rowVars, incidents>>

Happened(kinds) == \E i \in incidents : i[1] \in kinds

(* Each incident is recorded under a number of its own. *)
Incident(kind) ==
  /\ kind \in Incidents
  /\ Cardinality(incidents) < MaxIncidents
  /\ incidents' = incidents \cup {<<kind, Cardinality(incidents) + 1>>}

Up(w) == pc[w] \notin {"down", "dead"}

Init ==
  /\ pc = [w \in Workers |-> "down"]
  /\ goOn = [w \in Workers |-> TRUE]
  /\ active = [w \in Workers |-> None]
  /\ job = [w \in Workers |-> None]
  /\ cursor = [w \in Workers |-> 0]
  /\ aborted = [w \in Workers |-> FALSE]
  /\ closing = [w \in Workers |-> "no"]
  /\ closeOf = [w \in Workers |-> None]
  /\ finished = [m \in Migrations |-> FALSE]
  /\ failed = [m \in Migrations |-> FALSE]
  /\ lease = [m \in Migrations |-> "free"]
  /\ owner = [m \in Migrations |-> None]
  /\ progress = [m \in Migrations |-> 0]
  /\ work = [m \in Migrations |-> {}]
  /\ incidents = {}

(***************************************************************************)
(* run(): taking the next migration                                        *)
(***************************************************************************)
Goto(w, place) == pc' = [pc EXCEPT ![w] = place]

(* app.ts calls run() once, while the process starts. *)
Start(w) ==
  /\ pc[w] = "down"
  /\ Goto(w, "pick")
  /\ UNCHANGED <<goOn, active, job, cursor, aborted, closing, closeOf, rowVars, incidents>>

FaultSelectFailedToo == {m \in Migrations : ~finished[m] /\ m \notin Dormant}

Candidates == {m \in Migrations : ~finished[m] /\ ~failed[m] /\ m \notin Dormant}

(* findFirst orders by name; the lease is looked at afterwards. *)
FaultFirst(ms) == {m \in ms : \A n \in ms : lease[n] # "live" => m <= n}

First(ms) == {m \in ms : \A n \in ms : m <= n}

FaultPicks ==
  {m \in First({n \in Migrations : ~finished[n] /\ ~failed[n]}) :
     lease[m] # "live" /\ m \notin Dormant}

Picks == {m \in First(Candidates) : lease[m] # "live"}

(* The serializable transaction takes the lock and sets activeMigration to *)
(* a new instance of the migration.                                        *)
Acquire(w) ==
  /\ pc[w] = "pick"
  /\ \E m \in Picks :
       /\ lease' = [lease EXCEPT ![m] = "live"]
       /\ owner' = [owner EXCEPT ![m] = w]
       /\ active' = [active EXCEPT ![w] = m]
  /\ aborted' = [aborted EXCEPT ![w] = FALSE]
  /\ Goto(w, "beat")
  /\ UNCHANGED <<goOn, job, cursor, closing, closeOf, finished, failed, progress, work,
                 incidents>>

(* Nothing to run, or the first migration is locked.  An activeMigration   *)
(* that is still set is run all the same, before the loop ends.            *)
NothingToRun(w) ==
  /\ pc[w] = "pick"
  /\ Picks = {}
  /\ goOn' = [goOn EXCEPT ![w] = FALSE]
  /\ Goto(w, IF active[w] = None THEN "done" ELSE "beat")
  /\ UNCHANGED <<active, job, cursor, aborted, closing, closeOf, rowVars, incidents>>

(* The transaction fails, before or after it has set activeMigration (on a *)
(* serialization conflict for one), or the first heartbeat does: run()     *)
(* rejects, no heartbeat is scheduled, and activeMigration stays set.      *)
AcquireFails(w) ==
  /\ pc[w] = "pick"
  /\ Incident("db")
  /\ \E m \in Picks \cup {active[w]} :
       /\ active' = [active EXCEPT ![w] = m]
       /\ aborted' = [aborted EXCEPT ![w] = @ /\ m = active[w]]
  /\ Goto(w, "mute")
  /\ UNCHANGED <<goOn, job, cursor, closing, closeOf, rowVars>>

FirstBeatFails(w) ==
  /\ pc[w] = "beat"
  /\ Incident("db")
  /\ Goto(w, "mute")
  /\ UNCHANGED <<goOn, active, job, cursor, aborted, closing, closeOf, rowVars>>

(***************************************************************************)
(* heartBeat(): updateMany matches the row of activeMigration if this      *)
(* worker owns it and it is neither finished nor failed.                   *)
(***************************************************************************)
Keeps(w, m) == active[w] = m /\ owner[m] = w /\ ~finished[m] /\ ~failed[m]

Renewed(w) == [m \in Migrations |-> IF Keeps(w, m) THEN "live" ELSE lease[m]]

(* The first heartbeat of an iteration, after which the local reference is *)
(* taken; reading it fails if close() has cleared activeMigration.         *)
FirstBeat(w) ==
  /\ pc[w] = "beat"
  /\ lease' = Renewed(w)
  /\ job' = [job EXCEPT ![w] = active[w]]
  /\ Goto(w, IF active[w] = None THEN "rejected" ELSE "validate")
  /\ UNCHANGED <<goOn, active, cursor, aborted, closing, closeOf, finished, failed, owner,
                 progress, work, incidents>>

(* Later heartbeats: the timer keeps firing while activeMigration is set.  *)
(* After a first heartbeat that failed there may be the timer of an        *)
(* earlier iteration.                                                      *)
HeartBeat(w) ==
  /\ Up(w)
  /\ pc[w] # "beat"
  /\ Renewed(w) # lease
  /\ lease' = Renewed(w)
  /\ UNCHANGED <<workerVars, finished, failed, owner, progress, work, incidents>>

(* Sixty seconds pass without a heartbeat. *)
LeaseLapses(m) ==
  /\ lease[m] = "live"
  /\ IF \E w \in Workers : Up(w) /\ pc[w] # "mute" /\ Keeps(w, m)
     THEN Incident("stall")
     ELSE UNCHANGED incidents
  /\ lease' = [lease EXCEPT ![m] = "lapsed"]
  /\ UNCHANGED <<workerVars, finished, failed, owner, progress, work>>

(***************************************************************************)
(* run(): validation                                                       *)
(***************************************************************************)
(* The instance reads the state of its row and goes on from there. *)
FaultResumeFrom(m) == progress[m] + 1

ResumeFrom(m) == progress[m]

ValidateSucceeds(w) ==
  /\ pc[w] = "validate"
  /\ cursor' = [cursor EXCEPT ![w] = ResumeFrom(job[w])]
  /\ Goto(w, "running")
  /\ UNCHANGED <<goOn, active, job, aborted, closing, closeOf, rowVars, incidents>>

(* The row is to be marked as failed and the loop to go on, activeMigration *)
(* still set.                                                              *)
ValidateFails(w) ==
  /\ pc[w] = "validate"
  /\ Incident("invalid")
  /\ Goto(w, "invalid")
  /\ UNCHANGED <<goOn, active, job, cursor, aborted, closing, closeOf, rowVars>>

(* validate() is called outside the try block: run() rejects. *)
ValidateThrows(w) ==
  /\ pc[w] = "validate"
  /\ Incident("validateThrows")
  /\ Goto(w, "rejected")
  /\ UNCHANGED <<goOn, active, job, cursor, aborted, closing, closeOf, rowVars>>

(***************************************************************************)
(* run(): the migration itself, a loop over batches with a cursor          *)
(* (backfillValidToForDatasetItems.ts), saved in the row by its id alone.  *)
(***************************************************************************)
FaultExhausted(w) == cursor[w] > Batches

Exhausted(w) == cursor[w] = Batches

ProcessBatch(w) ==
  /\ pc[w] = "running"
  /\ ~aborted[w]
  /\ ~Exhausted(w)
  /\ work' = [work EXCEPT ![job[w]] = @ \cup {cursor[w]}]
  /\ Goto(w, "saving")
  /\ UNCHANGED <<goOn, active, job, cursor, aborted, closing, closeOf, finished, failed, lease,
                 owner, progress, incidents>>

(* Another await: the batch is done and the row still names it.  The loop  *)
(* looks at isAborted at its head only.                                    *)
SaveCursor(w) ==
  /\ pc[w] = "saving"
  /\ cursor' = [cursor EXCEPT ![w] = @ + 1]
  /\ progress' = [progress EXCEPT ![job[w]] = cursor'[w]]
  /\ Goto(w, "running")
  /\ UNCHANGED <<goOn, active, job, aborted, closing, closeOf, finished, failed, lease, owner,
                 work, incidents>>

(* The statement of the batch fails, or the one that saves the cursor. *)
BatchThrows(w) ==
  /\ pc[w] \in {"running", "saving"}
  /\ Incident("batchThrows")
  /\ Goto(w, "threw")
  /\ UNCHANGED <<goOn, active, job, cursor, aborted, closing, closeOf, rowVars>>

LoopHead(w) == IF goOn[w] THEN "pick" ELSE "done"

(* Back at the head of the loop with activeMigration cleared. *)
EndIteration(w) ==
  /\ active' = [active EXCEPT ![w] = None]
  /\ Goto(w, LoopHead(w))

(* The migration returns, at its end or aborted; only if activeMigration   *)
(* is still set is the row to be marked as finished.                       *)
RunReturns(w) ==
  /\ pc[w] = "running"
  /\ Exhausted(w) \/ aborted[w]
  /\ IF active[w] # None
     THEN Goto(w, "finishing") /\ UNCHANGED active
     ELSE EndIteration(w)
  /\ UNCHANGED <<goOn, job, cursor, aborted, closing, closeOf, rowVars, incidents>>

(***************************************************************************)
(* run(): marking the row, which a worker that no longer owns it cannot:   *)
(* update() then throws, like after a database error.                      *)
(***************************************************************************)
Finish(w) ==
  /\ pc[w] = "finishing"
  /\ owner[job[w]] = w
  /\ finished' = [finished EXCEPT ![job[w]] = TRUE]
  /\ lease' = [lease EXCEPT ![job[w]] = "free"]
  /\ EndIteration(w)
  /\ UNCHANGED <<goOn, job, cursor, aborted, closing, closeOf, failed, owner, progress, work,
                 incidents>>

(* After an error of the migration, or after failed validation. *)
MarkFailed(w) ==
  /\ pc[w] \in {"threw", "invalid"}
  /\ owner[job[w]] = w
  /\ failed' = [failed EXCEPT ![job[w]] = TRUE]
  /\ lease' = [lease EXCEPT ![job[w]] = "free"]
  /\ IF pc[w] = "threw"
     THEN EndIteration(w)
     ELSE Goto(w, LoopHead(w)) /\ UNCHANGED active
  /\ UNCHANGED <<goOn, job, cursor, aborted, closing, closeOf, finished, owner, progress, work,
                 incidents>>

(* The update of Finish is in the try block, those of MarkFailed are not. *)
UpdateThrows(w) ==
  /\ pc[w] \in {"finishing", "threw", "invalid"}
  /\ IF owner[job[w]] # w THEN UNCHANGED incidents ELSE Incident("db")
  /\ Goto(w, IF pc[w] = "finishing" THEN "threw" ELSE "rejected")
  /\ UNCHANGED <<goOn, active, job, cursor, aborted, closing, closeOf, rowVars>>

(***************************************************************************)
(* close(), called on SIGTERM while the run loop goes on.                  *)
(***************************************************************************)
Close(w) ==
  /\ Up(w)
  /\ closing[w] = "no"
  /\ Incident("close")
  /\ IF active[w] = None
     THEN closing' = [closing EXCEPT ![w] = "closed"] /\ UNCHANGED <<aborted, closeOf>>
     ELSE /\ closing' = [closing EXCEPT ![w] = "aborting"]
          /\ closeOf' = [closeOf EXCEPT ![w] = active[w]]
          /\ aborted' = [aborted EXCEPT ![w] = TRUE]
  /\ UNCHANGED <<pc, goOn, active, job, cursor, rowVars>>

CloseUnlocks(w) ==
  /\ Up(w)
  /\ closing[w] = "aborting"
  /\ IF owner[closeOf[w]] = w
     THEN /\ lease' = [lease EXCEPT ![closeOf[w]] = "free"]
          /\ closing' = [closing EXCEPT ![w] = "unlocked"]
     ELSE /\ closing' = [closing EXCEPT ![w] = "threw"]
          /\ UNCHANGED lease
  /\ UNCHANGED <<pc, goOn, active, job, cursor, aborted, closeOf, finished, failed, owner,
                 progress, work, incidents>>

(* The log line reads activeMigration again: the run loop may have cleared *)
(* it, or set it to another migration.                                     *)
CloseEnds(w) ==
  /\ Up(w)
  /\ closing[w] = "unlocked"
  /\ active' = [active EXCEPT ![w] = None]
  /\ closing' = [closing EXCEPT ![w] = IF active[w] = None THEN "threw" ELSE "closed"]
  /\ UNCHANGED <<pc, goOn, job, cursor, aborted, closeOf, rowVars, incidents>>

(* The process ends after close(), sooner or later, and of itself if       *)
(* close() threw.                                                          *)
Exit(w) ==
  /\ Up(w)
  /\ closing[w] \in {"closed", "threw"}
  /\ Goto(w, "dead")
  /\ UNCHANGED <<goOn, active, job, cursor, aborted, closing, closeOf, rowVars, incidents>>

Kill(w) ==
  /\ Up(w)
  /\ Incident("kill")
  /\ Goto(w, "dead")
  /\ UNCHANGED <<goOn, active, job, cursor, aborted, closing, closeOf, rowVars>>

(***************************************************************************)
(* The web application: retry resets a row whatever its state; lockedAt    *)
(* and workerId stay.                                                      *)
(***************************************************************************)
(* In the iteration for job[w], from its heartbeat to its end. *)
AtJob(w) == pc[w] \in {"validate", "running", "saving", "finishing", "threw", "invalid"}

Busy(m) == \E w \in Workers : Up(w) /\ (active[w] = m \/ (AtJob(w) /\ job[w] = m))

Retry(m) ==
  /\ Incident(IF Busy(m) THEN "retryBusy" ELSE "retry")
  /\ progress' = [progress EXCEPT ![m] = 0]
  /\ work' = [work EXCEPT ![m] = {}]
  /\ finished' = [finished EXCEPT ![m] = FALSE]
  /\ failed' = [failed EXCEPT ![m] = FALSE]
  /\ UNCHANGED <<workerVars, lease, owner>>

Loop(w) ==
  \/ Acquire(w)
  \/ NothingToRun(w)
  \/ FirstBeat(w)
  \/ ValidateSucceeds(w)
  \/ ProcessBatch(w)
  \/ SaveCursor(w)
  \/ RunReturns(w)
  \/ Finish(w)
  \/ MarkFailed(w)
  \/ UpdateThrows(w)

Next ==
  \/ \E w \in Workers :
       \/ Start(w)
       \/ Loop(w)
       \/ AcquireFails(w)
       \/ FirstBeatFails(w)
       \/ ValidateFails(w)
       \/ ValidateThrows(w)
       \/ BatchThrows(w)
       \/ HeartBeat(w)
       \/ Close(w)
       \/ CloseUnlocks(w)
       \/ CloseEnds(w)
       \/ Exit(w)
       \/ Kill(w)
  \/ \E m \in Migrations : LeaseLapses(m) \/ Retry(m)

Spec == Init /\ [][Next]_vars

(* Every worker is started; the database answers and promise callbacks     *)
(* run; sixty seconds pass.                                                *)
Fairness ==
  /\ \A w \in Workers : WF_vars(Start(w)) /\ WF_vars(Loop(w)) /\ WF_vars(HeartBeat(w))
  /\ \A m \in Migrations : WF_vars(LeaseLapses(m))

FairSpec == Spec /\ Fairness

-----------------------------------------------------------------------------

TypeOK ==
  /\ pc \in [Workers -> {"down", "pick", "beat", "mute", "validate", "invalid", "running",
                         "saving", "finishing", "threw", "rejected", "done", "dead"}]
  /\ goOn \in [Workers -> BOOLEAN]
  /\ active \in [Workers -> Migrations \cup {None}]
  /\ job \in [Workers -> Migrations \cup {None}]
  /\ cursor \in [Workers -> 0..Batches]
  /\ aborted \in [Workers -> BOOLEAN]
  /\ closing \in [Workers -> {"no", "aborting", "unlocked", "closed", "threw"}]
  /\ closeOf \in [Workers -> Migrations \cup {None}]
  /\ finished \in [Migrations -> BOOLEAN]
  /\ failed \in [Migrations -> BOOLEAN]
  /\ lease \in [Migrations -> {"free", "live", "lapsed"}]
  /\ owner \in [Migrations -> Workers \cup {None}]
  /\ progress \in [Migrations -> 0..Batches]
  /\ work \in [Migrations -> SUBSET (0..Batches - 1)]
  /\ incidents \subseteq Kinds \X (1..MaxIncidents)

Resolved(m) == finished[m] \/ failed[m]

Runs(w) == pc[w] \in {"running", "saving"}

(* The comment at line 78 and the README of the directory: migrations do   *)
(* not run concurrently.  This holds through kills, database errors,       *)
(* migrations that throw and validations that throw, and a worker that has *)
(* lost its row to another does not go on; a stall beyond the lease, a     *)
(* failed validation, close() and a retry break it.                        *)
OnlyOneRuns ==
  ~Happened({"stall", "close", "invalid", "retry", "retryBusy"}) =>
    \A v, w \in Workers : Runs(v) /\ Runs(w) => v = w

(* README.md:25 of the directory: migrations run in order.  Whatever goes  *)
(* wrong short of a retry, a worker runs a migration only when every       *)
(* earlier one is finished or failed.                                      *)
RunsInOrder ==
  ~Happened({"retry", "retryBusy"}) =>
    \A w \in Workers :
      Runs(w) => \A m \in Migrations \ Dormant : m < job[w] => Resolved(m)

ClosedOn(m) == \E w \in Workers : closeOf[w] = m

(* A finished migration has done all of its batches, some of them by       *)
(* workers that were killed between a batch and its cursor, had lost their *)
(* lease or were run beside others.  Excepted are a retry of a migration   *)
(* that is being run, and a migration whose own worker was asked to close: *)
(* AbortedIsNotFinished below.                                             *)
FinishedMeansComplete ==
  ~Happened({"retryBusy"}) =>
    \A m \in Migrations : finished[m] /\ ~ClosedOn(m) => work[m] = 0..Batches - 1

(* The status page shows a migration as failed or as finished, not both,   *)
(* unless a validation has failed.                                         *)
StatusUnambiguous ==
  ~Happened({"invalid"}) => \A m \in Migrations : ~(finished[m] /\ failed[m])

(* A migration that is invalid or throws, and a dormant one, keeps no      *)
(* other from being run.                                                   *)
Completes ==
  [](\A i \in incidents : i[1] \in {"invalid", "batchThrows"}) =>
    \A m \in Migrations \ Dormant : <>Resolved(m)

(* Line 157 says that an aborted migration is not marked as complete. *)
AbortedIsNotFinished ==
  \A m \in Migrations : finished[m] => work[m] = 0..Batches - 1

(* README.md:38 of the directory says that another worker picks up a       *)
(* migration whose worker was killed, once its lock has expired.           *)
AnotherPicksUp == \A m \in Migrations : lease[m] = "lapsed" ~> lease[m] # "lapsed"
=============================================================================
