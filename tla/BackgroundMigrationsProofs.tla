------------------ MODULE BackgroundMigrationsProofs ------------------
(***************************************************************************)
(* What the table of migrations and the run loops keep true between them,  *)
(* for any number of workers, migrations, batches and incidents.           *)
(***************************************************************************)
EXTENDS BackgroundMigrations, FiniteSetTheorems, TLAPS

(* Before the first heartbeat of an iteration. *)
AtBeat(w) == pc[w] = "beat"

(* What is taken and run is a migration that is not dormant. *)
References ==
  /\ \A w \in Workers : active[w] \notin Dormant /\ (AtJob(w) => job[w] \notin Dormant)
  /\ \A w \in Workers : AtJob(w) => job[w] \in Migrations
  /\ \A w \in Workers : closing[w] \in {"aborting", "unlocked"} => closeOf[w] \in Migrations
  /\ \A w \in Workers : pc[w] = "saving" => cursor[w] # Batches

(* An instance is aborted by close() alone, which is called once.  While   *)
(* an iteration lasts, activeMigration is its migration or has been        *)
(* cleared.                                                                *)
AbortsAreCloses ==
  \A w \in Workers :
    /\ closing[w] = "no" => closeOf[w] = None
    /\ AtJob(w) => active[w] \in {job[w], None}
    /\ aborted[w] => /\ active[w] \in {closeOf[w], None}
                     /\ AtJob(w) => closeOf[w] = job[w]

Earlier(m) == {n \in Migrations \ Dormant : n < m}

(* What has been taken is behind everything before it that is not dormant. *)
Ordered ==
  ~Happened({"retry", "retryBusy"}) =>
    /\ \A w \in Workers : active[w] # None => \A n \in Earlier(active[w]) : Resolved(n)
    /\ \A w \in Workers : AtJob(w) => \A n \in Earlier(job[w]) : Resolved(n)

(* The batches before a row's state, and before a running migration's      *)
(* cursor, are done, and the batch whose cursor is being saved is; a       *)
(* migration that is about to be marked has done all, unless it was        *)
(* aborted.                                                                *)
Done(m, n) == 0..(n - 1) \subseteq work[m]

SavedIsDone ==
  ~Happened({"retryBusy"}) =>
    /\ \A m \in Migrations : Done(m, progress[m])
    /\ \A w \in Workers : pc[w] = "running" => Done(job[w], cursor[w])
    /\ \A w \in Workers : pc[w] = "saving" => Done(job[w], cursor[w] + 1)
    /\ \A w \in Workers : pc[w] = "finishing" /\ ~ClosedOn(job[w]) => Done(job[w], Batches)

(* Until a validation has failed, an iteration begins with activeMigration *)
(* cleared, and only the owner of a row marks it: the row of a migration   *)
(* that its worker still owns is not marked.                               *)
UnmarkedWhileOwned ==
  ~Happened({"invalid"}) =>
    /\ \A w \in Workers : pc[w] \in {"down", "pick"} => active[w] = None
    /\ \A w \in Workers : pc[w] # "invalid"
    /\ \A w \in Workers :
         AtBeat(w) /\ active[w] # None /\ owner[active[w]] = w => ~Resolved(active[w])
    /\ \A w \in Workers : AtJob(w) /\ owner[job[w]] = w => ~Resolved(job[w])

(* Without what takes a row from its worker, a worker holds the live lease *)
(* of the migration it is at, which is the first that is not marked.       *)
Undisturbed == ~Happened({"stall", "close", "invalid", "retry", "retryBusy"})

HoldsLease ==
  Undisturbed =>
    /\ \A w \in Workers : closing[w] = "no"
    /\ \A w \in Workers : AtBeat(w) => active[w] # None
    /\ \A w \in Workers : AtJob(w) => active[w] = job[w]
    /\ \A w \in Workers : AtBeat(w) \/ AtJob(w) =>
         owner[active[w]] = w /\ lease[active[w]] = "live"

(* The inductive invariant. *)
MigrationsInv ==
  /\ TypeOK
  /\ References
  /\ AbortsAreCloses
  /\ Ordered
  /\ SavedIsDone
  /\ UnmarkedWhileOwned
  /\ HoldsLease
  /\ FinishedMeansComplete
  /\ StatusUnambiguous

(* An incident is recorded under a number of its own, and none is ever     *)
(* forgotten.                                                              *)
LEMMA IncidentRecorded ==
  ASSUME TypeOK, NEW kind, Incident(kind)
  PROVE  /\ incidents' \subseteq Kinds \X (1..MaxIncidents)
         /\ incidents \subseteq incidents'
         /\ \E i \in incidents' : i[1] = kind
<1>1. IsFiniteSet(Kinds \X (1..MaxIncidents))
  <2>1. IsFiniteSet(1..MaxIncidents)
    BY FS_Interval, MigrationsAssumption
  <2>2. IsFiniteSet(Kinds)
    <3>1. IsFiniteSet({})
      BY FS_EmptySet
    <3>2. \A S, x : IsFiniteSet(S) => IsFiniteSet(S \cup {x})
      BY FS_AddElement
    <3>3. Kinds = {} \cup {"kill"} \cup {"stall"} \cup {"close"} \cup {"db"} \cup {"invalid"}
                     \cup {"validateThrows"} \cup {"batchThrows"} \cup {"retry"} \cup {"retryBusy"}
      BY DEF Kinds
    <3> QED  BY <3>1, <3>2, <3>3
  <2> QED  BY <2>1, <2>2, FS_Product
<1>2. Cardinality(incidents) \in Nat
  BY <1>1, FS_Subset, FS_CardinalityType DEF TypeOK
<1>3. kind \in Kinds /\ <<kind, Cardinality(incidents) + 1>> \in Kinds \X (1..MaxIncidents)
  BY <1>2, MigrationsAssumption DEF Incident
<1> QED  BY <1>3 DEF TypeOK, Incident

(* Every step of run(), close() and heartBeat(), of the clock and of the   *)
(* administrator keeps the types.                                          *)
LEMMA TypesKept == TypeOK /\ References /\ [Next]_vars => TypeOK'
<1> SUFFICES ASSUME TypeOK /\ References, [Next]_vars PROVE TypeOK'
  OBVIOUS
<1> USE DEF TypeOK
<1>1. ASSUME NEW w \in Workers, Start(w) PROVE TypeOK'
  BY <1>1 DEF Start, Goto, rowVars
<1>2. ASSUME NEW w \in Workers, Acquire(w) PROVE TypeOK'
  <2>1. PICK m \in Migrations :
          /\ lease' = [lease EXCEPT ![m] = "live"]
          /\ owner' = [owner EXCEPT ![m] = w]
          /\ active' = [active EXCEPT ![w] = m]
    BY <1>2 DEF Acquire, Picks, First, Candidates
  <2> QED  BY <1>2, <2>1 DEF Acquire, Goto
<1>3. ASSUME NEW w \in Workers, NothingToRun(w) PROVE TypeOK'
  BY <1>3 DEF NothingToRun, Goto, Picks, rowVars, First, Candidates
<1>4. ASSUME NEW w \in Workers, AcquireFails(w) PROVE TypeOK'
  BY <1>4, IncidentRecorded DEF AcquireFails, Goto, Picks, rowVars, First, Candidates
<1>5. ASSUME NEW w \in Workers, FirstBeat(w) PROVE TypeOK'
  BY <1>5 DEF FirstBeat, Goto, Renewed
<1>6. ASSUME NEW w \in Workers, FirstBeatFails(w) PROVE TypeOK'
  BY <1>6, IncidentRecorded DEF FirstBeatFails, Goto, rowVars
<1>7. ASSUME NEW w \in Workers, HeartBeat(w) PROVE TypeOK'
  BY <1>7 DEF HeartBeat, Renewed, workerVars
<1>8. ASSUME NEW w \in Workers, ValidateSucceeds(w) PROVE TypeOK'
  <2>1. job[w] \in Migrations
    BY <1>8 DEF ValidateSucceeds, References, AtJob
  <2> QED  BY <1>8, <2>1 DEF ValidateSucceeds, Goto, ResumeFrom, rowVars
<1>9. ASSUME NEW w \in Workers, ValidateFails(w) PROVE TypeOK'
  BY <1>9, IncidentRecorded DEF ValidateFails, Goto, rowVars
<1>10. ASSUME NEW w \in Workers, ValidateThrows(w) PROVE TypeOK'
  BY <1>10, IncidentRecorded DEF ValidateThrows, Goto, rowVars
<1>11. ASSUME NEW w \in Workers, ProcessBatch(w) \/ SaveCursor(w) PROVE TypeOK'
  <2>1. job[w] \in Migrations /\ cursor[w] \in 0..Batches /\ cursor[w] # Batches
    BY <1>11 DEF ProcessBatch, SaveCursor, Exhausted, References, AtJob
  <2>2. cursor[w] \in 0..Batches - 1 /\ cursor[w] + 1 \in 0..Batches
    <3>1. Batches \in Nat \ {0}
      BY MigrationsAssumption
    <3> HIDE DEF TypeOK
    <3> QED  BY <2>1, <3>1
  <2>3. CASE ProcessBatch(w)
    BY <2>1, <2>2, <2>3 DEF ProcessBatch, Goto, rowVars
  <2>4. CASE SaveCursor(w)
    BY <2>1, <2>2, <2>4 DEF SaveCursor, Goto, rowVars
  <2> QED  BY <1>11, <2>3, <2>4
<1>12. ASSUME NEW w \in Workers, BatchThrows(w) PROVE TypeOK'
  BY <1>12, IncidentRecorded DEF BatchThrows, Goto, rowVars
<1>13. ASSUME NEW w \in Workers, RunReturns(w) PROVE TypeOK'
  BY <1>13 DEF RunReturns, EndIteration, Goto, Exhausted, rowVars, LoopHead
<1>14. ASSUME NEW w \in Workers, Finish(w) PROVE TypeOK'
  BY <1>14 DEF Finish, EndIteration, Goto, LoopHead
<1>15. ASSUME NEW w \in Workers, MarkFailed(w) PROVE TypeOK'
  BY <1>15 DEF MarkFailed, EndIteration, LoopHead, Goto
<1>16. ASSUME NEW w \in Workers, UpdateThrows(w) PROVE TypeOK'
  BY <1>16, IncidentRecorded DEF UpdateThrows, Goto, rowVars
<1>17. ASSUME NEW w \in Workers, Close(w) PROVE TypeOK'
  BY <1>17, IncidentRecorded DEF Close, rowVars
<1>18. ASSUME NEW w \in Workers, CloseUnlocks(w) PROVE TypeOK'
  BY <1>18 DEF CloseUnlocks
<1>19. ASSUME NEW w \in Workers, CloseEnds(w) PROVE TypeOK'
  BY <1>19 DEF CloseEnds, rowVars
<1>20. ASSUME NEW w \in Workers, Exit(w) PROVE TypeOK'
  BY <1>20 DEF Exit, Goto, rowVars
<1>21. ASSUME NEW w \in Workers, Kill(w) PROVE TypeOK'
  BY <1>21, IncidentRecorded DEF Kill, Goto, rowVars
<1>22. ASSUME NEW m \in Migrations, LeaseLapses(m) PROVE TypeOK'
  BY <1>22, IncidentRecorded DEF LeaseLapses, workerVars
<1>23. ASSUME NEW m \in Migrations, Retry(m) PROVE TypeOK'
  <2>1. 0 \in 0..Batches
    BY MigrationsAssumption
  <2>2. PICK kind : Incident(kind)
    BY <1>23 DEF Retry
  <2>3. incidents' \subseteq Kinds \X (1..MaxIncidents)
    BY <2>2, IncidentRecorded
  <2> QED  BY <1>23, <2>1, <2>3 DEF Retry, workerVars
<1>24. CASE UNCHANGED vars
  BY <1>24 DEF vars, workerVars, rowVars
<1> QED
  BY <1>1, <1>2, <1>3, <1>4, <1>5, <1>6, <1>7, <1>8, <1>9, <1>10, <1>11, <1>12, <1>13, <1>14, <1>15,
      <1>16, <1>17, <1>18, <1>19, <1>20, <1>21, <1>22, <1>23, <1>24 DEF Next, Loop

(* What has happened stays recorded. *)
LEMMA IncidentsGrow == TypeOK /\ [Next]_vars => incidents \subseteq incidents'
<1> SUFFICES ASSUME TypeOK, [Next]_vars PROVE incidents \subseteq incidents'
  OBVIOUS
<1>1. ASSUME NEW w \in Workers, AcquireFails(w) PROVE incidents \subseteq incidents'
  BY <1>1 DEF AcquireFails, Goto, Picks, rowVars, First, Candidates, Incident
<1>2. ASSUME NEW w \in Workers, FirstBeatFails(w) PROVE incidents \subseteq incidents'
  BY <1>2 DEF FirstBeatFails, Goto, rowVars, Incident
<1>3. ASSUME NEW w \in Workers, ValidateFails(w) PROVE incidents \subseteq incidents'
  BY <1>3 DEF ValidateFails, Goto, rowVars, Incident
<1>4. ASSUME NEW w \in Workers, ValidateThrows(w) PROVE incidents \subseteq incidents'
  BY <1>4 DEF ValidateThrows, Goto, rowVars, Incident
<1>5. ASSUME NEW w \in Workers, BatchThrows(w) PROVE incidents \subseteq incidents'
  BY <1>5 DEF BatchThrows, Goto, rowVars, Incident
<1>6. ASSUME NEW w \in Workers, UpdateThrows(w) PROVE incidents \subseteq incidents'
  BY <1>6 DEF UpdateThrows, Goto, rowVars, Incident
<1>7. ASSUME NEW w \in Workers, Close(w) PROVE incidents \subseteq incidents'
  BY <1>7 DEF Close, rowVars, Incident
<1>8. ASSUME NEW w \in Workers, Kill(w) PROVE incidents \subseteq incidents'
  BY <1>8 DEF Kill, Goto, rowVars, Incident
<1>9. ASSUME NEW m \in Migrations, LeaseLapses(m) PROVE incidents \subseteq incidents'
  BY <1>9 DEF LeaseLapses, workerVars, Incident
<1>10. ASSUME NEW m \in Migrations, Retry(m) PROVE incidents \subseteq incidents'
  BY <1>10 DEF Retry, workerVars, Incident
<1>11. ASSUME NEW w \in Workers,
         Start(w) \/ Acquire(w) \/ NothingToRun(w) \/ FirstBeat(w) \/ HeartBeat(w) \/
         ValidateSucceeds(w) \/ ProcessBatch(w) \/ SaveCursor(w) \/ RunReturns(w) \/ Finish(w) \/
         MarkFailed(w) \/ CloseUnlocks(w) \/ CloseEnds(w) \/ Exit(w)
     PROVE incidents \subseteq incidents'
  BY <1>11 DEF Start, Acquire, NothingToRun, FirstBeat, HeartBeat, ValidateSucceeds,
    ProcessBatch, SaveCursor, RunReturns, Finish, MarkFailed, CloseUnlocks, CloseEnds, Exit, Goto, rowVars,
    workerVars
<1>12. CASE UNCHANGED vars
  BY <1>12 DEF vars, workerVars, rowVars, Incident
<1> QED  BY <1>1, <1>2, <1>3, <1>4, <1>5, <1>6, <1>7, <1>8, <1>9, <1>10, <1>11, <1>12 DEF Next,
    Loop

(* What has not happened after a step had not happened before it. *)
LEMMA Unhappened ==
  ASSUME NEW kinds, ~Happened(kinds)', incidents \subseteq incidents'
  PROVE  ~Happened(kinds)
  BY DEF Happened

(* A step that records an incident makes it one that has happened. *)
LEMMA NotOfThese ==
  ASSUME TypeOK, NEW kinds, ~Happened(kinds)', NEW kind, Incident(kind)
  PROVE  kind \notin kinds
  BY IncidentRecorded DEF Happened

(* The batch a cursor is at, and what the cursor covers once that batch is *)
(* done.                                                                   *)
LEMMA BatchNumber ==
  ASSUME NEW c \in 0..Batches, c # Batches
  PROVE  c \in Nat /\ c \in 0..Batches - 1 /\ 0..c + 1 - 1 = (0..c - 1) \cup {c}
<1>1. Batches \in Nat \ {0}
  BY MigrationsAssumption
<1>2. c \in Nat /\ c <= Batches - 1
  BY <1>1
<1> QED  BY <1>1, <1>2

(* activeMigration is kept, cleared, or set to the migration that the      *)
(* query of run() picks.                                                   *)
LEMMA ActiveMoves ==
  ASSUME TypeOK, References, [Next]_vars, NEW v \in Workers
  PROVE  active'[v] \in {active[v], None} \cup Picks
<1> DEFINE Moves ==
      active'[v] \in {active[v], None} \cup Picks
<1> USE DEF TypeOK, References, AtJob
<1>1. ASSUME NEW w \in Workers,
               Acquire(w) \/ AcquireFails(w) \/ RunReturns(w) \/ Finish(w) \/
               MarkFailed(w) \/ CloseEnds(w)
      PROVE  Moves
  BY <1>1 DEF Acquire, Goto, Picks, First, Candidates, AcquireFails, rowVars,
      RunReturns, EndIteration, Exhausted, LoopHead, Finish, MarkFailed, CloseEnds
<1>2. ASSUME NEW w \in Workers,
         Start(w) \/ NothingToRun(w) \/ FirstBeat(w) \/ FirstBeatFails(w) \/ HeartBeat(w)
         \/ ValidateSucceeds(w) \/ ValidateFails(w) \/ ValidateThrows(w) \/
         ProcessBatch(w) \/ SaveCursor(w) \/ BatchThrows(w) \/ UpdateThrows(w) \/ Close(w) \/
         CloseUnlocks(w) \/ Exit(w) \/ Kill(w)
     PROVE Moves
  BY <1>2 DEF Start, NothingToRun, FirstBeat, FirstBeatFails, HeartBeat, ValidateSucceeds,
    ValidateFails, ValidateThrows, ProcessBatch, SaveCursor, BatchThrows, UpdateThrows, Close,
    CloseUnlocks, Exit, Kill, Goto, rowVars, workerVars
<1>3. ASSUME NEW m \in Migrations, LeaseLapses(m) \/ Retry(m) PROVE Moves
  BY <1>3 DEF LeaseLapses, Retry, rowVars, workerVars
<1>4. CASE UNCHANGED vars
  BY <1>4 DEF vars, workerVars, rowVars
<1> QED
  BY <1>1, <1>2, <1>3, <1>4 DEF Next, Loop

(* The migration of an iteration is the activeMigration that its first     *)
(* heartbeat found, and stays the same until the iteration ends.           *)
LEMMA JobMoves ==
  ASSUME TypeOK, References, [Next]_vars, NEW v \in Workers, AtJob(v)'
  PROVE  (AtJob(v) /\ job'[v] = job[v]) \/ (AtBeat(v) /\ job'[v] = active[v] /\ active[v] # None)
<1> DEFINE Moves ==
      (AtJob(v) /\ job'[v] = job[v]) \/ (AtBeat(v) /\ job'[v] = active[v] /\ active[v] # None)
<1> USE DEF TypeOK, References, AtJob, AtBeat
<1>1. ASSUME NEW w \in Workers,
               MarkFailed(w) \/ UpdateThrows(w) \/ Exit(w) \/ Kill(w)
      PROVE  Moves
  BY <1>1 DEF MarkFailed, EndIteration, LoopHead, Goto, UpdateThrows, rowVars, Exit,
      Kill
<1>2. ASSUME NEW w \in Workers,
               Start(w) \/ Acquire(w) \/ NothingToRun(w) \/ AcquireFails(w) \/
               FirstBeat(w) \/ FirstBeatFails(w)
      PROVE  Moves
  BY <1>2 DEF Start, Goto, rowVars, Acquire, Picks, First, Candidates, NothingToRun,
      AcquireFails, FirstBeat, Renewed, FirstBeatFails
<1>3. ASSUME NEW w \in Workers,
               ValidateSucceeds(w) \/ ValidateFails(w) \/ ValidateThrows(w) \/
               BatchThrows(w) \/ RunReturns(w) \/ Finish(w)
      PROVE  Moves
  BY <1>3 DEF ValidateSucceeds, Goto, ResumeFrom, rowVars, ValidateFails,
      ValidateThrows, BatchThrows, RunReturns, EndIteration, Exhausted, LoopHead,
      Finish
<1>4. ASSUME NEW w \in Workers,
         HeartBeat(w) \/ ProcessBatch(w) \/ SaveCursor(w) \/ Close(w) \/ CloseUnlocks(w) \/ CloseEnds(w)
     PROVE Moves
  BY <1>4 DEF HeartBeat, ProcessBatch, SaveCursor, Close, CloseUnlocks, CloseEnds, Goto, rowVars,
    workerVars
<1>5. ASSUME NEW m \in Migrations, LeaseLapses(m) \/ Retry(m) PROVE Moves
  BY <1>5 DEF LeaseLapses, Retry, rowVars, workerVars
<1>6. CASE UNCHANGED vars
  BY <1>6 DEF vars, workerVars, rowVars
<1> QED
  BY <1>1, <1>2, <1>3, <1>4, <1>5, <1>6 DEF Next, Loop

(* Short of a retry, a row that is marked as finished or failed stays so. *)
LEMMA StaysMarked ==
  ASSUME TypeOK, References, [Next]_vars, ~Happened({"retry", "retryBusy"})',
         NEW n \in Migrations, Resolved(n)
  PROVE  Resolved(n)'
<1> USE DEF TypeOK, References, AtJob, Resolved
<1>1. ASSUME NEW w \in Workers, Finish(w) PROVE Resolved(n)'
  BY <1>1 DEF Finish, EndIteration, Goto, LoopHead
<1>2. ASSUME NEW w \in Workers, MarkFailed(w) PROVE Resolved(n)'
  BY <1>2 DEF MarkFailed, EndIteration, LoopHead, Goto
<1>3. ASSUME NEW m \in Migrations, Retry(m) PROVE Resolved(n)'
  <2>1. PICK kind \in {"retry", "retryBusy"} : Incident(kind)
    BY <1>3 DEF Retry
  <2> QED  BY <2>1, NotOfThese
<1>4. ASSUME NEW w \in Workers,
         Start(w) \/ Acquire(w) \/ NothingToRun(w) \/ AcquireFails(w) \/ FirstBeat(w) \/
         FirstBeatFails(w) \/ HeartBeat(w) \/ ValidateSucceeds(w) \/ ValidateFails(w) \/
         ValidateThrows(w) \/ ProcessBatch(w) \/ SaveCursor(w) \/ BatchThrows(w) \/ RunReturns(w) \/
         UpdateThrows(w) \/ Close(w) \/ CloseUnlocks(w) \/ CloseEnds(w) \/ Exit(w) \/
         Kill(w)
     PROVE Resolved(n)'
  BY <1>4 DEF Start, Acquire, NothingToRun, AcquireFails, FirstBeat, FirstBeatFails, HeartBeat,
    ValidateSucceeds, ValidateFails, ValidateThrows, ProcessBatch, SaveCursor, BatchThrows, RunReturns,
    UpdateThrows, Close, CloseUnlocks, CloseEnds, Exit, Kill, Goto, rowVars, workerVars
<1>5. ASSUME NEW m \in Migrations, LeaseLapses(m) PROVE Resolved(n)'
  BY <1>5 DEF LeaseLapses, rowVars, workerVars
<1>6. CASE UNCHANGED vars
  BY <1>6 DEF vars, workerVars, rowVars
<1> QED
  BY <1>1, <1>2, <1>3, <1>4, <1>5, <1>6 DEF Next, Loop

(* close() unlocks the row of a migration, never that of no migration. *)
LEMMA CloseOfKept ==
  ASSUME TypeOK, References, [Next]_vars, NEW v \in Workers,
         closing'[v] \in {"aborting", "unlocked"}
  PROVE  closeOf'[v] \in Migrations
<1> USE DEF TypeOK, References, AtJob
<1>1. ASSUME NEW w \in Workers,
               Close(w) \/ CloseUnlocks(w) \/ CloseEnds(w)
      PROVE  closeOf'[v] \in Migrations
  BY <1>1 DEF Close, rowVars, CloseUnlocks, CloseEnds
<1>2. ASSUME NEW w \in Workers,
         Start(w) \/ Acquire(w) \/ NothingToRun(w) \/ AcquireFails(w) \/ FirstBeat(w) \/
         FirstBeatFails(w) \/ HeartBeat(w) \/ ValidateSucceeds(w) \/ ValidateFails(w) \/
         ValidateThrows(w) \/ ProcessBatch(w) \/ SaveCursor(w) \/ BatchThrows(w) \/ RunReturns(w) \/
         Finish(w) \/ MarkFailed(w) \/ UpdateThrows(w) \/ Exit(w) \/ Kill(w)
     PROVE closeOf'[v] \in Migrations
  BY <1>2 DEF Start, Acquire, NothingToRun, AcquireFails, FirstBeat, FirstBeatFails, HeartBeat,
    ValidateSucceeds, ValidateFails, ValidateThrows, ProcessBatch, SaveCursor, BatchThrows, RunReturns,
    Finish, MarkFailed, UpdateThrows, Exit, Kill, Goto, rowVars, workerVars
<1>3. ASSUME NEW m \in Migrations, LeaseLapses(m) \/ Retry(m) PROVE closeOf'[v] \in Migrations
  BY <1>3 DEF LeaseLapses, Retry, rowVars, workerVars
<1>4. CASE UNCHANGED vars
  BY <1>4 DEF vars, workerVars, rowVars
<1> QED
  BY <1>1, <1>2, <1>3, <1>4 DEF Next, Loop

(* What close() has aborted is what it was called on, until it is replaced. *)
LEMMA AbortsKept ==
  ASSUME TypeOK, References, AbortsAreCloses, [Next]_vars
  PROVE  AbortsAreCloses'
<1> USE DEF TypeOK, References, AtJob, AbortsAreCloses
<1>1. ASSUME NEW w \in Workers, Acquire(w) PROVE AbortsAreCloses'
  BY <1>1 DEF Acquire, Goto
<1>2. ASSUME NEW w \in Workers, AcquireFails(w) PROVE AbortsAreCloses'
  BY <1>2 DEF AcquireFails, Goto, rowVars
<1>3. ASSUME NEW w \in Workers, FirstBeat(w) PROVE AbortsAreCloses'
  BY <1>3 DEF FirstBeat, Goto
<1>4. ASSUME NEW w \in Workers, RunReturns(w) \/ Finish(w) \/ MarkFailed(w)
      PROVE  AbortsAreCloses'
  BY <1>4 DEF RunReturns, Finish, MarkFailed, EndIteration, LoopHead, Goto, rowVars
<1>5. ASSUME NEW w \in Workers, Close(w) PROVE AbortsAreCloses'
  BY <1>5 DEF Close, rowVars
<1>6. ASSUME NEW w \in Workers, CloseUnlocks(w) \/ CloseEnds(w) PROVE AbortsAreCloses'
  BY <1>6 DEF CloseUnlocks, CloseEnds, rowVars
<1>7. ASSUME NEW w \in Workers, ProcessBatch(w) \/ SaveCursor(w) PROVE AbortsAreCloses'
  BY <1>7 DEF ProcessBatch, SaveCursor, Goto
<1>8. ASSUME NEW w \in Workers,
         Start(w) \/ NothingToRun(w) \/ FirstBeatFails(w) \/ ValidateSucceeds(w) \/
         ValidateFails(w) \/ ValidateThrows(w) \/ BatchThrows(w) \/ UpdateThrows(w) \/
         Exit(w) \/ Kill(w)
     PROVE AbortsAreCloses'
  BY <1>8 DEF Start, NothingToRun, FirstBeatFails, ValidateSucceeds, ValidateFails,
    ValidateThrows, BatchThrows, UpdateThrows, Exit, Kill, Goto, rowVars
<1>9. ASSUME NEW w \in Workers, HeartBeat(w) PROVE AbortsAreCloses'
  BY <1>9 DEF HeartBeat, workerVars
<1>10. ASSUME NEW m \in Migrations, LeaseLapses(m) \/ Retry(m) PROVE AbortsAreCloses'
  BY <1>10 DEF LeaseLapses, Retry, workerVars
<1>11. CASE UNCHANGED vars
  BY <1>11 DEF vars, workerVars
<1> QED
  BY <1>1, <1>2, <1>3, <1>4, <1>5, <1>6, <1>7, <1>8, <1>9, <1>10, <1>11 DEF Next, Loop

(* close() is called once, so what it was called on is not forgotten. *)
LEMMA ClosedStays ==
  ASSUME TypeOK, AbortsAreCloses, [Next]_vars, NEW n \in Migrations, ClosedOn(n)
  PROVE  ClosedOn(n)'
<1> USE DEF ClosedOn
<1>1. ASSUME NEW w \in Workers, Close(w) PROVE ClosedOn(n)'
  <2>1. PICK u \in Workers : closeOf[u] = n
    OBVIOUS
  <2>2. u # w
    BY <1>1, <2>1, MigrationsAssumption DEF Close, AbortsAreCloses
  <2>3. closeOf'[u] = n
    BY <1>1, <2>1, <2>2 DEF Close, TypeOK
  <2> QED  BY <2>3
<1>2. ASSUME NEW w \in Workers,
         Start(w) \/ Acquire(w) \/ NothingToRun(w) \/ AcquireFails(w) \/ FirstBeat(w) \/
         FirstBeatFails(w) \/ HeartBeat(w) \/ ValidateSucceeds(w) \/ ValidateFails(w) \/
         ValidateThrows(w) \/ ProcessBatch(w) \/ SaveCursor(w) \/ BatchThrows(w) \/
         RunReturns(w) \/ Finish(w) \/ MarkFailed(w) \/ UpdateThrows(w) \/ CloseUnlocks(w) \/
         CloseEnds(w) \/ Exit(w) \/ Kill(w)
     PROVE ClosedOn(n)'
  BY <1>2 DEF Start, Acquire, NothingToRun, AcquireFails, FirstBeat, FirstBeatFails, HeartBeat,
    ValidateSucceeds, ValidateFails, ValidateThrows, ProcessBatch, SaveCursor, BatchThrows,
    RunReturns, Finish, MarkFailed, UpdateThrows, CloseUnlocks, CloseEnds, Exit, Kill, Goto,
    rowVars, workerVars
<1>3. ASSUME NEW m \in Migrations, LeaseLapses(m) \/ Retry(m) PROVE ClosedOn(n)'
  BY <1>3 DEF LeaseLapses, Retry, workerVars
<1>4. CASE UNCHANGED vars
  BY <1>4 DEF vars, workerVars
<1> QED
  BY <1>1, <1>2, <1>3, <1>4 DEF Next, Loop

(* A migration that is being run is reset only by a retry of that kind. *)
LEMMA NotReset ==
  ASSUME TypeOK, References, ~Happened({"retryBusy"})', NEW m \in Migrations, Retry(m),
         NEW v \in Workers, AtJob(v)
  PROVE  job[v] # m
<1>1. Incident("retryBusy") => FALSE
  BY NotOfThese
<1>2. ~Busy(m)
  BY <1>1 DEF Retry
<1>3. Up(v)
  BY DEF AtJob, Up
<1> QED  BY <1>2, <1>3 DEF Busy

(* Without one, the batches done are kept while their worker is at them,   *)
(* whoever else is in the same migration.                                  *)
LEMMA WorkKept ==
  ASSUME TypeOK, References, ~Happened({"retryBusy"})', [Next]_vars,
         NEW v \in Workers, AtJob(v)
  PROVE  work[job[v]] \subseteq work'[job[v]]
<1> USE DEF TypeOK, References, AtJob
<1>1. job[v] \in Migrations
  OBVIOUS
<1>2. ASSUME NEW w \in Workers, ProcessBatch(w) PROVE work[job[v]] \subseteq work'[job[v]]
  <2>1. job[w] \in Migrations /\ work' = [work EXCEPT ![job[w]] = @ \cup {cursor[w]}]
    BY <1>2 DEF ProcessBatch
  <2> QED  BY <1>1, <2>1
<1>3. ASSUME NEW m \in Migrations, Retry(m) PROVE work[job[v]] \subseteq work'[job[v]]
  <2>1. job[v] # m
    BY <1>3, NotReset
  <2> QED  BY <1>1, <1>3, <2>1 DEF Retry
<1>4. ASSUME NEW w \in Workers,
         Start(w) \/ Acquire(w) \/ NothingToRun(w) \/ AcquireFails(w) \/ FirstBeat(w) \/
         FirstBeatFails(w) \/ HeartBeat(w) \/ ValidateSucceeds(w) \/ ValidateFails(w) \/
         ValidateThrows(w) \/ SaveCursor(w) \/ BatchThrows(w) \/ RunReturns(w) \/ Finish(w) \/
         MarkFailed(w) \/ UpdateThrows(w) \/ Close(w) \/ CloseUnlocks(w) \/ CloseEnds(w)
         \/ Exit(w) \/ Kill(w)
     PROVE work[job[v]] \subseteq work'[job[v]]
  BY <1>4 DEF Start, Acquire, NothingToRun, AcquireFails, FirstBeat, FirstBeatFails, HeartBeat,
    ValidateSucceeds, ValidateFails, ValidateThrows, SaveCursor, BatchThrows, RunReturns, Finish,
    MarkFailed, UpdateThrows, Close, CloseUnlocks, CloseEnds, Exit, Kill, Goto, rowVars,
    workerVars
<1>5. ASSUME NEW m \in Migrations, LeaseLapses(m) PROVE work[job[v]] \subseteq work'[job[v]]
  BY <1>5 DEF LeaseLapses, rowVars
<1>6. CASE UNCHANGED vars
  BY <1>6 DEF vars, workerVars, rowVars
<1> QED
  BY <1>2, <1>3, <1>4, <1>5, <1>6 DEF Next, Loop

(* The state saved in a row never runs ahead of the batches that are done, *)
(* whichever of several workers saves it.                                  *)
LEMMA ProgressDone ==
  ASSUME TypeOK, References, ~Happened({"retryBusy"})', SavedIsDone,
         ~Happened({"retryBusy"}), [Next]_vars, NEW n \in Migrations
  PROVE  Done(n, progress[n])'
<1> USE DEF TypeOK, References, AtJob, SavedIsDone, Done
<1>1. ASSUME NEW w \in Workers, ProcessBatch(w) PROVE Done(n, progress[n])'
  BY <1>1 DEF ProcessBatch
<1>2. ASSUME NEW w \in Workers, SaveCursor(w) PROVE Done(n, progress[n])'
  <2>1. /\ job[w] \in Migrations /\ work' = work
        /\ progress' = [progress EXCEPT ![job[w]] = cursor[w] + 1]
        /\ 0..cursor[w] + 1 - 1 \subseteq work[job[w]] /\ 0..progress[n] - 1 \subseteq work[n]
    BY <1>2 DEF SaveCursor
  <2>2. CASE n = job[w]
    <3>1. progress'[n] = cursor[w] + 1
      BY <2>1, <2>2
    <3> QED  BY <2>1, <2>2, <3>1
  <2>3. CASE n # job[w]
    BY <2>1, <2>3
  <2> QED  BY <2>2, <2>3
<1>3. ASSUME NEW m \in Migrations, Retry(m) PROVE Done(n, progress[n])'
  BY <1>3 DEF Retry, workerVars
<1>4. ASSUME NEW w \in Workers,
         Start(w) \/ Acquire(w) \/ NothingToRun(w) \/ AcquireFails(w) \/ FirstBeat(w) \/
         FirstBeatFails(w) \/ HeartBeat(w) \/ ValidateSucceeds(w) \/ ValidateFails(w) \/
         ValidateThrows(w) \/ BatchThrows(w) \/ RunReturns(w) \/ Finish(w) \/
         MarkFailed(w) \/ UpdateThrows(w) \/ Close(w) \/ CloseUnlocks(w) \/ CloseEnds(w)
         \/ Exit(w) \/ Kill(w)
     PROVE Done(n, progress[n])'
  BY <1>4 DEF Start, Acquire, NothingToRun, AcquireFails, FirstBeat, FirstBeatFails, HeartBeat,
    ValidateSucceeds, ValidateFails, ValidateThrows, BatchThrows, RunReturns, Finish,
    MarkFailed, UpdateThrows, Close, CloseUnlocks, CloseEnds, Exit, Kill, Goto, rowVars,
    workerVars
<1>5. ASSUME NEW m \in Migrations, LeaseLapses(m) PROVE Done(n, progress[n])'
  BY <1>5 DEF LeaseLapses, rowVars, workerVars
<1>6. CASE UNCHANGED vars
  BY <1>6 DEF vars, workerVars, rowVars
<1> QED
  BY <1>1, <1>2, <1>3, <1>4, <1>5, <1>6 DEF Next, Loop

(* How a migration comes to be at the head of its loop: it starts from the *)
(* state of its row, or has just saved its cursor, or was there before.    *)
LEMMA ComesToRun ==
  ASSUME TypeOK, References, [Next]_vars, NEW v \in Workers, pc'[v] = "running"
  PROVE  /\ job'[v] = job[v]
         /\ \/ pc[v] = "validate" /\ cursor'[v] = progress[job[v]] /\ work' = work
            \/ pc[v] = "saving" /\ cursor'[v] = cursor[v] + 1
            \/ pc[v] = "running" /\ cursor'[v] = cursor[v]
<1> DEFINE Comes ==
      /\ job'[v] = job[v]
      /\ \/ pc[v] = "validate" /\ cursor'[v] = progress[job[v]] /\ work' = work
         \/ pc[v] = "saving" /\ cursor'[v] = cursor[v] + 1
         \/ pc[v] = "running" /\ cursor'[v] = cursor[v]
<1> USE DEF TypeOK
<1>1. ASSUME NEW w \in Workers, ValidateSucceeds(w) PROVE Comes
  BY <1>1 DEF ValidateSucceeds, Goto, ResumeFrom, rowVars
<1>2. ASSUME NEW w \in Workers, ProcessBatch(w) \/ SaveCursor(w) PROVE Comes
  BY <1>2 DEF ProcessBatch, SaveCursor, Goto
<1>3. ASSUME NEW w \in Workers,
         Start(w) \/ Acquire(w) \/ NothingToRun(w) \/ AcquireFails(w) \/ FirstBeat(w) \/
         FirstBeatFails(w) \/ ValidateFails(w) \/ ValidateThrows(w) \/ BatchThrows(w) \/
         RunReturns(w) \/ Finish(w) \/ MarkFailed(w) \/ UpdateThrows(w) \/ Exit(w) \/ Kill(w)
     PROVE Comes
  BY <1>3 DEF Start, Acquire, NothingToRun, AcquireFails, FirstBeat, FirstBeatFails,
    ValidateFails, ValidateThrows, BatchThrows, RunReturns, Finish, MarkFailed, UpdateThrows,
    EndIteration, LoopHead, Exit, Kill, Goto, rowVars
<1>4. ASSUME NEW w \in Workers,
         HeartBeat(w) \/ Close(w) \/ CloseUnlocks(w) \/ CloseEnds(w)
     PROVE Comes
  BY <1>4 DEF HeartBeat, Close, CloseUnlocks, CloseEnds, rowVars, workerVars
<1>5. ASSUME NEW m \in Migrations, LeaseLapses(m) \/ Retry(m) PROVE Comes
  BY <1>5 DEF LeaseLapses, Retry, workerVars
<1>6. CASE UNCHANGED vars
  BY <1>6 DEF vars, workerVars
<1> QED
  BY <1>1, <1>2, <1>3, <1>4, <1>5, <1>6 DEF Next, Loop

(* A running migration has done all batches before its cursor. *)
LEMMA CursorDone ==
  ASSUME TypeOK, References, ~Happened({"retryBusy"})', SavedIsDone,
         ~Happened({"retryBusy"}), [Next]_vars, NEW v \in Workers, pc'[v] = "running"
  PROVE  Done(job[v], cursor[v])'
<1>1. AtJob(v) /\ job'[v] = job[v] /\ job[v] \in Migrations
  BY ComesToRun DEF AtJob, References
<1>2. work[job[v]] \subseteq work'[job[v]]
  BY <1>1, WorkKept
<1>3. Done(job[v], cursor'[v])
  BY <1>1, ComesToRun DEF SavedIsDone
<1> QED  BY <1>1, <1>2, <1>3 DEF Done

(* The cursor is saved after its batch, and one by which batches are left. *)
LEMMA ComesToSave ==
  ASSUME TypeOK, References, [Next]_vars, NEW v \in Workers, pc'[v] = "saving"
  PROVE  /\ AtJob(v) /\ job'[v] = job[v] /\ cursor'[v] = cursor[v] /\ cursor[v] # Batches
         /\ \/ pc[v] = "running" /\ work' = [work EXCEPT ![job[v]] = @ \cup {cursor[v]}]
            \/ pc[v] = "saving"
<1> DEFINE Comes ==
      /\ AtJob(v) /\ job'[v] = job[v] /\ cursor'[v] = cursor[v] /\ cursor[v] # Batches
      /\ \/ pc[v] = "running" /\ work' = [work EXCEPT ![job[v]] = @ \cup {cursor[v]}]
         \/ pc[v] = "saving"
<1> USE DEF TypeOK, References, AtJob
<1>1. ASSUME NEW w \in Workers, ProcessBatch(w) \/ SaveCursor(w) PROVE Comes
  BY <1>1 DEF ProcessBatch, SaveCursor, Exhausted, Goto
<1>2. ASSUME NEW w \in Workers,
         Start(w) \/ Acquire(w) \/ NothingToRun(w) \/ AcquireFails(w) \/ FirstBeat(w) \/
         FirstBeatFails(w) \/ ValidateSucceeds(w) \/ ValidateFails(w) \/ ValidateThrows(w) \/
         BatchThrows(w) \/ RunReturns(w) \/ Finish(w) \/ MarkFailed(w) \/ UpdateThrows(w) \/
         Exit(w) \/ Kill(w)
     PROVE Comes
  BY <1>2 DEF Start, Acquire, NothingToRun, AcquireFails, FirstBeat, FirstBeatFails,
    ValidateSucceeds, ValidateFails, ValidateThrows, BatchThrows, RunReturns, Finish,
    MarkFailed, UpdateThrows, EndIteration, LoopHead, Exit, Kill, Goto, rowVars
<1>3. ASSUME NEW w \in Workers,
         HeartBeat(w) \/ Close(w) \/ CloseUnlocks(w) \/ CloseEnds(w)
     PROVE Comes
  BY <1>3 DEF HeartBeat, Close, CloseUnlocks, CloseEnds, rowVars, workerVars
<1>4. ASSUME NEW m \in Migrations, LeaseLapses(m) \/ Retry(m) PROVE Comes
  BY <1>4 DEF LeaseLapses, Retry, workerVars
<1>5. CASE UNCHANGED vars
  BY <1>5 DEF vars, workerVars
<1> QED
  BY <1>1, <1>2, <1>3, <1>4, <1>5 DEF Next, Loop

(* While the cursor is being saved, its batch is done already. *)
LEMMA BatchDone ==
  ASSUME TypeOK, References, ~Happened({"retryBusy"})', SavedIsDone,
         ~Happened({"retryBusy"}), [Next]_vars, NEW v \in Workers, pc'[v] = "saving"
  PROVE  Done(job[v], cursor[v] + 1)'
<1>1. /\ AtJob(v) /\ job'[v] = job[v] /\ job[v] \in Migrations
      /\ cursor'[v] = cursor[v] /\ cursor[v] # Batches /\ cursor[v] \in 0..Batches
  BY ComesToSave DEF References, TypeOK
<1>2. work[job[v]] \subseteq work'[job[v]]
  BY <1>1, WorkKept
<1>3. CASE pc[v] = "running" /\ work' = [work EXCEPT ![job[v]] = @ \cup {cursor[v]}]
  <2>1. 0..cursor[v] + 1 - 1 = (0..cursor[v] - 1) \cup {cursor[v]}
    BY <1>1, BatchNumber
  <2>2. 0..cursor[v] - 1 \subseteq work[job[v]]
    BY <1>3 DEF SavedIsDone, Done
  <2>3. cursor[v] \in work'[job[v]]
    BY <1>1, <1>3 DEF TypeOK
  <2> QED  BY <1>1, <1>2, <2>1, <2>2, <2>3 DEF Done
<1>4. CASE pc[v] = "saving"
  BY <1>1, <1>2, <1>4 DEF SavedIsDone, Done
<1> QED  BY <1>3, <1>4, ComesToSave

(* How a migration comes to be marked as finished: its loop has come to    *)
(* its end, or was aborted while activeMigration was still set.            *)
LEMMA ComesToFinish ==
  ASSUME TypeOK, References, [Next]_vars, NEW v \in Workers, pc'[v] = "finishing"
  PROVE  /\ AtJob(v) /\ job'[v] = job[v]
         /\ \/ pc[v] = "running" /\ (cursor[v] = Batches \/ aborted[v])
            \/ pc[v] = "finishing"
<1> DEFINE Comes ==
      /\ AtJob(v) /\ job'[v] = job[v]
      /\ \/ pc[v] = "running" /\ (cursor[v] = Batches \/ aborted[v])
         \/ pc[v] = "finishing"
<1> USE DEF TypeOK, References, AtJob
<1>1. ASSUME NEW w \in Workers, RunReturns(w) PROVE Comes
  BY <1>1 DEF RunReturns, EndIteration, LoopHead, Exhausted, Goto, rowVars
<1>2. ASSUME NEW w \in Workers,
         Start(w) \/ Acquire(w) \/ NothingToRun(w) \/ AcquireFails(w) \/ FirstBeat(w) \/
         FirstBeatFails(w) \/ ValidateSucceeds(w) \/ ValidateFails(w) \/ ValidateThrows(w) \/
         ProcessBatch(w) \/ SaveCursor(w) \/ BatchThrows(w) \/ Finish(w) \/ MarkFailed(w) \/
         UpdateThrows(w) \/ Exit(w) \/ Kill(w)
     PROVE Comes
  BY <1>2 DEF Start, Acquire, NothingToRun, AcquireFails, FirstBeat, FirstBeatFails,
    ValidateSucceeds, ValidateFails, ValidateThrows, ProcessBatch, SaveCursor, BatchThrows,
    Finish, MarkFailed, UpdateThrows, EndIteration, LoopHead, Exit, Kill, Goto, rowVars
<1>3. ASSUME NEW w \in Workers,
         HeartBeat(w) \/ Close(w) \/ CloseUnlocks(w) \/ CloseEnds(w)
     PROVE Comes
  BY <1>3 DEF HeartBeat, Close, CloseUnlocks, CloseEnds, rowVars, workerVars
<1>4. ASSUME NEW m \in Migrations, LeaseLapses(m) \/ Retry(m) PROVE Comes
  BY <1>4 DEF LeaseLapses, Retry, workerVars
<1>5. CASE UNCHANGED vars
  BY <1>5 DEF vars, workerVars
<1> QED
  BY <1>1, <1>2, <1>3, <1>4, <1>5 DEF Next, Loop

(* A migration that is about to be marked as finished has done all         *)
(* batches, unless its worker was asked to close.                          *)
LEMMA FinishingDone ==
  ASSUME TypeOK, References, AbortsAreCloses, ~Happened({"retryBusy"})', SavedIsDone,
         ~Happened({"retryBusy"}), [Next]_vars, NEW v \in Workers,
         pc'[v] = "finishing", ~ClosedOn(job[v])'
  PROVE  Done(job[v], Batches)'
<1>1. AtJob(v) /\ job'[v] = job[v] /\ job[v] \in Migrations
  BY ComesToFinish DEF References
<1>2. work[job[v]] \subseteq work'[job[v]]
  BY <1>1, WorkKept
<1>3. ~ClosedOn(job[v])
  <2>1. SUFFICES ASSUME ClosedOn(job[v]) PROVE FALSE
    OBVIOUS
  <2>2. PICK n \in Migrations : n = job[v]
    BY <1>1
  <2>3. ClosedOn(n)'
    BY <2>1, <2>2, ClosedStays
  <2> QED  BY <1>1, <2>2, <2>3 DEF ClosedOn
<1>4. ~(aborted[v] /\ pc[v] = "running")
  BY <1>1, <1>3 DEF AbortsAreCloses, ClosedOn
<1>5. Done(job[v], Batches)
  BY <1>3, <1>4, ComesToFinish DEF SavedIsDone
<1> QED  BY <1>1, <1>2, <1>5 DEF Done

(* A row that is marked as finished is that of a migration whose batches   *)
(* are all done, and no batch of it is done again.                         *)
LEMMA FinishedDone ==
  ASSUME TypeOK, References, AbortsAreCloses, ~Happened({"retryBusy"})', SavedIsDone,
         ~Happened({"retryBusy"}), [Next]_vars, FinishedMeansComplete, TypeOK',
         NEW n \in Migrations, finished'[n], ~ClosedOn(n)'
  PROVE  work'[n] = 0..Batches - 1
<1> USE DEF TypeOK, References, AtJob, SavedIsDone, Done, FinishedMeansComplete
<1>0. ~ClosedOn(n)
  BY ClosedStays
<1>1. ASSUME NEW w \in Workers, ProcessBatch(w) PROVE work'[n] = 0..Batches - 1
  <2>1. job[w] \in Migrations /\ cursor[w] \in 0..Batches /\ cursor[w] # Batches
    BY <1>1 DEF ProcessBatch, Exhausted
  <2>2. cursor[w] \in 0..Batches - 1
    BY <2>1, BatchNumber
  <2>3. /\ finished[n] /\ work[n] = 0..Batches - 1
        /\ work' = [work EXCEPT ![job[w]] = @ \cup {cursor[w]}]
    BY <1>0, <1>1 DEF ProcessBatch
  <2>4. CASE n = job[w]
    BY <2>1, <2>2, <2>3, <2>4
  <2>5. CASE n # job[w]
    BY <2>1, <2>3, <2>5
  <2> QED  BY <2>4, <2>5
<1>2. ASSUME NEW w \in Workers, Finish(w) PROVE work'[n] = 0..Batches - 1
  <2>1. CASE n = job[w]
    BY <1>0, <1>2, <2>1 DEF Finish
  <2>2. CASE n # job[w]
    BY <1>0, <1>2, <2>2 DEF Finish
  <2> QED  BY <2>1, <2>2
<1>3. ASSUME NEW m \in Migrations, Retry(m) PROVE work'[n] = 0..Batches - 1
  BY <1>0, <1>3 DEF Retry, workerVars
<1>4. ASSUME NEW w \in Workers,
         Start(w) \/ Acquire(w) \/ NothingToRun(w) \/ AcquireFails(w) \/ FirstBeat(w) \/
         FirstBeatFails(w) \/ HeartBeat(w) \/ ValidateSucceeds(w) \/ ValidateFails(w) \/
         ValidateThrows(w) \/ SaveCursor(w) \/ BatchThrows(w) \/ RunReturns(w) \/
         MarkFailed(w) \/ UpdateThrows(w) \/ Close(w) \/ CloseUnlocks(w) \/ CloseEnds(w) \/
         Exit(w) \/ Kill(w)
     PROVE work'[n] = 0..Batches - 1
  BY <1>0, <1>4 DEF Start, Acquire, NothingToRun, AcquireFails, FirstBeat, FirstBeatFails,
    HeartBeat, ValidateSucceeds, ValidateFails, ValidateThrows, SaveCursor, BatchThrows,
    RunReturns, MarkFailed, UpdateThrows, Close, CloseUnlocks, CloseEnds, Exit, Kill, Goto,
    rowVars, workerVars
<1>5. ASSUME NEW m \in Migrations, LeaseLapses(m) PROVE work'[n] = 0..Batches - 1
  BY <1>0, <1>5 DEF LeaseLapses, rowVars, workerVars
<1>6. CASE UNCHANGED vars
  BY <1>0, <1>6 DEF vars, workerVars, rowVars
<1> QED
  BY <1>1, <1>2, <1>3, <1>4, <1>5, <1>6 DEF Next, Loop

(* Until a validation has failed, every iteration that goes round the loop *)
(* clears activeMigration first.                                           *)
LEMMA PickClear ==
  ASSUME TypeOK, References, ~Happened({"invalid"})', UnmarkedWhileOwned,
         ~Happened({"invalid"}), [Next]_vars, NEW v \in Workers,
         pc'[v] \in {"down", "pick"}
  PROVE  active'[v] = None
<1> USE DEF TypeOK, References, AtJob, AtBeat, UnmarkedWhileOwned, Resolved
<1>1. ASSUME NEW w \in Workers,
               UpdateThrows(w) \/ CloseEnds(w) \/ Exit(w) \/ Kill(w)
      PROVE  active'[v] = None
  BY <1>1 DEF UpdateThrows, Goto, rowVars, CloseEnds, Exit, Kill
<1>2. ASSUME NEW w \in Workers,
               Start(w) \/ Acquire(w) \/ NothingToRun(w) \/ AcquireFails(w) \/
               FirstBeat(w) \/ FirstBeatFails(w)
      PROVE  active'[v] = None
  BY <1>2 DEF Start, Goto, rowVars, Acquire, Picks, First, Candidates, NothingToRun,
      AcquireFails, FirstBeat, Renewed, FirstBeatFails
<1>3. ASSUME NEW w \in Workers, ValidateFails(w) PROVE active'[v] = None
  <2>1. Incident("invalid")
    BY <1>3 DEF ValidateFails
  <2> QED  BY <2>1, NotOfThese
<1>4. ASSUME NEW w \in Workers,
               ValidateSucceeds(w) \/ ValidateThrows(w) \/ BatchThrows(w) \/
               RunReturns(w) \/ Finish(w) \/ MarkFailed(w)
      PROVE  active'[v] = None
  BY <1>4 DEF ValidateSucceeds, Goto, ResumeFrom, rowVars, ValidateThrows,
      BatchThrows, RunReturns, EndIteration, Exhausted, LoopHead, Finish, MarkFailed
<1>5. ASSUME NEW w \in Workers,
         HeartBeat(w) \/ ProcessBatch(w) \/ SaveCursor(w) \/ Close(w) \/ CloseUnlocks(w)
     PROVE active'[v] = None
  BY <1>5 DEF HeartBeat, ProcessBatch, SaveCursor, Close, CloseUnlocks, Goto, rowVars, workerVars
<1>6. ASSUME NEW m \in Migrations, LeaseLapses(m) \/ Retry(m) PROVE active'[v] = None
  BY <1>6 DEF LeaseLapses, Retry, rowVars, workerVars
<1>7. CASE UNCHANGED vars
  BY <1>7 DEF vars, workerVars, rowVars
<1> QED
  BY <1>1, <1>2, <1>3, <1>4, <1>5, <1>6, <1>7 DEF Next, Loop

(* Until a validation has failed, no worker is about to mark a row for it. *)
LEMMA NoneInvalid ==
  ASSUME TypeOK, References, ~Happened({"invalid"})', UnmarkedWhileOwned,
         ~Happened({"invalid"}), [Next]_vars, NEW v \in Workers
  PROVE  pc'[v] # "invalid"
<1> USE DEF TypeOK, References, AtJob, AtBeat, UnmarkedWhileOwned, Resolved
<1>1. ASSUME NEW w \in Workers,
               UpdateThrows(w) \/ Exit(w) \/ Kill(w)
      PROVE  pc'[v] # "invalid"
  BY <1>1 DEF UpdateThrows, Goto, rowVars, Exit, Kill
<1>2. ASSUME NEW w \in Workers,
               Start(w) \/ Acquire(w) \/ NothingToRun(w) \/ AcquireFails(w) \/
               FirstBeat(w) \/ FirstBeatFails(w)
      PROVE  pc'[v] # "invalid"
  BY <1>2 DEF Start, Goto, rowVars, Acquire, Picks, First, Candidates, NothingToRun,
      AcquireFails, FirstBeat, Renewed, FirstBeatFails
<1>3. ASSUME NEW w \in Workers, ValidateFails(w) PROVE pc'[v] # "invalid"
  <2>1. Incident("invalid")
    BY <1>3 DEF ValidateFails
  <2> QED  BY <2>1, NotOfThese
<1>4. ASSUME NEW w \in Workers,
               ValidateSucceeds(w) \/ ValidateThrows(w) \/ BatchThrows(w) \/
               RunReturns(w) \/ Finish(w) \/ MarkFailed(w)
      PROVE  pc'[v] # "invalid"
  BY <1>4 DEF ValidateSucceeds, Goto, ResumeFrom, rowVars, ValidateThrows,
      BatchThrows, RunReturns, EndIteration, Exhausted, LoopHead, Finish, MarkFailed
<1>5. ASSUME NEW w \in Workers,
         HeartBeat(w) \/ ProcessBatch(w) \/ SaveCursor(w) \/ Close(w) \/ CloseUnlocks(w) \/ CloseEnds(w)
     PROVE pc'[v] # "invalid"
  BY <1>5 DEF HeartBeat, ProcessBatch, SaveCursor, Close, CloseUnlocks, CloseEnds, Goto, rowVars,
    workerVars
<1>6. ASSUME NEW m \in Migrations, LeaseLapses(m) \/ Retry(m) PROVE pc'[v] # "invalid"
  BY <1>6 DEF LeaseLapses, Retry, rowVars, workerVars
<1>7. CASE UNCHANGED vars
  BY <1>7 DEF vars, workerVars, rowVars
<1> QED
  BY <1>1, <1>2, <1>3, <1>4, <1>5, <1>6, <1>7 DEF Next, Loop

(* A worker that takes a migration finds it unmarked, and nobody else      *)
(* marks it while that worker owns the row.                                *)
LEMMA BeatUnmarked ==
  ASSUME TypeOK, References, ~Happened({"invalid"})', UnmarkedWhileOwned,
         ~Happened({"invalid"}), [Next]_vars, NEW v \in Workers, AtBeat(v)',
         active'[v] # None, owner'[active'[v]] = v
  PROVE  ~Resolved(active[v])'
<1> USE DEF TypeOK, References, AtJob, AtBeat, UnmarkedWhileOwned, Resolved
<1>1. ASSUME NEW w \in Workers, Kill(w) PROVE ~Resolved(active[v])'
  BY <1>1 DEF Kill, Goto, rowVars
<1>2. ASSUME NEW w \in Workers,
               Start(w) \/ Acquire(w) \/ NothingToRun(w)
      PROVE  ~Resolved(active[v])'
  BY <1>2 DEF Start, Goto, rowVars, Acquire, Picks, First, Candidates, NothingToRun
<1>3. ASSUME NEW w \in Workers,
               AcquireFails(w) \/ FirstBeat(w) \/ FirstBeatFails(w)
      PROVE  ~Resolved(active[v])'
  BY <1>3 DEF AcquireFails, Goto, Picks, rowVars, First, Candidates, FirstBeat,
      Renewed, FirstBeatFails
<1>4. ASSUME NEW w \in Workers, ValidateFails(w) PROVE ~Resolved(active[v])'
  <2>1. Incident("invalid")
    BY <1>4 DEF ValidateFails
  <2> QED  BY <2>1, NotOfThese
<1>5. ASSUME NEW w \in Workers,
               ValidateSucceeds(w) \/ ValidateThrows(w) \/ BatchThrows(w)
      PROVE  ~Resolved(active[v])'
  BY <1>5 DEF ValidateSucceeds, Goto, ResumeFrom, rowVars, ValidateThrows, BatchThrows
<1>6. ASSUME NEW w \in Workers,
               RunReturns(w) \/ Finish(w) \/ MarkFailed(w)
      PROVE  ~Resolved(active[v])'
  BY <1>6 DEF RunReturns, EndIteration, Goto, Exhausted, rowVars, LoopHead, Finish,
      MarkFailed
<1>7. ASSUME NEW w \in Workers,
               UpdateThrows(w) \/ CloseEnds(w) \/ Exit(w)
      PROVE  ~Resolved(active[v])'
  BY <1>7 DEF UpdateThrows, Goto, rowVars, CloseEnds, Exit
<1>8. ASSUME NEW m \in Migrations, Retry(m) PROVE ~Resolved(active[v])'
  BY <1>8 DEF Retry, workerVars
<1>9. ASSUME NEW w \in Workers,
         HeartBeat(w) \/ ProcessBatch(w) \/ SaveCursor(w) \/ Close(w) \/ CloseUnlocks(w)
     PROVE ~Resolved(active[v])'
  BY <1>9 DEF HeartBeat, ProcessBatch, SaveCursor, Close, CloseUnlocks, Goto, rowVars, workerVars
<1>10. ASSUME NEW m \in Migrations, LeaseLapses(m) PROVE ~Resolved(active[v])'
  BY <1>10 DEF LeaseLapses, rowVars, workerVars
<1>11. CASE UNCHANGED vars
  BY <1>11 DEF vars, workerVars, rowVars
<1> QED
  BY <1>1, <1>2, <1>3, <1>4, <1>5, <1>6, <1>7, <1>8, <1>9, <1>10,
      <1>11 DEF Next, Loop

(* The same while the migration runs: only the owner of a row marks it,    *)
(* and it ends its iteration by doing so.                                  *)
LEMMA JobUnmarked ==
  ASSUME TypeOK, References, ~Happened({"invalid"})', UnmarkedWhileOwned,
         ~Happened({"invalid"}), [Next]_vars, NEW v \in Workers, AtJob(v)',
         owner'[job'[v]] = v
  PROVE  ~Resolved(job[v])'
<1> USE DEF TypeOK, References, AtJob, AtBeat, UnmarkedWhileOwned, Resolved
<1>1. ASSUME NEW w \in Workers,
               Start(w) \/ Acquire(w) \/ NothingToRun(w)
      PROVE  ~Resolved(job[v])'
  BY <1>1 DEF Start, Goto, rowVars, Acquire, Picks, First, Candidates, NothingToRun
<1>2. ASSUME NEW w \in Workers,
               AcquireFails(w) \/ FirstBeat(w) \/ FirstBeatFails(w)
      PROVE  ~Resolved(job[v])'
  BY <1>2 DEF AcquireFails, Goto, Picks, rowVars, First, Candidates, FirstBeat,
      Renewed, FirstBeatFails
<1>3. ASSUME NEW w \in Workers, ValidateFails(w) PROVE ~Resolved(job[v])'
  <2>1. Incident("invalid")
    BY <1>3 DEF ValidateFails
  <2> QED  BY <2>1, NotOfThese
<1>4. ASSUME NEW w \in Workers,
               ValidateSucceeds(w) \/ ValidateThrows(w) \/ BatchThrows(w)
      PROVE  ~Resolved(job[v])'
  BY <1>4 DEF ValidateSucceeds, Goto, ResumeFrom, rowVars, ValidateThrows, BatchThrows
<1>5. ASSUME NEW w \in Workers,
               RunReturns(w) \/ Finish(w) \/ MarkFailed(w)
      PROVE  ~Resolved(job[v])'
  BY <1>5 DEF RunReturns, EndIteration, Goto, Exhausted, rowVars, LoopHead, Finish,
      MarkFailed
<1>6. ASSUME NEW w \in Workers,
               UpdateThrows(w) \/ Exit(w) \/ Kill(w)
      PROVE  ~Resolved(job[v])'
  BY <1>6 DEF UpdateThrows, Goto, rowVars, Exit, Kill
<1>7. ASSUME NEW m \in Migrations, Retry(m) PROVE ~Resolved(job[v])'
  BY <1>7 DEF Retry, workerVars
<1>8. ASSUME NEW w \in Workers,
         HeartBeat(w) \/ ProcessBatch(w) \/ SaveCursor(w) \/ Close(w) \/ CloseUnlocks(w) \/ CloseEnds(w)
     PROVE ~Resolved(job[v])'
  BY <1>8 DEF HeartBeat, ProcessBatch, SaveCursor, Close, CloseUnlocks, CloseEnds, Goto, rowVars,
    workerVars
<1>9. ASSUME NEW m \in Migrations, LeaseLapses(m) PROVE ~Resolved(job[v])'
  BY <1>9 DEF LeaseLapses, rowVars, workerVars
<1>10. CASE UNCHANGED vars
  BY <1>10 DEF vars, workerVars, rowVars
<1> QED
  BY <1>1, <1>2, <1>3, <1>4, <1>5, <1>6, <1>7, <1>8, <1>9,
      <1>10 DEF Next, Loop

(* A row is marked by its owner, which finds it unmarked: it is not marked *)
(* as finished and as failed.                                              *)
LEMMA NotBoth ==
  ASSUME TypeOK, References, ~Happened({"invalid"})', UnmarkedWhileOwned,
         ~Happened({"invalid"}), [Next]_vars, StatusUnambiguous, NEW n \in Migrations
  PROVE  ~(finished[n] /\ failed[n])'
<1> USE DEF TypeOK, References, AtJob, AtBeat, UnmarkedWhileOwned, Resolved, StatusUnambiguous
<1>1. ASSUME NEW w \in Workers, ValidateFails(w) PROVE ~(finished[n] /\ failed[n])'
  <2>1. Incident("invalid")
    BY <1>1 DEF ValidateFails
  <2> QED  BY <2>1, NotOfThese
<1>2. ASSUME NEW w \in Workers,
               Finish(w) \/ MarkFailed(w)
      PROVE  ~(finished[n] /\ failed[n])'
  BY <1>2 DEF Finish, EndIteration, Goto, LoopHead, MarkFailed
<1>3. ASSUME NEW m \in Migrations, Retry(m) PROVE ~(finished[n] /\ failed[n])'
  BY <1>3 DEF Retry, workerVars
<1>4. ASSUME NEW w \in Workers,
         Start(w) \/ Acquire(w) \/ NothingToRun(w) \/ AcquireFails(w) \/ FirstBeat(w) \/
         FirstBeatFails(w) \/ HeartBeat(w) \/ ValidateSucceeds(w) \/ ValidateThrows(w) \/
         ProcessBatch(w) \/ SaveCursor(w) \/ BatchThrows(w) \/ RunReturns(w) \/ UpdateThrows(w) \/
         Close(w) \/ CloseUnlocks(w) \/ CloseEnds(w) \/ Exit(w) \/ Kill(w)
     PROVE ~(finished[n] /\ failed[n])'
  BY <1>4 DEF Start, Acquire, NothingToRun, AcquireFails, FirstBeat, FirstBeatFails, HeartBeat,
    ValidateSucceeds, ValidateThrows, ProcessBatch, SaveCursor, BatchThrows, RunReturns, UpdateThrows,
    Close, CloseUnlocks, CloseEnds, Exit, Kill, Goto, rowVars, workerVars
<1>5. ASSUME NEW m \in Migrations, LeaseLapses(m) PROVE ~(finished[n] /\ failed[n])'
  BY <1>5 DEF LeaseLapses, rowVars, workerVars
<1>6. CASE UNCHANGED vars
  BY <1>6 DEF vars, workerVars, rowVars
<1> QED
  BY <1>1, <1>2, <1>3, <1>4, <1>5, <1>6 DEF Next, Loop

(* Without close(), a worker is not closing. *)
LEMMA NoneCloses ==
  ASSUME TypeOK, References,
         ~Happened({"stall", "close", "invalid", "retry", "retryBusy"})',
         UnmarkedWhileOwned, HoldsLease,
         ~Happened({"stall", "close", "invalid", "retry", "retryBusy"}),
         ~Happened({"invalid"}), [Next]_vars, NEW v \in Workers
  PROVE  closing'[v] = "no"
<1> USE DEF TypeOK, References, AtJob, AtBeat, HoldsLease, Undisturbed, UnmarkedWhileOwned
<1>1. ASSUME NEW w \in Workers, ValidateFails(w) PROVE closing'[v] = "no"
  <2>1. Incident("invalid")
    BY <1>1 DEF ValidateFails
  <2> QED  BY <2>1, NotOfThese
<1>2. ASSUME NEW w \in Workers, Close(w) PROVE closing'[v] = "no"
  <2>1. Incident("close")
    BY <1>2 DEF Close
  <2> QED  BY <2>1, NotOfThese
<1>3. ASSUME NEW w \in Workers,
               CloseUnlocks(w) \/ CloseEnds(w)
      PROVE  closing'[v] = "no"
  BY <1>3 DEF CloseUnlocks, CloseEnds, rowVars
<1>4. ASSUME NEW m \in Migrations, Retry(m) PROVE closing'[v] = "no"
  <2>1. PICK kind \in {"retry", "retryBusy"} : Incident(kind)
    BY <1>4 DEF Retry
  <2> QED  BY <2>1, NotOfThese
<1>5. ASSUME NEW w \in Workers,
         Start(w) \/ Acquire(w) \/ NothingToRun(w) \/ AcquireFails(w) \/ FirstBeat(w) \/
         FirstBeatFails(w) \/ HeartBeat(w) \/ ValidateSucceeds(w) \/ ValidateThrows(w) \/
         ProcessBatch(w) \/ SaveCursor(w) \/ BatchThrows(w) \/ RunReturns(w) \/ Finish(w) \/ MarkFailed(w)
         \/ UpdateThrows(w) \/ Exit(w) \/ Kill(w)
     PROVE closing'[v] = "no"
  BY <1>5 DEF Start, Acquire, NothingToRun, AcquireFails, FirstBeat, FirstBeatFails, HeartBeat,
    ValidateSucceeds, ValidateThrows, ProcessBatch, SaveCursor, BatchThrows, RunReturns, Finish,
    MarkFailed, UpdateThrows, Exit, Kill, Goto, rowVars, workerVars
<1>6. ASSUME NEW m \in Migrations, LeaseLapses(m) PROVE closing'[v] = "no"
  BY <1>6 DEF LeaseLapses, rowVars, workerVars
<1>7. CASE UNCHANGED vars
  BY <1>7 DEF vars, workerVars, rowVars
<1> QED
  BY <1>1, <1>2, <1>3, <1>4, <1>5, <1>6, <1>7 DEF Next, Loop

(* Undisturbed, a worker that comes to its first heartbeat has an          *)
(* activeMigration.                                                        *)
LEMMA BeatHasOne ==
  ASSUME TypeOK, References,
         ~Happened({"stall", "close", "invalid", "retry", "retryBusy"})',
         UnmarkedWhileOwned, HoldsLease,
         ~Happened({"stall", "close", "invalid", "retry", "retryBusy"}),
         ~Happened({"invalid"}), [Next]_vars, NEW v \in Workers, AtBeat(v)'
  PROVE  active'[v] # None
<1> USE DEF TypeOK, References, AtJob, AtBeat, HoldsLease, Undisturbed, UnmarkedWhileOwned
<1>1. ASSUME NEW w \in Workers, Acquire(w) PROVE active'[v] # None
  BY <1>1, MigrationsAssumption DEF Acquire, Goto, Picks, First, Candidates, Migrations
<1>2. ASSUME NEW w \in Workers,
               CloseEnds(w) \/ Exit(w) \/ Kill(w)
      PROVE  active'[v] # None
  BY <1>2 DEF CloseEnds, rowVars, Exit, Goto, Kill
<1>3. ASSUME NEW w \in Workers,
               Start(w) \/ NothingToRun(w) \/ AcquireFails(w) \/ FirstBeat(w) \/
               FirstBeatFails(w) \/ ValidateSucceeds(w)
      PROVE  active'[v] # None
  BY <1>3 DEF Start, Goto, rowVars, NothingToRun, Picks, First, Candidates,
      AcquireFails, FirstBeat, Renewed, FirstBeatFails, ValidateSucceeds, ResumeFrom
<1>4. ASSUME NEW w \in Workers, ValidateFails(w) PROVE active'[v] # None
  <2>1. Incident("invalid")
    BY <1>4 DEF ValidateFails
  <2> QED  BY <2>1, NotOfThese
<1>5. ASSUME NEW w \in Workers,
               ValidateThrows(w) \/ BatchThrows(w) \/ RunReturns(w) \/ Finish(w) \/
               MarkFailed(w) \/ UpdateThrows(w)
      PROVE  active'[v] # None
  BY <1>5 DEF ValidateThrows, Goto, rowVars, BatchThrows, RunReturns, EndIteration,
      Exhausted, LoopHead, Finish, MarkFailed, UpdateThrows
<1>6. ASSUME NEW w \in Workers, Close(w) PROVE active'[v] # None
  <2>1. Incident("close")
    BY <1>6 DEF Close
  <2> QED  BY <2>1, NotOfThese
<1>7. ASSUME NEW m \in Migrations, Retry(m) PROVE active'[v] # None
  <2>1. PICK kind \in {"retry", "retryBusy"} : Incident(kind)
    BY <1>7 DEF Retry
  <2> QED  BY <2>1, NotOfThese
<1>8. ASSUME NEW w \in Workers,
         HeartBeat(w) \/ ProcessBatch(w) \/ SaveCursor(w) \/ CloseUnlocks(w)
     PROVE active'[v] # None
  BY <1>8 DEF HeartBeat, ProcessBatch, SaveCursor, CloseUnlocks, Goto, rowVars, workerVars
<1>9. ASSUME NEW m \in Migrations, LeaseLapses(m) PROVE active'[v] # None
  BY <1>9 DEF LeaseLapses, rowVars, workerVars
<1>10. CASE UNCHANGED vars
  BY <1>10 DEF vars, workerVars, rowVars
<1> QED
  BY <1>1, <1>2, <1>3, <1>4, <1>5, <1>6, <1>7, <1>8, <1>9,
      <1>10 DEF Next, Loop

(* Undisturbed, activeMigration is the migration of the iteration until it *)
(* ends.                                                                   *)
LEMMA ActiveIsJob ==
  ASSUME TypeOK, References,
         ~Happened({"stall", "close", "invalid", "retry", "retryBusy"})',
         UnmarkedWhileOwned, HoldsLease,
         ~Happened({"stall", "close", "invalid", "retry", "retryBusy"}),
         ~Happened({"invalid"}), [Next]_vars, NEW v \in Workers, AtJob(v)'
  PROVE  active'[v] = job'[v]
<1> USE DEF TypeOK, References, AtJob, AtBeat, HoldsLease, Undisturbed, UnmarkedWhileOwned
<1>1. ASSUME NEW w \in Workers,
               UpdateThrows(w) \/ CloseEnds(w) \/ Exit(w) \/ Kill(w)
      PROVE  active'[v] = job'[v]
  BY <1>1 DEF UpdateThrows, Goto, rowVars, CloseEnds, Exit, Kill
<1>2. ASSUME NEW w \in Workers,
               Start(w) \/ Acquire(w) \/ NothingToRun(w) \/ AcquireFails(w) \/
               FirstBeat(w) \/ FirstBeatFails(w)
      PROVE  active'[v] = job'[v]
  BY <1>2 DEF Start, Goto, rowVars, Acquire, Picks, First, Candidates, NothingToRun,
      AcquireFails, FirstBeat, Renewed, FirstBeatFails
<1>3. ASSUME NEW w \in Workers, ValidateFails(w) PROVE active'[v] = job'[v]
  <2>1. Incident("invalid")
    BY <1>3 DEF ValidateFails
  <2> QED  BY <2>1, NotOfThese
<1>4. ASSUME NEW w \in Workers,
               ValidateSucceeds(w) \/ ValidateThrows(w) \/ BatchThrows(w) \/
               RunReturns(w) \/ Finish(w) \/ MarkFailed(w)
      PROVE  active'[v] = job'[v]
  BY <1>4 DEF ValidateSucceeds, Goto, ResumeFrom, rowVars, ValidateThrows,
      BatchThrows, RunReturns, EndIteration, Exhausted, LoopHead, Finish, MarkFailed
<1>5. ASSUME NEW w \in Workers, Close(w) PROVE active'[v] = job'[v]
  <2>1. Incident("close")
    BY <1>5 DEF Close
  <2> QED  BY <2>1, NotOfThese
<1>6. ASSUME NEW m \in Migrations, Retry(m) PROVE active'[v] = job'[v]
  <2>1. PICK kind \in {"retry", "retryBusy"} : Incident(kind)
    BY <1>6 DEF Retry
  <2> QED  BY <2>1, NotOfThese
<1>7. ASSUME NEW w \in Workers,
         HeartBeat(w) \/ ProcessBatch(w) \/ SaveCursor(w) \/ CloseUnlocks(w)
     PROVE active'[v] = job'[v]
  BY <1>7 DEF HeartBeat, ProcessBatch, SaveCursor, CloseUnlocks, Goto, rowVars, workerVars
<1>8. ASSUME NEW m \in Migrations, LeaseLapses(m) PROVE active'[v] = job'[v]
  BY <1>8 DEF LeaseLapses, rowVars, workerVars
<1>9. CASE UNCHANGED vars
  BY <1>9 DEF vars, workerVars, rowVars
<1> QED
  BY <1>1, <1>2, <1>3, <1>4, <1>5, <1>6, <1>7, <1>8, <1>9 DEF Next, Loop

(* Undisturbed, a worker owns the row of its activeMigration under a lease *)
(* that has not lapsed, so that no other worker's query picks it.          *)
LEMMA OwnsActive ==
  ASSUME TypeOK, References,
         ~Happened({"stall", "close", "invalid", "retry", "retryBusy"})',
         UnmarkedWhileOwned, HoldsLease,
         ~Happened({"stall", "close", "invalid", "retry", "retryBusy"}),
         ~Happened({"invalid"}), [Next]_vars, NEW v \in Workers,
         (AtBeat(v) \/ AtJob(v))'
  PROVE  owner'[active'[v]] = v /\ lease'[active'[v]] = "live"
<1> DEFINE Kept ==
      owner'[active'[v]] = v /\ lease'[active'[v]] = "live"
<1> USE DEF TypeOK, References, AtJob, AtBeat, HoldsLease, Undisturbed, UnmarkedWhileOwned
<1>1. ASSUME NEW w \in Workers,
               Start(w) \/ Acquire(w) \/ NothingToRun(w) \/ AcquireFails(w) \/
               FirstBeat(w) \/ FirstBeatFails(w)
      PROVE  Kept
  BY <1>1 DEF Start, Goto, rowVars, Acquire, Picks, First, Candidates, NothingToRun,
      AcquireFails, FirstBeat, Renewed, FirstBeatFails
<1>2. ASSUME NEW w \in Workers, ValidateFails(w) PROVE Kept
  <2>1. Incident("invalid")
    BY <1>2 DEF ValidateFails
  <2> QED  BY <2>1, NotOfThese
<1>3. ASSUME NEW w \in Workers,
               HeartBeat(w) \/ ValidateSucceeds(w) \/ ValidateThrows(w) \/
               BatchThrows(w) \/ RunReturns(w) \/ Finish(w)
      PROVE  Kept
  BY <1>3 DEF HeartBeat, Renewed, workerVars, ValidateSucceeds, Goto, ResumeFrom,
      rowVars, ValidateThrows, BatchThrows, RunReturns, EndIteration, Exhausted,
      LoopHead, Finish
<1>4. ASSUME NEW w \in Workers, Close(w) PROVE Kept
  <2>1. Incident("close")
    BY <1>4 DEF Close
  <2> QED  BY <2>1, NotOfThese
<1>5. ASSUME NEW w \in Workers,
               MarkFailed(w) \/ UpdateThrows(w) \/ CloseUnlocks(w) \/
               CloseEnds(w) \/ Exit(w) \/ Kill(w)
      PROVE  Kept
  BY <1>5 DEF MarkFailed, EndIteration, LoopHead, Goto, UpdateThrows, rowVars,
      CloseUnlocks, CloseEnds, Exit, Kill
<1>6. ASSUME NEW m \in Migrations, LeaseLapses(m) PROVE Kept
  <2>1. active' = active /\ owner' = owner /\ (AtBeat(v) \/ AtJob(v))
    BY <1>6 DEF LeaseLapses, workerVars
  <2>2. /\ owner[active[v]] = v /\ lease[active[v]] = "live"
        /\ active[v] # None /\ ~Resolved(active[v])
    <3>1. CASE AtBeat(v)
      BY <3>1
    <3>2. CASE AtJob(v)
      <4>1. /\ active[v] = job[v] /\ job[v] \in Migrations
            /\ owner[job[v]] = v /\ lease[job[v]] = "live"
        BY <3>2
      <4>2. ~Resolved(job[v])
        BY <3>2, <4>1
      <4> QED  BY <4>1, <4>2, MigrationsAssumption
    <3> QED  BY <2>1, <3>1, <3>2
  <2>3. CASE m = active[v]
    <3>1. Up(v) /\ pc[v] # "mute" /\ Keeps(v, m)
      BY <2>1, <2>2, <2>3 DEF Up, Keeps, Resolved
    <3>2. Incident("stall")
      BY <1>6, <3>1 DEF LeaseLapses
    <3> QED  BY <3>2, NotOfThese
  <2>4. CASE m # active[v]
    BY <1>6, <2>1, <2>2, <2>4 DEF LeaseLapses
  <2> QED  BY <2>3, <2>4
<1>7. ASSUME NEW m \in Migrations, Retry(m) PROVE Kept
  <2>1. PICK kind \in {"retry", "retryBusy"} : Incident(kind)
    BY <1>7 DEF Retry
  <2> QED  BY <2>1, NotOfThese
<1>8. ASSUME NEW w \in Workers,
         ProcessBatch(w) \/ SaveCursor(w)
     PROVE Kept
  BY <1>8 DEF ProcessBatch, SaveCursor, Goto, rowVars, workerVars
<1>9. CASE UNCHANGED vars
  BY <1>9 DEF vars, workerVars, rowVars
<1> QED
  BY <1>1, <1>2, <1>3, <1>4, <1>5, <1>6, <1>7, <1>8, <1>9 DEF Next, Loop

(* Every step keeps the inductive invariant. *)
LEMMA MigrationsInvKept == MigrationsInv /\ [Next]_vars => MigrationsInv'
<1> SUFFICES ASSUME MigrationsInv, [Next]_vars PROVE MigrationsInv'
  OBVIOUS
<1>1. TypeOK /\ References /\ TypeOK' /\ incidents \subseteq incidents'
  BY TypesKept, IncidentsGrow DEF MigrationsInv
<1>2. References'
  <2>1. ASSUME NEW w \in Workers, AtJob(w)' PROVE job'[w] \in Migrations
    BY <1>1, <2>1, JobMoves DEF References, TypeOK
  <2>2. ASSUME NEW w \in Workers
        PROVE  active'[w] \notin Dormant /\ (AtJob(w)' => job'[w] \notin Dormant)
    BY <1>1, <2>2, ActiveMoves, JobMoves, MigrationsAssumption
    DEF References, Picks, First, Candidates
  <2>3. ASSUME NEW w \in Workers, pc'[w] = "saving" PROVE cursor'[w] # Batches
    BY <1>1, <2>3, ComesToSave
  <2> QED  BY <1>1, <2>1, <2>2, <2>3, CloseOfKept DEF References
<1>3. Ordered'
  <2> SUFFICES ASSUME ~Happened({"retry", "retryBusy"})' PROVE Ordered'
    BY DEF Ordered
  <2>1. ~Happened({"retry", "retryBusy"})
    BY <1>1, Unhappened
  <2>2. ASSUME NEW m \in Migrations \cup {None}, m # None, \A n \in Earlier(m) : Resolved(n)
        PROVE  \A n \in Earlier(m) : Resolved(n)'
    BY <1>1, <2>2, StaysMarked DEF Earlier
  <2>3. ASSUME NEW m \in Picks PROVE m \in Migrations /\ \A n \in Earlier(m) : Resolved(n)
    BY DEF Picks, First, Candidates, Earlier, Resolved, Migrations
  <2>4. ASSUME NEW w \in Workers, active'[w] # None
        PROVE  \A n \in Earlier(active'[w]) : Resolved(n)'
    <3>1. active'[w] \in Migrations \cup {None} /\ \A n \in Earlier(active'[w]) : Resolved(n)
      BY <1>1, <2>1, <2>3, <2>4, ActiveMoves DEF MigrationsInv, Ordered, TypeOK
    <3> QED  BY <2>2, <2>4, <3>1
  <2>5. ASSUME NEW w \in Workers, AtJob(w)'
        PROVE  \A n \in Earlier(job'[w]) : Resolved(n)'
    <3>1. job'[w] \in Migrations \cup {None} /\ \A n \in Earlier(job'[w]) : Resolved(n)
      BY <1>1, <2>1, <2>5, JobMoves DEF MigrationsInv, Ordered, TypeOK
    <3>2. job'[w] # None
      BY <1>1, <2>5, JobMoves, MigrationsAssumption DEF References
    <3> QED  BY <2>2, <3>1, <3>2
  <2> QED  BY <2>4, <2>5 DEF Ordered, Earlier
<1>4. SavedIsDone' /\ FinishedMeansComplete'
  <2> SUFFICES ASSUME ~Happened({"retryBusy"})'
               PROVE  SavedIsDone' /\ FinishedMeansComplete'
    BY DEF SavedIsDone, FinishedMeansComplete
  <2>1. ~Happened({"retryBusy"}) /\ AbortsAreCloses
    BY <1>1, Unhappened DEF MigrationsInv
  <2> QED
    BY <1>1, <2>1, ProgressDone, CursorDone, BatchDone, FinishingDone, FinishedDone
    DEF MigrationsInv, SavedIsDone, FinishedMeansComplete
<1>5. UnmarkedWhileOwned' /\ StatusUnambiguous'
  <2> SUFFICES ASSUME ~Happened({"invalid"})' PROVE UnmarkedWhileOwned' /\ StatusUnambiguous'
    BY DEF UnmarkedWhileOwned, StatusUnambiguous
  <2>1. ~Happened({"invalid"})
    BY <1>1, Unhappened
  <2> QED
    BY <1>1, <2>1, PickClear, NoneInvalid, BeatUnmarked, JobUnmarked, NotBoth
    DEF MigrationsInv, UnmarkedWhileOwned, StatusUnambiguous
<1>6. HoldsLease'
  <2> SUFFICES ASSUME Undisturbed' PROVE HoldsLease'
    BY DEF HoldsLease
  <2>1. Undisturbed /\ ~Happened({"invalid"})
    BY <1>1, Unhappened DEF Undisturbed, Happened
  <2> QED
    BY <1>1, <2>1, NoneCloses, BeatHasOne, ActiveIsJob, OwnsActive
    DEF MigrationsInv, HoldsLease, Undisturbed
<1>7. AbortsAreCloses'
  BY <1>1, AbortsKept DEF MigrationsInv
<1> QED  BY <1>1, <1>2, <1>3, <1>4, <1>5, <1>6, <1>7 DEF MigrationsInv

(* It holds before any worker has started. *)
LEMMA MigrationsInvInit == Init => MigrationsInv
<1> SUFFICES ASSUME Init PROVE MigrationsInv
  OBVIOUS
<1> USE DEF Init
<1>1. TypeOK
  <2>1. 0 \in 0..Batches
    BY MigrationsAssumption
  <2> QED  BY <2>1 DEF TypeOK
<1>2. References /\ AbortsAreCloses /\ Ordered /\ UnmarkedWhileOwned /\ HoldsLease
  BY MigrationsAssumption DEF References, AbortsAreCloses, Ordered, UnmarkedWhileOwned, HoldsLease, AtJob, AtBeat
<1>3. SavedIsDone /\ FinishedMeansComplete /\ StatusUnambiguous
  BY DEF SavedIsDone, Done, FinishedMeansComplete, StatusUnambiguous
<1> QED  BY <1>1, <1>2, <1>3 DEF MigrationsInv

(* It always holds. *)
LEMMA MigrationsInvHolds == Spec => []MigrationsInv
  BY MigrationsInvInit, MigrationsInvKept, PTL DEF Spec

(* The run loops, close() and the table keep their types                   *)
(* (backgroundMigrationManager.ts).                                        *)
THEOREM MigrationsTyped == Spec => []TypeOK
<1>1. MigrationsInv => TypeOK
  BY DEF MigrationsInv
<1> QED  BY <1>1, MigrationsInvHolds, PTL

(* Migrations do not run concurrently, as the comment at line 78 says:     *)
(* with any number of workers, killed at any moment, with failing          *)
(* statements and throwing migrations, no two run() loops are in a         *)
(* migration at a time, unless a lease is outlived by its holder, close()  *)
(* is called, a validation fails or a migration is retried. The migrations *)
(* two workers run are the first unmarked one, and its row has one owner.  *)
THEOREM OneWorkerRuns == Spec => []OnlyOneRuns
<1>1. MigrationsInv => OnlyOneRuns
  <2> SUFFICES ASSUME MigrationsInv, Undisturbed, NEW v \in Workers, NEW w \in Workers,
                      Runs(v), Runs(w)
               PROVE  v = w
    BY DEF OnlyOneRuns, Undisturbed
  <2>1. ~Happened({"invalid"}) /\ ~Happened({"retry", "retryBusy"})
    BY DEF Undisturbed, Happened
  <2>2. ASSUME NEW u \in Workers, Runs(u)
        PROVE  /\ job[u] \in Migrations /\ owner[job[u]] = u /\ ~Resolved(job[u])
               /\ \A n \in Earlier(job[u]) : Resolved(n)
    BY <2>1, <2>2 DEF MigrationsInv, References, Ordered, UnmarkedWhileOwned, HoldsLease, AtJob,
      Runs
  <2>3. job[v] \notin Dormant /\ job[w] \notin Dormant
    BY DEF MigrationsInv, References, AtJob, Runs
  <2>4. ~(job[v] < job[w]) /\ ~(job[w] < job[v])
    BY <2>2, <2>3 DEF Earlier
  <2>5. job[v] = job[w]
    BY <2>2, <2>4 DEF Migrations
  <2> QED  BY <2>2, <2>5
<1> QED  BY <1>1, MigrationsInvHolds, PTL

(* run() takes the first migration that is neither finished nor failed:    *)
(* short of a retry, a worker runs a migration only when every earlier one *)
(* that is not dormant is marked, however late the worker is.              *)
THEOREM MigrationsRunInOrder == Spec => []RunsInOrder
<1>1. MigrationsInv => RunsInOrder
  BY DEF MigrationsInv, Ordered, RunsInOrder, AtJob, Earlier, Runs
<1> QED  BY <1>1, MigrationsInvHolds, PTL

(* A row with finishedAt is that of a migration that has done every batch, *)
(* by however many workers, killed before or after a cursor was saved,     *)
(* overtaken or run beside each other, unless its own worker was asked to  *)
(* close or a migration was retried while it ran.                          *)
THEOREM FinishedIsComplete == Spec => []FinishedMeansComplete
<1>1. MigrationsInv => FinishedMeansComplete
  BY DEF MigrationsInv
<1> QED  BY <1>1, MigrationsInvHolds, PTL

(* Until a validation fails, no row has both finishedAt and failedAt. *)
THEOREM StatusIsUnambiguous == Spec => []StatusUnambiguous
<1>1. MigrationsInv => StatusUnambiguous
  BY DEF MigrationsInv
<1> QED  BY <1>1, MigrationsInvHolds, PTL

=============================================================================
