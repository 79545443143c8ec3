----------------------- MODULE TraceDeleteBatchAction -----------------------
(***************************************************************************)
(* Deleting all traces that match a query, page by page.  A request puts a *)
(* row into the batch_actions table, or resets the one of an earlier       *)
(* request.  Workers take turns under one lock: a run takes the active     *)
(* action that was written least recently and deletes a few of its pages.  *)
(* The next page is stored before it is deleted, and everything a run      *)
(* stores it stores after it has checked that the lock is still its own;   *)
(* check and write are two steps.  A run that throws counts a failure.     *)
(* Definitions named Fault... are deliberate errors: no definition uses    *)
(* one, and each shows that a property would notice it.                    *)
(* src/worker/src/features/trace-delete-batch-action-runner/index.ts,      *)
(* src/worker/src/features/batchAction/processTraceDeleteBatchAction.ts,   *)
(* src/web/src/features/table/server/createBatchActionJob.ts               *)
(***************************************************************************)
EXTENDS RedisLock, FiniteSets

CONSTANTS
  RunnerKey,         \* the runner's lock key
  Actions,           \* batch actions: one row for each
  MaxBatches,        \* pages of a run
  MaxFailures,       \* TRACE_DELETE_BATCH_ACTION_MAX_FAILURES
  PageCounts,        \* how many pages a query may match (bounds the model)
  MaxRequests,       \* requests for an action (bounds the model)
  MaxBatchFaults     \* deaths, lapses of the lock and errors (bounds the model)

ASSUME BatchAssumption ==
  /\ RunnerKey \in Keys
  /\ IsFiniteSet(Actions) /\ Actions # {}
  /\ {MaxBatches, MaxFailures} \subseteq Nat \ {0}
  /\ IsFiniteSet(PageCounts) /\ PageCounts \subseteq Nat
  /\ {MaxRequests, MaxBatchFaults} \subseteq Nat

VARIABLES
  batchAction,       \* the rows
  older,             \* of each row, those that were written before it (updatedAt)
  gonePages,         \* pages of the row's present request whose traces are deleted
  job,               \* the run of each worker
  overtaken,         \* whether a run that had lost the lock wrote the row ("wrote"), and
                     \* whether thereby one request's state got into another ("crossed")
  batchFaults        \* faults so far

batchVars == <<lock, batchAction, older, gonePages, job, overtaken, batchFaults>>

(* page is that of inFlightBatch, 0 for none.  request and pages stand for *)
(* the query of the row, which no run writes.                              *)
NoRow ==
  [request |-> 0, pages |-> 0, status |-> "none", page |-> 0, processed |-> 0, failures |-> 0]

NoJob ==
  [phase |-> "idle", action |-> CHOOSE a \in Actions : TRUE, state |-> NoRow, then |-> "releasing",
   batches |-> 0, held |-> FALSE]

BatchInit ==
  /\ LockInit
  /\ batchAction = [a \in Actions |-> NoRow]
  /\ older = [a \in Actions |-> {}]
  /\ gonePages = [a \in Actions |-> {}]
  /\ job = [w \in Workers |-> NoJob]
  /\ overtaken = [a \in Actions |-> "no"]
  /\ batchFaults = 0

FaultActive == {a \in Actions : batchAction[a].status = "Queued"}

Active == {a \in Actions : batchAction[a].status \in {"Queued", "Processing"}}

Finished(state) == state.status \in {"Completed", "Failed"}

(* Every write sets the row's updatedAt to now (@updatedAt). *)
Touches(a) ==
  LET stored == {b \in Actions : batchAction[b].status # "none"}
  IN  older' = [b \in Actions |-> IF b = a THEN stored \ {a} ELSE older[b] \ {a}]

(* What throws costs 1, the rest 2 of the faults there may be. *)
Strikes(cost) ==
  /\ batchFaults + cost <= MaxBatchFaults
  /\ batchFaults' = batchFaults + cost

(* selectNextTraceDeleteBatch: a page of the query that was read, or none. *)
PageAfter(state) == IF state.page < state.pages THEN state.page + 1 ELSE 0

CompletedState(state) == [state EXCEPT !.status = "Completed", !.page = 0, !.failures = 0]

Goes(w, phase) == job' = [job EXCEPT ![w].phase = phase]

Releases(w) == job' = [job EXCEPT ![w] = [NoJob EXCEPT !.phase = "releasing"]]

(* ... forgetting what it no longer needs. *)
Proceeds(w, phase) ==
  job' = [job EXCEPT ![w] = [NoJob EXCEPT !.phase = phase, !.action = job[w].action,
                               !.batches = job[w].batches,
                               !.state = IF phase = "deleting" THEN job[w].state ELSE NoRow]]

(* commitTraceDeleteBatchActionState(state), and what comes after it. *)
Commits(w, state, then) ==
  job' = [job EXCEPT ![w].phase = "committing", ![w].state = state, ![w].then = then]

FaultMayCommit(w) == TRUE

MayCommit(w) == Owns(w, RunnerKey)

(* A run that has lost the lock between its check and its write. *)
Overtaken(w) == job[w].held /\ ~Owns(w, RunnerKey)

-----------------------------------------------------------------------------

(* createBatchActionJob: a new row, or a reset of one that is not active. *)
Request(a) ==
  /\ a \notin Active
  /\ batchAction[a].request < MaxRequests
  /\ \E n \in PageCounts :
       batchAction' = [batchAction EXCEPT
         ![a] = [NoRow EXCEPT !.request = batchAction[a].request + 1, !.pages = n, !.status = "Queued"]]
  /\ Touches(a)
  /\ gonePages' = [gonePages EXCEPT ![a] = {}]
  /\ UNCHANGED <<lock, job, overtaken, batchFaults>>

Acquire(w) ==
  /\ job[w].phase = "idle"
  /\ IsFree(RunnerKey)
  /\ lock' = Acquired(w, RunnerKey)
  /\ Goes(w, "picking")
  /\ UNCHANGED <<batchAction, older, gonePages, overtaken, batchFaults>>

(* getActiveWorkload *)
Pick(w) ==
  /\ job[w].phase = "picking"
  /\ IF Active = {}
     THEN Releases(w)
     ELSE \E a \in Active :
            /\ older[a] \cap Active = {}
            /\ job' = [job EXCEPT ![w].phase = "reading", ![w].action = a]
  /\ UNCHANGED <<lock, batchAction, older, gonePages, overtaken, batchFaults>>

(* The top of the loop.  Without a page in flight the action is at its     *)
(* beginning: the first page is looked up and stored.                      *)
Read(w) ==
  LET row == batchAction[job[w].action]
      first == PageAfter(row)
  IN  /\ job[w].phase = "reading"
      /\ \/ /\ Finished(row)
            /\ Releases(w)
         \/ /\ ~Finished(row) /\ row.page = 0 /\ first = 0
            /\ Commits(w, CompletedState(row), "releasing")
         \/ /\ ~Finished(row) /\ row.page = 0 /\ first # 0
            /\ Commits(w, [row EXCEPT !.status = "Processing", !.page = first], "deleting")
         \/ /\ ~Finished(row) /\ row.page # 0
            /\ IF row.status = "Queued"
               THEN Commits(w, [row EXCEPT !.status = "Processing"], "deleting")
               ELSE job' = [job EXCEPT ![w].phase = "deleting", ![w].state = row]
      /\ UNCHANGED <<lock, batchAction, older, gonePages, overtaken, batchFaults>>

(* shouldSkipDeletion *)
Skip(w) ==
  /\ job[w].phase = "deleting"
  /\ Commits(w, [job[w].state EXCEPT !.status = "Failed"], "releasing")
  /\ UNCHANGED <<lock, batchAction, older, gonePages, overtaken, batchFaults>>

(* The traces of the page, in Postgres and in ClickHouse. *)
DeletePage(w) ==
  LET a == job[w].action
  IN  /\ job[w].phase = "deleting"
      /\ gonePages' = IF batchAction[a].request = job[w].state.request
                      THEN [gonePages EXCEPT ![a] = @ \cup {job[w].state.page}]
                      ELSE gonePages
      /\ Goes(w, "extending")
      /\ UNCHANGED <<lock, batchAction, older, overtaken, batchFaults>>

Extend(w) ==
  /\ job[w].phase = "extending"
  /\ lock' = Extended(w, RunnerKey)
  /\ IF Owns(w, RunnerKey) THEN Goes(w, "selecting") ELSE Releases(w)
  /\ UNCHANGED <<batchAction, older, gonePages, overtaken, batchFaults>>

FaultAdvanced(state) ==
  [state EXCEPT !.processed = @ + 1, !.failures = 0, !.page = PageAfter([state EXCEPT !.page = @ + 1])]

(* The page is counted and the next one takes its place. *)
Advanced(state) ==
  [state EXCEPT !.processed = @ + 1, !.failures = 0, !.page = PageAfter(state)]

SelectNext(w) ==
  LET state == Advanced(job[w].state)
      again == job[w].batches + 1 < MaxBatches
  IN  /\ job[w].phase = "selecting"
      /\ IF state.page = 0
         THEN Commits(w, CompletedState(state), "releasing")
         ELSE job' = [job EXCEPT ![w].phase = "committing", ![w].state = state,
                                 ![w].then = IF again THEN "reading" ELSE "releasing",
                                 ![w].batches = @ + 1]
      /\ UNCHANGED <<lock, batchAction, older, gonePages, overtaken, batchFaults>>

(* assertCanCommitProgress; without the lock the run ends, unrecorded. *)
Check(w) ==
  /\ job[w].phase = "committing"
  /\ IF MayCommit(w)
     THEN job' = [job EXCEPT ![w].phase = "writing", ![w].held = Owns(w, RunnerKey)]
     ELSE Releases(w)
  /\ UNCHANGED <<lock, batchAction, older, gonePages, overtaken, batchFaults>>

(* The update names the row by its id alone. *)
Writes(w) ==
  LET a == job[w].action
      state == job[w].state
  IN  /\ batchAction' = [batchAction EXCEPT
           ![a] = [state EXCEPT !.request = batchAction[a].request, !.pages = batchAction[a].pages]]
      /\ Touches(a)
      /\ overtaken' = [overtaken EXCEPT ![a] =
           IF @ = "no" /\ ~Overtaken(w) THEN "no"
           ELSE IF state.request # batchAction[a].request THEN "crossed"
           ELSE IF @ = "no" THEN "wrote" ELSE @]

Write(w) ==
  /\ job[w].phase = "writing"
  /\ Writes(w)
  /\ IF job[w].then \in {"releasing", "recorded"} THEN Releases(w) ELSE Proceeds(w, job[w].then)
  /\ UNCHANGED <<lock, gonePages, batchFaults>>

(* A query, a deletion or a write throws; the write may have been made. *)
Throws(w) ==
  /\ job[w].phase \in {"reading", "deleting", "selecting", "writing"}
  /\ job[w].then # "recorded"
  /\ Strikes(1)
  /\ \/ UNCHANGED <<batchAction, older, overtaken>>
     \/ /\ job[w].phase = "writing"
        /\ Writes(w)
  /\ Proceeds(w, "failing")
  /\ UNCHANGED <<lock, gonePages>>

(* recordTraceDeleteBatchActionFailure *)
RecordFailure(w) ==
  LET row == batchAction[job[w].action]
      failed == [row EXCEPT !.failures = @ + 1]
  IN  /\ job[w].phase = "failing"
      /\ IF Finished(row)
         THEN Releases(w)
         ELSE Commits(w, IF failed.failures >= MaxFailures
                         THEN [failed EXCEPT !.status = "Failed"]
                         ELSE failed, "recorded")
      /\ UNCHANGED <<lock, batchAction, older, gonePages, overtaken, batchFaults>>

(* An error while a failure is recorded is logged. *)
RecordErrs(w) ==
  /\ Strikes(1)
  /\ \/ /\ job[w].phase = "failing"
        /\ UNCHANGED <<batchAction, older, overtaken>>
     \/ /\ job[w].phase = "writing"
        /\ job[w].then = "recorded"
        /\ (UNCHANGED <<batchAction, older, overtaken>>) \/ Writes(w)
  /\ Releases(w)
  /\ UNCHANGED <<lock, gonePages>>

Finish(w) ==
  /\ job[w].phase = "releasing"
  /\ lock' = Released(w, RunnerKey)
  /\ job' = [job EXCEPT ![w] = NoJob]
  /\ UNCHANGED <<batchAction, older, gonePages, overtaken, batchFaults>>

-----------------------------------------------------------------------------

(* Redis answers with an error: extend and isHeldByCurrentProcess say      *)
(* FALSE, release leaves the lock to its time to live.                     *)
RedisErrs(w) ==
  /\ Strikes(2)
  /\ \/ job[w].phase \in {"extending", "committing"} /\ Releases(w)
     \/ job[w].phase = "releasing" /\ job' = [job EXCEPT ![w] = NoJob]
  /\ UNCHANGED <<lock, batchAction, older, gonePages, overtaken>>

RunnerDies(w) ==
  /\ Strikes(2)
  /\ job[w].phase # "idle"
  /\ lock' = Orphaned(w, RunnerKey)
  /\ job' = [job EXCEPT ![w] = NoJob]
  /\ UNCHANGED <<batchAction, older, gonePages, overtaken>>

(* The time to live is over: of a lock that nobody works under, or, a      *)
(* fault, of one whose holder has taken too long.                          *)
LockLapses ==
  LET working == {w \in Workers : Owns(w, RunnerKey) /\ job[w].phase # "idle"}
  IN  /\ ~IsFree(RunnerKey)
      /\ IF working = {} THEN UNCHANGED batchFaults ELSE Strikes(2)
      /\ lock' = [lock EXCEPT ![RunnerKey] = Unlocked]
      /\ UNCHANGED <<batchAction, older, gonePages, job, overtaken>>

JobSteps(w) ==
  \/ Acquire(w) \/ Pick(w) \/ Read(w) \/ DeletePage(w) \/ Extend(w) \/ SelectNext(w)
  \/ Check(w) \/ Write(w) \/ RecordFailure(w) \/ Finish(w)

BatchNext ==
  \/ \E a \in Actions : Request(a)
  \/ \E w \in Workers : JobSteps(w) \/ Skip(w) \/ Throws(w) \/ RecordErrs(w) \/ RedisErrs(w) \/ RunnerDies(w)
  \/ LockLapses

BatchSpec == BatchInit /\ [][BatchNext]_batchVars

-----------------------------------------------------------------------------

(* A number of pages there may be, or of a page of them, 0 for none. *)
Pages == UNION {0..n : n \in PageCounts \cup {0}}

(* The rows there are in the order of their updatedAt. *)
OldestFirst ==
  /\ \A a \in Actions :
       /\ a \notin older[a]
       /\ \A b \in older[a] : older[b] \subseteq older[a] /\ batchAction[b].status # "none"
  /\ \A a, b \in Actions :
       a = b \/ a \in older[b] \/ b \in older[a] \/ "none" \in {batchAction[a].status, batchAction[b].status}

BatchTypeOK ==
  LET Rows == [request : 0..MaxRequests, pages : Pages, page : Pages,
               status : {"none", "Queued", "Processing", "Completed", "Failed"},
               processed : Pages, failures : 0..MaxFailures]
  IN  /\ LockTypeOK
      /\ batchAction \in [Actions -> Rows]
      /\ older \in [Actions -> SUBSET Actions]
      /\ OldestFirst
      /\ gonePages \in [Actions -> SUBSET (Pages \ {0})]
      /\ job \in [Workers ->
           [phase : {"idle", "picking", "reading", "deleting", "extending", "selecting",
                     "committing", "writing", "failing", "releasing"},
            action : Actions, state : Rows, then : {"reading", "deleting", "releasing", "recorded"},
            batches : 0..MaxBatches, held : BOOLEAN]]
      /\ overtaken \in [Actions -> {"no", "wrote", "crossed"}]
      /\ batchFaults \in 0..MaxBatchFaults

(* Whoever stops, dies, fails or is overtaken, and where: the pages before *)
(* the stored one are deleted and counted once each, and an action that is *)
(* completed has deleted all the pages its request matched.  Only a run    *)
(* that lost the lock between its check and its write can spoil a later    *)
(* request for the same row.                                               *)
NothingSkipped ==
  \A a \in Actions :
    LET row == batchAction[a]
        done == IF row.status = "Completed" THEN row.pages ELSE row.processed
    IN  overtaken[a] # "crossed" =>
        /\ 1..done \subseteq gonePages[a]
        /\ row.status = "Completed" => row.processed = row.pages
        /\ row.status # "Completed" => row.processed = IF row.page = 0 THEN 0 ELSE row.page - 1

(* A finished action is not taken up again, and what it says of itself     *)
(* does not change, until it is requested again; except for such a run.    *)
FinishedStays ==
  [][\A a \in Actions :
       /\ Finished(batchAction[a])
       /\ batchAction'[a] # batchAction[a]
       => batchAction'[a].request > batchAction[a].request \/ overtaken'[a] # "no"]_batchVars

(* Every request is completed or fails: no action is passed over for good  *)
(* for another, or left behind by a worker.  (There are finitely many.)    *)
Finishes ==
  []<>(\A a \in Actions : batchAction[a].status \notin {"Queued", "Processing"})
=============================================================================
