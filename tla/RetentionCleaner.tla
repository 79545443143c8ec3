--------------------------- MODULE RetentionCleaner ---------------------------
(***************************************************************************)
(* The batch cleaner that deletes what projects no longer retain from one  *)
(* ClickHouse table.  Every worker runs it periodically; a run holds the   *)
(* table's lock, whose time to live covers the longest bounded operation:  *)
(* it looks for candidates chunk by chunk, a few queries at a time, each   *)
(* of which renews the lock as it advances, and ends with one DELETE,      *)
(* before which it renews the lock in any case.  Callers who want a        *)
(* renewal while one is on its way share it.  Time is counted in ticks;    *)
(* a renewal is answered within Latency of them.                           *)
(* Definitions named Fault... are deliberate errors: no definition uses    *)
(* one, and each shows that a property would notice it.                    *)
(* src/worker/src/features/batch-data-retention-cleaner/index.ts,          *)
(* src/worker/src/utils/PeriodicExclusiveRunner.ts                         *)
(***************************************************************************)
EXTENDS RedisLock, Integers, FiniteSets, FiniteSetsExt

CONSTANTS
  RetentionKey,      \* the table's lock key
  Chunks,            \* chunks of projects with a retention setting
  QueryConcurrency,  \* chunks processed at a time
  QueryTime,         \* candidate query timeout
  DeleteTime,        \* DELETE timeout of the client
  Grace,             \* what ClickHouse gives the DELETE on top
  Buffer,            \* what the lock's time to live has on top
  Latency,           \* from a renewal's request to its answer, at most
  MaxRetentionFaults \* deaths, stalled queries and Redis errors (bounds the model)

ASSUME RetentionAssumption ==
  /\ RetentionKey \in Keys
  /\ IsFiniteSet(Chunks)
  /\ {QueryConcurrency, QueryTime, DeleteTime, Grace, Buffer, Latency} \subseteq Nat \ {0}
  /\ MaxRetentionFaults \in Nat
  /\ Latency + Grace < Buffer
  /\ TTL[RetentionKey] = Max({DeleteTime, QueryTime}) + Buffer

VARIABLES
  sweep,             \* the run of each worker
  strayDelete,       \* ticks left to a DELETE whose worker died
  brokenOff,         \* ticks left to a DELETE whose request failed in the client
  retentionFaults    \* faults so far

retentionVars == <<lock, sweep, strayDelete, brokenOff, retentionFaults>>

FaultMinInterval == TTL[RetentionKey]

(* lockExtensionMinIntervalMs *)
MinInterval == TTL[RetentionKey] \div 3

NoRenewal == [state |-> "none", age |-> 0]

Idle ==
  [phase |-> "idle", since |-> 0, renewal |-> NoRenewal, leaseLost |-> FALSE, left |-> 0,
   chunk |-> [c \in Chunks |-> [stage |-> "done", left |-> 0, found |-> FALSE, waits |-> FALSE]]]

(* A run that finds projects with a setting, in chunks.  withLock sets     *)
(* lastLockExtensionAt to 0: the first progress renews.                    *)
Fresh(chunks) ==
  [Idle EXCEPT !.phase = "searching", !.since = MinInterval,
               !.chunk = [c \in Chunks |->
                            IF c \in chunks THEN [@[c] EXCEPT !.stage = "queued"] ELSE @[c]]]

(* One chunk once something has failed (bounds the model). *)
ChunksThereMayBe ==
  IF retentionFaults = 0 THEN {{}, Chunks} ELSE {{CHOOSE c \in Chunks : TRUE}}

Releasing == [Idle EXCEPT !.phase = "releasing"]

RetentionInit ==
  /\ LockInit
  /\ sweep = [w \in Workers |-> Idle]
  /\ strayDelete = [w \in Workers |-> 0]
  /\ brokenOff = [w \in Workers |-> 0]
  /\ retentionFaults = 0

Queries == {"candidates", "enriching", "retrying"}

Fails ==
  /\ retentionFaults < MaxRetentionFaults
  /\ retentionFaults' = retentionFaults + 1

(* Where a chunk goes on after extendLockOnProgress. *)
Continued(chunk, lost) ==
  CASE chunk.stage = "discovered" /\ ~lost /\ chunk.found ->
         [chunk EXCEPT !.stage = "enriching", !.left = QueryTime]
    [] chunk.stage = "failed" -> [chunk EXCEPT !.stage = "retrying", !.left = QueryTime]
    [] chunk.stage \in Queries -> chunk
    [] OTHER -> [chunk EXCEPT !.stage = "done", !.left = 0]

(* Chunk c of run r calls extendLockOnProgress(force). *)
Progressed(r, c, stage, found, force) ==
  LET chunk == [r.chunk[c] EXCEPT !.stage = stage, !.found = found]
  IN  IF ~force /\ r.since < MinInterval
      THEN [r EXCEPT !.chunk[c] = Continued(chunk, r.leaseLost)]
      ELSE [r EXCEPT !.chunk[c] = [chunk EXCEPT !.waits = TRUE],
                     !.renewal = IF @.state = "none" THEN [@ EXCEPT !.state = "sent"] ELSE @]

Becomes(w, r) == sweep' = [sweep EXCEPT ![w] = r]

MayStart(r, c) ==
  /\ r.chunk[c].stage = "queued"
  /\ Cardinality({d \in Chunks : r.chunk[d].stage \notin {"queued", "done"}}) < QueryConcurrency

(* A step of chunk c of w's run, which is at a stage and waits for nothing. *)
At(w, c, stage) ==
  /\ sweep[w].phase = "searching"
  /\ sweep[w].chunk[c].stage = stage
  /\ ~sweep[w].chunk[c].waits
  /\ UNCHANGED <<lock, strayDelete, brokenOff, retentionFaults>>

-----------------------------------------------------------------------------

Begin(w) ==
  /\ sweep[w].phase = "idle"
  /\ IsFree(RetentionKey)
  /\ lock' = Acquired(w, RetentionKey)
  /\ \E chunks \in ChunksThereMayBe : Becomes(w, Fresh(chunks))
  /\ UNCHANGED <<strayDelete, brokenOff, retentionFaults>>

(* The answer to SET is an error, whether it was executed or not: in mode  *)
(* "fail" the run ends here.                                               *)
BeginErrs(w) ==
  /\ Fails
  /\ sweep[w].phase = "idle"
  /\ lock' \in {lock} \cup (IF IsFree(RetentionKey) THEN {Acquired(w, RetentionKey)} ELSE {})
  /\ UNCHANGED <<sweep, strayDelete, brokenOff>>

(* pLimit; after a chunk has lost the lease the others end at once. *)
StartQuery(w, c) ==
  /\ At(w, c, "queued")
  /\ MayStart(sweep[w], c)
  /\ Becomes(w, [sweep[w] EXCEPT !.chunk[c] =
                   IF sweep[w].leaseLost
                   THEN [@ EXCEPT !.stage = "done"]
                   ELSE [@ EXCEPT !.stage = "candidates", !.left = QueryTime]])

RowArrives(w, c) ==
  /\ At(w, c, "candidates")
  /\ Becomes(w, Progressed(sweep[w], c, "candidates", TRUE, FALSE))

(* The stream ends or breaks off; the rows it has yielded count. *)
CandidatesEnd(w, c) ==
  /\ At(w, c, "candidates")
  /\ Becomes(w, Progressed(sweep[w], c, "discovered", sweep[w].chunk[c].found, FALSE))

(* Candidates without expired rows drop out; a retry that fails keeps all. *)
EnrichmentEnds(w, c) ==
  /\ At(w, c, "enriching") \/ At(w, c, "retrying")
  /\ \E found \in BOOLEAN : Becomes(w, Progressed(sweep[w], c, "enriched", found, FALSE))

EnrichmentFails(w, c) ==
  /\ At(w, c, "enriching")
  /\ Becomes(w, Progressed(sweep[w], c, "failed", TRUE, TRUE))

(* The queries, or the process, stall until the lock has lapsed. *)
Stalls(w) ==
  /\ Fails
  /\ sweep[w].phase = "searching"
  /\ sweep[w].renewal = NoRenewal
  /\ Owns(w, RetentionKey)
  /\ lock' = [lock EXCEPT ![RetentionKey] = Unlocked]
  /\ Becomes(w, [sweep[w] EXCEPT !.since = MinInterval,
                                 !.chunk = [c \in Chunks |-> [@[c] EXCEPT !.left = 0]]])
  /\ UNCHANGED <<strayDelete, brokenOff>>

-----------------------------------------------------------------------------

RedisEvaluates(w) ==
  /\ sweep[w].renewal.state = "sent"
  /\ lock' = Extended(w, RetentionKey)
  /\ Becomes(w, [sweep[w] EXCEPT !.renewal.state =
                   IF Owns(w, RetentionKey) THEN "renewed" ELSE "refused"])
  /\ UNCHANGED <<strayDelete, brokenOff, retentionFaults>>

(* extend() answers false to an error, whether the script ran or not. *)
RenewalErrs(w) ==
  /\ Fails
  /\ sweep[w].renewal.state = "sent"
  /\ lock' \in {lock, Extended(w, RetentionKey)}
  /\ Becomes(w, [sweep[w] EXCEPT !.renewal.state = "refused"])
  /\ UNCHANGED <<strayDelete, brokenOff>>

(* Everybody who waits goes on, or throws LeaseLost. *)
RenewalAnswered(w) ==
  LET r == sweep[w]
      Answered(lost) ==
        [r EXCEPT !.renewal = NoRenewal, !.leaseLost = @ \/ lost,
                  !.chunk = [c \in Chunks |->
                    CASE ~@[c].waits -> @[c]
                      [] @[c].waits /\ lost -> Idle.chunk[c]
                      [] OTHER -> [Continued(@[c], r.leaseLost) EXCEPT !.waits = FALSE]]]
  IN  /\ \/ /\ r.renewal.state = "renewed"
            /\ Becomes(w, IF r.phase = "renewing"
                          THEN [Idle EXCEPT !.phase = "deleting", !.left = DeleteTime]
                          ELSE [Answered(FALSE) EXCEPT !.since = 0])
         \/ /\ r.renewal.state = "refused"
            /\ Becomes(w, IF r.phase = "renewing" THEN Releasing ELSE Answered(TRUE))
      /\ UNCHANGED <<lock, strayDelete, brokenOff, retentionFaults>>

(* allSettled: the lease is lost, or there is nothing to delete, or the    *)
(* DELETE comes next, after a renewal.                                     *)
SearchEnds(w) ==
  /\ sweep[w].phase = "searching"
  /\ \A c \in Chunks : sweep[w].chunk[c].stage = "done"
  /\ Becomes(w, IF sweep[w].leaseLost \/ \A c \in Chunks : ~sweep[w].chunk[c].found
                THEN Releasing
                ELSE [Idle EXCEPT !.phase = "renewing", !.renewal.state = "sent"])
  /\ UNCHANGED <<lock, strayDelete, brokenOff, retentionFaults>>

(* ClickHouse answers that the DELETE is done or has failed. *)
DeleteEnds(w) ==
  /\ sweep[w].phase = "deleting"
  /\ Becomes(w, Releasing)
  /\ UNCHANGED <<lock, strayDelete, brokenOff, retentionFaults>>

(* max_execution_time: ClickHouse gives up a grace later than the client. *)
Remaining(w) == IF sweep[w].phase = "deleting" THEN sweep[w].left + Grace ELSE 0

(* The socket is reset or the request times out: the rejection ends the    *)
(* run, which releases the lock, and ClickHouse goes on.                   *)
DeleteBreaksOff(w) ==
  /\ Fails
  /\ sweep[w].phase = "deleting"
  /\ Becomes(w, Releasing)
  /\ brokenOff' = [brokenOff EXCEPT ![w] = Max({@, Remaining(w)})]
  /\ UNCHANGED <<lock, strayDelete>>

Release(w) ==
  /\ sweep[w].phase = "releasing"
  /\ lock' = Released(w, RetentionKey)
  /\ Becomes(w, Idle)
  /\ UNCHANGED <<strayDelete, brokenOff, retentionFaults>>

ReleaseErrs(w) ==
  /\ Fails
  /\ sweep[w].phase = "releasing"
  /\ lock' \in {lock, Released(w, RetentionKey)}
  /\ Becomes(w, Idle)
  /\ UNCHANGED <<strayDelete, brokenOff>>

(* The worker's process ends and another starts; ClickHouse goes on with   *)
(* the DELETE it has been sent.                                            *)
Dies(w) ==
  /\ Fails
  /\ sweep[w].phase # "idle"
  /\ lock' = Orphaned(w, RetentionKey)
  /\ strayDelete' = [strayDelete EXCEPT ![w] = Max({@, Remaining(w)})]
  /\ Becomes(w, Idle)
  /\ UNCHANGED brokenOff

(* Time passes when nothing is due at once. *)
Tick ==
  LET Later(n) == IF n = 0 THEN 0 ELSE n - 1
  IN  /\ \A w \in Workers :
           /\ sweep[w].phase # "releasing"
           /\ sweep[w].phase = "deleting" => sweep[w].left > 0
           /\ sweep[w].renewal.age < Latency
           /\ \A c \in Chunks :
                sweep[w].chunk[c].stage \in Queries /\ ~sweep[w].chunk[c].waits
                  => sweep[w].chunk[c].left > 0
           /\ sweep[w].phase = "searching" => \E c \in Chunks : sweep[w].chunk[c].stage # "done"
           /\ \A c \in Chunks : ~MayStart(sweep[w], c)
      /\ lock' = Elapsed(RetentionKey)
      /\ strayDelete' = [w \in Workers |-> Later(strayDelete[w])]
      /\ brokenOff' = [w \in Workers |-> Later(brokenOff[w])]
      /\ sweep' = [w \in Workers |->
           [sweep[w] EXCEPT
              !.left = Later(@),
              !.since = IF @ < MinInterval THEN @ + 1 ELSE @,
              !.renewal.age = IF sweep[w].renewal.state = "none" THEN 0 ELSE @ + 1,
              !.chunk = [c \in Chunks |-> [@[c] EXCEPT !.left = Later(sweep[w].chunk[c].left)]]]]
      /\ UNCHANGED retentionFaults

ChunkSteps(w, c) ==
  \/ StartQuery(w, c) \/ RowArrives(w, c) \/ CandidatesEnd(w, c)
  \/ EnrichmentEnds(w, c) \/ EnrichmentFails(w, c)

RunSteps(w) ==
  \/ \E c \in Chunks : ChunkSteps(w, c)
  \/ RedisEvaluates(w) \/ RenewalAnswered(w) \/ SearchEnds(w) \/ DeleteEnds(w) \/ Release(w)

RetentionFaultSteps(w) ==
  \/ BeginErrs(w) \/ RenewalErrs(w) \/ ReleaseErrs(w)
  \/ DeleteBreaksOff(w) \/ Dies(w) \/ Stalls(w)

RetentionNext ==
  \/ \E w \in Workers : Begin(w) \/ RunSteps(w) \/ RetentionFaultSteps(w)
  \/ Tick

RetentionSpec == RetentionInit /\ [][RetentionNext]_retentionVars

-----------------------------------------------------------------------------

RetentionTypeOK ==
  /\ LockTypeOK
  /\ sweep \in [Workers ->
       [phase : {"idle", "searching", "renewing", "deleting", "releasing"},
        since : 0..MinInterval,
        renewal : [state : {"none", "sent", "renewed", "refused"}, age : 0..Latency],
        leaseLost : BOOLEAN,
        left : 0..DeleteTime,
        chunk : [Chunks -> [stage : {"queued", "discovered", "failed", "enriched", "done"} \cup Queries,
                            left : 0..QueryTime, found : BOOLEAN, waits : BOOLEAN]]]]
  /\ {strayDelete, brokenOff} \subseteq [Workers -> 0..(DeleteTime + Grace)]
  /\ retentionFaults \in 0..MaxRetentionFaults

(* No two DELETEs of the table run at once, that of a worker that has died *)
(* in the middle of it included, however long the queries before it have   *)
(* taken and whatever Redis has answered.  Not counted is a DELETE whose   *)
(* request broke off in the client: the lock does not wait for it, and it  *)
(* neither shortens nor lengthens what the lock does for the others.       *)
DeletesExclude ==
  Cardinality({w \in Workers : sweep[w].phase = "deleting"}) +
    Cardinality({w \in Workers : strayDelete[w] > 0}) <= 1

InClickhouse(w) == sweep[w].phase = "deleting" \/ strayDelete[w] > 0 \/ brokenOff[w] > 0

(* The comment of the class (index.ts:142) promises it of all DELETEs:     *)
(* "only one worker deletes from a given table at a time".                 *)
OneWorkerDeletes == \A v, w \in Workers : InClickhouse(v) /\ InClickhouse(w) => v = w

(* As long as every operation keeps to its timeout and Redis answers,      *)
(* renewing only every third of the time to live is enough: no worker      *)
(* loses the lock in the middle of a run.                                  *)
LeaseKept ==
  retentionFaults = 0 =>
    \A w \in Workers :
      sweep[w].phase \in {"searching", "renewing", "deleting"} => Owns(w, RetentionKey)

(* What that takes, at the throttled renewals' worst: the answer to one,   *)
(* almost the whole interval until a query begins without another, that    *)
(* query, and the next renewal's way.  The defaults leave plenty of room;  *)
(* nothing in the code enforces it.                                        *)
ShortQueries == Latency + (MinInterval - 1) + QueryTime + Latency < TTL[RetentionKey]

(* The lock of a worker that died is not held for ever: the table is       *)
(* swept again.                                                            *)
LostLockFreed ==
  lock[RetentionKey].owner = Gone ~> \E w \in Workers : sweep[w].phase = "searching"
=============================================================================
