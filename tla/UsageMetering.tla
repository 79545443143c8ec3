---------------------------- MODULE UsageMetering ----------------------------
(***************************************************************************)
(* Reporting the usage of every hour to Stripe.  A row of cron_jobs says   *)
(* which hour is next and whether a job is at it.  Jobs come every hour,   *)
(* at each start of a replica and after errors, and run on any worker: one *)
(* reads the row, claims it if it is still as it was read, reports one     *)
(* meter of one organisation after the other, and moves the row on.  A     *)
(* claim that is 20 minutes old is taken over.                             *)
(* Definitions named Fault... are deliberate errors: no definition uses    *)
(* one, and each shows that a property would notice it.                    *)
(* src/worker/src/ee/cloudUsageMetering/handleCloudUsageMeteringJob.ts,    *)
(* src/worker/src/queues/cloudUsageMeteringQueue.ts,                       *)
(* src/packages/shared/src/server/redis/cloudUsageMeteringQueue.ts         *)
(***************************************************************************)
EXTENDS Integers, FiniteSets, FiniteSetsExt

CONSTANTS
  Meterers,          \* the workers' processors of this queue
  Meters,            \* meters reported per hour: two for each organisation
  StripeAttempts,    \* numOfAttempts
  MaxHours,          \* hours (bounds the model)
  MaxMeteringJobs,   \* jobs that wait (bounds the model)
  MaxMeteringFaults  \* errors, lost answers and deaths (bounds the model)

ASSUME MeteringAssumption ==
  /\ {StripeAttempts, MaxMeteringJobs} \subseteq Nat \ {0}
  /\ {Meters, MaxHours, MaxMeteringFaults} \subseteq Nat

VARIABLES
  cron,              \* the row: state, lastRun, and the claim jobStartedAt stands for
  staleClaim,        \* whether the claim is 20 minutes old
  claims,            \* claims so far
  dueHours,          \* hours that ended more than five minutes ago
  meteringJobs,      \* jobs that wait
  meterer,           \* the job of each worker
  billed,            \* how often each meter of each hour has been reported
  incident,          \* an answer was lost, a job failed, died or was overtaken
  meteringFaults     \* faults so far

meteringVars ==
  <<cron, staleClaim, claims, dueHours, meteringJobs, meterer, billed, incident, meteringFaults>>

NoClaim == 0

NoMetering ==
  [phase |-> "idle", seen |-> [state |-> "queued", startedAt |-> NoClaim, lastRun |-> 0],
   done |-> 0, attempt |-> 0]

MeteringInit ==
  /\ cron = NoMetering.seen
  /\ staleClaim = FALSE
  /\ claims = 0
  /\ dueHours = 0
  /\ meteringJobs = 1
  /\ meterer = [w \in Meterers |-> NoMetering]
  /\ billed = [h \in 0..(MaxHours - 1) |-> [i \in 1..Meters |-> 0]]
  /\ incident = FALSE
  /\ meteringFaults = 0

MeteringFault ==
  /\ meteringFaults < MaxMeteringFaults
  /\ meteringFaults' = meteringFaults + 1

WithJobs(n) == Min({meteringJobs + n, MaxMeteringJobs})

Reported(w) == [billed EXCEPT ![meterer[w].seen.lastRun][meterer[w].done + 1] = Min({@ + 1, 2})]

Ends(w) == meterer' = [meterer EXCEPT ![w] = NoMetering]

-----------------------------------------------------------------------------

(* The repeated job of the next hour, and with it the usage of the last.   *)
HourPasses ==
  /\ dueHours' = Min({dueHours + 1, MaxHours})
  /\ meteringJobs' = WithJobs(1)
  /\ UNCHANGED <<cron, staleClaim, claims, meterer, billed, incident, meteringFaults>>

TwentyMinutesPass ==
  /\ cron.startedAt # NoClaim
  /\ staleClaim' = TRUE
  /\ UNCHANGED <<cron, claims, dueHours, meteringJobs, meterer, billed, incident, meteringFaults>>

(* A replica starts: the bootstrap job. *)
ReplicaStarts ==
  /\ meteringJobs' = WithJobs(1)
  /\ UNCHANGED <<cron, staleClaim, claims, dueHours, meterer, billed, incident, meteringFaults>>

FaultInProgress == cron.state = "processing"

InProgress == cron.state = "processing" /\ ~staleClaim

(* A job reads the row; it is over if no hour is due or another is at it.  *)
StartMetering(w) ==
  /\ meterer[w].phase = "idle"
  /\ meteringJobs > 0
  /\ meteringJobs' = meteringJobs - 1
  /\ meterer' = IF cron.lastRun < dueHours /\ ~InProgress
                THEN [meterer EXCEPT ![w] = [NoMetering EXCEPT !.phase = "claiming", !.seen = cron]]
                ELSE meterer
  /\ UNCHANGED <<cron, staleClaim, claims, dueHours, billed, incident, meteringFaults>>

FaultClaimable(seen) == TRUE

(* The update's where: what was read of state and jobStartedAt, not of     *)
(* lastRun.                                                                *)
Claimable(seen) == cron.state = seen.state /\ cron.startedAt = seen.startedAt

(* A claim whose hour another job has meanwhile reported goes through if   *)
(* that job has left the row queued again.                                 *)
Claims(seen) ==
  /\ Claimable(seen)
  /\ claims' = claims + 1
  /\ cron' = [cron EXCEPT !.state = "processing", !.startedAt = claims']
  /\ staleClaim' = FALSE
  /\ incident' = (incident \/ seen.state = "processing" \/ seen.lastRun # cron.lastRun)

ClaimHour(w) ==
  LET seen == meterer[w].seen
  IN  /\ meterer[w].phase = "claiming"
      /\ \/ /\ Claims(seen)
            /\ meterer' = [meterer EXCEPT ![w].phase = "reporting"]
         \/ /\ ~Claimable(seen)
            /\ Ends(w)
            /\ UNCHANGED <<cron, staleClaim, claims, incident>>
      /\ UNCHANGED <<dueHours, meteringJobs, billed, meteringFaults>>

(* Whatever goes wrong is taken for a lost race: the job ends, though its  *)
(* claim may have been made.                                               *)
ClaimErrs(w) ==
  /\ meterer[w].phase = "claiming"
  /\ MeteringFault
  /\ Claims(meterer[w].seen) \/ UNCHANGED <<cron, staleClaim, claims, incident>>
  /\ Ends(w)
  /\ UNCHANGED <<dueHours, meteringJobs, billed>>

(* An organisation without usage has nothing to report; it counts as done. *)
Report(w) ==
  /\ meterer[w].phase = "reporting"
  /\ meterer[w].done < Meters
  /\ billed' = Reported(w)
  /\ meterer' = [meterer EXCEPT ![w].done = @ + 1, ![w].attempt = 0]
  /\ UNCHANGED <<cron, staleClaim, claims, dueHours, meteringJobs, incident, meteringFaults>>

(* backOff: Stripe fails, or its answer is lost; the call is repeated and  *)
(* in the end thrown.                                                      *)
StripeErrs(w) ==
  /\ meterer[w].phase = "reporting"
  /\ meterer[w].done < Meters
  /\ MeteringFault
  /\ \/ UNCHANGED <<billed, incident>>
     \/ billed' = Reported(w) /\ incident' = TRUE
  /\ meterer' = IF meterer[w].attempt + 1 < StripeAttempts
                THEN [meterer EXCEPT ![w].attempt = @ + 1]
                ELSE [meterer EXCEPT ![w].phase = "failing"]
  /\ UNCHANGED <<cron, staleClaim, claims, dueHours, meteringJobs>>

FaultIntervalEnd(w) == cron.lastRun + 1

IntervalEnd(w) == meterer[w].seen.lastRun + 1

(* Whatever the row says by now. *)
FinishHour(w) ==
  /\ meterer[w].phase = "reporting"
  /\ meterer[w].done = Meters
  /\ cron' = [state |-> "queued", startedAt |-> NoClaim, lastRun |-> IntervalEnd(w)]
  /\ staleClaim' = FALSE
  /\ meteringJobs' = IF IntervalEnd(w) < dueHours THEN WithJobs(1) ELSE meteringJobs
  /\ Ends(w)
  /\ UNCHANGED <<claims, dueHours, billed, incident, meteringFaults>>

(* A query throws: the first one, or one after the claim. *)
MeteringThrows(w) ==
  /\ MeteringFault
  /\ \/ /\ meterer[w].phase = "idle"
        /\ meteringJobs > 0
        /\ meteringJobs' = meteringJobs - 1
     \/ /\ meterer[w].phase = "reporting"
        /\ UNCHANGED meteringJobs
  /\ meterer' = [meterer EXCEPT ![w].phase = "failing"]
  /\ UNCHANGED <<cron, staleClaim, claims, dueHours, billed, incident>>

(* The processor's catch: whoever's claim it is, it is given up; the job   *)
(* is added anew, and is retried, too.                                     *)
ResetAfterError(w) ==
  /\ meterer[w].phase = "failing"
  /\ cron' = [cron EXCEPT !.state = "queued", !.startedAt = NoClaim]
  /\ staleClaim' = FALSE
  /\ meteringJobs' = WithJobs(2)
  /\ incident' = TRUE
  /\ Ends(w)
  /\ UNCHANGED <<claims, dueHours, billed, meteringFaults>>

(* The worker dies; the queue runs the stalled job again. *)
MetererDies(w) ==
  /\ meterer[w].phase # "idle"
  /\ MeteringFault
  /\ meteringJobs' = WithJobs(1)
  /\ incident' = TRUE
  /\ Ends(w)
  /\ UNCHANGED <<cron, staleClaim, claims, dueHours, billed>>

MetererSteps(w) ==
  StartMetering(w) \/ ClaimHour(w) \/ Report(w) \/ FinishHour(w) \/ ResetAfterError(w)

MeteringNext ==
  \/ HourPasses \/ TwentyMinutesPass \/ ReplicaStarts
  \/ \E w \in Meterers : MetererSteps(w) \/ ClaimErrs(w) \/ StripeErrs(w) \/ MeteringThrows(w) \/ MetererDies(w)

MeteringSpec == MeteringInit /\ [][MeteringNext]_meteringVars

-----------------------------------------------------------------------------

MeteringTypeOK ==
  LET Rows == [state : {"queued", "processing"}, startedAt : 0..claims, lastRun : 0..MaxHours]
  IN  /\ cron \in Rows
      /\ staleClaim \in BOOLEAN /\ incident \in BOOLEAN
      /\ claims \in Nat
      /\ dueHours \in 0..MaxHours
      /\ meteringJobs \in 0..MaxMeteringJobs
      /\ meterer \in [Meterers -> [phase : {"idle", "claiming", "reporting", "failing"}, seen : Rows,
                                   done : 0..Meters, attempt : 0..(StripeAttempts - 1)]]
      /\ billed \in [0..(MaxHours - 1) -> [1..Meters -> 0..2]]
      /\ meteringFaults \in 0..MaxMeteringFaults

(* The row never moves past an hour of which some meter is not reported,   *)
(* although jobs that were overtaken, or reset by another's error, go on   *)
(* and move the row when they are done.                                    *)
NoHourUnbilled ==
  \A h \in 0..(cron.lastRun - 1) : \A i \in 1..Meters : billed[h][i] > 0

(* However many jobs there are, as long as none fails, dies, is overtaken  *)
(* or claims an hour after another has reported it, nothing is reported    *)
(* twice.  The last of these is nobody's fault: see below.                 *)
BilledOnce ==
  ~incident => \A h \in DOMAIN billed : \A i \in 1..Meters : billed[h][i] <= 1

(* The comment on the bootstrap job (cloudUsageMeteringQueue.ts:67) says   *)
(* that the handler is idempotent and duplicate jobs "no-op harmlessly":   *)
(* where nothing fails and no claim grows old, no more is needed for this. *)
DuplicatesAreHarmless == \A h \in DOMAIN billed : \A i \in 1..Meters : billed[h][i] <= 1

(* Every hour is reported in the end: neither a claim whose worker is gone *)
(* nor an error keeps the row for ever.                                    *)
MeteringProceeds ==
  []<>(cron.lastRun >= dueHours)
=============================================================================
