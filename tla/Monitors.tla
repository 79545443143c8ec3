------------------------------ MODULE Monitors ------------------------------
(***************************************************************************)
(* Monitors: the monitors table, the scheduler that claims the due rows    *)
(* and publishes one event per query shape, the processors that claim the  *)
(* rows of an event, alert and write the outcome back, and the users who   *)
(* create, edit, pause, resume and delete monitors meanwhile.  Nothing but *)
(* the table coordinates them: every guard is a comparison of timestamps.  *)
(* Definitions named Fault... are deliberate errors: no definition uses    *)
(* one, and each shows that a property would notice it.                    *)
(* src/packages/shared/src/features/monitors                               *)
(***************************************************************************)
EXTENDS Naturals, FiniteSets, TLC

CONSTANTS
  MonitorIds,    \* monitors that may be created
  Shapes,        \* query shapes: view, filters and window
  Schedulers,    \* processes that run the scheduler of this shard
  Processors,    \* slots that process the jobs of the monitor queue
  Users,         \* concurrent updates; one means that updates do not overlap
  NoDataModes,   \* noData.mode of each monitor
  Renotify,      \* renotify.intervalMinutes of each monitor, 0 for OFF
  NoDataDelay,   \* noData.intervalMinutes
  Values,        \* what a query may return for a monitor
  TTL,           \* monitorProcessorTtl
  Cadence,       \* cadenceMs
  MaxClock,      \* the last moment of time (bounds the model)
  MaxLate,       \* moments at which no scheduler runs (bounds the model)
  MaxFailures,   \* jobs and publications that fail (bounds the model)
  MaxUpdates     \* updates and deletions (bounds the model)

(* A value is the severity it compares to under the thresholds, null when  *)
(* there is none, or the sentinel of a query that is rejected or fails.    *)
(* SUBSTITUTE_ZERO never sees a null and is left out.                      *)
Compared == {"OK", "WARNING", "ALERT"}
Breaching == {"WARNING", "ALERT"}
Severities == Compared \cup {"PAUSED", "UNKNOWN", "NO_DATA"}
Statuses == {"ABSENT", "ACTIVE", "PAUSED", "ERROR_BAD_QUERY", "DELETED"}

ASSUME MonitorsAssumption ==
  /\ Shapes # {}
  /\ NoDataModes \in [MonitorIds -> {"LAST_SEVERITY", "SHOW_NO_DATA", "NOTIFY_NO_DATA"}]
  /\ Renotify \in [MonitorIds -> Nat]
  /\ Values \subseteq Compared \cup {"null", "ErrorBadQuery"}
  /\ TTL \in Nat \ {0}
  /\ Cadence \in Nat \ {0}
  /\ MaxClock \in Nat \ {0}
  /\ {NoDataDelay, MaxLate, MaxFailures, MaxUpdates} \subseteq Nat

VARIABLES
  clock,         \* the moment all processes read as new Date()
  row,           \* the monitors table
  scheduler,     \* each scheduler: its tick, and the events it has yet to queue
  scheduledAt,   \* the latest tick that a scheduler has run
  overtaken,     \* history: monitors that a tick planned after a later one had run
  queue,         \* events in the monitor queue
  processor,     \* each slot: its job and the outcome it has yet to write
  user,          \* each update: what it has read and what it will write
  alerts,        \* history: alerts on the webhook queue
  resets,        \* history: how often the timestamps of a row were cleared
  late,          \* history: moments without a scheduler
  failures,      \* history: failed jobs and publications
  updates        \* history: updates and deletions

counters == <<late, failures, updates>>
vars == <<clock, row, scheduler, scheduledAt, overtaken, queue, processor, user, alerts, resets, counters>>

(* Every timestamp is later than null. *)
Null == 0
Time == Null..MaxClock

NoRow ==
  [shape |-> CHOOSE s \in Shapes : TRUE, batch |-> CHOOSE s \in Shapes : TRUE,
   status |-> "ABSENT", severity |-> "UNKNOWN", severityChangedAt |-> Null,
   nextRunAt |-> Null, lastPublishedAt |-> Null, lastClaimedAt |-> Null,
   lastCompletedAt |-> Null, alertedAt |-> Null]

Deleted == [NoRow EXCEPT !.status = "DELETED"]

Waiting == [tick |-> Null, todo |-> {}]
Free == [at |-> "free"]

(* Idle processes at a moment, with these rows and so many updates spent. *)
Idle(now, rows, spent) ==
  /\ clock = now
  /\ row = rows
  /\ scheduler = [s \in Schedulers |-> Waiting]
  /\ scheduledAt = Null
  /\ overtaken = {}
  /\ queue = {}
  /\ processor = [p \in Processors |-> Free]
  /\ user = [u \in Users |-> Free]
  /\ alerts = {}
  /\ resets = [m \in MonitorIds |-> 0]
  /\ late = 0
  /\ failures = 0
  /\ updates = spent

Init == Idle(1, [m \in MonitorIds |-> NoRow], 0)

(***************************************************************************)
(* MonitorScheduler.schedule                                               *)
(***************************************************************************)
Uncompleted(r) == r.lastPublishedAt # Null /\ r.lastCompletedAt < r.lastPublishedAt

FaultPending(r, tick) == FALSE

Pending(r, tick) == Uncompleted(r) /\ tick <= r.lastPublishedAt + TTL

Expired(r, tick) == Uncompleted(r) /\ tick > r.lastPublishedAt + TTL

FaultDue(tick) == {m \in MonitorIds : row[m].status = "ACTIVE" /\ row[m].nextRunAt <= tick}

Due(tick) ==
  {m \in MonitorIds :
     /\ row[m].status = "ACTIVE"
     /\ row[m].nextRunAt <= tick \/ Expired(row[m], tick)}

NextRunAt(tick) == (tick \div Cadence) * Cadence + Cadence

(* The new Date() of a tick is taken before its statement runs.  Of the    *)
(* ticks that several schedulers take in one moment, the model keeps the   *)
(* first.                                                                  *)
WakeUp(s) ==
  /\ scheduler[s] = Waiting
  /\ scheduledAt # clock /\ \A t \in Schedulers : scheduler[t].tick # clock
  /\ scheduler' = [scheduler EXCEPT ![s].tick = clock]
  /\ UNCHANGED <<scheduledAt, overtaken, clock, row, queue, processor, user, alerts, resets, counters>>

(* There is one event per scheduler batch, with the view, filters and      *)
(* window of one of its rows; the database says which.                     *)
Representatives(published) ==
  {choice \in [UNION {{row[m].batch} : m \in published} -> MonitorIds] :
     \A b \in DOMAIN choice : choice[b] \in published /\ row[choice[b]].batch = b}

Schedule(s) ==
  /\ scheduler[s].tick # Null /\ scheduler[s].todo = {}
  /\ LET tick == scheduler[s].tick
         due == Due(tick)
         published == {m \in due : ~Pending(row[m], tick)}
     IN /\ row' = [m \in MonitorIds |->
                     IF m \notin due THEN row[m]
                     ELSE [row[m] EXCEPT !.nextRunAt = NextRunAt(tick),
                                         !.lastPublishedAt = IF m \in published THEN tick ELSE @]]
        /\ \E first \in Representatives(published) :
             LET events == {[shape |-> row[first[b]].shape,
                             monitors |-> {m \in published : row[m].batch = b},
                             publishedAt |-> tick] : b \in DOMAIN first}
             IN scheduler' = [scheduler EXCEPT ![s] =
                                IF events = {} THEN Waiting ELSE [@ EXCEPT !.todo = events]]
  /\ scheduledAt' = IF scheduledAt < scheduler[s].tick THEN scheduler[s].tick ELSE scheduledAt
  /\ overtaken' = IF scheduledAt < scheduler[s].tick THEN overtaken
                  ELSE overtaken \cup Due(scheduler[s].tick)
  /\ UNCHANGED <<clock, queue, processor, user, alerts, resets, counters>>

Published(s, e) ==
  LET left == scheduler[s].todo \ {e}
  IN scheduler' = [scheduler EXCEPT ![s] = IF left = {} THEN Waiting ELSE [@ EXCEPT !.todo = left]]

PublishEvent(s, e) ==
  /\ e \in scheduler[s].todo
  /\ Published(s, e)
  /\ queue' = queue \cup {e}
  /\ UNCHANGED <<scheduledAt, overtaken, clock, row, processor, user, alerts, resets, counters>>

(* The add fails, or the process dies before it; nobody repeats it. *)
PublishEventFails(s, e) ==
  /\ failures < MaxFailures
  /\ e \in scheduler[s].todo
  /\ Published(s, e)
  /\ failures' = failures + 1
  /\ UNCHANGED <<scheduledAt, overtaken, clock, row, queue, processor, user, alerts, resets, late, updates>>

(***************************************************************************)
(* MonitorProcessor.process                                                *)
(***************************************************************************)
(* A job starts once: attempts is 1 and maxStalledCount 0. *)
StartJob(p) ==
  /\ processor[p] = Free
  /\ \E e \in queue :
       /\ queue' = queue \ {e}
       /\ processor' = [processor EXCEPT ![p] = [at |-> "started", event |-> e, now |-> clock]]
  /\ UNCHANGED <<clock, row, scheduler, scheduledAt, overtaken, user, alerts, resets, counters>>

FaultClaims(e) == {m \in e.monitors : row[m].status = "ACTIVE" /\ row[m].lastPublishedAt # Null}

Claims(e) ==
  {m \in e.monitors :
     /\ row[m].status = "ACTIVE"
     /\ row[m].lastPublishedAt # Null
     /\ row[m].lastPublishedAt <= e.publishedAt
     /\ row[m].lastClaimedAt <= e.publishedAt
     /\ row[m].lastCompletedAt < e.publishedAt}

ComputeSeverity(m, prev, value) ==
  IF value # "null" THEN value
  ELSE IF NoDataModes[m] = "LAST_SEVERITY" THEN prev
  ELSE "NO_DATA"

PassedDelay(since, delay, now) == since = Null \/ now - since >= delay

Renotifies(m, since, now) == Renotify[m] # 0 /\ PassedDelay(since, Renotify[m], now)

(* An alert of an earlier stretch does not count for this one. *)
StretchAlertedAt(prev) ==
  IF prev.severityChangedAt # Null /\ prev.alertedAt < prev.severityChangedAt
  THEN Null
  ELSE prev.alertedAt

FaultShouldEmit(m, prev, next, now) ==
  prev.severity \in Compared /\ next \in Compared /\ next # prev.severity

ShouldEmit(m, prev, next, now) ==
  LET notifies == NoDataModes[m] = "NOTIFY_NO_DATA"
      from == prev.severity
  IN \/ from = "UNKNOWN" /\ next \in Breaching
     \/ from = "NO_DATA" /\ next = "OK" /\ notifies
     \/ from = "NO_DATA" /\ next \in Breaching
     \/ /\ from \in Compared /\ next = "NO_DATA" /\ notifies
        /\ PassedDelay(prev.alertedAt, NoDataDelay, now)
     \/ /\ from = "NO_DATA" /\ next = "NO_DATA" /\ notifies
        /\ IF StretchAlertedAt(prev) = Null
           THEN PassedDelay(prev.severityChangedAt, NoDataDelay, now)
           ELSE Renotifies(m, StretchAlertedAt(prev), now)
     \/ /\ from = next /\ next \in Breaching
        /\ prev.alertedAt # Null /\ Renotifies(m, prev.alertedAt, now)
     \/ from \in Compared /\ next \in Compared /\ from # next

(* What the evaluation of a claimed row wants to write, and whether it     *)
(* alerts first.  PAUSED is left as it is.                                 *)
Decide(m, prev, value, now) ==
  LET next == ComputeSeverity(m, prev.severity, value)
      emit == ShouldEmit(m, prev, next, now)
  IN IF value = "ErrorBadQuery"
     THEN [emit |-> FALSE, status |-> "ERROR_BAD_QUERY", severity |-> "PAUSED",
           severityChangedAt |-> now, alertedAt |-> prev.alertedAt]
     ELSE IF prev.severity = "PAUSED"
     THEN [emit |-> FALSE, status |-> prev.status, severity |-> "PAUSED",
           severityChangedAt |-> prev.severityChangedAt, alertedAt |-> prev.alertedAt]
     ELSE [emit |-> emit, status |-> prev.status, severity |-> next,
           severityChangedAt |-> IF next # prev.severity THEN now ELSE prev.severityChangedAt,
           alertedAt |-> IF emit THEN now ELSE prev.alertedAt]

(* The claim returns the rows it won.  Their evaluation reads only these   *)
(* rows and ClickHouse, so it is part of the step.                         *)
Claim(p) ==
  /\ processor[p].at = "started"
  /\ LET e == processor[p].event
         now == processor[p].now
         won == Claims(e)
     IN /\ row' = [m \in MonitorIds |->
                     IF m \in won THEN [row[m] EXCEPT !.lastClaimedAt = now] ELSE row[m]]
        /\ \E values \in [won -> Values] :
             LET outcome == [m \in won |-> Decide(m, row[m], values[m], now)]
             IN processor' = [processor EXCEPT ![p] =
                  IF won = {} THEN Free
                  ELSE [at |-> "claimed", event |-> e, now |-> now,
                        prev |-> [m \in won |-> row[m]],
                        outcome |-> outcome,
                        edition |-> [m \in won |-> resets[m]],
                        todo |-> {m \in won : outcome[m].emit}]]
  /\ UNCHANGED <<clock, scheduler, scheduledAt, overtaken, queue, user, alerts, resets, counters>>

(* One automation consumes the alerts of a monitor; webhooks and Slack     *)
(* messages follow from the webhook queue.                                 *)
Alert(p, m) ==
  LET job == processor[p]
      prev == job.prev[m]
  IN [monitor |-> m, severity |-> job.outcome[m].severity, now |-> job.now,
      publishedAt |-> job.event.publishedAt,
      crossing |-> <<job.edition[m], prev.severity, prev.severityChangedAt, prev.alertedAt>>]

PublishAlert(p, m) ==
  /\ processor[p].at = "claimed" /\ m \in processor[p].todo
  /\ alerts' = alerts \cup {Alert(p, m)}
  /\ processor' = [processor EXCEPT ![p].todo = @ \ {m}]
  /\ UNCHANGED <<clock, row, scheduler, scheduledAt, overtaken, queue, user, resets, counters>>

FaultReadyToComplete(p) == processor[p].at = "claimed"

ReadyToComplete(p) == processor[p].at = "claimed" /\ processor[p].todo = {}

FaultLands(p, m) ==
  /\ m \in DOMAIN processor[p].prev
  /\ row[m].lastClaimedAt = processor[p].now
  /\ row[m].lastPublishedAt = processor[p].event.publishedAt

(* The guards of the bulk update, row by row. *)
Lands(p, m) ==
  /\ m \in DOMAIN processor[p].prev
  /\ row[m].lastClaimedAt = processor[p].now
  /\ row[m].status = "ACTIVE"
  /\ row[m].lastPublishedAt = processor[p].event.publishedAt

Complete(p) ==
  /\ ReadyToComplete(p)
  /\ row' = [m \in MonitorIds |->
               IF ~Lands(p, m) THEN row[m]
               ELSE LET c == processor[p].outcome[m]
                    IN [row[m] EXCEPT !.lastCompletedAt = processor[p].now,
                                      !.status = c.status, !.severity = c.severity,
                                      !.severityChangedAt = c.severityChangedAt,
                                      !.alertedAt = c.alertedAt]]
  /\ processor' = [processor EXCEPT ![p] = Free]
  /\ UNCHANGED <<clock, scheduler, scheduledAt, overtaken, queue, user, alerts, resets, counters>>

(* The job throws, or its worker dies; it is not retried. *)
JobFails(p) ==
  /\ failures < MaxFailures
  /\ processor[p] # Free
  /\ processor' = [processor EXCEPT ![p] = Free]
  /\ failures' = failures + 1
  /\ UNCHANGED <<clock, row, scheduler, scheduledAt, overtaken, queue, user, alerts, resets, late, updates>>

(***************************************************************************)
(* MonitorService                                                          *)
(***************************************************************************)
WriteStatuses == {"ACTIVE", "PAUSED"}

Create(m) ==
  /\ row[m].status = "ABSENT"
  /\ \E status \in WriteStatuses, shape \in Shapes :
       row' = [row EXCEPT ![m] =
                 [@ EXCEPT !.shape = shape, !.batch = shape, !.status = status,
                           !.severity = IF status = "ACTIVE" THEN "UNKNOWN" ELSE "PAUSED"]]
  /\ UNCHANGED <<clock, scheduler, scheduledAt, overtaken, queue, processor, user, alerts, resets, counters>>

Exists(m) == row[m].status \notin {"ABSENT", "DELETED"}

(* update() reads the row, and writes it in a second statement.  An input  *)
(* without a status keeps the one the row has.                             *)
UpdateReads(u) ==
  /\ updates < MaxUpdates
  /\ user[u] = Free
  /\ \E m \in {n \in MonitorIds : Exists(n)}, status \in WriteStatuses \cup {"same"}, shape \in Shapes :
       user' = [user EXCEPT ![u] = [at |-> "read", monitor |-> m, status |-> status, shape |-> shape,
                                    wasStatus |-> row[m].status, wasBatch |-> row[m].batch]]
  /\ updates' = updates + 1
  /\ UNCHANGED <<clock, row, scheduler, scheduledAt, overtaken, queue, processor, alerts, resets, late, failures>>

(* The timestamps of a row are cleared, as if it had never run. *)
NeverRan(r) ==
  [r EXCEPT !.nextRunAt = Null, !.lastPublishedAt = Null, !.lastClaimedAt = Null,
            !.lastCompletedAt = Null]

FaultUpdateStatus(r, current, next) ==
  IF current = "ACTIVE" /\ next = "PAUSED"
  THEN [r EXCEPT !.status = next, !.severity = "PAUSED", !.severityChangedAt = clock]
  ELSE [r EXCEPT !.status = next]

UpdateStatusAndSeverity(r, current, next) ==
  IF next = "same" THEN r
  ELSE IF current = "ACTIVE" /\ next = "PAUSED"
  THEN [r EXCEPT !.status = next, !.severity = "PAUSED", !.severityChangedAt = clock]
  ELSE IF current # "ACTIVE" /\ next = "ACTIVE"
  THEN [NeverRan(r) EXCEPT !.status = next, !.severity = "UNKNOWN", !.severityChangedAt = clock,
                           !.alertedAt = Null]
  ELSE [r EXCEPT !.status = next]

FaultSchedulerProperties(r, current, next) ==
  IF current = next THEN r ELSE [r EXCEPT !.batch = next]

UpdateSchedulerProperties(r, current, next) ==
  IF current = next THEN r ELSE [NeverRan(r) EXCEPT !.batch = next]

(* What an update of a row writes, and whether it clears the timestamps. *)
Updated(r, d) ==
  UpdateSchedulerProperties(
    UpdateStatusAndSeverity([r EXCEPT !.shape = d.shape], d.wasStatus, d.status),
    d.wasBatch, d.shape)

Restarts(d) == d.wasBatch # d.shape \/ (d.wasStatus # "ACTIVE" /\ d.status = "ACTIVE")

UpdateWrites(u) ==
  /\ user[u].at = "read"
  /\ LET m == user[u].monitor
     IN IF Exists(m)
        THEN /\ row' = [row EXCEPT ![m] = Updated(@, user[u])]
             /\ resets' = [resets EXCEPT ![m] = IF Restarts(user[u]) THEN @ + 1 ELSE @]
        ELSE UNCHANGED <<row, resets>>
  /\ user' = [user EXCEPT ![u] = Free]
  /\ UNCHANGED <<clock, scheduler, scheduledAt, overtaken, queue, processor, alerts, counters>>

Delete(m) ==
  /\ updates < MaxUpdates
  /\ Exists(m)
  /\ row' = [row EXCEPT ![m] = Deleted]
  /\ updates' = updates + 1
  /\ UNCHANGED <<clock, scheduler, scheduledAt, overtaken, queue, processor, user, alerts, resets, late, failures>>

(***************************************************************************)
(* Time.  The runner ticks several times within a TTL: time passes a       *)
(* moment only when a scheduler has run at it, except MaxLate moments.     *)
(***************************************************************************)
Tick ==
  /\ clock < MaxClock
  /\ clock' = clock + 1
  /\ \/ scheduledAt = clock /\ late' = late
     \/ scheduledAt # clock /\ late < MaxLate /\ late' = late + 1
  /\ UNCHANGED <<row, scheduler, scheduledAt, overtaken, queue, processor, user, alerts, resets, failures,
                 updates>>

Next ==
  \/ \E s \in Schedulers :
       \/ WakeUp(s) \/ Schedule(s)
       \/ \E e \in scheduler[s].todo : PublishEvent(s, e) \/ PublishEventFails(s, e)
  \/ \E p \in Processors :
       \/ StartJob(p) \/ Claim(p) \/ Complete(p) \/ JobFails(p)
       \/ \E m \in MonitorIds : PublishAlert(p, m)
  \/ \E m \in MonitorIds : Create(m) \/ Delete(m)
  \/ \E u \in Users : UpdateReads(u) \/ UpdateWrites(u)
  \/ Tick

Spec == Init /\ [][Next]_vars

-----------------------------------------------------------------------------
Events == [shape : Shapes, monitors : SUBSET MonitorIds, publishedAt : Time]

Rows ==
  [shape : Shapes, batch : Shapes, status : Statuses, severity : Severities,
   severityChangedAt : Time, nextRunAt : Nat, lastPublishedAt : Time, lastClaimedAt : Time,
   lastCompletedAt : Time, alertedAt : Time]

(* Every timestamp lies in the past, apart from nextRunAt; a processor     *)
(* holds outcomes for the rows it won and alerts only for some of those.   *)
TypeOK ==
  /\ clock \in 1..MaxClock
  /\ row \in [MonitorIds -> Rows]
  /\ \A m \in MonitorIds :
       \A f \in DOMAIN NoRow \ {"shape", "batch", "status", "severity", "nextRunAt"} : row[m][f] <= clock
  /\ \A s \in Schedulers : scheduler[s].tick \in 0..clock /\ scheduler[s].todo \subseteq Events
  /\ scheduledAt \in 0..clock /\ overtaken \subseteq MonitorIds
  /\ queue \subseteq Events
  /\ \A p \in Processors :
       \/ processor[p] = Free
       \/ processor[p].event \in Events /\ processor[p].now \in processor[p].event.publishedAt..clock
  /\ \A p \in Processors : processor[p].at = "claimed" =>
       /\ processor[p].todo \subseteq DOMAIN processor[p].outcome
       /\ DOMAIN processor[p].outcome = DOMAIN processor[p].prev
       /\ DOMAIN processor[p].outcome \subseteq processor[p].event.monitors
  /\ late <= MaxLate /\ failures <= MaxFailures /\ updates <= MaxUpdates

(* A monitor shows WARNING or ALERT only when the alert of that crossing   *)
(* is on the webhook queue, whatever job fails in between: processor.ts    *)
(* publishes first and writes the row afterwards.                          *)
BreachAlerted ==
  \A m \in MonitorIds : row[m].severity \in Breaching =>
    \E a \in alerts : /\ a.monitor = m
                      /\ a.severity = row[m].severity
                      /\ a.now = row[m].severityChangedAt

(* The price of publishing first is a repetition, which must stay rare:    *)
(* two alerts of one crossing of one monitor come from publications more   *)
(* than a TTL apart, as scheduler.ts republishes only expired runs.        *)
(* Exception: a tick that ran after the later tick of another scheduler    *)
(* wrote its own, older time into the rows it found.                       *)
AlertsSpaced ==
  \A a, b \in alerts :
    (/\ a # b /\ a.monitor = b.monitor /\ a.monitor \notin overtaken
     /\ a.crossing = b.crossing /\ a.severity = b.severity)
      => a.publishedAt + TTL < b.publishedAt \/ b.publishedAt + TTL < a.publishedAt

(* A run whose event or job was lost is published again as soon as it is   *)
(* older than the TTL, and a monitor never waits longer than a TTL and a   *)
(* cadence, although a pending run still moves next_run_at on.  (PAUSED    *)
(* rows that are ACTIVE were woken late by an overtaken update, and        *)
(* overtaken rows were planned by a tick older than the last.)             *)
PublishedInTime ==
  \A m \in MonitorIds \ overtaken :
    (row[m].status = "ACTIVE" /\ row[m].severity # "PAUSED" /\ row[m].lastPublishedAt # Null) =>
      /\ clock <= row[m].lastPublishedAt + TTL + Cadence + late
      /\ Uncompleted(row[m]) => clock <= row[m].lastPublishedAt + TTL + 1 + late

(* An outcome lands only on the row it was computed for: the severity it   *)
(* started from is still there, and the row still has the shape that was   *)
(* queried.  helpers.ts clears the timestamps of a row to make it so.      *)
LandsOnItsOwn ==
  \A p \in Processors : processor[p].at = "claimed" =>
    \A m \in MonitorIds : Lands(p, m) =>
      /\ row[m].severity = processor[p].prev[m].severity
      /\ row[m].shape = processor[p].event.shape

(* helpers.ts:139: schedulerBatchId fingerprints the query shape that the  *)
(* scheduler groups by.                                                    *)
FingerprintFits == \A m \in MonitorIds : row[m].batch = row[m].shape
=============================================================================
