--------------------------- MODULE MonitorsProofs ---------------------------
(***************************************************************************)
(* Monitors: what is shown is alerted, an outcome lands only on the row it *)
(* was computed for, runs are published in time, and alerts of a crossing  *)
(* are spaced.                                                             *)
(*                                                                         *)
(* The table's guards compare timestamps, so all of this rests on who may  *)
(* write which timestamp when.  No two ticks share a moment, an event is   *)
(* in one place at a time, and two events of one tick share no monitor:    *)
(* one job at most holds the event of a row's last publication.  Whoever   *)
(* changes the shape or the status of a row clears its timestamps, so the  *)
(* row still has that publication only if nobody did.                      *)
(***************************************************************************)
EXTENDS Monitors, TLAPS

(* Updates of monitors do not overlap.                                     *)
OneUser == \A u, v \in Users : u = v

-----------------------------------------------------------------------------

(* The types of a scheduler, a job, an outcome, an edit and an alert.      *)
Ticks == [tick : Time, todo : SUBSET Events]

StartedJob == [at : {"started"}, event : Events, now : Time]

Outcomes ==
  [emit : BOOLEAN, status : Statuses, severity : Severities, severityChangedAt : Time,
   alertedAt : Time]

ClaimedJob(won) ==
  [at : {"claimed"}, event : Events, now : Time, prev : [won -> Rows], outcome : [won -> Outcomes],
   edition : [won -> Nat], todo : SUBSET won]

Jobs == {Free} \cup StartedJob \cup UNION {ClaimedJob(won) : won \in SUBSET MonitorIds}

Edits ==
  [at : {"read"}, monitor : MonitorIds, status : WriteStatuses \cup {"same"}, shape : Shapes,
   wasStatus : Statuses, wasBatch : Shapes]

Alerts ==
  [monitor : MonitorIds, severity : Severities, now : Time, publishedAt : Time,
   crossing : Nat \X Severities \X Time \X Time]

(* The types of the variables.                                             *)
Shaped ==
  /\ clock \in 1..MaxClock
  /\ row \in [MonitorIds -> Rows]
  /\ scheduler \in [Schedulers -> Ticks]
  /\ scheduledAt \in 0..clock /\ overtaken \subseteq MonitorIds
  /\ queue \subseteq Events
  /\ processor \in [Processors -> Jobs]
  /\ user \in [Users -> {Free} \cup Edits]
  /\ alerts \subseteq Alerts
  /\ resets \in [MonitorIds -> Nat]
  /\ late \in 0..MaxLate /\ failures \in 0..MaxFailures /\ updates \in 0..MaxUpdates

(* All timestamps of a row but the next run lie in the past.               *)
RowPast(m) ==
  /\ row[m].severityChangedAt <= clock /\ row[m].lastPublishedAt <= clock
  /\ row[m].lastClaimedAt <= clock /\ row[m].lastCompletedAt <= clock
  /\ row[m].alertedAt <= clock

(* The events a scheduler has yet to queue are of its tick, which is past. *)
TickPast(s) ==
  /\ scheduler[s].tick <= clock
  /\ \A e \in scheduler[s].todo : scheduler[s].tick # Null /\ e.publishedAt = scheduler[s].tick

(* An event was published by a tick.                                       *)
PublishedPast(e) == e.publishedAt \in 1..clock

(* A job that has claimed its rows, and the rows it won.                   *)
Claimed(p) == processor[p].at = "claimed"

Won(p) == DOMAIN processor[p].prev

(* A job starts after its event was published; what it wants to write is   *)
(* decided from the rows it won.                                           *)
JobPast(p) ==
  /\ processor[p] # Free =>
       PublishedPast(processor[p].event) /\ processor[p].now \in processor[p].event.publishedAt..clock
  /\ Claimed(p) =>
       /\ Won(p) \subseteq processor[p].event.monitors
       /\ \A m \in Won(p) :
            /\ processor[p].prev[m].status = "ACTIVE"
            /\ processor[p].prev[m].severityChangedAt <= clock /\ processor[p].prev[m].alertedAt <= clock
            /\ \E value \in Values :
                 processor[p].outcome[m] = Decide(m, processor[p].prev[m], value, processor[p].now)
            /\ m \in processor[p].todo => processor[p].outcome[m].emit

(* All of this, of every row, scheduler, event and job.                    *)
Past ==
  /\ \A m \in MonitorIds : RowPast(m)
  /\ \A s \in Schedulers : TickPast(s)
  /\ \A e \in queue : PublishedPast(e)
  /\ \A p \in Processors : JobPast(p)

(* The inductive type invariant.                                           *)
TypeInv == Shaped /\ Past

(* An alert says that the monitor crossed to the severity at that moment.  *)
Alerted(m, severity, since) ==
  \E a \in alerts : a.monitor = m /\ a.severity = severity /\ a.now = since

(* What a job is about to write has been alerted, or the job is about to.  *)
BreachInv ==
  \A p \in Processors : Claimed(p) =>
    \A m \in Won(p) : LET c == processor[p].outcome[m] IN
      c.severity \in Breaching =>
        \/ m \in processor[p].todo /\ c.severityChangedAt = processor[p].now
        \/ Alerted(m, c.severity, c.severityChangedAt)

-----------------------------------------------------------------------------

(* An event is live while a scheduler, the queue or a job has it.          *)
Live ==
  {e \in Events : \/ \E s \in Schedulers : e \in scheduler[s].todo
                  \/ e \in queue
                  \/ \E p \in Processors : processor[p] # Free /\ e = processor[p].event}

(* A tick whose statement has not run.                                     *)
Unrun(s) == scheduler[s].tick # Null /\ scheduler[s].todo = {}

(* A tick that has yet to run is the only one of its moment: no event and  *)
(* no row has it, and no other such tick.                                  *)
TicksInv ==
  /\ \A e \in Live : e.publishedAt <= scheduledAt
  /\ \A m \in MonitorIds : row[m].lastPublishedAt <= scheduledAt
  /\ \A s \in Schedulers : Unrun(s) =>
       /\ \A t \in Schedulers : Unrun(t) /\ s # t => scheduler[t].tick # scheduler[s].tick
       /\ \A e \in Live : e.publishedAt # scheduler[s].tick
       /\ \A m \in MonitorIds : row[m].lastPublishedAt # scheduler[s].tick

(* Two events of one tick share no monitor.                                *)
Apart(e, f) == e.publishedAt # f.publishedAt \/ e.monitors \cap f.monitors = {}

(* And an event is in one place: with the scheduler of its tick, in the    *)
(* queue or with one job. Without this two jobs could land on one row.     *)
ApartInv ==
  /\ \A e, f \in Live : e # f => Apart(e, f)
  /\ \A s, t \in Schedulers : s # t => scheduler[s].todo \cap scheduler[t].todo = {}
  /\ \A s \in Schedulers : scheduler[s].todo \cap queue = {}
  /\ \A p \in Processors : processor[p] # Free =>
       /\ processor[p].event \notin queue
       /\ \A s \in Schedulers : processor[p].event \notin scheduler[s].todo
       /\ \A q \in Processors \ {p} :
            processor[q] # Free => processor[q].event # processor[p].event

(* What holds of a row while updates do not overlap: it has the batch id   *)
(* of its shape, is PAUSED when its status is, and has no publication      *)
(* before it exists.                                                       *)
RowEdited(m) ==
  /\ row[m].batch = row[m].shape
  /\ row[m].status \in {"PAUSED", "ERROR_BAD_QUERY"} => row[m].severity = "PAUSED"
  /\ row[m].status = "ABSENT" => row[m].lastPublishedAt = Null

(* What an update has read still holds when it writes, but for a query     *)
(* that was rejected meanwhile.                                            *)
EditFits(u) ==
  user[u] # Free => LET m == user[u].monitor IN
    /\ row[m].status # "ABSENT"
    /\ Exists(m) =>
         /\ row[m].batch = user[u].wasBatch
         /\ \/ row[m].status = user[u].wasStatus
            \/ user[u].wasStatus = "ACTIVE" /\ row[m].status = "ERROR_BAD_QUERY"

(* Of every row and every update.                                          *)
EditInv == (\A m \in MonitorIds : RowEdited(m)) /\ (\A u \in Users : EditFits(u))

(* The row still has the publication of an event, and its shape.           *)
Fresh(e, m) ==
  row[m].lastPublishedAt = e.publishedAt =>
    row[m].shape = e.shape /\ row[m].status # "ERROR_BAD_QUERY"

(* Of every monitor of every live event.                                   *)
FreshInv == \A e \in Live : \A m \in e.monitors : Fresh(e, m)

(* The row a job may land on is as the job has claimed it.                 *)
Own(p, m) ==
  row[m].lastPublishedAt = processor[p].event.publishedAt /\ row[m].status = "ACTIVE" =>
    /\ row[m].severity = processor[p].prev[m].severity
    /\ row[m].severityChangedAt = processor[p].prev[m].severityChangedAt
    /\ row[m].alertedAt = processor[p].prev[m].alertedAt

(* Of every row that a job won.                                            *)
OwnInv == \A p \in Processors : Claimed(p) => \A m \in Won(p) : Own(p, m)

-----------------------------------------------------------------------------

(* A row the timing properties are about.                                  *)
Watched(m) ==
  row[m].status = "ACTIVE" /\ row[m].severity # "PAUSED" /\ row[m].lastPublishedAt # Null

(* A watched run is due in time, and one that is lost is seen in time.     *)
RunInTime(m) ==
  Watched(m) =>
    /\ clock <= row[m].nextRunAt + late
    /\ row[m].nextRunAt <= row[m].lastPublishedAt + TTL + Cadence
    /\ Uncompleted(row[m]) => clock <= row[m].lastPublishedAt + TTL + 1 + late
    /\ scheduledAt = clock =>
         /\ clock < row[m].nextRunAt
         /\ Uncompleted(row[m]) => clock <= row[m].lastPublishedAt + TTL

(* Time that passes before the latest tick runs counts as late.            *)
TickInTime(s) ==
  Unrun(s) /\ scheduledAt < scheduler[s].tick => clock <= scheduler[s].tick + late

(* Of every tick, and of every row that no tick has planned out of order.  *)
InTimeInv ==
  /\ \A s \in Schedulers : TickInTime(s)
  /\ \A m \in MonitorIds \ overtaken : RunInTime(m)

-----------------------------------------------------------------------------

(* The alerts that a job is about to publish.                              *)
Announcing(p) == IF Claimed(p) THEN {Alert(p, m) : m \in processor[p].todo} ELSE {}

(* The alerts that are published or about to be.                           *)
Candidates == alerts \cup UNION {Announcing(p) : p \in Processors}

(* The row of an alert has not been cleared since.                         *)
Current(a) == a.crossing[1] = resets[a.monitor] /\ Exists(a.monitor)

(* The row has left the crossing of an alert behind.                       *)
Moved(a) ==
  LET r == row[a.monitor] IN
  \/ r.severityChangedAt > a.crossing[3]
  \/ r.alertedAt > a.crossing[4]
  \/ /\ r.severity # a.crossing[2]
     /\ r.lastCompletedAt >= a.crossing[3] /\ r.lastCompletedAt >= a.crossing[4]

(* Whoever repeats the crossing of an alert does so a TTL later.           *)
Settled(a) ==
  LET r == row[a.monitor] IN
  \/ Moved(a)
  \/ r.severity = "PAUSED"
  \/ r.lastPublishedAt > a.publishedAt + TTL
  \/ r.lastPublishedAt = a.publishedAt /\ r.lastCompletedAt < a.publishedAt

(* What holds of each candidate and its row.                               *)
CandidateInv(a) ==
  /\ a.publishedAt <= scheduledAt
  /\ a.crossing[1] <= resets[a.monitor]
  /\ a.crossing[2] # "PAUSED"
  /\ row[a.monitor].status # "ABSENT"
  /\ Current(a) =>
       /\ a.crossing[3] <= row[a.monitor].severityChangedAt
       /\ a.crossing[4] <= row[a.monitor].alertedAt
       /\ a.publishedAt <= row[a.monitor].lastPublishedAt
       /\ Settled(a)

(* Of the alerts of every row that no tick has planned out of order.       *)
CandidatesInv == \A a \in Candidates : a.monitor \notin overtaken => CandidateInv(a)

(* Two alerts come from publications more than a TTL apart.                *)
Spaced(a, b) == a.publishedAt + TTL < b.publishedAt \/ b.publishedAt + TTL < a.publishedAt

(* AlertsSpaced, of the alerts about to be published as well.              *)
SpacedInv ==
  \A a, b \in Candidates :
    (/\ a # b /\ a.monitor = b.monitor /\ a.monitor \notin overtaken
     /\ a.crossing = b.crossing /\ a.severity = b.severity) => Spaced(a, b)

(* An alert of an event that is still live belongs to the job that holds   *)
(* the event.                                                              *)
Holds(p, e, a) ==
  /\ Claimed(p) /\ processor[p].event = e /\ a.monitor \in Won(p)
  /\ a = Alert(p, a.monitor) /\ processor[p].outcome[a.monitor].emit

(* Of every live event.                                                    *)
HeldInv ==
  \A e \in Live, a \in Candidates :
    a.publishedAt = e.publishedAt /\ a.monitor \in e.monitors \ overtaken =>
      \E p \in Processors : Holds(p, e, a)

(* No row lags behind an event that is live.                               *)
Ahead(e, m) ==
  /\ row[m].status # "ABSENT"
  /\ row[m].lastPublishedAt = Null \/ e.publishedAt <= row[m].lastPublishedAt

(* Of every monitor of every live event, unless a tick has planned it out  *)
(* of order.                                                               *)
AheadInv == \A e \in Live : \A m \in e.monitors \ overtaken : Ahead(e, m)

(* A job that may land started after all that its row has seen.            *)
Started(p, m) ==
  row[m].lastPublishedAt = processor[p].event.publishedAt /\ row[m].status = "ACTIVE" =>
    /\ row[m].severityChangedAt <= processor[p].now /\ row[m].alertedAt <= processor[p].now
    /\ Claimed(p) /\ m \in Won(p) => row[m].lastCompletedAt < processor[p].event.publishedAt

(* Of every monitor of every job.                                          *)
StartedInv ==
  \A p \in Processors : processor[p] # Free => \A m \in processor[p].event.monitors : Started(p, m)

(* The inductive invariant of alerts, on top of that of time.              *)
AlertsInv ==
  CandidatesInv /\ SpacedInv /\ HeldInv /\ AheadInv /\ StartedInv

-----------------------------------------------------------------------------

(* What the assumption says of the constants, one by one.                  *)
LEMMA MonitorConstants ==
  /\ MaxClock \in Nat \ {0} /\ TTL \in Nat \ {0} /\ Cadence \in Nat \ {0}
  /\ NoDataDelay \in Nat /\ MaxLate \in Nat /\ MaxFailures \in Nat /\ MaxUpdates \in Nat
  /\ \A m \in MonitorIds : Renotify[m] \in Nat
  /\ Values \subseteq Compared \cup {"null", "ErrorBadQuery"}
  BY MonitorsAssumption

(* A row that does not exist and one that was deleted are rows.            *)
LEMMA NoRowTyped == NoRow \in Rows /\ Deleted \in Rows
<1>1. (CHOOSE s \in Shapes : TRUE) \in Shapes
  BY MonitorsAssumption
<1>2. NoRow \in Rows
  BY <1>1, MonitorConstants DEF NoRow, Rows, Statuses, Severities, Time, Null
<1>3. Deleted \in Rows
  BY <1>2, MonitorConstants DEF NoRow, Deleted, Rows, Statuses
<1> QED  BY <1>2, <1>3

(* The next run is planned for the next multiple of the cadence.           *)
LEMMA NextRunLater ==
  ASSUME NEW t \in Nat
  PROVE  NextRunAt(t) \in Nat /\ t < NextRunAt(t) /\ NextRunAt(t) <= t + Cadence
<1> DEFINE q == t \div Cadence
           r == t % Cadence
<1>1. q \in Nat /\ r \in 0..(Cadence - 1) /\ t = Cadence * q + r
  BY MonitorConstants
<1>2. Cadence * q = q * Cadence /\ q * Cadence \in Nat
  BY <1>1, MonitorConstants
<1>3. NextRunAt(t) = q * Cadence + Cadence
  BY DEF NextRunAt
<1> HIDE DEF q, r
<1> QED  BY <1>1, <1>2, <1>3, MonitorConstants

(* processor.ts: what an evaluation decides of a row has the type of an    *)
(* outcome, whatever the query returned.                                   *)
LEMMA DecideTyped ==
  ASSUME NEW m \in MonitorIds, NEW prev \in Rows, NEW value \in Values, NEW now \in Time
  PROVE  Decide(m, prev, value, now) \in Outcomes
<1> DEFINE next == ComputeSeverity(m, prev.severity, value)
           emit == ShouldEmit(m, prev, next, now)
<1>1. value # "ErrorBadQuery" => next \in Severities
  BY MonitorConstants DEF ComputeSeverity, Severities, Compared, Rows
<1>2. emit \in BOOLEAN
  BY Zenon DEF ShouldEmit
<1>3. prev.severity \in Severities /\ prev.status \in Statuses /\ prev.severityChangedAt \in Time
      /\ prev.alertedAt \in Time
  BY DEF Rows
<1>4. Decide(m, prev, value, now) =
        IF value = "ErrorBadQuery"
        THEN [emit |-> FALSE, status |-> "ERROR_BAD_QUERY", severity |-> "PAUSED",
              severityChangedAt |-> now, alertedAt |-> prev.alertedAt]
        ELSE IF prev.severity = "PAUSED"
        THEN [emit |-> FALSE, status |-> prev.status, severity |-> "PAUSED",
              severityChangedAt |-> prev.severityChangedAt, alertedAt |-> prev.alertedAt]
        ELSE [emit |-> emit, status |-> prev.status, severity |-> next,
              severityChangedAt |-> IF next # prev.severity THEN now ELSE prev.severityChangedAt,
              alertedAt |-> IF emit THEN now ELSE prev.alertedAt]
  BY DEF Decide
<1> HIDE DEF next, emit
<1> QED  BY <1>1, <1>2, <1>3, <1>4 DEF Outcomes, Statuses, Severities

(* A job is free, has started, or has claimed the rows it won.             *)
LEMMA JobCases ==
  ASSUME Shaped, NEW p \in Processors
  PROVE  \/ processor[p] = Free
         \/ processor[p] \in StartedJob /\ processor[p] # Free
         \/ /\ processor[p] # Free /\ Claimed(p) /\ Won(p) \in SUBSET MonitorIds
            /\ processor[p] \in ClaimedJob(Won(p))
<1>1. processor[p] \in Jobs
  BY DEF Shaped
<1>2. ASSUME NEW won \in SUBSET MonitorIds, processor[p] \in ClaimedJob(won)
      PROVE  /\ processor[p] # Free /\ Claimed(p) /\ Won(p) \in SUBSET MonitorIds
             /\ processor[p] \in ClaimedJob(Won(p))
  <2>1. processor[p].at = "claimed" /\ Won(p) = won
    BY <1>2 DEF ClaimedJob, Won
  <2> QED  BY <1>2, <2>1 DEF Claimed, Free
<1>3. processor[p] \in StartedJob => processor[p] # Free
  BY DEF StartedJob, Free
<1> QED  BY <1>1, <1>2, <1>3 DEF Jobs

(* What a job that has claimed holds: for each row it won, the row as it   *)
(* was, the outcome and its edition, and alerts for some of them.          *)
LEMMA ClaimedTyped ==
  ASSUME Shaped, NEW p \in Processors, Claimed(p)
  PROVE  /\ processor[p] # Free /\ Won(p) \in SUBSET MonitorIds
         /\ processor[p] \in ClaimedJob(Won(p))
         /\ DOMAIN processor[p].outcome = Won(p)
         /\ processor[p].todo \subseteq Won(p)
         /\ processor[p].event \in Events /\ processor[p].now \in Time
         /\ \A m \in Won(p) : /\ processor[p].prev[m] \in Rows
                              /\ processor[p].outcome[m] \in Outcomes
                              /\ processor[p].edition[m] \in Nat
<1>1. processor[p] # Free /\ processor[p] \notin StartedJob
  BY DEF Claimed, Free, StartedJob
<1>2. Won(p) \in SUBSET MonitorIds /\ processor[p] \in ClaimedJob(Won(p))
  BY <1>1, JobCases
<1> HIDE DEF Won
<1> QED  BY <1>1, <1>2 DEF ClaimedJob

(* A job that has started has an event and a moment.                       *)
LEMMA WorkingTyped ==
  ASSUME Shaped, NEW p \in Processors, processor[p] # Free
  PROVE  processor[p].event \in Events /\ processor[p].now \in Time
<1>1. CASE processor[p] \in StartedJob
  BY <1>1 DEF StartedJob
<1>2. CASE Claimed(p)
  BY <1>2, ClaimedTyped
<1> QED  BY <1>1, <1>2, JobCases

-----------------------------------------------------------------------------
(* What the actions do, apart from what they leave unchanged.              *)

(* The rows a scheduler publishes.                                         *)
Publishes(s) == {m \in Due(scheduler[s].tick) : ~Pending(row[m], scheduler[s].tick)}

(* What a tick makes of a due row.                                         *)
Planned(m, s) ==
  [row[m] EXCEPT !.nextRunAt = NextRunAt(scheduler[s].tick),
                 !.lastPublishedAt = IF m \in Publishes(s) THEN scheduler[s].tick ELSE @]

(* The events of a tick have disjoint monitors, and the shape of one of    *)
(* them that is in the same batch.                                         *)
EventsOf(s, events) ==
  /\ \A e \in events :
       /\ e \in Events /\ e.publishedAt = scheduler[s].tick /\ e.monitors \subseteq Publishes(s)
       /\ \A m \in e.monitors : \E n \in Publishes(s) : row[n].batch = row[m].batch /\ e.shape = row[n].shape
  /\ \A e, f \in events : e # f => e.monitors \cap f.monitors = {}

(* scheduler.ts, schedule(): the due rows are planned anew, and those that *)
(* are not pending are published, in events of this tick.                  *)
LEMMA ScheduleEffect ==
  ASSUME Shaped, NEW s \in Schedulers, Schedule(s)
  PROVE  /\ Unrun(s)
         /\ row' = [m \in MonitorIds |-> IF m \in Due(scheduler[s].tick) THEN Planned(m, s) ELSE row[m]]
         /\ \E events \in SUBSET Events :
              /\ EventsOf(s, events)
              /\ scheduler' = [scheduler EXCEPT ![s] =
                                 IF events = {} THEN Waiting ELSE [@ EXCEPT !.todo = events]]
         /\ scheduledAt' = IF scheduledAt < scheduler[s].tick THEN scheduler[s].tick ELSE scheduledAt
         /\ overtaken' = IF scheduledAt < scheduler[s].tick THEN overtaken
                         ELSE overtaken \cup Due(scheduler[s].tick)
         /\ UNCHANGED <<clock, queue, processor, user, alerts, resets, counters>>
<1> DEFINE tick == scheduler[s].tick
           published == {m \in Due(tick) : ~Pending(row[m], tick)}
           Of(first) == {[shape |-> row[first[b]].shape,
                          monitors |-> {m \in published : row[m].batch = b},
                          publishedAt |-> tick] : b \in DOMAIN first}
<1>1. published = Publishes(s) /\ published \subseteq MonitorIds
  BY DEF Publishes, Due
<1>2. /\ Unrun(s)
      /\ row' = [m \in MonitorIds |->
                  IF m \notin Due(tick) THEN row[m]
                  ELSE [row[m] EXCEPT !.nextRunAt = NextRunAt(tick),
                                      !.lastPublishedAt = IF m \in published THEN tick ELSE @]]
      /\ \E first \in Representatives(published) :
           scheduler' = [scheduler EXCEPT ![s] =
                           IF Of(first) = {} THEN Waiting ELSE [@ EXCEPT !.todo = Of(first)]]
      /\ scheduledAt' = IF scheduledAt < tick THEN tick ELSE scheduledAt
      /\ overtaken' = IF scheduledAt < tick THEN overtaken ELSE overtaken \cup Due(tick)
      /\ UNCHANGED <<clock, queue, processor, user, alerts, resets, counters>>
  BY Zenon DEF Schedule, Unrun
<1> HIDE DEF published
<1>3. row' = [m \in MonitorIds |-> IF m \in Due(tick) THEN Planned(m, s) ELSE row[m]]
  BY <1>1, <1>2 DEF Planned
<1>4. PICK first \in Representatives(published) :
           scheduler' = [scheduler EXCEPT ![s] =
                           IF Of(first) = {} THEN Waiting ELSE [@ EXCEPT !.todo = Of(first)]]
  BY <1>2
<1>5. \A b \in DOMAIN first : first[b] \in published /\ row[first[b]].batch = b
  BY <1>4 DEF Representatives
<1>6. tick \in Time
  BY DEF Shaped, Ticks
<1>7. ASSUME NEW e \in Of(first)
      PROVE  /\ e \in Events /\ e.publishedAt = tick /\ e.monitors \subseteq published
             /\ \A m \in e.monitors : \E n \in published : row[n].batch = row[m].batch /\ e.shape = row[n].shape
  <2>1. PICK b \in DOMAIN first :
          e = [shape |-> row[first[b]].shape, monitors |-> {m \in published : row[m].batch = b},
               publishedAt |-> tick]
    BY <1>7
  <2>2. first[b] \in published /\ row[first[b]].batch = b
    BY <1>5
  <2>3. row[first[b]].shape \in Shapes
    BY <1>1, <2>2 DEF Shaped, Rows
  <2>4. e.monitors = {m \in published : row[m].batch = b} /\ e.shape = row[first[b]].shape
        /\ e.publishedAt = tick
    BY <2>1
  <2>5. e \in Events
    BY <1>1, <1>6, <2>1, <2>3 DEF Events
  <2> QED  BY <2>2, <2>4, <2>5
<1>8. ASSUME NEW e \in Of(first), NEW f \in Of(first), e # f
      PROVE  e.monitors \cap f.monitors = {}
  <2>1. PICK b \in DOMAIN first :
          e = [shape |-> row[first[b]].shape, monitors |-> {m \in published : row[m].batch = b},
               publishedAt |-> tick]
    BY <1>8
  <2>2. PICK c \in DOMAIN first :
          f = [shape |-> row[first[c]].shape, monitors |-> {m \in published : row[m].batch = c},
               publishedAt |-> tick]
    BY <1>8
  <2>3. b # c
    BY <1>8, <2>1, <2>2
  <2> QED  BY <2>1, <2>2, <2>3
<1>9. EventsOf(s, Of(first)) /\ Of(first) \in SUBSET Events
  BY <1>1, <1>7, <1>8 DEF EventsOf
<1> HIDE DEF Of
<1> QED  BY <1>2, <1>3, <1>4, <1>9

(* What a job has after its claim.                                         *)
ClaimOf(p, j, won) ==
  /\ j.at = "claimed" /\ j.event = processor[p].event /\ j.now = processor[p].now
  /\ DOMAIN j.prev = won
  /\ j.todo = {m \in won : j.outcome[m].emit}
  /\ \A m \in won :
       /\ j.prev[m] = row[m] /\ j.edition[m] = resets[m]
       /\ \E value \in Values : j.outcome[m] = Decide(m, row[m], value, processor[p].now)

(* processor.ts, the claim: the rows that still carry the publication of   *)
(* the event are stamped, and the job holds them, or is over when there    *)
(* are none.                                                               *)
LEMMA ClaimEffect ==
  ASSUME Shaped, NEW p \in Processors, Claim(p)
  PROVE  /\ processor[p] \in StartedJob
         /\ row' = [m \in MonitorIds |->
                     IF m \in Claims(processor[p].event)
                     THEN [row[m] EXCEPT !.lastClaimedAt = processor[p].now] ELSE row[m]]
         /\ \E j \in Jobs : /\ processor' = [processor EXCEPT ![p] = j]
                            /\ \/ j = Free
                               \/ /\ ClaimOf(p, j, Claims(processor[p].event))
                                  /\ j \in ClaimedJob(Claims(processor[p].event))
         /\ UNCHANGED <<clock, scheduler, scheduledAt, overtaken, queue, user, alerts, resets, counters>>
<1> DEFINE e == processor[p].event
           now == processor[p].now
           won == Claims(e)
           Out(values) == [m \in won |-> Decide(m, row[m], values[m], now)]
           Job(values) == [at |-> "claimed", event |-> e, now |-> now,
                           prev |-> [m \in won |-> row[m]],
                           outcome |-> Out(values),
                           edition |-> [m \in won |-> resets[m]],
                           todo |-> {m \in won : Out(values)[m].emit}]
<1>1. /\ processor[p].at = "started"
      /\ row' = [m \in MonitorIds |->
                  IF m \in won THEN [row[m] EXCEPT !.lastClaimedAt = now] ELSE row[m]]
      /\ \E values \in [won -> Values] :
           processor' = [processor EXCEPT ![p] = IF won = {} THEN Free ELSE Job(values)]
      /\ UNCHANGED <<clock, scheduler, scheduledAt, overtaken, queue, user, alerts, resets, counters>>
  BY Zenon DEF Claim
<1>2. processor[p] \in StartedJob
  BY <1>1, JobCases DEF Free, Claimed
<1>3. PICK values \in [won -> Values] :
           processor' = [processor EXCEPT ![p] = IF won = {} THEN Free ELSE Job(values)]
  BY <1>1
<1>4. e \in Events /\ now \in Time /\ won \subseteq MonitorIds
  BY <1>2 DEF StartedJob, Claims, Events
<1>5. \A m \in won : row[m] \in Rows /\ resets[m] \in Nat /\ values[m] \in Values
  BY <1>3, <1>4 DEF Shaped
<1> HIDE DEF won, e, now
<1>6. Out(values) \in [won -> Outcomes]
  BY <1>4, <1>5, DecideTyped
<1>7. \A m \in won : Out(values)[m] = Decide(m, row[m], values[m], now)
  OBVIOUS
<1> HIDE DEF Out
<1>8. /\ Job(values).at = "claimed" /\ Job(values).event = e /\ Job(values).now = now
      /\ Job(values).prev = [m \in won |-> row[m]]
      /\ Job(values).outcome = Out(values)
      /\ Job(values).edition = [m \in won |-> resets[m]]
      /\ Job(values).todo = {m \in won : Out(values)[m].emit}
  OBVIOUS
<1>9. Job(values) \in ClaimedJob(won)
  <2>1. [m \in won |-> row[m]] \in [won -> Rows] /\ [m \in won |-> resets[m]] \in [won -> Nat]
    BY <1>5
  <2>2. {m \in won : Out(values)[m].emit} \in SUBSET won
    OBVIOUS
  <2> QED  BY <1>4, <1>6, <2>1, <2>2 DEF ClaimedJob
<1> HIDE DEF Job
<1>10. Job(values) \in Jobs
  BY <1>4, <1>9 DEF Jobs
<1>11. \A m \in won : /\ Job(values).prev[m] = row[m] /\ Job(values).edition[m] = resets[m]
                      /\ \E value \in Values : Job(values).outcome[m] = Decide(m, row[m], value, now)
  BY <1>5, <1>7, <1>8
<1>12. ClaimOf(p, Job(values), won)
  <2>1. DOMAIN Job(values).prev = won
    BY <1>8
  <2>2. Job(values).todo = {m \in won : Job(values).outcome[m].emit}
    BY <1>8
  <2> QED  BY <1>8, <1>11, <2>1, <2>2 DEF ClaimOf, e, now
<1>13. Free \in Jobs
  BY DEF Jobs
<1>14. CASE won = {}
  <2>1. processor' = [processor EXCEPT ![p] = Free]
    BY <1>3, <1>14
  <2> QED  BY <1>1, <1>2, <1>13, <2>1 DEF won, e, now
<1>15. CASE won # {}
  <2>1. processor' = [processor EXCEPT ![p] = Job(values)]
    BY <1>3, <1>15
  <2> QED  BY <1>1, <1>2, <1>9, <1>10, <1>12, <2>1 DEF won, e, now
<1> QED  BY <1>14, <1>15

(* An update that has read holds an edit.                                  *)
LEMMA EditTyped ==
  ASSUME Shaped, NEW u \in Users, user[u].at = "read"
  PROVE  user[u] \in Edits /\ user[u] # Free
  BY DEF Shaped, Free

(* What an update makes of a row, field by field.                          *)
LEMMA UpdatedRow ==
  ASSUME Shaped, NEW m \in MonitorIds, NEW d \in Edits
  PROVE  /\ Updated(row[m], d) \in Rows
         /\ Updated(row[m], d).shape = d.shape
         /\ Updated(row[m], d).batch = IF d.wasBatch = d.shape THEN row[m].batch ELSE d.shape
         /\ Updated(row[m], d).status = IF d.status = "same" THEN row[m].status ELSE d.status
         /\ Restarts(d) =>
              /\ Updated(row[m], d).nextRunAt = Null /\ Updated(row[m], d).lastPublishedAt = Null
              /\ Updated(row[m], d).lastClaimedAt = Null /\ Updated(row[m], d).lastCompletedAt = Null
         /\ ~Restarts(d) =>
              /\ Updated(row[m], d).nextRunAt = row[m].nextRunAt
              /\ Updated(row[m], d).lastPublishedAt = row[m].lastPublishedAt
              /\ Updated(row[m], d).lastClaimedAt = row[m].lastClaimedAt
              /\ Updated(row[m], d).lastCompletedAt = row[m].lastCompletedAt
              /\ Updated(row[m], d).alertedAt = row[m].alertedAt
         /\ Updated(row[m], d).alertedAt \in {row[m].alertedAt, Null}
         /\ \/ /\ d.status = "same" \/ (d.status = "ACTIVE" <=> d.wasStatus = "ACTIVE")
               /\ Updated(row[m], d).severity = row[m].severity
               /\ Updated(row[m], d).severityChangedAt = row[m].severityChangedAt
            \/ /\ d.status # "same" /\ d.wasStatus = "ACTIVE" /\ d.status = "PAUSED"
               /\ Updated(row[m], d).severity = "PAUSED" /\ Updated(row[m], d).severityChangedAt = clock
            \/ /\ d.wasStatus # "ACTIVE" /\ d.status = "ACTIVE"
               /\ Updated(row[m], d).severity = "UNKNOWN" /\ Updated(row[m], d).severityChangedAt = clock
<1> DEFINE r1 == [row[m] EXCEPT !.shape = d.shape]
           r2 == UpdateStatusAndSeverity(r1, d.wasStatus, d.status)
<1>1. row[m] \in Rows /\ clock \in Time /\ Null \in Time /\ Null \in Nat
  BY MonitorConstants DEF Shaped, Time, Null
<1>2. /\ d.shape \in Shapes /\ d.wasBatch \in Shapes /\ d.status \in {"ACTIVE", "PAUSED", "same"}
  BY DEF Edits, WriteStatuses
<1>3. r1 \in Rows /\ r1.shape = d.shape /\ r1 = [row[m] EXCEPT !.shape = d.shape]
  BY <1>1, <1>2 DEF Rows
<1>4. /\ r1.batch = row[m].batch /\ r1.status = row[m].status /\ r1.severity = row[m].severity
      /\ r1.severityChangedAt = row[m].severityChangedAt /\ r1.nextRunAt = row[m].nextRunAt
      /\ r1.lastPublishedAt = row[m].lastPublishedAt /\ r1.lastClaimedAt = row[m].lastClaimedAt
      /\ r1.lastCompletedAt = row[m].lastCompletedAt /\ r1.alertedAt = row[m].alertedAt
  BY <1>1, <1>3 DEF Rows
<1> HIDE DEF r1
<1>5. Updated(row[m], d) = UpdateSchedulerProperties(r2, d.wasBatch, d.shape)
  BY DEF Updated, r1
<1>6. r2 \in Rows
  BY <1>1, <1>2, <1>3 DEF UpdateStatusAndSeverity, NeverRan, Rows, Statuses, Severities
<1>7. r2.shape = r1.shape /\ r2.batch = r1.batch
      /\ r2.status = IF d.status = "same" THEN r1.status ELSE d.status
  BY <1>2, <1>3 DEF UpdateStatusAndSeverity, NeverRan, Rows
<1>8. IF d.wasStatus # "ACTIVE" /\ d.status = "ACTIVE"
      THEN /\ r2.nextRunAt = Null /\ r2.lastPublishedAt = Null /\ r2.lastClaimedAt = Null
           /\ r2.lastCompletedAt = Null /\ r2.alertedAt = Null
           /\ r2.severity = "UNKNOWN" /\ r2.severityChangedAt = clock
      ELSE /\ r2.nextRunAt = r1.nextRunAt /\ r2.lastPublishedAt = r1.lastPublishedAt
           /\ r2.lastClaimedAt = r1.lastClaimedAt /\ r2.lastCompletedAt = r1.lastCompletedAt
           /\ r2.alertedAt = r1.alertedAt
           /\ IF d.status # "same" /\ d.wasStatus = "ACTIVE" /\ d.status = "PAUSED"
              THEN r2.severity = "PAUSED" /\ r2.severityChangedAt = clock
              ELSE r2.severity = r1.severity /\ r2.severityChangedAt = r1.severityChangedAt
  BY <1>2, <1>3 DEF UpdateStatusAndSeverity, NeverRan, Rows
<1> DEFINE r3 == UpdateSchedulerProperties(r2, d.wasBatch, d.shape)
<1> HIDE DEF r2
<1>9. /\ r3 \in Rows /\ r3.shape = r2.shape /\ r3.status = r2.status /\ r3.severity = r2.severity
      /\ r3.severityChangedAt = r2.severityChangedAt /\ r3.alertedAt = r2.alertedAt
      /\ r3.batch = IF d.wasBatch = d.shape THEN r2.batch ELSE d.shape
  BY <1>1, <1>2, <1>6 DEF UpdateSchedulerProperties, NeverRan, Rows
<1>10. IF d.wasBatch = d.shape
       THEN /\ r3.nextRunAt = r2.nextRunAt /\ r3.lastPublishedAt = r2.lastPublishedAt
            /\ r3.lastClaimedAt = r2.lastClaimedAt /\ r3.lastCompletedAt = r2.lastCompletedAt
       ELSE /\ r3.nextRunAt = Null /\ r3.lastPublishedAt = Null
            /\ r3.lastClaimedAt = Null /\ r3.lastCompletedAt = Null
  BY <1>6 DEF UpdateSchedulerProperties, NeverRan, Rows
<1> HIDE DEF r3
<1>11. Updated(row[m], d) = r3
  BY <1>5 DEF r3
<1> QED  BY <1>2, <1>3, <1>4, <1>7, <1>8, <1>9, <1>10, <1>11 DEF Restarts

(* Completion writes the outcome.                                          *)
Completed(p, m) ==
  LET c == processor[p].outcome[m]
  IN [row[m] EXCEPT !.lastCompletedAt = processor[p].now, !.status = c.status,
                    !.severity = c.severity, !.severityChangedAt = c.severityChangedAt,
                    !.alertedAt = c.alertedAt]

(* processor.ts, the completion: an outcome is written to the rows it      *)
(* lands on, all of them rows the job won, once its alerts are out.        *)
LEMMA CompleteEffect ==
  ASSUME Shaped, NEW p \in Processors, Complete(p)
  PROVE  /\ Claimed(p) /\ processor[p].todo = {}
         /\ row' = [m \in MonitorIds |-> IF Lands(p, m) THEN Completed(p, m) ELSE row[m]]
         /\ processor' = [processor EXCEPT ![p] = Free]
         /\ UNCHANGED <<clock, scheduler, scheduledAt, overtaken, queue, user, alerts, resets, counters>>
         /\ \A m \in MonitorIds : Lands(p, m) => m \in Won(p) /\ Completed(p, m) \in Rows
<1>1. Claimed(p) /\ processor[p].todo = {}
  BY DEF Complete, ReadyToComplete, Claimed
<1>2. ASSUME NEW m \in MonitorIds, Lands(p, m)
      PROVE  m \in Won(p) /\ Completed(p, m) \in Rows
  <2>1. m \in Won(p)
    BY <1>2 DEF Lands, Won
  <2>2. processor[p].outcome[m] \in Outcomes /\ processor[p].now \in Time /\ row[m] \in Rows
    BY <1>1, <2>1, ClaimedTyped DEF Shaped
  <2> QED  BY <2>1, <2>2 DEF Completed, Rows, Outcomes
<1>3. /\ row' = [m \in MonitorIds |-> IF Lands(p, m) THEN Completed(p, m) ELSE row[m]]
      /\ processor' = [processor EXCEPT ![p] = Free]
      /\ UNCHANGED <<clock, scheduler, scheduledAt, overtaken, queue, user, alerts, resets, counters>>
  <2>1. row' = [m \in MonitorIds |-> IF ~Lands(p, m) THEN row[m] ELSE Completed(p, m)]
    BY Zenon DEF Complete, Completed
  <2> QED  BY <2>1 DEF Complete
<1> QED  BY <1>1, <1>2, <1>3

(* The alert of a row that a job won, field by field.                      *)
LEMMA AlertTyped ==
  ASSUME Shaped, NEW p \in Processors, Claimed(p), NEW m \in Won(p)
  PROVE  /\ Alert(p, m) \in Alerts
         /\ Alert(p, m).monitor = m /\ Alert(p, m).severity = processor[p].outcome[m].severity
         /\ Alert(p, m).now = processor[p].now
         /\ Alert(p, m).publishedAt = processor[p].event.publishedAt
         /\ Alert(p, m).crossing = <<processor[p].edition[m], processor[p].prev[m].severity,
                                     processor[p].prev[m].severityChangedAt,
                                     processor[p].prev[m].alertedAt>>
<1>1. /\ m \in MonitorIds /\ processor[p].event \in Events /\ processor[p].now \in Time
      /\ processor[p].prev[m] \in Rows /\ processor[p].outcome[m] \in Outcomes
      /\ processor[p].edition[m] \in Nat
  BY ClaimedTyped
<1> DEFINE c == <<processor[p].edition[m], processor[p].prev[m].severity,
                  processor[p].prev[m].severityChangedAt, processor[p].prev[m].alertedAt>>
<1>2. c \in Nat \X Severities \X Time \X Time
  BY <1>1 DEF Rows
<1>3. Alert(p, m) = [monitor |-> m, severity |-> processor[p].outcome[m].severity,
                     now |-> processor[p].now, publishedAt |-> processor[p].event.publishedAt,
                     crossing |-> c]
  BY DEF Alert
<1>4. processor[p].outcome[m].severity \in Severities /\ processor[p].event.publishedAt \in Time
  BY <1>1 DEF Outcomes, Events
<1> HIDE DEF c
<1>5. Alert(p, m) \in Alerts /\ Alert(p, m).crossing = c
      /\ Alert(p, m).monitor = m /\ Alert(p, m).severity = processor[p].outcome[m].severity
      /\ Alert(p, m).now = processor[p].now
      /\ Alert(p, m).publishedAt = processor[p].event.publishedAt
  BY <1>1, <1>2, <1>3, <1>4 DEF Alerts
<1> QED  BY <1>5 DEF c

-----------------------------------------------------------------------------

(* The first state has its type, and nothing breaches.                     *)
LEMMA InitShaped == Init => TypeInv /\ BreachInv
<1> SUFFICES ASSUME Init PROVE TypeInv /\ BreachInv
  OBVIOUS
<1>1. /\ clock = 1 /\ row = [m \in MonitorIds |-> NoRow] /\ scheduler = [s \in Schedulers |-> Waiting]
      /\ scheduledAt = Null /\ overtaken = {} /\ queue = {} /\ processor = [p \in Processors |-> Free]
      /\ user = [u \in Users |-> Free] /\ alerts = {} /\ resets = [m \in MonitorIds |-> 0]
      /\ late = 0 /\ failures = 0 /\ updates = 0
  BY DEF Init, Idle
<1>2. Waiting \in Ticks /\ Free \in Jobs
  BY MonitorConstants DEF Waiting, Ticks, Time, Null, Jobs
<1>3. Shaped
  BY <1>1, <1>2, NoRowTyped, MonitorConstants DEF Shaped, Null
<1>4. \A m \in MonitorIds : RowPast(m)
  BY <1>1 DEF RowPast, NoRow, Null
<1>5. \A s \in Schedulers : TickPast(s)
  BY <1>1 DEF TickPast, Waiting, Null
<1>6. \A p \in Processors : JobPast(p) /\ ~Claimed(p)
  BY <1>1 DEF JobPast, Claimed, Free
<1>7. Past
  BY <1>1, <1>4, <1>5, <1>6 DEF Past
<1> QED  BY <1>3, <1>6, <1>7 DEF TypeInv, BreachInv

(* A free slot is a job, and a waiting scheduler a tick without events.    *)
LEMMA FreeTyped == Free \in Jobs /\ Free.at = "free" /\ Waiting \in Ticks
                   /\ Waiting.tick = Null /\ Waiting.todo = {}
  BY MonitorConstants DEF Free, Jobs, Waiting, Ticks, Time, Null

(* A scheduler has published, or given up, an event of its tick.           *)
LEMMA PublishedEffect ==
  ASSUME Shaped, NEW s \in Schedulers, NEW e \in scheduler[s].todo, Published(s, e)
  PROVE  /\ e \in Events
         /\ scheduler' \in [Schedulers -> Ticks]
         /\ \A t \in Schedulers \ {s} : scheduler'[t] = scheduler[t]
         /\ scheduler'[s].todo = scheduler[s].todo \ {e}
         /\ scheduler'[s].tick = IF scheduler'[s].todo = {} THEN Null ELSE scheduler[s].tick
<1> DEFINE left == scheduler[s].todo \ {e}
<1>1. scheduler[s] \in Ticks /\ scheduler \in [Schedulers -> Ticks]
  BY DEF Shaped
<1>2. scheduler' = [scheduler EXCEPT ![s] =
                     IF left = {} THEN Waiting ELSE [scheduler[s] EXCEPT !.todo = left]]
  BY Zenon DEF Published
<1>3. [scheduler[s] EXCEPT !.todo = left] \in Ticks
      /\ [scheduler[s] EXCEPT !.todo = left].todo = left
      /\ [scheduler[s] EXCEPT !.todo = left].tick = scheduler[s].tick
  BY <1>1 DEF Ticks
<1>4. e \in Events
  BY <1>1 DEF Ticks
<1> HIDE DEF left
<1>5. CASE left = {}
  BY <1>1, <1>2, <1>4, <1>5, FreeTyped DEF left
<1>6. CASE left # {}
  <2>1. scheduler'[s] = [scheduler[s] EXCEPT !.todo = left]
    BY <1>1, <1>2, <1>6
  <2> QED  BY <1>1, <1>2, <1>3, <1>4, <1>6, <2>1 DEF left
<1> QED  BY <1>5, <1>6

(* A slot takes an event off the queue and reads the clock.                *)
LEMMA StartJobEffect ==
  ASSUME Shaped, NEW p \in Processors, StartJob(p)
  PROVE  /\ processor[p] = Free
         /\ \E e \in queue :
              /\ queue' = queue \ {e}
              /\ \E j \in StartedJob : /\ processor' = [processor EXCEPT ![p] = j]
                                       /\ j # Free /\ j.at = "started" /\ j.event = e /\ j.now = clock
         /\ UNCHANGED <<clock, row, scheduler, scheduledAt, overtaken, user, alerts, resets, counters>>
<1>1. PICK e \in queue :
        /\ queue' = queue \ {e}
        /\ processor' = [processor EXCEPT ![p] = [at |-> "started", event |-> e, now |-> clock]]
  BY DEF StartJob
<1>2. e \in Events /\ clock \in Time
  BY <1>1, MonitorConstants DEF Shaped, Time, Null
<1> DEFINE j == [at |-> "started", event |-> e, now |-> clock]
<1>3. j \in StartedJob /\ j # Free /\ j.at = "started" /\ j.event = e /\ j.now = clock
  BY <1>2 DEF StartedJob, Free
<1> HIDE DEF j
<1>4. processor' = [processor EXCEPT ![p] = j]
  BY <1>1 DEF j
<1> QED  BY <1>1, <1>3, <1>4 DEF StartJob

(* processor.ts: an alert goes out and is struck off the job's list; all   *)
(* else the job holds stays.                                               *)
LEMMA PublishAlertEffect ==
  ASSUME Shaped, NEW p \in Processors, NEW m \in MonitorIds, PublishAlert(p, m)
  PROVE  /\ Claimed(p) /\ m \in processor[p].todo /\ m \in Won(p)
         /\ alerts' = alerts \cup {Alert(p, m)}
         /\ \A q \in Processors \ {p} : processor'[q] = processor[q]
         /\ processor'[p] \in ClaimedJob(Won(p)) /\ processor' \in [Processors -> Jobs]
         /\ processor'[p].at = "claimed" /\ processor'[p].event = processor[p].event
         /\ processor'[p].now = processor[p].now /\ processor'[p].prev = processor[p].prev
         /\ processor'[p].outcome = processor[p].outcome
         /\ processor'[p].edition = processor[p].edition
         /\ processor'[p].todo = processor[p].todo \ {m}
         /\ UNCHANGED <<clock, row, scheduler, scheduledAt, overtaken, queue, user, resets, counters>>
<1>1. /\ Claimed(p) /\ m \in processor[p].todo
      /\ alerts' = alerts \cup {Alert(p, m)}
      /\ processor' = [processor EXCEPT ![p] = [processor[p] EXCEPT !.todo = processor[p].todo \ {m}]]
      /\ UNCHANGED <<clock, row, scheduler, scheduledAt, overtaken, queue, user, resets, counters>>
  BY DEF PublishAlert, Claimed
<1>2. processor[p] \in ClaimedJob(Won(p)) /\ Won(p) \in SUBSET MonitorIds /\ processor[p].todo \subseteq Won(p)
  BY <1>1, ClaimedTyped
<1> DEFINE j == [processor[p] EXCEPT !.todo = processor[p].todo \ {m}]
<1> HIDE DEF Won
<1>3. /\ j \in ClaimedJob(Won(p)) /\ j.at = "claimed" /\ j.event = processor[p].event
      /\ j.now = processor[p].now /\ j.prev = processor[p].prev
      /\ j.outcome = processor[p].outcome /\ j.edition = processor[p].edition
      /\ j.todo = processor[p].todo \ {m}
  BY <1>2 DEF ClaimedJob
<1>4. processor' = [processor EXCEPT ![p] = j]
  BY <1>1
<1> HIDE DEF j
<1>5. j \in Jobs
  BY <1>2, <1>3 DEF Jobs
<1>6. processor'[p] = j /\ processor' \in [Processors -> Jobs]
      /\ \A q \in Processors \ {p} : processor'[q] = processor[q]
  BY <1>4, <1>5 DEF Shaped
<1> QED  BY <1>1, <1>2, <1>3, <1>6

(* MonitorService.update: the row is written unless it was deleted, and    *)
(* its edition grows when the timestamps are cleared.                      *)
LEMMA UpdateWritesEffect ==
  ASSUME Shaped, NEW u \in Users, UpdateWrites(u)
  PROVE  LET m == user[u].monitor IN
         /\ user[u] \in Edits /\ user[u] # Free /\ m \in MonitorIds
         /\ user' = [user EXCEPT ![u] = Free]
         /\ \/ /\ Exists(m) /\ row' = [row EXCEPT ![m] = Updated(row[m], user[u])]
               /\ resets' = [resets EXCEPT ![m] = IF Restarts(user[u]) THEN resets[m] + 1 ELSE resets[m]]
            \/ ~Exists(m) /\ UNCHANGED <<row, resets>>
         /\ UNCHANGED <<clock, scheduler, scheduledAt, overtaken, queue, processor, alerts, counters>>
<1>1. user[u] \in Edits /\ user[u] # Free
  BY EditTyped DEF UpdateWrites
<1>2. user[u].monitor \in MonitorIds
  BY <1>1 DEF Edits
<1> QED  BY <1>1, <1>2, Zenon DEF UpdateWrites

(* MonitorService.create: a row appears with its batch id, and no          *)
(* timestamp.                                                              *)
LEMMA CreateEffect ==
  ASSUME Shaped, NEW m \in MonitorIds, Create(m)
  PROVE  /\ row[m].status = "ABSENT"
         /\ row' \in [MonitorIds -> Rows]
         /\ \A n \in MonitorIds \ {m} : row'[n] = row[n]
         /\ row'[m].status \in WriteStatuses /\ row'[m].batch = row'[m].shape
         /\ row'[m].severity = IF row'[m].status = "ACTIVE" THEN "UNKNOWN" ELSE "PAUSED"
         /\ row'[m].severityChangedAt = row[m].severityChangedAt
         /\ row'[m].nextRunAt = row[m].nextRunAt /\ row'[m].lastPublishedAt = row[m].lastPublishedAt
         /\ row'[m].lastClaimedAt = row[m].lastClaimedAt
         /\ row'[m].lastCompletedAt = row[m].lastCompletedAt /\ row'[m].alertedAt = row[m].alertedAt
         /\ UNCHANGED <<clock, scheduler, scheduledAt, overtaken, queue, processor, user, alerts, resets, counters>>
<1>1. PICK status \in WriteStatuses, shape \in Shapes :
        row' = [row EXCEPT ![m] =
                 [row[m] EXCEPT !.shape = shape, !.batch = shape, !.status = status,
                                !.severity = IF status = "ACTIVE" THEN "UNKNOWN" ELSE "PAUSED"]]
  BY DEF Create
<1> DEFINE r == [row[m] EXCEPT !.shape = shape, !.batch = shape, !.status = status,
                               !.severity = IF status = "ACTIVE" THEN "UNKNOWN" ELSE "PAUSED"]
<1>2. row \in [MonitorIds -> Rows] /\ row[m] \in Rows
  BY DEF Shaped
<1>3. /\ r \in Rows /\ r.status = status /\ r.batch = shape /\ r.shape = shape
      /\ r.severity = (IF status = "ACTIVE" THEN "UNKNOWN" ELSE "PAUSED")
      /\ r.severityChangedAt = row[m].severityChangedAt
      /\ r.nextRunAt = row[m].nextRunAt /\ r.lastPublishedAt = row[m].lastPublishedAt
      /\ r.lastClaimedAt = row[m].lastClaimedAt
      /\ r.lastCompletedAt = row[m].lastCompletedAt /\ r.alertedAt = row[m].alertedAt
  BY <1>1, <1>2 DEF Rows, WriteStatuses, Statuses, Severities
<1> HIDE DEF r
<1>4. row'[m] = r /\ row' \in [MonitorIds -> Rows] /\ \A n \in MonitorIds \ {m} : row'[n] = row[n]
  BY <1>1, <1>2, <1>3 DEF r
<1> QED  BY <1>1, <1>3, <1>4 DEF Create

(* scheduler.ts: what a tick makes of a due row, field by field.           *)
LEMMA PlannedRow ==
  ASSUME Shaped, NEW s \in Schedulers, NEW m \in MonitorIds
  PROVE  LET r == Planned(m, s)
             t == scheduler[s].tick
         IN  /\ r \in Rows /\ t \in Nat
             /\ r.nextRunAt = NextRunAt(t) /\ t < NextRunAt(t) /\ NextRunAt(t) <= t + Cadence
             /\ r.lastPublishedAt = IF m \in Publishes(s) THEN t ELSE row[m].lastPublishedAt
             /\ r.shape = row[m].shape /\ r.batch = row[m].batch /\ r.status = row[m].status
             /\ r.severity = row[m].severity /\ r.severityChangedAt = row[m].severityChangedAt
             /\ r.lastClaimedAt = row[m].lastClaimedAt
             /\ r.lastCompletedAt = row[m].lastCompletedAt /\ r.alertedAt = row[m].alertedAt
<1> DEFINE t == scheduler[s].tick
           published == IF m \in Publishes(s) THEN t ELSE row[m].lastPublishedAt
<1>1. t \in Time /\ t \in Nat
  BY MonitorConstants DEF Shaped, Ticks, Time, Null
<1>2. NextRunAt(t) \in Nat /\ t < NextRunAt(t) /\ NextRunAt(t) <= t + Cadence
  BY <1>1, NextRunLater
<1>3. row[m] \in Rows
  BY DEF Shaped
<1>4. published \in Time
  BY <1>1, <1>3 DEF Rows
<1>5. Planned(m, s) = [row[m] EXCEPT !.nextRunAt = NextRunAt(t), !.lastPublishedAt = published]
  BY <1>3 DEF Planned, Rows
<1> HIDE DEF published, t
<1>6. LET r == Planned(m, s) IN
         /\ r \in Rows /\ r.nextRunAt = NextRunAt(t) /\ r.lastPublishedAt = published
         /\ r.shape = row[m].shape /\ r.batch = row[m].batch /\ r.status = row[m].status
         /\ r.severity = row[m].severity /\ r.severityChangedAt = row[m].severityChangedAt
         /\ r.lastClaimedAt = row[m].lastClaimedAt
         /\ r.lastCompletedAt = row[m].lastCompletedAt /\ r.alertedAt = row[m].alertedAt
  BY <1>2, <1>3, <1>4, <1>5 DEF Rows
<1> QED  BY <1>1, <1>2, <1>6 DEF published, t

(* Every step keeps the types.                                             *)
LEMMA ShapedKept == ASSUME Shaped, Past, [Next]_vars PROVE Shaped'
<1> USE DEF counters
<1>1. ASSUME NEW s \in Schedulers, WakeUp(s) PROVE Shaped'
  <2>1. scheduler' = [scheduler EXCEPT ![s] = [scheduler[s] EXCEPT !.tick = clock]]
    BY <1>1 DEF WakeUp
  <2>2. [scheduler[s] EXCEPT !.tick = clock] \in Ticks
    BY MonitorConstants DEF Shaped, Ticks, Time, Null
  <2> QED  BY <1>1, <2>1, <2>2 DEF WakeUp, Shaped
<1>2. ASSUME NEW s \in Schedulers, Schedule(s) PROVE Shaped'
  <2>1. scheduler[s].tick \in Time
    BY DEF Shaped, Ticks
  <2>2. \A m \in MonitorIds : Planned(m, s) \in Rows
    BY PlannedRow
  <2>3. row' \in [MonitorIds -> Rows]
    BY <1>2, <2>2, ScheduleEffect DEF Shaped
  <2>4. PICK events \in SUBSET Events :
          scheduler' = [scheduler EXCEPT ![s] =
                                 IF events = {} THEN Waiting ELSE [scheduler[s] EXCEPT !.todo = events]]
    BY <1>2, ScheduleEffect
  <2>5. [scheduler[s] EXCEPT !.todo = events] \in Ticks
    BY DEF Shaped, Ticks
  <2>6. scheduler' \in [Schedulers -> Ticks]
    BY <2>4, <2>5, FreeTyped DEF Shaped
  <2>7. scheduledAt' \in 0..clock
    BY <1>2, <2>1, ScheduleEffect, MonitorConstants DEF Shaped, Past, TickPast, Time, Null
  <2>8. overtaken' \subseteq MonitorIds
    BY <1>2, ScheduleEffect DEF Shaped, Due
  <2> QED  BY <1>2, <2>3, <2>6, <2>7, <2>8, ScheduleEffect DEF Shaped
<1>3. ASSUME NEW s \in Schedulers, NEW e \in scheduler[s].todo,
             PublishEvent(s, e) \/ PublishEventFails(s, e) PROVE Shaped'
  <2>1. Published(s, e)
    BY <1>3 DEF PublishEvent, PublishEventFails
  <2>2. scheduler' \in [Schedulers -> Ticks] /\ e \in Events
    BY <2>1, PublishedEffect
  <2>3. failures' \in 0..MaxFailures /\ queue' \subseteq Events
    BY <1>3, <2>2, MonitorConstants DEF PublishEvent, PublishEventFails, Shaped
  <2> QED  BY <1>3, <2>2, <2>3 DEF PublishEvent, PublishEventFails, Shaped
<1>4. ASSUME NEW p \in Processors, StartJob(p) PROVE Shaped'
  <2>1. queue' \subseteq Events /\ processor' \in [Processors -> Jobs]
    BY <1>4, StartJobEffect DEF Shaped, Jobs
  <2> QED  BY <1>4, <2>1, StartJobEffect DEF Shaped
<1>5. ASSUME NEW p \in Processors, Claim(p) PROVE Shaped'
  <2>1. processor[p].now \in Time
    BY <1>5, ClaimEffect DEF StartedJob
  <2>2. \A m \in MonitorIds : [row[m] EXCEPT !.lastClaimedAt = processor[p].now] \in Rows
    BY <2>1 DEF Shaped, Rows
  <2>3. row' \in [MonitorIds -> Rows]
    BY <1>5, <2>2, ClaimEffect DEF Shaped
  <2>4. processor' \in [Processors -> Jobs]
    BY <1>5, ClaimEffect DEF Shaped
  <2> QED  BY <1>5, <2>3, <2>4, ClaimEffect DEF Shaped
<1>6. ASSUME NEW p \in Processors, Complete(p) PROVE Shaped'
  <2>1. row' \in [MonitorIds -> Rows]
    BY <1>6, CompleteEffect DEF Shaped
  <2>2. processor' \in [Processors -> Jobs]
    BY <1>6, CompleteEffect, FreeTyped DEF Shaped
  <2> QED  BY <1>6, <2>1, <2>2, CompleteEffect DEF Shaped
<1>7. ASSUME NEW p \in Processors, JobFails(p) PROVE Shaped'
  <2>1. processor' \in [Processors -> Jobs] /\ failures' \in 0..MaxFailures
    BY <1>7, FreeTyped, MonitorConstants DEF JobFails, Shaped
  <2> QED  BY <1>7, <2>1 DEF JobFails, Shaped
<1>8. ASSUME NEW p \in Processors, NEW m \in MonitorIds, PublishAlert(p, m) PROVE Shaped'
  <2>1. alerts' \subseteq Alerts /\ processor' \in [Processors -> Jobs]
    BY <1>8, PublishAlertEffect, AlertTyped DEF Shaped
  <2> QED  BY <1>8, <2>1, PublishAlertEffect DEF Shaped
<1>9. ASSUME NEW m \in MonitorIds, Create(m) PROVE Shaped'
  BY <1>9, CreateEffect DEF Shaped
<1>10. ASSUME NEW m \in MonitorIds, Delete(m) PROVE Shaped'
  <2>1. row' \in [MonitorIds -> Rows] /\ updates' \in 0..MaxUpdates
    BY <1>10, NoRowTyped, MonitorConstants DEF Delete, Shaped
  <2> QED  BY <1>10, <2>1 DEF Delete, Shaped
<1>11. ASSUME NEW u \in Users, UpdateReads(u) PROVE Shaped'
  <2>1. PICK m \in MonitorIds, status \in WriteStatuses \cup {"same"}, shape \in Shapes :
          user' = [user EXCEPT ![u] = [at |-> "read", monitor |-> m, status |-> status, shape |-> shape,
                                       wasStatus |-> row[m].status, wasBatch |-> row[m].batch]]
    BY <1>11 DEF UpdateReads
  <2>2. row[m].status \in Statuses /\ row[m].batch \in Shapes
    BY DEF Shaped, Rows
  <2>3. [at |-> "read", monitor |-> m, status |-> status, shape |-> shape,
         wasStatus |-> row[m].status, wasBatch |-> row[m].batch] \in Edits
    BY <2>2 DEF Edits
  <2>4. user' \in [Users -> {Free} \cup Edits] /\ updates' \in 0..MaxUpdates
    BY <1>11, <2>1, <2>3, MonitorConstants DEF UpdateReads, Shaped
  <2> QED  BY <1>11, <2>4 DEF UpdateReads, Shaped
<1>12. ASSUME NEW u \in Users, UpdateWrites(u) PROVE Shaped'
  <2>1. /\ user[u] \in Edits /\ user[u].monitor \in MonitorIds
        /\ Updated(row[user[u].monitor], user[u]) \in Rows
    BY <1>12, UpdateWritesEffect, UpdatedRow
  <2>2. row' \in [MonitorIds -> Rows]
    BY <1>12, <2>1, UpdateWritesEffect DEF Shaped
  <2>3. resets' \in [MonitorIds -> Nat]
    BY <1>12, <2>1, UpdateWritesEffect DEF Shaped
  <2>4. user' \in [Users -> {Free} \cup Edits]
    BY <1>12, UpdateWritesEffect DEF Shaped
  <2> QED  BY <1>12, <2>2, <2>3, <2>4, UpdateWritesEffect DEF Shaped
<1>13. ASSUME Tick PROVE Shaped'
  BY <1>13, MonitorConstants DEF Tick, Shaped
<1>14. ASSUME UNCHANGED vars PROVE Shaped'
  BY <1>14 DEF vars, Shaped
<1> QED  BY <1>1, <1>2, <1>3, <1>4, <1>5, <1>6, <1>7, <1>8, <1>9, <1>10, <1>11, <1>12, <1>13, <1>14
         DEF Next

-----------------------------------------------------------------------------

(* processor.ts: when an evaluation changes the severity, when it alerts,  *)
(* and which moments it writes.                                            *)
LEMMA DecideFacts ==
  ASSUME NEW m \in MonitorIds, NEW prev \in Rows, NEW value \in Values, NEW now \in Time,
         NEW c, c = Decide(m, prev, value, now)
  PROVE  /\ c \in Outcomes
         /\ c.severityChangedAt \in {prev.severityChangedAt, now}
         /\ c.alertedAt = IF c.emit THEN now ELSE prev.alertedAt
         /\ c.status = prev.status \/ (c.status = "ERROR_BAD_QUERY" /\ c.severity = "PAUSED")
         /\ prev.severity = "PAUSED" => c.severity = "PAUSED"
         /\ c.emit => c.severity # "PAUSED" /\ prev.severity # "PAUSED"
         /\ c.severity # prev.severity => c.severityChangedAt = now
         /\ c.severity = prev.severity /\ c.severity # "PAUSED" =>
              c.severityChangedAt = prev.severityChangedAt
         /\ c.severity # prev.severity /\ c.severity \in Breaching => c.emit
         /\ c.emit /\ c.severity = prev.severity /\ now # Null
              /\ prev.alertedAt <= now /\ prev.severityChangedAt <= now => prev.alertedAt < now
<1> DEFINE next == ComputeSeverity(m, prev.severity, value)
           emit == ShouldEmit(m, prev, next, now)
<1>1. c \in Outcomes
  BY DecideTyped
<1>2. /\ prev.severity \in Severities /\ prev.severityChangedAt \in Nat /\ prev.alertedAt \in Nat
      /\ now \in Nat
  BY MonitorConstants DEF Rows, Time, Null
<1>3. c = IF value = "ErrorBadQuery"
          THEN [emit |-> FALSE, status |-> "ERROR_BAD_QUERY", severity |-> "PAUSED",
                severityChangedAt |-> now, alertedAt |-> prev.alertedAt]
          ELSE IF prev.severity = "PAUSED"
          THEN [emit |-> FALSE, status |-> prev.status, severity |-> "PAUSED",
                severityChangedAt |-> prev.severityChangedAt, alertedAt |-> prev.alertedAt]
          ELSE [emit |-> emit, status |-> prev.status, severity |-> next,
                severityChangedAt |-> IF next # prev.severity THEN now ELSE prev.severityChangedAt,
                alertedAt |-> IF emit THEN now ELSE prev.alertedAt]
  BY DEF Decide
<1>4. value # "ErrorBadQuery" => next \in Compared \cup {"NO_DATA", prev.severity}
  BY MonitorConstants DEF ComputeSeverity
<1>5. next \in Breaching /\ next # prev.severity /\ prev.severity # "PAUSED" => emit
  BY <1>2 DEF ShouldEmit, Breaching, Compared, Severities
<1>6. emit /\ next = prev.severity => prev.severity # "UNKNOWN"
  BY DEF ShouldEmit, Breaching, Compared
<1>7. ASSUME emit, next = prev.severity, now # Null, prev.alertedAt <= now, prev.severityChangedAt <= now
      PROVE  prev.alertedAt < now
  <2>1. Renotify[m] \in Nat
    BY MonitorConstants
  <2>2. ASSUME NEW since \in Nat, Renotifies(m, since, now), since <= now PROVE since < now
    BY <1>2, <1>7, <2>1, <2>2 DEF Renotifies, PassedDelay, Null
  <2>3. \/ StretchAlertedAt(prev) = Null
        \/ Renotifies(m, StretchAlertedAt(prev), now)
        \/ next \in Breaching /\ prev.alertedAt # Null /\ Renotifies(m, prev.alertedAt, now)
    BY <1>7 DEF ShouldEmit, Breaching, Compared
  <2>4. StretchAlertedAt(prev) # Null => StretchAlertedAt(prev) = prev.alertedAt
    BY DEF StretchAlertedAt
  <2>5. StretchAlertedAt(prev) = Null => prev.alertedAt = Null \/ prev.alertedAt < prev.severityChangedAt
    BY DEF StretchAlertedAt
  <2> QED  BY <1>2, <1>7, <2>2, <2>3, <2>4, <2>5 DEF Null
<1> HIDE DEF next, emit
<1>8. CASE value = "ErrorBadQuery"
  BY <1>1, <1>3, <1>8 DEF Breaching
<1>9. CASE value # "ErrorBadQuery" /\ prev.severity = "PAUSED"
  BY <1>1, <1>3, <1>9 DEF Breaching
<1>10. CASE value # "ErrorBadQuery" /\ prev.severity # "PAUSED"
  <2>1. next # "PAUSED"
    BY <1>2, <1>4, <1>10 DEF Compared, Severities
  <2>2. /\ c.severity = next /\ (c.emit <=> emit) /\ c.status = prev.status
        /\ c.severityChangedAt = IF next # prev.severity THEN now ELSE prev.severityChangedAt
        /\ c.alertedAt = IF emit THEN now ELSE prev.alertedAt
    BY <1>3, <1>10
  <2> QED  BY <1>1, <1>5, <1>7, <1>10, <2>1, <2>2
<1> QED  BY <1>8, <1>9, <1>10

-----------------------------------------------------------------------------

(* The clock never goes back.                                              *)
LEMMA ClockGrows == ASSUME Shaped, Past, [Next]_vars PROVE clock' \in Nat /\ clock <= clock'
<1>1. clock \in Nat
  BY DEF Shaped
<1>2. clock' = clock \/ clock' = clock + 1
  BY DEF Next, vars, WakeUp, Schedule, PublishEvent, PublishEventFails, StartJob, Claim, Complete,
     JobFails, PublishAlert, Create, Delete, UpdateReads, UpdateWrites, Tick
<1> QED  BY <1>1, <1>2

(* No step writes a timestamp, but the next run, that lies ahead of the    *)
(* clock.                                                                  *)
LEMMA RowsPast == ASSUME Shaped, Past, [Next]_vars, NEW m \in MonitorIds PROVE RowPast(m)'
<1>1. clock \in Nat /\ clock' \in Nat /\ clock <= clock'
  BY ClockGrows DEF Shaped
<1>2. row[m] \in Rows /\ RowPast(m)
  BY DEF Shaped, Past
<1>3. /\ row[m].severityChangedAt \in Nat /\ row[m].lastPublishedAt \in Nat
      /\ row[m].lastClaimedAt \in Nat /\ row[m].lastCompletedAt \in Nat /\ row[m].alertedAt \in Nat
  BY <1>2, MonitorConstants DEF Rows, Time, Null
<1>4. ASSUME row'[m] = row[m] PROVE RowPast(m)'
  BY <1>1, <1>2, <1>3, <1>4 DEF RowPast
<1>5. ASSUME NEW s \in Schedulers, Schedule(s) PROVE RowPast(m)'
  <2>1. row'[m] = row[m] \/ row'[m] = Planned(m, s)
    BY <1>5, ScheduleEffect
  <2>2. scheduler[s].tick <= clock /\ scheduler[s].tick \in Nat /\ clock' = clock
    BY <1>5, ScheduleEffect, PlannedRow DEF Past, TickPast
  <2>3. CASE row'[m] = Planned(m, s)
    BY <1>2, <2>2, <2>3, PlannedRow DEF RowPast
  <2> QED  BY <1>4, <2>1, <2>3
<1>6. ASSUME NEW p \in Processors, Claim(p) PROVE RowPast(m)'
  <2>1. row'[m] = row[m] \/ row'[m] = [row[m] EXCEPT !.lastClaimedAt = processor[p].now]
    BY <1>6, ClaimEffect
  <2>2. processor[p] # Free /\ clock' = clock
    BY <1>6, ClaimEffect DEF StartedJob, Free
  <2>3. processor[p].now <= clock
    BY <2>2 DEF Past, JobPast, PublishedPast
  <2>4. CASE row'[m] = [row[m] EXCEPT !.lastClaimedAt = processor[p].now]
    BY <1>2, <2>2, <2>3, <2>4 DEF RowPast, Rows
  <2> QED  BY <1>4, <2>1, <2>4
<1>7. ASSUME NEW p \in Processors, Complete(p) PROVE RowPast(m)'
  <2>1. row'[m] = row[m] \/ (row'[m] = Completed(p, m) /\ m \in Won(p))
    BY <1>7, CompleteEffect
  <2>2. Claimed(p) /\ processor[p] # Free /\ clock' = clock
    BY <1>7, CompleteEffect, ClaimedTyped
  <2>3. processor[p].now <= clock /\ processor[p].now \in Time
    BY <2>2, ClaimedTyped DEF Past, JobPast, PublishedPast
  <2>4. CASE row'[m] = Completed(p, m) /\ m \in Won(p)
    <3>1. PICK value \in Values :
             processor[p].outcome[m] = Decide(m, processor[p].prev[m], value, processor[p].now)
      BY <2>2, <2>4 DEF Past, JobPast
    <3>2. processor[p].prev[m].severityChangedAt <= clock /\ processor[p].prev[m].alertedAt <= clock
      BY <2>2, <2>4 DEF Past, JobPast
    <3>3. processor[p].prev[m] \in Rows
      BY <2>2, <2>4, ClaimedTyped
    <3>4. processor[p].outcome[m].severityChangedAt <= clock /\ processor[p].outcome[m].alertedAt <= clock
      BY <2>3, <3>1, <3>2, <3>3, DecideFacts
    <3> QED  BY <1>2, <2>2, <2>3, <2>4, <3>4 DEF Completed, RowPast, Rows
  <2> QED  BY <1>4, <2>1, <2>4
<1>8. ASSUME NEW n \in MonitorIds, Create(n) PROVE RowPast(m)'
  <2>1. clock' = clock
    BY <1>8 DEF Create
  <2> QED  BY <1>2, <1>4, <1>8, <2>1, CreateEffect DEF RowPast
<1>9. ASSUME NEW n \in MonitorIds, Delete(n) PROVE RowPast(m)'
  <2>1. row'[m] = row[m] \/ row'[m] = Deleted
    BY <1>9 DEF Delete, Shaped
  <2>2. CASE row'[m] = Deleted
    BY <1>1, <2>2 DEF Deleted, NoRow, RowPast, Null
  <2> QED  BY <1>4, <2>1, <2>2
<1>10. ASSUME NEW u \in Users, UpdateWrites(u) PROVE RowPast(m)'
  <2>1. row'[m] = row[m] \/ (row'[m] = Updated(row[m], user[u]) /\ user[u] \in Edits)
    BY <1>10, UpdateWritesEffect DEF Shaped
  <2>2. CASE row'[m] = Updated(row[m], user[u]) /\ user[u] \in Edits
    BY <1>1, <1>2, <1>3, <2>2, UpdatedRow DEF RowPast, Null
  <2> QED  BY <1>4, <2>1, <2>2
<1>11. ASSUME row' = row PROVE RowPast(m)'
  BY <1>4, <1>11
<1>12. \/ row' = row
       \/ \E s \in Schedulers : Schedule(s)
       \/ \E p \in Processors : Claim(p) \/ Complete(p)
       \/ \E n \in MonitorIds : Create(n) \/ Delete(n)
       \/ \E u \in Users : UpdateWrites(u)
  BY DEF Next, vars, WakeUp, PublishEvent, PublishEventFails, StartJob, JobFails, PublishAlert,
     UpdateReads, Tick
<1> QED  BY <1>5, <1>6, <1>7, <1>8, <1>9, <1>10, <1>11, <1>12

(* No step leaves a tick, or an event, that lies ahead of the clock.       *)
LEMMA TicksPast ==
  ASSUME Shaped, Past, [Next]_vars
  PROVE  (\A s \in Schedulers : TickPast(s)') /\ (\A e \in queue' : PublishedPast(e)')
<1>1. clock \in Nat /\ clock' \in Nat /\ clock <= clock' /\ clock >= 1
  BY ClockGrows DEF Shaped
<1>2. /\ \A s \in Schedulers : TickPast(s) /\ scheduler[s].tick \in Nat
      /\ \A e \in queue : PublishedPast(e) /\ e.publishedAt \in Nat
  BY MonitorConstants DEF Past, Shaped, Ticks, Time, Null, Events
<1>3. (\A e \in queue : PublishedPast(e)') /\ (\A s \in Schedulers : scheduler'[s] = scheduler[s] => TickPast(s)')
  BY <1>1, <1>2 DEF TickPast, PublishedPast
<1>4. ASSUME NEW s \in Schedulers, WakeUp(s) PROVE \A t \in Schedulers : TickPast(t)'
  <2>1. scheduler'[s].tick = clock /\ scheduler'[s].todo = {} /\ clock' = clock
        /\ \A t \in Schedulers \ {s} : scheduler'[t] = scheduler[t]
    BY <1>4, FreeTyped DEF WakeUp, Shaped, Ticks
  <2> QED  BY <1>1, <1>3, <2>1 DEF TickPast
<1>5. ASSUME NEW s \in Schedulers, Schedule(s) PROVE \A t \in Schedulers : TickPast(t)'
  <2>1. PICK events \in SUBSET Events :
              /\ EventsOf(s, events)
              /\ scheduler' = [scheduler EXCEPT ![s] =
                                 IF events = {} THEN Waiting ELSE [scheduler[s] EXCEPT !.todo = events]]
    BY <1>5, ScheduleEffect
  <2>2. \A t \in Schedulers \ {s} : scheduler'[t] = scheduler[t]
    BY <2>1 DEF Shaped
  <2>3. scheduler'[s] = Waiting \/ (scheduler'[s].tick = scheduler[s].tick /\ scheduler'[s].todo = events)
    BY <2>1 DEF Shaped, Ticks
  <2>4. \A e \in events : e.publishedAt = scheduler[s].tick
    BY <2>1 DEF EventsOf
  <2>5. clock' = clock /\ scheduler[s].tick # Null
    BY <1>5, ScheduleEffect DEF Unrun
  <2>6. TickPast(s)'
    BY <1>1, <1>2, <2>3, <2>4, <2>5, FreeTyped DEF TickPast, Null
  <2> QED  BY <1>3, <2>2, <2>6
<1>6. ASSUME NEW s \in Schedulers, NEW e \in scheduler[s].todo, PublishEvent(s, e) \/ PublishEventFails(s, e)
      PROVE  (\A t \in Schedulers : TickPast(t)') /\ (\A f \in queue' : PublishedPast(f)')
  <2>1. Published(s, e) /\ clock' = clock /\ queue' \subseteq queue \cup {e}
    BY <1>6 DEF PublishEvent, PublishEventFails, counters
  <2>2. TickPast(s) /\ PublishedPast(e)
    BY <1>1, <1>2 DEF TickPast, PublishedPast, Null
  <2>3. TickPast(s)'
    BY <1>1, <1>2, <2>1, <2>2, PublishedEffect DEF TickPast, Null
  <2>4. PublishedPast(e)'
    BY <2>1, <2>2 DEF PublishedPast
  <2> QED  BY <1>3, <2>1, <2>3, <2>4, PublishedEffect
<1>7. ASSUME queue' \subseteq queue PROVE \A e \in queue' : PublishedPast(e)'
  BY <1>3, <1>7
<1>8. ASSUME scheduler' = scheduler PROVE \A s \in Schedulers : TickPast(s)'
  BY <1>3, <1>8
<1>9. \/ scheduler' = scheduler /\ queue' \subseteq queue
      \/ \E s \in Schedulers : (WakeUp(s) \/ Schedule(s)) /\ queue' \subseteq queue
      \/ \E s \in Schedulers : \E e \in scheduler[s].todo : PublishEvent(s, e) \/ PublishEventFails(s, e)
  BY DEF Next, vars, WakeUp, Schedule, StartJob, Claim, Complete, JobFails, PublishAlert, Create, Delete,
     UpdateReads, UpdateWrites, Tick
<1> QED  BY <1>4, <1>5, <1>6, <1>7, <1>8, <1>9

(* A job that stays as it was, or is over, keeps what holds of its time.   *)
LEMMA JobKept ==
  ASSUME Shaped, Past, [Next]_vars, NEW p \in Processors, processor'[p] \in {processor[p], Free}
  PROVE  JobPast(p)'
<1>1. clock \in Nat /\ clock' \in Nat /\ clock <= clock' /\ JobPast(p)
  BY ClockGrows DEF Shaped, Past
<1>2. CASE processor'[p] = Free
  BY <1>2 DEF JobPast, Claimed, Free
<1>3. CASE processor'[p] = processor[p]
  <2>1. /\ processor[p] # Free => processor[p].now \in Nat /\ processor[p].event.publishedAt \in Nat
        /\ Claimed(p) => \A m \in Won(p) : processor[p].prev[m].severityChangedAt \in Nat
                                           /\ processor[p].prev[m].alertedAt \in Nat
    BY WorkingTyped, ClaimedTyped, MonitorConstants DEF Events, Rows, Time, Null
  <2>2. Claimed(p)' = Claimed(p) /\ Won(p)' = Won(p)
    BY <1>3 DEF Claimed, Won
  <2>3. processor[p] # Free => processor[p].event.publishedAt \in 1..clock'
                               /\ processor[p].now \in processor[p].event.publishedAt..clock'
    BY <1>1, <2>1 DEF JobPast, PublishedPast
  <2>4. Claimed(p) =>
          /\ Won(p) \subseteq processor[p].event.monitors
          /\ \A m \in Won(p) :
               /\ processor[p].prev[m].status = "ACTIVE"
               /\ processor[p].prev[m].severityChangedAt <= clock' /\ processor[p].prev[m].alertedAt <= clock'
               /\ \E value \in Values :
                    processor[p].outcome[m] = Decide(m, processor[p].prev[m], value, processor[p].now)
               /\ m \in processor[p].todo => processor[p].outcome[m].emit
    BY <1>1, <2>1 DEF JobPast
  <2> QED  BY <1>3, <2>2, <2>3, <2>4 DEF JobPast, PublishedPast
<1> QED  BY <1>2, <1>3

(* Nor does a step leave a job with a moment yet to come, or with a row    *)
(* that its event does not name.                                           *)
LEMMA JobsPast == ASSUME Shaped, Past, [Next]_vars, NEW p \in Processors PROVE JobPast(p)'
<1>1. clock \in Nat /\ clock' \in Nat /\ clock <= clock'
  BY ClockGrows DEF Shaped
<1>2. ASSUME NEW q \in Processors, StartJob(q) PROVE JobPast(p)'
  <2>1. PICK e \in queue, j \in StartedJob :
          processor' = [processor EXCEPT ![q] = j] /\ j.at = "started" /\ j.event = e /\ j.now = clock
    BY <1>2, StartJobEffect
  <2>2. processor'[p] = processor[p] \/ processor'[p] = j
    BY <2>1 DEF Shaped
  <2>3. CASE processor'[p] = j
    <3>1. e.publishedAt \in 1..clock /\ clock' = clock
      BY <1>2, <2>1, StartJobEffect DEF Past, PublishedPast
    <3>2. j.now \in j.event.publishedAt..clock' /\ j.event.publishedAt \in 1..clock'
      BY <1>1, <2>1, <3>1
    <3> QED  BY <2>1, <2>3, <3>2 DEF JobPast, Claimed, PublishedPast
  <2> QED  BY <2>2, <2>3, JobKept
<1>3. ASSUME NEW q \in Processors, Claim(q) PROVE JobPast(p)'
  <2>1. PICK j \in Jobs : /\ processor' = [processor EXCEPT ![q] = j]
                          /\ \/ j = Free
                             \/ /\ ClaimOf(q, j, Claims(processor[q].event))
                                /\ j \in ClaimedJob(Claims(processor[q].event))
    BY <1>3, ClaimEffect
  <2>2. processor'[p] \in {processor[p], Free} \/ (processor'[p] = j /\ p = q /\ j # Free)
    BY <2>1 DEF Shaped
  <2>3. CASE processor'[p] = j /\ p = q /\ j # Free
    <3>1. /\ ClaimOf(p, j, Claims(processor[p].event)) /\ processor[p] \in StartedJob
          /\ clock' = clock
      BY <1>3, <2>1, <2>3, ClaimEffect
    <3>2. processor[p] # Free
      BY <3>1 DEF StartedJob, Free
    <3>3. PublishedPast(processor[p].event) /\ processor[p].now \in processor[p].event.publishedAt..clock
      BY <3>2 DEF Past, JobPast
    <3>4. j.event = processor[p].event /\ j.now = processor[p].now /\ DOMAIN j.prev = Claims(processor[p].event)
      BY <3>1 DEF ClaimOf
    <3>5. PublishedPast(processor[p].event)'
      <4>1. j.event.publishedAt \in 1..clock
        BY <3>3, <3>4 DEF PublishedPast
      <4> QED  BY <2>3, <3>1, <4>1 DEF PublishedPast
    <3>6. Won(p)' = Claims(processor[p].event)
      BY <2>3, <3>4 DEF Won
    <3>7. ASSUME NEW m \in Claims(processor[p].event)
          PROVE  /\ m \in processor[p].event.monitors
                 /\ row[m].status = "ACTIVE" /\ row[m].severityChangedAt <= clock /\ row[m].alertedAt <= clock
                 /\ j.prev[m] = row[m]
                 /\ \E value \in Values : j.outcome[m] = Decide(m, row[m], value, processor[p].now)
                 /\ m \in j.todo => j.outcome[m].emit
      <4>1. m \in processor[p].event.monitors /\ row[m].status = "ACTIVE"
        BY DEF Claims
      <4>2. m \in MonitorIds
        BY <3>2, <4>1, WorkingTyped DEF Events
      <4>3. RowPast(m)
        BY <4>2 DEF Past
      <4> QED  BY <3>1, <4>1, <4>3 DEF ClaimOf, RowPast
    <3>8. /\ processor'[p].event = processor[p].event /\ processor'[p].now = processor[p].now
          /\ processor'[p].prev = j.prev /\ processor'[p].outcome = j.outcome /\ processor'[p].todo = j.todo
      BY <2>3, <3>4
    <3>9. \A m \in Won(p)' :
            /\ m \in processor'[p].event.monitors
            /\ processor'[p].prev[m].status = "ACTIVE"
            /\ processor'[p].prev[m].severityChangedAt <= clock' /\ processor'[p].prev[m].alertedAt <= clock'
            /\ \E value \in Values :
                 processor'[p].outcome[m] = Decide(m, processor'[p].prev[m], value, processor'[p].now)
            /\ m \in processor'[p].todo => processor'[p].outcome[m].emit
      BY <3>1, <3>6, <3>7, <3>8
    <3> QED  BY <3>1, <3>3, <3>5, <3>8, <3>9 DEF JobPast
  <2> QED  BY <2>2, <2>3, JobKept
<1>4. ASSUME NEW q \in Processors, NEW n \in MonitorIds, PublishAlert(q, n) PROVE JobPast(p)'
  <2>1. processor'[p] = processor[p] \/ p = q
    BY <1>4, PublishAlertEffect
  <2>2. CASE p = q
    <3>1. /\ Claimed(p) /\ Claimed(p)' /\ Won(p)' = Won(p) /\ clock' = clock
          /\ processor'[p].event = processor[p].event /\ processor'[p].now = processor[p].now
          /\ processor'[p].prev = processor[p].prev /\ processor'[p].outcome = processor[p].outcome
          /\ processor'[p].todo \subseteq processor[p].todo
      BY <1>4, <2>2, PublishAlertEffect DEF Claimed, Won
    <3>2. JobPast(p) /\ processor[p] # Free
      BY <3>1, ClaimedTyped DEF Past
    <3>3. PublishedPast(processor[p].event)'
      BY <3>1, <3>2 DEF JobPast, PublishedPast
    <3>4. \A m \in Won(p)' :
            /\ m \in processor'[p].event.monitors
            /\ processor'[p].prev[m].status = "ACTIVE"
            /\ processor'[p].prev[m].severityChangedAt <= clock' /\ processor'[p].prev[m].alertedAt <= clock'
            /\ \E value \in Values :
                 processor'[p].outcome[m] = Decide(m, processor'[p].prev[m], value, processor'[p].now)
            /\ m \in processor'[p].todo => processor'[p].outcome[m].emit
      BY <3>1, <3>2 DEF JobPast
    <3>5. processor'[p].now \in processor'[p].event.publishedAt..clock'
      BY <3>1, <3>2 DEF JobPast
    <3> QED  BY <3>3, <3>4, <3>5 DEF JobPast
  <2> QED  BY <2>1, <2>2, JobKept
<1>5. ASSUME processor'[p] \in {processor[p], Free} PROVE JobPast(p)'
  BY <1>5, JobKept
<1>6. ASSUME NEW q \in Processors, Complete(q) \/ JobFails(q) PROVE processor'[p] \in {processor[p], Free}
  BY <1>6 DEF Complete, JobFails, Shaped
<1>7. \/ processor' = processor
      \/ \E q \in Processors : StartJob(q) \/ Claim(q) \/ Complete(q) \/ JobFails(q)
                               \/ \E n \in MonitorIds : PublishAlert(q, n)
  BY DEF Next, vars, WakeUp, Schedule, PublishEvent, PublishEventFails, Create, Delete, UpdateReads,
     UpdateWrites, Tick
<1> QED  BY <1>2, <1>3, <1>4, <1>5, <1>6, <1>7

(* Every step keeps the types and what they say of time.                   *)
LEMMA TypeKept == TypeInv /\ [Next]_vars => TypeInv'
  BY ShapedKept, RowsPast, TicksPast, JobsPast DEF TypeInv, Past

(* Alerts are never taken back.                                            *)
LEMMA AlertsKept == [Next]_vars => alerts \subseteq alerts'
  BY DEF Next, vars, WakeUp, Schedule, PublishEvent, PublishEventFails, StartJob, Claim, Complete,
     JobFails, PublishAlert, Create, Delete, UpdateReads, UpdateWrites, Tick

(* An alert that was published stays published.                            *)
LEMMA AlertedKept ==
  ASSUME [Next]_vars, NEW m, NEW severity, NEW since, Alerted(m, severity, since)
  PROVE  Alerted(m, severity, since)'
  BY AlertsKept DEF Alerted

(* BreachInv of one job.                                                   *)
BreachJob(p) ==
  Claimed(p) => \A m \in Won(p) : LET c == processor[p].outcome[m] IN
    c.severity \in Breaching =>
      \/ m \in processor[p].todo /\ c.severityChangedAt = processor[p].now
      \/ Alerted(m, c.severity, c.severityChangedAt)

(* processor.ts: a job that is about to write a breach has its alert to    *)
(* publish or has published it, or found it already alerted when it        *)
(* claimed.                                                                *)
LEMMA BreachInvKept ==
  ASSUME TypeInv, BreachInv, BreachAlerted, [Next]_vars, NEW p \in Processors
  PROVE  BreachJob(p)'
<1> USE DEF TypeInv
<1>1. BreachJob(p)
  BY DEF BreachInv, BreachJob
<1>2. ASSUME processor'[p] = Free PROVE BreachJob(p)'
  BY <1>2 DEF BreachJob, Claimed, Free
<1>3. ASSUME processor'[p] = processor[p] PROVE BreachJob(p)'
  <2>1. Claimed(p)' = Claimed(p) /\ Won(p)' = Won(p)
    BY <1>3 DEF Claimed, Won
  <2> QED  BY <1>1, <1>3, <2>1, AlertsKept DEF BreachJob, Alerted
<1>4. ASSUME NEW q \in Processors, StartJob(q) PROVE BreachJob(p)'
  <2>1. processor'[p] = processor[p] \/ processor'[p].at = "started"
    BY <1>4, StartJobEffect DEF Shaped
  <2> QED  BY <1>3, <2>1 DEF BreachJob, Claimed
<1>5. ASSUME NEW q \in Processors, Claim(q) PROVE BreachJob(p)'
  <2>1. PICK j \in Jobs : /\ processor' = [processor EXCEPT ![q] = j]
                          /\ \/ j = Free
                             \/ ClaimOf(q, j, Claims(processor[q].event))
    BY <1>5, ClaimEffect
  <2>2. processor'[p] \in {processor[p], Free} \/ (processor'[p] = j /\ p = q /\ j # Free)
    BY <2>1 DEF Shaped
  <2>3. CASE processor'[p] = j /\ p = q /\ j # Free
    <3> DEFINE won == Claims(processor[p].event)
    <3>1. ClaimOf(p, j, won) /\ processor[p] \in StartedJob
      BY <1>5, <2>1, <2>3, ClaimEffect
    <3>2. processor[p].now \in Time /\ won \subseteq MonitorIds
      BY <3>1 DEF StartedJob, Events, Claims
    <3>3. Won(p)' = won
      BY <2>3, <3>1 DEF Won, ClaimOf
    <3> HIDE DEF won
    <3>4. ASSUME NEW m \in won, j.outcome[m].severity \in Breaching
          PROVE  \/ m \in j.todo /\ j.outcome[m].severityChangedAt = j.now
                 \/ Alerted(m, j.outcome[m].severity, j.outcome[m].severityChangedAt)
      <4>1. PICK value \in Values : j.outcome[m] = Decide(m, row[m], value, processor[p].now)
        BY <3>1 DEF ClaimOf
      <4>2. row[m] \in Rows /\ m \in MonitorIds
        BY <3>2 DEF Shaped
      <4>3. j.now = processor[p].now /\ (j.outcome[m].emit => m \in j.todo)
        BY <3>1 DEF ClaimOf
      <4>4. CASE j.outcome[m].severity # row[m].severity
        BY <3>2, <3>4, <4>1, <4>2, <4>3, <4>4, DecideFacts
      <4>5. CASE j.outcome[m].severity = row[m].severity
        <5>1. j.outcome[m].severityChangedAt = row[m].severityChangedAt
          BY <3>2, <3>4, <4>1, <4>2, <4>5, DecideFacts DEF Breaching
        <5> QED  BY <3>4, <4>2, <4>5, <5>1 DEF BreachAlerted, Alerted
      <4> QED  BY <4>4, <4>5
    <3>5. processor'[p] = j /\ alerts' = alerts
      BY <1>5, <2>3, ClaimEffect
    <3> QED  BY <3>3, <3>4, <3>5 DEF BreachJob, Alerted
  <2> QED  BY <1>2, <1>3, <2>2, <2>3
<1>6. ASSUME NEW q \in Processors, NEW n \in MonitorIds, PublishAlert(q, n) PROVE BreachJob(p)'
  <2>1. CASE p # q
    BY <1>3, <1>6, <2>1, PublishAlertEffect
  <2>2. CASE p = q
    <3>1. /\ Claimed(p) /\ Claimed(p)' /\ Won(p)' = Won(p) /\ n \in Won(p)
          /\ processor'[p].now = processor[p].now
          /\ processor'[p].outcome = processor[p].outcome
          /\ processor'[p].todo = processor[p].todo \ {n}
          /\ alerts' = alerts \cup {Alert(p, n)}
      BY <1>6, <2>2, PublishAlertEffect DEF Claimed, Won
    <3>2. Alert(p, n).monitor = n /\ Alert(p, n).severity = processor[p].outcome[n].severity
          /\ Alert(p, n).now = processor[p].now
      BY <3>1, AlertTyped
    <3>3. ASSUME NEW m \in Won(p), processor[p].outcome[m].severity \in Breaching
          PROVE  \/ m \in processor'[p].todo /\ processor[p].outcome[m].severityChangedAt = processor[p].now
                 \/ \E a \in alerts' : /\ a.monitor = m /\ a.severity = processor[p].outcome[m].severity
                                       /\ a.now = processor[p].outcome[m].severityChangedAt
      BY <1>1, <3>1, <3>2, <3>3 DEF BreachJob, Alerted
    <3> QED  BY <3>1, <3>3 DEF BreachJob, Alerted
  <2> QED  BY <2>1, <2>2
<1>7. ASSUME NEW q \in Processors, Complete(q) \/ JobFails(q) PROVE processor'[p] \in {processor[p], Free}
  BY <1>7 DEF Complete, JobFails, Shaped
<1>8. \/ processor' = processor
      \/ \E q \in Processors : StartJob(q) \/ Claim(q) \/ Complete(q) \/ JobFails(q)
                               \/ \E n \in MonitorIds : PublishAlert(q, n)
  BY DEF Next, vars, WakeUp, Schedule, PublishEvent, PublishEventFails, Create, Delete, UpdateReads,
     UpdateWrites, Tick
<1> QED  BY <1>2, <1>3, <1>4, <1>5, <1>6, <1>7, <1>8

(* BreachAlerted of one monitor.                                           *)
Announced(m) ==
  row[m].severity \in Breaching => Alerted(m, row[m].severity, row[m].severityChangedAt)

(* processor.ts: the completion writes a breach only once its alert is     *)
(* out; no update and no schedule writes a breach at all.                  *)
LEMMA BreachAlertedKept ==
  ASSUME TypeInv, BreachInv, BreachAlerted, [Next]_vars, NEW m \in MonitorIds
  PROVE  Announced(m)'
<1> USE DEF TypeInv
<1>1. row[m] \in Rows /\ Announced(m)
  BY DEF Shaped, BreachAlerted, Announced, Alerted
<1>3. ASSUME row'[m].severity = row[m].severity, row'[m].severityChangedAt = row[m].severityChangedAt
      PROVE  Announced(m)'
  BY <1>1, <1>3, AlertsKept DEF Announced, Alerted
<1>4. ASSUME NEW s \in Schedulers, Schedule(s)
      PROVE  row'[m].severity = row[m].severity /\ row'[m].severityChangedAt = row[m].severityChangedAt
  BY <1>4, ScheduleEffect, PlannedRow
<1>5. ASSUME NEW p \in Processors, Claim(p)
      PROVE  row'[m].severity = row[m].severity /\ row'[m].severityChangedAt = row[m].severityChangedAt
  BY <1>1, <1>5, ClaimEffect DEF Rows
<1>6. ASSUME NEW p \in Processors, Complete(p)
      PROVE  Announced(m)'
  <2>1. row'[m] = row[m] \/ (row'[m] = Completed(p, m) /\ m \in Won(p))
    BY <1>6, CompleteEffect
  <2>2. CASE row'[m] = Completed(p, m) /\ m \in Won(p)
    <3>1. /\ row'[m].severity = processor[p].outcome[m].severity
          /\ row'[m].severityChangedAt = processor[p].outcome[m].severityChangedAt
      BY <1>1, <2>2 DEF Completed, Rows
    <3>2. Claimed(p) /\ m \notin processor[p].todo
      BY <1>6, CompleteEffect
    <3>3. processor[p].outcome[m].severity \in Breaching =>
            Alerted(m, processor[p].outcome[m].severity, processor[p].outcome[m].severityChangedAt)
      BY <2>2, <3>2 DEF BreachInv
    <3> QED  BY <3>1, <3>3, AlertsKept DEF Announced, Alerted
  <2> QED  BY <1>3, <2>1, <2>2
<1>7. ASSUME NEW n \in MonitorIds, Create(n) \/ Delete(n)
      PROVE  Announced(m)'
  <2>1. CASE Create(n)
    BY <1>3, <2>1, CreateEffect DEF Announced, Breaching
  <2>2. CASE Delete(n)
    <3>1. row'[m] = row[m] \/ row'[m] = Deleted
      BY <2>2 DEF Delete, Shaped
    <3> QED  BY <1>3, <3>1 DEF Announced, Deleted, NoRow, Breaching
  <2> QED  BY <1>7, <2>1, <2>2
<1>8. ASSUME NEW u \in Users, UpdateWrites(u)
      PROVE  Announced(m)'
  <2>1. row'[m] = row[m] \/ (row'[m] = Updated(row[m], user[u]) /\ user[u] \in Edits)
    BY <1>8, UpdateWritesEffect DEF Shaped
  <2> QED  BY <1>3, <2>1, UpdatedRow DEF Announced, Breaching
<1>9. \/ row' = row
      \/ \E s \in Schedulers : Schedule(s)
      \/ \E p \in Processors : Claim(p) \/ Complete(p)
      \/ \E n \in MonitorIds : Create(n) \/ Delete(n)
      \/ \E u \in Users : UpdateWrites(u)
  BY DEF Next, vars, WakeUp, PublishEvent, PublishEventFails, StartJob, JobFails, PublishAlert,
     UpdateReads, Tick
<1> QED  BY <1>3, <1>4, <1>5, <1>6, <1>7, <1>8, <1>9

(* The monitors table, schedulers, events, jobs and edits have their       *)
(* types; no timestamp lies ahead of the clock, and a job holds outcomes   *)
(* for nothing but the rows of its event. However many schedulers,         *)
(* processors and users there are.                                         *)
THEOREM MonitorsTyped == Spec => []TypeOK
<1>1. TypeInv => TypeOK
  <2> SUFFICES ASSUME TypeInv PROVE TypeOK
    OBVIOUS
  <2>1. \A m \in MonitorIds :
         \A f \in DOMAIN NoRow \ {"shape", "batch", "status", "severity", "nextRunAt"} : row[m][f] <= clock
    <3>1. DOMAIN NoRow \ {"shape", "batch", "status", "severity", "nextRunAt"}
            = {"severityChangedAt", "lastPublishedAt", "lastClaimedAt", "lastCompletedAt", "alertedAt"}
      BY DEF NoRow
    <3>2. ASSUME NEW m \in MonitorIds,
                 NEW f \in {"severityChangedAt", "lastPublishedAt", "lastClaimedAt", "lastCompletedAt", "alertedAt"}
          PROVE  row[m][f] <= clock
      <4>1. RowPast(m)
        BY DEF TypeInv, Past
      <4> QED  BY <4>1 DEF RowPast
    <3> QED  BY <3>1, <3>2
  <2>2. \A s \in Schedulers : scheduler[s].tick \in 0..clock /\ scheduler[s].todo \subseteq Events
    <3>1. \A s \in Schedulers : scheduler[s].tick \in Nat /\ scheduler[s].todo \subseteq Events
      BY MonitorConstants DEF TypeInv, Shaped, Ticks, Time, Null
    <3> QED  BY <3>1 DEF TypeInv, Past, TickPast
  <2>3. ASSUME NEW p \in Processors
        PROVE  \/ processor[p] = Free
               \/ /\ processor[p].event \in Events
                  /\ processor[p].now \in processor[p].event.publishedAt..clock
    BY WorkingTyped DEF TypeInv, Past, JobPast
  <2>4. ASSUME NEW p \in Processors, processor[p].at = "claimed"
        PROVE  /\ processor[p].todo \subseteq DOMAIN processor[p].outcome
               /\ DOMAIN processor[p].outcome = DOMAIN processor[p].prev
               /\ DOMAIN processor[p].outcome \subseteq processor[p].event.monitors
    <3>1. Claimed(p)
      BY <2>4 DEF Claimed
    <3>2. DOMAIN processor[p].outcome = Won(p) /\ processor[p].todo \subseteq Won(p)
      BY <3>1, ClaimedTyped DEF TypeInv
    <3>3. Won(p) \subseteq processor[p].event.monitors
      BY <3>1 DEF TypeInv, Past, JobPast
    <3> QED  BY <3>2, <3>3 DEF Won
  <2>5. /\ clock \in 1..MaxClock /\ row \in [MonitorIds -> Rows] /\ scheduledAt \in 0..clock
        /\ overtaken \subseteq MonitorIds
        /\ queue \subseteq Events /\ late <= MaxLate /\ failures <= MaxFailures /\ updates <= MaxUpdates
    BY MonitorConstants DEF TypeInv, Shaped
  <2> QED  BY <2>1, <2>2, <2>3, <2>4, <2>5 DEF TypeOK
<1> QED  BY <1>1, InitShaped, TypeKept, PTL DEF Spec

(* processor.ts publishes an alert before it writes the row: a monitor     *)
(* shows WARNING or ALERT only when the alert of that crossing is on the   *)
(* webhook queue, whichever job fails in between. However many schedulers, *)
(* processors and users there are.                                         *)
THEOREM BreachesAreAlerted == Spec => []BreachAlerted
<1>1. Init => TypeInv /\ BreachInv /\ BreachAlerted
  <2>1. Init => BreachAlerted
    BY DEF Init, Idle, NoRow, BreachAlerted, Breaching
  <2> QED  BY <2>1, InitShaped
<1>2. TypeInv /\ BreachInv /\ BreachAlerted /\ [Next]_vars => TypeInv' /\ BreachInv' /\ BreachAlerted'
  <2> SUFFICES ASSUME TypeInv, BreachInv, BreachAlerted, [Next]_vars
               PROVE  TypeInv' /\ BreachInv' /\ BreachAlerted'
    OBVIOUS
  <2>1. BreachInv'
    BY BreachInvKept DEF BreachInv, BreachJob
  <2>2. BreachAlerted'
    BY BreachAlertedKept DEF BreachAlerted, Announced, Alerted
  <2> QED  BY <2>1, <2>2, TypeKept
<1> QED  BY <1>1, <1>2, PTL DEF Spec

-----------------------------------------------------------------------------
(* Where events are.                                                       *)

(* An event that is live is with a scheduler, in the queue or with a job.  *)
LEMMA LivePlaces ==
  ASSUME NEW e \in Live
  PROVE  \/ \E s \in Schedulers : e \in scheduler[s].todo
         \/ e \in queue
         \/ \E p \in Processors : processor[p] # Free /\ e = processor[p].event
  BY DEF Live

(* And conversely.                                                         *)
LEMMA PlacesLive ==
  ASSUME TypeInv
  PROVE  /\ \A s \in Schedulers : \A e \in scheduler[s].todo : e \in Live
         /\ \A e \in queue : e \in Live
         /\ \A p \in Processors : processor[p] # Free => processor[p].event \in Live
<1> USE DEF TypeInv
<1>1. \A s \in Schedulers : scheduler[s].todo \subseteq Events
  BY DEF Shaped, Ticks
<1>2. \A p \in Processors : processor[p] # Free => processor[p].event \in Events
  BY WorkingTyped
<1> QED  BY <1>1, <1>2 DEF Live, Shaped

(* A live event was published at some moment of the past, for monitors.    *)
LEMMA LiveTyped ==
  ASSUME TypeInv, NEW e \in Live
  PROVE  e \in Events /\ e.publishedAt \in Nat /\ e.publishedAt # Null /\ e.publishedAt <= clock
         /\ e.monitors \subseteq MonitorIds
<1> USE DEF TypeInv
<1>1. ASSUME e \in Events, PublishedPast(e) PROVE e.publishedAt \in Nat /\ e.publishedAt # Null
               /\ e.publishedAt <= clock /\ e.monitors \subseteq MonitorIds
  BY <1>1, MonitorConstants DEF Events, Time, Null, PublishedPast, Shaped
<1>2. ASSUME NEW s \in Schedulers, e \in scheduler[s].todo PROVE e \in Events /\ PublishedPast(e)
  <2>1. scheduler[s].tick \in Nat /\ scheduler[s].todo \subseteq Events
    BY MonitorConstants DEF Shaped, Ticks, Time, Null
  <2> QED  BY <1>2, <2>1 DEF Past, TickPast, PublishedPast, Null, Shaped
<1>3. ASSUME NEW p \in Processors, processor[p] # Free, e = processor[p].event PROVE e \in Events /\ PublishedPast(e)
  BY <1>3, WorkingTyped DEF Past, JobPast
<1>4. e \in queue => e \in Events /\ PublishedPast(e)
  BY DEF Past, Shaped
<1> QED  BY <1>1, <1>2, <1>3, <1>4, LivePlaces

(* A step leaves a job its event and its moment, ends it, or starts it.    *)
LEMMA EventsKept ==
  ASSUME TypeInv, [Next]_vars, NEW p \in Processors
  PROVE  \/ processor'[p] = Free
         \/ processor[p] # Free /\ processor'[p] # Free /\ processor'[p].event = processor[p].event
            /\ processor'[p].now = processor[p].now
         \/ processor[p] = Free /\ StartJob(p)
<1> USE DEF TypeInv
<1>1. ASSUME NEW q \in Processors, StartJob(q) PROVE processor'[p] = processor[p] \/ p = q
  BY <1>1, StartJobEffect DEF Shaped
<1>2. ASSUME NEW q \in Processors, Claim(q)
      PROVE  \/ processor'[p] \in {processor[p], Free}
             \/ processor[p] # Free /\ processor'[p] # Free /\ processor'[p].event = processor[p].event
                /\ processor'[p].now = processor[p].now
  <2>1. PICK j \in Jobs : /\ processor' = [processor EXCEPT ![q] = j]
                          /\ j = Free \/ ClaimOf(q, j, Claims(processor[q].event))
    BY <1>2, ClaimEffect
  <2>2. processor'[p] = processor[p] \/ (p = q /\ processor'[p] = j)
    BY <2>1 DEF Shaped
  <2>3. processor[q] # Free
    BY <1>2, ClaimEffect DEF StartedJob, Free
  <2>4. ClaimOf(q, j, Claims(processor[q].event)) => j # Free
    BY DEF ClaimOf, Free
  <2> QED  BY <2>1, <2>2, <2>3, <2>4 DEF ClaimOf
<1>3. ASSUME NEW q \in Processors, NEW m \in MonitorIds, PublishAlert(q, m)
      PROVE  \/ processor'[p] = processor[p]
             \/ processor[p] # Free /\ processor'[p] # Free /\ processor'[p].event = processor[p].event
                /\ processor'[p].now = processor[p].now
  <2>1. processor[q] # Free /\ processor'[q] # Free
    BY <1>3, PublishAlertEffect, ClaimedTyped DEF Free
  <2> QED  BY <1>3, <2>1, PublishAlertEffect
<1>4. ASSUME NEW q \in Processors, Complete(q) \/ JobFails(q) PROVE processor'[p] \in {processor[p], Free}
  BY <1>4 DEF Complete, JobFails, Shaped
<1>5. \/ processor' = processor
      \/ \E q \in Processors : StartJob(q) \/ Claim(q) \/ Complete(q) \/ JobFails(q)
                               \/ \E n \in MonitorIds : PublishAlert(q, n)
  BY DEF Next, vars, WakeUp, Schedule, PublishEvent, PublishEventFails, Create, Delete, UpdateReads,
     UpdateWrites, Tick
<1>6. ASSUME NEW q \in Processors, StartJob(q) PROVE processor[q] = Free
  BY <1>6, StartJobEffect
<1> QED  BY <1>1, <1>2, <1>3, <1>4, <1>5, <1>6

(* Events are published by a tick, move on from a scheduler to the queue   *)
(* and to a job, and are gone.                                             *)
EventsMove ==
  \/ /\ \A s \in Schedulers : scheduler'[s].todo = scheduler[s].todo
     /\ queue' = queue
     /\ \A p \in Processors : processor'[p] # Free =>
          processor[p] # Free /\ processor'[p].event = processor[p].event
  \/ \E s \in Schedulers : \E events \in SUBSET Events :
       /\ Schedule(s) /\ EventsOf(s, events)
       /\ scheduler[s].todo = {} /\ scheduler'[s].todo = events
       /\ scheduler'[s].tick = IF events = {} THEN Null ELSE scheduler[s].tick
       /\ \A t \in Schedulers \ {s} : scheduler'[t] = scheduler[t]
       /\ queue' = queue /\ processor' = processor
  \/ \E s \in Schedulers : \E e \in scheduler[s].todo :
       /\ scheduler'[s].todo = scheduler[s].todo \ {e}
       /\ \A t \in Schedulers \ {s} : scheduler'[t] = scheduler[t]
       /\ queue' \in {queue, queue \cup {e}} /\ processor' = processor
  \/ \E p \in Processors : \E e \in queue :
       /\ queue' = queue \ {e} /\ scheduler' = scheduler
       /\ processor[p] = Free /\ processor'[p] # Free /\ processor'[p].event = e
       /\ processor'[p].now = clock
       /\ \A q \in Processors \ {p} : processor'[q] = processor[q]

(* Every step moves the events as EventsMove says.                         *)
LEMMA AllEventsMove == ASSUME TypeInv, [Next]_vars PROVE EventsMove
<1> USE DEF TypeInv
<1>1. ASSUME NEW s \in Schedulers, WakeUp(s) PROVE EventsMove
  <2>1. \A t \in Schedulers : scheduler'[t].todo = scheduler[t].todo
    BY <1>1, FreeTyped DEF WakeUp, Shaped, Ticks
  <2> QED  BY <1>1, <2>1 DEF WakeUp, EventsMove
<1>2. ASSUME NEW s \in Schedulers, Schedule(s) PROVE EventsMove
  <2>1. PICK events \in SUBSET Events :
              /\ EventsOf(s, events)
              /\ scheduler' = [scheduler EXCEPT ![s] =
                                 IF events = {} THEN Waiting ELSE [scheduler[s] EXCEPT !.todo = events]]
    BY <1>2, ScheduleEffect
  <2>2. \A t \in Schedulers \ {s} : scheduler'[t] = scheduler[t]
    BY <2>1 DEF Shaped
  <2>3. scheduler'[s] = IF events = {} THEN Waiting ELSE [scheduler[s] EXCEPT !.todo = events]
    BY <2>1 DEF Shaped
  <2>4. /\ scheduler'[s].todo = events
        /\ scheduler'[s].tick = IF events = {} THEN Null ELSE scheduler[s].tick
    BY <2>3, FreeTyped DEF Shaped, Ticks
  <2>5. scheduler[s].todo = {} /\ queue' = queue /\ processor' = processor
    BY <1>2, ScheduleEffect DEF Unrun
  <2> QED  BY <1>2, <2>1, <2>2, <2>4, <2>5 DEF EventsMove
<1>3. ASSUME NEW s \in Schedulers, NEW e \in scheduler[s].todo, PublishEvent(s, e) \/ PublishEventFails(s, e)
      PROVE  EventsMove
  <2>1. Published(s, e) /\ queue' \in {queue, queue \cup {e}} /\ processor' = processor
    BY <1>3 DEF PublishEvent, PublishEventFails
  <2> QED  BY <2>1, PublishedEffect DEF EventsMove
<1>4. ASSUME NEW p \in Processors, StartJob(p) PROVE EventsMove
  <2>1. PICK e \in queue :
              /\ queue' = queue \ {e}
              /\ \E j \in StartedJob : /\ processor' = [processor EXCEPT ![p] = j]
                                       /\ j # Free /\ j.event = e /\ j.now = clock
    BY <1>4, StartJobEffect
  <2>2. /\ processor'[p] # Free /\ processor'[p].event = e /\ processor'[p].now = clock
        /\ \A q \in Processors \ {p} : processor'[q] = processor[q]
    BY <2>1 DEF Shaped
  <2> QED  BY <1>4, <2>1, <2>2, StartJobEffect DEF EventsMove
<1>5. ASSUME UNCHANGED <<scheduler, queue>>, \A p \in Processors : ~StartJob(p) PROVE EventsMove
  BY <1>5, EventsKept DEF EventsMove
<1>6. \/ UNCHANGED <<scheduler, queue>> /\ \A p \in Processors : ~StartJob(p)
      \/ \E s \in Schedulers : \/ WakeUp(s) \/ Schedule(s)
                               \/ \E e \in scheduler[s].todo : PublishEvent(s, e) \/ PublishEventFails(s, e)
      \/ \E p \in Processors : StartJob(p)
  BY DEF Next, vars, StartJob, Claim, Complete, JobFails, PublishAlert, Create, Delete, UpdateReads,
     UpdateWrites, Tick
<1> QED  BY <1>1, <1>2, <1>3, <1>4, <1>5, <1>6

(* What a step may make of a row.                                          *)
RowMove(m) ==
  \/ row'[m] = row[m]
  \/ \E s \in Schedulers :
       Schedule(s) /\ m \in Due(scheduler[s].tick) /\ row'[m] = Planned(m, s)
  \/ \E p \in Processors :
       /\ Claim(p) /\ m \in Claims(processor[p].event)
       /\ row'[m] = [row[m] EXCEPT !.lastClaimedAt = processor[p].now]
  \/ \E p \in Processors :
       Complete(p) /\ Lands(p, m) /\ m \in Won(p) /\ row'[m] = Completed(p, m)
  \/ Create(m)
  \/ \E u \in Users :
       /\ UpdateWrites(u) /\ user[u] \in Edits /\ user[u].monitor = m /\ Exists(m)
       /\ row'[m] = Updated(row[m], user[u])
  \/ Delete(m) /\ row'[m] = Deleted

(* Every step does to a row what RowMove says.                             *)
LEMMA RowMoves == ASSUME TypeInv, [Next]_vars, NEW m \in MonitorIds PROVE RowMove(m)
<1>1. Shaped /\ row \in [MonitorIds -> Rows]
  BY DEF TypeInv, Shaped
<1>2. ASSUME NEW s \in Schedulers, Schedule(s) PROVE RowMove(m)
  BY <1>1, <1>2, ScheduleEffect DEF RowMove
<1>3. ASSUME NEW p \in Processors, Claim(p) PROVE RowMove(m)
  BY <1>1, <1>3, ClaimEffect DEF RowMove
<1>4. ASSUME NEW p \in Processors, Complete(p) PROVE RowMove(m)
  BY <1>1, <1>4, CompleteEffect DEF RowMove
<1>5. ASSUME NEW n \in MonitorIds, Create(n) PROVE RowMove(m)
  BY <1>1, <1>5, CreateEffect DEF RowMove
<1>6. ASSUME NEW n \in MonitorIds, Delete(n) PROVE RowMove(m)
  BY <1>1, <1>6 DEF Delete, RowMove
<1>7. ASSUME NEW u \in Users, UpdateWrites(u) PROVE RowMove(m)
  BY <1>1, <1>7, UpdateWritesEffect DEF RowMove
<1>8. ASSUME row' = row PROVE RowMove(m)
  BY <1>8 DEF RowMove
<1>9. \/ row' = row
      \/ \E s \in Schedulers : Schedule(s)
      \/ \E p \in Processors : Claim(p) \/ Complete(p)
      \/ \E n \in MonitorIds : Create(n) \/ Delete(n)
      \/ \E u \in Users : UpdateWrites(u)
  BY DEF Next, vars, WakeUp, PublishEvent, PublishEventFails, StartJob, JobFails, PublishAlert,
     UpdateReads, Tick
<1> QED  BY <1>2, <1>3, <1>4, <1>5, <1>6, <1>7, <1>8, <1>9

(* The fields of a row that was claimed.                                   *)
LEMMA ClaimedRow ==
  ASSUME TypeInv, NEW m \in MonitorIds, NEW now
  PROVE  LET r == [row[m] EXCEPT !.lastClaimedAt = now] IN
         /\ r.shape = row[m].shape /\ r.batch = row[m].batch /\ r.status = row[m].status
         /\ r.severity = row[m].severity /\ r.severityChangedAt = row[m].severityChangedAt
         /\ r.nextRunAt = row[m].nextRunAt /\ r.lastPublishedAt = row[m].lastPublishedAt
         /\ r.lastClaimedAt = now
         /\ r.lastCompletedAt = row[m].lastCompletedAt /\ r.alertedAt = row[m].alertedAt
<1>1. row[m] \in Rows
  BY DEF TypeInv, Shaped
<1> QED  BY <1>1 DEF Rows

(* The fields of a row that was completed.                                 *)
LEMMA CompletedRow ==
  ASSUME TypeInv, NEW p \in Processors, NEW m \in MonitorIds
  PROVE  LET r == Completed(p, m)
             c == processor[p].outcome[m]
         IN
         /\ r.shape = row[m].shape /\ r.batch = row[m].batch /\ r.status = c.status
         /\ r.severity = c.severity /\ r.severityChangedAt = c.severityChangedAt
         /\ r.nextRunAt = row[m].nextRunAt /\ r.lastPublishedAt = row[m].lastPublishedAt
         /\ r.lastClaimedAt = row[m].lastClaimedAt
         /\ r.lastCompletedAt = processor[p].now /\ r.alertedAt = c.alertedAt
<1>1. row[m] \in Rows
  BY DEF TypeInv, Shaped
<1> QED  BY <1>1 DEF Rows, Completed

(* The fields of a row that was deleted.                                   *)
LEMMA DeletedRow ==
  /\ Deleted.status = "DELETED" /\ Deleted.severity = "UNKNOWN" /\ Deleted.batch = Deleted.shape
  /\ Deleted.lastPublishedAt = Null /\ Deleted.nextRunAt = Null /\ Deleted.lastCompletedAt = Null
  /\ Deleted.severityChangedAt = Null /\ Deleted.alertedAt = Null
  BY DEF Deleted, NoRow

(* An outcome was decided from a row that was ACTIVE when it was claimed.  *)
LEMMA OutcomeFacts ==
  ASSUME TypeInv, NEW p \in Processors, Claimed(p), NEW m \in Won(p)
  PROVE  /\ m \in MonitorIds /\ m \in processor[p].event.monitors
         /\ processor[p].prev[m] \in Rows /\ processor[p].prev[m].status = "ACTIVE"
         /\ processor[p].outcome[m] \in Outcomes
         /\ \/ processor[p].outcome[m].status = "ACTIVE"
            \/ processor[p].outcome[m].status = "ERROR_BAD_QUERY"
               /\ processor[p].outcome[m].severity = "PAUSED"
         /\ \E value \in Values :
              processor[p].outcome[m] = Decide(m, processor[p].prev[m], value, processor[p].now)
<1>1. Shaped /\ JobPast(p)
  BY DEF TypeInv, Past
<1>2. /\ processor[p].prev[m] \in Rows /\ processor[p].outcome[m] \in Outcomes
      /\ processor[p].now \in Time /\ m \in MonitorIds
  BY <1>1, ClaimedTyped
<1>3. PICK value \in Values :
        processor[p].outcome[m] = Decide(m, processor[p].prev[m], value, processor[p].now)
  BY <1>1 DEF JobPast
<1>4. processor[p].prev[m].status = "ACTIVE" /\ m \in processor[p].event.monitors
  BY <1>1 DEF JobPast
<1> QED  BY <1>2, <1>3, <1>4, DecideFacts

(* The last publication of a row is a tick, or what it was, or nothing.    *)
LEMMA LastPublishedMoves ==
  ASSUME TypeInv, [Next]_vars, NEW m \in MonitorIds
  PROVE  \/ row'[m].lastPublishedAt \in {row[m].lastPublishedAt, Null}
         \/ \E s \in Schedulers : /\ Schedule(s) /\ m \in Publishes(s)
                                  /\ row'[m].lastPublishedAt = scheduler[s].tick
<1>1. Shaped
  BY DEF TypeInv
<1>2. RowMove(m)
  BY RowMoves
<1>3. ASSUME NEW s \in Schedulers, Schedule(s), row'[m] = Planned(m, s)
      PROVE  \/ row'[m].lastPublishedAt = row[m].lastPublishedAt
             \/ m \in Publishes(s) /\ row'[m].lastPublishedAt = scheduler[s].tick
  BY <1>1, <1>3, PlannedRow
<1>4. ASSUME NEW p \in Processors, row'[m] = Completed(p, m)
      PROVE  row'[m].lastPublishedAt = row[m].lastPublishedAt
  BY <1>4, CompletedRow
<1>5. ASSUME NEW now, row'[m] = [row[m] EXCEPT !.lastClaimedAt = now]
      PROVE  row'[m].lastPublishedAt = row[m].lastPublishedAt
  BY <1>5, ClaimedRow
<1>6. ASSUME Create(m) PROVE row'[m].lastPublishedAt = row[m].lastPublishedAt
  BY <1>1, <1>6, CreateEffect
<1>7. ASSUME NEW u \in Users, user[u] \in Edits, row'[m] = Updated(row[m], user[u])
      PROVE  row'[m].lastPublishedAt \in {row[m].lastPublishedAt, Null}
  BY <1>1, <1>7, UpdatedRow
<1> QED  BY <1>2, <1>3, <1>4, <1>5, <1>6, <1>7, DeletedRow DEF RowMove

(* An event that a step adds is of the tick that runs.                     *)
LEMMA LiveMoves ==
  ASSUME TypeInv, [Next]_vars, TypeInv', NEW e \in Live'
  PROVE  \/ e \in Live
         \/ \E s \in Schedulers :
              Schedule(s) /\ EventsOf(s, scheduler'[s].todo) /\ e \in scheduler'[s].todo
<1>1. EventsMove
  BY AllEventsMove
<1>2. \/ \E s \in Schedulers : e \in scheduler'[s].todo
      \/ e \in queue'
      \/ \E p \in Processors : processor'[p] # Free /\ e = processor'[p].event
  BY DEF Live
<1>3. e \in Events
  BY DEF Live
<1>4. /\ \A s \in Schedulers : \A f \in scheduler[s].todo : f \in Live
      /\ \A f \in queue : f \in Live
      /\ \A p \in Processors : processor[p] # Free => processor[p].event \in Live
  BY PlacesLive
<1>5. ASSUME /\ \A s \in Schedulers : scheduler'[s].todo = scheduler[s].todo
             /\ queue' = queue
             /\ \A p \in Processors : processor'[p] # Free =>
                  processor[p] # Free /\ processor'[p].event = processor[p].event
      PROVE  e \in Live
  BY <1>2, <1>4, <1>5
<1>6. ASSUME NEW s \in Schedulers, NEW events \in SUBSET Events,
             Schedule(s) /\ EventsOf(s, events),
             scheduler'[s].todo = events,
             \A t \in Schedulers \ {s} : scheduler'[t] = scheduler[t],
             queue' = queue /\ processor' = processor
      PROVE  e \in Live \/ (EventsOf(s, scheduler'[s].todo) /\ e \in scheduler'[s].todo)
  BY <1>2, <1>4, <1>6
<1>7. ASSUME NEW s \in Schedulers, NEW f \in scheduler[s].todo,
             scheduler'[s].todo = scheduler[s].todo \ {f},
             \A t \in Schedulers \ {s} : scheduler'[t] = scheduler[t],
             queue' \in {queue, queue \cup {f}} /\ processor' = processor
      PROVE  e \in Live
  BY <1>2, <1>4, <1>7
<1>8. ASSUME NEW p \in Processors, NEW f \in queue,
             queue' = queue \ {f} /\ scheduler' = scheduler,
             processor'[p].event = f,
             \A q \in Processors \ {p} : processor'[q] = processor[q]
      PROVE  e \in Live
  BY <1>2, <1>4, <1>8
<1> QED  BY <1>1, <1>5, <1>6, <1>7, <1>8 DEF EventsMove

-----------------------------------------------------------------------------
(* Ticks and events.                                                       *)

(* The latest tick that ran only grows, and covers the tick that runs.     *)
LEMMA ScheduledAtGrows ==
  ASSUME TypeInv, [Next]_vars
  PROVE  /\ scheduledAt \in Nat /\ scheduledAt' \in Nat /\ scheduledAt <= scheduledAt'
         /\ \A s \in Schedulers : Schedule(s) =>
              scheduler[s].tick \in Nat /\ scheduler[s].tick <= scheduledAt'
<1>1. scheduledAt \in Nat
  BY DEF TypeInv, Shaped
<1>2. \A s \in Schedulers : scheduler[s].tick \in Nat
  BY MonitorConstants DEF TypeInv, Shaped, Ticks, Time, Null
<1>3. \/ scheduledAt' = scheduledAt
      \/ \E s \in Schedulers : Schedule(s)
  BY DEF Next, vars, WakeUp, PublishEvent, PublishEventFails, StartJob, Claim, Complete,
     JobFails, PublishAlert, Create, Delete, UpdateReads, UpdateWrites, Tick
<1>4. \A s \in Schedulers : Schedule(s) =>
        scheduledAt' = IF scheduledAt < scheduler[s].tick THEN scheduler[s].tick ELSE scheduledAt
  BY ScheduleEffect DEF TypeInv
<1> QED  BY <1>1, <1>2, <1>3, <1>4

(* No monitor leaves the overtaken ones, and a tick that plans any other   *)
(* is the latest.                                                          *)
LEMMA OvertakenGrows ==
  ASSUME TypeInv, [Next]_vars
  PROVE  /\ overtaken \subseteq overtaken'
         /\ \A s \in Schedulers : Schedule(s) =>
              \A m \in Due(scheduler[s].tick) \ overtaken' : scheduledAt < scheduler[s].tick
<1>1. \/ overtaken' = overtaken
      \/ \E s \in Schedulers : Schedule(s)
  BY DEF Next, vars, WakeUp, PublishEvent, PublishEventFails, StartJob, Claim, Complete,
     JobFails, PublishAlert, Create, Delete, UpdateReads, UpdateWrites, Tick
<1>2. \A s \in Schedulers : Schedule(s) =>
        overtaken' = IF scheduledAt < scheduler[s].tick THEN overtaken
                     ELSE overtaken \cup Due(scheduler[s].tick)
  BY ScheduleEffect DEF TypeInv
<1> QED  BY <1>1, <1>2

(* A tick that has yet to run stays, or has just woken up.                 *)
LEMMA UnrunMoves ==
  ASSUME TypeInv, [Next]_vars, NEW s \in Schedulers, Unrun(s)'
  PROVE  /\ ~Schedule(s)
         /\ \/ Unrun(s) /\ scheduler'[s].tick = scheduler[s].tick
            \/ WakeUp(s) /\ scheduler'[s].tick = clock
<1>1. Shaped /\ scheduler \in [Schedulers -> Ticks]
  BY DEF TypeInv, Shaped
<1>2. ASSUME NEW t \in Schedulers, WakeUp(t)
      PROVE  /\ scheduler[t] = Waiting /\ scheduler'[t].tick = clock
             /\ \A r \in Schedulers \ {t} : scheduler'[r] = scheduler[r]
  BY <1>1, <1>2 DEF WakeUp, Ticks
<1>3. ASSUME NEW t \in Schedulers, Schedule(t)
      PROVE  ~Unrun(t)' /\ \A r \in Schedulers \ {t} : scheduler'[r] = scheduler[r]
  <2>1. PICK events \in SUBSET Events :
          scheduler' = [scheduler EXCEPT ![t] =
                          IF events = {} THEN Waiting ELSE [scheduler[t] EXCEPT !.todo = events]]
    BY <1>1, <1>3, ScheduleEffect
  <2>2. \A r \in Schedulers \ {t} : scheduler'[r] = scheduler[r]
    BY <1>1, <2>1
  <2>3. scheduler'[t] = IF events = {} THEN Waiting ELSE [scheduler[t] EXCEPT !.todo = events]
    BY <1>1, <2>1
  <2>4. [scheduler[t] EXCEPT !.todo = events].todo = events
    BY <1>1 DEF Ticks
  <2>5. scheduler'[t].tick = Null \/ scheduler'[t].todo # {}
    BY <2>3, <2>4, FreeTyped
  <2> QED  BY <2>2, <2>5 DEF Unrun
<1>4. ASSUME NEW t \in Schedulers, NEW e \in scheduler[t].todo, PublishEvent(t, e) \/ PublishEventFails(t, e)
      PROVE  ~Unrun(t)' /\ \A r \in Schedulers \ {t} : scheduler'[r] = scheduler[r]
  <2>1. Published(t, e)
    BY <1>4 DEF PublishEvent, PublishEventFails
  <2> QED  BY <1>1, <2>1, PublishedEffect DEF Unrun
<1>5. \/ scheduler' = scheduler
      \/ \E t \in Schedulers : WakeUp(t)
      \/ \E t \in Schedulers : Schedule(t)
      \/ \E t \in Schedulers : \E e \in scheduler[t].todo : PublishEvent(t, e) \/ PublishEventFails(t, e)
  BY DEF Next, vars, StartJob, Claim, Complete, JobFails, PublishAlert, Create, Delete, UpdateReads,
     UpdateWrites, Tick
<1>6. scheduler'[s] = scheduler[s] => Unrun(s) /\ scheduler'[s].tick = scheduler[s].tick
  BY DEF Unrun
<1>7. ~Schedule(s)
  BY <1>3
<1> QED  BY <1>2, <1>3, <1>4, <1>5, <1>6, <1>7

(* No tick falls into the moment of another, and events and rows keep the  *)
(* moment of the tick that published them.                                 *)
LEMMA TicksKept == ASSUME TypeInv, TypeInv', TicksInv, [Next]_vars PROVE TicksInv'
<1>1. /\ scheduledAt \in Nat /\ scheduledAt' \in Nat /\ scheduledAt <= scheduledAt'
      /\ \A s \in Schedulers : Schedule(s) =>
           scheduler[s].tick \in Nat /\ scheduler[s].tick <= scheduledAt'
  BY ScheduledAtGrows
<1>2. \A m \in MonitorIds : row[m].lastPublishedAt \in Nat
  BY MonitorConstants DEF TypeInv, Shaped, Rows, Time, Null
<1>3. ASSUME NEW e \in Live' PROVE e.publishedAt <= scheduledAt'
  <2>1. CASE e \in Live
    BY <1>1, <2>1, LiveTyped DEF TicksInv
  <2>2. ASSUME NEW s \in Schedulers, Schedule(s), EventsOf(s, scheduler'[s].todo),
               e \in scheduler'[s].todo
        PROVE  e.publishedAt <= scheduledAt'
    BY <1>1, <2>2 DEF EventsOf
  <2> QED  BY <2>1, <2>2, LiveMoves
<1>4. ASSUME NEW m \in MonitorIds PROVE row'[m].lastPublishedAt <= scheduledAt'
  <2>1. row[m].lastPublishedAt <= scheduledAt
    BY DEF TicksInv
  <2> QED  BY <1>1, <1>2, <2>1, LastPublishedMoves DEF Null
<1>5. ASSUME NEW s \in Schedulers, WakeUp(s)
      PROVE  /\ scheduledAt' < clock
             /\ \A t \in Schedulers \ {s} : scheduler'[t].tick # clock
  BY <1>5 DEF WakeUp, TypeInv, Shaped
<1>6. ASSUME NEW s \in Schedulers, Unrun(s)'
      PROVE  /\ ~Schedule(s)
             /\ \/ Unrun(s) /\ scheduler'[s].tick = scheduler[s].tick
                \/ WakeUp(s) /\ scheduler'[s].tick = clock
  BY <1>6, UnrunMoves
<1>7. ASSUME NEW s \in Schedulers, Unrun(s)', NEW t \in Schedulers, Unrun(t)', s # t
      PROVE  scheduler'[t].tick # scheduler'[s].tick
  BY <1>5, <1>6, <1>7 DEF TicksInv
<1>8. ASSUME NEW s \in Schedulers, Unrun(s)', NEW e \in Live'
      PROVE  e.publishedAt # scheduler'[s].tick
  <2>1. e.publishedAt \in Nat /\ clock \in Nat
    BY LiveTyped, MonitorConstants DEF TypeInv, Shaped, Events, Time, Null, Live
  <2>2. CASE WakeUp(s) /\ scheduler'[s].tick = clock
    BY <1>1, <1>3, <1>5, <2>1, <2>2
  <2>3. ASSUME Unrun(s), scheduler'[s].tick = scheduler[s].tick, ~Schedule(s)
        PROVE  e.publishedAt # scheduler'[s].tick
    <3>1. e \in Live => e.publishedAt # scheduler[s].tick
      BY <2>3 DEF TicksInv
    <3>2. ASSUME NEW t \in Schedulers, Schedule(t), EventsOf(t, scheduler'[t].todo),
                 e \in scheduler'[t].todo
          PROVE  e.publishedAt # scheduler[s].tick
      <4>1. Unrun(t) /\ s # t
        BY <2>3, <3>2, ScheduleEffect DEF TypeInv
      <4>2. scheduler[t].tick # scheduler[s].tick
        BY <2>3, <4>1 DEF TicksInv
      <4> QED  BY <3>2, <4>2 DEF EventsOf
    <3> QED  BY <2>3, <3>1, <3>2, LiveMoves
  <2> QED  BY <1>6, <1>8, <2>2, <2>3
<1>9. ASSUME NEW s \in Schedulers, Unrun(s)', NEW m \in MonitorIds
      PROVE  row'[m].lastPublishedAt # scheduler'[s].tick
  <2>1. row'[m].lastPublishedAt \in Nat /\ clock \in Nat
    BY MonitorConstants DEF TypeInv, Shaped, Rows, Time, Null
  <2>2. CASE WakeUp(s) /\ scheduler'[s].tick = clock
    BY <1>1, <1>4, <1>5, <2>1, <2>2
  <2>3. ASSUME Unrun(s), scheduler'[s].tick = scheduler[s].tick, ~Schedule(s)
        PROVE  row'[m].lastPublishedAt # scheduler'[s].tick
    <3>1. row[m].lastPublishedAt # scheduler[s].tick /\ scheduler[s].tick # Null
      BY <2>3 DEF TicksInv, Unrun
    <3>2. ASSUME NEW t \in Schedulers, Schedule(t) PROVE scheduler[t].tick # scheduler[s].tick
      <4>1. Unrun(t) /\ s # t
        BY <2>3, <3>2, ScheduleEffect DEF TypeInv
      <4> QED  BY <2>3, <4>1 DEF TicksInv
    <3> QED  BY <2>3, <3>1, <3>2, LastPublishedMoves
  <2> QED  BY <1>6, <1>9, <2>2, <2>3
<1> QED  BY <1>3, <1>4, <1>7, <1>8, <1>9 DEF TicksInv

(* An event is held once, and no two events of a tick share a monitor.     *)
LEMMA ApartKept == ASSUME TypeInv, TypeInv', TicksInv, ApartInv, [Next]_vars PROVE ApartInv'
<1>1. EventsMove
  BY AllEventsMove
<1>2. ASSUME NEW s \in Schedulers, Schedule(s), EventsOf(s, scheduler'[s].todo)
      PROVE  \A e \in scheduler'[s].todo : e \notin Live /\ \A f \in Live : e.publishedAt # f.publishedAt
  <2>1. Unrun(s)
    BY <1>2, ScheduleEffect DEF TypeInv
  <2>2. \A e \in Live : e.publishedAt # scheduler[s].tick
    BY <2>1 DEF TicksInv
  <2> QED  BY <1>2, <2>2 DEF EventsOf
<1>3. ASSUME NEW e \in Live', NEW f \in Live', e # f PROVE Apart(e, f)
  <2>1. CASE e \in Live /\ f \in Live
    BY <1>3, <2>1 DEF ApartInv
  <2>2. ASSUME NEW s \in Schedulers, Schedule(s), EventsOf(s, scheduler'[s].todo)
        PROVE  /\ e \in scheduler'[s].todo /\ f \in Live => Apart(e, f)
               /\ f \in scheduler'[s].todo /\ e \in Live => Apart(e, f)
               /\ e \in scheduler'[s].todo /\ f \in scheduler'[s].todo => Apart(e, f)
    BY <1>2, <1>3, <2>2 DEF Apart, EventsOf
  <2>3. ASSUME NEW s \in Schedulers, Schedule(s), EventsOf(s, scheduler'[s].todo), e \in scheduler'[s].todo,
               NEW t \in Schedulers, Schedule(t), EventsOf(t, scheduler'[t].todo), f \in scheduler'[t].todo
        PROVE  Apart(e, f)
    <3>1. Unrun(s) /\ Unrun(t)
      BY <2>3, ScheduleEffect DEF TypeInv
    <3>2. e.publishedAt = scheduler[s].tick /\ f.publishedAt = scheduler[t].tick
      BY <2>3 DEF EventsOf
    <3>3. s # t => e.publishedAt # f.publishedAt
      BY <3>1, <3>2 DEF TicksInv
    <3> QED  BY <2>2, <2>3, <3>3 DEF Apart
  <2> QED  BY <2>1, <2>2, <2>3, LiveMoves
<1>4. /\ \A s \in Schedulers : \A f \in scheduler[s].todo : f \in Live
      /\ \A f \in queue : f \in Live
      /\ \A p \in Processors : processor[p] # Free => processor[p].event \in Live
  BY PlacesLive
<1> DEFINE Places ==
  /\ \A s, t \in Schedulers : s # t => scheduler[s].todo \cap scheduler[t].todo = {}
  /\ \A s \in Schedulers : scheduler[s].todo \cap queue = {}
  /\ \A p \in Processors : processor[p] # Free =>
       /\ processor[p].event \notin queue
       /\ \A s \in Schedulers : processor[p].event \notin scheduler[s].todo
       /\ \A q \in Processors \ {p} :
            processor[q] # Free => processor[q].event # processor[p].event
<1>5. Places
  BY DEF ApartInv
<1>6. ASSUME /\ \A s \in Schedulers : scheduler'[s].todo = scheduler[s].todo
             /\ queue' = queue
             /\ \A p \in Processors : processor'[p] # Free =>
                  processor[p] # Free /\ processor'[p].event = processor[p].event
      PROVE  Places'
  BY <1>5, <1>6
<1>7. ASSUME NEW s \in Schedulers, NEW events \in SUBSET Events,
             Schedule(s) /\ EventsOf(s, events),
             scheduler'[s].todo = events,
             \A t \in Schedulers \ {s} : scheduler'[t] = scheduler[t],
             queue' = queue /\ processor' = processor
      PROVE  Places'
  <2>1. \A e \in events : e \notin Live
    BY <1>2, <1>7
  <2> QED  BY <1>4, <1>5, <1>7, <2>1
<1>8. ASSUME NEW s \in Schedulers, NEW f \in scheduler[s].todo,
             scheduler'[s].todo = scheduler[s].todo \ {f},
             \A t \in Schedulers \ {s} : scheduler'[t] = scheduler[t],
             queue' \in {queue, queue \cup {f}} /\ processor' = processor
      PROVE  Places'
  BY <1>5, <1>8
<1>9. ASSUME NEW p \in Processors, NEW f \in queue,
             queue' = queue \ {f} /\ scheduler' = scheduler,
             processor'[p].event = f,
             \A q \in Processors \ {p} : processor'[q] = processor[q]
      PROVE  Places'
  BY <1>5, <1>9
<1> HIDE DEF Places
<1>10. Places'
  BY <1>1, <1>6, <1>7, <1>8, <1>9 DEF EventsMove
<1> QED  BY <1>3, <1>10 DEF ApartInv, Places

-----------------------------------------------------------------------------
(* Updates that do not overlap.                                            *)

(* What an update makes of the row it has read.                            *)
LEMMA EditedRow ==
  ASSUME TypeInv, EditInv, NEW u \in Users, UpdateWrites(u), NEW m \in MonitorIds,
         m = user[u].monitor, Exists(m), NEW r, r = Updated(row[m], user[u])
  PROVE  /\ r.batch = r.shape /\ r.status \notin {"ABSENT", "DELETED"}
         /\ r.status \in {"PAUSED", "ERROR_BAD_QUERY"} => r.severity = "PAUSED"
         /\ r.lastPublishedAt # Null =>
              /\ r.lastPublishedAt = row[m].lastPublishedAt
              /\ r.nextRunAt = row[m].nextRunAt /\ r.lastCompletedAt = row[m].lastCompletedAt
              /\ r.lastClaimedAt = row[m].lastClaimedAt
              /\ r.shape = row[m].shape
              /\ r.status = "ERROR_BAD_QUERY" => row[m].status = "ERROR_BAD_QUERY"
              /\ r.alertedAt = row[m].alertedAt
         /\ r.lastPublishedAt # Null /\ r.status = "ACTIVE" =>
              /\ row[m].status = "ACTIVE" \/ row[m].status = "ERROR_BAD_QUERY"
              /\ r.severity = row[m].severity /\ r.severityChangedAt = row[m].severityChangedAt
<1>1. /\ user[u] \in Edits /\ user[u] # Free /\ Shaped
  BY EditTyped DEF TypeInv, UpdateWrites
<1> DEFINE d == user[u]
<1>2. d \in Edits /\ r = Updated(row[m], d)
  BY <1>1
<1>3. /\ row[m].batch = d.wasBatch /\ row[m].batch = row[m].shape
      /\ row[m].status = d.wasStatus \/ (d.wasStatus = "ACTIVE" /\ row[m].status = "ERROR_BAD_QUERY")
      /\ row[m].status \in {"PAUSED", "ERROR_BAD_QUERY"} => row[m].severity = "PAUSED"
      /\ row[m].status \notin {"ABSENT", "DELETED"} /\ row[m].status \in Statuses
  BY <1>1 DEF EditInv, RowEdited, EditFits, Exists, Shaped, Rows
<1>4. d.status \in {"ACTIVE", "PAUSED", "same"}
  BY <1>2 DEF Edits, WriteStatuses
<1> HIDE DEF d
<1>5. /\ r.shape = d.shape
      /\ r.batch = IF d.wasBatch = d.shape THEN row[m].batch ELSE d.shape
      /\ r.status = IF d.status = "same" THEN row[m].status ELSE d.status
      /\ Restarts(d) => r.lastPublishedAt = Null
      /\ ~Restarts(d) =>
              /\ r.nextRunAt = row[m].nextRunAt
              /\ r.lastPublishedAt = row[m].lastPublishedAt
              /\ r.lastClaimedAt = row[m].lastClaimedAt
              /\ r.lastCompletedAt = row[m].lastCompletedAt
              /\ r.alertedAt = row[m].alertedAt
      /\ \/ /\ d.status = "same" \/ (d.status = "ACTIVE" <=> d.wasStatus = "ACTIVE")
            /\ r.severity = row[m].severity
            /\ r.severityChangedAt = row[m].severityChangedAt
         \/ /\ d.status # "same" /\ d.wasStatus = "ACTIVE" /\ d.status = "PAUSED"
            /\ r.severity = "PAUSED"
         \/ /\ d.wasStatus # "ACTIVE" /\ d.status = "ACTIVE"
            /\ r.severity = "UNKNOWN"
  BY <1>1, <1>2, UpdatedRow
<1>6. Restarts(d) <=> (d.wasBatch # d.shape \/ (d.wasStatus # "ACTIVE" /\ d.status = "ACTIVE"))
  BY DEF Restarts
<1>7. r.batch = r.shape /\ r.status \notin {"ABSENT", "DELETED"}
  BY <1>3, <1>4, <1>5
<1>8. r.status \in {"PAUSED", "ERROR_BAD_QUERY"} => r.severity = "PAUSED"
  BY <1>3, <1>4, <1>5 DEF Statuses
<1>9. ASSUME r.lastPublishedAt # Null
      PROVE  ~Restarts(d) /\ d.shape = d.wasBatch /\ r.shape = row[m].shape
  BY <1>3, <1>5, <1>6, <1>9
<1>10. ASSUME r.lastPublishedAt # Null, r.status = "ACTIVE"
       PROVE  /\ row[m].status = "ACTIVE" \/ row[m].status = "ERROR_BAD_QUERY"
              /\ r.severity = row[m].severity /\ r.severityChangedAt = row[m].severityChangedAt
  BY <1>3, <1>4, <1>5, <1>6, <1>9, <1>10
<1>11. r.status = "ERROR_BAD_QUERY" => row[m].status = "ERROR_BAD_QUERY"
  BY <1>4, <1>5
<1> QED  BY <1>5, <1>7, <1>8, <1>9, <1>10, <1>11

(* helpers.ts: while updates do not overlap, a row keeps the batch id of   *)
(* its shape, and only PAUSED and rejected rows are made PAUSED.           *)
LEMMA RowsEdited ==
  ASSUME OneUser, TypeInv, EditInv, [Next]_vars, NEW m \in MonitorIds
  PROVE  RowEdited(m)'
<1>1. RowEdited(m) /\ Shaped /\ row[m] \in Rows
  BY DEF EditInv, TypeInv, Shaped
<1>2. RowMove(m)
  BY RowMoves
<1>3. CASE row'[m] = row[m]
  BY <1>1, <1>3 DEF RowEdited
<1>4. ASSUME NEW s \in Schedulers, Schedule(s), m \in Due(scheduler[s].tick), row'[m] = Planned(m, s)
      PROVE  RowEdited(m)'
  <2>1. row[m].status = "ACTIVE"
    BY <1>4 DEF Due
  <2> QED  BY <1>1, <1>4, <2>1, PlannedRow DEF RowEdited
<1>5. ASSUME NEW p \in Processors, row'[m] = [row[m] EXCEPT !.lastClaimedAt = processor[p].now]
      PROVE  RowEdited(m)'
  BY <1>1, <1>5, ClaimedRow DEF RowEdited
<1>6. ASSUME NEW p \in Processors, Complete(p), m \in Won(p), row'[m] = Completed(p, m)
      PROVE  RowEdited(m)'
  <2>1. Claimed(p)
    BY <1>1, <1>6, CompleteEffect
  <2>2. \/ processor[p].outcome[m].status = "ACTIVE"
        \/ processor[p].outcome[m].status = "ERROR_BAD_QUERY"
           /\ processor[p].outcome[m].severity = "PAUSED"
    BY <1>6, <2>1, OutcomeFacts
  <2> QED  BY <1>1, <1>6, <2>2, CompletedRow DEF RowEdited
<1>7. CASE Create(m)
  BY <1>1, <1>7, CreateEffect DEF RowEdited, WriteStatuses
<1>8. ASSUME NEW u \in Users, UpdateWrites(u), user[u].monitor = m, Exists(m),
             row'[m] = Updated(row[m], user[u])
      PROVE  RowEdited(m)'
  BY <1>8, EditedRow DEF RowEdited
<1>9. CASE row'[m] = Deleted
  BY <1>9, DeletedRow DEF RowEdited
<1> QED  BY <1>2, <1>3, <1>4, <1>5, <1>6, <1>7, <1>8, <1>9 DEF RowMove

(* MonitorService.update: while updates do not overlap, nothing but a      *)
(* rejected query comes between what an update reads and what it writes.   *)
LEMMA EditsFit ==
  ASSUME OneUser, TypeInv, EditInv, [Next]_vars, NEW u \in Users
  PROVE  EditFits(u)'
<1>1. Shaped /\ EditFits(u) /\ \A m \in MonitorIds : RowEdited(m)
  BY DEF EditInv, TypeInv
<1>2. ASSUME NEW v \in Users, UpdateReads(v) PROVE EditFits(u)'
  <2>1. u = v
    BY DEF OneUser
  <2>2. PICK m \in {n \in MonitorIds : Exists(n)}, status \in WriteStatuses \cup {"same"}, shape \in Shapes :
          user' = [user EXCEPT ![v] = [at |-> "read", monitor |-> m, status |-> status, shape |-> shape,
                                       wasStatus |-> row[m].status, wasBatch |-> row[m].batch]]
    BY <1>2 DEF UpdateReads
  <2>3. user'[u].monitor = m /\ user'[u].wasStatus = row[m].status /\ user'[u].wasBatch = row[m].batch
    BY <1>1, <2>1, <2>2 DEF Shaped
  <2>4. row' = row
    BY <1>2 DEF UpdateReads
  <2> QED  BY <2>2, <2>3, <2>4 DEF EditFits, Exists
<1>3. ASSUME NEW v \in Users, UpdateWrites(v) PROVE EditFits(u)'
  <2>1. u = v
    BY DEF OneUser
  <2> QED  BY <1>1, <1>3, <2>1, UpdateWritesEffect DEF EditFits, Shaped
<1>4. ASSUME user' = user, \A v \in Users : ~UpdateWrites(v) PROVE EditFits(u)'
  <2>1. SUFFICES ASSUME user[u] # Free, NEW m \in MonitorIds, m = user[u].monitor
                 PROVE  EditFits(u)'
    BY <1>1, <1>4 DEF EditFits, Shaped, Edits
  <2>2. row[m].status # "ABSENT"
    BY <1>1, <2>1 DEF EditFits
  <2>3. RowMove(m)
    BY RowMoves
  <2>4. CASE row'[m] = row[m]
    BY <1>1, <1>4, <2>1, <2>4 DEF EditFits, Exists
  <2>5. ASSUME NEW s \in Schedulers, row'[m] = Planned(m, s) PROVE EditFits(u)'
    BY <1>1, <1>4, <2>1, <2>5, PlannedRow DEF EditFits, Exists
  <2>6. ASSUME NEW p \in Processors, row'[m] = [row[m] EXCEPT !.lastClaimedAt = processor[p].now]
        PROVE  EditFits(u)'
    BY <1>1, <1>4, <2>1, <2>6, ClaimedRow DEF EditFits, Exists
  <2>7. ASSUME NEW p \in Processors, Complete(p), Lands(p, m), m \in Won(p), row'[m] = Completed(p, m)
        PROVE  EditFits(u)'
    <3>1. row[m].status = "ACTIVE" /\ Claimed(p)
      BY <1>1, <2>7, CompleteEffect DEF Lands
    <3>2. \/ processor[p].outcome[m].status = "ACTIVE"
          \/ processor[p].outcome[m].status = "ERROR_BAD_QUERY"
      BY <2>7, <3>1, OutcomeFacts
    <3>3. user[u].wasStatus = "ACTIVE" /\ row[m].batch = user[u].wasBatch
      BY <1>1, <2>1, <3>1 DEF EditFits, Exists
    <3> QED  BY <1>4, <2>1, <2>7, <3>2, <3>3, CompletedRow DEF EditFits, Exists
  <2>8. CASE Create(m)
    BY <1>1, <2>2, <2>8, CreateEffect
  <2>9. CASE row'[m] = Deleted
    BY <1>4, <2>1, <2>9, DeletedRow DEF EditFits, Exists
  <2> QED  BY <1>4, <2>3, <2>4, <2>5, <2>6, <2>7, <2>8, <2>9 DEF RowMove
<1>5. \/ user' = user /\ \A v \in Users : ~UpdateWrites(v)
      \/ \E v \in Users : UpdateReads(v) \/ UpdateWrites(v)
  BY DEF Next, vars, WakeUp, Schedule, PublishEvent, PublishEventFails, StartJob, Claim, Complete,
     JobFails, PublishAlert, Create, Delete, Tick
<1> QED  BY <1>2, <1>3, <1>4, <1>5

(* Rows and edits stay consistent while updates do not overlap.            *)
LEMMA EditsKept == ASSUME OneUser, TypeInv, EditInv, [Next]_vars PROVE EditInv'
  BY RowsEdited, EditsFit DEF EditInv

-----------------------------------------------------------------------------
(* Landing.                                                                *)

(* A job that lands holds the only event of the publication it lands on.   *)
LEMMA LandsAlone ==
  ASSUME TypeInv, ApartInv, NEW p \in Processors, Complete(p), NEW m \in MonitorIds, Lands(p, m),
         NEW e \in Live, m \in e.monitors, row[m].lastPublishedAt = e.publishedAt
  PROVE  e = processor[p].event
<1>1. Claimed(p) /\ m \in Won(p) /\ processor[p] # Free
  BY CompleteEffect, ClaimedTyped DEF TypeInv
<1>2. m \in processor[p].event.monitors /\ processor[p].event \in Live
  BY <1>1, OutcomeFacts, PlacesLive
<1>3. row[m].lastPublishedAt = processor[p].event.publishedAt
  BY DEF Lands
<1> QED  BY <1>2, <1>3 DEF ApartInv, Apart

(* The event of a job that is over is gone.                                *)
LEMMA EventsEnd ==
  ASSUME TypeInv, ApartInv, [Next]_vars, NEW p \in Processors, processor[p] # Free, processor'[p] = Free
  PROVE  processor[p].event \notin Live'
<1>1. EventsMove
  BY AllEventsMove
<1>2. /\ processor[p].event \notin queue
      /\ \A s \in Schedulers : processor[p].event \notin scheduler[s].todo
      /\ \A q \in Processors \ {p} : processor[q] # Free => processor[q].event # processor[p].event
  BY DEF ApartInv
<1>3. ASSUME /\ \A s \in Schedulers : scheduler'[s].todo = scheduler[s].todo
             /\ queue' = queue
             /\ \A q \in Processors : processor'[q] # Free =>
                  processor[q] # Free /\ processor'[q].event = processor[q].event
      PROVE  processor[p].event \notin Live'
  BY <1>2, <1>3 DEF Live
<1>4. processor' # processor
  OBVIOUS
<1>5. ASSUME NEW q \in Processors, NEW e \in queue,
             queue' = queue \ {e} /\ scheduler' = scheduler,
             processor[q] = Free, processor'[q].event = e,
             \A r \in Processors \ {q} : processor'[r] = processor[r]
      PROVE  processor[p].event \notin Live'
  <2>1. p # q
    BY <1>5
  <2> QED  BY <1>5, <2>1
<1> QED  BY <1>1, <1>3, <1>4, <1>5 DEF EventsMove

(* helpers.ts clears the timestamps of a row when its shape or its status  *)
(* changes, so a row that still has the publication of an event still has  *)
(* the shape of that event.                                                *)
LEMMA FreshKept ==
  ASSUME OneUser, TypeInv, TypeInv', TicksInv, ApartInv, EditInv, FreshInv, [Next]_vars
  PROVE  FreshInv'
<1> SUFFICES ASSUME NEW e \in Live', NEW m \in e.monitors, row'[m].lastPublishedAt = e.publishedAt
             PROVE  row'[m].shape = e.shape /\ row'[m].status # "ERROR_BAD_QUERY"
  BY DEF FreshInv, Fresh
<1>1. Shaped /\ RowEdited(m) /\ RowMove(m) /\ m \in MonitorIds
  <2>1. m \in MonitorIds
    BY DEF Live, Events
  <2> QED  BY <2>1, RowMoves DEF TypeInv, EditInv
<1>2. ASSUME NEW s \in Schedulers, Schedule(s), EventsOf(s, scheduler'[s].todo), e \in scheduler'[s].todo
      PROVE  row'[m].shape = e.shape /\ row'[m].status # "ERROR_BAD_QUERY"
  <2>1. m \in Publishes(s) /\ m \in Due(scheduler[s].tick)
    BY <1>2 DEF EventsOf, Publishes
  <2>2. PICK n \in Publishes(s) : row[n].batch = row[m].batch /\ e.shape = row[n].shape
    BY <1>2 DEF EventsOf
  <2>3. row[n].batch = row[n].shape /\ row[m].batch = row[m].shape
    BY <1>1 DEF EditInv, RowEdited, Publishes, Due
  <2>4. row'[m] = Planned(m, s) /\ row[m].status = "ACTIVE"
    BY <1>1, <1>2, <2>1, ScheduleEffect DEF Due
  <2>5. row'[m].shape = row[m].shape /\ row'[m].status = row[m].status
    BY <1>1, <2>4, PlannedRow
  <2> QED  BY <2>2, <2>3, <2>4, <2>5
<1>3. ASSUME e \in Live PROVE row'[m].shape = e.shape /\ row'[m].status # "ERROR_BAD_QUERY"
  <2>1. e.publishedAt # Null /\ Fresh(e, m)
    BY <1>3, LiveTyped DEF FreshInv
  <2>2. CASE row'[m] = row[m]
    BY <2>1, <2>2 DEF Fresh
  <2>3. ASSUME NEW s \in Schedulers, Schedule(s), row'[m] = Planned(m, s)
        PROVE  row'[m].shape = e.shape /\ row'[m].status # "ERROR_BAD_QUERY"
    <3>1. e.publishedAt # scheduler[s].tick
      BY <1>1, <1>3, <2>3, ScheduleEffect DEF TicksInv
    <3> QED  BY <1>1, <2>1, <2>3, <3>1, PlannedRow DEF Fresh
  <2>4. ASSUME NEW p \in Processors, row'[m] = [row[m] EXCEPT !.lastClaimedAt = processor[p].now]
        PROVE  row'[m].shape = e.shape /\ row'[m].status # "ERROR_BAD_QUERY"
    BY <1>1, <2>1, <2>4, ClaimedRow DEF Fresh
  <2>5. ASSUME NEW p \in Processors, Complete(p), Lands(p, m), m \in Won(p), row'[m] = Completed(p, m)
        PROVE  row'[m].shape = e.shape /\ row'[m].status # "ERROR_BAD_QUERY"
    <3>1. row[m].lastPublishedAt = e.publishedAt
      BY <1>1, <2>5, CompletedRow
    <3>2. e = processor[p].event
      BY <1>1, <1>3, <2>5, <3>1, LandsAlone
    <3>3. processor[p] # Free /\ processor'[p] = Free
      BY <1>1, <2>5, CompleteEffect, ClaimedTyped DEF Shaped
    <3> QED  BY <3>2, <3>3, EventsEnd
  <2>6. CASE Create(m)
    BY <1>1, <2>1, <2>6, CreateEffect DEF RowEdited
  <2>7. ASSUME NEW u \in Users, UpdateWrites(u), user[u].monitor = m, Exists(m),
               row'[m] = Updated(row[m], user[u])
        PROVE  row'[m].shape = e.shape /\ row'[m].status # "ERROR_BAD_QUERY"
    BY <1>1, <2>1, <2>7, EditedRow DEF Fresh
  <2>8. CASE row'[m] = Deleted
    BY <2>1, <2>8, DeletedRow
  <2> QED  BY <1>1, <2>2, <2>3, <2>4, <2>5, <2>6, <2>7, <2>8 DEF RowMove
<1> QED  BY <1>2, <1>3, LiveMoves

(* A job that has claimed before a step, or claims in it.                  *)
LEMMA ClaimsMove ==
  ASSUME TypeInv, [Next]_vars, NEW p \in Processors, Claimed(p)'
  PROVE  \/ /\ Claimed(p) /\ processor[p] # Free
            /\ processor'[p].event = processor[p].event /\ processor'[p].prev = processor[p].prev
            /\ processor'[p].outcome = processor[p].outcome /\ processor'[p].now = processor[p].now
            /\ processor'[p].edition = processor[p].edition
            /\ processor'[p].todo \subseteq processor[p].todo
         \/ /\ Claim(p) /\ ClaimOf(p, processor'[p], Claims(processor[p].event))
            /\ processor[p] # Free
<1>1. Shaped /\ processor \in [Processors -> Jobs]
  BY DEF TypeInv, Shaped
<1>2. processor'[p].at = "claimed"
  BY DEF Claimed
<1>3. CASE processor'[p] = processor[p]
  BY <1>1, <1>2, <1>3, ClaimedTyped DEF Claimed
<1>4. ASSUME NEW q \in Processors, StartJob(q) PROVE processor'[p] = processor[p]
  <2>1. PICK j \in StartedJob : processor' = [processor EXCEPT ![q] = j] /\ j.at = "started"
    BY <1>1, <1>4, StartJobEffect
  <2> QED  BY <1>1, <1>2, <2>1
<1>5. ASSUME NEW q \in Processors, Claim(q)
      PROVE  \/ processor'[p] = processor[p]
             \/ /\ Claim(p) /\ ClaimOf(p, processor'[p], Claims(processor[p].event))
                /\ processor[p] # Free
  <2>1. PICK j \in Jobs : /\ processor' = [processor EXCEPT ![q] = j]
                          /\ j = Free \/ ClaimOf(q, j, Claims(processor[q].event))
    BY <1>1, <1>5, ClaimEffect
  <2>2. CASE p # q
    BY <1>1, <2>1, <2>2
  <2>3. CASE p = q
    <3>1. processor'[p] = j
      BY <1>1, <2>1, <2>3
    <3>2. j # Free
      BY <1>2, <3>1, FreeTyped
    <3>3. processor[p] # Free
      BY <1>1, <1>5, <2>3, ClaimEffect DEF StartedJob, Free
    <3> QED  BY <1>5, <2>1, <2>3, <3>1, <3>2, <3>3
  <2> QED  BY <2>2, <2>3
<1>6. ASSUME NEW q \in Processors, NEW m \in MonitorIds, PublishAlert(q, m)
      PROVE  \/ processor'[p] = processor[p]
             \/ /\ Claimed(p) /\ processor[p] # Free
                /\ processor'[p].event = processor[p].event /\ processor'[p].prev = processor[p].prev
                /\ processor'[p].outcome = processor[p].outcome /\ processor'[p].now = processor[p].now
                /\ processor'[p].edition = processor[p].edition
                /\ processor'[p].todo \subseteq processor[p].todo
  BY <1>1, <1>6, PublishAlertEffect, ClaimedTyped
<1>7. ASSUME NEW q \in Processors, Complete(q) \/ JobFails(q) PROVE processor'[p] = processor[p]
  <2>1. processor' = [processor EXCEPT ![q] = Free]
    BY <1>7 DEF Complete, JobFails
  <2> QED  BY <1>1, <1>2, <2>1, FreeTyped
<1>8. \/ processor' = processor
      \/ \E q \in Processors : StartJob(q) \/ Claim(q) \/ Complete(q) \/ JobFails(q)
                               \/ \E n \in MonitorIds : PublishAlert(q, n)
  BY DEF Next, vars, WakeUp, Schedule, PublishEvent, PublishEventFails, Create, Delete, UpdateReads,
     UpdateWrites, Tick
<1> QED  BY <1>3, <1>4, <1>5, <1>6, <1>7, <1>8

(* While a job may land on a row, the row keeps what the job has seen.     *)
LEMMA RowUntouched ==
  ASSUME OneUser, TypeInv, TicksInv, ApartInv, EditInv, FreshInv, [Next]_vars,
         NEW e \in Live, e \in Live', NEW m \in e.monitors,
         row'[m].lastPublishedAt = e.publishedAt, row'[m].status = "ACTIVE"
  PROVE  /\ row[m].status = "ACTIVE" /\ row[m].lastPublishedAt = e.publishedAt
         /\ row'[m].severity = row[m].severity
         /\ row'[m].severityChangedAt = row[m].severityChangedAt
         /\ row'[m].alertedAt = row[m].alertedAt
         /\ row'[m].lastCompletedAt = row[m].lastCompletedAt
<1> DEFINE Same ==
  /\ row[m].status = "ACTIVE" /\ row[m].lastPublishedAt = e.publishedAt
  /\ row'[m].severity = row[m].severity
  /\ row'[m].severityChangedAt = row[m].severityChangedAt
  /\ row'[m].alertedAt = row[m].alertedAt
  /\ row'[m].lastCompletedAt = row[m].lastCompletedAt
<1> SUFFICES Same
  OBVIOUS
<1>1. /\ m \in MonitorIds /\ e.publishedAt # Null /\ Fresh(e, m)
      /\ Shaped /\ RowEdited(m) /\ RowMove(m)
  BY LiveTyped, RowMoves DEF FreshInv, TypeInv, EditInv
<1>2. CASE row'[m] = row[m]
  BY <1>2
<1>3. ASSUME NEW s \in Schedulers, Schedule(s), row'[m] = Planned(m, s) PROVE Same
  <2>1. e.publishedAt # scheduler[s].tick
    BY <1>1, <1>3, ScheduleEffect DEF TicksInv
  <2> QED  BY <1>1, <1>3, <2>1, PlannedRow
<1>4. ASSUME NEW q \in Processors, row'[m] = [row[m] EXCEPT !.lastClaimedAt = processor[q].now]
      PROVE  Same
  BY <1>1, <1>4, ClaimedRow
<1>5. ASSUME NEW q \in Processors, Complete(q), Lands(q, m), m \in Won(q), row'[m] = Completed(q, m)
      PROVE  Same
  <2>1. row[m].lastPublishedAt = e.publishedAt
    BY <1>1, <1>5, CompletedRow
  <2>2. e = processor[q].event
    BY <1>1, <1>5, <2>1, LandsAlone
  <2>3. processor[q] # Free /\ processor'[q] = Free
    BY <1>1, <1>5, CompleteEffect, ClaimedTyped DEF Shaped
  <2> QED  BY <2>2, <2>3, EventsEnd
<1>6. CASE Create(m)
  BY <1>1, <1>6, CreateEffect DEF RowEdited
<1>7. ASSUME NEW u \in Users, UpdateWrites(u), user[u].monitor = m, Exists(m),
             row'[m] = Updated(row[m], user[u])
      PROVE  Same
  <2>1. /\ row'[m].severity = row[m].severity
        /\ row'[m].severityChangedAt = row[m].severityChangedAt
        /\ row'[m].alertedAt = row[m].alertedAt
        /\ row'[m].lastPublishedAt = row[m].lastPublishedAt
        /\ row'[m].lastCompletedAt = row[m].lastCompletedAt
        /\ row[m].status = "ACTIVE" \/ row[m].status = "ERROR_BAD_QUERY"
    BY <1>1, <1>7, EditedRow
  <2>2. row[m].status # "ERROR_BAD_QUERY"
    BY <1>1, <2>1 DEF Fresh
  <2> QED  BY <2>1, <2>2
<1>8. CASE row'[m] = Deleted
  BY <1>1, <1>8, DeletedRow
<1> HIDE DEF Same
<1> QED  BY <1>1, <1>2, <1>3, <1>4, <1>5, <1>6, <1>7, <1>8 DEF RowMove

(* So does a row that a job may land on still have the severity, and the   *)
(* moments of its last change and alert, that the job has claimed.         *)
LEMMA OwnKept ==
  ASSUME OneUser, TypeInv, TypeInv', TicksInv, ApartInv, EditInv, FreshInv, OwnInv, [Next]_vars
  PROVE  OwnInv'
<1> SUFFICES ASSUME NEW p \in Processors, Claimed(p)', NEW m \in Won(p)',
                    row'[m].lastPublishedAt = processor'[p].event.publishedAt, row'[m].status = "ACTIVE"
             PROVE  /\ row'[m].severity = processor'[p].prev[m].severity
                    /\ row'[m].severityChangedAt = processor'[p].prev[m].severityChangedAt
                    /\ row'[m].alertedAt = processor'[p].prev[m].alertedAt
  BY DEF OwnInv, Own
<1> DEFINE Goal ==
  /\ row'[m].severity = processor'[p].prev[m].severity
  /\ row'[m].severityChangedAt = processor'[p].prev[m].severityChangedAt
  /\ row'[m].alertedAt = processor'[p].prev[m].alertedAt
<1>1. ASSUME Claim(p), ClaimOf(p, processor'[p], Claims(processor[p].event)) PROVE Goal
  <2>1. m \in Claims(processor[p].event) /\ processor'[p].prev[m] = row[m]
    BY <1>1 DEF ClaimOf, Won
  <2>2. m \in MonitorIds /\ row'[m] = [row[m] EXCEPT !.lastClaimedAt = processor[p].now]
    <3>1. processor[p].event \in Events
      BY <1>1, ClaimEffect DEF TypeInv, StartedJob
    <3>2. m \in MonitorIds
      BY <2>1, <3>1 DEF Claims, Events
    <3> QED  BY <1>1, <2>1, <3>2, ClaimEffect DEF TypeInv
  <2> QED  BY <2>1, <2>2, ClaimedRow
<1>2. ASSUME Claimed(p), processor'[p].event = processor[p].event, processor'[p].prev = processor[p].prev
      PROVE  Goal
  <2> DEFINE e == processor[p].event
  <2>1. /\ m \in Won(p) /\ m \in e.monitors /\ e \in Live
    BY <1>2, OutcomeFacts, ClaimedTyped, PlacesLive DEF Won, TypeInv
  <2>2. processor'[p] # Free /\ processor'[p].event = e
    BY <1>2, FreeTyped DEF Claimed
  <2>3. e \in Live'
    BY <2>1, <2>2 DEF Live
  <2>4. Own(p, m)
    BY <1>2, <2>1 DEF OwnInv
  <2>5. /\ row[m].status = "ACTIVE" /\ row[m].lastPublishedAt = e.publishedAt
        /\ row'[m].severity = row[m].severity
        /\ row'[m].severityChangedAt = row[m].severityChangedAt
        /\ row'[m].alertedAt = row[m].alertedAt
    BY <2>1, <2>2, <2>3, RowUntouched
  <2> QED  BY <1>2, <2>4, <2>5 DEF Own
<1> QED  BY <1>1, <1>2, ClaimsMove

(* What holds while updates do not overlap.                                *)
LandInv == TypeInv /\ TicksInv /\ ApartInv /\ EditInv /\ FreshInv /\ OwnInv

(* The first state has no event, no job and no edit.                       *)
LEMMA LandInvInit == Init => LandInv
<1> SUFFICES ASSUME Init PROVE LandInv
  OBVIOUS
<1>1. TypeInv
  BY InitShaped
<1>2. /\ row = [m \in MonitorIds |-> NoRow] /\ scheduler = [s \in Schedulers |-> Waiting]
      /\ scheduledAt = Null /\ queue = {} /\ processor = [p \in Processors |-> Free]
      /\ user = [u \in Users |-> Free]
  BY DEF Init, Idle
<1>3. Live = {}
  BY <1>2, FreeTyped DEF Live
<1>4. \A m \in MonitorIds : /\ row[m].lastPublishedAt = Null /\ row[m].batch = row[m].shape
                            /\ row[m].status = "ABSENT"
  <2>1. /\ NoRow.lastPublishedAt = Null /\ NoRow.batch = NoRow.shape
        /\ NoRow.status = "ABSENT"
    BY DEF NoRow
  <2> QED  BY <1>2, <2>1
<1>5. \A s \in Schedulers : ~Unrun(s)
  BY <1>2, FreeTyped DEF Unrun
<1>6. TicksInv
  BY <1>2, <1>3, <1>4, <1>5 DEF TicksInv, Null
<1>7. ApartInv
  BY <1>2, <1>3, FreeTyped DEF ApartInv
<1>8. EditInv
  BY <1>2, <1>4 DEF EditInv, RowEdited, EditFits
<1>9. FreshInv /\ OwnInv
  BY <1>2, <1>3, FreeTyped DEF FreshInv, OwnInv, Claimed
<1> QED  BY <1>1, <1>6, <1>7, <1>8, <1>9 DEF LandInv

(* All of that is kept by every step, while updates do not overlap.        *)
LEMMA LandInvKept == ASSUME OneUser, LandInv, [Next]_vars PROVE LandInv'
<1> USE DEF LandInv
<1>1. TypeInv'
  BY TypeKept
<1> QED  BY <1>1, TicksKept, ApartKept, EditsKept, FreshKept, OwnKept

(* helpers.ts and processor.ts: while updates do not overlap, an outcome   *)
(* lands only on the row it was computed for: the severity it started from *)
(* is still there and the row has the shape that was queried. However many *)
(* schedulers and processors there are.                                    *)
THEOREM OutcomesLandOnTheirOwn == ASSUME OneUser PROVE Spec => []LandsOnItsOwn
<1>1. LandInv => LandsOnItsOwn
  <2> SUFFICES ASSUME LandInv, NEW p \in Processors, Claimed(p), NEW m \in MonitorIds, Lands(p, m)
               PROVE  /\ row[m].severity = processor[p].prev[m].severity
                      /\ row[m].shape = processor[p].event.shape
    BY DEF LandsOnItsOwn, Claimed
  <2>1. m \in Won(p) /\ row[m].status = "ACTIVE"
        /\ row[m].lastPublishedAt = processor[p].event.publishedAt
    BY DEF Lands, Won
  <2>2. Own(p, m)
    BY <2>1 DEF LandInv, OwnInv
  <2>3. processor[p].event \in Live /\ m \in processor[p].event.monitors
    BY <2>1, PlacesLive, OutcomeFacts, ClaimedTyped DEF LandInv, TypeInv
  <2>4. Fresh(processor[p].event, m)
    BY <2>3 DEF LandInv, FreshInv
  <2> QED  BY <2>1, <2>2, <2>4 DEF Own, Fresh
<1> QED  BY <1>1, LandInvInit, LandInvKept, PTL DEF Spec

(* helpers.ts:139: while updates do not overlap, a row's schedulerBatchId  *)
(* is the fingerprint of its own shape, so the scheduler queries for a row *)
(* what the row asks for. Two updates that overlap break it, as the run of *)
(* this property shows.                                                    *)
THEOREM FingerprintFitsOneUser == ASSUME OneUser PROVE Spec => []FingerprintFits
<1>1. LandInv => FingerprintFits
  BY DEF LandInv, EditInv, RowEdited, FingerprintFits
<1> QED  BY <1>1, LandInvInit, LandInvKept, PTL DEF Spec

-----------------------------------------------------------------------------
(* Time.                                                                   *)

(* The moments that the timing properties compare are numbers.             *)
LEMMA TimeTyped ==
  ASSUME TypeInv
  PROVE  /\ clock \in Nat /\ scheduledAt \in Nat /\ late \in Nat /\ scheduledAt <= clock
         /\ TTL \in Nat /\ Cadence \in Nat
         /\ \A s \in Schedulers : scheduler[s].tick \in Nat /\ scheduler[s].tick <= clock
         /\ \A m \in MonitorIds : /\ row[m].nextRunAt \in Nat /\ row[m].lastPublishedAt \in Nat
                                  /\ row[m].lastCompletedAt \in Nat
  BY MonitorConstants DEF TypeInv, Shaped, Past, TickPast, Ticks, Rows, Time, Null

(* Time passes only when the scheduler has run, or counts as late.         *)
LEMMA LateGrows ==
  ASSUME TypeInv, [Next]_vars
  PROVE  \/ clock' = clock /\ late' = late
         \/ /\ clock' = clock + 1 /\ scheduledAt' = scheduledAt /\ row' = row /\ scheduler' = scheduler
            /\ \/ scheduledAt = clock /\ late' = late
               \/ late' = late + 1
  BY DEF Next, vars, counters, WakeUp, Schedule, PublishEvent, PublishEventFails, StartJob, Claim, Complete,
     JobFails, PublishAlert, Create, Delete, UpdateReads, UpdateWrites, Tick

(* scheduler.ts: time that has passed since a tick woke up counts as late, *)
(* unless a later tick has run.                                            *)
LEMMA TicksInTime ==
  ASSUME TypeInv, TypeInv', InTimeInv, [Next]_vars, NEW s \in Schedulers
  PROVE  TickInTime(s)'
<1>1. /\ clock \in Nat /\ scheduledAt \in Nat /\ late \in Nat /\ scheduledAt <= clock
      /\ scheduler[s].tick \in Nat /\ scheduler[s].tick <= clock
      /\ scheduledAt' \in Nat /\ scheduledAt <= scheduledAt'
  BY TimeTyped, ScheduledAtGrows
<1>2. TickInTime(s)
  BY DEF InTimeInv
<1>3. ASSUME Unrun(s), scheduler'[s].tick = scheduler[s].tick, scheduledAt' < scheduler[s].tick
      PROVE  clock' <= scheduler'[s].tick + late'
  <2>1. scheduledAt < scheduler[s].tick
    BY <1>1, <1>3
  <2>2. clock <= scheduler[s].tick + late
    BY <1>2, <1>3, <2>1 DEF TickInTime
  <2>3. (clock' = clock /\ late' = late) \/ (clock' = clock + 1 /\ late' = late + 1)
    BY <1>1, <2>1, LateGrows
  <2> QED  BY <1>1, <1>3, <2>2, <2>3
<1>4. ASSUME WakeUp(s), scheduler'[s].tick = clock
      PROVE  clock' <= scheduler'[s].tick + late'
  BY <1>1, <1>4 DEF WakeUp, counters
<1> QED  BY <1>3, <1>4, UnrunMoves DEF TickInTime

(* scheduler.ts: a tick plans each due row for the next multiple of the    *)
(* cadence and publishes it again once it is older than the TTL; so no     *)
(* watched run waits longer than a TTL, a cadence and the moments without  *)
(* a scheduler.                                                            *)
LEMMA RunsInTime ==
  ASSUME OneUser, LandInv, TypeInv', InTimeInv, [Next]_vars, NEW m \in MonitorIds \ overtaken'
  PROVE  RunInTime(m)'
<1>1. /\ clock \in Nat /\ scheduledAt \in Nat /\ late \in Nat /\ scheduledAt <= clock
      /\ TTL \in Nat /\ Cadence \in Nat
      /\ row[m].nextRunAt \in Nat /\ row[m].lastPublishedAt \in Nat /\ row[m].lastCompletedAt \in Nat
  BY TimeTyped DEF LandInv
<1>2. RunInTime(m) /\ RowMove(m) /\ Shaped /\ TypeInv /\ EditInv /\ RowEdited(m)
  BY RowMoves, OvertakenGrows DEF InTimeInv, LandInv, TypeInv, EditInv
<1>3. ASSUME Watched(m), row'[m].nextRunAt = row[m].nextRunAt,
             row'[m].lastPublishedAt = row[m].lastPublishedAt,
             Uncompleted(row'[m]) => Uncompleted(row[m]),
             scheduledAt' = scheduledAt
      PROVE  RunInTime(m)'
  <2>1. /\ clock <= row[m].nextRunAt + late
        /\ row[m].nextRunAt <= row[m].lastPublishedAt + TTL + Cadence
        /\ Uncompleted(row[m]) => clock <= row[m].lastPublishedAt + TTL + 1 + late
        /\ scheduledAt = clock =>
             /\ clock < row[m].nextRunAt
             /\ Uncompleted(row[m]) => clock <= row[m].lastPublishedAt + TTL
    BY <1>2, <1>3 DEF RunInTime
  <2>2. \/ clock' = clock /\ late' = late
        \/ clock' = clock + 1 /\ ((scheduledAt = clock /\ late' = late) \/ late' = late + 1)
    BY LateGrows, <1>2
  <2>3. RunInTime(m)' <=> (Watched(m)' =>
           /\ clock' <= row'[m].nextRunAt + late'
           /\ row'[m].nextRunAt <= row'[m].lastPublishedAt + TTL + Cadence
           /\ Uncompleted(row'[m]) => clock' <= row'[m].lastPublishedAt + TTL + 1 + late'
           /\ scheduledAt' = clock' =>
                /\ clock' < row'[m].nextRunAt
                /\ Uncompleted(row'[m]) => clock' <= row'[m].lastPublishedAt + TTL)
    BY DEF RunInTime, Uncompleted
  <2>4. CASE clock' = clock /\ late' = late
    BY <1>3, <2>1, <2>3, <2>4
  <2>5. CASE clock' = clock + 1 /\ ((scheduledAt = clock /\ late' = late) \/ late' = late + 1)
    BY <1>1, <1>3, <2>1, <2>3, <2>5
  <2> QED  BY <2>2, <2>4, <2>5
<1>4. ASSUME NEW s \in Schedulers, Schedule(s) PROVE RunInTime(m)'
  <2> DEFINE t == scheduler[s].tick
  <2>1. /\ Unrun(s) /\ clock' = clock /\ late' = late
        /\ row'[m] = IF m \in Due(t) THEN Planned(m, s) ELSE row[m]
        /\ scheduledAt' = IF scheduledAt < t THEN t ELSE scheduledAt
    BY <1>2, <1>4, ScheduleEffect DEF counters
  <2>2. t \in Nat /\ t <= clock /\ (scheduledAt < t => clock <= t + late /\ scheduledAt' = t)
    BY <1>2, <2>1, TimeTyped DEF InTimeInv, TickInTime
  <2>3. m \in Due(t) => scheduledAt < t
    BY <1>2, <1>4, OvertakenGrows
  <2> HIDE DEF t
  <2>4. ASSUME m \in Due(t), scheduledAt < t, Watched(m)' PROVE RunInTime(m)'
    <3> DEFINE r == row'[m]
    <3>1. /\ r.nextRunAt \in Nat /\ t < r.nextRunAt /\ r.nextRunAt <= t + Cadence
          /\ r.lastPublishedAt = IF m \in Publishes(s) THEN t ELSE row[m].lastPublishedAt
          /\ r.lastCompletedAt = row[m].lastCompletedAt
      <4>1. r = Planned(m, s)
        BY <2>1, <2>4
      <4> HIDE DEF r
      <4>2. /\ Planned(m, s).nextRunAt = NextRunAt(t) /\ t < NextRunAt(t) /\ NextRunAt(t) <= t + Cadence
            /\ Planned(m, s).lastPublishedAt = IF m \in Publishes(s) THEN t ELSE row[m].lastPublishedAt
            /\ Planned(m, s).lastCompletedAt = row[m].lastCompletedAt
        BY <1>2, PlannedRow DEF t
      <4> QED  BY <2>2, <4>1, <4>2, NextRunLater
    <3>2. m \notin Publishes(s) => Uncompleted(row[m]) /\ t <= row[m].lastPublishedAt + TTL
      BY <2>4 DEF Publishes, Pending, t
    <3> HIDE DEF r
    <3>3. /\ clock <= r.nextRunAt + late
          /\ r.nextRunAt <= r.lastPublishedAt + TTL + Cadence
          /\ clock <= r.lastPublishedAt + TTL + late
          /\ t = clock => clock < r.nextRunAt /\ clock <= r.lastPublishedAt + TTL
      BY <1>1, <2>2, <2>4, <3>1, <3>2
    <3>4. r.lastPublishedAt \in Nat
      BY <1>1, <2>2, <3>1
    <3> QED  BY <1>1, <2>1, <2>2, <2>4, <3>3, <3>4 DEF RunInTime, r
  <2>5. ASSUME m \notin Due(t), scheduledAt < t, Watched(m)' PROVE RunInTime(m)'
    <3>1. row'[m] = row[m]
      BY <2>1, <2>5
    <3>2. Watched(m) /\ row[m].status = "ACTIVE"
      BY <2>5, <3>1 DEF Watched
    <3>3. ~(row[m].nextRunAt <= t) /\ (Uncompleted(row[m]) => ~(t > row[m].lastPublishedAt + TTL))
      BY <2>5, <3>2 DEF Due, Expired
    <3>4. /\ clock <= row[m].nextRunAt + late
          /\ row[m].nextRunAt <= row[m].lastPublishedAt + TTL + Cadence
          /\ Uncompleted(row[m]) => clock <= row[m].lastPublishedAt + TTL + 1 + late
      BY <1>2, <3>2 DEF RunInTime
    <3>5. t = clock => clock < row[m].nextRunAt
                       /\ (Uncompleted(row[m]) => clock <= row[m].lastPublishedAt + TTL)
      BY <1>1, <2>2, <3>3
    <3> QED  BY <2>1, <2>2, <2>5, <3>1, <3>4, <3>5 DEF RunInTime
  <2>6. ASSUME m \notin Due(t), ~(scheduledAt < t), Watched(m)' PROVE RunInTime(m)'
    <3>1. row'[m] = row[m] /\ scheduledAt' = scheduledAt
      BY <2>1, <2>6
    <3> QED  BY <1>3, <2>6, <3>1 DEF Watched, Uncompleted
  <2> QED  BY <2>3, <2>4, <2>5, <2>6 DEF RunInTime
<1>5. ASSUME \A s \in Schedulers : ~Schedule(s), Watched(m)' PROVE RunInTime(m)'
  <2>1. scheduledAt' = scheduledAt
    BY <1>5 DEF Next, vars, WakeUp, PublishEvent, PublishEventFails, StartJob, Claim, Complete,
       JobFails, PublishAlert, Create, Delete, UpdateReads, UpdateWrites, Tick
  <2>2. row'[m].status = "ACTIVE" /\ row'[m].severity # "PAUSED" /\ row'[m].lastPublishedAt # Null
    BY <1>5 DEF Watched
  <2>3. CASE row'[m] = row[m]
    BY <1>3, <2>1, <2>2, <2>3 DEF Watched
  <2>4. ASSUME NEW p \in Processors, row'[m] = [row[m] EXCEPT !.lastClaimedAt = processor[p].now]
        PROVE  RunInTime(m)'
    BY <1>2, <1>3, <2>1, <2>2, <2>4, ClaimedRow DEF Watched, Uncompleted
  <2>5. ASSUME NEW p \in Processors, Complete(p), Lands(p, m), m \in Won(p), row'[m] = Completed(p, m)
        PROVE  RunInTime(m)'
    <3>1. /\ Claimed(p) /\ row[m].status = "ACTIVE"
          /\ row[m].lastPublishedAt = processor[p].event.publishedAt
      BY <1>2, <2>5, CompleteEffect DEF Lands
    <3>2. row[m].severity = processor[p].prev[m].severity
      BY <2>5, <3>1 DEF LandInv, OwnInv, Own
    <3>3. /\ row'[m].nextRunAt = row[m].nextRunAt
          /\ row'[m].lastPublishedAt = row[m].lastPublishedAt
          /\ row'[m].lastCompletedAt = processor[p].now
          /\ row'[m].severity = processor[p].outcome[m].severity
      BY <1>2, <2>5, CompletedRow
    <3>4. processor[p].prev[m].severity # "PAUSED"
      <4>1. PICK value \in Values :
              processor[p].outcome[m] = Decide(m, processor[p].prev[m], value, processor[p].now)
        BY <1>2, <2>5, <3>1, OutcomeFacts
      <4>2. processor[p].prev[m] \in Rows /\ processor[p].now \in Time
        BY <1>2, <2>5, <3>1, ClaimedTyped
      <4> QED  BY <2>2, <3>3, <4>1, <4>2, DecideFacts
    <3>5. processor[p].event.publishedAt <= processor[p].now /\ processor[p].now \in Nat
      BY <1>2, <3>1, ClaimedTyped, MonitorConstants
         DEF TypeInv, Past, JobPast, PublishedPast, Time, Null
    <3>6. ~Uncompleted(row'[m])
      BY <1>1, <3>1, <3>3, <3>5 DEF Uncompleted
    <3> QED  BY <1>3, <2>1, <2>2, <3>1, <3>2, <3>3, <3>4, <3>6 DEF Watched
  <2>6. CASE Create(m)
    BY <1>2, <2>2, <2>6, CreateEffect DEF RowEdited
  <2>7. ASSUME NEW u \in Users, UpdateWrites(u), user[u].monitor = m, Exists(m),
               row'[m] = Updated(row[m], user[u])
        PROVE  RunInTime(m)'
    <3>1. /\ row'[m].severity = row[m].severity
          /\ row'[m].nextRunAt = row[m].nextRunAt
          /\ row'[m].lastCompletedAt = row[m].lastCompletedAt
          /\ row'[m].lastPublishedAt = row[m].lastPublishedAt
          /\ row[m].status = "ACTIVE" \/ row[m].status = "ERROR_BAD_QUERY"
      BY <1>2, <2>2, <2>7, EditedRow
    <3>2. row[m].status = "ACTIVE"
      BY <1>2, <2>2, <3>1 DEF RowEdited
    <3> QED  BY <1>3, <2>1, <2>2, <3>1, <3>2 DEF Watched, Uncompleted
  <2>8. CASE row'[m] = Deleted
    BY <2>2, <2>8, DeletedRow
  <2> QED  BY <1>2, <1>5, <2>3, <2>4, <2>5, <2>6, <2>7, <2>8 DEF RowMove
<1> QED  BY <1>4, <1>5 DEF RunInTime

(* The first state has no tick and no run.                                 *)
LEMMA InTimeInit == Init => InTimeInv
<1> SUFFICES ASSUME Init PROVE InTimeInv
  OBVIOUS
<1>1. /\ row = [m \in MonitorIds |-> NoRow] /\ scheduler = [s \in Schedulers |-> Waiting]
  BY DEF Init, Idle
<1>2. NoRow.status = "ABSENT"
  BY DEF NoRow
<1> QED  BY <1>1, <1>2, FreeTyped DEF InTimeInv, TickInTime, RunInTime, Unrun, Watched

(* Every step keeps ticks and runs in time.                                *)
LEMMA InTimeKept == ASSUME OneUser, LandInv, InTimeInv, [Next]_vars PROVE InTimeInv'
<1>1. LandInv' /\ TypeInv /\ TypeInv'
  BY LandInvKept DEF LandInv
<1> QED  BY <1>1, TicksInTime, RunsInTime DEF InTimeInv

(* scheduler.ts: while updates do not overlap, a monitor is published at   *)
(* least once in a TTL and a cadence, and a run whose event or job was     *)
(* lost is published again as soon as it is older than the TTL; both up to *)
(* the moments at which no scheduler ran. However many schedulers there    *)
(* are, but for the monitors that one of them planned with a tick older    *)
(* than the last.                                                          *)
THEOREM RunsArePublishedInTime == ASSUME OneUser PROVE Spec => []PublishedInTime
<1>1. Init => LandInv /\ InTimeInv
  BY LandInvInit, InTimeInit
<1>2. LandInv /\ InTimeInv /\ [Next]_vars => (LandInv /\ InTimeInv)'
  BY LandInvKept, InTimeKept
<1>3. LandInv /\ InTimeInv => PublishedInTime
  <2> SUFFICES ASSUME LandInv, InTimeInv, NEW m \in MonitorIds \ overtaken, Watched(m)
               PROVE  /\ clock <= row[m].lastPublishedAt + TTL + Cadence + late
                      /\ Uncompleted(row[m]) => clock <= row[m].lastPublishedAt + TTL + 1 + late
    BY DEF PublishedInTime, Watched
  <2>1. RunInTime(m)
    BY DEF InTimeInv
  <2> QED  BY <2>1, TimeTyped DEF RunInTime, LandInv
<1> QED  BY <1>1, <1>2, <1>3, PTL DEF Spec

-----------------------------------------------------------------------------
(* Alerts that are published or about to be.                               *)

(* A candidate is published, or is one that a job is about to publish.     *)
LEMMA CandidatePlaces ==
  ASSUME NEW a \in Candidates
  PROVE  \/ a \in alerts
         \/ \E p \in Processors : Claimed(p) /\ \E m \in processor[p].todo : a = Alert(p, m)
<1>1. a \in alerts \/ \E p \in Processors : a \in Announcing(p)
  BY DEF Candidates
<1> QED  BY <1>1 DEF Announcing

(* And conversely.                                                         *)
LEMMA PlacesCandidate ==
  /\ alerts \subseteq Candidates
  /\ \A p \in Processors : Claimed(p) => \A m \in processor[p].todo : Alert(p, m) \in Candidates
<1>1. \A p \in Processors : Announcing(p) \subseteq Candidates
  BY DEF Candidates
<1> QED  BY <1>1 DEF Candidates, Announcing

(* A candidate is an alert of a monitor.                                   *)
LEMMA CandidateTyped ==
  ASSUME TypeInv, NEW a \in Candidates
  PROVE  /\ a \in Alerts /\ a.monitor \in MonitorIds /\ a.publishedAt \in Nat
         /\ a.crossing[1] \in Nat /\ a.crossing[3] \in Nat /\ a.crossing[4] \in Nat
<1>1. a \in Alerts
  <2>1. ASSUME NEW p \in Processors, Claimed(p), NEW m \in processor[p].todo PROVE Alert(p, m) \in Alerts
    BY <2>1, ClaimedTyped, AlertTyped DEF TypeInv
  <2> QED  BY <2>1, CandidatePlaces DEF TypeInv, Shaped
<1>2. a.crossing \in Nat \X Severities \X Time \X Time
  BY <1>1 DEF Alerts
<1>3. a.crossing[1] \in Nat /\ a.crossing[3] \in Time /\ a.crossing[4] \in Time
  BY <1>2
<1>4. Time \subseteq Nat
  BY MonitorConstants DEF Time, Null
<1> QED  BY <1>1, <1>3, <1>4 DEF Alerts

(* The alert of a row that a job has just claimed.                         *)
NewAlert(p, a) ==
  /\ Claim(p) /\ processor[p] # Free /\ processor'[p].at = "claimed"
  /\ ClaimOf(p, processor'[p], Claims(processor[p].event))
  /\ a.monitor \in Claims(processor[p].event)
  /\ processor'[p].outcome[a.monitor].emit
  /\ a.publishedAt = processor[p].event.publishedAt
  /\ a.crossing = <<resets[a.monitor], row[a.monitor].severity, row[a.monitor].severityChangedAt,
                    row[a.monitor].alertedAt>>
  /\ a = Alert(p, a.monitor)'

(* A step adds no candidate but by a claim.                                *)
LEMMA CandidatesMove ==
  ASSUME TypeInv, TypeInv', [Next]_vars, NEW a \in Candidates'
  PROVE  a \in Candidates \/ \E p \in Processors : NewAlert(p, a)
<1>1. CASE a \in alerts'
  <2>1. ASSUME NEW p \in Processors, NEW m \in MonitorIds, PublishAlert(p, m) PROVE a \in Candidates
    BY <1>1, <2>1, PublishAlertEffect, PlacesCandidate DEF TypeInv
  <2>2. alerts' = alerts \/ \E p \in Processors : \E m \in MonitorIds : PublishAlert(p, m)
    BY DEF Next, vars, WakeUp, Schedule, PublishEvent, PublishEventFails, StartJob, Claim, Complete,
       JobFails, Create, Delete, UpdateReads, UpdateWrites, Tick
  <2> QED  BY <1>1, <2>1, <2>2, PlacesCandidate
<1>2. ASSUME NEW p \in Processors, a \in Announcing(p)' PROVE a \in Candidates \/ NewAlert(p, a)
  <2>1. PICK m \in processor'[p].todo : Claimed(p)' /\ a = Alert(p, m)'
    BY <1>2 DEF Announcing
  <2>2. a.monitor = m /\ a.publishedAt = processor'[p].event.publishedAt
        /\ a.crossing = <<processor'[p].edition[m], processor'[p].prev[m].severity,
                          processor'[p].prev[m].severityChangedAt, processor'[p].prev[m].alertedAt>>
    BY <2>1 DEF Alert
  <2>3. ASSUME Claimed(p),
               processor'[p].event = processor[p].event, processor'[p].prev = processor[p].prev,
               processor'[p].outcome = processor[p].outcome, processor'[p].now = processor[p].now,
               processor'[p].edition = processor[p].edition,
               processor'[p].todo \subseteq processor[p].todo
        PROVE  a \in Candidates
    <3>1. a = Alert(p, m)
      BY <2>1, <2>3 DEF Alert
    <3> QED  BY <2>1, <2>3, <3>1, PlacesCandidate
  <2>4. ASSUME Claim(p), ClaimOf(p, processor'[p], Claims(processor[p].event)), processor[p] # Free
        PROVE  NewAlert(p, a)
    <3>1. /\ m \in Claims(processor[p].event) /\ processor'[p].outcome[m].emit
          /\ processor'[p].prev[m] = row[m] /\ processor'[p].edition[m] = resets[m]
          /\ processor'[p].event = processor[p].event /\ processor'[p].at = "claimed"
      BY <2>1, <2>4 DEF ClaimOf
    <3> QED  BY <2>1, <2>2, <2>4, <3>1 DEF NewAlert
  <2> QED  BY <2>1, <2>3, <2>4, ClaimsMove
<1>3. a \in alerts' \/ \E p \in Processors : a \in Announcing(p)'
  BY DEF Candidates
<1> QED  BY <1>1, <1>2, <1>3

(* What the row and the event of a new alert are like: the row was ACTIVE, *)
(* published and not yet completed, and nobody else holds its event.       *)
LEMMA NewAlertFacts ==
  ASSUME TypeInv, TypeInv', [Next]_vars, NEW p \in Processors, NEW a \in Candidates', NewAlert(p, a)
  PROVE  LET m == a.monitor IN
         /\ m \in MonitorIds /\ row[m].status = "ACTIVE" /\ row[m].severity # "PAUSED"
         /\ row[m].lastPublishedAt # Null /\ row[m].lastPublishedAt <= processor[p].event.publishedAt
         /\ row[m].lastCompletedAt < processor[p].event.publishedAt
         /\ processor[p].event \in Live /\ m \in processor[p].event.monitors
         /\ ~Claimed(p)
         /\ row'[m] = [row[m] EXCEPT !.lastClaimedAt = processor[p].now]
<1> DEFINE m == a.monitor
<1>1. /\ Claim(p) /\ processor[p] # Free /\ m \in Claims(processor[p].event)
      /\ ClaimOf(p, processor'[p], Claims(processor[p].event)) /\ processor'[p].outcome[m].emit
      /\ a.crossing[2] = row[m].severity
  BY DEF NewAlert
<1>2. /\ row[m].status = "ACTIVE" /\ row[m].lastPublishedAt # Null
      /\ row[m].lastPublishedAt <= processor[p].event.publishedAt
      /\ row[m].lastCompletedAt < processor[p].event.publishedAt
      /\ m \in processor[p].event.monitors
  BY <1>1 DEF Claims
<1>3. processor[p].event \in Live /\ m \in MonitorIds /\ processor[p].now \in Time
  BY <1>1, <1>2, PlacesLive, LiveTyped, WorkingTyped DEF TypeInv
<1>4. /\ processor[p].at = "started"
      /\ row'[m] = [row[m] EXCEPT !.lastClaimedAt = processor[p].now]
  BY <1>1, <1>3, ClaimEffect DEF TypeInv, StartedJob
<1>5. row[m].severity # "PAUSED"
  <2>1. PICK value \in Values :
          processor'[p].outcome[m] = Decide(m, row[m], value, processor[p].now)
    BY <1>1 DEF ClaimOf
  <2>2. row[m] \in Rows
    BY <1>3 DEF TypeInv, Shaped
  <2> QED  BY <1>1, <1>3, <2>1, <2>2, DecideFacts
<1> QED  BY <1>2, <1>3, <1>4, <1>5 DEF Claimed

(* The latest tick to run is later than every event and every publication. *)
LEMMA TicksAreNew ==
  ASSUME LandInv, NEW s \in Schedulers, Schedule(s), scheduledAt < scheduler[s].tick
  PROVE  /\ scheduler[s].tick \in Nat /\ scheduler[s].tick # Null
         /\ \A e \in Live : e.publishedAt < scheduler[s].tick
         /\ \A m \in MonitorIds : row[m].lastPublishedAt < scheduler[s].tick
<1>1. Unrun(s)
  BY ScheduleEffect DEF LandInv, TypeInv
<1>2. scheduledAt \in Nat /\ scheduler[s].tick \in Nat
  BY TimeTyped DEF LandInv
<1>3. \A e \in Live : e.publishedAt <= scheduledAt /\ e.publishedAt \in Nat
  BY LiveTyped DEF LandInv, TicksInv
<1>4. \A m \in MonitorIds : row[m].lastPublishedAt <= scheduledAt /\ row[m].lastPublishedAt \in Nat
  BY TimeTyped DEF LandInv, TicksInv
<1> QED  BY <1>1, <1>2, <1>3, <1>4 DEF Unrun

(* No row becomes ABSENT.                                                  *)
LEMMA RowsStay ==
  ASSUME LandInv, [Next]_vars, NEW m \in MonitorIds, row[m].status # "ABSENT"
  PROVE  row'[m].status # "ABSENT"
<1>1. Shaped /\ TypeInv /\ EditInv /\ RowMove(m)
  BY RowMoves DEF LandInv, TypeInv
<1>2. ASSUME NEW s \in Schedulers, row'[m] = Planned(m, s) PROVE row'[m].status = row[m].status
  BY <1>1, <1>2, PlannedRow
<1>3. ASSUME NEW p \in Processors, row'[m] = [row[m] EXCEPT !.lastClaimedAt = processor[p].now]
      PROVE  row'[m].status = row[m].status
  BY <1>1, <1>3, ClaimedRow
<1>4. ASSUME NEW p \in Processors, Complete(p), m \in Won(p), row'[m] = Completed(p, m)
      PROVE  row'[m].status # "ABSENT"
  <2>1. Claimed(p)
    BY <1>1, <1>4, CompleteEffect
  <2>2. processor[p].outcome[m].status \in {"ACTIVE", "ERROR_BAD_QUERY"}
    BY <1>1, <1>4, <2>1, OutcomeFacts
  <2> QED  BY <1>1, <1>4, <2>2, CompletedRow
<1>5. ~Create(m)
  BY <1>1, CreateEffect
<1>6. ASSUME NEW u \in Users, UpdateWrites(u), user[u].monitor = m, Exists(m),
             row'[m] = Updated(row[m], user[u])
      PROVE  row'[m].status # "ABSENT"
  BY <1>1, <1>6, EditedRow
<1> QED  BY <1>1, <1>2, <1>3, <1>4, <1>5, <1>6, DeletedRow DEF RowMove

(* scheduler.ts: a row that is in an event is published no earlier than by *)
(* it, or has been cleared since.                                          *)
LEMMA AheadKept ==
  ASSUME LandInv, LandInv', AheadInv, [Next]_vars
  PROVE  AheadInv'
<1> SUFFICES ASSUME NEW e \in Live', NEW m \in e.monitors \ overtaken'
             PROVE  /\ row'[m].status # "ABSENT"
                    /\ row'[m].lastPublishedAt = Null \/ e.publishedAt <= row'[m].lastPublishedAt
  BY DEF AheadInv, Ahead
<1>1. TypeInv /\ TypeInv' /\ Shaped /\ m \notin overtaken
  BY OvertakenGrows DEF LandInv, TypeInv
<1>2. ASSUME NEW s \in Schedulers, Schedule(s), EventsOf(s, scheduler'[s].todo), e \in scheduler'[s].todo
      PROVE  row'[m].status # "ABSENT" /\ e.publishedAt <= row'[m].lastPublishedAt
  <2>1. e.publishedAt = scheduler[s].tick /\ m \in Publishes(s)
    BY <1>2 DEF EventsOf
  <2>2. m \in MonitorIds /\ row[m].status = "ACTIVE" /\ m \in Due(scheduler[s].tick)
    BY <2>1 DEF Publishes, Due
  <2>3. row'[m] = Planned(m, s)
    BY <1>1, <1>2, <2>2, ScheduleEffect
  <2>4. row'[m].lastPublishedAt = scheduler[s].tick /\ row'[m].status = "ACTIVE"
    BY <1>1, <2>1, <2>2, <2>3, PlannedRow
  <2>5. scheduler[s].tick \in Nat
    BY <1>1, TimeTyped
  <2> QED  BY <2>1, <2>4, <2>5
<1>3. ASSUME e \in Live
      PROVE  /\ row'[m].status # "ABSENT"
             /\ row'[m].lastPublishedAt = Null \/ e.publishedAt <= row'[m].lastPublishedAt
  <2>1. Ahead(e, m) /\ m \in MonitorIds /\ e.publishedAt \in Nat
    BY <1>1, <1>3, LiveTyped DEF AheadInv
  <2>2. row'[m].status # "ABSENT"
    BY <2>1, RowsStay DEF Ahead
  <2>3. ASSUME NEW s \in Schedulers, Schedule(s), m \in Publishes(s)
        PROVE  e.publishedAt < scheduler[s].tick
    <3>1. scheduledAt < scheduler[s].tick
      BY <1>1, <2>3, OvertakenGrows DEF Publishes
    <3> QED  BY <1>3, <2>3, <3>1, TicksAreNew
  <2>4. \/ row'[m].lastPublishedAt \in {row[m].lastPublishedAt, Null}
        \/ \E s \in Schedulers : /\ Schedule(s) /\ m \in Publishes(s)
                                 /\ row'[m].lastPublishedAt = scheduler[s].tick
    BY <1>1, <2>1, LastPublishedMoves
  <2>5. \A s \in Schedulers : scheduler[s].tick \in Nat
    BY <1>1, TimeTyped
  <2> QED  BY <2>1, <2>2, <2>3, <2>4, <2>5 DEF Ahead
<1> QED  BY <1>1, <1>2, <1>3, LiveMoves

(* A job that has claimed keeps what it claimed.                           *)
LEMMA ClaimsStay ==
  ASSUME TypeInv, [Next]_vars, NEW p \in Processors, Claimed(p)
  PROVE  \/ processor'[p] = Free
         \/ /\ Claimed(p)'
            /\ processor'[p].event = processor[p].event /\ processor'[p].prev = processor[p].prev
            /\ processor'[p].outcome = processor[p].outcome /\ processor'[p].now = processor[p].now
            /\ processor'[p].edition = processor[p].edition
<1>1. Shaped /\ processor \in [Processors -> Jobs] /\ processor[p].at = "claimed"
  BY DEF TypeInv, Shaped, Claimed
<1>2. ASSUME NEW q \in Processors, StartJob(q) PROVE processor'[p] = processor[p]
  BY <1>1, <1>2, StartJobEffect, FreeTyped
<1>3. ASSUME NEW q \in Processors, Claim(q) PROVE processor'[p] = processor[p]
  BY <1>1, <1>3, ClaimEffect DEF StartedJob
<1>4. ASSUME NEW q \in Processors, NEW m \in MonitorIds, PublishAlert(q, m)
      PROVE  /\ Claimed(p)'
             /\ processor'[p].event = processor[p].event /\ processor'[p].prev = processor[p].prev
             /\ processor'[p].outcome = processor[p].outcome /\ processor'[p].now = processor[p].now
             /\ processor'[p].edition = processor[p].edition
  BY <1>1, <1>4, PublishAlertEffect DEF Claimed
<1>5. ASSUME NEW q \in Processors, Complete(q) \/ JobFails(q)
      PROVE  processor'[p] = processor[p] \/ processor'[p] = Free
  <2>1. processor' = [processor EXCEPT ![q] = Free]
    BY <1>5 DEF Complete, JobFails
  <2> QED  BY <1>1, <2>1
<1>6. \/ processor' = processor
      \/ \E q \in Processors : StartJob(q) \/ Claim(q) \/ Complete(q) \/ JobFails(q)
                               \/ \E n \in MonitorIds : PublishAlert(q, n)
  BY DEF Next, vars, WakeUp, Schedule, PublishEvent, PublishEventFails, Create, Delete, UpdateReads,
     UpdateWrites, Tick
<1> QED  BY <1>1, <1>2, <1>3, <1>4, <1>5, <1>6 DEF Claimed

(* Two jobs never alert for one publication: it has one event, and that    *)
(* event one job at a time.                                                *)
LEMMA HeldKept ==
  ASSUME LandInv, LandInv', CandidatesInv, HeldInv, [Next]_vars
  PROVE  HeldInv'
<1> SUFFICES ASSUME NEW e \in Live', NEW a \in Candidates', a.publishedAt = e.publishedAt,
                    a.monitor \in e.monitors \ overtaken'
             PROVE  \E p \in Processors : Holds(p, e, a)'
  BY DEF HeldInv
<1>1. TypeInv /\ TypeInv' /\ ApartInv /\ a.monitor \notin overtaken
  BY OvertakenGrows DEF LandInv
<1>2. ASSUME a \in Candidates, e \in Live PROVE \E p \in Processors : Holds(p, e, a)'
  <2>1. PICK p \in Processors : Holds(p, e, a)
    BY <1>1, <1>2 DEF HeldInv
  <2>2. Claimed(p) /\ processor[p] # Free /\ processor[p].event = e
    BY <1>1, <2>1, ClaimedTyped DEF Holds, TypeInv
  <2>3. processor'[p] # Free
    BY <1>1, <2>2, EventsEnd
  <2>4. /\ Claimed(p)'
        /\ processor'[p].event = processor[p].event /\ processor'[p].prev = processor[p].prev
        /\ processor'[p].outcome = processor[p].outcome /\ processor'[p].now = processor[p].now
        /\ processor'[p].edition = processor[p].edition
    BY <1>1, <2>2, <2>3, ClaimsStay
  <2>5. Alert(p, a.monitor)' = Alert(p, a.monitor) /\ Won(p)' = Won(p)
    BY <2>4 DEF Alert, Won
  <2> QED  BY <2>1, <2>4, <2>5 DEF Holds
<1>3. ASSUME NEW s \in Schedulers, Schedule(s), EventsOf(s, scheduler'[s].todo), e \in scheduler'[s].todo
      PROVE  FALSE
  <2>1. /\ e.publishedAt = scheduler[s].tick /\ scheduler[s].tick \in Nat
        /\ scheduledAt < scheduler[s].tick
        /\ \A f \in Live : f.publishedAt < scheduler[s].tick
    <3>1. e.publishedAt = scheduler[s].tick /\ a.monitor \in Due(scheduler[s].tick)
      BY <1>3 DEF EventsOf, Publishes
    <3>2. scheduledAt < scheduler[s].tick
      BY <1>1, <1>3, <3>1, OvertakenGrows
    <3> QED  BY <1>3, <3>1, <3>2, TicksAreNew
  <2>2. CASE a \in Candidates
    BY <1>1, <2>1, <2>2, TimeTyped DEF CandidatesInv, CandidateInv
  <2>3. ASSUME NEW p \in Processors, NewAlert(p, a) PROVE FALSE
    <3>1. a.publishedAt = processor[p].event.publishedAt /\ processor[p].event \in Live
      BY <1>1, <2>3, NewAlertFacts DEF NewAlert
    <3> QED  BY <2>1, <3>1
  <2> QED  BY <1>1, <2>2, <2>3, CandidatesMove
<1>4. ASSUME e \in Live, NEW p \in Processors, NewAlert(p, a) PROVE Holds(p, e, a)'
  <2>1. /\ processor[p].event \in Live /\ a.monitor \in processor[p].event.monitors
        /\ a.publishedAt = processor[p].event.publishedAt
    BY <1>1, <1>4, NewAlertFacts DEF NewAlert
  <2>2. e = processor[p].event
    BY <1>1, <1>4, <2>1 DEF ApartInv, Apart
  <2> QED  BY <1>4, <2>2 DEF NewAlert, ClaimOf, Holds, Claimed, Won
<1> QED  BY <1>1, <1>2, <1>3, <1>4, CandidatesMove, LiveMoves

(* A job that may land on a row has seen all that was written to it.       *)
LEMMA StartedKept ==
  ASSUME OneUser, LandInv, LandInv', StartedInv, [Next]_vars
  PROVE  StartedInv'
<1> SUFFICES ASSUME NEW p \in Processors, processor'[p] # Free, NEW m \in processor'[p].event.monitors,
                    row'[m].lastPublishedAt = processor'[p].event.publishedAt, row'[m].status = "ACTIVE"
             PROVE  /\ row'[m].severityChangedAt <= processor'[p].now
                    /\ row'[m].alertedAt <= processor'[p].now
                    /\ Claimed(p)' /\ m \in Won(p)' =>
                         row'[m].lastCompletedAt < processor'[p].event.publishedAt
  BY DEF StartedInv, Started
<1>1. TypeInv /\ TypeInv' /\ TicksInv /\ ApartInv /\ EditInv /\ FreshInv /\ Shaped /\ Shaped'
  BY DEF LandInv, TypeInv
<1>2. CASE StartJob(p)
  <2>1. PICK e \in queue : \E j \in StartedJob :
          processor' = [processor EXCEPT ![p] = j] /\ j.at = "started" /\ j.event = e /\ j.now = clock
    BY <1>1, <1>2, StartJobEffect
  <2>2. processor'[p].now = clock /\ ~Claimed(p)' /\ processor'[p].event = e /\ e \in Events
    BY <1>1, <2>1 DEF Claimed, Shaped
  <2>3. row' = row /\ m \in MonitorIds
    BY <1>1, <1>2, <2>2, StartJobEffect DEF Events
  <2>4. row[m].severityChangedAt <= clock /\ row[m].alertedAt <= clock
    BY <1>1, <2>3 DEF TypeInv, Past, RowPast
  <2> QED  BY <2>2, <2>3, <2>4
<1>3. ASSUME processor[p] # Free, processor'[p].event = processor[p].event,
             processor'[p].now = processor[p].now
      PROVE  /\ row'[m].severityChangedAt <= processor'[p].now
             /\ row'[m].alertedAt <= processor'[p].now
             /\ Claimed(p)' /\ m \in Won(p)' =>
                  row'[m].lastCompletedAt < processor'[p].event.publishedAt
  <2> DEFINE e == processor[p].event
  <2>1. e \in Live /\ e \in Live' /\ m \in e.monitors
    BY <1>1, <1>3, PlacesLive DEF Live
  <2>2. /\ row[m].status = "ACTIVE" /\ row[m].lastPublishedAt = e.publishedAt
        /\ row'[m].severityChangedAt = row[m].severityChangedAt
        /\ row'[m].alertedAt = row[m].alertedAt
        /\ row'[m].lastCompletedAt = row[m].lastCompletedAt
    BY <1>1, <1>3, <2>1, RowUntouched
  <2>3. Started(p, m)
    BY <1>3, <2>1 DEF StartedInv
  <2>4. ASSUME Claimed(p)', m \in Won(p)' PROVE row[m].lastCompletedAt < e.publishedAt
    <3>1. CASE Claimed(p) /\ processor'[p].prev = processor[p].prev
      BY <2>2, <2>3, <2>4, <3>1 DEF Started, Won
    <3>2. CASE ClaimOf(p, processor'[p], Claims(e))
      BY <2>4, <3>2 DEF ClaimOf, Won, Claims
    <3> QED  BY <1>1, <2>4, <3>1, <3>2, ClaimsMove
  <2> QED  BY <1>3, <2>2, <2>3, <2>4 DEF Started
<1> QED  BY <1>1, <1>2, <1>3, EventsKept

(* What a step does to the edition of a row.                               *)
LEMMA ResetsMove ==
  ASSUME TypeInv, [Next]_vars, NEW m \in MonitorIds
  PROVE  /\ resets[m] \in Nat /\ resets'[m] \in Nat /\ resets[m] <= resets'[m]
         /\ \A u \in Users : UpdateWrites(u) /\ user[u].monitor = m /\ Exists(m) /\ Restarts(user[u]) =>
              resets'[m] = resets[m] + 1
<1>1. Shaped /\ resets \in [MonitorIds -> Nat]
  BY DEF TypeInv, Shaped
<1>2. ASSUME NEW u \in Users, UpdateWrites(u)
      PROVE  /\ resets'[m] \in Nat /\ resets[m] <= resets'[m]
             /\ user[u].monitor = m /\ Exists(m) /\ Restarts(user[u]) => resets'[m] = resets[m] + 1
  BY <1>1, <1>2, UpdateWritesEffect
<1>3. resets' = resets \/ \E u \in Users : UpdateWrites(u)
  BY DEF Next, vars, WakeUp, Schedule, PublishEvent, PublishEventFails, StartJob, Claim, Complete,
     JobFails, PublishAlert, Create, Delete, UpdateReads, Tick
<1> QED  BY <1>1, <1>2, <1>3

(* An alert that was there before the step keeps its bearing on its row.   *)
AlertFits(a) ==
  /\ a.crossing[3] <= row[a.monitor].severityChangedAt
  /\ a.crossing[4] <= row[a.monitor].alertedAt
  /\ a.publishedAt <= row[a.monitor].lastPublishedAt
  /\ Settled(a)

(* A step that leaves the fields an alert is compared with.                *)
LEMMA FitsStill ==
  ASSUME NEW a, AlertFits(a),
         LET r == row[a.monitor]
             t == row'[a.monitor]
         IN  /\ t.severity = r.severity /\ t.severityChangedAt = r.severityChangedAt
             /\ t.alertedAt = r.alertedAt /\ t.lastCompletedAt = r.lastCompletedAt
             /\ t.lastPublishedAt = r.lastPublishedAt
  PROVE  AlertFits(a)'
  BY DEF AlertFits, Settled, Moved

(* A new publication of the row: either later than the alert's by more     *)
(* than a TTL, or of a row that has been completed since.                  *)
LEMMA FitsScheduled ==
  ASSUME LandInv, [Next]_vars, NEW a \in Candidates, CandidateInv(a), AlertFits(a),
         NEW s \in Schedulers, Schedule(s), scheduledAt < scheduler[s].tick, row'[a.monitor] = Planned(a.monitor, s)
  PROVE  AlertFits(a)'
<1> DEFINE m == a.monitor
           t == scheduler[s].tick
<1>1. TypeInv /\ Shaped /\ a.publishedAt \in Nat /\ m \in MonitorIds
  BY CandidateTyped DEF LandInv, TypeInv
<1>2. /\ t \in Nat /\ row[m].lastPublishedAt < t /\ t # Null
      /\ row[m].lastPublishedAt \in Nat /\ row[m].lastCompletedAt \in Nat /\ TTL \in Nat
  BY <1>1, TicksAreNew, TimeTyped
<1>3. /\ row'[m].severity = row[m].severity
      /\ row'[m].severityChangedAt = row[m].severityChangedAt
      /\ row'[m].alertedAt = row[m].alertedAt
      /\ row'[m].lastCompletedAt = row[m].lastCompletedAt
      /\ row'[m].lastPublishedAt = IF m \in Publishes(s) THEN t ELSE row[m].lastPublishedAt
  BY <1>1, PlannedRow
<1>4. CASE m \notin Publishes(s)
  BY <1>3, <1>4, FitsStill
<1>5. CASE m \in Publishes(s)
  <2>1. /\ a.crossing[3] <= row[m].severityChangedAt
        /\ a.crossing[4] <= row[m].alertedAt
        /\ a.publishedAt <= row[m].lastPublishedAt
        /\ Settled(a)
    BY DEF AlertFits
  <2>2. row'[m].lastPublishedAt = t /\ ~Pending(row[m], t)
    BY <1>3, <1>5 DEF Publishes
  <2>3. a.publishedAt <= row'[m].lastPublishedAt
    BY <1>1, <1>2, <2>1, <2>2
  <2>4. Moved(a) => Moved(a)'
    BY <1>3 DEF Moved
  <2>5. row[m].lastPublishedAt > a.publishedAt + TTL => row'[m].lastPublishedAt > a.publishedAt + TTL
    BY <1>1, <1>2, <2>2
  <2>6. ASSUME row[m].lastPublishedAt = a.publishedAt, row[m].lastCompletedAt < a.publishedAt
        PROVE  row'[m].lastPublishedAt > a.publishedAt + TTL
    <3>1. Uncompleted(row[m])
      BY <1>2, <2>6 DEF Uncompleted, Null
    <3> QED  BY <1>1, <1>2, <2>2, <2>6, <3>1 DEF Pending
  <2>7. Settled(a)'
    BY <1>3, <2>1, <2>4, <2>5, <2>6 DEF Settled
  <2> QED  BY <1>3, <2>1, <2>3, <2>7 DEF AlertFits
<1> QED  BY <1>4, <1>5

(* A completion: the outcome of the alert itself moves the row on, and any *)
(* other one does not bring it back.                                       *)
LEMMA FitsCompleted ==
  ASSUME LandInv, HeldInv, StartedInv, NEW a \in Candidates, a.monitor \notin overtaken,
         CandidateInv(a), AlertFits(a),
         NEW p \in Processors, Complete(p), Lands(p, a.monitor), a.monitor \in Won(p),
         row'[a.monitor] = Completed(p, a.monitor)
  PROVE  AlertFits(a)'
<1> DEFINE m == a.monitor
           r == row[m]
           c == processor[p].outcome[m]
           prev == processor[p].prev[m]
           now == processor[p].now
<1>1. /\ TypeInv /\ Shaped /\ ApartInv /\ OwnInv /\ m \in MonitorIds /\ a.publishedAt \in Nat
      /\ a.crossing[3] \in Nat /\ a.crossing[4] \in Nat
  BY CandidateTyped DEF LandInv, TypeInv
<1>2. Claimed(p) /\ processor[p] # Free
  BY <1>1, CompleteEffect, ClaimedTyped
<1>3. /\ r.status = "ACTIVE" /\ r.lastPublishedAt = processor[p].event.publishedAt
      /\ m \in processor[p].event.monitors
  BY <1>2, <1>1, OutcomeFacts DEF Lands
<1>4. /\ r.severity = prev.severity /\ r.severityChangedAt = prev.severityChangedAt
      /\ r.alertedAt = prev.alertedAt
  BY <1>1, <1>2, <1>3 DEF OwnInv, Own
<1>5. /\ r.severityChangedAt <= now /\ r.alertedAt <= now
      /\ r.lastCompletedAt < processor[p].event.publishedAt
  BY <1>2, <1>3 DEF StartedInv, Started
<1>6. /\ now \in Nat /\ now \in Time /\ now # Null /\ processor[p].event.publishedAt \in Nat
      /\ processor[p].event.publishedAt <= now
  BY <1>1, <1>2, WorkingTyped, MonitorConstants
     DEF TypeInv, Past, JobPast, PublishedPast, Time, Null, Events
<1>7. /\ prev \in Rows /\ prev.severityChangedAt \in Nat /\ prev.alertedAt \in Nat
      /\ r.lastCompletedAt \in Nat
  BY <1>1, <1>2, ClaimedTyped, TimeTyped, MonitorConstants DEF Rows, Time, Null
<1>8. PICK value \in Values : c = Decide(m, prev, value, now)
  BY <1>1, <1>2, OutcomeFacts
<1>9. /\ c.severityChangedAt \in {prev.severityChangedAt, now}
      /\ c.alertedAt = IF c.emit THEN now ELSE prev.alertedAt
      /\ prev.severity = "PAUSED" => c.severity = "PAUSED"
      /\ c.severity # prev.severity => c.severityChangedAt = now
      /\ c.emit /\ c.severity = prev.severity /\ prev.alertedAt <= now /\ prev.severityChangedAt <= now
           => prev.alertedAt < now
  BY <1>1, <1>6, <1>7, <1>8, DecideFacts
<1>10. /\ row'[m].severity = c.severity /\ row'[m].severityChangedAt = c.severityChangedAt
       /\ row'[m].alertedAt = c.alertedAt /\ row'[m].lastCompletedAt = now
       /\ row'[m].lastPublishedAt = r.lastPublishedAt
  BY <1>1, CompletedRow
<1>11. /\ a.crossing[3] <= r.severityChangedAt /\ a.crossing[4] <= r.alertedAt
       /\ a.publishedAt <= r.lastPublishedAt /\ Settled(a)
  BY DEF AlertFits
<1>12. \/ Moved(a)
       \/ r.severity = "PAUSED"
       \/ r.lastPublishedAt > a.publishedAt + TTL
       \/ r.lastPublishedAt = a.publishedAt /\ r.lastCompletedAt < a.publishedAt
  BY <1>11 DEF Settled
<1>13. ASSUME r.lastPublishedAt = a.publishedAt
       PROVE  /\ a.crossing[2] = prev.severity /\ a.crossing[3] = prev.severityChangedAt
              /\ a.crossing[4] = prev.alertedAt /\ c.emit
  <2>1. processor[p].event \in Live
    BY <1>1, <1>2, PlacesLive
  <2>2. PICK q \in Processors : Holds(q, processor[p].event, a)
    BY <1>3, <1>13, <2>1 DEF HeldInv
  <2>3. processor[q] # Free /\ processor[q].event = processor[p].event
    BY <1>1, <2>2, ClaimedTyped DEF Holds
  <2>4. p = q
    BY <1>2, <1>1, <2>3 DEF ApartInv
  <2>5. a = Alert(p, m) /\ c.emit
    BY <2>2, <2>4 DEF Holds
  <2>6. a.crossing = <<processor[p].edition[m], prev.severity, prev.severityChangedAt, prev.alertedAt>>
    BY <2>5 DEF Alert
  <2> QED  BY <2>5, <2>6
<1> HIDE DEF m, r, c, prev, now
<1>14. Moved(a)' <=> \/ c.severityChangedAt > a.crossing[3]
                     \/ c.alertedAt > a.crossing[4]
                     \/ c.severity # a.crossing[2] /\ now >= a.crossing[3] /\ now >= a.crossing[4]
  BY <1>10 DEF Moved, m
<1>15. a.crossing[3] <= c.severityChangedAt /\ a.crossing[4] <= c.alertedAt
  BY <1>1, <1>4, <1>5, <1>6, <1>7, <1>9, <1>11
<1>16. ASSUME Moved(a) PROVE Moved(a)'
  <2>1. \/ r.severityChangedAt > a.crossing[3]
        \/ r.alertedAt > a.crossing[4]
        \/ /\ r.severity # a.crossing[2]
           /\ r.lastCompletedAt >= a.crossing[3] /\ r.lastCompletedAt >= a.crossing[4]
    BY <1>16 DEF Moved, m, r
  <2> QED  BY <1>1, <1>4, <1>5, <1>6, <1>7, <1>9, <1>14, <2>1
<1>17. ASSUME r.lastPublishedAt = a.publishedAt PROVE Moved(a)'
  BY <1>1, <1>4, <1>5, <1>6, <1>7, <1>9, <1>13, <1>14, <1>17
<1>18. Settled(a)'
  BY <1>4, <1>9, <1>10, <1>12, <1>16, <1>17 DEF Settled, m
<1> QED  BY <1>10, <1>11, <1>15, <1>18 DEF AlertFits, m

(* An update that does not clear the timestamps can pause the row, and no  *)
(* more.                                                                   *)
LEMMA FitsUpdated ==
  ASSUME TypeInv, NEW a \in Candidates, AlertFits(a), NEW u \in Users, user[u] \in Edits,
         ~Restarts(user[u]), row'[a.monitor] = Updated(row[a.monitor], user[u])
  PROVE  AlertFits(a)'
<1> DEFINE m == a.monitor
<1>1. /\ Shaped /\ m \in MonitorIds /\ a.crossing[3] \in Nat
      /\ row[m].severityChangedAt <= clock /\ row[m].severityChangedAt \in Nat /\ clock \in Nat
  BY CandidateTyped, MonitorConstants DEF TypeInv, Past, RowPast, Shaped, Rows, Time, Null
<1>2. /\ row'[m].lastPublishedAt = row[m].lastPublishedAt
      /\ row'[m].lastCompletedAt = row[m].lastCompletedAt
      /\ row'[m].alertedAt = row[m].alertedAt
  BY <1>1, UpdatedRow
<1>3. \/ /\ row'[m].severity = row[m].severity
         /\ row'[m].severityChangedAt = row[m].severityChangedAt
      \/ row'[m].severity = "PAUSED" /\ row'[m].severityChangedAt = clock
  BY <1>1, UpdatedRow DEF Restarts
<1>4. CASE row'[m].severity = row[m].severity /\ row'[m].severityChangedAt = row[m].severityChangedAt
  BY <1>2, <1>4, FitsStill
<1>5. CASE row'[m].severity = "PAUSED" /\ row'[m].severityChangedAt = clock
  BY <1>1, <1>2, <1>5 DEF AlertFits, Settled
<1> QED  BY <1>3, <1>4, <1>5

(* processor.ts and helpers.ts: whatever a step does to the row of an      *)
(* alert, the row does not come back to the crossing within a TTL.         *)
LEMMA CandidateKept ==
  ASSUME OneUser, LandInv, LandInv', AlertsInv, [Next]_vars, NEW a \in Candidates',
         a.monitor \notin overtaken'
  PROVE  CandidateInv(a)'
<1> DEFINE m == a.monitor
<1>1. /\ TypeInv /\ TypeInv' /\ Shaped /\ m \in MonitorIds
      /\ a.publishedAt \in Nat /\ a.crossing[1] \in Nat
  <2>1. a \in Candidates => m \in MonitorIds /\ a.publishedAt \in Nat /\ a.crossing[1] \in Nat
    BY CandidateTyped DEF LandInv
  <2>2. ASSUME NEW p \in Processors, NewAlert(p, a)
        PROVE  m \in MonitorIds /\ a.publishedAt \in Nat /\ a.crossing[1] \in Nat
    <3>1. m \in MonitorIds /\ processor[p].event \in Live
      BY <2>2, NewAlertFacts DEF LandInv
    <3>2. processor[p].event.publishedAt \in Nat /\ resets[m] \in Nat
      BY <3>1, LiveTyped DEF LandInv, TypeInv, Shaped
    <3> QED  BY <2>2, <3>1, <3>2 DEF NewAlert
  <2> QED  BY <2>1, <2>2, CandidatesMove DEF LandInv, TypeInv
<1>2. /\ scheduledAt \in Nat /\ scheduledAt' \in Nat /\ scheduledAt <= scheduledAt'
      /\ resets[m] \in Nat /\ resets'[m] \in Nat /\ resets[m] <= resets'[m]
      /\ m \notin overtaken
  BY <1>1, ScheduledAtGrows, ResetsMove, OvertakenGrows
<1>3. ASSUME NEW p \in Processors, NewAlert(p, a) PROVE CandidateInv(a)'
  <2> DEFINE e == processor[p].event
  <2>1. /\ row[m].status = "ACTIVE" /\ row[m].severity # "PAUSED"
        /\ row[m].lastPublishedAt # Null /\ row[m].lastPublishedAt <= e.publishedAt
        /\ row[m].lastCompletedAt < e.publishedAt
        /\ e \in Live /\ m \in e.monitors
        /\ row'[m] = [row[m] EXCEPT !.lastClaimedAt = processor[p].now]
    BY <1>1, <1>3, NewAlertFacts
  <2>2. /\ a.publishedAt = e.publishedAt /\ a.crossing[1] = resets[m]
        /\ a.crossing[2] = row[m].severity /\ a.crossing[3] = row[m].severityChangedAt
        /\ a.crossing[4] = row[m].alertedAt
    BY <1>3 DEF NewAlert
  <2>3. /\ e.publishedAt <= scheduledAt /\ e.publishedAt \in Nat
        /\ row[m].lastPublishedAt \in Nat /\ e.publishedAt <= row[m].lastPublishedAt
        /\ row[m].severityChangedAt \in Nat /\ row[m].alertedAt \in Nat
    BY <1>1, <1>2, <2>1, LiveTyped, TimeTyped, MonitorConstants
       DEF LandInv, TicksInv, AlertsInv, AheadInv, Ahead, Shaped, Rows, Time, Null
  <2>4. row[m].lastPublishedAt = e.publishedAt
    BY <2>1, <2>3
  <2>5. /\ row'[m].severityChangedAt = row[m].severityChangedAt
        /\ row'[m].alertedAt = row[m].alertedAt /\ row'[m].lastPublishedAt = row[m].lastPublishedAt
        /\ row'[m].lastCompletedAt = row[m].lastCompletedAt /\ row'[m].status = "ACTIVE"
    BY <1>1, <2>1, ClaimedRow
  <2> HIDE DEF e, m
  <2>6. Settled(a)'
    BY <2>1, <2>2, <2>4, <2>5 DEF Settled, m
  <2> QED  BY <1>2, <2>1, <2>2, <2>3, <2>4, <2>5, <2>6 DEF CandidateInv, m
<1>4. ASSUME a \in Candidates PROVE CandidateInv(a)'
  <2>1. /\ CandidateInv(a) /\ RowMove(m) /\ EditInv
    BY <1>1, <1>2, <1>4, RowMoves DEF AlertsInv, CandidatesInv, LandInv
  <2>2. row'[m].status # "ABSENT"
    BY <1>1, <2>1, RowsStay DEF CandidateInv
  <2>3. ASSUME Current(a)' PROVE AlertFits(a)'
    <3>1. a.crossing[1] = resets[m] /\ a.crossing[1] = resets'[m]
      BY <1>1, <1>2, <2>1, <2>3 DEF CandidateInv, Current
    <3>2. row'[m].status \notin {"ABSENT", "DELETED"}
      BY <2>3 DEF Current, Exists
    <3>3. row[m].status \notin {"ABSENT", "DELETED"} => AlertFits(a)
      BY <2>1, <3>1 DEF CandidateInv, Current, Exists, AlertFits
    <3>4. CASE row'[m] = row[m]
      BY <3>2, <3>3, <3>4, FitsStill
    <3>5. ASSUME NEW s \in Schedulers, Schedule(s), m \in Due(scheduler[s].tick), row'[m] = Planned(m, s)
          PROVE  AlertFits(a)'
      <4>1. row[m].status = "ACTIVE"
        BY <3>5 DEF Due
      <4>2. scheduledAt < scheduler[s].tick
        BY <1>1, <3>5, OvertakenGrows
      <4> QED  BY <1>4, <2>1, <3>3, <3>5, <4>1, <4>2, FitsScheduled
    <3>6. ASSUME NEW p \in Processors, row'[m] = [row[m] EXCEPT !.lastClaimedAt = processor[p].now]
          PROVE  AlertFits(a)'
      <4>1. /\ row'[m].severityChangedAt = row[m].severityChangedAt
            /\ row'[m].alertedAt = row[m].alertedAt
            /\ row'[m].lastPublishedAt = row[m].lastPublishedAt
            /\ row'[m].lastCompletedAt = row[m].lastCompletedAt
            /\ row'[m].severity = row[m].severity /\ row'[m].status = row[m].status
        BY <1>1, <3>6, ClaimedRow
      <4> QED  BY <3>2, <3>3, <4>1, FitsStill
    <3>7. ASSUME NEW p \in Processors, Complete(p), Lands(p, m), m \in Won(p), row'[m] = Completed(p, m)
          PROVE  AlertFits(a)'
      <4>1. row[m].status = "ACTIVE"
        BY <3>7 DEF Lands
      <4> QED  BY <1>2, <1>4, <2>1, <3>3, <3>7, <4>1, FitsCompleted DEF AlertsInv
    <3>8. ~Create(m)
      BY <1>1, <2>1, CreateEffect DEF CandidateInv
    <3>9. ASSUME NEW u \in Users, UpdateWrites(u), user[u] \in Edits, user[u].monitor = m, Exists(m),
                 row'[m] = Updated(row[m], user[u])
          PROVE  AlertFits(a)'
      <4>1. ~Restarts(user[u])
        <5>1. Restarts(user[u]) => resets'[m] = resets[m] + 1
          BY <1>1, <3>9, ResetsMove
        <5> QED  BY <1>2, <3>1, <5>1
      <4>2. AlertFits(a)
        BY <3>3, <3>9 DEF Exists
      <4> QED  BY <1>1, <1>4, <3>9, <4>1, <4>2, FitsUpdated
    <3>10. row'[m] # Deleted
      BY <3>2, DeletedRow
    <3> QED  BY <2>1, <3>4, <3>5, <3>6, <3>7, <3>8, <3>9, <3>10 DEF RowMove
  <2> HIDE DEF m
  <2> QED  BY <1>1, <1>2, <2>1, <2>2, <2>3 DEF CandidateInv, AlertFits, m
<1> QED  BY <1>1, <1>3, <1>4, CandidatesMove

(* A job repeats the alert of another publication only a TTL later.        *)
LEMMA SpacedKept ==
  ASSUME OneUser, LandInv, LandInv', AlertsInv, [Next]_vars
  PROVE  SpacedInv'
<1> SUFFICES ASSUME NEW a \in Candidates', NEW b \in Candidates',
                    a # b, a.monitor = b.monitor, a.monitor \notin overtaken',
                    a.crossing = b.crossing, a.severity = b.severity
             PROVE  Spaced(a, b)
  BY DEF SpacedInv, Spaced
<1>1. TypeInv /\ TypeInv' /\ Shaped /\ a.monitor \notin overtaken
  BY OvertakenGrows DEF LandInv, TypeInv
<1>2. ASSUME NEW old \in Candidates, NEW p \in Processors, NEW new \in Candidates', NewAlert(p, new),
             old.monitor = new.monitor, new.monitor \notin overtaken, old.crossing = new.crossing
      PROVE  old.publishedAt + TTL < new.publishedAt
  <2> DEFINE m == new.monitor
             e == processor[p].event
  <2>1. /\ m \in MonitorIds /\ row[m].status = "ACTIVE" /\ row[m].severity # "PAUSED"
        /\ row[m].lastPublishedAt # Null /\ row[m].lastPublishedAt <= e.publishedAt
        /\ e \in Live /\ m \in e.monitors /\ ~Claimed(p)
    BY <1>1, <1>2, NewAlertFacts
  <2>2. /\ new.publishedAt = e.publishedAt /\ new.crossing[1] = resets[m]
        /\ new.crossing[2] = row[m].severity /\ new.crossing[3] = row[m].severityChangedAt
        /\ new.crossing[4] = row[m].alertedAt /\ processor[p] # Free
    BY <1>2 DEF NewAlert
  <2>3. /\ e.publishedAt \in Nat /\ row[m].lastPublishedAt \in Nat
        /\ row[m].severityChangedAt \in Nat /\ row[m].alertedAt \in Nat
        /\ Ahead(e, m)
    BY <1>1, <1>2, <2>1, LiveTyped, TimeTyped, MonitorConstants
       DEF AlertsInv, AheadInv, Shaped, Rows, Time, Null
  <2>4. row[m].lastPublishedAt = e.publishedAt
    BY <2>1, <2>3 DEF Ahead
  <2>5. CandidateInv(old) /\ Current(old)
    BY <1>2, <2>1, <2>2 DEF AlertsInv, CandidatesInv, Current, Exists
  <2>6. Settled(old)
    BY <2>5 DEF CandidateInv
  <2>7. ~Moved(old) /\ row[m].severity # "PAUSED"
    BY <1>2, <2>1, <2>2, <2>3 DEF Moved
  <2>8. old.publishedAt # e.publishedAt
    <3>1. SUFFICES ASSUME old.publishedAt = e.publishedAt PROVE FALSE
      OBVIOUS
    <3>2. PICK q \in Processors : Holds(q, e, old)
      BY <1>2, <2>1, <3>1 DEF AlertsInv, HeldInv
    <3>3. processor[q] # Free /\ processor[q].event = e /\ Claimed(q)
      BY <1>1, <3>2, ClaimedTyped DEF Holds
    <3>4. p = q
      BY <2>2, <3>3 DEF LandInv, ApartInv
    <3> QED  BY <2>1, <3>3, <3>4
  <2> QED  BY <1>2, <2>2, <2>4, <2>6, <2>7, <2>8 DEF Settled
<1>3. ASSUME NEW p \in Processors, NewAlert(p, a), NEW q \in Processors, NewAlert(q, b) PROVE FALSE
  <2>1. /\ processor[p].event \in Live /\ a.monitor \in processor[p].event.monitors
        /\ processor[q].event \in Live /\ b.monitor \in processor[q].event.monitors
        /\ row[a.monitor].lastPublishedAt # Null /\ a.monitor \in MonitorIds
        /\ row[a.monitor].lastPublishedAt <= processor[p].event.publishedAt
        /\ row[b.monitor].lastPublishedAt <= processor[q].event.publishedAt
    BY <1>1, <1>3, NewAlertFacts
  <2>2. processor[p].event.publishedAt \in Nat /\ processor[q].event.publishedAt \in Nat
    BY <1>1, <2>1, LiveTyped
  <2>3. /\ processor[p].event.publishedAt <= row[a.monitor].lastPublishedAt
        /\ processor[q].event.publishedAt <= row[b.monitor].lastPublishedAt
    BY <1>1, <1>3, <2>1 DEF AlertsInv, AheadInv, Ahead, NewAlert
  <2>4. processor[p].event.publishedAt = processor[q].event.publishedAt
    BY <1>1, <2>1, <2>2, <2>3, TimeTyped
  <2>5. processor[p].event = processor[q].event
    BY <2>1, <2>4 DEF LandInv, ApartInv, Apart
  <2>6. p = q
    BY <1>3, <2>5 DEF LandInv, ApartInv, NewAlert
  <2> QED  BY <1>3, <2>6 DEF NewAlert
<1>4. CASE a \in Candidates /\ b \in Candidates
  BY <1>1, <1>4 DEF AlertsInv, SpacedInv
<1> QED  BY <1>1, <1>2, <1>3, <1>4, CandidatesMove DEF Spaced

(* scheduler.ts and processor.ts: while updates do not overlap, two alerts *)
(* of one crossing of one monitor come from publications more than a TTL   *)
(* apart, whatever jobs fail, repeat or overtake each other in between.    *)
(* However many schedulers there are, but for the monitors that one of     *)
(* them planned with a tick older than the last.                           *)
THEOREM AlertsAreSpaced == ASSUME OneUser PROVE Spec => []AlertsSpaced
<1> DEFINE Inv == LandInv /\ AlertsInv
<1>1. Init => Inv
  <2> SUFFICES ASSUME Init PROVE AlertsInv
    BY LandInvInit
  <2>1. alerts = {} /\ scheduler = [s \in Schedulers |-> Waiting] /\ queue = {}
        /\ processor = [p \in Processors |-> Free]
    BY DEF Init, Idle
  <2>2. Live = {}
    BY <2>1, FreeTyped DEF Live
  <2>3. Candidates = {}
    BY <2>1, CandidatePlaces, FreeTyped DEF Claimed
  <2> QED  BY <2>1, <2>2, <2>3 DEF AlertsInv, CandidatesInv, SpacedInv, HeldInv, AheadInv, StartedInv
<1>2. Inv /\ [Next]_vars => Inv'
  <2> SUFFICES ASSUME LandInv, AlertsInv, [Next]_vars PROVE LandInv' /\ AlertsInv'
    OBVIOUS
  <2>1. LandInv'
    BY LandInvKept
  <2>2. CandidatesInv /\ SpacedInv /\ HeldInv /\ AheadInv /\ StartedInv
    BY DEF AlertsInv
  <2>3. CandidatesInv'
    BY <2>1, CandidateKept DEF CandidatesInv
  <2>4. SpacedInv' /\ HeldInv' /\ AheadInv' /\ StartedInv'
    BY <2>1, <2>2, SpacedKept, HeldKept, AheadKept, StartedKept
  <2> QED  BY <2>1, <2>3, <2>4 DEF AlertsInv
<1>3. Inv => AlertsSpaced
  <2> SUFFICES ASSUME AlertsInv PROVE AlertsSpaced
    OBVIOUS
  <2>1. alerts \subseteq Candidates
    BY PlacesCandidate
  <2> QED  BY <2>1 DEF AlertsInv, SpacedInv, Spaced, AlertsSpaced
<1> HIDE DEF Inv
<1> QED  BY <1>1, <1>2, <1>3, PTL DEF Spec
=============================================================================
