------------------------- MODULE UsageMeteringProofs -------------------------
(***************************************************************************)
(* No hour is passed over, and none is billed twice but for an incident,   *)
(* whatever the workers, meters and hours.                                 *)
(***************************************************************************)
EXTENDS UsageMetering, TLAPS

Row == [state : {"queued", "processing"}, startedAt : Nat, lastRun : 0..MaxHours]

Metering ==
  [phase : {"idle", "claiming", "reporting", "failing"}, seen : Row, done : 0..Meters, attempt : Nat]

Billing == [0..(MaxHours - 1) -> [1..Meters -> 0..2]]

(* A job at an hour has every hour before it, and what it has done of it,  *)
(* billed.                                                                 *)
Backed(x) ==
  x.phase \in {"claiming", "reporting"} =>
    /\ x.seen.lastRun < MaxHours
    /\ \A h \in 0..(x.seen.lastRun - 1) : \A i \in 1..Meters : billed[h][i] > 0
    /\ \A i \in 1..x.done : billed[x.seen.lastRun][i] > 0

(* The inductive invariant of NoHourUnbilled: what a job finishes was true *)
(* when it read the row, and what is billed stays billed.                  *)
HoursInv ==
  /\ cron \in Row
  /\ claims \in Nat
  /\ dueHours \in 0..MaxHours
  /\ meterer \in [Meterers -> Metering]
  /\ billed \in Billing
  /\ NoHourUnbilled
  /\ \A w \in Meterers : Backed(meterer[w])

(* Of a job that reports, the hour is the row's, and what it has not done  *)
(* is not billed.                                                          *)
AtItsHour(x) ==
  x.phase = "reporting" =>
    /\ cron.state = "processing"
    /\ x.seen.lastRun = cron.lastRun
    /\ \A i \in (x.done + 1)..Meters : billed[cron.lastRun][i] = 0

(* Nothing is billed twice, and what lies ahead of the row is not billed.  *)
Ahead ==
  \A h \in 0..(MaxHours - 1) : \A i \in 1..Meters :
    /\ billed[h][i] <= 1
    /\ h > cron.lastRun \/ (h = cron.lastRun /\ cron.state = "queued") => billed[h][i] = 0

(* The inductive invariant of BilledOnce: one job reports, and only while  *)
(* the row says so; what lies ahead is not billed.                         *)
OnceInv ==
  /\ incident \in BOOLEAN
  /\ incident = FALSE =>
       /\ Ahead
       /\ \A w \in Meterers : AtItsHour(meterer[w])
       /\ \A v, w \in Meterers :
            meterer[v].phase = "reporting" /\ meterer[w].phase = "reporting" => v = w
       /\ \A w \in Meterers : meterer[w].phase = "claiming" => meterer[w].done = 0

-----------------------------------------------------------------------------

(* The smaller of two numbers. *)
LEMMA MinOfTwo ==
  ASSUME NEW a \in Int, NEW b \in Int
  PROVE  Min({a, b}) = IF a <= b THEN a ELSE b
<1> DEFINE m == IF a <= b THEN a ELSE b
<1>1. m \in {a, b} /\ (\A y \in {a, b} : m <= y)
  OBVIOUS
<1>2. \A x \in {a, b} : (\A y \in {a, b} : x <= y) => x = m
  OBVIOUS
<1> QED  BY <1>1, <1>2 DEF Min

(* A worker without a job is well typed. *)
LEMMA NoMeteringOK == NoMetering \in Metering /\ NoMetering.phase = "idle" /\ NoMetering.done = 0
<1>1. 0 \in 0..MaxHours /\ 0 \in 0..Meters
  BY MeteringAssumption
<1> QED  BY <1>1 DEF NoMetering, Metering, Row, NoClaim

(* What one report adds. *)
LEMMA OneMoreBilled ==
  ASSUME HoursInv, NEW w \in Meterers, meterer[w].phase = "reporting", meterer[w].done < Meters,
         billed' = Reported(w)
  PROVE  LET hour == meterer[w].seen.lastRun
             next == meterer[w].done + 1
         IN  /\ hour \in 0..(MaxHours - 1) /\ next \in 1..Meters
             /\ billed' \in Billing
             /\ \A h \in 0..(MaxHours - 1) : \A i \in 1..Meters :
                  IF h = hour /\ i = next THEN billed'[h][i] > 0 /\ (billed[h][i] = 0 => billed'[h][i] = 1)
                                          ELSE billed'[h][i] = billed[h][i]
<1> DEFINE hour == meterer[w].seen.lastRun
           next == meterer[w].done + 1
           old == billed[hour][next]
           new == Min({old + 1, 2})
<1>1. hour \in 0..(MaxHours - 1) /\ next \in 1..Meters
  BY MeteringAssumption DEF HoursInv, Backed, Metering, Row
<1>2. old \in 0..2
  BY <1>1 DEF HoursInv, Billing
<1>3. new \in 0..2 /\ new > 0 /\ (old = 0 => new = 1)
  <2>1. new = IF old + 1 <= 2 THEN old + 1 ELSE 2
    BY <1>2, MinOfTwo
  <2> QED  BY <1>2, <2>1
<1>4. billed' = [billed EXCEPT ![hour] = [billed[hour] EXCEPT ![next] = new]]
  BY DEF Reported
<1> HIDE DEF hour, next, new, old
<1>5. billed \in Billing /\ billed[hour] \in [1..Meters -> 0..2]
  BY <1>1 DEF HoursInv, Billing
<1>6. [billed[hour] EXCEPT ![next] = new] \in [1..Meters -> 0..2]
  BY <1>3, <1>5
<1>7. billed' \in Billing
  BY <1>4, <1>5, <1>6 DEF Billing
<1>8. ASSUME NEW h \in 0..(MaxHours - 1), NEW i \in 1..Meters
      PROVE  IF h = hour /\ i = next THEN billed'[h][i] > 0 /\ (billed[h][i] = 0 => billed'[h][i] = 1)
                                     ELSE billed'[h][i] = billed[h][i]
  <2>1. billed'[h] = IF h = hour THEN [billed[hour] EXCEPT ![next] = new] ELSE billed[h]
    BY <1>4, <1>5 DEF Billing
  <2>2. CASE h = hour
    <3>1. billed'[h][i] = IF i = next THEN new ELSE billed[h][i]
      BY <1>5, <2>1, <2>2
    <3> QED  BY <1>3, <2>2, <3>1 DEF old
  <2>3. CASE h # hour
    BY <2>1, <2>3
  <2> QED  BY <2>2, <2>3
<1> QED  BY <1>1, <1>7, <1>8 DEF hour, next

-----------------------------------------------------------------------------

(* What all steps have in common. *)
LEMMA HoursKept ==
  ASSUME HoursInv,
         cron' \in Row, claims' \in Nat, dueHours' \in 0..MaxHours,
         meterer' \in [Meterers -> Metering], billed' \in Billing,
         \A h \in 0..(MaxHours - 1) : \A i \in 1..Meters : billed[h][i] > 0 => billed'[h][i] > 0,
         cron'.lastRun = cron.lastRun \/ NoHourUnbilled',
         \A w \in Meterers : meterer'[w] = meterer[w] \/ Backed(meterer[w])'
  PROVE  HoursInv'
<1>1. NoHourUnbilled'
  <2>1. CASE cron'.lastRun = cron.lastRun
    <3>1. \A h \in 0..(cron.lastRun - 1) : h \in 0..(MaxHours - 1)
      BY MeteringAssumption DEF HoursInv, Row
    <3> QED  BY <2>1, <3>1 DEF HoursInv, NoHourUnbilled
  <2> QED  BY <2>1
<1>2. ASSUME NEW w \in Meterers, meterer'[w] = meterer[w] PROVE Backed(meterer[w])'
  <2> SUFFICES ASSUME meterer[w].phase \in {"claiming", "reporting"} PROVE Backed(meterer[w])'
    BY <1>2 DEF Backed
  <2>1. Backed(meterer[w]) /\ meterer[w] \in Metering
    BY DEF HoursInv
  <2>2. /\ meterer[w].seen.lastRun \in 0..(MaxHours - 1)
        /\ \A h \in 0..(meterer[w].seen.lastRun - 1) : h \in 0..(MaxHours - 1)
        /\ \A i \in 1..meterer[w].done : i \in 1..Meters
    BY <2>1, MeteringAssumption DEF Backed, Metering, Row
  <2> QED  BY <1>2, <2>1, <2>2 DEF Backed
<1> QED  BY <1>1, <1>2 DEF HoursInv

(* One job becomes x; the row's hour and what is billed stay. *)
LEMMA OneJobMoves ==
  ASSUME HoursInv, NEW w \in Meterers, NEW x \in Metering, Backed(x),
         meterer' = [meterer EXCEPT ![w] = x],
         cron' \in Row, cron'.lastRun = cron.lastRun, claims' \in Nat,
         UNCHANGED <<dueHours, billed>>
  PROVE  HoursInv'
<1>1. /\ meterer' \in [Meterers -> Metering] /\ meterer'[w] = x
      /\ \A v \in Meterers : v # w => meterer'[v] = meterer[v]
  BY DEF HoursInv
<1>2. dueHours' \in 0..MaxHours /\ billed' \in Billing /\ billed' = billed
  BY DEF HoursInv
<1>3. Backed(x)'
  BY <1>2 DEF Backed
<1> QED  BY <1>1, <1>2, <1>3, HoursKept DEF Backed

(* A job is over; the row's hour and what is billed stay. *)
LEMMA OneJobEnds ==
  ASSUME HoursInv, NEW w \in Meterers, Ends(w),
         cron' \in Row, cron'.lastRun = cron.lastRun, claims' \in Nat,
         UNCHANGED <<dueHours, billed>>
  PROVE  HoursInv'
<1>1. meterer' = [meterer EXCEPT ![w] = NoMetering]
  BY DEF Ends
<1>2. Backed(NoMetering)
  BY NoMeteringOK DEF Backed
<1> QED  BY <1>1, <1>2, NoMeteringOK, OneJobMoves

(* A claim leaves the row's hour. *)
LEMMA ClaimedRow ==
  ASSUME HoursInv, NEW seen, Claims(seen) \/ UNCHANGED <<cron, claims>>
  PROVE  cron' \in Row /\ cron'.lastRun = cron.lastRun /\ claims' \in Nat
<1>1. CASE Claims(seen)
  <2>1. cron \in Row /\ claims \in Nat
    BY DEF HoursInv
  <2>2. claims' = claims + 1 /\ cron' = [cron EXCEPT !.state = "processing", !.startedAt = claims']
    BY <1>1 DEF Claims
  <2>3. claims' \in Nat
    BY <2>1, <2>2
  <2>4. /\ cron'.state = "processing" /\ cron'.startedAt = claims' /\ cron'.lastRun = cron.lastRun
        /\ DOMAIN cron' = DOMAIN cron
    BY <2>1, <2>2 DEF Row
  <2>5. cron' \in Row
    BY <2>1, <2>2, <2>3 DEF Row
  <2> QED  BY <2>3, <2>4, <2>5
<1>2. CASE UNCHANGED <<cron, claims>>
  BY <1>2 DEF HoursInv
<1> QED  BY <1>1, <1>2

(* Every action keeps the invariant of the hours. *)
LEMMA HoursInvKept == HoursInv /\ [MeteringNext]_meteringVars => HoursInv'
<1> SUFFICES ASSUME HoursInv, [MeteringNext]_meteringVars PROVE HoursInv'
  OBVIOUS
<1>0. /\ Meters \in Nat /\ MaxHours \in Nat
      /\ \A w \in Meterers : meterer[w] \in Metering /\ Backed(meterer[w])
  BY MeteringAssumption DEF HoursInv
<1>1. CASE HourPasses
  <2>1. dueHours + 1 \in Int /\ MaxHours \in Int /\ dueHours \in 0..MaxHours
    BY MeteringAssumption DEF HoursInv
  <2>2. dueHours' \in 0..MaxHours
    BY <1>1, <2>1, MinOfTwo DEF HourPasses
  <2> QED  BY <1>1, <2>2, HoursKept DEF HourPasses, HoursInv
<1>2. CASE TwentyMinutesPass \/ ReplicaStarts \/ UNCHANGED meteringVars
  BY <1>2, HoursKept DEF TwentyMinutesPass, ReplicaStarts, meteringVars, HoursInv
<1>3. ASSUME NEW w \in Meterers, StartMetering(w) PROVE HoursInv'
  <2> DEFINE x == [NoMetering EXCEPT !.phase = "claiming", !.seen = cron]
  <2>1. UNCHANGED <<cron, claims, dueHours, billed>>
    BY <1>3 DEF StartMetering
  <2>2. CASE meterer' = meterer
    BY <2>1, <2>2, HoursKept DEF HoursInv
  <2>3. CASE cron.lastRun < dueHours /\ meterer' = [meterer EXCEPT ![w] = x]
    <3>1. x \in Metering /\ x.phase = "claiming" /\ x.seen = cron /\ x.done = 0
      BY NoMeteringOK DEF HoursInv, Metering
    <3>2. Backed(x)
      BY <2>3, <3>1, MeteringAssumption DEF Backed, HoursInv, NoHourUnbilled, Row
    <3> HIDE DEF x
    <3> QED  BY <2>1, <2>3, <3>1, <3>2, OneJobMoves DEF HoursInv
  <2> QED  BY <1>3, <2>2, <2>3 DEF StartMetering
<1>4. ASSUME NEW w \in Meterers, ClaimHour(w) PROVE HoursInv'
  <2>1. UNCHANGED <<dueHours, billed>> /\ meterer[w].phase = "claiming"
    BY <1>4 DEF ClaimHour
  <2>2. cron' \in Row /\ cron'.lastRun = cron.lastRun /\ claims' \in Nat
    BY <1>4, ClaimedRow DEF ClaimHour
  <2>3. CASE Ends(w)
    BY <2>1, <2>2, <2>3, OneJobEnds
  <2>4. CASE meterer' = [meterer EXCEPT ![w].phase = "reporting"]
    <3> DEFINE x == [meterer[w] EXCEPT !.phase = "reporting"]
    <3>1. meterer' = [meterer EXCEPT ![w] = x]
      BY <2>4 DEF HoursInv
    <3>2. x \in Metering /\ x.seen = meterer[w].seen /\ x.done = meterer[w].done
      BY <1>0 DEF Metering
    <3> HIDE DEF x
    <3>3. Backed(x)
      BY <1>0, <2>1, <3>2 DEF Backed
    <3> QED  BY <2>1, <2>2, <3>1, <3>2, <3>3, OneJobMoves
  <2> QED  BY <1>4, <2>3, <2>4 DEF ClaimHour
<1>5. ASSUME NEW w \in Meterers, ClaimErrs(w) PROVE HoursInv'
  <2>1. cron' \in Row /\ cron'.lastRun = cron.lastRun /\ claims' \in Nat
    BY <1>5, ClaimedRow DEF ClaimErrs
  <2> QED  BY <1>5, <2>1, OneJobEnds DEF ClaimErrs
<1>6. ASSUME NEW w \in Meterers, Report(w) PROVE HoursInv'
  <2> DEFINE x == [meterer[w] EXCEPT !.done = @ + 1, !.attempt = 0]
             hour == meterer[w].seen.lastRun
             next == meterer[w].done + 1
  <2>1. /\ meterer[w].phase = "reporting" /\ meterer[w].done < Meters /\ billed' = Reported(w)
        /\ meterer' = [meterer EXCEPT ![w] = x] /\ UNCHANGED <<cron, claims, dueHours>>
    BY <1>6 DEF Report, HoursInv
  <2>2. /\ hour \in 0..(MaxHours - 1) /\ next \in 1..Meters
        /\ billed' \in Billing
        /\ \A h \in 0..(MaxHours - 1) : \A i \in 1..Meters :
             IF h = hour /\ i = next THEN billed'[h][i] > 0 /\ (billed[h][i] = 0 => billed'[h][i] = 1)
                                     ELSE billed'[h][i] = billed[h][i]
    BY <2>1, OneMoreBilled
  <2>3. /\ x \in Metering /\ x.phase = "reporting" /\ x.seen = meterer[w].seen
        /\ x.done = next
    <3>1. next \in 0..Meters
      BY <1>0, <2>2
    <3> QED  BY <1>0, <2>1, <3>1 DEF Metering
  <2> HIDE DEF x
  <2>4. /\ meterer' \in [Meterers -> Metering] /\ meterer'[w] = x
        /\ \A v \in Meterers : v # w => meterer'[v] = meterer[v]
    BY <2>1, <2>3 DEF HoursInv
  <2>5. Backed(meterer[w])'
    <3>1. Backed(meterer[w]) /\ meterer[w].done \in Nat
      BY <1>0 DEF Metering
    <3>2. \A h \in 0..(hour - 1) : h \in 0..(MaxHours - 1) /\ h # hour
      BY <1>0, <2>2
    <3>3. \A i \in 1..next : i \in 1..Meters /\ (i = next \/ i \in 1..meterer[w].done)
      BY <1>0, <2>2, <3>1
    <3>4. \A h \in 0..(hour - 1) : \A i \in 1..Meters : billed'[h][i] > 0
      BY <2>1, <2>2, <3>1, <3>2 DEF Backed
    <3>5. \A i \in 1..next : billed'[hour][i] > 0
      BY <2>1, <2>2, <3>1, <3>3 DEF Backed
    <3>6. hour < MaxHours
      BY <2>1, <3>1 DEF Backed
    <3> QED  BY <2>3, <2>4, <3>4, <3>5, <3>6 DEF Backed
  <2>6. \A h \in 0..(MaxHours - 1) : \A i \in 1..Meters : billed[h][i] > 0 => billed'[h][i] > 0
    BY <2>2
  <2>7. \A v \in Meterers : meterer'[v] = meterer[v] \/ Backed(meterer[v])'
    BY <2>4, <2>5
  <2>8. /\ cron' \in Row /\ cron'.lastRun = cron.lastRun /\ claims' \in Nat
        /\ dueHours' \in 0..MaxHours
    BY <2>1 DEF HoursInv
  <2> QED  BY <2>2, <2>4, <2>6, <2>7, <2>8, HoursKept
<1>7. ASSUME NEW w \in Meterers, StripeErrs(w) PROVE HoursInv'
  <2> DEFINE x == IF meterer[w].attempt + 1 < StripeAttempts
                  THEN [meterer[w] EXCEPT !.attempt = @ + 1]
                  ELSE [meterer[w] EXCEPT !.phase = "failing"]
  <2>1. /\ meterer[w].phase = "reporting" /\ meterer[w].done < Meters
        /\ billed' = billed \/ billed' = Reported(w)
        /\ meterer' = [meterer EXCEPT ![w] = x] /\ UNCHANGED <<cron, claims, dueHours>>
    BY <1>7 DEF StripeErrs, HoursInv
  <2>2. /\ billed' \in Billing
        /\ \A h \in 0..(MaxHours - 1) : \A i \in 1..Meters : billed[h][i] > 0 => billed'[h][i] > 0
    <3>1. CASE billed' = billed
      BY <3>1 DEF HoursInv
    <3>2. CASE billed' = Reported(w)
      BY <2>1, <3>2, OneMoreBilled
    <3> QED  BY <2>1, <3>1, <3>2
  <2>3. /\ x \in Metering /\ x.phase \in {"reporting", "failing"} /\ x.seen = meterer[w].seen
        /\ x.done = meterer[w].done
    BY <1>0, <2>1, MeteringAssumption DEF Metering
  <2> HIDE DEF x
  <2>4. /\ meterer' \in [Meterers -> Metering] /\ meterer'[w] = x
        /\ \A v \in Meterers : v # w => meterer'[v] = meterer[v]
    BY <2>1, <2>3 DEF HoursInv
  <2>5. Backed(meterer[w])'
    <3>1. Backed(meterer[w]) /\ meterer[w] \in Metering
      BY <1>0
    <3>2. /\ meterer[w].seen.lastRun \in 0..(MaxHours - 1)
          /\ \A h \in 0..(meterer[w].seen.lastRun - 1) : h \in 0..(MaxHours - 1)
          /\ \A i \in 1..meterer[w].done : i \in 1..Meters
      BY <2>1, <3>1, MeteringAssumption DEF Backed, Metering, Row
    <3>3. \A h \in 0..(x.seen.lastRun - 1) : \A i \in 1..Meters : billed'[h][i] > 0
      BY <2>1, <2>2, <2>3, <3>1, <3>2 DEF Backed
    <3>4. \A i \in 1..x.done : billed'[x.seen.lastRun][i] > 0
      BY <2>1, <2>2, <2>3, <3>1, <3>2 DEF Backed
    <3>5. x.seen.lastRun < MaxHours
      BY <2>1, <2>3, <3>1 DEF Backed
    <3> QED  BY <2>4, <3>3, <3>4, <3>5 DEF Backed
  <2>6. \A v \in Meterers : meterer'[v] = meterer[v] \/ Backed(meterer[v])'
    BY <2>4, <2>5
  <2>7. /\ cron' \in Row /\ cron'.lastRun = cron.lastRun /\ claims' \in Nat
        /\ dueHours' \in 0..MaxHours
    BY <2>1 DEF HoursInv
  <2> QED  BY <2>2, <2>4, <2>6, <2>7, HoursKept
<1>8. ASSUME NEW w \in Meterers, FinishHour(w) PROVE HoursInv'
  <2> DEFINE hour == meterer[w].seen.lastRun
  <2>1. /\ meterer[w].phase = "reporting" /\ meterer[w].done = Meters
        /\ cron' = [state |-> "queued", startedAt |-> NoClaim, lastRun |-> hour + 1]
        /\ meterer' = [meterer EXCEPT ![w] = NoMetering]
        /\ UNCHANGED <<claims, dueHours, billed>>
    BY <1>8 DEF FinishHour, IntervalEnd, Ends
  <2>2. Backed(meterer[w]) /\ hour \in 0..(MaxHours - 1)
    BY <1>0, <2>1, MeteringAssumption DEF Backed, Metering, Row
  <2>3. cron' \in Row /\ cron'.lastRun = hour + 1
    BY <2>1, <2>2, MeteringAssumption DEF Row, NoClaim
  <2>4. NoHourUnbilled'
    <3>1. \A h \in 0..(hour + 1 - 1) : h = hour \/ h \in 0..(hour - 1)
      BY <2>2
    <3> QED  BY <2>1, <2>2, <2>3, <3>1 DEF NoHourUnbilled, Backed
  <2>5. /\ meterer' \in [Meterers -> Metering] /\ meterer'[w] = NoMetering
        /\ \A v \in Meterers : v # w => meterer'[v] = meterer[v]
    BY <2>1, NoMeteringOK DEF HoursInv
  <2>6. Backed(NoMetering)'
    BY NoMeteringOK DEF Backed
  <2> QED  BY <2>1, <2>3, <2>4, <2>5, <2>6, HoursKept DEF HoursInv, Backed
<1>9. ASSUME NEW w \in Meterers, MeteringThrows(w) PROVE HoursInv'
  <2> DEFINE x == [meterer[w] EXCEPT !.phase = "failing"]
  <2>1. meterer' = [meterer EXCEPT ![w] = x] /\ UNCHANGED <<cron, claims, dueHours, billed>>
    BY <1>9 DEF MeteringThrows, HoursInv
  <2>2. x \in Metering /\ x.phase = "failing"
    BY <1>0 DEF Metering
  <2> HIDE DEF x
  <2>3. Backed(x)
    BY <2>2 DEF Backed
  <2> QED  BY <2>1, <2>2, <2>3, OneJobMoves DEF HoursInv
<1>10. ASSUME NEW w \in Meterers, ResetAfterError(w) PROVE HoursInv'
  <2>1. cron' \in Row /\ cron'.lastRun = cron.lastRun
    BY <1>10 DEF ResetAfterError, HoursInv, Row, NoClaim
  <2> QED  BY <1>10, <2>1, OneJobEnds DEF ResetAfterError, HoursInv
<1>11. ASSUME NEW w \in Meterers, MetererDies(w) PROVE HoursInv'
  BY <1>11, OneJobEnds DEF MetererDies, HoursInv
<1> QED
  BY <1>1, <1>2, <1>3, <1>4, <1>5, <1>6, <1>7, <1>8, <1>9, <1>10, <1>11 DEF MeteringNext, MetererSteps

(* It holds at first. *)
LEMMA HoursInvInit == MeteringInit => HoursInv
<1> SUFFICES ASSUME MeteringInit PROVE HoursInv
  OBVIOUS
<1>1. cron \in Row /\ cron.lastRun = 0
  BY MeteringAssumption DEF MeteringInit, NoMetering, Row, NoClaim
<1>2. dueHours \in 0..MaxHours /\ claims \in Nat /\ billed \in Billing
  BY MeteringAssumption DEF MeteringInit, Billing
<1>3. meterer \in [Meterers -> Metering] /\ \A w \in Meterers : Backed(meterer[w])
  BY NoMeteringOK DEF MeteringInit, Backed
<1> QED  BY <1>1, <1>2, <1>3 DEF HoursInv, NoHourUnbilled

(* handleCloudUsageMeteringJob.ts: the job moves lastRun of the row past   *)
(* its own hour when it is done, whoever has the row by then; still no     *)
(* hour is skipped of which a meter was not reported.                      *)
THEOREM NoHourIsSkipped == MeteringSpec => []NoHourUnbilled
<1>1. HoursInv => NoHourUnbilled
  BY DEF HoursInv
<1> QED  BY <1>1, HoursInvInit, HoursInvKept, PTL DEF MeteringSpec

-----------------------------------------------------------------------------

(* Without an incident, nothing is reported and no job begins to report.   *)
LEMMA OnceKept ==
  ASSUME HoursInv, OnceInv, incident = FALSE, incident' = FALSE,
         cron'.lastRun = cron.lastRun, cron'.state \in {cron.state, "processing"},
         billed' = billed,
         \A v \in Meterers :
           \/ /\ meterer'[v].phase = meterer[v].phase
              /\ meterer'[v].seen = meterer[v].seen /\ meterer'[v].done = meterer[v].done
           \/ /\ meterer'[v].phase # "reporting"
              /\ meterer'[v].phase = "claiming" => meterer'[v].done = 0
  PROVE  OnceInv'
<1>1. Ahead'
  BY DEF OnceInv, Ahead
<1>2. ASSUME NEW v \in Meterers PROVE AtItsHour(meterer[v])'
  BY DEF OnceInv, AtItsHour
<1>3. ASSUME NEW v \in Meterers, NEW w \in Meterers,
             meterer'[v].phase = "reporting", meterer'[w].phase = "reporting"
      PROVE  v = w
  BY <1>3 DEF OnceInv
<1>4. ASSUME NEW v \in Meterers, meterer'[v].phase = "claiming" PROVE meterer'[v].done = 0
  BY <1>4 DEF OnceInv
<1> QED  BY <1>1, <1>2, <1>3, <1>4 DEF OnceInv

(* Every action keeps the invariant of BilledOnce. *)
LEMMA OnceInvKept == HoursInv /\ OnceInv /\ [MeteringNext]_meteringVars => OnceInv'
<1> SUFFICES ASSUME HoursInv, OnceInv, [MeteringNext]_meteringVars PROVE OnceInv'
  OBVIOUS
<1>0. /\ Meters \in Nat /\ MaxHours \in Nat
      /\ \A w \in Meterers : meterer[w] \in Metering /\ Backed(meterer[w])
      /\ incident \in BOOLEAN /\ cron \in Row
  BY MeteringAssumption DEF HoursInv, OnceInv
<1>1. CASE incident' = TRUE
  BY <1>1 DEF OnceInv
<1>2. CASE incident' # TRUE
  <2>1. incident' = FALSE /\ incident = FALSE
    <3>1. UNCHANGED incident \/ \E b : incident' = (incident \/ b)
      BY <1>2, Zenon DEF MeteringNext, MetererSteps, meteringVars, HourPasses, TwentyMinutesPass,
        ReplicaStarts, StartMetering, ClaimHour, Claims, ClaimErrs, Report, StripeErrs, FinishHour,
        MeteringThrows, ResetAfterError, MetererDies
    <3> QED  BY <1>0, <1>2, <3>1
  <2>2. CASE HourPasses \/ TwentyMinutesPass \/ ReplicaStarts \/ UNCHANGED meteringVars
    BY <2>1, <2>2, OnceKept DEF HourPasses, TwentyMinutesPass, ReplicaStarts, meteringVars
  <2>3. ASSUME NEW w \in Meterers, StartMetering(w) PROVE OnceInv'
    <3> DEFINE x == [NoMetering EXCEPT !.phase = "claiming", !.seen = cron]
    <3>1. x.phase = "claiming" /\ x.done = 0
      BY DEF NoMetering
    <3>2. \A v \in Meterers : meterer'[v] = meterer[v] \/ meterer'[v] = x
      BY <2>3 DEF StartMetering, HoursInv
    <3> HIDE DEF x
    <3> QED  BY <2>1, <2>3, <3>1, <3>2, OnceKept DEF StartMetering
  <2>4. ASSUME NEW w \in Meterers, ClaimHour(w), Ends(w), UNCHANGED cron PROVE OnceInv'
    <3>1. \A v \in Meterers : meterer'[v] = meterer[v] \/ meterer'[v] = NoMetering
      BY <2>4 DEF Ends, HoursInv
    <3> QED  BY <2>1, <2>4, <3>1, NoMeteringOK, OnceKept DEF ClaimHour
  <2>5. ASSUME NEW w \in Meterers, ClaimHour(w), Claims(meterer[w].seen),
               meterer' = [meterer EXCEPT ![w].phase = "reporting"]
        PROVE  OnceInv'
    <3> DEFINE seen == meterer[w].seen
    <3>1. seen.state # "processing" /\ seen.lastRun = cron.lastRun /\ cron.state = seen.state
      BY <2>1, <2>5, Zenon DEF Claims, Claimable
    <3>2. cron.state = "queued"
      BY <1>0, <3>1 DEF Row
    <3>3. cron'.state = "processing" /\ cron'.lastRun = cron.lastRun
      BY <1>0, <2>5 DEF Claims, Row
    <3>4. meterer[w].phase = "claiming" /\ billed' = billed
      BY <2>5 DEF ClaimHour
    <3>5. /\ meterer'[w].phase = "reporting" /\ meterer'[w].seen = seen /\ meterer'[w].done = 0
          /\ \A v \in Meterers : v # w => meterer'[v] = meterer[v] /\ meterer'[v].phase # "reporting"
      <4>1. \A v \in Meterers : meterer[v].phase # "reporting"
        BY <2>1, <3>2 DEF OnceInv, AtItsHour
      <4>2. meterer[w].done = 0
        BY <2>1, <3>4 DEF OnceInv
      <4> QED  BY <1>0, <2>5, <4>1, <4>2 DEF HoursInv, Metering
    <3>6. Ahead'
      BY <2>1, <3>3, <3>4 DEF OnceInv, Ahead
    <3>7. AtItsHour(meterer[w])'
      <4>1. cron.lastRun \in 0..(MaxHours - 1)
        BY <1>0, <3>1, <3>4 DEF Backed, Row
      <4>2. \A i \in 1..Meters : billed'[cron.lastRun][i] = 0
        BY <2>1, <3>2, <3>4, <4>1 DEF OnceInv, Ahead
      <4> QED  BY <3>1, <3>3, <3>5, <4>2 DEF AtItsHour
    <3>8. \A v \in Meterers : AtItsHour(meterer[v])'
      BY <3>5, <3>7 DEF AtItsHour
    <3>9. \A v \in Meterers : meterer'[v].phase = "claiming" => meterer'[v].done = 0
      BY <2>1, <3>5 DEF OnceInv
    <3> QED  BY <2>1, <3>5, <3>6, <3>8, <3>9 DEF OnceInv
  <2>6. ASSUME NEW w \in Meterers, ClaimErrs(w) PROVE OnceInv'
    <3>1. cron'.lastRun = cron.lastRun /\ cron'.state \in {cron.state, "processing"}
      BY <1>0, <2>6 DEF ClaimErrs, Claims, Row
    <3>2. \A v \in Meterers : meterer'[v] = meterer[v] \/ meterer'[v] = NoMetering
      BY <2>6 DEF ClaimErrs, Ends, HoursInv
    <3> QED  BY <2>1, <2>6, <3>1, <3>2, NoMeteringOK, OnceKept DEF ClaimErrs
  <2>7. ASSUME NEW w \in Meterers, Report(w) PROVE OnceInv'
    <3> DEFINE hour == meterer[w].seen.lastRun
               next == meterer[w].done + 1
    <3>1. /\ meterer[w].phase = "reporting" /\ meterer[w].done < Meters /\ billed' = Reported(w)
          /\ meterer' = [meterer EXCEPT ![w].done = next, ![w].attempt = 0] /\ cron' = cron
      BY <2>7 DEF Report, HoursInv
    <3>2. /\ hour \in 0..(MaxHours - 1) /\ next \in 1..Meters
          /\ \A h \in 0..(MaxHours - 1) : \A i \in 1..Meters :
               IF h = hour /\ i = next THEN billed'[h][i] > 0 /\ (billed[h][i] = 0 => billed'[h][i] = 1)
                                       ELSE billed'[h][i] = billed[h][i]
      BY <3>1, OneMoreBilled
    <3>3. /\ cron.state = "processing" /\ hour = cron.lastRun
          /\ \A i \in next..Meters : billed[hour][i] = 0
      BY <2>1, <3>1 DEF OnceInv, AtItsHour
    <3>4. /\ meterer'[w].phase = "reporting" /\ meterer'[w].seen = meterer[w].seen
          /\ meterer'[w].done = next
          /\ \A v \in Meterers : v # w => meterer'[v] = meterer[v] /\ meterer'[v].phase # "reporting"
      BY <1>0, <2>1, <3>1 DEF HoursInv, OnceInv, Metering
    <3>5. next \in next..Meters /\ \A i \in (next + 1)..Meters : i \in 1..Meters /\ i # next /\ i \in next..Meters
      BY <1>0, <3>2
    <3> HIDE DEF hour, next
    <3>6. Ahead'
      BY <2>1, <3>1, <3>2, <3>3, <3>5 DEF OnceInv, Ahead
    <3>7. AtItsHour(meterer[w])'
      <4>1. \A i \in (next + 1)..Meters : billed'[hour][i] = 0
        BY <3>2, <3>3, <3>5
      <4> QED  BY <3>1, <3>3, <3>4, <4>1 DEF AtItsHour, hour
    <3>8. \A v \in Meterers : AtItsHour(meterer[v])'
      BY <3>4, <3>7 DEF AtItsHour
    <3>9. \A v \in Meterers : meterer'[v].phase = "claiming" => meterer'[v].done = 0
      BY <2>1, <3>4 DEF OnceInv
    <3> QED  BY <2>1, <3>4, <3>6, <3>8, <3>9 DEF OnceInv
  <2>8. ASSUME NEW w \in Meterers, StripeErrs(w) PROVE OnceInv'
    <3>1. billed' = billed /\ cron' = cron
      BY <1>2, <2>8 DEF StripeErrs
    <3>2. ASSUME NEW v \in Meterers
          PROVE  \/ /\ meterer'[v].phase = meterer[v].phase
                    /\ meterer'[v].seen = meterer[v].seen /\ meterer'[v].done = meterer[v].done
                 \/ meterer'[v].phase = "failing"
      BY <1>0, <2>8 DEF StripeErrs, HoursInv, Metering
    <3> QED  BY <2>1, <3>1, <3>2, OnceKept
  <2>9. ASSUME NEW w \in Meterers, FinishHour(w) PROVE OnceInv'
    <3>1. /\ meterer[w].phase = "reporting" /\ billed' = billed
          /\ cron' = [state |-> "queued", startedAt |-> NoClaim, lastRun |-> meterer[w].seen.lastRun + 1]
          /\ meterer' = [meterer EXCEPT ![w] = NoMetering]
      BY <2>9 DEF FinishHour, IntervalEnd, Ends
    <3>2. meterer[w].seen.lastRun = cron.lastRun /\ cron'.lastRun = cron.lastRun + 1
      BY <2>1, <3>1 DEF OnceInv, AtItsHour
    <3>3. \A v \in Meterers : \/ meterer'[v] = meterer[v] /\ meterer'[v].phase # "reporting"
                             \/ meterer'[v] = NoMetering
      BY <2>1, <3>1 DEF HoursInv, OnceInv
    <3>4. Ahead'
      <4>1. cron.lastRun \in Int
        BY <1>0 DEF Row
      <4>2. \A h \in 0..(MaxHours - 1) : h >= cron.lastRun + 1 => h > cron.lastRun
        BY <1>0, <4>1
      <4> QED  BY <2>1, <3>1, <3>2, <4>1, <4>2 DEF OnceInv, Ahead
    <3>5. \A v \in Meterers : AtItsHour(meterer[v])'
      BY <3>3, NoMeteringOK DEF AtItsHour
    <3>6. \A v \in Meterers : meterer'[v].phase = "claiming" => meterer'[v].done = 0
      BY <2>1, <3>3, NoMeteringOK DEF OnceInv
    <3> QED  BY <2>1, <3>3, <3>4, <3>5, <3>6, NoMeteringOK DEF OnceInv
  <2>10. ASSUME NEW w \in Meterers, MeteringThrows(w) PROVE OnceInv'
    <3>1. \A v \in Meterers : meterer'[v] = meterer[v] \/ meterer'[v].phase = "failing"
      BY <1>0, <2>10 DEF MeteringThrows, HoursInv, Metering
    <3> QED  BY <2>1, <2>10, <3>1, OnceKept DEF MeteringThrows
  <2>11. ASSUME NEW w \in Meterers, ResetAfterError(w) \/ MetererDies(w) PROVE OnceInv'
    BY <1>2, <2>11 DEF ResetAfterError, MetererDies
  <2> QED
    BY <2>2, <2>3, <2>4, <2>5, <2>6, <2>7, <2>8, <2>9, <2>10, <2>11
    DEF MeteringNext, MetererSteps, ClaimHour
<1> QED  BY <1>1, <1>2

(* It holds at first. *)
LEMMA OnceInvInit == MeteringInit => OnceInv
<1> SUFFICES ASSUME MeteringInit PROVE OnceInv
  OBVIOUS
<1>1. HoursInv
  BY HoursInvInit
<1>2. Ahead
  BY DEF MeteringInit, Ahead
<1>3. \A w \in Meterers : meterer[w] = NoMetering
  BY DEF MeteringInit
<1> QED  BY <1>1, <1>2, <1>3, NoMeteringOK DEF MeteringInit, OnceInv, AtItsHour

(* handleCloudUsageMeteringJob.ts: any number of jobs read the row at the  *)
(* same time; that the update of the row compares the state with what was  *)
(* read leaves one of them to report the hour, so that no meter is billed  *)
(* twice unless a job fails, dies, is overtaken, or claims an hour late.   *)
THEOREM NothingIsBilledTwice == MeteringSpec => []BilledOnce
<1>1. MeteringInit => HoursInv /\ OnceInv
  BY HoursInvInit, OnceInvInit
<1>2. HoursInv /\ OnceInv => BilledOnce
  <2>1. ASSUME HoursInv, OnceInv, ~incident PROVE BilledOnce
    <3>1. incident = FALSE /\ DOMAIN billed = 0..(MaxHours - 1)
      BY <2>1 DEF OnceInv, HoursInv, Billing
    <3> QED  BY <2>1, <3>1 DEF OnceInv, Ahead, BilledOnce
  <2> QED  BY <2>1 DEF BilledOnce
<1> QED  BY <1>1, <1>2, HoursInvKept, OnceInvKept, PTL DEF MeteringSpec

-----------------------------------------------------------------------------

(* What the types say beyond HoursInv and OnceInv: the bounds of what is   *)
(* counted, and that nobody knows of a claim that was not made.            *)
MeteringBounds ==
  /\ staleClaim \in BOOLEAN
  /\ cron.startedAt <= claims
  /\ meteringJobs \in 0..MaxMeteringJobs
  /\ \A w \in Meterers : meterer[w].seen.startedAt <= claims /\ meterer[w].attempt < StripeAttempts
  /\ meteringFaults \in 0..MaxMeteringFaults

(* That is all the types say. *)
LEMMA MeteringTypes == HoursInv /\ OnceInv /\ MeteringBounds => MeteringTypeOK
<1> SUFFICES ASSUME HoursInv, OnceInv, MeteringBounds PROVE MeteringTypeOK
  OBVIOUS
<1> DEFINE Rows == [state : {"queued", "processing"}, startedAt : 0..claims, lastRun : 0..MaxHours]
           Jobs == [phase : {"idle", "claiming", "reporting", "failing"}, seen : Rows,
                    done : 0..Meters, attempt : 0..(StripeAttempts - 1)]
<1>1. \A row \in Row : row.startedAt <= claims => row \in Rows
  BY DEF HoursInv, Row
<1>2. cron \in Rows
  BY <1>1 DEF HoursInv, MeteringBounds
<1>3. ASSUME NEW w \in Meterers PROVE meterer[w] \in Jobs
  <2>1. meterer[w] \in Metering /\ meterer[w].seen \in Rows
    BY <1>1 DEF HoursInv, MeteringBounds, Metering
  <2>2. meterer[w].attempt \in 0..(StripeAttempts - 1)
    BY <2>1, MeteringAssumption DEF MeteringBounds, Metering
  <2> HIDE DEF Rows
  <2> QED  BY <2>1, <2>2 DEF Metering
<1>4. meterer \in [Meterers -> Jobs]
  BY <1>3 DEF HoursInv
<1>5. staleClaim \in BOOLEAN /\ incident \in BOOLEAN
  BY Zenon DEF MeteringBounds, OnceInv
<1>6. /\ claims \in Nat /\ dueHours \in 0..MaxHours /\ meteringJobs \in 0..MaxMeteringJobs
      /\ billed \in [0..(MaxHours - 1) -> [1..Meters -> 0..2]]
      /\ meteringFaults \in 0..MaxMeteringFaults
  BY DEF HoursInv, MeteringBounds, Billing
<1> QED  BY <1>2, <1>4, <1>5, <1>6, Zenon DEF MeteringTypeOK

(* There is room for the jobs that are added. *)
LEMMA JobsWithin ==
  ASSUME MeteringBounds, NEW n \in Nat
  PROVE  WithJobs(n) \in 0..MaxMeteringJobs
<1>1. meteringJobs + n \in Nat /\ MaxMeteringJobs \in Nat
  BY MeteringAssumption DEF MeteringBounds
<1>2. WithJobs(n) = IF meteringJobs + n <= MaxMeteringJobs THEN meteringJobs + n ELSE MaxMeteringJobs
  BY <1>1, MinOfTwo DEF WithJobs
<1> QED  BY <1>1, <1>2

(* At most one worker's job becomes x. *)
LEMMA BoundsKept ==
  ASSUME HoursInv, MeteringBounds, NEW w \in Meterers, NEW x,
         meterer' = meterer \/ meterer' = [meterer EXCEPT ![w] = x],
         x.seen.startedAt <= claims', x.attempt < StripeAttempts,
         claims' \in Nat, claims <= claims', cron'.startedAt <= claims',
         staleClaim' \in BOOLEAN, meteringJobs' \in 0..MaxMeteringJobs,
         meteringFaults' \in 0..MaxMeteringFaults
  PROVE  MeteringBounds'
<1>1. ASSUME NEW v \in Meterers
      PROVE  meterer'[v].seen.startedAt <= claims' /\ meterer'[v].attempt < StripeAttempts
  <2>1. meterer'[v] = meterer[v] \/ meterer'[v] = x
    BY DEF HoursInv
  <2>2. /\ meterer[v].seen.startedAt \in Nat /\ claims \in Nat
        /\ meterer[v].seen.startedAt <= claims /\ meterer[v].attempt < StripeAttempts
    BY DEF HoursInv, MeteringBounds, Metering, Row
  <2> QED  BY <2>1, <2>2
<1> QED  BY <1>1, Zenon DEF MeteringBounds

(* A claim is a new one. *)
LEMMA ClaimsWithin ==
  ASSUME HoursInv, MeteringBounds, NEW seen, Claims(seen) \/ UNCHANGED <<cron, staleClaim, claims, incident>>
  PROVE  claims' \in Nat /\ claims <= claims' /\ cron'.startedAt <= claims' /\ staleClaim' \in BOOLEAN
<1>1. CASE Claims(seen)
  <2>1. claims' = claims + 1 /\ cron'.startedAt = claims' /\ staleClaim' = FALSE
    BY <1>1 DEF Claims, HoursInv, Row
  <2>2. staleClaim' \in BOOLEAN
    BY <2>1, Zenon
  <2> QED  BY <2>1, <2>2 DEF HoursInv
<1>2. CASE UNCHANGED <<cron, staleClaim, claims, incident>>
  <2>1. staleClaim' \in BOOLEAN
    BY <1>2, Zenon DEF MeteringBounds
  <2> QED  BY <1>2, <2>1 DEF HoursInv, MeteringBounds
<1> QED  BY <1>1, <1>2

(* Every action keeps the bounds. *)
LEMMA MeteringBoundsKept == HoursInv /\ MeteringBounds /\ [MeteringNext]_meteringVars => MeteringBounds'
<1> SUFFICES ASSUME HoursInv, MeteringBounds, [MeteringNext]_meteringVars PROVE MeteringBounds'
  OBVIOUS
<1> DEFINE Steady == UNCHANGED <<cron, staleClaim, claims>>
           Good(x) == x.seen.startedAt <= claims /\ x.attempt < StripeAttempts
<1>0. /\ StripeAttempts \in Nat \ {0} /\ MaxMeteringJobs \in Nat \ {0} /\ MaxMeteringFaults \in Nat
      /\ claims \in Nat /\ cron \in Row /\ cron.startedAt <= claims /\ staleClaim \in BOOLEAN
      /\ meteringJobs \in 0..MaxMeteringJobs /\ meteringFaults \in 0..MaxMeteringFaults
  BY MeteringAssumption, Zenon DEF HoursInv, MeteringBounds
<1>a. ASSUME NEW w \in Meterers
      PROVE  meterer[w] \in Metering /\ meterer[w].seen \in Row /\ Good(meterer[w])
  BY DEF HoursInv, MeteringBounds, Metering
<1>b. Good(NoMetering) /\ Good([NoMetering EXCEPT !.phase = "claiming", !.seen = cron])
  BY <1>0 DEF NoMetering, NoClaim
<1>c. Steady => claims' \in Nat /\ claims <= claims' /\ cron'.startedAt <= claims'
                /\ staleClaim' \in BOOLEAN
  BY <1>0
<1>d. MeteringFault => meteringFaults' \in 0..MaxMeteringFaults
  BY <1>0 DEF MeteringFault
<1>e. \A n \in {1, 2} : WithJobs(n) \in 0..MaxMeteringJobs
  BY JobsWithin
<1>1. CASE HourPasses \/ ReplicaStarts
  <2>1. UNCHANGED <<cron, staleClaim, claims, meterer, meteringFaults>> /\ meteringJobs' = WithJobs(1)
    BY <1>1 DEF HourPasses, ReplicaStarts
  <2> QED  BY <1>0, <1>e, <2>1, Zenon DEF MeteringBounds
<1>2. CASE TwentyMinutesPass
  <2>1. staleClaim' = TRUE /\ UNCHANGED <<cron, claims, meterer, meteringJobs, meteringFaults>>
    BY <1>2 DEF TwentyMinutesPass
  <2> QED  BY <1>0, <2>1, Zenon DEF MeteringBounds
<1>3. CASE UNCHANGED meteringVars
  BY <1>3, Zenon DEF MeteringBounds, meteringVars
<1>4. ASSUME NEW w \in Meterers, StartMetering(w) PROVE MeteringBounds'
  <2>1. meteringJobs' \in 0..MaxMeteringJobs /\ meteringFaults' \in 0..MaxMeteringFaults
    BY <1>0, <1>4 DEF StartMetering
  <2>2. Steady /\ (\/ meterer' = meterer
                   \/ meterer' = [meterer EXCEPT ![w] = [NoMetering EXCEPT !.phase = "claiming", !.seen = cron]])
    BY <1>4 DEF StartMetering
  <2> QED  BY <1>b, <1>c, <2>1, <2>2, BoundsKept
<1>5. ASSUME NEW w \in Meterers, ClaimHour(w) PROVE MeteringBounds'
  <2>1. Claims(meterer[w].seen) \/ UNCHANGED <<cron, staleClaim, claims, incident>>
    BY <1>5 DEF ClaimHour
  <2>2. claims' \in Nat /\ claims <= claims' /\ cron'.startedAt <= claims' /\ staleClaim' \in BOOLEAN
    BY <2>1, ClaimsWithin
  <2>3. meteringJobs' \in 0..MaxMeteringJobs /\ meteringFaults' \in 0..MaxMeteringFaults
    BY <1>0, <1>5 DEF ClaimHour
  <2>4. PICK x \in {NoMetering, [meterer[w] EXCEPT !.phase = "reporting"]} :
          meterer' = [meterer EXCEPT ![w] = x]
    BY <1>5 DEF ClaimHour, Ends, HoursInv
  <2>5. x.seen.startedAt <= claims' /\ x.attempt < StripeAttempts
    BY <1>0, <1>a, <1>b, <2>2 DEF Metering, Row, NoMetering, NoClaim
  <2> QED  BY <2>2, <2>3, <2>4, <2>5, BoundsKept
<1>6. ASSUME NEW w \in Meterers, ClaimErrs(w) PROVE MeteringBounds'
  <2>1. Claims(meterer[w].seen) \/ UNCHANGED <<cron, staleClaim, claims, incident>>
    BY <1>6 DEF ClaimErrs
  <2>2. claims' \in Nat /\ claims <= claims' /\ cron'.startedAt <= claims' /\ staleClaim' \in BOOLEAN
    BY <2>1, ClaimsWithin
  <2>3. meteringJobs' \in 0..MaxMeteringJobs /\ meteringFaults' \in 0..MaxMeteringFaults
    BY <1>0, <1>6, <1>d DEF ClaimErrs
  <2>4. meterer' = [meterer EXCEPT ![w] = NoMetering]
    BY <1>6 DEF ClaimErrs, Ends
  <2>5. NoMetering.seen.startedAt <= claims' /\ NoMetering.attempt < StripeAttempts
    BY <1>0, <2>2 DEF NoMetering, NoClaim
  <2> QED  BY <2>2, <2>3, <2>4, <2>5, BoundsKept
<1>7. ASSUME NEW w \in Meterers, Report(w) PROVE MeteringBounds'
  <2> DEFINE x == [meterer[w] EXCEPT !.done = @ + 1, !.attempt = 0]
  <2>1. Good(x)
    BY <1>0, <1>a DEF Metering
  <2>2. meterer' = [meterer EXCEPT ![w] = x] /\ Steady /\ UNCHANGED <<meteringJobs, meteringFaults>>
    BY <1>7 DEF Report, HoursInv, Metering
  <2> HIDE DEF x
  <2> QED  BY <1>0, <1>c, <2>1, <2>2, BoundsKept
<1>8. ASSUME NEW w \in Meterers, StripeErrs(w) PROVE MeteringBounds'
  <2> DEFINE x == [meterer[w] EXCEPT !.attempt = @ + 1]
             y == [meterer[w] EXCEPT !.phase = "failing"]
  <2>1. Good(y) /\ (meterer[w].attempt + 1 < StripeAttempts => Good(x))
    BY <1>0, <1>a DEF Metering
  <2>2. /\ Steady /\ meteringJobs' = meteringJobs /\ MeteringFault
        /\ IF meterer[w].attempt + 1 < StripeAttempts THEN meterer' = [meterer EXCEPT ![w] = x]
                                                      ELSE meterer' = [meterer EXCEPT ![w] = y]
    BY <1>8 DEF StripeErrs, HoursInv, Metering
  <2> HIDE DEF x, y
  <2> QED  BY <1>0, <1>c, <1>d, <2>1, <2>2, BoundsKept
<1>9. ASSUME NEW w \in Meterers, FinishHour(w) PROVE MeteringBounds'
  <2>1. cron'.startedAt = 0 /\ staleClaim' = FALSE /\ claims' = claims
    BY <1>9 DEF FinishHour, NoClaim
  <2>2. meteringJobs' \in 0..MaxMeteringJobs /\ meteringFaults' = meteringFaults
    BY <1>0, <1>9, <1>e DEF FinishHour
  <2>3. meterer' = [meterer EXCEPT ![w] = NoMetering]
    BY <1>9 DEF FinishHour, Ends
  <2>4. staleClaim' \in BOOLEAN
    BY <2>1, Zenon
  <2>5. /\ claims' \in Nat /\ claims <= claims' /\ cron'.startedAt <= claims'
        /\ NoMetering.seen.startedAt <= claims' /\ NoMetering.attempt < StripeAttempts
        /\ meteringFaults' \in 0..MaxMeteringFaults
    BY <1>0, <1>b, <2>1, <2>2
  <2> QED  BY <2>2, <2>3, <2>4, <2>5, BoundsKept
<1>10. ASSUME NEW w \in Meterers, MeteringThrows(w) PROVE MeteringBounds'
  <2> DEFINE y == [meterer[w] EXCEPT !.phase = "failing"]
  <2>1. Good(y)
    BY <1>a DEF Metering
  <2>2. meterer' = [meterer EXCEPT ![w] = y] /\ Steady /\ MeteringFault
    BY <1>10 DEF MeteringThrows, HoursInv, Metering
  <2>3. meteringJobs' \in 0..MaxMeteringJobs
    BY <1>0, <1>10 DEF MeteringThrows
  <2> HIDE DEF y
  <2> QED  BY <1>c, <1>d, <2>1, <2>2, <2>3, BoundsKept
<1>11. ASSUME NEW w \in Meterers, ResetAfterError(w) PROVE MeteringBounds'
  <2>1. cron'.startedAt = 0 /\ staleClaim' = FALSE /\ claims' = claims
    BY <1>0, <1>11 DEF ResetAfterError, NoClaim, Row
  <2>2. meteringJobs' \in 0..MaxMeteringJobs /\ meteringFaults' = meteringFaults
    BY <1>11, <1>e DEF ResetAfterError
  <2>3. meterer' = [meterer EXCEPT ![w] = NoMetering]
    BY <1>11 DEF ResetAfterError, Ends
  <2>4. staleClaim' \in BOOLEAN
    BY <2>1, Zenon
  <2>5. /\ claims' \in Nat /\ claims <= claims' /\ cron'.startedAt <= claims'
        /\ NoMetering.seen.startedAt <= claims' /\ NoMetering.attempt < StripeAttempts
        /\ meteringFaults' \in 0..MaxMeteringFaults
    BY <1>0, <1>b, <2>1, <2>2
  <2> QED  BY <2>2, <2>3, <2>4, <2>5, BoundsKept
<1>12. ASSUME NEW w \in Meterers, MetererDies(w) PROVE MeteringBounds'
  <2>1. meteringJobs' \in 0..MaxMeteringJobs /\ MeteringFault /\ Steady
    BY <1>12, <1>e DEF MetererDies
  <2>2. meterer' = [meterer EXCEPT ![w] = NoMetering]
    BY <1>12 DEF MetererDies, Ends
  <2> QED  BY <1>b, <1>c, <1>d, <2>1, <2>2, BoundsKept
<1> QED
  BY <1>1, <1>2, <1>3, <1>4, <1>5, <1>6, <1>7, <1>8, <1>9, <1>10, <1>11, <1>12
  DEF MeteringNext, MetererSteps

(* The bounds hold at first. *)
LEMMA MeteringBoundsInit == MeteringInit => MeteringBounds
<1> SUFFICES ASSUME MeteringInit PROVE MeteringBounds
  OBVIOUS
<1>1. cron.startedAt <= claims /\ meteringJobs \in 0..MaxMeteringJobs /\ meteringFaults \in 0..MaxMeteringFaults
  BY MeteringAssumption DEF MeteringInit, NoMetering, NoClaim
<1>2. \A w \in Meterers : meterer[w].seen.startedAt <= claims /\ meterer[w].attempt < StripeAttempts
  BY MeteringAssumption DEF MeteringInit, NoMetering, NoClaim
<1>3. staleClaim \in BOOLEAN
  BY Zenon DEF MeteringInit
<1> QED  BY <1>1, <1>2, <1>3 DEF MeteringBounds

(* All of metering has its types, whatever the workers, meters and hours:  *)
(* the row and what jobs have read of it name claims that were made and    *)
(* hours there are.                                                        *)
THEOREM MeteringIsTyped == MeteringSpec => []MeteringTypeOK
<1>1. MeteringInit => HoursInv /\ OnceInv /\ MeteringBounds
  BY HoursInvInit, OnceInvInit, MeteringBoundsInit
<1> QED  BY <1>1, HoursInvKept, OnceInvKept, MeteringBoundsKept, MeteringTypes, PTL DEF MeteringSpec
=============================================================================
