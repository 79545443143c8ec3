----------------------------- MODULE MCMonitors -----------------------------
(***************************************************************************)
(* Two monitors; the first repeats its alerts and tells of missing data.   *)
(***************************************************************************)
EXTENDS Monitors

CONSTANTS m1, m2, s1, s2, k1, k2, p1, p2

MCNoDataModes == m1 :> "NOTIFY_NO_DATA" @@ m2 :> "LAST_SEVERITY"

MCRenotify == m1 :> 2 @@ m2 :> 0

(* The first monitor only. *)
MCOneMode == m1 :> "NOTIFY_NO_DATA"

MCOneRenotify == m1 :> 2

(* A monitor as Create leaves it. *)
Created(status, severity) == [NoRow EXCEPT !.status = status, !.severity = severity]

(* The first monitor alone, just created: with all the time and no         *)
(* updates, or with an update or a deletion to come and less time.  Or     *)
(* both, the second still to be created, without updates and with still    *)
(* fewer moments left.                                                     *)
MCInit ==
  \/ Idle(1, m1 :> Created("ACTIVE", "UNKNOWN") @@ m2 :> Deleted, MaxUpdates)
  \/ Idle(2, m1 :> Created("ACTIVE", "UNKNOWN") @@ m2 :> Deleted, 0)
  \/ Idle(1, m1 :> Created("PAUSED", "PAUSED") @@ m2 :> Deleted, 0)
  \/ Idle(3, m1 :> Created("ACTIVE", "UNKNOWN") @@ m2 :> NoRow, MaxUpdates)

MCSpec == MCInit /\ [][Next]_vars

ProcessSymmetry == Permutations({k1, k2}) \cup Permutations({p1, p2})
=============================================================================
