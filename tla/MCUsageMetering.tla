--------------------------- MODULE MCUsageMetering ---------------------------
(***************************************************************************)
(* Duplicate jobs of metering and nothing else: there are no faults, and   *)
(* every job is done before its claim is 20 minutes old.                   *)
(***************************************************************************)
EXTENDS UsageMetering

Spec == MeteringInit /\ [][MeteringNext /\ ~staleClaim']_meteringVars
=============================================================================
