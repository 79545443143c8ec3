------------------------- MODULE MCRetentionCleaner -------------------------
(***************************************************************************)
(* Two workers' cleaners of one table, alone.                              *)
(***************************************************************************)
EXTENDS RetentionCleaner

MCTTL == [k \in Keys |-> Max({DeleteTime, QueryTime}) + Buffer]
=============================================================================
