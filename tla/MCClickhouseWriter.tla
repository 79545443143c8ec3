------------------------- MODULE MCClickhouseWriter -------------------------
(***************************************************************************)
(* Two tables and four rows; the first cannot be serialised until it is    *)
(* truncated, and no two rows of `traces` fit into one string.             *)
(***************************************************************************)
EXTENDS ClickhouseWriter

CONSTANTS traces, scores

MCTableOf == <<traces, scores, traces, traces>>

(* One table, for the run about shutdown. *)
MCOneTable == [r \in Records |-> traces]
=============================================================================
