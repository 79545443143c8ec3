----------------------- MODULE MCBackgroundMigrations -----------------------
(***************************************************************************)
(* The first migration is dormant; two are left for the workers.           *)
(***************************************************************************)
EXTENDS BackgroundMigrations

CONSTANTS w1, w2
=============================================================================
