------------------------ MODULE MCIngestionPipeline ------------------------
(***************************************************************************)
(* Request r1 is about trace t and, as OTel requests are, about an         *)
(* observation o whose job skips the listing; request r2 carries an        *)
(* earlier event of t, and r3 a later one.  A behaviour is about r1 and r2 *)
(* and jobs in parallel, with the seen cache on and one error or crash; or *)
(* about r2 and r3 and jobs one at a time, with the cache off and more     *)
(* errors, so that attempts are used up.                                   *)
(***************************************************************************)
EXTENDS IngestionPipeline

CONSTANTS r1, r2, r3, t, o

VARIABLE part        \* "parallel" or "serial"

MCRequestOf == <<r2, r1, r1, r3>>

MCEntityOf == <<t, t, o, t>>

Serial == INSTANCE IngestionPipeline WITH SeenCache <- FALSE, Slots <- 1

MCInit == part \in {"parallel", "serial"} /\ Init

MCNext ==
  /\ UNCHANGED part
  /\ \/ part = "parallel" /\ Next /\ request'[r3] = "ready" /\ faults' <= 1
     \/ part = "serial" /\ Serial!Next /\ request'[r1] = "ready" /\ job'[MaxJobs].pc = "none"

(* The workers take jobs as long as there are any, and what they await     *)
(* settles.                                                                *)
MCFairness ==
  \A j \in Jobs :
    /\ WF_vars(part = "serial" /\ Serial!Process(j))
    /\ SF_vars(part = "serial" /\ Serial!Begin(j))

MCSpec == MCInit /\ [][MCNext]_<<part, vars>> /\ MCFairness

(* Every job comes to an end, redirected or not, whatever fails and        *)
(* however often it is retried.                                            *)
SerialJobsEnd == part = "serial" => JobsEnd
=============================================================================
