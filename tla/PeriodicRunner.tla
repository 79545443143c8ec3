---------------------------- MODULE PeriodicRunner ----------------------------
(***************************************************************************)
(* A task that runs, and runs again some time after each run has ended,    *)
(* from start() until stop().  A run is asynchronous, so start and stop    *)
(* are called between runs and in the middle of one.  Runs and timers are  *)
(* counted, since nothing but the code keeps there from being two.         *)
(* Definitions named Fault... are deliberate errors: no definition uses    *)
(* one, and each shows that a property would notice it.                    *)
(* src/worker/src/utils/PeriodicRunner.ts                                  *)
(***************************************************************************)
EXTENDS Naturals

CONSTANT MaxChains     \* runs and timers there can be at once (bounds the model)

ASSUME RunnerAssumption == MaxChains \in Nat \ {0}

VARIABLES
  isRunning,     \* started and not stopped
  activeRun,     \* whether activeRun is set
  timeoutId,     \* no timer yet or cleared, one that is armed, or one that has fired
  runs,          \* calls of runAndScheduleNext that have not returned
  timers         \* timers armed

runnerVars == <<isRunning, activeRun, timeoutId, runs, timers>>

RunnerInit ==
  /\ isRunning = FALSE
  /\ activeRun = FALSE
  /\ timeoutId = "null"
  /\ runs = 0
  /\ timers = 0

FaultMayRun == TRUE

MayRun == ~activeRun

Start ==
  /\ ~isRunning
  /\ isRunning' = TRUE
  /\ IF MayRun
     THEN runs' = runs + 1 /\ activeRun' = TRUE
     ELSE UNCHANGED <<runs, activeRun>>
  /\ UNCHANGED <<timeoutId, timers>>

(* clearTimeout of a timer that has fired does nothing. *)
Stop ==
  /\ isRunning' = FALSE
  /\ timeoutId' = "null"
  /\ timers' = IF timeoutId = "armed" THEN timers - 1 ELSE timers
  /\ UNCHANGED <<runs, activeRun>>

(* A timer fires; of several one cannot tell which timeoutId names. *)
TimerFires ==
  /\ timers > 0
  /\ timers' = timers - 1
  /\ timeoutId' \in IF timers = 1 /\ timeoutId = "armed" THEN {"fired"} ELSE {timeoutId, "fired"}
  /\ runs' = runs + 1
  /\ activeRun' = TRUE
  /\ UNCHANGED isRunning

(* execute() has returned or thrown: the finally block. *)
RunEnds ==
  /\ runs > 0
  /\ runs' = runs - 1
  /\ activeRun' = FALSE
  /\ IF isRunning
     THEN timers' = timers + 1 /\ timeoutId' = "armed"
     ELSE UNCHANGED <<timers, timeoutId>>
  /\ UNCHANGED isRunning

RunnerNext ==
  /\ runs + timers <= MaxChains
  /\ Start \/ Stop \/ TimerFires \/ RunEnds

RunnerSpec == RunnerInit /\ [][RunnerNext]_runnerVars

-----------------------------------------------------------------------------

RunnerTypeOK ==
  /\ {isRunning, activeRun} \subseteq BOOLEAN
  /\ timeoutId \in {"null", "armed", "fired"}
  /\ {runs, timers} \subseteq 0..(MaxChains + 1)

(* However start and stop are called, even in the middle of a run, there   *)
(* is one chain of runs and timers and never a second one, and no call     *)
(* breaks it off as long as the runner is started.                         *)
OneChain ==
  /\ runs + timers <= 1
  /\ isRunning => runs + timers = 1
=============================================================================
