------------------------- MODULE AtLeastOnceBuffer -------------------------
(***************************************************************************)
(* What the ingestion code may rely on when it hands a row to the worker's *)
(* ClickhouseWriter and returns: the buffer holds the row until ClickHouse *)
(* has acknowledged an insert of it, or until MaxAttempts flushes of it    *)
(* have failed, and lets go of it in no other way.  How rows are batched,  *)
(* split, retried and requeued is ClickhouseWriter's business.             *)
(***************************************************************************)
EXTENDS Naturals

CONSTANTS
  Records,       \* the rows handed over, one for each call of addToQueue
  MaxAttempts    \* flushes a row takes part in before it is given up

VARIABLES
  held,          \* rows the buffer is answerable for
  acked,         \* rows an acknowledged insert contained
  dropped,       \* rows given up
  fails          \* for each row, the failed flushes it took part in

vars == <<held, acked, dropped, fails>>

Init ==
  /\ held = {}
  /\ acked = {}
  /\ dropped = {}
  /\ fails = [r \in Records |-> 0]

Accept(r) ==
  /\ r \notin held \cup acked \cup dropped
  /\ held' = held \cup {r}
  /\ UNCHANGED <<acked, dropped, fails>>

Acknowledge(batch) ==
  /\ batch \subseteq held
  /\ held' = held \ batch
  /\ acked' = acked \cup batch
  /\ UNCHANGED <<dropped, fails>>

(* A flush of the batch failed for good: its rows are held for another     *)
(* flush, except those that have used up their attempts.                   *)
FailFlush(batch) ==
  LET spent == {r \in batch : fails[r] + 1 = MaxAttempts}
  IN  /\ batch \subseteq held
      /\ held' = held \ spent
      /\ dropped' = dropped \cup spent
      /\ fails' = [r \in Records |-> IF r \in batch THEN fails[r] + 1 ELSE fails[r]]
      /\ UNCHANGED acked

Next ==
  \/ \E r \in Records : Accept(r)
  \/ \E batch \in SUBSET held : Acknowledge(batch) \/ FailFlush(batch)

Spec == Init /\ [][Next]_vars
=============================================================================
