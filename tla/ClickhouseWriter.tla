-------------------------- MODULE ClickhouseWriter --------------------------
(***************************************************************************)
(* The worker's in-memory buffer in front of ClickHouse: one queue of rows *)
(* for each table, flushed when it reaches BatchSize, on an interval timer *)
(* and at shutdown.  A flush takes rows out of its queue and then awaits   *)
(* the insert, so flushes of one table overlap each other, further calls   *)
(* of addToQueue, the timer and the shutdown.  A flush in flight is a      *)
(* record of `flights`; an action resolves one insert of one flight.       *)
(* Definitions named Fault... are deliberate errors: no definition uses    *)
(* one, and each shows that a property would notice it.                    *)
(* src/worker/src/services/ClickhouseWriter/index.ts                       *)
(***************************************************************************)
EXTENDS Integers, Sequences, FiniteSets

CONSTANTS
  Tables,        \* the ClickHouse tables (enum TableName)
  Rows,          \* how many calls of addToQueue there are (bounds the model)
  TableOf,       \* the table a row belongs to (RecordInsertType<T>)
  BatchSize,     \* LANGFUSE_INGESTION_CLICKHOUSE_WRITE_BATCH_SIZE
  MaxAttempts,   \* LANGFUSE_INGESTION_CLICKHOUSE_MAX_ATTEMPTS
  MaxJoined,     \* rows that serialise into one string without exceeding V8's limit
  Huge           \* rows that exceed that limit alone, until truncated

(* A row stands for one call of addToQueue; rows are numbered in the order *)
(* of the calls.                                                           *)
Records == 1..Rows

ASSUME WriterAssumption ==
  /\ Rows \in Nat
  /\ TableOf \in [Records -> Tables]
  /\ BatchSize \in Nat \ {0}
  /\ MaxAttempts \in Nat \ {0}
  /\ MaxJoined \in Nat \ {0}
  /\ Huge \subseteq Records

VARIABLES
  queue,         \* this.queue: for each table, the items waiting
  flights,       \* flushes that have taken their items and await ClickHouse
  intervalBusy,  \* this.isIntervalFlushInProgress
  phase,         \* "running", "draining" (shutdown awaits its flush), "stopped"
  added,         \* history: rows handed to addToQueue
  acked,         \* history: rows of a flush whose insert succeeded
  dropped,       \* history: rows given up at MaxAttempts
  fails          \* history: failed flushes each row took part in

vars == <<queue, flights, intervalBusy, phase, added, acked, dropped, fails>>

Item == [rec : Records, attempts : 1..MaxAttempts, cut : BOOLEAN]

Flight ==
  [table : Tables, items : Seq(Item), tries : 0..MaxAttempts - 1,
   truncated : BOOLEAN, origin : {"size", "interval", "shutdown"}]

RecsOf(items) == {items[i].rec : i \in DOMAIN items}

(***************************************************************************)
(* flush: the synchronous part, up to the first await.                     *)
(***************************************************************************)
Smaller(m, n) == IF m <= n THEN m ELSE n

Taken(items, n) == SubSeq(items, 1, Smaller(n, Len(items)))

Left(items, n) == SubSeq(items, Smaller(n, Len(items)) + 1, Len(items))

NewFlight(t, items, origin) ==
  [table |-> t, items |-> items, tries |-> 0, truncated |-> FALSE, origin |-> origin]

(***************************************************************************)
(* addToQueue: push, and flush one batch when the queue is full.           *)
(***************************************************************************)
AddToQueue(r) ==
  LET t == TableOf[r]
      q == Append(queue[t], [rec |-> r, attempts |-> 1, cut |-> FALSE])
  IN  /\ phase = "running"
      /\ added = 1..r - 1
      /\ added' = added \cup {r}
      /\ IF Len(q) >= BatchSize
         THEN /\ queue' = [queue EXCEPT ![t] = Left(q, BatchSize)]
              /\ flights' = flights \cup {NewFlight(t, Taken(q, BatchSize), "size")}
         ELSE /\ queue' = [queue EXCEPT ![t] = q]
              /\ UNCHANGED flights
      /\ UNCHANGED <<intervalBusy, phase, acked, dropped, fails>>

(* start: the timer callback, which returns early while its previous flush *)
(* of all tables has not settled.                                          *)
IntervalTick ==
  /\ phase = "running"
  /\ ~intervalBusy
  /\ intervalBusy' = TRUE
  /\ flights' = flights \cup
       {NewFlight(t, Taken(queue[t], BatchSize), "interval") :
          t \in {u \in Tables : queue[u] # <<>>}}
  /\ queue' = [t \in Tables |-> Left(queue[t], BatchSize)]
  /\ UNCHANGED <<phase, added, acked, dropped, fails>>

FaultIntervalDone ==
  /\ intervalBusy
  /\ \A f \in flights : f.origin # "interval"
  /\ UNCHANGED vars

(* flushAll().finally(...): the flush of the slowest table has settled.    *)
IntervalDone ==
  /\ intervalBusy
  /\ \A f \in flights : f.origin # "interval"
  /\ intervalBusy' = FALSE
  /\ UNCHANGED <<queue, flights, phase, added, acked, dropped, fails>>

(***************************************************************************)
(* shutdown: the queue workers are closed by now (shutdown.ts), so nothing *)
(* is added any more.  It flushes what is queued and awaits those flushes. *)
(***************************************************************************)
Shutdown ==
  /\ phase = "running"
  /\ phase' = "draining"
  /\ flights' = flights \cup
       {NewFlight(t, queue[t], "shutdown") : t \in {u \in Tables : queue[u] # <<>>}}
  /\ queue' = [t \in Tables |-> <<>>]
  /\ UNCHANGED <<intervalBusy, added, acked, dropped, fails>>

FaultShutdownDone ==
  /\ phase = "draining"
  /\ \A t \in Tables : queue[t] = <<>>
  /\ phase' = "stopped"
  /\ UNCHANGED <<queue, flights, intervalBusy, added, acked, dropped, fails>>

ShutdownDone ==
  /\ phase = "draining"
  /\ \A f \in flights : f.origin # "shutdown"
  /\ phase' = "stopped"
  /\ UNCHANGED <<queue, flights, intervalBusy, added, acked, dropped, fails>>

(***************************************************************************)
(* The catch block of flush: items whose attempts are used up are dropped, *)
(* the others go to the end of the queue, in their order, with one attempt *)
(* more.  InOrder(K, n) holds the one increasing enumeration of K, a set   *)
(* of indices up to n.                                                     *)
(***************************************************************************)
FaultExhaustedLate(item) == item.attempts > MaxAttempts

FaultExhaustedEarly(item) == item.attempts + 1 >= MaxAttempts

Exhausted(item) == item.attempts >= MaxAttempts

FaultRetriedForFree(item) == item

Retried(item) == [item EXCEPT !.attempts = @ + 1]

InOrder(K, n) ==
  {h \in UNION {[1..k -> K] : k \in 0..n} :
     /\ \A i, j \in DOMAIN h : i < j => h[i] < h[j]
     /\ \A x \in K : \E i \in DOMAIN h : h[i] = x}

Requeues(items) ==
  {[i \in DOMAIN h |-> Retried(items[h[i]])] :
     h \in InOrder({i \in DOMAIN items : ~Exhausted(items[i])}, Len(items))}

FlushFails(f, items, front) ==
  /\ flights' = flights \ {f}
  /\ \E back \in Requeues(items) :
       queue' = [queue EXCEPT ![f.table] = front \o @ \o back]
  /\ dropped' = dropped \cup {items[i].rec : i \in {j \in DOMAIN items : Exhausted(items[j])}}
  /\ fails' = [r \in Records |-> IF r \in RecsOf(items) THEN fails[r] + 1 ELSE fails[r]]
  /\ UNCHANGED <<intervalBusy, phase, added, acked>>

(***************************************************************************)
(* backOff with numOfAttempts: its retry callback runs after every failed  *)
(* insert, the last one included, so what the callback unshifts (front)    *)
(* and keeps (items) counts whether or not another insert follows.         *)
(***************************************************************************)
NextTry(f) == f.tries + 1

Retries(f, items, front, truncated) ==
  /\ NextTry(f) < MaxAttempts
  /\ flights' = (flights \ {f}) \cup
       {[f EXCEPT !.items = items, !.tries = NextTry(f), !.truncated = truncated]}
  /\ queue' = [queue EXCEPT ![f.table] = front \o @]
  /\ UNCHANGED <<intervalBusy, phase, added, acked, dropped, fails>>

RetriesOrFails(f, items, front, truncated) ==
  \/ Retries(f, items, front, truncated)
  \/ NextTry(f) >= MaxAttempts /\ FlushFails(f, items, front)

(***************************************************************************)
(* The outcomes of one insert of flight f.                                 *)
(***************************************************************************)
TooLong(f) ==
  \/ Len(f.items) > MaxJoined
  \/ \E i \in DOMAIN f.items : f.items[i].rec \in Huge /\ ~f.items[i].cut

(* truncateOversizedRecord changes the row the queue item refers to.       *)
Truncate(items) == [i \in DOMAIN items |-> [items[i] EXCEPT !.cut = TRUE]]

(* handleStringLengthError *)
FirstHalf(items) == SubSeq(items, 1, Len(items) \div 2)

FaultSecondHalf(items) == SubSeq(items, (Len(items) + 1) \div 2 + 1, Len(items))

SecondHalf(items) == SubSeq(items, Len(items) \div 2 + 1, Len(items))

InsertSucceeds(f) ==
  /\ ~TooLong(f)
  /\ flights' = flights \ {f}
  /\ acked' = acked \cup RecsOf(f.items)
  /\ UNCHANGED <<queue, intervalBusy, phase, added, dropped, fails>>

(* "socket hang up": the same rows are sent again. *)
SocketHangsUp(f) ==
  /\ ~TooLong(f)
  /\ RetriesOrFails(f, f.items, <<>>, f.truncated)

(* "invalid string length" of several rows: the second half goes back to   *)
(* the front of the queue, with the attempts it has.                       *)
SplitsBatch(f) ==
  /\ TooLong(f)
  /\ Len(f.items) # 1
  /\ RetriesOrFails(f, FirstHalf(f.items), SecondHalf(f.items), f.truncated)

(* "invalid string length" of a single row. *)
TruncatesRow(f) ==
  /\ TooLong(f)
  /\ Len(f.items) = 1
  /\ RetriesOrFails(f, Truncate(f.items), <<>>, f.truncated)

(* "size of json object ... extremely large", answered once per flush. *)
TruncatesBatch(f) ==
  /\ ~TooLong(f)
  /\ ~f.truncated
  /\ RetriesOrFails(f, Truncate(f.items), <<>>, TRUE)

(* Any other error, and a size error after truncation. *)
InsertRejected(f) ==
  /\ ~TooLong(f)
  /\ FlushFails(f, f.items, <<>>)

Resolve(f) ==
  \/ InsertSucceeds(f)
  \/ SocketHangsUp(f)
  \/ SplitsBatch(f)
  \/ TruncatesRow(f)
  \/ TruncatesBatch(f)
  \/ InsertRejected(f)

Init ==
  /\ queue = [t \in Tables |-> <<>>]
  /\ flights = {}
  /\ intervalBusy = FALSE
  /\ phase = "running"
  /\ added = {}
  /\ acked = {}
  /\ dropped = {}
  /\ fails = [r \in Records |-> 0]

Next ==
  \/ \E r \in Records : AddToQueue(r)
  \/ IntervalTick
  \/ IntervalDone
  \/ Shutdown
  \/ ShutdownDone
  \/ \E f \in flights : Resolve(f)

Spec == Init /\ [][Next]_vars

(* The timer fires, promise callbacks run, and the ClickHouse client       *)
(* settles every insert: it has a request timeout.                         *)
Fairness ==
  /\ WF_vars(IntervalTick)
  /\ WF_vars(IntervalDone)
  /\ WF_vars(ShutdownDone)
  /\ \A r \in Records :
       WF_vars(\E f \in flights : r \in RecsOf(f.items) /\ Resolve(f))

FairSpec == Spec /\ Fairness

-----------------------------------------------------------------------------

TypeOK ==
  /\ queue \in [Tables -> Seq(Item)]
  /\ flights \subseteq Flight
  /\ intervalBusy \in BOOLEAN
  /\ phase \in {"running", "draining", "stopped"}
  /\ added \subseteq Records
  /\ acked \subseteq Records
  /\ dropped \subseteq Records
  /\ fails \in [Records -> 0..MaxAttempts]

Queued(t) == RecsOf(queue[t])

Flying == UNION {RecsOf(f.items) : f \in flights}

Held == (UNION {Queued(t) : t \in Tables}) \cup Flying

NoRepeat(items) == \A i, j \in DOMAIN items : i # j => items[i].rec # items[j].rec

(* Across overlapping flushes, splits and requeues a row handed to         *)
(* addToQueue is in exactly one place: once in one queue, once in one      *)
(* flight, acknowledged, or dropped.  A row in none is lost; a row in two  *)
(* is written again after ClickHouse acknowledged it.                      *)
HeldOnce ==
  /\ added = Held \cup acked \cup dropped
  /\ acked \cap dropped = {}
  /\ Held \cap (acked \cup dropped) = {}
  /\ \A t \in Tables : NoRepeat(queue[t]) /\ Queued(t) \cap Flying = {}
  /\ \A t, u \in Tables : t # u => Queued(t) \cap Queued(u) = {}
  /\ \A f \in flights : NoRepeat(f.items)
  /\ \A f, g \in flights : f # g => RecsOf(f.items) \cap RecsOf(g.items) = {}

Tallied(items) == \A i \in DOMAIN items : items[i].attempts = fails[items[i].rec] + 1

(* The attempts an item carries are the failed flushes its row took part   *)
(* in, and a row is dropped by its last attempt only, though splits and    *)
(* requeues mix rows of different attempts in one flush.                   *)
AttemptsAccounted ==
  /\ \A t \in Tables : Tallied(queue[t])
  /\ \A f \in flights : Tallied(f.items)
  /\ \A r \in Records : r \notin added => fails[r] = 0
  /\ \A r \in dropped : fails[r] = MaxAttempts

(* The rows the buffer still answers for: what AtLeastOnceBuffer holds. *)
Buffer == INSTANCE AtLeastOnceBuffer WITH held <- Held

BufferSpec == Buffer!Spec

(* While the worker runs, every row handed over is settled: a split, a     *)
(* requeue or a slow table postpones it only finitely often.               *)
Settles ==
  \A r \in Records :
    r \in Held ~> (r \in acked \cup dropped \/ phase # "running")

(* shutdown() returns: its flush cannot retry for ever. *)
ShutdownReturns == phase = "draining" ~> phase = "stopped"

(* shutdown.ts:79 says that shutting the writer down flushes all pending   *)
(* writes: when it has returned and no flush has failed, every row handed  *)
(* over is acknowledged.                                                   *)
ShutdownFlushesAll ==
  phase = "stopped" /\ (\A r \in Records : fails[r] = 0) => acked = added
=============================================================================
