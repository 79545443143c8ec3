--------------------------- MODULE WorkerJobsProofs ---------------------------
(***************************************************************************)
(* The worker's periodic jobs.  A runner has one chain of runs and timers, *)
(* in whatever order start, stop, timers and the ends of runs come.  No    *)
(* two DELETEs of a table run at once, whatever the workers, chunks,       *)
(* timeouts and faults, as long as the lock's time to live has more on top *)
(* of the DELETE's timeout than a renewal takes; and renewing now and then *)
(* keeps the lock, as long as queries are short enough.  The deletion of   *)
(* the traces that match a query skips no page and counts none twice,      *)
(* whoever fails, dies or loses the lock, and wherever.  At the end, all   *)
(* of this and the theorems about the other jobs, of the jobs together.    *)
(***************************************************************************)
EXTENDS MCWorkerJobs, TraceDeletionProofs, UsageMeteringProofs, PromptCacheProofs,
        FiniteSetTheorems, TLAPS

(* The inductive invariant of a runner.  activeRun tells whether there is  *)
(* a run, and timeoutId whether there is a timer: that is what makes it    *)
(* safe to start by looking at the first, and to stop by clearing the      *)
(* second.                                                                 *)
ChainInv ==
  /\ isRunning \in BOOLEAN
  /\ timeoutId \in {"null", "armed", "fired"}
  /\ runs \in Nat /\ timers \in Nat
  /\ (activeRun = TRUE /\ runs = 1) \/ (activeRun = FALSE /\ runs = 0)
  /\ (timeoutId = "armed" /\ timers = 1) \/ (timeoutId # "armed" /\ timers = 0)
  /\ isRunning = FALSE => timers = 0
  /\ OneChain

(* Every step keeps the invariant. *)
LEMMA ChainInvKept == ChainInv /\ [RunnerNext]_runnerVars => ChainInv'
<1> SUFFICES ASSUME ChainInv, [RunnerNext]_runnerVars PROVE ChainInv'
  OBVIOUS
<1> USE DEF ChainInv, OneChain
<1>1. CASE Start
  <2>1. CASE activeRun
    <3>1. /\ isRunning' = TRUE /\ runs' = runs /\ activeRun' = activeRun
          /\ timeoutId' = timeoutId /\ timers' = timers /\ ~isRunning
      BY <1>1, <2>1 DEF Start, MayRun
    <3> QED  BY <2>1, <3>1
  <2>2. CASE ~activeRun
    <3>1. /\ isRunning' = TRUE /\ runs' = runs + 1 /\ activeRun' = TRUE
          /\ timeoutId' = timeoutId /\ timers' = timers /\ ~isRunning
      BY <1>1, <2>2 DEF Start, MayRun
    <3>2. runs = 0 /\ timers = 0
      BY <2>2, <3>1
    <3> QED  BY <3>1, <3>2
  <2> QED  BY <2>1, <2>2
<1>2. CASE Stop
  <2>1. ~isRunning' /\ isRunning' \in BOOLEAN
    BY <1>2, Zenon DEF Stop
  <2> QED  BY <1>2, <2>1 DEF Stop
<1>3. CASE TimerFires
  BY <1>3 DEF TimerFires
<1>4. CASE RunEnds
  BY <1>4 DEF RunEnds
<1>5. CASE UNCHANGED runnerVars
  BY <1>5 DEF runnerVars
<1> QED  BY <1>1, <1>2, <1>3, <1>4, <1>5 DEF RunnerNext

(* It holds at first. *)
LEMMA ChainInvInit == RunnerInit => ChainInv
<1>1. RunnerInit => ~isRunning /\ isRunning \in BOOLEAN
  BY Zenon DEF RunnerInit
<1> QED  BY <1>1 DEF RunnerInit, ChainInv, OneChain

(* src/worker/src/utils/PeriodicRunner.ts: start() in the middle of a run  *)
(* that was stopped leaves the next run to that one, and stop() in the     *)
(* middle of a run has it arm no timer; so there are never two chains, and *)
(* a runner that is started is never left without one.                     *)
THEOREM RunnerHasOneChain == RunnerSpec => []OneChain
<1>1. ChainInv => OneChain
  BY DEF ChainInv
<1> QED  BY <1>1, ChainInvInit, ChainInvKept, PTL DEF RunnerSpec

(* Its counters stay within a run and a timer. *)
LEMMA TypesOfRunner == ChainInv => RunnerTypeOK
<1> SUFFICES ASSUME ChainInv PROVE RunnerTypeOK
  OBVIOUS
<1>1. runs \in {0, 1} /\ timers \in {0, 1} /\ MaxChains \in Nat
  BY RunnerAssumption DEF ChainInv
<1>2. {runs, timers} \subseteq 0..(MaxChains + 1)
  BY <1>1
<1>3. isRunning \in BOOLEAN /\ activeRun \in BOOLEAN /\ timeoutId \in {"null", "armed", "fired"}
  BY Zenon DEF ChainInv
<1> QED  BY <1>2, <1>3, Zenon DEF RunnerTypeOK

(* src/worker/src/utils/PeriodicRunner.ts: the flags and handles of a      *)
(* runner are what their types say, and no chain is one too many.          *)
THEOREM RunnerIsTyped == RunnerSpec => []RunnerTypeOK
<1> QED  BY ChainInvInit, ChainInvKept, TypesOfRunner, PTL DEF RunnerSpec

-----------------------------------------------------------------------------

LockValue == [owner : Workers \cup {NoOwner, Gone}, ttl : Nat]

Chunk ==
  [stage : {"queued", "discovered", "failed", "enriched", "done"} \cup Queries,
   left : Nat, found : BOOLEAN, waits : BOOLEAN]

Run ==
  [phase : {"idle", "searching", "renewing", "deleting", "releasing"},
   since : Nat,
   renewal : [state : {"none", "sent", "renewed", "refused"}, age : Nat],
   leaseLost : BOOLEAN, left : Nat, chunk : [Chunks -> Chunk]]

(* What run r of worker w has of the lock l: until its DELETE is over, in  *)
(* ClickHouse too, the lock outlasts it; and once the renewal before it is granted, all of the *)
(* time to live but the answer's way.                                      *)
Lease(w, r, l) ==
  /\ r.phase = "deleting" => l.owner = w /\ l.ttl > r.left + Grace
  /\ r.phase = "renewing" /\ r.renewal.state = "renewed" =>
       l.owner = w /\ l.ttl + r.renewal.age >= TTL[RetentionKey]
  /\ r.phase \in {"idle", "deleting", "releasing"} => r.renewal.state = "none"
  /\ r.phase # "deleting" => r.left = 0
  /\ r.renewal.age <= Latency

(* A DELETE without its worker ends before the lock that worker held. *)
Outlasted(n, l) == n > 0 => l.owner = Gone /\ l.ttl > n

RetentionTypes ==
  /\ lock \in [Keys -> LockValue]
  /\ sweep \in [Workers -> Run]
  /\ strayDelete \in [Workers -> Nat]

(* The inductive invariant of the cleaner. *)
LeaseInv ==
  /\ RetentionTypes
  /\ \A w \in Workers : Lease(w, sweep[w], lock[RetentionKey])
  /\ \A w \in Workers : Outlasted(strayDelete[w], lock[RetentionKey])
  /\ \A v, w \in Workers : strayDelete[v] > 0 /\ strayDelete[w] > 0 => v = w

-----------------------------------------------------------------------------

(* The larger of two numbers. *)
LEMMA MaxOfTwo ==
  ASSUME NEW a \in Int, NEW b \in Int
  PROVE  Max({a, b}) = IF a >= b THEN a ELSE b
<1> DEFINE m == IF a >= b THEN a ELSE b
<1>1. m \in {a, b} /\ (\A y \in {a, b} : m >= y)
  OBVIOUS
<1>2. \A x \in {a, b} : (\A y \in {a, b} : x >= y) => x = m
  OBVIOUS
<1> QED  BY <1>1, <1>2 DEF Max

(* The time to live leaves room for the DELETE, for what ClickHouse gives  *)
(* it on top, and for a renewal's answer.                                  *)
LEMMA TimeToLive ==
  /\ RetentionKey \in Keys /\ TTL[RetentionKey] \in Nat
  /\ {QueryTime, DeleteTime, Latency, Grace} \subseteq Nat \ {0}
  /\ TTL[RetentionKey] > DeleteTime + Latency + Grace
  /\ NoOwner \notin Workers /\ Gone \notin Workers /\ NoOwner # Gone
<1>1. /\ {QueryTime, DeleteTime, Buffer, Latency, Grace} \subseteq Nat \ {0} /\ Latency + Grace < Buffer
      /\ RetentionKey \in Keys /\ TTL[RetentionKey] = Max({DeleteTime, QueryTime}) + Buffer
  BY RetentionAssumption
<1>2. Max({DeleteTime, QueryTime}) = IF DeleteTime >= QueryTime THEN DeleteTime ELSE QueryTime
  BY <1>1, MaxOfTwo
<1> QED  BY <1>1, <1>2, LockAssumption

(* The interval of the throttle is a number of ticks. *)
LEMMA IntervalNat == MinInterval \in Nat
  BY TimeToLive DEF MinInterval

(* Who rests or releases asks nothing of the lock. *)
LEMMA IdleOK ==
  /\ Idle \in Run /\ Releasing \in Run
  /\ \A w, l : Lease(w, Idle, l) /\ Lease(w, Releasing, l)
<1>1. Idle \in Run /\ Idle.phase = "idle" /\ Idle.left = 0 /\ Idle.renewal = [state |-> "none", age |-> 0]
  BY DEF Idle, Run, Chunk, NoRenewal
<1>2. /\ Releasing \in Run /\ Releasing.phase = "releasing" /\ Releasing.left = 0
      /\ Releasing.renewal = [state |-> "none", age |-> 0]
  BY <1>1 DEF Releasing, Run
<1> QED  BY <1>1, <1>2, TimeToLive DEF Lease

-----------------------------------------------------------------------------

(* One run becomes x; the lock changes only if it is that worker's or free. *)
LEMMA OneRunMoves ==
  ASSUME LeaseInv, NEW w \in Workers, NEW x \in Run,
         sweep' = [sweep EXCEPT ![w] = x], strayDelete' = strayDelete,
         lock' \in [Keys -> LockValue],
         lock'[RetentionKey] = lock[RetentionKey] \/ lock[RetentionKey].owner \in {w, NoOwner},
         Lease(w, x, lock'[RetentionKey])
  PROVE  LeaseInv'
<1>1. /\ sweep' \in [Workers -> Run] /\ sweep'[w] = x
      /\ \A v \in Workers : v # w => sweep'[v] = sweep[v]
  BY DEF LeaseInv, RetentionTypes
<1>2. RetentionTypes'
  BY <1>1 DEF LeaseInv, RetentionTypes
<1>3. ASSUME NEW v \in Workers PROVE Lease(v, sweep'[v], lock'[RetentionKey])
  <2>1. CASE v = w
    BY <1>1, <2>1
  <2>2. CASE v # w
    <3>1. Lease(v, sweep[v], lock[RetentionKey]) /\ sweep'[v] = sweep[v]
      BY <1>1, <2>2 DEF LeaseInv
    <3>2. CASE lock'[RetentionKey] = lock[RetentionKey]
      BY <3>1, <3>2
    <3>3. CASE lock[RetentionKey].owner \in {w, NoOwner}
      <4>1. lock[RetentionKey].owner # v
        BY <2>2, <3>3, TimeToLive
      <4> QED  BY <3>1, <4>1 DEF Lease
    <3> QED  BY <3>2, <3>3
  <2> QED  BY <2>1, <2>2
<1>4. ASSUME NEW v \in Workers PROVE Outlasted(strayDelete'[v], lock'[RetentionKey])
  BY TimeToLive DEF LeaseInv, Outlasted
<1>5. \A u, v \in Workers : strayDelete'[u] > 0 /\ strayDelete'[v] > 0 => u = v
  BY DEF LeaseInv
<1> QED  BY <1>2, <1>3, <1>4, <1>5 DEF LeaseInv

(* A run moves while the lock stays. *)
LEMMA OneRunMovesAlone ==
  ASSUME LeaseInv, NEW w \in Workers, NEW x \in Run, Becomes(w, x),
         UNCHANGED <<lock, strayDelete>>, Lease(w, x, lock[RetentionKey])
  PROVE  LeaseInv'
<1>1. sweep' = [sweep EXCEPT ![w] = x]
  BY DEF Becomes
<1>2. lock' \in [Keys -> LockValue] /\ lock'[RetentionKey] = lock[RetentionKey]
  BY DEF LeaseInv, RetentionTypes
<1> QED  BY <1>1, <1>2, OneRunMoves

(* What a chunk does leaves the run searching, with the same lease. *)
LEMMA ChunkGoesOn ==
  ASSUME NEW chunk \in Chunk, NEW lost \in BOOLEAN
  PROVE  Continued(chunk, lost) \in Chunk
<1>1. QueryTime \in Nat
  BY TimeToLive
<1>2. /\ [chunk EXCEPT !.stage = "enriching", !.left = QueryTime] \in Chunk
      /\ [chunk EXCEPT !.stage = "retrying", !.left = QueryTime] \in Chunk
      /\ [chunk EXCEPT !.stage = "done", !.left = 0] \in Chunk
  BY <1>1 DEF Chunk, Queries
<1> QED  BY <1>2 DEF Continued

(* A search that goes on asks no more of the lock than before. *)
LEMMA SearchKeepsLease ==
  ASSUME NEW w, NEW l, NEW r \in Run, NEW x \in Run, r.phase = "searching", Lease(w, r, l),
         x.phase = "searching", x.left = r.left, x.renewal.age = r.renewal.age
  PROVE  Lease(w, x, l)
  BY DEF Lease

(* A chunk's step leaves the run's phase, DELETE and renewal's age. *)
LEMMA RunProgresses ==
  ASSUME NEW r \in Run, NEW c \in Chunks, NEW stage \in {"discovered", "failed", "enriched"} \cup Queries,
         NEW found \in BOOLEAN, NEW force \in BOOLEAN
  PROVE  LET x == Progressed(r, c, stage, found, force)
         IN  /\ x \in Run /\ x.phase = r.phase /\ x.left = r.left
             /\ x.renewal.age = r.renewal.age
<1> DEFINE chunk == [r.chunk[c] EXCEPT !.stage = stage, !.found = found]
           renewal == IF r.renewal.state = "none" THEN [r.renewal EXCEPT !.state = "sent"] ELSE r.renewal
           a == [r EXCEPT !.chunk = [r.chunk EXCEPT ![c] = Continued(chunk, r.leaseLost)]]
           b == [r EXCEPT !.chunk = [r.chunk EXCEPT ![c] = [chunk EXCEPT !.waits = TRUE]],
                          !.renewal = renewal]
<1>1. chunk \in Chunk /\ [chunk EXCEPT !.waits = TRUE] \in Chunk
  BY DEF Run, Chunk
<1>2. Continued(chunk, r.leaseLost) \in Chunk
  BY <1>1, ChunkGoesOn DEF Run
<1>3. renewal \in [state : {"none", "sent", "renewed", "refused"}, age : Nat] /\ renewal.age = r.renewal.age
  BY DEF Run
<1>4. Progressed(r, c, stage, found, force) \in {a, b}
  BY DEF Progressed
<1> HIDE DEF chunk, renewal
<1>5. /\ [r.chunk EXCEPT ![c] = Continued(chunk, r.leaseLost)] \in [Chunks -> Chunk]
      /\ [r.chunk EXCEPT ![c] = [chunk EXCEPT !.waits = TRUE]] \in [Chunks -> Chunk]
  BY <1>1, <1>2 DEF Run
<1>6. a \in Run /\ a.phase = r.phase /\ a.left = r.left /\ a.renewal = r.renewal
  BY <1>5 DEF Run
<1>7. b \in Run /\ b.phase = r.phase /\ b.left = r.left /\ b.renewal = renewal
  BY <1>3, <1>5 DEF Run
<1> QED  BY <1>3, <1>4, <1>6, <1>7

(* A run that begins asks nothing of the lock. *)
LEMMA FreshOK ==
  ASSUME NEW chunks, NEW w, NEW l
  PROVE  Fresh(chunks) \in Run /\ Lease(w, Fresh(chunks), l)
<1> DEFINE f == [c \in Chunks |-> IF c \in chunks THEN [Idle.chunk[c] EXCEPT !.stage = "queued"] ELSE Idle.chunk[c]]
<1>1. Idle.chunk \in [Chunks -> Chunk] /\ f \in [Chunks -> Chunk]
  BY IdleOK DEF Run, Chunk
<1> HIDE DEF f
<1>2. Fresh(chunks) = [Idle EXCEPT !.phase = "searching", !.since = MinInterval, !.chunk = f]
  BY DEF Fresh, f
<1>3. /\ Fresh(chunks) \in Run /\ Fresh(chunks).phase = "searching"
      /\ Fresh(chunks).left = Idle.left /\ Fresh(chunks).renewal = Idle.renewal
  BY <1>1, <1>2, IdleOK, IntervalNat DEF Run
<1>4. Idle.left = 0 /\ Idle.renewal.age = 0
  BY DEF Idle, NoRenewal
<1> QED  BY <1>3, <1>4, TimeToLive DEF Lease

(* The commands of the lock change it if it is free or its caller's. *)
LEMMA LockCommands ==
  ASSUME LeaseInv, NEW w \in Workers
  PROVE  LET key == RetentionKey
         IN  /\ Acquired(w, key) \in [Keys -> LockValue]
             /\ Acquired(w, key)[key].owner = w /\ Acquired(w, key)[key].ttl = TTL[key]
             /\ Extended(w, key) = IF lock[key].owner = w THEN Acquired(w, key) ELSE lock
             /\ Released(w, key) \in [Keys -> LockValue]
             /\ lock[key].owner # w => Released(w, key) = lock
             /\ Orphaned(w, key) \in [Keys -> LockValue]
             /\ IF lock[key].owner = w
                THEN Orphaned(w, key)[key] = [owner |-> Gone, ttl |-> lock[key].ttl]
                ELSE Orphaned(w, key) = lock
<1>1. /\ lock \in [Keys -> LockValue] /\ RetentionKey \in Keys /\ TTL[RetentionKey] \in Nat
      /\ lock[RetentionKey] \in LockValue
  BY TimeToLive DEF LeaseInv, RetentionTypes
<1>2. Unlocked \in LockValue /\ [owner |-> w, ttl |-> TTL[RetentionKey]] \in LockValue
  BY <1>1 DEF Unlocked, LockValue
<1>3. [lock[RetentionKey] EXCEPT !.owner = Gone] = [owner |-> Gone, ttl |-> lock[RetentionKey].ttl]
  BY <1>1 DEF LockValue
<1>4. [owner |-> Gone, ttl |-> lock[RetentionKey].ttl] \in LockValue
  BY <1>1 DEF LockValue
<1>5. Orphaned(w, RetentionKey) =
        IF lock[RetentionKey].owner = w
        THEN [lock EXCEPT ![RetentionKey] = [lock[RetentionKey] EXCEPT !.owner = Gone]] ELSE lock
  BY DEF Orphaned, Owns
<1>6. /\ Acquired(w, RetentionKey) \in [Keys -> LockValue]
      /\ Acquired(w, RetentionKey)[RetentionKey] = [owner |-> w, ttl |-> TTL[RetentionKey]]
  BY <1>1, <1>2 DEF Acquired
<1>7. /\ Released(w, RetentionKey) \in [Keys -> LockValue]
      /\ lock[RetentionKey].owner # w => Released(w, RetentionKey) = lock
  BY <1>1, <1>2 DEF Released, Owns
<1>8. Extended(w, RetentionKey) = IF lock[RetentionKey].owner = w THEN Acquired(w, RetentionKey) ELSE lock
  BY DEF Extended, Owns
<1> QED  BY <1>1, <1>3, <1>4, <1>5, <1>6, <1>7, <1>8

-----------------------------------------------------------------------------

(* The steps of a worker. *)
LEMMA WorkersKeepLease ==
  ASSUME LeaseInv, NEW w \in Workers, Begin(w) \/ RunSteps(w) \/ RetentionFaultSteps(w)
  PROVE  LeaseInv'
<1> DEFINE key == RetentionKey
           r == sweep[w]
<1>0. /\ lock \in [Keys -> LockValue] /\ lock[key] \in LockValue /\ r \in Run /\ Lease(w, r, lock[key])
      /\ sweep \in [Workers -> Run]
  BY TimeToLive DEF LeaseInv, RetentionTypes
<1>1. CASE Begin(w)
  <2>1. PICK chunks : Becomes(w, Fresh(chunks))
    BY <1>1 DEF Begin
  <2>2. lock' = Acquired(w, key) /\ lock[key].owner = NoOwner /\ strayDelete' = strayDelete
    BY <1>1 DEF Begin, IsFree
  <2> QED  BY <2>1, <2>2, FreshOK, LockCommands, OneRunMoves DEF Becomes
<1>2. CASE BeginErrs(w)
  <2>1. /\ r.phase = "idle" /\ sweep' = sweep /\ strayDelete' = strayDelete
        /\ lock' = lock \/ (lock' = Acquired(w, key) /\ lock[key].owner = NoOwner)
    BY <1>2 DEF BeginErrs, IsFree
  <2>2. sweep' = [sweep EXCEPT ![w] = r]
    BY <1>0, <2>1
  <2>3. Lease(w, r, lock'[key])
    BY <1>0, <2>1 DEF Lease
  <2> QED  BY <1>0, <2>1, <2>2, <2>3, LockCommands, OneRunMoves
<1>3. ASSUME NEW c \in Chunks, ChunkSteps(w, c) PROVE LeaseInv'
  <2>1. r.phase = "searching" /\ UNCHANGED <<lock, strayDelete>>
    BY <1>3 DEF ChunkSteps, StartQuery, RowArrives, CandidatesEnd, EnrichmentEnds, EnrichmentFails, At
  <2>2. CASE StartQuery(w, c)
    <3> DEFINE chunk == IF r.leaseLost THEN [r.chunk[c] EXCEPT !.stage = "done"]
                        ELSE [r.chunk[c] EXCEPT !.stage = "candidates", !.left = QueryTime]
               x == [r EXCEPT !.chunk = [r.chunk EXCEPT ![c] = chunk]]
    <3>1. Becomes(w, x)
      BY <2>2 DEF StartQuery
    <3>2. chunk \in Chunk
      <4>1. r.chunk[c] \in Chunk /\ QueryTime \in Nat
        BY <1>0, TimeToLive DEF Run
      <4>2. [r.chunk[c] EXCEPT !.stage = "done"] \in Chunk
        BY <4>1 DEF Chunk
      <4>3. [r.chunk[c] EXCEPT !.stage = "candidates", !.left = QueryTime] \in Chunk
        BY <4>1 DEF Chunk, Queries
      <4> QED  BY <4>2, <4>3
    <3> HIDE DEF chunk
    <3>3. [r.chunk EXCEPT ![c] = chunk] \in [Chunks -> Chunk]
      BY <1>0, <3>2 DEF Run
    <3>4. x \in Run /\ x.phase = r.phase /\ x.left = r.left /\ x.renewal = r.renewal
      BY <1>0, <3>3 DEF Run
    <3> HIDE DEF x
    <3>5. Lease(w, x, lock[key])
      BY <1>0, <2>1, <3>4, SearchKeepsLease
    <3> QED  BY <2>1, <3>1, <3>4, <3>5, OneRunMovesAlone
  <2>3. CASE ~StartQuery(w, c)
    <3>1. PICK stage \in {"discovered", "failed", "enriched"} \cup Queries, found \in BOOLEAN, force \in BOOLEAN :
            Becomes(w, Progressed(r, c, stage, found, force))
      <4>1. r.chunk[c].found \in BOOLEAN /\ "candidates" \in Queries
        BY <1>0 DEF Run, Chunk, Queries
      <4> QED  BY <1>3, <2>3, <4>1 DEF ChunkSteps, RowArrives, CandidatesEnd, EnrichmentEnds, EnrichmentFails
    <3> DEFINE x == Progressed(r, c, stage, found, force)
    <3>2. x \in Run /\ x.phase = r.phase /\ x.left = r.left /\ x.renewal.age = r.renewal.age
      BY <1>0, RunProgresses
    <3>3. Becomes(w, x)
      BY <3>1
    <3> HIDE DEF x
    <3>4. Lease(w, x, lock[key])
      BY <1>0, <2>1, <3>2, SearchKeepsLease
    <3> QED  BY <2>1, <3>2, <3>3, <3>4, OneRunMovesAlone
  <2> QED  BY <2>2, <2>3
<1>4. CASE RedisEvaluates(w)
  <2> DEFINE s == IF Owns(w, key) THEN "renewed" ELSE "refused"
             x == [r EXCEPT !.renewal = [r.renewal EXCEPT !.state = s]]
  <2>1. /\ r.renewal.state = "sent" /\ lock' = Extended(w, key) /\ strayDelete' = strayDelete
        /\ sweep' = [sweep EXCEPT ![w] = x]
    BY <1>4 DEF RedisEvaluates, Becomes
  <2>2. s \in {"renewed", "refused"} /\ (s = "renewed" => lock[key].owner = w)
    BY DEF Owns
  <2> HIDE DEF s
  <2>3. [r.renewal EXCEPT !.state = s] \in [state : {"none", "sent", "renewed", "refused"}, age : Nat]
    BY <1>0, <2>2 DEF Run
  <2>4. /\ x \in Run /\ x.phase = r.phase /\ x.left = r.left
        /\ x.renewal.state = s /\ x.renewal.age = r.renewal.age
    BY <1>0, <2>3 DEF Run
  <2> HIDE DEF x
  <2>5. r.phase \in {"searching", "renewing"} /\ r.left = 0 /\ r.renewal.age \in Nat
    BY <1>0, <2>1 DEF Lease, Run
  <2>6. CASE lock[key].owner = w
    <3>1. /\ lock' \in [Keys -> LockValue] /\ lock'[key].owner = w /\ lock'[key].ttl = TTL[key]
      BY <2>1, <2>6, LockCommands
    <3>2. Lease(w, x, lock'[key])
      BY <1>0, <2>4, <2>5, <3>1, TimeToLive DEF Lease
    <3> QED  BY <2>1, <2>4, <2>6, <3>1, <3>2, OneRunMoves
  <2>7. CASE lock[key].owner # w
    <3>1. lock' = lock
      BY <2>1, <2>7, LockCommands
    <3>2. Lease(w, x, lock'[key])
      BY <1>0, <2>2, <2>4, <2>5, <2>7 DEF Lease
    <3> QED  BY <1>0, <2>1, <2>4, <3>1, <3>2, OneRunMoves
  <2> QED  BY <2>6, <2>7
<1>5. CASE RenewalErrs(w)
  <2> DEFINE x == [r EXCEPT !.renewal = [r.renewal EXCEPT !.state = "refused"]]
  <2>1. /\ r.renewal.state = "sent" /\ lock' \in {lock, Extended(w, key)} /\ strayDelete' = strayDelete
        /\ sweep' = [sweep EXCEPT ![w] = x]
    BY <1>5 DEF RenewalErrs, Becomes
  <2>2. [r.renewal EXCEPT !.state = "refused"] \in [state : {"none", "sent", "renewed", "refused"}, age : Nat]
    BY <1>0 DEF Run
  <2>3. /\ x \in Run /\ x.phase = r.phase /\ x.left = r.left
        /\ x.renewal.state = "refused" /\ x.renewal.age = r.renewal.age
    BY <1>0, <2>2 DEF Run
  <2> HIDE DEF x
  <2>4. Lease(w, x, lock'[key])
    BY <1>0, <2>1, <2>3 DEF Lease
  <2>5. lock' \in [Keys -> LockValue] /\ (lock' = lock \/ lock[key].owner = w)
    BY <1>0, <2>1, LockCommands
  <2> QED  BY <2>1, <2>3, <2>4, <2>5, OneRunMoves
<1>6. CASE RenewalAnswered(w)
  <2> DEFINE Answered(lost) ==
               [r EXCEPT !.renewal = NoRenewal, !.leaseLost = @ \/ lost,
                         !.chunk = [c \in Chunks |->
                           CASE ~@[c].waits -> @[c]
                             [] @[c].waits /\ lost -> Idle.chunk[c]
                             [] OTHER -> [Continued(@[c], r.leaseLost) EXCEPT !.waits = FALSE]]]
             deleting == [Idle EXCEPT !.phase = "deleting", !.left = DeleteTime]
             renewed == [Answered(FALSE) EXCEPT !.since = 0]
  <2>1. UNCHANGED <<lock, strayDelete>>
    BY <1>6 DEF RenewalAnswered
  <2>2. \/ r.phase = "renewing" /\ r.renewal.state = "renewed" /\ Becomes(w, deleting)
        \/ r.phase # "renewing" /\ r.renewal.state \in {"renewed", "refused"} /\ Becomes(w, renewed)
        \/ r.phase # "renewing" /\ r.renewal.state \in {"renewed", "refused"} /\ Becomes(w, Answered(TRUE))
        \/ Becomes(w, Releasing)
    BY <1>6, Zenon DEF RenewalAnswered
  <2>3. CASE r.phase = "renewing" /\ r.renewal.state = "renewed" /\ Becomes(w, deleting)
    <3>1. /\ deleting \in Run /\ deleting.phase = "deleting" /\ deleting.left = DeleteTime
          /\ deleting.renewal.state = "none" /\ deleting.renewal.age = 0
      BY IdleOK, TimeToLive DEF Run, Idle, NoRenewal
    <3> HIDE DEF deleting
    <3>2. lock[key].owner = w /\ lock[key].ttl > DeleteTime + Grace
      BY <1>0, <2>3, TimeToLive DEF Lease, LockValue, Run
    <3>3. Lease(w, deleting, lock[key])
      BY <3>1, <3>2, TimeToLive DEF Lease
    <3> QED  BY <2>1, <2>3, <3>1, <3>3, OneRunMovesAlone
  <2>4. ASSUME NEW lost \in BOOLEAN, NEW x, x = Answered(lost) \/ x = [Answered(lost) EXCEPT !.since = 0],
               r.phase # "renewing", r.renewal.state \in {"renewed", "refused"}, Becomes(w, x)
        PROVE  LeaseInv'
    <3>1. r.phase = "searching"
      BY <1>0, <2>4 DEF Lease, Run
    <3> DEFINE f == [c \in Chunks |->
                      CASE ~r.chunk[c].waits -> r.chunk[c]
                        [] r.chunk[c].waits /\ lost -> Idle.chunk[c]
                        [] OTHER -> [Continued(r.chunk[c], r.leaseLost) EXCEPT !.waits = FALSE]]
               a == [r EXCEPT !.renewal = NoRenewal, !.leaseLost = r.leaseLost \/ lost, !.chunk = f]
    <3>2. ASSUME NEW c \in Chunks PROVE f[c] \in Chunk
      <4>1. r.chunk[c] \in Chunk /\ Idle.chunk[c] \in Chunk /\ r.leaseLost \in BOOLEAN
        BY <1>0, IdleOK DEF Run
      <4>2. [Continued(r.chunk[c], r.leaseLost) EXCEPT !.waits = FALSE] \in Chunk
        BY <4>1, ChunkGoesOn DEF Chunk
      <4> QED  BY <4>1, <4>2
    <3>3. Answered(lost) = a
      OBVIOUS
    <3>4. f \in [Chunks -> Chunk]
      BY <3>2
    <3> HIDE DEF f
    <3>5. a \in Run /\ a.phase = r.phase /\ a.left = r.left /\ a.renewal = NoRenewal
      BY <1>0, <3>4 DEF Run, NoRenewal
    <3> HIDE DEF a, Answered
    <3>6. x \in Run /\ x.phase = r.phase /\ x.left = r.left /\ x.renewal = NoRenewal
      BY <2>4, <3>3, <3>5 DEF Run
    <3>7. Lease(w, x, lock[key])
      BY <1>0, <3>1, <3>6, TimeToLive DEF Lease, NoRenewal
    <3> QED  BY <2>1, <2>4, <3>6, <3>7, OneRunMovesAlone
  <2>5. CASE Becomes(w, Releasing)
    BY <2>1, <2>5, IdleOK, OneRunMovesAlone
  <2> HIDE DEF Answered, deleting
  <2> QED  BY <2>2, <2>3, <2>4, <2>5
<1>7. CASE SearchEnds(w)
  <2> DEFINE x == [Idle EXCEPT !.phase = "renewing", !.renewal = [NoRenewal EXCEPT !.state = "sent"]]
  <2>1. (Becomes(w, Releasing) \/ Becomes(w, x)) /\ UNCHANGED <<lock, strayDelete>>
    BY <1>7 DEF SearchEnds, Idle
  <2>2. /\ x \in Run /\ x.phase = "renewing" /\ x.left = 0
        /\ x.renewal.state = "sent" /\ x.renewal.age = 0
    BY IdleOK DEF Run, Idle, NoRenewal
  <2> HIDE DEF x
  <2>3. Lease(w, x, lock[key])
    BY <2>2, TimeToLive DEF Lease
  <2> QED  BY <2>1, <2>2, <2>3, IdleOK, OneRunMovesAlone
<1>8. CASE DeleteEnds(w)
  BY <1>8, IdleOK, OneRunMovesAlone DEF DeleteEnds
<1>9. CASE Release(w) \/ ReleaseErrs(w)
  <2>1. /\ lock' \in {lock, Released(w, key)} /\ sweep' = [sweep EXCEPT ![w] = Idle]
        /\ strayDelete' = strayDelete
    BY <1>9 DEF Release, ReleaseErrs, Becomes
  <2>2. lock' \in [Keys -> LockValue] /\ (lock' = lock \/ lock[key].owner = w)
    BY <1>0, <2>1, LockCommands
  <2> QED  BY <2>1, <2>2, IdleOK, OneRunMoves
<1>10. CASE Stalls(w)
  <2> DEFINE f == [c \in Chunks |-> [r.chunk[c] EXCEPT !.left = 0]]
             x == [r EXCEPT !.since = MinInterval, !.chunk = f]
  <2>1. /\ r.phase = "searching" /\ lock[key].owner = w
        /\ lock' = [lock EXCEPT ![key] = Unlocked] /\ strayDelete' = strayDelete
        /\ sweep' = [sweep EXCEPT ![w] = x]
    BY <1>10 DEF Stalls, Becomes, Owns
  <2>2. f \in [Chunks -> Chunk]
    <3>1. ASSUME NEW c \in Chunks PROVE [r.chunk[c] EXCEPT !.left = 0] \in Chunk
      <4>1. r.chunk[c] \in Chunk
        BY <1>0 DEF Run
      <4> QED  BY <4>1 DEF Chunk
    <3> QED  BY <3>1
  <2> HIDE DEF f
  <2>3. x \in Run /\ x.phase = r.phase /\ x.left = r.left /\ x.renewal = r.renewal
    BY <1>0, <2>2, IntervalNat DEF Run
  <2> HIDE DEF x
  <2>4. lock' \in [Keys -> LockValue]
    BY <1>0, <2>1 DEF Unlocked, LockValue
  <2>5. Lease(w, x, lock'[key])
    BY <1>0, <2>1, <2>3 DEF Lease
  <2> QED  BY <2>1, <2>3, <2>4, <2>5, OneRunMoves
<1>11. CASE Dies(w)
  <2> DEFINE left == Remaining(w)
  <2>0. left \in Nat /\ (left > 0 => lock[key].owner = w /\ lock[key].ttl > left)
    BY <1>0, TimeToLive DEF Remaining, Lease, Run
  <2> HIDE DEF left
  <2>1. /\ lock' = Orphaned(w, key)
        /\ strayDelete' = [strayDelete EXCEPT ![w] = Max({strayDelete[w], left})]
        /\ sweep' = [sweep EXCEPT ![w] = Idle]
    BY <1>11 DEF Dies, Becomes, left
  <2>2. /\ strayDelete[w] \in Nat /\ left \in Nat
        /\ \A v \in Workers : strayDelete[v] \in Nat
    BY <1>0, <2>0 DEF LeaseInv, RetentionTypes
  <2>3. Max({strayDelete[w], left}) = IF strayDelete[w] >= left THEN strayDelete[w] ELSE left
    BY <2>2, MaxOfTwo
  <2>4. /\ sweep' \in [Workers -> Run] /\ sweep'[w] = Idle
        /\ \A v \in Workers : v # w => sweep'[v] = sweep[v]
    BY <1>0, <2>1, IdleOK
  <2>5. /\ strayDelete' \in [Workers -> Nat]
        /\ strayDelete'[w] = IF strayDelete[w] >= left THEN strayDelete[w] ELSE left
        /\ \A v \in Workers : v # w => strayDelete'[v] = strayDelete[v]
    BY <2>1, <2>2, <2>3 DEF LeaseInv, RetentionTypes
  <2>6. CASE lock[key].owner = w
    <3>1. /\ lock' \in [Keys -> LockValue]
          /\ lock'[key].owner = Gone /\ lock'[key].ttl = lock[key].ttl
      BY <2>1, <2>6, LockCommands
    <3>2. \A v \in Workers : strayDelete[v] = 0
      <4>1. ASSUME NEW v \in Workers PROVE strayDelete[v] = 0
        <5>1. Outlasted(strayDelete[v], lock[key]) /\ lock[key].owner # Gone
          BY <2>6, TimeToLive DEF LeaseInv
        <5> QED  BY <2>2, <5>1 DEF Outlasted
      <4> QED  BY <4>1
    <3>3. strayDelete'[w] = left /\ \A v \in Workers : v # w => strayDelete'[v] = 0
      BY <2>2, <2>5, <3>2
    <3>4. left > 0 => lock[key].ttl > left
      BY <2>0
    <3>5. ASSUME NEW v \in Workers PROVE Outlasted(strayDelete'[v], lock'[key])
      BY <3>1, <3>3, <3>4 DEF Outlasted
    <3>6. ASSUME NEW v \in Workers PROVE Lease(v, sweep'[v], lock'[key])
      <4>1. CASE v = w
        BY <2>4, <4>1, IdleOK
      <4>2. CASE v # w
        <5>1. Lease(v, sweep[v], lock[key]) /\ sweep'[v] = sweep[v] /\ lock[key].owner # v
          BY <2>4, <2>6, <4>2 DEF LeaseInv
        <5> QED  BY <5>1 DEF Lease
      <4> QED  BY <4>1, <4>2
    <3> QED  BY <2>4, <2>5, <3>1, <3>3, <3>5, <3>6 DEF LeaseInv, RetentionTypes
  <2>7. CASE lock[key].owner # w
    <3>1. lock' = lock
      BY <2>1, <2>7, LockCommands
    <3>2. left = 0
      BY <2>0, <2>7
    <3>3. strayDelete' = strayDelete
      BY <2>1, <2>2, <2>3, <3>2 DEF LeaseInv, RetentionTypes
    <3> QED  BY <1>0, <2>1, <3>1, <3>3, IdleOK, OneRunMoves
  <2> QED  BY <2>6, <2>7
<1>12. CASE DeleteBreaksOff(w)
  BY <1>12, IdleOK, OneRunMovesAlone DEF DeleteBreaksOff
<1> QED
  BY <1>1, <1>2, <1>3, <1>4, <1>5, <1>6, <1>7, <1>8, <1>9, <1>10, <1>11, <1>12
  DEF RunSteps, RetentionFaultSteps

(* Time passes for the lock as for the DELETEs and answers it has to       *)
(* outlast.                                                                *)
LEMMA TickKeepsLease == LeaseInv /\ Tick => LeaseInv'
<1> SUFFICES ASSUME LeaseInv, Tick PROVE LeaseInv'
  OBVIOUS
<1> DEFINE key == RetentionKey
           l == lock[key]
           Later(n) == IF n = 0 THEN 0 ELSE n - 1
           age(w) == IF sweep[w].renewal.state = "none" THEN 0 ELSE sweep[w].renewal.age + 1
           since(w) == IF sweep[w].since < MinInterval THEN sweep[w].since + 1 ELSE sweep[w].since
           renewal(w) == [sweep[w].renewal EXCEPT !.age = age(w)]
           chunk(w) == [c \in Chunks |-> [sweep[w].chunk[c] EXCEPT !.left = Later(sweep[w].chunk[c].left)]]
           next(w) == [sweep[w] EXCEPT !.left = Later(@), !.since = since(w),
                                       !.renewal.age = age(w), !.chunk = chunk(w)]
<1>1. /\ lock \in [Keys -> LockValue] /\ l \in LockValue /\ key \in Keys
      /\ \A w \in Workers : sweep[w] \in Run /\ strayDelete[w] \in Nat
      /\ \A w \in Workers : Lease(w, sweep[w], l) /\ Outlasted(strayDelete[w], l)
  BY TimeToLive DEF LeaseInv, RetentionTypes
<1>2. /\ \A w \in Workers : /\ sweep[w].phase = "deleting" => sweep[w].left > 0
                            /\ sweep[w].renewal.age < Latency
      /\ strayDelete' = [w \in Workers |-> Later(strayDelete[w])]
      /\ lock' = Elapsed(key)
      /\ sweep' = [w \in Workers |-> next(w)]
  <2>1. \A w \in Workers : /\ sweep[w].phase = "deleting" => sweep[w].left > 0
                          /\ sweep[w].renewal.age < Latency
    BY DEF Tick
  <2>2. lock' = Elapsed(key)
    BY Zenon DEF Tick
  <2>3. strayDelete' = [w \in Workers |-> Later(strayDelete[w])]
    BY Zenon DEF Tick
  <2>4. sweep' = [w \in Workers |-> next(w)]
    BY DEF Tick
  <2> QED  BY <2>1, <2>2, <2>3, <2>4
<1>3. /\ lock' \in [Keys -> LockValue]
      /\ lock'[key] = IF l.ttl <= 1 THEN Unlocked ELSE [owner |-> l.owner, ttl |-> l.ttl - 1]
  <2>1. lock' = [lock EXCEPT ![key] = IF l.ttl <= 1 THEN Unlocked ELSE [owner |-> l.owner, ttl |-> l.ttl - 1]]
    BY <1>2 DEF Elapsed
  <2>2. (IF l.ttl <= 1 THEN Unlocked ELSE [owner |-> l.owner, ttl |-> l.ttl - 1]) \in LockValue
    BY <1>1 DEF LockValue, Unlocked
  <2> QED  BY <1>1, <2>1, <2>2
<1>4. l.ttl > 1 => lock'[key].owner = l.owner /\ lock'[key].ttl = l.ttl - 1
  BY <1>1, <1>3 DEF LockValue
<1>5. ASSUME NEW w \in Workers
      PROVE  /\ next(w) \in Run
             /\ next(w).phase = sweep[w].phase /\ next(w).left = Later(sweep[w].left)
             /\ next(w).renewal.state = sweep[w].renewal.state /\ next(w).renewal.age = age(w)
  <2>1. age(w) \in Nat /\ since(w) \in Nat /\ Later(sweep[w].left) \in Nat
    BY <1>1 DEF Run
  <2>2. ASSUME NEW c \in Chunks
        PROVE  [sweep[w].chunk[c] EXCEPT !.left = Later(sweep[w].chunk[c].left)] \in Chunk
    <3>1. sweep[w].chunk[c] \in Chunk
      BY <1>1 DEF Run
    <3>2. Later(sweep[w].chunk[c].left) \in Nat
      BY <3>1 DEF Chunk
    <3> HIDE DEF Later
    <3> QED  BY <3>1, <3>2 DEF Chunk
  <2>3. chunk(w) \in [Chunks -> Chunk]
    BY <2>2
  <2> HIDE DEF age, since, chunk, Later
  <2>4. /\ renewal(w) \in [state : {"none", "sent", "renewed", "refused"}, age : Nat]
        /\ renewal(w).state = sweep[w].renewal.state /\ renewal(w).age = age(w)
    BY <1>1, <2>1 DEF Run
  <2> HIDE DEF renewal
  <2> QED  BY <1>1, <2>1, <2>3, <2>4 DEF Run
<1> HIDE DEF next
<1>6. RetentionTypes'
  <2>1. strayDelete' \in [Workers -> Nat]
    BY <1>1, <1>2
  <2>2. sweep' \in [Workers -> Run]
    BY <1>2, <1>5
  <2> QED  BY <1>3, <2>1, <2>2 DEF RetentionTypes
<1>7. ASSUME NEW w \in Workers PROVE Lease(w, sweep'[w], lock'[key])
  <2>1. /\ sweep'[w].phase = sweep[w].phase /\ sweep'[w].left = Later(sweep[w].left)
        /\ sweep'[w].renewal.state = sweep[w].renewal.state /\ sweep'[w].renewal.age = age(w)
    BY <1>2, <1>5
  <2>2. /\ Lease(w, sweep[w], l) /\ l.ttl \in Nat /\ sweep[w].left \in Nat /\ sweep[w].renewal.age \in Nat
        /\ sweep[w].renewal.age < Latency /\ Latency \in Nat
        /\ sweep[w].phase = "deleting" => sweep[w].left > 0
    BY <1>1, <1>2, TimeToLive DEF Run, LockValue
  <2>3. age(w) <= Latency /\ age(w) <= sweep[w].renewal.age + 1
    BY <2>2
  <2>4. sweep[w].phase = "deleting" => lock'[key].owner = w /\ lock'[key].ttl > Later(sweep[w].left) + Grace
    BY <1>4, <2>2, TimeToLive DEF Lease
  <2>5. sweep[w].phase = "renewing" /\ sweep[w].renewal.state = "renewed" =>
          lock'[key].owner = w /\ lock'[key].ttl + age(w) >= TTL[key]
    BY <1>4, <2>2, TimeToLive DEF Lease
  <2>6. sweep[w].phase # "deleting" => Later(sweep[w].left) = 0
    BY <2>2 DEF Lease
  <2> HIDE DEF age, Later
  <2> QED  BY <2>1, <2>2, <2>3, <2>4, <2>5, <2>6 DEF Lease
<1>8. ASSUME NEW w \in Workers PROVE Outlasted(strayDelete'[w], lock'[key])
  <2>1. strayDelete'[w] = Later(strayDelete[w]) /\ strayDelete[w] \in Nat /\ l.ttl \in Nat
    BY <1>1, <1>2 DEF LockValue
  <2> QED  BY <1>1, <1>4, <2>1 DEF Outlasted
<1>9. ASSUME NEW v \in Workers, NEW w \in Workers, strayDelete'[v] > 0, strayDelete'[w] > 0
      PROVE  v = w
  BY <1>1, <1>2, <1>9 DEF LeaseInv
<1> QED  BY <1>6, <1>7, <1>8, <1>9 DEF LeaseInv

(* Every action keeps the invariant. *)
LEMMA LeaseInvKept == LeaseInv /\ [RetentionNext]_retentionVars => LeaseInv'
<1>1. LeaseInv /\ UNCHANGED retentionVars => LeaseInv'
  BY DEF retentionVars, LeaseInv, RetentionTypes
<1> QED  BY <1>1, TickKeepsLease, WorkersKeepLease DEF RetentionNext

(* It holds at first. *)
LEMMA LeaseInvInit == RetentionInit => LeaseInv
<1> SUFFICES ASSUME RetentionInit PROVE LeaseInv
  OBVIOUS
<1>1. lock \in [Keys -> LockValue]
  BY DEF RetentionInit, LockInit, Unlocked, LockValue
<1>2. sweep \in [Workers -> Run] /\ \A w \in Workers : sweep[w] = Idle
  BY IdleOK DEF RetentionInit
<1>3. strayDelete \in [Workers -> Nat] /\ \A w \in Workers : strayDelete[w] = 0
  BY DEF RetentionInit
<1> QED  BY <1>1, <1>2, <1>3, IdleOK DEF LeaseInv, RetentionTypes, Outlasted

(* One worker has the lock, which outlasts its DELETE: so there is one.    *)
LEMMA LeaseExcludes == LeaseInv => DeletesExclude
<1> SUFFICES ASSUME LeaseInv PROVE DeletesExclude
  OBVIOUS
<1> DEFINE D == {w \in Workers : sweep[w].phase = "deleting"}
           S == {w \in Workers : strayDelete[w] > 0}
<1>1. \A v, w \in D : v = w
  BY DEF LeaseInv, Lease
<1>2. \A v, w \in S : v = w
  BY DEF LeaseInv
<1>3. D = {} \/ S = {}
  BY TimeToLive DEF LeaseInv, Lease, Outlasted
<1>4. ASSUME NEW X, \A v, w \in X : v = w PROVE Cardinality(X) \in {0, 1}
  <2>1. CASE X = {}
    BY <2>1, FS_EmptySet
  <2>2. CASE X # {}
    <3>1. PICK x : X = {x}
      BY <1>4, <2>2
    <3> QED  BY <3>1, FS_Singleton
  <2> QED  BY <2>1, <2>2
<1>5. Cardinality(D) \in {0, 1} /\ Cardinality(S) \in {0, 1}
  BY <1>1, <1>2, <1>4
<1>6. Cardinality(D) = 0 \/ Cardinality(S) = 0
  BY <1>3, FS_EmptySet
<1>7. Cardinality(D) + Cardinality(S) <= 1
  <2> HIDE DEF D, S
  <2> QED  BY <1>5, <1>6
<1> QED  BY <1>7 DEF DeletesExclude

(* src/worker/src/features/batch-data-retention-cleaner/index.ts and       *)
(* src/worker/src/utils/PeriodicExclusiveRunner.ts: the renewal before the *)
(* DELETE lets the lock outlast it, so that neither a second worker nor    *)
(* the successor of one that died deletes from the table at the same time. *)
THEOREM OneDeleteAtATime == RetentionSpec => []DeletesExclude
<1> QED  BY LeaseExcludes, LeaseInvInit, LeaseInvKept, PTL DEF RetentionSpec

-----------------------------------------------------------------------------
(* What is left of the time to live when a query ends that began as late   *)
(* as the throttle allows.                                                 *)
Spare == TTL[RetentionKey] - Latency - (MinInterval - 1) - QueryTime

AtWork == {"searching", "renewing"}

(* A chunk that runs a query ends it in time for a renewal; one that waits *)
(* has asked for it.                                                       *)
ChunkInTime(r, c, l) ==
  /\ r.chunk[c].left <= QueryTime
  /\ r.chunk[c].waits => r.renewal.state # "none" /\ r.chunk[c].stage \notin {"queued", "done"}
  /\ ~r.chunk[c].waits => r.chunk[c].stage \in {"queued", "done"} \cup Queries
  /\ ~r.chunk[c].waits /\ r.chunk[c].stage \in Queries => l.ttl >= r.chunk[c].left + Spare
  /\ MayStart(r, c) => l.ttl >= QueryTime + Spare

SearchInTime(r, l) ==
  /\ r.since < MinInterval => l.ttl + r.since >= TTL[RetentionKey] - Latency
  /\ r.renewal.state # "none" => \E c \in Chunks : r.chunk[c].waits
  /\ \A c \in Chunks : ChunkInTime(r, c, l)

(* A run of w that has met no fault owns the lock l, and what is left of   *)
(* it lasts until the next renewal is evaluated.                           *)
InTime(w, r, l) ==
  r.phase \in AtWork =>
    /\ l.owner = w
    /\ r.leaseLost = FALSE
    /\ r.renewal.state # "refused"
    /\ r.renewal.state = "none" => r.phase = "searching" /\ l.ttl >= Spare
    /\ r.renewal.state = "sent" => l.ttl + r.renewal.age >= Spare
    /\ r.renewal.state = "renewed" => l.ttl + r.renewal.age >= TTL[RetentionKey]
    /\ r.phase = "searching" => SearchInTime(r, l)

Healthy ==
  /\ retentionFaults \in Nat
  /\ retentionFaults = 0 => \A w \in Workers : InTime(w, sweep[w], lock[RetentionKey])

(* The numbers behind it. *)
LEMMA SpareTime ==
  ASSUME ShortQueries
  PROVE  /\ Spare \in Int /\ Spare > Latency /\ MinInterval \in Nat \ {0}
         /\ TTL[RetentionKey] = Spare + Latency + (MinInterval - 1) + QueryTime
         /\ {QueryTime, Latency, DeleteTime, TTL[RetentionKey], QueryConcurrency} \subseteq Nat \ {0}
         /\ TTL[RetentionKey] > DeleteTime + Latency
<1>1. /\ {QueryTime, DeleteTime, Latency} \subseteq Nat \ {0} /\ TTL[RetentionKey] \in Nat
      /\ TTL[RetentionKey] > DeleteTime + Latency
  BY TimeToLive
<1>2. QueryConcurrency \in Nat \ {0}
  BY RetentionAssumption
<1>3. MinInterval \in Nat \ {0}
  <2>1. TTL[RetentionKey] >= 3
    BY <1>1
  <2> QED  BY <1>1, <2>1 DEF MinInterval
<1> QED  BY <1>1, <1>2, <1>3 DEF Spare, ShortQueries

(* Who neither searches nor renews needs no time. *)
LEMMA RestingInTime ==
  ASSUME NEW w, NEW r, NEW l, r.phase \notin AtWork
  PROVE  InTime(w, r, l)
  BY DEF InTime

(* One run becomes x; the lock changes only if it is that worker's or free. *)
LEMMA OneStaysInTime ==
  ASSUME LeaseInv, Healthy, retentionFaults' = 0, retentionFaults = 0, NEW w \in Workers, NEW x,
         sweep' = [sweep EXCEPT ![w] = x],
         lock'[RetentionKey] = lock[RetentionKey] \/ lock[RetentionKey].owner \in {w, NoOwner},
         InTime(w, x, lock'[RetentionKey])
  PROVE  Healthy'
<1>1. ASSUME NEW v \in Workers PROVE InTime(v, sweep'[v], lock'[RetentionKey])
  <2>1. CASE v = w
    BY <2>1 DEF LeaseInv, RetentionTypes
  <2>2. CASE v # w
    <3>1. InTime(v, sweep[v], lock[RetentionKey]) /\ sweep'[v] = sweep[v]
      BY <2>2 DEF Healthy, LeaseInv, RetentionTypes
    <3>2. CASE lock'[RetentionKey] = lock[RetentionKey]
      BY <3>1, <3>2
    <3>3. CASE lock[RetentionKey].owner \in {w, NoOwner}
      BY <2>2, <3>1, <3>3, TimeToLive DEF InTime
    <3> QED  BY <3>2, <3>3
  <2> QED  BY <2>1, <2>2
<1> QED  BY <1>1 DEF Healthy

(* Chunks at work. *)
Occupied(r) == {d \in Chunks : r.chunk[d].stage \notin {"queued", "done"}}

(* A slot becomes free only when a chunk ends. *)
LEMMA SlotsStayTaken ==
  ASSUME NEW r, NEW x, Occupied(r) \subseteq Occupied(x), NEW c \in Chunks, MayStart(x, c),
         r.chunk[c].stage = x.chunk[c].stage
  PROVE  MayStart(r, c)
<1>1. IsFiniteSet(Chunks) /\ QueryConcurrency \in Nat
  BY RetentionAssumption
<1>2. IsFiniteSet(Occupied(x)) /\ Cardinality(Occupied(x)) < QueryConcurrency /\ x.chunk[c].stage = "queued"
  BY <1>1, FS_Subset DEF MayStart, Occupied
<1>3. /\ Cardinality(Occupied(r)) \in Nat /\ Cardinality(Occupied(x)) \in Nat
      /\ Cardinality(Occupied(r)) <= Cardinality(Occupied(x))
  BY <1>2, FS_Subset, FS_CardinalityType
<1>4. Cardinality(Occupied(r)) < QueryConcurrency
  BY <1>1, <1>2, <1>3
<1> QED  BY <1>2, <1>4 DEF MayStart, Occupied

(* A step of one chunk of a search. *)
LEMMA OneChunkMoves ==
  ASSUME ShortQueries, NEW w, NEW l \in LockValue, NEW r \in Run, NEW x \in Run, NEW c \in Chunks,
         r.phase = "searching", x.phase = "searching", InTime(w, r, l),
         x.leaseLost = r.leaseLost, x.since = r.since,
         \/ x.renewal = r.renewal
         \/ /\ r.renewal.state = "none" /\ x.renewal.state = "sent"
            /\ x.renewal.age = r.renewal.age /\ x.chunk[c].waits,
         ~r.chunk[c].waits, \A d \in Chunks : d # c => x.chunk[d] = r.chunk[d],
         ChunkInTime(x, c, l),
         Occupied(r) \subseteq Occupied(x) \/ l.ttl >= QueryTime + Spare
  PROVE  InTime(w, x, l)
<1>1. SearchInTime(r, l) /\ l.owner = w /\ r.leaseLost = FALSE /\ r.renewal.state # "refused"
  BY DEF InTime, AtWork
<1>2. ASSUME NEW d \in Chunks PROVE ChunkInTime(x, d, l)
  <2>1. CASE d = c
    BY <2>1
  <2>2. CASE d # c
    <3>1. x.chunk[d] = r.chunk[d] /\ ChunkInTime(r, d, l)
      BY <1>1, <2>2 DEF SearchInTime
    <3>2. MayStart(x, d) => l.ttl >= QueryTime + Spare
      BY <3>1, SlotsStayTaken DEF ChunkInTime
    <3>3. r.renewal.state # "none" => x.renewal.state # "none"
      OBVIOUS
    <3> QED  BY <3>1, <3>2, <3>3 DEF ChunkInTime
  <2> QED  BY <2>1, <2>2
<1>3. x.renewal.state # "none" => \E d \in Chunks : x.chunk[d].waits
  BY <1>1 DEF SearchInTime
<1>4. SearchInTime(x, l)
  BY <1>1, <1>2, <1>3 DEF SearchInTime
<1>5. r.renewal.age \in Nat /\ l.ttl \in Nat /\ Spare \in Int
  BY SpareTime DEF Run, LockValue
<1> QED  BY <1>1, <1>4, <1>5 DEF InTime, AtWork

(* A chunk that goes on has a query to run, in full, or ends. *)
LEMMA ChunkGoesOnTo ==
  ASSUME NEW chunk \in Chunk, chunk.left <= QueryTime
  PROVE  LET y == Continued(chunk, FALSE)
         IN  /\ y \in Chunk /\ y.waits = chunk.waits /\ y.left <= QueryTime
             /\ y.stage \in {"done"} \cup Queries
<1>1. QueryTime \in Nat
  BY TimeToLive
<1>2. chunk.stage \in Queries => Continued(chunk, FALSE) = chunk
  BY DEF Continued, Queries
<1>3. ASSUME NEW stage \in {"enriching", "retrying", "done"}, NEW left \in {0, QueryTime}
      PROVE  LET y == [chunk EXCEPT !.stage = stage, !.left = left]
             IN  y \in Chunk /\ y.waits = chunk.waits /\ y.left <= QueryTime /\ y.stage = stage
  <2> DEFINE y == [chunk EXCEPT !.stage = stage, !.left = left]
  <2>1. left \in Nat /\ left <= QueryTime
    BY <1>1
  <2>2. y \in Chunk
    BY <2>1 DEF Chunk, Queries
  <2>3. y.waits = chunk.waits /\ y.left = left /\ y.stage = stage
    BY DEF Chunk
  <2> QED  BY <2>1, <2>2, <2>3
<1>4. chunk.stage \notin Queries =>
        \/ Continued(chunk, FALSE) = [chunk EXCEPT !.stage = "enriching", !.left = QueryTime]
        \/ Continued(chunk, FALSE) = [chunk EXCEPT !.stage = "retrying", !.left = QueryTime]
        \/ Continued(chunk, FALSE) = [chunk EXCEPT !.stage = "done", !.left = 0]
  BY DEF Continued
<1>5. {"enriching", "retrying"} \subseteq Queries
  BY DEF Queries
<1> QED  BY <1>2, <1>3, <1>4, <1>5

(* A query that ends, or yields, is followed by a renewal unless the last  *)
(* one is recent.                                                          *)
LEMMA ProgressInTime ==
  ASSUME ShortQueries, NEW w, NEW l \in LockValue, NEW r \in Run, NEW c \in Chunks,
         NEW stage \in {"discovered", "failed", "enriched"} \cup Queries,
         NEW found \in BOOLEAN, NEW force \in BOOLEAN,
         r.phase = "searching", InTime(w, r, l), r.chunk[c].stage \in Queries, ~r.chunk[c].waits
  PROVE  InTime(w, Progressed(r, c, stage, found, force), l)
<1> DEFINE x == Progressed(r, c, stage, found, force)
           chunk == [r.chunk[c] EXCEPT !.stage = stage, !.found = found]
           renewal == IF r.renewal.state = "none" THEN [r.renewal EXCEPT !.state = "sent"] ELSE r.renewal
           a == [r EXCEPT !.chunk = [r.chunk EXCEPT ![c] = Continued(chunk, r.leaseLost)]]
           b == [r EXCEPT !.chunk = [r.chunk EXCEPT ![c] = [chunk EXCEPT !.waits = TRUE]],
                          !.renewal = renewal]
<1>1. /\ SearchInTime(r, l) /\ r.leaseLost = FALSE /\ ChunkInTime(r, c, l)
      /\ r.chunk[c] \in Chunk /\ r.chunk[c].left <= QueryTime
  BY DEF InTime, AtWork, SearchInTime, ChunkInTime, Run
<1>2. /\ chunk \in Chunk /\ chunk.left = r.chunk[c].left /\ chunk.waits = FALSE /\ chunk.stage = stage
      /\ [chunk EXCEPT !.waits = TRUE] \in Chunk
  BY <1>1 DEF Chunk
<1>3. x \in Run /\ x.phase = "searching"
  BY RunProgresses
<1>4. \/ ~force /\ r.since < MinInterval /\ x = a
      \/ x = b
  BY DEF Progressed
<1> HIDE DEF chunk
<1>5. CASE ~force /\ r.since < MinInterval /\ x = a
  <2> DEFINE y == Continued(chunk, FALSE)
  <2>1. /\ y \in Chunk /\ y.waits = FALSE /\ y.left <= QueryTime /\ y.stage \in {"done"} \cup Queries
    BY <1>1, <1>2, ChunkGoesOnTo
  <2>2. a = [r EXCEPT !.chunk = [r.chunk EXCEPT ![c] = y]]
    BY <1>1
  <2> HIDE DEF y, a
  <2>3. /\ a.leaseLost = r.leaseLost /\ a.since = r.since /\ a.renewal = r.renewal /\ a.chunk[c] = y
        /\ \A d \in Chunks : d # c => a.chunk[d] = r.chunk[d]
    BY <2>2 DEF Run
  <2>4. l.ttl >= QueryTime + Spare
    BY <1>1, <1>5, SpareTime DEF SearchInTime, LockValue, Run
  <2>5. ChunkInTime(a, c, l)
    <3>1. l.ttl >= y.left + Spare
      BY <2>1, <2>4, SpareTime DEF Chunk, LockValue
    <3> QED  BY <2>1, <2>3, <2>4, <3>1 DEF ChunkInTime
  <2> QED  BY <1>3, <1>5, <2>3, <2>4, <2>5, OneChunkMoves
<1>6. CASE x = b
  <2> DEFINE y == [chunk EXCEPT !.waits = TRUE]
  <2>1. y \in Chunk /\ y.waits /\ y.left <= QueryTime /\ y.stage = stage
    BY <1>1, <1>2 DEF Chunk
  <2>2. /\ renewal.state # "none" /\ renewal.age = r.renewal.age
        /\ renewal = r.renewal \/ (r.renewal.state = "none" /\ renewal.state = "sent")
    BY DEF Run
  <2> HIDE DEF y, renewal
  <2>3. /\ b.leaseLost = r.leaseLost /\ b.since = r.since /\ b.renewal = renewal /\ b.chunk[c] = y
        /\ \A d \in Chunks : d # c => b.chunk[d] = r.chunk[d]
    BY DEF Run, y
  <2> HIDE DEF b
  <2>4. stage \notin {"queued", "done"}
    BY DEF Queries
  <2>5. Occupied(r) \subseteq Occupied(b)
    BY <2>1, <2>3, <2>4 DEF Occupied
  <2>6. ChunkInTime(b, c, l)
    BY <2>1, <2>2, <2>3, <2>4 DEF ChunkInTime, MayStart
  <2> QED  BY <1>3, <1>6, <2>1, <2>2, <2>3, <2>5, <2>6, OneChunkMoves
<1> HIDE DEF x
<1> QED  BY <1>4, <1>5, <1>6 DEF x

(* The steps of a chunk. *)
LEMMA ChunksStayInTime ==
  ASSUME ShortQueries, LeaseInv, Healthy, retentionFaults = 0, NEW w \in Workers, NEW c \in Chunks,
         ChunkSteps(w, c)
  PROVE  Healthy'
<1> DEFINE r == sweep[w]
           l == lock[RetentionKey]
<1>1. /\ r \in Run /\ l \in LockValue /\ InTime(w, r, l) /\ r.chunk[c] \in Chunk
  BY TimeToLive DEF LeaseInv, RetentionTypes, Healthy, Run
<1>2. /\ r.phase = "searching" /\ ~r.chunk[c].waits /\ retentionFaults' = 0 /\ lock' = lock
  BY DEF ChunkSteps, StartQuery, RowArrives, CandidatesEnd, EnrichmentEnds, EnrichmentFails, At
<1>3. SearchInTime(r, l) /\ r.leaseLost = FALSE
  BY <1>1, <1>2 DEF InTime, AtWork
<1>4. CASE StartQuery(w, c)
  <2> DEFINE y == [r.chunk[c] EXCEPT !.stage = "candidates", !.left = QueryTime]
             x == [r EXCEPT !.chunk = [r.chunk EXCEPT ![c] = y]]
  <2>1. sweep' = [sweep EXCEPT ![w] = x] /\ MayStart(r, c)
    BY <1>3, <1>4 DEF StartQuery, Becomes
  <2>2. QueryTime \in Nat
    BY TimeToLive
  <2>3. y \in Chunk /\ y.waits = FALSE /\ y.left = QueryTime /\ y.stage = "candidates"
    BY <1>1, <1>2, <2>2 DEF Chunk, Queries
  <2> HIDE DEF y
  <2>4. /\ x \in Run /\ x.phase = r.phase /\ x.leaseLost = r.leaseLost /\ x.since = r.since
        /\ x.renewal = r.renewal /\ x.chunk[c] = y
        /\ \A d \in Chunks : d # c => x.chunk[d] = r.chunk[d]
    BY <1>1, <2>3 DEF Run
  <2> HIDE DEF x
  <2>5. l.ttl >= QueryTime + Spare
    BY <1>3, <2>1 DEF SearchInTime, ChunkInTime
  <2>6. ChunkInTime(x, c, l)
    BY <2>2, <2>3, <2>4, <2>5 DEF ChunkInTime, Queries
  <2>7. InTime(w, x, l)
    BY <1>1, <1>2, <2>4, <2>5, <2>6, OneChunkMoves
  <2> QED  BY <1>2, <2>1, <2>7, OneStaysInTime
<1>5. CASE ~StartQuery(w, c)
  <2>1. PICK stage \in {"discovered", "failed", "enriched"} \cup Queries, found \in BOOLEAN, force \in BOOLEAN :
          Becomes(w, Progressed(r, c, stage, found, force))
    <3>1. r.chunk[c].found \in BOOLEAN /\ "candidates" \in Queries
      BY <1>1 DEF Chunk, Queries
    <3> QED  BY <1>5, <3>1 DEF ChunkSteps, RowArrives, CandidatesEnd, EnrichmentEnds, EnrichmentFails
  <2>2. r.chunk[c].stage \in Queries
    BY <1>5 DEF ChunkSteps, RowArrives, CandidatesEnd, EnrichmentEnds, EnrichmentFails, At, Queries
  <2>3. InTime(w, Progressed(r, c, stage, found, force), l)
    BY <1>1, <1>2, <2>2, ProgressInTime
  <2> QED  BY <1>2, <2>1, <2>3, OneStaysInTime DEF Becomes
<1> QED  BY <1>4, <1>5

(* A renewal is evaluated while the lock is there, and answered with all   *)
(* of the time to live but the answer's way.                               *)
LEMMA RenewalsStayInTime ==
  ASSUME ShortQueries, LeaseInv, Healthy, retentionFaults = 0, NEW w \in Workers,
         RedisEvaluates(w) \/ RenewalAnswered(w)
  PROVE  Healthy'
<1> DEFINE r == sweep[w]
           key == RetentionKey
           l == lock[key]
<1>1. /\ r \in Run /\ l \in LockValue /\ InTime(w, r, l) /\ Lease(w, r, l)
  BY TimeToLive DEF LeaseInv, RetentionTypes, Healthy, Run
<1>2. retentionFaults' = 0
  BY DEF RedisEvaluates, RenewalAnswered
<1>3. r.phase \in AtWork
  BY <1>1 DEF RedisEvaluates, RenewalAnswered, Lease, Run, AtWork
<1>4. l.owner = w /\ r.leaseLost = FALSE /\ r.renewal.state # "refused"
  BY <1>1, <1>3 DEF InTime
<1>5. CASE RedisEvaluates(w)
  <2> DEFINE renewal == [r.renewal EXCEPT !.state = "renewed"]
             x == [r EXCEPT !.renewal = renewal]
  <2>1. /\ r.renewal.state = "sent" /\ lock' = Extended(w, key)
        /\ sweep' = [sweep EXCEPT ![w] = x]
    BY <1>4, <1>5 DEF RedisEvaluates, Becomes, Owns
  <2>2. lock'[key].owner = w /\ lock'[key].ttl = TTL[key]
    BY <1>4, <2>1, LockCommands
  <2>3. renewal.state = "renewed" /\ renewal.age = r.renewal.age /\ r.renewal.age \in Nat
    BY <1>1 DEF Run
  <2> HIDE DEF renewal
  <2>4. /\ x.phase = r.phase /\ x.leaseLost = r.leaseLost /\ x.since = r.since
        /\ x.renewal = renewal /\ x.chunk = r.chunk
    BY <1>1 DEF Run
  <2> HIDE DEF x
  <2>5. /\ l.ttl \in Nat /\ TTL[key] \in Nat /\ r.since \in Nat /\ Latency \in Nat
        /\ \A c \in Chunks : r.chunk[c].left \in Nat
    BY <1>1, SpareTime DEF LockValue, Run, Chunk
  <2>6. ASSUME r.phase = "searching" PROVE SearchInTime(x, lock'[key])
    <3>1. SearchInTime(r, l)
      BY <1>1, <2>6 DEF InTime, AtWork
    <3>2. ASSUME NEW c \in Chunks PROVE ChunkInTime(x, c, lock'[key])
      <4>1. ChunkInTime(r, c, l)
        BY <3>1 DEF SearchInTime
      <4>2. QueryTime + Spare <= TTL[key]
        BY SpareTime
      <4>3. r.chunk[c].left <= QueryTime => TTL[key] >= r.chunk[c].left + Spare
        BY <2>5, <4>2, SpareTime
      <4> QED  BY <2>2, <2>3, <2>4, <4>1, <4>2, <4>3 DEF ChunkInTime, MayStart
    <3> QED  BY <2>1, <2>2, <2>3, <2>4, <2>5, <3>1, <3>2 DEF SearchInTime
  <2>7. InTime(w, x, lock'[key])
    BY <1>3, <1>4, <2>2, <2>3, <2>4, <2>5, <2>6 DEF InTime, AtWork
  <2> QED  BY <1>2, <1>4, <2>1, <2>7, OneStaysInTime
<1>6. CASE RenewalAnswered(w)
  <2> DEFINE f == [c \in Chunks |->
                     IF r.chunk[c].waits THEN [Continued(r.chunk[c], r.leaseLost) EXCEPT !.waits = FALSE]
                     ELSE r.chunk[c]]
             x == [r EXCEPT !.renewal = NoRenewal, !.leaseLost = r.leaseLost \/ FALSE, !.chunk = f, !.since = 0]
             deleting == [Idle EXCEPT !.phase = "deleting", !.left = DeleteTime]
  <2>1. r.renewal.state = "renewed" /\ lock' = lock
    BY <1>4, <1>6 DEF RenewalAnswered
  <2>2. l.ttl >= TTL[key] - Latency /\ l.ttl \in Nat
    BY <1>1, <1>3, <2>1, SpareTime DEF InTime, Lease, Run, LockValue
  <2>3. CASE r.phase = "renewing"
    <3>1. Becomes(w, deleting)
      BY <1>6, <2>1, <2>3 DEF RenewalAnswered
    <3>2. deleting.phase = "deleting"
      BY DEF Idle
    <3> HIDE DEF deleting
    <3>3. InTime(w, deleting, lock'[key])
      BY <3>2, RestingInTime DEF AtWork
    <3> QED  BY <1>2, <2>1, <3>1, <3>3, OneStaysInTime DEF Becomes
  <2>4. CASE r.phase = "searching"
    <3>1. Becomes(w, x)
      <4>1. f = [c \in Chunks |->
                  CASE ~r.chunk[c].waits -> r.chunk[c]
                    [] r.chunk[c].waits /\ FALSE -> Idle.chunk[c]
                    [] OTHER -> [Continued(r.chunk[c], r.leaseLost) EXCEPT !.waits = FALSE]]
        OBVIOUS
      <4> HIDE DEF f
      <4> QED  BY <1>6, <2>1, <2>4, <4>1 DEF RenewalAnswered
    <3>2. SearchInTime(r, l)
      BY <1>1, <2>4 DEF InTime, AtWork
    <3>3. ASSUME NEW c \in Chunks
          PROVE  /\ f[c] \in Chunk /\ f[c].waits = FALSE /\ f[c].left <= QueryTime
                 /\ f[c].stage \in {"queued", "done"} \cup Queries
      <4>1. r.chunk[c] \in Chunk /\ ChunkInTime(r, c, l) /\ r.chunk[c].left <= QueryTime
        BY <1>1, <3>2 DEF Run, SearchInTime, ChunkInTime
      <4>2. CASE r.chunk[c].waits
        <5> DEFINE y == Continued(r.chunk[c], FALSE)
        <5>1. f[c] = [y EXCEPT !.waits = FALSE]
          BY <1>4, <4>2
        <5>2. y \in Chunk /\ y.left <= QueryTime /\ y.stage \in {"done"} \cup Queries
          BY <4>1, ChunkGoesOnTo
        <5> HIDE DEF y
        <5> QED  BY <5>1, <5>2 DEF Chunk
      <4>3. CASE ~r.chunk[c].waits
        <5>1. f[c] = r.chunk[c] /\ r.chunk[c].waits = FALSE
          BY <4>1, <4>3 DEF Chunk
        <5> QED  BY <4>1, <4>3, <5>1 DEF ChunkInTime
      <4> QED  BY <4>2, <4>3
    <3>4. f \in [Chunks -> Chunk]
      BY <3>3
    <3> HIDE DEF f
    <3>5. /\ x.phase = "searching" /\ x.leaseLost = FALSE /\ x.since = 0 /\ x.renewal = NoRenewal /\ x.chunk = f
      BY <1>1, <1>4, <2>4, <3>4 DEF Run
    <3> HIDE DEF x
    <3>6. QueryTime + Spare <= l.ttl
      BY <2>2, SpareTime
    <3>7. ASSUME NEW c \in Chunks PROVE ChunkInTime(x, c, l)
      <4>1. f[c].left \in Nat /\ f[c].left <= QueryTime /\ QueryTime \in Nat /\ Spare \in Int
        BY <3>3, SpareTime DEF Chunk
      <4>2. f[c].left + Spare <= l.ttl
        BY <2>2, <3>6, <4>1
      <4> QED  BY <3>3, <3>5, <3>6, <4>2 DEF ChunkInTime
    <3>8. SearchInTime(x, l)
      BY <2>2, <3>5, <3>7 DEF SearchInTime, NoRenewal
    <3>9. l.ttl >= Spare
      BY <2>2, SpareTime
    <3>10. InTime(w, x, l)
      BY <1>4, <3>5, <3>8, <3>9 DEF InTime, NoRenewal
    <3> QED  BY <1>2, <2>1, <3>1, <3>10, OneStaysInTime DEF Becomes
  <2> QED  BY <1>3, <2>3, <2>4 DEF AtWork
<1> QED  BY <1>5, <1>6

(* A run that begins has all of the time to live. *)
LEMMA FreshInTime ==
  ASSUME ShortQueries, NEW chunks, NEW w, NEW l, l.owner = w, l.ttl = TTL[RetentionKey]
  PROVE  InTime(w, Fresh(chunks), l)
<1> DEFINE f == [c \in Chunks |-> IF c \in chunks THEN [Idle.chunk[c] EXCEPT !.stage = "queued"] ELSE Idle.chunk[c]]
           x == Fresh(chunks)
<1>1. /\ x.phase = "searching" /\ x.since = MinInterval /\ x.leaseLost = FALSE
      /\ x.renewal = NoRenewal /\ x.chunk = f
  BY DEF Fresh, Idle
<1>2. \A c \in Chunks : f[c].left = 0 /\ f[c].waits = FALSE /\ f[c].stage \in {"queued", "done"}
  BY DEF Idle
<1> HIDE DEF f, x
<1>3. TTL[RetentionKey] \in Nat /\ QueryTime \in Nat /\ QueryTime + Spare <= TTL[RetentionKey]
  BY SpareTime
<1>4. ASSUME NEW c \in Chunks PROVE ChunkInTime(x, c, l)
  BY <1>1, <1>2, <1>3 DEF ChunkInTime, Queries
<1>5. SearchInTime(x, l)
  BY <1>1, <1>4, SpareTime DEF SearchInTime, NoRenewal
<1>6. InTime(w, x, l)
  BY <1>1, <1>5, SpareTime DEF InTime, NoRenewal
<1> QED  BY <1>6 DEF x

(* The steps of a worker that are no faults. *)
LEMMA WorkersStayInTime ==
  ASSUME ShortQueries, LeaseInv, Healthy, retentionFaults = 0, NEW w \in Workers, Begin(w) \/ RunSteps(w)
  PROVE  Healthy'
<1> DEFINE r == sweep[w]
           key == RetentionKey
           l == lock[key]
<1>1. /\ r \in Run /\ l \in LockValue /\ InTime(w, r, l)
  BY TimeToLive DEF LeaseInv, RetentionTypes, Healthy
<1>2. CASE Begin(w)
  <2>1. PICK chunks : sweep' = [sweep EXCEPT ![w] = Fresh(chunks)]
    BY <1>2 DEF Begin, Becomes
  <2>2. lock' = Acquired(w, key) /\ l.owner = NoOwner /\ retentionFaults' = 0
    BY <1>2 DEF Begin, IsFree
  <2>3. InTime(w, Fresh(chunks), lock'[key])
    BY <2>2, FreshInTime, LockCommands
  <2> QED  BY <2>1, <2>2, <2>3, OneStaysInTime
<1>3. CASE SearchEnds(w)
  <2> DEFINE x == [Idle EXCEPT !.phase = "renewing", !.renewal = [NoRenewal EXCEPT !.state = "sent"]]
  <2>1. /\ r.phase = "searching" /\ (\A c \in Chunks : r.chunk[c].stage = "done")
        /\ lock' = lock /\ retentionFaults' = 0
        /\ sweep' = [sweep EXCEPT ![w] = Releasing] \/ sweep' = [sweep EXCEPT ![w] = x]
    BY <1>3 DEF SearchEnds, Idle, Becomes
  <2>2. l.owner = w /\ l.ttl >= Spare
    <3>1. SearchInTime(r, l)
      BY <1>1, <2>1 DEF InTime, AtWork
    <3>2. r.renewal.state = "none"
      BY <2>1, <3>1 DEF SearchInTime, ChunkInTime
    <3> QED  BY <1>1, <2>1, <3>2 DEF InTime, AtWork
  <2>3. /\ x.phase = "renewing" /\ x.leaseLost = FALSE
        /\ x.renewal.state = "sent" /\ x.renewal.age = 0
    BY DEF Idle, NoRenewal
  <2> HIDE DEF x
  <2>4. InTime(w, x, l)
    BY <1>1, <2>2, <2>3, SpareTime DEF InTime, LockValue
  <2>5. InTime(w, Releasing, l)
    BY RestingInTime DEF AtWork, Releasing, Idle
  <2> QED  BY <2>1, <2>4, <2>5, OneStaysInTime
<1>4. CASE DeleteEnds(w)
  <2>1. InTime(w, Releasing, l)
    BY RestingInTime DEF AtWork, Releasing, Idle
  <2> QED  BY <1>4, <2>1, OneStaysInTime DEF DeleteEnds, Becomes
<1>5. CASE Release(w)
  <2>1. InTime(w, Idle, lock'[key])
    BY RestingInTime DEF AtWork, Idle
  <2>2. lock' = lock \/ l.owner = w
    BY <1>5 DEF Release, Released, Owns
  <2> QED  BY <1>5, <2>1, <2>2, OneStaysInTime DEF Release, Becomes
<1> QED
  BY <1>2, <1>3, <1>4, <1>5, ChunksStayInTime, RenewalsStayInTime DEF RunSteps

(* Time passes only while a query runs or a renewal is on its way. *)
LEMMA TickStaysInTime ==
  ASSUME ShortQueries, LeaseInv, Healthy, retentionFaults = 0, Tick
  PROVE  Healthy'
<1> DEFINE key == RetentionKey
           l == lock[key]
           Later(n) == IF n = 0 THEN 0 ELSE n - 1
           age(w) == IF sweep[w].renewal.state = "none" THEN 0 ELSE sweep[w].renewal.age + 1
           since(w) == IF sweep[w].since < MinInterval THEN sweep[w].since + 1 ELSE sweep[w].since
           chunk(w) == [c \in Chunks |-> [sweep[w].chunk[c] EXCEPT !.left = Later(sweep[w].chunk[c].left)]]
           next(w) == [sweep[w] EXCEPT !.left = Later(@), !.since = since(w),
                                       !.renewal.age = age(w), !.chunk = chunk(w)]
<1>1. retentionFaults' = 0 /\ lock' = Elapsed(key)
  BY DEF Tick
<1>2. sweep' = [w \in Workers |-> next(w)]
  BY DEF Tick
<1>3. /\ key \in Keys /\ lock \in [Keys -> LockValue] /\ l \in LockValue
      /\ l.ttl > 1 => lock'[key].owner = l.owner /\ lock'[key].ttl = l.ttl - 1
  BY <1>1, TimeToLive DEF LeaseInv, RetentionTypes, Elapsed, LockValue
<1> SUFFICES ASSUME NEW w \in Workers, sweep[w].phase \in AtWork
             PROVE  InTime(w, sweep'[w], lock'[key])
  <2>1. ASSUME NEW w \in Workers, sweep[w].phase \notin AtWork PROVE InTime(w, sweep'[w], lock'[key])
    <3>1. sweep'[w] = next(w) /\ sweep[w] \in Run
      BY <1>2 DEF LeaseInv, RetentionTypes
    <3>2. next(w).phase = sweep[w].phase
      BY <3>1 DEF Run
    <3> QED  BY <2>1, <3>1, <3>2, RestingInTime
  <2> QED  BY <1>1, <2>1 DEF Healthy
<1> DEFINE r == sweep[w]
           x == sweep'[w]
           m == lock'[key]
<1>4. /\ r \in Run /\ InTime(w, r, l) /\ r.since \in Nat /\ r.renewal.age \in Nat
      /\ \A c \in Chunks : r.chunk[c] \in Chunk
  BY DEF LeaseInv, RetentionTypes, Healthy, Run
<1>5. /\ r.renewal.age < Latency
      /\ \A c \in Chunks :
           /\ r.chunk[c].stage \in Queries /\ ~r.chunk[c].waits => r.chunk[c].left > 0
           /\ ~MayStart(r, c)
      /\ r.phase = "searching" => \E c \in Chunks : r.chunk[c].stage # "done"
  BY DEF Tick
<1>6. /\ x.phase = r.phase /\ x.since = since(w) /\ x.leaseLost = r.leaseLost
      /\ x.renewal.state = r.renewal.state /\ x.renewal.age = age(w)
      /\ x.chunk = chunk(w)
  <2>1. x = next(w)
    BY <1>2
  <2> HIDE DEF age, since, chunk, Later
  <2> QED  BY <1>4, <2>1 DEF Run
<1>7. ASSUME NEW c \in Chunks
      PROVE  /\ x.chunk[c].stage = r.chunk[c].stage /\ x.chunk[c].waits = r.chunk[c].waits
             /\ x.chunk[c].left = Later(r.chunk[c].left)
  <2>1. r.chunk[c] \in Chunk /\ x.chunk[c] = [r.chunk[c] EXCEPT !.left = Later(r.chunk[c].left)]
    BY <1>4, <1>6
  <2> HIDE DEF Later, x, r
  <2> QED  BY <2>1 DEF Chunk
<1>8. /\ Spare \in Int /\ Spare > Latency /\ Latency \in Nat /\ l.ttl \in Nat /\ MinInterval \in Nat
      /\ TTL[key] \in Nat /\ TTL[key] > Latency + 1 /\ QueryTime \in Nat /\ QueryConcurrency \in Nat \ {0}
  BY <1>3, SpareTime DEF LockValue
<1>9. /\ l.owner = w /\ r.leaseLost = FALSE /\ r.renewal.state \in {"none", "sent", "renewed"}
      /\ r.renewal.state = "none" => r.phase = "searching" /\ l.ttl >= Spare
      /\ r.renewal.state = "sent" => l.ttl + r.renewal.age >= Spare
      /\ r.renewal.state = "renewed" => l.ttl + r.renewal.age >= TTL[key]
      /\ r.phase = "searching" => SearchInTime(r, l)
  BY <1>4 DEF InTime, Run
<1>10. r.renewal.state = "none" => l.ttl >= Spare + 1
  <2> SUFFICES ASSUME r.renewal.state = "none" PROVE l.ttl >= Spare + 1
    OBVIOUS
  <2>1. r.phase = "searching" /\ SearchInTime(r, l)
    BY <1>9
  <2>2. PICK c \in Chunks : r.chunk[c].stage # "done"
    BY <1>5, <2>1
  <2>3. PICK d \in Chunks : r.chunk[d].stage \notin {"queued", "done"}
    <3> SUFFICES ASSUME Occupied(r) = {} PROVE FALSE
      BY DEF Occupied
    <3>1. r.chunk[c].stage = "queued"
      BY <2>2 DEF Occupied
    <3>2. MayStart(r, c)
      <4> DEFINE taken == {d \in Chunks : r.chunk[d].stage \notin {"queued", "done"}}
      <4>1. taken = {}
        BY DEF Occupied
      <4> HIDE DEF taken
      <4>2. Cardinality(taken) < QueryConcurrency
        BY <1>8, <4>1, FS_EmptySet
      <4> QED  BY <3>1, <4>2, Zenon DEF MayStart, taken
    <3> QED  BY <1>5, <3>2
  <2>4. ~r.chunk[d].waits /\ r.chunk[d].stage \in Queries /\ r.chunk[d].left > 0
    BY <1>5, <2>1, <2>3 DEF SearchInTime, ChunkInTime
  <2>5. l.ttl >= r.chunk[d].left + Spare /\ r.chunk[d].left \in Nat
    BY <1>4, <2>1, <2>4 DEF SearchInTime, ChunkInTime, Chunk
  <2> QED  BY <1>8, <2>4, <2>5
<1>11. m.owner = w /\ m.ttl = l.ttl - 1
  <2>1. l.ttl > 1
    BY <1>4, <1>5, <1>8, <1>9, <1>10
  <2> QED  BY <1>3, <1>9, <2>1
<1>12. ASSUME r.phase = "searching" PROVE SearchInTime(x, m)
  <2>1. SearchInTime(r, l)
    BY <1>9, <1>12
  <2>2. x.since < MinInterval => m.ttl + x.since >= TTL[key] - Latency
    BY <1>4, <1>6, <1>8, <1>11, <2>1 DEF SearchInTime
  <2>3. x.renewal.state # "none" => \E c \in Chunks : x.chunk[c].waits
    BY <1>6, <1>7, <2>1 DEF SearchInTime
  <2>4. Occupied(x) = Occupied(r)
    BY <1>7 DEF Occupied
  <2>5. ASSUME NEW c \in Chunks PROVE ChunkInTime(x, c, m)
    <3>1. ChunkInTime(r, c, l) /\ r.chunk[c].left \in Nat
      BY <1>4, <2>1 DEF SearchInTime, Chunk
    <3>2. ~MayStart(x, c)
      BY <1>5, <1>7, <2>4 DEF MayStart, Occupied
    <3>3. x.chunk[c].left <= QueryTime
      BY <1>7, <1>8, <3>1 DEF ChunkInTime
    <3>4. ~x.chunk[c].waits /\ x.chunk[c].stage \in Queries => m.ttl >= x.chunk[c].left + Spare
      BY <1>5, <1>7, <1>8, <1>11, <3>1 DEF ChunkInTime
    <3> HIDE DEF x, r, m, Later
    <3> QED  BY <1>6, <1>7, <3>1, <3>2, <3>3, <3>4 DEF ChunkInTime
  <2> QED  BY <2>2, <2>3, <2>5 DEF SearchInTime
<1>13. /\ x.renewal.state = "none" => m.ttl >= Spare
       /\ x.renewal.state = "sent" => m.ttl + x.renewal.age >= Spare
       /\ x.renewal.state = "renewed" => m.ttl + x.renewal.age >= TTL[key]
  BY <1>4, <1>6, <1>8, <1>9, <1>10, <1>11
<1> HIDE DEF x, r, m, age, since, chunk
<1> QED  BY <1>6, <1>9, <1>11, <1>12, <1>13 DEF InTime, x, m

(* Every step keeps it. *)
LEMMA HealthyKept == ShortQueries /\ LeaseInv /\ Healthy /\ [RetentionNext]_retentionVars => Healthy'
<1> SUFFICES ASSUME ShortQueries, LeaseInv, Healthy, [RetentionNext]_retentionVars PROVE Healthy'
  OBVIOUS
<1>1. CASE UNCHANGED retentionVars
  BY <1>1 DEF Healthy, retentionVars
<1>2. ASSUME NEW w \in Workers, RetentionFaultSteps(w) PROVE Healthy'
  <2>1. retentionFaults' = retentionFaults + 1
    BY <1>2 DEF RetentionFaultSteps, BeginErrs, RenewalErrs, ReleaseErrs, DeleteBreaksOff, Dies, Stalls, Fails
  <2> QED  BY <2>1 DEF Healthy
<1>3. ASSUME RetentionNext, \A w \in Workers : ~RetentionFaultSteps(w) PROVE retentionFaults' = retentionFaults
  BY <1>3 DEF RetentionNext, Begin, RunSteps, ChunkSteps, StartQuery, RowArrives, CandidatesEnd,
              EnrichmentEnds, EnrichmentFails, At, RedisEvaluates, RenewalAnswered, SearchEnds,
              DeleteEnds, Release, Tick
<1>4. ASSUME RetentionNext, \A w \in Workers : ~RetentionFaultSteps(w) PROVE Healthy'
  <2>1. CASE retentionFaults = 0
    BY <1>4, <2>1, WorkersStayInTime, TickStaysInTime DEF RetentionNext
  <2>2. CASE retentionFaults # 0
    BY <1>3, <1>4, <2>2 DEF Healthy
  <2> QED  BY <2>1, <2>2
<1> QED  BY <1>1, <1>2, <1>4

(* It holds at first, as nobody runs, and a healthy run has the lock. *)
LEMMA NobodySweeps ==
  RetentionInit => retentionFaults = 0 /\ \A w \in Workers : sweep[w].phase = "idle"
  BY DEF RetentionInit, Idle

LEMMA HealthyInit == RetentionInit => Healthy
  BY NobodySweeps, RestingInTime DEF Healthy, AtWork

LEMMA HealthyKeepsLease == LeaseInv /\ Healthy => LeaseKept
<1> SUFFICES ASSUME LeaseInv, Healthy, retentionFaults = 0, NEW w \in Workers,
                    sweep[w].phase \in {"searching", "renewing", "deleting"}
             PROVE  Owns(w, RetentionKey)
  BY DEF LeaseKept
<1>1. Lease(w, sweep[w], lock[RetentionKey]) /\ InTime(w, sweep[w], lock[RetentionKey])
  BY DEF LeaseInv, Healthy
<1> QED  BY <1>1 DEF Lease, InTime, AtWork, Owns

(* src/worker/src/utils/PeriodicExclusiveRunner.ts, extendLockOnProgress:  *)
(* renewing at most every third of the time to live, and only when a query *)
(* yields or ends, keeps the lock through the whole run, as long as the    *)
(* timeouts are set such that a query which begins just before the next    *)
(* renewal is due leaves time for it (ShortQueries).                       *)
THEOREM LeaseIsKept == ASSUME ShortQueries PROVE RetentionSpec => []LeaseKept
<1>1. ShortQueries
  OBVIOUS
<1>2. LeaseInv /\ Healthy /\ [RetentionNext]_retentionVars => LeaseInv' /\ Healthy'
  BY <1>1, HealthyKept, LeaseInvKept
<1> QED  BY <1>2, HealthyInit, HealthyKeepsLease, LeaseInvInit, PTL DEF RetentionSpec

-----------------------------------------------------------------------------
(* What a command, the clock or a death makes of a lock is a lock: nobody  *)
(* holds one that is not set, and none lasts longer than its time to live. *)
LEMMA LockStaysTyped ==
  ASSUME LockTypeOK, NEW k \in Keys, NEW w \in Workers \cup {Gone},
         lock' \in {lock, Acquired(w, k), Extended(w, k), Released(w, k), Orphaned(w, k), Elapsed(k),
                    [lock EXCEPT ![k] = Unlocked]}
  PROVE  LockTypeOK'
<1> DEFINE LockOK(j, l) == l \in LockValue /\ l.ttl <= TTL[j] /\ (l.ttl = 0 <=> l.owner = NoOwner)
<1>1. /\ lock \in [Keys -> LockValue] /\ TTL[k] \in Nat \ {0} /\ w # NoOwner /\ Gone # NoOwner
      /\ \A j \in Keys : LockOK(j, lock[j]) /\ TTL[j] \in Nat
  BY LockAssumption DEF LockTypeOK, IsFree, LockValue
<1>2. ASSUME NEW x, LockOK(k, x), lock' = [lock EXCEPT ![k] = x] PROVE LockTypeOK'
  <2>1. lock' \in [Keys -> LockValue] /\ \A j \in Keys : LockOK(j, lock'[j])
    BY <1>1, <1>2
  <2> QED  BY <2>1 DEF LockTypeOK, IsFree, LockValue
<1>3. LockOK(k, Unlocked)
  BY <1>1 DEF Unlocked, LockValue
<1>4. LockOK(k, [owner |-> w, ttl |-> TTL[k]])
  BY <1>1 DEF LockValue
<1>5. lock[k].owner = w => LockOK(k, [lock[k] EXCEPT !.owner = Gone])
  BY <1>1 DEF LockValue
<1>6. lock[k].ttl > 1 => LockOK(k, [owner |-> lock[k].owner, ttl |-> lock[k].ttl - 1])
  BY <1>1 DEF LockValue
<1>7. lock' = lock => LockTypeOK'
  BY DEF LockTypeOK, IsFree
<1> HIDE DEF LockOK
<1>8. lock' = Acquired(w, k) => LockTypeOK'
  BY <1>2, <1>4 DEF Acquired
<1>9. lock' = [lock EXCEPT ![k] = Unlocked] => LockTypeOK'
  BY <1>2, <1>3
<1>10. lock' = Orphaned(w, k) => LockTypeOK'
  <2>1. Orphaned(w, k) = IF lock[k].owner = w THEN [lock EXCEPT ![k] = [lock[k] EXCEPT !.owner = Gone]] ELSE lock
    BY DEF Orphaned, Owns
  <2> QED  BY <1>2, <1>5, <1>7, <2>1
<1>11. lock' = Elapsed(k) => LockTypeOK'
  <2>1. CASE lock[k].ttl <= 1
    BY <1>9, <2>1 DEF Elapsed
  <2>2. CASE ~(lock[k].ttl <= 1)
    <3>1. lock[k].ttl > 1
      BY <1>1, <2>2 DEF LockValue
    <3> QED  BY <1>2, <1>6, <2>2, <3>1 DEF Elapsed
  <2> QED  BY <2>1, <2>2
<1> QED  BY <1>7, <1>8, <1>9, <1>10, <1>11 DEF Extended, Released

(* What the types say beyond LeaseInv: no clock of a run shows more than   *)
(* it was set to.                                                          *)
RunWithin(r) ==
  r.since <= MinInterval /\ r.left <= DeleteTime /\ \A c \in Chunks : r.chunk[c].left <= QueryTime

RetentionBounds ==
  /\ LockTypeOK
  /\ \A w \in Workers : RunWithin(sweep[w]) /\ strayDelete[w] <= DeleteTime + Grace
  /\ brokenOff \in [Workers -> 0..(DeleteTime + Grace)]
  /\ retentionFaults \in 0..MaxRetentionFaults

(* That is all the types say. *)
LEMMA TypesOfRetention == LeaseInv /\ RetentionBounds => RetentionTypeOK
<1> SUFFICES ASSUME LeaseInv, RetentionBounds PROVE RetentionTypeOK
  OBVIOUS
<1> DEFINE Stages == {"queued", "discovered", "failed", "enriched", "done"} \cup Queries
           ChunksOK == [Chunks -> [stage : Stages, left : 0..QueryTime, found : BOOLEAN, waits : BOOLEAN]]
           Renewals == [state : {"none", "sent", "renewed", "refused"}, age : 0..Latency]
           RunsOK == [phase : {"idle", "searching", "renewing", "deleting", "releasing"},
                      since : 0..MinInterval, renewal : Renewals, leaseLost : BOOLEAN,
                      left : 0..DeleteTime, chunk : ChunksOK]
<1>1. /\ MinInterval \in Nat /\ QueryTime \in Nat /\ DeleteTime \in Nat /\ Grace \in Nat /\ Latency \in Nat
      /\ sweep \in [Workers -> Run] /\ strayDelete \in [Workers -> Nat]
  BY TimeToLive, IntervalNat DEF LeaseInv, RetentionTypes
<1>2. ASSUME NEW w \in Workers PROVE sweep[w] \in RunsOK
  <2> DEFINE r == sweep[w]
  <2>1. r \in Run /\ RunWithin(r) /\ r.renewal.age <= Latency
    BY <1>1 DEF LeaseInv, Lease, RetentionBounds
  <2>2. ASSUME NEW c \in Chunks
        PROVE  r.chunk[c] \in [stage : Stages, left : 0..QueryTime, found : BOOLEAN, waits : BOOLEAN]
    <3>1. r.chunk[c] \in Chunk /\ r.chunk[c].left \in 0..QueryTime
      BY <1>1, <2>1 DEF Run, RunWithin, Chunk
    <3> QED  BY <3>1 DEF Chunk
  <2>3. r.chunk \in ChunksOK
    BY <2>1, <2>2 DEF Run
  <2>4. r.renewal \in Renewals
    BY <1>1, <2>1 DEF Run
  <2>5. r.since \in 0..MinInterval /\ r.left \in 0..DeleteTime
    BY <1>1, <2>1 DEF Run, RunWithin
  <2> HIDE DEF r, ChunksOK, Renewals
  <2> QED  BY <2>1, <2>3, <2>4, <2>5 DEF Run, r
<1>3. sweep \in [Workers -> RunsOK]
  <2> HIDE DEF RunsOK
  <2> QED  BY <1>1, <1>2
<1>4. strayDelete \in [Workers -> 0..(DeleteTime + Grace)]
  BY <1>1 DEF RetentionBounds
<1>5. {strayDelete, brokenOff} \subseteq [Workers -> 0..(DeleteTime + Grace)]
  BY <1>4 DEF RetentionBounds
<1> QED  BY <1>3, <1>5, Zenon DEF RetentionTypeOK, RetentionBounds

(* A chunk that goes on has the time of one query at most. *)
LEMMA ContinuedWithin ==
  ASSUME NEW chunk \in Chunk, NEW lost, chunk.left <= QueryTime
  PROVE  Continued(chunk, lost).left <= QueryTime
<1>1. QueryTime \in Nat
  BY TimeToLive
<1> DEFINE y(stage, left) == [chunk EXCEPT !.stage = stage, !.left = left]
<1>2. \/ Continued(chunk, lost) = chunk
      \/ Continued(chunk, lost) = y("enriching", QueryTime)
      \/ Continued(chunk, lost) = y("retrying", QueryTime)
      \/ Continued(chunk, lost) = y("done", 0)
  BY DEF Continued
<1>3. y("enriching", QueryTime).left = QueryTime /\ y("retrying", QueryTime).left = QueryTime /\ y("done", 0).left = 0
  BY DEF Chunk
<1> HIDE DEF y
<1> QED  BY <1>1, <1>2, <1>3

(* What one chunk becomes. *)
LEMMA ChunkWithin ==
  ASSUME NEW r \in Run, RunWithin(r), NEW c \in Chunks, NEW y, y.left <= QueryTime, NEW renewal
  PROVE  /\ RunWithin([r EXCEPT !.chunk = [r.chunk EXCEPT ![c] = y]])
         /\ RunWithin([r EXCEPT !.chunk = [r.chunk EXCEPT ![c] = y], !.renewal = renewal])
<1> DEFINE f == [r.chunk EXCEPT ![c] = y]
<1>1. \A d \in Chunks : f[d].left <= QueryTime
  BY DEF Run, RunWithin
<1> HIDE DEF f
<1>2. RunWithin([r EXCEPT !.chunk = f]) /\ RunWithin([r EXCEPT !.chunk = f, !.renewal = renewal])
  BY <1>1 DEF Run, RunWithin
<1> QED  BY <1>2 DEF f

(* A renewal is no matter of these clocks, and who rests has none. *)
LEMMA PlainRuns ==
  /\ RunWithin(Idle) /\ RunWithin(Releasing)
  /\ \A chunks : RunWithin(Fresh(chunks))
  /\ RunWithin([Idle EXCEPT !.phase = "deleting", !.left = DeleteTime])
  /\ RunWithin([Idle EXCEPT !.phase = "renewing", !.renewal.state = "sent"])
<1>1. MinInterval \in Nat /\ QueryTime \in Nat /\ DeleteTime \in Nat
  BY TimeToLive, IntervalNat
<1>2. Idle.since = 0 /\ Idle.left = 0 /\ \A c \in Chunks : Idle.chunk[c].left = 0
  BY DEF Idle
<1>3. RunWithin(Idle) /\ RunWithin(Releasing)
  BY <1>1 DEF RunWithin, Idle, Releasing
<1>4. RunWithin([Idle EXCEPT !.phase = "deleting", !.left = DeleteTime])
  BY <1>1 DEF RunWithin, Idle
<1>5. RunWithin([Idle EXCEPT !.phase = "renewing", !.renewal.state = "sent"])
  BY <1>1 DEF RunWithin, Idle
<1>6. ASSUME NEW chunks PROVE RunWithin(Fresh(chunks))
  BY <1>1 DEF Fresh, Idle, RunWithin
<1> QED  BY <1>3, <1>4, <1>5, <1>6

(* One run becomes x. *)
LEMMA OneRunWithin ==
  ASSUME LeaseInv, RetentionBounds, NEW w \in Workers, NEW x, RunWithin(x),
         sweep' = sweep \/ sweep' = [sweep EXCEPT ![w] = x],
         LockTypeOK', \A v \in Workers : strayDelete'[v] <= DeleteTime + Grace,
         brokenOff' \in [Workers -> 0..(DeleteTime + Grace)],
         retentionFaults' \in 0..MaxRetentionFaults
  PROVE  RetentionBounds'
<1>1. \A v \in Workers : sweep'[v] = sweep[v] \/ sweep'[v] = x
  BY DEF LeaseInv, RetentionTypes
<1> QED  BY <1>1, Zenon DEF RetentionBounds, RunWithin

(* Every step of a worker keeps the bounds. *)
LEMMA WorkersStayWithin ==
  ASSUME LeaseInv, RetentionBounds, NEW w \in Workers, Begin(w) \/ RunSteps(w) \/ RetentionFaultSteps(w)
  PROVE  RetentionBounds'
<1> DEFINE key == RetentionKey
           r == sweep[w]
<1>0. /\ sweep \in [Workers -> Run] /\ r \in Run /\ RunWithin(r) /\ LockTypeOK /\ key \in Keys
      /\ retentionFaults \in 0..MaxRetentionFaults /\ MaxRetentionFaults \in Nat
      /\ DeleteTime \in Nat /\ Grace \in Nat /\ QueryTime \in Nat
      /\ \A v \in Workers : strayDelete[v] <= DeleteTime + Grace
      /\ brokenOff \in [Workers -> 0..(DeleteTime + Grace)]
  BY TimeToLive, RetentionAssumption DEF LeaseInv, RetentionTypes, RetentionBounds
<1>a. Fails => retentionFaults' \in 0..MaxRetentionFaults
  BY <1>0 DEF Fails
<1>b. lock' = lock => LockTypeOK'
  BY <1>0 DEF LockTypeOK, IsFree
<1>c. ASSUME NEW x, RunWithin(x), sweep' = sweep \/ Becomes(w, x), UNCHANGED <<strayDelete, brokenOff>>,
             LockTypeOK', Fails \/ UNCHANGED retentionFaults
      PROVE  RetentionBounds'
  <2>1. retentionFaults' \in 0..MaxRetentionFaults
    BY <1>0, <1>a, <1>c
  <2> QED  BY <1>0, <1>c, <2>1, OneRunWithin DEF Becomes
<1>d. Remaining(w) \in 0..(DeleteTime + Grace)
  BY <1>0 DEF Remaining, Run, RunWithin
<1>1. CASE Begin(w)
  <2>1. PICK chunks : Becomes(w, Fresh(chunks))
    BY <1>1 DEF Begin
  <2>2. LockTypeOK'
    BY <1>0, <1>1, LockStaysTyped DEF Begin
  <2> QED  BY <1>1, <1>c, <2>1, <2>2, PlainRuns DEF Begin
<1>2. CASE BeginErrs(w)
  <2>1. LockTypeOK'
    BY <1>0, <1>2, LockStaysTyped DEF BeginErrs
  <2> QED  BY <1>0, <1>2, <1>c, <2>1 DEF BeginErrs
<1>3. ASSUME NEW c \in Chunks, StartQuery(w, c) PROVE RetentionBounds'
  <2> DEFINE y == IF r.leaseLost THEN [r.chunk[c] EXCEPT !.stage = "done"]
                  ELSE [r.chunk[c] EXCEPT !.stage = "candidates", !.left = QueryTime]
             x == [r EXCEPT !.chunk = [r.chunk EXCEPT ![c] = y]]
  <2>1. Becomes(w, x) /\ UNCHANGED <<lock, strayDelete, brokenOff, retentionFaults>>
    BY <1>3 DEF StartQuery, At
  <2>2. y.left <= QueryTime
    BY <1>0 DEF Run, RunWithin, Chunk
  <2> HIDE DEF y
  <2>3. RunWithin(x)
    BY <1>0, <2>2, ChunkWithin
  <2> QED  BY <1>b, <1>c, <2>1, <2>3
<1>4. ASSUME NEW c \in Chunks, ChunkSteps(w, c), ~StartQuery(w, c) PROVE RetentionBounds'
  <2>1. PICK stage \in {"discovered", "failed", "enriched"} \cup Queries, found \in BOOLEAN, force \in BOOLEAN :
          Becomes(w, Progressed(r, c, stage, found, force))
    <3>1. r.chunk[c].found \in BOOLEAN /\ "candidates" \in Queries
      BY <1>0 DEF Run, Chunk, Queries
    <3> QED  BY <1>4, <3>1 DEF ChunkSteps, RowArrives, CandidatesEnd, EnrichmentEnds, EnrichmentFails
  <2> DEFINE x == Progressed(r, c, stage, found, force)
             chunk == [r.chunk[c] EXCEPT !.stage = stage, !.found = found]
             renewal == IF r.renewal.state = "none" THEN [r.renewal EXCEPT !.state = "sent"] ELSE r.renewal
             y == IF ~force /\ r.since < MinInterval THEN Continued(chunk, r.leaseLost)
                  ELSE [chunk EXCEPT !.waits = TRUE]
  <2>2. chunk \in Chunk /\ chunk.left <= QueryTime
    <3>1. r.chunk[c] \in Chunk /\ r.chunk[c].left <= QueryTime
      BY <1>0 DEF Run, RunWithin
    <3> QED  BY <3>1 DEF Chunk
  <2>3. Continued(chunk, r.leaseLost).left <= QueryTime /\ [chunk EXCEPT !.waits = TRUE].left = chunk.left
    BY <2>2, ContinuedWithin DEF Chunk
  <2>4. y.left <= QueryTime
    BY <2>2, <2>3
  <2>5. \/ x = [r EXCEPT !.chunk = [r.chunk EXCEPT ![c] = y]]
        \/ x = [r EXCEPT !.chunk = [r.chunk EXCEPT ![c] = y], !.renewal = renewal]
    BY DEF Progressed
  <2> HIDE DEF x, y, renewal
  <2>6. RunWithin(x)
    <3>1. r \in Run /\ RunWithin(r)
      BY <1>0
    <3> HIDE DEF r
    <3>2. /\ RunWithin([r EXCEPT !.chunk = [r.chunk EXCEPT ![c] = y]])
          /\ RunWithin([r EXCEPT !.chunk = [r.chunk EXCEPT ![c] = y], !.renewal = renewal])
      BY <2>4, <3>1, ChunkWithin
    <3> QED  BY <2>5, <3>2
  <2>7. Becomes(w, x) /\ UNCHANGED <<lock, strayDelete, brokenOff, retentionFaults>>
    BY <1>4, <2>1 DEF ChunkSteps, StartQuery, RowArrives, CandidatesEnd, EnrichmentEnds,
       EnrichmentFails, At, x
  <2> QED  BY <1>b, <1>c, <2>6, <2>7
<1>5. CASE RedisEvaluates(w) \/ RenewalErrs(w)
  <2>1. PICK s : Becomes(w, [r EXCEPT !.renewal.state = s])
    BY <1>5 DEF RedisEvaluates, RenewalErrs
  <2>2. RunWithin([r EXCEPT !.renewal.state = s])
    BY <1>0 DEF Run, RunWithin
  <2>3. LockTypeOK'
    BY <1>0, <1>5, LockStaysTyped DEF RedisEvaluates, RenewalErrs
  <2> QED  BY <1>5, <1>c, <2>1, <2>2, <2>3 DEF RedisEvaluates, RenewalErrs
<1>6. CASE RenewalAnswered(w)
  <2> DEFINE f(lost) == [c \in Chunks |->
                           CASE ~r.chunk[c].waits -> r.chunk[c]
                             [] r.chunk[c].waits /\ lost -> Idle.chunk[c]
                             [] OTHER -> [Continued(r.chunk[c], r.leaseLost) EXCEPT !.waits = FALSE]]
             Answered(lost) ==
               [r EXCEPT !.renewal = NoRenewal, !.leaseLost = r.leaseLost \/ lost, !.chunk = f(lost)]
  <2>1. /\ UNCHANGED <<lock, strayDelete, brokenOff, retentionFaults>>
        /\ \/ Becomes(w, [Idle EXCEPT !.phase = "deleting", !.left = DeleteTime])
           \/ Becomes(w, [Answered(FALSE) EXCEPT !.since = 0])
           \/ Becomes(w, Releasing)
           \/ Becomes(w, Answered(TRUE))
    BY <1>6 DEF RenewalAnswered
  <2>2. ASSUME NEW lost \in BOOLEAN, NEW c \in Chunks PROVE f(lost)[c].left <= QueryTime
    <3>1. /\ r.chunk[c] \in Chunk /\ r.chunk[c].left <= QueryTime /\ Idle.chunk[c].left <= QueryTime
          /\ Continued(r.chunk[c], r.leaseLost).left <= QueryTime
      BY <1>0, PlainRuns, ContinuedWithin DEF Run, RunWithin
    <3>2. Continued(r.chunk[c], r.leaseLost) \in Chunk
      BY <1>0, <3>1, ChunkGoesOn DEF Run
    <3>3. [Continued(r.chunk[c], r.leaseLost) EXCEPT !.waits = FALSE].left = Continued(r.chunk[c], r.leaseLost).left
      BY <3>2 DEF Chunk
    <3>4. f(lost)[c] \in {r.chunk[c], Idle.chunk[c], [Continued(r.chunk[c], r.leaseLost) EXCEPT !.waits = FALSE]}
      OBVIOUS
    <3> HIDE DEF f
    <3> QED  BY <3>1, <3>3, <3>4
  <2> HIDE DEF f
  <2>3. ASSUME NEW lost \in BOOLEAN
        PROVE  RunWithin(Answered(lost)) /\ RunWithin([Answered(lost) EXCEPT !.since = 0])
    <3>1. /\ Answered(lost).since = r.since /\ Answered(lost).left = r.left /\ Answered(lost).chunk = f(lost)
          /\ [Answered(lost) EXCEPT !.since = 0].since = 0
          /\ [Answered(lost) EXCEPT !.since = 0].left = r.left
          /\ [Answered(lost) EXCEPT !.since = 0].chunk = f(lost)
      BY <1>0 DEF Run
    <3> QED  BY <1>0, <2>2, <3>1, IntervalNat DEF RunWithin
  <2> HIDE DEF Answered
  <2>4. /\ RunWithin([Answered(FALSE) EXCEPT !.since = 0]) /\ RunWithin(Answered(TRUE))
        /\ RunWithin([Idle EXCEPT !.phase = "deleting", !.left = DeleteTime]) /\ RunWithin(Releasing)
    BY <2>3, PlainRuns
  <2> QED  BY <1>b, <1>c, <2>1, <2>4
<1>7. CASE SearchEnds(w)
  <2>1. /\ Becomes(w, Releasing) \/ Becomes(w, [Idle EXCEPT !.phase = "renewing", !.renewal.state = "sent"])
        /\ UNCHANGED <<lock, strayDelete, brokenOff, retentionFaults>>
    BY <1>7 DEF SearchEnds
  <2> QED  BY <1>b, <1>c, <2>1, PlainRuns
<1>8. CASE DeleteEnds(w)
  BY <1>8, <1>b, <1>c, PlainRuns DEF DeleteEnds
<1>9. CASE Release(w) \/ ReleaseErrs(w)
  <2>1. LockTypeOK'
    BY <1>0, <1>9, LockStaysTyped DEF Release, ReleaseErrs
  <2> QED  BY <1>9, <1>c, <2>1, PlainRuns DEF Release, ReleaseErrs
<1>10. CASE Dies(w)
  <2>1. LockTypeOK'
    BY <1>0, <1>10, LockStaysTyped DEF Dies
  <2>2. retentionFaults' \in 0..MaxRetentionFaults
    BY <1>10, <1>a DEF Dies
  <2>3. strayDelete \in [Workers -> Nat] /\ UNCHANGED brokenOff
    BY <1>10 DEF LeaseInv, RetentionTypes, Dies
  <2>4. Max({strayDelete[w], Remaining(w)}) <= DeleteTime + Grace
    <3>1. strayDelete[w] \in Int /\ Remaining(w) \in Int
      BY <1>d, <2>3
    <3> QED  BY <1>0, <1>d, <2>3, <3>1, MaxOfTwo
  <2>5. \A v \in Workers : strayDelete'[v] <= DeleteTime + Grace
    BY <1>0, <1>10, <2>3, <2>4 DEF Dies
  <2> QED  BY <1>0, <1>10, <2>1, <2>2, <2>3, <2>5, PlainRuns, OneRunWithin DEF Dies, Becomes
<1>11. CASE Stalls(w)
  <2> DEFINE f == [c \in Chunks |-> [r.chunk[c] EXCEPT !.left = 0]]
             x == [r EXCEPT !.since = MinInterval, !.chunk = f]
  <2>1. Becomes(w, x)
    BY <1>11 DEF Stalls
  <2>2. \A c \in Chunks : f[c].left = 0
    BY <1>0 DEF Run, Chunk
  <2> HIDE DEF f
  <2>3. x.since = MinInterval /\ x.left = r.left /\ x.chunk = f
    BY <1>0 DEF Run
  <2> HIDE DEF x
  <2>4. RunWithin(x)
    BY <1>0, <2>2, <2>3, IntervalNat DEF RunWithin
  <2>5. LockTypeOK'
    BY <1>0, <1>11, LockStaysTyped DEF Stalls
  <2> QED  BY <1>11, <1>c, <2>1, <2>4, <2>5 DEF Stalls
<1>12. CASE DeleteBreaksOff(w)
  <2>1. retentionFaults' \in 0..MaxRetentionFaults /\ Becomes(w, Releasing) /\ UNCHANGED <<lock, strayDelete>>
    BY <1>12, <1>a DEF DeleteBreaksOff
  <2>2. Max({brokenOff[w], Remaining(w)}) \in 0..(DeleteTime + Grace)
    <3>1. brokenOff[w] \in Int /\ Remaining(w) \in Int
      BY <1>0, <1>d
    <3> QED  BY <1>0, <1>d, <3>1, MaxOfTwo
  <2>3. brokenOff' = [brokenOff EXCEPT ![w] = Max({brokenOff[w], Remaining(w)})]
    BY <1>12 DEF DeleteBreaksOff
  <2>4. brokenOff' \in [Workers -> 0..(DeleteTime + Grace)]
    BY <1>0, <2>2, <2>3
  <2> QED  BY <1>0, <1>b, <2>1, <2>4, PlainRuns, OneRunWithin DEF Becomes
<1> QED
  BY <1>1, <1>2, <1>3, <1>4, <1>5, <1>6, <1>7, <1>8, <1>9, <1>10, <1>11, <1>12
  DEF RunSteps, RetentionFaultSteps

(* ... and so does the clock, on which renewals alone grow older. *)
LEMMA TickStaysWithin == LeaseInv /\ RetentionBounds /\ Tick => RetentionBounds'
<1> SUFFICES ASSUME LeaseInv, RetentionBounds, Tick PROVE RetentionBounds'
  OBVIOUS
<1> DEFINE Later(n) == IF n = 0 THEN 0 ELSE n - 1
           f(w) == [c \in Chunks |-> [sweep[w].chunk[c] EXCEPT !.left = Later(sweep[w].chunk[c].left)]]
           since(w) == IF sweep[w].since < MinInterval THEN sweep[w].since + 1 ELSE sweep[w].since
           age(w) == IF sweep[w].renewal.state = "none" THEN 0 ELSE sweep[w].renewal.age + 1
<1>0. /\ sweep \in [Workers -> Run] /\ LockTypeOK /\ RetentionKey \in Keys
      /\ strayDelete \in [Workers -> Nat]
      /\ MinInterval \in Nat /\ DeleteTime \in Nat /\ Grace \in Nat /\ QueryTime \in Nat
      /\ brokenOff \in [Workers -> 0..(DeleteTime + Grace)]
      /\ retentionFaults' \in 0..MaxRetentionFaults
  BY TimeToLive, IntervalNat DEF LeaseInv, RetentionTypes, RetentionBounds, Tick
<1>1. LockTypeOK'
  <2>1. lock' = Elapsed(RetentionKey)
    BY DEF Tick
  <2> QED  BY <1>0, <2>1, LockStaysTyped
<1>2. ASSUME NEW w \in Workers PROVE RunWithin(sweep[w])' /\ strayDelete'[w] <= DeleteTime + Grace
  <2> DEFINE x == [sweep[w] EXCEPT !.left = Later(sweep[w].left), !.since = since(w),
                                   !.renewal.age = age(w), !.chunk = f(w)]
  <2>1. sweep'[w] = x /\ strayDelete'[w] = Later(strayDelete[w])
    BY DEF Tick
  <2>2. sweep[w] \in Run /\ RunWithin(sweep[w]) /\ strayDelete[w] \in Nat /\ strayDelete[w] <= DeleteTime + Grace
    BY <1>0 DEF RetentionBounds
  <2>3. ASSUME NEW c \in Chunks PROVE f(w)[c].left <= QueryTime
    BY <1>0, <2>2 DEF Run, Chunk, RunWithin
  <2>4. since(w) <= MinInterval /\ Later(sweep[w].left) <= DeleteTime /\ Later(strayDelete[w]) <= DeleteTime + Grace
    BY <1>0, <2>2 DEF Run, RunWithin
  <2> HIDE DEF f, since, Later, age
  <2>5. x.since = since(w) /\ x.left = Later(sweep[w].left) /\ x.chunk = f(w)
    BY <2>2 DEF Run
  <2> HIDE DEF x
  <2> QED  BY <2>1, <2>3, <2>4, <2>5 DEF RunWithin
<1>3. brokenOff' \in [Workers -> 0..(DeleteTime + Grace)]
  <2>1. brokenOff' = [w \in Workers |-> Later(brokenOff[w])]
    BY Zenon DEF Tick
  <2> QED  BY <1>0, <2>1
<1> QED  BY <1>0, <1>1, <1>2, <1>3 DEF RetentionBounds

(* Every step keeps the bounds. *)
LEMMA RetentionBoundsKept == LeaseInv /\ RetentionBounds /\ [RetentionNext]_retentionVars => RetentionBounds'
<1>1. LeaseInv /\ RetentionBounds /\ UNCHANGED retentionVars => RetentionBounds'
  BY DEF RetentionBounds, retentionVars, LockTypeOK, IsFree, RunWithin
<1> QED  BY <1>1, WorkersStayWithin, TickStaysWithin DEF RetentionNext

(* They hold at first. *)
LEMMA RetentionBoundsHold == RetentionInit => RetentionBounds
<1> SUFFICES ASSUME RetentionInit PROVE RetentionBounds
  OBVIOUS
<1>1. LockTypeOK
  BY LockAssumption DEF RetentionInit, LockInit, Unlocked, LockTypeOK, IsFree
<1> QED  BY <1>1, PlainRuns, RetentionAssumption, TimeToLive DEF RetentionInit, RetentionBounds

(* The clocks of a run, its renewals and the lock keep to their ranges. *)
THEOREM RetentionIsTyped == RetentionSpec => []RetentionTypeOK
<1>1. RetentionInit => LeaseInv /\ RetentionBounds
  BY LeaseInvInit, RetentionBoundsHold
<1>2. LeaseInv /\ RetentionBounds /\ [RetentionNext]_retentionVars => LeaseInv' /\ RetentionBounds'
  BY LeaseInvKept, RetentionBoundsKept
<1> QED  BY <1>1, <1>2, TypesOfRetention, PTL DEF RetentionSpec

-----------------------------------------------------------------------------
(* The rows, without the bounds of the model. *)
BatchRows ==
  [request : Nat, pages : Nat, status : {"none", "Queued", "Processing", "Completed", "Failed"},
   page : Nat, processed : Nat, failures : Nat]

BatchJobs ==
  [phase : {"idle", "picking", "reading", "deleting", "extending", "selecting", "committing",
            "writing", "failing", "releasing"},
   action : Actions, state : BatchRows, then : {"reading", "deleting", "releasing", "recorded"},
   batches : Nat, held : BOOLEAN]

(* What a row, a run and the lock may be. *)
BatchTypes ==
  /\ lock \in [Keys -> LockValue]
  /\ batchAction \in [Actions -> BatchRows]
  /\ gonePages \in [Actions -> SUBSET Nat]
  /\ job \in [Workers -> BatchJobs]
  /\ overtaken \in [Actions -> {"no", "wrote", "crossed"}]

(* NothingSkipped of one row, and that its page is one of the query's. *)
Complete(row, gone) ==
  /\ row.page <= row.pages
  /\ 1..(IF row.status = "Completed" THEN row.pages ELSE row.processed) \subseteq gone
  /\ row.status = "Completed" => row.processed = row.pages
  /\ row.status # "Completed" => row.processed = IF row.page = 0 THEN 0 ELSE row.page - 1

(* ... unless one request's state got into another. *)
RowComplete(a) == overtaken[a] # "crossed" => Complete(batchAction[a], gonePages[a])

(* The phases in which a run carries a state. *)
Carries(w) == job[w].phase \in {"deleting", "extending", "selecting", "committing", "writing"}

(* The phases in which a run is at a page that is stored. *)
AtPage(w) == job[w].phase \in {"deleting", "extending", "selecting"}

(* A run that carries a state of the row's present request carries a       *)
(* complete one.                                                           *)
CarriesComplete(w) ==
  LET a == job[w].action
      state == job[w].state
  IN  state.request = batchAction[a].request =>
        /\ state.pages = batchAction[a].pages
        /\ overtaken[a] # "crossed" =>
             /\ Complete(state, gonePages[a])
             /\ job[w].phase \in {"extending", "selecting"} => state.page \in gonePages[a]

(* A run carries no state of a later request, and one it deletes for is    *)
(* being processed; and it writes only what it found itself the owner for. *)
StateInv(w) ==
  LET a == job[w].action
      state == job[w].state
  IN  /\ Carries(w) \/ job[w].phase \in {"reading", "failing"} => batchAction[a].status # "none"
      /\ Carries(w) => /\ state.request <= batchAction[a].request /\ state.status # "none"
                       /\ CarriesComplete(w)
      /\ AtPage(w) \/ (Carries(w) /\ job[w].then = "deleting") =>
           state.status = "Processing" /\ state.page # 0
      /\ Carries(w) /\ job[w].then = "reading" => state.status = "Processing"
      /\ job[w].phase = "writing" => job[w].held = TRUE

(* What the lock is good for. *)
OwnerInv(w) ==
  LET a == job[w].action IN
  Owns(w, RunnerKey) /\ overtaken[a] = "no" =>
    /\ Carries(w) => job[w].state.request = batchAction[a].request
    /\ Carries(w) \/ job[w].phase = "reading" => a \in Active

(* The inductive invariant: a row alone does not say what the runs that    *)
(* have read it, and still may write it, will make of it.                  *)
BatchInv ==
  /\ BatchTypes
  /\ \A a \in Actions : RowComplete(a)
  /\ \A w \in Workers : StateInv(w) /\ OwnerInv(w)

-----------------------------------------------------------------------------
(* The constants, one by one. *)
LEMMA BatchConstants ==
  /\ RunnerKey \in Keys /\ MaxBatches \in Nat /\ MaxFailures \in Nat /\ PageCounts \subseteq Nat
  /\ TTL[RunnerKey] \in Nat
  /\ NoOwner \notin Workers /\ Gone \notin Workers
  BY BatchAssumption, LockAssumption

(* The row before the first request, and a worker without a run. *)
LEMMA NoJobTyped ==
  /\ NoRow \in BatchRows
  /\ NoJob \in BatchJobs /\ NoJob.phase = "idle" /\ NoJob.then = "releasing"
<1>1. (CHOOSE a \in Actions : TRUE) \in Actions
  BY BatchAssumption
<1>2. NoRow \in BatchRows
  BY DEF NoRow, BatchRows
<1> QED  BY <1>1, <1>2, Zenon DEF NoJob, BatchJobs

(* RedisLock.ts: every command leaves a lock. *)
LEMMA OwnersTyped ==
  ASSUME BatchTypes, NEW w \in Workers
  PROVE  /\ Acquired(w, RunnerKey) \in [Keys -> LockValue]
         /\ Extended(w, RunnerKey) \in [Keys -> LockValue]
         /\ Released(w, RunnerKey) \in [Keys -> LockValue]
         /\ Orphaned(w, RunnerKey) \in [Keys -> LockValue]
         /\ [lock EXCEPT ![RunnerKey] = Unlocked] \in [Keys -> LockValue]
<1> USE BatchConstants DEF BatchTypes
<1>1. Acquired(w, RunnerKey) \in [Keys -> LockValue]
  BY DEF Acquired, LockValue
<1>2. [lock EXCEPT ![RunnerKey] = Unlocked] \in [Keys -> LockValue]
  BY DEF Unlocked, LockValue
<1>3. Orphaned(w, RunnerKey) \in [Keys -> LockValue]
  BY DEF Orphaned, LockValue
<1> QED  BY <1>1, <1>2, <1>3 DEF Extended, Released

(* What a run commits is a row. *)
LEMMA StatesTyped ==
  ASSUME NEW row \in BatchRows
  PROVE  /\ PageAfter(row) \in Nat /\ PageAfter(row) <= row.pages
         /\ CompletedState(row) \in BatchRows /\ Advanced(row) \in BatchRows
         /\ [row EXCEPT !.status = "Processing", !.page = PageAfter(row)] \in BatchRows
         /\ [row EXCEPT !.status = "Processing"] \in BatchRows
         /\ [row EXCEPT !.status = "Failed"] \in BatchRows
         /\ [row EXCEPT !.failures = row.failures + 1] \in BatchRows
<1>1. PageAfter(row) \in Nat /\ PageAfter(row) <= row.pages
  BY DEF PageAfter, BatchRows
<1>2. /\ CompletedState(row) \in BatchRows
      /\ [row EXCEPT !.status = "Processing", !.page = PageAfter(row)] \in BatchRows
  BY <1>1 DEF CompletedState, BatchRows
<1>3. ASSUME NEW n \in Nat, NEW p \in Nat
      PROVE  [row EXCEPT !.processed = n, !.failures = 0, !.page = p] \in BatchRows
  <2>1. [row EXCEPT !.processed = n, !.failures = 0] \in BatchRows
    BY DEF BatchRows
  <2>2. [[row EXCEPT !.processed = n, !.failures = 0] EXCEPT !.page = p] \in BatchRows
    BY <2>1 DEF BatchRows
  <2> QED  BY <2>2
<1>4. [row EXCEPT !.failures = row.failures + 1] \in BatchRows
  BY DEF BatchRows
<1>5. /\ [row EXCEPT !.status = "Processing"] \in BatchRows
      /\ [row EXCEPT !.status = "Failed"] \in BatchRows
  BY DEF BatchRows
<1>6. Advanced(row) \in BatchRows
  <2>1. row.processed + 1 \in Nat
    BY DEF BatchRows
  <2> QED  BY <1>1, <1>3, <2>1 DEF Advanced
<1> QED  BY <1>1, <1>2, <1>4, <1>5, <1>6

-----------------------------------------------------------------------------
(* What the steps do to the rows and to the runs. *)

(* A run that has given up, or is done. *)
LEMMA ReleasesEffect ==
  ASSUME BatchTypes, NEW w \in Workers, Releases(w)
  PROVE  /\ job' \in [Workers -> BatchJobs]
         /\ job'[w].phase = "releasing"
         /\ \A v \in Workers \ {w} : job'[v] = job[v]
<1>1. [NoJob EXCEPT !.phase = "releasing"] \in BatchJobs
      /\ [NoJob EXCEPT !.phase = "releasing"].phase = "releasing"
  BY NoJobTyped DEF BatchJobs
<1> QED  BY <1>1 DEF Releases, BatchTypes

(* A run in its next phase. *)
LEMMA GoesEffect ==
  ASSUME BatchTypes, NEW w \in Workers, NEW phase, Goes(w, phase),
         phase \in {"picking", "extending", "selecting"}
  PROVE  /\ job' \in [Workers -> BatchJobs]
         /\ job'[w].phase = phase /\ job'[w].action = job[w].action /\ job'[w].state = job[w].state
         /\ job'[w].then = job[w].then
         /\ \A v \in Workers \ {w} : job'[v] = job[v]
  BY DEF Goes, BatchTypes, BatchJobs

(* ... with what it remembers. *)
LEMMA ProceedsEffect ==
  ASSUME BatchTypes, NEW w \in Workers, NEW phase, Proceeds(w, phase),
         phase \in {"reading", "deleting", "failing"}
  PROVE  /\ job' \in [Workers -> BatchJobs]
         /\ job'[w].phase = phase /\ job'[w].action = job[w].action
         /\ phase = "deleting" => job'[w].state = job[w].state
         /\ \A v \in Workers \ {w} : job'[v] = job[v]
<1> DEFINE j == [NoJob EXCEPT !.phase = phase, !.action = job[w].action, !.batches = job[w].batches,
                              !.state = IF phase = "deleting" THEN job[w].state ELSE NoRow]
<1>1. job[w] \in BatchJobs
  BY DEF BatchTypes
<1>2. /\ j \in BatchJobs /\ j.phase = phase /\ j.action = job[w].action
      /\ phase = "deleting" => j.state = job[w].state
  BY <1>1, NoJobTyped DEF BatchJobs
<1>3. job' = [job EXCEPT ![w] = j]
  BY DEF Proceeds
<1> HIDE DEF j
<1> QED  BY <1>2, <1>3 DEF BatchTypes

(* ... with a state to commit. *)
LEMMA CommitsEffect ==
  ASSUME BatchTypes, NEW w \in Workers, NEW state \in BatchRows, NEW then, Commits(w, state, then),
         then \in {"deleting", "releasing", "recorded"}
  PROVE  /\ job' \in [Workers -> BatchJobs]
         /\ job'[w].phase = "committing" /\ job'[w].action = job[w].action /\ job'[w].state = state
         /\ job'[w].then = then
         /\ \A v \in Workers \ {w} : job'[v] = job[v]
<1> DEFINE j == [[[job[w] EXCEPT !.phase = "committing"] EXCEPT !.state = state] EXCEPT !.then = then]
<1>1. job[w] \in BatchJobs /\ job \in [Workers -> BatchJobs]
  BY DEF BatchTypes
<1>2. job' = [job EXCEPT ![w] = j]
  BY <1>1 DEF Commits
<1>3. /\ j \in BatchJobs /\ j.phase = "committing" /\ j.action = job[w].action /\ j.state = state
      /\ j.then = then
  BY <1>1 DEF BatchJobs
<1> HIDE DEF j
<1> QED  BY <1>1, <1>2, <1>3

(* A step leaves a row alone, though a page of it may be deleted; or it is *)
(* requested anew; or a run writes it.                                     *)
RowStays(a) ==
  /\ batchAction'[a] = batchAction[a] /\ overtaken'[a] = overtaken[a]
  /\ gonePages[a] \subseteq gonePages'[a]

RowReset(a) ==
  /\ a \notin Active
  /\ batchAction'[a].request = batchAction[a].request + 1
  /\ batchAction'[a].status = "Queued"
  /\ Complete(batchAction'[a], gonePages'[a])
  /\ overtaken'[a] = overtaken[a]

RowWritten(v, a) ==
  LET state == job[v].state IN
  /\ job[v].phase = "writing" /\ job[v].action = a
  /\ batchAction'[a] = [state EXCEPT !.request = batchAction[a].request, !.pages = batchAction[a].pages]
  /\ gonePages'[a] = gonePages[a]
  /\ overtaken'[a] = IF overtaken[a] = "no" /\ ~Overtaken(v) THEN "no"
                     ELSE IF state.request # batchAction[a].request THEN "crossed"
                     ELSE IF overtaken[a] = "no" THEN "wrote" ELSE overtaken[a]

RowMoves(v) == \A a \in Actions : RowStays(a) \/ RowWritten(v, a)

(* What is stored. *)
RowTypes ==
  /\ batchAction \in [Actions -> BatchRows]
  /\ gonePages \in [Actions -> SUBSET Nat]
  /\ overtaken \in [Actions -> {"no", "wrote", "crossed"}]

(* commitTraceDeleteBatchActionState: one row is written, the others stay. *)
LEMMA WritesEffect ==
  ASSUME BatchTypes, NEW w \in Workers, Writes(w), job[w].phase = "writing", gonePages' = gonePages
  PROVE  /\ RowMoves(w) /\ RowWritten(w, job[w].action)
         /\ batchAction' \in [Actions -> BatchRows]
         /\ overtaken' \in [Actions -> {"no", "wrote", "crossed"}]
<1> DEFINE a == job[w].action
           state == job[w].state
           row == [state EXCEPT !.request = batchAction[a].request, !.pages = batchAction[a].pages]
           mark == IF overtaken[a] = "no" /\ ~Overtaken(w) THEN "no"
                   ELSE IF state.request # batchAction[a].request THEN "crossed"
                   ELSE IF overtaken[a] = "no" THEN "wrote" ELSE overtaken[a]
<1>1. a \in Actions /\ state \in BatchRows /\ batchAction[a] \in BatchRows
  BY DEF BatchTypes, BatchJobs
<1>2. row \in BatchRows
  BY <1>1 DEF BatchRows
<1>3. mark \in {"no", "wrote", "crossed"}
  BY <1>1 DEF BatchTypes
<1>4. batchAction' = [batchAction EXCEPT ![a] = row] /\ overtaken' = [overtaken EXCEPT ![a] = mark]
  BY DEF Writes
<1>5. /\ batchAction'[a] = row /\ overtaken'[a] = mark
      /\ \A b \in Actions \ {a} : batchAction'[b] = batchAction[b] /\ overtaken'[b] = overtaken[b]
      /\ batchAction' \in [Actions -> BatchRows]
      /\ overtaken' \in [Actions -> {"no", "wrote", "crossed"}]
  <2> HIDE DEF row, mark, a
  <2> QED  BY <1>1, <1>2, <1>3, <1>4 DEF BatchTypes
<1>6. RowWritten(w, a)
  BY <1>5 DEF RowWritten
<1>7. \A b \in Actions \ {a} : RowStays(b)
  BY <1>5 DEF RowStays
<1> QED  BY <1>5, <1>6, <1>7 DEF RowMoves

(* A new request. *)
LEMMA RequestEffect ==
  ASSUME BatchTypes, NEW a \in Actions, Request(a)
  PROVE  /\ \A b \in Actions : RowStays(b) \/ RowReset(b)
         /\ RowReset(a) /\ RowTypes'
         /\ UNCHANGED <<lock, job>>
<1>1. PICK n \in PageCounts :
        batchAction' = [batchAction EXCEPT
          ![a] = [NoRow EXCEPT !.request = batchAction[a].request + 1, !.pages = n, !.status = "Queued"]]
  BY DEF Request
<1> DEFINE row == [NoRow EXCEPT !.request = batchAction[a].request + 1, !.pages = n, !.status = "Queued"]
<1>2. n \in Nat /\ batchAction[a].request + 1 \in Nat
  BY BatchConstants DEF BatchTypes, BatchRows
<1>3. /\ row \in BatchRows /\ row.request = batchAction[a].request + 1 /\ row.status = "Queued"
      /\ row.page = 0 /\ row.pages = n /\ row.processed = 0
  BY <1>2 DEF NoRow, BatchRows
<1>4. Complete(row, {})
  BY <1>2, <1>3 DEF Complete
<1>5. /\ batchAction' = [batchAction EXCEPT ![a] = row] /\ gonePages' = [gonePages EXCEPT ![a] = {}]
      /\ overtaken' = overtaken /\ a \notin Active
  BY <1>1 DEF Request
<1> HIDE DEF row
<1>6. RowReset(a)
  BY <1>3, <1>4, <1>5 DEF RowReset, BatchTypes
<1>7. \A b \in Actions \ {a} : RowStays(b)
  BY <1>5 DEF RowStays, BatchTypes
<1>8. RowTypes'
  BY <1>3, <1>5 DEF RowTypes, BatchTypes
<1> QED  BY <1>6, <1>7, <1>8 DEF Request

(* A page is deleted, of the present request only. *)
LEMMA DeletePageEffect ==
  ASSUME BatchTypes, NEW w \in Workers, DeletePage(w)
  PROVE  /\ job[w].phase = "deleting" /\ Goes(w, "extending")
         /\ \A a \in Actions : RowStays(a)
         /\ RowTypes'
         /\ batchAction[job[w].action].request = job[w].state.request =>
              job[w].state.page \in gonePages'[job[w].action]
         /\ batchAction' = batchAction /\ overtaken' = overtaken /\ lock' = lock
<1>1. job[w].action \in Actions /\ job[w].state.page \in Nat
  BY DEF BatchTypes, BatchJobs, BatchRows
<1>2. /\ gonePages' \in [Actions -> SUBSET Nat]
      /\ \A a \in Actions : gonePages[a] \subseteq gonePages'[a]
      /\ batchAction[job[w].action].request = job[w].state.request =>
           job[w].state.page \in gonePages'[job[w].action]
  BY <1>1 DEF DeletePage, BatchTypes
<1> QED  BY <1>2 DEF DeletePage, RowStays, RowTypes, BatchTypes

(* What every step of a run leaves alone. *)
StepBy(w) ==
  /\ job' \in [Workers -> BatchJobs]
  /\ \A v \in Workers \ {w} : job'[v] = job[v]
  /\ lock' \in [Keys -> LockValue]
  /\ \A v \in Workers : lock'[RunnerKey].owner = v =>
       lock[RunnerKey].owner = v \/ (v = w /\ job'[w].phase = "picking")
  /\ RowMoves(w)
  /\ RowTypes'

(* Steps that write no row. *)
LEMMA RowsUnchanged ==
  ASSUME BatchTypes, UNCHANGED <<batchAction, gonePages, overtaken>>, NEW w \in Workers
  PROVE  RowMoves(w) /\ RowTypes' /\ \A a \in Actions : RowStays(a)
  BY DEF RowMoves, RowStays, RowTypes, BatchTypes

(* Steps that leave the lock as it is ... *)
LEMMA LockUnchanged ==
  ASSUME BatchTypes, lock' = lock, NEW w \in Workers
  PROVE  /\ lock' \in [Keys -> LockValue]
         /\ \A v \in Workers : lock'[RunnerKey].owner = v => lock[RunnerKey].owner = v
  BY DEF BatchTypes

(* ... and those after which nobody new holds it. *)
LEMMA LockReleased ==
  ASSUME BatchTypes, NEW w \in Workers,
         lock' \in {Released(w, RunnerKey), Orphaned(w, RunnerKey), Extended(w, RunnerKey),
                    [lock EXCEPT ![RunnerKey] = Unlocked]}
  PROVE  /\ lock' \in [Keys -> LockValue]
         /\ \A v \in Workers : lock'[RunnerKey].owner = v => lock[RunnerKey].owner = v
<1>1. lock' \in [Keys -> LockValue]
  BY OwnersTyped
<1>2. lock \in [Keys -> LockValue] /\ RunnerKey \in Keys
  BY BatchConstants DEF BatchTypes
<1>3. CASE lock' = [lock EXCEPT ![RunnerKey] = Unlocked]
  BY <1>1, <1>2, <1>3, BatchConstants DEF Unlocked
<1>4. CASE lock' = Released(w, RunnerKey)
  BY <1>1, <1>2, <1>4, BatchConstants DEF Released, Unlocked
<1>5. CASE lock' = Orphaned(w, RunnerKey)
  BY <1>1, <1>2, <1>5, BatchConstants DEF Orphaned, LockValue
<1>6. CASE lock' = Extended(w, RunnerKey)
  BY <1>1, <1>2, <1>6, BatchConstants DEF Extended, Acquired, Owns
<1> QED  BY <1>3, <1>4, <1>5, <1>6

(* Runs that are over. *)
LEMMA GivesUp ==
  ASSUME BatchTypes, NEW w \in Workers, job' = [job EXCEPT ![w] = NoJob]
  PROVE  /\ job' \in [Workers -> BatchJobs] /\ job'[w].phase = "idle"
         /\ \A v \in Workers \ {w} : job'[v] = job[v]
  BY NoJobTyped DEF BatchTypes

(* getActiveWorkload: the run takes an active action. *)
LEMMA PickEffect ==
  ASSUME BatchTypes, NEW w \in Workers, Pick(w)
  PROVE  /\ StepBy(w) /\ UNCHANGED <<lock, batchAction, gonePages, overtaken>>
         /\ \/ job'[w].phase = "releasing"
            \/ job'[w].phase = "reading" /\ job'[w].action \in Active
<1>1. UNCHANGED <<lock, batchAction, gonePages, overtaken>>
  BY DEF Pick
<1>2. CASE Releases(w)
  BY <1>1, <1>2, ReleasesEffect, RowsUnchanged, LockUnchanged DEF StepBy
<1>3. ASSUME NEW a \in Active, job' = [job EXCEPT ![w].phase = "reading", ![w].action = a]
      PROVE  /\ job' \in [Workers -> BatchJobs] /\ \A v \in Workers \ {w} : job'[v] = job[v]
             /\ job'[w].phase = "reading" /\ job'[w].action \in Active
  BY <1>3 DEF BatchTypes, BatchJobs, Active
<1>4. Releases(w) \/ \E a \in Active : job' = [job EXCEPT ![w].phase = "reading", ![w].action = a]
  BY DEF Pick
<1> QED  BY <1>1, <1>2, <1>3, <1>4, RowsUnchanged, LockUnchanged DEF StepBy

(* What a run has read is a state of its row. *)
LEMMA ReadEffect ==
  ASSUME BatchTypes, NEW w \in Workers, Read(w)
  PROVE  LET row == batchAction[job[w].action] IN
         /\ StepBy(w) /\ UNCHANGED <<lock, batchAction, gonePages, overtaken>>
         /\ job[w].phase = "reading"
         /\ \/ job'[w].phase = "releasing"
            \/ /\ ~Finished(row) /\ job'[w].action = job[w].action
               /\ \/ /\ job'[w].phase = "committing" /\ job'[w].then = "releasing"
                     /\ row.page = 0 /\ PageAfter(row) = 0 /\ job'[w].state = CompletedState(row)
                  \/ /\ job'[w].phase = "committing" /\ job'[w].then = "deleting"
                     /\ row.page = 0 /\ PageAfter(row) # 0
                     /\ job'[w].state = [row EXCEPT !.status = "Processing", !.page = PageAfter(row)]
                  \/ /\ job'[w].phase = "committing" /\ job'[w].then = "deleting"
                     /\ row.page # 0 /\ job'[w].state = [row EXCEPT !.status = "Processing"]
                  \/ /\ job'[w].phase = "deleting" /\ job'[w].state = row
                     /\ row.page # 0 /\ row.status # "Queued"
<1> DEFINE row == batchAction[job[w].action]
<1>1. UNCHANGED <<lock, batchAction, gonePages, overtaken>> /\ job[w].phase = "reading"
  BY DEF Read
<1>2. row \in BatchRows
  BY DEF BatchTypes, BatchJobs
<1>3. \/ Releases(w)
      \/ ~Finished(row) /\ row.page = 0 /\ PageAfter(row) = 0 /\ Commits(w, CompletedState(row), "releasing")
      \/ /\ ~Finished(row) /\ row.page = 0 /\ PageAfter(row) # 0
         /\ Commits(w, [row EXCEPT !.status = "Processing", !.page = PageAfter(row)], "deleting")
      \/ /\ ~Finished(row) /\ row.page # 0
         /\ Commits(w, [row EXCEPT !.status = "Processing"], "deleting")
      \/ /\ ~Finished(row) /\ row.page # 0 /\ row.status # "Queued"
         /\ job' = [job EXCEPT ![w].phase = "deleting", ![w].state = row]
  BY DEF Read
<1>4. ASSUME job' = [job EXCEPT ![w].phase = "deleting", ![w].state = row]
      PROVE  /\ job' \in [Workers -> BatchJobs] /\ \A v \in Workers \ {w} : job'[v] = job[v]
             /\ job'[w].phase = "deleting" /\ job'[w].action = job[w].action /\ job'[w].state = row
  <2> HIDE DEF row
  <2> QED  BY <1>2, <1>4 DEF BatchTypes, BatchJobs
<1> HIDE DEF row
<1>5. /\ job' \in [Workers -> BatchJobs] /\ \A v \in Workers \ {w} : job'[v] = job[v]
      /\ \/ job'[w].phase = "releasing"
         \/ /\ ~Finished(row) /\ job'[w].action = job[w].action
            /\ \/ /\ job'[w].phase = "committing" /\ job'[w].then = "releasing"
                  /\ row.page = 0 /\ PageAfter(row) = 0 /\ job'[w].state = CompletedState(row)
               \/ /\ job'[w].phase = "committing" /\ job'[w].then = "deleting"
                  /\ row.page = 0 /\ PageAfter(row) # 0
                  /\ job'[w].state = [row EXCEPT !.status = "Processing", !.page = PageAfter(row)]
               \/ /\ job'[w].phase = "committing" /\ job'[w].then = "deleting"
                  /\ row.page # 0 /\ job'[w].state = [row EXCEPT !.status = "Processing"]
               \/ /\ job'[w].phase = "deleting" /\ job'[w].state = row
                  /\ row.page # 0 /\ row.status # "Queued"
  <2>1. CASE Releases(w)
    BY <2>1, ReleasesEffect
  <2>2. CASE ~Finished(row) /\ row.page = 0 /\ PageAfter(row) = 0 /\ Commits(w, CompletedState(row), "releasing")
    BY <1>2, <2>2, StatesTyped, CommitsEffect
  <2>3. CASE /\ ~Finished(row) /\ row.page = 0 /\ PageAfter(row) # 0
             /\ Commits(w, [row EXCEPT !.status = "Processing", !.page = PageAfter(row)], "deleting")
    BY <1>2, <2>3, StatesTyped, CommitsEffect
  <2>4. CASE /\ ~Finished(row) /\ row.page # 0
             /\ Commits(w, [row EXCEPT !.status = "Processing"], "deleting")
    BY <1>2, <2>4, StatesTyped, CommitsEffect
  <2>5. CASE /\ ~Finished(row) /\ row.page # 0 /\ row.status # "Queued"
             /\ job' = [job EXCEPT ![w].phase = "deleting", ![w].state = row]
    BY <1>4, <2>5
  <2> QED  BY <1>3, <2>1, <2>2, <2>3, <2>4, <2>5
<1> QED  BY <1>1, <1>5, RowsUnchanged, LockUnchanged DEF StepBy, row

(* shouldSkipDeletion: the action is to fail. *)
LEMMA SkipEffect ==
  ASSUME BatchTypes, NEW w \in Workers, Skip(w)
  PROVE  /\ StepBy(w) /\ UNCHANGED <<lock, batchAction, gonePages, overtaken>>
         /\ job[w].phase = "deleting" /\ job'[w].phase = "committing" /\ job'[w].then = "releasing"
         /\ job'[w].action = job[w].action /\ job'[w].state = [job[w].state EXCEPT !.status = "Failed"]
<1>1. job[w].state \in BatchRows
  BY DEF BatchTypes, BatchJobs
<1>2. [job[w].state EXCEPT !.status = "Failed"] \in BatchRows
  BY <1>1, StatesTyped
<1>3. Commits(w, [job[w].state EXCEPT !.status = "Failed"], "releasing")
      /\ UNCHANGED <<lock, batchAction, gonePages, overtaken>> /\ job[w].phase = "deleting"
  BY DEF Skip
<1> QED  BY <1>2, <1>3, CommitsEffect, RowsUnchanged, LockUnchanged DEF StepBy

(* The run after the deletion of a page. *)
LEMMA DeleteStep ==
  ASSUME BatchTypes, NEW w \in Workers, DeletePage(w)
  PROVE  /\ StepBy(w) /\ job'[w].phase = "extending" /\ job'[w].action = job[w].action
         /\ job'[w].state = job[w].state /\ job'[w].then = job[w].then
  BY DeletePageEffect, GoesEffect, LockUnchanged DEF StepBy, RowMoves

(* The run goes on if the lock is still its own. *)
LEMMA ExtendEffect ==
  ASSUME BatchTypes, NEW w \in Workers, Extend(w)
  PROVE  /\ StepBy(w) /\ UNCHANGED <<batchAction, gonePages, overtaken>>
         /\ job[w].phase = "extending"
         /\ \/ job'[w].phase = "releasing"
            \/ /\ job'[w].phase = "selecting" /\ job'[w].action = job[w].action
               /\ job'[w].state = job[w].state /\ job'[w].then = job[w].then
  BY GoesEffect, ReleasesEffect, RowsUnchanged, LockReleased DEF StepBy, Extend

(* The page is counted: either it was the last, or the next is in flight. *)
LEMMA SelectNextEffect ==
  ASSUME BatchTypes, NEW w \in Workers, SelectNext(w)
  PROVE  LET state == Advanced(job[w].state) IN
         /\ StepBy(w) /\ UNCHANGED <<lock, batchAction, gonePages, overtaken>>
         /\ job[w].phase = "selecting" /\ job'[w].phase = "committing" /\ job'[w].action = job[w].action
         /\ job'[w].then \in {"releasing", "reading"}
         /\ \/ /\ state.page = 0 /\ job'[w].then = "releasing" /\ job'[w].state = CompletedState(state)
            \/ state.page # 0 /\ job'[w].state = state
<1> DEFINE state == Advanced(job[w].state)
           after == IF job[w].batches + 1 < MaxBatches THEN "reading" ELSE "releasing"
<1>1. job[w].state \in BatchRows /\ job[w].batches + 1 \in Nat
  BY DEF BatchTypes, BatchJobs
<1>2. state \in BatchRows
  BY <1>1, StatesTyped
<1>3. CompletedState(state) \in BatchRows
  BY <1>2, StatesTyped
<1>4. /\ UNCHANGED <<lock, batchAction, gonePages, overtaken>> /\ job[w].phase = "selecting"
      /\ \/ state.page = 0 /\ Commits(w, CompletedState(state), "releasing")
         \/ /\ state.page # 0
            /\ job' = [job EXCEPT ![w].phase = "committing", ![w].state = state, ![w].then = after,
                                  ![w].batches = job[w].batches + 1]
  BY DEF SelectNext
<1>5. after \in {"releasing", "reading"}
  OBVIOUS
<1> HIDE DEF state, after
<1>6. CASE state.page = 0 /\ Commits(w, CompletedState(state), "releasing")
  BY <1>3, <1>4, <1>6, CommitsEffect, RowsUnchanged, LockUnchanged DEF StepBy, state
<1>7. CASE /\ state.page # 0
           /\ job' = [job EXCEPT ![w].phase = "committing", ![w].state = state, ![w].then = after,
                                 ![w].batches = job[w].batches + 1]
  <2> DEFINE n == job[w].batches + 1
             j == [[[[job[w] EXCEPT !.phase = "committing"] EXCEPT !.state = state] EXCEPT !.then = after]
                     EXCEPT !.batches = n]
  <2>1. job[w] \in BatchJobs /\ n \in Nat
    BY <1>1 DEF BatchTypes
  <2>2. job' = [job EXCEPT ![w] = j]
    BY <1>7 DEF BatchTypes
  <2> HIDE DEF n
  <2>3. /\ j \in BatchJobs /\ j.phase = "committing" /\ j.state = state /\ j.then = after
        /\ j.action = job[w].action
    BY <1>2, <1>5, <2>1 DEF BatchJobs
  <2> HIDE DEF j
  <2>4. /\ job' \in [Workers -> BatchJobs] /\ job'[w] = j
        /\ \A v \in Workers \ {w} : job'[v] = job[v]
    BY <2>2, <2>3 DEF BatchTypes
  <2> QED  BY <1>4, <1>5, <1>7, <2>3, <2>4, RowsUnchanged, LockUnchanged DEF StepBy, state
<1> QED  BY <1>4, <1>6, <1>7

(* A run that has found the lock to be its own writes. *)
LEMMA CheckEffect ==
  ASSUME BatchTypes, NEW w \in Workers, Check(w)
  PROVE  /\ StepBy(w) /\ UNCHANGED <<lock, batchAction, gonePages, overtaken>>
         /\ job[w].phase = "committing"
         /\ \/ job'[w].phase = "releasing"
            \/ /\ job'[w].phase = "writing" /\ job'[w].held = TRUE /\ job'[w].action = job[w].action
               /\ job'[w].state = job[w].state /\ job'[w].then = job[w].then
<1>1. UNCHANGED <<lock, batchAction, gonePages, overtaken>> /\ job[w].phase = "committing"
  BY DEF Check
<1>2. CASE Releases(w)
  BY <1>1, <1>2, ReleasesEffect, RowsUnchanged, LockUnchanged DEF StepBy
<1>3. CASE job' = [job EXCEPT ![w].phase = "writing", ![w].held = TRUE]
  <2>1. /\ job' \in [Workers -> BatchJobs] /\ \A v \in Workers \ {w} : job'[v] = job[v]
        /\ job'[w].phase = "writing" /\ job'[w].held = TRUE /\ job'[w].action = job[w].action
        /\ job'[w].state = job[w].state /\ job'[w].then = job[w].then
    BY <1>3 DEF BatchTypes, BatchJobs
  <2> QED  BY <1>1, <2>1, RowsUnchanged, LockUnchanged DEF StepBy
<1>4. Releases(w) \/ job' = [job EXCEPT ![w].phase = "writing", ![w].held = TRUE]
  <2>1. CASE Owns(w, RunnerKey)
    <3>1. Owns(w, RunnerKey) = TRUE
      BY <2>1, Zenon DEF Owns
    <3> QED  BY <2>1, <3>1 DEF Check, MayCommit
  <2>2. CASE ~Owns(w, RunnerKey)
    BY <2>2 DEF Check, MayCommit
  <2> QED  BY <2>1, <2>2
<1> QED  BY <1>2, <1>3, <1>4

(* The state is stored, and the run goes on or ends. *)
LEMMA WriteEffect ==
  ASSUME BatchTypes, NEW w \in Workers, Write(w)
  PROVE  /\ StepBy(w) /\ Writes(w) /\ RowWritten(w, job[w].action) /\ UNCHANGED <<lock, gonePages>>
         /\ job[w].phase = "writing"
         /\ \/ job'[w].phase = "releasing"
            \/ /\ job'[w].phase = job[w].then /\ job[w].then \in {"reading", "deleting"}
               /\ job'[w].action = job[w].action
               /\ job[w].then = "deleting" => job'[w].state = job[w].state
<1>1. /\ Writes(w) /\ UNCHANGED <<lock, gonePages>> /\ job[w].phase = "writing"
      /\ \/ Releases(w)
         \/ Proceeds(w, job[w].then) /\ job[w].then \in {"reading", "deleting"}
  BY DEF Write, BatchTypes, BatchJobs
<1>2. RowTypes' /\ RowMoves(w) /\ RowWritten(w, job[w].action)
  BY <1>1, WritesEffect DEF RowTypes, BatchTypes
<1>3. CASE Releases(w)
  BY <1>1, <1>2, <1>3, ReleasesEffect, LockUnchanged DEF StepBy
<1>4. CASE Proceeds(w, job[w].then) /\ job[w].then \in {"reading", "deleting"}
  BY <1>1, <1>2, <1>4, ProceedsEffect, LockUnchanged DEF StepBy
<1> QED  BY <1>1, <1>3, <1>4

(* A run that throws may have written. *)
LEMMA ThrowsEffect ==
  ASSUME BatchTypes, NEW w \in Workers, Throws(w)
  PROVE  /\ StepBy(w) /\ UNCHANGED <<lock, gonePages>>
         /\ job[w].phase \in {"reading", "deleting", "selecting", "writing"}
         /\ UNCHANGED <<batchAction, overtaken>> \/ (Writes(w) /\ RowWritten(w, job[w].action))
         /\ job'[w].phase = "failing" /\ job'[w].action = job[w].action
<1>1. /\ Proceeds(w, "failing") /\ UNCHANGED <<lock, gonePages>>
      /\ job[w].phase \in {"reading", "deleting", "selecting", "writing"}
      /\ UNCHANGED <<batchAction, overtaken>> \/ (job[w].phase = "writing" /\ Writes(w))
  BY DEF Throws
<1>2. CASE UNCHANGED <<batchAction, overtaken>>
  BY <1>1, <1>2, ProceedsEffect, RowsUnchanged, LockUnchanged DEF StepBy
<1>3. CASE job[w].phase = "writing" /\ Writes(w)
  BY <1>1, <1>3, ProceedsEffect, WritesEffect, LockUnchanged DEF StepBy, RowTypes, BatchTypes
<1> QED  BY <1>1, <1>2, <1>3

(* recordTraceDeleteBatchActionFailure: what is read is stored again, with *)
(* a failure more.                                                         *)
LEMMA RecordFailureEffect ==
  ASSUME BatchTypes, NEW w \in Workers, RecordFailure(w)
  PROVE  LET row == batchAction[job[w].action]
             failed == [row EXCEPT !.failures = row.failures + 1]
         IN
         /\ StepBy(w) /\ UNCHANGED <<lock, batchAction, gonePages, overtaken>>
         /\ job[w].phase = "failing"
         /\ \/ job'[w].phase = "releasing"
            \/ /\ ~Finished(row) /\ job'[w].phase = "committing" /\ job'[w].then = "recorded"
               /\ job'[w].action = job[w].action
               /\ job'[w].state \in {failed, [failed EXCEPT !.status = "Failed"]}
<1> DEFINE row == batchAction[job[w].action]
           failed == [row EXCEPT !.failures = row.failures + 1]
<1>1. row \in BatchRows
  BY DEF BatchTypes, BatchJobs
<1>2. failed \in BatchRows
  BY <1>1, StatesTyped
<1>3. [failed EXCEPT !.status = "Failed"] \in BatchRows
  BY <1>2, StatesTyped
<1>4. /\ UNCHANGED <<lock, batchAction, gonePages, overtaken>> /\ job[w].phase = "failing"
      /\ \/ Releases(w)
         \/ ~Finished(row) /\ Commits(w, failed, "recorded")
         \/ ~Finished(row) /\ Commits(w, [failed EXCEPT !.status = "Failed"], "recorded")
  BY DEF RecordFailure
<1> HIDE DEF failed, row
<1>5. /\ job' \in [Workers -> BatchJobs] /\ \A v \in Workers \ {w} : job'[v] = job[v]
      /\ \/ job'[w].phase = "releasing"
         \/ /\ ~Finished(row) /\ job'[w].phase = "committing" /\ job'[w].then = "recorded"
            /\ job'[w].action = job[w].action
            /\ job'[w].state \in {failed, [failed EXCEPT !.status = "Failed"]}
  <2>1. CASE Releases(w)
    BY <2>1, ReleasesEffect
  <2>2. CASE ~Finished(row) /\ Commits(w, failed, "recorded")
    BY <1>2, <2>2, CommitsEffect
  <2>3. CASE ~Finished(row) /\ Commits(w, [failed EXCEPT !.status = "Failed"], "recorded")
    BY <1>3, <2>3, CommitsEffect
  <2> QED  BY <1>4, <2>1, <2>2, <2>3
<1> QED  BY <1>4, <1>5, RowsUnchanged, LockUnchanged DEF StepBy, failed, row

(* Steps after which a run carries nothing. *)
LEMMA QuietEffect ==
  ASSUME BatchTypes, NEW w \in Workers,
         Acquire(w) \/ Finish(w) \/ RecordErrs(w) \/ RedisErrs(w) \/ RunnerDies(w)
  PROVE  StepBy(w) /\ job'[w].phase \in {"idle", "picking", "releasing"} /\ gonePages' = gonePages
<1>1. CASE Acquire(w)
  <2>1. /\ \A v \in Workers : lock'[RunnerKey].owner = v => v = w
        /\ lock' \in [Keys -> LockValue]
    BY <1>1, OwnersTyped, BatchConstants DEF Acquire, Acquired, BatchTypes
  <2> QED  BY <1>1, <2>1, GoesEffect, RowsUnchanged DEF Acquire, StepBy
<1>2. CASE Finish(w)
  BY <1>2, GivesUp, RowsUnchanged, LockReleased DEF Finish, StepBy
<1>3. CASE RecordErrs(w)
  <2>1. CASE UNCHANGED <<batchAction, overtaken>>
    BY <1>3, <2>1, ReleasesEffect, RowsUnchanged, LockUnchanged DEF RecordErrs, StepBy
  <2>2. CASE job[w].phase = "writing" /\ Writes(w)
    BY <1>3, <2>2, ReleasesEffect, WritesEffect, LockUnchanged DEF RecordErrs, StepBy, RowTypes, BatchTypes
  <2> QED  BY <1>3, <2>1, <2>2 DEF RecordErrs
<1>4. CASE RedisErrs(w)
  BY <1>4, GivesUp, ReleasesEffect, RowsUnchanged, LockUnchanged DEF RedisErrs, StepBy
<1>5. CASE RunnerDies(w)
  BY <1>5, GivesUp, RowsUnchanged, LockReleased DEF RunnerDies, StepBy
<1> QED  BY <1>1, <1>2, <1>3, <1>4, <1>5

-----------------------------------------------------------------------------
(* What is complete stays so, and a page that is deleted completes the next *)
(* state.                                                                  *)
LEMMA CompleteGrows ==
  ASSUME NEW row, NEW gone, NEW more, Complete(row, gone), gone \subseteq more
  PROVE  Complete(row, more)
  BY DEF Complete

(* The first page, the end without any page, a failure: nothing is skipped. *)
LEMMA StatesComplete ==
  ASSUME NEW row \in BatchRows, NEW gone \in SUBSET Nat, Complete(row, gone)
  PROVE  /\ row.page = 0 /\ PageAfter(row) = 0 /\ row.status # "Completed" => Complete(CompletedState(row), gone)
         /\ row.page = 0 /\ row.status # "Completed" =>
              Complete([row EXCEPT !.status = "Processing", !.page = PageAfter(row)], gone)
         /\ row.status # "Completed" =>
              /\ Complete([row EXCEPT !.status = "Processing"], gone)
              /\ Complete([row EXCEPT !.status = "Failed"], gone)
              /\ Complete([row EXCEPT !.failures = row.failures + 1], gone)
              /\ Complete([[row EXCEPT !.failures = row.failures + 1] EXCEPT !.status = "Failed"], gone)
<1>1. /\ row.page \in Nat /\ row.pages \in Nat /\ row.processed \in Nat /\ row.failures + 1 \in Nat
      /\ PageAfter(row) = IF row.page < row.pages THEN row.page + 1 ELSE 0
  BY DEF BatchRows, PageAfter
<1>2. ASSUME row.page = 0, PageAfter(row) = 0, row.status # "Completed" PROVE Complete(CompletedState(row), gone)
  <2>1. LET r == CompletedState(row) IN
        r.page = 0 /\ r.pages = row.pages /\ r.processed = row.processed /\ r.status = "Completed"
    BY DEF CompletedState, BatchRows
  <2>2. row.pages = 0 /\ row.processed = 0
    BY <1>1, <1>2 DEF Complete
  <2> QED  BY <2>1, <2>2 DEF Complete
<1>3. ASSUME row.page = 0, row.status # "Completed"
      PROVE  Complete([row EXCEPT !.status = "Processing", !.page = PageAfter(row)], gone)
  <2> DEFINE p == PageAfter(row)
  <2>1. LET r == [row EXCEPT !.status = "Processing", !.page = p] IN
        r.page = p /\ r.pages = row.pages /\ r.processed = row.processed /\ r.status = "Processing"
    <3> HIDE DEF p
    <3> QED  BY DEF BatchRows
  <2>2. p \in {0, 1} /\ p <= row.pages /\ row.processed = 0
    BY <1>1, <1>3 DEF Complete
  <2> HIDE DEF p
  <2>3. Complete([row EXCEPT !.status = "Processing", !.page = p], gone)
    BY <2>1, <2>2 DEF Complete
  <2> QED  BY <2>3 DEF p
<1>4. ASSUME row.status # "Completed", NEW r,
             r.page = row.page, r.pages = row.pages, r.processed = row.processed, r.status # "Completed"
      PROVE  Complete(r, gone)
  BY <1>4 DEF Complete
<1>5. ASSUME row.status # "Completed"
      PROVE  /\ Complete([row EXCEPT !.status = "Processing"], gone)
             /\ Complete([row EXCEPT !.status = "Failed"], gone)
             /\ Complete([row EXCEPT !.failures = row.failures + 1], gone)
             /\ Complete([[row EXCEPT !.failures = row.failures + 1] EXCEPT !.status = "Failed"], gone)
  <2> DEFINE n == row.failures + 1
  <2> HIDE DEF n
  <2> DEFINE r1 == [row EXCEPT !.status = "Processing"]
             r2 == [row EXCEPT !.status = "Failed"]
             r3 == [row EXCEPT !.failures = n]
             r4 == [[row EXCEPT !.failures = n] EXCEPT !.status = "Failed"]
  <2>1. /\ r1.page = row.page /\ r1.pages = row.pages /\ r1.processed = row.processed /\ r1.status = "Processing"
        /\ r2.page = row.page /\ r2.pages = row.pages /\ r2.processed = row.processed /\ r2.status = "Failed"
    BY DEF BatchRows
  <2>2. /\ r3.page = row.page /\ r3.pages = row.pages /\ r3.processed = row.processed /\ r3.status = row.status
        /\ r4.page = row.page /\ r4.pages = row.pages /\ r4.processed = row.processed /\ r4.status = "Failed"
    BY DEF BatchRows
  <2>3. n = row.failures + 1
    BY DEF n
  <2> HIDE DEF r1, r2, r3, r4
  <2>4. Complete(r1, gone) /\ Complete(r2, gone) /\ Complete(r3, gone) /\ Complete(r4, gone)
    BY <1>4, <1>5, <2>1, <2>2
  <2> QED  BY <2>3, <2>4 DEF r1, r2, r3, r4
<1> QED  BY <1>2, <1>3, <1>5

(* advanceTraceDeleteBatchActionState: the next page, or the end. *)
LEMMA AdvancedComplete ==
  ASSUME NEW row \in BatchRows, NEW gone \in SUBSET Nat, Complete(row, gone), row.status = "Processing",
         row.page # 0, row.page \in gone
  PROVE  LET state == Advanced(row) IN
         /\ Complete(state, gone) \/ state.page = 0
         /\ state.page = 0 => Complete(CompletedState(state), gone)
<1> DEFINE p == PageAfter(row)
           n == row.processed + 1
           state == [row EXCEPT !.processed = n, !.failures = 0, !.page = p]
<1>1. /\ row.page \in Nat /\ row.pages \in Nat /\ row.processed \in Nat /\ row.page <= row.pages
      /\ p = IF row.page < row.pages THEN row.page + 1 ELSE 0
      /\ row.processed = row.page - 1 /\ 1..row.processed \subseteq gone
  BY DEF BatchRows, PageAfter, Complete
<1>2. n = row.page /\ 1..n \subseteq gone
  BY <1>1
<1>3. Advanced(row) = state
  BY DEF Advanced
<1> HIDE DEF p, n
<1>4. state.page = p /\ state.pages = row.pages /\ state.processed = n /\ state.status = "Processing"
      /\ state \in BatchRows
  <2>1. row \in [request : Nat, pages : Nat,
                 status : {"none", "Queued", "Processing", "Completed", "Failed"},
                 page : Nat, processed : Nat, failures : Nat]
    BY DEF BatchRows
  <2>2. state.page = p /\ state.pages = row.pages /\ state.processed = n /\ state.status = "Processing"
    BY <2>1
  <2>3. Advanced(row) \in BatchRows
    BY StatesTyped
  <2> QED  BY <1>3, <2>2, <2>3
<1> HIDE DEF state
<1>5. LET r == CompletedState(state) IN
      r.page = 0 /\ r.pages = row.pages /\ r.processed = n /\ r.status = "Completed"
  BY <1>4 DEF CompletedState, BatchRows
<1>6. CASE row.page < row.pages
  <2>1. p = n + 1 /\ p <= row.pages /\ p # 0 /\ n = p - 1
    BY <1>1, <1>2, <1>6
  <2>2. Complete(state, gone)
    BY <1>2, <1>4, <2>1 DEF Complete
  <2> QED  BY <1>3, <1>4, <2>1, <2>2
<1>7. CASE ~(row.page < row.pages)
  <2>1. p = 0 /\ n = row.pages
    BY <1>1, <1>2, <1>7
  <2>2. Complete(CompletedState(state), gone)
    BY <1>1, <1>2, <1>5, <2>1 DEF Complete
  <2> QED  BY <1>3, <1>4, <2>1, <2>2
<1> QED  BY <1>6, <1>7

-----------------------------------------------------------------------------
(* A run that carries nothing has nothing to keep. *)
LEMMA QuietKept ==
  ASSUME NEW w \in Workers, job'[w].phase \in {"idle", "picking", "releasing"}
  PROVE  StateInv(w)' /\ OwnerInv(w)'
<1>1. StateInv(w)'
  BY DEF StateInv, Carries, AtPage, CarriesComplete
<1>2. OwnerInv(w)'
  BY DEF OwnerInv, Carries
<1> QED  BY <1>1, <1>2

(* A run that does nothing itself; a row that is requested anew is of no   *)
(* concern to it, and one that another run writes is marked.               *)
LEMMA OthersKept ==
  ASSUME BatchInv, RowTypes', NEW w \in Workers, NEW a \in Actions, a = job[w].action,
         job'[w] = job[w], lock'[RunnerKey].owner = w => lock[RunnerKey].owner = w,
         RowStays(a) \/ RowReset(a) \/ \E v \in Workers \ {w} : RowWritten(v, a)
  PROVE  StateInv(w)' /\ OwnerInv(w)'
<1> DEFINE state == job[w].state
<1>1. /\ batchAction[a] \in BatchRows /\ state \in BatchRows /\ gonePages[a] \in SUBSET Nat
      /\ batchAction[a].request \in Nat /\ state.request \in Nat
  BY DEF BatchInv, BatchTypes, BatchJobs, BatchRows
<1>2. StateInv(w) /\ OwnerInv(w)
  BY DEF BatchInv
<1>3. CASE RowStays(a)
  <2>1. CarriesComplete(w) => CarriesComplete(w)'
    BY <1>3, CompleteGrows DEF CarriesComplete, RowStays
  <2>2. StateInv(w)'
    BY <1>2, <1>3, <2>1 DEF StateInv, RowStays, Carries, AtPage
  <2>3. OwnerInv(w)'
    BY <1>2, <1>3 DEF OwnerInv, RowStays, Carries, Owns, Active
  <2> QED  BY <2>2, <2>3
<1>4. CASE RowReset(a)
  <2>1. Carries(w) => state.request # batchAction'[a].request /\ state.request <= batchAction'[a].request
    BY <1>1, <1>2, <1>4 DEF StateInv, RowReset
  <2>2. StateInv(w)'
    BY <1>2, <1>4, <2>1 DEF StateInv, CarriesComplete, RowReset, Carries, AtPage
  <2>3. OwnerInv(w)'
    BY <1>2, <1>4 DEF OwnerInv, RowReset, Carries, Owns
  <2> QED  BY <2>2, <2>3
<1>5. CASE \E v \in Workers \ {w} : RowWritten(v, a)
  <2>1. PICK v \in Workers \ {w} : RowWritten(v, a)
    BY <1>5
  <2>2. /\ job[v].state \in BatchRows /\ job[v].state.status # "none" /\ job[v].held = TRUE
    BY <2>1 DEF BatchInv, BatchTypes, BatchJobs, StateInv, RowWritten, Carries
  <2> DEFINE row == [job[v].state EXCEPT !.request = batchAction[a].request, !.pages = batchAction[a].pages]
  <2>8. /\ row.request = batchAction[a].request /\ row.pages = batchAction[a].pages
        /\ row.status = job[v].state.status
    BY <2>2 DEF BatchRows
  <2>9. batchAction'[a] = row /\ gonePages'[a] = gonePages[a]
    BY <2>1 DEF RowWritten
  <2>10. overtaken'[a] # "crossed" => overtaken[a] # "crossed"
    BY <2>1 DEF RowWritten
  <2> HIDE DEF row
  <2>3. /\ batchAction'[a].request = batchAction[a].request /\ batchAction'[a].pages = batchAction[a].pages
        /\ batchAction'[a].status = job[v].state.status
        /\ gonePages'[a] = gonePages[a]
        /\ overtaken'[a] # "crossed" => overtaken[a] # "crossed"
    BY <2>8, <2>9, <2>10
  <2>4. CarriesComplete(w) => CarriesComplete(w)'
    BY <2>3 DEF CarriesComplete
  <2>5. StateInv(w)'
    BY <1>2, <2>2, <2>3, <2>4 DEF StateInv, Carries, AtPage
  <2>6. Owns(w, RunnerKey) => overtaken'[a] # "no"
    <3>1. Owns(w, RunnerKey) => ~Owns(v, RunnerKey)
      BY DEF Owns
    <3>2. Owns(w, RunnerKey) => Overtaken(v)
      BY <2>2, <3>1 DEF Overtaken
    <3> QED  BY <2>1, <3>2 DEF RowWritten
  <2>7. OwnerInv(w)'
    BY <2>6 DEF OwnerInv, Owns
  <2> QED  BY <2>5, <2>7
<1> QED  BY <1>3, <1>4, <1>5

(* Rows of actions that a step writes or requests are complete. *)
LEMMA RowsComplete ==
  ASSUME BatchInv, RowTypes', NEW a \in Actions,
         RowStays(a) \/ RowReset(a) \/ \E v \in Workers : RowWritten(v, a)
  PROVE  RowComplete(a)'
<1>1. RowComplete(a)
  BY DEF BatchInv
<1>2. CASE RowStays(a)
  BY <1>1, <1>2, CompleteGrows DEF RowComplete, RowStays
<1>3. CASE RowReset(a)
  BY <1>3 DEF RowComplete, RowReset
<1>4. ASSUME NEW v \in Workers, RowWritten(v, a), overtaken'[a] # "crossed"
      PROVE  Complete(batchAction'[a], gonePages'[a])
  <2> DEFINE state == job[v].state
             row == [state EXCEPT !.request = batchAction[a].request, !.pages = batchAction[a].pages]
  <2>1. StateInv(v) /\ OwnerInv(v) /\ state \in BatchRows /\ Carries(v) /\ job[v].action = a
    BY <1>4 DEF BatchInv, BatchTypes, BatchJobs, RowWritten, Carries
  <2>2. overtaken[a] # "crossed" /\ state.request = batchAction[a].request
    <3>1. CASE overtaken[a] = "no" /\ ~Overtaken(v)
      <4>1. Owns(v, RunnerKey)
        BY <1>4, <2>1, <3>1 DEF StateInv, Overtaken, RowWritten
      <4> QED  BY <2>1, <3>1, <4>1 DEF OwnerInv
    <3>2. CASE ~(overtaken[a] = "no" /\ ~Overtaken(v))
      BY <1>4, <3>2 DEF RowWritten
    <3> QED  BY <3>1, <3>2
  <2>3. Complete(state, gonePages[a]) /\ state.pages = batchAction[a].pages
    BY <2>1, <2>2 DEF StateInv, CarriesComplete
  <2>4. row.page = state.page /\ row.pages = state.pages /\ row.processed = state.processed
        /\ row.status = state.status
    BY <2>1, <2>3 DEF BatchRows
  <2>5. batchAction'[a] = row /\ gonePages'[a] = gonePages[a]
    BY <1>4 DEF RowWritten
  <2> HIDE DEF row, state
  <2> QED  BY <2>3, <2>4, <2>5 DEF Complete
<1> QED  BY <1>2, <1>3, <1>4 DEF RowComplete

(* What a step that leaves the row and the lock's holder alone does for an *)
(* owner that goes on with the same request.                               *)
LEMMA OwnerKept ==
  ASSUME BatchInv, NEW w \in Workers, UNCHANGED <<batchAction, overtaken>>,
         lock'[RunnerKey].owner = w => lock[RunnerKey].owner = w,
         Carries(w), job'[w].action = job[w].action,
         Carries(w)' => job'[w].state.request = job[w].state.request
  PROVE  OwnerInv(w)'
<1>1. OwnerInv(w)
  BY DEF BatchInv
<1> QED  BY <1>1 DEF OwnerInv, Owns, Active

(* A run that takes a state r of its row, of the present request.          *)
LEMMA TakenKept ==
  ASSUME BatchInv, NEW w \in Workers, NEW a \in Active, a = job[w].action, job'[w].action = a,
         UNCHANGED <<batchAction, overtaken, gonePages>>,
         job'[w].phase \in {"committing", "deleting"},
         NEW r, job'[w].state = r, r.request = batchAction[a].request, r.pages = batchAction[a].pages,
         r.status # "none", batchAction[a].request \in Nat,
         overtaken[a] # "crossed" => Complete(r, gonePages[a]),
         job'[w].phase = "deleting" \/ job'[w].then = "deleting" => r.status = "Processing" /\ r.page # 0,
         job'[w].then = "reading" => r.status = "Processing"
  PROVE  StateInv(w)' /\ OwnerInv(w)'
<1>1. CarriesComplete(w)'
  BY DEF CarriesComplete
<1>2. r.request <= batchAction'[a].request /\ batchAction'[a].status # "none"
  BY DEF Active
<1>3. StateInv(w)'
  BY <1>1, <1>2 DEF StateInv, Carries, AtPage
<1>4. OwnerInv(w)'
  BY DEF OwnerInv, Active
<1> QED  BY <1>3, <1>4

(* The action a run picks has been requested. *)
LEMMA PickKept ==
  ASSUME BatchInv, NEW w \in Workers, Pick(w)
  PROVE  StateInv(w)' /\ OwnerInv(w)'
<1>1. CASE job'[w].phase = "releasing"
  BY <1>1, QuietKept
<1>2. CASE job'[w].phase = "reading" /\ job'[w].action \in Active
  <2>1. job'[w].action \in Active' /\ batchAction'[job'[w].action].status # "none"
    BY <1>2, PickEffect DEF BatchInv, Active
  <2>2. StateInv(w)'
    BY <1>2, <2>1 DEF StateInv, Carries, AtPage
  <2>3. OwnerInv(w)'
    BY <1>2, <2>1 DEF OwnerInv, Carries
  <2> QED  BY <2>2, <2>3
<1> QED  BY <1>1, <1>2, PickEffect DEF BatchInv

(* What a run has read is complete as its row is. *)
LEMMA ReadKept ==
  ASSUME BatchInv, NEW w \in Workers, Read(w)
  PROVE  StateInv(w)' /\ OwnerInv(w)'
<1> DEFINE a == job[w].action
           row == batchAction[a]
           first == PageAfter(row)
           r == job'[w].state
<1>1. /\ BatchTypes /\ row \in BatchRows /\ gonePages[a] \in SUBSET Nat /\ row.request \in Nat
      /\ a \in Actions /\ StateInv(w) /\ RowComplete(a)
  BY DEF BatchInv, BatchTypes, BatchJobs, BatchRows
<1>2. CASE job'[w].phase = "releasing"
  BY <1>2, QuietKept
<1>3. CASE job'[w].phase # "releasing"
  <2>1. /\ ~Finished(row) /\ job'[w].action = a /\ job[w].phase = "reading"
        /\ UNCHANGED <<batchAction, gonePages, overtaken>>
        /\ \/ /\ job'[w].phase = "committing" /\ job'[w].then = "releasing"
              /\ row.page = 0 /\ first = 0 /\ r = CompletedState(row)
           \/ /\ job'[w].phase = "committing" /\ job'[w].then = "deleting"
              /\ row.page = 0 /\ first # 0
              /\ r = [row EXCEPT !.status = "Processing", !.page = first]
           \/ /\ job'[w].phase = "committing" /\ job'[w].then = "deleting"
              /\ row.page # 0 /\ r = [row EXCEPT !.status = "Processing"]
           \/ /\ job'[w].phase = "deleting" /\ r = row
              /\ row.page # 0 /\ row.status # "Queued"
    BY <1>1, <1>3, ReadEffect
  <2>2. row.status \in {"Queued", "Processing"} /\ a \in Active
    BY <1>1, <2>1 DEF StateInv, Finished, Active, BatchRows
  <2>3. overtaken[a] # "crossed" => Complete(row, gonePages[a])
    BY <1>1 DEF RowComplete
  <2>4. overtaken[a] # "crossed" => Complete(r, gonePages[a])
    BY <1>1, <2>1, <2>2, <2>3, StatesComplete
  <2>5. /\ r.request = row.request /\ r.pages = row.pages /\ r.status # "none"
        /\ job'[w].phase = "deleting" \/ job'[w].then = "deleting" => r.status = "Processing" /\ r.page # 0
        /\ job'[w].then = "reading" => r.status = "Processing"
    <3> HIDE DEF first
    <3>1. CASE job'[w].phase = "committing" /\ job'[w].then = "releasing" /\ r = CompletedState(row)
      BY <1>1, <2>2, <3>1 DEF CompletedState, BatchRows
    <3>2. CASE /\ job'[w].phase = "committing" /\ job'[w].then = "deleting" /\ first # 0
               /\ r = [row EXCEPT !.status = "Processing", !.page = first]
      BY <1>1, <2>2, <3>2 DEF BatchRows
    <3>3. CASE /\ job'[w].phase = "committing" /\ job'[w].then = "deleting" /\ row.page # 0
               /\ r = [row EXCEPT !.status = "Processing"]
      BY <1>1, <2>2, <3>3 DEF BatchRows
    <3>4. CASE job'[w].phase = "deleting" /\ r = row /\ row.page # 0 /\ row.status # "Queued"
      BY <1>1, <2>2, <3>4
    <3> QED  BY <2>1, <3>1, <3>2, <3>3, <3>4
  <2> QED  BY <1>1, <2>1, <2>2, <2>4, <2>5, TakenKept
<1> QED  BY <1>2, <1>3

(* ... and so it is with one failure more. *)
LEMMA RecordFailureKept ==
  ASSUME BatchInv, NEW w \in Workers, RecordFailure(w)
  PROVE  StateInv(w)' /\ OwnerInv(w)'
<1> DEFINE a == job[w].action
           row == batchAction[a]
           n == row.failures + 1
           failed == [row EXCEPT !.failures = n]
           r == job'[w].state
<1>1. /\ BatchTypes /\ row \in BatchRows /\ gonePages[a] \in SUBSET Nat /\ row.request \in Nat
      /\ a \in Actions /\ StateInv(w) /\ RowComplete(a)
  BY DEF BatchInv, BatchTypes, BatchJobs, BatchRows
<1>2. CASE job'[w].phase = "releasing"
  BY <1>2, QuietKept
<1>3. CASE job'[w].phase # "releasing"
  <2>1. /\ ~Finished(row) /\ job'[w].action = a /\ job[w].phase = "failing"
        /\ UNCHANGED <<batchAction, gonePages, overtaken>>
        /\ job'[w].phase = "committing" /\ job'[w].then = "recorded"
        /\ r \in {failed, [failed EXCEPT !.status = "Failed"]}
    BY <1>1, <1>3, RecordFailureEffect
  <2>2. row.status \in {"Queued", "Processing"} /\ a \in Active
    BY <1>1, <2>1 DEF StateInv, Finished, Active, BatchRows
  <2>3. overtaken[a] # "crossed" => Complete(row, gonePages[a])
    BY <1>1 DEF RowComplete
  <2>4. overtaken[a] # "crossed" => Complete(r, gonePages[a])
    BY <1>1, <2>1, <2>2, <2>3, StatesComplete
  <2>5. r.request = row.request /\ r.pages = row.pages /\ r.status # "none"
    <3> HIDE DEF n
    <3> QED  BY <1>1, <2>1, <2>2 DEF BatchRows
  <2> QED  BY <1>1, <2>1, <2>2, <2>4, <2>5, TakenKept
<1> QED  BY <1>2, <1>3

(* Giving up skips nothing. *)
LEMMA SkipKept ==
  ASSUME BatchInv, NEW w \in Workers, Skip(w)
  PROVE  StateInv(w)' /\ OwnerInv(w)'
<1> DEFINE a == job[w].action
           state == job[w].state
           r == job'[w].state
<1>1. BatchTypes /\ state \in BatchRows /\ a \in Actions /\ StateInv(w) /\ gonePages[a] \in SUBSET Nat
  BY DEF BatchInv, BatchTypes, BatchJobs
<1>2. /\ UNCHANGED <<lock, batchAction, gonePages, overtaken>>
      /\ job[w].phase = "deleting" /\ job'[w].phase = "committing" /\ job'[w].then = "releasing"
      /\ job'[w].action = a /\ r = [state EXCEPT !.status = "Failed"]
  BY <1>1, SkipEffect
<1>3. r.request = state.request /\ r.pages = state.pages /\ r.status = "Failed"
  BY <1>1, <1>2 DEF BatchRows
<1>4. /\ batchAction[a].status # "none" /\ state.request <= batchAction[a].request
      /\ state.status = "Processing" /\ CarriesComplete(w)
  BY <1>1, <1>2 DEF StateInv, Carries, AtPage
<1>5. Complete(state, gonePages[a]) => Complete(r, gonePages[a])
  BY <1>1, <1>2, <1>4, StatesComplete
<1>6. CarriesComplete(w)'
  BY <1>2, <1>3, <1>4, <1>5 DEF CarriesComplete
<1>7. StateInv(w)'
  BY <1>2, <1>3, <1>4, <1>6 DEF StateInv, Carries, AtPage
<1>8. OwnerInv(w)'
  BY <1>2, <1>3, OwnerKept DEF Carries
<1> QED  BY <1>7, <1>8

(* The page of the state is deleted now. *)
LEMMA DeletePageKept ==
  ASSUME BatchInv, NEW w \in Workers, DeletePage(w)
  PROVE  StateInv(w)' /\ OwnerInv(w)'
<1> DEFINE a == job[w].action
           state == job[w].state
<1>1. BatchTypes /\ a \in Actions /\ StateInv(w)
  BY DEF BatchInv, BatchTypes, BatchJobs
<1>2. /\ lock' = lock /\ batchAction' = batchAction /\ overtaken' = overtaken
      /\ gonePages[a] \subseteq gonePages'[a]
      /\ batchAction[a].request = state.request => state.page \in gonePages'[a]
      /\ job[w].phase = "deleting" /\ job'[w].phase = "extending" /\ job'[w].action = a
      /\ job'[w].state = state /\ job'[w].then = job[w].then
  BY <1>1, DeletePageEffect, DeleteStep DEF RowStays
<1>3. /\ batchAction[a].status # "none" /\ state.request <= batchAction[a].request
      /\ state.status = "Processing" /\ state.page # 0 /\ CarriesComplete(w)
  BY <1>1, <1>2 DEF StateInv, Carries, AtPage
<1>4. CarriesComplete(w)'
  BY <1>2, <1>3, CompleteGrows DEF CarriesComplete
<1>5. StateInv(w)'
  BY <1>2, <1>3, <1>4 DEF StateInv, Carries, AtPage
<1>6. OwnerInv(w)'
  BY <1>2, OwnerKept DEF Carries
<1> QED  BY <1>5, <1>6

(* Extending the lock makes nobody its owner. *)
LEMMA ExtendKept ==
  ASSUME BatchInv, NEW w \in Workers, Extend(w)
  PROVE  StateInv(w)' /\ OwnerInv(w)'
<1> DEFINE a == job[w].action
           state == job[w].state
<1>1. BatchTypes /\ a \in Actions /\ StateInv(w)
  BY DEF BatchInv, BatchTypes, BatchJobs
<1>2. CASE job'[w].phase = "releasing"
  BY <1>2, QuietKept
<1>3. CASE job'[w].phase # "releasing"
  <2>1. /\ lock'[RunnerKey].owner = w => lock[RunnerKey].owner = w
        /\ UNCHANGED <<batchAction, gonePages, overtaken>>
        /\ job[w].phase = "extending" /\ job'[w].phase = "selecting" /\ job'[w].action = a
        /\ job'[w].state = state /\ job'[w].then = job[w].then
    BY <1>1, <1>3, ExtendEffect DEF StepBy
  <2>2. CarriesComplete(w) => CarriesComplete(w)'
    BY <2>1 DEF CarriesComplete
  <2>3. StateInv(w)'
    BY <1>1, <2>1, <2>2 DEF StateInv, Carries, AtPage
  <2>4. OwnerInv(w)'
    BY <2>1, OwnerKept DEF Carries
  <2> QED  BY <2>3, <2>4
<1> QED  BY <1>2, <1>3

(* The page that is counted was deleted. *)
LEMMA SelectNextKept ==
  ASSUME BatchInv, NEW w \in Workers, SelectNext(w)
  PROVE  StateInv(w)' /\ OwnerInv(w)'
<1> DEFINE a == job[w].action
           state == job[w].state
           next == Advanced(state)
           r == job'[w].state
<1>1. BatchTypes /\ state \in BatchRows /\ a \in Actions /\ StateInv(w) /\ gonePages[a] \in SUBSET Nat
  BY DEF BatchInv, BatchTypes, BatchJobs
<1>2. /\ UNCHANGED <<lock, batchAction, gonePages, overtaken>>
      /\ job[w].phase = "selecting" /\ job'[w].phase = "committing" /\ job'[w].action = a
      /\ job'[w].then \in {"releasing", "reading"}
      /\ \/ next.page = 0 /\ job'[w].then = "releasing" /\ r = CompletedState(next)
         \/ next.page # 0 /\ r = next
  BY <1>1, SelectNextEffect
<1>3. /\ batchAction[a].status # "none" /\ state.request <= batchAction[a].request
      /\ state.status = "Processing" /\ state.page # 0 /\ CarriesComplete(w)
  BY <1>1, <1>2 DEF StateInv, Carries, AtPage
<1>4. next.request = state.request /\ next.pages = state.pages /\ next.status = "Processing"
      /\ next \in BatchRows
  <2> DEFINE n == state.processed + 1
             p == PageAfter(state)
  <2>1. next = [[state EXCEPT !.processed = n, !.failures = 0] EXCEPT !.page = p]
    BY <1>1 DEF Advanced
  <2>2. next \in BatchRows
    BY <1>1, StatesTyped
  <2> HIDE DEF n, p, next
  <2> QED  BY <1>1, <1>3, <2>1, <2>2 DEF BatchRows
<1> HIDE DEF next
<1>5. /\ r.request = state.request /\ r.pages = state.pages /\ r.status # "none"
      /\ job'[w].then = "reading" => r.status = "Processing"
  BY <1>2, <1>4 DEF CompletedState, BatchRows
<1>6. Complete(state, gonePages[a]) /\ state.page \in gonePages[a] => Complete(r, gonePages[a])
  BY <1>1, <1>2, <1>3, AdvancedComplete DEF next
<1>7. CarriesComplete(w)'
  BY <1>2, <1>3, <1>5, <1>6 DEF CarriesComplete
<1>8. StateInv(w)'
  BY <1>2, <1>3, <1>5, <1>7 DEF StateInv, Carries, AtPage
<1>9. OwnerInv(w)'
  BY <1>2, <1>5, OwnerKept DEF Carries
<1> QED  BY <1>8, <1>9

(* A run that goes on to write has found the lock to be its own. *)
LEMMA CheckKept ==
  ASSUME BatchInv, NEW w \in Workers, Check(w)
  PROVE  StateInv(w)' /\ OwnerInv(w)'
<1> DEFINE a == job[w].action
           state == job[w].state
<1>1. BatchTypes /\ StateInv(w)
  BY DEF BatchInv
<1>2. CASE job'[w].phase = "releasing"
  BY <1>2, QuietKept
<1>3. CASE job'[w].phase # "releasing"
  <2>1. /\ UNCHANGED <<lock, batchAction, gonePages, overtaken>>
        /\ job[w].phase = "committing" /\ job'[w].phase = "writing" /\ job'[w].held = TRUE
        /\ job'[w].action = a /\ job'[w].state = state /\ job'[w].then = job[w].then
    BY <1>1, <1>3, CheckEffect
  <2>2. CarriesComplete(w) => CarriesComplete(w)'
    BY <2>1 DEF CarriesComplete
  <2>3. StateInv(w)'
    BY <1>1, <2>1, <2>2 DEF StateInv, Carries, AtPage
  <2>4. OwnerInv(w)'
    BY <2>1, OwnerKept DEF Carries
  <2> QED  BY <2>3, <2>4
<1> QED  BY <1>2, <1>3

(* What a run has written is what it carries on from; an owner whose row   *)
(* was not marked has written the state of the present request.            *)
LEMMA WriteKept ==
  ASSUME BatchInv, NEW w \in Workers, Write(w)
  PROVE  StateInv(w)' /\ OwnerInv(w)'
<1> DEFINE a == job[w].action
           state == job[w].state
           row == [state EXCEPT !.request = batchAction[a].request, !.pages = batchAction[a].pages]
<1>1. /\ BatchTypes /\ state \in BatchRows /\ a \in Actions /\ StateInv(w) /\ OwnerInv(w)
      /\ batchAction[a].request \in Nat /\ batchAction[a].pages \in Nat
  BY DEF BatchInv, BatchTypes, BatchJobs, BatchRows
<1>2. CASE job'[w].phase = "releasing"
  BY <1>2, QuietKept
<1>3. CASE job'[w].phase # "releasing"
  <2>1. /\ RowWritten(w, a) /\ lock' = lock
        /\ job[w].phase = "writing" /\ job'[w].phase = job[w].then
        /\ job[w].then \in {"reading", "deleting"}
        /\ job'[w].action = a
        /\ job[w].then = "deleting" => job'[w].state = state
    BY <1>1, <1>3, WriteEffect
  <2>2. row.request = batchAction[a].request /\ row.pages = batchAction[a].pages /\ row.status = state.status
    BY <1>1 DEF BatchRows
  <2>3. batchAction'[a] = row /\ gonePages'[a] = gonePages[a]
    BY <2>1 DEF RowWritten
  <2>4. overtaken'[a] # "crossed" => overtaken[a] # "crossed"
    BY <2>1 DEF RowWritten
  <2>5. overtaken'[a] = "no" => overtaken[a] = "no" /\ ~Overtaken(w)
    BY <2>1 DEF RowWritten
  <2> HIDE DEF row
  <2>6. /\ state.request <= batchAction[a].request /\ CarriesComplete(w) /\ state.status = "Processing"
        /\ job[w].then = "deleting" => state.page # 0
        /\ job[w].held = TRUE
    BY <1>1, <2>1 DEF StateInv, Carries, AtPage
  <2>7. job'[w].phase = "deleting" => CarriesComplete(w)'
    BY <2>1, <2>2, <2>3, <2>4, <2>6 DEF CarriesComplete
  <2>8. StateInv(w)'
    BY <2>1, <2>2, <2>3, <2>6, <2>7 DEF StateInv, Carries, AtPage
  <2>9. overtaken'[a] = "no" => state.request = batchAction[a].request
    <3>1. overtaken'[a] = "no" => Owns(w, RunnerKey)
      BY <2>5, <2>6 DEF Overtaken
    <3> QED  BY <1>1, <2>1, <2>5, <3>1 DEF OwnerInv, Carries
  <2>10. a \in Active'
    BY <1>1, <2>2, <2>3, <2>6 DEF Active
  <2>11. OwnerInv(w)'
    BY <2>1, <2>2, <2>3, <2>9, <2>10 DEF OwnerInv, Carries
  <2> QED  BY <2>8, <2>11
<1> QED  BY <1>2, <1>3

(* A run that throws carries nothing; its row has been requested. *)
LEMMA ThrowsKept ==
  ASSUME BatchInv, NEW w \in Workers, Throws(w)
  PROVE  StateInv(w)' /\ OwnerInv(w)'
<1> DEFINE a == job[w].action
           state == job[w].state
           row == [state EXCEPT !.request = batchAction[a].request, !.pages = batchAction[a].pages]
<1>1. BatchTypes /\ StateInv(w) /\ state \in BatchRows
  BY DEF BatchInv, BatchTypes, BatchJobs
<1>2. /\ job[w].phase \in {"reading", "deleting", "selecting", "writing"}
      /\ UNCHANGED <<batchAction, overtaken>> \/ RowWritten(w, a)
      /\ job'[w].phase = "failing" /\ job'[w].action = a
  BY <1>1, ThrowsEffect
<1>3. batchAction'[a].status # "none"
  <2>1. CASE UNCHANGED <<batchAction, overtaken>>
    BY <1>1, <1>2, <2>1 DEF StateInv, Carries
  <2>2. CASE RowWritten(w, a)
    <3>1. row.status = state.status
      BY <1>1 DEF BatchRows
    <3>2. batchAction'[a] = row /\ job[w].phase = "writing"
      BY <2>2 DEF RowWritten
    <3> HIDE DEF row
    <3> QED  BY <1>1, <3>1, <3>2 DEF StateInv, Carries
  <2> QED  BY <1>2, <2>1, <2>2
<1>4. StateInv(w)'
  BY <1>2, <1>3 DEF StateInv, Carries, AtPage
<1>5. OwnerInv(w)'
  BY <1>2 DEF OwnerInv, Carries
<1> QED  BY <1>4, <1>5

(* Any step of a run. *)
RunnerSteps(w) == JobSteps(w) \/ Skip(w) \/ Throws(w) \/ RecordErrs(w) \/ RedisErrs(w) \/ RunnerDies(w)

(* Whatever a run does, its own part of the invariant is kept. *)
LEMMA RunStepKept ==
  ASSUME BatchInv, NEW w \in Workers, RunnerSteps(w)
  PROVE  StepBy(w) /\ StateInv(w)' /\ OwnerInv(w)'
<1>1. BatchTypes
  BY DEF BatchInv
<1>2. CASE Pick(w)
  BY <1>1, <1>2, PickEffect, PickKept
<1>3. CASE Read(w)
  BY <1>1, <1>3, ReadEffect, ReadKept
<1>4. CASE DeletePage(w)
  BY <1>1, <1>4, DeleteStep, DeletePageKept
<1>5. CASE Extend(w)
  BY <1>1, <1>5, ExtendEffect, ExtendKept
<1>6. CASE SelectNext(w)
  BY <1>1, <1>6, SelectNextEffect, SelectNextKept
<1>7. CASE Check(w)
  BY <1>1, <1>7, CheckEffect, CheckKept
<1>8. CASE Write(w)
  BY <1>1, <1>8, WriteEffect, WriteKept
<1>9. CASE RecordFailure(w)
  BY <1>1, <1>9, RecordFailureEffect, RecordFailureKept
<1>10. CASE Skip(w)
  BY <1>1, <1>10, SkipEffect, SkipKept
<1>11. CASE Throws(w)
  BY <1>1, <1>11, ThrowsEffect, ThrowsKept
<1>12. CASE Acquire(w) \/ Finish(w) \/ RecordErrs(w) \/ RedisErrs(w) \/ RunnerDies(w)
  BY <1>1, <1>12, QuietEffect, QuietKept
<1> QED
  BY <1>2, <1>3, <1>4, <1>5, <1>6, <1>7, <1>8, <1>9, <1>10, <1>11, <1>12 DEF RunnerSteps, JobSteps

(* ... and whatever happens while every run stands still. *)
LEMMA StillKept ==
  ASSUME BatchInv, RowTypes', lock' \in [Keys -> LockValue], job' = job,
         \A a \in Actions : RowStays(a) \/ RowReset(a),
         \A w \in Workers : lock'[RunnerKey].owner = w => lock[RunnerKey].owner = w
  PROVE  BatchInv'
<1>1. BatchTypes'
  BY DEF BatchInv, BatchTypes, RowTypes
<1>2. \A a \in Actions : RowComplete(a)'
  BY RowsComplete
<1>3. ASSUME NEW w \in Workers PROVE StateInv(w)' /\ OwnerInv(w)'
  <2>1. job[w].action \in Actions
    BY DEF BatchInv, BatchTypes, BatchJobs
  <2> QED  BY <2>1, OthersKept
<1> QED  BY <1>1, <1>2, <1>3 DEF BatchInv

(* It holds at first. *)
LEMMA BatchInvHolds ==
  BatchInit => BatchInv
<1> SUFFICES ASSUME BatchInit PROVE BatchInv
  OBVIOUS
<1>1. BatchTypes
  BY NoJobTyped DEF BatchInit, BatchTypes, LockInit, Unlocked, LockValue
<1>2. ASSUME NEW a \in Actions PROVE RowComplete(a)
  BY DEF BatchInit, RowComplete, Complete, NoRow
<1>3. ASSUME NEW w \in Workers PROVE StateInv(w) /\ OwnerInv(w)
  <2>1. job[w].phase = "idle"
    BY NoJobTyped DEF BatchInit
  <2> QED  BY <2>1 DEF StateInv, OwnerInv, Carries, AtPage
<1> QED  BY <1>1, <1>2, <1>3 DEF BatchInv

(* Every action keeps the invariant. *)
LEMMA BatchInvKept ==
  BatchInv /\ [BatchNext]_batchVars => BatchInv'
<1> SUFFICES ASSUME BatchInv, [BatchNext]_batchVars PROVE BatchInv'
  OBVIOUS
<1>1. BatchTypes
  BY DEF BatchInv
<1>2. ASSUME NEW w \in Workers, RunnerSteps(w) PROVE BatchInv'
  <2>1. StepBy(w) /\ StateInv(w)' /\ OwnerInv(w)'
    BY <1>2, RunStepKept
  <2>2. BatchTypes'
    BY <2>1 DEF StepBy, RowTypes, BatchTypes
  <2>3. ASSUME NEW a \in Actions PROVE RowComplete(a)'
    BY <2>1, RowsComplete DEF StepBy, RowMoves
  <2>4. ASSUME NEW v \in Workers, v # w PROVE StateInv(v)' /\ OwnerInv(v)'
    <3>1. /\ job'[v] = job[v] /\ job[v].action \in Actions
          /\ lock'[RunnerKey].owner = v => lock[RunnerKey].owner = v
          /\ RowTypes' /\ w \in Workers \ {v}
      BY <1>1, <2>1, <2>4 DEF StepBy, BatchTypes, BatchJobs
    <3>2. RowStays(job[v].action) \/ RowWritten(w, job[v].action)
      BY <2>1, <3>1 DEF StepBy, RowMoves
    <3> QED  BY <3>1, <3>2, OthersKept
  <2> QED  BY <2>1, <2>2, <2>3, <2>4 DEF BatchInv
<1>3. ASSUME NEW a \in Actions, Request(a) PROVE BatchInv'
  BY <1>1, <1>3, RequestEffect, StillKept DEF BatchTypes
<1>4. CASE LockLapses \/ UNCHANGED batchVars
  <2>1. /\ job' = job /\ UNCHANGED <<batchAction, gonePages, overtaken>>
        /\ lock' = [lock EXCEPT ![RunnerKey] = Unlocked] \/ lock' = lock
    BY <1>4 DEF LockLapses, batchVars
  <2>2. \A a \in Actions : RowStays(a)
    BY <2>1 DEF RowStays
  <2>3. RowTypes'
    BY <1>1, <2>1 DEF RowTypes, BatchTypes
  <2>4. /\ lock' \in [Keys -> LockValue]
        /\ \A w \in Workers : lock'[RunnerKey].owner = w => lock[RunnerKey].owner = w
    <3>1. CASE lock' = lock
      BY <1>1, <3>1 DEF BatchTypes
    <3>2. CASE lock' = [lock EXCEPT ![RunnerKey] = Unlocked]
      BY <1>1, <3>2, BatchConstants DEF BatchTypes, Unlocked, LockValue
    <3> QED  BY <2>1, <3>1, <3>2
  <2> QED  BY <2>1, <2>2, <2>3, <2>4, StillKept
<1> QED  BY <1>2, <1>3, <1>4 DEF BatchNext, RunnerSteps

(* What it says of the rows is that no page was skipped. *)
LEMMA BatchInvNothingSkipped ==
  BatchInv => NothingSkipped
  BY DEF BatchInv, RowComplete, Complete, NothingSkipped

(* Whoever stops, dies, fails or is overtaken, and where: the pages before *)
(* the stored one are deleted and counted once each.                       *)
THEOREM NothingIsSkipped ==
  BatchSpec => []NothingSkipped
<1>1. BatchSpec => []BatchInv
  BY BatchInvHolds, BatchInvKept, PTL DEF BatchSpec
<1> QED  BY <1>1, BatchInvNothingSkipped, PTL

(* A row that a run finished changes by a new request, or is marked.       *)
LEMMA FinishedRow ==
  ASSUME BatchInv, [BatchNext]_batchVars, NEW a \in Actions,
         Finished(batchAction[a]), batchAction'[a] # batchAction[a]
  PROVE  batchAction'[a].request > batchAction[a].request \/ overtaken'[a] # "no"
<1>1. BatchTypes /\ batchAction[a].request \in Nat
  BY DEF BatchInv, BatchTypes, BatchRows
<1>2. ASSUME NEW w \in Workers, RunnerSteps(w) PROVE overtaken'[a] # "no"
  <2>1. RowWritten(w, a)
    BY <1>2, RunStepKept DEF StepBy, RowMoves, RowStays
  <2>2. /\ overtaken'[a] = "no" => overtaken[a] = "no" /\ ~Overtaken(w)
        /\ job[w].phase = "writing" /\ job[w].action = a
    BY <2>1 DEF RowWritten
  <2>3. overtaken'[a] = "no" => Owns(w, RunnerKey)
    BY <2>2 DEF BatchInv, StateInv, Overtaken
  <2>4. overtaken'[a] = "no" => a \in Active
    BY <2>2, <2>3 DEF BatchInv, OwnerInv, Carries
  <2> QED  BY <2>4 DEF Active, Finished
<1>3. ASSUME NEW b \in Actions, Request(b) PROVE batchAction'[a].request > batchAction[a].request
  <2>1. RowReset(a)
    BY <1>1, <1>3, RequestEffect DEF RowStays
  <2> QED  BY <1>1, <2>1 DEF RowReset
<1>4. CASE LockLapses \/ UNCHANGED batchVars
  BY <1>4 DEF LockLapses, batchVars
<1> QED  BY <1>2, <1>3, <1>4 DEF BatchNext, RunnerSteps

(* A finished action is not taken up again, and what it says of itself     *)
(* does not change, until it is requested again; except for a run that     *)
(* lost the lock between its check and its write.                          *)
THEOREM FinishedActionsStay ==
  BatchSpec => FinishedStays
<1>1. BatchSpec => []BatchInv
  BY BatchInvHolds, BatchInvKept, PTL DEF BatchSpec
<1>2. BatchInv /\ [BatchNext]_batchVars =>
        [\A a \in Actions :
           /\ Finished(batchAction[a])
           /\ batchAction'[a] # batchAction[a]
           => batchAction'[a].request > batchAction[a].request \/ overtaken'[a] # "no"]_batchVars
  BY FinishedRow
<1> QED  BY <1>1, <1>2, PTL DEF BatchSpec, FinishedStays

-----------------------------------------------------------------------------
(* The bounds of a row.  Unless it is completed, the page in flight tells  *)
(* how many there were before it: so there are never more than pages.      *)
RowWithin(row) ==
  /\ row.request <= MaxRequests
  /\ {row.pages, row.page, row.processed} \subseteq Pages
  /\ row.status # "Completed" => row.processed = IF row.page = 0 THEN 0 ELSE row.page - 1
  /\ row.failures <= MaxFailures
  /\ ~Finished(row) => row.failures < MaxFailures

(* ... and of a run, which may do another page until it is to release.     *)
MayGoOn(j) ==
  \/ j.phase \in {"idle", "picking", "reading", "deleting", "extending", "selecting"}
  \/ j.phase \in {"committing", "writing"} /\ j.then \in {"reading", "deleting"}

BatchJobWithin(j) ==
  /\ RowWithin(j.state)
  /\ j.batches <= MaxBatches
  /\ MayGoOn(j) => j.batches < MaxBatches

(* Who was written before whom, for every row. *)
Ordered == older \in [Actions -> SUBSET Actions] /\ OldestFirst

BatchBounds ==
  /\ LockTypeOK
  /\ \A a \in Actions : RowWithin(batchAction[a]) /\ gonePages[a] \subseteq Pages \ {0}
  /\ \A w \in Workers : BatchJobWithin(job[w])
  /\ Ordered
  /\ batchFaults \in 0..MaxBatchFaults

(* Pages are counted from 0 without a gap. *)
LEMMA PagesCounted ==
  /\ Pages \subseteq Nat /\ 0 \in Pages
  /\ \A p \in Pages, n \in Nat : n <= p => n \in Pages
  /\ \A p \in Nat, n \in Pages : p < n => p + 1 \in Pages
  /\ PageCounts \subseteq Pages
<1>1. PageCounts \subseteq Nat
  BY BatchConstants
<1>2. \A p : p \in Pages <=> \E n \in PageCounts \cup {0} : p \in 0..n
  BY DEF Pages
<1>3. ASSUME NEW p \in Pages, NEW n \in Nat, n <= p PROVE n \in Pages
  <2>1. PICK m \in PageCounts \cup {0} : p \in 0..m
    BY <1>2
  <2>2. n \in 0..m
    BY <1>1, <1>3, <2>1
  <2> QED  BY <1>2, <2>2
<1>4. Pages \subseteq Nat /\ 0 \in Pages
  <2>1. 0 \in 0..0
    OBVIOUS
  <2> QED  BY <1>1, <1>2, <2>1
<1>5. PageCounts \subseteq Pages
  BY <1>1, <1>2
<1>6. ASSUME NEW p \in Nat, NEW n \in Pages, p < n PROVE p + 1 \in Pages
  BY <1>3, <1>4, <1>6
<1> QED  BY <1>3, <1>4, <1>5, <1>6

(* That is all the types say. *)
LEMMA TypesOfBatch == BatchInv /\ BatchBounds => BatchTypeOK
<1> SUFFICES ASSUME BatchInv, BatchBounds PROVE BatchTypeOK
  OBVIOUS
<1> DEFINE Rows == [request : 0..MaxRequests, pages : Pages, page : Pages,
                    status : {"none", "Queued", "Processing", "Completed", "Failed"},
                    processed : Pages, failures : 0..MaxFailures]
           Jobs == [phase : {"idle", "picking", "reading", "deleting", "extending", "selecting",
                             "committing", "writing", "failing", "releasing"},
                    action : Actions, state : Rows, then : {"reading", "deleting", "releasing", "recorded"},
                    batches : 0..MaxBatches, held : BOOLEAN]
<1>1. BatchTypes /\ MaxRequests \in Nat /\ MaxFailures \in Nat /\ MaxBatches \in Nat
  BY BatchAssumption DEF BatchInv
<1>2. ASSUME NEW row \in BatchRows, RowWithin(row) PROVE row \in Rows
  <2>1. /\ row.request \in 0..MaxRequests /\ row.failures \in 0..MaxFailures
        /\ row.pages \in Pages /\ row.page \in Pages /\ row.processed \in Pages
    BY <1>1, <1>2 DEF BatchRows, RowWithin
  <2> QED  BY <2>1 DEF BatchRows
<1>3. ASSUME NEW j \in BatchJobs, BatchJobWithin(j) PROVE j \in Jobs
  <2>1. j.state \in Rows /\ j.batches \in 0..MaxBatches
    BY <1>1, <1>2, <1>3 DEF BatchJobs, BatchJobWithin
  <2> HIDE DEF Rows
  <2> QED  BY <2>1 DEF BatchJobs
<1> HIDE DEF Rows, Jobs
<1>4. batchAction \in [Actions -> Rows]
  BY <1>1, <1>2 DEF BatchTypes, BatchBounds
<1>5. job \in [Workers -> Jobs]
  BY <1>1, <1>3 DEF BatchTypes, BatchBounds
<1>6. gonePages \in [Actions -> SUBSET (Pages \ {0})]
  BY <1>1 DEF BatchTypes, BatchBounds
<1> QED  BY <1>1, <1>4, <1>5, <1>6, Zenon DEF BatchTypeOK, BatchBounds, Ordered, BatchTypes, Rows, Jobs

(* The row before the first request, and a worker without a run. *)
LEMMA NoJobWithin ==
  /\ RowWithin(NoRow) /\ BatchJobWithin(NoJob)
  /\ BatchJobWithin([NoJob EXCEPT !.phase = "releasing"])
<1>1. RowWithin(NoRow)
  BY PagesCounted, BatchAssumption DEF NoRow, RowWithin, Finished
<1>2. NoJob.state = NoRow /\ NoJob.batches = 0
  BY DEF NoJob
<1>3. /\ [NoJob EXCEPT !.phase = "releasing"].state = NoRow
      /\ [NoJob EXCEPT !.phase = "releasing"].batches = 0
  BY DEF NoJob
<1> QED  BY <1>1, <1>2, <1>3, BatchAssumption DEF BatchJobWithin

(* What a run makes of a row it has read. *)
LEMMA StatesWithin ==
  ASSUME NEW row \in BatchRows, RowWithin(row)
  PROVE  /\ ~Finished(row) /\ row.page = 0 /\ PageAfter(row) = 0 => RowWithin(CompletedState(row))
         /\ ~Finished(row) /\ row.page = 0 =>
              RowWithin([row EXCEPT !.status = "Processing", !.page = PageAfter(row)])
         /\ ~Finished(row) => RowWithin([row EXCEPT !.status = "Processing"])
         /\ ~Finished(row) => RowWithin([row EXCEPT !.status = "Failed"])
         /\ row.status = "Processing" /\ row.page # 0 =>
              IF Advanced(row).page = 0 THEN RowWithin(CompletedState(Advanced(row)))
              ELSE RowWithin(Advanced(row))
         /\ ~Finished(row) =>
              LET failed == [row EXCEPT !.failures = row.failures + 1] IN
              IF failed.failures >= MaxFailures THEN RowWithin([failed EXCEPT !.status = "Failed"])
              ELSE RowWithin(failed)
<1>0. /\ Pages \subseteq Nat /\ 0 \in Pages /\ MaxFailures \in Nat \ {0}
      /\ row.request \in Nat /\ row.pages \in Pages /\ row.page \in Pages /\ row.processed \in Pages
      /\ row.failures \in Nat /\ row.request <= MaxRequests /\ {row.page, row.pages} \subseteq Nat
  BY PagesCounted, BatchAssumption DEF RowWithin, BatchRows
<1>1. PageAfter(row) \in Pages /\ (row.page = 0 => PageAfter(row) \in {0, 1})
  <2>1. row.page < row.pages => row.page + 1 \in Pages
    BY <1>0, PagesCounted
  <2> QED  BY <1>0, <2>1 DEF PageAfter
<1>2. ASSUME ~Finished(row), row.page = 0, PageAfter(row) = 0 PROVE RowWithin(CompletedState(row))
  BY <1>0, <1>2 DEF CompletedState, RowWithin, BatchRows, Finished
<1>3. ASSUME ~Finished(row), row.page = 0
      PROVE  RowWithin([row EXCEPT !.status = "Processing", !.page = PageAfter(row)])
  <2> DEFINE p == PageAfter(row)
             x == [row EXCEPT !.status = "Processing", !.page = p]
  <2>1. /\ x.request = row.request /\ x.pages = row.pages /\ x.page = p
        /\ x.processed = row.processed /\ x.failures = row.failures /\ x.status = "Processing"
    BY DEF BatchRows
  <2>2. row.processed = 0 /\ row.failures < MaxFailures
    BY <1>3, Zenon DEF RowWithin, Finished
  <2>3. p \in Pages /\ p \in {0, 1}
    BY <1>1, <1>3
  <2> HIDE DEF x, p
  <2> QED  BY <1>0, <2>1, <2>2, <2>3 DEF RowWithin, Finished, x, p
<1>4. ASSUME ~Finished(row)
      PROVE  RowWithin([row EXCEPT !.status = "Processing"]) /\ RowWithin([row EXCEPT !.status = "Failed"])
  BY <1>0, <1>4 DEF RowWithin, BatchRows, Finished
<1>5. ASSUME row.status = "Processing", row.page # 0
      PROVE  IF Advanced(row).page = 0 THEN RowWithin(CompletedState(Advanced(row)))
             ELSE RowWithin(Advanced(row))
  <2> DEFINE x == Advanced(row)
             y == CompletedState(x)
  <2>1. row.processed + 1 = row.page
    <3>1. row.processed = row.page - 1
      BY <1>5 DEF RowWithin
    <3>2. row.page \in Nat
      BY DEF BatchRows
    <3> QED  BY <3>1, <3>2
  <2>2. /\ x.request = row.request /\ x.pages = row.pages /\ x.page = PageAfter(row)
        /\ x.processed = row.page /\ x.failures = 0 /\ x.status = "Processing"
    BY <2>1, <1>5 DEF Advanced, BatchRows
  <2>3. x \in BatchRows
    BY StatesTyped
  <2> HIDE DEF x
  <2>4. /\ y.request = row.request /\ y.pages = row.pages /\ y.page = 0
        /\ y.processed = row.page /\ y.failures = 0 /\ y.status = "Completed"
    BY <2>2, <2>3 DEF CompletedState, BatchRows
  <2> HIDE DEF y
  <2>5. RowWithin(y)
    BY <1>0, <2>4 DEF RowWithin, Finished
  <2>6. x.page # 0 => x.processed = x.page - 1
    BY <1>0, <2>2 DEF PageAfter
  <2>7. x.page # 0 => RowWithin(x)
    <3>1. /\ x.request <= MaxRequests /\ x.failures < MaxFailures /\ x.failures <= MaxFailures
          /\ {x.pages, x.page, x.processed} \subseteq Pages /\ x.status # "Completed"
      BY <1>0, <1>1, <2>2
    <3> QED  BY <2>6, <3>1, Zenon DEF RowWithin
  <2> QED  BY <2>5, <2>7 DEF x, y
<1>6. ASSUME ~Finished(row)
      PROVE  LET failed == [row EXCEPT !.failures = row.failures + 1] IN
             IF failed.failures >= MaxFailures THEN RowWithin([failed EXCEPT !.status = "Failed"])
             ELSE RowWithin(failed)
  <2>1. row.failures + 1 <= MaxFailures
    BY <1>0, <1>6 DEF RowWithin
  <2> QED  BY <1>0, <1>6, <2>1 DEF RowWithin, BatchRows, Finished
<1> QED  BY <1>2, <1>3, <1>4, <1>5, <1>6

(* The row that is written is the newest. *)
LEMMA TouchedIsNewest ==
  ASSUME Ordered, NEW a \in Actions, Touches(a), batchAction'[a].status # "none",
         \A b \in Actions \ {a} : batchAction'[b].status = batchAction[b].status
  PROVE  Ordered'
<1> DEFINE stored == {b \in Actions : batchAction[b].status # "none"}
<1>1. /\ older' = [b \in Actions |-> IF b = a THEN stored \ {a} ELSE older[b] \ {a}]
      /\ older \in [Actions -> SUBSET Actions]
  BY DEF Touches, Ordered
<1>2. older' \in [Actions -> SUBSET Actions]
  BY <1>1
<1>3. \A b \in Actions : b \notin older'[b]
  BY <1>1 DEF Ordered, OldestFirst
<1>4. ASSUME NEW b \in Actions, NEW c \in older'[b]
      PROVE  older'[c] \subseteq older'[b] /\ batchAction'[c].status # "none"
  <2>1. c \in Actions /\ c # a /\ batchAction[c].status # "none"
    BY <1>1 DEF Ordered, OldestFirst
  <2>2. \A d \in older'[c] : d # a /\ d \in older[c] /\ d \in stored
    BY <1>1, <2>1 DEF Ordered, OldestFirst
  <2>3. b # a => older[c] \subseteq older[b]
    BY <1>1 DEF Ordered, OldestFirst
  <2>4. older'[c] \subseteq older'[b]
    BY <1>1, <2>2, <2>3
  <2> QED  BY <2>1, <2>4
<1>5. ASSUME NEW b \in Actions, NEW c \in Actions, b # c,
             batchAction'[b].status # "none", batchAction'[c].status # "none"
      PROVE  b \in older'[c] \/ c \in older'[b]
  <2>1. CASE b = a
    <3>1. c \in stored \ {a}
      BY <1>5, <2>1
    <3> QED  BY <1>1, <2>1, <3>1
  <2>2. CASE c = a
    <3>1. b \in stored \ {a}
      BY <1>5, <2>2
    <3> QED  BY <1>1, <2>2, <3>1
  <2>3. CASE b # a /\ c # a
    <3>1. b \in older[c] \/ c \in older[b]
      BY <1>5, <2>3 DEF Ordered, OldestFirst
    <3> QED  BY <1>1, <2>3, <3>1
  <2> QED  BY <2>1, <2>2, <2>3
<1> QED  BY <1>2, <1>3, <1>4, <1>5 DEF Ordered, OldestFirst

(* A run that has given up, goes on, or has a state to commit. *)
LEMMA RunsWithin ==
  ASSUME BatchTypes, NEW w \in Workers, BatchJobWithin(job[w])
  PROVE  /\ Releases(w) => BatchJobWithin(job'[w])
         /\ job' = [job EXCEPT ![w] = NoJob] => BatchJobWithin(job'[w])
         /\ \A phase \in {"picking", "extending", "selecting"} :
              MayGoOn(job[w]) /\ Goes(w, phase) => BatchJobWithin(job'[w])
         /\ \A phase \in {"reading", "deleting", "failing"} :
              (phase # "failing" => MayGoOn(job[w])) /\ Proceeds(w, phase) => BatchJobWithin(job'[w])
         /\ \A state \in BatchRows, then \in {"deleting", "releasing", "recorded"} :
              /\ RowWithin(state) /\ Commits(w, state, then)
              /\ then = "deleting" => MayGoOn(job[w])
              => BatchJobWithin(job'[w])
<1>0. job[w] \in BatchJobs /\ job \in [Workers -> BatchJobs] /\ MaxBatches \in Nat
  BY BatchConstants DEF BatchTypes
<1>1. Releases(w) => BatchJobWithin(job'[w])
  BY <1>0, NoJobWithin DEF Releases
<1>2. job' = [job EXCEPT ![w] = NoJob] => BatchJobWithin(job'[w])
  BY <1>0, NoJobWithin
<1>3. ASSUME NEW phase \in {"picking", "extending", "selecting"}, MayGoOn(job[w]), Goes(w, phase)
      PROVE  BatchJobWithin(job'[w])
  <2>1. job'[w].state = job[w].state /\ job'[w].batches = job[w].batches
    BY <1>0, <1>3 DEF Goes, BatchJobs
  <2> QED  BY <1>3, <2>1 DEF BatchJobWithin
<1>4. ASSUME NEW phase \in {"reading", "deleting", "failing"}, phase # "failing" => MayGoOn(job[w]),
             Proceeds(w, phase)
      PROVE  BatchJobWithin(job'[w])
  <2>1. /\ job'[w].state \in {job[w].state, NoRow} /\ job'[w].batches = job[w].batches
        /\ job'[w].phase = phase
    BY <1>0, <1>4 DEF Proceeds, NoJob
  <2>2. MayGoOn(job'[w]) => MayGoOn(job[w])
    BY <1>4, <2>1 DEF MayGoOn
  <2> QED  BY <2>1, <2>2, NoJobWithin DEF BatchJobWithin
<1>5. ASSUME NEW state \in BatchRows, NEW then \in {"deleting", "releasing", "recorded"},
             RowWithin(state), Commits(w, state, then), then = "deleting" => MayGoOn(job[w])
      PROVE  BatchJobWithin(job'[w])
  <2>1. /\ job'[w].state = state /\ job'[w].batches = job[w].batches
        /\ job'[w].phase = "committing" /\ job'[w].then = then
    BY <1>0, <1>5 DEF Commits, BatchJobs
  <2>2. MayGoOn(job'[w]) => MayGoOn(job[w])
    BY <1>5, <2>1 DEF MayGoOn
  <2> QED  BY <1>5, <2>1, <2>2 DEF BatchJobWithin
<1> QED  BY <1>1, <1>2, <1>3, <1>4, <1>5

(* A state that is written is one of its row. *)
LEMMA WritesWithin ==
  ASSUME BatchInv, BatchBounds, NEW w \in Workers, Writes(w), job[w].phase = "writing"
  PROVE  (\A a \in Actions : RowWithin(batchAction'[a])) /\ Ordered'
<1> DEFINE a == job[w].action
           state == job[w].state
           row == [state EXCEPT !.request = batchAction[a].request, !.pages = batchAction[a].pages]
<1>1. /\ a \in Actions /\ state \in BatchRows /\ batchAction \in [Actions -> BatchRows]
      /\ state.status # "none" /\ batchAction[a].status # "none"
  BY DEF BatchInv, BatchTypes, BatchJobs, StateInv, Carries
<1>2. RowWithin(state) /\ \A b \in Actions : RowWithin(batchAction[b])
  BY DEF BatchBounds, BatchJobWithin
<1>3. batchAction' = [batchAction EXCEPT ![a] = row] /\ Touches(a)
  BY DEF Writes
<1> HIDE DEF a, state
<1>4. /\ row.request = batchAction[a].request /\ row.pages = batchAction[a].pages
      /\ row.status = state.status /\ row.page = state.page /\ row.processed = state.processed
      /\ row.failures = state.failures
  BY <1>1 DEF BatchRows
<1> HIDE DEF row
<1>5. RowWithin(row)
  BY <1>1, <1>2, <1>4 DEF RowWithin, Finished
<1>6. /\ batchAction'[a] = row /\ \A b \in Actions \ {a} : batchAction'[b] = batchAction[b]
  BY <1>1, <1>3
<1>7. Ordered'
  BY <1>1, <1>3, <1>4, <1>6, TouchedIsNewest DEF BatchBounds
<1> QED  BY <1>2, <1>5, <1>6, <1>7

(* A step of a run moves the run, and perhaps a row. *)
LEMMA OneJobWithin ==
  ASSUME BatchInv, BatchBounds, NEW w \in Workers, \A v \in Workers \ {w} : job'[v] = job[v],
         BatchJobWithin(job'[w]), LockTypeOK', batchFaults' \in 0..MaxBatchFaults,
         \A a \in Actions : gonePages'[a] \subseteq Pages \ {0},
         UNCHANGED <<batchAction, older>> \/ (Writes(w) /\ job[w].phase = "writing")
  PROVE  BatchBounds'
<1>1. \A v \in Workers : BatchJobWithin(job'[v])
  BY DEF BatchBounds
<1>2. (\A a \in Actions : RowWithin(batchAction'[a])) /\ Ordered'
  <2>1. CASE UNCHANGED <<batchAction, older>>
    BY <2>1 DEF BatchBounds, Ordered, OldestFirst
  <2>2. CASE Writes(w) /\ job[w].phase = "writing"
    BY <2>2, WritesWithin
  <2> QED  BY <2>1, <2>2
<1> QED  BY <1>1, <1>2 DEF BatchBounds

(* Every step of a run keeps the bounds. *)
LEMMA RunnersStayWithin ==
  ASSUME BatchInv, BatchBounds, NEW w \in Workers, RunnerSteps(w)
  PROVE  BatchBounds'
<1> DEFINE state == job[w].state
           row == batchAction[job[w].action]
<1>0. /\ BatchTypes /\ StateInv(w) /\ job[w] \in BatchJobs /\ job \in [Workers -> BatchJobs]
      /\ state \in BatchRows /\ row \in BatchRows
      /\ RowWithin(state) /\ RowWithin(row) /\ BatchJobWithin(job[w])
      /\ LockTypeOK /\ RunnerKey \in Keys
  BY BatchConstants DEF BatchInv, BatchBounds, BatchTypes, BatchJobs, BatchJobWithin
<1>a. /\ batchFaults \in 0..MaxBatchFaults
      /\ \A cost \in {1, 2} : Strikes(cost) => batchFaults' \in 0..MaxBatchFaults
  BY BatchAssumption DEF Strikes, BatchBounds
<1>b. lock' = lock => LockTypeOK'
  BY <1>0 DEF LockTypeOK, IsFree
<1>c. gonePages' = gonePages => \A a \in Actions : gonePages'[a] \subseteq Pages \ {0}
  BY DEF BatchBounds
<1>d. \A v \in Workers \ {w} : job'[v] = job[v]
  BY RunStepKept DEF StepBy
<1>e. ASSUME BatchJobWithin(job'[w]), UNCHANGED <<lock, gonePages>>,
             batchFaults' = batchFaults \/ Strikes(1) \/ Strikes(2),
             UNCHANGED <<batchAction, older>> \/ (Writes(w) /\ job[w].phase = "writing")
      PROVE  BatchBounds'
  <2>1. batchFaults' \in 0..MaxBatchFaults
    BY <1>a, <1>e
  <2> QED  BY <1>b, <1>c, <1>d, <1>e, <2>1, OneJobWithin
<1>f. ASSUME BatchJobWithin(job'[w]), LockTypeOK', UNCHANGED <<batchAction, older, gonePages>>,
             batchFaults' = batchFaults \/ Strikes(2)
      PROVE  BatchBounds'
  <2>1. batchFaults' \in 0..MaxBatchFaults
    BY <1>a, <1>f
  <2> QED  BY <1>c, <1>d, <1>f, <2>1, OneJobWithin
<1>1. CASE Pick(w)
  <2>1. ASSUME NEW a, job' = [job EXCEPT ![w].phase = "reading", ![w].action = a]
        PROVE  job'[w].state = state /\ job'[w].batches = job[w].batches
    BY <1>0, <2>1 DEF BatchJobs
  <2>2. \/ Releases(w)
        \/ job[w].phase = "picking" /\ \E a : job' = [job EXCEPT ![w].phase = "reading", ![w].action = a]
    BY <1>1 DEF Pick
  <2>3. BatchJobWithin(job'[w])
    BY <1>0, <2>1, <2>2, RunsWithin DEF BatchJobWithin, MayGoOn
  <2> QED  BY <1>1, <1>e, <2>3 DEF Pick
<1>2. CASE Read(w)
  <2>0. MayGoOn(job[w])
    BY <1>2 DEF Read, MayGoOn
  <2>1. \/ Releases(w)
        \/ ~Finished(row) /\ row.page = 0 /\ PageAfter(row) = 0 /\ Commits(w, CompletedState(row), "releasing")
        \/ /\ ~Finished(row) /\ row.page = 0
           /\ Commits(w, [row EXCEPT !.status = "Processing", !.page = PageAfter(row)], "deleting")
        \/ ~Finished(row) /\ Commits(w, [row EXCEPT !.status = "Processing"], "deleting")
        \/ job' = [job EXCEPT ![w].phase = "deleting", ![w].state = row]
    BY <1>2 DEF Read
  <2>2. CASE Releases(w)
    BY <1>0, <1>2, <1>e, <2>2, RunsWithin DEF Read
  <2>3. ASSUME NEW next \in BatchRows, RowWithin(next), NEW then \in {"deleting", "releasing"},
               Commits(w, next, then)
        PROVE  BatchBounds'
    <3>1. BatchJobWithin(job'[w])
      BY <1>0, <2>0, <2>3, RunsWithin
    <3> QED  BY <1>2, <1>e, <3>1 DEF Read
  <2>4. CASE job' = [job EXCEPT ![w].phase = "deleting", ![w].state = row]
    <3> HIDE DEF row
    <3>1. job'[w].state = row /\ job'[w].batches = job[w].batches
      BY <1>0, <2>4 DEF BatchJobs
    <3>2. BatchJobWithin(job'[w])
      BY <1>0, <2>0, <3>1 DEF BatchJobWithin
    <3> QED  BY <1>2, <1>e, <3>2 DEF Read
  <2> HIDE DEF row
  <2>5. /\ CompletedState(row) \in BatchRows /\ [row EXCEPT !.status = "Processing"] \in BatchRows
        /\ [row EXCEPT !.status = "Processing", !.page = PageAfter(row)] \in BatchRows
    BY <1>0, StatesTyped
  <2>6. CASE ~Finished(row) /\ row.page = 0 /\ PageAfter(row) = 0 /\ Commits(w, CompletedState(row), "releasing")
    BY <1>0, <2>3, <2>5, <2>6, StatesWithin
  <2>7. CASE /\ ~Finished(row) /\ row.page = 0
             /\ Commits(w, [row EXCEPT !.status = "Processing", !.page = PageAfter(row)], "deleting")
    BY <1>0, <2>3, <2>5, <2>7, StatesWithin
  <2>8. CASE ~Finished(row) /\ Commits(w, [row EXCEPT !.status = "Processing"], "deleting")
    BY <1>0, <2>3, <2>5, <2>8, StatesWithin
  <2> QED  BY <2>1, <2>2, <2>4, <2>6, <2>7, <2>8
<1>3. CASE Skip(w)
  <2>1. Commits(w, [state EXCEPT !.status = "Failed"], "releasing") /\ ~Finished(state)
    BY <1>0, <1>3 DEF Skip, StateInv, AtPage, Finished
  <2>2. [state EXCEPT !.status = "Failed"] \in BatchRows /\ RowWithin([state EXCEPT !.status = "Failed"])
    BY <1>0, <2>1, StatesTyped, StatesWithin
  <2>3. BatchJobWithin(job'[w])
    BY <1>0, <2>1, <2>2, RunsWithin
  <2> QED  BY <1>3, <1>e, <2>3 DEF Skip
<1>4. CASE DeletePage(w)
  <2>1. state.page # 0 /\ state.page \in Pages
    BY <1>0, <1>4 DEF DeletePage, StateInv, AtPage, RowWithin
  <2>2. \A a \in Actions : gonePages'[a] \subseteq Pages \ {0}
    BY <1>0, <1>4, <2>1 DEF DeletePage, BatchBounds, BatchTypes
  <2>3. BatchJobWithin(job'[w])
    BY <1>0, <1>4, RunsWithin DEF DeletePage, MayGoOn
  <2> QED  BY <1>4, <1>a, <1>b, <1>d, <2>2, <2>3, OneJobWithin DEF DeletePage
<1>5. CASE Extend(w)
  <2>1. LockTypeOK'
    BY <1>0, <1>5, LockStaysTyped DEF Extend
  <2>2. BatchJobWithin(job'[w])
    BY <1>0, <1>5, RunsWithin DEF Extend, MayGoOn
  <2> QED  BY <1>5, <1>f, <2>1, <2>2 DEF Extend
<1>6. CASE SelectNext(w)
  <2> DEFINE next == Advanced(state)
             again == job[w].batches + 1 < MaxBatches
             after == IF again THEN "reading" ELSE "releasing"
             n == job[w].batches + 1
  <2>0. next \in BatchRows
    BY <1>0, StatesTyped
  <2>1. /\ CompletedState(next) \in BatchRows
        /\ next.page = 0 => RowWithin(CompletedState(next))
        /\ next.page # 0 => RowWithin(next)
    BY <1>0, <1>6, <2>0, StatesTyped, StatesWithin DEF SelectNext, StateInv, AtPage
  <2>2. \/ next.page = 0 /\ Commits(w, CompletedState(next), "releasing")
        \/ /\ next.page # 0
           /\ job' = [job EXCEPT ![w].phase = "committing", ![w].state = next, ![w].then = after,
                                 ![w].batches = n]
    BY <1>6 DEF SelectNext
  <2>3. /\ job[w].batches < MaxBatches /\ job[w].batches \in Nat /\ MaxBatches \in Nat
    BY <1>0, <1>6, BatchConstants DEF SelectNext, BatchJobWithin, MayGoOn, BatchJobs
  <2>4. n <= MaxBatches /\ (after = "reading" => n < MaxBatches) /\ after \in {"reading", "releasing"}
    BY <2>3
  <2> HIDE DEF next, after, n, again
  <2>5. CASE next.page = 0 /\ Commits(w, CompletedState(next), "releasing")
    <3>1. BatchJobWithin(job'[w])
      BY <1>0, <2>1, <2>5, RunsWithin
    <3> QED  BY <1>6, <1>e, <3>1 DEF SelectNext
  <2>6. CASE /\ next.page # 0
             /\ job' = [job EXCEPT ![w].phase = "committing", ![w].state = next, ![w].then = after,
                                   ![w].batches = n]
    <3>1. /\ job'[w].phase = "committing" /\ job'[w].state = next /\ job'[w].then = after
          /\ job'[w].batches = n
      BY <1>0, <2>6 DEF BatchJobs
    <3>2. BatchJobWithin(job'[w])
      BY <2>1, <2>4, <2>6, <3>1 DEF BatchJobWithin, MayGoOn
    <3> QED  BY <1>6, <1>e, <3>2 DEF SelectNext
  <2> QED  BY <2>2, <2>5, <2>6
<1>7. CASE Check(w)
  <2>1. ASSUME NEW held, job' = [job EXCEPT ![w].phase = "writing", ![w].held = held]
        PROVE  /\ job'[w].state = state /\ job'[w].batches = job[w].batches /\ job'[w].then = job[w].then
               /\ job'[w].phase = "writing"
    BY <1>0, <2>1 DEF BatchJobs
  <2>2. /\ job[w].phase = "committing"
        /\ Releases(w) \/ \E held : job' = [job EXCEPT ![w].phase = "writing", ![w].held = held]
    BY <1>7 DEF Check
  <2>3. BatchJobWithin(job'[w])
    BY <1>0, <2>1, <2>2, RunsWithin DEF BatchJobWithin, MayGoOn
  <2> QED  BY <1>7, <1>e, <2>3 DEF Check
<1>8. CASE Write(w)
  <2>1. \/ Releases(w)
        \/ job[w].then \in {"reading", "deleting"} /\ Proceeds(w, job[w].then)
    BY <1>0, <1>8 DEF Write, BatchJobs
  <2>2. BatchJobWithin(job'[w])
    BY <1>0, <1>8, <2>1, RunsWithin DEF MayGoOn, Write
  <2> QED  BY <1>8, <1>e, <2>2 DEF Write
<1>9. CASE Throws(w)
  <2>1. BatchJobWithin(job'[w])
    BY <1>0, <1>9, RunsWithin DEF Throws
  <2> QED  BY <1>9, <1>e, <2>1 DEF Throws
<1>10. CASE RecordFailure(w)
  <2> DEFINE failed == [row EXCEPT !.failures = row.failures + 1]
             next == IF failed.failures >= MaxFailures THEN [failed EXCEPT !.status = "Failed"] ELSE failed
  <2>1. Releases(w) \/ (~Finished(row) /\ Commits(w, next, "recorded"))
    BY <1>10 DEF RecordFailure
  <2>2. ~Finished(row) => RowWithin(next)
    BY <1>0, StatesWithin
  <2>3. failed \in BatchRows
    BY <1>0, StatesTyped
  <2>4. next \in BatchRows
    BY <2>3, StatesTyped
  <2> HIDE DEF next, row
  <2>5. BatchJobWithin(job'[w])
    BY <1>0, <2>1, <2>2, <2>4, RunsWithin
  <2> QED  BY <1>10, <1>e, <2>5 DEF RecordFailure
<1>11. CASE RecordErrs(w)
  <2>1. BatchJobWithin(job'[w])
    BY <1>0, <1>11, RunsWithin DEF RecordErrs
  <2> QED  BY <1>11, <1>e, <2>1 DEF RecordErrs
<1>12. CASE Acquire(w)
  <2>1. BatchJobWithin(job'[w]) /\ LockTypeOK'
    BY <1>0, <1>12, RunsWithin, LockStaysTyped DEF Acquire, MayGoOn
  <2> QED  BY <1>12, <1>f, <2>1 DEF Acquire
<1>13. CASE Finish(w)
  <2>1. BatchJobWithin(job'[w]) /\ LockTypeOK'
    BY <1>0, <1>13, RunsWithin, LockStaysTyped DEF Finish
  <2> QED  BY <1>13, <1>f, <2>1 DEF Finish
<1>14. CASE RedisErrs(w)
  <2>1. BatchJobWithin(job'[w])
    BY <1>0, <1>14, RunsWithin DEF RedisErrs
  <2> QED  BY <1>14, <1>e, <2>1 DEF RedisErrs
<1>15. CASE RunnerDies(w)
  <2>1. BatchJobWithin(job'[w]) /\ LockTypeOK'
    BY <1>0, <1>15, RunsWithin, LockStaysTyped DEF RunnerDies
  <2> QED  BY <1>15, <1>f, <2>1 DEF RunnerDies
<1> QED
  BY <1>1, <1>2, <1>3, <1>4, <1>5, <1>6, <1>7, <1>8, <1>9, <1>10, <1>11, <1>12, <1>13, <1>14, <1>15
     DEF RunnerSteps, JobSteps

(* createBatchActionJob: the new row is the newest. *)
LEMMA RequestStaysWithin ==
  ASSUME BatchInv, BatchBounds, NEW a \in Actions, Request(a)
  PROVE  BatchBounds'
<1>1. PICK n \in PageCounts :
        batchAction' = [batchAction EXCEPT
          ![a] = [NoRow EXCEPT !.request = batchAction[a].request + 1, !.pages = n, !.status = "Queued"]]
  BY DEF Request
<1> DEFINE row == [NoRow EXCEPT !.request = batchAction[a].request + 1, !.pages = n, !.status = "Queued"]
<1>2. /\ batchAction \in [Actions -> BatchRows] /\ batchAction[a].request + 1 <= MaxRequests
      /\ gonePages \in [Actions -> SUBSET Nat] /\ MaxFailures \in Nat \ {0} /\ n \in Pages /\ 0 \in Pages
  <2>1. batchAction[a].request \in Nat /\ MaxRequests \in Nat /\ batchAction[a].request < MaxRequests
    BY BatchAssumption DEF BatchInv, BatchTypes, BatchRows, Request
  <2> QED  BY <2>1, PagesCounted, BatchAssumption DEF BatchInv, BatchTypes
<1>3. /\ row.request = batchAction[a].request + 1 /\ row.pages = n /\ row.page = 0 /\ row.processed = 0
      /\ row.failures = 0 /\ row.status = "Queued"
  BY DEF NoRow
<1>4. /\ UNCHANGED <<lock, job, batchFaults>> /\ gonePages' = [gonePages EXCEPT ![a] = {}] /\ Touches(a)
      /\ batchAction' = [batchAction EXCEPT ![a] = row]
  BY <1>1 DEF Request
<1> HIDE DEF row
<1>5. RowWithin(row)
  BY <1>2, <1>3 DEF RowWithin, Finished
<1>6. batchAction'[a] = row /\ \A b \in Actions \ {a} : batchAction'[b] = batchAction[b]
  BY <1>2, <1>4
<1>7. Ordered'
  BY <1>3, <1>4, <1>6, TouchedIsNewest DEF BatchBounds
<1>8. \A b \in Actions : RowWithin(batchAction'[b]) /\ gonePages'[b] \subseteq Pages \ {0}
  BY <1>2, <1>4, <1>5, <1>6 DEF BatchBounds
<1>9. LockTypeOK'
  BY <1>4 DEF BatchBounds, LockTypeOK, IsFree
<1> QED  BY <1>4, <1>7, <1>8, <1>9 DEF BatchBounds

(* Every step keeps the bounds. *)
LEMMA BatchBoundsKept == BatchInv /\ BatchBounds /\ [BatchNext]_batchVars => BatchBounds'
<1> SUFFICES ASSUME BatchInv, BatchBounds, [BatchNext]_batchVars PROVE BatchBounds'
  OBVIOUS
<1>1. ASSUME NEW w \in Workers, RunnerSteps(w) PROVE BatchBounds'
  BY <1>1, RunnersStayWithin
<1>2. ASSUME NEW a \in Actions, Request(a) PROVE BatchBounds'
  BY <1>2, RequestStaysWithin
<1>3. CASE LockLapses \/ UNCHANGED batchVars
  <2>1. /\ lock' = lock \/ lock' = [lock EXCEPT ![RunnerKey] = Unlocked]
        /\ batchFaults' = batchFaults \/ Strikes(2)
        /\ UNCHANGED <<batchAction, older, gonePages, job>>
    BY <1>3 DEF LockLapses, batchVars
  <2>2. LockTypeOK'
    <3>1. CASE lock' = lock
      BY <3>1 DEF BatchBounds, LockTypeOK, IsFree
    <3>2. CASE lock' = [lock EXCEPT ![RunnerKey] = Unlocked]
      BY <3>2, LockStaysTyped, BatchConstants DEF BatchBounds
    <3> QED  BY <2>1, <3>1, <3>2
  <2>3. batchFaults' \in 0..MaxBatchFaults
    BY <2>1, BatchAssumption DEF Strikes, BatchBounds
  <2> QED  BY <2>1, <2>2, <2>3 DEF BatchBounds, Ordered, OldestFirst
<1> QED  BY <1>1, <1>2, <1>3 DEF BatchNext, RunnerSteps

(* They hold at first. *)
LEMMA BatchBoundsHold == BatchInit => BatchBounds
<1> SUFFICES ASSUME BatchInit PROVE BatchBounds
  OBVIOUS
<1>1. LockTypeOK
  BY LockAssumption DEF BatchInit, LockInit, Unlocked, LockTypeOK, IsFree
<1>2. Ordered
  BY DEF BatchInit, NoRow, Ordered, OldestFirst
<1> QED  BY <1>1, <1>2, NoJobWithin, BatchAssumption DEF BatchInit, BatchBounds

(* src/worker/src/features/trace-delete-batch-action-runner/index.ts: the  *)
(* rows, the pages counted in them, their failures and the order in which  *)
(* they are taken stay within what the configuration sets.                 *)
THEOREM BatchIsTyped == BatchSpec => []BatchTypeOK
<1>1. BatchInit => BatchInv /\ BatchBounds
  BY BatchInvHolds, BatchBoundsHold
<1>2. BatchInv /\ BatchBounds /\ [BatchNext]_batchVars => BatchInv' /\ BatchBounds'
  BY BatchInvKept, BatchBoundsKept
<1> QED  BY <1>1, <1>2, TypesOfBatch, PTL DEF BatchSpec

-----------------------------------------------------------------------------
(* A behaviour of all the jobs is one of each that has nothing to do with  *)
(* the lock.                                                               *)
LEMMA PartsOfTheWhole == JobsSpec => DeletionSpec /\ MeteringSpec /\ RunnerSpec /\ PromptSpec
<1>1. JobsInit => DeletionInit /\ MeteringInit /\ RunnerInit /\ PromptInit
  BY DEF JobsInit
<1>2. ASSUME [JobsNext]_jobsVars
      PROVE  /\ [DeletionNext]_deletionVars /\ [MeteringNext]_meteringVars /\ [RunnerNext]_runnerVars
             /\ [PromptNext]_promptVars
  BY <1>2 DEF JobsNext, jobsVars, RetentionAlone, BatchAlone, DeletionAlone, MeteringAlone, RunnerAlone,
              PromptsAlone
<1> QED  BY <1>1, <1>2, PTL DEF JobsSpec, DeletionSpec, MeteringSpec, RunnerSpec, PromptSpec

(* What a command, the clock or a death makes of one lock leaves the       *)
(* others.                                                                 *)
LEMMA OtherLocksStay ==
  ASSUME NEW k \in Keys, NEW j \in Keys, j # k, lock \in [Keys -> LockValue], NEW w,
         lock' \in {lock, Acquired(w, k), Extended(w, k), Released(w, k), Orphaned(w, k), Elapsed(k),
                    [lock EXCEPT ![k] = Unlocked]}
  PROVE  lock'[j] = lock[j]
<1>1. \A x : [lock EXCEPT ![k] = x][j] = lock[j]
  OBVIOUS
<1>2. Acquired(w, k)[j] = lock[j] /\ Elapsed(k)[j] = lock[j]
  BY DEF Acquired, Elapsed
<1>3. Extended(w, k)[j] = lock[j] /\ Released(w, k)[j] = lock[j]
  BY <1>1, <1>2 DEF Extended, Released
<1>4. Orphaned(w, k)[j] = lock[j]
  BY DEF Orphaned
<1> QED  BY <1>1, <1>2, <1>3, <1>4

(* The cleaner does nothing to a lock but its own, *)
LEMMA CleanerHasItsKey ==
  ASSUME lock \in [Keys -> LockValue], RetentionNext
  PROVE  lock'[RunnerKey] = lock[RunnerKey]
<1>1. RetentionKey \in Keys /\ RunnerKey \in Keys /\ RunnerKey # RetentionKey
  BY RetentionAssumption, BatchAssumption, KeysAssumption
<1>2. ASSUME NEW w \in Workers, Begin(w) \/ RunSteps(w) \/ RetentionFaultSteps(w)
      PROVE  lock'[RunnerKey] = lock[RunnerKey]
  <2>1. \/ lock' \in {lock, Acquired(w, RetentionKey), Extended(w, RetentionKey),
                      Released(w, RetentionKey), Orphaned(w, RetentionKey)}
        \/ lock' = [lock EXCEPT ![RetentionKey] = Unlocked]
    <3>1. ASSUME Begin(w) \/ BeginErrs(w) PROVE lock' \in {lock, Acquired(w, RetentionKey)}
      BY <3>1 DEF Begin, BeginErrs
    <3>2. ASSUME NEW c \in Chunks, ChunkSteps(w, c) PROVE lock' = lock
      BY <3>2 DEF ChunkSteps, StartQuery, RowArrives, CandidatesEnd, EnrichmentEnds, EnrichmentFails, At
    <3>3. ASSUME RedisEvaluates(w) \/ RenewalErrs(w) PROVE lock' \in {lock, Extended(w, RetentionKey)}
      BY <3>3 DEF RedisEvaluates, RenewalErrs
    <3>4. ASSUME RenewalAnswered(w) \/ SearchEnds(w) \/ DeleteEnds(w) PROVE lock' = lock
      BY <3>4 DEF RenewalAnswered, SearchEnds, DeleteEnds
    <3>5. ASSUME Release(w) \/ ReleaseErrs(w) PROVE lock' \in {lock, Released(w, RetentionKey)}
      BY <3>5 DEF Release, ReleaseErrs
    <3>6. ASSUME Dies(w) PROVE lock' = Orphaned(w, RetentionKey)
      BY <3>6 DEF Dies
    <3>7. ASSUME Stalls(w) PROVE lock' = [lock EXCEPT ![RetentionKey] = Unlocked]
      BY <3>7 DEF Stalls
    <3>8. ASSUME DeleteBreaksOff(w) PROVE lock' = lock
      BY <3>8 DEF DeleteBreaksOff
    <3> QED
      BY <1>2, <3>1, <3>2, <3>3, <3>4, <3>5, <3>6, <3>7, <3>8 DEF RunSteps, RetentionFaultSteps
  <2> QED  BY <1>1, <2>1, OtherLocksStay
<1>3. CASE Tick
  <2>1. lock' = Elapsed(RetentionKey)
    BY <1>3 DEF Tick
  <2> QED  BY <1>1, <2>1, OtherLocksStay
<1> QED  BY <1>2, <1>3 DEF RetentionNext

(* ... and neither do the runner of the batch actions and its lapses. *)
LEMMA RunnerHasItsKey ==
  ASSUME lock \in [Keys -> LockValue], BatchNext
  PROVE  lock'[RetentionKey] = lock[RetentionKey]
<1>1. RetentionKey \in Keys /\ RunnerKey \in Keys /\ RunnerKey # RetentionKey
  BY RetentionAssumption, BatchAssumption, KeysAssumption
<1>2. ASSUME NEW w \in Workers,
             JobSteps(w) \/ Skip(w) \/ Throws(w) \/ RecordErrs(w) \/ RedisErrs(w) \/ RunnerDies(w)
      PROVE  lock'[RetentionKey] = lock[RetentionKey]
  <2>1. lock' \in {lock, Acquired(w, RunnerKey), Extended(w, RunnerKey), Released(w, RunnerKey),
                   Orphaned(w, RunnerKey)}
    <3>1. ASSUME Pick(w) \/ DeletePage(w) \/ SelectNext(w) \/ Check(w) \/ RecordFailure(w) \/ Skip(w)
          PROVE  lock' = lock
      BY <3>1 DEF Pick, DeletePage, SelectNext, Check, RecordFailure, Skip
    <3>2. ASSUME Read(w) \/ Write(w) \/ Throws(w) \/ RecordErrs(w) \/ RedisErrs(w) PROVE lock' = lock
      BY <3>2 DEF Read, Write, Throws, RecordErrs, RedisErrs
    <3>3. ASSUME Acquire(w) \/ Extend(w) PROVE lock' \in {Acquired(w, RunnerKey), Extended(w, RunnerKey)}
      BY <3>3 DEF Acquire, Extend
    <3>4. ASSUME Finish(w) \/ RunnerDies(w) PROVE lock' \in {Released(w, RunnerKey), Orphaned(w, RunnerKey)}
      BY <3>4 DEF Finish, RunnerDies
    <3> QED  BY <1>2, <3>1, <3>2, <3>3, <3>4 DEF JobSteps
  <2> QED  BY <1>1, <2>1, OtherLocksStay
<1>3. ASSUME NEW a \in Actions, Request(a) PROVE lock'[RetentionKey] = lock[RetentionKey]
  BY <1>3 DEF Request
<1>4. CASE LockLapses
  <2>1. lock' = [lock EXCEPT ![RunnerKey] = Unlocked]
    BY <1>4 DEF LockLapses
  <2> QED  BY <1>1, <2>1, OtherLocksStay
<1> QED  BY <1>2, <1>3, <1>4 DEF BatchNext

(* What holds of a task under its lock stays true while others move theirs. *)
LEMMA CleanerStandsStill ==
  ASSUME UNCHANGED ownRetention, lock'[RetentionKey] = lock[RetentionKey], LockTypeOK'
  PROVE  /\ LeaseInv /\ RetentionBounds => LeaseInv' /\ RetentionBounds'
         /\ Healthy => Healthy'
<1>1. UNCHANGED <<sweep, strayDelete, brokenOff, retentionFaults>>
  BY DEF ownRetention
<1>2. lock' \in [Keys -> LockValue]
  BY DEF LockTypeOK, LockValue
<1>3. LeaseInv => LeaseInv'
  BY <1>1, <1>2 DEF LeaseInv, RetentionTypes
<1>4. RetentionBounds => RetentionBounds'
  BY <1>1 DEF RetentionBounds
<1>5. Healthy => Healthy'
  BY <1>1 DEF Healthy
<1> QED  BY <1>3, <1>4, <1>5

LEMMA RunnerStandsStill ==
  ASSUME UNCHANGED ownBatch, lock'[RunnerKey] = lock[RunnerKey], LockTypeOK'
  PROVE  BatchInv /\ BatchBounds => BatchInv' /\ BatchBounds'
<1>1. UNCHANGED <<batchAction, older, gonePages, job, overtaken, batchFaults>>
  BY DEF ownBatch
<1>2. lock' \in [Keys -> LockValue]
  BY DEF LockTypeOK, LockValue
<1>3. BatchTypes => BatchTypes'
  BY <1>1, <1>2 DEF BatchTypes
<1>4. ASSUME NEW a \in Actions PROVE RowComplete(a) => RowComplete(a)'
  BY <1>1 DEF RowComplete
<1>5. ASSUME NEW w \in Workers PROVE StateInv(w) => StateInv(w)'
  BY <1>1 DEF StateInv, Carries, AtPage, CarriesComplete
<1>6. ASSUME NEW w \in Workers PROVE OwnerInv(w) => OwnerInv(w)'
  BY <1>1 DEF OwnerInv, Carries, Owns, Active
<1>7. BatchInv => BatchInv'
  BY <1>3, <1>4, <1>5, <1>6 DEF BatchInv
<1>8. Ordered => Ordered'
  BY <1>1 DEF Ordered, OldestFirst
<1>9. BatchBounds => BatchBounds'
  BY <1>1, <1>8 DEF BatchBounds
<1> QED  BY <1>7, <1>9

(* The invariants of the two tasks that have a lock, side by side. *)
LockInv == LeaseInv /\ RetentionBounds /\ BatchInv /\ BatchBounds

LEMMA LockInvHolds == JobsInit => LockInv
  BY LeaseInvInit, RetentionBoundsHold, BatchInvHolds, BatchBoundsHold DEF JobsInit, LockInv

(* Every step keeps them, and renewals in time with them. *)
LEMMA LockInvKept ==
  LockInv /\ [JobsNext]_jobsVars => LockInv' /\ (ShortQueries /\ Healthy => Healthy')
<1> SUFFICES ASSUME LockInv, [JobsNext]_jobsVars PROVE LockInv' /\ (ShortQueries /\ Healthy => Healthy')
  OBVIOUS
<1>0. lock \in [Keys -> LockValue] /\ LockTypeOK
  BY DEF LockInv, LeaseInv, RetentionTypes, RetentionBounds
<1>1. CASE RetentionAlone /\ RetentionNext
  <2>1. /\ LeaseInv' /\ RetentionBounds'
        /\ ShortQueries /\ Healthy => Healthy'
    BY <1>1, LeaseInvKept, RetentionBoundsKept, HealthyKept DEF LockInv
  <2>2. lock'[RunnerKey] = lock[RunnerKey]
    BY <1>0, <1>1, CleanerHasItsKey
  <2>3. UNCHANGED ownBatch /\ LockTypeOK'
    BY <1>1, <2>1 DEF RetentionAlone, RetentionBounds
  <2>4. BatchInv' /\ BatchBounds'
    BY <2>2, <2>3, RunnerStandsStill DEF LockInv
  <2> QED  BY <2>1, <2>4 DEF LockInv
<1>2. CASE BatchAlone /\ BatchNext
  <2>1. BatchInv' /\ BatchBounds'
    BY <1>2, BatchInvKept, BatchBoundsKept DEF LockInv
  <2>2. lock'[RetentionKey] = lock[RetentionKey]
    BY <1>0, <1>2, RunnerHasItsKey
  <2>3. UNCHANGED ownRetention /\ LockTypeOK'
    BY <1>2, <2>1 DEF BatchAlone, BatchBounds
  <2>4. LeaseInv' /\ RetentionBounds' /\ (Healthy => Healthy')
    BY <2>2, <2>3, CleanerStandsStill DEF LockInv
  <2> QED  BY <2>1, <2>4 DEF LockInv
<1>3. CASE UNCHANGED <<lock, ownRetention, ownBatch>>
  <2>1. UNCHANGED lock /\ UNCHANGED ownRetention /\ UNCHANGED ownBatch
    BY <1>3
  <2>2. LockTypeOK'
    BY <1>0, <2>1 DEF LockTypeOK, IsFree
  <2> QED  BY <2>1, <2>2, CleanerStandsStill, RunnerStandsStill DEF LockInv
<1> QED
  BY <1>1, <1>2, <1>3 DEF JobsNext, DeletionAlone, MeteringAlone, RunnerAlone, PromptsAlone, jobsVars

LEMMA LockInvAlways == JobsSpec => []LockInv
<1>1. LockInv /\ [JobsNext]_jobsVars => LockInv'
  BY LockInvKept
<1> QED  BY <1>1, LockInvHolds, PTL DEF JobsSpec

(* src/worker/src/app.ts starts the jobs in every worker.  Side by side,   *)
(* all they keep and share has its type, for every number of workers,      *)
(* actions, traces, meters and prompts.                                    *)
THEOREM JobsTyped == JobsSpec => []TypeOK
<1>1. LockInv => RetentionTypeOK /\ BatchTypeOK
  BY TypesOfRetention, TypesOfBatch DEF LockInv
<1>2. LockInv /\ DeletionTypeOK /\ MeteringTypeOK /\ RunnerTypeOK /\ PromptTypeOK => TypeOK
  BY <1>1 DEF TypeOK
<1> QED
  BY <1>2, LockInvAlways, PartsOfTheWhole, DeletionIsTyped, MeteringIsTyped, RunnerIsTyped, CacheIsTyped,
     PTL

(* src/worker/src/app.ts, src/worker/src/utils/RedisLock.ts: what each of  *)
(* the jobs promises alone it promises beside the others, although         *)
(* they move at any time and two of them use the same Redis.  No two       *)
(* DELETEs of a table run at once; a deletion by query skips no page; a    *)
(* deletion marked as done was done; shared files are kept, and none is    *)
(* left over; no hour goes unbilled or is billed twice; a runner has one   *)
(* chain; and the cache is not stale: each but for what its property       *)
(* excepts.                                                                *)
THEOREM JobsAreSafe ==
  JobsSpec => [](/\ DeletesExclude /\ NothingSkipped /\ MarkedWasDeleted /\ FilesKept /\ NoOrphans
                 /\ NoHourUnbilled /\ BilledOnce /\ OneChain /\ NoStaleCache)
<1>1. LockInv => DeletesExclude /\ NothingSkipped
  BY LeaseExcludes, BatchInvNothingSkipped DEF LockInv
<1> QED
  BY <1>1, LockInvAlways, PartsOfTheWhole, NothingMarkedUndeleted, SharedFilesAreKept, NoFileIsOrphaned,
     NoHourIsSkipped, NothingIsBilledTwice, RunnerHasOneChain, CacheIsNotStale, PTL

(* src/worker/src/features/trace-delete-batch-action-runner/index.ts: a    *)
(* finished batch deletion stays finished beside the other jobs.           *)
THEOREM JobsLeaveFinishedAlone == JobsSpec => FinishedStays
<1>1. LockInv /\ [JobsNext]_jobsVars =>
        [\A a \in Actions :
           /\ Finished(batchAction[a])
           /\ batchAction'[a] # batchAction[a]
           => batchAction'[a].request > batchAction[a].request \/ overtaken'[a] # "no"]_batchVars
  <2> SUFFICES ASSUME LockInv, [JobsNext]_jobsVars, NEW a \in Actions, Finished(batchAction[a]),
                      batchAction'[a] # batchAction[a]
               PROVE  batchAction'[a].request > batchAction[a].request \/ overtaken'[a] # "no"
    OBVIOUS
  <2>1. CASE BatchAlone /\ BatchNext
    BY <2>1, FinishedRow DEF LockInv
  <2>2. CASE UNCHANGED ownBatch
    BY <2>2 DEF ownBatch
  <2> QED
    BY <2>1, <2>2 DEF JobsNext, RetentionAlone, DeletionAlone, MeteringAlone, RunnerAlone, PromptsAlone,
                      jobsVars
<1> QED  BY <1>1, LockInvAlways, PTL DEF JobsSpec, FinishedStays

(* src/worker/src/utils/PeriodicExclusiveRunner.ts: a cleaner's run that   *)
(* meets no fault keeps its lease beside the other jobs, too, whatever     *)
(* befalls these.                                                          *)
THEOREM JobsLeaveTheLease == ASSUME ShortQueries PROVE JobsSpec => []LeaseKept
<1>1. ShortQueries
  OBVIOUS
<1>2. JobsInit => Healthy
  BY HealthyInit DEF JobsInit
<1>3. LockInv /\ Healthy /\ [JobsNext]_jobsVars => Healthy'
  BY <1>1, LockInvKept
<1>4. LockInv /\ Healthy => LeaseKept
  BY HealthyKeepsLease DEF LockInv
<1> QED  BY <1>2, <1>3, <1>4, LockInvAlways, PTL DEF JobsSpec

(* The run's behaviours, of one job each, are such behaviours: what is     *)
(* proved of the jobs side by side is proved of the run's specification.   *)
THEOREM RunIsOfTheJobs == Spec => JobsSpec
<1>1. Init => JobsInit
  BY DEF Init
<1>2. [Next]_allVars => [JobsNext]_jobsVars
  BY DEF Next, JobsNext, allVars
<1> QED  BY <1>1, <1>2, PTL DEF Spec, JobsSpec
=============================================================================
