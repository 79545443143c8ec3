------------------------------ MODULE RedisLock ------------------------------
(***************************************************************************)
(* The lock with which workers keep a periodic task to one of them.  It is *)
(* a Redis key with a time to live, set if it is absent (SET NX EX) to a   *)
(* value of the instance that sets it; release and extend are scripts that *)
(* compare the value first.  The operators are the next values of the keys *)
(* that the commands of this class lead to; modules about tasks that run   *)
(* under a lock extend this one and make them parts of their actions.      *)
(* Definitions named Fault... are deliberate errors: no definition uses    *)
(* one, and each shows that a property would notice it.                    *)
(* src/worker/src/utils/RedisLock.ts                                       *)
(***************************************************************************)
EXTENDS Naturals

CONSTANTS
  Workers,       \* worker processes
  Keys,          \* lock keys
  TTL,           \* ttlSeconds of a key, in ticks
  NoOwner,       \* the key is not set
  Gone           \* a value (randomUUID) no living instance has

ASSUME LockAssumption ==
  /\ TTL \in [Keys -> Nat \ {0}]
  /\ NoOwner # Gone
  /\ {NoOwner, Gone} \cap Workers = {}

VARIABLE lock    \* Redis: value and remaining time to live of each key

Unlocked == [owner |-> NoOwner, ttl |-> 0]

LockInit == lock = [k \in Keys |-> Unlocked]

(* isHeldByCurrentProcess, and the comparison of the two scripts. *)
Owns(w, k) == lock[k].owner = w

IsFree(k) == lock[k].owner = NoOwner

(* SET NX EX of a free key. *)
Acquired(w, k) == [lock EXCEPT ![k] = [owner |-> w, ttl |-> TTL[k]]]

FaultExtended(w, k) == IF Owns(w, k) THEN [lock EXCEPT ![k].ttl = @ + TTL[k]] ELSE lock

Extended(w, k) == IF Owns(w, k) THEN Acquired(w, k) ELSE lock

FaultReleased(w, k) == [lock EXCEPT ![k] = Unlocked]

Released(w, k) == IF Owns(w, k) THEN [lock EXCEPT ![k] = Unlocked] ELSE lock

(* A tick of Redis' clock; a key whose time is up is gone. *)
FaultElapsed(k) == lock

Elapsed(k) ==
  [lock EXCEPT ![k] = IF @.ttl <= 1 THEN Unlocked ELSE [owner |-> @.owner, ttl |-> @.ttl - 1]]

(* The worker's process ends; the next one has another value. *)
Orphaned(w, k) == IF Owns(w, k) THEN [lock EXCEPT ![k].owner = Gone] ELSE lock

LockTypeOK ==
  /\ lock \in [Keys -> [owner : Workers \cup {NoOwner, Gone}, ttl : Nat]]
  /\ \A k \in Keys : lock[k].ttl <= TTL[k] /\ (lock[k].ttl = 0 <=> IsFree(k))
=============================================================================
