----------------------- MODULE ClickhouseWriterProofs -----------------------
(***************************************************************************)
(* Every row handed to the writer is in exactly one place, carries the     *)
(* attempts it used, and leaves as AtLeastOnceBuffer allows, whatever the  *)
(* tables, rows, batch size and number of attempts; and halving a batch    *)
(* avoids errors of string length if there are attempts for enough halves. *)
(***************************************************************************)
EXTENDS ClickhouseWriter, SequenceTheorems, TLAPS

(* The inductive invariant: a requeue keeps HeldOnce because the flight's   *)
(* items are typed, and its attempts tell which rows are dropped.          *)
IInv == TypeOK /\ HeldOnce /\ AttemptsAccounted

-----------------------------------------------------------------------------
(* What the sequence operators of the writer do to the rows they move.     *)

(* Cutting a sequence of items in two loses and repeats no row. *)
LEMMA CutItems ==
  ASSUME NEW s \in Seq(Item), NEW k \in 0..Len(s)
  PROVE  LET a == SubSeq(s, 1, k)
             b == SubSeq(s, k + 1, Len(s))
         IN  /\ a \in Seq(Item) /\ b \in Seq(Item)
             /\ RecsOf(a) \cup RecsOf(b) = RecsOf(s)
             /\ NoRepeat(s) => NoRepeat(a) /\ NoRepeat(b) /\ RecsOf(a) \cap RecsOf(b) = {}
             /\ Tallied(s) => Tallied(a) /\ Tallied(b)
<1> DEFINE a == SubSeq(s, 1, k)
           b == SubSeq(s, k + 1, Len(s))
<1>1. /\ a \in Seq(Item) /\ DOMAIN a = 1..k
      /\ \A i \in DOMAIN a : i \in DOMAIN s /\ a[i] = s[i]
  OBVIOUS
<1>2. /\ b \in Seq(Item) /\ DOMAIN b = 1..(Len(s) - k)
      /\ \A i \in DOMAIN b : k + i \in DOMAIN s /\ b[i] = s[k + i]
  OBVIOUS
<1>3. \A i \in DOMAIN s : i \in DOMAIN a \/ (i - k \in DOMAIN b /\ k + (i - k) = i)
  BY <1>1, <1>2
<1>4. \A i \in DOMAIN a, j \in DOMAIN b : i # k + j
  BY <1>1, <1>2
<1>5. \A i, j \in DOMAIN b : i # j => k + i # k + j
  BY <1>2
<1> HIDE DEF a, b
<1>6. RecsOf(a) \cup RecsOf(b) = RecsOf(s)
  <2>1. RecsOf(a) \subseteq RecsOf(s)  BY <1>1 DEF RecsOf
  <2>2. RecsOf(b) \subseteq RecsOf(s)  BY <1>2 DEF RecsOf
  <2>3. ASSUME NEW i \in DOMAIN s PROVE s[i].rec \in RecsOf(a) \cup RecsOf(b)
    <3>1. CASE i \in DOMAIN a  BY <1>1, <3>1 DEF RecsOf
    <3>2. CASE i - k \in DOMAIN b /\ k + (i - k) = i
      <4>1. b[i - k] = s[i]  BY <1>2, <3>2
      <4> QED  BY <3>2, <4>1 DEF RecsOf
    <3> QED  BY <1>3, <3>1, <3>2
  <2> QED  BY <2>1, <2>2, <2>3 DEF RecsOf
<1>7. ASSUME NoRepeat(s)
      PROVE  NoRepeat(a) /\ NoRepeat(b) /\ RecsOf(a) \cap RecsOf(b) = {}
  <2>1. NoRepeat(a)  BY <1>1, <1>7 DEF NoRepeat
  <2>2. NoRepeat(b)
    <3> SUFFICES ASSUME NEW i \in DOMAIN b, NEW j \in DOMAIN b, i # j
                 PROVE  b[i].rec # b[j].rec
      BY DEF NoRepeat
    <3> QED  BY <1>2, <1>5, <1>7 DEF NoRepeat
  <2>3. ASSUME NEW i \in DOMAIN a, NEW j \in DOMAIN b PROVE a[i].rec # b[j].rec
    <3>1. i # k + j  BY <1>4
    <3>2. a[i] = s[i] /\ b[j] = s[k + j] /\ i \in DOMAIN s /\ k + j \in DOMAIN s
      BY <1>1, <1>2
    <3> QED  BY <1>7, <3>1, <3>2 DEF NoRepeat
  <2> QED  BY <2>1, <2>2, <2>3 DEF RecsOf
<1>8. Tallied(s) => Tallied(a) /\ Tallied(b)
  <2> SUFFICES ASSUME Tallied(s) PROVE Tallied(a) /\ Tallied(b)
    OBVIOUS
  <2>1. Tallied(a)  BY <1>1 DEF Tallied
  <2>2. Tallied(b)
    <3> SUFFICES ASSUME NEW i \in DOMAIN b PROVE b[i].attempts = fails[b[i].rec] + 1
      BY DEF Tallied
    <3> QED  BY <1>2 DEF Tallied
  <2> QED  BY <2>1, <2>2
<1> QED  BY <1>1, <1>2, <1>6, <1>7, <1>8 DEF a, b

(* Joining two sequences of items that share no row. *)
LEMMA JoinItems ==
  ASSUME NEW a \in Seq(Item), NEW b \in Seq(Item)
  PROVE  /\ a \o b \in Seq(Item)
         /\ RecsOf(a \o b) = RecsOf(a) \cup RecsOf(b)
         /\ NoRepeat(a) /\ NoRepeat(b) /\ RecsOf(a) \cap RecsOf(b) = {} => NoRepeat(a \o b)
         /\ Tallied(a) /\ Tallied(b) => Tallied(a \o b)
<1> DEFINE s == a \o b
<1>1. /\ s \in Seq(Item) /\ DOMAIN s = 1..(Len(a) + Len(b))
      /\ \A i \in DOMAIN a : i \in DOMAIN s /\ s[i] = a[i]
      /\ \A i \in DOMAIN b : Len(a) + i \in DOMAIN s /\ s[Len(a) + i] = b[i]
  OBVIOUS
<1>2. ASSUME NEW i \in DOMAIN s
      PROVE  i \in DOMAIN a \/ \E j \in DOMAIN b : i = Len(a) + j
  <2>1. CASE i <= Len(a)  BY <2>1, <1>1
  <2>2. CASE i > Len(a)
    <3>1. i - Len(a) \in DOMAIN b /\ i = Len(a) + (i - Len(a))  BY <2>2, <1>1
    <3> QED  BY <3>1
  <2> QED  BY <2>1, <2>2, <1>1
<1>3. ASSUME NEW i \in DOMAIN s
      PROVE  \/ i \in DOMAIN a /\ s[i] = a[i]
             \/ \E j \in DOMAIN b : i = Len(a) + j /\ s[i] = b[j]
  BY <1>1, <1>2
<1> HIDE DEF s
<1>4. RecsOf(s) = RecsOf(a) \cup RecsOf(b)
  <2>1. RecsOf(s) \subseteq RecsOf(a) \cup RecsOf(b)  BY <1>3 DEF RecsOf
  <2>2. RecsOf(a) \subseteq RecsOf(s)  BY <1>1 DEF RecsOf
  <2>3. ASSUME NEW i \in DOMAIN b PROVE b[i].rec \in RecsOf(s)
    <3>1. Len(a) + i \in DOMAIN s /\ s[Len(a) + i] = b[i]  BY <1>1
    <3> QED  BY <3>1 DEF RecsOf
  <2> QED  BY <2>1, <2>2, <2>3 DEF RecsOf
<1>5. ASSUME NoRepeat(a), NoRepeat(b), RecsOf(a) \cap RecsOf(b) = {} PROVE NoRepeat(s)
  <2>1. \A i \in DOMAIN a, j \in DOMAIN b : a[i].rec # b[j].rec  BY <1>5 DEF RecsOf
  <2>2. ASSUME NEW i \in DOMAIN s, NEW j \in DOMAIN s, i # j PROVE s[i].rec # s[j].rec
    <3>1. CASE i \in DOMAIN a /\ s[i] = a[i]
      BY <1>3, <1>5, <2>1, <2>2, <3>1 DEF NoRepeat
    <3>2. CASE \E x \in DOMAIN b : i = Len(a) + x /\ s[i] = b[x]
      <4>1. PICK x \in DOMAIN b : i = Len(a) + x /\ s[i] = b[x]  BY <3>2
      <4>2. CASE j \in DOMAIN a /\ s[j] = a[j]  BY <2>1, <4>1, <4>2
      <4>3. CASE \E y \in DOMAIN b : j = Len(a) + y /\ s[j] = b[y]
        <5>1. PICK y \in DOMAIN b : j = Len(a) + y /\ s[j] = b[y]  BY <4>3
        <5>2. x # y  BY <2>2, <4>1, <5>1
        <5> QED  BY <1>5, <4>1, <5>1, <5>2 DEF NoRepeat
      <4> QED  BY <1>3, <4>2, <4>3
    <3> QED  BY <1>3, <3>1, <3>2
  <2> QED  BY <2>2 DEF NoRepeat
<1>6. ASSUME Tallied(a), Tallied(b) PROVE Tallied(s)
  BY <1>3, <1>6 DEF Tallied
<1> QED  BY <1>1, <1>4, <1>5, <1>6 DEF s

(* The same for any count of failures: FlushFailsStep needs it of the next *)
(* state's.                                                                *)
LEMMA JoinTallies ==
  ASSUME NEW a \in Seq(Item), NEW b \in Seq(Item), NEW count,
         \A i \in DOMAIN a : a[i].attempts = count[a[i].rec] + 1,
         \A i \in DOMAIN b : b[i].attempts = count[b[i].rec] + 1
  PROVE  \A i \in DOMAIN (a \o b) : (a \o b)[i].attempts = count[(a \o b)[i].rec] + 1
<1> SUFFICES ASSUME NEW i \in DOMAIN (a \o b)
             PROVE  (a \o b)[i].attempts = count[(a \o b)[i].rec] + 1
  OBVIOUS
<1>1. CASE i <= Len(a)
  <2>1. i \in DOMAIN a /\ (a \o b)[i] = a[i]  BY <1>1
  <2> QED  BY <2>1
<1>2. CASE i > Len(a)
  <2>1. i - Len(a) \in DOMAIN b /\ (a \o b)[i] = b[i - Len(a)]  BY <1>2
  <2> QED  BY <2>1
<1> QED  BY <1>1, <1>2

(* Truncating rows changes neither which rows there are nor their attempts. *)
LEMMA TruncateItems ==
  ASSUME NEW s \in Seq(Item)
  PROVE  /\ Truncate(s) \in Seq(Item)
         /\ RecsOf(Truncate(s)) = RecsOf(s)
         /\ NoRepeat(s) => NoRepeat(Truncate(s))
         /\ Tallied(s) => Tallied(Truncate(s))
<1> DEFINE c == Truncate(s)
<1>1. DOMAIN c = DOMAIN s  BY DEF Truncate
<1>2. ASSUME NEW i \in DOMAIN s
      PROVE  c[i] \in Item /\ c[i].rec = s[i].rec /\ c[i].attempts = s[i].attempts
  <2>1. s[i] \in Item  OBVIOUS
  <2>2. c[i] = [s[i] EXCEPT !.cut = TRUE]  BY DEF Truncate
  <2> QED  BY <2>1, <2>2 DEF Item
<1>3. c \in Seq(Item)
  <2>1. c \in [1..Len(s) -> Item]  BY <1>1, <1>2 DEF Truncate
  <2> QED  BY <2>1
<1> HIDE DEF c
<1> QED
  <2>1. RecsOf(c) = RecsOf(s)  BY <1>1, <1>2 DEF RecsOf
  <2>2. NoRepeat(s) => NoRepeat(c)  BY <1>1, <1>2 DEF NoRepeat
  <2>3. Tallied(s) => Tallied(c)  BY <1>1, <1>2 DEF Tallied
  <2> QED  BY <1>3, <2>1, <2>2, <2>3 DEF c

(* Requeueing the rows of a failed flush: those that are not exhausted,    *)
(* once each, with one attempt more.                                       *)
LEMMA RequeueItems ==
  ASSUME NEW s \in Seq(Item), NEW back \in Requeues(s)
  PROVE  /\ back \in Seq(Item)
         /\ RecsOf(back) = {s[i].rec : i \in {j \in DOMAIN s : ~Exhausted(s[j])}}
         /\ NoRepeat(s) => NoRepeat(back)
         /\ Tallied(s) => \A i \in DOMAIN back : back[i].attempts = (fails[back[i].rec] + 1) + 1
<1> DEFINE K == {j \in DOMAIN s : ~Exhausted(s[j])}
<1>1. PICK h \in InOrder(K, Len(s)) : back = [i \in DOMAIN h |-> Retried(s[h[i]])]
  BY DEF Requeues
<1>2. PICK k \in 0..Len(s) : h \in [1..k -> K]
  BY <1>1 DEF InOrder
<1>3. /\ \A i, j \in DOMAIN h : i < j => h[i] < h[j]
      /\ \A x \in K : \E i \in DOMAIN h : h[i] = x
  BY <1>1 DEF InOrder
<1>4. DOMAIN back = 1..k /\ DOMAIN h = 1..k
  BY <1>1, <1>2
<1>5. ASSUME NEW i \in 1..k
      PROVE  /\ h[i] \in K /\ h[i] \in DOMAIN s
             /\ back[i] \in Item
             /\ back[i].rec = s[h[i]].rec
             /\ back[i].attempts = s[h[i]].attempts + 1
  <2>1. h[i] \in K /\ h[i] \in DOMAIN s /\ ~Exhausted(s[h[i]])  BY <1>2
  <2>2. s[h[i]] \in Item  BY <2>1
  <2>3. s[h[i]].attempts + 1 \in 1..MaxAttempts
    BY <2>1, <2>2, WriterAssumption DEF Item, Exhausted
  <2>4. back[i] = [s[h[i]] EXCEPT !.attempts = s[h[i]].attempts + 1]
    BY <1>1, <1>4 DEF Retried
  <2> QED  BY <2>1, <2>2, <2>3, <2>4 DEF Item
<1>6. back \in Seq(Item)
  <2>1. back \in [1..k -> Item]  BY <1>1, <1>4, <1>5
  <2> QED  BY <2>1
<1>7. RecsOf(back) = {s[i].rec : i \in K}
  <2>1. RecsOf(back) \subseteq {s[i].rec : i \in K}  BY <1>4, <1>5 DEF RecsOf
  <2>2. ASSUME NEW x \in K PROVE s[x].rec \in RecsOf(back)
    <3>1. PICK i \in 1..k : h[i] = x  BY <1>3, <1>4
    <3> QED  BY <1>4, <1>5, <3>1 DEF RecsOf
  <2> QED  BY <2>1, <2>2
<1>8. ASSUME NoRepeat(s) PROVE NoRepeat(back)
  <2> SUFFICES ASSUME NEW i \in 1..k, NEW j \in 1..k, i # j
               PROVE  back[i].rec # back[j].rec
    BY <1>4 DEF NoRepeat
  <2>1. h[i] # h[j]
    <3>1. h[i] \in Nat /\ h[j] \in Nat  BY <1>5
    <3>2. i < j \/ j < i  OBVIOUS
    <3> QED  BY <1>3, <1>4, <3>1, <3>2
  <2> QED  BY <1>5, <1>8, <2>1 DEF NoRepeat
<1>9. ASSUME Tallied(s), NEW i \in DOMAIN back
      PROVE  back[i].attempts = (fails[back[i].rec] + 1) + 1
  <2>1. s[h[i]].attempts = fails[s[h[i]].rec] + 1  BY <1>4, <1>5, <1>9 DEF Tallied
  <2>2. s[h[i]] \in Item  BY <1>4, <1>5
  <2>3. back[i].attempts = s[h[i]].attempts + 1 /\ back[i].rec = s[h[i]].rec  BY <1>4, <1>5
  <2> QED  BY <2>1, <2>2, <2>3 DEF Item
<1> QED  BY <1>6, <1>7, <1>8, <1>9

-----------------------------------------------------------------------------
(* The steps of Next preserve the invariant. *)

(* What HeldOnce says of one flight against everything else. *)
LEMMA FlightApart ==
  ASSUME IInv, NEW f \in flights
  PROVE  /\ f \in Flight /\ f.table \in Tables /\ f.items \in Seq(Item)
         /\ RecsOf(f.items) \subseteq Held /\ RecsOf(f.items) \subseteq Records
         /\ RecsOf(f.items) \subseteq added
         /\ \A t \in Tables : RecsOf(f.items) \cap Queued(t) = {}
         /\ \A g \in flights \ {f} : RecsOf(f.items) \cap RecsOf(g.items) = {}
         /\ NoRepeat(f.items) /\ Tallied(f.items)
<1>1. f \in Flight  BY DEF IInv, TypeOK
<1>2. f.table \in Tables /\ f.items \in Seq(Item)  BY <1>1 DEF Flight
<1>3. RecsOf(f.items) \subseteq Flying  BY DEF Flying
<1>4. RecsOf(f.items) \subseteq Held  BY <1>3 DEF Held
<1>5. RecsOf(f.items) \subseteq added  BY <1>4 DEF IInv, HeldOnce
<1>6. RecsOf(f.items) \subseteq Records  BY <1>5 DEF IInv, TypeOK
<1>7. \A t \in Tables : RecsOf(f.items) \cap Queued(t) = {}  BY <1>3 DEF IInv, HeldOnce
<1>8. \A g \in flights \ {f} : RecsOf(f.items) \cap RecsOf(g.items) = {}
  BY DEF IInv, HeldOnce
<1>9. NoRepeat(f.items) /\ Tallied(f.items)  BY DEF IInv, HeldOnce, AttemptsAccounted
<1> QED  BY <1>1, <1>2, <1>4, <1>5, <1>6, <1>7, <1>8, <1>9

(* A failed insert that is retried: the rows of the flight are split       *)
(* between the flight and the front of its queue.                          *)
LEMMA RetriesStep ==
  ASSUME IInv, NEW f \in flights, NEW items \in Seq(Item), NEW front \in Seq(Item),
         NEW truncated \in BOOLEAN,
         RecsOf(items) \cup RecsOf(front) = RecsOf(f.items),
         RecsOf(items) \cap RecsOf(front) = {},
         NoRepeat(items), NoRepeat(front), Tallied(items), Tallied(front),
         Retries(f, items, front, truncated)
  PROVE  IInv' /\ Held' = Held
<1> DEFINE g == [f EXCEPT !.items = items, !.tries = NextTry(f), !.truncated = truncated]
           T == f.table
<1>1. /\ flights' = (flights \ {f}) \cup {g}
      /\ queue' = [queue EXCEPT ![T] = front \o @]
      /\ UNCHANGED <<intervalBusy, phase, added, acked, dropped, fails>>
      /\ f.tries + 1 < MaxAttempts
  BY DEF Retries, NextTry
<1>2. /\ f \in Flight /\ T \in Tables
      /\ \A t \in Tables : RecsOf(f.items) \cap Queued(t) = {}
      /\ \A e \in flights \ {f} : RecsOf(f.items) \cap RecsOf(e.items) = {}
  BY FlightApart
<1>3. g \in Flight /\ g.items = items
  <2>1. f.tries \in Nat /\ f.tries + 1 \in 0..MaxAttempts - 1
    BY <1>1, <1>2, WriterAssumption DEF Flight
  <2>2. [f EXCEPT !.items = items] \in Flight  BY <1>2 DEF Flight
  <2>3. [f EXCEPT !.items = items, !.tries = f.tries + 1] \in Flight
    BY <1>2, <2>1, <2>2 DEF Flight
  <2>4. g \in Flight
    BY <1>2, <2>1, <2>3 DEF Flight, NextTry
  <2> QED  BY <1>2, <2>4 DEF Flight
<1>4. queue \in [Tables -> Seq(Item)] /\ queue[T] \in Seq(Item)
  BY <1>2 DEF IInv, TypeOK
<1>5. /\ queue'[T] = front \o queue[T]
      /\ queue'[T] \in Seq(Item)
      /\ RecsOf(queue'[T]) = RecsOf(front) \cup RecsOf(queue[T])
      /\ NoRepeat(queue'[T])
      /\ Tallied(queue'[T])
  <2>1. queue'[T] = front \o queue[T]  BY <1>1, <1>2, <1>4
  <2>2. RecsOf(front) \cap RecsOf(queue[T]) = {}  BY <1>2 DEF Queued
  <2>3. NoRepeat(queue[T]) /\ Tallied(queue[T])
    BY <1>2 DEF IInv, HeldOnce, AttemptsAccounted
  <2> HIDE DEF T
  <2> QED  BY <1>4, <2>1, <2>2, <2>3, JoinItems
<1>6. \A t \in Tables : t # T => queue'[t] = queue[t]
  BY <1>1, <1>2, <1>4
<1>7. TypeOK'
  <2>1. queue' \in [Tables -> Seq(Item)]
    BY <1>1, <1>2, <1>4, <1>5
  <2>2. flights' \subseteq Flight  BY <1>1, <1>3 DEF IInv, TypeOK
  <2> QED  BY <1>1, <2>1, <2>2 DEF IInv, TypeOK
<1> HIDE DEF g, T
<1>8. \A t \in Tables : Queued(t)' = IF t = T THEN RecsOf(front) \cup Queued(t) ELSE Queued(t)
  <2> SUFFICES ASSUME NEW t \in Tables
               PROVE  RecsOf(queue'[t]) = IF t = T THEN RecsOf(front) \cup RecsOf(queue[t])
                                                   ELSE RecsOf(queue[t])
    BY DEF Queued, RecsOf
  <2> QED  BY <1>5, <1>6
<1>9. \A e \in flights' : (e = g /\ e.items = items) \/ e \in flights \ {f}
  BY <1>1, <1>3
<1>10. Flying' = RecsOf(items) \cup (UNION {RecsOf(e.items) : e \in flights \ {f}})
  BY <1>1, <1>3 DEF Flying, RecsOf
<1>11. Flying = RecsOf(f.items) \cup (UNION {RecsOf(e.items) : e \in flights \ {f}})
  BY DEF Flying, RecsOf
<1>12. Held' = Held
  <2>1. (UNION {Queued(t)' : t \in Tables})
          = RecsOf(front) \cup (UNION {Queued(t) : t \in Tables})
    BY <1>2, <1>8
  <2>2. Held' = (UNION {Queued(t)' : t \in Tables}) \cup Flying'  BY DEF Held
  <2>3. Held = (UNION {Queued(t) : t \in Tables}) \cup Flying  BY DEF Held
  <2> QED  BY <1>10, <1>11, <2>1, <2>2, <2>3
<1>13. HeldOnce'
  <2>1. (added = Held \cup acked \cup dropped)'  BY <1>1, <1>12 DEF IInv, HeldOnce
  <2>2. (acked \cap dropped = {})'  BY <1>1 DEF IInv, HeldOnce
  <2>3. (Held \cap (acked \cup dropped) = {})'  BY <1>1, <1>12 DEF IInv, HeldOnce
  <2>4. (\A t \in Tables : NoRepeat(queue[t]) /\ Queued(t) \cap Flying = {})'
    <3> SUFFICES ASSUME NEW t \in Tables
                 PROVE  NoRepeat(queue'[t]) /\ Queued(t)' \cap Flying' = {}
      BY DEF NoRepeat
    <3>1. NoRepeat(queue'[t])
      BY <1>5, <1>6 DEF IInv, HeldOnce
    <3>2. Queued(t) \cap Flying = {}  BY DEF IInv, HeldOnce
    <3>3. RecsOf(front) \cap (UNION {RecsOf(e.items) : e \in flights \ {f}}) = {}
      BY <1>2
    <3> QED  BY <1>8, <1>10, <1>11, <3>1, <3>2, <3>3
  <2>5. (\A t, u \in Tables : t # u => Queued(t) \cap Queued(u) = {})'
    <3> SUFFICES ASSUME NEW t \in Tables, NEW u \in Tables, t # u
                 PROVE  Queued(t)' \cap Queued(u)' = {}
      OBVIOUS
    <3>1. Queued(t) \cap Queued(u) = {}  BY DEF IInv, HeldOnce
    <3>2. RecsOf(front) \cap Queued(t) = {} /\ RecsOf(front) \cap Queued(u) = {}
      BY <1>2
    <3> QED  BY <1>8, <3>1, <3>2
  <2>6. (\A e \in flights : NoRepeat(e.items))'
    BY <1>9 DEF IInv, HeldOnce, NoRepeat
  <2>7. (\A d, e \in flights : d # e => RecsOf(d.items) \cap RecsOf(e.items) = {})'
    <3> SUFFICES ASSUME NEW d \in flights', NEW e \in flights', d # e
                 PROVE  RecsOf(d.items) \cap RecsOf(e.items) = {}
      BY DEF RecsOf
    <3> QED  BY <1>2, <1>9 DEF IInv, HeldOnce
  <2> QED  BY <2>1, <2>2, <2>3, <2>4, <2>5, <2>6, <2>7 DEF HeldOnce
<1>14. AttemptsAccounted'
  <2>1. \A t \in Tables : Tallied(queue'[t])
    BY <1>5, <1>6 DEF IInv, AttemptsAccounted
  <2>2. \A e \in flights' : Tallied(e.items)
    BY <1>9 DEF IInv, AttemptsAccounted
  <2> QED  BY <1>1, <2>1, <2>2 DEF IInv, AttemptsAccounted, Tallied
<1> QED  BY <1>7, <1>12, <1>13, <1>14 DEF IInv

(* A flush that ends in the catch block: the rows that are not exhausted   *)
(* are queued again, the exhausted ones are dropped.                       *)
LEMMA FlushFailsStep ==
  ASSUME IInv, NEW f \in flights, NEW items \in Seq(Item), NEW front \in Seq(Item),
         RecsOf(items) \cup RecsOf(front) = RecsOf(f.items),
         RecsOf(items) \cap RecsOf(front) = {},
         NoRepeat(items), NoRepeat(front), Tallied(items), Tallied(front),
         FlushFails(f, items, front)
  PROVE  IInv' /\ Buffer!FailFlush(RecsOf(items))
<1> DEFINE T == f.table
           R == RecsOf(items)
           spent == {items[i].rec : i \in {j \in DOMAIN items : Exhausted(items[j])}}
           Others == UNION {RecsOf(e.items) : e \in flights \ {f}}
<1>1. PICK back \in Requeues(items) :
           queue' = [queue EXCEPT ![T] = (front \o @) \o back]
  BY DEF FlushFails
<1>2. /\ flights' = flights \ {f}
      /\ dropped' = dropped \cup spent
      /\ fails' = [r \in Records |-> IF r \in R THEN fails[r] + 1 ELSE fails[r]]
      /\ UNCHANGED <<intervalBusy, phase, added, acked>>
  BY DEF FlushFails
<1>3. /\ T \in Tables
      /\ RecsOf(f.items) \subseteq Records /\ RecsOf(f.items) \subseteq added
      /\ RecsOf(f.items) \subseteq Held
      /\ \A t \in Tables : RecsOf(f.items) \cap Queued(t) = {}
      /\ \A e \in flights \ {f} : RecsOf(f.items) \cap RecsOf(e.items) = {}
  BY FlightApart
<1>4. queue \in [Tables -> Seq(Item)] /\ queue[T] \in Seq(Item)
      /\ fails \in [Records -> 0..MaxAttempts]
  BY <1>3 DEF IInv, TypeOK
<1>5. /\ back \in Seq(Item)
      /\ RecsOf(back) = {items[i].rec : i \in {j \in DOMAIN items : ~Exhausted(items[j])}}
      /\ NoRepeat(back)
      /\ \A i \in DOMAIN back : back[i].attempts = (fails[back[i].rec] + 1) + 1
  BY RequeueItems
<1>6. /\ R = RecsOf(back) \cup spent
      /\ RecsOf(back) \cap spent = {}
      /\ R \subseteq RecsOf(f.items)
  <2>1. R \subseteq RecsOf(f.items)  OBVIOUS
  <2>2. R = RecsOf(back) \cup spent
    <3>1. RecsOf(back) \subseteq R  BY <1>5 DEF RecsOf
    <3>2. spent \subseteq R  BY DEF RecsOf
    <3>3. ASSUME NEW i \in DOMAIN items PROVE items[i].rec \in RecsOf(back) \cup spent
      BY <1>5
    <3> QED  BY <3>1, <3>2, <3>3 DEF RecsOf
  <2>3. RecsOf(back) \cap spent = {}
    <3> SUFFICES ASSUME NEW i \in DOMAIN items, NEW j \in DOMAIN items,
                        ~Exhausted(items[i]), Exhausted(items[j])
                 PROVE  items[i].rec # items[j].rec
      BY <1>5
    <3>1. i # j  OBVIOUS
    <3> QED  BY <3>1 DEF NoRepeat
  <2> QED  BY <2>1, <2>2, <2>3
<1>7. spent = {r \in R : fails[r] + 1 = MaxAttempts}
  <2>1. ASSUME NEW i \in DOMAIN items
        PROVE  Exhausted(items[i]) <=> fails[items[i].rec] + 1 = MaxAttempts
    <3>1. items[i] \in Item /\ items[i].attempts = fails[items[i].rec] + 1
      BY DEF Tallied
    <3> QED  BY <3>1, WriterAssumption DEF Exhausted, Item
  <2>2. spent \subseteq {r \in R : fails[r] + 1 = MaxAttempts}
    BY <2>1 DEF RecsOf
  <2>3. ASSUME NEW r \in R, fails[r] + 1 = MaxAttempts PROVE r \in spent
    BY <2>1, <2>3 DEF RecsOf
  <2> QED  BY <2>2, <2>3
<1>8. /\ queue'[T] = (front \o queue[T]) \o back
      /\ queue'[T] \in Seq(Item)
      /\ RecsOf(queue'[T]) = (RecsOf(front) \cup RecsOf(queue[T])) \cup RecsOf(back)
      /\ NoRepeat(queue'[T])
  <2>1. queue'[T] = (front \o queue[T]) \o back  BY <1>1, <1>3, <1>4
  <2>2. RecsOf(f.items) \cap RecsOf(queue[T]) = {}  BY <1>3 DEF Queued
  <2>3. NoRepeat(queue[T])  BY <1>3 DEF IInv, HeldOnce
  <2> HIDE DEF T, R, spent
  <2>4. /\ front \o queue[T] \in Seq(Item)
        /\ RecsOf(front \o queue[T]) = RecsOf(front) \cup RecsOf(queue[T])
        /\ NoRepeat(front \o queue[T])
    BY <1>4, <2>2, <2>3, JoinItems
  <2>5. RecsOf(front \o queue[T]) \cap RecsOf(back) = {}
    BY <1>6, <2>2, <2>4 DEF R
  <2> DEFINE head == front \o queue[T]
  <2> HIDE DEF head
  <2>6. /\ head \o back \in Seq(Item)
        /\ RecsOf(head \o back) = RecsOf(head) \cup RecsOf(back)
        /\ NoRepeat(head \o back)
    BY <1>5, <2>4, <2>5, JoinItems DEF head
  <2> QED  BY <2>1, <2>4, <2>6 DEF head
<1>9. \A t \in Tables : t # T => queue'[t] = queue[t]
  BY <1>1, <1>3, <1>4
<1>10. TypeOK'
  <2>1. queue' \in [Tables -> Seq(Item)]
    BY <1>1, <1>3, <1>4, <1>8
  <2>2. dropped' \subseteq Records  BY <1>2, <1>3, <1>6 DEF IInv, TypeOK
  <2>3. fails' \in [Records -> 0..MaxAttempts]
    <3> SUFFICES ASSUME NEW r \in R PROVE fails[r] + 1 \in 0..MaxAttempts
      BY <1>2, <1>4
    <3>1. PICK i \in DOMAIN items : items[i].rec = r  BY DEF RecsOf
    <3>2. items[i] \in Item /\ items[i].attempts = fails[r] + 1  BY <3>1 DEF Tallied
    <3> QED  BY <3>2, WriterAssumption DEF Item
  <2> QED  BY <1>2, <2>1, <2>2, <2>3 DEF IInv, TypeOK
<1> HIDE DEF T, R, spent
<1>11. \A t \in Tables : Queued(t)' = IF t = T THEN (RecsOf(front) \cup Queued(t)) \cup RecsOf(back)
                                               ELSE Queued(t)
  <2> SUFFICES ASSUME NEW t \in Tables
               PROVE  RecsOf(queue'[t]) =
                        IF t = T THEN (RecsOf(front) \cup RecsOf(queue[t])) \cup RecsOf(back)
                                 ELSE RecsOf(queue[t])
    BY DEF Queued, RecsOf
  <2> QED  BY <1>8, <1>9
<1>12. Flying' = Others /\ Flying = RecsOf(f.items) \cup Others
  BY <1>2 DEF Flying, RecsOf
<1>13. RecsOf(f.items) \cap Others = {}
  BY <1>3
<1> HIDE DEF Others
<1>14. Held' = Held \ spent
  <2>1. (UNION {Queued(t)' : t \in Tables})
          = (RecsOf(front) \cup RecsOf(back)) \cup (UNION {Queued(t) : t \in Tables})
    BY <1>3, <1>11
  <2>2. Held' = (UNION {Queued(t)' : t \in Tables}) \cup Flying'  BY DEF Held
  <2>3. Held = (UNION {Queued(t) : t \in Tables}) \cup Flying  BY DEF Held
  <2>4. spent \cap (UNION {Queued(t) : t \in Tables}) = {}  BY <1>3, <1>6
  <2>5. RecsOf(f.items) = (RecsOf(front) \cup RecsOf(back)) \cup spent
        /\ spent \cap (RecsOf(front) \cup RecsOf(back)) = {}
    BY <1>6 DEF R
  <2> QED  BY <1>12, <1>13, <2>1, <2>2, <2>3, <2>4, <2>5
<1>15. spent \subseteq Held  BY <1>3, <1>6
<1>16. HeldOnce'
  <2>1. (added = Held \cup acked \cup dropped)'
    BY <1>2, <1>14, <1>15 DEF IInv, HeldOnce
  <2>2. (acked \cap dropped = {})'  BY <1>2, <1>15 DEF IInv, HeldOnce
  <2>3. (Held \cap (acked \cup dropped) = {})'  BY <1>2, <1>14 DEF IInv, HeldOnce
  <2>4. (\A t \in Tables : NoRepeat(queue[t]) /\ Queued(t) \cap Flying = {})'
    <3> SUFFICES ASSUME NEW t \in Tables
                 PROVE  NoRepeat(queue'[t]) /\ Queued(t)' \cap Flying' = {}
      BY DEF NoRepeat
    <3>1. NoRepeat(queue'[t])  BY <1>8, <1>9 DEF IInv, HeldOnce
    <3>2. Queued(t) \cap Flying = {}  BY DEF IInv, HeldOnce
    <3> QED  BY <1>6, <1>11, <1>12, <1>13, <3>1, <3>2
  <2>5. (\A t, u \in Tables : t # u => Queued(t) \cap Queued(u) = {})'
    <3> SUFFICES ASSUME NEW t \in Tables, NEW u \in Tables, t # u
                 PROVE  Queued(t)' \cap Queued(u)' = {}
      OBVIOUS
    <3>1. Queued(t) \cap Queued(u) = {}  BY DEF IInv, HeldOnce
    <3>2. RecsOf(f.items) \cap Queued(t) = {} /\ RecsOf(f.items) \cap Queued(u) = {}
      BY <1>3
    <3> QED  BY <1>6, <1>11, <3>1, <3>2
  <2>6. (\A e \in flights : NoRepeat(e.items))'
    BY <1>2 DEF IInv, HeldOnce, NoRepeat
  <2>7. (\A d, e \in flights : d # e => RecsOf(d.items) \cap RecsOf(e.items) = {})'
    BY <1>2 DEF IInv, HeldOnce, RecsOf
  <2> QED  BY <2>1, <2>2, <2>3, <2>4, <2>5, <2>6, <2>7 DEF HeldOnce
<1>17. AttemptsAccounted'
  <2> DEFINE TalliedNow(s) == \A i \in DOMAIN s : s[i].attempts = fails'[s[i].rec] + 1
  <2>1. ASSUME NEW s \in Seq(Item), Tallied(s), RecsOf(s) \cap R = {} PROVE TalliedNow(s)
    <3> SUFFICES ASSUME NEW i \in DOMAIN s PROVE s[i].attempts = fails'[s[i].rec] + 1
      OBVIOUS
    <3>1. s[i].rec \in RecsOf(s) /\ s[i] \in Item  BY DEF RecsOf
    <3>2. s[i].rec \notin R /\ s[i].rec \in Records  BY <2>1, <3>1 DEF Item
    <3> QED  BY <1>2, <2>1, <3>2 DEF Tallied
  <2>2. TalliedNow(back)
    <3> SUFFICES ASSUME NEW i \in DOMAIN back
                 PROVE  back[i].attempts = fails'[back[i].rec] + 1
      OBVIOUS
    <3>1. back[i].rec \in R /\ back[i].rec \in Records  BY <1>3, <1>5, <1>6 DEF RecsOf
    <3> QED  BY <1>2, <1>5, <3>1
  <2>3. \A t \in Tables : TalliedNow(queue[t])
    <3> SUFFICES ASSUME NEW t \in Tables PROVE TalliedNow(queue[t])
      OBVIOUS
    <3>1. queue[t] \in Seq(Item)  BY <1>4
    <3>2. Tallied(queue[t])  BY DEF IInv, AttemptsAccounted
    <3>3. RecsOf(queue[t]) \cap R = {}  BY <1>3, <1>6 DEF Queued
    <3> HIDE DEF TalliedNow
    <3> QED  BY <2>1, <3>1, <3>2, <3>3
  <2>4. \A e \in flights' : TalliedNow(e.items)
    <3> SUFFICES ASSUME NEW e \in flights \ {f} PROVE TalliedNow(e.items)
      BY <1>2
    <3>1. e.items \in Seq(Item) /\ Tallied(e.items)  BY FlightApart
    <3>2. RecsOf(e.items) \cap R = {}  BY <1>3, <1>6
    <3> HIDE DEF TalliedNow
    <3> QED  BY <2>1, <3>1, <3>2
  <2>5. \A t \in Tables : TalliedNow(queue'[t])
    <3> SUFFICES ASSUME NEW t \in Tables PROVE TalliedNow(queue'[t])
      OBVIOUS
    <3>1. CASE t # T  BY <1>9, <2>3, <3>1
    <3>2. CASE t = T
      <4>1. TalliedNow(front)
        <5>1. RecsOf(front) \cap R = {}  BY DEF R
        <5> HIDE DEF TalliedNow
        <5> QED  BY <2>1, <5>1
      <4>2. TalliedNow(queue[T])  BY <1>3, <2>3
      <4>3. TalliedNow(front \o queue[T])
        BY <1>4, <4>1, <4>2, JoinTallies
      <4>4. front \o queue[T] \in Seq(Item)  BY <1>4
      <4>5. TalliedNow((front \o queue[T]) \o back)
        BY <1>5, <2>2, <4>3, <4>4, JoinTallies
      <4> QED  BY <1>8, <3>2, <4>5
    <3> QED  BY <3>1, <3>2
  <2>6. (\A r \in Records : r \notin added => fails[r] = 0)'
    BY <1>2, <1>3, <1>4, <1>6 DEF IInv, AttemptsAccounted
  <2>7. (\A r \in dropped : fails[r] = MaxAttempts)'
    <3> SUFFICES ASSUME NEW r \in dropped' PROVE fails'[r] = MaxAttempts
      BY WriterAssumption
    <3>1. CASE r \in spent  BY <1>2, <1>3, <1>6, <1>7, <3>1
    <3>2. CASE r \in dropped
      <4>1. r \notin Held /\ r \in Records  BY <3>2 DEF IInv, HeldOnce, TypeOK
      <4>2. r \notin R  BY <1>3, <1>6, <4>1
      <4> QED  BY <1>2, <3>2, <4>1, <4>2 DEF IInv, AttemptsAccounted
    <3> QED  BY <1>2, <3>1, <3>2
  <2> QED  BY <2>4, <2>5, <2>6, <2>7 DEF AttemptsAccounted, Tallied
<1>18. Buffer!FailFlush(R)
  <2>1. R \subseteq Held  BY <1>3, <1>6
  <2> QED  BY <1>2, <1>7, <1>14, <2>1 DEF Buffer!FailFlush
<1> QED  BY <1>10, <1>16, <1>17, <1>18 DEF IInv, R

(* An acknowledged insert releases the rows of its flight. *)
LEMMA InsertSucceedsStep ==
  ASSUME IInv, NEW f \in flights, InsertSucceeds(f)
  PROVE  IInv' /\ Buffer!Acknowledge(RecsOf(f.items))
<1> DEFINE R == RecsOf(f.items)
           Others == UNION {RecsOf(e.items) : e \in flights \ {f}}
<1>1. /\ flights' = flights \ {f}
      /\ acked' = acked \cup R
      /\ UNCHANGED <<queue, intervalBusy, phase, added, dropped, fails>>
  BY DEF InsertSucceeds
<1>2. /\ R \subseteq Held /\ R \subseteq Records
      /\ \A t \in Tables : R \cap Queued(t) = {}
      /\ \A e \in flights \ {f} : R \cap RecsOf(e.items) = {}
  BY FlightApart
<1>3. TypeOK'  BY <1>1, <1>2 DEF IInv, TypeOK
<1> HIDE DEF R
<1>4. \A t \in Tables : Queued(t)' = Queued(t)  BY <1>1 DEF Queued, RecsOf
<1>5. Flying' = Others /\ Flying = R \cup Others  BY <1>1 DEF Flying, RecsOf, R
<1>6. R \cap Others = {}  BY <1>2
<1> HIDE DEF Others
<1>7. Held' = Held \ R
  <2>1. (UNION {Queued(t)' : t \in Tables}) = (UNION {Queued(t) : t \in Tables})
    BY <1>4
  <2>2. Held' = (UNION {Queued(t)' : t \in Tables}) \cup Flying'  BY DEF Held
  <2>3. R \cap (UNION {Queued(t) : t \in Tables}) = {}  BY <1>2
  <2>4. Held = (UNION {Queued(t) : t \in Tables}) \cup Flying  BY DEF Held
  <2> QED  BY <1>5, <1>6, <2>1, <2>2, <2>3, <2>4
<1>8. HeldOnce'
  <2>1. (added = Held \cup acked \cup dropped)'  BY <1>1, <1>2, <1>7 DEF IInv, HeldOnce
  <2>2. (acked \cap dropped = {})'  BY <1>1, <1>2 DEF IInv, HeldOnce
  <2>3. (Held \cap (acked \cup dropped) = {})'  BY <1>1, <1>7 DEF IInv, HeldOnce
  <2>4. (\A t \in Tables : NoRepeat(queue[t]) /\ Queued(t) \cap Flying = {})'
    BY <1>1, <1>4, <1>5 DEF IInv, HeldOnce, NoRepeat
  <2>5. (\A t, u \in Tables : t # u => Queued(t) \cap Queued(u) = {})'
    BY <1>4 DEF IInv, HeldOnce
  <2>6. (\A e \in flights : NoRepeat(e.items))'
    BY <1>1 DEF IInv, HeldOnce, NoRepeat
  <2>7. (\A d, e \in flights : d # e => RecsOf(d.items) \cap RecsOf(e.items) = {})'
    BY <1>1 DEF IInv, HeldOnce, RecsOf
  <2> QED  BY <2>1, <2>2, <2>3, <2>4, <2>5, <2>6, <2>7 DEF HeldOnce
<1>9. AttemptsAccounted'  BY <1>1 DEF IInv, AttemptsAccounted, Tallied
<1>10. Buffer!Acknowledge(R)  BY <1>1, <1>2, <1>7 DEF Buffer!Acknowledge
<1> QED  BY <1>3, <1>8, <1>9, <1>10 DEF IInv, R

(* The rows among new that belong to table t. *)
Own(new, t) == {r \in new : TableOf[r] = t}

(* Queues and new rows divided into what the flushes of the tables in S    *)
(* take and what stays.                                                    *)
Divided(a, b, S, new) ==
  \A t \in Tables :
    /\ RecsOf(a[t]) \cup RecsOf(b[t]) = Queued(t) \cup Own(new, t)
    /\ RecsOf(a[t]) \cap RecsOf(b[t]) = {}
    /\ NoRepeat(a[t]) /\ NoRepeat(b[t]) /\ Tallied(a[t]) /\ Tallied(b[t])
    /\ t \notin S => RecsOf(a[t]) = {}

(* Flights of the tables S take the items a, and b stay in the queues.     *)
Pull(a, b, S, new, origin) ==
  /\ flights' = flights \cup {NewFlight(t, a[t], origin) : t \in S}
  /\ queue' = b
  /\ added' = added \cup new
  /\ intervalBusy' \in BOOLEAN
  /\ phase' \in {"running", "draining", "stopped"}
  /\ UNCHANGED <<acked, dropped, fails>>

(* The synchronous part of a flush, of one table or of all: each queue,    *)
(* with the rows just added, is divided into what a new flight takes (a)   *)
(* and what stays (b).                                                     *)
LEMMA PullStep ==
  ASSUME IInv, NEW a \in [Tables -> Seq(Item)], NEW b \in [Tables -> Seq(Item)],
         NEW S \in SUBSET Tables, NEW new \in SUBSET Records,
         NEW origin \in {"size", "interval", "shutdown"},
         new \cap added = {},
         Divided(a, b, S, new),
         Pull(a, b, S, new, origin)
  PROVE  IInv' /\ Held' = Held \cup new
<1> DEFINE N(t) == Own(new, t)
           F(t) == NewFlight(t, a[t], origin)
<1> USE DEF Pull
<1>0. \A t \in Tables :
        /\ RecsOf(a[t]) \cup RecsOf(b[t]) = Queued(t) \cup N(t)
        /\ RecsOf(a[t]) \cap RecsOf(b[t]) = {}
        /\ NoRepeat(a[t]) /\ NoRepeat(b[t]) /\ Tallied(a[t]) /\ Tallied(b[t])
        /\ t \notin S => RecsOf(a[t]) = {}
  BY DEF Divided
<1>1. \A t \in Tables : F(t) \in Flight /\ F(t).items = a[t]
  BY WriterAssumption DEF NewFlight, Flight
<1>2. Flying \subseteq added /\ \A t \in Tables : Queued(t) \subseteq added
  BY DEF IInv, HeldOnce, Held
<1>3. TypeOK'
  <2>1. flights' \subseteq Flight  BY <1>1 DEF IInv, TypeOK
  <2> QED  BY <2>1 DEF IInv, TypeOK
<1>4. \A t \in Tables : Queued(t)' = RecsOf(b[t])
  BY DEF Queued, RecsOf
<1>5. \A t \in Tables :
        /\ RecsOf(a[t]) \subseteq Queued(t) \cup N(t)
        /\ RecsOf(b[t]) \subseteq Queued(t) \cup N(t)
  BY <1>0
<1>6. \A t, u \in Tables : t # u => (Queued(t) \cup N(t)) \cap (Queued(u) \cup N(u)) = {}
  BY <1>2 DEF IInv, HeldOnce, Own
<1>7. \A t \in Tables : (Queued(t) \cup N(t)) \cap Flying = {}
  BY <1>2 DEF IInv, HeldOnce, Own
<1>8. \A e \in flights' : e \in flights \/ \E t \in S : e = F(t) /\ e.items = a[t]
  BY <1>1
<1>9. Flying' = Flying \cup (UNION {RecsOf(a[t]) : t \in S})
  <2>1. Flying' = UNION {RecsOf(e.items) : e \in flights'}  BY DEF Flying, RecsOf
  <2>2. \A t \in S : F(t) \in flights' /\ F(t).items = a[t]  BY <1>1
  <2>3. \A e \in flights : e \in flights'  OBVIOUS
  <2> HIDE DEF F
  <2>4. ASSUME NEW e \in flights'
        PROVE  RecsOf(e.items) \subseteq Flying \cup (UNION {RecsOf(a[t]) : t \in S})
    BY <1>8 DEF Flying
  <2>5. Flying \subseteq Flying'  BY <2>1, <2>3 DEF Flying
  <2>6. ASSUME NEW t \in S PROVE RecsOf(a[t]) \subseteq Flying'  BY <2>1, <2>2
  <2>7. Flying' \subseteq Flying \cup (UNION {RecsOf(a[t]) : t \in S})
    BY <2>1, <2>4
  <2>8. (UNION {RecsOf(a[t]) : t \in S}) \subseteq Flying'
    BY <2>6
  <2> QED  BY <2>5, <2>7, <2>8
<1> HIDE DEF F, N
<1>10. Held' = Held \cup new
  <2>1. Held' = (UNION {RecsOf(b[t]) : t \in Tables}) \cup Flying'
    BY <1>4 DEF Held
  <2>2. Held = (UNION {Queued(t) : t \in Tables}) \cup Flying  BY DEF Held
  <2>3. \A r \in new : TableOf[r] \in Tables /\ r \in N(TableOf[r])
    BY WriterAssumption DEF Own, N
  <2>4. (UNION {RecsOf(b[t]) : t \in Tables}) \cup (UNION {RecsOf(a[t]) : t \in S})
          = (UNION {Queued(t) : t \in Tables}) \cup new
    <3>1. (UNION {RecsOf(b[t]) : t \in Tables}) \cup (UNION {RecsOf(a[t]) : t \in S})
            \subseteq (UNION {Queued(t) : t \in Tables}) \cup new
      BY <1>5 DEF Own, N
    <3>2. ASSUME NEW t \in Tables, NEW r \in Queued(t) \cup N(t)
          PROVE  r \in (UNION {RecsOf(b[u]) : u \in Tables})
                         \cup (UNION {RecsOf(a[u]) : u \in S})
      <4>1. r \in RecsOf(a[t]) \cup RecsOf(b[t])  BY <1>0
      <4>2. r \in RecsOf(a[t]) => t \in S  BY <1>0
      <4> QED  BY <4>1, <4>2
    <3>3. (UNION {Queued(t) : t \in Tables})
            \subseteq (UNION {RecsOf(b[u]) : u \in Tables}) \cup (UNION {RecsOf(a[u]) : u \in S})
      BY <3>2
    <3>4. new \subseteq (UNION {RecsOf(b[u]) : u \in Tables}) \cup (UNION {RecsOf(a[u]) : u \in S})
      BY <2>3, <3>2
    <3> QED  BY <3>1, <3>3, <3>4
  <2> QED  BY <1>9, <2>1, <2>2, <2>4
<1>11. HeldOnce'
  <2>1. (added = Held \cup acked \cup dropped)'  BY <1>10 DEF IInv, HeldOnce
  <2>2. (acked \cap dropped = {})'  BY DEF IInv, HeldOnce
  <2>3. (Held \cap (acked \cup dropped) = {})'  BY <1>10 DEF IInv, HeldOnce
  <2>4. (\A t \in Tables : NoRepeat(queue[t]) /\ Queued(t) \cap Flying = {})'
    <3> SUFFICES ASSUME NEW t \in Tables
                 PROVE  NoRepeat(b[t]) /\ RecsOf(b[t]) \cap Flying' = {}
      BY <1>4 DEF NoRepeat
    <3>1. ASSUME NEW u \in S PROVE RecsOf(b[t]) \cap RecsOf(a[u]) = {}
      BY <1>0, <1>5, <1>6
    <3>2. RecsOf(b[t]) \cap Flying = {}  BY <1>5, <1>7
    <3> QED  BY <1>0, <1>9, <3>1, <3>2
  <2>5. (\A t, u \in Tables : t # u => Queued(t) \cap Queued(u) = {})'
    <3> SUFFICES ASSUME NEW t \in Tables, NEW u \in Tables, t # u
                 PROVE  RecsOf(b[t]) \cap RecsOf(b[u]) = {}
      BY <1>4
    <3> QED  BY <1>5, <1>6
  <2>6. (\A e \in flights : NoRepeat(e.items))'
    <3> SUFFICES ASSUME NEW e \in flights' PROVE NoRepeat(e.items)
      BY DEF NoRepeat
    <3> QED  BY <1>0, <1>8 DEF IInv, HeldOnce
  <2>7. (\A d, e \in flights : d # e => RecsOf(d.items) \cap RecsOf(e.items) = {})'
    <3> SUFFICES ASSUME NEW d \in flights', NEW e \in flights', d # e
                 PROVE  RecsOf(d.items) \cap RecsOf(e.items) = {}
      BY DEF RecsOf
    <3>1. ASSUME NEW x \in flights, NEW t \in S
          PROVE  RecsOf(x.items) \cap RecsOf(a[t]) = {}
      <4>1. RecsOf(x.items) \subseteq Flying  BY DEF Flying
      <4> QED  BY <1>5, <1>7, <4>1
    <3>2. ASSUME NEW t \in S, NEW u \in S, t # u
          PROVE  RecsOf(a[t]) \cap RecsOf(a[u]) = {}
      BY <1>5, <1>6, <3>2
    <3>3. CASE d \in flights /\ e \in flights  BY <3>3 DEF IInv, HeldOnce
    <3>4. CASE d \in flights /\ \E t \in S : e = F(t) /\ e.items = a[t]
      BY <3>1, <3>4
    <3>5. CASE e \in flights /\ \E t \in S : d = F(t) /\ d.items = a[t]
      BY <3>1, <3>5
    <3>6. CASE /\ \E t \in S : d = F(t) /\ d.items = a[t]
               /\ \E t \in S : e = F(t) /\ e.items = a[t]
      BY <3>2, <3>6
    <3> QED  BY <1>8, <3>3, <3>4, <3>5, <3>6
  <2> QED  BY <2>1, <2>2, <2>3, <2>4, <2>5, <2>6, <2>7 DEF HeldOnce
<1>12. AttemptsAccounted'
  <2>1. (\A t \in Tables : Tallied(queue[t]))'  BY <1>0 DEF Tallied
  <2>2. (\A e \in flights : Tallied(e.items))'
    <3> SUFFICES ASSUME NEW e \in flights' PROVE Tallied(e.items)
      BY DEF Tallied
    <3> QED  BY <1>0, <1>8 DEF IInv, AttemptsAccounted
  <2> QED  BY <2>1, <2>2 DEF IInv, AttemptsAccounted
<1> QED  BY <1>3, <1>10, <1>11, <1>12 DEF IInv

(* A step of the abstract buffer, or a stutter of it. *)
BufferStep == [Buffer!Next]_<<Held, acked, dropped, fails>>

(* Steps that move no row and settle none keep the invariant. *)
LEMMA NothingElse ==
  ASSUME IInv, UNCHANGED <<queue, flights, added, acked, dropped, fails>>,
         intervalBusy' \in BOOLEAN, phase' \in {"running", "draining", "stopped"}
  PROVE  IInv' /\ Held' = Held
<1>1. \A t \in Tables : Queued(t)' = Queued(t)  BY DEF Queued, RecsOf
<1>2. Flying' = Flying  BY DEF Flying, RecsOf
<1>3. Held' = Held  BY <1>1, <1>2 DEF Held
<1>4. TypeOK'  BY DEF IInv, TypeOK
<1>5. HeldOnce'  BY <1>1, <1>2, <1>3 DEF IInv, HeldOnce, NoRepeat, RecsOf
<1>6. AttemptsAccounted'  BY DEF IInv, AttemptsAccounted, Tallied
<1> QED  BY <1>3, <1>4, <1>5, <1>6 DEF IInv

(* An empty sequence of items. *)
LEMMA EmptyItems ==
  /\ <<>> \in Seq(Item) /\ RecsOf(<<>>) = {} /\ NoRepeat(<<>>) /\ Tallied(<<>>)
BY DEF RecsOf, NoRepeat, Tallied

(* What a flush of at most n items takes and leaves. *)
LEMMA TakenLeft ==
  ASSUME NEW s \in Seq(Item), NEW n \in Nat, NoRepeat(s), Tallied(s)
  PROVE  /\ Taken(s, n) \in Seq(Item) /\ Left(s, n) \in Seq(Item)
         /\ RecsOf(Taken(s, n)) \cup RecsOf(Left(s, n)) = RecsOf(s)
         /\ RecsOf(Taken(s, n)) \cap RecsOf(Left(s, n)) = {}
         /\ NoRepeat(Taken(s, n)) /\ NoRepeat(Left(s, n))
         /\ Tallied(Taken(s, n)) /\ Tallied(Left(s, n))
<1>1. Smaller(n, Len(s)) \in 0..Len(s)  BY DEF Smaller
<1> QED  BY <1>1, CutItems DEF Taken, Left

(* addToQueue: the row is queued, or its table's batch takes off with it.  *)
LEMMA AddToQueueStep ==
  ASSUME IInv, NEW r \in Records, AddToQueue(r)
  PROVE  IInv' /\ Buffer!Accept(r)
<1> DEFINE T == TableOf[r]
           item == [rec |-> r, attempts |-> 1, cut |-> FALSE]
           q == Append(queue[T], item)
<1>1. /\ r \notin added /\ added' = added \cup {r} /\ fails[r] = 0
      /\ UNCHANGED <<intervalBusy, phase, acked, dropped, fails>>
  BY WriterAssumption DEF AddToQueue, Records, IInv, AttemptsAccounted
<1>2. T \in Tables /\ item \in Item
  BY WriterAssumption DEF Item
<1>3. queue \in [Tables -> Seq(Item)] /\ queue[T] \in Seq(Item)
  BY <1>2 DEF IInv, TypeOK
<1>4. /\ q \in Seq(Item)
      /\ RecsOf(q) = Queued(T) \cup {r}
      /\ NoRepeat(q) /\ Tallied(q)
  <2>1. q = queue[T] \o <<item>> /\ <<item>> \in Seq(Item)
    <3> HIDE DEF item, T
    <3> QED  BY <1>2, <1>3, AppendIsConcat
  <2>2. RecsOf(<<item>>) = {r}  BY DEF RecsOf
  <2>3. NoRepeat(<<item>>) /\ Tallied(<<item>>)  BY <1>1 DEF NoRepeat, Tallied
  <2>4. r \notin Queued(T)  BY <1>1, <1>2 DEF IInv, HeldOnce, Held
  <2>5. NoRepeat(queue[T]) /\ Tallied(queue[T])
    BY <1>2 DEF IInv, HeldOnce, AttemptsAccounted
  <2> HIDE DEF item, q, T
  <2> QED  BY <1>3, <2>1, <2>2, <2>3, <2>4, <2>5, JoinItems DEF Queued
<1> HIDE DEF q, T
<1>5. /\ intervalBusy' \in BOOLEAN /\ phase' \in {"running", "draining", "stopped"}
      /\ {r} \cap added = {} /\ {r} \in SUBSET Records /\ {T} \in SUBSET Tables
  BY <1>1, <1>2 DEF IInv, TypeOK
<1>6. IInv' /\ Held' = Held \cup {r}
  <2>1. Own({r}, T) = {r} /\ \A t \in Tables : t # T => Own({r}, t) = {}  BY DEF T, Own
  <2>2. \A t \in Tables :
          queue[t] \in Seq(Item) /\ NoRepeat(queue[t]) /\ Tallied(queue[t])
    BY <1>3 DEF IInv, HeldOnce, AttemptsAccounted
  <2>3. CASE Len(q) >= BatchSize
    <3> PICK x, y : x = Taken(q, BatchSize) /\ y = Left(q, BatchSize)
      OBVIOUS
    <3> PICK a, b : /\ a = [t \in Tables |-> IF t = T THEN x ELSE <<>>]
                    /\ b = [queue EXCEPT ![T] = y]
      OBVIOUS
    <3>1. queue' = b /\ flights' = flights \cup {NewFlight(T, x, "size")}
      BY <2>3 DEF AddToQueue, q, T
    <3>2. /\ x \in Seq(Item) /\ y \in Seq(Item)
          /\ RecsOf(x) \cup RecsOf(y) = RecsOf(q)
          /\ RecsOf(x) \cap RecsOf(y) = {}
          /\ NoRepeat(x) /\ NoRepeat(y) /\ Tallied(x) /\ Tallied(y)
      BY <1>4, TakenLeft, WriterAssumption
    <3>3. a \in [Tables -> Seq(Item)] /\ b \in [Tables -> Seq(Item)]
      BY <1>2, <1>3, <3>2, EmptyItems
    <3>4. \A t \in Tables : /\ a[t] = IF t = T THEN x ELSE <<>>
                            /\ b[t] = IF t = T THEN y ELSE queue[t]
      BY <1>3
    <3>5. Divided(a, b, {T}, {r})
      <4> SUFFICES ASSUME NEW t \in Tables
          PROVE  /\ RecsOf(a[t]) \cup RecsOf(b[t]) = Queued(t) \cup Own({r}, t)
                 /\ RecsOf(a[t]) \cap RecsOf(b[t]) = {}
                 /\ NoRepeat(a[t]) /\ NoRepeat(b[t]) /\ Tallied(a[t]) /\ Tallied(b[t])
                 /\ t \notin {T} => RecsOf(a[t]) = {}
        BY DEF Divided
      <4>1. CASE t = T  BY <1>4, <2>1, <3>2, <3>4, <4>1
      <4>2. CASE t # T  BY <2>1, <2>2, <3>4, <4>2, EmptyItems DEF Queued
      <4> QED  BY <4>1, <4>2
    <3>6. flights' = flights \cup {NewFlight(t, a[t], "size") : t \in {T}}
      BY <1>2, <3>1, <3>4
    <3>7. Pull(a, b, {T}, {r}, "size")  BY <1>1, <1>5, <3>1, <3>6 DEF Pull
    <3> QED  BY <1>5, <3>3, <3>5, <3>7, PullStep
  <2>4. CASE ~(Len(q) >= BatchSize)
    <3> PICK a, b : a = [t \in Tables |-> <<>>] /\ b = [queue EXCEPT ![T] = q]
      OBVIOUS
    <3>1. queue' = b /\ flights' = flights \cup {NewFlight(t, a[t], "size") : t \in {}}
      BY <2>4 DEF AddToQueue, q, T
    <3>2. a \in [Tables -> Seq(Item)] /\ b \in [Tables -> Seq(Item)]
      BY <1>2, <1>3, <1>4, EmptyItems
    <3>3. \A t \in Tables : a[t] = <<>> /\ b[t] = IF t = T THEN q ELSE queue[t]
      BY <1>3
    <3>4. Divided(a, b, {}, {r})
      <4> SUFFICES ASSUME NEW t \in Tables
          PROVE  /\ RecsOf(a[t]) \cup RecsOf(b[t]) = Queued(t) \cup Own({r}, t)
                 /\ RecsOf(a[t]) \cap RecsOf(b[t]) = {}
                 /\ NoRepeat(a[t]) /\ NoRepeat(b[t]) /\ Tallied(a[t]) /\ Tallied(b[t])
                 /\ t \notin {} => RecsOf(a[t]) = {}
        BY DEF Divided
      <4>1. CASE t = T  BY <1>4, <2>1, <3>3, <4>1, EmptyItems
      <4>2. CASE t # T  BY <2>1, <2>2, <3>3, <4>2, EmptyItems DEF Queued
      <4> QED  BY <4>1, <4>2
    <3>5. Pull(a, b, {}, {r}, "size")  BY <1>1, <1>5, <3>1 DEF Pull
    <3> QED  BY <1>5, <3>2, <3>4, <3>5, PullStep
  <2> QED  BY <2>3, <2>4
<1>7. r \notin Held \cup acked \cup dropped  BY <1>1 DEF IInv, HeldOnce
<1> QED  BY <1>1, <1>6, <1>7 DEF Buffer!Accept

(* A flush of every table that takes at most n(t) items of table t. *)
LEMMA FlushAllStep ==
  ASSUME IInv, NEW n \in [Tables -> Nat], NEW origin \in {"size", "interval", "shutdown"},
         flights' = flights \cup
           {NewFlight(t, Taken(queue[t], n[t]), origin) : t \in {u \in Tables : queue[u] # <<>>}},
         queue' = [t \in Tables |-> Left(queue[t], n[t])],
         intervalBusy' \in BOOLEAN, phase' \in {"running", "draining", "stopped"},
         UNCHANGED <<added, acked, dropped, fails>>
  PROVE  IInv' /\ Held' = Held
<1> PICK a, b, S : /\ a = [t \in Tables |-> Taken(queue[t], n[t])]
                   /\ b = [t \in Tables |-> Left(queue[t], n[t])]
                   /\ S = {u \in Tables : queue[u] # <<>>}
  OBVIOUS
<1>1. ASSUME NEW t \in Tables
      PROVE  /\ a[t] \in Seq(Item) /\ b[t] \in Seq(Item)
             /\ RecsOf(a[t]) \cup RecsOf(b[t]) = Queued(t) \cup Own({}, t)
             /\ RecsOf(a[t]) \cap RecsOf(b[t]) = {}
             /\ NoRepeat(a[t]) /\ NoRepeat(b[t]) /\ Tallied(a[t]) /\ Tallied(b[t])
             /\ t \notin S => RecsOf(a[t]) = {}
  <2>1. queue[t] \in Seq(Item) /\ NoRepeat(queue[t]) /\ Tallied(queue[t]) /\ n[t] \in Nat
    BY DEF IInv, TypeOK, HeldOnce, AttemptsAccounted
  <2>2. t \notin S => RecsOf(queue[t]) = {}  BY EmptyItems
  <2>3. Own({}, t) = {}  BY DEF Own
  <2> PICK q, m : q = queue[t] /\ m = n[t]
    OBVIOUS
  <2>4. a[t] = Taken(q, m) /\ b[t] = Left(q, m)  OBVIOUS
  <2>5. /\ Taken(q, m) \in Seq(Item) /\ Left(q, m) \in Seq(Item)
        /\ RecsOf(Taken(q, m)) \cup RecsOf(Left(q, m)) = RecsOf(q)
        /\ RecsOf(Taken(q, m)) \cap RecsOf(Left(q, m)) = {}
        /\ NoRepeat(Taken(q, m)) /\ NoRepeat(Left(q, m))
        /\ Tallied(Taken(q, m)) /\ Tallied(Left(q, m))
    BY <2>1, TakenLeft
  <2> QED  BY <2>2, <2>3, <2>4, <2>5 DEF Queued
<1>2. a \in [Tables -> Seq(Item)] /\ b \in [Tables -> Seq(Item)]  BY <1>1
<1>3. /\ flights' = flights \cup {NewFlight(t, a[t], origin) : t \in S}
      /\ queue' = b
  OBVIOUS
<1> PICK new : new = {}
  OBVIOUS
<1>4. Divided(a, b, S, new)  BY <1>1 DEF Divided
<1>5. new \in SUBSET Records /\ new \cap added = {} /\ S \in SUBSET Tables
  OBVIOUS
<1>6. Pull(a, b, S, new, origin)  BY <1>3 DEF Pull
<1>7. IInv' /\ Held' = Held \cup new
  BY <1>2, <1>4, <1>5, <1>6, PullStep
<1> QED  BY <1>7

(* Each outcome of an insert of one flight. *)
LEMMA ResolveStep ==
  ASSUME IInv, NEW f \in flights, Resolve(f)
  PROVE  IInv' /\ BufferStep
<1> DEFINE s == f.items
           h == Len(s) \div 2
<1>1. s \in Seq(Item) /\ NoRepeat(s) /\ Tallied(s) /\ RecsOf(s) \subseteq Held /\ f \in Flight
  BY FlightApart
<1>2. h \in 0..Len(s)
  <2>1. Len(s) \in Nat  BY <1>1
  <2> HIDE DEF s
  <2> QED  BY <2>1
<1>3. /\ FirstHalf(s) \in Seq(Item) /\ SecondHalf(s) \in Seq(Item)
      /\ RecsOf(FirstHalf(s)) \cup RecsOf(SecondHalf(s)) = RecsOf(s)
      /\ RecsOf(FirstHalf(s)) \cap RecsOf(SecondHalf(s)) = {}
      /\ NoRepeat(FirstHalf(s)) /\ NoRepeat(SecondHalf(s))
      /\ Tallied(FirstHalf(s)) /\ Tallied(SecondHalf(s))
  <2> HIDE DEF s
  <2> QED  BY <1>1, <1>2, CutItems DEF FirstHalf, SecondHalf
<1>4. /\ Truncate(s) \in Seq(Item) /\ RecsOf(Truncate(s)) = RecsOf(s)
      /\ NoRepeat(Truncate(s)) /\ Tallied(Truncate(s))
  BY <1>1, TruncateItems
<1>5. ASSUME NEW items \in Seq(Item), NEW front \in Seq(Item), NEW truncated \in BOOLEAN,
             RecsOf(items) \cup RecsOf(front) = RecsOf(s),
             RecsOf(items) \cap RecsOf(front) = {},
             NoRepeat(items), NoRepeat(front), Tallied(items), Tallied(front),
             RetriesOrFails(f, items, front, truncated)
      PROVE  IInv' /\ BufferStep
  <2>1. CASE Retries(f, items, front, truncated)
    <3>1. IInv' /\ Held' = Held  BY <1>5, <2>1, RetriesStep
    <3>2. UNCHANGED <<acked, dropped, fails>>  BY <2>1 DEF Retries
    <3> QED  BY <3>1, <3>2 DEF BufferStep
  <2>2. CASE FlushFails(f, items, front)
    <3>1. IInv' /\ Buffer!FailFlush(RecsOf(items))  BY <1>5, <2>2, FlushFailsStep
    <3>2. RecsOf(items) \in SUBSET Held  BY <1>1, <1>5
    <3> QED  BY <3>1, <3>2 DEF BufferStep, Buffer!Next
  <2> QED  BY <1>5, <2>1, <2>2 DEF RetriesOrFails
<1>6. f.truncated \in BOOLEAN  BY <1>1 DEF Flight
<1>7. CASE InsertSucceeds(f)
  <2>1. IInv' /\ Buffer!Acknowledge(RecsOf(s))  BY <1>7, InsertSucceedsStep
  <2>2. RecsOf(s) \in SUBSET Held  BY <1>1
  <2> QED  BY <2>1, <2>2 DEF BufferStep, Buffer!Next
<1>8. CASE SocketHangsUp(f)
  BY <1>1, <1>5, <1>6, <1>8, EmptyItems DEF SocketHangsUp
<1>9. CASE SplitsBatch(f)
  BY <1>3, <1>5, <1>6, <1>9 DEF SplitsBatch
<1>10. CASE TruncatesRow(f)
  BY <1>4, <1>5, <1>6, <1>10, EmptyItems DEF TruncatesRow
<1>11. CASE TruncatesBatch(f)
  BY <1>4, <1>5, <1>11, EmptyItems DEF TruncatesBatch
<1>12. CASE InsertRejected(f)
  <2>1. FlushFails(f, s, <<>>)  BY <1>12 DEF InsertRejected
  <2>2. IInv' /\ Buffer!FailFlush(RecsOf(s))
    BY <1>1, <2>1, EmptyItems, FlushFailsStep
  <2>3. RecsOf(s) \in SUBSET Held  BY <1>1
  <2> QED  BY <2>2, <2>3 DEF BufferStep, Buffer!Next
<1> QED  BY <1>7, <1>8, <1>9, <1>10, <1>11, <1>12 DEF Resolve

(* An empty writer satisfies the invariant and is an empty buffer. *)
LEMMA InitInv == Init => IInv /\ Buffer!Init
<1> SUFFICES ASSUME Init PROVE IInv /\ Buffer!Init
  OBVIOUS
<1>1. \A t \in Tables : queue[t] = <<>>  BY DEF Init
<1>2. \A t \in Tables : Queued(t) = {} /\ NoRepeat(queue[t]) /\ Tallied(queue[t])
  BY <1>1, EmptyItems DEF Queued
<1>3. Flying = {}  BY DEF Init, Flying
<1>4. Held = {}  BY <1>2, <1>3 DEF Held
<1>5. TypeOK
  <2>1. queue \in [Tables -> Seq(Item)]
    <3>1. <<>> \in Seq(Item)  BY EmptyItems
    <3> QED  BY <3>1 DEF Init
  <2>2. fails \in [Records -> 0..MaxAttempts]  BY WriterAssumption DEF Init
  <2> QED  BY <2>1, <2>2 DEF Init, TypeOK
<1>6. HeldOnce  BY <1>2, <1>3, <1>4 DEF Init, HeldOnce
<1>7. AttemptsAccounted  BY <1>2 DEF Init, AttemptsAccounted
<1> QED  BY <1>4, <1>5, <1>6, <1>7 DEF IInv, Init, Buffer!Init

(* Every step keeps the invariant and is a step or a stutter of the buffer. *)
LEMMA NextStep == IInv /\ [Next]_vars => IInv' /\ BufferStep
<1> SUFFICES ASSUME IInv, [Next]_vars PROVE IInv' /\ BufferStep
  OBVIOUS
<1>1. ASSUME NEW r \in Records, AddToQueue(r) PROVE IInv' /\ BufferStep
  <2>1. IInv' /\ Buffer!Accept(r)  BY <1>1, AddToQueueStep
  <2> QED  BY <2>1 DEF BufferStep, Buffer!Next
<1>2. CASE IntervalTick
  <2> PICK n : n = [t \in Tables |-> BatchSize]
    OBVIOUS
  <2>1. n \in [Tables -> Nat]  BY WriterAssumption
  <2>2. /\ flights' = flights \cup
             {NewFlight(t, Taken(queue[t], n[t]), "interval") : t \in {u \in Tables : queue[u] # <<>>}}
        /\ queue' = [t \in Tables |-> Left(queue[t], n[t])]
        /\ UNCHANGED <<added, acked, dropped, fails>>
    BY <1>2 DEF IntervalTick
  <2>3. intervalBusy' \in BOOLEAN /\ phase' \in {"running", "draining", "stopped"}
    BY <1>2 DEF IntervalTick, IInv, TypeOK
  <2>4. IInv' /\ Held' = Held  BY <2>1, <2>2, <2>3, FlushAllStep
  <2> QED  BY <2>2, <2>4 DEF BufferStep
<1>3. CASE IntervalDone
  <2>1. /\ UNCHANGED <<queue, flights, added, acked, dropped, fails>>
        /\ intervalBusy' \in BOOLEAN /\ phase' \in {"running", "draining", "stopped"}
    BY <1>3 DEF IntervalDone, IInv, TypeOK
  <2> QED  BY <2>1, NothingElse DEF BufferStep
<1>4. CASE Shutdown
  <2> PICK n : n = [t \in Tables |-> Len(queue[t])]
    OBVIOUS
  <2>0. \A t \in Tables : queue[t] \in Seq(Item) /\ Len(queue[t]) \in Nat
    BY DEF IInv, TypeOK
  <2>1. n \in [Tables -> Nat]  BY <2>0
  <2>2. ASSUME NEW t \in Tables
        PROVE  Taken(queue[t], n[t]) = queue[t] /\ Left(queue[t], n[t]) = <<>>
    <3>1. queue[t] \in Seq(Item) /\ n[t] = Len(queue[t])  BY <2>0
    <3>2. Smaller(n[t], Len(queue[t])) = Len(queue[t])  BY <3>1 DEF Smaller
    <3> QED  BY <3>1, <3>2 DEF Taken, Left
  <2>3. /\ flights' = flights \cup
             {NewFlight(t, Taken(queue[t], n[t]), "shutdown") : t \in {u \in Tables : queue[u] # <<>>}}
        /\ queue' = [t \in Tables |-> Left(queue[t], n[t])]
        /\ UNCHANGED <<added, acked, dropped, fails>>
    BY <1>4, <2>2 DEF Shutdown
  <2>4. intervalBusy' \in BOOLEAN /\ phase' \in {"running", "draining", "stopped"}
    BY <1>4 DEF Shutdown, IInv, TypeOK
  <2>5. IInv' /\ Held' = Held  BY <2>1, <2>3, <2>4, FlushAllStep
  <2> QED  BY <2>3, <2>5 DEF BufferStep
<1>5. CASE ShutdownDone
  <2>1. /\ UNCHANGED <<queue, flights, added, acked, dropped, fails>>
        /\ intervalBusy' \in BOOLEAN /\ phase' \in {"running", "draining", "stopped"}
    BY <1>5 DEF ShutdownDone, IInv, TypeOK
  <2> QED  BY <2>1, NothingElse DEF BufferStep
<1>6. ASSUME NEW f \in flights, Resolve(f) PROVE IInv' /\ BufferStep
  BY <1>6, ResolveStep
<1>7. CASE UNCHANGED vars
  <2>1. /\ UNCHANGED <<queue, flights, added, acked, dropped, fails>>
        /\ intervalBusy' \in BOOLEAN /\ phase' \in {"running", "draining", "stopped"}
    BY <1>7 DEF vars, IInv, TypeOK
  <2> QED  BY <2>1, NothingElse DEF BufferStep
<1> QED  BY <1>1, <1>2, <1>3, <1>4, <1>5, <1>6, <1>7 DEF Next

-----------------------------------------------------------------------------
(* The results. *)

(* The inductive invariant holds in every reachable state. *)
THEOREM Invariance == Spec => []IInv
BY InitInv, NextStep, PTL DEF Spec

(* The variables keep their types; in particular no row is ever queued     *)
(* with more than MaxAttempts attempts (index.ts:512).                     *)
THEOREM TypeCorrect == Spec => []TypeOK
<1>1. IInv => TypeOK  BY DEF IInv
<1> QED  BY <1>1, Invariance, PTL

(* However flushes overlap, fail, split and requeue, each row is held      *)
(* once, acknowledged, or dropped: none is lost and none is in two places. *)
THEOREM RowsHeldOnce == Spec => []HeldOnce
<1>1. IInv => HeldOnce  BY DEF IInv
<1> QED  BY <1>1, Invariance, PTL

(* A row is dropped by its MaxAttempts-th failed flush and by no other. *)
THEOREM DropsAccounted == Spec => []AttemptsAccounted
<1>1. IInv => AttemptsAccounted  BY DEF IInv
<1> QED  BY <1>1, Invariance, PTL

(* The writer implements the buffer the ingestion code relies on. *)
THEOREM ImplementsBuffer == Spec => BufferSpec
<1>1. Init => Buffer!Init  BY InitInv
<1>2. IInv /\ [Next]_vars => [Buffer!Next]_(Buffer!vars)
  BY NextStep DEF BufferStep, Buffer!vars
<1> QED  BY <1>1, <1>2, Invariance, PTL DEF Spec, BufferSpec, Buffer!Spec

-----------------------------------------------------------------------------
(* A healthy ClickHouse: nothing goes wrong but strings that are too long. *)
OnlyStringLengthErrors ==
  \/ \E r \in Records : AddToQueue(r)
  \/ IntervalTick
  \/ IntervalDone
  \/ \E f \in flights : InsertSucceeds(f) \/ SplitsBatch(f) \/ TruncatesRow(f)

StringLengthSpec == Init /\ [][OnlyStringLengthErrors]_vars

(* ClickhouseWriter/index.ts:171 says that halving the batch eventually    *)
(* avoids the string length error: no row is dropped because of it.        *)
SplitAvoidsError == dropped = {}

(* When halving is enough.  Share[n] is what is left of a full batch after *)
(* n halvings.                                                             *)
Shrinks(Share) ==
  /\ Share \in [0..(MaxAttempts - 1) -> Nat]
  /\ Share[0] = BatchSize
  /\ \A n \in 1..(MaxAttempts - 1) : Share[n] = Share[n - 1] \div 2

(* A flight that has been halved n times has no more than that. *)
InShare(Share, f) ==
  f.tries \in 0..(MaxAttempts - 1) /\ Len(f.items) \in Nat /\ Len(f.items) <= Share[f.tries]

SplitInv(Share) == dropped = {} /\ \A f \in flights : InShare(Share, f)

(* A new flight has one batch at most. *)
LEMMA NewInShare ==
  ASSUME NEW Share, Shrinks(Share), NEW t, NEW origin, NEW q \in Seq(Item)
  PROVE  InShare(Share, NewFlight(t, Taken(q, BatchSize), origin))
<1>1. BatchSize \in Nat \ {0} /\ MaxAttempts \in Nat \ {0} /\ Len(q) \in Nat
  BY WriterAssumption
<1>2. Smaller(BatchSize, Len(q)) \in 0..Len(q) /\ Smaller(BatchSize, Len(q)) <= BatchSize
  BY <1>1 DEF Smaller
<1>3. Len(Taken(q, BatchSize)) = Smaller(BatchSize, Len(q))
  BY <1>2 DEF Taken
<1> QED  BY <1>1, <1>2, <1>3 DEF InShare, NewFlight, Shrinks

(* Half of less is less. *)
LEMMA HalfOf ==
  ASSUME NEW a \in Nat, NEW b \in Nat, a <= b
  PROVE  a \div 2 \in 0..a /\ a \div 2 <= b \div 2
  OBVIOUS

LEMMA HalfLength ==
  ASSUME NEW s \in Seq(Item)
  PROVE  Len(FirstHalf(s)) = Len(s) \div 2
<1>1. Len(s) \in Nat
  OBVIOUS
<1>2. Len(s) \div 2 \in 0..Len(s)
  BY <1>1, HalfOf
<1> QED  BY <1>2 DEF FirstHalf

(* What still is too long can be halved, and its half is within the share  *)
(* of the next try.                                                        *)
LEMMA HalvesInShare ==
  ASSUME NEW Share, Shrinks(Share), Share[MaxAttempts - 1] <= MaxJoined, Huge = {},
         NEW f \in Flight, InShare(Share, f), TooLong(f)
  PROVE  /\ NextTry(f) < MaxAttempts
         /\ Len(f.items) # 1
         /\ \A cut : InShare(Share, [f EXCEPT !.items = FirstHalf(f.items), !.tries = NextTry(f),
                                              !.truncated = cut])
<1> DEFINE n == f.tries
           l == Len(f.items)
<1>1. MaxAttempts \in Nat \ {0} /\ MaxJoined \in Nat \ {0} /\ n \in 0..(MaxAttempts - 1) /\ l \in Nat
  BY WriterAssumption DEF InShare
<1>2. l > MaxJoined /\ l <= Share[n]
  BY DEF TooLong, InShare
<1>3. n # MaxAttempts - 1
  BY <1>1, <1>2 DEF Shrinks
<1>4. n + 1 \in 1..(MaxAttempts - 1)
  BY <1>1, <1>3
<1>5. Share[n] \in Nat /\ Share[n + 1] = Share[n] \div 2
  <2>1. Share[n + 1] = Share[(n + 1) - 1] \div 2
    BY <1>4 DEF Shrinks
  <2>2. (n + 1) - 1 = n
    <3> HIDE DEF n
    <3> QED  BY <1>1
  <2> QED  BY <1>1, <2>1, <2>2 DEF Shrinks
<1>6. l \div 2 \in 0..l /\ l \div 2 <= Share[n] \div 2
  <2> HIDE DEF n, l
  <2> QED  BY <1>1, <1>2, <1>5, HalfOf
<1>7. l \div 2 \in Nat
  <2> HIDE DEF n, l
  <2> QED  BY <1>1, <1>6
<1>8. Len(FirstHalf(f.items)) = l \div 2
  <2>1. f.items \in Seq(Item)
    BY DEF Flight
  <2> QED  BY <2>1, HalfLength
<1>9. NextTry(f) < MaxAttempts /\ l # 1
  <2>1. NextTry(f) = n + 1
    BY DEF NextTry
  <2> HIDE DEF n, l
  <2> QED  BY <1>1, <1>2, <1>4, <2>1
<1>10. ASSUME NEW cut
       PROVE  InShare(Share, [f EXCEPT !.items = FirstHalf(f.items), !.tries = NextTry(f), !.truncated = cut])
  <2> DEFINE g == [f EXCEPT !.items = FirstHalf(f.items), !.tries = NextTry(f), !.truncated = cut]
  <2>1. g.items = FirstHalf(f.items) /\ g.tries = n + 1
    BY DEF Flight, NextTry
  <2>2. Len(g.items) = l \div 2
    BY <1>8, <2>1
  <2> HIDE DEF g, n, l
  <2>3. g.tries \in 0..(MaxAttempts - 1) /\ Len(g.items) \in Nat /\ Len(g.items) <= Share[g.tries]
    BY <1>4, <1>5, <1>6, <1>7, <2>1, <2>2
  <2>4. InShare(Share, g)
    BY <2>3 DEF InShare
  <2> QED  BY <2>4 DEF g
<1> QED  BY <1>9, <1>10

LEMMA SplitInvKept ==
  ASSUME NEW Share, Shrinks(Share), Share[MaxAttempts - 1] <= MaxJoined, Huge = {},
         TypeOK, SplitInv(Share), [OnlyStringLengthErrors]_vars
  PROVE  SplitInv(Share)'
<1>1. ASSUME NEW r \in Records, AddToQueue(r) PROVE SplitInv(Share)'
  <2> DEFINE q == Append(queue[TableOf[r]], [rec |-> r, attempts |-> 1, cut |-> FALSE])
  <2>1. q \in Seq(Item)
    <3>1. queue[TableOf[r]] \in Seq(Item)
      BY WriterAssumption DEF TypeOK
    <3>2. [rec |-> r, attempts |-> 1, cut |-> FALSE] \in Item
      BY WriterAssumption DEF Item
    <3> QED  BY <3>1, <3>2
  <2>2. /\ dropped' = dropped
        /\ \/ flights' = flights
           \/ flights' = flights \cup {NewFlight(TableOf[r], Taken(q, BatchSize), "size")}
    BY <1>1 DEF AddToQueue
  <2>3. InShare(Share, NewFlight(TableOf[r], Taken(q, BatchSize), "size"))
    BY <2>1, NewInShare
  <2> QED  BY <2>2, <2>3 DEF SplitInv
<1>2. CASE IntervalTick
  <2>1. ASSUME NEW t \in Tables PROVE InShare(Share, NewFlight(t, Taken(queue[t], BatchSize), "interval"))
    BY NewInShare DEF TypeOK
  <2> QED  BY <1>2, <2>1 DEF IntervalTick, SplitInv
<1>3. CASE IntervalDone
  BY <1>3 DEF IntervalDone, SplitInv
<1>4. ASSUME NEW f \in flights, InsertSucceeds(f) PROVE SplitInv(Share)'
  BY <1>4 DEF InsertSucceeds, SplitInv
<1>5. ASSUME NEW f \in flights, SplitsBatch(f) \/ TruncatesRow(f) PROVE SplitInv(Share)'
  <2>1. f \in Flight /\ InShare(Share, f) /\ TooLong(f)
    BY <1>5 DEF TypeOK, SplitInv, SplitsBatch, TruncatesRow
  <2>2. NextTry(f) < MaxAttempts /\ Len(f.items) # 1
    BY <2>1, HalvesInShare
  <2>3. Retries(f, FirstHalf(f.items), SecondHalf(f.items), f.truncated)
    <3>1. MaxAttempts \in Nat /\ NextTry(f) \in Nat
      BY <2>1, WriterAssumption DEF NextTry, InShare
    <3>2. ~(NextTry(f) >= MaxAttempts)
      BY <2>2, <3>1
    <3>3. RetriesOrFails(f, FirstHalf(f.items), SecondHalf(f.items), f.truncated)
      BY <1>5, <2>2 DEF SplitsBatch, TruncatesRow
    <3> QED  BY <3>2, <3>3 DEF RetriesOrFails
  <2>4. /\ dropped' = dropped
        /\ flights' = (flights \ {f}) \cup
             {[f EXCEPT !.items = FirstHalf(f.items), !.tries = NextTry(f), !.truncated = f.truncated]}
    BY <2>3 DEF Retries
  <2> DEFINE g == [f EXCEPT !.items = FirstHalf(f.items), !.tries = NextTry(f), !.truncated = f.truncated]
  <2>5. InShare(Share, g)
    BY <2>1, HalvesInShare
  <2> HIDE DEF g
  <2>6. flights' = (flights \ {f}) \cup {g}
    BY <2>4 DEF g
  <2> QED  BY <2>4, <2>5, <2>6 DEF SplitInv
<1>6. CASE UNCHANGED vars
  BY <1>6 DEF vars, SplitInv
<1> QED  BY <1>1, <1>2, <1>3, <1>4, <1>5, <1>6 DEF OnlyStringLengthErrors

(* ClickhouseWriter/index.ts:171 says that halving eventually avoids the   *)
(* error.  It does, for rows that fit alone and a healthy ClickHouse, if   *)
(* as many halvings as there are retries bring a full batch down to what   *)
(* can be joined; otherwise the attempts of the rows are spent on halving, *)
(* and rows that fit alone are dropped.                                    *)
THEOREM EnoughHalvings ==
  ASSUME NEW Share, Shrinks(Share), Share[MaxAttempts - 1] <= MaxJoined, Huge = {}
  PROVE  StringLengthSpec => []SplitAvoidsError
<1>1. Init => SplitInv(Share)
  BY DEF Init, SplitInv
<1>2. TypeOK /\ SplitInv(Share) /\ [OnlyStringLengthErrors]_vars => SplitInv(Share)'
  BY SplitInvKept
<1>3. [OnlyStringLengthErrors]_vars => [Next]_vars
  BY DEF OnlyStringLengthErrors, Next, Resolve
<1>4. SplitInv(Share) => SplitAvoidsError
  BY DEF SplitInv, SplitAvoidsError
<1> QED  BY <1>1, <1>2, <1>3, <1>4, TypeCorrect, PTL DEF StringLengthSpec, Spec
=============================================================================
