-------------------------- MODULE PromptCacheProofs --------------------------
(***************************************************************************)
(* The prompt cache answers with what the database has, whatever the       *)
(* prompts, the readers and the faults.                                    *)
(***************************************************************************)
EXTENDS PromptCache, TLAPS

Result == [content : [Prompts -> Nat], late : BOOLEAN]

Reader ==
  [phase : {"epoch", "create", "again", "get", "find", "store"},
   token : Nat, result : Result, then : {"get", "store"}]

Whole(result) == \A p \in Prompts : result.content[p] # Missing

(* Nothing has changed and been announced since it was read. *)
UpToDate(result) ==
  result.late = TRUE \/ \A p \in Prompts \ unannounced : result.content[p] \in {Missing, prompts[p]}

(* What holds of each reader, as reader[r] is now or as it becomes. *)
ReaderOK(x) ==
  /\ x \in Reader
  /\ x.token <= tokens
  /\ x.phase \in {"create", "again", "get", "store"} => x.token > 0
  /\ x.phase = "store" \/ x.then = "store" => Whole(x.result)
  /\ UpToDate(x.result)

(* No reader but r has its token, and none has stored anything under it.   *)
Unused(r) ==
  /\ reader[r].token # epoch
  /\ cached[reader[r].token] = Nothing
  /\ \A s \in PromptReaders : s # r => reader[s].token # reader[r].token

CacheTypes ==
  /\ prompts \in [Prompts -> Nat]
  /\ writes \in Nat
  /\ unannounced \subseteq Prompts
  /\ tokens \in Nat
  /\ epoch \in Nat /\ epoch <= tokens
  /\ cached \in [1..tokens -> Result]

(* The inductive invariant: NoStaleCache is kept because the readers hold  *)
(* nothing stale that is not late, and because a token that may become the *)
(* epoch has no entry yet.                                                 *)
CacheInv ==
  /\ CacheTypes
  /\ reader \in [PromptReaders -> Reader]
  /\ \A r \in PromptReaders : ReaderOK(reader[r])
  /\ \A r \in PromptReaders : reader[r].phase = "create" => Unused(r)
  /\ NoStaleCache

-----------------------------------------------------------------------------

(* What a reader has at first: nothing, which is never stale. *)
LEMMA NothingIsAResult == Nothing \in Result /\ UpToDate(Nothing)
  BY DEF Nothing, Result, UpToDate, Missing

(* A slot without a reader meets what is asked of readers. *)
LEMMA NoReaderOK == CacheTypes => ReaderOK(NoReader)
<1>1. NoReader \in Reader
  BY NothingIsAResult DEF NoReader, Reader, NoToken
<1>2. NoReader.token = 0 /\ NoReader.phase = "epoch" /\ NoReader.then = "get" /\ NoReader.result = Nothing
  BY DEF NoReader, NoToken
<1> QED  BY <1>1, <1>2, NothingIsAResult DEF ReaderOK, CacheTypes

(* One reader moves to x, with a token it had, the epoch or none; nothing  *)
(* else changes.                                                           *)
LEMMA OneReaderMoves ==
  ASSUME CacheInv, NEW r \in PromptReaders, NEW x,
         ReaderOK(x), x.phase # "create", x.token \in {reader[r].token, epoch, NoToken},
         reader' = [reader EXCEPT ![r] = x],
         UNCHANGED <<prompts, writes, unannounced, epoch, tokens, cached>>
  PROVE  CacheInv'
<1>1. CacheTypes' /\ NoStaleCache'
  BY DEF CacheInv, CacheTypes, NoStaleCache, NoToken, Nothing, Missing
<1>2. reader'[r] = x /\ \A s \in PromptReaders : s # r => reader'[s] = reader[s]
  BY DEF CacheInv
<1>3. reader' \in [PromptReaders -> Reader]
  BY DEF CacheInv, ReaderOK
<1>4. ASSUME NEW s \in PromptReaders PROVE ReaderOK(reader[s])'
  BY <1>2 DEF CacheInv, ReaderOK, UpToDate, Whole, Missing
<1>5. ASSUME NEW s \in PromptReaders, reader'[s].phase = "create" PROVE Unused(s)'
  <2>1. s # r /\ reader'[s] = reader[s] /\ Unused(s) /\ reader[s].token > 0
    BY <1>2, <1>5 DEF CacheInv, ReaderOK
  <2>2. ASSUME NEW q \in PromptReaders, q # s PROVE reader'[q].token # reader[s].token
    <3>1. CASE q = r
      BY <1>2, <2>1, <3>1 DEF Unused, NoToken
    <3>2. CASE q # r
      BY <1>2, <2>1, <2>2, <3>2 DEF Unused
    <3> QED  BY <3>1, <3>2
  <2> QED  BY <2>1, <2>2 DEF Unused, Nothing, Missing
<1> QED  BY <1>1, <1>3, <1>4, <1>5 DEF CacheInv

(* Nothing of the cache changes. *)
LEMMA CacheUnchanged ==
  ASSUME CacheInv, UNCHANGED <<prompts, writes, unannounced, epoch, tokens, cached, reader>>
  PROVE  CacheInv'
<1>1. CacheTypes' /\ NoStaleCache'
  BY DEF CacheInv, CacheTypes, NoStaleCache, NoToken, Nothing, Missing
<1>2. ASSUME NEW s \in PromptReaders PROVE ReaderOK(reader[s])'
  BY DEF CacheInv, ReaderOK, UpToDate, Whole, Missing
<1>3. ASSUME NEW s \in PromptReaders, reader'[s].phase = "create" PROVE Unused(s)'
  BY <1>3 DEF CacheInv, Unused, Nothing, Missing
<1> QED  BY <1>1, <1>2, <1>3 DEF CacheInv

(* A reader has its answer. *)
LEMMA ReaderEnds ==
  ASSUME CacheInv, NEW r \in PromptReaders, ReaderIsDone(r),
         UNCHANGED <<prompts, writes, unannounced, epoch, tokens, cached>>
  PROVE  CacheInv'
<1>1. ReaderOK(NoReader) /\ NoReader.phase # "create" /\ NoReader.token = NoToken
  BY NoReaderOK DEF CacheInv, NoReader
<1>2. reader' = [reader EXCEPT ![r] = NoReader]
  BY DEF ReaderIsDone
<1> QED  BY <1>1, <1>2, OneReaderMoves

(* A reader turns from the cache to the database. *)
LEMMA ReaderFinds ==
  ASSUME CacheInv, NEW r \in PromptReaders,
         reader' = [reader EXCEPT ![r] = [reader[r] EXCEPT !.phase = "find", !.token = NoToken]],
         UNCHANGED <<prompts, writes, unannounced, epoch, tokens, cached>>
  PROVE  CacheInv'
<1> DEFINE x == [reader[r] EXCEPT !.phase = "find", !.token = NoToken]
<1>1. ReaderOK(reader[r]) /\ tokens \in Nat
  BY DEF CacheInv, CacheTypes
<1>2. /\ x \in Reader /\ x.phase = "find" /\ x.token = NoToken /\ NoToken = 0
      /\ x.then = reader[r].then /\ x.result = reader[r].result
  BY <1>1 DEF ReaderOK, Reader, NoToken
<1> HIDE DEF x
<1>3. ReaderOK(x)
  BY <1>1, <1>2 DEF ReaderOK
<1>4. reader' = [reader EXCEPT ![r] = x]
  BY DEF x
<1> QED  BY <1>2, <1>3, <1>4, OneReaderMoves

(* Token k becomes the epoch: what has changed counts as announced, and    *)
(* every reader holds what is up to date or is late.                       *)
LEMMA NewEpochIsUnused ==
  ASSUME CacheInv, NEW k, NEW readers \in [PromptReaders -> Reader],
         k \in 1..tokens', tokens' \in Nat, cached' \in [1..tokens' -> Result],
         cached'[k] = Nothing,
         EpochBecomes(k, readers),
         \A s \in PromptReaders :
           /\ readers[s].token <= tokens'
           /\ readers[s].phase \in {"create", "again", "get", "store"} => readers[s].token > 0
           /\ readers[s].phase = "store" \/ readers[s].then = "store" => Whole(readers[s].result),
         \A s \in PromptReaders : readers[s].phase = "create" =>
           /\ readers[s].token # k
           /\ cached'[readers[s].token] = Nothing
           /\ \A q \in PromptReaders : q # s => readers[q].token # readers[s].token,
         UNCHANGED <<prompts, writes>>
  PROVE  CacheInv'
<1>1. CacheTypes'
  BY DEF CacheInv, CacheTypes, EpochBecomes
<1>2. NoStaleCache'
  BY DEF EpochBecomes, NoStaleCache, Nothing, Missing
<1>3. ASSUME NEW s \in PromptReaders
      PROVE  /\ reader'[s].phase = readers[s].phase /\ reader'[s].token = readers[s].token
             /\ reader'[s].then = readers[s].then
             /\ reader'[s].result.content = readers[s].result.content
             /\ reader'[s].result.late = (readers[s].result.late \/ Outdated(readers[s].result))
             /\ reader'[s] \in Reader
  BY DEF EpochBecomes, Reader, Result, Outdated
<1>4. reader' \in [PromptReaders -> Reader]
  BY <1>3 DEF EpochBecomes
<1>5. ASSUME NEW s \in PromptReaders PROVE UpToDate(reader[s].result)'
  <2>1. CASE Outdated(readers[s].result)
    BY <1>3, <2>1 DEF UpToDate
  <2>2. CASE ~Outdated(readers[s].result)
    BY <1>3, <2>2 DEF UpToDate, Outdated, Missing
  <2> QED  BY <2>1, <2>2
<1>6. ASSUME NEW s \in PromptReaders PROVE ReaderOK(reader[s])'
  BY <1>3, <1>5 DEF ReaderOK, Whole, Missing
<1>7. ASSUME NEW s \in PromptReaders, reader'[s].phase = "create" PROVE Unused(s)'
  <2>1. /\ epoch' = k /\ readers[s].token # k
        /\ cached'[readers[s].token] = Nothing
        /\ \A q \in PromptReaders : q # s => readers[q].token # readers[s].token
    BY <1>3, <1>7 DEF EpochBecomes
  <2>2. \A q \in PromptReaders : q # s => reader'[q].token # reader'[s].token
    BY <1>3, <2>1
  <2> QED  BY <1>3, <2>1, <2>2 DEF Unused, Nothing, Missing
<1> QED  BY <1>1, <1>2, <1>4, <1>6, <1>7 DEF CacheInv

-----------------------------------------------------------------------------

(* Every action keeps the invariant. *)
LEMMA CacheInvKept == CacheInv /\ [PromptNext]_promptVars => CacheInv'
<1> SUFFICES ASSUME CacheInv, [PromptNext]_promptVars PROVE CacheInv'
  OBVIOUS
<1>1. ASSUME NEW p \in Prompts, Change(p) PROVE CacheInv'
  <2>1. PICK state \in {Missing, writes' + 1} : prompts' = [prompts EXCEPT ![p] = state]
    BY <1>1 DEF Change
  <2>2. /\ writes' = writes + 1 /\ unannounced' = unannounced \cup {p}
        /\ UNCHANGED <<epoch, tokens, cached, reader>>
    BY <1>1 DEF Change
  <2>3. state \in Nat /\ writes' \in Nat
    BY <2>1, <2>2 DEF CacheInv, CacheTypes, Missing
  <2>4. \A q \in Prompts \ unannounced' : q \in Prompts \ unannounced /\ prompts'[q] = prompts[q]
    BY <2>1, <2>2 DEF CacheInv, CacheTypes
  <2>5. CacheTypes'
    BY <2>1, <2>2, <2>3 DEF CacheInv, CacheTypes
  <2>6. NoStaleCache'
    BY <2>2, <2>4 DEF CacheInv, NoStaleCache, Nothing, Missing
  <2>7. ASSUME NEW s \in PromptReaders PROVE ReaderOK(reader[s])'
    BY <2>2, <2>4 DEF CacheInv, ReaderOK, UpToDate, Whole, Missing
  <2>8. ASSUME NEW s \in PromptReaders, reader'[s].phase = "create" PROVE Unused(s)'
    BY <2>2, <2>8 DEF CacheInv, Unused, Nothing, Missing
  <2> QED  BY <2>2, <2>5, <2>6, <2>7, <2>8 DEF CacheInv
<1>2. CASE Announce
  <2> DEFINE k == tokens + 1
  <2>1. /\ tokens' = k /\ EpochBecomes(k, reader) /\ UNCHANGED <<prompts, writes>>
        /\ cached' = [j \in 1..k |-> IF j \in DOMAIN cached THEN cached[j] ELSE Nothing]
    BY <1>2 DEF Announce, NewToken, Rotated
  <2>2. k \in 1..k /\ k \in Nat /\ k \notin 1..tokens /\ tokens \in Nat
    BY DEF CacheInv, CacheTypes
  <2>3. cached' \in [1..k -> Result] /\ cached'[k] = Nothing
    BY <2>1, <2>2, NothingIsAResult DEF CacheInv, CacheTypes
  <2>4. ASSUME NEW s \in PromptReaders
        PROVE  /\ reader[s].token <= k /\ reader[s].token # k
               /\ reader[s].token \in Nat
    BY <2>2 DEF CacheInv, ReaderOK, Reader
  <2>5. ASSUME NEW s \in PromptReaders, reader[s].phase = "create"
        PROVE  cached'[reader[s].token] = Nothing /\ Unused(s)
    <3>1. Unused(s) /\ reader[s].token > 0 /\ reader[s].token <= tokens
      BY <2>5 DEF CacheInv, ReaderOK
    <3>2. reader[s].token \in 1..tokens /\ reader[s].token \in 1..k
      BY <2>2, <2>4, <3>1
    <3> QED  BY <2>1, <3>1, <3>2 DEF Unused, CacheInv, CacheTypes
  <2> HIDE DEF k
  <2>6. \A s \in PromptReaders : ReaderOK(reader[s])
    BY DEF CacheInv
  <2>7. \A s \in PromptReaders :
          /\ reader[s].token <= tokens'
          /\ reader[s].phase \in {"create", "again", "get", "store"} => reader[s].token > 0
          /\ reader[s].phase = "store" \/ reader[s].then = "store" => Whole(reader[s].result)
    BY <2>1, <2>4, <2>6 DEF ReaderOK
  <2>8. \A s \in PromptReaders : reader[s].phase = "create" =>
          /\ reader[s].token # k
          /\ cached'[reader[s].token] = Nothing
          /\ \A q \in PromptReaders : q # s => reader[q].token # reader[s].token
    BY <2>4, <2>5 DEF Unused
  <2>9. reader \in [PromptReaders -> Reader] /\ k \in 1..tokens' /\ tokens' \in Nat
        /\ cached' \in [1..tokens' -> Result] /\ UNCHANGED <<prompts, writes>>
    BY <2>1, <2>2, <2>3 DEF CacheInv
  <2> QED  BY <2>1, <2>3, <2>7, <2>8, <2>9, NewEpochIsUnused
<1>3. CASE AnnounceFails
  <2>1. UNCHANGED <<prompts, writes, unannounced, epoch, tokens, cached, reader>>
    BY <1>3 DEF AnnounceFails
  <2> QED  BY <2>1, CacheUnchanged
<1>4. ASSUME NEW r \in PromptReaders, GetEpoch(r) PROVE CacheInv'
  <2>1. CASE epoch # NoToken
    <3> DEFINE x == [reader[r] EXCEPT !.phase = reader[r].then, !.token = epoch]
    <3>1. /\ reader' = [reader EXCEPT ![r] = x]
          /\ UNCHANGED <<prompts, writes, unannounced, epoch, tokens, cached>>
      BY <1>4, <2>1 DEF GetEpoch, CacheInv
    <3>2. ReaderOK(reader[r]) /\ epoch \in Nat /\ epoch <= tokens /\ epoch > 0
      BY <2>1 DEF CacheInv, CacheTypes, NoToken
    <3>3. /\ x \in Reader /\ x.phase = reader[r].then /\ x.phase \in {"get", "store"}
          /\ x.token = epoch /\ x.then = reader[r].then /\ x.result = reader[r].result
      BY <3>2 DEF ReaderOK, Reader
    <3> HIDE DEF x
    <3>4. ReaderOK(x) /\ x.phase # "create"
      BY <3>2, <3>3 DEF ReaderOK
    <3> QED  BY <3>1, <3>3, <3>4, OneReaderMoves
  <2>2. CASE epoch = NoToken
    <3> DEFINE k == tokens + 1
               x == [reader[r] EXCEPT !.phase = "create", !.token = k]
    <3>1. /\ tokens' = k /\ reader' = [reader EXCEPT ![r] = x]
          /\ cached' = [j \in 1..k |-> IF j \in DOMAIN cached THEN cached[j] ELSE Nothing]
          /\ UNCHANGED <<prompts, writes, unannounced, epoch>>
      BY <1>4, <2>2 DEF GetEpoch, NewToken, CacheInv
    <3>2. /\ k \in 1..k /\ k \in Nat /\ k \notin 1..tokens /\ tokens \in Nat /\ k > tokens
          /\ \A j \in 1..tokens : j \in 1..k
      BY DEF CacheInv, CacheTypes
    <3>3. /\ cached' \in [1..k -> Result] /\ cached'[k] = Nothing
          /\ \A j \in 1..tokens : cached'[j] = cached[j]
      BY <3>1, <3>2, NothingIsAResult DEF CacheInv, CacheTypes
    <3>4. CacheTypes' /\ NoStaleCache'
      <4>1. CacheTypes'
        BY <2>2, <3>1, <3>2, <3>3 DEF CacheInv, CacheTypes, NoToken
      <4>2. NoStaleCache'
        BY <2>2, <3>1 DEF NoStaleCache
      <4> QED  BY <4>1, <4>2
    <3>5. /\ x \in Reader /\ x.phase = "create" /\ x.token = k
          /\ x.then = reader[r].then /\ x.result = reader[r].result
      BY <3>2 DEF CacheInv, Reader
    <3> HIDE DEF x
    <3>6. reader' \in [PromptReaders -> Reader] /\ reader'[r] = x
          /\ \A s \in PromptReaders : s # r => reader'[s] = reader[s]
      BY <3>1, <3>5 DEF CacheInv
    <3>7. ASSUME NEW s \in PromptReaders PROVE ReaderOK(reader[s])'
      <4>1. CASE s = r
        BY <3>1, <3>2, <3>5, <3>6, <4>1 DEF CacheInv, ReaderOK, UpToDate, Whole, Missing
      <4>2. CASE s # r
        BY <3>1, <3>2, <3>6, <4>2 DEF CacheInv, ReaderOK, UpToDate, Whole, Missing, Reader
      <4> QED  BY <4>1, <4>2
    <3>8. ASSUME NEW s \in PromptReaders, reader'[s].phase = "create" PROVE Unused(s)'
      <4>1. \A q \in PromptReaders : reader[q].token \in Nat /\ reader[q].token <= tokens /\ reader[q].token # k
        BY <3>2 DEF CacheInv, ReaderOK, Reader
      <4>2. CASE s = r
        BY <2>2, <3>1, <3>2, <3>3, <3>5, <3>6, <4>1, <4>2 DEF Unused, NoToken, Nothing, Missing
      <4>3. CASE s # r
        <5>1. reader'[s] = reader[s] /\ Unused(s) /\ reader[s].token \in 1..tokens
          BY <3>6, <3>8, <4>1, <4>3 DEF CacheInv, ReaderOK
        <5>2. \A q \in PromptReaders : q # s => reader'[q].token # reader[s].token
          BY <3>5, <3>6, <4>1, <5>1 DEF Unused
        <5> QED  BY <3>1, <3>3, <5>1, <5>2 DEF Unused, Nothing, Missing
      <4> QED  BY <4>2, <4>3
    <3> QED  BY <3>4, <3>6, <3>7, <3>8 DEF CacheInv
  <2> QED  BY <2>1, <2>2
<1>5. ASSUME NEW r \in PromptReaders, CreateEpoch(r) PROVE CacheInv'
  <2> DEFINE x == [reader[r] EXCEPT !.phase = "again"]
             readers == [reader EXCEPT ![r] = x]
  <2>1. /\ reader[r].phase = "create"
        /\ IF epoch = NoToken THEN EpochBecomes(reader[r].token, readers)
           ELSE reader' = readers /\ UNCHANGED <<epoch, unannounced>>
        /\ UNCHANGED <<prompts, writes, tokens, cached>>
    BY <1>5 DEF CreateEpoch, CacheInv
  <2>2. /\ ReaderOK(x) /\ x.phase = "again" /\ x.token = reader[r].token
        /\ x.then = reader[r].then /\ x.result = reader[r].result
    BY <2>1 DEF CacheInv, ReaderOK, Reader
  <2>3. CASE epoch # NoToken
    BY <2>1, <2>2, <2>3, OneReaderMoves
  <2>4. CASE epoch = NoToken
    <3> DEFINE k == reader[r].token
    <3>1. Unused(r) /\ k \in 1..tokens /\ tokens \in Nat
      BY <2>1 DEF CacheInv, CacheTypes, ReaderOK, Reader
    <3>2. readers[r] = x /\ \A s \in PromptReaders : s # r => readers[s] = reader[s]
      BY DEF CacheInv
    <3>3. readers \in [PromptReaders -> Reader]
      BY <2>2 DEF CacheInv, ReaderOK
    <3> HIDE DEF x, readers
    <3>4. \A s \in PromptReaders : ReaderOK(readers[s]) /\ readers[s].token = reader[s].token
      BY <2>2, <3>2 DEF CacheInv
    <3>5. \A s \in PromptReaders :
            /\ readers[s].token <= tokens'
            /\ readers[s].phase \in {"create", "again", "get", "store"} => readers[s].token > 0
            /\ readers[s].phase = "store" \/ readers[s].then = "store" => Whole(readers[s].result)
      BY <2>1, <3>4 DEF ReaderOK
    <3>6. ASSUME NEW s \in PromptReaders, readers[s].phase = "create"
          PROVE  /\ readers[s].token # k
                 /\ cached'[readers[s].token] = Nothing
                 /\ \A q \in PromptReaders : q # s => readers[q].token # readers[s].token
      <4>1. s # r /\ Unused(s)
        BY <2>2, <3>2, <3>6 DEF CacheInv
      <4> QED  BY <2>1, <3>4, <4>1 DEF Unused
    <3>7. /\ k \in 1..tokens' /\ tokens' \in Nat /\ cached' \in [1..tokens' -> Result]
          /\ cached'[k] = Nothing /\ EpochBecomes(k, readers) /\ UNCHANGED <<prompts, writes>>
      BY <2>1, <2>4, <3>1 DEF CacheInv, CacheTypes, Unused
    <3> QED  BY <3>3, <3>5, <3>6, <3>7, NewEpochIsUnused
  <2> QED  BY <2>3, <2>4
<1>6. ASSUME NEW r \in PromptReaders, GetEpochAgain(r) PROVE CacheInv'
  <2> DEFINE t == IF epoch = NoToken THEN reader[r].token ELSE epoch
             x == [reader[r] EXCEPT !.phase = reader[r].then, !.token = t]
  <2>1. /\ reader[r].phase = "again" /\ reader' = [reader EXCEPT ![r] = x]
        /\ UNCHANGED <<prompts, writes, unannounced, epoch, tokens, cached>>
    BY <1>6 DEF GetEpochAgain, CacheInv
  <2>2. t \in Nat /\ t > 0 /\ t <= tokens /\ t \in {reader[r].token, epoch, NoToken}
    BY <2>1 DEF CacheInv, CacheTypes, ReaderOK, Reader, NoToken
  <2> HIDE DEF t
  <2>3. ReaderOK(x) /\ x.phase # "create" /\ x.token = t
    BY <2>1, <2>2 DEF CacheInv, ReaderOK, Reader
  <2> QED  BY <2>1, <2>2, <2>3, OneReaderMoves
<1>7. ASSUME NEW r \in PromptReaders, GetEntry(r) PROVE CacheInv'
  <2> DEFINE x == [reader[r] EXCEPT !.phase = "find", !.token = NoToken]
  <2>1. /\ ReaderIsDone(r) \/ reader' = [reader EXCEPT ![r] = x]
        /\ UNCHANGED <<prompts, writes, unannounced, epoch, tokens, cached>>
    BY <1>7 DEF GetEntry, CacheInv
  <2> QED  BY <2>1, ReaderEnds, ReaderFinds
<1>8. ASSUME NEW r \in PromptReaders, NEW p \in Prompts, Find(r, p) PROVE CacheInv'
  <2> DEFINE content == [reader[r].result.content EXCEPT ![p] = prompts[p]]
             found == [reader[r].result EXCEPT !.content = content]
             x == [reader[r] EXCEPT !.result = found]
             y == [x EXCEPT !.phase = "epoch", !.then = "store"]
  <2>1. /\ reader[r].phase = "find" /\ reader[r].result.content[p] = Missing
        /\ UNCHANGED <<prompts, writes, unannounced, epoch, tokens, cached>>
    BY <1>8 DEF Find
  <2>2. \/ ReaderIsDone(r)
        \/ reader' = [reader EXCEPT ![r] = x]
        \/ /\ \A q \in Prompts : content[q] # Missing
           /\ reader' = [reader EXCEPT ![r] = y]
    BY <1>8 DEF Find, CacheInv, Reader, Result
  <2>3. reader[r] \in Reader /\ reader[r].result \in Result /\ ReaderOK(reader[r])
    BY DEF CacheInv, Reader
  <2>4. found \in Result /\ UpToDate(found) /\ found.content = content
    BY <2>3 DEF CacheInv, CacheTypes, ReaderOK, UpToDate, Result
  <2>5. reader[r].then # "store"
    BY <2>1, <2>3 DEF ReaderOK, Whole
  <2>6. ReaderOK(x) /\ x.phase = "find" /\ x.token = reader[r].token
    BY <2>1, <2>3, <2>4, <2>5 DEF ReaderOK, Reader
  <2>7. (\A q \in Prompts : content[q] # Missing) =>
          ReaderOK(y) /\ y.phase = "epoch" /\ y.token = reader[r].token
    BY <2>3, <2>4 DEF ReaderOK, Reader, Whole
  <2> HIDE DEF x, y
  <2> QED  BY <2>1, <2>2, <2>6, <2>7, ReaderEnds, OneReaderMoves
<1>9. ASSUME NEW r \in PromptReaders, Store(r) PROVE CacheInv'
  <2> DEFINE k == reader[r].token
  <2>1. /\ reader[r].phase = "store" /\ reader' = [reader EXCEPT ![r] = NoReader]
        /\ cached' = [cached EXCEPT ![k] = reader[r].result]
        /\ UNCHANGED <<prompts, writes, unannounced, epoch, tokens>>
    BY <1>9 DEF Store, ReaderIsDone
  <2>2. /\ k \in 1..tokens /\ reader[r].result \in Result
        /\ Whole(reader[r].result) /\ UpToDate(reader[r].result)
    BY <2>1 DEF CacheInv, CacheTypes, ReaderOK, Reader
  <2>3. CacheTypes'
    BY <2>1, <2>2 DEF CacheInv, CacheTypes
  <2>4. NoStaleCache'
    <3>1. CASE epoch = k
      BY <2>1, <2>2, <3>1 DEF CacheInv, CacheTypes, NoStaleCache, Whole, UpToDate, Missing
    <3>2. CASE epoch # k
      BY <2>1, <3>2 DEF CacheInv, CacheTypes, NoStaleCache, Nothing, Missing
    <3> QED  BY <3>1, <3>2
  <2>5. /\ reader'[r] = NoReader /\ \A s \in PromptReaders : s # r => reader'[s] = reader[s]
        /\ ReaderOK(NoReader) /\ NoReader.phase = "epoch" /\ NoReader.token = 0
    BY <2>1, NoReaderOK DEF CacheInv, NoReader, NoToken
  <2>6. reader' \in [PromptReaders -> Reader]
    BY <2>1, <2>5 DEF CacheInv, ReaderOK
  <2>7. ASSUME NEW s \in PromptReaders PROVE ReaderOK(reader[s])'
    <3>1. ReaderOK(reader'[s])
      BY <2>5 DEF CacheInv
    <3> QED  BY <2>1, <3>1 DEF ReaderOK, UpToDate, Whole, Missing
  <2>8. ASSUME NEW s \in PromptReaders, reader'[s].phase = "create" PROVE Unused(s)'
    <3>1. s # r /\ reader'[s] = reader[s] /\ Unused(s) /\ reader[s].token > 0
      BY <2>5, <2>8 DEF CacheInv, ReaderOK
    <3>2. reader[s].token # k /\ reader[s].token \in 1..tokens
      BY <2>1, <3>1 DEF CacheInv, CacheTypes, ReaderOK, Reader, Unused
    <3> QED  BY <2>1, <2>5, <3>1, <3>2 DEF CacheInv, CacheTypes, Unused, Nothing, Missing
  <2> QED  BY <2>3, <2>4, <2>6, <2>7, <2>8 DEF CacheInv
<1>10. ASSUME NEW r \in PromptReaders, ReaderMeetsError(r) PROVE CacheInv'
  <2> DEFINE x == [reader[r] EXCEPT !.phase = "find", !.token = NoToken]
  <2>1. /\ ReaderIsDone(r) \/ reader' = [reader EXCEPT ![r] = x]
        /\ UNCHANGED <<prompts, writes, unannounced, epoch, tokens, cached>>
    BY <1>10 DEF ReaderMeetsError, CacheInv
  <2> QED  BY <2>1, ReaderEnds, ReaderFinds
<1>11. CASE EpochExpires
  <2>1. epoch' = NoToken /\ UNCHANGED <<prompts, writes, unannounced, tokens, cached, reader>>
    BY <1>11 DEF EpochExpires
  <2>2. CacheTypes' /\ NoStaleCache'
    BY <2>1 DEF CacheInv, CacheTypes, NoStaleCache, NoToken
  <2>3. ASSUME NEW s \in PromptReaders PROVE ReaderOK(reader[s])'
    BY <2>1 DEF CacheInv, ReaderOK, UpToDate, Whole, Missing
  <2>4. ASSUME NEW s \in PromptReaders, reader'[s].phase = "create" PROVE Unused(s)'
    <3>1. Unused(s) /\ reader[s].token > 0
      BY <2>1, <2>4 DEF CacheInv, ReaderOK
    <3> QED  BY <2>1, <3>1 DEF Unused, NoToken, Nothing, Missing
  <2> QED  BY <2>1, <2>2, <2>3, <2>4 DEF CacheInv
<1>12. CASE EntryExpires
  <2>1. PICK k \in DOMAIN cached : cached' = [cached EXCEPT ![k] = Nothing]
    BY <1>12 DEF EntryExpires
  <2>2. UNCHANGED <<prompts, writes, unannounced, epoch, tokens, reader>>
    BY <1>12 DEF EntryExpires
  <2>3. CacheTypes'
    BY <2>1, <2>2, NothingIsAResult DEF CacheInv, CacheTypes
  <2>4. \A j \in 1..tokens : cached'[j] = cached[j] \/ cached'[j] = Nothing
    BY <2>1 DEF CacheInv, CacheTypes
  <2>5. NoStaleCache'
    <3>1. epoch # NoToken => epoch \in 1..tokens
      BY DEF CacheInv, CacheTypes, NoToken
    <3>2. epoch # NoToken /\ cached'[epoch] # Nothing => cached'[epoch] = cached[epoch]
      BY <2>4, <3>1
    <3> QED  BY <2>2, <3>2 DEF CacheInv, NoStaleCache, Nothing, Missing
  <2>6. ASSUME NEW s \in PromptReaders PROVE ReaderOK(reader[s])'
    BY <2>2 DEF CacheInv, ReaderOK, UpToDate, Whole, Missing
  <2>7. ASSUME NEW s \in PromptReaders, reader'[s].phase = "create" PROVE Unused(s)'
    <3>1. Unused(s) /\ reader[s].token \in 1..tokens
      BY <2>2, <2>7 DEF CacheInv, CacheTypes, ReaderOK, Reader
    <3> QED  BY <2>2, <2>4, <3>1 DEF Unused, Nothing, Missing
  <2> QED  BY <2>2, <2>3, <2>5, <2>6, <2>7 DEF CacheInv
<1>13. CASE UNCHANGED promptVars
  BY <1>13, CacheUnchanged DEF promptVars
<1> QED
  BY <1>1, <1>2, <1>3, <1>4, <1>5, <1>6, <1>7, <1>8, <1>9, <1>10, <1>11, <1>12, <1>13 DEF PromptNext

-----------------------------------------------------------------------------

(* It holds at first. *)
LEMMA CacheInvInit == PromptInit => CacheInv
<1> SUFFICES ASSUME PromptInit PROVE CacheInv
  OBVIOUS
<1>1. CacheTypes /\ NoStaleCache
  <2>1. cached = <<>> /\ tokens = 0 /\ 1..0 = {}
    BY DEF PromptInit
  <2>2. cached \in [1..tokens -> Result]
    BY <2>1
  <2> QED  BY <2>1, <2>2 DEF PromptInit, CacheTypes, NoStaleCache, NoToken
<1>2. /\ reader = [r \in PromptReaders |-> NoReader]
      /\ ReaderOK(NoReader) /\ NoReader.phase = "epoch"
  BY <1>1, NoReaderOK DEF PromptInit, NoReader
<1>3. reader \in [PromptReaders -> Reader]
  BY <1>2 DEF ReaderOK
<1> QED  BY <1>1, <1>2, <1>3 DEF CacheInv

(* src/packages/shared/src/server/services/PromptService/index.ts: what is *)
(* cached under the present epoch is what the database has, apart from     *)
(* what is not announced; late results excepted, which were read before a  *)
(* change and stored under the epoch that announced it.                    *)
THEOREM CacheIsNotStale == PromptSpec => []NoStaleCache
<1>1. CacheInv => NoStaleCache
  BY DEF CacheInv
<1> QED  BY <1>1, CacheInvInit, CacheInvKept, PTL DEF PromptSpec

-----------------------------------------------------------------------------

(* What the types say beyond CacheInv: nobody has a state of a prompt that *)
(* it has never had.                                                       *)
Known(result) == \A p \in Prompts : result.content[p] <= writes + 1

VersionsInv ==
  /\ writes <= MaxWrites
  /\ announcements \in 0..writes
  /\ promptFaults \in 0..MaxPromptFaults
  /\ \A p \in Prompts : prompts[p] <= writes + 1
  /\ \A k \in 1..tokens : Known(cached[k])
  /\ \A r \in PromptReaders : Known(reader[r].result)

(* That is all the types say. *)
LEMMA PromptTypes == CacheInv /\ VersionsInv => PromptTypeOK
<1> SUFFICES ASSUME CacheInv, VersionsInv PROVE PromptTypeOK
  OBVIOUS
<1> DEFINE Results == [content : [Prompts -> 0..(MaxWrites + 1)], late : BOOLEAN]
           Readers == [phase : {"epoch", "create", "again", "get", "find", "store"},
                       token : 0..tokens, result : Results, then : {"get", "store"}]
<1>1. writes \in Nat /\ MaxWrites \in Nat /\ tokens \in Nat
  BY PromptAssumption DEF CacheInv, CacheTypes
<1>2. ASSUME NEW result \in Result, Known(result) PROVE result \in Results
  <2>1. ASSUME NEW p \in Prompts PROVE result.content[p] \in 0..(MaxWrites + 1)
    BY <1>1, <1>2 DEF Result, Known, VersionsInv
  <2>2. result.content \in [Prompts -> 0..(MaxWrites + 1)]
    BY <2>1 DEF Result
  <2> QED  BY <2>2 DEF Result
<1>3. ASSUME NEW r \in PromptReaders PROVE reader[r] \in Readers
  <2>1. reader[r] \in Reader /\ reader[r].token <= tokens /\ reader[r].result \in Results
    BY <1>2 DEF CacheInv, ReaderOK, VersionsInv, Reader
  <2>2. reader[r].token \in 0..tokens
    BY <1>1, <2>1 DEF Reader
  <2> HIDE DEF Results
  <2> QED  BY <2>1, <2>2 DEF Reader
<1>4. reader \in [PromptReaders -> Readers]
  BY <1>3 DEF CacheInv
<1>5. cached \in [1..tokens -> Results]
  BY <1>2 DEF CacheInv, CacheTypes, VersionsInv
<1>6. /\ prompts \in [Prompts -> 0..(MaxWrites + 1)]
      /\ {writes, announcements} \subseteq 0..MaxWrites
      /\ unannounced \subseteq Prompts /\ epoch \in 0..tokens
      /\ promptFaults \in 0..MaxPromptFaults
  BY <1>1 DEF CacheInv, CacheTypes, VersionsInv
<1> QED  BY <1>4, <1>5, <1>6, Zenon DEF PromptTypeOK

(* Readers read what the database has, and store what they have.           *)
LEMMA VersionsStay ==
  ASSUME CacheInv, CacheInv', VersionsInv, UNCHANGED <<prompts, writes>>,
         announcements' \in 0..writes, promptFaults' \in 0..MaxPromptFaults,
         \A r \in PromptReaders : \A p \in Prompts :
           reader'[r].result.content[p] \in {Missing, prompts[p], reader[r].result.content[p]},
         \A k \in 1..tokens' :
           \/ cached'[k] = Nothing
           \/ k \in 1..tokens /\ cached'[k] = cached[k]
           \/ \E r \in PromptReaders : cached'[k] = reader[r].result
  PROVE  VersionsInv'
<1>1. /\ writes \in Nat /\ \A p \in Prompts : prompts[p] \in Nat /\ prompts[p] <= writes + 1
      /\ writes' = writes /\ prompts' = prompts
  BY DEF CacheInv, CacheTypes, VersionsInv
<1>2. ASSUME NEW r \in PromptReaders PROVE Known(reader[r].result)'
  BY <1>1 DEF VersionsInv, Known, Missing
<1>3. ASSUME NEW k \in 1..tokens' PROVE Known(cached[k])'
  <2>1. CASE cached'[k] = Nothing
    BY <1>1, <2>1 DEF Known, Nothing, Missing
  <2>2. CASE k \in 1..tokens /\ cached'[k] = cached[k]
    BY <1>1, <2>2 DEF VersionsInv, Known
  <2>3. ASSUME NEW r \in PromptReaders, cached'[k] = reader[r].result PROVE Known(cached[k])'
    BY <1>1, <2>3 DEF VersionsInv, Known
  <2> QED  BY <2>1, <2>2, <2>3
<1> QED  BY <1>1, <1>2, <1>3 DEF VersionsInv

(* Every action keeps the bounds. *)
LEMMA VersionsKept == CacheInv /\ VersionsInv /\ [PromptNext]_promptVars => VersionsInv'
<1> SUFFICES ASSUME CacheInv, VersionsInv, [PromptNext]_promptVars PROVE VersionsInv'
  OBVIOUS
<1> DEFINE SameContent == \A r \in PromptReaders : reader'[r].result.content = reader[r].result.content
           SameEntries == \A k \in 1..tokens' :
             cached'[k] = Nothing \/ (k \in 1..tokens /\ cached'[k] = cached[k])
<1>0. /\ CacheInv' /\ writes \in Nat /\ tokens \in Nat /\ MaxPromptFaults \in Nat /\ MaxWrites \in Nat
      /\ announcements \in 0..writes /\ promptFaults \in 0..MaxPromptFaults
      /\ reader \in [PromptReaders -> Reader] /\ cached \in [1..tokens -> Result]
      /\ writes <= MaxWrites
  BY CacheInvKept, PromptAssumption DEF CacheInv, CacheTypes, VersionsInv
<1>a. PromptFault => promptFaults' \in 0..MaxPromptFaults
  BY <1>0 DEF PromptFault
<1>b. NewToken => SameEntries
  BY <1>0 DEF NewToken
<1>c. UNCHANGED <<tokens, cached>> => SameEntries
  OBVIOUS
<1>d. ASSUME NEW r \in PromptReaders, ReaderIsDone(r)
      PROVE  \A s \in PromptReaders : \A p \in Prompts :
               reader'[s].result.content[p] \in {Missing, prompts[p], reader[s].result.content[p]}
  <2>1. ASSUME NEW s \in PromptReaders PROVE reader'[s] = reader[s] \/ reader'[s] = NoReader
    BY <1>0, <1>d DEF ReaderIsDone
  <2>2. \A p \in Prompts : NoReader.result.content[p] = Missing
    BY DEF NoReader, Nothing
  <2> QED  BY <2>1, <2>2
<1>e. ASSUME SameContent, SameEntries, UNCHANGED <<prompts, writes>>,
             announcements' \in 0..writes, promptFaults' \in 0..MaxPromptFaults
      PROVE  VersionsInv'
  BY <1>0, <1>e, VersionsStay
<1>1. ASSUME NEW p \in Prompts, Change(p) PROVE VersionsInv'
  <2>1. PICK state \in {Missing, writes' + 1} : prompts' = [prompts EXCEPT ![p] = state]
    BY <1>1 DEF Change
  <2>2. /\ writes < MaxWrites /\ writes' = writes + 1 /\ announcements' = announcements + 1
        /\ UNCHANGED <<tokens, cached, reader, promptFaults>>
    BY <1>1 DEF Change
  <2>3. writes' <= MaxWrites /\ announcements' \in 0..writes' /\ promptFaults' \in 0..MaxPromptFaults
    BY <1>0, <2>2
  <2>4. ASSUME NEW q \in Prompts PROVE prompts'[q] <= writes' + 1
    BY <1>0, <2>1, <2>2 DEF CacheInv, CacheTypes, VersionsInv, Missing
  <2>5. ASSUME NEW k \in 1..tokens' PROVE Known(cached[k])'
    BY <1>0, <2>2 DEF VersionsInv, Known, Result
  <2>6. ASSUME NEW r \in PromptReaders PROVE Known(reader[r].result)'
    BY <1>0, <2>2 DEF VersionsInv, Known, Result, Reader
  <2> QED  BY <2>3, <2>4, <2>5, <2>6 DEF VersionsInv
<1>2. CASE Announce
  <2>1. SameContent
    BY <1>0, <1>2 DEF Announce, EpochBecomes, Reader, Result
  <2>2. announcements' \in 0..writes
    BY <1>0, <1>2 DEF Announce
  <2> QED  BY <1>0, <1>2, <1>b, <1>e, <2>1, <2>2 DEF Announce
<1>3. CASE AnnounceFails
  <2>1. SameContent /\ announcements' \in 0..writes
    BY <1>0, <1>3 DEF AnnounceFails
  <2> QED  BY <1>0, <1>3, <1>a, <1>c, <1>e, <2>1 DEF AnnounceFails
<1>4. ASSUME NEW r \in PromptReaders, GetEpoch(r) PROVE VersionsInv'
  <2>1. \E phase, token : reader' = [reader EXCEPT ![r].phase = phase, ![r].token = token]
    BY <1>4 DEF GetEpoch
  <2>2. SameContent
    BY <1>0, <2>1 DEF Reader
  <2>3. SameEntries
    BY <1>4, <1>b, <1>c DEF GetEpoch
  <2> QED  BY <1>0, <1>4, <1>e, <2>2, <2>3 DEF GetEpoch
<1>5. ASSUME NEW r \in PromptReaders, CreateEpoch(r) PROVE VersionsInv'
  <2> DEFINE readers == [reader EXCEPT ![r].phase = "again"]
  <2>1. \A s \in PromptReaders : readers[s] \in Reader /\ readers[s].result = reader[s].result
    BY <1>0 DEF Reader
  <2>2. \/ \E k : EpochBecomes(k, readers)
        \/ reader' = readers
    BY <1>5 DEF CreateEpoch
  <2> HIDE DEF readers
  <2>3. SameContent
    BY <2>1, <2>2 DEF EpochBecomes, Reader, Result
  <2> QED  BY <1>0, <1>5, <1>c, <1>e, <2>3 DEF CreateEpoch
<1>6. ASSUME NEW r \in PromptReaders, GetEpochAgain(r) PROVE VersionsInv'
  <2>1. SameContent
    BY <1>0, <1>6 DEF GetEpochAgain, Reader
  <2> QED  BY <1>0, <1>6, <1>c, <1>e, <2>1 DEF GetEpochAgain
<1>7. ASSUME NEW r \in PromptReaders, GetEntry(r) PROVE VersionsInv'
  <2>1. \A s \in PromptReaders : \A p \in Prompts :
          reader'[s].result.content[p] \in {Missing, prompts[p], reader[s].result.content[p]}
    <3>1. CASE ReaderIsDone(r)
      BY <1>d, <3>1
    <3>2. CASE reader' = [reader EXCEPT ![r].phase = "find", ![r].token = NoToken]
      BY <1>0, <3>2 DEF Reader
    <3> QED  BY <1>7, <3>1, <3>2 DEF GetEntry
  <2> QED  BY <1>0, <1>7, <1>c, <2>1, VersionsStay DEF GetEntry
<1>8. ASSUME NEW r \in PromptReaders, NEW p \in Prompts, Find(r, p) PROVE VersionsInv'
  <2>1. \A s \in PromptReaders : \A q \in Prompts :
          reader'[s].result.content[q] \in {Missing, prompts[q], reader[s].result.content[q]}
    <3>1. CASE ReaderIsDone(r)
      BY <1>d, <3>1
    <3>2. ASSUME NEW x, reader' = [reader EXCEPT ![r] = x],
                 x.result.content = [reader[r].result.content EXCEPT ![p] = prompts[p]]
          PROVE  \A s \in PromptReaders : \A q \in Prompts :
                   reader'[s].result.content[q] \in {Missing, prompts[q], reader[s].result.content[q]}
      <4>1. ASSUME NEW s \in PromptReaders PROVE reader'[s] = IF s = r THEN x ELSE reader[s]
        BY <1>0, <3>2
      <4>2. \A q \in Prompts : x.result.content[q] \in {prompts[q], reader[r].result.content[q]}
        BY <1>0, <3>2 DEF Reader, Result
      <4> QED  BY <4>1, <4>2
    <3>3. CASE reader' = [reader EXCEPT ![r].result.content[p] = prompts[p]]
      <4> DEFINE x == [reader[r] EXCEPT !.result.content[p] = prompts[p]]
      <4>1. x.result.content = [reader[r].result.content EXCEPT ![p] = prompts[p]]
        BY <1>0 DEF Reader, Result
      <4>2. reader' = [reader EXCEPT ![r] = x]
        BY <1>0, <3>3
      <4> HIDE DEF x
      <4> QED  BY <3>2, <4>1, <4>2
    <3>4. CASE reader' = [reader EXCEPT ![r].result.content[p] = prompts[p], ![r].phase = "epoch",
                                        ![r].then = "store"]
      <4> DEFINE x == [reader[r] EXCEPT !.result.content[p] = prompts[p], !.phase = "epoch", !.then = "store"]
      <4>1. x.result.content = [reader[r].result.content EXCEPT ![p] = prompts[p]]
        BY <1>0 DEF Reader, Result
      <4>2. reader' = [reader EXCEPT ![r] = x]
        BY <1>0, <3>4 DEF Reader
      <4> HIDE DEF x
      <4> QED  BY <3>2, <4>1, <4>2
    <3>5. \/ ReaderIsDone(r)
          \/ reader' = [reader EXCEPT ![r].result.content[p] = prompts[p]]
          \/ reader' = [reader EXCEPT ![r].result.content[p] = prompts[p], ![r].phase = "epoch",
                                      ![r].then = "store"]
      <4>1. \/ prompts[p] = Missing
            \/ prompts[p] # Missing /\ \E q \in Prompts \ {p} : reader[r].result.content[q] = Missing
            \/ prompts[p] # Missing /\ \A q \in Prompts \ {p} : reader[r].result.content[q] # Missing
        OBVIOUS
      <4> QED  BY <1>8, <4>1 DEF Find
    <3> QED  BY <3>1, <3>3, <3>4, <3>5
  <2> QED  BY <1>0, <1>8, <1>c, <2>1, VersionsStay DEF Find
<1>9. ASSUME NEW r \in PromptReaders, Store(r) PROVE VersionsInv'
  <2>1. \A k \in 1..tokens' : k \in 1..tokens /\ (cached'[k] = cached[k] \/ cached'[k] = reader[r].result)
    BY <1>0, <1>9 DEF Store
  <2> QED  BY <1>0, <1>9, <1>d, <2>1, VersionsStay DEF Store
<1>10. ASSUME NEW r \in PromptReaders, ReaderMeetsError(r) PROVE VersionsInv'
  <2>1. \A s \in PromptReaders : \A p \in Prompts :
          reader'[s].result.content[p] \in {Missing, prompts[p], reader[s].result.content[p]}
    <3>1. CASE ReaderIsDone(r)
      BY <1>d, <3>1
    <3>2. CASE reader' = [reader EXCEPT ![r].phase = "find", ![r].token = NoToken]
      BY <1>0, <3>2 DEF Reader
    <3> QED  BY <1>10, <3>1, <3>2 DEF ReaderMeetsError
  <2> QED  BY <1>0, <1>10, <1>a, <1>c, <2>1, VersionsStay DEF ReaderMeetsError
<1>11. CASE EpochExpires
  BY <1>0, <1>11, <1>a, <1>c, <1>e DEF EpochExpires
<1>12. CASE EntryExpires
  <2>1. SameEntries
    BY <1>0, <1>12 DEF EntryExpires
  <2> QED  BY <1>0, <1>12, <1>a, <1>e, <2>1 DEF EntryExpires
<1>13. CASE UNCHANGED promptVars
  BY <1>0, <1>13, <1>c, <1>e DEF promptVars
<1> QED
  BY <1>1, <1>2, <1>3, <1>4, <1>5, <1>6, <1>7, <1>8, <1>9, <1>10, <1>11, <1>12, <1>13 DEF PromptNext

(* The bounds hold at first. *)
LEMMA VersionsInit == PromptInit => VersionsInv
<1> SUFFICES ASSUME PromptInit PROVE VersionsInv
  OBVIOUS
<1>1. 1..tokens = {}
  BY DEF PromptInit
<1> QED  BY <1>1, PromptAssumption DEF PromptInit, VersionsInv, NoReader, Nothing, Missing, Known

(* The whole of the cache has its types, whatever the prompts and readers: *)
(* no entry and no reader has a state that the prompt never had.           *)
THEOREM CacheIsTyped == PromptSpec => []PromptTypeOK
<1> QED  BY CacheInvInit, VersionsInit, CacheInvKept, VersionsKept, PromptTypes, PTL DEF PromptSpec
=============================================================================
