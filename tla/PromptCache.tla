----------------------------- MODULE PromptCache -----------------------------
(***************************************************************************)
(* The cache of resolved prompts.  A prompt may include others, so that an *)
(* entry depends on several rows; its Redis key therefore holds a token,   *)
(* the project's epoch, which whoever changes a prompt of the project      *)
(* replaces when the change is committed.  Readers take the epoch, or make *)
(* one if there is none, to look up the entry, and take it again to store  *)
(* what they have read from the database.  The model has one project and   *)
(* the entries of one prompt.                                              *)
(* Definitions named Fault... are deliberate errors: no definition uses    *)
(* one, and each shows that a property would notice it.                    *)
(* src/packages/shared/src/server/services/PromptService/index.ts,         *)
(* src/web/src/features/prompts/server/                                    *)
(***************************************************************************)
EXTENDS Naturals

CONSTANTS
  Prompts,           \* the prompt that is read and those it includes
  Root,              \* the prompt that is read
  PromptReaders,     \* requests that read it, at one time
  MaxWrites,         \* changes of prompts (bounds the model)
  MaxPromptFaults    \* Redis errors, ends of writers, and keys that expire (bounds the model)

ASSUME PromptAssumption ==
  /\ Root \in Prompts
  /\ {MaxWrites, MaxPromptFaults} \subseteq Nat

VARIABLES
  prompts,           \* the database: the state of each prompt, Missing if there is no such row
  writes,            \* changes so far, each of which makes a new state
  announcements,     \* calls of invalidateCache that are on their way
  unannounced,       \* prompts changed since the epoch was last replaced
  epoch,             \* prompt_cache_epoch of the project
  tokens,            \* tokens so far
  cached,            \* the entry under each token
  reader,            \* what each reader is doing
  promptFaults       \* faults so far

promptVars ==
  <<prompts, writes, announcements, unannounced, epoch, tokens, cached, reader, promptFaults>>

Missing == 0

NoToken == 0

(* A part of a result that has not been read yet is Missing.  late: some   *)
(* of it had changed when the epoch was replaced.                          *)
Nothing == [content |-> [p \in Prompts |-> Missing], late |-> FALSE]

(* At the beginning of getPrompt. *)
NoReader == [phase |-> "epoch", token |-> NoToken, result |-> Nothing, then |-> "get"]

PromptInit ==
  /\ prompts = [p \in Prompts |-> 1]
  /\ writes = 0
  /\ announcements = 0
  /\ unannounced = {}
  /\ epoch = NoToken
  /\ tokens = 0
  /\ cached = <<>>
  /\ reader = [r \in PromptReaders |-> NoReader]
  /\ promptFaults = 0

PromptFault ==
  /\ promptFaults < MaxPromptFaults
  /\ promptFaults' = promptFaults + 1

(* newEpochToken: 48 random bits, which no two tokens share. *)
NewToken ==
  /\ tokens' = tokens + 1
  /\ cached' = [k \in 1..tokens' |-> IF k \in DOMAIN cached THEN cached[k] ELSE Nothing]

Outdated(result) == \E p \in Prompts : result.content[p] \notin {Missing, prompts[p]}

ReaderIsDone(r) == reader' = [reader EXCEPT ![r] = NoReader]

(* The epoch becomes token k: readers who hold what was changed are late.  *)
EpochBecomes(k, readers) ==
  /\ epoch' = k
  /\ unannounced' = {}
  /\ reader' = [r \in PromptReaders |->
                  [readers[r] EXCEPT !.result.late = @ \/ Outdated(readers[r].result)]]

-----------------------------------------------------------------------------

(* A prompt is created, changed, labelled or deleted, and committed. *)
Change(p) ==
  /\ writes < MaxWrites
  /\ writes' = writes + 1
  /\ \E state \in {Missing, writes' + 1} :
       /\ state # prompts[p]
       /\ prompts' = [prompts EXCEPT ![p] = state]
  /\ announcements' = announcements + 1
  /\ unannounced' = unannounced \cup {p}
  /\ UNCHANGED <<epoch, tokens, cached, reader, promptFaults>>

FaultRotated == IF epoch = NoToken THEN tokens + 1 ELSE epoch

Rotated == tokens + 1

(* invalidateCache *)
Announce ==
  /\ announcements > 0
  /\ announcements' = announcements - 1
  /\ NewToken
  /\ EpochBecomes(Rotated, reader)
  /\ UNCHANGED <<prompts, writes, promptFaults>>

(* Redis errs, or the writer's process ends first. *)
AnnounceFails ==
  /\ announcements > 0
  /\ announcements' = announcements - 1
  /\ PromptFault
  /\ UNCHANGED <<prompts, writes, unannounced, epoch, tokens, cached, reader>>

-----------------------------------------------------------------------------

(* getOrCreateEpoch: GET, *)
GetEpoch(r) ==
  /\ reader[r].phase = "epoch"
  /\ IF epoch # NoToken
     THEN /\ reader' = [reader EXCEPT ![r].phase = reader[r].then, ![r].token = epoch]
          /\ UNCHANGED <<tokens, cached>>
     ELSE /\ NewToken
          /\ reader' = [reader EXCEPT ![r].phase = "create", ![r].token = tokens']
  /\ UNCHANGED <<prompts, writes, announcements, unannounced, epoch, promptFaults>>

(* SET NX, *)
CreateEpoch(r) ==
  LET readers == [reader EXCEPT ![r].phase = "again"]
  IN  /\ reader[r].phase = "create"
      /\ IF epoch = NoToken
         THEN EpochBecomes(reader[r].token, readers)
         ELSE reader' = readers /\ UNCHANGED <<epoch, unannounced>>
      /\ UNCHANGED <<prompts, writes, announcements, tokens, cached, promptFaults>>

(* and GET: the token of whoever was first, or one's own if that expired.  *)
GetEpochAgain(r) ==
  /\ reader[r].phase = "again"
  /\ reader' = [reader EXCEPT ![r].phase = reader[r].then,
                              ![r].token = IF epoch = NoToken THEN @ ELSE epoch]
  /\ UNCHANGED <<prompts, writes, announcements, unannounced, epoch, tokens, cached, promptFaults>>

(* getCachedPrompt; a hit is the answer. *)
GetEntry(r) ==
  /\ reader[r].phase = "get"
  /\ IF cached[reader[r].token] # Nothing
     THEN ReaderIsDone(r)
     ELSE reader' = [reader EXCEPT ![r].phase = "find", ![r].token = NoToken]
  /\ UNCHANGED <<prompts, writes, announcements, unannounced, epoch, tokens, cached, promptFaults>>

(* findPrompt and resolvePrompt: one row after the other, not in one       *)
(* transaction.  Without one of them there is no result to store.          *)
Find(r, p) ==
  LET content == reader[r].result.content
  IN  /\ reader[r].phase = "find"
      /\ content[p] = Missing
      /\ p # Root => content[Root] # Missing
      /\ CASE prompts[p] = Missing -> ReaderIsDone(r)
           [] prompts[p] # Missing /\ \E q \in Prompts \ {p} : content[q] = Missing ->
                reader' = [reader EXCEPT ![r].result.content[p] = prompts[p]]
           [] prompts[p] # Missing /\ \A q \in Prompts \ {p} : content[q] # Missing ->
                reader' = [reader EXCEPT ![r].result.content[p] = prompts[p],
                                         ![r].phase = "epoch", ![r].then = "store"]
      /\ UNCHANGED <<prompts, writes, announcements, unannounced, epoch, tokens, cached, promptFaults>>

(* cachePrompt *)
Store(r) ==
  /\ reader[r].phase = "store"
  /\ cached' = [cached EXCEPT ![reader[r].token] = reader[r].result]
  /\ ReaderIsDone(r)
  /\ UNCHANGED <<prompts, writes, announcements, unannounced, epoch, tokens, promptFaults>>

(* Redis errs: what was looked for is missed, what was to be stored is     *)
(* given up.                                                               *)
ReaderMeetsError(r) ==
  /\ reader[r].phase \in {"epoch", "create", "again", "get", "store"}
  /\ PromptFault
  /\ IF reader[r].then = "get"
     THEN reader' = [reader EXCEPT ![r].phase = "find", ![r].token = NoToken]
     ELSE ReaderIsDone(r)
  /\ UNCHANGED <<prompts, writes, announcements, unannounced, epoch, tokens, cached>>

(* The time to live of the epoch, or of an entry, is over; or it is evicted. *)
EpochExpires ==
  /\ epoch # NoToken
  /\ PromptFault
  /\ epoch' = NoToken
  /\ UNCHANGED <<prompts, writes, announcements, unannounced, tokens, cached, reader>>

EntryExpires ==
  /\ PromptFault
  /\ \E k \in DOMAIN cached :
       /\ cached[k] # Nothing
       /\ cached' = [cached EXCEPT ![k] = Nothing]
  /\ UNCHANGED <<prompts, writes, announcements, unannounced, epoch, tokens, reader>>

PromptNext ==
  \/ \E p \in Prompts : Change(p)
  \/ Announce \/ AnnounceFails
  \/ \E r \in PromptReaders :
       \/ GetEpoch(r) \/ CreateEpoch(r) \/ GetEpochAgain(r) \/ GetEntry(r)
       \/ \E p \in Prompts : Find(r, p)
       \/ Store(r) \/ ReaderMeetsError(r)
  \/ EpochExpires \/ EntryExpires

PromptSpec == PromptInit /\ [][PromptNext]_promptVars

-----------------------------------------------------------------------------

PromptTypeOK ==
  LET Results == [content : [Prompts -> 0..(MaxWrites + 1)], late : BOOLEAN]
  IN  /\ prompts \in [Prompts -> 0..(MaxWrites + 1)]
      /\ {writes, announcements} \subseteq 0..MaxWrites
      /\ unannounced \subseteq Prompts
      /\ epoch \in 0..tokens
      /\ cached \in [1..tokens -> Results]
      /\ reader \in [PromptReaders ->
           [phase : {"epoch", "create", "again", "get", "find", "store"},
            token : 0..tokens, result : Results, then : {"get", "store"}]]
      /\ promptFaults \in 0..MaxPromptFaults

(* What the present epoch's entry says is what the database has, but for   *)
(* changes that are not announced yet, or whose announcement has failed:   *)
(* however reads, changes, new epochs and expiries mix.  The exception are *)
(* readers who read before a change and take the epoch after it has been   *)
(* announced: they store what is outdated.                                 *)
NoStaleCache ==
  epoch # NoToken /\ cached[epoch] # Nothing /\ ~cached[epoch].late =>
    \A p \in Prompts \ unannounced : cached[epoch].content[p] = prompts[p]
=============================================================================
