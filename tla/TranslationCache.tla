-------------------------- MODULE TranslationCache --------------------------
(***************************************************************************)
(* The translation cache (src/app/translation_cache.rs, as released: the   *)
(* acknowledgements of the test build are left out).  The UI thread reads  *)
(* and writes a table in memory; every change is also sent to a writer     *)
(* thread, which keeps the SQLite file and replaces the table after a      *)
(* prune.  Two flags keep the sides apart while the table is rebuilt.      *)
(*                                                                         *)
(* A translation is the number of its put, so that of two translations of  *)
(* a key the newer is the larger.                                          *)
(***************************************************************************)
EXTENDS Integers, Sequences, FiniteSets, FiniteSetsExt

CONSTANTS
    Key,           \* cache keys: engine, languages and original text
    MaxPuts,       \* bound: puts in a behaviour
    MaxRows,       \* CACHE_MAX_ROWS
    PutsPerPrune,  \* PUTS_PER_PRUNE
    Ttl,           \* CACHE_TTL_SECS
    MaxTime,       \* bound: the clock
    MaxErrors,     \* bound: SQL errors
    MaxRestarts    \* bound: the application ends and is started again

ASSUME CacheAssumption ==
    /\ MaxPuts \in Nat /\ MaxTime \in Nat /\ MaxErrors \in Nat /\ MaxRestarts \in Nat
    /\ MaxRows \in Nat \ {0} /\ PutsPerPrune \in Nat \ {0}
    /\ Ttl \in Nat

VARIABLES
    memory,             \* memory[k]: the translation in the table, 0 if none
    writes,             \* the writer's channel
    clear_in_progress,
    prune_in_progress,
    puts_since_prune,
    ui,                 \* "opening" inside open(), before the first prune
    writer,             \* the writer thread; "none" when the file was not opened
    db,                 \* db[k]: the row of k in the file
    puts,               \* puts so far
    cleared,            \* puts made before the last clear that was carried out
    now,                \* the clock
    errors,             \* SQL errors so far
    restarts            \* restarts so far

tableVars == <<memory, clear_in_progress, prune_in_progress>>
fileVars  == <<db, cleared>>
boundVars == <<now, errors, restarts>>

vars == <<tableVars, writes, puts_since_prune, ui, writer, fileVars, puts, boundVars>>

-----------------------------------------------------------------------------
Row == [translation : 0..MaxPuts, updated_at : 0..MaxTime]

NoRow == [translation |-> 0, updated_at |-> 0]

CacheWrite ==
    [kind : {"Put"}, key : Key, translation : 1..MaxPuts, updated_at : 0..MaxTime]
      \union [kind : {"Clear"}, puts : 0..MaxPuts]
      \union [kind : {"Prune"}, now : 0..MaxTime]

TypeOK ==
    /\ memory \in [Key -> 0..MaxPuts]
    /\ writes \in Seq(CacheWrite)
    /\ clear_in_progress \in BOOLEAN
    /\ prune_in_progress \in BOOLEAN
    /\ puts_since_prune \in 0..(PutsPerPrune - 1)
    /\ ui \in {"opening", "idle"}
    /\ writer \in {"none", "starting", "idle", "clearing", "pruning", "failed"}
    /\ db \in [Key -> Row]
    /\ puts \in 0..MaxPuts
    /\ cleared \in 0..MaxPuts
    /\ now \in 0..MaxTime
    /\ errors \in 0..MaxErrors
    /\ restarts \in 0..MaxRestarts

Rows == {k \in Key : db[k].translation # 0}

(* load_memory *)
Loaded == [k \in Key |-> db[k].translation]

Nothing == [k \in Key |-> 0]

Fail == errors < MaxErrors /\ errors' = errors + 1

-----------------------------------------------------------------------------
(* The UI thread                                                           *)

(* open(): the file is read and the writer started, or the store works     *)
(* without either.                                                         *)
Init ==
    /\ memory = Nothing /\ db = [k \in Key |-> NoRow]
    /\ writes = <<>>
    /\ clear_in_progress = FALSE /\ prune_in_progress = FALSE
    /\ puts_since_prune = 0
    /\ \/ ui = "opening" /\ writer = "starting"
       \/ ui = "idle" /\ writer = "none"
    /\ puts = 0 /\ cleared = 0
    /\ now = 0 /\ errors = 0 /\ restarts = 0

(* The application ends and is started again.  Nobody waits for the writer *)
(* thread, so what it was doing and what is in its channel is lost.        *)
Restart ==
    /\ restarts < MaxRestarts
    /\ restarts' = restarts + 1
    /\ writes' = <<>>
    /\ clear_in_progress' = FALSE /\ prune_in_progress' = FALSE
    /\ puts_since_prune' = 0
    /\ \/ ui' = "opening" /\ writer' = "starting" /\ memory' = Loaded
       \/ ui' = "idle" /\ writer' = "none" /\ memory' = Nothing
    /\ UNCHANGED <<fileVars, puts, now, errors>>

(* The receiver exists until the writer thread returns. *)
CanSend == writer \notin {"none", "failed"}

PruneMessage == [kind |-> "Prune", now |-> now]

(* open(), the end: schedule_prune. *)
FinishOpen ==
    /\ ui = "opening"
    /\ ui' = "idle"
    /\ IF CanSend
       THEN writes' = Append(writes, PruneMessage) /\ prune_in_progress' = TRUE
       ELSE UNCHANGED <<writes, prune_in_progress>>
    /\ UNCHANGED <<memory, clear_in_progress, puts_since_prune, writer, fileVars, puts,
                   boundVars>>

(* get: 0 is None. *)
Get(k) == IF clear_in_progress THEN 0 ELSE memory[k]

(* The put that is about to be counted asks for a prune. *)
PruneDue == puts_since_prune + 1 >= PutsPerPrune

(* The part of put() after the two tests. *)
Insert(k) ==
    LET message == [kind |-> "Put", key |-> k, translation |-> puts + 1,
                    updated_at |-> now]
    IN  /\ ui = "idle"
        /\ puts < MaxPuts
        /\ puts' = puts + 1
        /\ memory' = [memory EXCEPT ![k] = puts + 1]
        /\ \/ /\ ~CanSend
              /\ UNCHANGED <<writes, puts_since_prune, prune_in_progress>>
           \/ /\ CanSend
              /\ ~PruneDue
              /\ writes' = Append(writes, message)
              /\ puts_since_prune' = puts_since_prune + 1
              /\ UNCHANGED prune_in_progress
           \/ /\ CanSend
              /\ PruneDue
              /\ writes' = writes \o <<message, PruneMessage>>
              /\ puts_since_prune' = 0
              /\ prune_in_progress' = TRUE
        /\ UNCHANGED <<clear_in_progress, ui, writer, fileVars, boundVars>>

(* Mutant: a put does not stand back for a prune. *)
PutDuringPrune(k) ==
    /\ ~clear_in_progress
    /\ Insert(k)

(* put: dropped while the table is about to be cleared or replaced.  The   *)
(* writer raises neither flag, so the tests still hold when the table is   *)
(* changed and the message sent.                                           *)
Put(k) ==
    /\ ~clear_in_progress
    /\ ~prune_in_progress
    /\ Insert(k)

(* clear: without a file nothing happens beyond the counter's reset; a     *)
(* second clear joins the first.                                           *)
Clear ==
    /\ ui = "idle"
    /\ puts_since_prune' = 0
    /\ IF writer = "none" \/ clear_in_progress
       THEN UNCHANGED <<memory, writes, clear_in_progress>>
       ELSE /\ memory' = Nothing
            /\ IF CanSend
               THEN /\ clear_in_progress' = TRUE
                    /\ writes' = Append(writes, [kind |-> "Clear", puts |-> puts])
               ELSE UNCHANGED <<writes, clear_in_progress>>
    /\ UNCHANGED <<prune_in_progress, ui, writer, fileVars, puts, boundVars>>

-----------------------------------------------------------------------------
(* The writer thread                                                       *)

(* The writer opens a connection of its own; when it cannot, it returns    *)
(* and what was already sent to it is never answered.                      *)
StartWriter ==
    /\ writer = "starting"
    /\ \/ writer' = "idle" /\ UNCHANGED <<writes, errors>>
       \/ writer' = "failed" /\ writes' = <<>> /\ Fail
    /\ UNCHANGED <<tableVars, puts_since_prune, ui, fileVars, puts, now, restarts>>

Receive(kind) ==
    /\ writer = "idle"
    /\ writes # <<>>
    /\ Head(writes).kind = kind
    /\ writes' = Tail(writes)

WritePut ==
    LET put == Head(writes)
    IN  /\ Receive("Put")
        /\ \/ /\ db' = [db EXCEPT ![put.key] = [translation |-> put.translation,
                                                updated_at |-> put.updated_at]]
              /\ UNCHANGED errors
           \/ Fail /\ UNCHANGED db
        /\ UNCHANGED <<tableVars, puts_since_prune, ui, writer, cleared, puts, now,
                       restarts>>

(* Clear: the rows are deleted, or the statement fails (a lock held over   *)
(* 30 s), which is only logged.                                            *)
DeleteRows ==
    /\ Receive("Clear")
    /\ writer' = "clearing"
    /\ \/ /\ db' = [k \in Key |-> NoRow]
          /\ cleared' = Head(writes).puts
          /\ UNCHANGED errors
       \/ Fail /\ UNCHANGED fileVars
    /\ UNCHANGED <<tableVars, puts_since_prune, ui, puts, now, restarts>>

(* Mutant: the table is not emptied again after the rows are deleted. *)
FinishClearKeepsTable ==
    /\ writer = "clearing"
    /\ writer' = "idle"
    /\ clear_in_progress' = FALSE
    /\ UNCHANGED <<memory, writes, prune_in_progress, puts_since_prune, ui, fileVars, puts,
                   boundVars>>

(* The table is emptied once more, as a prune may have refilled it since   *)
(* clear() emptied it; then the flag is taken back.                        *)
FinishClear ==
    /\ writer = "clearing"
    /\ writer' = "idle"
    /\ memory' = Nothing
    /\ clear_in_progress' = FALSE
    /\ UNCHANGED <<writes, prune_in_progress, puts_since_prune, ui, fileVars, puts,
                   boundVars>>

(* The rows a prune keeps: the MaxRows newest of those not expired when it *)
(* was asked for.  Rows of one second are in no particular order.          *)
Kept(asked) ==
    LET fresh == {k \in Rows : db[k].updated_at >= asked - Ttl}
    IN  {keep \in SUBSET fresh :
            /\ Cardinality(keep) = Min({MaxRows, Cardinality(fresh)})
            /\ \A k \in keep, other \in fresh \ keep :
                  db[k].updated_at >= db[other].updated_at}

(* prune_connection; a statement that fails leaves its rows. *)
PruneRows ==
    /\ Receive("Prune")
    /\ writer' = "pruning"
    /\ \/ /\ \E keep \in Kept(Head(writes).now) :
                db' = [k \in Key |-> IF k \in keep THEN db[k] ELSE NoRow]
          /\ UNCHANGED errors
       \/ Fail /\ UNCHANGED db
    /\ UNCHANGED <<tableVars, puts_since_prune, ui, cleared, puts, now, restarts>>

(* Mutant: the flag stays up after the prune. *)
ReloadKeepsFlag ==
    /\ writer = "pruning"
    /\ writer' = "idle"
    /\ memory' = Loaded
    /\ UNCHANGED <<writes, clear_in_progress, prune_in_progress, puts_since_prune, ui,
                   fileVars, puts, boundVars>>

(* The table is replaced by what the file holds, and the flag taken back. *)
ReloadMemory ==
    /\ writer = "pruning"
    /\ writer' = "idle"
    /\ prune_in_progress' = FALSE
    /\ \/ memory' = Loaded /\ UNCHANGED errors
       \/ memory' = Nothing /\ Fail
    /\ UNCHANGED <<writes, clear_in_progress, puts_since_prune, ui, fileVars, puts, now,
                   restarts>>

-----------------------------------------------------------------------------
Tick ==
    /\ now < MaxTime
    /\ now' = now + 1
    /\ UNCHANGED <<tableVars, writes, puts_since_prune, ui, writer, fileVars, puts,
                   errors, restarts>>

UiThread == FinishOpen \/ Clear \/ \E k \in Key : Put(k)

WriterThread ==
    \/ StartWriter \/ WritePut
    \/ DeleteRows \/ FinishClear
    \/ PruneRows \/ ReloadMemory

Next == UiThread \/ WriterThread \/ Restart \/ Tick

Spec == Init /\ [][Next]_vars

(* The writer thread runs; the user need not do anything. *)
FairSpec == Spec /\ WF_vars(WriterThread)

-----------------------------------------------------------------------------
(* Properties                                                              *)

(* A translation that a clear has deleted is never returned again, through *)
(* prunes that were queued before it, failed statements and restarts.      *)
NothingClearedReturns ==
    \A k \in Key : Get(k) # 0 => Get(k) > cleared

(* What the file will hold for k when the channel is empty. *)
Eventual(k) ==
    LET queued == {i \in DOMAIN writes : writes[i].kind = "Put" /\ writes[i].key = k}
    IN  IF queued = {} THEN db[k].translation ELSE writes[Max(queued)].translation

(* A prune loses no put (the comment where the table is replaced): as long *)
(* as no statement fails, the table is what the file will hold.            *)
TableMatchesFile ==
    errors = 0 /\ writer # "none" /\ ~clear_in_progress /\ ~prune_in_progress
        => \A k \in Key : memory[k] = Eventual(k)

(* Pruning bounds the table: the comment of prune calls it the only way    *)
(* back from unbounded growth.                                             *)
TableBounded ==
    errors = 0 /\ ui = "idle" /\ writer # "none" /\ ~prune_in_progress
        => Cardinality({k \in Key : memory[k] # 0}) < MaxRows + PutsPerPrune

(* The table is what the file will hold, and no larger than a prune allows. *)
TableFollowsFile == TableMatchesFile /\ TableBounded

(* Neither flag stays up for good, unless the writer never started: the    *)
(* cache would return nothing, or take in nothing, for the rest of the run *)
FlagsComeDown ==
    /\ clear_in_progress ~> ~clear_in_progress \/ writer = "failed"
    /\ prune_in_progress ~> ~prune_in_progress \/ writer = "failed"
=============================================================================
