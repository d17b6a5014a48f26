------------------------------ MODULE DNSCache ------------------------------
(***************************************************************************)
(* One shard of a DNS cache (dnscache/store.go) and its file. The client's *)
(* cache has pending entries and is saved now and then; the server's is    *)
(* only read and filled. Every operation holds the shard's mutex; saving   *)
(* takes it twice, once to count the entries and once to write them.       *)
(*                                                                         *)
(* An entry's age is what its operations tell apart: "new", then "used" a  *)
(* second after its last use, then "old" when its time to live is over, or *)
(* pendingTimeout for one that is pending.                                 *)
(***************************************************************************)
EXTENDS Slices, SequencesExt, FiniteSets

CONSTANTS
  Names,       \* cache keys that share the shard
  Responses,   \* answers to a name
  Limit        \* maxRecords / shardCount

ASSUME LimitAssumption == Limit \in Nat \ {0}

VARIABLES
  order,       \* keys in the shard, the one evicted next first
  entryOf,     \* key -> its entry, [response, age]
  pending,     \* pendingTotal
  changed,     \* whether dirty is above 0
  saver,       \* SaveToFile: its step, what it counted and wrote
  stored       \* the records LoadFromFile finds in the file

cacheVars == <<order, entryOf, pending, changed, saver, stored>>

Waited == "pending"                                     \* no response yet
ASSUME WaitedAssumption == Waited \notin Responses
Absent == [response |-> Waited, age |-> "new"]          \* filler for other keys
Resting == [at |-> "idle", count |-> 0, records |-> << >>, missed |-> FALSE]
Held(k) == Contains(order, k)
IsReady(k) == Held(k) /\ entryOf[k].response # Waited
Waiting == {k \in Names : Held(k) /\ ~IsReady(k)}
Expired(k) == IsReady(k) /\ entryOf[k].age = "old"

CacheTypeOK ==
  /\ order \in Seq(Names) /\ Len(order) <= Limit /\ IsInjective(order)
  /\ entryOf \in [Names -> [response : Responses \cup {Waited}, age : {"new", "used", "old"}]]
  /\ pending \in 0..Limit /\ changed \in BOOLEAN
  /\ saver.at \in {"idle", "counted", "written"} /\ saver.count \in 0..Limit
  /\ Len(saver.records) <= Limit /\ saver.missed \in BOOLEAN
  /\ Len(stored) <= Limit

CacheInit ==
  /\ order = << >> /\ entryOf = [k \in Names |-> Absent]
  /\ pending = 0 /\ changed = FALSE
  /\ saver = Resting /\ stored = << >>

-----------------------------------------------------------------------------
(* What the operations do to the shard: state is [order, entryOf, pending].*)

Shard == [order |-> order, entryOf |-> entryOf, pending |-> pending]

(* removeElementLocked.                                                    *)
Without(s, k) ==
  [order |-> Drop(s.order, {k}), entryOf |-> [s.entryOf EXCEPT ![k] = Absent],
   pending |-> IF s.entryOf[k].response = Waited /\ s.pending > 0 THEN s.pending - 1
               ELSE s.pending]

(* evictIfNeededLocked; a new entry exceeds the limit by one.              *)
Fitting(s) == IF Len(s.order) > Limit THEN Without(s, Head(s.order)) ELSE s

(* A new entry at the back, and the eviction it may cause.                 *)
With(s, k, response) ==
  Fitting([order |-> Append(s.order, k),
           entryOf |-> [s.entryOf EXCEPT ![k] = [response |-> response, age |-> "new"]],
           pending |-> IF response = Waited THEN s.pending + 1 ELSE s.pending])

(* MoveToBack, with the age given.                                         *)
Used(s, k, age) ==
  [s EXCEPT !.order = Append(Drop(@, {k}), k), !.entryOf[k].age = age]

(* The new shard. A change that the saver has not seen is missed if the    *)
(* saver then declares everything saved.                                   *)
Set(s, changes) ==
  /\ order' = s.order /\ entryOf' = s.entryOf /\ pending' = s.pending
  /\ changed' = (changed \/ changes)
  /\ saver' = [saver EXCEPT !.missed = @ \/ (changes /\ saver.at # "idle")]
  /\ UNCHANGED stored

-----------------------------------------------------------------------------
(* LookupOrCreatePending. A pending entry is dispatched again when it is   *)
(* old; an expired one makes room for a pending one.                       *)
Lookup(k) ==
  IF ~Held(k) THEN Set(With(Shard, k, Waited), TRUE)
  ELSE IF Expired(k) THEN Set(With(Without(Shard, k), k, Waited), TRUE)
  ELSE IF IsReady(k) THEN Set(Used(Shard, k, "new"), entryOf[k].age # "new")
  ELSE Set(Used(Shard, k, IF entryOf[k].age = "old" THEN "new" ELSE entryOf[k].age),
           entryOf[k].age # "new")

(* GetReady, of the server's cache.                                        *)
GetReady(k) ==
  /\ Held(k)
  /\ IF Expired(k) THEN Set(Without(Shard, k), TRUE)
     ELSE Set(Used(Shard, k, IF IsReady(k) THEN "new" ELSE entryOf[k].age),
              entryOf[k].age # "new")

(* Mutant: an answer to a pending entry is no longer counted, but ...      *)
SetReadyKeepingCount(k, response) ==
  IF Held(k)
    THEN Set([Used(Shard, k, "new") EXCEPT !.entryOf[k].response = response], TRUE)
    ELSE Set(With(Shard, k, response), TRUE)

(* SetReady: the answer takes the place of whatever the entry was.         *)
SetReady(k, response) ==
  IF Held(k)
    THEN Set([Used(Shard, k, "new") EXCEPT
                !.entryOf[k].response = response,
                !.pending = IF ~IsReady(k) /\ @ > 0 THEN @ - 1 ELSE @], TRUE)
    ELSE Set(With(Shard, k, response), TRUE)

(* ClearPending, when the client's runtime is reset.                       *)
ClearPending ==
  /\ Waiting # {}
  /\ Set([order |-> Drop(order, Waiting),
          entryOf |-> [k \in Names |-> IF IsReady(k) THEN entryOf[k] ELSE Absent],
          pending |-> 0], TRUE)

(* Time.                                                                   *)
GetsOlder(k) ==
  /\ Held(k) /\ entryOf[k].age # "old"
  /\ entryOf' = [entryOf EXCEPT ![k].age = IF @ = "new" THEN "used" ELSE "old"]
  /\ UNCHANGED <<order, pending, changed, saver, stored>>

-----------------------------------------------------------------------------
(* SaveToFile and LoadFromFile.                                            *)

Savable(k) == IsReady(k) /\ ~Expired(k)
Record(k) == [key |-> k, response |-> entryOf[k].response]

(* The first pass counts, unless nothing has changed.                      *)
SaveCount ==
  /\ saver.at = "idle" /\ changed
  /\ saver' = [Resting EXCEPT !.at = "counted", !.count = Cardinality({k \in Names : Savable(k)})]
  /\ UNCHANGED <<order, entryOf, pending, changed, stored>>

(* The second one writes. A record beyond the count in the header will not *)
(* be read; that there are fewer ends the reading without an error.        *)
SaveWrite ==
  /\ saver.at = "counted"
  /\ LET saved == Drop(order, {k \in Names : ~Savable(k)})
         read == IF Len(saved) < saver.count THEN Len(saved) ELSE saver.count
     IN  saver' = [saver EXCEPT !.at = "written", !.count = 0,
                     !.records = [i \in 1..read |-> Record(saved[i])]]
  /\ UNCHANGED <<order, entryOf, pending, changed, stored>>

(* The file is renamed into place and the changes are forgotten.           *)
SaveRename ==
  /\ saver.at = "written"
  /\ stored' = saver.records
  /\ changed' = FALSE
  /\ saver' = [Resting EXCEPT !.missed = saver.missed]
  /\ UNCHANGED <<order, entryOf, pending>>

(* Mutant: a save that failed forgets the changes too.                     *)
SaveFailsClean ==
  /\ saver.at # "idle"
  /\ saver' = [Resting EXCEPT !.missed = saver.missed]
  /\ changed' = FALSE
  /\ UNCHANGED <<order, entryOf, pending, stored>>

(* An error before the rename removes the temporary file.                  *)
SaveFails ==
  /\ saver.at # "idle"
  /\ saver' = [Resting EXCEPT !.missed = saver.missed]
  /\ UNCHANGED <<order, entryOf, pending, changed, stored>>

(* The records LoadFromFile keeps: those whose time is not over.           *)
Loaded(alive) == Drop(stored, {r \in ToSet(stored) : r.key \notin alive})

(* The client starts again.                                                *)
Restarts ==
  \E alive \in SUBSET Names :
    LET loaded == Loaded(alive)
        from(k) == CHOOSE r \in ToSet(loaded) : r.key = k
        keys == {r.key : r \in ToSet(loaded)}
    IN  /\ order' = [i \in DOMAIN loaded |-> loaded[i].key]
        /\ entryOf' = [k \in Names |-> IF k \in keys
                         THEN [response |-> from(k).response, age |-> "used"] ELSE Absent]
        /\ pending' = 0 /\ changed' = FALSE /\ saver' = Resting
        /\ UNCHANGED stored

-----------------------------------------------------------------------------
Saving == SaveCount \/ SaveWrite \/ SaveRename \/ SaveFails

CacheNext ==
  \/ \E k \in Names : Lookup(k) \/ GetReady(k) \/ GetsOlder(k) \/ \E r \in Responses : SetReady(k, r)
  \/ ClearPending \/ Saving \/ Restarts

CacheSpec == CacheInit /\ [][CacheNext]_cacheVars

-----------------------------------------------------------------------------
(* Properties.                                                             *)

(* The count of pending entries that HasPending reads, kept with atomics   *)
(* beside the shards, agrees with the entries through eviction, answer,    *)
(* expiry and reset.                                                       *)
PendingIsCounted == pending = Cardinality(Waiting)

(* When nothing counts as changed, every answer that has not expired is    *)
(* one a restart would find in the file, save for what changed between a   *)
(* save's start and its end: it is in no file, and no save is due for it   *)
(* until something else changes (SaveToFile).                              *)
SavedOrChanged ==
  ~changed /\ saver.at = "idle" /\ ~saver.missed
    => \A k \in Names : Savable(k) => Record(k) \in ToSet(stored)

=============================================================================
