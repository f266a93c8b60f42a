------------------------------ MODULE KvStore ------------------------------
(***************************************************************************)
(* KVStore and KVSQL (src/kv/kv.cpp, src/kv/kv_sql.cpp): a least recently   *)
(* used cache in front of the table kv_store.  The cache has a mutex; the   *)
(* table is read and written without it, so every operation that needs both *)
(* is several steps here.                                                   *)
(*                                                                         *)
(* A value carries the number of the write that made it; a removed key has  *)
(* a value that is deleted.  KVStore::flush is called by the tests'         *)
(* in-memory store only and is left out.                                    *)
(***************************************************************************)
EXTENDS Naturals, FiniteSets, SequencesExt

CONSTANTS
    Keys, Threads,
    Plans   \* the uses of the store; each behaviour keeps to one of them

Operations == {"set", "remove", "get", "forceLoad", "keys", "saveAll"}

(* A plan says which operations each thread calls, the size of the cache    *)
(* (KVStore::MAX_SIZE) and two bounds: how many values are written and how  *)
(* many queries fail.                                                       *)
ASSUME KvAssumption ==
    /\ IsFiniteSet(Keys) /\ Keys # {} /\ IsFiniteSet(Threads)
    /\ Plans \subseteq [calls : [Threads -> SUBSET Operations], size : Nat \ {0},
                       writes : Nat, failures : Nat]

VARIABLES
    plan,      \* never changes
    store,     \* store_: a partial function from keys to values
    lruQueue,  \* lruQueue_, most recently used first
    pending,   \* pendingEvictions_
    table,     \* the rows of kv_store
    pc, key, loaded, batch, snapshot, listed,  \* the threads' locals
    written,   \* history: the last value set for each key
    writes, failures

cache == <<store, lruQueue, pending>>
locals == <<key, loaded, batch, snapshot, listed>>
vars == <<plan, cache, table, pc, locals, written, writes, failures>>

-----------------------------------------------------------------------------
NoRow == [number |-> 0, deleted |-> TRUE]
Values == UNION {[number : 1..(Cardinality(Keys) + p.writes), deleted : BOOLEAN]
                    : p \in Plans}

(* What a value leaves in the table: save deletes the row of a deleted one, *)
(* and get answers nothing for either.                                      *)
RowOf(value) == IF value.deleted THEN NoRow ELSE value

Cached == DOMAIN store
Stored == {k \in Keys : table[k] # NoRow}

(* The iterator that the map keeps for k, and the splice from there.        *)
Place(k) == CHOOSE i \in DOMAIN lruQueue : lruQueue[i] = k
Without(k) == RemoveAt(lruQueue, Place(k))
OnlyFor(n) == [k \in {n} |-> NoRow]

(* An earlier run of the server left some rows behind.                      *)
Init ==
    /\ plan \in Plans
    /\ store = [k \in {} |-> NoRow] /\ lruQueue = <<>> /\ pending = <<>>
    /\ \E number \in [Keys -> 0..Cardinality(Keys)] :
         /\ \A k, other \in Keys :
              number[k] = number[other] => k = other \/ number[k] = 0
         /\ table = [k \in Keys |->
                       [number |-> number[k], deleted |-> number[k] = 0]]
    /\ written = table
    /\ pc = [t \in Threads |-> "idle"]
    /\ key = [t \in Threads |-> CHOOSE k \in Keys : TRUE]
    /\ loaded = [t \in Threads |-> NoRow]
    /\ batch = [t \in Threads |-> <<>>]
    /\ snapshot = [t \in Threads |-> [k \in {} |-> NoRow]]
    /\ listed = [t \in Threads |-> {}]
    /\ writes = 0 /\ failures = 0

Goto(t, label) == pc' = [pc EXCEPT ![t] = label]
Begins(t, operation) == pc[t] = "idle" /\ operation \in plan.calls[t]

-----------------------------------------------------------------------------
(* setLocked: replace and move to the front, or evict the last and insert.  *)
IsFull == Cardinality(Cached) >= plan.size /\ lruQueue # <<>>

MutPutAside(k) == pending
PutAside(k) == Append(pending, [key |-> k, value |-> store[k]])

Replaced(k, value) == [store EXCEPT ![k] = value]

SetLocked(k, value) ==
    \/ /\ k \in Cached
       /\ store' = Replaced(k, value)
       /\ lruQueue' = <<k>> \o Without(k)
       /\ UNCHANGED pending
    \/ /\ k \notin Cached /\ ~IsFull
       /\ store' = [j \in Cached \cup {k} |-> IF j = k THEN value ELSE store[j]]
       /\ lruQueue' = <<k>> \o lruQueue
       /\ UNCHANGED pending
    \/ /\ k \notin Cached /\ IsFull
       /\ LET victim == Last(lruQueue)
          IN  /\ store' = [j \in (Cached \ {victim}) \cup {k} |->
                             IF j = k THEN value ELSE store[j]]
              /\ pending' = PutAside(victim)
       /\ lruQueue' = <<k>> \o Front(lruQueue)

(* set and get call processEvictions after setLocked.                       *)
MutAfterSetLocked == IF pending' = pending THEN "evict" ELSE "idle"
AfterSetLocked == "evict"

(* set, and remove, which sets the deleted value.                           *)
Set(t, k, deleted) ==
    /\ Begins(t, IF deleted THEN "remove" ELSE "set")
    /\ writes < plan.writes
    /\ LET value == [number |-> Cardinality(Keys) + writes + 1, deleted |-> deleted]
       IN  /\ SetLocked(k, value)
           /\ written' = [written EXCEPT ![k] = value]
    /\ writes' = writes + 1
    /\ Goto(t, AfterSetLocked)
    /\ UNCHANGED <<plan, table, locals, failures>>

(* get finds the key; a deleted one is first in line for eviction.          *)
Hit(t, k) ==
    /\ Begins(t, "get") /\ k \in Cached
    /\ lruQueue' = IF store[k].deleted THEN Without(k) \o <<k>>
                                       ELSE <<k>> \o Without(k)
    /\ UNCHANGED <<plan, store, pending, table, pc, locals, written, writes, failures>>

Miss(t, k) ==
    /\ \/ Begins(t, "get") /\ k \notin Cached
       \/ Begins(t, "forceLoad")
    /\ key' = [key EXCEPT ![t] = k]
    /\ Goto(t, "load")
    /\ UNCHANGED <<plan, cache, table, loaded, batch, snapshot, listed, written, writes, failures>>

(* load answers nothing when there is no row, and get caches nothing then.  *)
Found(row) == row # NoRow

Load(t) ==
    /\ pc[t] = "load"
    /\ loaded' = [loaded EXCEPT ![t] = table[key[t]]]
    /\ Goto(t, IF Found(table[key[t]]) THEN "fill" ELSE "idle")
    /\ UNCHANGED <<plan, cache, table, key, batch, snapshot, listed, written, writes, failures>>

Fill(t) ==
    /\ pc[t] = "fill"
    /\ SetLocked(key[t], loaded[t])
    /\ loaded' = [loaded EXCEPT ![t] = NoRow]
    /\ Goto(t, AfterSetLocked)
    /\ UNCHANGED <<plan, table, key, batch, snapshot, listed, written, writes, failures>>

(* processEvictions: the first half under the mutex, the saves without it.  *)
LeftBehind == <<>>

TakeEvictions(t) ==
    /\ pc[t] = "evict"
    /\ batch' = [batch EXCEPT ![t] = pending]
    /\ pending' = LeftBehind
    /\ Goto(t, IF pending = <<>> THEN "idle" ELSE "save")
    /\ UNCHANGED <<plan, store, lruQueue, table, key, loaded, snapshot, listed, written, writes, failures>>

(* One save of the batch; what it returns is not looked at.                 *)
SaveEvicted(t) ==
    /\ pc[t] = "save"
    /\ LET entry == Head(batch[t])
       IN  \/ /\ table' = [table EXCEPT ![entry.key] = RowOf(entry.value)]
              /\ UNCHANGED failures
           \/ /\ failures < plan.failures
              /\ failures' = failures + 1
              /\ UNCHANGED table
    /\ batch' = [batch EXCEPT ![t] = Tail(@)]
    /\ Goto(t, IF Len(batch[t]) = 1 THEN "idle" ELSE "save")
    /\ UNCHANGED <<plan, cache, key, loaded, snapshot, listed, written, writes>>

-----------------------------------------------------------------------------
(* keys: the cached ones that are not deleted, then the stored ones.        *)
CachedKeys == {k \in Cached : ~store[k].deleted}

ListCached(t) ==
    /\ Begins(t, "keys")
    /\ listed' = [listed EXCEPT ![t] = CachedKeys]
    /\ Goto(t, "list")
    /\ UNCHANGED <<plan, cache, table, key, loaded, batch, snapshot, written, writes, failures>>

Answer(t) == listed[t] \cup Stored

ListStored(t) ==
    /\ pc[t] = "list"
    /\ listed' = [listed EXCEPT ![t] = {}]
    /\ Goto(t, "idle")
    /\ UNCHANGED <<plan, cache, table, key, loaded, batch, snapshot, written, writes, failures>>

(* saveAll: getStore copies the cache, and one transaction writes the copy. *)
(* The rows of deleted values go one query at a time, the others together;  *)
(* the transaction is committed even when a query of it failed.             *)
GetStore(t) ==
    /\ Begins(t, "saveAll")
    /\ snapshot' = [snapshot EXCEPT ![t] = store]
    /\ Goto(t, "saveAll")
    /\ UNCHANGED <<plan, cache, table, key, loaded, batch, listed, written, writes, failures>>

MutSaved(t) == {k \in DOMAIN snapshot[t] : ~snapshot[t][k].deleted}
Saved(t) == DOMAIN snapshot[t]

SaveRows(t, saved) ==
    table' = [k \in Keys |->
                IF k \in saved THEN RowOf(snapshot[t][k]) ELSE table[k]]

SaveAllWrites(t) ==
    /\ pc[t] = "saveAll"
    /\ \/ SaveRows(t, Saved(t)) /\ UNCHANGED failures
       \/ /\ failures < plan.failures
          /\ failures' = failures + 1
          /\ \E saved \in SUBSET Saved(t) : SaveRows(t, saved)
    /\ snapshot' = [snapshot EXCEPT ![t] = [k \in {} |-> NoRow]]
    /\ Goto(t, "idle")
    /\ UNCHANGED <<plan, cache, key, loaded, batch, listed, written, writes>>

-----------------------------------------------------------------------------
Goes(t) ==
    \/ Load(t) \/ Fill(t) \/ TakeEvictions(t) \/ SaveEvicted(t)
    \/ ListStored(t) \/ SaveAllWrites(t)

Calls(t) ==
    \/ ListCached(t) \/ GetStore(t)
    \/ \E k \in Keys :
         \/ \E deleted \in BOOLEAN : Set(t, k, deleted)
         \/ Hit(t, k) \/ Miss(t, k)

Next == \E t \in Threads : Goes(t) \/ Calls(t)

Spec == Init /\ [][Next]_vars

-----------------------------------------------------------------------------
Entries == [key : Keys, value : Values]
Maps == UNION {[D -> Values] : D \in SUBSET Keys}

(* The types; and the cache and its queue agree: setLocked takes the victim *)
(* from the queue and erases it from the map, whatever gets, sets and fills *)
(* moved or inserted in between, and the cache does not outgrow MAX_SIZE.   *)
TypeOK ==
    /\ store \in Maps
    /\ lruQueue \in Seq(Keys) /\ pending \in Seq(Entries)
    /\ table \in [Keys -> Values \cup {NoRow}]
    /\ pc \in [Threads -> {"idle", "load", "fill", "evict", "save", "list", "saveAll"}]
    /\ key \in [Threads -> Keys]
    /\ loaded \in [Threads -> Values \cup {NoRow}]
    /\ batch \in [Threads -> Seq(Entries)]
    /\ snapshot \in [Threads -> Maps]
    /\ listed \in [Threads -> SUBSET Keys]
    /\ written \in [Keys -> Values \cup {NoRow}]
    /\ writes \in 0..plan.writes /\ failures \in 0..plan.failures
    /\ IsInjective(lruQueue) /\ Range(lruQueue) = Cached
    /\ Cardinality(Cached) <= plan.size

Quiet == \A t \in Threads : pc[t] = "idle"
Visible(k) == IF k \in Cached THEN store[k] ELSE table[k]

Callers == {t \in Threads : plan.calls[t] # {}}
Alone == Cardinality(Callers) = 1
OneClient == Cardinality({t \in Threads : plan.calls[t] \ {"saveAll"} # {}}) = 1
NeverEvicts == Cardinality(Keys) <= plan.size
NeverForces == \A t \in Threads : "forceLoad" \notin plan.calls[t]
Promised == Alone /\ NeverForces /\ plan.failures = 0
Watched == OneClient /\ NeverForces /\ NeverEvicts

(* Persistent (src/kv/README.md), as far as the code is: with no operation  *)
(* in progress, a get of any key answers what was set last, from the cache  *)
(* or from the table, when one thread alone uses the store and no query     *)
(* fails, or when another thread only saves, queries may fail, and nothing  *)
(* is ever evicted.  In the first case keys finds every key with a value.   *)
(* A forced get takes back what was set and not saved, so nobody uses one.  *)
NothingLost ==
    /\ Promised \/ Watched =>
         (Quiet => \A k \in Keys : RowOf(Visible(k)) = RowOf(written[k]))
    /\ \A t \in Threads : Promised /\ pc[t] = "list"
         => {k \in Keys : ~written[k].deleted} \subseteq Answer(t)

(* The types hold and the map agrees with the queue; and whoever appends to *)
(* pendingEvictions_ releases the mutex before anybody empties it: at every *)
(* moment some thread has still to do so, and no evicted value is left to   *)
(* the next eviction, which may never come.                                 *)
EvictionsTaken ==
    /\ TypeOK
    /\ pending # <<>> => \E t \in Threads : pc[t] = "evict"

(* What a key is worth while it is evicted: its value counts as there until *)
(* it is saved.                                                             *)
Waiting == Range(pending) \cup UNION {Range(batch[t]) : t \in Threads}
Evicted(k) ==
    IF \E entry \in Waiting : entry.key = k
    THEN (CHOOSE entry \in Waiting : entry.key = k).value
    ELSE table[k]

Content == [k \in Keys |->
              RowOf(IF k \in Cached THEN store[k] ELSE Evicted(k))]

(* Several threads are promised nothing: what they see is left out.         *)
Nothing == [k \in Keys |-> NoRow]

Promise == INSTANCE KvPromise WITH
    Row <- Values,
    content <- IF Promised THEN Content ELSE Nothing,
    stored <- IF Promised THEN table ELSE Nothing

(* For a thread alone the store is the map its clients believe it to be,    *)
(* and when saveAll returns all of it is durable, the evictions and the     *)
(* removals before it included.                                             *)
SavesAll ==
    [][\A t \in Threads :
         Promised /\ pc[t] = "saveAll" /\ pc'[t] = "idle" => table' = Content']_vars

KeepsPromise == Promise!Spec /\ SavesAll
=============================================================================
