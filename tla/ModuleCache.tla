---------------------------- MODULE ModuleCache -----------------------------
(***************************************************************************)
(* The in-memory cache of compiled modules, src/modules/cache.c: a hash    *)
(* table and an LRU list over the same entries, backed by one file per key *)
(* (astm.c).  The hash chains and the LRU list share the field entry->next,*)
(* so pointers are modelled as pointers.                                   *)
(*                                                                         *)
(* The sources are edited by somebody else at any time, also between a     *)
(* compilation and the cache_put that follows it; every edit falls into a  *)
(* later second.  A module is known by the mtime of the source it was      *)
(* compiled from.  Abstracted: the contents of a module, statistics, and   *)
(* the 32-bit hash that names the file (keys have files of their own).     *)
(***************************************************************************)
EXTENDS Integers, FiniteSets

CONSTANTS
  Key,        (* paths of source files                          *)
  Hash,       (* Hash[k]: the bucket of key k                   *)
  max_entries,(* capacity of the cache                          *)
  MaxTime     (* bound: the clock, which every edit advances    *)

\* cache_create takes 0 for a default (cache.c:181).
HasRoom == max_entries \in Nat \ {0} /\ MaxTime \in Nat \ {0}

Entry  == 1 .. max_entries
Null   == 0
Bucket == {Hash[k] : k \in Key}
Time   == 1 .. MaxTime
Never  == -1    \* the mtime of a file that does not exist

VARIABLES
  list,         \* buckets, lru_head, lru_tail, and prev and next of the entries
  entries,      \* key, module, source_mtime and is_dirty of the allocated ones
  entry_count,
  file,         \* file[k]: mtime and module of the cache file of k
  source,       \* source[k]: the mtime of source k
  now,
  pending,      \* a module that was compiled or loaded and is not in the cache yet
  crashed,      \* an entry was freed twice: anything may happen from here on
  compiled      \* history: the last module of each key that was compiled,
                \* unless it was discarded on purpose

cacheVars == <<list, entries, entry_count>>
diskVars  == <<file, source, now>>
vars == <<cacheVars, diskVars, pending, crashed, compiled>>

Allocated == DOMAIN entries

NoFile == [mtime |-> Never, module |-> Never]
Idle   == [key |-> "none", module |-> Never, fresh |-> FALSE]

CacheEntry == [key : Key, module : Time, source_mtime : Time, is_dirty : BOOLEAN]

TypeOK ==
  /\ list \in [buckets : [Bucket -> Entry \cup {Null}],
               head : Entry \cup {Null}, tail : Entry \cup {Null},
               prev : [Entry -> Entry \cup {Null}], next : [Entry -> Entry \cup {Null}]]
  /\ Allocated \subseteq Entry
  /\ entries \in [Allocated -> CacheEntry]
  /\ entry_count \in 0 .. max_entries
  /\ file \in [Key -> [mtime : Time, module : Time] \cup {NoFile}]
  /\ source \in [Key -> Time]
  /\ now \in Time
  /\ pending \in [key : Key, module : Time, fresh : BOOLEAN] \cup {Idle}
  /\ crashed \in BOOLEAN
  /\ compiled \in [Key -> Time \cup {Never}]

-----------------------------------------------------------------------------
(* Pointers.                                                               *)

(* The entries met from e on along next; lists are no longer than Entry.   *)
Walk(l, e) ==
  LET node[n \in 0 .. max_entries] ==
        IF n = 0 THEN e ELSE IF node[n - 1] = Null THEN Null ELSE l.next[node[n - 1]]
  IN node

Chain(l, e) == {Walk(l, e)[n] : n \in 0 .. max_entries} \ {Null}

(* lru_remove                                                              *)
LruRemove(l, e) ==
  [buckets |-> l.buckets,
   head |-> IF l.prev[e] = Null THEN l.next[e] ELSE l.head,
   tail |-> IF l.next[e] = Null THEN l.prev[e] ELSE l.tail,
   next |-> [x \in Entry |-> IF x = e THEN Null
                             ELSE IF x = l.prev[e] THEN l.next[e] ELSE l.next[x]],
   prev |-> [x \in Entry |-> IF x = e THEN Null
                             ELSE IF x = l.next[e] THEN l.prev[e] ELSE l.prev[x]]]

(* lru_insert_front                                                        *)
LruInsertFront(l, e) ==
  [buckets |-> l.buckets,
   head |-> e,
   tail |-> IF l.tail = Null THEN e ELSE l.tail,
   next |-> [l.next EXCEPT ![e] = l.head],
   prev |-> [x \in Entry |-> IF x = e THEN Null ELSE IF x = l.head THEN e ELSE l.prev[x]]]

LruTouch(l, e) == LruInsertFront(LruRemove(l, e), e)

(* Faulty variant: an entry stays in its bucket.                           *)
BucketKeep(l, e) == l

(* The loop that takes an entry out of its bucket; at that point lru_remove*)
(* has already set the entry's next, which is the one the loop copies.     *)
BucketRemove(l, e) ==
  LET bucket == Hash[entries[e].key] IN
  IF l.buckets[bucket] = e
    THEN [l EXCEPT !.buckets[bucket] = l.next[e]]
    ELSE [l EXCEPT !.next = [x \in Entry |->
            IF x \in Chain(l, l.buckets[bucket]) /\ l.next[x] = e THEN l.next[e] ELSE l.next[x]]]

(* cache_put's insertion: next is first the hash chain, then the LRU list. *)
BucketInsert(l, e, k) ==
  [l EXCEPT !.next[e] = l.buckets[Hash[k]], !.buckets[Hash[k]] = e]

(* cache_lookup: the first entry of the key on the chain of its bucket, as *)
(* a set of at most one element.                                           *)
Lookup(k) ==
  LET walk == Walk(list, list.buckets[Hash[k]])
      Match(n) == walk[n] # Null /\ entries[walk[n]].key = k
  IN {walk[n] : n \in {m \in 0 .. max_entries :
        Match(m) /\ \A j \in 0 .. m - 1 : ~Match(j)}}

-----------------------------------------------------------------------------
(* cache_create.  A run that finds the files of an earlier one is a        *)
(* continuation of that one, after Flush and Clear.                        *)
Init ==
  /\ list = [buckets |-> [b \in Bucket |-> Null], head |-> Null, tail |-> Null,
             prev |-> [e \in Entry |-> Null], next |-> [e \in Entry |-> Null]]
  /\ entries = <<>>
  /\ entry_count = 0
  /\ file = [k \in Key |-> NoFile]
  /\ source = [k \in Key |-> 1]
  /\ now = 1
  /\ pending = Idle
  /\ crashed = FALSE
  /\ compiled = [k \in Key |-> Never]

(* Somebody edits a source.                                                *)
Edit(k) ==
  /\ now < MaxTime
  /\ now' = now + 1
  /\ source' = [source EXCEPT ![k] = now']
  /\ UNCHANGED <<cacheVars, file, pending, crashed, compiled>>

Ready == pending = Idle /\ ~crashed

Freed(e) == [x \in Allocated \ {e} |-> entries[x]]

Saved(e) == [mtime |-> now, module |-> entries[e].module]

Expired(e) == source[entries[e].key] > entries[e].source_mtime

(* cache_get, when the module is in memory and its source has not changed. *)
GetHit(k) ==
  /\ Ready
  /\ \E e \in Lookup(k) :
       /\ ~Expired(e)
       /\ list' = LruTouch(list, e)
  /\ UNCHANGED <<entries, entry_count, diskVars, pending, crashed, compiled>>

(* cache_invalidate, which cache_get also calls when the source changed.   *)
Discard(e) ==
  /\ list' = BucketRemove(LruRemove(list, e), e)
  /\ entries' = Freed(e)
  /\ entry_count' = entry_count - 1
  /\ compiled' = [compiled EXCEPT ![entries[e].key] = Never]

Invalidate(k) ==
  /\ Ready
  /\ \E e \in Lookup(k) : Discard(e)
  /\ UNCHANGED <<diskVars, pending, crashed>>

(* The rest of cache_get, when the module is not in memory or was just     *)
(* discarded: it is loaded from its file, if that is as new as the source; *)
(* compiled, if there is no such file or it cannot be loaded; and NULL, if *)
(* it does not compile.                                                    *)
FileIsValid(k) == file[k] # NoFile /\ file[k].mtime >= source[k]

Miss(k) ==
  \/ FileIsValid(k) /\ pending' = [key |-> k, module |-> file[k].module, fresh |-> FALSE]
  \/ pending' = [key |-> k, module |-> source[k], fresh |-> TRUE]
  \/ UNCHANGED pending

GetMiss(k) ==
  /\ Ready
  /\ \/ \E e \in Lookup(k) : Expired(e) /\ Discard(e)
     \/ Lookup(k) = {} /\ UNCHANGED <<cacheVars, compiled>>
  /\ Miss(k)
  /\ UNCHANGED <<diskVars, crashed>>

(* cache_put by a caller with a module of its own.                         *)
PutOwn(k) ==
  /\ Ready
  /\ pending' = [key |-> k, module |-> source[k], fresh |-> FALSE]
  /\ UNCHANGED <<cacheVars, diskVars, crashed, compiled>>

(* cache_put looks at the mtime of the source again.  An entry that exists *)
(* gets the module and is dirty; ...                                       *)
PutExisting ==
  /\ pending # Idle
  /\ \E e \in Lookup(pending.key) :
       /\ entries' = [entries EXCEPT ![e].module = pending.module,
                                     ![e].source_mtime = source[pending.key],
                                     ![e].is_dirty = TRUE]
       /\ list' = LruTouch(list, e)
  /\ compiled' = [compiled EXCEPT ![pending.key] = pending.module]
  /\ pending' = Idle
  /\ UNCHANGED <<entry_count, diskVars, crashed>>

(* Faulty variant: an entry that is evicted is not saved.                  *)
EvictUnsaved ==
  /\ pending # Idle
  /\ entry_count >= max_entries
  /\ Lookup(pending.key) = {}
  /\ LET victim == list.tail IN
       /\ list' = BucketRemove(LruRemove(list, victim), victim)
       /\ entries' = Freed(victim)
       /\ entry_count' = entry_count - 1
  /\ UNCHANGED <<diskVars, pending, crashed, compiled>>

(* ... otherwise, if the cache is full, evict_lru makes room and saves     *)
(* what is dirty, ...                                                      *)
Evict ==
  /\ pending # Idle
  /\ entry_count >= max_entries
  /\ Lookup(pending.key) = {}
  /\ LET victim == list.tail IN
       /\ list' = BucketRemove(LruRemove(list, victim), victim)
       /\ entries' = Freed(victim)
       /\ entry_count' = entry_count - 1
       /\ file' = IF entries[victim].is_dirty
                    THEN [file EXCEPT ![entries[victim].key] = Saved(victim)] ELSE file
  /\ UNCHANGED <<source, now, pending, crashed, compiled>>

(* ... and a new entry is inserted; cache_get then marks it dirty if it    *)
(* was compiled.                                                           *)
PutNew ==
  /\ pending # Idle
  /\ entry_count < max_entries
  /\ Lookup(pending.key) = {}
  /\ LET e == CHOOSE x \in Entry : x \notin Allocated
         k == pending.key
     IN
       /\ list' = LruInsertFront(BucketInsert(list, e, k), e)
       /\ entries' = [x \in Allocated \cup {e} |->
            IF x = e THEN [key |-> k, module |-> pending.module,
                           source_mtime |-> source[k], is_dirty |-> pending.fresh]
            ELSE entries[x]]
       /\ compiled' = IF pending.fresh THEN [compiled EXCEPT ![k] = pending.module]
                      ELSE compiled
  /\ entry_count' = entry_count + 1
  /\ pending' = Idle
  /\ UNCHANGED <<diskVars, crashed>>

(* cache_flush saves the dirty entries it meets along the buckets; if it   *)
(* meets two of one key, which one it saves last is left open.             *)
Reachable == UNION {Chain(list, list.buckets[b]) : b \in Bucket}

Dirty(k) == {e \in Reachable : entries[e].is_dirty /\ entries[e].key = k}

Flush ==
  /\ Ready
  /\ \E last \in [Key -> Entry \cup {Null}] :
       /\ \A k \in Key : last[k] \in IF Dirty(k) = {} THEN {Null} ELSE Dirty(k)
       /\ file' = [k \in Key |-> IF last[k] = Null THEN file[k] ELSE Saved(last[k])]
  /\ entries' = [e \in Allocated |->
       [entries[e] EXCEPT !.is_dirty = @ /\ e \notin Reachable]]
  /\ UNCHANGED <<list, entry_count, source, now, pending, crashed, compiled>>

(* cache_clear frees the entries it meets along the buckets, each as often *)
(* as it meets it; the ones it does not meet are lost.                     *)
MetTwice ==
  \E b, c \in Bucket : b # c /\ Chain(list, list.buckets[b]) \cap Chain(list, list.buckets[c]) # {}

Clear ==
  /\ Ready
  /\ list' = [list EXCEPT !.buckets = [b \in Bucket |-> Null], !.head = Null, !.tail = Null]
  /\ entries' = <<>>
  /\ entry_count' = 0
  /\ crashed' = MetTwice
  /\ compiled' = [k \in Key |-> Never]
  /\ UNCHANGED <<diskVars, pending>>

(* cache_destroy is Flush, then Clear; the next run finds the files.       *)
Next ==
  \/ \E k \in Key : Edit(k) \/ GetHit(k) \/ GetMiss(k) \/ Invalidate(k) \/ PutOwn(k)
  \/ PutExisting \/ Evict \/ PutNew
  \/ Flush \/ Clear

Spec == Init /\ [][Next]_vars

-----------------------------------------------------------------------------
(* Properties.                                                             *)

(* The LRU list survives being threaded through the hash chains: it holds  *)
(* exactly the allocated entries, in a chain that can be walked both ways, *)
(* and entry_count counts them, so that eviction always finds a victim.    *)
LruWellFormed ==
  ~crashed =>
    /\ Chain(list, list.head) = Allocated
    /\ entry_count = Cardinality(Allocated)
    /\ \A e \in Allocated :
         /\ IF list.next[e] = Null THEN list.tail = e ELSE list.prev[list.next[e]] = e
         /\ IF list.prev[e] = Null THEN list.head = e ELSE list.next[list.prev[e]] = e

(* No bucket leads to an entry that was freed.                             *)
NoDanglingBucket == ~crashed => Reachable \subseteq Allocated

(* A key whose bucket no other key shares is found whenever it is in       *)
(* memory, in one entry only, whatever the other buckets' chains turn into.*)
Alone(k) == \A x \in Key \ {k} : Hash[x] # Hash[k]

LookupIsExact ==
  ~crashed => \A e \in Allocated :
    Alone(entries[e].key) => Lookup(entries[e].key) = {e}

(* A module of such a key that was compiled is in its file, or in memory   *)
(* to be saved, until it is discarded: eviction loses no work.             *)
NoLostWork ==
  ~crashed => \A k \in Key : (Alone(k) /\ compiled[k] # Never) =>
    \/ file[k].module = compiled[k]
    \/ \E e \in Allocated :
         entries[e].key = k /\ entries[e].is_dirty /\ entries[e].module = compiled[k]
=============================================================================
