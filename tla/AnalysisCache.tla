---------------------------- MODULE AnalysisCache ----------------------------
(***************************************************************************)
(* The in-memory cache of analysis results (analysis/cache.go): bounded,   *)
(* least recently used first out, entries expire.  Every operation holds   *)
(* the one mutex from its first to its last statement, so each is one      *)
(* step; the cleanup goroutine is one more caller.                         *)
(***************************************************************************)
EXTENDS Naturals, FiniteSets

CONSTANTS
  Keys,
  Ttls,     \* the lifetimes callers pass to Set, the default in place of 0
  MaxSize,
  MaxTime,  \* bound: the clock stops there
  MaxGets   \* bound: calls of Get

ASSUME KeysAssumption == IsFiniteSet(Keys)
ASSUME CacheAssumption == Ttls \subseteq Nat /\ MaxSize \in Nat /\ MaxTime \in Nat /\ MaxGets \in Nat

VARIABLES
  items,      \* the keys that have an entry
  expiresAt,  \* when the entry of a key expires, 0 without an entry
  accessedAt, \* when it was last set or got, 0 without an entry
  now,
  size, hits, misses  \* stats.Size, stats.Hits, stats.Misses

vars == <<items, expiresAt, accessedAt, now, size, hits, misses>>
stats == <<hits, misses>>

Init ==
  /\ items = {}
  /\ expiresAt = [k \in Keys |-> 0]
  /\ accessedAt = [k \in Keys |-> 0]
  /\ now = 0
  /\ size = 0 /\ hits = 0 /\ misses = 0

\* time.Now().After(item.expiresAt)
Expired(k) == now > expiresAt[k]

\* The entries that remain are those of R; the others lose their times.
Keep(R) ==
  /\ items' = R
  /\ expiresAt' = [k \in Keys |-> IF k \in R THEN expiresAt[k] ELSE 0]
  /\ accessedAt' = [k \in Keys |-> IF k \in R THEN accessedAt[k] ELSE 0]

Get(k) ==
  /\ hits + misses < MaxGets
  /\ IF k \in items /\ ~Expired(k)
     THEN /\ accessedAt' = [accessedAt EXCEPT ![k] = now]
          /\ hits' = hits + 1
          /\ UNCHANGED <<items, expiresAt, size, misses>>
     ELSE /\ misses' = misses + 1
          /\ Keep(items \ {k})
          /\ size' = IF k \in items THEN Cardinality(items \ {k}) ELSE size
          /\ UNCHANGED hits
  /\ UNCHANGED now

\* Mutant: the most recently used entry is the one to go.
NewestEvicted(S) ==
  {S \ {k} : k \in {m \in S : \A j \in S : accessedAt[j] <= accessedAt[m]}}

\* evictLRU ranges over a map: any of the least recently used entries may go.
Evicted(S) ==
  IF S = {} THEN {S}
  ELSE {S \ {k} : k \in {m \in S : \A j \in S : accessedAt[m] <= accessedAt[j]}}

\* Mutant: the cache grows by one entry too many.
SetLate(k, ttl) ==
  \E R \in (IF Cardinality(items) > MaxSize THEN Evicted(items) ELSE {items}) :
    /\ items' = R \union {k}
    /\ expiresAt' = [j \in Keys |-> IF j = k THEN now + ttl ELSE IF j \in R THEN expiresAt[j] ELSE 0]
    /\ accessedAt' = [j \in Keys |-> IF j = k THEN now ELSE IF j \in R THEN accessedAt[j] ELSE 0]
    /\ size' = Cardinality(R \union {k})
    /\ UNCHANGED <<now, stats>>

\* At the maximum an entry goes, also when k has one already.
Set(k, ttl) ==
  \E R \in (IF Cardinality(items) >= MaxSize THEN Evicted(items) ELSE {items}) :
    /\ items' = R \union {k}
    /\ expiresAt' = [j \in Keys |-> IF j = k THEN now + ttl ELSE IF j \in R THEN expiresAt[j] ELSE 0]
    /\ accessedAt' = [j \in Keys |-> IF j = k THEN now ELSE IF j \in R THEN accessedAt[j] ELSE 0]
    /\ size' = Cardinality(R \union {k})
    /\ UNCHANGED <<now, stats>>

Delete(k) ==
  /\ Keep(items \ {k})
  /\ size' = Cardinality(items \ {k})
  /\ UNCHANGED <<now, stats>>

Clear ==
  /\ Keep({})
  /\ size' = 0
  /\ UNCHANGED <<now, stats>>

Cleanup ==
  /\ Keep({k \in items : ~Expired(k)})
  /\ size' = Cardinality({k \in items : ~Expired(k)})
  /\ UNCHANGED <<now, stats>>

Tick ==
  /\ now < MaxTime
  /\ now' = now + 1
  /\ UNCHANGED <<items, expiresAt, accessedAt, size, stats>>

Next ==
  \/ \E k \in Keys : Get(k) \/ Delete(k) \/ \E ttl \in Ttls : Set(k, ttl)
  \/ Clear \/ Cleanup \/ Tick

Spec == Init /\ [][Next]_vars

-----------------------------------------------------------------------------
TypeOK ==
  /\ items \subseteq Keys
  /\ expiresAt \in [Keys -> Nat]
  /\ accessedAt \in [Keys -> Nat]
  /\ now \in Nat /\ size \in Nat /\ hits \in Nat /\ misses \in Nat

(***************************************************************************)
(* The cache never holds more than its maximum, or than the one entry just *)
(* set if the maximum is zero, and the size it reports is the size it has. *)
(***************************************************************************)
Bounded ==
  /\ size = Cardinality(items)
  /\ size <= MaxSize \/ size <= 1

(***************************************************************************)
(* cache_test.go:70, "Least Recently Used (LRU) eviction": no entry that   *)
(* stays was used before the one a Set pushed out.                         *)
(***************************************************************************)
EvictsLeastRecent ==
  [][\A k \in Keys, ttl \in Ttls : Set(k, ttl) =>
       \A gone \in items \ items', stays \in items \intersect items' :
         stays # k => accessedAt[gone] <= accessedAt[stays]]_vars

=============================================================================
