------------------------ MODULE AnalysisEngineProofs ------------------------
(***************************************************************************)
(* Proofs about the analysis cache and about Analyze.  The cache: for any  *)
(* finite set of keys and any maximum it stays within its bound, reports   *)
(* its true size and pushes out what was used least recently.  Analyze:    *)
(* it uses the cache as the cache's specification has it, so that what is  *)
(* proved of the cache carries over; with the error threshold below 100    *)
(* percent a call without an error has a result; and a result that lacks   *)
(* an answer is marked with an error.                                      *)
(***************************************************************************)
EXTENDS AnalysisEngine, FiniteSetTheorems, TLAPS

(***************************************************************************)
(* A set of cached keys is finite, and taking a key out of it removes one. *)
(***************************************************************************)
LEMMA ItemsFinite ==
  ASSUME NEW S \in SUBSET Keys
  PROVE  IsFiniteSet(S) /\ Cardinality(S) \in Nat
  BY KeysAssumption, FS_Subset, FS_CardinalityType

LEMMA RemovedCount ==
  ASSUME NEW S \in SUBSET Keys, NEW k
  PROVE  /\ S \ {k} \subseteq Keys
         /\ Cardinality(S \ {k}) \in Nat
         /\ Cardinality(S \ {k}) = IF k \in S THEN Cardinality(S) - 1 ELSE Cardinality(S)
  BY ItemsFinite, FS_RemoveElement

LEMMA AddedCount ==
  ASSUME NEW S \in SUBSET Keys, NEW k \in Keys
  PROVE  /\ S \union {k} \subseteq Keys
         /\ Cardinality(S \union {k}) \in Nat
         /\ Cardinality(S \union {k}) = IF k \in S THEN Cardinality(S) ELSE Cardinality(S) + 1
  BY ItemsFinite, FS_AddElement

(***************************************************************************)
(* A subset of the entries is no larger than the entries.                  *)
(***************************************************************************)
LEMMA SubsetCount ==
  ASSUME NEW S \in SUBSET Keys, NEW R \in SUBSET S
  PROVE  Cardinality(R) \in Nat /\ Cardinality(R) <= Cardinality(S)
  BY ItemsFinite, FS_Subset

(***************************************************************************)
(* evictLRU takes one entry out of a cache that has one.                   *)
(***************************************************************************)
LEMMA EvictedCount ==
  ASSUME NEW S \in SUBSET Keys, NEW R \in Evicted(S)
  PROVE  /\ R \subseteq S
         /\ Cardinality(R) \in Nat
         /\ Cardinality(R) = IF S = {} THEN 0 ELSE Cardinality(S) - 1
  <1>1. CASE S = {}
    BY <1>1, FS_EmptySet DEF Evicted
  <1>2. CASE S # {}
    <2>1. PICK k \in S : R = S \ {k}
      BY <1>2 DEF Evicted
    <2>. QED
      BY <2>1, <1>2, RemovedCount
  <1>. QED
    BY <1>1, <1>2

Small(n) == n <= MaxSize \/ n <= 1

Inv == TypeOK /\ Bounded

LEMMA InitInv == Init => Inv
  BY FS_EmptySet DEF Init, Inv, TypeOK, Bounded

(***************************************************************************)
(* The operations that only drop entries.                                  *)
(***************************************************************************)
LEMMA KeepInv ==
  ASSUME Inv, NEW R \in SUBSET items, Keep(R), now' = now,
         size' = Cardinality(R), hits' \in Nat, misses' \in Nat
  PROVE  Inv'
  <1>1. items \in SUBSET Keys /\ size = Cardinality(items) /\ Small(size) /\ MaxSize \in Nat
    BY CacheAssumption DEF Inv, TypeOK, Bounded, Small
  <1>2. Cardinality(R) \in Nat /\ Cardinality(R) <= Cardinality(items) /\ size \in Nat
    BY <1>1, SubsetCount DEF Inv, TypeOK
  <1>3. items' = R
    BY DEF Keep
  <1>4. Bounded'
    BY <1>1, <1>2, <1>3 DEF Bounded, Small
  <1>5. TypeOK'
    BY <1>2, <1>3 DEF Inv, TypeOK, Keep
  <1>. QED
    BY <1>4, <1>5 DEF Inv

(***************************************************************************)
(* A Get that misses drops an expired entry, if there is one.              *)
(***************************************************************************)
LEMMA GetInv ==
  ASSUME Inv, NEW k \in Keys, Get(k)
  PROVE  Inv'
  <1>1. CASE k \in items /\ ~Expired(k)
    BY <1>1 DEF Get, Inv, TypeOK, Bounded
  <1>2. CASE ~(k \in items /\ ~Expired(k))
    <2>1. Keep(items \ {k}) /\ now' = now /\ hits' \in Nat /\ misses' \in Nat
      BY <1>2 DEF Get, Inv, TypeOK
    <2>2. size' = Cardinality(items \ {k})
      <3>1. CASE k \in items
        BY <3>1, <1>2 DEF Get
      <3>2. CASE k \notin items
        <4>1. items \ {k} = items
          BY <3>2
        <4>. QED
          BY <4>1, <3>2 DEF Get, Inv, Bounded
      <3>. QED
        BY <3>1, <3>2
    <2>. QED
      BY <2>1, <2>2, KeepInv
  <1>. QED
    BY <1>1, <1>2

(***************************************************************************)
(* A Set makes room before it adds its entry.                              *)
(***************************************************************************)
LEMMA SetInv ==
  ASSUME Inv, NEW k \in Keys, NEW ttl \in Ttls, Set(k, ttl)
  PROVE  Inv'
  <1>1. /\ items \in SUBSET Keys /\ size = Cardinality(items) /\ Small(size)
        /\ MaxSize \in Nat /\ size \in Nat
    BY CacheAssumption DEF Inv, TypeOK, Bounded, Small
  <1>2. PICK R \in (IF Cardinality(items) >= MaxSize THEN Evicted(items) ELSE {items}) :
          /\ items' = R \union {k}
          /\ expiresAt' = [j \in Keys |-> IF j = k THEN now + ttl ELSE IF j \in R THEN expiresAt[j] ELSE 0]
          /\ accessedAt' = [j \in Keys |-> IF j = k THEN now ELSE IF j \in R THEN accessedAt[j] ELSE 0]
          /\ size' = Cardinality(R \union {k})
          /\ UNCHANGED <<now, stats>>
    BY DEF Set
  <1>3. /\ R \subseteq Keys /\ Cardinality(R) \in Nat
        /\ Cardinality(R) + 1 <= MaxSize \/ Cardinality(R) = 0
    <2>1. CASE Cardinality(items) >= MaxSize
      <3>1. R \in Evicted(items)
        BY <2>1, <1>2
      <3>2. CASE items = {}
        BY <3>1, <3>2, EvictedCount
      <3>3. CASE items # {}
        BY <3>1, <3>3, <1>1, EvictedCount DEF Small
      <3>. QED
        BY <3>2, <3>3
    <2>2. CASE ~(Cardinality(items) >= MaxSize)
      BY <2>2, <1>1, <1>2
    <2>. QED
      BY <2>1, <2>2
  <1>4. /\ R \union {k} \subseteq Keys
        /\ Cardinality(R \union {k}) \in Nat
        /\ Cardinality(R \union {k}) <= Cardinality(R) + 1
    BY <1>3, AddedCount
  <1>5. Bounded'
    BY <1>1, <1>2, <1>3, <1>4 DEF Bounded
  <1>6. ttl \in Nat
    BY CacheAssumption
  <1>7. TypeOK'
    BY <1>2, <1>4, <1>6 DEF Inv, TypeOK, stats
  <1>. QED
    BY <1>5, <1>7 DEF Inv

LEMMA NextInv == Inv /\ [Next]_vars => Inv'
  <1>. SUFFICES ASSUME Inv, [Next]_vars PROVE Inv'
    OBVIOUS
  <1>1. ASSUME NEW k \in Keys, Get(k) PROVE Inv'
    BY <1>1, GetInv
  <1>2. ASSUME NEW k \in Keys, NEW ttl \in Ttls, Set(k, ttl) PROVE Inv'
    BY <1>2, SetInv
  <1>3. ASSUME NEW k \in Keys, Delete(k) PROVE Inv'
    <2>1. hits' \in Nat /\ misses' \in Nat
      BY <1>3 DEF Delete, Inv, TypeOK, stats
    <2>. QED
      BY <1>3, <2>1, KeepInv DEF Delete
  <1>4. ASSUME Clear PROVE Inv'
    <2>1. hits' \in Nat /\ misses' \in Nat /\ Cardinality({}) = 0
      BY <1>4, FS_EmptySet DEF Clear, Inv, TypeOK, stats
    <2>. QED
      BY <1>4, <2>1, KeepInv DEF Clear
  <1>5. ASSUME Cleanup PROVE Inv'
    <2>1. hits' \in Nat /\ misses' \in Nat
      BY <1>5 DEF Cleanup, Inv, TypeOK, stats
    <2>. QED
      BY <1>5, <2>1, KeepInv DEF Cleanup
  <1>6. ASSUME Tick \/ UNCHANGED vars PROVE Inv'
    BY <1>6 DEF Tick, vars, Inv, TypeOK, Bounded, stats
  <1>. QED
    BY <1>1, <1>2, <1>3, <1>4, <1>5, <1>6 DEF Next

THEOREM Invariance == Spec => []Inv
  BY InitInv, NextInv, PTL DEF Spec

(***************************************************************************)
(* The cache stays within its maximum, and its statistics report the       *)
(* number of entries it holds.                                             *)
(***************************************************************************)
THEOREM CacheBounded == Spec => []Bounded
  <1>1. Inv => Bounded
    BY DEF Inv
  <1>. QED
    BY <1>1, Invariance, PTL

(***************************************************************************)
(* A Set never drops an entry that was used after one it keeps, for any    *)
(* keys, any lifetimes and any maximum (cache.go:133).                     *)
(***************************************************************************)
THEOREM AlwaysEvictsLeastRecent == Spec => EvictsLeastRecent
  <1>1. ASSUME NEW k \in Keys, NEW ttl \in Ttls, Set(k, ttl),
               NEW gone \in items \ items', NEW stays \in items \intersect items', stays # k
        PROVE  accessedAt[gone] <= accessedAt[stays]
    <2>1. PICK R \in (IF Cardinality(items) >= MaxSize THEN Evicted(items) ELSE {items}) :
            items' = R \union {k}
      BY <1>1 DEF Set
    <2>2. gone \notin R /\ gone \in items
      BY <2>1
    <2>3. R \in Evicted(items)
      BY <2>1, <2>2
    <2>4. PICK m \in items : R = items \ {m} /\ \A j \in items : accessedAt[m] <= accessedAt[j]
      BY <2>2, <2>3 DEF Evicted
    <2>5. gone = m
      BY <2>2, <2>4
    <2>. QED
      BY <2>4, <2>5
  <1>2. \A k \in Keys, ttl \in Ttls : Set(k, ttl) =>
          \A gone \in items \ items', stays \in items \intersect items' :
            stays # k => accessedAt[gone] <= accessedAt[stays]
    BY <1>1
  <1>. QED
    BY <1>2, PTL DEF EvictsLeastRecent

-----------------------------------------------------------------------------
Parts == Languages \union Queries
ResultType == [key : Keys \union {NoKey}, answered : SUBSET Parts, errors : Nat, failed : SUBSET Parts]

CallType ==
  [pc : {"idle", "ask", "wait", "store", "stuck"}, key : Keys \union {NoKey}, todo : SUBSET Languages,
   answered : SUBSET Parts, errors : Nat, failed : SUBSET Parts,
   outcome : {"none", "ok", "error"}, result : ResultType]

LocalsOK ==
  /\ call \in CallType
  /\ value \in [Keys -> ResultType]
  /\ task \in [Queries -> [pc : {"none", "running", "append", "done", "stuck"}, seen : Nat]]

BusyHasKey == call.pc # "idle" => call.key \in Keys

EngineInv == Inv /\ LocalsOK /\ BusyHasKey

LEMMA EngineInitInv == EngineInit => EngineInv
  <1>. SUFFICES ASSUME EngineInit PROVE EngineInv
    OBVIOUS
  <1>1. Inv
    BY InitInv DEF EngineInit
  <1>2. Nothing \in ResultType
    BY DEF Nothing, ResultType
  <1>3. call \in CallType /\ call.pc = "idle"
    BY <1>2 DEF EngineInit, Idle, CallType
  <1>4. value \in [Keys -> ResultType] /\ task \in [Queries -> [pc : {"none", "running", "append", "done", "stuck"}, seen : Nat]]
    BY <1>2 DEF EngineInit, NoTask
  <1>. QED
    BY <1>1, <1>3, <1>4 DEF EngineInv, LocalsOK, BusyHasKey

(***************************************************************************)
(* Every step of the engine is a step of the cache or leaves it alone.     *)
(***************************************************************************)
LEMMA StepOfCache ==
  ASSUME Inv, BusyHasKey, [EngineNext]_engineVars
  PROVE  [Next]_vars
  <1>1. CASE EngineStep
    <2>1. CASE StoreResult
      BY <2>1, EngineAssumption DEF StoreResult, BusyHasKey, Next
    <2>2. CASE ~StoreResult
      <3>1. UNCHANGED cacheVars
        BY <1>1, <2>2 DEF EngineStep, CollectSymbols, SearchSymbol, StartQueries, ReportWorkspace, SymbolNotFound, AnalyzeAlone, Join, QuerySucceeds, QueryFails, AppendError
      <3>. QED
        BY <3>1 DEF cacheVars, vars
    <2>. QED
      BY <2>1, <2>2
  <1>2. CASE CacheStep
    <2>1. ASSUME NEW k \in items, Delete(k) PROVE [Next]_vars
      <3>1. k \in Keys
        BY DEF Inv, TypeOK
      <3>. QED
        BY <3>1, <2>1 DEF Next
    <2>. QED
      BY <1>2, <2>1 DEF CacheStep, Next
  <1>3. CASE \E k \in Keys : Analyze(k)
    BY <1>3 DEF Analyze, Next
  <1>4. CASE UNCHANGED engineVars
    BY <1>4 DEF engineVars, vars
  <1>5. CASE StuckStep
    <2>1. UNCHANGED cacheVars
      BY <1>5 DEF StuckStep, RequestSticks, QuerySticks
    <2>. QED
      BY <2>1 DEF cacheVars, vars
  <1>. QED
    BY <1>1, <1>2, <1>3, <1>4, <1>5 DEF EngineNext

(***************************************************************************)
(* A hit is an entry that is there; a miss leaves what is left of them.    *)
(***************************************************************************)
LEMMA GetEffect ==
  ASSUME Inv, NEW k \in Keys, Get(k)
  PROVE  /\ items' \subseteq items
         /\ hits' > hits => k \in items
  <1>1. CASE k \in items /\ ~Expired(k)
    BY <1>1 DEF Get
  <1>2. CASE ~(k \in items /\ ~Expired(k))
    BY <1>2 DEF Get, Keep, Inv, TypeOK
  <1>. QED
    BY <1>1, <1>2

LEMMA LocalsStep ==
  ASSUME EngineInv, EngineStep
  PROVE  LocalsOK' /\ BusyHasKey'
  <1>. /\ call \in CallType /\ value \in [Keys -> ResultType]
       /\ task \in [Queries -> [pc : {"none", "running", "append", "done", "stuck"}, seen : Nat]]
       /\ BusyHasKey
    BY DEF EngineInv, LocalsOK
  <1>1. ASSUME NEW l \in Languages, CollectSymbols(l) \/ SearchSymbol(l) PROVE LocalsOK' /\ BusyHasKey'
    <2>. l \in Parts
      BY DEF Parts
    <2>1. call' \in CallType /\ call'.key = call.key
      <3>1. CASE call' = [call EXCEPT !.todo = @ \ {l}, !.answered = @ \union {l}]
        BY <3>1 DEF CallType
      <3>2. CASE call' = [call EXCEPT !.todo = @ \ {l}]
        BY <3>2 DEF CallType
      <3>3. CASE AskFails(l)
        <4>1. call.errors + 1 \in Nat
          BY DEF CallType
        <4>. QED
          BY <3>3, <4>1 DEF AskFails, CallType
      <3>. QED
        BY <1>1, <3>1, <3>2, <3>3 DEF CollectSymbols, SearchSymbol
    <2>2. value' = value /\ task' = task /\ call.pc = "ask"
      BY <1>1 DEF CollectSymbols, SearchSymbol, Asking, Running, cacheVars
    <2>. QED
      BY <2>1, <2>2 DEF LocalsOK, BusyHasKey
  <1>8. CASE StartQueries
    <2>1. call' \in CallType /\ call'.key = call.key /\ call.pc = "ask"
      BY <1>8 DEF StartQueries, Asking, Running, CallType
    <2>2. task' \in [Queries -> [pc : {"none", "running", "append", "done", "stuck"}, seen : Nat]]
      BY <1>8 DEF StartQueries, NoTask
    <2>3. value' = value
      BY <1>8 DEF StartQueries, cacheVars
    <2>. QED
      BY <2>1, <2>2, <2>3 DEF LocalsOK, BusyHasKey
  <1>2. Result \in ResultType
    BY DEF Result, ResultType, CallType
  <1>3. ASSUME Complete PROVE call' \in CallType /\ call'.key = call.key
    BY <1>2, <1>3 DEF Complete, CallType
  <1>4. ASSUME Abandon(call.errors + 1) PROVE call' \in CallType /\ call'.key = call.key
    <2>1. call.errors + 1 \in Nat
      BY DEF CallType
    <2>2. CASE call' = [call EXCEPT !.pc = "store", !.errors = call.errors + 1, !.outcome = "error"]
      BY <2>1, <2>2 DEF CallType
    <2>3. CASE call' = [call EXCEPT !.pc = "idle", !.errors = call.errors + 1, !.outcome = "error"]
      BY <2>1, <2>3 DEF CallType
    <2>. QED
      BY <1>4, <2>2, <2>3 DEF Abandon
  <1>5. CASE ReportWorkspace \/ SymbolNotFound \/ AnalyzeAlone \/ Join
    <2>1. Complete \/ Abandon(call.errors + 1)
      BY <1>5 DEF ReportWorkspace, SymbolNotFound, AnalyzeAlone, Join
    <2>2. value' = value /\ task' = task /\ call.pc # "idle"
      BY <1>5 DEF ReportWorkspace, SymbolNotFound, AnalyzeAlone, Join, Running, cacheVars
    <2>. QED
      BY <2>1, <2>2, <1>3, <1>4 DEF LocalsOK, BusyHasKey
  <1>6. CASE StoreResult
    <2>1. call.result \in ResultType /\ Nothing \in ResultType
      BY DEF CallType, Nothing, ResultType
    <2>2. value' \in [Keys -> ResultType]
      BY <1>6, <2>1 DEF StoreResult
    <2>3. call' \in CallType /\ call'.pc = "idle" /\ task' = task
      BY <1>6 DEF StoreResult, CallType
    <2>. QED
      BY <2>2, <2>3 DEF LocalsOK, BusyHasKey
  <1>7. ASSUME NEW q \in Queries, QuerySucceeds(q) \/ QueryFails(q) \/ AppendError(q)
        PROVE  LocalsOK' /\ BusyHasKey'
    <2>. q \in Parts
      BY DEF Parts
    <2>. task[q].seen + 1 \in Nat /\ call.errors \in Nat
      BY DEF CallType
    <2>1. call' \in CallType /\ call'.key = call.key /\ call'.pc = call.pc
      <3>1. CASE call' = [call EXCEPT !.answered = @ \union {q}]
        BY <3>1 DEF CallType
      <3>2. CASE call' = [call EXCEPT !.errors = task[q].seen + 1, !.failed = @ \union {q}]
        BY <3>2 DEF CallType
      <3>. QED
        BY <1>7, <3>1, <3>2 DEF QuerySucceeds, QueryFails, AppendError
    <2>2. task' \in [Queries -> [pc : {"none", "running", "append", "done", "stuck"}, seen : Nat]]
      BY <1>7 DEF QuerySucceeds, QueryFails, AppendError
    <2>3. value' = value
      BY <1>7 DEF QuerySucceeds, QueryFails, AppendError, cacheVars
    <2>. QED
      BY <2>1, <2>2, <2>3 DEF LocalsOK, BusyHasKey
  <1>. QED
    BY <1>1, <1>5, <1>6, <1>7, <1>8 DEF EngineStep

(***************************************************************************)
(* A request that sticks changes nothing but where it is.                  *)
(***************************************************************************)
LEMMA StuckEffect ==
  ASSUME EngineInv, StuckStep
  PROVE  /\ UNCHANGED cacheVars /\ LocalsOK' /\ BusyHasKey'
         /\ \/ task' = task /\ call.pc = "ask" /\ call' = [call EXCEPT !.pc = "stuck"]
            \/ call' = call /\ \E q \in Queries : At(q, "running") /\ task' = [task EXCEPT ![q].pc = "stuck"]
  <1>. /\ call \in CallType /\ value \in [Keys -> ResultType]
       /\ task \in [Queries -> [pc : {"none", "running", "append", "done", "stuck"}, seen : Nat]]
       /\ BusyHasKey
    BY DEF EngineInv, LocalsOK
  <1>1. CASE RequestSticks
    <2>1. /\ task' = task /\ call.pc = "ask" /\ call' = [call EXCEPT !.pc = "stuck"]
          /\ UNCHANGED cacheVars
      BY <1>1 DEF RequestSticks, Running
    <2>2. call' \in CallType /\ call'.key = call.key
      BY <2>1 DEF CallType
    <2>. QED
      BY <2>1, <2>2 DEF LocalsOK, BusyHasKey, cacheVars
  <1>2. ASSUME NEW q \in Queries, QuerySticks(q)
        PROVE  /\ UNCHANGED cacheVars /\ LocalsOK' /\ BusyHasKey'
               /\ call' = call /\ At(q, "running") /\ task' = [task EXCEPT ![q].pc = "stuck"]
    <2>1. call' = call /\ task' = [task EXCEPT ![q].pc = "stuck"] /\ UNCHANGED cacheVars /\ At(q, "running")
      BY <1>2 DEF QuerySticks
    <2>2. task' \in [Queries -> [pc : {"none", "running", "append", "done", "stuck"}, seen : Nat]]
      BY <2>1
    <2>. QED
      BY <2>1, <2>2 DEF LocalsOK, BusyHasKey, cacheVars
  <1>. QED
    BY <1>1, <1>2 DEF StuckStep

LEMMA EngineNextInv == EngineInv /\ [EngineNext]_engineVars => EngineInv'
  <1>. SUFFICES ASSUME EngineInv, [EngineNext]_engineVars PROVE EngineInv'
    OBVIOUS
  <1>1. Inv'
    BY StepOfCache, NextInv DEF EngineInv
  <1>2. Nothing \in ResultType
    BY DEF Nothing, ResultType
  <1>3. ASSUME NEW k \in Keys, Analyze(k) PROVE LocalsOK' /\ BusyHasKey'
    <2>1. value[k] \in ResultType
      BY DEF EngineInv, LocalsOK
    <2>2. call' \in CallType /\ call'.key = k
      <3>1. CASE call' = [Idle EXCEPT !.key = k, !.outcome = "ok", !.result = value[k]]
        BY <3>1, <1>2, <2>1 DEF Idle, CallType
      <3>2. ASSUME NEW pc \in {"idle", "ask"}, NEW outcome \in {"none", "error"},
                   call' = [Idle EXCEPT !.key = k, !.todo = Languages, !.outcome = outcome, !.pc = pc]
            PROVE  call' \in CallType /\ call'.key = k
        BY <3>2, <1>2 DEF Idle, CallType
      <3>. QED
        BY <1>3, <3>1, <3>2 DEF Analyze
    <2>3. value' \in [Keys -> ResultType]
      BY <1>2, <1>3 DEF Analyze, DropValues, EngineInv, LocalsOK
    <2>4. task' \in [Queries -> [pc : {"none", "running", "append", "done", "stuck"}, seen : Nat]]
      BY <1>3 DEF Analyze, NoTask
    <2>. QED
      BY <2>2, <2>3, <2>4 DEF LocalsOK, BusyHasKey
  <1>4. ASSUME CacheStep PROVE LocalsOK' /\ BusyHasKey'
    BY <1>2, <1>4 DEF CacheStep, DropValues, EngineInv, LocalsOK, BusyHasKey
  <1>5. ASSUME UNCHANGED engineVars PROVE LocalsOK' /\ BusyHasKey'
    BY <1>5 DEF engineVars, EngineInv, LocalsOK, BusyHasKey
  <1>. QED
    BY <1>1, <1>3, <1>4, <1>5, LocalsStep, StuckEffect DEF EngineNext, EngineInv

THEOREM EngineInvariance == EngineSpec => []EngineInv
  BY EngineInitInv, EngineNextInv, PTL DEF EngineSpec

(***************************************************************************)
(* Analyze uses the cache as AnalysisCache specifies it (engine.go:96 and  *)
(* engine.go:140 are its only uses): every behaviour of the engine is one  *)
(* of the cache, so that the cache's bound holds under it.                 *)
(***************************************************************************)
THEOREM EngineUsesCache == EngineSpec => Spec
  <1>1. EngineInit => Init
    BY DEF EngineInit
  <1>2. EngineInv /\ [EngineNext]_engineVars => [Next]_vars
    BY StepOfCache DEF EngineInv
  <1>. QED
    BY <1>1, <1>2, EngineInvariance, PTL DEF EngineSpec, Spec

THEOREM EngineKeepsBound == EngineSpec => []Bounded
  BY EngineUsesCache, CacheBounded, PTL

(***************************************************************************)
(* The same of the cache in its use by Analyze.                            *)
(***************************************************************************)
THEOREM EngineEvictsLeastRecent == EngineSpec => EvictsLeastRecent
  BY EngineUsesCache, AlwaysEvictsLeastRecent

-----------------------------------------------------------------------------
(***************************************************************************)
(* The strengthening of SuccessHasResult: what is about to be stored, and  *)
(* what is stored, is a result of the request it is stored for.            *)
(***************************************************************************)
Answers ==
  /\ call.outcome = "ok" => call.result.key = call.key
  /\ call.pc = "store" => call.outcome = "ok"
  /\ \A k \in items : value[k].key = k

(***************************************************************************)
(* No error is tolerated: FilesScanned is never counted up, so the rate of *)
(* errors is one as soon as there is one.                                  *)
(***************************************************************************)
LEMMA NothingTolerated ==
  ASSUME ErrorThreshold < 100, NEW n \in Nat
  PROVE  ~HandleError(n + 1)
  BY EngineAssumption DEF HandleError

LEMMA AnswersStep ==
  ASSUME ErrorThreshold < 100, EngineInv, Answers, EngineStep
  PROVE  Answers'
  <1>. /\ call \in CallType /\ value \in [Keys -> ResultType] /\ BusyHasKey
       /\ items \in SUBSET Keys
    BY DEF EngineInv, LocalsOK, Inv, TypeOK
  <1>1. CASE StoreResult
    <2>1. call.key \in Keys /\ call.outcome = "ok" /\ call.result.key = call.key
      BY <1>1 DEF StoreResult, BusyHasKey, Answers
    <2>2. items' \subseteq items \union {call.key}
      BY <1>1 DEF StoreResult, Set, Evicted
    <2>3. \A k \in items' : value'[k].key = k
      BY <1>1, <2>1, <2>2 DEF StoreResult, Answers
    <2>4. call'.pc = "idle" /\ call'.result = call.result /\ call'.key = call.key
      BY <1>1 DEF StoreResult, CallType
    <2>. QED
      BY <2>1, <2>3, <2>4 DEF Answers
  <1>2. CASE ~StoreResult
    <2>1. items' = items /\ value' = value
      BY <1>2 DEF EngineStep, CollectSymbols, SearchSymbol, StartQueries, ReportWorkspace, SymbolNotFound, AnalyzeAlone, Join, QuerySucceeds, QueryFails, AppendError, cacheVars
    <2>2. CASE Complete
      <3>1. call'.outcome = "ok" /\ call'.result.key = call.key /\ call'.key = call.key
        BY <2>2 DEF Complete, Result, CallType
      <3>. QED
        BY <2>1, <3>1 DEF Answers
    <2>3. CASE Abandon(call.errors + 1)
      <3>1. ~HandleError(call.errors + 1)
        BY NothingTolerated DEF CallType
      <3>2. call'.pc = "idle" /\ call'.outcome = "error"
        BY <2>3, <3>1 DEF Abandon, CallType
      <3>. QED
        BY <2>1, <3>2 DEF Answers
    <2>4. ASSUME StartQueries \/ \E l \in Languages : CollectSymbols(l) \/ SearchSymbol(l) PROVE Answers'
      <3>1. call'.pc # "store" /\ call'.outcome = call.outcome /\ call'.result = call.result /\ call'.key = call.key
        BY <2>4 DEF StartQueries, CollectSymbols, SearchSymbol, AskFails, Asking, Running, CallType
      <3>. QED
        BY <2>1, <3>1 DEF Answers
    <2>5. ASSUME NEW q \in Queries, QuerySucceeds(q) \/ QueryFails(q) \/ AppendError(q) PROVE Answers'
      <3>1. call'.pc = call.pc /\ call'.outcome = call.outcome /\ call'.result = call.result /\ call'.key = call.key
        BY <2>5 DEF QuerySucceeds, QueryFails, AppendError, CallType
      <3>. QED
        BY <2>1, <3>1 DEF Answers
    <2>. QED
      BY <1>2, <2>2, <2>3, <2>4, <2>5 DEF EngineStep, ReportWorkspace, SymbolNotFound, AnalyzeAlone, Join
  <1>. QED
    BY <1>1, <1>2

LEMMA AnswersNext ==
  ASSUME ErrorThreshold < 100, EngineInv, Answers, [EngineNext]_engineVars
  PROVE  Answers'
  <1>. items \in SUBSET Keys /\ value \in [Keys -> ResultType]
    BY DEF EngineInv, LocalsOK, Inv, TypeOK
  <1>1. ASSUME NEW k \in Keys, Analyze(k) PROVE Answers'
    <2>1. items' \subseteq items /\ (hits' > hits => k \in items)
      BY <1>1, GetEffect DEF EngineInv, Analyze
    <2>2. \A j \in items' : value'[j] = value[j]
      BY <1>1, <2>1 DEF Analyze, DropValues
    <2>3. CASE hits' > hits
      <3>1. call'.pc = "idle" /\ call'.key = k /\ call'.result = value[k]
        BY <1>1, <2>3 DEF Analyze, Idle
      <3>. QED
        BY <2>1, <2>2, <2>3, <3>1 DEF Answers
    <2>4. CASE ~(hits' > hits)
      <3>1. call'.pc # "store" /\ call'.outcome # "ok"
        BY <1>1, <2>4 DEF Analyze, Idle
      <3>. QED
        BY <2>1, <2>2, <3>1 DEF Answers
    <2>. QED
      BY <2>3, <2>4
  <1>2. ASSUME CacheStep PROVE Answers'
    <2>1. items' \subseteq items /\ call' = call
      BY <1>2 DEF CacheStep, Cleanup, Tick, Clear, Delete, Keep
    <2>. QED
      BY <1>2, <2>1 DEF CacheStep, DropValues, Answers
  <1>3. ASSUME UNCHANGED engineVars PROVE Answers'
    BY <1>3 DEF engineVars, Answers
  <1>4. ASSUME StuckStep PROVE Answers'
    <2>1. UNCHANGED cacheVars
      BY <1>4, StuckEffect
    <2>2. /\ call'.outcome = call.outcome /\ call'.result = call.result /\ call'.key = call.key
          /\ call'.pc = "store" => call.pc = "store"
      BY <1>4, StuckEffect DEF EngineInv, LocalsOK, CallType
    <2>. QED
      BY <2>1, <2>2 DEF Answers, cacheVars
  <1>. QED
    BY <1>1, <1>2, <1>3, <1>4, AnswersStep DEF EngineNext

(***************************************************************************)
(* With a threshold below 100 percent, as NewProjectAnalyzer has it, a     *)
(* call that reports no error returns a result of its own request, for any *)
(* requests, languages and sizes of the cache.                             *)
(***************************************************************************)
THEOREM SuccessAlwaysHasResult ==
  ASSUME ErrorThreshold < 100
  PROVE  EngineSpec => []SuccessHasResult
  <1>1. EngineInit => Answers
    BY DEF EngineInit, Init, Idle, Answers
  <1>2. EngineInv /\ Answers /\ [EngineNext]_engineVars => Answers'
    BY AnswersNext
  <1>3. Answers => SuccessHasResult
    BY DEF Answers, SuccessHasResult
  <1>. QED
    BY <1>1, <1>2, <1>3, EngineInvariance, PTL DEF EngineSpec

-----------------------------------------------------------------------------
(***************************************************************************)
(* The strengthening of PartialIsMarked.  While a call runs, there is an   *)
(* error if anything has failed and no more errors than failures, although *)
(* the goroutines write their errors over each other: a goroutine that is  *)
(* about to append has read a number that was no more than the failures    *)
(* then, and it will be one of the failures itself.                        *)
(***************************************************************************)
Marked ==
  /\ call.errors <= Cardinality(call.failed)
  /\ call.failed # {} => call.errors > 0

AskAccounts ==
  call.pc = "ask" =>
    /\ Marked
    /\ call.failed \subseteq Languages /\ call.failed \intersect call.todo = {}
    /\ KindOf[call.key] = "workspace" => Languages \subseteq call.todo \union call.answered \union call.failed

WaitAccounts ==
  call.pc = "wait" =>
    /\ Marked
    /\ KindOf[call.key] = "relationships"
    /\ \A q \in Queries :
         /\ task[q].pc \in {"running", "append"} => q \notin call.failed
         /\ task[q].pc = "append" => task[q].seen <= Cardinality(call.failed)
         /\ task[q].pc = "done" => q \in call.answered \union call.failed

\* The goroutines run while Analyze waits for them.
TasksWaitedFor == \A q \in Queries : task[q].pc \in {"running", "append"} => call.pc = "wait"

\* A result is marked where it lacks an answer, and has no error too many.
MarkedResult(r) ==
  /\ ~(Expected(r.key) \subseteq r.answered) => r.errors > 0
  /\ r.errors <= Cardinality(r.failed)

ResultsMarked ==
  /\ call.result = Nothing \/ MarkedResult(call.result)
  /\ \A k \in items : value[k] = Nothing \/ MarkedResult(value[k])

MarkedInv == AskAccounts /\ WaitAccounts /\ TasksWaitedFor /\ ResultsMarked

\* One more failure is one more.
LEMMA OneMoreFailure ==
  ASSUME NEW F \in SUBSET Parts
  PROVE  /\ Cardinality(F) \in Nat
         /\ \A x : Cardinality(F \union {x}) = IF x \in F THEN Cardinality(F) ELSE Cardinality(F) + 1
  <1>1. IsFiniteSet(F)
    <2>1. IsFiniteSet(Parts)
      BY EngineAssumption, FS_Union DEF Parts
    <2>. QED
      BY <2>1, FS_Subset
  <1>. QED
    BY <1>1, FS_AddElement, FS_CardinalityType

(***************************************************************************)
(* The languages are asked one after the other, so that their errors add   *)
(* up.                                                                     *)
(***************************************************************************)
LEMMA AskMarked ==
  ASSUME EngineInv, MarkedInv, NEW l \in Languages, CollectSymbols(l) \/ SearchSymbol(l)
  PROVE  MarkedInv'
  <1>. call \in CallType /\ MarkedInv
    BY DEF EngineInv, LocalsOK
  <1>1. /\ task' = task /\ items' = items /\ value' = value
        /\ call.pc = "ask" /\ l \in call.todo
    BY DEF CollectSymbols, SearchSymbol, Asking, Running, cacheVars
  <1>2. /\ call'.pc = "ask" /\ call'.key = call.key /\ call'.result = call.result
        /\ call'.todo = call.todo \ {l}
    BY <1>1 DEF CollectSymbols, SearchSymbol, AskFails, CallType
  <1>3. AskAccounts'
    <2>1. CASE AskFails(l)
      <3>1. /\ call'.errors = call.errors + 1 /\ call'.failed = call.failed \union {l}
            /\ call'.answered = call.answered
        BY <2>1 DEF AskFails, CallType
      <3>2. l \notin call.failed /\ call.failed \in SUBSET Parts /\ call.errors \in Nat
        BY <1>1 DEF MarkedInv, AskAccounts, CallType
      <3>3. Marked'
        BY <1>1, <3>1, <3>2, OneMoreFailure DEF MarkedInv, AskAccounts, Marked
      <3>. QED
        BY <1>1, <1>2, <3>1, <3>3 DEF MarkedInv, AskAccounts
    <2>2. CASE call' = [call EXCEPT !.todo = @ \ {l}, !.answered = @ \union {l}]
      <3>1. call'.errors = call.errors /\ call'.failed = call.failed /\ call'.answered = call.answered \union {l}
        BY <2>2 DEF CallType
      <3>. QED
        BY <1>1, <1>2, <3>1 DEF MarkedInv, AskAccounts, Marked
    <2>3. CASE KindOf[call.key] = "relationships" /\ call' = [call EXCEPT !.todo = @ \ {l}]
      <3>1. call'.errors = call.errors /\ call'.failed = call.failed /\ call'.answered = call.answered
        BY <2>3 DEF CallType
      <3>. QED
        BY <1>1, <1>2, <2>3, <3>1 DEF MarkedInv, AskAccounts, Marked
    <2>. QED
      BY <2>1, <2>2, <2>3 DEF CollectSymbols, SearchSymbol, Asking, Running
  <1>4. WaitAccounts' /\ TasksWaitedFor'
    BY <1>1, <1>2 DEF MarkedInv, WaitAccounts, TasksWaitedFor
  <1>5. ResultsMarked'
    BY <1>1, <1>2 DEF MarkedInv, ResultsMarked, MarkedResult
  <1>. QED
    BY <1>3, <1>4, <1>5 DEF MarkedInv

\* What a step of a goroutine leaves to the others.
LEMMA TaskMoves ==
  ASSUME EngineInv, NEW q \in Queries, NEW label \in {"done", "append"}, NEW seen \in Nat,
         \/ task' = [task EXCEPT ![q].pc = label]
         \/ task' = [task EXCEPT ![q] = [pc |-> label, seen |-> seen]]
  PROVE  task'[q].pc = label /\ \A p \in Queries \ {q} : task'[p] = task[p]
  BY DEF EngineInv, LocalsOK

(***************************************************************************)
(* The goroutines: what each has read stays below the failures, which only *)
(* become more.                                                            *)
(***************************************************************************)
LEMMA QueriesMarked ==
  ASSUME EngineInv, MarkedInv, NEW q \in Queries, QuerySucceeds(q) \/ QueryFails(q) \/ AppendError(q)
  PROVE  MarkedInv'
  <1>. call \in CallType /\ MarkedInv
    BY DEF EngineInv, LocalsOK
  <1>1. \A p \in Queries : task[p].seen \in Nat
    BY DEF EngineInv, LocalsOK
  <1>2. /\ items' = items /\ value' = value
        /\ task[q].pc \in {"running", "append"} /\ call.pc = "wait"
    <2>1. task[q].pc \in {"running", "append"}
      BY DEF QuerySucceeds, QueryFails, AppendError, At
    <2>. QED
      BY <2>1 DEF QuerySucceeds, QueryFails, AppendError, cacheVars, MarkedInv, TasksWaitedFor
  <1>3. call'.pc = "wait" /\ call'.key = call.key /\ call'.result = call.result
    BY <1>2 DEF QuerySucceeds, QueryFails, AppendError, CallType
  <1>4. /\ q \notin call.failed /\ call.failed \in SUBSET Parts
        /\ call.errors \in Nat /\ Cardinality(call.failed) \in Nat
    BY <1>2, OneMoreFailure DEF MarkedInv, WaitAccounts, CallType
  <1>5. WaitAccounts'
    <2>1. CASE QuerySucceeds(q)
      <3>1. call'.errors = call.errors /\ call'.failed = call.failed /\ call'.answered = call.answered \union {q}
        BY <2>1 DEF QuerySucceeds, CallType
      <3>2. task'[q].pc = "done" /\ \A p \in Queries \ {q} : task'[p] = task[p]
        BY <2>1, TaskMoves DEF QuerySucceeds
      <3>. QED
        BY <1>2, <1>3, <3>1, <3>2 DEF MarkedInv, WaitAccounts, Marked
    <2>2. CASE QueryFails(q)
      <3>1. call' = call /\ task' = [task EXCEPT ![q] = [pc |-> "append", seen |-> call.errors]]
        BY <2>2 DEF QueryFails
      <3>2. task'[q].pc = "append" /\ \A p \in Queries \ {q} : task'[p] = task[p]
        BY <1>4, <3>1, TaskMoves
      <3>3. task'[q].seen = call.errors
        BY <3>1 DEF EngineInv, LocalsOK
      <3>. QED
        BY <1>2, <1>4, <3>1, <3>2, <3>3 DEF MarkedInv, WaitAccounts, Marked
    <2>3. CASE AppendError(q)
      <3>1. /\ call'.errors = task[q].seen + 1 /\ call'.failed = call.failed \union {q}
            /\ call'.answered = call.answered /\ task[q].pc = "append"
        BY <2>3 DEF AppendError, At, CallType
      <3>2. task'[q].pc = "done" /\ \A p \in Queries \ {q} : task'[p] = task[p]
        BY <2>3, TaskMoves DEF AppendError
      <3>3. task[q].seen <= Cardinality(call.failed) /\ Cardinality(call'.failed) = Cardinality(call.failed) + 1
        BY <1>2, <1>4, <3>1, OneMoreFailure DEF MarkedInv, WaitAccounts
      <3>4. Marked'
        BY <1>1, <1>4, <3>1, <3>3 DEF Marked
      <3>5. ASSUME NEW p \in Queries \ {q}, task[p].pc = "append" PROVE task[p].seen <= Cardinality(call'.failed)
        BY <1>1, <1>2, <1>4, <3>3, <3>5 DEF MarkedInv, WaitAccounts
      <3>. QED
        BY <1>2, <1>3, <3>1, <3>2, <3>4, <3>5 DEF MarkedInv, WaitAccounts
    <2>. QED
      BY <2>1, <2>2, <2>3
  <1>6. AskAccounts' /\ TasksWaitedFor'
    BY <1>3 DEF AskAccounts, TasksWaitedFor
  <1>7. ResultsMarked'
    BY <1>2, <1>3 DEF MarkedInv, ResultsMarked, MarkedResult
  <1>. QED
    BY <1>5, <1>6, <1>7 DEF MarkedInv

LEMMA StartMarked ==
  ASSUME EngineInv, MarkedInv, StartQueries
  PROVE  MarkedInv'
  <1>. call \in CallType /\ MarkedInv
    BY DEF EngineInv, LocalsOK
  <1>1. /\ items' = items /\ value' = value
        /\ call.pc = "ask" /\ KindOf[call.key] = "relationships"
    BY DEF StartQueries, Asking, Running, cacheVars
  <1>2. /\ call'.pc = "wait" /\ call'.key = call.key /\ call'.result = call.result
        /\ call'.errors = call.errors /\ call'.failed = call.failed
    BY DEF StartQueries, CallType
  <1>3. \A q \in Queries : task'[q].pc = "running"
    BY DEF StartQueries, NoTask
  <1>4. \A q \in Queries : q \notin call.failed
    BY <1>1, EngineAssumption DEF MarkedInv, AskAccounts
  <1>5. WaitAccounts'
    BY <1>1, <1>2, <1>3, <1>4 DEF MarkedInv, AskAccounts, WaitAccounts, Marked
  <1>6. AskAccounts' /\ TasksWaitedFor'
    BY <1>2 DEF AskAccounts, TasksWaitedFor
  <1>7. ResultsMarked'
    BY <1>1, <1>2 DEF MarkedInv, ResultsMarked, MarkedResult
  <1>. QED
    BY <1>5, <1>6, <1>7 DEF MarkedInv

(***************************************************************************)
(* A call that is complete has an answer or a failure of each it asked; an *)
(* abandoned one keeps the result it had, which is none.                   *)
(***************************************************************************)
LEMMA EndMarked ==
  ASSUME EngineInv, MarkedInv, ReportWorkspace \/ SymbolNotFound \/ AnalyzeAlone \/ Join
  PROVE  MarkedInv'
  <1>. call \in CallType /\ MarkedInv
    BY DEF EngineInv, LocalsOK
  <1>1. task' = task /\ items' = items /\ value' = value
    BY DEF ReportWorkspace, SymbolNotFound, AnalyzeAlone, Join, cacheVars
  <1>2. \A q \in Queries : task[q].pc \notin {"running", "append"}
    <2>1. CASE Join
      BY <2>1 DEF Join, At
    <2>2. CASE call.pc = "ask"
      BY <2>2 DEF MarkedInv, TasksWaitedFor
    <2>. QED
      BY <2>1, <2>2 DEF ReportWorkspace, SymbolNotFound, AnalyzeAlone, Running
  <1>3. call'.pc \notin {"ask", "wait"} /\ (call'.result = Nothing \/ MarkedResult(call'.result))
    <2>1. ASSUME Abandon(call.errors + 1)
          PROVE  call'.pc \notin {"ask", "wait"} /\ call'.result = call.result
      BY <2>1 DEF Abandon, CallType
    <2>2. ASSUME Complete
          PROVE  call'.pc = "store" /\ call'.result = Result
      BY <2>2 DEF Complete, CallType
    <2>3. ASSUME Complete PROVE MarkedResult(Result)
      <3>1. Marked
        BY DEF MarkedInv, AskAccounts, WaitAccounts, ReportWorkspace, SymbolNotFound, AnalyzeAlone, Join, Running
      <3>2. Expected(call.key) \subseteq call.answered \union call.failed
        <4>1. CASE ReportWorkspace
          BY <4>1 DEF ReportWorkspace, Running, MarkedInv, AskAccounts, Expected
        <4>2. CASE Join
          BY <4>2 DEF Join, At, MarkedInv, WaitAccounts, Expected
        <4>3. CASE AnalyzeAlone
          BY <4>3 DEF AnalyzeAlone, Running, Expected
        <4>4. CASE SymbolNotFound
          <5>1. call'.result = call.result /\ call'.outcome = "error"
            BY <4>4 DEF SymbolNotFound, Abandon, CallType
          <5>2. call'.outcome = "ok"
            BY <2>3 DEF Complete, CallType
          <5>. QED
            BY <5>1, <5>2
        <4>. QED
          BY <4>1, <4>2, <4>3, <4>4
      <3>. QED
        BY <3>1, <3>2 DEF Marked, MarkedResult, Result
    <2>4. Complete \/ Abandon(call.errors + 1)
      BY DEF ReportWorkspace, SymbolNotFound, AnalyzeAlone, Join
    <2>. QED
      BY <2>1, <2>2, <2>3, <2>4 DEF MarkedInv, ResultsMarked
  <1>4. AskAccounts' /\ WaitAccounts' /\ TasksWaitedFor'
    BY <1>1, <1>2, <1>3 DEF AskAccounts, WaitAccounts, TasksWaitedFor
  <1>5. ResultsMarked'
    BY <1>1, <1>3 DEF MarkedInv, ResultsMarked, MarkedResult
  <1>. QED
    BY <1>4, <1>5 DEF MarkedInv

LEMMA StoreMarked ==
  ASSUME EngineInv, MarkedInv, StoreResult
  PROVE  MarkedInv'
  <1>. call \in CallType /\ MarkedInv /\ items \in SUBSET Keys
    BY DEF EngineInv, LocalsOK, Inv, TypeOK
  <1>1. call'.pc = "idle" /\ call'.result = call.result /\ task' = task /\ call.pc = "store"
    BY DEF StoreResult, CallType
  <1>2. items' \subseteq items \union {call.key} /\ call.key \in Keys
    BY <1>1 DEF StoreResult, Set, Evicted, EngineInv, BusyHasKey
  <1>3. \A k \in items' : value'[k] = IF k = call.key THEN call.result ELSE value[k]
    BY <1>2 DEF StoreResult
  <1>4. ResultsMarked'
    BY <1>1, <1>2, <1>3 DEF MarkedInv, ResultsMarked, MarkedResult
  <1>5. AskAccounts' /\ WaitAccounts' /\ TasksWaitedFor'
    BY <1>1 DEF MarkedInv, AskAccounts, WaitAccounts, TasksWaitedFor
  <1>. QED
    BY <1>4, <1>5 DEF MarkedInv

LEMMA AnalyzeMarked ==
  ASSUME EngineInv, MarkedInv, NEW k \in Keys, Analyze(k)
  PROVE  MarkedInv'
  <1>. MarkedInv /\ items \in SUBSET Keys
    BY DEF EngineInv, Inv, TypeOK
  <1>1. items' \subseteq items /\ (hits' > hits => k \in items)
    BY GetEffect DEF EngineInv, Analyze
  <1>2. \A j \in items' : value'[j] = value[j]
    BY <1>1 DEF Analyze, DropValues
  <1>3. \A q \in Queries : task'[q].pc = "none"
    BY DEF Analyze, NoTask
  <1>4. /\ call'.pc \in {"idle", "ask"} /\ call'.errors = 0 /\ call'.failed = {}
        /\ call'.pc = "ask" => call'.todo = Languages
        /\ call'.result = Nothing \/ (hits' > hits /\ call'.result = value[k])
    <2>1. CASE hits' > hits
      BY <2>1 DEF Analyze, Idle
    <2>2. ASSUME NEW pc \in {"idle", "ask"}, NEW outcome \in {"none", "error"},
                 call' = [Idle EXCEPT !.key = k, !.todo = Languages, !.outcome = outcome, !.pc = pc]
          PROVE  /\ call'.pc \in {"idle", "ask"} /\ call'.errors = 0 /\ call'.failed = {}
                 /\ call'.todo = Languages /\ call'.result = Nothing
      BY <2>2 DEF Idle
    <2>. QED
      BY <2>1, <2>2 DEF Analyze
  <1>5. ResultsMarked'
    BY <1>1, <1>2, <1>4 DEF MarkedInv, ResultsMarked, MarkedResult
  <1>6. AskAccounts' /\ WaitAccounts' /\ TasksWaitedFor'
    BY <1>3, <1>4, FS_EmptySet DEF AskAccounts, WaitAccounts, TasksWaitedFor, Marked
  <1>. QED
    BY <1>5, <1>6 DEF MarkedInv

LEMMA StuckMarked ==
  ASSUME EngineInv, MarkedInv, StuckStep
  PROVE  MarkedInv'
  <1>. call \in CallType /\ MarkedInv /\ \A q \in Queries : task[q] \in [pc : {"none", "running", "append", "done", "stuck"}, seen : Nat]
    BY DEF EngineInv, LocalsOK
  <1>1. items' = items /\ value' = value
    BY StuckEffect DEF cacheVars
  <1>2. CASE task' = task /\ call.pc = "ask" /\ call' = [call EXCEPT !.pc = "stuck"]
    <2>1. call'.pc = "stuck" /\ call'.result = call.result
      BY <1>2 DEF CallType
    <2>2. AskAccounts' /\ WaitAccounts' /\ TasksWaitedFor'
      BY <1>2, <2>1 DEF MarkedInv, AskAccounts, WaitAccounts, TasksWaitedFor
    <2>3. ResultsMarked'
      BY <1>1, <2>1 DEF MarkedInv, ResultsMarked, MarkedResult
    <2>. QED
      BY <2>2, <2>3 DEF MarkedInv
  <1>3. ASSUME NEW q \in Queries, call' = call, task' = [task EXCEPT ![q].pc = "stuck"]
        PROVE  MarkedInv'
    <2>1. task'[q].pc = "stuck" /\ \A p \in Queries \ {q} : task'[p] = task[p]
      BY <1>3 DEF EngineInv, LocalsOK
    <2>2. AskAccounts' /\ TasksWaitedFor' /\ ResultsMarked'
      BY <1>1, <1>3, <2>1 DEF MarkedInv, AskAccounts, TasksWaitedFor, Marked, ResultsMarked, MarkedResult
    <2>3. WaitAccounts'
      BY <1>3, <2>1 DEF MarkedInv, WaitAccounts, Marked
    <2>. QED
      BY <2>2, <2>3 DEF MarkedInv
  <1>. QED
    BY <1>2, <1>3, StuckEffect

LEMMA MarkedNext ==
  ASSUME EngineInv, MarkedInv, [EngineNext]_engineVars
  PROVE  MarkedInv'
  <1>1. ASSUME EngineStep PROVE MarkedInv'
    BY <1>1, AskMarked, QueriesMarked, StartMarked, EndMarked, StoreMarked DEF EngineStep
  <1>2. ASSUME CacheStep PROVE MarkedInv'
    <2>1. items' \subseteq items /\ call' = call /\ task' = task
      BY <1>2 DEF CacheStep, Cleanup, Tick, Clear, Delete, Keep
    <2>2. \A k \in items' : value'[k] = value[k]
      BY <1>2, <2>1 DEF CacheStep, DropValues, EngineInv, Inv, TypeOK
    <2>3. ResultsMarked'
      BY <2>1, <2>2 DEF MarkedInv, ResultsMarked, MarkedResult
    <2>. QED
      BY <2>1, <2>3 DEF MarkedInv, AskAccounts, WaitAccounts, TasksWaitedFor, Marked
  <1>3. ASSUME UNCHANGED engineVars PROVE MarkedInv'
    BY <1>3 DEF engineVars, MarkedInv, AskAccounts, WaitAccounts, TasksWaitedFor, Marked, ResultsMarked, MarkedResult
  <1>. QED
    BY <1>1, <1>2, <1>3, AnalyzeMarked, StuckMarked DEF EngineNext

(***************************************************************************)
(* A result without the answer of a language or of a query has an error in *)
(* its metadata, and never more errors than failures, for any number of    *)
(* languages and queries and any order of their unlocked appends           *)
(* (errors.go:37).                                                        *)
(***************************************************************************)
THEOREM PartialAlwaysMarked == EngineSpec => []PartialIsMarked
  <1>1. EngineInit => MarkedInv
    BY DEF EngineInit, Init, Idle, NoTask, MarkedInv, AskAccounts, WaitAccounts, TasksWaitedFor, ResultsMarked
  <1>2. EngineInv /\ MarkedInv /\ [EngineNext]_engineVars => MarkedInv'
    BY MarkedNext
  <1>3. MarkedInv => PartialIsMarked
    BY DEF MarkedInv, ResultsMarked, MarkedResult, PartialIsMarked
  <1>. QED
    BY <1>1, <1>2, <1>3, EngineInvariance, PTL DEF EngineSpec

=============================================================================
