--------------------------- MODULE AnalysisEngine ---------------------------
(***************************************************************************)
(* ProjectAnalyzer.Analyze (analysis/engine.go) over its cache: a request  *)
(* is answered from the cache or by asking the language clients, one after *)
(* the other for a workspace or a symbol, then five at once for the        *)
(* relationships of the symbol.  Errors are recorded in the metadata and   *)
(* tolerated or not (analysis/errors.go).                                  *)
(***************************************************************************)
EXTENDS AnalysisCache

CONSTANTS
  Languages,        \* the languages of a.clients
  Queries,          \* the five goroutines of analyzeSymbolRelationships
  Remote,           \* those that ask the server: findTypeHierarchy does not
  KindOf,           \* KindOf[k]: the type of the request with cache key k
  Lifetime,         \* of a stored result
  MaxErrors, ErrorThreshold, ContinueOnError, \* of the error handler, the threshold in percent
  NoKey

Kinds == {"workspace", "relationships", "file", "patterns", "other"}

ASSUME EngineAssumption ==
  /\ KindOf \in [Keys -> Kinds] /\ Lifetime \in Ttls /\ NoKey \notin Keys
  /\ IsFiniteSet(Languages) /\ IsFiniteSet(Queries) /\ Languages \intersect Queries = {}
  /\ Remote \subseteq Queries
  /\ MaxErrors \in Nat /\ ErrorThreshold \in Nat /\ ContinueOnError \in BOOLEAN

VARIABLES
  value,  \* the value of each entry of the cache
  call,   \* the locals of Analyze
  task    \* each goroutine: where it is, and the number of errors it has read

engineVars == <<items, expiresAt, accessedAt, now, size, hits, misses, value, call, task>>

\* A result; a nil *AnalysisResult is one that answers no request.
Nothing == [key |-> NoKey, answered |-> {}, errors |-> 0, failed |-> {}]

NoTask == [pc |-> "none", seen |-> 0]

(***************************************************************************)
(* todo and answered are languages or queries; errors is the length of     *)
(* metadata.Errors; failed is a history variable: what really failed.      *)
(***************************************************************************)
Idle == [pc |-> "idle", key |-> NoKey, todo |-> {}, answered |-> {}, errors |-> 0, failed |-> {},
         outcome |-> "none", result |-> Nothing]

EngineInit ==
  /\ Init
  /\ value = [k \in Keys |-> Nothing]
  /\ call = Idle
  /\ task = [q \in Queries |-> NoTask]

cacheVars == <<items, expiresAt, accessedAt, now, size, hits, misses, value>>

Running(kind) == call.pc = "ask" /\ KindOf[call.key] = kind

\* An entry that goes takes its value with it.
DropValues == value' = [k \in Keys |-> IF k \in items' THEN value[k] ELSE Nothing]

\* Get finds an entry, a nil result included, or the analysis begins.
Analyze(k) ==
  /\ call.pc = "idle"
  /\ Get(k)
  /\ call' = IF hits' > hits
             THEN [Idle EXCEPT !.key = k, !.outcome = "ok", !.result = value[k]]
             ELSE [Idle EXCEPT !.key = k, !.todo = Languages, !.outcome = IF KindOf[k] = "other" THEN "error" ELSE "none",
                               !.pc = IF KindOf[k] = "other" THEN "idle" ELSE "ask"]
  /\ task' = [q \in Queries |-> NoTask]
  /\ DropValues

\* Mutant: errors count as tolerable up to the maximum, whatever their rate.
Tolerated(errors) == ContinueOnError /\ errors < MaxErrors

\* HandleError, told of the error that makes "errors": FilesScanned is 0.
HandleError(errors) ==
  /\ errors < MaxErrors
  /\ errors > 0 => 100 <= ErrorThreshold
  /\ ContinueOnError

Result == [key |-> call.key, answered |-> call.answered, errors |-> call.errors, failed |-> call.failed]

\* Without a result the request is over, or nil is stored for it.
Abandon(errors) ==
  call' = IF HandleError(errors)
          THEN [call EXCEPT !.pc = "store", !.errors = errors, !.outcome = "error"]
          ELSE [call EXCEPT !.pc = "idle", !.errors = errors, !.outcome = "error"]

Complete == call' = [call EXCEPT !.pc = "store", !.outcome = "ok", !.result = Result]

Asking(l, kind) == Running(kind) /\ l \in call.todo

\* The error of a language is recorded; the verdict on it is not looked at.
AskFails(l) == call' = [call EXCEPT !.todo = @ \ {l}, !.errors = @ + 1, !.failed = @ \union {l}]

\* analyzeWorkspace collects the symbols of every language.
CollectSymbols(l) ==
  /\ Asking(l, "workspace")
  /\ \/ call' = [call EXCEPT !.todo = @ \ {l}, !.answered = @ \union {l}]
     \/ AskFails(l)
  /\ UNCHANGED <<cacheVars, task>>

ReportWorkspace ==
  /\ Running("workspace") /\ call.todo = {}
  /\ Complete
  /\ UNCHANGED <<cacheVars, task>>

\* analyzeSymbolRelationships searches until a language has the symbol.
SearchSymbol(l) ==
  /\ Asking(l, "relationships")
  /\ \/ call' = [call EXCEPT !.todo = @ \ {l}]
     \/ AskFails(l)
  /\ UNCHANGED <<cacheVars, task>>

StartQueries ==
  /\ \E l \in Languages : Asking(l, "relationships")
  /\ call' = [call EXCEPT !.pc = "wait", !.todo = {}]
  /\ task' = [q \in Queries |-> [NoTask EXCEPT !.pc = "running"]]
  /\ UNCHANGED cacheVars

SymbolNotFound ==
  /\ Running("relationships") /\ call.todo = {}
  /\ Abandon(call.errors + 1)
  /\ UNCHANGED <<cacheVars, task>>

\* No language or client for the file, or an unsupported pattern; symbols that
\* cannot be had are an empty list.
AnalyzeAlone ==
  /\ Running("file") \/ Running("patterns")
  /\ Complete \/ Abandon(call.errors + 1)
  /\ UNCHANGED <<cacheVars, task>>

\* Sending has no timeout (client.go:439): a server that no longer reads may
\* hold a request for good.
RequestSticks ==
  /\ \/ (Running("workspace") \/ Running("relationships")) /\ call.todo # {}
     \/ Running("file")
  /\ call' = [call EXCEPT !.pc = "stuck"]
  /\ UNCHANGED <<cacheVars, task>>

-----------------------------------------------------------------------------
At(q, label) == task[q].pc = label

\* The same of a goroutine that asks the server.
QuerySticks(q) ==
  /\ At(q, "running") /\ q \in Remote
  /\ task' = [task EXCEPT ![q].pc = "stuck"]
  /\ UNCHANGED <<cacheVars, call>>

\* A query that succeeded fills its own variable, under a lock.
QuerySucceeds(q) ==
  /\ At(q, "running")
  /\ task' = [task EXCEPT ![q].pc = "done"]
  /\ call' = [call EXCEPT !.answered = @ \union {q}]
  /\ UNCHANGED cacheVars

\* HandleError appends without a lock: it reads the errors, then writes them.
QueryFails(q) ==
  /\ At(q, "running") /\ q \in Remote
  /\ task' = [task EXCEPT ![q] = [pc |-> "append", seen |-> call.errors]]
  /\ UNCHANGED <<cacheVars, call>>

\* Mutant: a goroutine that failed returns without telling the wait group.
AppendAndHang(q) ==
  /\ At(q, "append")
  /\ task' = [task EXCEPT ![q].pc = "hung"]
  /\ call' = [call EXCEPT !.errors = task[q].seen + 1, !.failed = @ \union {q}]
  /\ UNCHANGED cacheVars

AppendError(q) ==
  /\ At(q, "append")
  /\ task' = [task EXCEPT ![q].pc = "done"]
  /\ call' = [call EXCEPT !.errors = task[q].seen + 1, !.failed = @ \union {q}]
  /\ UNCHANGED cacheVars

\* Mutant: the first goroutine that is done ends the wait.
JoinFirst ==
  /\ call.pc = "wait" /\ \E q \in Queries : At(q, "done")
  /\ Complete
  /\ UNCHANGED <<cacheVars, task>>

Join ==
  /\ call.pc = "wait" /\ \A q \in Queries : At(q, "done")
  /\ Complete
  /\ UNCHANGED <<cacheVars, task>>

\* The result is stored, and returned with the error there may be.
StoreResult ==
  /\ call.pc = "store"
  /\ Set(call.key, Lifetime)
  /\ value' = [k \in Keys |-> IF k = call.key THEN call.result ELSE IF k \in items' THEN value[k] ELSE Nothing]
  /\ call' = [call EXCEPT !.pc = "idle"]
  /\ UNCHANGED task

\* The cleanup goroutine, the clock, and the owner of a cache that was passed in.
CacheStep ==
  /\ Cleanup \/ Tick \/ Clear \/ \E k \in items : Delete(k)
  /\ DropValues
  /\ UNCHANGED <<call, task>>

EngineStep ==
  \/ \E l \in Languages : CollectSymbols(l) \/ SearchSymbol(l)
  \/ ReportWorkspace \/ StartQueries \/ SymbolNotFound \/ AnalyzeAlone \/ Join \/ StoreResult
  \/ \E q \in Queries : QuerySucceeds(q) \/ QueryFails(q) \/ AppendError(q)

StuckStep == RequestSticks \/ \E q \in Queries : QuerySticks(q)

EngineNext == EngineStep \/ StuckStep \/ CacheStep \/ \E k \in Keys : Analyze(k)

\* Goroutines run, and a request that is not stuck ends by an answer or by its
\* timeout; nothing ends one that is.
EngineSpec ==
  /\ EngineInit /\ [][EngineNext]_engineVars
  /\ WF_engineVars(EngineStep)

-----------------------------------------------------------------------------
(***************************************************************************)
(* A call without an error has a result of its own request: failures that  *)
(* the error handler does not tolerate leave nothing in the cache that a   *)
(* later call could take for an answer.  The handlers of the tool use the  *)
(* result without another test (project_analysis.go:617).                  *)
(***************************************************************************)
SuccessHasResult ==
  call.pc = "idle" /\ call.outcome = "ok" => call.result.key = call.key

(***************************************************************************)
(* A result that lacks the answer of a language or of a query says so: its *)
(* metadata has an error, although the goroutines record their errors over *)
(* each other, and never more errors than there were failures.  So has one *)
(* that comes from the cache.                                              *)
(***************************************************************************)
Expected(k) == IF KindOf[k] = "workspace" THEN Languages ELSE IF KindOf[k] = "relationships" THEN Queries ELSE {}

PartialIsMarked ==
  \A r \in ({value[k] : k \in items} \union {call.result}) \ {Nothing} :
    /\ ~(Expected(r.key) \subseteq r.answered) => r.errors > 0
    /\ r.errors <= Cardinality(r.failed)

(***************************************************************************)
(* Analyze returns, whatever its queries return, unless one of them never  *)
(* does: the wait group then holds the call, and the client's timeout does *)
(* not cover the sending of a request (engine.go:692, client.go:439).      *)
(***************************************************************************)
AnalyzeReturns == call.pc # "idle" ~> call.pc \in {"idle", "stuck"} \/ \E q \in Queries : At(q, "stuck")

=============================================================================
