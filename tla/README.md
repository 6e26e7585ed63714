# mcp-lsp-bridge in TLA+

mcp-lsp-bridge is a Go program between an MCP client (an assistant) and a set of language servers. An MCP
tool call ("hover", "rename", "project_analysis") is turned into LSP requests to one or several servers,
whose answers are collected and written out as text. This directory models the parts of the program where
goroutines, processes and partial failure meet, checks them with TLC on small instances, and proves the
properties that matter most with TLAPS for every instance.

Paths below are relative to the repository, `bridge.go` is `bridge/bridge.go`, and so on.

## The system

| component | state | operations | hard behaviour |
|---|---|---|---|
| language client (`lsp/client.go`, `io.go`) | process, connection, context, status, last error, request counters; `lc.mu` covers part of them | NewLanguageClient, Connect, SendRequest, SendNotification, Close | several handlers share a client; a server dies, is silent or stops reading; Close races with requests and with responses that come late |
| messages from a server (`lsp/handler.go`) | diagnostics cache | publishDiagnostics, workspace/configuration, other requests | runs on the connection's reader: a reply that cannot be written stops all reading |
| documents (`lsp/methods.go`, `tools/document_*.go`) | `openDocuments` per client; the server's own view | DidOpen, DidChange, DidSave, DidClose, ensureDocumentOpen, GetDocumentDiagnostics | check, notification and bookkeeping are three steps, and calls on one document overlap; clients are replaced under a running tool; one request opens a file under another name |
| client pool (`bridge.go`) | `b.clients`, an unsynchronised map; the diagnostics callback | GetClientForLanguage, GetAllClientsForLanguage, GetMultiLanguageClients, CloseAllClients, SetDiagnosticsCallback, the formatter's own lookup | concurrent get-or-create; retries; connections that are lost while the process lives, processes that die |
| query over several servers (`bridge.go`, `lsp/methods.go`) | a slot per server, the answers so far | queryAllCapableServers, ensureDocumentOpenInClient, the loops over servers, merging and deduplication | slow, silent and failing servers; late answers; answers that cannot be decoded |
| semantic tokens (`lsp/semantic_tokens.go`) | none | decoding, by type | positions relative to each other, a legend that is missing |
| parallel map (`async/async.go`, `utils/flatten.go`) | a buffered channel | Map, MapWithKeys, FlattenKeyedResults | cancellation while operations run |
| tools that search a project (`tools/symbol_explore.go`, `project_analysis.go`, `workspace_diagnostics.go`, `utils.go`) | the cache of directories; what the client was shown | search in all languages, pages, file contexts, the text of a symbol, reports | languages that fail or hang while others answer; pages of a list that may change, with numbers nobody checks; positions from three sources |
| subscriptions (`mcpserver/resources`) | two maps under one mutex | Subscribe, Unsubscribe, UnsubscribeAll, Notify | the two maps must stay one relation |
| analysis cache (`analysis/cache.go`) | entries with expiry and access time, statistics | Get, Set, Delete, Clear, cleanup | eviction, expiry and the counters |
| analysis engine (`analysis/engine.go`, `errors.go`) | the result and its metadata; the cache | Analyze and its analyses per type of request | errors recorded by five goroutines without a lock, tolerated errors, caching of partial results |
| workspace edits (`bridge.go`) | files | ApplyTextEdits, ApplyWorkspaceEdit, Rename, FormatDocument | order of edits; the second of three files fails; concurrent edits of a file; changes that are decoded as others |
| configuration (`lsp/config.go`) | the loaded configuration | recursive load of imports, merge, validate | cyclic and diamond imports, duplicates |
| capabilities (`lsp/capabilities`) | none | tables of what a server declared | none |
| MCP server and the other tools (`mcpserver`, `main.go`) | sessions | argument parsing, calls of the bridge, formatting | none of their own: they run on a pool of goroutines and so make everything above concurrent |
| paths, logging, directories, utilities | none or files | sequential helpers | none |

A tool handler asks the **pool** for the clients of a language, which connects **language clients** as
needed; it then makes **document** notifications and requests on them, alone or through **fan-out** and
**parallel map**; servers publish diagnostics, which the reader stores and hands to the **callback** the
resource registry installed, which **notifies** the subscribers of a resource.

## Modules

**LanguageClient** (`MCLanguageClient`, `ClientProofs`) is one client. `SendRequest` is split where
another goroutine can come between: the count of the request, the test of the context, the unlocked test and
reset of the status, the test for a lost connection, the sending lock, the write, the wait, the counters (which
are atomic), and the record of the outcome under `lc.mu`. `Close` holds `lc.mu` from its first to its last
step (`mu`); its early return on an error of `conn.Close` is part of the action. Its branch for a client that was
never connected is left out: the three places of the bridge that close a client (`bridge.go:193`, `366`, `633-640`) do so
after Connect succeeded. A request whose parameters cannot be marshalled ends before it is sent (`CheckDisconnect`). The
JSON-RPC connection is `sourcegraph/jsonrpc2`, vendored (`conn.go`): one sending lock held while writing, a reader that
delivers a message at a time and writes the replies to server requests itself, a close that happens once. Calls that
were given up stay in its table (`late`), and so do those a close has ended (`conn.go:176`): a response for such a call that
the reader takes after the close is sent on a closed channel (`conn.go:235`), and the program ends (`panicked`). The server may
answer, err, stay silent, die, or stop reading (`stalled`).

**ClientPool** (`MCClientPool`, `ClientProofs`) abstracts a client to its life and models what
handlers do to `b.clients`: each access to the map is a step. Go maps have no order, so the two lookups of
GetClientForLanguage pick a server each, and a loop over the map may or may not see what is added while it
runs. The lives are starting, live, lost, exited and closed: a connection can be lost while its process runs on, and a
handshake that fails for that reason leaves the process behind, because Close then returns an error (`client.go:326`) and
so does the retry loop (`bridge.go:193-196`). A process that exited is a client whose Close fails, too, with nothing left
running. Finding a client with a cancelled context, closing it and deleting it (`bridge.go:356-371`) are one step of
`NextServer`. A client that another thread stores in between is deleted with it and lost, which is one more way to what
ClientPool_orphans shows; the other properties are about the clients in the pool and about calls, and a deletion takes
nothing from them. The early returns for want of an allowed directory (`bridge.go:86-97`) are `GiveUp`; the one of
`bridge.go:135-137` is left out, since the bridge's own process ID fits into 31 bits. The runtime's detection of concurrent map access (`MapRace`) ends the
behaviour. Client objects are
numbers that are used again once nothing refers to them, which keeps the state finite.

**Documents** (`MCDocuments`, `DiagnosticsProofs`) has the clients' `openDocuments`, the diagnostics they cache, the servers' view
of each document and the tool calls, each a loop over the clients of the language. A thread remembers which
object it obtained (`gens`): after the pool has replaced a client, the old object reaches no server. Nothing keeps two calls
on one document apart, so `overlapped` and `crossed` remember where calls began beside each other, and where a
notification went out between another thread's notification and its record. A document is a URI: all calls normalize it
but SemanticTokens, which opens what it was given (`bridge.go:2030-2036`), so that a file can be open under two names
(`query`, `NameFor`). A client gets the callback when it is made, later, or, made by the formatter, never
(`hooked`); the reader tests it for nil (`handler.go:58`), and diagnostics it stores without one are `silent`.

**Subscriptions** (`DiagnosticsProofs`) keeps the tracker's two maps; its lists are functions to the number
of occurrences, because the code tests membership, appends and filters and never looks at the order. Its specification
is `TrackerSpec`: its names differ from those of Documents so that one module can prove about both, as those of LanguageClient and ClientPool do.
**SubscriptionRelation** is what the tracker promises, a relation between clients and resources, and
Subscriptions implements it under `relation <- Subscribed`.

**FanOut** (`QueriesProofs`) is queryAllCapableServers: per server a worker, a query goroutine, a channel for one
value and a timer. **Queries** (`MCQueries`, `QueriesProofs`) extends it with what is asked and answered: `kind` is the query (hover,
references, ... 16 in all), `response` what each server sent, `asked` the order in which answers are merged, `outcome`
what the caller gets. Hover and signature help are FanOut with contents (`AnswerQuery`, `ReturnConcurrent`); the
others ask server after server (`AskNext`, `ReturnLoop`) or one server (`Single`). `Returns` is what a request of
`lsp/methods.go` makes of a response. An answer to a query for tokens may be cut off in the middle of one, on which the
decoder panics (`semantic_tokens.go:60-66`, `Panic`). **Aggregation** has the pure part as operators: the four ways of dropping
duplicates, the merging of hovers and signatures, the decoding of semantic tokens. The servers of a language come out
of a Go map, so they are asked in any order. A list that the code builds by appending in a loop is `Picked` (**Picks**):
the elements of another list at the places that pass a test, in their order. The legend a server without one gets has 3 of
its 27 types: those that are looked for and one that is not.

**AsyncMap** (`ToolSessionProofs`) is the parallel map, with its bounded channel and the caller's context.
**ToolSession** (`MCToolSession`, `ToolSessionProofs`) extends it with the tools that use it and with those that show pages: one call
after the other (`FirstCall`, `NextPage`), a search in all languages through AsyncMap (`Search`, `Forward`,
`Collect`), and the answer (`Respond`, one action per way a handler can end). `follows`, `listing` and `shown` are
the client's: what it has seen of a list while it did what the tool told it. Each call has a map of its own, so
`Begin` puts AsyncMap into its initial state. Offsets and limits are integers, as an argument may be any number: the
minima in the tools' schemas are declared to the client and tested by no handler. A limit of 0 or an offset
beyond the list is what each handler makes of it, and a negative limit is a slice out of range, which panics; the
MCP server is built without recovery (`mcpserver/setup.go:69`), so the program ends (`crashed`). A request to a server that does
not read its input never ends (`stuck`), and project_analysis passes no context to its search for references
(`project_analysis.go:335`). A file context is looked up as it is or in the usual directories, where a folder counts as found
and then matches no symbol (`utils.go:913`). The sums of offsets and limits are those of integers, not of 64-bit ones. **SymbolDetail** has the pure part: the choice among a symbol's ranges
(from semantic tokens, from document symbols, from the search) and the text cut out of the file; beside it `Text` and
`OffsetOf`, the reference, where a position lies in the text of a file. What the bridge answers is chosen freely
from constants.

**TextEdits** is ApplyTextEditsToContent as operators on sequences of characters: splitting into lines, the
exchange sort, pass by pass (`Pass`), the edit of a line or of several; beside it `Replaced`, the reference: all ranges
replaced at once, what lies outside of them kept in its order. **WorkspaceEdit** (`MCWorkspaceEdit`, `WorkspaceEditProofs`) is ApplyWorkspaceEdit by several callers over a disk:
document changes in order, the other changes in the order of a map, each file read and written back in two
steps, with an error possible at every access. What is applied is what the vendored types decode (`Decoded`): a document
change is taken as the first of four types it fits, and a deletion without options has all that CreateFile needs, which is
tried first and whose kind nobody checks (`protocol/lsp/types.go:2902-2934`, `19981-19999`), so that the file is emptied
instead of removed. An element of a list of edits that is no TextEdit is logged and becomes an empty edit at the beginning of the file
(`bridge.go:1874-1882`), an edit out of range has no effect (`1779-1788`), and a change of an unknown type is passed over
(`1938-1940`; decoding lets none through, but the loop has the branch). `marred` keeps why a file may
not be what its changes mean: a write failed (torn), or took away another call's (lost), or edits clashed.

**ConfigLoad** (`MCConfigLoad`, `ConfigLoadProofs`) is the load of the configuration: the recursion as a stack of
frames, each with the settings merged into its file so far. A value is abstracted to the file that gave it, the four
maps that merge alike are one, and a server's list of languages is how often each occurs, since the lookups never use
the order. Validation may fail for the log output or the servers, which is one outcome. `order` and a frame's `place` are history: which files were read, and which of them is the frame's.

**AnalysisCache** (`AnalysisEngineProofs`) has one action per operation, because each holds the mutex
throughout; which of several least recently used entries goes is the map's choice. **AnalysisEngine**
(`MCAnalysisEngine`, `AnalysisEngineProofs`) extends it with `Analyze`: a hit, or the questions to the language
clients, the verdict on an error, and what is stored. A query whose request never ends holds its wait group. A result is abstracted to who answered, how many errors its
metadata has and, as a history variable, who failed. An append to the errors by one of the five goroutines is a
read and a write, since nothing locks them; the length of the slice is what the model keeps of it.

**ListLemmas** has no model: it is what the proofs about queries, sessions and edits need to know of `Picked`, of
concatenated lists and of counting, stated for any lists.

Definitions named as mutants (their comment begins with "Mutant:") are faulty versions of the definition that
follows. They are part of no specification; replacing the definition by its mutant must break the property
that `PROJECT.json` names, which shows that the property depends on the code.

## Runs

| run | instance | what it shows |
|---|---|---|
| LanguageClient | 2 threads, 2 requests, all server behaviour | CountersAgree, ErrorHasCause, CloseOnce, RequestsReturn, CloseStopsServer |
| LanguageClient_cleanup | the same | **fails**: CloseCleansUp |
| ClientPool | 2 threads, 3 calls, 2 languages with 1 and 2 servers, 2 attempts | PooledAreInitialized, AbandonedAreClosed, PooledServesLanguage, CallbackOnAllClients, CallsEnd |
| ClientPool_orphans | one language with 2 servers | **fails**: NoOrphans |
| Documents | 2 threads, 2 servers, a file with a normalized and a raw name, 3 calls beside or after each other, one replacement of the first client, which gets the callback or not | ViewsAgree, OpenedOnce, SubscriberIsCurrent |
| Subscriptions | 3 clients, 2 resources | MapsAgree, KeepsRelation |
| Queries | 16 kinds of query over 3 servers, one of which stopped reading; up to 4 responses per kind, alone, shared or not decodable | EverySlotIsItsServers, Gathered, SymbolTreesMerged, TokensDecoded, ReturnedIsFinal, NoGoroutineLeaks, QueryReturns |
| ToolSession | 10 tools, 2 languages that find 0, 2 or 3 symbols, 3 files, a text of 3 lines, pages of 2, 0 and -1, offsets from -1 to beyond the end | CompleteOnSuccess, NothingLost, PagesComplete, DetailIsText, NoGoroutineLeaks, CallReturns |
| AnalysisEngine | 3 requests (workspace, symbol, file), 2 languages, 3 queries of which 2 ask the server, a cache of 2 places, 3 instants, the default error handler | Bounded, SuccessHasResult, PartialIsMarked, EvictsLeastRecent, AnalyzeReturns |
| ConfigLoad | 3 files with up to 2, 1 and 1 imports of each other, 3 kinds of content each, one file possibly broken or null | ImportsNest, ClosestWins, LanguagesComplete, TreesLoad |
| WorkspaceEdit | all legal lists of up to 2 edits (3 within a line) of a file of 2 lines; two lists that clash or are out of range; a second caller with 5 kinds of renames over the same 3 files, among them an element that is no TextEdit, an unknown change and deletions with and without options | TypeOK, DiskFollowsLog, SuccessMeansAllTried |
| WorkspaceEdit_shift | the same, with all legal lists, also those with edits that begin at the same place | **fails**: NoPositionShifts |

**Bounds.** Two threads are enough for every race the properties speak of, all of which are between two
callers, or a caller and the server; the third call of ClientPool and Documents lets a call come after a race
of the other two. Two names of a file and two servers tell a mix-up from its absence; in Documents only the first server's client is
replaced, dies and gets the callback (`OneIsSteady`), the second one is there for the loops over clients. Two attempts give the retry
loop a first and a last iteration; two client objects in use at a time, one per thread, are what the races need,
and with both taken an attempt can only fail. `MaxRequests`, `MaxCalls`, `MaxReplacements`, `MaxTime` and `MaxGets` bound
counters that the code lets grow; they appear in guards of actions that begin something and cut nothing short.
In WorkspaceEdit a line break, a line of one and a line of two characters, and positions inside, at the ends of and
beyond them give every relation two ranges can have, with insertions and with replacements that add a line;
the third edit within a line is there for the sort, which goes wrong on two elements or on three.
In Queries each kind has an item that two servers find, one that differs, and where the code distinguishes them a
null, an unknown or a wrongly shaped response; two servers that answer and a third that may not are what merging in
any order needs. The tokens have a step within a line, one of several lines, a type the legend lacks and one nobody looks
for. In ToolSession two languages give none, up to three and more than three matches, which is where symbol_explore
changes its answer; pages of two over lists of up to six have a first, a middle and a short last one; offsets of -1, 0 and 9 and limits
of -1 and 0 are the numbers on either side of what a page can begin and end at; five and six are the
two sides of the excerpt of five. The ranges lie in one line, over two, past an end and nowhere.
Three files that may name each other, themselves and one file twice give ConfigLoad every shape of imports (chain,
diamond, cycle), at a depth of two merges. For the safety properties that are proved (see Proofs) there is no bound on the number of threads, clients, servers, keys,
files, documents or items.

**Assumptions on callers.** None: calls overlap on one document and on one file, arguments are any numbers, and a
server's edits may overlap each other. Where such a thing breaks a property, the property names it, in terms of
what happened and not of what callers have to avoid. Documents excepts from ViewsAgree a document on which a notification
was sent before another thread had recorded its own (`crossed`), from OpenedOnce one on which calls overlapped (`overlapped`), and from
SubscriberIsCurrent diagnostics that came while the client had no callback (`silent`). WorkspaceEdit excepts from
DiskFollowsLog a file to which a write failed, or took away what another call wrote, or whose list of edits was illegal or had
two beginning at one place (`marred`).

**Fairness.** Go runs every runnable goroutine, and timers fire: weak fairness for the steps of a goroutine. A
mutex hands over to a waiter after a millisecond: strong fairness for taking a lock. The operating system
delivers kills and ends of file. A server owes nothing: no fairness for answers, for exits, or for reading its
input. A request ends by its answer or its timeout, unless it hangs on the sending lock or the write, which the
timeout does not cover (`client.go:439`): in Queries if its server is one that stopped reading (`Stalled`), in ToolSession
(`SearchSticks`, `RequestSticks`) and AnalysisEngine (`QuerySticks`, `RequestSticks`) at any time, by a step that nothing
forces and nothing undoes. Their liveness properties say what such a request holds up: RequestsReturn excepts a stalled server
and the panic of a late response; QueryReturns the queries that ask a stalled server on the caller's own goroutine; CallReturns
a search or request that is stuck, of which a search that the client can leave ends with its leaving; AnalyzeReturns a
query that is stuck, for which the wait group has no timeout. Nothing makes the client of a ToolSession call, follow or leave. ClientPool needs no fairness: `CallsEnd`
states that every step of a call reduces the work it has left.

## What the code does not keep

Statements of comments or tests that do not hold of the code. The three that are marked with their run are
findings in `PROJECT.json`; the others came up while the models were written.

- (LanguageClient_cleanup) `client.go:318` "Close closes the language client and cleans up resources": with a connection that has
  failed already, `conn.Close` reports an error, Close returns it (`client.go:326`), and the context that
  would kill the process is never cancelled.
- (ClientPool_orphans) `bridge.go:633` "closes all active language server clients": a client that is stored while the others are being
  closed is dropped, unclosed, when the pool is emptied (`bridge.go:642`); and of two concurrent callers that both create a
  client for a server, the one that stores first loses its client.
- (WorkspaceEdit_shift) `bridge.go:1755` "reverse order to apply from end to beginning": edits that begin at the
  same place keep the order of the list, so a replacement after an insertion hits the inserted text, and two
  insertions end up in reverse.
- `tools/rename.go:94` "All rename changes have been applied across the codebase": the tool says so after every
  call without an error, also when edits were out of range (`bridge.go:1779-1788`), were no TextEdit (`1874-1882`) or a change had
  a type the code does not know (`1938-1940`), and nothing was done about them. `SuccessMeansAllTried` is what success does mean: the
  call went through every change, as decoded, in order, and every access to a file succeeded. MCWorkspaceEdit has
  lists with each of the three.
- `bridge.go:1926-1937` deletes files, but a DeleteFile without options was decoded as a CreateFile
  (`DecodedChange`), and the file is emptied instead.
- `mcpserver/tools/project_analysis.go:171` and the other schemas' "Min" of offset and limit: no handler tests them. A negative
  offset or limit panics in a handler that slices by it, and ends the program (`ApplyPagination`, `Page`); with a limit of 0,
  workspace_symbols says "No results (offset 0 exceeds total 5)" (`utils.go:648`).
- `bridge.go:287`, `314`: name and configuration of "the" server are looked up twice over maps in random order,
  so a client may be stored under another server's name.
- `lsp/types.go:106` "prevent duplicate didOpen notifications": the check and the mark are not one step,
  and two overlapping calls for one document both open it, as they do in the run Documents (`overlapped`); and one file may be
  open under two names (`bridge.go:2030-2036`), which OpenedOnce counts as two documents.
- `bridge.go:573` "Create a timeout context for this query": the document is opened before the timeout counts.
- `client.go:405` "with timeout": the timeout covers the wait and neither the sending lock nor the write, so
  `RequestsReturn` has to make an exception for a server that stops reading.
- `conn.go:176`: a close ends the pending calls and leaves them in the table, so that a response taken after it is sent
  on a closed channel (`conn.go:235`), a panic that ends the bridge (`ReadLateResponse`, `panicked`).
- `client.go:415` "if we have a valid connection" tests that `conn` is not nil, which stays true after the
  connection has closed; and since test and assignment are not under the lock, a request can write "connected"
  after Close, against `lsp_test.go:106` "Client should not be connected after Close()".
- `bridge.go:646` "on all existing and future LSP clients": FormatDocument pools its client without it, which
  is the exception in `CallbackOnAllClients`; the reader of such a client stores diagnostics that nobody is told of
  (`handler.go:58`, the exception in `SubscriberIsCurrent`).
- `bridge.go:63` "retry mechanism": a handshake that fails because the connection is lost ends the loop, because Close
  then reports an error, and leaves a process that has outlived its connection running (`HandshakeDies`, the exception
  in `AbandonedAreClosed`).
- `document_change.go:23` "Version number increments automatically": every change is version 2 (`DidChange`).
- `handler.go:67` "Clean up cached diagnostics for closed files": only a didClose *from the server* would reach
  that code (`MarkDocumentClosed` leaves the cache alone).
- `engine.go:306` "checks for potential circular references": the search enters only symbols it has not visited and
  reports only one it has, so the answer is never yes.
- `errors.go:45` computes the rate of errors over `FilesScanned`, which nothing ever counts: the rate is 1 from the first
  error on, and a threshold below 100% tolerates none (`HandleError`).
- `cache.go:51` starts a goroutine per cache, and `project_analysis.go` makes an analyzer with a new cache for every
  call: no call finds what an earlier one stored, and the goroutines stay.
- `config.go:64` "Check for circular imports": the mark of a file is never taken back, so a file that two others import
  is refused, too (`TreesLoad` says what is accepted).
- `bridge.go:1053` "If all searches failed": SearchTextInAllLanguages reports the failures as an error also when
  another server answered with an empty list; the other loops do the opposite, and all servers failing looks like
  an empty result (`Results`).
- `bridge.go:1698` "return first result": the first of a Go map in random order, so without a preferred formatter
  the formatter changes from call to call (`ReturnLoop`).
- `bridge.go:1455` the active signature of one server becomes an index into the merged list of all (`MergeSignatures`).
- `bridge.go:745` a document symbol that a second server repeats is dropped together with the children only that
  server knows (`DeduplicateDocumentSymbols`); `SymbolTreesMerged` says less of the deeper levels than `Gathered` of the top
  level for that reason.
- `lsp/methods.go:246`, `375`: a definition sent as one location and an implementation sent as links, both of which the
  protocol allows, cannot be decoded and count as a failure (`Decodes`).
- `semantic_tokens.go:55` positions are counted from the start of the range that was asked for, while a server counts from
  the start of the file; `TokensDecoded` is about the arithmetic after that. No token carries its text, so that
  `getSemanticTokenRange` "find the full range of a symbol" ends with the name alone, and FindPreciseCharacterPosition gives
  back what it was given (`Score`, `PreciseCharacter`).
- `utils.go:791` "treat endChar as exclusive": of several lines the last loses one more character (`LastLine`);
  `DetailIsText` allows it, and the code's own test expects it.
- `symbol_explore.go:585` "Use offset=%d to see more": each page searches again and lists the languages in the order in
  which they answered, so pages may repeat and miss symbols; `PagesComplete` is about a list that stays the same. With up
  to three matches the offset is ignored.
- `symbol_explore.go:55` calls the file context a fuzzy filter, but a context that names no file always ends the call, and
  the fuzzy match (`symbol_explore.go:263`) is never reached (`Matches`).
- `utils.go:860` a directory that was just scanned gives no suggestions; they come with the second call (`Suggestions`).
- `project_analysis.go:362` the references of the first symbol are asked of the active language's servers, also when another
  language found it (`References`); `symbol_explore.go:383` asks with no language and `454` with "go".
- `registry.go:209` "sends a notification to all clients subscribed": it logs them (`SendNotification`).

## Proofs

Each proof module has an inductive invariant, lemmas per action, and theorems over `Spec`.

- **ClientProofs.** LanguageClient first. `ClientTypeCorrect`: `ClientTypeOK` is inductive. `ErrorCause` and
  `CloseIsExclusive` follow from one strengthening (`TeardownInv`) that relates `mu` to the program counters: a thread
  inside Close holds `lc.mu`, so no other thread records an outcome or closes meanwhile. `MetricsAgree`: each action begins
  a request, ends one or leaves the set of outstanding requests alone; the cardinality of that set is what the counters
  differ by. Assumptions: `Callers` is finite, and the reader and "nobody" are no callers.
  ClientPool: the invariant adds to the properties what a thread knows at each place (`ThreadOK`): the
  client it shakes hands with is in use, the one it stores has been initialized, name and configuration serve one
  language. What threads could break for each other is in three formulas: a client that the pool or a thread refers to
  loses nothing (`Kept`), most steps put nothing into the pool (`Shrinks`), and one thread moves (`Moves`). From these
  `OthersOK`, `PoolOK` and `CallbackOK` carry the invariant through every action but Store and the hooking of
  clients, which are shown by themselves. `PoolInitialized`, `NoneAbandoned`, `PoolServes` and `AllHooked` are its
  conjuncts. NoneAbandoned says that a client whose connection is open and whose handshake is not done has a thread that is
  shaking hands with it; of one whose connection is lost it says nothing, and the process of that may stay. `CallsAlwaysEnd`: the measure `WorkOf` counts servers to visit, each worth all its attempts, and what the
  current attempt has left; `StepWorks` shows for each step of a call that it gets smaller. Assumptions:
  `ConfigAssumption` (finitely many servers, a formatter is a server of its language) and the bounds.
- **QueriesProofs.** Of FanOut, `Stages` ties the two goroutines of a server to its channel and its slot, and
  `CallerKnows` says that the caller has returned only when every worker is done: `SlotsCorrect` and, since a worker writes
  once, `ResultsFinal`. The queries around it have the invariant `QueryInv`. A concurrent query is in a state of FanOut
  (`AtOnce`); one that asks in turn has asked some of the capable servers, each once, and has their answers in their slots
  (`InTurn`); responses are what a server may send (`Shape`). `EverythingGathered` splits into what a return computes and
  what later steps may do. `ResultGathers` is about the first: for any order of the servers and any responses, every kind
  of result satisfies `GatheredIn`. It rests on one lemma per way of merging, and these on three facts: the servers that are
  picked are the responders, each once (`AnsweredAreResponders`); every item of the concatenated answers is at one place of
  one server's answer and the other way round (`ItemsPlaced`), which also counts them (`PlacesCounted`); and dropping what
  repeats a key keeps every key, once (`KeptMerges`). `StaysGathered` is about the second: a late answer reaches no slot of a
  query that has returned. `QuerySlotsCorrect` and `QueryResultsFinal` carry the theorems about FanOut over to every kind
  of query, the sequential ones included. `EveryTokenDecoded`: the decoder is a fold with one running position, the
  property is about sums over all tokens and over those since the last new line. `TotalsAre` and `NewLineIs` give the step of
  each of these, `PositionsAre` the step of the fold, and `PlacesRight` shows by the least token at which they differ
  that none does. `PickedInOrder` (ListLemmas) turns positions of all tokens into the list of the wanted ones. A query for
  tokens has one capable server, so the answer that was decoded is the only one (`ReturnDecodes`). `SymbolTreesAlwaysMerged`
  is about three recursions over trees of symbols: what is merged, the ways down a tree, and whether anything is there twice.
  Each looks at the children of a list only (`BySame`), so there is a function for lists of less than n levels by induction
  over n (`ByMore`), the functions of two depths agree (`BysAgree`), and one function over all lists exists
  (`WholeExists`); hence each definition satisfies its own equation (`PathsAre`, `NothingTwiceIs`, `DeduplicatedIs`). By
  induction over the levels again, merging a tree makes up no way down and leaves nothing twice (`MergedStep`,
  `MergedTrees`). The invariant `SymbolsHeld` carries that to the caller, who holds what was merged of all responders, in
  some order. Assumptions: `SymbolTreesAssumption`, that an answer is a finite tree (`Depth`) and that what is merged of a
  symbol is a symbol again; there are
  finitely many servers; what a decoder makes of null is no items; a document symbol is a record of its three fields; a
  token is four natural numbers and the range begins at one line and column (`TokensAssumption`; the code has them as
  32-bit numbers, and the theorem is about sums that stay below 2^32).
- **ToolSessionProofs.** The parallel map: the results received followed by those in the channel have distinct keys
  (`SentOnce`). `DistinctKeys`: a sequence of distinct keys is no longer than the set of keys, and one that is as long has
  them all. Hence the channel's capacity is never exceeded, and `Complete`. `SessionMapsComplete`: every call of a session
  begins a map of its own, so the same holds call after call, also after a client that left in the middle of one.
  `PagesAlwaysComplete` is about any integers as offsets and limits. It needs `FollowsOK`: what a client that follows has seen is
  the beginning of the list, and the offset of the call it waits for is the length of that and within the list; the arithmetic of
  the pages then gives the next piece without a gap, or one of the two other answers the property names.
  symbol_explore ignores the offset of short lists, hence the clause about three. `NothingEverLost` needs `LostInv`: what the
  languages found has its types, and a call that was not answered says nothing. The rest is counting: the flattened
  list of the results is in a one-to-one correspondence with the pairs of a language and a place in what it found, so its
  length is their number, whatever the order in which the languages ended; and the errors and warnings counted per language
  add up to those of all. `DetailAlwaysText` is in two parts. That what getRangeContent cuts out is what lies between the
  offsets of its positions (`ContentIsText`): with a break in front of its first line too, the text is every line behind a
  break, so that each line is found at its start (`LineLies`), and so is what stands between two lines (`MiddleLies`); parts
  that follow each other are cut out together (`LiesBoth`). That a symbol has a range of two positions at all
  (`EnhancedRangeIs`): document symbols are trees, searched in an order defined by recursion, which exists since a symbol has
  finitely many levels below it (`OrderExists`, by induction over the levels) and is the same from whatever depth one begins
  (`OrdersAgree`). The invariant `DetailInv` adds that whatever was found, or is still to be described, has a range.
  Assumptions: `Keys` is finite; `SessionAssumption`, which types symbols, reports, tokens, the lines of a file and the
  arguments of a call; `DocSymbolsAssumption`, that an answer is a finite tree (`Depth`), as anything decoded from JSON is.
- **DiagnosticsProofs.** Documents: nothing is assumed about calls, which may overlap in any way. The invariant has a part per
  client and document (`Recorded`): as long as no notification overtook the record of another, at most one thread has
  something to record, what it has to record is what the server has open, and when there is none the client has recorded it.
  That gives `ViewsAlwaysAgree`. Another part is about a document on which no calls overlapped (`Apart`): one thread at most is
  about it, so that what it has found out still holds when it notifies the server (`Stands`), which gives `AlwaysOpenedOnce`. Clients that
  were replaced never come back (`NotFromTheFuture`), so that an old object changes nothing. `SubscriberAlwaysCurrent` relates cache,
  reader and `hooked`, whatever the calls do. Subscriptions:
  `MapsAlwaysAgree`, and `TrackerKeepsRelation`: every step of the tracker is a step of SubscriptionRelation or a stutter.
  UnsubscribeAll needs the invariant, since it visits only the lists the client's own list names.
- **AnalysisEngineProofs.** The cache first. `CacheBounded`: the size is the number of entries and within the bound; the
  lemmas are about the number of elements of a set that loses or gains one. `AlwaysEvictsLeastRecent` is an action property
  of Set. `EngineUsesCache`: the engine's steps are, for the cache, the cache's own or stutters, so both hold here too
  (`EngineKeepsBound`, `EngineEvictsLeastRecent`). `SuccessAlwaysHasResult` assumes
  `ErrorThreshold < 100`, as every caller in the code has it; its invariant `Answers` says of every entry of the cache
  and of the result about to be stored that it belongs to its key, which fails as soon as an error is tolerated.
  `PartialAlwaysMarked` has no such assumption: its invariant `MarkedInv` says that a running call has no more errors than
  failures, and one if anything failed, although the goroutines write their errors over each other. What a goroutine has
  read is at most the number of failures, these only become more, and its own append is one more of them; at the join
  every query has answered or failed.
- **ConfigLoadProofs.** The invariant cuts the files read so far into one piece per frame (`Pieces`): the frame's own
  file and whatever has been merged into it. `PiecesHold` says that a frame holds exactly the settings of its piece.
  Read begins a piece with one file, Return joins the last two, and `HoldsJoined` says that the merge does to the
  settings what the joining does to the pieces; at the end there is one piece, all of `order`, and `ClosestAlwaysWins` and
  `LanguagesAlwaysComplete` are read off it. `NoFileTwice` needs `PathOK`: what is pending is the import at which the
  last frame stands, and every frame's file was visited. `TreesAlwaysLoad`
  needs an invariant about the imports themselves (`OnePathEach`): every file visited, except the root, is the target of
  exactly one import followed so far, the root of none, and only the pending import may be unsettled. A file that is refused
  is therefore one that two imports reach. Assumption: `ConfigAssumption`, which types what is on disk.
- **WorkspaceEditProofs**, in three parts. *Calls.* Everything is about one call at a time: what it does is in its locals and
  in what the history holds of it (`ChangesBy`), and `OneCallSteps` shows that no step of another call touches either,
  whatever files it writes. For one call the invariant is `OnCourse`. It balances a list against the edit (`Tally`): the
  changes made, with the one in hand at their end, are the document changes taken so far without those passed over,
  followed by the members of the other changes that are no longer waiting, each once (`IsListing`). `TallyBegins`,
  `TallyNext` and `TallyRest` are the three ways a call moves on, and a call that fails keeps its last change in hand, so
  that what it made falls short. `TallyTells` reads SuccessMeansAllTried off the balance by counting.
  *Texts.* `EditsReplaceAtOnce`: for any content and any legal edits that begin at different places, the sort and the edits of
  lines one after the other give exactly `Replaced`. Lines are put back into the content they stand for, a line break before
  each (`Opened`), so that a position cuts this text in two (`Halves`) and an edit is what comes before it, its text, and what
  comes after (`EditIs`). The edits applied so far all lie behind the next one, and the lines are unchanged up to where the last
  of them began (`SameEdited`, `SameBefore`), so the next one cuts the lines where it would have cut the content
  (`ReachedBy`, `EditReaches`). What the edits mean is a list of pieces, one per character of the content, and one more edit
  in front changes only the pieces in its range (`PiecesGrow`). That the edits come in this order is the sort: a pass puts the last
  of the edits from place i on at that place (`PassIs`), and neither repeats nor loses one (`Shuffled`), so that after all of
  them the list goes backwards (`SortGoesBackwards`). The invariants of the loops are shown by the least index that breaks them.
  *Files.* `StepIs` sorts the actions by what they leave. `DiskOK` types the files and what a call holds of one, which gives
  `AlwaysTyped`. `Follows` says that every file with nothing in `marred` holds what the log adds up to, and is kept by the steps that
  make a change (`MadeFollows`), each in a lemma of its own: `WritesFollow` needs EditsReplaceAtOnce, and that a write
  with nothing against it puts back an edit of what the file still holds; `EmptiedFollow` is about creating and deleting, which
  end a doubt, and `RenamedFollow` about a rename, which takes it along. Hence `DiskAlwaysFollows`, for calls that edit one file beside each
  other and for any lists of edits: where they break it they are in `marred`, by what happened to the file.
  Assumption: `WorkspaceAssumption`, of which the first part uses only the types. EditsReplaceAtOnce has the condition that
  edits are legal and begin at different places, without which it is false (see the run WorkspaceEdit_shift).
- **ListLemmas.** A function defined by recursion over numbers, and the least number with a property, are had from
  `LeastElement`, which is proved from the well-foundedness of the order, with a set in the place of a predicate.
  `FlattenPlacing`, `PickedPlacing` and `KeyedPlacing` give, for a list built by appending, the place every element came from
  and say that no place is used twice or left out; `KeptOnce` and `KeysCounted` are about lists without repetitions;
  `AnyOrder` about a set that is walked in any order; `RecursionExists` about a function over a list's positions whose
  value at each is computed from the one before; `PickedInOrder` about where the chosen elements of a list end up; `FlattenAppend` and `PickedAppend` about a list to
  which one element is added, `PickedFront` about what was picked from its beginning, `FlattenFirst`, `FlattenSkips` and
  `Spliced` about joins of which some parts are empty or replaced, `RecursionHolds` about the values of a recursion.

Only model-checked: liveness (LanguageClient, Queries, ToolSession, AnalysisEngine), which is out of the prover's
reach; every invariant and action property of a passing run is also a theorem. The type invariants of LanguageClient, ClientPool, Documents,
FanOut, AsyncMap and Subscriptions are theorems and in no run.

## Not modelled

- The text the tools write, the parsing of their arguments, logging, walks over directories for language
  detection, path validation: sequential code with nothing for a model checker to find.
- The tools that check their arguments, make one call of the bridge and format its answer (hover, call hierarchy,
  code actions, implementation, signature help and others); what they call is modelled.
- `lsp/capabilities`: tables of what a server declared; Queries chooses the capable servers freely.
- The heuristics of the analyses (`engine.go`: complexity, architectural health, patterns, impact): scores with no
  meaning to check them against.
- Timestamps in metrics; the contents of resources; the parameters of messages.

## Plan

1. The dependency graph of the analysis (`engine.go:307-358`) beside a reference definition of cycle and distance.
2. The preview of rename and the pull of diagnostics from several servers (`document_diagnostics.go`).
