----------------------------- MODULE ToolSession -----------------------------
(***************************************************************************)
(* The tools that ask all languages of a project at once or show a long    *)
(* list in pages (mcpserver/tools: symbol_explore, workspace_diagnostics   *)
(* and project_analysis), called one after the other by a client that may  *)
(* ask for the next page of what it has just seen.  The languages are      *)
(* asked through AsyncMap, whose Keys they are; every call makes a map of  *)
(* its own.  What a tool gets back from the bridge is chosen by the        *)
(* constants; what it does with it is the module.                          *)
(***************************************************************************)
EXTENDS AsyncMap, SymbolDetail, Picks

CONSTANTS
  Found(_),        \* what the servers of a language may answer, by tool
  Lists,           \* the lists a tool that asks one server may get
  Analyses,        \* the results of an analysis: [items, errors]
  Lines,           \* the text of a file
  TokenAnswers, SymbolAnswers, \* what the bridge may say of it, or Error
  Files, Folders,  \* what is in the workspace: pairs of directory and name
  Calls(_)         \* the parameters of a first call, by tool: [offset, limit, context, detail]

VARIABLES
  tool,     \* the tool of the last call
  call,     \* its parameters
  phase,    \* "idle", "search", "ask", "stuck" in a request that never ends,
            \* "closed" once the client has gone, "crashed" by a panic
  value,    \* what each language found, or the cause of its error
  response, \* what the client got last
  pending,  \* the symbols still to be described in it
  detail,   \* how the last one was
  cached,   \* the directories of globalDirCache that are not stale
  follows,  \* TRUE while the client has followed an unchanged list from its start
  listing,  \* that list
  shown     \* what its pages have shown so far

client == <<follows, listing, shown>>
session == <<tool, call, phase, value, response, pending, detail, cached, client>>
allVars == <<vars, session>>

Parallel == {"explore", "references", "diagnostics"}
Analysing == {"file", "pattern", "workspace", "relationships"}
Direct == {"workspaceSymbols", "documentSymbols", "definitions"} \union Analysing

Severities == {"error", "warning", "information", "hint"}

\* A symbol and a report of diagnostics, as the decoders of the protocol make them.
IsSymbol(s) ==
  s = [name |-> s.name, kind |-> s.kind, uri |-> s.uri, form |-> s.form, from |-> s.from, to |-> s.to]
HasRange(s) == IsPosition(s.from) /\ IsPosition(s.to)
IsReport(r) == r.form = "full" => r.items \in Seq(Severities \union {"none"})

\* The minima that are declared for offset and limit are not enforced.
IsCall(c) ==
  /\ c = [offset |-> c.offset, limit |-> c.limit, context |-> c.context, detail |-> c.detail]
  /\ c.offset \in Int /\ c.limit \in Int

ASSUME SessionAssumption ==
  /\ \A list \in Lists : list \in Seq(Range(list))
  /\ \A t \in Parallel : \A found \in Found(t) :
       found.kind \in {"value", "error"} /\ found.items \in Seq(Range(found.items))
  /\ \A found \in Found("explore") : \A s \in Range(found.items) : IsSymbol(s) /\ HasRange(s)
  /\ \A found \in Found("diagnostics") : \A r \in Range(found.items) : IsReport(r)
  /\ \A t \in Parallel \union Direct : \A c \in Calls(t) : IsCall(c)
  /\ Lines \in Seq(Range(Lines)) /\ \A line \in Range(Lines) : line \in Seq(Range(line))
  /\ \A tokens \in TokenAnswers \ {Error} :
       /\ tokens \in Seq(Range(tokens))
       /\ \A t \in Range(tokens) : IsPosition(t) /\ t.length \in Nat
  /\ \A symbols \in SymbolAnswers \ {Error} : symbols \in Seq(DocSymbols)

Relative == "relative"
NoContext == [at |-> Relative, stem |-> "", ext |-> ""]
NoFile == <<>>

-----------------------------------------------------------------------------
(***************************************************************************)
(* ResolveFileContext.  A context is a name, with or without an extension, *)
(* and is looked for in the workspace directory and in the directories its *)
(* kind of file is usually in; an absolute one only where it says, as the  *)
(* workspace holds no copy of its path.  A folder is as good as a file.    *)
(***************************************************************************)
Usual ==
  [ js |-> <<"src", "assets/js", "components", "lib", "public/js", "js">>,
    jsx |-> <<"src", "components", "lib", "src/components">>,
    ts |-> <<"src", "components", "lib", "types", "src/types">>,
    tsx |-> <<"src", "components", "lib", "src/components">>,
    go |-> <<"", "cmd", "internal", "pkg">>,
    py |-> <<"src", "lib", "scripts", "">>,
    java |-> <<"src/main/java", "src", "java">>,
    cpp |-> <<"src", "lib", "include">>,
    c |-> <<"src", "lib", "include">>,
    h |-> <<"include", "src", "lib">> ]

Patterns(ext) == IF ext \in DOMAIN Usual THEN Usual[ext] ELSE <<"src", "lib", "">>

Extensions == <<"js", "ts", "tsx", "jsx", "go", "py", "java", "cpp", "c", "h">>

NameOf(context) == [stem |-> context.stem, ext |-> context.ext]

Tried(context) ==
  LET name == NameOf(context)
  IN IF context.at # Relative THEN <<<<context.at, name>>>>
     ELSE <<<<"", name>>>> \o [i \in DOMAIN Patterns(name.ext) |-> <<Patterns(name.ext)[i], name>>]

TryWithExtensions(context) ==
  IF context.ext # "" THEN <<>>
  ELSE FlattenSeq([i \in DOMAIN Extensions |-> Tried([context EXCEPT !.ext = Extensions[i]])])

ResolveFileContext(context) ==
  LET candidates == Tried(context) \o TryWithExtensions(context)
      found == SelectInSeq(candidates, LAMBDA path : path \in Files \union Folders)
  IN IF found = 0 THEN NoFile ELSE candidates[found]

\* What becomes of the contexts clients ask for.
Resolved == [c \in {p.context : p \in UNION {Calls(t) : t \in Parallel \union Direct}} |-> ResolveFileContext(c)]

\* The directories worth a look for a file that was not found.
Likely(name) == ToSet(Patterns(IF name.ext = "" THEN "js" ELSE name.ext))

\* Those with files of its kind, as far as they are in the cache: a directory that
\* is not there is scanned and only counts the next time.
Suggestions(name) ==
  {d \in Likely(name) \intersect cached :
     \E file \in Files : file[1] = d /\ file[2].ext = IF name.ext = "" THEN "js" ELSE name.ext}

Scanned(name) == {d \in Likely(name) : d = "" \/ \E file \in Files : file[1] = d}

-----------------------------------------------------------------------------
Response(kind, total, items, next) == [kind |-> kind, total |-> total, items |-> items, next |-> next]
Says(kind) == Response(kind, 0, <<>>, 0)

\* Mutant: the next page begins one further.
PageAndSkip(list, offset, limit) ==
  LET end == Min({offset + limit, Len(list)})
  IN IF offset >= Len(list) THEN Says("beyond")
     ELSE IF offset < 0 \/ end < offset THEN Says("panic")
     ELSE Response("page", Len(list), SubSeq(list, offset + 1, end), IF end < Len(list) THEN end + 1 ELSE end)

\* A slice of the list, which panics when its bounds are out of order; next is where
\* the page ends, and that there is more behind it is said when it is not the total.
Page(list, offset, limit) ==
  LET end == Min({offset + limit, Len(list)})
  IN IF offset >= Len(list) THEN Says("beyond")
     ELSE IF offset < 0 \/ end < offset THEN Says("panic")
     ELSE Response("page", Len(list), SubSeq(list, offset + 1, end), end)

\* ApplyPagination: a negative offset is the beginning, and a page of nothing is taken
\* for one beyond the list.
ApplyPagination(list, offset, limit) ==
  LET page == Page(list, IF offset < 0 THEN 0 ELSE offset, limit)
  IN IF page.kind = "page" /\ page.items = <<>> THEN Says("beyond") ELSE page

\* The first n, and how many more there are.
Excerpt(list, n) == [first |-> SubSeq(list, 1, Min({n, Len(list)})), more |-> Len(list) - Min({n, Len(list)})]

\* The client keeps what it saw as long as the list is the one it began with.
Keep(list, page) ==
  LET same == follows /\ (call.offset = 0 \/ list = listing)
  IN /\ follows' = same
     /\ listing' = IF same THEN list ELSE <<>>
     /\ shown' = IF same THEN shown \o page.items ELSE <<>>

\* A panic in a handler ends the program: mcp-go recovers from none unless told to.
Answer(r) ==
  /\ response' = r
  /\ phase' = IF r.kind = "panic" THEN "crashed" ELSE "idle"
  /\ UNCHANGED <<vars, tool, call, value, pending, detail>>

AnswerPage(list, page) == Answer(page) /\ Keep(list, page) /\ UNCHANGED cached

AnswerNotFound(name) ==
  /\ Answer([kind |-> "notFound", suggestions |-> Suggestions(name)])
  /\ cached' = cached \union Scanned(name)
  /\ UNCHANGED client

AnswerOnly(r) == Answer(r) /\ UNCHANGED <<cached, client>>

-----------------------------------------------------------------------------
\* A map of the new call, in the state of Init; a call that asks one server has none
\* and leaves it so.
NewMap ==
  /\ op' = [k \in Keys |-> "running"]
  /\ outcome' = [k \in Keys |-> "none"]
  /\ results' = <<>>
  /\ allResults' = <<>>
  /\ done' = FALSE
  /\ caller' = "collect"

Begin(t, c) ==
  /\ phase = "idle"
  /\ tool' = t
  /\ call' = c
  /\ response' = Says("none")
  /\ pending' = <<>>
  /\ detail' = Says("none")
  /\ NewMap
  /\ value' = [k \in Keys |-> Says("none")]
  /\ phase' = IF t \in Parallel THEN "search" ELSE "ask"
  /\ UNCHANGED cached

FirstCall(t, c) ==
  /\ Begin(t, c)
  /\ follows' = (c.offset = 0)
  /\ listing' = <<>>
  /\ shown' = <<>>

\* The client calls again for what comes next.
NextPage ==
  /\ response.kind = "page" /\ response.next < response.total
  /\ Begin(tool, [call EXCEPT !.offset = response.next])
  /\ UNCHANGED client

\* No project directory, no language, no client, a parameter that is missing.
Refuse ==
  /\ phase = "idle"
  /\ tool' = "none"
  /\ response' = Says("error")
  /\ pending' = <<>> /\ detail' = Says("none")
  /\ NewMap /\ value' = [k \in Keys |-> Says("none")]
  /\ follows' = FALSE /\ listing' = <<>> /\ shown' = <<>>
  /\ UNCHANGED <<call, phase, cached>>

\* A language ends with what its servers found or with an error.
Search(k) ==
  /\ phase \in {"search", "closed"}
  /\ OperationReturns(k)
  /\ \E found \in Found(tool) :
       /\ outcome'[k] = found.kind
       /\ value' = [value EXCEPT ![k] = found]
  /\ UNCHANGED <<tool, call, phase, response, pending, detail, cached, client>>

Forward(k) == Send(k) /\ UNCHANGED session

Collect == phase = "search" /\ (ReceiveResult \/ Return) /\ UNCHANGED session

\* A request never ends, in the search of a language or in what is asked after it.
SearchSticks(k) == phase \in {"search", "closed"} /\ Stick(k) /\ UNCHANGED session

RequestSticks ==
  /\ \/ phase = "ask" /\ ~(tool = "file" /\ Resolved[call.context] = NoFile)
     \/ phase = "search" /\ tool = "references" /\ caller = "ok"
  /\ phase' = "stuck"
  /\ UNCHANGED <<vars, tool, call, value, response, pending, detail, cached, client>>

\* project_analysis passes a background context to the search of its references.
ClientLeaves == phase = "search" /\ tool # "references" /\ ContextEnds /\ UNCHANGED session

Abandon ==
  /\ phase = "search" /\ Cancelled
  /\ response' = Says("error")
  /\ phase' = "closed"
  /\ UNCHANGED <<tool, call, value, pending, detail, cached, client>>

-----------------------------------------------------------------------------
\* Mutant: the first error ends the loop over the results.
FlattenUntilError ==
  LET failed == SelectInSeq(allResults, LAMBDA r : r.outcome = "error")
      kept == IF failed = 0 THEN allResults ELSE SubSeq(allResults, 1, failed - 1)
  IN FlattenSeq([i \in DOMAIN kept |-> value[kept[i].key].items])

\* What the languages found, in the order they ended; an error is logged.
ItemsOf(r) == IF r.outcome = "value" THEN value[r.key].items ELSE <<>>

Flatten == FlattenSeq([i \in DOMAIN allResults |-> ItemsOf(allResults[i])])

\* A location without a range begins and ends at the start of its file.
ToMatch(symbol) ==
  IF symbol.form = "location" THEN symbol
  ELSE [symbol EXCEPT !.from = Position(0, 0), !.to = Position(0, 0)]

InFile(symbols, file) == Picked(symbols, {i \in DOMAIN symbols : symbols[i].uri = file})

\* filterSymbolsByFileContext: a context that names no file ends the call, so the
\* fuzzy match behind it is never reached.
Matches ==
  LET all == Flatten
      matches == [i \in DOMAIN all |-> ToMatch(all[i])]
  IN IF call.context = NoContext THEN matches ELSE InFile(matches, Resolved[call.context])

\* Up to three symbols are all described, whatever the offset; more have a table of
\* contents on the first page, and a page of details unless only basics are asked for
\* or no details at all.
SymbolResponse(symbols) ==
  IF symbols = <<>> THEN Says("empty")
  ELSE IF Len(symbols) <= 3 THEN Page(symbols, 0, 3)
  ELSE IF call.offset < Len(symbols) /\ (call.detail = "basic" \/ call.limit <= 0)
       THEN Response("contents", Len(symbols), <<>>, 0)
  ELSE Page(symbols, call.offset, call.limit)

TableOfContents(symbols) == IF Len(symbols) > 3 /\ call.offset = 0 THEN symbols ELSE <<>>

Ready(t) == phase = "search" /\ tool = t /\ caller = "ok"

ExploreNothing == Ready("explore") /\ Flatten = <<>> /\ AnswerOnly(Says("empty"))

ExploreUnknownFile ==
  /\ Ready("explore") /\ Flatten # <<>>
  /\ call.context # NoContext /\ Resolved[call.context] = NoFile
  /\ AnswerNotFound(call.context)

Explore ==
  /\ Ready("explore") /\ Flatten # <<>>
  /\ call.context # NoContext => Resolved[call.context] # NoFile
  /\ \E symbols \in {Matches} : \E page \in {SymbolResponse(symbols)} :
       /\ response' = [ kind |-> page.kind, total |-> page.total, items |-> page.items, next |-> page.next,
                        contents |-> TableOfContents(symbols) ]
       /\ pending' = page.items
       /\ phase' = IF page.kind = "panic" THEN "crashed" ELSE IF page.items = <<>> THEN "idle" ELSE "ask"
       /\ Keep(symbols, page)
  /\ UNCHANGED <<vars, tool, call, value, detail, cached>>

\* One symbol is described: its range, where hover and references are asked for,
\* which are left out when they fail, and its text unless that cannot be read.
Describe ==
  /\ phase = "ask" /\ tool = "explore"
  /\ \E tokens \in TokenAnswers, symbols \in SymbolAnswers, readable \in BOOLEAN :
       LET symbol == Head(pending)
       IN \E range \in {EnhancedRange(symbol, tokens, symbols)} :
            detail' = [ kind |-> "detail", symbol |-> symbol, from |-> range[1], to |-> range[2],
                        at |-> Position(symbol.from.line, PreciseCharacter(symbol)),
                        content |-> IF readable THEN RangeContent(Lines, range[1], range[2], FALSE) ELSE Error ]
  /\ pending' = Tail(pending)
  /\ phase' = IF Len(pending) = 1 THEN "idle" ELSE "ask"
  /\ UNCHANGED <<vars, tool, call, value, response, cached, client>>

\* The references of the symbol that came first, in the servers of the active language.
References ==
  /\ Ready("references")
  /\ LET symbols == Flatten
     IN IF symbols = <<>> THEN AnswerOnly(Says("noSymbol"))
        ELSE IF symbols[1].form # "location" THEN AnswerOnly(Says("unsupported"))
        ELSE \/ AnswerOnly(Says("error"))
             \/ \E list \in Lists : IF list = <<>> THEN AnswerOnly(Says("noReferences")) 
                                   ELSE AnswerPage(list, Page(list, call.offset, call.limit))

-----------------------------------------------------------------------------
\* Full reports are shown, unchanged ones have nothing to show.
ExtractDiagnostics(reports) ==
  FlattenSeq([i \in DOMAIN reports |-> IF reports[i].form = "full" THEN reports[i].items ELSE <<>>])

Categorize(cause) == IF cause \in {"unsupported", "connection"} THEN cause ELSE "other"

\* A diagnostic is its severity; one without a severity counts as an error.
Summary(diagnostics) ==
  [severity \in Severities |->
     Cardinality({i \in DOMAIN diagnostics :
                    severity = IF diagnostics[i] = "none" THEN "error" ELSE diagnostics[i]})]

Ended(result) == {i \in DOMAIN allResults : allResults[i].outcome = result}

LanguageReport(k) == [key |-> k, diagnostics |-> Excerpt(ExtractDiagnostics(value[k].items), 3)]

FailedWith(failed, category) ==
  Picked(failed, {i \in DOMAIN failed : Categorize(value[failed[i].key].cause) = category})

\* A language that answered has a report: WorkspaceDiagnostic returns one or an error.
Diagnostics ==
  /\ Ready("diagnostics")
  /\ LET answered == Picked(allResults, Ended("value"))
         failed == Picked(allResults, Ended("error"))
     IN AnswerOnly(
          [ kind |-> "report",
            languages |-> [i \in DOMAIN answered |-> LanguageReport(answered[i].key)],
            summary |-> Summary(FlattenSeq([i \in DOMAIN answered |->
                                              ExtractDiagnostics(value[answered[i].key].items)])),
            errors |-> [category \in {"unsupported", "connection", "other"} |-> FailedWith(failed, category)] ])

-----------------------------------------------------------------------------
WorkspaceSymbols ==
  /\ phase = "ask" /\ tool = "workspaceSymbols"
  /\ \/ AnswerOnly(Says("error"))
     \/ \E list \in Lists : AnswerPage(list, ApplyPagination(list, call.offset, call.limit))

DocumentSymbols ==
  /\ phase = "ask" /\ tool = "documentSymbols"
  /\ \/ AnswerOnly(Says("error"))
     \/ \E list \in Lists : IF list = <<>> THEN AnswerOnly(Says("empty"))
                            ELSE AnswerPage(list, Page(list, call.offset, call.limit))

\* Several symbols are listed for the client to choose from; of one the
\* definitions are listed, unless its location has no range.
Definitions ==
  /\ phase = "ask" /\ tool = "definitions"
  /\ \/ AnswerOnly(Says("error"))
     \/ \E symbols \in Lists :
          \/ symbols = <<>> /\ AnswerOnly(Says("empty"))
          \/ Len(symbols) > 1 /\ AnswerOnly(Response("choose", Len(symbols), symbols, 0))
          \/ /\ Len(symbols) = 1
             /\ \E list \in Lists : AnswerOnly(IF list = <<>> THEN Says("empty")
                                               ELSE Response("definitions", Len(list), list, 0))

\* The analysis of a file begins with finding the file.
AnalyseUnknownFile ==
  /\ phase = "ask" /\ tool = "file"
  /\ Resolved[call.context] = NoFile
  /\ AnswerNotFound(call.context)

\* What is said of a result: everything, or the first five of its dependency patterns
\* or calls, and its errors.
InFull == {[first |-> result.items, more |-> 0, errors |-> result.errors] : result \in Analyses}
FirstFive == {Excerpt(result.items, 5) @@ [errors |-> result.errors] : result \in Analyses}

Report(t, reports) ==
  /\ phase = "ask" /\ tool = t
  /\ \/ AnswerOnly(Says("error"))
     \/ \E report \in reports : AnswerOnly([kind |-> "analysis", report |-> report])

AnalyseFile == Report("file", InFull) /\ Resolved[call.context] # NoFile
AnalysePatterns == Report("pattern", InFull)
AnalyseWorkspace == Report("workspace", FirstFive)
AnalyseRelationships == Report("relationships", FirstFive)

\* Five minutes pass.
Expire ==
  /\ phase = "idle"
  /\ \E d \in cached : cached' = cached \ {d}
  /\ UNCHANGED <<vars, tool, call, phase, value, response, pending, detail, client>>

-----------------------------------------------------------------------------
SessionInit ==
  /\ Init
  /\ tool = "none"
  /\ call = [offset |-> 0, limit |-> 0, context |-> NoContext, detail |-> "auto"]
  /\ phase = "idle"
  /\ value = [k \in Keys |-> Says("none")]
  /\ response = Says("none")
  /\ pending = <<>>
  /\ detail = Says("none")
  /\ cached = {}
  /\ follows = FALSE
  /\ listing = <<>>
  /\ shown = <<>>

Respond ==
  \/ ExploreNothing \/ ExploreUnknownFile \/ Explore \/ Describe
  \/ References \/ Diagnostics
  \/ WorkspaceSymbols \/ DocumentSymbols \/ Definitions
  \/ AnalyseUnknownFile \/ AnalyseFile \/ AnalysePatterns \/ AnalyseWorkspace \/ AnalyseRelationships

SessionNext ==
  \/ \E t \in Parallel \union Direct : \E c \in Calls(t) : FirstCall(t, c)
  \/ NextPage \/ Refuse
  \/ \E k \in Keys : Search(k) \/ SearchSticks(k) \/ Forward(k)
  \/ RequestSticks
  \/ Collect \/ ClientLeaves \/ Abandon
  \/ Respond
  \/ Expire

SessionSpec == SessionInit /\ [][SessionNext]_allVars

\* Goroutines run and a request that is not stuck ends by its timeout; nothing makes
\* the client call, leave or follow, and nothing makes a server read.
FairSessionSpec ==
  /\ SessionSpec
  /\ \A k \in Keys : WF_allVars(Search(k)) /\ WF_allVars(Forward(k))
  /\ WF_allVars(Collect \/ Abandon)
  /\ WF_allVars(Respond)

-----------------------------------------------------------------------------
Answered == {k \in Keys : outcome[k] = "value"}

\* What the call is about, of what language k found.
Relevant(k) ==
  {i \in DOMAIN value[k].items : call.context = NoContext \/ value[k].items[i].uri = Resolved[call.context]}

\* The diagnostics of language k.
Reported(k) == DOMAIN ExtractDiagnostics(value[k].items)

\* How many there are of all languages that answered.
Total(Of(_)) == Cardinality(UNION {{k} \X Of(k) : k \in Answered})

(***************************************************************************)
(* A language that fails takes nothing from the others, and a response     *)
(* accounts for all they found: symbol_explore counts every symbol of      *)
(* every language that answered (in the file asked for), and says there is *)
(* none only if there is none; workspace_diagnostics names every language  *)
(* once, with its diagnostics or with its failure, and its summary adds    *)
(* up; a list that is cut short says by how much.                          *)
(***************************************************************************)
ExploreComplete ==
  tool = "explore" /\ caller = "ok" =>
    /\ response.kind \in {"page", "contents"} =>
         /\ response.total = Total(Relevant)
         /\ response.contents # <<>> => Len(response.contents) = response.total
    /\ response.kind = "empty" => \A k \in Answered : Relevant(k) = {}

ReferencesComplete ==
  tool = "references" /\ response.kind = "noSymbol" => \A k \in Answered : value[k].items = <<>>

ReportComplete ==
  response.kind = "report" =>
    /\ Len(response.languages) = Cardinality(Answered)
    /\ \A k \in Answered : \E i \in DOMAIN response.languages :
         LET language == response.languages[i]
         IN /\ language.key = k
            /\ Len(language.diagnostics.first) + language.diagnostics.more = Cardinality(Reported(k))
    /\ Total(Reported) = response.summary["error"] + response.summary["warning"]
                          + response.summary["information"] + response.summary["hint"]
    /\ \A k \in Keys \ Answered :
         Cardinality({c \in DOMAIN response.errors : \E i \in DOMAIN response.errors[c] :
                        response.errors[c][i].key = k}) = 1

NothingLost == ExploreComplete /\ ReferencesComplete /\ ReportComplete

(***************************************************************************)
(* A client that follows a list that stays the same from its beginning, as *)
(* the responses tell it to, sees every item once and in order, is told    *)
(* the truth about how many there are and where it goes on ("%d more       *)
(* matches available. Use offset=%d to see more", symbol_explore.go:585),  *)
(* and gets on with every page if it asks for any items at all.  It is     *)
(* never told that its offset is beyond the list while there is something  *)
(* it has not seen, except by workspace_symbols when it asked for none     *)
(* ("No results (offset %d exceeds total %d)", utils.go:649), and only a   *)
(* negative limit panics.                                                  *)
(***************************************************************************)
PagesComplete ==
  follows =>
    /\ response.kind = "page" =>
         /\ response.total = Len(listing)
         /\ IsPrefix(shown, listing)
         /\ response.next = Len(shown)
         /\ call.limit > 0 => response.items # <<>>
    /\ response.kind = "beyond" => shown = listing \/ (tool = "workspaceSymbols" /\ call.limit = 0)
    /\ response.kind = "panic" => call.limit < 0

(***************************************************************************)
(* The text that is shown for a symbol is the text of the file between the *)
(* positions that are shown with it, except that a text of several lines   *)
(* may lack its last character; and the range begins where the symbol does *)
(* or at most five lines above.                                            *)
(***************************************************************************)
DetailIsText ==
  detail.kind = "detail" =>
    /\ detail.symbol.from.line \in detail.from.line .. detail.from.line + 5
    /\ detail.content # Error =>
         \E lost \in IF detail.from.line = detail.to.line THEN {0} ELSE {0, 1} :
           detail.content = SubSeq(Text(Lines), OffsetOf(Lines, detail.from) + 1, OffsetOf(Lines, detail.to) - lost)

(***************************************************************************)
(* A call returns, in whatever order the languages answer, fail or stay    *)
(* silent, unless one of its requests never ends or the program does; and  *)
(* a search that hangs on the request of one language returns as soon as   *)
(* its client has gone, which the search of project_analysis for           *)
(* references does not notice.                                             *)
(***************************************************************************)
Hangs == phase = "search" /\ ~done /\ \E k \in Keys : op[k] = "stuck"

CallReturns == phase \in {"search", "ask"} ~> phase \in {"idle", "closed", "stuck", "crashed"} \/ Hangs

=============================================================================
