------------------------------- MODULE Queries -------------------------------
(***************************************************************************)
(* The bridge's queries (bridge/bridge.go) over the requests of the        *)
(* language client (lsp/methods.go).  Hover and signature help ask all     *)
(* capable servers at once, which is FanOut; the other queries ask them    *)
(* one after the other, or ask a single server.  The servers of a language *)
(* come out of a Go map, so they are asked in any order.                   *)
(***************************************************************************)
EXTENDS FanOut, Aggregation, FiniteSets

CONSTANTS
  Responses(_), \* the responses a server may send to a query of a kind
  Targets,      \* the token types a caller looks for
  Base,         \* where the range begins whose tokens it asks for
  Depth(_)      \* how many levels of children a document symbol has

Concurrent == {"hover", "signature"}

\* One server after the other: those that declared the capability, ...
Filtered == {"references", "definition", "symbols", "implementation", "search", "actions", "format"}

\* ... or every one that is connected (per language for diagnostics).
Unfiltered == {"searchAll", "workspaceDiagnostics"}

Single == {"rename", "tokens", "prepareCalls", "incomingCalls", "outgoingCalls"}

Kinds == Concurrent \union Filtered \union Unfiltered \union Single

\* What the decoders of the protocol may give: null is nothing.
ASSUME ResponsesAssumption ==
  \A k \in Kinds : \A r \in Responses(k) :
    /\ r.items \in Seq(Range(r.items))
    /\ r.form = "null" => r.items = <<>>

\* A document symbol.
ASSUME SymbolsAssumption ==
  /\ \A symbol \in DocSymbols :
       symbol = [name |-> symbol.name, range |-> symbol.range, children |-> symbol.children]
  /\ \A r \in Responses("symbols") : Range(r.items) \subseteq DocSymbols

\* An answer is a tree, as it is decoded, and what is merged of a symbol is one too.
ASSUME SymbolTreesAssumption ==
  \A symbol \in DocSymbols :
    /\ Depth(symbol) \in Nat
    /\ symbol.children \in Seq({child \in DocSymbols : Depth(child) < Depth(symbol)})
    /\ [symbol EXCEPT !.children = DeduplicateDocumentSymbols(@)] \in DocSymbols

\* A token is four numbers, and the range asked for begins somewhere.
ASSUME TokensAssumption ==
  /\ Base \in [line : Nat, char : Nat]
  /\ \A r \in Responses("tokens") : Range(r.items) \subseteq Nat \X Nat \X Nat \X Nat

ASSUME ServersAssumption == IsFiniteSet(Servers)

VARIABLES
  kind,     \* the kind of the query, "none" before it
  response, \* what each server sent: [form, items, ...], or NoResponse
  asked,    \* the servers that answered, in the order of the results
  outcome   \* what the caller gets: [error, items, ...], or Pending

queryVars == <<kind, response, asked, outcome>>
allVars == <<vars, queryVars>>

NoResponse == [form |-> "none", items |-> <<>>]
Pending == [error |-> FALSE]
Failed == [error |-> TRUE, items |-> <<>>]
Found(items) == [error |-> FALSE, items |-> items]

QueryInit ==
  /\ Init
  /\ kind = "none"
  /\ response = [s \in Servers |-> NoResponse]
  /\ asked = <<>>
  /\ outcome = Pending

-----------------------------------------------------------------------------
(***************************************************************************)
(* The requests.  A response decodes into the list of its items, which is  *)
(* empty for null, unless its form is not the one the request expects: a   *)
(* single object where a list should be, links where there should be       *)
(* locations, a message with unknown fields.  The numbers of semantic      *)
(* tokens may be cut off within the last token, which is then not among    *)
(* the items.                                                              *)
(***************************************************************************)
Decodes(r) == r.form \in {"list", "null", "cut"}

\* DocumentSymbols asks once for DocumentSymbol[], and again for SymbolInformation[]
\* when that failed or gave nothing; neither form decodes as the other.
DocumentSymbolsReturn(r, first, second) ==
  \/ first = "result" /\ r.form = "list" /\ r.items # <<>>
  \/ second = "result" /\ (r.form = "old" \/ r.items = <<>>)

Outcomes2 == {"result", "error"}

\* What the request of server s may return for response r.
Returns(r) ==
  IF kind = "symbols"
  THEN {IF DocumentSymbolsReturn(r, first, second) THEN "result" ELSE "error" :
          first \in Outcomes2, second \in Outcomes2}
  ELSE IF Decodes(r) THEN Outcomes2 ELSE {"error"}

-----------------------------------------------------------------------------
\* Mutant: the first failure ends the loop.
AnsweredUntilFailure(o) ==
  Picked(o, {i \in DOMAIN o : \A j \in 1 .. i : results[o[j]] = "result"})

\* The servers in o that answered in time.
Answered(o) == Picked(o, {i \in DOMAIN o : results[o[i]] = "result"})

AnswersOf(o) ==
  [i \in DOMAIN Answered(o) |-> [server |-> Answered(o)[i], sent |-> response[Answered(o)[i]]]]

\* The beginning of the list that stands in for a legend the server did not declare.
FallbackTypes == <<"keyword", "class", "interface">>

Legend(r) == IF r.legend = <<>> THEN FallbackTypes ELSE r.legend

SemanticTokens(r) == FindTokensByType(Legend(r), r.items, Targets, Base)

\* The caller gets one of these once the servers in o answered or failed.
Results(o, answers, all) ==
  CASE kind = "hover" -> {Found(HoverContents(answers))}
    [] kind = "signature" -> {MergeSignatures(answers)}
    [] kind \in {"references", "implementation"} -> {Found(DeduplicateLocations(all))}
    [] kind = "definition" -> {Found(DeduplicateDefinitions(all))}
    [] kind = "symbols" -> {Found(DeduplicateDocumentSymbols(all))}
    [] kind = "search" -> {Found(items) : items \in SearchResults(all)}
    [] kind = "searchAll" ->
         {IF all = <<>> /\ (o = <<>> \/ Len(answers) < Len(o)) THEN Failed ELSE Found(all)}
    [] kind = "workspaceDiagnostics" -> {Found(all)}
    [] kind = "actions" ->
         {IF all = <<>> /\ Len(answers) < Len(o) THEN Failed
          ELSE Found(FlattenSeq([i \in DOMAIN answers |-> Titled(answers[i].server, answers[i].sent.items)]))}
    [] kind = "format" -> {IF answers = <<>> THEN Failed ELSE Found(answers[1].sent.items)}
    [] kind \in Single ->
         {IF answers = <<>> THEN Failed
          ELSE Found(IF kind = "tokens" THEN SemanticTokens(answers[1].sent) ELSE all)}

ReturnResult(o) ==
  \E answers \in {AnswersOf(o)} : \E all \in {AllItems(answers)} : outcome' \in Results(o, answers, all)

-----------------------------------------------------------------------------
\* The language is unknown, or no server of it can be connected.
NoServers(k) ==
  /\ caller = "filter"
  /\ kind' = k
  /\ caller' = "returned"
  /\ outcome' = Failed
  /\ UNCHANGED <<capable, worker, query, answer, channel, timer, results, response, asked>>

BeginConcurrent(k) ==
  /\ k \in Concurrent
  /\ kind' = k
  /\ FilterByCapability
  /\ outcome' = IF caller' = "returned" THEN Found(<<>>) ELSE Pending
  /\ UNCHANGED <<response, asked>>

\* A single query goes to the first client that is found for the language.
BeginLoop(k) ==
  /\ k \notin Concurrent
  /\ caller = "filter"
  /\ kind' = k
  /\ \E C \in SUBSET Servers :
       /\ k \in Single => \E s \in Servers : C = {s}
       /\ capable' = C
  /\ caller' = "wait"
  /\ UNCHANGED <<worker, query, answer, channel, timer, results, response, asked, outcome>>

\* One turn of the loop: the document is opened where the query needs it, the
\* server is asked, and its error is logged.  Only code actions give a server
\* up when the document cannot be opened in it, and the effect is the same.
AskNext(s) ==
  /\ kind \notin Concurrent /\ caller = "wait"
  /\ s \in capable \ ToSet(asked)
  /\ s \notin Stalled
  /\ asked' = Append(asked, s)
  /\ \E r \in Responses(kind) :
       /\ response' = [response EXCEPT ![s] = r]
       /\ \E a \in Returns(r) :
            /\ answer' = [answer EXCEPT ![s] = a]
            /\ results' = [results EXCEPT ![s] = a]
  /\ UNCHANGED <<capable, caller, worker, query, channel, timer, kind, outcome>>

\* The parser reads past the end of tokens that are cut off.
RunsOut == kind = "tokens" /\ \E s \in capable : results[s] = "result" /\ response[s].form = "cut"

\* The panic is not recovered, and ends the process.
Panic ==
  /\ caller = "wait" /\ ToSet(asked) = capable
  /\ RunsOut
  /\ caller' = "crashed"
  /\ UNCHANGED <<capable, worker, query, answer, channel, timer, results, queryVars>>

ReturnLoop ==
  /\ kind \notin Concurrent /\ caller = "wait"
  /\ ToSet(asked) = capable
  /\ ~RunsOut
  /\ caller' = "returned"
  /\ ReturnResult(asked)
  /\ UNCHANGED <<capable, worker, query, answer, channel, timer, results, kind, response, asked>>

\* What queryFunc returns in a concurrent query.
AnswerQuery(s) ==
  /\ Answer(s)
  /\ \E r \in Responses(kind) :
       /\ response' = [response EXCEPT ![s] = r]
       /\ answer'[s] \in Returns(r)
  /\ UNCHANGED <<kind, asked, outcome>>

ReturnConcurrent ==
  /\ kind \in Concurrent
  /\ Return
  /\ asked' \in SetToSeqs(capable)
  /\ ReturnResult(asked')
  /\ UNCHANGED <<kind, response>>

Goroutine(s) ==
  /\ kind \in Concurrent
  /\ WorkerStep(s) \/ AlreadyOpen(s) \/ TimerFires(s) \/ Send(s)
  /\ UNCHANGED queryVars

QueryNext ==
  \/ \E k \in Kinds : NoServers(k) \/ BeginConcurrent(k) \/ BeginLoop(k)
  \/ ReturnLoop \/ Panic \/ ReturnConcurrent
  \/ \E s \in Servers : AskNext(s) \/ AnswerQuery(s) \/ Goroutine(s)

QuerySpec == QueryInit /\ [][QueryNext]_allVars

\* As in FanOut: goroutines run, timers fire, and a request to a server that
\* reads its input ends by its timeout.
FairQuerySpec ==
  /\ QuerySpec
  /\ WF_allVars(ReturnLoop \/ Panic) /\ WF_allVars(ReturnConcurrent)
  /\ WF_allVars(\E s \in Servers : AskNext(s))
  /\ \A s \in Servers :
       /\ WF_allVars(WorkerStep(s) /\ UNCHANGED queryVars)
       /\ WF_allVars(TimerFires(s) /\ UNCHANGED queryVars)
       /\ WF_allVars(Send(s) /\ UNCHANGED queryVars)

-----------------------------------------------------------------------------
Merging == {"references", "definition", "symbols", "implementation", "search"}
Concatenating == {"actions", "searchAll", "workspaceDiagnostics"}

KeyOf(item) ==
  CASE kind = "symbols" -> <<item.name, item.range>>
    [] kind = "search" -> SymbolKey(item)
    [] kind = "signature" -> item
    [] OTHER -> <<item.uri, item.range>>

Keys(items) == {KeyOf(items[i]) : i \in DOMAIN items}

\* Every way down a forest of symbols.
Paths(symbols) ==
  LET paths[s \in Seq(DocSymbols)] ==
        UNION {{<<KeyOf(s[i])>>} \union {<<KeyOf(s[i])>> \o p : p \in paths[s[i].children]} : i \in DOMAIN s}
  IN paths[symbols]

NothingTwice(symbols) ==
  LET distinct[s \in Seq(DocSymbols)] ==
        /\ \A i, j \in DOMAIN s : i # j => KeyOf(s[i]) # KeyOf(s[j])
        /\ \A i \in DOMAIN s : distinct[s[i].children]
  IN distinct[symbols]

\* The servers whose answer came in time.
Responders == {s \in capable : results[s] = "result"}

\* What each of them answered, and how much there is of it.
Said(s) == response[s].items
TotalSaid == Cardinality(UNION {{s} \X DOMAIN Said(s) : s \in Responders})

\* The items have every key of every answer, and none twice.
MergedIn(items) ==
  /\ Keys(items) = UNION {Keys(Said(s)) : s \in Responders}
  /\ Cardinality(Keys(items)) = Len(items)

\* The servers that know anything about the place have a part in a hover.
HoversIn(items) ==
  {items[i][1] : i \in DOMAIN items} = {s \in Responders : \E i \in DOMAIN Said(s) : Said(s)[i] # "unknown"}

(***************************************************************************)
(* A query gives what the servers that answered in time found: a server    *)
(* that fails, is late, cannot be decoded or lacks the capability hides    *)
(* nothing of another one, whatever the order.  The merging queries give   *)
(* every key of every answer and none twice (for document symbols on the   *)
(* top level); hover and code actions keep the answers apart; and an error *)
(* is only reported when no server found anything.                         *)
(***************************************************************************)
GatheredIn(result) ==
  IF result.error
  THEN \A s \in Responders : Said(s) = <<>>
  ELSE
    /\ kind \in Merging \union {"signature"} => MergedIn(result.items)
    /\ kind = "hover" => HoversIn(result.items)
    /\ kind \in Concatenating => Len(result.items) = TotalSaid
    /\ kind = "format" => \E s \in Responders : result.items = Said(s)

Gathered == caller = "returned" => GatheredIn(outcome)

(***************************************************************************)
(* Below the top level of document symbols is what one of the servers said *)
(* there, and nothing twice.                                               *)
(***************************************************************************)
SymbolTreesMerged ==
  caller = "returned" /\ kind = "symbols" /\ ~outcome.error =>
    /\ Paths(outcome.items) \subseteq UNION {Paths(Said(s)) : s \in Responders}
    /\ NothingTwice(outcome.items)

\* What the first i of some numbers add up to.
Totals(numbers) ==
  LET total[i \in 0 .. Len(numbers)] == IF i = 0 THEN 0 ELSE total[i - 1] + numbers[i] IN total

Downs(data) == Totals([i \in DOMAIN data |-> data[i][1]])
Rights(data) == Totals([i \in DOMAIN data |-> data[i][2]])

\* The last token up to the i-th that begins a line, 0 for none.
NewLine(data, i) == Max({0} \union {j \in 1 .. i : data[j][1] > 0})

PlaceOf(data, i) ==
  [ line |-> Base.line + Downs(data)[i],
    char |-> IF NewLine(data, i) = 0 THEN Base.char + Rights(data)[i]
             ELSE Rights(data)[i] - Rights(data)[NewLine(data, i) - 1] ]

Wanted(r) == {i \in DOMAIN r.items : r.items[i][4] < Len(Legend(r)) /\ Legend(r)[r.items[i][4] + 1] \in Targets}

(***************************************************************************)
(* The tokens a caller gets are those of the types it looks for, in their  *)
(* order and each at the place the relative encoding means, counted from   *)
(* the start of the range: its line is the sum of the line steps so far,   *)
(* its column the sum of the column steps since the last new line.  Tokens *)
(* that are cut off within one give nothing: they end the process.         *)
(***************************************************************************)
DecodedFrom(r, tokens) ==
  /\ Len(tokens) = Cardinality(Wanted(r))
  /\ \A i \in Wanted(r) :
       tokens[Cardinality({j \in Wanted(r) : j <= i})] =
         [line |-> PlaceOf(r.items, i).line, char |-> PlaceOf(r.items, i).char, length |-> r.items[i][3]]

TokensDecoded ==
  caller = "returned" /\ kind = "tokens" /\ ~outcome.error =>
    \A s \in Responders : DecodedFrom(response[s], outcome.items)

=============================================================================
