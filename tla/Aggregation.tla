----------------------------- MODULE Aggregation -----------------------------
(***************************************************************************)
(* How the bridge merges what several servers answered (bridge/bridge.go), *)
(* and how semantic tokens are decoded (lsp/semantic_tokens.go).  A        *)
(* location is a record [uri, range]; ranges, names, labels and texts are  *)
(* values that are compared and never looked into.                         *)
(***************************************************************************)
EXTENDS Picks

CONSTANT DocSymbols \* the document symbols of an answer, at any level, merged or not

\* The elements of seq without those whose key an earlier element has.
KeepFirst(Key(_), seq) ==
  Picked(seq, {i \in DOMAIN seq : \A j \in 1 .. (i - 1) : Key(seq[j]) # Key(seq[i])})

DeduplicateLocations(locations) == KeepFirst(LAMBDA loc : <<loc.uri, loc.range>>, locations)

\* A LocationLink counts by its target, a Location by itself: both are [form, uri, range].
DeduplicateDefinitions(definitions) == KeepFirst(LAMBDA def : <<def.uri, def.range>>, definitions)

\* One level: the children of a repeated symbol go with it.
KeepSymbols(symbols) == KeepFirst(LAMBDA symbol : <<symbol.name, symbol.range>>, symbols)

MergeLevel(symbols, Merged(_)) ==
  [i \in DOMAIN KeepSymbols(symbols) |-> [KeepSymbols(symbols)[i] EXCEPT !.children = Merged(@)]]

\* Mutant: the children of a symbol are left as they are.
DeduplicateTopLevel(symbols) == KeepSymbols(symbols)

DeduplicateDocumentSymbols(symbols) ==
  LET merged[s \in Seq(DocSymbols)] == MergeLevel(s, LAMBDA children : merged[children])
  IN MergeLevel(symbols, LAMBDA children : merged[children])

\* A location without a range is LocationUriOnly; a symbol may also have none at all.
SymbolKey(symbol) ==
  CASE symbol.uri = "none"   -> <<symbol.name>>
    [] symbol.range = "none" -> <<symbol.name, symbol.uri>>
    [] OTHER                 -> <<symbol.name, symbol.uri, symbol.range>>

\* The symbols pass through a Go map, which is walked in any order.
SearchResults(symbols) == SetToSeqs(ToSet(KeepFirst(SymbolKey, symbols)))

\* The answers of the servers, each a pair of a server and what it sent: all items.
AllItems(answers) == FlattenSeq([i \in DOMAIN answers |-> answers[i].sent.items])

\* The known parts of the contents of a hover, none of a null one.
ExtractHoverContent(hover) ==
  IF hover.form = "null" THEN <<>>
  ELSE Picked(hover.items, {i \in DOMAIN hover.items : hover.items[i] # "unknown"})

\* What the servers that have any contents say, each under its name.
HoverContents(answers) ==
  LET speaking == Picked(answers, {i \in DOMAIN answers : ExtractHoverContent(answers[i].sent) # <<>>})
  IN [i \in DOMAIN speaking |-> <<speaking[i].server, ExtractHoverContent(speaking[i].sent)>>]

Titled(server, actions) ==
  [i \in DOMAIN actions |-> IF actions[i] = "" THEN <<actions[i]>> ELSE <<server, actions[i]>>]

\* The signatures of all servers by label, with the first active signature that
\* is not the first one and the first active parameter that is there, as the
\* server that sent them counts.
MergeSignatures(answers) ==
  LET filled == Picked(answers, {i \in DOMAIN answers : answers[i].sent.items # <<>>})
      active == {i \in DOMAIN filled : filled[i].sent.active # 0}
      parameter == {i \in DOMAIN filled : filled[i].sent.parameter # "none"}
  IN [ error |-> FALSE,
       items |-> KeepFirst(LAMBDA label : label, AllItems(answers)),
       active |-> IF active = {} THEN 0 ELSE filled[Min(active)].sent.active,
       parameter |-> IF parameter = {} THEN "none" ELSE filled[Min(parameter)].sent.parameter ]

-----------------------------------------------------------------------------
(***************************************************************************)
(* SemanticTokenParser.FindTokensByType.  Each token of data is            *)
(* <<deltaLine, deltaStart, length, type>>, its type an index that counts  *)
(* from 0; a token whose type the parser does not know moves the position  *)
(* like any other and is left out.  The type is the last number it reads;  *)
(* data that ends before it makes the index run out of range.              *)
(***************************************************************************)
\* Mutant: the column goes on counting on the next line.
MoveAlong(at, token) == [line |-> at.line + token[1], char |-> at.char + token[2]]

Move(at, token) ==
  IF token[1] > 0
  THEN [line |-> at.line + token[1], char |-> token[2]]
  ELSE [at EXCEPT !.char = @ + token[2]]

FindTokensByType(tokenTypes, data, targets, base) ==
  LET at[i \in 0 .. Len(data)] == IF i = 0 THEN base ELSE Move(at[i - 1], data[i])
      known == {i \in DOMAIN data : data[i][4] < Len(tokenTypes) /\ tokenTypes[data[i][4] + 1] \in targets}
  IN Picked([i \in DOMAIN data |-> [line |-> at[i].line, char |-> at[i].char, length |-> data[i][3]]], known)

=============================================================================
