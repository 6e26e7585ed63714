---------------------------- MODULE SymbolDetail ----------------------------
(***************************************************************************)
(* How the tools find and cut out the text of a symbol                     *)
(* (mcpserver/tools/symbol_explore.go, utils.go).  Lines and columns count *)
(* from 0, as in the protocol; a line is a sequence of characters.         *)
(***************************************************************************)
EXTENDS Integers, Sequences, SequencesExt, FiniteSetsExt

CONSTANTS
  DocSymbols,  \* the document symbols a server may name, at any level
  Depth(_)     \* how many levels of children one of them has

Position(line, char) == [line |-> line, char |-> char]
IsPosition(p) == p.line \in Nat /\ p.char \in Nat

\* An answer is a tree, as it is decoded.
ASSUME DocSymbolsAssumption ==
  \A s \in DocSymbols :
    /\ IsPosition(s.from) /\ IsPosition(s.to)
    /\ Depth(s) \in Nat /\ s.children \in Seq({c \in DocSymbols : Depth(c) < Depth(s)})

Error == <<"error">>
NewLine == <<"\n">>

-----------------------------------------------------------------------------
(***************************************************************************)
(* getRangeContent.  A column past the end of its line is an error when    *)
(* strict and the end of the line otherwise.  Of several lines the last    *)
(* one is cut one character before the end column.                         *)
(***************************************************************************)
Legal(lines, from, to) ==
  /\ from.line < Len(lines) /\ to.line < Len(lines)
  /\ from.line < to.line \/ (from.line = to.line /\ from.char <= to.char)

OutOfLine(lines, at) == at.char > Len(lines[at.line + 1])

\* Mutant: the start column counts from 1.
TextFromNext(line, char) == SubSeq(line, char + 2, Len(line))

TextFrom(line, char) == SubSeq(line, char + 1, Len(line))

LastLine(line, char) ==
  IF char > Len(line) THEN line ELSE SubSeq(line, 1, char - 1)

RangeContent(lines, from, to, strict) ==
  LET first == lines[from.line + 1]
      last == lines[to.line + 1]
      middle == FlattenSeq([i \in 1 .. (to.line - from.line - 1) |-> NewLine \o lines[from.line + 1 + i]])
  IN IF ~Legal(lines, from, to) THEN Error
     ELSE IF strict /\ (OutOfLine(lines, from) \/ OutOfLine(lines, to)) THEN Error
     ELSE IF from.line = to.line THEN TextFrom(SubSeq(first, 1, Min({to.char, Len(first)})), from.char)
     ELSE TextFrom(first, from.char) \o middle \o NewLine \o LastLine(last, to.char)

-----------------------------------------------------------------------------
\* getSemanticTokenRange: how well a token on the symbol's line fits it.  No token
\* carries its text (FindTokensByType sets none), so names and braces never match.
Score(symbol, token) ==
  LET distance == IF symbol.from.char < token.char THEN token.char - symbol.from.char
                  ELSE symbol.from.char - token.char
  IN (IF distance < 10 THEN 50 - distance ELSE 0)
     + (IF symbol.kind \in {"method", "function"} /\ token.type \in {"method", "function"} THEN 75 ELSE 0)

\* The range of the first of the best tokens, or Error.
SemanticTokenRange(symbol, tokens) ==
  LET onLine == {i \in DOMAIN tokens : tokens[i].line = symbol.from.line}
      best == {i \in onLine : \A j \in onLine : Score(symbol, tokens[j]) <= Score(symbol, tokens[i])}
      token == tokens[Min(best)]
  IN IF best = {} THEN Error
     ELSE <<Position(token.line, token.char), Position(token.line, token.char + token.length)>>

\* A symbol before its children, the children before the next symbol.
Preorder(symbols) ==
  LET order[s \in Seq(DocSymbols)] == FlattenSeq([i \in DOMAIN s |-> <<s[i]>> \o order[s[i].children]])
  IN order[symbols]

\* searchChildSymbols and the loop before it: the first symbol of the same kind
\* that begins on the symbol's line or up to five lines above.
DocumentSymbolRange(symbol, docSymbols) ==
  LET all == Preorder(docSymbols)
      match == SelectInSeq(all, LAMBDA s : /\ s.kind = symbol.kind
                                           /\ symbol.from.line \in s.from.line .. s.from.line + 5)
  IN IF match = 0 THEN <<symbol.from, symbol.to>> ELSE <<all[match].from, all[match].to>>

\* getEnhancedSymbolRange: tokens and docSymbols are what the bridge answers, or Error.
EnhancedRange(symbol, tokens, docSymbols) ==
  LET byToken == IF tokens = Error THEN Error ELSE SemanticTokenRange(symbol, tokens)
  IN IF byToken # Error THEN byToken
     ELSE IF docSymbols = Error THEN <<symbol.from, symbol.to>>
     ELSE DocumentSymbolRange(symbol, docSymbols)

-----------------------------------------------------------------------------
(***************************************************************************)
(* FindPreciseCharacterPosition gives the column it was given: without     *)
(* texts no token matches the name.                                        *)
(***************************************************************************)
PreciseCharacter(symbol) == symbol.from.char

\* Reference definition: the text of a file, and where a position lies in it.
Text(lines) == FlattenSeq([i \in DOMAIN lines |-> IF i = 1 THEN lines[i] ELSE NewLine \o lines[i]])

Clamped(lines, at) == Min({at.char, Len(lines[at.line + 1])})

OffsetOf(lines, at) ==
  Len(FlattenSeq([i \in 1 .. at.line |-> NewLine \o lines[i]])) + Clamped(lines, at)

=============================================================================
