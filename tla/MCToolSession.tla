---------------------------- MODULE MCToolSession ----------------------------
(***************************************************************************)
(* Instances of ToolSession for TLC: two languages that find up to three   *)
(* symbols in two files, so that a call can have none, up to three or more *)
(* matches; lists up to the length where an excerpt is cut.                *)
(***************************************************************************)
EXTENDS ToolSession, TLC

Name(stem, ext) == [stem |-> stem, ext |-> ext]

\* A file in a usual place, one in the workspace directory, and one that only a
\* suggestion leads to.
FileA == <<"cmd", Name("a", "go")>>
FileB == <<"", Name("b", "go")>>
MCFiles == {FileA, FileB, <<"src", Name("c", "jsx")>>}
MCFolders == {<<"", Name("cmd", "")>>}

\* The text "ab", "cdef", "" in three lines.
MCLines == <<<<"a", "b">>, <<"c", "d", "e", "f">>, <<>>>>

At(name, uri, form, from, to) ==
  [name |-> name, kind |-> "function", uri |-> uri, form |-> form, from |-> from, to |-> to]

OneLine == At("f", FileA, "location", Position(1, 1), Position(1, 3))
TwoLines == At("g", FileB, "location", Position(0, 1), Position(1, 2))
NoRange == At("h", FileA, "uriOnly", Position(0, 0), Position(0, 0))
PastEnd == At("i", FileB, "location", Position(1, 2), Position(2, 9))

Values(lists) == {[kind |-> "value", items |-> list] : list \in lists}
Failures(causes) == {[kind |-> "error", items |-> <<>>, cause |-> c] : c \in causes}

MCFound(t) ==
  CASE t = "explore" ->
         Values({<<>>, <<OneLine, TwoLines>>, <<NoRange, PastEnd, TwoLines>>}) \union Failures({"timeout"})
    [] t = "references" -> Values({<<>>, <<OneLine>>, <<NoRange>>}) \union Failures({"unsupported"})
    [] t = "diagnostics" ->
         Values({<<>>,
                 <<[form |-> "full", items |-> <<"error", "none", "hint">>], [form |-> "unchanged", items |-> <<>>],
                   [form |-> "full", items |-> <<"warning">>]>>})
           \union Failures({"unsupported", "connection", "timeout"})

MCLists == {<<>>, <<OneLine>>, [i \in 1 .. 5 |-> [OneLine EXCEPT !.from = Position(i, 0)]]}

MCAnalyses == {[items |-> [i \in 1 .. n |-> i], errors |-> e] : n \in {5, 6}, e \in SUBSET {"failed"}}

Token(char, length) == [line |-> 1, char |-> char, length |-> length, type |-> "function"]
MCTokenAnswers == {Error, <<Token(0, 2), Token(2, 2)>>}

Node(kind, from, to, children) == [kind |-> kind, from |-> from, to |-> to, children |-> children]
MethodNode == Node("function", Position(0, 0), Position(1, 4), <<>>)
ClassNode == Node("class", Position(0, 0), Position(2, 0), <<MethodNode>>)
FunctionNode == Node("function", Position(1, 0), Position(1, 1), <<>>)
MCDocSymbols == {MethodNode, ClassNode, FunctionNode}
MCDepth(s) == IF s = ClassNode THEN 1 ELSE 0
MCSymbolAnswers == {Error, <<ClassNode, FunctionNode>>}

Context(at, stem, ext) == [at |-> at, stem |-> stem, ext |-> ext]
Call(offset, limit, context, level) == [offset |-> offset, limit |-> limit, context |-> context, detail |-> level]

\* From the beginning, beyond the end, and with the numbers no page begins or ends at.
Paged == {Call(o, 2, NoContext, "auto") : o \in {-1, 0, 9}} \union {Call(0, l, NoContext, "auto") : l \in {-1, 0}}
Plain == {Call(0, 2, NoContext, "auto")}

\* Contexts that name a file when an extension is added, a file, a folder, and nothing.
MCCalls(t) ==
  CASE t = "explore" ->
         Paged \union
         {Call(0, 2, NoContext, "basic"), Call(0, 2, Context(Relative, "a", ""), "auto"),
          Call(0, 2, Context("cmd", "a", "go"), "auto"), Call(0, 2, Context(Relative, "cmd", ""), "auto"),
          Call(0, 2, Context(Relative, "x", "jsx"), "auto")}
    [] t = "file" -> {Call(0, 2, Context(Relative, stem, ext), "auto") : <<stem, ext>> \in {<<"b", "go">>, <<"x", "jsx">>}}
    [] t \in {"diagnostics", "definitions", "pattern", "workspace", "relationships"} -> Plain
    [] OTHER -> Paged

=============================================================================
