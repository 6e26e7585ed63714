------------------------------ MODULE MCQueries ------------------------------
(***************************************************************************)
(* Instances of Queries for TLC: per kind a response with something that   *)
(* other servers also find, one that differs, and one that is null or not  *)
(* of the form the request expects.                                        *)
(***************************************************************************)
EXTENDS Queries

CONSTANTS U, V \* documents

Response(form, items) == [form |-> form, items |-> items]
Null == Response("null", <<>>)

At(uri, range) == [uri |-> uri, range |-> range]
Symbol(name, uri, range) == [name |-> name, uri |-> uri, range |-> range]
Node(name, range, children) == [name |-> name, range |-> range, children |-> children]
Leaf(name) == Node(name, "r1", <<>>)
Link(form, uri) == [form |-> form, uri |-> uri, range |-> "r1"]
Signatures(labels, active, parameter) ==
  [form |-> "list", items |-> labels, active |-> active, parameter |-> parameter]
Tokens(data, legend) == [form |-> "list", items |-> data, legend |-> legend]
CutOff(data, legend) == [Tokens(data, legend) EXCEPT !.form = "cut"]

Locations == {Response("list", <<At(U, "r1"), At(V, "r1")>>), Response("list", <<At(V, "r1"), At(V, "r2"), At(V, "r1")>>)}

MCResponses(k) ==
  CASE k = "hover" -> {Response("list", <<"text">>), Response("list", <<"unknown">>), Null}
    [] k = "signature" ->
         {Signatures(<<"f", "g">>, 1, "none"), Signatures(<<"g", "h">>, 0, "p"), Signatures(<<>>, 1, "q")}
    [] k \in {"references", "implementation"} -> Locations \union {Response("single", <<At(U, "r2")>>)}
    [] k = "definition" ->
         {Response("list", <<Link("link", U)>>), Response("list", <<Link("location", U), Link("location", V)>>),
          Response("single", <<Link("location", V)>>)}
    [] k = "symbols" ->
         {Response("list", <<Node("C", "r1", <<Leaf("m"), Leaf("m")>>)>>),
          Response("list", <<Node("C", "r1", <<Leaf("n")>>), Node("C", "r2", <<>>)>>),
          Response("old", <<Leaf("m"), Leaf("C")>>), Null}
    [] k \in {"search", "searchAll"} ->
         {Response("list", <<Symbol("a", U, "r1"), Symbol("b", U, "r1")>>),
          Response("list", <<Symbol("a", U, "r1"), Symbol("a", U, "none"), Symbol("a", "none", "none")>>), Null}
    [] k = "actions" -> {Response("list", <<"fix", "">>), Response("list", <<"fix">>), Null}
    [] k = "format" -> {Response("list", <<"edit">>), Null}
    [] k = "tokens" ->
         {Tokens(<<<<0, 2, 1, 0>>, <<0, 3, 1, 1>>, <<2, 1, 1, 1>>, <<0, 4, 2, 3>>, <<1, 0, 1, 1>>>>, <<"class", "function">>),
          Tokens(<<<<1, 1, 3, 1>>, <<0, 5, 1, 2>>, <<0, 2, 1, 1>>>>, <<>>), Tokens(<<>>, <<"class">>),
          CutOff(<<<<1, 1, 3, 0>>>>, <<"class">>)}
    [] OTHER -> {Response("list", <<"x">>), Null, Response("single", <<"x">>)}

MCDocSymbols ==
  {Leaf("m"), Leaf("n"), Leaf("C"), Node("C", "r2", <<>>)}
    \union {Node("C", "r1", children) : children \in {<<Leaf("m")>>, <<Leaf("m"), Leaf("m")>>, <<Leaf("n")>>}}

MCDepth(symbol) == IF symbol.children = <<>> THEN 0 ELSE 1

MCBase == [line |-> 3, char |-> 5]

=============================================================================
