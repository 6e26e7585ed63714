---------------------------- MODULE MCConfigLoad ----------------------------
(***************************************************************************)
(* An instance of ConfigLoad for TLC: three files that import each other   *)
(* in any way, the root two, and one server, one extension and two         *)
(* languages.                                                              *)
(***************************************************************************)
EXTENDS ConfigLoad

CONSTANTS R, A, B, Srv, Ext, X, Y

MCFiles == {R, A, B}

Lists(n) == UNION {[1 .. m -> MCFiles] : m \in 0 .. n}

\* What a file says: nothing, a server, or the whole.
Contents ==
  {[defines |-> {}, lists |-> {}, languages |-> {}],
   [defines |-> {Srv}, lists |-> {Srv}, languages |-> {X}],
   [defines |-> {Srv, Ext}, lists |-> {Srv}, languages |-> {X, Y}]}

File(form, imports, content) ==
  [form |-> form, imports |-> imports, defines |-> content.defines,
   lists |-> content.lists, languages |-> [s \in {Srv} |-> [l \in {X, Y} |-> IF l \in content.languages THEN 1 ELSE 0]]]

MCDisks ==
  {[f \in MCFiles |-> CASE f = R -> File("config", r, cs[R])
                        [] f = A -> File("config", a, cs[A])
                        [] f = B -> File(form, b, cs[B])] :
     r \in Lists(2), a \in Lists(1), b \in Lists(1), cs \in [MCFiles -> Contents], form \in Forms}

=============================================================================
