--------------------------- MODULE MCWorkspaceEdit ---------------------------
(***************************************************************************)
(* Instances of WorkspaceEdit for TLC.  The first thread formats a file of *)
(* two lines with any legal list of edits out of a range of lists; the     *)
(* second one runs renames that also create, move and delete files.        *)
(***************************************************************************)
EXTENDS WorkspaceEdit

CONSTANTS F, G, H, Formatter, Renamer

MCFiles == {F, G, H}
MCInitial == [f \in MCFiles |-> CASE f = F -> <<"a", "b", NL, "c">>
                                  [] f = G -> <<"d", "e">>
                                  [] f = H -> Absent]

At0(l, c) == [line |-> l, char |-> c]
Positions == {At0(0, 0), At0(0, 1), At0(0, 2), At0(1, 0), At0(1, 1), At0(2, 0)}
Edits(texts) == {e \in [from : Positions, to : Positions, text : texts] : ~Earlier(e.to, e.from)}

Lists == {s \in UNION {[1..n -> Edits({<<>>, <<"x", NL>>})] : n \in 0..2} : Len(s) = 2 => s[1].text # <<>> /\ s[2].text = <<>>}
           \union [1..3 -> {e \in Edits({<<"z">>}) : e.from.line = 0 /\ e.to.line = 0}]
LegalLists == {s \in Lists : Legal(s)}

EditOf(f, s) == [kind |-> "edit", file |-> f, edits |-> s]
Format(s) == [documentChanges |-> <<>>, changes |-> {EditOf(F, s)}]

Word(c, d, text) == [from |-> At0(0, c), to |-> At0(0, d), text |-> text]
Renames ==
  {[documentChanges |-> <<EditOf(G, <<Word(0, 1, <<"n">>)>>), EditOf(G, <<>>), [kind |-> "rename", file |-> G, to |-> H]>>,
    changes |-> {}],
   [documentChanges |-> <<[kind |-> "create", file |-> H], [kind |-> "delete", file |-> G, options |-> TRUE]>>,
    changes |-> {EditOf(H, <<Word(0, 0, <<"n">>)>>)}],
   [documentChanges |-> <<>>,
    changes |-> {EditOf(F, <<Word(0, 1, <<"n">>)>>), EditOf(G, <<Word(1, 2, <<"n">>)>>)}],
   [documentChanges |-> <<[kind |-> "other", file |-> F], [kind |-> "delete", file |-> H, options |-> TRUE]>>,
    changes |-> {EditOf(H, <<Word(0, 0, <<"n">>)>>)}],
   [documentChanges |-> <<[kind |-> "delete", file |-> F, options |-> FALSE],
                          EditOf(G, <<Annotated, Word(1, 2, <<"n">>)>>)>>,
    changes |-> {}]}

EditsFor(lists) == [t \in {Formatter, Renamer} |-> IF t = Formatter THEN {Format(s) : s \in lists} ELSE Renames]
MostEdits ==
  EditsFor({s \in LegalLists : DistinctStarts(s)}
             \union {<<Word(0, 0, <<"x">>), Word(0, 1, <<"y">>)>>, <<Word(0, 2, <<"x">>), Word(1, 2, <<>>)>>})
AllEdits == EditsFor(LegalLists)

=============================================================================
