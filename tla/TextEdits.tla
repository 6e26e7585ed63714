------------------------------ MODULE TextEdits ------------------------------
(***************************************************************************)
(* applyTextEditsToContent (bridge/bridge.go): the edits a server returns  *)
(* for one file, all of them in positions of the file as it was, applied   *)
(* one after the other to a list of lines, and beside it what they mean.   *)
(*                                                                         *)
(* A content is a sequence of characters, NL among them; a position is a   *)
(* line and a character, both counted from 0; an edit replaces what lies   *)
(* between two positions by a text.                                        *)
(***************************************************************************)
EXTENDS Picks

CONSTANT NL

Position == [line : Nat, char : Nat]
TextEdit(chars) == [from : Position, to : Position, text : Seq(chars)]

Earlier(p, q) == p.line < q.line \/ (p.line = q.line /\ p.char < q.char)

\* Where the lines of c end: at its line breaks and at its end.
Ends(c) == Picked([i \in 1..Len(c) + 1 |-> i], {i \in 1..Len(c) + 1 : i = Len(c) + 1 \/ c[i] = NL})

\* Characters before line n, counted from 0, of what has its lines end there.
Before(ends, n) == IF n = 0 THEN 0 ELSE ends[n]

\* strings.Split and strings.Join
Split(c) ==
  LET ends == Ends(c)
  IN [n \in DOMAIN ends |-> SubSeq(c, Before(ends, n - 1) + 1, ends[n] - 1)]
Join(lines) == Tail(FlattenSeq([n \in DOMAIN lines |-> <<NL>> \o lines[n]]))

Swap(s, i, j) == [s EXCEPT ![i] = s[j], ![j] = s[i]]

\* Mutant: earlier positions first.
PassForwards(edits, i) ==
  LET after[k \in 0..Len(edits) - i] ==
        IF k = 0 THEN edits
        ELSE LET es == after[k - 1]
             IN IF Earlier(es[i + k].from, es[i].from) THEN Swap(es, i, i + k) ELSE es
  IN after[Len(edits) - i]

\* The inner loop of the sort: place i is compared with every later one.
Pass(edits, i) ==
  LET after[k \in 0..Len(edits) - i] ==
        IF k = 0 THEN edits
        ELSE LET es == after[k - 1]
             IN IF Earlier(es[i].from, es[i + k].from) THEN Swap(es, i, i + k) ELSE es
  IN after[Len(edits) - i]

\* The exchange sort of the code: every pair once, the later position first.
SortBackwards(edits) ==
  LET after[i \in 0..Len(edits)] == IF i = 0 THEN edits ELSE Pass(after[i - 1], i)
  IN after[Len(edits)]

InRange(lines, e) ==
  \A p \in {e.from, e.to} : p.line < Len(lines) /\ p.char <= Len(lines[p.line + 1])

\* One edit, within a line or over several; one that is out of range is skipped.
ApplyEdit(lines, e) ==
  IF InRange(lines, e)
  THEN LET first == lines[e.from.line + 1]
           last  == lines[e.to.line + 1]
       IN SubSeq(lines, 1, e.from.line)
            \o <<SubSeq(first, 1, e.from.char) \o e.text \o SubSeq(last, e.to.char + 1, Len(last))>>
            \o SubSeq(lines, e.to.line + 2, Len(lines))
  ELSE lines

\* The edits one after the other, each to the lines the ones before it left.
ApplyEdits(lines, edits) ==
  LET after[k \in 0..Len(edits)] == IF k = 0 THEN lines ELSE ApplyEdit(after[k - 1], edits[k])
  IN after[Len(edits)]

ApplyTextEditsToContent(c, edits) == Join(ApplyEdits(Split(c), SortBackwards(edits)))

-----------------------------------------------------------------------------
(***************************************************************************)
(* The meaning of the edits: all ranges are replaced at once.  Edits that  *)
(* begin at the same place follow each other in the order of the list: the *)
(* protocol allows insertions there, before one replacement.               *)
(***************************************************************************)
Offset(ends, p) == Before(ends, p.line) + p.char

\* Edit i of the list comes before edit j.
Precedes(edits, i, j) ==
  Earlier(edits[i].from, edits[j].from) \/ (edits[i].from = edits[j].from /\ i < j)

\* No part of the content is in the range of two edits.
Legal(edits) ==
  \A i, j \in DOMAIN edits :
    ~Earlier(edits[i].to, edits[i].from) /\ (Precedes(edits, i, j) => ~Earlier(edits[j].from, edits[i].to))

DistinctStarts(edits) == \A i, j \in DOMAIN edits : i # j => edits[i].from # edits[j].from

\* Before the character of c at place i comes what begins there; it is kept if no edit takes it.
Replaced(c, edits) ==
  LET ends == Ends(c)
      lines == Split(c)
      valid == {k \in DOMAIN edits : InRange(lines, edits[k])}
      from == [k \in valid |-> Offset(ends, edits[k].from)]
      to == [k \in valid |-> Offset(ends, edits[k].to)]
      here(i) == {k \in valid : from[k] + 1 = i}
      inserted(i) == FlattenSeq([k \in DOMAIN edits |-> IF k \in here(i) THEN edits[k].text ELSE <<>>])
      kept(i) == IF i <= Len(c) /\ \A k \in valid : ~(from[k] < i /\ i <= to[k]) THEN <<c[i]>> ELSE <<>>
  IN FlattenSeq([i \in 1..Len(c) + 1 |-> inserted(i) \o kept(i)])

=============================================================================
