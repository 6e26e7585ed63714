---------------------------- MODULE WorkspaceEdit ----------------------------
(***************************************************************************)
(* ApplyWorkspaceEdit and ApplyTextEdits (bridge/bridge.go), behind the    *)
(* rename and format_document tools: the changes a server proposes are     *)
(* applied one after the other, each to a file that is read, edited and    *)
(* written back without a lock; the first error ends the call and leaves   *)
(* the changes made before it.                                             *)
(***************************************************************************)
EXTENDS TextEdits, FiniteSets

CONSTANTS
  Threads,    \* goroutines of tool handlers
  Files,
  Absent,     \* the content of a file that does not exist
  Initial,    \* Initial[f]: the content of f to begin with
  Annotated,  \* an element of a list of edits that is no TextEdit, as AnnotatedTextEdit
  EditsOf     \* EditsOf[t]: the workspace edits a server may answer t with

(***************************************************************************)
(* A workspace edit has documentChanges, applied in their order, and       *)
(* changes, which the code keeps in a map and applies in any order.        *)
(***************************************************************************)
FileEdit == [kind : {"edit"}, file : Files, edits : Seq(TextEdit(STRING))]
Rename == [kind : {"rename"}, file : Files, to : Files]
Change == FileEdit \union Rename \union [kind : {"create", "delete", "other"}, file : Files]

\* What a server sends for one of documentChanges; a deletion may have options.
Proposal == [kind : {"edit"}, file : Files, edits : Seq(TextEdit(STRING) \union {Annotated})]
              \union Rename \union [kind : {"create", "other"}, file : Files]
              \union [kind : {"delete"}, file : Files, options : BOOLEAN]

ASSUME WorkspaceAssumption ==
  /\ NL \in STRING /\ Annotated \notin TextEdit(STRING)
  /\ DOMAIN Initial = Files /\ \A f \in Files : Initial[f] = Absent \/ Initial[f] \in Seq(STRING)
  /\ \A t \in Threads : \A e \in EditsOf[t] :
       e.documentChanges \in Seq(Proposal) /\ e.changes \subseteq FileEdit /\ IsFiniteSet(e.changes)

(***************************************************************************)
(* What becomes of them.  An element that is no TextEdit leaves an empty   *)
(* one in its place.  Each document change is decoded as the first of four *)
(* types that takes its fields, whatever its kind: a deletion without      *)
(* options has those of a CreateFile, which comes before it.               *)
(***************************************************************************)
Blank == LET origin == [line |-> 0, char |-> 0] IN [from |-> origin, to |-> origin, text |-> <<>>]

TextsOf(edits) == [i \in DOMAIN edits |-> IF edits[i] = Annotated THEN Blank ELSE edits[i]]

DecodedChange(c) ==
  CASE c.kind = "edit"   -> [kind |-> "edit", file |-> c.file, edits |-> TextsOf(c.edits)]
    [] c.kind = "delete" -> [kind |-> IF c.options THEN "delete" ELSE "create", file |-> c.file]
    [] OTHER             -> c

Decoded(e) ==
  [documentChanges |-> [i \in DOMAIN e.documentChanges |-> DecodedChange(e.documentChanges[i])],
   changes |-> e.changes]

VARIABLES
  disk,    \* the content of each file
  thread,  \* locals of each thread
  log,     \* history: the changes made, each with the thread that made it
  marred   \* history: for each file, why its content may not be what was meant

vars == <<disk, thread, log, marred>>

\* A write failed; it took away what another call wrote since the read; the edits
\* of a list began at one place or overlapped.
Reasons == {"torn", "lost", "clash"}

NoChange == [kind |-> "none"]
NoEdit == [documentChanges |-> <<>>, changes |-> {}]

Init ==
  /\ disk = Initial
  /\ thread = [t \in Threads |-> [pc |-> "idle", edit |-> NoEdit, todo |-> <<>>, rest |-> {},
                                  cur |-> NoChange, content |-> Absent, outcome |-> "none"]]
  /\ log = <<>>
  /\ marred = [f \in Files |-> {}]

At(t, label) == thread[t].pc = label
Become(t, locals) == thread' = [thread EXCEPT ![t] = locals]

Begin(t, e) ==
  /\ thread[t].outcome = "none"
  /\ Become(t, [thread[t] EXCEPT !.pc = "next", !.edit = e, !.outcome = "running",
                                 !.todo = e.documentChanges, !.rest = e.changes])
  /\ UNCHANGED <<disk, log, marred>>

(***************************************************************************)
(* The loops.  A document change without edits is passed over, and so is   *)
(* one of a type the code does not know.                                   *)
(***************************************************************************)
Skipped(c) == c.kind = "other" \/ (c.kind = "edit" /\ c.edits = <<>>)

NextChange(t) ==
  /\ At(t, "next")
  /\ \/ /\ thread[t].todo # <<>>
        /\ LET c == Head(thread[t].todo)
           IN Become(t, [thread[t] EXCEPT !.pc = IF Skipped(c) THEN "next" ELSE "apply",
                                          !.todo = Tail(@), !.cur = c])
     \/ /\ thread[t].todo = <<>>
        /\ \E c \in thread[t].rest :
             Become(t, [thread[t] EXCEPT !.pc = "apply", !.rest = @ \ {c}, !.cur = c])
     \/ /\ thread[t].todo = <<>> /\ thread[t].rest = {}
        /\ Become(t, [thread[t] EXCEPT !.pc = "idle", !.outcome = "ok"])
  /\ UNCHANGED <<disk, log, marred>>

File(t) == thread[t].cur.file
Applying(t, kind) == At(t, "apply") /\ thread[t].cur.kind = kind

\* The change is made, and the loop goes on.
Made(t) ==
  /\ log' = Append(log, [by |-> t, change |-> thread[t].cur])
  /\ Become(t, [thread[t] EXCEPT !.pc = "next", !.content = Absent])

\* Mutant: the error is recorded and the loop goes on.
GoOn(t) == Become(t, [thread[t] EXCEPT !.pc = "next", !.outcome = "error"])

\* Mutant: the error is dropped and the loop goes on.
Ignore(t) == Become(t, [thread[t] EXCEPT !.pc = "next", !.content = Absent])

Fail(t) == Become(t, [thread[t] EXCEPT !.pc = "idle", !.outcome = "error", !.content = Absent])

\* The path is not allowed, or the operating system refuses before anything changed.
Refused(t) ==
  /\ At(t, "apply") \/ At(t, "write")
  /\ Fail(t)
  /\ UNCHANGED <<disk, log, marred>>

Read(t) ==
  /\ Applying(t, "edit")
  /\ IF disk[File(t)] = Absent
     THEN Fail(t)
     ELSE Become(t, [thread[t] EXCEPT !.pc = "write", !.content = disk[File(t)]])
  /\ UNCHANGED <<disk, log, marred>>

Mark(f, reasons) == marred' = [marred EXCEPT ![f] = @ \union reasons]
Heal(f) == marred' = [marred EXCEPT ![f] = {}]

Separate(edits) == Legal(edits) /\ DistinctStarts(edits)

Write(t) ==
  /\ At(t, "write")
  /\ disk' = [disk EXCEPT ![File(t)] = ApplyTextEditsToContent(thread[t].content, thread[t].cur.edits)]
  /\ Mark(File(t), {r \in {"lost", "clash"} : IF r = "lost" THEN disk[File(t)] # thread[t].content
                                                           ELSE ~Separate(thread[t].cur.edits)})
  /\ Made(t)

\* os.WriteFile has emptied the file when the write itself fails.
WriteFails(t) ==
  /\ At(t, "write")
  /\ disk' = [disk EXCEPT ![File(t)] = <<>>]
  /\ Mark(File(t), {"torn"})
  /\ Fail(t)
  /\ UNCHANGED log

\* os.WriteFile of nothing: a file that exists is emptied.
CreateFile(t) ==
  /\ Applying(t, "create")
  /\ disk' = [disk EXCEPT ![File(t)] = <<>>]
  /\ Heal(File(t))
  /\ Made(t)

\* os.Rename: a file that has the new name is replaced.
RenameFile(t) ==
  /\ Applying(t, "rename")
  /\ IF disk[File(t)] = Absent
     THEN Fail(t) /\ UNCHANGED <<disk, log, marred>>
     ELSE /\ disk' = [disk EXCEPT ![File(t)] = Absent, ![thread[t].cur.to] = disk[File(t)]]
          /\ marred' = [marred EXCEPT ![File(t)] = {}, ![thread[t].cur.to] = marred[File(t)]]
          /\ Made(t)

DeleteFile(t) ==
  /\ Applying(t, "delete")
  /\ IF disk[File(t)] = Absent
     THEN Fail(t) /\ UNCHANGED <<disk, log, marred>>
     ELSE disk' = [disk EXCEPT ![File(t)] = Absent] /\ Heal(File(t)) /\ Made(t)

Ended == \A t \in Threads : At(t, "idle")

Next ==
  \/ \E t \in Threads :
       \/ \E e \in EditsOf[t] : Begin(t, Decoded(e))
       \/ NextChange(t) \/ Refused(t) \/ Read(t) \/ Write(t) \/ WriteFails(t)
       \/ CreateFile(t) \/ RenameFile(t) \/ DeleteFile(t)
  \/ Ended /\ UNCHANGED vars

Spec == Init /\ [][Next]_vars

-----------------------------------------------------------------------------
TypeOK ==
  /\ DOMAIN disk = Files /\ \A f \in Files : disk[f] = Absent \/ disk[f] \in Seq(STRING)
  /\ marred \in [Files -> SUBSET Reasons]
  /\ \A t \in Threads :
       /\ thread[t].pc \in {"idle", "next", "apply", "write"}
       /\ thread[t].outcome \in {"none", "running", "ok", "error"}
       /\ At(t, "idle") <=> thread[t].outcome # "running"
       /\ At(t, "write") <=> thread[t].content # Absent

(***************************************************************************)
(* What a change that was made means for the files.                        *)
(***************************************************************************)
Effect(d, c) ==
  CASE c.kind = "edit"   -> [d EXCEPT ![c.file] = IF @ = Absent THEN Absent ELSE Replaced(@, c.edits)]
    [] c.kind = "create" -> [d EXCEPT ![c.file] = <<>>]
    [] c.kind = "delete" -> [d EXCEPT ![c.file] = Absent]
    [] c.kind = "rename" -> [d EXCEPT ![c.file] = Absent, ![c.to] = d[c.file]]

\* What the changes in made add up to.
Effects(made) ==
  LET after[k \in 0..Len(made)] == IF k = 0 THEN Initial ELSE Effect(after[k - 1], made[k].change)
  IN after[Len(made)]

(***************************************************************************)
(* A file holds exactly what the changes made so far add up to, their      *)
(* edits taken all at once and in the positions the server gave, out of    *)
(* range ones left out, whatever calls run beside each other and wherever  *)
(* one fails.  It may not when a write to it failed, or took away what     *)
(* another call had written since the file was read, or when edits of one  *)
(* list began at one place; and then the doubt follows the content to the  *)
(* name it gets, and ends when the file is deleted or emptied.             *)
(***************************************************************************)
DiskFollowsLog ==
  LET meant == Effects(log) IN \A f \in Files : marred[f] = {} => disk[f] = meant[f]

(***************************************************************************)
(* The same with edits that begin at one place: "This prevents position    *)
(* shifts from affecting subsequent edits" (bridge.go:1756).               *)
(***************************************************************************)
NoPositionShifts ==
  LET meant == Effects(log) IN \A f \in Files : marred[f] \subseteq {"clash"} => disk[f] = meant[f]

Changes(made) == [i \in DOMAIN made |-> made[i].change]
ChangesBy(t) == Changes(Picked(log, {i \in DOMAIN log : log[i].by = t}))

NotSkipped(list) == {i \in DOMAIN list : ~Skipped(list[i])}
Wanted(t) == Picked(thread[t].edit.documentChanges, NotSkipped(thread[t].edit.documentChanges))

(***************************************************************************)
(* A call goes through its document changes, as they were decoded, in      *)
(* their order and without a gap, and after them through the others, none  *)
(* twice; it reports success exactly when it has gone through them all,    *)
(* and an error when one failed.  That is less than "All rename changes    *)
(* have been applied across the codebase" (tools/rename.go:94), which it   *)
(* says at success: a change of an unknown type is passed over, and a      *)
(* change is gone through although edits in it were out of range or no     *)
(* TextEdit and had no effect.                                             *)
(***************************************************************************)
SuccessMeansAllTried ==
  \A t \in Threads :
    LET n == Len(ChangesBy(t))
        total == Len(Wanted(t)) + Cardinality(thread[t].edit.changes)
        others == {ChangesBy(t)[i] : i \in Len(Wanted(t)) + 1 .. n}
    IN /\ IF n <= Len(Wanted(t))
          THEN IsPrefix(ChangesBy(t), Wanted(t))
          ELSE /\ IsPrefix(Wanted(t), ChangesBy(t))
               /\ others \subseteq thread[t].edit.changes /\ Cardinality(others) = n - Len(Wanted(t))
       /\ thread[t].outcome = "ok" => n = total
       /\ thread[t].outcome = "error" => n < total

=============================================================================
