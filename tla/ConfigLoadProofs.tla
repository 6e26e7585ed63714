-------------------------- MODULE ConfigLoadProofs --------------------------
(***************************************************************************)
(* Proofs about the load of the configuration, for any files, however they *)
(* import each other: the recursion enters no file twice, and a name has   *)
(* the value of the closest file that defines it.                          *)
(***************************************************************************)
EXTENDS ConfigLoad, FiniteSetTheorems, TLAPS

(***************************************************************************)
(* The files read so far fall into one piece per frame: the frame's own    *)
(* file and the imports merged into it.                                    *)
(***************************************************************************)
End(i) == IF i = Len(calls) THEN Len(order) ELSE calls[i + 1].place - 1

Pieces ==
  /\ calls # <<>> => calls[1].place = 1
  /\ calls = <<>> => order = <<>>
  /\ \A i \in DOMAIN calls : calls[i].place \in 1 .. Len(order) /\ calls[i].place <= End(i)

(***************************************************************************)
(* A frame holds the settings of the files at the places a .. b.           *)
(***************************************************************************)
Holds(frame, d, files, a, b) ==
  /\ \A n \in Names : IsFirst(frame.from[n], n, d, files, a, b)
  /\ frame.lists = UNION {d[files[p]].lists : p \in a .. b}
  /\ \A s \in Servers, l \in Languages :
       /\ frame.languages[s][l] > 0 <=> \E p \in a .. b : d[files[p]].languages[s][l] > 0
       /\ (\A p \in a .. b : d[files[p]].languages[s][l] <= 1) => frame.languages[s][l] <= 1

PiecesHold == \A i \in DOMAIN calls : Holds(calls[i], disk, order, calls[i].place, End(i))

\* A load that has not failed has read all it visited.
VisitedRead ==
  outcome \notin {"unreadable", "crashed"} => visited = {order[p] : p \in DOMAIN order}

(***************************************************************************)
(* A frame's file was visited, and what is pending is the import at which  *)
(* the last frame stands.                                                  *)
(***************************************************************************)
PathOK ==
  /\ \A i \in DOMAIN calls : calls[i].file \in visited
  /\ Loading /\ pending # NoFile /\ calls # <<>> =>
       Top.done \in DOMAIN Imports /\ pending = Imports[Top.done]
  /\ calls = <<>> => pending # NoFile
  /\ Complete => Len(calls) = 1

Inv ==
  /\ disk \in Disks
  /\ TypeOK /\ PathOK /\ ImportsNest
  /\ Pieces /\ PiecesHold /\ VisitedRead

LEMMA InitInv == Init => Inv
  BY ConfigAssumption DEF Init, Inv, TypeOK, PathOK, ImportsNest, Pieces, PiecesHold, VisitedRead, Complete

(***************************************************************************)
(* What the assumption says of the files on disk.                          *)
(***************************************************************************)
LEMMA OnDisk ==
  ASSUME disk \in Disks, NEW f \in Files
  PROVE  /\ disk[f].imports \in Seq(Files) /\ disk[f].defines \subseteq Names
         /\ disk[f].lists \subseteq Servers /\ disk[f].languages \in [Servers -> [Languages -> Nat]]
  BY ConfigAssumption

(***************************************************************************)
(* The first file of two neighbouring pieces that defines a name is that   *)
(* of the left one, if there is one.                                       *)
(***************************************************************************)
LEMMA FirstJoined ==
  ASSUME NEW files \in Seq(Files), NEW d, NEW n,
         NEW a \in 1 .. Len(files), NEW c \in 1 .. Len(files), NEW b \in 1 .. Len(files), a < c, c <= b,
         NEW f, NEW g, IsFirst(f, n, d, files, a, c - 1), IsFirst(g, n, d, files, c, b)
  PROVE  IsFirst(IF f # NoFile THEN f ELSE g, n, d, files, a, b)
  <1>. DEFINE Defines(p) == n \in d[files[p]].defines
  <1>1. \A p \in 1 .. Len(files) : files[p] # NoFile
    BY ConfigAssumption
  <1>2. CASE f # NoFile
    <2>1. PICK p \in a .. c - 1 : f = files[p] /\ Defines(p) /\ \A q \in a .. p - 1 : ~Defines(q)
      BY <1>2 DEF IsFirst
    <2>2. p \in a .. b
      OBVIOUS
    <2>. QED
      BY <1>2, <2>1, <2>2 DEF IsFirst
  <1>3. CASE f = NoFile
    <2>1. \A p \in a .. c - 1 : ~Defines(p)
      BY <1>1, <1>3 DEF IsFirst
    <2>2. CASE g = NoFile
      <3>1. \A p \in c .. b : ~Defines(p)
        BY <1>1, <2>2 DEF IsFirst
      <3>. QED
        BY <1>3, <2>1, <2>2, <3>1 DEF IsFirst
    <2>3. CASE g # NoFile
      <3>1. PICK p \in c .. b : g = files[p] /\ Defines(p) /\ \A q \in c .. p - 1 : ~Defines(q)
        BY <2>3 DEF IsFirst
      <3>2. p \in a .. b /\ \A q \in a .. p - 1 : ~Defines(q)
        BY <2>1, <3>1
      <3>. QED
        BY <1>3, <3>1, <3>2 DEF IsFirst
    <2>. QED
      BY <2>2, <2>3
  <1>. QED
    BY <1>2, <1>3

(***************************************************************************)
(* A piece keeps its first files when order grows at its end.              *)
(***************************************************************************)
LEMMA FirstKept ==
  ASSUME NEW files \in Seq(Files), NEW d, NEW n, NEW f, NEW file,
         NEW a \in Nat \ {0}, NEW b \in Nat, b <= Len(files), IsFirst(f, n, d, files, a, b)
  PROVE  IsFirst(f, n, d, Append(files, file), a, b)
  <1>1. \A p \in 1 .. Len(files) : Append(files, file)[p] = files[p]
    OBVIOUS
  <1>. QED
    BY <1>1 DEF IsFirst

(***************************************************************************)
(* So does a frame keep what it holds.                                     *)
(***************************************************************************)
LEMMA HoldsKept ==
  ASSUME NEW files \in Seq(Files), NEW d, NEW frame, NEW file,
         NEW a \in Nat \ {0}, NEW b \in Nat, b <= Len(files), Holds(frame, d, files, a, b)
  PROVE  Holds(frame, d, Append(files, file), a, b)
  <1>1. \A p \in a .. b : Append(files, file)[p] = files[p]
    OBVIOUS
  <1>2. {d[Append(files, file)[p]].lists : p \in a .. b} = {d[files[p]].lists : p \in a .. b}
    BY <1>1
  <1>3. \A n \in Names : IsFirst(frame.from[n], n, d, Append(files, file), a, b)
    BY FirstKept DEF Holds
  <1>4. frame.lists = UNION {d[Append(files, file)[p]].lists : p \in a .. b}
    BY <1>2 DEF Holds
  <1>5. ASSUME NEW s \in Servers, NEW l \in Languages
        PROVE  /\ frame.languages[s][l] > 0 <=> \E p \in a .. b : d[Append(files, file)[p]].languages[s][l] > 0
               /\ (\A p \in a .. b : d[Append(files, file)[p]].languages[s][l] <= 1) => frame.languages[s][l] <= 1
    BY <1>1 DEF Holds
  <1>. QED
    BY <1>3, <1>4, <1>5 DEF Holds

(***************************************************************************)
(* The ways a load ends leave the frames alone.                            *)
(***************************************************************************)
LEMMA EndInv ==
  ASSUME Inv, Revisit \/ LoadFails \/ LoadCrashes \/ Validate
  PROVE  Inv'
  <1>1. UNCHANGED <<disk, calls, pending, order>> /\ visited \subseteq visited' /\ visited' \subseteq Files
    BY DEF Revisit, LoadFails, LoadCrashes, Validate, Inv, TypeOK
  <1>2. outcome' \in {"ok", "invalid", "circular", "unreadable", "crashed"} /\ (Complete' => Len(calls) = 1)
    BY DEF Revisit, LoadFails, LoadCrashes, Validate, Complete
  <1>3. TypeOK'
    BY <1>1, <1>2 DEF Inv, TypeOK
  <1>4. PathOK'
    BY <1>1, <1>2 DEF Inv, PathOK, Loading
  <1>5. ImportsNest' /\ Pieces' /\ PiecesHold'
    BY <1>1 DEF Inv, ImportsNest, Pieces, PiecesHold, End
  <1>6. VisitedRead'
    BY DEF Inv, VisitedRead, Loading, Revisit, LoadFails, LoadCrashes, Validate, Returning
  <1>. QED
    BY <1>1, <1>3, <1>4, <1>5, <1>6 DEF Inv

(***************************************************************************)
(* A frame that moves on is a frame, of the same file and settings.        *)
(***************************************************************************)
LEMMA Advance ==
  ASSUME NEW frame \in Frame
  PROVE  LET next == [frame EXCEPT !.done = @ + 1] IN
         /\ next \in Frame /\ next.done = frame.done + 1
         /\ next.file = frame.file /\ next.place = frame.place /\ next.from = frame.from
         /\ next.lists = frame.lists /\ next.languages = frame.languages
  <1>. DEFINE next == [frame EXCEPT !.done = @ + 1]
  <1>1. frame = [file |-> frame.file, done |-> frame.done, place |-> frame.place, from |-> frame.from,
                 lists |-> frame.lists, languages |-> frame.languages]
    BY DEF Frame
  <1>2. next = [file |-> frame.file, done |-> frame.done + 1, place |-> frame.place, from |-> frame.from,
                lists |-> frame.lists, languages |-> frame.languages]
    BY <1>1
  <1>3. /\ frame.file \in Files /\ frame.done + 1 \in Nat /\ frame.place \in Nat
        /\ frame.from \in [Names -> Files \union {NoFile}] /\ frame.lists \in SUBSET Servers
        /\ frame.languages \in [Servers -> [Languages -> Nat]]
    BY DEF Frame
  <1>4. next \in Frame
    BY <1>2, <1>3 DEF Frame
  <1>. QED
    BY <1>2, <1>4

(***************************************************************************)
(* Import moves the last frame on and leaves its file and settings alone.  *)
(***************************************************************************)
LEMMA ImportInv ==
  ASSUME Inv, Import
  PROVE  Inv'
  <1>. DEFINE n == Len(calls)
  <1>1. calls \in Seq(Frame) /\ n \in Nat /\ order \in Seq(Files)
    BY DEF Inv, TypeOK
  <1>2. n > 0 /\ calls[n] \in Frame /\ calls[n].file \in Files
    <2>1. calls # <<>>
      BY DEF Inv, PathOK, Import
    <2>2. n > 0 /\ calls[n] \in Frame
      BY <1>1, <2>1
    <2>. QED
      BY <2>2 DEF Frame
  <1>3. /\ calls' = [calls EXCEPT ![n].done = @ + 1]
        /\ pending' = disk[calls[n].file].imports[calls[n].done + 1]
        /\ calls[n].done < Len(disk[calls[n].file].imports)
        /\ UNCHANGED <<disk, visited, outcome, order>> /\ Loading
    BY DEF Import, Top, Imports
  <1>4. disk[calls[n].file].imports \in Seq(Files) /\ calls[n].done \in Nat
    BY <1>2, OnDisk DEF Inv, Frame
  <1>5. /\ calls' \in Seq(Frame) /\ Len(calls') = n
        /\ calls'[n] = [calls[n] EXCEPT !.done = @ + 1]
        /\ \A i \in 1 .. n - 1 : calls'[i] = calls[i]
    <2>1. [calls[n] EXCEPT !.done = @ + 1] \in Frame
      BY <1>2, Advance
    <2>2. calls' = [calls EXCEPT ![n] = [calls[n] EXCEPT !.done = @ + 1]]
      BY <1>3
    <2>3. ASSUME NEW frame \in Frame PROVE [calls EXCEPT ![n] = frame] \in Seq(Frame)
      BY <1>1, <1>2
    <2>4. calls' \in Seq(Frame)
      BY <2>1, <2>2, <2>3
    <2>. QED
      BY <1>1, <1>2, <2>2, <2>4
  <1>6. \A i \in 1 .. n : /\ calls'[i].file = calls[i].file /\ calls'[i].place = calls[i].place
                          /\ calls'[i].from = calls[i].from /\ calls'[i].lists = calls[i].lists
                          /\ calls'[i].languages = calls[i].languages
    <2>1. /\ calls'[n].file = calls[n].file /\ calls'[n].place = calls[n].place /\ calls'[n].from = calls[n].from
          /\ calls'[n].lists = calls[n].lists /\ calls'[n].languages = calls[n].languages
      BY <1>2, <1>5, Advance
    <2>2. \A i \in 1 .. n : i = n \/ i \in 1 .. n - 1
      BY <1>1
    <2>. QED
      BY <1>5, <2>1, <2>2
  <1>7. calls'[n].done = calls[n].done + 1
    BY <1>2, <1>5, Advance
  <1>8. TypeOK'
    <2>1. \A i \in 1 .. n : calls'[i].done <= Len(disk[calls'[i].file].imports)
      BY <1>1, <1>2, <1>3, <1>4, <1>5, <1>6, <1>7 DEF Inv, TypeOK
    <2>2. pending' \in Files
      BY <1>3, <1>4
    <2>. QED
      BY <1>1, <1>3, <1>5, <2>1, <2>2 DEF Inv, TypeOK
  <1>9. PathOK'
    <2>1. \A i \in DOMAIN calls' : calls'[i].file \in visited'
      BY <1>1, <1>3, <1>5, <1>6 DEF Inv, PathOK
    <2>2. Top'.done \in DOMAIN Imports' /\ pending' = Imports'[Top'.done]
      <3>1. Top' = calls'[n] /\ Imports' = disk[calls[n].file].imports
        BY <1>2, <1>3, <1>5, <1>6 DEF Top, Imports
      <3>2. calls[n].done + 1 \in DOMAIN disk[calls[n].file].imports
        BY <1>3, <1>4
      <3>. QED
        BY <1>3, <1>7, <3>1, <3>2
    <2>3. calls' # <<>> /\ ~Complete'
      BY <1>2, <1>3, <1>5 DEF Loading, Complete
    <2>. QED
      BY <2>1, <2>2, <2>3 DEF PathOK
  <1>10. ImportsNest'
    <2>1. ASSUME NEW i \in 1 .. n, NEW j \in 1 .. n, i # j
          PROVE  calls'[i].file # calls'[j].file
      <3>1. calls[i].file # calls[j].file
        BY <1>1, <2>1 DEF Inv, ImportsNest
      <3>. QED
        BY <1>6, <3>1
    <2>2. ASSUME NEW i \in 2 .. n
          PROVE  calls'[i].file = disk[calls'[i - 1].file].imports[calls'[i - 1].done]
      <3>1. i \in DOMAIN calls \ {1} /\ i \in 1 .. n /\ i - 1 \in 1 .. n - 1
        BY <1>1
      <3>2. calls[i].file = disk[calls[i - 1].file].imports[calls[i - 1].done]
        BY <3>1 DEF Inv, ImportsNest
      <3>3. calls'[i - 1] = calls[i - 1]
        BY <1>5, <3>1
      <3>. QED
        BY <1>6, <3>1, <3>2, <3>3
    <2>3. DOMAIN calls' = 1 .. n /\ DOMAIN calls' \ {1} = 2 .. n
      BY <1>1, <1>5
    <2>4. \A i, j \in DOMAIN calls' : i # j => calls'[i].file # calls'[j].file
      BY <2>1, <2>3
    <2>5. ASSUME NEW i \in DOMAIN calls' \ {1}
          PROVE  calls'[i].file = disk'[calls'[i - 1].file].imports[calls'[i - 1].done]
      BY <1>3, <2>2, <2>3
    <2>. QED
      BY <2>4, <2>5 DEF ImportsNest
  <1>11. \A i \in 1 .. n : End(i)' = End(i)
    BY <1>1, <1>3, <1>5, <1>6 DEF End
  <1>12. Pieces'
    BY <1>1, <1>2, <1>3, <1>5, <1>6, <1>11 DEF Inv, Pieces
  <1>13. PiecesHold'
    <2>1. ASSUME NEW i \in 1 .. n PROVE Holds(calls'[i], disk, order, calls'[i].place, End(i)')
      <3>1. Holds(calls[i], disk, order, calls[i].place, End(i))
        BY <1>1 DEF Inv, PiecesHold
      <3>. QED
        BY <1>6, <1>11, <3>1 DEF Holds
    <2>. QED
      BY <1>3, <1>5, <2>1 DEF PiecesHold
  <1>14. VisitedRead'
    BY <1>3 DEF Inv, VisitedRead
  <1>. QED
    BY <1>3, <1>8, <1>9, <1>10, <1>12, <1>13, <1>14 DEF Inv

(***************************************************************************)
(* Read adds a frame, and the file to the end of order: its piece is the   *)
(* file alone, and the other pieces stay as they are.                      *)
(***************************************************************************)
LEMMA ReadInv ==
  ASSUME Inv, Read
  PROVE  Inv'
  <1>. DEFINE n == Len(calls)  m == Len(order)  frame == Parsed(pending)
  <1>1. calls \in Seq(Frame) /\ n \in Nat /\ order \in Seq(Files) /\ m \in Nat
    BY DEF Inv, TypeOK
  <1>2. /\ pending \in Files \ visited /\ pending # NoFile
        /\ visited' = visited \union {pending} /\ pending' = NoFile
        /\ calls' = Append(calls, frame) /\ order' = Append(order, pending)
        /\ UNCHANGED <<disk, outcome>> /\ Loading
    BY ConfigAssumption DEF Read
  <1>3. /\ disk[pending].imports \in Seq(Files) /\ disk[pending].lists \subseteq Servers
        /\ disk[pending].languages \in [Servers -> [Languages -> Nat]]
    BY <1>2, OnDisk DEF Inv
  <1>4. /\ frame \in Frame /\ frame.file = pending /\ frame.done = 0 /\ frame.place = m + 1
        /\ \A k \in Names : frame.from[k] = IF k \in disk[pending].defines THEN pending ELSE NoFile
        /\ frame.lists = disk[pending].lists /\ frame.languages = disk[pending].languages
    <2>. DEFINE from == [k \in Names |-> IF k \in disk[pending].defines THEN pending ELSE NoFile]
    <2>1. frame = [file |-> pending, done |-> 0, place |-> m + 1, from |-> from,
                   lists |-> disk[pending].lists, languages |-> disk[pending].languages]
      BY DEF Parsed
    <2>2. from \in [Names -> Files \union {NoFile}]
      BY <1>2
    <2>. HIDE DEF from
    <2>3. /\ frame \in Frame /\ frame.file = pending /\ frame.done = 0 /\ frame.place = m + 1 /\ frame.from = from
          /\ frame.lists = disk[pending].lists /\ frame.languages = disk[pending].languages
      BY <1>1, <1>2, <1>3, <2>1, <2>2 DEF Frame
    <2>. QED
      BY <2>3 DEF from
  <1>5. /\ calls' \in Seq(Frame) /\ Len(calls') = n + 1 /\ calls'[n + 1] = frame
        /\ \A i \in 1 .. n : calls'[i] = calls[i]
        /\ order' \in Seq(Files) /\ Len(order') = m + 1 /\ order'[m + 1] = pending
    BY <1>1, <1>2, <1>4
  <1>6. \A i \in 1 .. n + 1 : i = n + 1 \/ i \in 1 .. n
    BY <1>1
  <1>7. TypeOK'
    BY <1>1, <1>2, <1>3, <1>4, <1>5, <1>6 DEF Inv, TypeOK
  <1>8. PathOK'
    BY <1>1, <1>2, <1>4, <1>5, <1>6 DEF Inv, PathOK, Loading, Complete
  <1>9. ImportsNest'
    <2>1. \A i \in 1 .. n : calls[i].file # pending
      BY <1>1, <1>2 DEF Inv, PathOK
    <2>2. n > 0 => pending = disk[calls[n].file].imports[calls[n].done]
      BY <1>1, <1>2 DEF Inv, PathOK, Top, Imports
    <2>3. \A i, j \in DOMAIN calls' : i # j => calls'[i].file # calls'[j].file
      BY <1>1, <1>4, <1>5, <1>6, <2>1 DEF Inv, ImportsNest
    <2>4. ASSUME NEW i \in 2 .. n + 1
          PROVE  calls'[i].file = disk[calls'[i - 1].file].imports[calls'[i - 1].done]
      <3>1. CASE i = n + 1
        BY <1>1, <1>4, <1>5, <2>2, <3>1
      <3>2. CASE i \in 2 .. n
        <4>1. i \in DOMAIN calls \ {1} /\ i \in 1 .. n /\ i - 1 \in 1 .. n
          BY <1>1, <3>2
        <4>2. calls[i].file = disk[calls[i - 1].file].imports[calls[i - 1].done]
          BY <4>1 DEF Inv, ImportsNest
        <4>. QED
          BY <1>5, <4>1, <4>2
      <3>. QED
        BY <1>1, <3>1, <3>2
    <2>5. ASSUME NEW i \in DOMAIN calls' \ {1}
          PROVE  calls'[i].file = disk'[calls'[i - 1].file].imports[calls'[i - 1].done]
      <3>1. i \in 2 .. n + 1
        BY <1>1, <1>5
      <3>. QED
        BY <1>2, <2>4, <3>1
    <2>. QED
      BY <2>3, <2>5 DEF ImportsNest
  <1>10. /\ \A i \in 1 .. n + 1 : i = n + 1 => End(i)' = m + 1
         /\ \A i \in 1 .. n : End(i)' = End(i) /\ End(i) \in Nat /\ End(i) <= m
    <2>1. ASSUME NEW i \in 1 .. n PROVE End(i)' = End(i) /\ End(i) \in Nat /\ End(i) <= m
      <3>1. CASE i = n
        BY <1>1, <1>4, <1>5, <3>1 DEF End
      <3>2. CASE i # n
        <4>1. i + 1 \in 1 .. n /\ calls[i + 1].place \in 1 .. m
          BY <1>1, <3>2 DEF Inv, Pieces
        <4>. QED
          BY <1>1, <1>5, <3>2, <4>1 DEF End
      <3>. QED
        BY <3>1, <3>2
    <2>2. ASSUME NEW i \in 1 .. n + 1, i = n + 1 PROVE End(i)' = m + 1
      BY <1>1, <1>5, <2>2 DEF End
    <2>. QED
      BY <2>1, <2>2
  <1>11. Pieces'
    <2>1. n = 0 => m = 0
      BY <1>1 DEF Inv, Pieces
    <2>2. calls'[1].place = 1
      <3>1. CASE n = 0
        BY <1>4, <1>5, <2>1, <3>1
      <3>2. CASE n > 0
        <4>1. calls[1].place = 1
          BY <1>1, <3>2 DEF Inv, Pieces
        <4>. QED
          BY <1>1, <1>5, <3>2, <4>1
      <3>. QED
        BY <1>1, <3>1, <3>2
    <2>3. \A i \in 1 .. n : calls[i].place \in 1 .. m /\ calls[i].place <= End(i)
      BY <1>1 DEF Inv, Pieces
    <2>4. ASSUME NEW i \in 1 .. n + 1
          PROVE  calls'[i].place \in 1 .. m + 1 /\ calls'[i].place <= End(i)'
      <3>1. CASE i = n + 1
        BY <1>1, <1>4, <1>5, <1>10, <3>1
      <3>2. CASE i \in 1 .. n
        BY <1>1, <1>5, <1>10, <2>3, <3>2
      <3>. QED
        BY <1>6, <3>1, <3>2
    <2>. QED
      BY <1>1, <1>5, <2>2, <2>4 DEF Pieces
  <1>12. PiecesHold'
    <2>1. Holds(frame, disk, order', m + 1, m + 1)
      <3>1. m + 1 .. m + 1 = {m + 1} /\ m + 1 .. (m + 1) - 1 = {}
        BY <1>1
      <3>2. ASSUME NEW k \in Names PROVE IsFirst(frame.from[k], k, disk, order', m + 1, m + 1)
        <4>1. IF k \in disk[order'[m + 1]].defines THEN frame.from[k] = order'[m + 1] ELSE frame.from[k] = NoFile
          BY <1>4, <1>5
        <4>. QED
          BY <3>1, <4>1 DEF IsFirst
      <3>3. frame.lists = UNION {disk[order'[p]].lists : p \in m + 1 .. m + 1}
        BY <1>4, <1>5, <3>1
      <3>4. ASSUME NEW s \in Servers, NEW l \in Languages
            PROVE  /\ frame.languages[s][l] > 0 <=> \E p \in m + 1 .. m + 1 : disk[order'[p]].languages[s][l] > 0
                   /\ (\A p \in m + 1 .. m + 1 : disk[order'[p]].languages[s][l] <= 1) => frame.languages[s][l] <= 1
        BY <1>4, <1>5, <3>1
      <3>. QED
        BY <3>2, <3>3, <3>4 DEF Holds
    <2>2. ASSUME NEW i \in 1 .. n
          PROVE  Holds(calls[i], disk, order', calls[i].place, End(i))
      <3>1. Holds(calls[i], disk, order, calls[i].place, End(i))
        BY <1>1 DEF Inv, PiecesHold
      <3>2. calls[i].place \in Nat \ {0}
        BY <1>1 DEF Inv, Pieces
      <3>. QED
        BY <1>1, <1>2, <1>10, <3>1, <3>2, HoldsKept
    <2>3. ASSUME NEW i \in 1 .. n + 1
          PROVE  Holds(calls'[i], disk', order', calls'[i].place, End(i)')
      <3>1. CASE i = n + 1
        BY <1>2, <1>4, <1>5, <1>10, <2>1, <3>1
      <3>2. CASE i \in 1 .. n
        BY <1>2, <1>5, <1>10, <2>2, <3>2
      <3>. QED
        BY <1>6, <3>1, <3>2
    <2>. QED
      BY <1>5, <2>3 DEF PiecesHold
  <1>13. VisitedRead'
    <2>1. visited = {order[p] : p \in 1 .. m}
      BY <1>1, <1>2 DEF Inv, VisitedRead, Loading
    <2>2. \A p \in 1 .. m : order'[p] = order[p]
      BY <1>1, <1>2
    <2>3. 1 .. m + 1 = (1 .. m) \union {m + 1}
      BY <1>1
    <2>4. visited' = {order'[p] : p \in 1 .. m + 1}
      BY <1>2, <1>5, <2>1, <2>2, <2>3
    <2>. QED
      BY <1>5, <2>4 DEF VisitedRead
  <1>. QED
    BY <1>2, <1>7, <1>8, <1>9, <1>11, <1>12, <1>13 DEF Inv

(***************************************************************************)
(* Merging keeps the base's file, place in the imports and place in order. *)
(***************************************************************************)
LEMMA Merged ==
  ASSUME NEW base \in Frame, NEW imported \in Frame
  PROVE  LET both == MergeConfigs(base, imported) IN
         /\ both \in Frame
         /\ both.file = base.file /\ both.done = base.done /\ both.place = base.place
         /\ \A k \in Names : both.from[k] = IF base.from[k] # NoFile THEN base.from[k] ELSE imported.from[k]
         /\ both.lists = base.lists \union imported.lists
         /\ \A s \in Servers : both.languages[s] = MergeLanguages(base.languages[s], imported.languages[s])
  <1>. DEFINE from == [k \in Names |-> IF base.from[k] # NoFile THEN base.from[k] ELSE imported.from[k]]
              languages == [s \in Servers |-> MergeLanguages(base.languages[s], imported.languages[s])]
  <1>1. base = [file |-> base.file, done |-> base.done, place |-> base.place, from |-> base.from,
                lists |-> base.lists, languages |-> base.languages]
    BY DEF Frame
  <1>2. MergeConfigs(base, imported) =
          [file |-> base.file, done |-> base.done, place |-> base.place, from |-> from,
           lists |-> base.lists \union imported.lists, languages |-> languages]
    <2>1. MergeConfigs(base, imported) =
            [base EXCEPT !.from = from, !.lists = base.lists \union imported.lists, !.languages = languages]
      BY DEF MergeConfigs
    <2>. HIDE DEF from, languages
    <2>. QED
      BY <1>1, <2>1
  <1>3. /\ base.file \in Files /\ base.done \in Nat /\ base.place \in Nat
        /\ base.from \in [Names -> Files \union {NoFile}] /\ imported.from \in [Names -> Files \union {NoFile}]
        /\ base.lists \union imported.lists \in SUBSET Servers
        /\ base.languages \in [Servers -> [Languages -> Nat]] /\ imported.languages \in [Servers -> [Languages -> Nat]]
    BY DEF Frame
  <1>4. from \in [Names -> Files \union {NoFile}]
    BY <1>3
  <1>5. languages \in [Servers -> [Languages -> Nat]]
    <2>1. ASSUME NEW s \in Servers
          PROVE  MergeLanguages(base.languages[s], imported.languages[s]) \in [Languages -> Nat]
      <3>1. base.languages[s] \in [Languages -> Nat] /\ imported.languages[s] \in [Languages -> Nat]
        BY <1>3
      <3>. QED
        BY <3>1 DEF MergeLanguages
    <2>. QED
      BY <2>1
  <1>6. MergeConfigs(base, imported) \in Frame
    BY <1>2, <1>3, <1>4, <1>5 DEF Frame
  <1>. HIDE DEF from, languages
  <1>7. LET both == MergeConfigs(base, imported) IN
        both.file = base.file /\ both.done = base.done /\ both.place = base.place
          /\ both.from = from /\ both.lists = base.lists \union imported.lists /\ both.languages = languages
    BY <1>2
  <1>. QED
    BY <1>6, <1>7 DEF from, languages

(***************************************************************************)
(* Frames that hold neighbouring pieces hold both of them when merged.     *)
(***************************************************************************)
LEMMA HoldsJoined ==
  ASSUME NEW files \in Seq(Files), NEW d, NEW base \in Frame, NEW imported \in Frame,
         NEW a \in 1 .. Len(files), NEW c \in 1 .. Len(files), NEW b \in 1 .. Len(files), a < c, c <= b,
         Holds(base, d, files, a, c - 1), Holds(imported, d, files, c, b)
  PROVE  Holds(MergeConfigs(base, imported), d, files, a, b)
  <1>. DEFINE both == MergeConfigs(base, imported)
  <1>1. a .. b = (a .. c - 1) \union (c .. b)
    OBVIOUS
  <1>2. /\ \A k \in Names : both.from[k] = IF base.from[k] # NoFile THEN base.from[k] ELSE imported.from[k]
        /\ both.lists = base.lists \union imported.lists
        /\ \A s \in Servers : both.languages[s] = MergeLanguages(base.languages[s], imported.languages[s])
    BY Merged
  <1>. HIDE DEF both
  <1>3. ASSUME NEW k \in Names PROVE IsFirst(both.from[k], k, d, files, a, b)
    <2>1. IsFirst(base.from[k], k, d, files, a, c - 1) /\ IsFirst(imported.from[k], k, d, files, c, b)
      BY DEF Holds
    <2>. QED
      BY <1>2, <2>1, FirstJoined
  <1>4. both.lists = UNION {d[files[p]].lists : p \in a .. b}
    <2>1. base.lists = UNION {d[files[p]].lists : p \in a .. c - 1}
      BY DEF Holds
    <2>2. imported.lists = UNION {d[files[p]].lists : p \in c .. b}
      BY DEF Holds
    <2>. QED
      BY <1>1, <1>2, <2>1, <2>2
  <1>5. ASSUME NEW s \in Servers, NEW l \in Languages
        PROVE  /\ both.languages[s][l] > 0 <=> \E p \in a .. b : d[files[p]].languages[s][l] > 0
               /\ (\A p \in a .. b : d[files[p]].languages[s][l] <= 1) => both.languages[s][l] <= 1
    <2>1. both.languages[s][l] = IF base.languages[s][l] > 0 THEN base.languages[s][l] ELSE imported.languages[s][l]
      BY <1>2 DEF MergeLanguages
    <2>2. /\ base.languages[s][l] > 0 <=> \E p \in a .. c - 1 : d[files[p]].languages[s][l] > 0
          /\ (\A p \in a .. c - 1 : d[files[p]].languages[s][l] <= 1) => base.languages[s][l] <= 1
      BY DEF Holds
    <2>3. /\ imported.languages[s][l] > 0 <=> \E p \in c .. b : d[files[p]].languages[s][l] > 0
          /\ (\A p \in c .. b : d[files[p]].languages[s][l] <= 1) => imported.languages[s][l] <= 1
      BY DEF Holds
    <2>. QED
      BY <1>1, <2>1, <2>2, <2>3
  <1>6. Holds(both, d, files, a, b)
    BY <1>3, <1>4, <1>5 DEF Holds
  <1>. QED
    BY <1>6 DEF both

(***************************************************************************)
(* Return joins the last two pieces, which is what merging the last two    *)
(* frames means.                                                           *)
(***************************************************************************)
LEMMA ReturnInv ==
  ASSUME Inv, Return
  PROVE  Inv'
  <1>. DEFINE n == Len(calls)  m == Len(order)  both == MergeConfigs(calls[n - 1], calls[n])
  <1>1. calls \in Seq(Frame) /\ n \in Nat /\ n > 1 /\ order \in Seq(Files) /\ m \in Nat
    BY DEF Inv, TypeOK, Return
  <1>2. /\ calls' = [i \in 1 .. n - 1 |-> IF i = n - 1 THEN both ELSE calls[i]]
        /\ UNCHANGED <<disk, pending, visited, outcome, order>> /\ Loading /\ pending = NoFile
    <2>1. \A i \in 1 .. n - 1 : (IF i = n - 1 THEN MergeConfigs(calls[i], Top) ELSE calls[i])
                                 = (IF i = n - 1 THEN both ELSE calls[i])
      BY DEF Top
    <2>. QED
      BY <2>1 DEF Return, Returning
  <1>3. n - 1 \in 1 .. n /\ n \in 1 .. n /\ calls[n - 1] \in Frame /\ calls[n] \in Frame
    BY <1>1
  <1>4. /\ both \in Frame
        /\ both.file = calls[n - 1].file /\ both.done = calls[n - 1].done /\ both.place = calls[n - 1].place
        /\ \A k \in Names : both.from[k] = IF calls[n - 1].from[k] # NoFile THEN calls[n - 1].from[k] ELSE calls[n].from[k]
    BY <1>3, Merged
  <1>. HIDE DEF both
  <1>5. /\ calls' \in Seq(Frame) /\ Len(calls') = n - 1 /\ DOMAIN calls' = 1 .. n - 1
        /\ calls'[n - 1] = both /\ \A i \in 1 .. n - 2 : calls'[i] = calls[i]
    <2>1. calls' \in [1 .. n - 1 -> Frame]
      BY <1>1, <1>2, <1>4
    <2>2. n - 1 \in Nat
      BY <1>1
    <2>3. calls' \in Seq(Frame) /\ Len(calls') = n - 1
      BY <2>1, <2>2
    <2>. QED
      BY <1>1, <1>2, <2>1, <2>3
  <1>6. \A i \in 1 .. n - 1 : (i = n - 1 \/ i \in 1 .. n - 2) /\ i \in 1 .. n
    BY <1>1
  <1>7. \A i \in 1 .. n - 1 : /\ calls'[i].file = calls[i].file /\ calls'[i].done = calls[i].done
                              /\ calls'[i].place = calls[i].place
    BY <1>4, <1>5, <1>6
  <1>8. TypeOK'
    <2>1. \A i \in DOMAIN calls' : calls'[i].done <= Len(disk'[calls'[i].file].imports)
      <3>1. \A i \in 1 .. n - 1 : calls[i].done <= Len(disk[calls[i].file].imports)
        BY <1>1, <1>6 DEF Inv, TypeOK
      <3>. QED
        BY <1>2, <1>5, <1>7, <3>1
    <2>. QED
      BY <1>2, <1>5, <2>1 DEF Inv, TypeOK
  <1>9. PathOK'
    <2>1. \A i \in DOMAIN calls' : calls'[i].file \in visited'
      BY <1>1, <1>2, <1>5, <1>6, <1>7 DEF Inv, PathOK
    <2>2. calls' # <<>> /\ pending' = NoFile /\ ~Complete'
      <3>1. Len(calls') # 0 /\ outcome' = "loading"
        BY <1>1, <1>2, <1>5 DEF Loading
      <3>. QED
        BY <1>2, <3>1 DEF Complete
    <2>. QED
      BY <2>1, <2>2 DEF PathOK
  <1>10. ImportsNest'
    <2>1. ASSUME NEW i \in 1 .. n - 1, NEW j \in 1 .. n - 1, i # j
          PROVE  calls'[i].file # calls'[j].file
      <3>1. i \in DOMAIN calls /\ j \in DOMAIN calls
        BY <1>1, <1>6
      <3>2. calls[i].file # calls[j].file
        BY <2>1, <3>1 DEF Inv, ImportsNest
      <3>. QED
        BY <1>7, <3>2
    <2>2. ASSUME NEW i \in 2 .. n - 1
          PROVE  calls'[i].file = disk[calls'[i - 1].file].imports[calls'[i - 1].done]
      <3>1. i \in DOMAIN calls \ {1} /\ i \in 1 .. n - 1 /\ i - 1 \in 1 .. n - 1
        BY <1>1
      <3>2. calls[i].file = disk[calls[i - 1].file].imports[calls[i - 1].done]
        BY <3>1 DEF Inv, ImportsNest
      <3>. QED
        BY <1>7, <3>1, <3>2
    <2>3. DOMAIN calls' \ {1} = 2 .. n - 1
      BY <1>1, <1>5
    <2>4. \A i, j \in DOMAIN calls' : i # j => calls'[i].file # calls'[j].file
      BY <1>5, <2>1
    <2>5. ASSUME NEW i \in DOMAIN calls' \ {1}
          PROVE  calls'[i].file = disk'[calls'[i - 1].file].imports[calls'[i - 1].done]
      BY <1>2, <2>2, <2>3
    <2>. QED
      BY <2>4, <2>5 DEF ImportsNest
  <1>11. /\ \A i \in 1 .. n - 2 : End(i)' = End(i)
         /\ \A i \in 1 .. n - 1 : i = n - 1 => End(i)' = m
         /\ End(n - 1) = calls[n].place - 1 /\ End(n) = m
    <2>1. ASSUME NEW i \in 1 .. n - 2 PROVE End(i)' = End(i)
      <3>1. i + 1 \in 1 .. n - 1 /\ i # n - 1 /\ i # n
        BY <1>1
      <3>. QED
        BY <1>5, <1>7, <3>1 DEF End
    <2>2. ASSUME NEW i \in 1 .. n - 1, i = n - 1 PROVE End(i)' = m
      BY <1>2, <1>5, <2>2 DEF End
    <2>3. End(n - 1) = calls[n].place - 1 /\ End(n) = m
      BY <1>1 DEF End
    <2>. QED
      BY <2>1, <2>2, <2>3
  <1>12. /\ calls[n - 1].place \in 1 .. m /\ calls[n].place \in 1 .. m
         /\ calls[n - 1].place < calls[n].place /\ m \in 1 .. m
    <2>1. /\ calls[n - 1].place \in 1 .. m /\ calls[n].place \in 1 .. m
          /\ calls[n - 1].place <= End(n - 1)
      BY <1>1, <1>3 DEF Inv, Pieces
    <2>. QED
      BY <1>1, <1>11, <2>1
  <1>13. Pieces'
    <2>1. calls'[1].place = 1
      <3>1. calls[1].place = 1 /\ 1 \in 1 .. n - 1
        BY <1>1 DEF Inv, Pieces
      <3>. QED
        BY <1>7, <3>1
    <2>2. ASSUME NEW i \in 1 .. n - 1
          PROVE  calls'[i].place \in 1 .. m /\ calls'[i].place <= End(i)'
      <3>1. CASE i = n - 1
        BY <1>1, <1>7, <1>11, <1>12, <3>1
      <3>2. CASE i \in 1 .. n - 2
        <4>1. i \in 1 .. n /\ calls[i].place \in 1 .. m /\ calls[i].place <= End(i)
          BY <1>1, <3>2 DEF Inv, Pieces
        <4>. QED
          BY <1>5, <1>11, <3>2, <4>1
      <3>. QED
        BY <1>6, <3>1, <3>2
    <2>. QED
      BY <1>1, <1>2, <1>5, <2>1, <2>2 DEF Pieces
  <1>14. PiecesHold'
    <2>1. Holds(both, disk, order, calls[n - 1].place, m)
      <3>1. /\ Holds(calls[n - 1], disk, order, calls[n - 1].place, calls[n].place - 1)
            /\ Holds(calls[n], disk, order, calls[n].place, m)
        BY <1>1, <1>3, <1>11 DEF Inv, PiecesHold
      <3>2. calls[n].place <= m
        BY <1>1, <1>12
      <3>. QED
        BY <1>1, <1>3, <1>12, <3>1, <3>2, HoldsJoined DEF both
    <2>2. ASSUME NEW i \in 1 .. n - 1
          PROVE  Holds(calls'[i], disk, order, calls'[i].place, End(i)')
      <3>1. CASE i = n - 1
        BY <1>4, <1>5, <1>11, <2>1, <3>1
      <3>2. CASE i \in 1 .. n - 2
        <4>1. Holds(calls[i], disk, order, calls[i].place, End(i))
          BY <1>1, <1>6 DEF Inv, PiecesHold
        <4>. QED
          BY <1>5, <1>11, <3>2, <4>1
      <3>. QED
        BY <1>6, <3>1, <3>2
    <2>. QED
      BY <1>2, <1>5, <2>2 DEF PiecesHold
  <1>15. VisitedRead'
    BY <1>2 DEF Inv, VisitedRead
  <1>. QED
    BY <1>2, <1>8, <1>9, <1>10, <1>13, <1>14, <1>15 DEF Inv

LEMMA NextInv == Inv /\ [Next]_vars => Inv'
  <1>. SUFFICES ASSUME Inv, [Next]_vars PROVE Inv'
    OBVIOUS
  <1>1. CASE Revisit \/ LoadFails \/ LoadCrashes \/ Validate
    BY <1>1, EndInv
  <1>2. CASE Read
    BY <1>2, ReadInv
  <1>3. CASE Import
    BY <1>3, ImportInv
  <1>4. CASE Return
    BY <1>4, ReturnInv
  <1>5. CASE UNCHANGED vars
    BY <1>5 DEF vars, Inv, TypeOK, PathOK, ImportsNest, Pieces, PiecesHold, VisitedRead, End, Complete, Loading, Top, Imports
  <1>. QED
    BY <1>1, <1>2, <1>3, <1>4, <1>5 DEF Next

(***************************************************************************)
(* What is proved of a load at every step: the types, the path of imports, *)
(* and what each frame holds.                                              *)
(***************************************************************************)
THEOREM Invariance == Spec => []Inv
  BY InitInv, NextInv, PTL DEF Spec

(***************************************************************************)
(* Every value is of its type, and no file stands behind its last import.  *)
(***************************************************************************)
THEOREM TypeCorrect == Spec => []TypeOK
  <1>1. Inv => TypeOK
    BY DEF Inv
  <1>. QED
    BY <1>1, Invariance, PTL

(***************************************************************************)
(* loadLSPConfigRecursive never runs twice for one file at a time, however *)
(* the files import each other.                                            *)
(***************************************************************************)
THEOREM NoFileTwice == Spec => []ImportsNest
  <1>1. Inv => ImportsNest
    BY DEF Inv
  <1>. QED
    BY <1>1, Invariance, PTL

(***************************************************************************)
(* At the end the one frame left holds the settings of all files read.     *)
(***************************************************************************)
LEMMA RootHoldsAll ==
  ASSUME Inv, Complete
  PROVE  Holds(calls[1], disk, order, 1, Len(order)) /\ visited = {order[p] : p \in 1 .. Len(order)}
  <1>1. calls \in Seq(Frame) /\ Len(calls) = 1 /\ order \in Seq(Files)
    BY DEF Inv, TypeOK, PathOK
  <1>2. calls[1].place = 1
    BY <1>1 DEF Inv, Pieces
  <1>3. End(1) = Len(order)
    BY <1>1 DEF End
  <1>4. Holds(calls[1], disk, order, 1, Len(order))
    BY <1>1, <1>2, <1>3 DEF Inv, PiecesHold
  <1>. QED
    BY <1>1, <1>4 DEF Inv, VisitedRead, Complete

(***************************************************************************)
(* mergeConfigs gives every name the value of the first file, in the order *)
(* they are read, that defines it, at any depth of imports.                *)
(***************************************************************************)
THEOREM ClosestAlwaysWins == Spec => []ClosestWins
  <1>1. Inv => ClosestWins
    BY RootHoldsAll DEF ClosestWins, Holds
  <1>. QED
    BY <1>1, Invariance, PTL

(***************************************************************************)
(* mergeConfigs loses no language of any file, and repeats none that no    *)
(* file repeats, whatever the order of the merges.                         *)
(***************************************************************************)
THEOREM LanguagesAlwaysComplete == Spec => []LanguagesComplete
  <1>1. ASSUME Inv, Complete
        PROVE  /\ calls[1].lists = UNION {disk[f].lists : f \in visited}
               /\ \A s \in Servers, l \in Languages :
                    /\ calls[1].languages[s][l] > 0 <=> \E f \in visited : disk[f].languages[s][l] > 0
                    /\ (\A f \in visited : disk[f].languages[s][l] <= 1) => calls[1].languages[s][l] <= 1
    <2>1. Holds(calls[1], disk, order, 1, Len(order)) /\ visited = {order[p] : p \in 1 .. Len(order)}
      BY <1>1, RootHoldsAll
    <2>2. calls[1].lists = UNION {disk[f].lists : f \in visited}
      <3>1. calls[1].lists = UNION {disk[order[p]].lists : p \in 1 .. Len(order)}
        BY <2>1 DEF Holds
      <3>. QED
        BY <2>1, <3>1
    <2>3. ASSUME NEW s \in Servers, NEW l \in Languages
          PROVE  /\ calls[1].languages[s][l] > 0 <=> \E f \in visited : disk[f].languages[s][l] > 0
                 /\ (\A f \in visited : disk[f].languages[s][l] <= 1) => calls[1].languages[s][l] <= 1
      BY <2>1 DEF Holds
    <2>. QED
      BY <2>2, <2>3
  <1>2. Inv => LanguagesComplete
    BY <1>1 DEF LanguagesComplete
  <1>. QED
    BY <1>2, Invariance, PTL

-----------------------------------------------------------------------------
(***************************************************************************)
(* The imports followed so far: those of the files visited, up to where    *)
(* the frame of the file stands if it has one.  An import is a file and    *)
(* the place in its list; the one that is pending is not settled yet.      *)
(***************************************************************************)
Edges(S) == UNION {{g} \X DOMAIN disk[g].imports : g \in S}
Target(e) == disk[e[1]].imports[e[2]]
Followed == {e \in Edges(visited) : \A i \in DOMAIN calls : calls[i].file = e[1] => e[2] <= calls[i].done}
Settled == IF pending # NoFile /\ calls # <<>> THEN Followed \ {<<Top.file, Top.done>>} ELSE Followed

\* A refused file was visited, and the last import followed names it once more.
RevisitedAt(f) ==
  /\ calls # <<>> /\ f \in visited /\ f # NoFile
  /\ <<Top.file, Top.done>> \in Followed /\ Target(<<Top.file, Top.done>>) = f

(***************************************************************************)
(* As long as every file can be read, what was visited is reached from the *)
(* root, each file but the root over exactly one of the imports followed.  *)
(***************************************************************************)
OnePathEach ==
  /\ Root \in visited \/ (visited = {} /\ pending = Root /\ calls = <<>>)
  /\ calls = <<>> => visited = {}
  /\ visited \subseteq Reachable /\ (pending # NoFile => pending \in Reachable)
  /\ \A e \in Settled : Target(e) \in visited \ {Root}
  /\ \A f \in visited \ {Root} : \E e \in Settled : Target(e) = f
  /\ \A d, e \in Settled : Target(d) = Target(e) => d = e
  /\ Complete => pending = NoFile /\ Top.done = Len(Imports)
  /\ outcome = "circular" => RevisitedAt(pending)

TreeInv == outcome \notin {"unreadable", "crashed"} => OnePathEach

LEMMA FollowedIs ==
  ASSUME Inv
  PROVE  /\ \A e \in Followed : \E g \in visited : \E i \in DOMAIN disk[g].imports : e = <<g, i>>
         /\ \A g \in visited : \A i \in DOMAIN disk[g].imports :
              <<g, i>> \in Followed <=> \A k \in DOMAIN calls : calls[k].file = g => i <= calls[k].done
  BY DEF Followed, Edges

(***************************************************************************)
(* The import at which the last frame stands is one of those followed.     *)
(***************************************************************************)
LEMMA LastFollowed ==
  ASSUME Inv, Loading, pending # NoFile, calls # <<>>
  PROVE  <<Top.file, Top.done>> \in Followed /\ Target(<<Top.file, Top.done>>) = pending
  <1>1. calls \in Seq(Frame) /\ Len(calls) \in DOMAIN calls
    BY DEF Inv, TypeOK
  <1>2. Top.done \in DOMAIN disk[Top.file].imports /\ pending = disk[Top.file].imports[Top.done] /\ Top.file \in visited
    BY <1>1 DEF Inv, PathOK, Imports, Top
  <1>3. \A k \in DOMAIN calls : calls[k].file = Top.file => calls[k] = Top
    BY <1>1 DEF Inv, ImportsNest, Top
  <1>4. Top \in Frame
    BY <1>1 DEF Top
  <1>5. Top.done <= Top.done
    BY <1>4 DEF Frame
  <1>. QED
    BY <1>2, <1>3, <1>5, FollowedIs DEF Target

(***************************************************************************)
(* What is reached from the root is there whether or not it was visited,   *)
(* and the imports of a file that is reached are reached.                  *)
(***************************************************************************)
LEMMA ReachableClosed ==
  ASSUME disk \in Disks
  PROVE  /\ Root \in Reachable /\ Reachable \subseteq Files
         /\ \A f \in Reachable : \A i \in DOMAIN disk[f].imports : disk[f].imports[i] \in Reachable
         /\ \A S \in SUBSET Files :
              Root \in S /\ (\A g \in S : \A i \in DOMAIN disk[g].imports : disk[g].imports[i] \in S) => Reachable \subseteq S
  <1>1. \A f \in Files : \A i \in DOMAIN disk[f].imports : disk[f].imports[i] \in Files
    BY OnDisk
  <1>. QED
    BY <1>1, ConfigAssumption DEF Reachable

LEMMA TreeInit == Init => TreeInv
  <1>. SUFFICES ASSUME Init PROVE OnePathEach
    BY DEF TreeInv
  <1>1. Edges(visited) = {} /\ Settled = {}
    BY DEF Init, Edges, Followed, Settled
  <1>2. pending \in Reachable
    BY ReachableClosed DEF Init
  <1>. QED
    BY <1>1, <1>2 DEF Init, OnePathEach, Complete

LEMMA TreeRead ==
  ASSUME Inv, OnePathEach, Read
  PROVE  OnePathEach'
  <1>1. /\ calls \in Seq(Frame) /\ disk' = disk /\ outcome' = outcome /\ Loading /\ pending # NoFile /\ pending' = NoFile
        /\ pending \notin visited /\ visited' = visited \union {pending} /\ pending \in Files
        /\ visited \subseteq Files /\ disk \in Disks
    BY ConfigAssumption DEF Read, Inv, TypeOK
  <1>2. /\ Len(calls') = Len(calls) + 1 /\ DOMAIN calls' = DOMAIN calls \union {Len(calls) + 1}
        /\ \A k \in DOMAIN calls : calls'[k] = calls[k]
        /\ calls'[Len(calls) + 1].file = pending /\ calls'[Len(calls) + 1].done = 0
        /\ calls' # <<>>
    BY <1>1 DEF Read, Parsed
  <1>3. Followed' = Followed
    <2>1. \A e : e \in Edges(visited) => e[1] \in visited
      BY DEF Edges
    <2>2. \A e : e \in Edges(visited)' <=> e \in Edges(visited) \/ \E i \in DOMAIN disk[pending].imports : e = <<pending, i>>
      BY <1>1 DEF Edges
    <2>3. \A i \in DOMAIN disk[pending].imports : ~(i <= 0)
      BY <1>1, OnDisk
    <2>4. ASSUME NEW e PROVE e \in Followed' <=> e \in Followed
      <3>1. CASE e[1] = pending
        <4>1. e \notin Followed
          BY <3>1, <2>1, <1>1 DEF Followed
        <4>2. e \notin Followed'
          <5>1. SUFFICES ASSUME e \in Followed' PROVE FALSE
            OBVIOUS
          <5>2. e \in Edges(visited)' /\ \A k \in DOMAIN calls' : calls'[k].file = e[1] => e[2] <= calls'[k].done
            BY <5>1 DEF Followed
          <5>3. e \notin Edges(visited)
            BY <3>1, <2>1, <1>1
          <5>4. PICK i \in DOMAIN disk[pending].imports : e = <<pending, i>>
            BY <5>2, <5>3, <2>2
          <5>5. e[2] <= 0
            BY <5>2, <3>1, <1>2
          <5>. QED
            BY <5>4, <5>5, <2>3
        <4>. QED
          BY <4>1, <4>2
      <3>2. CASE e[1] # pending
        BY <3>2, <2>2, <1>2 DEF Followed
      <3>. QED
        BY <3>1, <3>2
    <2>. QED
      BY <2>4
  <1>4. Settled' = Followed
    BY <1>1, <1>3 DEF Settled
  <1>5. Reachable' = Reachable /\ \A e : Target(e)' = Target(e)
    BY <1>1 DEF Reachable, Target
  <1>6. CASE calls = <<>>
    <2>1. visited = {} /\ pending = Root /\ Followed = {}
      BY <1>6, <1>1, FollowedIs DEF OnePathEach
    <2>. QED
      BY <2>1, <1>1, <1>2, <1>4, <1>5 DEF OnePathEach, Complete, Loading
  <1>7. CASE calls # <<>>
    <2> DEFINE last == <<Top.file, Top.done>>
    <2>1. last \in Followed /\ Target(last) = pending /\ Settled = Followed \ {last}
      BY <1>1, <1>7, LastFollowed DEF Settled
    <2>2. Root \in visited
      BY <1>7 DEF OnePathEach
    <2>3. \A e \in Followed : Target(e) \in visited' \ {Root}
      BY <2>1, <2>2, <1>1 DEF OnePathEach
    <2>4. \A f \in visited' \ {Root} : \E e \in Followed : Target(e) = f
      BY <2>1, <1>1 DEF OnePathEach
    <2>5. \A d, e \in Followed : Target(d) = Target(e) => d = e
      BY <2>1, <1>1 DEF OnePathEach
    <2>. QED
      BY <2>2, <2>3, <2>4, <2>5, <1>1, <1>2, <1>4, <1>5 DEF OnePathEach, Complete, Loading
  <1>. QED
    BY <1>6, <1>7

LEMMA TreeImport ==
  ASSUME Inv, OnePathEach, Import
  PROVE  OnePathEach'
  <1>1. /\ calls \in Seq(Frame) /\ disk' = disk /\ outcome' = outcome /\ Loading /\ pending = NoFile
        /\ pending' = Imports[Top.done + 1] /\ visited' = visited
        /\ visited \subseteq Files /\ disk \in Disks /\ calls # <<>>
    BY DEF Import, Inv, TypeOK, PathOK
  <1> DEFINE n == Len(calls)
  <1>2. /\ n \in DOMAIN calls /\ Top \in Frame /\ Top.file \in visited
        /\ disk[Top.file].imports \in Seq(Files) /\ Top.done \in Nat /\ Top.done + 1 \in DOMAIN disk[Top.file].imports
    <2>1. n \in DOMAIN calls /\ calls[n] \in Frame
      BY <1>1
    <2>2. calls[n].file \in visited /\ calls[n].file \in Files /\ calls[n].done \in Nat
      BY <2>1 DEF Inv, PathOK, Frame
    <2>3. disk[calls[n].file].imports \in Seq(Files)
      BY <2>2, <1>1, OnDisk
    <2>. QED
      BY <2>1, <2>2, <2>3 DEF Import, Imports, Top
  <1>3. /\ DOMAIN calls' = DOMAIN calls /\ Len(calls') = n /\ calls' # <<>>
        /\ \A k \in DOMAIN calls : calls'[k].file = calls[k].file
        /\ \A k \in DOMAIN calls \ {n} : calls'[k].done = calls[k].done
        /\ calls'[n].done = Top.done + 1
    BY <1>1, <1>2 DEF Import, Top, Frame
  <1> DEFINE next == <<Top.file, Top.done + 1>>
  <1>4. pending' # NoFile /\ Target(next) = pending' /\ pending' \in Reachable
    <2>1. pending' \in Files /\ Target(next) = pending'
      BY <1>1, <1>2 DEF Target, Imports
    <2>2. Top.file \in Reachable
      BY <1>2 DEF OnePathEach
    <2>. QED
      BY <2>1, <2>2, <1>1, <1>2, ReachableClosed, ConfigAssumption DEF Imports
  <1>5. \A k \in DOMAIN calls : calls[k].file = Top.file => k = n
    BY <1>1, <1>2 DEF Inv, ImportsNest, Top
  <1>6. Followed' = Followed \union {next} /\ next \notin Followed
    <2>1. Edges(visited)' = Edges(visited) /\ next \in Edges(visited)
      BY <1>1, <1>2 DEF Edges
    <2>2. \A e \in Edges(visited) : e[1] = Top.file => e[2] \in Nat /\ e = <<Top.file, e[2]>>
      BY <1>2 DEF Edges
    <2>3. next \notin Followed
      BY <1>2 DEF Followed, Top
    <2>4. ASSUME NEW e \in Edges(visited) PROVE e \in Followed' <=> e \in Followed \/ e = next
      <3>1. CASE e[1] # Top.file
        <4>1. \A k \in DOMAIN calls : calls[k].file = e[1] => k # n
          BY <3>1 DEF Top
        <4>. QED
          BY <3>1, <4>1, <2>1, <1>3 DEF Followed
      <3>2. CASE e[1] = Top.file
        <4>1. e[2] \in Nat /\ e = <<Top.file, e[2]>>
          BY <3>2, <2>2
        <4>2. e \in Followed <=> e[2] <= Top.done
          BY <3>2, <1>2, <1>5 DEF Followed, Top
        <4>3. e \in Followed' <=> e[2] <= Top.done + 1
          <5>1. \A k \in DOMAIN calls' : calls'[k].file = e[1] <=> k = n
            BY <3>2, <1>2, <1>3, <1>5 DEF Top
          <5>. QED
            BY <5>1, <2>1, <1>2, <1>3 DEF Followed
        <4>4. e = next <=> e[2] = Top.done + 1
          BY <4>1
        <4>. QED
          BY <4>1, <4>2, <4>3, <4>4, <1>2
      <3>. QED
        BY <3>1, <3>2
    <2>5. Followed \subseteq Edges(visited) /\ Followed' \subseteq Edges(visited)
      BY <2>1 DEF Followed
    <2>. QED
      BY <2>1, <2>3, <2>4, <2>5
  <1>7. Settled' = Followed /\ Settled = Followed
    <2>1. Top' = calls'[n]
      BY <1>3 DEF Top
    <2>2. <<Top.file, Top.done>>' = next
      BY <2>1, <1>2, <1>3 DEF Top
    <2>. QED
      BY <2>2, <1>1, <1>3, <1>4, <1>6 DEF Settled
  <1>8. Reachable' = Reachable /\ \A e : Target(e)' = Target(e)
    BY <1>1 DEF Reachable, Target
  <1>. QED
    BY <1>1, <1>3, <1>4, <1>7, <1>8 DEF OnePathEach, Complete, Loading

LEMMA TreeReturn ==
  ASSUME Inv, OnePathEach, Return
  PROVE  OnePathEach'
  <1>1. /\ calls \in Seq(Frame) /\ disk' = disk /\ outcome' = outcome /\ Loading /\ pending = NoFile /\ pending' = NoFile
        /\ visited' = visited /\ visited \subseteq Files /\ disk \in Disks
        /\ Len(calls) > 1 /\ Top.done = Len(Imports)
    BY DEF Return, Returning, Inv, TypeOK
  <1> DEFINE n == Len(calls)
  <1>2. /\ DOMAIN calls' = 1 .. n - 1 /\ calls' # <<>> /\ DOMAIN calls = 1 .. n /\ n \in Nat
        /\ \A k \in 1 .. n - 1 : calls'[k].file = calls[k].file /\ calls'[k].done = calls[k].done
    <2>1. n \in Nat /\ DOMAIN calls = 1 .. n
      BY <1>1
    <2>2. calls' = [i \in 1 .. n - 1 |-> IF i = n - 1 THEN MergeConfigs(calls[i], Top) ELSE calls[i]]
      BY DEF Return
    <2>3. \A k \in 1 .. n - 1 : calls[k] \in Frame
      BY <2>1, <1>1
    <2>4. ASSUME NEW frame \in Frame PROVE MergeConfigs(frame, Top).file = frame.file /\ MergeConfigs(frame, Top).done = frame.done
      BY DEF MergeConfigs, Frame
    <2>5. DOMAIN calls' = 1 .. n - 1
      BY <2>2
    <2>6. 1 \in 1 .. n - 1
      BY <2>1, <1>1
    <2>7. calls' # <<>>
      BY <2>5, <2>6
    <2>8. ASSUME NEW k \in 1 .. n - 1 PROVE calls'[k].file = calls[k].file /\ calls'[k].done = calls[k].done
      <3>1. calls'[k] = IF k = n - 1 THEN MergeConfigs(calls[k], Top) ELSE calls[k]
        BY <2>2
      <3>. QED
        BY <3>1, <2>3, <2>4
    <2>. QED
      BY <2>1, <2>5, <2>7, <2>8
  <1>3. Top = calls[n] /\ Imports = disk[calls[n].file].imports /\ Imports \in Seq(Files)
    <2>1. calls[n] \in Frame
      BY <1>1
    <2>. QED
      BY <2>1, <1>1, OnDisk DEF Top, Imports, Frame
  <1>4. Followed' = Followed
    <2>1. Edges(visited)' = Edges(visited)
      BY <1>1 DEF Edges
    <2>2. \A e \in Edges(visited) : e[1] = calls[n].file => e[2] \in DOMAIN Imports
      BY <1>3 DEF Edges
    <2>3. ASSUME NEW e \in Edges(visited) PROVE e \in Followed' <=> e \in Followed
      <3>1. e[1] = calls[n].file => e[2] <= calls[n].done
        BY <2>2, <1>1, <1>3
      <3>2. e \in Followed <=> \A k \in 1 .. n : calls[k].file = e[1] => e[2] <= calls[k].done
        BY <1>2 DEF Followed
      <3>3. e \in Followed' <=> \A k \in 1 .. n - 1 : calls[k].file = e[1] => e[2] <= calls[k].done
        BY <1>2, <2>1 DEF Followed
      <3>4. \A m \in Nat : \A k \in 1 .. m : k \in 1 .. m - 1 \/ k = m
        OBVIOUS
      <3>5. \A m \in Nat : \A k \in 1 .. m - 1 : k \in 1 .. m
        OBVIOUS
      <3>. QED
        BY <3>1, <3>2, <3>3, <3>4, <3>5, <1>2
    <2>. QED
      BY <2>1, <2>3 DEF Followed
  <1>5. Settled' = Settled
    BY <1>1, <1>4 DEF Settled
  <1>6. Reachable' = Reachable /\ \A e : Target(e)' = Target(e)
    BY <1>1 DEF Reachable, Target
  <1>7. calls # <<>>
    BY <1>1
  <1>. QED
    BY <1>1, <1>2, <1>5, <1>6, <1>7 DEF OnePathEach, Complete, Loading

LEMMA TreeStays ==
  ASSUME OnePathEach, UNCHANGED <<disk, calls, pending, visited>>,
         Complete' => pending = NoFile /\ Top.done = Len(Imports),
         outcome' = "circular" => RevisitedAt(pending)
  PROVE  OnePathEach'
  <1>1. Settled' = Settled /\ Followed' = Followed /\ Top' = Top /\ Imports' = Imports
    BY DEF Settled, Followed, Edges, Top, Imports
  <1>2. Reachable' = Reachable /\ \A e : Target(e)' = Target(e)
    BY DEF Reachable, Target
  <1>. QED
    BY <1>1, <1>2 DEF OnePathEach, RevisitedAt

LEMMA TreeNext == Inv /\ TreeInv /\ [Next]_vars => TreeInv'
  <1>. SUFFICES ASSUME Inv, TreeInv, [Next]_vars, outcome' \notin {"unreadable", "crashed"}
                PROVE  OnePathEach'
    BY DEF TreeInv
  <1>1. CASE Read
    BY <1>1, TreeRead DEF TreeInv, Read, Loading
  <1>2. CASE Import
    BY <1>2, TreeImport DEF TreeInv, Import, Loading
  <1>3. CASE Return
    BY <1>3, TreeReturn DEF TreeInv, Return, Returning, Loading
  <1>4. CASE Revisit
    <2>1. OnePathEach /\ pending \in visited /\ pending # NoFile /\ calls # <<>> /\ Loading
      BY <1>4, ConfigAssumption DEF TreeInv, OnePathEach, Revisit, Loading, Inv, TypeOK
    <2>2. RevisitedAt(pending)
      BY <2>1, LastFollowed DEF RevisitedAt
    <2>. QED
      BY <1>4, <2>1, <2>2, TreeStays DEF Revisit, Complete
  <1>5. CASE Validate
    BY <1>5, TreeStays DEF TreeInv, Validate, Returning, Loading, Complete
  <1>6. CASE LoadFails \/ LoadCrashes
    BY <1>6 DEF LoadFails, LoadCrashes
  <1>7. CASE UNCHANGED vars
    BY <1>7, TreeStays DEF vars, TreeInv, OnePathEach, Complete
  <1>. QED
    BY <1>1, <1>2, <1>3, <1>4, <1>5, <1>6, <1>7 DEF Next

(***************************************************************************)
(* At the end of a load that nothing stopped every import of every file    *)
(* visited has been followed.                                              *)
(***************************************************************************)
LEMMA AllFollowed ==
  ASSUME Inv, OnePathEach, Complete
  PROVE  Settled = Edges(visited)
  <1>1. calls \in Seq(Frame) /\ Len(calls) = 1 /\ pending = NoFile /\ Top.done = Len(Imports) /\ disk \in Disks
        /\ visited \subseteq Files
    BY DEF Inv, TypeOK, PathOK, OnePathEach
  <1>2. Top = calls[1] /\ DOMAIN calls = {1}
    BY <1>1 DEF Top
  <1>3. \A g \in visited : disk[g].imports \in Seq(Files)
    BY <1>1, OnDisk
  <1>4. ASSUME NEW e \in Edges(visited) PROVE e \in Followed
    <2>1. PICK g \in visited : \E i \in DOMAIN disk[g].imports : e = <<g, i>>
      BY DEF Edges
    <2>. PICK i \in DOMAIN disk[g].imports : e = <<g, i>>
      BY <2>1
    <2>2. calls[1].file = g => i <= calls[1].done
      BY <1>1, <1>2, <1>3 DEF Imports
    <2>. QED
      BY <2>1, <2>2, <1>2 DEF Followed
  <1>. QED
    BY <1>1, <1>4 DEF Settled, Followed

LEMMA CompleteIsTree ==
  ASSUME Inv, OnePathEach, Complete
  PROVE  visited = Reachable /\ IsTree
  <1>1. Settled = Edges(visited) /\ disk \in Disks /\ visited \subseteq Files /\ Root \in visited
    <2>1. Len(calls) = 1
      BY DEF Inv, PathOK
    <2>2. calls # <<>>
      BY <2>1
    <2>. QED
      BY <2>2, AllFollowed DEF Inv, TypeOK, OnePathEach
  <1>2. \A g \in visited : \A i \in DOMAIN disk[g].imports : disk[g].imports[i] \in visited
    <2>1. ASSUME NEW g \in visited, NEW i \in DOMAIN disk[g].imports PROVE disk[g].imports[i] \in visited
      <3>1. <<g, i>> \in Settled
        BY <1>1 DEF Edges
      <3>. QED
        BY <3>1 DEF OnePathEach, Target
    <2>. QED
      BY <2>1
  <1>3. visited = Reachable
    BY <1>1, <1>2, ReachableClosed DEF OnePathEach
  <1>4. \A f : ImportsOf(f) = {e \in Settled : Target(e) = f}
    BY <1>1, <1>3 DEF ImportsOf, Edges, Target
  <1>5. ImportsOf(Root) = {}
    BY <1>4 DEF OnePathEach
  <1>6. ASSUME NEW f \in Reachable \ {Root} PROVE Cardinality(ImportsOf(f)) = 1
    <2>1. PICK e \in Settled : Target(e) = f
      BY <1>3 DEF OnePathEach
    <2>2. ImportsOf(f) = {e}
      BY <2>1, <1>4 DEF OnePathEach
    <2>. QED
      BY <2>2, FS_Singleton
  <1>. QED
    BY <1>3, <1>5, <1>6 DEF IsTree

(***************************************************************************)
(* Finitely many files have finitely many imports.                         *)
(***************************************************************************)
LEMMA ImportsFinite ==
  ASSUME disk \in Disks, NEW f
  PROVE  IsFiniteSet(ImportsOf(f))
  <1>1. IsFiniteSet(Reachable) /\ Reachable \subseteq Files
    BY ReachableClosed, ConfigAssumption, FS_Subset
  <1> DEFINE edges(g) == {g} \X DOMAIN disk[g].imports
             All == {edges(g) : g \in Reachable}
  <1>2. \A g \in Reachable : IsFiniteSet(edges(g))
    <2>1. ASSUME NEW g \in Reachable PROVE IsFiniteSet(edges(g))
      <3>1. disk[g].imports \in Seq(Files)
        BY <1>1, OnDisk
      <3>2. Len(disk[g].imports) \in Nat /\ DOMAIN disk[g].imports = 1 .. Len(disk[g].imports)
        BY <3>1
      <3>3. IsFiniteSet(DOMAIN disk[g].imports)
        BY <3>2, FS_Interval
      <3>. QED
        BY <3>3, FS_Singleton, FS_Product
    <2>. QED
      BY <2>1
  <1>3. IsFiniteSet(All)
    <2>1. [g \in Reachable |-> edges(g)] \in Surjection(Reachable, All)
      BY DEF Surjection
    <2>. QED
      BY <2>1, <1>1, FS_Surjection
  <1>4. \A E \in All : IsFiniteSet(E)
    BY <1>2
  <1>5. IsFiniteSet(UNION All)
    BY <1>3, <1>4, FS_UNION
  <1>6. ImportsOf(f) \subseteq UNION All
    BY DEF ImportsOf
  <1>. QED
    BY <1>5, <1>6, FS_Subset

LEMMA CircularIsNone ==
  ASSUME Inv, OnePathEach, outcome = "circular"
  PROVE  ~IsTree
  <1>1. pending \in visited /\ visited \subseteq Files /\ pending # NoFile /\ calls # <<>> /\ visited \subseteq Reachable
        /\ disk \in Disks
    BY ConfigAssumption DEF OnePathEach, RevisitedAt, Inv, TypeOK
  <1> DEFINE last == <<Top.file, Top.done>>
  <1>2. last \in ImportsOf(pending)
    BY <1>1 DEF OnePathEach, RevisitedAt, Followed, Edges, ImportsOf, Target
  <1>3. CASE pending = Root
    BY <1>2, <1>3 DEF IsTree
  <1>4. CASE pending # Root
    <2>1. PICK e \in Settled : Target(e) = pending
      BY <1>1, <1>4 DEF OnePathEach
    <2>2. e \in ImportsOf(pending) /\ e # last
      BY <1>1, <2>1 DEF Settled, Followed, Edges, ImportsOf, Target
    <2>3. Cardinality(ImportsOf(pending)) # 1
      <3>1. SUFFICES ASSUME Cardinality(ImportsOf(pending)) = 1 PROVE FALSE
        OBVIOUS
      <3>2. IsFiniteSet(ImportsOf(pending))
        BY ImportsFinite, <1>1
      <3>. QED
        BY <3>1, <3>2, <2>2, <1>2, FS_Singleton
    <2>. QED
      BY <1>1, <1>4, <2>3 DEF IsTree
  <1>. QED
    BY <1>3, <1>4

(***************************************************************************)
(* The check for circular imports refuses no tree of imports, and lets     *)
(* nothing else come to an end; what comes to an end has read every file   *)
(* the root reaches, for any files, however they import each other         *)
(* (config.go:64).                                                         *)
(***************************************************************************)
THEOREM TreesAlwaysLoad == Spec => []TreesLoad
  <1>1. Inv /\ TreeInv => TreesLoad
    BY CompleteIsTree, CircularIsNone DEF TreeInv, TreesLoad, Complete
  <1>. QED
    BY <1>1, TreeInit, TreeNext, Invariance, PTL DEF Spec

=============================================================================
