----------------------------- MODULE ConfigLoad -----------------------------
(***************************************************************************)
(* LoadLSPConfig (lsp/config.go): a configuration file is read together    *)
(* with the files it imports, depth first, and each import is merged into  *)
(* the file that names it.  A call of loadLSPConfigRecursive is a frame.   *)
(*                                                                         *)
(* The four maps in which the importing file takes precedence (servers,    *)
(* extensions, workspace settings, formatters) are one map from names, and *)
(* a value is the file it was defined in.  A list of languages is how      *)
(* often it has each: the lookups never look at the order.                 *)
(***************************************************************************)
EXTENDS Naturals, Sequences, FiniteSets

CONSTANTS
  Files, Root,
  Servers, Extensions, \* names
  Languages,
  Disks,               \* what the files may be
  NoFile

Names == Servers \union Extensions

Forms == {"config", "null", "broken"} \* an object, the JSON null, or an error of any kind

ASSUME ConfigAssumption ==
  /\ Root \in Files /\ NoFile \notin Files /\ IsFiniteSet(Files)
  /\ \A d \in Disks, f \in Files :
       /\ d[f].form \in Forms
       /\ d[f].imports \in Seq(Files)
       /\ d[f].defines \subseteq Names
       /\ d[f].lists \subseteq Servers /\ d[f].languages \in [Servers -> [Languages -> Nat]]
       /\ \A s \in Servers \ d[f].lists, l \in Languages : d[f].languages[s][l] = 0

VARIABLES
  disk,
  calls,   \* the frames, the caller first; place is history: where in order a file is
  pending, \* the file about to be loaded
  visited,
  outcome,
  order    \* history: the files read, in order

vars == <<disk, calls, pending, visited, outcome, order>>

Init ==
  /\ disk \in Disks
  /\ calls = <<>>
  /\ pending = Root
  /\ visited = {}
  /\ outcome = "loading"
  /\ order = <<>>

Loading == outcome = "loading"
Top == calls[Len(calls)]
Imports == disk[Top.file].imports

\* A file that was visited before, whether or not it is being loaded.
Revisit ==
  /\ Loading /\ pending \in visited
  /\ outcome' = "circular"
  /\ UNCHANGED <<disk, calls, pending, visited, order>>

\* A path that is not allowed, a file that cannot be read, a template that is
\* not known, JSON that does not parse.
LoadFails ==
  /\ Loading /\ pending \in Files \ visited /\ disk[pending].form = "broken"
  /\ visited' = visited \union {pending}
  /\ outcome' = "unreadable"
  /\ UNCHANGED <<disk, calls, pending, order>>

\* JSON null leaves the pointer nil that the next statement follows.
LoadCrashes ==
  /\ Loading /\ pending \in Files \ visited /\ disk[pending].form = "null"
  /\ visited' = visited \union {pending}
  /\ outcome' = "crashed"
  /\ UNCHANGED <<disk, calls, pending, order>>

Parsed(f) ==
  [file |-> f, done |-> 0, place |-> Len(order) + 1,
   from |-> [n \in Names |-> IF n \in disk[f].defines THEN f ELSE NoFile],
   lists |-> disk[f].lists, languages |-> disk[f].languages]

\* Mutant: nothing is looked up in visited.
ReadAgain ==
  /\ Loading /\ pending \in Files /\ disk[pending].form = "config"
  /\ visited' = visited \union {pending}
  /\ calls' = Append(calls, Parsed(pending))
  /\ order' = Append(order, pending)
  /\ pending' = NoFile
  /\ UNCHANGED <<disk, outcome>>

Read ==
  /\ Loading /\ pending \in Files \ visited /\ disk[pending].form = "config"
  /\ visited' = visited \union {pending}
  /\ calls' = Append(calls, Parsed(pending))
  /\ order' = Append(order, pending)
  /\ pending' = NoFile
  /\ UNCHANGED <<disk, outcome>>

\* Mutant: an import of a file visited before is passed over.
ImportFresh ==
  /\ Loading /\ pending = NoFile /\ Top.done < Len(Imports)
  /\ calls' = [calls EXCEPT ![Len(calls)].done = @ + 1]
  /\ pending' = IF Imports[Top.done + 1] \in visited THEN NoFile ELSE Imports[Top.done + 1]
  /\ UNCHANGED <<disk, visited, outcome, order>>

Import ==
  /\ Loading /\ pending = NoFile /\ Top.done < Len(Imports)
  /\ calls' = [calls EXCEPT ![Len(calls)].done = @ + 1]
  /\ pending' = Imports[Top.done + 1]
  /\ UNCHANGED <<disk, visited, outcome, order>>

Returning == Loading /\ pending = NoFile /\ Top.done = Len(Imports)

\* Mutant: the file's own list takes precedence, like its other settings.
OwnLanguages(own, imported) == IF \E l \in Languages : own[l] > 0 THEN own ELSE imported

\* The languages that a server's own list lacks are appended to it.
MergeLanguages(own, imported) == [l \in Languages |-> IF own[l] > 0 THEN own[l] ELSE imported[l]]

\* Mutant: what is imported replaces what is there.
MergeOver(base, imported) ==
  [base EXCEPT !.from = [n \in Names |-> IF imported.from[n] # NoFile THEN imported.from[n] ELSE @[n]],
               !.lists = @ \union imported.lists,
               !.languages = [s \in Servers |-> MergeLanguages(@[s], imported.languages[s])]]

MergeConfigs(base, imported) ==
  [base EXCEPT !.from = [n \in Names |-> IF @[n] # NoFile THEN @[n] ELSE imported.from[n]],
               !.lists = @ \union imported.lists,
               !.languages = [s \in Servers |-> MergeLanguages(@[s], imported.languages[s])]]

Return ==
  /\ Returning /\ Len(calls) > 1
  /\ calls' = [i \in 1 .. Len(calls) - 1 |-> IF i = Len(calls) - 1 THEN MergeConfigs(calls[i], Top) ELSE calls[i]]
  /\ UNCHANGED <<disk, pending, visited, outcome, order>>

Defined(names) == \E n \in names : Top.from[n] # NoFile

\* validateConfig, of the root alone; its log output, on which nothing else depends,
\* may be invalid too.
Validate ==
  /\ Returning /\ Len(calls) = 1
  /\ \/ outcome' = "invalid"
     \/ Defined(Servers) /\ Defined(Extensions) /\ Top.lists # {} /\ outcome' = "ok"
  /\ UNCHANGED <<disk, calls, pending, visited, order>>

Next == Revisit \/ LoadFails \/ LoadCrashes \/ Read \/ Import \/ Return \/ Validate

Spec == Init /\ [][Next]_vars

-----------------------------------------------------------------------------
Complete == outcome \in {"ok", "invalid"}

Frame ==
  [file : Files, done : Nat, place : Nat, from : [Names -> Files \union {NoFile}],
   lists : SUBSET Servers, languages : [Servers -> [Languages -> Nat]]]

TypeOK ==
  /\ calls \in Seq(Frame)
  /\ \A i \in DOMAIN calls : calls[i].done <= Len(disk[calls[i].file].imports)
  /\ order \in Seq(Files)
  /\ pending \in Files \union {NoFile} /\ visited \subseteq Files
  /\ outcome \in {"loading", "ok", "invalid", "circular", "unreadable", "crashed"}

(***************************************************************************)
(* config.go:19, "Track visited files to prevent circular imports": the    *)
(* frames are a path of imports that enters no file twice, however the     *)
(* files import each other, so that the recursion ends.                    *)
(***************************************************************************)
ImportsNest ==
  /\ \A i, j \in DOMAIN calls : i # j => calls[i].file # calls[j].file
  /\ \A i \in DOMAIN calls \ {1} :
       LET caller == calls[i - 1] IN calls[i].file = disk[caller.file].imports[caller.done]

(***************************************************************************)
(* config.go:190, "base config takes precedence": a name has the value of  *)
(* the first file that defines it, a file before its imports and these in  *)
(* the order they are named, at any depth.                                 *)
(***************************************************************************)
\* f is the first of the files at the places a .. b that defines n on disk d.
IsFirst(f, n, d, files, a, b) ==
  LET Defines(p) == n \in d[files[p]].defines IN
  \/ f = NoFile /\ \A p \in a .. b : ~Defines(p)
  \/ \E p \in a .. b : f = files[p] /\ Defines(p) /\ \A q \in a .. p - 1 : ~Defines(q)

ClosestWins == Complete => \A n \in Names : IsFirst(calls[1].from[n], n, disk, order, 1, Len(order))

(***************************************************************************)
(* config.go:201, "Merge languages, avoiding duplicates": a server has the *)
(* languages of all the files, once each if no file repeats one.           *)
(***************************************************************************)
LanguagesComplete ==
  Complete =>
    /\ calls[1].lists = UNION {disk[f].lists : f \in visited}
    /\ \A s \in Servers, l \in Languages :
         LET times(f) == disk[f].languages[s][l] IN
         /\ calls[1].languages[s][l] > 0 <=> \E f \in visited : times(f) > 0
         /\ (\A f \in visited : times(f) <= 1) => calls[1].languages[s][l] <= 1

(***************************************************************************)
(* A load that comes to its end has read every file the root reaches, each *)
(* over one path; one refused as circular has a file with two, if not a    *)
(* cycle.  Nothing is left out silently, and no tree of imports refused.   *)
(***************************************************************************)
Reachable ==
  {f \in Files : \A S \in SUBSET Files :
     Root \in S /\ (\A g \in S : \A i \in DOMAIN disk[g].imports : disk[g].imports[i] \in S) => f \in S}

ImportsOf(f) ==
  {p \in UNION {{g} \X DOMAIN disk[g].imports : g \in Reachable} : disk[p[1]].imports[p[2]] = f}

IsTree == ImportsOf(Root) = {} /\ \A f \in Reachable \ {Root} : Cardinality(ImportsOf(f)) = 1

TreesLoad ==
  /\ Complete => visited = Reachable /\ IsTree
  /\ outcome = "circular" => ~IsTree

=============================================================================
