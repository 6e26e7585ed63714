--------------------------- MODULE DiagnosticsProofs ---------------------------
(***************************************************************************)
(* Proofs about the two ends of the way diagnostics take.  Documents: for  *)
(* any threads, servers and documents, and calls that overlap in any way,  *)
(* what a client tracks is what its server has open but where one          *)
(* notification overtook the record of another; a server is told to open   *)
(* or close a document out of turn only where calls overlap; and a         *)
(* subscriber reads the newest diagnostics.  Subscriptions: for any        *)
(* clients, resources and notifiers, the lists of the tracker hold nothing *)
(* twice, its two maps agree, and it implements the abstract relation.     *)
(***************************************************************************)
EXTENDS Documents, Subscriptions, TLAPS

\* The labels at which nothing is under way with the client's server.
Resting == {"ensure", "open", "change", "save", "close", "pull"}

\* The locals of a thread that runs a tool.
Working ==
  [pc : Labels \ {"idle"}, tool : Tools, doc : Docs, i : DOMAIN Servers,
   gens : [Names -> 0..MaxReplacements]]

-----------------------------------------------------------------------------
(***************************************************************************)
(* How the steps of a thread move it: only its own locals change, and it   *)
(* keeps its document and the clients it was given.                        *)
(***************************************************************************)
Moves(t, labels) ==
  /\ thread' \in [Threads -> Locals]
  /\ \A u \in Threads \ {t} : thread'[u] = thread[u]
  /\ \/ thread'[t] = Idle
     \/ /\ thread'[t] \in Working /\ thread'[t].pc \in labels
        /\ thread'[t].doc = thread[t].doc /\ thread'[t].gens = thread[t].gens

LEMMA ServersNamed ==
  /\ Len(Servers) \in Nat \ {0} /\ DOMAIN Servers = 1 .. Len(Servers)
  /\ \A i \in DOMAIN Servers : Servers[i] \in Names
  <1>1. Servers \in Seq(Names) /\ Servers # <<>>
    BY DocumentsAssumption DEF Names
  <1>. QED
    BY <1>1 DEF Names

LEMMA BusyWorks ==
  ASSUME TypeOK, NEW t \in Threads, Busy(t)
  PROVE  thread[t] \in Working /\ Client(t) \in Names
  <1>1. thread[t] \in Locals /\ thread[t] # Idle
    BY DEF TypeOK, Busy, At, Idle
  <1>2. thread[t] \in Working
    BY <1>1 DEF Locals, Working
  <1>. QED
    BY <1>2, ServersNamed DEF Working, Client

LEMMA WorkingIsLocal == Working \subseteq Locals /\ Idle \in Locals /\ \A w \in Working : w.pc # "idle"
  BY DEF Working, Locals

LEMMA FirstRests == \A tool \in Tools : First(tool) \in Resting /\ First(tool) \in Labels \ {"idle"}
  BY DEF First, Tools, Resting, Labels

LEMMA GotoMoves ==
  ASSUME TypeOK, NEW t \in Threads, Busy(t), NEW label \in Labels \ {"idle"}, Goto(t, label)
  PROVE  Moves(t, {label}) /\ thread'[t].i = thread[t].i /\ thread'[t].pc = label
  <1>1. thread[t] \in Working /\ thread \in [Threads -> Locals]
    BY BusyWorks DEF TypeOK
  <1>2. thread' = [thread EXCEPT ![t] = [thread[t] EXCEPT !.pc = label]]
    BY DEF Goto, Become
  <1>3. /\ thread'[t] = [thread[t] EXCEPT !.pc = label]
        /\ \A u \in Threads \ {t} : thread'[u] = thread[u]
    BY <1>1, <1>2
  <1>4. /\ thread'[t] \in Working /\ thread'[t].pc = label /\ thread'[t].i = thread[t].i
        /\ thread'[t].doc = thread[t].doc /\ thread'[t].gens = thread[t].gens
    BY <1>1, <1>3 DEF Working
  <1>5. thread' \in [Threads -> Locals]
    BY <1>1, <1>2, <1>3, <1>4, WorkingIsLocal
  <1>. QED
    BY <1>3, <1>4, <1>5 DEF Moves

LEMMA NextClientMoves ==
  ASSUME TypeOK, NEW t \in Threads, Busy(t), NextClient(t)
  PROVE  Moves(t, Resting)
  <1>1. thread[t] \in Working /\ thread \in [Threads -> Locals]
    BY BusyWorks DEF TypeOK
  <1>2. thread[t].i \in 1 .. Len(Servers) /\ Len(Servers) \in Nat /\ DOMAIN Servers = 1 .. Len(Servers)
    BY <1>1, ServersNamed DEF Working
  <1>3. First(thread[t].tool) \in Resting /\ First(thread[t].tool) \in Labels \ {"idle"}
    BY <1>1, FirstRests DEF Working
  <1>4. CASE thread[t].i = Len(Servers) \/ thread[t].tool = "query"
    <2>1. thread' = [thread EXCEPT ![t] = Idle]
      BY <1>4 DEF NextClient, Become
    <2>. QED
      BY <1>1, <2>1, WorkingIsLocal DEF Moves
  <1>5. CASE thread[t].i # Len(Servers) /\ thread[t].tool # "query"
    <2> DEFINE label == First(thread[t].tool)
               next == [thread[t] EXCEPT !.pc = label, !.i = @ + 1]
    <2>1. thread' = [thread EXCEPT ![t] = next]
      BY <1>5 DEF NextClient, Become
    <2>2. next \in Working /\ next.pc \in Resting /\ next.doc = thread[t].doc /\ next.gens = thread[t].gens
      <3>1. thread[t].i + 1 \in DOMAIN Servers
        BY <1>2, <1>5
      <3>2. label \in Resting /\ label \in Labels \ {"idle"}
        BY <1>3
      <3>. HIDE DEF label
      <3>3. thread[t] \in Working
        BY <1>1
      <3>. QED
        BY <3>1, <3>2, <3>3 DEF Working
    <2>3. thread'[t] = next /\ \A u \in Threads \ {t} : thread'[u] = thread[u]
      BY <1>1, <2>1
    <2>4. next \in Locals
      BY <2>2, WorkingIsLocal
    <2>5. thread' \in [Threads -> Locals]
      BY <1>1, <2>1, <2>4
    <2>. QED
      BY <2>2, <2>3, <2>5 DEF Moves
  <1>. QED
    BY <1>4, <1>5

LEMMA MovesLess ==
  ASSUME NEW t \in Threads, NEW L, NEW M, L \subseteq M, Moves(t, L)
  PROVE  Moves(t, M)
  BY DEF Moves

LEMMA DoneMoves ==
  ASSUME TypeOK, NEW t \in Threads, Busy(t), Done(t)
  PROVE  Moves(t, Resting)
  <1>1. CASE thread[t].tool \in {"diagnostics", "query"}
    <2>1. Goto(t, "pull")
      BY <1>1 DEF Done
    <2>2. Moves(t, {"pull"})
      BY <2>1, GotoMoves DEF Labels
    <2>. QED
      BY <2>2, MovesLess DEF Resting
  <1>2. CASE thread[t].tool \notin {"diagnostics", "query"}
    BY <1>2, NextClientMoves DEF Done
  <1>. QED
    BY <1>1, <1>2

-----------------------------------------------------------------------------
(***************************************************************************)
(* Type correctness.                                                       *)
(***************************************************************************)
\* The state apart from the threads.
SharedOK ==
  /\ open \in [Names -> SUBSET Docs]
  /\ cache \in [Names -> [Docs -> 0..2]]
  /\ gen \in [Names -> 0..MaxReplacements]
  /\ alive \in [Names -> BOOLEAN]
  /\ view \in [Names -> [Docs -> 0..2]]
  /\ hooked \in [Names -> BOOLEAN]
  /\ reader \in [Names -> Docs \union {NoDoc}]
  /\ seen \in [Names -> [Docs -> 0..2]]
  /\ misused \subseteq Docs /\ overlapped \subseteq Docs
  /\ crossed \in [Names -> SUBSET Docs] /\ silent \in [Names -> SUBSET Docs]
  /\ calls \in 0..MaxCalls

LEMMA ToolStepMoves ==
  ASSUME TypeOK, NEW t \in Threads, Busy(t), ToolStep(t)
  PROVE  Moves(t, Labels)
  <1>1. ASSUME NEW label \in Labels \ {"idle"}, Goto(t, label) PROVE Moves(t, Labels)
    <2>1. Moves(t, {label})
      BY <1>1, GotoMoves
    <2>. QED
      BY <2>1 DEF Moves
  <1>2. ASSUME NextClient(t) \/ Done(t) PROVE Moves(t, Labels)
    BY <1>2, NextClientMoves, DoneMoves, MovesLess DEF Resting, Labels
  <1>3. CASE OnReplacedClient(t) \/ DidSave(t) \/ DidChange(t) \/ PullDiagnostics(t)
    BY <1>2, <1>3 DEF OnReplacedClient, DidSave, DidChange, PullDiagnostics
  <1>4. CASE MarkDocumentOpen(t) \/ MarkDocumentClosed(t)
    BY <1>2, <1>4 DEF MarkDocumentOpen, MarkDocumentClosed
  <1>5. CASE EnsureDocumentOpen(t)
    BY <1>1, <1>5 DEF EnsureDocumentOpen, Labels
  <1>6. CASE DidOpen(t) \/ DidClose(t)
    BY <1>1, <1>2, <1>6 DEF DidOpen, DidClose, Labels
  <1>7. CASE NotifyOpen(t) \/ NotifyClose(t)
    BY <1>1, <1>2, <1>7 DEF NotifyOpen, NotifyClose, Labels
  <1>. QED
    BY <1>3, <1>4, <1>5, <1>6, <1>7 DEF ToolStep

LEMMA ToolStepShared ==
  ASSUME TypeOK, NEW t \in Threads, Busy(t), ToolStep(t)
  PROVE  SharedOK'
  <1>1. Client(t) \in Names /\ thread[t].doc \in Docs
    BY BusyWorks DEF Working
  <1>2. ASSUME NEW v \in 0..2, SetView(t, v) PROVE view' \in [Names -> [Docs -> 0..2]]
    BY <1>1, <1>2 DEF SetView, TypeOK
  <1>3. view' \in [Names -> [Docs -> 0..2]]
    BY <1>2 DEF ToolStep, OnReplacedClient, EnsureDocumentOpen, DidOpen, DidClose, NotifyOpen, NotifyClose,
         DidChange, DidSave, MarkDocumentOpen, MarkDocumentClosed, PullDiagnostics, TypeOK
  <1>4. open' \in [Names -> SUBSET Docs]
    BY <1>1 DEF ToolStep, OnReplacedClient, EnsureDocumentOpen, DidOpen, DidClose, NotifyOpen, NotifyClose,
         DidChange, DidSave, MarkDocumentOpen, MarkDocumentClosed, PullDiagnostics, TypeOK, clientVars
  <1>5. misused' \subseteq Docs /\ crossed' \in [Names -> SUBSET Docs]
    <2>1. ASSUME NEW p, NoteRaces(t, p) PROVE misused' \subseteq Docs /\ crossed' \in [Names -> SUBSET Docs]
      BY <1>1, <2>1 DEF NoteRaces, TypeOK
    <2>2. CASE UNCHANGED raceVars
      BY <2>2 DEF raceVars, TypeOK
    <2>. QED
      BY <2>1, <2>2 DEF ToolStep, OnReplacedClient, EnsureDocumentOpen, DidOpen, DidClose, NotifyOpen, NotifyClose,
         DidChange, DidSave, MarkDocumentOpen, MarkDocumentClosed, PullDiagnostics
  <1>6. UNCHANGED <<cache, gen, alive, hooked, reader, seen, silent, overlapped, calls>>
    BY DEF ToolStep, OnReplacedClient, EnsureDocumentOpen, DidOpen, DidClose, NotifyOpen, NotifyClose,
         DidChange, DidSave, MarkDocumentOpen, MarkDocumentClosed, PullDiagnostics, clientVars, pushVars
  <1>. QED
    BY <1>3, <1>4, <1>5, <1>6 DEF TypeOK, SharedOK

\* A call begins with the first client, as the pool has it.
LEMMA BeginToolWorks ==
  ASSUME TypeOK, NEW t \in Threads, NEW tool \in Tools, NEW d \in Docs, NEW i \in DOMAIN Servers,
         BeginTool(t, tool, d, i)
  PROVE  /\ thread' \in [Threads -> Locals]
         /\ \A u \in Threads \ {t} : thread'[u] = thread[u]
         /\ thread'[t].pc \in Resting /\ thread'[t].doc = NameFor(tool, d) /\ thread'[t].gens = gen
         /\ NameFor(tool, d) \in Docs
  <1> DEFINE label == First(tool)
             name == NameFor(tool, d)
             new == [pc |-> label, tool |-> tool, doc |-> name, i |-> i, gens |-> gen]
  <1>1. label \in Resting /\ label \in Labels \ {"idle"}
    BY FirstRests
  <1>2. name \in Docs
    BY DocumentsAssumption DEF NameFor
  <1>3. thread' = [thread EXCEPT ![t] = new]
    BY DEF BeginTool, Become
  <1>. HIDE DEF label, name
  <1>4. new \in Working
    BY <1>1, <1>2 DEF Working, TypeOK
  <1>5. new \in Locals
    BY <1>4, WorkingIsLocal
  <1>6. new.pc \in Resting /\ new.doc = name /\ new.gens = gen
    BY <1>1
  <1>7. name = NameFor(tool, d)
    BY DEF name
  <1>. HIDE DEF new
  <1>. QED
    BY <1>2, <1>3, <1>5, <1>6, <1>7 DEF TypeOK

LEMMA TypeStep == TypeOK /\ [Next]_vars => TypeOK'
  <1>. SUFFICES ASSUME TypeOK, [Next]_vars PROVE TypeOK'
    OBVIOUS
  <1>1. ASSUME NEW t \in Threads, NEW tool \in Tools, NEW d \in Docs, NEW i \in DOMAIN Servers,
               BeginTool(t, tool, d, i)
        PROVE  TypeOK'
    <2>1. calls' \in 0..MaxCalls
      BY <1>1, DocumentsAssumption DEF BeginTool, TypeOK
    <2>2. thread' \in [Threads -> Locals] /\ NameFor(tool, d) \in Docs
      BY <1>1, BeginToolWorks
    <2>3. overlapped' \subseteq Docs
      BY <1>1, <2>2 DEF BeginTool, TypeOK
    <2>4. UNCHANGED <<open, cache, gen, alive, view, hooked, reader, seen, silent, misused, crossed>>
      BY <1>1 DEF BeginTool, clientVars, pushVars, raceVars
    <2>. QED
      BY <2>1, <2>2, <2>3, <2>4 DEF TypeOK
  <1>2. ASSUME NEW t \in Threads, Busy(t), ToolStep(t) PROVE TypeOK'
    BY <1>2, ToolStepMoves, ToolStepShared DEF Moves, SharedOK, TypeOK
  <1>3. ASSUME NEW s \in Names, NEW u \in Docs, StoreDiagnostics(s, u) PROVE TypeOK'
    <2>1. Normal[u] \in Docs /\ view[s][u] \in 0..2
      BY DocumentsAssumption DEF TypeOK
    <2>2. cache' \in [Names -> [Docs -> 0..2]]
      BY <1>3, <2>1 DEF StoreDiagnostics, TypeOK
    <2>3. reader' \in [Names -> Docs \union {NoDoc}] /\ silent' \in [Names -> SUBSET Docs]
      <3>1. PICK d \in Docs : d = Normal[u]
        BY <2>1
      <3>2. reader' = reader \/ reader' = [reader EXCEPT ![s] = d]
        BY <1>3, <3>1 DEF StoreDiagnostics
      <3>3. silent' = [silent EXCEPT ![s] = @ \ {d}] \/ silent' = [silent EXCEPT ![s] = @ \union {d}]
        BY <1>3, <3>1 DEF StoreDiagnostics
      <3>4. reader' \in [Names -> Docs \union {NoDoc}]
        BY <3>2 DEF TypeOK
      <3>5. silent' \in [Names -> SUBSET Docs]
        <4>1. silent[s] \ {d} \in SUBSET Docs /\ silent[s] \union {d} \in SUBSET Docs
          BY DEF TypeOK
        <4>2. silent \in [Names -> SUBSET Docs]
          BY DEF TypeOK
        <4>. QED
          BY <3>3, <4>1, <4>2
      <3>. QED
        BY <3>4, <3>5
    <2>4. UNCHANGED <<open, gen, alive, view, thread, hooked, seen, misused, crossed, overlapped, calls>>
      BY <1>3 DEF StoreDiagnostics, raceVars
    <2>. QED
      BY <2>2, <2>3, <2>4 DEF TypeOK
  <1>4. ASSUME NEW s \in Names, Callback(s) \/ Hook(s) \/ ServerDies(s) PROVE TypeOK'
    <2>1. CASE Callback(s)
      BY <2>1 DEF Callback, clientVars, raceVars, TypeOK
    <2>2. CASE Hook(s)
      BY <2>2 DEF Hook, clientVars, raceVars, TypeOK
    <2>3. CASE ServerDies(s)
      BY <2>3 DEF ServerDies, pushVars, raceVars, TypeOK
    <2>. QED
      BY <1>4, <2>1, <2>2, <2>3
  <1>5. ASSUME NEW s \in Names, Replace(s) PROVE TypeOK'
    BY <1>5, DocumentsAssumption DEF Replace, StartAfresh, TypeOK
  <1>6. ASSUME UNCHANGED vars PROVE TypeOK'
    BY <1>6 DEF vars, TypeOK
  <1>. QED
    BY <1>1, <1>2, <1>3, <1>4, <1>5, <1>6 DEF Next

(***************************************************************************)
(* The state keeps its types: a thread that runs a tool is always at one   *)
(* of its clients, and NextClient (the loops over clients) never runs past *)
(* the last one.                                                           *)
(***************************************************************************)
THEOREM DocumentsTypeCorrect == Spec => []TypeOK
  <1>1. Init => TypeOK
    BY DocumentsAssumption DEF Init, TypeOK, Locals
  <1>. QED
    BY <1>1, TypeStep, PTL DEF Spec

-----------------------------------------------------------------------------
(***************************************************************************)
(* The inductive invariant.                                                *)
(*                                                                         *)
(* Of a document and a client, as long as no notification overtakes the    *)
(* record of another: the thread that notified the server last is the only *)
(* one with something to record, and what it has to record is what the     *)
(* server has open; when there is none, the client has recorded it.        *)
(*                                                                         *)
(* Of a document on which no calls overlapped: one thread at most is about *)
(* it, so that what the thread has found out still holds when it notifies  *)
(* the server.                                                             *)
(*                                                                         *)
(* A client that was replaced never becomes the pool's again.              *)
(***************************************************************************)
NotFromTheFuture == \A t \in Threads : Busy(t) => \A s \in Names : thread[t].gens[s] <= gen[s]

Recorded(s, d) ==
  d \in crossed[s] \/
    /\ \A t \in Threads : Marks(t, s, d) => (At(t, "markOpen") <=> view[s][d] # 0)
    /\ \A t, u \in Threads : Marks(t, s, d) /\ Marks(u, s, d) => t = u
    /\ Marking(s, d) \/ (d \in open[s] <=> view[s][d] # 0)

Apart ==
  \A t, u \in Threads : t # u /\ Busy(t) /\ Busy(u) /\ thread[t].doc = thread[u].doc => thread[t].doc \in overlapped

Stands(t) ==
  Busy(t) /\ Current(t) /\ thread[t].doc \notin overlapped =>
    /\ At(t, "notifyOpen") => thread[t].doc \notin open[Client(t)]
    /\ At(t, "notifyClose") => thread[t].doc \in open[Client(t)]

DocumentsInv ==
  /\ NotFromTheFuture
  /\ \A s \in Names, d \in Docs : Recorded(s, d)
  /\ Apart
  /\ \A s \in Names : crossed[s] \subseteq overlapped
  /\ \A t \in Threads : Stands(t)
  /\ OpenedOnce

LEMMA MarkerIsBusy ==
  ASSUME NEW t \in Threads, NEW s, NEW d, Marks(t, s, d)
  PROVE  Busy(t) /\ Current(t) /\ Client(t) = s /\ thread[t].doc = d
  BY DEF Marks, Busy, At

\* A thread that does not move has the same to record, while no client is replaced.
LEMMA SameMarks ==
  ASSUME gen' = gen, NEW u \in Threads, thread'[u] = thread[u], NEW s, NEW d
  PROVE  /\ Marks(u, s, d)' <=> Marks(u, s, d)
         /\ At(u, "markOpen")' <=> At(u, "markOpen")
  BY DEF Marks, Client, Current, At

LEMMA RestingMarksNothing ==
  ASSUME NEW t \in Threads, Moves(t, Resting), NEW s, NEW d
  PROVE  ~Marks(t, s, d)'
  <1>1. thread'[t].pc \in Resting \union {"idle"}
    BY DEF Moves, Idle
  <1>. QED
    BY <1>1 DEF Marks, Resting

\* Where nothing that counts has changed.
LEMMA RecordedKept ==
  ASSUME NEW s, NEW d, Recorded(s, d),
         d \in crossed[s] => d \in crossed'[s],
         d \in open'[s] <=> d \in open[s],
         view'[s][d] # 0 <=> view[s][d] # 0,
         \A u \in Threads : Marks(u, s, d)' <=> Marks(u, s, d),
         \A u \in Threads : Marks(u, s, d) => (At(u, "markOpen")' <=> At(u, "markOpen"))
  PROVE  Recorded(s, d)'
  BY DEF Recorded, Marking

LEMMA StandsKept ==
  ASSUME gen' = gen, NEW u \in Threads, thread'[u] = thread[u], Stands(u), overlapped \subseteq overlapped',
         Busy(u) /\ Current(u) /\ thread[u].doc \notin overlapped' =>
           (thread[u].doc \in open'[Client(u)] <=> thread[u].doc \in open[Client(u)])
  PROVE  Stands(u)'
  <1>1. Client(u)' = Client(u) /\ (Busy(u)' <=> Busy(u)) /\ (Current(u)' <=> Current(u))
    BY DEF Client, Busy, At, Current
  <1>. QED
    BY <1>1 DEF Stands, At

LEMMA MovesKeepApart ==
  ASSUME TypeOK, Apart, NotFromTheFuture, NEW t \in Threads, Busy(t), NEW L, Moves(t, L),
         gen' = gen, overlapped' = overlapped
  PROVE  Apart' /\ NotFromTheFuture'
  <1>1. \A u \in Threads : Busy(u)' => Busy(u) /\ thread'[u].doc = thread[u].doc /\ thread'[u].gens = thread[u].gens
    BY DEF Moves, Busy, At, Idle
  <1>. QED
    BY <1>1 DEF Apart, NotFromTheFuture

(***************************************************************************)
(* A thread that touches nothing but its own document at its own client    *)
(* only has to account for these two.                                      *)
(***************************************************************************)
LEMMA TouchOne ==
  ASSUME TypeOK, DocumentsInv, NEW t \in Threads, Busy(t), Current(t),
         NEW s0, s0 = Client(t), NEW d0, d0 = thread[t].doc,
         NEW L, Moves(t, L), gen' = gen, overlapped' = overlapped,
         L \subseteq Resting \/ (thread'[t] # Idle /\ thread'[t].i = thread[t].i),
         \A s \in Names, d \in Docs : s # s0 \/ d # d0 =>
           /\ d \in open'[s] <=> d \in open[s]
           /\ view'[s][d] = view[s][d]
           /\ d \in crossed'[s] <=> d \in crossed[s],
         Recorded(s0, d0)', Stands(t)', OpenedOnce',
         \A s \in Names : crossed'[s] \subseteq overlapped
  PROVE  DocumentsInv'
  <1>1. Apart' /\ NotFromTheFuture'
    BY MovesKeepApart DEF DocumentsInv
  <1>2. \A u \in Threads \ {t} : thread'[u] = thread[u]
    BY DEF Moves
  <1>3. ASSUME NEW s \in Names, NEW d \in Docs PROVE Recorded(s, d)'
    <2>1. CASE s = s0 /\ d = d0
      BY <2>1
    <2>2. CASE s # s0 \/ d # d0
      <3>1. ~Marks(t, s, d)
        BY <2>2 DEF Marks
      <3>2. ~Marks(t, s, d)'
        <4>1. CASE L \subseteq Resting
          <5>1. Moves(t, Resting)
            BY <4>1, MovesLess
          <5>. QED
            BY <5>1, RestingMarksNothing
        <4>2. CASE thread'[t] # Idle /\ thread'[t].i = thread[t].i
          <5>1. Client(t)' = s0 /\ thread'[t].doc = d0
            BY <4>2 DEF Moves, Client
          <5>. QED
            BY <2>2, <5>1 DEF Marks
        <4>. QED
          BY <4>1, <4>2
      <3>3. ASSUME NEW u \in Threads
            PROVE  (Marks(u, s, d)' <=> Marks(u, s, d)) /\ (Marks(u, s, d) => (At(u, "markOpen")' <=> At(u, "markOpen")))
        <4>1. CASE u = t
          BY <3>1, <3>2, <4>1
        <4>2. CASE u # t
          BY <1>2, <4>2, SameMarks
        <4>. QED
          BY <4>1, <4>2
      <3>4. Recorded(s, d) /\ view'[s][d] = view[s][d] /\ (d \in open'[s] <=> d \in open[s]) /\ (d \in crossed'[s] <=> d \in crossed[s])
        BY <2>2 DEF DocumentsInv
      <3>. QED
        BY <3>3, <3>4, RecordedKept
    <2>. QED
      BY <2>1, <2>2
  <1>4. ASSUME NEW u \in Threads \ {t} PROVE Stands(u)'
    <2>1. ASSUME Busy(u), thread[u].doc \notin overlapped
          PROVE  thread[u].doc # d0 /\ Client(u) \in Names /\ thread[u].doc \in Docs
      BY <2>1, BusyWorks DEF DocumentsInv, Apart, Working
    <2>. QED
      BY <1>2, <2>1, StandsKept DEF DocumentsInv
  <1>. QED
    BY <1>1, <1>3, <1>4 DEF DocumentsInv

\* A thread that records nothing and notifies nobody changes nothing that counts.
LEMMA RestKeeps ==
  ASSUME TypeOK, DocumentsInv, NEW t \in Threads, Busy(t), Moves(t, Resting),
         UNCHANGED <<open, gen, view, misused, crossed, overlapped>>,
         Current(t) => thread[t].pc \notin {"markOpen", "markClosed"}
  PROVE  DocumentsInv'
  <1>1. Apart' /\ NotFromTheFuture'
    BY MovesKeepApart DEF DocumentsInv
  <1>2. \A u \in Threads \ {t} : thread'[u] = thread[u]
    BY DEF Moves
  <1>3. ASSUME NEW s \in Names, NEW d \in Docs PROVE Recorded(s, d)'
    <2>1. ~Marks(t, s, d) /\ ~Marks(t, s, d)'
      BY RestingMarksNothing DEF Marks
    <2>2. ASSUME NEW u \in Threads
          PROVE  (Marks(u, s, d)' <=> Marks(u, s, d)) /\ (Marks(u, s, d) => (At(u, "markOpen")' <=> At(u, "markOpen")))
      BY <1>2, <2>1, SameMarks
    <2>3. Recorded(s, d)
      BY DEF DocumentsInv
    <2>. QED
      BY <2>2, <2>3, RecordedKept
  <1>4. Stands(t)'
    <2>1. thread'[t].pc \in Resting \union {"idle"}
      BY DEF Moves, Idle
    <2>. QED
      BY <2>1 DEF Stands, At, Resting
  <1>5. ASSUME NEW u \in Threads \ {t} PROVE Stands(u)'
    BY <1>2, StandsKept DEF DocumentsInv
  <1>. QED
    BY <1>1, <1>3, <1>4, <1>5 DEF DocumentsInv, OpenedOnce

LEMMA QuietStep ==
  ASSUME TypeOK, DocumentsInv, NEW t \in Threads, Busy(t),
         OnReplacedClient(t) \/ EnsureDocumentOpen(t) \/ DidSave(t) \/ PullDiagnostics(t)
  PROVE  DocumentsInv'
  <1>1. Moves(t, Resting)
    <2>1. CASE EnsureDocumentOpen(t)
      <3>1. Goto(t, "open") \/ Goto(t, "pull")
        BY <2>1 DEF EnsureDocumentOpen
      <3>2. Moves(t, {"open"}) \/ Moves(t, {"pull"})
        BY <3>1, GotoMoves DEF Labels
      <3>. QED
        BY <3>2, MovesLess DEF Resting
    <2>. QED
      BY <2>1, NextClientMoves DEF OnReplacedClient, DidSave, PullDiagnostics
  <1>2. UNCHANGED <<open, gen, view, misused, crossed, overlapped>> /\ (Current(t) => thread[t].pc \notin {"markOpen", "markClosed"})
    BY DEF OnReplacedClient, EnsureDocumentOpen, DidSave, PullDiagnostics, clientVars, raceVars, At
  <1>. QED
    BY <1>1, <1>2, RestKeeps

(***************************************************************************)
(* DidOpen and DidClose look the document up, and if no calls about it     *)
(* overlap nobody else changes what they found before the server is        *)
(* notified.                                                               *)
(***************************************************************************)
LEMMA CheckStep ==
  ASSUME TypeOK, DocumentsInv, NEW t \in Threads, Busy(t), DidOpen(t) \/ DidClose(t)
  PROVE  DocumentsInv'
  <1>. DEFINE d == thread[t].doc
  <1>1. /\ UNCHANGED <<open, gen, view, misused, crossed, overlapped>> /\ Current(t)
        /\ thread[t].pc \notin {"markOpen", "markClosed"}
    BY DEF DidOpen, DidClose, clientVars, raceVars, At
  <1>2. CASE NextClient(t) \/ Done(t)
    BY <1>1, <1>2, NextClientMoves, DoneMoves, RestKeeps
  <1>3. ASSUME NEW label \in {"notifyOpen", "notifyClose"}, Goto(t, label),
               label = "notifyOpen" => d \notin open[Client(t)],
               label = "notifyClose" => d \in open[Client(t)]
        PROVE  DocumentsInv'
    <2>1. Moves(t, {label}) /\ thread'[t].i = thread[t].i /\ thread'[t].pc = label
      BY <1>3, GotoMoves DEF Labels
    <2>2. Client(t) \in Names /\ d \in Docs
      BY BusyWorks DEF Working
    <2>3. thread'[t] # Idle /\ thread'[t].doc = d
      BY <2>1 DEF Moves, Idle
    <2>4. PICK s0, d0 : s0 = Client(t) /\ d0 = d
      OBVIOUS
    <2>5. Recorded(s0, d0)'
      <3>1. ~Marks(t, s0, d0) /\ ~Marks(t, s0, d0)'
        BY <1>1, <1>3, <2>1 DEF Marks
      <3>2. ASSUME NEW u \in Threads
            PROVE  (Marks(u, s0, d0)' <=> Marks(u, s0, d0)) /\ (Marks(u, s0, d0) => (At(u, "markOpen")' <=> At(u, "markOpen")))
        BY <1>1, <2>1, <3>1, SameMarks DEF Moves
      <3>3. Recorded(s0, d0)
        BY <2>2, <2>4 DEF DocumentsInv
      <3>. QED
        BY <1>1, <3>2, <3>3, RecordedKept
    <2>6. Stands(t)'
      <3>1. Client(t)' = Client(t)
        BY <2>1 DEF Client
      <3>. QED
        BY <1>1, <1>3, <2>1, <2>3, <3>1 DEF Stands, At
    <2>. QED
      BY <1>1, <2>1, <2>3, <2>4, <2>5, <2>6, TouchOne DEF DocumentsInv, OpenedOnce
  <1>. QED
    BY <1>2, <1>3 DEF DidOpen, DidClose

(***************************************************************************)
(* The notification finds the document at the server as the client has it, *)
(* unless calls about it overlapped; and there is only one record to       *)
(* follow, unless it overtakes another's.                                  *)
(***************************************************************************)
LEMMA NotifyStep ==
  ASSUME TypeOK, DocumentsInv, NEW t \in Threads, Busy(t), NotifyOpen(t) \/ NotifyClose(t)
  PROVE  DocumentsInv'
  <1>1. UNCHANGED <<open, gen, overlapped>> /\ Current(t) /\ thread[t].pc \in {"notifyOpen", "notifyClose"}
    BY DEF NotifyOpen, NotifyClose, clientVars, At
  <1>2. CASE ~Reaches(t)
    <2>1. Done(t) /\ UNCHANGED <<view, misused, crossed>>
      BY <1>2 DEF NotifyOpen, NotifyClose, raceVars
    <2>. QED
      BY <1>1, <2>1, DoneMoves, RestKeeps
  <1>3. CASE Reaches(t)
    <2>1. PICK s0 \in Names : s0 = Client(t)
      BY BusyWorks
    <2>2. PICK d0 \in Docs : d0 = thread[t].doc
      BY BusyWorks DEF Working
    <2>3. Recorded(s0, d0) /\ Stands(t) /\ crossed[s0] \subseteq overlapped /\ misused \subseteq overlapped
      BY DEF DocumentsInv, OpenedOnce
    <2>4. ASSUME d0 \notin overlapped PROVE ~Marking(s0, d0)
      <3>1. ASSUME NEW u \in Threads, Marks(u, s0, d0) PROVE FALSE
        <4>1. Busy(u) /\ thread[u].doc = d0
          BY <3>1, MarkerIsBusy
        <4>2. u # t
          BY <1>1, <3>1 DEF Marks
        <4>. QED
          BY <2>2, <2>4, <4>1, <4>2 DEF DocumentsInv, Apart
      <3>. QED
        BY <3>1 DEF Marking
    <2>5. ASSUME d0 \notin overlapped
          PROVE  (d0 \in open[s0] <=> view[s0][d0] # 0)
      BY <2>3, <2>4, <2>5 DEF Recorded
    <2>6. ASSUME NEW v \in 0..2, NEW label \in {"markOpen", "markClosed"}, NEW p \in BOOLEAN, SetView(t, v), Goto(t, label),
                 label = "markOpen" <=> v # 0, NoteRaces(t, p), p => d0 \in overlapped
          PROVE  DocumentsInv'
      <3>1. Moves(t, {label}) /\ thread'[t].i = thread[t].i /\ thread'[t].pc = label
        BY <2>6, GotoMoves DEF Labels
      <3>2. view' = [view EXCEPT ![s0][d0] = v]
        BY <2>1, <2>2, <2>6 DEF SetView
      <3>3. /\ view'[s0][d0] = v
            /\ \A s \in Names, d \in Docs : s # s0 \/ d # d0 => view'[s][d] = view[s][d]
        BY <3>2 DEF TypeOK
      <3>4. thread'[t] # Idle /\ thread'[t].doc = d0 /\ Client(t)' = s0 /\ Current(t)'
        BY <1>1, <2>1, <2>2, <2>6, <3>1 DEF Moves, Client, Current, Idle
      <3>5. crossed' = IF Marking(s0, d0) THEN [crossed EXCEPT ![s0] = @ \union {d0}] ELSE crossed
        BY <2>1, <2>2, <2>6 DEF NoteRaces
      <3>6. /\ \A s \in Names, d \in Docs : s # s0 \/ d # d0 => (d \in crossed'[s] <=> d \in crossed[s])
            /\ d0 \in crossed[s0] => d0 \in crossed'[s0]
            /\ Marking(s0, d0) => d0 \in crossed'[s0]
            /\ \A s \in Names : crossed'[s] \subseteq crossed[s] \union {d \in {d0} : Marking(s0, d0)}
        BY <3>5 DEF TypeOK
      <3>7. \A s \in Names : crossed'[s] \subseteq overlapped
        BY <2>4, <3>6 DEF DocumentsInv
      <3>8. OpenedOnce'
        BY <1>1, <2>2, <2>3, <2>6 DEF NoteRaces, OpenedOnce
      <3>9. Stands(t)'
        BY <2>6, <3>1 DEF Stands, At
      <3>10. Recorded(s0, d0)'
        <4>1. CASE d0 \in crossed'[s0]
          BY <4>1 DEF Recorded
        <4>2. CASE d0 \notin crossed'[s0]
          <5>1. ~Marking(s0, d0)
            BY <3>6, <4>2
          <5>2. ASSUME NEW u \in Threads, u # t PROVE ~Marks(u, s0, d0)'
            <6>1. ~Marks(u, s0, d0) /\ thread'[u] = thread[u]
              BY <3>1, <5>1, <5>2 DEF Marking, Moves
            <6>. QED
              BY <1>1, <6>1, SameMarks
          <5>3. Marks(t, s0, d0)' /\ (At(t, "markOpen")' <=> view'[s0][d0] # 0)
            BY <2>6, <3>1, <3>3, <3>4 DEF Marks, At
          <5>. QED
            BY <5>2, <5>3 DEF Recorded, Marking
        <4>. QED
          BY <4>1, <4>2
      <3>. QED
        BY <1>1, <2>1, <2>2, <3>1, <3>3, <3>4, <3>6, <3>7, <3>8, <3>9, <3>10, TouchOne
    <2>7. CASE NotifyOpen(t)
      <3>1. SetView(t, 1) /\ NoteRaces(t, IsOpenAtServer(t)) /\ Goto(t, "markOpen")
        BY <1>3, <2>7 DEF NotifyOpen
      <3>2. IsOpenAtServer(t) \in BOOLEAN
        BY DEF IsOpenAtServer
      <3>3. IsOpenAtServer(t) => d0 \in overlapped
        BY <1>1, <2>1, <2>2, <2>3, <2>5, <2>7 DEF IsOpenAtServer, Stands, NotifyOpen
      <3>. QED
        BY <2>6, <3>1, <3>2, <3>3
    <2>8. CASE NotifyClose(t)
      <3>1. SetView(t, 0) /\ NoteRaces(t, ~IsOpenAtServer(t)) /\ Goto(t, "markClosed")
        BY <1>3, <2>8 DEF NotifyClose
      <3>3. ~IsOpenAtServer(t) => d0 \in overlapped
        BY <1>1, <2>1, <2>2, <2>3, <2>5, <2>8 DEF IsOpenAtServer, Stands, NotifyClose
      <3>4. PICK p \in BOOLEAN : p = ~IsOpenAtServer(t)
        OBVIOUS
      <3>5. NoteRaces(t, p) /\ (p => d0 \in overlapped)
        BY <3>1, <3>3, <3>4, Zenon
      <3>. QED
        BY <2>6, <3>1, <3>5
    <2>. QED
      BY <2>7, <2>8
  <1>. QED
    BY <1>2, <1>3

(***************************************************************************)
(* The record follows the notification, and a change reaches a document    *)
(* only where it is open.                                                  *)
(***************************************************************************)
LEMMA RecordStep ==
  ASSUME TypeOK, DocumentsInv, NEW t \in Threads, Busy(t),
         DidChange(t) \/ MarkDocumentOpen(t) \/ MarkDocumentClosed(t)
  PROVE  DocumentsInv'
  <1>1. PICK s0 \in Names : s0 = Client(t)
    BY BusyWorks
  <1>2. PICK d0 \in Docs : d0 = thread[t].doc
    BY BusyWorks DEF Working
  <1>3. UNCHANGED <<gen, misused, crossed, overlapped>> /\ Current(t) /\ Moves(t, Resting)
    BY NextClientMoves, DoneMoves DEF DidChange, MarkDocumentOpen, MarkDocumentClosed, clientVars, raceVars
  <1>4. /\ Recorded(s0, d0)
        /\ ~Marks(t, s0, d0)'
        /\ \A u \in Threads \ {t} : thread'[u] = thread[u]
    BY <1>3, RestingMarksNothing DEF DocumentsInv, Moves
  <1>5. \A u \in Threads \ {t} : (Marks(u, s0, d0)' <=> Marks(u, s0, d0)) /\ (At(u, "markOpen")' <=> At(u, "markOpen"))
    BY <1>3, <1>4, SameMarks
  <1>6. Stands(t)'
    <2>1. thread'[t].pc \in Resting \union {"idle"}
      BY <1>3 DEF Moves, Idle
    <2>. QED
      BY <2>1 DEF Stands, At, Resting
  <1>7. CASE DidChange(t)
    <2>1. open' = open /\ (view' = view \/ (view' = [view EXCEPT ![s0][d0] = 2] /\ view[s0][d0] # 0))
      BY <1>1, <1>2, <1>7 DEF DidChange, clientVars, SetView, IsOpenAtServer
    <2>2. /\ view'[s0][d0] # 0 <=> view[s0][d0] # 0
          /\ \A s \in Names, d \in Docs : s # s0 \/ d # d0 => view'[s][d] = view[s][d]
      BY <2>1 DEF TypeOK
    <2>3. ~Marks(t, s0, d0)
      BY <1>7 DEF DidChange, Marks, At
    <2>4. ASSUME NEW u \in Threads
          PROVE  (Marks(u, s0, d0)' <=> Marks(u, s0, d0)) /\ (Marks(u, s0, d0) => (At(u, "markOpen")' <=> At(u, "markOpen")))
      BY <1>4, <1>5, <2>3
    <2>5. Recorded(s0, d0)'
      BY <1>3, <1>4, <2>1, <2>2, <2>4, RecordedKept
    <2>. QED
      BY <1>1, <1>2, <1>3, <1>6, <2>1, <2>2, <2>5, TouchOne DEF DocumentsInv, OpenedOnce
  <1>8. CASE MarkDocumentOpen(t) \/ MarkDocumentClosed(t)
    <2>1. Marks(t, s0, d0)
      BY <1>1, <1>2, <1>3, <1>8 DEF MarkDocumentOpen, MarkDocumentClosed, Marks, At
    <2>2. /\ view' = view
          /\ \A s \in Names, d \in Docs : s # s0 \/ d # d0 => (d \in open'[s] <=> d \in open[s])
          /\ d0 \in open'[s0] <=> At(t, "markOpen")
      <3>1. CASE MarkDocumentOpen(t)
        <4>1. view' = view /\ open' = [open EXCEPT ![s0] = @ \union {d0}] /\ At(t, "markOpen")
          BY <1>1, <1>2, <3>1 DEF MarkDocumentOpen
        <4>. QED
          BY <4>1 DEF TypeOK
      <3>2. CASE MarkDocumentClosed(t)
        <4>1. view' = view /\ open' = [open EXCEPT ![s0] = @ \ {d0}] /\ ~At(t, "markOpen")
          BY <1>1, <1>2, <3>2 DEF MarkDocumentClosed, At
        <4>. QED
          BY <4>1 DEF TypeOK
      <3>. QED
        BY <1>8, <3>1, <3>2
    <2>3. Recorded(s0, d0)'
      <3>1. CASE d0 \in crossed[s0]
        BY <1>3, <3>1 DEF Recorded
      <3>2. CASE d0 \notin crossed[s0]
        <4>1. ASSUME NEW u \in Threads PROVE ~Marks(u, s0, d0)'
          BY <1>4, <1>5, <2>1, <3>2 DEF Recorded
        <4>2. d0 \in open'[s0] <=> view'[s0][d0] # 0
          BY <1>4, <2>1, <2>2, <3>2 DEF Recorded
        <4>. QED
          BY <4>1, <4>2 DEF Recorded, Marking
      <3>. QED
        BY <3>1, <3>2
    <2>. QED
      BY <1>1, <1>2, <1>3, <1>6, <2>2, <2>3, TouchOne DEF DocumentsInv, OpenedOnce
  <1>. QED
    BY <1>7, <1>8

\* A call that begins beside another one about its document is noted.
LEMMA BeginStep ==
  ASSUME TypeOK, DocumentsInv,
         NEW t \in Threads, NEW tool \in Tools, NEW d \in Docs, NEW i \in DOMAIN Servers, BeginTool(t, tool, d, i)
  PROVE  DocumentsInv'
  <1>. DEFINE name == NameFor(tool, d)
  <1>1. /\ \A u \in Threads \ {t} : thread'[u] = thread[u]
        /\ thread'[t].pc \in Resting /\ thread'[t].doc = name /\ thread'[t].gens = gen
    BY BeginToolWorks
  <1>2. /\ UNCHANGED <<open, gen, view, misused, crossed>> /\ ~Busy(t)
        /\ overlapped' = overlapped \union {e \in {name} : InUse(e)}
    BY DEF BeginTool, clientVars, raceVars
  <1>. HIDE DEF name
  <1>3. overlapped \subseteq overlapped' /\ (InUse(name) => name \in overlapped')
    BY <1>2
  <1>4. Apart'
    <2>1. \A u \in Threads \ {t} : (Busy(u)' <=> Busy(u)) /\ thread'[u].doc = thread[u].doc
      BY <1>1 DEF Busy, At
    <2>2. ASSUME NEW u \in Threads, NEW w \in Threads, u # w, Busy(u)', Busy(w)', thread'[u].doc = thread'[w].doc
          PROVE  thread'[u].doc \in overlapped'
      <3>1. CASE u # t /\ w # t
        BY <1>3, <2>1, <2>2, <3>1 DEF DocumentsInv, Apart
      <3>2. CASE u = t
        <4>1. Busy(w) /\ thread[w].doc = name
          BY <1>1, <2>1, <2>2, <3>2
        <4>. QED
          BY <1>1, <1>3, <3>2, <4>1 DEF InUse
      <3>3. CASE w = t
        <4>1. Busy(u) /\ thread[u].doc = name
          BY <1>1, <2>1, <2>2, <3>3
        <4>. QED
          BY <1>1, <1>3, <2>2, <3>3, <4>1 DEF InUse
      <3>. QED
        BY <3>1, <3>2, <3>3
    <2>. QED
      BY <2>2 DEF Apart
  <1>5. NotFromTheFuture'
    <2>1. \A s \in Names : gen[s] <= gen[s]
      BY DEF TypeOK
    <2>. QED
      BY <1>1, <1>2, <2>1 DEF NotFromTheFuture, DocumentsInv, Busy, At
  <1>6. ASSUME NEW s \in Names, NEW e \in Docs PROVE Recorded(s, e)'
    <2>1. ~Marks(t, s, e) /\ ~Marks(t, s, e)'
      BY <1>1, <1>2 DEF Marks, Resting, Busy, At
    <2>2. ASSUME NEW u \in Threads
          PROVE  (Marks(u, s, e)' <=> Marks(u, s, e)) /\ (Marks(u, s, e) => (At(u, "markOpen")' <=> At(u, "markOpen")))
      BY <1>1, <1>2, <2>1, SameMarks
    <2>3. Recorded(s, e)
      BY DEF DocumentsInv
    <2>. QED
      BY <1>2, <2>2, <2>3, RecordedKept
  <1>7. Stands(t)'
    BY <1>1 DEF Stands, At, Resting
  <1>8. ASSUME NEW u \in Threads \ {t} PROVE Stands(u)'
    BY <1>1, <1>2, <1>3, StandsKept DEF DocumentsInv
  <1>9. OpenedOnce' /\ \A s \in Names : crossed'[s] \subseteq overlapped'
    BY <1>2, <1>3 DEF DocumentsInv, OpenedOnce
  <1>. QED
    BY <1>4, <1>5, <1>6, <1>7, <1>8, <1>9 DEF DocumentsInv

(***************************************************************************)
(* A new client starts with nothing open at a server that has nothing      *)
(* open, and the threads that hold the old one hold it for good.           *)
(***************************************************************************)
LEMMA ReplaceStep ==
  ASSUME TypeOK, DocumentsInv, NEW r \in Names, Replace(r)
  PROVE  DocumentsInv'
  <1>1. /\ thread' = thread /\ misused' = misused /\ overlapped' = overlapped
        /\ gen' = [gen EXCEPT ![r] = @ + 1]
        /\ open' = [open EXCEPT ![r] = {}] /\ view' = [view EXCEPT ![r] = [d \in Docs |-> 0]]
        /\ crossed' = [crossed EXCEPT ![r] = {}]
    BY DEF Replace, StartAfresh
  <1>2. gen'[r] = gen[r] + 1 /\ gen[r] \in Nat /\ \A s \in Names \ {r} : gen'[s] = gen[s]
    BY <1>1, DocumentsAssumption DEF TypeOK
  <1>3. Apart'
    BY <1>1 DEF DocumentsInv, Apart, Busy, At
  <1>4. NotFromTheFuture'
    <2>1. ASSUME NEW t \in Threads, Busy(t), NEW s \in Names PROVE thread[t].gens[s] <= gen'[s]
      <3>1. thread[t].gens[s] <= gen[s] /\ thread[t].gens[s] \in 0..MaxReplacements /\ gen[s] \in 0..MaxReplacements
        BY <2>1, BusyWorks DEF DocumentsInv, NotFromTheFuture, Working, TypeOK
      <3>2. gen'[s] = gen[s] \/ gen'[s] = gen[s] + 1
        BY <1>2
      <3>. QED
        BY <3>1, <3>2, DocumentsAssumption
    <2>. QED
      BY <1>1, <2>1 DEF NotFromTheFuture, Busy, At
  <1>5. ASSUME NEW t \in Threads, Busy(t), Client(t) = r PROVE ~Current(t)'
    <2>1. thread[t].gens[r] <= gen[r] /\ thread[t].gens[r] \in 0..MaxReplacements
      BY <1>5, BusyWorks DEF DocumentsInv, NotFromTheFuture, Working
    <2>2. thread[t].gens[r] # gen'[r]
      BY <1>2, <2>1, DocumentsAssumption
    <2>. QED
      BY <1>1, <1>5, <2>2 DEF Current, Client
  <1>6. ASSUME NEW t \in Threads, Busy(t), Client(t) # r
        PROVE  Client(t) \in Names /\ Current(t)' = Current(t) /\ open'[Client(t)] = open[Client(t)]
    <2>1. Client(t) \in Names
      BY <1>6, BusyWorks
    <2>. QED
      BY <1>1, <1>2, <1>6, <2>1 DEF Current, Client, TypeOK
  <1>7. ASSUME NEW s \in Names, NEW d \in Docs PROVE Recorded(s, d)'
    <2>1. CASE s = r
      <3>1. ASSUME NEW t \in Threads PROVE ~Marks(t, s, d)'
        BY <1>1, <1>5, <2>1 DEF Marks, Client, Busy, At
      <3>2. d \notin open'[s] /\ view'[s][d] = 0
        BY <1>1, <2>1 DEF TypeOK
      <3>. QED
        BY <3>1, <3>2 DEF Recorded, Marking
    <2>2. CASE s # r
      <3>1. open'[s] = open[s] /\ view'[s] = view[s] /\ crossed'[s] = crossed[s]
        BY <1>1, <2>2 DEF TypeOK
      <3>2. ASSUME NEW t \in Threads
            PROVE  (Marks(t, s, d)' <=> Marks(t, s, d)) /\ (At(t, "markOpen")' <=> At(t, "markOpen"))
        <4>1. Client(t)' = Client(t)
          BY <1>1 DEF Client
        <4>2. Busy(t) /\ Client(t) = s => Current(t)' = Current(t)
          BY <1>6, <2>2
        <4>3. thread[t].pc \in {"markOpen", "markClosed"} => Busy(t)
          BY DEF Busy, At
        <4>. QED
          BY <1>1, <4>1, <4>2, <4>3 DEF Marks, At
      <3>3. Recorded(s, d)
        BY DEF DocumentsInv
      <3>. QED
        BY <3>1, <3>2, <3>3, RecordedKept
    <2>. QED
      BY <2>1, <2>2
  <1>8. ASSUME NEW t \in Threads PROVE Stands(t)'
    <2>1. CASE Busy(t) /\ Client(t) = r
      BY <1>5, <2>1 DEF Stands
    <2>2. CASE Busy(t) /\ Client(t) # r
      BY <1>1, <1>6, <2>2 DEF Stands, At, Client, Busy, DocumentsInv
    <2>3. CASE ~Busy(t)
      BY <1>1, <2>3 DEF Stands, Busy, At
    <2>. QED
      BY <2>1, <2>2, <2>3
  <1>9. OpenedOnce' /\ \A s \in Names : crossed'[s] \subseteq overlapped'
    BY <1>1 DEF DocumentsInv, OpenedOnce, TypeOK
  <1>. QED
    BY <1>3, <1>4, <1>7, <1>8, <1>9 DEF DocumentsInv

LEMMA DocumentsStep ==
  ASSUME TypeOK, DocumentsInv, [Next]_vars
  PROVE  DocumentsInv'
  <1>1. ASSUME NEW t \in Threads, Busy(t), ToolStep(t) PROVE DocumentsInv'
    BY <1>1, QuietStep, CheckStep, NotifyStep, RecordStep DEF ToolStep
  <1>2. ASSUME UNCHANGED <<thread, open, gen, view, misused, crossed, overlapped>> PROVE DocumentsInv'
    BY <1>2 DEF DocumentsInv, Apart, NotFromTheFuture, Recorded, Marking, Marks, Stands, OpenedOnce, Busy, At, Current, Client
  <1>3. ASSUME NEW s \in Names, ServerDies(s) \/ Callback(s) \/ Hook(s) \/ \E u \in Docs : StoreDiagnostics(s, u)
        PROVE  DocumentsInv'
    BY <1>2, <1>3 DEF ServerDies, Callback, Hook, StoreDiagnostics, clientVars, raceVars
  <1>4. ASSUME UNCHANGED vars PROVE DocumentsInv'
    BY <1>2, <1>4 DEF vars
  <1>. QED
    BY <1>1, <1>3, <1>4, BeginStep, ReplaceStep DEF Next

LEMMA DocumentsInvariance == Spec => []DocumentsInv
  <1>1. Init => DocumentsInv
    BY DEF Init, Idle, DocumentsInv, Apart, NotFromTheFuture, Recorded, Marks, Stands, OpenedOnce, Busy, At
  <1>2. TypeOK /\ DocumentsInv /\ [Next]_vars => DocumentsInv'
    BY DocumentsStep
  <1>. QED
    BY <1>1, <1>2, DocumentsTypeCorrect, PTL DEF Spec

(***************************************************************************)
(* What a client tracks (openDocuments) is what its server has open, at    *)
(* every moment no tool handler stands between a notification and its      *)
(* record and as long as no notification overtook the record of another:   *)
(* for any number of threads, servers, documents, calls and replacements,  *)
(* whichever calls overlap.                                                *)
(***************************************************************************)
THEOREM ViewsAlwaysAgree == Spec => []ViewsAgree
  <1>1. DocumentsInv => ViewsAgree
    BY DEF DocumentsInv, Recorded, ViewsAgree
  <1>. QED
    BY <1>1, DocumentsInvariance, PTL

(***************************************************************************)
(* A server is told to open a document that it has open, or to close one   *)
(* that it has not (lsp/types.go:106), only if calls about the document    *)
(* overlapped.                                                             *)
(***************************************************************************)
THEOREM AlwaysOpenedOnce == Spec => []OpenedOnce
  <1>1. DocumentsInv => OpenedOnce
    BY DEF DocumentsInv
  <1>. QED
    BY <1>1, DocumentsInvariance, PTL

(***************************************************************************)
(* A subscriber has read the newest diagnostics of a document whenever no  *)
(* callback for it is due and the client had the callback when they came   *)
(* (handler.go stores them before it calls back), whatever the tools do    *)
(* and however often clients are replaced.                                 *)
(***************************************************************************)
THEOREM SubscriberAlwaysCurrent == Spec => []SubscriberIsCurrent
  <1>1. Init => SubscriberIsCurrent
    BY DEF Init, SubscriberIsCurrent
  <1>2. TypeOK /\ SubscriberIsCurrent /\ [Next]_vars => SubscriberIsCurrent'
    <2>. SUFFICES ASSUME TypeOK, SubscriberIsCurrent, [Next]_vars PROVE SubscriberIsCurrent'
      OBVIOUS
    <2>1. ASSUME NEW s \in Names, NEW u \in Docs, StoreDiagnostics(s, u) PROVE SubscriberIsCurrent'
      <3>1. PICK d \in Docs : d = Normal[u]
        BY DocumentsAssumption
      <3>2. /\ \A r \in Names, e \in Docs : r # s \/ e # d => cache'[r][e] = cache[r][e]
            /\ seen' = seen /\ reader[s] = NoDoc
        BY <2>1, <3>1 DEF StoreDiagnostics, TypeOK
      <3>3. CASE hooked[s]
        <4>1. reader' = [reader EXCEPT ![s] = d] /\ silent' = [silent EXCEPT ![s] = @ \ {d}]
          BY <2>1, <3>1, <3>3 DEF StoreDiagnostics
        <4>. QED
          BY <3>2, <4>1, DocumentsAssumption DEF SubscriberIsCurrent, TypeOK
      <3>4. CASE ~hooked[s]
        <4>1. reader' = reader /\ silent' = [silent EXCEPT ![s] = @ \union {d}]
          BY <2>1, <3>1, <3>4 DEF StoreDiagnostics
        <4>. QED
          BY <3>2, <4>1 DEF SubscriberIsCurrent, TypeOK
      <3>. QED
        BY <3>3, <3>4
    <2>2. ASSUME NEW s \in Names, Callback(s) PROVE SubscriberIsCurrent'
      BY <2>2, DocumentsAssumption DEF Callback, clientVars, TypeOK, SubscriberIsCurrent
    <2>3. ASSUME NEW s \in Names, Replace(s) PROVE SubscriberIsCurrent'
      <3>1. /\ cache' = [cache EXCEPT ![s] = [d \in Docs |-> 0]] /\ seen' = [seen EXCEPT ![s] = [d \in Docs |-> 0]]
            /\ reader' = [reader EXCEPT ![s] = NoDoc] /\ silent' = [silent EXCEPT ![s] = {}]
        BY <2>3 DEF Replace, StartAfresh
      <3>. QED
        BY <3>1 DEF TypeOK, SubscriberIsCurrent
    <2>4. ASSUME UNCHANGED <<cache, reader, seen, silent>> PROVE SubscriberIsCurrent'
      BY <2>4 DEF SubscriberIsCurrent
    <2>5. ASSUME NEW t \in Threads, ToolStep(t) PROVE SubscriberIsCurrent'
      BY <2>4, <2>5 DEF ToolStep, OnReplacedClient, EnsureDocumentOpen, DidOpen, DidClose, NotifyOpen, NotifyClose,
           DidChange, DidSave, MarkDocumentOpen, MarkDocumentClosed, PullDiagnostics, clientVars, pushVars
    <2>6. ASSUME NEW t \in Threads, NEW tool \in Tools, NEW d \in Docs, NEW i \in DOMAIN Servers, BeginTool(t, tool, d, i)
          PROVE  SubscriberIsCurrent'
      BY <2>4, <2>6 DEF BeginTool, clientVars, pushVars
    <2>7. ASSUME NEW s \in Names, ServerDies(s) \/ Hook(s) PROVE SubscriberIsCurrent'
      BY <2>4, <2>7 DEF ServerDies, Hook, clientVars, pushVars
    <2>. QED
      BY <2>1, <2>2, <2>3, <2>4, <2>5, <2>6, <2>7 DEF Next, vars
  <1>. QED
    BY <1>1, <1>2, DocumentsTypeCorrect, PTL DEF Spec

-----------------------------------------------------------------------------
(***************************************************************************)
(* The part of the state the tracker's operations disturb.                 *)
(***************************************************************************)
ListsOK ==
  /\ subscriptions \in [Uris -> [Clients -> 0..1]]
  /\ clientSubscriptions \in [Clients -> [Uris -> 0..1]]

NotifyOK ==
  /\ notifying \in [Notifiers -> Uris \union {NoUri}]
  /\ subscribers \in [Notifiers -> SUBSET Clients]

TrackerInv == TrackerTypeOK /\ MapsAgree

(***************************************************************************)
(* The tracker starts empty, with its two maps in agreement.               *)
(***************************************************************************)
LEMMA TrackerInitInv == TrackerInit => TrackerInv
  BY DEF TrackerInit, TrackerInv, TrackerTypeOK, MapsAgree, NoUri

(***************************************************************************)
(* Subscribe keeps the lists free of duplicates and the maps in agreement: *)
(* the one list it tests speaks for both.                                  *)
(***************************************************************************)
LEMMA SubscribeInv ==
  ASSUME NEW c \in Clients, NEW u \in Uris, TrackerInv, Subscribe(c, u)
  PROVE  TrackerInv'
  <1>1. subscriptions[u][c] \in 0..1 /\ clientSubscriptions[c][u] \in 0..1
    BY DEF TrackerInv, TrackerTypeOK
  <1>2. ListsOK' /\ MapsAgree'
    <2>1. CASE subscriptions[u][c] > 0
      BY <2>1 DEF TrackerInv, TrackerTypeOK, ListsOK, MapsAgree, Subscribe, trackerVars
    <2>2. CASE ~(subscriptions[u][c] > 0)
      <3>1. subscriptions[u][c] = 0 /\ clientSubscriptions[c][u] = 0
        BY <1>1, <2>2 DEF TrackerInv, MapsAgree
      <3>2. /\ subscriptions' = [subscriptions EXCEPT ![u][c] = 1]
            /\ clientSubscriptions' = [clientSubscriptions EXCEPT ![c][u] = 1]
        BY <2>2, <3>1 DEF Subscribe, TrackerInv, TrackerTypeOK
      <3>. QED
        BY <3>2 DEF TrackerInv, TrackerTypeOK, ListsOK, MapsAgree
    <2>. QED
      BY <2>1, <2>2
  <1>3. NotifyOK'
    BY DEF TrackerInv, TrackerTypeOK, NotifyOK, Subscribe
  <1>. QED
    BY <1>2, <1>3 DEF TrackerInv, TrackerTypeOK, ListsOK, NotifyOK

(***************************************************************************)
(* Unsubscribe empties the same entry of both maps.                        *)
(***************************************************************************)
LEMMA UnsubscribeInv ==
  ASSUME NEW c \in Clients, NEW u \in Uris, TrackerInv, Unsubscribe(c, u)
  PROVE  TrackerInv'
  BY DEF TrackerInv, TrackerTypeOK, MapsAgree, Unsubscribe

(***************************************************************************)
(* UnsubscribeAll empties the client's column of the one map where its row *)
(* of the other has an entry: everywhere else the column was empty.        *)
(***************************************************************************)
LEMMA UnsubscribeAllInv ==
  ASSUME NEW c \in Clients, TrackerInv, UnsubscribeAll(c)
  PROVE  TrackerInv'
  <1>1. ListsOK'
    BY DEF TrackerInv, TrackerTypeOK, ListsOK, UnsubscribeAll
  <1>2. ASSUME NEW d \in Clients, NEW u \in Uris
        PROVE  subscriptions'[u][d] = clientSubscriptions'[d][u]
    <2>1. CASE d = c
      <3>1. clientSubscriptions[c][u] \in 0..1 /\ subscriptions[u][c] = clientSubscriptions[c][u]
        BY DEF TrackerInv, TrackerTypeOK, MapsAgree
      <3>. QED
        BY <2>1, <3>1 DEF TrackerInv, TrackerTypeOK, UnsubscribeAll
    <2>2. CASE d # c
      BY <2>2 DEF TrackerInv, TrackerTypeOK, MapsAgree, UnsubscribeAll
    <2>. QED
      BY <2>1, <2>2
  <1>3. NotifyOK'
    BY DEF TrackerInv, TrackerTypeOK, NotifyOK, UnsubscribeAll
  <1>. QED
    BY <1>1, <1>2, <1>3 DEF TrackerInv, TrackerTypeOK, ListsOK, NotifyOK, MapsAgree

(***************************************************************************)
(* A notifier reads the lists and leaves them alone.                       *)
(***************************************************************************)
LEMMA NotifierInv ==
  ASSUME NEW n \in Notifiers, TrackerInv,
         (\E u \in Uris : Notify(n, u)) \/ SendNotification(n)
  PROVE  TrackerInv'
  <1>1. UNCHANGED trackerVars
    BY DEF Notify, SendNotification
  <1>2. NotifyOK'
    BY DEF TrackerInv, TrackerTypeOK, NotifyOK, Notify, SendNotification, GetSubscribers, NoUri
  <1>. QED
    BY <1>1, <1>2 DEF TrackerInv, TrackerTypeOK, NotifyOK, MapsAgree, trackerVars

(***************************************************************************)
(* Every step keeps the invariant.                                         *)
(***************************************************************************)
LEMMA TrackerNextInv == TrackerInv /\ [TrackerNext]_registryVars => TrackerInv'
  <1>1. ASSUME TrackerInv, TrackerNext PROVE TrackerInv'
    BY <1>1, SubscribeInv, UnsubscribeInv, UnsubscribeAllInv, NotifierInv DEF TrackerNext
  <1>2. ASSUME TrackerInv, UNCHANGED registryVars PROVE TrackerInv'
    BY <1>2 DEF TrackerInv, TrackerTypeOK, MapsAgree, registryVars
  <1>. QED
    BY <1>1, <1>2

THEOREM TrackerInvariance == TrackerSpec => []TrackerInv
  BY TrackerInitInv, TrackerNextInv, PTL DEF TrackerSpec

(***************************************************************************)
(* The lists of the tracker hold no element twice.                         *)
(***************************************************************************)
THEOREM TrackerTypeCorrect == TrackerSpec => []TrackerTypeOK
  <1>1. TrackerInv => TrackerTypeOK
    BY DEF TrackerInv
  <1>. QED
    BY <1>1, TrackerInvariance, PTL

(***************************************************************************)
(* The two maps of the tracker always hold the same relation.              *)
(***************************************************************************)
THEOREM MapsAlwaysAgree == TrackerSpec => []MapsAgree
  <1>1. TrackerInv => MapsAgree
    BY DEF TrackerInv
  <1>. QED
    BY <1>1, TrackerInvariance, PTL

(***************************************************************************)
(* Refinement, step by step.  A pair is in the relation iff its entry is   *)
(* positive, so each operation need only be followed on the entries.       *)
(***************************************************************************)
LEMMA TrackerInitRefines == TrackerInit => Relation!Init
  BY DEF TrackerInit, Relation!Init, Subscribed

LEMMA SubscribeRefines ==
  ASSUME NEW c \in Clients, NEW u \in Uris, TrackerInv, Subscribe(c, u)
  PROVE  Relation!Subscribe(c, u)
  <1>1. ASSUME NEW d \in Clients, NEW v \in Uris
        PROVE  subscriptions'[v][d] > 0 <=> (subscriptions[v][d] > 0 \/ (d = c /\ v = u))
    <2>1. CASE subscriptions[u][c] > 0
      BY <2>1 DEF Subscribe, trackerVars
    <2>2. CASE ~(subscriptions[u][c] > 0)
      <3>1. subscriptions' = [subscriptions EXCEPT ![u][c] = @ + 1]
        BY <2>2 DEF Subscribe
      <3>. QED
        BY <3>1, <2>2 DEF TrackerInv, TrackerTypeOK
    <2>. QED
      BY <2>1, <2>2
  <1>. QED
    BY <1>1 DEF Relation!Subscribe, Subscribed

LEMMA UnsubscribeRefines ==
  ASSUME NEW c \in Clients, NEW u \in Uris, TrackerInv, Unsubscribe(c, u)
  PROVE  Relation!Unsubscribe(c, u)
  <1>1. ASSUME NEW d \in Clients, NEW v \in Uris
        PROVE  subscriptions'[v][d] > 0 <=> (subscriptions[v][d] > 0 /\ ~(d = c /\ v = u))
    BY DEF Unsubscribe, TrackerInv, TrackerTypeOK
  <1>. QED
    BY <1>1 DEF Relation!Unsubscribe, Subscribed

LEMMA UnsubscribeAllRefines ==
  ASSUME NEW c \in Clients, TrackerInv, UnsubscribeAll(c)
  PROVE  Relation!UnsubscribeAll(c)
  <1>1. ASSUME NEW d \in Clients, NEW v \in Uris
        PROVE  subscriptions'[v][d] > 0 <=> (subscriptions[v][d] > 0 /\ d # c)
    <2>1. /\ subscriptions[v][d] \in 0..1
          /\ subscriptions[v][c] = clientSubscriptions[c][v]
      BY DEF TrackerInv, TrackerTypeOK, MapsAgree
    <2>. QED
      BY <2>1 DEF UnsubscribeAll, TrackerInv, TrackerTypeOK
  <1>. QED
    BY <1>1 DEF Relation!UnsubscribeAll, Subscribed

(***************************************************************************)
(* The tracker implements the subscription relation.                       *)
(***************************************************************************)
THEOREM TrackerKeepsRelation == TrackerSpec => KeepsRelation
  <1>1. TrackerInv /\ [TrackerNext]_registryVars => [Relation!Next]_Subscribed
    <2>1. ASSUME TrackerInv, NEW c \in Clients, NEW u \in Uris, Subscribe(c, u) \/ Unsubscribe(c, u)
          PROVE  Relation!Next
      BY <2>1, SubscribeRefines, UnsubscribeRefines DEF Relation!Next
    <2>2. ASSUME TrackerInv, NEW c \in Clients, UnsubscribeAll(c)
          PROVE  Relation!Next
      BY <2>2, UnsubscribeAllRefines DEF Relation!Next
    <2>3. ASSUME NEW n \in Notifiers, (\E u \in Uris : Notify(n, u)) \/ SendNotification(n)
          PROVE  UNCHANGED Subscribed
      BY <2>3 DEF Notify, SendNotification, trackerVars, Subscribed
    <2>4. ASSUME UNCHANGED registryVars
          PROVE  UNCHANGED Subscribed
      BY <2>4 DEF registryVars, Subscribed
    <2>. QED
      BY <2>1, <2>2, <2>3, <2>4 DEF TrackerNext
  <1>. QED
    BY <1>1, TrackerInitRefines, TrackerInvariance, PTL DEF TrackerSpec, KeepsRelation, Relation!Spec

=============================================================================
