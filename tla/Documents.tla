------------------------------ MODULE Documents ------------------------------
(***************************************************************************)
(* The documents the bridge opens in language servers.  A client tracks    *)
(* the documents it told its server about (lsp/methods.go, openDocuments); *)
(* the document_open, document_change, document_save and document_close    *)
(* tools and GetDocumentDiagnostics run over every client of the language, *)
(* on goroutines of their own.  The server keeps its own view, which only  *)
(* the notifications it receives can change.                               *)
(*                                                                         *)
(* The check, the notification and the update of openDocuments are three   *)
(* steps: the mutex covers each access and not the sequence, and nothing   *)
(* keeps two calls about one document apart.                               *)
(*                                                                         *)
(* Documents are known by the URI a call passes on.  Nearly every call     *)
(* passes the normalized one; SemanticTokens opens a document under the    *)
(* URI it was given, so that one file may be open under two names.         *)
(*                                                                         *)
(* A client is named by its server.  lsp_disconnect and a later call       *)
(* replace it by a fresh one (ClientPool models how); a thread that still  *)
(* holds the old object can no longer reach a server.                      *)
(***************************************************************************)
EXTENDS Naturals, Sequences, FiniteSets

CONSTANTS
  Threads,             \* goroutines of tool handlers
  Servers,             \* the servers of the language, as a sequence of names
  Docs,                \* URIs
  Normal,              \* NormalizeURI, as a function
  MaxCalls,            \* bound: tool calls in a behaviour
  MaxReplacements      \* bound: replacements of each client

NoDoc == "none"

\* A tool that finds no client of the language ends before its first step (bridge.go:397).
ASSUME DocumentsAssumption ==
  /\ Servers \in Seq({Servers[i] : i \in DOMAIN Servers}) /\ Servers # <<>>
  /\ NoDoc \notin Docs
  /\ Normal \in [Docs -> Docs] /\ \A d \in Docs : Normal[Normal[d]] = Normal[d]
  /\ MaxCalls \in Nat /\ MaxReplacements \in Nat

Names == {Servers[i] : i \in DOMAIN Servers}

VARIABLES
  open,      \* openDocuments of each client
  cache,     \* diagnosticCache of each client: the version analysed, 0 for no entry
  gen,       \* how often each client has been replaced
  alive,     \* FALSE once the client's connection is lost
  view,      \* the server's view: version of each open document, 0 if closed
  thread,    \* locals of each thread
  hooked,    \* whether the client's handler has the diagnostics callback
  reader,    \* the document whose callback the client's reader is to run, if any
  seen,      \* what a subscriber read at the last callback for a document
  misused,   \* history: documents a server was told to open while it had them
             \* open, or to close while it had not
  overlapped,  \* history: documents on which a call began beside another one
  crossed,   \* history, for each client: documents on which a notification was
             \* sent before another thread had recorded its own
  silent,    \* history, for each client: documents whose newest diagnostics
             \* came before the callback
  calls      \* tool calls begun so far

clientVars == <<open, cache, gen, alive>>
pushVars == <<hooked, reader, seen, silent>>
raceVars == <<misused, crossed>>
vars == <<open, cache, gen, alive, view, thread, hooked, reader, seen,
          misused, overlapped, crossed, silent, calls>>

\* "query": what any other request of the bridge does first, in one client.
Tools == {"open", "change", "save", "close", "diagnostics", "query"}

\* The step at which each tool meets the next client.
First(tool) == CASE tool \in {"diagnostics", "query"} -> "ensure"
                 [] OTHER                             -> tool

\* The name under which a call knows the document: a query may be SemanticTokens.
NameFor(tool, d) == IF tool = "query" THEN d ELSE Normal[d]

Labels == {"idle", "ensure", "open", "change", "save", "close",
           "notifyOpen", "markOpen", "notifyClose", "markClosed", "pull"}

Idle == [pc |-> "idle"]

Init ==
  /\ open = [s \in Names |-> {}]
  /\ cache = [s \in Names |-> [d \in Docs |-> 0]]
  /\ gen = [s \in Names |-> 0]
  /\ alive = [s \in Names |-> TRUE]
  /\ view = [s \in Names |-> [d \in Docs |-> 0]]
  /\ thread = [t \in Threads |-> Idle]
  /\ hooked = [s \in Names |-> FALSE]
  /\ reader = [s \in Names |-> NoDoc]
  /\ seen = [s \in Names |-> [d \in Docs |-> 0]]
  /\ misused = {}
  /\ overlapped = {}
  /\ crossed = [s \in Names |-> {}]
  /\ silent = [s \in Names |-> {}]
  /\ calls = 0

At(t, label) == thread[t].pc = label
Busy(t) == ~At(t, "idle")
Become(t, locals) == thread' = [thread EXCEPT ![t] = locals]
Goto(t, label) == Become(t, [thread[t] EXCEPT !.pc = label])

\* The client thread t is working with, and whether it is still the pool's.
Client(t) == Servers[thread[t].i]
Current(t) == thread[t].gens[Client(t)] = gen[Client(t)]
Reaches(t) == Current(t) /\ alive[Client(t)]

\* On to the next client, or back to the caller after the last one.
NextClient(t) ==
  Become(t, IF thread[t].i = Len(Servers) \/ thread[t].tool = "query" THEN Idle
            ELSE [thread[t] EXCEPT !.pc = First(thread[t].tool), !.i = @ + 1])

(***************************************************************************)
(* A tool handler obtains the clients of the language, or any one of them, *)
(* and, for document_open, reads the file.                                 *)
(***************************************************************************)
InUse(d) == \E u \in Threads : Busy(u) /\ thread[u].doc = d

BeginTool(t, tool, d, i) ==
  /\ ~Busy(t)
  /\ calls < MaxCalls
  /\ i = 1 \/ tool = "query"
  /\ calls' = calls + 1
  /\ overlapped' = overlapped \union {e \in {NameFor(tool, d)} : InUse(e)}
  /\ Become(t, [pc |-> First(tool), tool |-> tool, doc |-> NameFor(tool, d), i |-> i, gens |-> gen])
  /\ UNCHANGED <<clientVars, view, pushVars, raceVars>>

\* The object is not the pool's any more: nothing it does reaches a server or
\* the new client.
OnReplacedClient(t) ==
  /\ Busy(t) /\ ~Current(t)
  /\ NextClient(t)
  /\ UNCHANGED <<clientVars, view, pushVars, raceVars, overlapped, calls>>

(***************************************************************************)
(* ensureDocumentOpen: skips an open document, otherwise reads the file    *)
(* (which may fail) and calls DidOpen.  Its error is logged, and the       *)
(* request follows all the same.                                           *)
(***************************************************************************)
EnsureDocumentOpen(t) ==
  /\ At(t, "ensure") /\ Current(t)
  /\ \/ thread[t].doc \notin open[Client(t)] /\ Goto(t, "open")
     \/ Goto(t, "pull")
  /\ UNCHANGED <<clientVars, view, pushVars, raceVars, overlapped, calls>>

\* DidOpen or DidClose is over, with an error or without.
Done(t) == IF thread[t].tool \in {"diagnostics", "query"} THEN Goto(t, "pull") ELSE NextClient(t)

\* Mutant: DidOpen without its check.
DidOpenUnchecked(t) ==
  /\ At(t, "open") /\ Current(t)
  /\ Goto(t, "notifyOpen")
  /\ UNCHANGED <<clientVars, view, pushVars, raceVars, overlapped, calls>>

DidOpen(t) ==
  /\ At(t, "open") /\ Current(t)
  /\ IF thread[t].doc \in open[Client(t)] THEN Done(t) ELSE Goto(t, "notifyOpen")
  /\ UNCHANGED <<clientVars, view, pushVars, raceVars, overlapped, calls>>

DidClose(t) ==
  /\ At(t, "close") /\ Current(t)
  /\ IF thread[t].doc \in open[Client(t)] THEN Goto(t, "notifyClose") ELSE NextClient(t)
  /\ UNCHANGED <<clientVars, view, pushVars, raceVars, overlapped, calls>>

(***************************************************************************)
(* SendNotification: the server's view changes, or an error is returned.   *)
(***************************************************************************)
SetView(t, v) == view' = [view EXCEPT ![Client(t)][thread[t].doc] = v]
IsOpenAtServer(t) == view[Client(t)][thread[t].doc] # 0

\* Thread t has notified s about d and has yet to record it.
Marks(t, s, d) ==
  /\ thread[t].pc \in {"markOpen", "markClosed"}
  /\ thread[t].doc = d /\ Client(t) = s /\ Current(t)

Marking(s, d) == \E t \in Threads : Marks(t, s, d)

\* The histories: whether the notification comes out of turn, and whether it
\* overtakes the record of another one.
NoteRaces(t, outOfTurn) ==
  LET s == Client(t)
      d == thread[t].doc
  IN  /\ misused' = IF outOfTurn THEN misused \union {d} ELSE misused
      /\ crossed' = IF Marking(s, d) THEN [crossed EXCEPT ![s] = @ \union {d}] ELSE crossed

NotifyOpen(t) ==
  /\ At(t, "notifyOpen") /\ Current(t)
  /\ IF Reaches(t)
     THEN SetView(t, 1) /\ NoteRaces(t, IsOpenAtServer(t)) /\ Goto(t, "markOpen")
     ELSE Done(t) /\ UNCHANGED <<view, raceVars>>
  /\ UNCHANGED <<clientVars, pushVars, overlapped, calls>>

NotifyClose(t) ==
  /\ At(t, "notifyClose") /\ Current(t)
  /\ IF Reaches(t)
     THEN SetView(t, 0) /\ NoteRaces(t, ~IsOpenAtServer(t)) /\ Goto(t, "markClosed")
     ELSE Done(t) /\ UNCHANGED <<view, raceVars>>
  /\ UNCHANGED <<clientVars, pushVars, overlapped, calls>>

\* document_change: no check, and the version is always 2.  A server ignores a
\* change to a document that is not open.
DidChange(t) ==
  /\ At(t, "change") /\ Current(t)
  /\ IF Reaches(t) /\ IsOpenAtServer(t) THEN SetView(t, 2) ELSE UNCHANGED view
  /\ NextClient(t)
  /\ UNCHANGED <<clientVars, pushVars, raceVars, overlapped, calls>>

\* document_save: no check, no effect on the version.
DidSave(t) ==
  /\ At(t, "save") /\ Current(t)
  /\ NextClient(t)
  /\ UNCHANGED <<clientVars, view, pushVars, raceVars, overlapped, calls>>

MarkDocumentOpen(t) ==
  /\ At(t, "markOpen") /\ Current(t)
  /\ open' = [open EXCEPT ![Client(t)] = @ \union {thread[t].doc}]
  /\ Done(t)
  /\ UNCHANGED <<cache, gen, alive, view, pushVars, raceVars, overlapped, calls>>

\* Mutant: the document stays marked.
MarkNothing(t) ==
  /\ At(t, "markClosed") /\ Current(t)
  /\ Done(t)
  /\ UNCHANGED <<clientVars, view, pushVars, raceVars, overlapped, calls>>

\* The cached diagnostics stay.
MarkDocumentClosed(t) ==
  /\ At(t, "markClosed") /\ Current(t)
  /\ open' = [open EXCEPT ![Client(t)] = @ \ {thread[t].doc}]
  /\ Done(t)
  /\ UNCHANGED <<cache, gen, alive, view, pushVars, raceVars, overlapped, calls>>

\* The request itself.  The diagnostics of one client are read by
\* textDocument/diagnostic, or from the cache when the server does not support it.
PullDiagnostics(t) ==
  /\ At(t, "pull") /\ Current(t)
  /\ NextClient(t)
  /\ UNCHANGED <<clientVars, view, pushVars, raceVars, overlapped, calls>>

-----------------------------------------------------------------------------
(***************************************************************************)
(* ClientHandler.Handle for textDocument/publishDiagnostics: the reader    *)
(* stores what the server found under the normalized URI and then runs the *)
(* callback, if there is one.  The server publishes for the documents it   *)
(* has open.                                                               *)
(***************************************************************************)
\* Mutant: a second publication for a document is not announced.
StoreQuietly(s, u) ==
  LET d == Normal[u]
  IN  /\ alive[s] /\ reader[s] = NoDoc /\ view[s][u] # 0
      /\ cache' = [cache EXCEPT ![s][d] = view[s][u]]
      /\ IF hooked[s]
         THEN /\ reader' = IF cache[s][d] = 0 THEN [reader EXCEPT ![s] = d] ELSE reader
              /\ silent' = [silent EXCEPT ![s] = @ \ {d}]
         ELSE reader' = reader /\ silent' = [silent EXCEPT ![s] = @ \union {d}]
      /\ UNCHANGED <<open, gen, alive, view, thread, hooked, seen, raceVars, overlapped, calls>>

StoreDiagnostics(s, u) ==
  LET d == Normal[u]
  IN  /\ alive[s] /\ reader[s] = NoDoc /\ view[s][u] # 0
      /\ cache' = [cache EXCEPT ![s][d] = view[s][u]]
      /\ IF hooked[s]
         THEN reader' = [reader EXCEPT ![s] = d] /\ silent' = [silent EXCEPT ![s] = @ \ {d}]
         ELSE reader' = reader /\ silent' = [silent EXCEPT ![s] = @ \union {d}]
      /\ UNCHANGED <<open, gen, alive, view, thread, hooked, seen, raceVars, overlapped, calls>>

\* The subscriber reads the document's diagnostics again.
Callback(s) ==
  /\ reader[s] # NoDoc
  /\ seen' = [seen EXCEPT ![s][reader[s]] = cache[s][reader[s]]]
  /\ reader' = [reader EXCEPT ![s] = NoDoc]
  /\ UNCHANGED <<clientVars, view, thread, hooked, silent, raceVars, overlapped, calls>>

\* A client gets the callback some time after it connected, a preferred
\* formatter's only when SetDiagnosticsCallback runs while it is in the pool.
Hook(s) ==
  /\ ~hooked[s]
  /\ hooked' = [hooked EXCEPT ![s] = TRUE]
  /\ UNCHANGED <<clientVars, view, thread, reader, seen, silent, raceVars, overlapped, calls>>

-----------------------------------------------------------------------------
ServerDies(s) ==
  /\ alive[s]
  /\ alive' = [alive EXCEPT ![s] = FALSE]
  /\ UNCHANGED <<open, cache, gen, view, thread, pushVars, raceVars, overlapped, calls>>

\* What a client that was just connected starts with, apart from its documents.
StartAfresh(s) ==
  /\ gen' = [gen EXCEPT ![s] = @ + 1]
  /\ alive' = [alive EXCEPT ![s] = TRUE]
  /\ view' = [view EXCEPT ![s] = [d \in Docs |-> 0]]
  /\ cache' = [cache EXCEPT ![s] = [d \in Docs |-> 0]]
  /\ seen' = [seen EXCEPT ![s] = [d \in Docs |-> 0]]
  /\ hooked' = [hooked EXCEPT ![s] = FALSE]
  /\ reader' = [reader EXCEPT ![s] = NoDoc]
  /\ crossed' = [crossed EXCEPT ![s] = {}]
  /\ silent' = [silent EXCEPT ![s] = {}]

\* Mutant: the new client inherits the documents of the old one.
ReplaceKeepsOpen(s) ==
  /\ gen[s] < MaxReplacements
  /\ StartAfresh(s)
  /\ UNCHANGED <<open, thread, misused, overlapped, calls>>

\* The client is closed, dropped from the pool, and another one connected; what
\* subscribers saw is reckoned per client.
Replace(s) ==
  /\ gen[s] < MaxReplacements
  /\ StartAfresh(s)
  /\ open' = [open EXCEPT ![s] = {}]
  /\ UNCHANGED <<thread, misused, overlapped, calls>>

ToolStep(t) ==
  \/ OnReplacedClient(t) \/ EnsureDocumentOpen(t) \/ DidOpen(t) \/ DidClose(t)
  \/ NotifyOpen(t) \/ NotifyClose(t) \/ DidChange(t) \/ DidSave(t)
  \/ MarkDocumentOpen(t) \/ MarkDocumentClosed(t) \/ PullDiagnostics(t)

Ended == calls = MaxCalls /\ \A t \in Threads : ~Busy(t)

Next ==
  \/ \E t \in Threads :
       \/ \E tool \in Tools, d \in Docs, i \in DOMAIN Servers : BeginTool(t, tool, d, i)
       \/ Busy(t) /\ ToolStep(t)
  \/ \E s \in Names :
       \/ \E d \in Docs : StoreDiagnostics(s, d)
       \/ Callback(s) \/ Hook(s) \/ ServerDies(s) \/ Replace(s)
  \/ Ended /\ UNCHANGED vars

Spec == Init /\ [][Next]_vars

-----------------------------------------------------------------------------
Locals == {Idle} \union
  [pc : Labels \ {"idle"}, tool : Tools, doc : Docs, i : DOMAIN Servers,
   gens : [Names -> 0..MaxReplacements]]

TypeOK ==
  /\ open \in [Names -> SUBSET Docs]
  /\ cache \in [Names -> [Docs -> 0..2]]
  /\ gen \in [Names -> 0..MaxReplacements]
  /\ alive \in [Names -> BOOLEAN]
  /\ view \in [Names -> [Docs -> 0..2]]
  /\ thread \in [Threads -> Locals]
  /\ hooked \in [Names -> BOOLEAN]
  /\ reader \in [Names -> Docs \union {NoDoc}]
  /\ seen \in [Names -> [Docs -> 0..2]]
  /\ misused \subseteq Docs /\ overlapped \subseteq Docs
  /\ crossed \in [Names -> SUBSET Docs] /\ silent \in [Names -> SUBSET Docs]
  /\ calls \in 0..MaxCalls

(***************************************************************************)
(* What the bridge believes to be open is what the server has open, at     *)
(* every moment no tool handler stands between a notification and its      *)
(* record, unless a notification overtook the record of another one: a     *)
(* failed notification, a check that is stale when the notification goes   *)
(* out, a client replaced under a running tool and a server that died      *)
(* leave no wrong entry behind.                                            *)
(***************************************************************************)
ViewsAgree ==
  \A s \in Names, d \in Docs :
    alive[s] /\ d \notin crossed[s] /\ ~Marking(s, d) => (d \in open[s] <=> view[s][d] # 0)

(***************************************************************************)
(* lsp/types.go:106: open documents are tracked "to prevent duplicate      *)
(* didOpen notifications".  A name is opened twice at a server, or closed  *)
(* out of turn, only if calls about it overlapped, when two of them pass   *)
(* the check of methods.go:157 before either notifies.  Failures,          *)
(* replacements and queries under another name of the file do not do it.   *)
(***************************************************************************)
OpenedOnce == misused \subseteq overlapped

(***************************************************************************)
(* A subscriber that reads the diagnostics again at every callback has     *)
(* read the newest ones whenever no callback is due: the diagnostics are   *)
(* stored before they are announced (handler.go:48-60), and always         *)
(* announced but by a client that had no callback when they came.          *)
(***************************************************************************)
SubscriberIsCurrent ==
  \A s \in Names, d \in Docs :
    reader[s] # d /\ d \notin silent[s] => seen[s][d] = cache[s][d]

=============================================================================
