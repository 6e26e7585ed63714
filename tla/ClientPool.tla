----------------------------- MODULE ClientPool -----------------------------
(***************************************************************************)
(* The bridge's pool of language clients (bridge/bridge.go): the map       *)
(* b.clients from server names to clients, and the operations tool         *)
(* handlers run on it concurrently: get-or-create for one server of a      *)
(* language, for all of them, or for the preferred formatter, with the     *)
(* retry loop of validateAndConnectClient; closing all; and installing the *)
(* diagnostics callback.                                                   *)
(*                                                                         *)
(* None of these operations locks the map against another one.  Each       *)
(* access to it is a step of its own here; the Go runtime may also notice  *)
(* two overlapping accesses and abort the process (MapRace).               *)
(*                                                                         *)
(* A client is abstracted to its life (LanguageClient models the inside):  *)
(*   starting  process started, initialize handshake under way             *)
(*   live      handshake done, connection open                             *)
(*   lost      connection closed by its reader, process and context live   *)
(*   exited    process gone, context still live                            *)
(*   closed    Close succeeded: context cancelled, process killed          *)
(***************************************************************************)
EXTENDS Naturals, FiniteSets

CONSTANTS
  Threads,     \* goroutines of tool handlers
  Languages,
  Servers,     \* names of configured language servers
  Serves,      \* Serves[l]: the servers LanguageServerMap lists for l
  Formatter,   \* Formatter[l]: the preferred formatter of l, or NoServer
  NoServer,
  Clients,     \* identities of client objects, 1 .. n
  NoClient,
  MaxRetries,  \* ConnectionAttemptConfig.MaxRetries
  MaxCalls     \* bound: operations begun in a behaviour

ASSUME ConfigAssumption ==
  /\ IsFiniteSet(Servers)
  /\ Serves \in [Languages -> SUBSET Servers]
  /\ Formatter \in [Languages -> Servers \union {NoServer}]
  /\ NoServer \notin Servers
ASSUME PoolBoundsAssumption ==
  /\ MaxRetries \in Nat \ {0} /\ MaxCalls \in Nat
  /\ IsFiniteSet(Clients) /\ Clients \subseteq Nat
  /\ NoClient \notin Clients

VARIABLES
  clients,    \* b.clients
  life,       \* the life of each client
  config,     \* the server whose configuration each client was started with
  handshaken, \* clients that completed initialize / initialized
  hooked,     \* clients whose handler has the diagnostics callback
  callback,   \* TRUE iff b.diagnosticsCallback # nil
  thread,     \* the locals of each thread
  calls,      \* operations begun so far
  fatal       \* the runtime aborted the process

objectVars == <<life, config, handshaken, hooked>>
vars == <<clients, life, config, handshaken, hooked, callback, thread, calls, fatal>>

Ops == {"get", "getAll", "format", "closeAll", "setCallback"}
Labels == {"idle", "next", "attempt", "handshake", "store", "hook", "closing", "hooking"}

(***************************************************************************)
(* The locals of a thread: where it is and in which operation, the servers *)
(* its loop has yet to visit, the key and the configuration it connects    *)
(* with, the attempts made, and the client it is connecting or, once it is *)
(* idle, the one GetClientForLanguage returned.                            *)
(***************************************************************************)
Locals == [pc : Labels, op : Ops, todo : SUBSET Servers,
           name : Servers \union {NoServer}, conf : Servers \union {NoServer},
           tries : 0..MaxRetries, cur : Clients \union {NoClient}]

Returned(c) == [pc |-> "idle", op |-> "get", todo |-> {}, name |-> NoServer,
                conf |-> NoServer, tries |-> 0, cur |-> c]
Idle == Returned(NoClient)

Init ==
  /\ clients = [s \in Servers |-> NoClient]
  /\ life = [c \in Clients |-> "unused"]
  /\ config = [c \in Clients |-> NoServer]
  /\ handshaken = {} /\ hooked = {}
  /\ callback = FALSE
  /\ thread = [t \in Threads |-> Idle]
  /\ calls = 0
  /\ fatal = FALSE

At(t, label) == thread[t].pc = label
Become(t, locals) == thread' = [thread EXCEPT ![t] = locals]
Goto(t, label) == Become(t, [thread[t] EXCEPT !.pc = label])

Present == {s \in Servers : clients[s] # NoClient}

\* client.Context().Err() == nil, the pool's test for a usable client
ContextLive(c) == life[c] # "closed"

Begin(t) ==
  /\ At(t, "idle")
  /\ calls < MaxCalls
  /\ calls' = calls + 1

\* validateAndConnectClient begins, for the key s with the configuration of k.
\* (It may also refuse at once, for want of an allowed directory: GiveUp.)
Dial(locals, s, k) == [locals EXCEPT !.pc = "attempt", !.name = s, !.conf = k, !.tries = 0]

(***************************************************************************)
(* GetClientForLanguage (lsp_connect, GetMultiLanguageClients, the         *)
(* single-server operations).  Both lookups range over a Go map, whose     *)
(* order is random: the name and the configuration are chosen              *)
(* independently.  A client with a cancelled context is closed again,      *)
(* which fails, and the failure is returned.                               *)
(***************************************************************************)
GetClientForLanguage(t, l) ==
  /\ Begin(t)
  /\ \E s, k \in Serves[l] :
       Become(t, IF clients[s] = NoClient THEN Dial(Idle, s, k)
                 ELSE IF ContextLive(clients[s]) THEN Returned(clients[s])
                 ELSE Idle)
  /\ UNCHANGED <<clients, callback, objectVars, fatal>>

(***************************************************************************)
(* GetAllClientsForLanguage visits every server of the language; a client  *)
(* with a cancelled context is dropped from the pool and replaced (its     *)
(* second Close fails, which is only logged), and a server that cannot be  *)
(* connected is skipped.                                                   *)
(***************************************************************************)
GetAllClientsForLanguage(t, l) ==
  /\ Begin(t)
  /\ Serves[l] # {}
  /\ Become(t, [Idle EXCEPT !.pc = "next", !.op = "getAll", !.todo = Serves[l]])
  /\ UNCHANGED <<clients, callback, objectVars, fatal>>

NextServer(t) ==
  /\ At(t, "next")
  /\ \/ /\ thread[t].todo = {}
        /\ Become(t, Idle)
        /\ UNCHANGED clients
     \/ \E s \in thread[t].todo :
          LET rest == [thread[t] EXCEPT !.todo = @ \ {s}] IN
          IF clients[s] # NoClient /\ ContextLive(clients[s])
          THEN Become(t, rest) /\ UNCHANGED clients
          ELSE Become(t, Dial(rest, s, s)) /\ clients' = [clients EXCEPT ![s] = NoClient]
  /\ UNCHANGED <<objectVars, callback, calls, fatal>>

(***************************************************************************)
(* FormatDocument with a preferred formatter: its own get-or-create, which *)
(* takes any client it finds and installs no callback.                     *)
(***************************************************************************)
FormatDocument(t, l) ==
  /\ Formatter[l] \in Serves[l]
  /\ Begin(t)
  /\ Become(t, IF clients[Formatter[l]] # NoClient THEN Idle
               ELSE Dial([Idle EXCEPT !.op = "format"], Formatter[l], Formatter[l]))
  /\ UNCHANGED <<clients, callback, objectVars, fatal>>

-----------------------------------------------------------------------------
(***************************************************************************)
(* The retry loop.  A client object that nothing refers to any more is     *)
(* used again for the next one: the model needs finitely many.             *)
(***************************************************************************)
Referenced(c) == (\E s \in Servers : clients[s] = c) \/ (\E t \in Threads : thread[t].cur = c)
Free == {c \in Clients : life[c] = "unused" \/ (life[c] \in {"closed", "exited"} /\ ~Referenced(c))}

Attempting(t) == At(t, "attempt") /\ thread[t].tries < MaxRetries
Shaking(t, l) == At(t, "handshake") /\ life[thread[t].cur] = l

\* The operation ends: getAll goes on to its next server, a get returns c.
Finish(t, c) == Become(t, IF thread[t].op = "getAll" THEN [thread[t] EXCEPT !.pc = "next", !.cur = NoClient]
                          ELSE Returned(c))

\* NewLanguageClient or Connect fails: another attempt, if one is left.
ConnectFails(t) ==
  /\ Attempting(t)
  /\ Become(t, [thread[t] EXCEPT !.tries = @ + 1])
  /\ UNCHANGED <<clients, callback, objectVars, calls, fatal>>

\* (The bridge's own process ID, tested next, always fits into 31 bits.)
ConnectSucceeds(t) ==
  /\ Attempting(t)
  /\ \E c \in Free :
       /\ \A d \in Free : c <= d
       /\ life' = [life EXCEPT ![c] = "starting"]
       /\ config' = [config EXCEPT ![c] = thread[t].conf]
       /\ handshaken' = handshaken \ {c}
       /\ hooked' = hooked \ {c}
       /\ Become(t, [thread[t] EXCEPT !.pc = "handshake", !.tries = @ + 1, !.cur = c])
  /\ UNCHANGED <<clients, callback, calls, fatal>>

\* No attempt is left, TotalTimeout has passed, or there never was a first
\* attempt: the workspace has no directory, or none that is allowed.
GiveUp(t) ==
  /\ At(t, "attempt")
  /\ Finish(t, NoClient)
  /\ UNCHANGED <<clients, callback, objectVars, calls, fatal>>

\* Mutant: the client of a failed handshake is left alone.
HandshakeFailsOpen(t) ==
  /\ Shaking(t, "starting")
  /\ Become(t, [thread[t] EXCEPT !.pc = "attempt", !.cur = NoClient])
  /\ UNCHANGED <<clients, callback, objectVars, calls, fatal>>

\* Mutant: a failed handshake begins the loop again.
HandshakeFailsAnew(t) ==
  /\ Shaking(t, "starting")
  /\ life' = [life EXCEPT ![thread[t].cur] = "closed"]
  /\ Become(t, [thread[t] EXCEPT !.pc = "attempt", !.cur = NoClient, !.tries = 0])
  /\ UNCHANGED <<clients, callback, config, handshaken, hooked, calls, fatal>>

\* Initialize (or Initialized) fails on an open connection: close and retry.
HandshakeFails(t) ==
  /\ Shaking(t, "starting")
  /\ life' = [life EXCEPT ![thread[t].cur] = "closed"]
  /\ Become(t, [thread[t] EXCEPT !.pc = "attempt", !.cur = NoClient])
  /\ UNCHANGED <<clients, callback, config, handshaken, hooked, calls, fatal>>

\* The connection is gone, with or without the process: Close reports that as
\* an error, which ends the loop.  The context stays live, and with it a process
\* that has only lost its connection.
HandshakeDies(t) ==
  /\ Shaking(t, "lost") \/ Shaking(t, "exited")
  /\ Finish(t, NoClient)
  /\ UNCHANGED <<clients, callback, objectVars, calls, fatal>>

\* Mutant: the client is handed out without waiting for the handshake.
HandshakeSkipped(t) ==
  /\ Shaking(t, "starting")
  /\ life' = [life EXCEPT ![thread[t].cur] = "live"]
  /\ Goto(t, "store")
  /\ UNCHANGED <<clients, callback, config, handshaken, hooked, calls, fatal>>

HandshakeSucceeds(t) ==
  /\ Shaking(t, "starting")
  /\ life' = [life EXCEPT ![thread[t].cur] = "live"]
  /\ handshaken' = handshaken \union {thread[t].cur}
  /\ Goto(t, "store")
  /\ UNCHANGED <<clients, callback, config, hooked, calls, fatal>>

\* FormatDocument is done once the client is stored; the others go on to hook it.
Stored(t) == IF thread[t].op = "format" THEN Become(t, Idle) ELSE Goto(t, "hook")

\* Mutant: the client is stored under the name of another server.
StoreAnywhere(t) ==
  /\ At(t, "store")
  /\ \E s \in Servers : clients' = [clients EXCEPT ![s] = thread[t].cur]
  /\ Stored(t)
  /\ UNCHANGED <<objectVars, callback, calls, fatal>>

Store(t) ==
  /\ At(t, "store")
  /\ clients' = [clients EXCEPT ![thread[t].name] = thread[t].cur]
  /\ Stored(t)
  /\ UNCHANGED <<objectVars, callback, calls, fatal>>

Hook(t) ==
  /\ At(t, "hook")
  /\ hooked' = IF callback THEN hooked \union {thread[t].cur} ELSE hooked
  /\ Finish(t, thread[t].cur)
  /\ UNCHANGED <<clients, callback, life, config, handshaken, calls, fatal>>

-----------------------------------------------------------------------------
(***************************************************************************)
(* Loops over the map.  A Go range visits every entry that stays, and may  *)
(* or may not visit one that is added meanwhile.                           *)
(***************************************************************************)
Ranging(t, o, label) ==
  \E added \in SUBSET (Servers \ Present) :
    Become(t, [Idle EXCEPT !.pc = label, !.op = o, !.todo = Present \union added])

CloseAllClients(t) ==
  /\ Begin(t)
  /\ Ranging(t, "closeAll", "closing")
  /\ UNCHANGED <<clients, callback, objectVars, fatal>>

\* Close of a client that is not live fails; the error is logged.
CloseNext(t) ==
  /\ At(t, "closing")
  /\ \E s \in thread[t].todo :
       /\ Become(t, [thread[t] EXCEPT !.todo = @ \ {s}])
       /\ life' = IF s \in Present /\ life[clients[s]] = "live"
                  THEN [life EXCEPT ![clients[s]] = "closed"] ELSE life
  /\ UNCHANGED <<clients, callback, config, handshaken, hooked, calls, fatal>>

EmptyPool(t) ==
  /\ At(t, "closing") /\ thread[t].todo = {}
  /\ clients' = [s \in Servers |-> NoClient]
  /\ Become(t, Idle)
  /\ UNCHANGED <<objectVars, callback, calls, fatal>>

\* Mutant: only future clients get the callback.
SetCallbackForFuture(t) ==
  /\ ~callback
  /\ Begin(t)
  /\ callback' = TRUE
  /\ Become(t, Idle)
  /\ UNCHANGED <<clients, objectVars, fatal>>

\* Called once.  The callback is assigned first, then given to the clients in the map.
SetDiagnosticsCallback(t) ==
  /\ ~callback
  /\ Begin(t)
  /\ callback' = TRUE
  /\ Ranging(t, "setCallback", "hooking")
  /\ UNCHANGED <<clients, objectVars, fatal>>

HookNext(t) ==
  /\ At(t, "hooking")
  /\ \/ /\ thread[t].todo = {}
        /\ Become(t, Idle)
        /\ UNCHANGED hooked
     \/ \E s \in thread[t].todo :
          /\ Become(t, [thread[t] EXCEPT !.todo = @ \ {s}])
          /\ hooked' = IF s \in Present THEN hooked \union {clients[s]} ELSE hooked
  /\ UNCHANGED <<clients, callback, life, config, handshaken, calls, fatal>>

-----------------------------------------------------------------------------
\* A server process ends, and its connection with it.
ServerDies(c) ==
  /\ life[c] \in {"starting", "live", "lost"}
  /\ life' = [life EXCEPT ![c] = "exited"]
  /\ UNCHANGED <<clients, callback, config, handshaken, hooked, thread, calls, fatal>>

\* The reader cannot decode a message and closes the connection; the process lives on.
ConnectionLost(c) ==
  /\ life[c] \in {"starting", "live"}
  /\ life' = [life EXCEPT ![c] = "lost"]
  /\ UNCHANGED <<clients, callback, config, handshaken, hooked, thread, calls, fatal>>

\* One thread writes the map while another one reads or writes it.
MapRace ==
  /\ \E t, u \in Threads : t # u /\ At(t, "store") /\ thread[u].pc \in {"store", "next", "closing", "hooking"}
  /\ fatal' = TRUE
  /\ UNCHANGED <<clients, callback, objectVars, thread, calls>>

CallStep(t) ==
  \/ NextServer(t) \/ ConnectFails(t) \/ ConnectSucceeds(t) \/ GiveUp(t)
  \/ HandshakeFails(t) \/ HandshakeDies(t) \/ HandshakeSucceeds(t) \/ Store(t) \/ Hook(t)
  \/ CloseNext(t) \/ EmptyPool(t) \/ HookNext(t)

Run(t) ==
  \/ \E l \in Languages :
       GetClientForLanguage(t, l) \/ GetAllClientsForLanguage(t, l) \/ FormatDocument(t, l)
  \/ CloseAllClients(t)
  \/ SetDiagnosticsCallback(t)
  \/ CallStep(t)

\* Nothing is left to do: every call has returned, or the process is gone.
Ended == fatal \/ (calls = MaxCalls /\ \A t \in Threads : At(t, "idle"))

Next ==
  \/ /\ ~fatal
     /\ \/ \E t \in Threads : Run(t)
        \/ \E c \in Clients : ServerDies(c) \/ ConnectionLost(c)
        \/ MapRace
  \/ Ended /\ UNCHANGED vars

Spec == Init /\ [][Next]_vars

-----------------------------------------------------------------------------
TypeOK ==
  /\ clients \in [Servers -> Clients \union {NoClient}]
  /\ life \in [Clients -> {"unused", "starting", "live", "lost", "exited", "closed"}]
  /\ config \in [Clients -> Servers \union {NoServer}]
  /\ handshaken \subseteq Clients /\ hooked \subseteq Clients
  /\ callback \in BOOLEAN /\ fatal \in BOOLEAN
  /\ thread \in [Threads -> Locals]
  /\ calls \in 0..MaxCalls

(***************************************************************************)
(* No tool handler ever finds a half-open client in the pool: every client *)
(* in it completed initialize and initialized, also when its server died   *)
(* or another thread was connecting the same server.                       *)
(***************************************************************************)
PooledAreInitialized == \A s \in Present : clients[s] \in handshaken

(***************************************************************************)
(* A server whose handshake did not complete is closed, over all retries   *)
(* and failures: while its connection is open, some thread is still        *)
(* shaking hands with it.  The exception is in the code: on a connection   *)
(* that is lost Close returns an error (client.go:326), and a process that *)
(* has outlived its connection is left running with no client in the pool. *)
(***************************************************************************)
AbandonedAreClosed ==
  \A c \in Clients : life[c] = "starting" =>
    \E t \in Threads : At(t, "handshake") /\ thread[t].cur = c

(***************************************************************************)
(* The client a language gets belongs to a server configured for that      *)
(* language, whatever order the two map lookups of GetClientForLanguage    *)
(* took and whoever stored the client.                                     *)
(***************************************************************************)
PooledServesLanguage ==
  \A s \in Present : \E l \in Languages : {s, config[clients[s]]} \subseteq Serves[l]

(***************************************************************************)
(* "This callback will be set on all existing and future LSP clients"      *)
(* (bridge.go:646): the callback is assigned before the existing clients   *)
(* are visited, and a new client is stored before the callback is read, so *)
(* no interleaving of the two misses a client.  The exception is the       *)
(* preferred formatter: FormatDocument pools a client without looking at   *)
(* the callback.                                                           *)
(***************************************************************************)
CallbackOnAllClients ==
  callback =>
    \A s \in Present \ {Formatter[l] : l \in Languages} :
      \/ clients[s] \in hooked
      \/ \E t \in Threads : \/ At(t, "hook") /\ thread[t].cur = clients[s]
                            \/ At(t, "hooking") /\ s \in thread[t].todo

(***************************************************************************)
(* No operation on the pool goes on for ever: attempts are bounded over    *)
(* all the ways one can fail, and the loops over servers and clients end   *)
(* although other threads fill and empty the map meanwhile.  Each step of  *)
(* a call leaves less work to do: servers to visit, then attempts, then    *)
(* what an attempt has left.                                               *)
(***************************************************************************)
WorkOf(locals) ==
  Cardinality(locals.todo) * (2 * MaxRetries + 5) +
    CASE locals.pc = "idle"      -> 0
      [] locals.pc = "hook"      -> 2
      [] locals.pc = "store"     -> 3
      [] locals.pc = "attempt"   -> 2 * (MaxRetries - locals.tries) + 4
      [] locals.pc = "handshake" -> 2 * (MaxRetries - locals.tries) + 5
      [] OTHER                   -> 1

CallsEnd ==
  [][\A t \in Threads :
       ~At(t, "idle") /\ thread'[t] # thread[t] => WorkOf(thread'[t]) < WorkOf(thread[t])]_vars

-----------------------------------------------------------------------------
(***************************************************************************)
(* A statement of a comment that the code does not keep.                   *)
(***************************************************************************)

(***************************************************************************)
(* bridge.go:633: "CloseAllClients closes all active language server       *)
(* clients": a client that runs is in the pool, where CloseAllClients      *)
(* finds it, or in the hands of a thread that will store it.               *)
(***************************************************************************)
NoOrphans ==
  \A c \in Clients : life[c] = "live" =>
    \/ \E s \in Servers : clients[s] = c
    \/ \E t \in Threads : At(t, "store") /\ thread[t].cur = c

=============================================================================
