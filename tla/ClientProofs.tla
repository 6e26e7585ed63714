--------------------------- MODULE ClientProofs ----------------------------
(***************************************************************************)
(* Proofs about the language clients.  ClientPool: the pool that holds     *)
(* them, for any threads, languages, servers and clients.  LanguageClient: *)
(* one client, for any callers and every bound.                            *)
(***************************************************************************)
EXTENDS ClientPool, LanguageClient, FiniteSetTheorems, TLAPS

ServedTogether(s, k) == \E l \in Languages : {s, k} \subseteq Serves[l]

Served(s) == \E l \in Languages : s \in Serves[l]

(***************************************************************************)
(* What a thread knows of the client it holds and the servers it visits.   *)
(***************************************************************************)
ThreadOK(t) ==
  /\ thread[t].pc \in {"handshake", "store", "hook"} =>
       thread[t].cur \in Clients /\ life[thread[t].cur] # "unused"
  /\ thread[t].pc \in {"store", "hook"} => thread[t].cur \in handshaken
  /\ thread[t].pc \in {"attempt", "handshake", "store"} =>
       /\ thread[t].name \in Servers
       /\ ServedTogether(thread[t].name, thread[t].conf)
       /\ thread[t].op = "format" => \E l \in Languages : thread[t].name = Formatter[l]
  /\ thread[t].pc \in {"handshake", "store"} => config[thread[t].cur] = thread[t].conf
  /\ thread[t].op = "getAll" => \A s \in thread[t].todo : Served(s)
  /\ thread[t].pc = "next" => thread[t].op = "getAll"

HandshakenAreUsed == \A c \in handshaken : life[c] # "unused"

Inv ==
  /\ TypeOK
  /\ \A t \in Threads : ThreadOK(t)
  /\ HandshakenAreUsed
  /\ PooledAreInitialized
  /\ AbandonedAreClosed
  /\ PooledServesLanguage
  /\ CallbackOnAllClients

LEMMA ReturnedOK == ASSUME NEW c \in Clients \union {NoClient} PROVE Returned(c) \in Locals
  BY PoolBoundsAssumption DEF Returned, Locals, Labels, Ops

LEMMA IdleOK == Idle \in Locals
  BY ReturnedOK DEF Idle

(***************************************************************************)
(* Nobody holds a client in the beginning.                                 *)
(***************************************************************************)
LEMMA InitInv == Init => Inv
  <1> SUFFICES ASSUME Init PROVE Inv
    OBVIOUS
  <1>1. TypeOK
    <2>1. callback \in BOOLEAN /\ fatal \in BOOLEAN
      BY Zenon DEF Init
    <2>2. thread \in [Threads -> Locals]
      BY IdleOK DEF Init
    <2>3. calls \in 0 .. MaxCalls
      BY PoolBoundsAssumption DEF Init
    <2>4. handshaken \subseteq Clients /\ hooked \subseteq Clients
      BY DEF Init
    <2>5. /\ clients \in [Servers -> Clients \union {NoClient}]
          /\ life \in [Clients -> {"unused", "starting", "live", "lost", "exited", "closed"}]
          /\ config \in [Clients -> Servers \union {NoServer}]
      BY DEF Init
    <2>. QED
      BY <2>1, <2>2, <2>3, <2>4, <2>5 DEF TypeOK
  <1>2. ASSUME NEW t \in Threads PROVE ThreadOK(t)
    BY DEF Init, ThreadOK, Idle, Returned
  <1>. QED
    BY <1>1, <1>2
       DEF Init, Inv, HandshakenAreUsed, PooledAreInitialized, AbandonedAreClosed,
           PooledServesLanguage, CallbackOnAllClients, Present

-----------------------------------------------------------------------------
\* A client that the pool or a thread refers to loses nothing.
Kept ==
  \A c \in Clients : Referenced(c) /\ life[c] # "unused" =>
    /\ life'[c] # "unused"
    /\ c \in handshaken => c \in handshaken'
    /\ c \in hooked => c \in hooked'
    /\ config'[c] = config[c]

\* The pool gets no client.
Shrinks == \A s \in Servers : clients'[s] \in {clients[s], NoClient}

\* Only thread t moves.
Moves(t) == \A u \in Threads : u # t => thread'[u] = thread[u]

(***************************************************************************)
(* The step of one thread leaves what the others know.                     *)
(***************************************************************************)
LEMMA OthersOK ==
  ASSUME Inv, Kept, NEW t \in Threads, Moves(t), NEW u \in Threads, u # t
  PROVE  ThreadOK(u)'
  <1>1. thread'[u] = thread[u] /\ ThreadOK(u)
    BY DEF Moves, Inv
  <1>2. ASSUME thread[u].pc \in {"handshake", "store", "hook"}
        PROVE  /\ life'[thread[u].cur] # "unused"
               /\ thread[u].cur \in handshaken => thread[u].cur \in handshaken'
               /\ config'[thread[u].cur] = config[thread[u].cur]
    BY <1>1, <1>2 DEF ThreadOK, Kept, Referenced
  <1>. QED
    BY <1>1, <1>2 DEF ThreadOK, Served, ServedTogether

(***************************************************************************)
(* A pool that gets no client keeps its properties.                        *)
(***************************************************************************)
LEMMA PoolOK ==
  ASSUME Inv, Kept, Shrinks
  PROVE  PooledAreInitialized' /\ PooledServesLanguage'
  <1>1. ASSUME NEW s \in Servers, clients'[s] # NoClient
        PROVE  /\ clients'[s] \in handshaken'
               /\ \E l \in Languages : {s, config'[clients'[s]]} \subseteq Serves[l]
    <2>1. clients'[s] = clients[s] /\ s \in Present
      BY <1>1 DEF Shrinks, Present
    <2>2. clients[s] \in Clients /\ clients[s] \in handshaken /\ life[clients[s]] # "unused"
      BY <2>1 DEF Inv, TypeOK, PooledAreInitialized, HandshakenAreUsed
    <2>3. clients[s] \in handshaken' /\ config'[clients[s]] = config[clients[s]]
      BY <2>2 DEF Kept, Referenced
    <2>. QED
      BY <2>1, <2>3 DEF Inv, PooledServesLanguage
  <1>. QED
    BY <1>1 DEF PooledAreInitialized, PooledServesLanguage, Present

(***************************************************************************)
(* A thread that hooks nothing leaves the callbacks as they are.           *)
(***************************************************************************)
LEMMA CallbackOK ==
  ASSUME Inv, Kept, Shrinks, NEW t \in Threads, Moves(t),
         thread[t].pc \notin {"hook", "hooking"}, callback' = callback
  PROVE  CallbackOnAllClients'
  <1>1. ASSUME callback, NEW s \in Servers, clients'[s] # NoClient, \A l \in Languages : s # Formatter[l]
        PROVE  \/ clients'[s] \in hooked'
               \/ \E u \in Threads : \/ thread'[u].pc = "hook" /\ thread'[u].cur = clients'[s]
                                     \/ thread'[u].pc = "hooking" /\ s \in thread'[u].todo
    <2>1. clients'[s] = clients[s] /\ s \in Present \ {Formatter[l] : l \in Languages}
      BY <1>1 DEF Shrinks, Present
    <2>2. clients[s] \in Clients /\ life[clients[s]] # "unused" /\ Referenced(clients[s])
      BY <2>1 DEF Inv, TypeOK, PooledAreInitialized, HandshakenAreUsed, Present, Referenced
    <2>3. CASE clients[s] \in hooked
      BY <2>1, <2>2, <2>3 DEF Kept
    <2>4. CASE clients[s] \notin hooked
      <3>1. PICK u \in Threads : \/ At(u, "hook") /\ thread[u].cur = clients[s]
                                 \/ At(u, "hooking") /\ s \in thread[u].todo
        BY <1>1, <2>1, <2>4 DEF Inv, CallbackOnAllClients
      <3>. QED
        BY <2>1, <3>1 DEF At, Moves
    <2>. QED
      BY <2>3, <2>4
  <1>. QED
    BY <1>1 DEF CallbackOnAllClients, Present, At

(***************************************************************************)
(* What is left to show of a step of thread t that puts nothing into the   *)
(* pool.                                                                   *)
(***************************************************************************)
LEMMA StepOK ==
  ASSUME Inv, Kept, Shrinks, NEW t \in Threads, Moves(t),
         TypeOK', ThreadOK(t)', HandshakenAreUsed', CallbackOnAllClients',
         \A c \in Clients : life'[c] = "starting" =>
           \/ life[c] = "starting" /\ ~(At(t, "handshake") /\ thread[t].cur = c)
           \/ thread'[t].pc = "handshake" /\ thread'[t].cur = c
  PROVE  Inv'
  <1>1. \A u \in Threads : ThreadOK(u)'
    BY OthersOK
  <1>2. PooledAreInitialized' /\ PooledServesLanguage'
    BY PoolOK
  <1>3. ASSUME NEW c \in Clients, life'[c] = "starting"
        PROVE  \E u \in Threads : thread'[u].pc = "handshake" /\ thread'[u].cur = c
    <2>1. CASE thread'[t].pc = "handshake" /\ thread'[t].cur = c
      BY <2>1
    <2>2. CASE life[c] = "starting" /\ ~(At(t, "handshake") /\ thread[t].cur = c)
      <3>1. PICK u \in Threads : At(u, "handshake") /\ thread[u].cur = c
        BY <2>2 DEF Inv, AbandonedAreClosed
      <3>. QED
        BY <2>2, <3>1 DEF At, Moves
    <2>. QED
      BY <1>3, <2>1, <2>2
  <1>4. AbandonedAreClosed'
    BY <1>3 DEF AbandonedAreClosed, At
  <1>. QED
    BY <1>1, <1>2, <1>4 DEF Inv

-----------------------------------------------------------------------------
LEMMA BecomeOK ==
  ASSUME TypeOK, NEW t \in Threads, NEW r \in Locals, Become(t, r)
  PROVE  thread' \in [Threads -> Locals] /\ thread'[t] = r /\ Moves(t)
  BY DEF TypeOK, Become, Moves

(***************************************************************************)
(* A step that leaves the clients alone has only its thread to account for.*)
(***************************************************************************)
LEMMA PlainOK ==
  ASSUME Inv, NEW t \in Threads, NEW r \in Locals, Become(t, r),
         UNCHANGED <<objectVars, callback, fatal>>, calls' \in 0 .. MaxCalls,
         clients' \in [Servers -> Clients \union {NoClient}], Shrinks,
         thread[t].pc \notin {"hook", "hooking"},
         At(t, "handshake") => life[thread[t].cur] # "starting",
         thread'[t] = r => ThreadOK(t)'
  PROVE  Inv'
  <1>1. thread' \in [Threads -> Locals] /\ thread'[t] = r /\ Moves(t)
    BY BecomeOK DEF Inv
  <1>2. TypeOK'
    BY <1>1 DEF Inv, TypeOK, objectVars
  <1>3. Kept
    BY DEF Kept, objectVars
  <1>4. HandshakenAreUsed'
    BY DEF Inv, HandshakenAreUsed, objectVars
  <1>5. CallbackOnAllClients'
    BY <1>1, <1>3, CallbackOK
  <1>6. \A c \in Clients : life'[c] = "starting" => life[c] = "starting" /\ ~(At(t, "handshake") /\ thread[t].cur = c)
    BY DEF objectVars
  <1>. QED
    BY <1>1, <1>2, <1>3, <1>4, <1>5, <1>6, StepOK

LEMMA BeginOK ==
  ASSUME TypeOK, NEW t \in Threads, Begin(t)
  PROVE  calls' \in 0 .. MaxCalls /\ thread[t].pc = "idle"
  BY PoolBoundsAssumption DEF TypeOK, Begin, At

\* A call that has nothing to do, or nothing more.
LEMMA ReturnedThreadOK ==
  ASSUME NEW t \in Threads, NEW c, thread'[t] = Returned(c)
  PROVE  ThreadOK(t)'
  BY DEF Returned, ThreadOK

LEMMA DialOK ==
  ASSUME NEW t \in Threads, NEW r \in Locals, NEW s \in Servers, NEW k \in Servers, ServedTogether(s, k),
         r.op = "format" => \E l \in Languages : s = Formatter[l],
         r.op = "getAll" => \A q \in r.todo : Served(q)
  PROVE  /\ Dial(r, s, k) \in Locals
         /\ thread'[t] = Dial(r, s, k) => ThreadOK(t)'
  <1>1. Dial(r, s, k) \in Locals
    <2>1. 0 \in 0 .. MaxRetries
      BY PoolBoundsAssumption
    <2>2. "attempt" \in Labels
      BY DEF Labels
    <2>. QED
      BY <2>1, <2>2 DEF Dial, Locals
  <1>2. ASSUME thread'[t] = Dial(r, s, k) PROVE ThreadOK(t)'
    <2>1. thread'[t] = [r EXCEPT !.pc = "attempt", !.name = s, !.conf = k, !.tries = 0]
      BY <1>2 DEF Dial
    <2>2. /\ thread'[t].pc = "attempt" /\ thread'[t].name = s /\ thread'[t].conf = k
          /\ thread'[t].op = r.op /\ thread'[t].todo = r.todo
      BY <2>1 DEF Locals
    <2>. QED
      BY <2>2 DEF ThreadOK, Served, ServedTogether
  <1>. QED
    BY <1>1, <1>2

(***************************************************************************)
(* The lookups: what they begin to connect is a server of the language.    *)
(***************************************************************************)
LEMMA GetInv ==
  ASSUME Inv, NEW t \in Threads, NEW l \in Languages, GetClientForLanguage(t, l)
  PROVE  Inv'
  <1>1. PICK s \in Serves[l], k \in Serves[l] :
          Become(t, IF clients[s] = NoClient THEN Dial(Idle, s, k)
                    ELSE IF ContextLive(clients[s]) THEN Returned(clients[s])
                    ELSE Idle)
    BY DEF GetClientForLanguage
  <1>2. s \in Servers /\ k \in Servers /\ ServedTogether(s, k)
    BY ConfigAssumption DEF ServedTogether
  <1>3. calls' \in 0 .. MaxCalls /\ thread[t].pc = "idle"
    BY BeginOK DEF Inv, GetClientForLanguage
  <1>4. UNCHANGED <<objectVars, callback, fatal, clients>> /\ Shrinks /\ clients \in [Servers -> Clients \union {NoClient}]
    BY DEF GetClientForLanguage, Shrinks, Inv, TypeOK
  <1>5. CASE clients[s] = NoClient
    <2>1. Idle.op = "get"
      BY DEF Idle, Returned
    <2>2. Dial(Idle, s, k) \in Locals /\ (thread'[t] = Dial(Idle, s, k) => ThreadOK(t)')
      BY <1>2, <2>1, IdleOK, DialOK
    <2>. QED
      BY <1>1, <1>3, <1>4, <1>5, <2>2, PlainOK DEF At
  <1>6. CASE clients[s] # NoClient
    <2>1. PICK c \in Clients \union {NoClient} : Become(t, Returned(c))
      BY <1>1, <1>2, <1>6 DEF Inv, TypeOK, Idle
    <2>. QED
      BY <1>3, <1>4, <2>1, ReturnedOK, ReturnedThreadOK, PlainOK DEF At
  <1>. QED
    BY <1>5, <1>6

LEMMA GetAllInv ==
  ASSUME Inv, NEW t \in Threads, NEW l \in Languages, GetAllClientsForLanguage(t, l)
  PROVE  Inv'
  <1> DEFINE r == [Idle EXCEPT !.pc = "next", !.op = "getAll", !.todo = Serves[l]]
  <1>1. r \in Locals /\ r.pc = "next" /\ r.op = "getAll" /\ r.todo = Serves[l]
    BY ConfigAssumption, IdleOK DEF Locals, Labels, Ops
  <1>2. thread'[t] = r => ThreadOK(t)'
    BY <1>1 DEF ThreadOK, Served
  <1>3. calls' \in 0 .. MaxCalls /\ thread[t].pc = "idle"
    BY BeginOK DEF Inv, GetAllClientsForLanguage
  <1>4. UNCHANGED <<objectVars, callback, fatal, clients>> /\ Shrinks /\ clients \in [Servers -> Clients \union {NoClient}]
    BY DEF GetAllClientsForLanguage, Shrinks, Inv, TypeOK
  <1>5. Become(t, r)
    BY DEF GetAllClientsForLanguage
  <1>. QED
    BY <1>1, <1>2, <1>3, <1>4, <1>5, PlainOK DEF At

LEMMA FormatInv ==
  ASSUME Inv, NEW t \in Threads, NEW l \in Languages, FormatDocument(t, l)
  PROVE  Inv'
  <1> DEFINE r == [Idle EXCEPT !.op = "format"]
             s == Formatter[l]
  <1>1. r \in Locals /\ r.op = "format"
    BY IdleOK DEF Locals, Labels, Ops
  <1>2. s \in Servers /\ ServedTogether(s, s)
    BY ConfigAssumption DEF FormatDocument, ServedTogether
  <1>3. calls' \in 0 .. MaxCalls /\ thread[t].pc = "idle"
    BY BeginOK DEF Inv, FormatDocument
  <1>4. UNCHANGED <<objectVars, callback, fatal, clients>> /\ Shrinks /\ clients \in [Servers -> Clients \union {NoClient}]
    BY DEF FormatDocument, Shrinks, Inv, TypeOK
  <1>5. CASE clients[s] = NoClient
    <2>1. Dial(r, s, s) \in Locals /\ (thread'[t] = Dial(r, s, s) => ThreadOK(t)')
      BY <1>1, <1>2, DialOK
    <2>2. Become(t, Dial(r, s, s))
      BY <1>5 DEF FormatDocument
    <2>. QED
      BY <1>3, <1>4, <2>1, <2>2, PlainOK DEF At
  <1>6. CASE clients[s] # NoClient
    <2>1. Become(t, Returned(NoClient))
      BY <1>6 DEF FormatDocument, Idle
    <2>. QED
      BY <1>3, <1>4, <2>1, ReturnedOK, ReturnedThreadOK, PlainOK DEF At
  <1>. QED
    BY <1>5, <1>6

-----------------------------------------------------------------------------
LEMMA ThreadLocals ==
  ASSUME Inv, NEW t \in Threads
  PROVE  thread[t] \in Locals /\ ThreadOK(t)
  BY DEF Inv, TypeOK

(***************************************************************************)
(* The loop over all servers of a language: it connects each server with   *)
(* its own configuration.                                                  *)
(***************************************************************************)
LEMMA NextServerInv ==
  ASSUME Inv, NEW t \in Threads, NextServer(t)
  PROVE  Inv'
  <1>1. thread[t] \in Locals /\ thread[t].pc = "next" /\ thread[t].op = "getAll"
        /\ \A s \in thread[t].todo : s \in Servers /\ Served(s)
    BY ThreadLocals DEF NextServer, At, ThreadOK, Locals
  <1>2. UNCHANGED <<objectVars, callback, fatal>> /\ calls' \in 0 .. MaxCalls
    BY DEF NextServer, Inv, TypeOK
  <1>3. CASE Become(t, Idle) /\ UNCHANGED clients
    <2>1. clients' \in [Servers -> Clients \union {NoClient}] /\ Shrinks
      BY <1>3 DEF Inv, TypeOK, Shrinks
    <2>. QED
      BY <1>1, <1>2, <1>3, <2>1, IdleOK, ReturnedThreadOK, PlainOK DEF At, Idle
  <1>4. ASSUME NEW s \in thread[t].todo,
               LET rest == [thread[t] EXCEPT !.todo = @ \ {s}]
               IN IF clients[s] # NoClient /\ ContextLive(clients[s])
                  THEN Become(t, rest) /\ UNCHANGED clients
                  ELSE Become(t, Dial(rest, s, s)) /\ clients' = [clients EXCEPT ![s] = NoClient]
        PROVE  Inv'
    <2> DEFINE rest == [thread[t] EXCEPT !.todo = @ \ {s}]
    <2>1. /\ rest \in Locals /\ rest.pc = "next" /\ rest.op = "getAll"
          /\ rest.todo = thread[t].todo \ {s}
      BY <1>1 DEF Locals
    <2>2. CASE Become(t, rest) /\ UNCHANGED clients
      <3>1. thread'[t] = rest => ThreadOK(t)'
        BY <1>1, <2>1 DEF ThreadOK, Served
      <3>2. clients' \in [Servers -> Clients \union {NoClient}] /\ Shrinks
        BY <2>2 DEF Inv, TypeOK, Shrinks
      <3>. QED
        BY <1>1, <1>2, <2>1, <2>2, <3>1, <3>2, PlainOK DEF At
    <2>3. CASE Become(t, Dial(rest, s, s)) /\ clients' = [clients EXCEPT ![s] = NoClient]
      <3>1. ServedTogether(s, s)
        BY <1>1 DEF Served, ServedTogether
      <3>2. Dial(rest, s, s) \in Locals /\ (thread'[t] = Dial(rest, s, s) => ThreadOK(t)')
        BY <1>1, <2>1, <3>1, DialOK
      <3>3. clients' \in [Servers -> Clients \union {NoClient}] /\ Shrinks
        BY <2>3 DEF Inv, TypeOK, Shrinks
      <3>. QED
        BY <1>1, <1>2, <2>3, <3>2, <3>3, PlainOK DEF At
    <2>. QED
      BY <1>4, <2>2, <2>3
  <1>. QED
    BY <1>3, <1>4 DEF NextServer

-----------------------------------------------------------------------------
(***************************************************************************)
(* The end of an operation.                                                *)
(***************************************************************************)
LEMMA FinishOK ==
  ASSUME Inv, NEW t \in Threads, NEW c \in Clients \union {NoClient}, Finish(t, c)
  PROVE  \E r \in Locals : Become(t, r) /\ (thread'[t] = r => ThreadOK(t)')
  <1>1. thread[t] \in Locals /\ ThreadOK(t)
    BY ThreadLocals
  <1>2. CASE thread[t].op = "getAll"
    <2> DEFINE r == [thread[t] EXCEPT !.pc = "next", !.cur = NoClient]
    <2>1. "next" \in Labels
      BY DEF Labels
    <2>2. r \in Locals /\ r.pc = "next" /\ r.op = "getAll" /\ r.todo = thread[t].todo
      BY <1>1, <1>2, <2>1 DEF Locals
    <2>3. thread'[t] = r => ThreadOK(t)'
      BY <1>1, <1>2, <2>2 DEF ThreadOK, Served
    <2>. QED
      BY <1>2, <2>2, <2>3 DEF Finish
  <1>3. CASE thread[t].op # "getAll"
    BY <1>3, ReturnedOK, ReturnedThreadOK DEF Finish
  <1>. QED
    BY <1>2, <1>3

\* The steps of the retry loop that end it, or fail before there is a client.
LEMMA RetryInv ==
  ASSUME Inv, NEW t \in Threads, ConnectFails(t) \/ GiveUp(t) \/ HandshakeDies(t)
  PROVE  Inv'
  <1>1. thread[t] \in Locals /\ ThreadOK(t)
    BY ThreadLocals
  <1>2. /\ UNCHANGED <<objectVars, callback, fatal, clients>> /\ calls' \in 0 .. MaxCalls
        /\ Shrinks /\ clients \in [Servers -> Clients \union {NoClient}]
    BY DEF ConnectFails, GiveUp, HandshakeDies, Inv, TypeOK, Shrinks
  <1>3. /\ thread[t].pc \notin {"hook", "hooking"}
        /\ At(t, "handshake") => life[thread[t].cur] # "starting"
    BY DEF ConnectFails, Attempting, GiveUp, HandshakeDies, Shaking, At
  <1>4. CASE ConnectFails(t)
    <2> DEFINE r == [thread[t] EXCEPT !.tries = @ + 1]
    <2>1. thread[t].tries + 1 \in 0 .. MaxRetries
      BY <1>1, <1>4, PoolBoundsAssumption DEF ConnectFails, Attempting, Locals
    <2>2. r \in Locals
      BY <1>1, <2>1 DEF Locals
    <2>3. thread'[t] = r => ThreadOK(t)'
      BY <1>1, <1>2 DEF ThreadOK, Served, ServedTogether, Locals, objectVars
    <2>4. Become(t, r)
      BY <1>4 DEF ConnectFails
    <2>. QED
      BY <1>2, <1>3, <2>2, <2>3, <2>4, PlainOK
  <1>5. CASE GiveUp(t) \/ HandshakeDies(t)
    <2>1. Finish(t, NoClient)
      BY <1>5 DEF GiveUp, HandshakeDies
    <2>. QED
      BY <1>2, <1>3, <2>1, FinishOK, PlainOK
  <1>. QED
    BY <1>4, <1>5

(***************************************************************************)
(* A new client: nobody refers to the object it takes.                     *)
(***************************************************************************)
LEMMA ConnectInv ==
  ASSUME Inv, NEW t \in Threads, ConnectSucceeds(t)
  PROVE  Inv'
  <1>1. thread[t] \in Locals /\ ThreadOK(t) /\ thread[t].pc = "attempt" /\ thread[t].tries < MaxRetries
    BY ThreadLocals DEF ConnectSucceeds, Attempting, At
  <1>2. PICK c \in Free :
          /\ life' = [life EXCEPT ![c] = "starting"]
          /\ config' = [config EXCEPT ![c] = thread[t].conf]
          /\ handshaken' = handshaken \ {c}
          /\ hooked' = hooked \ {c}
          /\ Become(t, [thread[t] EXCEPT !.pc = "handshake", !.tries = @ + 1, !.cur = c])
    BY DEF ConnectSucceeds
  <1> DEFINE r == [thread[t] EXCEPT !.pc = "handshake", !.tries = @ + 1, !.cur = c]
  <1>3. c \in Clients /\ (life[c] = "unused" \/ ~Referenced(c))
    BY DEF Free
  <1>4. r \in Locals
    <2>1. thread[t].tries + 1 \in 0 .. MaxRetries /\ "handshake" \in Labels
      BY <1>1, PoolBoundsAssumption DEF Locals, Labels
    <2>. QED
      BY <1>1, <1>3, <2>1 DEF Locals
  <1>5. /\ r.pc = "handshake" /\ r.cur = c /\ r.name = thread[t].name /\ r.conf = thread[t].conf
        /\ r.op = thread[t].op /\ r.todo = thread[t].todo
    BY <1>1 DEF Locals
  <1>6. thread' \in [Threads -> Locals] /\ thread'[t] = r /\ Moves(t)
    BY <1>2, <1>4, BecomeOK DEF Inv
  <1>7. life'[c] = "starting" /\ config'[c] = thread[t].conf
    BY <1>2, <1>3 DEF Inv, TypeOK
  <1>8. TypeOK'
    BY <1>1, <1>2, <1>3, <1>6 DEF Inv, TypeOK, ConnectSucceeds, Locals
  <1>9. Kept
    BY <1>2, <1>3 DEF Kept, Inv, TypeOK
  <1>10. Shrinks /\ callback' = callback
    BY DEF ConnectSucceeds, Shrinks
  <1>11. ThreadOK(t)'
    BY <1>1, <1>3, <1>5, <1>6, <1>7 DEF ThreadOK, Served, ServedTogether
  <1>12. HandshakenAreUsed'
    BY <1>2 DEF Inv, TypeOK, HandshakenAreUsed
  <1>13. CallbackOnAllClients'
    BY <1>1, <1>6, <1>9, <1>10, CallbackOK
  <1>14. \A d \in Clients : life'[d] = "starting" =>
           \/ life[d] = "starting" /\ ~(At(t, "handshake") /\ thread[t].cur = d)
           \/ thread'[t].pc = "handshake" /\ thread'[t].cur = d
    BY <1>1, <1>2, <1>5, <1>6 DEF Inv, TypeOK, At
  <1>. QED
    BY <1>6, <1>8, <1>9, <1>10, <1>11, <1>12, <1>13, <1>14, StepOK

(***************************************************************************)
(* The end of a handshake: a failed one closes its client, a successful    *)
(* one makes it fit for the pool.                                          *)
(***************************************************************************)
LEMMA HandshakeInv ==
  ASSUME Inv, NEW t \in Threads, HandshakeFails(t) \/ HandshakeSucceeds(t)
  PROVE  Inv'
  <1> DEFINE c == thread[t].cur
  <1>1. thread[t] \in Locals /\ ThreadOK(t) /\ thread[t].pc = "handshake" /\ c \in Clients
    BY ThreadLocals DEF HandshakeFails, HandshakeSucceeds, Shaking, At, ThreadOK
  <1>2. PICK r \in Locals :
          /\ Become(t, r)
          /\ r.pc \in {"attempt", "store"} /\ r.name = thread[t].name /\ r.conf = thread[t].conf
          /\ r.op = thread[t].op /\ r.todo = thread[t].todo
          /\ r.pc = "store" => HandshakeSucceeds(t) /\ r.cur = c
    <2>1. CASE HandshakeFails(t)
      <3> DEFINE q == [thread[t] EXCEPT !.pc = "attempt", !.cur = NoClient]
      <3>1. "attempt" \in Labels
        BY DEF Labels
      <3>2. /\ q \in Locals /\ q.pc = "attempt" /\ q.name = thread[t].name /\ q.conf = thread[t].conf
            /\ q.op = thread[t].op /\ q.todo = thread[t].todo
        BY <1>1, <3>1 DEF Locals
      <3>. QED
        BY <2>1, <3>2 DEF HandshakeFails
    <2>2. CASE HandshakeSucceeds(t)
      <3> DEFINE q == [thread[t] EXCEPT !.pc = "store"]
      <3>1. "store" \in Labels
        BY DEF Labels
      <3>2. /\ q \in Locals /\ q.pc = "store" /\ q.name = thread[t].name /\ q.conf = thread[t].conf
            /\ q.op = thread[t].op /\ q.todo = thread[t].todo /\ q.cur = c
        BY <1>1, <3>1 DEF Locals
      <3>. QED
        BY <2>2, <3>2 DEF HandshakeSucceeds, Goto
    <2>. QED
      BY <2>1, <2>2
  <1>3. thread' \in [Threads -> Locals] /\ thread'[t] = r /\ Moves(t)
    BY <1>2, BecomeOK DEF Inv
  <1>4. PICK l \in {"closed", "live"} : life' = [life EXCEPT ![c] = l]
    BY DEF HandshakeFails, HandshakeSucceeds
  <1>5. /\ UNCHANGED <<clients, callback, config, hooked, calls, fatal>>
        /\ handshaken' \in {handshaken, handshaken \union {c}}
        /\ HandshakeSucceeds(t) => handshaken' = handshaken \union {c}
    BY DEF HandshakeFails, HandshakeSucceeds
  <1>6. TypeOK'
    BY <1>1, <1>3, <1>4, <1>5 DEF Inv, TypeOK
  <1>7. Kept
    BY <1>4, <1>5 DEF Kept, Inv, TypeOK
  <1>8. Shrinks
    BY <1>5 DEF Shrinks
  <1>9. ThreadOK(t)'
    BY <1>1, <1>2, <1>3, <1>4, <1>5 DEF ThreadOK, Served, ServedTogether, Inv, TypeOK
  <1>10. HandshakenAreUsed'
    <2>1. ASSUME NEW d \in handshaken' PROVE life'[d] # "unused"
      <3>1. d \in Clients /\ (d = c \/ life[d] # "unused")
        BY <1>1, <1>5 DEF Inv, TypeOK, HandshakenAreUsed
      <3>. QED
        BY <1>4, <3>1 DEF Inv, TypeOK
    <2>. QED
      BY <2>1 DEF HandshakenAreUsed
  <1>11. CallbackOnAllClients'
    BY <1>1, <1>3, <1>5, <1>7, <1>8, CallbackOK
  <1>12. \A d \in Clients : life'[d] = "starting" => life[d] = "starting" /\ ~(At(t, "handshake") /\ c = d)
    BY <1>4 DEF Inv, TypeOK
  <1>. QED
    BY <1>3, <1>6, <1>7, <1>8, <1>9, <1>10, <1>11, <1>12, StepOK

(***************************************************************************)
(* A client enters the pool under the name it was dialled with.            *)
(***************************************************************************)
LEMMA StoreInv ==
  ASSUME Inv, NEW t \in Threads, Store(t)
  PROVE  Inv'
  <1> DEFINE c == thread[t].cur
             n == thread[t].name
  <1>1. /\ thread[t] \in Locals /\ ThreadOK(t) /\ thread[t].pc = "store"
        /\ c \in Clients /\ c \in handshaken /\ n \in Servers
        /\ ServedTogether(n, config[c])
        /\ thread[t].op = "format" => \E l \in Languages : n = Formatter[l]
    BY ThreadLocals DEF Store, At, ThreadOK
  <1>2. /\ UNCHANGED <<life, config, handshaken, hooked, callback, calls, fatal>>
        /\ clients' = [clients EXCEPT ![n] = c]
    BY DEF Store, objectVars
  <1>3. PICK r \in Locals :
          /\ Become(t, r)
          /\ ThreadOK(t) /\ thread'[t] = r => ThreadOK(t)'
          /\ thread[t].op # "format" => r.pc = "hook" /\ r.cur = c
    <2>1. CASE thread[t].op = "format"
      BY <1>1, <2>1, IdleOK, ReturnedThreadOK DEF Store, Stored, Idle
    <2>2. CASE thread[t].op # "format"
      <3> DEFINE q == [thread[t] EXCEPT !.pc = "hook"]
      <3>1. "hook" \in Labels
        BY DEF Labels
      <3>2. q \in Locals /\ q.pc = "hook" /\ q.cur = c /\ q.op = thread[t].op /\ q.todo = thread[t].todo
        BY <1>1, <3>1 DEF Locals
      <3>3. thread'[t] = q => ThreadOK(t)'
        BY <1>1, <1>2, <3>2 DEF ThreadOK, Served
      <3>. QED
        BY <2>2, <3>2, <3>3 DEF Store, Stored, Goto
    <2>. QED
      BY <2>1, <2>2
  <1>4. thread' \in [Threads -> Locals] /\ thread'[t] = r /\ Moves(t)
    BY <1>3, BecomeOK DEF Inv
  <1>5. TypeOK'
    BY <1>1, <1>2, <1>4 DEF Inv, TypeOK
  <1>6. Kept
    BY <1>2 DEF Kept
  <1>7. \A u \in Threads : ThreadOK(u)'
    BY <1>1, <1>3, <1>4, <1>6, OthersOK
  <1>8. HandshakenAreUsed'
    BY <1>2 DEF Inv, HandshakenAreUsed
  <1>9. /\ clients'[n] = c
        /\ \A s \in Servers \ {n} : clients'[s] = clients[s]
    BY <1>1, <1>2 DEF Inv, TypeOK
  <1>10. PooledAreInitialized'
    BY <1>1, <1>2, <1>9 DEF Inv, PooledAreInitialized, Present
  <1>11. PooledServesLanguage'
    BY <1>1, <1>2, <1>9 DEF Inv, PooledServesLanguage, Present, ServedTogether
  <1>12. AbandonedAreClosed'
    BY <1>1, <1>2, <1>4 DEF Inv, AbandonedAreClosed, At, Moves
  <1>13. ASSUME callback, NEW s \in Servers, clients'[s] # NoClient, \A l \in Languages : s # Formatter[l]
         PROVE  \/ clients'[s] \in hooked
                \/ \E u \in Threads : \/ thread'[u].pc = "hook" /\ thread'[u].cur = clients'[s]
                                      \/ thread'[u].pc = "hooking" /\ s \in thread'[u].todo
    <2>1. CASE s = n
      BY <1>1, <1>3, <1>4, <1>9, <1>13, <2>1
    <2>2. CASE s # n
      <3>1. s \in Present \ {Formatter[l] : l \in Languages} /\ clients'[s] = clients[s]
        BY <1>9, <1>13, <2>2 DEF Present
      <3>2. \/ clients[s] \in hooked
            \/ \E u \in Threads : \/ At(u, "hook") /\ thread[u].cur = clients[s]
                                  \/ At(u, "hooking") /\ s \in thread[u].todo
        BY <1>13, <3>1 DEF Inv, CallbackOnAllClients
      <3>. QED
        BY <1>1, <1>4, <3>1, <3>2 DEF At, Moves
    <2>. QED
      BY <2>1, <2>2
  <1>14. CallbackOnAllClients'
    BY <1>2, <1>13 DEF CallbackOnAllClients, Present, At
  <1>. QED
    BY <1>5, <1>7, <1>8, <1>10, <1>11, <1>12, <1>14 DEF Inv

(***************************************************************************)
(* A new client is hooked if there is a callback by then.                  *)
(***************************************************************************)
LEMMA HookInv ==
  ASSUME Inv, NEW t \in Threads, Hook(t)
  PROVE  Inv'
  <1> DEFINE c == thread[t].cur
  <1>1. thread[t] \in Locals /\ ThreadOK(t) /\ thread[t].pc = "hook" /\ c \in Clients
    BY ThreadLocals DEF Hook, At, ThreadOK
  <1>2. /\ UNCHANGED <<clients, callback, life, config, handshaken, calls, fatal>>
        /\ hooked' = IF callback THEN hooked \union {c} ELSE hooked
    BY DEF Hook
  <1>3. PICK r \in Locals : Become(t, r) /\ (thread'[t] = r => ThreadOK(t)')
    BY <1>1, FinishOK DEF Hook
  <1>4. thread' \in [Threads -> Locals] /\ thread'[t] = r /\ Moves(t)
    BY <1>3, BecomeOK DEF Inv
  <1>5. TypeOK'
    BY <1>1, <1>2, <1>4 DEF Inv, TypeOK
  <1>6. Kept /\ Shrinks
    BY <1>2 DEF Kept, Shrinks
  <1>7. HandshakenAreUsed'
    BY <1>2 DEF Inv, HandshakenAreUsed
  <1>8. ASSUME callback, NEW s \in Servers, clients[s] # NoClient, \A l \in Languages : s # Formatter[l]
        PROVE  \/ clients[s] \in hooked'
               \/ \E u \in Threads : \/ thread'[u].pc = "hook" /\ thread'[u].cur = clients[s]
                                     \/ thread'[u].pc = "hooking" /\ s \in thread'[u].todo
    <2>1. CASE clients[s] \in hooked \/ clients[s] = c
      BY <1>2, <1>8, <2>1
    <2>2. CASE clients[s] \notin hooked /\ clients[s] # c
      <3>1. s \in Present \ {Formatter[l] : l \in Languages}
        BY <1>8 DEF Present
      <3>2. PICK u \in Threads : \/ At(u, "hook") /\ thread[u].cur = clients[s]
                                 \/ At(u, "hooking") /\ s \in thread[u].todo
        BY <1>8, <2>2, <3>1 DEF Inv, CallbackOnAllClients
      <3>3. u # t
        BY <1>1, <2>2, <3>2 DEF At
      <3>. QED
        BY <1>4, <3>2, <3>3 DEF At, Moves
    <2>. QED
      BY <2>1, <2>2
  <1>9. CallbackOnAllClients'
    BY <1>2, <1>8 DEF CallbackOnAllClients, Present, At
  <1>10. \A d \in Clients : life'[d] = "starting" => life[d] = "starting" /\ ~(At(t, "handshake") /\ c = d)
    BY <1>1, <1>2 DEF At
  <1>. QED
    BY <1>3, <1>4, <1>5, <1>6, <1>7, <1>9, <1>10, StepOK

-----------------------------------------------------------------------------
(***************************************************************************)
(* The loops over the map.                                                 *)
(***************************************************************************)
LEMMA RangingOK ==
  ASSUME Inv, NEW t \in Threads, NEW o \in {"closeAll", "setCallback"}, NEW label \in {"closing", "hooking"},
         Ranging(t, o, label)
  PROVE  \E r \in Locals :
           /\ Become(t, r) /\ r.pc = label /\ Present \subseteq r.todo
           /\ thread'[t] = r => ThreadOK(t)'
  <1>1. PICK added \in SUBSET (Servers \ Present) :
          Become(t, [Idle EXCEPT !.pc = label, !.op = o, !.todo = Present \union added])
    BY DEF Ranging
  <1> DEFINE r == [Idle EXCEPT !.pc = label, !.op = o, !.todo = Present \union added]
  <1>2. label \in Labels /\ o \in Ops /\ Present \union added \subseteq Servers
    BY DEF Labels, Ops, Present
  <1>3. r \in Locals /\ r.pc = label /\ r.op = o /\ r.todo = Present \union added
    BY <1>2, IdleOK DEF Locals
  <1>4. thread'[t] = r => ThreadOK(t)'
    BY <1>3 DEF ThreadOK
  <1>. QED
    BY <1>1, <1>3, <1>4

\* One server less to visit.
LEMMA VisitOK ==
  ASSUME Inv, NEW t \in Threads, thread[t].pc \in {"closing", "hooking"}, NEW s \in thread[t].todo,
         Become(t, [thread[t] EXCEPT !.todo = @ \ {s}])
  PROVE  /\ s \in Servers
         /\ thread' \in [Threads -> Locals] /\ Moves(t) /\ ThreadOK(t)'
         /\ thread'[t].pc = thread[t].pc /\ thread'[t].todo = thread[t].todo \ {s}
  <1> DEFINE r == [thread[t] EXCEPT !.todo = @ \ {s}]
  <1>1. thread[t] \in Locals /\ ThreadOK(t) /\ s \in Servers
    BY ThreadLocals DEF Locals
  <1>2. r \in Locals /\ r.pc = thread[t].pc /\ r.op = thread[t].op /\ r.todo = thread[t].todo \ {s}
    BY <1>1 DEF Locals
  <1>3. thread' \in [Threads -> Locals] /\ thread'[t] = r /\ Moves(t)
    BY <1>2, BecomeOK DEF Inv
  <1>4. ThreadOK(t)'
    BY <1>1, <1>2, <1>3 DEF ThreadOK, Served
  <1>. QED
    BY <1>1, <1>2, <1>3, <1>4

LEMMA CloseInv ==
  ASSUME Inv, NEW t \in Threads, CloseAllClients(t) \/ CloseNext(t) \/ EmptyPool(t)
  PROVE  Inv'
  <1>1. CASE CloseAllClients(t)
    <2>1. calls' \in 0 .. MaxCalls /\ thread[t].pc = "idle"
      BY <1>1, BeginOK DEF Inv, CloseAllClients
    <2>2. /\ UNCHANGED <<objectVars, callback, fatal, clients>> /\ Shrinks
          /\ clients \in [Servers -> Clients \union {NoClient}]
      BY <1>1 DEF CloseAllClients, Inv, TypeOK, Shrinks
    <2>. QED
      BY <1>1, <2>1, <2>2, RangingOK, PlainOK DEF CloseAllClients, At
  <1>2. CASE EmptyPool(t)
    <2>1. /\ UNCHANGED <<objectVars, callback, fatal>> /\ calls' \in 0 .. MaxCalls /\ Shrinks
          /\ clients' \in [Servers -> Clients \union {NoClient}]
      BY <1>2 DEF EmptyPool, Inv, TypeOK, Shrinks
    <2>. QED
      BY <1>2, <2>1, IdleOK, ReturnedThreadOK, PlainOK DEF EmptyPool, At, Idle
  <1>3. CASE CloseNext(t)
    <2>1. PICK s \in thread[t].todo :
            /\ Become(t, [thread[t] EXCEPT !.todo = @ \ {s}])
            /\ life' = IF s \in Present /\ life[clients[s]] = "live"
                       THEN [life EXCEPT ![clients[s]] = "closed"] ELSE life
      BY <1>3 DEF CloseNext
    <2>2. thread[t].pc = "closing" /\ UNCHANGED <<clients, callback, config, handshaken, hooked, calls, fatal>>
      BY <1>3 DEF CloseNext, At
    <2>3. /\ s \in Servers /\ thread' \in [Threads -> Locals] /\ Moves(t) /\ ThreadOK(t)'
      BY <2>1, <2>2, VisitOK
    <2>4. \A c \in Clients : life'[c] \in {life[c], "closed"}
      BY <2>1 DEF Inv, TypeOK
    <2>5. TypeOK'
      BY <2>1, <2>2, <2>3 DEF Inv, TypeOK
    <2>6. Kept /\ Shrinks
      BY <2>2, <2>4 DEF Kept, Shrinks
    <2>7. HandshakenAreUsed'
      BY <2>2, <2>4 DEF Inv, TypeOK, HandshakenAreUsed
    <2>8. CallbackOnAllClients'
      BY <2>2, <2>3, <2>6, CallbackOK
    <2>9. \A c \in Clients : life'[c] = "starting" => life[c] = "starting" /\ ~(At(t, "handshake") /\ thread[t].cur = c)
      BY <2>2, <2>4 DEF At
    <2>. QED
      BY <2>3, <2>5, <2>6, <2>7, <2>8, <2>9, StepOK
  <1>. QED
    BY <1>1, <1>2, <1>3

(***************************************************************************)
(* The callback is assigned and its loop will visit every client there is. *)
(***************************************************************************)
LEMMA SetCallbackInv ==
  ASSUME Inv, NEW t \in Threads, SetDiagnosticsCallback(t)
  PROVE  Inv'
  <1>1. calls' \in 0 .. MaxCalls /\ thread[t].pc = "idle"
    BY BeginOK DEF Inv, SetDiagnosticsCallback
  <1>2. callback' = TRUE /\ UNCHANGED <<clients, life, config, handshaken, hooked, fatal>>
    BY DEF SetDiagnosticsCallback, objectVars
  <1>3. PICK r \in Locals :
          /\ Become(t, r) /\ r.pc = "hooking" /\ Present \subseteq r.todo
          /\ thread'[t] = r => ThreadOK(t)'
    BY RangingOK DEF SetDiagnosticsCallback
  <1>4. thread' \in [Threads -> Locals] /\ thread'[t] = r /\ Moves(t)
    BY <1>3, BecomeOK DEF Inv
  <1>5. callback' \in BOOLEAN /\ fatal' \in BOOLEAN
    BY <1>2, Zenon DEF Inv, TypeOK
  <1>6. TypeOK'
    BY <1>1, <1>2, <1>4, <1>5 DEF Inv, TypeOK
  <1>7. Kept /\ Shrinks
    BY <1>2 DEF Kept, Shrinks
  <1>8. HandshakenAreUsed'
    BY <1>2 DEF Inv, HandshakenAreUsed
  <1>9. CallbackOnAllClients'
    BY <1>2, <1>3, <1>4 DEF CallbackOnAllClients, Present, At
  <1>10. \A c \in Clients : life'[c] = "starting" => life[c] = "starting" /\ ~(At(t, "handshake") /\ thread[t].cur = c)
    BY <1>1, <1>2 DEF At
  <1>. QED
    BY <1>3, <1>4, <1>6, <1>7, <1>8, <1>9, <1>10, StepOK

LEMMA HookNextInv ==
  ASSUME Inv, NEW t \in Threads, HookNext(t)
  PROVE  Inv'
  <1>1. thread[t].pc = "hooking" /\ UNCHANGED <<clients, callback, life, config, handshaken, calls, fatal>>
    BY DEF HookNext, At
  <1>2. HandshakenAreUsed' /\ Shrinks
    BY <1>1 DEF Inv, HandshakenAreUsed, Shrinks
  <1>3. \A c \in Clients : life'[c] = "starting" => life[c] = "starting" /\ ~(At(t, "handshake") /\ thread[t].cur = c)
    BY <1>1 DEF At
  <1>4. PICK done \in SUBSET Servers :
          /\ thread' \in [Threads -> Locals] /\ Moves(t) /\ ThreadOK(t)'
          /\ thread[t].todo \subseteq done \/ (thread'[t].pc = "hooking" /\ thread[t].todo \ done \subseteq thread'[t].todo)
          /\ hooked' = hooked \union {clients[s] : s \in done \intersect Present}
    <2>1. CASE thread[t].todo = {} /\ Become(t, Idle) /\ UNCHANGED hooked
      <3>1. thread' \in [Threads -> Locals] /\ thread'[t] = Idle /\ Moves(t)
        BY <2>1, IdleOK, BecomeOK DEF Inv
      <3>2. ThreadOK(t)'
        BY <3>1, ReturnedThreadOK DEF Idle
      <3>. WITNESS {} \in SUBSET Servers
      <3>. QED
        BY <2>1, <3>1, <3>2
    <2>2. ASSUME NEW s \in thread[t].todo,
                 Become(t, [thread[t] EXCEPT !.todo = @ \ {s}]),
                 hooked' = IF s \in Present THEN hooked \union {clients[s]} ELSE hooked
          PROVE  \E done \in SUBSET Servers :
                   /\ thread' \in [Threads -> Locals] /\ Moves(t) /\ ThreadOK(t)'
                   /\ thread[t].todo \subseteq done \/ (thread'[t].pc = "hooking" /\ thread[t].todo \ done \subseteq thread'[t].todo)
                   /\ hooked' = hooked \union {clients[q] : q \in done \intersect Present}
      <3>1. /\ s \in Servers /\ thread' \in [Threads -> Locals] /\ Moves(t) /\ ThreadOK(t)'
            /\ thread'[t].pc = thread[t].pc /\ thread'[t].todo = thread[t].todo \ {s}
        BY <1>1, <2>2, VisitOK
      <3>2. {s} \in SUBSET Servers
        BY <3>1
      <3>3. hooked' = hooked \union {clients[q] : q \in {s} \intersect Present}
        BY <2>2
      <3>. QED
        BY <1>1, <3>1, <3>2, <3>3
    <2>. QED
      BY <2>1, <2>2 DEF HookNext
  <1>5. TypeOK'
    <2>1. {clients[s] : s \in done \intersect Present} \subseteq Clients
      BY DEF Inv, TypeOK, Present
    <2>. QED
      BY <1>1, <1>4, <2>1 DEF Inv, TypeOK
  <1>6. Kept
    BY <1>1, <1>4 DEF Kept
  <1>7. ASSUME callback, NEW s \in Servers, clients[s] # NoClient, \A l \in Languages : s # Formatter[l]
        PROVE  \/ clients[s] \in hooked'
               \/ \E u \in Threads : \/ thread'[u].pc = "hook" /\ thread'[u].cur = clients[s]
                                     \/ thread'[u].pc = "hooking" /\ s \in thread'[u].todo
    <2>1. s \in Present \ {Formatter[l] : l \in Languages}
      BY <1>7 DEF Present
    <2>2. CASE clients[s] \in hooked \/ s \in done
      BY <1>4, <2>1, <2>2
    <2>3. CASE clients[s] \notin hooked /\ s \notin done
      <3>1. PICK u \in Threads : \/ At(u, "hook") /\ thread[u].cur = clients[s]
                                 \/ At(u, "hooking") /\ s \in thread[u].todo
        BY <1>7, <2>1, <2>3 DEF Inv, CallbackOnAllClients
      <3>2. CASE u = t
        BY <1>1, <1>4, <2>3, <3>1, <3>2 DEF At
      <3>3. CASE u # t
        BY <1>4, <3>1, <3>3 DEF At, Moves
      <3>. QED
        BY <3>2, <3>3
    <2>. QED
      BY <2>2, <2>3
  <1>8. CallbackOnAllClients'
    BY <1>1, <1>7 DEF CallbackOnAllClients, Present, At
  <1>. QED
    BY <1>2, <1>3, <1>4, <1>5, <1>6, <1>8, StepOK

-----------------------------------------------------------------------------
(***************************************************************************)
(* The environment: a server that dies or whose connection is lost keeps   *)
(* its client what it was to the pool, and a crash of the bridge changes   *)
(* nothing.                                                                *)
(***************************************************************************)
LEMMA EnvironmentInv ==
  ASSUME Inv, (\E c \in Clients : ServerDies(c) \/ ConnectionLost(c)) \/ MapRace \/ UNCHANGED vars
  PROVE  Inv'
  <1>1. /\ UNCHANGED <<clients, callback, config, handshaken, hooked, thread, calls>>
        /\ \A c \in Clients : life'[c] \in {life[c], "lost", "exited"}
        /\ life' \in [Clients -> {"unused", "starting", "live", "lost", "exited", "closed"}]
    BY DEF Inv, TypeOK, ServerDies, ConnectionLost, MapRace, vars, objectVars
  <1>2. fatal' \in BOOLEAN
    BY Zenon DEF Inv, TypeOK, ServerDies, ConnectionLost, MapRace, vars
  <1>3. TypeOK'
    BY <1>1, <1>2 DEF Inv, TypeOK
  <1>4. ASSUME NEW t \in Threads PROVE ThreadOK(t)'
    BY <1>1 DEF Inv, ThreadOK, Served, ServedTogether
  <1>5. HandshakenAreUsed'
    BY <1>1 DEF Inv, TypeOK, HandshakenAreUsed
  <1>6. PooledAreInitialized' /\ PooledServesLanguage' /\ CallbackOnAllClients'
    BY <1>1 DEF Inv, PooledAreInitialized, PooledServesLanguage, CallbackOnAllClients, Present, At
  <1>7. AbandonedAreClosed'
    BY <1>1 DEF Inv, AbandonedAreClosed, At
  <1>. QED
    BY <1>3, <1>4, <1>5, <1>6, <1>7 DEF Inv

(***************************************************************************)
(* Every step keeps the invariant.                                         *)
(***************************************************************************)
LEMMA NextInv == Inv /\ [Next]_vars => Inv'
  <1>1. ASSUME Inv, NEW t \in Threads, Run(t) PROVE Inv'
    <2>1. ASSUME CallStep(t) PROVE Inv'
      BY <1>1, <2>1, NextServerInv, RetryInv, ConnectInv, HandshakeInv, StoreInv, HookInv, CloseInv, HookNextInv
         DEF CallStep
    <2>2. ASSUME NEW l \in Languages,
                 GetClientForLanguage(t, l) \/ GetAllClientsForLanguage(t, l) \/ FormatDocument(t, l)
          PROVE  Inv'
      BY <1>1, <2>2, GetInv, GetAllInv, FormatInv
    <2>. QED
      BY <1>1, <2>1, <2>2, CloseInv, SetCallbackInv DEF Run
  <1>. QED
    BY <1>1, EnvironmentInv DEF Next

THEOREM Invariance == Spec => []Inv
  BY InitInv, NextInv, PTL DEF Spec

(***************************************************************************)
(* The state has its types: no thread makes more attempts than it may.     *)
(***************************************************************************)
THEOREM TypeCorrect == Spec => []TypeOK
  BY Invariance, PTL DEF Inv

(***************************************************************************)
(* Every client in the pool has completed its handshake.                   *)
(***************************************************************************)
THEOREM PoolInitialized == Spec => []PooledAreInitialized
  BY Invariance, PTL DEF Inv

(***************************************************************************)
(* A client with an open connection whose handshake is not complete is in  *)
(* the hands of a thread: one that was given up has been closed, or had    *)
(* lost its connection.                                                    *)
(***************************************************************************)
THEOREM NoneAbandoned == Spec => []AbandonedAreClosed
  BY Invariance, PTL DEF Inv

(***************************************************************************)
(* What a language finds in the pool under the name of one of its servers  *)
(* is a client of one of its servers.                                      *)
(***************************************************************************)
THEOREM PoolServes == Spec => []PooledServesLanguage
  BY Invariance, PTL DEF Inv

(***************************************************************************)
(* Every client gets the callback, in whatever order it is stored and the  *)
(* callback is assigned.                                                   *)
(***************************************************************************)
THEOREM AllHooked == Spec => []CallbackOnAllClients
  BY Invariance, PTL DEF Inv

-----------------------------------------------------------------------------
(***************************************************************************)
(* A call does less and less.  A server that is visited pays for all the   *)
(* attempts to connect it.                                                 *)
(***************************************************************************)
PerServer == 2 * MaxRetries + 5

LEMMA TodoCost ==
  ASSUME NEW T \in SUBSET Servers
  PROVE  /\ Cardinality(T) * PerServer \in Nat
         /\ \A s \in T : Cardinality(T \ {s}) * PerServer = Cardinality(T) * PerServer - PerServer
         /\ Cardinality({}) * PerServer = 0
  <1>1. PerServer \in Nat
    BY PoolBoundsAssumption DEF PerServer
  <1>2. IsFiniteSet(T) /\ Cardinality(T) \in Nat
    BY ConfigAssumption, FS_Subset, FS_CardinalityType
  <1>3. ASSUME NEW s \in T
        PROVE  Cardinality(T \ {s}) * PerServer = Cardinality(T) * PerServer - PerServer
    <2>1. Cardinality(T \ {s}) = Cardinality(T) - 1
      BY <1>2, FS_RemoveElement
    <2>. QED
      BY <1>1, <1>2, <2>1
  <1>4. Cardinality({}) * PerServer = 0
    BY <1>1, FS_EmptySet
  <1>. QED
    BY <1>1, <1>2, <1>3, <1>4

LEMMA StepWorks ==
  ASSUME Inv, NEW t \in Threads, CallStep(t)
  PROVE  WorkOf(thread'[t]) < WorkOf(thread[t])
  <1> DEFINE l == thread[t]
             cost == Cardinality(l.todo) * PerServer
  <1>1. /\ l \in Locals /\ l.todo \in SUBSET Servers /\ l.tries \in 0 .. MaxRetries /\ thread \in [Threads -> Locals]
    BY ThreadLocals DEF Inv, TypeOK, Locals
  <1>2. /\ cost \in Nat /\ PerServer \in Nat /\ MaxRetries \in Nat
        /\ \A s \in l.todo : Cardinality(l.todo \ {s}) * PerServer = cost - PerServer
    BY <1>1, TodoCost, PoolBoundsAssumption DEF PerServer
  <1>3. \A c : WorkOf(Returned(c)) = 0
    BY TodoCost DEF WorkOf, Returned, PerServer
  <1>4. \A c : Finish(t, c) => WorkOf(thread'[t]) \in {0, cost + 1}
    BY <1>1, <1>3 DEF Finish, Become, WorkOf, Locals, PerServer
  <1>5. CASE NextServer(t)
    <2>1. l.pc = "next" /\ WorkOf(l) = cost + 1
      BY <1>5 DEF NextServer, At, WorkOf, PerServer
    <2>2. CASE Become(t, Idle)
      BY <1>1, <1>2, <1>3, <2>1, <2>2 DEF Become, Idle
    <2>3. ASSUME NEW s \in l.todo, Become(t, [l EXCEPT !.todo = @ \ {s}]) PROVE WorkOf(thread'[t]) < WorkOf(l)
      <3>1. thread'[t] = [l EXCEPT !.todo = @ \ {s}]
        BY <1>1, <2>3 DEF Become
      <3>2. thread'[t].pc = "next" /\ thread'[t].todo = l.todo \ {s}
        BY <1>1, <2>1, <3>1 DEF Locals
      <3>3. WorkOf(thread'[t]) = cost - PerServer + 1
        BY <1>2, <3>2 DEF WorkOf, PerServer
      <3>. QED
        BY <1>2, <2>1, <3>3, PoolBoundsAssumption DEF PerServer
    <2>4. ASSUME NEW s \in l.todo, Become(t, Dial([l EXCEPT !.todo = @ \ {s}], s, s))
          PROVE  WorkOf(thread'[t]) < WorkOf(l)
      <3>1. thread'[t] = Dial([l EXCEPT !.todo = @ \ {s}], s, s)
        BY <1>1, <2>4 DEF Become
      <3>2. thread'[t].pc = "attempt" /\ thread'[t].todo = l.todo \ {s} /\ thread'[t].tries = 0
        BY <1>1, <3>1 DEF Locals, Dial
      <3>3. WorkOf(thread'[t]) = cost - PerServer + 2 * MaxRetries + 4
        BY <1>2, <3>2 DEF WorkOf, PerServer
      <3>. QED
        BY <1>2, <2>1, <3>3 DEF PerServer
    <2>. QED
      BY <1>5, <2>2, <2>3, <2>4 DEF NextServer
  <1>6. CASE ConnectFails(t) \/ ConnectSucceeds(t) \/ GiveUp(t)
    <2>1. l.pc = "attempt" /\ WorkOf(l) = cost + 2 * (MaxRetries - l.tries) + 4
      <3>1. l.pc = "attempt"
        BY <1>6 DEF ConnectFails, ConnectSucceeds, GiveUp, Attempting, At
      <3>. QED
        BY <1>1, <1>2, <3>1 DEF WorkOf, PerServer
    <2>2. CASE ConnectFails(t)
      <3>1. thread'[t].pc = "attempt" /\ thread'[t].todo = l.todo /\ thread'[t].tries = l.tries + 1
        BY <1>1, <2>1, <2>2 DEF ConnectFails, Become, Locals
      <3>. QED
        BY <1>1, <1>2, <2>1, <3>1 DEF WorkOf, PerServer
    <2>3. CASE ConnectSucceeds(t)
      <3>1. thread'[t].pc = "handshake" /\ thread'[t].todo = l.todo /\ thread'[t].tries = l.tries + 1
        BY <1>1, <2>1, <2>3 DEF ConnectSucceeds, Become, Locals
      <3>. QED
        BY <1>1, <1>2, <2>1, <3>1 DEF WorkOf, PerServer
    <2>4. CASE GiveUp(t)
      BY <1>1, <1>2, <1>4, <2>1, <2>4 DEF GiveUp
    <2>. QED
      BY <1>6, <2>2, <2>3, <2>4
  <1>7. CASE HandshakeFails(t) \/ HandshakeDies(t) \/ HandshakeSucceeds(t)
    <2>1. l.pc = "handshake" /\ WorkOf(l) = cost + 2 * (MaxRetries - l.tries) + 5
      <3>1. l.pc = "handshake"
        BY <1>7 DEF HandshakeFails, HandshakeDies, HandshakeSucceeds, Shaking, At
      <3>. QED
        BY <1>1, <1>2, <3>1 DEF WorkOf, PerServer
    <2>2. CASE HandshakeFails(t)
      <3>1. thread'[t].pc = "attempt" /\ thread'[t].todo = l.todo /\ thread'[t].tries = l.tries
        BY <1>1, <2>1, <2>2 DEF HandshakeFails, Become, Locals
      <3>. QED
        BY <1>1, <1>2, <2>1, <3>1 DEF WorkOf, PerServer
    <2>3. CASE HandshakeSucceeds(t)
      <3>1. thread'[t].pc = "store" /\ thread'[t].todo = l.todo
        BY <1>1, <2>1, <2>3 DEF HandshakeSucceeds, Goto, Become, Locals
      <3>. QED
        BY <1>1, <1>2, <2>1, <3>1 DEF WorkOf, PerServer
    <2>4. CASE HandshakeDies(t)
      BY <1>1, <1>2, <1>4, <2>1, <2>4 DEF HandshakeDies
    <2>. QED
      BY <1>7, <2>2, <2>3, <2>4
  <1>8. CASE Store(t)
    <2>1. l.pc = "store" /\ WorkOf(l) = cost + 3
      <3>1. l.pc = "store"
        BY <1>8 DEF Store, At
      <3>. QED
        BY <1>1, <1>2, <3>1 DEF WorkOf, PerServer
    <2>2. CASE Become(t, Idle)
      BY <1>1, <1>2, <1>3, <2>1, <2>2 DEF Become, Idle
    <2>3. CASE Goto(t, "hook")
      <3>1. thread'[t].pc = "hook" /\ thread'[t].todo = l.todo
        BY <1>1, <2>1, <2>3 DEF Goto, Become, Locals
      <3>. QED
        BY <1>1, <1>2, <2>1, <3>1 DEF WorkOf, PerServer
    <2>. QED
      BY <1>8, <2>2, <2>3 DEF Store, Stored
  <1>9. CASE Hook(t)
    <2>1. l.pc = "hook" /\ WorkOf(l) = cost + 2
      <3>1. l.pc = "hook"
        BY <1>9 DEF Hook, At
      <3>. QED
        BY <1>1, <1>2, <3>1 DEF WorkOf, PerServer
    <2>. QED
      BY <1>2, <1>4, <1>9, <2>1 DEF Hook
  <1>10. CASE CloseNext(t) \/ EmptyPool(t) \/ HookNext(t)
    <2>1. l.pc \in {"closing", "hooking"} /\ WorkOf(l) = cost + 1
      <3>1. l.pc \in {"closing", "hooking"}
        BY <1>10 DEF CloseNext, EmptyPool, HookNext, At
      <3>. QED
        BY <1>1, <1>2, <3>1 DEF WorkOf, PerServer
    <2>2. CASE Become(t, Idle)
      BY <1>1, <1>2, <1>3, <2>1, <2>2 DEF Become, Idle
    <2>3. ASSUME NEW s \in l.todo, Become(t, [l EXCEPT !.todo = @ \ {s}]) PROVE WorkOf(thread'[t]) < WorkOf(l)
      <3>1. thread'[t].pc = l.pc /\ thread'[t].todo = l.todo \ {s}
        BY <1>1, <2>3 DEF Become, Locals
      <3>2. WorkOf(thread'[t]) = cost - PerServer + 1
        BY <1>2, <2>1, <3>1 DEF WorkOf, PerServer
      <3>. QED
        BY <1>2, <2>1, <3>2, PoolBoundsAssumption DEF PerServer
    <2>. QED
      BY <1>10, <2>2, <2>3 DEF CloseNext, EmptyPool, HookNext
  <1>. QED
    BY <1>5, <1>6, <1>7, <1>8, <1>9, <1>10 DEF CallStep

(***************************************************************************)
(* Every step of a call leaves it less work to do, whatever the others do  *)
(* to the pool meanwhile, so that no call goes on for ever.                *)
(***************************************************************************)
THEOREM CallsAlwaysEnd == Spec => CallsEnd
  <1> DEFINE Works(t) == ~At(t, "idle") /\ thread'[t] # thread[t] => WorkOf(thread'[t]) < WorkOf(thread[t])
  <1>1. ASSUME Inv, [Next]_vars, NEW t \in Threads PROVE Works(t)
    <2>1. CASE \E u \in Threads : u # t /\ Run(u)
      <3>1. PICK u \in Threads : u # t /\ Run(u)
        BY <2>1
      <3>2. \E r : thread' = [thread EXCEPT ![u] = r]
        BY <3>1 DEF Run, CallStep, GetClientForLanguage, GetAllClientsForLanguage, FormatDocument, CloseAllClients,
             SetDiagnosticsCallback, Ranging, NextServer, ConnectFails, ConnectSucceeds, GiveUp, Finish,
             HandshakeFails, HandshakeDies, HandshakeSucceeds, Goto, Store, Stored, Hook, CloseNext, EmptyPool, HookNext, Become
      <3>. QED
        BY <1>1, <3>1, <3>2 DEF Inv, TypeOK
    <2>2. CASE CallStep(t)
      BY <1>1, <2>2, StepWorks
    <2>3. CASE Run(t) /\ ~CallStep(t)
      BY <2>3 DEF Run, GetClientForLanguage, GetAllClientsForLanguage, FormatDocument, CloseAllClients,
           SetDiagnosticsCallback, Begin
    <2>4. CASE (\E c \in Clients : ServerDies(c) \/ ConnectionLost(c)) \/ MapRace \/ UNCHANGED vars
      BY <2>4 DEF ServerDies, ConnectionLost, MapRace, vars
    <2>. QED
      BY <1>1, <2>1, <2>2, <2>3, <2>4 DEF Next
  <1>2. Inv /\ [Next]_vars => [\A t \in Threads : Works(t)]_vars
    BY <1>1
  <1>. QED
    BY Invariance, <1>2, PTL DEF Spec, CallsEnd

-----------------------------------------------------------------------------
(***************************************************************************)
(* LanguageClient: the client the pool holds.  Its type invariant and its  *)
(* three safety invariants, for any callers and every bound.               *)
(***************************************************************************)
USE DEF MoveTo, Senders, InRequest, Counted, InCall, Recorded, InNotify, InClose, InReply, pendingVars

(***************************************************************************)
(* The fields of the client keep their types, whatever the goroutines do.  *)
(***************************************************************************)
LEMMA ClientTypeStep == ClientTypeOK /\ [ClientNext]_lcVars => ClientTypeOK'
<1> SUFFICES ASSUME ClientTypeOK, [ClientNext]_lcVars PROVE ClientTypeOK'
  OBVIOUS
<1> USE DEF ClientTypeOK, ClientStatus, clientVars, serverVars, metricsVars
<1>1. CASE Connect
  BY <1>1 DEF Connect
<1>2. ASSUME NEW t \in Callers, SendRequest(t) PROVE ClientTypeOK'
  BY <1>2 DEF SendRequest
<1>3. ASSUME NEW t \in Callers, SendNotification(t) PROVE ClientTypeOK'
  BY <1>3 DEF SendNotification
<1>4. ASSUME NEW t \in Callers, Close(t) PROVE ClientTypeOK'
  BY <1>4 DEF Close
<1>5. ASSUME NEW t \in Callers, RequestStep(t) PROVE ClientTypeOK'
  <2>1. CASE CheckContext(t) BY <2>1 DEF CheckContext
  <2>2. CASE CheckStatus(t) BY <2>2 DEF CheckStatus
  <2>3. CASE ResetStatus(t) BY <2>3 DEF ResetStatus
  <2>4. CASE CheckDisconnect(t) BY <2>4 DEF CheckDisconnect
  <2>5. CASE ReceiveReply(t) BY <2>5 DEF ReceiveReply
  <2>6. CASE CallClosed(t) BY <2>6 DEF CallClosed
  <2>7. CASE CallTimeout(t) BY <2>7 DEF CallTimeout
  <2>8. CASE CountFailure(t) BY <2>8 DEF CountFailure
  <2>9. CASE CountSuccess(t) BY <2>9 DEF CountSuccess
  <2>10. CASE CancelContext(t) BY <2>10 DEF CancelContext
  <2>11. CASE ResetState(t) BY <2>11 DEF ResetState
  <2>12. QED
    BY <1>5, <2>1, <2>2, <2>3, <2>4, <2>5, <2>6, <2>7, <2>8, <2>9, <2>10, <2>11
       DEF RequestStep
<1>6. ASSUME NEW t \in Callers, RecordStep(t) PROVE ClientTypeOK'
  <2>1. CASE RecordFailure(t)
    <3>1. lastError' \in BOOLEAN BY <2>1, Zenon DEF RecordFailure
    <3>2. QED BY <2>1, <3>1 DEF RecordFailure
  <2>2. CASE RecordSuccess(t)
    BY <2>2 DEF RecordSuccess
  <2>3. QED
    BY <1>6, <2>1, <2>2 DEF RecordStep
<1>7. ASSUME NEW t \in Callers, ReadResponse(t) PROVE ClientTypeOK'
  <2>1. panicked' \in BOOLEAN
    BY <1>7, Zenon DEF ReadResponse
  <2>2. QED
    BY <1>7, <2>1 DEF ReadResponse
<1>8. ASSUME NEW s \in Senders, AcquireSend(s) PROVE ClientTypeOK'
  BY <1>8 DEF AcquireSend, Writing, Unsent
<1>9. ASSUME NEW s \in Senders, Write(s) PROVE ClientTypeOK'
  BY <1>9 DEF Write, Sent, Unsent
<1>10. CASE HandleRequest \/ ReadLateResponse
  <2>1. panicked' \in BOOLEAN
    BY <1>10, Zenon DEF HandleRequest, ReadLateResponse
  <2>2. QED
    BY <1>10, <2>1 DEF HandleRequest, ReadLateResponse
<1>11. ASSUME NEW garbled \in BOOLEAN, ReadError(garbled) PROVE ClientTypeOK'
  BY <1>11 DEF ReadError
<1>12. CASE ServerExit \/ ContextKill \/ ServerStalls
  <2>1. stalled' \in BOOLEAN
    BY <1>12, Zenon DEF ServerExit, ContextKill, ServerStalls
  <2>2. QED
    BY <1>12, <2>1 DEF ServerExit, ContextKill, ServerStalls
<1>13. CASE UNCHANGED lcVars
  BY <1>13 DEF lcVars
<1>14. QED
  BY <1>1, <1>2, <1>3, <1>4, <1>5, <1>6, <1>7, <1>8, <1>9, <1>10, <1>11, <1>12, <1>13
     DEF ClientNext, BridgeStep

(***************************************************************************)
(* Type correctness of every reachable state of the client.                *)
(***************************************************************************)
THEOREM ClientTypeCorrect == ClientSpec => []ClientTypeOK
<1>1. ClientInit => ClientTypeOK
  <2> SUFFICES ASSUME ClientInit PROVE ClientTypeOK
    OBVIOUS
  <2>1. lastError \in BOOLEAN /\ stalled \in BOOLEAN /\ closeCalled \in BOOLEAN /\ panicked \in BOOLEAN
    BY Zenon DEF ClientInit
  <2>2. QED
    BY <2>1 DEF ClientInit, ClientTypeOK, ClientStatus
<1>2. QED
  BY <1>1, ClientTypeStep, PTL DEF ClientSpec

-----------------------------------------------------------------------------
(***************************************************************************)
(* A client in status Error has an error to report: lc.status and          *)
(* lc.lastError move together through concurrent failures, resets, Close.  *)
(***************************************************************************)
THEOREM ErrorCause == ClientSpec => []ErrorHasCause
<1>1. ClientInit => ErrorHasCause
  BY DEF ClientInit, ErrorHasCause
<1>2. ErrorHasCause /\ [ClientNext]_lcVars => ErrorHasCause'
  BY DEF ErrorHasCause, ClientNext, BridgeStep, lcVars, clientVars, Connect, SendRequest, SendNotification, Close,
         RequestStep, CheckContext, CheckStatus, ResetStatus, CheckDisconnect,
         ReceiveReply, CallClosed, CallTimeout, CountFailure, CountSuccess,
         CancelContext, ResetState, RecordStep, RecordFailure, RecordSuccess,
         ReadResponse, ReadLateResponse, AcquireSend, Write, HandleRequest, ReadError,
         ServerExit, ContextKill, ServerStalls
<1>3. QED
  BY <1>1, <1>2, PTL DEF ClientSpec

-----------------------------------------------------------------------------
(***************************************************************************)
(* What Close needs besides CloseOnce to be inductive: lc.mu is held only  *)
(* by the thread that is inside Close, and the client has a context from   *)
(* the moment it has a connection.                                         *)
(***************************************************************************)
TeardownInv ==
  /\ CloseOnce
  /\ \A t \in Callers : mu = t => pc[t] \in InClose
  /\ conn = "none" <=> ctx = "none"

LEMMA CloseStep == ClientTypeOK /\ TeardownInv /\ [ClientNext]_lcVars => TeardownInv'
<1> SUFFICES ASSUME ClientTypeOK, TeardownInv, [ClientNext]_lcVars PROVE TeardownInv'
  OBVIOUS
<1> USE CallersAssumption DEF TeardownInv, CloseOnce, ClientTypeOK, clientVars, Connected
<1>1. CASE Connect
  BY <1>1 DEF Connect
<1>2. ASSUME NEW t \in Callers, SendRequest(t) PROVE TeardownInv'
  BY <1>2 DEF SendRequest
<1>3. ASSUME NEW t \in Callers, SendNotification(t) PROVE TeardownInv'
  BY <1>3 DEF SendNotification
<1>4. ASSUME NEW t \in Callers, Close(t) PROVE TeardownInv'
  \* lc.mu is free, so no other thread is inside Close; the connection is
  \* open, so the context is live.
  <2>1. \A u \in Callers : pc[u] \notin InClose
    BY <1>4 DEF Close
  <2>2. CASE conn = "closed"
    BY <1>4, <2>2 DEF Close
  <2>3. CASE conn # "closed"
    BY <1>4, <2>1, <2>3 DEF Close
  <2>4. QED
    BY <2>2, <2>3
<1>5. ASSUME NEW t \in Callers, RequestStep(t) PROVE TeardownInv'
  <2>1. CASE CheckContext(t) BY <2>1 DEF CheckContext
  <2>2. CASE CheckStatus(t) BY <2>2 DEF CheckStatus
  <2>3. CASE ResetStatus(t) BY <2>3 DEF ResetStatus
  <2>4. CASE CheckDisconnect(t) BY <2>4 DEF CheckDisconnect
  <2>5. CASE ReceiveReply(t) BY <2>5 DEF ReceiveReply
  <2>6. CASE CallClosed(t) BY <2>6 DEF CallClosed
  <2>7. CASE CallTimeout(t) BY <2>7 DEF CallTimeout
  <2>8. CASE CountFailure(t) BY <2>8 DEF CountFailure
  <2>9. CASE CountSuccess(t) BY <2>9 DEF CountSuccess
  <2>10. CASE CancelContext(t) BY <2>10 DEF CancelContext
  <2>11. CASE ResetState(t) BY <2>11 DEF ResetState
  <2>12. QED
    BY <1>5, <2>1, <2>2, <2>3, <2>4, <2>5, <2>6, <2>7, <2>8, <2>9, <2>10, <2>11
       DEF RequestStep
<1>6. ASSUME NEW t \in Callers, RecordStep(t) PROVE TeardownInv'
  BY <1>6 DEF RecordStep, RecordFailure, RecordSuccess
<1>7. ASSUME NEW t \in Callers, ReadResponse(t) PROVE TeardownInv'
  BY <1>7 DEF ReadResponse
<1>8. ASSUME NEW s \in Senders, AcquireSend(s) PROVE TeardownInv'
  BY <1>8 DEF AcquireSend, Writing, Unsent
<1>9. ASSUME NEW s \in Senders, Write(s) PROVE TeardownInv'
  BY <1>9 DEF Write, Sent, Unsent
<1>10. CASE HandleRequest \/ ReadLateResponse
  BY <1>10 DEF HandleRequest, ReadLateResponse
<1>11. ASSUME NEW garbled \in BOOLEAN, ReadError(garbled) PROVE TeardownInv'
  BY <1>11 DEF ReadError
<1>12. CASE ServerExit \/ ContextKill \/ ServerStalls
  BY <1>12 DEF ServerExit, ContextKill, ServerStalls
<1>13. CASE UNCHANGED lcVars
  BY <1>13 DEF lcVars
<1>14. QED
  BY <1>1, <1>2, <1>3, <1>4, <1>5, <1>6, <1>7, <1>8, <1>9, <1>10, <1>11, <1>12, <1>13
     DEF ClientNext, BridgeStep

(***************************************************************************)
(* Close tears the client down at most once, and never cancels the context *)
(* of an open connection.                                                  *)
(***************************************************************************)
THEOREM CloseIsExclusive == ClientSpec => []CloseOnce
<1>1. ClientInit => TeardownInv
  BY CallersAssumption DEF ClientInit, TeardownInv, CloseOnce
<1>2. TeardownInv => CloseOnce
  BY DEF TeardownInv
<1>3. QED
  BY <1>1, <1>2, ClientTypeCorrect, CloseStep, PTL DEF ClientSpec

-----------------------------------------------------------------------------
(***************************************************************************)
(* The counters.  A step adds one thread to Outstanding and one to the     *)
(* total (SendRequest), or takes one out and counts it once (a refusal, a  *)
(* failure, a success), or changes neither.                                *)
(***************************************************************************)
Accounted == succeeded + failed + rejected

Begins(t) ==
  /\ t \notin Outstanding /\ Outstanding' = Outstanding \union {t}
  /\ total' = total + 1 /\ Accounted' = Accounted

Ends(t) ==
  /\ t \in Outstanding /\ Outstanding' = Outstanding \ {t}
  /\ total' = total /\ Accounted' = Accounted + 1

Keeps ==
  /\ Outstanding' = Outstanding
  /\ total' = total /\ Accounted' = Accounted

LEMMA CounterStep ==
  ClientTypeOK /\ [ClientNext]_lcVars => (\E t \in Callers : Begins(t) \/ Ends(t)) \/ Keeps
<1> SUFFICES ASSUME ClientTypeOK, [ClientNext]_lcVars
             PROVE  (\E t \in Callers : Begins(t) \/ Ends(t)) \/ Keeps
  OBVIOUS
<1> USE CallersAssumption DEF ClientTypeOK, metricsVars, Outstanding, Accounted
<1>1. CASE Connect
  BY <1>1 DEF Connect, Keeps
<1>2. ASSUME NEW t \in Callers, SendRequest(t) PROVE Begins(t)
  BY <1>2 DEF SendRequest, Begins
<1>3. ASSUME NEW t \in Callers, SendNotification(t) PROVE Keeps
  BY <1>3 DEF SendNotification, Keeps
<1>4. ASSUME NEW t \in Callers, Close(t) PROVE Keeps
  BY <1>4 DEF Close, Keeps
<1>5. ASSUME NEW t \in Callers, RequestStep(t) PROVE Ends(t) \/ Keeps
  <2>1. CASE CheckContext(t)
    <3>1. CASE ctx = "cancelled" BY <2>1, <3>1 DEF CheckContext, Ends
    <3>2. CASE ctx # "cancelled" BY <2>1, <3>2 DEF CheckContext, Keeps
    <3>3. QED BY <3>1, <3>2
  <2>2. CASE CheckStatus(t) BY <2>2 DEF CheckStatus, Keeps
  <2>3. CASE ResetStatus(t) BY <2>3 DEF ResetStatus, Keeps
  <2>4. CASE CheckDisconnect(t)
    <3>1. CASE pc'[t] = "idle" BY <2>4, <3>1 DEF CheckDisconnect, Ends
    <3>2. CASE pc'[t] # "idle" BY <2>4, <3>2 DEF CheckDisconnect, Keeps
    <3>3. QED BY <3>1, <3>2
  <2>5. CASE ReceiveReply(t) BY <2>5 DEF ReceiveReply, Keeps
  <2>6. CASE CallClosed(t) BY <2>6 DEF CallClosed, Keeps
  <2>7. CASE CallTimeout(t) BY <2>7 DEF CallTimeout, Keeps
  <2>8. CASE CountFailure(t) BY <2>8 DEF CountFailure, Ends
  <2>9. CASE CountSuccess(t) BY <2>9 DEF CountSuccess, Ends
  <2>10. CASE CancelContext(t) BY <2>10 DEF CancelContext, Keeps
  <2>11. CASE ResetState(t) BY <2>11 DEF ResetState, Keeps
  <2>12. QED
    BY <1>5, <2>1, <2>2, <2>3, <2>4, <2>5, <2>6, <2>7, <2>8, <2>9, <2>10, <2>11
       DEF RequestStep
<1>6. ASSUME NEW t \in Callers, RecordStep(t) PROVE Keeps
  BY <1>6 DEF RecordStep, RecordFailure, RecordSuccess, Keeps
<1>7. ASSUME NEW t \in Callers, ReadResponse(t) PROVE Keeps
  BY <1>7 DEF ReadResponse, Keeps
<1>8. ASSUME NEW s \in Senders, AcquireSend(s) PROVE Keeps
  BY <1>8 DEF AcquireSend, Writing, Unsent, Keeps
<1>9. ASSUME NEW s \in Senders, Write(s) PROVE Keeps
  BY <1>9 DEF Write, Sent, Unsent, Keeps
<1>10. CASE HandleRequest \/ ReadLateResponse
  BY <1>10 DEF HandleRequest, ReadLateResponse, Keeps
<1>11. ASSUME NEW garbled \in BOOLEAN, ReadError(garbled) PROVE Keeps
  BY <1>11 DEF ReadError, Keeps
<1>12. CASE ServerExit \/ ContextKill \/ ServerStalls
  BY <1>12 DEF ServerExit, ContextKill, ServerStalls, Keeps
<1>13. CASE UNCHANGED lcVars
  BY <1>13 DEF lcVars, Keeps
<1>14. QED
  BY <1>1, <1>2, <1>3, <1>4, <1>5, <1>6, <1>7, <1>8, <1>9, <1>10, <1>11, <1>12, <1>13
     DEF ClientNext, BridgeStep

(***************************************************************************)
(* The metrics add up: every request counted by SendRequest is in flight   *)
(* or in exactly one of the outcomes.                                      *)
(***************************************************************************)
THEOREM MetricsAgree == ClientSpec => []CountersAgree
<1>1. ClientInit => CountersAgree
  <2> SUFFICES ASSUME ClientInit PROVE CountersAgree
    OBVIOUS
  <2>1. Outstanding = {}
    BY DEF ClientInit, Outstanding
  <2>2. QED
    BY <2>1, FS_EmptySet DEF ClientInit, CountersAgree
<1>2. ClientTypeOK /\ CountersAgree /\ [ClientNext]_lcVars => CountersAgree'
  <2> SUFFICES ASSUME ClientTypeOK, CountersAgree, [ClientNext]_lcVars PROVE CountersAgree'
    OBVIOUS
  <2>1. IsFiniteSet(Outstanding)
    BY FS_Subset, CallersAssumption DEF Outstanding
  <2>2. Cardinality(Outstanding) \in Nat
    BY <2>1, FS_CardinalityType
  <2>3. ASSUME NEW t \in Callers, Begins(t) PROVE CountersAgree'
    <3>1. Cardinality(Outstanding') = Cardinality(Outstanding) + 1
      BY <2>1, <2>3, FS_AddElement DEF Begins
    <3>2. QED
      BY <2>2, <2>3, <3>1 DEF Begins, Accounted, CountersAgree, ClientTypeOK
  <2>4. ASSUME NEW t \in Callers, Ends(t) PROVE CountersAgree'
    <3>1. Cardinality(Outstanding') = Cardinality(Outstanding) - 1
      BY <2>1, <2>4, FS_RemoveElement DEF Ends
    <3>2. QED
      BY <2>2, <2>4, <3>1 DEF Ends, Accounted, CountersAgree, ClientTypeOK
  <2>5. CASE Keeps
    BY <2>2, <2>5 DEF Keeps, Accounted, CountersAgree, ClientTypeOK
  <2>6. QED
    BY <2>3, <2>4, <2>5, CounterStep
<1>3. QED
  BY <1>1, <1>2, ClientTypeCorrect, PTL DEF ClientSpec

=============================================================================
