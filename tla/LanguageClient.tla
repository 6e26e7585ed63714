--------------------------- MODULE LanguageClient ---------------------------
(***************************************************************************)
(* One language client of the bridge: the object lsp/client.go builds      *)
(* around a child process and a JSON-RPC connection, shared by every tool  *)
(* handler that asks the bridge for it.                                    *)
(*                                                                         *)
(* Tool handlers run on several goroutines (the MCP server uses a worker   *)
(* pool), so SendRequest, SendNotification and Close of one client overlap *)
(* freely.  Only part of SendRequest runs under lc.mu; Close holds it from *)
(* beginning to end.  The model keeps one step per access to shared state  *)
(* that another goroutine can observe.                                     *)
(*                                                                         *)
(* The connection is the vendored sourcegraph/jsonrpc2 (conn.go): one      *)
(* sending lock, held while a message is written to the server's standard  *)
(* input; one reader goroutine, which also runs the handler of             *)
(* server-to-client requests and so writes their replies; a table of       *)
(* pending calls; a close that happens once and closes the channel of      *)
(* every pending call, but leaves the calls in the table.                  *)
(***************************************************************************)
EXTENDS Naturals, FiniteSets

CONSTANTS
  Callers,         \* goroutines of tool handlers that use the client
  Reader,          \* the connection's read goroutine
  NoThread,        \* "nobody", the holder of a free lock
  MaxRequests,     \* bound: calls of SendRequest in a behaviour
  ServerMayStall   \* TRUE iff the server may stop draining its input

ASSUME CallersAssumption ==
  /\ IsFiniteSet(Callers)
  /\ Reader \notin Callers
  /\ NoThread \notin Callers \union {Reader}
ASSUME BoundAssumption == MaxRequests \in Nat
ASSUME StallAssumption == ServerMayStall \in BOOLEAN

VARIABLES
  status,      \* lc.status
  lastError,   \* TRUE iff lc.lastError # nil
  conn,        \* lc.conn: "none", "open" or "closed" (DisconnectNotify fired)
  ctx,         \* lc.ctx: "none", "live" or "cancelled"
  proc,        \* the child process: "none", "running" or "exited"
  mu,          \* the thread that holds lc.mu across steps (Close does)
  sending,     \* the sender that holds the connection's sending lock
  stalled,     \* TRUE while the server leaves its input pipe full
  pc,          \* where each goroutine is
  reply,       \* what the reader delivered for the call a thread waits on
  total,       \* lc.totalRequests
  succeeded,   \* lc.successfulRequests
  failed,      \* lc.failedRequests
  late,        \* calls given up by their callers and still pending in the connection
  panicked,    \* the reader sent on a closed channel: the bridge is gone
  rejected,    \* history: requests refused before they reached the connection
  closeCalled  \* history: Close was called

lcVars == <<status, lastError, conn, ctx, proc, mu, sending, stalled, pc, reply,
            total, succeeded, failed, late, panicked, rejected, closeCalled>>

clientVars  == <<status, lastError, conn, ctx, mu>>
serverVars  == <<proc, stalled>>
pendingVars == <<late, panicked>>
metricsVars == <<total, succeeded, failed, rejected>>

(***************************************************************************)
(* lsp/client_status.go.  Restarting and Disconnected are declared and     *)
(* never assigned.                                                         *)
(***************************************************************************)
ClientStatus == {"Uninitialized", "Connecting", "Connected", "Error",
                 "Restarting", "Disconnected"}

Senders == Callers \union {Reader}

\* Steps of SendRequest between its first and its last statement.
Counted   == {"context", "status", "reset", "disconnect"}
InCall    == {"send", "write", "wait", "failure", "success"}
Recorded  == {"failureLocked", "successLocked"}
InRequest == Counted \union InCall \union Recorded
InNotify  == {"notifySend", "notifyWrite"}
InClose   == {"cancel", "resetState"}
InReply   == {"replySend", "replyWrite"}

IsConnected == status = "Connected"

(***************************************************************************)
(* NewLanguageClient: the client exists, nothing runs yet.                 *)
(***************************************************************************)
ClientInit ==
  /\ status = "Connecting"
  /\ lastError = FALSE
  /\ conn = "none"
  /\ ctx = "none"
  /\ proc = "none"
  /\ mu = NoThread
  /\ sending = NoThread
  /\ stalled = FALSE
  /\ pc = [s \in Senders |-> "idle"]
  /\ reply = [t \in Callers |-> "none"]
  /\ total = 0 /\ succeeded = 0 /\ failed = 0 /\ rejected = 0
  /\ late = 0 /\ panicked = FALSE
  /\ closeCalled = FALSE

MoveTo(s, label) == pc' = [pc EXCEPT ![s] = label]

Connected == conn # "none"

(***************************************************************************)
(* Connect starts the process, starts the reader and fills in the fields.  *)
(* The client is not shared before Connect returns, so this is one step;   *)
(* when the process cannot be started Connect returns an error and leaves  *)
(* the client as it was.                                                   *)
(***************************************************************************)
Connect ==
  /\ conn = "none"
  /\ conn' = "open"
  /\ ctx' = "live"
  /\ proc' = "running"
  /\ status' = "Connected"
  /\ UNCHANGED <<lastError, mu, sending, stalled, pc, reply, metricsVars, closeCalled, pendingVars>>

-----------------------------------------------------------------------------
(***************************************************************************)
(* SendRequest, one action per step that others can interleave with.       *)
(***************************************************************************)
SendRequest(t) ==
  /\ Connected
  /\ pc[t] = "idle"
  /\ total < MaxRequests
  /\ total' = total + 1
  /\ MoveTo(t, "context")
  /\ UNCHANGED <<clientVars, serverVars, sending, reply, succeeded, failed, rejected, closeCalled, pendingVars>>

\* A request refused here counts as neither successful nor failed.
CheckContext(t) ==
  /\ pc[t] = "context"
  /\ IF ctx = "cancelled"
     THEN MoveTo(t, "idle") /\ rejected' = rejected + 1
     ELSE MoveTo(t, "status") /\ UNCHANGED rejected
  /\ UNCHANGED <<clientVars, serverVars, sending, reply, total, succeeded, failed, closeCalled, pendingVars>>

\* The test of lc.status and the assignment it guards are not under lc.mu.
CheckStatus(t) ==
  /\ pc[t] = "status"
  /\ IF status = "Error" /\ ctx = "live"
     THEN MoveTo(t, "reset")
     ELSE MoveTo(t, "disconnect")
  /\ UNCHANGED <<clientVars, serverVars, sending, reply, metricsVars, closeCalled, pendingVars>>

ResetStatus(t) ==
  /\ pc[t] = "reset"
  /\ status' = "Connected"
  /\ MoveTo(t, "disconnect")
  /\ UNCHANGED <<lastError, conn, ctx, mu, serverVars, sending, reply, metricsVars, closeCalled, pendingVars>>

\* The parameters cannot be marshalled, or the connection is closed.
CheckDisconnect(t) ==
  /\ pc[t] = "disconnect"
  /\ \/ MoveTo(t, "idle") /\ rejected' = rejected + 1
     \/ conn # "closed" /\ MoveTo(t, "send") /\ UNCHANGED rejected
  /\ UNCHANGED <<clientVars, serverVars, sending, reply, total, succeeded, failed, closeCalled, pendingVars>>

\* Call returned: the outcome is counted before lc.mu is taken.
CountFailure(t) ==
  /\ pc[t] = "failure"
  /\ failed' = failed + 1
  /\ MoveTo(t, "failureLocked")
  /\ UNCHANGED <<clientVars, serverVars, sending, reply, total, succeeded, rejected, closeCalled, pendingVars>>

CountSuccess(t) ==
  /\ pc[t] = "success"
  /\ succeeded' = succeeded + 1
  /\ MoveTo(t, "successLocked")
  /\ UNCHANGED <<clientVars, serverVars, sending, reply, total, failed, rejected, closeCalled, pendingVars>>

RecordFailure(t) ==
  /\ pc[t] = "failureLocked"
  /\ mu = NoThread
  /\ lastError' = TRUE
  /\ status' = "Error"
  /\ MoveTo(t, "idle")
  /\ UNCHANGED <<conn, ctx, mu, serverVars, sending, reply, metricsVars, closeCalled, pendingVars>>

RecordSuccess(t) ==
  /\ pc[t] = "successLocked"
  /\ mu = NoThread
  /\ status' = IF status = "Error" THEN "Connected" ELSE status
  /\ MoveTo(t, "idle")
  /\ UNCHANGED <<lastError, conn, ctx, mu, serverVars, sending, reply, metricsVars, closeCalled, pendingVars>>

-----------------------------------------------------------------------------
(***************************************************************************)
(* SendNotification writes a message and waits for nothing.                *)
(***************************************************************************)
SendNotification(t) ==
  /\ Connected
  /\ pc[t] = "idle"
  /\ MoveTo(t, "notifySend")
  /\ UNCHANGED <<clientVars, serverVars, sending, reply, metricsVars, closeCalled, pendingVars>>

(***************************************************************************)
(* The connection, used by requests, notifications and the reader's        *)
(* replies alike.  A send takes the sending lock, refuses when the         *)
(* connection is closed, and keeps the lock while it writes.  Its context  *)
(* is ignored: nothing but the end of the write, a write error or the      *)
(* closing of the stream releases a sender.                                *)
(***************************************************************************)
Writing(s) == CASE pc[s] = "send"       -> "write"
                [] pc[s] = "notifySend" -> "notifyWrite"
                [] OTHER                -> "replyWrite"

\* Mutant: a request that could not be sent returns without an outcome.
UnsentForgotten(s) == "idle"

\* A failed request still has an outcome to record; the other senders return.
Unsent(s) == IF pc[s] \in {"send", "write"} THEN "failure" ELSE "idle"
Sent(s)   == IF pc[s] = "write" THEN "wait" ELSE "idle"

AcquireSend(s) ==
  /\ pc[s] \in {"send", "notifySend", "replySend"}
  /\ sending = NoThread
  /\ IF conn = "closed"
     THEN MoveTo(s, Unsent(s)) /\ UNCHANGED sending
     ELSE MoveTo(s, Writing(s)) /\ sending' = s
  /\ UNCHANGED <<clientVars, serverVars, reply, metricsVars, closeCalled, pendingVars>>

Write(s) ==
  /\ pc[s] \in {"write", "notifyWrite", "replyWrite"}
  /\ \/ /\ conn = "open" /\ proc = "running" /\ ~stalled
        /\ MoveTo(s, Sent(s))
        /\ reply' = IF pc[s] = "write" THEN [reply EXCEPT ![s] = "none"] ELSE reply
     \/ /\ conn = "closed" \/ proc = "exited"
        /\ MoveTo(s, Unsent(s))
        /\ UNCHANGED reply
  /\ sending' = NoThread
  /\ UNCHANGED <<clientVars, serverVars, metricsVars, closeCalled, pendingVars>>

\* Wait: the reply, the closing of the connection, or the end of the context,
\* whichever select picks among those that are ready.
ReceiveReply(t) ==
  /\ pc[t] = "wait"
  /\ reply[t] # "none"
  /\ MoveTo(t, IF reply[t] = "result" THEN "success" ELSE "failure")
  /\ UNCHANGED <<clientVars, serverVars, sending, reply, metricsVars, closeCalled, pendingVars>>

CallClosed(t) ==
  /\ pc[t] = "wait"
  /\ conn = "closed" /\ reply[t] = "none"
  /\ late' = late + 1
  /\ MoveTo(t, "failure")
  /\ UNCHANGED <<clientVars, serverVars, sending, reply, metricsVars, closeCalled, panicked>>

\* Mutant: the request waits without a deadline.
CallWithoutTimeout(t) ==
  /\ pc[t] = "wait" /\ ctx = "cancelled"
  /\ late' = IF reply[t] = "none" THEN late + 1 ELSE late
  /\ MoveTo(t, "failure")
  /\ UNCHANGED <<clientVars, serverVars, sending, reply, metricsVars, closeCalled, panicked>>

\* The request's own timeout, or the client's context, which it derives from.
CallTimeout(t) ==
  /\ pc[t] = "wait"
  /\ late' = IF reply[t] = "none" THEN late + 1 ELSE late
  /\ MoveTo(t, "failure")
  /\ UNCHANGED <<clientVars, serverVars, sending, reply, metricsVars, closeCalled, panicked>>

(***************************************************************************)
(* The read goroutine.  It delivers one message at a time: a response to   *)
(* the call that is pending for it, or a server request, whose reply it    *)
(* writes itself before it reads on (ClientHandler.Handle).  A response    *)
(* may have arrived before the server exited or the connection was closed  *)
(* and be handled after.  Then the channel of its call is closed already,  *)
(* and the Go runtime panics on the send.                                  *)
(***************************************************************************)
ReadResponse(t) ==
  /\ pc[Reader] = "idle"
  /\ pc[t] = "wait" /\ reply[t] = "none"
  /\ IF conn = "open"
     THEN (\E r \in {"result", "error"} : reply' = [reply EXCEPT ![t] = r]) /\ UNCHANGED panicked
     ELSE panicked' = TRUE /\ UNCHANGED reply
  /\ UNCHANGED <<clientVars, serverVars, sending, pc, metricsVars, closeCalled, late>>

\* A response to a call nobody waits for any more.
ReadLateResponse ==
  /\ pc[Reader] = "idle"
  /\ late > 0
  /\ late' = late - 1
  /\ panicked' = (conn = "closed")
  /\ UNCHANGED <<clientVars, serverVars, sending, pc, reply, metricsVars, closeCalled>>

HandleRequest ==
  /\ conn = "open" /\ proc = "running"
  /\ pc[Reader] = "idle"
  /\ MoveTo(Reader, "replySend")
  /\ UNCHANGED <<clientVars, serverVars, sending, reply, metricsVars, closeCalled, pendingVars>>

\* End of input, or a frame that cannot be decoded while the server lives on:
\* the reader closes the connection, if it is still open, and ends.
ReadError(garbled) ==
  /\ Connected
  /\ pc[Reader] = "idle"
  /\ garbled \/ proc = "exited" \/ conn = "closed"
  /\ conn' = "closed"
  /\ MoveTo(Reader, "done")
  /\ UNCHANGED <<status, lastError, ctx, mu, serverVars, sending, reply, metricsVars, closeCalled, pendingVars>>

-----------------------------------------------------------------------------
(***************************************************************************)
(* Close.  It keeps lc.mu until it returns.  When the connection is closed *)
(* already, conn.Close reports that as an error and Close returns it at    *)
(* once: the context stays live and the status stays what it was.  lc.cmd  *)
(* is never assigned, so Close waits for no process.  The bridge closes    *)
(* only clients whose Connect succeeded (bridge.go:193, 366, 633-640): the *)
(* branch for a client without a connection is never taken.                *)
(***************************************************************************)
\* Mutant: the error of a connection that is closed already is ignored.
CloseAgain(t) ==
  /\ Connected
  /\ pc[t] = "idle"
  /\ mu = NoThread
  /\ closeCalled' = TRUE
  /\ conn' = "closed" /\ mu' = t /\ MoveTo(t, "cancel")
  /\ UNCHANGED <<status, lastError, ctx, serverVars, sending, reply, metricsVars, pendingVars>>

Close(t) ==
  /\ Connected
  /\ pc[t] = "idle"
  /\ mu = NoThread
  /\ closeCalled' = TRUE
  /\ IF conn = "closed"
     THEN UNCHANGED <<conn, mu, pc>>
     ELSE conn' = "closed" /\ mu' = t /\ MoveTo(t, "cancel")
  /\ UNCHANGED <<status, lastError, ctx, serverVars, sending, reply, metricsVars, pendingVars>>

\* Mutant: Close forgets to cancel the context.
CancelNothing(t) ==
  /\ pc[t] = "cancel"
  /\ MoveTo(t, "resetState")
  /\ UNCHANGED <<clientVars, serverVars, sending, reply, metricsVars, closeCalled, pendingVars>>

CancelContext(t) ==
  /\ pc[t] = "cancel"
  /\ ctx' = "cancelled"
  /\ MoveTo(t, "resetState")
  /\ UNCHANGED <<status, lastError, conn, mu, serverVars, sending, reply, metricsVars, closeCalled, pendingVars>>

\* Mutant: Close clears the error and leaves the status.
ResetErrorOnly(t) ==
  /\ pc[t] = "resetState"
  /\ lastError' = FALSE
  /\ mu' = NoThread
  /\ MoveTo(t, "idle")
  /\ UNCHANGED <<status, conn, ctx, serverVars, sending, reply, metricsVars, closeCalled, pendingVars>>

ResetState(t) ==
  /\ pc[t] = "resetState"
  /\ status' = "Uninitialized"
  /\ lastError' = FALSE
  /\ mu' = NoThread
  /\ MoveTo(t, "idle")
  /\ UNCHANGED <<conn, ctx, serverVars, sending, reply, metricsVars, closeCalled, pendingVars>>

-----------------------------------------------------------------------------
(***************************************************************************)
(* The server.  It may die at any time, and stop reading its input where   *)
(* the configuration lets it; the process was started with the client's    *)
(* context, whose end kills it.                                            *)
(***************************************************************************)
ServerExit ==
  /\ proc = "running"
  /\ proc' = "exited"
  /\ UNCHANGED <<clientVars, stalled, sending, pc, reply, metricsVars, closeCalled, pendingVars>>

ContextKill ==
  /\ proc = "running" /\ ctx = "cancelled"
  /\ proc' = "exited"
  /\ UNCHANGED <<clientVars, stalled, sending, pc, reply, metricsVars, closeCalled, pendingVars>>

ServerStalls ==
  /\ ServerMayStall /\ proc = "running" /\ ~stalled
  /\ stalled' = TRUE
  /\ UNCHANGED <<clientVars, proc, sending, pc, reply, metricsVars, closeCalled, pendingVars>>

-----------------------------------------------------------------------------
\* What a goroutine does by itself once the call has begun.
RequestStep(t) ==
  \/ CheckContext(t) \/ CheckStatus(t) \/ ResetStatus(t) \/ CheckDisconnect(t)
  \/ ReceiveReply(t) \/ CallClosed(t) \/ CallTimeout(t)
  \/ CountFailure(t) \/ CountSuccess(t)
  \/ CancelContext(t) \/ ResetState(t)

RecordStep(t) == RecordFailure(t) \/ RecordSuccess(t)

BridgeStep ==
  \/ Connect
  \/ \E t \in Callers :
       \/ SendRequest(t) \/ SendNotification(t) \/ Close(t)
       \/ RequestStep(t) \/ RecordStep(t) \/ ReadResponse(t)
  \/ \E s \in Senders : AcquireSend(s) \/ Write(s)
  \/ ReadLateResponse \/ HandleRequest
  \/ \E garbled \in BOOLEAN : ReadError(garbled)
  \/ ContextKill

\* A panic ends every goroutine of the bridge, and no server process.
ClientNext ==
  \/ ~panicked /\ BridgeStep
  \/ ServerExit \/ ServerStalls
  \/ panicked /\ UNCHANGED lcVars

(***************************************************************************)
(* Fairness.  The Go scheduler runs every runnable goroutine and timers    *)
(* fire: weak fairness for the steps of a goroutine, the write included,   *)
(* which completes whenever the pipe has room.  A sync.Mutex hands over to *)
(* a waiter after a millisecond (starvation mode): strong fairness for     *)
(* taking a lock.  The operating system delivers the kill and the end of   *)
(* file.  The server owes nothing: no answer, no exit, no drained pipe.    *)
(***************************************************************************)
Fairness ==
  /\ \A t \in Callers : /\ WF_lcVars(~panicked /\ RequestStep(t))
                        /\ SF_lcVars(~panicked /\ RecordStep(t))
  /\ \A s \in Senders : /\ SF_lcVars(~panicked /\ AcquireSend(s))
                        /\ WF_lcVars(~panicked /\ Write(s))
  /\ WF_lcVars(~panicked /\ ReadError(FALSE))
  /\ WF_lcVars(~panicked /\ ContextKill)

ClientSpec == ClientInit /\ [][ClientNext]_lcVars

FairSpec == ClientSpec /\ Fairness

-----------------------------------------------------------------------------
(***************************************************************************)
(* The state the code can be in, field by field.                           *)
(***************************************************************************)
ClientTypeOK ==
  /\ status \in ClientStatus
  /\ lastError \in BOOLEAN
  /\ conn \in {"none", "open", "closed"}
  /\ ctx \in {"none", "live", "cancelled"}
  /\ proc \in {"none", "running", "exited"}
  /\ mu \in Callers \union {NoThread}
  /\ sending \in Senders \union {NoThread}
  /\ stalled \in BOOLEAN
  /\ pc \in [Senders -> {"idle", "done"} \union InRequest \union InNotify \union InClose \union InReply]
  /\ reply \in [Callers -> {"none", "result", "error"}]
  /\ total \in Nat /\ succeeded \in Nat /\ failed \in Nat /\ rejected \in Nat
  /\ late \in Nat /\ panicked \in BOOLEAN
  /\ closeCalled \in BOOLEAN

\* Requests that are counted in totalRequests and whose outcome is not counted yet.
Outstanding == {t \in Callers : pc[t] \in Counted \union InCall}

(***************************************************************************)
(* What the metrics report adds up: every request ever counted is either   *)
(* still outstanding, or refused, or counted in exactly one of the two     *)
(* outcome counters, whatever the interleaving of callers, Close and the   *)
(* death of the server.  The success rate shown to users is never above 1. *)
(***************************************************************************)
CountersAgree ==
  total = succeeded + failed + rejected + Cardinality(Outstanding)

(***************************************************************************)
(* A client in status Error always has the error that put it there to      *)
(* report: no Close that runs between a failure and its record, and no     *)
(* reset of the status outside lc.mu, separates the two fields.            *)
(***************************************************************************)
ErrorHasCause == status = "Error" => lastError

(***************************************************************************)
(* Of all the concurrent calls of Close exactly one tears the client down: *)
(* it runs alone, on a context nobody cancelled before.  And the context,  *)
(* which is the bridge's only test for "this client is gone"               *)
(* (bridge.go:296, 358), is never cancelled while the connection is open.  *)
(***************************************************************************)
CloseOnce ==
  /\ ctx = "cancelled" => conn = "closed"
  /\ \A t \in Callers : pc[t] \in InClose => mu = t /\ conn = "closed"
  /\ \A t \in Callers : pc[t] = "cancel" => ctx = "live"

(***************************************************************************)
(* Every SendRequest returns ("SendRequest sends a request with timeout",  *)
(* client.go:405), whether the server answers, keeps silent, dies or is    *)
(* closed meanwhile.  Two things can keep a request from returning: a      *)
(* server that stops reading its input while a message is being written    *)
(* (the timeout does not cover the sending lock and the write), and the    *)
(* panic of a response that meets a closed connection.                     *)
(***************************************************************************)
RequestsReturn ==
  \A t \in Callers : pc[t] \in InRequest ~> (pc[t] = "idle" \/ stalled \/ panicked)

(***************************************************************************)
(* A Close that gets past conn.Close ends the server process, and gives    *)
(* lc.mu back, unless the bridge panics before it has.                     *)
(***************************************************************************)
CloseStopsServer ==
  \A t \in Callers : mu = t ~> ((proc # "running" /\ mu # t) \/ panicked)

-----------------------------------------------------------------------------
(***************************************************************************)
(* A statement of a comment that the code does not keep.                   *)
(***************************************************************************)

(***************************************************************************)
(* client.go:318: "Close closes the language client and cleans up          *)
(* resources": a Close leaves no server process behind, unless the bridge  *)
(* itself panics.                                                          *)
(***************************************************************************)
CloseCleansUp == closeCalled ~> (proc # "running" \/ panicked)

=============================================================================
