-------------------------------- MODULE FanOut --------------------------------
(***************************************************************************)
(* queryAllCapableServers (bridge/bridge.go), behind hover and signature   *)
(* help: one worker goroutine per capable server opens the document in it  *)
(* and starts a second goroutine for the query, then waits for the answer, *)
(* the error or five seconds, and fills its slot of the results; the       *)
(* caller waits for all workers.                                           *)
(***************************************************************************)
EXTENDS Naturals

CONSTANTS
  Servers,  \* the servers of the language
  Stalled   \* servers that stopped reading their input

ASSUME StalledAssumption == Stalled \subseteq Servers

VARIABLES
  capable,  \* the servers that declared the capability
  caller,   \* "filter", "wait" (wg.Wait) or "returned"; "crashed" after a panic
  worker,   \* each worker: "none", "open", "select" or "done"
  query,    \* each query goroutine: "none", "running", "sending" or "done"
  answer,   \* what queryFunc returned for each server: "none", "result" or "error"
  channel,  \* the buffer of resultChan / errorChan, which hold one value at most
  timer,    \* TRUE once the five seconds of a worker are over
  results   \* the slot of each server: "empty", "result", "error" or "timeout"

vars == <<capable, caller, worker, query, answer, channel, timer, results>>

Init ==
  /\ capable = {}
  /\ caller = "filter"
  /\ worker = [s \in Servers |-> "none"]
  /\ query = [s \in Servers |-> "none"]
  /\ answer = [s \in Servers |-> "none"]
  /\ channel = [s \in Servers |-> "none"]
  /\ timer = [s \in Servers |-> FALSE]
  /\ results = [s \in Servers |-> "empty"]

\* Without a capable server the caller returns an empty list at once.
FilterByCapability ==
  /\ caller = "filter"
  /\ \E C \in SUBSET Servers :
       /\ capable' = C
       /\ caller' = IF C = {} THEN "returned" ELSE "wait"
       /\ worker' = [s \in Servers |-> IF s \in C THEN "open" ELSE "none"]
  /\ UNCHANGED <<query, answer, channel, timer, results>>

\* ensureDocumentOpenInClient, whose error is only logged.  It writes to the
\* server, and the context with the timeout is not passed to it.
EnsureOpen(s) ==
  /\ worker[s] = "open"
  /\ s \notin Stalled
  /\ worker' = [worker EXCEPT ![s] = "select"]
  /\ query' = [query EXCEPT ![s] = "running"]
  /\ UNCHANGED <<capable, caller, answer, channel, timer, results>>

\* The document is open already, and nothing is written.
AlreadyOpen(s) ==
  /\ worker[s] = "open"
  /\ worker' = [worker EXCEPT ![s] = "select"]
  /\ query' = [query EXCEPT ![s] = "running"]
  /\ UNCHANGED <<capable, caller, answer, channel, timer, results>>

TimerFires(s) ==
  /\ worker[s] # "none" /\ ~timer[s]
  /\ timer' = [timer EXCEPT ![s] = TRUE]
  /\ UNCHANGED <<capable, caller, worker, query, answer, channel, results>>

\* queryFunc returns.
Answer(s) ==
  /\ query[s] = "running"
  /\ s \notin Stalled
  /\ \E a \in {"result", "error"} : answer' = [answer EXCEPT ![s] = a]
  /\ query' = [query EXCEPT ![s] = "sending"]
  /\ UNCHANGED <<capable, caller, worker, channel, timer, results>>

\* Mutant: unbuffered channels, on which a send waits for its receiver.
SendUnbuffered(s) ==
  /\ query[s] = "sending"
  /\ worker[s] = "select"
  /\ channel' = [channel EXCEPT ![s] = answer[s]]
  /\ query' = [query EXCEPT ![s] = "done"]
  /\ UNCHANGED <<capable, caller, worker, answer, timer, results>>

Send(s) ==
  /\ query[s] = "sending"
  /\ channel[s] = "none"
  /\ channel' = [channel EXCEPT ![s] = answer[s]]
  /\ query' = [query EXCEPT ![s] = "done"]
  /\ UNCHANGED <<capable, caller, worker, answer, timer, results>>

Fill(s, slot, r) ==
  /\ results' = [results EXCEPT ![slot] = r]
  /\ worker' = [worker EXCEPT ![s] = "done"]

\* Mutant: the worker fills the slot the loop variable points at.
ReceiveIntoLast(s) ==
  /\ worker[s] = "select" /\ channel[s] # "none"
  /\ \E slot \in capable : Fill(s, slot, channel[s])
  /\ channel' = [channel EXCEPT ![s] = "none"]
  /\ UNCHANGED <<capable, caller, query, answer, timer>>

Receive(s) ==
  /\ worker[s] = "select" /\ channel[s] # "none"
  /\ Fill(s, s, channel[s])
  /\ channel' = [channel EXCEPT ![s] = "none"]
  /\ UNCHANGED <<capable, caller, query, answer, timer>>

\* Mutant: the worker waits for the answer as long as it takes.
NoTimeout(s) ==
  /\ FALSE
  /\ UNCHANGED vars

Timeout(s) ==
  /\ worker[s] = "select" /\ timer[s]
  /\ Fill(s, s, "timeout")
  /\ UNCHANGED <<capable, caller, query, answer, channel, timer>>

\* Mutant: the caller returns with the first result.
ReturnEarly ==
  /\ caller = "wait"
  /\ \E s \in capable : worker[s] = "done"
  /\ caller' = "returned"
  /\ UNCHANGED <<capable, worker, query, answer, channel, timer, results>>

Return ==
  /\ caller = "wait"
  /\ \A s \in capable : worker[s] = "done"
  /\ caller' = "returned"
  /\ UNCHANGED <<capable, worker, query, answer, channel, timer, results>>

WorkerStep(s) == EnsureOpen(s) \/ Receive(s) \/ Timeout(s)

Next ==
  \/ FilterByCapability \/ Return
  \/ \E s \in Servers : WorkerStep(s) \/ AlreadyOpen(s) \/ TimerFires(s) \/ Answer(s) \/ Send(s)

Spec == Init /\ [][Next]_vars

\* Goroutines run and timers fire.  A server need not answer.
FairSpec ==
  /\ Spec
  /\ WF_vars(FilterByCapability) /\ WF_vars(Return)
  /\ \A s \in Servers : WF_vars(WorkerStep(s)) /\ WF_vars(TimerFires(s)) /\ WF_vars(Send(s))

-----------------------------------------------------------------------------
TypeOK ==
  /\ capable \subseteq Servers
  /\ caller \in {"filter", "wait", "returned", "crashed"}
  /\ worker \in [Servers -> {"none", "open", "select", "done"}]
  /\ query \in [Servers -> {"none", "running", "sending", "done"}]
  /\ answer \in [Servers -> {"none", "result", "error"}]
  /\ channel \in [Servers -> {"none", "result", "error"}]
  /\ timer \in [Servers -> BOOLEAN]
  /\ results \in [Servers -> {"empty", "result", "error", "timeout"}]
  /\ \A s \in Servers \ capable : worker[s] = "none"

(***************************************************************************)
(* The caller gets one result per capable server and none is blank, and a  *)
(* slot holds what its own server answered or a timeout: workers that end  *)
(* in any order, and answers that come late, mix nothing up.               *)
(***************************************************************************)
EverySlotIsItsServers ==
  /\ caller = "returned" => \A s \in capable : results[s] # "empty"
  /\ \A s \in Servers : results[s] \in {"result", "error"} => results[s] = answer[s]

(***************************************************************************)
(* What was returned stays as it is: no goroutine writes to the results    *)
(* after the caller has them.                                              *)
(***************************************************************************)
ReturnedIsFinal == [][caller = "returned" => results' = results]_vars

(***************************************************************************)
(* No query goroutine is left behind: one whose query returned ends, also  *)
(* when its worker has given up on it.                                     *)
(***************************************************************************)
NoGoroutineLeaks == \A s \in Servers : query[s] = "sending" ~> query[s] = "done"

(***************************************************************************)
(* The caller returns, whether the servers answer or not: "Create a        *)
(* timeout context for this query" (bridge.go:573), and each request of a  *)
(* query that asks one server after the other has a timeout of its own.    *)
(* The timeouts cover the waiting only; a server that stopped reading can  *)
(* hold the query while something is written to it, hence the condition.   *)
(* A panic in what the caller makes of the answers ends the process.       *)
(***************************************************************************)
QueryReturns ==
  (caller = "wait" /\ capable \intersect Stalled = {}) ~> (caller \in {"returned", "crashed"})

=============================================================================
