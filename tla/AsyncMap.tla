------------------------------- MODULE AsyncMap -------------------------------
(***************************************************************************)
(* async.Map and async.MapWithKeys, which run one operation per language   *)
(* client on a goroutine of its own and collect the results in the order   *)
(* they arrive, until all are there or the caller's context ends.          *)
(***************************************************************************)
EXTENDS Naturals, Sequences, FiniteSets, Functions

CONSTANTS Keys  \* the keys of ops

ASSUME KeysAssumption == IsFiniteSet(Keys)

VARIABLES
  op,         \* each operation: "running", "stuck", "returned" or "sent"
  outcome,    \* what it returned: "none", "value" or "error"
  results,    \* the buffered channel, of capacity len(ops)
  allResults, \* what the collector has received
  done,       \* TRUE once the context has ended
  caller      \* "collect", "ok" or "cancelled"

vars == <<op, outcome, results, allResults, done, caller>>

Init ==
  /\ op = [k \in Keys |-> "running"]
  /\ outcome = [k \in Keys |-> "none"]
  /\ results = <<>>
  /\ allResults = <<>>
  /\ done = FALSE
  /\ caller = "collect"

OperationReturns(k) ==
  /\ op[k] = "running"
  /\ op' = [op EXCEPT ![k] = "returned"]
  /\ \E o \in {"value", "error"} : outcome' = [outcome EXCEPT ![k] = o]
  /\ UNCHANGED <<results, allResults, done, caller>>

\* An operation never returns: its request waits for the sending lock or in the write
\* to a server that reads no more, which no timeout covers (lsp/client.go:439).
Stick(k) ==
  /\ op[k] = "running"
  /\ op' = [op EXCEPT ![k] = "stuck"]
  /\ UNCHANGED <<outcome, results, allResults, done, caller>>

Capacity == Cardinality(Keys)

\* Mutant: an unbuffered channel, which needs the collector on its other end.
SendUnbuffered(k) ==
  /\ op[k] = "returned"
  /\ caller = "collect" /\ results = <<>>
  /\ results' = Append(results, [key |-> k, outcome |-> outcome[k]])
  /\ op' = [op EXCEPT ![k] = "sent"]
  /\ UNCHANGED <<outcome, allResults, done, caller>>

Send(k) ==
  /\ op[k] = "returned"
  /\ Len(results) < Capacity
  /\ results' = Append(results, [key |-> k, outcome |-> outcome[k]])
  /\ op' = [op EXCEPT ![k] = "sent"]
  /\ UNCHANGED <<outcome, allResults, done, caller>>

\* Mutant: an error is received and not counted.
ReceiveValues ==
  /\ caller = "collect" /\ Len(allResults) < Capacity
  /\ results # <<>>
  /\ allResults' = IF Head(results).outcome = "error" THEN allResults ELSE Append(allResults, Head(results))
  /\ results' = Tail(results)
  /\ UNCHANGED <<op, outcome, done, caller>>

ReceiveResult ==
  /\ caller = "collect" /\ Len(allResults) < Capacity
  /\ results # <<>>
  /\ allResults' = Append(allResults, Head(results))
  /\ results' = Tail(results)
  /\ UNCHANGED <<op, outcome, done, caller>>

\* select may prefer the ended context to a result that is there.
Cancelled ==
  /\ caller = "collect" /\ Len(allResults) < Capacity
  /\ done
  /\ caller' = "cancelled"
  /\ UNCHANGED <<op, outcome, results, allResults, done>>

\* Mutant: one result is not waited for.
ReturnShort ==
  /\ caller = "collect" /\ Len(allResults) >= Capacity - 1
  /\ caller' = "ok"
  /\ UNCHANGED <<op, outcome, results, allResults, done>>

Return ==
  /\ caller = "collect" /\ Len(allResults) = Capacity
  /\ caller' = "ok"
  /\ UNCHANGED <<op, outcome, results, allResults, done>>

ContextEnds ==
  /\ ~done
  /\ done' = TRUE
  /\ UNCHANGED <<op, outcome, results, allResults, caller>>

Next ==
  \/ \E k \in Keys : OperationReturns(k) \/ Stick(k) \/ Send(k)
  \/ ReceiveResult \/ Cancelled \/ Return \/ ContextEnds

Spec == Init /\ [][Next]_vars

\* Goroutines run; an operation that is not stuck ends by its answer or its request
\* timeout; the caller's context need not end.
FairSpec ==
  /\ Spec
  /\ \A k \in Keys : WF_vars(OperationReturns(k)) /\ WF_vars(Send(k))
  /\ WF_vars(ReceiveResult \/ Cancelled \/ Return)

-----------------------------------------------------------------------------
KeyedResult == [key : Keys, outcome : {"value", "error"}]

TypeOK ==
  /\ op \in [Keys -> {"running", "stuck", "returned", "sent"}]
  /\ outcome \in [Keys -> {"none", "value", "error"}]
  /\ Range(results) \subseteq KeyedResult /\ Len(results) <= Capacity
  /\ Range(allResults) \subseteq KeyedResult /\ Len(allResults) <= Capacity
  /\ done \in BOOLEAN
  /\ caller \in {"collect", "ok", "cancelled"}

(***************************************************************************)
(* A call that succeeds returns the outcome of every operation exactly     *)
(* once, under its own key, in whatever order they ended.                  *)
(***************************************************************************)
CompleteOnSuccess ==
  caller = "ok" =>
    /\ {r.key : r \in Range(allResults)} = Keys
    /\ Len(allResults) = Capacity
    /\ \A r \in Range(allResults) : r.outcome = outcome[r.key]

(***************************************************************************)
(* No operation's goroutine blocks on the channel: each one ends after its *)
(* operation, also when the caller went away before.                       *)
(***************************************************************************)
NoGoroutineLeaks == \A k \in Keys : op[k] = "returned" ~> op[k] = "sent"

=============================================================================
