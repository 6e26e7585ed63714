--------------------------- MODULE ToolSessionProofs ---------------------------
(***************************************************************************)
(* Proofs about the parallel map and the tools over it.  async.MapWithKeys *)
(* for any finite set of keys: a map that succeeds has every operation's   *)
(* outcome under its key, exactly once.  The tools use it as it is         *)
(* specified, call after call; and a client that follows a list as it is   *)
(* told sees it once and in order, for any lists, offsets and limits.      *)
(***************************************************************************)
EXTENDS ToolSession, ListLemmas

\* What was sent so far: the collector has received the first part of it.
AllSent == allResults \o results

Types ==
  /\ op \in [Keys -> {"running", "stuck", "returned", "sent"}]
  /\ outcome \in [Keys -> {"none", "value", "error"}]
  /\ results \in Seq(KeyedResult)
  /\ allResults \in Seq(KeyedResult)
  /\ done \in BOOLEAN
  /\ caller \in {"collect", "ok", "cancelled"}

(***************************************************************************)
(* Each operation has an outcome once it has returned, and it is sent once *)
(* and with that outcome.                                                  *)
(***************************************************************************)
SentOnce ==
  /\ \A k \in Keys : op[k] \in {"returned", "sent"} => outcome[k] \in {"value", "error"}
  /\ \A i \in 1 .. Len(AllSent) : op[AllSent[i].key] = "sent" /\ AllSent[i].outcome = outcome[AllSent[i].key]
  /\ \A i, j \in 1 .. Len(AllSent) : AllSent[i].key = AllSent[j].key => i = j

Inv ==
  /\ Types
  /\ SentOnce
  /\ caller = "ok" => Len(allResults) = Capacity

(***************************************************************************)
(* No two of the keyed results of a sequence have the same key: there are  *)
(* at most as many as keys, and if there are as many then every key has    *)
(* one.                                                                    *)
(***************************************************************************)
LEMMA DistinctKeys ==
  ASSUME NEW s \in Seq(KeyedResult),
         \A i, j \in 1 .. Len(s) : s[i].key = s[j].key => i = j
  PROVE  /\ Capacity \in Nat
         /\ Len(s) <= Capacity
         /\ Len(s) = Capacity => {r.key : r \in Range(s)} = Keys
  <1> DEFINE key == [i \in 1 .. Len(s) |-> s[i].key]
  <1>1. Len(s) \in Nat /\ s \in [1 .. Len(s) -> KeyedResult] /\ DOMAIN s = 1 .. Len(s)
    BY LenProperties
  <1>2. key \in [1 .. Len(s) -> Keys]
    BY <1>1 DEF KeyedResult
  <1>3. key \in Injection(1 .. Len(s), Keys)
    BY <1>2 DEF Injection, IsInjective
  <1>4. IsFiniteSet(1 .. Len(s)) /\ Cardinality(1 .. Len(s)) = Len(s)
    BY <1>1, FS_Interval
  <1>5. /\ Capacity \in Nat
        /\ Len(s) <= Capacity
        /\ Len(s) = Capacity => key \in Surjection(1 .. Len(s), Keys)
    BY <1>3, <1>4, KeysAssumption, FS_Injection, FS_CardinalityType DEF Capacity
  <1>6. ASSUME key \in Surjection(1 .. Len(s), Keys)
        PROVE  {r.key : r \in Range(s)} = Keys
    <2>1. ASSUME NEW k \in Keys PROVE k \in {r.key : r \in Range(s)}
      <3>1. PICK i \in 1 .. Len(s) : key[i] = k
        BY <1>6 DEF Surjection
      <3>. QED
        BY <1>1, <3>1 DEF Range
    <2>2. ASSUME NEW r \in Range(s) PROVE r.key \in Keys
      BY <1>1 DEF Range, KeyedResult
    <2>. QED
      BY <2>1, <2>2
  <1>. QED
    BY <1>5, <1>6

(***************************************************************************)
(* Nothing has returned and nothing is sent in the beginning.              *)
(***************************************************************************)
LEMMA InitInv == Init => Inv
  <1> SUFFICES ASSUME Init PROVE Inv
    OBVIOUS
  <1>1. Types
    <2>1. results \in Seq(KeyedResult) /\ allResults \in Seq(KeyedResult)
      BY EmptySeq DEF Init
    <2>2. op \in [Keys -> {"running", "stuck", "returned", "sent"}] /\ outcome \in [Keys -> {"none", "value", "error"}]
      BY DEF Init
    <2>. QED
      BY <2>1, <2>2 DEF Init, Types
  <1>2. AllSent = <<>> /\ Len(AllSent) = 0
    BY DEF Init, AllSent
  <1>. QED
    BY <1>1, <1>2 DEF Init, Inv, SentOnce

(***************************************************************************)
(* An operation returns before it is sent, so what was sent keeps its      *)
(* outcome.                                                                *)
(***************************************************************************)
LEMMA ReturnsInv ==
  ASSUME NEW k \in Keys, Inv, OperationReturns(k)
  PROVE  Inv'
  <1>1. PICK o \in {"value", "error"} : outcome' = [outcome EXCEPT ![k] = o]
    BY DEF OperationReturns
  <1>2. Types'
    BY <1>1 DEF Inv, Types, OperationReturns
  <1>3. AllSent' = AllSent
    BY DEF OperationReturns, AllSent
  <1>4. ASSUME NEW i \in 1 .. Len(AllSent) PROVE AllSent[i].key \in Keys /\ AllSent[i].key # k
    <2>1. AllSent \in Seq(KeyedResult)
      BY ConcatProperties DEF Inv, Types, AllSent
    <2>2. AllSent[i] \in KeyedResult
      BY <2>1, ElementOfSeq
    <2>. QED
      BY <2>2 DEF Inv, SentOnce, OperationReturns, KeyedResult
  <1>5. SentOnce'
    BY <1>1, <1>3, <1>4 DEF Inv, Types, SentOnce, OperationReturns
  <1>. QED
    BY <1>2, <1>5 DEF Inv, OperationReturns, Capacity

\* One that never returns is not sent.
LEMMA StickInv ==
  ASSUME NEW k \in Keys, Inv, Stick(k)
  PROVE  Inv'
  <1>1. Types'
    BY DEF Inv, Types, Stick
  <1>2. AllSent' = AllSent /\ UNCHANGED <<outcome, allResults, caller>>
    BY DEF Stick, AllSent
  <1>3. ASSUME NEW i \in 1 .. Len(AllSent) PROVE AllSent[i].key \in Keys /\ AllSent[i].key # k
    <2>1. AllSent \in Seq(KeyedResult)
      BY ConcatProperties DEF Inv, Types, AllSent
    <2>2. AllSent[i] \in KeyedResult
      BY <2>1, ElementOfSeq
    <2>. QED
      BY <2>2 DEF Inv, SentOnce, Stick, KeyedResult
  <1>4. SentOnce'
    BY <1>2, <1>3 DEF Inv, Types, SentOnce, Stick
  <1>. QED
    BY <1>1, <1>2, <1>4 DEF Inv, Capacity

(***************************************************************************)
(* A send adds the outcome of an operation that was not sent before.       *)
(***************************************************************************)
LEMMA SendInv ==
  ASSUME NEW k \in Keys, Inv, Send(k)
  PROVE  Inv'
  <1> DEFINE r == [key |-> k, outcome |-> outcome[k]]
  <1>1. r \in KeyedResult
    BY DEF Inv, SentOnce, Send, KeyedResult
  <1>2. Types'
    BY <1>1, AppendProperties DEF Inv, Types, Send
  <1>3. AllSent \in Seq(KeyedResult)
    BY ConcatProperties DEF Inv, Types, AllSent
  <1>4. AllSent' = Append(AllSent, r)
    BY <1>1 DEF Inv, Types, Send, AllSent
  <1>5. /\ Len(AllSent') = Len(AllSent) + 1
        /\ \A i \in 1 .. Len(AllSent) : AllSent'[i] = AllSent[i]
        /\ AllSent'[Len(AllSent) + 1] = r
    BY <1>1, <1>3, <1>4, AppendProperties
  <1>6. ASSUME NEW i \in 1 .. Len(AllSent) PROVE AllSent[i].key \in Keys /\ AllSent[i].key # k
    <2>1. AllSent[i] \in KeyedResult
      BY <1>3, ElementOfSeq
    <2>. QED
      BY <2>1 DEF Inv, SentOnce, Send, KeyedResult
  <1>7. Len(AllSent) \in Nat
    BY <1>3, LenProperties
  <1>8. SentOnce'
    <2>1. \A l \in Keys : op'[l] \in {"returned", "sent"} => outcome'[l] \in {"value", "error"}
      BY DEF Inv, Types, SentOnce, Send
    <2>2. ASSUME NEW i \in 1 .. Len(AllSent')
          PROVE  op'[AllSent'[i].key] = "sent" /\ AllSent'[i].outcome = outcome'[AllSent'[i].key]
      <3>1. CASE i \in 1 .. Len(AllSent)
        BY <1>5, <1>6, <3>1 DEF Inv, Types, SentOnce, Send
      <3>2. CASE i = Len(AllSent) + 1
        BY <1>5, <3>2 DEF Inv, Types, Send
      <3>. QED
        BY <1>5, <1>7, <3>1, <3>2
    <2>3. ASSUME NEW i \in 1 .. Len(AllSent'), NEW j \in 1 .. Len(AllSent'), AllSent'[i].key = AllSent'[j].key
          PROVE  i = j
      <3>1. CASE i \in 1 .. Len(AllSent) /\ j \in 1 .. Len(AllSent)
        BY <1>5, <2>3, <3>1 DEF Inv, SentOnce
      <3>2. CASE i = Len(AllSent) + 1 /\ j \in 1 .. Len(AllSent)
        BY <1>5, <1>6, <2>3, <3>2
      <3>3. CASE i \in 1 .. Len(AllSent) /\ j = Len(AllSent) + 1
        BY <1>5, <1>6, <2>3, <3>3
      <3>4. CASE i = Len(AllSent) + 1 /\ j = Len(AllSent) + 1
        BY <3>4
      <3>. QED
        BY <1>5, <1>7, <3>1, <3>2, <3>3, <3>4
    <2>. QED
      BY <2>1, <2>2, <2>3 DEF SentOnce
  <1>. QED
    BY <1>2, <1>8 DEF Inv, Send, Capacity

(***************************************************************************)
(* The collector takes the first of what was not received, and what was    *)
(* sent stays the same.                                                    *)
(***************************************************************************)
LEMMA ReceiveInv ==
  ASSUME Inv, ReceiveResult
  PROVE  Inv'
  <1>1. /\ Head(results) \in KeyedResult /\ Tail(results) \in Seq(KeyedResult)
    BY HeadTailProperties DEF Inv, Types, ReceiveResult
  <1>2. Types'
    BY <1>1, AppendProperties DEF Inv, Types, ReceiveResult
  <1>3. AllSent' = AllSent
    <2>1. results = <<Head(results)>> \o Tail(results)
      BY DEF Inv, Types, ReceiveResult
    <2>2. allResults' = allResults \o <<Head(results)>>
      BY <1>1, AppendIsConcat DEF Inv, Types, ReceiveResult
    <2>3. <<Head(results)>> \in Seq(KeyedResult)
      BY <1>1
    <2>. QED
      BY <1>1, <2>1, <2>2, <2>3, ConcatAssociative DEF Inv, Types, ReceiveResult, AllSent
  <1>4. SentOnce'
    BY <1>3 DEF Inv, SentOnce, ReceiveResult
  <1>. QED
    BY <1>2, <1>4 DEF Inv, ReceiveResult

(***************************************************************************)
(* Every step keeps the invariant.                                         *)
(***************************************************************************)
LEMMA NextInv == Inv /\ [Next]_vars => Inv'
  <1>1. ASSUME Inv, Cancelled \/ Return \/ ContextEnds \/ UNCHANGED vars PROVE Inv'
    <2>1. Types'
      BY <1>1 DEF Inv, Types, Cancelled, Return, ContextEnds, vars
    <2>2. AllSent' = AllSent /\ UNCHANGED <<op, outcome, allResults>>
      BY <1>1 DEF AllSent, Cancelled, Return, ContextEnds, vars
    <2>3. SentOnce'
      BY <1>1, <2>2 DEF Inv, SentOnce
    <2>4. (caller = "ok" => Len(allResults) = Capacity)'
      BY <1>1, <2>2 DEF Inv, Capacity, Cancelled, Return, ContextEnds, vars
    <2>. QED
      BY <2>1, <2>3, <2>4 DEF Inv
  <1>. QED
    BY <1>1, ReturnsInv, StickInv, SendInv, ReceiveInv DEF Next

THEOREM Invariance == Spec => []Inv
  BY InitInv, NextInv, PTL DEF Spec

(***************************************************************************)
(* What the collector received is the first part of what was sent.         *)
(***************************************************************************)
LEMMA ReceivedOnce ==
  ASSUME Inv
  PROVE  /\ Len(allResults) \in Nat /\ Len(results) \in Nat
         /\ Len(allResults) + Len(results) <= Capacity
         /\ \A i, j \in 1 .. Len(allResults) : allResults[i].key = allResults[j].key => i = j
         /\ \A i \in 1 .. Len(allResults) : allResults[i].outcome = outcome[allResults[i].key]
  <1>1. Len(allResults) \in Nat /\ Len(results) \in Nat
    BY LenProperties DEF Inv, Types
  <1>2. /\ AllSent \in Seq(KeyedResult)
        /\ Len(AllSent) = Len(allResults) + Len(results)
        /\ \A i \in 1 .. Len(allResults) : AllSent[i] = allResults[i]
    BY <1>1, ConcatProperties DEF Inv, Types, AllSent
  <1>3. Len(AllSent) <= Capacity
    BY <1>2, DistinctKeys DEF Inv, SentOnce
  <1>4. \A i \in 1 .. Len(allResults) : i \in 1 .. Len(AllSent)
    BY <1>1, <1>2
  <1>5. \A i, j \in 1 .. Len(allResults) : allResults[i].key = allResults[j].key => i = j
    BY <1>2, <1>4 DEF Inv, SentOnce
  <1>6. \A i \in 1 .. Len(allResults) : allResults[i].outcome = outcome[allResults[i].key]
    BY <1>2, <1>4 DEF Inv, SentOnce
  <1>. QED
    BY <1>1, <1>2, <1>3, <1>5, <1>6

(***************************************************************************)
(* The state has its types: no more results than operations, so that no    *)
(* send finds the channel full.                                            *)
(***************************************************************************)
THEOREM TypeCorrect == Spec => []TypeOK
  <1>1. ASSUME Inv PROVE TypeOK
    <2>1. Range(results) \subseteq KeyedResult /\ Range(allResults) \subseteq KeyedResult
      BY <1>1, LenProperties DEF Inv, Types, Range
    <2>2. Len(results) <= Capacity /\ Len(allResults) <= Capacity
      BY <1>1, ReceivedOnce, DistinctKeys, KeysAssumption, FS_CardinalityType DEF Capacity
    <2>. QED
      BY <1>1, <2>1, <2>2 DEF Inv, Types, TypeOK
  <1>. QED
    BY Invariance, <1>1, PTL

LEMMA InvComplete == Inv => CompleteOnSuccess
  <1>1. ASSUME Inv, caller = "ok"
        PROVE  /\ {r.key : r \in Range(allResults)} = Keys
               /\ Len(allResults) = Capacity
               /\ \A r \in Range(allResults) : r.outcome = outcome[r.key]
    <2>1. Len(allResults) = Capacity
      BY <1>1 DEF Inv
    <2>2. allResults \in Seq(KeyedResult) /\ DOMAIN allResults = 1 .. Len(allResults)
      BY <1>1, LenProperties DEF Inv, Types
    <2>3. {r.key : r \in Range(allResults)} = Keys
      BY <1>1, <2>1, <2>2, ReceivedOnce, DistinctKeys
    <2>4. \A r \in Range(allResults) : r.outcome = outcome[r.key]
      BY <1>1, <2>2, ReceivedOnce DEF Range
    <2>. QED
      BY <2>1, <2>3, <2>4
  <1>. QED
    BY <1>1 DEF CompleteOnSuccess

(***************************************************************************)
(* A map that succeeds has received the outcome of every operation exactly *)
(* once and under its key.                                                 *)
(***************************************************************************)
THEOREM Complete == Spec => []CompleteOnSuccess
  BY Invariance, InvComplete, PTL

-----------------------------------------------------------------------------
(***************************************************************************)
(* Pages.                                                                  *)
(***************************************************************************)
\* The call has not been answered yet.
Waiting == phase = "search" \/ (phase = "ask" /\ tool # "explore")

(***************************************************************************)
(* What a response says of a list to a client that has seen the beginning  *)
(* of it.  symbol_explore ignores the offset of a list of up to three,     *)
(* of which it shows everything.                                           *)
(***************************************************************************)
Truthful(page, list, seen) ==
  /\ page.kind = "page" =>
       /\ page.total = Len(list) /\ page.next = Len(seen)
       /\ call.limit > 0 => page.items # <<>>
       /\ tool = "explore" /\ page.next < Len(list) => Len(list) > 3
  /\ page.kind = "beyond" => seen = list \/ (tool = "workspaceSymbols" /\ call.limit = 0)
  /\ page.kind = "panic" => call.limit < 0

(***************************************************************************)
(* What a client that follows has seen is the beginning of the list, and   *)
(* the call it waits for asks for what comes next.                         *)
(***************************************************************************)
FollowsOK ==
  follows =>
    /\ Len(shown) <= Len(listing) /\ shown = SubSeq(listing, 1, Len(shown))
    /\ Truthful(response, listing, shown)
    /\ Waiting =>
         /\ call.offset = Len(shown)
         /\ call.offset > 0 => call.offset < Len(listing)
         /\ tool = "explore" /\ call.offset > 0 => Len(listing) > 3

ListsOK ==
  /\ IsList(listing) /\ IsList(shown)
  /\ DOMAIN value = Keys /\ \A k \in Keys : IsList(value[k].items)
  /\ IsCall(call)
  /\ response.kind = "page" => response.next \in Nat
  /\ phase \in {"search", "closed"} => tool \in Parallel

PagesInv == ListsOK /\ FollowsOK

-----------------------------------------------------------------------------
(***************************************************************************)
(* What the tools show is a list, as far as what the languages find is.    *)
(***************************************************************************)
LEMMA FlattenIsList ==
  ASSUME Types, \A k \in Keys : IsList(value[k].items)
  PROVE  IsList(Flatten)
  <1> DEFINE n == Len(allResults)
             seqs == [i \in 1 .. n |-> ItemsOf(allResults[i])]
             S == UNION {Range(seqs[i]) : i \in 1 .. n}
  <1>1. n \in Nat /\ DOMAIN allResults = 1 .. n /\ \A i \in 1 .. n : allResults[i] \in KeyedResult
    BY LenProperties, ElementOfSeq DEF Types
  <1>2. \A i \in 1 .. n : IsList(seqs[i])
    <2>1. IsList(<<>>)
      BY EmptySeq DEF IsList
    <2>2. ASSUME NEW i \in 1 .. n PROVE IsList(ItemsOf(allResults[i]))
      BY <1>1, <2>1 DEF ItemsOf, KeyedResult
    <2>. QED
      BY <2>2
  <1>3. ASSUME NEW i \in 1 .. n PROVE seqs[i] \in Seq(S)
    <2>. HIDE DEF seqs
    <2>1. Range(seqs[i]) \subseteq S
      OBVIOUS
    <2>2. seqs[i] \in Seq(Range(seqs[i]))
      BY <1>2 DEF IsList
    <2>. QED
      BY <2>1, <2>2
  <1>4. seqs \in [1 .. n -> Seq(S)]
    BY <1>3
  <1>5. Flatten = FlattenSeq(seqs)
    BY <1>1 DEF Flatten
  <1>6. FlattenSeq(seqs) \in Seq(S)
    <2>. HIDE DEF seqs, S, n
    <2>1. seqs \in Seq(Seq(S))
      BY <1>1, <1>4, SeqDefs
    <2>. QED
      BY <2>1, FlattenIsSeq
  <1>. QED
    <2>. HIDE DEF seqs, S
    <2>. QED
      BY <1>5, <1>6, AnyList

LEMMA InFileIsSeq ==
  ASSUME NEW S, NEW symbols \in Seq(S), NEW file
  PROVE  InFile(symbols, file) \in Seq(S)
  BY PickedPlacing DEF InFile

LEMMA MatchesIsList ==
  ASSUME Types, \A k \in Keys : IsList(value[k].items)
  PROVE  IsList(Matches)
  <1> DEFINE all == Flatten
             matches == [i \in DOMAIN all |-> ToMatch(all[i])]
             S == {ToMatch(x) : x \in Range(all)}
  <1>1. IsList(all)
    BY FlattenIsList
  <1>2. matches \in Seq(S)
    <2>. HIDE DEF all
    <2>1. Len(all) \in Nat /\ DOMAIN all = 1 .. Len(all)
      BY <1>1, LenProperties DEF IsList
    <2>2. \A i \in DOMAIN all : all[i] \in Range(all)
      BY DEF Range
    <2>3. \A i \in DOMAIN all : ToMatch(all[i]) \in S
      BY <2>2
    <2>4. matches \in [1 .. Len(all) -> S]
      BY <2>1, <2>3
    <2>. QED
      BY <2>1, <2>4, SeqDefs
  <1>3. CASE call.context = NoContext
    <2>1. Matches = matches
      BY <1>3 DEF Matches
    <2>. HIDE DEF matches, S
    <2>. QED
      BY <1>2, <2>1, AnyList
  <1>4. CASE call.context # NoContext
    <2>1. Matches = InFile(matches, Resolved[call.context])
      BY <1>4 DEF Matches
    <2>. HIDE DEF matches, S
    <2>2. InFile(matches, Resolved[call.context]) \in Seq(S)
      BY <1>2, InFileIsSeq
    <2>. QED
      BY <2>1, <2>2, AnyList
  <1>. QED
    BY <1>3, <1>4

(***************************************************************************)
(* A page goes on where the list was left, and says where the next begins. *)
(***************************************************************************)
LEMMA MinOfTwo ==
  ASSUME NEW a \in Int, NEW b \in Int
  PROVE  Min({a, b}) = IF a <= b THEN a ELSE b
  <1> DEFINE m == IF a <= b THEN a ELSE b
  <1>1. m \in {a, b} /\ \A y \in {a, b} : m <= y
    OBVIOUS
  <1>2. \A x \in {a, b} : (\A y \in {a, b} : x <= y) => x = m
    OBVIOUS
  <1>. HIDE DEF m
  <1>3. Min({a, b}) = CHOOSE x \in {a, b} : \A y \in {a, b} : x <= y
    BY DEF Min
  <1>4. Min({a, b}) \in {a, b} /\ \A y \in {a, b} : Min({a, b}) <= y
    BY <1>1, <1>3
  <1>5. Min({a, b}) = m
    BY <1>2, <1>4
  <1>. QED
    BY <1>5 DEF m

LEMMA MinOfNat ==
  ASSUME NEW a \in Nat, NEW b \in Nat
  PROVE  Min({a, b}) = (IF a <= b THEN a ELSE b) /\ Min({a, b}) \in Nat
  BY MinOfTwo

IsPage(list, offset, limit, page) ==
  /\ page.kind \in {"page", "beyond", "panic"}
  /\ page.items \in Seq(Range(list))
  /\ page.kind # "page" => page.items = <<>>
  /\ page.kind = "beyond" => offset >= Len(list)
  /\ page.kind = "panic" => offset < 0 \/ limit < 0
  /\ page.kind = "page" =>
       /\ page.total = Len(list) /\ page.next \in Nat
       /\ 0 <= offset /\ offset < Len(list) /\ offset <= page.next /\ page.next <= Len(list)
       /\ page.items = SubSeq(list, offset + 1, page.next)
       /\ Len(page.items) = page.next - offset
       /\ page.next = Len(list) \/ page.next = offset + limit

LEMMA PageFollows ==
  ASSUME NEW list, IsList(list), NEW offset \in Int, NEW limit \in Int
  PROVE  IsPage(list, offset, limit, Page(list, offset, limit))
  <1> DEFINE page == Page(list, offset, limit)
  <1>1. Len(list) \in Nat
    BY LenProperties DEF IsList
  <1> DEFINE end == Min({offset + limit, Len(list)})
  <1>2. end = IF offset + limit <= Len(list) THEN offset + limit ELSE Len(list)
    BY <1>1, MinOfTwo
  <1>3. CASE offset >= Len(list)
    <2>1. page = Says("beyond")
      BY <1>3 DEF Page
    <2>. QED
      BY <1>3, <2>1, EmptySeq DEF Says, Response, IsPage
  <1>4. CASE ~(offset >= Len(list)) /\ (offset < 0 \/ end < offset)
    <2>1. page = Says("panic")
      BY <1>4 DEF Page
    <2>2. offset < 0 \/ limit < 0
      <3>. HIDE DEF end
      <3>. QED
        BY <1>1, <1>2, <1>4
    <2>. QED
      BY <2>1, <2>2, EmptySeq DEF Says, Response, IsPage
  <1>5. CASE ~(offset >= Len(list)) /\ ~(offset < 0 \/ end < offset)
    <2>1. page = Response("page", Len(list), SubSeq(list, offset + 1, end), end)
      BY <1>5 DEF Page
    <2>. HIDE DEF end
    <2>2. end \in Nat /\ 0 <= offset /\ offset < Len(list) /\ offset <= end /\ end <= Len(list)
          /\ (end = Len(list) \/ end = offset + limit)
      BY <1>1, <1>2, <1>5
    <2>3. SubSeq(list, offset + 1, end) \in Seq(Range(list)) /\ Len(SubSeq(list, offset + 1, end)) = end - offset
      BY <1>1, <2>2 DEF IsList
    <2> DEFINE items == SubSeq(list, offset + 1, end)
    <2>4. page = [kind |-> "page", total |-> Len(list), items |-> items, next |-> end]
      BY <2>1, Zenon DEF Response
    <2>5. page.kind = "page" /\ page.total = Len(list) /\ page.items = items /\ page.next = end
      <3>. HIDE DEF items
      <3>. QED
        BY <2>4
    <2>. QED
      <3>. HIDE DEF page
      <3>1. IsPage(list, offset, limit, page)
        BY <2>2, <2>3, <2>5 DEF IsPage
      <3>. QED
        BY <3>1 DEF page
  <1>. QED
    BY <1>3, <1>4, <1>5

LEMMA NextPart ==
  ASSUME NEW list, IsList(list), NEW a \in 0 .. Len(list), NEW b \in a .. Len(list)
  PROVE  /\ SubSeq(list, 1, a) \o SubSeq(list, a + 1, b) = SubSeq(list, 1, b)
         /\ Len(SubSeq(list, 1, b)) = b
         /\ SubSeq(list, 1, b) = list <=> b = Len(list)
  <1>1. Len(list) \in Nat /\ list \in Seq(Range(list))
    BY LenProperties DEF IsList
  <1>2. Len(SubSeq(list, 1, b)) = b
    BY <1>1
  <1>3. SubSeq(list, 1, Len(list)) = list
    BY <1>1
  <1>4. SubSeq(list, 1, a) \o SubSeq(list, a + 1, b) = SubSeq(list, 1, b)
    BY <1>1
  <1>. QED
    BY <1>1, <1>2, <1>3, <1>4

-----------------------------------------------------------------------------
(***************************************************************************)
(* What the client keeps when it is shown a page of a list, of the part it *)
(* asked for or, of a short list in symbol_explore, of everything; or when *)
(* it is told something else.  A negative offset is followed by nobody.    *)
(***************************************************************************)
IsAnswer(list, page) ==
  /\ page.items \in Seq(Range(list))
  /\ page.kind # "page" => page.items = <<>>
  /\ page.kind = "beyond" =>
       call.offset < 0 \/ call.offset >= Len(list) \/ (tool = "workspaceSymbols" /\ call.limit = 0)
  /\ page.kind = "panic" => call.offset < 0 \/ call.limit < 0
  /\ page.kind = "page" =>
       /\ page.total = Len(list) /\ page.next \in Nat /\ page.next <= Len(list)
       /\ tool = "explore" /\ page.next < Len(list) => Len(list) > 3
       /\ call.limit > 0 => page.items # <<>>
       /\ \E start \in 0 .. page.next :
            /\ page.items = SubSeq(list, start + 1, page.next)
            /\ start = call.offset \/ call.offset < 0 \/ (start = 0 /\ tool = "explore" /\ Len(list) <= 3)

LEMMA KeepFollows ==
  ASSUME PagesInv, Waiting, NEW list, IsList(list), NEW page, IsAnswer(list, page), Keep(list, page)
  PROVE  /\ IsList(listing') /\ IsList(shown')
         /\ follows' =>
              /\ Len(shown') <= Len(listing') /\ shown' = SubSeq(listing', 1, Len(shown'))
              /\ Truthful(page, listing', shown')
  <1> DEFINE same == follows /\ (call.offset = 0 \/ list = listing)
  <1>1. follows' = same
    BY DEF Keep
  <1>2. CASE ~same
    <2>1. listing' = <<>> /\ shown' = <<>>
      BY <1>2 DEF Keep
    <2>. QED
      BY <1>1, <1>2, <2>1, EmptySeq DEF IsList
  <1>3. CASE same
    <2>1. listing' = list /\ shown' = shown \o page.items
      BY <1>3 DEF Keep
    <2>2. IsList(shown')
      <3>1. shown \in Seq(Range(shown) \union Range(list)) /\ page.items \in Seq(Range(shown) \union Range(list))
        BY SeqMonotonic DEF PagesInv, ListsOK, IsList, IsAnswer
      <3>. HIDE DEF same
      <3>2. shown' \in Seq(Range(shown) \union Range(list))
        BY <2>1, <3>1, ConcatProperties
      <3>. QED
        BY <3>2, AnyList
    <2>3. Len(list) \in Nat /\ Len(shown) \in Nat /\ call.offset = Len(shown) /\ call.offset \in Nat
          /\ Len(shown) <= Len(list) /\ shown = SubSeq(list, 1, Len(shown))
          /\ (call.offset >= Len(list) => list = <<>>)
      <3>1. /\ Len(list) \in Nat /\ Len(shown) \in Nat /\ call.offset = Len(shown)
            /\ Len(shown) <= Len(listing) /\ shown = SubSeq(listing, 1, Len(shown))
        BY <1>3, LenProperties DEF PagesInv, ListsOK, FollowsOK, IsList
      <3>2. CASE call.offset = 0
        <4>1. shown = <<>> /\ SubSeq(list, 1, 0) = <<>>
          BY <3>1, <3>2, EmptySeq, SubSeqEmpty DEF PagesInv, ListsOK, IsList
        <4>2. Len(list) = 0 => list = <<>>
          BY EmptySeq DEF IsList
        <4>. QED
          BY <3>1, <3>2, <4>1, <4>2
      <3>3. CASE call.offset # 0
        <4>1. list = listing
          BY <1>3, <3>3
        <4>2. call.offset < Len(listing)
          BY <1>3, <3>1, <3>3 DEF PagesInv, FollowsOK
        <4>. QED
          BY <3>1, <4>1, <4>2
      <3>. QED
        BY <3>2, <3>3
    <2>4. CASE page.kind # "page"
      <3>1. shown' = shown
        BY <2>1, <2>4, ConcatEmptySeq DEF IsAnswer, PagesInv, ListsOK, IsList
      <3>2. page.kind = "beyond" => shown' = list \/ (tool = "workspaceSymbols" /\ call.limit = 0)
        <4>1. ASSUME list = <<>> PROVE shown' = list
          <5>1. Len(shown) = 0
            BY <2>3, <4>1, EmptySeq
          <5>2. shown = <<>>
            BY <5>1, EmptySeq DEF PagesInv, ListsOK, IsList
          <5>. QED
            BY <3>1, <4>1, <5>2
        <4>2. page.kind = "beyond" => call.offset >= Len(list) \/ (tool = "workspaceSymbols" /\ call.limit = 0)
          BY <2>3 DEF IsAnswer
        <4>. QED
          BY <2>3, <4>1, <4>2
      <3>3. page.kind = "panic" => call.limit < 0
        BY <2>3 DEF IsAnswer
      <3>4. Truthful(page, listing', shown')
        BY <2>1, <2>4, <3>2, <3>3 DEF Truthful
      <3>. QED
        BY <2>1, <2>2, <2>3, <3>1, <3>4
    <2>5. CASE page.kind = "page"
      <3>1. page.next \in Nat /\ page.next <= Len(list)
        BY <2>5 DEF IsAnswer
      <3>2. PICK start \in 0 .. page.next :
              /\ page.items = SubSeq(list, start + 1, page.next)
              /\ start = call.offset \/ call.offset < 0 \/ (start = 0 /\ tool = "explore" /\ Len(list) <= 3)
        BY <2>5 DEF IsAnswer
      <3>3. tool = "explore" /\ call.offset > 0 => ~(Len(list) <= 3)
        <4>1. call.offset > 0 => list = listing
          BY <1>3, <2>3
        <4>2. tool = "explore" /\ call.offset > 0 => Len(listing) > 3
          BY <1>3 DEF PagesInv, FollowsOK
        <4>. QED
          BY <4>1, <4>2, <2>3, SMT
      <3>4. start = Len(shown)
        <4>1. call.offset = Len(shown) /\ call.offset \in Nat
          BY <2>3, Zenon
        <4>0. ~(call.offset < 0)
          BY <4>1
        <4>2. start = call.offset \/ (start = 0 /\ tool = "explore" /\ Len(list) <= 3)
          BY <3>2, <4>0, Zenon
        <4>3. start = call.offset \/ (start = 0 /\ ~(call.offset > 0))
          BY <4>2, <3>3, Zenon
        <4>. QED
          BY <4>1, <4>3
      <3>5. shown' = SubSeq(list, 1, page.next) /\ Len(SubSeq(list, 1, page.next)) = page.next
        <4>1. Len(shown) \in 0 .. Len(list) /\ page.next \in Len(shown) .. Len(list)
          BY <2>3, <3>1, <3>4
        <4>2. shown' = SubSeq(list, 1, Len(shown)) \o SubSeq(list, Len(shown) + 1, page.next)
          BY <2>1, <2>3, <3>2, <3>4, Zenon
        <4>. HIDE DEF same
        <4>. QED
          BY <4>1, <4>2, NextPart
      <3>6. /\ page.total = Len(list) /\ (call.limit > 0 => page.items # <<>>)
            /\ tool = "explore" /\ page.next < Len(list) => Len(list) > 3
        BY <2>5 DEF IsAnswer
      <3>. HIDE DEF same
      <3>7. Truthful(page, listing', shown')
        BY <2>1, <2>5, <3>5, <3>6 DEF Truthful
      <3>. QED
        BY <2>1, <2>2, <3>1, <3>5, <3>7
    <2>. QED
      BY <2>4, <2>5
  <1>. QED
    BY <1>2, <1>3

(***************************************************************************)
(* The answers of the slices, of ApplyPagination and of symbol_explore.    *)
(***************************************************************************)
LEMMA PageIsAnswer ==
  ASSUME PagesInv, NEW list, IsList(list), tool # "explore" \/ Len(list) > 3
  PROVE  IsAnswer(list, Page(list, call.offset, call.limit))
  <1> DEFINE page == Page(list, call.offset, call.limit)
  <1>1. call.offset \in Int /\ call.limit \in Int /\ Len(list) \in Nat
    BY LenProperties DEF PagesInv, ListsOK, IsCall, IsList
  <1>. HIDE DEF page
  <1>2. IsPage(list, call.offset, call.limit, page)
    BY <1>1, PageFollows DEF page
  <1>3. CASE page.kind = "page"
    <2>1. /\ page.next \in Nat /\ call.offset \in 0 .. page.next
          /\ page.items = SubSeq(list, call.offset + 1, page.next)
      BY <1>1, <1>2, <1>3 DEF IsPage
    <2>2. call.limit > 0 => Len(page.items) > 0
      BY <1>1, <1>2, <1>3 DEF IsPage
    <2>3. call.limit > 0 => page.items # <<>>
      BY <2>2, EmptySeq
    <2>. QED
      BY <1>2, <1>3, <2>1, <2>3 DEF IsPage, IsAnswer, page
  <1>4. CASE page.kind # "page"
    BY <1>2, <1>4 DEF IsPage, IsAnswer, page
  <1>. QED
    BY <1>3, <1>4

LEMMA PaginationIsAnswer ==
  ASSUME PagesInv, NEW list, IsList(list), tool = "workspaceSymbols"
  PROVE  IsAnswer(list, ApplyPagination(list, call.offset, call.limit))
  <1> DEFINE offset == IF call.offset < 0 THEN 0 ELSE call.offset
             page == Page(list, offset, call.limit)
             answer == ApplyPagination(list, call.offset, call.limit)
  <1>1. call.offset \in Int /\ call.limit \in Int /\ offset \in Nat /\ Len(list) \in Nat
    BY LenProperties DEF PagesInv, ListsOK, IsCall, IsList
  <1>2. answer = IF page.kind = "page" /\ page.items = <<>> THEN Says("beyond") ELSE page
    BY DEF ApplyPagination
  <1>3. offset = call.offset \/ call.offset < 0
    BY <1>1
  <1>4. IsPage(list, offset, call.limit, page)
    <2>. HIDE DEF offset
    <2>. QED
      BY <1>1, PageFollows
  <1>. HIDE DEF offset, page, answer
  <1>5. CASE page.kind = "page" /\ page.items = <<>>
    <2>1. answer = Says("beyond")
      BY <1>2, <1>5
    <2>2. answer.kind = "beyond" /\ answer.items = <<>>
      BY <2>1 DEF Says, Response
    <2>3. call.limit = 0
      <3>1. Len(page.items) = 0
        BY <1>5, EmptySeq
      <3>. QED
        BY <1>1, <1>4, <1>5, <3>1 DEF IsPage
    <2>4. IsAnswer(list, answer)
      BY <2>2, <2>3, EmptySeq DEF IsAnswer
    <2>. QED
      BY <2>4 DEF answer
  <1>6. CASE page.kind = "page" /\ page.items # <<>>
    <2>1. answer = page
      BY <1>2, <1>6
    <2>2. /\ page.next \in Nat /\ offset \in 0 .. page.next /\ page.next <= Len(list)
          /\ page.items = SubSeq(list, offset + 1, page.next)
          /\ page.total = Len(list) /\ page.items \in Seq(Range(list))
      BY <1>1, <1>4, <1>6 DEF IsPage
    <2>3. IsAnswer(list, answer)
      BY <1>3, <1>6, <2>1, <2>2 DEF IsAnswer
    <2>. QED
      BY <2>3 DEF answer
  <1>7. CASE page.kind # "page"
    <2>1. answer = page
      BY <1>2, <1>7
    <2>2. /\ page.items = <<>> /\ page.items \in Seq(Range(list))
          /\ page.kind = "beyond" => offset >= Len(list)
          /\ page.kind = "panic" => offset < 0 \/ call.limit < 0
      BY <1>4, <1>7 DEF IsPage
    <2>3. IsAnswer(list, answer)
      BY <1>1, <1>3, <1>7, <2>1, <2>2 DEF IsAnswer
    <2>. QED
      BY <2>3 DEF answer
  <1>. QED
    BY <1>5, <1>6, <1>7

LEMMA SymbolResponseIsAnswer ==
  ASSUME PagesInv, NEW list, IsList(list), tool = "explore"
  PROVE  IsAnswer(list, SymbolResponse(list))
  <1> DEFINE page == SymbolResponse(list)
             Contents == call.offset < Len(list) /\ (call.detail = "basic" \/ call.limit <= 0)
  <1>0. Len(list) \in Nat
    BY LenProperties DEF IsList
  <1>1. CASE list = <<>>
    <2>1. page = Says("empty")
      BY <1>1 DEF SymbolResponse
    <2>. QED
      BY <2>1, EmptySeq DEF Says, Response, IsAnswer
  <1>2. CASE list # <<>> /\ Len(list) <= 3
    <2>1. page = Page(list, 0, 3)
      BY <1>2 DEF SymbolResponse
    <2>. HIDE DEF page
    <2>2. IsPage(list, 0, 3, page)
      BY <2>1, PageFollows
    <2>3. Len(list) # 0
      BY <1>2, EmptySeq DEF IsList
    <2>4. page.kind = "page"
      BY <1>0, <2>2, <2>3 DEF IsPage
    <2>5. page.next = Len(list) /\ 0 \in 0 .. page.next /\ Len(page.items) > 0
      BY <1>0, <1>2, <2>2, <2>3, <2>4 DEF IsPage
    <2>6. page.items # <<>>
      BY <2>5, EmptySeq
    <2>7. page.items = SubSeq(list, 0 + 1, page.next)
      BY <2>2, <2>4 DEF IsPage
    <2>8. IsAnswer(list, page)
      BY <1>0, <1>2, <2>2, <2>4, <2>5, <2>6, <2>7 DEF IsPage, IsAnswer
    <2>. QED
      BY <2>8 DEF page
  <1>3. CASE list # <<>> /\ Len(list) > 3 /\ Contents
    <2>1. page = Response("contents", Len(list), <<>>, 0)
      BY <1>0, <1>3 DEF SymbolResponse
    <2>. QED
      BY <2>1, EmptySeq DEF Response, IsAnswer
  <1>4. CASE list # <<>> /\ Len(list) > 3 /\ ~Contents
    <2>1. page = Page(list, call.offset, call.limit)
      BY <1>0, <1>4 DEF SymbolResponse
    <2>. QED
      BY <1>4, <2>1, PageIsAnswer
  <1>. QED
    BY <1>0, <1>1, <1>2, <1>3, <1>4

(***************************************************************************)
(* An answer ends the call.                                                *)
(***************************************************************************)
LEMMA AnswerPageInv ==
  ASSUME PagesInv, Waiting, NEW list, IsList(list), NEW page, IsAnswer(list, page), AnswerPage(list, page)
  PROVE  PagesInv'
  <1>1. response' = page /\ Keep(list, page) /\ phase' \in {"idle", "crashed"}
        /\ UNCHANGED <<tool, call, value>>
    BY DEF AnswerPage, Answer
  <1>2. /\ IsList(listing') /\ IsList(shown')
        /\ follows' =>
             /\ Len(shown') <= Len(listing') /\ shown' = SubSeq(listing', 1, Len(shown'))
             /\ Truthful(page, listing', shown')
    BY <1>1, KeepFollows
  <1>3. ListsOK'
    BY <1>1, <1>2 DEF PagesInv, ListsOK, IsAnswer
  <1>4. ~Waiting'
    BY <1>1 DEF Waiting
  <1>5. FollowsOK'
    BY <1>1, <1>2, <1>4 DEF FollowsOK, Truthful
  <1>. QED
    BY <1>3, <1>5 DEF PagesInv

Quiet(r) == r.kind \notin {"page", "beyond", "panic"}

LEMMA AnswerOtherInv ==
  ASSUME PagesInv, NEW r, Quiet(r), Answer(r), UNCHANGED client
  PROVE  PagesInv'
  <1>1. response' = r /\ phase' = "idle" /\ UNCHANGED <<tool, call, value, follows, listing, shown>>
    BY DEF Answer, client, Quiet
  <1>2. ListsOK'
    BY <1>1 DEF PagesInv, ListsOK, Quiet
  <1>3. ~Waiting'
    BY <1>1 DEF Waiting
  <1>4. FollowsOK'
    BY <1>1, <1>3 DEF PagesInv, FollowsOK, Truthful, Quiet
  <1>. QED
    BY <1>2, <1>4 DEF PagesInv

LEMMA AnswerOnlyInv ==
  ASSUME PagesInv, NEW r, Quiet(r), AnswerOnly(r)
  PROVE  PagesInv'
  BY AnswerOtherInv DEF AnswerOnly

LEMMA Saying ==
  ASSUME NEW kind, kind \notin {"page", "beyond", "panic"}
  PROVE  Quiet(Says(kind))
  BY DEF Says, Response, Quiet

LEMMA ExploreInv ==
  ASSUME PagesInv, Types, Explore
  PROVE  PagesInv'
  <1>0. Waiting /\ tool = "explore"
    BY DEF Explore, Ready, Waiting
  <1> DEFINE page == SymbolResponse(Matches)
  <1>1. /\ response'.kind = page.kind /\ response'.total = page.total /\ response'.next = page.next
        /\ response'.items = page.items
        /\ Keep(Matches, page)
        /\ phase' \in {"idle", "ask", "crashed"}
        /\ UNCHANGED <<tool, call, value>>
    BY DEF Explore
  <1>2. IsList(Matches)
    BY MatchesIsList DEF PagesInv, ListsOK
  <1>3. IsAnswer(Matches, page)
    BY <1>0, <1>2, SymbolResponseIsAnswer
  <1>. HIDE DEF page
  <1>4. /\ IsList(listing') /\ IsList(shown')
        /\ follows' =>
             /\ Len(shown') <= Len(listing') /\ shown' = SubSeq(listing', 1, Len(shown'))
             /\ Truthful(page, listing', shown')
    BY <1>0, <1>1, <1>2, <1>3, KeepFollows
  <1>5. ListsOK'
    BY <1>0, <1>1, <1>3, <1>4 DEF PagesInv, ListsOK, IsAnswer
  <1>6. ~Waiting'
    BY <1>0, <1>1 DEF Waiting
  <1>7. FollowsOK'
    BY <1>1, <1>4, <1>6 DEF FollowsOK, Truthful
  <1>. QED
    BY <1>5, <1>7 DEF PagesInv

(***************************************************************************)
(* A new call begins with a new map, and asks for the beginning of a list  *)
(* or for what its client was told comes next.                             *)
(***************************************************************************)
LEMMA NewMapInv == NewMap => Inv'
  <1>1. Init' => Inv'
    BY InitInv, PTL
  <1>. QED
    BY <1>1 DEF NewMap, Init

LEMMA SaysList ==
  ASSUME NEW kind
  PROVE  IsList(Says(kind).items)
  BY EmptySeq DEF Says, Response, IsList

LEMMA FirstCallInv ==
  ASSUME NEW t \in Parallel \union Direct, NEW c \in Calls(t), FirstCall(t, c)
  PROVE  PagesInv'
  <1>1. /\ IsCall(c) /\ call' = c /\ tool' = t /\ response' = Says("none") /\ phase' \in {"search", "ask"}
        /\ value' = [k \in Keys |-> Says("none")] /\ listing' = <<>> /\ shown' = <<>>
        /\ follows' = (c.offset = 0) /\ (phase' = "search" => t \in Parallel)
    <2>1. IsCall(c)
      BY SessionAssumption
    <2>2. /\ call' = c /\ tool' = t /\ response' = Says("none")
          /\ phase' = IF t \in Parallel THEN "search" ELSE "ask"
          /\ value' = [k \in Keys |-> Says("none")]
      BY Zenon DEF FirstCall, Begin
    <2>3. listing' = <<>> /\ shown' = <<>> /\ follows' = (c.offset = 0)
      BY Zenon DEF FirstCall
    <2>. QED
      BY <2>1, <2>2, <2>3
  <1>2. response'.kind = "none"
    BY <1>1 DEF Says, Response
  <1>3. IsList(<<>>) /\ Len(<<>>) = 0 /\ SubSeq(<<>>, 1, 0) = <<>>
    BY EmptySeq, SubSeqEmpty DEF IsList
  <1>4. \A k \in Keys : IsList(value'[k].items)
    BY <1>1, SaysList
  <1>5. ListsOK'
    <2>1. DOMAIN value' = Keys
      BY <1>1
    <2>2. IsList(listing') /\ IsList(shown')
      BY <1>1, <1>3
    <2>3. IsCall(call')
      BY <1>1
    <2>4. phase' \in {"search", "closed"} => tool' \in Parallel
      BY <1>1
    <2>5. response'.kind # "page"
      BY <1>2
    <2>. QED
      BY <1>4, <2>1, <2>2, <2>3, <2>4, <2>5, Zenon DEF ListsOK
  <1>6. FollowsOK'
    <2>1. follows' => call'.offset = 0
      BY <1>1, Zenon
    <2>2. listing' = <<>> /\ shown' = <<>> /\ response'.kind \notin {"page", "beyond", "panic"}
      BY <1>1, <1>2
    <2>3. Len(shown') = 0 /\ Len(listing') = 0 /\ SubSeq(listing', 1, Len(shown')) = <<>>
      BY <2>2, <1>3, Zenon
    <2>. QED
      BY <2>1, <2>2, <2>3 DEF FollowsOK, Truthful
  <1>. QED
    BY <1>5, <1>6 DEF PagesInv

LEMMA NextPageInv ==
  ASSUME PagesInv, NextPage
  PROVE  PagesInv'
  <1>1. /\ response.kind = "page" /\ response.next < response.total /\ tool' = tool
        /\ call' = [call EXCEPT !.offset = response.next] /\ response' = Says("none")
        /\ phase' = IF tool \in Parallel THEN "search" ELSE "ask"
        /\ value' = [k \in Keys |-> Says("none")] /\ UNCHANGED <<follows, listing, shown>>
    BY DEF NextPage, Begin, client
  <1>2. response'.kind = "none"
    BY <1>1 DEF Says, Response
  <1>3. \A k \in Keys : IsList(value'[k].items)
    BY <1>1, SaysList
  <1>4. IsCall(call') /\ call'.offset = response.next
    <2>1. call = [offset |-> call.offset, limit |-> call.limit, context |-> call.context, detail |-> call.detail]
          /\ call.limit \in Int /\ response.next \in Nat
      BY <1>1 DEF PagesInv, ListsOK, IsCall
    <2>2. call' = [offset |-> response.next, limit |-> call.limit, context |-> call.context, detail |-> call.detail]
      BY <1>1, <2>1
    <2>. QED
      BY <2>1, <2>2 DEF IsCall
  <1>5. ListsOK'
    <2>1. DOMAIN value' = Keys
      BY <1>1
    <2>2. IsList(listing') /\ IsList(shown')
      BY <1>1 DEF PagesInv, ListsOK
    <2>. QED
      BY <1>1, <1>2, <1>3, <1>4, <2>1, <2>2 DEF ListsOK, IsCall, IsList
  <1>6. FollowsOK'
    <2>1. response.next \in Nat
      BY <1>1 DEF PagesInv, ListsOK
    <2>2. follows => Truthful(response, listing, shown) /\ UNCHANGED <<listing, shown, tool>>
      BY <1>1 DEF PagesInv, FollowsOK
    <2>3. follows => /\ response.next = Len(shown) /\ response.next < Len(listing)
                     /\ tool = "explore" => Len(listing) > 3
      BY <1>1, <2>2 DEF Truthful
    <2>4. Truthful(response, listing, shown)'
      BY <1>2 DEF Truthful
    <2>. QED
      BY <1>1, <1>4, <2>1, <2>3, <2>4 DEF PagesInv, FollowsOK
  <1>. QED
    BY <1>5, <1>6 DEF PagesInv

LEMMA RefuseInv ==
  ASSUME PagesInv, Refuse
  PROVE  PagesInv'
  <1>1. /\ phase = "idle" /\ response' = Says("error") /\ UNCHANGED <<call, phase>>
        /\ value' = [k \in Keys |-> Says("none")] /\ follows' = FALSE /\ listing' = <<>> /\ shown' = <<>>
    BY DEF Refuse
  <1>2. response'.kind # "page"
    BY <1>1, Saying DEF Quiet
  <1>3. \A k \in Keys : IsList(value'[k].items)
    BY <1>1, SaysList
  <1>4. IsList(<<>>)
    BY EmptySeq DEF IsList
  <1>5. ListsOK'
    <2>1. DOMAIN value' = Keys
      BY <1>1
    <2>2. IsList(listing') /\ IsList(shown')
      BY <1>1, <1>4
    <2>. QED
      BY <1>1, <1>2, <1>3, <2>1, <2>2 DEF PagesInv, ListsOK, IsCall, IsList
  <1>6. FollowsOK'
    BY <1>1 DEF FollowsOK
  <1>. QED
    BY <1>5, <1>6 DEF PagesInv

LEMMA SearchInv ==
  ASSUME PagesInv, NEW k \in Keys, Search(k)
  PROVE  PagesInv'
  <1>1. PICK found \in Found(tool) : value' = [value EXCEPT ![k] = found]
    BY DEF Search
  <1>2. phase \in {"search", "closed"} /\ UNCHANGED <<tool, call, phase, response, follows, listing, shown>>
    BY DEF Search, client
  <1>3. IsList(found.items)
    BY <1>1, <1>2, SessionAssumption DEF PagesInv, ListsOK, IsList
  <1>4. DOMAIN value' = Keys /\ \A l \in Keys : IsList(value'[l].items)
    BY <1>1, <1>3 DEF PagesInv, ListsOK
  <1>5. ListsOK'
    BY <1>2, <1>4 DEF PagesInv, ListsOK, IsCall, IsList
  <1>6. FollowsOK'
    BY <1>2 DEF PagesInv, FollowsOK, Truthful, Waiting
  <1>. QED
    BY <1>5, <1>6 DEF PagesInv

(***************************************************************************)
(* Nothing else that happens before a call is answered changes what the    *)
(* client keeps.                                                           *)
(***************************************************************************)
LEMMA OtherInv ==
  ASSUME PagesInv, UNCHANGED <<tool, call, phase, value, response, client>>
  PROVE  PagesInv'
  <1>1. UNCHANGED <<tool, call, phase, value, response, follows, listing, shown>>
    BY DEF client
  <1>2. Waiting' = Waiting
    BY <1>1 DEF Waiting
  <1>3. ListsOK'
    BY <1>1 DEF PagesInv, ListsOK
  <1>4. FollowsOK'
    BY <1>1, <1>2 DEF PagesInv, FollowsOK, Truthful
  <1>. QED
    BY <1>3, <1>4 DEF PagesInv

\* A request that never ends.
LEMMA RequestSticksInv ==
  ASSUME PagesInv, RequestSticks
  PROVE  PagesInv'
  <1>1. phase' = "stuck" /\ UNCHANGED <<tool, call, value, response, follows, listing, shown>>
    BY DEF RequestSticks, client
  <1>2. ~Waiting'
    BY <1>1 DEF Waiting
  <1>3. ListsOK'
    BY <1>1 DEF PagesInv, ListsOK
  <1>4. FollowsOK'
    BY <1>1, <1>2 DEF PagesInv, FollowsOK, Truthful
  <1>. QED
    BY <1>3, <1>4 DEF PagesInv

LEMMA AbandonInv ==
  ASSUME PagesInv, Abandon
  PROVE  PagesInv'
  <1>1. /\ phase = "search" /\ phase' = "closed" /\ response' = Says("error")
        /\ UNCHANGED <<tool, call, value, follows, listing, shown>>
    BY DEF Abandon, client
  <1>2. response'.kind \notin {"page", "beyond", "panic"}
    BY <1>1, Saying DEF Quiet
  <1>3. ListsOK'
    BY <1>1, <1>2 DEF PagesInv, ListsOK
  <1>4. FollowsOK'
    BY <1>1, <1>2 DEF PagesInv, FollowsOK, Truthful, Waiting
  <1>. QED
    BY <1>3, <1>4 DEF PagesInv

LEMMA DescribeInv ==
  ASSUME PagesInv, Describe
  PROVE  PagesInv'
  <1>1. /\ phase = "ask" /\ tool = "explore" /\ phase' \in {"idle", "ask"}
        /\ UNCHANGED <<tool, call, value, response, follows, listing, shown>>
    BY DEF Describe, client
  <1>2. ~Waiting'
    BY <1>1 DEF Waiting
  <1>3. ListsOK'
    BY <1>1 DEF PagesInv, ListsOK
  <1>4. FollowsOK'
    BY <1>1, <1>2 DEF PagesInv, FollowsOK, Truthful
  <1>. QED
    BY <1>3, <1>4 DEF PagesInv

LEMMA RespondInv ==
  ASSUME PagesInv, Types, Respond
  PROVE  PagesInv'
  <1>1. \A list \in Lists : IsList(list)
    BY SessionAssumption DEF IsList
  <1>2. \A kind : kind \notin {"page", "beyond", "panic"} /\ AnswerOnly(Says(kind)) => PagesInv'
    BY Saying, AnswerOnlyInv
  <1>3. \A kind, n, items : kind \in {"choose", "definitions"} /\ AnswerOnly(Response(kind, n, items, 0)) => PagesInv'
    <2>1. \A kind, n, items : kind \in {"choose", "definitions"} => Quiet(Response(kind, n, items, 0))
      BY DEF Response, Quiet
    <2>. QED
      BY <2>1, AnswerOnlyInv
  <1>4. \A name : AnswerNotFound(name) => PagesInv'
    <2>1. \A s : Quiet([kind |-> "notFound", suggestions |-> s])
      BY DEF Quiet
    <2>. QED
      BY <2>1, AnswerOtherInv DEF AnswerNotFound
  <1>5. CASE ExploreNothing
    BY <1>2, <1>5 DEF ExploreNothing
  <1>6. CASE ExploreUnknownFile
    BY <1>4, <1>6 DEF ExploreUnknownFile
  <1>7. CASE Explore
    BY <1>7, ExploreInv
  <1>8. CASE Describe
    BY <1>8, DescribeInv
  <1>9. CASE References
    <2>1. Waiting /\ tool # "explore"
      BY <1>9 DEF References, Ready, Waiting
    <2>2. \A list \in Lists : AnswerPage(list, Page(list, call.offset, call.limit)) => PagesInv'
      BY <1>1, <2>1, PageIsAnswer, AnswerPageInv
    <2>. QED
      BY <1>2, <1>9, <2>2 DEF References
  <1>10. CASE Diagnostics
    <2>1. \A l, s, e : Quiet([kind |-> "report", languages |-> l, summary |-> s, errors |-> e])
      BY DEF Quiet
    <2>. QED
      BY <1>10, <2>1, AnswerOnlyInv DEF Diagnostics
  <1>11. CASE WorkspaceSymbols
    <2>1. Waiting /\ tool = "workspaceSymbols"
      BY <1>11 DEF WorkspaceSymbols, Waiting
    <2>2. \A list \in Lists : AnswerPage(list, ApplyPagination(list, call.offset, call.limit)) => PagesInv'
      BY <1>1, <2>1, PaginationIsAnswer, AnswerPageInv
    <2>. QED
      BY <1>2, <1>11, <2>2 DEF WorkspaceSymbols
  <1>12. CASE DocumentSymbols
    <2>1. Waiting /\ tool # "explore"
      BY <1>12 DEF DocumentSymbols, Waiting
    <2>2. \A list \in Lists : AnswerPage(list, Page(list, call.offset, call.limit)) => PagesInv'
      BY <1>1, <2>1, PageIsAnswer, AnswerPageInv
    <2>. QED
      BY <1>2, <1>12, <2>2 DEF DocumentSymbols
  <1>13. CASE Definitions
    BY <1>2, <1>3, <1>13 DEF Definitions
  <1>14. CASE AnalyseUnknownFile
    BY <1>4, <1>14 DEF AnalyseUnknownFile
  <1>15. CASE AnalyseFile \/ AnalysePatterns \/ AnalyseWorkspace \/ AnalyseRelationships
    <2>1. \A report : Quiet([kind |-> "analysis", report |-> report])
      BY DEF Quiet
    <2>2. \A t, reports : Report(t, reports) => PagesInv'
      BY <1>2, <2>1, AnswerOnlyInv DEF Report
    <2>. QED
      BY <1>15, <2>2 DEF AnalyseFile, AnalysePatterns, AnalyseWorkspace, AnalyseRelationships
  <1>. QED
    BY <1>5, <1>6, <1>7, <1>8, <1>9, <1>10, <1>11, <1>12, <1>13, <1>14, <1>15 DEF Respond

-----------------------------------------------------------------------------
(***************************************************************************)
(* What a response accounts for.  Until a call is answered its response    *)
(* says nothing, and once it is answered nothing of what it is about       *)
(* changes; what is found has its types.                                   *)
(***************************************************************************)
FoundOK ==
  /\ tool = "explore" => \A k \in Keys : \A i \in DOMAIN value[k].items : IsSymbol(value[k].items[i])
  /\ tool = "diagnostics" => \A k \in Keys : \A i \in DOMAIN value[k].items : IsReport(value[k].items[i])

Unanswered ==
  /\ phase = "search" => response.kind = "none"
  /\ phase = "closed" => response.kind = "error"

LostInv == FoundOK /\ Unanswered /\ NothingLost

(***************************************************************************)
(* The results have every key once when the map has succeeded.             *)
(***************************************************************************)
AllKeys == [i \in DOMAIN allResults |-> allResults[i].key]

LEMMA AllKeysOnce ==
  ASSUME Inv, caller = "ok"
  PROVE  /\ AllKeys \in Seq(Keys) /\ Range(AllKeys) = Keys
         /\ DOMAIN AllKeys = DOMAIN allResults /\ \A i \in DOMAIN allResults : AllKeys[i] = allResults[i].key
         /\ \A i, j \in 1 .. Len(AllKeys) : AllKeys[i] = AllKeys[j] => i = j
  <1> DEFINE n == Len(allResults)
  <1>1. n \in Nat /\ DOMAIN allResults = 1 .. n /\ \A i \in 1 .. n : allResults[i] \in KeyedResult
    BY LenProperties, ElementOfSeq DEF Inv, Types
  <1>2. DOMAIN AllKeys = 1 .. n /\ \A i \in 1 .. n : AllKeys[i] = allResults[i].key
    BY <1>1 DEF AllKeys
  <1>3. AllKeys \in [1 .. n -> Keys]
    BY <1>1 DEF AllKeys, KeyedResult
  <1>4. AllKeys \in Seq(Keys)
    <2>. HIDE DEF n
    <2>. QED
      BY <1>1, <1>3, SeqDefs
  <1>5. {r.key : r \in Range(allResults)} = Keys
    BY InvComplete DEF CompleteOnSuccess
  <1>6. Range(AllKeys) = Keys
    <2>1. Range(AllKeys) = {AllKeys[i] : i \in 1 .. n} /\ Range(allResults) = {allResults[i] : i \in 1 .. n}
      BY <1>1, <1>2 DEF Range
    <2>. QED
      BY <1>2, <1>5, <2>1
  <1>7. Len(AllKeys) = n
    BY <1>1, <1>2, <1>4, LenProperties
  <1>8. \A i, j \in 1 .. n : AllKeys[i] = AllKeys[j] => i = j
    BY <1>2, ReceivedOnce
  <1>. QED
    BY <1>1, <1>2, <1>4, <1>6, <1>7, <1>8

(***************************************************************************)
(* The joined list has every item of every language that answered, at a    *)
(* place of its own.                                                       *)
(***************************************************************************)
Contribution == [k \in Keys |-> IF outcome[k] = "value" THEN value[k].items ELSE <<>>]

LEMMA FlattenPlaces ==
  ASSUME Inv, ListsOK, caller = "ok"
  PROVE  \E at : IsKeyedPlacing(at, Flatten, Contribution, Keys)
  <1> DEFINE S == UNION {Range(value[k].items) : k \in Keys}
  <1>1. Contribution \in [Keys -> Seq(S)]
    <2>1. ASSUME NEW k \in Keys PROVE value[k].items \in Seq(S)
      <3>1. value[k].items \in Seq(Range(value[k].items)) /\ Range(value[k].items) \subseteq S
        BY DEF ListsOK, IsList
      <3>. HIDE DEF S
      <3>. QED
        BY <3>1, SeqMonotonic
    <2>. HIDE DEF S
    <2>2. <<>> \in Seq(S)
      BY EmptySeq
    <2>. QED
      BY <2>1, <2>2 DEF Contribution
  <1>2. \A i \in DOMAIN allResults : ItemsOf(allResults[i]) = Contribution[AllKeys[i]]
    <2>1. ASSUME NEW i \in DOMAIN allResults
          PROVE  allResults[i].key \in Keys /\ allResults[i].outcome = outcome[allResults[i].key]
      <3>1. DOMAIN allResults = 1 .. Len(allResults) /\ allResults[i] \in KeyedResult
        BY LenProperties, ElementOfSeq DEF Inv, Types
      <3>. QED
        BY <3>1, ReceivedOnce DEF KeyedResult
    <2>2. \A i \in DOMAIN allResults : AllKeys[i] = allResults[i].key
      BY AllKeysOnce
    <2>. QED
      BY <2>1, <2>2 DEF ItemsOf, Contribution
  <1> DEFINE seqs == [i \in DOMAIN allResults |-> ItemsOf(allResults[i])]
  <1>3. seqs = [i \in DOMAIN AllKeys |-> seqs[i]] /\ \A i \in DOMAIN AllKeys : seqs[i] = Contribution[AllKeys[i]]
    BY <1>2, AllKeysOnce
  <1>. HIDE DEF S, seqs
  <1>4. \E at : IsKeyedPlacing(at, FlattenSeq(seqs), Contribution, Range(AllKeys))
    BY <1>1, <1>3, AllKeysOnce, KeyedPlacing
  <1>. QED
    BY <1>4, AllKeysOnce DEF Flatten, seqs

(***************************************************************************)
(* symbol_explore matches as many symbols as the languages found of those  *)
(* the call is about.                                                      *)
(***************************************************************************)
RelevantPlaces == UNION {{k} \X Relevant(k) : k \in Answered}

LEMMA RelevantPlace ==
  ASSUME NEW c
  PROVE  c \in RelevantPlaces <=> \E k \in Answered : \E j \in Relevant(k) : c = <<k, j>>
  BY DEF RelevantPlaces

LEMMA MatchCount ==
  ASSUME Inv, ListsOK, FoundOK, caller = "ok", tool = "explore"
  PROVE  /\ Matches \in Seq(Range(Matches)) /\ IsFiniteSet(RelevantPlaces)
         /\ Len(Matches) = Cardinality(RelevantPlaces)
  <1> DEFINE all == Flatten
             n == Len(all)
             matches == [i \in DOMAIN all |-> ToMatch(all[i])]
             file == Resolved[call.context]
             fits == {i \in 1 .. n : call.context = NoContext \/ matches[i].uri = file}
  <1>1. PICK at : IsKeyedPlacing(at, all, Contribution, Keys)
    BY FlattenPlaces
  <1>2. IsList(all) /\ IsList(Matches)
    BY FlattenIsList, MatchesIsList DEF Inv, ListsOK
  <1>3. Matches = IF call.context = NoContext THEN matches ELSE Picked(matches, {i \in DOMAIN matches : matches[i].uri = file})
    BY DEF Matches, InFile
  <1>. HIDE DEF all, file
  <1>4. n \in Nat /\ DOMAIN all = 1 .. n /\ all \in Seq(Range(all))
    BY <1>2, LenProperties DEF IsList
  <1>5. ASSUME NEW i \in 1 .. n
        PROVE  /\ at[i] = <<at[i][1], at[i][2]>> /\ at[i][1] \in Answered
               /\ at[i][2] \in DOMAIN value[at[i][1]].items
               /\ all[i] = value[at[i][1]].items[at[i][2]]
               /\ ToMatch(all[i]).uri = all[i].uri
    <2>1. at[i] \in Keys \X Nat
      BY <1>1 DEF IsKeyedPlacing
    <2>2. at[i] = <<at[i][1], at[i][2]>> /\ at[i][1] \in Keys
      BY <2>1
    <2>3. at[i][2] \in 1 .. Len(Contribution[at[i][1]]) /\ all[i] = Contribution[at[i][1]][at[i][2]]
      BY <1>1 DEF IsKeyedPlacing
    <2>4. outcome[at[i][1]] = "value"
      BY <2>2, <2>3 DEF Contribution
    <2>5. Contribution[at[i][1]] = value[at[i][1]].items
      BY <2>2, <2>4 DEF Contribution
    <2>6. DOMAIN value[at[i][1]].items = 1 .. Len(value[at[i][1]].items)
      BY <2>2, LenProperties DEF ListsOK, IsList
    <2>7. at[i][1] \in Answered /\ at[i][2] \in DOMAIN value[at[i][1]].items
          /\ all[i] = value[at[i][1]].items[at[i][2]]
      BY <2>2, <2>3, <2>4, <2>5, <2>6 DEF Answered
    <2>8. IsSymbol(all[i])
      BY <2>2, <2>7 DEF FoundOK
    <2>9. ToMatch(all[i]).uri = all[i].uri
      <3>1. \A s : IsSymbol(s) => [s EXCEPT !.from = Position(0, 0), !.to = Position(0, 0)].uri = s.uri
        BY DEF IsSymbol
      <3>. QED
        BY <2>8, <3>1, Zenon DEF ToMatch
    <2>. QED
      BY <2>2, <2>7, <2>9
  <1>6. ASSUME NEW i \in 1 .. n PROVE matches[i] = ToMatch(all[i]) /\ matches[i].uri = all[i].uri
    BY <1>4, <1>5
  <1>7. DOMAIN matches = 1 .. n /\ matches \in Seq({ToMatch(all[i]) : i \in 1 .. n})
    <2>1. DOMAIN matches = 1 .. n /\ matches \in [1 .. n -> {ToMatch(all[i]) : i \in 1 .. n}]
      BY <1>4
    <2>. HIDE DEF matches, n
    <2>. QED
      BY <1>4, <2>1, SeqDefs
  <1>8. Len(Matches) = Cardinality(fits)
    <2>1. CASE call.context = NoContext
      <3>1. Matches = matches /\ fits = 1 .. n
        BY <1>3, <2>1
      <3>2. Len(matches) = n
        BY <1>4, <1>7, LenProperties
      <3>. HIDE DEF n
      <3>3. Cardinality(1 .. n) = n
        BY <1>4, FS_Interval
      <3>. QED
        BY <3>1, <3>2, <3>3
    <2>2. CASE call.context # NoContext
      <3> DEFINE chosen == {i \in DOMAIN matches : matches[i].uri = file}
      <3>1. Matches = Picked(matches, chosen)
        BY <1>3, <2>2
      <3>2. chosen \intersect DOMAIN matches = fits
        BY <1>7, <2>2
      <3>. HIDE DEF matches, chosen, fits, n
      <3>3. Len(Picked(matches, chosen)) = Cardinality(chosen \intersect DOMAIN matches)
        BY <1>7, PickedHolds
      <3>. QED
        BY <3>1, <3>2, <3>3
    <2>. QED
      BY <2>1, <2>2
  <1>9. ASSUME NEW c \in RelevantPlaces
        PROVE  \E k \in Keys : \E j \in 1 .. Len(Contribution[k]) : c = <<k, j>>
    <2>1. PICK k \in Answered : \E j \in Relevant(k) : c = <<k, j>>
      BY RelevantPlace
    <2>2. PICK j \in Relevant(k) : c = <<k, j>>
      BY <2>1
    <2>3. k \in Keys /\ Contribution[k] = value[k].items
      BY DEF Answered, Contribution
    <2>4. j \in 1 .. Len(value[k].items)
      BY <2>3, LenProperties DEF Relevant, ListsOK, IsList
    <2>. QED
      BY <2>2, <2>3, <2>4
  <1>10. ASSUME NEW i \in 1 .. n PROVE at[i] \in RelevantPlaces <=> i \in fits
    <2>1. at[i] \in RelevantPlaces <=> at[i][2] \in Relevant(at[i][1])
      <3>1. at[i] = <<at[i][1], at[i][2]>> /\ at[i][1] \in Answered
        BY <1>5
      <3>2. ASSUME at[i] \in RelevantPlaces PROVE at[i][2] \in Relevant(at[i][1])
        <4>1. PICK k \in Answered : \E j \in Relevant(k) : at[i] = <<k, j>>
          BY <3>2, RelevantPlace
        <4>2. PICK j \in Relevant(k) : at[i] = <<k, j>>
          BY <4>1
        <4>. QED
          BY <4>2
      <3>3. at[i][2] \in Relevant(at[i][1]) => at[i] \in RelevantPlaces
        BY <3>1, RelevantPlace
      <3>. QED
        BY <3>2, <3>3
    <2>2. at[i][2] \in Relevant(at[i][1]) <=> (call.context = NoContext \/ all[i].uri = file)
      BY <1>5 DEF Relevant, file
    <2>3. i \in fits <=> (call.context = NoContext \/ matches[i].uri = file)
      OBVIOUS
    <2>. QED
      BY <1>6, <2>1, <2>2, <2>3
  <1>11. fits = {i \in 1 .. n : at[i] \in RelevantPlaces}
    <2>1. fits \subseteq 1 .. n
      OBVIOUS
    <2>. HIDE DEF fits
    <2>. QED
      BY <1>10, <2>1
  <1>. HIDE DEF fits, matches
  <1>12. IsFiniteSet(RelevantPlaces) /\ Cardinality(RelevantPlaces) = Cardinality({i \in 1 .. n : at[i] \in RelevantPlaces})
    BY <1>1, <1>4, <1>9, KeyedCount
  <1>. QED
    BY <1>2, <1>8, <1>11, <1>12 DEF IsList

LEMMA SymbolTotals ==
  ASSUME ListsOK, NEW list, IsList(list)
  PROVE  LET page == SymbolResponse(list)
         IN /\ page.kind \in {"page", "contents"} => page.total = Len(list)
            /\ page.kind = "empty" => list = <<>>
  <1> DEFINE page == SymbolResponse(list)
             Contents == call.offset < Len(list) /\ (call.detail = "basic" \/ call.limit <= 0)
  <1>0. Len(list) \in Nat /\ call.offset \in Int /\ call.limit \in Int
    BY LenProperties DEF ListsOK, IsCall, IsList
  <1>1. CASE list = <<>>
    <2>1. page.kind = "empty"
      BY <1>1 DEF SymbolResponse, Says, Response
    <2>. QED
      BY <1>1, <2>1
  <1>2. ASSUME NEW offset \in Int, NEW limit \in Int, page = Page(list, offset, limit)
        PROVE  (page.kind \in {"page", "contents"} => page.total = Len(list)) /\ page.kind # "empty"
    <2>1. IsPage(list, offset, limit, page)
      BY <1>2, PageFollows
    <2>. HIDE DEF page
    <2>. QED
      BY <2>1 DEF IsPage
  <1>3. CASE list # <<>> /\ Len(list) <= 3
    <2>1. page = Page(list, 0, 3)
      BY <1>3 DEF SymbolResponse
    <2>. QED
      BY <1>2, <2>1
  <1>4. CASE list # <<>> /\ Len(list) > 3 /\ Contents
    <2>1. page = Response("contents", Len(list), <<>>, 0)
      BY <1>0, <1>4 DEF SymbolResponse
    <2>. QED
      BY <2>1 DEF Response
  <1>5. CASE list # <<>> /\ Len(list) > 3 /\ ~Contents
    <2>1. page = Page(list, call.offset, call.limit)
      BY <1>0, <1>5 DEF SymbolResponse
    <2>. QED
      BY <1>0, <1>2, <2>1
  <1>. QED
    BY <1>0, <1>1, <1>3, <1>4, <1>5

LEMMA ExploreCounts ==
  ASSUME Inv, ListsOK, FoundOK, caller = "ok", tool = "explore",
         Explore \/ ExploreNothing
  PROVE  ExploreComplete'
  <1>1. UNCHANGED <<outcome, value, call, tool, caller>>
    BY DEF Explore, ExploreNothing, AnswerOnly, Answer, vars
  <1>2. Answered' = Answered /\ \A k : Relevant(k)' = Relevant(k)
    BY <1>1 DEF Answered, Relevant
  <1>3. Total(Relevant)' = Cardinality(RelevantPlaces)
    BY <1>2 DEF Total, RelevantPlaces
  <1>4. /\ Matches \in Seq(Range(Matches)) /\ IsFiniteSet(RelevantPlaces)
        /\ Len(Matches) = Cardinality(RelevantPlaces)
    BY MatchCount
  <1>5. Matches = <<>> => \A k \in Answered : Relevant(k) = {}
    <2>1. Matches = <<>> => RelevantPlaces = {}
      BY <1>4, FS_EmptySet
    <2>2. \A k \in Answered : \A j \in Relevant(k) : <<k, j>> \in RelevantPlaces
      BY RelevantPlace
    <2>. QED
      BY <2>1, <2>2
  <1>6. CASE ExploreNothing
    <2>1. response' = Says("empty") /\ Flatten = <<>>
      BY <1>6 DEF ExploreNothing, AnswerOnly, Answer
    <2>2. response'.kind = "empty"
      BY <2>1 DEF Says, Response
    <2>3. PICK at : IsKeyedPlacing(at, Flatten, Contribution, Keys)
      BY FlattenPlaces
    <2>4. ASSUME NEW k \in Answered PROVE Relevant(k) = {}
      <3>1. k \in Keys /\ Contribution[k] = value[k].items
        BY DEF Answered, Contribution
      <3>2. Len(Flatten) = 0
        BY <2>1
      <3>3. \A j \in 1 .. Len(value[k].items) : FALSE
        BY <2>3, <3>1, <3>2 DEF IsKeyedPlacing
      <3>4. DOMAIN value[k].items = 1 .. Len(value[k].items)
        BY <3>1, LenProperties DEF ListsOK, IsList
      <3>. QED
        BY <3>3, <3>4 DEF Relevant
    <2>. QED
      BY <1>2, <2>2, <2>4 DEF ExploreComplete
  <1>7. CASE Explore
    <2> DEFINE page == SymbolResponse(Matches)
    <2>1. response' = [ kind |-> page.kind, total |-> page.total, items |-> page.items, next |-> page.next,
                        contents |-> TableOfContents(Matches) ]
      BY <1>7 DEF Explore
    <2>2. response'.kind = page.kind /\ response'.total = page.total /\ response'.contents = TableOfContents(Matches)
      <3>. HIDE DEF page
      <3>. QED
        BY <2>1
    <2>3. /\ page.kind \in {"page", "contents"} => page.total = Len(Matches)
          /\ page.kind = "empty" => Matches = <<>>
      BY <1>4, SymbolTotals DEF IsList
    <2>4. TableOfContents(Matches) = Matches \/ TableOfContents(Matches) = <<>>
      BY DEF TableOfContents
    <2>. HIDE DEF page
    <2>5. response'.kind \in {"page", "contents"} => response'.total = Cardinality(RelevantPlaces)
      BY <1>4, <2>2, <2>3
    <2>6. response'.contents # <<>> => Len(response'.contents) = Cardinality(RelevantPlaces)
      BY <1>4, <2>2, <2>4
    <2>7. response'.kind = "empty" => \A k \in Answered : Relevant(k) = {}
      BY <1>5, <2>2, <2>3
    <2>. QED
      BY <1>2, <1>3, <2>5, <2>6, <2>7 DEF ExploreComplete
  <1>. QED
    BY <1>6, <1>7

-----------------------------------------------------------------------------
(***************************************************************************)
(* workspace_diagnostics: the results of the languages that ended one way  *)
(* have each of these languages once.                                      *)
(***************************************************************************)
LEMMA ResultsOnce ==
  ASSUME Inv, caller = "ok", NEW o
  PROVE  LET list == Picked(allResults, Ended(o))
         IN /\ list \in Seq(KeyedResult)
            /\ \A i \in 1 .. Len(list) : list[i].key \in Keys /\ outcome[list[i].key] = o
            /\ \A i, j \in 1 .. Len(list) : list[i].key = list[j].key => i = j
            /\ \A k \in Keys : outcome[k] = o => \E i \in 1 .. Len(list) : list[i].key = k
  <1> DEFINE list == Picked(allResults, Ended(o))
             goal == Ended(o) \intersect DOMAIN allResults
  <1>1. allResults \in Seq(KeyedResult) /\ DOMAIN allResults = 1 .. Len(allResults)
        /\ \A i \in 1 .. Len(allResults) : allResults[i] \in KeyedResult
    BY LenProperties, ElementOfSeq DEF Inv, Types
  <1>2. list \in Seq(KeyedResult)
    BY <1>1, PickedPlacing
  <1>3. PICK at : IsPicking(at, list, allResults, goal)
    BY <1>1, PickedPlacing
  <1>4. \A n \in goal : n \in 1 .. Len(allResults) /\ allResults[n].outcome = o
    BY <1>1 DEF Ended
  <1>5. \A n \in 1 .. Len(allResults) : allResults[n].outcome = o => n \in goal
    BY <1>1 DEF Ended
  <1>. HIDE DEF list, goal
  <1>6. ASSUME NEW i \in 1 .. Len(list)
        PROVE  at[i] \in goal /\ list[i] = allResults[at[i]] /\ at[i] \in 1 .. Len(allResults)
    BY <1>3, <1>4 DEF IsPicking
  <1>7. ASSUME NEW i \in 1 .. Len(list) PROVE list[i].key \in Keys /\ outcome[list[i].key] = o
    <2>1. list[i] \in KeyedResult /\ list[i].outcome = o /\ list[i].outcome = outcome[list[i].key]
      BY <1>1, <1>4, <1>6, ReceivedOnce
    <2>. QED
      BY <2>1 DEF KeyedResult
  <1>8. ASSUME NEW i \in 1 .. Len(list), NEW j \in 1 .. Len(list), list[i].key = list[j].key PROVE i = j
    <2>1. at[i] \in 1 .. Len(allResults) /\ at[j] \in 1 .. Len(allResults)
      BY <1>6
    <2>2. allResults[at[i]].key = allResults[at[j]].key
      BY <1>6, <1>8, Zenon
    <2>3. \A m, n \in 1 .. Len(allResults) : allResults[m].key = allResults[n].key => m = n
      BY ReceivedOnce
    <2>4. at[i] = at[j]
      BY <2>1, <2>2, <2>3, Zenon
    <2>. QED
      BY <1>3, <2>4 DEF IsPicking
  <1>9. ASSUME NEW k \in Keys, outcome[k] = o PROVE \E i \in 1 .. Len(list) : list[i].key = k
    <2>1. PICK n \in 1 .. Len(allResults) : allResults[n].key = k
      BY <1>1, AllKeysOnce DEF Range
    <2>2. n \in goal
      BY <1>5, <1>9, <2>1, ReceivedOnce
    <2>3. PICK i \in 1 .. Len(list) : at[i] = n
      BY <1>3, <2>2 DEF IsPicking
    <2>. QED
      BY <1>6, <2>1, <2>3
  <1>. QED
    BY <1>2, <1>7, <1>8, <1>9 DEF list

(***************************************************************************)
(* The summary counts every diagnostic under one severity.                 *)
(***************************************************************************)
LEMMA DisjointCount ==
  ASSUME NEW S, NEW T, IsFiniteSet(S), IsFiniteSet(T), S \intersect T = {}
  PROVE  IsFiniteSet(S \union T) /\ Cardinality(S \union T) = Cardinality(S) + Cardinality(T)
  <1>1. Cardinality(S) \in Nat /\ Cardinality(T) \in Nat /\ Cardinality(S \intersect T) = 0
    BY FS_CardinalityType, FS_EmptySet
  <1>2. /\ IsFiniteSet(S \union T)
        /\ Cardinality(S \union T) = Cardinality(S) + Cardinality(T) - Cardinality(S \intersect T)
    BY FS_Union
  <1>. QED
    BY <1>1, <1>2

LEMMA SummaryAddsUp ==
  ASSUME NEW list \in Seq(Severities \union {"none"})
  PROVE  LET summary == Summary(list)
         IN Len(list) = summary["error"] + summary["warning"] + summary["information"] + summary["hint"]
  <1> DEFINE summary == Summary(list)
             n == Len(list)
             Of(s) == {i \in DOMAIN list : s = IF list[i] = "none" THEN "error" ELSE list[i]}
             E == Of("error")
             W == Of("warning")
             I == Of("information")
             H == Of("hint")
  <1>1. n \in Nat /\ DOMAIN list = 1 .. n /\ \A i \in 1 .. n : list[i] \in Severities \union {"none"}
    BY LenProperties, ElementOfSeq
  <1>2. /\ summary["error"] = Cardinality(E) /\ summary["warning"] = Cardinality(W)
        /\ summary["information"] = Cardinality(I) /\ summary["hint"] = Cardinality(H)
    BY DEF Summary, Severities
  <1>3. E \subseteq 1 .. n /\ W \subseteq 1 .. n /\ I \subseteq 1 .. n /\ H \subseteq 1 .. n
    BY <1>1
  <1>4. \A i \in 1 .. n : i \in E \/ i \in W \/ i \in I \/ i \in H
    BY <1>1 DEF Severities
  <1>5. E \intersect W = {} /\ (E \union W) \intersect I = {} /\ ((E \union W) \union I) \intersect H = {}
    OBVIOUS
  <1>. HIDE DEF E, W, I, H, n, summary
  <1>6. IsFiniteSet(1 .. n) /\ Cardinality(1 .. n) = n
    BY <1>1, FS_Interval
  <1>7. IsFiniteSet(E) /\ IsFiniteSet(W) /\ IsFiniteSet(I) /\ IsFiniteSet(H)
    BY <1>3, <1>6, FS_Subset
  <1>8. Cardinality(E) \in Nat /\ Cardinality(W) \in Nat /\ Cardinality(I) \in Nat /\ Cardinality(H) \in Nat
        /\ Cardinality({}) = 0
    BY <1>7, FS_CardinalityType, FS_EmptySet
  <1>9. IsFiniteSet(E \union W) /\ Cardinality(E \union W) = Cardinality(E) + Cardinality(W)
    BY <1>5, <1>7, DisjointCount
  <1>10. IsFiniteSet((E \union W) \union I)
         /\ Cardinality((E \union W) \union I) = Cardinality(E) + Cardinality(W) + Cardinality(I)
    BY <1>5, <1>7, <1>9, DisjointCount
  <1>11. Cardinality(((E \union W) \union I) \union H)
         = Cardinality(E) + Cardinality(W) + Cardinality(I) + Cardinality(H)
    BY <1>5, <1>7, <1>10, DisjointCount
  <1>12. ((E \union W) \union I) \union H = 1 .. n
    BY <1>3, <1>4
  <1>13. n = summary["error"] + summary["warning"] + summary["information"] + summary["hint"]
    BY <1>2, <1>6, <1>11, <1>12
  <1>. QED
    BY <1>13 DEF n, summary

LEMMA DiagnosticsOfReports ==
  ASSUME NEW reports, IsList(reports), \A i \in DOMAIN reports : IsReport(reports[i])
  PROVE  ExtractDiagnostics(reports) \in Seq(Severities \union {"none"})
  <1> DEFINE S == Severities \union {"none"}
             n == Len(reports)
             seqs == [i \in DOMAIN reports |-> IF reports[i].form = "full" THEN reports[i].items ELSE <<>>]
  <1>1. n \in Nat /\ DOMAIN reports = 1 .. n
    BY LenProperties DEF IsList
  <1>2. <<>> \in Seq(S)
    BY EmptySeq
  <1>3. \A i \in 1 .. n : seqs[i] \in Seq(S)
    BY <1>1, <1>2 DEF IsReport
  <1>4. seqs \in [1 .. n -> Seq(S)]
    BY <1>1, <1>3
  <1>. HIDE DEF seqs, n, S
  <1>5. seqs \in Seq(Seq(S))
    BY <1>1, <1>4, SeqDefs
  <1>6. FlattenSeq(seqs) \in Seq(S)
    BY <1>5, FlattenIsSeq
  <1>. QED
    BY <1>6 DEF ExtractDiagnostics, seqs, S

LEMMA ExcerptAddsUp ==
  ASSUME NEW S, NEW list \in Seq(S), NEW n \in Nat
  PROVE  Len(Excerpt(list, n).first) + Excerpt(list, n).more = Len(list)
  <1> DEFINE m == Min({n, Len(list)})
  <1>1. Len(list) \in Nat
    BY LenProperties
  <1>2. m = IF n <= Len(list) THEN n ELSE Len(list)
    BY <1>1, MinOfTwo
  <1>. HIDE DEF m
  <1>3. m \in 0 .. Len(list)
    BY <1>1, <1>2
  <1>4. Len(SubSeq(list, 1, m)) = m
    BY <1>1, <1>3
  <1> DEFINE first == SubSeq(list, 1, m)
             more == Len(list) - m
  <1>5. Excerpt(list, n) = [first |-> first, more |-> more]
    BY DEF Excerpt, m
  <1>6. Excerpt(list, n).first = first /\ Excerpt(list, n).more = more
    <2>. HIDE DEF first, more
    <2>. QED
      BY <1>5
  <1>. QED
    BY <1>1, <1>3, <1>4, <1>6

(***************************************************************************)
(* A language that failed is listed under the one category of its error.   *)
(***************************************************************************)
Categories == {"unsupported", "connection", "other"}

LEMMA FailureOnce ==
  ASSUME Inv, caller = "ok", NEW k \in Keys \ Answered
  PROVE  LET failed == Picked(allResults, Ended("error"))
         IN {c \in Categories : \E i \in DOMAIN FailedWith(failed, c) : FailedWith(failed, c)[i].key = k}
            = {Categorize(value[k].cause)}
  <1> DEFINE failed == Picked(allResults, Ended("error"))
             Cause(i) == Categorize(value[failed[i].key].cause)
             chosen(c) == {i \in DOMAIN failed : Cause(i) = c}
  <1>1. /\ failed \in Seq(KeyedResult)
        /\ \A i, j \in 1 .. Len(failed) : failed[i].key = failed[j].key => i = j
        /\ outcome[k] = "error" => \E i \in 1 .. Len(failed) : failed[i].key = k
    BY ResultsOnce
  <1>. HIDE DEF failed
  <1>2. outcome[k] = "error"
    <2>1. PICK n \in 1 .. Len(allResults) : allResults[n].key = k
      <3>1. DOMAIN allResults = 1 .. Len(allResults)
        BY LenProperties DEF Inv, Types
      <3>. QED
        BY <3>1, AllKeysOnce DEF Range
    <2>2. allResults[n] \in KeyedResult /\ allResults[n].outcome = outcome[k]
      BY <2>1, ElementOfSeq, ReceivedOnce DEF Inv, Types
    <2>. QED
      BY <2>2 DEF KeyedResult, Answered
  <1>3. DOMAIN failed = 1 .. Len(failed)
    BY <1>1, LenProperties
  <1>4. ASSUME NEW c \in Categories, NEW i \in DOMAIN FailedWith(failed, c), FailedWith(failed, c)[i].key = k
        PROVE  c = Categorize(value[k].cause)
    <2> DEFINE list == Picked(failed, chosen(c))
    <2>1. FailedWith(failed, c) = list
      BY DEF FailedWith
    <2>2. PICK at : IsPicking(at, list, failed, chosen(c) \intersect DOMAIN failed)
      BY <1>1, PickedPlacing
    <2>3. list \in Seq(KeyedResult)
      BY <1>1, PickedPlacing
    <2>. HIDE DEF list, chosen
    <2>4. i \in 1 .. Len(list)
      BY <2>1, <2>3, LenProperties
    <2>5. at[i] \in chosen(c) /\ list[i] = failed[at[i]]
      BY <2>2, <2>4 DEF IsPicking
    <2>6. failed[at[i]].key = k
      BY <1>4, <2>1, <2>5
    <2>. QED
      BY <2>5, <2>6 DEF chosen
  <1>5. ASSUME NEW c \in Categories, c = Categorize(value[k].cause)
        PROVE  \E i \in DOMAIN FailedWith(failed, c) : FailedWith(failed, c)[i].key = k
    <2> DEFINE list == Picked(failed, chosen(c))
    <2>1. FailedWith(failed, c) = list
      BY DEF FailedWith
    <2>2. PICK at : IsPicking(at, list, failed, chosen(c) \intersect DOMAIN failed)
      BY <1>1, PickedPlacing
    <2>3. list \in Seq(KeyedResult)
      BY <1>1, PickedPlacing
    <2>4. PICK n \in 1 .. Len(failed) : failed[n].key = k
      BY <1>1, <1>2
    <2>5. n \in chosen(c) \intersect DOMAIN failed
      BY <1>3, <1>5, <2>4
    <2>. HIDE DEF list, chosen
    <2>6. PICK i \in 1 .. Len(list) : at[i] = n
      BY <2>2, <2>5 DEF IsPicking
    <2>7. list[i] = failed[n] /\ i \in DOMAIN list
      BY <2>2, <2>3, <2>6, LenProperties DEF IsPicking
    <2>. QED
      BY <2>1, <2>4, <2>7
  <1>6. Categorize(value[k].cause) \in Categories
    BY DEF Categorize, Categories
  <1>7. {c \in Categories : \E i \in DOMAIN FailedWith(failed, c) : FailedWith(failed, c)[i].key = k}
        = {Categorize(value[k].cause)}
    BY <1>4, <1>5, <1>6
  <1>. QED
    BY <1>7 DEF failed

(***************************************************************************)
(* The report accounts for every language and every diagnostic.            *)
(***************************************************************************)
ReportedPlaces == UNION {{k} \X Reported(k) : k \in Answered}

Extracted == [k \in Keys |-> ExtractDiagnostics(value[k].items)]

LEMMA ReportCounts ==
  ASSUME Inv, ListsOK, FoundOK, caller = "ok", tool = "diagnostics", Diagnostics
  PROVE  ReportComplete'
  <1> DEFINE answered == Picked(allResults, Ended("value"))
             failed == Picked(allResults, Ended("error"))
             S == Severities \union {"none"}
             n == Len(answered)
             keys == [i \in DOMAIN answered |-> answered[i].key]
             seqs == [i \in DOMAIN answered |-> ExtractDiagnostics(value[answered[i].key].items)]
             languages == [i \in DOMAIN answered |-> LanguageReport(answered[i].key)]
             summary == Summary(FlattenSeq(seqs))
             errors == [category \in Categories |-> FailedWith(failed, category)]
  <1>1. UNCHANGED <<outcome, value, call, tool, caller>>
    BY DEF Diagnostics, AnswerOnly, Answer, vars
  <1>2. response' = [kind |-> "report", languages |-> languages, summary |-> summary, errors |-> errors]
    BY Zenon DEF Diagnostics, AnswerOnly, Answer, Categories
  <1>3. /\ answered \in Seq(KeyedResult)
        /\ \A i \in 1 .. n : answered[i].key \in Keys /\ outcome[answered[i].key] = "value"
        /\ \A i, j \in 1 .. n : answered[i].key = answered[j].key => i = j
        /\ \A k \in Keys : outcome[k] = "value" => \E i \in 1 .. n : answered[i].key = k
    BY ResultsOnce
  <1>. HIDE DEF answered, failed
  <1>4. n \in Nat /\ DOMAIN answered = 1 .. n
    BY <1>3, LenProperties
  <1>5. /\ keys \in [1 .. n -> Answered] /\ \A i \in 1 .. n : keys[i] = answered[i].key
        /\ \A i, j \in 1 .. n : keys[i] = keys[j] => i = j
        /\ \A k \in Answered : \E i \in 1 .. n : keys[i] = k
    BY <1>3, <1>4 DEF Answered
  <1>6. DOMAIN languages = 1 .. n /\ Len(languages) = n /\ \A i \in 1 .. n : languages[i] = LanguageReport(answered[i].key)
    <2>1. DOMAIN languages = 1 .. n /\ \A i \in 1 .. n : languages[i] = LanguageReport(answered[i].key)
      BY <1>4
    <2>2. languages \in [1 .. n -> {LanguageReport(answered[i].key) : i \in 1 .. n}]
      BY <1>4
    <2>. HIDE DEF languages, n
    <2>3. languages \in Seq({LanguageReport(answered[i].key) : i \in 1 .. n})
      BY <1>4, <2>2, SeqDefs
    <2>4. Len(languages) \in Nat /\ DOMAIN languages = 1 .. Len(languages)
      BY <2>3, LenProperties
    <2>. QED
      BY <1>4, <2>1, <2>4
  <1>7. ASSUME NEW k \in Keys PROVE ExtractDiagnostics(value[k].items) \in Seq(S)
    BY DiagnosticsOfReports DEF ListsOK, FoundOK
  <1>8. Extracted \in [Keys -> Seq(S)] /\ \A k \in Keys : Extracted[k] = ExtractDiagnostics(value[k].items)
    BY <1>7 DEF Extracted
  <1>9. \A i \in 1 .. n : seqs[i] = Extracted[keys[i]]
    BY <1>3, <1>4, <1>5, <1>8
  <1>10. seqs = [i \in DOMAIN keys |-> seqs[i]] /\ DOMAIN keys = 1 .. n
    BY <1>4
  <1>. HIDE DEF keys, seqs, languages, S
  <1>11. keys \in Seq(Keys) /\ Len(keys) = n /\ Range(keys) = Answered
    <2>1. keys \in [1 .. n -> Keys]
      BY <1>5 DEF Answered
    <2>2. keys \in Seq(Keys)
      <3>. HIDE DEF n
      <3>. QED
        BY <1>4, <2>1, SeqDefs
    <2>3. Len(keys) = n
      BY <1>4, <1>10, <2>2, LenProperties
    <2>4. Range(keys) = Answered
      BY <1>5, <1>10 DEF Range
    <2>. QED
      BY <2>2, <2>3, <2>4
  <1>. HIDE DEF n
  <1>12. FlattenSeq(seqs) \in Seq(S) /\ \E at : IsKeyedPlacing(at, FlattenSeq(seqs), Extracted, Range(keys))
    BY <1>5, <1>8, <1>9, <1>10, <1>11, KeyedPlacing
  <1>13. PICK at : IsKeyedPlacing(at, FlattenSeq(seqs), Extracted, Answered)
    BY <1>11, <1>12
  <1>. HIDE DEF summary, errors
  <1>14. Len(languages) = Cardinality(Answered)
    <2>1. n \in Nat
      BY <1>4
    <2>2. keys \in [1 .. n -> Answered]
      BY <1>5
    <2>3. \A i, j \in 1 .. n : keys[i] = keys[j] => i = j
      BY <1>5
    <2>4. \A k \in Answered : \E i \in 1 .. n : keys[i] = k
      BY <1>5
    <2>5. Cardinality(Answered) = n
      BY <2>1, <2>2, <2>3, <2>4, CountOf
    <2>. QED
      BY <1>6, <2>5
  <1>15. ASSUME NEW k \in Answered
         PROVE  \E i \in DOMAIN languages :
                  LET language == languages[i]
                  IN /\ language.key = k
                     /\ Len(language.diagnostics.first) + language.diagnostics.more = Cardinality(Reported(k))
    <2>1. PICK i \in 1 .. n : keys[i] = k
      BY <1>5
    <2>2. k \in Keys /\ languages[i] = LanguageReport(k)
      BY <1>5, <1>6, <2>1 DEF Answered
    <2> DEFINE list == ExtractDiagnostics(value[k].items)
               excerpt == Excerpt(list, 3)
    <2>3. list \in Seq(S)
      BY <1>7, <2>2
    <2>4. languages[i] = [key |-> k, diagnostics |-> excerpt]
      BY <2>2 DEF LanguageReport
    <2>. HIDE DEF list
    <2>5. Len(excerpt.first) + excerpt.more = Len(list)
      BY <2>3, ExcerptAddsUp
    <2>6. Cardinality(Reported(k)) = Len(list)
      <3>1. DOMAIN list = 1 .. Len(list) /\ Len(list) \in Nat
        BY <2>3, LenProperties
      <3> DEFINE m == Len(list)
      <3>2. m \in Nat
        BY <3>1
      <3>. HIDE DEF m
      <3>3. Cardinality(1 .. m) = m
        BY <3>2, FS_Interval
      <3>. QED
        BY <3>1, <3>3 DEF Reported, list, m
    <2>. HIDE DEF excerpt
    <2>7. languages[i].key = k /\ languages[i].diagnostics = excerpt
      BY <2>4
    <2>. QED
      BY <1>6, <2>5, <2>6, <2>7
  <1>16. Cardinality(ReportedPlaces) = summary["error"] + summary["warning"] + summary["information"] + summary["hint"]
    <2> DEFINE all == FlattenSeq(seqs)
    <2>1. Len(all) = summary["error"] + summary["warning"] + summary["information"] + summary["hint"]
      BY <1>12, SummaryAddsUp DEF summary, S
    <2>2. \A c : c \in ReportedPlaces <=> \E k \in Answered : \E j \in Reported(k) : c = <<k, j>>
      BY DEF ReportedPlaces
    <2>3. ASSUME NEW k \in Answered PROVE Reported(k) = 1 .. Len(Extracted[k])
      <3>1. k \in Keys /\ Extracted[k] = ExtractDiagnostics(value[k].items) /\ Extracted[k] \in Seq(S)
        BY <1>8 DEF Answered
      <3>. QED
        BY <3>1, LenProperties DEF Reported
    <2>4. \A c \in ReportedPlaces : \E k \in Answered : \E j \in 1 .. Len(Extracted[k]) : c = <<k, j>>
      BY <2>2, <2>3
    <2>5. all \in Seq(S) /\ IsKeyedPlacing(at, all, Extracted, Answered)
      BY <1>12, <1>13
    <2>. HIDE DEF all
    <2>6. Cardinality(ReportedPlaces) = Cardinality({m \in 1 .. Len(all) : at[m] \in ReportedPlaces})
      <3>. HIDE DEF S, ReportedPlaces
      <3>1. all \in Seq(S)
        BY <2>5
      <3>2. IsKeyedPlacing(at, all, Extracted, Answered)
        BY <2>5
      <3>. QED
        BY <2>4, <3>1, <3>2, KeyedCount
    <2>7. ASSUME NEW m \in 1 .. Len(all) PROVE at[m] \in ReportedPlaces
      <3>1. at[m] \in Answered \X Nat /\ at[m][2] \in 1 .. Len(Extracted[at[m][1]])
        BY <2>5 DEF IsKeyedPlacing
      <3>2. at[m] = <<at[m][1], at[m][2]>> /\ at[m][1] \in Answered
        BY <3>1
      <3>. QED
        BY <2>2, <2>3, <3>1, <3>2
    <2>8. {m \in 1 .. Len(all) : at[m] \in ReportedPlaces} = 1 .. Len(all)
      BY <2>7
    <2> DEFINE size == Len(all)
    <2>9. size \in Nat
      BY <2>5, LenProperties
    <2>. HIDE DEF size
    <2>10. Cardinality(1 .. size) = size
      BY <2>9, FS_Interval
    <2>. QED
      BY <2>1, <2>6, <2>8, <2>10 DEF all, size
  <1>17. ASSUME NEW k \in Keys \ Answered
         PROVE  Cardinality({c \in DOMAIN errors : \E i \in DOMAIN errors[c] : errors[c][i].key = k}) = 1
    <2>1. DOMAIN errors = Categories /\ \A c \in Categories : errors[c] = FailedWith(failed, c)
      BY DEF errors
    <2>2. {c \in DOMAIN errors : \E i \in DOMAIN errors[c] : errors[c][i].key = k}
          = {c \in Categories : \E i \in DOMAIN FailedWith(failed, c) : FailedWith(failed, c)[i].key = k}
      BY <2>1
    <2>3. {c \in Categories : \E i \in DOMAIN FailedWith(failed, c) : FailedWith(failed, c)[i].key = k}
          = {Categorize(value[k].cause)}
      BY FailureOnce DEF failed
    <2>. QED
      BY <2>2, <2>3, FS_Singleton
  <1>18. /\ response'.kind = "report" /\ response'.languages = languages
         /\ response'.summary = summary /\ response'.errors = errors
    BY <1>2
  <1>19. Answered' = Answered /\ \A k : Reported(k)' = Reported(k)
    BY <1>1 DEF Answered, Reported, ExtractDiagnostics
  <1>20. Total(Reported)' = Cardinality(ReportedPlaces)
    BY <1>19 DEF Total, ReportedPlaces
  <1>. HIDE DEF languages, summary, errors
  <1>21. Len(response'.languages) = Cardinality(Answered')
    BY <1>14, <1>18, <1>19
  <1>22. Total(Reported)' = response'.summary["error"] + response'.summary["warning"]
                            + response'.summary["information"] + response'.summary["hint"]
    BY <1>16, <1>18, <1>20
  <1>23. \A k \in Answered' : \E i \in DOMAIN response'.languages :
           LET language == response'.languages[i]
           IN /\ language.key = k
              /\ Len(language.diagnostics.first) + language.diagnostics.more = Cardinality(Reported(k)')
    BY <1>15, <1>18, <1>19
  <1>24. \A k \in Keys \ Answered' :
           Cardinality({c \in DOMAIN response'.errors : \E i \in DOMAIN response'.errors[c] :
                          response'.errors[c][i].key = k}) = 1
    BY <1>17, <1>18, <1>19
  <1>. QED
    BY <1>21, <1>22, <1>23, <1>24 DEF ReportComplete

-----------------------------------------------------------------------------
(***************************************************************************)
(* An answer of another kind accounts for nothing, and what was answered   *)
(* stays true as long as nothing it is about changes.                      *)
(***************************************************************************)
Accounting == {"page", "contents", "empty", "noSymbol", "report"}

LEMMA QuietAnswer ==
  ASSUME response'.kind \notin Accounting
  PROVE  NothingLost'
  BY DEF Accounting, NothingLost, ExploreComplete, ReferencesComplete, ReportComplete

LEMMA KeepsFound ==
  ASSUME FoundOK, UNCHANGED <<tool, value>>
  PROVE  FoundOK'
  BY DEF FoundOK, IsSymbol, IsReport

LEMMA LostOther ==
  ASSUME LostInv, UNCHANGED <<tool, call, value, response, outcome, caller>>,
         phase' = phase \/ phase' \notin {"search", "closed"}
  PROVE  LostInv'
  <1>1. FoundOK'
    BY KeepsFound DEF LostInv
  <1>2. Unanswered'
    BY DEF LostInv, Unanswered
  <1>3. Answered' = Answered /\ (\A k : Relevant(k)' = Relevant(k)) /\ (\A k : Reported(k)' = Reported(k))
    BY DEF Answered, Relevant, Reported, ExtractDiagnostics
  <1>4. Total(Relevant)' = Total(Relevant) /\ Total(Reported)' = Total(Reported)
    <2>1. Total(Relevant)' = Total(Relevant)
      BY <1>3 DEF Total
    <2>2. Total(Reported)' = Total(Reported)
      BY <1>3 DEF Total
    <2>. QED
      BY <2>1, <2>2
  <1>5. ExploreComplete'
    BY <1>3, <1>4 DEF LostInv, NothingLost, ExploreComplete
  <1>6. ReferencesComplete'
    BY <1>3 DEF LostInv, NothingLost, ReferencesComplete
  <1>7. ReportComplete'
    <2> DEFINE NamesAll ==
                 /\ Len(response.languages) = Cardinality(Answered)
                 /\ \A k \in Answered : \E i \in DOMAIN response.languages :
                      LET language == response.languages[i]
                      IN /\ language.key = k
                         /\ Len(language.diagnostics.first) + language.diagnostics.more = Cardinality(Reported(k))
               AddsUp ==
                 Total(Reported) = response.summary["error"] + response.summary["warning"]
                                   + response.summary["information"] + response.summary["hint"]
               NamesFailed ==
                 \A k \in Keys \ Answered :
                   Cardinality({c \in DOMAIN response.errors : \E i \in DOMAIN response.errors[c] :
                                  response.errors[c][i].key = k}) = 1
    <2>1. ReportComplete <=> (response.kind = "report" => NamesAll /\ AddsUp /\ NamesFailed)
      BY Zenon DEF ReportComplete
    <2>2. (ReportComplete <=> (response.kind = "report" => NamesAll /\ AddsUp /\ NamesFailed))'
      BY Zenon DEF ReportComplete
    <2>3. NamesAll => NamesAll'
      BY <1>3
    <2>4. AddsUp => AddsUp'
      BY <1>4
    <2>5. NamesFailed => NamesFailed'
      BY <1>3
    <2>. HIDE DEF NamesAll, AddsUp, NamesFailed
    <2>6. ReportComplete
      BY DEF LostInv, NothingLost
    <2>. QED
      BY <2>1, <2>2, <2>3, <2>4, <2>5, <2>6
  <1>. QED
    BY <1>1, <1>2, <1>5, <1>6, <1>7 DEF LostInv, NothingLost

LEMMA LostBegins ==
  ASSUME NewMap, value' = [k \in Keys |-> Says("none")],
         \/ response' = Says("none") /\ phase' \in {"search", "ask"}
         \/ response' = Says("error") /\ phase' = "idle"
  PROVE  LostInv'
  <1>1. response'.kind \in {"none", "error"} /\ (phase' = "search" => response'.kind = "none") /\ phase' # "closed"
    BY DEF Says, Response
  <1>2. \A k \in Keys : value'[k].items = <<>>
    BY DEF Says, Response
  <1>3. FoundOK'
    BY <1>2 DEF FoundOK
  <1>4. NothingLost'
    BY <1>1, QuietAnswer DEF Accounting
  <1>. QED
    BY <1>1, <1>3, <1>4 DEF LostInv, Unanswered

(***************************************************************************)
(* Every action keeps what the answers account for.                        *)
(***************************************************************************)
LEMMA LostSearch ==
  ASSUME PagesInv, LostInv, NEW k \in Keys, Search(k)
  PROVE  LostInv'
  <1>1. PICK found \in Found(tool) : value' = [value EXCEPT ![k] = found]
    BY DEF Search
  <1>2. phase \in {"search", "closed"} /\ UNCHANGED <<tool, phase, response>>
    BY DEF Search
  <1>3. tool \in Parallel /\ DOMAIN value = Keys /\ IsList(found.items)
    BY <1>1, <1>2, SessionAssumption DEF PagesInv, ListsOK, IsList
  <1>4. \A l \in Keys : value'[l] = IF l = k THEN found ELSE value[l]
    BY <1>1, <1>3
  <1>5. \A i \in DOMAIN found.items : found.items[i] \in Range(found.items)
    BY DEF Range
  <1>6. /\ tool = "explore" => \A i \in DOMAIN found.items : IsSymbol(found.items[i])
        /\ tool = "diagnostics" => \A i \in DOMAIN found.items : IsReport(found.items[i])
    BY <1>1, <1>5, SessionAssumption
  <1>7. FoundOK'
    <2>1. ASSUME tool = "explore", NEW l \in Keys, NEW i \in DOMAIN value'[l].items PROVE IsSymbol(value'[l].items[i])
      BY <1>4, <1>6, <2>1 DEF LostInv, FoundOK
    <2>2. ASSUME tool = "diagnostics", NEW l \in Keys, NEW i \in DOMAIN value'[l].items PROVE IsReport(value'[l].items[i])
      BY <1>4, <1>6, <2>2 DEF LostInv, FoundOK
    <2>. QED
      BY <1>2, <2>1, <2>2 DEF FoundOK, IsSymbol, IsReport
  <1>8. NothingLost'
    BY <1>2, QuietAnswer DEF LostInv, Unanswered, Accounting
  <1>9. Unanswered'
    BY <1>2 DEF LostInv, Unanswered
  <1>. QED
    BY <1>7, <1>8, <1>9 DEF LostInv

LEMMA LostInSearch ==
  ASSUME LostInv, Collect \/ ClientLeaves \/ Abandon \/ \E k \in Keys : SearchSticks(k)
  PROVE  LostInv'
  <1>1. CASE Collect \/ ClientLeaves \/ \E k \in Keys : SearchSticks(k)
    <2>1. phase \in {"search", "closed"} /\ UNCHANGED <<tool, phase, value, response>>
      BY <1>1 DEF Collect, ClientLeaves, SearchSticks, session
    <2>2. NothingLost'
      BY <2>1, QuietAnswer DEF LostInv, Unanswered, Accounting
    <2>. QED
      BY <2>1, <2>2, KeepsFound DEF LostInv, Unanswered
  <1>2. CASE Abandon
    <2>1. response' = Says("error") /\ phase' = "closed" /\ UNCHANGED <<tool, value>>
      BY <1>2 DEF Abandon
    <2>2. response'.kind = "error"
      BY <2>1 DEF Says, Response
    <2>3. NothingLost'
      BY <2>2, QuietAnswer DEF Accounting
    <2>. QED
      BY <2>1, <2>2, <2>3, KeepsFound DEF LostInv, Unanswered
  <1>. QED
    BY <1>1, <1>2

LEMMA LostAnswer ==
  ASSUME LostInv, NEW r, Answer(r),
         \/ r.kind \notin Accounting
         \/ tool \notin {"explore", "references"} /\ r.kind # "report"
         \/ tool = "references" /\ r.kind \notin {"noSymbol", "report"}
  PROVE  LostInv'
  <1>1. response' = r /\ phase' \in {"idle", "crashed"} /\ UNCHANGED <<tool, value>>
    BY DEF Answer
  <1>2. NothingLost'
    BY <1>1 DEF Accounting, NothingLost, ExploreComplete, ReferencesComplete, ReportComplete
  <1>. QED
    BY <1>1, <1>2, KeepsFound DEF LostInv, Unanswered

LEMMA LostExplore ==
  ASSUME Inv, PagesInv, LostInv, Explore \/ ExploreNothing
  PROVE  LostInv'
  <1>1. tool = "explore" /\ caller = "ok" /\ UNCHANGED <<tool, value, caller>> /\ phase' \in {"idle", "ask", "crashed"}
    BY DEF Explore, ExploreNothing, Ready, AnswerOnly, Answer, vars
  <1>2. ExploreComplete'
    BY <1>1, ExploreCounts DEF PagesInv, LostInv
  <1>3. response'.kind # "report"
    <2>1. CASE ExploreNothing
      BY <2>1 DEF ExploreNothing, AnswerOnly, Answer, Says, Response
    <2>2. CASE Explore
      <3> DEFINE page == SymbolResponse(Matches)
      <3>1. response' = [ kind |-> page.kind, total |-> page.total, items |-> page.items, next |-> page.next,
                          contents |-> TableOfContents(Matches) ]
        BY <2>2 DEF Explore
      <3>2. page.kind \in {"empty", "beyond", "panic", "page", "contents"}
        BY DEF SymbolResponse, Page, Says, Response
      <3>. HIDE DEF page
      <3>. QED
        BY <3>1, <3>2
    <2>. QED
      BY <2>1, <2>2
  <1>4. ReferencesComplete' /\ ReportComplete'
    BY <1>1, <1>3 DEF ReferencesComplete, ReportComplete
  <1>. QED
    BY <1>1, <1>2, <1>4, KeepsFound DEF LostInv, NothingLost, Unanswered

LEMMA LostReferences ==
  ASSUME Inv, PagesInv, LostInv, References
  PROVE  LostInv'
  <1>1. tool = "references" /\ caller = "ok"
    BY DEF References, Ready
  <1>2. \A kind : Says(kind).kind = kind
    BY DEF Says, Response
  <1>3. ASSUME AnswerOnly(Says("unsupported")) \/ AnswerOnly(Says("error")) \/ AnswerOnly(Says("noReferences"))
        PROVE  LostInv'
    BY <1>2, <1>3, LostAnswer DEF AnswerOnly, Accounting
  <1>4. ASSUME NEW list, AnswerPage(list, Page(list, call.offset, call.limit)) PROVE LostInv'
    <2> DEFINE page == Page(list, call.offset, call.limit)
    <2>1. page.kind \in {"page", "beyond", "panic"}
      BY DEF Page, Says, Response
    <2>2. Answer(page)
      BY <1>4 DEF AnswerPage
    <2>. HIDE DEF page
    <2>. QED
      BY <1>1, <2>1, <2>2, LostAnswer
  <1>5. ASSUME Flatten = <<>>, AnswerOnly(Says("noSymbol")) PROVE LostInv'
    <2>1. response' = Says("noSymbol") /\ phase' \in {"idle", "crashed"} /\ UNCHANGED <<tool, value, outcome>>
      BY <1>5 DEF AnswerOnly, Answer, vars
    <2>2. response'.kind = "noSymbol"
      BY <1>2, <2>1
    <2>3. PICK at : IsKeyedPlacing(at, Flatten, Contribution, Keys)
      BY <1>1, FlattenPlaces DEF PagesInv
    <2>4. ASSUME NEW k \in Answered PROVE value[k].items = <<>>
      <3>1. k \in Keys /\ Contribution[k] = value[k].items
        BY DEF Answered, Contribution
      <3>2. Len(Flatten) = 0
        BY <1>5
      <3>3. \A j \in 1 .. Len(value[k].items) : FALSE
        BY <2>3, <3>1, <3>2 DEF IsKeyedPlacing
      <3>4. value[k].items \in Seq(Range(value[k].items))
        BY <3>1 DEF PagesInv, ListsOK, IsList
      <3>. QED
        BY <3>3, <3>4
    <2>5. Answered' = Answered
      BY <2>1 DEF Answered
    <2>6. ReferencesComplete'
      BY <2>1, <2>4, <2>5 DEF ReferencesComplete
    <2>7. ExploreComplete' /\ ReportComplete'
      BY <1>1, <2>1, <2>2 DEF ExploreComplete, ReportComplete
    <2>. QED
      BY <2>1, <2>6, <2>7, KeepsFound DEF LostInv, NothingLost, Unanswered
  <1>. QED
    BY <1>3, <1>4, <1>5 DEF References

LEMMA LostDiagnostics ==
  ASSUME Inv, PagesInv, LostInv, Diagnostics
  PROVE  LostInv'
  <1>1. tool = "diagnostics" /\ caller = "ok" /\ phase' \in {"idle", "crashed"} /\ UNCHANGED <<tool, value>>
    BY DEF Diagnostics, Ready, AnswerOnly, Answer
  <1>2. ReportComplete'
    BY <1>1, ReportCounts DEF PagesInv, LostInv
  <1>3. ExploreComplete' /\ ReferencesComplete'
    BY <1>1 DEF ExploreComplete, ReferencesComplete
  <1>. QED
    BY <1>1, <1>2, <1>3, KeepsFound DEF LostInv, NothingLost, Unanswered

LEMMA LostRespond ==
  ASSUME Inv, PagesInv, LostInv, Respond
  PROVE  LostInv'
  <1>1. \A kind : Says(kind).kind = kind
    BY DEF Says, Response
  <1>2. \A kind, n, items : Response(kind, n, items, 0).kind = kind
    BY DEF Response
  <1>3. ASSUME NEW name, AnswerNotFound(name) PROVE LostInv'
    <2> DEFINE r == [kind |-> "notFound", suggestions |-> Suggestions(name)]
    <2>1. Answer(r) /\ r.kind = "notFound"
      BY <1>3 DEF AnswerNotFound
    <2>. HIDE DEF r
    <2>. QED
      BY <2>1, LostAnswer DEF Accounting
  <1>4. ASSUME AnswerOnly(Says("error")) PROVE LostInv'
    BY <1>1, <1>4, LostAnswer DEF AnswerOnly, Accounting
  <1>5. ASSUME tool \notin {"explore", "references"}, NEW list, NEW page,
               page = Page(list, call.offset, call.limit) \/ page = ApplyPagination(list, call.offset, call.limit),
               AnswerPage(list, page)
        PROVE  LostInv'
    <2>1. \A o : Page(list, o, call.limit).kind # "report"
      BY DEF Page, Says, Response
    <2>2. ApplyPagination(list, call.offset, call.limit).kind # "report"
      BY <2>1 DEF ApplyPagination, Says, Response
    <2>3. Answer(page) /\ page.kind # "report"
      BY <1>5, <2>1, <2>2 DEF AnswerPage
    <2>. QED
      BY <1>5, <2>3, LostAnswer
  <1>6. ASSUME tool \notin {"explore", "references"}, AnswerOnly(Says("empty")) PROVE LostInv'
    BY <1>1, <1>6, LostAnswer DEF AnswerOnly
  <1>7. CASE Describe
    <2>1. UNCHANGED <<tool, call, value, response, outcome, caller>> /\ phase' \in {"idle", "ask"}
      BY <1>7 DEF Describe, vars
    <2>. QED
      BY <2>1, LostOther
  <1>8. CASE WorkspaceSymbols \/ DocumentSymbols
    <2>1. tool \notin {"explore", "references"}
      BY <1>8 DEF WorkspaceSymbols, DocumentSymbols
    <2>. QED
      BY <1>4, <1>5, <1>6, <1>8, <2>1 DEF WorkspaceSymbols, DocumentSymbols
  <1>9. CASE Definitions
    <2>1. tool \notin {"explore", "references"}
      BY <1>9 DEF Definitions
    <2>2. ASSUME NEW kind \in {"choose", "definitions"}, NEW n, NEW items, AnswerOnly(Response(kind, n, items, 0))
          PROVE  LostInv'
      <3>1. Answer(Response(kind, n, items, 0)) /\ Response(kind, n, items, 0).kind \notin Accounting
        BY <1>2, <2>2 DEF AnswerOnly, Accounting
      <3>. QED
        BY <3>1, LostAnswer
    <2>. QED
      BY <1>4, <1>6, <1>9, <2>1, <2>2 DEF Definitions
  <1>10. CASE AnalyseFile \/ AnalysePatterns \/ AnalyseWorkspace \/ AnalyseRelationships
    <2>1. \A report : [kind |-> "analysis", report |-> report].kind \notin Accounting
      BY DEF Accounting
    <2>2. ASSUME NEW t, NEW reports, Report(t, reports) PROVE LostInv'
      <3>1. CASE AnswerOnly(Says("error"))
        BY <1>4, <3>1
      <3>2. CASE \E report \in reports : AnswerOnly([kind |-> "analysis", report |-> report])
        BY <2>1, <3>2, LostAnswer DEF AnswerOnly
      <3>. QED
        BY <2>2, <3>1, <3>2 DEF Report
    <2>. QED
      BY <1>10, <2>2 DEF AnalyseFile, AnalysePatterns, AnalyseWorkspace, AnalyseRelationships
  <1>11. CASE ExploreUnknownFile \/ AnalyseUnknownFile
    BY <1>3, <1>11 DEF ExploreUnknownFile, AnalyseUnknownFile
  <1>. QED
    BY <1>7, <1>8, <1>9, <1>10, <1>11, LostExplore, LostReferences, LostDiagnostics DEF Respond

(***************************************************************************)
(* The tools and the map they call: every step of a tool is a step of the  *)
(* map, or begins a new one, or leaves it alone.                           *)
(***************************************************************************)
SessionInv == Inv /\ PagesInv /\ LostInv

LEMMA SessionInitInv == SessionInit => SessionInv
  <1> SUFFICES ASSUME SessionInit PROVE SessionInv
    OBVIOUS
  <1>1. Inv
    BY InitInv DEF SessionInit
  <1>2. IsList(<<>>) /\ Len(<<>>) = 0 /\ ~follows
    BY EmptySeq DEF SessionInit, IsList
  <1>3. \A k \in Keys : IsList(value[k].items)
    BY SaysList DEF SessionInit
  <1>4. IsCall(call)
    BY DEF SessionInit, IsCall
  <1>5. response.kind # "page" /\ phase = "idle"
    BY Saying DEF SessionInit, Quiet
  <1>6. ListsOK
    <2>1. DOMAIN value = Keys /\ listing = <<>> /\ shown = <<>>
      BY DEF SessionInit
    <2>. QED
      BY <1>2, <1>3, <1>4, <1>5, <2>1 DEF ListsOK
  <1>7. LostInv
    <2>1. response.kind = "none" /\ phase = "idle" /\ tool = "none"
      BY DEF SessionInit, Says, Response
    <2>. QED
      BY <2>1 DEF LostInv, FoundOK, Unanswered, NothingLost, ExploreComplete, ReferencesComplete, ReportComplete
  <1>. QED
    BY <1>1, <1>2, <1>6, <1>7 DEF SessionInv, PagesInv, FollowsOK

LEMMA MapSteps ==
  ASSUME Inv, [SessionNext]_allVars
  PROVE  Inv'
  <1>1. CASE NewMap
    BY <1>1, NewMapInv
  <1>2. CASE [Next]_vars
    BY <1>2, NextInv
  <1>3. NewMap \/ [Next]_vars
    <2>1. ASSUME Respond PROVE UNCHANGED vars
      BY <2>1 DEF Respond, ExploreNothing, ExploreUnknownFile, Explore, Describe, References, Diagnostics,
                WorkspaceSymbols, DocumentSymbols, Definitions, AnalyseUnknownFile, AnalyseFile,
                AnalysePatterns, AnalyseWorkspace, AnalyseRelationships, Report,
                AnswerOnly, AnswerNotFound, AnswerPage, Answer
    <2>2. CASE \E t \in Parallel \union Direct : \E c \in Calls(t) : FirstCall(t, c)
      BY <2>2 DEF FirstCall, Begin
    <2>3. CASE NextPage \/ Refuse
      BY <2>3 DEF NextPage, Refuse, Begin
    <2>4. CASE (\E k \in Keys : Search(k) \/ SearchSticks(k) \/ Forward(k)) \/ RequestSticks
      BY <2>4 DEF Search, SearchSticks, RequestSticks, Forward, Next
    <2>5. CASE Collect \/ ClientLeaves \/ Abandon
      BY <2>5 DEF Collect, ClientLeaves, Abandon, Next
    <2>6. CASE Expire \/ UNCHANGED allVars
      BY <2>6 DEF Expire, allVars
    <2>. QED
      BY <2>1, <2>2, <2>3, <2>4, <2>5, <2>6 DEF SessionNext
  <1>. QED
    BY <1>1, <1>2, <1>3

LEMMA SessionSteps ==
  ASSUME SessionInv, [SessionNext]_allVars
  PROVE  SessionInv'
  <1>1. PagesInv /\ Types
    BY DEF SessionInv, Inv
  <1>2. PagesInv'
    <2>1. CASE \E t \in Parallel \union Direct : \E c \in Calls(t) : FirstCall(t, c)
      BY <2>1, FirstCallInv
    <2>2. CASE \E k \in Keys : Search(k)
      BY <1>1, <2>2, SearchInv
    <2>3. CASE (\E k \in Keys : SearchSticks(k) \/ Forward(k)) \/ Collect \/ ClientLeaves \/ Expire \/ UNCHANGED allVars
      <3>1. UNCHANGED <<tool, call, phase, value, response, client>>
        BY <2>3 DEF SearchSticks, Forward, Collect, ClientLeaves, Expire, session, allVars
      <3>. QED
        BY <1>1, <3>1, OtherInv
    <2>. QED
      BY <1>1, <2>1, <2>2, <2>3, NextPageInv, RefuseInv, RequestSticksInv, AbandonInv, RespondInv DEF SessionNext
  <1>3. LostInv'
    <2>0. Inv /\ LostInv
      BY DEF SessionInv
    <2>1. CASE \E t \in Parallel \union Direct : \E c \in Calls(t) : FirstCall(t, c)
      BY <2>1, LostBegins DEF FirstCall, Begin
    <2>2. CASE NextPage
      BY <2>2, LostBegins DEF NextPage, Begin
    <2>3. CASE Refuse
      BY <2>3, LostBegins DEF Refuse
    <2>4. CASE \E k \in Keys : Search(k)
      BY <1>1, <2>0, <2>4, LostSearch
    <2>5. CASE (\E k \in Keys : Forward(k)) \/ RequestSticks \/ Expire \/ UNCHANGED allVars
      <3>1. /\ UNCHANGED <<tool, call, value, response, outcome, caller>>
            /\ phase' = phase \/ phase' = "stuck"
        BY <2>5 DEF Forward, Send, RequestSticks, Expire, session, vars, allVars
      <3>. QED
        BY <2>0, <3>1, LostOther
    <2>6. CASE Collect \/ ClientLeaves \/ Abandon \/ \E k \in Keys : SearchSticks(k)
      BY <2>0, <2>6, LostInSearch
    <2>7. CASE Respond
      BY <1>1, <2>0, <2>7, LostRespond
    <2>. QED
      BY <2>1, <2>2, <2>3, <2>4, <2>5, <2>6, <2>7 DEF SessionNext
  <1>. QED
    BY <1>2, <1>3, MapSteps DEF SessionInv

THEOREM SessionInvariance == SessionSpec => []SessionInv
  BY SessionInitInv, SessionSteps, PTL DEF SessionSpec

(***************************************************************************)
(* Whatever a tool reads of its map when the map has succeeded is          *)
(* complete, in every call of a session, also after a client that left.    *)
(***************************************************************************)
THEOREM SessionMapsComplete == SessionSpec => []CompleteOnSuccess
  BY SessionInvariance, InvComplete, PTL DEF SessionInv

(***************************************************************************)
(* A client that follows a list that stays the same as it is told to sees  *)
(* it once and in order, and gets on with every page, whatever the lists,  *)
(* for any limit it asks with; what it may be told instead is the          *)
(* property's two exceptions.                                              *)
(***************************************************************************)
THEOREM PagesAlwaysComplete == SessionSpec => []PagesComplete
  <1>1. ASSUME PagesInv PROVE PagesComplete
    <2>1. SUFFICES ASSUME follows PROVE PagesComplete
      BY DEF PagesComplete
    <2>2. Len(shown) \in Nat /\ shown = SubSeq(shown, 1, Len(shown))
      BY <1>1, LenProperties, SubSeqFull DEF PagesInv, ListsOK, IsList
    <2>3. Len(shown) <= Len(listing) /\ shown = SubSeq(listing, 1, Len(shown))
      BY <1>1, <2>1 DEF PagesInv, FollowsOK
    <2>4. IsPrefix(shown, listing)
      BY <2>2, <2>3 DEF IsPrefix
    <2>. QED
      BY <1>1, <2>1, <2>4 DEF PagesInv, FollowsOK, Truthful, PagesComplete
  <1>. QED
    BY <1>1, SessionInvariance, PTL DEF SessionInv

(***************************************************************************)
(* A language that fails takes nothing from the others, and a response     *)
(* accounts for all they found, whatever they find, in whatever order they *)
(* end, for any number of languages.                                       *)
(***************************************************************************)
THEOREM NothingEverLost == SessionSpec => []NothingLost
  BY SessionInvariance, PTL DEF SessionInv, LostInv

-----------------------------------------------------------------------------
(***************************************************************************)
(* Where a text lies in a longer one.  Parts that lie one behind the other *)
(* are cut out together.                                                   *)
(***************************************************************************)
\* u lies in K behind its first b elements.
LiesAt(K, b, u) == b + Len(u) <= Len(K) /\ \A j \in 1 .. Len(u) : K[b + j] = u[j]

\* It is cut out of K by its place.
LEMMA LiesIsPart ==
  ASSUME NEW S, NEW K \in Seq(S), NEW b \in Nat, NEW u \in Seq(S), LiesAt(K, b, u)
  PROVE  u = SubSeq(K, b + 1, b + Len(u))
  <1> DEFINE m == Len(u)
  <1>1. m \in Nat /\ b + m <= Len(K) /\ \A j \in 1 .. m : K[b + j] = u[j]
    BY DEF LiesAt
  <1>2. DOMAIN u = 1 .. m
    OBVIOUS
  <1>. HIDE DEF m
  <1>3. /\ SubSeq(K, b + 1, b + m) \in Seq(S) /\ Len(SubSeq(K, b + 1, b + m)) = m
        /\ \A i \in 1 .. m : SubSeq(K, b + 1, b + m)[i] = K[b + i]
    <2>1. m \in Nat /\ b + m <= Len(K)
      BY <1>1
    <2>. QED
      BY <2>1, PartIs
  <1>4. SubSeq(K, b + 1, b + m) = u
    <2> DEFINE v == SubSeq(K, b + 1, b + m)
    <2>. HIDE DEF v
    <2>1. v \in Seq(S) /\ Len(v) = m /\ \A i \in 1 .. m : v[i] = u[i]
      BY <1>1, <1>3 DEF v
    <2>2. v = u
      BY <2>1 DEF m
    <2>. QED
      BY <2>2 DEF v
  <1>. QED
    BY <1>4 DEF m

\* What stands between two others lies behind the first.
LEMMA LiesInFront ==
  ASSUME NEW S, NEW a \in Seq(S), NEW u \in Seq(S), NEW c \in Seq(S), NEW K, K = a \o (u \o c)
  PROVE  K \in Seq(S) /\ LiesAt(K, Len(a), u)
  BY DEF LiesAt

\* Of two that follow each other, both lie where the first does.
LEMMA LiesBoth ==
  ASSUME NEW S, NEW K \in Seq(S), NEW b \in Nat, NEW u \in Seq(S), NEW v \in Seq(S),
         LiesAt(K, b, u), LiesAt(K, b + Len(u), v)
  PROVE  u \o v \in Seq(S) /\ LiesAt(K, b, u \o v) /\ Len(u \o v) = Len(u) + Len(v)
  <1> DEFINE m == Len(u)
             n == Len(v)
             w == u \o v
  <1>1. /\ m \in Nat /\ n \in Nat /\ w \in Seq(S) /\ Len(w) = m + n
        /\ \A j \in 1 .. m : w[j] = u[j]
        /\ \A j \in 1 .. m + n : j > m => w[j] = v[j - m]
    OBVIOUS
  <1>2. /\ (b + m) + n <= Len(K)
        /\ \A j \in 1 .. m : K[b + j] = u[j]
        /\ \A j \in 1 .. n : K[(b + m) + j] = v[j]
    BY DEF LiesAt
  <1>. HIDE DEF m, n, w
  <1>3. Len(K) \in Nat
    OBVIOUS
  <1>4. b + (m + n) <= Len(K)
    BY <1>1, <1>2, <1>3
  <1>5. ASSUME NEW j \in 1 .. m + n PROVE K[b + j] = w[j]
    <2>1. CASE j <= m
      <3>1. j \in 1 .. m
        BY <1>1, <2>1
      <3>. QED
        BY <1>1, <1>2, <3>1
    <2>2. CASE ~(j <= m)
      <3>1. j - m \in 1 .. n /\ (b + m) + (j - m) = b + j /\ j > m
        BY <1>1, <2>2
      <3>2. K[b + j] = v[j - m]
        BY <1>2, <3>1
      <3>. QED
        BY <1>1, <3>1, <3>2
    <2>. QED
      BY <2>1, <2>2
  <1>. QED
    BY <1>1, <1>4, <1>5 DEF LiesAt, w, m, n

\* An end of u, and a beginning of it.
LEMMA LiesEnd ==
  ASSUME NEW S, NEW K \in Seq(S), NEW b \in Nat, NEW u \in Seq(S), LiesAt(K, b, u), NEW c \in 0 .. Len(u)
  PROVE  /\ SubSeq(u, c + 1, Len(u)) \in Seq(S) /\ Len(SubSeq(u, c + 1, Len(u))) = Len(u) - c
         /\ LiesAt(K, b + c, SubSeq(u, c + 1, Len(u)))
  <1> DEFINE m == Len(u)
             v == SubSeq(u, c + 1, m)
  <1>1. v \in Seq(S) /\ Len(v) = m - c /\ \A i \in 1 .. m - c : v[i] = u[c + i]
    BY TwoParts
  <1>2. m \in Nat /\ c \in Nat /\ c <= m /\ b + m <= Len(K) /\ \A j \in 1 .. m : K[b + j] = u[j]
    BY DEF LiesAt
  <1>3. Len(K) \in Nat
    OBVIOUS
  <1>. HIDE DEF m, v
  <1>4. ASSUME NEW i \in 1 .. m - c PROVE K[(b + c) + i] = v[i]
    <2>1. c + i \in 1 .. m /\ b + (c + i) = (b + c) + i
      BY <1>2
    <2>. QED
      BY <1>1, <1>2, <2>1
  <1>5. (b + c) + (m - c) <= Len(K)
    BY <1>2, <1>3
  <1>. QED
    BY <1>1, <1>4, <1>5 DEF LiesAt, m, v

LEMMA LiesBeginning ==
  ASSUME NEW S, NEW K \in Seq(S), NEW b \in Nat, NEW u \in Seq(S), LiesAt(K, b, u), NEW c \in 0 .. Len(u)
  PROVE  SubSeq(u, 1, c) \in Seq(S) /\ Len(SubSeq(u, 1, c)) = c /\ LiesAt(K, b, SubSeq(u, 1, c))
  <1> DEFINE m == Len(u)
             v == SubSeq(u, 1, c)
  <1>1. v \in Seq(S) /\ Len(v) = c /\ \A i \in 1 .. c : v[i] = u[i]
    BY TwoParts
  <1>2. m \in Nat /\ c \in Nat /\ c <= m /\ b + m <= Len(K) /\ \A j \in 1 .. m : K[b + j] = u[j]
    BY DEF LiesAt
  <1>3. Len(K) \in Nat
    OBVIOUS
  <1>. HIDE DEF m, v
  <1>4. \A i \in 1 .. c : i \in 1 .. m
    BY <1>2
  <1>5. b + c <= Len(K)
    BY <1>2, <1>3
  <1>. QED
    BY <1>1, <1>2, <1>4, <1>5 DEF LiesAt, m, v

-----------------------------------------------------------------------------
(***************************************************************************)
(* The text of a file.  With a break in front of its first line as well,   *)
(* every line lies there behind its break, and behind all lines before it; *)
(* the text itself is one character shorter.                               *)
(***************************************************************************)
\* Every line with the break before it, and where a line begins in the text.
Heads(lines) == [i \in DOMAIN lines |-> NewLine \o lines[i]]
Upto(lines, l) == FlattenSeq(SubSeq(Heads(lines), 1, l))
Start(lines, l) == Len(Upto(lines, l))
Between(lines, f, t) == FlattenSeq([i \in 1 .. (t - f - 1) |-> NewLine \o lines[f + 1 + i]])

LEMMA HeadsAre ==
  ASSUME NEW CH, "\n" \in CH, NEW lines \in Seq(Seq(CH))
  PROVE  /\ NewLine \in Seq(CH) /\ Len(NewLine) = 1
         /\ Heads(lines) \in Seq(Seq(CH)) /\ Len(Heads(lines)) = Len(lines) /\ Len(lines) \in Nat
         /\ \A i \in 1 .. Len(lines) :
              /\ lines[i] \in Seq(CH) /\ Heads(lines)[i] \in Seq(CH) /\ Heads(lines)[i] = NewLine \o lines[i]
              /\ Len(Heads(lines)[i]) = Len(lines[i]) + 1
              /\ Heads(lines)[i][1] = "\n"
  <1>1. NewLine \in Seq(CH) /\ Len(NewLine) = 1 /\ NewLine[1] = "\n"
    BY DEF NewLine
  <1>2. DOMAIN lines = 1 .. Len(lines) /\ Len(lines) \in Nat /\ \A i \in 1 .. Len(lines) : lines[i] \in Seq(CH)
    OBVIOUS
  <1>3. DOMAIN Heads(lines) = 1 .. Len(lines) /\ \A i \in 1 .. Len(lines) : Heads(lines)[i] = NewLine \o lines[i]
    BY <1>2 DEF Heads
  <1>4. ASSUME NEW i \in 1 .. Len(lines)
        PROVE  /\ Heads(lines)[i] \in Seq(CH) /\ Len(Heads(lines)[i]) = Len(lines[i]) + 1
               /\ Heads(lines)[i][1] = "\n"
    <2> DEFINE x == lines[i]
    <2>1. x \in Seq(CH) /\ Heads(lines)[i] = NewLine \o x
      BY <1>2, <1>3
    <2>. HIDE DEF x
    <2>2. NewLine \o x \in Seq(CH) /\ Len(NewLine \o x) = Len(x) + 1 /\ (NewLine \o x)[1] = "\n"
      <3>1. /\ NewLine \o x \in Seq(CH) /\ Len(NewLine \o x) = Len(NewLine) + Len(x)
            /\ \A j \in 1 .. Len(NewLine) + Len(x) :
                 (NewLine \o x)[j] = IF j <= Len(NewLine) THEN NewLine[j] ELSE x[j - Len(NewLine)]
        BY <1>1, <2>1, ConcatProperties
      <3>2. Len(x) \in Nat
        BY <2>1
      <3> DEFINE y == NewLine \o x
      <3>. HIDE DEF y
      <3>3. y \in Seq(CH) /\ Len(y) = Len(x) + 1 /\ y[1] = "\n"
        BY <1>1, <3>1, <3>2 DEF y
      <3>. QED
        BY <3>3 DEF y
    <2>. QED
      BY <2>1, <2>2 DEF x
  <1>5. Heads(lines) \in [1 .. Len(lines) -> Seq(CH)]
    <2> DEFINE h == Heads(lines)
    <2>1. h = [i \in 1 .. Len(lines) |-> h[i]]
      BY <1>2 DEF Heads
    <2>. HIDE DEF h
    <2>2. \A i \in 1 .. Len(lines) : h[i] \in Seq(CH)
      BY <1>4 DEF h
    <2>3. h \in [1 .. Len(lines) -> Seq(CH)]
      BY <2>1, <2>2
    <2>. QED
      BY <2>3 DEF h
  <1>6. Heads(lines) \in Seq(Seq(CH)) /\ Len(Heads(lines)) = Len(lines)
    <2>1. Heads(lines) \in Seq(Seq(CH))
      BY <1>2, <1>5, SeqDefs
    <2>. QED
      BY <1>2, <1>3, <2>1, LenProperties
  <1>. QED
    BY <1>1, <1>2, <1>3, <1>4, <1>6

\* The text with a break in front is all lines, each behind a break.
LEMMA TextBehindBreak ==
  ASSUME NEW CH, "\n" \in CH, NEW lines \in Seq(Seq(CH)), Len(lines) # 0
  PROVE  /\ Text(lines) \in Seq(CH)
         /\ FlattenSeq(Heads(lines)) \in Seq(CH) /\ FlattenSeq(Heads(lines)) = NewLine \o Text(lines)
  <1> DEFINE n == Len(lines)
             h == Heads(lines)
             p == [i \in DOMAIN lines |-> IF i = 1 THEN lines[i] ELSE NewLine \o lines[i]]
  <1>1. /\ NewLine \in Seq(CH) /\ h \in Seq(Seq(CH)) /\ Len(h) = n /\ n \in Nat /\ n # 0
        /\ \A i \in 1 .. n : lines[i] \in Seq(CH) /\ h[i] \in Seq(CH) /\ h[i] = NewLine \o lines[i]
    BY HeadsAre
  <1>2. DOMAIN lines = 1 .. n
    OBVIOUS
  <1>3. p = [i \in 1 .. n |-> p[i]] /\ \A i \in 1 .. n : p[i] = IF i = 1 THEN lines[i] ELSE h[i]
    BY <1>1, <1>2
  <1>4. Text(lines) = FlattenSeq(p)
    BY DEF Text
  <1>. HIDE DEF n, h, p
  <1>5. p \in [1 .. n -> Seq(CH)]
    BY <1>1, <1>3
  <1>6. p \in Seq(Seq(CH)) /\ Len(p) = n
    <2>1. p \in Seq(Seq(CH))
      BY <1>1, <1>5, SeqDefs
    <2>. QED
      BY <1>1, <1>5, <2>1, LenProperties
  <1>7. 1 \in 1 .. n /\ 0 \in 0 .. n /\ 0 < n
    BY <1>1
  <1>8. /\ FlattenSeq(SubSeq(p, 2, n)) \in Seq(CH)
        /\ FlattenSeq(p) = p[1] \o FlattenSeq(SubSeq(p, 2, n))
    <2>1. /\ FlattenSeq(SubSeq(p, 0 + 2, Len(p))) \in Seq(CH)
          /\ FlattenSeq(SubSeq(p, 0 + 1, Len(p))) = p[0 + 1] \o FlattenSeq(SubSeq(p, 0 + 2, Len(p)))
      BY <1>6, <1>7, FlattenFirst
    <2>2. SubSeq(p, 1, Len(p)) = p
      BY <1>6, SubSeqFull
    <2>3. 0 + 2 = 2 /\ 0 + 1 = 1
      OBVIOUS
    <2>. QED
      BY <1>6, <2>1, <2>2, <2>3, Zenon
  <1>9. FlattenSeq(h) = h[1] \o FlattenSeq(SubSeq(h, 2, n))
    <2>1. FlattenSeq(SubSeq(h, 0 + 1, Len(h))) = h[0 + 1] \o FlattenSeq(SubSeq(h, 0 + 2, Len(h)))
      BY <1>1, <1>7, FlattenFirst
    <2>2. SubSeq(h, 1, Len(h)) = h
      BY <1>1, SubSeqFull
    <2>3. 0 + 2 = 2 /\ 0 + 1 = 1
      OBVIOUS
    <2>. QED
      BY <1>1, <2>1, <2>2, <2>3, Zenon
  <1>10. SubSeq(p, 2, n) = SubSeq(h, 2, n)
    <2> DEFINE s == SubSeq(p, 2, n)
               t == SubSeq(h, 2, n)
    <2>1. s \in Seq(Seq(CH)) /\ Len(s) = n - 1 /\ \A i \in 1 .. n - 1 : s[i] = p[1 + i]
      BY <1>1, <1>6, <1>7, TwoParts
    <2>2. t \in Seq(Seq(CH)) /\ Len(t) = n - 1 /\ \A i \in 1 .. n - 1 : t[i] = h[1 + i]
      BY <1>1, <1>7, TwoParts
    <2>. HIDE DEF s, t
    <2>3. \A i \in 1 .. n - 1 : p[1 + i] = h[1 + i]
      BY <1>1, <1>3
    <2>4. \A i \in 1 .. n - 1 : s[i] = t[i]
      BY <2>1, <2>2, <2>3, Zenon
    <2>5. s = t
      <3> DEFINE Z == Seq(CH)
      <3>1. s \in Seq(Z) /\ t \in Seq(Z) /\ Len(s) = Len(t) /\ \A i \in 1 .. Len(s) : s[i] = t[i]
        BY <2>1, <2>2, <2>4, Zenon
      <3>. HIDE DEF Z
      <3>. QED
        BY <3>1, SeqEqual
    <2>. QED
      BY <2>5 DEF s, t
  <1>11. p[1] = lines[1] /\ h[1] = NewLine \o lines[1] /\ lines[1] \in Seq(CH)
    BY <1>1, <1>3, <1>7
  <1> DEFINE r == FlattenSeq(SubSeq(p, 2, n))
  <1>12. r \in Seq(CH) /\ FlattenSeq(p) = lines[1] \o r /\ FlattenSeq(h) = (NewLine \o lines[1]) \o r
    BY <1>8, <1>9, <1>10, <1>11
  <1>. HIDE DEF r
  <1>13. (NewLine \o lines[1]) \o r = NewLine \o (lines[1] \o r) /\ lines[1] \o r \in Seq(CH)
         /\ NewLine \o (lines[1] \o r) \in Seq(CH)
    <2> DEFINE x == lines[1]
    <2>1. x \in Seq(CH)
      BY <1>11
    <2>. HIDE DEF x
    <2>2. (NewLine \o x) \o r = NewLine \o (x \o r) /\ x \o r \in Seq(CH) /\ NewLine \o (x \o r) \in Seq(CH)
      <3>1. NewLine \in Seq(CH) /\ r \in Seq(CH)
        BY <1>1, <1>12
      <3>2. Regroups(CH, NewLine, x, r) /\ x \o r \in Seq(CH)
        BY <2>1, <3>1, RegroupsAll
      <3>3. NewLine \o (x \o r) \in Seq(CH)
        BY <3>1, <3>2, RegroupsAll
      <3>. QED
        BY <3>2, <3>3 DEF Regroups
    <2>. QED
      BY <2>2 DEF x
  <1>. QED
    BY <1>4, <1>12, <1>13 DEF h

\* What lies in the opened text lies one place earlier in the text.
LEMMA OneEarlier ==
  ASSUME NEW CH, "\n" \in CH, NEW T \in Seq(CH), NEW b \in Nat, NEW u \in Seq(CH), LiesAt(NewLine \o T, b + 1, u)
  PROVE  LiesAt(T, b, u)
  <1> DEFINE K == NewLine \o T
  <1>1. NewLine \in Seq(CH) /\ Len(NewLine) = 1
    BY DEF NewLine
  <1>2. Len(T) \in Nat /\ Len(K) = 1 + Len(T) /\ \A j \in 1 .. Len(T) : K[1 + j] = T[j]
    <2>1. /\ Len(K) = Len(NewLine) + Len(T)
          /\ \A j \in 1 .. Len(NewLine) + Len(T) :
               K[j] = IF j <= Len(NewLine) THEN NewLine[j] ELSE T[j - Len(NewLine)]
      BY <1>1, ConcatProperties
    <2>2. Len(T) \in Nat
      OBVIOUS
    <2>. HIDE DEF K
    <2>3. \A j \in 1 .. Len(T) : 1 + j \in 1 .. 1 + Len(T) /\ ~(1 + j <= 1) /\ (1 + j) - 1 = j
      BY <2>2
    <2>. QED
      BY <1>1, <2>1, <2>2, <2>3
  <1>3. (b + 1) + Len(u) <= Len(K) /\ Len(u) \in Nat /\ \A j \in 1 .. Len(u) : K[(b + 1) + j] = u[j]
    BY DEF LiesAt
  <1>. HIDE DEF K
  <1>4. b + Len(u) <= Len(T)
    BY <1>2, <1>3
  <1>5. ASSUME NEW j \in 1 .. Len(u) PROVE T[b + j] = u[j]
    <2>1. b + j \in 1 .. Len(T) /\ 1 + (b + j) = (b + 1) + j
      BY <1>2, <1>3
    <2>. QED
      BY <1>2, <1>3, <2>1
  <1>. QED
    BY <1>4, <1>5 DEF LiesAt

\* A position lies at the start of its line, as many characters on as its column says.
LEMMA OffsetIsStart ==
  ASSUME NEW CH, "\n" \in CH, NEW lines \in Seq(Seq(CH)), NEW l \in Nat, l < Len(lines)
  PROVE  /\ Upto(lines, l) \in Seq(CH) /\ Start(lines, l) \in Nat
         /\ \A at : at.line = l => OffsetOf(lines, at) = Start(lines, l) + Clamped(lines, at)
  <1> DEFINE n == Len(lines)
             h == Heads(lines)
             p == [i \in 1 .. l |-> NewLine \o lines[i]]
             q == SubSeq(h, 1, l)
             Z == Seq(CH)
  <1>1. /\ h \in Seq(Z) /\ Len(h) = n /\ n \in Nat
        /\ \A i \in 1 .. n : h[i] \in Z /\ h[i] = NewLine \o lines[i]
    BY HeadsAre
  <1>2. p = [i \in 1 .. l |-> p[i]] /\ \A i \in 1 .. l : p[i] = NewLine \o lines[i]
    OBVIOUS
  <1>3. n \in Nat /\ l < n
    BY <1>1
  <1>. HIDE DEF n, h, p, Z
  <1>4. l \in 0 .. Len(h) /\ \A i \in 1 .. l : i \in 1 .. n
    BY <1>1, <1>3
  <1>5. q \in Seq(Z) /\ Len(q) = l /\ \A i \in 1 .. l : q[i] = h[i]
    BY <1>1, <1>4, TwoParts
  <1>. HIDE DEF q
  <1>6. \A i \in 1 .. l : p[i] = h[i] /\ p[i] \in Z
    BY <1>1, <1>2, <1>4
  <1>7. p \in [1 .. l -> Z]
    BY <1>2, <1>6
  <1>8. p \in Seq(Z) /\ Len(p) = l
    <2>1. p \in Seq(Z)
      BY <1>7, SeqDefs
    <2>. QED
      BY <1>7, <2>1, LenProperties
  <1>9. p = q
    <2>1. \A i \in 1 .. l : p[i] = q[i]
      BY <1>5, <1>6, Zenon
    <2>. QED
      BY <1>5, <1>8, <2>1, SeqEqual
  <1>10. FlattenSeq(q) \in Seq(CH)
    BY <1>5, FlattenIsSeq DEF Z
  <1>11. Upto(lines, l) = FlattenSeq(q)
    BY DEF Upto, q, h
  <1>12. Upto(lines, l) \in Seq(CH) /\ Start(lines, l) \in Nat
    <2>1. Upto(lines, l) \in Seq(CH)
      BY <1>10, <1>11
    <2>. QED
      BY <2>1 DEF Start
  <1>13. ASSUME NEW at, at.line = l PROVE OffsetOf(lines, at) = Start(lines, l) + Clamped(lines, at)
    BY <1>9, <1>11, <1>13, Zenon DEF OffsetOf, Start, p
  <1>. QED
    BY <1>12, <1>13

\* The opened text is what is before a line, the line behind its break, and the rest.
LEMMA AroundLine ==
  ASSUME NEW CH, "\n" \in CH, NEW lines \in Seq(Seq(CH)), NEW l \in Nat, l < Len(lines)
  PROVE  /\ Upto(lines, l) \in Seq(CH)
         /\ LiesAt(FlattenSeq(Heads(lines)), Start(lines, l), Heads(lines)[l + 1])
  <1> DEFINE h == Heads(lines)
             a == Upto(lines, l)
             u == h[l + 1]
             c == FlattenSeq(SubSeq(h, l + 2, Len(h)))
  <1>1. h \in Seq(Seq(CH)) /\ Len(h) = Len(lines) /\ Len(lines) \in Nat
    BY HeadsAre
  <1>. HIDE DEF h
  <1>2. l \in 0 .. Len(h) /\ l < Len(h)
    BY <1>1
  <1>3. FlattenSeq(h) = FlattenSeq(SubSeq(h, 1, l)) \o FlattenSeq(SubSeq(h, l + 1, Len(h)))
    BY <1>1, <1>2, FlattenSplit
  <1>4. u \in Seq(CH) /\ c \in Seq(CH) /\ FlattenSeq(SubSeq(h, l + 1, Len(h))) = u \o c
    BY <1>1, <1>2, FlattenFirst
  <1>5. a = FlattenSeq(SubSeq(h, 1, l)) /\ a \in Seq(CH) /\ Start(lines, l) = Len(a)
    BY OffsetIsStart DEF Upto, Start, h
  <1>. HIDE DEF a, u, c
  <1>6. FlattenSeq(h) = a \o (u \o c)
    BY <1>3, <1>4, <1>5, Zenon
  <1>7. LiesAt(FlattenSeq(h), Len(a), u)
    BY <1>4, <1>5, <1>6, LiesInFront
  <1>. QED
    BY <1>5, <1>7 DEF a, u, h

\* Every line lies in the text at its start.
LEMMA LineLies ==
  ASSUME NEW CH, "\n" \in CH, NEW lines \in Seq(Seq(CH)), NEW l \in Nat, l < Len(lines)
  PROVE  Text(lines) \in Seq(CH) /\ lines[l + 1] \in Seq(CH) /\ LiesAt(Text(lines), Start(lines, l), lines[l + 1])
  <1> DEFINE h == Heads(lines)
             x == lines[l + 1]
             K == FlattenSeq(h)
             b == Start(lines, l)
  <1>0. l + 1 \in 1 .. Len(lines) /\ Len(lines) # 0
    BY HeadsAre
  <1>1. NewLine \in Seq(CH) /\ Len(NewLine) = 1 /\ x \in Seq(CH) /\ h[l + 1] \in Seq(CH) /\ h[l + 1] = NewLine \o x
    BY <1>0, HeadsAre
  <1>2. LiesAt(K, b, h[l + 1])
    BY AroundLine
  <1>3. b \in Nat
    BY OffsetIsStart
  <1>4. Text(lines) \in Seq(CH) /\ K \in Seq(CH) /\ K = NewLine \o Text(lines)
    BY <1>0, TextBehindBreak
  <1> DEFINE y == h[l + 1]
             T == Text(lines)
  <1>. HIDE DEF h, x, K, b, y, T
  <1>5. y \in Seq(CH) /\ LiesAt(K, b, y) /\ y = NewLine \o x
    BY <1>1, <1>2 DEF y
  <1>6. 1 \in 0 .. Len(y) /\ SubSeq(y, 1 + 1, Len(y)) = x
    <2>0. Len(NewLine \o x) = Len(NewLine) + Len(x) /\ Len(x) \in Nat
      <3>1. NewLine \in Seq(CH) /\ x \in Seq(CH)
        BY <1>1
      <3>2. Len(NewLine \o x) = Len(NewLine) + Len(x)
        BY <3>1, ConcatProperties
      <3>. QED
        BY <3>1, <3>2
    <2>1. Len(y) = Len(NewLine) + Len(x) /\ Len(x) \in Nat
      BY <1>5, <2>0, Zenon
    <2>2. SubSeq(NewLine \o x, 1 + 1, Len(NewLine \o x)) = x
      BY <1>1, CutAt
    <2>. QED
      BY <1>1, <1>5, <2>1, <2>2
  <1>7. LiesAt(K, b + 1, SubSeq(y, 1 + 1, Len(y)))
    BY <1>3, <1>4, <1>5, <1>6, LiesEnd
  <1>8. LiesAt(NewLine \o T, b + 1, x)
    BY <1>4, <1>6, <1>7 DEF T
  <1>9. T \in Seq(CH)
    BY <1>4 DEF T
  <1>10. LiesAt(T, b, x)
    BY <1>1, <1>3, <1>8, <1>9, OneEarlier
  <1>. QED
    BY <1>1, <1>9, <1>10 DEF T, b, x

\* A beginning, and the part behind it, are a longer beginning.
LEMMA FrontJoinsPart ==
  ASSUME NEW S, NEW s \in Seq(S), NEW b \in Nat, NEW m \in Nat, b + m <= Len(s)
  PROVE  SubSeq(s, 1, b) \o SubSeq(s, b + 1, b + m) = SubSeq(s, 1, b + m)
  BY PartIs

\* Between two lines lie the end of the first, the lines between, and a break.
LEMMA MiddleLies ==
  ASSUME NEW CH, "\n" \in CH, NEW lines \in Seq(Seq(CH)), NEW f \in Nat, NEW t \in Nat, f < t, t < Len(lines)
  PROVE  /\ Between(lines, f, t) \in Seq(CH)
         /\ Start(lines, t) = Start(lines, f) + Len(lines[f + 1]) + Len(Between(lines, f, t)) + 1
         /\ LiesAt(Text(lines), Start(lines, f) + Len(lines[f + 1]), Between(lines, f, t))
         /\ LiesAt(Text(lines), Start(lines, f) + Len(lines[f + 1]) + Len(Between(lines, f, t)), NewLine)
  <1> DEFINE n == Len(lines)
             h == Heads(lines)
             Z == Seq(CH)
             m == t - f - 1
             p == [i \in 1 .. m |-> NewLine \o lines[f + 1 + i]]
             q == SubSeq(h, f + 2, t)
             M == Between(lines, f, t)
             K == FlattenSeq(h)
             T == Text(lines)
             a == Start(lines, f)
             x == lines[f + 1]
  <1>1. /\ h \in Seq(Z) /\ Len(h) = n /\ n \in Nat
        /\ \A i \in 1 .. n : h[i] \in Z /\ h[i] = NewLine \o lines[i] /\ h[i][1] = "\n" /\ Len(h[i]) = Len(lines[i]) + 1
    BY HeadsAre
  <1>2. p = [i \in 1 .. m |-> p[i]] /\ \A i \in 1 .. m : p[i] = NewLine \o lines[f + 1 + i]
    OBVIOUS
  <1>3. m \in Nat /\ t = (f + 1) + m /\ f + 2 = (f + 1) + 1 /\ f + 1 \in 1 .. n /\ t + 1 \in 1 .. n /\ f < n /\ t < n
    BY <1>1
  <1>4. M = FlattenSeq(p)
    BY DEF Between
  <1>5. NewLine \in Seq(CH) /\ Len(NewLine) = 1 /\ NewLine[1] = "\n"
    BY HeadsAre DEF NewLine
  <1>6. T \in Seq(CH) /\ K \in Seq(CH) /\ K = NewLine \o T
    <2>1. Len(lines) # 0
      BY <1>3 DEF n
    <2>. QED
      BY <2>1, TextBehindBreak
  <1>7. x \in Seq(CH) /\ a \in Nat
    <2>1. f < Len(lines)
      BY <1>3 DEF n
    <2>. QED
      BY <2>1, LineLies, OffsetIsStart
  <1>. HIDE DEF n, h, Z, m, p, M, K, T, a, x
  <1>8. /\ q \in Seq(Z) /\ Len(q) = m /\ \A i \in 1 .. m : q[i] = h[(f + 1) + i]
        /\ SubSeq(h, 1, f + 1) \o q = SubSeq(h, 1, t)
    <2> DEFINE b == f + 1
    <2>1. b \in Nat /\ b + m <= Len(h) /\ b + m = t /\ b + 1 = f + 2
      BY <1>1, <1>3
    <2>. HIDE DEF b
    <2>2. /\ SubSeq(h, b + 1, b + m) \in Seq(Z) /\ Len(SubSeq(h, b + 1, b + m)) = m
          /\ \A i \in 1 .. m : SubSeq(h, b + 1, b + m)[i] = h[b + i]
      BY <1>1, <1>3, <2>1, PartIs
    <2>3. SubSeq(h, 1, b) \o SubSeq(h, b + 1, b + m) = SubSeq(h, 1, b + m)
      <3>1. h \in Seq(Z) /\ m \in Nat /\ b \in Nat /\ b + m <= Len(h)
        BY <1>1, <1>3, <2>1
      <3>. QED
        BY <3>1, FrontJoinsPart
    <2>. QED
      BY <2>1, <2>2, <2>3, Zenon DEF b, q
  <1>. HIDE DEF q
  <1>9. p = q
    <2>1. \A i \in 1 .. m : (f + 1) + i \in 1 .. n /\ f + 1 + i = (f + 1) + i
      BY <1>1, <1>3
    <2>2. \A i \in 1 .. m : p[i] = q[i] /\ p[i] \in Z
      BY <1>1, <1>2, <1>8, <2>1
    <2>3. p \in [1 .. m -> Z]
      BY <1>2, <2>2
    <2>4. p \in Seq(Z)
      BY <1>3, <2>3, SeqDefs
    <2>5. Len(p) = m
      BY <2>3, <2>4, <1>3, LenProperties
    <2>. QED
      BY <1>8, <2>2, <2>4, <2>5, SeqEqual
  <1>10. M \in Seq(CH) /\ M = FlattenSeq(q)
    <2>1. FlattenSeq(q) \in Seq(CH)
      BY <1>8, FlattenIsSeq DEF Z
    <2>. QED
      BY <1>4, <1>9, <2>1
  <1> DEFINE A == FlattenSeq(SubSeq(h, 1, f + 1))
             c == a + Len(x)
  <1>11. A \in Seq(CH) /\ Len(A) = c + 1
    <2>1. f + 1 \in 1 .. Len(h) /\ (f + 1) - 1 = f
      BY <1>1, <1>3
    <2>2. /\ SubSeq(h, 1, f) \in Seq(Z) /\ h[f + 1] \in Z
          /\ SubSeq(h, 1, f + 1) = Append(SubSeq(h, 1, f), h[f + 1])
      <3>1. /\ SubSeq(h, 1, (f + 1) - 1) \in Seq(Z) /\ h[f + 1] \in Z
            /\ SubSeq(h, 1, f + 1) = Append(SubSeq(h, 1, (f + 1) - 1), h[f + 1])
        BY <1>1, <2>1, FrontAndLast
      <3>. QED
        BY <2>1, <3>1
    <2>3. A = FlattenSeq(SubSeq(h, 1, f)) \o h[f + 1]
      BY <2>2, FlattenAppend DEF Z
    <2>4. Upto(lines, f) \in Seq(CH) /\ Upto(lines, f) = FlattenSeq(SubSeq(h, 1, f)) /\ a = Len(Upto(lines, f))
      <3>1. f < Len(lines)
        BY <1>3 DEF n
      <3>. QED
        BY <3>1, OffsetIsStart DEF Upto, Start, h, a
    <2> DEFINE U == Upto(lines, f)
               y == h[f + 1]
    <2>5. U \in Seq(CH) /\ y \in Seq(CH) /\ A = U \o y /\ a = Len(U) /\ Len(y) = Len(x) + 1
      BY <1>1, <1>3, <2>2, <2>3, <2>4 DEF Z, x
    <2>. HIDE DEF U, y, A
    <2>6. U \o y \in Seq(CH) /\ Len(U \o y) = Len(U) + Len(y)
      BY <2>5, ConcatProperties
    <2>7. Len(A) = a + (Len(x) + 1) /\ A \in Seq(CH)
      BY <2>5, <2>6, Zenon
    <2>8. Len(x) \in Nat
      BY <1>7
    <2>. QED
      BY <1>7, <2>7, <2>8
  <1>12. c \in Nat /\ Len(x) \in Nat
    BY <1>7
  <1>13. LiesAt(K, c + 1, M)
    <2>1. f + 1 \in 0 .. Len(h)
      BY <1>1, <1>3
    <2> DEFINE r == SubSeq(h, (f + 1) + 1, Len(h))
    <2>2. r \in Seq(Z) /\ K = A \o FlattenSeq(r)
      BY <1>1, <2>1, FlattenSplit DEF Z, K
    <2>3. Len(r) = n - (f + 1) /\ \A i \in 1 .. n - (f + 1) : r[i] = h[(f + 1) + i]
      BY <1>1, <2>1, TwoParts
    <2>. HIDE DEF r
    <2>4. m \in 0 .. Len(r) /\ m <= n - (f + 1)
      BY <1>1, <1>3, <2>3
    <2>5. /\ SubSeq(r, 1, m) \in Seq(Z) /\ Len(SubSeq(r, 1, m)) = m
          /\ \A i \in 1 .. m : SubSeq(r, 1, m)[i] = r[i]
      BY <2>2, <2>4, TwoParts
    <2>6. \A i \in 1 .. m : SubSeq(r, 1, m)[i] = q[i]
      <3>1. \A i \in 1 .. m : i \in 1 .. n - (f + 1)
        BY <2>4, <1>1, <1>3
      <3>. QED
        BY <1>8, <2>3, <2>5, <3>1, Zenon
    <2>7. SubSeq(r, 1, m) = q
      BY <1>8, <2>5, <2>6, SeqEqual
    <2>8. /\ SubSeq(r, m + 1, Len(r)) \in Seq(Z)
          /\ FlattenSeq(r) = FlattenSeq(SubSeq(r, 1, m)) \o FlattenSeq(SubSeq(r, m + 1, Len(r)))
      BY <2>2, <2>4, FlattenSplit DEF Z
    <2> DEFINE R == FlattenSeq(SubSeq(r, m + 1, Len(r)))
    <2>9. R \in Seq(CH)
      BY <2>8, FlattenIsSeq DEF Z
    <2>10. K = A \o (M \o R)
      BY <1>10, <2>2, <2>7, <2>8, Zenon
    <2>. HIDE DEF R, A
    <2>11. LiesAt(K, Len(A), M)
      BY <1>10, <1>11, <2>9, <2>10, LiesInFront
    <2>. QED
      BY <1>11, <2>11
  <1>14. Start(lines, t) = c + Len(M) + 1
    <2>1. SubSeq(h, 1, f + 1) \in Seq(Z)
      <3>1. f + 1 \in 0 .. Len(h)
        BY <1>1, <1>3
      <3>. QED
        BY <1>1, <3>1, TwoParts
    <2>2. FlattenSeq(SubSeq(h, 1, f + 1) \o q) = A \o FlattenSeq(q)
      BY <1>8, <2>1, FlattenConcat DEF Z
    <2>3. Upto(lines, t) = A \o M
      BY <1>8, <1>10, <2>2, Zenon DEF Upto, h
    <2>. HIDE DEF A
    <2>4. Len(A \o M) = Len(A) + Len(M)
      BY <1>10, <1>11, ConcatProperties
    <2>5. Len(M) \in Nat
      BY <1>10
    <2>. QED
      BY <1>11, <1>12, <2>3, <2>4, <2>5 DEF Start
  <1>15. LiesAt(K, Start(lines, t), NewLine)
    <2> DEFINE b == Start(lines, t)
               y == h[t + 1]
    <2>1. LiesAt(K, b, y)
      <3>1. t < Len(lines)
        BY <1>3 DEF n
      <3>. QED
        BY <3>1, AroundLine DEF K, h
    <2>2. Len(y) = Len(lines[t + 1]) + 1 /\ y[1] = "\n" /\ Len(lines[t + 1]) \in Nat
      <3>1. lines[t + 1] \in Seq(CH)
        BY <1>3, HeadsAre DEF n
      <3>. QED
        BY <1>1, <1>3, <3>1
    <2>3. b \in Nat
      <3>1. t < Len(lines)
        BY <1>3 DEF n
      <3>. QED
        BY <3>1, OffsetIsStart
    <2>. HIDE DEF b, y
    <2>4. b + Len(y) <= Len(K) /\ \A j \in 1 .. Len(y) : K[b + j] = y[j]
      BY <2>1 DEF LiesAt
    <2>10. Len(K) \in Nat
      <3>1. K \in Seq(CH)
        BY <1>6
      <3>. QED
        BY <3>1
    <2>5. 1 \in 1 .. Len(y)
      BY <2>2
    <2>6. b + 1 <= Len(K)
      BY <2>2, <2>3, <2>4, <2>10
    <2>7. K[b + 1] = "\n"
      BY <2>2, <2>4, <2>5
    <2>8. \A j \in 1 .. 1 : j = 1
      OBVIOUS
    <2>9. LiesAt(K, b, NewLine)
      BY <1>5, <2>6, <2>7, <2>8 DEF LiesAt
    <2>. QED
      BY <2>9 DEF b
  <1>16. LiesAt(T, c, M)
    <2>1. LiesAt(NewLine \o T, c + 1, M)
      BY <1>6, <1>13
    <2>. HIDE DEF c
    <2>. QED
      BY <1>6, <1>10, <1>12, <2>1, OneEarlier
  <1>17. LiesAt(T, c + Len(M), NewLine)
    <2> DEFINE d == c + Len(M)
    <2>1. d \in Nat /\ LiesAt(NewLine \o T, d + 1, NewLine)
      BY <1>6, <1>10, <1>12, <1>14, <1>15
    <2>. HIDE DEF d
    <2>2. LiesAt(T, d, NewLine)
      BY <1>5, <1>6, <2>1, OneEarlier
    <2>. QED
      BY <2>2 DEF d
  <1>. QED
    BY <1>10, <1>14, <1>16, <1>17 DEF a, x, M, T

\* A column of a line, or its end.
Column(x, c) == Min({c, Len(x)})
Cut(x, c, d) == TextFrom(SubSeq(x, 1, Min({d, Len(x)})), c)

\* The part of a line from one column to another, of a text that has the line.
LEMMA CutOfLine ==
  ASSUME NEW S, NEW T \in Seq(S), NEW b \in Nat, NEW x \in Seq(S), LiesAt(T, b, x),
         NEW c \in Nat, NEW d \in Nat, c <= d
  PROVE  Cut(x, c, d) = SubSeq(T, b + Column(x, c) + 1, b + Column(x, d))
  <1> DEFINE n == Len(x)
             e == Min({d, n})
             g == Min({c, n})
             v == SubSeq(x, 1, e)
  <1>1. n \in Nat
    OBVIOUS
  <1>2. e = (IF d <= n THEN d ELSE n) /\ g = (IF c <= n THEN c ELSE n)
    BY <1>1, MinOfTwo
  <1>. HIDE DEF e, g
  <1>3. e \in 0 .. n /\ g \in 0 .. n /\ e \in Nat /\ g \in Nat
    BY <1>1, <1>2
  <1>4. v \in Seq(S) /\ Len(v) = e /\ LiesAt(T, b, v)
    BY <1>3, LiesBeginning
  <1>. HIDE DEF n, v
  <1>5. TextFrom(v, c) = SubSeq(v, c + 1, e)
    BY <1>4 DEF TextFrom
  <1>6. CASE c <= e
    <2>1. g = c /\ c \in 0 .. Len(v)
      BY <1>1, <1>2, <1>3, <1>4, <1>6
    <2> DEFINE u == SubSeq(v, c + 1, Len(v))
               bc == b + c
    <2>2. u \in Seq(S) /\ Len(u) = Len(v) - c /\ LiesAt(T, bc, u)
      BY <1>4, <2>1, LiesEnd
    <2>3. bc \in Nat /\ u = SubSeq(v, c + 1, e)
      BY <1>4
    <2>. HIDE DEF u, bc
    <2>4. u = SubSeq(T, bc + 1, bc + Len(u))
      BY <2>2, <2>3, LiesIsPart
    <2>5. bc + Len(u) = b + e /\ bc = b + g
      BY <1>3, <1>4, <2>1, <2>2 DEF bc
    <2>. QED
      BY <1>5, <2>3, <2>4, <2>5, Zenon DEF e, g, n, v, Column, Cut
  <1>7. CASE ~(c <= e)
    <2>1. g = e /\ e < c + 1 /\ b + e < b + g + 1
      BY <1>1, <1>2, <1>3, <1>7
    <2>2. c + 1 \in Int /\ e \in Int /\ b + g + 1 \in Int /\ b + e \in Int
      BY <1>3
    <2>3. SubSeq(v, c + 1, e) = <<>>
      BY <2>1, <2>2, SubSeqEmpty
    <2>4. SubSeq(T, b + g + 1, b + e) = <<>>
      BY <2>1, <2>2, SubSeqEmpty
    <2>. QED
      BY <1>5, <2>3, <2>4, Zenon DEF e, g, n, v, Column, Cut
  <1>. QED
    BY <1>6, <1>7

\* The end of a line from a column on.
LEMMA EndOfLine ==
  ASSUME NEW S, NEW T \in Seq(S), NEW b \in Nat, NEW x \in Seq(S), LiesAt(T, b, x), NEW c \in Nat
  PROVE  /\ TextFrom(x, c) \in Seq(S)
         /\ b + Column(x, c) \in Nat
         /\ LiesAt(T, b + Column(x, c), TextFrom(x, c))
         /\ b + Column(x, c) + Len(TextFrom(x, c)) = b + Len(x)
  <1> DEFINE n == Len(x)
             g == Min({c, n})
  <1>1. n \in Nat
    OBVIOUS
  <1>2. g = IF c <= n THEN c ELSE n
    BY <1>1, MinOfTwo
  <1>. HIDE DEF g
  <1>3. g \in 0 .. n /\ g \in Nat
    BY <1>1, <1>2
  <1> DEFINE u == SubSeq(x, g + 1, Len(x))
  <1>4. u \in Seq(S) /\ Len(u) = Len(x) - g /\ LiesAt(T, b + g, u)
    BY <1>3, LiesEnd
  <1>5. TextFrom(x, c) = u
    <2>1. CASE c <= n
      BY <1>2, <2>1 DEF TextFrom
    <2>2. CASE ~(c <= n)
      <3>1. g = n /\ n < c + 1 /\ n < g + 1 /\ c + 1 \in Int /\ n \in Int /\ g + 1 \in Int
        BY <1>1, <1>2, <2>2
      <3>2. SubSeq(x, c + 1, n) = <<>> /\ SubSeq(x, g + 1, n) = <<>>
        BY <3>1, SubSeqEmpty
      <3>. QED
        BY <3>2 DEF TextFrom
    <2>. QED
      BY <2>1, <2>2
  <1>. HIDE DEF u
  <1>6. b + g + Len(u) = b + Len(x) /\ b + g \in Nat
    BY <1>1, <1>3, <1>4
  <1>. QED
    BY <1>4, <1>5, <1>6, Zenon DEF g, n, Column

\* The last line, cut before a column, lacks the character before it or nothing.
LEMMA BeginningOfLine ==
  ASSUME NEW S, NEW T \in Seq(S), NEW b \in Nat, NEW x \in Seq(S), LiesAt(T, b, x), NEW d \in Nat
  PROVE  /\ LastLine(x, d) \in Seq(S) /\ LiesAt(T, b, LastLine(x, d))
         /\ \E lost \in {0, 1} : b + Len(LastLine(x, d)) = b + Min({d, Len(x)}) - lost
  <1> DEFINE n == Len(x)
             g == Min({d, n})
             y == LastLine(x, d)
  <1>1. n \in Nat
    OBVIOUS
  <1>2. g = IF d <= n THEN d ELSE n
    BY <1>1, MinOfTwo
  <1>. HIDE DEF g
  <1>3. CASE d > n
    <2>1. y = x /\ g = n
      BY <1>1, <1>2, <1>3 DEF LastLine
    <2>2. b + Len(x) = b + g - 0
      BY <1>1, <2>1
    <2>. HIDE DEF y
    <2>3. y \in Seq(S) /\ LiesAt(T, b, y) /\ b + Len(y) = b + g - 0
      BY <2>1, <2>2
    <2>. QED
      BY <2>3 DEF y, g, n
  <1>4. CASE ~(d > n) /\ d = 0
    <2>1. y = <<>> /\ g = 0
      <3>1. SubSeq(x, 1, d - 1) = <<>>
        <4>1. d - 1 < 1 /\ d - 1 \in Int /\ 1 \in Int
          BY <1>4
        <4>. QED
          BY <4>1, SubSeqEmpty
      <3>. QED
        BY <1>1, <1>2, <1>4, <3>1 DEF LastLine
    <2>2. <<>> \in Seq(S) /\ Len(<<>>) = 0
      OBVIOUS
    <2>3. b + 0 <= Len(T)
      BY <1>1 DEF LiesAt
    <2>4. LiesAt(T, b, <<>>)
      BY <2>2, <2>3 DEF LiesAt
    <2>5. b + 0 = b + g - 0
      BY <2>1
    <2>. HIDE DEF y
    <2>6. y \in Seq(S) /\ LiesAt(T, b, y) /\ b + Len(y) = b + g - 0
      BY <2>1, <2>2, <2>4, <2>5
    <2>. QED
      BY <2>6 DEF y, g, n
  <1>5. CASE ~(d > n) /\ d # 0
    <2>1. y = SubSeq(x, 1, d - 1) /\ g = d /\ d - 1 \in 0 .. Len(x)
      BY <1>1, <1>2, <1>5 DEF LastLine
    <2>. HIDE DEF y
    <2>2. y \in Seq(S) /\ Len(y) = d - 1 /\ LiesAt(T, b, y)
      <3> DEFINE k == d - 1
      <3>1. k \in 0 .. Len(x) /\ y = SubSeq(x, 1, k)
        BY <2>1
      <3>. HIDE DEF k
      <3>2. y \in Seq(S) /\ Len(y) = k /\ LiesAt(T, b, y)
        BY <3>1, LiesBeginning
      <3>. QED
        BY <3>2 DEF k
    <2>3. b + Len(y) = b + g - 1
      BY <2>1, <2>2
    <2>. QED
      BY <2>2, <2>3 DEF y, g, n
  <1>. QED
    BY <1>1, <1>3, <1>4, <1>5

-----------------------------------------------------------------------------
(***************************************************************************)
(* getRangeContent: what it cuts out, on one line or on several, is what   *)
(* lies between the offsets of its positions, but for the last character of *)
(* several lines.                                                          *)
(***************************************************************************)
\* What is cut out of the text between two positions, but for the last character of several lines.
IsTextBetween(lines, from, to, content) ==
  \E lost \in IF from.line = to.line THEN {0} ELSE {0, 1} :
    content = SubSeq(Text(lines), OffsetOf(lines, from) + 1, OffsetOf(lines, to) - lost)

LEMMA OnOneLine ==
  ASSUME NEW CH, "\n" \in CH, NEW lines \in Seq(Seq(CH)), NEW from, NEW to, IsPosition(from), IsPosition(to),
         Legal(lines, from, to), from.line = to.line
  PROVE  IsTextBetween(lines, from, to, RangeContent(lines, from, to, FALSE))
  <1> DEFINE l == from.line
             x == lines[l + 1]
             T == Text(lines)
             b == Start(lines, l)
             c == from.char
             d == to.char
             content == RangeContent(lines, from, to, FALSE)
  <1>1. l \in Nat /\ c \in Nat /\ d \in Nat /\ l < Len(lines) /\ c <= d
    BY DEF IsPosition, Legal
  <1>2. content = Cut(x, c, d)
    BY DEF RangeContent, Cut
  <1>3. T \in Seq(CH) /\ x \in Seq(CH) /\ LiesAt(T, b, x)
    BY <1>1, LineLies
  <1>4. b \in Nat /\ OffsetOf(lines, from) = b + Clamped(lines, from) /\ OffsetOf(lines, to) = b + Clamped(lines, to)
    BY <1>1, OffsetIsStart
  <1>5. Clamped(lines, from) = Min({c, Len(x)}) /\ Clamped(lines, to) = Min({d, Len(x)})
    BY DEF Clamped
  <1> DEFINE e == Min({c, Len(x)})
             g == Min({d, Len(x)})
  <1>6. e \in Nat /\ g \in Nat
    <2>1. Len(x) \in Nat
      BY <1>3
    <2>. QED
      BY <1>1, <2>1, MinOfNat
  <1>. HIDE DEF l, x, T, b, c, d, content
  <1>7. content = SubSeq(T, b + e + 1, b + g)
    <2>1. T \in Seq(CH) /\ x \in Seq(CH) /\ LiesAt(T, b, x) /\ b \in Nat /\ c \in Nat /\ d \in Nat /\ c <= d
      BY <1>1, <1>3, <1>4
    <2>2. Cut(x, c, d) = SubSeq(T, b + Column(x, c) + 1, b + Column(x, d))
      BY <2>1, CutOfLine
    <2>. QED
      BY <1>2, <2>2, Zenon DEF Column
  <1>. HIDE DEF e, g
  <1>8. OffsetOf(lines, from) = b + e /\ OffsetOf(lines, to) = b + g
    BY <1>4, <1>5 DEF e, g
  <1>9. (b + g) - 0 = b + g
    BY <1>4, <1>6
  <1>10. content = SubSeq(T, OffsetOf(lines, from) + 1, OffsetOf(lines, to) - 0)
    BY <1>7, <1>8, <1>9, Zenon
  <1>. QED
    BY <1>10, Zenon DEF IsTextBetween, content, T

\* The end of the first line, the lines between, a break and the beginning of the last.
LEMMA OnSeveralLines ==
  ASSUME NEW CH, "\n" \in CH, NEW lines \in Seq(Seq(CH)), NEW from, NEW to, IsPosition(from), IsPosition(to),
         Legal(lines, from, to), from.line # to.line
  PROVE  IsTextBetween(lines, from, to, RangeContent(lines, from, to, FALSE))
  <1> DEFINE f == from.line
             t == to.line
             c == from.char
             d == to.char
             x == lines[f + 1]
             z == lines[t + 1]
             T == Text(lines)
             b == Start(lines, f)
             bt == Start(lines, t)
             M == Between(lines, f, t)
             u == TextFrom(x, c)
             v == LastLine(z, d)
             content == RangeContent(lines, from, to, FALSE)
             g == Min({c, Len(x)})
             gt == Min({d, Len(z)})
  <1>1. f \in Nat /\ c \in Nat /\ t \in Nat /\ d \in Nat /\ f < Len(lines) /\ t < Len(lines) /\ f < t
    BY DEF IsPosition, Legal
  <1>2. content = ((u \o M) \o NewLine) \o v
    BY DEF RangeContent, Between
  <1>3. T \in Seq(CH) /\ x \in Seq(CH) /\ LiesAt(T, b, x)
    BY <1>1, LineLies
  <1>4. z \in Seq(CH) /\ LiesAt(T, bt, z)
    BY <1>1, LineLies
  <1>5. b \in Nat /\ OffsetOf(lines, from) = b + Clamped(lines, from)
    BY <1>1, OffsetIsStart
  <1>6. bt \in Nat /\ OffsetOf(lines, to) = bt + Clamped(lines, to)
    BY <1>1, OffsetIsStart
  <1>7. Clamped(lines, from) = g /\ Clamped(lines, to) = gt
    BY DEF Clamped
  <1>8. M \in Seq(CH) /\ bt = b + Len(x) + Len(M) + 1
        /\ LiesAt(T, b + Len(x), M) /\ LiesAt(T, b + Len(x) + Len(M), NewLine)
    BY <1>1, MiddleLies
  <1>9. NewLine \in Seq(CH) /\ Len(NewLine) = 1
    BY HeadsAre
  <1>. HIDE DEF f, t, c, d, x, z, T, b, bt, M, content
  <1>10. u \in Seq(CH) /\ b + g \in Nat /\ LiesAt(T, b + g, u) /\ b + g + Len(u) = b + Len(x)
    <2>1. T \in Seq(CH) /\ x \in Seq(CH) /\ LiesAt(T, b, x) /\ b \in Nat /\ c \in Nat
      BY <1>1, <1>3, <1>5
    <2>. QED
      <3>1. /\ TextFrom(x, c) \in Seq(CH) /\ b + Column(x, c) \in Nat
            /\ LiesAt(T, b + Column(x, c), TextFrom(x, c))
            /\ b + Column(x, c) + Len(TextFrom(x, c)) = b + Len(x)
        BY <2>1, EndOfLine
      <3>. QED
        BY <3>1, Zenon DEF Column
  <1>11. /\ v \in Seq(CH) /\ LiesAt(T, bt, v)
         /\ \E lost \in {0, 1} : bt + Len(v) = bt + gt - lost
    BY <1>1, <1>3, <1>4, <1>6, BeginningOfLine
  <1>. HIDE DEF u, v
  <1> DEFINE a == b + g
             uM == u \o M
             uMN == uM \o NewLine
  <1>. HIDE DEF g, gt
  <1>12. a \in Nat /\ LiesAt(T, a, u) /\ LiesAt(T, a + Len(u), M) /\ a + Len(u) = b + Len(x)
    <2>1. a + Len(u) = b + Len(x)
      BY <1>10
    <2>. QED
      BY <1>8, <1>10, <2>1
  <1>. HIDE DEF a
  <1>13. uM \in Seq(CH) /\ LiesAt(T, a, uM) /\ Len(uM) = Len(u) + Len(M)
    BY <1>3, <1>8, <1>10, <1>12, LiesBoth
  <1>. HIDE DEF uM
  <1>14. a + Len(uM) = b + Len(x) + Len(M) /\ Len(u) \in Nat /\ Len(M) \in Nat /\ Len(x) \in Nat
    <2>1. Len(u) \in Nat /\ Len(M) \in Nat /\ Len(x) \in Nat
      BY <1>3, <1>8, <1>10
    <2>. QED
      <3>1. a \in Nat /\ b \in Nat /\ a + Len(u) = b + Len(x)
        BY <1>5, <1>12
      <3>2. a + (Len(u) + Len(M)) = b + Len(x) + Len(M)
        <4> DEFINE i == Len(u)
                   j == Len(M)
                   k == Len(x)
        <4>1. i \in Nat /\ j \in Nat /\ k \in Nat /\ a + i = b + k
          BY <2>1, <3>1
        <4>. HIDE DEF i, j, k
        <4>2. a + (i + j) = b + k + j
          BY <3>1, <4>1
        <4>. QED
          BY <4>2 DEF i, j, k
      <3>3. Len(uM) = Len(u) + Len(M)
        BY <1>13
      <3>4. a + Len(uM) = b + Len(x) + Len(M)
        BY <3>2, <3>3, Zenon
      <3>. QED
        BY <2>1, <3>4, Zenon
  <1>15. uMN \in Seq(CH) /\ LiesAt(T, a, uMN) /\ Len(uMN) = Len(uM) + 1
    <2>1. LiesAt(T, a + Len(uM), NewLine)
      BY <1>8, <1>14
    <2>2. uMN \in Seq(CH) /\ LiesAt(T, a, uMN) /\ Len(uMN) = Len(uM) + Len(NewLine)
      <3>1. /\ T \in Seq(CH) /\ a \in Nat /\ uM \in Seq(CH) /\ NewLine \in Seq(CH)
            /\ LiesAt(T, a, uM) /\ LiesAt(T, a + Len(uM), NewLine)
        BY <1>3, <1>9, <1>12, <1>13, <2>1
      <3>. QED
        BY <3>1, LiesBoth
    <2>. QED
      BY <1>9, <2>2
  <1>. HIDE DEF uMN
  <1>16. a + Len(uMN) = bt
    <2>1. Len(uM) \in Nat
      BY <1>13
    <2>. QED
      <3>1. /\ a \in Nat /\ b \in Nat /\ a + Len(uM) = b + Len(x) + Len(M) /\ bt = b + Len(x) + Len(M) + 1
            /\ Len(M) \in Nat /\ Len(x) \in Nat /\ Len(uMN) = Len(uM) + 1
        BY <1>5, <1>8, <1>12, <1>14, <1>15
      <3>. QED
        BY <2>1, <3>1
  <1>17. content \in Seq(CH) /\ LiesAt(T, a, content) /\ Len(content) = Len(uMN) + Len(v)
    <2>1. content = uMN \o v
      BY <1>2 DEF uMN, uM
    <2>2. LiesAt(T, a + Len(uMN), v)
      BY <1>11, <1>16
    <2>3. uMN \o v \in Seq(CH) /\ LiesAt(T, a, uMN \o v) /\ Len(uMN \o v) = Len(uMN) + Len(v)
      <3>1. /\ T \in Seq(CH) /\ a \in Nat /\ uMN \in Seq(CH) /\ v \in Seq(CH)
            /\ LiesAt(T, a, uMN) /\ LiesAt(T, a + Len(uMN), v)
        BY <1>3, <1>11, <1>12, <1>15, <2>2
      <3>. QED
        BY <3>1, LiesBoth
    <2>. QED
      BY <2>1, <2>3
  <1>18. PICK lost \in {0, 1} : bt + Len(v) = bt + gt - lost
    BY <1>11
  <1>19. a + Len(content) = bt + gt - lost
    <2>1. Len(v) \in Nat /\ Len(uMN) \in Nat
      BY <1>11, <1>15
    <2>. QED
      BY <1>12, <1>16, <1>17, <1>18, <2>1
  <1>20. content = SubSeq(T, a + 1, a + Len(content))
    BY <1>3, <1>12, <1>17, LiesIsPart
  <1>21. OffsetOf(lines, from) = a /\ OffsetOf(lines, to) - lost = bt + gt - lost
    <2>1. gt \in Nat
      <3>1. Len(z) \in Nat
        BY <1>4
      <3>. QED
        BY <1>1, <3>1, MinOfNat DEF gt
    <2>2. OffsetOf(lines, to) = bt + gt /\ (bt + gt) - lost = bt + gt - lost
      BY <1>6, <1>7, <2>1
    <2>. QED
      BY <1>5, <1>7, <2>2, Zenon DEF a
  <1>22. content = SubSeq(T, OffsetOf(lines, from) + 1, OffsetOf(lines, to) - lost)
    BY <1>19, <1>20, <1>21, Zenon
  <1>23. lost \in IF from.line = to.line THEN {0} ELSE {0, 1}
    BY <1>18
  <1>. QED
    BY <1>22, <1>23, Zenon DEF IsTextBetween, content, T

\* A range that is no error is cut out of the text.
LEMMA ContentIsText ==
  ASSUME NEW CH, "\n" \in CH, NEW lines \in Seq(Seq(CH)), NEW from, NEW to, IsPosition(from), IsPosition(to),
         RangeContent(lines, from, to, FALSE) # Error
  PROVE  IsTextBetween(lines, from, to, RangeContent(lines, from, to, FALSE))
  <1>1. Legal(lines, from, to)
    BY DEF RangeContent
  <1>. QED
    BY <1>1, OnOneLine, OnSeveralLines

-----------------------------------------------------------------------------
(***************************************************************************)
(* The order in which an answer of document symbols is searched.  It is    *)
(* defined by recursion over trees; it exists because a symbol has finitely *)
(* many levels below it, and is one, whatever its depth.                   *)
(***************************************************************************)
\* What order makes of the symbols of a level, with what is below them.
Joined(order, s) == FlattenSeq([i \in DOMAIN s |-> <<s[i]>> \o order[s[i].children]])

\* What is joined of lists is a list, and depends on nothing but them.
LEMMA JoinedIsSeq ==
  ASSUME NEW D, NEW s \in Seq(D), NEW order, \A i \in 1 .. Len(s) : order[s[i].children] \in Seq(D)
  PROVE  Joined(order, s) \in Seq(D)
  <1> DEFINE n == Len(s)
             p == [i \in DOMAIN s |-> <<s[i]>> \o order[s[i].children]]
             Z == Seq(D)
  <1>1. n \in Nat /\ DOMAIN s = 1 .. n /\ \A i \in 1 .. n : s[i] \in D
    OBVIOUS
  <1>2. p = [i \in 1 .. n |-> p[i]] /\ \A i \in 1 .. n : p[i] = <<s[i]>> \o order[s[i].children]
    BY <1>1
  <1>3. ASSUME NEW i \in 1 .. n PROVE p[i] \in Z
    <2> DEFINE x == s[i]
               t == order[s[i].children]
    <2>1. x \in D /\ t \in Seq(D) /\ p[i] = <<x>> \o t
      BY <1>1, <1>2
    <2>. HIDE DEF x, t, p
    <2>2. <<x>> \in Seq(D)
      BY <2>1
    <2>3. <<x>> \o t \in Seq(D)
      BY <2>1, <2>2, ConcatProperties
    <2>. QED
      BY <2>1, <2>3
  <1>. HIDE DEF n, p, Z
  <1>4. p \in [1 .. n -> Z]
    BY <1>2, <1>3
  <1>5. p \in Seq(Z)
    BY <1>1, <1>4, SeqDefs
  <1>6. FlattenSeq(p) \in Seq(D)
    BY <1>5, FlattenIsSeq DEF Z
  <1>. QED
    BY <1>6 DEF Joined, p

LEMMA JoinedSame ==
  ASSUME NEW s, NEW order, NEW other, \A i \in DOMAIN s : order[s[i].children] = other[s[i].children]
  PROVE  Joined(order, s) = Joined(other, s)
  <1>1. [i \in DOMAIN s |-> <<s[i]>> \o order[s[i].children]] = [i \in DOMAIN s |-> <<s[i]>> \o other[s[i].children]]
    OBVIOUS
  <1>. QED
    BY <1>1, Zenon DEF Joined

\* The symbols with less than n levels below them, and the lists of them.
Shallow(n) == {s \in DocSymbols : Depth(s) < n}

IsOrder(order, n) ==
  /\ order \in [Seq(Shallow(n)) -> Seq(DocSymbols)]
  /\ \A s \in Seq(Shallow(n)) : order[s] = Joined(order, s)

\* The children of a symbol have a level less.
LEMMA ChildrenShallow ==
  ASSUME NEW n \in Nat, NEW s \in Seq(Shallow(n + 1)), NEW i \in 1 .. Len(s)
  PROVE  s[i].children \in Seq(Shallow(n)) /\ s[i] \in DocSymbols
  <1>1. s[i] \in DocSymbols /\ Depth(s[i]) < n + 1
    <2>1. s[i] \in Shallow(n + 1)
      BY ElementOfSeq
    <2>. QED
      BY <2>1 DEF Shallow
  <1> DEFINE x == s[i]
             E == {c \in DocSymbols : Depth(c) < Depth(x)}
  <1>2. x.children \in Seq(E) /\ Depth(x) \in Nat
    BY <1>1, DocSymbolsAssumption
  <1>3. E \subseteq Shallow(n)
    <2>1. ASSUME NEW c \in E PROVE c \in Shallow(n)
      <3>1. c \in DocSymbols /\ Depth(c) < Depth(x)
        OBVIOUS
      <3>. HIDE DEF x
      <3>2. Depth(c) \in Nat
        BY <3>1, DocSymbolsAssumption
      <3>3. Depth(x) < n + 1
        BY <1>1 DEF x
      <3>4. Depth(c) < n
        BY <1>2, <3>1, <3>2, <3>3
      <3>. QED
        BY <3>1, <3>4 DEF Shallow
    <2>. QED
      BY <2>1
  <1>. HIDE DEF E, x
  <1>4. x.children \in Seq(Shallow(n))
    BY <1>2, <1>3, SeqMonotonic
  <1>. QED
    BY <1>1, <1>4 DEF x

\* Below no levels there is the empty list only.
LEMMA OrderOfNothing == \E order : IsOrder(order, 0)
  <1>1. Shallow(0) = {}
    <2>1. ASSUME NEW s \in Shallow(0) PROVE FALSE
      <3>1. s \in DocSymbols /\ Depth(s) < 0
        BY DEF Shallow
      <3>2. Depth(s) \in Nat
        BY <3>1, DocSymbolsAssumption
      <3>. QED
        BY <3>1, <3>2
    <2>. QED
      BY <2>1
  <1>2. ASSUME NEW s \in Seq(Shallow(0)) PROVE s = <<>>
    <2>1. \A i \in 1 .. Len(s) : FALSE
      <3>1. \A i \in 1 .. Len(s) : s[i] \in Shallow(0)
        BY ElementOfSeq
      <3>. QED
        BY <1>1, <3>1
    <2>2. Len(s) \in Nat
      OBVIOUS
    <2>3. Len(s) = 0
      BY <2>1, <2>2
    <2>. QED
      BY <2>3, EmptySeq
  <1> DEFINE order == [s \in Seq(Shallow(0)) |-> <<>>]
  <1>3. order \in [Seq(Shallow(0)) -> Seq(DocSymbols)]
    BY EmptySeq
  <1>4. ASSUME NEW s \in Seq(Shallow(0)) PROVE order[s] = Joined(order, s)
    <2>1. s = <<>> /\ order[s] = <<>>
      BY <1>2
    <2>. HIDE DEF order
    <2>2. [i \in DOMAIN s |-> <<s[i]>> \o order[s[i].children]] = <<>>
      BY <2>1
    <2>3. FlattenSeq(<<>>) = <<>>
      BY FlattenEmpty
    <2>. QED
      BY <2>1, <2>2, <2>3, Zenon DEF Joined
  <1>. QED
    BY <1>3, <1>4 DEF IsOrder

\* One more level.
LEMMA OrderOfMore ==
  ASSUME NEW n \in Nat, NEW order, IsOrder(order, n)
  PROVE  \E more : IsOrder(more, n + 1)
  <1> DEFINE more == [s \in Seq(Shallow(n + 1)) |-> Joined(order, s)]
             X == Seq(Shallow(n + 1))
  <1>1. \A s \in X : \A i \in 1 .. Len(s) : s[i].children \in Seq(Shallow(n)) /\ s[i] \in DocSymbols
    BY ChildrenShallow
  <1>2. /\ order \in [Seq(Shallow(n)) -> Seq(DocSymbols)]
        /\ \A s \in Seq(Shallow(n)) : order[s] = Joined(order, s)
    BY DEF IsOrder
  <1>3. Seq(Shallow(n)) \subseteq X
    <2>1. Shallow(n) \subseteq Shallow(n + 1)
      <3>1. ASSUME NEW s \in Shallow(n) PROVE s \in Shallow(n + 1)
        <4>1. s \in DocSymbols /\ Depth(s) < n
          BY DEF Shallow
        <4>2. Depth(s) \in Nat
          BY <4>1, DocSymbolsAssumption
        <4>3. Depth(s) < n + 1
          BY <4>1, <4>2
        <4>. QED
          BY <4>1, <4>3 DEF Shallow
      <3>. QED
        BY <3>1
    <2>. QED
      BY <2>1, SeqMonotonic
  <1>4. ASSUME NEW s \in X PROVE Joined(order, s) \in Seq(DocSymbols)
    <2>1. s \in Seq(DocSymbols)
      <3>1. Shallow(n + 1) \subseteq DocSymbols
        BY DEF Shallow
      <3>. QED
        BY <3>1, SeqMonotonic
    <2>2. \A i \in 1 .. Len(s) : order[s[i].children] \in Seq(DocSymbols)
      BY <1>1, <1>2
    <2>. QED
      BY <2>1, <2>2, JoinedIsSeq
  <1>5. more \in [X -> Seq(DocSymbols)] /\ \A s \in X : more[s] = Joined(order, s)
    BY <1>4
  <1>. HIDE DEF more
  <1>6. \A s \in Seq(Shallow(n)) : more[s] = order[s]
    BY <1>2, <1>3, <1>5
  <1>7. ASSUME NEW s \in X PROVE more[s] = Joined(more, s)
    <2>1. DOMAIN s = 1 .. Len(s)
      OBVIOUS
    <2>2. \A i \in DOMAIN s : order[s[i].children] = more[s[i].children]
      BY <1>1, <1>6, <2>1
    <2>. QED
      BY <1>5, <2>2, JoinedSame
  <1>. QED
    BY <1>5, <1>7 DEF IsOrder

\* By induction over the levels.
LEMMA OrderExists ==
  ASSUME NEW n \in Nat
  PROVE  \E order : IsOrder(order, n)
  <1> DEFINE Bad == {m \in Nat : ~\E order : IsOrder(order, m)}
  <1>1. SUFFICES ASSUME n \in Bad PROVE FALSE
    OBVIOUS
  <1>2. PICK m \in Bad : \A k \in Bad : m <= k
    <2>1. Bad \in SUBSET Nat
      OBVIOUS
    <2>. HIDE DEF Bad
    <2>. QED
      BY <1>1, <2>1, LeastElement
  <1>3. m \in Nat /\ ~\E order : IsOrder(order, m)
    OBVIOUS
  <1>4. m # 0
    BY <1>3, OrderOfNothing
  <1>5. m - 1 \in Nat /\ m - 1 \notin Bad /\ (m - 1) + 1 = m
    <2>1. m - 1 \in Nat /\ ~(m <= m - 1) /\ (m - 1) + 1 = m
      BY <1>3, <1>4
    <2>. HIDE DEF Bad
    <2>. QED
      BY <1>2, <2>1
  <1>6. PICK order : IsOrder(order, m - 1)
    BY <1>5
  <1>7. \E more : IsOrder(more, (m - 1) + 1)
    <2> DEFINE k == m - 1
    <2>1. k \in Nat /\ IsOrder(order, k)
      BY <1>5, <1>6
    <2>. HIDE DEF k
    <2>2. \E more : IsOrder(more, k + 1)
      BY <2>1, OrderOfMore
    <2>. QED
      BY <2>2 DEF k
  <1>. QED
    BY <1>3, <1>5, <1>7

\* There is one order of the lists of symbols with less than k levels below them.
LEMMA OrdersAgree ==
  ASSUME NEW order, NEW other, NEW k \in Nat,
         \A s \in Seq(Shallow(k)) : order[s] = Joined(order, s) /\ other[s] = Joined(other, s)
  PROVE  \A s \in Seq(Shallow(k)) : order[s] = other[s]
  <1> DEFINE Differ(m) == m <= k /\ \E s \in Seq(Shallow(m)) : order[s] # other[s]
             Bad == {m \in Nat : Differ(m)}
  <1> HIDE DEF Differ
  <1>1. SUFFICES ASSUME k \in Bad PROVE FALSE
    BY DEF Differ
  <1>2. PICK m \in Bad : \A l \in Bad : m <= l
    <2>1. Bad \in SUBSET Nat
      OBVIOUS
    <2>. HIDE DEF Bad
    <2>. QED
      BY <1>1, <2>1, LeastElement
  <1>3. m \in Nat /\ m <= k
    BY DEF Differ
  <1>4. PICK s \in Seq(Shallow(m)) : order[s] # other[s]
    BY DEF Differ
  <1>5. s \in Seq(Shallow(k))
    <2>1. ASSUME NEW x \in Shallow(m) PROVE x \in Shallow(k)
      <3>1. x \in DocSymbols /\ Depth(x) < m
        BY DEF Shallow
      <3>2. Depth(x) \in Nat
        BY <3>1, DocSymbolsAssumption
      <3>3. Depth(x) < k
        BY <1>3, <3>1, <3>2
      <3>. QED
        BY <3>1, <3>3 DEF Shallow
    <2>2. Shallow(m) \subseteq Shallow(k)
      BY <2>1
    <2>. QED
      BY <2>2, SeqMonotonic
  <1>6. order[s] = Joined(order, s) /\ other[s] = Joined(other, s)
    BY <1>5
  <1>7. DOMAIN s = 1 .. Len(s) /\ Len(s) \in Nat
    OBVIOUS
  <1>8. \A i \in DOMAIN s : order[s[i].children] = other[s[i].children]
    <2>1. CASE m = 0
      <3>1. ASSUME NEW i \in 1 .. Len(s) PROVE FALSE
        <4>1. s[i] \in Shallow(m)
          BY ElementOfSeq
        <4>2. s[i] \in DocSymbols /\ Depth(s[i]) < 0
          BY <2>1, <4>1 DEF Shallow
        <4>3. Depth(s[i]) \in Nat
          BY <4>2, DocSymbolsAssumption
        <4>. QED
          BY <4>2, <4>3
      <3>. QED
        BY <1>7, <3>1
    <2>2. CASE m # 0
      <3> DEFINE l == m - 1
      <3>1. l \in Nat /\ l + 1 = m /\ ~(m <= l) /\ l <= k
        BY <1>3, <2>2
      <3>. HIDE DEF l
      <3>2. ~Differ(l)
        BY <1>2, <3>1
      <3>3. \A t \in Seq(Shallow(l)) : order[t] = other[t]
        BY <3>1, <3>2 DEF Differ
      <3>4. s \in Seq(Shallow(l + 1))
        BY <3>1
      <3>5. \A i \in 1 .. Len(s) : s[i].children \in Seq(Shallow(l))
        BY <3>1, <3>4, ChildrenShallow
      <3>. QED
        BY <1>7, <3>3, <3>5
    <2>. QED
      BY <2>1, <2>2
  <1>9. Joined(order, s) = Joined(other, s)
    BY <1>8, JoinedSame
  <1>. QED
    BY <1>4, <1>6, <1>9

\* A list has a symbol with the most levels below it.
LEMMA ListIsShallow ==
  ASSUME NEW s \in Seq(DocSymbols)
  PROVE  \E n \in Nat : s \in Seq(Shallow(n))
  <1> DEFINE Bounded(m) == \E n \in Nat : \A i \in 1 .. m : Depth(s[i]) < n
             Bad == {m \in 0 .. Len(s) : ~Bounded(m)}
  <1> HIDE DEF Bounded
  <1>0. Len(s) \in Nat /\ \A i \in 1 .. Len(s) : s[i] \in DocSymbols /\ Depth(s[i]) \in Nat
    <2>1. \A i \in 1 .. Len(s) : s[i] \in DocSymbols
      BY ElementOfSeq
    <2>2. \A x \in DocSymbols : Depth(x) \in Nat
      BY DocSymbolsAssumption
    <2>3. Len(s) \in Nat
      OBVIOUS
    <2>. QED
      BY <2>1, <2>2, <2>3
  <1>1. Len(s) \notin Bad
    <2>1. SUFFICES ASSUME Len(s) \in Bad PROVE FALSE
      OBVIOUS
    <2>2. PICK m \in Bad : \A k \in Bad : m <= k
      <3>1. Bad \in SUBSET Nat
        BY <1>0
      <3>. HIDE DEF Bad
      <3>. QED
        BY <2>1, <3>1, LeastElement
    <2>3. m \in 0 .. Len(s) /\ ~Bounded(m)
      OBVIOUS
    <2>4. m # 0
      <3>1. Bounded(0)
        <4>1. \A i \in 1 .. 0 : Depth(s[i]) < 0
          OBVIOUS
        <4>. QED
          BY <4>1 DEF Bounded
      <3>. QED
        BY <2>3, <3>1
    <2> DEFINE l == m - 1
    <2>5. l \in 0 .. Len(s) /\ l + 1 = m /\ m \in 1 .. Len(s) /\ ~(m <= l)
      BY <1>0, <2>3, <2>4
    <2>. HIDE DEF l
    <2>6. Bounded(l)
      BY <2>2, <2>5
    <2>7. PICK n \in Nat : \A i \in 1 .. l : Depth(s[i]) < n
      BY <2>6 DEF Bounded
    <2> DEFINE d == Depth(s[m])
    <2>8. d \in Nat
      BY <1>0, <2>5
    <2>9. ASSUME NEW i \in 1 .. m PROVE Depth(s[i]) < n + d + 1
      <3>1. i = m \/ i \in 1 .. l
        BY <1>0, <2>5
      <3>2. CASE i = m
        <4>1. d < n + d + 1
          BY <2>8
        <4>. QED
          BY <3>2, <4>1
      <3>3. CASE i \in 1 .. l
        <4> DEFINE e == Depth(s[i])
        <4>1. e < n /\ e \in Nat
          BY <1>0, <2>5, <2>7, <3>3
        <4>. HIDE DEF d, e
        <4>2. e < n + d + 1
          BY <2>8, <4>1
        <4>. QED
          BY <4>2 DEF d, e
      <3>. QED
        BY <3>1, <3>2, <3>3
    <2>10. n + d + 1 \in Nat
      BY <2>8
    <2>. QED
      BY <2>3, <2>9, <2>10 DEF Bounded
  <1>2. PICK n \in Nat : \A i \in 1 .. Len(s) : Depth(s[i]) < n
    <2>1. Bounded(Len(s))
      BY <1>0, <1>1
    <2>. QED
      BY <2>1 DEF Bounded
  <1>3. \A i \in 1 .. Len(s) : s[i] \in Shallow(n)
    BY <1>0, <1>2 DEF Shallow
  <1>4. s \in [1 .. Len(s) -> Shallow(n)]
    <2>1. s \in [1 .. Len(s) -> DocSymbols]
      BY LenProperties
    <2>. QED
      BY <1>3, <2>1
  <1>. QED
    BY <1>0, <1>4, SeqDefs

\* How many levels a list has below its symbols, and the order of such lists.
Levels(s) == CHOOSE n \in Nat : s \in Seq(Shallow(n))
OrderOf(n) == CHOOSE order : IsOrder(order, n)

\* Both exist.
LEMMA LevelsOrder ==
  ASSUME NEW s \in Seq(DocSymbols)
  PROVE  Levels(s) \in Nat /\ s \in Seq(Shallow(Levels(s))) /\ IsOrder(OrderOf(Levels(s)), Levels(s))
  <1>1. Levels(s) \in Nat /\ s \in Seq(Shallow(Levels(s)))
    BY ListIsShallow DEF Levels
  <1>2. \E order : IsOrder(order, Levels(s))
    BY <1>1, OrderExists
  <1>. QED
    BY <1>1, <1>2 DEF OrderOf

\* Lists of fewer levels are among those of more.
LEMMA MoreShallow ==
  ASSUME NEW m \in Nat, NEW n \in Nat, m <= n
  PROVE  Seq(Shallow(m)) \subseteq Seq(Shallow(n))
  <1>1. ASSUME NEW x \in Shallow(m) PROVE x \in Shallow(n)
    <2>1. x \in DocSymbols /\ Depth(x) < m
      BY DEF Shallow
    <2>2. Depth(x) \in Nat
      BY <2>1, DocSymbolsAssumption
    <2>3. Depth(x) < n
      BY <2>1, <2>2
    <2>. QED
      BY <2>1, <2>3 DEF Shallow
  <1>2. Shallow(m) \subseteq Shallow(n)
    BY <1>1
  <1>. QED
    BY <1>2, SeqMonotonic

\* The orders of lists of any two depths agree on what both order.
LEMMA OrderAnyLevel ==
  ASSUME NEW s \in Seq(DocSymbols), NEW n \in Nat, s \in Seq(Shallow(n))
  PROVE  OrderOf(n)[s] = OrderOf(Levels(s))[s]
  <1> DEFINE m == Levels(s)
             o == OrderOf(n)
             p == OrderOf(m)
  <1>1. m \in Nat /\ s \in Seq(Shallow(m)) /\ IsOrder(p, m)
    BY LevelsOrder
  <1>2. IsOrder(o, n)
    <2>1. \E order : IsOrder(order, n)
      BY OrderExists
    <2>. QED
      BY <2>1 DEF OrderOf
  <1>. HIDE DEF m, o, p
  <1>3. \A t \in Seq(Shallow(m)) : p[t] = Joined(p, t)
    BY <1>1 DEF IsOrder
  <1>4. \A t \in Seq(Shallow(n)) : o[t] = Joined(o, t)
    BY <1>2 DEF IsOrder
  <1>5. CASE m <= n
    <2>1. \A t \in Seq(Shallow(m)) : o[t] = Joined(o, t) /\ p[t] = Joined(p, t)
      BY <1>1, <1>3, <1>4, <1>5, MoreShallow
    <2>2. o[s] = p[s]
      BY <1>1, <2>1, OrdersAgree
    <2>. QED
      BY <2>2 DEF o, p, m
  <1>6. CASE n <= m
    <2>1. \A t \in Seq(Shallow(n)) : o[t] = Joined(o, t) /\ p[t] = Joined(p, t)
      BY <1>1, <1>3, <1>4, <1>6, MoreShallow
    <2>2. o[s] = p[s]
      BY <2>1, OrdersAgree
    <2>. QED
      BY <2>2 DEF o, p, m
  <1>. QED
    BY <1>1, <1>5, <1>6

\* One order of all lists.
LEMMA WholeOrder ==
  \E order : /\ order \in [Seq(DocSymbols) -> Seq(DocSymbols)]
             /\ \A s \in Seq(DocSymbols) : order[s] = Joined(order, s)
  <1> DEFINE whole == [s \in Seq(DocSymbols) |-> OrderOf(Levels(s))[s]]
  <1>1. \A s \in Seq(DocSymbols) : whole[s] = OrderOf(Levels(s))[s]
    OBVIOUS
  <1>2. whole = [s \in Seq(DocSymbols) |-> whole[s]]
    OBVIOUS
  <1>. HIDE DEF whole
  <1>3. ASSUME NEW s \in Seq(DocSymbols) PROVE whole[s] \in Seq(DocSymbols) /\ whole[s] = Joined(whole, s)
    <2> DEFINE n == Levels(s)
               o == OrderOf(n)
    <2>1. n \in Nat /\ s \in Seq(Shallow(n)) /\ IsOrder(o, n) /\ whole[s] = o[s]
      BY <1>1, LevelsOrder
    <2>. HIDE DEF n, o
    <2>2. o[s] \in Seq(DocSymbols) /\ o[s] = Joined(o, s)
      BY <2>1 DEF IsOrder
    <2>3. ASSUME NEW i \in 1 .. Len(s) PROVE o[s[i].children] = whole[s[i].children]
      <3> DEFINE c == s[i].children
      <3>1. s \in Seq(Shallow(n + 1))
        <4>1. n + 1 \in Nat /\ n <= n + 1
          BY <2>1
        <4>. QED
          BY <2>1, <4>1, MoreShallow
      <3>2. c \in Seq(Shallow(n))
        BY <2>1, <3>1, ChildrenShallow
      <3>. HIDE DEF c
      <3>3. c \in Seq(DocSymbols)
        <4>1. Shallow(n) \subseteq DocSymbols
          BY DEF Shallow
        <4>. QED
          BY <3>2, <4>1, SeqMonotonic
      <3>4. OrderOf(n)[c] = OrderOf(Levels(c))[c]
        BY <2>1, <3>2, <3>3, OrderAnyLevel
      <3>5. o[c] = whole[c]
        BY <1>1, <3>3, <3>4 DEF o
      <3>. QED
        BY <3>5 DEF c
    <2>4. \A i \in DOMAIN s : o[s[i].children] = whole[s[i].children]
      <3>1. DOMAIN s = 1 .. Len(s)
        OBVIOUS
      <3>. QED
        BY <2>3, <3>1
    <2>5. Joined(o, s) = Joined(whole, s)
      BY <2>4, JoinedSame
    <2>. QED
      BY <2>1, <2>2, <2>5
  <1>4. whole \in [Seq(DocSymbols) -> Seq(DocSymbols)]
    BY <1>2, <1>3
  <1>. QED
    BY <1>3, <1>4

\* The symbols of an answer in the order in which they are searched are document symbols.
LEMMA PreorderIsSeq ==
  ASSUME NEW symbols \in Seq(DocSymbols)
  PROVE  Preorder(symbols) \in Seq(DocSymbols)
  <1> DEFINE X == Seq(DocSymbols)
             Recursion(f) == f = [s \in X |-> FlattenSeq([i \in DOMAIN s |-> <<s[i]>> \o f[s[i].children]])]
             order == CHOOSE f : Recursion(f)
  <1>1. PICK whole : whole \in [X -> X] /\ \A s \in X : whole[s] = Joined(whole, s)
    BY WholeOrder
  <1>2. Recursion(whole)
    <2>1. \A s \in X : whole[s] = FlattenSeq([i \in DOMAIN s |-> <<s[i]>> \o whole[s[i].children]])
      BY <1>1 DEF Joined
    <2>2. whole = [s \in X |-> whole[s]]
      BY <1>1
    <2>. HIDE DEF X
    <2>3. [s \in X |-> whole[s]] = [s \in X |-> FlattenSeq([i \in DOMAIN s |-> <<s[i]>> \o whole[s[i].children]])]
      BY <2>1, Zenon
    <2>. QED
      BY <2>2, <2>3, Zenon
  <1>3. Recursion(order)
    <2>. HIDE DEF Recursion
    <2>. QED
      BY <1>2
  <1>4. Preorder(symbols) = order[symbols]
    BY Zenon DEF Preorder
  <1>5. \A s \in X : order[s] = Joined(order, s)
    <2>. HIDE DEF order
    <2>. QED
      BY <1>3, Zenon DEF Joined
  <1>. HIDE DEF order, Recursion
  <1>6. PICK n \in Nat : symbols \in Seq(Shallow(n))
    BY ListIsShallow
  <1>7. \A s \in Seq(Shallow(n)) : order[s] = Joined(order, s) /\ whole[s] = Joined(whole, s)
    <2>1. Shallow(n) \subseteq DocSymbols
      BY DEF Shallow
    <2>2. Seq(Shallow(n)) \subseteq X
      BY <2>1, SeqMonotonic
    <2>. QED
      BY <1>1, <1>5, <2>2
  <1>8. order[symbols] = whole[symbols]
    BY <1>6, <1>7, OrdersAgree
  <1>. QED
    BY <1>1, <1>4, <1>8

-----------------------------------------------------------------------------
(***************************************************************************)
(* getEnhancedSymbolRange: by token, by document symbol or its own, a symbol *)
(* has a range of two positions that begins where it does or at most five  *)
(* lines above.                                                            *)
(***************************************************************************)
\* The least of a set of indices is one of them.
LEMMA LeastIndex ==
  ASSUME NEW I \in SUBSET Nat, I # {}
  PROVE  Min(I) \in I
  <1>1. PICK n \in I : TRUE
    OBVIOUS
  <1>2. \E m \in I : \A k \in I : m <= k
    BY <1>1, LeastElement
  <1>. QED
    BY <1>2 DEF Min

\* Both ends are positions, and the symbol begins on the first line or up to five below.
IsRangeOf(range, symbol) ==
  IsPosition(range[1]) /\ IsPosition(range[2]) /\ symbol.from.line \in range[1].line .. range[1].line + 5

\* The range of the best token, which is on the line of the symbol.
LEMMA TokenRangeIs ==
  ASSUME NEW symbol, HasRange(symbol), NEW tokens, tokens \in Seq(Range(tokens)),
         \A t \in Range(tokens) : IsPosition(t) /\ t.length \in Nat,
         SemanticTokenRange(symbol, tokens) # Error
  PROVE  IsRangeOf(SemanticTokenRange(symbol, tokens), symbol)
  <1> DEFINE onLine == {i \in DOMAIN tokens : tokens[i].line = symbol.from.line}
             best == {i \in onLine : \A j \in onLine : Score(symbol, tokens[j]) <= Score(symbol, tokens[i])}
             k == Min(best)
             token == tokens[k]
  <1>1. SemanticTokenRange(symbol, tokens) =
          IF best = {} THEN Error
          ELSE <<Position(token.line, token.char), Position(token.line, token.char + token.length)>>
    BY Zenon DEF SemanticTokenRange
  <1>2. DOMAIN tokens = 1 .. Len(tokens) /\ Len(tokens) \in Nat
    BY LenProperties
  <1>3. best \subseteq onLine
    OBVIOUS
  <1>. HIDE DEF best
  <1>4. best # {}
    BY <1>1
  <1>5. best \in SUBSET Nat
    BY <1>2, <1>3
  <1>6. k \in onLine
    BY <1>3, <1>4, <1>5, LeastIndex
  <1>. HIDE DEF k
  <1>7. k \in DOMAIN tokens /\ token.line = symbol.from.line
    BY <1>6
  <1>8. IsPosition(token) /\ token.length \in Nat
    BY <1>7 DEF Range
  <1>. HIDE DEF token, onLine
  <1>9. token.line \in Nat /\ token.char \in Nat /\ token.char + token.length \in Nat
    BY <1>8 DEF IsPosition
  <1> DEFINE p == Position(token.line, token.char)
             q == Position(token.line, token.char + token.length)
  <1>10. p.line = token.line /\ p.char = token.char /\ q.line = token.line /\ q.char = token.char + token.length
    BY DEF Position
  <1>11. SemanticTokenRange(symbol, tokens) = <<p, q>>
    BY <1>1, <1>4
  <1>. HIDE DEF p, q
  <1>12. IsPosition(p) /\ IsPosition(q) /\ symbol.from.line \in p.line .. p.line + 5
    BY <1>7, <1>9, <1>10 DEF IsPosition
  <1>13. <<p, q>>[1] = p /\ <<p, q>>[2] = q
    OBVIOUS
  <1>. QED
    BY <1>11, <1>12, <1>13, Zenon DEF IsRangeOf

\* The range the symbol came with, when nothing better is known.
LEMMA OwnRangeIs ==
  ASSUME NEW symbol, HasRange(symbol)
  PROVE  IsRangeOf(<<symbol.from, symbol.to>>, symbol)
  <1> DEFINE p == symbol.from
             q == symbol.to
  <1>1. IsPosition(p) /\ IsPosition(q) /\ symbol.from.line \in p.line .. p.line + 5
    BY DEF HasRange, IsPosition
  <1>. HIDE DEF p, q
  <1>2. <<p, q>>[1] = p /\ <<p, q>>[2] = q
    OBVIOUS
  <1>. QED
    BY <1>1, <1>2, Zenon DEF IsRangeOf, p, q

\* The range of the first document symbol that fits.
LEMMA DocumentRangeIs ==
  ASSUME NEW symbol, HasRange(symbol), NEW docSymbols \in Seq(DocSymbols)
  PROVE  IsRangeOf(DocumentSymbolRange(symbol, docSymbols), symbol)
  <1> DEFINE all == Preorder(docSymbols)
             I == {i \in 1 .. Len(all) : /\ all[i].kind = symbol.kind
                                         /\ symbol.from.line \in all[i].from.line .. all[i].from.line + 5}
             match == IF I # {} THEN Min(I) ELSE 0
  <1>1. DocumentSymbolRange(symbol, docSymbols) =
          IF match = 0 THEN <<symbol.from, symbol.to>> ELSE <<all[match].from, all[match].to>>
    BY Zenon DEF DocumentSymbolRange, SelectInSeq
  <1>2. all \in Seq(DocSymbols)
    BY PreorderIsSeq
  <1>. HIDE DEF all
  <1>3. I \in SUBSET Nat
    OBVIOUS
  <1>. HIDE DEF I
  <1>4. CASE match = 0
    BY <1>1, <1>4, OwnRangeIs
  <1>5. CASE match # 0
    <2>1. match \in I
      BY <1>3, <1>5, LeastIndex
    <2>. HIDE DEF match
    <2>2. match \in 1 .. Len(all) /\ symbol.from.line \in all[match].from.line .. all[match].from.line + 5
      BY <2>1 DEF I
    <2> DEFINE p == all[match].from
               q == all[match].to
    <2>3. all[match] \in DocSymbols
      BY <1>2, <2>2, ElementOfSeq
    <2>4. IsPosition(p) /\ IsPosition(q)
      BY <2>3, DocSymbolsAssumption
    <2>5. DocumentSymbolRange(symbol, docSymbols) = <<p, q>>
      BY <1>1, <1>5
    <2>6. symbol.from.line \in p.line .. p.line + 5
      BY <2>2
    <2>. HIDE DEF p, q
    <2>7. <<p, q>>[1] = p /\ <<p, q>>[2] = q
      OBVIOUS
    <2>. QED
      BY <2>4, <2>5, <2>6, <2>7, Zenon DEF IsRangeOf
  <1>. QED
    BY <1>4, <1>5

\* Whichever of the three it is.
LEMMA EnhancedRangeIs ==
  ASSUME NEW symbol, HasRange(symbol), NEW tokens, NEW docSymbols,
         tokens # Error => /\ tokens \in Seq(Range(tokens))
                           /\ \A t \in Range(tokens) : IsPosition(t) /\ t.length \in Nat,
         docSymbols # Error => docSymbols \in Seq(DocSymbols)
  PROVE  IsRangeOf(EnhancedRange(symbol, tokens, docSymbols), symbol)
  <1> DEFINE byToken == IF tokens = Error THEN Error ELSE SemanticTokenRange(symbol, tokens)
  <1>1. CASE byToken # Error
    <2>1. tokens # Error /\ byToken = SemanticTokenRange(symbol, tokens)
      BY <1>1
    <2>2. EnhancedRange(symbol, tokens, docSymbols) = SemanticTokenRange(symbol, tokens)
      BY <1>1, <2>1 DEF EnhancedRange
    <2>3. IsRangeOf(SemanticTokenRange(symbol, tokens), symbol)
      BY <1>1, <2>1, TokenRangeIs
    <2>. QED
      BY <2>2, <2>3
  <1>2. CASE byToken = Error /\ docSymbols = Error
    BY <1>2, OwnRangeIs DEF EnhancedRange
  <1>3. CASE byToken = Error /\ docSymbols # Error
    BY <1>3, DocumentRangeIs DEF EnhancedRange
  <1>. QED
    BY <1>1, <1>2, <1>3

-----------------------------------------------------------------------------
(***************************************************************************)
(* Whatever symbol_explore finds, and whatever is left of it to be         *)
(* described, has a range.                                                 *)
(***************************************************************************)
AllHaveRange(list) == \A s \in Range(list) : HasRange(s)

FoundHasRange == tool = "explore" => \A k \in Keys : AllHaveRange(value[k].items)

PendingHasRange ==
  phase = "ask" /\ tool = "explore" => IsList(pending) /\ pending # <<>> /\ AllHaveRange(pending)

DetailInv == FoundHasRange /\ PendingHasRange /\ DetailIsText

(***************************************************************************)
(* What the languages found is a list of what any of them found.           *)
(***************************************************************************)
LEMMA FlattenOf ==
  ASSUME Types, NEW S, \A k \in Keys : value[k].items \in Seq(S)
  PROVE  Flatten \in Seq(S)
  <1> DEFINE n == Len(allResults)
             seqs == [i \in 1 .. n |-> ItemsOf(allResults[i])]
  <1>1. n \in Nat /\ DOMAIN allResults = 1 .. n /\ \A i \in 1 .. n : allResults[i] \in KeyedResult
    BY LenProperties, ElementOfSeq DEF Types
  <1>2. ASSUME NEW i \in 1 .. n PROVE ItemsOf(allResults[i]) \in Seq(S)
    <2>1. <<>> \in Seq(S)
      BY EmptySeq
    <2>2. allResults[i].key \in Keys
      BY <1>1 DEF KeyedResult
    <2>. QED
      BY <2>1, <2>2 DEF ItemsOf
  <1>3. Flatten = FlattenSeq(seqs)
    BY <1>1 DEF Flatten
  <1>4. seqs \in [1 .. n -> Seq(S)]
    BY <1>2
  <1>. HIDE DEF seqs, n
  <1>5. seqs \in Seq(Seq(S))
    BY <1>1, <1>4, SeqDefs
  <1>. QED
    BY <1>3, <1>5, FlattenIsSeq

\* A symbol without a range is given the start of its file.
LEMMA MatchHasRange ==
  ASSUME NEW s, IsSymbol(s), HasRange(s)
  PROVE  HasRange(ToMatch(s))
  <1>1. CASE s.form = "location"
    BY <1>1 DEF ToMatch
  <1>2. CASE s.form # "location"
    <2> DEFINE p == Position(0, 0)
    <2>1. IsPosition(p)
      BY DEF IsPosition, Position
    <2>. HIDE DEF p
    <2>2. ToMatch(s).from = p /\ ToMatch(s).to = p
      BY <1>2 DEF ToMatch, IsSymbol, p
    <2>. QED
      BY <2>1, <2>2 DEF HasRange
  <1>. QED
    BY <1>1, <1>2

\* All that match have a range, whatever file the call names.
LEMMA MatchesHaveRange ==
  ASSUME Types, ListsOK, FoundOK, FoundHasRange, tool = "explore"
  PROVE  IsList(Matches) /\ AllHaveRange(Matches)
  <1> DEFINE S == {s \in UNION {Range(value[k].items) : k \in Keys} : IsSymbol(s) /\ HasRange(s)}
             M == {ToMatch(s) : s \in S}
             all == Flatten
             matches == [i \in DOMAIN all |-> ToMatch(all[i])]
  <1>1. ASSUME NEW k \in Keys PROVE value[k].items \in Seq(S)
    <2> DEFINE items == value[k].items
    <2>1. IsList(items) /\ \A i \in DOMAIN items : IsSymbol(items[i])
      BY DEF ListsOK, FoundOK
    <2>2. Len(items) \in Nat /\ DOMAIN items = 1 .. Len(items)
      BY <2>1, LenProperties DEF IsList
    <2>3. ASSUME NEW i \in DOMAIN items PROVE items[i] \in S
      <3>1. items[i] \in Range(items)
        BY DEF Range
      <3>2. HasRange(items[i])
        BY <3>1 DEF FoundHasRange, AllHaveRange
      <3>. QED
        BY <2>1, <3>1, <3>2
    <2>4. items \in Seq(Range(items))
      BY <2>1 DEF IsList
    <2>. HIDE DEF items, S
    <2>5. items \in [1 .. Len(items) -> S]
      BY <2>2, <2>3, <2>4
    <2>. QED
      BY <2>2, <2>5, SeqDefs DEF items
  <1>2. \A m \in M : HasRange(m)
    BY MatchHasRange
  <1>. HIDE DEF S
  <1>3. all \in Seq(S)
    BY <1>1, FlattenOf
  <1>. HIDE DEF all
  <1>4. Len(all) \in Nat /\ DOMAIN all = 1 .. Len(all) /\ \A i \in DOMAIN all : all[i] \in S
    BY <1>3, LenProperties, ElementOfSeq
  <1>5. matches \in [1 .. Len(all) -> M]
    BY <1>4
  <1>. HIDE DEF M
  <1>6. matches \in Seq(M)
    <2>. HIDE DEF matches
    <2>. QED
      BY <1>4, <1>5, SeqDefs
  <1>7. Matches = IF call.context = NoContext THEN matches ELSE InFile(matches, Resolved[call.context])
    BY DEF Matches, all
  <1>. HIDE DEF matches
  <1>8. Matches \in Seq(M)
    BY <1>6, <1>7, InFileIsSeq
  <1>. QED
    BY <1>2, <1>8, AnyList DEF AllHaveRange

-----------------------------------------------------------------------------
(***************************************************************************)
(* A call begins with nothing found, nothing to be described and nothing   *)
(* described; until symbol_explore answers nothing of it changes.          *)
(***************************************************************************)
LEMMA NothingHasRange ==
  ASSUME NEW kind
  PROVE  AllHaveRange(Says(kind).items) /\ Says(kind).kind = kind
  <1>1. Says(kind).items = <<>> /\ Says(kind).kind = kind
    BY DEF Says, Response
  <1>2. Range(<<>>) = {}
    BY DEF Range
  <1>. QED
    BY <1>1, <1>2 DEF AllHaveRange

LEMMA DetailBegins ==
  ASSUME value' = [k \in Keys |-> Says("none")], detail' = Says("none"), phase' = "ask" => tool' # "explore"
  PROVE  DetailInv'
  <1>1. \A k \in Keys : value'[k] = Says("none")
    OBVIOUS
  <1>2. ASSUME NEW k \in Keys PROVE AllHaveRange(value'[k].items)
    BY <1>1, NothingHasRange
  <1>3. detail'.kind = "none"
    BY NothingHasRange
  <1>. QED
    BY <1>2, <1>3 DEF DetailInv, FoundHasRange, PendingHasRange, DetailIsText, AllHaveRange, HasRange, IsPosition

LEMMA DetailOther ==
  ASSUME DetailInv, UNCHANGED <<tool, value, detail>>,
         UNCHANGED <<phase, pending>> \/ phase' # "ask"
  PROVE  DetailInv'
  <1>1. FoundHasRange'
    BY DEF DetailInv, FoundHasRange, AllHaveRange, HasRange, IsPosition
  <1>2. PendingHasRange'
    BY DEF DetailInv, PendingHasRange, AllHaveRange, HasRange, IsPosition, IsList
  <1>3. DetailIsText'
    BY DEF DetailInv, DetailIsText
  <1>. QED
    BY <1>1, <1>2, <1>3 DEF DetailInv

LEMMA DetailSearch ==
  ASSUME ListsOK, DetailInv, NEW k \in Keys, Search(k)
  PROVE  DetailInv'
  <1>1. PICK found \in Found(tool) : value' = [value EXCEPT ![k] = found]
    BY DEF Search
  <1>2. phase \in {"search", "closed"} /\ UNCHANGED <<tool, phase, pending, detail>>
    BY DEF Search
  <1>3. \A l \in Keys : value'[l] = IF l = k THEN found ELSE value[l]
    BY <1>1 DEF ListsOK
  <1>4. tool = "explore" => AllHaveRange(found.items)
    BY <1>1, SessionAssumption DEF AllHaveRange
  <1>5. tool = "explore" => \A l \in Keys : AllHaveRange(value[l].items)
    BY DEF DetailInv, FoundHasRange
  <1>6. tool = "explore" => \A l \in Keys : AllHaveRange(value'[l].items)
    BY <1>3, <1>4, <1>5
  <1>7. FoundHasRange'
    BY <1>2, <1>6 DEF FoundHasRange, AllHaveRange, HasRange, IsPosition
  <1>8. PendingHasRange'
    BY <1>2 DEF PendingHasRange
  <1>9. DetailIsText'
    BY <1>2 DEF DetailInv, DetailIsText
  <1>. QED
    BY <1>7, <1>8, <1>9 DEF DetailInv

\* What is shown of the symbols that match is to be described.
LEMMA DetailExplore ==
  ASSUME Types, PagesInv, FoundOK, DetailInv, Explore
  PROVE  DetailInv'
  <1> DEFINE page == SymbolResponse(Matches)
  <1>1. /\ tool = "explore" /\ UNCHANGED <<tool, value, detail>>
        /\ pending' = page.items /\ (phase' = "ask" => page.items # <<>>)
    BY DEF Explore, Ready
  <1>2. IsList(Matches) /\ AllHaveRange(Matches)
    BY <1>1, MatchesHaveRange DEF PagesInv, DetailInv
  <1>3. page.items \in Seq(Range(Matches))
    BY <1>1, <1>2, SymbolResponseIsAnswer DEF IsAnswer
  <1>. HIDE DEF page
  <1>4. IsList(page.items) /\ AllHaveRange(page.items)
    BY <1>2, <1>3, AnyList DEF AllHaveRange
  <1>5. FoundHasRange'
    BY <1>1 DEF DetailInv, FoundHasRange, AllHaveRange, HasRange, IsPosition
  <1>6. PendingHasRange'
    <2>1. IsList(pending') /\ AllHaveRange(pending')
      BY <1>1, <1>4
    <2>2. phase' = "ask" => pending' # <<>>
      BY <1>1
    <2>. QED
      BY <2>1, <2>2 DEF PendingHasRange, AllHaveRange, HasRange, IsPosition, IsList
  <1>7. DetailIsText'
    BY <1>1 DEF DetailInv, DetailIsText
  <1>. QED
    BY <1>5, <1>6, <1>7 DEF DetailInv

(***************************************************************************)
(* Describing a symbol shows the text of the range it is given.            *)
(***************************************************************************)
\* The characters of the file, and the line break.
LEMMA LinesOfText ==
  \E CH : "\n" \in CH /\ Lines \in Seq(Seq(CH))
  <1> DEFINE CH == {"\n"} \union UNION {Range(line) : line \in Range(Lines)}
  <1>1. \A line \in Range(Lines) : Range(line) \subseteq CH /\ line \in Seq(Range(line))
    BY SessionAssumption
  <1>2. "\n" \in CH
    OBVIOUS
  <1>. HIDE DEF CH
  <1>3. ASSUME NEW line \in Range(Lines) PROVE line \in Seq(CH)
    BY <1>1, SeqMonotonic
  <1>4. Range(Lines) \subseteq Seq(CH) /\ Lines \in Seq(Range(Lines))
    BY <1>3, SessionAssumption
  <1>5. Lines \in Seq(Seq(CH))
    BY <1>4, SeqMonotonic
  <1>. QED
    BY <1>2, <1>5

LEMMA TextOfDetail ==
  ASSUME NEW symbol, HasRange(symbol), NEW tokens \in TokenAnswers, NEW symbols \in SymbolAnswers,
         NEW readable \in BOOLEAN, NEW range, range = EnhancedRange(symbol, tokens, symbols),
         NEW d, d.symbol = symbol, d.from = range[1], d.to = range[2],
         d.content = IF readable THEN RangeContent(Lines, range[1], range[2], FALSE) ELSE Error
  PROVE  /\ d.symbol.from.line \in d.from.line .. d.from.line + 5
         /\ d.content # Error => IsTextBetween(Lines, d.from, d.to, d.content)
  <1>1. tokens # Error => tokens \in Seq(Range(tokens)) /\ \A t \in Range(tokens) : IsPosition(t) /\ t.length \in Nat
    BY SessionAssumption
  <1>2. symbols # Error => symbols \in Seq(DocSymbols)
    BY SessionAssumption
  <1>3. IsRangeOf(range, symbol)
    BY <1>1, <1>2, EnhancedRangeIs
  <1>4. IsPosition(d.from) /\ IsPosition(d.to) /\ symbol.from.line \in d.from.line .. d.from.line + 5
    BY <1>3 DEF IsRangeOf
  <1>5. ASSUME d.content # Error PROVE IsTextBetween(Lines, d.from, d.to, d.content)
    <2>1. d.content = RangeContent(Lines, d.from, d.to, FALSE)
      BY <1>5
    <2>2. PICK CH : "\n" \in CH /\ Lines \in Seq(Seq(CH))
      BY LinesOfText
    <2>3. RangeContent(Lines, d.from, d.to, FALSE) # Error
      BY <1>5, <2>1
    <2>4. IsTextBetween(Lines, d.from, d.to, RangeContent(Lines, d.from, d.to, FALSE))
      BY <1>4, <2>2, <2>3, ContentIsText
    <2>. QED
      BY <2>1, <2>4
  <1>. QED
    BY <1>4, <1>5

LEMMA DetailDescribe ==
  ASSUME DetailInv, Describe
  PROVE  DetailInv'
  <1>1. PICK tokens \in TokenAnswers, symbols \in SymbolAnswers, readable \in BOOLEAN :
          \E range \in {EnhancedRange(Head(pending), tokens, symbols)} :
            detail' = [ kind |-> "detail", symbol |-> Head(pending), from |-> range[1], to |-> range[2],
                        at |-> Position(Head(pending).from.line, PreciseCharacter(Head(pending))),
                        content |-> IF readable THEN RangeContent(Lines, range[1], range[2], FALSE) ELSE Error ]
    BY DEF Describe
  <1> DEFINE symbol == Head(pending)
             range == EnhancedRange(symbol, tokens, symbols)
             content == IF readable THEN RangeContent(Lines, range[1], range[2], FALSE) ELSE Error
  <1>2. /\ detail'.symbol = symbol /\ detail'.from = range[1] /\ detail'.to = range[2]
        /\ detail'.content = content
    BY <1>1
  <1>3. /\ phase = "ask" /\ tool = "explore" /\ UNCHANGED <<tool, value>>
        /\ pending' = Tail(pending) /\ phase' = IF Len(pending) = 1 THEN "idle" ELSE "ask"
    BY DEF Describe
  <1>4. IsList(pending) /\ pending # <<>> /\ AllHaveRange(pending)
    BY <1>3 DEF DetailInv, PendingHasRange
  <1>5. HasRange(symbol)
    <2>1. Head(pending) \in Range(pending)
      BY <1>4 DEF IsList
    <2>. QED
      BY <1>4, <2>1 DEF AllHaveRange
  <1>. HIDE DEF symbol, range
  <1>6. /\ detail'.symbol.from.line \in detail'.from.line .. detail'.from.line + 5
        /\ detail'.content # Error => IsTextBetween(Lines, detail'.from, detail'.to, detail'.content)
    BY <1>2, <1>5, TextOfDetail DEF range
  <1>7. DetailIsText'
    BY <1>6 DEF DetailIsText, IsTextBetween
  <1>8. FoundHasRange'
    BY <1>3 DEF DetailInv, FoundHasRange, AllHaveRange, HasRange, IsPosition
  <1>9. PendingHasRange'
    <2> DEFINE R == Range(pending)
               rest == Tail(pending)
    <2>1. pending \in Seq(R) /\ pending # <<>>
      BY <1>4 DEF IsList
    <2>2. rest \in Seq(R) /\ Len(rest) = Len(pending) - 1 /\ Len(pending) \in Nat
      <3>. HIDE DEF R
      <3>. QED
        BY <2>1
    <2>3. \A s \in R : HasRange(s)
      BY <1>4 DEF AllHaveRange
    <2>. HIDE DEF R, rest
    <2>4. Len(pending) # 1 => rest # <<>>
      <3>1. Len(rest) # 0 => rest # <<>>
        OBVIOUS
      <3>. QED
        BY <2>2, <3>1
    <2>5. IsList(rest) /\ AllHaveRange(rest)
      BY <2>2, <2>3, AnyList DEF AllHaveRange
    <2>6. IsList(pending') /\ AllHaveRange(pending') /\ (phase' = "ask" => pending' # <<>>)
      BY <1>3, <2>4, <2>5 DEF rest
    <2>. QED
      BY <2>6 DEF PendingHasRange, AllHaveRange, HasRange, IsPosition, IsList
  <1>. QED
    BY <1>7, <1>8, <1>9 DEF DetailInv

\* The other answers describe nothing.
LEMMA DetailRespond ==
  ASSUME Types, PagesInv, FoundOK, DetailInv, Respond
  PROVE  DetailInv'
  <1>1. ASSUME NEW r, Answer(r) PROVE DetailInv'
    BY <1>1, DetailOther DEF Answer
  <1>2. CASE Explore
    BY <1>2, DetailExplore
  <1>3. CASE Describe
    BY <1>3, DetailDescribe
  <1>4. Explore \/ Describe \/ \E r : Answer(r)
    BY DEF Respond, ExploreNothing, ExploreUnknownFile, References, Diagnostics,
           WorkspaceSymbols, DocumentSymbols, Definitions, AnalyseUnknownFile, AnalyseFile,
           AnalysePatterns, AnalyseWorkspace, AnalyseRelationships, Report,
           AnswerOnly, AnswerNotFound, AnswerPage
  <1>. QED
    BY <1>1, <1>2, <1>3, <1>4

LEMMA DetailSteps ==
  ASSUME SessionInv, DetailInv, [SessionNext]_allVars
  PROVE  DetailInv'
  <1>1. Types /\ PagesInv /\ ListsOK /\ FoundOK
    BY DEF SessionInv, Inv, PagesInv, LostInv
  <1>2. CASE \E t \in Parallel \union Direct : \E c \in Calls(t) : FirstCall(t, c)
    BY <1>2, DetailBegins DEF FirstCall, Begin, Parallel
  <1>3. CASE NextPage
    BY <1>3, DetailBegins DEF NextPage, Begin, Parallel
  <1>4. CASE Refuse
    BY <1>4, DetailBegins DEF Refuse
  <1>5. CASE \E k \in Keys : Search(k)
    BY <1>1, <1>5, DetailSearch
  <1>6. CASE \/ (\E k \in Keys : SearchSticks(k) \/ Forward(k)) \/ RequestSticks
             \/ Collect \/ ClientLeaves \/ Abandon \/ Expire \/ UNCHANGED allVars
    <2>1. UNCHANGED <<tool, value, detail>> /\ (UNCHANGED <<phase, pending>> \/ phase' # "ask")
      BY <1>6 DEF SearchSticks, RequestSticks, Forward, Collect, ClientLeaves, Abandon, Expire, session, allVars
    <2>. QED
      BY <2>1, DetailOther
  <1>7. CASE Respond
    BY <1>1, <1>7, DetailRespond
  <1>. QED
    BY <1>2, <1>3, <1>4, <1>5, <1>6, <1>7 DEF SessionNext

LEMMA DetailInit == SessionInit => DetailInv
  <1> SUFFICES ASSUME SessionInit PROVE DetailInv
    OBVIOUS
  <1>1. tool = "none" /\ detail.kind = "none"
    BY NothingHasRange DEF SessionInit
  <1>. QED
    BY <1>1 DEF DetailInv, FoundHasRange, PendingHasRange, DetailIsText

(***************************************************************************)
(* The text that is shown for a symbol is the text of the file between the *)
(* positions that are shown with it, but for the last character of several *)
(* lines, and the range begins where the symbol does or at most five lines *)
(* above: for any text, any tokens and any tree of document symbols.       *)
(***************************************************************************)
THEOREM DetailAlwaysText == SessionSpec => []DetailIsText
  <1>1. DetailInv => DetailIsText
    BY DEF DetailInv
  <1>. QED
    BY <1>1, DetailInit, DetailSteps, SessionInvariance, PTL DEF SessionSpec

=============================================================================
