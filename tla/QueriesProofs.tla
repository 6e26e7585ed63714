---------------------------- MODULE QueriesProofs -----------------------------
(***************************************************************************)
(* Proofs about queryAllCapableServers and about the bridge's queries      *)
(* around it, for any servers and any responses.                           *)
(***************************************************************************)
EXTENDS Queries, ListLemmas

(***************************************************************************)
(* How far the two goroutines of a server are says what its variables      *)
(* hold: a channel is filled by a query that ends, with its own answer; a  *)
(* slot is filled by a worker that ends, from its own channel.             *)
(***************************************************************************)
Stages ==
  \A s \in Servers :
    /\ worker[s] \in {"none", "open"} => query[s] = "none"
    /\ query[s] # "done" => channel[s] = "none" /\ results[s] \notin {"result", "error"}
    /\ channel[s] # "none" => channel[s] = answer[s]
    /\ results[s] \in {"result", "error"} => results[s] = answer[s]
    /\ worker[s] = "done" => results[s] # "empty"

\* Where the caller is says which workers there are.
CallerKnows ==
  /\ caller = "filter" => \A s \in Servers : worker[s] = "none"
  /\ caller = "returned" => \A s \in capable : worker[s] = "done"

Inv == TypeOK /\ Stages /\ CallerKnows

(***************************************************************************)
(* Nothing is asked, answered or filled in the beginning.                  *)
(***************************************************************************)
LEMMA InitInv == Init => Inv
  BY DEF Init, Inv, TypeOK, Stages, CallerKnows

(***************************************************************************)
(* The steps of the caller: it starts the workers of the servers it        *)
(* chooses, and returns once all of them are done.                         *)
(***************************************************************************)
LEMMA CallerInv ==
  ASSUME Inv, FilterByCapability \/ Return
  PROVE  Inv'
  <1>1. CASE FilterByCapability
    <2>1. PICK C \in SUBSET Servers :
            /\ capable' = C
            /\ caller' = IF C = {} THEN "returned" ELSE "wait"
            /\ worker' = [s \in Servers |-> IF s \in C THEN "open" ELSE "none"]
      BY <1>1 DEF FilterByCapability
    <2>2. TypeOK'
      BY <1>1, <2>1 DEF Inv, TypeOK, FilterByCapability
    <2>3. \A s \in Servers : query[s] = "none"
      BY <1>1 DEF Inv, Stages, CallerKnows, FilterByCapability
    <2>4. Stages'
      BY <1>1, <2>1, <2>3 DEF Inv, Stages, FilterByCapability
    <2>5. CallerKnows'
      BY <2>1 DEF CallerKnows
    <2>. QED
      BY <2>2, <2>4, <2>5 DEF Inv
  <1>2. CASE Return
    BY <1>2 DEF Inv, TypeOK, Stages, CallerKnows, Return
  <1>. QED
    BY <1>1, <1>2

(***************************************************************************)
(* The steps before an answer: the query of a server starts when its       *)
(* worker has opened the document, and the timer runs beside them.         *)
(***************************************************************************)
LEMMA StartInv ==
  ASSUME NEW s \in Servers, Inv, EnsureOpen(s) \/ AlreadyOpen(s) \/ TimerFires(s)
  PROVE  Inv'
  <1>1. CASE EnsureOpen(s) \/ AlreadyOpen(s)
    <2>1. /\ worker[s] = "open" /\ worker' = [worker EXCEPT ![s] = "select"]
          /\ query' = [query EXCEPT ![s] = "running"]
          /\ UNCHANGED <<capable, caller, answer, channel, timer, results>>
      BY <1>1 DEF EnsureOpen, AlreadyOpen
    <2>2. TypeOK'
      BY <2>1 DEF Inv, TypeOK
    <2>3. Stages'
      BY <2>1 DEF Inv, TypeOK, Stages
    <2>4. CallerKnows'
      BY <2>1 DEF Inv, TypeOK, CallerKnows
    <2>. QED
      BY <2>2, <2>3, <2>4 DEF Inv
  <1>2. CASE TimerFires(s)
    BY <1>2 DEF Inv, TypeOK, Stages, CallerKnows, TimerFires
  <1>. QED
    BY <1>1, <1>2

(***************************************************************************)
(* The steps of the query goroutine: an answer is kept from then on, since *)
(* the query does not run again, and goes into the server's own channel.   *)
(***************************************************************************)
LEMMA AnswerInv ==
  ASSUME NEW s \in Servers, Inv, Answer(s) \/ Send(s)
  PROVE  Inv'
  <1>1. CASE Answer(s)
    <2>1. PICK a \in {"result", "error"} : answer' = [answer EXCEPT ![s] = a]
      BY <1>1 DEF Answer
    <2>2. TypeOK'
      BY <1>1, <2>1 DEF Inv, TypeOK, Answer
    <2>3. Stages'
      BY <1>1, <2>1 DEF Inv, TypeOK, Stages, Answer
    <2>4. CallerKnows'
      BY <1>1 DEF Inv, CallerKnows, Answer
    <2>. QED
      BY <2>2, <2>3, <2>4 DEF Inv
  <1>2. CASE Send(s)
    <2>1. TypeOK'
      BY <1>2 DEF Inv, TypeOK, Send
    <2>2. Stages'
      BY <1>2 DEF Inv, TypeOK, Stages, Send
    <2>3. CallerKnows'
      BY <1>2 DEF Inv, CallerKnows, Send
    <2>. QED
      BY <2>1, <2>2, <2>3 DEF Inv
  <1>. QED
    BY <1>1, <1>2

(***************************************************************************)
(* The select of the worker: what it takes from its channel, or the        *)
(* timeout, goes into its own slot.                                        *)
(***************************************************************************)
LEMMA SelectInv ==
  ASSUME NEW s \in Servers, Inv, Receive(s) \/ Timeout(s)
  PROVE  Inv'
  <1>1. CASE Receive(s)
    <2>1. TypeOK'
      BY <1>1 DEF Inv, TypeOK, Receive, Fill
    <2>2. Stages'
      BY <1>1 DEF Inv, TypeOK, Stages, Receive, Fill
    <2>3. CallerKnows'
      BY <1>1 DEF Inv, TypeOK, CallerKnows, Receive, Fill
    <2>. QED
      BY <2>1, <2>2, <2>3 DEF Inv
  <1>2. CASE Timeout(s)
    <2>1. TypeOK'
      BY <1>2 DEF Inv, TypeOK, Timeout, Fill
    <2>2. Stages'
      BY <1>2 DEF Inv, TypeOK, Stages, Timeout, Fill
    <2>3. CallerKnows'
      BY <1>2 DEF Inv, TypeOK, CallerKnows, Timeout, Fill
    <2>. QED
      BY <2>1, <2>2, <2>3 DEF Inv
  <1>. QED
    BY <1>1, <1>2

(***************************************************************************)
(* Every step keeps the invariant.                                         *)
(***************************************************************************)
LEMMA NextInv == Inv /\ [Next]_vars => Inv'
  <1>1. ASSUME Inv, Next PROVE Inv'
    BY <1>1, CallerInv, StartInv, AnswerInv, SelectInv DEF Next, WorkerStep
  <1>2. ASSUME Inv, UNCHANGED vars PROVE Inv'
    BY <1>2 DEF Inv, TypeOK, Stages, CallerKnows, vars
  <1>. QED
    BY <1>1, <1>2

THEOREM Invariance == Spec => []Inv
  BY InitInv, NextInv, PTL DEF Spec

(***************************************************************************)
(* The state has its types: a server that was not chosen has no worker.    *)
(***************************************************************************)
THEOREM TypeCorrect == Spec => []TypeOK
  <1>1. Inv => TypeOK
    BY DEF Inv
  <1>. QED
    BY Invariance, <1>1, PTL

(***************************************************************************)
(* The caller gets no blank slot, and a slot holds its own server's answer *)
(* or the timeout, for any number of servers.                              *)
(***************************************************************************)
THEOREM SlotsCorrect == Spec => []EverySlotIsItsServers
  <1>1. Inv => EverySlotIsItsServers
    BY DEF Inv, TypeOK, Stages, CallerKnows, EverySlotIsItsServers
  <1>. QED
    BY Invariance, <1>1, PTL

(***************************************************************************)
(* The results a caller has are not written again: the only writers are    *)
(* workers in their select, and every worker is done by then.              *)
(***************************************************************************)
THEOREM ResultsFinal == Spec => ReturnedIsFinal
  <1>1. ASSUME Inv, [Next]_vars, caller = "returned" PROVE results' = results
    <2>1. ASSUME NEW s \in Servers PROVE ~Receive(s) /\ ~Timeout(s)
      BY <1>1 DEF Inv, TypeOK, CallerKnows, Receive, Timeout
    <2>. QED
      BY <1>1, <2>1 DEF Next, WorkerStep, FilterByCapability, Return, EnsureOpen, AlreadyOpen,
                        TimerFires, Answer, Send, vars
  <1>2. Inv /\ [Next]_vars => [caller = "returned" => results' = results]_vars
    BY <1>1
  <1>. QED
    BY Invariance, <1>2, PTL DEF Spec, ReturnedIsFinal

-----------------------------------------------------------------------------
(***************************************************************************)
(* What the gathering of answers needs to know of the responses: they are  *)
(* lists, of symbols and of tokens where the query is for these.           *)
(***************************************************************************)
\* How far the lines go down and the columns right, a length and a type.
Tokens == Nat \X Nat \X Nat \X Nat

ResponsesOK ==
  \A s \in Servers :
    /\ IsList(response[s].items)
    /\ response[s].form = "null" => response[s].items = <<>>
    /\ kind = "symbols" => Range(response[s].items) \subseteq DocSymbols
    /\ kind = "tokens" => Range(response[s].items) \subseteq Tokens

\* A list that names each server it names once.
IsOrder(o) == o \in Seq(Servers) /\ \A i, j \in DOMAIN o : o[i] = o[j] => i = j

(***************************************************************************)
(* The servers that answered in time are the ones of the list whose slot   *)
(* holds a result, each once.                                              *)
(***************************************************************************)
LEMMA AnsweredAreResponders ==
  ASSUME NEW o, IsOrder(o), Range(o) = capable
  PROVE  IsOrder(Answered(o)) /\ Range(Answered(o)) = Responders
  <1> DEFINE chosen == {i \in DOMAIN o : results[o[i]] = "result"}
             list == Answered(o)
             goal == chosen \intersect DOMAIN o
  <1>1. list = Picked(o, chosen)
    BY DEF Answered
  <1>2. o \in Seq(Servers) /\ DOMAIN o = 1 .. Len(o)
    BY DEF IsOrder
  <1>3. list \in Seq(Servers)
    BY <1>1, <1>2, PickedPlacing
  <1>4. PICK at : IsPicking(at, list, o, goal)
    BY <1>1, <1>2, PickedPlacing
  <1>5. DOMAIN list = 1 .. Len(list)
    BY <1>3
  <1>6. \A k \in DOMAIN list : at[k] \in goal /\ list[k] = o[at[k]]
    BY <1>4, <1>5 DEF IsPicking
  <1>7. \A i, j \in DOMAIN list : list[i] = list[j] => i = j
    <2>1. \A i, j \in DOMAIN list : at[i] = at[j] => i = j
      BY <1>4, <1>5 DEF IsPicking
    <2>2. \A i, j \in DOMAIN o : o[i] = o[j] => i = j
      BY DEF IsOrder
    <2>. QED
      BY <1>6, <2>1, <2>2
  <1>8. ASSUME NEW s \in Range(list) PROVE s \in Responders
    <2>1. PICK k \in DOMAIN list : s = list[k]
      BY DEF Range
    <2>. QED
      BY <2>1, <1>6 DEF Range, Responders
  <1>9. ASSUME NEW s \in Responders PROVE s \in Range(list)
    <2>1. PICK i \in DOMAIN o : s = o[i]
      BY DEF Range, Responders
    <2>2. i \in goal
      BY <2>1 DEF Responders
    <2>3. PICK k \in 1 .. Len(list) : at[k] = i
      BY <1>4, <2>2 DEF IsPicking
    <2>. QED
      BY <1>5, <1>6, <2>1, <2>3 DEF Range
  <1>. HIDE DEF list
  <1>10. Range(list) = Responders
    BY <1>8, <1>9
  <1>. QED
    BY <1>3, <1>7, <1>10 DEF list, IsOrder

(***************************************************************************)
(* All items of all answers are what the responders said, at a place for   *)
(* each: which server, and which of its items.                             *)
(***************************************************************************)
Answers(list) == [i \in DOMAIN list |-> [server |-> list[i], sent |-> response[list[i]]]]
Sayings == [s \in Servers |-> Said(s)]
Everything == UNION {Range(Said(s)) : s \in Servers}

LEMMA SayingsAreLists ==
  ASSUME ResponsesOK
  PROVE  Sayings \in [Servers -> Seq(Everything)]
  <1>1. ASSUME NEW s \in Servers PROVE Said(s) \in Seq(Everything)
    <2> DEFINE said == Said(s)
    <2>1. said \in Seq(Range(said))
      BY DEF ResponsesOK, Said, IsList
    <2>2. Range(said) \subseteq Everything
      BY DEF Everything
    <2>. HIDE DEF said
    <2>3. said \in Seq(Everything)
      BY <2>1, <2>2
    <2>. QED
      BY <2>3 DEF said
  <1>. QED
    BY <1>1 DEF Sayings

LEMMA ItemsPlaced ==
  ASSUME ResponsesOK, NEW list, IsOrder(list)
  PROVE  /\ AllItems(Answers(list)) \in Seq(Everything)
         /\ \E at : IsKeyedPlacing(at, AllItems(Answers(list)), Sayings, Range(list))
  <1> DEFINE answers == Answers(list)
             lists == [i \in DOMAIN answers |-> answers[i].sent.items]
  <1>1. DOMAIN answers = DOMAIN list /\ \A i \in DOMAIN list : answers[i].sent.items = response[list[i]].items
    BY DEF Answers
  <1>2. list \in Seq(Servers) /\ \A i \in DOMAIN list : list[i] \in Servers
    BY DEF IsOrder
  <1>3. lists = [i \in DOMAIN list |-> lists[i]] /\ \A i \in DOMAIN list : lists[i] = Sayings[list[i]]
    BY <1>1, <1>2 DEF Sayings, Said
  <1>4. AllItems(answers) = FlattenSeq(lists)
    BY DEF AllItems
  <1>5. \A i, j \in 1 .. Len(list) : list[i] = list[j] => i = j
    BY <1>2 DEF IsOrder
  <1>. HIDE DEF lists, answers
  <1>6. Sayings \in [Servers -> Seq(Everything)]
    BY SayingsAreLists
  <1>7. list \in Seq(Servers)
    BY <1>2
  <1>8. lists = [i \in DOMAIN list |-> lists[i]]
    BY <1>3
  <1>9. \A i \in DOMAIN list : lists[i] = Sayings[list[i]]
    BY <1>3
  <1>10. /\ FlattenSeq(lists) \in Seq(Everything)
         /\ \E at : IsKeyedPlacing(at, FlattenSeq(lists), Sayings, Range(list))
    BY ONLY <1>5, <1>6, <1>7, <1>8, <1>9, KeyedPlacing
  <1>. QED
    BY <1>4, <1>10 DEF answers

(***************************************************************************)
(* As many places as the responders said items.                            *)
(***************************************************************************)
LEMMA PlacesCounted ==
  ASSUME NEW all, Len(all) \in Nat, NEW at, NEW f, IsKeyedPlacing(at, all, f, Responders),
         \A s \in Responders : DOMAIN Said(s) = 1 .. Len(f[s])
  PROVE  Len(all) = TotalSaid
  <1> DEFINE C == UNION {{s} \X DOMAIN Said(s) : s \in Responders}
             m == Len(all)
  <1>1. \A c \in C : \E s \in Responders : \E i \in DOMAIN Said(s) : c = <<s, i>>
    OBVIOUS
  <1>2. \A s \in Responders : \A i \in DOMAIN Said(s) : <<s, i>> \in C
    OBVIOUS
  <1>. HIDE DEF C
  <1>3. \A n \in 1 .. m : at[n] \in Responders \X Nat /\ at[n][2] \in 1 .. Len(f[at[n][1]])
    BY DEF IsKeyedPlacing
  <1>4. \A n \in 1 .. m : at[n] \in C
    <2>1. SUFFICES ASSUME NEW n \in 1 .. m PROVE at[n] \in C
      OBVIOUS
    <2>2. at[n][1] \in Responders /\ at[n] = <<at[n][1], at[n][2]>>
      BY <1>3
    <2>3. at[n][2] \in DOMAIN Said(at[n][1])
      BY <1>3, <2>2
    <2>4. <<at[n][1], at[n][2]>> \in C
      BY <1>2, <2>2, <2>3
    <2>. QED
      BY <2>2, <2>4, Zenon
  <1>5. \A c \in C : \E n \in 1 .. m : at[n] = c
    <2>1. SUFFICES ASSUME NEW c \in C PROVE \E n \in 1 .. m : at[n] = c
      OBVIOUS
    <2>2. PICK s \in Responders : \E i \in DOMAIN Said(s) : c = <<s, i>>
      BY <1>1
    <2>3. PICK i \in DOMAIN Said(s) : c = <<s, i>>
      BY <2>2
    <2>4. i \in 1 .. Len(f[s])
      OBVIOUS
    <2>5. \E n \in 1 .. m : at[n] = <<s, i>>
      BY <2>4 DEF IsKeyedPlacing
    <2>. QED
      BY <2>3, <2>5
  <1>6. at \in [1 .. m -> C]
    BY <1>4 DEF IsKeyedPlacing
  <1>7. \A k, l \in 1 .. m : at[k] = at[l] => k = l
    BY DEF IsKeyedPlacing
  <1>8. m \in Nat
    OBVIOUS
  <1>. HIDE DEF m
  <1>9. IsFiniteSet(C) /\ Cardinality(C) = m
    BY ONLY <1>5, <1>6, <1>7, <1>8, CountOf
  <1>. QED
    BY <1>9 DEF TotalSaid, C, m

(***************************************************************************)
(* All items hold what the servers of the list said and everything that    *)
(* any of them said; those of the responders are as many as they said.     *)
(***************************************************************************)
LEMMA ItemsHold ==
  ASSUME ResponsesOK, NEW list, IsOrder(list), NEW all, all = AllItems(Answers(list))
  PROVE  /\ all \in Seq(Everything)
         /\ \A n \in DOMAIN all : \E s \in Range(list) : \E i \in DOMAIN Said(s) : all[n] = Said(s)[i]
         /\ \A s \in Range(list) : \A i \in DOMAIN Said(s) : \E n \in DOMAIN all : all[n] = Said(s)[i]
         /\ Range(list) = Responders => Len(all) = TotalSaid
  <1>1. all \in Seq(Everything)
    BY ItemsPlaced
  <1>2. PICK at : IsKeyedPlacing(at, all, Sayings, Range(list))
    BY ItemsPlaced
  <1>3. Len(all) \in Nat /\ DOMAIN all = 1 .. Len(all)
    BY <1>1
  <1>4. ASSUME NEW s \in Range(list)
        PROVE  Sayings[s] = Said(s) /\ DOMAIN Said(s) = 1 .. Len(Said(s)) /\ Len(Said(s)) \in Nat
    <2>1. s \in Servers
      BY DEF IsOrder, Range
    <2>2. Sayings \in [Servers -> Seq(Everything)]
      BY SayingsAreLists
    <2>3. Sayings[s] = Said(s)
      BY <2>1 DEF Sayings
    <2>4. Said(s) \in Seq(Everything)
      BY <2>1, <2>2, <2>3
    <2>. QED
      BY <2>3, <2>4, LenProperties
  <1>5. \A n \in 1 .. Len(all) :
          /\ at[n] \in Range(list) \X Nat
          /\ at[n][2] \in 1 .. Len(Sayings[at[n][1]]) /\ all[n] = Sayings[at[n][1]][at[n][2]]
    BY <1>2 DEF IsKeyedPlacing
  <1>6. \A n \in DOMAIN all : \E s \in Range(list) : \E i \in DOMAIN Said(s) : all[n] = Said(s)[i]
    BY <1>3, <1>4, <1>5
  <1>7. ASSUME NEW s \in Range(list), NEW i \in DOMAIN Said(s) PROVE \E n \in DOMAIN all : all[n] = Said(s)[i]
    <2>1. i \in 1 .. Len(Sayings[s])
      BY <1>4
    <2>2. PICK n \in 1 .. Len(all) : at[n] = <<s, i>>
      BY <1>2, <2>1 DEF IsKeyedPlacing
    <2>. QED
      BY <1>3, <1>4, <1>5, <2>2
  <1>8. Range(list) = Responders => Len(all) = TotalSaid
    BY <1>2, <1>3, <1>4, PlacesCounted
  <1>. QED
    BY <1>1, <1>6, <1>7, <1>8

(***************************************************************************)
(* Where nothing came out, no responder said anything.                     *)
(***************************************************************************)
LEMMA NothingSaid ==
  ASSUME ResponsesOK, NEW list, IsOrder(list), Range(list) = Responders, AllItems(Answers(list)) = <<>>
  PROVE  \A s \in Responders : Said(s) = <<>>
  <1>1. SUFFICES ASSUME NEW s \in Responders PROVE Said(s) = <<>>
    OBVIOUS
  <1>2. ASSUME NEW i \in DOMAIN Said(s) PROVE FALSE
    <2>1. PICK n \in DOMAIN AllItems(Answers(list)) : AllItems(Answers(list))[n] = Said(s)[i]
      BY ItemsHold
    <2>. QED
      BY <2>1
  <1>3. DOMAIN Said(s) = {}
    BY <1>2
  <1>4. s \in Servers
    BY DEF IsOrder, Range
  <1>5. Said(s) \in Seq(Range(Said(s)))
    BY <1>4 DEF ResponsesOK, Said, IsList
  <1>. QED
    BY <1>3, <1>5

(***************************************************************************)
(* Keeping the first item of every key merges the answers.                 *)
(***************************************************************************)
KeptItems(all) == Picked(all, {i \in DOMAIN all : \A j \in 1 .. (i - 1) : KeyOf(all[j]) # KeyOf(all[i])})

LEMMA KeptMerges ==
  ASSUME ResponsesOK, NEW list, IsOrder(list), Range(list) = Responders,
         NEW all, all = AllItems(Answers(list)), NEW kept, kept = KeptItems(all)
  PROVE  /\ kept \in Seq(Everything)
         /\ MergedIn(kept)
         /\ \A k, l \in DOMAIN kept : KeyOf(kept[k]) = KeyOf(kept[l]) => k = l
  <1> DEFINE key == [x \in Everything |-> KeyOf(x)]
             chosen == {i \in DOMAIN all : \A j \in 1 .. (i - 1) : KeyOf(all[j]) # KeyOf(all[i])}
             keys == {key[kept[n]] : n \in DOMAIN kept}
  <1>1. all \in Seq(Everything)
    BY ItemsHold
  <1>2. \A i \in DOMAIN all : all[i] \in Everything /\ key[all[i]] = KeyOf(all[i])
    BY <1>1
  <1>3. DOMAIN all = 1 .. Len(all) /\ Len(all) \in Nat
    BY <1>1
  <1>6. \A x \in Everything : key[x] = KeyOf(x)
    OBVIOUS
  <1>. HIDE DEF key
  <1>4. AreFirst(chosen, all, key)
    BY <1>2, <1>3 DEF AreFirst
  <1>5. kept = Picked(all, chosen)
    BY DEF KeptItems
  <1>a. keys = {key[kept[n]] : n \in DOMAIN kept}
    OBVIOUS
  <1>. HIDE DEF chosen, keys
  <1>7. /\ kept \in Seq(Everything)
        /\ \A k \in DOMAIN kept : \E i \in DOMAIN all : kept[k] = all[i]
        /\ \A i \in DOMAIN all : \E k \in DOMAIN kept : key[kept[k]] = key[all[i]]
        /\ \A k, l \in DOMAIN kept : key[kept[k]] = key[kept[l]] => k = l
    <2>1. kept \in Seq(Everything)
      BY ONLY <1>1, <1>4, <1>5, KeptOnce
    <2>2. \A k \in DOMAIN kept : \E i \in DOMAIN all : kept[k] = all[i]
      BY ONLY <1>1, <1>4, <1>5, KeptOnce
    <2>3. \A i \in DOMAIN all : \E k \in DOMAIN kept : key[kept[k]] = key[all[i]]
      BY ONLY <1>1, <1>4, <1>5, KeptOnce
    <2>4. \A k, l \in DOMAIN kept : key[kept[k]] = key[kept[l]] => k = l
      BY ONLY <1>1, <1>4, <1>5, KeptOnce
    <2>. QED
      BY <2>1, <2>2, <2>3, <2>4
  <1>8. \A n \in DOMAIN kept : key[kept[n]] = KeyOf(kept[n])
    BY <1>6, <1>7
  <1>9. Cardinality(Keys(kept)) = Len(kept)
    <2>1. kept \in Seq(Everything)
      BY <1>7
    <2>2. \A k, l \in DOMAIN kept : key[kept[k]] = key[kept[l]] => k = l
      BY <1>7
    <2>3. keys = Keys(kept)
      BY <1>8, <1>a DEF Keys
    <2>4. IsFiniteSet(keys) /\ Cardinality(keys) = Len(kept)
      BY ONLY <2>1, <2>2, <1>a, KeysCounted
    <2>. QED
      BY <2>3, <2>4
  <1>10. Keys(kept) = UNION {Keys(Said(s)) : s \in Responders}
    <2>1. ASSUME NEW x \in Keys(kept) PROVE \E s \in Responders : x \in Keys(Said(s))
      <3>1. PICK i \in DOMAIN all : x = KeyOf(all[i])
        BY <1>7 DEF Keys
      <3>2. PICK s \in Responders : \E j \in DOMAIN Said(s) : all[i] = Said(s)[j]
        BY ItemsHold
      <3>. QED
        BY <3>1, <3>2 DEF Keys
    <2>2. ASSUME NEW s \in Responders, NEW x \in Keys(Said(s)) PROVE x \in Keys(kept)
      <3>1. PICK j \in DOMAIN Said(s) : x = KeyOf(Said(s)[j])
        BY DEF Keys
      <3>2. PICK i \in DOMAIN all : all[i] = Said(s)[j]
        BY ItemsHold
      <3>3. PICK k \in DOMAIN kept : key[kept[k]] = key[all[i]]
        BY <1>7
      <3>4. KeyOf(kept[k]) = x
        BY <1>2, <1>8, <3>1, <3>2, <3>3
      <3>. QED
        BY <3>4 DEF Keys
    <2>. QED
      BY <2>1, <2>2
  <1>11. MergedIn(kept)
    BY <1>7, <1>9, <1>10, Zenon DEF MergedIn
  <1>. QED
    BY <1>7, <1>8, <1>11

(***************************************************************************)
(* What the queries do with the items that the servers of a list said.     *)
(***************************************************************************)
LEMMA LocationsMerge ==
  ASSUME ResponsesOK, NEW list, IsOrder(list), Range(list) = Responders,
         NEW all, all = AllItems(Answers(list))
  PROVE  /\ kind \in {"references", "implementation"} => MergedIn(DeduplicateLocations(all))
         /\ kind = "definition" => MergedIn(DeduplicateDefinitions(all))
  <1>1. SUFFICES ASSUME kind \in {"references", "implementation", "definition"}
                 PROVE  MergedIn(DeduplicateLocations(all)) /\ MergedIn(DeduplicateDefinitions(all))
    OBVIOUS
  <1>2. \A x : KeyOf(x) = <<x.uri, x.range>>
    BY <1>1 DEF KeyOf
  <1>3. DeduplicateLocations(all) = KeptItems(all)
    BY <1>2 DEF DeduplicateLocations, KeepFirst, KeptItems
  <1>4. DeduplicateDefinitions(all) = KeptItems(all)
    BY <1>2 DEF DeduplicateDefinitions, KeepFirst, KeptItems
  <1>. QED
    BY <1>3, <1>4, KeptMerges

LEMMA SignaturesMerge ==
  ASSUME ResponsesOK, NEW list, IsOrder(list), Range(list) = Responders, kind = "signature"
  PROVE  MergedIn(MergeSignatures(Answers(list)).items) /\ ~MergeSignatures(Answers(list)).error
  <1> DEFINE all == AllItems(Answers(list))
  <1>1. \A x : KeyOf(x) = x
    BY DEF KeyOf
  <1>2. MergeSignatures(Answers(list)).items = KeepFirst(LAMBDA label : label, all)
    BY DEF MergeSignatures
  <1>3. KeepFirst(LAMBDA label : label, all) = KeptItems(all)
    BY <1>1 DEF KeepFirst, KeptItems
  <1>4. ~MergeSignatures(Answers(list)).error
    BY DEF MergeSignatures
  <1>. QED
    BY <1>2, <1>3, <1>4, KeptMerges

LEMMA SymbolsMerge ==
  ASSUME ResponsesOK, NEW list, IsOrder(list), Range(list) = Responders, kind = "symbols",
         NEW all, all = AllItems(Answers(list))
  PROVE  MergedIn(DeduplicateDocumentSymbols(all))
  <1> DEFINE kept == KeptItems(all)
             merged == DeduplicateDocumentSymbols(all)
             below == CHOOSE m : m = [s \in Seq(DocSymbols) |-> MergeLevel(s, LAMBDA children : m[children])]
  <1>1. \A x : KeyOf(x) = <<x.name, x.range>>
    BY DEF KeyOf
  <1>2. kept \in Seq(Everything) /\ MergedIn(kept)
    BY KeptMerges
  <1>3. KeepSymbols(all) = kept
    BY <1>1 DEF KeepSymbols, KeepFirst, KeptItems
  <1>4. merged = [i \in DOMAIN kept |-> [kept[i] EXCEPT !.children = below[@]]]
    <2>1. merged = MergeLevel(all, LAMBDA children : below[children])
      BY DEF DeduplicateDocumentSymbols
    <2>. HIDE DEF below, merged, kept
    <2>2. merged = [i \in DOMAIN KeepSymbols(all) |-> [KeepSymbols(all)[i] EXCEPT !.children = below[@]]]
      BY <2>1 DEF MergeLevel
    <2>. QED
      BY <2>2, <1>3
  <1>. HIDE DEF kept, merged, below
  <1>5. Everything \subseteq DocSymbols
    BY DEF Everything, ResponsesOK, Said
  <1>6. \A i \in DOMAIN kept : kept[i] \in DocSymbols
    BY <1>2, <1>5
  <1>7. DOMAIN merged = DOMAIN kept /\ \A i \in DOMAIN kept : KeyOf(merged[i]) = KeyOf(kept[i])
    <2>1. DOMAIN merged = DOMAIN kept /\ \A i \in DOMAIN kept : merged[i] = [kept[i] EXCEPT !.children = below[@]]
      BY <1>4
    <2>2. ASSUME NEW i \in DOMAIN kept PROVE KeyOf(merged[i]) = KeyOf(kept[i])
      <3>1. kept[i] = [name |-> kept[i].name, range |-> kept[i].range, children |-> kept[i].children]
        BY <1>6, SymbolsAssumption
      <3>2. merged[i].name = kept[i].name /\ merged[i].range = kept[i].range
        BY <2>1, <3>1
      <3>. QED
        BY <1>1, <3>2
    <2>. QED
      BY <2>1, <2>2
  <1>8. Keys(merged) = Keys(kept)
    BY <1>7 DEF Keys
  <1>9. merged \in Seq({merged[i] : i \in DOMAIN merged}) /\ Len(merged) = Len(kept)
    <2> DEFINE n == Len(kept)
               S == {merged[i] : i \in DOMAIN merged}
    <2>1. n \in Nat /\ DOMAIN kept = 1 .. n
      BY <1>2, LenProperties
    <2>2. merged \in [1 .. n -> S]
      BY <1>4, <1>7, <2>1
    <2>. HIDE DEF n, S
    <2>3. merged \in Seq(S) /\ Len(merged) = n
      BY <2>1, <2>2
    <2>. QED
      BY <2>3 DEF n, S
  <1>10. MergedIn(merged)
    BY <1>2, <1>8, <1>9 DEF MergedIn
  <1>. QED
    BY <1>10 DEF merged

(***************************************************************************)
(* The symbols of a search leave a Go map in any order.                    *)
(***************************************************************************)
LEMMA SearchMerges ==
  ASSUME ResponsesOK, NEW list, IsOrder(list), Range(list) = Responders, kind = "search",
         NEW all, all = AllItems(Answers(list)), NEW items \in SearchResults(all)
  PROVE  MergedIn(items)
  <1> DEFINE kept == KeptItems(all)
             T == ToSet(kept)
  <1>1. \A x : KeyOf(x) = SymbolKey(x)
    BY DEF KeyOf
  <1>2. /\ kept \in Seq(Everything) /\ MergedIn(kept)
        /\ \A k, l \in DOMAIN kept : KeyOf(kept[k]) = KeyOf(kept[l]) => k = l
    BY KeptMerges
  <1>3. items \in SetToSeqs(T)
    BY <1>1 DEF SearchResults, KeepFirst, KeptItems
  <1>. HIDE DEF kept
  <1>4. T = Range(kept)
    BY DEF ToSet, Range
  <1>5. IsFiniteSet(T) /\ Cardinality(T) = Len(kept)
    <2> DEFINE n == Len(kept)
    <2>1. n \in Nat /\ DOMAIN kept = 1 .. n
      BY <1>2, LenProperties
    <2>2. kept \in [1 .. n -> T]
      BY <1>2, <1>4, <2>1 DEF Range
    <2>3. \A x \in T : \E k \in 1 .. n : kept[k] = x
      BY <1>4, <2>1 DEF Range
    <2>4. \A k, l \in 1 .. n : kept[k] = kept[l] => k = l
      BY <1>2, <2>1
    <2>5. n \in Nat
      BY <2>1
    <2>. HIDE DEF n, T
    <2>6. IsFiniteSet(T) /\ Cardinality(T) = n
      BY ONLY <2>2, <2>3, <2>4, <2>5, CountOf
    <2>. QED
      BY <2>6 DEF n
  <1>. HIDE DEF T
  <1>6. Range(items) = T /\ Len(items) = Len(kept)
    BY <1>3, <1>5, AnyOrder
  <1>7. \A i \in DOMAIN items : \E k \in DOMAIN kept : items[i] = kept[k]
    BY <1>4, <1>6 DEF Range
  <1>8. \A k \in DOMAIN kept : \E i \in DOMAIN items : items[i] = kept[k]
    BY <1>4, <1>6 DEF Range
  <1>9. Keys(items) = Keys(kept)
    BY <1>7, <1>8 DEF Keys
  <1>. QED
    BY <1>2, <1>6, <1>9 DEF MergedIn

(***************************************************************************)
(* A hover has a part of every server that said something it knows.        *)
(***************************************************************************)
LEMMA HoverTold ==
  ASSUME ResponsesOK, NEW s \in Servers
  PROVE  ExtractHoverContent(response[s]) # <<>> <=> \E i \in DOMAIN Said(s) : Said(s)[i] # "unknown"
  <1> DEFINE items == Said(s)
             known == {i \in DOMAIN items : items[i] # "unknown"}
             content == Picked(items, known)
  <1>1. items = response[s].items /\ items \in Seq(Range(items))
    BY DEF Said, ResponsesOK, IsList
  <1>2. CASE response[s].form = "null"
    <2>1. ExtractHoverContent(response[s]) = <<>>
      BY <1>2 DEF ExtractHoverContent
    <2>2. items = <<>>
      BY <1>2 DEF Said, ResponsesOK
    <2>. HIDE DEF items
    <2>3. DOMAIN items = {}
      BY <2>2
    <2>. QED
      BY <2>1, <2>3 DEF items
  <1>3. CASE response[s].form # "null"
    <2>1. ExtractHoverContent(response[s]) = content
      BY <1>3 DEF ExtractHoverContent, Said
    <2>. HIDE DEF items
    <2>2. PICK at : IsPicking(at, content, items, known \intersect DOMAIN items)
      BY <1>1, PickedPlacing
    <2>3. content \in Seq(Range(items))
      BY <1>1, PickedPlacing
    <2>. HIDE DEF content
    <2>4. content # <<>> <=> Len(content) # 0
      BY <2>3
    <2>5. DOMAIN content = 1 .. Len(content) /\ Len(content) \in Nat
      BY <2>3
    <2>6. content # <<>> => \E i \in known : TRUE
      <3>1. ASSUME content # <<>> PROVE at[1] \in known
        <4>1. 1 \in 1 .. Len(content)
          BY <3>1, <2>4, <2>5
        <4>. QED
          BY <4>1, <2>2 DEF IsPicking
      <3>. QED
        BY <3>1
    <2>7. ASSUME NEW i \in known PROVE content # <<>>
      <3>1. i \in known \intersect DOMAIN items
        OBVIOUS
      <3>2. PICK k \in 1 .. Len(content) : at[k] = i
        BY <3>1, <2>2 DEF IsPicking
      <3>. QED
        BY <3>2, <2>4, <2>5
    <2>8. content # <<>> <=> \E i \in DOMAIN items : items[i] # "unknown"
      BY <2>6, <2>7
    <2>. QED
      BY <2>1, <2>8 DEF items
  <1>. QED
    BY <1>2, <1>3

LEMMA HoversMerge ==
  ASSUME ResponsesOK, NEW list, IsOrder(list), Range(list) = Responders
  PROVE  HoversIn(HoverContents(Answers(list)))
  <1> DEFINE answers == Answers(list)
             chosen == {i \in DOMAIN answers : ExtractHoverContent(answers[i].sent) # <<>>}
             speaking == Picked(answers, chosen)
             hovers == HoverContents(answers)
             told == {s \in Responders : \E i \in DOMAIN Said(s) : Said(s)[i] # "unknown"}
             A == {answers[i] : i \in DOMAIN answers}
  <1>1. list \in Seq(Servers) /\ DOMAIN list = 1 .. Len(list) /\ Len(list) \in Nat
    BY DEF IsOrder
  <1>2. /\ DOMAIN answers = 1 .. Len(list)
        /\ \A i \in DOMAIN list : answers[i].server = list[i] /\ answers[i].sent = response[list[i]]
    BY <1>1 DEF Answers
  <1>3. answers \in [1 .. Len(list) -> A]
    BY <1>1 DEF Answers
  <1>4. DOMAIN hovers = DOMAIN speaking /\ \A i \in DOMAIN speaking : hovers[i][1] = speaking[i].server
    BY DEF HoverContents
  <1>. HIDE DEF answers, hovers, A
  <1>5. answers \in Seq(A)
    BY <1>1, <1>3, SeqDefs
  <1>6. PICK at : IsPicking(at, speaking, answers, chosen \intersect DOMAIN answers)
    BY <1>5, PickedPlacing
  <1>7. speaking \in Seq(A)
    BY <1>5, PickedPlacing
  <1>8. \A i \in DOMAIN list : i \in chosen <=> list[i] \in told
    <2>1. SUFFICES ASSUME NEW i \in DOMAIN list PROVE i \in chosen <=> list[i] \in told
      OBVIOUS
    <2>2. list[i] \in Servers /\ list[i] \in Responders
      BY <1>1 DEF Range
    <2>3. ExtractHoverContent(response[list[i]]) # <<>>
            <=> \E j \in DOMAIN Said(list[i]) : Said(list[i])[j] # "unknown"
      BY <2>2, HoverTold
    <2>4. i \in DOMAIN answers /\ answers[i].sent = response[list[i]]
      BY <1>1, <1>2
    <2>. QED
      BY <2>2, <2>3, <2>4
  <1>. HIDE DEF chosen, told, speaking
  <1>9. DOMAIN speaking = 1 .. Len(speaking)
    BY <1>7
  <1>10. \A k \in DOMAIN speaking : at[k] \in chosen /\ at[k] \in DOMAIN list /\ speaking[k].server = list[at[k]]
    <2>1. SUFFICES ASSUME NEW k \in DOMAIN speaking
                   PROVE  at[k] \in chosen /\ at[k] \in DOMAIN list /\ speaking[k].server = list[at[k]]
      OBVIOUS
    <2>2. at[k] \in chosen \intersect DOMAIN answers /\ speaking[k] = answers[at[k]]
      BY <1>6, <1>9 DEF IsPicking
    <2>. QED
      BY <1>1, <1>2, <2>2
  <1>11. ASSUME NEW s \in told PROVE \E k \in DOMAIN speaking : speaking[k].server = s
    <2>1. s \in Responders
      BY DEF told
    <2>2. PICK i \in DOMAIN list : s = list[i]
      BY <2>1 DEF Range
    <2>3. i \in chosen \intersect DOMAIN answers
      BY <1>1, <1>2, <1>8, <2>2
    <2>4. PICK k \in 1 .. Len(speaking) : at[k] = i
      BY <1>6, <2>3 DEF IsPicking
    <2>. QED
      BY <1>9, <1>10, <2>2, <2>4
  <1>12. {hovers[i][1] : i \in DOMAIN hovers} = told
    <2>1. \A i \in DOMAIN hovers : hovers[i][1] \in told
      BY <1>4, <1>8, <1>10
    <2>2. \A s \in told : \E i \in DOMAIN hovers : hovers[i][1] = s
      BY <1>4, <1>11
    <2>. QED
      BY <2>1, <2>2
  <1>. QED
    BY <1>12 DEF HoversIn, told, hovers, answers

(***************************************************************************)
(* Code actions are counted like any other items.                          *)
(***************************************************************************)
LEMMA ActionsCounted ==
  ASSUME ResponsesOK, NEW list, IsOrder(list), Range(list) = Responders,
         NEW lists, lists = [i \in DOMAIN Answers(list) |->
                               Titled(Answers(list)[i].server, Answers(list)[i].sent.items)]
  PROVE  Len(FlattenSeq(lists)) = TotalSaid
  <1> DEFINE f == [s \in Servers |-> Titled(s, Said(s))]
             S == UNION {Range(f[s]) : s \in Servers}
             all == FlattenSeq(lists)
  <1>1. list \in Seq(Servers) /\ DOMAIN list = 1 .. Len(list) /\ \A i \in DOMAIN list : list[i] \in Servers
    BY DEF IsOrder
  <1>2. ASSUME NEW s \in Servers
        PROVE  f[s] \in Seq(S) /\ Len(f[s]) = Len(Said(s)) /\ DOMAIN Said(s) = 1 .. Len(f[s])
    <2> DEFINE said == Said(s)
               n == Len(said)
               t == Titled(s, said)
    <2>1. said \in Seq(Range(said))
      BY DEF ResponsesOK, Said, IsList
    <2>. HIDE DEF said
    <2>2. n \in Nat /\ DOMAIN said = 1 .. n
      BY <2>1
    <2>3. DOMAIN t = DOMAIN said /\ t = [i \in DOMAIN said |-> t[i]]
      BY DEF Titled
    <2>. HIDE DEF t, n
    <2>4. f[s] = t
      BY DEF t, said
    <2>5. \A i \in DOMAIN t : t[i] \in S
      BY <2>4 DEF Range
    <2>. HIDE DEF S, f
    <2>6. t \in [1 .. n -> S]
      BY <2>2, <2>3, <2>5
    <2>7. t \in Seq(S) /\ Len(t) = n
      BY <2>2, <2>6
    <2>. QED
      BY <2>2, <2>4, <2>7 DEF said, n
  <1>3. lists = [i \in DOMAIN list |-> lists[i]]
    BY DEF Answers
  <1>4. \A i \in DOMAIN list : lists[i] = f[list[i]]
    BY <1>1 DEF Answers, Said
  <1>5. f = [s \in Servers |-> f[s]]
    OBVIOUS
  <1>. HIDE DEF f, S, all
  <1>6. f \in [Servers -> Seq(S)]
    BY <1>2, <1>5
  <1>7. list \in Seq(Servers)
    BY <1>1
  <1>8. \A i, j \in 1 .. Len(list) : list[i] = list[j] => i = j
    BY <1>1 DEF IsOrder
  <1>9. /\ FlattenSeq(lists) \in Seq(S)
        /\ \E at : IsKeyedPlacing(at, FlattenSeq(lists), f, Range(list))
    BY ONLY <1>3, <1>4, <1>6, <1>7, <1>8, KeyedPlacing
  <1>10. Len(all) \in Nat
    BY <1>9 DEF all
  <1>11. PICK at : IsKeyedPlacing(at, all, f, Responders)
    BY <1>9 DEF all
  <1>12. \A s \in Responders : DOMAIN Said(s) = 1 .. Len(f[s])
    BY <1>1, <1>2 DEF Range
  <1>13. Len(all) = TotalSaid
    BY <1>10, <1>11, <1>12, PlacesCounted
  <1>. QED
    BY <1>13 DEF all

(***************************************************************************)
(* Whatever the kind of the query, its caller gets what the servers that   *)
(* answered in time found.                                                 *)
(***************************************************************************)
LEMMA ResultGathers ==
  ASSUME ResponsesOK, NEW o, IsOrder(o), Range(o) = capable, kind \in Kinds,
         NEW answers, answers = AnswersOf(o), NEW all, all = AllItems(answers),
         NEW out \in Results(o, answers, all)
  PROVE  GatheredIn(out)
  <1> DEFINE list == Answered(o)
  <1>1. IsOrder(list) /\ Range(list) = Responders
    BY AnsweredAreResponders
  <1>2. answers = Answers(list)
    BY DEF AnswersOf, Answers
  <1>. HIDE DEF list
  <1>3. \A items : Found(items).items = items /\ ~Found(items).error
    BY DEF Found
  <1>4. Failed.error
    BY DEF Failed
  <1>5. all = <<>> => \A s \in Responders : Said(s) = <<>>
    BY <1>1, <1>2, NothingSaid
  <1>6. Len(all) = TotalSaid
    BY <1>1, <1>2, ItemsHold
  <1>7. DOMAIN answers = DOMAIN list /\ list \in Seq(Servers) /\ DOMAIN list = 1 .. Len(list) /\ Len(list) \in Nat
    BY <1>1, <1>2 DEF Answers, IsOrder
  <1>8. answers = <<>> => \A s \in Responders : Said(s) = <<>>
    <2>1. ASSUME answers = <<>> PROVE Responders = {}
      <3>1. DOMAIN list = {}
        BY <2>1, <1>7
      <3>. QED
        BY <3>1, <1>1 DEF Range
    <2>. QED
      BY <2>1
  <1>9. answers # <<>> => \E s \in Responders : answers[1].sent.items = Said(s)
    <2>1. ASSUME answers # <<>> PROVE 1 \in DOMAIN list
      <3>1. answers = [i \in DOMAIN list |-> answers[i]]
        BY <1>2 DEF Answers
      <3>2. Len(list) # 0
        BY <2>1, <3>1, <1>7
      <3>. QED
        BY <3>2, <1>7
    <2>2. \A i \in DOMAIN list : answers[i].sent.items = Said(list[i]) /\ list[i] \in Responders
      BY <1>1, <1>2 DEF Answers, Said, Range
    <2>. QED
      BY <2>1, <2>2
  <1>10. CASE kind = "hover"
    <2>1. out = Found(HoverContents(answers))
      BY <1>10 DEF Results, Single
    <2>2. HoversIn(HoverContents(answers))
      BY <1>1, <1>2, HoversMerge
    <2>. QED
      BY <1>3, <1>10, <2>1, <2>2 DEF GatheredIn, Merging, Concatenating
  <1>11. CASE kind = "signature"
    <2>1. out = MergeSignatures(answers)
      BY <1>11 DEF Results, Single
    <2>2. MergedIn(MergeSignatures(answers).items) /\ ~MergeSignatures(answers).error
      BY <1>1, <1>2, <1>11, SignaturesMerge
    <2>. QED
      BY <1>11, <2>1, <2>2 DEF GatheredIn, Merging, Concatenating
  <1>12. CASE kind \in {"references", "implementation"}
    <2>1. out = Found(DeduplicateLocations(all))
      BY <1>12 DEF Results, Single
    <2>2. MergedIn(DeduplicateLocations(all))
      BY <1>1, <1>2, <1>12, LocationsMerge
    <2>. QED
      BY <1>3, <1>12, <2>1, <2>2 DEF GatheredIn, Merging, Concatenating
  <1>13. CASE kind = "definition"
    <2>1. out = Found(DeduplicateDefinitions(all))
      BY <1>13 DEF Results, Single
    <2>2. MergedIn(DeduplicateDefinitions(all))
      BY <1>1, <1>2, <1>13, LocationsMerge
    <2>. QED
      BY <1>3, <1>13, <2>1, <2>2 DEF GatheredIn, Merging, Concatenating
  <1>14. CASE kind = "symbols"
    <2>1. out = Found(DeduplicateDocumentSymbols(all))
      BY <1>14 DEF Results, Single
    <2>2. MergedIn(DeduplicateDocumentSymbols(all))
      BY <1>1, <1>2, <1>14, SymbolsMerge
    <2>. QED
      BY <1>3, <1>14, <2>1, <2>2 DEF GatheredIn, Merging, Concatenating
  <1>15. CASE kind = "search"
    <2>1. PICK items \in SearchResults(all) : out = Found(items)
      BY <1>15 DEF Results, Single
    <2>2. MergedIn(items)
      BY <1>1, <1>2, <1>15, SearchMerges
    <2>. QED
      BY <1>3, <1>15, <2>1, <2>2 DEF GatheredIn, Merging, Concatenating
  <1>16. CASE kind = "searchAll"
    <2>1. out = IF all = <<>> /\ (o = <<>> \/ Len(answers) < Len(o)) THEN Failed ELSE Found(all)
      BY <1>16 DEF Results, Single
    <2>. QED
      BY <1>3, <1>4, <1>5, <1>6, <1>16, <2>1 DEF GatheredIn, Merging, Concatenating
  <1>17. CASE kind = "workspaceDiagnostics"
    <2>1. out = Found(all)
      BY <1>17 DEF Results, Single
    <2>. QED
      BY <1>3, <1>6, <1>17, <2>1 DEF GatheredIn, Merging, Concatenating
  <1>18. CASE kind = "actions"
    <2> DEFINE actions == FlattenSeq([i \in DOMAIN answers |-> Titled(answers[i].server, answers[i].sent.items)])
    <2>1. out = IF all = <<>> /\ Len(answers) < Len(o) THEN Failed ELSE Found(actions)
      BY <1>18 DEF Results, Single
    <2>2. Len(actions) = TotalSaid
      BY <1>1, <1>2, ActionsCounted
    <2>. HIDE DEF actions
    <2>. QED
      BY <1>3, <1>4, <1>5, <1>18, <2>1, <2>2 DEF GatheredIn, Merging, Concatenating
  <1>19. CASE kind = "format"
    <2>1. out = IF answers = <<>> THEN Failed ELSE Found(answers[1].sent.items)
      BY <1>19 DEF Results, Single
    <2>. QED
      BY <1>3, <1>4, <1>8, <1>9, <1>19, <2>1 DEF GatheredIn, Merging, Concatenating
  <1>20. CASE kind \in Single
    <2> DEFINE items == IF kind = "tokens" THEN SemanticTokens(answers[1].sent) ELSE all
    <2>1. out = IF answers = <<>> THEN Failed ELSE Found(items)
      BY <1>20 DEF Results, Single
    <2>. HIDE DEF items
    <2>. QED
      BY <1>3, <1>4, <1>8, <1>20, <2>1 DEF GatheredIn, Merging, Concatenating, Single
  <1>. QED
    BY <1>10, <1>11, <1>12, <1>13, <1>14, <1>15, <1>16, <1>17, <1>18, <1>19, <1>20
       DEF Kinds, Concurrent, Filtered, Unfiltered

-----------------------------------------------------------------------------
(***************************************************************************)
(* Semantic tokens.  The sums of a list are the ones that its definition   *)
(* by recursion gives.                                                     *)
(***************************************************************************)
LEMMA TotalsAre ==
  ASSUME NEW n \in Nat, NEW numbers \in [1 .. n -> Nat]
  PROVE  /\ Totals(numbers) \in [0 .. n -> Nat]
         /\ Totals(numbers)[0] = 0
         /\ \A i \in 1 .. n : Totals(numbers)[i] = Totals(numbers)[i - 1] + numbers[i]
  <1> DEFINE step == [x \in Nat \X (1 .. n) |-> x[1] + numbers[x[2]]]
             Adds(f) == f = [i \in 0 .. Len(numbers) |-> IF i = 0 THEN 0 ELSE f[i - 1] + numbers[i]]
             total == CHOOSE f : Adds(f)
  <1>1. Totals(numbers) = total
    BY DEF Totals
  <1>2. Len(numbers) = n
    BY SeqDefs, LenProperties
  <1>3. step \in [Nat \X (1 .. n) -> Nat]
    OBVIOUS
  <1>4. \A a \in Nat : \A i \in 1 .. n : step[<<a, i>>] = a + numbers[i]
    OBVIOUS
  <1>. HIDE DEF step
  <1>5. PICK zero : zero = 0
    OBVIOUS
  <1>6. \E f \in [0 .. n -> Nat] : f[0] = zero /\ \A i \in 1 .. n : f[i] = step[<<f[i - 1], i>>]
    <2>1. zero \in Nat
      BY <1>5
    <2>2. PICK f \in [0 .. n -> Nat] : IsRecursion(f, zero, step, n)
      BY <1>3, <2>1, RecursionExists
    <2>3. f[0] = zero /\ \A i \in 1 .. n : f[i] = step[<<f[i - 1], i>>]
      <3>1. \A i \in 0 .. n : f[i] = IF i = 0 THEN zero ELSE step[<<f[i - 1], i>>]
        BY <2>2 DEF IsRecursion
      <3>2. 0 \in 0 .. n /\ \A i \in 1 .. n : i \in 0 .. n /\ i # 0
        OBVIOUS
      <3>3. f[0] = zero
        BY <3>1, <3>2
      <3>4. \A i \in 1 .. n : f[i] = step[<<f[i - 1], i>>]
        BY <3>1, <3>2
      <3>. QED
        BY <3>3, <3>4
    <2>. QED
      BY <2>3
  <1>11. PICK f \in [0 .. n -> Nat] : f[0] = 0 /\ \A i \in 1 .. n : f[i] = step[<<f[i - 1], i>>]
    BY <1>5, <1>6
  <1>7. Adds(f)
    <2>1. f = [i \in 0 .. n |-> f[i]]
      BY <1>11
    <2>2. \A i \in 0 .. n : f[i] = IF i = 0 THEN 0 ELSE f[i - 1] + numbers[i]
      <3>1. \A i \in 0 .. n : i # 0 => i \in 1 .. n /\ i - 1 \in 0 .. n
        OBVIOUS
      <3>. QED
        BY <1>4, <1>11, <3>1
    <2>. QED
      BY <1>2, <2>1, <2>2
  <1>8. Adds(total)
    BY <1>7
  <1>. HIDE DEF total
  <1>9. /\ total = [i \in 0 .. n |-> total[i]]
        /\ total[0] = 0
        /\ \A i \in 1 .. n : total[i] = total[i - 1] + numbers[i]
    <2>1. total = [i \in 0 .. n |-> total[i]]
      BY <1>2, <1>8
    <2>2. \A i \in 0 .. n : total[i] = IF i = 0 THEN 0 ELSE total[i - 1] + numbers[i]
      BY <1>2, <1>8
    <2>3. 0 \in 0 .. n /\ \A i \in 1 .. n : i \in 0 .. n /\ i # 0
      OBVIOUS
    <2>4. total[0] = 0
      BY <2>2, <2>3
    <2>5. \A i \in 1 .. n : total[i] = total[i - 1] + numbers[i]
      BY <2>2, <2>3
    <2>. QED
      BY <2>1, <2>4, <2>5, Zenon
  <1>10. ASSUME NEW i \in 0 .. n PROVE total[i] \in Nat
    <2> DEFINE Bad == {k \in 0 .. n : total[k] \notin Nat}
    <2>1. SUFFICES ASSUME i \in Bad PROVE FALSE
      OBVIOUS
    <2>2. PICK k \in Bad : \A l \in Bad : k <= l
      <3>1. Bad \in SUBSET Nat
        OBVIOUS
      <3>. HIDE DEF Bad
      <3>. QED
        BY <2>1, <3>1, LeastElement
    <2>3. k \in 0 .. n /\ total[k] \notin Nat
      OBVIOUS
    <2>4. k # 0
      BY <1>9, <2>3
    <2>5. k \in 1 .. n /\ k - 1 \in 0 .. n /\ ~(k <= k - 1)
      BY <2>3, <2>4
    <2>6. total[k - 1] \in Nat /\ numbers[k] \in Nat
      BY <2>2, <2>5
    <2>7. total[k] = total[k - 1] + numbers[k]
      BY <1>9, <2>5
    <2>. QED
      BY <2>3, <2>6, <2>7
  <1>. QED
    BY <1>1, <1>9, <1>10

(***************************************************************************)
(* The last token that begins a line is the token itself, or what it was   *)
(* before it.                                                              *)
(***************************************************************************)
LEMMA NewLineIs ==
  ASSUME NEW n \in Nat, NEW data \in [1 .. n -> Tokens]
  PROVE  /\ NewLine(data, 0) = 0
         /\ \A i \in 0 .. n : NewLine(data, i) \in 0 .. i
         /\ \A i \in 1 .. n : NewLine(data, i) = IF data[i][1] > 0 THEN i ELSE NewLine(data, i - 1)
  <1> DEFINE Begin(i) == {0} \union {j \in 1 .. i : data[j][1] > 0}
  <1>1. \A i \in 0 .. n : \A j : j \in Begin(i) <=> j = 0 \/ (j \in 1 .. i /\ data[j][1] > 0)
    OBVIOUS
  <1>2. \A i \in 0 .. n : NewLine(data, i) = Max(Begin(i))
    BY DEF NewLine
  <1>. HIDE DEF Begin
  <1>3. \A i \in 0 .. n : Begin(i) \subseteq Nat
    BY <1>1
  <1> DEFINE IsLast(i, x) == x \in Begin(i) /\ \A y \in Begin(i) : x >= y
  <1>4. \A i \in 0 .. n : NewLine(data, i) = CHOOSE x : IsLast(i, x)
    BY <1>2 DEF Max
  <1>5. ASSUME NEW i \in 0 .. n, NEW x, NEW y, IsLast(i, x), IsLast(i, y) PROVE x = y
    BY <1>3, <1>5
  <1>6. IsLast(0, 0)
    BY <1>1
  <1>7. ASSUME NEW i \in 1 .. n, data[i][1] > 0 PROVE IsLast(i, i)
    BY <1>1, <1>7
  <1>8. ASSUME NEW i \in 1 .. n, ~(data[i][1] > 0), NEW x, IsLast(i - 1, x) PROVE IsLast(i, x)
    <2>1. \A j \in 1 .. i : j = i \/ j \in 1 .. (i - 1)
      OBVIOUS
    <2>2. Begin(i) = Begin(i - 1)
      <3>1. i \in 0 .. n /\ i - 1 \in 0 .. n /\ \A j \in 1 .. (i - 1) : j \in 1 .. i
        OBVIOUS
      <3>2. \A j : j \in Begin(i) <=> j \in Begin(i - 1)
        BY <1>1, <1>8, <2>1, <3>1
      <3>. QED
        BY <3>2
    <2>. QED
      BY <1>8, <2>2
  <1>. HIDE DEF IsLast
  <1>9. ASSUME NEW i \in 0 .. n PROVE \E x : IsLast(i, x)
    <2> DEFINE Bad == {k \in 0 .. n : ~\E x : IsLast(k, x)}
    <2>1. SUFFICES ASSUME i \in Bad PROVE FALSE
      OBVIOUS
    <2>2. PICK k \in Bad : \A l \in Bad : k <= l
      <3>1. Bad \in SUBSET Nat
        OBVIOUS
      <3>. HIDE DEF Bad
      <3>. QED
        BY <2>1, <3>1, LeastElement
    <2>3. k \in 0 .. n /\ ~\E x : IsLast(k, x)
      OBVIOUS
    <2>4. k # 0
      BY <1>6, <2>3
    <2>5. k \in 1 .. n /\ k - 1 \in 0 .. n /\ ~(k <= k - 1)
      BY <2>3, <2>4
    <2>6. PICK x : IsLast(k - 1, x)
      BY <2>2, <2>5
    <2>. QED
      BY <1>7, <1>8, <2>3, <2>5, <2>6
  <1>10. ASSUME NEW i \in 0 .. n PROVE IsLast(i, NewLine(data, i))
    <2>1. \E x : IsLast(i, x)
      BY <1>9
    <2>2. NewLine(data, i) = CHOOSE x : IsLast(i, x)
      BY <1>4
    <2>. QED
      BY <2>1, <2>2
  <1>11. NewLine(data, 0) = 0
    <2>1. IsLast(0, NewLine(data, 0)) /\ 0 \in 0 .. n
      BY <1>10
    <2>. QED
      BY <1>5, <1>6, <2>1
  <1>12. ASSUME NEW i \in 0 .. n PROVE NewLine(data, i) \in 0 .. i
    <2>1. NewLine(data, i) \in Begin(i)
      BY <1>10 DEF IsLast
    <2>2. NewLine(data, i) = 0 \/ NewLine(data, i) \in 1 .. i
      BY <1>1, <2>1
    <2>. QED
      BY <2>2
  <1>13. ASSUME NEW i \in 1 .. n PROVE NewLine(data, i) = IF data[i][1] > 0 THEN i ELSE NewLine(data, i - 1)
    <2>1. i \in 0 .. n /\ i - 1 \in 0 .. n
      OBVIOUS
    <2>2. IsLast(i, NewLine(data, i)) /\ IsLast(i - 1, NewLine(data, i - 1))
      BY <1>10, <2>1
    <2>3. CASE data[i][1] > 0
      <3>1. IsLast(i, i)
        BY <1>7, <2>3
      <3>2. NewLine(data, i) = i
        BY <1>5, <2>1, <2>2, <3>1
      <3>. QED
        BY <2>3, <3>2
    <2>4. CASE ~(data[i][1] > 0)
      <3>1. IsLast(i, NewLine(data, i - 1))
        BY <1>8, <2>2, <2>4
      <3>2. NewLine(data, i) = NewLine(data, i - 1)
        BY <1>5, <2>1, <2>2, <3>1
      <3>. QED
        BY <2>4, <3>2
    <2>. QED
      BY <2>3, <2>4
  <1>. QED
    BY <1>11, <1>12, <1>13

(***************************************************************************)
(* The parser is at a place after every token, and moves from one to the   *)
(* next.                                                                   *)
(***************************************************************************)
Place == [line : Nat, char : Nat]
Positions(data) ==
  CHOOSE at : at = [i \in 0 .. Len(data) |-> IF i = 0 THEN Base ELSE Move(at[i - 1], data[i])]

LEMMA MoveIs ==
  ASSUME NEW a \in Place, NEW token \in Tokens
  PROVE  /\ Move(a, token) \in Place
         /\ Move(a, token).line = a.line + token[1]
         /\ Move(a, token).char = IF token[1] > 0 THEN token[2] ELSE a.char + token[2]
  <1>1. token[1] \in Nat /\ token[2] \in Nat /\ a.line \in Nat /\ a.char \in Nat
    BY DEF Place, Tokens
  <1>2. CASE token[1] > 0
    BY <1>1, <1>2 DEF Move, Place
  <1>3. CASE ~(token[1] > 0)
    <2>1. token[1] = 0
      BY <1>1, <1>3
    <2>2. Move(a, token) = [a EXCEPT !.char = @ + token[2]]
      BY <1>3 DEF Move
    <2>3. Move(a, token).line = a.line /\ Move(a, token).char = a.char + token[2]
      BY <2>2 DEF Place
    <2>4. Move(a, token) \in Place
      BY <1>1, <2>2 DEF Place
    <2>. QED
      BY <1>1, <1>3, <2>1, <2>3, <2>4
  <1>. QED
    BY <1>2, <1>3

LEMMA PositionsAre ==
  ASSUME NEW n \in Nat, NEW data \in [1 .. n -> Tokens]
  PROVE  /\ Positions(data) \in [0 .. n -> Place]
         /\ Positions(data)[0] = Base
         /\ \A i \in 1 .. n : Positions(data)[i] = Move(Positions(data)[i - 1], data[i])
  <1> DEFINE step == [x \in Place \X (1 .. n) |-> Move(x[1], data[x[2]])]
             Moves(f) == f = [i \in 0 .. Len(data) |-> IF i = 0 THEN Base ELSE Move(f[i - 1], data[i])]
             at == Positions(data)
  <1>1. at = CHOOSE f : Moves(f)
    BY DEF Positions
  <1>2. Len(data) = n
    BY SeqDefs, LenProperties
  <1>3. \A i \in 1 .. n : data[i] \in Tokens
    OBVIOUS
  <1>4. step \in [Place \X (1 .. n) -> Place]
    BY <1>3, MoveIs
  <1>5. \A a \in Place : \A i \in 1 .. n : step[<<a, i>>] = Move(a, data[i])
    OBVIOUS
  <1>6. Base \in Place
    BY TokensAssumption DEF Place
  <1>. HIDE DEF step, at
  <1>7. PICK f \in [0 .. n -> Place] : IsRecursion(f, Base, step, n)
    BY <1>4, <1>6, RecursionExists
  <1>8. Moves(f)
    <2>1. f = [i \in 0 .. n |-> f[i]]
      OBVIOUS
    <2>2. \A i \in 0 .. n : f[i] = IF i = 0 THEN Base ELSE step[<<f[i - 1], i>>]
      BY <1>7 DEF IsRecursion
    <2>3. \A i \in 0 .. n : i # 0 => i \in 1 .. n /\ i - 1 \in 0 .. n
      OBVIOUS
    <2>4. \A i \in 0 .. n : f[i] = IF i = 0 THEN Base ELSE Move(f[i - 1], data[i])
      BY <1>5, <2>2, <2>3
    <2>. QED
      BY <1>2, <2>1, <2>4
  <1>9. Moves(at)
    BY <1>1, <1>8
  <1>10. /\ at = [i \in 0 .. n |-> at[i]]
         /\ at[0] = Base
         /\ \A i \in 1 .. n : at[i] = Move(at[i - 1], data[i])
    <2>1. at = [i \in 0 .. n |-> at[i]]
      BY <1>2, <1>9
    <2>2. \A i \in 0 .. n : at[i] = IF i = 0 THEN Base ELSE Move(at[i - 1], data[i])
      BY <1>2, <1>9
    <2>3. 0 \in 0 .. n /\ \A i \in 1 .. n : i \in 0 .. n /\ i # 0
      OBVIOUS
    <2>4. at[0] = Base
      BY <2>2, <2>3
    <2>5. \A i \in 1 .. n : at[i] = Move(at[i - 1], data[i])
      BY <2>2, <2>3
    <2>. QED
      BY <2>1, <2>4, <2>5, Zenon
  <1>11. ASSUME NEW i \in 0 .. n PROVE at[i] \in Place
    <2> DEFINE Bad == {k \in 0 .. n : at[k] \notin Place}
    <2>1. SUFFICES ASSUME i \in Bad PROVE FALSE
      OBVIOUS
    <2>2. PICK k \in Bad : \A l \in Bad : k <= l
      <3>1. Bad \in SUBSET Nat
        OBVIOUS
      <3>. HIDE DEF Bad
      <3>. QED
        BY <2>1, <3>1, LeastElement
    <2>3. k \in 0 .. n /\ at[k] \notin Place
      OBVIOUS
    <2>4. k # 0
      BY <1>6, <1>10, <2>3
    <2>5. k \in 1 .. n /\ k - 1 \in 0 .. n /\ ~(k <= k - 1)
      BY <2>3, <2>4
    <2>6. at[k - 1] \in Place /\ data[k] \in Tokens
      BY <1>3, <2>2, <2>5
    <2>7. at[k] = Move(at[k - 1], data[k])
      BY <1>10, <2>5
    <2>. QED
      BY <2>3, <2>6, <2>7, MoveIs
  <1>. QED
    BY <1>10, <1>11 DEF at

(***************************************************************************)
(* What the parser adds up on its way is what the sums say.                *)
(***************************************************************************)
LEMMA PlacesRight ==
  ASSUME NEW n \in Nat, NEW data \in [1 .. n -> Tokens], NEW i \in 0 .. n
  PROVE  /\ Positions(data)[i].line = PlaceOf(data, i).line
         /\ Positions(data)[i].char = PlaceOf(data, i).char
  <1> DEFINE at == Positions(data)
             down == Downs(data)
             right == Rights(data)
             Right(k) ==
               /\ at[k].line = Base.line + down[k]
               /\ at[k].char = IF NewLine(data, k) = 0 THEN Base.char + right[k]
                               ELSE right[k] - right[NewLine(data, k) - 1]
             Bad == {k \in 0 .. n : ~Right(k)}
  <1>1. PlaceOf(data, i).line = Base.line + down[i]
        /\ PlaceOf(data, i).char = IF NewLine(data, i) = 0 THEN Base.char + right[i]
                                   ELSE right[i] - right[NewLine(data, i) - 1]
    BY DEF PlaceOf
  <1>2. \A k \in 1 .. n : data[k] \in Tokens /\ data[k][1] \in Nat /\ data[k][2] \in Nat
    BY DEF Tokens
  <1>3. DOMAIN data = 1 .. n
    OBVIOUS
  <1>4. /\ down \in [0 .. n -> Nat] /\ down[0] = 0
        /\ \A k \in 1 .. n : down[k] = down[k - 1] + data[k][1]
    <2> DEFINE steps == [k \in 1 .. n |-> data[k][1]]
    <2>1. steps \in [1 .. n -> Nat] /\ \A k \in 1 .. n : steps[k] = data[k][1]
      BY <1>2
    <2>2. down = Totals(steps)
      BY <1>3 DEF Downs
    <2>. HIDE DEF steps, down
    <2>3. steps \in [1 .. n -> Nat]
      BY <2>1
    <2>4. /\ Totals(steps) \in [0 .. n -> Nat]
          /\ Totals(steps)[0] = 0
          /\ \A k \in 1 .. n : Totals(steps)[k] = Totals(steps)[k - 1] + steps[k]
      BY <2>3, TotalsAre
    <2>. QED
      BY <2>1, <2>2, <2>4
  <1>5. /\ right \in [0 .. n -> Nat] /\ right[0] = 0
        /\ \A k \in 1 .. n : right[k] = right[k - 1] + data[k][2]
    <2> DEFINE steps == [k \in 1 .. n |-> data[k][2]]
    <2>1. steps \in [1 .. n -> Nat] /\ \A k \in 1 .. n : steps[k] = data[k][2]
      BY <1>2
    <2>2. right = Totals(steps)
      BY <1>3 DEF Rights
    <2>. HIDE DEF steps, right
    <2>3. steps \in [1 .. n -> Nat]
      BY <2>1
    <2>4. /\ Totals(steps) \in [0 .. n -> Nat]
          /\ Totals(steps)[0] = 0
          /\ \A k \in 1 .. n : Totals(steps)[k] = Totals(steps)[k - 1] + steps[k]
      BY <2>3, TotalsAre
    <2>. QED
      BY <2>1, <2>2, <2>4
  <1>6. at \in [0 .. n -> Place] /\ at[0] = Base /\ \A k \in 1 .. n : at[k] = Move(at[k - 1], data[k])
    BY PositionsAre
  <1>7. /\ NewLine(data, 0) = 0
        /\ \A k \in 0 .. n : NewLine(data, k) \in 0 .. k
        /\ \A k \in 1 .. n : NewLine(data, k) = IF data[k][1] > 0 THEN k ELSE NewLine(data, k - 1)
    BY NewLineIs
  <1>8. Base.line \in Nat /\ Base.char \in Nat
    BY TokensAssumption
  <1>. HIDE DEF at, down, right
  <1>9. Bad = {}
    <2>. HIDE DEF Right
    <2>1. SUFFICES ASSUME NEW b \in Bad PROVE FALSE
      OBVIOUS
    <2>2. PICK k \in Bad : \A l \in Bad : k <= l
      <3>1. Bad \in SUBSET Nat
        OBVIOUS
      <3>. HIDE DEF Bad
      <3>. QED
        BY <2>1, <3>1, LeastElement
    <2>3. k \in 0 .. n /\ ~Right(k)
      OBVIOUS
    <2>4. Right(0)
      BY <1>4, <1>5, <1>6, <1>7, <1>8 DEF Right
    <2>5. k \in 1 .. n /\ k - 1 \in 0 .. n /\ ~(k <= k - 1)
      BY <2>3, <2>4
    <2>6. Right(k - 1)
      BY <2>2, <2>5
    <2> DEFINE l == k - 1
               last == NewLine(data, l)
    <2>7. /\ at[k] = Move(at[l], data[k]) /\ at[l] \in Place /\ data[k] \in Tokens
          /\ down[k] = down[l] + data[k][1] /\ right[k] = right[l] + data[k][2]
          /\ down[l] \in Nat /\ right[l] \in Nat /\ data[k][1] \in Nat /\ data[k][2] \in Nat
          /\ last \in 0 .. l /\ NewLine(data, k) = IF data[k][1] > 0 THEN k ELSE last
      BY <1>2, <1>4, <1>5, <1>6, <1>7, <2>5
    <2>8. /\ at[k].line = at[l].line + data[k][1]
          /\ at[k].char = IF data[k][1] > 0 THEN data[k][2] ELSE at[l].char + data[k][2]
      <3>1. at[l] \in Place /\ data[k] \in Tokens
        BY <2>7
      <3>2. /\ Move(at[l], data[k]).line = at[l].line + data[k][1]
            /\ Move(at[l], data[k]).char = IF data[k][1] > 0 THEN data[k][2] ELSE at[l].char + data[k][2]
        BY ONLY <3>1, MoveIs
      <3>3. at[k] = Move(at[l], data[k])
        BY <2>7
      <3>. QED
        BY ONLY <3>2, <3>3, Zenon
    <2>9. last # 0 => right[last - 1] \in Nat
      <3>1. last # 0 => last - 1 \in 0 .. n
        BY <2>5, <2>7
      <3>. QED
        BY <1>5, <3>1
    <2>. HIDE DEF last
    <2>10. /\ at[l].line = Base.line + down[l]
           /\ at[l].char = IF last = 0 THEN Base.char + right[l] ELSE right[l] - right[last - 1]
      BY <2>6 DEF Right, last
    <2>11. at[k].line = Base.line + down[k]
      BY <1>8, <2>7, <2>8, <2>10
    <2>12. at[k].char = IF NewLine(data, k) = 0 THEN Base.char + right[k] ELSE right[k] - right[NewLine(data, k) - 1]
      <3>1. CASE data[k][1] > 0
        <4>1. NewLine(data, k) = k /\ k # 0
          BY <2>5, <2>7, <3>1
        <4>2. at[k].char = data[k][2] /\ data[k][2] = right[k] - right[l]
          BY <2>7, <2>8, <3>1
        <4>. QED
          BY <4>1, <4>2
      <3>2. CASE ~(data[k][1] > 0)
        <4>1. NewLine(data, k) = last /\ at[k].char = at[l].char + data[k][2]
          BY <2>7, <2>8, <3>2
        <4>. QED
          BY <1>8, <2>7, <2>9, <2>10, <4>1
      <3>. QED
        BY <3>1, <3>2
    <2>. QED
      BY <2>3, <2>11, <2>12 DEF Right
  <1>10. Right(i)
    BY <1>9
  <1>. QED
    BY <1>1, <1>10 DEF at

LEMMA TokensAreDecoded ==
  ASSUME NEW r, r.items \in Seq(Tokens)
  PROVE  DecodedFrom(r, SemanticTokens(r))
  <1> DEFINE data == r.items
             n == Len(data)
             at == Positions(data)
             wanted == Wanted(r)
             marks == [i \in DOMAIN data |-> [line |-> at[i].line, char |-> at[i].char, length |-> data[i][3]]]
             Mark == [line : Nat, char : Nat, length : Nat]
  <1>1. n \in Nat /\ data \in [1 .. n -> Tokens] /\ DOMAIN data = 1 .. n
    OBVIOUS
  <1>2. SemanticTokens(r) = Picked(marks, wanted)
    BY DEF SemanticTokens, FindTokensByType, Wanted, Positions
  <1>3. wanted \subseteq DOMAIN data
    BY DEF Wanted
  <1>4. at \in [0 .. n -> Place]
    BY <1>1, PositionsAre
  <1>. HIDE DEF at, wanted, data, n
  <1>5. ASSUME NEW i \in 1 .. n
        PROVE  /\ marks[i] = [line |-> at[i].line, char |-> at[i].char, length |-> data[i][3]]
               /\ marks[i] \in Mark
    <2>1. at[i] \in Place /\ data[i] \in Tokens
      BY <1>1, <1>4
    <2>2. at[i].line \in Nat /\ at[i].char \in Nat /\ data[i][3] \in Nat
      BY <2>1 DEF Place, Tokens
    <2>. QED
      BY <1>1, <2>2
  <1>6. marks \in [1 .. n -> Mark] /\ DOMAIN marks = 1 .. n
    BY <1>1, <1>5
  <1>. HIDE DEF marks, Mark
  <1>7. marks \in Seq(Mark)
    BY <1>1, <1>6, SeqDefs
  <1>8. wanted = wanted \intersect DOMAIN marks
    BY <1>1, <1>3, <1>6
  <1>9. /\ Len(Picked(marks, wanted)) = Cardinality(wanted)
        /\ \A i \in wanted : Picked(marks, wanted)[Cardinality({j \in wanted : j <= i})] = marks[i]
    BY <1>7, <1>8, PickedInOrder
  <1>10. ASSUME NEW i \in wanted
         PROVE  marks[i] = [line |-> PlaceOf(data, i).line, char |-> PlaceOf(data, i).char, length |-> data[i][3]]
    <2>1. i \in 1 .. n /\ i \in 0 .. n
      BY <1>1, <1>3
    <2>2. at[i].line = PlaceOf(data, i).line /\ at[i].char = PlaceOf(data, i).char
      BY <1>1, <2>1, PlacesRight DEF at
    <2>. QED
      BY <1>5, <2>1, <2>2
  <1>. QED
    BY <1>2, <1>9, <1>10 DEF DecodedFrom, wanted, data

-----------------------------------------------------------------------------
(***************************************************************************)
(* The invariant of the queries: a concurrent query is in a state of       *)
(* FanOut; another one has asked some capable servers, each once, and has  *)
(* their answers in their slots, of one server for a query to a single     *)
(* one; and what a caller got stays gathered.                              *)
(***************************************************************************)
Shape ==
  /\ kind \in Kinds \union {"none"} /\ (kind = "none" <=> caller = "filter")
  /\ response = [s \in Servers |-> response[s]] /\ ResponsesOK
  /\ IsOrder(asked) /\ Range(asked) \subseteq capable
  /\ caller = "filter" => capable = {} /\ asked = <<>> /\ \A s \in Servers : response[s] = NoResponse

AtOnce == kind \in Concurrent \union {"none"} => Stages /\ CallerKnows

InTurn ==
  kind \notin Concurrent =>
    /\ caller = "returned" => Range(asked) = capable
    /\ kind \in Single => \A s, t \in capable : s = t
    /\ \A s \in Servers :
         /\ query[s] = "none"
         /\ s \in Range(asked) => results[s] = answer[s] /\ results[s] \in {"result", "error"}
         /\ s \notin Range(asked) => results[s] = "empty"

QueryInv == TypeOK /\ Shape /\ AtOnce /\ InTurn /\ Gathered

(***************************************************************************)
(* What was gathered stays so as long as the slots of the results, and the *)
(* responses of those that answered in time, do.                           *)
(***************************************************************************)
LEMMA StaysGathered ==
  ASSUME GatheredIn(outcome'), UNCHANGED <<kind, capable, results>>,
         \A s \in Responders : response'[s] = response[s]
  PROVE  GatheredIn(outcome)'
  <1>1. Responders' = Responders
    BY DEF Responders
  <1>2. \A s \in Responders : Said(s)' = Said(s)
    BY DEF Said
  <1>3. \A x : KeyOf(x)' = KeyOf(x)
    BY DEF KeyOf
  <1>4. \A items : Keys(items)' = Keys(items)
    BY <1>3 DEF Keys
  <1>5. TotalSaid' = TotalSaid
    BY <1>1, <1>2 DEF TotalSaid
  <1>6. \A items : MergedIn(items)' = MergedIn(items)
    BY <1>1, <1>2, <1>3, <1>4 DEF MergedIn
  <1>7. \A items : HoversIn(items)' = HoversIn(items)
    BY <1>1, <1>2 DEF HoversIn
  <1>. QED
    BY <1>1, <1>2, <1>5, <1>6, <1>7 DEF GatheredIn

(***************************************************************************)
(* Nobody was asked in the beginning.                                      *)
(***************************************************************************)
LEMMA QueryInitInv == QueryInit => QueryInv
  <1>. SUFFICES ASSUME QueryInit PROVE QueryInv
    OBVIOUS
  <1>1. Inv
    BY InitInv DEF QueryInit
  <1>2. Shape
    <2>1. IsOrder(<<>>) /\ Range(<<>>) = {}
      BY DEF IsOrder, Range
    <2>2. ResponsesOK
      <3>1. IsList(<<>>)
        BY DEF IsList, Range
      <3>2. kind # "symbols" /\ kind # "tokens"
        BY DEF QueryInit
      <3>. QED
        BY <3>1, <3>2 DEF QueryInit, ResponsesOK, NoResponse
    <2>. QED
      BY <2>1, <2>2 DEF QueryInit, Init, Shape
  <1>3. InTurn
    BY DEF QueryInit, Init, InTurn, Range
  <1>. QED
    BY <1>1, <1>2, <1>3 DEF Inv, QueryInv, AtOnce, QueryInit, Init, Gathered

(***************************************************************************)
(* Before the query nothing was sent, so its kind does not matter; and     *)
(* what nobody answered is gathered when it is nothing.                    *)
(***************************************************************************)
LEMMA BeforeQuery ==
  ASSUME QueryInv, caller = "filter", UNCHANGED response
  PROVE  ResponsesOK'
  <1>1. \A s \in Servers : response'[s] = NoResponse
    BY DEF QueryInv, Shape
  <1>2. IsList(<<>>) /\ Range(<<>>) = {}
    BY DEF IsList, Range
  <1>. QED
    BY <1>1, <1>2 DEF ResponsesOK, NoResponse

LEMMA NobodyAnswered ==
  ASSUME capable' = {}, outcome' = Failed \/ (outcome' = Found(<<>>) /\ kind' # "format")
  PROVE  GatheredIn(outcome)'
  <1>1. Responders' = {}
    BY DEF Responders
  <1>2. MergedIn(<<>>)'
    <2>1. Keys(<<>>)' = {}
      BY DEF Keys
    <2>. QED
      BY <1>1, <2>1, FS_EmptySet DEF MergedIn
  <1>3. HoversIn(<<>>)'
    BY <1>1 DEF HoversIn
  <1>4. TotalSaid' = 0
    <2>1. (UNION {{s} \X DOMAIN Said(s) : s \in Responders})' = {}
      BY <1>1
    <2>. QED
      BY <2>1, FS_EmptySet DEF TotalSaid
  <1>5. CASE outcome' = Failed
    BY <1>1, <1>5 DEF GatheredIn, Failed
  <1>6. CASE outcome' = Found(<<>>) /\ kind' # "format"
    BY <1>2, <1>3, <1>4, <1>6 DEF GatheredIn, Found
  <1>. QED
    BY <1>5, <1>6

(***************************************************************************)
(* Nothing is returned before somebody asked.                              *)
(***************************************************************************)
LEMMA NoServersKeeps ==
  ASSUME QueryInv, NEW k \in Kinds, NoServers(k)
  PROVE  QueryInv'
  <1>1. /\ capable' = {} /\ asked' = <<>> /\ kind' = k /\ caller' = "returned" /\ outcome' = Failed
        /\ kind = "none" /\ caller = "filter" /\ capable = {} /\ asked = <<>>
        /\ UNCHANGED <<worker, query, answer, channel, timer, results, response>>
    BY DEF NoServers, QueryInv, Shape
  <1>2. TypeOK'
    BY <1>1 DEF QueryInv, TypeOK
  <1>3. ResponsesOK'
    BY <1>1, BeforeQuery
  <1>4. Range(<<>>) = {} /\ IsOrder(<<>>)'
    BY DEF Range, IsOrder
  <1>5. Shape'
    BY <1>1, <1>3, <1>4 DEF QueryInv, Shape, Kinds, Concurrent, Filtered, Unfiltered, Single
  <1>6. AtOnce'
    BY <1>1 DEF QueryInv, AtOnce, Stages, CallerKnows
  <1>7. InTurn'
    BY <1>1, <1>4 DEF QueryInv, InTurn, Concurrent
  <1>8. GatheredIn(outcome)'
    BY <1>1, NobodyAnswered
  <1>. QED
    BY <1>2, <1>5, <1>6, <1>7, <1>8 DEF QueryInv, Gathered

(***************************************************************************)
(* The query begins, over the servers the caller chooses.                  *)
(***************************************************************************)
LEMMA BeginConcurrentKeeps ==
  ASSUME QueryInv, NEW k \in Kinds, BeginConcurrent(k)
  PROVE  QueryInv'
  <1>1. /\ FilterByCapability /\ kind' = k /\ k \in Concurrent /\ kind = "none" /\ caller = "filter"
        /\ asked = <<>> /\ UNCHANGED <<response, asked>>
        /\ outcome' = IF caller' = "returned" THEN Found(<<>>) ELSE Pending
    BY DEF BeginConcurrent, FilterByCapability, QueryInv, Shape
  <1>2. Inv
    BY <1>1 DEF QueryInv, AtOnce, Inv
  <1>3. Inv'
    BY <1>1, <1>2, CallerInv
  <1>4. ResponsesOK'
    BY <1>1, BeforeQuery
  <1>5. Range(<<>>) = {} /\ IsOrder(<<>>)'
    BY DEF Range, IsOrder
  <1>6. caller' # "filter" /\ (caller' = "returned" => capable' = {})
    BY <1>1 DEF FilterByCapability
  <1>7. Shape'
    BY <1>1, <1>4, <1>5, <1>6 DEF QueryInv, Shape, Concurrent
  <1>8. AtOnce' /\ InTurn'
    BY <1>1, <1>3 DEF Inv, AtOnce, InTurn
  <1>9. Gathered'
    <2>1. ASSUME caller' = "returned" PROVE GatheredIn(outcome)'
      BY <2>1, <1>1, <1>6, NobodyAnswered DEF Concurrent
    <2>. QED
      BY <2>1 DEF Gathered
  <1>. QED
    BY <1>3, <1>7, <1>8, <1>9 DEF QueryInv, Inv

LEMMA BeginLoopKeeps ==
  ASSUME QueryInv, NEW k \in Kinds, BeginLoop(k)
  PROVE  QueryInv'
  <1>1. /\ kind' = k /\ k \notin Concurrent /\ kind = "none" /\ caller = "filter" /\ caller' = "wait"
        /\ capable' \subseteq Servers /\ asked = <<>>
        /\ k \in Single => \A s, t \in capable' : s = t
        /\ UNCHANGED <<worker, query, answer, channel, timer, results, response, asked, outcome>>
    BY DEF BeginLoop, QueryInv, Shape
  <1>2. \A s \in Servers : worker[s] = "none"
    BY <1>1 DEF QueryInv, AtOnce, CallerKnows
  <1>3. TypeOK'
    BY <1>1, <1>2 DEF QueryInv, TypeOK
  <1>4. ResponsesOK'
    BY <1>1, BeforeQuery
  <1>5. Range(<<>>) = {} /\ IsOrder(<<>>)'
    BY DEF Range, IsOrder
  <1>6. Shape'
    BY <1>1, <1>4, <1>5 DEF QueryInv, Shape, Kinds, Filtered, Unfiltered, Single
  <1>7. AtOnce'
    BY <1>1 DEF AtOnce, Kinds, Filtered, Unfiltered, Single
  <1>8. InTurn'
    BY <1>1, <1>5 DEF QueryInv, InTurn, Concurrent
  <1>9. Gathered'
    BY <1>1 DEF Gathered
  <1>. QED
    BY <1>3, <1>6, <1>7, <1>8, <1>9 DEF QueryInv

(***************************************************************************)
(* One more server was asked: its response is one it may send, and its     *)
(* slot holds what its request returned.                                   *)
(***************************************************************************)
LEMMA SentIsOK ==
  ASSUME ResponsesOK, kind \in Kinds, UNCHANGED kind, NEW s \in Servers, NEW r \in Responses(kind),
         response' = [response EXCEPT ![s] = r], response = [t \in Servers |-> response[t]]
  PROVE  ResponsesOK' /\ response' = [t \in Servers |-> response'[t]]
  <1>1. /\ IsList(r.items)
        /\ r.form = "null" => r.items = <<>>
        /\ kind = "symbols" => Range(r.items) \subseteq DocSymbols
        /\ kind = "tokens" => Range(r.items) \subseteq Tokens
    BY ResponsesAssumption, SymbolsAssumption, TokensAssumption DEF IsList, Tokens
  <1>2. response'[s] = r /\ \A t \in Servers \ {s} : response'[t] = response[t]
    OBVIOUS
  <1>3. ResponsesOK'
    BY <1>1, <1>2 DEF ResponsesOK
  <1>. QED
    BY <1>3

LEMMA AskNextKeeps ==
  ASSUME QueryInv, NEW s \in Servers, AskNext(s)
  PROVE  QueryInv'
  <1>1. /\ kind \notin Concurrent /\ caller = "wait" /\ s \in capable /\ s \notin ToSet(asked)
        /\ asked' = Append(asked, s)
        /\ UNCHANGED <<capable, caller, worker, query, channel, timer, kind, outcome>>
    BY DEF AskNext
  <1>2a. PICK r \in Responses(kind) :
           /\ response' = [response EXCEPT ![s] = r]
           /\ \E a \in Returns(r) :
                /\ answer' = [answer EXCEPT ![s] = a]
                /\ results' = [results EXCEPT ![s] = a]
    BY DEF AskNext
  <1>2. PICK a \in Returns(r) :
          /\ answer' = [answer EXCEPT ![s] = a]
          /\ results' = [results EXCEPT ![s] = a]
    BY <1>2a
  <1>3. a \in {"result", "error"}
    BY DEF Returns, Outcomes2
  <1>4. kind \in Kinds
    BY <1>1 DEF QueryInv, Shape
  <1>5. s \notin Range(asked) /\ asked \in Seq(Servers) /\ DOMAIN asked = 1 .. Len(asked) /\ Len(asked) \in Nat
    BY <1>1 DEF ToSet, Range, QueryInv, Shape, IsOrder
  <1>6. Range(asked') = Range(asked) \union {s}
    <2>1. DOMAIN asked' = 1 .. (Len(asked) + 1) /\ asked'[Len(asked) + 1] = s
          /\ \A i \in DOMAIN asked : asked'[i] = asked[i]
      BY <1>1, <1>5
    <2>2. ASSUME NEW t \in Range(asked') PROVE t \in Range(asked) \union {s}
      BY <1>5, <2>1 DEF Range
    <2>3. ASSUME NEW t \in Range(asked) PROVE t \in Range(asked')
      BY <1>5, <2>1 DEF Range
    <2>4. s \in Range(asked')
      BY <1>5, <2>1 DEF Range
    <2>. QED
      BY <2>2, <2>3, <2>4
  <1>7. IsOrder(asked)'
    BY <1>1, <1>5 DEF IsOrder, QueryInv, Shape, Range
  <1>8. TypeOK'
    BY <1>1, <1>2, <1>3 DEF QueryInv, TypeOK
  <1>9. ResponsesOK' /\ response' = [t \in Servers |-> response'[t]]
    BY <1>1, <1>2a, <1>4, SentIsOK DEF QueryInv, Shape
  <1>10. Shape'
    BY <1>1, <1>6, <1>7, <1>9 DEF QueryInv, Shape
  <1>11. AtOnce'
    BY <1>1, <1>4 DEF AtOnce, Kinds, Filtered, Unfiltered, Single
  <1>12. InTurn'
    BY <1>1, <1>2, <1>3, <1>5, <1>6 DEF QueryInv, InTurn, TypeOK
  <1>13. Gathered'
    BY <1>1 DEF Gathered
  <1>. QED
    BY <1>8, <1>10, <1>11, <1>12, <1>13 DEF QueryInv

(***************************************************************************)
(* The query returns, once every server was asked or every worker is done. *)
(***************************************************************************)
LEMMA ReturnGathers ==
  ASSUME ResponsesOK, kind \in Kinds, NEW o, IsOrder(o), Range(o) = capable, ReturnResult(o),
         UNCHANGED <<kind, capable, results, response>>
  PROVE  GatheredIn(outcome)'
  <1>1. outcome' \in Results(o, AnswersOf(o), AllItems(AnswersOf(o)))
    BY DEF ReturnResult
  <1>2. GatheredIn(outcome')
    BY <1>1, ResultGathers
  <1>. QED
    BY <1>2, StaysGathered

LEMMA ReturnLoopKeeps ==
  ASSUME QueryInv, ReturnLoop
  PROVE  QueryInv'
  <1>1. /\ kind \notin Concurrent /\ caller = "wait" /\ ToSet(asked) = capable /\ caller' = "returned"
        /\ ReturnResult(asked)
        /\ UNCHANGED <<capable, worker, query, answer, channel, timer, results, kind, response, asked>>
    BY DEF ReturnLoop
  <1>2. Range(asked) = capable
    BY <1>1 DEF ToSet, Range
  <1>3. kind \in Kinds
    BY <1>1 DEF QueryInv, Shape
  <1>4. TypeOK'
    BY <1>1 DEF QueryInv, TypeOK
  <1>5. Shape'
    BY <1>1 DEF QueryInv, Shape, ResponsesOK, IsOrder
  <1>6. AtOnce'
    BY <1>1, <1>3 DEF AtOnce, Kinds, Filtered, Unfiltered, Single
  <1>7. InTurn'
    BY <1>1, <1>2 DEF QueryInv, InTurn
  <1>8. GatheredIn(outcome)'
    BY <1>1, <1>2, <1>3, ReturnGathers DEF QueryInv, Shape
  <1>. QED
    BY <1>4, <1>5, <1>6, <1>7, <1>8 DEF QueryInv, Gathered

LEMMA PanicKeeps ==
  ASSUME QueryInv, Panic
  PROVE  QueryInv'
  <1>1. /\ kind = "tokens" /\ caller = "wait" /\ caller' = "crashed"
        /\ UNCHANGED <<capable, worker, query, answer, channel, timer, results, kind, response, asked, outcome>>
    BY DEF Panic, RunsOut, queryVars
  <1>2. TypeOK'
    BY <1>1 DEF QueryInv, TypeOK
  <1>3. Shape'
    BY <1>1 DEF QueryInv, Shape, ResponsesOK, IsOrder
  <1>4. AtOnce'
    BY <1>1 DEF AtOnce, Concurrent
  <1>5. InTurn'
    BY <1>1 DEF QueryInv, InTurn
  <1>. QED
    BY <1>1, <1>2, <1>3, <1>4, <1>5 DEF QueryInv, Gathered

LEMMA ReturnConcurrentKeeps ==
  ASSUME QueryInv, ReturnConcurrent
  PROVE  QueryInv'
  <1>1. /\ kind \in Concurrent /\ Return /\ caller = "wait" /\ caller' = "returned"
        /\ asked' \in SetToSeqs(capable) /\ ReturnResult(asked')
        /\ UNCHANGED <<capable, worker, query, answer, channel, timer, results, kind, response>>
    BY DEF ReturnConcurrent, Return
  <1>2. kind \in Kinds
    BY <1>1 DEF Kinds
  <1>3. Inv
    BY <1>1 DEF QueryInv, AtOnce, Inv
  <1>4. Inv'
    BY <1>1, <1>3, CallerInv
  <1>5. IsOrder(asked') /\ Range(asked') = capable
    <2>1. capable \subseteq Servers /\ IsFiniteSet(capable)
      BY ServersAssumption, FS_Subset DEF QueryInv, TypeOK
    <2>2. /\ asked' \in Seq(capable) /\ Range(asked') = capable
          /\ \A i, j \in DOMAIN asked' : asked'[i] = asked'[j] => i = j
      BY <1>1, <2>1, AnyOrder
    <2>. QED
      BY <2>1, <2>2 DEF IsOrder
  <1>6. Shape'
    BY <1>1, <1>5 DEF QueryInv, Shape, ResponsesOK, IsOrder
  <1>7. AtOnce' /\ InTurn'
    BY <1>1, <1>4 DEF Inv, AtOnce, InTurn
  <1>8. GatheredIn(outcome)'
    BY <1>1, <1>2, <1>5, ReturnGathers DEF QueryInv, Shape
  <1>. QED
    BY <1>4, <1>6, <1>7, <1>8 DEF QueryInv, Gathered, Inv

(***************************************************************************)
(* The goroutines of a concurrent query.  A response comes before the      *)
(* answer of its server, and what a caller got rests on slots that are     *)
(* filled.                                                                 *)
(***************************************************************************)
LEMMA AnswerQueryKeeps ==
  ASSUME QueryInv, NEW s \in Servers, AnswerQuery(s)
  PROVE  QueryInv'
  <1>1. /\ query[s] = "running" /\ Answer(s)
        /\ UNCHANGED <<capable, caller, worker, channel, timer, results, kind, asked, outcome>>
    BY DEF AnswerQuery, Answer
  <1>2. PICK r \in Responses(kind) : response' = [response EXCEPT ![s] = r]
    BY DEF AnswerQuery
  <1>3. kind \in Concurrent /\ kind \in Kinds
    <2>1. kind \in Concurrent
      BY <1>1 DEF QueryInv, InTurn
    <2>. QED
      BY <2>1 DEF Kinds
  <1>4. Inv
    BY <1>3 DEF QueryInv, AtOnce, Inv
  <1>5. Inv'
    BY <1>1, <1>4, AnswerInv
  <1>6. ResponsesOK' /\ response' = [t \in Servers |-> response'[t]]
    BY <1>1, <1>2, <1>3, SentIsOK DEF QueryInv, Shape
  <1>7. caller # "filter"
    BY <1>3 DEF QueryInv, Shape, Concurrent
  <1>8. Shape'
    BY <1>1, <1>6, <1>7 DEF QueryInv, Shape, IsOrder
  <1>9. AtOnce' /\ InTurn'
    BY <1>1, <1>3, <1>5 DEF Inv, AtOnce, InTurn
  <1>10. ASSUME caller = "returned" PROVE GatheredIn(outcome)'
    <2>1. \A t \in Responders : t # s
      BY <1>1, <1>4 DEF Inv, Stages, TypeOK, Responders
    <2>2. \A t \in Responders : response'[t] = response[t]
      BY <2>1, <1>2 DEF QueryInv, Shape, TypeOK, Responders
    <2>3. GatheredIn(outcome')
      BY <1>1, <1>10 DEF QueryInv, Gathered
    <2>. QED
      BY <1>1, <2>2, <2>3, StaysGathered
  <1>11. Gathered'
    BY <1>1, <1>10 DEF Gathered
  <1>. QED
    BY <1>5, <1>8, <1>9, <1>11 DEF QueryInv, Inv

LEMMA GoroutineKeeps ==
  ASSUME QueryInv, NEW s \in Servers, Goroutine(s)
  PROVE  QueryInv'
  <1>1. /\ kind \in Concurrent /\ UNCHANGED <<kind, response, asked, outcome>>
        /\ WorkerStep(s) \/ AlreadyOpen(s) \/ TimerFires(s) \/ Send(s)
    BY DEF Goroutine, queryVars
  <1>2. Inv
    BY <1>1 DEF QueryInv, AtOnce, Inv
  <1>3. Inv'
    BY <1>1, <1>2, StartInv, AnswerInv, SelectInv DEF WorkerStep
  <1>4. UNCHANGED <<capable, caller>>
    BY <1>1 DEF WorkerStep, EnsureOpen, AlreadyOpen, TimerFires, Send, Receive, Timeout
  <1>5. Shape'
    BY <1>1, <1>4 DEF QueryInv, Shape, ResponsesOK, IsOrder
  <1>6. AtOnce' /\ InTurn'
    BY <1>1, <1>3 DEF Inv, AtOnce, InTurn
  <1>7. ASSUME caller = "returned" PROVE GatheredIn(outcome)'
    <2>1. ~Receive(s) /\ ~Timeout(s)
      BY <1>2, <1>7 DEF Inv, TypeOK, CallerKnows, Receive, Timeout
    <2>2. UNCHANGED results
      BY <1>1, <2>1 DEF WorkerStep, EnsureOpen, AlreadyOpen, TimerFires, Send
    <2>3. GatheredIn(outcome')
      BY <1>1, <1>7 DEF QueryInv, Gathered
    <2>4. \A t \in Responders : response'[t] = response[t]
      BY <1>1
    <2>. QED
      BY <1>1, <1>4, <2>2, <2>3, <2>4, StaysGathered
  <1>8. Gathered'
    BY <1>4, <1>7 DEF Gathered
  <1>. QED
    BY <1>3, <1>5, <1>6, <1>8 DEF QueryInv, Inv

(***************************************************************************)
(* Every step of a query keeps its invariant.                              *)
(***************************************************************************)
LEMMA QueryNextInv == QueryInv /\ [QueryNext]_allVars => QueryInv'
  <1>1. ASSUME QueryInv, QueryNext PROVE QueryInv'
    BY <1>1, NoServersKeeps, BeginConcurrentKeeps, BeginLoopKeeps, AskNextKeeps, ReturnLoopKeeps,
       PanicKeeps, ReturnConcurrentKeeps, AnswerQueryKeeps, GoroutineKeeps DEF QueryNext
  <1>2. ASSUME QueryInv, UNCHANGED allVars PROVE QueryInv'
    <2>1. UNCHANGED vars /\ UNCHANGED queryVars
      BY <1>2 DEF allVars
    <2>2. UNCHANGED <<capable, caller, worker, query, answer, channel, timer, results, kind, response, asked, outcome>>
      BY <2>1 DEF vars, queryVars
    <2>3. TypeOK'
      BY <1>2, <2>2 DEF QueryInv, TypeOK
    <2>4. Shape'
      BY <1>2, <2>2 DEF QueryInv, Shape, ResponsesOK, IsOrder
    <2>5. AtOnce' /\ InTurn'
      BY <1>2, <2>2 DEF QueryInv, AtOnce, InTurn, Stages, CallerKnows
    <2>6. ASSUME caller = "returned" PROVE GatheredIn(outcome)'
      BY <1>2, <2>2, <2>6, StaysGathered DEF QueryInv, Gathered
    <2>7. Gathered'
      BY <2>2, <2>6 DEF Gathered
    <2>. QED
      BY <2>3, <2>4, <2>5, <2>7 DEF QueryInv
  <1>. QED
    BY <1>1, <1>2

THEOREM QueryInvariance == QuerySpec => []QueryInv
  BY QueryInitInv, QueryNextInv, PTL DEF QuerySpec

(***************************************************************************)
(* A query gives its caller what the servers that answered in time found,  *)
(* for any servers, any responses and any order in which they come, and    *)
(* whichever of them fail, are late or cannot be decoded; and that stays   *)
(* so when late answers come after it has returned.                        *)
(***************************************************************************)
THEOREM EverythingGathered == QuerySpec => []Gathered
  <1>1. QueryInv => Gathered
    BY DEF QueryInv
  <1>. QED
    BY QueryInvariance, <1>1, PTL

(***************************************************************************)
(* Also when the queries are around it, and when servers are asked in      *)
(* turn: no slot of a server that was asked is blank or another one's, and *)
(* the returned results are not written again.                             *)
(***************************************************************************)
THEOREM QuerySlotsCorrect == QuerySpec => []EverySlotIsItsServers
  <1>1. ASSUME QueryInv PROVE EverySlotIsItsServers
    <2>1. CASE kind \in Concurrent \union {"none"}
      BY <1>1, <2>1 DEF QueryInv, AtOnce, TypeOK, Stages, CallerKnows, EverySlotIsItsServers
    <2>2. CASE kind \notin Concurrent
      BY <1>1, <2>2 DEF QueryInv, InTurn, TypeOK, Shape, EverySlotIsItsServers
    <2>. QED
      BY <2>1, <2>2
  <1>. QED
    BY QueryInvariance, <1>1, PTL

THEOREM QueryResultsFinal == QuerySpec => ReturnedIsFinal
  <1>1. ASSUME QueryInv, [QueryNext]_allVars, caller = "returned" PROVE results' = results
    <2>1. CASE UNCHANGED allVars
      BY <2>1 DEF allVars, vars
    <2>2. ASSUME NEW s \in Servers, AskNext(s) \/ AnswerQuery(s) PROVE results' = results
      BY <1>1, <2>2 DEF AskNext, AnswerQuery, Answer
    <2>3. ASSUME NEW s \in Servers, Goroutine(s) PROVE results' = results
      <3>1. ~Receive(s) /\ ~Timeout(s)
        BY <1>1, <2>3 DEF QueryInv, AtOnce, TypeOK, CallerKnows, Receive, Timeout, Goroutine
      <3>. QED
        BY <2>3, <3>1 DEF Goroutine, WorkerStep, EnsureOpen, AlreadyOpen, TimerFires, Send
    <2>4. CASE ReturnLoop \/ Panic \/ ReturnConcurrent
      BY <2>4 DEF ReturnLoop, Panic, ReturnConcurrent, Return
    <2>5. ASSUME NEW k \in Kinds, NoServers(k) \/ BeginConcurrent(k) \/ BeginLoop(k) PROVE results' = results
      BY <1>1, <2>5 DEF NoServers, BeginConcurrent, BeginLoop, FilterByCapability
    <2>. QED
      BY <1>1, <2>1, <2>2, <2>3, <2>4, <2>5 DEF QueryNext
  <1>2. QueryInv /\ [QueryNext]_allVars => [caller = "returned" => results' = results]_vars
    BY <1>1 DEF vars
  <1>. QED
    BY QueryInvariance, <1>2, PTL DEF QuerySpec, ReturnedIsFinal

(***************************************************************************)
(* What the caller of a query for tokens gets when it returns: the tokens  *)
(* in the answer of the one server that was asked.                         *)
(***************************************************************************)
LEMMA ReturnDecodes ==
  ASSUME QueryInv, ReturnLoop, kind = "tokens", ~outcome'.error, NEW s \in Responders
  PROVE  DecodedFrom(response[s], outcome'.items)
  <1> DEFINE answers == AnswersOf(asked)
             sent == response[Answered(asked)[1]]
  <1>1. IsOrder(asked) /\ Range(asked) = capable /\ ResponsesOK
    BY DEF ReturnLoop, ToSet, Range, QueryInv, Shape
  <1>2. IsOrder(Answered(asked)) /\ Range(Answered(asked)) = Responders
    BY <1>1, AnsweredAreResponders
  <1>3. outcome' \in Results(asked, answers, AllItems(answers))
    BY DEF ReturnLoop, ReturnResult
  <1>4. outcome' = IF answers = <<>> THEN Failed ELSE Found(SemanticTokens(answers[1].sent))
    BY <1>3 DEF Results, Single, Concatenating, Merging
  <1>5. Answered(asked) \in Seq(Servers) /\ Answered(asked) # <<>>
    BY <1>2 DEF IsOrder, Range
  <1>6. 1 \in DOMAIN Answered(asked) /\ Answered(asked)[1] \in Responders
    BY <1>2, <1>5 DEF Range
  <1>7. answers[1].sent = sent
    BY <1>6 DEF AnswersOf
  <1>8. outcome' = Found(SemanticTokens(sent))
    BY <1>4, <1>7 DEF Failed
  <1>9. Answered(asked)[1] = s
    BY <1>6 DEF QueryInv, InTurn, Single, Concurrent, Responders
  <1>10. s \in Servers
    BY DEF Responders, QueryInv, TypeOK
  <1>11. response[s].items \in Seq(Tokens)
    <2> DEFINE items == response[s].items
    <2>1. items \in Seq(Range(items)) /\ Range(items) \subseteq Tokens
      BY <1>1, <1>10 DEF ResponsesOK, IsList
    <2>. HIDE DEF items
    <2>2. items \in Seq(Tokens)
      BY <2>1
    <2>. QED
      BY <2>2 DEF items
  <1>12. DecodedFrom(response[s], SemanticTokens(response[s]))
    BY <1>11, TokensAreDecoded
  <1>. QED
    BY <1>8, <1>9, <1>12 DEF Found

(***************************************************************************)
(* The caller of a query for tokens gets each token of the types it looks  *)
(* for, in the order of the answer and at the place its relative encoding  *)
(* means, for any answer of the server and any start of the range.         *)
(***************************************************************************)
THEOREM EveryTokenDecoded == QuerySpec => []TokensDecoded
  <1>1. QueryInit => TokensDecoded
    BY DEF QueryInit, Init, TokensDecoded
  <1>2. ASSUME QueryInv, TokensDecoded, [QueryNext]_allVars, caller' = "returned", kind' = "tokens", ~outcome'.error,
               NEW s \in Responders'
        PROVE  DecodedFrom(response'[s], outcome'.items)
    <2>1. CASE ReturnLoop
      <3>1. UNCHANGED <<kind, capable, results, response>>
        BY <2>1 DEF ReturnLoop
      <3>2. Responders' = Responders
        BY <3>1 DEF Responders
      <3>. QED
        BY <1>2, <2>1, <3>1, <3>2, ReturnDecodes
    <2>2. CASE UNCHANGED allVars
      <3>1. UNCHANGED <<caller, kind, capable, results, response, outcome>>
        BY <2>2 DEF allVars, vars, queryVars
      <3>2. Responders' = Responders
        BY <3>1 DEF Responders
      <3>. QED
        BY <1>2, <3>1, <3>2 DEF TokensDecoded
    <2>3. ASSUME NEW k \in Kinds PROVE ~(NoServers(k) \/ BeginConcurrent(k) \/ BeginLoop(k))
      BY <1>2 DEF NoServers, Failed, BeginConcurrent, BeginLoop, Concurrent
    <2>4. ~ReturnConcurrent /\ ~Panic
      BY <1>2 DEF ReturnConcurrent, Concurrent, Panic
    <2>5. ASSUME NEW t \in Servers PROVE ~(AskNext(t) \/ AnswerQuery(t) \/ Goroutine(t))
      <3>1. ~AskNext(t)
        BY <1>2 DEF AskNext
      <3>2. ~AnswerQuery(t)
        BY <1>2 DEF AnswerQuery, Answer, QueryInv, InTurn, Concurrent
      <3>3. ~Goroutine(t)
        BY <1>2 DEF Goroutine, queryVars, Concurrent
      <3>. QED
        BY <3>1, <3>2, <3>3
    <2>. QED
      BY <1>2, <2>1, <2>2, <2>3, <2>4, <2>5 DEF QueryNext
  <1>3. QueryInv /\ TokensDecoded /\ [QueryNext]_allVars => TokensDecoded'
    BY <1>2 DEF TokensDecoded
  <1>. QED
    BY QueryInvariance, <1>1, <1>3, PTL DEF QuerySpec

-----------------------------------------------------------------------------
(***************************************************************************)
(* Trees of symbols.  What is merged, what the ways down are and whether   *)
(* anything is there twice is defined by recursion over the children: one  *)
(* step of each, from what holds of the lists of children.                 *)
(***************************************************************************)
MergedOf(merged, s) == [i \in DOMAIN KeepSymbols(s) |-> [KeepSymbols(s)[i] EXCEPT !.children = merged[@]]]

PathsOf(paths, s) ==
  UNION {{<<KeyOf(s[i])>>} \union {<<KeyOf(s[i])>> \o p : p \in paths[s[i].children]} : i \in DOMAIN s}

DistinctOf(distinct, s) ==
  /\ \A i, j \in DOMAIN s : i # j => KeyOf(s[i]) # KeyOf(s[j])
  /\ \A i \in DOMAIN s : distinct[s[i].children]

By(what, f, s) ==
  CASE what = "merged" -> MergedOf(f, s)
    [] what = "paths" -> PathsOf(f, s)
    [] what = "distinct" -> DistinctOf(f, s)

Recursions == {"merged", "paths", "distinct"}

\* The symbols that are kept are symbols of the list.
LEMMA KeptSymbolsHold ==
  ASSUME NEW D, NEW s \in Seq(D)
  PROVE  /\ KeepSymbols(s) \in Seq(D)
         /\ \A k \in DOMAIN KeepSymbols(s) : \E i \in DOMAIN s : KeepSymbols(s)[k] = s[i]
  <1> DEFINE chosen == {i \in DOMAIN s : \A j \in 1 .. (i - 1) : <<s[j].name, s[j].range>> # <<s[i].name, s[i].range>>}
  <1>1. KeepSymbols(s) = Picked(s, chosen)
    BY DEF KeepSymbols, KeepFirst
  <1>. HIDE DEF chosen
  <1>2. /\ Picked(s, chosen) \in Seq(D)
        /\ Range(Picked(s, chosen)) = {s[i] : i \in chosen \intersect DOMAIN s}
    BY PickedHolds
  <1>3. \A k \in DOMAIN Picked(s, chosen) : Picked(s, chosen)[k] \in Range(Picked(s, chosen))
    BY DEF Range
  <1>. QED
    BY <1>1, <1>2, <1>3

\* One step looks at the children of the list only.
LEMMA BySame ==
  ASSUME NEW what \in Recursions, NEW s \in Seq(DocSymbols), NEW f, NEW g,
         \A i \in DOMAIN s : f[s[i].children] = g[s[i].children]
  PROVE  By(what, f, s) = By(what, g, s)
  <1>1. CASE what = "merged"
    <2> DEFINE kept == KeepSymbols(s)
    <2>1. \A k \in DOMAIN kept : f[kept[k].children] = g[kept[k].children]
      BY KeptSymbolsHold
    <2>. HIDE DEF kept
    <2>2. \A k \in DOMAIN kept : [kept[k] EXCEPT !.children = f[@]] = [kept[k] EXCEPT !.children = g[@]]
      BY <2>1
    <2>3. [k \in DOMAIN kept |-> [kept[k] EXCEPT !.children = f[@]]] = [k \in DOMAIN kept |-> [kept[k] EXCEPT !.children = g[@]]]
      BY <2>2
    <2>. QED
      BY <1>1, <2>3 DEF By, MergedOf, kept
  <1>2. CASE what = "paths"
    <2> DEFINE P(h, i) == {<<KeyOf(s[i])>>} \union {<<KeyOf(s[i])>> \o p : p \in h[s[i].children]}
    <2>1. \A i \in DOMAIN s : P(f, i) = P(g, i)
      OBVIOUS
    <2>2. PathsOf(f, s) = UNION {P(f, i) : i \in DOMAIN s} /\ PathsOf(g, s) = UNION {P(g, i) : i \in DOMAIN s}
      BY DEF PathsOf
    <2>. HIDE DEF P
    <2>3. {P(f, i) : i \in DOMAIN s} = {P(g, i) : i \in DOMAIN s}
      BY <2>1
    <2>4. PathsOf(f, s) = PathsOf(g, s)
      BY <2>2, <2>3, Zenon
    <2>. QED
      BY <1>2, <2>4 DEF By
  <1>3. CASE what = "distinct"
    <2>1. DistinctOf(f, s) = DistinctOf(g, s)
      BY DEF DistinctOf
    <2>2. By(what, f, s) = DistinctOf(f, s) /\ By(what, g, s) = DistinctOf(g, s)
      BY <1>3, Zenon DEF By
    <2>. QED
      BY <2>1, <2>2, Zenon
  <1>. QED
    BY <1>1, <1>2, <1>3 DEF Recursions

\* The symbols with less than n levels below them.
Shallow(n) == {symbol \in DocSymbols : Depth(symbol) < n}

LEMMA MoreShallow ==
  ASSUME NEW m \in Nat, NEW n \in Nat, m <= n
  PROVE  Seq(Shallow(m)) \subseteq Seq(Shallow(n))
  <1>1. ASSUME NEW x \in Shallow(m) PROVE x \in Shallow(n)
    <2>1. x \in DocSymbols /\ Depth(x) < m
      BY DEF Shallow
    <2>2. Depth(x) \in Nat
      BY <2>1, SymbolTreesAssumption
    <2>3. Depth(x) < n
      BY <2>1, <2>2
    <2>. QED
      BY <2>1, <2>3 DEF Shallow
  <1>2. Shallow(m) \subseteq Shallow(n)
    BY <1>1
  <1>. QED
    BY <1>2, SeqMonotonic

LEMMA ShallowAreSymbols ==
  ASSUME NEW n
  PROVE  Seq(Shallow(n)) \subseteq Seq(DocSymbols)
  <1>1. Shallow(n) \subseteq DocSymbols
    BY DEF Shallow
  <1>. QED
    BY <1>1, SeqMonotonic

LEMMA ChildrenShallow ==
  ASSUME NEW n \in Nat, NEW s \in Seq(Shallow(n + 1)), NEW i \in DOMAIN s
  PROVE  s[i].children \in Seq(Shallow(n)) /\ s[i] \in DocSymbols
  <1>1. s[i] \in DocSymbols /\ Depth(s[i]) < n + 1
    <2>1. s[i] \in Shallow(n + 1)
      OBVIOUS
    <2>. QED
      BY <2>1 DEF Shallow
  <1> DEFINE x == s[i]
             E == {child \in DocSymbols : Depth(child) < Depth(x)}
  <1>2. x.children \in Seq(E) /\ Depth(x) \in Nat
    BY <1>1, SymbolTreesAssumption
  <1>3. E \subseteq Shallow(n)
    <2>1. ASSUME NEW c \in E PROVE c \in Shallow(n)
      <3>1. c \in DocSymbols /\ Depth(c) < Depth(x)
        OBVIOUS
      <3>. HIDE DEF x
      <3>2. Depth(c) \in Nat
        BY <3>1, SymbolTreesAssumption
      <3>3. Depth(x) < n + 1
        BY <1>1 DEF x
      <3>4. Depth(c) < n
        BY <1>2, <3>1, <3>2, <3>3
      <3>. QED
        BY <3>1, <3>4 DEF Shallow
    <2>. QED
      BY <2>1
  <1>. HIDE DEF E, x
  <1>4. x.children \in Seq(Shallow(n))
    BY <1>2, <1>3, SeqMonotonic
  <1>. QED
    BY <1>1, <1>4 DEF x

\* Nothing has less than no levels below it.
LEMMA NothingShallow ==
  ASSUME NEW s \in Seq(Shallow(0))
  PROVE  s = <<>> /\ DOMAIN s = {}
  <1>1. ASSUME NEW i \in 1 .. Len(s) PROVE FALSE
    <2>1. s[i] \in Shallow(0)
      OBVIOUS
    <2>2. s[i] \in DocSymbols /\ Depth(s[i]) < 0
      BY <2>1 DEF Shallow
    <2>3. Depth(s[i]) \in Nat
      BY <2>2, SymbolTreesAssumption
    <2>. QED
      BY <2>2, <2>3
  <1>2. Len(s) \in Nat /\ DOMAIN s = 1 .. Len(s)
    OBVIOUS
  <1>3. Len(s) = 0
    BY <1>1, <1>2
  <1>. QED
    BY <1>3, EmptySeq

\* The recursion over lists with less than n levels.
IsBy(what, f, n) == f = [s \in Seq(Shallow(n)) |-> By(what, f, s)]

LEMMA ByNothing ==
  ASSUME NEW what \in Recursions
  PROVE  \E f : IsBy(what, f, 0)
  <1> DEFINE f == [s \in Seq(Shallow(0)) |-> By(what, <<>>, s)]
  <1>1. f = [s \in Seq(Shallow(0)) |-> f[s]] /\ \A s \in Seq(Shallow(0)) : f[s] = By(what, <<>>, s)
    OBVIOUS
  <1>. HIDE DEF f
  <1>2. ASSUME NEW s \in Seq(Shallow(0)) PROVE f[s] = By(what, f, s)
    <2>1. s \in Seq(DocSymbols)
      BY ShallowAreSymbols
    <2>2. \A i \in DOMAIN s : f[s[i].children] = <<>>[s[i].children]
      BY NothingShallow
    <2>3. By(what, f, s) = By(what, <<>>, s)
      BY <2>1, <2>2, BySame
    <2>. QED
      BY <1>1, <2>3
  <1>3. f = [s \in Seq(Shallow(0)) |-> By(what, f, s)]
    BY <1>1, <1>2
  <1>. QED
    BY <1>3 DEF IsBy

LEMMA ByMore ==
  ASSUME NEW what \in Recursions, NEW n \in Nat, NEW f, IsBy(what, f, n)
  PROVE  \E g : IsBy(what, g, n + 1)
  <1> DEFINE X == Seq(Shallow(n + 1))
             g == [s \in X |-> By(what, f, s)]
  <1>1. g = [s \in X |-> g[s]] /\ \A s \in X : g[s] = By(what, f, s)
    OBVIOUS
  <1>2. \A s \in Seq(Shallow(n)) : f[s] = By(what, f, s)
    <2>. DEFINE Y == Seq(Shallow(n))
    <2>1. f = [s \in Y |-> By(what, f, s)]
      BY DEF IsBy
    <2>. HIDE DEF Y
    <2>2. \A s \in Y : f[s] = By(what, f, s)
      BY <2>1
    <2>. QED
      BY <2>2 DEF Y
  <1>. HIDE DEF g
  <1>3. \A s \in Seq(Shallow(n)) : g[s] = f[s]
    <2>1. n + 1 \in Nat /\ n <= n + 1
      OBVIOUS
    <2>2. Seq(Shallow(n)) \subseteq X
      BY <2>1, MoreShallow
    <2>. QED
      BY <1>1, <1>2, <2>2
  <1>4. ASSUME NEW s \in X PROVE g[s] = By(what, g, s)
    <2>1. s \in Seq(DocSymbols)
      BY ShallowAreSymbols
    <2>2. \A i \in DOMAIN s : s[i].children \in Seq(Shallow(n))
      BY ChildrenShallow
    <2>3. \A i \in DOMAIN s : f[s[i].children] = g[s[i].children]
      BY <1>3, <2>2
    <2>4. By(what, f, s) = By(what, g, s)
      BY <2>1, <2>3, BySame
    <2>. QED
      BY <1>1, <2>4
  <1>5. g = [s \in X |-> By(what, g, s)]
    BY <1>1, <1>4
  <1>. QED
    BY <1>5 DEF IsBy

LEMMA ByExists ==
  ASSUME NEW what \in Recursions, NEW n \in Nat
  PROVE  \E f : IsBy(what, f, n)
  <1> DEFINE Bad == {m \in Nat : ~\E f : IsBy(what, f, m)}
  <1>1. SUFFICES ASSUME n \in Bad PROVE FALSE
    OBVIOUS
  <1>2. PICK m \in Bad : \A k \in Bad : m <= k
    <2>1. Bad \in SUBSET Nat
      OBVIOUS
    <2>. HIDE DEF Bad
    <2>. QED
      BY <1>1, <2>1, LeastElement
  <1>3. m \in Nat /\ ~\E f : IsBy(what, f, m)
    OBVIOUS
  <1>4. m # 0
    BY <1>3, ByNothing
  <1> DEFINE l == m - 1
  <1>5. l \in Nat /\ l + 1 = m /\ ~(m <= l)
    BY <1>3, <1>4
  <1>. HIDE DEF l
  <1>6. l \notin Bad
    <2>. HIDE DEF Bad
    <2>. QED
      BY <1>2, <1>5
  <1>7. PICK f : IsBy(what, f, l)
    BY <1>5, <1>6
  <1>8. \E g : IsBy(what, g, l + 1)
    BY <1>5, <1>7, ByMore
  <1>. QED
    BY <1>3, <1>5, <1>8

\* There is one recursion over the lists with less than k levels.
LEMMA BysAgree ==
  ASSUME NEW what \in Recursions, NEW f, NEW g, NEW k \in Nat,
         \A s \in Seq(Shallow(k)) : f[s] = By(what, f, s) /\ g[s] = By(what, g, s)
  PROVE  \A s \in Seq(Shallow(k)) : f[s] = g[s]
  <1> DEFINE Differ(m) == m <= k /\ \E s \in Seq(Shallow(m)) : f[s] # g[s]
             Bad == {m \in Nat : Differ(m)}
  <1> HIDE DEF Differ
  <1>1. SUFFICES ASSUME k \in Bad PROVE FALSE
    BY DEF Differ
  <1>2. PICK m \in Bad : \A l \in Bad : m <= l
    <2>1. Bad \in SUBSET Nat
      OBVIOUS
    <2>. HIDE DEF Bad
    <2>. QED
      BY <1>1, <2>1, LeastElement
  <1>3. m \in Nat /\ m <= k
    BY DEF Differ
  <1>4. PICK s \in Seq(Shallow(m)) : f[s] # g[s]
    BY DEF Differ
  <1>5. s \in Seq(Shallow(k)) /\ s \in Seq(DocSymbols)
    BY <1>3, MoreShallow, ShallowAreSymbols
  <1>6. f[s] = By(what, f, s) /\ g[s] = By(what, g, s)
    BY <1>5
  <1>7. \A i \in DOMAIN s : f[s[i].children] = g[s[i].children]
    <2>1. CASE m = 0
      BY <2>1, NothingShallow
    <2>2. CASE m # 0
      <3> DEFINE l == m - 1
      <3>1. l \in Nat /\ l + 1 = m /\ ~(m <= l) /\ l <= k
        BY <1>3, <2>2
      <3>. HIDE DEF l
      <3>2. ~Differ(l)
        BY <1>2, <3>1
      <3>3. \A t \in Seq(Shallow(l)) : f[t] = g[t]
        BY <3>1, <3>2 DEF Differ
      <3>4. s \in Seq(Shallow(l + 1))
        BY <3>1
      <3>5. \A i \in DOMAIN s : s[i].children \in Seq(Shallow(l))
        BY <3>1, <3>4, ChildrenShallow
      <3>. QED
        BY <3>3, <3>5
    <2>. QED
      BY <2>1, <2>2
  <1>8. By(what, f, s) = By(what, g, s)
    BY <1>5, <1>7, BySame
  <1>. QED
    BY <1>4, <1>6, <1>8

\* A list has a symbol with the most levels below it.
LEMMA ListIsShallow ==
  ASSUME NEW s \in Seq(DocSymbols)
  PROVE  \E n \in Nat : s \in Seq(Shallow(n))
  <1> DEFINE Bounded(m) == \E n \in Nat : \A i \in 1 .. m : Depth(s[i]) < n
             Bad == {m \in 0 .. Len(s) : ~Bounded(m)}
  <1> HIDE DEF Bounded
  <1>0. Len(s) \in Nat /\ \A i \in 1 .. Len(s) : s[i] \in DocSymbols /\ Depth(s[i]) \in Nat
    <2>1. \A i \in 1 .. Len(s) : s[i] \in DocSymbols
      BY ElementOfSeq
    <2>2. \A x \in DocSymbols : Depth(x) \in Nat
      BY SymbolTreesAssumption
    <2>3. Len(s) \in Nat
      OBVIOUS
    <2>. QED
      BY <2>1, <2>2, <2>3
  <1>1. Len(s) \notin Bad
    <2>1. SUFFICES ASSUME Len(s) \in Bad PROVE FALSE
      OBVIOUS
    <2>2. PICK m \in Bad : \A k \in Bad : m <= k
      <3>1. Bad \in SUBSET Nat
        BY <1>0
      <3>. HIDE DEF Bad
      <3>. QED
        BY <2>1, <3>1, LeastElement
    <2>3. m \in 0 .. Len(s) /\ ~Bounded(m)
      OBVIOUS
    <2>4. m # 0
      <3>1. Bounded(0)
        <4>1. \A i \in 1 .. 0 : Depth(s[i]) < 0
          OBVIOUS
        <4>. QED
          BY <4>1 DEF Bounded
      <3>. QED
        BY <2>3, <3>1
    <2> DEFINE l == m - 1
    <2>5. l \in 0 .. Len(s) /\ l + 1 = m /\ m \in 1 .. Len(s) /\ ~(m <= l)
      BY <1>0, <2>3, <2>4
    <2>. HIDE DEF l
    <2>6. Bounded(l)
      BY <2>2, <2>5
    <2>7. PICK n \in Nat : \A i \in 1 .. l : Depth(s[i]) < n
      BY <2>6 DEF Bounded
    <2> DEFINE d == Depth(s[m])
    <2>8. d \in Nat
      BY <1>0, <2>5
    <2>9. ASSUME NEW i \in 1 .. m PROVE Depth(s[i]) < n + d + 1
      <3>1. i = m \/ i \in 1 .. l
        BY <1>0, <2>5
      <3>2. CASE i = m
        <4>1. d < n + d + 1
          BY <2>8
        <4>. QED
          BY <3>2, <4>1
      <3>3. CASE i \in 1 .. l
        <4> DEFINE e == Depth(s[i])
        <4>1. e < n /\ e \in Nat
          BY <1>0, <2>5, <2>7, <3>3
        <4>. HIDE DEF d, e
        <4>2. e < n + d + 1
          BY <2>8, <4>1
        <4>. QED
          BY <4>2 DEF d, e
      <3>. QED
        BY <3>1, <3>2, <3>3
    <2>10. n + d + 1 \in Nat
      BY <2>8
    <2>. QED
      BY <2>3, <2>9, <2>10 DEF Bounded
  <1>2. PICK n \in Nat : \A i \in 1 .. Len(s) : Depth(s[i]) < n
    <2>1. Bounded(Len(s))
      BY <1>0, <1>1
    <2>. QED
      BY <2>1 DEF Bounded
  <1>3. \A i \in 1 .. Len(s) : s[i] \in Shallow(n)
    BY <1>0, <1>2 DEF Shallow
  <1>4. s \in [1 .. Len(s) -> Shallow(n)]
    <2>1. s \in [1 .. Len(s) -> DocSymbols]
      BY LenProperties
    <2>. QED
      BY <1>3, <2>1
  <1>. QED
    BY <1>0, <1>4, SeqDefs

\* How many levels a list has below its symbols, and the recursion over such lists.
Levels(s) == CHOOSE n \in Nat : s \in Seq(Shallow(n))
ByUpTo(what, n) == CHOOSE f : IsBy(what, f, n)

LEMMA LevelsHold ==
  ASSUME NEW s \in Seq(DocSymbols)
  PROVE  Levels(s) \in Nat /\ s \in Seq(Shallow(Levels(s)))
  BY ListIsShallow DEF Levels

LEMMA ByUpToHolds ==
  ASSUME NEW what \in Recursions, NEW n \in Nat
  PROVE  \A s \in Seq(Shallow(n)) : ByUpTo(what, n)[s] = By(what, ByUpTo(what, n), s)
  <1> DEFINE f == ByUpTo(what, n)
             X == Seq(Shallow(n))
  <1>1. \E g : IsBy(what, g, n)
    BY ByExists
  <1>2. IsBy(what, f, n)
    BY <1>1 DEF ByUpTo
  <1>. HIDE DEF f
  <1>3. f = [s \in X |-> By(what, f, s)]
    BY <1>2 DEF IsBy
  <1>. HIDE DEF X
  <1>4. \A s \in X : f[s] = By(what, f, s)
    BY <1>3
  <1>. QED
    BY <1>4 DEF X, f

\* The recursions over lists of any two depths agree on what both are over.
LEMMA AnyLevel ==
  ASSUME NEW what \in Recursions, NEW n \in Nat, NEW s \in Seq(Shallow(n))
  PROVE  ByUpTo(what, n)[s] = ByUpTo(what, Levels(s))[s]
  <1> DEFINE m == Levels(s)
             f == ByUpTo(what, n)
             g == ByUpTo(what, m)
  <1>1. m \in Nat /\ s \in Seq(Shallow(m))
    BY ShallowAreSymbols, LevelsHold
  <1>2. \A t \in Seq(Shallow(n)) : f[t] = By(what, f, t)
    BY ByUpToHolds
  <1>. HIDE DEF m
  <1>3. \A t \in Seq(Shallow(m)) : g[t] = By(what, g, t)
    BY <1>1, ByUpToHolds
  <1>. HIDE DEF f, g
  <1>4. CASE m <= n
    <2>1. \A t \in Seq(Shallow(m)) : f[t] = By(what, f, t) /\ g[t] = By(what, g, t)
      BY <1>1, <1>2, <1>3, <1>4, MoreShallow
    <2>2. f[s] = g[s]
      BY <1>1, <2>1, BysAgree
    <2>. QED
      BY <2>2 DEF f, g, m
  <1>5. CASE n <= m
    <2>1. \A t \in Seq(Shallow(n)) : f[t] = By(what, f, t) /\ g[t] = By(what, g, t)
      BY <1>1, <1>2, <1>3, <1>5, MoreShallow
    <2>2. f[s] = g[s]
      BY <2>1, BysAgree
    <2>. QED
      BY <2>2 DEF f, g, m
  <1>. QED
    BY <1>1, <1>4, <1>5

\* A function over all lists that the recursion defines.
IsWhole(what, f) == f = [s \in Seq(DocSymbols) |-> By(what, f, s)]

LEMMA WholeExists ==
  ASSUME NEW what \in Recursions
  PROVE  \E f : IsWhole(what, f)
  <1> DEFINE X == Seq(DocSymbols)
             whole == [s \in X |-> ByUpTo(what, Levels(s))[s]]
  <1>1. \A s \in X : whole[s] = ByUpTo(what, Levels(s))[s]
    OBVIOUS
  <1>2. whole = [s \in X |-> whole[s]]
    OBVIOUS
  <1>. HIDE DEF whole
  <1>3. ASSUME NEW s \in X PROVE whole[s] = By(what, whole, s)
    <2> DEFINE n == Levels(s)
               f == ByUpTo(what, n)
    <2>1. n \in Nat /\ s \in Seq(Shallow(n))
      BY LevelsHold
    <2>. HIDE DEF n
    <2>2. f[s] = By(what, f, s)
      BY <2>1, ByUpToHolds
    <2>3. n <= n + 1 /\ n + 1 \in Nat
      BY <2>1
    <2>4. s \in Seq(Shallow(n + 1))
      BY <2>1, <2>3, MoreShallow
    <2>5. ASSUME NEW i \in DOMAIN s PROVE f[s[i].children] = whole[s[i].children]
      <3> DEFINE c == s[i].children
      <3>1. c \in Seq(Shallow(n))
        BY <2>1, <2>4, ChildrenShallow
      <3>. HIDE DEF c
      <3>2. c \in X
        BY <3>1, ShallowAreSymbols
      <3>3. ByUpTo(what, n)[c] = ByUpTo(what, Levels(c))[c]
        BY <2>1, <3>1, AnyLevel
      <3>4. f[c] = whole[c]
        BY <1>1, <3>2, <3>3
      <3>. QED
        BY <3>4 DEF c
    <2>6. By(what, f, s) = By(what, whole, s)
      <3>. HIDE DEF f
      <3>. QED
        BY <2>5, BySame
    <2>7. whole[s] = f[s]
      BY <1>1 DEF n
    <2>. QED
      BY <2>2, <2>6, <2>7, Zenon
  <1>. HIDE DEF X
  <1>4. [s \in X |-> whole[s]] = [s \in X |-> By(what, whole, s)]
    BY <1>3, Zenon
  <1>5. whole = [s \in X |-> By(what, whole, s)]
    BY <1>2, <1>4, Zenon
  <1>6. IsWhole(what, whole)
    BY <1>5, Zenon DEF IsWhole, X
  <1>. QED
    BY <1>6

\* A symbol's children are symbols.
LEMMA ChildrenAreSymbols ==
  ASSUME NEW s \in Seq(DocSymbols), NEW i \in DOMAIN s
  PROVE  s[i] \in DocSymbols /\ s[i].children \in Seq(DocSymbols)
  <1>1. s[i] \in DocSymbols
    OBVIOUS
  <1> DEFINE x == s[i]
             E == {child \in DocSymbols : Depth(child) < Depth(x)}
  <1>2. x.children \in Seq(E)
    BY <1>1, SymbolTreesAssumption
  <1>3. E \subseteq DocSymbols
    OBVIOUS
  <1>. HIDE DEF E, x
  <1>4. x.children \in Seq(DocSymbols)
    BY <1>2, <1>3, SeqMonotonic
  <1>. QED
    BY <1>1, <1>4 DEF x

(***************************************************************************)
(* The definitions by recursion say what they were meant to say.           *)
(***************************************************************************)
LEMMA PathsAre ==
  ASSUME NEW symbols \in Seq(DocSymbols)
  PROVE  Paths(symbols) =
           UNION {{<<KeyOf(symbols[i])>>} \union {<<KeyOf(symbols[i])>> \o p : p \in Paths(symbols[i].children)} :
                    i \in DOMAIN symbols}
  <1> DEFINE X == Seq(DocSymbols)
             Recursion(f) ==
               f = [s \in X |->
                      UNION {{<<KeyOf(s[i])>>} \union {<<KeyOf(s[i])>> \o p : p \in f[s[i].children]} : i \in DOMAIN s}]
             paths == CHOOSE f : Recursion(f)
  <1>1. \A s : Paths(s) = paths[s]
    BY Zenon DEF Paths
  <1>2. PICK f : IsWhole("paths", f)
    BY WholeExists DEF Recursions
  <1>3. \A s : By("paths", f, s) = PathsOf(f, s)
    BY Zenon DEF By
  <1>4. Recursion(f)
    <2>1. f = [s \in X |-> By("paths", f, s)]
      BY <1>2, Zenon DEF IsWhole
    <2>. HIDE DEF X
    <2>2. [s \in X |-> By("paths", f, s)] = [s \in X |-> PathsOf(f, s)]
      BY <1>3, Zenon
    <2>3. f = [s \in X |-> PathsOf(f, s)]
      BY <2>1, <2>2, Zenon
    <2>. QED
      BY <2>3, Zenon DEF PathsOf
  <1>5. Recursion(paths)
    <2>. HIDE DEF Recursion
    <2>. QED
      BY <1>4
  <1>6. \A s \in X : paths[s] = PathsOf(paths, s)
    <2>. HIDE DEF paths, X
    <2>1. paths = [s \in X |-> PathsOf(paths, s)]
      BY <1>5, Zenon DEF PathsOf
    <2>. QED
      BY <2>1, Zenon
  <1>. HIDE DEF paths, Recursion
  <1> DEFINE Q(i, below) == {<<KeyOf(symbols[i])>>} \union {<<KeyOf(symbols[i])>> \o p : p \in below}
  <1>7. \A i \in DOMAIN symbols : Q(i, paths[symbols[i].children]) = Q(i, Paths(symbols[i].children))
    BY <1>1, Zenon
  <1>8. paths[symbols] = UNION {Q(i, paths[symbols[i].children]) : i \in DOMAIN symbols}
    BY <1>6, Zenon DEF PathsOf
  <1>. HIDE DEF Q
  <1>9. {Q(i, paths[symbols[i].children]) : i \in DOMAIN symbols} = {Q(i, Paths(symbols[i].children)) : i \in DOMAIN symbols}
    BY <1>7
  <1>10. Paths(symbols) = UNION {Q(i, Paths(symbols[i].children)) : i \in DOMAIN symbols}
    BY <1>1, <1>8, <1>9, Zenon
  <1>. QED
    BY <1>10, Zenon DEF Q

LEMMA NothingTwiceIs ==
  ASSUME NEW symbols \in Seq(DocSymbols)
  PROVE  NothingTwice(symbols) <=>
           /\ \A i, j \in DOMAIN symbols : i # j => KeyOf(symbols[i]) # KeyOf(symbols[j])
           /\ \A i \in DOMAIN symbols : NothingTwice(symbols[i].children)
  <1> DEFINE X == Seq(DocSymbols)
             Recursion(f) ==
               f = [s \in X |->
                      /\ \A i, j \in DOMAIN s : i # j => KeyOf(s[i]) # KeyOf(s[j])
                      /\ \A i \in DOMAIN s : f[s[i].children]]
             distinct == CHOOSE f : Recursion(f)
  <1>1. \A s : NothingTwice(s) = distinct[s]
    BY Zenon DEF NothingTwice
  <1>2. PICK f : IsWhole("distinct", f)
    BY WholeExists DEF Recursions
  <1>3. \A s : By("distinct", f, s) = DistinctOf(f, s)
    BY Zenon DEF By
  <1>4. Recursion(f)
    <2>1. f = [s \in X |-> By("distinct", f, s)]
      BY <1>2, Zenon DEF IsWhole
    <2>. HIDE DEF X
    <2>2. [s \in X |-> By("distinct", f, s)] = [s \in X |-> DistinctOf(f, s)]
      BY <1>3, Zenon
    <2>3. f = [s \in X |-> DistinctOf(f, s)]
      BY <2>1, <2>2, Zenon
    <2>. QED
      BY <2>3, Zenon DEF DistinctOf
  <1>5. Recursion(distinct)
    <2>. HIDE DEF Recursion
    <2>. QED
      BY <1>4
  <1>6. \A s \in X : distinct[s] = DistinctOf(distinct, s)
    <2>. HIDE DEF distinct, X
    <2>1. distinct = [s \in X |-> DistinctOf(distinct, s)]
      BY <1>5, Zenon DEF DistinctOf
    <2>. QED
      BY <2>1, Zenon
  <1>. HIDE DEF distinct, Recursion
  <1>7. distinct[symbols] <=>
           /\ \A i, j \in DOMAIN symbols : i # j => KeyOf(symbols[i]) # KeyOf(symbols[j])
           /\ \A i \in DOMAIN symbols : distinct[symbols[i].children]
    BY <1>6, Zenon DEF DistinctOf
  <1>. QED
    BY <1>1, <1>7, Zenon

LEMMA DeduplicatedIs ==
  ASSUME NEW symbols \in Seq(DocSymbols)
  PROVE  /\ DOMAIN DeduplicateDocumentSymbols(symbols) = DOMAIN KeepSymbols(symbols)
         /\ \A i \in DOMAIN KeepSymbols(symbols) :
              DeduplicateDocumentSymbols(symbols)[i] =
                [KeepSymbols(symbols)[i] EXCEPT !.children = DeduplicateDocumentSymbols(@)]
  <1> DEFINE X == Seq(DocSymbols)
             Recursion(f) == f = [s \in X |-> MergeLevel(s, LAMBDA children : f[children])]
             merged == CHOOSE f : Recursion(f)
             kept == KeepSymbols(symbols)
  <1>0. \A f, s : MergeLevel(s, LAMBDA children : f[children]) = MergedOf(f, s)
    BY Zenon DEF MergeLevel, MergedOf
  <1>1. \A s : DeduplicateDocumentSymbols(s) = MergedOf(merged, s)
    <2>1. \A s : DeduplicateDocumentSymbols(s) = MergeLevel(s, LAMBDA children : merged[children])
      BY Zenon DEF DeduplicateDocumentSymbols
    <2>. HIDE DEF merged
    <2>. QED
      BY <1>0, <2>1, Zenon
  <1>2. PICK f : IsWhole("merged", f)
    BY WholeExists DEF Recursions
  <1>3. \A s : By("merged", f, s) = MergedOf(f, s)
    BY Zenon DEF By
  <1>4. Recursion(f)
    <2>1. f = [s \in X |-> By("merged", f, s)]
      BY <1>2, Zenon DEF IsWhole
    <2>. HIDE DEF X
    <2>2. [s \in X |-> By("merged", f, s)] = [s \in X |-> MergeLevel(s, LAMBDA children : f[children])]
      BY <1>0, <1>3, Zenon
    <2>. QED
      BY <2>1, <2>2, Zenon
  <1>5. Recursion(merged)
    <2>. HIDE DEF Recursion
    <2>. QED
      BY <1>4
  <1>6. \A s \in X : merged[s] = MergedOf(merged, s)
    <2>. HIDE DEF merged, X
    <2>1. \A s \in X : merged[s] = MergeLevel(s, LAMBDA children : merged[children])
      BY <1>5, Zenon
    <2>. QED
      BY <1>0, <2>1, Zenon
  <1>. HIDE DEF merged, Recursion
  <1>7. \A s \in X : merged[s] = DeduplicateDocumentSymbols(s)
    BY <1>1, <1>6, Zenon
  <1>8. DeduplicateDocumentSymbols(symbols) = [i \in DOMAIN kept |-> [kept[i] EXCEPT !.children = merged[@]]]
    BY <1>1, Zenon DEF MergedOf
  <1>9. kept \in X
    BY KeptSymbolsHold
  <1>. HIDE DEF kept
  <1>10. \A i \in DOMAIN kept : merged[kept[i].children] = DeduplicateDocumentSymbols(kept[i].children)
    BY <1>7, <1>9, ChildrenAreSymbols
  <1>11. \A i \in DOMAIN kept : DeduplicateDocumentSymbols(symbols)[i] = [kept[i] EXCEPT !.children = merged[kept[i].children]]
    BY <1>8
  <1>12. \A i \in DOMAIN kept :
           DeduplicateDocumentSymbols(symbols)[i] = [kept[i] EXCEPT !.children = DeduplicateDocumentSymbols(kept[i].children)]
    BY <1>10, <1>11
  <1>13. DOMAIN DeduplicateDocumentSymbols(symbols) = DOMAIN kept
    BY <1>8
  <1>. QED
    BY <1>12, <1>13 DEF kept

(***************************************************************************)
(* What is kept of a list of symbols has every key once.                   *)
(***************************************************************************)
LEMMA KeptOnceEach ==
  ASSUME kind = "symbols", NEW s \in Seq(DocSymbols)
  PROVE  \A k, l \in DOMAIN KeepSymbols(s) : KeyOf(KeepSymbols(s)[k]) = KeyOf(KeepSymbols(s)[l]) => k = l
  <1> DEFINE key == [x \in DocSymbols |-> <<x.name, x.range>>]
             chosen == {i \in DOMAIN s : \A j \in 1 .. (i - 1) : <<s[j].name, s[j].range>> # <<s[i].name, s[i].range>>}
             kept == KeepSymbols(s)
  <1>1. kept = Picked(s, chosen)
    BY DEF KeepSymbols, KeepFirst
  <1>2. DOMAIN s = 1 .. Len(s) /\ Len(s) \in Nat /\ \A i \in DOMAIN s : s[i] \in DocSymbols
    OBVIOUS
  <1>3. \A x \in DocSymbols : key[x] = <<x.name, x.range>>
    OBVIOUS
  <1>. HIDE DEF key
  <1>4. \A i \in DOMAIN s : key[s[i]] = <<s[i].name, s[i].range>>
    BY <1>2, <1>3
  <1>5. \A i \in DOMAIN s : \A j \in 1 .. (i - 1) : j \in DOMAIN s
    BY <1>2
  <1>6. AreFirst(chosen, s, key)
    BY <1>4, <1>5 DEF AreFirst
  <1>. HIDE DEF chosen, kept
  <1>7. \A k, l \in DOMAIN kept : key[kept[k]] = key[kept[l]] => k = l
    BY <1>1, <1>6, KeptOnce
  <1>8. kept \in Seq(DocSymbols)
    BY KeptSymbolsHold DEF kept
  <1>9. \A k \in DOMAIN kept : key[kept[k]] = KeyOf(kept[k])
    BY <1>3, <1>8 DEF KeyOf
  <1>. QED
    BY <1>7, <1>9 DEF kept

(***************************************************************************)
(* The symbols of a merged list are those that were kept, their children   *)
(* merged: the same keys, and a list of symbols again.                     *)
(***************************************************************************)
LEMMA MergedSymbolIs ==
  ASSUME kind = "symbols", NEW s \in Seq(DocSymbols), NEW i \in DOMAIN DeduplicateDocumentSymbols(s)
  PROVE  /\ i \in DOMAIN KeepSymbols(s)
         /\ DeduplicateDocumentSymbols(s)[i] \in DocSymbols
         /\ KeyOf(DeduplicateDocumentSymbols(s)[i]) = KeyOf(KeepSymbols(s)[i])
         /\ DeduplicateDocumentSymbols(s)[i].children = DeduplicateDocumentSymbols(KeepSymbols(s)[i].children)
  <1> DEFINE kept == KeepSymbols(s)
             x == kept[i]
             below == DeduplicateDocumentSymbols(x.children)
             y == DeduplicateDocumentSymbols(s)[i]
  <1>1. i \in DOMAIN kept /\ y = [x EXCEPT !.children = below]
    BY DeduplicatedIs
  <1>2. x \in DocSymbols
    BY <1>1, KeptSymbolsHold
  <1>. HIDE DEF kept
  <1>3. y \in DocSymbols
    BY <1>1, <1>2, SymbolTreesAssumption
  <1>. HIDE DEF x, y, below
  <1>4. x = [name |-> x.name, range |-> x.range, children |-> x.children]
    BY <1>2, SymbolsAssumption
  <1>5. y.name = x.name /\ y.range = x.range /\ y.children = below
    BY <1>1, <1>4
  <1>6. KeyOf(y) = KeyOf(x)
    BY <1>5 DEF KeyOf
  <1>. QED
    BY <1>1, <1>3, <1>5, <1>6 DEF kept, x, y, below

LEMMA MergedAreSymbols ==
  ASSUME kind = "symbols", NEW s \in Seq(DocSymbols)
  PROVE  DeduplicateDocumentSymbols(s) \in Seq(DocSymbols)
  <1> DEFINE d == DeduplicateDocumentSymbols(s)
             kept == KeepSymbols(s)
  <1>1. kept \in Seq(DocSymbols)
    BY KeptSymbolsHold
  <1>2. \A i \in DOMAIN d : d[i] \in DocSymbols
    BY MergedSymbolIs
  <1>3. DOMAIN d = DOMAIN kept
    BY DeduplicatedIs
  <1> DEFINE f == CHOOSE m : m = [t \in Seq(DocSymbols) |-> MergeLevel(t, LAMBDA children : m[children])]
  <1>4. d = [i \in DOMAIN kept |-> [kept[i] EXCEPT !.children = f[@]]]
    <2>1. d = MergeLevel(s, LAMBDA children : f[children])
      BY DEF DeduplicateDocumentSymbols
    <2>. HIDE DEF f, d, kept
    <2>2. d = [i \in DOMAIN KeepSymbols(s) |-> [KeepSymbols(s)[i] EXCEPT !.children = f[@]]]
      BY <2>1 DEF MergeLevel
    <2>. QED
      BY <2>2 DEF kept
  <1>5. DOMAIN kept = 1 .. Len(kept) /\ Len(kept) \in Nat
    BY <1>1
  <1>. HIDE DEF f, d, kept
  <1>6. d = [i \in 1 .. Len(kept) |-> d[i]]
    BY <1>4, <1>5
  <1>7. d \in [1 .. Len(kept) -> DocSymbols]
    BY <1>2, <1>3, <1>5, <1>6
  <1>8. d \in Seq(DocSymbols)
    BY <1>5, <1>7, SeqDefs
  <1>. QED
    BY <1>8 DEF d

(***************************************************************************)
(* Merging a tree makes up no way down, and leaves nothing twice.          *)
(***************************************************************************)
IsMergedTree(s) ==
  /\ Paths(DeduplicateDocumentSymbols(s)) \subseteq Paths(s)
  /\ NothingTwice(DeduplicateDocumentSymbols(s))

\* The ways down from one symbol, with the ways down that begin below it.
Ways(symbol, below) == {<<KeyOf(symbol)>>} \union {<<KeyOf(symbol)>> \o p : p \in below}

LEMMA PathsWays ==
  ASSUME NEW s \in Seq(DocSymbols)
  PROVE  Paths(s) = UNION {Ways(s[i], Paths(s[i].children)) : i \in DOMAIN s}
  BY PathsAre, Zenon DEF Ways

LEMMA WaysGrow ==
  ASSUME NEW x, NEW y, KeyOf(x) = KeyOf(y), NEW a, NEW b, a \subseteq b
  PROVE  Ways(x, a) \subseteq Ways(y, b)
  <1>1. Ways(x, a) = Ways(y, a)
    BY Zenon DEF Ways
  <1>2. Ways(y, a) \subseteq Ways(y, b)
    <2> DEFINE k == <<KeyOf(y)>>
    <2>1. Ways(y, a) = {k} \union {k \o p : p \in a} /\ Ways(y, b) = {k} \union {k \o p : p \in b}
      BY DEF Ways
    <2>. HIDE DEF k
    <2>2. {k \o p : p \in a} \subseteq {k \o p : p \in b}
      BY Zenon
    <2>. QED
      BY <2>1, <2>2, Zenon
  <1>. QED
    BY <1>1, <1>2

LEMMA MergedStep ==
  ASSUME kind = "symbols", NEW s \in Seq(DocSymbols), \A i \in DOMAIN s : IsMergedTree(s[i].children)
  PROVE  IsMergedTree(s)
  <1> DEFINE d == DeduplicateDocumentSymbols(s)
             kept == KeepSymbols(s)
  <1>1. /\ \A i \in DOMAIN d : i \in DOMAIN kept /\ KeyOf(d[i]) = KeyOf(kept[i])
        /\ \A i \in DOMAIN d : d[i].children = DeduplicateDocumentSymbols(kept[i].children)
    BY MergedSymbolIs
  <1>2. \A i \in DOMAIN kept : \E j \in DOMAIN s : kept[i] = s[j]
    BY KeptSymbolsHold
  <1>3. d \in Seq(DocSymbols)
    BY MergedAreSymbols
  <1>4. \A k, l \in DOMAIN kept : KeyOf(kept[k]) = KeyOf(kept[l]) => k = l
    BY KeptOnceEach
  <1>. HIDE DEF d, kept
  <1>5. ASSUME NEW i \in DOMAIN d
        PROVE  \E j \in DOMAIN s : Ways(d[i], Paths(d[i].children)) \subseteq Ways(s[j], Paths(s[j].children))
    <2>1. PICK j \in DOMAIN s : kept[i] = s[j]
      BY <1>1, <1>2
    <2>2. KeyOf(d[i]) = KeyOf(s[j]) /\ d[i].children = DeduplicateDocumentSymbols(s[j].children)
      BY <1>1, <2>1
    <2>3. Paths(DeduplicateDocumentSymbols(s[j].children)) \subseteq Paths(s[j].children)
      BY DEF IsMergedTree
    <2>4. Paths(d[i].children) \subseteq Paths(s[j].children)
      BY <2>2, <2>3, Zenon
    <2>. QED
      BY <2>2, <2>4, WaysGrow
  <1>6. Paths(d) \subseteq Paths(s)
    <2>1. Paths(d) = UNION {Ways(d[i], Paths(d[i].children)) : i \in DOMAIN d}
      BY <1>3, PathsWays
    <2>2. Paths(s) = UNION {Ways(s[i], Paths(s[i].children)) : i \in DOMAIN s}
      BY PathsWays
    <2>3. ASSUME NEW p \in Paths(d) PROVE p \in Paths(s)
      <3>1. PICK i \in DOMAIN d : p \in Ways(d[i], Paths(d[i].children))
        BY <2>1
      <3>2. PICK j \in DOMAIN s : Ways(d[i], Paths(d[i].children)) \subseteq Ways(s[j], Paths(s[j].children))
        BY <1>5
      <3>. QED
        BY <2>2, <3>1, <3>2
    <2>. QED
      BY <2>3
  <1>7. \A i \in DOMAIN d : NothingTwice(d[i].children)
    <2>1. ASSUME NEW i \in DOMAIN d PROVE NothingTwice(d[i].children)
      <3>1. PICK j \in DOMAIN s : kept[i] = s[j]
        BY <1>1, <1>2
      <3>2. d[i].children = DeduplicateDocumentSymbols(s[j].children)
        BY <1>1, <3>1
      <3>3. NothingTwice(DeduplicateDocumentSymbols(s[j].children))
        BY DEF IsMergedTree
      <3>. QED
        BY <3>2, <3>3, Zenon
    <2>. QED
      BY <2>1
  <1>8. \A i, j \in DOMAIN d : i # j => KeyOf(d[i]) # KeyOf(d[j])
    BY <1>1, <1>4
  <1>9. NothingTwice(d)
    BY <1>3, <1>7, <1>8, NothingTwiceIs
  <1>. QED
    BY <1>6, <1>9 DEF IsMergedTree, d

LEMMA MergedTrees ==
  ASSUME kind = "symbols", NEW n \in Nat
  PROVE  \A s \in Seq(Shallow(n)) : IsMergedTree(s)
  <1> DEFINE Bad == {m \in Nat : ~\A s \in Seq(Shallow(m)) : IsMergedTree(s)}
  <1>1. SUFFICES ASSUME n \in Bad PROVE FALSE
    OBVIOUS
  <1>2. PICK m \in Bad : \A k \in Bad : m <= k
    <2>1. Bad \in SUBSET Nat
      OBVIOUS
    <2>. HIDE DEF Bad
    <2>. QED
      BY <1>1, <2>1, LeastElement
  <1>3. m \in Nat /\ ~\A s \in Seq(Shallow(m)) : IsMergedTree(s)
    OBVIOUS
  <1>4. PICK s \in Seq(Shallow(m)) : ~IsMergedTree(s)
    BY <1>3
  <1>5. s \in Seq(DocSymbols)
    BY ShallowAreSymbols
  <1>6. \A i \in DOMAIN s : IsMergedTree(s[i].children)
    <2>1. CASE m = 0
      BY <2>1, NothingShallow
    <2>2. CASE m # 0
      <3> DEFINE l == m - 1
      <3>1. l \in Nat /\ l + 1 = m /\ ~(m <= l)
        BY <1>3, <2>2
      <3>. HIDE DEF l
      <3>2. l \notin Bad
        <4>. HIDE DEF Bad
        <4>. QED
          BY <1>2, <3>1
      <3>3. \A t \in Seq(Shallow(l)) : IsMergedTree(t)
        BY <3>1, <3>2
      <3>4. s \in Seq(Shallow(l + 1))
        BY <3>1
      <3>5. \A i \in DOMAIN s : s[i].children \in Seq(Shallow(l))
        BY <3>1, <3>4, ChildrenShallow
      <3>. QED
        BY <3>3, <3>5
    <2>. QED
      BY <2>1, <2>2
  <1>. QED
    BY <1>4, <1>5, <1>6, MergedStep

(***************************************************************************)
(* What is merged of all answers to a query for symbols.                   *)
(***************************************************************************)
LEMMA AnswersMergeToTrees ==
  ASSUME ResponsesOK, NEW list, IsOrder(list), Range(list) = Responders, kind = "symbols",
         NEW all, all = AllItems(Answers(list))
  PROVE  /\ Paths(DeduplicateDocumentSymbols(all)) \subseteq UNION {Paths(Said(s)) : s \in Responders}
         /\ NothingTwice(DeduplicateDocumentSymbols(all))
  <1>1. /\ all \in Seq(Everything)
        /\ \A n \in DOMAIN all : \E s \in Responders : \E i \in DOMAIN Said(s) : all[n] = Said(s)[i]
    BY ItemsHold
  <1>2. Everything \subseteq DocSymbols
    BY DEF Everything, ResponsesOK, Said
  <1>3. all \in Seq(DocSymbols)
    BY <1>1, <1>2, SeqMonotonic
  <1>4. \A s \in Responders : Said(s) \in Seq(DocSymbols)
    <2>1. Responders \subseteq Servers
      BY DEF IsOrder, Range
    <2>2. \A s \in Servers : Sayings[s] = Said(s) /\ Sayings[s] \in Seq(Everything)
      BY SayingsAreLists DEF Sayings
    <2>. QED
      BY <1>2, <2>1, <2>2, SeqMonotonic
  <1>5. IsMergedTree(all)
    BY <1>3, ListIsShallow, MergedTrees
  <1>6. Paths(all) \subseteq UNION {Paths(Said(s)) : s \in Responders}
    <2>1. ASSUME NEW p \in Paths(all) PROVE \E s \in Responders : p \in Paths(Said(s))
      <3>1. PICK n \in DOMAIN all : p \in Ways(all[n], Paths(all[n].children))
        BY <1>3, PathsWays
      <3>2. PICK s \in Responders : \E i \in DOMAIN Said(s) : all[n] = Said(s)[i]
        BY <1>1
      <3>a. PICK i \in DOMAIN Said(s) : all[n] = Said(s)[i]
        BY <3>2
      <3>3. p \in Ways(Said(s)[i], Paths(Said(s)[i].children))
        BY <3>1, <3>a
      <3>4. Paths(Said(s)) = UNION {Ways(Said(s)[k], Paths(Said(s)[k].children)) : k \in DOMAIN Said(s)}
        BY <1>4, PathsWays
      <3>. QED
        BY <3>3, <3>4
    <2>. QED
      BY <2>1
  <1>. QED
    BY <1>5, <1>6 DEF IsMergedTree

(***************************************************************************)
(* What the caller of a query for symbols holds is what was merged of all  *)
(* answers that came in time, taken in some order.                         *)
(***************************************************************************)
IsMergeOf(items, list) ==
  IsOrder(list) /\ Range(list) = Responders /\ items = DeduplicateDocumentSymbols(AllItems(Answers(list)))

HoldsSymbols == kind = "symbols" /\ ~outcome.error => \E list : IsMergeOf(outcome.items, list)
SymbolsHeld == caller = "returned" => HoldsSymbols

LEMMA ReturnMerges ==
  ASSUME QueryInv, ReturnLoop
  PROVE  HoldsSymbols'
  <1> SUFFICES ASSUME kind' = "symbols"
               PROVE  \E list : IsMergeOf(outcome.items, list)'
    BY DEF HoldsSymbols
  <1> DEFINE list == Answered(asked)
             all == AllItems(AnswersOf(asked))
  <1>1. IsOrder(asked) /\ Range(asked) = capable
    BY DEF ReturnLoop, ToSet, Range, QueryInv, Shape
  <1>2. IsOrder(list) /\ Range(list) = Responders
    BY <1>1, AnsweredAreResponders
  <1>3. outcome' \in Results(asked, AnswersOf(asked), all)
    BY DEF ReturnLoop, ReturnResult
  <1>4. UNCHANGED <<kind, capable, results, response>>
    BY DEF ReturnLoop
  <1>5. outcome' = Found(DeduplicateDocumentSymbols(all))
    BY <1>3, <1>4 DEF Results, Single, Concatenating, Merging
  <1>6. AnswersOf(asked) = Answers(list)
    BY Zenon DEF AnswersOf, Answers
  <1>7. all = AllItems(Answers(list))
    BY <1>6, Zenon
  <1>. HIDE DEF list, all
  <1>8. outcome'.items = DeduplicateDocumentSymbols(all)
    BY <1>5 DEF Found
  <1>9. \A l : Responders' = Responders /\ Answers(l)' = Answers(l)
    BY <1>4 DEF Responders, Answers
  <1>10. outcome'.items = DeduplicateDocumentSymbols(AllItems(Answers(list)))
    BY <1>7, <1>8, Zenon
  <1>. QED
    BY <1>2, <1>9, <1>10 DEF IsMergeOf

LEMMA SymbolsStayHeld ==
  ASSUME QueryInv, SymbolsHeld, [QueryNext]_allVars, caller' = "returned", kind' = "symbols", ~outcome'.error
  PROVE  HoldsSymbols'
  <1>1. CASE ReturnLoop
    BY <1>1, ReturnMerges
  <1>2. CASE UNCHANGED allVars
    <2>1. UNCHANGED <<caller, kind, capable, results, response, outcome>>
      BY <1>2 DEF allVars, vars, queryVars
    <2>2. HoldsSymbols
      BY <2>1 DEF SymbolsHeld
    <2>3. \A list : Responders' = Responders /\ Answers(list)' = Answers(list)
      BY <2>1 DEF Responders, Answers
    <2>. QED
      BY <2>1, <2>2, <2>3 DEF HoldsSymbols, IsMergeOf
  <1>3. ASSUME NEW k \in Kinds PROVE ~(NoServers(k) \/ BeginConcurrent(k) \/ BeginLoop(k))
    BY DEF NoServers, Failed, BeginConcurrent, BeginLoop, Concurrent
  <1>4. ~ReturnConcurrent /\ ~Panic
    BY DEF ReturnConcurrent, Concurrent, Panic
  <1>5. ASSUME NEW s \in Servers PROVE ~(AskNext(s) \/ AnswerQuery(s) \/ Goroutine(s))
    <2>1. ~AskNext(s)
      BY DEF AskNext
    <2>2. ~AnswerQuery(s)
      BY DEF AnswerQuery, Answer, QueryInv, InTurn, Concurrent
    <2>3. ~Goroutine(s)
      BY DEF Goroutine, queryVars, Concurrent
    <2>. QED
      BY <2>1, <2>2, <2>3
  <1>. QED
    BY <1>1, <1>2, <1>3, <1>4, <1>5 DEF QueryNext

(***************************************************************************)
(* Below the top level of the symbols that a caller gets is what one of    *)
(* the servers said there and nothing twice, for any trees of symbols, any *)
(* servers and any order of their answers: deduplicateDocumentSymbols      *)
(* neither moves a symbol in the tree nor leaves a repeated one.           *)
(***************************************************************************)
THEOREM SymbolTreesAlwaysMerged == QuerySpec => []SymbolTreesMerged
  <1>1. QueryInit => SymbolsHeld
    BY DEF QueryInit, Init, SymbolsHeld
  <1>2. QueryInv /\ SymbolsHeld /\ [QueryNext]_allVars => SymbolsHeld'
    BY SymbolsStayHeld DEF SymbolsHeld, HoldsSymbols
  <1>3. ASSUME QueryInv, SymbolsHeld, caller = "returned", kind = "symbols", ~outcome.error
        PROVE  /\ Paths(outcome.items) \subseteq UNION {Paths(Said(s)) : s \in Responders}
               /\ NothingTwice(outcome.items)
    <2>1. PICK list : IsMergeOf(outcome.items, list)
      BY <1>3 DEF SymbolsHeld, HoldsSymbols
    <2>2. ResponsesOK
      BY <1>3 DEF QueryInv, Shape
    <2> DEFINE all == AllItems(Answers(list))
    <2>3. IsOrder(list) /\ Range(list) = Responders /\ outcome.items = DeduplicateDocumentSymbols(all)
      BY <2>1 DEF IsMergeOf
    <2>. HIDE DEF all
    <2>4. all = AllItems(Answers(list))
      BY DEF all
    <2>5. /\ Paths(DeduplicateDocumentSymbols(all)) \subseteq UNION {Paths(Said(s)) : s \in Responders}
          /\ NothingTwice(DeduplicateDocumentSymbols(all))
      BY <1>3, <2>2, <2>3, <2>4, AnswersMergeToTrees
    <2>. QED
      BY <2>3, <2>5, Zenon
  <1>4. QueryInv /\ SymbolsHeld => SymbolTreesMerged
    BY <1>3 DEF SymbolTreesMerged
  <1>. QED
    BY QueryInvariance, <1>1, <1>2, <1>4, PTL DEF QuerySpec

=============================================================================
