------------------------------ MODULE ListLemmas ------------------------------
(***************************************************************************)
(* What the lists hold that the code builds by appending in a loop, for    *)
(* any lists: the facts about Picks, and about FlattenSeq of the community *)
(* modules, that the proofs about the bridge's queries, about the tools    *)
(* and about workspace edits rest on.                                      *)
(***************************************************************************)
EXTENDS Picks, FiniteSets, FiniteSetTheorems, FunctionTheorems, SequenceTheorems, WellFoundedInduction, TLAPS

(***************************************************************************)
(* A set of natural numbers has a least element: how what is said of a     *)
(* function that is defined by recursion on numbers can be shown.          *)
(***************************************************************************)
LEMMA LeastElement ==
  ASSUME NEW T \in SUBSET Nat, NEW n \in T
  PROVE  \E m \in T : \A k \in T : m <= k
  <1>1. PICK m \in T : \A k \in T : <<k, m>> \notin OpToRel(<, Nat)
    BY NatLessThanWellFounded, WFMin
  <1>2. \A k \in T : ~(k < m)
    BY <1>1 DEF OpToRel
  <1>. QED
    BY <1>2

(***************************************************************************)
(* FlattenSeq joins sequences one after the other, and so makes a sequence *)
(* of whatever they are sequences of.                                      *)
(***************************************************************************)
IsJoin(f, seqs, n) == f = [i \in 1 .. n |-> IF i = 1 THEN seqs[i] ELSE f[i - 1] \o seqs[i]]

LEMMA JoinExists ==
  ASSUME NEW S, NEW seqs \in Seq(Seq(S)), NEW n \in 1 .. Len(seqs)
  PROVE  \E f \in [1 .. n -> Seq(S)] : IsJoin(f, seqs, n)
  <1> DEFINE Joined(m) == \E f \in [1 .. m -> Seq(S)] : IsJoin(f, seqs, m)
             Bad == {m \in 1 .. Len(seqs) : ~Joined(m)}
  <1> HIDE DEF Joined
  <1>1. SUFFICES ASSUME n \in Bad PROVE FALSE
    BY DEF Joined
  <1>2. PICK m \in Bad : \A k \in Bad : m <= k
    <2>1. Bad \in SUBSET Nat
      OBVIOUS
    <2>. HIDE DEF Bad
    <2>. QED
      BY <1>1, <2>1, LeastElement
  <1>0. m \in 1 .. Len(seqs) /\ ~Joined(m) /\ Len(seqs) \in Nat /\ seqs[m] \in Seq(S)
    OBVIOUS
  <1>3. CASE m = 1
    <2> DEFINE f == [i \in 1 .. 1 |-> seqs[1]]
    <2>1. f \in [1 .. 1 -> Seq(S)]
      BY <1>1
    <2>2. f = [i \in 1 .. 1 |-> IF i = 1 THEN seqs[i] ELSE f[i - 1] \o seqs[i]]
      OBVIOUS
    <2>. QED
      BY <1>0, <1>3, <2>1, <2>2 DEF IsJoin, Joined
  <1>4. CASE m # 1
    <2>1. m - 1 \in 1 .. Len(seqs) /\ Joined(m - 1)
      <3>1. m - 1 \in 1 .. Len(seqs) /\ ~(m <= m - 1)
        BY <1>0, <1>4
      <3>. QED
        BY <3>1, <1>2
    <2>2. PICK f \in [1 .. m - 1 -> Seq(S)] : IsJoin(f, seqs, m - 1)
      BY <2>1 DEF Joined
    <2> DEFINE g == [i \in 1 .. m |-> IF i = m THEN f[m - 1] \o seqs[m] ELSE f[i]]
    <2>a. m \in Nat /\ m - 1 \in Nat /\ m - 1 \in 1 .. m - 1 /\ m \in 1 .. m
      BY <1>0, <2>1
    <2>b. \A i \in 1 .. m - 1 : i \in 1 .. m /\ i # m
      BY <2>a
    <2>3. \A i \in 1 .. m - 1 : i \in 1 .. m /\ i # m /\ f[i] \in Seq(S) /\ g[i] = f[i]
      BY <2>b
    <2>c. f[m - 1] \in Seq(S) /\ g[m] = f[m - 1] \o seqs[m]
      BY <2>a
    <2>4. f[m - 1] \in Seq(S) /\ f[m - 1] \o seqs[m] \in Seq(S) /\ g[m] = f[m - 1] \o seqs[m]
      BY <2>c, <1>0, ConcatProperties
    <2>5. \A i \in 1 .. m : i = m \/ i \in 1 .. m - 1
      BY <2>a
    <2>6. g \in [1 .. m -> Seq(S)]
      BY <2>3, <2>4, <2>5
    <2>7. ASSUME NEW i \in 1 .. m PROVE g[i] = IF i = 1 THEN seqs[i] ELSE g[i - 1] \o seqs[i]
      <3>1. CASE i = m
        BY <3>1, <1>4, <2>a, <2>3, <2>4
      <3>2. CASE i # m
        <4>1. i \in 1 .. m - 1 /\ (i # 1 => i - 1 \in 1 .. m - 1)
          BY <3>2, <2>5
        <4>2. f[i] = IF i = 1 THEN seqs[i] ELSE f[i - 1] \o seqs[i]
          BY <4>1, <2>2 DEF IsJoin
        <4>. QED
          BY <4>1, <4>2, <2>3
      <3>. QED
        BY <3>1, <3>2
    <2> HIDE DEF g
    <2>8. g = [i \in 1 .. m |-> IF i = 1 THEN seqs[i] ELSE g[i - 1] \o seqs[i]]
      BY <2>6, <2>7
    <2>. QED
      BY <1>0, <2>6, <2>8 DEF IsJoin, Joined
  <1>. QED
    BY <1>3, <1>4

LEMMA FlattenSteps ==
  ASSUME NEW S, NEW seqs \in Seq(Seq(S)), Len(seqs) # 0
  PROVE  \E f \in [1 .. Len(seqs) -> Seq(S)] :
           /\ \A i \in 1 .. Len(seqs) : f[i] = IF i = 1 THEN seqs[i] ELSE f[i - 1] \o seqs[i]
           /\ FlattenSeq(seqs) = f[Len(seqs)]
  <1> DEFINE n == Len(seqs)
             Join(f) == f = [i \in 1 .. n |-> IF i = 1 THEN seqs[i] ELSE f[i - 1] \o seqs[i]]
             flatten == CHOOSE f : Join(f)
  <1>1. n \in 1 .. Len(seqs)
    OBVIOUS
  <1>2. \E f : Join(f)
    <2>1. PICK f \in [1 .. n -> Seq(S)] : IsJoin(f, seqs, n)
      BY <1>1, JoinExists
    <2>2. Join(f)
      BY <2>1 DEF IsJoin
    <2>. QED
      BY <2>2
  <1>3. Join(flatten)
    BY <1>2
  <1>4. FlattenSeq(seqs) = flatten[n]
    BY DEF FlattenSeq
  <1> HIDE DEF flatten
  <1>5. \A i \in 1 .. n : flatten[i] = IF i = 1 THEN seqs[i] ELSE flatten[i - 1] \o seqs[i]
    BY <1>3, Zenon
  <1>6. ASSUME NEW m \in 1 .. n PROVE flatten[m] \in Seq(S)
    <2> DEFINE Bad == {k \in 1 .. n : flatten[k] \notin Seq(S)}
    <2>1. SUFFICES ASSUME m \in Bad PROVE FALSE
      OBVIOUS
    <2>2. PICK k \in Bad : \A l \in Bad : k <= l
      <3>1. Bad \in SUBSET Nat
        OBVIOUS
      <3>. HIDE DEF Bad
      <3>. QED
        BY <2>1, <3>1, LeastElement
    <2>3. k \in 1 .. n /\ n \in Nat /\ flatten[k] \notin Seq(S)
      OBVIOUS
    <2>4. flatten[k] = IF k = 1 THEN seqs[k] ELSE flatten[k - 1] \o seqs[k]
      BY <1>5, <2>3, Zenon
    <2>5. seqs[k] \in Seq(S)
      BY <2>3
    <2>6. CASE k # 1
      <3>1. k - 1 \in 1 .. n /\ ~(k <= k - 1)
        BY <2>3, <2>6
      <3>2. flatten[k - 1] \in Seq(S)
        BY <3>1, <2>2
      <3>3. flatten[k - 1] \o seqs[k] \in Seq(S)
        BY <3>2, <2>5, ConcatProperties
      <3>. QED
        BY <3>3, <2>3, <2>4, <2>6
    <2>. QED
      BY <2>3, <2>4, <2>5, <2>6
  <1>7. flatten \in [1 .. n -> Seq(S)]
    <2>1. flatten = [i \in 1 .. n |-> flatten[i]]
      BY <1>3
    <2>. QED
      BY <2>1, <1>6
  <1>. QED
    BY <1>4, <1>5, <1>7

LEMMA FlattenIsSeq ==
  ASSUME NEW S, NEW seqs \in Seq(Seq(S))
  PROVE  FlattenSeq(seqs) \in Seq(S)
  <1>1. CASE Len(seqs) = 0
    <2>1. FlattenSeq(seqs) = seqs /\ seqs = <<>>
      BY <1>1 DEF FlattenSeq
    <2>. QED
      BY <2>1
  <1>2. CASE Len(seqs) # 0
    BY <1>2, FlattenSteps
  <1>. QED
    BY <1>1, <1>2

(***************************************************************************)
(* A list is a sequence of whatever it holds.                              *)
(***************************************************************************)
IsList(x) == x \in Seq(Range(x))

LEMMA SeqDefs ==
  ASSUME NEW S, NEW n \in Nat, NEW s \in [1 .. n -> S]
  PROVE  s \in Seq(S)
  OBVIOUS

LEMMA AnyList ==
  ASSUME NEW S, NEW s \in Seq(S)
  PROVE  IsList(s) /\ Range(s) \subseteq S
  <1>1. Len(s) \in Nat /\ DOMAIN s = 1 .. Len(s) /\ s \in [1 .. Len(s) -> S]
    BY LenProperties
  <1>2. \A i \in 1 .. Len(s) : s[i] \in Range(s) /\ s[i] \in S
    BY <1>1 DEF Range
  <1>3. s \in [1 .. Len(s) -> Range(s)]
    BY <1>1, <1>2
  <1>4. s \in Seq(Range(s))
    BY <1>1, <1>3, SeqDefs
  <1>5. Range(s) \subseteq S
    BY <1>1 DEF Range
  <1>. QED
    BY <1>4, <1>5 DEF IsList

-----------------------------------------------------------------------------
(***************************************************************************)
(* Every place of the lists is a place of their join, and the other way    *)
(* round; the lists follow each other.                                     *)
(***************************************************************************)
IsPlacing(p, list, seqs, m) ==
  /\ p \in [1 .. Len(list) -> (1 .. m) \X Nat]
  /\ \A k \in 1 .. Len(list) : p[k][2] \in 1 .. Len(seqs[p[k][1]]) /\ list[k] = seqs[p[k][1]][p[k][2]]
  /\ \A k, l \in 1 .. Len(list) : p[k] = p[l] => k = l
  /\ \A i \in 1 .. m : \A j \in 1 .. Len(seqs[i]) : \E k \in 1 .. Len(list) : p[k] = <<i, j>>

LEMMA PlacingBegins ==
  ASSUME NEW S, NEW seqs \in Seq(Seq(S)), Len(seqs) # 0
  PROVE  \E p : IsPlacing(p, seqs[1], seqs, 1)
  <1> DEFINE p == [k \in 1 .. Len(seqs[1]) |-> <<1, k>>]
  <1>1. seqs[1] \in Seq(S) /\ Len(seqs[1]) \in Nat
    OBVIOUS
  <1>2. p \in [1 .. Len(seqs[1]) -> (1 .. 1) \X Nat]
    BY <1>1
  <1>3. \A k \in 1 .. Len(seqs[1]) : p[k] = <<1, k>> /\ p[k][1] = 1 /\ p[k][2] = k
    OBVIOUS
  <1>. HIDE DEF p
  <1>4. \A k, l \in 1 .. Len(seqs[1]) : p[k] = p[l] => k = l
    BY <1>3
  <1>5. \A i \in 1 .. 1 : i = 1
    OBVIOUS
  <1>6. ASSUME NEW i \in 1 .. 1, NEW j \in 1 .. Len(seqs[i])
        PROVE  \E k \in 1 .. Len(seqs[1]) : p[k] = <<i, j>>
    <2>1. i = 1 /\ j \in 1 .. Len(seqs[1])
      BY <1>5
    <2>. QED
      BY <2>1, <1>3
  <1>7. IsPlacing(p, seqs[1], seqs, 1)
    BY <1>2, <1>3, <1>4, <1>6 DEF IsPlacing
  <1>. QED
    BY <1>7

LEMMA PlacingGrows ==
  ASSUME NEW S, NEW seqs \in Seq(Seq(S)), NEW m \in 2 .. Len(seqs), NEW list \in Seq(S),
         NEW p, IsPlacing(p, list, seqs, m - 1)
  PROVE  \E q : IsPlacing(q, list \o seqs[m], seqs, m)
  <1> DEFINE more == list \o seqs[m]
             n == Len(list)
             q == [k \in 1 .. Len(more) |-> IF k <= n THEN p[k] ELSE <<m, k - n>>]
  <1>1. /\ seqs[m] \in Seq(S) /\ Len(seqs[m]) \in Nat /\ n \in Nat /\ m \in Nat /\ m - 1 \in Nat
        /\ Len(more) = n + Len(seqs[m])
    OBVIOUS
  <1>2. /\ \A k \in 1 .. n : more[k] = list[k]
        /\ \A k \in 1 .. Len(more) : k > n => more[k] = seqs[m][k - n]
    BY <1>1
  <1>3. \A k \in 1 .. Len(more) :
          /\ k <= n => k \in 1 .. n /\ q[k] = p[k]
          /\ ~(k <= n) => /\ k - n \in 1 .. Len(seqs[m]) /\ k > n
                          /\ q[k] = <<m, k - n>> /\ q[k][1] = m /\ q[k][2] = k - n
    BY <1>1
  <1>4. \A k \in 1 .. n : k \in 1 .. Len(more) /\ k <= n
    BY <1>1
  <1>5. \A k \in 1 .. n : p[k] \in (1 .. m - 1) \X Nat /\ p[k][1] \in 1 .. m - 1
    BY DEF IsPlacing
  <1>6. q \in [1 .. Len(more) -> (1 .. m) \X Nat]
    <2>1. ASSUME NEW k \in 1 .. Len(more) PROVE q[k] \in (1 .. m) \X Nat
      <3>1. CASE k <= n
        BY <1>1, <1>3, <1>5, <3>1
      <3>2. CASE ~(k <= n)
        BY <1>1, <1>3, <3>2
      <3>. QED
        BY <3>1, <3>2
    <2>. QED
      BY <2>1
  <1>. HIDE DEF q, more
  <1>7. ASSUME NEW k \in 1 .. Len(more)
        PROVE  q[k][2] \in 1 .. Len(seqs[q[k][1]]) /\ more[k] = seqs[q[k][1]][q[k][2]]
    <2>1. CASE k <= n
      BY <1>2, <1>3, <2>1 DEF IsPlacing
    <2>2. CASE ~(k <= n)
      BY <1>2, <1>3, <2>2
    <2>. QED
      BY <2>1, <2>2
  <1>8. ASSUME NEW k \in 1 .. Len(more), NEW l \in 1 .. Len(more), q[k] = q[l] PROVE k = l
    <2>1. CASE k <= n /\ l <= n
      BY <1>3, <1>8, <2>1 DEF IsPlacing
    <2>2. CASE ~(k <= n) /\ ~(l <= n)
      BY <1>1, <1>3, <1>8, <2>2
    <2>3. CASE k <= n /\ ~(l <= n)
      <3>1. q[k][1] \in 1 .. m - 1 /\ q[l][1] = m
        BY <1>3, <1>5, <2>3
      <3>. QED
        BY <1>1, <1>8, <3>1
    <2>4. CASE ~(k <= n) /\ l <= n
      <3>1. q[l][1] \in 1 .. m - 1 /\ q[k][1] = m
        BY <1>3, <1>5, <2>4
      <3>. QED
        BY <1>1, <1>8, <3>1
    <2>. QED
      BY <2>1, <2>2, <2>3, <2>4
  <1>9. ASSUME NEW i \in 1 .. m, NEW j \in 1 .. Len(seqs[i])
        PROVE  \E k \in 1 .. Len(more) : q[k] = <<i, j>>
    <2>1. CASE i = m
      <3>1. j + n \in 1 .. Len(more) /\ ~(j + n <= n) /\ j + n - n = j
        BY <1>1, <2>1
      <3>2. q[j + n] = <<m, j + n - n>>
        BY <1>3, <3>1
      <3>3. q[j + n] = <<i, j>>
        BY <2>1, <3>1, <3>2
      <3>. QED
        BY <3>1, <3>3
    <2>2. CASE i # m
      <3>1. i \in 1 .. m - 1
        BY <1>1, <2>2
      <3>2. PICK k \in 1 .. n : p[k] = <<i, j>>
        BY <3>1 DEF IsPlacing
      <3>. QED
        BY <1>3, <1>4, <3>2
    <2>. QED
      BY <2>1, <2>2
  <1>10. IsPlacing(q, more, seqs, m)
    BY <1>6, <1>7, <1>8, <1>9 DEF IsPlacing
  <1>. QED
    BY <1>10 DEF more

LEMMA FlattenPlacing ==
  ASSUME NEW S, NEW seqs \in Seq(Seq(S))
  PROVE  \E p : IsPlacing(p, FlattenSeq(seqs), seqs, Len(seqs))
  <1>1. CASE Len(seqs) = 0
    <2>1. FlattenSeq(seqs) = seqs /\ seqs = <<>> /\ Len(seqs) = 0
      BY <1>1 DEF FlattenSeq
    <2>2. <<>> \in [1 .. 0 -> (1 .. 0) \X Nat]
      OBVIOUS
    <2>3. IsPlacing(<<>>, <<>>, seqs, 0)
      BY <2>2 DEF IsPlacing
    <2>. QED
      BY <2>1, <2>3
  <1>2. CASE Len(seqs) # 0
    <2> DEFINE n == Len(seqs)
    <2>1. PICK f \in [1 .. n -> Seq(S)] :
            /\ \A i \in 1 .. n : f[i] = IF i = 1 THEN seqs[i] ELSE f[i - 1] \o seqs[i]
            /\ FlattenSeq(seqs) = f[n]
      BY <1>2, FlattenSteps
    <2> DEFINE Placed(m) == \E p : IsPlacing(p, f[m], seqs, m)
               Bad == {m \in 1 .. n : ~Placed(m)}
    <2>2. n \in 1 .. n /\ n \in Nat
      BY <1>2
    <2>3. Bad \in SUBSET Nat
      OBVIOUS
    <2>4. ASSUME n \in Bad PROVE FALSE
      <3>. HIDE DEF Placed
      <3>1. PICK m \in Bad : \A k \in Bad : m <= k
        <4>. HIDE DEF Bad
        <4>. QED
          BY <2>3, <2>4, LeastElement
      <3>2. m \in 1 .. n /\ ~Placed(m)
        OBVIOUS
      <3>3. m # 1
        <4>1. 1 \in 1 .. n
          BY <1>2, <2>2
        <4>2. f[1] = IF 1 = 1 THEN seqs[1] ELSE f[1 - 1] \o seqs[1]
          BY <2>1, <4>1, Zenon
        <4>3. f[1] = seqs[1]
          BY <4>2
        <4>4. \E p : IsPlacing(p, seqs[1], seqs, 1)
          BY <1>2, PlacingBegins
        <4>. QED
          BY <3>2, <4>3, <4>4 DEF Placed
      <3>4. m - 1 \in 1 .. n /\ ~(m <= m - 1) /\ m \in 2 .. Len(seqs)
        BY <2>2, <3>2, <3>3
      <3>5. Placed(m - 1)
        BY <3>1, <3>4
      <3>6. PICK p : IsPlacing(p, f[m - 1], seqs, m - 1)
        BY <3>5 DEF Placed
      <3>7. f[m] = f[m - 1] \o seqs[m]
        BY <2>1, <3>2, <3>3
      <3>8. f[m - 1] \in Seq(S)
        BY <2>1, <3>4
      <3>9. \E q : IsPlacing(q, f[m - 1] \o seqs[m], seqs, m)
        BY <3>4, <3>6, <3>8, PlacingGrows
      <3>. QED
        BY <3>2, <3>7, <3>9 DEF Placed
    <2>5. Placed(n)
      <3>. HIDE DEF Placed
      <3>. QED
        BY <2>2, <2>4
    <2>. QED
      BY <2>1, <2>5
  <1>. QED
    BY <1>1, <1>2

(***************************************************************************)
(* A set is as large as the list of its elements that names each one once. *)
(***************************************************************************)
LEMMA CountOf ==
  ASSUME NEW T, NEW n \in Nat, NEW f \in [1 .. n -> T],
         \A k, l \in 1 .. n : f[k] = f[l] => k = l,
         \A x \in T : \E k \in 1 .. n : f[k] = x
  PROVE  f \in Bijection(1 .. n, T) /\ IsFiniteSet(T) /\ Cardinality(T) = n
  <1>1. f \in Injection(1 .. n, T)
    BY Fun_IsInj
  <1>2. f \in Surjection(1 .. n, T)
    BY Fun_IsSurj
  <1>3. f \in Bijection(1 .. n, T)
    BY <1>1, <1>2 DEF Bijection
  <1>4. ExistsBijection(1 .. n, T)
    BY <1>3 DEF ExistsBijection
  <1>5. IsFiniteSet(T) /\ Cardinality(T) = n
    BY <1>4, FS_CountingElements, FS_NatBijection
  <1>. QED
    BY <1>3, <1>5

(***************************************************************************)
(* What a join holds, and how much.                                        *)
(***************************************************************************)
LEMMA FlattenHolds ==
  ASSUME NEW S, NEW seqs \in Seq(Seq(S))
  PROVE  /\ \A k \in DOMAIN FlattenSeq(seqs) :
              \E i \in DOMAIN seqs : \E j \in DOMAIN seqs[i] : FlattenSeq(seqs)[k] = seqs[i][j]
         /\ \A i \in DOMAIN seqs : \A j \in DOMAIN seqs[i] :
              \E k \in DOMAIN FlattenSeq(seqs) : FlattenSeq(seqs)[k] = seqs[i][j]
  <1> DEFINE flat == FlattenSeq(seqs)
  <1>1. PICK p : IsPlacing(p, flat, seqs, Len(seqs))
    BY FlattenPlacing
  <1>2. flat \in Seq(S)
    BY FlattenIsSeq
  <1>. HIDE DEF flat
  <1>3. DOMAIN flat = 1 .. Len(flat) /\ DOMAIN seqs = 1 .. Len(seqs)
    BY <1>2
  <1>4. \A i \in 1 .. Len(seqs) : DOMAIN seqs[i] = 1 .. Len(seqs[i])
    OBVIOUS
  <1>5. ASSUME NEW k \in 1 .. Len(flat)
        PROVE  \E i \in 1 .. Len(seqs) : \E j \in 1 .. Len(seqs[i]) : flat[k] = seqs[i][j]
    <2>1. p[k] \in (1 .. Len(seqs)) \X Nat /\ p[k][1] \in 1 .. Len(seqs)
      BY <1>1 DEF IsPlacing
    <2>2. p[k][2] \in 1 .. Len(seqs[p[k][1]]) /\ flat[k] = seqs[p[k][1]][p[k][2]]
      BY <1>1 DEF IsPlacing
    <2>. QED
      BY <2>1, <2>2
  <1>6. ASSUME NEW i \in 1 .. Len(seqs), NEW j \in 1 .. Len(seqs[i])
        PROVE  \E k \in 1 .. Len(flat) : flat[k] = seqs[i][j]
    <2>1. PICK k \in 1 .. Len(flat) : p[k] = <<i, j>>
      BY <1>1 DEF IsPlacing
    <2>2. flat[k] = seqs[p[k][1]][p[k][2]]
      BY <1>1 DEF IsPlacing
    <2>. QED
      BY <2>1, <2>2
  <1>7. (\A k \in DOMAIN flat : \E i \in DOMAIN seqs : \E j \in DOMAIN seqs[i] : flat[k] = seqs[i][j])
    BY <1>3, <1>4, <1>5
  <1>8. (\A i \in DOMAIN seqs : \A j \in DOMAIN seqs[i] : \E k \in DOMAIN flat : flat[k] = seqs[i][j])
    BY <1>3, <1>4, <1>6
  <1>. QED
    BY <1>7, <1>8 DEF flat

\* Where the elements of several lists are: which list and which place in it.
Places(lists) == UNION {{i} \X DOMAIN lists[i] : i \in DOMAIN lists}

LEMMA FlattenCounts ==
  ASSUME NEW S, NEW seqs \in Seq(Seq(S))
  PROVE  IsFiniteSet(Places(seqs)) /\ Cardinality(Places(seqs)) = Len(FlattenSeq(seqs))
  <1> DEFINE flat == FlattenSeq(seqs)
             n == Len(flat)
  <1>1. PICK p : IsPlacing(p, flat, seqs, Len(seqs))
    BY FlattenPlacing
  <1>2. flat \in Seq(S) /\ n \in Nat
    BY FlattenIsSeq, LenProperties
  <1>. HIDE DEF flat
  <1>3. \A x : x \in Places(seqs) <=> \E i \in 1 .. Len(seqs) : \E j \in 1 .. Len(seqs[i]) : x = <<i, j>>
    <2>1. DOMAIN seqs = 1 .. Len(seqs) /\ \A i \in 1 .. Len(seqs) : DOMAIN seqs[i] = 1 .. Len(seqs[i])
      OBVIOUS
    <2>. QED
      BY <2>1 DEF Places
  <1>4. ASSUME NEW k \in 1 .. n PROVE p[k] \in Places(seqs)
    <2>1. p[k] \in (1 .. Len(seqs)) \X Nat /\ p[k] = <<p[k][1], p[k][2]>> /\ p[k][1] \in 1 .. Len(seqs)
      BY <1>1 DEF IsPlacing
    <2>2. p[k][2] \in 1 .. Len(seqs[p[k][1]])
      BY <1>1 DEF IsPlacing
    <2>. QED
      BY <1>3, <2>1, <2>2
  <1>5. p \in [1 .. n -> Places(seqs)]
    BY <1>1, <1>4 DEF IsPlacing
  <1>6. \A k, l \in 1 .. n : p[k] = p[l] => k = l
    BY <1>1 DEF IsPlacing
  <1>7. ASSUME NEW x \in Places(seqs) PROVE \E k \in 1 .. n : p[k] = x
    <2>1. PICK i \in 1 .. Len(seqs) : \E j \in 1 .. Len(seqs[i]) : x = <<i, j>>
      BY <1>3
    <2>2. PICK j \in 1 .. Len(seqs[i]) : x = <<i, j>>
      BY <2>1
    <2>3. \E k \in 1 .. n : p[k] = <<i, j>>
      BY <1>1 DEF IsPlacing
    <2>. QED
      BY <2>2, <2>3
  <1>. HIDE DEF n
  <1>8. IsFiniteSet(Places(seqs)) /\ Cardinality(Places(seqs)) = n
    BY <1>2, <1>5, <1>6, <1>7, CountOf
  <1>. QED
    BY <1>8 DEF n, flat

(***************************************************************************)
(* A list of picked elements has each picked element once.                 *)
(***************************************************************************)
IsPicking(at, picked, list, goal) ==
  /\ at \in [1 .. Len(picked) -> goal]
  /\ \A k \in 1 .. Len(picked) : picked[k] = list[at[k]]
  /\ \A k, l \in 1 .. Len(picked) : at[k] = at[l] => k = l
  /\ \A i \in goal : \E k \in 1 .. Len(picked) : at[k] = i

LEMMA PickedPlacing ==
  ASSUME NEW S, NEW list \in Seq(S), NEW chosen
  PROVE  /\ Picked(list, chosen) \in Seq(S)
         /\ \E at : IsPicking(at, Picked(list, chosen), list, chosen \intersect DOMAIN list)
  <1> DEFINE n == Len(list)
             seqs == [i \in 1 .. n |-> IF i \in chosen THEN <<list[i]>> ELSE <<>>]
             flat == FlattenSeq(seqs)
             m == Len(flat)
  <1>1. n \in Nat /\ DOMAIN list = 1 .. n /\ \A i \in 1 .. n : list[i] \in S
    OBVIOUS
  <1>2. Picked(list, chosen) = flat
    BY <1>1 DEF Picked
  <1>3. \A i \in 1 .. n : /\ i \in chosen => seqs[i] = <<list[i]>> /\ Len(seqs[i]) = 1 /\ seqs[i][1] = list[i]
                          /\ i \notin chosen => seqs[i] = <<>> /\ Len(seqs[i]) = 0
    OBVIOUS
  <1>4. seqs \in [1 .. n -> Seq(S)]
    <2>1. \A x \in S : <<x>> \in Seq(S)
      OBVIOUS
    <2>2. <<>> \in Seq(S)
      OBVIOUS
    <2>. QED
      BY <1>1, <2>1, <2>2
  <1>5. DOMAIN seqs = 1 .. n
    OBVIOUS
  <1>. HIDE DEF seqs
  <1>6. seqs \in Seq(Seq(S)) /\ Len(seqs) = n
    <2>. HIDE DEF n
    <2>1. seqs \in Seq(Seq(S))
      BY <1>1, <1>4, SeqDefs
    <2>2. Len(seqs) \in Nat /\ DOMAIN seqs = 1 .. Len(seqs)
      BY <2>1, LenProperties
    <2>3. Len(seqs) = n
      BY <1>1, <1>5, <2>2
    <2>. QED
      BY <2>1, <2>3
  <1>7. flat \in Seq(S) /\ m \in Nat
    BY <1>6, FlattenIsSeq, LenProperties
  <1>8. PICK p : IsPlacing(p, flat, seqs, n)
    BY <1>6, FlattenPlacing
  <1>. HIDE DEF flat
  <1> DEFINE goal == chosen \intersect (1 .. n)
  <1>9. ASSUME NEW k \in 1 .. m
        PROVE  p[k] = <<p[k][1], 1>> /\ p[k][1] \in goal /\ flat[k] = list[p[k][1]]
    <2>1. p[k] \in (1 .. n) \X Nat /\ p[k] = <<p[k][1], p[k][2]>> /\ p[k][1] \in 1 .. n
      <3>1. p[k] \in (1 .. n) \X Nat
        BY <1>8 DEF IsPlacing
      <3>. QED
        BY <3>1
    <2>2. p[k][2] \in 1 .. Len(seqs[p[k][1]]) /\ flat[k] = seqs[p[k][1]][p[k][2]]
      BY <1>8 DEF IsPlacing
    <2>3. p[k][1] \in chosen
      <3>1. CASE p[k][1] \notin chosen
        <4>1. Len(seqs[p[k][1]]) = 0
          BY <1>3, <2>1, <3>1
        <4>. QED
          BY <2>2, <4>1
      <3>. QED
        BY <3>1
    <2>4. Len(seqs[p[k][1]]) = 1 /\ seqs[p[k][1]][1] = list[p[k][1]]
      BY <1>3, <2>1, <2>3
    <2>5. p[k][2] = 1
      BY <2>2, <2>4
    <2>6. flat[k] = list[p[k][1]]
      BY <2>2, <2>4, <2>5, Zenon
    <2>7. p[k] = <<p[k][1], 1>>
      BY <2>1, <2>5, Zenon
    <2>. QED
      BY <2>1, <2>3, <2>6, <2>7
  <1>. HIDE DEF goal
  <1> DEFINE at == [k \in 1 .. m |-> p[k][1]]
  <1>10. at \in [1 .. m -> goal]
    BY <1>9
  <1>11. \A k \in 1 .. m : at[k] = p[k][1]
    OBVIOUS
  <1>. HIDE DEF at
  <1>12. \A k \in 1 .. m : flat[k] = list[at[k]]
    BY <1>9, <1>11
  <1>13. ASSUME NEW k \in 1 .. m, NEW l \in 1 .. m, at[k] = at[l] PROVE k = l
    <2>1. p[k][1] = p[l][1]
      BY <1>11, <1>13, Zenon
    <2>2. p[k] = p[l]
      BY <1>9, <2>1, Zenon
    <2>. QED
      BY <1>8, <2>2 DEF IsPlacing
  <1>14. ASSUME NEW i \in goal PROVE \E k \in 1 .. m : at[k] = i
    <2>1. i \in 1 .. n /\ i \in chosen
      BY DEF goal
    <2>2. Len(seqs[i]) = 1
      BY <1>3, <2>1
    <2>3. 1 \in 1 .. Len(seqs[i])
      BY <2>2
    <2>4. PICK k \in 1 .. m : p[k] = <<i, 1>>
      BY <1>8, <2>1, <2>3 DEF IsPlacing
    <2>5. at[k] = i
      BY <1>11, <2>4
    <2>. QED
      BY <2>5
  <1>15. IsPicking(at, flat, list, goal)
    BY <1>10, <1>12, <1>13, <1>14 DEF IsPicking
  <1>16. goal = chosen \intersect DOMAIN list
    BY <1>1 DEF goal
  <1>17. \E a : IsPicking(a, flat, list, chosen \intersect DOMAIN list)
    BY <1>15, <1>16
  <1>. QED
    BY <1>2, <1>7, <1>17

LEMMA PickedHolds ==
  ASSUME NEW S, NEW list \in Seq(S), NEW chosen
  PROVE  /\ Picked(list, chosen) \in Seq(S)
         /\ Range(Picked(list, chosen)) = {list[i] : i \in chosen \intersect DOMAIN list}
         /\ IsFiniteSet(chosen \intersect DOMAIN list)
         /\ Len(Picked(list, chosen)) = Cardinality(chosen \intersect DOMAIN list)
  <1> DEFINE picked == Picked(list, chosen)
             goal == chosen \intersect DOMAIN list
             n == Len(picked)
  <1>1. picked \in Seq(S)
    BY PickedPlacing
  <1>2. PICK at : IsPicking(at, picked, list, goal)
    BY PickedPlacing
  <1>. HIDE DEF picked, goal
  <1>3. n \in Nat /\ DOMAIN picked = 1 .. n
    BY <1>1, LenProperties
  <1>4. /\ \A k \in 1 .. n : at[k] \in goal /\ picked[k] = list[at[k]]
        /\ \A i \in goal : \E k \in 1 .. n : at[k] = i
        /\ at \in [1 .. n -> goal]
        /\ \A k, l \in 1 .. n : at[k] = at[l] => k = l
    BY <1>2 DEF IsPicking
  <1>0. goal = chosen \intersect DOMAIN list
    BY DEF goal
  <1>5. Range(picked) = {list[i] : i \in chosen \intersect DOMAIN list}
    BY <1>0, <1>3, <1>4 DEF Range
  <1>6. IsFiniteSet(goal) /\ Cardinality(goal) = n
    <2>. HIDE DEF n
    <2>1. at \in [1 .. n -> goal]
      BY <1>4
    <2>2. \A k, l \in 1 .. n : at[k] = at[l] => k = l
      BY <1>4
    <2>3. \A i \in goal : \E k \in 1 .. n : at[k] = i
      BY <1>4
    <2>4. n \in Nat
      BY <1>3
    <2>. QED
      BY <2>1, <2>2, <2>3, <2>4, CountOf
  <1>7. IsFiniteSet(chosen \intersect DOMAIN list) /\ Len(picked) = Cardinality(chosen \intersect DOMAIN list)
    BY <1>0, <1>6, Zenon
  <1>. QED
    BY <1>1, <1>5, <1>7 DEF picked

-----------------------------------------------------------------------------
(***************************************************************************)
(* A join of the lists of several keys, each taken once, in any order: it  *)
(* has every element of every list, at a place of its own.                 *)
(***************************************************************************)
IsKeyedPlacing(at, list, f, keys) ==
  /\ at \in [1 .. Len(list) -> keys \X Nat]
  /\ \A n \in 1 .. Len(list) : at[n][2] \in 1 .. Len(f[at[n][1]]) /\ list[n] = f[at[n][1]][at[n][2]]
  /\ \A n, m \in 1 .. Len(list) : at[n] = at[m] => n = m
  /\ \A k \in keys : \A j \in 1 .. Len(f[k]) : \E n \in 1 .. Len(list) : at[n] = <<k, j>>

LEMMA KeyedPlacing ==
  ASSUME NEW S, NEW K, NEW f \in [K -> Seq(S)], NEW keys \in Seq(K),
         \A i, j \in 1 .. Len(keys) : keys[i] = keys[j] => i = j,
         NEW seqs, seqs = [i \in DOMAIN keys |-> seqs[i]], \A i \in DOMAIN keys : seqs[i] = f[keys[i]]
  PROVE  /\ FlattenSeq(seqs) \in Seq(S)
         /\ \E at : IsKeyedPlacing(at, FlattenSeq(seqs), f, Range(keys))
  <1> DEFINE n == Len(keys)
             list == FlattenSeq(seqs)
             m == Len(list)
  <1>1. n \in Nat /\ DOMAIN keys = 1 .. n /\ \A i \in 1 .. n : keys[i] \in K
    BY LenProperties, ElementOfSeq
  <1>2. seqs \in [1 .. n -> Seq(S)] /\ DOMAIN seqs = 1 .. n /\ \A i \in 1 .. n : seqs[i] = f[keys[i]]
    BY <1>1
  <1>3. Range(keys) = {keys[i] : i \in 1 .. n}
    BY <1>1 DEF Range
  <1>4. seqs \in Seq(Seq(S)) /\ Len(seqs) = n
    <2>. HIDE DEF n
    <2>1. seqs \in Seq(Seq(S))
      BY <1>1, <1>2, SeqDefs
    <2>2. Len(seqs) \in Nat /\ DOMAIN seqs = 1 .. Len(seqs)
      BY <2>1, LenProperties
    <2>3. Len(seqs) = n
      BY <1>1, <1>2, <2>2
    <2>. QED
      BY <2>1, <2>3
  <1>5. list \in Seq(S) /\ m \in Nat
    BY <1>4, FlattenIsSeq, LenProperties
  <1>6. PICK p : IsPlacing(p, list, seqs, n)
    BY <1>4, FlattenPlacing
  <1>. HIDE DEF list, n
  <1>7. ASSUME NEW k \in 1 .. m
        PROVE  /\ p[k] = <<p[k][1], p[k][2]>> /\ p[k][1] \in 1 .. n /\ p[k][2] \in Nat
               /\ p[k][2] \in 1 .. Len(f[keys[p[k][1]]]) /\ list[k] = f[keys[p[k][1]]][p[k][2]]
    <2>1. p[k] \in (1 .. n) \X Nat
      BY <1>6 DEF IsPlacing
    <2>2. p[k] = <<p[k][1], p[k][2]>> /\ p[k][1] \in 1 .. n /\ p[k][2] \in Nat
      BY <2>1
    <2>3. p[k][2] \in 1 .. Len(seqs[p[k][1]]) /\ list[k] = seqs[p[k][1]][p[k][2]]
      BY <1>6 DEF IsPlacing
    <2>4. seqs[p[k][1]] = f[keys[p[k][1]]]
      BY <1>2, <2>2
    <2>. QED
      BY <2>2, <2>3, <2>4
  <1> DEFINE at == [k \in 1 .. m |-> <<keys[p[k][1]], p[k][2]>>]
  <1>8. ASSUME NEW k \in 1 .. m
        PROVE  /\ at[k] = <<keys[p[k][1]], p[k][2]>> /\ at[k][1] = keys[p[k][1]] /\ at[k][2] = p[k][2]
               /\ keys[p[k][1]] \in Range(keys)
    BY <1>3, <1>7
  <1>9. at \in [1 .. m -> Range(keys) \X Nat]
    BY <1>7, <1>8
  <1>. HIDE DEF at
  <1>10. ASSUME NEW k \in 1 .. m, NEW l \in 1 .. m, at[k] = at[l] PROVE k = l
    <2>1. keys[p[k][1]] = keys[p[l][1]] /\ p[k][2] = p[l][2]
      BY <1>8, <1>10
    <2>2. p[k][1] = p[l][1]
      BY <1>7, <2>1 DEF n
    <2>3. p[k] = <<p[k][1], p[k][2]>> /\ p[l] = <<p[l][1], p[l][2]>>
      BY <1>7
    <2>4. p[k] = p[l]
      BY <2>1, <2>2, <2>3, Zenon
    <2>. QED
      BY <1>6, <2>4 DEF IsPlacing
  <1>11. ASSUME NEW k \in Range(keys), NEW j \in 1 .. Len(f[k]) PROVE \E l \in 1 .. m : at[l] = <<k, j>>
    <2>1. PICK i \in 1 .. n : k = keys[i]
      BY <1>3
    <2>2. j \in 1 .. Len(seqs[i])
      BY <1>2, <2>1
    <2>3. PICK l \in 1 .. m : p[l] = <<i, j>>
      BY <1>6, <2>2 DEF IsPlacing
    <2>4. at[l] = <<k, j>>
      BY <1>8, <2>1, <2>3
    <2>. QED
      BY <2>4
  <1>12. \A k \in 1 .. m : at[k][2] \in 1 .. Len(f[at[k][1]]) /\ list[k] = f[at[k][1]][at[k][2]]
    BY <1>7, <1>8
  <1>13. IsKeyedPlacing(at, list, f, Range(keys))
    BY <1>9, <1>10, <1>11, <1>12 DEF IsKeyedPlacing
  <1>. QED
    BY <1>5, <1>13 DEF list

LEMMA KeyedCount ==
  ASSUME NEW list, Len(list) \in Nat, NEW at, NEW f, NEW keys, IsKeyedPlacing(at, list, f, keys),
         NEW C, \A c \in C : \E k \in keys : \E j \in 1 .. Len(f[k]) : c = <<k, j>>,
         NEW N, N = {n \in 1 .. Len(list) : at[n] \in C}
  PROVE  IsFiniteSet(C) /\ Cardinality(C) = Cardinality(N)
  <1> DEFINE g == [n \in N |-> at[n]]
  <1>1. Len(list) \in Nat
    OBVIOUS
  <1>2. IsFiniteSet(N)
    <2>1. IsFiniteSet(1 .. Len(list))
      BY <1>1, FS_Interval
    <2>2. N \subseteq 1 .. Len(list)
      OBVIOUS
    <2>. QED
      BY <2>1, <2>2, FS_Subset
  <1>3. g \in [N -> C] /\ \A n \in N : g[n] = at[n] /\ n \in 1 .. Len(list)
    OBVIOUS
  <1>4. ASSUME NEW c \in C PROVE \E n \in N : g[n] = c
    <2>1. PICK k \in keys : \E j \in 1 .. Len(f[k]) : c = <<k, j>>
      OBVIOUS
    <2>2. PICK j \in 1 .. Len(f[k]) : c = <<k, j>>
      BY <2>1
    <2>3. PICK n \in 1 .. Len(list) : at[n] = <<k, j>>
      BY DEF IsKeyedPlacing
    <2>. QED
      BY <2>2, <2>3
  <1>. HIDE DEF g
  <1>5. \A n, m \in N : g[n] = g[m] => n = m
    BY <1>3 DEF IsKeyedPlacing
  <1>6. g \in Injection(N, C)
    BY <1>3, <1>5, Fun_IsInj
  <1>7. g \in Surjection(N, C)
    BY <1>3, <1>4, Fun_IsSurj
  <1>8. ExistsBijection(N, C)
    BY <1>6, <1>7 DEF ExistsBijection, Bijection
  <1>9. IsFiniteSet(C) /\ Cardinality(C) = Cardinality(N)
    BY <1>2, <1>8, FS_Bijection
  <1>. QED
    BY <1>9

-----------------------------------------------------------------------------
(***************************************************************************)
(* Picking the elements whose key no earlier one has keeps every key, and  *)
(* each once.                                                              *)
(***************************************************************************)
AreFirst(chosen, seq, key) ==
  \A i \in DOMAIN seq : i \in chosen <=> \A j \in 1 .. (i - 1) : key[seq[j]] # key[seq[i]]

LEMMA KeptOnce ==
  ASSUME NEW S, NEW seq \in Seq(S), NEW key, NEW chosen, AreFirst(chosen, seq, key),
         NEW kept, kept = Picked(seq, chosen)
  PROVE  /\ kept \in Seq(S)
         /\ \A k \in DOMAIN kept : \E i \in DOMAIN seq : kept[k] = seq[i]
         /\ \A i \in DOMAIN seq : \E k \in DOMAIN kept : key[kept[k]] = key[seq[i]]
         /\ \A k, l \in DOMAIN kept : key[kept[k]] = key[kept[l]] => k = l
  <1> DEFINE n == Len(kept)
             goal == chosen \intersect DOMAIN seq
  <1>1. kept \in Seq(S)
    BY PickedPlacing
  <1>2. PICK at : IsPicking(at, kept, seq, goal)
    BY PickedPlacing
  <1>3. DOMAIN seq = 1 .. Len(seq) /\ Len(seq) \in Nat /\ DOMAIN kept = 1 .. n /\ n \in Nat
    BY <1>1, LenProperties
  <1>4. \A k \in 1 .. n : at[k] \in goal /\ kept[k] = seq[at[k]]
    BY <1>2 DEF IsPicking
  <1>5. ASSUME NEW i \in 1 .. Len(seq) PROVE \E k \in 1 .. n : key[kept[k]] = key[seq[i]]
    <2> DEFINE same == {j \in 1 .. i : key[seq[j]] = key[seq[i]]}
    <2>1. same \in SUBSET Nat /\ i \in same
      BY <1>3
    <2>2. PICK m \in same : \A j \in same : m <= j
      BY <2>1, LeastElement
    <2>3. m \in 1 .. Len(seq) /\ key[seq[m]] = key[seq[i]] /\ m \in 1 .. i
      BY <1>3, <2>2
    <2>4. \A j \in 1 .. (m - 1) : key[seq[j]] # key[seq[m]]
      BY <1>3, <2>2, <2>3
    <2>5. m \in goal
      BY <1>3, <2>3, <2>4 DEF AreFirst
    <2>6. PICK k \in 1 .. n : at[k] = m
      BY <1>2, <2>5 DEF IsPicking
    <2>. QED
      BY <1>4, <2>3, <2>6
  <1>6. \A i, j \in goal : key[seq[i]] = key[seq[j]] => ~(i < j)
    BY <1>3 DEF AreFirst
  <1>7. \A i, j \in goal : key[seq[i]] = key[seq[j]] => i = j
    BY <1>3, <1>6
  <1>8. \A k, l \in 1 .. n : key[kept[k]] = key[kept[l]] => k = l
    <2>1. \A k, l \in 1 .. n : at[k] = at[l] => k = l
      BY <1>2 DEF IsPicking
    <2>. QED
      BY <1>4, <1>7, <2>1
  <1>9. \A k \in DOMAIN kept : \E i \in DOMAIN seq : kept[k] = seq[i]
    BY <1>3, <1>4
  <1>. HIDE DEF n
  <1>. QED
    BY <1>1, <1>3, <1>5, <1>8, <1>9

(***************************************************************************)
(* There are as many keys as elements that differ in their keys.           *)
(***************************************************************************)
LEMMA KeysCounted ==
  ASSUME NEW S, NEW kept \in Seq(S), NEW key,
         \A k, l \in DOMAIN kept : key[kept[k]] = key[kept[l]] => k = l,
         NEW Kept, Kept = {key[kept[k]] : k \in DOMAIN kept}
  PROVE  IsFiniteSet(Kept) /\ Cardinality(Kept) = Len(kept)
  <1> DEFINE n == Len(kept)
             f == [k \in 1 .. n |-> key[kept[k]]]
  <1>1. n \in Nat /\ DOMAIN kept = 1 .. n
    BY LenProperties
  <1>2. f \in [1 .. n -> Kept]
    BY <1>1
  <1>3. \A x \in Kept : \E k \in 1 .. n : f[k] = x
    BY <1>1
  <1>4. \A k, l \in 1 .. n : f[k] = f[l] => k = l
    BY <1>1
  <1>. HIDE DEF f, n
  <1>5. n \in Nat
    BY <1>1
  <1>6. IsFiniteSet(Kept)
    BY ONLY <1>2, <1>3, <1>4, <1>5, CountOf
  <1>7. Cardinality(Kept) = n
    BY ONLY <1>2, <1>3, <1>4, <1>5, CountOf
  <1>. QED
    BY <1>6, <1>7 DEF n

(***************************************************************************)
(* A finite set listed in any order: every element once.                   *)
(***************************************************************************)
LEMMA AnyOrder ==
  ASSUME NEW T, IsFiniteSet(T), NEW list \in SetToSeqs(T)
  PROVE  /\ list \in Seq(T) /\ Len(list) = Cardinality(T) /\ Range(list) = T
         /\ \A i, j \in DOMAIN list : list[i] = list[j] => i = j
  <1> DEFINE n == Cardinality(T)
  <1>1. n \in Nat
    BY FS_CardinalityType
  <1>2. list \in [1 .. n -> T] /\ \A i, j \in 1 .. n : list[i] = list[j] => i = j
    BY DEF SetToSeqs
  <1>. HIDE DEF n
  <1>3. list \in Seq(T) /\ Len(list) = n /\ DOMAIN list = 1 .. n
    BY <1>1, <1>2
  <1>4. list \in Injection(1 .. n, T)
    BY <1>2, Fun_IsInj
  <1>5. Cardinality(1 .. n) = Cardinality(T) /\ IsFiniteSet(1 .. n)
    BY <1>1, FS_Interval DEF n
  <1>6. list \in Surjection(1 .. n, T)
    BY <1>4, <1>5, FS_Injection
  <1>7. \A x \in T : \E i \in 1 .. n : list[i] = x
    BY <1>6 DEF Surjection
  <1>8. Range(list) = T
    BY <1>2, <1>3, <1>7 DEF Range
  <1>. QED
    BY <1>2, <1>3, <1>8 DEF n

-----------------------------------------------------------------------------
(***************************************************************************)
(* There is a function that is defined by recursion over numbers, and its  *)
(* values stay where the steps do.                                         *)
(***************************************************************************)
IsRecursion(f, base, step, n) ==
  f = [i \in 0 .. n |-> IF i = 0 THEN base ELSE step[<<f[i - 1], i>>]]

LEMMA RecursionExists ==
  ASSUME NEW S, NEW base \in S, NEW n \in Nat, NEW step \in [S \X (1 .. n) -> S]
  PROVE  \E f \in [0 .. n -> S] : IsRecursion(f, base, step, n)
  <1> DEFINE Steps(f, m) == f = [i \in 0 .. m |-> IF i = 0 THEN base ELSE step[<<f[i - 1], i>>]]
             Reached(m) == \E f \in [0 .. m -> S] : Steps(f, m)
             Bad == {m \in 0 .. n : ~Reached(m)}
  <1> HIDE DEF Reached
  <1>1. SUFFICES ASSUME n \in Bad PROVE FALSE
    BY DEF Reached, IsRecursion
  <1>2. PICK m \in Bad : \A k \in Bad : m <= k
    <2>1. Bad \in SUBSET Nat
      OBVIOUS
    <2>. HIDE DEF Bad
    <2>. QED
      BY <1>1, <2>1, LeastElement
  <1>3. m \in 0 .. n /\ ~Reached(m)
    OBVIOUS
  <1>4. CASE m = 0
    <2> DEFINE f == [i \in 0 .. 0 |-> base]
    <2>1. f \in [0 .. 0 -> S] /\ Steps(f, 0)
      OBVIOUS
    <2>. QED
      BY <1>3, <1>4, <2>1 DEF Reached
  <1>5. CASE m # 0
    <2>1. m - 1 \in 0 .. n /\ m \in 1 .. n /\ m \in 0 .. m /\ m - 1 \in 0 .. m - 1
      BY <1>3, <1>5
    <2>2. Reached(m - 1)
      <3>1. ~(m <= m - 1)
        BY <2>1
      <3>. QED
        BY <1>2, <2>1, <3>1
    <2>3. PICK f \in [0 .. m - 1 -> S] : Steps(f, m - 1)
      BY <2>2 DEF Reached
    <2> DEFINE last == step[<<f[m - 1], m>>]
               g == [i \in 0 .. m |-> IF i = m THEN last ELSE f[i]]
    <2>4. last \in S
      BY <2>1
    <2>. HIDE DEF last
    <2>5. \A i \in 0 .. m : i = m \/ i \in 0 .. m - 1
      BY <2>1
    <2>6. g \in [0 .. m -> S]
      BY <2>4, <2>5
    <2>7. g[m] = last /\ \A i \in 0 .. m - 1 : g[i] = f[i]
      BY <2>1
    <2>8. ASSUME NEW i \in 0 .. m PROVE g[i] = IF i = 0 THEN base ELSE step[<<g[i - 1], i>>]
      <3>1. CASE i = m
        BY <3>1, <1>5, <2>1, <2>7 DEF last
      <3>2. CASE i # m
        <4>1. i \in 0 .. m - 1 /\ (i # 0 => i - 1 \in 0 .. m - 1)
          BY <3>2, <2>5
        <4>2. f[i] = IF i = 0 THEN base ELSE step[<<f[i - 1], i>>]
          BY <4>1, <2>3
        <4>. QED
          BY <4>1, <4>2, <2>7
      <3>. QED
        BY <3>1, <3>2
    <2>. HIDE DEF g
    <2>9. Steps(g, m)
      <3>1. g = [i \in 0 .. m |-> g[i]]
        BY <2>6
      <3>. QED
        BY <3>1, <2>8
    <2>. QED
      BY <1>3, <2>6, <2>9 DEF Reached
  <1>. QED
    BY <1>4, <1>5

(***************************************************************************)
(* The picked elements keep their order: as many as the places chosen, the *)
(* one at place i after those at the chosen places before it.              *)
(***************************************************************************)
LEMMA CountTo ==
  ASSUME NEW n \in Nat, NEW goal \in SUBSET (1 .. n),
         NEW count, count = [i \in 0 .. n |-> Cardinality({j \in goal : j <= i})]
  PROVE  /\ count \in [0 .. n -> Nat]
         /\ count[0] = 0 /\ count[n] = Cardinality(goal)
         /\ \A i \in 1 .. n : count[i] = IF i \in goal THEN count[i - 1] + 1 ELSE count[i - 1]
         /\ \A i, j \in 0 .. n : i <= j => count[i] <= count[j]
  <1> DEFINE upTo(i) == {j \in goal : j <= i}
  <1>1. goal \subseteq 1 .. n /\ \A j \in goal : j \in Nat /\ 1 <= j /\ j <= n
    <2>1. goal \subseteq 1 .. n
      BY Zenon
    <2>. QED
      BY <2>1
  <1>2. \A i \in 0 .. n : count[i] = Cardinality(upTo(i))
    OBVIOUS
  <1>3. \A i \in 0 .. n : upTo(i) \subseteq goal /\ \A j \in goal : j \in upTo(i) <=> j <= i
    OBVIOUS
  <1>4. upTo(n) = goal
    BY <1>1
  <1>. HIDE DEF upTo
  <1>5. ASSUME NEW i \in 0 .. n PROVE IsFiniteSet(upTo(i)) /\ Cardinality(upTo(i)) \in Nat
    <2>1. upTo(i) \in SUBSET Nat /\ \A j \in upTo(i) : j <= i
      BY <1>1, <1>3
    <2>2. IsFiniteSet(upTo(i))
      BY <2>1, FS_BoundedSetOfNaturals
    <2>. QED
      BY <2>2, FS_CardinalityType
  <1>6. count = [i \in 0 .. n |-> count[i]]
    OBVIOUS
  <1>7. count \in [0 .. n -> Nat]
    BY <1>2, <1>5, <1>6
  <1>8. count[0] = 0
    <2>1. 0 \in 0 .. n /\ \A j \in goal : ~(j <= 0)
      BY <1>1
    <2>2. upTo(0) = {}
      BY <1>3, <2>1
    <2>. QED
      BY <1>2, <2>1, <2>2, FS_EmptySet
  <1>9. count[n] = Cardinality(goal)
    BY <1>2, <1>4
  <1>10. ASSUME NEW i \in 1 .. n PROVE count[i] = IF i \in goal THEN count[i - 1] + 1 ELSE count[i - 1]
    <2>1. i - 1 \in 0 .. n /\ i \in 0 .. n
      OBVIOUS
    <2>4. \A j \in goal : j <= i <=> j <= i - 1 \/ j = i
      BY <1>1
    <2>2. CASE i \in goal
      <3>1. upTo(i) \subseteq goal /\ upTo(i - 1) \subseteq goal /\ ~(i <= i - 1)
        BY <1>3, <2>1
      <3>3. \A j \in goal : j \in upTo(i) <=> j \in upTo(i - 1) \/ j = i
        BY <1>3, <2>1, <2>4
      <3>4. i \notin upTo(i - 1)
        BY <1>3, <2>1, <2>2, <3>1
      <3>5. upTo(i) = upTo(i - 1) \union {i}
        BY <2>2, <3>1, <3>3
      <3>2. Cardinality(upTo(i)) = Cardinality(upTo(i - 1)) + 1
        BY <1>5, <2>1, <3>4, <3>5, FS_AddElement
      <3>. QED
        BY <1>2, <2>1, <2>2, <3>2
    <2>3. CASE i \notin goal
      <3>1. upTo(i) = upTo(i - 1)
        BY <1>3, <2>1, <2>3, <2>4
      <3>. QED
        BY <1>2, <2>1, <2>3, <3>1
    <2>. QED
      BY <2>2, <2>3
  <1>11. ASSUME NEW i \in 0 .. n, NEW j \in 0 .. n, i <= j PROVE count[i] <= count[j]
    <2>0. \A k \in goal : k <= i => k <= j
      BY <1>1, <1>11
    <2>1. upTo(i) \in SUBSET upTo(j)
      <3>1. \A k \in upTo(i) : k \in upTo(j)
        BY <1>3, <2>0
      <3>. QED
        BY <3>1
    <2>2. IsFiniteSet(upTo(j))
      BY <1>5
    <2>3. Cardinality(upTo(i)) <= Cardinality(upTo(j))
      BY <2>1, <2>2, FS_Subset
    <2>. QED
      BY <1>2, <2>3
  <1>. QED
    BY <1>7, <1>8, <1>9, <1>10, <1>11

LEMMA PickedInOrder ==
  ASSUME NEW S, NEW list \in Seq(S), NEW chosen, NEW goal, goal = chosen \intersect DOMAIN list
  PROVE  /\ Len(Picked(list, chosen)) = Cardinality(goal)
         /\ \A i \in goal : Picked(list, chosen)[Cardinality({j \in goal : j <= i})] = list[i]
  <1> DEFINE n == Len(list)
             seqs == [i \in 1 .. n |-> IF i \in chosen THEN <<list[i]>> ELSE <<>>]
             count == [i \in 0 .. n |-> Cardinality({j \in goal : j <= i})]
  <1>1. n \in Nat /\ DOMAIN list = 1 .. n /\ goal \in SUBSET (1 .. n) /\ \A i \in 1 .. n : list[i] \in S
    OBVIOUS
  <1>2. /\ count \in [0 .. n -> Nat]
        /\ count[0] = 0 /\ count[n] = Cardinality(goal)
        /\ \A i \in 1 .. n : count[i] = IF i \in goal THEN count[i - 1] + 1 ELSE count[i - 1]
        /\ \A i, j \in 0 .. n : i <= j => count[i] <= count[j]
    <2>. HIDE DEF n
    <2>. QED
      BY <1>1, CountTo
  <1>3. \A i \in goal : Cardinality({j \in goal : j <= i}) = count[i]
    BY <1>1
  <1>4. Picked(list, chosen) = FlattenSeq(seqs)
    BY <1>1 DEF Picked
  <1>5. \A i \in 1 .. n : /\ i \in goal => seqs[i] = <<list[i]>>
                          /\ i \notin goal => seqs[i] = <<>>
    BY <1>1
  <1>6. seqs \in [1 .. n -> Seq(S)]
    <2>1. \A x \in S : <<x>> \in Seq(S)
      OBVIOUS
    <2>2. <<>> \in Seq(S)
      OBVIOUS
    <2>. QED
      BY <1>1, <2>1, <2>2
  <1>. HIDE DEF seqs, count
  <1>7. seqs \in Seq(Seq(S)) /\ Len(seqs) = n
    <2>. HIDE DEF n
    <2>1. seqs \in Seq(Seq(S)) /\ DOMAIN seqs = 1 .. n
      BY <1>1, <1>6, SeqDefs
    <2>. QED
      BY <1>1, <2>1, LenProperties
  <1>8. CASE n = 0
    <2>1. FlattenSeq(seqs) = seqs
      BY <1>7, <1>8 DEF FlattenSeq
    <2>. QED
      BY <1>1, <1>2, <1>4, <1>7, <1>8, <2>1
  <1>9. CASE n # 0
    <2>1. PICK f \in [1 .. n -> Seq(S)] :
            /\ \A i \in 1 .. n : f[i] = IF i = 1 THEN seqs[i] ELSE f[i - 1] \o seqs[i]
            /\ FlattenSeq(seqs) = f[n]
      BY <1>7, <1>9, FlattenSteps
    <2> DEFINE Good(m) == Len(f[m]) = count[m] /\ \A i \in goal : i <= m => f[m][count[i]] = list[i]
               Bad == {m \in 1 .. n : ~Good(m)}
    <2>2. Bad = {}
      <3>. HIDE DEF Good
      <3>1. SUFFICES ASSUME NEW b \in Bad PROVE FALSE
        OBVIOUS
      <3>2. PICK m \in Bad : \A k \in Bad : m <= k
        <4>1. Bad \in SUBSET Nat
          OBVIOUS
        <4>. HIDE DEF Bad
        <4>. QED
          BY <3>1, <4>1, LeastElement
      <3>3. m \in 1 .. n /\ ~Good(m) /\ m - 1 \in 0 .. n /\ m \in 0 .. n
        BY <1>1
      <3> DEFINE before == IF m = 1 THEN <<>> ELSE f[m - 1]
      <3>4. before \in Seq(S) /\ Len(before) = count[m - 1] /\ \A i \in goal : i <= m - 1 => before[count[i]] = list[i]
        <4>1. CASE m = 1
          BY <1>1, <1>2, <4>1
        <4>2. CASE m # 1
          <5>1. m - 1 \in 1 .. n /\ ~(m <= m - 1)
            BY <1>1, <3>3, <4>2
          <5>2. Good(m - 1)
            BY <3>2, <5>1
          <5>. QED
            BY <4>2, <5>1, <5>2 DEF Good
        <4>. QED
          BY <4>1, <4>2
      <3>5. f[m] = before \o seqs[m]
        <4>1. seqs[m] \in Seq(S) /\ <<>> \o seqs[m] = seqs[m]
          BY <1>6, <3>3
        <4>2. f[m] = IF m = 1 THEN seqs[m] ELSE f[m - 1] \o seqs[m]
          BY <2>1, <3>3
        <4>. QED
          BY <4>1, <4>2
      <3>. HIDE DEF before
      <3>6. CASE m \in goal
        <4>1. seqs[m] = <<list[m]>> /\ list[m] \in S
          BY <1>1, <1>5, <3>6
        <4>2. count[m] = count[m - 1] + 1 /\ count[m - 1] \in Nat
          BY <1>2, <3>3, <3>6
        <4>3. Len(f[m]) = count[m] /\ f[m][count[m]] = list[m]
          BY <3>4, <3>5, <4>1, <4>2
        <4>4. ASSUME NEW i \in goal, i <= m - 1 PROVE f[m][count[i]] = list[i]
          <5>1. i \in 1 .. n /\ i \in 0 .. n /\ i - 1 \in 0 .. n
            BY <1>1
          <5>2. count[i] \in 1 .. count[m - 1]
            <6>1. count[i] = count[i - 1] + 1 /\ count[i - 1] \in Nat /\ count[i] <= count[m - 1]
              BY <1>2, <3>3, <4>4, <5>1
            <6>. QED
              BY <4>2, <6>1
          <5>. QED
            BY <3>4, <3>5, <4>1, <4>4, <5>2
        <4>5. \A i \in goal : i <= m => i = m \/ i <= m - 1
          BY <1>1
        <4>. QED
          BY <3>3, <4>3, <4>4, <4>5 DEF Good
      <3>7. CASE m \notin goal
        <4>1. f[m] = before
          BY <1>5, <3>3, <3>4, <3>5, <3>7
        <4>2. count[m] = count[m - 1]
          BY <1>2, <3>3, <3>7
        <4>3. \A i \in goal : i <= m => i <= m - 1
          BY <1>1, <3>7
        <4>. QED
          BY <3>3, <3>4, <4>1, <4>2, <4>3 DEF Good
      <3>. QED
        BY <3>6, <3>7
    <2>3. Good(n)
      BY <1>1, <1>9, <2>2
    <2>. QED
      BY <1>1, <1>2, <1>3, <1>4, <2>1, <2>3
  <1>. QED
    BY <1>8, <1>9

(***************************************************************************)
(* One more sequence at the end of those that are joined, and one more     *)
(* element at the end of a list, which is picked or not.                   *)
(***************************************************************************)
LEMMA FlattenAppend ==
  ASSUME NEW S, NEW seqs \in Seq(Seq(S)), NEW last \in Seq(S)
  PROVE  FlattenSeq(Append(seqs, last)) = FlattenSeq(seqs) \o last
  <1> DEFINE n == Len(seqs)
             longer == Append(seqs, last)
  <1>1. n \in Nat /\ longer \in Seq(Seq(S)) /\ Len(longer) = n + 1 /\ longer[n + 1] = last
        /\ \A i \in 1 .. n : longer[i] = seqs[i]
    OBVIOUS
  <1>. HIDE DEF longer
  <1>2. PICK g \in [1 .. n + 1 -> Seq(S)] :
          /\ \A i \in 1 .. n + 1 : g[i] = IF i = 1 THEN longer[i] ELSE g[i - 1] \o longer[i]
          /\ FlattenSeq(longer) = g[n + 1]
    <2>1. Len(longer) # 0
      BY <1>1
    <2>2. \E g \in [1 .. Len(longer) -> Seq(S)] :
            /\ \A i \in 1 .. Len(longer) : g[i] = IF i = 1 THEN longer[i] ELSE g[i - 1] \o longer[i]
            /\ FlattenSeq(longer) = g[Len(longer)]
      BY <1>1, <2>1, FlattenSteps
    <2>. QED
      BY <1>1, <2>2
  <1>3. CASE n = 0
    <2>1. FlattenSeq(seqs) = <<>>
      BY <1>3 DEF FlattenSeq
    <2>2. g[1] = last
      BY <1>1, <1>2, <1>3
    <2>. QED
      BY <1>2, <1>3, <2>1, <2>2, ConcatEmptySeq DEF longer
  <1>4. CASE n # 0
    <2>1. PICK f \in [1 .. n -> Seq(S)] :
            /\ \A i \in 1 .. n : f[i] = IF i = 1 THEN seqs[i] ELSE f[i - 1] \o seqs[i]
            /\ FlattenSeq(seqs) = f[n]
      BY <1>4, FlattenSteps
    <2> DEFINE Bad == {i \in 1 .. n : f[i] # g[i]}
    <2>2. Bad = {}
      <3>1. SUFFICES ASSUME NEW j \in Bad PROVE FALSE
        OBVIOUS
      <3>2. PICK i \in Bad : \A l \in Bad : i <= l
        <4>1. Bad \in SUBSET Nat
          OBVIOUS
        <4>. HIDE DEF Bad
        <4>. QED
          BY <3>1, <4>1, LeastElement
      <3>3. i \in 1 .. n /\ i \in 1 .. n + 1 /\ f[i] # g[i]
        BY <1>1
      <3>4. /\ f[i] = IF i = 1 THEN seqs[i] ELSE f[i - 1] \o seqs[i]
            /\ g[i] = IF i = 1 THEN longer[i] ELSE g[i - 1] \o longer[i]
            /\ longer[i] = seqs[i]
        BY <1>1, <1>2, <2>1, <3>3
      <3>5. i # 1
        BY <3>3, <3>4
      <3>6. i - 1 \in 1 .. n /\ ~(i <= i - 1)
        BY <1>1, <3>3, <3>5
      <3>7. f[i - 1] = g[i - 1]
        BY <3>2, <3>6
      <3>. QED
        BY <3>3, <3>4, <3>5, <3>7
    <2>3. f[n] = g[n]
      <3>1. n \in 1 .. n
        BY <1>1, <1>4
      <3>. QED
        BY <2>2, <3>1
    <2>4. n + 1 # 1 /\ n + 1 \in 1 .. n + 1 /\ (n + 1) - 1 = n
      BY <1>1, <1>4
    <2>5. g[n + 1] = g[n] \o last
      BY <1>1, <1>2, <2>4
    <2>. QED
      BY <1>2, <2>1, <2>3, <2>5 DEF longer
  <1>. QED
    BY <1>3, <1>4

LEMMA PickedAppend ==
  ASSUME NEW S, NEW list \in Seq(S), NEW x \in S, NEW chosen, NEW more,
         \A i \in 1 .. Len(list) : i \in chosen <=> i \in more
  PROVE  Picked(Append(list, x), more) =
           IF Len(list) + 1 \in more THEN Append(Picked(list, chosen), x) ELSE Picked(list, chosen)
  <1> DEFINE n == Len(list)
             longer == Append(list, x)
             seqs == [i \in 1 .. n |-> IF i \in chosen THEN <<list[i]>> ELSE <<>>]
             last == IF n + 1 \in more THEN <<x>> ELSE <<>>
             all == [i \in 1 .. n + 1 |-> IF i \in more THEN <<longer[i]>> ELSE <<>>]
  <1>1. n \in Nat /\ DOMAIN list = 1 .. n /\ DOMAIN longer = 1 .. n + 1 /\ longer[n + 1] = x
        /\ \A i \in 1 .. n : longer[i] = list[i] /\ list[i] \in S
    OBVIOUS
  <1>2. Picked(list, chosen) = FlattenSeq(seqs) /\ Picked(longer, more) = FlattenSeq(all)
    BY <1>1 DEF Picked
  <1>3. \A y \in S : <<y>> \in Seq(S)
    OBVIOUS
  <1>4. <<>> \in Seq(S)
    OBVIOUS
  <1>5. seqs \in [1 .. n -> Seq(S)] /\ last \in Seq(S)
    BY <1>1, <1>3, <1>4
  <1>6. seqs \in Seq(Seq(S)) /\ Len(seqs) = n
    <2>. HIDE DEF n
    <2>1. seqs \in Seq(Seq(S))
      BY <1>1, <1>5, SeqDefs
    <2>. QED
      BY <1>1, <2>1
  <1>7. \A i \in 1 .. n : seqs[i] = IF i \in chosen THEN <<list[i]>> ELSE <<>>
    OBVIOUS
  <1>8. ASSUME NEW i \in 1 .. n + 1 PROVE all[i] = IF i = n + 1 THEN last ELSE seqs[i]
    <2>1. CASE i = n + 1
      BY <1>1, <2>1
    <2>2. CASE i # n + 1
      <3>1. i \in 1 .. n
        BY <1>1, <2>2
      <3>2. all[i] = IF i \in more THEN <<list[i]>> ELSE <<>>
        BY <1>1, <3>1
      <3>3. seqs[i] = IF i \in chosen THEN <<list[i]>> ELSE <<>>
        BY <1>7, <3>1
      <3>. QED
        BY <2>2, <3>1, <3>2, <3>3
    <2>. QED
      BY <2>1, <2>2
  <1>9. all = Append(seqs, last)
    <2>1. \A i \in 1 .. n : seqs[i] \in Seq(S)
      BY <1>5
    <2>2. all \in [1 .. n + 1 -> Seq(S)]
      <3>1. all = [i \in 1 .. n + 1 |-> all[i]]
        OBVIOUS
      <3>. HIDE DEF all, seqs, last, n
      <3>. QED
        BY <1>1, <1>5, <1>8, <2>1, <3>1
    <2>. HIDE DEF all, seqs, last, n
    <2>3. all \in Seq(Seq(S)) /\ n + 1 \in Nat
      BY <1>1, <2>2, SeqDefs
    <2>4. Len(all) = n + 1
      BY <1>1, <2>2, <2>3
    <2>5. /\ Append(seqs, last) \in Seq(Seq(S)) /\ Len(Append(seqs, last)) = n + 1
          /\ Append(seqs, last)[n + 1] = last
          /\ \A i \in 1 .. n : Append(seqs, last)[i] = seqs[i]
      BY <1>1, <1>5, <1>6, AppendProperties
    <2>6. \A i \in 1 .. n + 1 : all[i] = Append(seqs, last)[i]
      BY <1>1, <1>8, <2>5
    <2>. QED
      BY <2>3, <2>4, <2>5, <2>6, SeqEqual
  <1>. HIDE DEF all, seqs
  <1>10. Picked(longer, more) = FlattenSeq(seqs) \o last
    BY <1>2, <1>5, <1>6, <1>9, FlattenAppend
  <1>11. FlattenSeq(seqs) \in Seq(S)
    BY <1>6, FlattenIsSeq
  <1>12. CASE n + 1 \in more
    BY <1>2, <1>10, <1>11, <1>12, AppendIsConcat
  <1>13. CASE n + 1 \notin more
    BY <1>2, <1>10, <1>11, <1>13, ConcatEmptySeq
  <1>. QED
    BY <1>12, <1>13

(***************************************************************************)
(* What is picked from the beginning of a list is the beginning of what is *)
(* picked from all of it.                                                  *)
(***************************************************************************)
IsFront(s, t) == Len(s) <= Len(t) /\ \A i \in 1 .. Len(s) : s[i] = t[i]

LEMMA PickedFront ==
  ASSUME NEW S, NEW list \in Seq(S), NEW chosen, NEW k \in 0 .. Len(list)
  PROVE  /\ Picked(SubSeq(list, 1, k), chosen) \in Seq(S)
         /\ IsFront(Picked(SubSeq(list, 1, k), chosen), Picked(list, chosen))
  <1> DEFINE n == Len(list)
             P(m) == Picked(SubSeq(list, 1, m), chosen)
             Bad == {m \in k .. n : ~IsFront(P(k), P(m))}
  <1>1. n \in Nat /\ k \in Nat /\ k <= n
    OBVIOUS
  <1>2. ASSUME NEW m \in 0 .. n PROVE SubSeq(list, 1, m) \in Seq(S) /\ Len(SubSeq(list, 1, m)) = m
    BY <1>1
  <1>3. ASSUME NEW m \in 0 .. n PROVE P(m) \in Seq(S)
    BY <1>2, PickedPlacing
  <1>4. ASSUME NEW m \in 1 .. n
        PROVE  P(m) = P(m - 1) \/ P(m) = Append(P(m - 1), list[m])
    <2>1. SubSeq(list, 1, m) = Append(SubSeq(list, 1, m - 1), list[m]) /\ list[m] \in S
      BY <1>1
    <2> DEFINE short == SubSeq(list, 1, m - 1)
    <2>2. m - 1 \in 0 .. n
      BY <1>1
    <2>3. short \in Seq(S)
      BY <1>2, <2>2
    <2>4. P(m) = Picked(Append(short, list[m]), chosen) /\ P(m - 1) = Picked(short, chosen)
      BY <2>1
    <2>. HIDE DEF short, P
    <2>5. Picked(Append(short, list[m]), chosen) =
            IF Len(short) + 1 \in chosen THEN Append(Picked(short, chosen), list[m]) ELSE Picked(short, chosen)
      <3>1. \A x \in S : Picked(Append(short, x), chosen) =
              IF Len(short) + 1 \in chosen THEN Append(Picked(short, chosen), x) ELSE Picked(short, chosen)
        BY <2>3, PickedAppend
      <3>. QED
        BY <2>1, <3>1
    <2>. QED
      BY <2>4, <2>5
  <1>5. Bad = {}
    <2>1. SUFFICES ASSUME NEW j \in Bad PROVE FALSE
      OBVIOUS
    <2>2. PICK m \in Bad : \A l \in Bad : m <= l
      <3>1. Bad \in SUBSET Nat
        BY <1>1
      <3>. HIDE DEF Bad
      <3>. QED
        BY <2>1, <3>1, LeastElement
    <2>3. m \in k .. n /\ ~IsFront(P(k), P(m))
      OBVIOUS
    <2>4. P(k) \in Seq(S)
      BY <1>1, <1>3
    <2>. HIDE DEF P
    <2>5. m # k
      BY <2>3, <2>4 DEF IsFront
    <2>6. m \in 1 .. n /\ m - 1 \in k .. n /\ m - 1 \in 0 .. n /\ ~(m <= m - 1)
      BY <1>1, <2>3, <2>5
    <2>7. IsFront(P(k), P(m - 1))
      BY <2>2, <2>6
    <2>8. P(m - 1) \in Seq(S) /\ list[m] \in S
      BY <1>3, <2>6
    <2>9. IsFront(P(m - 1), P(m))
      <3>1. CASE P(m) = P(m - 1)
        BY <2>8, <3>1 DEF IsFront
      <3>2. CASE P(m) = Append(P(m - 1), list[m])
        BY <2>8, <3>2, AppendProperties DEF IsFront
      <3>. QED
        BY <1>4, <2>6, <3>1, <3>2
    <2>10. P(m) \in Seq(S)
      BY <1>3, <2>6
    <2>. QED
      BY <2>3, <2>4, <2>7, <2>8, <2>9, <2>10 DEF IsFront
  <1>6. SubSeq(list, 1, n) = list
    OBVIOUS
  <1>7. n \in k .. n
    BY <1>1
  <1>. QED
    BY <1>1, <1>3, <1>5, <1>6, <1>7

(***************************************************************************)
(* How a sequence ends: what comes before its last element, and that.      *)
(***************************************************************************)
LEMMA FrontAndLast ==
  ASSUME NEW S, NEW s \in Seq(S), NEW m \in 1 .. Len(s)
  PROVE  /\ SubSeq(s, 1, m - 1) \in Seq(S) /\ s[m] \in S
         /\ SubSeq(s, 1, m) = Append(SubSeq(s, 1, m - 1), s[m])
  <1>1. m \in Nat /\ Len(s) \in Nat /\ 1 \in 1 .. Len(s) /\ m \in 1 .. Len(s) /\ s[m] \in S
    OBVIOUS
  <1>2. SubSeq(s, 1, m - 1) \in Seq(S)
    BY <1>1, SubSeqProperties
  <1>3. SubSeq(s, 1, m) = SubSeq(s, 1, m - 1) \o <<s[m]>>
    BY <1>1, SubSeqRecursiveSecond
  <1>. QED
    BY <1>1, <1>2, <1>3, AppendIsConcat

\* One more element at the end of the second of two sequences.
LEMMA ConcatAppend ==
  ASSUME NEW S, NEW s \in Seq(S), NEW t \in Seq(S), NEW x \in S
  PROVE  s \o t \in Seq(S) /\ s \o Append(t, x) = Append(s \o t, x)
  <1>1. s \o t \in Seq(S) /\ <<x>> \in Seq(S)
    BY ConcatProperties
  <1>2. Append(t, x) = t \o <<x>> /\ Append(s \o t, x) = (s \o t) \o <<x>>
    BY <1>1, AppendIsConcat
  <1>3. (s \o t) \o <<x>> = s \o (t \o <<x>>)
    BY <1>1, ConcatAssociative
  <1>. QED
    BY <1>1, <1>2, <1>3

(***************************************************************************)
(* The join of two lists of sequences, one after the other.                *)
(***************************************************************************)
LEMMA FlattenEmpty == FlattenSeq(<<>>) = <<>>
  BY DEF FlattenSeq

LEMMA FlattenConcatStep ==
  ASSUME NEW S, NEW s \in Seq(Seq(S)), NEW u \in Seq(Seq(S)), NEW x \in Seq(S),
         FlattenSeq(s \o u) = FlattenSeq(s) \o FlattenSeq(u)
  PROVE  FlattenSeq(s \o Append(u, x)) = FlattenSeq(s) \o FlattenSeq(Append(u, x))
  <1>1. s \o u \in Seq(Seq(S)) /\ s \o Append(u, x) = Append(s \o u, x)
    BY ConcatAppend
  <1>2. FlattenSeq(Append(s \o u, x)) = FlattenSeq(s \o u) \o x
    BY <1>1, FlattenAppend
  <1>3. FlattenSeq(Append(u, x)) = FlattenSeq(u) \o x
    BY FlattenAppend
  <1>4. FlattenSeq(s) \in Seq(S) /\ FlattenSeq(u) \in Seq(S)
    BY FlattenIsSeq
  <1>5. (FlattenSeq(s) \o FlattenSeq(u)) \o x = FlattenSeq(s) \o (FlattenSeq(u) \o x)
    BY <1>4, ConcatAssociative
  <1>. QED
    BY <1>1, <1>2, <1>3, <1>5

LEMMA FlattenConcat ==
  ASSUME NEW S, NEW s \in Seq(Seq(S)), NEW t \in Seq(Seq(S))
  PROVE  FlattenSeq(s \o t) = FlattenSeq(s) \o FlattenSeq(t)
  <1> DEFINE u(m) == SubSeq(t, 1, m)
             Good(m) == FlattenSeq(s \o u(m)) = FlattenSeq(s) \o FlattenSeq(u(m))
             Bad == {m \in 0 .. Len(t) : ~Good(m)}
  <1>1. Bad \in SUBSET Nat
    OBVIOUS
  <1>2. FlattenSeq(s) \in Seq(S) /\ Len(t) \in Nat /\ Len(t) \in 0 .. Len(t)
    BY FlattenIsSeq
  <1>3. ASSUME NEW m \in Bad, \A k \in Bad : m <= k PROVE FALSE
    <2>1. m \in 0 .. Len(t) /\ ~Good(m) /\ m \in Nat
      OBVIOUS
    <2>2. CASE m = 0
      <3>1. u(0) = <<>>
        BY SubSeqEmpty
      <3>2. s \o <<>> = s /\ FlattenSeq(s) \o <<>> = FlattenSeq(s)
        BY <1>2, ConcatEmptySeq
      <3>. QED
        BY <2>1, <2>2, <3>1, <3>2, FlattenEmpty
    <2>3. CASE m # 0
      <3>1. m \in 1 .. Len(t) /\ m - 1 \in 0 .. Len(t) /\ ~(m <= m - 1)
        BY <1>2, <2>1, <2>3
      <3>2. /\ u(m - 1) \in Seq(Seq(S)) /\ t[m] \in Seq(S)
            /\ u(m) = Append(u(m - 1), t[m])
        BY <3>1, FrontAndLast
      <3>3. Good(m - 1)
        BY <1>3, <3>1
      <3>. HIDE DEF u
      <3>4. FlattenSeq(s \o Append(u(m - 1), t[m])) = FlattenSeq(s) \o FlattenSeq(Append(u(m - 1), t[m]))
        BY <3>2, <3>3, FlattenConcatStep
      <3>. QED
        BY <2>1, <3>2, <3>4
    <2>. QED
      BY <2>2, <2>3
  <1>4. Bad = {}
    <2>. HIDE DEF Bad
    <2>. QED
      BY <1>1, <1>3, LeastElement
  <1>5. Good(Len(t))
    BY <1>2, <1>4
  <1>6. u(Len(t)) = t
    BY SubSeqFull
  <1>. QED
    BY <1>5, <1>6

\* The join of one sequence.
LEMMA FlattenOne ==
  ASSUME NEW S, NEW a \in Seq(S)
  PROVE  FlattenSeq(<<a>>) = a
  <1>1. <<>> \in Seq(Seq(S)) /\ Append(<<>>, a) = <<a>>
    OBVIOUS
  <1>2. FlattenSeq(<<a>>) = <<>> \o a
    BY <1>1, FlattenAppend, FlattenEmpty
  <1>. QED
    BY <1>2

(***************************************************************************)
(* A join is what the lists up to one place join to, and then the others.  *)
(***************************************************************************)
LEMMA FlattenSplit ==
  ASSUME NEW S, NEW s \in Seq(Seq(S)), NEW k \in 0 .. Len(s)
  PROVE  /\ SubSeq(s, 1, k) \in Seq(Seq(S)) /\ SubSeq(s, k + 1, Len(s)) \in Seq(Seq(S))
         /\ SubSeq(s, 1, k) \o SubSeq(s, k + 1, Len(s)) = s
         /\ FlattenSeq(s) = FlattenSeq(SubSeq(s, 1, k)) \o FlattenSeq(SubSeq(s, k + 1, Len(s)))
  <1>1. Len(s) \in Nat /\ k \in Nat /\ k <= Len(s)
    OBVIOUS
  <1>2. SubSeq(s, 1, k) \in Seq(Seq(S)) /\ SubSeq(s, k + 1, Len(s)) \in Seq(Seq(S))
    BY <1>1
  <1>3. SubSeq(s, 1, k) \o SubSeq(s, k + 1, Len(s)) = SubSeq(s, 1, Len(s))
    <2>1. 1 \in 1 .. Len(s) + 1 /\ k \in 1 - 1 .. Len(s) /\ Len(s) \in k .. Len(s)
      BY <1>1
    <2>. QED
      BY <2>1, ConcatAdjacentSubSeq
  <1>4. SubSeq(s, 1, Len(s)) = s
    BY SubSeqFull
  <1>. QED
    BY <1>2, <1>3, <1>4, FlattenConcat

\* The join of empty sequences.
LEMMA FlattenEmpties ==
  ASSUME NEW S, NEW s \in Seq(Seq(S)), \A i \in 1 .. Len(s) : s[i] = <<>>
  PROVE  FlattenSeq(s) = <<>>
  <1>1. FlattenSeq(s) \in Seq(S)
    BY FlattenIsSeq
  <1>2. ASSUME FlattenSeq(s) # <<>> PROVE FALSE
    <2>0. DOMAIN s = 1 .. Len(s)
      OBVIOUS
    <2>1. 1 \in DOMAIN FlattenSeq(s)
      BY <1>1, <1>2
    <2>2. PICK i \in DOMAIN s : \E j \in DOMAIN s[i] : FlattenSeq(s)[1] = s[i][j]
      BY <2>1, FlattenHolds
    <2>3. s[i] = <<>>
      BY <2>0
    <2>. QED
      BY <2>2, <2>3
  <1>. QED
    BY <1>2

\* The join of single elements.
LEMMA FlattenSingles ==
  ASSUME NEW S, NEW c \in Seq(S), NEW s \in Seq(Seq(S)), Len(s) = Len(c),
         \A i \in 1 .. Len(s) : s[i] = <<c[i]>>
  PROVE  FlattenSeq(s) = c
  <1> DEFINE Good(m) == FlattenSeq(SubSeq(s, 1, m)) = SubSeq(c, 1, m)
             Bad == {m \in 0 .. Len(s) : ~Good(m)}
  <1>1. Bad \in SUBSET Nat /\ Len(s) \in Nat
    OBVIOUS
  <1>2. ASSUME NEW m \in Bad, \A k \in Bad : m <= k PROVE FALSE
    <2>1. m \in 0 .. Len(s) /\ ~Good(m) /\ m \in Nat
      OBVIOUS
    <2>2. CASE m = 0
      <3>1. SubSeq(s, 1, 0) = <<>> /\ SubSeq(c, 1, 0) = <<>>
        BY SubSeqEmpty
      <3>. QED
        BY <2>1, <2>2, <3>1, FlattenEmpty
    <2>3. CASE m # 0
      <3>1. m \in 1 .. Len(s) /\ m - 1 \in 0 .. Len(s) /\ ~(m <= m - 1) /\ m \in 1 .. Len(c)
        BY <1>1, <2>1, <2>3
      <3>2. /\ SubSeq(s, 1, m - 1) \in Seq(Seq(S)) /\ s[m] \in Seq(S)
            /\ SubSeq(s, 1, m) = Append(SubSeq(s, 1, m - 1), s[m])
        BY <3>1, FrontAndLast
      <3>3. /\ SubSeq(c, 1, m - 1) \in Seq(S) /\ c[m] \in S
            /\ SubSeq(c, 1, m) = Append(SubSeq(c, 1, m - 1), c[m])
        BY <3>1, FrontAndLast
      <3>4. Good(m - 1)
        BY <1>2, <3>1
      <3>5. FlattenSeq(SubSeq(s, 1, m)) = FlattenSeq(SubSeq(s, 1, m - 1)) \o s[m]
        BY <3>2, FlattenAppend
      <3>6. s[m] = <<c[m]>>
        BY <3>1
      <3>7. SubSeq(c, 1, m - 1) \o <<c[m]>> = Append(SubSeq(c, 1, m - 1), c[m])
        BY <3>3, AppendIsConcat
      <3>. QED
        BY <2>1, <3>3, <3>4, <3>5, <3>6, <3>7
    <2>. QED
      BY <2>2, <2>3
  <1>3. Bad = {}
    <2>. HIDE DEF Bad
    <2>. QED
      BY <1>1, <1>2, LeastElement
  <1>4. Good(Len(s))
    BY <1>1, <1>3
  <1>. QED
    BY <1>4, SubSeqFull

(***************************************************************************)
(* What meets the equations of a recursion stays in the set they stay in.  *)
(***************************************************************************)
Recurs(S, f, base, step, n) ==
  /\ f = [i \in 0 .. n |-> f[i]] /\ f[0] = base
  /\ \A i \in 1 .. n : f[i - 1] \in S => f[i] = step[<<f[i - 1], i>>]

LEMMA RecursionHolds ==
  ASSUME NEW S, NEW base \in S, NEW n \in Nat, NEW step \in [S \X (1 .. n) -> S], NEW f,
         Recurs(S, f, base, step, n)
  PROVE  f \in [0 .. n -> S] /\ \A i \in 1 .. n : f[i] = step[<<f[i - 1], i>>]
  <1> DEFINE Bad == {m \in 0 .. n : f[m] \notin S}
  <1>0. /\ f = [i \in 0 .. n |-> f[i]] /\ f[0] = base
        /\ \A i \in 1 .. n : f[i - 1] \in S => f[i] = step[<<f[i - 1], i>>]
    BY DEF Recurs
  <1>1. ASSUME NEW m \in Bad, \A k \in Bad : m <= k PROVE FALSE
    <2>1. m \in 0 .. n /\ f[m] \notin S /\ m # 0
      BY <1>0
    <2>2. m \in 1 .. n /\ m - 1 \in 0 .. n /\ ~(m <= m - 1)
      BY <2>1
    <2>3. f[m - 1] \in S
      BY <1>1, <2>2
    <2>4. f[m] = step[<<f[m - 1], m>>]
      BY <1>0, <2>2, <2>3
    <2>. QED
      BY <2>1, <2>2, <2>3, <2>4
  <1>2. Bad = {}
    <2>1. Bad \in SUBSET Nat
      OBVIOUS
    <2>. HIDE DEF Bad
    <2>. QED
      BY <1>1, <2>1, LeastElement
  <1>3. \A i \in 0 .. n : f[i] \in S
    BY <1>2
  <1>4. \A i \in 1 .. n : i - 1 \in 0 .. n
    OBVIOUS
  <1>. QED
    BY <1>0, <1>3, <1>4

(***************************************************************************)
(* The picked elements come from places that follow each other.            *)
(***************************************************************************)
IsRanking(at, picked, list, goal) ==
  /\ at \in [1 .. Len(picked) -> goal]
  /\ \A k \in 1 .. Len(picked) : picked[k] = list[at[k]]
  /\ \A k, l \in 1 .. Len(picked) : k < l => at[k] < at[l]
  /\ \A i \in goal : \E k \in 1 .. Len(picked) : at[k] = i

LEMMA PickedByRank ==
  ASSUME NEW S, NEW list \in Seq(S), NEW chosen, NEW goal, goal = chosen \intersect DOMAIN list
  PROVE  \E at : IsRanking(at, Picked(list, chosen), list, goal)
  <1> DEFINE n == Len(list)
             N == Cardinality(goal)
             count == [i \in 0 .. n |-> Cardinality({j \in goal : j <= i})]
             P(k, i) == i \in goal /\ count[i] = k
             at == [k \in 1 .. N |-> CHOOSE i \in goal : count[i] = k]
  <1>1. n \in Nat /\ DOMAIN list = 1 .. n /\ goal \in SUBSET (1 .. n)
    OBVIOUS
  <1>2. /\ count \in [0 .. n -> Nat]
        /\ count[0] = 0 /\ count[n] = Cardinality(goal)
        /\ \A i \in 1 .. n : count[i] = IF i \in goal THEN count[i - 1] + 1 ELSE count[i - 1]
        /\ \A i, j \in 0 .. n : i <= j => count[i] <= count[j]
    <2>. HIDE DEF n
    <2>. QED
      BY <1>1, CountTo
  <1>3. \A i \in goal : Cardinality({j \in goal : j <= i}) = count[i]
    BY <1>1
  <1>4. /\ Len(Picked(list, chosen)) = N
        /\ \A i \in goal : Picked(list, chosen)[count[i]] = list[i]
    <2>1. /\ Len(Picked(list, chosen)) = N
          /\ \A i \in goal : Picked(list, chosen)[Cardinality({j \in goal : j <= i})] = list[i]
      BY PickedInOrder
    <2>. HIDE DEF count
    <2>. QED
      BY <1>3, <2>1
  <1>. HIDE DEF count, n
  <1>5. N \in Nat /\ N = count[n]
    BY <1>1, <1>2
  <1>. HIDE DEF N
  <1>6. \A i, j \in goal : count[i] = count[j] => i = j
    <2>1. ASSUME NEW i \in goal, NEW j \in goal, i < j PROVE count[i] < count[j]
      <3>1. i \in 0 .. n /\ j \in 1 .. n /\ j - 1 \in 0 .. n /\ i <= j - 1
        BY <1>1, <2>1
      <3>2. count[i] <= count[j - 1] /\ count[j] = count[j - 1] + 1
        BY <1>2, <3>1
      <3>. QED
        BY <1>2, <3>1, <3>2
    <2>2. \A i, j \in goal : i < j \/ j < i \/ i = j
      BY <1>1
    <2>3. \A i \in goal : count[i] \in Nat
      BY <1>1, <1>2
    <2>. QED
      BY <2>1, <2>2, <2>3
  <1>7. ASSUME NEW k \in 1 .. N PROVE \E i \in goal : count[i] = k
    <2> DEFINE Reach == {i \in 0 .. n : k <= count[i]}
    <2>1. Reach \in SUBSET Nat /\ n \in Reach
      BY <1>1, <1>5
    <2>2. PICK m \in Reach : \A i \in Reach : m <= i
      <3>. HIDE DEF Reach
      <3>. QED
        BY <2>1, LeastElement
    <2>3. m \in 0 .. n /\ k <= count[m] /\ m # 0 /\ k \in Nat /\ k # 0
      BY <1>2, <1>5
    <2>4. m \in 1 .. n /\ m - 1 \in 0 .. n /\ ~(m <= m - 1)
      BY <1>1, <2>3
    <2>5. ~(k <= count[m - 1])
      BY <2>2, <2>4
    <2>6. count[m] = (IF m \in goal THEN count[m - 1] + 1 ELSE count[m - 1]) /\ count[m - 1] \in Nat
      BY <1>2, <2>4
    <2>7. m \in goal /\ count[m] = k
      BY <2>3, <2>5, <2>6
    <2>. QED
      BY <2>7
  <1>8. \A i \in goal : count[i] \in 1 .. N
    <2>1. ASSUME NEW i \in goal PROVE count[i] \in 1 .. N
      <3>1. i \in 1 .. n /\ i - 1 \in 0 .. n /\ i \in 0 .. n /\ n \in 0 .. n /\ i <= n
        BY <1>1
      <3>2. count[i] = count[i - 1] + 1 /\ count[i] <= count[n] /\ count[i] \in Nat /\ count[i - 1] \in Nat
        BY <1>2, <3>1
      <3>. QED
        BY <1>5, <3>2
    <2>. QED
      BY <2>1
  <1>9. \A k \in 1 .. N : at[k] \in goal /\ count[at[k]] = k
    BY <1>7
  <1>10. at \in [1 .. N -> goal]
    BY <1>9
  <1>. HIDE DEF at
  <1>11. ASSUME NEW k \in 1 .. N, NEW l \in 1 .. N, k < l PROVE at[k] < at[l]
    <2>1. /\ at[k] \in 0 .. n /\ at[l] \in 0 .. n /\ k \in Nat /\ l \in Nat
          /\ count[at[k]] = k /\ count[at[l]] = l
      BY <1>1, <1>5, <1>9
    <2>2. ASSUME at[l] <= at[k] PROVE FALSE
      <3>1. count[at[l]] <= count[at[k]]
        BY <1>2, <2>1, <2>2
      <3>. QED
        BY <1>11, <2>1, <3>1
    <2>. QED
      BY <1>1, <2>1, <2>2
  <1>12. \A i \in goal : \E k \in 1 .. N : at[k] = i
    BY <1>6, <1>8, <1>9
  <1>13. \A k \in 1 .. N : Picked(list, chosen)[k] = list[at[k]]
    BY <1>4, <1>9
  <1>14. IsRanking(at, Picked(list, chosen), list, goal)
    BY <1>4, <1>10, <1>11, <1>12, <1>13 DEF IsRanking
  <1>. QED
    BY <1>14

(***************************************************************************)
(* Concatenations, put together another way.                               *)
(***************************************************************************)
Regroups(S, a, b, c) == (a \o b) \o c = a \o (b \o c)

LEMMA RegroupsAll ==
  ASSUME NEW S, NEW a \in Seq(S), NEW b \in Seq(S), NEW c \in Seq(S)
  PROVE  Regroups(S, a, b, c) /\ a \o b \in Seq(S)
  BY ConcatAssociative, ConcatProperties DEF Regroups

\* The same text, in two halves and around another text.
SameHalves(a, n, x, y, b) == a \o ((n \o (x \o y)) \o b) = (a \o (n \o x)) \o (y \o b)
SameAround(a, n, x, t, y, b) == (a \o (n \o ((x \o t) \o y))) \o b = (a \o (n \o x)) \o (t \o (y \o b))

LEMMA Regrouped ==
  ASSUME NEW S, NEW a \in Seq(S), NEW n \in Seq(S), NEW x \in Seq(S), NEW t \in Seq(S), NEW y \in Seq(S),
         NEW b \in Seq(S)
  PROVE  SameHalves(a, n, x, y, b) /\ SameAround(a, n, x, t, y, b)
  <1> DEFINE nx == n \o x
             yb == y \o b
             ty == t \o y
             xt == x \o t
             anx == a \o nx
  <1>1. nx \in Seq(S) /\ yb \in Seq(S) /\ ty \in Seq(S)
    BY RegroupsAll, Zenon
  <1>. HIDE DEF nx, yb, ty, xt
  <1>2. anx \in Seq(S)
    BY <1>1, RegroupsAll, Zenon
  <1>. HIDE DEF anx
  <1>3. Regroups(S, n, x, y) /\ Regroups(S, x, t, y) /\ Regroups(S, t, y, b)
    BY RegroupsAll, Zenon
  <1>4. Regroups(S, nx, y, b) /\ Regroups(S, a, nx, yb) /\ Regroups(S, n, x, ty) /\ Regroups(S, a, nx, ty)
    BY <1>1, RegroupsAll, Zenon
  <1>5. Regroups(S, anx, ty, b)
    BY <1>1, <1>2, RegroupsAll, Zenon
  <1>6. /\ nx \o y = n \o (x \o y) /\ xt \o y = x \o ty /\ ty \o b = t \o yb
        /\ (nx \o y) \o b = nx \o yb /\ anx \o yb = a \o (nx \o yb)
        /\ nx \o ty = n \o (x \o ty) /\ anx \o ty = a \o (nx \o ty)
        /\ (anx \o ty) \o b = anx \o (ty \o b)
    <2>1. nx \o y = n \o (x \o y) /\ nx \o ty = n \o (x \o ty)
      BY <1>3, <1>4, Zenon DEF Regroups, nx
    <2>2. xt \o y = x \o ty
      BY <1>3, Zenon DEF Regroups, xt, ty
    <2>3. ty \o b = t \o yb /\ (nx \o y) \o b = nx \o yb
      BY <1>3, <1>4, Zenon DEF Regroups, ty, yb
    <2>4. anx \o yb = a \o (nx \o yb) /\ anx \o ty = a \o (nx \o ty)
      BY <1>4, Zenon DEF Regroups, anx
    <2>5. (anx \o ty) \o b = anx \o (ty \o b)
      BY <1>5, Zenon DEF Regroups
    <2>. QED
      BY <2>1, <2>2, <2>3, <2>4, <2>5, Zenon
  <1>7. a \o ((n \o (x \o y)) \o b) = anx \o yb
    BY <1>6, Zenon
  <1>8. (a \o (n \o (xt \o y))) \o b = anx \o (t \o yb)
    BY <1>6, Zenon
  <1>. QED
    BY <1>7, <1>8, Zenon DEF SameHalves, SameAround, anx, nx, yb, xt

\* A sequence is its first k elements and the others.
LEMMA TwoParts ==
  ASSUME NEW S, NEW s \in Seq(S), NEW k \in 0 .. Len(s)
  PROVE  /\ SubSeq(s, 1, k) \in Seq(S) /\ SubSeq(s, k + 1, Len(s)) \in Seq(S)
         /\ Len(SubSeq(s, 1, k)) = k /\ Len(SubSeq(s, k + 1, Len(s))) = Len(s) - k
         /\ \A i \in 1 .. k : SubSeq(s, 1, k)[i] = s[i]
         /\ \A i \in 1 .. Len(s) - k : SubSeq(s, k + 1, Len(s))[i] = s[k + i]
         /\ SubSeq(s, 1, k) \o SubSeq(s, k + 1, Len(s)) = s
  <1>1. Len(s) \in Nat /\ k \in Nat /\ k <= Len(s) /\ \A i \in 1 .. Len(s) : s[i] \in S
    OBVIOUS
  <1>2. \A i \in 1 .. k : s[i] \in S
    BY <1>1
  <1>3. \A i \in k + 1 .. Len(s) : s[i] \in S
    BY <1>1
  <1>4. /\ SubSeq(s, 1, k) \in Seq(S)
        /\ Len(SubSeq(s, 1, k)) = IF 1 <= k THEN k - 1 + 1 ELSE 0
        /\ \A i \in 1 .. k - 1 + 1 : SubSeq(s, 1, k)[i] = s[1 + i - 1]
    BY <1>1, <1>2, SubSeqProperties
  <1>5. /\ SubSeq(s, k + 1, Len(s)) \in Seq(S)
        /\ Len(SubSeq(s, k + 1, Len(s))) = IF k + 1 <= Len(s) THEN Len(s) - (k + 1) + 1 ELSE 0
        /\ \A i \in 1 .. Len(s) - (k + 1) + 1 : SubSeq(s, k + 1, Len(s))[i] = s[k + 1 + i - 1]
    BY <1>1, <1>3, SubSeqProperties
  <1>6. SubSeq(s, 1, k) \o SubSeq(s, k + 1, Len(s)) = s
    <2>1. 1 \in 1 .. Len(s) + 1 /\ k \in 1 - 1 .. Len(s) /\ Len(s) \in k .. Len(s)
      BY <1>1
    <2>2. SubSeq(s, 1, k) \o SubSeq(s, k + 1, Len(s)) = SubSeq(s, 1, Len(s))
      BY <2>1, ConcatAdjacentSubSeq
    <2>. QED
      BY <2>2, SubSeqFull
  <1>7. Len(SubSeq(s, 1, k)) = k /\ Len(SubSeq(s, k + 1, Len(s))) = Len(s) - k
    BY <1>1, <1>4, <1>5
  <1>8. \A i \in 1 .. k : i \in 1 .. k - 1 + 1 /\ 1 + i - 1 = i
    BY <1>1
  <1>9. \A i \in 1 .. Len(s) - k : i \in 1 .. Len(s) - (k + 1) + 1 /\ k + 1 + i - 1 = k + i
    BY <1>1
  <1>10. \A i \in 1 .. k : SubSeq(s, 1, k)[i] = s[i]
    BY <1>4, <1>8
  <1>11. \A i \in 1 .. Len(s) - k : SubSeq(s, k + 1, Len(s))[i] = s[k + i]
    BY <1>5, <1>9
  <1>. QED
    BY <1>4, <1>5, <1>6, <1>7, <1>10, <1>11

\* A concatenation, cut where its second part begins.
LEMMA CutAt ==
  ASSUME NEW S, NEW a \in Seq(S), NEW b \in Seq(S), NEW k, k = Len(a)
  PROVE  SubSeq(a \o b, 1, k) = a /\ SubSeq(a \o b, k + 1, Len(a \o b)) = b
  <1>1. /\ a \o b \in Seq(S) /\ Len(a \o b) = k + Len(b) /\ k \in Nat /\ Len(b) \in Nat
        /\ \A i \in 1 .. k + Len(b) : (a \o b)[i] = IF i <= k THEN a[i] ELSE b[i - k]
    BY ConcatProperties
  <1>2. k \in 0 .. Len(a \o b) /\ Len(a \o b) - k = Len(b)
    BY <1>1
  <1>. DEFINE s == a \o b
  <1>3. s \in Seq(S) /\ k \in 0 .. Len(s) /\ Len(s) = k + Len(b)
    BY <1>1, <1>2
  <1>. HIDE DEF s
  <1>4. /\ SubSeq(s, 1, k) \in Seq(S) /\ SubSeq(s, k + 1, Len(s)) \in Seq(S)
        /\ Len(SubSeq(s, 1, k)) = k /\ Len(SubSeq(s, k + 1, Len(s))) = Len(s) - k
        /\ \A i \in 1 .. k : SubSeq(s, 1, k)[i] = s[i]
        /\ \A i \in 1 .. Len(s) - k : SubSeq(s, k + 1, Len(s))[i] = s[k + i]
    BY <1>3, TwoParts
  <1>5. SubSeq(s, 1, k) = a
    <2>1. \A i \in 1 .. k : i \in 1 .. k + Len(b) /\ i <= k
      BY <1>1
    <2>2. \A i \in 1 .. k : SubSeq(s, 1, k)[i] = a[i]
      BY <1>1, <1>4, <2>1 DEF s
    <2>. QED
      BY <1>4, <2>2, SeqEqual
  <1>6. SubSeq(s, k + 1, Len(s)) = b
    <2>1. \A i \in 1 .. Len(b) : k + i \in 1 .. k + Len(b) /\ ~(k + i <= k) /\ k + i - k = i
      BY <1>1
    <2>2. \A i \in 1 .. Len(b) : s[k + i] = b[i]
      BY <1>1, <2>1 DEF s
    <2>3. Len(s) - k = Len(b)
      BY <1>1, <1>3
    <2>4. \A i \in 1 .. Len(b) : SubSeq(s, k + 1, Len(s))[i] = b[i]
      BY <1>4, <2>2, <2>3
    <2>. QED
      BY <1>4, <2>3, <2>4, SeqEqual
  <1>. QED
    BY <1>5, <1>6 DEF s

\* An element with what comes before it and what comes after it.
LEMMA Around ==
  ASSUME NEW S, NEW s \in Seq(S), NEW i \in 1 .. Len(s)
  PROVE  /\ SubSeq(s, 1, i - 1) \in Seq(S) /\ s[i] \in S /\ <<s[i]>> \in Seq(S)
         /\ SubSeq(s, i + 1, Len(s)) \in Seq(S)
         /\ s = SubSeq(s, 1, i - 1) \o (<<s[i]>> \o SubSeq(s, i + 1, Len(s)))
  <1>1. i - 1 \in 0 .. Len(s) /\ i \in 0 .. Len(s) /\ s[i] \in S /\ <<s[i]>> \in Seq(S) /\ i - 1 + 1 = i
    OBVIOUS
  <1>2. SubSeq(s, 1, i - 1) \in Seq(S) /\ SubSeq(s, 1, i - 1) \o SubSeq(s, i - 1 + 1, Len(s)) = s
    BY <1>1, TwoParts
  <1>3. SubSeq(s, i + 1, Len(s)) \in Seq(S)
    BY <1>1, TwoParts
  <1>4. SubSeq(s, i, Len(s)) = <<s[i]>> \o SubSeq(s, i + 1, Len(s))
    <2>1. i \in 1 .. Len(s) /\ Len(s) \in i .. Len(s)
      OBVIOUS
    <2>. QED
      BY <2>1, SubSeqRecursiveFirst
  <1>. QED
    BY <1>1, <1>2, <1>3, <1>4

(***************************************************************************)
(* A part of a sequence.                                                   *)
(***************************************************************************)
LEMMA PartIs ==
  ASSUME NEW S, NEW s \in Seq(S), NEW b \in Nat, NEW m \in Nat, b + m <= Len(s)
  PROVE  /\ SubSeq(s, b + 1, b + m) \in Seq(S) /\ Len(SubSeq(s, b + 1, b + m)) = m
         /\ \A i \in 1 .. m : SubSeq(s, b + 1, b + m)[i] = s[b + i]
         /\ \A i \in 1 .. m : b + i \in 1 .. Len(s) /\ s[b + i] \in S
         /\ SubSeq(s, 1, b) \o SubSeq(s, b + 1, b + m) = SubSeq(s, 1, b + m)
  <1>1. Len(s) \in Nat /\ \A i \in 1 .. m : b + i \in 1 .. Len(s) /\ s[b + i] \in S
    OBVIOUS
  <1>2. \A i \in b + 1 .. b + m : i \in 1 .. Len(s) /\ s[i] \in S
    BY <1>1
  <1>3. /\ SubSeq(s, b + 1, b + m) \in Seq(S)
        /\ Len(SubSeq(s, b + 1, b + m)) = IF b + 1 <= b + m THEN b + m - (b + 1) + 1 ELSE 0
        /\ \A i \in 1 .. b + m - (b + 1) + 1 : SubSeq(s, b + 1, b + m)[i] = s[b + 1 + i - 1]
    <2>1. b + 1 \in Int /\ b + m \in Int /\ \A i \in b + 1 .. b + m : s[i] \in S
      BY <1>2
    <2>. HIDE <1>2
    <2>. QED
      BY <2>1, SubSeqProperties
  <1>4. \A i \in 1 .. m : i \in 1 .. b + m - (b + 1) + 1 /\ b + 1 + i - 1 = b + i
    OBVIOUS
  <1>5. \A i \in 1 .. m : SubSeq(s, b + 1, b + m)[i] = s[b + i]
    BY <1>3, <1>4
  <1>6. Len(SubSeq(s, b + 1, b + m)) = m
    BY <1>3
  <1>7. 1 \in 1 .. Len(s) + 1 /\ b \in 1 - 1 .. Len(s) /\ b + m \in b .. Len(s)
    BY <1>1
  <1>8. SubSeq(s, 1, b) \o SubSeq(s, b + 1, b + m) = SubSeq(s, 1, b + m)
    BY <1>7, ConcatAdjacentSubSeq
  <1>. QED
    BY <1>1, <1>3, <1>5, <1>6, <1>8

(***************************************************************************)
(* What a concatenation begins with.                                       *)
(***************************************************************************)
LEMMA FrontOfConcat ==
  ASSUME NEW S, NEW s \in Seq(S), NEW t \in Seq(S)
  PROVE  s \o t \in Seq(S) /\ IsFront(s, s \o t)
  <1>1. /\ s \o t \in Seq(S) /\ Len(s \o t) = Len(s) + Len(t)
        /\ \A i \in 1 .. Len(s) + Len(t) : (s \o t)[i] = IF i <= Len(s) THEN s[i] ELSE t[i - Len(s)]
    BY ConcatProperties
  <1>2. Len(s) \in Nat /\ Len(t) \in Nat
    OBVIOUS
  <1>3. \A i \in 1 .. Len(s) : i \in 1 .. Len(s) + Len(t) /\ i <= Len(s)
    BY <1>2
  <1>4. \A i \in 1 .. Len(s) : (s \o t)[i] = s[i]
    BY <1>1, <1>3
  <1>5. Len(s) <= Len(s \o t)
    BY <1>1, <1>2
  <1>. QED
    BY <1>1, <1>4, <1>5 DEF IsFront

\* Beginnings of beginnings.
LEMMA FrontOfFront ==
  ASSUME NEW S, NEW r \in Seq(S), NEW s \in Seq(S), NEW t \in Seq(S), IsFront(r, s), IsFront(s, t)
  PROVE  IsFront(r, t)
  <1>1. Len(r) \in Nat /\ Len(s) \in Nat /\ Len(t) \in Nat
    OBVIOUS
  <1>2. \A i \in 1 .. Len(r) : i \in 1 .. Len(s)
    BY <1>1 DEF IsFront
  <1>. QED
    BY <1>1, <1>2 DEF IsFront

(***************************************************************************)
(* The join of the end of a list: its first sequence and the join of what  *)
(* follows, and that alone where the sequences before it are empty.        *)
(***************************************************************************)
LEMMA FlattenFirst ==
  ASSUME NEW S, NEW s \in Seq(Seq(S)), NEW k \in 0 .. Len(s), k < Len(s)
  PROVE  /\ s[k + 1] \in Seq(S) /\ FlattenSeq(SubSeq(s, k + 2, Len(s))) \in Seq(S)
         /\ FlattenSeq(SubSeq(s, k + 1, Len(s))) = s[k + 1] \o FlattenSeq(SubSeq(s, k + 2, Len(s)))
  <1> DEFINE r == SubSeq(s, k + 2, Len(s))
             x == s[k + 1]
  <1>1. k + 1 \in 1 .. Len(s) /\ Len(s) \in k + 1 .. Len(s) /\ k + 1 \in 0 .. Len(s) /\ (k + 1) + 1 = k + 2
    OBVIOUS
  <1>2. x \in Seq(S) /\ <<x>> \in Seq(Seq(S))
    BY <1>1
  <1>3. r \in Seq(Seq(S))
    BY <1>1, TwoParts
  <1>4. SubSeq(s, k + 1, Len(s)) = <<x>> \o r
    BY <1>1, SubSeqRecursiveFirst
  <1>. HIDE DEF r, x
  <1>5. FlattenSeq(<<x>> \o r) = FlattenSeq(<<x>>) \o FlattenSeq(r)
    BY <1>2, <1>3, FlattenConcat
  <1>6. FlattenSeq(<<x>>) = x
    BY <1>2, FlattenOne
  <1>7. FlattenSeq(r) \in Seq(S)
    BY <1>3, FlattenIsSeq
  <1>8. x \in Seq(S) /\ FlattenSeq(r) \in Seq(S) /\ FlattenSeq(SubSeq(s, k + 1, Len(s))) = x \o FlattenSeq(r)
    BY <1>2, <1>4, <1>5, <1>6, <1>7, Zenon
  <1>. QED
    BY <1>8, Zenon DEF x, r

LEMMA FlattenSkips ==
  ASSUME NEW S, NEW s \in Seq(Seq(S)), NEW k \in 0 .. Len(s), NEW l \in k .. Len(s),
         \A i \in k + 1 .. l : s[i] = <<>>
  PROVE  FlattenSeq(SubSeq(s, k + 1, Len(s))) = FlattenSeq(SubSeq(s, l + 1, Len(s)))
  <1> DEFINE r == SubSeq(s, k + 1, Len(s))
             d == l - k
             a == SubSeq(r, 1, d)
             b == SubSeq(r, d + 1, Len(r))
  <1>1. r \in Seq(Seq(S)) /\ Len(r) = Len(s) - k /\ \A i \in 1 .. Len(s) - k : r[i] = s[k + i]
    BY TwoParts
  <1>2. d \in 0 .. Len(r) /\ d \in Nat /\ k + d = l /\ l \in 0 .. Len(s)
    BY <1>1
  <1>3. /\ a \in Seq(Seq(S)) /\ b \in Seq(Seq(S)) /\ Len(a) = d /\ Len(b) = Len(r) - d
        /\ \A i \in 1 .. d : a[i] = r[i]
        /\ \A i \in 1 .. Len(r) - d : b[i] = r[d + i]
    BY <1>1, <1>2, TwoParts
  <1>4. FlattenSeq(r) = FlattenSeq(a) \o FlattenSeq(b)
    BY <1>1, <1>2, FlattenSplit
  <1>5. \A i \in 1 .. Len(a) : a[i] = <<>>
    <2>1. TAKE i \in 1 .. Len(a)
    <2>2. i \in 1 .. d /\ i \in 1 .. Len(s) - k /\ k + i \in k + 1 .. l
      BY <1>1, <1>2, <1>3
    <2>. QED
      BY <1>1, <1>3, <2>2
  <1>6. FlattenSeq(a) = <<>>
    BY <1>3, <1>5, FlattenEmpties
  <1>7. b = SubSeq(s, l + 1, Len(s))
    <2> DEFINE e == SubSeq(s, l + 1, Len(s))
    <2>1. e \in Seq(Seq(S)) /\ Len(e) = Len(s) - l /\ \A i \in 1 .. Len(s) - l : e[i] = s[l + i]
      BY <1>2, TwoParts
    <2>2. Len(b) = Len(s) - l /\ Len(r) - d = Len(s) - l
      BY <1>1, <1>2, <1>3
    <2>3. \A i \in 1 .. Len(b) : b[i] = e[i]
      <3>1. TAKE i \in 1 .. Len(b)
      <3>2. i \in 1 .. Len(r) - d /\ i \in 1 .. Len(s) - l /\ d + i \in 1 .. Len(s) - k /\ k + (d + i) = l + i
        BY <1>1, <1>2, <2>2, <3>1
      <3>. QED
        BY <1>1, <1>3, <2>1, <3>2
    <2>. HIDE DEF e, b
    <2>4. b = e
      BY <1>3, <2>1, <2>2, <2>3, SeqEqual
    <2>. QED
      BY <2>4 DEF e
  <1>8. FlattenSeq(b) \in Seq(S)
    BY <1>3, FlattenIsSeq
  <1>. HIDE DEF r, a, b
  <1>9. FlattenSeq(r) = FlattenSeq(b)
    BY <1>4, <1>6, <1>8, ConcatEmptySeq
  <1>. QED
    BY <1>7, <1>9, Zenon DEF r

\* The join of sequences of which all but one are empty.
LEMMA FlattenLone ==
  ASSUME NEW S, NEW s \in Seq(Seq(S)), NEW k \in 1 .. Len(s), \A i \in 1 .. Len(s) : i # k => s[i] = <<>>
  PROVE  FlattenSeq(s) = s[k]
  <1> DEFINE n == Len(s)
             j == k - 1
  <1>1. /\ n \in Nat /\ j \in 0 .. n /\ 0 \in 0 .. n /\ j \in 0 .. n /\ j < n /\ j + 1 = k /\ j + 2 = k + 1
        /\ k \in 0 .. n /\ n \in k .. n /\ 0 + 1 = 1
    OBVIOUS
  <1>2. s = SubSeq(s, 1, n)
    <2>1. n \in 0 .. Len(s)
      OBVIOUS
    <2>2. SubSeq(s, 1, n) \in Seq(Seq(S)) /\ Len(SubSeq(s, 1, n)) = n /\ \A i \in 1 .. n : SubSeq(s, 1, n)[i] = s[i]
      BY <2>1, TwoParts
    <2>. QED
      BY <2>2, SeqEqual
  <1>3. FlattenSeq(SubSeq(s, 0 + 1, Len(s))) = FlattenSeq(SubSeq(s, j + 1, Len(s)))
    <2>1. 0 \in 0 .. Len(s) /\ j \in 0 .. Len(s) /\ \A i \in 0 + 1 .. j : s[i] = <<>>
      OBVIOUS
    <2>. HIDE DEF j, n
    <2>. QED
      BY <2>1, FlattenSkips
  <1>4. /\ s[j + 1] \in Seq(S)
        /\ FlattenSeq(SubSeq(s, j + 1, Len(s))) = s[j + 1] \o FlattenSeq(SubSeq(s, j + 2, Len(s)))
    <2>. HIDE DEF j
    <2>. QED
      BY <1>1, FlattenFirst
  <1>5. FlattenSeq(SubSeq(s, k + 1, Len(s))) = FlattenSeq(SubSeq(s, n + 1, Len(s)))
    <2>1. k \in 0 .. Len(s) /\ n \in k .. Len(s) /\ \A i \in k + 1 .. n : s[i] = <<>>
      OBVIOUS
    <2>. HIDE DEF n
    <2>. QED
      BY <2>1, FlattenSkips
  <1>6. FlattenSeq(SubSeq(s, n + 1, Len(s))) = <<>>
    <2>1. SubSeq(s, n + 1, Len(s)) = <<>>
      BY <1>1
    <2>. QED
      BY <2>1, FlattenEmpty
  <1>. HIDE DEF j
  <1>. QED
    BY <1>1, <1>2, <1>3, <1>4, <1>5, <1>6, ConcatEmptySeq

(***************************************************************************)
(* One list of sequences turned into another by an edit from place f to    *)
(* place t, and what that does to their join.                              *)
(***************************************************************************)
IsSpliced(p, q, f, t, text) ==
  /\ \A i \in 1 .. f : q[i] = p[i]
  /\ \A i \in f + 2 .. t : q[i] = <<>>
  /\ \A i \in t + 1 .. Len(p) : i # f + 1 => q[i] = p[i]
  /\ q[f + 1] = text \o (IF f < t THEN <<>> ELSE p[f + 1])

IsJoined(p, q, f, t, text) ==
  FlattenSeq(q) = FlattenSeq(SubSeq(p, 1, f)) \o (text \o FlattenSeq(SubSeq(p, t + 1, Len(p))))

LEMMA Spliced ==
  ASSUME NEW S, NEW p \in Seq(Seq(S)), NEW q \in Seq(Seq(S)), Len(q) = Len(p),
         NEW f \in Nat, NEW t \in Nat, f <= t, t < Len(p), NEW text \in Seq(S), IsSpliced(p, q, f, t, text)
  PROVE  /\ FlattenSeq(SubSeq(p, 1, f)) \in Seq(S) /\ FlattenSeq(SubSeq(p, t + 1, Len(p))) \in Seq(S)
         /\ IsJoined(p, q, f, t, text)
  <1> DEFINE n == Len(p)
             front == FlattenSeq(SubSeq(p, 1, f))
             back == FlattenSeq(SubSeq(p, t + 1, n))
             rest == FlattenSeq(SubSeq(q, f + 1, n))
             late == FlattenSeq(SubSeq(q, f + 2, n))
  <1>1. n \in Nat /\ f \in 0 .. n /\ t \in 0 .. n /\ f < n /\ f + 1 \in 0 .. n /\ Len(q) = n /\ (f + 1) + 1 = f + 2
    OBVIOUS
  <1>2. SubSeq(q, 1, f) = SubSeq(p, 1, f)
    <2>1. SubSeq(q, 1, f) \in Seq(Seq(S)) /\ Len(SubSeq(q, 1, f)) = f /\ \A i \in 1 .. f : SubSeq(q, 1, f)[i] = q[i]
      BY <1>1, TwoParts
    <2>2. SubSeq(p, 1, f) \in Seq(Seq(S)) /\ Len(SubSeq(p, 1, f)) = f /\ \A i \in 1 .. f : SubSeq(p, 1, f)[i] = p[i]
      BY <1>1, TwoParts
    <2>3. \A i \in 1 .. f : q[i] = p[i]
      BY DEF IsSpliced
    <2>4. \A i \in 1 .. Len(SubSeq(q, 1, f)) : SubSeq(q, 1, f)[i] = SubSeq(p, 1, f)[i]
      BY <2>1, <2>2, <2>3
    <2>. QED
      BY <2>1, <2>2, <2>4, SeqEqual
  <1>3. FlattenSeq(q) = front \o rest
    BY <1>1, <1>2, FlattenSplit
  <1>4. front \in Seq(S) /\ back \in Seq(S)
    <2>1. SubSeq(p, 1, f) \in Seq(Seq(S)) /\ SubSeq(p, t + 1, n) \in Seq(Seq(S))
      BY <1>1, TwoParts
    <2>. QED
      BY <2>1, FlattenIsSeq
  <1>5. q[f + 1] \in Seq(S) /\ late \in Seq(S) /\ rest = q[f + 1] \o late
    BY <1>1, FlattenFirst
  <1>6. rest = text \o back
    <2>1. CASE f < t
      <3>1. q[f + 1] = text
        <4>1. q[f + 1] = text \o <<>>
          BY <2>1 DEF IsSpliced
        <4>. QED
          BY <4>1, ConcatEmptySeq
      <3>2. f + 1 \in 0 .. Len(q) /\ t \in f + 1 .. Len(q) /\ \A i \in (f + 1) + 1 .. t : q[i] = <<>>
        BY <1>1, <2>1 DEF IsSpliced
      <3>3. late = FlattenSeq(SubSeq(q, t + 1, n))
        BY <1>1, <3>2, FlattenSkips
      <3>4. SubSeq(q, t + 1, n) = SubSeq(p, t + 1, n)
        <4>1. /\ SubSeq(q, t + 1, n) \in Seq(Seq(S)) /\ Len(SubSeq(q, t + 1, n)) = n - t
              /\ \A i \in 1 .. n - t : SubSeq(q, t + 1, n)[i] = q[t + i]
          BY <1>1, TwoParts
        <4>2. /\ SubSeq(p, t + 1, n) \in Seq(Seq(S)) /\ Len(SubSeq(p, t + 1, n)) = n - t
              /\ \A i \in 1 .. n - t : SubSeq(p, t + 1, n)[i] = p[t + i]
          BY <1>1, TwoParts
        <4>3. \A i \in 1 .. n - t : q[t + i] = p[t + i]
          BY <1>1, <2>1 DEF IsSpliced
        <4>. HIDE DEF n
        <4>4. \A i \in 1 .. Len(SubSeq(q, t + 1, n)) : SubSeq(q, t + 1, n)[i] = SubSeq(p, t + 1, n)[i]
          BY <4>1, <4>2, <4>3
        <4>. QED
          BY <4>1, <4>2, <4>4, SeqEqual
      <3>. QED
        BY <1>5, <3>1, <3>3, <3>4
    <2>2. CASE f = t
      <3>1. q[f + 1] = text \o p[f + 1]
        BY <2>2 DEF IsSpliced
      <3>2. p[f + 1] \in Seq(S) /\ back = p[f + 1] \o FlattenSeq(SubSeq(p, f + 2, n))
            /\ FlattenSeq(SubSeq(p, f + 2, n)) \in Seq(S)
        BY <1>1, <2>2, FlattenFirst
      <3>3. SubSeq(q, f + 2, n) = SubSeq(p, f + 2, n)
        <4>1. /\ SubSeq(q, f + 2, n) \in Seq(Seq(S)) /\ Len(SubSeq(q, f + 2, n)) = n - (f + 1)
              /\ \A i \in 1 .. n - (f + 1) : SubSeq(q, f + 2, n)[i] = q[(f + 1) + i]
          BY <1>1, TwoParts
        <4>2. /\ SubSeq(p, f + 2, n) \in Seq(Seq(S)) /\ Len(SubSeq(p, f + 2, n)) = n - (f + 1)
              /\ \A i \in 1 .. n - (f + 1) : SubSeq(p, f + 2, n)[i] = p[(f + 1) + i]
          BY <1>1, TwoParts
        <4>3. \A i \in 1 .. n - (f + 1) : q[(f + 1) + i] = p[(f + 1) + i]
          BY <1>1, <2>2 DEF IsSpliced
        <4>. HIDE DEF n
        <4>4. \A i \in 1 .. Len(SubSeq(q, f + 2, n)) : SubSeq(q, f + 2, n)[i] = SubSeq(p, f + 2, n)[i]
          BY <4>1, <4>2, <4>3
        <4>. QED
          BY <4>1, <4>2, <4>4, SeqEqual
      <3> DEFINE z == FlattenSeq(SubSeq(p, f + 2, n))
                 x == p[f + 1]
      <3>4. rest = (text \o x) \o z /\ back = x \o z /\ x \in Seq(S) /\ z \in Seq(S)
        BY <1>5, <3>1, <3>2, <3>3
      <3>. HIDE DEF x, z, rest, back, late, front, n
      <3>5. Regroups(S, text, x, z)
        BY <3>4, RegroupsAll, Zenon
      <3>. QED
        BY <3>4, <3>5, Zenon DEF Regroups
    <2>. QED
      BY <2>1, <2>2
  <1>7. FlattenSeq(q) = front \o (text \o back)
    <2>. HIDE DEF front, back, rest
    <2>. QED
      BY <1>3, <1>6, Zenon
  <1>. QED
    BY <1>4, <1>7 DEF IsJoined

=============================================================================
