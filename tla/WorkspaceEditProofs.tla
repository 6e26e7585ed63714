------------------------- MODULE WorkspaceEditProofs -------------------------
(***************************************************************************)
(* Proofs about workspace edits, for any files, edits and calls beside     *)
(* each other. Three parts: a call that reports success has gone through   *)
(* every change of its edit, whoever edits what beside it; applying the    *)
(* edits of one file one after the other replaces all their ranges at      *)
(* once; and so every file holds what the changes made add up to, unless a *)
(* write to it failed or took away another one or its edits clashed.       *)
(***************************************************************************)
EXTENDS WorkspaceEdit, ListLemmas

-----------------------------------------------------------------------------
(* Part 1: the changes of a call. *)

(***************************************************************************)
(* How far a call is with its edit e, when it has made, or is about to     *)
(* make, the changes in m: the document changes up to those in todo, less  *)
(* the skipped ones, and after all of these each other change that is not  *)
(* in rest, once.                                                          *)
(***************************************************************************)
Taken(e, todo) == Len(e.documentChanges) - Len(todo)
Done(e, k) == Picked(SubSeq(e.documentChanges, 1, k), NotSkipped(e.documentChanges))

IsListing(o, T) == Range(o) = T /\ \A i, j \in DOMAIN o : o[i] = o[j] => i = j

Tally(m, e, todo, rest) ==
  /\ Taken(e, todo) \in 0 .. Len(e.documentChanges)
  /\ todo = SubSeq(e.documentChanges, Taken(e, todo) + 1, Len(e.documentChanges))
  /\ rest \subseteq e.changes
  /\ \E o \in Seq(e.changes) :
       /\ IsListing(o, e.changes \ rest)
       /\ o # <<>> => todo = <<>>
       /\ m = Done(e, Taken(e, todo)) \o o

IsEdit(e, S) == e.documentChanges \in Seq(S) /\ e.changes \subseteq S /\ IsFiniteSet(e.changes)

(***************************************************************************)
(* A call begins with everything to do.                                    *)
(***************************************************************************)
LEMMA NothingDone ==
  ASSUME NEW S, NEW e, IsEdit(e, S)
  PROVE  Done(e, 0) = <<>>
  <1>1. SubSeq(e.documentChanges, 1, 0) = <<>>
    BY DEF IsEdit
  <1>2. Picked(<<>>, NotSkipped(e.documentChanges)) = <<>>
    <2>1. <<>> \in Seq(S) /\ DOMAIN <<>> = {}
      OBVIOUS
    <2>2. \A chosen : Picked(<<>>, chosen) \in Seq(S)
                      /\ Len(Picked(<<>>, chosen)) = Cardinality(chosen \intersect DOMAIN <<>>)
      BY <2>1, PickedHolds
    <2>3. \A chosen : chosen \intersect DOMAIN <<>> = {}
      BY <2>1
    <2>4. \A chosen : Len(Picked(<<>>, chosen)) = 0
      BY <2>2, <2>3, FS_EmptySet
    <2>. QED
      BY <2>2, <2>4
  <1>. QED
    BY <1>1, <1>2 DEF Done

LEMMA TallyBegins ==
  ASSUME NEW S, NEW e, IsEdit(e, S)
  PROVE  Tally(<<>>, e, e.documentChanges, e.changes)
  <1>1. Taken(e, e.documentChanges) = 0
    BY DEF Taken, IsEdit
  <1>2. e.documentChanges = SubSeq(e.documentChanges, 1, Len(e.documentChanges))
    BY DEF IsEdit
  <1>3. IsListing(<<>>, {}) /\ <<>> \in Seq(e.changes)
    BY DEF IsListing, Range
  <1>4. <<>> = Done(e, 0) \o <<>>
    BY NothingDone
  <1>5. e.changes \ e.changes = {} /\ Len(e.documentChanges) \in Nat
    BY DEF IsEdit
  <1>6. \E o \in Seq(e.changes) :
          /\ IsListing(o, e.changes \ e.changes)
          /\ o # <<>> => e.documentChanges = <<>>
          /\ <<>> = Done(e, 0) \o o
    BY <1>3, <1>4, <1>5
  <1>7. 0 \in 0 .. Len(e.documentChanges)
        /\ e.documentChanges = SubSeq(e.documentChanges, 0 + 1, Len(e.documentChanges))
    BY <1>2, <1>5
  <1>. QED
    BY <1>1, <1>6, <1>7 DEF Tally

(***************************************************************************)
(* What is left to do of the document changes is their end.                *)
(***************************************************************************)
LEMMA WhatIsLeft ==
  ASSUME NEW S, NEW e, IsEdit(e, S), NEW m, NEW todo, NEW rest, Tally(m, e, todo, rest)
  PROVE  /\ todo \in Seq(S) /\ Len(todo) \in Nat /\ Len(e.documentChanges) \in Nat
         /\ Taken(e, todo) \in 0 .. Len(e.documentChanges)
         /\ Taken(e, todo) = Len(e.documentChanges) - Len(todo)
  <1> DEFINE k == Taken(e, todo)
  <1>1. /\ e.documentChanges \in Seq(S) /\ k \in 0 .. Len(e.documentChanges)
        /\ todo = SubSeq(e.documentChanges, k + 1, Len(e.documentChanges))
    BY DEF Tally, IsEdit
  <1>. HIDE DEF k
  <1>2. todo \in Seq(S) /\ Len(todo) \in Nat /\ Len(e.documentChanges) \in Nat
    BY <1>1
  <1>. QED
    BY <1>1, <1>2 DEF k, Taken

(***************************************************************************)
(* The next document change is skipped or taken.                           *)
(***************************************************************************)
LEMMA DoneNext ==
  ASSUME NEW S, NEW e, IsEdit(e, S), NEW k \in 1 .. Len(e.documentChanges)
  PROVE  /\ Done(e, k - 1) \in Seq(S)
         /\ Done(e, k) = IF Skipped(e.documentChanges[k]) THEN Done(e, k - 1)
                         ELSE Append(Done(e, k - 1), e.documentChanges[k])
  <1> DEFINE dc == e.documentChanges
             short == SubSeq(dc, 1, k - 1)
             chosen == NotSkipped(dc)
  <1>1. /\ dc \in Seq(S) /\ dc[k] \in S /\ Len(dc) \in Nat
        /\ short \in Seq(S) /\ Len(short) = k - 1
        /\ SubSeq(dc, 1, k) = Append(short, dc[k])
    BY DEF IsEdit
  <1>2. k \in chosen <=> ~Skipped(dc[k])
    BY <1>1 DEF NotSkipped
  <1>3. Done(e, k) = Picked(Append(short, dc[k]), chosen) /\ Done(e, k - 1) = Picked(short, chosen)
    BY <1>1 DEF Done
  <1>. HIDE DEF short, chosen, dc
  <1>4. \A x \in S : Picked(Append(short, x), chosen) =
          IF Len(short) + 1 \in chosen THEN Append(Picked(short, chosen), x) ELSE Picked(short, chosen)
    BY <1>1, PickedAppend
  <1>5. Len(short) + 1 = k
    BY <1>1
  <1>6. Picked(short, chosen) \in Seq(S)
    BY <1>1, PickedHolds
  <1>. QED
    BY <1>1, <1>2, <1>3, <1>4, <1>5, <1>6 DEF dc

LEMMA TallyNext ==
  ASSUME NEW S, NEW e, IsEdit(e, S), NEW m, NEW todo, NEW rest, Tally(m, e, todo, rest), todo # <<>>
  PROVE  /\ Head(todo) \in S /\ Tail(todo) \in Seq(S) /\ m \in Seq(S)
         /\ Tally(IF Skipped(Head(todo)) THEN m ELSE Append(m, Head(todo)), e, Tail(todo), rest)
  <1> DEFINE dc == e.documentChanges
             n == Len(dc)
             k == Taken(e, todo)
             c == dc[k + 1]
             next == IF Skipped(c) THEN m ELSE Append(m, c)
  <1>1. dc \in Seq(S) /\ n \in Nat /\ k \in 0 .. n /\ todo = SubSeq(dc, k + 1, n) /\ k = n - Len(todo)
        /\ Len(todo) \in Nat /\ todo \in Seq(S)
    <2>1. dc \in Seq(S) /\ todo = SubSeq(dc, k + 1, n)
      BY DEF IsEdit, Tally
    <2>. QED
      BY <2>1, WhatIsLeft
  <1>2. k + 1 \in 1 .. n /\ k + 1 \in 0 .. n /\ (k + 1) + 1 = k + 2
    <2> DEFINE l == Len(todo)
    <2>1. l # 0
      BY <1>1
    <2>2. n \in Nat /\ k \in 0 .. n /\ k = n - l /\ l \in Nat
      BY <1>1
    <2>. HIDE DEF k, n, l
    <2>. QED
      BY <2>1, <2>2
  <1>3. Head(todo) = c /\ Tail(todo) = SubSeq(dc, k + 2, n) /\ c \in S
    <2>. HIDE DEF n, k, dc
    <2>1. n = Len(dc) /\ n \in (k + 1) .. Len(dc) /\ (k + 1) + 1 = k + 2
      BY <1>1, <1>2 DEF n
    <2>2. k + 1 \in 1 .. Len(dc)
      BY <1>2, <2>1
    <2>3. Head(SubSeq(dc, k + 1, n)) = dc[k + 1] /\ Tail(SubSeq(dc, k + 1, n)) = SubSeq(dc, (k + 1) + 1, n)
      BY <1>1, <2>1, <2>2, HeadTailOfSubSeq
    <2>4. dc[k + 1] \in S
      BY <1>1, <2>2
    <2>. QED
      BY <1>1, <2>1, <2>3, <2>4
  <1>4. Len(Tail(todo)) = Len(todo) - 1 /\ Tail(todo) \in Seq(S)
    BY <1>1
  <1>5. Taken(e, Tail(todo)) = k + 1
    BY <1>1, <1>4 DEF Taken
  <1>6. PICK o \in Seq(e.changes) : IsListing(o, e.changes \ rest) /\ o = <<>> /\ m = Done(e, k) \o o
    BY DEF Tally
  <1>7. /\ Done(e, k) \in Seq(S)
        /\ Done(e, k + 1) = IF Skipped(c) THEN Done(e, k) ELSE Append(Done(e, k), c)
    <2>1. (k + 1) - 1 = k
      BY <1>1
    <2>. HIDE DEF k, n
    <2>. QED
      BY <1>2, <2>1, DoneNext DEF n
  <1>8. m = Done(e, k)
    BY <1>6, <1>7
  <1>9. next = Done(e, k + 1) \o o
    <2>1. next = Done(e, k + 1) /\ next \in Seq(S)
      BY <1>3, <1>7, <1>8
    <2>. HIDE DEF next
    <2>. QED
      BY <1>6, <2>1
  <1>10. rest \subseteq e.changes
    BY DEF Tally
  <1>. HIDE DEF k, next
  <1>11. Tally(next, e, Tail(todo), rest)
    <2>1. \E p \in Seq(e.changes) :
            /\ IsListing(p, e.changes \ rest)
            /\ p # <<>> => Tail(todo) = <<>>
            /\ next = Done(e, k + 1) \o p
      BY <1>6, <1>9
    <2>2. k + 1 \in 0 .. n /\ Tail(todo) = SubSeq(dc, (k + 1) + 1, n)
      BY <1>2, <1>3
    <2>. QED
      BY <1>5, <1>10, <2>1, <2>2 DEF Tally
  <1>. QED
    BY <1>3, <1>4, <1>7, <1>8, <1>11 DEF next

(***************************************************************************)
(* Then one of the other changes is taken.                                 *)
(***************************************************************************)
LEMMA TallyRest ==
  ASSUME NEW S, NEW e, IsEdit(e, S), NEW m, NEW rest, Tally(m, e, <<>>, rest), NEW c \in rest
  PROVE  /\ c \in S /\ m \in Seq(S)
         /\ Tally(Append(m, c), e, <<>>, rest \ {c})
  <1> DEFINE k == Taken(e, <<>>)
  <1>1. k \in 0 .. Len(e.documentChanges) /\ rest \subseteq e.changes /\ c \in e.changes /\ c \in S
    BY DEF Tally, IsEdit
  <1>2. PICK o \in Seq(e.changes) : IsListing(o, e.changes \ rest) /\ m = Done(e, k) \o o
    BY DEF Tally
  <1>3. Done(e, k) \in Seq(S)
    <2>. HIDE DEF k
    <2>1. e.documentChanges \in Seq(S)
      BY DEF IsEdit
    <2>. QED
      BY <1>1, <2>1, PickedFront DEF Done
  <1>4. o \in Seq(S) /\ <<c>> \in Seq(S)
    BY <1>1 DEF IsEdit
  <1>. HIDE DEF k
  <1>5. Append(m, c) = Done(e, k) \o Append(o, c) /\ m \in Seq(S)
    <2>1. m \in Seq(S)
      BY <1>2, <1>3, <1>4
    <2>2. Append(m, c) = m \o <<c>> /\ Append(o, c) = o \o <<c>>
      BY <1>1, <1>4, <2>1, AppendIsConcat
    <2>. QED
      BY <1>2, <1>3, <1>4, <2>1, <2>2, ConcatAssociative
  <1>6. Append(o, c) \in Seq(e.changes) /\ IsListing(Append(o, c), e.changes \ (rest \ {c}))
    <2>1. /\ Append(o, c) \in Seq(e.changes) /\ Len(o) \in Nat /\ DOMAIN o = 1 .. Len(o)
          /\ DOMAIN Append(o, c) = 1 .. Len(o) + 1 /\ Append(o, c)[Len(o) + 1] = c
          /\ \A i \in 1 .. Len(o) : Append(o, c)[i] = o[i]
      BY <1>1
    <2>2. c \notin Range(o)
      BY <1>2 DEF IsListing
    <2>3. ASSUME NEW i \in 1 .. Len(o) + 1, NEW j \in 1 .. Len(o) + 1, Append(o, c)[i] = Append(o, c)[j]
          PROVE  i = j
      <3>1. \A l \in 1 .. Len(o) : o[l] # c
        BY <2>1, <2>2 DEF Range
      <3>2. \A l, l2 \in 1 .. Len(o) : o[l] = o[l2] => l = l2
        BY <1>2, <2>1 DEF IsListing
      <3>3. \A l \in 1 .. Len(o) + 1 : l # Len(o) + 1 => l \in 1 .. Len(o)
        BY <2>1
      <3>. QED
        BY <2>1, <2>3, <3>1, <3>2, <3>3
    <2>4. Range(Append(o, c)) = Range(o) \union {c}
      <3>1. ASSUME NEW x \in Range(Append(o, c)) PROVE x \in Range(o) \union {c}
        BY <2>1 DEF Range
      <3>2. ASSUME NEW x \in Range(o) PROVE x \in Range(Append(o, c))
        BY <2>1 DEF Range
      <3>3. c \in Range(Append(o, c))
        BY <2>1 DEF Range
      <3>. QED
        BY <3>1, <3>2, <3>3
    <2>5. e.changes \ (rest \ {c}) = (e.changes \ rest) \union {c}
      BY <1>1
    <2>. QED
      BY <1>2, <2>1, <2>3, <2>4, <2>5 DEF IsListing
  <1>7. <<>> = SubSeq(e.documentChanges, k + 1, Len(e.documentChanges)) /\ rest \ {c} \subseteq e.changes
    BY <1>1 DEF Tally, k
  <1>8. Tally(Append(m, c), e, <<>>, rest \ {c})
    BY <1>1, <1>5, <1>6, <1>7 DEF Tally, k
  <1>. QED
    BY <1>1, <1>5, <1>8

(***************************************************************************)
(* What such a count says: what a call has made is the beginning of the    *)
(* wanted document changes, or all of these and others, each once; and it  *)
(* is everything exactly when nothing is left and none is under way.       *)
(***************************************************************************)
LEMMA FrontIsPrefix ==
  ASSUME NEW S, NEW s \in Seq(S), NEW t \in Seq(S), IsFront(s, t)
  PROVE  IsPrefix(s, t)
  <1>1. Len(s) \in Nat /\ Len(t) \in Nat /\ Len(s) <= Len(t)
    BY DEF IsFront
  <1>2. SubSeq(s, 1, Len(s)) = s
    BY SubSeqFull
  <1>3. SubSeq(t, 1, Len(s)) \in Seq(S) /\ Len(SubSeq(t, 1, Len(s))) = Len(s)
        /\ \A i \in 1 .. Len(s) : SubSeq(t, 1, Len(s))[i] = t[i]
    BY <1>1
  <1>4. \A i \in 1 .. Len(s) : SubSeq(t, 1, Len(s))[i] = s[i]
    BY <1>3 DEF IsFront
  <1>5. SubSeq(t, 1, Len(s)) = s
    BY <1>3, <1>4, SeqEqual
  <1>. QED
    BY <1>1, <1>2, <1>5 DEF IsPrefix

(***************************************************************************)
(* The balance as two parts: a front of all the document changes that are  *)
(* not passed over, and a list of others that has nothing twice.           *)
(***************************************************************************)
All(e) == Picked(e.documentChanges, NotSkipped(e.documentChanges))

Parts(m, e, todo, rest, S) ==
  \E d \in Seq(S) : \E o \in Seq(e.changes) :
    /\ m = d \o o /\ IsFront(d, All(e)) /\ All(e) \in Seq(S)
    /\ IsListing(o, e.changes \ rest)
    /\ todo = <<>> \/ o # <<>> => d = All(e)

LEMMA TallyIs ==
  ASSUME NEW S, NEW e, IsEdit(e, S), NEW m, NEW todo, NEW rest, Tally(m, e, todo, rest)
  PROVE  Parts(m, e, todo, rest, S)
  <1> DEFINE k == Taken(e, todo)
             n == Len(e.documentChanges)
  <1>1. e.documentChanges \in Seq(S) /\ k \in 0 .. n /\ todo \in Seq(S) /\ k = n - Len(todo) /\ n \in Nat
    BY WhatIsLeft DEF IsEdit
  <1>2. PICK o \in Seq(e.changes) :
          /\ IsListing(o, e.changes \ rest)
          /\ o # <<>> => todo = <<>>
          /\ m = Done(e, k) \o o
    BY DEF Tally
  <1>3. Done(e, k) \in Seq(S) /\ IsFront(Done(e, k), All(e))
    <2>. HIDE DEF k
    <2>. QED
      BY <1>1, PickedFront DEF Done, All
  <1>4. All(e) \in Seq(S)
    BY <1>1, PickedHolds DEF All
  <1>5. todo = <<>> => Done(e, k) = All(e)
    <2>1. SubSeq(e.documentChanges, 1, n) = e.documentChanges
      BY <1>1
    <2>2. todo = <<>> => k = n
      BY <1>1
    <2>. HIDE DEF k, n
    <2>. QED
      BY <2>1, <2>2 DEF Done, All
  <1>. QED
    BY <1>2, <1>3, <1>4, <1>5 DEF Parts

LEMMA ListingCounts ==
  ASSUME NEW T, IsFiniteSet(T), NEW rest, rest \subseteq T, NEW o \in Seq(T), IsListing(o, T \ rest)
  PROVE  /\ Len(o) \in Nat /\ Cardinality(T) \in Nat /\ Len(o) <= Cardinality(T)
         /\ rest = {} => Len(o) = Cardinality(T)
         /\ \A l \in 0 .. Len(o) : Cardinality({o[j] : j \in 1 .. l}) = l
  <1>1. Len(o) \in Nat /\ DOMAIN o = 1 .. Len(o) /\ \A j \in 1 .. Len(o) : o[j] \in T
    OBVIOUS
  <1>2. ASSUME NEW l \in 0 .. Len(o) PROVE Cardinality({o[j] : j \in 1 .. l}) = l
    <2> DEFINE f == [j \in 1 .. l |-> o[j]]
               X == {o[j] : j \in 1 .. l}
    <2>1. l \in Nat /\ f \in [1 .. l -> X]
      BY <1>1
    <2>2. \A i, j \in 1 .. l : f[i] = f[j] => i = j
      BY <1>1 DEF IsListing
    <2>3. \A x \in X : \E j \in 1 .. l : f[j] = x
      OBVIOUS
    <2>. HIDE DEF f, X
    <2>4. Cardinality(X) = l
      BY <2>1, <2>2, <2>3, CountOf
    <2>. QED
      BY <2>4 DEF X
  <1>3. {o[j] : j \in 1 .. Len(o)} = T \ rest
    BY <1>1 DEF IsListing, Range
  <1>4. Cardinality(T \ rest) = Len(o)
    BY <1>1, <1>2, <1>3
  <1>5. Cardinality(T) \in Nat /\ Cardinality(T \ rest) <= Cardinality(T)
    BY FS_Subset, FS_CardinalityType, FS_Difference
  <1>6. rest = {} => T \ rest = T
    OBVIOUS
  <1>. QED
    BY <1>1, <1>2, <1>4, <1>5, <1>6

\* What the numbers n of changes made and w of document changes say of them.
Told(made, e, todo, rest, underWay, n, w, others) ==
  /\ n <= w => IsPrefix(made, All(e))
  /\ ~(n <= w) => /\ IsPrefix(All(e), made)
                  /\ others \subseteq e.changes /\ Cardinality(others) = n - w
  /\ ~underWay /\ todo = <<>> /\ rest = {} => n = w + Cardinality(e.changes)
  /\ underWay => n < w + Cardinality(e.changes)

\* The changes made after the document changes.
Beyond(made, w, n) == {made[i] : i \in w + 1 .. n}

\* m is what was made and, at its end, the change in hand.
Ahead(m, made, underWay, S) ==
  /\ made \in Seq(S) /\ underWay \in BOOLEAN
  /\ underWay => \E c \in S : m = Append(made, c)
  /\ ~underWay => m = made

LEMMA TallyTells ==
  ASSUME NEW S, NEW e, IsEdit(e, S), NEW m, NEW todo, NEW rest, Tally(m, e, todo, rest),
         NEW made, NEW underWay, Ahead(m, made, underWay, S)
  PROVE  Told(made, e, todo, rest, underWay, Len(made), Len(All(e)), Beyond(made, Len(All(e)), Len(made)))
  <1> DEFINE n == Len(made)
             w == Len(All(e))
             others == Beyond(made, w, n)
  <1>a. /\ made \in Seq(S) /\ underWay \in BOOLEAN
        /\ underWay => \E c \in S : m = Append(made, c)
        /\ ~underWay => m = made
    BY DEF Ahead
  <1>0. Parts(m, e, todo, rest, S)
    BY TallyIs
  <1>1. PICK d \in Seq(S) : \E o \in Seq(e.changes) :
           /\ m = d \o o /\ IsFront(d, All(e)) /\ All(e) \in Seq(S)
           /\ IsListing(o, e.changes \ rest)
           /\ todo = <<>> \/ o # <<>> => d = All(e)
    BY <1>0 DEF Parts
  <1>2. PICK o \in Seq(e.changes) :
           /\ m = d \o o /\ IsFront(d, All(e)) /\ All(e) \in Seq(S)
           /\ IsListing(o, e.changes \ rest)
           /\ todo = <<>> \/ o # <<>> => d = All(e)
    BY <1>1
  <1>3. e.changes \subseteq S /\ IsFiniteSet(e.changes) /\ rest \subseteq e.changes
    BY DEF IsEdit, Tally
  <1>4. /\ Len(o) \in Nat /\ Cardinality(e.changes) \in Nat /\ Len(o) <= Cardinality(e.changes)
        /\ rest = {} => Len(o) = Cardinality(e.changes)
        /\ \A l \in 0 .. Len(o) : Cardinality({o[j] : j \in 1 .. l}) = l
    BY <1>2, <1>3, ListingCounts
  <1>5. n \in Nat /\ w \in Nat /\ Len(d) \in Nat /\ Len(d) <= w
    BY <1>a, <1>2 DEF IsFront
  <1>6. o \in Seq(S)
    BY <1>3
  <1>7. /\ m \in Seq(S) /\ Len(m) = Len(d) + Len(o)
        /\ \A i \in 1 .. Len(d) : m[i] = d[i]
        /\ \A j \in 1 .. Len(o) : m[Len(d) + j] = o[j]
    BY <1>2, <1>6, <1>5, <1>4, ConcatProperties
  <1>8. /\ Len(m) = IF underWay THEN n + 1 ELSE n
        /\ \A i \in 1 .. n : made[i] = m[i]
    <2>1. CASE underWay
      <3>1. PICK c \in S : m = Append(made, c)
        BY <1>a, <2>1
      <3>. QED
        BY <1>a, <2>1, <3>1, AppendProperties
    <2>2. CASE ~underWay
      BY <1>a, <2>2
    <2>. QED
      BY <1>a, <2>1, <2>2
  <1>9. ASSUME n <= w PROVE IsPrefix(made, All(e))
    <2>1. CASE o = <<>>
      <3>1. Len(m) = Len(d) /\ n <= Len(d)
        BY <1>5, <1>7, <1>8, <2>1
      <3>2. \A i \in 1 .. n : made[i] = d[i] /\ d[i] = All(e)[i]
        BY <1>2, <1>5, <1>7, <1>8, <3>1 DEF IsFront
      <3>3. IsFront(made, All(e))
        BY <1>9, <3>2 DEF IsFront
      <3>. QED
        BY <1>a, <1>2, <3>3, FrontIsPrefix
    <2>2. CASE o # <<>>
      <3>1. d = All(e)
        BY <1>2, <2>2
      <3>2. \A i \in 1 .. n : made[i] = All(e)[i]
        BY <1>5, <1>7, <1>8, <1>9, <3>1
      <3>3. IsFront(made, All(e))
        BY <1>9, <3>2 DEF IsFront
      <3>. QED
        BY <1>a, <1>2, <3>3, FrontIsPrefix
    <2>. QED
      BY <2>1, <2>2
  <1>10. ASSUME ~(n <= w)
        PROVE  /\ IsPrefix(All(e), made)
               /\ others \subseteq e.changes /\ Cardinality(others) = n - w
    <2>1. d = All(e) /\ Len(d) = w
      <3>1. Len(o) # 0
        BY <1>4, <1>5, <1>7, <1>8, <1>10
      <3>. QED
        BY <1>2, <3>1
    <2>2. IsFront(All(e), made)
      <3>1. ASSUME NEW i \in 1 .. w PROVE made[i] = d[i]
        <4>1. i \in 1 .. Len(d) /\ i \in 1 .. n
          BY <1>5, <1>10, <2>1
        <4>. QED
          BY <1>7, <1>8, <4>1
      <3>. QED
        BY <1>5, <1>10, <2>1, <3>1 DEF IsFront
    <2>3. n - w \in 0 .. Len(o)
      BY <1>4, <1>5, <1>7, <1>8, <1>10, <2>1
    <2>4. ASSUME NEW j \in 1 .. n - w PROVE made[w + j] = o[j] /\ o[j] \in e.changes
      <3>1. w + j \in 1 .. n /\ j \in 1 .. Len(o)
        BY <1>4, <1>5, <2>3
      <3>2. o[j] \in e.changes
        BY <3>1
      <3>3. m[w + j] = o[j]
        BY <1>7, <2>1, <3>1
      <3>. QED
        BY <1>8, <3>1, <3>2, <3>3
    <2>5. others = {o[j] : j \in 1 .. n - w}
      <3>1. ASSUME NEW i \in w + 1 .. n PROVE i - w \in 1 .. n - w /\ w + (i - w) = i
        BY <1>5
      <3>2. ASSUME NEW j \in 1 .. n - w PROVE w + j \in w + 1 .. n
        BY <1>5, <2>3
      <3>3. ASSUME NEW i \in w + 1 .. n PROVE made[i] \in {o[j] : j \in 1 .. n - w}
        <4>1. made[i] = o[i - w]
          BY <2>4, <3>1
        <4>. QED
          BY <3>1, <4>1
      <3>4. ASSUME NEW j \in 1 .. n - w PROVE o[j] \in {made[i] : i \in w + 1 .. n}
        BY <2>4, <3>2
      <3>5. others \subseteq {o[j] : j \in 1 .. n - w}
        BY <3>3 DEF Beyond
      <3>6. {o[j] : j \in 1 .. n - w} \subseteq others
        BY <3>4 DEF Beyond
      <3>. QED
        BY <3>5, <3>6
    <2>6. others \subseteq e.changes
      BY <2>4, <2>5
    <2>. QED
      BY <1>a, <1>2, <1>4, <2>2, <2>3, <2>5, <2>6, FrontIsPrefix
  <1>11. ASSUME ~underWay, todo = <<>>, rest = {} PROVE n = w + Cardinality(e.changes)
    BY <1>a, <1>2, <1>4, <1>7, <1>8, <1>11
  <1>12. ASSUME underWay PROVE n < w + Cardinality(e.changes)
    <2>1. n + 1 = Len(d) + Len(o)
      BY <1>7, <1>8, <1>12
    <2>. QED
      BY <1>4, <1>5, <2>1
  <1>. QED
    BY <1>9, <1>10, <1>11, <1>12 DEF Told

-----------------------------------------------------------------------------
(***************************************************************************)
(* The invariant of the calls.  The locals r of a call are on course when  *)
(* they account for the changes it has made so far, and for the one that   *)
(* it is about to make or that failed.                                     *)
(***************************************************************************)
LocalsOK(r) ==
  /\ r = [pc |-> r.pc, edit |-> r.edit, todo |-> r.todo, rest |-> r.rest,
          cur |-> r.cur, content |-> r.content, outcome |-> r.outcome]
  /\ r.pc \in {"idle", "next", "apply", "write"} /\ r.outcome \in {"none", "running", "ok", "error"}
  /\ r.pc = "idle" <=> r.outcome # "running"
  /\ IsEdit(r.edit, Change)
  /\ r.outcome = "none" => r.edit = NoEdit
  /\ r.outcome \in {"none", "ok"} => r.todo = <<>> /\ r.rest = {}

InHand(r) == r.pc \in {"apply", "write"} \/ r.outcome = "error"

OnCourse(r, made) ==
  /\ LocalsOK(r)
  /\ InHand(r) => r.cur \in Change
  /\ Tally(IF InHand(r) THEN Append(made, r.cur) ELSE made, r.edit, r.todo, r.rest)

Inv ==
  /\ thread = [t \in Threads |-> thread[t]]
  /\ log \in Seq([by : Threads, change : Change])
  /\ \A t \in Threads : OnCourse(thread[t], ChangesBy(t))

(***************************************************************************)
(* Who made which changes: one more is one more of its own call.           *)
(***************************************************************************)
By(t) == {i \in DOMAIN log : log[i].by = t}

LEMMA ChangesAreList ==
  ASSUME log \in Seq([by : Threads, change : Change]), NEW t
  PROVE  /\ Picked(log, By(t)) \in Seq([by : Threads, change : Change])
         /\ ChangesBy(t) = Changes(Picked(log, By(t))) /\ ChangesBy(t) \in Seq(Change)
  <1> DEFINE mine == Picked(log, By(t))
  <1>1. mine \in Seq([by : Threads, change : Change])
    BY PickedHolds
  <1>. HIDE DEF mine
  <1>2. Changes(mine) \in Seq(Change)
    <2>0. Len(mine) \in Nat /\ DOMAIN mine = 1 .. Len(mine)
          /\ \A i \in 1 .. Len(mine) : mine[i] \in [by : Threads, change : Change]
      <3> DEFINE Entry == [by : Threads, change : Change]
      <3>1. mine \in Seq(Entry)
        BY <1>1
      <3>. HIDE DEF Entry
      <3>2. Len(mine) \in Nat /\ DOMAIN mine = 1 .. Len(mine) /\ \A i \in 1 .. Len(mine) : mine[i] \in Entry
        BY <3>1
      <3>. QED
        BY <3>2 DEF Entry
    <2>1. \A i \in 1 .. Len(mine) : mine[i].change \in Change
      BY <2>0
    <2>2. Changes(mine) \in [1 .. Len(mine) -> Change]
      BY <2>0, <2>1 DEF Changes
    <2>. QED
      BY <2>0, <2>2, SeqDefs
  <1>. QED
    BY <1>1, <1>2 DEF ChangesBy, By, mine

LEMMA LogGrows ==
  ASSUME log \in Seq([by : Threads, change : Change]), NEW t \in Threads, NEW c \in Change,
         log' = Append(log, [by |-> t, change |-> c])
  PROVE  /\ log' \in Seq([by : Threads, change : Change])
         /\ ChangesBy(t)' = Append(ChangesBy(t), c)
         /\ \A u \in Threads \ {t} : ChangesBy(u)' = ChangesBy(u)
  <1> DEFINE Entry == [by : Threads, change : Change]
             entry == [by |-> t, change |-> c]
  <1>1. /\ entry \in Entry /\ log' \in Seq(Entry) /\ DOMAIN log = 1 .. Len(log) /\ Len(log) \in Nat
        /\ DOMAIN log' = 1 .. Len(log) + 1 /\ log'[Len(log) + 1] = entry
        /\ \A i \in 1 .. Len(log) : log'[i] = log[i]
    OBVIOUS
  <1>2. ASSUME NEW u
        PROVE  /\ \A i \in 1 .. Len(log) : i \in By(u) <=> i \in By(u)'
               /\ Len(log) + 1 \in By(u)' <=> u = t
    BY <1>1 DEF By
  <1>3. ASSUME NEW u
        PROVE  Picked(log', By(u)') = IF u = t THEN Append(Picked(log, By(u)), entry) ELSE Picked(log, By(u))
    <2>. HIDE DEF Entry, entry
    <2>1. Picked(Append(log, entry), By(u)') =
            IF Len(log) + 1 \in By(u)' THEN Append(Picked(log, By(u)), entry) ELSE Picked(log, By(u))
      <3>1. ASSUME NEW chosen, NEW more, \A i \in 1 .. Len(log) : i \in chosen <=> i \in more
            PROVE  Picked(Append(log, entry), more) =
                     IF Len(log) + 1 \in more THEN Append(Picked(log, chosen), entry) ELSE Picked(log, chosen)
        <4>1. log \in Seq(Entry) /\ entry \in Entry
          BY <1>1 DEF Entry
        <4>2. \A x \in Entry : Picked(Append(log, x), more) =
                IF Len(log) + 1 \in more THEN Append(Picked(log, chosen), x) ELSE Picked(log, chosen)
          BY <3>1, <4>1, PickedAppend
        <4>. QED
          BY <4>1, <4>2
      <3>. QED
        BY <1>2, <3>1
    <2>. QED
      BY <1>2, <2>1 DEF entry
  <1>4. ASSUME NEW u PROVE ChangesBy(u)' = Changes(Picked(log', By(u)'))
    BY DEF ChangesBy, By, Changes
  <1>5. ASSUME NEW u \in Threads \ {t} PROVE ChangesBy(u)' = ChangesBy(u)
    BY <1>3, <1>4 DEF ChangesBy, By
  <1>6. ChangesBy(t)' = Append(ChangesBy(t), c)
    <2> DEFINE mine == Picked(log, By(t))
    <2>1. mine \in Seq(Entry) /\ ChangesBy(t) = Changes(mine)
      BY ChangesAreList
    <2>2. ChangesBy(t)' = Changes(Append(mine, entry))
      BY <1>3, <1>4
    <2>. HIDE DEF mine
    <2>3. Changes(Append(mine, entry)) = Append(Changes(mine), c)
      BY <1>1, <2>1 DEF Changes
    <2>. QED
      BY <2>1, <2>2, <2>3
  <1>. QED
    BY <1>1, <1>5, <1>6

(***************************************************************************)
(* How the locals may go on: a call begins, skips or takes a document      *)
(* change, takes another change, ends, reads a file, makes the change it   *)
(* has in hand, or fails at it.                                            *)
(***************************************************************************)
Locals(pc, edit, todo, rest, cur, content, outcome) ==
  [pc |-> pc, edit |-> edit, todo |-> todo, rest |-> rest, cur |-> cur, content |-> content, outcome |-> outcome]

LEMMA LocalsAre ==
  ASSUME NEW r, NEW pc, NEW edit, NEW todo, NEW rest, NEW cur, NEW content, NEW outcome,
         r \in [pc : {pc}, edit : {edit}, todo : {todo}, rest : {rest}, cur : {cur}, content : {content},
                outcome : {outcome}]
  PROVE  r = Locals(pc, edit, todo, rest, cur, content, outcome)
  BY DEF Locals

LEMMA LocalsHold ==
  ASSUME NEW r, LocalsOK(r)
  PROVE  r \in [pc : {r.pc}, edit : {r.edit}, todo : {r.todo}, rest : {r.rest}, cur : {r.cur}, content : {r.content},
                outcome : {r.outcome}]
  BY DEF LocalsOK

(***************************************************************************)
(* The locals a step leaves, by the fields it changes.                     *)
(***************************************************************************)
LEMMA LocalsStarted ==
  ASSUME NEW r, LocalsOK(r), NEW e
  PROVE  [r EXCEPT !.pc = "next", !.edit = e, !.outcome = "running", !.todo = e.documentChanges, !.rest = e.changes]
           = Locals("next", e, e.documentChanges, e.changes, r.cur, r.content, "running")
  <1> DEFINE todo == e.documentChanges
             rest == e.changes
             changed == [r EXCEPT !.pc = "next", !.edit = e, !.outcome = "running", !.todo = todo, !.rest = rest]
  <1>1. r \in [pc : {r.pc}, edit : {r.edit}, todo : {r.todo}, rest : {r.rest}, cur : {r.cur}, content : {r.content},
              outcome : {r.outcome}]
    BY LocalsHold
  <1>. HIDE DEF todo, rest
  <1>2. changed \in [pc : {"next"}, edit : {e}, todo : {todo}, rest : {rest},
                    cur : {r.cur}, content : {r.content}, outcome : {"running"}]
    BY <1>1
  <1>. HIDE DEF changed
  <1>3. changed = Locals("next", e, todo, rest, r.cur, r.content, "running")
    BY <1>2, LocalsAre
  <1>. QED
    BY <1>3 DEF changed, todo, rest

LEMMA LocalsAdvanced ==
  ASSUME NEW r, LocalsOK(r), NEW pc, NEW todo, NEW cur
  PROVE  [r EXCEPT !.pc = pc, !.todo = todo, !.cur = cur]
           = Locals(pc, r.edit, todo, r.rest, cur, r.content, r.outcome)
  <1> DEFINE changed == [r EXCEPT !.pc = pc, !.todo = todo, !.cur = cur]
  <1>1. r \in [pc : {r.pc}, edit : {r.edit}, todo : {r.todo}, rest : {r.rest}, cur : {r.cur}, content : {r.content},
              outcome : {r.outcome}]
    BY LocalsHold
  <1>2. changed \in [pc : {pc}, edit : {r.edit}, todo : {todo}, rest : {r.rest},
                    cur : {cur}, content : {r.content}, outcome : {r.outcome}]
    BY <1>1
  <1>. HIDE DEF changed
  <1>3. changed = Locals(pc, r.edit, todo, r.rest, cur, r.content, r.outcome)
    BY <1>2, LocalsAre
  <1>. QED
    BY <1>3 DEF changed

LEMMA LocalsChosen ==
  ASSUME NEW r, LocalsOK(r), NEW pc, NEW rest, NEW cur
  PROVE  [r EXCEPT !.pc = pc, !.rest = rest, !.cur = cur]
           = Locals(pc, r.edit, r.todo, rest, cur, r.content, r.outcome)
  <1> DEFINE changed == [r EXCEPT !.pc = pc, !.rest = rest, !.cur = cur]
  <1>1. r \in [pc : {r.pc}, edit : {r.edit}, todo : {r.todo}, rest : {r.rest}, cur : {r.cur}, content : {r.content},
              outcome : {r.outcome}]
    BY LocalsHold
  <1>2. changed \in [pc : {pc}, edit : {r.edit}, todo : {r.todo}, rest : {rest},
                    cur : {cur}, content : {r.content}, outcome : {r.outcome}]
    BY <1>1
  <1>. HIDE DEF changed
  <1>3. changed = Locals(pc, r.edit, r.todo, rest, cur, r.content, r.outcome)
    BY <1>2, LocalsAre
  <1>. QED
    BY <1>3 DEF changed

LEMMA LocalsEnded ==
  ASSUME NEW r, LocalsOK(r), NEW pc, NEW outcome
  PROVE  [r EXCEPT !.pc = pc, !.outcome = outcome]
           = Locals(pc, r.edit, r.todo, r.rest, r.cur, r.content, outcome)
  <1> DEFINE changed == [r EXCEPT !.pc = pc, !.outcome = outcome]
  <1>1. r \in [pc : {r.pc}, edit : {r.edit}, todo : {r.todo}, rest : {r.rest}, cur : {r.cur}, content : {r.content},
              outcome : {r.outcome}]
    BY LocalsHold
  <1>2. changed \in [pc : {pc}, edit : {r.edit}, todo : {r.todo}, rest : {r.rest},
                    cur : {r.cur}, content : {r.content}, outcome : {outcome}]
    BY <1>1
  <1>. HIDE DEF changed
  <1>3. changed = Locals(pc, r.edit, r.todo, r.rest, r.cur, r.content, outcome)
    BY <1>2, LocalsAre
  <1>. QED
    BY <1>3 DEF changed

LEMMA LocalsHolding ==
  ASSUME NEW r, LocalsOK(r), NEW pc, NEW content
  PROVE  [r EXCEPT !.pc = pc, !.content = content]
           = Locals(pc, r.edit, r.todo, r.rest, r.cur, content, r.outcome)
  <1> DEFINE changed == [r EXCEPT !.pc = pc, !.content = content]
  <1>1. r \in [pc : {r.pc}, edit : {r.edit}, todo : {r.todo}, rest : {r.rest}, cur : {r.cur}, content : {r.content},
              outcome : {r.outcome}]
    BY LocalsHold
  <1>2. changed \in [pc : {pc}, edit : {r.edit}, todo : {r.todo}, rest : {r.rest},
                    cur : {r.cur}, content : {content}, outcome : {r.outcome}]
    BY <1>1
  <1>. HIDE DEF changed
  <1>3. changed = Locals(pc, r.edit, r.todo, r.rest, r.cur, content, r.outcome)
    BY <1>2, LocalsAre
  <1>. QED
    BY <1>3 DEF changed

LEMMA LocalsFailed ==
  ASSUME NEW r, LocalsOK(r), NEW pc, NEW outcome, NEW content
  PROVE  [r EXCEPT !.pc = pc, !.outcome = outcome, !.content = content]
           = Locals(pc, r.edit, r.todo, r.rest, r.cur, content, outcome)
  <1> DEFINE changed == [r EXCEPT !.pc = pc, !.outcome = outcome, !.content = content]
  <1>1. r \in [pc : {r.pc}, edit : {r.edit}, todo : {r.todo}, rest : {r.rest}, cur : {r.cur}, content : {r.content},
              outcome : {r.outcome}]
    BY LocalsHold
  <1>2. changed \in [pc : {pc}, edit : {r.edit}, todo : {r.todo}, rest : {r.rest},
                    cur : {r.cur}, content : {content}, outcome : {outcome}]
    BY <1>1
  <1>. HIDE DEF changed
  <1>3. changed = Locals(pc, r.edit, r.todo, r.rest, r.cur, content, outcome)
    BY <1>2, LocalsAre
  <1>. QED
    BY <1>3 DEF changed

LEMMA CourseBegins ==
  ASSUME NEW r, NEW made, OnCourse(r, made), r.outcome = "none", NEW e, IsEdit(e, Change)
  PROVE  OnCourse(Locals("next", e, e.documentChanges, e.changes, r.cur, r.content, "running"), made)
  <1>1. Tally(made, NoEdit, <<>>, {}) /\ IsEdit(NoEdit, Change)
    BY DEF OnCourse, LocalsOK, InHand
  <1>2. Taken(NoEdit, <<>>) = 0 /\ Done(NoEdit, 0) = <<>>
    BY <1>1, NothingDone DEF Taken, NoEdit
  <1>3. made = <<>>
    <2>1. PICK o \in Seq({}) : made = Done(NoEdit, 0) \o o
      BY <1>1, <1>2 DEF Tally, NoEdit
    <2>2. o = <<>>
      BY <2>1
    <2>. QED
      BY <1>2, <2>1, <2>2
  <1>4. Tally(made, e, e.documentChanges, e.changes)
    BY <1>3, TallyBegins
  <1>. QED
    BY <1>4 DEF OnCourse, LocalsOK, InHand, Locals

LEMMA CourseNext ==
  ASSUME NEW r, NEW made, OnCourse(r, made), r.pc = "next", r.todo # <<>>
  PROVE  OnCourse(Locals(IF Skipped(Head(r.todo)) THEN "next" ELSE "apply", r.edit, Tail(r.todo), r.rest,
                         Head(r.todo), r.content, r.outcome), made)
  <1>1. IsEdit(r.edit, Change) /\ Tally(made, r.edit, r.todo, r.rest) /\ r.outcome = "running"
    BY DEF OnCourse, LocalsOK, InHand
  <1>2. /\ Head(r.todo) \in Change
        /\ Tally(IF Skipped(Head(r.todo)) THEN made ELSE Append(made, Head(r.todo)), r.edit, Tail(r.todo), r.rest)
    BY <1>1, TallyNext
  <1>. QED
    BY <1>1, <1>2 DEF OnCourse, LocalsOK, InHand, Locals

LEMMA CourseRest ==
  ASSUME NEW r, NEW made, OnCourse(r, made), r.pc = "next", r.todo = <<>>, NEW c \in r.rest
  PROVE  OnCourse(Locals("apply", r.edit, <<>>, r.rest \ {c}, c, r.content, r.outcome), made)
  <1>1. IsEdit(r.edit, Change) /\ Tally(made, r.edit, <<>>, r.rest) /\ r.outcome = "running"
    BY DEF OnCourse, LocalsOK, InHand
  <1>2. c \in Change /\ Tally(Append(made, c), r.edit, <<>>, r.rest \ {c})
    BY <1>1, TallyRest
  <1>. QED
    BY <1>1, <1>2 DEF OnCourse, LocalsOK, InHand, Locals

LEMMA CourseEnds ==
  ASSUME NEW r, NEW made, OnCourse(r, made), r.pc = "next", r.todo = <<>>, r.rest = {}
  PROVE  OnCourse(Locals("idle", r.edit, <<>>, {}, r.cur, r.content, "ok"), made)
  BY DEF OnCourse, LocalsOK, InHand, Locals

LEMMA CourseGoesOn ==
  ASSUME NEW r, NEW made, OnCourse(r, made), r.pc \in {"apply", "write"}, NEW content
  PROVE  /\ r.cur \in Change
         /\ OnCourse(Locals("write", r.edit, r.todo, r.rest, r.cur, content, r.outcome), made)
         /\ OnCourse(Locals("next", r.edit, r.todo, r.rest, r.cur, content, r.outcome), Append(made, r.cur))
         /\ OnCourse(Locals("idle", r.edit, r.todo, r.rest, r.cur, content, "error"), made)
  BY DEF OnCourse, LocalsOK, InHand, Locals

(***************************************************************************)
(* A step of one call leaves the others where they are.                    *)
(***************************************************************************)
LEMMA OneCallSteps ==
  ASSUME Inv, NEW t \in Threads, NEW r, Become(t, r), log' \in Seq([by : Threads, change : Change]),
         \A u \in Threads \ {t} : ChangesBy(u)' = ChangesBy(u), OnCourse(r, ChangesBy(t)')
  PROVE  Inv'
  <1>1. /\ thread' = [u \in Threads |-> thread'[u]] /\ thread'[t] = r
        /\ \A u \in Threads \ {t} : thread'[u] = thread[u]
    BY DEF Inv, Become
  <1>2. ASSUME NEW u \in Threads PROVE OnCourse(thread'[u], ChangesBy(u)')
    BY <1>1 DEF Inv
  <1>. QED
    BY <1>1, <1>2 DEF Inv

LEMMA QuietStep ==
  ASSUME Inv, NEW t \in Threads, NEW r, Become(t, r), UNCHANGED log, OnCourse(r, ChangesBy(t))
  PROVE  Inv'
  <1>1. \A u : ChangesBy(u)' = ChangesBy(u)
    BY DEF ChangesBy, Changes
  <1>. QED
    BY <1>1, OneCallSteps DEF Inv

LEMMA LoudStep ==
  ASSUME Inv, NEW t \in Threads, NEW c, c \in Change, NEW r, Become(t, r),
         log' = Append(log, [by |-> t, change |-> c]), OnCourse(r, Append(ChangesBy(t), c))
  PROVE  Inv'
  BY LogGrows, OneCallSteps DEF Inv

LEMMA InitInv == Init => Inv
  <1>. SUFFICES ASSUME Init PROVE Inv
    OBVIOUS
  <1>1. log \in Seq([by : Threads, change : Change])
    BY DEF Init
  <1>2. ASSUME NEW t \in Threads PROVE ChangesBy(t) = <<>>
    <2>1. Picked(log, By(t)) = <<>>
      <3>1. log = <<>>
        BY DEF Init
      <3>2. Picked(log, By(t)) = FlattenSeq(<<>>)
        BY <3>1 DEF Picked
      <3>. QED
        BY <3>2 DEF FlattenSeq
    <2>2. ChangesBy(t) = Changes(<<>>)
      BY <1>1, <2>1, ChangesAreList
    <2>. QED
      BY <2>2 DEF Changes
  <1>3. IsEdit(NoEdit, Change)
    BY FS_EmptySet DEF IsEdit, NoEdit
  <1>4. Tally(<<>>, NoEdit, <<>>, {})
    <2> DEFINE e == NoEdit
    <2>1. e.documentChanges = <<>> /\ e.changes = {}
      BY DEF NoEdit
    <2>. HIDE DEF e
    <2>2. Tally(<<>>, e, e.documentChanges, e.changes)
      BY <1>3, TallyBegins DEF e
    <2>. QED
      BY <2>1, <2>2 DEF e
  <1>5. ASSUME NEW t \in Threads PROVE OnCourse(thread[t], ChangesBy(t))
    <2>1. thread[t] = Locals("idle", NoEdit, <<>>, {}, NoChange, Absent, "none")
      BY DEF Init, Locals
    <2>. QED
      BY <1>2, <1>3, <1>4, <2>1 DEF OnCourse, LocalsOK, InHand, Locals
  <1>. QED
    BY <1>1, <1>5 DEF Init, Inv

(***************************************************************************)
(* Each step of a call is one of the ways its locals may go on.            *)
(***************************************************************************)
LEMMA FieldsOf ==
  ASSUME Inv, NEW t \in Threads
  PROVE  LocalsOK(thread[t]) /\ OnCourse(thread[t], ChangesBy(t))
  BY DEF Inv, OnCourse

(***************************************************************************)
(* A proposed workspace edit is decoded to one of changes.                 *)
(***************************************************************************)
LEMMA TextsAre ==
  ASSUME NEW edits \in Seq(TextEdit(STRING) \union {Annotated})
  PROVE  TextsOf(edits) \in Seq(TextEdit(STRING))
  <1> DEFINE T == TextEdit(STRING)
             s == TextsOf(edits)
  <1>1. Blank \in T
    BY DEF Blank, TextEdit, Position
  <1>2. edits \in Seq(T \union {Annotated})
    OBVIOUS
  <1>. HIDE DEF T
  <1>3. Len(edits) \in Nat /\ DOMAIN edits = 1 .. Len(edits) /\ \A i \in 1 .. Len(edits) : edits[i] \in T \union {Annotated}
    BY <1>2
  <1>4. s \in [1 .. Len(edits) -> T]
    BY <1>1, <1>3 DEF TextsOf
  <1>. HIDE DEF s
  <1>5. s \in Seq(T)
    BY <1>3, <1>4, SeqDefs
  <1>. QED
    BY <1>5 DEF T, s

LEMMA DecodedChangeIs ==
  ASSUME NEW c \in Proposal
  PROVE  DecodedChange(c) \in Change
  <1>1. CASE c \in [kind : {"edit"}, file : Files, edits : Seq(TextEdit(STRING) \union {Annotated})]
    <2> DEFINE U == Seq(TextEdit(STRING) \union {Annotated})
               T == Seq(TextEdit(STRING))
    <2>1. c \in [kind : {"edit"}, file : Files, edits : U]
      BY <1>1
    <2>. HIDE DEF U
    <2>2. c.kind = "edit" /\ c.file \in Files /\ c.edits \in U
      BY <2>1
    <2>3. TextsOf(c.edits) \in T
      BY <2>2, TextsAre DEF U
    <2>. HIDE DEF T
    <2>4. [kind |-> "edit", file |-> c.file, edits |-> TextsOf(c.edits)] \in [kind : {"edit"}, file : Files, edits : T]
      BY <2>2, <2>3
    <2>. QED
      BY <2>2, <2>4 DEF DecodedChange, Change, FileEdit, T
  <1>2. CASE c \in Rename
    BY <1>2 DEF DecodedChange, Change, Rename
  <1>3. CASE c \in [kind : {"create", "other"}, file : Files]
    BY <1>3 DEF DecodedChange, Change
  <1>4. CASE c \in [kind : {"delete"}, file : Files, options : BOOLEAN]
    <2>1. c.kind = "delete" /\ c.file \in Files
      BY <1>4
    <2>. QED
      BY <2>1 DEF DecodedChange, Change
  <1>. QED
    BY <1>1, <1>2, <1>3, <1>4 DEF Proposal

LEMMA DecodedIs ==
  ASSUME NEW t \in Threads, NEW e \in EditsOf[t]
  PROVE  IsEdit(Decoded(e), Change)
  <1> DEFINE dc == e.documentChanges
             d == [i \in DOMAIN dc |-> DecodedChange(dc[i])]
  <1>1. dc \in Seq(Proposal) /\ e.changes \subseteq FileEdit /\ IsFiniteSet(e.changes)
    BY WorkspaceAssumption
  <1>. HIDE DEF dc
  <1>2. Len(dc) \in Nat /\ DOMAIN dc = 1 .. Len(dc) /\ \A i \in 1 .. Len(dc) : dc[i] \in Proposal
    BY <1>1
  <1>3. d \in [1 .. Len(dc) -> Change]
    BY <1>2, DecodedChangeIs
  <1>. HIDE DEF d
  <1>4. d \in Seq(Change)
    BY <1>2, <1>3, SeqDefs
  <1>5. Decoded(e).documentChanges = d /\ Decoded(e).changes = e.changes
    BY DEF Decoded, d, dc
  <1>6. FileEdit \subseteq Change
    BY DEF Change
  <1>. QED
    BY <1>1, <1>4, <1>5, <1>6 DEF IsEdit

LEMMA BeginKeeps ==
  ASSUME Inv, NEW t \in Threads, NEW e, IsEdit(e, Change), Begin(t, e)
  PROVE  Inv'
  <1> DEFINE r == thread[t]
  <1>1. LocalsOK(r) /\ OnCourse(r, ChangesBy(t)) /\ IsEdit(e, Change)
    BY FieldsOf
  <1>2. /\ r.outcome = "none" /\ UNCHANGED log
        /\ Become(t, [r EXCEPT !.pc = "next", !.edit = e, !.outcome = "running",
                               !.todo = e.documentChanges, !.rest = e.changes])
    BY DEF Begin
  <1>3. Become(t, Locals("next", e, e.documentChanges, e.changes, r.cur, r.content, "running"))
    BY <1>1, <1>2, LocalsStarted
  <1>. QED
    BY <1>1, <1>2, <1>3, CourseBegins, QuietStep

LEMMA NextChangeKeeps ==
  ASSUME Inv, NEW t \in Threads, NextChange(t)
  PROVE  Inv'
  <1> DEFINE r == thread[t]
             c == Head(r.todo)
             pc == IF Skipped(c) THEN "next" ELSE "apply"
             todo == Tail(r.todo)
  <1>1. LocalsOK(r) /\ OnCourse(r, ChangesBy(t)) /\ r.pc = "next" /\ UNCHANGED log
    BY FieldsOf DEF NextChange, At
  <1>2. CASE r.todo # <<>> /\ Become(t, [r EXCEPT !.pc = pc, !.todo = todo, !.cur = c])
    <2>1. Become(t, Locals(pc, r.edit, todo, r.rest, c, r.content, r.outcome))
      <3>. HIDE DEF c, pc, todo
      <3>1. [r EXCEPT !.pc = pc, !.todo = todo, !.cur = c]
              = Locals(pc, r.edit, todo, r.rest, c, r.content, r.outcome)
        BY <1>1, LocalsAdvanced
      <3>. QED
        BY <1>2, <3>1
    <2>2. OnCourse(Locals(pc, r.edit, todo, r.rest, c, r.content, r.outcome), ChangesBy(t))
      BY <1>1, <1>2, CourseNext
    <2>. QED
      BY <1>1, <2>1, <2>2, QuietStep
  <1>3. ASSUME r.todo = <<>>, NEW d \in r.rest, Become(t, [r EXCEPT !.pc = "apply", !.rest = r.rest \ {d}, !.cur = d])
        PROVE  Inv'
    <2>1. Become(t, Locals("apply", r.edit, <<>>, r.rest \ {d}, d, r.content, r.outcome))
      <3>1. [r EXCEPT !.pc = "apply", !.rest = r.rest \ {d}, !.cur = d]
              = Locals("apply", r.edit, r.todo, r.rest \ {d}, d, r.content, r.outcome)
        BY <1>1, LocalsChosen
      <3>. QED
        BY <1>3, <3>1
    <2>. QED
      BY <1>1, <1>3, <2>1, CourseRest, QuietStep
  <1>4. CASE r.todo = <<>> /\ r.rest = {} /\ Become(t, [r EXCEPT !.pc = "idle", !.outcome = "ok"])
    <2>1. Become(t, Locals("idle", r.edit, <<>>, {}, r.cur, r.content, "ok"))
      <3>1. [r EXCEPT !.pc = "idle", !.outcome = "ok"]
              = Locals("idle", r.edit, r.todo, r.rest, r.cur, r.content, "ok")
        BY <1>1, LocalsEnded
      <3>. QED
        BY <1>4, <3>1
    <2>. QED
      BY <1>1, <1>4, <2>1, CourseEnds, QuietStep
  <1>5. \/ r.todo # <<>> /\ Become(t, [r EXCEPT !.pc = pc, !.todo = todo, !.cur = c])
        \/ r.todo = <<>> /\ \E d \in r.rest : Become(t, [r EXCEPT !.pc = "apply", !.rest = r.rest \ {d}, !.cur = d])
        \/ r.todo = <<>> /\ r.rest = {} /\ Become(t, [r EXCEPT !.pc = "idle", !.outcome = "ok"])
    BY Zenon DEF NextChange
  <1>. HIDE DEF r, c, pc, todo
  <1>. QED
    BY <1>2, <1>3, <1>4, <1>5, Zenon

(***************************************************************************)
(* A call with a change in hand reads on, fails, or makes it.              *)
(***************************************************************************)
LEMMA InHandKeeps ==
  ASSUME Inv, NEW t \in Threads, thread[t].pc \in {"apply", "write"}
  PROVE  /\ \A content : UNCHANGED log /\ Become(t, [thread[t] EXCEPT !.pc = "write", !.content = content]) => Inv'
         /\ Fail(t) /\ UNCHANGED log => Inv'
         /\ Made(t) => Inv'
  <1> DEFINE r == thread[t]
  <1>1. LocalsOK(r) /\ OnCourse(r, ChangesBy(t))
    BY FieldsOf
  <1>2. ASSUME NEW content, UNCHANGED log, Become(t, [r EXCEPT !.pc = "write", !.content = content]) PROVE Inv'
    <2>1. [r EXCEPT !.pc = "write", !.content = content]
            = Locals("write", r.edit, r.todo, r.rest, r.cur, content, r.outcome)
      BY <1>1, LocalsHolding
    <2>. QED
      BY <1>1, <1>2, <2>1, CourseGoesOn, QuietStep
  <1>3. ASSUME Fail(t), UNCHANGED log PROVE Inv'
    <2>1. [r EXCEPT !.pc = "idle", !.outcome = "error", !.content = Absent]
            = Locals("idle", r.edit, r.todo, r.rest, r.cur, Absent, "error")
      BY <1>1, LocalsFailed
    <2>2. Become(t, Locals("idle", r.edit, r.todo, r.rest, r.cur, Absent, "error"))
      BY <1>3, <2>1 DEF Fail
    <2>. QED
      BY <1>1, <1>3, <2>2, CourseGoesOn, QuietStep
  <1>4. ASSUME Made(t) PROVE Inv'
    <2>1. [r EXCEPT !.pc = "next", !.content = Absent]
            = Locals("next", r.edit, r.todo, r.rest, r.cur, Absent, r.outcome)
      BY <1>1, LocalsHolding
    <2>2. /\ Become(t, Locals("next", r.edit, r.todo, r.rest, r.cur, Absent, r.outcome))
          /\ log' = Append(log, [by |-> t, change |-> r.cur])
      BY <1>4, <2>1 DEF Made
    <2>3. r.cur \in Change
          /\ OnCourse(Locals("next", r.edit, r.todo, r.rest, r.cur, Absent, r.outcome), Append(ChangesBy(t), r.cur))
      BY <1>1, CourseGoesOn
    <2>. QED
      BY <2>2, <2>3, LoudStep
  <1>. QED
    BY <1>2, <1>3, <1>4

LEMMA NextInv == Inv /\ [Next]_vars => Inv'
  <1>1. ASSUME Inv, NEW t \in Threads, NEW e \in EditsOf[t], Begin(t, Decoded(e)) PROVE Inv'
    BY <1>1, DecodedIs, BeginKeeps
  <1>2. ASSUME Inv, NEW t \in Threads, NextChange(t) PROVE Inv'
    BY <1>2, NextChangeKeeps
  <1>3. ASSUME Inv, NEW t \in Threads,
               Refused(t) \/ Read(t) \/ Write(t) \/ WriteFails(t) \/ CreateFile(t) \/ RenameFile(t) \/ DeleteFile(t)
        PROVE  Inv'
    <2>1. thread[t].pc \in {"apply", "write"}
      BY <1>3 DEF Refused, Read, Write, WriteFails, CreateFile, RenameFile, DeleteFile, Applying, At
    <2>2. \/ Fail(t) /\ UNCHANGED log
          \/ Made(t)
          \/ UNCHANGED log /\ Become(t, [thread[t] EXCEPT !.pc = "write", !.content = disk[File(t)]])
      BY <1>3 DEF Refused, Read, Write, WriteFails, CreateFile, RenameFile, DeleteFile
    <2>. QED
      BY <1>3, <2>1, <2>2, InHandKeeps
  <1>4. ASSUME Inv, UNCHANGED vars PROVE Inv'
    <2>1. UNCHANGED <<thread, log>>
      BY <1>4 DEF vars
    <2>2. \A t : ChangesBy(t)' = ChangesBy(t)
      BY <2>1 DEF ChangesBy, Changes
    <2>. QED
      BY <1>4, <2>1, <2>2 DEF Inv
  <1>. QED
    BY <1>1, <1>2, <1>3, <1>4 DEF Next

(***************************************************************************)
(* Every call is on its course, whatever the calls do to each other's      *)
(* files: the strengthening of SuccessMeansAllTried.                          *)
(***************************************************************************)
THEOREM Invariance == Spec => []Inv
  BY InitInv, NextInv, PTL DEF Spec

(***************************************************************************)
(* A call that applies a workspace edit goes through its document changes  *)
(* in order and without a gap and then through the others, none twice; it  *)
(* reports success only when it has gone through them all and an error     *)
(* only when it has not: for any edits, files and calls beside each other, *)
(* whether or not they edit the same files, and whatever fails.  What a    *)
(* change does not do that was gone through, its edits out of range and    *)
(* those that are no TextEdit, DiskAlwaysFollows has.                      *)
(***************************************************************************)
THEOREM SuccessAlwaysMeansAllTried == Spec => []SuccessMeansAllTried
  <1>1. ASSUME Inv PROVE SuccessMeansAllTried
    <2> SUFFICES
          ASSUME NEW t \in Threads
          PROVE  LET n == Len(ChangesBy(t))
                     w == Len(Wanted(t))
                     others == {ChangesBy(t)[i] : i \in w + 1 .. n}
                     total == w + Cardinality(thread[t].edit.changes)
                 IN /\ IF n <= w
                       THEN IsPrefix(ChangesBy(t), Wanted(t))
                       ELSE /\ IsPrefix(Wanted(t), ChangesBy(t))
                            /\ others \subseteq thread[t].edit.changes /\ Cardinality(others) = n - w
                    /\ thread[t].outcome = "ok" => n = total
                    /\ thread[t].outcome = "error" => n < total
      BY DEF SuccessMeansAllTried
    <2> DEFINE r == thread[t]
               underWay == InHand(r)
               made == ChangesBy(t)
               n == Len(made)
               w == Len(All(r.edit))
    <2>1. LocalsOK(r) /\ OnCourse(r, made) /\ made \in Seq(Change)
      BY <1>1, FieldsOf, ChangesAreList DEF Inv
    <2>2. IsEdit(r.edit, Change) /\ underWay \in BOOLEAN
      BY <2>1 DEF OnCourse, LocalsOK, InHand
    <2>3. PICK m : Tally(m, r.edit, r.todo, r.rest) /\ Ahead(m, made, underWay, Change)
      <3>1. CASE underWay
        BY <2>1, <3>1 DEF OnCourse, LocalsOK, InHand, Ahead
      <3>2. CASE ~underWay
        BY <2>1, <2>2, <3>2 DEF OnCourse, LocalsOK, InHand, Ahead
      <3>. QED
        BY <3>1, <3>2
    <2>4. /\ r.outcome = "ok" => ~underWay /\ r.todo = <<>> /\ r.rest = {}
          /\ r.outcome = "error" => underWay
      BY <2>1 DEF OnCourse, LocalsOK, InHand
    <2>5. Told(made, r.edit, r.todo, r.rest, underWay, n, w, Beyond(made, w, n))
      <3>. HIDE DEF underWay, made, r
      <3>. QED
        BY <2>2, <2>3, TallyTells
    <2>6. Wanted(t) = All(r.edit)
      BY DEF Wanted, All
    <2>. HIDE DEF underWay
    <2>. QED
      BY <2>4, <2>5, <2>6 DEF Told, Beyond
  <1>. QED
    BY Invariance, <1>1, PTL

-----------------------------------------------------------------------------
(* Part 2: the edits of one file. *)

(***************************************************************************)
(* Where the lines of a content end: places that grow, each but the last   *)
(* one a line break, and the last one behind the content.                  *)
(***************************************************************************)
IsEnds(ends, c) ==
  /\ ends \in Seq(1 .. Len(c) + 1) /\ Len(ends) \in Nat \ {0}
  /\ \A k, l \in 1 .. Len(ends) : k < l => ends[k] < ends[l]
  /\ ends[Len(ends)] = Len(c) + 1
  /\ \A k \in 1 .. Len(ends) - 1 : c[ends[k]] = NL

LEMMA EndsAre ==
  ASSUME NEW CH, NEW c \in Seq(CH)
  PROVE  IsEnds(Ends(c), c)
  <1> DEFINE P == 1 .. Len(c) + 1
             list == [i \in P |-> i]
             chosen == {i \in P : i = Len(c) + 1 \/ c[i] = NL}
             E == Ends(c)
             goal == chosen \intersect DOMAIN list
  <1>1. Len(c) \in Nat /\ Len(c) + 1 \in Nat
    OBVIOUS
  <1>2. list \in Seq(P) /\ DOMAIN list = P /\ \A i \in P : list[i] = i
    <2>1. list \in [1 .. Len(c) + 1 -> P]
      OBVIOUS
    <2>. QED
      BY <1>1, <2>1, SeqDefs
  <1>3. E = Picked(list, chosen)
    BY DEF Ends
  <1>4. /\ goal \in SUBSET P /\ Len(c) + 1 \in goal
        /\ \A i \in goal : i \in 1 .. Len(c) + 1 /\ (i # Len(c) + 1 => c[i] = NL)
    BY <1>1, <1>2
  <1>. HIDE DEF list, chosen, E, P
  <1>5. E \in Seq(P) /\ \E at : IsRanking(at, E, list, goal)
    BY <1>2, <1>3, PickedByRank, PickedHolds
  <1>6. PICK at : IsRanking(at, E, list, goal)
    BY <1>5
  <1>. HIDE DEF goal
  <1>7. Len(E) \in Nat
    BY <1>5
  <1>8. \A k \in 1 .. Len(E) : E[k] = at[k] /\ E[k] \in goal /\ E[k] \in 1 .. Len(c) + 1
    BY <1>2, <1>4, <1>6 DEF IsRanking
  <1>9. \A k, l \in 1 .. Len(E) : k < l => E[k] < E[l]
    BY <1>6, <1>8 DEF IsRanking
  <1>10. PICK k \in 1 .. Len(E) : E[k] = Len(c) + 1
    BY <1>4, <1>6, <1>8 DEF IsRanking
  <1>11. k = Len(E)
    <2>1. k \in Nat /\ k <= Len(E) /\ Len(E) \in 1 .. Len(E)
      BY <1>7, <1>10
    <2>2. ASSUME k < Len(E) PROVE FALSE
      <3>1. E[k] < E[Len(E)] /\ E[Len(E)] \in 1 .. Len(c) + 1
        BY <1>8, <1>9, <2>1, <2>2
      <3>. QED
        BY <1>1, <1>10, <3>1
    <2>. QED
      BY <1>7, <2>1, <2>2
  <1>12. \A l \in 1 .. Len(E) - 1 : c[E[l]] = NL
    <2>1. ASSUME NEW l \in 1 .. Len(E) - 1 PROVE c[E[l]] = NL
      <3>1. l \in 1 .. Len(E) /\ l < Len(E) /\ Len(E) \in 1 .. Len(E)
        BY <1>7
      <3>2. E[l] < E[Len(E)]
        BY <1>9, <3>1
      <3>3. E[l] \in goal /\ E[l] # Len(c) + 1
        BY <1>1, <1>8, <1>10, <1>11, <3>1, <3>2
      <3>. QED
        BY <1>4, <3>3
    <2>. QED
      BY <2>1
  <1>13. E \in Seq(1 .. Len(c) + 1) /\ Len(E) \in Nat \ {0} /\ E[Len(E)] = Len(c) + 1
    BY <1>5, <1>7, <1>10, <1>11 DEF P
  <1>14. IsEnds(E, c)
    BY <1>9, <1>12, <1>13 DEF IsEnds
  <1>. QED
    BY <1>14 DEF E

(***************************************************************************)
(* The lines lie between the places where they end.                        *)
(***************************************************************************)
LEMMA BeforeIs ==
  ASSUME NEW CH, NEW c \in Seq(CH), NEW E, IsEnds(E, c)
  PROVE  /\ \A n \in 0 .. Len(E) : Before(E, n) \in 0 .. Len(c) + 1
         /\ \A n \in 1 .. Len(E) : n - 1 \in 0 .. Len(E) /\ Before(E, n) = E[n] /\ Before(E, n - 1) < E[n]
         /\ \A m, n \in 0 .. Len(E) : m <= n => Before(E, m) <= Before(E, n)
  <1>1. Len(c) \in Nat /\ Len(E) \in Nat /\ \A n \in 1 .. Len(E) : E[n] \in 1 .. Len(c) + 1
    BY DEF IsEnds
  <1>2. \A n \in 0 .. Len(E) : Before(E, n) \in 0 .. Len(c) + 1
    <2>1. ASSUME NEW n \in 0 .. Len(E) PROVE Before(E, n) \in 0 .. Len(c) + 1
      <3>1. CASE n = 0
        BY <1>1, <3>1 DEF Before
      <3>2. CASE n # 0
        <4>1. n \in 1 .. Len(E)
          BY <1>1, <3>2
        <4>. QED
          BY <1>1, <3>2, <4>1 DEF Before
      <3>. QED
        BY <3>1, <3>2
    <2>. QED
      BY <2>1
  <1>3. ASSUME NEW n \in 1 .. Len(E)
        PROVE  n - 1 \in 0 .. Len(E) /\ Before(E, n) = E[n] /\ Before(E, n - 1) < E[n]
    <2>1. n - 1 \in 0 .. Len(E) /\ Before(E, n) = E[n] /\ E[n] \in 1 .. Len(c) + 1
      BY <1>1 DEF Before
    <2>2. CASE n - 1 = 0
      BY <1>1, <2>1, <2>2 DEF Before
    <2>3. CASE n - 1 # 0
      <3>1. n - 1 \in 1 .. Len(E) /\ n - 1 < n
        BY <1>1, <2>3
      <3>2. E[n - 1] < E[n]
        BY <3>1 DEF IsEnds
      <3>. QED
        BY <2>1, <2>3, <3>2 DEF Before
    <2>. QED
      BY <2>1, <2>2, <2>3
  <1>4. ASSUME NEW m \in 0 .. Len(E), NEW n \in 0 .. Len(E), m <= n PROVE Before(E, m) <= Before(E, n)
    <2>1. Before(E, m) \in 0 .. Len(c) + 1 /\ Before(E, n) \in 0 .. Len(c) + 1
      BY <1>2
    <2>2. CASE m = n
      BY <1>1, <2>1, <2>2
    <2>3. CASE m = 0
      BY <1>1, <2>1, <2>3 DEF Before
    <2>4. CASE m # n /\ m # 0
      <3>1. m \in 1 .. Len(E) /\ n \in 1 .. Len(E) /\ m < n /\ n # 0
        BY <1>1, <1>4, <2>4
      <3>2. E[m] < E[n]
        BY <3>1 DEF IsEnds
      <3>. QED
        BY <1>1, <2>4, <3>1, <3>2 DEF Before
    <2>. QED
      BY <2>2, <2>3, <2>4
  <1>. QED
    BY <1>2, <1>3, <1>4

AreLines(CH, c, E, L) ==
  /\ IsEnds(E, c) /\ L \in Seq(Seq(CH)) /\ Len(L) = Len(E)
  /\ \A n \in 1 .. Len(E) :
       /\ L[n] = SubSeq(c, Before(E, n - 1) + 1, E[n] - 1)
       /\ Len(L[n]) = E[n] - 1 - Before(E, n - 1)

\* Split gives these lines.
LEMMA LinesAre ==
  ASSUME NEW CH, NEW c \in Seq(CH)
  PROVE  AreLines(CH, c, Ends(c), Split(c))
  <1> DEFINE E == Ends(c)
  <1>1. IsEnds(E, c)
    BY EndsAre
  <1>2. Len(c) \in Nat /\ Len(E) \in Nat /\ DOMAIN E = 1 .. Len(E)
    BY <1>1 DEF IsEnds
  <1>3. ASSUME NEW n \in 1 .. Len(E)
        PROVE  /\ Before(E, n - 1) \in 0 .. Len(c) + 1 /\ E[n] \in 1 .. Len(c) + 1 /\ Before(E, n - 1) < E[n]
    <2>1. /\ \A m \in 0 .. Len(E) : Before(E, m) \in 0 .. Len(c) + 1
          /\ \A m \in 1 .. Len(E) : m - 1 \in 0 .. Len(E) /\ Before(E, m) = E[m] /\ Before(E, m - 1) < E[m]
      BY <1>1, BeforeIs
    <2>2. n \in 0 .. Len(E) /\ E \in Seq(1 .. Len(c) + 1)
      BY <1>1, <1>2 DEF IsEnds
    <2>. QED
      BY <2>1, <2>2
  <1>4. ASSUME NEW n \in 1 .. Len(E)
        PROVE  /\ SubSeq(c, Before(E, n - 1) + 1, E[n] - 1) \in Seq(CH)
               /\ Len(SubSeq(c, Before(E, n - 1) + 1, E[n] - 1)) = E[n] - 1 - Before(E, n - 1)
    <2> DEFINE b == Before(E, n - 1)
               e == E[n]
    <2>1. b \in 0 .. Len(c) + 1 /\ e \in 1 .. Len(c) + 1 /\ b < e
      BY <1>3
    <2>. HIDE DEF b, e
    <2>2. b + 1 \in Int /\ e - 1 \in Int /\ (\A i \in b + 1 .. e - 1 : i \in 1 .. Len(c))
      BY <1>2, <2>1
    <2>3. \A i \in b + 1 .. e - 1 : c[i] \in CH
      BY <2>2
    <2>4. /\ SubSeq(c, b + 1, e - 1) \in Seq(CH)
          /\ Len(SubSeq(c, b + 1, e - 1)) = IF b + 1 <= e - 1 THEN e - 1 - (b + 1) + 1 ELSE 0
      BY <2>2, <2>3, SubSeqProperties
    <2>5. Len(SubSeq(c, b + 1, e - 1)) = e - 1 - b
      BY <1>2, <2>1, <2>4
    <2>. QED
      BY <2>4, <2>5 DEF b, e
  <1>5. Split(c) = [n \in 1 .. Len(E) |-> SubSeq(c, Before(E, n - 1) + 1, E[n] - 1)]
    BY <1>2 DEF Split
  <1>6. Split(c) \in [1 .. Len(E) -> Seq(CH)] /\ DOMAIN Split(c) = 1 .. Len(E)
    BY <1>4, <1>5
  <1>7. Split(c) \in Seq(Seq(CH)) /\ Len(Split(c)) = Len(E)
    <2>1. Split(c) \in Seq(Seq(CH))
      BY <1>2, <1>6, SeqDefs
    <2>2. DOMAIN Split(c) = 1 .. Len(Split(c)) /\ Len(Split(c)) \in Nat
      BY <2>1, LenProperties
    <2>. QED
      BY <1>2, <1>6, <2>1, <2>2
  <1>8. AreLines(CH, c, E, Split(c))
    <2>. HIDE DEF E
    <2>. QED
      BY <1>1, <1>4, <1>5, <1>7 DEF AreLines
  <1>. QED
    BY <1>8

(***************************************************************************)
(* The content that lines stand for, each opened by a line break.          *)
(***************************************************************************)
Opened(lines) == FlattenSeq([n \in DOMAIN lines |-> <<NL>> \o lines[n]])

LEMMA OpenedIs ==
  ASSUME NEW CH, NL \in CH, NEW lines \in Seq(Seq(CH))
  PROVE  /\ [n \in DOMAIN lines |-> <<NL>> \o lines[n]] \in Seq(Seq(CH))
         /\ Len([n \in DOMAIN lines |-> <<NL>> \o lines[n]]) = Len(lines)
         /\ Opened(lines) \in Seq(CH)
  <1> DEFINE heads == [n \in DOMAIN lines |-> <<NL>> \o lines[n]]
  <1>1. DOMAIN lines = 1 .. Len(lines) /\ Len(lines) \in Nat /\ DOMAIN heads = DOMAIN lines
    OBVIOUS
  <1>2. \A n \in 1 .. Len(lines) : <<NL>> \o lines[n] \in Seq(CH)
    <2>1. ASSUME NEW n \in 1 .. Len(lines) PROVE <<NL>> \o lines[n] \in Seq(CH)
      <3>1. <<NL>> \in Seq(CH) /\ lines[n] \in Seq(CH)
        OBVIOUS
      <3>. QED
        BY <3>1, ConcatProperties
    <2>. QED
      BY <2>1
  <1>3. heads \in [1 .. Len(lines) -> Seq(CH)]
    BY <1>1, <1>2
  <1>. HIDE DEF heads
  <1>4. heads \in Seq(Seq(CH))
    BY <1>1, <1>3, SeqDefs
  <1>5. Len(heads) = Len(lines)
    BY <1>1, <1>4, LenProperties
  <1>6. FlattenSeq(heads) \in Seq(CH)
    BY <1>4, FlattenIsSeq
  <1>. QED
    BY <1>4, <1>5, <1>6 DEF heads, Opened

\* Lines after lines.
LEMMA OpenedConcat ==
  ASSUME NEW CH, NL \in CH, NEW a \in Seq(Seq(CH)), NEW b \in Seq(Seq(CH))
  PROVE  a \o b \in Seq(Seq(CH)) /\ Opened(a \o b) = Opened(a) \o Opened(b)
  <1> DEFINE heads(lines) == [n \in DOMAIN lines |-> <<NL>> \o lines[n]]
  <1>1. a \o b \in Seq(Seq(CH)) /\ Len(a \o b) = Len(a) + Len(b)
    BY ConcatProperties
  <1>2. /\ heads(a) \in Seq(Seq(CH)) /\ Len(heads(a)) = Len(a)
        /\ heads(b) \in Seq(Seq(CH)) /\ Len(heads(b)) = Len(b)
        /\ heads(a \o b) \in Seq(Seq(CH)) /\ Len(heads(a \o b)) = Len(a \o b)
    BY <1>1, OpenedIs
  <1>3. /\ heads(a) \o heads(b) \in Seq(Seq(CH)) /\ Len(heads(a) \o heads(b)) = Len(a) + Len(b)
        /\ \A i \in 1 .. Len(a) + Len(b) :
             (heads(a) \o heads(b))[i] = IF i <= Len(a) THEN heads(a)[i] ELSE heads(b)[i - Len(a)]
    <2>. HIDE DEF heads
    <2>1. heads(a) \in Seq(Seq(CH)) /\ heads(b) \in Seq(Seq(CH))
      BY <1>2
    <2>2. /\ heads(a) \o heads(b) \in Seq(Seq(CH))
          /\ Len(heads(a) \o heads(b)) = Len(heads(a)) + Len(heads(b))
          /\ \A i \in 1 .. Len(heads(a)) + Len(heads(b)) :
               (heads(a) \o heads(b))[i] = IF i <= Len(heads(a)) THEN heads(a)[i] ELSE heads(b)[i - Len(heads(a))]
      BY <2>1, ConcatProperties
    <2>. QED
      BY <1>2, <2>2
  <1>4. \A i \in 1 .. Len(a) + Len(b) : (a \o b)[i] = IF i <= Len(a) THEN a[i] ELSE b[i - Len(a)]
    BY ConcatProperties
  <1>5. /\ Len(a) \in Nat /\ Len(b) \in Nat
        /\ DOMAIN a = 1 .. Len(a) /\ DOMAIN b = 1 .. Len(b) /\ DOMAIN (a \o b) = 1 .. Len(a) + Len(b)
    BY <1>1, LenProperties
  <1>6. ASSUME NEW i \in 1 .. Len(a) + Len(b) PROVE heads(a \o b)[i] = (heads(a) \o heads(b))[i]
    <2>1. heads(a \o b)[i] = <<NL>> \o (a \o b)[i]
      BY <1>5
    <2>2. CASE i <= Len(a)
      <3>1. i \in 1 .. Len(a)
        BY <1>5, <2>2
      <3>2. heads(a)[i] = <<NL>> \o a[i]
        BY <1>5, <3>1
      <3>. QED
        BY <1>3, <1>4, <2>1, <2>2, <3>2
    <2>3. CASE ~(i <= Len(a))
      <3>1. i - Len(a) \in 1 .. Len(b)
        BY <1>5, <2>3
      <3>2. heads(b)[i - Len(a)] = <<NL>> \o b[i - Len(a)]
        BY <1>5, <3>1
      <3>. QED
        BY <1>3, <1>4, <2>1, <2>3, <3>2
    <2>. QED
      BY <2>2, <2>3
  <1>. HIDE DEF heads
  <1>7. heads(a \o b) = heads(a) \o heads(b)
    <2>1. Len(heads(a \o b)) = Len(heads(a) \o heads(b))
      BY <1>1, <1>2, <1>3
    <2>2. \A i \in 1 .. Len(heads(a \o b)) : heads(a \o b)[i] = (heads(a) \o heads(b))[i]
      BY <1>1, <1>2, <1>6
    <2>. QED
      BY <1>2, <1>3, <2>1, <2>2, SeqEqual
  <1>8. FlattenSeq(heads(a) \o heads(b)) = FlattenSeq(heads(a)) \o FlattenSeq(heads(b))
    BY <1>2, FlattenConcat
  <1>. QED
    BY <1>1, <1>7, <1>8 DEF Opened, heads

\* One line, and none.
LEMMA OpenedOne ==
  ASSUME NEW CH, NL \in CH, NEW x \in Seq(CH)
  PROVE  /\ <<x>> \in Seq(Seq(CH)) /\ <<NL>> \o x \in Seq(CH)
         /\ Opened(<<x>>) = <<NL>> \o x
  <1>1. <<x>> \in Seq(Seq(CH)) /\ DOMAIN <<x>> = {1} /\ <<NL>> \in Seq(CH)
    OBVIOUS
  <1>2. <<NL>> \o x \in Seq(CH)
    BY <1>1, ConcatProperties
  <1>3. [n \in DOMAIN <<x>> |-> <<NL>> \o <<x>>[n]] = <<(<<NL>> \o x)>>
    OBVIOUS
  <1>4. FlattenSeq(<<(<<NL>> \o x)>>) = <<NL>> \o x
    BY <1>2, FlattenOne
  <1>. QED
    BY <1>1, <1>2, <1>3, <1>4 DEF Opened

LEMMA OpenedNone == Opened(<<>>) = <<>>
  <1>1. [n \in DOMAIN <<>> |-> <<NL>> \o <<>>[n]] = <<>>
    OBVIOUS
  <1>. QED
    BY <1>1, FlattenEmpty DEF Opened

(***************************************************************************)
(* A content with a break before it.                                       *)
(***************************************************************************)
IsOpened(CH, K, c) ==
  K \in Seq(CH) /\ Len(K) = Len(c) + 1 /\ K[1] = NL /\ \A i \in 1 .. Len(c) : K[i + 1] = c[i]

LEMMA OpenedContent ==
  ASSUME NEW CH, NL \in CH, NEW c \in Seq(CH)
  PROVE  IsOpened(CH, <<NL>> \o c, c)
  <1> DEFINE K == <<NL>> \o c
  <1>1. /\ <<NL>> \in Seq(CH) /\ Len(<<NL>>) = 1 /\ <<NL>>[1] = NL /\ Len(c) \in Nat
    OBVIOUS
  <1>2. /\ K \in Seq(CH) /\ Len(K) = 1 + Len(c)
        /\ \A i \in 1 .. 1 + Len(c) : K[i] = IF i <= 1 THEN <<NL>>[i] ELSE c[i - 1]
    BY <1>1, ConcatProperties
  <1>3. \A i \in 1 .. Len(c) : i + 1 \in 1 .. 1 + Len(c) /\ ~(i + 1 <= 1) /\ i + 1 - 1 = i
    BY <1>1
  <1>. HIDE DEF K
  <1>4. IsOpened(CH, K, c)
    BY <1>1, <1>2, <1>3 DEF IsOpened
  <1>. QED
    BY <1>4 DEF K

BreakJoins(c, K, b, m) ==
  /\ <<NL>> \o SubSeq(c, b + 1, b + m) = SubSeq(K, b + 1, b + m + 1)
  /\ SubSeq(K, 1, b) \o SubSeq(K, b + 1, b + m + 1) = SubSeq(K, 1, b + m + 1)

\* A part of a sequence is a sequence, as long as the part, with its elements.
LEMMA PartOf ==
  ASSUME NEW S, NEW s \in Seq(S), NEW b \in Nat, NEW m \in Nat, b + m <= Len(s)
  PROVE  /\ SubSeq(s, b + 1, b + m) \in Seq(S) /\ Len(SubSeq(s, b + 1, b + m)) = m
         /\ \A i \in 1 .. m : SubSeq(s, b + 1, b + m)[i] = s[b + i]
  BY PartIs

\* A break and the text behind it are next to each other.
LEMMA BreakThenText ==
  ASSUME NEW CH, NL \in CH, NEW c \in Seq(CH), NEW K, IsOpened(CH, K, c), NEW b \in Nat, NEW m \in Nat,
         b + m <= Len(c), K[b + 1] = NL
  PROVE  BreakJoins(c, K, b, m)
  <1> DEFINE t == SubSeq(c, b + 1, b + m)
             u == SubSeq(K, b + 1, b + m + 1)
  <1>1. t \in Seq(CH) /\ Len(t) = m /\ (\A i \in 1 .. m : t[i] = c[b + i] /\ b + i \in 1 .. Len(c))
    BY PartIs
  <1>0. Len(c) \in Nat
    OBVIOUS
  <1>2. K \in Seq(CH) /\ Len(K) = Len(c) + 1
    BY Zenon DEF IsOpened
  <1>a. \A i \in 1 .. Len(c) : K[i + 1] = c[i]
    BY Zenon DEF IsOpened
  <1>3. b + (m + 1) <= Len(K) /\ m + 1 \in Nat /\ b + (m + 1) = b + m + 1
    BY <1>0, <1>2
  <1>4. /\ SubSeq(K, b + 1, b + (m + 1)) \in Seq(CH) /\ Len(SubSeq(K, b + 1, b + (m + 1))) = m + 1
        /\ \A i \in 1 .. m + 1 : SubSeq(K, b + 1, b + (m + 1))[i] = K[b + i]
        /\ SubSeq(K, 1, b) \o SubSeq(K, b + 1, b + (m + 1)) = SubSeq(K, 1, b + (m + 1))
    <2> DEFINE n == m + 1
    <2>1. n \in Nat /\ b + n <= Len(K)
      BY <1>3
    <2>. HIDE DEF n
    <2>2. /\ SubSeq(K, b + 1, b + n) \in Seq(CH) /\ Len(SubSeq(K, b + 1, b + n)) = n
          /\ \A i \in 1 .. n : SubSeq(K, b + 1, b + n)[i] = K[b + i]
          /\ SubSeq(K, 1, b) \o SubSeq(K, b + 1, b + n) = SubSeq(K, 1, b + n)
      <3>1. K \in Seq(CH)
        BY <1>2
      <3>2. n \in Nat
        BY <2>1
      <3>3. b + n <= Len(K)
        BY <2>1
      <3>4. /\ SubSeq(K, b + 1, b + n) \in Seq(CH) /\ Len(SubSeq(K, b + 1, b + n)) = n
            /\ \A i \in 1 .. n : SubSeq(K, b + 1, b + n)[i] = K[b + i]
        BY <3>1, <3>2, <3>3, PartOf
      <3>5. SubSeq(K, 1, b) \o SubSeq(K, b + 1, b + n) = SubSeq(K, 1, b + n)
        BY <3>1, <3>2, <3>3, PartIs
      <3>. QED
        BY <3>4, <3>5
    <2>. QED
      BY <2>2 DEF n
  <1>5. u \in Seq(CH) /\ Len(u) = m + 1 /\ \A i \in 1 .. m + 1 : u[i] = K[b + i]
    BY <1>3, <1>4
  <1>6. SubSeq(K, 1, b) \o u = SubSeq(K, 1, b + m + 1)
    BY <1>3, <1>4
  <1>. HIDE DEF t, u
  <1>7. <<NL>> \in Seq(CH) /\ Len(<<NL>>) = 1 /\ <<NL>>[1] = NL
    OBVIOUS
  <1>8. /\ <<NL>> \o t \in Seq(CH) /\ Len(<<NL>> \o t) = 1 + m
        /\ \A i \in 1 .. 1 + m : (<<NL>> \o t)[i] = IF i <= 1 THEN <<NL>>[i] ELSE t[i - 1]
    BY <1>1, <1>7, ConcatProperties
  <1>. DEFINE nt == <<NL>> \o t
  <1>9. nt \in Seq(CH) /\ Len(nt) = 1 + m /\ nt[1] = NL /\ \A i \in 1 .. m : nt[i + 1] = t[i]
    <2>1. 1 \in 1 .. 1 + m /\ \A i \in 1 .. m : i + 1 \in 1 .. 1 + m /\ ~(i + 1 <= 1) /\ i + 1 - 1 = i
      OBVIOUS
    <2>. QED
      BY <1>7, <1>8, <2>1
  <1>. HIDE DEF nt
  <1>10. ASSUME NEW i \in 1 .. 1 + m PROVE nt[i] = u[i]
    <2>1. CASE i = 1
      BY <1>5, <1>9, <2>1
    <2>2. CASE i # 1
      <3>1. PICK j \in 1 .. m : i = j + 1
        <4>1. i - 1 \in 1 .. m /\ i = (i - 1) + 1
          BY <2>2
        <4>. QED
          BY <4>1
      <3>2. nt[i] = c[b + j] /\ b + j \in 1 .. Len(c)
        BY <1>1, <1>9, <3>1
      <3>3. K[b + j + 1] = c[b + j]
        BY <1>a, <3>2
      <3>4. u[i] = K[b + i] /\ b + i = b + j + 1
        BY <1>5, <3>1
      <3>. QED
        BY <3>2, <3>3, <3>4
    <2>. QED
      BY <2>1, <2>2
  <1>11. nt = u
    BY <1>5, <1>9, <1>10, SeqEqual
  <1>. QED
    BY <1>6, <1>11 DEF nt, t, u, BreakJoins

(***************************************************************************)
(* A line and the break that opens it lie together in a content that       *)
(* begins with a break.                                                    *)
(***************************************************************************)
LEMMA BreakAndText ==
  ASSUME NEW CH, NL \in CH, NEW c \in Seq(CH), NEW K, IsOpened(CH, K, c), NEW E, IsEnds(E, c),
         NEW n \in 1 .. Len(E), NEW m \in Nat, NEW b, b = Before(E, n - 1), b + m < E[n]
  PROVE  b \in Nat /\ b + m <= Len(c) /\ BreakJoins(c, K, b, m)
  <1>1. Len(c) \in Nat /\ Len(E) \in Nat /\ E[n] \in 1 .. Len(c) + 1 /\ n \in Nat /\ n # 0
    BY DEF IsEnds
  <1>2. b \in 0 .. Len(c) + 1 /\ n - 1 \in 0 .. Len(E)
    BY BeforeIs
  <1>3. b \in Nat /\ b + m <= Len(c)
    BY <1>1, <1>2
  <1>4. K[b + 1] = NL
    <2>1. CASE n - 1 = 0
      BY <2>1 DEF Before, IsOpened
    <2>2. CASE n - 1 # 0
      <3>1. n - 1 \in 1 .. Len(E) - 1 /\ b = E[n - 1]
        BY <1>1, <2>2 DEF Before
      <3>2. c[b] = NL /\ b \in 1 .. Len(c) + 1
        BY <3>1 DEF IsEnds
      <3>3. b \in 1 .. Len(c)
        BY <1>1, <1>3, <3>2
      <3>. QED
        BY <3>2, <3>3 DEF IsOpened
    <2>. QED
      BY <2>1, <2>2
  <1>5. BreakJoins(c, K, b, m)
    BY <1>3, <1>4, BreakThenText
  <1>. QED
    BY <1>3, <1>5

\* The first n lines stand for what comes before the end of the last of them.
LEMMA OpenedFront ==
  ASSUME NEW CH, NL \in CH, NEW c \in Seq(CH), NEW E, NEW L, AreLines(CH, c, E, L),
         NEW K, IsOpened(CH, K, c), NEW n \in 0 .. Len(L)
  PROVE  Opened(SubSeq(L, 1, n)) = SubSeq(K, 1, Before(E, n))
  <1> DEFINE Good(m) == Opened(SubSeq(L, 1, m)) = SubSeq(K, 1, Before(E, m))
             Bad == {m \in 0 .. Len(L) : ~Good(m)}
  <1>1. IsEnds(E, c)
    BY DEF AreLines
  <1>2. /\ L \in Seq(Seq(CH)) /\ Len(L) = Len(E) /\ Len(L) \in Nat
        /\ \A m \in 1 .. Len(E) :
             /\ L[m] = SubSeq(c, Before(E, m - 1) + 1, E[m] - 1)
             /\ Len(L[m]) = E[m] - 1 - Before(E, m - 1)
    BY DEF AreLines
  <1>. HIDE DEF Good
  <1>3. ASSUME NEW m \in Bad, \A k \in Bad : m <= k PROVE FALSE
    <2>1. m \in 0 .. Len(L) /\ ~Good(m)
      OBVIOUS
    <2>2. CASE m = 0
      <3>1. SubSeq(L, 1, 0) = <<>> /\ SubSeq(K, 1, 0) = <<>>
        BY SubSeqEmpty
      <3>. QED
        BY <2>1, <2>2, <3>1, OpenedNone DEF Good, Before
    <2>3. CASE m # 0
      <3>1. m \in 1 .. Len(L) /\ m - 1 \in 0 .. Len(L) /\ ~(m <= m - 1) /\ m \in 1 .. Len(E)
        BY <1>2, <2>1, <2>3
      <3>2. Good(m - 1)
        BY <1>3, <3>1
      <3> DEFINE b == Before(E, m - 1)
                 k == E[m] - 1 - b
                 front == SubSeq(L, 1, m - 1)
      <3>3. /\ \A l \in 0 .. Len(E) : Before(E, l) \in 0 .. Len(c) + 1
            /\ \A l \in 1 .. Len(E) : l - 1 \in 0 .. Len(E) /\ Before(E, l) = E[l] /\ Before(E, l - 1) < E[l]
        BY <1>1, BeforeIs
      <3>4. b \in Nat /\ k \in Nat /\ b + k < E[m] /\ b + k = E[m] - 1 /\ b + k + 1 = E[m] /\ Before(E, m) = E[m]
        <4>1. E[m] \in 1 .. Len(c) + 1 /\ Len(c) \in Nat
          BY <1>1, <3>1 DEF IsEnds
        <4>2. b \in 0 .. Len(c) + 1 /\ b < E[m] /\ Before(E, m) = E[m]
          BY <1>2, <3>1, <3>3
        <4>. HIDE DEF b
        <4>. QED
          BY <4>1, <4>2
      <3>. HIDE DEF k
      <3>5. /\ <<NL>> \o SubSeq(c, b + 1, b + k) = SubSeq(K, b + 1, b + k + 1)
            /\ SubSeq(K, 1, b) \o SubSeq(K, b + 1, b + k + 1) = SubSeq(K, 1, b + k + 1)
        <4>1. b = Before(E, m - 1)
          OBVIOUS
        <4>. HIDE DEF b
        <4>2. BreakJoins(c, K, b, k)
          BY <1>1, <3>1, <3>4, <4>1, BreakAndText
        <4>. QED
          BY <4>2 DEF BreakJoins
      <3>6. /\ front \in Seq(Seq(CH)) /\ L[m] \in Seq(CH)
            /\ SubSeq(L, 1, m) = Append(front, L[m])
        BY <1>2, <3>1, FrontAndLast
      <3>. HIDE DEF front
      <3>7. Append(front, L[m]) = front \o <<L[m]>> /\ <<L[m]>> \in Seq(Seq(CH))
        BY <3>6, AppendIsConcat
      <3>8. Opened(front \o <<L[m]>>) = Opened(front) \o Opened(<<L[m]>>)
        BY <3>6, <3>7, OpenedConcat
      <3>9. Opened(<<L[m]>>) = <<NL>> \o L[m]
        BY <3>6, OpenedOne
      <3>10. Opened(front) = SubSeq(K, 1, b)
        BY <3>2 DEF Good, front
      <3>11. L[m] = SubSeq(c, b + 1, b + k)
        BY <1>2, <3>1, <3>4
      <3>12. Opened(SubSeq(L, 1, m)) = SubSeq(K, 1, b + k + 1)
        BY <3>5, <3>6, <3>7, <3>8, <3>9, <3>10, <3>11
      <3>. QED
        BY <2>1, <3>4, <3>12 DEF Good
    <2>. QED
      BY <2>2, <2>3
  <1>4. Bad = {}
    <2>1. Bad \in SUBSET Nat
      BY <1>2
    <2>. HIDE DEF Bad
    <2>. QED
      BY <1>3, <2>1, LeastElement
  <1>5. Good(n)
    BY <1>4
  <1>. QED
    BY <1>5 DEF Good

(***************************************************************************)
(* The lines of a content stand for that content.                          *)
(***************************************************************************)
LEMMA OpenedSplit ==
  ASSUME NEW CH, NL \in CH, NEW c \in Seq(CH), NEW E, NEW L, AreLines(CH, c, E, L),
         NEW K, IsOpened(CH, K, c)
  PROVE  Opened(L) = K
  <1>1. IsEnds(E, c) /\ L \in Seq(Seq(CH)) /\ Len(L) = Len(E) /\ K \in Seq(CH) /\ Len(K) = Len(c) + 1
    BY DEF AreLines, IsOpened
  <1>2. Len(L) \in 0 .. Len(L) /\ Len(L) # 0 /\ Before(E, Len(L)) = Len(c) + 1
    BY <1>1 DEF IsEnds, Before
  <1>3. Opened(SubSeq(L, 1, Len(L))) = SubSeq(K, 1, Before(E, Len(L)))
    BY <1>2, OpenedFront
  <1>4. SubSeq(L, 1, Len(L)) = L /\ SubSeq(K, 1, Len(K)) = K
    BY <1>1, SubSeqFull
  <1>. QED
    BY <1>1, <1>2, <1>3, <1>4

(***************************************************************************)
(* A position splits what the lines stand for.                             *)
(***************************************************************************)
PosIn(lines, p) == p.line < Len(lines) /\ p.char <= Len(lines[p.line + 1])
Upto(lines, p) == Opened(SubSeq(lines, 1, p.line)) \o (<<NL>> \o SubSeq(lines[p.line + 1], 1, p.char))
After(lines, p) ==
  SubSeq(lines[p.line + 1], p.char + 1, Len(lines[p.line + 1])) \o Opened(SubSeq(lines, p.line + 2, Len(lines)))

\* The parts of the lines around a position: a and b lines, x and y of one line.
AreAround(CH, lines, p, a, x, y, b) ==
  /\ a = SubSeq(lines, 1, p.line) /\ b = SubSeq(lines, p.line + 2, Len(lines))
  /\ x = SubSeq(lines[p.line + 1], 1, p.char)
  /\ y = SubSeq(lines[p.line + 1], p.char + 1, Len(lines[p.line + 1]))
  /\ a \in Seq(Seq(CH)) /\ b \in Seq(Seq(CH)) /\ x \in Seq(CH) /\ y \in Seq(CH)
  /\ x \o y = lines[p.line + 1] /\ Len(x) = p.char
  /\ Len(a) = p.line /\ Len(b) = Len(lines) - p.line - 1
  /\ <<lines[p.line + 1]>> \in Seq(Seq(CH))
  /\ lines = a \o (<<lines[p.line + 1]>> \o b)

\* Line l of n, counted from 0.
LEMMA LineNumber ==
  ASSUME NEW l \in Nat, NEW n \in Nat, l < n
  PROVE  l + 1 \in 1 .. n /\ l \in 0 .. n /\ l + 1 \in 0 .. n
         /\ (l + 1) - 1 = l /\ l + 1 + 1 = l + 2 /\ n - (l + 1) = n - l - 1
  OBVIOUS

\* Every position of the lines has such parts.
LEMMA AroundPosition ==
  ASSUME NEW CH, NEW lines \in Seq(Seq(CH)), NEW p \in Position, PosIn(lines, p)
  PROVE  \E a, x, y, b : AreAround(CH, lines, p, a, x, y, b)
  <1> DEFINE a == SubSeq(lines, 1, p.line)
             b == SubSeq(lines, p.line + 2, Len(lines))
             line == lines[p.line + 1]
             x == SubSeq(line, 1, p.char)
             y == SubSeq(line, p.char + 1, Len(line))
             i == p.line + 1
  <1>1. p.line \in Nat /\ p.char \in Nat /\ Len(lines) \in Nat
    BY DEF Position
  <1>2. i \in 1 .. Len(lines) /\ i - 1 = p.line /\ i + 1 = p.line + 2 /\ line \in Seq(CH)
    <2>1. p.line < Len(lines)
      BY DEF PosIn
    <2>2. i \in 1 .. Len(lines) /\ i - 1 = p.line /\ i + 1 = p.line + 2
      <3> DEFINE l == p.line
                 n == Len(lines)
      <3>1. l \in Nat /\ n \in Nat /\ l < n
        BY <1>1, <2>1
      <3>. HIDE DEF l, n
      <3>2. l + 1 \in 1 .. n /\ (l + 1) - 1 = l /\ l + 1 + 1 = l + 2
        BY <3>1, LineNumber
      <3>. QED
        BY <3>2, Zenon DEF l, n
    <2>3. \A k \in 1 .. Len(lines) : lines[k] \in Seq(CH)
      OBVIOUS
    <2>. QED
      BY <2>2, <2>3
  <1>3. p.char \in 0 .. Len(line)
    BY <1>1, <1>2 DEF PosIn
  <1>4. /\ SubSeq(lines, 1, i - 1) \in Seq(Seq(CH)) /\ <<line>> \in Seq(Seq(CH))
        /\ SubSeq(lines, i + 1, Len(lines)) \in Seq(Seq(CH))
        /\ lines = SubSeq(lines, 1, i - 1) \o (<<line>> \o SubSeq(lines, i + 1, Len(lines)))
    <2>. HIDE DEF i
    <2>1. line = lines[i]
      BY DEF i
    <2>. HIDE DEF line
    <2>2. /\ SubSeq(lines, 1, i - 1) \in Seq(Seq(CH)) /\ <<lines[i]>> \in Seq(Seq(CH))
          /\ SubSeq(lines, i + 1, Len(lines)) \in Seq(Seq(CH))
          /\ lines = SubSeq(lines, 1, i - 1) \o (<<lines[i]>> \o SubSeq(lines, i + 1, Len(lines)))
      <3>1. i \in 1 .. Len(lines)
        BY <1>2
      <3>. QED
        BY <3>1, Around
    <2>. QED
      BY <2>1, <2>2
  <1>5. /\ x \in Seq(CH) /\ y \in Seq(CH) /\ Len(x) = p.char /\ x \o y = line
    <2>. HIDE DEF line
    <2>. QED
      BY <1>2, <1>3, TwoParts
  <1>6. Len(a) = p.line
    <2>1. p.line \in 0 .. Len(lines)
      BY <1>1, <1>2
    <2>. QED
      BY <2>1, TwoParts
  <1>7. Len(b) = Len(lines) - p.line - 1
    <2>1. i \in 0 .. Len(lines)
      BY <1>1, <1>2
    <2>2. Len(SubSeq(lines, i + 1, Len(lines))) = Len(lines) - i
      <3>. HIDE DEF i
      <3>. QED
        BY <2>1, TwoParts
    <2>. QED
      BY <1>1, <1>2, <2>2
  <1>8. /\ a \in Seq(Seq(CH)) /\ b \in Seq(Seq(CH)) /\ lines = a \o (<<line>> \o b)
    BY <1>2, <1>4
  <1>9. AreAround(CH, lines, p, a, x, y, b)
    <2>1. <<line>> \in Seq(Seq(CH))
      BY <1>4
    <2>. QED
      BY <1>5, <1>6, <1>7, <1>8, <2>1, Zenon DEF AreAround
  <1>. QED
    BY <1>9

\* What comes before a position and what comes after it are everything.
LEMMA Halves ==
  ASSUME NEW CH, NL \in CH, NEW lines \in Seq(Seq(CH)), NEW p \in Position, PosIn(lines, p)
  PROVE  /\ Upto(lines, p) \in Seq(CH) /\ After(lines, p) \in Seq(CH)
         /\ Opened(lines) = Upto(lines, p) \o After(lines, p)
  <1>1. PICK a, x, y, b : AreAround(CH, lines, p, a, x, y, b)
    BY AroundPosition
  <1> DEFINE oa == Opened(a)
             ob == Opened(b)
             n == <<NL>>
             line == lines[p.line + 1]
  <1>2. /\ a \in Seq(Seq(CH)) /\ b \in Seq(Seq(CH)) /\ x \in Seq(CH) /\ y \in Seq(CH)
        /\ <<line>> \in Seq(Seq(CH))
        /\ x \o y = line /\ lines = a \o (<<line>> \o b)
    BY <1>1, Zenon DEF AreAround
  <1>3. Upto(lines, p) = oa \o (n \o x) /\ After(lines, p) = y \o ob
    BY <1>1, Zenon DEF AreAround, Upto, After
  <1>4. oa \in Seq(CH) /\ ob \in Seq(CH) /\ n \in Seq(CH)
    <2>1. oa \in Seq(CH) /\ ob \in Seq(CH)
      BY <1>2, OpenedIs
    <2>. QED
      BY <2>1
  <1>5. Opened(lines) = oa \o ((n \o (x \o y)) \o ob)
    <2>1. <<line>> \o b \in Seq(Seq(CH)) /\ Opened(<<line>> \o b) = Opened(<<line>>) \o ob
      <3>. HIDE DEF line
      <3>. QED
        BY <1>2, OpenedConcat
    <2>2. x \o y \in Seq(CH)
      BY <1>2, RegroupsAll, Zenon
    <2>3. line \in Seq(CH)
      BY <1>2, <2>2
    <2>4. Opened(<<line>>) = n \o line
      <3>. HIDE DEF line
      <3>. QED
        BY <2>3, OpenedOne
    <2> DEFINE rest == <<line>> \o b
    <2>. HIDE DEF rest, line
    <2>5. Opened(a \o rest) = oa \o Opened(rest)
      <3>1. rest \in Seq(Seq(CH))
        BY <2>1 DEF rest
      <3>. QED
        BY <1>2, <3>1, OpenedConcat
    <2>. QED
      BY <1>2, <2>1, <2>4, <2>5, Zenon DEF rest
  <1>. HIDE DEF oa, ob, n
  <1>6. oa \o ((n \o (x \o y)) \o ob) = (oa \o (n \o x)) \o (y \o ob)
    <2>1. SameHalves(oa, n, x, y, ob)
      BY <1>2, <1>4, Regrouped
    <2>. QED
      BY <2>1 DEF SameHalves
  <1>7. oa \o (n \o x) \in Seq(CH) /\ y \o ob \in Seq(CH)
    <2>1. n \o x \in Seq(CH) /\ y \o ob \in Seq(CH)
      BY <1>2, <1>4, RegroupsAll, Zenon
    <2>. QED
      BY <1>4, <2>1, RegroupsAll, Zenon
  <1>. QED
    BY <1>3, <1>5, <1>6, <1>7, Zenon

(***************************************************************************)
(* An edit in range: what comes before it, its text, and what comes after. *)
(***************************************************************************)
LEMMA EditIs ==
  ASSUME NEW CH, NL \in CH, NEW lines \in Seq(Seq(CH)), NEW e \in TextEdit(CH), InRange(lines, e)
  PROVE  /\ PosIn(lines, e.from) /\ PosIn(lines, e.to)
         /\ ApplyEdit(lines, e) \in Seq(Seq(CH))
         /\ Opened(ApplyEdit(lines, e)) = Upto(lines, e.from) \o (e.text \o After(lines, e.to))
  <1>1. PosIn(lines, e.from) /\ PosIn(lines, e.to)
    BY DEF InRange, PosIn
  <1>2. e.from \in Position /\ e.to \in Position /\ e.text \in Seq(CH)
    BY DEF TextEdit
  <1>3. PICK a, x, u, v : AreAround(CH, lines, e.from, a, x, u, v)
    BY <1>1, <1>2, AroundPosition
  <1>4. PICK w, z, y, b : AreAround(CH, lines, e.to, w, z, y, b)
    BY <1>1, <1>2, AroundPosition
  <1> DEFINE oa == Opened(a)
             ob == Opened(b)
             n == <<NL>>
             t == e.text
             line == (x \o t) \o y
             aline == a \o <<line>>
  <1>5. a \in Seq(Seq(CH)) /\ x \in Seq(CH) /\ Upto(lines, e.from) = oa \o (n \o x)
    BY <1>3, Zenon DEF AreAround, Upto
  <1>6. b \in Seq(Seq(CH)) /\ y \in Seq(CH) /\ After(lines, e.to) = y \o ob
    BY <1>4, Zenon DEF AreAround, After
  <1>7. t \in Seq(CH)
    BY <1>2
  <1>8. ApplyEdit(lines, e) = aline \o b
    <2>1. /\ a = SubSeq(lines, 1, e.from.line) /\ b = SubSeq(lines, e.to.line + 2, Len(lines))
          /\ x = SubSeq(lines[e.from.line + 1], 1, e.from.char)
          /\ y = SubSeq(lines[e.to.line + 1], e.to.char + 1, Len(lines[e.to.line + 1]))
      BY <1>3, <1>4, Zenon DEF AreAround
    <2>. QED
      BY <2>1, Zenon DEF ApplyEdit
  <1>9. oa \in Seq(CH) /\ ob \in Seq(CH) /\ n \in Seq(CH)
    <2>1. oa \in Seq(CH) /\ ob \in Seq(CH)
      BY <1>5, <1>6, OpenedIs
    <2>. QED
      BY <2>1
  <1>. HIDE DEF t
  <1>10. line \in Seq(CH)
    <2>1. x \o t \in Seq(CH)
      BY <1>5, <1>7, RegroupsAll, Zenon
    <2>. QED
      BY <1>6, <2>1, RegroupsAll, Zenon
  <1>. HIDE DEF line
  <1>11. <<line>> \in Seq(Seq(CH)) /\ Opened(<<line>>) = n \o line
    BY <1>10, OpenedOne
  <1>12. aline \in Seq(Seq(CH)) /\ Opened(aline) = oa \o (n \o line)
    <2>1. aline \in Seq(Seq(CH)) /\ Opened(aline) = oa \o Opened(<<line>>)
      BY <1>5, <1>11, OpenedConcat
    <2>. QED
      BY <1>11, <2>1, Zenon
  <1>. HIDE DEF aline
  <1>13. aline \o b \in Seq(Seq(CH)) /\ Opened(aline \o b) = Opened(aline) \o ob
    BY <1>6, <1>12, OpenedConcat
  <1>. HIDE DEF oa, ob, n
  <1>14. (oa \o (n \o ((x \o t) \o y))) \o ob = (oa \o (n \o x)) \o (t \o (y \o ob))
    <2>1. SameAround(oa, n, x, t, y, ob)
      BY <1>5, <1>6, <1>7, <1>9, Regrouped
    <2>. QED
      BY <2>1 DEF SameAround
  <1>15. Opened(ApplyEdit(lines, e)) = Upto(lines, e.from) \o (t \o After(lines, e.to))
    BY <1>5, <1>6, <1>8, <1>12, <1>13, <1>14, Zenon DEF line
  <1>. QED
    BY <1>1, <1>8, <1>13, <1>15, Zenon DEF t

\* Any edit leaves lines.
LEMMA EditKeepsLines ==
  ASSUME NEW CH, NL \in CH, NEW lines \in Seq(Seq(CH)), NEW e \in TextEdit(CH)
  PROVE  ApplyEdit(lines, e) \in Seq(Seq(CH))
  <1>1. CASE InRange(lines, e)
    BY <1>1, EditIs
  <1>2. CASE ~InRange(lines, e)
    BY <1>2 DEF ApplyEdit
  <1>. QED
    BY <1>1, <1>2

(***************************************************************************)
(* Lines that are the same up to a position.                               *)
(***************************************************************************)
Same(M, L, q) ==
  /\ PosIn(M, q) /\ PosIn(L, q)
  /\ \A n \in 1 .. q.line : M[n] = L[n]
  /\ \A i \in 1 .. q.char : M[q.line + 1][i] = L[q.line + 1][i]

LEMMA SameBefore ==
  ASSUME NEW M, NEW L, NEW q \in Position, Same(M, L, q), NEW p \in Position, ~Earlier(q, p),
         Len(M) \in Nat, Len(L) \in Nat, Len(M[q.line + 1]) \in Nat, Len(L[q.line + 1]) \in Nat
  PROVE  /\ PosIn(M, p) <=> PosIn(L, p)
         /\ PosIn(L, p) => Same(M, L, p)
  <1>1. p.line \in Nat /\ p.char \in Nat /\ q.line \in Nat /\ q.char \in Nat
    BY DEF Position
  <1>2. CASE p.line < q.line
    <2>1. p.line + 1 \in 1 .. q.line /\ p.line < Len(M) /\ p.line < Len(L)
      BY <1>1, <1>2 DEF Same, PosIn
    <2>2. M[p.line + 1] = L[p.line + 1]
      BY <2>1 DEF Same
    <2>3. \A n \in 1 .. p.line : n \in 1 .. q.line
      BY <1>1, <1>2
    <2>. QED
      BY <2>1, <2>2, <2>3 DEF Same, PosIn
  <1>3. CASE p.line = q.line /\ p.char <= q.char
    <2>1. \A i \in 1 .. p.char : i \in 1 .. q.char
      BY <1>1, <1>3
    <2>2. p.line < Len(M) /\ p.line < Len(L) /\ p.char <= Len(M[p.line + 1]) /\ p.char <= Len(L[p.line + 1])
      BY <1>1, <1>3 DEF Same, PosIn
    <2>3. PosIn(M, p) /\ PosIn(L, p)
      BY <2>2 DEF PosIn
    <2>4. \A i \in 1 .. p.char : M[p.line + 1][i] = L[p.line + 1][i]
      BY <1>3, <2>1 DEF Same
    <2>5. \A n \in 1 .. p.line : M[n] = L[n]
      BY <1>3 DEF Same
    <2>. QED
      BY <2>3, <2>4, <2>5 DEF Same
  <1>4. p.line < q.line \/ (p.line = q.line /\ p.char <= q.char)
    BY <1>1 DEF Earlier
  <1>. QED
    BY <1>2, <1>3, <1>4

\* The same up to a position, through a third list of lines.
LEMMA SameThrough ==
  ASSUME NEW M, NEW L, NEW R, NEW q \in Position, Same(R, M, q), Same(M, L, q)
  PROVE  Same(R, L, q)
  BY DEF Same

\* Lines are the same as themselves.
LEMMA SameLines ==
  ASSUME NEW CH, NEW L \in Seq(Seq(CH)), NEW q \in Position, PosIn(L, q)
  PROVE  Same(L, L, q)
  BY DEF Same

\* What comes before the position is the same.
LEMMA SameUpto ==
  ASSUME NEW CH, NEW M \in Seq(Seq(CH)), NEW L \in Seq(Seq(CH)), NEW q \in Position, Same(M, L, q)
  PROVE  Upto(M, q) = Upto(L, q)
  <1> DEFINE l == q.line
             k == q.char
             m == M[l + 1]
             n == L[l + 1]
  <1>1. l \in Nat /\ k \in Nat /\ Len(M) \in Nat /\ Len(L) \in Nat
    BY DEF Position
  <1>2. l < Len(M) /\ l < Len(L) /\ k <= Len(m) /\ k <= Len(n)
    BY DEF Same, PosIn
  <1>3. /\ \A i \in 1 .. l : M[i] = L[i]
        /\ \A i \in 1 .. k : m[i] = n[i]
    BY DEF Same
  <1>. HIDE DEF l, k
  <1>4. l + 1 \in 1 .. Len(M) /\ l + 1 \in 1 .. Len(L) /\ l \in 0 .. Len(M) /\ l \in 0 .. Len(L)
    BY <1>1, <1>2, LineNumber
  <1>5. m \in Seq(CH) /\ n \in Seq(CH)
    BY <1>4
  <1>. HIDE DEF m, n
  <1>6. k \in 0 .. Len(m) /\ k \in 0 .. Len(n)
    BY <1>1, <1>2, <1>5
  <1>7. SubSeq(M, 1, l) = SubSeq(L, 1, l)
    <2>1. /\ SubSeq(M, 1, l) \in Seq(Seq(CH)) /\ Len(SubSeq(M, 1, l)) = l
          /\ \A i \in 1 .. l : SubSeq(M, 1, l)[i] = M[i]
      BY <1>4, TwoParts
    <2>2. /\ SubSeq(L, 1, l) \in Seq(Seq(CH)) /\ Len(SubSeq(L, 1, l)) = l
          /\ \A i \in 1 .. l : SubSeq(L, 1, l)[i] = L[i]
      BY <1>4, TwoParts
    <2>. QED
      BY <1>3, <2>1, <2>2, SeqEqual
  <1>8. SubSeq(m, 1, k) = SubSeq(n, 1, k)
    <2>1. /\ SubSeq(m, 1, k) \in Seq(CH) /\ Len(SubSeq(m, 1, k)) = k
          /\ \A i \in 1 .. k : SubSeq(m, 1, k)[i] = m[i]
      BY <1>5, <1>6, TwoParts
    <2>2. /\ SubSeq(n, 1, k) \in Seq(CH) /\ Len(SubSeq(n, 1, k)) = k
          /\ \A i \in 1 .. k : SubSeq(n, 1, k)[i] = n[i]
      BY <1>5, <1>6, TwoParts
    <2>. QED
      BY <1>3, <2>1, <2>2, SeqEqual
  <1>. QED
    BY <1>7, <1>8 DEF Upto, l, k, m, n

(***************************************************************************)
(* An edit changes nothing before its beginning.                           *)
(***************************************************************************)
LEMMA SameEdited ==
  ASSUME NEW CH, NEW M \in Seq(Seq(CH)), NEW e \in TextEdit(CH), InRange(M, e)
  PROVE  Same(ApplyEdit(M, e), M, e.from)
  <1>1. PosIn(M, e.from) /\ PosIn(M, e.to)
    BY DEF InRange, PosIn
  <1>2. e.from \in Position /\ e.to \in Position /\ e.text \in Seq(CH)
    BY DEF TextEdit
  <1>3. PICK a, x, u, v : AreAround(CH, M, e.from, a, x, u, v)
    BY <1>1, <1>2, AroundPosition
  <1>4. PICK w, z, y, b : AreAround(CH, M, e.to, w, z, y, b)
    BY <1>1, <1>2, AroundPosition
  <1> DEFINE t == e.text
             line == (x \o t) \o y
             aline == a \o <<line>>
             l == e.from.line
             k == e.from.char
  <1>5. /\ a \in Seq(Seq(CH)) /\ x \in Seq(CH) /\ u \in Seq(CH) /\ Len(x) = k /\ Len(a) = l
        /\ a = SubSeq(M, 1, l) /\ x \o u = M[l + 1]
    BY <1>3, Zenon DEF AreAround
  <1>6. b \in Seq(Seq(CH)) /\ y \in Seq(CH)
    BY <1>4, Zenon DEF AreAround
  <1>7. l \in Nat /\ k \in Nat /\ t \in Seq(CH) /\ l < Len(M) /\ Len(M) \in Nat
    BY <1>1, <1>2 DEF Position, PosIn
  <1>8. ApplyEdit(M, e) = aline \o b
    <2>1. /\ a = SubSeq(M, 1, l) /\ b = SubSeq(M, e.to.line + 2, Len(M))
          /\ x = SubSeq(M[l + 1], 1, k)
          /\ y = SubSeq(M[e.to.line + 1], e.to.char + 1, Len(M[e.to.line + 1]))
      BY <1>3, <1>4, Zenon DEF AreAround
    <2>. QED
      BY <2>1, Zenon DEF ApplyEdit
  <1>. HIDE DEF l, k, t
  <1>9. l + 1 \in 1 .. Len(M) /\ l \in 0 .. Len(M)
    BY <1>7, LineNumber
  <1>10. \A i \in 1 .. l : a[i] = M[i]
    <2>1. \A i \in 1 .. l : SubSeq(M, 1, l)[i] = M[i]
      BY <1>9, TwoParts
    <2>. QED
      BY <1>5, <2>1, Zenon
  <1>11. IsFront(x, M[l + 1])
    <2>1. IsFront(x, x \o u)
      BY <1>5, FrontOfConcat
    <2>. QED
      BY <1>5, <2>1
  <1>12. line \in Seq(CH) /\ IsFront(x, line)
    <2> DEFINE xt == x \o t
    <2>1. IsFront(x, xt) /\ xt \in Seq(CH)
      BY <1>5, <1>7, FrontOfConcat
    <2>. HIDE DEF xt
    <2>2. IsFront(xt, xt \o y) /\ xt \o y \in Seq(CH)
      BY <1>6, <2>1, FrontOfConcat
    <2>3. line = xt \o y
      BY DEF xt
    <2>. HIDE DEF line
    <2>4. IsFront(x, line)
      BY <1>5, <2>1, <2>2, <2>3, FrontOfFront
    <2>. QED
      BY <2>2, <2>3, <2>4
  <1>. HIDE DEF line
  <1>13. /\ aline \in Seq(Seq(CH)) /\ Len(aline) = l + 1 /\ IsFront(a, aline) /\ aline[l + 1] = line
    <2>1. aline \in Seq(Seq(CH)) /\ IsFront(a, aline)
      <3>1. <<line>> \in Seq(Seq(CH))
        BY <1>12
      <3>. QED
        BY <1>5, <3>1, FrontOfConcat
    <2>2. aline = Append(a, line)
      BY <1>5, <1>12, AppendIsConcat
    <2>3. Len(aline) = Len(a) + 1 /\ aline[Len(a) + 1] = line
      <3>. HIDE DEF aline
      <3>. QED
        BY <1>5, <1>12, <2>2, AppendProperties
    <2>. QED
      BY <1>5, <2>1, <2>3
  <1>. HIDE DEF aline
  <1> DEFINE R == aline \o b
  <1>14. R \in Seq(Seq(CH)) /\ IsFront(aline, R)
    BY <1>6, <1>13, FrontOfConcat
  <1>. HIDE DEF R
  <1>15. /\ Len(R) \in Nat /\ l < Len(R) /\ (\A i \in 1 .. l : R[i] = M[i]) /\ R[l + 1] = line
    <2>1. Len(R) \in Nat /\ l + 1 \in 1 .. l + 1 /\ \A i \in 1 .. l : i \in 1 .. l + 1
      BY <1>7, <1>14
    <2>2. l + 1 <= Len(R) /\ \A i \in 1 .. l + 1 : R[i] = aline[i]
      BY <1>13, <1>14 DEF IsFront
    <2>3. l < Len(R)
      BY <1>7, <2>1, <2>2
    <2>4. \A i \in 1 .. l : aline[i] = a[i]
      BY <1>5, <1>13 DEF IsFront
    <2>. QED
      BY <1>10, <1>13, <2>1, <2>2, <2>3, <2>4
  <1>16. (\A i \in 1 .. k : R[l + 1][i] = M[l + 1][i]) /\ k <= Len(R[l + 1])
    BY <1>5, <1>11, <1>12, <1>15 DEF IsFront
  <1>17. R = ApplyEdit(M, e)
    BY <1>8, Zenon DEF R
  <1>18. PosIn(R, e.from)
    BY <1>15, <1>16, Zenon DEF PosIn, l, k
  <1>. QED
    BY <1>1, <1>15, <1>16, <1>17, <1>18, Zenon DEF Same, l, k

(***************************************************************************)
(* Positions in the lines of a content and places in that content.         *)
(***************************************************************************)
LEMMA OffsetIs ==
  ASSUME NEW CH, NEW c \in Seq(CH), NEW E, NEW L, AreLines(CH, c, E, L), NEW p \in Position, PosIn(L, p)
  PROVE  /\ p.line + 1 \in 1 .. Len(E) /\ p.char \in Nat /\ Len(c) \in Nat
         /\ Before(E, p.line) \in Nat /\ Before(E, p.line) + p.char < E[p.line + 1]
         /\ p.char <= Len(L[p.line + 1])
         /\ L[p.line + 1] = SubSeq(c, Before(E, p.line) + 1, E[p.line + 1] - 1)
         /\ Len(L[p.line + 1]) = E[p.line + 1] - 1 - Before(E, p.line)
         /\ E[p.line + 1] \in 1 .. Len(c) + 1 /\ Before(E, p.line) < E[p.line + 1]
         /\ Offset(E, p) \in 0 .. Len(c)
  <1> DEFINE l == p.line
             k == p.char
             b == Before(E, l)
             e == E[l + 1]
  <1>1. l \in Nat /\ k \in Nat /\ l < Len(L) /\ k <= Len(L[l + 1])
    BY DEF Position, PosIn
  <1>2. /\ IsEnds(E, c) /\ Len(L) = Len(E) /\ Len(L) \in Nat
        /\ \A n \in 1 .. Len(E) :
             /\ L[n] = SubSeq(c, Before(E, n - 1) + 1, E[n] - 1)
             /\ Len(L[n]) = E[n] - 1 - Before(E, n - 1)
    BY DEF AreLines
  <1>3. /\ \A n \in 0 .. Len(E) : Before(E, n) \in 0 .. Len(c) + 1
        /\ \A n \in 1 .. Len(E) : n - 1 \in 0 .. Len(E) /\ Before(E, n) = E[n] /\ Before(E, n - 1) < E[n]
    BY <1>2, BeforeIs
  <1>. HIDE DEF l, k
  <1>4. l + 1 \in 1 .. Len(E) /\ (l + 1) - 1 = l /\ l \in 0 .. Len(E)
    BY <1>1, <1>2, LineNumber
  <1>5. e \in 1 .. Len(c) + 1 /\ Len(c) \in Nat
    BY <1>2, <1>4 DEF IsEnds
  <1>6. b \in 0 .. Len(c) + 1 /\ b < e
    BY <1>3, <1>4
  <1>7. L[l + 1] = SubSeq(c, b + 1, e - 1) /\ Len(L[l + 1]) = e - 1 - b
    BY <1>2, <1>4
  <1>. HIDE DEF b, e
  <1>8. b \in Nat /\ b + k < e /\ b + k \in 0 .. Len(c)
    BY <1>1, <1>5, <1>6, <1>7
  <1>9. Offset(E, p) = b + k
    BY DEF Offset, l, k, b
  <1>. QED
    BY <1>1, <1>4, <1>5, <1>6, <1>7, <1>8, <1>9 DEF l, k, b, e

\* What comes before a position, in the content.
LEMMA UptoIs ==
  ASSUME NEW CH, NL \in CH, NEW c \in Seq(CH), NEW E, NEW L, AreLines(CH, c, E, L),
         NEW K, IsOpened(CH, K, c), NEW p \in Position, PosIn(L, p)
  PROVE  Upto(L, p) = SubSeq(K, 1, Offset(E, p) + 1)
  <1> DEFINE l == p.line
             k == p.char
             b == Before(E, l)
             e == E[l + 1]
             line == L[l + 1]
  <1>1. /\ l + 1 \in 1 .. Len(E) /\ k \in Nat /\ Len(c) \in Nat
        /\ b \in Nat /\ b + k < e /\ k <= Len(line)
        /\ line = SubSeq(c, b + 1, e - 1) /\ Len(line) = e - 1 - b
        /\ e \in 1 .. Len(c) + 1 /\ b < e
    BY OffsetIs
  <1>2. IsEnds(E, c) /\ L \in Seq(Seq(CH)) /\ Len(L) = Len(E) /\ Len(L) \in Nat /\ l \in Nat
    BY DEF AreLines, Position
  <1>3. Opened(SubSeq(L, 1, l)) = SubSeq(K, 1, b)
    <2>1. l \in 0 .. Len(L)
      BY <1>1, <1>2
    <2>. HIDE DEF l
    <2>. QED
      BY <2>1, OpenedFront
  <1>4. (l + 1) - 1 = l
    BY <1>2
  <1>5. b + k <= Len(c) /\ BreakJoins(c, K, b, k)
    <2>1. l + 1 \in 1 .. Len(E) /\ b = Before(E, (l + 1) - 1) /\ b + k < E[l + 1]
      BY <1>1, <1>4
    <2> DEFINE n == l + 1
    <2>2. n \in 1 .. Len(E) /\ b = Before(E, n - 1) /\ b + k < E[n]
      BY <2>1
    <2>. HIDE DEF n, b, k
    <2>. QED
      BY <1>1, <1>2, <2>2, BreakAndText
  <1>6. SubSeq(line, 1, k) = SubSeq(c, b + 1, b + k)
    <2> DEFINE m == e - 1 - b
    <2>1. m \in Nat /\ b + m = e - 1 /\ b + m <= Len(c) /\ k <= m
      <3>. HIDE DEF e, b, k, line
      <3>. QED
        BY <1>1
    <2>2. /\ SubSeq(c, b + 1, b + m) \in Seq(CH) /\ Len(SubSeq(c, b + 1, b + m)) = m
          /\ \A i \in 1 .. m : SubSeq(c, b + 1, b + m)[i] = c[b + i]
      <3>1. b \in Nat /\ m \in Nat /\ b + m <= Len(c)
        BY <1>1, <2>1
      <3>. HIDE DEF m, b
      <3>. QED
        BY <3>1, PartIs
    <2>3. /\ SubSeq(c, b + 1, b + k) \in Seq(CH) /\ Len(SubSeq(c, b + 1, b + k)) = k
          /\ \A i \in 1 .. k : SubSeq(c, b + 1, b + k)[i] = c[b + i]
      <3>1. b \in Nat /\ k \in Nat /\ b + k <= Len(c)
        BY <1>1, <1>5
      <3>. HIDE DEF k, b
      <3>. QED
        BY <3>1, PartIs
    <2>4. line \in Seq(CH) /\ Len(line) = m /\ \A i \in 1 .. m : line[i] = c[b + i]
      BY <1>1, <2>1, <2>2
    <2>. HIDE DEF line, m, b, k
    <2>5. k \in 0 .. Len(line)
      BY <1>1, <2>1, <2>4
    <2>6. /\ SubSeq(line, 1, k) \in Seq(CH) /\ Len(SubSeq(line, 1, k)) = k
          /\ \A i \in 1 .. k : SubSeq(line, 1, k)[i] = line[i]
      BY <2>4, <2>5, TwoParts
    <2>7. \A i \in 1 .. k : i \in 1 .. m
      BY <1>1, <2>1
    <2>8. \A i \in 1 .. k : SubSeq(line, 1, k)[i] = SubSeq(c, b + 1, b + k)[i]
      BY <2>3, <2>4, <2>6, <2>7
    <2>. QED
      BY <2>3, <2>6, <2>8, SeqEqual
  <1>7. Upto(L, p) = SubSeq(K, 1, b) \o (<<NL>> \o SubSeq(c, b + 1, b + k))
    BY <1>3, <1>6, Zenon DEF Upto
  <1>8. Upto(L, p) = SubSeq(K, 1, b + k + 1)
    <2>. HIDE DEF b, k
    <2>. QED
      BY <1>5, <1>7, Zenon DEF BreakJoins
  <1>9. Offset(E, p) + 1 = b + k + 1
    BY DEF Offset
  <1>. QED
    BY <1>8, <1>9

\* A later position is a later place.
LEMMA OffsetGrows ==
  ASSUME NEW CH, NEW c \in Seq(CH), NEW E, NEW L, AreLines(CH, c, E, L),
         NEW p \in Position, PosIn(L, p), NEW q \in Position, PosIn(L, q), Earlier(p, q)
  PROVE  Offset(E, p) < Offset(E, q)
  <1> DEFINE l == p.line
             m == q.line
             i == p.char
             j == q.char
  <1>1. l \in Nat /\ m \in Nat /\ i \in Nat /\ j \in Nat
    BY DEF Position
  <1>2. Offset(E, p) = Before(E, l) + i /\ Offset(E, q) = Before(E, m) + j
    BY DEF Offset
  <1>3. /\ l + 1 \in 1 .. Len(E) /\ Before(E, l) \in Nat /\ Before(E, l) + i < E[l + 1]
        /\ E[l + 1] \in 1 .. Len(c) + 1 /\ Len(c) \in Nat
    BY OffsetIs
  <1>4. m + 1 \in 1 .. Len(E) /\ Before(E, m) \in Nat
    BY OffsetIs
  <1>5. l < m \/ (l = m /\ i < j)
    BY DEF Earlier
  <1>6. /\ \A n \in 1 .. Len(E) : n - 1 \in 0 .. Len(E) /\ Before(E, n) = E[n] /\ Before(E, n - 1) < E[n]
        /\ \A n, k \in 0 .. Len(E) : n <= k => Before(E, n) <= Before(E, k)
    <2>1. IsEnds(E, c)
      BY DEF AreLines
    <2>. QED
      BY <2>1, BeforeIs
  <1>7. Len(E) \in Nat
    BY DEF AreLines, IsEnds
  <1>. HIDE DEF l, m, i, j
  <1>8. CASE l < m
    <2>1. l + 1 <= m /\ l + 1 \in 0 .. Len(E) /\ m \in 0 .. Len(E)
      BY <1>1, <1>3, <1>4, <1>7, <1>8
    <2>2. Before(E, l + 1) = E[l + 1] /\ Before(E, l + 1) <= Before(E, m)
      BY <1>3, <1>6, <2>1
    <2>. QED
      BY <1>1, <1>2, <1>3, <1>4, <2>1, <2>2
  <1>9. CASE l = m /\ i < j
    BY <1>1, <1>2, <1>3, <1>9
  <1>. QED
    BY <1>5, <1>8, <1>9

(***************************************************************************)
(* A content in pieces, one before each of its characters and one at the   *)
(* end, when the edits in v replace what lies between their places fr and  *)
(* to by their texts tx.                                                   *)
(***************************************************************************)
Begins(fr, v, i) == {e \in v : fr[e] + 1 = i}
First(v) == CHOOSE e : e \in v
Put(fr, tx, v, i) == IF Begins(fr, v, i) # {} THEN tx[First(Begins(fr, v, i))] ELSE <<>>
Covered(fr, to, v, i) == \E e \in v : fr[e] < i /\ i <= to[e]
Kept(c, fr, to, v, i) == IF i <= Len(c) /\ ~Covered(fr, to, v, i) THEN <<c[i]>> ELSE <<>>
Pieces(c, fr, to, tx, v) == [i \in 1 .. Len(c) + 1 |-> Put(fr, tx, v, i) \o Kept(c, fr, to, v, i)]

\* The pieces are sequences of characters.
LEMMA PiecesAre ==
  ASSUME NEW CH, NEW c \in Seq(CH), NEW W, NEW fr, NEW to, NEW tx \in [W -> Seq(CH)], NEW v \in SUBSET W
  PROVE  /\ Pieces(c, fr, to, tx, v) \in Seq(Seq(CH)) /\ Len(Pieces(c, fr, to, tx, v)) = Len(c) + 1
         /\ \A i \in 1 .. Len(c) + 1 :
              /\ Pieces(c, fr, to, tx, v)[i] = Put(fr, tx, v, i) \o Kept(c, fr, to, v, i)
              /\ Put(fr, tx, v, i) \in Seq(CH) /\ Kept(c, fr, to, v, i) \in Seq(CH)
  <1>1. Len(c) + 1 \in Nat /\ Len(c) \in Nat
    OBVIOUS
  <1>2. \A i \in 1 .. Len(c) + 1 : Put(fr, tx, v, i) \in Seq(CH) /\ Kept(c, fr, to, v, i) \in Seq(CH)
    <2>1. TAKE i \in 1 .. Len(c) + 1
    <2>2. <<>> \in Seq(CH)
      OBVIOUS
    <2>3. Put(fr, tx, v, i) \in Seq(CH)
      <3>1. CASE Begins(fr, v, i) # {}
        <4>1. First(Begins(fr, v, i)) \in Begins(fr, v, i)
          BY <3>1 DEF First
        <4>2. First(Begins(fr, v, i)) \in W
          BY <4>1 DEF Begins
        <4>. QED
          BY <3>1, <4>2 DEF Put
      <3>. QED
        BY <2>2, <3>1 DEF Put
    <2>4. i <= Len(c) => <<c[i]>> \in Seq(CH)
      BY <1>1
    <2>. QED
      BY <2>2, <2>3, <2>4 DEF Kept
  <1>3. \A i \in 1 .. Len(c) + 1 : Put(fr, tx, v, i) \o Kept(c, fr, to, v, i) \in Seq(CH)
    BY <1>2, ConcatProperties
  <1>. QED
    BY <1>1, <1>2, <1>3 DEF Pieces

BehindPiece(c, fr, to, tx, v, e) == FlattenSeq(SubSeq(Pieces(c, fr, to, tx, v), to[e] + 1, Len(c) + 1))
Grown(c, fr, to, tx, v, e, rest) ==
  /\ FlattenSeq(Pieces(c, fr, to, tx, v \cup {e})) = SubSeq(c, 1, fr[e]) \o (tx[e] \o rest)
  /\ FlattenSeq(Pieces(c, fr, to, tx, v)) = SubSeq(c, 1, to[e]) \o rest

\* One more edit, in front of all in v, puts its text and takes what is in its range.
LEMMA PiecesGrow ==
  ASSUME NEW CH, NEW c \in Seq(CH), NEW W, NEW fr \in [W -> 0 .. Len(c)], NEW to \in [W -> 0 .. Len(c)],
         NEW tx \in [W -> Seq(CH)], NEW v \in SUBSET W, NEW e \in W, fr[e] <= to[e],
         \A d \in v : to[e] <= fr[d] /\ fr[e] < fr[d] /\ fr[d] <= to[d]
  PROVE  /\ BehindPiece(c, fr, to, tx, v, e) \in Seq(CH)
         /\ Grown(c, fr, to, tx, v, e, BehindPiece(c, fr, to, tx, v, e))
  <1> DEFINE w == v \cup {e}
             p == Pieces(c, fr, to, tx, v)
             q == Pieces(c, fr, to, tx, w)
             f == fr[e]
             t == to[e]
             n == Len(c)
  <1>1. /\ n \in Nat /\ f \in 0 .. n /\ t \in 0 .. n /\ f <= t /\ tx[e] \in Seq(CH)
        /\ \A d \in v : fr[d] \in 0 .. n /\ to[d] \in 0 .. n /\ t <= fr[d] /\ f < fr[d] /\ fr[d] <= to[d]
    OBVIOUS
  <1>2. w \in SUBSET W
    OBVIOUS
  <1>3. /\ p \in Seq(Seq(CH)) /\ Len(p) = n + 1
        /\ \A i \in 1 .. n + 1 :
             /\ p[i] = Put(fr, tx, v, i) \o Kept(c, fr, to, v, i)
             /\ Put(fr, tx, v, i) \in Seq(CH) /\ Kept(c, fr, to, v, i) \in Seq(CH)
    BY PiecesAre
  <1>4. /\ q \in Seq(Seq(CH)) /\ Len(q) = n + 1
        /\ \A i \in 1 .. n + 1 :
             /\ q[i] = Put(fr, tx, w, i) \o Kept(c, fr, to, w, i)
             /\ Put(fr, tx, w, i) \in Seq(CH) /\ Kept(c, fr, to, w, i) \in Seq(CH)
    BY <1>2, PiecesAre
  <1>. HIDE DEF p, q
  <1>5. \A i \in 1 .. n + 1 : i # f + 1 => Begins(fr, w, i) = Begins(fr, v, i) /\ Put(fr, tx, w, i) = Put(fr, tx, v, i)
    <2>1. TAKE i \in 1 .. n + 1
    <2>2. HAVE i # f + 1
    <2>3. Begins(fr, w, i) = Begins(fr, v, i)
      BY <1>1, <2>2 DEF Begins
    <2>. QED
      BY <2>3 DEF Put
  <1>6. \A i \in 1 .. t + 1 : i <= t \/ f = t => Begins(fr, v, i) = {} /\ Put(fr, tx, v, i) = <<>>
    BY <1>1 DEF Begins, Put
  <1>7. \A i \in 1 .. t : ~Covered(fr, to, v, i) /\ Kept(c, fr, to, v, i) = <<c[i]>> /\ i \in 1 .. n + 1
    BY <1>1 DEF Covered, Kept
  <1>8. Put(fr, tx, w, f + 1) = tx[e]
    <2>1. Begins(fr, w, f + 1) = {e}
      BY <1>1 DEF Begins
    <2>2. First({e}) = e
      BY DEF First
    <2>. QED
      BY <2>1, <2>2 DEF Put
  <1>9. \A i \in 1 .. n + 1 : ~(f < i /\ i <= t) => Kept(c, fr, to, w, i) = Kept(c, fr, to, v, i)
    <2>1. TAKE i \in 1 .. n + 1
    <2>2. HAVE ~(f < i /\ i <= t)
    <2>3. Covered(fr, to, w, i) <=> Covered(fr, to, v, i)
      BY <2>2 DEF Covered
    <2>. QED
      BY <2>3 DEF Kept
  <1>10. \A i \in f + 1 .. t : Kept(c, fr, to, w, i) = <<>>
    BY DEF Kept, Covered
  <1>11. \A i \in 1 .. t : p[i] = <<c[i]>>
    <2>1. TAKE i \in 1 .. t
    <2>2. i \in 1 .. t + 1 /\ i <= t /\ i \in 1 .. n + 1
      BY <1>1
    <2>3. p[i] = <<>> \o <<c[i]>> /\ <<c[i]>> \in Seq(CH)
      BY <1>3, <1>6, <1>7, <2>1, <2>2
    <2>. QED
      BY <2>3, ConcatEmptySeq
  <1>12. IsSpliced(p, q, f, t, tx[e])
    <2>1. \A i \in 1 .. n + 1 : i # f + 1 /\ ~(f < i /\ i <= t) => q[i] = p[i]
      <3>. HIDE DEF w, f, t, n
      <3>1. TAKE i \in 1 .. n + 1
      <3>2. HAVE i # f + 1 /\ ~(f < i /\ i <= t)
      <3>3. Put(fr, tx, w, i) = Put(fr, tx, v, i)
        BY <1>5, <3>1, <3>2, Zenon
      <3>4. Kept(c, fr, to, w, i) = Kept(c, fr, to, v, i)
        BY <1>9, <3>1, <3>2, Zenon
      <3>5. p[i] = Put(fr, tx, v, i) \o Kept(c, fr, to, v, i) /\ q[i] = Put(fr, tx, w, i) \o Kept(c, fr, to, w, i)
        BY <1>3, <1>4, <3>1, Zenon
      <3>. QED
        BY <3>3, <3>4, <3>5, Zenon
    <2>2. \A i \in f + 2 .. t : q[i] = <<>>
      <3>1. TAKE i \in f + 2 .. t
      <3>2. i \in 1 .. n + 1 /\ i # f + 1 /\ i \in 1 .. t + 1 /\ i <= t /\ i \in f + 1 .. t
        BY <1>1
      <3>3. q[i] = <<>> \o <<>>
        BY <1>4, <1>5, <1>6, <1>10, <3>2
      <3>. QED
        BY <3>3, ConcatEmptySeq
    <2>3. q[f + 1] = tx[e] \o (IF f < t THEN <<>> ELSE p[f + 1])
      <3>1. f + 1 \in 1 .. n + 1 /\ q[f + 1] = tx[e] \o Kept(c, fr, to, w, f + 1)
        <4>1. f + 1 \in 1 .. n + 1
          BY <1>1
        <4>. HIDE DEF w, f, t, n
        <4>. QED
          BY <1>4, <1>8, <4>1, Zenon
      <3>2. CASE f < t
        <4>1. f + 1 \in f + 1 .. t
          BY <1>1, <3>2
        <4>. QED
          BY <1>10, <3>1, <3>2, <4>1
      <3>3. CASE f = t
        <4>1. f + 1 \in 1 .. t + 1 /\ ~(f < f + 1 /\ f + 1 <= t)
          BY <1>1, <3>3
        <4>2. Kept(c, fr, to, w, f + 1) = Kept(c, fr, to, v, f + 1)
          BY <1>9, <3>1, <4>1
        <4>3. Put(fr, tx, v, f + 1) = <<>>
          BY <1>6, <3>3, <4>1
        <4>4. p[f + 1] = <<>> \o Kept(c, fr, to, v, f + 1) /\ Kept(c, fr, to, v, f + 1) \in Seq(CH)
          BY <1>3, <3>1, <4>3
        <4>5. p[f + 1] = Kept(c, fr, to, v, f + 1)
          BY <4>4, ConcatEmptySeq
        <4>6. ~(f < t)
          BY <1>1, <3>3
        <4>. HIDE DEF f, t
        <4>. QED
          BY <3>1, <4>2, <4>5, <4>6, Zenon
      <3>. QED
        BY <1>1, <3>2, <3>3
    <2>4. /\ \A i \in 1 .. f : i \in 1 .. n + 1 /\ i # f + 1 /\ ~(f < i /\ i <= t)
          /\ \A i \in t + 1 .. Len(p) : i \in 1 .. n + 1 /\ ~(f < i /\ i <= t)
      BY <1>1, <1>3
    <2>. HIDE DEF f, t, n
    <2>. QED
      BY <2>1, <2>2, <2>3, <2>4 DEF IsSpliced
  <1>13. \A k \in 0 .. t : FlattenSeq(SubSeq(p, 1, k)) = SubSeq(c, 1, k)
    <2>1. TAKE k \in 0 .. t
    <2>2. k \in 0 .. n /\ k \in 0 .. Len(p)
      BY <1>1, <1>3
    <2>3. SubSeq(c, 1, k) \in Seq(CH) /\ Len(SubSeq(c, 1, k)) = k /\ \A i \in 1 .. k : SubSeq(c, 1, k)[i] = c[i]
      BY <2>2, TwoParts
    <2>4. SubSeq(p, 1, k) \in Seq(Seq(CH)) /\ Len(SubSeq(p, 1, k)) = k /\ \A i \in 1 .. k : SubSeq(p, 1, k)[i] = p[i]
      BY <1>3, <2>2, TwoParts
    <2>5. \A i \in 1 .. k : p[i] = <<c[i]>>
      <3>1. \A i \in 1 .. k : i \in 1 .. t
        BY <1>1
      <3>. QED
        BY <1>11, <3>1
    <2>6. \A i \in 1 .. Len(SubSeq(p, 1, k)) : SubSeq(p, 1, k)[i] = <<SubSeq(c, 1, k)[i]>>
      BY <2>3, <2>4, <2>5
    <2>7. Len(SubSeq(p, 1, k)) = Len(SubSeq(c, 1, k))
      BY <2>3, <2>4
    <2> DEFINE a == SubSeq(p, 1, k)
               b == SubSeq(c, 1, k)
    <2>8. a \in Seq(Seq(CH)) /\ b \in Seq(CH) /\ Len(a) = Len(b) /\ \A i \in 1 .. Len(a) : a[i] = <<b[i]>>
      BY <2>3, <2>4, <2>6, <2>7
    <2>. HIDE DEF a, b
    <2>9. FlattenSeq(a) = b
      BY <2>8, FlattenSingles
    <2>. QED
      BY <2>9 DEF a, b
  <1>14. FlattenSeq(q) = FlattenSeq(SubSeq(p, 1, f)) \o (tx[e] \o FlattenSeq(SubSeq(p, t + 1, Len(p))))
    <2>1. Len(q) = Len(p) /\ f \in Nat /\ t \in Nat /\ f <= t /\ t < Len(p)
      BY <1>1, <1>3, <1>4
    <2> DEFINE text == tx[e]
    <2>2. p \in Seq(Seq(CH)) /\ q \in Seq(Seq(CH)) /\ text \in Seq(CH) /\ IsSpliced(p, q, f, t, text)
      BY <1>1, <1>3, <1>4, <1>12
    <2>. HIDE DEF f, t, n, w, text
    <2>3. IsJoined(p, q, f, t, text)
      BY <2>1, <2>2, Spliced
    <2>. QED
      BY <2>3, Zenon DEF IsJoined, text
  <1>15. FlattenSeq(p) = FlattenSeq(SubSeq(p, 1, t)) \o FlattenSeq(SubSeq(p, t + 1, Len(p)))
    <2>1. t \in 0 .. Len(p)
      BY <1>1, <1>3
    <2>. QED
      BY <1>3, <2>1, FlattenSplit
  <1>16. f \in 0 .. t /\ t \in 0 .. t
    BY <1>1
  <1>17. FlattenSeq(SubSeq(p, t + 1, Len(p))) \in Seq(CH)
    <2>1. t \in 0 .. Len(p)
      BY <1>1, <1>3
    <2>2. SubSeq(p, t + 1, Len(p)) \in Seq(Seq(CH))
      BY <1>3, <2>1, TwoParts
    <2>. QED
      BY <2>2, FlattenIsSeq
  <1>. QED
    BY <1>3, <1>13, <1>14, <1>15, <1>16, <1>17 DEF p, q, Grown, BehindPiece

(***************************************************************************)
(* The edits one after the other: what each leaves is what the next one    *)
(* changes.                                                                *)
(***************************************************************************)
IsApplied(CH, lines, edits, m) ==
  /\ m \in [0 .. Len(edits) -> Seq(Seq(CH))] /\ m[0] = lines
  /\ \A k \in 1 .. Len(edits) : m[k] = ApplyEdit(m[k - 1], edits[k])
  /\ ApplyEdits(lines, edits) = m[Len(edits)]

LEMMA EditsApplied ==
  ASSUME NEW CH, NL \in CH, NEW lines \in Seq(Seq(CH)), NEW edits \in Seq(TextEdit(CH))
  PROVE  \E m : IsApplied(CH, lines, edits, m)
  <1> DEFINE n == Len(edits)
             S == Seq(Seq(CH))
             After1(f) == f = [k \in 0 .. n |-> IF k = 0 THEN lines ELSE ApplyEdit(f[k - 1], edits[k])]
             step == [x \in S \X (1 .. n) |-> ApplyEdit(x[1], edits[x[2]])]
             g == CHOOSE f : After1(f)
  <1>1. n \in Nat /\ lines \in S /\ \A k \in 1 .. n : edits[k] \in TextEdit(CH)
    OBVIOUS
  <1>2. \A r \in S, k \in 1 .. n : ApplyEdit(r, edits[k]) \in S
    BY <1>1, EditKeepsLines
  <1>3. step \in [S \X (1 .. n) -> S]
    BY <1>2
  <1>4. \A r \in S, k \in 1 .. n : step[<<r, k>>] = ApplyEdit(r, edits[k])
    OBVIOUS
  <1>. HIDE DEF step, S, n
  <1>5. \E f : After1(f)
    <2>1. PICK f \in [0 .. n -> S] : IsRecursion(f, lines, step, n)
      BY <1>1, <1>3, RecursionExists
    <2>2. \A k \in 1 .. n : f[k - 1] \in S
      BY <1>1
    <2>3. \A k \in 0 .. n : k # 0 => k \in 1 .. n
      BY <1>1
    <2>4. After1(f)
      BY <1>4, <2>1, <2>2, <2>3 DEF IsRecursion
    <2>. QED
      BY <2>4
  <1>6. After1(g)
    BY <1>5
  <1>7. ApplyEdits(lines, edits) = g[n]
    BY DEF ApplyEdits, n
  <1>. HIDE DEF g
  <1>8. g = [k \in 0 .. n |-> g[k]]
    BY <1>6
  <1>9. g[0] = lines /\ \A k \in 1 .. n : g[k] = ApplyEdit(g[k - 1], edits[k])
    <2>1. 0 \in 0 .. n /\ \A k \in 1 .. n : k \in 0 .. n /\ k # 0
      BY <1>1
    <2>2. g[0] = lines
      BY <1>6, <2>1
    <2>3. \A k \in 1 .. n : g[k] = ApplyEdit(g[k - 1], edits[k])
      BY <1>6, <2>1
    <2>. QED
      BY <2>2, <2>3
  <1>10. Recurs(S, g, lines, step, n)
    BY <1>4, <1>8, <1>9 DEF Recurs
  <1>12. g \in [0 .. n -> S]
    <2>1. lines \in S /\ n \in Nat
      BY <1>1
    <2>. QED
      BY <1>3, <1>10, <2>1, RecursionHolds
  <1>11. IsApplied(CH, lines, edits, g)
    BY <1>7, <1>9, <1>12 DEF IsApplied, n, S
  <1>. QED
    BY <1>11

\* A position that is not earlier is no earlier place.
LEMMA OffsetOrder ==
  ASSUME NEW CH, NEW c \in Seq(CH), NEW E, NEW L, AreLines(CH, c, E, L),
         NEW p \in Position, PosIn(L, p), NEW q \in Position, PosIn(L, q), ~Earlier(q, p)
  PROVE  Offset(E, p) <= Offset(E, q)
  <1>1. Offset(E, p) \in Int /\ Offset(E, q) \in Int
    <2>1. Offset(E, p) \in 0 .. Len(c) /\ Offset(E, q) \in 0 .. Len(c)
      BY OffsetIs
    <2>. QED
      BY <2>1
  <1>2. CASE Earlier(p, q)
    <2>1. Offset(E, p) < Offset(E, q)
      BY <1>2, OffsetGrows
    <2>. QED
      BY <1>1, <2>1
  <1>3. CASE ~Earlier(p, q)
    <2>1. p.line \in Nat /\ q.line \in Nat /\ p.char \in Nat /\ q.char \in Nat
      BY DEF Position
    <2> DEFINE l == p.line
               m == q.line
               i == p.char
               j == q.char
    <2>2. ~(l < m \/ (l = m /\ i < j)) /\ ~(m < l \/ (m = l /\ j < i)) /\ l \in Nat /\ m \in Nat /\ i \in Nat /\ j \in Nat
      BY <1>3, <2>1 DEF Earlier
    <2>3. l = m /\ i = j
      <3>. HIDE DEF l, m, i, j
      <3>. QED
        BY <2>2
    <2>4. Offset(E, p) = Offset(E, q)
      BY <2>3, Zenon DEF Offset
    <2>. QED
      BY <1>1, <2>4
  <1>. QED
    BY <1>2, <1>3

(***************************************************************************)
(* The edits that are in range, by their places in the content.            *)
(***************************************************************************)
ValidEdits(CH, L) == {e \in TextEdit(CH) : InRange(L, e)}
FromOf(CH, E, L) == [e \in ValidEdits(CH, L) |-> Offset(E, e.from)]
ToOf(CH, E, L) == [e \in ValidEdits(CH, L) |-> Offset(E, e.to)]
TextOf(CH, L) == [e \in ValidEdits(CH, L) |-> e.text]

InPieces(CH, c, E, L, v) == Pieces(c, FromOf(CH, E, L), ToOf(CH, E, L), TextOf(CH, L), v)
IsMeant(CH, c, E, L, v, M) == Opened(M) = <<NL>> \o FlattenSeq(InPieces(CH, c, E, L, v))

\* What is known of these edits.
LEMMA ValidAre ==
  ASSUME NEW CH, NEW c \in Seq(CH), NEW E, NEW L, AreLines(CH, c, E, L)
  PROVE  /\ FromOf(CH, E, L) \in [ValidEdits(CH, L) -> 0 .. Len(c)]
         /\ ToOf(CH, E, L) \in [ValidEdits(CH, L) -> 0 .. Len(c)]
         /\ TextOf(CH, L) \in [ValidEdits(CH, L) -> Seq(CH)]
         /\ \A e \in ValidEdits(CH, L) :
              /\ e \in TextEdit(CH) /\ e.from \in Position /\ e.to \in Position /\ e.text \in Seq(CH)
              /\ InRange(L, e) /\ PosIn(L, e.from) /\ PosIn(L, e.to)
              /\ FromOf(CH, E, L)[e] = Offset(E, e.from) /\ ToOf(CH, E, L)[e] = Offset(E, e.to)
              /\ TextOf(CH, L)[e] = e.text
  <1>1. \A e \in ValidEdits(CH, L) :
           e \in TextEdit(CH) /\ e.from \in Position /\ e.to \in Position /\ e.text \in Seq(CH) /\ InRange(L, e)
    BY DEF ValidEdits, TextEdit
  <1>2. \A e \in ValidEdits(CH, L) : PosIn(L, e.from) /\ PosIn(L, e.to)
    BY <1>1 DEF InRange, PosIn
  <1>3. \A e \in ValidEdits(CH, L) : Offset(E, e.from) \in 0 .. Len(c) /\ Offset(E, e.to) \in 0 .. Len(c)
    <2>1. TAKE e \in ValidEdits(CH, L)
    <2> DEFINE p == e.from
               q == e.to
    <2>2. p \in Position /\ q \in Position /\ PosIn(L, p) /\ PosIn(L, q)
      BY <1>1, <1>2
    <2>. HIDE DEF p, q
    <2>3. Offset(E, p) \in 0 .. Len(c) /\ Offset(E, q) \in 0 .. Len(c)
      BY <2>2, OffsetIs
    <2>. QED
      BY <2>3 DEF p, q
  <1>4. /\ FromOf(CH, E, L) \in [ValidEdits(CH, L) -> 0 .. Len(c)]
        /\ ToOf(CH, E, L) \in [ValidEdits(CH, L) -> 0 .. Len(c)]
    BY <1>3 DEF FromOf, ToOf
  <1>5. TextOf(CH, L) \in [ValidEdits(CH, L) -> Seq(CH)]
    BY <1>1 DEF TextOf
  <1>6. \A e \in ValidEdits(CH, L) :
          /\ FromOf(CH, E, L)[e] = Offset(E, e.from) /\ ToOf(CH, E, L)[e] = Offset(E, e.to)
          /\ TextOf(CH, L)[e] = e.text
    BY DEF FromOf, ToOf, TextOf
  <1>. QED
    BY <1>1, <1>2, <1>4, <1>5, <1>6

(***************************************************************************)
(* One edit more, in front of those before it.                             *)
(***************************************************************************)
InFront(v, e) ==
  /\ ~Earlier(e.to, e.from)
  /\ \A d \in v : Earlier(e.from, d.from) /\ ~Earlier(d.from, e.to) /\ ~Earlier(d.to, d.from)

SharesRest(CH, c, E, L, v, e, rest) ==
  /\ FlattenSeq(InPieces(CH, c, E, L, v)) = SubSeq(c, 1, Offset(E, e.to)) \o rest
  /\ FlattenSeq(InPieces(CH, c, E, L, v \cup {e})) = SubSeq(c, 1, Offset(E, e.from)) \o (e.text \o rest)

\* The pieces with it and those without it share what lies behind its range.
LEMMA PiecesInFront ==
  ASSUME NEW CH, NEW c \in Seq(CH), NEW E, NEW L, AreLines(CH, c, E, L), NEW v \in SUBSET ValidEdits(CH, L),
         NEW e \in ValidEdits(CH, L), InFront(v, e)
  PROVE  \E rest \in Seq(CH) : SharesRest(CH, c, E, L, v, e, rest)
  <1> DEFINE W == ValidEdits(CH, L)
             fr == FromOf(CH, E, L)
             to == ToOf(CH, E, L)
             tx == TextOf(CH, L)
  <1>1. /\ fr \in [W -> 0 .. Len(c)] /\ to \in [W -> 0 .. Len(c)] /\ tx \in [W -> Seq(CH)]
        /\ \A d \in W :
              /\ d.from \in Position /\ d.to \in Position
              /\ PosIn(L, d.from) /\ PosIn(L, d.to)
              /\ fr[d] = Offset(E, d.from) /\ to[d] = Offset(E, d.to) /\ tx[d] = d.text
    BY ValidAre
  <1>2. v \in SUBSET W /\ e \in W
    OBVIOUS
  <1>. HIDE DEF W, fr, to, tx
  <1>3. fr[e] <= to[e]
    BY <1>1, <1>2, OffsetOrder DEF InFront
  <1>4. \A d \in v : to[e] <= fr[d] /\ fr[e] < fr[d] /\ fr[d] <= to[d]
    <2>1. TAKE d \in v
    <2>2. d \in W
      BY <1>2
    <2>3. to[e] <= fr[d]
      BY <1>1, <1>2, <2>2, OffsetOrder DEF InFront
    <2>4. fr[e] < fr[d]
      BY <1>1, <1>2, <2>2, OffsetGrows DEF InFront
    <2>5. fr[d] <= to[d]
      BY <1>1, <1>2, <2>2, OffsetOrder DEF InFront
    <2>. QED
      BY <2>3, <2>4, <2>5
  <1> DEFINE rest == BehindPiece(c, fr, to, tx, v, e)
  <1>5. rest \in Seq(CH) /\ Grown(c, fr, to, tx, v, e, rest)
    BY <1>1, <1>2, <1>3, <1>4, PiecesGrow
  <1>7. fr[e] = Offset(E, e.from) /\ to[e] = Offset(E, e.to) /\ tx[e] = e.text
    BY <1>1, <1>2
  <1>8. /\ FlattenSeq(InPieces(CH, c, E, L, v)) = SubSeq(c, 1, Offset(E, e.to)) \o rest
        /\ FlattenSeq(InPieces(CH, c, E, L, v \cup {e})) = SubSeq(c, 1, Offset(E, e.from)) \o (e.text \o rest)
    <2>. HIDE DEF rest
    <2>. QED
      BY <1>5, <1>7, Zenon DEF InPieces, fr, to, tx, Grown
  <1>. QED
    BY <1>5, <1>8 DEF SharesRest

\* The lines before a position are those of L, at least if it is in L.
Near(M, L, p) == (PosIn(M, p) <=> PosIn(L, p)) /\ (PosIn(L, p) => Same(M, L, p))

\* What comes before such a position is what comes before it in the content.
LEMMA OpenedUpto ==
  ASSUME NEW CH, NL \in CH, NEW c \in Seq(CH), NEW E, NEW L, AreLines(CH, c, E, L),
         NEW M \in Seq(Seq(CH)), NEW p \in Position, Same(M, L, p)
  PROVE  SubSeq(c, 1, Offset(E, p)) \in Seq(CH) /\ Upto(M, p) = <<NL>> \o SubSeq(c, 1, Offset(E, p))
  <1> DEFINE K == <<NL>> \o c
             f == Offset(E, p)
  <1>1. IsOpened(CH, K, c)
    BY OpenedContent
  <1>2. PosIn(L, p) /\ L \in Seq(Seq(CH))
    BY DEF Same, AreLines
  <1>3. f \in 0 .. Len(c)
    BY <1>2, OffsetIs
  <1>. HIDE DEF K, f
  <1>4. SubSeq(c, 1, f) \in Seq(CH)
    BY <1>3, TwoParts
  <1>5. Upto(M, p) = Upto(L, p)
    BY <1>2, SameUpto
  <1>6. Upto(L, p) = SubSeq(K, 1, f + 1)
    BY <1>1, <1>2, UptoIs DEF f
  <1>7. <<NL>> \o SubSeq(c, 1, f) = SubSeq(K, 1, f + 1)
    <2>1. K[0 + 1] = NL /\ 0 \in Nat /\ f \in Nat /\ 0 + f <= Len(c)
      BY <1>1, <1>3 DEF IsOpened
    <2>2. BreakJoins(c, K, 0, f)
      BY <1>1, <2>1, BreakThenText
    <2>3. <<NL>> \o SubSeq(c, 0 + 1, 0 + f) = SubSeq(K, 0 + 1, 0 + f + 1)
      BY <2>2, Zenon DEF BreakJoins
    <2>4. 0 + 1 = 1 /\ 0 + f = f /\ 0 + f + 1 = f + 1
      BY <1>3
    <2>. QED
      BY <2>3, <2>4
  <1>. QED
    BY <1>4, <1>5, <1>6, <1>7 DEF f

\* If the lines mean the edits in v, an edit in front of them makes them mean v and itself.
LEMMA EditBecomes ==
  ASSUME NEW CH, NL \in CH, NEW c \in Seq(CH), NEW E, NEW L, AreLines(CH, c, E, L),
         NEW v \in SUBSET ValidEdits(CH, L), NEW e \in ValidEdits(CH, L), InFront(v, e),
         NEW M \in Seq(Seq(CH)), IsMeant(CH, c, E, L, v, M), Near(M, L, e.from), Near(M, L, e.to)
  PROVE  /\ ApplyEdit(M, e) \in Seq(Seq(CH)) /\ IsMeant(CH, c, E, L, v \cup {e}, ApplyEdit(M, e))
         /\ Same(ApplyEdit(M, e), L, e.from)
  <1> DEFINE p == e.from
             q == e.to
             text == e.text
             N == ApplyEdit(M, e)
             a == SubSeq(c, 1, Offset(E, p))
             b == SubSeq(c, 1, Offset(E, q))
             rear == After(M, q)
             nl == <<NL>>
             was == FlattenSeq(InPieces(CH, c, E, L, v))
             is == FlattenSeq(InPieces(CH, c, E, L, v \cup {e}))
  <1>1. e \in TextEdit(CH) /\ p \in Position /\ q \in Position /\ text \in Seq(CH) /\ PosIn(L, p) /\ PosIn(L, q)
    BY ValidAre
  <1>2. Same(M, L, p) /\ Same(M, L, q) /\ PosIn(M, p) /\ PosIn(M, q)
    BY <1>1 DEF Near
  <1>3. InRange(M, e)
    BY <1>2 DEF InRange, PosIn
  <1>4. N \in Seq(Seq(CH)) /\ Opened(N) = Upto(M, p) \o (text \o rear)
    BY <1>1, <1>3, EditIs
  <1>5. Upto(M, q) \in Seq(CH) /\ rear \in Seq(CH) /\ Opened(M) = Upto(M, q) \o rear
    BY <1>1, <1>2, Halves
  <1>6. a \in Seq(CH) /\ Upto(M, p) = nl \o a
    BY <1>1, <1>2, OpenedUpto
  <1>7. b \in Seq(CH) /\ Upto(M, q) = nl \o b
    BY <1>1, <1>2, OpenedUpto
  <1>8. PICK rest \in Seq(CH) : was = b \o rest /\ is = a \o (text \o rest)
    <2>1. PICK rest \in Seq(CH) : SharesRest(CH, c, E, L, v, e, rest)
      BY PiecesInFront
    <2>2. was = b \o rest /\ is = a \o (text \o rest)
      BY <2>1 DEF SharesRest
    <2>. QED
      BY <2>2
  <1>9. nl \in Seq(CH)
    OBVIOUS
  <1>10. Opened(M) = nl \o was
    BY DEF IsMeant
  <1>11. Same(N, L, p)
    <2>1. Same(N, M, p)
      BY <1>1, <1>3, SameEdited
    <2>. QED
      BY <1>1, <1>2, <2>1, SameThrough
  <1>. HIDE DEF p, q, text, N, a, b, rear, nl, was, is
  <1>12. (nl \o b) \o rear = (nl \o b) \o rest /\ nl \o b \in Seq(CH)
    <2>1. Regroups(CH, nl, b, rest)
      BY <1>7, <1>8, <1>9, RegroupsAll, Zenon
    <2>2. (nl \o b) \o rest = nl \o (b \o rest)
      BY <2>1, Zenon DEF Regroups
    <2>3. Opened(M) = (nl \o b) \o rear
      BY <1>5, <1>7, Zenon
    <2>4. nl \o b \in Seq(CH)
      BY <1>5, <1>7
    <2>. QED
      BY <1>8, <1>10, <2>2, <2>3, <2>4, Zenon
  <1>13. rear = rest
    <2> DEFINE u == nl \o b
               k == Len(u)
    <2>1. u \in Seq(CH) /\ u \o rear = u \o rest
      BY <1>12
    <2>. HIDE DEF u
    <2>2. SubSeq(u \o rear, k + 1, Len(u \o rear)) = rear
      BY <1>5, <2>1, CutAt
    <2>3. SubSeq(u \o rest, k + 1, Len(u \o rest)) = rest
      BY <2>1, CutAt
    <2>. QED
      BY <2>1, <2>2, <2>3, Zenon
  <1>14. Opened(N) = nl \o is
    <2>1. Opened(N) = (nl \o a) \o (text \o rest) /\ is = a \o (text \o rest)
      BY <1>4, <1>6, <1>8, <1>13, Zenon
    <2>2. text \o rest \in Seq(CH)
      BY <1>1, <1>8, RegroupsAll, Zenon
    <2>3. Regroups(CH, nl, a, text \o rest)
      BY <1>6, <1>9, <2>2, RegroupsAll, Zenon
    <2>. QED
      BY <2>1, <2>3, Zenon DEF Regroups
  <1>15. IsMeant(CH, c, E, L, v \cup {e}, N)
    BY <1>14, Zenon DEF IsMeant, nl, is
  <1>. QED
    BY <1>4, <1>11, <1>15, Zenon DEF N, p

\* Without edits the pieces are the content.
LEMMA PiecesNone ==
  ASSUME NEW CH, NEW c \in Seq(CH), NEW fr, NEW to, NEW tx
  PROVE  FlattenSeq(Pieces(c, fr, to, tx, {})) = c
  <1> DEFINE n == Len(c)
             p == Pieces(c, fr, to, tx, {})
  <1>1. n \in Nat /\ n \in 0 .. n + 1 /\ n < n + 1
    OBVIOUS
  <1>2. \A i \in 1 .. n + 1 : Put(fr, tx, {}, i) = <<>> /\ ~Covered(fr, to, {}, i)
    BY DEF Put, Begins, Covered
  <1>3. \A i \in 1 .. n : Kept(c, fr, to, {}, i) = <<c[i]>> /\ <<c[i]>> \in Seq(CH) /\ i \in 1 .. n + 1
    BY <1>1, <1>2 DEF Kept
  <1>4. Kept(c, fr, to, {}, n + 1) = <<>> /\ n + 1 \in 1 .. n + 1
    BY <1>1 DEF Kept
  <1>5. DOMAIN p = 1 .. n + 1 /\ \A i \in 1 .. n + 1 : p[i] = Put(fr, tx, {}, i) \o Kept(c, fr, to, {}, i)
    BY DEF Pieces
  <1>6. p = [i \in 1 .. n + 1 |-> p[i]]
    BY DEF Pieces
  <1>. HIDE DEF p, n
  <1>7. \A i \in 1 .. n : p[i] = <<c[i]>> /\ p[i] \in Seq(CH)
    <2>1. TAKE i \in 1 .. n
    <2>2. p[i] = <<>> \o <<c[i]>> /\ <<c[i]>> \in Seq(CH)
      BY <1>2, <1>3, <1>5
    <2>. QED
      BY <2>2, ConcatEmptySeq
  <1>8. p[n + 1] = <<>>
    <2>1. p[n + 1] = <<>> \o <<>>
      BY <1>2, <1>4, <1>5
    <2>. QED
      BY <2>1, ConcatEmptySeq
  <1>9. p \in Seq(Seq(CH)) /\ Len(p) = n + 1
    <2>1. \A i \in 1 .. n + 1 : i \in 1 .. n \/ i = n + 1
      BY <1>1
    <2>2. p[n + 1] \in Seq(CH)
      BY <1>8
    <2>3. \A i \in 1 .. n + 1 : p[i] \in Seq(CH)
      <3>1. TAKE i \in 1 .. n + 1
      <3>. QED
        BY <1>7, <2>1, <2>2, Zenon
    <2>. QED
      BY <1>1, <1>6, <2>3
  <1> DEFINE a == SubSeq(p, 1, n)
             b == SubSeq(p, n + 1, n + 1)
  <1>10. /\ a \in Seq(Seq(CH)) /\ b \in Seq(Seq(CH)) /\ Len(a) = n /\ Len(b) = 1
         /\ \A i \in 1 .. n : a[i] = p[i]
         /\ \A i \in 1 .. 1 : b[i] = p[n + i]
    <2>1. n \in 0 .. Len(p) /\ (n + 1) - n = 1
      BY <1>1, <1>9
    <2>. QED
      BY <1>9, <2>1, TwoParts
  <1>11. FlattenSeq(p) = FlattenSeq(a) \o FlattenSeq(b)
    <2>1. n \in 0 .. Len(p)
      BY <1>1, <1>9
    <2>. HIDE DEF a, b
    <2>. QED
      BY <1>9, <2>1, FlattenSplit DEF a, b
  <1>. HIDE DEF a, b
  <1>12. FlattenSeq(a) = c
    <2>1. Len(a) = Len(c) /\ \A i \in 1 .. Len(a) : a[i] = <<c[i]>>
      BY <1>7, <1>10 DEF n
    <2>. QED
      BY <1>10, <2>1, FlattenSingles
  <1>13. FlattenSeq(b) = <<>>
    <2>1. \A i \in 1 .. Len(b) : b[i] = <<>>
      BY <1>8, <1>10
    <2>. QED
      BY <1>10, <2>1, FlattenEmpties
  <1>. QED
    BY <1>11, <1>12, <1>13, ConcatEmptySeq DEF p

(***************************************************************************)
(* The edits from the last place to the first.                             *)
(***************************************************************************)
Backwards(edits) ==
  \A j, k \in DOMAIN edits :
    /\ ~Earlier(edits[j].to, edits[j].from)
    /\ j < k => Earlier(edits[k].from, edits[j].from) /\ ~Earlier(edits[j].from, edits[k].to)

ValidAmong(CH, L, edits, k) == {e \in ValidEdits(CH, L) : \E j \in 1 .. k : e = edits[j]}

ReachedBy(CH, c, E, L, edits, k, M) ==
  /\ IsMeant(CH, c, E, L, ValidAmong(CH, L, edits, k), M)
  /\ \/ ValidAmong(CH, L, edits, k) = {} /\ M = L
     \/ \E j \in 1 .. k : edits[j] \in ValidEdits(CH, L) /\ Same(M, L, edits[j].from)

\* The lines as they were.
LEMMA NoEditReaches ==
  ASSUME NEW CH, NL \in CH, NEW c \in Seq(CH), NEW E, NEW L, AreLines(CH, c, E, L), NEW edits
  PROVE  ReachedBy(CH, c, E, L, edits, 0, L)
  <1>1. ValidAmong(CH, L, edits, 0) = {}
    BY DEF ValidAmong
  <1>2. Opened(L) = <<NL>> \o c
    <2>1. IsOpened(CH, <<NL>> \o c, c)
      BY OpenedContent
    <2> DEFINE K == <<NL>> \o c
    <2>2. IsOpened(CH, K, c)
      BY <2>1
    <2>. HIDE DEF K
    <2>3. Opened(L) = K
      BY <2>2, OpenedSplit
    <2>. QED
      BY <2>3 DEF K
  <1>3. FlattenSeq(InPieces(CH, c, E, L, {})) = c
    BY PiecesNone DEF InPieces
  <1>4. IsMeant(CH, c, E, L, {}, L)
    BY <1>2, <1>3, Zenon DEF IsMeant
  <1>. QED
    BY <1>1, <1>4 DEF ReachedBy

\* Lines that are the same up to a position are so up to any before it.
LEMMA SameIsNear ==
  ASSUME NEW CH, NEW L \in Seq(Seq(CH)), NEW M \in Seq(Seq(CH)), NEW q \in Position, Same(M, L, q),
         NEW p \in Position, ~Earlier(q, p)
  PROVE  Near(M, L, p)
  <1>1. PosIn(M, q) /\ PosIn(L, q)
    BY DEF Same
  <1>2. q.line + 1 \in 1 .. Len(M) /\ q.line + 1 \in 1 .. Len(L) /\ Len(M) \in Nat /\ Len(L) \in Nat
    <2>1. q.line \in Nat /\ Len(M) \in Nat /\ Len(L) \in Nat
      BY DEF Position
    <2>2. q.line < Len(M) /\ q.line < Len(L)
      BY <1>1 DEF PosIn
    <2> DEFINE l == q.line
    <2>. HIDE DEF l
    <2>3. l + 1 \in 1 .. Len(M) /\ l + 1 \in 1 .. Len(L)
      BY <2>1, <2>2 DEF l
    <2>. QED
      BY <2>1, <2>3 DEF l
  <1>3. Len(M[q.line + 1]) \in Nat /\ Len(L[q.line + 1]) \in Nat
    BY <1>2
  <1>. QED
    BY <1>2, <1>3, SameBefore DEF Near

\* The next edit of a list that goes backwards.
LEMMA EditReaches ==
  ASSUME NEW CH, NL \in CH, NEW c \in Seq(CH), NEW E, NEW L, AreLines(CH, c, E, L),
         NEW edits \in Seq(TextEdit(CH)), Backwards(edits), NEW k \in 1 .. Len(edits),
         NEW M \in Seq(Seq(CH)), ReachedBy(CH, c, E, L, edits, k - 1, M)
  PROVE  ReachedBy(CH, c, E, L, edits, k, ApplyEdit(M, edits[k]))
  <1> DEFINE e == edits[k]
             V == ValidEdits(CH, L)
             v == ValidAmong(CH, L, edits, k - 1)
             w == ValidAmong(CH, L, edits, k)
             N == ApplyEdit(M, e)
  <1>1. /\ k \in Nat /\ 1 .. k = (1 .. k - 1) \cup {k} /\ \A j \in 1 .. k - 1 : j < k /\ j \in 1 .. Len(edits)
        /\ DOMAIN edits = 1 .. Len(edits)
    OBVIOUS
  <1>2. e \in TextEdit(CH) /\ e.from \in Position /\ e.to \in Position
    <2>1. e \in TextEdit(CH)
      BY <1>1
    <2>. HIDE DEF e
    <2>. QED
      BY <2>1 DEF TextEdit
  <1>3. L \in Seq(Seq(CH))
    BY DEF AreLines
  <1>4. IsMeant(CH, c, E, L, v, M)
    BY DEF ReachedBy
  <1>5. /\ ~Earlier(e.to, e.from)
        /\ \A j \in 1 .. k - 1 :
             Earlier(e.from, edits[j].from) /\ ~Earlier(edits[j].from, e.to) /\ ~Earlier(edits[j].to, edits[j].from)
    BY <1>1 DEF Backwards
  <1>6. InFront(v, e)
    BY <1>5 DEF InFront, ValidAmong
  <1>7. Near(M, L, e.from) /\ Near(M, L, e.to)
    <2>1. CASE M = L
      <3>1. \A p \in Position : PosIn(L, p) => Same(L, L, p)
        BY <1>3, SameLines
      <3>. QED
        BY <1>2, <2>1, <3>1 DEF Near
    <2>2. ASSUME NEW j \in 1 .. k - 1, edits[j] \in V, Same(M, L, edits[j].from)
          PROVE  Near(M, L, e.from) /\ Near(M, L, e.to)
      <3> DEFINE q == edits[j].from
                 p == e.from
                 r == e.to
      <3>1. q \in Position
        BY <2>2, ValidAre
      <3>2. p.line \in Nat /\ q.line \in Nat /\ p.char \in Nat /\ q.char \in Nat
        BY <1>2, <3>1 DEF Position
      <3>3. Earlier(p, q) /\ ~Earlier(q, r)
        BY <1>5, <2>2
      <3>4. ~Earlier(q, p)
        BY <3>2, <3>3 DEF Earlier
      <3>5. Same(M, L, q) /\ p \in Position /\ r \in Position
        BY <1>2, <2>2
      <3>. HIDE DEF p, q, r
      <3>6. Near(M, L, p)
        BY <1>3, <3>1, <3>4, <3>5, SameIsNear
      <3>7. Near(M, L, r)
        BY <1>3, <3>1, <3>3, <3>5, SameIsNear
      <3>. QED
        BY <3>6, <3>7 DEF p, r
    <2>. QED
      BY <2>1, <2>2 DEF ReachedBy
  <1>8. v \in SUBSET V
    BY DEF ValidAmong
  <1>9. CASE e \in V
    <2>1. w = v \cup {e}
      BY <1>1, <1>9 DEF ValidAmong
    <2>. HIDE DEF v, w, V
    <2>2. IsMeant(CH, c, E, L, v \cup {e}, N) /\ Same(N, L, e.from)
      BY <1>4, <1>6, <1>7, <1>8, <1>9, EditBecomes DEF V
    <2>3. k \in 1 .. k
      BY <1>1
    <2>4. \E j \in 1 .. k : edits[j] \in V /\ Same(N, L, edits[j].from)
      BY <1>9, <2>2, <2>3
    <2>. QED
      BY <2>1, <2>2, <2>4, Zenon DEF ReachedBy, w, V
  <1>10. CASE e \notin V
    <2>1. w = v
      BY <1>1, <1>10 DEF ValidAmong
    <2>2. ~(PosIn(L, e.from) /\ PosIn(L, e.to))
      BY <1>2, <1>10 DEF ValidEdits, InRange, PosIn
    <2>3. ~InRange(M, e)
      BY <1>7, <2>2 DEF Near, InRange, PosIn
    <2>4. N = M
      BY <2>3 DEF ApplyEdit
    <2>. HIDE DEF v, w, V, N
    <2>5. 1 .. k - 1 \subseteq 1 .. k
      BY <1>1
    <2>6. \/ v = {} /\ M = L
          \/ \E j \in 1 .. k - 1 : edits[j] \in V /\ Same(M, L, edits[j].from)
      BY DEF ReachedBy, v, V
    <2>. QED
      BY <1>4, <2>1, <2>4, <2>5, <2>6 DEF ReachedBy, w, V, N
  <1>. QED
    BY <1>9, <1>10

\* A list that goes backwards, applied one after the other, means all of its edits at once.
LEMMA BackwardsApplied ==
  ASSUME NEW CH, NL \in CH, NEW c \in Seq(CH), NEW E, NEW L, AreLines(CH, c, E, L),
         NEW edits \in Seq(TextEdit(CH)), Backwards(edits)
  PROVE  /\ ApplyEdits(L, edits) \in Seq(Seq(CH))
         /\ IsMeant(CH, c, E, L, ValidAmong(CH, L, edits, Len(edits)), ApplyEdits(L, edits))
  <1>1. L \in Seq(Seq(CH))
    BY DEF AreLines
  <1>2. PICK m : IsApplied(CH, L, edits, m)
    BY <1>1, EditsApplied
  <1> DEFINE n == Len(edits)
             Good(k) == ReachedBy(CH, c, E, L, edits, k, m[k])
             Bad == {k \in 0 .. n : ~Good(k)}
  <1>3. n \in Nat /\ m[0] = L /\ \A k \in 1 .. n : m[k] = ApplyEdit(m[k - 1], edits[k])
    BY <1>2 DEF IsApplied
  <1>4. \A k \in 0 .. n : m[k] \in Seq(Seq(CH))
    BY <1>2 DEF IsApplied
  <1>5. ASSUME NEW k \in Bad, \A j \in Bad : k <= j PROVE FALSE
    <2>1. k \in 0 .. n /\ ~Good(k)
      OBVIOUS
    <2>2. k # 0
      BY <1>3, <2>1, NoEditReaches
    <2>3. k \in 1 .. n /\ k - 1 \in 0 .. n /\ ~(k <= k - 1)
      BY <1>3, <2>1, <2>2
    <2>4. Good(k - 1)
      BY <1>5, <2>3
    <2>5. m[k - 1] \in Seq(Seq(CH)) /\ m[k] = ApplyEdit(m[k - 1], edits[k])
      BY <1>3, <1>4, <2>3
    <2> DEFINE M == m[k - 1]
    <2>6. M \in Seq(Seq(CH)) /\ ReachedBy(CH, c, E, L, edits, k - 1, M)
      BY <2>4, <2>5
    <2>. HIDE DEF M
    <2>7. ReachedBy(CH, c, E, L, edits, k, ApplyEdit(M, edits[k]))
      BY <2>3, <2>6, EditReaches
    <2>. QED
      BY <2>1, <2>5, <2>7 DEF M
  <1>6. Bad = {}
    <2>1. Bad \in SUBSET Nat
      OBVIOUS
    <2>. HIDE DEF Bad
    <2>. QED
      BY <1>5, <2>1, LeastElement
  <1>7. n \in 0 .. n
    BY <1>3
  <1>8. Good(n) /\ m[n] \in Seq(Seq(CH))
    BY <1>4, <1>6, <1>7
  <1>9. ApplyEdits(L, edits) = m[n]
    BY <1>2 DEF IsApplied
  <1>. QED
    BY <1>8, <1>9 DEF ReachedBy

(***************************************************************************)
(* Positions are ordered.                                                  *)
(***************************************************************************)
LEMMA EarlierOrder ==
  /\ \A p \in Position : ~Earlier(p, p)
  /\ \A p, q \in Position : Earlier(p, q) => ~Earlier(q, p)
  /\ \A p, q, r \in Position : Earlier(p, q) /\ Earlier(q, r) => Earlier(p, r)
  /\ \A p, q \in Position : p = q \/ Earlier(p, q) \/ Earlier(q, p)
  <1>1. \A p \in Position : p.line \in Nat /\ p.char \in Nat /\ p = [line |-> p.line, char |-> p.char]
    BY DEF Position
  <1>2. \A p \in Position : ~Earlier(p, p)
    BY <1>1 DEF Earlier
  <1>3. \A p, q \in Position : Earlier(p, q) => ~Earlier(q, p)
    BY <1>1 DEF Earlier
  <1>4. \A p, q, r \in Position : Earlier(p, q) /\ Earlier(q, r) => Earlier(p, r)
    BY <1>1 DEF Earlier
  <1>5. \A p, q \in Position : p = q \/ Earlier(p, q) \/ Earlier(q, p)
    <2>1. TAKE p, q \in Position
    <2>2. SUFFICES ASSUME ~Earlier(p, q), ~Earlier(q, p) PROVE p = q
      OBVIOUS
    <2>3. p.line = q.line /\ p.char = q.char
      BY <1>1, <2>2 DEF Earlier
    <2>. QED
      BY <1>1, <2>3
  <1>. QED
    BY <1>2, <1>3, <1>4, <1>5

(***************************************************************************)
(* A list whose places from i on hold the edits of another in some order.  *)
(***************************************************************************)
Shuffled(CH, s, t, i) ==
  /\ t \in Seq(TextEdit(CH)) /\ Len(t) = Len(s)
  /\ \A a \in 1 .. Len(s) : a < i => t[a] = s[a]
  /\ \A a \in 1 .. Len(s) : i <= a => \E b \in 1 .. Len(s) : i <= b /\ t[a] = s[b]
  /\ \A b \in 1 .. Len(s) : i <= b => \E a \in 1 .. Len(s) : i <= a /\ t[a] = s[b]
  /\ DistinctStarts(s) => DistinctStarts(t)

\* The list itself, an order of an order, and an order of fewer places.
LEMMA ShuffledSelf ==
  ASSUME NEW CH, NEW s \in Seq(TextEdit(CH)), NEW i
  PROVE  Shuffled(CH, s, s, i)
  BY DEF Shuffled

LEMMA ShuffledTwice ==
  ASSUME NEW CH, NEW s, NEW t, NEW u, NEW i, Shuffled(CH, s, t, i), Shuffled(CH, t, u, i)
  PROVE  Shuffled(CH, s, u, i)
  BY DEF Shuffled

LEMMA ShuffledFrom ==
  ASSUME NEW CH, NEW s, NEW t, NEW i \in Nat, NEW j \in Nat, j <= i, Len(s) \in Nat, Shuffled(CH, s, t, i)
  PROVE  Shuffled(CH, s, t, j)
  <1>1. \A a \in 1 .. Len(s) : a < j => a < i
    OBVIOUS
  <1>2. \A a \in 1 .. Len(s) : i <= a => j <= a
    OBVIOUS
  <1>3. \A a \in 1 .. Len(s) : a < i \/ i <= a
    OBVIOUS
  <1>4. /\ t \in Seq(TextEdit(CH)) /\ Len(t) = Len(s)
        /\ \A a \in 1 .. Len(s) : a < i => t[a] = s[a]
        /\ \A a \in 1 .. Len(s) : i <= a => \E b \in 1 .. Len(s) : i <= b /\ t[a] = s[b]
        /\ \A b \in 1 .. Len(s) : i <= b => \E a \in 1 .. Len(s) : i <= a /\ t[a] = s[b]
        /\ DistinctStarts(s) => DistinctStarts(t)
    BY DEF Shuffled
  <1>5. \A a \in 1 .. Len(s) : j <= a => \E b \in 1 .. Len(s) : j <= b /\ t[a] = s[b]
    BY <1>2, <1>3, <1>4
  <1>6. \A b \in 1 .. Len(s) : j <= b => \E a \in 1 .. Len(s) : j <= a /\ t[a] = s[b]
    BY <1>2, <1>3, <1>4
  <1>. QED
    BY <1>1, <1>4, <1>5, <1>6 DEF Shuffled

\* Two places exchanged.
LEMMA SwapShuffles ==
  ASSUME NEW CH, NEW s \in Seq(TextEdit(CH)), NEW i \in 1 .. Len(s), NEW j \in 1 .. Len(s), i < j
  PROVE  /\ Shuffled(CH, s, Swap(s, i, j), i)
         /\ Swap(s, i, j)[i] = s[j] /\ Swap(s, i, j)[j] = s[i]
         /\ \A a \in 1 .. Len(s) : a # i /\ a # j => Swap(s, i, j)[a] = s[a]
  <1> DEFINE t == Swap(s, i, j)
             n == Len(s)
  <1>1. n \in Nat /\ DOMAIN s = 1 .. n /\ i \in 1 .. n /\ j \in 1 .. n /\ i < j /\ i # j /\ i <= i /\ i <= j
    OBVIOUS
  <1>2. t \in Seq(TextEdit(CH)) /\ Len(t) = n /\ DOMAIN t = 1 .. n
    BY <1>1 DEF Swap
  <1>3. t[i] = s[j] /\ t[j] = s[i] /\ \A a \in 1 .. n : a # i /\ a # j => t[a] = s[a]
    BY <1>1 DEF Swap
  <1>. HIDE DEF t, n
  <1>4. \A a \in 1 .. n : a < i => t[a] = s[a]
    BY <1>1, <1>3
  <1>5. \A a \in 1 .. n : i <= a => \E b \in 1 .. n : i <= b /\ t[a] = s[b]
    BY <1>1, <1>3
  <1>6. \A b \in 1 .. n : i <= b => \E a \in 1 .. n : i <= a /\ t[a] = s[b]
    BY <1>1, <1>3
  <1>7. ASSUME DistinctStarts(s) PROVE DistinctStarts(t)
    <2>1. \A a, b \in 1 .. n : a # b => s[a].from # s[b].from
      BY <1>1, <1>7 DEF DistinctStarts
    <2> DEFINE w(a) == IF a = i THEN j ELSE IF a = j THEN i ELSE a
    <2>2. \A a \in 1 .. n : w(a) \in 1 .. n /\ t[a] = s[w(a)]
      BY <1>1, <1>3
    <2>3. \A a, b \in 1 .. n : a # b => w(a) # w(b)
      BY <1>1
    <2>. HIDE DEF w
    <2>4. \A a, b \in 1 .. n : a # b => t[a].from # t[b].from
      BY <2>1, <2>2, <2>3
    <2>. QED
      BY <1>2, <2>4 DEF DistinctStarts
  <1>8. Shuffled(CH, s, t, i)
    BY <1>2, <1>4, <1>5, <1>6, <1>7 DEF Shuffled, n
  <1>. QED
    BY <1>3, <1>8 DEF t, n

(***************************************************************************)
(* One pass: the last of the edits from place i on comes to that place.    *)
(***************************************************************************)
Exchanged(s, i, k) == IF Earlier(s[i].from, s[i + k].from) THEN Swap(s, i, i + k) ELSE s

SameShape(CH, s) == {t \in Seq(TextEdit(CH)) : Len(t) = Len(s)}

IsPass(CH, s, i, m) ==
  /\ m \in [0 .. Len(s) - i -> SameShape(CH, s)] /\ m[0] = s
  /\ \A k \in 1 .. Len(s) - i : m[k] = Exchanged(m[k - 1], i, k)
  /\ Pass(s, i) = m[Len(s) - i]

\* One comparison puts the edits in some order.
LEMMA ExchangedIs ==
  ASSUME NEW CH, NEW s, NEW t \in SameShape(CH, s), NEW i \in 1 .. Len(t), NEW k \in 1 .. Len(t) - i
  PROVE  Exchanged(t, i, k) \in SameShape(CH, s) /\ Shuffled(CH, t, Exchanged(t, i, k), i)
  <1>1. t \in Seq(TextEdit(CH)) /\ Len(t) = Len(s) /\ i + k \in 1 .. Len(t) /\ i < i + k
    BY DEF SameShape
  <1>2. Shuffled(CH, t, Swap(t, i, i + k), i)
    BY <1>1, SwapShuffles
  <1>3. Shuffled(CH, t, t, i)
    BY <1>1, ShuffledSelf
  <1>4. Shuffled(CH, t, Exchanged(t, i, k), i)
    BY <1>2, <1>3, Zenon DEF Exchanged
  <1>5. Exchanged(t, i, k) \in Seq(TextEdit(CH)) /\ Len(Exchanged(t, i, k)) = Len(t)
    BY <1>4, Zenon DEF Shuffled
  <1>. QED
    BY <1>1, <1>4, <1>5 DEF SameShape

\* A pass runs to its end.
LEMMA PassRuns ==
  ASSUME NEW CH, NEW s \in Seq(TextEdit(CH)), NEW i \in 1 .. Len(s)
  PROVE  \E m : IsPass(CH, s, i, m)
  <1> DEFINE n == Len(s) - i
             S == SameShape(CH, s)
             After1(f) == f = [k \in 0 .. n |->
                                IF k = 0 THEN s
                                ELSE LET es == f[k - 1]
                                     IN IF Earlier(es[i].from, es[i + k].from) THEN Swap(es, i, i + k) ELSE es]
             step == [x \in S \X (1 .. n) |-> Exchanged(x[1], i, x[2])]
             g == CHOOSE f : After1(f)
  <1>1. n \in Nat /\ s \in S
    BY DEF SameShape
  <1>2. \A r \in S, k \in 1 .. n : Exchanged(r, i, k) \in S
    <2>1. TAKE r \in S, k \in 1 .. n
    <2>2. i \in 1 .. Len(r) /\ k \in 1 .. Len(r) - i
      BY DEF SameShape
    <2>. QED
      BY <2>2, ExchangedIs
  <1>3. step \in [S \X (1 .. n) -> S]
    <2>. HIDE DEF S, n
    <2>. QED
      BY <1>2
  <1>4. \A r \in S, k \in 1 .. n : step[<<r, k>>] = Exchanged(r, i, k)
    <2>. HIDE DEF S, n
    <2>. QED
      OBVIOUS
  <1>. HIDE DEF step, S, n
  <1>5. \E f : After1(f)
    <2>1. PICK f \in [0 .. n -> S] : IsRecursion(f, s, step, n)
      BY <1>1, <1>3, RecursionExists
    <2>2. \A k \in 1 .. n : f[k - 1] \in S
      BY <1>1
    <2>3. \A k \in 0 .. n : k # 0 => k \in 1 .. n
      BY <1>1
    <2>4. f = [k \in 0 .. n |-> IF k = 0 THEN s ELSE Exchanged(f[k - 1], i, k)]
      BY <1>4, <2>1, <2>2, <2>3 DEF IsRecursion
    <2>5. After1(f)
      BY <2>4, Zenon DEF Exchanged
    <2>. QED
      BY <2>5
  <1>6. g = [k \in 0 .. n |-> IF k = 0 THEN s ELSE Exchanged(g[k - 1], i, k)]
    <2>1. After1(g)
      BY <1>5
    <2>. HIDE DEF g
    <2>. QED
      BY <2>1, Zenon DEF Exchanged
  <1>7. Pass(s, i) = g[n]
    BY DEF Pass, n
  <1>. HIDE DEF g
  <1>8. g = [k \in 0 .. n |-> g[k]]
    BY <1>6
  <1>9. g[0] = s /\ \A k \in 1 .. n : g[k] = Exchanged(g[k - 1], i, k)
    <2>1. 0 \in 0 .. n /\ \A k \in 1 .. n : k \in 0 .. n /\ k # 0
      BY <1>1
    <2>2. g[0] = s
      BY <1>6, <2>1
    <2>3. \A k \in 1 .. n : g[k] = Exchanged(g[k - 1], i, k)
      BY <1>6, <2>1
    <2>. QED
      BY <2>2, <2>3
  <1>10. Recurs(S, g, s, step, n)
    BY <1>4, <1>8, <1>9 DEF Recurs
  <1>11. g \in [0 .. n -> S]
    <2>1. s \in S /\ n \in Nat
      BY <1>1
    <2>. QED
      BY <1>3, <1>10, <2>1, RecursionHolds
  <1>12. IsPass(CH, s, i, g)
    BY <1>7, <1>9, <1>11 DEF IsPass, n, S
  <1>. QED
    BY <1>12

\* No edit from place i on to place l starts after the one at i.
LastUpTo(t, i, l) == \A b \in i .. l : ~Earlier(t[i].from, t[b].from)

LEMMA ExchangedLast ==
  ASSUME NEW CH, NEW t \in Seq(TextEdit(CH)), NEW i \in 1 .. Len(t), NEW k \in 1 .. Len(t) - i,
         LastUpTo(t, i, i + (k - 1))
  PROVE  LastUpTo(Exchanged(t, i, k), i, i + k)
  <1> DEFINE j == i + k
             u == Exchanged(t, i, k)
  <1>1. j \in 1 .. Len(t) /\ i < j
        /\ \A b \in i .. j : b \in 1 .. Len(t) /\ (b = i \/ b = j \/ (b # i /\ b # j /\ b \in i .. i + (k - 1)))
    OBVIOUS
  <1>2. \A b \in 1 .. Len(t) : t[b].from \in Position
    <2>1. \A b \in 1 .. Len(t) : t[b] \in TextEdit(CH)
      OBVIOUS
    <2>2. \A e \in TextEdit(CH) : e.from \in Position
      BY DEF TextEdit
    <2>. QED
      BY <2>1, <2>2
  <1>3. \A b \in i .. i + (k - 1) : ~Earlier(t[i].from, t[b].from)
    BY DEF LastUpTo
  <1>4. CASE Earlier(t[i].from, t[j].from)
    <2>1. u = Swap(t, i, j)
      BY <1>4 DEF Exchanged
    <2>2. u[i] = t[j] /\ u[j] = t[i] /\ \A a \in 1 .. Len(t) : a # i /\ a # j => u[a] = t[a]
      <3>1. i < j /\ j \in 1 .. Len(t)
        BY <1>1
      <3>. HIDE DEF u, j
      <3>. QED
        BY <2>1, <3>1, SwapShuffles
    <2>. HIDE DEF u, j
    <2>3. ASSUME NEW b \in i .. j PROVE ~Earlier(u[i].from, u[b].from)
      <3>1. b \in 1 .. Len(t) /\ t[b].from \in Position /\ t[i].from \in Position /\ t[j].from \in Position
        BY <1>1, <1>2
      <3>2. CASE b = i
        BY <2>2, <3>1, <3>2, EarlierOrder
      <3>3. CASE b = j
        BY <1>4, <2>2, <3>1, <3>3, EarlierOrder
      <3>4. CASE b # i /\ b # j /\ b \in i .. i + (k - 1)
        <4>1. u[b] = t[b] /\ ~Earlier(t[i].from, t[b].from)
          BY <1>3, <2>2, <3>1, <3>4
        <4>. QED
          BY <1>4, <2>2, <3>1, <4>1, EarlierOrder
      <3>. QED
        BY <1>1, <3>2, <3>3, <3>4
    <2>. QED
      BY <2>3 DEF LastUpTo, u, j
  <1>5. CASE ~Earlier(t[i].from, t[j].from)
    <2>1. u = t
      BY <1>5 DEF Exchanged
    <2>2. \A b \in i .. j : ~Earlier(t[i].from, t[b].from)
      <3>1. TAKE b \in i .. j
      <3>2. t[i].from \in Position
        BY <1>2
      <3>. QED
        BY <1>1, <1>3, <1>5, <3>2, EarlierOrder
    <2>. QED
      BY <2>1, <2>2 DEF LastUpTo
  <1>. QED
    BY <1>4, <1>5

\* A pass puts the edits from place i on in some order, and the last of them at place i.
LEMMA PassIs ==
  ASSUME NEW CH, NEW s \in Seq(TextEdit(CH)), NEW i \in 1 .. Len(s)
  PROVE  Shuffled(CH, s, Pass(s, i), i) /\ LastUpTo(Pass(s, i), i, Len(s))
  <1>1. PICK m : IsPass(CH, s, i, m)
    BY PassRuns
  <1> DEFINE n == Len(s) - i
             Good(k) == Shuffled(CH, s, m[k], i) /\ LastUpTo(m[k], i, i + k)
             Bad == {k \in 0 .. n : ~Good(k)}
  <1>2. n \in Nat /\ m[0] = s /\ \A k \in 1 .. n : m[k] = Exchanged(m[k - 1], i, k)
    BY <1>1 DEF IsPass
  <1>3. \A k \in 0 .. n : m[k] \in SameShape(CH, s)
    BY <1>1 DEF IsPass
  <1>4. ASSUME NEW k \in Bad, \A j \in Bad : k <= j PROVE FALSE
    <2>1. k \in 0 .. n /\ ~Good(k)
      OBVIOUS
    <2>2. Good(0)
      <3>1. Shuffled(CH, s, s, i)
        BY ShuffledSelf
      <3>2. s[i].from \in Position
        <4>1. s[i] \in TextEdit(CH)
          OBVIOUS
        <4>. QED
          BY <4>1 DEF TextEdit
      <3>3. \A b \in i .. i + 0 : b = i
        OBVIOUS
      <3>4. LastUpTo(s, i, i + 0)
        BY <3>2, <3>3, EarlierOrder DEF LastUpTo
      <3>. QED
        BY <1>2, <3>1, <3>4
    <2>3. k # 0
      BY <2>1, <2>2
    <2>4. k \in 1 .. n /\ k - 1 \in 0 .. n /\ ~(k <= k - 1)
      BY <1>2, <2>1, <2>3
    <2>5. Good(k - 1)
      BY <1>4, <2>4
    <2> DEFINE t == m[k - 1]
    <2>6. t \in SameShape(CH, s) /\ Shuffled(CH, s, t, i) /\ LastUpTo(t, i, i + (k - 1)) /\ m[k] = Exchanged(t, i, k)
      BY <1>2, <1>3, <2>4, <2>5
    <2>. HIDE DEF t
    <2>7. t \in Seq(TextEdit(CH)) /\ i \in 1 .. Len(t) /\ k \in 1 .. Len(t) - i
      BY <2>4, <2>6 DEF SameShape
    <2>8. Shuffled(CH, t, Exchanged(t, i, k), i)
      BY <2>6, <2>7, ExchangedIs
    <2>9. LastUpTo(Exchanged(t, i, k), i, i + k)
      BY <2>6, <2>7, ExchangedLast
    <2>10. Shuffled(CH, s, Exchanged(t, i, k), i)
      BY <2>6, <2>8, ShuffledTwice
    <2>. QED
      BY <2>1, <2>6, <2>9, <2>10
  <1>5. Bad = {}
    <2>1. Bad \in SUBSET Nat
      OBVIOUS
    <2>. HIDE DEF Bad
    <2>. QED
      BY <1>4, <2>1, LeastElement
  <1>6. n \in 0 .. n /\ i + n = Len(s)
    BY <1>2
  <1>7. Shuffled(CH, s, m[n], i) /\ LastUpTo(m[n], i, Len(s))
    BY <1>5, <1>6
  <1>8. Pass(s, i) = m[n]
    BY <1>1 DEF IsPass
  <1>. QED
    BY <1>7, <1>8

(***************************************************************************)
(* The sort: pass after pass, each for one place more.                     *)
(***************************************************************************)
IsSort(CH, s, m) ==
  /\ m \in [0 .. Len(s) -> SameShape(CH, s)] /\ m[0] = s
  /\ \A i \in 1 .. Len(s) : m[i] = Pass(m[i - 1], i)
  /\ SortBackwards(s) = m[Len(s)]

\* The sort runs to its end.
LEMMA SortRuns ==
  ASSUME NEW CH, NEW s \in Seq(TextEdit(CH))
  PROVE  \E m : IsSort(CH, s, m)
  <1> DEFINE n == Len(s)
             S == SameShape(CH, s)
             After1(f) == f = [i \in 0 .. n |-> IF i = 0 THEN s ELSE Pass(f[i - 1], i)]
             step == [x \in S \X (1 .. n) |-> Pass(x[1], x[2])]
             g == CHOOSE f : After1(f)
  <1>1. n \in Nat /\ s \in S
    BY DEF SameShape
  <1>2. \A r \in S, i \in 1 .. n : Pass(r, i) \in S
    <2>1. TAKE r \in S, i \in 1 .. n
    <2>2. r \in Seq(TextEdit(CH)) /\ i \in 1 .. Len(r) /\ Len(r) = Len(s)
      BY DEF SameShape
    <2>3. Shuffled(CH, r, Pass(r, i), i)
      BY <2>2, PassIs
    <2>4. Pass(r, i) \in Seq(TextEdit(CH)) /\ Len(Pass(r, i)) = Len(r)
      BY <2>3, Zenon DEF Shuffled
    <2>. QED
      BY <2>2, <2>4 DEF SameShape
  <1>3. step \in [S \X (1 .. n) -> S]
    <2>. HIDE DEF S, n
    <2>. QED
      BY <1>2
  <1>4. \A r \in S, i \in 1 .. n : step[<<r, i>>] = Pass(r, i)
    <2>. HIDE DEF S, n
    <2>. QED
      OBVIOUS
  <1>. HIDE DEF step, S, n
  <1>5. \E f : After1(f)
    <2>1. PICK f \in [0 .. n -> S] : IsRecursion(f, s, step, n)
      BY <1>1, <1>3, RecursionExists
    <2>2. \A i \in 1 .. n : f[i - 1] \in S
      BY <1>1
    <2>3. \A i \in 0 .. n : i # 0 => i \in 1 .. n
      BY <1>1
    <2>4. After1(f)
      BY <1>4, <2>1, <2>2, <2>3 DEF IsRecursion
    <2>. QED
      BY <2>4
  <1>6. After1(g)
    BY <1>5
  <1>7. SortBackwards(s) = g[n]
    BY DEF SortBackwards, n
  <1>. HIDE DEF g
  <1>8. g = [i \in 0 .. n |-> g[i]]
    BY <1>6
  <1>9. g[0] = s /\ \A i \in 1 .. n : g[i] = Pass(g[i - 1], i)
    <2>1. 0 \in 0 .. n /\ \A i \in 1 .. n : i \in 0 .. n /\ i # 0
      BY <1>1
    <2>2. g[0] = s
      BY <1>6, <2>1
    <2>3. \A i \in 1 .. n : g[i] = Pass(g[i - 1], i)
      BY <1>6, <2>1
    <2>. QED
      BY <2>2, <2>3
  <1>10. Recurs(S, g, s, step, n)
    BY <1>4, <1>8, <1>9 DEF Recurs
  <1>11. g \in [0 .. n -> S]
    <2>1. s \in S /\ n \in Nat
      BY <1>1
    <2>. QED
      BY <1>3, <1>10, <2>1, RecursionHolds
  <1>12. IsSort(CH, s, g)
    BY <1>7, <1>9, <1>11 DEF IsSort, n, S
  <1>. QED
    BY <1>12

SortedUpTo(t, i) == \A a \in 1 .. i : LastUpTo(t, a, Len(t))

\* A pass for place i leaves the places before it sorted.
LEMMA PassSorts ==
  ASSUME NEW CH, NEW t \in Seq(TextEdit(CH)), NEW i \in 1 .. Len(t), SortedUpTo(t, i - 1)
  PROVE  SortedUpTo(Pass(t, i), i)
  <1> DEFINE u == Pass(t, i)
             n == Len(t)
  <1>1. Shuffled(CH, t, u, i) /\ LastUpTo(u, i, n)
    BY PassIs
  <1>. HIDE DEF u
  <1>2. /\ Len(u) = n
        /\ \A a \in 1 .. n : a < i => u[a] = t[a]
        /\ \A a \in 1 .. n : i <= a => \E b \in 1 .. n : i <= b /\ u[a] = t[b]
    BY <1>1 DEF Shuffled
  <1>3. n \in Nat /\ i \in 1 .. n
    OBVIOUS
  <1>. HIDE DEF n
  <1>4. ASSUME NEW a \in 1 .. i, NEW b \in a .. n PROVE ~Earlier(u[a].from, u[b].from)
    <2>1. a = i \/ (a \in 1 .. i - 1 /\ a < i /\ a \in 1 .. n)
      BY <1>3
    <2>2. CASE a = i
      BY <1>1, <2>2 DEF LastUpTo
    <2>3. CASE a \in 1 .. i - 1 /\ a < i /\ a \in 1 .. n
      <3>1. \A c \in a .. n : ~Earlier(t[a].from, t[c].from)
        BY <2>3 DEF SortedUpTo, LastUpTo, n
      <3>2. u[a] = t[a]
        BY <1>2, <2>3
      <3>3. b \in 1 .. n
        BY <1>3
      <3>4. \E c \in a .. n : u[b] = t[c]
        <4>1. CASE b < i
          BY <1>2, <3>3, <4>1
        <4>2. CASE i <= b
          <5>1. PICK c \in 1 .. n : i <= c /\ u[b] = t[c]
            BY <1>2, <3>3, <4>2
          <5>2. c \in a .. n
            BY <1>3, <2>3, <5>1
          <5>. QED
            BY <5>1, <5>2
        <4>. QED
          BY <1>3, <3>3, <4>1, <4>2
      <3>. QED
        BY <3>1, <3>2, <3>4
    <2>. QED
      BY <2>1, <2>2, <2>3
  <1>. QED
    BY <1>2, <1>4 DEF SortedUpTo, LastUpTo, u

\* The sort puts all edits in some order, the last first.
LEMMA SortIs ==
  ASSUME NEW CH, NEW s \in Seq(TextEdit(CH))
  PROVE  Shuffled(CH, s, SortBackwards(s), 1) /\ SortedUpTo(SortBackwards(s), Len(s))
  <1>1. PICK m : IsSort(CH, s, m)
    BY SortRuns
  <1> DEFINE n == Len(s)
             Good(i) == Shuffled(CH, s, m[i], 1) /\ SortedUpTo(m[i], i)
             Bad == {i \in 0 .. n : ~Good(i)}
  <1>2. n \in Nat /\ m[0] = s /\ \A i \in 1 .. n : m[i] = Pass(m[i - 1], i)
    BY <1>1 DEF IsSort
  <1>3. \A i \in 0 .. n : m[i] \in SameShape(CH, s)
    BY <1>1 DEF IsSort
  <1>4. ASSUME NEW i \in Bad, \A j \in Bad : i <= j PROVE FALSE
    <2>1. i \in 0 .. n /\ ~Good(i)
      OBVIOUS
    <2>2. Good(0)
      <3>1. Shuffled(CH, s, s, 1)
        BY ShuffledSelf
      <3>2. SortedUpTo(s, 0)
        BY DEF SortedUpTo
      <3>. QED
        BY <1>2, <3>1, <3>2
    <2>3. i # 0
      BY <2>1, <2>2
    <2>4. i \in 1 .. n /\ i - 1 \in 0 .. n /\ ~(i <= i - 1) /\ i \in Nat /\ 1 \in Nat /\ 1 <= i
      BY <1>2, <2>1, <2>3
    <2>5. Good(i - 1)
      BY <1>4, <2>4
    <2> DEFINE t == m[i - 1]
               u == Pass(t, i)
    <2>6. t \in SameShape(CH, s) /\ Shuffled(CH, s, t, 1) /\ SortedUpTo(t, i - 1) /\ m[i] = u
      BY <1>2, <1>3, <2>4, <2>5
    <2>. HIDE DEF t
    <2>7. t \in Seq(TextEdit(CH)) /\ i \in 1 .. Len(t) /\ Len(t) \in Nat
      BY <2>4, <2>6 DEF SameShape
    <2>8. Shuffled(CH, t, u, i)
      BY <2>7, PassIs
    <2>9. SortedUpTo(u, i)
      BY <2>6, <2>7, PassSorts
    <2>. HIDE DEF u
    <2>10. Shuffled(CH, t, u, 1)
      BY <2>4, <2>7, <2>8, ShuffledFrom
    <2>11. Shuffled(CH, s, u, 1)
      BY <2>6, <2>10, ShuffledTwice
    <2>. QED
      BY <2>1, <2>6, <2>9, <2>11
  <1>5. Bad = {}
    <2>1. Bad \in SUBSET Nat
      OBVIOUS
    <2>. HIDE DEF Bad
    <2>. QED
      BY <1>4, <2>1, LeastElement
  <1>6. n \in 0 .. n
    BY <1>2
  <1>7. Good(n)
    BY <1>5, <1>6
  <1>8. SortBackwards(s) = m[n]
    BY <1>1 DEF IsSort
  <1>. QED
    BY <1>7, <1>8

EditSet(CH, L, s) == {e \in ValidEdits(CH, L) : \E j \in DOMAIN s : e = s[j]}

\* Edits that do not overlap and begin at places of their own are sorted from the last to the first.
LEMMA SortGoesBackwards ==
  ASSUME NEW CH, NEW s \in Seq(TextEdit(CH)), Legal(s), DistinctStarts(s)
  PROVE  /\ SortBackwards(s) \in Seq(TextEdit(CH)) /\ Backwards(SortBackwards(s))
         /\ \A L : ValidAmong(CH, L, SortBackwards(s), Len(SortBackwards(s))) = EditSet(CH, L, s)
  <1> DEFINE t == SortBackwards(s)
             n == Len(s)
  <1>1. Shuffled(CH, s, t, 1) /\ SortedUpTo(t, n)
    BY SortIs
  <1>. HIDE DEF t
  <1>2. t \in Seq(TextEdit(CH)) /\ Len(t) = n /\ DistinctStarts(t) /\ n \in Nat /\ DOMAIN t = 1 .. n /\ DOMAIN s = 1 .. n
    BY <1>1 DEF Shuffled
  <1>3. /\ \A a \in 1 .. n : \E b \in 1 .. n : t[a] = s[b]
        /\ \A b \in 1 .. n : \E a \in 1 .. n : t[a] = s[b]
    BY <1>1 DEF Shuffled
  <1>4. \A a \in 1 .. n : t[a].from \in Position
    <2>1. \A a \in 1 .. n : t[a] \in TextEdit(CH)
      BY <1>2
    <2>2. \A e \in TextEdit(CH) : e.from \in Position
      BY DEF TextEdit
    <2>. QED
      BY <2>1, <2>2
  <1>5. \A j \in 1 .. n : ~Earlier(t[j].to, t[j].from)
    BY <1>2, <1>3 DEF Legal
  <1>6. ASSUME NEW j \in 1 .. n, NEW k \in 1 .. n, j < k
        PROVE  Earlier(t[k].from, t[j].from) /\ ~Earlier(t[j].from, t[k].to)
    <2>1. ~Earlier(t[j].from, t[k].from)
      BY <1>1, <1>2, <1>6 DEF SortedUpTo, LastUpTo
    <2>2. t[j].from # t[k].from
      BY <1>2, <1>6 DEF DistinctStarts
    <2>3. Earlier(t[k].from, t[j].from)
      BY <1>4, <2>1, <2>2, EarlierOrder
    <2>4. PICK a \in 1 .. n, b \in 1 .. n : t[j] = s[a] /\ t[k] = s[b]
      BY <1>3
    <2>5. Precedes(s, b, a)
      BY <2>3, <2>4 DEF Precedes
    <2>6. ~Earlier(s[a].from, s[b].to)
      BY <1>2, <2>4, <2>5 DEF Legal
    <2>. QED
      BY <2>3, <2>4, <2>6
  <1>7. Backwards(t)
    BY <1>2, <1>5, <1>6 DEF Backwards
  <1>8. \A L : ValidAmong(CH, L, t, Len(t)) = EditSet(CH, L, s)
    <2>1. TAKE L
    <2>2. \A e : (\E j \in 1 .. n : e = t[j]) <=> (\E j \in 1 .. n : e = s[j])
      BY <1>3
    <2>. QED
      BY <1>2, <2>2 DEF ValidAmong, EditSet
  <1>. QED
    BY <1>2, <1>7, <1>8 DEF t

\* Two positions of the content that are one place are one position.
LEMMA OffsetSame ==
  ASSUME NEW CH, NEW c \in Seq(CH), NEW E, NEW L, AreLines(CH, c, E, L),
         NEW p \in Position, PosIn(L, p), NEW q \in Position, PosIn(L, q), Offset(E, p) = Offset(E, q)
  PROVE  p = q
  <1>1. Offset(E, p) \in 0 .. Len(c)
    BY OffsetIs
  <1>2. ~Earlier(p, q)
    <2>1. Earlier(p, q) => Offset(E, p) < Offset(E, q)
      BY OffsetGrows
    <2>. QED
      BY <1>1, <2>1
  <1>3. ~Earlier(q, p)
    <2>1. Earlier(q, p) => Offset(E, q) < Offset(E, p)
      BY OffsetGrows
    <2>. QED
      BY <1>1, <2>1
  <1>. QED
    BY <1>2, <1>3, EarlierOrder

\* What the edits mean, in pieces.
LEMMA ReplacedIs ==
  ASSUME NEW CH, NEW c \in Seq(CH), NEW s \in Seq(TextEdit(CH)), DistinctStarts(s)
  PROVE  Replaced(c, s) = FlattenSeq(InPieces(CH, c, Ends(c), Split(c), EditSet(CH, Split(c), s)))
  <1> DEFINE E == Ends(c)
             L == Split(c)
             n == Len(c)
             W == ValidEdits(CH, L)
             v == EditSet(CH, L, s)
             fr == FromOf(CH, E, L)
             to == ToOf(CH, E, L)
             tx == TextOf(CH, L)
             valid == {k \in DOMAIN s : InRange(L, s[k])}
             from == [k \in valid |-> Offset(E, s[k].from)]
             til == [k \in valid |-> Offset(E, s[k].to)]
             here(i) == {k \in valid : from[k] + 1 = i}
             texts(i) == [k \in DOMAIN s |-> IF k \in here(i) THEN s[k].text ELSE <<>>]
             inserted(i) == FlattenSeq(texts(i))
             kept(i) == IF i <= Len(c) /\ \A k \in valid : ~(from[k] < i /\ i <= til[k]) THEN <<c[i]>> ELSE <<>>
  <1>1. Replaced(c, s) = FlattenSeq([i \in 1 .. Len(c) + 1 |-> inserted(i) \o kept(i)])
    BY DEF Replaced
  <1>2. AreLines(CH, c, E, L)
    BY LinesAre
  <1>. HIDE DEF E, L
  <1>3. \A e \in W :
           /\ e.from \in Position /\ PosIn(L, e.from)
           /\ fr[e] = Offset(E, e.from) /\ to[e] = Offset(E, e.to) /\ tx[e] = e.text
    BY <1>2, ValidAre
  <1>4. \A k \in valid : s[k] \in W /\ s[k] \in v /\ k \in DOMAIN s
    BY DEF ValidEdits, EditSet
  <1>5. \A e \in v : e \in W /\ \E k \in valid : e = s[k]
    BY DEF ValidEdits, EditSet
  <1>6. \A k \in valid : from[k] = fr[s[k]] /\ til[k] = to[s[k]] /\ s[k].text = tx[s[k]]
    <2>1. \A k \in valid : from[k] = Offset(E, s[k].from) /\ til[k] = Offset(E, s[k].to)
      OBVIOUS
    <2>. HIDE DEF from, til, valid, W, v, fr, to, tx
    <2>. QED
      BY <1>3, <1>4, <2>1
  <1>7. \A k \in DOMAIN s : s[k] \in TextEdit(CH) /\ s[k].text \in Seq(CH)
    <2>1. \A k \in DOMAIN s : s[k] \in TextEdit(CH)
      OBVIOUS
    <2>2. \A e \in TextEdit(CH) : e.text \in Seq(CH)
      BY DEF TextEdit
    <2>. QED
      BY <2>1, <2>2
  <1>. HIDE DEF from, til, valid, W, v, fr, to, tx
  <1>8. \A i \in 1 .. n + 1 : kept(i) = Kept(c, fr, to, v, i)
    <2>1. TAKE i \in 1 .. n + 1
    <2>2. (\A k \in valid : ~(from[k] < i /\ i <= til[k])) <=> ~Covered(fr, to, v, i)
      BY <1>4, <1>5, <1>6 DEF Covered
    <2>. QED
      BY <2>2 DEF Kept
  <1>9. ASSUME NEW i \in 1 .. n + 1 PROVE inserted(i) = Put(fr, tx, v, i)
    <2>1. /\ DOMAIN s = 1 .. Len(s) /\ Len(s) \in Nat /\ texts(i) \in Seq(Seq(CH)) /\ Len(texts(i)) = Len(s)
          /\ \A k \in 1 .. Len(s) : texts(i)[k] = IF k \in here(i) THEN s[k].text ELSE <<>>
      <3>1. \A k \in DOMAIN s : (IF k \in here(i) THEN s[k].text ELSE <<>>) \in Seq(CH)
        <4>1. <<>> \in Seq(CH)
          OBVIOUS
        <4>. HIDE DEF here
        <4>. QED
          BY <1>7, <4>1
      <3>2. DOMAIN s = 1 .. Len(s) /\ Len(s) \in Nat
        OBVIOUS
      <3>. HIDE DEF here
      <3>. QED
        BY <3>1, <3>2
    <2>2. CASE here(i) = {}
      <3>1. Begins(fr, v, i) = {}
        BY <1>5, <1>6, <2>2 DEF Begins
      <3>2. Put(fr, tx, v, i) = <<>>
        BY <3>1 DEF Put
      <3>3. \A k \in 1 .. Len(texts(i)) : texts(i)[k] = <<>>
        BY <2>1, <2>2
      <3>. HIDE DEF texts, here
      <3>4. inserted(i) = <<>>
        BY <2>1, <3>3, FlattenEmpties
      <3>. QED
        BY <3>2, <3>4
    <2>3. CASE here(i) # {}
      <3>1. PICK k \in valid : k \in here(i) /\ from[k] + 1 = i
        BY <2>3
      <3>2. ASSUME NEW j \in valid, fr[s[j]] + 1 = i PROVE j = k
        <4> DEFINE p == s[j].from
                   q == s[k].from
        <4>1. /\ p \in Position /\ PosIn(L, p) /\ fr[s[j]] = Offset(E, p)
              /\ q \in Position /\ PosIn(L, q) /\ fr[s[k]] = Offset(E, q)
          BY <1>3, <1>4
        <4>. HIDE DEF p, q
        <4>2. Offset(E, p) \in 0 .. Len(c) /\ Offset(E, q) \in 0 .. Len(c)
          BY <1>2, <4>1, OffsetIs
        <4>3. Offset(E, p) + 1 = Offset(E, q) + 1
          BY <1>6, <3>1, <3>2, <4>1
        <4>4. Offset(E, p) = Offset(E, q)
          <5>1. \A a, b \in Nat : a + 1 = b + 1 => a = b
            OBVIOUS
          <5>2. Offset(E, p) \in Nat /\ Offset(E, q) \in Nat
            BY <4>2
          <5>. QED
            BY <4>3, <5>1, <5>2
        <4>5. p = q
          BY <1>2, <4>1, <4>4, OffsetSame
        <4>. QED
          BY <1>4, <4>5 DEF DistinctStarts, p, q
      <3>3. here(i) = {k}
        <4>1. \A j \in here(i) : j \in valid /\ fr[s[j]] + 1 = i
          BY <1>6
        <4>. HIDE DEF here
        <4>. QED
          BY <3>1, <3>2, <4>1
      <3>4. Begins(fr, v, i) = {s[k]}
        <4>1. s[k] \in Begins(fr, v, i)
          BY <1>4, <1>6, <3>1 DEF Begins
        <4>2. \A e \in Begins(fr, v, i) : e = s[k]
          <5>1. TAKE e \in Begins(fr, v, i)
          <5>2. e \in v /\ fr[e] + 1 = i
            BY DEF Begins
          <5>3. PICK j \in valid : e = s[j]
            BY <1>5, <5>2
          <5>4. j = k
            BY <3>2, <5>2, <5>3
          <5>. QED
            BY <5>3, <5>4
        <4>. QED
          BY <4>1, <4>2
      <3>5. Put(fr, tx, v, i) = s[k].text
        <4>1. First({s[k]}) = s[k]
          BY DEF First
        <4>. QED
          BY <1>6, <3>4, <4>1 DEF Put
      <3>6. inserted(i) = s[k].text
        <4>1. k \in 1 .. Len(texts(i)) /\ texts(i)[k] = s[k].text
          BY <1>4, <2>1, <3>3
        <4>2. \A j \in 1 .. Len(texts(i)) : j # k => texts(i)[j] = <<>>
          BY <2>1, <3>3
        <4> DEFINE u == texts(i)
        <4>3. /\ u \in Seq(Seq(CH)) /\ k \in 1 .. Len(u) /\ u[k] = s[k].text
              /\ \A j \in 1 .. Len(u) : j # k => u[j] = <<>>
          BY <2>1, <4>1, <4>2
        <4>. HIDE DEF u
        <4>4. FlattenSeq(u) = u[k]
          BY <4>3, FlattenLone
        <4>. QED
          BY <4>3, <4>4 DEF u
      <3>. QED
        BY <3>5, <3>6
    <2>. QED
      BY <2>2, <2>3
  <1>10. [i \in 1 .. n + 1 |-> inserted(i) \o kept(i)] = InPieces(CH, c, E, L, v)
    <2>. HIDE DEF inserted, kept
    <2>1. \A i \in 1 .. n + 1 : inserted(i) \o kept(i) = Put(fr, tx, v, i) \o Kept(c, fr, to, v, i)
      BY <1>8, <1>9
    <2>. QED
      BY <2>1 DEF InPieces, Pieces, fr, to, tx
  <1>11. Replaced(c, s) = FlattenSeq(InPieces(CH, c, E, L, v))
    BY <1>1, <1>10
  <1>. QED
    BY <1>11 DEF E, L, v

\* The content that lines stand for is their join.
LEMMA JoinOf ==
  ASSUME NEW CH, NL \in CH, NEW x \in Seq(CH), NEW M, Opened(M) = <<NL>> \o x
  PROVE  Join(M) = x
  <1>1. Join(M) = Tail(<<NL>> \o x)
    BY DEF Join, Opened
  <1> DEFINE K == <<NL>> \o x
  <1>2. IsOpened(CH, K, x)
    BY OpenedContent
  <1>. HIDE DEF K
  <1>3. K \in Seq(CH) /\ Len(K) = Len(x) + 1 /\ \A i \in 1 .. Len(x) : K[i + 1] = x[i]
    BY <1>2 DEF IsOpened
  <1>4. Len(x) \in Nat /\ K # <<>>
    BY <1>3
  <1>5. Tail(K) \in Seq(CH) /\ Len(Tail(K)) = Len(x)
    BY <1>3, <1>4, HeadTailProperties
  <1>6. \A i \in 1 .. Len(Tail(K)) : Tail(K)[i] = K[i + 1]
    BY <1>3, <1>4, <1>5, HeadTailProperties
  <1>7. \A i \in 1 .. Len(Tail(K)) : Tail(K)[i] = x[i]
    BY <1>3, <1>5, <1>6
  <1>8. Tail(K) = x
    BY <1>5, <1>7, SeqEqual
  <1>. QED
    BY <1>1, <1>8 DEF K

\* Splitting a content and joining its lines gives that content.
LEMMA SplitAndJoin ==
  ASSUME NEW CH, NL \in CH, NEW c \in Seq(CH)
  PROVE  Join(Split(c)) = c
  <1> DEFINE K == <<NL>> \o c
  <1>1. AreLines(CH, c, Ends(c), Split(c)) /\ IsOpened(CH, K, c)
    BY LinesAre, OpenedContent
  <1>. HIDE DEF K
  <1>2. Opened(Split(c)) = K
    BY <1>1, OpenedSplit
  <1>. QED
    BY <1>2, JoinOf DEF K

\* An edit leaves at least one line.
LEMMA EditKeepsOpened ==
  ASSUME NEW CH, NL \in CH, NEW M \in Seq(Seq(CH)), Opened(M) # <<>>, NEW e \in TextEdit(CH)
  PROVE  Opened(ApplyEdit(M, e)) # <<>>
  <1>1. CASE InRange(M, e)
    <2> DEFINE p == e.from
               a == Opened(SubSeq(M, 1, p.line))
               b == SubSeq(M[p.line + 1], 1, p.char)
               r == e.text \o After(M, e.to)
    <2>1. p \in Position /\ e.to \in Position /\ e.text \in Seq(CH)
      BY DEF TextEdit
    <2>2. PosIn(M, p) /\ PosIn(M, e.to) /\ Opened(ApplyEdit(M, e)) = Upto(M, p) \o r
      BY <1>1, EditIs
    <2>3. Upto(M, p) \in Seq(CH) /\ After(M, e.to) \in Seq(CH)
      BY <2>1, <2>2, Halves
    <2>4. r \in Seq(CH)
      BY <2>1, <2>3
    <2>5. PICK u, x, y, w : AreAround(CH, M, p, u, x, y, w)
      BY <2>1, <2>2, AroundPosition
    <2>6. u = SubSeq(M, 1, p.line) /\ x = b /\ u \in Seq(Seq(CH)) /\ x \in Seq(CH)
      BY <2>5 DEF AreAround
    <2>7. a \in Seq(CH) /\ b \in Seq(CH)
      BY <2>6, OpenedIs
    <2>8. Upto(M, p) = a \o (<<NL>> \o b)
      BY DEF Upto
    <2>. HIDE DEF a, b, r, p
    <2>9. Len(<<NL>> \o b) > 0 /\ <<NL>> \o b \in Seq(CH)
      BY <2>7
    <2> DEFINE z == <<NL>> \o b
    <2>10. z \in Seq(CH) /\ Len(z) > 0 /\ Upto(M, p) = a \o z
      BY <2>8, <2>9
    <2>. HIDE DEF z
    <2>11. Len(Upto(M, p)) > 0
      BY <2>7, <2>10
    <2>12. Len(Upto(M, p) \o r) > 0
      BY <2>3, <2>4, <2>11
    <2>. QED
      BY <2>2, <2>12
  <1>2. CASE ~InRange(M, e)
    BY <1>2 DEF ApplyEdit
  <1>. QED
    BY <1>1, <1>2

\* Whatever edits are applied to a content, the result is one.
LEMMA AppliedTyped ==
  ASSUME NEW CH, NL \in CH, NEW c \in Seq(CH), NEW s \in Seq(TextEdit(CH))
  PROVE  ApplyTextEditsToContent(c, s) \in Seq(CH)
  <1> DEFINE L == Split(c)
             t == SortBackwards(s)
             n == Len(t)
  <1>1. L \in Seq(Seq(CH)) /\ Opened(L) # <<>>
    <2> DEFINE K == <<NL>> \o c
    <2>1. AreLines(CH, c, Ends(c), L) /\ IsOpened(CH, K, c)
      BY LinesAre, OpenedContent
    <2>. HIDE DEF K, L
    <2>2. Opened(L) = K
      BY <2>1, OpenedSplit
    <2>3. K # <<>>
      BY <2>1 DEF IsOpened
    <2>. QED
      BY <2>1, <2>2, <2>3 DEF AreLines
  <1>2. t \in Seq(TextEdit(CH))
    BY SortIs DEF Shuffled
  <1>. HIDE DEF L, t
  <1>3. PICK m : IsApplied(CH, L, t, m)
    BY <1>1, <1>2, EditsApplied
  <1>4. n \in Nat /\ m[0] = L /\ \A k \in 1 .. n : m[k] = ApplyEdit(m[k - 1], t[k]) /\ t[k] \in TextEdit(CH)
    BY <1>2, <1>3 DEF IsApplied
  <1>5. \A k \in 0 .. n : m[k] \in Seq(Seq(CH))
    BY <1>3 DEF IsApplied
  <1> DEFINE Bad == {k \in 0 .. n : Opened(m[k]) = <<>>}
  <1>6. ASSUME NEW k \in Bad, \A j \in Bad : k <= j PROVE FALSE
    <2>1. k \in 0 .. n /\ Opened(m[k]) = <<>> /\ k # 0
      BY <1>1, <1>4
    <2>2. k \in 1 .. n /\ k - 1 \in 0 .. n /\ ~(k <= k - 1)
      BY <1>4, <2>1
    <2>3. Opened(m[k - 1]) # <<>>
      BY <1>6, <2>2
    <2> DEFINE M == m[k - 1]
               e == t[k]
    <2>4. M \in Seq(Seq(CH)) /\ Opened(M) # <<>> /\ e \in TextEdit(CH) /\ m[k] = ApplyEdit(M, e)
      BY <1>4, <1>5, <2>2, <2>3
    <2>. HIDE DEF M, e
    <2>. QED
      BY <2>1, <2>4, EditKeepsOpened
  <1>7. Bad = {}
    <2>1. Bad \in SUBSET Nat
      OBVIOUS
    <2>. HIDE DEF Bad
    <2>. QED
      BY <1>6, <2>1, LeastElement
  <1>8. n \in 0 .. n
    BY <1>4
  <1>9. Opened(m[n]) # <<>> /\ m[n] \in Seq(Seq(CH))
    BY <1>5, <1>7, <1>8
  <1>10. ApplyEdits(L, t) = m[n]
    BY <1>3 DEF IsApplied
  <1>11. Opened(m[n]) \in Seq(CH)
    BY <1>9, OpenedIs
  <1>12. Join(m[n]) = Tail(Opened(m[n]))
    BY DEF Join, Opened
  <1>13. Tail(Opened(m[n])) \in Seq(CH)
    BY <1>9, <1>11, HeadTailProperties
  <1>. QED
    BY <1>10, <1>12, <1>13 DEF ApplyTextEditsToContent, L, t

(***************************************************************************)
(* For any content and any edits in it that do not overlap and begin at    *)
(* places of their own: applying them one after the other in the order of  *)
(* the sort has the effect of replacing all ranges at once, so no edit     *)
(* shifts the position of another.                                         *)
(***************************************************************************)
THEOREM EditsReplaceAtOnce ==
  ASSUME NEW CH, NL \in CH, NEW c \in Seq(CH), NEW s \in Seq(TextEdit(CH)), Legal(s), DistinctStarts(s)
  PROVE  ApplyTextEditsToContent(c, s) = Replaced(c, s)
  <1> DEFINE E == Ends(c)
             L == Split(c)
             t == SortBackwards(s)
             v == EditSet(CH, L, s)
             w == InPieces(CH, c, E, L, v)
  <1>1. AreLines(CH, c, E, L)
    BY LinesAre
  <1>2. t \in Seq(TextEdit(CH)) /\ Backwards(t) /\ ValidAmong(CH, L, t, Len(t)) = v
    BY SortGoesBackwards
  <1>3. Replaced(c, s) = FlattenSeq(w)
    BY ReplacedIs
  <1>. HIDE DEF E, L, t, v
  <1>4. IsMeant(CH, c, E, L, v, ApplyEdits(L, t))
    BY <1>1, <1>2, BackwardsApplied
  <1>5. Opened(ApplyEdits(L, t)) = <<NL>> \o FlattenSeq(w)
    BY <1>4 DEF IsMeant
  <1>6. FlattenSeq(w) \in Seq(CH)
    <2>1. v \in SUBSET ValidEdits(CH, L)
      BY DEF v, EditSet
    <2>2. TextOf(CH, L) \in [ValidEdits(CH, L) -> Seq(CH)]
      BY <1>1, ValidAre
    <2>3. w \in Seq(Seq(CH))
      BY <2>1, <2>2, PiecesAre DEF InPieces
    <2>. HIDE DEF w
    <2>. QED
      BY <2>3, FlattenIsSeq
  <1>. HIDE DEF w
  <1>7. Join(ApplyEdits(L, t)) = FlattenSeq(w)
    BY <1>5, <1>6, JoinOf
  <1>. QED
    BY <1>3, <1>7 DEF ApplyTextEditsToContent, L, t

-----------------------------------------------------------------------------
(* Part 3: the files. *)

(***************************************************************************)
(* What the changes made add up to: nothing for none, and the effect of    *)
(* one more on top of those before it.                                     *)
(***************************************************************************)
IsEffects(f, made, m) == f = [k \in 0 .. m |-> IF k = 0 THEN Initial ELSE Effect(f[k - 1], made[k].change)]

LEMMA EffectsGoOn ==
  ASSUME NEW f, NEW made, NEW m \in Nat, IsEffects(f, made, m)
  PROVE  /\ f[0] = Initial
         /\ \A k \in 1 .. m : f[k] = Effect(f[k - 1], made[k].change)
         /\ DOMAIN f = 0 .. m /\ f = [k \in 0 .. m |-> f[k]]
  <1>0. f = [k \in 0 .. m |-> IF k = 0 THEN Initial ELSE Effect(f[k - 1], made[k].change)]
    BY DEF IsEffects
  <1>1. 0 \in 0 .. m /\ \A k \in 1 .. m : k \in 0 .. m /\ k # 0
    OBVIOUS
  <1>2. f[0] = Initial
    BY <1>0, <1>1
  <1>3. \A k \in 1 .. m : f[k] = Effect(f[k - 1], made[k].change)
    BY <1>0, <1>1
  <1>4. DOMAIN f = 0 .. m
    BY <1>0
  <1>5. f = [k \in 0 .. m |-> f[k]]
    BY <1>0
  <1>. QED
    BY <1>2, <1>3, <1>4, <1>5

\* There is such a function.
LEMMA EffectsExist ==
  ASSUME NEW made, NEW n \in Nat
  PROVE  \E f : IsEffects(f, made, n)
  <1> DEFINE Bad == {m \in 0 .. n : ~\E f : IsEffects(f, made, m)}
  <1>1. ASSUME NEW m \in Bad, \A k \in Bad : m <= k PROVE FALSE
    <2>1. CASE m = 0
      <3> DEFINE f == [k \in 0 .. 0 |-> Initial]
      <3>1. \A k \in 0 .. 0 : k = 0
        OBVIOUS
      <3>2. f = [k \in 0 .. 0 |-> IF k = 0 THEN Initial ELSE Effect(f[k - 1], made[k].change)]
        BY <3>1
      <3>3. IsEffects(f, made, m)
        BY <2>1, <3>2 DEF IsEffects
      <3>. QED
        BY <3>3
    <2>2. CASE m # 0
      <3>1. m \in 1 .. n /\ m - 1 \in 0 .. n /\ ~(m <= m - 1) /\ m - 1 \in Nat
        BY <2>2
      <3>2. PICK g : IsEffects(g, made, m - 1)
        BY <1>1, <3>1
      <3> DEFINE f == [k \in 0 .. m |-> IF k = m THEN Effect(g[m - 1], made[m].change) ELSE g[k]]
      <3>3. /\ g[0] = Initial
            /\ \A k \in 1 .. m - 1 : g[k] = Effect(g[k - 1], made[k].change)
        BY <3>1, <3>2, EffectsGoOn
      <3>4. \A k \in 0 .. m : k = 0 \/ k = m \/ (k # 0 /\ k # m /\ k \in 1 .. m - 1)
        BY <3>1
      <3>5. \A k \in 1 .. m : f[k - 1] = g[k - 1]
        BY <3>1
      <3>6. \A k \in 0 .. m : f[k] = IF k = 0 THEN Initial ELSE Effect(f[k - 1], made[k].change)
        <4>1. TAKE k \in 0 .. m
        <4>2. CASE k = 0
          BY <2>2, <3>3, <4>2
        <4>3. CASE k = m
          <5>1. f[k] = Effect(g[m - 1], made[m].change) /\ k \in 1 .. m
            BY <3>1, <4>3
          <5>. HIDE DEF f
          <5>. QED
            BY <3>5, <4>3, <5>1, <2>2
        <4>4. CASE k # 0 /\ k # m /\ k \in 1 .. m - 1
          <5>1. f[k] = g[k] /\ k \in 1 .. m
            BY <3>1, <4>4
          <5>2. g[k] = Effect(g[k - 1], made[k].change)
            BY <3>3, <4>4
          <5>. HIDE DEF f
          <5>. QED
            BY <3>5, <4>4, <5>1, <5>2
        <4>. QED
          BY <3>4, <4>2, <4>3, <4>4
      <3>7. f = [k \in 0 .. m |-> f[k]]
        OBVIOUS
      <3>. HIDE DEF f
      <3>8. f = [k \in 0 .. m |-> IF k = 0 THEN Initial ELSE Effect(f[k - 1], made[k].change)]
        BY <3>6, <3>7
      <3>. QED
        BY <3>8 DEF IsEffects
    <2>. QED
      BY <2>1, <2>2
  <1>2. Bad = {}
    <2>1. Bad \in SUBSET Nat
      OBVIOUS
    <2>. HIDE DEF Bad
    <2>. QED
      BY <1>1, <2>1, LeastElement
  <1>3. n \in 0 .. n
    OBVIOUS
  <1>. QED
    BY <1>2, <1>3

\* The effects of the changes made are its last value.
LEMMA EffectsAre ==
  ASSUME NEW made, Len(made) \in Nat
  PROVE  \E f : IsEffects(f, made, Len(made)) /\ Effects(made) = f[Len(made)]
  <1> DEFINE n == Len(made)
             After1(f) == f = [k \in 0 .. n |-> IF k = 0 THEN Initial ELSE Effect(f[k - 1], made[k].change)]
             g == CHOOSE f : After1(f)
  <1>1. \E f : After1(f)
    BY EffectsExist DEF IsEffects
  <1>2. After1(g)
    BY <1>1
  <1>3. Effects(made) = g[n]
    BY DEF Effects
  <1>. HIDE DEF g
  <1>. QED
    BY <1>2, <1>3 DEF IsEffects

LEMMA EffectsOfNone ==
  ASSUME NEW made, Len(made) = 0
  PROVE  Effects(made) = Initial
  <1>1. PICK f : IsEffects(f, made, 0) /\ Effects(made) = f[0]
    BY EffectsAre
  <1>. QED
    BY <1>1, EffectsGoOn

LEMMA EffectsOfMore ==
  ASSUME NEW S, NEW made \in Seq(S), NEW x \in S
  PROVE  Effects(Append(made, x)) = Effect(Effects(made), x.change)
  <1> DEFINE n == Len(made)
             more == Append(made, x)
  <1>1. n \in Nat /\ Len(more) = n + 1 /\ more[n + 1] = x /\ \A k \in 1 .. n : more[k] = made[k]
    OBVIOUS
  <1>. HIDE DEF n, more
  <1>2. PICK f : IsEffects(f, made, n) /\ Effects(made) = f[n]
    BY <1>1, EffectsAre DEF n
  <1>3. PICK g : IsEffects(g, more, n + 1) /\ Effects(more) = g[n + 1]
    BY <1>1, EffectsAre
  <1>4. f[0] = Initial /\ \A k \in 1 .. n : f[k] = Effect(f[k - 1], made[k].change)
    BY <1>1, <1>2, EffectsGoOn
  <1>5. g[0] = Initial /\ \A k \in 1 .. n + 1 : g[k] = Effect(g[k - 1], more[k].change)
    <2>1. n + 1 \in Nat
      BY <1>1
    <2>. QED
      BY <1>3, <2>1, EffectsGoOn
  <1> DEFINE Bad == {k \in 0 .. n : f[k] # g[k]}
  <1>6. ASSUME NEW k \in Bad, \A j \in Bad : k <= j PROVE FALSE
    <2>1. k \in 0 .. n /\ f[k] # g[k] /\ k # 0
      BY <1>4, <1>5
    <2>2. k \in 1 .. n /\ k \in 1 .. n + 1 /\ k - 1 \in 0 .. n /\ ~(k <= k - 1)
      BY <1>1, <2>1
    <2>3. f[k - 1] = g[k - 1]
      BY <1>6, <2>2
    <2>4. more[k] = made[k]
      BY <1>1, <2>2
    <2>5. f[k] = Effect(f[k - 1], made[k].change) /\ g[k] = Effect(g[k - 1], more[k].change)
      BY <1>4, <1>5, <2>2
    <2>. QED
      BY <2>1, <2>3, <2>4, <2>5, Zenon
  <1>7. Bad = {}
    <2>1. Bad \in SUBSET Nat
      BY <1>1
    <2>. HIDE DEF Bad
    <2>. QED
      BY <1>6, <2>1, LeastElement
  <1>8. f[n] = g[n]
    BY <1>1, <1>7
  <1>9. g[n + 1] = Effect(g[n], more[n + 1].change)
    <2>1. n + 1 \in 1 .. n + 1 /\ (n + 1) - 1 = n
      BY <1>1
    <2>. QED
      BY <1>5, <2>1
  <1>. QED
    BY <1>1, <1>2, <1>3, <1>8, <1>9, Zenon DEF more

\* What is known of a change.
LEMMA ChangeIs ==
  ASSUME NEW c \in Change
  PROVE  /\ c.file \in Files
         /\ c.kind = "edit" => c.edits \in Seq(TextEdit(STRING))
         /\ c.kind = "rename" => c.to \in Files
  <1>1. CASE c \in FileEdit
    <2> DEFINE T == Seq(TextEdit(STRING))
    <2>1. c \in [kind : {"edit"}, file : Files, edits : T]
      BY <1>1 DEF FileEdit
    <2>. HIDE DEF T
    <2>2. c.kind = "edit" /\ c.file \in Files /\ c.edits \in T
      BY <2>1
    <2>. QED
      BY <2>2 DEF T
  <1>2. CASE c \in [kind : {"create", "delete", "other"}, file : Files]
    BY <1>2
  <1>3. CASE c \in Rename
    BY <1>3 DEF Rename
  <1>. QED
    BY <1>1, <1>2, <1>3 DEF Change

\* The edits of a file, taken at once, and nothing where there is no file.
Edited(x, edits) == IF x = Absent THEN Absent ELSE Replaced(x, edits)

(***************************************************************************)
(* The effect of a change, by its kind.                                    *)
(***************************************************************************)
LEMMA EffectIs ==
  ASSUME NEW d, NEW c
  PROVE  /\ c.kind = "edit" => Effect(d, c) = [d EXCEPT ![c.file] = Edited(d[c.file], c.edits)]
         /\ c.kind = "create" => Effect(d, c) = [d EXCEPT ![c.file] = <<>>]
         /\ c.kind = "delete" => Effect(d, c) = [d EXCEPT ![c.file] = Absent]
         /\ c.kind = "rename" => Effect(d, c) = [d EXCEPT ![c.file] = Absent, ![c.to] = d[c.file]]
  BY DEF Effect, Edited

\* Two disks that agree on the files without a mark.
Agree(d, e, marks) ==
  /\ DOMAIN d = Files /\ DOMAIN e = Files
  /\ \A f \in Files : marks[f] = {} => d[f] = e[f]

\* One file becomes the same on both, or is marked.
LEMMA AgreeExcept ==
  ASSUME NEW d, NEW e, NEW marks, NEW more, Agree(d, e, marks), NEW f \in Files, NEW x, NEW y,
         \A g \in Files \ {f} : more[g] = {} => marks[g] = {},
         more[f] = {} => x = y
  PROVE  Agree([d EXCEPT ![f] = x], [e EXCEPT ![f] = y], more)
  BY DEF Agree

-----------------------------------------------------------------------------
(***************************************************************************)
(* The files, and what a call holds of them.                               *)
(***************************************************************************)
DiskTyped(d) == DOMAIN d = Files /\ \A f \in Files : d[f] = Absent \/ d[f] \in Seq(STRING)

\* A call holds a content exactly when it is about to write.
HoldsOK(r) ==
  /\ r.pc = "write" <=> r.content # Absent
  /\ r.pc = "write" => r.content \in Seq(STRING) /\ r.cur.kind = "edit"

DiskOK ==
  /\ DiskTyped(disk) /\ marred \in [Files -> SUBSET Reasons]
  /\ \A t \in Threads : HoldsOK(thread[t])

\* What one step of t leaves in its locals.
LEMMA ThreadIs ==
  ASSUME Inv, NEW t \in Threads, NEW r, Become(t, r)
  PROVE  thread'[t] = r /\ \A u \in Threads \ {t} : thread'[u] = thread[u]
  BY DEF Inv, Become

\* The change in hand.
LEMMA CurIs ==
  ASSUME Inv, NEW t \in Threads, thread[t].pc \in {"apply", "write"}
  PROVE  thread[t].cur \in Change /\ File(t) \in Files
  <1>1. thread[t].cur \in Change
    BY DEF Inv, OnCourse, InHand
  <1>. QED
    BY <1>1, ChangeIs DEF File

\* One call steps.
LEMMA DiskOneCall ==
  ASSUME Inv, DiskOK, NEW t \in Threads, NEW r, Become(t, r), HoldsOK(r), DiskTyped(disk'), marred' \in [Files -> SUBSET Reasons]
  PROVE  DiskOK'
  <1>1. thread'[t] = r /\ \A u \in Threads \ {t} : thread'[u] = thread[u]
    BY ThreadIs
  <1>2. \A u \in Threads : HoldsOK(thread'[u])
    BY <1>1 DEF DiskOK
  <1>. QED
    BY <1>2 DEF DiskOK, HoldsOK, DiskTyped

\* One file gets another content.
LEMMA TypedExcept ==
  ASSUME NEW d, DiskTyped(d), NEW f \in Files, NEW x, x = Absent \/ x \in Seq(STRING)
  PROVE  DiskTyped([d EXCEPT ![f] = x])
  <1> DEFINE e == [d EXCEPT ![f] = x]
             T == Seq(STRING)
  <1>1. DOMAIN d = Files /\ \A g \in Files : d[g] = Absent \/ d[g] \in T
    BY DEF DiskTyped
  <1>2. x = Absent \/ x \in T
    OBVIOUS
  <1>. HIDE DEF T
  <1>3. e = [g \in Files |-> e[g]] /\ \A g \in Files : e[g] = IF g = f THEN x ELSE d[g]
    BY <1>1
  <1>. HIDE DEF e
  <1>4. \A g \in Files : e[g] = Absent \/ e[g] \in T
    BY <1>1, <1>2, <1>3
  <1>. QED
    BY <1>3, <1>4 DEF DiskTyped, e, T

\* A call with a change in hand fails or has made it.
LEMMA FailedAre ==
  ASSUME NEW r, LocalsOK(r)
  PROVE  [r EXCEPT !.pc = "idle", !.outcome = "error", !.content = Absent]
           = Locals("idle", r.edit, r.todo, r.rest, r.cur, Absent, "error")
  <1> DEFINE pc == "idle"
             outcome == "error"
  <1>. HIDE DEF pc, outcome
  <1>1. [r EXCEPT !.pc = pc, !.outcome = outcome, !.content = Absent]
          = Locals(pc, r.edit, r.todo, r.rest, r.cur, Absent, outcome)
    BY LocalsFailed
  <1>. QED
    BY <1>1 DEF pc, outcome

LEMMA FailHolds ==
  ASSUME Inv, NEW t \in Threads
  PROVE  /\ HoldsOK([thread[t] EXCEPT !.pc = "idle", !.outcome = "error", !.content = Absent])
         /\ HoldsOK([thread[t] EXCEPT !.pc = "next", !.content = Absent])
  <1> DEFINE r == thread[t]
  <1>1. LocalsOK(r)
    BY FieldsOf
  <1>. HIDE DEF r
  <1>2. [r EXCEPT !.pc = "idle", !.outcome = "error", !.content = Absent]
          = Locals("idle", r.edit, r.todo, r.rest, r.cur, Absent, "error")
    BY <1>1, FailedAre
  <1>3. [r EXCEPT !.pc = "next", !.content = Absent]
          = Locals("next", r.edit, r.todo, r.rest, r.cur, Absent, r.outcome)
    BY <1>1, LocalsHolding
  <1>. QED
    BY <1>2, <1>3 DEF HoldsOK, Locals, r

(***************************************************************************)
(* The steps of a call by what they leave: it moves on with its locals,    *)
(* fails, has read a file, tore one, or made a change.                     *)
(***************************************************************************)
Quiet == UNCHANGED <<disk, log, marred>>

Starts(t, e) ==
  /\ Quiet /\ thread[t].outcome = "none"
  /\ Become(t, Locals("next", e, e.documentChanges, e.changes, thread[t].cur, thread[t].content, "running"))

MovesTo(t, pc, todo, rest, cur, outcome) ==
  /\ Quiet /\ thread[t].pc = "next"
  /\ pc \in {"idle", "next", "apply"} /\ outcome \in {"ok", thread[t].outcome}
  /\ Become(t, Locals(pc, thread[t].edit, todo, rest, cur, thread[t].content, outcome))

Moves(t) == \E pc, todo, rest, cur, outcome : MovesTo(t, pc, todo, rest, cur, outcome)

Goes(t, pc, content, outcome) ==
  Become(t, Locals(pc, thread[t].edit, thread[t].todo, thread[t].rest, thread[t].cur, content, outcome))

Fails(t) == Quiet /\ Goes(t, "idle", Absent, "error")

Holds(t) ==
  /\ Quiet /\ thread[t].pc = "apply" /\ thread[t].cur.kind = "edit" /\ disk[File(t)] # Absent
  /\ Goes(t, "write", disk[File(t)], thread[t].outcome)

Tears(t) ==
  /\ thread[t].pc = "write" /\ UNCHANGED log /\ Goes(t, "idle", Absent, "error")
  /\ disk' = [disk EXCEPT ![File(t)] = <<>>] /\ Mark(File(t), {"torn"})

\* What speaks against a write of t.
Against(t) == {r \in {"lost", "clash"} : IF r = "lost" THEN disk[File(t)] # thread[t].content
                                                     ELSE ~Separate(thread[t].cur.edits)}

Writes(t) ==
  /\ thread[t].pc = "write" /\ Mark(File(t), Against(t))
  /\ disk' = [disk EXCEPT ![File(t)] = ApplyTextEditsToContent(thread[t].content, thread[t].cur.edits)]

Creates(t) ==
  thread[t].cur.kind = "create" /\ Heal(File(t)) /\ disk' = [disk EXCEPT ![File(t)] = <<>>]

Deletes(t) ==
  thread[t].cur.kind = "delete" /\ Heal(File(t)) /\ disk' = [disk EXCEPT ![File(t)] = Absent]

Renames(t) ==
  /\ thread[t].cur.kind = "rename"
  /\ marred' = [marred EXCEPT ![File(t)] = {}, ![thread[t].cur.to] = marred[File(t)]]
  /\ disk' = [disk EXCEPT ![File(t)] = Absent, ![thread[t].cur.to] = disk[File(t)]]

Makes(t) ==
  /\ log' = Append(log, [by |-> t, change |-> thread[t].cur])
  /\ Goes(t, "next", Absent, thread[t].outcome)
  /\ Writes(t) \/ Creates(t) \/ Deletes(t) \/ Renames(t)

\* Begin starts a call.
LEMMA BeginStarts ==
  ASSUME Inv, NEW t \in Threads, NEW e, Begin(t, e)
  PROVE  Starts(t, e)
  <1> DEFINE r == thread[t]
  <1>1. LocalsOK(r)
    BY FieldsOf
  <1>2. Become(t, [r EXCEPT !.pc = "next", !.edit = e, !.outcome = "running",
                            !.todo = e.documentChanges, !.rest = e.changes])
    BY DEF Begin
  <1>3. Become(t, Locals("next", e, e.documentChanges, e.changes, r.cur, r.content, "running"))
    BY <1>1, <1>2, LocalsStarted
  <1>. QED
    BY <1>3 DEF Begin, Starts, Quiet

\* NextChange moves on.
LEMMA NextMoves ==
  ASSUME Inv, NEW t \in Threads, NextChange(t)
  PROVE  Moves(t)
  <1> DEFINE r == thread[t]
             c == Head(r.todo)
             pc == IF Skipped(c) THEN "next" ELSE "apply"
             todo == Tail(r.todo)
  <1>1. LocalsOK(r) /\ OnCourse(r, ChangesBy(t)) /\ r.pc = "next" /\ Quiet
    BY FieldsOf DEF NextChange, At, Quiet
  <1>2. CASE r.todo # <<>> /\ Become(t, [r EXCEPT !.pc = pc, !.todo = todo, !.cur = c])
    <2>1. Become(t, Locals(pc, r.edit, todo, r.rest, c, r.content, r.outcome))
      <3>. HIDE DEF c, pc, todo
      <3>1. [r EXCEPT !.pc = pc, !.todo = todo, !.cur = c]
              = Locals(pc, r.edit, todo, r.rest, c, r.content, r.outcome)
        BY <1>1, LocalsAdvanced
      <3>. QED
        BY <1>2, <3>1
    <2>3. pc \in {"next", "apply"}
      OBVIOUS
    <2>. HIDE DEF pc, c, todo
    <2>4. MovesTo(t, pc, todo, r.rest, c, r.outcome)
      BY <1>1, <2>1, <2>3 DEF MovesTo
    <2>. QED
      BY <2>4 DEF Moves
  <1>3. ASSUME r.todo = <<>>, NEW d \in r.rest, Become(t, [r EXCEPT !.pc = "apply", !.rest = r.rest \ {d}, !.cur = d])
        PROVE  Moves(t)
    <2> DEFINE rest == r.rest \ {d}
    <2>1. Become(t, Locals("apply", r.edit, r.todo, rest, d, r.content, r.outcome))
      <3>1. [r EXCEPT !.pc = "apply", !.rest = rest, !.cur = d]
              = Locals("apply", r.edit, r.todo, rest, d, r.content, r.outcome)
        BY <1>1, LocalsChosen
      <3>. QED
        BY <1>3, <3>1
    <2>. HIDE DEF rest
    <2>3. MovesTo(t, "apply", r.todo, rest, d, r.outcome)
      BY <1>1, <2>1 DEF MovesTo
    <2>. QED
      BY <2>3 DEF Moves
  <1>4. CASE Become(t, [r EXCEPT !.pc = "idle", !.outcome = "ok"])
    <2>1. [r EXCEPT !.pc = "idle", !.outcome = "ok"]
            = Locals("idle", r.edit, r.todo, r.rest, r.cur, r.content, "ok")
      BY <1>1, LocalsEnded
    <2>2. MovesTo(t, "idle", r.todo, r.rest, r.cur, "ok")
      BY <1>1, <1>4, <2>1 DEF MovesTo
    <2>. QED
      BY <2>2 DEF Moves
  <1>5. \/ r.todo # <<>> /\ Become(t, [r EXCEPT !.pc = pc, !.todo = todo, !.cur = c])
        \/ r.todo = <<>> /\ \E d \in r.rest : Become(t, [r EXCEPT !.pc = "apply", !.rest = r.rest \ {d}, !.cur = d])
        \/ Become(t, [r EXCEPT !.pc = "idle", !.outcome = "ok"])
    BY Zenon DEF NextChange
  <1>. HIDE DEF r, c, pc, todo
  <1>. QED
    BY <1>2, <1>3, <1>4, <1>5, Zenon

\* What a call does that has a change in hand.
LEMMA InHandGoes ==
  ASSUME Inv, NEW t \in Threads,
         Refused(t) \/ Read(t) \/ Write(t) \/ WriteFails(t) \/ CreateFile(t) \/ RenameFile(t) \/ DeleteFile(t)
  PROVE  thread[t].pc \in {"apply", "write"} /\ (Fails(t) \/ Holds(t) \/ Tears(t) \/ Makes(t))
  <1>0. LocalsOK(thread[t])
    BY FieldsOf
  <1>1. thread[t].pc \in {"apply", "write"}
    BY DEF Refused, Read, Write, WriteFails, CreateFile, RenameFile, DeleteFile, Applying, At
  <1>2. Fail(t) => Goes(t, "idle", Absent, "error")
    <2>1. [thread[t] EXCEPT !.pc = "idle", !.outcome = "error", !.content = Absent]
            = Locals("idle", thread[t].edit, thread[t].todo, thread[t].rest, thread[t].cur, Absent, "error")
      BY <1>0, FailedAre
    <2>. QED
      BY <2>1 DEF Fail, Goes
  <1>3. \A content : Become(t, [thread[t] EXCEPT !.pc = "write", !.content = content])
                       => Goes(t, "write", content, thread[t].outcome)
    BY <1>0, LocalsHolding DEF Goes
  <1>4. Made(t) => Goes(t, "next", Absent, thread[t].outcome) /\ log' = Append(log, [by |-> t, change |-> thread[t].cur])
    <2>1. [thread[t] EXCEPT !.pc = "next", !.content = Absent]
            = Locals("next", thread[t].edit, thread[t].todo, thread[t].rest, thread[t].cur, Absent, thread[t].outcome)
      BY <1>0, LocalsHolding
    <2>. QED
      BY <2>1 DEF Made, Goes
  <1>5. CASE Refused(t)
    BY <1>1, <1>2, <1>5 DEF Refused, Fails, Quiet
  <1>6. CASE Read(t)
    <2>1. Quiet /\ thread[t].pc = "apply" /\ thread[t].cur.kind = "edit"
      BY <1>6 DEF Read, Applying, At, Quiet
    <2>2. CASE disk[File(t)] = Absent
      BY <1>1, <1>2, <1>6, <2>1, <2>2 DEF Read, Fails
    <2>3. CASE disk[File(t)] # Absent
      <3>1. Become(t, [thread[t] EXCEPT !.pc = "write", !.content = disk[File(t)]])
        BY <1>6, <2>3 DEF Read
      <3>2. Goes(t, "write", disk[File(t)], thread[t].outcome)
        BY <1>3, <3>1
      <3>. QED
        BY <1>1, <2>1, <2>3, <3>2 DEF Holds
    <2>. QED
      BY <2>2, <2>3
  <1>7. CASE Write(t)
    BY <1>1, <1>4, <1>7, Zenon DEF Write, Makes, Writes, Against, At
  <1>8. CASE WriteFails(t)
    BY <1>1, <1>2, <1>8 DEF WriteFails, Tears, At
  <1>9. CASE CreateFile(t)
    BY <1>1, <1>4, <1>9, Zenon DEF CreateFile, Makes, Creates, Applying
  <1>10. CASE RenameFile(t)
    <2>1. CASE disk[File(t)] = Absent
      BY <1>1, <1>2, <1>10, <2>1 DEF RenameFile, Fails, Quiet
    <2>2. CASE disk[File(t)] # Absent
      BY <1>1, <1>4, <1>10, <2>2, Zenon DEF RenameFile, Makes, Renames, Applying
    <2>. QED
      BY <2>1, <2>2
  <1>11. CASE DeleteFile(t)
    <2>1. CASE disk[File(t)] = Absent
      BY <1>1, <1>2, <1>11, <2>1 DEF DeleteFile, Fails, Quiet
    <2>2. CASE disk[File(t)] # Absent
      BY <1>1, <1>4, <1>11, <2>2, Zenon DEF DeleteFile, Makes, Deletes, Applying
    <2>. QED
      BY <2>1, <2>2
  <1>. QED
    BY <1>5, <1>6, <1>7, <1>8, <1>9, <1>10, <1>11

\* A step of the system is one of these, of one call, or nothing.
LEMMA StepIs ==
  ASSUME Inv, [Next]_vars
  PROVE  \/ \E t \in Threads : (\E e : Starts(t, e)) \/ Moves(t)
         \/ \E t \in Threads : thread[t].pc \in {"apply", "write"} /\ (Fails(t) \/ Holds(t) \/ Tears(t) \/ Makes(t))
         \/ UNCHANGED vars
  <1>1. ASSUME NEW t \in Threads, NEW e, Begin(t, e) PROVE Starts(t, e)
    BY <1>1, BeginStarts
  <1>2. ASSUME NEW t \in Threads, NextChange(t) PROVE Moves(t)
    BY <1>2, NextMoves
  <1>3. ASSUME NEW t \in Threads,
               Refused(t) \/ Read(t) \/ Write(t) \/ WriteFails(t) \/ CreateFile(t) \/ RenameFile(t) \/ DeleteFile(t)
        PROVE  thread[t].pc \in {"apply", "write"} /\ (Fails(t) \/ Holds(t) \/ Tears(t) \/ Makes(t))
    BY <1>3, InHandGoes
  <1>. QED
    BY <1>1, <1>2, <1>3, Zenon DEF Next

\* The fields of the locals.
LEMMA LocalsHave ==
  ASSUME NEW pc, NEW edit, NEW todo, NEW rest, NEW cur, NEW content, NEW outcome
  PROVE  LET r == Locals(pc, edit, todo, rest, cur, content, outcome)
         IN r.pc = pc /\ r.edit = edit /\ r.cur = cur /\ r.content = content /\ r.outcome = outcome
  BY DEF Locals

\* A call that is not about to write holds no content.
LEMMA WithoutContent ==
  ASSUME Inv, DiskOK, NEW t \in Threads, thread[t].pc # "write"
  PROVE  thread[t].content = Absent
  BY DEF DiskOK, HoldsOK

\* The locals of a call that holds no content.
LEMMA HoldsNothing ==
  ASSUME NEW pc, pc # "write", NEW edit, NEW todo, NEW rest, NEW cur, NEW outcome
  PROVE  HoldsOK(Locals(pc, edit, todo, rest, cur, Absent, outcome))
  BY LocalsHave DEF HoldsOK

\* A call in a quiet step.
LEMMA DiskQuiet ==
  ASSUME Inv, DiskOK, NEW t \in Threads, Quiet, NEW r, Become(t, r), HoldsOK(r)
  PROVE  DiskOK'
  <1>1. disk' = disk /\ marred' = marred
    BY DEF Quiet
  <1>2. DiskTyped(disk') /\ marred' \in [Files -> SUBSET Reasons]
    BY <1>1 DEF DiskOK
  <1>. QED
    BY <1>2, DiskOneCall

\* The steps that change no file.
LEMMA DiskQuietSteps ==
  ASSUME Inv, DiskOK, NEW t \in Threads, (\E e : Starts(t, e)) \/ Moves(t) \/ Fails(t) \/ Holds(t)
  PROVE  DiskOK'
  <1>0. LocalsOK(thread[t])
    BY FieldsOf
  <1>1. ASSUME NEW e, Starts(t, e) PROVE DiskOK'
    <2> DEFINE r == Locals("next", e, e.documentChanges, e.changes, thread[t].cur, Absent, "running")
    <2>1. thread[t].outcome = "none" /\ Quiet
          /\ Become(t, Locals("next", e, e.documentChanges, e.changes, thread[t].cur, thread[t].content, "running"))
      BY <1>1 DEF Starts
    <2>2. thread[t].content = Absent
      <3>1. thread[t].pc # "write"
        BY <1>0, <2>1 DEF LocalsOK
      <3>. QED
        BY <3>1, WithoutContent
    <2>3. Become(t, r)
      BY <2>1, <2>2
    <2>4. HoldsOK(r)
      BY HoldsNothing
    <2>. HIDE DEF r
    <2>. QED
      BY <2>1, <2>3, <2>4, DiskQuiet
  <1>2. ASSUME NEW pc, NEW todo, NEW rest, NEW cur, NEW outcome, MovesTo(t, pc, todo, rest, cur, outcome) PROVE DiskOK'
    <2> DEFINE r == Locals(pc, thread[t].edit, todo, rest, cur, Absent, outcome)
    <2>1. Quiet /\ thread[t].pc = "next" /\ pc # "write"
          /\ Become(t, Locals(pc, thread[t].edit, todo, rest, cur, thread[t].content, outcome))
      BY <1>2 DEF MovesTo
    <2>2. thread[t].content = Absent
      BY <2>1, WithoutContent
    <2>3. Become(t, r)
      BY <2>1, <2>2
    <2>4. HoldsOK(r)
      BY <2>1, HoldsNothing
    <2>. HIDE DEF r
    <2>. QED
      BY <2>1, <2>3, <2>4, DiskQuiet
  <1>3. CASE Fails(t)
    <2> DEFINE r == Locals("idle", thread[t].edit, thread[t].todo, thread[t].rest, thread[t].cur, Absent, "error")
    <2>1. Quiet /\ Become(t, r)
      BY <1>3 DEF Fails, Goes
    <2>2. HoldsOK(r)
      BY HoldsNothing
    <2>. HIDE DEF r
    <2>. QED
      BY <2>1, <2>2, DiskQuiet
  <1>4. CASE Holds(t)
    <2> DEFINE content == disk[File(t)]
               r == Locals("write", thread[t].edit, thread[t].todo, thread[t].rest, thread[t].cur, content,
                           thread[t].outcome)
    <2>1. Quiet /\ Become(t, r) /\ thread[t].pc = "apply" /\ thread[t].cur.kind = "edit" /\ content # Absent
      BY <1>4 DEF Holds, Goes
    <2>2. content \in Seq(STRING)
      <3>1. File(t) \in Files
        BY <2>1, CurIs
      <3>. QED
        BY <2>1, <3>1 DEF DiskOK, DiskTyped
    <2>3. r.pc = "write" /\ r.content = content /\ r.cur.kind = "edit"
      BY <2>1, LocalsHave
    <2>. HIDE DEF r, content
    <2>4. HoldsOK(r)
      BY <2>1, <2>2, <2>3 DEF HoldsOK
    <2>. QED
      BY <2>1, <2>4, DiskQuiet
  <1>. QED
    BY <1>1, <1>2, <1>3, <1>4 DEF Moves

\* What a made change leaves in the files is again a content, or nothing.
LEMMA MadeTyped ==
  ASSUME Inv, DiskOK, NEW t \in Threads, thread[t].pc \in {"apply", "write"}, Makes(t)
  PROVE  DiskTyped(disk') /\ marred' \in [Files -> SUBSET Reasons]
  <1> DEFINE c == thread[t].cur
             file == File(t)
  <1>1. c \in Change /\ file \in Files /\ DiskTyped(disk) /\ marred \in [Files -> SUBSET Reasons]
    BY CurIs DEF DiskOK
  <1>2. CASE Writes(t)
    <2> DEFINE s == c.edits
               content == thread[t].content
               x == ApplyTextEditsToContent(content, s)
    <2>0. thread[t].pc = "write" /\ Mark(file, Against(t)) /\ disk' = [disk EXCEPT ![file] = x]
      BY <1>2 DEF Writes
    <2>1. content \in Seq(STRING) /\ c.kind = "edit"
      BY <2>0 DEF DiskOK, HoldsOK
    <2>2. s \in Seq(TextEdit(STRING))
      BY <1>1, <2>1, ChangeIs
    <2>3. NL \in STRING
      BY WorkspaceAssumption
    <2>4. Against(t) \subseteq Reasons
      BY DEF Against, Reasons
    <2>. HIDE DEF s, content
    <2>5. x \in Seq(STRING)
      BY <2>1, <2>2, <2>3, AppliedTyped
    <2>. HIDE DEF x, file
    <2>6. DiskTyped([disk EXCEPT ![file] = x])
      BY <1>1, <2>5, TypedExcept
    <2>7. marred' \in [Files -> SUBSET Reasons]
      BY <1>1, <2>0, <2>4 DEF Mark
    <2>. QED
      BY <2>0, <2>6, <2>7
  <1>3. ASSUME NEW x \in {<<>>, Absent}, Heal(file), disk' = [disk EXCEPT ![file] = x]
        PROVE  DiskTyped(disk') /\ marred' \in [Files -> SUBSET Reasons]
    <2>1. x = Absent \/ x \in Seq(STRING)
      <3>1. <<>> \in Seq(STRING)
        OBVIOUS
      <3>. QED
        BY <3>1
    <2>. HIDE DEF file
    <2>2. DiskTyped([disk EXCEPT ![file] = x])
      BY <1>1, <2>1, TypedExcept
    <2>3. marred' \in [Files -> SUBSET Reasons]
      BY <1>1, <1>3 DEF Heal
    <2>. QED
      BY <1>3, <2>2, <2>3
  <1>4. CASE Renames(t)
    <2> DEFINE to == c.to
               x == disk[file]
               d == [disk EXCEPT ![file] = Absent]
    <2>1. to \in Files
      BY <1>1, <1>4, ChangeIs DEF Renames
    <2>2. x = Absent \/ x \in Seq(STRING)
      BY <1>1 DEF DiskTyped
    <2>3. disk' = [d EXCEPT ![to] = x] /\ marred' = [marred EXCEPT ![file] = {}, ![to] = marred[file]]
      BY <1>4 DEF Renames
    <2>. HIDE DEF x, file, to
    <2>4. DiskTyped(d)
      BY <1>1, TypedExcept
    <2>. HIDE DEF d
    <2>5. DiskTyped([d EXCEPT ![to] = x])
      BY <2>1, <2>2, <2>4, TypedExcept
    <2>6. marred' \in [Files -> SUBSET Reasons]
      BY <1>1, <2>1, <2>3
    <2>. QED
      BY <2>3, <2>5, <2>6
  <1>5. Writes(t) \/ (Heal(file) /\ \E x \in {<<>>, Absent} : disk' = [disk EXCEPT ![file] = x]) \/ Renames(t)
    BY DEF Makes, Creates, Deletes
  <1>. QED
    BY <1>2, <1>3, <1>4, <1>5

\* The steps that change a file.
LEMMA DiskLoudSteps ==
  ASSUME Inv, DiskOK, NEW t \in Threads, thread[t].pc \in {"apply", "write"}, Tears(t) \/ Makes(t)
  PROVE  DiskOK'
  <1>1. CASE Tears(t)
    <2> DEFINE r == Locals("idle", thread[t].edit, thread[t].todo, thread[t].rest, thread[t].cur, Absent, "error")
               file == File(t)
    <2>1. Become(t, r) /\ disk' = [disk EXCEPT ![file] = <<>>] /\ Mark(file, {"torn"})
      BY <1>1 DEF Tears, Goes
    <2>2. HoldsOK(r)
      BY HoldsNothing
    <2>3. file \in Files /\ DiskTyped(disk) /\ marred \in [Files -> SUBSET Reasons]
      BY CurIs DEF DiskOK
    <2>. HIDE DEF r, file
    <2>4. DiskTyped([disk EXCEPT ![file] = <<>>])
      <3>1. <<>> \in Seq(STRING)
        OBVIOUS
      <3>. QED
        BY <2>3, <3>1, TypedExcept
    <2>5. DiskTyped(disk') /\ marred' \in [Files -> SUBSET Reasons]
      BY <2>1, <2>3, <2>4 DEF Mark, Reasons
    <2>. QED
      BY <2>1, <2>2, <2>5, DiskOneCall
  <1>2. CASE Makes(t)
    <2> DEFINE r == Locals("next", thread[t].edit, thread[t].todo, thread[t].rest, thread[t].cur, Absent,
                           thread[t].outcome)
    <2>1. Become(t, r)
      BY <1>2 DEF Makes, Goes
    <2>2. HoldsOK(r)
      BY HoldsNothing
    <2>3. DiskTyped(disk') /\ marred' \in [Files -> SUBSET Reasons]
      BY <1>2, MadeTyped
    <2>. HIDE DEF r
    <2>. QED
      BY <2>1, <2>2, <2>3, DiskOneCall
  <1>. QED
    BY <1>1, <1>2

LEMMA InitDiskOK == Init => DiskOK
  <1>. SUFFICES ASSUME Init PROVE DiskOK
    OBVIOUS
  <1>1. DiskTyped(disk)
    <2>1. disk = Initial /\ DOMAIN Initial = Files
      BY WorkspaceAssumption DEF Init
    <2>2. \A f \in Files : disk[f] = Absent \/ disk[f] \in Seq(STRING)
      BY <2>1, WorkspaceAssumption
    <2>. QED
      BY <2>1, <2>2 DEF DiskTyped
  <1>2. ASSUME NEW t \in Threads PROVE HoldsOK(thread[t])
    <2>1. thread[t] = Locals("idle", NoEdit, <<>>, {}, NoChange, Absent, "none")
      BY DEF Init, Locals
    <2>. QED
      BY <2>1, HoldsNothing
  <1>. QED
    BY <1>1, <1>2 DEF DiskOK, Init

LEMMA NextDiskOK == Inv /\ DiskOK /\ [Next]_vars => DiskOK'
  <1>1. ASSUME Inv, DiskOK, UNCHANGED vars PROVE DiskOK'
    <2>1. disk' = disk /\ thread' = thread /\ marred' = marred
      BY <1>1 DEF vars
    <2>2. DiskTyped(disk') /\ marred' \in [Files -> SUBSET Reasons] /\ \A t \in Threads : HoldsOK(thread'[t])
      BY <1>1, <2>1 DEF DiskOK
    <2>. QED
      BY <2>2 DEF DiskOK, DiskTyped, HoldsOK
  <1>. QED
    BY <1>1, StepIs, DiskQuietSteps, DiskLoudSteps

\* The contents of the files, and what each call holds of them: the strengthening of TypeOK.
THEOREM FilesInvariance == Spec => []DiskOK
  BY InitDiskOK, NextDiskOK, Invariance, PTL DEF Spec

(***************************************************************************)
(* The type invariant.                                                     *)
(***************************************************************************)
THEOREM AlwaysTyped == Spec => []TypeOK
  <1>1. Inv /\ DiskOK => TypeOK
    <2>. SUFFICES ASSUME Inv, DiskOK PROVE TypeOK
      OBVIOUS
    <2>1. DOMAIN disk = Files /\ \A f \in Files : disk[f] = Absent \/ disk[f] \in Seq(STRING)
      BY DEF DiskOK, DiskTyped
    <2>2. ASSUME NEW t \in Threads
          PROVE  /\ thread[t].pc \in {"idle", "next", "apply", "write"}
                 /\ thread[t].outcome \in {"none", "running", "ok", "error"}
                 /\ At(t, "idle") <=> thread[t].outcome # "running"
                 /\ At(t, "write") <=> thread[t].content # Absent
      <3>1. LocalsOK(thread[t]) /\ HoldsOK(thread[t])
        BY FieldsOf DEF DiskOK
      <3>. QED
        BY <3>1 DEF LocalsOK, HoldsOK, At
    <2>. QED
      BY <2>1, <2>2 DEF TypeOK, DiskOK
  <1>. QED
    BY Invariance, FilesInvariance, <1>1, PTL

(***************************************************************************)
(* The files without a mark hold what the changes made add up to:          *)
(* inductive together with the invariants above.                           *)
(***************************************************************************)
Follows == Agree(disk, Effects(log), marred)

(***************************************************************************)
(* A change that is made has the effect it means, unless it leaves a mark. *)
(***************************************************************************)
LEMMA WritesFollow ==
  ASSUME Inv, DiskOK, NEW t \in Threads, thread[t].pc \in {"apply", "write"}, Writes(t),
         NEW e, Agree(disk, e, marred)
  PROVE  Agree(disk', Effect(e, thread[t].cur), marred')
  <1> DEFINE c == thread[t].cur
             file == File(t)
             s == c.edits
             content == thread[t].content
             x == ApplyTextEditsToContent(content, s)
             y == Edited(e[file], s)
  <1>1. c \in Change /\ file = c.file /\ file \in Files /\ marred \in [Files -> SUBSET Reasons]
    BY CurIs DEF File, DiskOK
  <1>2. thread[t].pc = "write" /\ Mark(file, Against(t)) /\ disk' = [disk EXCEPT ![file] = x]
    BY DEF Writes
  <1>3. c.kind = "edit" /\ content \in Seq(STRING) /\ content # Absent
    BY <1>2 DEF DiskOK, HoldsOK
  <1>4. s \in Seq(TextEdit(STRING)) /\ NL \in STRING
    BY <1>1, <1>3, ChangeIs, WorkspaceAssumption
  <1>5. Effect(e, c) = [e EXCEPT ![file] = y]
    BY <1>1, <1>3, EffectIs
  <1>6. marred' = [marred EXCEPT ![file] = @ \union Against(t)]
    BY <1>2 DEF Mark
  <1>7. ASSUME marred'[file] = {} PROVE x = y
    <2>1. marred[file] = {} /\ Against(t) = {}
      BY <1>1, <1>6, <1>7
    <2>2. disk[file] = content /\ Separate(s)
      BY <2>1 DEF Against
    <2>3. e[file] = content
      BY <1>1, <2>1, <2>2 DEF Agree
    <2>4. Legal(s) /\ DistinctStarts(s)
      BY <2>2 DEF Separate
    <2>. HIDE DEF s, content
    <2>5. x = Replaced(content, s)
      BY <1>3, <1>4, <2>4, EditsReplaceAtOnce
    <2>6. y = Replaced(content, s)
      BY <1>3, <2>3 DEF Edited
    <2>. QED
      BY <2>5, <2>6, Zenon
  <1>. HIDE DEF x, y, file, c
  <1>8. \A g \in Files \ {file} : marred'[g] = {} => marred[g] = {}
    BY <1>1, <1>6
  <1>9. Agree([disk EXCEPT ![file] = x], [e EXCEPT ![file] = y], marred')
    <2> DEFINE more == marred'
    <2>1. /\ \A g \in Files \ {file} : more[g] = {} => marred[g] = {}
          /\ more[file] = {} => x = y
      BY <1>7, <1>8
    <2>. HIDE DEF more
    <2>2. Agree([disk EXCEPT ![file] = x], [e EXCEPT ![file] = y], more)
      BY <1>1, <2>1, AgreeExcept
    <2>. QED
      BY <2>2 DEF more
  <1>10. Agree(disk', Effect(e, c), marred')
    BY <1>2, <1>5, <1>9, Zenon
  <1>. QED
    BY <1>10 DEF c

LEMMA EmptiedFollow ==
  ASSUME Inv, DiskOK, NEW t \in Threads, thread[t].pc \in {"apply", "write"}, Creates(t) \/ Deletes(t),
         NEW e, Agree(disk, e, marred)
  PROVE  Agree(disk', Effect(e, thread[t].cur), marred')
  <1> DEFINE c == thread[t].cur
             file == File(t)
             more == marred'
  <1>1. file = c.file /\ file \in Files /\ marred \in [Files -> SUBSET Reasons]
    BY CurIs DEF File, DiskOK
  <1>2. PICK x : disk' = [disk EXCEPT ![file] = x] /\ Effect(e, c) = [e EXCEPT ![file] = x]
    <2>1. c.kind = "create" => Effect(e, c) = [e EXCEPT ![file] = <<>>]
      BY <1>1, EffectIs
    <2>2. c.kind = "delete" => Effect(e, c) = [e EXCEPT ![file] = Absent]
      BY <1>1, EffectIs
    <2>. QED
      BY <2>1, <2>2 DEF Creates, Deletes
  <1>3. more = [marred EXCEPT ![file] = {}]
    BY DEF Creates, Deletes, Heal
  <1>. HIDE DEF c, file, more
  <1>4. \A g \in Files \ {file} : more[g] = {} => marred[g] = {}
    BY <1>1, <1>3
  <1>5. Agree([disk EXCEPT ![file] = x], [e EXCEPT ![file] = x], more)
    BY <1>1, <1>4, AgreeExcept
  <1>6. Agree(disk', Effect(e, c), more)
    BY <1>2, <1>5, Zenon
  <1>. QED
    BY <1>6 DEF c, more

LEMMA RenamedFollow ==
  ASSUME Inv, DiskOK, NEW t \in Threads, thread[t].pc \in {"apply", "write"}, Renames(t),
         NEW e, Agree(disk, e, marred)
  PROVE  Agree(disk', Effect(e, thread[t].cur), marred')
  <1> DEFINE c == thread[t].cur
             file == File(t)
             to == c.to
             more == marred'
             x == disk[file]
             y == e[file]
             gone == [marred EXCEPT ![file] = {}]
  <1>1. c \in Change /\ file = c.file /\ file \in Files /\ to \in Files /\ marred \in [Files -> SUBSET Reasons]
    BY CurIs, ChangeIs DEF File, DiskOK, Renames
  <1>2. /\ disk' = [disk EXCEPT ![file] = Absent, ![to] = x]
        /\ more = [marred EXCEPT ![file] = {}, ![to] = marred[file]]
    BY DEF Renames
  <1>3. Effect(e, c) = [e EXCEPT ![file] = Absent, ![to] = y]
    BY <1>1, EffectIs DEF Renames
  <1>4. marred[file] = {} => x = y
    BY <1>1 DEF Agree
  <1>. HIDE DEF c, file, to, more, x, y
  <1>5. gone \in [Files -> SUBSET Reasons] /\ \A g \in Files \ {file} : gone[g] = {} => marred[g] = {}
    BY <1>1
  <1>6. more = [gone EXCEPT ![to] = marred[file]]
    BY <1>2
  <1>. HIDE DEF gone
  <1>7. Agree([disk EXCEPT ![file] = Absent], [e EXCEPT ![file] = Absent], gone)
    BY <1>1, <1>5, AgreeExcept
  <1>8. /\ \A g \in Files \ {to} : more[g] = {} => gone[g] = {}
        /\ more[to] = {} => x = y
    BY <1>1, <1>4, <1>5, <1>6
  <1> DEFINE d1 == [disk EXCEPT ![file] = Absent]
             e1 == [e EXCEPT ![file] = Absent]
  <1>9. Agree([d1 EXCEPT ![to] = x], [e1 EXCEPT ![to] = y], more)
    <2>1. Agree(d1, e1, gone)
      BY <1>7
    <2>. HIDE DEF d1, e1
    <2>. QED
      BY <1>1, <1>8, <2>1, AgreeExcept
  <1>10. disk' = [d1 EXCEPT ![to] = x] /\ Effect(e, c) = [e1 EXCEPT ![to] = y]
    BY <1>2, <1>3
  <1>. HIDE DEF d1, e1
  <1>11. Agree(disk', Effect(e, c), more)
    BY <1>9, <1>10, Zenon
  <1>. QED
    BY <1>11 DEF c, more

LEMMA MadeFollows ==
  ASSUME Inv, DiskOK, NEW t \in Threads, thread[t].pc \in {"apply", "write"}, Makes(t),
         NEW e, Agree(disk, e, marred)
  PROVE  Agree(disk', Effect(e, thread[t].cur), marred')
  BY WritesFollow, EmptiedFollow, RenamedFollow DEF Makes

LEMMA NextFollows ==
  ASSUME Inv, DiskOK, Follows, [Next]_vars
  PROVE  Follows'
  <1>1. CASE UNCHANGED <<disk, log, marred>>
    <2>1. disk' = disk /\ log' = log /\ marred' = marred
      BY <1>1
    <2>2. Agree(disk, Effects(log), marred)
      BY DEF Follows
    <2>3. Effects(log') = Effects(log)
      BY <2>1
    <2>4. Agree(disk', Effects(log'), marred')
      BY <2>1, <2>2, <2>3, Zenon
    <2>. QED
      BY <2>4 DEF Follows
  <1>2. ASSUME NEW t \in Threads, thread[t].pc \in {"apply", "write"}, Tears(t) PROVE Follows'
    <2> DEFINE file == File(t)
               e == Effects(log)
               more == marred'
    <2>1. disk' = [disk EXCEPT ![file] = <<>>] /\ more = [marred EXCEPT ![file] = @ \union {"torn"}] /\ log' = log
      BY <1>2 DEF Tears, Mark
    <2>2. Agree(disk, e, marred) /\ file \in Files /\ marred \in [Files -> SUBSET Reasons]
      BY <1>2, CurIs DEF Follows, DiskOK
    <2>3. Effects(log') = e
      BY <2>1
    <2>. HIDE DEF file, e, more
    <2>4. more[file] # {} /\ \A g \in Files \ {file} : more[g] = {} => marred[g] = {}
      BY <2>1, <2>2
    <2>5. Agree(disk', e, more)
      BY <2>1, <2>2, <2>4 DEF Agree
    <2>6. Agree(disk', Effects(log'), more)
      BY <2>3, <2>5, Zenon
    <2>. QED
      BY <2>6 DEF Follows, more
  <1>3. ASSUME NEW t \in Threads, thread[t].pc \in {"apply", "write"}, Makes(t) PROVE Follows'
    <2> DEFINE c == thread[t].cur
               x == [by |-> t, change |-> c]
               S == [by : Threads, change : Change]
               e == Effects(log)
    <2>1. c \in Change
      BY <1>3, CurIs
    <2>2. log \in Seq(S) /\ x \in S /\ x.change = c /\ log' = Append(log, x)
      BY <1>3, <2>1 DEF Inv, Makes
    <2>3. Agree(disk, e, marred)
      BY DEF Follows
    <2>. HIDE DEF e
    <2>4. Agree(disk', Effect(e, c), marred')
      BY <1>3, <2>3, MadeFollows
    <2>. HIDE DEF S, x, c
    <2>5. Effects(Append(log, x)) = Effect(Effects(log), x.change)
      BY <2>2, EffectsOfMore
    <2>6. Effects(log') = Effect(e, c)
      BY <2>2, <2>5, Zenon DEF e
    <2>7. Agree(disk', Effects(log'), marred')
      BY <2>4, <2>6, Zenon
    <2>. QED
      BY <2>7 DEF Follows
  <1>4. ASSUME NEW t \in Threads, (\E e : Starts(t, e)) \/ Moves(t) \/ Fails(t) \/ Holds(t)
        PROVE  UNCHANGED <<disk, log, marred>>
    BY <1>4 DEF Starts, Moves, MovesTo, Fails, Holds, Quiet
  <1>5. UNCHANGED vars => UNCHANGED <<disk, log, marred>>
    BY DEF vars
  <1>. QED
    BY <1>1, <1>2, <1>3, <1>4, <1>5, StepIs, Zenon

LEMMA InitFollows == Init => Follows
  <1>. SUFFICES ASSUME Init PROVE Follows
    OBVIOUS
  <1>1. disk = Initial /\ log = <<>> /\ DOMAIN Initial = Files
    BY WorkspaceAssumption DEF Init
  <1>2. Effects(log) = Initial
    BY <1>1, EffectsOfNone
  <1>3. Agree(disk, Initial, marred)
    BY <1>1 DEF Agree
  <1>. QED
    BY <1>2, <1>3, Zenon DEF Follows

(***************************************************************************)
(* Every file holds what the changes made add up to, each list of edits    *)
(* replaced at once in the positions the server gave, unless a write to it *)
(* failed or took away what was written since it was read, or edits of one *)
(* list began at one place or overlapped: for any files, contents, edits   *)
(* and number of calls beside each other, on the same files or not, and    *)
(* wherever a call fails.                                                  *)
(***************************************************************************)
THEOREM DiskAlwaysFollows == Spec => []DiskFollowsLog
  <1>1. Inv /\ DiskOK /\ Follows /\ [Next]_vars => Follows'
    BY NextFollows
  <1>2. Follows => DiskFollowsLog
    BY DEF Follows, Agree, DiskFollowsLog
  <1>. QED
    BY <1>1, <1>2, InitFollows, Invariance, FilesInvariance, PTL DEF Spec

=============================================================================
